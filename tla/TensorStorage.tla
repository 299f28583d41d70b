---------------------------- MODULE TensorStorage ----------------------------
(***************************************************************************)
(* Tensors as tensor.cpp builds them: a tensor is a shared handle on a     *)
(* shape and a Storage, a Storage owns a vector on the CPU or a buffer on  *)
(* a CUDA device.  The functions that make a Storage do so step by step,   *)
(* and every step may fail; the Storage they hold meanwhile is released by *)
(* the exception.  Optimizers write parameters in place, and a CUDA view   *)
(* is a raw pointer into a buffer.                                         *)
(***************************************************************************)
EXTENDS Naturals, Sequences, FiniteSets

CONSTANTS
  Names,      \* the variables of the program that hold tensors
  Shapes, CountOf,    \* the shapes, and the number of elements of each
  Cuda,               \* the CUDA devices
  Storages, Buffers,  \* Storage objects, and allocations on the devices
  Values, Zero, One, Garbage,  \* elements, as one value per buffer
  HostValues,         \* those the program copies from the host
  Nothing,            \* the content of a tensor without elements
  Stepped(_),         \* an optimizer step on the elements
  MaxCalls, MaxFaults \* bounds on the calls of the program and on failures

ASSUME CountAssumption == CountOf \in [Shapes -> Nat]
ASSUME DevicesAssumption == "cpu" \notin Cuda
ASSUME ValuesAssumption ==
  /\ {Zero, One, Garbage} \subseteq Values /\ HostValues \subseteq Values
  /\ Nothing \notin Values
  /\ \A v \in Values : Stepped(v) \in Values
ASSUME LocalAssumption == "local" \notin Names
ASSUME BoundsAssumption == MaxCalls \in Nat /\ MaxFaults \in Nat

VARIABLES
  tensor,   \* what each variable holds: none or one tensor, a shape and a Storage
  storage,  \* the Storage objects that exist: device, count, data, buffer
  owners,   \* the references to each Storage, which its shared_ptr counts
  memory,   \* the buffers allocated: their device and elements
  lost,     \* buffers whose cudaFree was never reached
  views,    \* the CUDA views in use: the pointer, and the Storage it was taken from
  pc, call, \* where the function under way is, and its arguments
  local,    \* the Storage it holds: none or one
  params,   \* the parameters of an optimizer step under way that have a gradient
  at,       \* the one it is at
  before,   \* the content of every Storage when it began
  calls, faults

vars == <<tensor, storage, owners, memory, lost, views, pc, call, local, params, at, before, calls, faults>>

Devices == {"cpu"} \cup Cuda
None == <<>>

StorageOf(n) == tensor[n][1].storage
Held(n) == tensor[n] # None
Exists(s) == storage[s] # None

(* The elements of a Storage, wherever they are.                           *)
Content(s) ==
  IF storage[s][1].count = 0 THEN Nothing
  ELSE IF storage[s][1].device = "cpu" THEN storage[s][1].data
  ELSE IF memory[storage[s][1].buffer[1]] = None THEN Garbage
  ELSE memory[storage[s][1].buffer[1]][1].value

(* The arguments of a call of a factory, of to and of clone.               *)
Call(op, dest, from, shape, device, value) ==
  [op |-> op, dest |-> dest, from |-> from, shape |-> shape, device |-> device, value |-> value]
NoCall == [op |-> "none"]

TypeOK ==
  /\ tensor \in [Names -> {None} \cup {<<[shape |-> sh, storage |-> s]>> : sh \in Shapes, s \in Storages}]
  /\ \A s \in Storages : Exists(s) =>
       /\ storage[s][1].device \in Devices
       /\ storage[s][1].count \in {CountOf[sh] : sh \in Shapes} \cup {0}
       /\ Content(s) \in Values \cup {Nothing}
  /\ owners \in [Storages -> SUBSET (Names \cup {"local"})]
  /\ lost \subseteq Buffers
  /\ pc \in {"ready", "storage", "alloc", "copy", "wrap", "release", "step", "failed"}
  /\ at \in 1 .. Len(params) + 1
  /\ calls \in 0 .. MaxCalls /\ faults \in 0 .. MaxFaults

-----------------------------------------------------------------------------
Init ==
  /\ tensor = [n \in Names |-> None]
  /\ storage = [s \in Storages |-> None]
  /\ owners = [s \in Storages |-> {}]
  /\ memory = [b \in Buffers |-> None]
  /\ lost = {} /\ views = {} /\ pc = "ready" /\ call = NoCall /\ local = None
  /\ params = <<>> /\ at = 1 /\ before = [s \in Storages |-> Nothing]
  /\ calls = 0 /\ faults = 0

Ready == pc = "ready" /\ calls < MaxCalls
Called == calls' = calls + 1

(* Once a Storage has no reference left, it is destroyed before anything   *)
(* else happens.                                                           *)
Settle ==
  pc' = IF \E s \in Storages : Exists(s) /\ owners'[s] = {} THEN "release" ELSE "ready"

(* Mutated: the new tensor takes no reference.                             *)
AssignBorrowed(n, t) ==
  /\ tensor' = [tensor EXCEPT ![n] = t]
  /\ owners' = [s \in Storages |-> owners[s] \ {n}]
  /\ Settle

(* A variable gets a tensor, or none, and lets go of the one it had.       *)
Assign(n, t) ==
  /\ tensor' = [tensor EXCEPT ![n] = t]
  /\ owners' = [s \in Storages |->
       IF t # None /\ t[1].storage = s THEN (owners[s] \ {"local"}) \cup {n} ELSE owners[s] \ {n}]
  /\ Settle

(* A shared_ptr destroys the Storage without references, and ~Storage      *)
(* frees its buffer, unless cudaSetDevice fails.  The views of a Storage   *)
(* may not be used any longer.                                             *)
Orphans == {s \in Storages : Exists(s) /\ owners[s] = {}}

FreeBuffers(buffers) ==
  \/ /\ memory' = [b \in Buffers |-> IF b \in buffers THEN None ELSE memory[b]]
     /\ UNCHANGED <<lost, faults>>
  \/ /\ buffers # {} /\ faults < MaxFaults
     /\ faults' = faults + 1 /\ lost' = lost \cup buffers
     /\ UNCHANGED memory

Release ==
  /\ pc = "release"
  /\ storage' = [s \in Storages |-> IF s \in Orphans THEN None ELSE storage[s]]
  /\ FreeBuffers({b \in Buffers : \E s \in Orphans : storage[s][1].buffer = <<b>>})
  /\ views' = {v \in views : v.of \notin Orphans}
  /\ pc' = "ready"
  /\ UNCHANGED <<tensor, owners, call, local, params, at, before, calls>>

(* Mutated: a raw pointer is not released by an exception.                 *)
ThrowRaw ==
  /\ local' = None /\ call' = NoCall
  /\ UNCHANGED owners
  /\ Settle

(* Any step of a function under way throws: it lets go of its Storage.     *)
Throw ==
  /\ local' = None /\ call' = NoCall
  /\ owners' = [s \in Storages |-> owners[s] \ {"local"}]
  /\ Settle

Fault ==
  /\ pc \in {"storage", "alloc", "copy", "wrap"}
  /\ faults < MaxFaults /\ faults' = faults + 1
  /\ Throw
  /\ UNCHANGED <<tensor, storage, memory, lost, views, params, at, before, calls>>

-----------------------------------------------------------------------------
(* Copy and assignment, a transfer to the device it is on, and reshape.    *)

Alias ==
  /\ Ready /\ Called
  /\ \E n, m \in Names, shape \in Shapes :
       /\ Held(m) /\ CountOf[shape] = storage[StorageOf(m)][1].count
       /\ Assign(n, <<[shape |-> shape, storage |-> StorageOf(m)]>>)
  /\ UNCHANGED <<storage, memory, lost, views, call, local, params, at, before, faults>>

(* Destruction; a moved-from tensor, too, holds nothing.                   *)
Drop ==
  /\ Ready /\ Called
  /\ \E n \in Names : Held(n) /\ Assign(n, None)
  /\ UNCHANGED <<storage, memory, lost, views, call, local, params, at, before, faults>>

Move ==
  /\ Ready /\ Called
  /\ \E n, m \in Names :
       /\ n # m /\ Held(m)
       /\ tensor' = [tensor EXCEPT ![n] = tensor[m], ![m] = None]
       /\ owners' = [s \in Storages |->
            IF s = StorageOf(m) THEN (owners[s] \ {m}) \cup {n} ELSE owners[s] \ {n}]
  /\ Settle
  /\ UNCHANGED <<storage, memory, lost, views, call, local, params, at, before, faults>>

-----------------------------------------------------------------------------
(* The functions that make a Storage: the factories, to and clone.  What   *)
(* validate_device and the checks of the arguments refuse is not begun.    *)

Begin ==
  /\ Ready /\ Called
  /\ \E n \in Names, device \in Devices :
       \/ \E op \in {"empty", "zeros", "ones"}, shape \in Shapes :
            call' = Call(op, n, n, shape, device, Nothing)
       \/ \E v \in HostValues \cup {Nothing}, shape \in Shapes :
            call' = Call("from_host", n, n, shape, device, v)
       \/ \E m \in Names :
            /\ Held(m)
            /\ call' = Call(IF device = storage[StorageOf(m)][1].device THEN "clone" ELSE "to",
                            n, m, tensor[m][1].shape, device, Nothing)
  /\ pc' = "storage"
  /\ UNCHANGED <<tensor, storage, owners, memory, lost, views, local, params, at, before, faults>>

(* Mutated: the count is one of bytes.                                     *)
FreshStorageInBytes(device, count, data, buffer) ==
  <<[device |-> device, count |-> 4 * count, data |-> data, buffer |-> buffer]>>

FreshStorage(device, count, data, buffer) ==
  <<[device |-> device, count |-> count, data |-> data, buffer |-> buffer]>>

(* make_shared<Storage>; on the CPU, a vector of zeros.                    *)
NewStorage ==
  /\ pc = "storage"
  /\ \E s \in Storages : ~Exists(s)
  /\ LET s == CHOOSE t \in Storages : ~Exists(t)
         n == CountOf[call.shape]
     IN /\ storage' = [storage EXCEPT ![s] =
             FreshStorage(call.device, IF call.device = "cpu" THEN n ELSE 0, Zero, None)]
        /\ owners' = [owners EXCEPT ![s] = {"local"}]
        /\ local' = <<s>>
        /\ pc' = IF n = 0 THEN "wrap" ELSE IF call.device = "cpu" THEN "copy" ELSE "alloc"
  /\ UNCHANGED <<tensor, memory, lost, views, call, params, at, before, calls, faults>>

(* cudaMalloc.                                                             *)
Allocate ==
  /\ pc = "alloc"
  /\ \E b \in Buffers : memory[b] = None
  /\ LET b == CHOOSE c \in Buffers : memory[c] = None
     IN /\ memory' = [memory EXCEPT ![b] = <<[device |-> call.device, value |-> Garbage]>>]
        /\ storage' = [storage EXCEPT ![local[1]] =
             FreshStorage(call.device, CountOf[call.shape], Zero, <<b>>)]
  /\ pc' = "copy"
  /\ UNCHANGED <<tensor, owners, lost, views, call, local, params, at, before, calls, faults>>

(* The elements of a Storage are set; a copy to it that fails leaves any.  *)
SetContent(s, v) ==
  IF storage[s][1].device = "cpu"
  THEN storage' = [storage EXCEPT ![s] = <<[@[1] EXCEPT !.data = v]>>] /\ UNCHANGED memory
  ELSE memory' = [memory EXCEPT ![storage[s][1].buffer[1]] = <<[@[1] EXCEPT !.value = v]>>]
       /\ UNCHANGED storage

(* What the new Storage is to hold.                                        *)
Wanted ==
  CASE call.op = "empty" -> IF call.device = "cpu" THEN Zero ELSE Garbage
    [] call.op = "zeros" -> Zero
    [] call.op = "ones" -> One
    [] call.op = "from_host" -> call.value
    [] call.op \in {"to", "clone"} -> Content(StorageOf(call.from))

(* Mutated: source and destination of the transfer are swapped.            *)
CopySwapped ==
  /\ pc = "copy"
  /\ \/ /\ call.op \in {"to", "clone"}
        /\ SetContent(StorageOf(call.from), Content(local[1]))
     \/ call.op \notin {"to", "clone"} /\ SetContent(local[1], Zero)
  /\ pc' = "wrap"
  /\ UNCHANGED <<tensor, owners, lost, views, call, local, params, at, before, calls, faults>>

(* A null pointer to from_host is refused here.                            *)
Copy ==
  /\ pc = "copy"
  /\ \/ /\ Wanted # Nothing /\ SetContent(local[1], Wanted) /\ pc' = "wrap"
        /\ UNCHANGED <<owners, local, call>>
     \/ Wanted = Nothing /\ Throw /\ UNCHANGED <<storage, memory>>
  /\ UNCHANGED <<tensor, lost, views, params, at, before, calls, faults>>

(* Mutated: a clone shares the Storage of its source.                      *)
WrapShared ==
  /\ pc = "wrap"
  /\ Assign(call.dest, <<[shape |-> call.shape,
       storage |-> IF call.op = "clone" THEN StorageOf(call.from) ELSE local[1]]>>)
  /\ local' = None /\ call' = NoCall
  /\ UNCHANGED <<storage, memory, lost, views, params, at, before, calls, faults>>

Wrap ==
  /\ pc = "wrap"
  /\ Assign(call.dest, <<[shape |-> call.shape, storage |-> local[1]]>>)
  /\ local' = None /\ call' = NoCall
  /\ UNCHANGED <<storage, memory, lost, views, params, at, before, calls, faults>>

-----------------------------------------------------------------------------
(* Writes in place.                                                        *)

(* Mutated: a write to a CUDA tensor allocates the buffer anew.            *)
CopyFromHostAnew ==
  /\ Ready /\ Called
  /\ \E n \in Names, v \in HostValues, b \in Buffers :
       /\ Held(n) /\ storage[StorageOf(n)][1].buffer # None /\ memory[b] = None
       /\ storage' = [storage EXCEPT ![StorageOf(n)][1].buffer = <<b>>]
       /\ memory' = [memory EXCEPT ![b] = <<[device |-> storage[StorageOf(n)][1].device, value |-> v]>>,
                                   ![storage[StorageOf(n)][1].buffer[1]] = None]
  /\ UNCHANGED <<tensor, owners, lost, views, pc, call, local, params, at, before, faults>>

(* A transfer to the device that fails may have written anything.          *)
CopyFromHost ==
  /\ Ready /\ Called
  /\ \E n \in Names, v \in HostValues :
       /\ Held(n) /\ storage[StorageOf(n)][1].count # 0
       /\ \/ SetContent(StorageOf(n), v) /\ UNCHANGED faults
          \/ /\ faults < MaxFaults /\ faults' = faults + 1
             /\ storage[StorageOf(n)][1].device # "cpu"
             /\ SetContent(StorageOf(n), Garbage)
  /\ UNCHANGED <<tensor, owners, lost, views, pc, call, local, params, at, before>>

(* cuda_view and cuda_view_mut, and a kernel of the program that writes    *)
(* through the pointer.                                                    *)
View ==
  /\ Ready /\ Called
  /\ \E n \in Names :
       /\ Held(n) /\ storage[StorageOf(n)][1].device # "cpu"
       /\ views' = views \cup {[data |-> storage[StorageOf(n)][1].buffer, of |-> StorageOf(n)]}
  /\ UNCHANGED <<tensor, storage, owners, memory, lost, pc, call, local, params, at, before, faults>>

WriteView ==
  /\ Ready /\ Called
  /\ \E v \in views, e \in HostValues :
       /\ v.data # None
       /\ memory' = [memory EXCEPT ![v.data[1]] = <<[@[1] EXCEPT !.value = e]>>]
  /\ UNCHANGED <<tensor, storage, owners, lost, views, pc, call, local, params, at, before, faults>>

-----------------------------------------------------------------------------
(* SGD::step, whose parameters hold the tensors of some variables.         *)

BeginStep ==
  /\ Ready /\ Called
  /\ \E ps \in {<<n>> : n \in Names} \cup (Names \X Names) :
       (\A i \in DOMAIN ps : Held(ps[i])) /\ params' = ps
  /\ pc' = "step" /\ at' = 1
  /\ before' = [s \in Storages |-> IF Exists(s) THEN Content(s) ELSE Nothing]
  /\ UNCHANGED <<tensor, storage, owners, memory, lost, views, call, local, faults>>

ParamStorage(i) == StorageOf(params[i])

(* Mutated: a kernel that failed is launched again.                        *)
StepRetried ==
  /\ pc = "step" /\ at <= Len(params)
  /\ LET s == ParamStorage(at)
     IN /\ storage[s][1].count # 0 /\ SetContent(s, Stepped(Content(s)))
        /\ \/ at' = at + 1 /\ UNCHANGED faults
           \/ storage[s][1].device # "cpu" /\ faults < MaxFaults /\ faults' = faults + 1 /\ UNCHANGED at
  /\ UNCHANGED <<tensor, owners, lost, views, pc, call, local, params, before, calls>>

StepOne ==
  /\ pc = "step" /\ at <= Len(params)
  /\ LET s == ParamStorage(at)
     IN \/ /\ storage[s][1].count = 0
           /\ at' = at + 1 /\ UNCHANGED <<pc, storage, memory, faults>>
        \/ /\ storage[s][1].count # 0 /\ SetContent(s, Stepped(Content(s)))
           /\ at' = at + 1 /\ UNCHANGED <<pc, faults>>
        \/ /\ faults < MaxFaults /\ faults' = faults + 1 /\ storage[s][1].count # 0
           /\ pc' = "failed" /\ UNCHANGED at
           /\ \/ UNCHANGED <<storage, memory>>
              \/ storage[s][1].device # "cpu" /\ SetContent(s, Stepped(Content(s)))
  /\ UNCHANGED <<tensor, owners, lost, views, call, local, params, before, calls>>

EndStep ==
  /\ \/ pc = "step" /\ at = Len(params) + 1
     \/ pc = "failed"
  /\ pc' = "ready" /\ params' = <<>> /\ at' = 1
  /\ before' = [s \in Storages |-> Nothing]
  /\ UNCHANGED <<tensor, storage, owners, memory, lost, views, call, local, calls, faults>>

(* The program may do nothing more.                                        *)
Stop == pc = "ready" /\ calls = MaxCalls /\ UNCHANGED vars

Next ==
  \/ Alias \/ Drop \/ Move \/ Release
  \/ Begin \/ NewStorage \/ Allocate \/ Copy \/ Wrap \/ Fault
  \/ CopyFromHost \/ View \/ WriteView
  \/ BeginStep \/ StepOne \/ EndStep \/ Stop

Spec == Init /\ [][Next]_vars

-----------------------------------------------------------------------------

(* A tensor always has its Storage, with as many elements as its shape,    *)
(* and a Storage on a CUDA device its own buffer on that device: no other  *)
(* Storage has it, and it has not been freed.                              *)
NothingDangles ==
  /\ \A n \in Names : Held(n) =>
       Exists(StorageOf(n)) /\ storage[StorageOf(n)][1].count = CountOf[tensor[n][1].shape]
  /\ \A s \in Storages : Exists(s) =>
       /\ storage[s][1].buffer = None <=> storage[s][1].device = "cpu" \/ storage[s][1].count = 0
       /\ \A b \in Buffers : storage[s][1].buffer = <<b>> =>
            /\ memory[b] # None /\ memory[b][1].device = storage[s][1].device
            /\ b \notin lost
            /\ \A r \in Storages \ {s} : Exists(r) => storage[r][1].buffer # <<b>>

(* Between calls every Storage is the Storage of some tensor, and every    *)
(* buffer the buffer of some Storage: a function that threw, at whatever   *)
(* step, has left nothing behind.  Only a buffer that could not be freed   *)
(* is lost.                                                                *)
NothingLeaks ==
  /\ pc = "ready" =>
       \A s \in Storages : Exists(s) => \E n \in Names : Held(n) /\ StorageOf(n) = s
  /\ \A b \in Buffers \ lost : memory[b] # None =>
       \E s \in Storages : Exists(s) /\ storage[s][1].buffer = <<b>>

(* A view points to the elements of the tensor it was taken from while any *)
(* tensor keeps the Storage: no write, transfer, clone, reshape or         *)
(* optimizer step moves them.                                              *)
ViewsHold ==
  \A v \in views :
    /\ Exists(v.of) /\ v.data = storage[v.of][1].buffer
    /\ v.data # None => memory[v.data[1]] # None

(* A function that makes a tensor changes no element of any tensor there   *)
(* is, and no variable but the one that gets the result.                   *)
Keeps(n) ==
  IF tensor'[n] = tensor[n] THEN Content(StorageOf(n))' = Content(StorageOf(n))
  ELSE n = call.dest /\ pc = "wrap"
Making == pc \in {"storage", "alloc", "copy", "wrap"}
CallsKeepTensors == [][Making => \A n \in Names : Held(n) => Keeps(n)]_vars

(* How often the first k parameters of a step updated Storage s.           *)
Updates(s, k) ==
  Cardinality({i \in 1 .. k : ParamStorage(i) = s /\ storage[s][1].count # 0})
Updated(v, times) ==
  LET upTo[k \in 0 .. times] == IF k = 0 THEN v ELSE Stepped(upTo[k - 1]) IN upTo[times]

(* An SGD step has updated the parameters before the one it is at, each    *)
(* once for every place it has in the list, and nothing else; the one it   *)
(* failed at, if on a CUDA device, may be updated too.                     *)
StepIsPrefix ==
  pc \in {"step", "failed"} =>
    \A s \in Storages : Exists(s) =>
      \/ Content(s) = Updated(before[s], Updates(s, at - 1))
      \/ /\ pc = "failed" /\ s = ParamStorage(at) /\ storage[s][1].device # "cpu"
         /\ Content(s) = Updated(before[s], Updates(s, at))

-----------------------------------------------------------------------------

Aliases == INSTANCE TensorAliases WITH
  Boxes <- Storages, Contents <- Values \cup {Nothing},
  shown <- [n \in Names |->
    IF Held(n)
    THEN <<[shape |-> tensor[n][1].shape, device |-> storage[StorageOf(n)][1].device,
            box |-> StorageOf(n)]>>
    ELSE None],
  content <- [s \in Storages |->
    IF \E n \in Names : Held(n) /\ StorageOf(n) = s THEN <<Content(s)>> ELSE None]

Filled(op, device) ==
  CASE op = "empty" -> IF device = "cpu" THEN Zero ELSE Garbage
    [] op = "zeros" -> Zero
    [] op = "ones" -> One
    [] op = "from_host" -> call.value

(* What a step that changes a variable, or none, must be.                  *)
MadeOne ==
  IF call.op \in {"to", "clone"} THEN Aliases!CopyOf(call.dest, call.from, call.device)
  ELSE Aliases!Create(call.dest, call.shape, call.device,
                      IF CountOf[call.shape] = 0 THEN Nothing ELSE Filled(call.op, call.device))
SharedOne ==
  \E n \in Names :
    \/ Aliases!Drop(n)
    \/ \E m \in Names : Aliases!Move(n, m) \/ \E shape \in Shapes : Aliases!Alias(n, m, shape)
Implements ==
  IF tensor' = tensor THEN Aliases!Write \/ UNCHANGED Aliases!vars
  ELSE IF Making THEN MadeOne ELSE SharedOne

(* Tensors behave as TensorAliases says.  A factory, to or clone that      *)
(* returns has made a box of its own that holds every element it is to     *)
(* hold, and one that throws nothing; copies, reshapes and moves share;    *)
(* writes are seen through every tensor that shares, and no other: with    *)
(* every failure, and every reuse of a Storage or a buffer.                *)
RefinesAliases == Aliases!Init /\ [][Implements]_vars
=============================================================================
