------------------------ MODULE TensorStorage_proofs ------------------------
(***************************************************************************)
(* Proofs about TensorStorage for any number of variables, storages,       *)
(* buffers and devices, any shapes, and any number of calls and failures.  *)
(***************************************************************************)
EXTENDS TensorStorage, TLAPS, FiniteSetTheorems, WellFoundedInduction

-----------------------------------------------------------------------------
(* The inductive invariant.                                                *)

Handle == [shape : Shapes, storage : Storages]
Object ==
  [device : Devices, count : {CountOf[sh] : sh \in Shapes} \cup {0}, data : Values,
   buffer : {None} \cup {<<b>> : b \in Buffers}]
Cell == [device : Cuda, value : Values]
Argument ==
  [op : {"empty", "zeros", "ones", "from_host", "to", "clone"}, dest : Names, from : Names,
   shape : Shapes, device : Devices, value : HostValues \cup {Nothing}]

TensorType == tensor \in [Names -> {None} \cup {<<t>> : t \in Handle}]
StorageType == storage \in [Storages -> {None} \cup {<<r>> : r \in Object}]
MemoryType == memory \in [Buffers -> {None} \cup {<<m>> : m \in Cell}]
OwnersType == owners \in [Storages -> SUBSET (Names \cup {"local"})]
ControlType ==
  /\ lost \subseteq Buffers
  /\ local \in {None} \cup {<<s>> : s \in Storages}
  /\ pc \in {"ready", "storage", "alloc", "copy", "wrap", "release", "step", "failed"}
  /\ params \in {<<>>} \cup {<<n>> : n \in Names} \cup (Names \X Names)
  /\ at \in 1 .. Len(params) + 1
  /\ calls \in 0 .. MaxCalls /\ faults \in 0 .. MaxFaults
Types == TensorType /\ StorageType /\ MemoryType /\ OwnersType /\ ControlType

(* The counts are those of the handles there are.                          *)
Counted ==
  /\ \A s \in Storages, n \in Names : n \in owners[s] <=> Held(n) /\ StorageOf(n) = s
  /\ \A s \in Storages : "local" \in owners[s] <=> local = <<s>>

(* A Storage lives as long as it has a reference.                          *)
Alive ==
  /\ \A s \in Storages : owners[s] # {} => Exists(s)
  /\ pc # "release" => \A s \in Storages : Exists(s) => owners[s] # {}

(* Where the function under way is.                                        *)
UnderWay ==
  /\ local # None <=> pc \in {"alloc", "copy", "wrap"}
  /\ Making => /\ call \in Argument
               /\ call.op \in {"to", "clone"} =>
                    Held(call.from) /\ tensor[call.from][1].shape = call.shape
  /\ local # None => storage[local[1]][1].device = call.device /\ owners[local[1]] = {"local"}
  /\ pc \in {"copy", "wrap"} => storage[local[1]][1].count = CountOf[call.shape]
  /\ pc = "copy" => storage[local[1]][1].count # 0
  /\ pc = "alloc" => /\ call.device # "cpu" /\ CountOf[call.shape] # 0
                     /\ storage[local[1]][1].count = 0
                     /\ \A v \in views : v.of # local[1]

Sized == \A n \in Names : Held(n) => storage[StorageOf(n)][1].count = CountOf[tensor[n][1].shape]

(* Every buffer in use is that of one Storage.                             *)
Owned(s) ==
  /\ storage[s][1].buffer = None <=> storage[s][1].device = "cpu" \/ storage[s][1].count = 0
  /\ \A b \in Buffers : storage[s][1].buffer = <<b>> =>
       /\ memory[b] # None /\ memory[b][1].device = storage[s][1].device
       /\ b \notin lost
       /\ \A r \in Storages \ {s} : Exists(r) => storage[r][1].buffer # <<b>>
Placed ==
  /\ \A s \in Storages : Exists(s) => Owned(s)
  /\ \A b \in Buffers \ lost : memory[b] # None =>
       \E s \in Storages : Exists(s) /\ storage[s][1].buffer = <<b>>
  /\ \A b \in lost : memory[b] # None

Viewed ==
  \A v \in views : v.of \in Storages /\ Exists(v.of) /\ v.data = storage[v.of][1].buffer

Stepping ==
  pc \in {"step", "failed"} => \A i \in DOMAIN params : params[i] \in Names /\ Held(params[i])

IInv == Types /\ Counted /\ Alive /\ UnderWay /\ Sized /\ Placed /\ Viewed /\ Stepping

LEMMA Initial == Init => IInv
<1>. SUFFICES ASSUME Init PROVE IInv
  OBVIOUS
<1>. USE DEF Init, None
<1>1. Types
  BY BoundsAssumption DEF Types, TensorType, StorageType, MemoryType, OwnersType, ControlType
<1>. QED
  BY <1>1 DEF IInv, Counted, Alive, UnderWay, Sized, Placed, Viewed, Stepping, Exists, Held,
     StorageOf, Making

-----------------------------------------------------------------------------
(* What the types say of one Storage, one buffer and one variable.         *)

LEMMA ObjectFact ==
  ASSUME StorageType, NEW s \in Storages, Exists(s)
  PROVE  /\ storage[s] = <<storage[s][1]>> /\ storage[s][1] \in Object
         /\ storage[s][1].device \in Devices /\ storage[s][1].data \in Values
         /\ storage[s][1].buffer = None \/ \E b \in Buffers : storage[s][1].buffer = <<b>>
<1>1. PICK r \in Object : storage[s] = <<r>>
  BY DEF StorageType, Exists
<1>2. storage[s][1] = r
  BY <1>1
<1>. QED
  BY <1>1, <1>2 DEF Object

LEMMA CellFact ==
  ASSUME MemoryType, NEW b \in Buffers, memory[b] # None
  PROVE  memory[b] = <<memory[b][1]>> /\ memory[b][1] \in Cell /\ memory[b][1].value \in Values
<1>1. PICK m \in Cell : memory[b] = <<m>>
  BY DEF MemoryType
<1>. QED
  BY <1>1 DEF Cell

LEMMA HandleFact ==
  ASSUME TensorType, NEW n \in Names, Held(n)
  PROVE  /\ tensor[n] = <<tensor[n][1]>> /\ tensor[n][1] \in Handle
         /\ StorageOf(n) \in Storages /\ tensor[n][1].shape \in Shapes
<1>1. PICK t \in Handle : tensor[n] = <<t>>
  BY DEF TensorType, Held
<1>. QED
  BY <1>1 DEF Handle, StorageOf

LEMMA HeldFact ==
  ASSUME TensorType, Counted, Alive, NEW n \in Names, Held(n)
  PROVE  StorageOf(n) \in Storages /\ Exists(StorageOf(n))
  BY HandleFact DEF Counted, Alive

LEMMA LocalFact ==
  ASSUME ControlType, Counted, Alive, local # None
  PROVE  local[1] \in Storages /\ local = <<local[1]>> /\ Exists(local[1])
<1>1. PICK s \in Storages : local = <<s>>
  BY DEF ControlType
<1>. QED
  BY <1>1 DEF Counted, Alive

LEMMA ContentFact ==
  ASSUME StorageType, MemoryType, Placed, NEW s \in Storages, Exists(s)
  PROVE  /\ storage[s][1].count = 0 => Content(s) = Nothing
         /\ storage[s][1].count # 0 => Content(s) \in Values /\ Content(s) # Nothing
<1>1. CASE storage[s][1].count = 0
  BY <1>1 DEF Content
<1>2. CASE storage[s][1].count # 0 /\ storage[s][1].device = "cpu"
  BY <1>2, ObjectFact, ValuesAssumption DEF Content
<1>3. CASE storage[s][1].count # 0 /\ storage[s][1].device # "cpu"
  <2>1. PICK b \in Buffers : storage[s][1].buffer = <<b>>
    BY <1>3, ObjectFact DEF Placed, Owned
  <2>. QED
    BY <1>3, <2>1, CellFact, ValuesAssumption DEF Content
<1>. QED
  BY <1>1, <1>2, <1>3

-----------------------------------------------------------------------------
(* Steps that change who holds what, and nothing that is held.             *)

LEMMA Reshared ==
  ASSUME IInv, pc \notin {"release", "step", "failed"}, Settle, local' = None,
         UNCHANGED <<storage, memory, lost, views, params, at>>,
         TensorType', OwnersType', calls' \in 0 .. MaxCalls, faults' \in 0 .. MaxFaults,
         Counted', \A s \in Storages : owners'[s] # {} => Exists(s), Sized'
  PROVE  IInv'
<1>. USE DEF IInv, Settle
<1>1. Types'
  BY DEF Types, StorageType, MemoryType, ControlType
<1>2. Alive'
  BY DEF Alive, Exists
<1>3. UnderWay' /\ Stepping'
  BY DEF UnderWay, Stepping, Making
<1>4. Placed' /\ Viewed'
  BY DEF Placed, Owned, Viewed, Exists
<1>. QED
  BY <1>1, <1>2, <1>3, <1>4

LEMMA ThrowStep ==
  ASSUME IInv, Making, Throw, UNCHANGED <<tensor, storage, memory, lost, views, params, at, calls>>,
         faults' \in 0 .. MaxFaults
  PROVE  IInv'
<1>. USE DEF IInv, Types
<1>1. TensorType' /\ Sized'
  BY DEF TensorType, Sized, Held, StorageOf
<1>2. OwnersType' /\ Counted'
  BY LocalAssumption DEF Throw, OwnersType, Counted, Held, StorageOf, None
<1>3. \A s \in Storages : owners'[s] # {} => Exists(s)
  BY DEF Throw, Alive
<1>. QED
  BY <1>1, <1>2, <1>3, Reshared DEF Throw, Making, ControlType

LEMMA AssignStep ==
  ASSUME IInv, pc \in {"ready", "wrap"}, NEW n \in Names, NEW t \in {None} \cup {<<h>> : h \in Handle},
         Assign(n, t), local' = None, UNCHANGED <<storage, memory, lost, views, params, at>>,
         calls' \in 0 .. MaxCalls, faults' \in 0 .. MaxFaults,
         t = None => local = None,
         t # None => /\ Exists(t[1].storage) /\ (local = None \/ local = <<t[1].storage>>)
                     /\ storage[t[1].storage][1].count = CountOf[t[1].shape]
  PROVE  IInv'
<1>. USE DEF IInv, Types
<1>1. t # None => t[1].storage \in Storages /\ t = <<t[1]>> /\ t[1] \in Handle
  BY DEF Handle
<1>2. tensor' = [tensor EXCEPT ![n] = t] /\ TensorType'
  BY DEF Assign, TensorType
<1>3. OwnersType'
  BY DEF Assign, OwnersType
<1>4. Counted'
  <2>1. \A s \in Storages, m \in Names : m \in owners'[s] <=> Held(m)' /\ StorageOf(m)' = s
    BY <1>1, <1>2, LocalAssumption DEF Assign, Counted, Held, StorageOf, TensorType, OwnersType
  <2>2. \A s \in Storages : "local" \notin owners'[s]
    BY <1>1, LocalAssumption DEF Assign, Counted, None
  <2>. QED
    BY <2>1, <2>2 DEF Counted, None
<1>5. \A s \in Storages : owners'[s] # {} => Exists(s)
  BY <1>1 DEF Assign, Alive
<1>6. Sized'
  BY <1>1, <1>2 DEF Sized, Held, StorageOf, TensorType
<1>. QED
  BY <1>2, <1>3, <1>4, <1>5, <1>6, Reshared DEF Assign

LEMMA AliasStep == ASSUME IInv, Alias PROVE IInv'
<1>. USE DEF IInv, Types
<1>1. PICK n, m \in Names, shape \in Shapes :
        /\ Held(m) /\ CountOf[shape] = storage[StorageOf(m)][1].count
        /\ Assign(n, <<[shape |-> shape, storage |-> StorageOf(m)]>>)
  BY DEF Alias
<1>2. StorageOf(m) \in Storages /\ Exists(StorageOf(m))
  BY <1>1, HeldFact
<1>3. <<[shape |-> shape, storage |-> StorageOf(m)]>> \in {<<h>> : h \in Handle}
  BY <1>2 DEF Handle
<1>4. pc = "ready" /\ local = None /\ calls' \in 0 .. MaxCalls
  BY BoundsAssumption DEF Alias, Ready, Called, UnderWay, ControlType
<1>. QED
  BY <1>1, <1>2, <1>3, <1>4, AssignStep DEF Alias, ControlType, None

LEMMA DropStep == ASSUME IInv, Drop PROVE IInv'
<1>. USE DEF IInv, Types
<1>1. PICK n \in Names : Assign(n, None)
  BY DEF Drop
<1>2. pc = "ready" /\ local = None /\ calls' \in 0 .. MaxCalls
  BY BoundsAssumption DEF Drop, Ready, Called, UnderWay, ControlType
<1>. QED
  BY <1>1, <1>2, AssignStep DEF Drop, ControlType

LEMMA MoveStep == ASSUME IInv, Move PROVE IInv'
<1>. USE DEF IInv, Types
<1>1. PICK n, m \in Names :
        /\ n # m /\ Held(m)
        /\ tensor' = [tensor EXCEPT ![n] = tensor[m], ![m] = None]
        /\ owners' = [s \in Storages |->
             IF s = StorageOf(m) THEN (owners[s] \ {m}) \cup {n} ELSE owners[s] \ {n}]
  BY DEF Move
<1>2. pc = "ready" /\ local = None /\ calls' \in 0 .. MaxCalls
  BY BoundsAssumption DEF Move, Ready, Called, UnderWay, ControlType
<1>3. TensorType' /\ OwnersType'
  BY <1>1 DEF TensorType, OwnersType
<1>4. Counted'
  BY <1>1, <1>2, LocalAssumption DEF Move, Counted, Held, StorageOf, TensorType, OwnersType
<1>5. Sized'
  BY <1>1 DEF Move, Sized, Held, StorageOf, TensorType
<1>6. \A s \in Storages : owners'[s] # {} => Exists(s)
  BY <1>1, HeldFact DEF Alive
<1>. QED
  BY <1>2, <1>3, <1>4, <1>5, <1>6, Reshared DEF Move, ControlType

LEMMA WrapStep == ASSUME IInv, Wrap PROVE IInv'
<1>. USE DEF IInv, Types
<1>1. pc = "wrap" /\ local # None /\ call \in Argument
      /\ storage[local[1]][1].count = CountOf[call.shape]
  BY DEF Wrap, UnderWay, Making
<1>2. local = <<local[1]>> /\ local[1] \in Storages /\ Exists(local[1])
  BY <1>1, LocalFact
<1>3. <<[shape |-> call.shape, storage |-> local[1]]>> \in {<<h>> : h \in Handle}
  BY <1>1, <1>2 DEF Handle, Argument
<1>. QED
  BY <1>1, <1>2, <1>3, AssignStep DEF Wrap, ControlType, None, Argument

LEMMA FaultStep == ASSUME IInv, Fault PROVE IInv'
<1>1. Making /\ faults' \in 0 .. MaxFaults
  BY BoundsAssumption DEF Fault, Making, IInv, Types, ControlType
<1>. QED
  BY <1>1, ThrowStep DEF Fault

-----------------------------------------------------------------------------
(* Steps that write elements, and change nothing else of a Storage.        *)

SameObjects ==
  /\ \A s \in Storages :
       /\ Exists(s)' <=> Exists(s)
       /\ Exists(s) => /\ storage'[s][1].device = storage[s][1].device
                       /\ storage'[s][1].count = storage[s][1].count
                       /\ storage'[s][1].buffer = storage[s][1].buffer
  /\ \A b \in Buffers :
       /\ memory'[b] = None <=> memory[b] = None
       /\ memory[b] # None => memory'[b][1].device = memory[b][1].device

LEMMA WriteMemory ==
  ASSUME MemoryType, NEW b \in Buffers, memory[b] # None, NEW v \in Values,
         memory' = [memory EXCEPT ![b] = <<[@[1] EXCEPT !.value = v]>>], UNCHANGED storage
  PROVE  SameObjects /\ MemoryType'
<1>1. memory[b][1] \in Cell
  BY CellFact
<1>2. [memory[b][1] EXCEPT !.value = v] \in Cell
      /\ [memory[b][1] EXCEPT !.value = v].device = memory[b][1].device
  BY <1>1 DEF Cell
<1>. QED
  BY <1>1, <1>2 DEF SameObjects, MemoryType, None, Exists

LEMMA WriteStorage ==
  ASSUME StorageType, NEW s \in Storages, Exists(s), NEW v \in Values,
         storage' = [storage EXCEPT ![s] = <<[@[1] EXCEPT !.data = v]>>], UNCHANGED memory
  PROVE  SameObjects /\ StorageType'
<1>1. storage[s][1] \in Object
  BY ObjectFact
<1>2. LET r == [storage[s][1] EXCEPT !.data = v]
      IN /\ r \in Object /\ r.device = storage[s][1].device
         /\ r.count = storage[s][1].count /\ r.buffer = storage[s][1].buffer
  BY <1>1 DEF Object
<1>. QED
  BY <1>1, <1>2 DEF SameObjects, StorageType, None, Exists

LEMMA SetContentFact ==
  ASSUME StorageType, MemoryType, Placed, NEW s \in Storages, Exists(s), storage[s][1].count # 0,
         NEW v \in Values, SetContent(s, v)
  PROVE  SameObjects /\ StorageType' /\ MemoryType'
<1>1. CASE storage[s][1].device = "cpu"
  BY <1>1, WriteStorage DEF SetContent, MemoryType
<1>2. CASE storage[s][1].device # "cpu"
  <2>1. PICK b \in Buffers : storage[s][1].buffer = <<b>> /\ memory[b] # None
    BY <1>2, ObjectFact DEF Placed, Owned
  <2>. QED
    BY <1>2, <2>1, WriteMemory DEF SetContent, StorageType
<1>. QED
  BY <1>1, <1>2

LEMMA Rewritten ==
  ASSUME IInv, SameObjects, StorageType', MemoryType',
         UNCHANGED <<tensor, owners, lost, views, call, local, params>>,
         pc' \in {pc} \cup (IF pc = "copy" THEN {"wrap"} ELSE IF pc = "step" THEN {"failed"} ELSE {}),
         at' \in 1 .. Len(params) + 1, calls' \in 0 .. MaxCalls, faults' \in 0 .. MaxFaults
  PROVE  IInv'
<1>. USE DEF IInv
<1>1. Types'
  BY DEF Types, TensorType, OwnersType, ControlType
<1>2. Counted' /\ Stepping'
  BY DEF Counted, Stepping, Held, StorageOf
<1>3. Alive'
  BY DEF Alive, SameObjects
<1>4. Sized'
  BY HeldFact DEF Types, Sized, SameObjects, Held, StorageOf
<1>5. UnderWay'
  <2>1. local # None => local[1] \in Storages /\ Exists(local[1])
    BY LocalFact DEF Types
  <2>. QED
    BY <2>1 DEF UnderWay, Making, SameObjects, Held
<1>6. Placed'
  <2>1. \A s \in Storages : Exists(s) => Owned(s)'
    BY DEF Placed, Owned, SameObjects
  <2>2. \A b \in Buffers \ lost : memory'[b] # None =>
          \E s \in Storages : Exists(s)' /\ storage'[s][1].buffer = <<b>>
    BY DEF Placed, SameObjects
  <2>3. \A b \in lost : memory'[b] # None
    BY DEF Placed, SameObjects, Types, ControlType
  <2>. QED
    BY <2>1, <2>2, <2>3 DEF Placed, SameObjects
<1>7. Viewed'
  BY DEF Viewed, SameObjects
<1>. QED
  BY <1>1, <1>2, <1>3, <1>4, <1>5, <1>6, <1>7

LEMMA WantedFact ==
  ASSUME IInv, Making, Wanted # Nothing PROVE Wanted \in Values
<1>. USE DEF IInv, Types
<1>1. call \in Argument
  BY DEF UnderWay
<1>2. CASE call.op \in {"to", "clone"}
  <2>1. StorageOf(call.from) \in Storages /\ Exists(StorageOf(call.from))
    BY <1>1, <1>2, HeldFact DEF UnderWay, Argument
  <2>2. Wanted = Content(StorageOf(call.from))
    BY <1>2 DEF Wanted
  <2>. QED
    BY <2>1, <2>2, ContentFact
<1>3. CASE call.op \in {"empty", "zeros", "ones", "from_host"}
  BY <1>1, <1>3, ValuesAssumption DEF Wanted, Argument
<1>. QED
  BY <1>1, <1>2, <1>3 DEF Argument

LEMMA CopyStep == ASSUME IInv, Copy PROVE IInv'
<1>. USE DEF IInv, Types
<1>1. pc = "copy" /\ Making /\ local # None /\ storage[local[1]][1].count # 0
  BY DEF Copy, Making, UnderWay
<1>2. CASE Wanted # Nothing /\ SetContent(local[1], Wanted) /\ pc' = "wrap"
           /\ UNCHANGED <<owners, local, call>>
  BY <1>1, <1>2, LocalFact, WantedFact, SetContentFact, Rewritten DEF Copy, ControlType
<1>3. CASE Throw /\ UNCHANGED <<storage, memory>>
  BY <1>1, <1>3, ThrowStep DEF Copy, ControlType
<1>. QED
  BY <1>2, <1>3 DEF Copy

LEMMA CopyFromHostStep == ASSUME IInv, CopyFromHost PROVE IInv'
<1>. USE DEF IInv, Types
<1>1. PICK n \in Names, v \in HostValues :
        /\ Held(n) /\ storage[StorageOf(n)][1].count # 0
        /\ \/ SetContent(StorageOf(n), v) /\ UNCHANGED faults
           \/ faults < MaxFaults /\ faults' = faults + 1 /\ SetContent(StorageOf(n), Garbage)
  BY DEF CopyFromHost
<1>2. v \in Values /\ Garbage \in Values /\ StorageOf(n) \in Storages /\ Exists(StorageOf(n))
  BY <1>1, HeldFact, ValuesAssumption
<1>3. SameObjects /\ StorageType' /\ MemoryType'
  BY <1>1, <1>2, SetContentFact
<1>4. calls' \in 0 .. MaxCalls /\ faults' \in 0 .. MaxFaults
  BY <1>1, BoundsAssumption DEF CopyFromHost, Ready, Called, ControlType
<1>. QED
  BY <1>3, <1>4, Rewritten DEF CopyFromHost, ControlType

LEMMA WriteViewStep == ASSUME IInv, WriteView PROVE IInv'
<1>. USE DEF IInv, Types
<1>1. PICK v \in views, e \in HostValues :
        v.data # None /\ memory' = [memory EXCEPT ![v.data[1]] = <<[@[1] EXCEPT !.value = e]>>]
  BY DEF WriteView
<1>2. v.of \in Storages /\ Exists(v.of) /\ v.data = storage[v.of][1].buffer
  BY DEF Viewed
<1>3. PICK b \in Buffers : v.data = <<b>>
  BY <1>1, <1>2, ObjectFact
<1>4. memory[b] # None
  BY <1>2, <1>3 DEF Placed, Owned
<1>5. e \in Values /\ v.data[1] = b
  BY <1>3, ValuesAssumption
<1>6. SameObjects /\ MemoryType'
  BY <1>1, <1>4, <1>5, WriteMemory DEF WriteView
<1>7. StorageType' /\ calls' \in 0 .. MaxCalls
  BY BoundsAssumption DEF WriteView, StorageType, Ready, Called, ControlType
<1>. QED
  BY <1>6, <1>7, Rewritten DEF WriteView, ControlType

LEMMA StepOneStep == ASSUME IInv, StepOne PROVE IInv'
<1>. USE DEF IInv, Types
<1>1. pc = "step" /\ at \in 1 .. Len(params) /\ at + 1 \in 1 .. Len(params) + 1
  BY DEF StepOne, ControlType
<1>2. at \in DOMAIN params
  BY <1>1 DEF ControlType
<1>3. ParamStorage(at) \in Storages /\ Exists(ParamStorage(at))
  BY <1>1, <1>2, HeldFact DEF Stepping, ParamStorage
<1> DEFINE s == ParamStorage(at)
<1>4. CASE UNCHANGED <<storage, memory>>
  <2>1. SameObjects /\ StorageType' /\ MemoryType'
    BY <1>4 DEF SameObjects, StorageType, MemoryType, Exists
  <2>. QED
    BY <1>1, <2>1, Rewritten, BoundsAssumption DEF StepOne, ControlType
<1>5. CASE storage[s][1].count # 0 /\ SetContent(s, Stepped(Content(s)))
  <2>1. Stepped(Content(s)) \in Values
    BY <1>3, <1>5, ContentFact, ValuesAssumption
  <2>2. SameObjects /\ StorageType' /\ MemoryType'
    BY <1>3, <1>5, <2>1, SetContentFact
  <2>. QED
    BY <1>1, <2>2, Rewritten, BoundsAssumption DEF StepOne, ControlType
<1>. QED
  BY <1>4, <1>5 DEF StepOne

-----------------------------------------------------------------------------
(* Steps that change control alone, or the views.                          *)

LEMMA Unmoved ==
  ASSUME IInv, pc # "release", UNCHANGED <<tensor, storage, owners, memory, lost, local, faults>>
  PROVE  /\ TensorType' /\ StorageType' /\ MemoryType' /\ OwnersType'
         /\ Counted' /\ Alive' /\ Sized' /\ Placed'
<1>. USE DEF IInv, Types
<1>1. TensorType' /\ StorageType' /\ MemoryType' /\ OwnersType'
  BY DEF TensorType, StorageType, MemoryType, OwnersType
<1>2. Counted' /\ Sized'
  BY DEF Counted, Sized, Held, StorageOf
<1>3. Alive'
  BY DEF Alive, Exists
<1>4. Placed'
  BY DEF Placed, Owned, Exists
<1>. QED
  BY <1>1, <1>2, <1>3, <1>4

LEMMA BeginStepFact == ASSUME IInv, Begin PROVE IInv'
<1>. USE DEF IInv, Types
<1>1. pc = "ready" /\ local = None /\ pc' = "storage" /\ calls' \in 0 .. MaxCalls
      /\ UNCHANGED <<tensor, storage, owners, memory, lost, views, local, params, at, faults>>
  BY BoundsAssumption DEF Begin, Ready, Called, UnderWay, ControlType
<1>2. /\ call' \in Argument
      /\ call'.op \in {"to", "clone"} => Held(call'.from) /\ tensor[call'.from][1].shape = call'.shape
  <2>1. PICK n \in Names, device \in Devices :
       \/ \E op \in {"empty", "zeros", "ones"}, shape \in Shapes :
            call' = Call(op, n, n, shape, device, Nothing)
       \/ \E v \in HostValues \cup {Nothing}, shape \in Shapes :
            call' = Call("from_host", n, n, shape, device, v)
       \/ \E m \in Names :
            /\ Held(m)
            /\ call' = Call(IF device = storage[StorageOf(m)][1].device THEN "clone" ELSE "to",
                            n, m, tensor[m][1].shape, device, Nothing)
    BY DEF Begin
  <2>2. \A m \in Names : Held(m) => tensor[m][1].shape \in Shapes
    BY HandleFact
  <2>. QED
    BY <2>1, <2>2 DEF Call, Argument
<1>3. ControlType' /\ Stepping'
  BY <1>1 DEF ControlType, Stepping
<1>4. Viewed'
  BY <1>1 DEF Viewed, Exists
<1>5. UnderWay'
  BY <1>1, <1>2 DEF UnderWay, Making, Held
<1>. QED
  BY <1>1, <1>3, <1>4, <1>5, Unmoved

LEMMA ViewStep == ASSUME IInv, View PROVE IInv'
<1>. USE DEF IInv, Types
<1>1. PICK n \in Names :
        Held(n) /\ views' = views \cup {[data |-> storage[StorageOf(n)][1].buffer, of |-> StorageOf(n)]}
  BY DEF View
<1>2. pc = "ready" /\ local = None /\ calls' \in 0 .. MaxCalls
      /\ UNCHANGED <<tensor, storage, owners, memory, lost, pc, call, local, params, at, faults>>
  BY BoundsAssumption DEF View, Ready, Called, UnderWay, ControlType
<1>3. ControlType' /\ Stepping' /\ UnderWay'
  BY <1>2 DEF ControlType, Stepping, UnderWay, Making
<1>4. Viewed'
  BY <1>1, <1>2, HeldFact DEF Viewed, Exists
<1>. QED
  BY <1>2, <1>3, <1>4, Unmoved

LEMMA SteppingStep == ASSUME IInv, BeginStep \/ EndStep PROVE IInv'
<1>. USE DEF IInv, Types
<1>1. /\ local = None /\ pc \in {"ready", "step", "failed"} /\ pc' \in {"ready", "step"}
      /\ calls' \in 0 .. MaxCalls
      /\ UNCHANGED <<tensor, storage, owners, memory, lost, views, call, local, faults>>
  BY BoundsAssumption DEF BeginStep, EndStep, Ready, Called, UnderWay, ControlType
<1>2. /\ params' \in {<<>>} \cup {<<n>> : n \in Names} \cup (Names \X Names)
      /\ at' \in 1 .. Len(params') + 1
      /\ \A i \in DOMAIN params' : params'[i] \in Names
      /\ pc' = "step" => \A i \in DOMAIN params' : Held(params'[i])
  BY DEF BeginStep, EndStep
<1>3. ControlType' /\ Stepping'
  BY <1>1, <1>2 DEF ControlType, Stepping, Held
<1>4. Viewed' /\ UnderWay'
  BY <1>1 DEF Viewed, UnderWay, Making, Exists
<1>. QED
  BY <1>1, <1>3, <1>4, Unmoved

-----------------------------------------------------------------------------
(* Steps that make and destroy Storage objects and buffers.                *)

LEMMA NewStorageStep == ASSUME IInv, NewStorage PROVE IInv'
<1>. USE DEF IInv, Types
<1>1. PICK s \in Storages : s = (CHOOSE t \in Storages : ~Exists(t)) /\ ~Exists(s)
  BY DEF NewStorage
<1>2. pc = "storage" /\ local = None /\ call \in Argument
  BY DEF NewStorage, UnderWay, Making
<1>3. PICK r \in Object :
        r = [device |-> call.device, count |-> IF call.device = "cpu" THEN CountOf[call.shape] ELSE 0,
             data |-> Zero, buffer |-> None]
  <2>1. [device |-> call.device, count |-> IF call.device = "cpu" THEN CountOf[call.shape] ELSE 0,
         data |-> Zero, buffer |-> None] \in Object
    BY <1>2, ValuesAssumption DEF Argument, Object
  <2>. QED
    BY <2>1
<1>4. /\ storage' = [storage EXCEPT ![s] = <<r>>]
      /\ owners' = [owners EXCEPT ![s] = {"local"}]
      /\ local' = <<s>>
      /\ pc' = IF CountOf[call.shape] = 0 THEN "wrap" ELSE IF call.device = "cpu" THEN "copy" ELSE "alloc"
      /\ UNCHANGED <<tensor, memory, lost, views, call, params, at, before, calls, faults>>
  BY <1>1, <1>3 DEF NewStorage, FreshStorage
<1>5. storage'[s] = <<r>> /\ \A t \in Storages \ {s} : storage'[t] = storage[t]
  BY <1>1, <1>4 DEF StorageType
<1>14. Exists(s)' /\ \A t \in Storages \ {s} : Exists(t)' <=> Exists(t)
  BY <1>5 DEF Exists, None
<1>6. \A n \in Names : Held(n) => StorageOf(n) # s
  BY <1>1, HeldFact
<1>7. Types'
  BY <1>1, <1>4 DEF TensorType, StorageType, MemoryType, OwnersType, ControlType
<1>8. Counted'
  BY <1>1, <1>2, <1>4, <1>6, LocalAssumption DEF Counted, Held, StorageOf, OwnersType, None
<1>9. Alive'
  <2>1. \A t \in Storages \ {s} : owners'[t] = owners[t]
    BY <1>4 DEF OwnersType
  <2>2. pc # "release" /\ owners'[s] # {}
    BY <1>1, <1>2, <1>4 DEF OwnersType
  <2>. QED
    BY <1>14, <2>1, <2>2 DEF Alive
<1>10. Sized'
  BY <1>4, <1>5, <1>6, HeldFact DEF Sized, Held, StorageOf
<1>11. Placed'
  <2>1. Owned(s)'
    BY <1>3, <1>4, <1>5 DEF Owned, None
  <2>2. \A t \in Storages \ {s} : Exists(t)' => Owned(t)'
    <3>. SUFFICES ASSUME NEW t \in Storages \ {s}, Exists(t) PROVE Owned(t)'
      BY <1>14
    <3>1. Owned(t) /\ storage'[t] = storage[t] /\ memory' = memory /\ lost' = lost
      BY <1>4, <1>5 DEF Placed
    <3>2. \A b \in Buffers : storage'[s][1].buffer # <<b>>
      BY <1>3, <1>5 DEF None
    <3>. QED
      BY <1>5, <1>14, <3>1, <3>2 DEF Owned
  <2>3. \A b \in Buffers \ lost : memory[b] # None =>
          \E t \in Storages : Exists(t)' /\ storage'[t][1].buffer = <<b>>
    BY <1>1, <1>5 DEF Placed, Exists
  <2>. QED
    BY <1>4, <2>1, <2>2, <2>3 DEF Placed
<1>12. Viewed' /\ Stepping'
  BY <1>1, <1>2, <1>4, <1>5 DEF Viewed, Stepping, Exists
<1>13. UnderWay'
  BY <1>1, <1>2, <1>3, <1>4, <1>5 DEF UnderWay, Making, None, Argument, Viewed, Held, OwnersType
<1>. QED
  BY <1>7, <1>8, <1>9, <1>10, <1>11, <1>12, <1>13

LEMMA AllocateStep == ASSUME IInv, Allocate PROVE IInv'
<1>. USE DEF IInv, Types
<1>1. PICK b \in Buffers : b = (CHOOSE c \in Buffers : memory[c] = None) /\ memory[b] = None
  BY DEF Allocate
<1>2. /\ pc = "alloc" /\ local # None /\ call \in Argument
      /\ call.device \in Cuda /\ call.device # "cpu" /\ CountOf[call.shape] # 0
  BY DEF Allocate, UnderWay, Making, Argument, Devices
<1>3. PICK s \in Storages : local = <<s>> /\ Exists(s)
  BY <1>2, LocalFact
<1>4. /\ owners[s] = {"local"} /\ \A v \in views : v.of # s
      /\ storage[s][1].device = call.device /\ storage[s][1].count = 0
  BY <1>2, <1>3 DEF UnderWay
<1>5. PICK r \in Object, m \in Cell :
        /\ r = [device |-> call.device, count |-> CountOf[call.shape], data |-> Zero, buffer |-> <<b>>]
        /\ m = [device |-> call.device, value |-> Garbage]
  BY <1>1, <1>2, ValuesAssumption DEF Argument, Object, Cell
<1>6. /\ storage' = [storage EXCEPT ![s] = <<r>>] /\ memory' = [memory EXCEPT ![b] = <<m>>]
      /\ pc' = "copy"
      /\ UNCHANGED <<tensor, owners, lost, views, call, local, params, at, before, calls, faults>>
  BY <1>1, <1>3, <1>5 DEF Allocate, FreshStorage
<1>7. storage'[s] = <<r>> /\ \A t \in Storages \ {s} : storage'[t] = storage[t]
  BY <1>3, <1>6 DEF StorageType
<1>8. memory'[b] = <<m>> /\ \A c \in Buffers \ {b} : memory'[c] = memory[c]
  BY <1>1, <1>6 DEF MemoryType
<1>18. <<r>> # None
  BY DEF None
<1>17. \A t \in Storages : Exists(t)' <=> Exists(t)
  BY <1>3, <1>7, <1>18 DEF Exists
<1>9. \A n \in Names : Held(n) => StorageOf(n) \in Storages \ {s}
  BY <1>3, <1>4, HeldFact, LocalAssumption DEF Counted
<1>10. Types'
  BY <1>1, <1>3, <1>5, <1>6 DEF TensorType, StorageType, MemoryType, OwnersType, ControlType
<1>11. Counted'
  BY <1>6 DEF Counted, Held, StorageOf
<1>12. Alive'
  BY <1>2, <1>3, <1>4, <1>6, <1>7 DEF Alive, Exists, None
<1>13. Sized'
  BY <1>6, <1>7, <1>9 DEF Sized, Held, StorageOf
<1>14. Placed'
  <2>1. \A t \in Storages \ {s} : Exists(t) => storage[t][1].buffer # <<b>>
    BY <1>1 DEF Placed, Owned
  <2>2. storage[s][1].buffer = None
    BY <1>3, <1>4 DEF Placed, Owned
  <2>3. b \notin lost
    BY <1>1 DEF Placed
  <2>4. Owned(s)'
    <3>1. storage'[s][1].buffer = <<b>> /\ storage'[s][1].device = call.device
          /\ storage'[s][1].count = CountOf[call.shape]
      BY <1>5, <1>7
    <3>2. memory'[b] # None /\ memory'[b][1].device = call.device
      BY <1>5, <1>8 DEF None
    <3>3. \A t \in Storages \ {s} : Exists(t)' => storage'[t][1].buffer # <<b>>
      BY <1>7, <1>17, <2>1
    <3>. QED
      BY <1>2, <1>6, <2>3, <3>1, <3>2, <3>3 DEF Owned, None
  <2>5. \A t \in Storages \ {s} : Exists(t)' => Owned(t)'
    BY <1>1, <1>3, <1>5, <1>6, <1>7, <1>8, <2>1 DEF Placed, Owned, Exists, None
  <2>6. \A c \in Buffers \ lost : memory'[c] # None =>
          \E t \in Storages : Exists(t)' /\ storage'[t][1].buffer = <<c>>
    <3>1. storage'[s][1].buffer = <<b>>
      BY <1>5, <1>7
    <3>2. \A c \in Buffers \ (lost \cup {b}) : memory'[c] # None =>
            \E t \in Storages \ {s} : Exists(t) /\ storage[t][1].buffer = <<c>>
      <4>. TAKE c \in Buffers \ (lost \cup {b})
      <4>. HAVE memory'[c] # None
      <4>1. PICK t \in Storages : Exists(t) /\ storage[t][1].buffer = <<c>>
        BY <1>8 DEF Placed
      <4>2. <<c>> # None
        BY DEF None
      <4>. QED
        BY <2>2, <4>1, <4>2
    <3>. QED
      BY <1>1, <1>3, <1>7, <1>17, <3>1, <3>2
  <2>7. \A c \in lost : memory'[c] # None
    BY <1>6, <1>8, <2>3 DEF Placed, ControlType
  <2>. QED
    BY <1>3, <1>6, <2>4, <2>5, <2>6, <2>7 DEF Placed
<1>15. Viewed' /\ Stepping'
  BY <1>2, <1>4, <1>6, <1>7 DEF Viewed, Stepping, Exists
<1>16. UnderWay'
  BY <1>2, <1>3, <1>4, <1>5, <1>6, <1>7 DEF UnderWay, Making, None, Held
<1>. QED
  BY <1>10, <1>11, <1>12, <1>13, <1>14, <1>15, <1>16

LEMMA ReleaseStep == ASSUME IInv, Release PROVE IInv'
<1>. USE DEF IInv, Types
<1> DEFINE Freed == {b \in Buffers : \E s \in Orphans : storage[s][1].buffer = <<b>>}
<1>1. /\ pc = "release" /\ pc' = "ready" /\ local = None /\ FreeBuffers(Freed)
      /\ storage' = [s \in Storages |-> IF s \in Orphans THEN None ELSE storage[s]]
      /\ views' = {v \in views : v.of \notin Orphans}
      /\ UNCHANGED <<tensor, owners, call, local, params, at, before, calls>>
  BY DEF Release, UnderWay
<1> HIDE DEF Freed
<1>2. \/ /\ memory' = [b \in Buffers |-> IF b \in Freed THEN None ELSE memory[b]]
         /\ UNCHANGED <<lost, faults>>
      \/ /\ faults' \in 0 .. MaxFaults /\ lost' = lost \cup Freed
         /\ UNCHANGED memory
  BY <1>1, BoundsAssumption DEF FreeBuffers, ControlType
<1>3. \A s \in Storages : Exists(s)' <=> owners[s] # {}
  BY <1>1 DEF Orphans, Alive, Exists
<1>4. \A s \in Storages : Exists(s)' => Exists(s) /\ storage'[s] = storage[s] /\ s \notin Orphans
  BY <1>1 DEF Exists
<1>5. \A s \in Storages : Exists(s)' => \A b \in Freed : storage[s][1].buffer # <<b>>
  BY <1>4 DEF Freed, Orphans, Placed, Owned
<1>6. Types'
  <2>1. Freed \subseteq Buffers
    BY DEF Freed
  <2>. QED
    BY <1>1, <1>2, <2>1 DEF TensorType, StorageType, MemoryType, OwnersType, ControlType
<1>7. Counted' /\ Stepping' /\ UnderWay'
  BY <1>1 DEF Counted, Held, StorageOf, Stepping, UnderWay, Making
<1>8. Alive'
  BY <1>1, <1>3 DEF Alive
<1>9. Sized'
  BY <1>1, <1>3, <1>4, HeldFact DEF Sized, Held, StorageOf, Counted
<1>10. Placed'
  <2>1. \A s \in Storages : Exists(s)' => Owned(s)'
    BY <1>2, <1>4, <1>5 DEF Placed, Owned
  <2>2. \A b \in Buffers \ lost' : memory'[b] # None =>
          b \notin Freed /\ b \notin lost /\ memory[b] # None
    BY <1>2
  <2>3. \A b \in Buffers \ Freed : \A s \in Storages :
          Exists(s) /\ storage[s][1].buffer = <<b>> => Exists(s)' /\ storage'[s] = storage[s]
    BY <1>1, <1>3, <1>4 DEF Freed, Orphans, Exists
  <2>4. \A b \in lost' : memory'[b] # None
    <3>1. \A b \in Freed : memory[b] # None /\ b \notin lost
      BY DEF Freed, Orphans, Placed, Owned
    <3>. QED
      BY <1>2, <3>1 DEF Placed, ControlType
  <2>. QED
    BY <2>1, <2>2, <2>3, <2>4 DEF Placed
<1>11. Viewed'
  BY <1>1, <1>4 DEF Viewed, Exists
<1>. QED
  BY <1>6, <1>7, <1>8, <1>9, <1>10, <1>11

-----------------------------------------------------------------------------
(* The invariant, and what follows from it.                                *)

LEMMA Stuttering == ASSUME IInv, UNCHANGED vars PROVE IInv'
<1>. USE DEF IInv, Types, vars
<1>1. TensorType' /\ StorageType' /\ MemoryType' /\ OwnersType' /\ ControlType'
  BY DEF TensorType, StorageType, MemoryType, OwnersType, ControlType
<1>2. Counted' /\ Sized' /\ Stepping' /\ Viewed'
  BY DEF Counted, Sized, Stepping, Viewed, Held, StorageOf, Exists
<1>3. Alive' /\ UnderWay'
  BY DEF Alive, UnderWay, Making, Held, Exists
<1>4. Placed'
  BY DEF Placed, Owned, Exists
<1>. QED
  BY <1>1, <1>2, <1>3, <1>4

(* IInv is inductive.                                                      *)
THEOREM Invariance == Spec => []IInv
<1>1. IInv /\ [Next]_vars => IInv'
  BY AliasStep, DropStep, MoveStep, ReleaseStep, BeginStepFact, NewStorageStep, AllocateStep,
     CopyStep, WrapStep, FaultStep, CopyFromHostStep, ViewStep, WriteViewStep, SteppingStep,
     StepOneStep, Stuttering DEF Next, Stop
<1>. QED
  BY Initial, <1>1, PTL DEF Spec

(* Every variable holds what its type says.                                *)
THEOREM TypeCorrect == Spec => []TypeOK
<1>1. IInv => TypeOK
  <2>. SUFFICES ASSUME IInv PROVE TypeOK
    OBVIOUS
  <2>. USE DEF IInv, Types
  <2>1. tensor \in [Names -> {None} \cup {<<[shape |-> sh, storage |-> s]>> : sh \in Shapes, s \in Storages}]
    <3>1. \A t \in Handle : t = [shape |-> t.shape, storage |-> t.storage]
                            /\ t.shape \in Shapes /\ t.storage \in Storages
      BY DEF Handle
    <3>. QED
      BY <3>1 DEF TensorType
  <2>2. \A s \in Storages : Exists(s) =>
       /\ storage[s][1].device \in Devices
       /\ storage[s][1].count \in {CountOf[sh] : sh \in Shapes} \cup {0}
       /\ Content(s) \in Values \cup {Nothing}
    BY ObjectFact, ContentFact DEF Object
  <2>. QED
    BY <2>1, <2>2 DEF TypeOK, OwnersType, ControlType
<1>. QED
  BY Invariance, <1>1, PTL

(* No tensor without its Storage, no Storage without its own buffer.       *)
THEOREM StorageSafety == Spec => []NothingDangles
<1>1. IInv => NothingDangles
  BY HeldFact DEF IInv, Types, Sized, Placed, Owned, NothingDangles
<1>. QED
  BY Invariance, <1>1, PTL

(* No Storage without a tensor, no buffer without a Storage, whichever     *)
(* calls have failed.                                                      *)
THEOREM LeakFreedom == Spec => []NothingLeaks
<1>1. IInv => NothingLeaks
  <2>. SUFFICES ASSUME IInv PROVE NothingLeaks
    OBVIOUS
  <2>. USE DEF IInv, Types
  <2>1. ASSUME pc = "ready", NEW s \in Storages, Exists(s)
        PROVE  \E n \in Names : Held(n) /\ StorageOf(n) = s
    <3>1. local = None /\ owners[s] # {}
      BY <2>1 DEF UnderWay, Alive
    <3>2. "local" \notin owners[s]
      BY <3>1 DEF Counted, None
    <3>3. PICK n \in Names : n \in owners[s]
      BY <3>1, <3>2 DEF OwnersType
    <3>. QED
      BY <3>3 DEF Counted
  <2>. QED
    BY <2>1 DEF NothingLeaks, Placed
<1>. QED
  BY Invariance, <1>1, PTL

(* A view points to the elements of its tensor's Storage, which are not    *)
(* freed.                                                                  *)
THEOREM ViewSafety == Spec => []ViewsHold
<1>1. IInv => ViewsHold
  <2>. SUFFICES ASSUME IInv, NEW v \in views
                PROVE  /\ Exists(v.of) /\ v.data = storage[v.of][1].buffer
                       /\ v.data # None => memory[v.data[1]] # None
    BY DEF ViewsHold
  <2>. USE DEF IInv, Types
  <2>1. v.of \in Storages /\ Exists(v.of) /\ v.data = storage[v.of][1].buffer
    BY DEF Viewed
  <2>2. ASSUME v.data # None PROVE memory[v.data[1]] # None
    <3>1. PICK b \in Buffers : v.data = <<b>>
      BY <2>1, <2>2, ObjectFact
    <3>2. v.data[1] = b
      BY <3>1
    <3>3. Owned(v.of)
      BY <2>1 DEF Placed
    <3>. QED
      BY <2>1, <3>1, <3>2, <3>3 DEF Owned
  <2>. QED
    BY <2>1, <2>2
<1>. QED
  BY Invariance, <1>1, PTL

-----------------------------------------------------------------------------
(* What a function that makes a tensor leaves alone.                       *)

(* The elements of Storage s are those of before.                          *)
LEMMA Untouched ==
  ASSUME NEW s \in Storages, storage'[s] = storage[s],
         \A b \in Buffers : storage[s][1].buffer = <<b>> => memory'[b] = memory[b],
         storage[s][1].buffer = None \/ \E b \in Buffers : storage[s][1].buffer = <<b>>,
         storage[s][1].buffer = None <=> storage[s][1].device = "cpu" \/ storage[s][1].count = 0
  PROVE  \A t \in Storages : t = s => Content(t)' = Content(t)
  BY DEF Content

LEMMA MakingKeeps ==
  ASSUME IInv, Making, Next, NEW s \in Storages, Exists(s), local # <<s>>
  PROVE  /\ storage'[s] = storage[s]
         /\ \A b \in Buffers : storage[s][1].buffer = <<b>> => memory'[b] = memory[b]
<1>. USE DEF IInv, Types
<1>1. NewStorage \/ Allocate \/ Copy \/ Wrap \/ Fault
  BY DEF Next, Making, Alias, Drop, Move, Release, Begin, CopyFromHost, View, WriteView,
     BeginStep, StepOne, EndStep, Stop, Ready
<1>2. CASE NewStorage
  BY <1>2 DEF NewStorage, StorageType
<1>3. CASE Allocate
  <2>1. \A b \in Buffers : storage[s][1].buffer = <<b>> => memory[b] # None
    BY DEF Placed, Owned
  <2>. QED
    BY <1>3, <2>1, LocalFact DEF Allocate, StorageType, MemoryType, UnderWay
<1>4. CASE Copy
  <2>1. CASE UNCHANGED <<storage, memory>>
    BY <2>1
  <2>2. CASE SetContent(local[1], Wanted)
    <3>1. local[1] \in Storages \ {s} /\ Exists(local[1]) /\ storage[local[1]][1].count # 0
      BY <1>4, LocalFact DEF Copy, UnderWay
    <3>2. CASE storage[local[1]][1].device = "cpu"
      BY <2>2, <3>1, <3>2 DEF SetContent, StorageType
    <3>3. CASE storage[local[1]][1].device # "cpu"
      <4>1. PICK b \in Buffers : storage[local[1]][1].buffer = <<b>>
        BY <3>1, <3>3, ObjectFact DEF Placed, Owned
      <4>2. storage[s][1].buffer # <<b>>
        BY <3>1, <4>1 DEF Placed, Owned
      <4>. QED
        BY <2>2, <3>3, <4>1, <4>2 DEF SetContent, MemoryType
    <3>. QED
      BY <3>2, <3>3
  <2>. QED
    BY <1>4, <2>1, <2>2 DEF Copy
<1>5. CASE Wrap \/ Fault
  BY <1>5 DEF Wrap, Fault
<1>. QED
  BY <1>1, <1>2, <1>3, <1>4, <1>5

(* A factory, to or clone changes no element of any tensor there is, and   *)
(* no variable but the one that gets the result.                           *)
THEOREM CallsKeep == Spec => CallsKeepTensors
<1>1. ASSUME IInv, Next, Making PROVE \A n \in Names : Held(n) => Keeps(n)
  <2>. USE DEF IInv, Types
  <2>. SUFFICES ASSUME NEW n \in Names, Held(n) PROVE Keeps(n)
    OBVIOUS
  <2>1. StorageOf(n) \in Storages /\ Exists(StorageOf(n))
    BY <1>1, HeldFact
  <2>2. PICK s \in Storages : s = StorageOf(n) /\ Exists(s)
    BY <2>1
  <2>3. local # <<s>>
    BY <1>1, <2>2, LocalFact, LocalAssumption DEF Counted, UnderWay, None
  <2>4. \A t \in Storages : t = s => Content(t)' = Content(t)
    BY <1>1, <2>2, <2>3, MakingKeeps, Untouched, ObjectFact DEF Placed, Owned
  <2>5. CASE tensor'[n] = tensor[n]
    <3>1. StorageOf(n)' = StorageOf(n)
      BY <2>5 DEF StorageOf
    <3>. QED
      BY <2>2, <2>4, <2>5, <3>1 DEF Keeps, Content
  <2>6. CASE tensor'[n] # tensor[n]
    BY <1>1, <2>6 DEF Keeps, Next, Making, Alias, Drop, Move, Release, Begin, NewStorage, Allocate,
       Copy, Wrap, Fault, CopyFromHost, View, WriteView, BeginStep, StepOne, EndStep, Stop, Ready,
       Assign, TensorType, vars
  <2>. QED
    BY <2>5, <2>6
<1>2. IInv /\ [Next]_vars => [Making => \A n \in Names : Held(n) => Keeps(n)]_vars
  BY <1>1
<1>. QED
  BY Invariance, <1>2, PTL DEF CallsKeepTensors, Spec

-----------------------------------------------------------------------------
(* The refinement of TensorAliases.  A box is a Storage some tensor has.   *)

Shows(s) == \E n \in Names : Held(n) /\ StorageOf(n) = s
Shown ==
  [n \in Names |->
    IF Held(n)
    THEN <<[shape |-> tensor[n][1].shape, device |-> storage[StorageOf(n)][1].device,
            box |-> StorageOf(n)]>>
    ELSE None]
Boxed == [s \in Storages |-> IF Shows(s) THEN <<Content(s)>> ELSE None]

LEMMA BecomeFact ==
  ASSUME NEW tensors, NEW contents, Shown' = tensors,
         \A s \in Storages : Shows(s)' => contents[s] = <<Content(s)>>'
  PROVE  Aliases!Become(tensors, contents)
<1>1. Aliases!InUse(tensors) = {tensors[n][1].box : n \in {m \in Names : tensors[m] # <<>>}}
  BY DEF Aliases!InUse
<1>2. \A n \in Names : tensors[n] # <<>> <=> Held(n)'
  BY DEF Shown, None
<1>3. \A n \in Names : Held(n)' => tensors[n][1].box = StorageOf(n)'
  BY DEF Shown
<1>4. \A s \in Storages : s \in Aliases!InUse(tensors) <=> Shows(s)'
  BY <1>1, <1>2, <1>3 DEF Shows
<1>5. Boxed' = [s \in Storages |-> IF s \in Aliases!InUse(tensors) THEN contents[s] ELSE <<>>]
  BY <1>4 DEF Boxed, None
<1>. QED
  BY <1>5 DEF Aliases!Become, Shown, Boxed, Shows

LEMMA QuietFact ==
  ASSUME UNCHANGED tensor, TensorType,
         \A s \in Storages : Shows(s) =>
           /\ storage'[s][1].device = storage[s][1].device
           /\ Content(s)' = Content(s)
  PROVE  UNCHANGED Aliases!vars
<1>1. \A n \in Names : Held(n)' = Held(n) /\ StorageOf(n)' = StorageOf(n)
  BY DEF Held, StorageOf
<1>2. \A s \in Storages : Shows(s)' = Shows(s)
  BY <1>1 DEF Shows
<1>3. \A n \in Names : Held(n) =>
        StorageOf(n) \in Storages /\ storage'[StorageOf(n)][1].device = storage[StorageOf(n)][1].device
  BY HandleFact DEF Shows
<1>4. Shown' = Shown
  BY <1>1, <1>3 DEF Shown
<1>5. Boxed' = Boxed
  BY <1>2 DEF Boxed
<1>. QED
  BY <1>4, <1>5 DEF Aliases!vars, Shown, Boxed, Shows

(* A tensor that is there keeps its elements while another is made.        *)
LEMMA MakingContent ==
  ASSUME IInv, Making, Next, NEW s \in Storages, Exists(s), local # <<s>>
  PROVE  storage'[s] = storage[s] /\ Content(s)' = Content(s)
<1>1. /\ storage'[s] = storage[s]
      /\ \A b \in Buffers : storage[s][1].buffer = <<b>> => memory'[b] = memory[b]
  BY MakingKeeps
<1>2. /\ storage[s][1].buffer = None \/ \E b \in Buffers : storage[s][1].buffer = <<b>>
      /\ storage[s][1].buffer = None <=> storage[s][1].device = "cpu" \/ storage[s][1].count = 0
  BY ObjectFact DEF IInv, Types, Placed, Owned
<1>. QED
  BY <1>1, <1>2, Untouched

LEMMA ShownFact ==
  ASSUME IInv, NEW s \in Storages, Shows(s) PROVE Exists(s) /\ local # <<s>>
<1>1. PICK n \in Names : Held(n) /\ StorageOf(n) = s
  BY DEF Shows
<1>2. n \in owners[s] /\ Exists(s)
  BY <1>1 DEF IInv, Counted, Alive
<1>3. local = <<s>> => owners[s] = {"local"}
  BY DEF IInv, UnderWay, None
<1>. QED
  BY <1>2, <1>3, LocalAssumption

(* What a write changes, and what it does not.                             *)
LEMMA WrittenFact ==
  ASSUME IInv, NEW s \in Storages, Exists(s), storage[s][1].count # 0, NEW v \in Values,
         SetContent(s, v)
  PROVE  /\ SameObjects
         /\ Content(s)' = v
         /\ \A r \in Storages \ {s} : Exists(r) => Content(r)' = Content(r)
<1>. USE DEF IInv, Types
<1>1. SameObjects
  BY SetContentFact
<1>2. CASE storage[s][1].device = "cpu"
  <2>1. /\ storage' = [storage EXCEPT ![s] = <<[@[1] EXCEPT !.data = v]>>] /\ memory' = memory
        /\ storage[s][1] \in Object
    BY <1>2, ObjectFact DEF SetContent
  <2>2. storage'[s][1].data = v /\ storage'[s][1].count # 0 /\ storage'[s][1].device = "cpu"
    BY <1>2, <2>1 DEF StorageType, Object
  <2>3. \A r \in Storages \ {s} : storage'[r] = storage[r]
    BY <2>1 DEF StorageType
  <2>. QED
    BY <1>1, <2>1, <2>2, <2>3 DEF Content
<1>3. CASE storage[s][1].device # "cpu"
  <2>1. PICK b \in Buffers :
          /\ storage[s][1].buffer = <<b>> /\ memory[b] # None
          /\ \A r \in Storages \ {s} : Exists(r) => storage[r][1].buffer # <<b>>
    BY <1>3, ObjectFact DEF Placed, Owned
  <2>2. /\ memory' = [memory EXCEPT ![b] = <<[@[1] EXCEPT !.value = v]>>] /\ storage' = storage
        /\ memory[b][1] \in Cell
    BY <1>3, <2>1, CellFact DEF SetContent
  <2>3. memory'[b] # None /\ memory'[b][1].value = v
    BY <2>2 DEF MemoryType, Cell, None
  <2>4. Content(s)' = v
    BY <1>3, <2>1, <2>2, <2>3 DEF Content
  <2>5. \A r \in Storages \ {s} : Exists(r) => Content(r)' = Content(r)
    <3>. SUFFICES ASSUME NEW r \in Storages \ {s}, Exists(r) PROVE Content(r)' = Content(r)
      OBVIOUS
    <3>1. storage'[r] = storage[r] /\ Owned(r)
      BY <2>2 DEF Placed
    <3>2. \A c \in Buffers : storage[r][1].buffer = <<c>> => memory'[c] = memory[c]
      BY <2>1, <2>2 DEF MemoryType
    <3>. QED
      BY <3>1, <3>2, ObjectFact, Untouched DEF Owned
  <2>. QED
    BY <1>1, <2>4, <2>5
<1>. QED
  BY <1>2, <1>3

(* Before Wrap, the new Storage holds what it is to hold.                  *)
Full ==
  pc = "wrap" =>
    Content(local[1]) = IF CountOf[call.shape] = 0 THEN Nothing ELSE Wanted

LEMMA FullStep == ASSUME IInv, Full, [Next]_vars PROVE Full'
<1>. USE DEF IInv, Types
<1>. SUFFICES ASSUME pc' = "wrap" PROVE Full'
  BY DEF Full
<1>1. CASE UNCHANGED vars
  BY <1>1 DEF vars, Full, Content, Wanted, StorageOf
<1>2. CASE NewStorage
  <2>1. PICK s \in Storages : s = (CHOOSE t \in Storages : ~Exists(t))
    BY <1>2 DEF NewStorage
  <2>2. call \in Argument /\ CountOf[call.shape] = 0
    BY <1>2 DEF NewStorage, UnderWay, Making
  <2>3. local' = <<s>> /\ storage'[s][1].count = 0 /\ call' = call
    BY <1>2, <2>1, <2>2 DEF NewStorage, FreshStorage, StorageType
  <2>. QED
    BY <2>2, <2>3 DEF Full, Content
<1>3. CASE Copy
  <2>1. Wanted # Nothing /\ SetContent(local[1], Wanted) /\ UNCHANGED <<tensor, local, call>>
    BY <1>3 DEF Copy, Throw, Settle
  <2>2. PICK s \in Storages : local = <<s>> /\ Exists(s)
    BY <1>3, LocalFact DEF Copy, UnderWay
  <2>3. PICK v \in Values : v = Wanted
    BY <1>3, <2>1, WantedFact DEF Copy, Making
  <2>4. storage[s][1].count # 0 /\ storage[s][1].count = CountOf[call.shape]
    BY <1>3, <2>2 DEF Copy, UnderWay
  <2>5. Content(s)' = v /\ \A r \in Storages \ {s} : Exists(r) => Content(r)' = Content(r)
    BY <2>1, <2>2, <2>3, <2>4, WrittenFact
  <2>6. Wanted' = Wanted
    <3>1. call \in Argument
      BY <1>3 DEF Copy, UnderWay, Making
    <3>2. CASE call.op \in {"to", "clone"}
      <4>1. PICK r \in Storages : r = StorageOf(call.from) /\ Exists(r) /\ Shows(r)
        BY <1>3, <3>1, <3>2, HeldFact DEF Copy, UnderWay, Making, Argument, Shows
      <4>2. r # s /\ Content(r)' = Content(r)
        BY <2>2, <2>5, <4>1, ShownFact
      <4>3. StorageOf(call.from)' = r
        BY <2>1, <4>1 DEF StorageOf
      <4>. QED
        BY <2>1, <3>2, <4>1, <4>2, <4>3 DEF Wanted, Content
    <3>3. CASE call.op \in {"empty", "zeros", "ones", "from_host"}
      BY <2>1, <3>3 DEF Wanted
    <3>. QED
      BY <3>1, <3>2, <3>3 DEF Argument
  <2>7. Content(local[1])' = Content(s)'
    BY <2>1, <2>2 DEF Content
  <2>. QED
    BY <2>1, <2>3, <2>4, <2>5, <2>6, <2>7 DEF Full
<1>. QED
  BY <1>1, <1>2, <1>3 DEF Next, Alias, Drop, Move, Release, Begin, Allocate, Wrap, Fault, Throw,
     Assign, Settle, CopyFromHost, View, WriteView, BeginStep, StepOne, EndStep, Stop, Ready, vars

LEMMA InUseFact ==
  ASSUME NEW s \in Storages PROVE s \in Aliases!InUse(Shown) <=> Shows(s)
<1>1. Aliases!InUse(Shown) = {Shown[n][1].box : n \in {m \in Names : Shown[m] # <<>>}}
  BY DEF Aliases!InUse
<1>2. \A n \in Names : (Shown[n] # <<>> <=> Held(n)) /\ (Held(n) => Shown[n][1].box = StorageOf(n))
  BY DEF Shown, None
<1>. QED
  BY <1>1, <1>2 DEF Shows

LEMMA WriteRefined ==
  ASSUME IInv, NEW s \in Storages, Shows(s), storage[s][1].count # 0, NEW v \in Values,
         SetContent(s, v), UNCHANGED tensor
  PROVE  Aliases!Write
<1> DEFINE Contents(b, c) == [Boxed EXCEPT ![b] = <<c>>]
<1>1. /\ SameObjects /\ Content(s)' = v
      /\ \A r \in Storages \ {s} : Exists(r) => Content(r)' = Content(r)
  BY ShownFact, WrittenFact
<1>2. \A r \in Storages : Shows(r)' <=> Shows(r)
  BY DEF Shows, Held, StorageOf
<1>3. \A n \in Names : Held(n) => StorageOf(n) \in Storages /\ Exists(StorageOf(n))
  BY HeldFact DEF IInv, Types
<1>4. Shown' = Shown
  BY <1>1, <1>3 DEF Shown, SameObjects, Held, StorageOf
<1>5. \A r \in Storages : Shows(r)' => Contents(s, v)[r] = <<Content(r)>>'
  BY <1>1, <1>2, ShownFact DEF Boxed
<1>6. PICK T, C : T = Shown /\ C = Contents(s, v)
  OBVIOUS
<1>7. Aliases!Become(T, C)
  BY <1>4, <1>5, <1>6, BecomeFact
<1> HIDE DEF Contents
<1>8. Aliases!Become(Shown, Contents(s, v))
  BY <1>6, <1>7 DEF Aliases!Become
<1>9. s \in Aliases!InUse(Shown)
  BY InUseFact
<1>10. \E b \in Aliases!InUse(Shown), c \in Values \cup {Nothing} :
         Aliases!Become(Shown, Contents(b, c))
  BY <1>8, <1>9 DEF Aliases!Become
<1>. QED
  BY <1>10, Zenon DEF Contents, Aliases!Write, Shown, Boxed, Shows

LEMMA WritesRefined ==
  ASSUME IInv, CopyFromHost \/ WriteView \/ StepOne
  PROVE  Aliases!Write \/ UNCHANGED Aliases!vars
<1>. USE DEF IInv, Types
<1>1. CASE CopyFromHost
  <2>1. PICK n \in Names, v \in HostValues \cup {Garbage} :
          Held(n) /\ storage[StorageOf(n)][1].count # 0 /\ SetContent(StorageOf(n), v)
    BY <1>1 DEF CopyFromHost
  <2>2. StorageOf(n) \in Storages /\ Shows(StorageOf(n)) /\ v \in Values
    BY <2>1, HeldFact, ValuesAssumption DEF Shows
  <2>. QED
    BY <1>1, <2>1, <2>2, WriteRefined DEF CopyFromHost
<1>2. CASE WriteView
  <2>1. PICK v \in views, e \in HostValues :
          v.data # None /\ memory' = [memory EXCEPT ![v.data[1]] = <<[@[1] EXCEPT !.value = e]>>]
    BY <1>2 DEF WriteView
  <2>2. PICK s \in Storages : s = v.of /\ Exists(s) /\ v.data = storage[s][1].buffer
    BY DEF Viewed
  <2>3. storage[s][1].device # "cpu" /\ storage[s][1].count # 0
    BY <2>1, <2>2 DEF Placed, Owned
  <2>4. SetContent(s, e) /\ e \in Values
    BY <1>2, <2>1, <2>2, <2>3, ValuesAssumption DEF SetContent, WriteView
  <2>5. Shows(s)
    <3>1. owners[s] # {} /\ "local" \notin owners[s]
      BY <1>2, <2>2 DEF WriteView, Ready, Alive, Counted, UnderWay, None
    <3>. QED
      BY <3>1 DEF OwnersType, Counted, Shows
  <2>. QED
    BY <1>2, <2>3, <2>4, <2>5, WriteRefined DEF WriteView
<1>3. CASE StepOne
  <2>1. pc = "step" /\ at \in DOMAIN params
    BY <1>3 DEF StepOne, ControlType
  <2>2. PICK s \in Storages : s = ParamStorage(at) /\ Shows(s) /\ Exists(s)
    BY <2>1, HeldFact DEF Stepping, ParamStorage, Shows
  <2>3. CASE UNCHANGED <<storage, memory>>
    BY <1>3, <2>3, QuietFact DEF StepOne, Content
  <2>4. CASE storage[s][1].count # 0 /\ SetContent(s, Stepped(Content(s)))
    <3>1. Stepped(Content(s)) \in Values
      BY <2>2, <2>4, ContentFact, ValuesAssumption
    <3>. QED
      BY <1>3, <2>2, <2>4, <3>1, WriteRefined DEF StepOne
  <2>. QED
    BY <1>3, <2>2, <2>3, <2>4 DEF StepOne
<1>. QED
  BY <1>1, <1>2, <1>3

LEMMA QuietRefined ==
  ASSUME IInv, UNCHANGED tensor,
         \/ (Making /\ Next) \/ Release
         \/ UNCHANGED <<storage, memory>>
  PROVE  UNCHANGED Aliases!vars
<1>. USE DEF IInv, Types
<1>1. CASE Making /\ Next
  BY <1>1, ShownFact, MakingContent, QuietFact
<1>2. CASE Release
  <2>. SUFFICES ASSUME NEW s \in Storages, Shows(s)
                PROVE storage'[s] = storage[s] /\ Content(s)' = Content(s)
    BY QuietFact
  <2>1. Exists(s) /\ s \notin Orphans
    BY ShownFact DEF Shows, Orphans, Counted
  <2>2. storage'[s] = storage[s]
    BY <1>2, <2>1 DEF Release
  <2>3. \A b \in Buffers : storage[s][1].buffer = <<b>> =>
          \A t \in Orphans : storage[t][1].buffer # <<b>>
    BY <2>1 DEF Placed, Owned, Orphans
  <2>4. \A b \in Buffers : storage[s][1].buffer = <<b>> => memory'[b] = memory[b]
    BY <1>2, <2>3 DEF Release, FreeBuffers
  <2>5. /\ storage[s][1].buffer = None \/ \E b \in Buffers : storage[s][1].buffer = <<b>>
        /\ storage[s][1].buffer = None <=> storage[s][1].device = "cpu" \/ storage[s][1].count = 0
    BY <2>1, ObjectFact DEF Placed, Owned
  <2>. QED
    BY <2>2, <2>4, <2>5, Untouched
<1>3. CASE UNCHANGED <<storage, memory>>
  BY <1>3, QuietFact DEF Content
<1>. QED
  BY <1>1, <1>2, <1>3

LEMMA ShownAt ==
  ASSUME NEW n \in Names
  PROVE  /\ ~Held(n) => Shown[n] = None
         /\ Held(n) => /\ Shown[n] # <<>>
                       /\ Shown[n][1].shape = tensor[n][1].shape
                       /\ Shown[n][1].device = storage[StorageOf(n)][1].device
                       /\ Shown[n][1].box = StorageOf(n)
                       /\ Shown[n] = <<[shape |-> tensor[n][1].shape,
                                        device |-> storage[StorageOf(n)][1].device,
                                        box |-> StorageOf(n)]>>
  BY DEF Shown, None

(* A variable that is given a handle, and the others that keep theirs.     *)
LEMMA HandedOver ==
  ASSUME IInv, NEW n \in Names, NEW t \in {None} \cup {<<h>> : h \in Handle},
         tensor' = [tensor EXCEPT ![n] = t],
         \A s \in Storages : Shows(s) => storage'[s] = storage[s]
  PROVE  Shown' = [Shown EXCEPT ![n] =
           IF t = None THEN None
           ELSE <<[shape |-> t[1].shape, device |-> storage'[t[1].storage][1].device,
                   box |-> t[1].storage]>>]
<1>. USE DEF IInv, Types
<1>1. tensor'[n] = t /\ \A m \in Names \ {n} : tensor'[m] = tensor[m]
  BY DEF TensorType
<1>2. \A m \in Names \ {n} : Held(m) => StorageOf(m) \in Storages /\ Shows(StorageOf(m))
  BY HeldFact DEF Shows
<1>3. \A m \in Names \ {n} : Held(m) => storage'[StorageOf(m)] = storage[StorageOf(m)]
  BY <1>2
<1>4. \A m \in Names \ {n} : Shown'[m] = Shown[m]
  BY <1>1, <1>3 DEF Shown, Held, StorageOf
<1>5. Shown'[n] = IF t = None THEN None
                  ELSE <<[shape |-> t[1].shape, device |-> storage'[t[1].storage][1].device,
                          box |-> t[1].storage]>>
  BY <1>1 DEF Shown, Held, StorageOf
<1>6. Shown' = [m \in Names |-> Shown'[m]] /\ Shown = [m \in Names |-> Shown[m]]
  BY DEF Shown
<1>. QED
  BY <1>4, <1>5, <1>6

LEMMA AliasRefined ==
  ASSUME IInv, NEW n \in Names, NEW m \in Names, NEW shape \in Shapes,
         Held(m), CountOf[shape] = storage[StorageOf(m)][1].count,
         Assign(n, <<[shape |-> shape, storage |-> StorageOf(m)]>>), UNCHANGED <<storage, memory>>
  PROVE  Aliases!Alias(n, m, shape)
<1>. USE DEF IInv, Types
<1>1. PICK s \in Storages : s = StorageOf(m) /\ Exists(s) /\ Shows(s)
  BY HeldFact DEF Shows
<1>2. tensor' = [tensor EXCEPT ![n] = <<[shape |-> shape, storage |-> s]>>]
      /\ <<[shape |-> shape, storage |-> s]>> \in {None} \cup {<<h>> : h \in Handle}
  BY <1>1 DEF Assign, Handle
<1>3. PICK T, C :
        /\ T = [Shown EXCEPT ![n] = <<[shape |-> shape, device |-> Shown[m][1].device,
                                       box |-> Shown[m][1].box]>>]
        /\ C = Boxed
  OBVIOUS
<1>4. Shown' = T
  <2>1. PICK t \in {None} \cup {<<h>> : h \in Handle} : t = <<[shape |-> shape, storage |-> s]>>
    BY <1>2
  <2>2. t # None /\ t[1].shape = shape /\ t[1].storage = s /\ tensor' = [tensor EXCEPT ![n] = t]
    BY <1>2, <2>1 DEF None
  <2>3. Shown' = [Shown EXCEPT ![n] = <<[shape |-> shape, device |-> storage'[s][1].device, box |-> s]>>]
    BY <2>2, HandedOver
  <2>. QED
    BY <1>1, <1>3, <2>3, ShownAt
<1>5. \A r \in Storages : Shows(r)' => Shows(r)
  BY <1>1, <1>2 DEF Shows, Held, StorageOf, TensorType
<1>6. \A r \in Storages : Shows(r)' => C[r] = <<Content(r)>>'
  BY <1>3, <1>5 DEF Boxed, Content
<1>7. Aliases!Become(T, C)
  BY <1>4, <1>6, BecomeFact
<1>8. Aliases!Become([Shown EXCEPT ![n] = <<[shape |-> shape, device |-> Shown[m][1].device,
                                             box |-> Shown[m][1].box]>>], Boxed)
  BY <1>3, <1>7 DEF Aliases!Become
<1>9. Shown[m] # <<>> /\ CountOf[shape] = CountOf[Shown[m][1].shape]
  BY ShownAt DEF Sized
<1>. QED
  BY <1>8, <1>9, Zenon DEF Aliases!Alias, Aliases!Show, Shown, Boxed, Shows

LEMMA DropRefined ==
  ASSUME IInv, NEW n \in Names, Assign(n, None), UNCHANGED <<storage, memory>>
  PROVE  Aliases!Drop(n)
<1>. USE DEF IInv, Types
<1>1. tensor' = [tensor EXCEPT ![n] = None]
  BY DEF Assign
<1>2. PICK T, C : T = [Shown EXCEPT ![n] = <<>>] /\ C = Boxed
  OBVIOUS
<1>3. Shown' = T
  BY <1>1, <1>2, HandedOver DEF None
<1>4. \A r \in Storages : Shows(r)' => Shows(r)
  BY <1>1 DEF Shows, Held, StorageOf, TensorType
<1>5. \A r \in Storages : Shows(r)' => C[r] = <<Content(r)>>'
  BY <1>2, <1>4 DEF Boxed, Content
<1>6. Aliases!Become(T, C)
  BY <1>3, <1>5, BecomeFact
<1>7. Aliases!Become([Shown EXCEPT ![n] = <<>>], Boxed)
  BY <1>2, <1>6 DEF Aliases!Become
<1>. QED
  BY <1>7, Zenon DEF Aliases!Drop, Shown, Boxed, Shows

LEMMA SameShown ==
  ASSUME NEW k \in Names, NEW m \in Names, tensor'[k] = tensor[m], UNCHANGED storage
  PROVE  Shown'[k] = Shown[m]
  BY DEF Shown, Held, StorageOf

LEMMA MoveRefined ==
  ASSUME IInv, NEW n \in Names, NEW m \in Names, n # m, Held(m),
         tensor' = [tensor EXCEPT ![n] = tensor[m], ![m] = None], UNCHANGED <<storage, memory>>
  PROVE  Aliases!Move(n, m)
<1>. USE DEF IInv, Types
<1>1. PICK T, C : T = [Shown EXCEPT ![n] = Shown[m], ![m] = <<>>] /\ C = Boxed
  OBVIOUS
<1>2. tensor'[n] = tensor[m] /\ tensor'[m] = None /\ \A k \in Names \ {n, m} : tensor'[k] = tensor[k]
  BY DEF TensorType
<1>3. Shown' = T
  <2>1. \A k \in Names : Shown'[k] = IF k = m THEN <<>> ELSE IF k = n THEN Shown[m] ELSE Shown[k]
    <3>1. Shown'[n] = Shown[m]
      BY <1>2, SameShown
    <3>2. Shown'[m] = <<>>
      BY <1>2 DEF Shown, Held, None
    <3>3. \A k \in Names \ {n, m} : Shown'[k] = Shown[k]
      BY <1>2, SameShown
    <3>. QED
      BY <3>1, <3>2, <3>3
  <2>2. Shown' = [k \in Names |-> Shown'[k]] /\ Shown = [k \in Names |-> Shown[k]]
    BY DEF Shown
  <2>. QED
    BY <1>1, <2>1, <2>2
<1>4. \A r \in Storages : Shows(r)' => Shows(r)
  BY <1>2 DEF Shows, Held, StorageOf
<1>5. \A r \in Storages : Shows(r)' => C[r] = <<Content(r)>>'
  BY <1>1, <1>4 DEF Boxed, Content
<1>6. Aliases!Become(T, C)
  BY <1>3, <1>5, BecomeFact
<1>7. Aliases!Become([Shown EXCEPT ![n] = Shown[m], ![m] = <<>>], Boxed)
  BY <1>1, <1>6 DEF Aliases!Become
<1>8. Shown[m] # <<>>
  BY ShownAt
<1>. QED
  BY <1>7, <1>8, Zenon DEF Aliases!Move, Shown, Boxed, Shows

(* Wrap puts a new box in place, that holds what the Storage holds.        *)
LEMMA WrapFact ==
  ASSUME IInv, Wrap, NEW s \in Storages, local = <<s>>, NEW T, NEW C,
         T = [Shown EXCEPT ![call.dest] =
                <<[shape |-> call.shape, device |-> call.device, box |-> s]>>],
         C = [Boxed EXCEPT ![s] = <<Content(s)>>]
  PROVE  Aliases!Become(T, C) /\ s \in Storages \ Aliases!InUse(Shown)
<1>. USE DEF IInv, Types
<1>1. call \in Argument /\ storage[s][1].device = call.device /\ UNCHANGED <<storage, memory>>
  BY DEF Wrap, UnderWay, Making, None
<1>2. PICK n \in Names, t \in {None} \cup {<<h>> : h \in Handle} :
        n = call.dest /\ t = <<[shape |-> call.shape, storage |-> s]>>
  <2>1. <<[shape |-> call.shape, storage |-> s]>> \in {<<h>> : h \in Handle}
    BY <1>1 DEF Argument, Handle
  <2>. QED
    BY <1>1, <2>1 DEF Argument
<1>3. /\ t # None /\ t[1].shape = call.shape /\ t[1].storage = s
      /\ tensor' = [tensor EXCEPT ![n] = t]
  BY <1>2 DEF Wrap, Assign, None
<1>4. Shown' = [Shown EXCEPT ![n] =
                  <<[shape |-> call.shape, device |-> storage'[s][1].device, box |-> s]>>]
  BY <1>1, <1>3, HandedOver
<1>5. Shown' = T
  BY <1>1, <1>2, <1>4
<1>6. \A r \in Storages : Shows(r)' => r = s \/ Shows(r)
  BY <1>3 DEF Shows, Held, StorageOf, TensorType
<1>7. \A r \in Storages : Shows(r)' => C[r] = <<Content(r)>>'
  BY <1>1, <1>6 DEF Boxed, Content
<1>8. ~Shows(s)
  BY ShownFact
<1>. QED
  BY <1>5, <1>7, <1>8, BecomeFact, InUseFact

LEMMA WrapRefined == ASSUME IInv, Full, Wrap PROVE MadeOne
<1>. USE DEF IInv, Types
<1>1. PICK s \in Storages : local = <<s>> /\ Exists(s)
  BY LocalFact DEF Wrap, UnderWay
<1>2. /\ call \in Argument /\ UNCHANGED <<storage, memory>>
      /\ Content(s) = IF CountOf[call.shape] = 0 THEN Nothing ELSE Wanted
  BY <1>1 DEF Wrap, Full, UnderWay, Making
<1>3. CASE call.op \in {"to", "clone"}
  <2>1. PICK m \in Names : m = call.from /\ Held(m) /\ tensor[m][1].shape = call.shape
    BY <1>2, <1>3 DEF Wrap, UnderWay, Making, Argument
  <2>2. PICK r \in Storages : r = StorageOf(m) /\ Exists(r) /\ Shows(r)
    BY <2>1, HeldFact DEF Shows
  <2>3. Content(s) = Content(r)
    BY <1>2, <1>3, <2>1, <2>2 DEF Wanted, Sized, Content
  <2>4. Shown[m] # <<>> /\ Shown[m][1].shape = call.shape /\ Shown[m][1].box = r
    BY <2>1, <2>2, ShownAt
  <2>5. Boxed[Shown[m][1].box] = <<Content(s)>>
    BY <2>2, <2>3, <2>4 DEF Boxed
  <2> DEFINE Tensors(b) == [Shown EXCEPT ![call.dest] =
                              <<[shape |-> Shown[call.from][1].shape, device |-> call.device,
                                 box |-> b]>>]
             Contents(b) == [Boxed EXCEPT ![b] = Boxed[Shown[call.from][1].box]]
  <2>6. PICK T, C : T = Tensors(s) /\ C = Contents(s)
    OBVIOUS
  <2>7. Aliases!Become(T, C) /\ s \in Storages \ Aliases!InUse(Shown)
    BY <1>1, <2>1, <2>4, <2>5, <2>6, WrapFact
  <2> HIDE DEF Tensors, Contents
  <2>8. \E b \in Storages \ Aliases!InUse(Shown) : Aliases!Become(Tensors(b), Contents(b))
    BY <2>6, <2>7 DEF Aliases!Become
  <2>9. Shown[call.from] # <<>>
    BY <2>1, <2>4
  <2>10. Aliases!CopyOf(call.dest, call.from, call.device)
    BY <2>8, <2>9, Zenon DEF Tensors, Contents, Aliases!CopyOf, Aliases!Show, Shown, Boxed, Shows
  <2>. QED
    BY <1>3, <2>10 DEF MadeOne
<1>4. CASE call.op \in {"empty", "zeros", "ones", "from_host"}
  <2> DEFINE c == IF CountOf[call.shape] = 0 THEN Nothing ELSE Filled(call.op, call.device)
  <2>1. Content(s) = c
    BY <1>2, <1>4 DEF Wanted, Filled
  <2> DEFINE Tensors(b) == [Shown EXCEPT ![call.dest] =
                              <<[shape |-> call.shape, device |-> call.device, box |-> b]>>]
             Contents(b) == [Boxed EXCEPT ![b] = <<c>>]
  <2>2. PICK T, C : T = Tensors(s) /\ C = Contents(s)
    OBVIOUS
  <2>3. Aliases!Become(T, C) /\ s \in Storages \ Aliases!InUse(Shown)
    BY <1>1, <2>1, <2>2, WrapFact
  <2> HIDE DEF Tensors, Contents
  <2>4. \E b \in Storages \ Aliases!InUse(Shown) : Aliases!Become(Tensors(b), Contents(b))
    BY <2>2, <2>3 DEF Aliases!Become
  <2>5. Aliases!Create(call.dest, call.shape, call.device, c)
    BY <2>4, Zenon DEF Tensors, Contents, Aliases!Create, Aliases!Show, Shown, Boxed, Shows
  <2>. QED
    BY <1>4, <2>5 DEF MadeOne
<1>. QED
  BY <1>2, <1>3, <1>4 DEF Argument

LEMMA StepRefined == ASSUME IInv, Full, [Next]_vars PROVE [Implements]_vars
<1>. USE DEF IInv, Types
<1>. SUFFICES ASSUME Next PROVE Implements
  OBVIOUS
<1>1. CASE tensor' = tensor
  <2>1. CASE CopyFromHost \/ WriteView \/ StepOne
    BY <1>1, <2>1, WritesRefined DEF Implements
  <2>2. CASE Release \/ Making
    BY <1>1, <2>2, QuietRefined DEF Implements
  <2>3. CASE Alias \/ Drop \/ Move \/ Begin \/ View \/ BeginStep \/ EndStep \/ Stop
    BY <1>1, <2>3, QuietRefined
       DEF Implements, Alias, Drop, Move, Begin, View, BeginStep, EndStep, Stop, vars
  <2>. QED
    BY <2>1, <2>2, <2>3 DEF Next, Making, NewStorage, Allocate, Copy, Wrap, Fault
<1>2. CASE tensor' # tensor
  <2>1. CASE Wrap
    <3>1. Making
      BY <2>1 DEF Wrap, Making
    <3>. QED
      BY <1>2, <2>1, <3>1, WrapRefined DEF Implements
  <2>2. CASE Alias \/ Drop \/ Move
    <3>1. ~Making
      BY <2>2 DEF Alias, Drop, Move, Ready, Making
    <3>2. SharedOne
      BY <2>2, AliasRefined, DropRefined, MoveRefined DEF Alias, Drop, Move, SharedOne
    <3>. QED
      BY <1>2, <3>1, <3>2 DEF Implements
  <2>. QED
    BY <1>2, <2>1, <2>2 DEF Next, Release, Begin, NewStorage, Allocate, Copy, Fault, CopyFromHost,
       View, WriteView, BeginStep, StepOne, EndStep, Stop, vars
<1>. QED
  BY <1>1, <1>2

(* Tensors behave as TensorAliases says: every step is the abstract action *)
(* of its name, or changes no element that is to be seen.                  *)
THEOREM Refinement == Spec => RefinesAliases
<1>1. Init => Aliases!Init /\ Full
  BY DEF Init, Aliases!Init, Full, Held, None
<1>2. IInv /\ Full /\ [Next]_vars => Full' /\ [Implements]_vars
  BY FullStep, StepRefined
<1>. QED
  BY Invariance, <1>1, <1>2, PTL DEF Spec, RefinesAliases

-----------------------------------------------------------------------------
(* How far an optimizer step has come.                                     *)

(* The least number with a property has it, and no smaller one has.        *)
LEMMA LeastExists ==
  ASSUME NEW T \in SUBSET Nat, T # {}
  PROVE  \E n \in T : \A m \in T : ~ (m < n)
<1> DEFINE R == OpToRel(<, Nat)
<1>1. IsWellFoundedOn(R, Nat)
  BY NatLessThanWellFounded
<1>2. PICK n \in T : \A m \in T : ~ (<<m, n>> \in R)
  <2>. HIDE DEF R
  <2>. QED
    BY <1>1, WFMin
<1>. QED
  BY <1>2 DEF OpToRel

(* The function that Updated is defined by.                                *)
Chain(f, v, n) == f = [k \in 0 .. n |-> IF k = 0 THEN v ELSE Stepped(f[k - 1])]

LEMMA ChainIsOne ==
  ASSUME NEW v, NEW f, NEW g, NEW n \in Nat, NEW N \in Nat, n <= N, Chain(f, v, n), Chain(g, v, N)
  PROVE  \A k \in 0 .. n : f[k] = g[k]
<1> DEFINE T == {k \in 0 .. n : f[k] # g[k]}
<1>1. SUFFICES ASSUME T # {} PROVE FALSE
  OBVIOUS
<1>2. PICK k \in T : \A m \in T : ~ (m < k)
  <2>1. T \in SUBSET Nat
    OBVIOUS
  <2>. HIDE DEF T
  <2>. QED
    BY <1>1, <2>1, LeastExists
<1>3. k # 0
  BY <1>2 DEF Chain
<1>4. k - 1 \in 0 .. n /\ k - 1 < k
  BY <1>2, <1>3
<1>5. f[k - 1] = g[k - 1]
  BY <1>2, <1>4
<1>6. f[k] = Stepped(f[k - 1]) /\ g[k] = Stepped(g[k - 1])
  BY <1>2, <1>3 DEF Chain
<1>. QED
  BY <1>2, <1>5, <1>6

LEMMA ChainExtends ==
  ASSUME NEW v, NEW f, NEW n \in Nat, Chain(f, v, n)
  PROVE  Chain([k \in 0 .. n + 1 |-> IF k = n + 1 THEN Stepped(f[n]) ELSE f[k]], v, n + 1)
<1> DEFINE g == [k \in 0 .. n + 1 |-> IF k = n + 1 THEN Stepped(f[n]) ELSE f[k]]
<1>1. \A k \in 0 .. n + 1 : g[k] = IF k = 0 THEN v ELSE Stepped(g[k - 1])
  <2>. TAKE k \in 0 .. n + 1
  <2>1. CASE k = 0
    BY <2>1 DEF Chain
  <2>2. CASE k \in 1 .. n
    BY <2>2 DEF Chain
  <2>3. CASE k = n + 1
    BY <2>3
  <2>. QED
    BY <2>1, <2>2, <2>3
<1>. HIDE DEF g
<1>2. g = [k \in 0 .. n + 1 |-> g[k]]
  BY DEF g
<1>. QED
  BY <1>1, <1>2 DEF Chain, g

LEMMA ChainExists ==
  ASSUME NEW v, NEW N \in Nat PROVE \E f : Chain(f, v, N)
<1> DEFINE T == {n \in Nat : ~ \E f : Chain(f, v, n)}
<1>1. SUFFICES ASSUME T # {} PROVE FALSE
  OBVIOUS
<1>2. PICK n \in T : \A m \in T : ~ (m < n)
  <2>1. T \in SUBSET Nat
    OBVIOUS
  <2>. HIDE DEF T
  <2>. QED
    BY <1>1, <2>1, LeastExists
<1>3. n # 0
  <2>1. Chain([k \in 0 .. 0 |-> v], v, 0)
    BY DEF Chain
  <2>. QED
    BY <1>2, <2>1
<1>4. n - 1 \in Nat /\ n - 1 < n /\ (n - 1) + 1 = n
  BY <1>2, <1>3
<1>5. PICK f : Chain(f, v, n - 1)
  BY <1>2, <1>4
<1>6. \E g : Chain(g, v, (n - 1) + 1)
  BY <1>4, <1>5, ChainExtends
<1>. QED
  BY <1>2, <1>4, <1>6

LEMMA UpdatedFact ==
  ASSUME NEW v, NEW n \in Nat
  PROVE  \E f : Chain(f, v, n) /\ Updated(v, n) = f[n]
<1> DEFINE f == CHOOSE g : Chain(g, v, n)
<1>1. Chain(f, v, n)
  BY ChainExists
<1>2. Updated(v, n) = f[n]
  BY DEF Updated, Chain
<1>. QED
  BY <1>1, <1>2

LEMMA UpdatedNext ==
  ASSUME NEW v, NEW n \in Nat
  PROVE  Updated(v, 0) = v /\ Updated(v, n + 1) = Stepped(Updated(v, n))
<1>1. PICK e : Chain(e, v, 0) /\ Updated(v, 0) = e[0]
  BY UpdatedFact
<1>2. PICK f : Chain(f, v, n) /\ Updated(v, n) = f[n]
  BY UpdatedFact
<1>3. PICK g : Chain(g, v, n + 1) /\ Updated(v, n + 1) = g[n + 1]
  BY UpdatedFact
<1>4. f[n] = g[n]
  BY <1>2, <1>3, ChainIsOne
<1>5. e[0] = v
  BY <1>1 DEF Chain
<1>6. g[n + 1] = Stepped(g[n])
  BY <1>3 DEF Chain
<1>. QED
  BY <1>1, <1>2, <1>3, <1>4, <1>5, <1>6

(* The places of a Storage in the list of parameters.                      *)
Places(s, k) == {i \in 1 .. k : ParamStorage(i) = s /\ storage[s][1].count # 0}

LEMMA UpdatesFact ==
  ASSUME NEW s \in Storages, NEW k \in Nat
  PROVE  /\ Updates(s, k) \in Nat
         /\ Updates(s, 0) = 0
         /\ storage[s][1].count = 0 => Updates(s, k) = 0
         /\ Updates(s, k + 1) =
              IF ParamStorage(k + 1) = s /\ storage[s][1].count # 0 THEN Updates(s, k) + 1
              ELSE Updates(s, k)
<1>1. \A n \in Nat : Updates(s, n) = Cardinality(Places(s, n))
  BY DEF Updates, Places
<1>2. IsFiniteSet(Places(s, k)) /\ k + 1 \notin Places(s, k)
  <2>1. Places(s, k) \in SUBSET (1 .. k)
    BY DEF Places
  <2>. QED
    BY <2>1, FS_Interval, FS_Subset
<1>3. Places(s, 0) = {} /\ (storage[s][1].count = 0 => Places(s, k) = {})
  BY DEF Places
<1>4. Places(s, k + 1) =
        IF ParamStorage(k + 1) = s /\ storage[s][1].count # 0 THEN Places(s, k) \cup {k + 1}
        ELSE Places(s, k)
  BY DEF Places
<1>5. Cardinality(Places(s, k)) \in Nat /\ Cardinality(Places(s, 0)) = 0
      /\ (storage[s][1].count = 0 => Cardinality(Places(s, k)) = 0)
  BY <1>2, <1>3, FS_EmptySet, FS_CardinalityType
<1>6. Cardinality(Places(s, k) \cup {k + 1}) = Cardinality(Places(s, k)) + 1
  BY <1>2, FS_AddElement
<1>. QED
  BY <1>1, <1>4, <1>5, <1>6

(* A step that keeps the Storage objects keeps the places.                 *)
LEMMA SameUpdates ==
  ASSUME NEW s \in Storages, Exists(s), SameObjects, UNCHANGED <<tensor, params>>
  PROVE  \A k \in Nat : Updates(s, k)' = Updates(s, k)
  BY DEF Updates, ParamStorage, StorageOf, SameObjects

LEMMA StepOnePrefix == ASSUME IInv, StepIsPrefix, StepOne PROVE StepIsPrefix'
<1>. USE DEF IInv, Types
<1>1. pc = "step" /\ at \in 1 .. Len(params) /\ at - 1 \in Nat /\ (at - 1) + 1 = at
  BY DEF StepOne, ControlType
<1>2. PICK s \in Storages : s = ParamStorage(at) /\ Exists(s)
  <2>1. at \in DOMAIN params
    BY <1>1 DEF ControlType
  <2>. QED
    BY <1>1, <2>1, HeldFact DEF Stepping, ParamStorage
<1>3. \A r \in Storages :
        Exists(r) => Content(r) = Updated(before[r], Updates(r, at - 1)) /\ Updates(r, at - 1) \in Nat
  BY <1>1, UpdatesFact DEF StepIsPrefix
<1>4. \A r \in Storages :
        Updates(r, at) = IF r = s /\ storage[r][1].count # 0 THEN Updates(r, at - 1) + 1
                         ELSE Updates(r, at - 1)
  BY <1>1, <1>2, UpdatesFact
<1>5. \A r \in Storages : Exists(r) /\ SameObjects =>
        \A k \in Nat : Updates(r, k)' = Updates(r, k)
  BY SameUpdates DEF StepOne
<1> DEFINE Reached(r, k) == Content(r)' = Updated(before[r], Updates(r, k))
<1>6. \/ /\ storage[s][1].count = 0
         /\ at' = at + 1 /\ UNCHANGED <<pc, storage, memory>>
      \/ /\ storage[s][1].count # 0 /\ SetContent(s, Stepped(Content(s)))
         /\ at' = at + 1 /\ UNCHANGED pc
      \/ /\ pc' = "failed" /\ at' = at /\ storage[s][1].count # 0
         /\ \/ UNCHANGED <<storage, memory>>
            \/ storage[s][1].device # "cpu" /\ SetContent(s, Stepped(Content(s)))
  BY <1>2 DEF StepOne
<1>7. UNCHANGED <<storage, memory>> =>
        SameObjects /\ \A r \in Storages : Exists(r) => Reached(r, at - 1)
  <2>. SUFFICES ASSUME UNCHANGED <<storage, memory>>
                PROVE  SameObjects /\ \A r \in Storages : Exists(r) => Reached(r, at - 1)
    OBVIOUS
  <2>1. SameObjects /\ \A r \in Storages : Content(r)' = Content(r)
    BY DEF SameObjects, Content, Exists
  <2>. QED
    BY <1>3, <2>1
<1>8. storage[s][1].count # 0 /\ SetContent(s, Stepped(Content(s))) =>
        /\ SameObjects /\ Reached(s, at)
        /\ \A r \in Storages \ {s} : Exists(r) => Reached(r, at - 1) /\ Reached(r, at)
  <2>. SUFFICES ASSUME storage[s][1].count # 0, SetContent(s, Stepped(Content(s)))
                PROVE  /\ SameObjects /\ Reached(s, at)
                       /\ \A r \in Storages \ {s} : Exists(r) => Reached(r, at - 1) /\ Reached(r, at)
    OBVIOUS
  <2>1. Stepped(Content(s)) \in Values
    BY <1>2, ContentFact, ValuesAssumption
  <2>2. /\ SameObjects /\ Content(s)' = Stepped(Content(s))
        /\ \A r \in Storages \ {s} : Exists(r) => Content(r)' = Content(r)
    BY <1>2, <2>1, WrittenFact
  <2>. QED
    BY <1>2, <1>3, <1>4, <2>2, UpdatedNext
<1>9. SameObjects
      /\ \A r \in Storages : Exists(r) =>
           \/ Reached(r, at' - 1)
           \/ /\ pc' = "failed" /\ at' = at /\ r = s /\ storage[r][1].device # "cpu"
              /\ Reached(r, at)
  <2>1. \A r \in Storages : storage[s][1].count = 0 /\ Reached(r, at - 1) => Reached(r, at)
    BY <1>4
  <2>2. (at + 1) - 1 = at
    BY <1>1
  <2>. HIDE DEF Reached
  <2>. QED
    BY <1>2, <1>6, <1>7, <1>8, <2>1, <2>2
<1>10. at' - 1 \in Nat /\ ParamStorage(at) = s /\ (at' = at => ParamStorage(at)' = s)
  BY <1>1, <1>2, <1>6 DEF StepOne, ParamStorage, StorageOf
<1>11. \A r \in Storages : Exists(r)' =>
         /\ Exists(r) /\ storage'[r][1].device = storage[r][1].device
         /\ Updates(r, at - 1)' = Updates(r, at' - 1)
         /\ at' = at => Updates(r, at)' = Updates(r, at)
  BY <1>1, <1>5, <1>9, <1>10 DEF SameObjects
<1>12. before' = before
  BY DEF StepOne
<1>. HIDE DEF Reached
<1>13. ASSUME NEW r \in Storages, Exists(r)'
       PROVE  \/ Reached(r, at' - 1)
              \/ /\ pc' = "failed" /\ at' = at /\ r = s /\ storage[r][1].device # "cpu"
                 /\ Reached(r, at)
  BY <1>9, <1>11, <1>13
<1>. QED
  BY <1>10, <1>11, <1>12, <1>13 DEF StepIsPrefix, Reached

LEMMA BeginPrefix == ASSUME IInv, BeginStep PROVE StepIsPrefix'
<1>1. at' = 1 /\ pc' = "step" /\ UNCHANGED <<storage, memory>>
  BY DEF BeginStep
<1>2. \A s \in Storages : Exists(s)' => before'[s] = Content(s)'
  BY <1>1 DEF BeginStep, Exists, Content
<1>3. \A s \in Storages : Updates(s, at - 1)' = 0
  BY <1>1, FS_EmptySet DEF Updates
<1>. QED
  BY <1>2, <1>3, UpdatedNext DEF StepIsPrefix

LEMMA StepPrefix == ASSUME IInv, StepIsPrefix, [Next]_vars PROVE StepIsPrefix'
<1>1. CASE StepOne \/ BeginStep
  BY <1>1, StepOnePrefix, BeginPrefix
<1>2. CASE UNCHANGED vars
  BY <1>2 DEF vars, StepIsPrefix, Updates, ParamStorage, StorageOf, Exists, Content
<1>3. CASE pc' \notin {"step", "failed"}
  BY <1>3 DEF StepIsPrefix
<1>. QED
  BY <1>1, <1>2, <1>3 DEF Next, Alias, Drop, Move, Release, Begin, NewStorage, Allocate, Copy,
     Wrap, Fault, Throw, Assign, Settle, CopyFromHost, View, WriteView, EndStep, Stop, Ready

(* An SGD step is a prefix of its updates at every point, and when it      *)
(* throws: each parameter before the one it is at has been updated once    *)
(* for every place in the list, so twice if it is listed twice, and no     *)
(* Storage of any other tensor has changed.                                *)
THEOREM StepIsAPrefix == Spec => []StepIsPrefix
<1>1. Init => StepIsPrefix
  BY DEF Init, StepIsPrefix
<1>. QED
  BY Invariance, <1>1, StepPrefix, PTL DEF Spec
=============================================================================
