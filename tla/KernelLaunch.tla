---------------------------- MODULE KernelLaunch ----------------------------
(***************************************************************************)
(* A call of a host function of src/src/cuda, from the check of its        *)
(* operands to the end of its result.  The host allocates, launches        *)
(* kernels on the default stream without waiting for them, and its         *)
(* destructors free the metadata buffers; the device runs the kernels one  *)
(* after the other, and the threads of a kernel in any order.  cudaFree    *)
(* and cudaMemcpy wait for the device.  Every CUDA function may fail.      *)
(***************************************************************************)
EXTENDS CudaNnKernels

(* The kernels on the CPU and their checks.                                *)
Cpu == INSTANCE CpuKernels

CONSTANTS
  Calls,      \* the calls by name: the plan of each (see CudaLaunch), the
              \* windows that move along an axis of its input, if any, and the
              \* elements the CPU's kernel computes
  BlockDim,   \* threads per block: 256 in the code
  AnyOrder,   \* bound: the threads of larger kernels start from either end
  MaxFaults,  \* CUDA functions that fail in a behaviour
  Garbage     \* what a fresh buffer holds

ASSUME CallsAssumption ==
  \A c \in DOMAIN Calls :
    LET p == Calls[c].plan windows == Calls[c].windows
    IN /\ p.buffer \in {"none", "guarded", "result"} /\ p.metadata \in Nat
       /\ Len(p.kernels) \in Nat /\ (p.buffer = "none" => Len(p.kernels) = 0)
       /\ \A j \in 1 .. Len(p.kernels) :
            p.kernels[j].n \in Nat /\ p.kernels[j].mode \in {"store", "add", "and"}
       \* what ops.cpp and conv.cpp have checked on either device
       /\ \A w \in windows : /\ w.input \in Nat /\ w.kernel \in Nat \ {0}
                             /\ w.stride \in Nat \ {0} /\ w.pad \in Nat
ASSUME BlockDimAssumption == BlockDim \in Nat \ {0}
ASSUME MaxFaultsAssumption == MaxFaults \in Nat

VARIABLES
  call,      \* the call under way
  pc,        \* where the host is
  live,      \* the device buffers allocated: 0, the result, and 1, 2, ..., metadata
  out,       \* the elements of the result
  launched,  \* kernels launched
  current,   \* the kernel at the head of the stream
  done,      \* its threads that have finished
  answer,    \* what the host read back, if it did
  faults     \* failures so far

vars == <<call, pc, live, out, launched, current, done, answer, faults>>

plan == call.plan
expected == call.expected

(* The checks of the host functions: a window of kernel elements over      *)
(* input elements with padding on both sides, on the device and on the CPU.*)
Accepted(c) == \A w \in c.windows : SpatialOK(w.input, w.kernel, w)
CpuAccepted(c) == \A w \in c.windows : Cpu!ExtentOK(w.input, w.kernel, w)

(* The grid of a kernel, and its threads that do not return at once.       *)
Blocks(n) == (n + BlockDim - 1) \div BlockDim
Threads(kernel) == {t \in 0 .. Blocks(kernel.n) * BlockDim - 1 : t < kernel.n}

(* The stream is empty.                                                    *)
Idle == current > launched

Init ==
  /\ \E c \in DOMAIN Calls : call = Calls[c]
  /\ pc = "check" /\ live = {} /\ launched = 0 /\ current = 1 /\ done = {}
  /\ out = [c \in DOMAIN expected |-> Garbage]
  /\ answer = <<>> /\ faults = 0

-----------------------------------------------------------------------------
(* The host.                                                               *)

(* A CUDA function reports an error: an exception.                         *)
Fail(next) ==
  /\ faults < MaxFaults
  /\ faults' = faults + 1 /\ pc' = next
  /\ UNCHANGED <<call, live, out, launched, current, done, answer>>

Filled == IF plan.fill = <<>> THEN out ELSE [c \in DOMAIN out |-> plan.fill[1]]

Check ==
  /\ pc = "check"
  /\ \/ ~Accepted(call) /\ pc' = "rejected" /\ UNCHANGED out
     \/ Accepted(call) /\ plan.buffer = "none" /\ pc' = "returned" /\ out' = Filled
     \/ Accepted(call) /\ plan.buffer # "none" /\ pc' = "allocate" /\ UNCHANGED out
  /\ UNCHANGED <<call, live, launched, current, done, answer, faults>>

Allocate ==
  /\ pc = "allocate"
  /\ \/ /\ pc' = IF plan.fill = <<>> THEN "launch" ELSE "fill"
        /\ live' = {0}
        /\ UNCHANGED <<call, out, launched, current, done, answer, faults>>
     \/ Fail("thrown")

Fill ==
  /\ pc = "fill"
  /\ \/ /\ pc' = "launch" /\ out' = Filled
        /\ UNCHANGED <<call, live, launched, current, done, answer, faults>>
     \/ Fail("unwind")

(* The constructors of CudaMetadata, in order.                             *)
AllocateMetadata ==
  /\ pc = "launch"
  /\ \E k \in 1 .. plan.metadata \ live :
       /\ 1 .. k - 1 \subseteq live
       /\ \/ /\ live' = live \cup {k}
             /\ UNCHANGED <<call, pc, out, launched, current, done, answer, faults>>
          \/ Fail("unwind")

(* The launch is asynchronous; finish_kernel sees a refused launch, and    *)
(* the runtime refuses an empty grid.                                      *)
Launch ==
  /\ pc = "launch"
  /\ 1 .. plan.metadata \subseteq live
  /\ launched < Len(plan.kernels)
  /\ \/ /\ IF Blocks(plan.kernels[launched + 1].n) > 0
           THEN launched' = launched + 1 /\ UNCHANGED pc
           ELSE pc' = "unwind" /\ UNCHANGED launched
        /\ UNCHANGED <<call, live, out, current, done, answer, faults>>
     \/ Fail("unwind")

Launched ==
  /\ pc = "launch"
  /\ 1 .. plan.metadata \subseteq live
  /\ launched = Len(plan.kernels)
  /\ pc' = IF plan.buffer = "guarded" THEN "readback" ELSE "release"
  /\ UNCHANGED <<call, live, out, launched, current, done, answer, faults>>

(* cudaMemcpy of a guarded result waits for the kernels.                   *)
Readback ==
  /\ pc = "readback" /\ Idle
  /\ \/ /\ pc' = "release" /\ answer' = <<out>>
        /\ UNCHANGED <<call, live, out, launched, current, done, faults>>
     \/ Fail("unwind")

(* Mutated: an exception does not free the result.                         *)
KeptByExceptions == IF plan.buffer = "result" THEN {0} ELSE {}

(* The destructors: cudaFree, last buffer first.  A result that is         *)
(* returned is kept.                                                       *)
Kept == IF pc = "release" /\ plan.buffer = "result" THEN {0} ELSE {}
LastOf(buffers) == CHOOSE k \in buffers : \A j \in buffers : j <= k

(* Mutated: the buffers are freed without waiting for the device.          *)
FreeAtOnce ==
  /\ pc \in {"release", "unwind"}
  /\ live # Kept
  /\ live' = live \ {LastOf(live)}
  /\ UNCHANGED <<call, pc, out, launched, current, done, answer, faults>>

Free ==
  /\ pc \in {"release", "unwind"}
  /\ Idle
  /\ live # Kept
  /\ live' = live \ {LastOf(live)}
  /\ UNCHANGED <<call, pc, out, launched, current, done, answer, faults>>

(* Mutated: the host waits until nothing is held, the result included.     *)
ReturnWhenAllFreed ==
  /\ pc \in {"release", "unwind"}
  /\ live = {}
  /\ pc' = IF pc = "release" THEN "returned" ELSE "thrown"
  /\ UNCHANGED <<call, live, out, launched, current, done, answer, faults>>

(* The call ends; kernels may still be running.                            *)
Return ==
  /\ pc \in {"release", "unwind"}
  /\ live = Kept
  /\ pc' = IF pc = "release" THEN "returned" ELSE "thrown"
  /\ UNCHANGED <<call, live, out, launched, current, done, answer, faults>>

(* The caller reads the result with copy_to_host, and lets go of it.       *)
Read ==
  /\ pc = "returned" /\ plan.buffer # "guarded" /\ Idle
  /\ answer' = <<out>>
  /\ UNCHANGED <<call, pc, live, out, launched, current, done, faults>>

Drop ==
  /\ pc = "returned" /\ Idle
  /\ pc' = "dropped" /\ live' = {}
  /\ UNCHANGED <<call, out, launched, current, done, answer, faults>>

Host ==
  \/ Check \/ Allocate \/ Fill \/ AllocateMetadata \/ Launch \/ Launched
  \/ Readback \/ Free \/ Return \/ Drop

-----------------------------------------------------------------------------
(* The device.                                                             *)

Effect(mode, old, value) ==
  CASE mode = "store" -> value
    [] mode = "add" -> old ++ value
    [] mode = "and" -> IF value = One THEN old ELSE value

Finish(t) ==
  LET kernel == plan.kernels[current]
  IN IF done \cup {t} = Threads(kernel)
     THEN current' = current + 1 /\ done' = {}
     ELSE done' = done \cup {t} /\ UNCHANGED current

RunThread(t) ==
  LET kernel == plan.kernels[current]
  IN /\ out' = [out EXCEPT ![kernel.cell[t]] = Effect(kernel.mode, @, kernel.value[t])]
     /\ Finish(t)
     /\ UNCHANGED <<call, pc, live, launched, answer, faults>>

(* Any thread is next; in a large kernel the first or the last one left,   *)
(* so that every two threads still run in either order.                    *)
MayStart(t, threads) ==
  \/ Cardinality(threads) <= AnyOrder
  \/ \A u \in threads \ done : u >= t
  \/ \A u \in threads \ done : u <= t

Device ==
  /\ ~Idle
  /\ \E t \in Threads(plan.kernels[current]) \ done :
       MayStart(t, Threads(plan.kernels[current])) /\ RunThread(t)

(* After the call.                                                         *)
Ended == pc \in {"rejected", "thrown", "dropped"}
Stop == Ended /\ Idle /\ UNCHANGED vars

Next == Host \/ Read \/ Device \/ Stop

(* A thread of the program and the device both go on; a call is not        *)
(* obliged to read its result.                                             *)
Fairness == WF_vars(Host) /\ WF_vars(Device)
Spec == Init /\ [][Next]_vars /\ Fairness

-----------------------------------------------------------------------------

(* What the caller reads is what the kernel on the CPU computes, in        *)
(* whatever order the threads ran and whether or not the host waited.      *)
DeviceAgrees == answer # <<>> => answer = <<expected>>

(* While a kernel is queued or running, the buffers it was given are       *)
(* allocated: the metadata of a call is not freed under its kernel.        *)
BuffersOutliveKernels == ~Idle => 0 .. plan.metadata \subseteq live

(* A call that has returned holds its result only; one that threw, or      *)
(* whose result was dropped, holds nothing, at whatever step it failed.    *)
NothingLeaks ==
  /\ Ended => live = {}
  /\ pc = "returned" => live \subseteq {0}

(* The device's host functions refuse the windows that the CPU's refuse,   *)
(* and one kind more: windows over an input without elements, which the    *)
(* CPU accepts when padding makes room for them and which ops.h does not   *)
(* exclude.  A call they accept throws only when a CUDA function fails: no *)
(* operand, empty ones included, makes a launch the runtime refuses.       *)
SameChecks ==
  /\ pc # "check" =>
       (pc = "rejected" <=> ~CpuAccepted(call) \/ \E w \in call.windows : w.input = 0)
  /\ faults = 0 => pc \notin {"unwind", "thrown"}

(* A call ends: nothing the host waits for is waiting for the host.        *)
CallEnds == <>(Ended /\ Idle)
=============================================================================
