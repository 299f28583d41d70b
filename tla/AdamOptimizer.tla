---------------------------- MODULE AdamOptimizer ----------------------------
(***************************************************************************)
(* optim::Adam (src/src/core/optim.cpp) over a list of CPU and CUDA        *)
(* parameters.                                                             *)
(*                                                                         *)
(* A step computes the CPU entries into host temporaries, then updates the *)
(* CUDA entries in place, one kernel after the other, then commits the CPU *)
(* entries and the step count.  Every computation may fail: host and       *)
(* device allocations always, kernels when DeviceFaults.  The first and    *)
(* second moments of an entry are cloned, updated and replaced together    *)
(* and are one storage here.  Storage is shared by handles, so snapshots   *)
(* and live moments are storages of one heap.                              *)
(*                                                                         *)
(* A gradient that does not match its parameter makes step throw before it *)
(* changes anything; the engine commits no such gradient.  Invalid         *)
(* hyperparameters and snapshots of another shape are refused likewise.    *)
(***************************************************************************)
EXTENDS Naturals, Sequences, Functions

CONSTANTS
  Variable,           \* the variables of the program
  Param,              \* the parameter list: a sequence, with repetition
  Trainable,          \* the variables with requires_grad
  OnCuda,             \* the variables whose storage is on a CUDA device
  DeviceFaults,       \* whether device calls can fail
  Value, Grad, NoGrad,
  Start,              \* the values the parameters were created with
  Moment, ZeroMoment, \* pairs of moments
  Hyper,              \* learning rate, betas and epsilon
  Storage,            \* bound on the moment storages alive at once
  NoState,            \* no snapshot taken yet
  NoResult,           \* no temporary
  MaxT,               \* bound on the step count
  MomentStep(_, _, _),
  Moved(_, _, _, _)

Index == DOMAIN Param

ASSUME ListAssumption ==
  /\ Param \in Seq(Variable)
  /\ Trainable \subseteq Variable
  /\ OnCuda \subseteq Variable
  /\ DeviceFaults \in BOOLEAN
  /\ MaxT \in Nat
  /\ Start \in [Variable -> Value]

ASSUME ValueAssumption ==
  /\ NoGrad \notin Grad
  /\ ZeroMoment \in Moment
  /\ \A m \in Moment, g \in Grad, h \in Hyper : MomentStep(m, g, h) \in Moment
  /\ \A p \in Value, m \in Moment, k \in 1 .. MaxT, h \in Hyper : Moved(p, m, k, h) \in Value

State == [t : 0 .. MaxT, hyper : Hyper, moments : [Index -> Storage]]
StateValue == [t : 0 .. MaxT, hyper : Hyper, moments : [Index -> Moment]]
Result == [moment : Moment, value : Value]

ASSUME MarkerAssumption == NoState \notin State \cup StateValue /\ NoResult \notin Result

VARIABLES
  value, grad,        \* the parameters and their stored gradients
  heap,               \* the contents of the moment storages
  t, hyper, moments,  \* the optimizer
  state,              \* the AdamState the program holds
  pc, at,             \* the call in progress and its loop index
  fresh,              \* new_m_buf, new_v_buf, new_p_buf
  clones,             \* new_m, new_v of load_state
  before              \* history: value and moments when step was called

program == <<value, grad, state>>
live == <<t, hyper, moments>>
vars == <<value, grad, heap, t, hyper, moments, state, pc, at, fresh, clones, before>>

Content(handles) == [i \in Index |-> heap[handles[i]]]
NoResults == [i \in Index |-> NoResult]

TypeOK ==
  /\ value \in [Variable -> Value]
  /\ grad \in [Variable -> Grad \cup {NoGrad}]
  /\ heap \in [Storage -> Moment]
  /\ t \in 0 .. MaxT
  /\ hyper \in Hyper
  /\ moments \in [Index -> Storage]
  /\ state \in State \cup {NoState}
  /\ pc \in {"idle", "compute", "cuda", "load"}
  /\ at \in Nat
  /\ fresh \in [Index -> Result \cup {NoResult}]
  /\ clones \in Seq(Storage)
  /\ before \in [value : [Variable -> Value], moments : [Index -> Moment]]

(* The storages somebody holds a handle to.                                *)
Live ==
  Range(moments) \cup Range(clones)
    \cup (IF state = NoState THEN {} ELSE Range(state.moments))

Eligible(i) == Param[i] \in Trainable /\ grad[Param[i]] # NoGrad
Anyone == \E i \in Index : Eligible(i)

Init ==
  /\ value = Start
  /\ grad = [v \in Variable |-> NoGrad]
  /\ heap = [s \in Storage |-> ZeroMoment]
  /\ t = 0
  /\ hyper \in Hyper
  /\ moments \in {m \in [Index -> Storage] : IsInjective(m)}
  /\ state = NoState
  /\ pc = "idle"
  /\ at = 0
  /\ fresh = NoResults
  /\ clones = <<>>
  /\ before = [value |-> value, moments |-> Content(moments)]

-----------------------------------------------------------------------------
(* The program between two calls.                                          *)

(* Variable::backward commits a gradient.                                  *)
GradientArrives(v, g) ==
  /\ pc = "idle"
  /\ v \in Trainable
  /\ grad' = [grad EXCEPT ![v] = g]
  /\ UNCHANGED <<value, heap, live, state, pc, at, fresh, clones, before>>

ZeroGrad ==
  /\ pc = "idle"
  /\ grad' = [v \in Variable |-> IF v \in Range(Param) THEN NoGrad ELSE grad[v]]
  /\ UNCHANGED <<value, heap, live, state, pc, at, fresh, clones, before>>

(* Fault: the snapshot keeps the handles of the live moments.              *)
TakeHandles ==
  /\ pc = "idle"
  /\ state' = [t |-> t, hyper |-> hyper, moments |-> moments]
  /\ UNCHANGED <<value, grad, heap, live, pc, at, fresh, clones, before>>

(* state(): deep clones.  A failed clone drops the copies made so far.     *)
TakeState ==
  /\ pc = "idle"
  /\ \E copy \in [Index -> Storage \ Live] :
       /\ IsInjective(copy)
       /\ state' = [t |-> t, hyper |-> hyper, moments |-> copy]
       /\ heap' = [s \in Storage |->
            IF s \in Range(copy)
            THEN heap[moments[CHOOSE i \in Index : copy[i] = s]] ELSE heap[s]]
  /\ UNCHANGED <<value, grad, live, pc, at, fresh, clones, before>>

(* The owner of the snapshot writes to it.                                 *)
EditState(i, m, h) ==
  /\ pc = "idle"
  /\ state # NoState
  /\ state' = [state EXCEPT !.hyper = h]
  /\ heap' = [heap EXCEPT ![state.moments[i]] = m]
  /\ UNCHANGED <<value, grad, live, pc, at, fresh, clones, before>>

-----------------------------------------------------------------------------
(* step().                                                                 *)

StepCall ==
  /\ pc = "idle"
  /\ t < MaxT
  /\ pc' = "compute"
  /\ at' = 1
  /\ before' = [value |-> value, moments |-> Content(moments)]
  /\ UNCHANGED <<program, heap, live, fresh, clones>>

ResultOf(i) ==
  LET m == MomentStep(heap[moments[i]], grad[Param[i]], hyper)
  IN [moment |-> m, value |-> Moved(value[Param[i]], m, t + 1, hyper)]

(* Fault: the temporaries are skipped and CPU entries written in place.    *)
ComputeInPlace ==
  /\ pc = "compute"
  /\ at \in Index
  /\ at' = at + 1
  /\ IF Eligible(at) /\ Param[at] \notin OnCuda
     THEN /\ heap' = [heap EXCEPT ![moments[at]] = ResultOf(at).moment]
          /\ value' = [value EXCEPT ![Param[at]] = ResultOf(at).value]
          /\ fresh' = [fresh EXCEPT ![at] = ResultOf(at)]
     ELSE UNCHANGED <<heap, value, fresh>>
  /\ UNCHANGED <<grad, state, live, pc, clones, before>>

(* Phase 2a, one iteration: a CPU entry into its temporary.                *)
Compute ==
  /\ pc = "compute"
  /\ at \in Index
  /\ fresh' = IF Eligible(at) /\ Param[at] \notin OnCuda
              THEN [fresh EXCEPT ![at] = ResultOf(at)] ELSE fresh
  /\ at' = at + 1
  /\ UNCHANGED <<program, heap, live, pc, clones, before>>

Computed ==
  /\ pc = "compute"
  /\ at \notin Index
  /\ pc' = "cuda"
  /\ at' = 1
  /\ UNCHANGED <<program, heap, live, fresh, clones, before>>

KernelRuns ==
  /\ heap' = [heap EXCEPT ![moments[at]] = ResultOf(at).moment]
  /\ value' = [value EXCEPT ![Param[at]] = ResultOf(at).value]

(* Phase 2b, one iteration: a CUDA entry in place.                         *)
UpdateCuda ==
  /\ pc = "cuda"
  /\ at \in Index
  /\ IF Eligible(at) /\ Param[at] \in OnCuda THEN KernelRuns ELSE UNCHANGED <<heap, value>>
  /\ at' = at + 1
  /\ UNCHANGED <<grad, state, live, pc, fresh, clones, before>>

(* Fault: a step without any eligible entry counts as well.                *)
EveryStepCounts == t + 1

(* new_t, kept only if some entry is eligible.                             *)
NewT == IF Anyone THEN t + 1 ELSE t

(* Phase 3, which cannot fail: the temporaries and the step count.  Of two *)
(* entries of one variable the later one overwrites the earlier.           *)
Commit ==
  LET Last(v) == CHOOSE i \in Index : fresh[i] # NoResult /\ Param[i] = v /\
                   \A j \in Index : fresh[j] # NoResult /\ Param[j] = v => j <= i
      Mine(s) == {i \in Index : fresh[i] # NoResult /\ moments[i] = s}
  IN
  /\ pc = "cuda"
  /\ at \notin Index
  /\ t' = NewT
  /\ heap' = [s \in Storage |->
       IF Mine(s) # {} THEN fresh[CHOOSE i \in Mine(s) : TRUE].moment ELSE heap[s]]
  /\ value' = [v \in Variable |->
       IF \E i \in Index : fresh[i] # NoResult /\ Param[i] = v
       THEN fresh[Last(v)].value ELSE value[v]]
  /\ fresh' = NoResults
  /\ pc' = "idle"
  /\ at' = 0
  /\ UNCHANGED <<grad, state, hyper, moments, clones, before>>

-----------------------------------------------------------------------------
(* load_state().                                                           *)

LoadCall ==
  /\ pc = "idle"
  /\ state # NoState
  /\ pc' = "load"
  /\ at' = 1
  /\ UNCHANGED <<program, heap, live, fresh, clones, before>>

(* Fault: the snapshot's own storage is taken over.                        *)
LoadHandle ==
  /\ pc = "load"
  /\ at \in Index
  /\ clones' = Append(clones, state.moments[at])
  /\ at' = at + 1
  /\ UNCHANGED <<program, heap, live, pc, fresh, before>>

LoadClone ==
  /\ pc = "load"
  /\ at \in Index
  /\ \E s \in Storage \ Live :
       /\ clones' = Append(clones, s)
       /\ heap' = [heap EXCEPT ![s] = heap[state.moments[at]]]
  /\ at' = at + 1
  /\ UNCHANGED <<program, live, pc, fresh, before>>

(* Fault: the count is restored as that of the step to come.               *)
LoadNextCount ==
  /\ pc = "load"
  /\ at \notin Index
  /\ t' = state.t + 1
  /\ hyper' = state.hyper
  /\ moments' = clones
  /\ clones' = <<>>
  /\ pc' = "idle"
  /\ at' = 0
  /\ UNCHANGED <<program, heap, fresh, before>>

LoadSwap ==
  /\ pc = "load"
  /\ at \notin Index
  /\ t' = state.t
  /\ hyper' = state.hyper
  /\ moments' = clones
  /\ clones' = <<>>
  /\ pc' = "idle"
  /\ at' = 0
  /\ UNCHANGED <<program, heap, fresh, before>>

-----------------------------------------------------------------------------
(* An exception leaves step or load_state.                                 *)

(* The buffers of the whole step are allocated before its first entry.     *)
CanFail ==
  /\ at \in Index
  /\ \/ pc = "compute" /\ (at = 1 \/ (Eligible(at) /\ Param[at] \notin OnCuda))
     \/ pc = "cuda" /\ DeviceFaults /\ Eligible(at) /\ Param[at] \in OnCuda
     \/ pc = "load"

Abandon ==
  /\ fresh' = NoResults
  /\ clones' = <<>>
  /\ pc' = "idle"
  /\ at' = 0
  /\ UNCHANGED <<grad, state, live, before>>

Fail ==
  /\ CanFail
  /\ Abandon
  /\ UNCHANGED <<heap, value>>

(* The error is reported after the kernel has written its results.         *)
KernelFails ==
  /\ CanFail
  /\ pc = "cuda"
  /\ KernelRuns
  /\ Abandon

Next ==
  \/ \E v \in Variable, g \in Grad : GradientArrives(v, g)
  \/ ZeroGrad
  \/ TakeState
  \/ \E i \in Index, m \in Moment, h \in Hyper : EditState(i, m, h)
  \/ StepCall
  \/ Compute
  \/ Computed
  \/ UpdateCuda
  \/ Commit
  \/ LoadCall
  \/ LoadClone
  \/ LoadSwap
  \/ Fail
  \/ KernelFails

Spec == Init /\ [][Next]_vars

-----------------------------------------------------------------------------
(* Properties.                                                             *)

(* Live moments, the snapshot and the copies being loaded never share      *)
(* storage: "an AdamState value never aliases the live optimizer".         *)
Isolated ==
  /\ IsInjective(moments)
  /\ IsInjective(clones)
  /\ Range(clones) \cap Range(moments) = {}
  /\ state # NoState =>
       /\ IsInjective(state.moments)
       /\ Range(state.moments) \cap (Range(moments) \cup Range(clones)) = {}

(* The comment above the commit phase: "Moments and parameters are updated *)
(* only after every eligible index has its new values computed."           *)
UpdatedAfterAllComputed ==
  pc \in {"compute", "cuda"} /\ (Content(moments) # before.moments \/ value # before.value) =>
    \A i \in Index :
      Eligible(i) => \/ fresh[i] # NoResult
                     \/ heap[moments[i]] =
                          MomentStep(before.moments[i], grad[Param[i]], hyper)

(* A step that throws leaves the step count and every CPU entry as they    *)
(* were ("any future failure before commit cannot leave state              *)
(* half-updated"), and a CUDA entry as it was or completely updated.       *)
Old(i) == [moment |-> before.moments[i], value |-> before.value[Param[i]]]
New(i) ==
  LET m == MomentStep(Old(i).moment, grad[Param[i]], hyper)
  IN [moment |-> m, value |-> Moved(Old(i).value, m, t + 1, hyper)]
Now(i) == [moment |-> heap[moments[i]], value |-> value[Param[i]]]
StepThrows == pc \in {"compute", "cuda"} /\ at \in Index /\ pc' = "idle"
HostIsKept ==
  /\ t' = t
  /\ \A i \in Index :
       Now(i)' = Old(i) \/ (Eligible(i) /\ Param[i] \in OnCuda /\ Now(i)' = New(i))
FailureKeepsHost == [][StepThrows => HostIsKept]_vars

(* Between calls the optimizer, its parameters and its snapshot are what   *)
(* the reference computes on one device ("the trajectory matches a         *)
(* single-device run with the same gradients"), whatever is copied,        *)
(* written to or fails.  A step in progress has had no effect yet.         *)
Reference == INSTANCE AdamReference WITH
  value <- IF pc = "cuda" THEN before.value ELSE value,
  moments <- IF pc = "cuda" THEN before.moments ELSE Content(moments),
  state <- IF state = NoState THEN NoState
           ELSE [state EXCEPT !.moments = Content(state.moments)]
RefinesReference == Reference!Spec
=============================================================================
