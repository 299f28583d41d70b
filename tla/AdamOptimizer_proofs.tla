------------------------ MODULE AdamOptimizer_proofs ------------------------
(***************************************************************************)
(* Proofs about AdamOptimizer for every parameter list, every bound and    *)
(* every MomentStep and Moved that stay in their sets.                     *)
(***************************************************************************)
EXTENDS AdamOptimizer, TLAPS, SequenceTheorems, WellFoundedInduction

(* While a snapshot is loaded, one copy has been made per index passed.    *)
LoadInv ==
  IF pc = "load"
  THEN state # NoState /\ at \in 1 .. Len(Param) + 1 /\ Len(clones) = at - 1
  ELSE clones = <<>>

(* A step in progress has room for its count.                              *)
CountInv == pc \in {"compute", "cuda"} => t < MaxT

IInv == TypeOK /\ Isolated /\ LoadInv /\ CountInv

LEMMA IndexFact == Index = 1 .. Len(Param) /\ Len(Param) \in Nat
  BY ListAssumption DEF Index

(* A set of indices that is not empty has a last one.                     *)
LEMMA LastExists ==
  ASSUME NEW n \in Nat, NEW S \in SUBSET (1 .. n), S # {}
  PROVE  \E i \in S : \A j \in S : j <= i
<1>. DEFINE T == {k \in Nat : n - k \in S}
            R == OpToRel(<, Nat)
<1>1. T \subseteq Nat /\ T # {}
  <2>1. PICK i \in S : TRUE
    OBVIOUS
  <2>2. n - i \in Nat /\ n - (n - i) = i
    BY <2>1
  <2>3. n - i \in T
    BY <2>1, <2>2, Zenon
  <2>. QED
    BY <2>3
<1>2. IsWellFoundedOn(R, Nat)
  BY NatLessThanWellFounded
<1>3. PICK k \in T : \A l \in T : ~ (<<l, k>> \in R)
  <2>. HIDE DEF T, R
  <2>. QED BY <1>1, <1>2, WFMin
<1>4. \A l \in T : ~ (l < k)
  BY <1>3 DEF OpToRel
<1>5. n - k \in S
  BY <1>3
<1>6. ASSUME NEW j \in S PROVE j <= n - k
  <2>1. n - j \in Nat /\ n - (n - j) = j
    OBVIOUS
  <2>2. n - j \in T
    BY <2>1, Zenon
  <2>3. ~ (n - j < k)
    BY <2>2, <1>4
  <2>. HIDE DEF T, R
  <2>. QED
    BY <2>3, <1>3, <1>1
<1>. QED
  BY <1>5, <1>6, Zenon

LEMMA ResultType ==
  ASSUME TypeOK, NEW i \in Index, Eligible(i), t < MaxT
  PROVE  ResultOf(i) \in Result
<1>1. Param[i] \in Variable
  BY ListAssumption, IndexFact
<1>2. heap[moments[i]] \in Moment /\ grad[Param[i]] \in Grad /\ value[Param[i]] \in Value
  BY <1>1 DEF TypeOK, Eligible
<1>3. hyper \in Hyper /\ t + 1 \in 1 .. MaxT
  BY ListAssumption DEF TypeOK
<1>4. MomentStep(heap[moments[i]], grad[Param[i]], hyper) \in Moment
  BY <1>2, <1>3, ValueAssumption
<1>. QED
  BY <1>2, <1>3, <1>4, ValueAssumption DEF ResultOf, Result

LEMMA InitInv == Init => IInv
<1>. SUFFICES ASSUME Init PROVE IInv
  OBVIOUS
<1>1. TypeOK
  BY ListAssumption, ValueAssumption DEF Init, TypeOK, NoResults, Content
<1>2. Isolated
  BY DEF Init, Isolated, IsInjective, Range
<1>. QED
  BY <1>1, <1>2 DEF IInv, Init, LoadInv, CountInv

-----------------------------------------------------------------------------
(* One lemma per action.                                                   *)

LEMMA GradientArrivesInv ==
  ASSUME IInv, NEW v \in Variable, NEW g \in Grad, GradientArrives(v, g)
  PROVE  IInv'
  BY DEF IInv, GradientArrives, live, TypeOK, Isolated, LoadInv, CountInv

LEMMA ZeroGradInv == ASSUME IInv, ZeroGrad PROVE IInv'
  BY DEF IInv, ZeroGrad, live, TypeOK, Isolated, LoadInv, CountInv

LEMMA TakeStateInv == ASSUME IInv, TakeState PROVE IInv'
<1>. PICK copy \in [Index -> Storage \ Live] :
       /\ IsInjective(copy)
       /\ state' = [t |-> t, hyper |-> hyper, moments |-> copy]
       /\ heap' = [s \in Storage |->
            IF s \in Range(copy)
            THEN heap[moments[CHOOSE i \in Index : copy[i] = s]] ELSE heap[s]]
  BY DEF TakeState
<1>. USE DEF IInv
<1>0. pc = "idle" /\ pc' = pc /\ UNCHANGED <<value, grad, live, at, fresh, clones, before>>
  BY DEF TakeState
<1>1. state' \in State /\ state'.moments = copy
  BY DEF TypeOK, State
<1>2. heap' \in [Storage -> Moment]
  <2>1. ASSUME NEW s \in Storage, s \in Range(copy)
        PROVE  heap[moments[CHOOSE i \in Index : copy[i] = s]] \in Moment
    <3>1. \E i \in Index : copy[i] = s
      BY <2>1 DEF Range
    <3>2. (CHOOSE i \in Index : copy[i] = s) \in Index
      BY <3>1
    <3>. QED
      BY <3>2 DEF TypeOK
  <2>. QED
    BY <2>1 DEF TypeOK
<1>3. TypeOK'
  BY <1>0, <1>1, <1>2 DEF TypeOK, live
<1>4. Range(copy) \cap (Range(moments) \cup Range(clones)) = {}
  BY DEF Live, Range
<1>5. Isolated'
  BY <1>0, <1>1, <1>4 DEF Isolated, live
<1>. QED
  BY <1>0, <1>3, <1>5 DEF LoadInv, CountInv, live

LEMMA EditStateInv ==
  ASSUME IInv, NEW i \in Index, NEW m \in Moment, NEW h \in Hyper, EditState(i, m, h)
  PROVE  IInv'
<1>. USE DEF IInv
<1>1. state \in State /\ state' \in State /\ state'.moments = state.moments
  BY MarkerAssumption DEF EditState, TypeOK, State
<1>2. heap' \in [Storage -> Moment]
  BY <1>1 DEF EditState, TypeOK
<1>3. state' # NoState
  BY <1>1, MarkerAssumption
<1>. QED
  BY <1>1, <1>2, <1>3 DEF EditState, live, TypeOK, Isolated, LoadInv, CountInv

LEMMA StepCallInv == ASSUME IInv, StepCall PROVE IInv'
  BY DEF IInv, StepCall, program, live, TypeOK, Isolated, LoadInv, CountInv, Content

LEMMA ComputeInv == ASSUME IInv, Compute PROVE IInv'
<1>1. fresh' \in [Index -> Result \cup {NoResult}]
  BY ResultType DEF IInv, TypeOK, CountInv, Compute
<1>. QED
  BY <1>1 DEF IInv, Compute, program, live, TypeOK, Isolated, LoadInv, CountInv

LEMMA ComputedInv == ASSUME IInv, Computed PROVE IInv'
  BY DEF IInv, Computed, program, live, TypeOK, Isolated, LoadInv, CountInv

LEMMA KernelType ==
  ASSUME IInv, pc = "cuda", at \in Index, Eligible(at), KernelRuns
  PROVE  heap' \in [Storage -> Moment] /\ value' \in [Variable -> Value]
  BY ResultType DEF IInv, TypeOK, CountInv, KernelRuns, Result

LEMMA UpdateCudaInv == ASSUME IInv, UpdateCuda PROVE IInv'
<1>1. heap' \in [Storage -> Moment] /\ value' \in [Variable -> Value]
  BY KernelType DEF IInv, TypeOK, UpdateCuda
<1>. QED
  BY <1>1 DEF IInv, UpdateCuda, live, TypeOK, Isolated, LoadInv, CountInv

LEMMA CommitInv == ASSUME IInv, Commit PROVE IInv'
<1>. DEFINE Latest(v) == CHOOSE i \in Index : fresh[i] # NoResult /\ Param[i] = v /\
                   \A j \in Index : fresh[j] # NoResult /\ Param[j] = v => j <= i
            Mine(s) == {i \in Index : fresh[i] # NoResult /\ moments[i] = s}
<1>. USE DEF IInv
<1>1. ASSUME NEW s \in Storage, Mine(s) # {}
      PROVE  fresh[CHOOSE i \in Mine(s) : TRUE].moment \in Moment
  <2>1. (CHOOSE i \in Mine(s) : TRUE) \in Mine(s)
    BY <1>1
  <2>2. fresh[CHOOSE i \in Mine(s) : TRUE] \in Result
    BY <2>1 DEF TypeOK
  <2>. QED
    BY <2>2 DEF Result
<1>2. ASSUME NEW v \in Variable, \E i \in Index : fresh[i] # NoResult /\ Param[i] = v
      PROVE  fresh[Latest(v)].value \in Value
  <2>. DEFINE S == {i \in Index : fresh[i] # NoResult /\ Param[i] = v}
  <2>1. PICK i \in S : \A j \in S : j <= i
    <3>1. S # {} /\ S \subseteq 1 .. Len(Param)
      BY <1>2, IndexFact
    <3>. HIDE DEF S
    <3>. QED
      BY <3>1, IndexFact, LastExists
  <2>2. Latest(v) \in Index /\ fresh[Latest(v)] # NoResult
    BY <2>1
  <2>3. fresh[Latest(v)] \in Result
    BY <2>2 DEF TypeOK
  <2>. QED
    BY <2>3 DEF Result
<1>3. heap' \in [Storage -> Moment]
  BY <1>1 DEF Commit, TypeOK
<1>4. value' \in [Variable -> Value]
  BY <1>2 DEF Commit, TypeOK
<1>5. t' \in 0 .. MaxT
  BY ListAssumption DEF Commit, NewT, TypeOK, CountInv
<1>. QED
  BY <1>3, <1>4, <1>5 DEF Commit, live, TypeOK, Isolated, LoadInv, CountInv, NoResults

LEMMA LoadCallInv == ASSUME IInv, LoadCall PROVE IInv'
  BY IndexFact DEF IInv, LoadCall, program, live, TypeOK, Isolated, LoadInv, CountInv

LEMMA LoadCloneInv == ASSUME IInv, LoadClone PROVE IInv'
<1>. USE DEF IInv
<1>. PICK s \in Storage \ Live :
       clones' = Append(clones, s) /\ heap' = [heap EXCEPT ![s] = heap[state.moments[at]]]
  BY DEF LoadClone
<1>0. /\ pc = "load" /\ at \in Index /\ at' = at + 1
      /\ UNCHANGED <<value, grad, state, t, hyper, moments, pc, fresh, before>>
  BY DEF LoadClone, program, live
<1>1. state \in State /\ state # NoState /\ Len(clones) = at - 1 /\ clones \in Seq(Storage)
  BY <1>0, MarkerAssumption DEF LoadInv, TypeOK
<1>2. heap' \in [Storage -> Moment]
  BY <1>0, <1>1 DEF TypeOK, State
<1>3. /\ clones' \in Seq(Storage) /\ Len(clones') = at
      /\ \A i \in 1 .. at - 1 : clones'[i] = clones[i]
      /\ clones'[at] = s
  BY <1>0, <1>1, AppendProperties, IndexFact
<1>4. TypeOK'
  BY <1>0, <1>2, <1>3, IndexFact DEF TypeOK
<1>5. LoadInv' /\ CountInv'
  BY <1>0, <1>1, <1>3, IndexFact DEF LoadInv, CountInv
<1>6. DOMAIN clones = 1 .. at - 1 /\ DOMAIN clones' = 1 .. at
  BY <1>0, <1>1, <1>3, IndexFact, LenProperties
<1>7. s \notin Range(clones) /\ s \notin Range(moments) /\ s \notin Range(state.moments)
  BY <1>1 DEF Live
<1>8. \A i \in 1 .. at - 1 : clones[i] # s
  BY <1>6, <1>7 DEF Range
<1>9. IsInjective(clones')
  BY <1>0, <1>3, <1>6, <1>8, IndexFact DEF IsInjective, Isolated
<1>10. Range(clones') \subseteq Range(clones) \cup {s}
  BY <1>0, <1>3, <1>6, IndexFact DEF Range
<1>11. Isolated'
  <2>1. IsInjective(moments') /\ (state' # NoState => IsInjective(state'.moments))
    BY <1>0 DEF Isolated
  <2>2. Range(clones') \cap Range(moments') = {}
    BY <1>0, <1>7, <1>10 DEF Isolated
  <2>3. Range(state'.moments) \cap (Range(moments') \cup Range(clones')) = {}
    BY <1>0, <1>1, <1>7, <1>10 DEF Isolated
  <2>. QED
    BY <1>9, <2>1, <2>2, <2>3 DEF Isolated
<1>. QED
  BY <1>4, <1>5, <1>11

LEMMA LoadSwapInv == ASSUME IInv, LoadSwap PROVE IInv'
<1>. USE DEF IInv
<1>0. /\ pc = "load" /\ at \notin Index /\ pc' = "idle" /\ at' = 0
      /\ t' = state.t /\ hyper' = state.hyper /\ moments' = clones /\ clones' = <<>>
      /\ UNCHANGED <<value, grad, state, heap, fresh, before>>
  BY DEF LoadSwap, program
<1>1. state \in State /\ state # NoState /\ clones \in Seq(Storage)
  BY <1>0, MarkerAssumption DEF LoadInv, TypeOK
<1>2. Len(clones) = Len(Param)
  BY <1>0, IndexFact DEF LoadInv
<1>3. clones \in [Index -> Storage]
  BY <1>1, <1>2, IndexFact, LenProperties, ElementOfSeq
<1>4. TypeOK'
  BY <1>0, <1>1, <1>3 DEF TypeOK, State
<1>5. Isolated'
  BY <1>0, <1>1 DEF Isolated, IsInjective, Range
<1>. QED
  BY <1>0, <1>4, <1>5 DEF LoadInv, CountInv

LEMMA AbandonInv ==
  ASSUME IInv, Abandon, heap' \in [Storage -> Moment], value' \in [Variable -> Value]
  PROVE  IInv'
<1>1. TypeOK'
  BY DEF IInv, Abandon, live, TypeOK, NoResults
<1>2. Isolated'
  BY DEF IInv, Abandon, live, Isolated, IsInjective, Range
<1>. QED
  BY <1>1, <1>2 DEF IInv, Abandon, LoadInv, CountInv

LEMMA FailInv == ASSUME IInv, Fail PROVE IInv'
  BY AbandonInv DEF IInv, Fail, TypeOK

LEMMA KernelFailsInv == ASSUME IInv, KernelFails PROVE IInv'
  BY AbandonInv, KernelType DEF KernelFails, CanFail

LEMMA NextInv == IInv /\ [Next]_vars => IInv'
<1>. SUFFICES ASSUME IInv, [Next]_vars PROVE IInv'
  OBVIOUS
<1>1. CASE UNCHANGED vars
  BY <1>1 DEF IInv, vars, live, TypeOK, Isolated, LoadInv, CountInv
<1>2. CASE Next
  BY <1>2, GradientArrivesInv, ZeroGradInv, TakeStateInv, EditStateInv, StepCallInv,
     ComputeInv, ComputedInv, UpdateCudaInv, CommitInv, LoadCallInv, LoadCloneInv,
     LoadSwapInv, FailInv, KernelFailsInv DEF Next
<1>. QED
  BY <1>1, <1>2

(* The inductive invariant holds in every reachable state.                 *)
THEOREM Invariance == Spec => []IInv
  BY InitInv, NextInv, PTL DEF Spec

(* Adam's variables always have their types, whatever fails.               *)
THEOREM TypeCorrect == Spec => []TypeOK
<1>1. IInv => TypeOK
  BY DEF IInv
<1>. QED
  BY <1>1, Invariance, PTL

(* Adam::state and Adam::load_state keep the live moments, the snapshot    *)
(* and the copies being loaded in storages of their own.                   *)
THEOREM SnapshotsAreIsolated == Spec => []Isolated
<1>1. IInv => Isolated
  BY DEF IInv
<1>. QED
  BY <1>1, Invariance, PTL

LEMMA NewType ==
  ASSUME TypeOK, NEW i \in Index, Eligible(i), t < MaxT
  PROVE  New(i) \in Result /\ New(i) # NoResult
<1>1. Param[i] \in Variable
  BY ListAssumption, IndexFact
<1>2. before.moments[i] \in Moment /\ grad[Param[i]] \in Grad /\ before.value[Param[i]] \in Value
  BY <1>1 DEF TypeOK, Eligible
<1>3. hyper \in Hyper /\ t + 1 \in 1 .. MaxT
  BY ListAssumption DEF TypeOK
<1>4. MomentStep(before.moments[i], grad[Param[i]], hyper) \in Moment
  BY <1>2, <1>3, ValueAssumption
<1>5. New(i) \in Result
  BY <1>2, <1>3, <1>4, ValueAssumption DEF New, Old, Result
<1>. QED
  BY <1>5, MarkerAssumption

-----------------------------------------------------------------------------
(* What a step in progress has computed and written.                       *)

Host(i) == Eligible(i) /\ Param[i] \notin OnCuda
OnDevice(i) == Eligible(i) /\ Param[i] \in OnCuda
Passed(i) == pc = "cuda" /\ OnDevice(i) /\ i < at

(* No CUDA variable is listed twice; one on the CPU may be.                *)
NoCudaTwice == \A i, j \in Index : Param[i] \in OnCuda /\ Param[i] = Param[j] => i = j

(* The temporaries hold the updates of the CPU entries so far; of the      *)
(* parameters and moments, only those of CUDA entries that were passed     *)
(* have changed, each by one update of the values before the call.         *)
Temporaries ==
  \A i \in Index :
    fresh[i] = IF Host(i) /\ (pc = "cuda" \/ i < at) THEN New(i) ELSE NoResult
MomentsWritten ==
  \A i \in Index : heap[moments[i]] = IF Passed(i) THEN New(i).moment ELSE before.moments[i]
ValuesWritten ==
  /\ \A i \in Index : Passed(i) => value[Param[i]] = New(i).value
  /\ \A v \in Variable :
       (\A i \in Index : Passed(i) => Param[i] # v) => value[v] = before.value[v]

StepInv ==
  IF pc \in {"compute", "cuda"}
  THEN at \in 1 .. Len(Param) + 1 /\ Temporaries /\ MomentsWritten /\ ValuesWritten
  ELSE fresh = NoResults

(* An entry that has not been passed is updated from the values before.    *)
LEMMA UpdateFromBefore ==
  ASSUME NoCudaTwice, IInv, StepInv, pc \in {"compute", "cuda"},
         NEW i \in Index, pc = "compute" \/ (Param[i] \in OnCuda /\ ~ Passed(i))
  PROVE  ResultOf(i) = New(i)
<1>1. Param[i] \in Variable
  BY ListAssumption, IndexFact
<1>2. \A j \in Index : Passed(j) => Param[j] # Param[i]
  BY DEF Passed, NoCudaTwice
<1>3. heap[moments[i]] = before.moments[i] /\ value[Param[i]] = before.value[Param[i]]
  BY <1>1, <1>2 DEF StepInv, MomentsWritten, ValuesWritten, Passed
<1>. QED
  BY <1>3 DEF ResultOf, New, Old

LEMMA StepCallStep == ASSUME IInv, StepInv, StepCall PROVE StepInv'
<1>1. /\ pc' = "compute" /\ at' = 1 /\ fresh = NoResults
      /\ UNCHANGED <<value, grad, heap, moments, fresh, t, hyper>>
      /\ before' = [value |-> value, moments |-> Content(moments)]
  BY DEF StepCall, StepInv, program, live
<1>2. \A i \in Index : ~ Passed(i)' /\ ~ (i < at')
  BY <1>1, IndexFact DEF Passed
<1>3. Temporaries'
  BY <1>1, <1>2 DEF Temporaries, NoResults
<1>4. MomentsWritten' /\ ValuesWritten'
  BY <1>1, <1>2 DEF MomentsWritten, ValuesWritten, Content
<1>. QED
  BY <1>1, <1>3, <1>4, IndexFact DEF StepInv

LEMMA ComputeStep == ASSUME NoCudaTwice, IInv, StepInv, Compute PROVE StepInv'
<1>1. /\ pc = "compute" /\ pc' = "compute" /\ at \in Index /\ at' = at + 1
      /\ fresh' = IF Host(at) THEN [fresh EXCEPT ![at] = ResultOf(at)] ELSE fresh
      /\ UNCHANGED <<value, grad, heap, t, hyper, moments, before>>
  BY DEF Compute, Host, program, live
<1>2. /\ \A i \in Index : /\ New(i)' = New(i) /\ Host(i)' = Host(i)
                          /\ ~ Passed(i) /\ ~ Passed(i)'
  BY <1>1 DEF New, Old, Host, Passed, Eligible
<1>3. fresh \in [Index -> Result \cup {NoResult}] /\ ResultOf(at) = New(at) /\ Temporaries
  BY <1>1, UpdateFromBefore DEF IInv, TypeOK, StepInv
<1>4. Temporaries'
  <2>1. ASSUME NEW i \in Index
        PROVE  fresh'[i] = IF Host(i) /\ i < at + 1 THEN New(i) ELSE NoResult
    <3>1. CASE i = at
      BY <1>1, <1>3, <3>1, IndexFact DEF Temporaries
    <3>2. CASE i # at
      <4>1. fresh'[i] = fresh[i]
        BY <1>1, <1>3, <3>2
      <4>2. i < at + 1 <=> i < at
        BY <1>1, <3>2, IndexFact
      <4>. QED
        BY <1>1, <1>3, <4>1, <4>2 DEF Temporaries
    <3>. QED
      BY <3>1, <3>2
  <2>. QED
    BY <1>1, <1>2, <2>1 DEF Temporaries
<1>5. MomentsWritten' /\ ValuesWritten'
  BY <1>1, <1>2 DEF StepInv, MomentsWritten, ValuesWritten
<1>. QED
  BY <1>1, <1>4, <1>5, IndexFact DEF StepInv

LEMMA ComputedStep == ASSUME IInv, StepInv, Computed PROVE StepInv'
<1>1. /\ pc = "compute" /\ pc' = "cuda" /\ at \notin Index /\ at' = 1
      /\ UNCHANGED <<value, grad, heap, t, hyper, moments, fresh, before>>
  BY DEF Computed, program, live
<1>2. \A i \in Index : i < at /\ ~ (i < at')
  BY <1>1, IndexFact DEF StepInv
<1>3. /\ \A i \in Index : /\ New(i)' = New(i) /\ Host(i)' = Host(i)
                          /\ ~ Passed(i) /\ ~ Passed(i)'
  BY <1>1, <1>2 DEF New, Old, Host, Passed, Eligible
<1>4. Temporaries'
  BY <1>1, <1>2, <1>3 DEF StepInv, Temporaries
<1>5. MomentsWritten' /\ ValuesWritten'
  BY <1>1, <1>3 DEF StepInv, MomentsWritten, ValuesWritten
<1>. QED
  BY <1>1, <1>4, <1>5, IndexFact DEF StepInv

(* What the kernel of entry at writes, and what it does not.               *)
LEMMA KernelWrites ==
  ASSUME NoCudaTwice, IInv, StepInv, pc = "cuda", at \in Index, OnDevice(at), KernelRuns,
         moments' = moments
  PROVE  /\ heap'[moments[at]] = New(at).moment /\ value'[Param[at]] = New(at).value
         /\ \A i \in Index \ {at} : heap'[moments[i]] = heap[moments[i]]
         /\ \A v \in Variable \ {Param[at]} : value'[v] = value[v]
<1>1. ResultOf(at) = New(at)
  BY UpdateFromBefore, IndexFact DEF OnDevice, Passed
<1>2. /\ heap \in [Storage -> Moment] /\ value \in [Variable -> Value]
      /\ moments \in [Index -> Storage] /\ IsInjective(moments)
      /\ Param[at] \in Variable
  BY ListAssumption, IndexFact DEF IInv, TypeOK, Isolated
<1>3. /\ heap' = [heap EXCEPT ![moments[at]] = New(at).moment]
      /\ value' = [value EXCEPT ![Param[at]] = New(at).value]
  BY <1>1 DEF KernelRuns
<1>4. \A i \in Index \ {at} : moments[i] # moments[at]
  BY <1>2 DEF IsInjective
<1>. QED
  BY <1>2, <1>3, <1>4

LEMMA UpdateCudaStep == ASSUME NoCudaTwice, IInv, StepInv, UpdateCuda PROVE StepInv'
<1>1. /\ pc = "cuda" /\ pc' = "cuda" /\ at \in Index /\ at' = at + 1
      /\ UNCHANGED <<grad, t, hyper, moments, fresh, before>>
  BY DEF UpdateCuda, live
<1>2. \A i \in Index : /\ New(i)' = New(i) /\ Host(i)' = Host(i)
                       /\ Passed(i)' <=> Passed(i) \/ (i = at /\ OnDevice(i))
                       /\ Passed(i) => i # at
  BY <1>1, IndexFact DEF New, Old, Host, OnDevice, Passed, Eligible
<1>3. Temporaries'
  BY <1>1, <1>2 DEF StepInv, Temporaries
<1>4. MomentsWritten' /\ ValuesWritten'
  <2>1. CASE OnDevice(at)
    <3>1. KernelRuns
      BY <1>1, <2>1 DEF UpdateCuda, OnDevice
    <3>2. /\ heap'[moments[at]] = New(at).moment /\ value'[Param[at]] = New(at).value
          /\ \A i \in Index \ {at} : heap'[moments[i]] = heap[moments[i]]
          /\ \A v \in Variable \ {Param[at]} : value'[v] = value[v]
      BY <1>1, <2>1, <3>1, KernelWrites
    <3>3. MomentsWritten'
      BY <1>1, <1>2, <2>1, <3>2 DEF StepInv, MomentsWritten
    <3>4. \A i \in Index : Param[i] \in Variable /\ (i # at => Param[i] # Param[at])
      BY <1>1, <2>1, ListAssumption, IndexFact DEF NoCudaTwice, OnDevice
    <3>5. ASSUME NEW i \in Index, Passed(i)' PROVE value'[Param[i]] = New(i).value
      BY <1>1, <1>2, <3>2, <3>4, <3>5 DEF StepInv, ValuesWritten
    <3>6. ASSUME NEW v \in Variable, \A i \in Index : Passed(i)' => Param[i] # v
          PROVE  value'[v] = before.value[v]
      BY <1>1, <1>2, <2>1, <3>2, <3>6 DEF StepInv, ValuesWritten
    <3>7. ValuesWritten'
      BY <1>1, <1>2, <3>5, <3>6 DEF ValuesWritten
    <3>. QED
      BY <3>3, <3>7
  <2>2. CASE ~ OnDevice(at)
    <3>1. UNCHANGED <<heap, value>>
      BY <1>1, <2>2 DEF UpdateCuda, OnDevice
    <3>2. \A i \in Index : Passed(i)' = Passed(i)
      BY <1>1, <1>2, <2>2 DEF Passed
    <3>. QED
      BY <1>1, <1>2, <3>1, <3>2 DEF StepInv, MomentsWritten, ValuesWritten
  <2>. QED
    BY <2>1, <2>2
<1>. QED
  BY <1>1, <1>3, <1>4, IndexFact DEF StepInv

LEMMA StepNext == ASSUME NoCudaTwice, IInv, StepInv, [Next]_vars PROVE StepInv'
<1>1. CASE UNCHANGED vars
  BY <1>1 DEF vars, live, StepInv, Temporaries, MomentsWritten, ValuesWritten, Passed, Host,
     OnDevice, Eligible, New, Old
<1>2. CASE Next
  <2>1. CASE pc' \notin {"compute", "cuda"}
    <3>1. fresh' = NoResults
      BY <1>2, <2>1 DEF Next, GradientArrives, ZeroGrad, TakeState, EditState, StepCall, Compute,
         Computed, UpdateCuda, Commit, LoadCall, LoadClone, LoadSwap, Fail, KernelFails, Abandon,
         StepInv
    <3>. QED
      BY <2>1, <3>1 DEF StepInv
  <2>2. CASE pc' \in {"compute", "cuda"}
    <3>1. StepCall \/ Compute \/ Computed \/ UpdateCuda
      BY <1>2, <2>2 DEF Next, GradientArrives, ZeroGrad, TakeState, EditState, Commit, LoadCall,
         LoadClone, LoadSwap, Fail, KernelFails, Abandon
    <3>. QED
      BY <3>1, StepCallStep, ComputeStep, ComputedStep, UpdateCudaStep
  <2>. QED
    BY <2>1, <2>2
<1>. QED
  BY <1>1, <1>2

(* The invariant of a step holds in every reachable state.                 *)
THEOREM StepInvariance == ASSUME NoCudaTwice PROVE Spec => []StepInv
<1>1. Init => StepInv
  BY DEF Init, StepInv
<1>2. IInv /\ StepInv /\ [Next]_vars => StepInv'
  BY StepNext
<1>. QED
  BY <1>1, <1>2, Invariance, PTL DEF Spec

-----------------------------------------------------------------------------
(* What a step that throws has changed.                                    *)

LEMMA NowIs ==
  ASSUME NoCudaTwice, IInv, StepInv, pc \in {"compute", "cuda"}, NEW i \in Index
  PROVE  Now(i) = IF Passed(i) THEN New(i) ELSE Old(i)
<1>1. Param[i] \in Variable
  BY ListAssumption, IndexFact
<1>2. CASE Passed(i)
  BY <1>2 DEF StepInv, MomentsWritten, ValuesWritten, Now, New
<1>3. CASE ~ Passed(i)
  <2>1. \A j \in Index : Passed(j) => Param[j] # Param[i]
    BY <1>3 DEF NoCudaTwice, Passed, OnDevice
  <2>2. value[Param[i]] = before.value[Param[i]]
    BY <1>1, <2>1 DEF StepInv, ValuesWritten
  <2>. QED
    BY <1>3, <2>2 DEF StepInv, MomentsWritten, Now, Old
<1>. QED
  BY <1>2, <1>3

LEMMA ThrowKeepsHost ==
  ASSUME NoCudaTwice, IInv, StepInv, Next, StepThrows
  PROVE  HostIsKept
<1>1. Fail \/ KernelFails
  BY DEF StepThrows, Next, GradientArrives, ZeroGrad, TakeState, EditState, StepCall, Compute,
     Computed, UpdateCuda, Commit, LoadCall, LoadClone, LoadSwap
<1>2. UNCHANGED <<grad, t, hyper, moments, before>>
  BY <1>1 DEF Fail, KernelFails, Abandon, live
<1>3. \A i \in Index : Now(i) = IF Passed(i) THEN New(i) ELSE Old(i)
  BY NowIs DEF StepThrows
<1>4. CASE Fail
  <2>1. \A i \in Index : Now(i)' = Now(i)
    BY <1>2, <1>4 DEF Fail, Now
  <2>. QED
    BY <1>2, <1>3, <2>1 DEF HostIsKept, Passed, OnDevice
<1>5. CASE KernelFails
  <2>1. pc = "cuda" /\ at \in Index /\ OnDevice(at) /\ KernelRuns
    BY <1>5 DEF KernelFails, CanFail, OnDevice
  <2>2. /\ heap'[moments[at]] = New(at).moment /\ value'[Param[at]] = New(at).value
        /\ \A i \in Index \ {at} : heap'[moments[i]] = heap[moments[i]]
        /\ \A v \in Variable \ {Param[at]} : value'[v] = value[v]
    BY <1>2, <2>1, KernelWrites
  <2>3. \A i \in Index : Param[i] \in Variable /\ (i # at => Param[i] # Param[at])
    BY <2>1, ListAssumption, IndexFact DEF NoCudaTwice, OnDevice
  <2>4. \A i \in Index : Now(i)' = IF i = at THEN New(i) ELSE Now(i)
    BY <1>2, <2>2, <2>3 DEF Now, New
  <2>. QED
    BY <1>2, <1>3, <2>1, <2>4 DEF HostIsKept, Passed, OnDevice
<1>. QED
  BY <1>1, <1>4, <1>5

(* Adam::step that throws, on a list without a CUDA variable that is       *)
(* listed twice: the step count and every CPU entry are as before the      *)
(* call, and every CUDA entry is as before it or completely updated once.  *)
THEOREM FailureIsContained ==
  ASSUME NoCudaTwice
  PROVE  Spec => FailureKeepsHost
<1>1. IInv /\ StepInv /\ [Next]_vars => [StepThrows => HostIsKept]_vars
  BY ThrowKeepsHost
<1>. QED
  BY <1>1, Invariance, StepInvariance, PTL DEF Spec, FailureKeepsHost

-----------------------------------------------------------------------------
(* The order of a step.                                                    *)

OneOnCuda == \A i, j \in Index : Param[i] \in OnCuda /\ Param[j] \in OnCuda => i = j

(* The comment above the commit phase of Adam::step is true of a list with *)
(* at most one CUDA entry: parameters and moments change only once every   *)
(* eligible entry has been computed.  The second CUDA entry breaks it.     *)
THEOREM ComputedBeforeUpdated ==
  ASSUME OneOnCuda
  PROVE  Spec => []UpdatedAfterAllComputed
<1>1. NoCudaTwice
  BY ListAssumption, IndexFact DEF OneOnCuda, NoCudaTwice
<1>2. IInv /\ StepInv => UpdatedAfterAllComputed
  <2>. SUFFICES ASSUME IInv, StepInv, pc \in {"compute", "cuda"},
                       Content(moments) # before.moments \/ value # before.value
                PROVE  \A i \in Index :
                         Eligible(i) => \/ fresh[i] # NoResult
                                        \/ heap[moments[i]] = MomentStep(before.moments[i],
                                                                grad[Param[i]], hyper)
    BY DEF UpdatedAfterAllComputed
  <2>1. PICK k \in Index : Passed(k)
    <3>. SUFFICES ASSUME \A k \in Index : ~ Passed(k) PROVE FALSE
      OBVIOUS
    <3>1. Content(moments) = before.moments
      BY DEF Content, StepInv, MomentsWritten, IInv, TypeOK
    <3>2. value = before.value
      BY DEF StepInv, ValuesWritten, IInv, TypeOK
    <3>. QED
      BY <3>1, <3>2
  <2>. SUFFICES ASSUME NEW i \in Index, Eligible(i)
                PROVE  \/ fresh[i] # NoResult
                       \/ heap[moments[i]] = MomentStep(before.moments[i], grad[Param[i]], hyper)
    OBVIOUS
  <2>2. CASE Param[i] \in OnCuda
    <3>1. i = k
      BY <2>1, <2>2 DEF OneOnCuda, Passed, OnDevice
    <3>. QED
      BY <2>1, <3>1 DEF StepInv, MomentsWritten, New, Old
  <2>3. CASE Param[i] \notin OnCuda
    <3>1. fresh[i] = New(i)
      BY <2>1, <2>3 DEF StepInv, Temporaries, Host, Passed
    <3>. QED
      BY <3>1, NewType DEF IInv, CountInv
  <2>. QED
    BY <2>2, <2>3
<1>. QED
  BY <1>1, <1>2, Invariance, StepInvariance, PTL

-----------------------------------------------------------------------------
(* The refinement of AdamReference.                                        *)

(* What the reference sees: a step in progress has had no effect yet.      *)
ShownValue == IF pc = "cuda" THEN before.value ELSE value
ShownMoments == IF pc = "cuda" THEN before.moments ELSE Content(moments)
ShownState ==
  IF state = NoState THEN NoState ELSE [state EXCEPT !.moments = Content(state.moments)]

(* No device call fails, if there is a CUDA entry at all.                  *)
Reliable == DeviceFaults => \A i \in Index : Param[i] \notin OnCuda

(* The copies being loaded have the contents of the snapshot.              *)
CopyInv == pc = "load" => \A i \in 1 .. at - 1 : heap[clones[i]] = heap[state.moments[i]]

LEMMA SnapshotApart ==
  ASSUME IInv, state # NoState, NEW i \in Index
  PROVE  /\ state \in State /\ state.moments[i] \in Storage
         /\ \A j \in Index : moments[j] \in Storage /\ moments[j] # state.moments[i]
<1>1. /\ state \in State /\ state.moments \in [Index -> Storage]
      /\ moments \in [Index -> Storage]
  BY DEF IInv, TypeOK, State
<1>. QED
  BY <1>1 DEF IInv, Isolated, Range

LEMMA ShownStateFact ==
  ASSUME IInv, state # NoState
  PROVE  /\ ShownState # NoState /\ ShownState.t = state.t /\ ShownState.hyper = state.hyper
         /\ ShownState.moments = Content(state.moments)
<1>1. state \in State
  BY DEF IInv, TypeOK
<1>2. Content(state.moments) \in [Index -> Moment]
  BY <1>1 DEF IInv, TypeOK, State, Content
<1>3. ShownState = [t |-> state.t, hyper |-> state.hyper, moments |-> Content(state.moments)]
  BY <1>1 DEF ShownState, State
<1>4. ShownState \in [t : 0 .. MaxT, hyper : Hyper, moments : [Index -> Moment]]
  BY <1>1, <1>2, <1>3 DEF State
<1>. QED
  BY <1>3, <1>4, MarkerAssumption DEF StateValue

LEMMA CopyNext == ASSUME IInv, CopyInv, [Next]_vars PROVE CopyInv'
<1>1. CASE UNCHANGED vars
  BY <1>1 DEF vars, CopyInv
<1>2. CASE LoadCall
  BY <1>2, IndexFact DEF LoadCall, CopyInv
<1>3. CASE LoadClone
  <2>1. PICK s \in Storage \ Live :
          clones' = Append(clones, s) /\ heap' = [heap EXCEPT ![s] = heap[state.moments[at]]]
    BY <1>3 DEF LoadClone
  <2>2. /\ pc = "load" /\ at \in Index /\ at' = at + 1 /\ state' = state
        /\ state \in State /\ state # NoState
        /\ clones \in Seq(Storage) /\ Len(clones) = at - 1
    BY <1>3, MarkerAssumption DEF LoadClone, program, live, IInv, LoadInv, TypeOK
  <2>3. /\ \A i \in 1 .. at - 1 : clones'[i] = clones[i] /\ clones[i] \in Range(clones)
        /\ clones'[at] = s
    BY <2>1, <2>2, AppendProperties, IndexFact, LenProperties DEF Range
  <2>4. \A i \in Index : state.moments[i] \in Storage /\ state.moments[i] # s
    BY <2>1, <2>2 DEF Live, Range, State
  <2>5. \A i \in 1 .. at - 1 : clones[i] # s /\ clones[i] \in Storage
    BY <2>1, <2>2, <2>3, IndexFact, ElementOfSeq DEF Live
  <2>6. heap \in [Storage -> Moment]
    BY DEF IInv, TypeOK
  <2>7. ASSUME NEW i \in 1 .. at
        PROVE  heap'[clones'[i]] = heap'[state'.moments[i]]
    <3>1. i \in Index
      BY <2>2, IndexFact
    <3>2. CASE i = at
      BY <2>1, <2>2, <2>3, <2>4, <2>6, <3>1, <3>2
    <3>3. CASE i # at
      <4>1. i \in 1 .. at - 1
        BY <2>2, <3>3, IndexFact
      <4>. QED
        BY <2>1, <2>2, <2>3, <2>4, <2>5, <2>6, <3>1, <4>1 DEF CopyInv
    <3>. QED
      BY <3>2, <3>3
  <2>. QED
    BY <2>2, <2>7, IndexFact DEF CopyInv
<1>4. CASE pc' # "load"
  BY <1>4 DEF CopyInv
<1>5. Next => LoadCall \/ LoadClone \/ pc' # "load"
  BY DEF Next, GradientArrives, ZeroGrad, TakeState, EditState, StepCall, Compute, Computed,
     UpdateCuda, Commit, LoadSwap, Fail, KernelFails, Abandon
<1>. QED
  BY <1>1, <1>2, <1>3, <1>4, <1>5

LEMMA Quiet ==
  ASSUME UNCHANGED <<t, hyper, ShownValue, ShownMoments, ShownState>>
  PROVE  Reference!Next
  BY DEF Reference!Next, Reference!NewGradients, ShownValue, ShownMoments, ShownState

(* A write to a storage the optimizer and the snapshot do not hold, or     *)
(* that the step in progress hides, is not seen.                           *)
LEMMA Unseen ==
  ASSUME IInv, UNCHANGED <<t, hyper, moments, state, ShownValue>>,
         \/ pc = "cuda" /\ pc' = "cuda" /\ before' = before
         \/ pc # "cuda" /\ pc' # "cuda" /\ \A i \in Index : heap'[moments[i]] = heap[moments[i]]
         \/ pc # "cuda" /\ pc' = "cuda" /\ heap' = heap /\ before'.moments = Content(moments),
         state # NoState => \A i \in Index : heap'[state.moments[i]] = heap[state.moments[i]]
  PROVE  Reference!Next
<1>1. ShownMoments' = ShownMoments
  BY DEF ShownMoments, Content
<1>2. ShownState' = ShownState
  BY DEF ShownState, Content
<1>. QED
  BY <1>1, <1>2, Quiet

LEMMA TakeStateRefined == ASSUME IInv, TakeState PROVE Reference!Next
<1>. PICK copy \in [Index -> Storage \ Live] :
       /\ IsInjective(copy)
       /\ state' = [t |-> t, hyper |-> hyper, moments |-> copy]
       /\ heap' = [s \in Storage |->
            IF s \in Range(copy)
            THEN heap[moments[CHOOSE i \in Index : copy[i] = s]] ELSE heap[s]]
  BY DEF TakeState
<1>1. pc = "idle" /\ pc' = "idle" /\ UNCHANGED <<value, grad, t, hyper, moments>>
  BY DEF TakeState, live
<1>2. moments \in [Index -> Storage]
  BY DEF IInv, TypeOK
<1>3. ASSUME NEW i \in Index PROVE heap'[copy[i]] = heap[moments[i]]
  <2>1. copy[i] \in Storage /\ copy[i] \in Range(copy)
    BY DEF Range
  <2>2. \A j \in Index : copy[j] = copy[i] => j = i
    BY DEF IsInjective
  <2>3. (CHOOSE j \in Index : copy[j] = copy[i]) = i
    BY <2>2
  <2>. QED
    BY <2>1, <2>3
<1>4. ASSUME NEW i \in Index PROVE heap'[moments[i]] = heap[moments[i]]
  <2>1. moments[i] \in Storage /\ moments[i] \in Live
    BY <1>2 DEF Live, Range
  <2>2. moments[i] \notin Range(copy)
    BY <2>1 DEF Range
  <2>. QED
    BY <2>1, <2>2
<1>5. Content(moments)' = Content(moments) /\ Content(copy)' = Content(moments)
  BY <1>1, <1>3, <1>4 DEF Content
<1>6. state' # NoState
  BY <1>2, MarkerAssumption DEF IInv, TypeOK, State
<1>7. ShownState' = [t |-> t, hyper |-> hyper, moments |-> Content(moments)]
  <2>1. ShownState' = [state' EXCEPT !.moments = Content(copy)']
    BY <1>6 DEF ShownState, Content
  <2>. QED
    BY <1>5, <2>1
<1>8. UNCHANGED <<ShownValue, ShownMoments>> /\ ShownMoments = Content(moments)
  BY <1>1, <1>5 DEF ShownValue, ShownMoments
<1>. QED
  BY <1>1, <1>7, <1>8
     DEF Reference!Next, Reference!TakeState, ShownValue, ShownMoments, ShownState

LEMMA EditStateRefined ==
  ASSUME IInv, NEW i \in Index, NEW m \in Moment, NEW h \in Hyper, EditState(i, m, h)
  PROVE  Reference!Next
<1>1. /\ pc = "idle" /\ pc' = "idle" /\ state # NoState /\ state \in State
      /\ heap' = [heap EXCEPT ![state.moments[i]] = m]
      /\ UNCHANGED <<value, grad, t, hyper, moments>>
  BY DEF EditState, live, IInv, TypeOK
<1>2. ASSUME NEW j \in Index PROVE heap'[moments[j]] = heap[moments[j]]
  <2>1. heap \in [Storage -> Moment]
    BY DEF IInv, TypeOK
  <2>. QED
    BY <1>1, <2>1, SnapshotApart
<1>3. Content(moments)' = Content(moments)
  BY <1>1, <1>2 DEF Content
<1>4. ShownState # NoState
  BY <1>1, ShownStateFact
<1>. QED
  BY <1>1, <1>3, <1>4
     DEF Reference!Next, Reference!EditState, ShownState, ShownValue, ShownMoments

LEMMA LoadSwapRefined == ASSUME IInv, CopyInv, LoadSwap PROVE Reference!Next
<1>1. /\ pc = "load" /\ pc' = "idle" /\ at \notin Index
      /\ t' = state.t /\ hyper' = state.hyper /\ moments' = clones
      /\ state \in State /\ state # NoState /\ at \in 1 .. Len(Param) + 1
      /\ UNCHANGED <<value, grad, heap, state>>
  BY MarkerAssumption DEF LoadSwap, program, live, IInv, LoadInv, TypeOK
<1>2. \A i \in Index : heap[clones[i]] = heap[state.moments[i]]
  BY <1>1, IndexFact DEF CopyInv
<1>3. Content(moments)' = Content(state.moments) /\ Content(state.moments)' = Content(state.moments)
  BY <1>1, <1>2 DEF Content
<1>4. /\ ShownState # NoState /\ ShownState.t = state.t /\ ShownState.hyper = state.hyper
      /\ ShownState.moments = Content(state.moments)
  BY <1>1, ShownStateFact
<1>5. ShownState' = ShownState /\ ShownValue' = ShownValue /\ ShownMoments' = ShownState.moments
  BY <1>1, <1>3, <1>4 DEF ShownState, ShownValue, ShownMoments, Content
<1>. QED
  BY <1>1, <1>4, <1>5
     DEF Reference!Next, Reference!LoadState, ShownState, ShownValue, ShownMoments

(* Phase 3 is the step of the reference, with the values before the call:  *)
(* of the entries of one variable the last eligible one decides.           *)
LEMMA CommitRefined == ASSUME NoCudaTwice, IInv, StepInv, Commit PROVE Reference!Next
<1>. DEFINE Chosen(i, v) == fresh[i] # NoResult /\ Param[i] = v
            Latest(v) == CHOOSE i \in Index : fresh[i] # NoResult /\ Param[i] = v /\
                           \A j \in Index : fresh[j] # NoResult /\ Param[j] = v => j <= i
            Mine(s) == {i \in Index : fresh[i] # NoResult /\ moments[i] = s}
            Updated(i) == New(i).moment
<1>1. /\ pc = "cuda" /\ pc' = "idle" /\ at \notin Index /\ t' = NewT
      /\ heap' = [s \in Storage |->
           IF Mine(s) # {} THEN fresh[CHOOSE i \in Mine(s) : TRUE].moment ELSE heap[s]]
      /\ value' = [v \in Variable |->
           IF \E i \in Index : fresh[i] # NoResult /\ Param[i] = v
           THEN fresh[Latest(v)].value ELSE value[v]]
      /\ UNCHANGED <<grad, state, hyper, moments, before>>
  BY DEF Commit
<1>2. \A i \in Index : i < at
  BY <1>1, IndexFact DEF StepInv
<1>3. \A i \in Index : fresh[i] = IF Host(i) THEN New(i) ELSE NoResult
  BY <1>1 DEF StepInv, Temporaries
<1>4. \A i \in Index : heap[moments[i]] = IF OnDevice(i) THEN New(i).moment ELSE before.moments[i]
  BY <1>1, <1>2 DEF StepInv, MomentsWritten, Passed
<1>5. \A i \in Index : Host(i) => New(i) # NoResult
  BY <1>1, NewType DEF Host, IInv, CountInv
<1>6. /\ moments \in [Index -> Storage] /\ IsInjective(moments)
      /\ heap \in [Storage -> Moment] /\ before.moments \in [Index -> Moment]
      /\ before.value \in [Variable -> Value] /\ t \in 0 .. MaxT
  BY DEF IInv, TypeOK, Isolated
<1>7. \A i \in Index : Eligible(i) <=> i \in Reference!Eligible
  BY DEF Eligible, Reference!Eligible, Reference!Index, Index
<1>8. ASSUME NEW i \in Index
      PROVE  heap'[moments[i]] = Reference!NextMoments[i]
  <2>1. Reference!NextMoments[i] = IF Eligible(i) THEN New(i).moment ELSE before.moments[i]
    BY <1>1, <1>7 DEF Reference!NextMoments, Reference!Index, Index, New, Old
  <2>2. CASE Host(i)
    <3>1. Mine(moments[i]) = {i}
      BY <1>3, <1>5, <1>6, <2>2 DEF IsInjective
    <3>2. (CHOOSE j \in Mine(moments[i]) : TRUE) = i
      BY <3>1
    <3>3. Mine(moments[i]) # {} /\ moments[i] \in Storage
      BY <3>1, <1>6
    <3>. HIDE DEF Mine
    <3>4. heap'[moments[i]] = fresh[i].moment
      BY <1>1, <3>2, <3>3
    <3>. QED
      BY <1>3, <2>1, <2>2, <3>4 DEF Host
  <2>3. CASE ~ Host(i)
    <3>1. Mine(moments[i]) = {}
      BY <1>3, <1>6, <2>3 DEF IsInjective
    <3>. HIDE DEF Mine
    <3>2. heap'[moments[i]] = heap[moments[i]]
      BY <1>1, <1>6, <3>1
    <3>. QED
      BY <1>4, <2>1, <2>3, <3>2 DEF Host, OnDevice
  <2>. QED
    BY <2>2, <2>3
<1>9. Content(moments)' = Reference!NextMoments
  <2>1. Content(moments)' = [i \in Index |-> heap'[moments[i]]]
    BY <1>1 DEF Content
  <2>2. Reference!NextMoments = [i \in Index |-> Reference!NextMoments[i]]
    BY DEF Reference!NextMoments, Reference!Index, Index
  <2>. QED
    BY <1>8, <2>1, <2>2
<1>10. ASSUME NEW v \in Variable, NEW i \in Index, Eligible(i), Param[i] = v,
              \A j \in Index : Eligible(j) /\ Param[j] = v => j <= i
       PROVE  value'[v] = New(i).value
  <2>1. CASE Param[i] \in OnCuda
    <3>1. \A j \in Index : ~ (fresh[j] # NoResult /\ Param[j] = v)
      BY <1>3, <1>10, <2>1 DEF Host
    <3>2. value'[v] = value[v]
      BY <1>1, <3>1
    <3>3. Passed(i)
      BY <1>1, <1>2, <1>10, <2>1 DEF Passed, OnDevice
    <3>. QED
      BY <1>1, <1>10, <3>2, <3>3 DEF StepInv, ValuesWritten
  <2>2. CASE Param[i] \notin OnCuda
    <3>1. \A j \in Index : fresh[j] # NoResult /\ Param[j] = v <=> Eligible(j) /\ Param[j] = v
      BY <1>3, <1>5, <1>10, <2>2 DEF Host
    <3>2. Latest(v) = i
      <4>1. \A j \in Index :
              (fresh[j] # NoResult /\ Param[j] = v /\
                \A k \in Index : fresh[k] # NoResult /\ Param[k] = v => k <= j) <=> j = i
        BY <1>10, <3>1, IndexFact
      <4>. QED
        BY <4>1
    <3>. HIDE DEF Latest
    <3>3. value'[v] = fresh[i].value
      BY <1>1, <1>10, <3>1, <3>2
    <3>. QED
      BY <1>3, <1>10, <2>2, <3>3 DEF Host
  <2>. QED
    BY <2>1, <2>2
<1>11. ASSUME NEW v \in Variable, \A i \in Index : Eligible(i) => Param[i] # v
       PROVE  value'[v] = before.value[v]
  <2>1. \A j \in Index : ~ (fresh[j] # NoResult /\ Param[j] = v)
    BY <1>3, <1>11 DEF Host
  <2>2. value'[v] = value[v]
    BY <1>1, <2>1
  <2>. QED
    BY <1>1, <1>11, <2>2 DEF StepInv, ValuesWritten, Passed, OnDevice
<1>12. ShownState' = ShownState
  <2>1. ASSUME state # NoState, NEW i \in Index
        PROVE  heap'[state.moments[i]] = heap[state.moments[i]]
    <3>1. state.moments[i] \in Storage /\ \A j \in Index : moments[j] # state.moments[i]
      BY <2>1, SnapshotApart
    <3>2. Mine(state.moments[i]) = {}
      BY <3>1
    <3>. HIDE DEF Mine
    <3>. QED
      BY <1>1, <3>1, <3>2
  <2>. HIDE DEF Mine, Latest
  <2>2. state # NoState => Content(state.moments)' = Content(state.moments)
    BY <1>1, <2>1 DEF Content
  <2>. QED
    BY <1>1, <2>2 DEF ShownState
<1>13. ShownValue = before.value /\ ShownMoments = before.moments
       /\ ShownValue' = value' /\ ShownMoments' = Content(moments)'
  BY <1>1 DEF ShownValue, ShownMoments
<1>14. CASE ~ Anyone
  <2>1. value' = before.value
    BY <1>1, <1>6, <1>11, <1>14 DEF Anyone
  <2>2. Reference!NextMoments = before.moments
    BY <1>1, <1>6, <1>7, <1>14 DEF Anyone, Reference!NextMoments, Reference!Index, Index
  <2>3. t' = t
    BY <1>1, <1>14 DEF NewT
  <2>. QED
    BY <1>1, <1>9, <1>12, <1>13, <2>1, <2>2, <2>3, Quiet
<1>15. CASE Anyone
  <2>1. t' = t + 1 /\ Reference!Eligible # {}
    BY <1>1, <1>7, <1>15 DEF NewT, Anyone
  <2>2. ASSUME NEW v \in Variable
        PROVE  value'[v] = IF \E i \in Reference!Eligible : Param[i] = v
                           THEN Moved(before.value[v], Reference!NextMoments[Reference!Last(v)],
                                      t + 1, hyper)
                           ELSE before.value[v]
    <3>1. CASE \E i \in Reference!Eligible : Param[i] = v
      <4>. DEFINE S == {i \in Index : Eligible(i) /\ Param[i] = v}
      <4>1. PICK i \in S : \A j \in S : j <= i
        <5>1. S # {} /\ S \subseteq 1 .. Len(Param)
          BY <1>7, <3>1, IndexFact DEF Reference!Eligible, Reference!Index, Index
        <5>. HIDE DEF S
        <5>. QED
          BY <5>1, IndexFact, LastExists
      <4>2. value'[v] = New(i).value
        BY <1>10, <4>1
      <4>3. \A j \in Reference!Eligible : j \in Index /\ Eligible(j)
        BY <1>7 DEF Reference!Eligible, Reference!Index, Index
      <4>4. \A j \in Reference!Eligible :
              (Param[j] = v /\ \A k \in Reference!Eligible : Param[k] = v => k <= j) <=> j = i
        BY <1>7, <4>1, <4>3, IndexFact
      <4>5. Reference!Last(v) = i
        BY <1>7, <4>1, <4>4 DEF Reference!Last
      <4>6. Reference!NextMoments[i] = New(i).moment
        BY <1>1, <1>7, <4>1 DEF Reference!NextMoments, Reference!Index, Index, New, Old
      <4>. QED
        BY <3>1, <4>1, <4>2, <4>5, <4>6 DEF New, Old
    <3>2. CASE ~ \E i \in Reference!Eligible : Param[i] = v
      BY <1>7, <1>11, <3>2
    <3>. QED
      BY <3>1, <3>2
  <2>3. value' = [v \in Variable |->
                   IF \E i \in Reference!Eligible : Param[i] = v
                   THEN Moved(before.value[v], Reference!NextMoments[Reference!Last(v)],
                              t + 1, hyper)
                   ELSE before.value[v]]
    BY <1>1, <2>2
  <2>4. Reference!Step
    BY <1>1, <1>9, <1>12, <1>13, <2>1, <2>3
       DEF Reference!Step, ShownState, ShownValue, ShownMoments
  <2>. QED
    BY <2>4 DEF Reference!Next
<1>. QED
  BY <1>14, <1>15

-----------------------------------------------------------------------------
LEMMA NextRefined ==
  ASSUME NoCudaTwice, Reliable, IInv, StepInv, CopyInv, [Next]_vars
  PROVE  [Reference!Next]_(Reference!vars)
<1>1. CASE UNCHANGED vars
  BY <1>1 DEF vars, live, Reference!vars, Content
<1>2. ASSUME NEW v \in Variable, NEW g \in Grad, GradientArrives(v, g) PROVE Reference!Next
  BY <1>2, Unseen DEF GradientArrives, live, ShownValue
<1>3. ASSUME NEW i \in Index, NEW m \in Moment, NEW h \in Hyper, EditState(i, m, h)
      PROVE  Reference!Next
  BY <1>3, EditStateRefined
<1>4. CASE ZeroGrad \/ LoadCall
  BY <1>4, Unseen DEF ZeroGrad, LoadCall, program, live, ShownValue
<1>5. CASE StepCall \/ Compute
  BY <1>5, Unseen DEF StepCall, Compute, program, live, ShownValue
<1>6. CASE Computed
  <2>1. /\ pc = "compute" /\ pc' = "cuda"
        /\ UNCHANGED <<value, heap, t, hyper, moments, state, before>>
    BY <1>6 DEF Computed, program, live
  <2>2. \A i \in Index : ~ Passed(i)
    BY <2>1 DEF Passed
  <2>3. value = before.value /\ Content(moments) = before.moments
    BY <2>1, <2>2 DEF StepInv, ValuesWritten, MomentsWritten, Content, IInv, TypeOK
  <2>. QED
    BY <2>1, <2>3, Unseen DEF ShownValue
<1>7. CASE UpdateCuda
  <2>1. /\ pc = "cuda" /\ pc' = "cuda" /\ at \in Index
        /\ UNCHANGED <<grad, state, t, hyper, moments, before>>
    BY <1>7 DEF UpdateCuda, live
  <2>2. ASSUME state # NoState, NEW i \in Index
        PROVE  heap'[state.moments[i]] = heap[state.moments[i]]
    <3>1. state.moments[i] \in Storage /\ state.moments[i] # moments[at]
      BY <2>1, <2>2, SnapshotApart
    <3>2. heap \in [Storage -> Moment]
      BY DEF IInv, TypeOK
    <3>. QED
      BY <1>7, <3>1, <3>2 DEF UpdateCuda, KernelRuns
  <2>. QED
    BY <2>1, <2>2, Unseen DEF ShownValue
<1>8. CASE LoadClone
  <2>1. PICK s \in Storage \ Live : heap' = [heap EXCEPT ![s] = heap[state.moments[at]]]
    BY <1>8 DEF LoadClone
  <2>2. /\ pc = "load" /\ pc' = "load"
        /\ UNCHANGED <<value, grad, state, t, hyper, moments>>
    BY <1>8 DEF LoadClone, program, live
  <2>3. \A i \in Index : /\ moments[i] # s
                         /\ state # NoState => state.moments[i] # s
    <3>1. moments \in [Index -> Storage] /\ state \in State \cup {NoState}
      BY DEF IInv, TypeOK
    <3>. QED
      BY <2>1, <3>1 DEF Live, Range, State
  <2>4. heap \in [Storage -> Moment]
    BY DEF IInv, TypeOK
  <2>5. \A i \in Index : /\ heap'[moments[i]] = heap[moments[i]]
                         /\ state # NoState => heap'[state.moments[i]] = heap[state.moments[i]]
    BY <2>1, <2>3, <2>4 DEF IInv, TypeOK, State
  <2>. QED
    BY <2>2, <2>5, Unseen DEF ShownValue
<1>9. CASE Fail
  <2>1. pc \in {"compute", "load"}
    BY <1>9, ListAssumption, IndexFact DEF Fail, CanFail, Reliable
  <2>. QED
    BY <1>9, <2>1, Unseen DEF Fail, Abandon, live, ShownValue
<1>10. ~ KernelFails
  BY IndexFact DEF KernelFails, CanFail, Reliable
<1>. QED
  BY <1>1, <1>2, <1>3, <1>4, <1>5, <1>6, <1>7, <1>8, <1>9, <1>10, TakeStateRefined,
     CommitRefined, LoadSwapRefined DEF Next

(* Adam on several devices follows the trajectory of one device, step for  *)
(* step, whatever is copied, loaded and abandoned, if no CUDA parameter is *)
(* listed twice and no device call fails.  CPU parameters may be listed    *)
(* twice, and every host allocation may fail.                              *)
THEOREM OneTrajectory ==
  ASSUME NoCudaTwice, Reliable
  PROVE  Spec => RefinesReference
<1>1. Init => Reference!Init /\ CopyInv
  <2>. SUFFICES ASSUME Init PROVE Reference!Init /\ CopyInv
    OBVIOUS
  <2>1. Content(moments) = [i \in Index |-> ZeroMoment]
    BY DEF Init, Content
  <2>. QED
    BY <2>1 DEF Init, Reference!Init, Reference!Index, Index, CopyInv
<1>2. IInv /\ CopyInv /\ [Next]_vars => CopyInv'
  BY CopyNext
<1>3. IInv /\ StepInv /\ CopyInv /\ [Next]_vars => [Reference!Next]_(Reference!vars)
  BY NextRefined
<1>. QED
  BY <1>1, <1>2, <1>3, Invariance, StepInvariance, PTL DEF Spec, RefinesReference, Reference!Spec
=============================================================================
