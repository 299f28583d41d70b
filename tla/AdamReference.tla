---------------------------- MODULE AdamReference ----------------------------
(***************************************************************************)
(* What optim::Adam promises, on one device and with values only: a step   *)
(* takes effect at one instant on every eligible entry of the parameter    *)
(* list, a snapshot is a value, and loading one replaces the whole state   *)
(* at one instant.                                                         *)
(***************************************************************************)
EXTENDS Naturals, Sequences

CONSTANTS
  Variable,           \* the variables of the program
  Param,              \* the parameter list of the optimizer
  Trainable,          \* the variables with requires_grad
  NoGrad,             \* the empty stored gradient
  ZeroMoment,         \* the moments of a new optimizer
  NoState,            \* no snapshot taken yet
  MomentStep(_, _, _), \* the next pair of moments, from moments, gradient, hyperparameters
  Moved(_, _, _, _)    \* the next value, from value, moments, step count, hyperparameters

VARIABLES value, grad, t, hyper, moments, state
vars == <<value, grad, t, hyper, moments, state>>

Index == DOMAIN Param
Eligible == {i \in Index : Param[i] \in Trainable /\ grad[Param[i]] # NoGrad}
NextMoments == [i \in Index |->
  IF i \in Eligible THEN MomentStep(moments[i], grad[Param[i]], hyper) ELSE moments[i]]

(* The last entry of a variable that is listed more than once decides.     *)
Last(v) == CHOOSE i \in Eligible :
             Param[i] = v /\ \A j \in Eligible : Param[j] = v => j <= i

Step ==
  /\ Eligible # {}
  /\ t' = t + 1
  /\ moments' = NextMoments
  /\ value' = [v \in Variable |->
                 IF \E i \in Eligible : Param[i] = v
                 THEN Moved(value[v], NextMoments[Last(v)], t + 1, hyper)
                 ELSE value[v]]
  /\ UNCHANGED <<grad, hyper, state>>

NewGradients ==
  /\ UNCHANGED <<value, t, hyper, moments, state>>

TakeState ==
  /\ state' = [t |-> t, hyper |-> hyper, moments |-> moments]
  /\ UNCHANGED <<value, grad, t, hyper, moments>>

(* AdamState is a plain structure: its owner may write to it.              *)
EditState ==
  /\ state # NoState
  /\ UNCHANGED <<value, grad, t, hyper, moments>>

LoadState ==
  /\ state # NoState
  /\ t' = state.t
  /\ hyper' = state.hyper
  /\ moments' = state.moments
  /\ UNCHANGED <<value, grad, state>>

Init ==
  /\ t = 0
  /\ moments = [i \in Index |-> ZeroMoment]
  /\ state = NoState
Next == Step \/ NewGradients \/ TakeState \/ EditState \/ LoadState
Spec == Init /\ [][Next]_vars
=============================================================================
