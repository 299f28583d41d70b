--------------------------- MODULE MCAdamOptimizer ---------------------------
(***************************************************************************)
(* TLC instances of AdamOptimizer.  Values are residues modulo 3, moments  *)
(* and gradients modulo 2: no moment is a fixed point of its update with   *)
(* gradient 1, and the step count and the hyperparameters enter the move.  *)
(***************************************************************************)
EXTENDS AdamOptimizer, TLC

MCMomentStep(m, g, h) == (m + g) % 2
MCMoved(p, m, k, h) == (p + k * m + h) % 3

CONSTANTS a, b
MCStart == [v \in Variable |-> IF v = a THEN 0 ELSE 1]
MCTwo == <<a, b>>
MCTied == <<a, a>>
StorageSymmetry == Permutations(Storage)

(* Freed storage and the history of a finished step are not told apart.    *)
Observable ==
  <<value, grad, [s \in Storage |-> IF s \in Live THEN heap[s] ELSE ZeroMoment],
    live, state, pc, at, fresh, clones, IF pc \in {"compute", "cuda"} THEN before ELSE 0>>
=============================================================================
