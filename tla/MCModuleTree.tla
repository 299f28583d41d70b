----------------------------- MODULE MCModuleTree -----------------------------
(***************************************************************************)
(* One Sequential and two modules of the program's own class.  "p.q" may   *)
(* be given as one name.                                                   *)
(***************************************************************************)
EXTENDS ModuleTree

CONSTANTS p, q

MCNames == {<<>>, <<p>>, <<q>>, <<p, q>>}
MCNumeral(i) == i

MCSymmetry ==
  Permutations(Sequentials) \cup Permutations(Module \ Sequentials) \cup Permutations(Trainable)
=============================================================================
