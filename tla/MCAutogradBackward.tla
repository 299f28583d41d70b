------------------------- MODULE MCAutogradBackward -------------------------
(***************************************************************************)
(* TLC instances of AutogradBackward.  Gradients are residues modulo 101,  *)
(* tensor_add is addition and the Jacobian of each edge a distinct prime,  *)
(* so a lost, repeated or misrouted contribution changes the sum.          *)
(***************************************************************************)
EXTENDS AutogradBackward, FiniteSets

MCGrad == 0 .. 100
MCPlus(g, h) == (g + h) % 101
EdgePrime == <<2, 3, 5, 7, 11, 13, 17, 19, 23, 29>>
MCPull(n, i, g) == (g * EdgePrime[2 * n - 2 + i]) % 101

(* The instance satisfies the hypothesis of the refinement theorem.        *)
ASSUME LinearInstance == Linear

(* Operand lists: unary, distinct operands, and a leaf used twice.         *)
MCParentLists ==
  {<<p>> : p \in Node} \cup {<<p, q>> \in Node \X Node : p # q \/ p = 1}
(* The lists x -> x+x -> a node and an earlier one: sharing and diamonds.  *)
MCSharedLists == {<<1>>, <<1, 1>>, <<1, 2>>, <<2, 3>>, <<3, 2>>}
=============================================================================
