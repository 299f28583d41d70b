--------------------------- MODULE GradientLedger ---------------------------
(***************************************************************************)
(* What Variable::backward promises, without saying how it propagates: a   *)
(* call on r with seed s takes effect at one instant, and adds to the      *)
(* stored gradient of every node the sum over all paths from r to it of    *)
(* the vector-Jacobian products along the path.  "Each call propagates     *)
(* from a fresh seed and adds exactly one newly computed pass to stored    *)
(* gradients" (src/docs/PHASE0_BEHAVIOR_CONTRACT.md, section 2).           *)
(***************************************************************************)
EXTENDS Naturals, Sequences

CONSTANTS MaxNodes, Grad, Seeds, NoGrad, Plus(_, _), Pull(_, _, _)

VARIABLES
  nodeCount, parents, requires_grad,   \* the graph
  ledger                               \* the stored gradient of each node

Node == 1 .. MaxNodes

Joined(g, h) == IF g = NoGrad THEN h ELSE IF h = NoGrad THEN g ELSE Plus(g, h)

(* The sum of the first k entries of h.                                    *)
Total(h, k) ==
  LET upTo[i \in 0 .. k] == IF i = 0 THEN NoGrad ELSE Joined(upTo[i - 1], h[i])
  IN upTo[k]

(* What g, flowing into n, sends on through the parents of n, if sum[p][v] *)
(* is what v, flowing into p, sends to the target.                         *)
Through(ps, rg, sum, n, g) ==
  Total([i \in 1 .. Len(ps[n]) |->
           IF rg[ps[n][i]] THEN sum[ps[n][i]][Pull(n, i, g)] ELSE NoGrad],
        Len(ps[n]))

(* PathSums(ps, rg, m)[n][g]: the sum over the paths from n to m in the    *)
(* graph with parents ps, g flowing into n.                                *)
PathSums(ps, rg, m) ==
  LET sum[n \in Node] ==
        [g \in Grad |-> IF n = m THEN g ELSE Through(ps, rg, sum, n, g)]
  IN sum

PathSum(n, m, g) == PathSums(parents, requires_grad, m)[n][g]

Init ==
  /\ nodeCount = 0
  /\ parents = [n \in Node |-> <<>>]
  /\ requires_grad = [n \in Node |-> FALSE]
  /\ ledger = [n \in Node |-> NoGrad]

Grow ==
  /\ nodeCount' = nodeCount + 1
  /\ \A n \in Node \ {nodeCount'} :
       parents'[n] = parents[n] /\ requires_grad'[n] = requires_grad[n]
  /\ UNCHANGED ledger

Clear(n) ==
  /\ ledger' = [ledger EXCEPT ![n] = NoGrad]
  /\ UNCHANGED <<nodeCount, parents, requires_grad>>

Deliver(r, s) ==
  /\ requires_grad[r]
  /\ ledger' = [n \in Node |-> Joined(ledger[n], PathSum(r, n, s))]
  /\ UNCHANGED <<nodeCount, parents, requires_grad>>

Next ==
  \/ Grow
  \/ \E n \in Node : Clear(n)
  \/ \E r \in Node, s \in Seeds : Deliver(r, s)

Spec == Init /\ [][Next]_<<nodeCount, parents, requires_grad, ledger>>
=============================================================================
