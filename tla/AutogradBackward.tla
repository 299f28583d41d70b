-------------------------- MODULE AutogradBackward --------------------------
(***************************************************************************)
(* Reverse-mode propagation over the Variable graph                        *)
(* (src/src/core/variable.cpp, src/src/detail/variable_internal.h).        *)
(*                                                                         *)
(* A node is created by a constructor, by an operation (make_result) or by *)
(* make_custom_variable, and is immutable afterwards except for its stored *)
(* gradient.  Variable::backward runs on one thread, but it calls user     *)
(* code: the callback of a custom operation may create nodes, clear        *)
(* gradients, throw, or call backward on any variable, the one being       *)
(* propagated included.  The calls in progress therefore form a stack of   *)
(* frames.  User code runs when the stack is empty or when its top frame   *)
(* waits for a callback, and every tensor operation of the top frame can   *)
(* fail (allocation, device error).                                        *)
(*                                                                         *)
(* A gradient tensor is an element of Grad; Plus is tensor_add and         *)
(* Pull(n, i, g) is the i-th vector-Jacobian product of node n, whose      *)
(* saved operands are clones taken when n was created.                     *)
(***************************************************************************)
EXTENDS Naturals, Sequences

CONSTANTS
  MaxNodes,       \* bound on the nodes ever created
  MaxDepth,       \* bound on nested calls of backward
  MaxCalls,       \* bound on the calls of backward in a behaviour
  ParentLists,    \* bound on the operand lists an operation is built from
  Devices, Cpu,   \* the devices; all but Cpu are CUDA devices
  Grad,           \* gradient tensors
  NoGrad,         \* "no entry" in a gradient map, the empty stored gradient
  Seeds,          \* bound on the upstream gradients given to backward
  Plus(_, _),     \* tensor_add
  Pull(_, _, _)   \* backward_step of a node, for one parent

Node == 1 .. MaxNodes

ASSUME BoundsAssumption ==
  /\ MaxNodes \in Nat \ {0}
  /\ MaxDepth \in Nat
  /\ MaxCalls \in Nat
  /\ ParentLists \subseteq Seq(Node)

ASSUME DeviceAssumption == Cpu \in Devices

ASSUME GradAssumption ==
  /\ NoGrad \notin Grad
  /\ Seeds \subseteq Grad
  /\ \A g, h \in Grad : Plus(g, h) \in Grad
  /\ \A n \in Node, ps \in ParentLists, g \in Grad :
       \A i \in 1 .. Len(ps) : Pull(n, i, g) \in Grad

(* Builtin stands for the operations with a CUDA backward, CpuOnly for the *)
(* nine that cuda_backward_supported refuses.                              *)
Kind == {"Leaf", "Builtin", "CpuOnly", "Custom"}

VARIABLES
  nodeCount,       \* nodes 1 .. nodeCount exist, in order of creation
  kind, parents, requires_grad, device,   \* VariableNode, fixed at creation
  has_grad, grad,  \* VariableNode, the stored gradient
  depth, frame,    \* the stack of backward calls in progress
  calls            \* backward calls made so far

graph == <<nodeCount, kind, parents, requires_grad, device>>
stored == <<has_grad, grad>>
vars == <<nodeCount, kind, parents, requires_grad, device,
          has_grad, grad, depth, frame, calls>>

GradMap == [Node -> Grad \cup {NoGrad}]
EmptyMap == [n \in Node |-> NoGrad]
ParentSet(n) == {parents[n][i] : i \in 1 .. Len(parents[n])}

(* One activation of topo_visit: the node and the next parent to look at.  *)
Activation == [node : Node, next : Nat \ {0}]

Phase == {"idle", "visit", "walk", "callback", "scatter", "prepare"}

(* The local variables of one call of backward.  pos is the position of    *)
(* the reverse iterator in the order, arg the parent being accumulated.    *)
Frame == [phase     : Phase,
          root      : Node,
          seed      : Grad \cup {NoGrad},
          visited   : SUBSET Node,
          stack     : Seq(Activation),
          order     : Seq(Node),
          pos       : Nat,
          arg       : Nat,
          pending   : GradMap,
          committed : GradMap]

IdleFrame == [phase |-> "idle", root |-> 1, seed |-> NoGrad, visited |-> {},
              stack |-> <<>>, order |-> <<>>, pos |-> 0, arg |-> 0,
              pending |-> EmptyMap, committed |-> EmptyMap]

Top == frame[depth]
SetTop(f) == frame' = [frame EXCEPT ![depth] = f]
InPhase(p) == depth > 0 /\ Top.phase = p
Current == Top.order[Top.pos]

UserInControl == depth = 0 \/ InPhase("callback")

TypeOK ==
  /\ nodeCount \in 0 .. MaxNodes
  /\ kind \in [Node -> Kind]
  /\ parents \in [Node -> Seq(Node)]
  /\ requires_grad \in [Node -> BOOLEAN]
  /\ device \in [Node -> Devices]
  /\ has_grad \in [Node -> BOOLEAN]
  /\ grad \in GradMap
  /\ depth \in 0 .. MaxDepth
  /\ frame \in [1 .. MaxDepth -> Frame]
  /\ calls \in 0 .. MaxCalls

Init ==
  /\ nodeCount = 0
  /\ kind = [n \in Node |-> "Leaf"]
  /\ parents = [n \in Node |-> <<>>]
  /\ requires_grad = [n \in Node |-> FALSE]
  /\ device = [n \in Node |-> Cpu]
  /\ has_grad = [n \in Node |-> FALSE]
  /\ grad = EmptyMap
  /\ depth = 0
  /\ frame = [d \in 1 .. MaxDepth |-> IdleFrame]
  /\ calls = 0

-----------------------------------------------------------------------------
(* User code: building the graph and clearing gradients.                   *)

AddNode(k, ps, rg, d) ==
  LET n == nodeCount + 1 IN
  /\ UserInControl
  /\ nodeCount < MaxNodes
  /\ nodeCount' = n
  /\ kind' = [kind EXCEPT ![n] = k]
  /\ parents' = [parents EXCEPT ![n] = ps]
  /\ requires_grad' = [requires_grad EXCEPT ![n] = rg]
  /\ device' = [device EXCEPT ![n] = d]
  /\ UNCHANGED <<stored, depth, frame, calls>>

(* Variable(Tensor, requires_grad), and the fresh leaf that detach and a   *)
(* cross-device to() return.                                               *)
NewLeaf(rg, d) == AddNode("Leaf", <<>>, rg, d)

(* Fault: the devices are compared but the CPU-only check is missing.      *)
OperandsOnOneDevice(k, ps) ==
  /\ Len(ps) > 0
  /\ \A i \in 1 .. Len(ps) : ps[i] <= nodeCount /\ device[ps[i]] = device[ps[1]]

(* The operand checks of the operations: one device, and no CUDA operand   *)
(* for an operation without a CUDA backward.                               *)
OperandsOK(k, ps) ==
  /\ Len(ps) > 0
  /\ \A i \in 1 .. Len(ps) : ps[i] <= nodeCount /\ device[ps[i]] = device[ps[1]]
  /\ k = "CpuOnly" => device[ps[1]] = Cpu

(* make_result and make_custom_variable: parents and the backward function *)
(* are recorded only when some operand requires a gradient.                *)
NewOp(k, ps) ==
  LET rg == \E i \in 1 .. Len(ps) : requires_grad[ps[i]] IN
  /\ OperandsOK(k, ps)
  /\ AddNode(IF rg THEN k ELSE "Leaf", IF rg THEN ps ELSE <<>>, rg, device[ps[1]])

ZeroGrad(n) ==
  /\ UserInControl
  /\ n <= nodeCount
  /\ has_grad' = [has_grad EXCEPT ![n] = FALSE]
  /\ grad' = [grad EXCEPT ![n] = NoGrad]
  /\ UNCHANGED <<graph, depth, frame, calls>>

-----------------------------------------------------------------------------
(* Variable::backward(upstream).                                           *)

(* Entry: a call on a variable that requires no gradient, or with a seed   *)
(* of another shape or device, throws before anything changes and is a     *)
(* stuttering step.                                                        *)
BackwardCall(r, s) ==
  /\ UserInControl
  /\ r <= nodeCount
  /\ requires_grad[r]
  /\ depth < MaxDepth
  /\ calls < MaxCalls
  /\ depth' = depth + 1
  /\ calls' = calls + 1
  /\ frame' = [frame EXCEPT ![depth + 1] =
       [IdleFrame EXCEPT !.phase = "visit", !.root = r, !.seed = s,
                         !.visited = {r},
                         !.stack = <<[node |-> r, next |-> 1]>>]]
  /\ UNCHANGED <<graph, stored>>

Innermost == Top.stack[Len(Top.stack)]

(* Faults: a parent is queued below the nodes that wait for it; the parent *)
(* loop starts one too early; it never advances.                           *)
PushedBelow(q, x) == <<x>> \o q
PushedEarly(q, x) == Append(q, [x EXCEPT !.next = 0])
NotAdvanced == Top.stack

Pushed(q, x) == Append(q, x)
Popped(q) == SubSeq(q, 1, Len(q) - 1)
Advanced == [Top.stack EXCEPT ![Len(Top.stack)].next = @ + 1]

(* topo_visit, one iteration of the loop over the parents.                 *)
VisitParent ==
  /\ InPhase("visit")
  /\ Len(Top.stack) > 0
  /\ Innermost.next <= Len(parents[Innermost.node])
  /\ LET p == parents[Innermost.node][Innermost.next] IN
       SetTop(IF p \in Top.visited
              THEN [Top EXCEPT !.stack = Advanced]
              ELSE [Top EXCEPT !.stack = Pushed(Advanced, [node |-> p, next |-> 1]),
                               !.visited = @ \cup {p}])
  /\ UNCHANGED <<graph, stored, depth, calls>>

(* topo_visit, its end: the node follows all of its parents in the order.  *)
VisitDone ==
  /\ InPhase("visit")
  /\ Len(Top.stack) > 0
  /\ Innermost.next > Len(parents[Innermost.node])
  /\ SetTop([Top EXCEPT !.stack = Popped(Top.stack),
                        !.order = Append(@, Innermost.node)])
  /\ UNCHANGED <<graph, stored, depth, calls>>

(* The gate: a CUDA root is propagated only if every node supports it.     *)
GateOpen(f) ==
  device[f.root] # Cpu => \A j \in 1 .. Len(f.order) : kind[f.order[j]] # "CpuOnly"

Return == depth' = depth - 1 /\ SetTop(IdleFrame)

StartWalk ==
  /\ InPhase("visit")
  /\ Len(Top.stack) = 0
  /\ GateOpen(Top)
  /\ SetTop([Top EXCEPT !.phase = "walk",
                        !.pos = Len(Top.order),
                        !.pending = [EmptyMap EXCEPT ![Top.root] = Top.seed]])
  /\ UNCHANGED <<graph, stored, depth, calls>>

(* The reverse loop over the order: a node without a pending gradient and  *)
(* a leaf are passed over, a custom node hands control to its callback.    *)
Walk ==
  /\ InPhase("walk")
  /\ Top.pos > 0
  /\ \/ /\ Top.pending[Current] = NoGrad \/ kind[Current] = "Leaf"
        /\ SetTop([Top EXCEPT !.pos = @ - 1])
     \/ /\ Top.pending[Current] # NoGrad
        /\ kind[Current] \in {"Builtin", "CpuOnly"}
        /\ SetTop([Top EXCEPT !.phase = "scatter", !.arg = 1])
     \/ /\ Top.pending[Current] # NoGrad
        /\ kind[Current] = "Custom"
        /\ SetTop([Top EXCEPT !.phase = "callback"])
  /\ UNCHANGED <<graph, stored, depth, calls>>

(* The callback returns one well-formed gradient per parent.               *)
CallbackReturn ==
  /\ InPhase("callback")
  /\ SetTop([Top EXCEPT !.phase = "scatter", !.arg = 1])
  /\ UNCHANGED <<graph, stored, depth, calls>>

(* Faults: the last contribution wins; a contribution is kept for a parent *)
(* that requires no gradient.                                              *)
AccumulatedLast(pending, p, g) == [pending EXCEPT ![p] = g]
ScatterToAll ==
  /\ InPhase("scatter")
  /\ Top.arg <= Len(parents[Current])
  /\ LET p == parents[Current][Top.arg]
         g == Pull(Current, Top.arg, Top.pending[Current])
     IN SetTop([Top EXCEPT !.arg = @ + 1,
                           !.pending[p] = IF @ = NoGrad THEN g ELSE Plus(@, g)])
  /\ UNCHANGED <<graph, stored, depth, calls>>

(* accumulate: the first contribution is cloned, later ones are added.     *)
Accumulated(pending, p, g) ==
  [pending EXCEPT ![p] = IF @ = NoGrad THEN g ELSE Plus(@, g)]

Scatter ==
  /\ InPhase("scatter")
  /\ Top.arg <= Len(parents[Current])
  /\ LET p == parents[Current][Top.arg]
         g == Pull(Current, Top.arg, Top.pending[Current])
     IN SetTop([Top EXCEPT
          !.arg = @ + 1,
          !.pending = IF requires_grad[p] THEN Accumulated(@, p, g) ELSE @])
  /\ UNCHANGED <<graph, stored, depth, calls>>

ScatterDone ==
  /\ InPhase("scatter")
  /\ Top.arg > Len(parents[Current])
  /\ SetTop([Top EXCEPT !.phase = "walk", !.pos = @ - 1])
  /\ UNCHANGED <<graph, stored, depth, calls>>

WalkDone ==
  /\ InPhase("walk")
  /\ Top.pos = 0
  /\ SetTop([Top EXCEPT !.phase = "prepare"])
  /\ UNCHANGED <<graph, stored, depth, calls>>

(* The nodes whose stored gradient this call replaces, and the value it    *)
(* replaces it with.                                                       *)
Targets(f) == {n \in Node : f.pending[n] # NoGrad /\ requires_grad[n]}
Merged(n, g) == IF has_grad[n] THEN Plus(grad[n], g) ELSE g

(* Faults: results are prepared while the loop still runs; results are     *)
(* stored one by one as they are prepared.                                 *)
PrepareEagerly(n) ==
  /\ depth > 0
  /\ Top.phase \in {"walk", "scatter", "prepare"}
  /\ n \in Targets(Top)
  /\ Top.committed[n] = NoGrad
  /\ SetTop([Top EXCEPT !.committed[n] = Merged(n, Top.pending[n])])
  /\ UNCHANGED <<graph, stored, depth, calls>>
PrepareInPlace(n) ==
  /\ InPhase("prepare")
  /\ n \in Targets(Top)
  /\ Top.committed[n] = NoGrad
  /\ SetTop([Top EXCEPT !.committed[n] = Merged(n, Top.pending[n])])
  /\ grad' = [grad EXCEPT ![n] = Merged(n, Top.pending[n])]
  /\ has_grad' = [has_grad EXCEPT ![n] = TRUE]
  /\ UNCHANGED <<graph, depth, calls>>

(* One iteration of the loop over pending, whose order is a hash map's.    *)
Prepare(n) ==
  /\ InPhase("prepare")
  /\ n \in Targets(Top)
  /\ Top.committed[n] = NoGrad
  /\ SetTop([Top EXCEPT !.committed[n] = Merged(n, Top.pending[n])])
  /\ UNCHANGED <<graph, stored, depth, calls>>

AllPrepared == InPhase("prepare") /\ \A n \in Targets(Top) : Top.committed[n] # NoGrad

(* The final loop only moves tensors and cannot fail.                      *)
Commit ==
  /\ AllPrepared
  /\ grad' = [n \in Node |-> IF Top.committed[n] # NoGrad
                             THEN Top.committed[n] ELSE grad[n]]
  /\ has_grad' = [n \in Node |-> has_grad[n] \/ Top.committed[n] # NoGrad]
  /\ Return
  /\ UNCHANGED <<graph, calls>>

(* An exception leaves the top frame: the closed gate, a failed tensor     *)
(* operation, a throwing callback, or one that returns the wrong number of *)
(* gradients or one of another shape or device.  The code below it is user *)
(* code, which may catch it or let it leave its own frame too.             *)
Throw ==
  /\ depth > 0
  /\ ~ AllPrepared
  /\ Return
  /\ UNCHANGED <<graph, stored, calls>>

-----------------------------------------------------------------------------
UserStep ==
  \/ \E rg \in BOOLEAN, d \in Devices : NewLeaf(rg, d)
  \/ \E k \in Kind \ {"Leaf"}, ps \in ParentLists : NewOp(k, ps)
  \/ \E n \in Node : ZeroGrad(n)
  \/ \E r \in Node, s \in Seeds : BackwardCall(r, s)
  \/ CallbackReturn

EngineStep ==
  \/ VisitParent
  \/ VisitDone
  \/ StartWalk
  \/ Walk
  \/ Scatter
  \/ ScatterDone
  \/ WalkDone
  \/ \E n \in Node : Prepare(n)
  \/ Commit

Next == UserStep \/ EngineStep \/ Throw

Spec == Init /\ [][Next]_vars

(* The thread that runs backward keeps running while it is in the engine;  *)
(* nothing is assumed of user code.                                        *)
FairSpec == Spec /\ WF_vars(EngineStep)

-----------------------------------------------------------------------------
(* Properties.                                                             *)

(* A node's pending gradient is handed to its backward function only when  *)
(* every visited node that feeds it has already scattered into it: no      *)
(* contribution can arrive after the gradient was read.  This is what the  *)
(* post-order of topo_visit and the reverse iteration are for.             *)
ReadsFinalGradient ==
  \A d \in 1 .. depth :
    LET f == frame[d] IN
    f.phase \in {"walk", "callback", "scatter"} /\ f.pos > 0 =>
      \A c \in f.visited :
        f.order[f.pos] \in ParentSet(c) =>
          \E k \in f.pos + 1 .. Len(f.order) : f.order[k] = c

(* When the loop over the order has ended, the call holds a gradient for   *)
(* exactly the visited nodes that require one: none was passed over        *)
(* because its gradient came too late, and no frozen node collected one.   *)
CoversTrainable ==
  \A d \in 1 .. depth :
    LET f == frame[d] IN
    f.phase = "prepare" =>
      \A n \in Node : f.pending[n] # NoGrad <=> n \in f.visited /\ requires_grad[n]

(* A prepared gradient is the stored gradient of this moment plus the      *)
(* call's own contribution.  Nested calls and zero_grad change stored      *)
(* gradients while the outer call is in progress; the outer call must not  *)
(* commit a sum that was built on the older value.                         *)
PreparedOnCurrent ==
  \A d \in 1 .. depth :
    LET f == frame[d] IN
    \A n \in Node :
      f.committed[n] # NoGrad => f.committed[n] = Merged(n, f.pending[n])

(* Stored gradients change in two ways only: zero_grad empties one node,   *)
(* or a call that has prepared all of its results replaces all of them and *)
(* returns.  A call that fails, wherever it fails, leaves every stored     *)
(* gradient as it was ("restores gradients if propagation fails").         *)
AllOrNothingStep ==
  \/ UNCHANGED stored
  \/ \E n \in Node :
       /\ ~ has_grad'[n]
       /\ \A m \in Node \ {n} : has_grad'[m] = has_grad[m] /\ grad'[m] = grad[m]
  \/ /\ depth > 0
     /\ depth' = depth - 1
     /\ \A n \in Node :
          IF n \in Top.visited /\ requires_grad[n]
          THEN has_grad'[n] /\ grad'[n] = Merged(n, Top.pending[n])
          ELSE has_grad'[n] = has_grad[n] /\ grad'[n] = grad[n]

AllOrNothing == [][AllOrNothingStep]_vars

(* The CUDA gate never closes on a graph the operations can build: their   *)
(* operand checks already keep every operation without a CUDA backward off *)
(* CUDA graphs, at any distance from the root.                             *)
GateNeverCloses ==
  \A d \in 1 .. depth :
    frame[d].phase = "visit" /\ Len(frame[d].stack) = 0 => GateOpen(frame[d])

(* Gradients add in any order and grouping, and every vector-Jacobian      *)
(* product is linear: what makes the engine's order of propagation equal   *)
(* to a sum over paths.  Floating-point tensors satisfy it up to rounding. *)
Linear ==
  /\ \A g, h \in Grad : Plus(g, h) = Plus(h, g)
  /\ \A g, h, l \in Grad : Plus(Plus(g, h), l) = Plus(g, Plus(h, l))
  /\ \A n \in Node, ps \in ParentLists :
       \A i \in 1 .. Len(ps) : \A g, h \in Grad :
         Pull(n, i, Plus(g, h)) = Plus(Pull(n, i, g), Pull(n, i, h))

(* The detailed engine implements GradientLedger: every call of backward   *)
(* takes effect as one delivery of path sums at its commit, or not at all, *)
(* and nested calls take effect one after the other.                       *)
Ledger == INSTANCE GradientLedger
            WITH ledger <- [n \in Node |-> IF has_grad[n] THEN grad[n] ELSE NoGrad]

RefinesLedger == Ledger!Spec

(* The engine always gives control back to user code: by returning, by     *)
(* throwing or by entering a callback.                                     *)
EngineYields == ~ UserInControl ~> UserInControl
=============================================================================
