----------------------- MODULE AutogradBackward_proofs -----------------------
(***************************************************************************)
(* Proofs about AutogradBackward for every bound, every set of gradients   *)
(* and every Plus and Pull that stay in it.                                *)
(***************************************************************************)
EXTENDS AutogradBackward, TLAPS, SequenceTheorems, WellFoundedInduction

-----------------------------------------------------------------------------
(* Type correctness.                                                       *)

LEMMA TopFrame ==
  ASSUME TypeOK, depth > 0
  PROVE  /\ depth \in 1 .. MaxDepth
         /\ Top \in Frame
         /\ Top.visited \subseteq Node
         /\ Top.stack \in Seq(Activation)
         /\ Top.order \in Seq(Node)
         /\ Top.pos \in Nat /\ Top.arg \in Nat
         /\ Top.pending \in GradMap /\ Top.committed \in GradMap
         /\ Top.root \in Node
         /\ Top.seed \in Grad \cup {NoGrad}
  BY BoundsAssumption, SMTT(20) DEF TypeOK, Top, Frame

LEMMA SetTopType ==
  ASSUME TypeOK, depth > 0, NEW f \in Frame, SetTop(f)
  PROVE  frame' \in [1 .. MaxDepth -> Frame]
  BY TopFrame DEF TypeOK, SetTop

LEMMA EmptyMapType == EmptyMap \in GradMap
  BY DEF EmptyMap, GradMap

LEMMA IdleFrameType == IdleFrame \in Frame
<1>1. 1 \in Node
  BY BoundsAssumption DEF Node
<1>2. <<>> \in Seq(Activation) /\ <<>> \in Seq(Node)
  OBVIOUS
<1>. QED
  BY <1>1, <1>2, EmptyMapType DEF IdleFrame, Frame, Phase

(* The innermost activation of the search, and the stack with its index    *)
(* advanced or with it removed.                                            *)
LEMMA StackShape ==
  ASSUME TypeOK, depth > 0, Len(Top.stack) > 0
  PROVE  /\ Len(Top.stack) \in Nat \ {0}
         /\ Innermost \in Activation
         /\ Innermost.node \in Node /\ Innermost.next \in Nat \ {0}
         /\ Advanced \in Seq(Activation)
         /\ Len(Advanced) = Len(Top.stack)
         /\ \A a \in 1 .. Len(Top.stack) :
              /\ Advanced[a].node = Top.stack[a].node
              /\ a < Len(Top.stack) => Advanced[a].next = Top.stack[a].next
         /\ Advanced[Len(Top.stack)].next = Innermost.next + 1
         /\ Popped(Top.stack) \in Seq(Activation)
         /\ Len(Popped(Top.stack)) = Len(Top.stack) - 1
         /\ \A a \in 1 .. Len(Top.stack) - 1 : Popped(Top.stack)[a] = Top.stack[a]
<1>. DEFINE q == Top.stack
<1>1. q \in Seq(Activation) /\ Len(q) \in Nat \ {0}
  BY TopFrame, LenProperties
<1>2. \A a \in 1 .. Len(q) : q[a] \in Activation
  BY <1>1, ElementOfSeq
<1>3. Innermost \in Activation
  BY <1>1, <1>2 DEF Innermost
<1>4. Innermost.node \in Node /\ Innermost.next \in Nat \ {0}
  BY <1>3 DEF Activation
<1>. DEFINE e == [q[Len(q)] EXCEPT !.next = @ + 1]
<1>5. e \in Activation /\ e.node = q[Len(q)].node /\ e.next = Innermost.next + 1
  BY <1>3, <1>4 DEF Activation, Innermost
<1>6. Advanced = [q EXCEPT ![Len(q)] = e]
  BY DEF Advanced
<1>7. /\ Advanced \in Seq(Activation)
      /\ Len(Advanced) = Len(q)
      /\ \A a \in 1 .. Len(q) : Advanced[a] = IF a = Len(q) THEN e ELSE q[a]
  <2>1. Len(q) \in 1 .. Len(q)
    BY <1>1
  <2>. HIDE DEF e, q
  <2>. QED  BY <1>1, <1>5, <1>6, <2>1, ExceptSeq
<1>8. /\ Popped(q) \in Seq(Activation)
      /\ Len(Popped(q)) = Len(q) - 1
      /\ \A a \in 1 .. Len(q) - 1 : Popped(q)[a] = q[a]
  <2>. HIDE DEF q
  <2>1. 1 \in Int /\ Len(q) - 1 \in Int
    BY <1>1
  <2>2. \A a \in 1 .. Len(q) - 1 : q[a] \in Activation
    BY <1>1, <1>2
  <2>3. /\ SubSeq(q, 1, Len(q) - 1) \in Seq(Activation)
        /\ Len(SubSeq(q, 1, Len(q) - 1)) =
             IF 1 <= Len(q) - 1 THEN Len(q) - 1 - 1 + 1 ELSE 0
        /\ \A a \in 1 .. Len(q) - 1 - 1 + 1 :
             SubSeq(q, 1, Len(q) - 1)[a] = q[1 + a - 1]
    BY <2>1, <2>2, SubSeqProperties
  <2>4. \A a \in Nat : 1 + a - 1 = a
    OBVIOUS
  <2>5. Len(q) - 1 - 1 + 1 = Len(q) - 1
    BY <1>1
  <2>. QED  BY <1>1, <2>3, <2>4, <2>5 DEF Popped
<1>9. \A a \in 1 .. Len(q) :
        /\ Advanced[a].node = q[a].node
        /\ a < Len(q) => Advanced[a].next = q[a].next
  <2>. HIDE DEF e, q
  <2>. QED  BY <1>1, <1>5, <1>7
<1>10. Advanced[Len(q)].next = Innermost.next + 1
  <2>. HIDE DEF e, q
  <2>. QED  BY <1>1, <1>5, <1>7
<1>. QED
  <2>. HIDE DEF e
  <2>. QED  BY <1>1, <1>3, <1>4, <1>7, <1>8, <1>9, <1>10

(* The graph: operands are older than the operation, on its device, and    *)
(* recorded exactly by the nodes that are not leaves.                      *)
NodeInv(n) ==
  /\ parents[n] \in ParentLists \cup {<<>>}
  /\ \A i \in 1 .. Len(parents[n]) :
       parents[n][i] < n /\ device[parents[n][i]] = device[n]
  /\ n > nodeCount => parents[n] = <<>>
  /\ kind[n] = "Leaf" <=> parents[n] = <<>>
  /\ kind[n] # "Leaf" => requires_grad[n]
  /\ kind[n] = "CpuOnly" => device[n] = Cpu
  /\ has_grad[n] <=> grad[n] # NoGrad

(* The visited nodes: the root and nodes that feed another visited node,   *)
(* all on the root's device.                                               *)
Reached(f) ==
  /\ f.root \in f.visited
  /\ requires_grad[f.root]
  /\ f.seed \in Grad
  /\ \A v \in f.visited : v <= nodeCount /\ device[v] = device[f.root]
  /\ \A v \in f.visited : v # f.root => \E c \in f.visited : v \in ParentSet(c)

(* A visited node is finished (in the order, once) or open (on the stack). *)
Partition(f) ==
  /\ \A v \in f.visited : \/ \E j \in 1 .. Len(f.order) : f.order[j] = v
                          \/ \E a \in 1 .. Len(f.stack) : f.stack[a].node = v
  /\ \A j \in 1 .. Len(f.order) : f.order[j] \in f.visited
  /\ \A a \in 1 .. Len(f.stack) : f.stack[a].node \in f.visited
  /\ \A j \in 1 .. Len(f.order), a \in 1 .. Len(f.stack) : f.order[j] # f.stack[a].node
  /\ \A j, k \in 1 .. Len(f.order) : j # k => f.order[j] # f.order[k]

(* An open node is older than the one that opened it, so no parent of the  *)
(* innermost one is open; the parents an activation has passed are visited. *)
OpenNodes(f) ==
  /\ \A a, b \in 1 .. Len(f.stack) : a < b => f.stack[b].node < f.stack[a].node
  /\ \A a \in 1 .. Len(f.stack) :
       \A i \in 1 .. Len(parents[f.stack[a].node]) :
         i < f.stack[a].next => parents[f.stack[a].node][i] \in f.visited

(* A finished node comes after its parents.                                *)
ParentsFirst(f) ==
  \A j \in 1 .. Len(f.order) :
    \A i \in 1 .. Len(parents[f.order[j]]) :
      \E k \in 1 .. Len(f.order) : k < j /\ f.order[k] = parents[f.order[j]][i]

RootLast(f) ==
  /\ Len(f.stack) > 0 => f.stack[1].node = f.root
  /\ Len(f.stack) = 0 => Len(f.order) > 0 /\ f.order[Len(f.order)] = f.root

SearchInv(f) ==
  Reached(f) /\ Partition(f) /\ OpenNodes(f) /\ ParentsFirst(f) /\ RootLast(f)

(* The reverse loop: the trainable parents of every node already passed    *)
(* hold a gradient, and only trainable visited nodes hold one.             *)
WalkInv(f) ==
  /\ f.phase = "visit" => f.pending = EmptyMap
  /\ f.phase \in {"walk", "callback", "scatter", "prepare"} =>
       /\ Len(f.stack) = 0
       /\ f.pos <= Len(f.order)
       /\ f.pending[f.root] # NoGrad
       /\ \A n \in Node : f.pending[n] # NoGrad => n \in f.visited /\ requires_grad[n]
       /\ \A j \in 1 .. Len(f.order) :
            j > f.pos =>
              \A i \in 1 .. Len(parents[f.order[j]]) :
                requires_grad[parents[f.order[j]][i]] =>
                  f.pending[parents[f.order[j]][i]] # NoGrad
  /\ f.phase \in {"callback", "scatter"} =>
       /\ f.pos > 0
       /\ f.pending[f.order[f.pos]] # NoGrad
  /\ f.phase = "scatter" =>
       /\ f.arg > 0
       /\ \A i \in 1 .. Len(parents[f.order[f.pos]]) :
            i < f.arg /\ requires_grad[parents[f.order[f.pos]][i]] =>
              f.pending[parents[f.order[f.pos]][i]] # NoGrad
  /\ f.phase = "prepare" => f.pos = 0

CommitInv(f) ==
  /\ f.phase # "prepare" => f.committed = EmptyMap
  /\ \A n \in Node :
       f.committed[n] # NoGrad =>
         /\ f.pending[n] # NoGrad
         /\ f.committed[n] = Merged(n, f.pending[n])

(* Calls below the top of the stack wait in a callback.                    *)
StackInv ==
  /\ \A d \in 1 .. depth : frame[d].phase # "idle"
  /\ \A d \in 1 .. depth : d < depth => frame[d].phase = "callback"

IInv ==
  /\ TypeOK
  /\ StackInv
  /\ \A n \in Node : NodeInv(n)
  /\ \A d \in 1 .. depth :
       SearchInv(frame[d]) /\ WalkInv(frame[d]) /\ CommitInv(frame[d])

-----------------------------------------------------------------------------
(* Steps of the engine: they replace the top frame and nothing else.       *)

FrameInv(f) == SearchInv(f) /\ WalkInv(f) /\ CommitInv(f)

LEMMA TopInv ==
  ASSUME IInv, depth > 0
  PROVE  /\ TypeOK
         /\ depth \in 1 .. MaxDepth
         /\ FrameInv(Top) /\ Top.phase # "idle"
  BY TopFrame DEF IInv, StackInv, FrameInv, Top

(* What a search has established depends on the graph only.                *)
LEMMA SearchStable ==
  ASSUME UNCHANGED graph, NEW f, SearchInv(f)
  PROVE  SearchInv(f)'
<1>1. Reached(f)'
  BY DEF SearchInv, Reached, ParentSet, graph
<1>2. Partition(f)' /\ RootLast(f)'
  BY DEF SearchInv, Partition, RootLast
<1>3. OpenNodes(f)'
  BY DEF SearchInv, OpenNodes, graph
<1>4. ParentsFirst(f)'
  BY DEF SearchInv, ParentsFirst, graph
<1>. QED
  BY <1>1, <1>2, <1>3, <1>4 DEF SearchInv

LEMMA FrameInvStable ==
  ASSUME UNCHANGED <<graph, stored>>, NEW f, FrameInv(f)
  PROVE  FrameInv(f)'
<1>0. UNCHANGED graph
  BY DEF graph
<1>1. SearchInv(f)'
  BY <1>0, SearchStable DEF FrameInv
<1>2. WalkInv(f)'
  BY DEF FrameInv, WalkInv, graph
<1>3. CommitInv(f)'
  BY DEF FrameInv, CommitInv, Merged, stored
<1>. QED
  BY <1>1, <1>2, <1>3 DEF FrameInv

LEMMA EngineFrame ==
  ASSUME IInv, depth > 0, UNCHANGED <<graph, stored, depth, calls>>,
         NEW f \in Frame, SetTop(f), FrameInv(f),
         f.phase # "idle"
  PROVE  IInv'
<1>1. TypeOK /\ depth \in 1 .. MaxDepth
  BY TopFrame DEF IInv
<1>2. frame' \in [1 .. MaxDepth -> Frame]
  BY <1>1, SetTopType
<1>3. TypeOK'
  BY <1>1, <1>2 DEF TypeOK, graph, stored
<1>4. frame'[depth] = f /\ \A d \in 1 .. depth : d # depth => frame'[d] = frame[d]
  BY <1>1 DEF SetTop, TypeOK
<1>5. StackInv'
  BY <1>1, <1>4 DEF StackInv, IInv
<1>6. \A n \in Node : NodeInv(n)'
  BY DEF IInv, NodeInv, graph, stored
<1>7. ASSUME NEW d \in 1 .. depth
      PROVE  FrameInv(frame[d])'
  <2>1. FrameInv(frame'[d])
    BY <1>4 DEF IInv, FrameInv
  <2>. QED
    BY <2>1, FrameInvStable
<1>. QED
  BY <1>3, <1>5, <1>6, <1>7 DEF IInv, FrameInv, graph

(* The first parent the innermost activation has not passed.               *)
LEMMA VisitedParent ==
  ASSUME IInv, InPhase("visit"), Len(Top.stack) > 0,
         Innermost.next <= Len(parents[Innermost.node])
  PROVE  LET n == Innermost.node
             p == parents[n][Innermost.next]
         IN  /\ n \in Top.visited
             /\ p \in Node /\ p < n /\ p <= nodeCount
             /\ p \in ParentSet(n)
             /\ device[p] = device[Top.root]
<1>. DEFINE n == Innermost.node
            p == parents[n][Innermost.next]
<1>1. TypeOK /\ depth > 0 /\ Reached(Top) /\ Partition(Top)
  BY TopInv DEF InPhase, FrameInv, SearchInv
<1>2. n \in Node /\ Innermost.next \in Nat \ {0} /\ Len(Top.stack) \in 1 .. Len(Top.stack)
  BY <1>1, StackShape
<1>3. n \in Top.visited
  BY <1>1, <1>2 DEF Partition, Innermost
<1>4. n <= nodeCount /\ device[n] = device[Top.root]
  BY <1>1, <1>3 DEF Reached
<1>5. parents[n] \in Seq(Node) /\ Innermost.next \in 1 .. Len(parents[n])
  BY <1>1, <1>2, LenProperties DEF TypeOK
<1>6. p \in Node
  BY <1>5, ElementOfSeq
<1>7. p < n /\ device[p] = device[n]
  BY <1>2, <1>5 DEF IInv, NodeInv
<1>8. p \in ParentSet(n)
  BY <1>5 DEF ParentSet
<1>9. p <= nodeCount
  BY <1>1, <1>2, <1>4, <1>6, <1>7 DEF Node, TypeOK
<1>. QED
  BY <1>3, <1>4, <1>6, <1>7, <1>8, <1>9

LEMMA VisitParentStep ==
  ASSUME IInv, VisitParent
  PROVE  IInv'
<1>. DEFINE m == Len(Top.stack)
            n == Innermost.node
            p == parents[n][Innermost.next]
<1>1. /\ depth > 0 /\ InPhase("visit") /\ Top.phase = "visit" /\ m > 0
      /\ Innermost.next <= Len(parents[n])
      /\ UNCHANGED <<graph, stored, depth, calls>>
  BY DEF VisitParent, InPhase
<1>2. TypeOK /\ FrameInv(Top)
  BY <1>1, TopInv
<1>3. /\ n \in Top.visited
      /\ p \in Node /\ p < n /\ p <= nodeCount
      /\ p \in ParentSet(n)
      /\ device[p] = device[Top.root]
  BY <1>1, VisitedParent
<1>4. /\ m \in Nat \ {0}
      /\ n \in Node /\ Innermost.next \in Nat \ {0}
      /\ Advanced \in Seq(Activation)
      /\ Len(Advanced) = m
      /\ \A a \in 1 .. m : /\ Advanced[a].node = Top.stack[a].node
                           /\ a < m => Advanced[a].next = Top.stack[a].next
      /\ Advanced[m].next = Innermost.next + 1
      /\ Innermost = Top.stack[m]
  BY <1>1, <1>2, StackShape DEF Innermost
<1>5. \A a \in 1 .. m : Top.stack[a] \in Activation
  BY <1>1, <1>2, TopFrame, ElementOfSeq
<1>6. Top.stack[m].node = n /\ Top.stack[m].next = Innermost.next
  BY <1>4
<1>7. /\ SetTop(IF p \in Top.visited
                THEN [Top EXCEPT !.stack = Advanced]
                ELSE [Top EXCEPT !.stack = Pushed(Advanced, [node |-> p, next |-> 1]),
                                 !.visited = @ \cup {p}])
  BY DEF VisitParent
<1>8. \A i \in 1 .. Len(parents[n]) : i = Innermost.next => parents[n][i] = p
  OBVIOUS
<1>. HIDE DEF m, n, p
<1>9. \A a \in 1 .. m : \A i \in 1 .. Len(parents[Advanced[a].node]) :
         i < Advanced[a].next =>
           parents[Advanced[a].node][i] \in Top.visited \cup {p}
  <2>. SUFFICES ASSUME NEW a \in 1 .. m,
                       NEW i \in 1 .. Len(parents[Top.stack[a].node]),
                       i < Advanced[a].next
                PROVE  parents[Top.stack[a].node][i] \in Top.visited \cup {p}
    BY <1>4
  <2>1. Len(Top.stack) = m
    BY DEF m
  <2>2. CASE i < Top.stack[a].next
    BY <1>2, <2>1, <2>2 DEF FrameInv, SearchInv, OpenNodes
  <2>3. CASE ~ (i < Top.stack[a].next)
    <3>1. Top.stack[a].next \in Nat
      BY <1>5 DEF Activation
    <3>2. a = m /\ i = Innermost.next
      BY <2>3, <3>1, <1>4, <1>6
    <3>. QED  BY <3>2, <1>6, <1>8
  <2>. QED  BY <2>2, <2>3
<1>10. CASE p \in Top.visited
  <2>. DEFINE f == [Top EXCEPT !.stack = Advanced]
  <2>1. /\ f \in Frame
        /\ f.phase = Top.phase /\ f.root = Top.root /\ f.seed = Top.seed
        /\ f.visited = Top.visited /\ f.stack = Advanced /\ f.order = Top.order
        /\ f.pos = Top.pos /\ f.arg = Top.arg
        /\ f.pending = Top.pending /\ f.committed = Top.committed
    BY <1>1, <1>2, <1>4, TopFrame DEF Frame
  <2>2. SetTop(f)
    BY <1>7, <1>10
  <2>. HIDE DEF f
  <2>3. Len(Top.stack) = m
    BY DEF m
  <2>4. Reached(f) /\ ParentsFirst(f)
    BY <1>2, <2>1 DEF FrameInv, SearchInv, Reached, ParentsFirst
  <2>5. Partition(f) /\ RootLast(f)
    <3>1. Len(f.stack) = m /\ \A a \in 1 .. m : f.stack[a].node = Top.stack[a].node
      BY <1>4, <2>1
    <3>2. Partition(f)
      BY <1>2, <2>1, <2>3, <3>1 DEF FrameInv, SearchInv, Partition
    <3>3. 1 \in 1 .. m
      BY <1>4
    <3>4. RootLast(f)
      BY <1>2, <1>4, <2>1, <2>3, <3>1, <3>3 DEF FrameInv, SearchInv, RootLast
    <3>. QED  BY <3>2, <3>4
  <2>6. OpenNodes(f)
    BY <1>2, <1>4, <1>9, <1>10, <2>1, <2>3, SMTT(20) DEF FrameInv, SearchInv, OpenNodes
  <2>7. WalkInv(f) /\ CommitInv(f)
    BY <1>1, <1>2, <2>1 DEF FrameInv, WalkInv, CommitInv
  <2>. QED
    BY <1>1, <2>1, <2>2, <2>4, <2>5, <2>6, <2>7, EngineFrame DEF FrameInv, SearchInv
<1>11. CASE p \notin Top.visited
  <2>. DEFINE x == [node |-> p, next |-> 1]
              q == Append(Advanced, x)
              f == [Top EXCEPT !.stack = q, !.visited = @ \cup {p}]
  <2>1. x \in Activation
    BY <1>3 DEF Activation
  <2>2. /\ q \in Seq(Activation) /\ Len(q) = m + 1
        /\ \A a \in 1 .. m : q[a] = Advanced[a]
        /\ q[m + 1] = x
    BY <1>4, <2>1, AppendProperties
  <2>3. x.node = p /\ x.next = 1
    OBVIOUS
  <2>4. SetTop(f)
    BY <1>7, <1>11 DEF Pushed
  <2>. HIDE DEF x, q
  <2>5. /\ f \in Frame
        /\ f.phase = Top.phase /\ f.root = Top.root /\ f.seed = Top.seed
        /\ f.visited = Top.visited \cup {p} /\ f.stack = q /\ f.order = Top.order
        /\ f.pos = Top.pos /\ f.arg = Top.arg
        /\ f.pending = Top.pending /\ f.committed = Top.committed
    BY <1>1, <1>2, <1>3, <2>2, TopFrame DEF Frame
  <2>. HIDE DEF f
  <2>6. \A a \in 1 .. m + 1 : \/ a \in 1 .. m /\ q[a].node = Top.stack[a].node
                              \/ a = m + 1 /\ q[a].node = p
    BY <1>4, <2>2, <2>3
  <2>7. Len(Top.stack) = m
    BY DEF m
  <2>8. \A a \in 1 .. m : p < Top.stack[a].node
    <3>. SUFFICES ASSUME NEW a \in 1 .. m PROVE p < Top.stack[a].node
      OBVIOUS
    <3>1. a = m \/ n < Top.stack[a].node
      BY <1>2, <1>4, <1>6, <2>7 DEF FrameInv, SearchInv, OpenNodes
    <3>2. Top.stack[a].node \in Node
      BY <1>5 DEF Activation
    <3>. QED  BY <1>3, <1>4, <1>6, <3>1, <3>2 DEF Node
  <2>9. Reached(f)
    BY <1>2, <1>3, <2>5 DEF FrameInv, SearchInv, Reached
  <2>10. Partition(f)
    <3>1. m + 1 \in 1 .. Len(f.stack) /\ f.stack[m + 1].node = p
      BY <1>4, <2>2, <2>3, <2>5
    <3>2. \A a \in 1 .. m : a \in 1 .. Len(f.stack) /\ f.stack[a].node = Top.stack[a].node
      BY <1>4, <2>2, <2>5
    <3>3. \A v \in f.visited : \/ \E j \in 1 .. Len(f.order) : f.order[j] = v
                               \/ \E a \in 1 .. Len(f.stack) : f.stack[a].node = v
      BY <1>2, <2>5, <2>7, <3>1, <3>2 DEF FrameInv, SearchInv, Partition
    <3>4. /\ \A j \in 1 .. Len(f.order) : f.order[j] \in f.visited
          /\ \A a \in 1 .. Len(f.stack) : f.stack[a].node \in f.visited
      BY <1>2, <2>2, <2>5, <2>6, <2>7 DEF FrameInv, SearchInv, Partition
    <3>5. \A j \in 1 .. Len(f.order), a \in 1 .. Len(f.stack) : f.order[j] # f.stack[a].node
      BY <1>2, <1>11, <2>2, <2>5, <2>6, <2>7 DEF FrameInv, SearchInv, Partition
    <3>. QED
      BY <1>2, <2>5, <3>3, <3>4, <3>5 DEF FrameInv, SearchInv, Partition
  <2>11. OpenNodes(f)
    <3>1. \A a, b \in 1 .. Len(f.stack) : a < b => f.stack[b].node < f.stack[a].node
      BY <1>2, <1>4, <2>2, <2>5, <2>6, <2>7, <2>8 DEF FrameInv, SearchInv, OpenNodes
    <3>2. \A a \in 1 .. Len(f.stack) :
            \A i \in 1 .. Len(parents[f.stack[a].node]) :
              i < f.stack[a].next => parents[f.stack[a].node][i] \in f.visited
      <4>. SUFFICES ASSUME NEW a \in 1 .. m + 1,
                           NEW i \in 1 .. Len(parents[q[a].node]), i < q[a].next
                    PROVE  parents[q[a].node][i] \in Top.visited \cup {p}
        BY <2>2, <2>5
      <4>1. a \in 1 .. m
        BY <1>4, <2>2, <2>3
      <4>. QED  BY <4>1, <1>9, <2>2
    <3>. QED  BY <3>1, <3>2 DEF OpenNodes
  <2>12. ParentsFirst(f)
    BY <1>2, <2>5 DEF FrameInv, SearchInv, ParentsFirst
  <2>13. RootLast(f)
    BY <1>2, <1>4, <2>2, <2>5, <2>7 DEF FrameInv, SearchInv, RootLast
  <2>14. WalkInv(f) /\ CommitInv(f)
    BY <1>1, <1>2, <2>5 DEF FrameInv, WalkInv, CommitInv
  <2>. QED
    BY <1>1, <2>4, <2>5, <2>9, <2>10, <2>11, <2>12, <2>13, <2>14, EngineFrame
       DEF FrameInv, SearchInv
<1>. QED
  BY <1>10, <1>11

LEMMA VisitDoneStep ==
  ASSUME IInv, VisitDone
  PROVE  IInv'
<1>. DEFINE m == Len(Top.stack)
            w == Len(Top.order)
            n == Innermost.node
            q == Popped(Top.stack)
            o == Append(Top.order, n)
            f == [Top EXCEPT !.stack = q, !.order = o]
<1>1. /\ depth > 0 /\ InPhase("visit") /\ Top.phase = "visit" /\ m > 0
      /\ Innermost.next > Len(parents[n])
      /\ SetTop(f)
      /\ UNCHANGED <<graph, stored, depth, calls>>
  BY DEF VisitDone, InPhase
<1>2. TypeOK /\ FrameInv(Top)
  BY <1>1, TopInv
<1>3. /\ m \in Nat \ {0} /\ w \in Nat
      /\ n \in Node /\ Innermost.next \in Nat \ {0}
      /\ q \in Seq(Activation) /\ Len(q) = m - 1
      /\ \A a \in 1 .. m - 1 : q[a] = Top.stack[a]
      /\ Innermost = Top.stack[m]
  BY <1>1, <1>2, TopFrame, StackShape, LenProperties DEF Innermost
<1>4. Top.stack[m].node = n /\ Top.stack[m].next > Len(parents[n])
  BY <1>1, <1>3
<1>5. /\ o \in Seq(Node) /\ Len(o) = w + 1
      /\ \A j \in 1 .. w : o[j] = Top.order[j]
      /\ o[w + 1] = n
  BY <1>1, <1>2, <1>3, TopFrame, AppendProperties
<1>6. \A a \in 1 .. m : Top.stack[a].node \in Node /\ Top.stack[a].next \in Nat
  <2>1. \A a \in 1 .. m : Top.stack[a] \in Activation
    BY <1>1, <1>2, TopFrame, ElementOfSeq
  <2>. QED  BY <2>1 DEF Activation
<1>7. /\ f \in Frame
      /\ f.phase = Top.phase /\ f.root = Top.root /\ f.seed = Top.seed
      /\ f.visited = Top.visited /\ f.stack = q /\ f.order = o
      /\ f.pos = Top.pos /\ f.arg = Top.arg
      /\ f.pending = Top.pending /\ f.committed = Top.committed
  <2>. HIDE DEF q, o
  <2>. QED  BY <1>1, <1>2, <1>3, <1>5, TopFrame DEF Frame
<1>8. Len(Top.stack) = m /\ Len(Top.order) = w
  OBVIOUS
<1>9. parents[n] \in Seq(Node) /\ Len(parents[n]) \in Nat
  BY <1>2, <1>3, LenProperties DEF TypeOK
<1>10. \A i \in 1 .. Len(parents[n]) : parents[n][i] < n /\ parents[n][i] \in Node
  BY <1>3, <1>9, ElementOfSeq DEF IInv, NodeInv
<1>. HIDE DEF m, w, n, q, o, f
<1>11. \A a \in 1 .. m - 1 : a \in 1 .. m /\ q[a] = Top.stack[a] /\ n < Top.stack[a].node
  BY <1>2, <1>3, <1>4, <1>8 DEF FrameInv, SearchInv, OpenNodes
<1>12. \A j \in 1 .. w : o[j] = Top.order[j] /\ o[j] # n
  BY <1>2, <1>3, <1>4, <1>5, <1>8 DEF FrameInv, SearchInv, Partition
<1>13. n \in Top.visited
  BY <1>2, <1>3, <1>4, <1>8 DEF FrameInv, SearchInv, Partition
<1>14. Reached(f)
  BY <1>2, <1>7 DEF FrameInv, SearchInv, Reached
<1>15. Partition(f)
  <2>1. \A v \in f.visited : \/ \E j \in 1 .. Len(f.order) : f.order[j] = v
                             \/ \E a \in 1 .. Len(f.stack) : f.stack[a].node = v
    <3>. SUFFICES ASSUME NEW v \in Top.visited
                  PROVE  \/ \E j \in 1 .. w + 1 : o[j] = v
                         \/ \E a \in 1 .. m - 1 : q[a].node = v
      BY <1>3, <1>5, <1>7
    <3>1. CASE \E j \in 1 .. w : Top.order[j] = v
      <4>1. PICK j \in 1 .. w : Top.order[j] = v
        BY <3>1
      <4>2. j \in 1 .. w + 1 /\ o[j] = v
        BY <1>3, <1>5, <4>1
      <4>. QED  BY <4>2
    <3>2. CASE \E a \in 1 .. m : Top.stack[a].node = v
      <4>1. PICK a \in 1 .. m : Top.stack[a].node = v
        BY <3>2
      <4>2. CASE a = m
        <5>1. w + 1 \in 1 .. w + 1 /\ o[w + 1] = v
          BY <1>3, <1>4, <1>5, <4>1, <4>2
        <5>. QED  BY <5>1
      <4>3. CASE a # m
        <5>1. a \in 1 .. m - 1 /\ q[a].node = v
          BY <1>3, <4>1, <4>3
        <5>. QED  BY <5>1
      <4>. QED  BY <4>2, <4>3
    <3>. QED
      BY <1>2, <1>8, <3>1, <3>2 DEF FrameInv, SearchInv, Partition
  <2>2. \A j \in 1 .. Len(f.order) : f.order[j] \in f.visited
    BY <1>2, <1>3, <1>5, <1>7, <1>8, <1>13 DEF FrameInv, SearchInv, Partition
  <2>3. \A a \in 1 .. Len(f.stack) : f.stack[a].node \in f.visited
    BY <1>2, <1>3, <1>7, <1>8, <1>11 DEF FrameInv, SearchInv, Partition
  <2>4. \A j \in 1 .. Len(f.order), a \in 1 .. Len(f.stack) : f.order[j] # f.stack[a].node
    <3>. SUFFICES ASSUME NEW j \in 1 .. w + 1, NEW a \in 1 .. m - 1
                  PROVE  o[j] # q[a].node
      BY <1>3, <1>5, <1>7
    <3>1. CASE j = w + 1
      BY <1>3, <1>5, <1>6, <1>11, <3>1, SMTT(20) DEF Node
    <3>2. CASE j \in 1 .. w
      BY <1>2, <1>8, <1>11, <1>12, <3>2 DEF FrameInv, SearchInv, Partition
    <3>. QED  BY <1>3, <3>1, <3>2
  <2>5. \A j, k \in 1 .. Len(f.order) : j # k => f.order[j] # f.order[k]
    <3>. SUFFICES ASSUME NEW j \in 1 .. w + 1, NEW k \in 1 .. w + 1, j # k
                  PROVE  o[j] # o[k]
      BY <1>5, <1>7
    <3>1. CASE j \in 1 .. w /\ k \in 1 .. w
      BY <1>2, <1>8, <1>12, <3>1 DEF FrameInv, SearchInv, Partition
    <3>2. CASE j = w + 1 /\ k \in 1 .. w
      BY <1>5, <1>12, <3>2
    <3>3. CASE j \in 1 .. w /\ k = w + 1
      BY <1>5, <1>12, <3>3
    <3>. QED  BY <1>3, <3>1, <3>2, <3>3
  <2>. QED  BY <2>1, <2>2, <2>3, <2>4, <2>5 DEF Partition
<1>16. OpenNodes(f)
  <2>1. Len(f.stack) = m - 1 /\ f.stack = q /\ f.visited = Top.visited
    BY <1>3, <1>7
  <2>2. OpenNodes(Top)
    BY <1>2 DEF FrameInv, SearchInv
  <2>3. ASSUME NEW a \in 1 .. m - 1, NEW b \in 1 .. m - 1, a < b
        PROVE  q[b].node < q[a].node
    BY <1>8, <1>11, <2>2, <2>3 DEF OpenNodes
  <2>4. ASSUME NEW a \in 1 .. m - 1, NEW i \in 1 .. Len(parents[q[a].node]),
               i < q[a].next
        PROVE  parents[q[a].node][i] \in Top.visited
    BY <1>8, <1>11, <2>2, <2>4 DEF OpenNodes
  <2>. QED  BY <2>1, <2>3, <2>4 DEF OpenNodes
<1>17. ParentsFirst(f)
  <2>. SUFFICES ASSUME NEW j \in 1 .. w + 1, NEW i \in 1 .. Len(parents[o[j]])
                PROVE  \E k \in 1 .. w + 1 : k < j /\ o[k] = parents[o[j]][i]
    BY <1>5, <1>7 DEF ParentsFirst
  <2>1. CASE j \in 1 .. w
    <3>1. PICK k \in 1 .. w : k < j /\ Top.order[k] = parents[Top.order[j]][i]
      BY <1>2, <1>8, <1>12, <2>1 DEF FrameInv, SearchInv, ParentsFirst
    <3>2. k \in 1 .. w + 1 /\ o[k] = parents[o[j]][i]
      BY <1>3, <1>5, <2>1, <3>1
    <3>. QED  BY <3>1, <3>2
  <2>2. CASE j = w + 1
    <3>. DEFINE p == parents[n][i]
    <3>1. i \in 1 .. Len(parents[n]) /\ parents[o[j]][i] = p
      BY <1>5, <2>2
    <3>2. p \in Top.visited
      <4>1. m \in 1 .. m /\ i < Top.stack[m].next
        BY <1>3, <1>4, <1>6, <1>9, <3>1
      <4>. QED
        BY <1>2, <1>4, <1>8, <3>1, <4>1 DEF FrameInv, SearchInv, OpenNodes
    <3>3. \A a \in 1 .. m : Top.stack[a].node # p
      <4>. SUFFICES ASSUME NEW a \in 1 .. m PROVE Top.stack[a].node # p
        OBVIOUS
      <4>1. p < n /\ p \in Node
        BY <1>10, <3>1
      <4>2. a = m \/ n < Top.stack[a].node
        BY <1>3, <1>11
      <4>. QED  BY <1>3, <1>4, <1>6, <4>1, <4>2 DEF Node
    <3>. HIDE DEF p
    <3>4. PICK k \in 1 .. w : Top.order[k] = p
      BY <1>2, <1>8, <3>2, <3>3 DEF FrameInv, SearchInv, Partition
    <3>5. k \in 1 .. w + 1 /\ k < j /\ o[k] = p
      BY <1>3, <1>5, <2>2, <3>4
    <3>. QED  BY <3>1, <3>5
  <2>. QED  BY <1>3, <2>1, <2>2
<1>18. RootLast(f)
  <2>1. CASE m = 1
    <3>1. n = Top.root
      BY <1>2, <1>4, <1>8, <2>1 DEF FrameInv, SearchInv, RootLast
    <3>2. Len(q) = 0 /\ Len(o) > 0 /\ o[Len(o)] = n
      BY <1>3, <1>5, <2>1
    <3>. QED  BY <1>7, <3>1, <3>2 DEF RootLast
  <2>2. CASE m # 1
    <3>1. 1 \in 1 .. m - 1 /\ Len(q) > 0
      BY <1>3, <2>2
    <3>2. q[1].node = Top.root
      BY <1>2, <1>3, <1>8, <3>1 DEF FrameInv, SearchInv, RootLast
    <3>. QED  BY <1>7, <3>1, <3>2 DEF RootLast
  <2>. QED  BY <2>1, <2>2
<1>19. WalkInv(f) /\ CommitInv(f)
  BY <1>1, <1>2, <1>7 DEF FrameInv, WalkInv, CommitInv
<1>. QED
  BY <1>1, <1>7, <1>14, <1>15, <1>16, <1>17, <1>18, <1>19, EngineFrame
     DEF FrameInv, SearchInv

(* What a finished search gives: every consumer of a visited node comes    *)
(* after it, so the reverse loop meets the consumers first.                *)
LEMMA ConsumersLater ==
  ASSUME NEW f \in Frame, SearchInv(f), Len(f.stack) = 0,
         NEW j \in 1 .. Len(f.order), NEW c \in f.visited,
         f.order[j] \in ParentSet(c)
  PROVE  \E k \in 1 .. Len(f.order) : j < k /\ f.order[k] = c
<1>1. \A a \in 1 .. Len(f.stack) : FALSE
  OBVIOUS
<1>2. PICK k \in 1 .. Len(f.order) : f.order[k] = c
  BY <1>1 DEF SearchInv, Partition
<1>3. PICK i \in 1 .. Len(parents[c]) : parents[c][i] = f.order[j]
  BY DEF ParentSet
<1>4. PICK l \in 1 .. Len(f.order) : l < k /\ f.order[l] = parents[c][i]
  BY <1>2 DEF SearchInv, ParentsFirst
<1>5. l = j
  BY <1>3, <1>4 DEF SearchInv, Partition
<1>. QED
  BY <1>2, <1>4, <1>5

Loop == {"walk", "callback", "scatter", "prepare"}

(* No trainable visited node is met by the reverse loop without a gradient. *)
LEMMA HoldsGradient ==
  ASSUME NEW f \in Frame, FrameInv(f), f.phase \in Loop,
         NEW j \in 1 .. Len(f.order), j >= f.pos, requires_grad[f.order[j]]
  PROVE  f.pending[f.order[j]] # NoGrad
<1>1. /\ SearchInv(f) /\ Len(f.stack) = 0
      /\ f.pending[f.root] # NoGrad
      /\ f.pos \in Nat
  BY DEF FrameInv, WalkInv, Loop, Frame
<1>2. CASE f.order[j] = f.root
  BY <1>1, <1>2
<1>3. CASE f.order[j] # f.root
  <2>1. f.order[j] \in f.visited
    BY <1>1 DEF SearchInv, Partition
  <2>2. PICK c \in f.visited : f.order[j] \in ParentSet(c)
    BY <1>1, <1>3, <2>1 DEF SearchInv, Reached
  <2>3. PICK k \in 1 .. Len(f.order) : j < k /\ f.order[k] = c
    BY <1>1, <2>2, ConsumersLater
  <2>4. PICK i \in 1 .. Len(parents[c]) : parents[c][i] = f.order[j]
    BY <2>2 DEF ParentSet
  <2>5. k > f.pos
    BY <1>1, <2>3
  <2>. QED
    BY <2>3, <2>4, <2>5 DEF FrameInv, WalkInv, Loop
<1>. QED
  BY <1>2, <1>3

(* A step of the loop leaves the result of the search alone.               *)
LEMMA LoopFrame ==
  ASSUME IInv, depth > 0, UNCHANGED <<graph, stored, depth, calls>>,
         NEW f \in Frame, SetTop(f), f.phase # "idle",
         f.root = Top.root, f.seed = Top.seed, f.visited = Top.visited,
         f.stack = Top.stack, f.order = Top.order,
         WalkInv(f), CommitInv(f)
  PROVE  IInv'
<1>1. SearchInv(Top)
  BY TopInv DEF FrameInv
<1>2. SearchInv(f)
  BY <1>1 DEF SearchInv, Reached, Partition, OpenNodes, ParentsFirst, RootLast
<1>. QED
  BY <1>2, EngineFrame DEF FrameInv

(* The node the loop is at.                                                *)
LEMMA CurrentNode ==
  ASSUME IInv, depth > 0, Top.phase \in Loop, Top.pos > 0
  PROVE  /\ Top.pos \in 1 .. Len(Top.order)
         /\ Current \in Node /\ Current \in Top.visited
         /\ parents[Current] \in Seq(Node)
         /\ Len(parents[Current]) \in Nat
         /\ \A i \in 1 .. Len(parents[Current]) :
              /\ parents[Current][i] \in Node
              /\ parents[Current][i] \in Top.visited
         /\ Top.pending[Current] = NoGrad => parents[Current] = <<>>
<1>1. TypeOK /\ Top \in Frame /\ FrameInv(Top) /\ Top.order \in Seq(Node) /\ Top.pos \in Nat
  BY TopInv, TopFrame
<1>2. SearchInv(Top) /\ Len(Top.stack) = 0 /\ Top.pos <= Len(Top.order)
  BY <1>1 DEF FrameInv, WalkInv, Loop
<1>3. Top.pos \in 1 .. Len(Top.order)
  BY <1>1, <1>2, LenProperties
<1>4. Current \in Node /\ Current \in Top.visited
  BY <1>1, <1>2, <1>3, ElementOfSeq DEF Current, SearchInv, Partition
<1>5. parents[Current] \in Seq(Node) /\ Len(parents[Current]) \in Nat
  BY <1>1, <1>4, LenProperties DEF TypeOK
<1>6. ASSUME NEW i \in 1 .. Len(parents[Current])
      PROVE  parents[Current][i] \in Node /\ parents[Current][i] \in Top.visited
  <2>1. PICK k \in 1 .. Len(Top.order) : Top.order[k] = parents[Current][i]
    BY <1>2, <1>3 DEF SearchInv, ParentsFirst, Current
  <2>. QED
    BY <1>2, <1>5, <2>1, ElementOfSeq DEF SearchInv, Partition
<1>7. Top.pending[Current] = NoGrad => ~ requires_grad[Current]
  BY <1>1, <1>3, HoldsGradient DEF Current
<1>8. ~ requires_grad[Current] => parents[Current] = <<>>
  BY <1>4 DEF IInv, NodeInv
<1>. QED
  BY <1>3, <1>4, <1>5, <1>6, <1>7, <1>8

LEMMA StartWalkStep ==
  ASSUME IInv, StartWalk
  PROVE  IInv'
<1>. DEFINE g == [EmptyMap EXCEPT ![Top.root] = Top.seed]
            f == [Top EXCEPT !.phase = "walk", !.pos = Len(Top.order), !.pending = g]
<1>1. /\ depth > 0 /\ Top.phase = "visit" /\ Len(Top.stack) = 0 /\ SetTop(f)
      /\ UNCHANGED <<graph, stored, depth, calls>>
  BY DEF StartWalk, InPhase
<1>2. TypeOK /\ FrameInv(Top) /\ Top \in Frame
  BY <1>1, TopInv, TopFrame
<1>3. /\ Top.root \in Node /\ Top.seed \in Grad
      /\ Top.root \in Top.visited /\ requires_grad[Top.root]
  BY <1>1, <1>2, TopFrame DEF FrameInv, SearchInv, Reached
<1>4. Len(Top.order) \in Nat
  BY <1>1, <1>2, TopFrame, LenProperties
<1>5. /\ g \in GradMap
      /\ g[Top.root] # NoGrad
      /\ \A n \in Node : g[n] # NoGrad => n = Top.root
  BY <1>3, GradAssumption DEF EmptyMap, GradMap
<1>. HIDE DEF g
<1>6. /\ f \in Frame
      /\ f.phase = "walk" /\ f.root = Top.root /\ f.seed = Top.seed
      /\ f.visited = Top.visited /\ f.stack = Top.stack /\ f.order = Top.order
      /\ f.pos = Len(Top.order) /\ f.pending = g /\ f.committed = Top.committed
  BY <1>2, <1>4, <1>5 DEF Frame, Phase
<1>. HIDE DEF f
<1>7. WalkInv(f)
  BY <1>1, <1>3, <1>4, <1>5, <1>6 DEF WalkInv
<1>8. CommitInv(f)
  BY <1>1, <1>2, <1>6 DEF FrameInv, CommitInv, EmptyMap
<1>. QED
  BY <1>1, <1>6, <1>7, <1>8, LoopFrame

LEMMA WalkStep ==
  ASSUME IInv, Walk
  PROVE  IInv'
<1>1. /\ depth > 0 /\ Top.phase = "walk" /\ Top.pos > 0
      /\ UNCHANGED <<graph, stored, depth, calls>>
  BY DEF Walk, InPhase
<1>2. TypeOK /\ FrameInv(Top) /\ Top \in Frame /\ Top.pos \in Nat
  BY <1>1, TopInv, TopFrame
<1>3. /\ Top.pos \in 1 .. Len(Top.order)
      /\ Current \in Node
      /\ Top.pending[Current] = NoGrad => parents[Current] = <<>>
  BY <1>1, CurrentNode DEF Loop
<1>4. CASE /\ Top.pending[Current] = NoGrad \/ kind[Current] = "Leaf"
           /\ SetTop([Top EXCEPT !.pos = @ - 1])
  <2>. DEFINE f == [Top EXCEPT !.pos = @ - 1]
  <2>1. /\ f \in Frame
        /\ f.phase = "walk" /\ f.root = Top.root /\ f.seed = Top.seed
        /\ f.visited = Top.visited /\ f.stack = Top.stack /\ f.order = Top.order
        /\ f.pos = Top.pos - 1 /\ f.pending = Top.pending /\ f.committed = Top.committed
    BY <1>1, <1>2, <1>3 DEF Frame
  <2>2. SetTop(f)
    BY <1>4
  <2>. HIDE DEF f
  <2>3. parents[Current] = <<>>
    BY <1>3, <1>4 DEF IInv, NodeInv
  <2>4. \A i \in 1 .. Len(parents[Current]) : FALSE
    BY <2>3
  <2>5. WalkInv(f)
    <3>1. /\ Len(Top.stack) = 0 /\ Top.pos <= Len(Top.order) /\ Top.pending[Top.root] # NoGrad
          /\ \A n \in Node : Top.pending[n] # NoGrad => n \in Top.visited /\ requires_grad[n]
      BY <1>1, <1>2 DEF FrameInv, WalkInv
    <3>2. ASSUME NEW j \in 1 .. Len(Top.order), j > Top.pos - 1,
                 NEW i \in 1 .. Len(parents[Top.order[j]]),
                 requires_grad[parents[Top.order[j]][i]]
          PROVE  Top.pending[parents[Top.order[j]][i]] # NoGrad
      <4>1. j # Top.pos
        BY <2>4, <3>2 DEF Current
      <4>2. j > Top.pos
        BY <1>2, <3>2, <4>1
      <4>. QED  BY <1>1, <1>2, <3>2, <4>2 DEF FrameInv, WalkInv
    <3>. QED  BY <1>2, <1>3, <2>1, <3>1, <3>2 DEF WalkInv
  <2>6. CommitInv(f)
    BY <1>1, <1>2, <2>1 DEF FrameInv, CommitInv
  <2>. QED
    BY <1>1, <2>1, <2>2, <2>5, <2>6, LoopFrame
<1>5. CASE /\ Top.pending[Current] # NoGrad
           /\ SetTop([Top EXCEPT !.phase = "scatter", !.arg = 1])
  <2>. DEFINE f == [Top EXCEPT !.phase = "scatter", !.arg = 1]
  <2>1. /\ f \in Frame
        /\ f.phase = "scatter" /\ f.root = Top.root /\ f.seed = Top.seed
        /\ f.visited = Top.visited /\ f.stack = Top.stack /\ f.order = Top.order
        /\ f.pos = Top.pos /\ f.arg = 1
        /\ f.pending = Top.pending /\ f.committed = Top.committed
    BY <1>2 DEF Frame, Phase
  <2>2. SetTop(f)
    BY <1>5
  <2>. HIDE DEF f
  <2>3. WalkInv(f)
    BY <1>1, <1>2, <1>5, <2>1 DEF FrameInv, WalkInv, Current
  <2>4. CommitInv(f)
    BY <1>1, <1>2, <2>1 DEF FrameInv, CommitInv
  <2>. QED
    BY <1>1, <2>1, <2>2, <2>3, <2>4, LoopFrame
<1>6. CASE /\ Top.pending[Current] # NoGrad
           /\ SetTop([Top EXCEPT !.phase = "callback"])
  <2>. DEFINE f == [Top EXCEPT !.phase = "callback"]
  <2>1. /\ f \in Frame
        /\ f.phase = "callback" /\ f.root = Top.root /\ f.seed = Top.seed
        /\ f.visited = Top.visited /\ f.stack = Top.stack /\ f.order = Top.order
        /\ f.pos = Top.pos
        /\ f.pending = Top.pending /\ f.committed = Top.committed
    BY <1>2 DEF Frame, Phase
  <2>2. SetTop(f)
    BY <1>6
  <2>. HIDE DEF f
  <2>3. WalkInv(f)
    BY <1>1, <1>2, <1>6, <2>1 DEF FrameInv, WalkInv, Current
  <2>4. CommitInv(f)
    BY <1>1, <1>2, <2>1 DEF FrameInv, CommitInv
  <2>. QED
    BY <1>1, <2>1, <2>2, <2>3, <2>4, LoopFrame
<1>. QED
  BY <1>4, <1>5, <1>6 DEF Walk

LEMMA CallbackReturnStep ==
  ASSUME IInv, CallbackReturn
  PROVE  IInv'
<1>. DEFINE f == [Top EXCEPT !.phase = "scatter", !.arg = 1]
<1>1. /\ depth > 0 /\ Top.phase = "callback" /\ SetTop(f)
      /\ UNCHANGED <<graph, stored, depth, calls>>
  BY DEF CallbackReturn, InPhase
<1>2. TypeOK /\ FrameInv(Top) /\ Top \in Frame
  BY <1>1, TopInv, TopFrame
<1>3. /\ f \in Frame
      /\ f.phase = "scatter" /\ f.root = Top.root /\ f.seed = Top.seed
      /\ f.visited = Top.visited /\ f.stack = Top.stack /\ f.order = Top.order
      /\ f.pos = Top.pos /\ f.arg = 1
      /\ f.pending = Top.pending /\ f.committed = Top.committed
  BY <1>2 DEF Frame, Phase
<1>. HIDE DEF f
<1>4. WalkInv(f)
  BY <1>1, <1>2, <1>3 DEF FrameInv, WalkInv
<1>5. CommitInv(f)
  BY <1>1, <1>2, <1>3 DEF FrameInv, CommitInv
<1>. QED
  BY <1>1, <1>3, <1>4, <1>5, LoopFrame

(* Accumulation only adds an entry, for the parent it is given.            *)
LEMMA AccumulatedEntries ==
  ASSUME NEW m \in GradMap, NEW p \in Node, NEW g \in Grad
  PROVE  /\ Accumulated(m, p, g) \in GradMap
         /\ Accumulated(m, p, g)[p] # NoGrad
         /\ \A n \in Node : n # p => Accumulated(m, p, g)[n] = m[n]
<1>1. m[p] \in Grad \cup {NoGrad}
  BY DEF GradMap
<1>2. (IF m[p] = NoGrad THEN g ELSE Plus(m[p], g)) \in Grad
  BY <1>1, GradAssumption
<1>. DEFINE h == IF m[p] = NoGrad THEN g ELSE Plus(m[p], g)
<1>3. Accumulated(m, p, g) = [m EXCEPT ![p] = h]
  BY DEF Accumulated
<1>4. h # NoGrad
  BY <1>2, GradAssumption
<1>. HIDE DEF h
<1>5. h \in Grad
  BY <1>2 DEF h
<1>. QED
  BY <1>3, <1>4, <1>5 DEF GradMap

LEMMA ScatterStep ==
  ASSUME IInv, Scatter
  PROVE  IInv'
<1>. DEFINE i0 == Top.arg
            p == parents[Current][i0]
            g == Pull(Current, i0, Top.pending[Current])
            m == IF requires_grad[p] THEN Accumulated(Top.pending, p, g) ELSE Top.pending
            f == [Top EXCEPT !.arg = @ + 1, !.pending = m]
<1>1. /\ depth > 0 /\ Top.phase = "scatter" /\ i0 <= Len(parents[Current])
      /\ UNCHANGED <<graph, stored, depth, calls>>
  BY DEF Scatter, InPhase
<1>2. SetTop(f)
  BY DEF Scatter
<1>3. TypeOK /\ FrameInv(Top) /\ Top \in Frame /\ i0 \in Nat /\ Top.pending \in GradMap
  BY <1>1, TopInv, TopFrame
<1>4. /\ Top.pos > 0 /\ i0 > 0
      /\ Top.pending[Current] # NoGrad
      /\ Len(Top.stack) = 0 /\ Top.pos <= Len(Top.order) /\ Top.pending[Top.root] # NoGrad
      /\ \A n \in Node : Top.pending[n] # NoGrad => n \in Top.visited /\ requires_grad[n]
  BY <1>1, <1>3 DEF FrameInv, WalkInv, Current
<1>5. /\ Top.pos \in 1 .. Len(Top.order)
      /\ Current \in Node
      /\ parents[Current] \in Seq(Node) /\ Len(parents[Current]) \in Nat
      /\ \A i \in 1 .. Len(parents[Current]) :
           /\ parents[Current][i] \in Node
           /\ parents[Current][i] \in Top.visited
  BY <1>1, <1>4, CurrentNode DEF Loop
<1>6. i0 \in 1 .. Len(parents[Current])
  BY <1>1, <1>3, <1>4, <1>5
<1>7. p \in Node /\ p \in Top.visited
  BY <1>5, <1>6
<1>8. g \in Grad
  <2>1. parents[Current] \in ParentLists
    BY <1>5, <1>6 DEF IInv, NodeInv
  <2>2. Top.pending[Current] \in Grad
    BY <1>3, <1>4, <1>5 DEF GradMap
  <2>. QED  BY <1>5, <1>6, <2>1, <2>2, GradAssumption
<1>. HIDE DEF i0, p, g
<1>9. /\ m \in GradMap
      /\ \A n \in Node : n # p => m[n] = Top.pending[n]
      /\ requires_grad[p] => m[p] # NoGrad
      /\ ~ requires_grad[p] => m = Top.pending
  BY <1>3, <1>7, <1>8, AccumulatedEntries
<1>. HIDE DEF m
<1>10. \A n \in Node : Top.pending[n] # NoGrad => m[n] # NoGrad
  BY <1>7, <1>9
<1>11. \A n \in Node : m[n] # NoGrad => n \in Top.visited /\ requires_grad[n]
  BY <1>4, <1>7, <1>9
<1>12. /\ f \in Frame
      /\ f.phase = "scatter" /\ f.root = Top.root /\ f.seed = Top.seed
      /\ f.visited = Top.visited /\ f.stack = Top.stack /\ f.order = Top.order
      /\ f.pos = Top.pos /\ f.arg = i0 + 1
      /\ f.pending = m /\ f.committed = Top.committed
  <2>1. i0 + 1 \in Nat /\ f = [Top EXCEPT !.arg = i0 + 1, !.pending = m]
    BY <1>3 DEF i0
  <2>. HIDE DEF f
  <2>. QED  BY <1>1, <1>3, <1>9, <2>1 DEF Frame
<1>. HIDE DEF f
<1>13. WalkInv(f)
  <2>1. ASSUME NEW j \in 1 .. Len(Top.order), j > Top.pos,
               NEW i \in 1 .. Len(parents[Top.order[j]]),
               requires_grad[parents[Top.order[j]][i]]
        PROVE  m[parents[Top.order[j]][i]] # NoGrad
    <3>1. Top.pending[parents[Top.order[j]][i]] # NoGrad
      BY <1>1, <1>3, <2>1 DEF FrameInv, WalkInv
    <3>2. parents[Top.order[j]][i] \in Node
      <4>1. Top.order[j] \in Node
        BY <1>1, <1>3, TopFrame, ElementOfSeq
      <4>2. parents[Top.order[j]] \in Seq(Node)
        BY <1>3, <4>1 DEF TypeOK
      <4>. QED  BY <4>2, ElementOfSeq
    <3>. QED  BY <1>10, <3>1, <3>2
  <2>2. ASSUME NEW i \in 1 .. Len(parents[Current]), i < i0 + 1,
               requires_grad[parents[Current][i]]
        PROVE  m[parents[Current][i]] # NoGrad
    <3>1. CASE i = i0
      BY <1>9, <2>2, <3>1 DEF p
    <3>2. CASE i # i0
      <4>1. i < i0
        BY <1>3, <2>2, <3>2
      <4>2. Top.pending[parents[Current][i]] # NoGrad
        BY <1>1, <1>3, <2>2, <4>1 DEF FrameInv, WalkInv, Current, i0
      <4>. QED  BY <1>5, <1>10, <4>2
    <3>. QED  BY <3>1, <3>2
  <2>3. m[Top.root] # NoGrad /\ m[Current] # NoGrad
    BY <1>1, <1>3, <1>4, <1>5, <1>10, TopFrame
  <2>. QED
    BY <1>3, <1>4, <1>11, <1>12, <2>1, <2>2, <2>3 DEF WalkInv, Current
<1>14. CommitInv(f)
  BY <1>1, <1>3, <1>12 DEF FrameInv, CommitInv, EmptyMap
<1>. QED
  BY <1>1, <1>2, <1>12, <1>13, <1>14, LoopFrame

LEMMA ScatterDoneStep ==
  ASSUME IInv, ScatterDone
  PROVE  IInv'
<1>. DEFINE f == [Top EXCEPT !.phase = "walk", !.pos = @ - 1]
<1>1. /\ depth > 0 /\ Top.phase = "scatter" /\ Top.arg > Len(parents[Current])
      /\ SetTop(f)
      /\ UNCHANGED <<graph, stored, depth, calls>>
  BY DEF ScatterDone, InPhase
<1>2. /\ TypeOK /\ FrameInv(Top) /\ Top \in Frame
      /\ Top.pos \in Nat /\ Top.arg \in Nat
  BY <1>1, TopInv, TopFrame
<1>3. /\ Top.pos > 0
      /\ Len(Top.stack) = 0 /\ Top.pos <= Len(Top.order) /\ Top.pending[Top.root] # NoGrad
      /\ \A n \in Node : Top.pending[n] # NoGrad => n \in Top.visited /\ requires_grad[n]
  BY <1>1, <1>2 DEF FrameInv, WalkInv
<1>4. Top.pos \in 1 .. Len(Top.order) /\ Len(parents[Current]) \in Nat
  BY <1>1, <1>3, CurrentNode DEF Loop
<1>5. /\ f \in Frame
      /\ f.phase = "walk" /\ f.root = Top.root /\ f.seed = Top.seed
      /\ f.visited = Top.visited /\ f.stack = Top.stack /\ f.order = Top.order
      /\ f.pos = Top.pos - 1
      /\ f.pending = Top.pending /\ f.committed = Top.committed
  <2>1. Top.pos - 1 \in Nat
    BY <1>2, <1>3
  <2>. QED  BY <1>2, <2>1 DEF Frame, Phase
<1>. HIDE DEF f
<1>6. ASSUME NEW j \in 1 .. Len(Top.order), j > Top.pos - 1,
             NEW i \in 1 .. Len(parents[Top.order[j]]),
             requires_grad[parents[Top.order[j]][i]]
      PROVE  Top.pending[parents[Top.order[j]][i]] # NoGrad
  <2>1. CASE j = Top.pos
    <3>1. i \in 1 .. Len(parents[Current])
      BY <2>1 DEF Current
    <3>2. i < Top.arg /\ i \in 1 .. Len(parents[Top.order[Top.pos]])
      BY <1>1, <1>2, <1>4, <3>1 DEF Current
    <3>3. requires_grad[parents[Top.order[Top.pos]][i]]
      BY <1>6, <2>1
    <3>4. Top.pending[parents[Top.order[Top.pos]][i]] # NoGrad
      BY <1>1, <1>2, <3>2, <3>3 DEF FrameInv, WalkInv
    <3>. QED  BY <2>1, <3>4
  <2>2. CASE j # Top.pos
    <3>1. j > Top.pos
      BY <1>2, <1>6, <2>2
    <3>. QED  BY <1>1, <1>2, <1>6, <3>1 DEF FrameInv, WalkInv
  <2>. QED  BY <2>1, <2>2
<1>7. WalkInv(f)
  BY <1>2, <1>3, <1>4, <1>5, <1>6 DEF WalkInv
<1>8. CommitInv(f)
  BY <1>1, <1>2, <1>5 DEF FrameInv, CommitInv
<1>. QED
  BY <1>1, <1>5, <1>7, <1>8, LoopFrame

LEMMA WalkDoneStep ==
  ASSUME IInv, WalkDone
  PROVE  IInv'
<1>. DEFINE f == [Top EXCEPT !.phase = "prepare"]
<1>1. /\ depth > 0 /\ Top.phase = "walk" /\ Top.pos = 0 /\ SetTop(f)
      /\ UNCHANGED <<graph, stored, depth, calls>>
  BY DEF WalkDone, InPhase
<1>2. TypeOK /\ FrameInv(Top) /\ Top \in Frame
  BY <1>1, TopInv, TopFrame
<1>3. /\ f \in Frame
      /\ f.phase = "prepare" /\ f.root = Top.root /\ f.seed = Top.seed
      /\ f.visited = Top.visited /\ f.stack = Top.stack /\ f.order = Top.order
      /\ f.pos = Top.pos
      /\ f.pending = Top.pending /\ f.committed = Top.committed
  BY <1>2 DEF Frame, Phase
<1>. HIDE DEF f
<1>4. WalkInv(f)
  BY <1>1, <1>2, <1>3 DEF FrameInv, WalkInv
<1>5. CommitInv(f)
  BY <1>1, <1>2, <1>3 DEF FrameInv, CommitInv, EmptyMap
<1>. QED
  BY <1>1, <1>3, <1>4, <1>5, LoopFrame

LEMMA MergedType ==
  ASSUME IInv, NEW n \in Node, NEW g \in Grad
  PROVE  Merged(n, g) \in Grad
<1>1. has_grad[n] => grad[n] \in Grad
  BY DEF IInv, TypeOK, NodeInv, GradMap
<1>. QED
  BY <1>1, GradAssumption DEF Merged

LEMMA PrepareStep ==
  ASSUME IInv, NEW n \in Node, Prepare(n)
  PROVE  IInv'
<1>. DEFINE g == Merged(n, Top.pending[n])
            f == [Top EXCEPT !.committed[n] = g]
<1>1. /\ depth > 0 /\ Top.phase = "prepare" /\ SetTop(f)
      /\ Top.pending[n] # NoGrad
      /\ UNCHANGED <<graph, stored, depth, calls>>
  BY DEF Prepare, InPhase, Targets
<1>2. TypeOK /\ FrameInv(Top) /\ Top \in Frame
  BY <1>1, TopInv, TopFrame
<1>3. Top.pending \in GradMap /\ Top.committed \in GradMap
  BY <1>1, <1>2, TopFrame
<1>4. g \in Grad
  BY <1>1, <1>3, MergedType DEF GradMap
<1>5. f = [Top EXCEPT !.committed = [Top.committed EXCEPT ![n] = g]]
  OBVIOUS
<1>. HIDE DEF g
<1>6. [Top.committed EXCEPT ![n] = g] \in GradMap
  BY <1>3, <1>4 DEF GradMap
<1>. DEFINE c == [Top.committed EXCEPT ![n] = g]
<1>7. /\ f \in Frame
      /\ f.phase = "prepare" /\ f.root = Top.root /\ f.seed = Top.seed
      /\ f.visited = Top.visited /\ f.stack = Top.stack /\ f.order = Top.order
      /\ f.pos = Top.pos /\ f.arg = Top.arg
      /\ f.pending = Top.pending /\ f.committed = c
  BY <1>1, <1>2, <1>5, <1>6 DEF Frame
<1>8. \A k \in Node : c[k] = IF k = n THEN g ELSE Top.committed[k]
  BY <1>3 DEF GradMap
<1>. HIDE DEF f, c
<1>9. WalkInv(f)
  BY <1>1, <1>2, <1>7 DEF FrameInv, WalkInv
<1>10. CommitInv(f)
  BY <1>1, <1>2, <1>7, <1>8 DEF FrameInv, CommitInv, g
<1>. QED
  BY <1>1, <1>7, <1>9, <1>10, LoopFrame

-----------------------------------------------------------------------------
(* Steps that push or pop a frame, or that change the graph or the stored  *)
(* gradients while every call in progress waits in a callback.             *)

LEMMA WaitingStable ==
  ASSUME UNCHANGED graph, NEW f, FrameInv(f), f.phase = "callback"
  PROVE  FrameInv(f)'
<1>1. SearchInv(f)'
  BY SearchStable DEF FrameInv
<1>2. WalkInv(f)'
  BY DEF FrameInv, WalkInv, graph
<1>3. CommitInv(f)'
  BY DEF FrameInv, CommitInv, EmptyMap
<1>. QED
  BY <1>1, <1>2, <1>3 DEF FrameInv

(* Stored gradients stay well formed.                                      *)
StoredInv ==
  /\ has_grad \in [Node -> BOOLEAN]
  /\ grad \in GradMap
  /\ \A n \in Node : has_grad[n] <=> grad[n] # NoGrad

LEMMA StoredNow ==
  ASSUME IInv
  PROVE  StoredInv
BY DEF IInv, TypeOK, NodeInv, StoredInv

LEMMA NodesStable ==
  ASSUME IInv, UNCHANGED graph, StoredInv'
  PROVE  \A n \in Node : NodeInv(n)'
BY DEF IInv, NodeInv, StoredInv, graph

LEMMA PopStep ==
  ASSUME IInv, depth > 0, Return, UNCHANGED <<graph, calls>>, StoredInv'
  PROVE  IInv'
<1>1. TypeOK /\ depth \in 1 .. MaxDepth /\ depth' = depth - 1 /\ SetTop(IdleFrame)
  BY TopInv DEF Return
<1>2. frame' \in [1 .. MaxDepth -> Frame]
  BY <1>1, SetTopType, IdleFrameType
<1>3. depth' \in 0 .. MaxDepth
  BY <1>1, BoundsAssumption
<1>4. TypeOK'
  BY <1>1, <1>2, <1>3 DEF TypeOK, StoredInv, graph
<1>5. \A d \in 1 .. depth' : d \in 1 .. depth /\ d < depth /\ frame'[d] = frame[d]
  BY <1>1 DEF SetTop, TypeOK
<1>6. StackInv'
  BY <1>1, <1>5 DEF IInv, StackInv
<1>7. ASSUME NEW d \in 1 .. depth'
      PROVE  FrameInv(frame[d])'
  <2>1. FrameInv(frame'[d]) /\ frame'[d].phase = "callback"
    BY <1>5 DEF IInv, StackInv, FrameInv
  <2>. QED
    BY <2>1, WaitingStable DEF graph
<1>. QED
  BY <1>4, <1>6, <1>7, NodesStable DEF IInv, FrameInv

LEMMA ThrowStep ==
  ASSUME IInv, Throw
  PROVE  IInv'
<1>1. depth > 0 /\ Return /\ UNCHANGED <<graph, stored, calls>>
  BY DEF Throw
<1>2. StoredInv'
  BY <1>1, StoredNow DEF StoredInv, stored
<1>. QED
  BY <1>1, <1>2, PopStep

LEMMA CommitStep ==
  ASSUME IInv, Commit
  PROVE  IInv'
<1>1. depth > 0 /\ Return /\ UNCHANGED <<graph, calls>>
  BY DEF Commit, AllPrepared, InPhase
<1>2. TypeOK /\ Top.committed \in GradMap /\ StoredInv
  BY <1>1, TopInv, TopFrame, StoredNow
<1>3. StoredInv'
  BY <1>2 DEF Commit, StoredInv, GradMap
<1>. QED
  BY <1>1, <1>3, PopStep

LEMMA UserWaits ==
  ASSUME IInv, UserInControl
  PROVE  /\ TypeOK
         /\ \A d \in 1 .. depth : FrameInv(frame[d]) /\ frame[d].phase = "callback"
BY DEF IInv, TypeOK, StackInv, FrameInv, UserInControl, InPhase, Top

LEMMA ZeroGradStep ==
  ASSUME IInv, NEW n \in Node, ZeroGrad(n)
  PROVE  IInv'
<1>1. UserInControl /\ UNCHANGED <<graph, depth, frame, calls>>
  BY DEF ZeroGrad
<1>2. /\ TypeOK
      /\ \A d \in 1 .. depth : FrameInv(frame[d]) /\ frame[d].phase = "callback"
  BY <1>1, UserWaits
<1>3. StoredInv'
  BY StoredNow DEF ZeroGrad, StoredInv, GradMap
<1>4. TypeOK'
  BY <1>1, <1>2, <1>3 DEF TypeOK, StoredInv, graph
<1>5. StackInv'
  BY <1>1 DEF IInv, StackInv
<1>6. ASSUME NEW d \in 1 .. depth'
      PROVE  FrameInv(frame[d])'
  <2>1. FrameInv(frame'[d]) /\ frame'[d].phase = "callback"
    BY <1>1, <1>2
  <2>. QED
    BY <1>1, <2>1, WaitingStable DEF graph
<1>. QED
  BY <1>1, <1>3, <1>4, <1>5, <1>6, NodesStable DEF IInv, FrameInv

(* The frame a call starts with.                                           *)
Opened(r, s) ==
  [IdleFrame EXCEPT !.phase = "visit", !.root = r, !.seed = s, !.visited = {r},
                    !.stack = <<[node |-> r, next |-> 1]>>]

LEMMA OpenedFrame ==
  ASSUME IInv, NEW r \in Node, r <= nodeCount, requires_grad[r], NEW s \in Seeds
  PROVE  /\ Opened(r, s) \in Frame /\ Opened(r, s).phase = "visit"
         /\ FrameInv(Opened(r, s))
<1>. DEFINE x == [node |-> r, next |-> 1]
            q == <<x>>
            f == Opened(r, s)
<1>1. x \in Activation /\ x.node = r /\ x.next = 1
  BY DEF Activation
<1>2. f = [IdleFrame EXCEPT !.phase = "visit", !.root = r, !.seed = s,
                            !.visited = {r}, !.stack = q]
  BY DEF Opened
<1>. HIDE DEF x
<1>3. q \in Seq(Activation) /\ Len(q) = 1 /\ q[1] = x
  BY <1>1
<1>. HIDE DEF q
<1>4. s \in Grad
  BY GradAssumption
<1>. HIDE DEF f
<1>5. f = [phase |-> "visit", root |-> r, seed |-> s, visited |-> {r},
           stack |-> q, order |-> <<>>, pos |-> 0, arg |-> 0,
           pending |-> EmptyMap, committed |-> EmptyMap]
  BY <1>2 DEF IdleFrame
<1>6. /\ f \in Frame
      /\ f.phase = "visit" /\ f.root = r /\ f.seed = s /\ f.visited = {r}
      /\ f.stack = q /\ f.order = <<>>
      /\ f.pending = EmptyMap /\ f.committed = EmptyMap
  <2>1. <<>> \in Seq(Node)
    OBVIOUS
  <2>. QED  BY <1>3, <1>4, <1>5, <2>1, EmptyMapType DEF Frame, Phase
<1>7. /\ Len(f.order) = 0
      /\ \A j \in 1 .. Len(f.order) : FALSE
      /\ \A a \in 1 .. Len(f.stack) : a = 1 /\ f.stack[a] = x
      /\ 1 \in 1 .. Len(f.stack)
  <2>1. Len(f.order) = 0
    BY <1>6
  <2>2. Len(f.stack) = 1 /\ f.stack[1] = x
    BY <1>3, <1>6
  <2>. QED  BY <2>1, <2>2
<1>8. Reached(f)
  <2>1. f.root \in f.visited /\ f.seed \in Grad
    BY <1>4, <1>6
  <2>2. requires_grad[f.root]
    BY <1>6
  <2>3. \A v \in f.visited : v = r /\ v = f.root
    BY <1>6
  <2>. QED  BY <2>1, <2>2, <2>3 DEF Reached
<1>9. Partition(f)
  BY <1>1, <1>6, <1>7 DEF Partition
<1>10. OpenNodes(f)
  <2>1. \A i \in Nat : i > 0 => ~ (i < x.next)
    BY <1>1
  <2>. QED  BY <1>7, <2>1 DEF OpenNodes
<1>11. ParentsFirst(f)
  BY <1>7 DEF ParentsFirst
<1>12. RootLast(f)
  BY <1>1, <1>3, <1>6, <1>7 DEF RootLast
<1>13. WalkInv(f)
  BY <1>6 DEF WalkInv
<1>14. CommitInv(f)
  <2>1. \A n \in Node : f.committed[n] = NoGrad
    BY <1>6 DEF EmptyMap
  <2>. QED  BY <1>6, <2>1 DEF CommitInv
<1>. QED
  BY <1>6, <1>8, <1>9, <1>10, <1>11, <1>12, <1>13, <1>14 DEF FrameInv, SearchInv, f

LEMMA BackwardCallStep ==
  ASSUME IInv, NEW r \in Node, NEW s \in Seeds, BackwardCall(r, s)
  PROVE  IInv'
<1>. DEFINE f == Opened(r, s)
<1>1. /\ UserInControl /\ r <= nodeCount /\ requires_grad[r]
      /\ depth < MaxDepth /\ calls < MaxCalls
      /\ depth' = depth + 1 /\ calls' = calls + 1
      /\ frame' = [frame EXCEPT ![depth + 1] = f]
      /\ UNCHANGED <<graph, stored>>
  BY DEF BackwardCall, Opened
<1>2. f \in Frame /\ FrameInv(f) /\ f.phase = "visit"
  BY <1>1, OpenedFrame
<1>. HIDE DEF f
<1>3. /\ TypeOK
      /\ \A d \in 1 .. depth : FrameInv(frame[d]) /\ frame[d].phase = "callback"
  BY <1>1, UserWaits
<1>4. depth \in Nat /\ calls \in Nat /\ depth + 1 \in 1 .. MaxDepth /\ calls + 1 \in 0 .. MaxCalls
  BY <1>1, <1>3, BoundsAssumption DEF TypeOK
<1>5. /\ frame' \in [1 .. MaxDepth -> Frame]
      /\ frame'[depth + 1] = f
      /\ \A d \in 1 .. depth : frame'[d] = frame[d]
  BY <1>1, <1>2, <1>3, <1>4 DEF TypeOK
<1>6. TypeOK'
  BY <1>1, <1>3, <1>4, <1>5 DEF TypeOK, graph, stored
<1>7. \A d \in 1 .. depth' : d = depth + 1 \/ d \in 1 .. depth
  BY <1>1, <1>4
<1>8. StackInv'
  BY <1>1, <1>2, <1>3, <1>4, <1>5, <1>7 DEF StackInv
<1>9. ASSUME NEW d \in 1 .. depth'
      PROVE  FrameInv(frame[d])'
  <2>1. FrameInv(frame'[d])
    BY <1>2, <1>3, <1>5, <1>7
  <2>. QED
    BY <1>1, <2>1, FrameInvStable
<1>10. \A n \in Node : NodeInv(n)'
  BY <1>1 DEF IInv, NodeInv, graph, stored
<1>. QED
  BY <1>6, <1>8, <1>9, <1>10 DEF IInv, FrameInv

(* A waiting call does not see the nodes created after it started.         *)
LEMMA GrownFrame ==
  ASSUME TypeOK, nodeCount' = nodeCount + 1,
         \A n \in Node :
           n <= nodeCount => /\ parents'[n] = parents[n] /\ device'[n] = device[n]
                             /\ requires_grad'[n] = requires_grad[n],
         NEW f \in Frame, FrameInv(f), f.phase = "callback"
  PROVE  FrameInv(f)'
<1>1. /\ f.visited \subseteq Node /\ f.order \in Seq(Node) /\ f.stack \in Seq(Activation)
      /\ f.root \in f.visited
  BY DEF Frame, FrameInv, SearchInv, Reached
<1>2. \A v \in f.visited :
        /\ v \in Node /\ v <= nodeCount
        /\ parents'[v] = parents[v] /\ device'[v] = device[v]
        /\ requires_grad'[v] = requires_grad[v]
  BY <1>1 DEF FrameInv, SearchInv, Reached
<1>3. /\ \A j \in 1 .. Len(f.order) : f.order[j] \in f.visited
      /\ \A a \in 1 .. Len(f.stack) : f.stack[a].node \in f.visited
  BY DEF FrameInv, SearchInv, Partition
<1>4. \A j \in 1 .. Len(f.order) : parents'[f.order[j]] = parents[f.order[j]]
  BY <1>2, <1>3
<1>5. \A a \in 1 .. Len(f.stack) : parents'[f.stack[a].node] = parents[f.stack[a].node]
  BY <1>2, <1>3
<1>6. Reached(f)'
  <2>1. \A v \in f.visited : ParentSet(v)' = ParentSet(v)
    BY <1>2 DEF ParentSet
  <2>2. \A v \in f.visited : v <= nodeCount'
    <3>1. \A v \in f.visited : v <= nodeCount /\ v \in Nat
      BY <1>1 DEF FrameInv, SearchInv, Reached, Node
    <3>2. nodeCount \in Nat
      BY DEF TypeOK
    <3>. QED  BY <3>1, <3>2
  <2>. QED
    BY <1>1, <1>2, <2>1, <2>2 DEF FrameInv, SearchInv, Reached
<1>7. Partition(f)' /\ RootLast(f)'
  BY DEF FrameInv, SearchInv, Partition, RootLast
<1>8. OpenNodes(f)'
  <2>1. OpenNodes(f)
    BY DEF FrameInv, SearchInv
  <2>. QED  BY <1>5, <2>1 DEF OpenNodes
<1>9. ParentsFirst(f)'
  <2>1. ParentsFirst(f)
    BY DEF FrameInv, SearchInv
  <2>. QED  BY <1>4, <2>1 DEF ParentsFirst
<1>10. WalkInv(f)'
  <2>1. ASSUME NEW j \in 1 .. Len(f.order), NEW i \in 1 .. Len(parents[f.order[j]])
        PROVE  requires_grad'[parents[f.order[j]][i]] = requires_grad[parents[f.order[j]][i]]
    <3>1. PICK l \in 1 .. Len(f.order) : f.order[l] = parents[f.order[j]][i]
      BY DEF FrameInv, SearchInv, ParentsFirst
    <3>. QED  BY <1>2, <1>3, <3>1
  <2>2. /\ Len(f.stack) = 0 /\ f.pos <= Len(f.order) /\ f.pending[f.root] # NoGrad
        /\ f.pos > 0 /\ f.pending[f.order[f.pos]] # NoGrad
    BY DEF FrameInv, WalkInv
  <2>3. \A n \in Node : f.pending[n] # NoGrad => n \in f.visited /\ requires_grad'[n]
    BY <1>2 DEF FrameInv, WalkInv
  <2>4. ASSUME NEW j \in 1 .. Len(f.order), j > f.pos,
               NEW i \in 1 .. Len(parents'[f.order[j]]),
               requires_grad'[parents'[f.order[j]][i]]
        PROVE  f.pending[parents'[f.order[j]][i]] # NoGrad
    <3>1. /\ i \in 1 .. Len(parents[f.order[j]])
          /\ parents'[f.order[j]][i] = parents[f.order[j]][i]
      BY <1>4
    <3>2. requires_grad[parents[f.order[j]][i]]
      BY <2>1, <2>4, <3>1
    <3>. QED  BY <2>4, <3>1, <3>2 DEF FrameInv, WalkInv
  <2>. QED
    BY <2>2, <2>3, <2>4 DEF WalkInv
<1>11. CommitInv(f)'
  BY DEF FrameInv, CommitInv, EmptyMap
<1>. QED
  BY <1>6, <1>7, <1>8, <1>9, <1>10, <1>11 DEF FrameInv, SearchInv

LEMMA AddNodeStep ==
  ASSUME IInv,
         NEW k \in Kind, NEW ps \in ParentLists \cup {<<>>}, NEW rg \in BOOLEAN,
         NEW d \in Devices,
         AddNode(k, ps, rg, d),
         \A i \in 1 .. Len(ps) : ps[i] <= nodeCount /\ device[ps[i]] = d,
         k = "Leaf" <=> ps = <<>>,
         k # "Leaf" => rg,
         k = "CpuOnly" => d = Cpu
  PROVE  IInv'
<1>. DEFINE c == nodeCount + 1
<1>1. /\ UserInControl /\ nodeCount < MaxNodes /\ nodeCount' = c
      /\ kind' = [kind EXCEPT ![c] = k]
      /\ parents' = [parents EXCEPT ![c] = ps]
      /\ requires_grad' = [requires_grad EXCEPT ![c] = rg]
      /\ device' = [device EXCEPT ![c] = d]
      /\ UNCHANGED <<stored, depth, frame, calls>>
  BY DEF AddNode
<1>2. /\ TypeOK
      /\ \A e \in 1 .. depth : FrameInv(frame[e]) /\ frame[e].phase = "callback"
  BY <1>1, UserWaits
<1>3. ps \in Seq(Node)
  <2>1. <<>> \in Seq(Node) /\ ParentLists \subseteq Seq(Node)
    BY BoundsAssumption
  <2>. QED  BY <2>1
<1>4. nodeCount \in Nat /\ c \in Node /\ c \in 0 .. MaxNodes
  BY <1>1, <1>2, BoundsAssumption DEF TypeOK, Node
<1>. HIDE DEF c
<1>5. TypeOK'
  <2>1. /\ kind' \in [Node -> Kind] /\ parents' \in [Node -> Seq(Node)]
        /\ requires_grad' \in [Node -> BOOLEAN] /\ device' \in [Node -> Devices]
    BY <1>1, <1>2, <1>3, <1>4 DEF TypeOK
  <2>. QED  BY <1>1, <1>2, <1>4, <2>1 DEF TypeOK, stored
<1>6. /\ \A n \in Node : n # c => /\ kind'[n] = kind[n] /\ parents'[n] = parents[n]
                                  /\ requires_grad'[n] = requires_grad[n]
                                  /\ device'[n] = device[n]
      /\ kind'[c] = k /\ parents'[c] = ps /\ requires_grad'[c] = rg /\ device'[c] = d
  BY <1>1, <1>2, <1>4 DEF TypeOK
<1>7. StackInv'
  BY <1>1 DEF IInv, StackInv
<1>8. ASSUME NEW n \in Node
      PROVE  NodeInv(n)'
  <2>1. n \in Nat /\ c = nodeCount + 1
    BY DEF Node, c
  <2>2. has_grad'[n] <=> grad'[n] # NoGrad
    BY <1>1 DEF IInv, NodeInv, stored
  <2>3. CASE n = c
    <3>1. \A i \in 1 .. Len(ps) : ps[i] < c /\ ps[i] # c /\ ps[i] \in Node
      <4>1. \A i \in 1 .. Len(ps) : ps[i] \in Node
        BY <1>3, ElementOfSeq
      <4>2. \A i \in Node : i <= nodeCount => i < c /\ i # c
        BY <1>4, <2>1 DEF Node
      <4>. QED  BY <4>1, <4>2
    <3>2. \A i \in 1 .. Len(ps) : device'[ps[i]] = d
      BY <1>6, <3>1
    <3>. QED
      BY <1>1, <1>4, <1>6, <2>1, <2>2, <2>3, <3>1, <3>2 DEF NodeInv
  <2>4. CASE n # c
    <3>1. NodeInv(n)
      BY DEF IInv
    <3>2. parents[n] \in Seq(Node)
      BY <1>2 DEF TypeOK
    <3>3. ASSUME NEW i \in 1 .. Len(parents[n])
          PROVE  parents[n][i] < n /\ device'[parents[n][i]] = device'[n]
      <4>1. parents[n][i] \in Node /\ parents[n][i] < n /\ device[parents[n][i]] = device[n]
        BY <3>1, <3>2, ElementOfSeq DEF NodeInv
      <4>2. n <= nodeCount
        BY <1>4, <2>1, <3>1, <3>3 DEF NodeInv
      <4>3. parents[n][i] # c
        BY <1>4, <2>1, <4>1, <4>2 DEF Node
      <4>. QED  BY <1>6, <2>4, <4>1, <4>3
    <3>4. n > nodeCount' => parents'[n] = <<>>
      BY <1>1, <1>4, <1>6, <2>1, <2>4, <3>1 DEF NodeInv
    <3>. QED
      BY <1>6, <2>2, <2>4, <3>1, <3>3, <3>4 DEF NodeInv
  <2>. QED  BY <2>3, <2>4
<1>9. ASSUME NEW e \in 1 .. depth'
      PROVE  FrameInv(frame[e])'
  <2>1. depth' = depth /\ frame'[e] = frame[e] /\ e \in 1 .. depth /\ e \in 1 .. MaxDepth
    BY <1>1, <1>2, BoundsAssumption DEF TypeOK
  <2>2. frame[e] \in Frame /\ FrameInv(frame[e]) /\ frame[e].phase = "callback"
    BY <1>2, <2>1 DEF TypeOK
  <2>3. nodeCount' = nodeCount + 1
    BY <1>1 DEF c
  <2>4. \A n \in Node :
          n <= nodeCount => /\ parents'[n] = parents[n] /\ device'[n] = device[n]
                            /\ requires_grad'[n] = requires_grad[n]
    <3>1. \A n \in Node : n <= nodeCount => n # c
      BY <1>4 DEF c, Node
    <3>. QED  BY <1>6, <3>1
  <2>. QED
    BY <1>2, <2>1, <2>2, <2>3, <2>4, GrownFrame
<1>. QED
  BY <1>5, <1>7, <1>8, <1>9 DEF IInv, FrameInv

LEMMA NewLeafStep ==
  ASSUME IInv, NEW rg \in BOOLEAN, NEW d \in Devices, NewLeaf(rg, d)
  PROVE  IInv'
<1>1. AddNode("Leaf", <<>>, rg, d) /\ "Leaf" \in Kind
  BY DEF NewLeaf, Kind
<1>2. \A i \in 1 .. Len(<<>>) : FALSE
  OBVIOUS
<1>. QED
  BY <1>1, <1>2, AddNodeStep

LEMMA NewOpStep ==
  ASSUME IInv, NEW k \in Kind \ {"Leaf"}, NEW ps \in ParentLists, NewOp(k, ps)
  PROVE  IInv'
<1>. DEFINE rg == \E i \in 1 .. Len(ps) : requires_grad[ps[i]]
            d == device[ps[1]]
<1>1. /\ OperandsOK(k, ps)
      /\ AddNode(IF rg THEN k ELSE "Leaf", IF rg THEN ps ELSE <<>>, rg, d)
  BY DEF NewOp
<1>2. /\ Len(ps) > 0
      /\ k = "CpuOnly" => d = Cpu
      /\ \A i \in 1 .. Len(ps) : ps[i] <= nodeCount /\ device[ps[i]] = d
  BY <1>1 DEF OperandsOK
<1>3. TypeOK /\ ps \in Seq(Node)
  BY BoundsAssumption DEF IInv
<1>4. d \in Devices
  <2>1. 1 \in 1 .. Len(ps)
    BY <1>2, <1>3, LenProperties
  <2>2. ps[1] \in Node
    BY <1>3, <2>1, ElementOfSeq
  <2>. QED  BY <1>3, <2>2 DEF TypeOK
<1>5. ps # <<>>
  BY <1>2, <1>3
<1>6. rg \in BOOLEAN
  OBVIOUS
<1>. HIDE DEF rg, d
<1>7. CASE rg
  <2>1. AddNode(k, ps, rg, d)
    BY <1>1, <1>7
  <2>. QED  BY <1>2, <1>4, <1>5, <1>6, <1>7, <2>1, AddNodeStep
<1>8. CASE ~ rg
  <2>1. AddNode("Leaf", <<>>, rg, d) /\ "Leaf" \in Kind
    BY <1>1, <1>8 DEF Kind
  <2>2. \A i \in 1 .. Len(<<>>) : FALSE
    OBVIOUS
  <2>. QED  BY <1>4, <1>6, <2>1, <2>2, AddNodeStep
<1>. QED
  BY <1>7, <1>8

-----------------------------------------------------------------------------
(* The invariant, and what it gives.                                       *)

LEMMA InitInvariant ==
  ASSUME Init
  PROVE  IInv
<1>1. depth = 0 /\ \A d \in 1 .. depth : FALSE
  BY DEF Init
<1>2. TypeOK
  <2>1. 0 \in 0 .. MaxNodes /\ 0 \in 0 .. MaxDepth /\ 0 \in 0 .. MaxCalls
    BY BoundsAssumption
  <2>2. <<>> \in Seq(Node)
    OBVIOUS
  <2>3. "Leaf" \in Kind
    BY DEF Kind
  <2>. QED
    BY <2>1, <2>2, <2>3, IdleFrameType, EmptyMapType, DeviceAssumption DEF Init, TypeOK
<1>3. ASSUME NEW n \in Node PROVE NodeInv(n)
  <2>1. /\ parents[n] = <<>> /\ kind[n] = "Leaf" /\ has_grad[n] = FALSE /\ grad[n] = NoGrad
    BY DEF Init, EmptyMap
  <2>2. \A i \in 1 .. Len(parents[n]) : FALSE
    BY <2>1
  <2>. QED  BY <2>1, <2>2 DEF NodeInv
<1>. QED
  BY <1>1, <1>2, <1>3 DEF IInv, StackInv

LEMMA NextInvariant ==
  ASSUME IInv, [Next]_vars
  PROVE  IInv'
<1>1. CASE UserStep
  BY <1>1, NewLeafStep, NewOpStep, ZeroGradStep, BackwardCallStep, CallbackReturnStep
     DEF UserStep
<1>2. CASE EngineStep
  BY <1>2, VisitParentStep, VisitDoneStep, StartWalkStep, WalkStep, ScatterStep,
     ScatterDoneStep, WalkDoneStep, PrepareStep, CommitStep DEF EngineStep
<1>3. CASE Throw
  BY <1>3, ThrowStep
<1>4. CASE UNCHANGED vars
  <2>1. UNCHANGED <<graph, stored, depth, frame, calls>>
    BY <1>4 DEF vars, graph, stored
  <2>2. TypeOK' /\ StackInv'
    BY <2>1 DEF IInv, TypeOK, StackInv, graph, stored
  <2>3. \A n \in Node : NodeInv(n)'
    BY <2>1 DEF IInv, NodeInv, graph, stored
  <2>4. ASSUME NEW d \in 1 .. depth' PROVE FrameInv(frame[d])'
    <3>1. FrameInv(frame'[d])
      BY <2>1 DEF IInv, FrameInv
    <3>. QED  BY <2>1, <3>1, FrameInvStable
  <2>. QED  BY <2>2, <2>3, <2>4 DEF IInv, FrameInv
<1>. QED
  BY <1>1, <1>2, <1>3, <1>4 DEF Next

(* Every reachable state of the graph and of the stack of backward calls   *)
(* satisfies the inductive invariant.                                      *)
THEOREM Invariance == Spec => []IInv
BY InitInvariant, NextInvariant, PTL DEF Spec

(* Type correctness: stored gradients, frames and gradient maps keep their *)
(* shape through every nesting of calls, failures and callbacks.           *)
THEOREM TypeCorrect == Spec => []TypeOK
<1>1. IInv => TypeOK
  BY DEF IInv
<1>. QED
  BY <1>1, Invariance, PTL

(* No node is handed to its backward function before every visited node    *)
(* that feeds it has scattered: the reverse of topo_visit's post-order     *)
(* never reads a gradient that is still to grow.                           *)
THEOREM ReadsFinal == Spec => []ReadsFinalGradient
<1>1. ASSUME IInv PROVE ReadsFinalGradient
  <2>. SUFFICES ASSUME NEW d \in 1 .. depth,
                       frame[d].phase \in {"walk", "callback", "scatter"},
                       frame[d].pos > 0,
                       NEW c \in frame[d].visited,
                       frame[d].order[frame[d].pos] \in ParentSet(c)
                PROVE  \E k \in frame[d].pos + 1 .. Len(frame[d].order) :
                         frame[d].order[k] = c
    BY SMTT(20) DEF ReadsFinalGradient
  <2>. DEFINE f == frame[d]
  <2>1. f \in Frame /\ SearchInv(f) /\ WalkInv(f)
    BY <1>1, BoundsAssumption DEF IInv, TypeOK
  <2>. HIDE DEF f
  <2>2. Len(f.stack) = 0 /\ f.pos <= Len(f.order) /\ f.pos \in Nat /\ f.order \in Seq(Node)
    BY <2>1 DEF WalkInv, Frame, f
  <2>3. f.pos \in 1 .. Len(f.order)
    BY <2>2, LenProperties DEF f
  <2>4. PICK k \in 1 .. Len(f.order) : f.pos < k /\ f.order[k] = c
    BY <2>1, <2>2, <2>3, ConsumersLater DEF f
  <2>5. k \in f.pos + 1 .. Len(f.order)
    BY <2>2, <2>4
  <2>. QED  BY <2>4, <2>5 DEF f
<1>. QED
  BY <1>1, Invariance, PTL

(* When the loop over the order ends, the call holds a gradient for every  *)
(* visited node that requires one and for no other node: what a commit     *)
(* stores is complete.                                                     *)
THEOREM Covers == Spec => []CoversTrainable
<1>1. ASSUME IInv PROVE CoversTrainable
  <2>. SUFFICES ASSUME NEW d \in 1 .. depth, frame[d].phase = "prepare", NEW n \in Node
                PROVE  frame[d].pending[n] # NoGrad <=>
                         n \in frame[d].visited /\ requires_grad[n]
    BY DEF CoversTrainable
  <2>. DEFINE f == frame[d]
  <2>1. f \in Frame /\ FrameInv(f) /\ f.phase = "prepare"
    BY <1>1, BoundsAssumption DEF IInv, TypeOK, FrameInv
  <2>. HIDE DEF f
  <2>2. /\ Len(f.stack) = 0 /\ f.pos = 0
        /\ f.pending[n] # NoGrad => n \in f.visited /\ requires_grad[n]
    BY <2>1 DEF FrameInv, WalkInv
  <2>3. ASSUME n \in f.visited, requires_grad[n]
        PROVE  f.pending[n] # NoGrad
    <3>1. \A a \in 1 .. Len(f.stack) : FALSE
      BY <2>2
    <3>2. PICK j \in 1 .. Len(f.order) : f.order[j] = n
      BY <2>1, <2>3, <3>1 DEF FrameInv, SearchInv, Partition
    <3>. QED
      BY <2>1, <2>2, <2>3, <3>2, HoldsGradient DEF Loop
  <2>. QED  BY <2>2, <2>3 DEF f
<1>. QED
  BY <1>1, Invariance, PTL

(* A prepared gradient is never a sum built on an older stored gradient,   *)
(* whatever nested calls and zero_grad did while the call was in progress. *)
THEOREM PreparedIsCurrent == Spec => []PreparedOnCurrent
<1>1. IInv => PreparedOnCurrent
  BY DEF IInv, CommitInv, PreparedOnCurrent
<1>. QED
  BY <1>1, Invariance, PTL

(* A CUDA root never reaches an operation without a CUDA backward, so the  *)
(* gate of Variable::backward never refuses a graph that could be built.   *)
THEOREM GateStaysOpen == Spec => []GateNeverCloses
<1>1. ASSUME IInv PROVE GateNeverCloses
  <2>. SUFFICES ASSUME NEW d \in 1 .. depth, device[frame[d].root] # Cpu,
                       NEW j \in 1 .. Len(frame[d].order)
                PROVE  kind[frame[d].order[j]] # "CpuOnly"
    BY DEF GateNeverCloses, GateOpen
  <2>1. frame[d] \in Frame /\ SearchInv(frame[d])
    BY <1>1, BoundsAssumption DEF IInv, TypeOK
  <2>2. frame[d].order[j] \in frame[d].visited /\ frame[d].visited \subseteq Node
    BY <2>1 DEF SearchInv, Partition, Frame
  <2>3. device[frame[d].order[j]] = device[frame[d].root]
    BY <2>1, <2>2 DEF SearchInv, Reached
  <2>. QED
    BY <1>1, <2>2, <2>3 DEF IInv, NodeInv
<1>. QED
  BY <1>1, Invariance, PTL

LEMMA PreparedTargets ==
  ASSUME IInv, depth > 0, Top.phase = "prepare", NEW n \in Node
  PROVE  /\ n \in Targets(Top) <=> n \in Top.visited /\ requires_grad[n]
         /\ Top.committed[n] # NoGrad =>
              /\ n \in Targets(Top)
              /\ Top.committed[n] = Merged(n, Top.pending[n])
<1>1. Top \in Frame /\ FrameInv(Top)
  BY TopInv, TopFrame
<1>2. /\ Len(Top.stack) = 0 /\ Top.pos = 0
      /\ Top.pending[n] # NoGrad => n \in Top.visited /\ requires_grad[n]
  BY <1>1 DEF FrameInv, WalkInv
<1>3. ASSUME n \in Top.visited, requires_grad[n]
      PROVE  Top.pending[n] # NoGrad
  <2>1. \A a \in 1 .. Len(Top.stack) : FALSE
    BY <1>2
  <2>2. PICK j \in 1 .. Len(Top.order) : Top.order[j] = n
    BY <1>1, <1>3, <2>1 DEF FrameInv, SearchInv, Partition
  <2>. QED
    BY <1>1, <1>2, <1>3, <2>2, HoldsGradient DEF Loop
<1>. QED
  BY <1>1, <1>2, <1>3 DEF Targets, FrameInv, CommitInv

(* Stored gradients change all at once or not at all: a step clears one    *)
(* node, or commits the complete result of a call and returns from it.     *)
(* Every failure, in tensor code or in a callback, leaves them as they     *)
(* were.                                                                   *)
THEOREM CommitIsAtomic == Spec => AllOrNothing
<1>1. ASSUME IInv, [Next]_vars
      PROVE  [AllOrNothingStep]_vars
  <2>1. CASE UNCHANGED stored
    BY <2>1 DEF AllOrNothingStep
  <2>2. ASSUME NEW n \in Node, ZeroGrad(n)
        PROVE  AllOrNothingStep
    <3>1. ~ has_grad'[n]
      BY <1>1, <2>2 DEF ZeroGrad, IInv, TypeOK
    <3>2. \A m \in Node \ {n} : has_grad'[m] = has_grad[m] /\ grad'[m] = grad[m]
      BY <1>1, <2>2 DEF ZeroGrad, IInv, TypeOK, GradMap
    <3>. QED  BY <3>1, <3>2 DEF AllOrNothingStep
  <2>3. CASE Commit
    <3>1. /\ depth > 0 /\ depth' = depth - 1 /\ Top.phase = "prepare"
          /\ \A n \in Targets(Top) : Top.committed[n] # NoGrad
      BY <2>3 DEF Commit, AllPrepared, InPhase, Return
    <3>2. ASSUME NEW n \in Node
          PROVE  IF n \in Top.visited /\ requires_grad[n]
                 THEN has_grad'[n] /\ grad'[n] = Merged(n, Top.pending[n])
                 ELSE has_grad'[n] = has_grad[n] /\ grad'[n] = grad[n]
      <4>1. /\ has_grad'[n] = (has_grad[n] \/ Top.committed[n] # NoGrad)
            /\ grad'[n] = IF Top.committed[n] # NoGrad
                          THEN Top.committed[n] ELSE grad[n]
        BY <2>3 DEF Commit
      <4>2. has_grad[n] \in BOOLEAN
        BY <1>1 DEF IInv, TypeOK
      <4>3. /\ n \in Targets(Top) <=> n \in Top.visited /\ requires_grad[n]
            /\ Top.committed[n] # NoGrad =>
                 /\ n \in Targets(Top)
                 /\ Top.committed[n] = Merged(n, Top.pending[n])
        BY <1>1, <3>1, PreparedTargets
      <4>4. CASE n \in Top.visited /\ requires_grad[n]
        BY <3>1, <4>1, <4>3, <4>4
      <4>5. CASE ~ (n \in Top.visited /\ requires_grad[n])
        <5>1. Top.committed[n] = NoGrad
          BY <4>3, <4>5
        <5>2. grad'[n] = grad[n]
          BY <4>1, <5>1
        <5>3. has_grad'[n] = has_grad[n]
          BY <4>1, <4>2, <5>1
        <5>. QED  BY <4>5, <5>2, <5>3
      <4>. QED  BY <4>4, <4>5
    <3>. QED  BY <3>1, <3>2 DEF AllOrNothingStep
  <2>4. CASE UNCHANGED vars
    BY <2>4
  <2>5. CASE UserStep
    <3>1. ASSUME NEW rg, NEW e, NewLeaf(rg, e) PROVE UNCHANGED stored
      BY <3>1 DEF NewLeaf, AddNode
    <3>2. ASSUME NEW k, NEW ps, NewOp(k, ps) PROVE UNCHANGED stored
      BY <3>2, Zenon DEF NewOp, AddNode
    <3>3. ASSUME NEW r, NEW s, BackwardCall(r, s) PROVE UNCHANGED stored
      BY <3>3, Zenon DEF BackwardCall
    <3>4. ASSUME CallbackReturn PROVE UNCHANGED stored
      BY <3>4 DEF CallbackReturn
    <3>. QED  BY <2>1, <2>2, <2>5, <3>1, <3>2, <3>3, <3>4 DEF UserStep
  <2>6. CASE EngineStep
    <3>1. UNCHANGED stored \/ Commit
      BY <2>6 DEF EngineStep, VisitParent, VisitDone, StartWalk, Walk, Scatter,
                  ScatterDone, WalkDone, Prepare
    <3>. QED  BY <2>1, <2>3, <3>1
  <2>7. CASE Throw
    BY <2>1, <2>7 DEF Throw
  <2>. QED
    BY <1>1, <2>4, <2>5, <2>6, <2>7 DEF Next
<1>. QED
  BY <1>1, Invariance, PTL DEF Spec, AllOrNothing

-----------------------------------------------------------------------------
(* The engine implements GradientLedger.  From here on the operators of    *)
(* the ledger are used: Total, a sum with NoGrad as its unit, and          *)
(* PathSums, the sums over the paths of a graph.                           *)

(* Every non-empty set of natural numbers has a least element, and so a    *)
(* set that holds 0 and the successor of each element holds them all.      *)
LEMMA LeastExists ==
  ASSUME NEW T \in SUBSET Nat, T # {}
  PROVE  \E n \in T : \A m \in T : ~ (m < n)
<1> DEFINE R == OpToRel(<, Nat)
<1>1. IsWellFoundedOn(R, Nat)
  BY NatLessThanWellFounded
<1>2. PICK n \in T : \A m \in T : ~ (<<m, n>> \in R)
  <2>. HIDE DEF R
  <2>. QED
    BY <1>1, WFMin
<1>. QED
  BY <1>2 DEF OpToRel

LEMMA Induction ==
  ASSUME NEW S, 0 \in S, \A k \in Nat : k \in S => k + 1 \in S
  PROVE  \A k \in Nat : k \in S
<1>. DEFINE T == {k \in Nat : k \notin S}
<1>. SUFFICES ASSUME T # {} PROVE FALSE
  OBVIOUS
<1>1. T \in SUBSET Nat
  OBVIOUS
<1>2. PICK n \in T : \A m \in T : ~ (m < n)
  <2>. HIDE DEF T
  <2>. QED  BY <1>1, LeastExists
<1>3. n \in Nat /\ n # 0
  OBVIOUS
<1>4. n - 1 \in Nat /\ n - 1 < n /\ (n - 1) + 1 = n
  BY <1>3
<1>5. n - 1 \in S
  BY <1>2, <1>4
<1>6. n \in S
  BY <1>4, <1>5
<1>. QED
  BY <1>6

Maybe == Grad \cup {NoGrad}
Join(g, h) == Ledger!Joined(g, h)

LEMMA JoinFacts ==
  /\ \A g, h \in Maybe : Join(g, h) \in Maybe
  /\ \A g \in Maybe : Join(g, NoGrad) = g /\ Join(NoGrad, g) = g
  /\ Linear => \A g, h \in Maybe : Join(g, h) = Join(h, g)
  /\ Linear => \A g, h, l \in Maybe : Join(Join(g, h), l) = Join(g, Join(h, l))
<1>1. \A g, h \in Maybe : Join(g, h) \in Maybe
  BY GradAssumption DEF Maybe, Join, Ledger!Joined
<1>2. \A g \in Maybe : Join(g, NoGrad) = g /\ Join(NoGrad, g) = g
  BY GradAssumption DEF Maybe, Join, Ledger!Joined
<1>3. Linear => \A g, h \in Maybe : Join(g, h) = Join(h, g)
  BY GradAssumption DEF Maybe, Join, Ledger!Joined, Linear
<1>4. ASSUME Linear, NEW g \in Maybe, NEW h \in Maybe, NEW l \in Maybe
      PROVE  Join(Join(g, h), l) = Join(g, Join(h, l))
  <2>1. CASE g = NoGrad \/ h = NoGrad \/ l = NoGrad
    BY <1>1, <1>2, <2>1
  <2>2. CASE g \in Grad /\ h \in Grad /\ l \in Grad
    <3>1. Join(g, h) = Plus(g, h) /\ Join(h, l) = Plus(h, l)
      BY <2>2, GradAssumption DEF Join, Ledger!Joined
    <3>2. Plus(g, h) \in Grad /\ Plus(h, l) \in Grad
      BY <2>2, GradAssumption
    <3>3. /\ Join(Plus(g, h), l) = Plus(Plus(g, h), l)
          /\ Join(g, Plus(h, l)) = Plus(g, Plus(h, l))
      BY <2>2, <3>2, GradAssumption DEF Join, Ledger!Joined
    <3>4. Plus(Plus(g, h), l) = Plus(g, Plus(h, l))
      BY <1>4, <2>2 DEF Linear
    <3>. QED  BY <3>1, <3>3, <3>4
  <2>. QED  BY <2>1, <2>2 DEF Maybe
<1>. QED  BY <1>1, <1>2, <1>3, <1>4

(* Total is a recursive function: it exists and satisfies its equations.   *)
Summing(f, h, k) ==
  f = [i \in 0 .. k |-> IF i = 0 THEN NoGrad ELSE Join(f[i - 1], h[i])]

LEMMA SummingExtends ==
  ASSUME NEW f, NEW h, NEW k \in Nat, Summing(f, h, k)
  PROVE  \E g : Summing(g, h, k + 1) 
<1>1. PICK g : g = [i \in 0 .. k + 1 |-> IF i = k + 1 THEN Join(f[k], h[k + 1]) ELSE f[i]]
  OBVIOUS
<1>2. \A i \in 0 .. k : g[i] = f[i]
  BY <1>1
<1>3. ASSUME NEW i \in 0 .. k + 1
      PROVE  g[i] = IF i = 0 THEN NoGrad ELSE Join(g[i - 1], h[i])
  <2>1. CASE i = k + 1
    <3>1. i - 1 = k /\ k \in 0 .. k /\ i # 0
      BY <2>1
    <3>2. g[i - 1] = f[k] /\ g[i] = Join(f[k], h[k + 1])
      BY <1>1, <1>2, <2>1, <3>1
    <3>. QED  BY <2>1, <3>1, <3>2
  <2>2. CASE i \in 0 .. k /\ i # 0
    <3>1. i - 1 \in 0 .. k
      BY <2>2
    <3>2. f[i] = Join(f[i - 1], h[i])
      BY <2>2 DEF Summing
    <3>. QED  BY <1>2, <2>2, <3>1, <3>2
  <2>3. CASE i = 0
    <3>1. f[0] = NoGrad /\ 0 \in 0 .. k
      BY DEF Summing
    <3>. QED  BY <1>2, <2>3, <3>1
  <2>. QED  BY <2>1, <2>2, <2>3
<1>. QED
  BY <1>1, <1>3 DEF Summing

LEMMA TotalFact ==
  ASSUME NEW h, NEW k \in Nat
  PROVE  \E f : Summing(f, h, k) /\ Ledger!Total(h, k) = f[k]
<1>. DEFINE S == {l \in Nat : \E f : Summing(f, h, l)}
<1>1. 0 \in S
  <2>1. PICK f : f = [i \in 0 .. 0 |-> NoGrad]
    OBVIOUS
  <2>2. Summing(f, h, 0)
    BY <2>1 DEF Summing
  <2>. QED  BY <2>2
<1>2. \A l \in Nat : l \in S => l + 1 \in S
  BY SummingExtends
<1>3. k \in S
  <2>. HIDE DEF S
  <2>. QED  BY <1>1, <1>2, Induction
<1>. DEFINE f == CHOOSE g : Summing(g, h, k)
<1>4. Summing(f, h, k)
  BY <1>3
<1>5. Ledger!Total(h, k) = f[k]
  BY DEF Ledger!Total, Summing, Join
<1>. QED  BY <1>4, <1>5

LEMMA SummingIsOne ==
  ASSUME NEW h, NEW e, NEW k \in Nat, NEW l \in Nat, NEW f, NEW g,
         Summing(f, h, k), Summing(g, e, l),
         \A i \in 1 .. k : e[i] = h[i]
  PROVE  \A i \in 0 .. k : i <= l => f[i] = g[i]
<1>. DEFINE S == {i \in Nat : i <= k /\ i <= l => f[i] = g[i]}
<1>1. 0 \in S
  BY DEF Summing
<1>2. ASSUME NEW i \in Nat, i \in S PROVE i + 1 \in S
  <2>. SUFFICES ASSUME i + 1 <= k, i + 1 <= l PROVE f[i + 1] = g[i + 1]
    OBVIOUS
  <2>1. /\ i + 1 \in 0 .. k /\ i + 1 \in 0 .. l /\ i + 1 # 0
        /\ (i + 1) - 1 = i /\ i + 1 \in 1 .. k /\ i <= k /\ i <= l
    OBVIOUS
  <2>2. f[i + 1] = Join(f[i], h[i + 1]) /\ g[i + 1] = Join(g[i], e[i + 1])
    BY <2>1 DEF Summing
  <2>3. f[i] = g[i] /\ e[i + 1] = h[i + 1]
    BY <1>2, <2>1
  <2>. QED  BY <2>2, <2>3
<1>3. \A i \in Nat : i \in S
  <2>. HIDE DEF S
  <2>. QED  BY <1>1, <1>2, Induction
<1>. QED
  BY <1>3

LEMMA TotalNext ==
  ASSUME NEW h, NEW k \in Nat
  PROVE  /\ Ledger!Total(h, 0) = NoGrad
         /\ Ledger!Total(h, k + 1) = Join(Ledger!Total(h, k), h[k + 1])
<1>1. PICK e : Summing(e, h, 0) /\ Ledger!Total(h, 0) = e[0]
  BY TotalFact
<1>2. PICK f : Summing(f, h, k) /\ Ledger!Total(h, k) = f[k]
  BY TotalFact
<1>3. PICK g : Summing(g, h, k + 1) /\ Ledger!Total(h, k + 1) = g[k + 1]
  BY TotalFact
<1>4. f[k] = g[k]
  BY <1>2, <1>3, SummingIsOne
<1>5. e[0] = NoGrad
  BY <1>1 DEF Summing
<1>6. g[k + 1] = Join(g[k], h[k + 1])
  BY <1>3 DEF Summing
<1>. QED
  BY <1>1, <1>2, <1>3, <1>4, <1>5, <1>6

LEMMA TotalSame ==
  ASSUME NEW h, NEW e, NEW k \in Nat, \A i \in 1 .. k : e[i] = h[i]
  PROVE  Ledger!Total(e, k) = Ledger!Total(h, k)
<1>1. PICK f : Summing(f, h, k) /\ Ledger!Total(h, k) = f[k]
  BY TotalFact
<1>2. PICK g : Summing(g, e, k) /\ Ledger!Total(e, k) = g[k]
  BY TotalFact
<1>. QED
  BY <1>1, <1>2, SummingIsOne

LEMMA TotalType ==
  ASSUME NEW h, NEW k \in Nat, \A i \in 1 .. k : h[i] \in Maybe
  PROVE  Ledger!Total(h, k) \in Maybe
<1>. DEFINE S == {i \in Nat : i <= k => Ledger!Total(h, i) \in Maybe}
<1>1. 0 \in S
  BY TotalNext DEF Maybe
<1>2. ASSUME NEW i \in Nat, i \in S PROVE i + 1 \in S
  <2>. SUFFICES ASSUME i + 1 <= k PROVE Ledger!Total(h, i + 1) \in Maybe
    OBVIOUS
  <2>1. i + 1 \in 1 .. k /\ i <= k
    OBVIOUS
  <2>2. Ledger!Total(h, i) \in Maybe /\ h[i + 1] \in Maybe
    BY <1>2, <2>1
  <2>. QED  BY <2>2, TotalNext, JoinFacts
<1>3. k \in S
  <2>. HIDE DEF S
  <2>. QED  BY <1>1, <1>2, Induction
<1>. QED
  BY <1>3

LEMMA TotalNone ==
  ASSUME NEW h, NEW k \in Nat, \A i \in 1 .. k : h[i] = NoGrad
  PROVE  Ledger!Total(h, k) = NoGrad
<1>. DEFINE S == {i \in Nat : i <= k => Ledger!Total(h, i) = NoGrad}
<1>1. 0 \in S
  BY TotalNext
<1>2. ASSUME NEW i \in Nat, i \in S PROVE i + 1 \in S
  <2>. SUFFICES ASSUME i + 1 <= k PROVE Ledger!Total(h, i + 1) = NoGrad
    OBVIOUS
  <2>1. i + 1 \in 1 .. k /\ i <= k
    OBVIOUS
  <2>2. Ledger!Total(h, i) = NoGrad /\ h[i + 1] = NoGrad /\ NoGrad \in Maybe
    BY <1>2, <2>1 DEF Maybe
  <2>. QED  BY <2>2, TotalNext, JoinFacts
<1>3. k \in S
  <2>. HIDE DEF S
  <2>. QED  BY <1>1, <1>2, Induction
<1>. QED
  BY <1>3

(* A sum of two lists entry by entry is the sum of their totals.           *)
LEMMA TotalPointwise ==
  ASSUME Linear, NEW h, NEW e, NEW l, NEW k \in Nat,
         \A i \in 1 .. k : h[i] \in Maybe /\ e[i] \in Maybe /\ l[i] = Join(h[i], e[i])
  PROVE  Ledger!Total(l, k) = Join(Ledger!Total(h, k), Ledger!Total(e, k))
<1>. DEFINE S == {i \in Nat : i <= k =>
                    /\ Ledger!Total(h, i) \in Maybe /\ Ledger!Total(e, i) \in Maybe
                    /\ Ledger!Total(l, i) = Join(Ledger!Total(h, i), Ledger!Total(e, i))}
<1>1. 0 \in S
  <2>1. NoGrad \in Maybe /\ Join(NoGrad, NoGrad) = NoGrad
    BY JoinFacts DEF Maybe
  <2>. QED  BY <2>1, TotalNext
<1>2. ASSUME NEW i \in Nat, i \in S PROVE i + 1 \in S
  <2>. SUFFICES ASSUME i + 1 <= k
       PROVE /\ Ledger!Total(h, i + 1) \in Maybe /\ Ledger!Total(e, i + 1) \in Maybe
             /\ Ledger!Total(l, i + 1) = Join(Ledger!Total(h, i + 1), Ledger!Total(e, i + 1))
    OBVIOUS
  <2>1. i + 1 \in 1 .. k /\ i <= k
    OBVIOUS
  <2>2. PICK a, b, c, x, y, z :
          /\ a = Ledger!Total(h, i) /\ b = Ledger!Total(e, i) /\ c = Ledger!Total(l, i)
          /\ x = h[i + 1] /\ y = e[i + 1] /\ z = l[i + 1]
    OBVIOUS
  <2>3. a \in Maybe /\ b \in Maybe /\ c = Join(a, b)
    BY <1>2, <2>1, <2>2
  <2>4. x \in Maybe /\ y \in Maybe /\ z = Join(x, y)
    BY <2>1, <2>2
  <2>5. /\ Ledger!Total(h, i + 1) = Join(a, x)
        /\ Ledger!Total(e, i + 1) = Join(b, y)
        /\ Ledger!Total(l, i + 1) = Join(c, z)
    BY <2>2, TotalNext
  <2>6. Join(a, x) \in Maybe /\ Join(b, y) \in Maybe
    BY <2>3, <2>4, JoinFacts
  <2>7. Join(Join(a, b), Join(x, y)) = Join(Join(a, x), Join(b, y))
    <3>1. Join(x, y) \in Maybe /\ Join(b, y) \in Maybe
      BY <2>3, <2>4, JoinFacts
    <3>2. Join(Join(a, b), Join(x, y)) = Join(a, Join(b, Join(x, y)))
      BY <2>3, <3>1, JoinFacts
    <3>3. Join(b, Join(x, y)) = Join(Join(x, y), b)
      BY <2>3, <3>1, JoinFacts
    <3>4. Join(Join(x, y), b) = Join(x, Join(y, b)) /\ Join(y, b) = Join(b, y)
      BY <2>3, <2>4, JoinFacts
    <3>5. Join(a, Join(x, Join(b, y))) = Join(Join(a, x), Join(b, y))
      BY <2>3, <2>4, <3>1, JoinFacts
    <3>. QED  BY <3>2, <3>3, <3>4, <3>5
  <2>. QED  BY <2>3, <2>4, <2>5, <2>6, <2>7
<1>3. k \in S
  <2>. HIDE DEF S
  <2>. QED  BY <1>1, <1>2, Induction
<1>. QED
  BY <1>3

(* A list with one entry sums to it.                                       *)
LEMMA TotalSingle ==
  ASSUME NEW h, NEW k \in Nat, NEW a \in 1 .. k, h[a] \in Maybe,
         \A i \in 1 .. k : i # a => h[i] = NoGrad
  PROVE  Ledger!Total(h, k) = h[a]
<1>. DEFINE S == {i \in Nat : i <= k =>
                    Ledger!Total(h, i) = IF i < a THEN NoGrad ELSE h[a]}
<1>1. 0 \in S
  BY TotalNext
<1>2. ASSUME NEW i \in Nat, i \in S PROVE i + 1 \in S
  <2>. SUFFICES ASSUME i + 1 <= k
       PROVE Ledger!Total(h, i + 1) = IF i + 1 < a THEN NoGrad ELSE h[a]
    OBVIOUS
  <2>1. i + 1 \in 1 .. k /\ i <= k
    OBVIOUS
  <2>2. Ledger!Total(h, i) = IF i < a THEN NoGrad ELSE h[a]
    BY <1>2, <2>1
  <2>3. Ledger!Total(h, i + 1) = Join(Ledger!Total(h, i), h[i + 1])
    BY TotalNext
  <2>4. NoGrad \in Maybe
    BY DEF Maybe
  <2>5. CASE i + 1 = a
    <3>1. i < a /\ ~ (i + 1 < a) /\ h[i + 1] = h[a]
      BY <2>5
    <3>. QED  BY <2>2, <2>3, <3>1, JoinFacts
  <2>6. CASE i + 1 # a
    <3>1. h[i + 1] = NoGrad /\ (i < a <=> i + 1 < a)
      BY <2>1, <2>6
    <3>. QED  BY <2>2, <2>3, <2>4, <3>1, JoinFacts
  <2>. QED  BY <2>5, <2>6
<1>3. k \in S
  <2>. HIDE DEF S
  <2>. QED  BY <1>1, <1>2, Induction
<1>. QED
  BY <1>3

(* Adding x to one entry adds x to the total.                              *)
LEMMA TotalAdd ==
  ASSUME Linear, NEW h, NEW e, NEW k \in Nat, NEW a \in 1 .. k, NEW x \in Maybe,
         \A i \in 1 .. k : h[i] \in Maybe,
         e[a] = Join(h[a], x),
         \A i \in 1 .. k : i # a => e[i] = h[i]
  PROVE  Ledger!Total(e, k) = Join(Ledger!Total(h, k), x)
<1>. DEFINE one == [i \in 1 .. k |-> IF i = a THEN x ELSE NoGrad]
<1>1. one[a] = x /\ \A i \in 1 .. k : i # a => one[i] = NoGrad
  OBVIOUS
<1>. HIDE DEF one
<1>2. NoGrad \in Maybe
  BY DEF Maybe
<1>3. \A i \in 1 .. k : one[i] \in Maybe
  BY <1>1, <1>2
<1>4. \A i \in 1 .. k : e[i] = Join(h[i], one[i])
  BY <1>1, JoinFacts
<1>5. Ledger!Total(e, k) = Join(Ledger!Total(h, k), Ledger!Total(one, k))
  BY <1>3, <1>4, TotalPointwise
<1>6. Ledger!Total(one, k) = x
  BY <1>1, TotalSingle
<1>. QED
  BY <1>5, <1>6

(* Moving x from one entry to another leaves the total alone.              *)
LEMMA TotalMove ==
  ASSUME Linear, NEW h, NEW e, NEW k \in Nat, NEW a \in 1 .. k, NEW b \in 1 .. k, a # b,
         NEW x \in Maybe,
         \A i \in 1 .. k : h[i] \in Maybe /\ e[i] \in Maybe,
         h[a] = Join(e[a], x), e[b] = Join(h[b], x),
         \A i \in 1 .. k : i # a /\ i # b => e[i] = h[i]
  PROVE  Ledger!Total(e, k) = Ledger!Total(h, k)
<1>. DEFINE o == [i \in 1 .. k |-> IF i = a THEN e[a] ELSE h[i]]
<1>1. o[a] = e[a] /\ \A i \in 1 .. k : i # a => o[i] = h[i]
  OBVIOUS
<1>. HIDE DEF o
<1>2. \A i \in 1 .. k : o[i] \in Maybe
  BY <1>1
<1>3. h[a] = Join(o[a], x) /\ \A i \in 1 .. k : i # a => h[i] = o[i]
  BY <1>1
<1>4. e[b] = Join(o[b], x) /\ \A i \in 1 .. k : i # b => e[i] = o[i]
  BY <1>1
<1>5. Ledger!Total(h, k) = Join(Ledger!Total(o, k), x)
  BY <1>2, <1>3, TotalAdd
<1>6. Ledger!Total(e, k) = Join(Ledger!Total(o, k), x)
  BY <1>2, <1>4, TotalAdd
<1>. QED
  BY <1>5, <1>6

-----------------------------------------------------------------------------
(* Sums over the paths of a graph whose operands are older than their      *)
(* users: they satisfy their equation, stay in Grad, add up, and do not    *)
(* see newer nodes.                                                        *)

(* A graph whose operands are older than the node that uses them.          *)
Graph(ps) ==
  /\ ps \in [Node -> Seq(Node)]
  /\ \A n \in Node :
       /\ ps[n] \in ParentLists \cup {<<>>}
       /\ \A i \in 1 .. Len(ps[n]) : ps[n][i] < n

LEMMA Edge ==
  ASSUME NEW ps, Graph(ps), NEW n \in Node
  PROVE  /\ Len(ps[n]) \in Nat
         /\ \A i \in 1 .. Len(ps[n]) :
              /\ ps[n][i] \in Node /\ ps[n][i] < n
              /\ \A g \in Grad : Pull(n, i, g) \in Grad
              /\ Linear => \A g, h \in Grad :
                   Pull(n, i, Plus(g, h)) = Plus(Pull(n, i, g), Pull(n, i, h))
<1>1. ps[n] \in Seq(Node) /\ Len(ps[n]) \in Nat
  BY LenProperties DEF Graph
<1>2. ASSUME NEW i \in 1 .. Len(ps[n])
      PROVE  /\ ps[n][i] \in Node /\ ps[n][i] < n
             /\ ps[n] \in ParentLists
  <2>1. ps[n] # <<>>
    BY <1>1, <1>2
  <2>. QED  BY <1>1, <2>1, ElementOfSeq DEF Graph
<1>3. ASSUME NEW i \in 1 .. Len(ps[n])
      PROVE  /\ \A g \in Grad : Pull(n, i, g) \in Grad
             /\ Linear => \A g, h \in Grad :
                   Pull(n, i, Plus(g, h)) = Plus(Pull(n, i, g), Pull(n, i, h))
  <2>1. ps[n] \in ParentLists
    BY <1>2
  <2>. QED  BY <2>1, GradAssumption DEF Linear
<1>. QED
  BY <1>1, <1>2, <1>3

(* What reaches the target through the parents of n, entry by entry.       *)
Entries(ps, rg, s, n, g) ==
  [i \in 1 .. Len(ps[n]) |-> IF rg[ps[n][i]] THEN s[ps[n][i]][Pull(n, i, g)] ELSE NoGrad]

LEMMA ThroughEntries ==
  ASSUME NEW ps, NEW rg, NEW s, NEW n, NEW g
  PROVE  Ledger!Through(ps, rg, s, n, g) = Ledger!Total(Entries(ps, rg, s, n, g), Len(ps[n]))
  BY DEF Ledger!Through, Entries

LEMMA ThroughSame ==
  ASSUME NEW ps, NEW rg, NEW s, NEW qs, NEW rh, NEW t, NEW n, NEW g,
         ps[n] = qs[n],
         \A i \in 1 .. Len(ps[n]) : rg[ps[n][i]] = rh[ps[n][i]] /\ s[ps[n][i]] = t[ps[n][i]]
  PROVE  Ledger!Through(ps, rg, s, n, g) = Ledger!Through(qs, rh, t, n, g)
<1>1. Entries(ps, rg, s, n, g) = Entries(qs, rh, t, n, g)
  BY DEF Entries
<1>. QED
  BY <1>1, ThroughEntries

(* PathSums is a recursive function over the nodes: s satisfies its        *)
(* equation at the nodes up to k.                                          *)
Solves(s, ps, rg, m, k) ==
  \A n \in Node :
    n <= k => s[n] = [g \in Grad |-> IF n = m THEN g ELSE Ledger!Through(ps, rg, s, n, g)]

LEMMA SolvesExtends ==
  ASSUME NEW ps, NEW rg, NEW m, Graph(ps), NEW k \in Nat,
         NEW s, s = [n \in Node |-> s[n]], Solves(s, ps, rg, m, k)
  PROVE  \E t : t = [n \in Node |-> t[n]] /\ Solves(t, ps, rg, m, k + 1)
<1>1. PICK t : t = [n \in Node |->
         IF n = k + 1 THEN [g \in Grad |-> IF n = m THEN g ELSE Ledger!Through(ps, rg, s, n, g)]
         ELSE s[n]]
  OBVIOUS
<1>2. t = [n \in Node |-> t[n]]
  BY <1>1
<1>3. ASSUME NEW n \in Node, n <= k + 1
      PROVE  t[n] = [g \in Grad |-> IF n = m THEN g ELSE Ledger!Through(ps, rg, t, n, g)]
  <2>1. t[n] = [g \in Grad |-> IF n = m THEN g ELSE Ledger!Through(ps, rg, s, n, g)]
    <3>1. CASE n = k + 1
      BY <1>1, <3>1
    <3>2. CASE n # k + 1
      <4>1. n <= k
        BY <1>3, <3>2 DEF Node
      <4>. QED  BY <1>1, <3>2, <4>1 DEF Solves
    <3>. QED  BY <3>1, <3>2
  <2>2. \A i \in 1 .. Len(ps[n]) : t[ps[n][i]] = s[ps[n][i]]
    <3>1. \A i \in 1 .. Len(ps[n]) : ps[n][i] \in Node /\ ps[n][i] # k + 1
      BY <1>3, Edge DEF Node
    <3>. QED  BY <1>1, <3>1
  <2>3. \A g \in Grad : Ledger!Through(ps, rg, s, n, g) = Ledger!Through(ps, rg, t, n, g)
    BY <2>2, ThroughSame
  <2>. QED  BY <2>1, <2>3
<1>. QED
  BY <1>2, <1>3 DEF Solves

LEMMA PathSumsFact ==
  ASSUME NEW ps, NEW rg, NEW m, Graph(ps)
  PROVE  Solves(Ledger!PathSums(ps, rg, m), ps, rg, m, MaxNodes)
<1>. DEFINE S == {k \in Nat : \E s : s = [n \in Node |-> s[n]] /\ Solves(s, ps, rg, m, k)}
<1>1. 0 \in S
  <2>1. PICK s : s = [n \in Node |-> 0]
    OBVIOUS
  <2>2. s = [n \in Node |-> s[n]]
    BY <2>1
  <2>3. Solves(s, ps, rg, m, 0)
    BY DEF Solves, Node
  <2>. QED  BY <2>2, <2>3
<1>2. \A k \in Nat : k \in S => k + 1 \in S
  <2>. SUFFICES ASSUME NEW k \in Nat, k \in S PROVE k + 1 \in S
    OBVIOUS
  <2>1. PICK s : s = [n \in Node |-> s[n]] /\ Solves(s, ps, rg, m, k)
    OBVIOUS
  <2>2. \E t : t = [n \in Node |-> t[n]] /\ Solves(t, ps, rg, m, k + 1)
    BY <2>1, SolvesExtends
  <2>. QED  BY <2>2
<1>3. MaxNodes \in S
  <2>. HIDE DEF S
  <2>. QED  BY <1>1, <1>2, Induction, BoundsAssumption
<1>4. PICK s : s = [n \in Node |-> s[n]] /\ Solves(s, ps, rg, m, MaxNodes)
  BY <1>3
<1>5. \A n \in Node : n <= MaxNodes
  BY DEF Node
<1>6. s = [n \in Node |-> [g \in Grad |-> IF n = m THEN g ELSE Ledger!Through(ps, rg, s, n, g)]]
  BY <1>4, <1>5 DEF Solves
<1>. DEFINE E(t) == t = [n \in Node |->
                          [g \in Grad |-> IF n = m THEN g ELSE Ledger!Through(ps, rg, t, n, g)]]
            c == CHOOSE t : E(t)
<1>7. E(c)
  BY <1>6
<1>8. Ledger!PathSums(ps, rg, m) = c
  BY DEF Ledger!PathSums, Ledger!Node, Node
<1>9. Solves(c, ps, rg, m, MaxNodes)
  <2>. HIDE DEF c
  <2>. QED  BY <1>7 DEF Solves
<1>. QED
  BY <1>8, <1>9

(* The sum over the paths from n to m: its equation, entry by entry.       *)
Along(ps, rg, n, m, g) == Ledger!PathSums(ps, rg, m)[n][g]
Shares(ps, rg, n, m, g) == Entries(ps, rg, Ledger!PathSums(ps, rg, m), n, g)

LEMMA AlongEquation ==
  ASSUME NEW ps, NEW rg, Graph(ps), NEW n \in Node, NEW m \in Node, NEW g \in Grad
  PROVE  /\ n = m => Along(ps, rg, n, m, g) = g
         /\ n # m => Along(ps, rg, n, m, g) =
                       Ledger!Total(Shares(ps, rg, n, m, g), Len(ps[n]))
         /\ \A i \in 1 .. Len(ps[n]) :
              Shares(ps, rg, n, m, g)[i] =
                IF rg[ps[n][i]] THEN Along(ps, rg, ps[n][i], m, Pull(n, i, g)) ELSE NoGrad
<1>. DEFINE s == Ledger!PathSums(ps, rg, m)
<1>1. n <= MaxNodes
  BY DEF Node
<1>2. s[n] = [x \in Grad |-> IF n = m THEN x ELSE Ledger!Through(ps, rg, s, n, x)]
  <2>1. Solves(s, ps, rg, m, MaxNodes)
    BY PathSumsFact
  <2>. HIDE DEF s
  <2>. QED  BY <1>1, <2>1 DEF Solves
<1>3. s[n][g] = IF n = m THEN g ELSE Ledger!Through(ps, rg, s, n, g)
  <2>. HIDE DEF s
  <2>. QED  BY <1>2
<1>4. Ledger!Through(ps, rg, s, n, g) = Ledger!Total(Entries(ps, rg, s, n, g), Len(ps[n]))
  BY ThroughEntries
<1>5. \A i \in 1 .. Len(ps[n]) :
        Entries(ps, rg, s, n, g)[i] =
          IF rg[ps[n][i]] THEN s[ps[n][i]][Pull(n, i, g)] ELSE NoGrad
  BY DEF Entries
<1>. QED
  BY <1>3, <1>4, <1>5 DEF Along, Shares

LEMMA AlongOther ==
  ASSUME NEW ps, NEW rg, Graph(ps), NEW n \in Node, NEW m \in Node, n # m,
         NEW g \in Grad
  PROVE  Along(ps, rg, n, m, g) = Ledger!Total(Shares(ps, rg, n, m, g), Len(ps[n]))
  BY AlongEquation

LEMMA Share ==
  ASSUME NEW ps, NEW rg, Graph(ps), NEW n \in Node, NEW m \in Node, NEW g \in Grad,
         NEW i \in 1 .. Len(ps[n])
  PROVE  Shares(ps, rg, n, m, g)[i] =
           IF rg[ps[n][i]] THEN Along(ps, rg, ps[n][i], m, Pull(n, i, g)) ELSE NoGrad
  BY AlongEquation

LEMMA AlongSelf ==
  ASSUME NEW ps, NEW rg, Graph(ps), NEW m \in Node, NEW g \in Grad
  PROVE  Along(ps, rg, m, m, g) = g
  BY AlongEquation

LEMMA StrongInduction ==
  ASSUME NEW S, \A k \in Nat : (\A j \in Nat : j < k => j \in S) => k \in S
  PROVE  \A k \in Nat : k \in S
<1>. DEFINE T == {k \in Nat : k \notin S}
<1>. SUFFICES ASSUME T # {} PROVE FALSE
  OBVIOUS
<1>1. T \in SUBSET Nat
  OBVIOUS
<1>2. PICK n \in T : \A m \in T : ~ (m < n)
  <2>. HIDE DEF T
  <2>. QED  BY <1>1, LeastExists
<1>3. n \in Nat /\ n \notin S
  OBVIOUS
<1>4. \A j \in Nat : j < n => j \in S
  BY <1>2
<1>. QED
  BY <1>3, <1>4

LEMMA AlongType ==
  ASSUME NEW ps, NEW rg, Graph(ps), NEW m \in Node
  PROVE  \A n \in Node : \A g \in Grad :
           Along(ps, rg, n, m, g) \in Maybe /\ (n < m => Along(ps, rg, n, m, g) = NoGrad)
<1>. DEFINE S == {n \in Nat : n \in Node => \A g \in Grad :
           Along(ps, rg, n, m, g) \in Maybe /\ (n < m => Along(ps, rg, n, m, g) = NoGrad)}
<1>1. ASSUME NEW n \in Nat, \A j \in Nat : j < n => j \in S PROVE n \in S
  <2>. SUFFICES ASSUME n \in Node, NEW g \in Grad
       PROVE Along(ps, rg, n, m, g) \in Maybe /\ (n < m => Along(ps, rg, n, m, g) = NoGrad)
    OBVIOUS
  <2>1. CASE n = m
    <3>1. n \in Node /\ ~ (n < n)
      BY DEF Node
    <3>2. Along(ps, rg, n, n, g) = g
      BY <3>1, AlongSelf
    <3>. QED  BY <2>1, <3>1, <3>2 DEF Maybe
  <2>2. CASE n # m
    <3>. DEFINE h == Shares(ps, rg, n, m, g)
    <3>1. Along(ps, rg, n, m, g) = Ledger!Total(h, Len(ps[n]))
      BY <2>2, AlongOther
    <3>2. ASSUME NEW i \in 1 .. Len(ps[n])
          PROVE  h[i] \in Maybe /\ (n < m => h[i] = NoGrad)
      <4>1. PICK p : p = ps[n][i]
        OBVIOUS
      <4>2. p \in Node /\ p \in Nat /\ p < n /\ Pull(n, i, g) \in Grad
        BY <4>1, Edge DEF Node
      <4>3. h[i] = IF rg[p] THEN Along(ps, rg, p, m, Pull(n, i, g)) ELSE NoGrad
        BY <4>1, Share
      <4>4. p \in S
        BY <1>1, <4>2
      <4>5. n < m => p < m
        BY <4>2 DEF Node
      <4>6. NoGrad \in Maybe
        BY DEF Maybe
      <4>. HIDE DEF h
      <4>. QED  BY <4>2, <4>3, <4>4, <4>5, <4>6
    <3>. HIDE DEF h
    <3>3. Len(ps[n]) \in Nat
      BY Edge
    <3>4. Along(ps, rg, n, m, g) \in Maybe
      BY <3>1, <3>2, <3>3, TotalType
    <3>5. n < m => Along(ps, rg, n, m, g) = NoGrad
      BY <3>1, <3>2, <3>3, TotalNone
    <3>. QED  BY <3>4, <3>5
  <2>. QED  BY <2>1, <2>2
<1>2. \A n \in Nat : n \in S
  <2>. HIDE DEF S
  <2>. QED  BY <1>1, StrongInduction
<1>. QED
  BY <1>2 DEF Node

(* A gradient that splits into two splits at every node it reaches.        *)
LEMMA AlongPlus ==
  ASSUME Linear, NEW ps, NEW rg, Graph(ps), NEW m \in Node
  PROVE  \A n \in Node : \A g, h \in Grad :
           Along(ps, rg, n, m, Plus(g, h)) = Join(Along(ps, rg, n, m, g), Along(ps, rg, n, m, h))
<1>. DEFINE S == {n \in Nat : n \in Node => \A g, h \in Grad :
           Along(ps, rg, n, m, Plus(g, h)) = Join(Along(ps, rg, n, m, g), Along(ps, rg, n, m, h))}
<1>1. ASSUME NEW n \in Nat, \A j \in Nat : j < n => j \in S PROVE n \in S
  <2>. SUFFICES ASSUME n \in Node, NEW g \in Grad, NEW h \in Grad
       PROVE Along(ps, rg, n, m, Plus(g, h)) = Join(Along(ps, rg, n, m, g), Along(ps, rg, n, m, h))
    OBVIOUS
  <2>0. Plus(g, h) \in Grad
    BY GradAssumption
  <2>1. CASE n = m
    <3>1. Join(g, h) = Plus(g, h)
      BY GradAssumption DEF Join, Ledger!Joined
    <3>2. /\ Along(ps, rg, n, n, g) = g /\ Along(ps, rg, n, n, h) = h
          /\ Along(ps, rg, n, n, Plus(g, h)) = Plus(g, h)
      BY <2>0, AlongSelf
    <3>. QED  BY <2>1, <3>1, <3>2
  <2>2. CASE n # m
    <3>. DEFINE a == Shares(ps, rg, n, m, g)
                b == Shares(ps, rg, n, m, h)
                c == Shares(ps, rg, n, m, Plus(g, h))
    <3>1. Along(ps, rg, n, m, g) = Ledger!Total(a, Len(ps[n]))
      BY <2>2, AlongOther
    <3>6. Along(ps, rg, n, m, h) = Ledger!Total(b, Len(ps[n]))
      BY <2>2, AlongOther
    <3>5. Along(ps, rg, n, m, Plus(g, h)) = Ledger!Total(c, Len(ps[n]))
      BY <2>0, <2>2, AlongOther
    <3>2. ASSUME NEW i \in 1 .. Len(ps[n])
          PROVE  a[i] \in Maybe /\ b[i] \in Maybe /\ c[i] = Join(a[i], b[i])
      <4>1. PICK p, x, y : p = ps[n][i] /\ x = Pull(n, i, g) /\ y = Pull(n, i, h)
        OBVIOUS
      <4>2. p \in Node /\ p \in Nat /\ p < n /\ x \in Grad /\ y \in Grad
        BY <4>1, Edge DEF Node
      <4>3. Pull(n, i, Plus(g, h)) = Plus(x, y)
        BY <4>1, Edge
      <4>4. /\ a[i] = IF rg[p] THEN Along(ps, rg, p, m, x) ELSE NoGrad
            /\ b[i] = IF rg[p] THEN Along(ps, rg, p, m, y) ELSE NoGrad
            /\ c[i] = IF rg[p] THEN Along(ps, rg, p, m, Plus(x, y)) ELSE NoGrad
        BY <2>0, <4>1, <4>3, Share
      <4>5. p \in S
        BY <1>1, <4>2
      <4>6. Along(ps, rg, p, m, Plus(x, y)) = Join(Along(ps, rg, p, m, x), Along(ps, rg, p, m, y))
        BY <4>2, <4>5
      <4>7. Along(ps, rg, p, m, x) \in Maybe /\ Along(ps, rg, p, m, y) \in Maybe
        BY <4>2, AlongType
      <4>8. NoGrad \in Maybe /\ Join(NoGrad, NoGrad) = NoGrad
        BY JoinFacts DEF Maybe
      <4>. HIDE DEF a, b, c
      <4>. QED  BY <4>4, <4>6, <4>7, <4>8
    <3>. HIDE DEF a, b, c
    <3>3. Len(ps[n]) \in Nat
      BY Edge
    <3>4. Ledger!Total(c, Len(ps[n]))
            = Join(Ledger!Total(a, Len(ps[n])), Ledger!Total(b, Len(ps[n])))
      BY <3>2, <3>3, TotalPointwise
    <3>. QED  BY <3>1, <3>4, <3>5, <3>6
  <2>. QED  BY <2>1, <2>2
<1>2. \A n \in Nat : n \in S
  <2>. HIDE DEF S
  <2>. QED  BY <1>1, StrongInduction
<1>. QED
  BY <1>2 DEF Node

(* New nodes leave the sums between older nodes alone.                     *)
LEMMA AlongLocal ==
  ASSUME NEW ps, NEW rg, NEW qs, NEW rh, Graph(ps), Graph(qs), NEW k \in Nat,
         \A n \in Node : n <= k => ps[n] = qs[n] /\ rg[n] = rh[n],
         NEW m \in Node
  PROVE  \A n \in Node : n <= k => \A g \in Grad :
           Along(ps, rg, n, m, g) = Along(qs, rh, n, m, g)
<1>. DEFINE S == {n \in Nat : n \in Node /\ n <= k => \A g \in Grad :
           Along(ps, rg, n, m, g) = Along(qs, rh, n, m, g)}
<1>1. ASSUME NEW n \in Nat, \A j \in Nat : j < n => j \in S PROVE n \in S
  <2>. SUFFICES ASSUME n \in Node, n <= k, NEW g \in Grad
       PROVE Along(ps, rg, n, m, g) = Along(qs, rh, n, m, g)
    OBVIOUS
  <2>1. CASE n = m
    <3>1. Along(ps, rg, n, n, g) = g /\ Along(qs, rh, n, n, g) = g
      BY AlongSelf
    <3>. QED  BY <2>1, <3>1
  <2>2. CASE n # m
    <3>. DEFINE a == Shares(ps, rg, n, m, g)
                b == Shares(qs, rh, n, m, g)
    <3>0. qs[n] = ps[n] /\ Len(ps[n]) \in Nat
      BY Edge
    <3>1. /\ Along(ps, rg, n, m, g) = Ledger!Total(a, Len(ps[n]))
          /\ Along(qs, rh, n, m, g) = Ledger!Total(b, Len(ps[n]))
      BY <2>2, <3>0, AlongOther
    <3>2. ASSUME NEW i \in 1 .. Len(ps[n])
          PROVE  a[i] = b[i]
      <4>1. PICK p, x : p = ps[n][i] /\ x = Pull(n, i, g)
        OBVIOUS
      <4>2. p \in Node /\ p \in Nat /\ p < n /\ x \in Grad
        BY <4>1, Edge DEF Node
      <4>3. p <= k
        BY <4>2
      <4>4. rg[p] = rh[p] /\ p = qs[n][i] /\ i \in 1 .. Len(qs[n])
        BY <3>0, <4>1, <4>2, <4>3
      <4>5. /\ a[i] = IF rg[p] THEN Along(ps, rg, p, m, x) ELSE NoGrad
            /\ b[i] = IF rh[p] THEN Along(qs, rh, p, m, x) ELSE NoGrad
        BY <4>1, <4>4, Share
      <4>6. Along(ps, rg, p, m, x) = Along(qs, rh, p, m, x)
        BY <1>1, <4>2, <4>3
      <4>. QED  BY <4>4, <4>5, <4>6
    <3>. HIDE DEF a, b
    <3>3. Ledger!Total(a, Len(ps[n])) = Ledger!Total(b, Len(ps[n]))
      BY <3>0, <3>2, TotalSame
    <3>. QED  BY <3>1, <3>3
  <2>. QED  BY <2>1, <2>2
<1>2. \A n \in Nat : n \in S
  <2>. HIDE DEF S
  <2>. QED  BY <1>1, StrongInduction
<1>. QED
  BY <1>2 DEF Node

-----------------------------------------------------------------------------
(* What one call still has to deliver: every step of the reverse loop      *)
(* moves it along the graph and loses nothing.                             *)

Flow(ps, rg, n, m, g) == IF g = NoGrad THEN NoGrad ELSE Along(ps, rg, n, m, g)

LEMMA FlowFacts ==
  ASSUME NEW ps, NEW rg, Graph(ps), NEW n \in Node, NEW m \in Node, NEW g \in Maybe
  PROVE  /\ Flow(ps, rg, n, m, g) \in Maybe
         /\ n = m => Flow(ps, rg, n, m, g) = g
         /\ n < m => Flow(ps, rg, n, m, g) = NoGrad
<1>1. CASE g = NoGrad
  BY <1>1 DEF Flow, Maybe
<1>2. CASE g \in Grad
  <2>1. Flow(ps, rg, n, m, g) = Along(ps, rg, n, m, g)
    BY <1>2, GradAssumption DEF Flow
  <2>2. Along(ps, rg, m, m, g) = g
    BY <1>2, AlongSelf
  <2>3. Along(ps, rg, n, m, g) \in Maybe /\ (n < m => Along(ps, rg, n, m, g) = NoGrad)
    BY <1>2, AlongType
  <2>. QED  BY <2>1, <2>2, <2>3
<1>. QED  BY <1>1, <1>2 DEF Maybe

LEMMA FlowJoin ==
  ASSUME Linear, NEW ps, NEW rg, Graph(ps), NEW n \in Node, NEW m \in Node,
         NEW g \in Maybe, NEW h \in Maybe
  PROVE  Flow(ps, rg, n, m, Join(g, h)) = Join(Flow(ps, rg, n, m, g), Flow(ps, rg, n, m, h))
<1>0. Flow(ps, rg, n, m, NoGrad) = NoGrad
  BY DEF Flow
<1>1. CASE g = NoGrad
  <2>1. Flow(ps, rg, n, m, h) \in Maybe
    BY FlowFacts
  <2>. QED  BY <1>0, <1>1, <2>1, JoinFacts
<1>2. CASE h = NoGrad
  <2>1. Flow(ps, rg, n, m, g) \in Maybe
    BY FlowFacts
  <2>. QED  BY <1>0, <1>2, <2>1, JoinFacts
<1>3. CASE g \in Grad /\ h \in Grad
  <2>1. Join(g, h) = Plus(g, h) /\ Plus(g, h) \in Grad
    BY <1>3, GradAssumption DEF Join, Ledger!Joined
  <2>2. Along(ps, rg, n, m, Plus(g, h)) = Join(Along(ps, rg, n, m, g), Along(ps, rg, n, m, h))
    BY <1>3, AlongPlus
  <2>3. \A x \in Grad : Flow(ps, rg, n, m, x) = Along(ps, rg, n, m, x)
    BY GradAssumption DEF Flow
  <2>. QED  BY <1>3, <2>1, <2>2, <2>3
<1>. QED  BY <1>1, <1>2, <1>3 DEF Maybe

(* What a node still has to send to the target m: nothing once the loop    *)
(* has passed it, what its remaining parents carry while it scatters, and  *)
(* otherwise its pending gradient along every path to m.  At m itself the  *)
(* pending gradient counts, passed or not.                                 *)
Passed(f, n) == \E j \in 1 .. Len(f.order) : j > f.pos /\ f.order[j] = n

Rest(ps, rg, f, n, m) ==
  [i \in 1 .. Len(ps[n]) |->
     IF i >= f.arg THEN Shares(ps, rg, n, m, f.pending[n])[i] ELSE NoGrad]

Load(ps, rg, f, n, m) ==
  IF n # m /\ Passed(f, n) THEN NoGrad
  ELSE IF n # m /\ f.phase = "scatter" /\ n = f.order[f.pos]
       THEN Ledger!Total(Rest(ps, rg, f, n, m), Len(ps[n]))
  ELSE Flow(ps, rg, n, m, f.pending[n])

Loads(ps, rg, f, m) == [n \in Node |-> Load(ps, rg, f, n, m)]

Accounts(ps, rg, f) ==
  f.phase \in Loop =>
    \A m \in Node :
      Ledger!Total(Loads(ps, rg, f, m), MaxNodes) = Along(ps, rg, f.root, m, f.seed)

(* Two frames of one call, at the same order.                              *)
OneCall(f, g) == g.root = f.root /\ g.seed = f.seed /\ g.order = f.order
AtNode(f, c) ==
  /\ f.pos \in 1 .. Len(f.order)
  /\ c = f.order[f.pos]
  /\ c \in Node
  /\ \A j, k \in 1 .. Len(f.order) : j # k => f.order[j] # f.order[k]

LEMMA SameLoads ==
  ASSUME NEW ps, NEW rg, NEW f, NEW g, OneCall(f, g), f.phase \in Loop,
         Accounts(ps, rg, f),
         \A n, m \in Node : Load(ps, rg, g, n, m) = Load(ps, rg, f, n, m)
  PROVE  Accounts(ps, rg, g)
<1>. SUFFICES ASSUME NEW m \in Node
     PROVE  Ledger!Total(Loads(ps, rg, g, m), MaxNodes) = Along(ps, rg, g.root, m, g.seed)
  BY DEF Accounts
<1>1. Ledger!Total(Loads(ps, rg, f, m), MaxNodes) = Along(ps, rg, f.root, m, f.seed)
  BY DEF Accounts
<1>2. Loads(ps, rg, g, m) = Loads(ps, rg, f, m)
  BY DEF Loads
<1>. QED  BY <1>1, <1>2 DEF OneCall

LEMMA Waiting ==
  ASSUME NEW ps, NEW rg, NEW f, NEW g, OneCall(f, g), Accounts(ps, rg, f),
         f.phase \in {"walk", "callback"}, g.phase \in {"walk", "callback", "prepare"},
         g.pos = f.pos, g.pending = f.pending
  PROVE  Accounts(ps, rg, g)
<1>1. \A n \in Node : Passed(g, n) <=> Passed(f, n)
  BY DEF Passed, OneCall
<1>2. f.phase # "scatter" /\ g.phase # "scatter" /\ f.phase \in Loop
  BY DEF Loop
<1>3. \A n, m \in Node : Load(ps, rg, g, n, m) = Load(ps, rg, f, n, m)
  BY <1>1, <1>2 DEF Load
<1>. QED  BY <1>2, <1>3, SameLoads

LEMMA PassedOver ==
  ASSUME NEW ps, NEW rg, NEW f \in Frame, NEW g \in Frame, NEW c, OneCall(f, g), AtNode(f, c),
         f.phase \in Loop, g.phase = "walk", f.phase \in {"walk", "scatter"},
         g.pos = f.pos - 1, g.pending = f.pending,
         Accounts(ps, rg, f),
         \A m \in Node : m # c => Load(ps, rg, f, c, m) = NoGrad
  PROVE  Accounts(ps, rg, g)
<1>0. f.pos \in Nat /\ f.order \in Seq(Node) /\ Len(f.order) \in Nat
  BY LenProperties DEF Frame
<1>1. \A n \in Node : n # c => (Passed(g, n) <=> Passed(f, n))
  <2>. SUFFICES ASSUME NEW n \in Node, n # c PROVE Passed(g, n) <=> Passed(f, n)
    OBVIOUS
  <2>1. \A j \in 1 .. Len(f.order) : f.order[j] = n => (j > f.pos <=> j > f.pos - 1)
    BY <1>0 DEF AtNode
  <2>. QED  BY <2>1 DEF Passed, OneCall
<1>2. Passed(g, c) /\ ~ Passed(f, c)
  <2>1. f.pos > f.pos - 1 /\ \A j \in 1 .. Len(f.order) : j > f.pos => j # f.pos
    BY <1>0
  <2>. QED  BY <2>1 DEF Passed, AtNode, OneCall
<1>3. g.phase # "scatter"
  OBVIOUS
<1>4. ASSUME NEW n \in Node, NEW m \in Node
      PROVE  Load(ps, rg, g, n, m) = Load(ps, rg, f, n, m)
  <2>1. CASE n = m
    BY <2>1 DEF Load
  <2>2. CASE n # m /\ n = c
    BY <1>2, <2>2 DEF Load
  <2>3. CASE n # m /\ n # c
    BY <1>1, <1>3, <2>3 DEF Load, AtNode
  <2>. QED  BY <2>1, <2>2, <2>3
<1>. QED  BY <1>4, SameLoads

LEMMA Entering ==
  ASSUME NEW ps, NEW rg, Graph(ps), NEW f \in Frame, NEW g \in Frame, NEW c,
         OneCall(f, g), AtNode(f, c),
         f.phase \in {"walk", "callback"}, g.phase = "scatter",
         g.pos = f.pos, g.pending = f.pending, g.arg = 1, f.pending[c] \in Grad,
         Accounts(ps, rg, f)
  PROVE  Accounts(ps, rg, g)
<1>1. \A n \in Node : Passed(g, n) <=> Passed(f, n)
  BY DEF Passed, OneCall
<1>2. f.phase # "scatter" /\ f.phase \in Loop /\ c \in Node /\ g.order[g.pos] = c
  BY DEF Loop, AtNode, OneCall
<1>3. ASSUME NEW m \in Node, m # c
      PROVE  Ledger!Total(Rest(ps, rg, g, c, m), Len(ps[c])) = Flow(ps, rg, c, m, f.pending[c])
  <2>1. Len(ps[c]) \in Nat
    BY <1>2, Edge
  <2>2. \A i \in 1 .. Len(ps[c]) :
          Rest(ps, rg, g, c, m)[i] = Shares(ps, rg, c, m, f.pending[c])[i]
    BY <2>1 DEF Rest
  <2>3. Ledger!Total(Rest(ps, rg, g, c, m), Len(ps[c]))
          = Ledger!Total(Shares(ps, rg, c, m, f.pending[c]), Len(ps[c]))
    BY <2>1, <2>2, TotalSame
  <2>4. Along(ps, rg, c, m, f.pending[c])
          = Ledger!Total(Shares(ps, rg, c, m, f.pending[c]), Len(ps[c]))
    BY <1>2, <1>3, AlongOther
  <2>. QED  BY <2>3, <2>4, GradAssumption DEF Flow
<1>4. ASSUME NEW n \in Node, NEW m \in Node
      PROVE  Load(ps, rg, g, n, m) = Load(ps, rg, f, n, m)
  <2>1. CASE n = m
    BY <2>1 DEF Load
  <2>2. CASE n # m /\ n = c
    BY <1>1, <1>2, <1>3, <2>2 DEF Load
  <2>3. CASE n # m /\ n # c
    BY <1>1, <1>2, <2>3 DEF Load
  <2>. QED  BY <2>1, <2>2, <2>3
<1>. QED  BY <1>2, <1>4, SameLoads

LEMMA LoadType ==
  ASSUME NEW ps, NEW rg, Graph(ps), NEW f \in Frame, NEW n \in Node, NEW m \in Node,
         f.phase = "scatter" => f.pending[f.order[f.pos]] \in Grad
  PROVE  Load(ps, rg, f, n, m) \in Maybe
<1>1. f.pending[n] \in Maybe /\ NoGrad \in Maybe
  BY DEF Frame, GradMap, Maybe
<1>2. Flow(ps, rg, n, m, f.pending[n]) \in Maybe
  BY <1>1, FlowFacts
<1>3. ASSUME f.phase = "scatter", n = f.order[f.pos], n # m
      PROVE  Ledger!Total(Rest(ps, rg, f, n, m), Len(ps[n])) \in Maybe
  <2>1. f.pending[n] \in Grad /\ Len(ps[n]) \in Nat
    BY <1>3, Edge
  <2>2. ASSUME NEW i \in 1 .. Len(ps[n])
        PROVE  Rest(ps, rg, f, n, m)[i] \in Maybe
    <3>1. PICK p, x : p = ps[n][i] /\ x = Pull(n, i, f.pending[n])
      OBVIOUS
    <3>2. p \in Node /\ x \in Grad
      BY <2>1, <3>1, Edge
    <3>3. Along(ps, rg, p, m, x) \in Maybe
      BY <3>2, AlongType
    <3>4. Shares(ps, rg, n, m, f.pending[n])[i] =
            IF rg[p] THEN Along(ps, rg, p, m, x) ELSE NoGrad
      BY <2>1, <3>1, Share
    <3>. QED  BY <1>1, <3>3, <3>4 DEF Rest
  <2>. QED  BY <2>1, <2>2, TotalType
<1>. QED
  BY <1>1, <1>2, <1>3 DEF Load

(* One iteration of the parent loop of node c: what its i-th parent p      *)
(* receives is what the rest of c's list no longer carries.                *)
Scattered(ps, rg, f, g, c, p, y) ==
  /\ f.phase = "scatter" /\ g.phase = "scatter" /\ g.pos = f.pos
  /\ ~ Passed(f, c) /\ ~ Passed(f, p)
  /\ f.pending[c] \in Grad
  /\ f.arg \in 1 .. Len(ps[c]) /\ g.arg = f.arg + 1
  /\ p = ps[c][f.arg] /\ y = Pull(c, f.arg, f.pending[c])
  /\ g.pending = IF rg[p] THEN [f.pending EXCEPT ![p] = Join(f.pending[p], y)] ELSE f.pending

LEMMA Scattering ==
  ASSUME Linear, NEW ps, NEW rg, Graph(ps), NEW f \in Frame, NEW g \in Frame, NEW c, NEW p, NEW y,
         OneCall(f, g), AtNode(f, c), Scattered(ps, rg, f, g, c, p, y),
         Accounts(ps, rg, f)
  PROVE  Accounts(ps, rg, g)
<1>. DEFINE a == f.arg
<1>1. /\ f.phase = "scatter" /\ g.phase = "scatter" /\ g.order[g.pos] = c /\ f.order[f.pos] = c
      /\ f.pending[c] \in Grad /\ f.pending \in [Node -> Maybe] /\ g.pending \in [Node -> Maybe]
      /\ c \in Node /\ a \in 1 .. Len(ps[c]) /\ a \in Nat /\ g.arg = a + 1
  BY DEF Scattered, AtNode, OneCall, Frame, GradMap, Maybe
<1>2. /\ p \in Node /\ p < c /\ p # c /\ y \in Grad
      /\ \A n \in Node : Passed(g, n) <=> Passed(f, n)
      /\ ~ Passed(f, c) /\ ~ Passed(f, p)
  <2>1. p \in Node /\ p < c /\ y \in Grad
    BY <1>1, Edge DEF Scattered
  <2>2. p # c
    BY <1>1, <2>1 DEF Node
  <2>3. \A n \in Node : Passed(g, n) <=> Passed(f, n)
    BY DEF Passed, Scattered, OneCall
  <2>. QED  BY <2>1, <2>2, <2>3 DEF Scattered
<1>3. /\ g.pending[c] = f.pending[c]
      /\ \A n \in Node : n # p => g.pending[n] = f.pending[n]
      /\ g.pending[p] = IF rg[p] THEN Join(f.pending[p], y) ELSE f.pending[p]
  BY <1>1, <1>2 DEF Scattered
<1>4. f.phase \in Loop
  BY <1>1 DEF Loop
<1>. SUFFICES ASSUME NEW m \in Node
     PROVE  Ledger!Total(Loads(ps, rg, g, m), MaxNodes) = Along(ps, rg, g.root, m, g.seed)
  BY DEF Accounts
<1>5. Ledger!Total(Loads(ps, rg, f, m), MaxNodes) = Along(ps, rg, f.root, m, f.seed)
  BY <1>4 DEF Accounts
<1>. DEFINE x == IF rg[p] THEN Along(ps, rg, p, m, y) ELSE NoGrad
<1>6. x \in Maybe /\ (p < m => x = NoGrad)
  <2>1. NoGrad \in Maybe
    BY DEF Maybe
  <2>. QED  BY <1>2, <2>1, AlongType
<1>7. Shares(ps, rg, c, m, f.pending[c])[a] = x
  <2>1. p = ps[c][a] /\ y = Pull(c, a, f.pending[c])
    BY DEF Scattered
  <2>. QED  BY <1>1, <2>1, Share
<1>8. Load(ps, rg, g, p, m) = Join(Load(ps, rg, f, p, m), x)
  <2>1. /\ Load(ps, rg, g, p, m) = Flow(ps, rg, p, m, g.pending[p])
        /\ Load(ps, rg, f, p, m) = Flow(ps, rg, p, m, f.pending[p])
    BY <1>1, <1>2 DEF Load
  <2>2. f.pending[p] \in Maybe /\ y \in Maybe
    BY <1>1, <1>2 DEF Maybe
  <2>3. CASE rg[p]
    <3>1. Flow(ps, rg, p, m, g.pending[p])
            = Join(Flow(ps, rg, p, m, f.pending[p]), Flow(ps, rg, p, m, y))
      BY <1>2, <1>3, <2>2, <2>3, FlowJoin
    <3>2. Flow(ps, rg, p, m, y) = x
      BY <1>2, <2>3, GradAssumption DEF Flow
    <3>. HIDE DEF x
    <3>. QED  BY <2>1, <3>1, <3>2
  <2>4. CASE ~ rg[p]
    <3>1. x = NoGrad /\ g.pending[p] = f.pending[p]
      BY <1>3, <2>4
    <3>2. Flow(ps, rg, p, m, f.pending[p]) \in Maybe
      BY <1>2, <2>2, FlowFacts
    <3>. HIDE DEF x
    <3>. QED  BY <2>1, <3>1, <3>2, JoinFacts
  <2>. QED  BY <2>3, <2>4
<1>9. \A n \in Node : n # p /\ n # c => Load(ps, rg, g, n, m) = Load(ps, rg, f, n, m)
  BY <1>1, <1>2, <1>3 DEF Load
<1>10. \A n \in Node : Load(ps, rg, f, n, m) \in Maybe /\ Load(ps, rg, g, n, m) \in Maybe
  BY <1>1, <1>3, LoadType
<1>. HIDE DEF x
<1>11. CASE c = m
  <2>1. x = NoGrad
    BY <1>2, <1>6, <1>11
  <2>2. Load(ps, rg, g, p, m) = Load(ps, rg, f, p, m)
    BY <1>2, <1>8, <1>10, <2>1, JoinFacts
  <2>3. Load(ps, rg, g, c, m) = Load(ps, rg, f, c, m)
    BY <1>3, <1>11 DEF Load
  <2>4. Loads(ps, rg, g, m) = Loads(ps, rg, f, m)
    BY <1>9, <2>2, <2>3 DEF Loads
  <2>. QED  BY <1>5, <2>4 DEF OneCall
<1>12. CASE c # m
  <2>. DEFINE k == Len(ps[c])
              h == Rest(ps, rg, g, c, m)
              e == Rest(ps, rg, f, c, m)
  <2>1. Load(ps, rg, f, c, m) = Ledger!Total(e, k) /\ Load(ps, rg, g, c, m) = Ledger!Total(h, k)
    BY <1>1, <1>2, <1>12 DEF Load
  <2>2. k \in Nat
    BY <1>1, Edge
  <2>3. /\ h[a] = NoGrad /\ e[a] = x
        /\ \A i \in 1 .. k : i # a => e[i] = h[i]
    <3>1. ASSUME NEW i \in 1 .. k
          PROVE  /\ h[i] = IF i >= a + 1 THEN Shares(ps, rg, c, m, f.pending[c])[i] ELSE NoGrad
                 /\ e[i] = IF i >= a THEN Shares(ps, rg, c, m, f.pending[c])[i] ELSE NoGrad
      BY <1>1, <1>3 DEF Rest
    <3>2. a \in 1 .. k /\ ~ (a >= a + 1) /\ a >= a
      BY <1>1
    <3>3. \A i \in 1 .. k : i # a => (i >= a + 1 <=> i >= a)
      BY <1>1
    <3>. HIDE DEF h, e, k, a
    <3>. QED  BY <1>7, <3>1, <3>2, <3>3
  <2>4. \A i \in 1 .. k : h[i] \in Maybe
    <3>1. NoGrad \in Maybe
      BY DEF Maybe
    <3>2. ASSUME NEW i \in 1 .. k
          PROVE  Shares(ps, rg, c, m, f.pending[c])[i] \in Maybe
      <4>1. PICK q, z : q = ps[c][i] /\ z = Pull(c, i, f.pending[c])
        OBVIOUS
      <4>2. q \in Node /\ z \in Grad
        BY <1>1, <4>1, Edge
      <4>3. Along(ps, rg, q, m, z) \in Maybe
        BY <4>2, AlongType
      <4>4. Shares(ps, rg, c, m, f.pending[c])[i] =
              IF rg[q] THEN Along(ps, rg, q, m, z) ELSE NoGrad
        BY <1>1, <4>1, Share
      <4>. QED  BY <3>1, <4>3, <4>4
    <3>. QED  BY <1>3, <3>1, <3>2 DEF Rest
  <2>5. e[a] = Join(h[a], x)
    BY <1>6, <2>3, JoinFacts
  <2>. HIDE DEF h, e, k, a
  <2>6. a \in 1 .. k
    BY <1>1 DEF k
  <2>7. Ledger!Total(e, k) = Join(Ledger!Total(h, k), x)
    BY <1>6, <2>2, <2>3, <2>4, <2>5, <2>6, TotalAdd
  <2>8. Load(ps, rg, f, c, m) = Join(Load(ps, rg, g, c, m), x)
    BY <2>1, <2>7
  <2>. DEFINE u == Loads(ps, rg, f, m)
              w == Loads(ps, rg, g, m)
  <2>9. \A n \in Node : u[n] = Load(ps, rg, f, n, m) /\ w[n] = Load(ps, rg, g, n, m)
    BY DEF Loads
  <2>. HIDE DEF u, w
  <2>10. /\ MaxNodes \in Nat /\ c \in 1 .. MaxNodes /\ p \in 1 .. MaxNodes
         /\ \A i \in 1 .. MaxNodes : u[i] \in Maybe /\ w[i] \in Maybe
         /\ u[c] = Join(w[c], x) /\ w[p] = Join(u[p], x)
         /\ \A i \in 1 .. MaxNodes : i # c /\ i # p => w[i] = u[i]
    BY <1>1, <1>2, <1>8, <1>9, <1>10, <2>8, <2>9, BoundsAssumption DEF Node
  <2>11. Ledger!Total(w, MaxNodes) = Ledger!Total(u, MaxNodes)
    BY <1>2, <1>6, <2>10, TotalMove
  <2>. QED  BY <1>5, <2>11 DEF u, w, OneCall
<1>. QED  BY <1>11, <1>12

(* The loop starts with the seed at the root and nothing passed.           *)
LEMMA Starting ==
  ASSUME NEW ps, NEW rg, Graph(ps), NEW f \in Frame, f.phase = "walk",
         f.pos = Len(f.order), f.root \in Node, f.seed \in Grad,
         f.pending = [EmptyMap EXCEPT ![f.root] = f.seed]
  PROVE  Accounts(ps, rg, f)
<1>. SUFFICES ASSUME NEW m \in Node
     PROVE  Ledger!Total(Loads(ps, rg, f, m), MaxNodes) = Along(ps, rg, f.root, m, f.seed)
  BY DEF Accounts
<1>1. \A n \in Node : ~ Passed(f, n)
  <2>1. \A j \in 1 .. Len(f.order) : ~ (j > Len(f.order))
    BY LenProperties DEF Frame
  <2>. QED  BY <2>1 DEF Passed
<1>2. /\ f.pending[f.root] = f.seed
      /\ \A n \in Node : n # f.root => f.pending[n] = NoGrad
  BY DEF EmptyMap
<1>3. \A n \in Node : Load(ps, rg, f, n, m) = Flow(ps, rg, n, m, f.pending[n])
  BY <1>1 DEF Load
<1>. DEFINE h == Loads(ps, rg, f, m)
<1>4. \A n \in Node : h[n] = Flow(ps, rg, n, m, f.pending[n])
  BY <1>3 DEF Loads
<1>5. h[f.root] = Along(ps, rg, f.root, m, f.seed)
  BY <1>2, <1>4, GradAssumption DEF Flow
<1>6. \A n \in Node : n # f.root => h[n] = NoGrad
  BY <1>2, <1>4 DEF Flow
<1>7. h[f.root] \in Maybe
  BY <1>5, AlongType
<1>. HIDE DEF h
<1>8. Ledger!Total(h, MaxNodes) = h[f.root]
  BY <1>6, <1>7, TotalSingle, BoundsAssumption DEF Node
<1>. QED  BY <1>5, <1>8 DEF h

(* When the loop has ended, the pending gradients are the path sums.       *)
Settled(f) ==
  /\ f.phase = "prepare" /\ f.pos = 0
  /\ \A n \in Node : f.pending[n] # NoGrad => \E j \in 1 .. Len(f.order) : f.order[j] = n

LEMMA Finished ==
  ASSUME NEW ps, NEW rg, Graph(ps), NEW f \in Frame, Settled(f),
         Accounts(ps, rg, f), NEW m \in Node
  PROVE  Along(ps, rg, f.root, m, f.seed) = f.pending[m]
<1>. DEFINE h == Loads(ps, rg, f, m)
<1>1. Ledger!Total(h, MaxNodes) = Along(ps, rg, f.root, m, f.seed)
  BY DEF Accounts, Loop, Settled
<1>2. \A n \in Node : h[n] = Load(ps, rg, f, n, m)
  BY DEF Loads
<1>3. ASSUME NEW n \in Node, n # m PROVE h[n] = NoGrad
  <2>1. CASE f.pending[n] = NoGrad
    BY <1>2, <1>3, <2>1 DEF Load, Flow, Settled
  <2>2. CASE f.pending[n] # NoGrad
    <3>1. PICK j \in 1 .. Len(f.order) : f.order[j] = n
      BY <2>2 DEF Settled
    <3>2. j > f.pos
      BY DEF Settled
    <3>3. Passed(f, n)
      BY <3>1, <3>2 DEF Passed
    <3>. QED  BY <1>2, <1>3, <3>3 DEF Load
  <2>. QED  BY <2>1, <2>2
<1>4. f.pending[m] \in Maybe
  BY DEF Frame, GradMap, Maybe
<1>5. h[m] = f.pending[m]
  <2>1. Flow(ps, rg, m, m, f.pending[m]) = f.pending[m]
    BY <1>4, FlowFacts
  <2>. QED  BY <1>2, <2>1 DEF Load
<1>. HIDE DEF h
<1>6. Ledger!Total(h, MaxNodes) = h[m]
  BY <1>3, <1>4, <1>5, TotalSingle, BoundsAssumption DEF Node
<1>. QED  BY <1>1, <1>5, <1>6

-----------------------------------------------------------------------------
(* The steps of the engine, of user code and of failures.                  *)

(* Every call in progress was given one of the seeds, and its pending      *)
(* gradients account for all the paths from its root.                      *)
AccountsInv ==
  \A d \in 1 .. depth :
    frame[d].seed \in Seeds /\ Accounts(parents, requires_grad, frame[d])

LEMMA GraphNow ==
  ASSUME IInv
  PROVE  Graph(parents)
  BY DEF IInv, TypeOK, NodeInv, Graph

LEMMA TopAccounts ==
  ASSUME IInv, AccountsInv, depth > 0
  PROVE  Top.seed \in Seeds /\ Accounts(parents, requires_grad, Top)
<1>1. depth \in 1 .. depth
  BY TopInv
<1>. QED  BY <1>1 DEF AccountsInv, Top

LEMMA EngineAccounts ==
  ASSUME IInv, AccountsInv, depth > 0, UNCHANGED <<graph, depth>>,
         NEW f, SetTop(f), f.seed = Top.seed, Accounts(parents, requires_grad, f)
  PROVE  AccountsInv'
<1>1. TypeOK /\ depth \in 1 .. MaxDepth
  BY TopInv
<1>2. frame'[depth] = f /\ \A d \in 1 .. depth : d # depth => frame'[d] = frame[d]
  BY <1>1 DEF SetTop, TypeOK
<1>3. f.seed \in Seeds
  BY TopAccounts
<1>4. parents' = parents /\ requires_grad' = requires_grad /\ depth' = depth
  BY DEF graph
<1>5. ASSUME NEW d \in 1 .. depth
      PROVE  frame'[d].seed \in Seeds /\ Accounts(parents, requires_grad, frame'[d])
  BY <1>2, <1>3 DEF AccountsInv
<1>6. ASSUME NEW d \in 1 .. depth'
      PROVE  frame'[d].seed \in Seeds /\ Accounts(parents', requires_grad', frame'[d])
  BY <1>4, <1>5
<1>. QED  BY <1>6 DEF AccountsInv, Accounts, Loads, Load, Passed, Rest

(* The loop's node is in the order once.                                   *)
LEMMA TopAtNode ==
  ASSUME IInv, depth > 0, Top.phase \in Loop, Top.pos > 0
  PROVE  AtNode(Top, Current) /\ ~ Passed(Top, Current) /\ Top \in Frame
<1>1. Top.pos \in 1 .. Len(Top.order) /\ Current \in Node
  BY CurrentNode
<1>2. \A j, k \in 1 .. Len(Top.order) : j # k => Top.order[j] # Top.order[k]
  BY TopInv DEF FrameInv, SearchInv, Partition
<1>3. Top \in Frame /\ TypeOK
  BY TopInv, TopFrame
<1>4. AtNode(Top, Current)
  BY <1>1, <1>2 DEF AtNode, Current
<1>5. ~ Passed(Top, Current)
  <2>1. \A j \in 1 .. Len(Top.order) : j > Top.pos => j # Top.pos
    BY <1>1
  <2>. QED  BY <1>1, <1>2, <2>1 DEF Passed, Current
<1>. QED  BY <1>3, <1>4, <1>5

(* A search that has not ended has nothing pending to account for.         *)
LEMMA SearchAccounts ==
  ASSUME IInv, AccountsInv, depth > 0, UNCHANGED <<graph, depth>>,
         NEW f, SetTop(f), f.phase = "visit", f.seed = Top.seed
  PROVE  AccountsInv'
<1>1. Accounts(parents, requires_grad, f)
  BY DEF Accounts, Loop
<1>. QED  BY <1>1, EngineAccounts

LEMMA VisitParentAccounts ==
  ASSUME IInv, AccountsInv, VisitParent
  PROVE  AccountsInv'
<1>. DEFINE p == parents[Innermost.node][Innermost.next]
<1>1. depth > 0 /\ Top.phase = "visit" /\ UNCHANGED <<graph, depth>>
  BY DEF VisitParent, InPhase
<1>2. SetTop(IF p \in Top.visited
             THEN [Top EXCEPT !.stack = Advanced]
             ELSE [Top EXCEPT !.stack = Pushed(Advanced, [node |-> p, next |-> 1]),
                              !.visited = @ \cup {p}])
  BY DEF VisitParent
<1>3. Top \in Frame
  BY <1>1, TopInv, TopFrame
<1>. HIDE DEF p
<1>4. CASE p \in Top.visited
  <2>. DEFINE f == [Top EXCEPT !.stack = Advanced]
  <2>1. f.phase = "visit" /\ f.seed = Top.seed /\ SetTop(f)
    BY <1>1, <1>2, <1>3, <1>4 DEF Frame
  <2>. HIDE DEF f
  <2>. QED  BY <1>1, <2>1, SearchAccounts
<1>5. CASE p \notin Top.visited
  <2>. DEFINE f == [Top EXCEPT !.stack = Pushed(Advanced, [node |-> p, next |-> 1]),
                               !.visited = @ \cup {p}]
  <2>1. SetTop(f)
    BY <1>2, <1>5
  <2>2. f.phase = "visit" /\ f.seed = Top.seed
    BY <1>1, <1>3 DEF Frame
  <2>. HIDE DEF f
  <2>. QED  BY <1>1, <2>1, <2>2, SearchAccounts
<1>. QED  BY <1>4, <1>5

LEMMA VisitDoneAccounts ==
  ASSUME IInv, AccountsInv, VisitDone
  PROVE  AccountsInv'
<1>. DEFINE f == [Top EXCEPT !.stack = Popped(Top.stack), !.order = Append(@, Innermost.node)]
<1>1. depth > 0 /\ Top.phase = "visit" /\ SetTop(f) /\ UNCHANGED <<graph, depth>>
  BY DEF VisitDone, InPhase
<1>2. Top \in Frame
  BY <1>1, TopInv, TopFrame
<1>3. f.phase = "visit" /\ f.seed = Top.seed
  BY <1>1, <1>2 DEF Frame
<1>. HIDE DEF f
<1>. QED  BY <1>1, <1>3, SearchAccounts

LEMMA StartWalkAccounts ==
  ASSUME IInv, AccountsInv, StartWalk
  PROVE  AccountsInv'
<1>. DEFINE g == [EmptyMap EXCEPT ![Top.root] = Top.seed]
            f == [Top EXCEPT !.phase = "walk", !.pos = Len(Top.order), !.pending = g]
<1>1. /\ depth > 0 /\ Top.phase = "visit" /\ SetTop(f) /\ UNCHANGED <<graph, depth>>
  BY DEF StartWalk, InPhase
<1>2. TypeOK /\ FrameInv(Top) /\ Top \in Frame
  BY <1>1, TopInv, TopFrame
<1>3. Top.root \in Node /\ Top.seed \in Grad
  BY <1>1, <1>2, TopFrame DEF FrameInv, SearchInv, Reached
<1>4. Len(Top.order) \in Nat
  BY <1>1, <1>2, TopFrame, LenProperties
<1>5. g \in GradMap
  BY <1>3 DEF EmptyMap, GradMap
<1>. HIDE DEF g
<1>6. /\ f \in Frame
      /\ f.phase = "walk" /\ f.root = Top.root /\ f.seed = Top.seed
      /\ f.order = Top.order /\ f.pos = Len(Top.order) /\ f.pending = g
  BY <1>2, <1>4, <1>5 DEF Frame, Phase
<1>. HIDE DEF f
<1>7. f.pos = Len(f.order) /\ f.root \in Node /\ f.seed \in Grad
      /\ f.pending = [EmptyMap EXCEPT ![f.root] = f.seed]
  BY <1>3, <1>6 DEF g
<1>8. Accounts(parents, requires_grad, f)
  BY <1>6, <1>7, GraphNow, Starting
<1>. QED  BY <1>1, <1>6, <1>8, EngineAccounts

(* The loop hands a node to its backward function.                         *)
LEMMA EnterAccounts ==
  ASSUME IInv, AccountsInv, depth > 0, UNCHANGED <<graph, depth>>,
         Top.phase \in {"walk", "callback"}, Top.pos > 0, Top.pending[Current] # NoGrad,
         SetTop([Top EXCEPT !.phase = "scatter", !.arg = 1])
  PROVE  AccountsInv'
<1>. DEFINE f == [Top EXCEPT !.phase = "scatter", !.arg = 1]
<1>1. AtNode(Top, Current) /\ Top \in Frame /\ Current \in Node
  BY TopAtNode DEF Loop, AtNode
<1>2. /\ f \in Frame
      /\ f.phase = "scatter" /\ f.root = Top.root /\ f.seed = Top.seed
      /\ f.order = Top.order /\ f.pos = Top.pos /\ f.arg = 1 /\ f.pending = Top.pending
  BY <1>1 DEF Frame, Phase
<1>3. SetTop(f)
  OBVIOUS
<1>. HIDE DEF f
<1>4. OneCall(Top, f)
  BY <1>2 DEF OneCall
<1>5. Top.pending[Current] \in Grad
  BY <1>1 DEF Frame, GradMap
<1>6. Accounts(parents, requires_grad, Top)
  BY TopAccounts
<1>7. Accounts(parents, requires_grad, f)
  BY <1>1, <1>2, <1>4, <1>5, <1>6, GraphNow, Entering
<1>. QED  BY <1>2, <1>3, <1>7, EngineAccounts

(* The loop leaves a node that has nothing more to send.                   *)
LEMMA PassAccounts ==
  ASSUME IInv, AccountsInv, depth > 0, UNCHANGED <<graph, depth>>,
         Top.phase \in {"walk", "scatter"}, Top.pos > 0,
         NEW f \in Frame, SetTop(f), OneCall(Top, f), f.phase = "walk",
         f.pos = Top.pos - 1, f.pending = Top.pending,
         \A m \in Node : m # Current =>
           Load(parents, requires_grad, Top, Current, m) = NoGrad
  PROVE  AccountsInv'
<1>1. AtNode(Top, Current) /\ Top \in Frame /\ Top.phase \in Loop
  BY TopAtNode DEF Loop
<1>2. Accounts(parents, requires_grad, Top)
  BY TopAccounts
<1>3. Accounts(parents, requires_grad, f)
  BY <1>1, <1>2, PassedOver
<1>. QED  BY <1>3, EngineAccounts DEF OneCall

LEMMA WalkAccounts ==
  ASSUME IInv, AccountsInv, Walk
  PROVE  AccountsInv'
<1>1. /\ depth > 0 /\ Top.phase = "walk" /\ Top.pos > 0
      /\ UNCHANGED <<graph, depth>>
  BY DEF Walk, InPhase
<1>2. /\ AtNode(Top, Current) /\ Top \in Frame /\ Current \in Node
      /\ ~ Passed(Top, Current) /\ Top.pos \in Nat
  BY <1>1, TopAtNode DEF Loop, AtNode, Frame
<1>3. CASE /\ Top.pending[Current] = NoGrad \/ kind[Current] = "Leaf"
           /\ SetTop([Top EXCEPT !.pos = @ - 1])
  <2>. DEFINE f == [Top EXCEPT !.pos = @ - 1]
  <2>1. /\ f \in Frame
        /\ f.phase = "walk" /\ f.root = Top.root /\ f.seed = Top.seed
        /\ f.order = Top.order /\ f.pos = Top.pos - 1 /\ f.pending = Top.pending
    BY <1>1, <1>2 DEF Frame
  <2>2. SetTop(f)
    BY <1>3
  <2>. HIDE DEF f
  <2>3. OneCall(Top, f)
    BY <2>1 DEF OneCall
  <2>4. ASSUME NEW m \in Node, m # Current
        PROVE  Load(parents, requires_grad, Top, Current, m) = NoGrad
    <3>1. Load(parents, requires_grad, Top, Current, m)
            = Flow(parents, requires_grad, Current, m, Top.pending[Current])
      BY <1>1, <1>2, <2>4 DEF Load
    <3>2. CASE Top.pending[Current] = NoGrad
      BY <3>1, <3>2 DEF Flow
    <3>3. CASE Top.pending[Current] # NoGrad
      <4>1. parents[Current] = <<>>
        BY <1>2, <1>3, <3>3 DEF IInv, NodeInv
      <4>2. Top.pending[Current] \in Grad
        BY <1>2, <3>3 DEF Frame, GradMap
      <4>3. Along(parents, requires_grad, Current, m, Top.pending[Current])
              = Ledger!Total(Shares(parents, requires_grad, Current, m, Top.pending[Current]),
                             Len(parents[Current]))
        BY <1>2, <2>4, <4>2, GraphNow, AlongOther
      <4>4. Len(parents[Current]) = 0
        BY <4>1
      <4>5. Along(parents, requires_grad, Current, m, Top.pending[Current]) = NoGrad
        BY <4>3, <4>4, TotalNext
      <4>. QED  BY <3>1, <4>5 DEF Flow
    <3>. QED  BY <3>2, <3>3
  <2>. QED  BY <1>1, <2>1, <2>2, <2>3, <2>4, PassAccounts
<1>4. CASE /\ Top.pending[Current] # NoGrad
           /\ SetTop([Top EXCEPT !.phase = "scatter", !.arg = 1])
  BY <1>1, <1>4, EnterAccounts
<1>5. CASE SetTop([Top EXCEPT !.phase = "callback"])
  <2>. DEFINE f == [Top EXCEPT !.phase = "callback"]
  <2>1. /\ f.phase = "callback" /\ f.root = Top.root /\ f.seed = Top.seed
        /\ f.order = Top.order /\ f.pos = Top.pos /\ f.pending = Top.pending
    BY <1>2 DEF Frame
  <2>2. SetTop(f)
    BY <1>5
  <2>. HIDE DEF f
  <2>3. OneCall(Top, f) /\ Accounts(parents, requires_grad, Top)
    BY <1>1, <2>1, TopAccounts DEF OneCall
  <2>4. Accounts(parents, requires_grad, f)
    BY <1>1, <2>1, <2>3, Waiting
  <2>. QED  BY <1>1, <2>1, <2>2, <2>4, EngineAccounts
<1>. QED  BY <1>3, <1>4, <1>5 DEF Walk

LEMMA CallbackReturnAccounts ==
  ASSUME IInv, AccountsInv, CallbackReturn
  PROVE  AccountsInv'
<1>1. /\ depth > 0 /\ Top.phase = "callback"
      /\ SetTop([Top EXCEPT !.phase = "scatter", !.arg = 1])
      /\ UNCHANGED <<graph, depth>>
  BY DEF CallbackReturn, InPhase
<1>2. Top.pos > 0 /\ Top.pending[Current] # NoGrad
  BY <1>1, TopInv DEF FrameInv, WalkInv, Current
<1>. QED  BY <1>1, <1>2, EnterAccounts

LEMMA ScatterDoneAccounts ==
  ASSUME IInv, AccountsInv, ScatterDone
  PROVE  AccountsInv'
<1>. DEFINE f == [Top EXCEPT !.phase = "walk", !.pos = @ - 1]
<1>1. /\ depth > 0 /\ Top.phase = "scatter" /\ Top.arg > Len(parents[Current])
      /\ SetTop(f) /\ UNCHANGED <<graph, depth>>
  BY DEF ScatterDone, InPhase
<1>2. Top.pos > 0 /\ FrameInv(Top)
  BY <1>1, TopInv DEF FrameInv, WalkInv
<1>3. /\ AtNode(Top, Current) /\ Top \in Frame /\ Current \in Node
      /\ ~ Passed(Top, Current) /\ Top.pos \in Nat /\ Top.arg \in Nat
  BY <1>1, <1>2, TopAtNode DEF Loop, AtNode, Frame
<1>4. /\ f \in Frame
      /\ f.phase = "walk" /\ f.root = Top.root /\ f.seed = Top.seed
      /\ f.order = Top.order /\ f.pos = Top.pos - 1 /\ f.pending = Top.pending
  <2>1. Top.pos - 1 \in Nat
    BY <1>2, <1>3
  <2>. QED  BY <1>3, <2>1 DEF Frame, Phase
<1>. HIDE DEF f
<1>5. OneCall(Top, f)
  BY <1>4 DEF OneCall
<1>6. ASSUME NEW m \in Node, m # Current
      PROVE  Load(parents, requires_grad, Top, Current, m) = NoGrad
  <2>1. Load(parents, requires_grad, Top, Current, m)
          = Ledger!Total(Rest(parents, requires_grad, Top, Current, m), Len(parents[Current]))
    BY <1>1, <1>3, <1>6 DEF Load, AtNode
  <2>2. Len(parents[Current]) \in Nat
    BY <1>3, GraphNow, Edge
  <2>3. \A i \in 1 .. Len(parents[Current]) : ~ (i >= Top.arg)
    BY <1>1, <1>3, <2>2
  <2>4. \A i \in 1 .. Len(parents[Current]) :
          Rest(parents, requires_grad, Top, Current, m)[i] = NoGrad
    BY <2>3 DEF Rest
  <2>. QED  BY <2>1, <2>2, <2>4, TotalNone
<1>. QED  BY <1>1, <1>2, <1>4, <1>5, <1>6, PassAccounts

LEMMA WalkDoneAccounts ==
  ASSUME IInv, AccountsInv, WalkDone
  PROVE  AccountsInv'
<1>. DEFINE f == [Top EXCEPT !.phase = "prepare"]
<1>1. /\ depth > 0 /\ Top.phase = "walk" /\ SetTop(f) /\ UNCHANGED <<graph, depth>>
  BY DEF WalkDone, InPhase
<1>2. TypeOK /\ Top \in Frame
  BY <1>1, TopInv, TopFrame
<1>3. /\ f.phase = "prepare" /\ f.root = Top.root /\ f.seed = Top.seed
      /\ f.order = Top.order /\ f.pos = Top.pos /\ f.pending = Top.pending
  BY <1>2 DEF Frame
<1>. HIDE DEF f
<1>4. OneCall(Top, f) /\ Accounts(parents, requires_grad, Top)
  BY <1>1, <1>3, TopAccounts DEF OneCall
<1>5. Accounts(parents, requires_grad, f)
  BY <1>1, <1>3, <1>4, Waiting
<1>. QED  BY <1>1, <1>3, <1>5, EngineAccounts

LEMMA PrepareAccounts ==
  ASSUME IInv, AccountsInv, NEW n \in Node, Prepare(n)
  PROVE  AccountsInv'
<1>. DEFINE f == [Top EXCEPT !.committed[n] = Merged(n, Top.pending[n])]
<1>1. /\ depth > 0 /\ Top.phase = "prepare" /\ SetTop(f) /\ UNCHANGED <<graph, depth>>
  BY DEF Prepare, InPhase
<1>2. TypeOK /\ Top \in Frame
  BY <1>1, TopInv, TopFrame
<1>3. /\ f.phase = "prepare" /\ f.root = Top.root /\ f.seed = Top.seed
      /\ f.order = Top.order /\ f.pos = Top.pos /\ f.pending = Top.pending
  BY <1>1, <1>2 DEF Frame
<1>. HIDE DEF f
<1>4. OneCall(Top, f) /\ Accounts(parents, requires_grad, Top) /\ Top.phase \in Loop
  BY <1>1, <1>3, TopAccounts DEF OneCall, Loop
<1>5. \A k \in Node : Passed(f, k) <=> Passed(Top, k)
  BY <1>3 DEF Passed
<1>6. \A k, m \in Node :
        Load(parents, requires_grad, f, k, m) = Load(parents, requires_grad, Top, k, m)
  BY <1>1, <1>3, <1>5 DEF Load
<1>7. Accounts(parents, requires_grad, f)
  BY <1>4, <1>6, SameLoads
<1>. QED  BY <1>1, <1>3, <1>7, EngineAccounts

LEMMA ScatterAccounts ==
  ASSUME Linear, IInv, AccountsInv, Scatter
  PROVE  AccountsInv'
<1>. DEFINE i0 == Top.arg
            p == parents[Current][i0]
            y == Pull(Current, i0, Top.pending[Current])
            q == IF requires_grad[p] THEN Accumulated(Top.pending, p, y) ELSE Top.pending
            f == [Top EXCEPT !.arg = @ + 1, !.pending = q]
<1>1. /\ depth > 0 /\ Top.phase = "scatter" /\ i0 <= Len(parents[Current])
      /\ UNCHANGED <<graph, depth>>
  BY DEF Scatter, InPhase
<1>2. SetTop(f)
  BY DEF Scatter
<1>3. TypeOK /\ FrameInv(Top) /\ Top \in Frame /\ i0 \in Nat /\ Top.pending \in GradMap
  BY <1>1, TopInv, TopFrame
<1>4. Top.pos > 0 /\ i0 > 0 /\ Top.pending[Current] # NoGrad
  BY <1>1, <1>3 DEF FrameInv, WalkInv, Current
<1>5. AtNode(Top, Current) /\ ~ Passed(Top, Current) /\ Current \in Node
  BY <1>1, <1>4, TopAtNode DEF Loop, AtNode
<1>6. Graph(parents) /\ Len(parents[Current]) \in Nat
  BY <1>5, GraphNow, Edge
<1>7. i0 \in 1 .. Len(parents[Current])
  BY <1>1, <1>3, <1>4, <1>6
<1>8. Top.pending[Current] \in Grad
  BY <1>3, <1>4, <1>5 DEF GradMap
<1>9. p \in Node /\ y \in Grad
  BY <1>5, <1>6, <1>7, <1>8, Edge
<1>10. ~ Passed(Top, p)
  <2>1. Top.pos \in 1 .. Len(Top.order) /\ Current = Top.order[Top.pos]
    BY <1>5 DEF AtNode
  <2>2. PICK k \in 1 .. Len(Top.order) : k < Top.pos /\ Top.order[k] = p
    BY <1>3, <1>7, <2>1 DEF FrameInv, SearchInv, ParentsFirst
  <2>3. \A j \in 1 .. Len(Top.order) : j > Top.pos => j # k
    BY <1>3, <2>1, <2>2 DEF Frame
  <2>. HIDE DEF p
  <2>. QED  BY <1>5, <2>2, <2>3 DEF Passed, AtNode
<1>. HIDE DEF i0, p, y
<1>11. Accumulated(Top.pending, p, y) = [Top.pending EXCEPT ![p] = Join(Top.pending[p], y)]
  <2>1. (IF Top.pending[p] = NoGrad THEN y ELSE Plus(Top.pending[p], y)) = Join(Top.pending[p], y)
    BY <1>9, GradAssumption DEF Join, Ledger!Joined
  <2>. QED  BY <2>1 DEF Accumulated
<1>12. q \in GradMap
  BY <1>3, <1>9, AccumulatedEntries
<1>13. q = IF requires_grad[p] THEN [Top.pending EXCEPT ![p] = Join(Top.pending[p], y)]
           ELSE Top.pending
  BY <1>11
<1>. HIDE DEF q
<1>14. /\ f \in Frame
       /\ f.phase = "scatter" /\ f.root = Top.root /\ f.seed = Top.seed
       /\ f.order = Top.order /\ f.pos = Top.pos /\ f.arg = i0 + 1 /\ f.pending = q
  <2>1. i0 + 1 \in Nat /\ f = [Top EXCEPT !.arg = i0 + 1, !.pending = q]
    BY <1>3 DEF i0
  <2>. HIDE DEF f
  <2>. QED  BY <1>1, <1>3, <1>12, <2>1 DEF Frame
<1>. HIDE DEF f
<1>15. OneCall(Top, f)
  BY <1>14 DEF OneCall
<1>16. Scattered(parents, requires_grad, Top, f, Current, p, y)
  <2>1. Top.arg = i0
    BY DEF i0
  <2>2. p = parents[Current][i0] /\ y = Pull(Current, i0, Top.pending[Current])
    BY DEF p, y
  <2>. QED
    BY <1>1, <1>5, <1>7, <1>8, <1>10, <1>13, <1>14, <2>1, <2>2 DEF Scattered
<1>17. Accounts(parents, requires_grad, Top)
  BY <1>1, TopAccounts
<1>18. Accounts(parents, requires_grad, f)
  BY <1>3, <1>5, <1>6, <1>14, <1>15, <1>16, <1>17, Scattering
<1>. QED
  BY <1>1, <1>2, <1>14, <1>18, EngineAccounts

(* A call that returns leaves the calls below it as they are.              *)
LEMMA ReturnAccounts ==
  ASSUME IInv, AccountsInv, depth > 0, Return, UNCHANGED graph
  PROVE  AccountsInv'
<1>1. TypeOK /\ depth \in 1 .. MaxDepth /\ depth' = depth - 1 /\ SetTop(IdleFrame)
  BY TopInv DEF Return
<1>2. \A d \in 1 .. depth' : d \in 1 .. depth /\ frame'[d] = frame[d]
  BY <1>1 DEF SetTop, TypeOK
<1>3. parents' = parents /\ requires_grad' = requires_grad
  BY DEF graph
<1>4. \A d \in 1 .. depth' :
        frame'[d].seed \in Seeds /\ Accounts(parents, requires_grad, frame'[d])
  BY <1>2 DEF AccountsInv
<1>5. \A d \in 1 .. depth' :
        frame'[d].seed \in Seeds /\ Accounts(parents', requires_grad', frame'[d])
  BY <1>3, <1>4
<1>. QED  BY <1>5 DEF AccountsInv, Accounts, Loads, Load, Passed, Rest

LEMMA BackwardCallAccounts ==
  ASSUME IInv, AccountsInv, NEW r \in Node, NEW s \in Seeds, BackwardCall(r, s)
  PROVE  AccountsInv'
<1>. DEFINE f == Opened(r, s)
<1>1. /\ r <= nodeCount /\ requires_grad[r] /\ depth < MaxDepth
      /\ depth' = depth + 1 /\ frame' = [frame EXCEPT ![depth + 1] = f]
      /\ UNCHANGED graph
  BY DEF BackwardCall, Opened
<1>2. f.phase = "visit" /\ f.seed = s
  BY <1>1, OpenedFrame DEF Opened, IdleFrame
<1>. HIDE DEF f
<1>3. TypeOK /\ depth \in Nat /\ depth + 1 \in 1 .. MaxDepth
  BY <1>1, BoundsAssumption DEF IInv, TypeOK
<1>4. frame'[depth + 1] = f /\ \A d \in 1 .. depth : frame'[d] = frame[d]
  BY <1>1, <1>3 DEF TypeOK
<1>5. \A d \in 1 .. depth' : d = depth + 1 \/ d \in 1 .. depth
  BY <1>1, <1>3
<1>6. Accounts(parents, requires_grad, f)
  BY <1>2 DEF Accounts, Loop
<1>7. \A d \in 1 .. depth' :
        frame'[d].seed \in Seeds /\ Accounts(parents, requires_grad, frame'[d])
  BY <1>2, <1>4, <1>5, <1>6 DEF AccountsInv
<1>8. parents' = parents /\ requires_grad' = requires_grad
  BY <1>1 DEF graph
<1>9. \A d \in 1 .. depth' :
        frame'[d].seed \in Seeds /\ Accounts(parents', requires_grad', frame'[d])
  BY <1>7, <1>8
<1>. QED  BY <1>9 DEF AccountsInv, Accounts, Loads, Load, Passed, Rest

LEMMA SameAccounts ==
  ASSUME AccountsInv, UNCHANGED <<graph, depth, frame>>
  PROVE  AccountsInv'
<1>1. /\ parents' = parents /\ requires_grad' = requires_grad
      /\ depth' = depth /\ frame' = frame
  BY DEF graph
<1>2. \A d \in 1 .. depth' :
        frame'[d].seed \in Seeds /\ Accounts(parents', requires_grad', frame'[d])
  BY <1>1 DEF AccountsInv
<1>. QED  BY <1>2 DEF AccountsInv, Accounts, Loads, Load, Passed, Rest

(* A waiting call does not see the nodes created after it started.         *)
LEMMA GrownAccounts ==
  ASSUME NEW ps, NEW rg, NEW qs, NEW rh, Graph(ps), Graph(qs), NEW k \in Nat,
         \A n \in Node : n <= k => ps[n] = qs[n] /\ rg[n] = rh[n],
         NEW f \in Frame, f.phase = "callback", f.root <= k, f.seed \in Grad,
         \A n \in Node : f.pending[n] # NoGrad => n <= k,
         Accounts(ps, rg, f)
  PROVE  Accounts(qs, rh, f)
<1>. SUFFICES ASSUME NEW m \in Node
     PROVE  Ledger!Total(Loads(qs, rh, f, m), MaxNodes) = Along(qs, rh, f.root, m, f.seed)
  BY DEF Accounts
<1>0. f.root \in Node /\ f.pending \in GradMap
  BY DEF Frame
<1>1. \A n \in Node : n <= k => \A g \in Grad : Along(ps, rg, n, m, g) = Along(qs, rh, n, m, g)
  BY AlongLocal
<1>2. Along(ps, rg, f.root, m, f.seed) = Along(qs, rh, f.root, m, f.seed)
  BY <1>0, <1>1
<1>3. ASSUME NEW n \in Node
      PROVE  Flow(qs, rh, n, m, f.pending[n]) = Flow(ps, rg, n, m, f.pending[n])
  <2>1. CASE f.pending[n] = NoGrad
    BY <2>1 DEF Flow
  <2>2. CASE f.pending[n] # NoGrad
    <3>1. f.pending[n] \in Grad /\ n <= k
      BY <1>0, <2>2 DEF GradMap
    <3>. QED  BY <1>1, <3>1 DEF Flow
  <2>. QED  BY <2>1, <2>2
<1>4. \A n \in Node : Load(qs, rh, f, n, m) = Load(ps, rg, f, n, m)
  BY <1>3 DEF Load
<1>5. Loads(qs, rh, f, m) = Loads(ps, rg, f, m)
  BY <1>4 DEF Loads
<1>6. Ledger!Total(Loads(ps, rg, f, m), MaxNodes) = Along(ps, rg, f.root, m, f.seed)
  BY DEF Accounts, Loop
<1>. QED  BY <1>2, <1>5, <1>6

LEMMA AddNodeAccounts ==
  ASSUME IInv, IInv', AccountsInv, NEW k, NEW ps, NEW rg, NEW e, AddNode(k, ps, rg, e)
  PROVE  AccountsInv'
<1>. DEFINE c == nodeCount + 1
<1>1. /\ UserInControl
      /\ parents' = [parents EXCEPT ![c] = ps]
      /\ requires_grad' = [requires_grad EXCEPT ![c] = rg]
      /\ depth' = depth /\ frame' = frame
  BY DEF AddNode
<1>2. /\ TypeOK
      /\ \A d \in 1 .. depth : FrameInv(frame[d]) /\ frame[d].phase = "callback"
  BY <1>1, UserWaits
<1>3. nodeCount \in Nat /\ \A n \in Node : n <= nodeCount => n # c
  BY <1>2 DEF TypeOK, Node
<1>. HIDE DEF c
<1>4. \A n \in Node :
        n <= nodeCount => parents[n] = parents'[n] /\ requires_grad[n] = requires_grad'[n]
  BY <1>1, <1>2, <1>3 DEF TypeOK
<1>5. Graph(parents) /\ Graph(parents')
  BY DEF IInv, TypeOK, NodeInv, Graph
<1>6. ASSUME NEW d \in 1 .. depth
      PROVE  frame[d].seed \in Seeds /\ Accounts(parents', requires_grad', frame[d])
  <2>1. frame[d] \in Frame /\ FrameInv(frame[d]) /\ frame[d].phase = "callback"
    BY <1>2, BoundsAssumption DEF TypeOK
  <2>2. PICK f : f = frame[d]
    OBVIOUS
  <2>3. /\ f.root <= nodeCount /\ f.seed \in Grad
        /\ \A n \in Node : f.pending[n] # NoGrad => n <= nodeCount
    BY <2>1, <2>2 DEF FrameInv, SearchInv, Reached, WalkInv
  <2>4. f.seed \in Seeds /\ Accounts(parents, requires_grad, f)
    BY <2>2 DEF AccountsInv
  <2>5. Accounts(parents', requires_grad', f)
    BY <1>3, <1>4, <1>5, <2>1, <2>2, <2>3, <2>4, GrownAccounts
  <2>. QED  BY <2>2, <2>4, <2>5
<1>7. \A d \in 1 .. depth' :
        frame'[d].seed \in Seeds /\ Accounts(parents', requires_grad', frame'[d])
  BY <1>1, <1>6
<1>. QED  BY <1>7 DEF AccountsInv, Accounts, Loads, Load, Passed, Rest

LEMMA NextAccounts ==
  ASSUME Linear, IInv, IInv', AccountsInv, [Next]_vars
  PROVE  AccountsInv'
<1>1. CASE UserStep
  <2>1. ASSUME NEW rg \in BOOLEAN, NEW e \in Devices, NewLeaf(rg, e) PROVE AccountsInv'
    <3>1. AddNode("Leaf", <<>>, rg, e)
      BY <2>1 DEF NewLeaf
    <3>. QED  BY <3>1, AddNodeAccounts
  <2>2. ASSUME NEW k, NEW ps, NewOp(k, ps) PROVE AccountsInv'
    <3>1. PICK l, qs, rg, e : AddNode(l, qs, rg, e)
      BY <2>2, Zenon DEF NewOp
    <3>. QED  BY <3>1, AddNodeAccounts
  <2>3. ASSUME NEW n \in Node, ZeroGrad(n) PROVE AccountsInv'
    <3>1. UNCHANGED <<graph, depth, frame>>
      BY <2>3 DEF ZeroGrad
    <3>. QED  BY <3>1, SameAccounts
  <2>. QED
    BY <1>1, <2>1, <2>2, <2>3, BackwardCallAccounts, CallbackReturnAccounts DEF UserStep
<1>2. CASE EngineStep
  <2>1. ASSUME Commit PROVE AccountsInv'
    <3>1. depth > 0 /\ Return /\ UNCHANGED graph
      BY <2>1 DEF Commit, AllPrepared, InPhase
    <3>. QED  BY <3>1, ReturnAccounts
  <2>. QED
    BY <1>2, <2>1, VisitParentAccounts, VisitDoneAccounts, StartWalkAccounts, WalkAccounts,
       ScatterAccounts, ScatterDoneAccounts, WalkDoneAccounts, PrepareAccounts DEF EngineStep
<1>3. CASE Throw
  <2>1. depth > 0 /\ Return /\ UNCHANGED graph
    BY <1>3 DEF Throw
  <2>. QED  BY <2>1, ReturnAccounts
<1>4. CASE UNCHANGED vars
  <2>1. UNCHANGED <<graph, depth, frame>>
    BY <1>4 DEF vars, graph
  <2>. QED  BY <2>1, SameAccounts
<1>. QED  BY <1>1, <1>2, <1>3, <1>4 DEF Next

-----------------------------------------------------------------------------
(* The refinement.                                                         *)

StoredMap == [n \in Node |-> IF has_grad[n] THEN grad[n] ELSE NoGrad]

LEMMA StoredMapIs ==
  ASSUME IInv
  PROVE  StoredMap = grad
<1>1. \A n \in Node : (IF has_grad[n] THEN grad[n] ELSE NoGrad) = grad[n]
  BY DEF IInv, NodeInv
<1>2. grad = [n \in Node |-> grad[n]]
  BY DEF IInv, TypeOK, GradMap
<1>. QED  BY <1>1, <1>2 DEF StoredMap

(* A step that leaves the graph and the stored gradients alone.            *)
LEMMA Stutters ==
  ASSUME UNCHANGED <<graph, stored>>
  PROVE  UNCHANGED <<nodeCount, parents, requires_grad, StoredMap>>
  BY DEF graph, stored, StoredMap

LEMMA InitRefines ==
  ASSUME Init
  PROVE  Ledger!Init
<1>1. /\ nodeCount = 0
      /\ parents = [n \in Node |-> <<>>]
      /\ requires_grad = [n \in Node |-> FALSE]
  BY DEF Init
<1>2. StoredMap = [n \in Node |-> NoGrad]
  BY DEF Init, StoredMap
<1>. QED  BY <1>1, <1>2 DEF Ledger!Init, Ledger!Node, Node, StoredMap

LEMMA AddNodeGrows ==
  ASSUME IInv, NEW k, NEW ps, NEW rg, NEW e, AddNode(k, ps, rg, e)
  PROVE  Ledger!Grow
<1>. DEFINE c == nodeCount + 1
<1>1. /\ nodeCount' = c
      /\ parents' = [parents EXCEPT ![c] = ps]
      /\ requires_grad' = [requires_grad EXCEPT ![c] = rg]
      /\ UNCHANGED stored
  BY DEF AddNode
<1>. HIDE DEF c
<1>2. \A n \in Node \ {nodeCount'} :
        parents'[n] = parents[n] /\ requires_grad'[n] = requires_grad[n]
  BY <1>1 DEF IInv, TypeOK
<1>3. StoredMap' = StoredMap
  BY <1>1 DEF StoredMap, stored
<1>. QED  BY <1>1, <1>2, <1>3 DEF Ledger!Grow, Ledger!Node, Node, StoredMap, c

LEMMA ZeroGradClears ==
  ASSUME IInv, NEW n \in Node, ZeroGrad(n)
  PROVE  Ledger!Clear(n)
<1>1. UNCHANGED <<nodeCount, parents, requires_grad>>
  BY DEF ZeroGrad, graph
<1>2. \A m \in Node : /\ has_grad'[m] = IF m = n THEN FALSE ELSE has_grad[m]
                      /\ grad'[m] = IF m = n THEN NoGrad ELSE grad[m]
  BY DEF ZeroGrad, IInv, TypeOK, GradMap
<1>3. StoredMap' = [StoredMap EXCEPT ![n] = NoGrad]
  BY <1>2 DEF StoredMap
<1>. QED  BY <1>1, <1>3 DEF Ledger!Clear, StoredMap

(* The commit of a call on r with seed s delivers the path sums of r.      *)
LEMMA CommitDelivers ==
  ASSUME IInv, AccountsInv, Commit
  PROVE  \E r \in Node, s \in Seeds : Ledger!Deliver(r, s)
<1>1. /\ depth > 0 /\ Top.phase = "prepare"
      /\ \A n \in Targets(Top) : Top.committed[n] # NoGrad
      /\ grad' = [n \in Node |-> IF Top.committed[n] # NoGrad
                                 THEN Top.committed[n] ELSE grad[n]]
      /\ has_grad' = [n \in Node |-> has_grad[n] \/ Top.committed[n] # NoGrad]
      /\ UNCHANGED <<nodeCount, parents, requires_grad>>
  BY DEF Commit, AllPrepared, InPhase, graph
<1>2. TypeOK /\ FrameInv(Top) /\ Top \in Frame /\ Graph(parents)
  BY <1>1, TopInv, TopFrame, GraphNow
<1>3. PICK r, s : r = Top.root /\ s = Top.seed
  OBVIOUS
<1>4. r \in Node /\ s \in Seeds /\ s \in Grad /\ requires_grad[r]
  BY <1>1, <1>2, <1>3, TopFrame, TopAccounts, GradAssumption DEF FrameInv, SearchInv, Reached
<1>5. ASSUME NEW m \in Node
      PROVE  Along(parents, requires_grad, r, m, s) = Top.pending[m]
  <2>1. /\ Top.pos = 0 /\ Len(Top.stack) = 0
        /\ \A n \in Node : Top.pending[n] # NoGrad => n \in Top.visited
    BY <1>1, <1>2 DEF FrameInv, WalkInv
  <2>2. \A n \in Node : Top.pending[n] # NoGrad => \E j \in 1 .. Len(Top.order) : Top.order[j] = n
    <3>1. \A a \in 1 .. Len(Top.stack) : FALSE
      BY <2>1
    <3>. QED  BY <1>2, <2>1, <3>1 DEF FrameInv, SearchInv, Partition
  <2>3. Accounts(parents, requires_grad, Top)
    BY <1>1, TopAccounts
  <2>4. Settled(Top)
    BY <1>1, <2>1, <2>2 DEF Settled
  <2>5. Along(parents, requires_grad, Top.root, m, Top.seed) = Top.pending[m]
    BY <1>2, <2>3, <2>4, Finished
  <2>. QED  BY <1>3, <2>5
<1>6. ASSUME NEW n \in Node
      PROVE  StoredMap'[n] = Ledger!Joined(StoredMap[n], Along(parents, requires_grad, r, n, s))
  <2>1. PICK x, y : x = Top.pending[n] /\ y = Top.committed[n]
    OBVIOUS
  <2>2. Along(parents, requires_grad, r, n, s) = x /\ x \in Maybe /\ grad[n] \in Maybe
    BY <1>2, <1>5, <2>1 DEF Frame, GradMap, TypeOK, Maybe
  <2>3. /\ n \in Targets(Top) <=> n \in Top.visited /\ requires_grad[n]
        /\ y # NoGrad => n \in Targets(Top) /\ y = Merged(n, x)
    BY <1>1, <2>1, PreparedTargets
  <2>4. n \in Targets(Top) => y # NoGrad
    BY <1>1, <2>1
  <2>5. n \in Targets(Top) <=> x # NoGrad
    <3>1. x # NoGrad => requires_grad[n]
      BY <1>1, <1>2, <2>1 DEF FrameInv, WalkInv
    <3>. QED  BY <2>1, <3>1 DEF Targets
  <2>6. has_grad[n] <=> grad[n] # NoGrad
    BY DEF IInv, NodeInv
  <2>7. StoredMap[n] = grad[n]
    BY <2>6 DEF StoredMap
  <2>8. /\ StoredMap'[n] = IF has_grad'[n] THEN grad'[n] ELSE NoGrad
        /\ has_grad'[n] = (has_grad[n] \/ y # NoGrad)
        /\ grad'[n] = IF y # NoGrad THEN y ELSE grad[n]
    BY <1>1, <2>1 DEF StoredMap
  <2>9. CASE x = NoGrad
    <3>1. y = NoGrad
      BY <2>3, <2>5, <2>9
    <3>2. grad'[n] = grad[n]
      BY <2>8, <3>1
    <3>3. has_grad'[n] <=> has_grad[n]
      BY <2>8, <3>1
    <3>4. StoredMap'[n] = grad[n]
      BY <2>6, <2>8, <3>2, <3>3
    <3>5. Ledger!Joined(grad[n], NoGrad) = grad[n]
      BY <2>2, JoinFacts DEF Join
    <3>. QED  BY <2>2, <2>7, <2>9, <3>4, <3>5
  <2>10. CASE x # NoGrad
    <3>1. y # NoGrad /\ y = Merged(n, x)
      BY <2>3, <2>4, <2>5, <2>10
    <3>2. StoredMap'[n] = y
      BY <2>8, <3>1
    <3>3. Merged(n, x) = Ledger!Joined(grad[n], x)
      BY <2>6, <2>10 DEF Merged, Ledger!Joined
    <3>. QED  BY <2>2, <2>7, <3>1, <3>2, <3>3
  <2>. QED  BY <2>9, <2>10
<1>7. StoredMap' =
        [n \in Node |-> Ledger!Joined(StoredMap[n], Along(parents, requires_grad, r, n, s))]
  <2>1. StoredMap' = [n \in Node |-> StoredMap'[n]]
    BY DEF StoredMap
  <2>. QED  BY <1>6, <2>1
<1>8. Ledger!Deliver(r, s)
  BY <1>1, <1>4, <1>7 DEF Ledger!Deliver, Ledger!Node, Ledger!PathSum, Node, StoredMap, Along
<1>. QED  BY <1>4, <1>8

LEMMA StepRefines ==
  ASSUME IInv, AccountsInv, [Next]_vars
  PROVE  [Ledger!Next]_<<nodeCount, parents, requires_grad, StoredMap>>
<1>1. CASE UNCHANGED <<graph, stored>>
  BY <1>1, Stutters
<1>2. CASE Ledger!Grow
  BY <1>2 DEF Ledger!Next
<1>3. CASE UserStep
  <2>1. ASSUME NEW rg, NEW e, NewLeaf(rg, e) PROVE Ledger!Grow
    <3>1. AddNode("Leaf", <<>>, rg, e)
      BY <2>1 DEF NewLeaf
    <3>. QED  BY <3>1, AddNodeGrows
  <2>2. ASSUME NEW k, NEW ps, NewOp(k, ps) PROVE Ledger!Grow
    <3>1. PICK l, qs, rg, e : AddNode(l, qs, rg, e)
      BY <2>2, Zenon DEF NewOp
    <3>. QED  BY <3>1, AddNodeGrows
  <2>3. ASSUME NEW n \in Node, ZeroGrad(n) PROVE Ledger!Next
    <3>1. Ledger!Clear(n) /\ n \in Ledger!Node
      BY <2>3, ZeroGradClears DEF Ledger!Node, Node
    <3>. QED  BY <3>1 DEF Ledger!Next
  <2>4. ASSUME NEW r, NEW s, BackwardCall(r, s) PROVE UNCHANGED <<graph, stored>>
    BY <2>4, Zenon DEF BackwardCall
  <2>5. ASSUME CallbackReturn PROVE UNCHANGED <<graph, stored>>
    BY <2>5 DEF CallbackReturn
  <2>. QED
    BY <1>1, <1>2, <1>3, <2>1, <2>2, <2>3, <2>4, <2>5 DEF UserStep
<1>4. CASE EngineStep
  <2>1. UNCHANGED <<graph, stored>> \/ Commit
    BY <1>4 DEF EngineStep, VisitParent, VisitDone, StartWalk, Walk, Scatter,
                ScatterDone, WalkDone, Prepare
  <2>2. ASSUME Commit PROVE Ledger!Next
    <3>1. PICK r \in Node, s \in Seeds : Ledger!Deliver(r, s)
      BY <2>2, CommitDelivers
    <3>2. r \in Ledger!Node
      BY DEF Ledger!Node, Node
    <3>. QED  BY <3>1, <3>2 DEF Ledger!Next
  <2>. QED  BY <1>1, <2>1, <2>2
<1>5. CASE Throw
  BY <1>1, <1>5 DEF Throw
<1>6. CASE UNCHANGED vars
  BY <1>1, <1>6 DEF vars, graph, stored
<1>. QED  BY <1>3, <1>4, <1>5, <1>6 DEF Next

(* In every reachable state the pending gradients of every call in         *)
(* progress account for exactly the paths from its root.                   *)
THEOREM PathsAccounted == ASSUME Linear PROVE Spec => []AccountsInv
<1>1. Init => IInv /\ AccountsInv
  <2>1. ASSUME Init PROVE AccountsInv
    BY <2>1 DEF Init, AccountsInv
  <2>. QED  BY <2>1, InitInvariant
<1>2. IInv /\ AccountsInv /\ [Next]_vars => IInv' /\ AccountsInv'
  BY NextInvariant, NextAccounts
<1>. QED  BY <1>1, <1>2, PTL DEF Spec

(* The engine implements the ledger: every call of backward that returns   *)
(* adds to each stored gradient, at one instant, the sum over all paths of *)
(* the products along them; a call that fails adds nothing.                *)
THEOREM EngineImplementsLedger == ASSUME Linear PROVE Spec => RefinesLedger
<1>1. Init => Ledger!Init
  BY InitRefines
<1>2. IInv /\ AccountsInv /\ [Next]_vars
        => [Ledger!Next]_<<nodeCount, parents, requires_grad, StoredMap>>
  BY StepRefines
<1>3. Spec => []AccountsInv
  BY PathsAccounted
<1>. QED
  BY <1>1, <1>2, <1>3, Invariance, PTL DEF Spec, RefinesLedger, Ledger!Spec, StoredMap
=============================================================================
