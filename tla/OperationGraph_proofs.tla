------------------------ MODULE OperationGraph_proofs ------------------------
(***************************************************************************)
(* Proofs about OperationGraph: what is saved is private, results keep     *)
(* their values, no gradient is refused, and shapes and devices decide     *)
(* what is, for every program.                                             *)
(***************************************************************************)
EXTENDS OperationGraph, Operations_proofs

-----------------------------------------------------------------------------
(* A graph, as sequences of nodes and of buffers, after L leaves and for   *)
(* the statements st.                                                      *)

Callable(s, known) ==
  /\ IsSequence(s.args) /\ \A i \in 1 .. Len(s.args) : s.args[i] \in 1 .. known
  /\ \/ s.op \in Unary /\ Len(s.args) = 1
     \/ s.op \in Binary /\ Len(s.args) = 2
     \/ s.op \in Ternary /\ Len(s.args) = 3
     \/ s.op = "Concat" /\ Len(s.args) > 0
  /\ s.op = "Reshape" => IsSequence(s.with.shape)

WellFormed(L, st) ==
  L \in Nat /\ IsSequence(st) /\ \A k \in 1 .. Len(st) : Callable(st[k], L + k - 1)

LEMMA FirstOperand ==
  ASSUME NEW s, NEW known, Callable(s, known)
  PROVE  1 \in 1 .. Len(s.args) /\ s.args[1] \in 1 .. known
<1>1. Len(s.args) \in Nat /\ Len(s.args) # 0
  <2>1. PICK n : n = Len(s.args)
    OBVIOUS
  <2>2. n \in Nat
    BY <2>1 DEF Callable, IsSequence
  <2>3. n = 1 \/ n = 2 \/ n = 3 \/ n > 0
    BY <2>1, Zenon DEF Callable
  <2>. QED
    BY <2>1, <2>2, <2>3
<1>2. 1 \in 1 .. Len(s.args)
  BY <1>1
<1>. QED
  BY <1>2 DEF Callable

(* A node that gradients flow through was computed from operands of the    *)
(* shapes that its operands have.                                          *)
ComputedFrom(n, x, nds, s) ==
  /\ Legal(s, x) /\ Len(x) = Len(s.args)
  /\ \A i \in 1 .. Len(x) : x[i].shape = nds[s.args[i]].shape
  /\ nds[n].shape = Compute(s, x).out.shape
  /\ IsSequence(nds[n].saved) /\ Kept(nds[n].saved, s, x)

ShapeOK(n, nds, L, st) ==
  /\ IsSequence(nds[n].shape)
  /\ n <= L => nds[n].op = "Leaf"
  /\ nds[n].op # "Leaf" =>
       /\ nds[n].op = st[n - L].op /\ nds[n].with = st[n - L].with
       /\ nds[n].args = st[n - L].args /\ st[n - L].op # "LessEqual"
       /\ \E x : ComputedFrom(n, x, nds, st[n - L])

(* A leaf has a buffer of its own, and so has a result; a view shares one; *)
(* what is saved lies in buffers that no variable has.                     *)
BufferOK(n, nds, M, L, st) ==
  /\ nds[n].buffer \in 1 .. M
  /\ n <= L => nds[n].buffer = n
  /\ n > L => IF st[n - L].op = "Reshape" THEN nds[n].buffer = nds[st[n - L].args[1]].buffer
              ELSE nds[n].buffer > L

SavedOK(n, nds, M) ==
  nds[n].op # "Concat" =>
    \A i \in DOMAIN nds[n].saved :
      /\ nds[n].saved[i].buffer \in 1 .. M
      /\ \A m \in 1 .. Len(nds) : nds[n].saved[i].buffer # nds[m].buffer

GraphOK(nds, M, L, st) ==
  /\ M \in Nat /\ M >= L
  /\ IsSequence(nds) /\ Len(nds) >= L /\ Len(nds) <= L + Len(st)
  /\ \A n \in 1 .. Len(nds) :
       ShapeOK(n, nds, L, st) /\ BufferOK(n, nds, M, L, st) /\ SavedOK(n, nds, M)

Appended(r, q, e) ==
  /\ IsSequence(r) /\ Len(r) = Len(q) + 1 /\ r[Len(q) + 1] = e
  /\ \A i \in 1 .. Len(q) : r[i] = q[i]

LEMMA AppendFact ==
  ASSUME NEW q, IsSequence(q), NEW e
  PROVE  Appended(Append(q, e), q, e)
<1>1. PICK X : q \in Seq(X)
  BY SequenceIsSeq
<1>2. PICK Y : Y = X \cup {e}
  OBVIOUS
<1>3. q \in Seq(Y) /\ e \in Y
  BY <1>1, <1>2
<1>4. PICK r : r = Append(q, e)
  OBVIOUS
<1>5. r \in Seq(Y) /\ Len(r) = Len(q) + 1 /\ r[Len(q) + 1] = e /\ \A i \in 1 .. Len(q) : r[i] = q[i]
  BY <1>3, <1>4, AppendProperties
<1>. QED
  BY <1>4, <1>5, SeqIsSequence DEF Appended

LEMMA ShapeStays ==
  ASSUME NEW nds, NEW r, NEW n, NEW m, n \in 1 .. m, \A k \in 1 .. m : r[k] = nds[k], m \in Nat,
         NEW L, NEW st, WellFormed(L, st), m <= L + Len(st), ShapeOK(n, nds, L, st)
  PROVE  ShapeOK(n, r, L, st)
<1>1. r[n] = nds[n]
  OBVIOUS
<1>2. ASSUME nds[n].op # "Leaf" PROVE \E x : ComputedFrom(n, x, r, st[n - L])
  <2>1. PICK x : ComputedFrom(n, x, nds, st[n - L])
    BY <1>2 DEF ShapeOK
  <2>2. n - L \in 1 .. Len(st)
    BY <1>2 DEF ShapeOK, WellFormed, IsSequence
  <2>3. PICK k \in 1 .. Len(st) : k = n - L /\ L + k - 1 <= m
    BY <2>2 DEF WellFormed, IsSequence
  <2>4. \A i \in 1 .. Len(x) : st[k].args[i] \in 1 .. L + k - 1
    BY <2>1, <2>3 DEF ComputedFrom, WellFormed, Callable
  <2>5. \A i \in 1 .. Len(x) : r[st[k].args[i]] = nds[st[k].args[i]]
    <3>1. \A a \in 1 .. L + k - 1 : a \in 1 .. m
      BY <2>3 DEF WellFormed
    <3>. QED
      BY <2>4, <3>1
  <2>6. ComputedFrom(n, x, r, st[k])
    BY <1>1, <2>1, <2>3, <2>5 DEF ComputedFrom
  <2>. QED
    BY <2>3, <2>6
<1>. QED
  BY <1>1, <1>2 DEF ShapeOK

(* A node added to a graph.                                                *)
LEMMA GraphGrows ==
  ASSUME NEW nds, NEW M, NEW L, NEW st, WellFormed(L, st), GraphOK(nds, M, L, st),
         NEW n, n = Len(nds) + 1, n <= L + Len(st),
         NEW node, NEW r, r = Append(nds, node), NEW N \in Nat, N >= M,
         node.buffer > M \/ \E m \in 1 .. Len(nds) : node.buffer = nds[m].buffer,
         ShapeOK(n, r, L, st), BufferOK(n, r, N, L, st), SavedOK(n, r, N)
  PROVE  GraphOK(r, N, L, st)
<1>1. /\ IsSequence(r) /\ Len(r) = n /\ r[n] = node /\ \A m \in 1 .. Len(nds) : r[m] = nds[m]
      /\ n \in Nat /\ Len(nds) \in Nat /\ L \in Nat /\ Len(st) \in Nat /\ M \in Nat
  <2>1. IsSequence(nds) /\ M \in Nat
    BY DEF GraphOK
  <2>2. Len(nds) \in Nat /\ L \in Nat /\ Len(st) \in Nat
    BY <2>1 DEF WellFormed, IsSequence
  <2>3. /\ IsSequence(r) /\ Len(r) = Len(nds) + 1 /\ r[Len(nds) + 1] = node
        /\ \A m \in 1 .. Len(nds) : r[m] = nds[m]
    <3>1. Appended(r, nds, node)
      BY <2>1, AppendFact
    <3>. QED
      BY <3>1 DEF Appended
  <2>. QED
    BY <2>1, <2>2, <2>3
<1>2. ASSUME NEW m \in 1 .. Len(nds)
      PROVE  ShapeOK(m, r, L, st) /\ BufferOK(m, r, N, L, st) /\ SavedOK(m, r, N)
  <2>1. ShapeOK(m, nds, L, st) /\ BufferOK(m, nds, M, L, st) /\ SavedOK(m, nds, M)
    BY DEF GraphOK
  <2>2. ShapeOK(m, r, L, st)
    BY <1>1, <2>1, ShapeStays DEF GraphOK
  <2>3. BufferOK(m, r, N, L, st)
    <3>1. r[m] = nds[m] /\ nds[m].buffer \in 1 .. N
      BY <1>1, <2>1 DEF BufferOK
    <3>2. ASSUME m > L, st[m - L].op = "Reshape"
          PROVE  r[m].buffer = r[st[m - L].args[1]].buffer
      <4>1. PICK k \in 1 .. Len(st) : k = m - L
        BY <1>1, <3>2 DEF GraphOK
      <4>2. st[k].args[1] \in 1 .. L + k - 1
        BY FirstOperand DEF WellFormed
      <4>3. st[k].args[1] \in 1 .. Len(nds)
        BY <1>1, <4>1, <4>2
      <4>. QED
        BY <1>1, <2>1, <3>1, <3>2, <4>1, <4>3 DEF BufferOK
    <3>. QED
      BY <2>1, <3>1, <3>2 DEF BufferOK
  <2>4. SavedOK(m, r, N)
    <3>1. r[m] = nds[m]
      BY <1>1
    <3>2. ASSUME nds[m].op # "Concat", NEW i \in DOMAIN nds[m].saved, NEW k \in 1 .. n
          PROVE  nds[m].saved[i].buffer \in 1 .. N /\ nds[m].saved[i].buffer # r[k].buffer
      <4>1. PICK b : b = nds[m].saved[i].buffer
        OBVIOUS
      <4>2. b \in 1 .. M /\ \A j \in 1 .. Len(nds) : b # nds[j].buffer
        BY <2>1, <3>2, <4>1 DEF SavedOK
      <4>3. CASE k \in 1 .. Len(nds)
        BY <1>1, <4>1, <4>2, <4>3
      <4>4. CASE k = n
        <5>1. r[k] = node
          BY <1>1, <4>4
        <5>2. CASE node.buffer > M
          BY <1>1, <4>1, <4>2, <5>1, <5>2
        <5>3. CASE \E j \in 1 .. Len(nds) : node.buffer = nds[j].buffer
          BY <1>1, <4>1, <4>2, <5>1, <5>3
        <5>. QED
          BY <5>2, <5>3
      <4>. QED
        BY <1>1, <4>3, <4>4
    <3>3. nds[m].op # "Concat" =>
            \A i \in DOMAIN nds[m].saved :
              /\ nds[m].saved[i].buffer \in 1 .. N
              /\ \A k \in 1 .. n : nds[m].saved[i].buffer # r[k].buffer
      <4>1. 1 \in 1 .. n
        BY <1>1
      <4>. QED
        BY <3>2, <4>1
    <3>4. Len(r) = n
      BY <1>1
    <3>. QED
      BY <3>1, <3>3, <3>4 DEF SavedOK
  <2>. QED
    BY <2>2, <2>3, <2>4
<1>3. \A m \in 1 .. Len(r) : m \in 1 .. Len(nds) \/ m = n
  BY <1>1
<1>. QED
  BY <1>1, <1>2, <1>3 DEF GraphOK

-----------------------------------------------------------------------------
(* The node of a result, as make_result builds it.                         *)

MadeFrom(node, s, x, nds, buffer, free) ==
  /\ node.shape = Compute(s, x).out.shape /\ node.buffer = buffer
  /\ \/ node.op = "Leaf" /\ node.saved = <<>>
     \/ /\ s.op # "LessEqual"
        /\ node.op = s.op /\ node.args = s.args /\ node.with = s.with
        /\ node.saved = IF s.op = "Concat"
                        THEN [i \in DOMAIN s.args |->
                                [shape |-> nds[s.args[i]].shape, buffer |-> nds[s.args[i]].buffer]]
                        ELSE Handles(Compute(s, x).saved, free)

LEMMA MakeResultFact ==
  ASSUME NEW s, NEW x, NEW buffer, NEW free
  PROVE  MadeFrom(MakeResult(s, Compute(s, x).out, Compute(s, x).saved, buffer, free),
                  s, x, nodes, buffer, free)
<1>1. PICK c, node : /\ c = Compute(s, x)
                     /\ node = MakeResult(s, c.out, c.saved, buffer, free)
  OBVIOUS
<1>2. PICK traced : traced = (s.op # "LessEqual" /\ \E i \in DOMAIN s.args : nodes[s.args[i]].requires_grad)
  OBVIOUS
<1>3. PICK plain : plain = Leaf(c.out.shape, buffer, nodes[s.args[1]].device, traced)
  OBVIOUS
<1>4. PICK saved : saved = IF Borrows(s)
                           THEN [i \in DOMAIN s.args |->
                                   [shape |-> nodes[s.args[i]].shape, buffer |-> nodes[s.args[i]].buffer]]
                           ELSE Handles(c.saved, free)
  OBVIOUS
<1>5. node = IF traced
             THEN [plain EXCEPT !.op = s.op, !.args = s.args, !.with = s.with, !.saved = saved]
             ELSE plain
  BY <1>1, <1>2, <1>3, <1>4 DEF MakeResult
<1>6. CASE traced
  <2>1. /\ node.op = s.op /\ node.args = s.args /\ node.with = s.with /\ node.saved = saved
        /\ node.shape = c.out.shape /\ node.buffer = buffer
    BY <1>3, <1>5, <1>6 DEF Leaf
  <2>2. s.op # "LessEqual"
    BY <1>2, <1>6
  <2>. QED
    BY <1>1, <1>4, <2>1, <2>2 DEF MadeFrom, Borrows
<1>7. CASE ~traced
  <2>1. node.op = "Leaf" /\ node.saved = <<>> /\ node.shape = c.out.shape /\ node.buffer = buffer
    BY <1>3, <1>5, <1>7 DEF Leaf
  <2>. QED
    BY <1>1, <2>1 DEF MadeFrom
<1>. QED
  BY <1>6, <1>7

LEMMA HandlesFact ==
  ASSUME NEW kept, IsSequence(kept), NEW free \in Nat
  PROVE  /\ IsSequence(Handles(kept, free)) /\ DOMAIN Handles(kept, free) = 1 .. Len(kept)
         /\ \A i \in 1 .. Len(kept) :
              /\ Handles(kept, free)[i].shape = kept[i].shape
              /\ Handles(kept, free)[i].buffer = free + i - 1
<1>1. PICK n \in Nat : n = Len(kept) /\ DOMAIN kept = 1 .. n
  BY DEF IsSequence
<1>2. PICK q : q = Handles(kept, free)
  OBVIOUS
<1>3. q = [i \in 1 .. n |-> [shape |-> kept[i].shape, buffer |-> free + i - 1]]
  BY <1>1, <1>2 DEF Handles
<1>4. q = [i \in 1 .. n |-> q[i]]
  BY <1>3
<1>. QED
  BY <1>1, <1>2, <1>3, <1>4, FunctionIsSequence

(* Where a result lies, after M buffers, of which own is new; and how many *)
(* buffers it takes for copies.                                            *)
Placed(s, nds, M, buffer, own) ==
  IF s.op = "Reshape" THEN own = 0 /\ buffer = nds[s.args[1]].buffer
  ELSE own = 1 /\ buffer = M + 1

CopiesOf(node, kept, copies) ==
  node.op \notin {"Leaf", "Concat"} => copies = Len(kept)

(* A result joins the graph, with the buffers for what it saves.           *)
LEMMA ResultJoins ==
  ASSUME NEW nds, NEW M, NEW L, NEW st, WellFormed(L, st), GraphOK(nds, M, L, st),
         NEW n, n = Len(nds) + 1, n <= L + Len(st), NEW s, s = st[n - L],
         NEW x, Legal(s, x), Len(x) = Len(s.args),
         \A i \in 1 .. Len(x) : x[i].shape = nds[s.args[i]].shape,
         NEW own \in {0, 1}, NEW buffer, Placed(s, nds, M, buffer, own),
         NEW node, MadeFrom(node, s, x, nds, buffer, M + own + 1),
         NEW copies \in Nat, CopiesOf(node, Compute(s, x).saved, copies)
  PROVE  GraphOK(Append(nds, node), M + own + copies, L, st)
<1>1. PICK r : r = Append(nds, node)
  OBVIOUS
<1>2. /\ n \in Nat /\ Len(nds) \in Nat /\ L \in Nat /\ Len(st) \in Nat /\ M \in Nat
      /\ M >= L /\ Len(nds) >= L
  BY DEF GraphOK, WellFormed, IsSequence
<1>3. Appended(r, nds, node)
  BY <1>1, AppendFact DEF GraphOK
<1>4. Len(r) = n /\ r[n] = node /\ \A m \in 1 .. Len(nds) : r[m] = nds[m]
  BY <1>3 DEF Appended
<1>5. n - L \in 1 .. Len(st) /\ L + (n - L) - 1 = Len(nds)
  <2>1. PICK a, b : a = Len(nds) /\ b = Len(st)
    OBVIOUS
  <2>2. a \in Nat /\ b \in Nat /\ n = a + 1 /\ n <= L + b /\ a >= L
    BY <1>2, <2>1
  <2>3. n - L \in 1 .. b /\ L + (n - L) - 1 = a
    BY <1>2, <2>2
  <2>. QED
    BY <2>1, <2>3
<1>6. Callable(s, Len(nds))
  BY <1>5 DEF WellFormed
<1>7. 1 \in 1 .. Len(s.args) /\ s.args[1] \in 1 .. Len(nds)
  BY <1>6, FirstOperand
<1>8. \A i \in 1 .. Len(s.args) : s.args[i] \in 1 .. Len(nds)
  BY <1>6 DEF Callable
<1>9. PICK kept : kept = Compute(s, x).saved
  OBVIOUS
<1>10. IsSequence(kept) /\ Len(kept) \in Nat
  BY <1>9, SavedIsSequence DEF IsSequence
<1>11. PICK free \in Nat : free = M + own + 1
  BY <1>2
<1>12. PICK N \in Nat : N = M + own + copies /\ N >= M + own /\ N >= M
  BY <1>2
<1>13. \A m \in 1 .. Len(nds) : nds[m].buffer \in 1 .. M
  BY DEF GraphOK, BufferOK
<1>14. /\ node.buffer = buffer /\ buffer \in 1 .. M + own
       /\ buffer > M \/ \E m \in 1 .. Len(nds) : buffer = nds[m].buffer
  <2>1. node.buffer = buffer
    BY DEF MadeFrom
  <2>2. CASE s.op = "Reshape"
    <3>1. own = 0 /\ buffer = nds[s.args[1]].buffer
      BY <2>2 DEF Placed
    <3>2. PICK m \in 1 .. Len(nds) : m = s.args[1]
      BY <1>7
    <3>3. buffer = nds[m].buffer /\ buffer \in 1 .. M
      BY <1>13, <3>1, <3>2
    <3>4. buffer \in 1 .. M + own
      BY <1>2, <3>1, <3>3
    <3>. QED
      BY <2>1, <3>3, <3>4
  <2>3. CASE s.op # "Reshape"
    <3>1. own = 1 /\ buffer = M + 1
      BY <2>3 DEF Placed
    <3>. QED
      BY <1>2, <2>1, <3>1
  <2>. QED
    BY <2>2, <2>3
<1>15. ShapeOK(n, r, L, st)
  <2>1. IsSequence(node.shape)
    BY OutIsSequence DEF MadeFrom
  <2>2. ASSUME node.op # "Leaf" PROVE ComputedFrom(n, x, r, s)
    <3>1. \A i \in 1 .. Len(x) : x[i].shape = r[s.args[i]].shape
      BY <1>4, <1>8
    <3>2. IsSequence(node.saved) /\ Kept(node.saved, s, x)
      <4>1. CASE s.op = "Concat"
        <5>1. PICK q : q = node.saved
          OBVIOUS
        <5>2. PICK k \in Nat : k = Len(s.args) /\ DOMAIN s.args = 1 .. k
          BY <1>6 DEF Callable, IsSequence
        <5>3. q = [i \in 1 .. k |->
                     [shape |-> nds[s.args[i]].shape, buffer |-> nds[s.args[i]].buffer]]
          BY <2>2, <4>1, <5>1, <5>2 DEF MadeFrom
        <5>4. q = [i \in 1 .. k |-> q[i]] /\ \A i \in 1 .. k : q[i].shape = nds[s.args[i]].shape
          BY <5>3
        <5>5. IsSequence(q) /\ Len(q) = k
          BY <5>4, FunctionIsSequence
        <5>6. Len(x) = k /\ \A i \in 1 .. k : q[i].shape = x[i].shape
          BY <5>2, <5>4
        <5>7. Kept(q, s, x)
          BY <4>1, <5>5, <5>6 DEF Kept
        <5>. QED
          BY <5>1, <5>5, <5>7
      <4>2. CASE s.op # "Concat"
        <5>1. node.saved = Handles(kept, free)
          BY <1>9, <1>11, <2>2, <4>2 DEF MadeFrom
        <5>2. /\ IsSequence(node.saved) /\ DOMAIN node.saved = 1 .. Len(kept)
              /\ \A i \in 1 .. Len(kept) : node.saved[i].shape = kept[i].shape
          <6>1. PICK h : h = Handles(kept, free)
            OBVIOUS
          <6>2. /\ IsSequence(h) /\ DOMAIN h = 1 .. Len(kept)
                /\ \A i \in 1 .. Len(kept) : h[i].shape = kept[i].shape
            BY <1>10, <6>1, HandlesFact
          <6>. QED
            BY <5>1, <6>1, <6>2
        <5>3. DOMAIN kept = 1 .. Len(kept)
          BY <1>10 DEF IsSequence
        <5>. QED
          BY <1>9, <4>2, <5>2, <5>3 DEF Kept
      <4>. QED
        BY <4>1, <4>2
    <3>. QED
      BY <1>4, <3>1, <3>2 DEF ComputedFrom, MadeFrom
  <2>3. n > L
    BY <1>2
  <2>4. node.op # "Leaf" =>
          /\ node.op = s.op /\ node.with = s.with /\ node.args = s.args /\ s.op # "LessEqual"
    BY DEF MadeFrom
  <2>. QED
    BY <1>2, <1>4, <2>1, <2>2, <2>3, <2>4 DEF ShapeOK
<1>16. BufferOK(n, r, N, L, st)
  <2>1. r[n].buffer \in 1 .. N /\ n > L
    <3>1. PICK b, c : b = r[n].buffer /\ c = Len(nds)
      OBVIOUS
    <3>2. b \in 1 .. M + own /\ n = c + 1 /\ c >= L /\ c \in Nat
      BY <1>2, <1>4, <1>14, <3>1
    <3>. QED
      BY <1>2, <1>12, <3>1, <3>2
  <2>2. ASSUME s.op = "Reshape" PROVE r[n].buffer = r[s.args[1]].buffer
    BY <1>4, <1>7, <1>14, <2>2 DEF Placed
  <2>3. ASSUME s.op # "Reshape" PROVE r[n].buffer > L
    <3>1. buffer = M + 1 /\ r[n].buffer = buffer
      BY <1>4, <1>14, <2>3 DEF Placed
    <3>. QED
      BY <1>2, <3>1
  <2>. QED
    BY <1>2, <2>1, <2>2, <2>3 DEF BufferOK
<1>17. SavedOK(n, r, N)
  <2>1. ASSUME node.op # "Concat", NEW i \in DOMAIN node.saved
        PROVE  /\ node.saved[i].buffer \in 1 .. N
               /\ \A m \in 1 .. n : node.saved[i].buffer # r[m].buffer
    <3>1. node.op # "Leaf"
      <4>1. node.saved # <<>>
        BY <2>1
      <4>2. node.op = "Leaf" => node.saved = <<>> \/ node.op = s.op
        BY DEF MadeFrom
      <4>3. s.op # "Leaf"
        BY <1>6 DEF Callable, Unary, Binary, Ternary
      <4>. QED
        BY <4>1, <4>2, <4>3
    <3>2. s.op # "Concat" /\ node.saved = Handles(kept, free)
      BY <1>9, <1>11, <2>1, <3>1 DEF MadeFrom
    <3>3. i \in 1 .. Len(kept) /\ node.saved[i].buffer = free + i - 1
      BY <1>10, <2>1, <3>2, HandlesFact
    <3>4. N = M + own + Len(kept)
      BY <1>9, <1>12, <2>1, <3>1 DEF CopiesOf
    <3>5. PICK b : b = node.saved[i].buffer
      OBVIOUS
    <3>6. b \in 1 .. N /\ b > M + own
      <4>1. PICK k, a : k = Len(kept) /\ a = M + own
        OBVIOUS
      <4>2. k \in Nat /\ a \in Nat
        BY <1>2, <1>10, <4>1
      <4>3. i \in 1 .. k /\ b = free + i - 1 /\ N = a + k /\ free = a + 1
        BY <1>11, <3>3, <3>4, <3>5, <4>1
      <4>4. b \in 1 .. N /\ b > a
        BY <4>2, <4>3
      <4>. QED
        BY <4>1, <4>4
    <3>7. ASSUME NEW m \in 1 .. n PROVE r[m].buffer \in 1 .. M + own
      <4>1. CASE m = n
        BY <1>4, <1>14, <4>1
      <4>2. CASE m # n
        <5>1. m \in 1 .. Len(nds)
          BY <1>2, <4>2
        <5>2. r[m].buffer \in 1 .. M
          BY <1>4, <1>13, <5>1
        <5>3. PICK c : c = r[m].buffer
          OBVIOUS
        <5>4. c \in 1 .. M + own
          BY <1>2, <5>2, <5>3
        <5>. QED
          BY <5>3, <5>4
      <4>. QED
        BY <4>1, <4>2
    <3>8. \A m \in 1 .. n : b # r[m].buffer
      BY <1>2, <3>6, <3>7
    <3>. QED
      BY <3>5, <3>6, <3>8
  <2>. QED
    BY <1>4, <2>1 DEF SavedOK
<1>18. N >= M /\ (node.buffer > M \/ \E m \in 1 .. Len(nds) : node.buffer = nds[m].buffer)
  BY <1>12, <1>14
<1>. QED
  BY <1>1, <1>12, <1>15, <1>16, <1>17, <1>18, GraphGrows

-----------------------------------------------------------------------------
(* The graph of every reachable state.                                     *)

GraphInv ==
  /\ WellFormed(Len(leaves), statements) /\ IsSequence(leaves) /\ IsSequence(memory)
  /\ GraphOK(nodes, Len(memory), Len(leaves), statements)

Joined(r, p, q) ==
  IsSequence(r) /\ Len(r) = Len(p) + Len(q) /\ \A i \in 1 .. Len(p) : r[i] = p[i]

LEMMA ConcatFact ==
  ASSUME NEW p, NEW q, IsSequence(p), IsSequence(q)
  PROVE  Joined(p \o q, p, q)
<1>1. PICK X, Y : p \in Seq(X) /\ q \in Seq(Y)
  BY SequenceIsSeq
<1>2. PICK Z : Z = X \cup Y
  OBVIOUS
<1>3. p \in Seq(Z) /\ q \in Seq(Z)
  BY <1>1, <1>2
<1>4. PICK r : r = p \o q
  OBVIOUS
<1>5. r \in Seq(Z) /\ Len(r) = Len(p) + Len(q) /\ \A i \in 1 .. Len(p) : r[i] = p[i]
  BY <1>3, <1>4
<1>. QED
  BY <1>4, <1>5, SeqIsSequence DEF Joined

LEMMA InitGraph == Init => GraphInv
<1>. SUFFICES ASSUME Init PROVE GraphInv
  OBVIOUS
<1>1. PICK p \in DOMAIN Programs : program = Completed(Programs[p])
  BY DEF Init
<1>2. leaves = Programs[p].leaves /\ statements = Programs[p].statements
  BY <1>1 DEF Completed, leaves, statements
<1>3. PICK lv, st, L : lv = leaves /\ st = statements /\ L = Len(leaves)
  OBVIOUS
<1>4. /\ IsSequence(lv) /\ IsSequence(st) /\ \A n \in 1 .. L : IsSequence(lv[n].value.shape)
      /\ \A k \in 1 .. Len(st) : Callable(st[k], L + k - 1)
  BY <1>2, <1>3, ProgramsAssumption DEF Callable
<1>5. L \in Nat /\ DOMAIN lv = 1 .. L
  BY <1>3, <1>4 DEF IsSequence
<1>6. WellFormed(L, st)
  BY <1>4, <1>5 DEF WellFormed
<1>7. PICK nds, mem : nds = nodes /\ mem = memory
  OBVIOUS
<1>8. /\ nds = [n \in 1 .. L |-> Leaf(lv[n].value.shape, n, lv[n].device, lv[n].requires_grad)]
      /\ mem = [n \in 1 .. L |-> lv[n].value.data]
  BY <1>3, <1>5, <1>7 DEF Init
<1>9. nds = [n \in 1 .. L |-> nds[n]] /\ mem = [n \in 1 .. L |-> mem[n]]
  BY <1>8
<1>10. IsSequence(nds) /\ Len(nds) = L /\ IsSequence(mem) /\ Len(mem) = L
  BY <1>5, <1>9, FunctionIsSequence
<1>11. ASSUME NEW n \in 1 .. L
       PROVE  ShapeOK(n, nds, L, st) /\ BufferOK(n, nds, L, L, st) /\ SavedOK(n, nds, L)
  <2>1. /\ nds[n].op = "Leaf" /\ nds[n].saved = <<>> /\ nds[n].buffer = n
        /\ nds[n].shape = lv[n].value.shape
    BY <1>8 DEF Leaf
  <2>2. ShapeOK(n, nds, L, st)
    BY <1>4, <2>1 DEF ShapeOK
  <2>3. BufferOK(n, nds, L, L, st)
    BY <1>5, <2>1 DEF BufferOK
  <2>4. SavedOK(n, nds, L)
    BY <2>1 DEF SavedOK
  <2>. QED
    BY <2>2, <2>3, <2>4
<1>12. L <= L + Len(st)
  BY <1>4, <1>5 DEF IsSequence
<1>13. GraphOK(nds, L, L, st)
  BY <1>5, <1>10, <1>11, <1>12 DEF GraphOK
<1>. QED
  BY <1>3, <1>4, <1>6, <1>7, <1>10, <1>13 DEF GraphInv

(* An application extends the memory, and keeps the graph.                 *)
LEMMA ApplyGraph ==
  ASSUME GraphInv, Apply
  PROVE  GraphInv' /\ \A b \in 1 .. Len(memory) : memory'[b] = memory[b]
<1>1. PICK nds, mem, M, L, st, n : /\ nds = nodes /\ mem = memory /\ M = Len(memory) /\ L = Len(leaves)
                                   /\ st = statements /\ n = Len(nodes) + 1
  OBVIOUS
<1>2. WellFormed(L, st) /\ GraphOK(nds, M, L, st) /\ IsSequence(mem) /\ IsSequence(nds)
  BY <1>1 DEF GraphInv, GraphOK
<1>3. /\ M \in Nat /\ L \in Nat /\ Len(st) \in Nat /\ Len(nds) \in Nat /\ n = Len(nds) + 1
      /\ Len(nds) >= L /\ n <= L + Len(st) /\ n - L \in 1 .. Len(st)
  <2>1. M \in Nat /\ L \in Nat /\ Len(st) \in Nat /\ Len(nds) \in Nat /\ n = Len(nds) + 1
    BY <1>1, <1>2 DEF WellFormed, GraphOK, IsSequence
  <2>2. PICK a, b : a = Len(nds) /\ b = Len(st)
    OBVIOUS
  <2>3. a # L + b /\ a >= L /\ a <= L + b
    BY <1>1, <1>2, <2>2 DEF Apply, Applied, GraphOK
  <2>4. a >= L /\ n <= L + b /\ n - L \in 1 .. b
    BY <2>1, <2>2, <2>3
  <2>. QED
    BY <2>1, <2>2, <2>4
<1>4. leaves' = leaves /\ statements' = statements
  BY DEF Apply, leaves, statements
<1>5. PICK s, x : s = st[n - L] /\ x = [i \in DOMAIN s.args |-> Value(nds[s.args[i]])]
  OBVIOUS
<1>6. s = Statement(Len(nodes) + 1)
  BY <1>1, <1>5 DEF Statement
<1>7. CASE nodes' = nodes /\ memory' = memory
  BY <1>4, <1>7 DEF GraphInv
<1>8. CASE ~(nodes' = nodes /\ memory' = memory)
  <2>1. /\ Accepts(s, x)
        /\ \E c \in {Compute(s, x)} :
              LET own == IF IsView(s) THEN <<>> ELSE <<c.out.data>>
                  buffer == IF IsView(s) THEN nodes[s.args[1]].buffer ELSE Len(memory) + 1
                  node == MakeResult(s, c.out, c.saved, buffer, Len(memory) + Len(own) + 1)
                  copies == IF node.op \in {"Leaf", "Concat"} THEN <<>>
                            ELSE [i \in DOMAIN c.saved |-> c.saved[i].data]
              IN nodes' = Append(nodes, node) /\ memory' = memory \o own \o copies
    BY <1>1, <1>5, <1>6, <1>8 DEF Apply, Checks
  <2>2. PICK c : c = Compute(s, x)
    OBVIOUS
  <2>3. PICK own, buffer : /\ own = IF IsView(s) THEN <<>> ELSE <<c.out.data>>
                           /\ buffer = IF IsView(s) THEN nds[s.args[1]].buffer ELSE M + 1
    OBVIOUS
  <2>4. PICK node : node = MakeResult(s, c.out, c.saved, buffer, M + Len(own) + 1)
    OBVIOUS
  <2>5. PICK copies : copies = IF node.op \in {"Leaf", "Concat"} THEN <<>>
                               ELSE [i \in DOMAIN c.saved |-> c.saved[i].data]
    OBVIOUS
  <2>6. nodes' = Append(nds, node) /\ memory' = mem \o own \o copies
    BY <1>1, <2>1, <2>2, <2>3, <2>4, <2>5
  <2>7. Callable(s, Len(nds))
    <3>1. Callable(st[n - L], L + (n - L) - 1)
      BY <1>2, <1>3 DEF WellFormed
    <3>2. L + (n - L) - 1 = Len(nds)
      <4>1. PICK a : a = Len(nds)
        OBVIOUS
      <4>. QED
        BY <1>3, <4>1
    <3>. QED
      BY <1>5, <3>1, <3>2
  <2>8. PICK k \in Nat : k = Len(s.args) /\ DOMAIN s.args = 1 .. k
    BY <2>7 DEF Callable, IsSequence
  <2>9. /\ x = [i \in 1 .. k |-> x[i]]
        /\ \A i \in 1 .. k : x[i].shape = nds[s.args[i]].shape /\ s.args[i] \in 1 .. Len(nds)
    BY <1>5, <2>7, <2>8 DEF Value, Callable
  <2>10. IsSequence(x) /\ Len(x) = k
    BY <2>9, FunctionIsSequence
  <2>11. \A m \in 1 .. Len(nds) : IsSequence(nds[m].shape)
    BY <1>2 DEF GraphOK, ShapeOK
  <2>12. Legal(s, x)
    <3>1. \A i \in 1 .. Len(x) : IsSequence(x[i].shape)
      BY <2>9, <2>10, <2>11
    <3>2. \/ s.op \in Unary /\ Len(x) = 1
          \/ s.op \in Binary /\ Len(x) = 2
          \/ s.op \in Ternary /\ Len(x) = 3
          \/ s.op = "Concat" /\ Len(x) > 0
      BY <2>7, <2>8, <2>10 DEF Callable
    <3>3. s.op = "Reshape" => IsSequence(s.with.shape)
      BY <2>7 DEF Callable
    <3>. QED
      BY <2>1, <2>10, <3>1, <3>2, <3>3 DEF Legal
  <2>13. /\ Len(own) \in {0, 1} /\ IsSequence(own) /\ Placed(s, nds, M, buffer, Len(own))
    <3>1. CASE s.op = "Reshape"
      <4>1. own = <<>> /\ buffer = nds[s.args[1]].buffer
        BY <2>3, <3>1 DEF IsView
      <4>2. Len(own) = 0
        BY <4>1
      <4>. QED
        BY <3>1, <4>1, <4>2, TupleIsSequence DEF Placed
    <3>2. CASE s.op # "Reshape"
      <4>1. own = <<c.out.data>> /\ buffer = M + 1
        BY <2>3, <3>2 DEF IsView
      <4>2. Len(own) = 1
        BY <4>1
      <4>. QED
        BY <3>2, <4>1, <4>2, TupleIsSequence, Zenon DEF Placed
    <3>. QED
      BY <3>1, <3>2
  <2>14. MadeFrom(node, s, x, nds, buffer, M + Len(own) + 1)
    BY <1>1, <2>2, <2>4, MakeResultFact
  <2>15. IsSequence(copies) /\ Len(copies) \in Nat /\ CopiesOf(node, Compute(s, x).saved, Len(copies))
    <3>1. CASE node.op \in {"Leaf", "Concat"}
      <4>1. copies = <<>>
        BY <2>5, <3>1
      <4>2. Len(copies) = 0
        BY <4>1
      <4>. QED
        BY <3>1, <4>1, <4>2, TupleIsSequence DEF CopiesOf
    <3>2. CASE node.op \notin {"Leaf", "Concat"}
      <4>1. PICK j \in Nat : j = Len(c.saved) /\ DOMAIN c.saved = 1 .. j
        BY <2>2, <2>12, SavedIsSequence DEF IsSequence
      <4>2. copies = [i \in 1 .. j |-> copies[i]]
        BY <2>5, <3>2, <4>1
      <4>3. IsSequence(copies) /\ Len(copies) = j
        BY <4>1, <4>2, FunctionIsSequence
      <4>. QED
        BY <2>2, <4>1, <4>3 DEF CopiesOf
    <3>. QED
      BY <3>1, <3>2
  <2>16. /\ IsSequence(memory') /\ Len(memory') = M + Len(own) + Len(copies)
         /\ \A b \in 1 .. M : memory'[b] = mem[b]
    <3>1. Joined(mem \o own, mem, own)
      BY <1>2, <2>13, ConcatFact
    <3>2. PICK p : p = mem \o own
      OBVIOUS
    <3>3. Joined(p \o copies, p, copies) /\ Len(p) = M + Len(own) /\ \A b \in 1 .. M : p[b] = mem[b]
      BY <1>1, <2>15, <3>1, <3>2, ConcatFact DEF Joined
    <3>4. PICK r : r = memory' /\ r = p \o copies
      BY <2>6, <3>2
    <3>5. IsSequence(r) /\ Len(r) = Len(p) + Len(copies) /\ \A b \in 1 .. Len(p) : r[b] = p[b]
      BY <3>3, <3>4 DEF Joined
    <3>6. \A b \in 1 .. M : b \in 1 .. Len(p)
      BY <1>3, <2>13, <3>3
    <3>. QED
      BY <3>3, <3>4, <3>5, <3>6
  <2>17. GraphOK(Append(nds, node), M + Len(own) + Len(copies), L, st)
    BY <1>2, <1>3, <1>5, <2>8, <2>9, <2>10, <2>12, <2>13, <2>14, <2>15, ResultJoins,
       ZenonT(60)
  <2>18. GraphInv'
    BY <1>1, <1>4, <2>6, <2>16, <2>17 DEF GraphInv
  <2>. QED
    BY <1>1, <2>16, <2>18
<1>. QED
  BY <1>7, <1>8

(* The elements of leaves are overwritten, and nothing else.               *)
LEMMA WriteGraph ==
  ASSUME GraphInv, Write
  PROVE  /\ GraphInv' /\ Len(memory') = Len(memory)
         /\ \A b \in 1 .. Len(memory) : b > Len(leaves) => memory'[b] = memory[b]
<1>0. PICK n \in DOMAIN leaves : \E e : memory' = [memory EXCEPT ![nodes[n].buffer] = e]
  BY DEF Write
<1>1. PICK e : memory' = [memory EXCEPT ![nodes[n].buffer] = e]
  BY <1>0
<1>2. n \in 1 .. Len(leaves) /\ Len(leaves) \in Nat
  BY DEF GraphInv, IsSequence
<1>3. n \in 1 .. Len(nodes)
  BY <1>2 DEF GraphInv, GraphOK, IsSequence
<1>4. nodes[n].buffer = n
  BY <1>2, <1>3 DEF GraphInv, GraphOK, BufferOK
<1>5. memory' = [memory EXCEPT ![n] = e]
  BY <1>1, <1>4
<1>6. IsSequence(memory') /\ Len(memory') = Len(memory)
  BY <1>5, ExceptIsSequence DEF GraphInv
<1>7. \A b \in 1 .. Len(memory) : b > Len(leaves) => memory'[b] = memory[b]
  <2>1. PICK mem, r, M : mem = memory /\ r = memory' /\ M = Len(memory)
    OBVIOUS
  <2>2. DOMAIN mem = 1 .. M
    BY <2>1 DEF GraphInv, IsSequence
  <2>. QED
    BY <1>2, <1>5, <2>1, <2>2
<1>8. leaves' = leaves /\ statements' = statements /\ nodes' = nodes
  BY DEF Write, leaves, statements
<1>. QED
  BY <1>6, <1>7, <1>8 DEF GraphInv

LEMMA OtherGraph ==
  ASSUME GraphInv, UNCHANGED <<program, nodes, memory>>
  PROVE  GraphInv'
  BY DEF GraphInv, leaves, statements

LEMMA GraphStep == GraphInv /\ [Next]_vars => GraphInv'
<1>. SUFFICES ASSUME GraphInv, [Next]_vars PROVE GraphInv'
  OBVIOUS
<1>1. CASE Apply
  BY <1>1, ApplyGraph
<1>2. CASE Begin
  BY <1>2, OtherGraph DEF Begin
<1>3. CASE Propagate
  BY <1>3, OtherGraph DEF Propagate
<1>4. CASE Commit
  BY <1>4, OtherGraph DEF Commit
<1>5. CASE Write
  BY <1>5, WriteGraph
<1>6. CASE UNCHANGED vars
  BY <1>6, OtherGraph DEF vars
<1>. QED
  BY <1>1, <1>2, <1>3, <1>4, <1>5, <1>6 DEF Next, Stop

THEOREM GraphAlways == Spec => []GraphInv
  BY InitGraph, GraphStep, PTL DEF Spec

(* What backward reads the elements of lies in a buffer that no variable   *)
(* has: a copy that nothing overwrites before it is read.                  *)
THEOREM SavedStaysPrivate == Spec => []SavedIsPrivate
<1>1. GraphInv => SavedIsPrivate
  <2>. SUFFICES ASSUME GraphInv, NEW n \in DOMAIN nodes, NEW m \in DOMAIN nodes,
                       NEW i \in DOMAIN nodes[n].saved, nodes[n].op # "Concat"
                PROVE  nodes[n].saved[i].buffer # nodes[m].buffer
    BY DEF SavedIsPrivate
  <2>1. n \in 1 .. Len(nodes) /\ m \in 1 .. Len(nodes)
    BY DEF GraphInv, GraphOK, IsSequence
  <2>2. SavedOK(n, nodes, Len(memory))
    BY <2>1 DEF GraphInv, GraphOK
  <2>. QED
    BY <2>1, <2>2 DEF SavedOK
<1>. QED
  BY <1>1, GraphAlways, PTL

(* A result keeps the elements it was computed with, and a view those of   *)
(* its operand, whatever is applied or written later.                      *)
THEOREM ResultsKeepValues == Spec => ResultsKeep
<1>1. ASSUME GraphInv, GraphInv', [Next]_vars, NEW n \in DOMAIN nodes, IsResult(n)
      PROVE  IF Statement(n).op = "Reshape"
             THEN memory'[nodes[n].buffer] = memory'[nodes[Statement(n).args[1]].buffer]
             ELSE memory'[nodes[n].buffer] = memory[nodes[n].buffer]
  <2>1. n \in 1 .. Len(nodes) /\ n > Len(leaves)
    BY <1>1 DEF GraphInv, GraphOK, IsSequence, IsResult
  <2>2. BufferOK(n, nodes, Len(memory), Len(leaves), statements)
    BY <1>1, <2>1 DEF GraphInv, GraphOK
  <2>3. CASE Statement(n).op = "Reshape"
    BY <2>1, <2>2, <2>3 DEF BufferOK, Statement
  <2>4. CASE Statement(n).op # "Reshape"
    <3>1. PICK b : b = nodes[n].buffer
      OBVIOUS
    <3>2. b \in 1 .. Len(memory) /\ b > Len(leaves)
      BY <2>1, <2>2, <2>4, <3>1 DEF BufferOK, Statement
    <3>3. memory'[b] = memory[b]
      <4>1. CASE Apply
        BY <1>1, <3>2, <4>1, ApplyGraph
      <4>2. CASE Write
        BY <1>1, <3>2, <4>2, WriteGraph
      <4>3. CASE Begin \/ Propagate \/ Commit \/ Stop \/ UNCHANGED vars
        BY <4>3 DEF Begin, Propagate, Commit, Stop, vars
      <4>. QED
        BY <1>1, <4>1, <4>2, <4>3 DEF Next
    <3>. QED
      BY <2>4, <3>1, <3>3
  <2>. QED
    BY <2>3, <2>4
<1>2. GraphInv /\ GraphInv' /\ [Next]_vars =>
        [\A n \in DOMAIN nodes : IsResult(n) =>
           IF Statement(n).op = "Reshape"
           THEN memory'[nodes[n].buffer] = memory'[nodes[Statement(n).args[1]].buffer]
           ELSE memory'[nodes[n].buffer] = memory[nodes[n].buffer]]_vars
  BY <1>1
<1>. QED
  BY <1>2, GraphAlways, PTL DEF Spec, ResultsKeep

-----------------------------------------------------------------------------
(* The backward pass.                                                      *)

(* Gradients that wait have the shapes of their nodes.                     *)
FitsNodes(p, nds) ==
  \A n \in DOMAIN p : p[n] # <<>> => p[n][1].shape = nds[n].shape

PendingInv ==
  /\ pc # "failed"
  /\ pc = "forward" => pending = <<>>
  /\ pc = "backward" => DOMAIN pending = 1 .. Len(nodes) /\ left \in SUBSET (1 .. Len(nodes))
  /\ FitsNodes(pending, nodes)

(* The function that Accumulate is defined by.                             *)
Accumulating(f, q, p, node, nds, k) ==
  f = [i \in 0 .. k |->
         IF i = 0 THEN p
         ELSE IF ~nds[node.args[i]].requires_grad THEN f[i - 1]
         ELSE [f[i - 1] EXCEPT ![node.args[i]] =
                 IF @ = <<>> THEN <<q[i]>> ELSE <<Add(@[1], q[i])>>]]

LEMMA AccumulatingExtends ==
  ASSUME NEW f, NEW q, NEW p, NEW node, NEW nds, NEW k \in Nat,
         Accumulating(f, q, p, node, nds, k)
  PROVE  \E g : Accumulating(g, q, p, node, nds, k + 1)
<1> DEFINE a == node.args[k + 1]
           last == IF ~nds[a].requires_grad THEN f[k]
                   ELSE [f[k] EXCEPT ![a] = IF @ = <<>> THEN <<q[k + 1]>> ELSE <<Add(@[1], q[k + 1])>>]
<1>1. PICK g : g = [i \in 0 .. k + 1 |-> IF i = k + 1 THEN last ELSE f[i]]
  OBVIOUS
<1>2. \A i \in 0 .. k : g[i] = f[i]
  BY <1>1
<1>3. ASSUME NEW i \in 0 .. k + 1
      PROVE  g[i] = IF i = 0 THEN p
                    ELSE IF ~nds[node.args[i]].requires_grad THEN g[i - 1]
                    ELSE [g[i - 1] EXCEPT ![node.args[i]] =
                            IF @ = <<>> THEN <<q[i]>> ELSE <<Add(@[1], q[i])>>]
  <2>1. CASE i = k + 1
    <3>1. i - 1 = k /\ k \in 0 .. k /\ i # 0
      BY <2>1
    <3>2. g[i - 1] = f[k] /\ g[i] = last
      BY <1>1, <1>2, <2>1, <3>1
    <3>. QED
      BY <2>1, <3>1, <3>2
  <2>2. CASE i = 0
    <3>1. i \in 0 .. k
      BY <2>2
    <3>2. g[i] = f[i] /\ f[i] = p
      BY <1>2, <2>2, <3>1 DEF Accumulating
    <3>. QED
      BY <2>2, <3>2
  <2>3. CASE i # k + 1 /\ i # 0
    <3>1. i \in 0 .. k /\ i - 1 \in 0 .. k
      BY <2>3
    <3>2. g[i] = f[i] /\ g[i - 1] = f[i - 1]
      BY <1>2, <3>1
    <3>. QED
      BY <2>3, <3>1, <3>2 DEF Accumulating
  <2>. QED
    BY <2>1, <2>2, <2>3
<1>4. g = [i \in 0 .. k + 1 |-> g[i]]
  BY <1>1
<1>5. Accumulating(g, q, p, node, nds, k + 1)
  <2>. HIDE DEF last
  <2>. QED
    BY <1>3, <1>4 DEF Accumulating
<1>. QED
  BY <1>5

LEMMA AccumulatingExists ==
  ASSUME NEW q, NEW p, NEW node, NEW nds, NEW K \in Nat
  PROVE  \E f : Accumulating(f, q, p, node, nds, K)
<1> DEFINE T == {k \in Nat : ~ \E f : Accumulating(f, q, p, node, nds, k)}
<1>1. SUFFICES ASSUME T # {} PROVE FALSE
  OBVIOUS
<1>2. PICK k \in T : \A m \in T : ~ (m < k)
  <2>1. T \in SUBSET Nat
    OBVIOUS
  <2>. HIDE DEF T
  <2>. QED
    BY <1>1, <2>1, LeastExists
<1>3. k # 0
  <2>1. Accumulating([i \in 0 .. 0 |-> p], q, p, node, nds, 0)
    BY DEF Accumulating
  <2>. QED
    BY <1>2, <2>1
<1>4. k - 1 \in Nat /\ k - 1 < k /\ (k - 1) + 1 = k
  BY <1>2, <1>3
<1>5. PICK f : Accumulating(f, q, p, node, nds, k - 1)
  BY <1>2, <1>4
<1>6. \E g : Accumulating(g, q, p, node, nds, (k - 1) + 1)
  BY <1>4, <1>5, AccumulatingExtends
<1>. QED
  BY <1>2, <1>4, <1>6

GradientsFitOperands(q, node, nds, k) == \A i \in 1 .. k : q[i].shape = nds[node.args[i]].shape

(* Adding gradients of the shapes of the operands keeps every shape.       *)
LEMMA AccumulatingFits ==
  ASSUME NEW q, NEW p, NEW node, NEW nds, NEW K \in Nat,
         NEW f, Accumulating(f, q, p, node, nds, K), FitsNodes(p, nds),
         GradientsFitOperands(q, node, nds, K)
  PROVE  DOMAIN f[K] = DOMAIN p /\ FitsNodes(f[K], nds)
<1> DEFINE T == {i \in 0 .. K : ~(DOMAIN f[i] = DOMAIN p /\ FitsNodes(f[i], nds))}
<1>1. SUFFICES ASSUME T # {} PROVE FALSE
  OBVIOUS
<1>2. PICK i \in T : \A m \in T : ~ (m < i)
  <2>1. T \in SUBSET Nat
    OBVIOUS
  <2>. HIDE DEF T
  <2>. QED
    BY <1>1, <2>1, LeastExists
<1>3. i # 0
  BY <1>2 DEF Accumulating
<1>4. i - 1 \in 0 .. K /\ i - 1 < i /\ i \in 1 .. K
  BY <1>2, <1>3
<1>5. PICK before, after, a, e : /\ before = f[i - 1] /\ after = f[i] /\ a = node.args[i]
                                 /\ e = IF before[a] = <<>> THEN <<q[i]>> ELSE <<Add(before[a][1], q[i])>>
  OBVIOUS
<1>6. DOMAIN before = DOMAIN p /\ FitsNodes(before, nds)
  BY <1>2, <1>4, <1>5
<1>7. after = before \/ after = [before EXCEPT ![a] = e]
  BY <1>2, <1>3, <1>5 DEF Accumulating
<1>8. ASSUME after = [before EXCEPT ![a] = e], NEW n \in DOMAIN before, after[n] # <<>>
      PROVE  after[n][1].shape = nds[n].shape
  <2>1. CASE n # a
    BY <1>6, <1>8, <2>1 DEF FitsNodes
  <2>2. CASE n = a
    <3>1. after[n] = e
      BY <1>8, <2>2
    <3>2. CASE before[a] = <<>>
      BY <1>4, <1>5, <2>2, <3>1, <3>2 DEF GradientsFitOperands
    <3>3. CASE before[a] # <<>>
      <4>1. before[a][1].shape = nds[a].shape
        BY <1>6, <1>8, <2>2, <3>3 DEF FitsNodes
      <4>2. Add(before[a][1], q[i]).shape = before[a][1].shape
        BY DEF Add, Map2
      <4>. QED
        BY <1>5, <2>2, <3>1, <3>3, <4>1, <4>2
    <3>. QED
      BY <3>2, <3>3
  <2>. QED
    BY <2>1, <2>2
<1>9. DOMAIN after = DOMAIN p /\ FitsNodes(after, nds)
  BY <1>6, <1>7, <1>8 DEF FitsNodes
<1>. QED
  BY <1>2, <1>5, <1>9

LEMMA AccumulateFits ==
  ASSUME NEW n, NEW q, Len(q) \in Nat, FitsNodes(pending, nodes),
         GradientsFitOperands(q, nodes[n], nodes, Len(q))
  PROVE  DOMAIN Accumulate(n, q) = DOMAIN pending /\ FitsNodes(Accumulate(n, q), nodes)
<1>1. PICK node, nds, p, K :
        node = nodes[n] /\ nds = nodes /\ p = pending /\ K = Len(q) /\ K \in Nat
  OBVIOUS
<1> DEFINE f == CHOOSE g : Accumulating(g, q, p, node, nds, K)
<1>2. Accumulating(f, q, p, node, nds, K)
  BY <1>1, AccumulatingExists
<1>3. GradientsFitOperands(q, node, nds, K)
  BY <1>1
<1>4. DOMAIN f[K] = DOMAIN p /\ FitsNodes(f[K], nds)
  <2>1. FitsNodes(p, nds)
    BY <1>1
  <2>. HIDE DEF f
  <2>. QED
    BY <1>1, <1>2, <1>3, <2>1, AccumulatingFits
<1>5. Accumulate(n, q) = f[K]
  BY <1>1 DEF Accumulate, Accumulating
<1>. QED
  BY <1>1, <1>4, <1>5

LEMMA ReachableNodes == GraphInv => Reachable \in SUBSET (1 .. Len(nodes))
<1>1. PICK reached : Reachable = {n \in 1 .. Len(nodes) : reached[n]}
  BY DEF Reachable
<1>. QED
  BY <1>1

(* backward_step on a node of the graph.                                   *)
LEMMA StepFits ==
  ASSUME GraphInv, NEW n \in 1 .. Len(nodes), nodes[n].op # "Leaf",
         NEW g, g.shape = nodes[n].shape,
         NEW v, v = [i \in DOMAIN nodes[n].saved |-> Value(nodes[n].saved[i])],
         NEW sh, sh = [i \in DOMAIN nodes[n].args |-> nodes[nodes[n].args[i]].shape],
         NEW q, q = Backward(nodes[n], g, v, sh)
  PROVE  /\ Len(q) \in Nat /\ DOMAIN q = 1 .. Len(q)
         /\ GradientsFitOperands(q, nodes[n], nodes, Len(q))
<1>1. PICK L, st, node : L = Len(leaves) /\ st = statements /\ node = nodes[n]
  OBVIOUS
<1>2. WellFormed(L, st) /\ ShapeOK(n, nodes, L, st)
  BY <1>1 DEF GraphInv, GraphOK
<1>3. PICK s : s = st[n - L]
  OBVIOUS
<1>4. PICK x : ComputedFrom(n, x, nodes, s)
  BY <1>1, <1>2, <1>3 DEF ShapeOK
<1>5. /\ node.op = s.op /\ node.with = s.with /\ node.args = s.args /\ s.op # "LessEqual"
  BY <1>1, <1>2, <1>3 DEF ShapeOK
<1>6. Callable(s, n - 1)
  <2>1. n > L
    BY <1>1, <1>2 DEF ShapeOK, WellFormed, GraphInv, GraphOK, IsSequence
  <2>2. PICK a, b : a = Len(nodes) /\ b = Len(st)
    OBVIOUS
  <2>3. a \in Nat /\ b \in Nat /\ L \in Nat /\ n \in 1 .. a /\ a <= L + b
    BY <1>1, <2>2 DEF GraphInv, GraphOK, WellFormed, IsSequence
  <2>4. n - L \in 1 .. b /\ L + (n - L) - 1 = n - 1
    BY <2>1, <2>3
  <2>. QED
    BY <1>2, <1>3, <2>2, <2>4 DEF WellFormed
<1>7. PICK k \in Nat : k = Len(x) /\ DOMAIN s.args = 1 .. k
  BY <1>4, <1>6 DEF Callable, ComputedFrom, IsSequence
<1>8. \A i \in 1 .. Len(x) : x[i].shape = nodes[s.args[i]].shape
  BY <1>4 DEF ComputedFrom
<1>9. Legal(s, x) /\ g.shape = Compute(s, x).out.shape
  BY <1>4 DEF ComputedFrom
<1>10. Kept(v, s, x)
  <2>1. PICK saved : saved = node.saved
    OBVIOUS
  <2>2. IsSequence(saved) /\ Kept(saved, s, x)
    BY <1>1, <1>4, <2>1 DEF ComputedFrom
  <2>3. v = [i \in DOMAIN saved |-> Value(saved[i])]
    BY <1>1, <2>1
  <2>4. \A i \in DOMAIN saved : v[i].shape = saved[i].shape
    <3>1. \A h : Value(h).shape = h.shape
      BY DEF Value
    <3>. QED
      BY <2>3, <3>1
  <2>5. CASE s.op = "Concat"
    <3>1. Len(saved) = Len(x) /\ DOMAIN saved = 1 .. k /\ \A i \in 1 .. k : saved[i].shape = x[i].shape
      BY <1>7, <2>2, <2>5 DEF Kept, IsSequence
    <3>2. v = [i \in 1 .. k |-> v[i]] /\ \A i \in 1 .. k : v[i].shape = x[i].shape
      BY <2>3, <2>4, <3>1
    <3>3. IsSequence(v) /\ Len(v) = k
      BY <1>7, <3>2, FunctionIsSequence
    <3>. QED
      BY <1>7, <2>5, <3>2, <3>3 DEF Kept
  <2>6. CASE s.op # "Concat"
    BY <2>2, <2>3, <2>4, <2>6 DEF Kept
  <2>. QED
    BY <2>5, <2>6
<1>11. \A i \in 1 .. Len(x) : sh[i] = x[i].shape
  <2>1. sh = [i \in DOMAIN s.args |-> nodes[s.args[i]].shape]
    BY <1>1, <1>5
  <2>. QED
    BY <1>7, <1>8, <2>1
<1>12. q = Backward(s, g, v, sh)
  BY <1>1, <1>5, SameStatement
<1>13. GradientsFor(q, x)
  <2>1. Given(s, x, g, v, sh)
    BY <1>5, <1>9, <1>10, <1>11 DEF Given
  <2>. QED
    BY <1>12, <2>1, BackwardFits
<1>14. Len(q) = k /\ DOMAIN q = 1 .. k /\ \A i \in 1 .. k : q[i].shape = nodes[s.args[i]].shape
  BY <1>7, <1>8, <1>13 DEF GradientsFor
<1>. QED
  BY <1>1, <1>5, <1>7, <1>14 DEF GradientsFitOperands

LEMMA PropagateFits ==
  ASSUME GraphInv, PendingInv, Propagate
  PROVE  PendingInv'
<1>1. PICK n \in left :
        /\ left' = left \ {n}
        /\ IF nodes[n].op = "Leaf" \/ pending[n] = <<>> THEN UNCHANGED <<pc, pending>>
           ELSE LET node == nodes[n]
                IN Deliver(n, Backward(node, pending[n][1],
                                [i \in DOMAIN node.saved |-> Value(node.saved[i])],
                                [i \in DOMAIN node.args |-> nodes[node.args[i]].shape]))
  BY DEF Propagate
<1>2. /\ pc = "backward" /\ DOMAIN pending = 1 .. Len(nodes) /\ n \in 1 .. Len(nodes)
      /\ left \in SUBSET (1 .. Len(nodes)) /\ FitsNodes(pending, nodes) /\ nodes' = nodes
  BY DEF Propagate, PendingInv
<1>3. CASE nodes[n].op = "Leaf" \/ pending[n] = <<>>
  BY <1>1, <1>2, <1>3 DEF PendingInv
<1>4. CASE ~(nodes[n].op = "Leaf" \/ pending[n] = <<>>)
  <2>1. PICK g, v, sh, q : /\ g = pending[n][1]
                           /\ v = [i \in DOMAIN nodes[n].saved |-> Value(nodes[n].saved[i])]
                           /\ sh = [i \in DOMAIN nodes[n].args |-> nodes[nodes[n].args[i]].shape]
                           /\ q = Backward(nodes[n], g, v, sh)
    OBVIOUS
  <2>2. Deliver(n, q)
    BY <1>1, <1>4, <2>1
  <2>3. g.shape = nodes[n].shape
    BY <1>2, <1>4, <2>1 DEF FitsNodes
  <2>4. /\ Len(q) \in Nat /\ DOMAIN q = 1 .. Len(q)
        /\ GradientsFitOperands(q, nodes[n], nodes, Len(q))
    BY <1>2, <1>4, <2>1, <2>3, StepFits
  <2>5. pending' = Accumulate(n, q) /\ pc' = pc
    BY <2>2, <2>4 DEF Deliver, GradientsFitOperands
  <2>6. DOMAIN Accumulate(n, q) = DOMAIN pending /\ FitsNodes(Accumulate(n, q), nodes)
    BY <1>2, <2>4, AccumulateFits
  <2>. QED
    BY <1>1, <1>2, <2>5, <2>6 DEF PendingInv
<1>. QED
  BY <1>3, <1>4

LEMMA PendingStep == GraphInv /\ PendingInv /\ [Next]_vars => PendingInv'
<1>. SUFFICES ASSUME GraphInv, PendingInv, [Next]_vars PROVE PendingInv'
  OBVIOUS
<1>1. CASE Apply
  <2>1. /\ pc = "forward" /\ pending = <<>> /\ pending' = pending
        /\ pc' \in {"forward", "rejected"}
    BY <1>1 DEF Apply, PendingInv
  <2>2. FitsNodes(<<>>, nodes')
    BY DEF FitsNodes
  <2>. QED
    BY <2>1, <2>2 DEF PendingInv
<1>2. CASE Begin
  <2>1. CASE nodes[Len(nodes)].requires_grad /\ program.upstream.shape = nodes[Len(nodes)].shape
    <3>1. /\ pc' = "backward" /\ left' = Reachable /\ nodes' = nodes
          /\ pending' = [n \in DOMAIN nodes |-> IF n = Len(nodes) THEN <<program.upstream>> ELSE <<>>]
      BY <1>2, <2>1 DEF Begin
    <3>2. DOMAIN nodes = 1 .. Len(nodes)
      BY DEF GraphInv, GraphOK, IsSequence
    <3>3. FitsNodes(pending', nodes)
      BY <2>1, <3>1 DEF FitsNodes
    <3>. QED
      BY <3>1, <3>2, <3>3, ReachableNodes DEF PendingInv
  <2>2. CASE ~(nodes[Len(nodes)].requires_grad /\ program.upstream.shape = nodes[Len(nodes)].shape)
    BY <1>2, <2>2 DEF Begin, PendingInv
  <2>. QED
    BY <2>1, <2>2
<1>3. CASE Propagate
  BY <1>3, PropagateFits
<1>4. CASE Commit
  BY <1>4 DEF Commit, PendingInv
<1>5. CASE Write
  BY <1>5 DEF Write, PendingInv
<1>6. CASE UNCHANGED vars
  BY <1>6 DEF vars, PendingInv
<1>. QED
  BY <1>1, <1>2, <1>3, <1>4, <1>5, <1>6 DEF Next, Stop

(* validate_gradient never refuses what backward_step returns: every       *)
(* gradient has the shape of its node, for every operation, composition    *)
(* and order of visits.                                                    *)
THEOREM GradientsAlwaysFit == Spec => []GradientsFit
<1>1. Init => PendingInv
  BY DEF Init, PendingInv, FitsNodes
<1>2. PendingInv => GradientsFit
  BY DEF PendingInv, FitsNodes, GradientsFit
<1>. QED
  BY <1>1, <1>2, PendingStep, GraphAlways, PTL DEF Spec
-----------------------------------------------------------------------------
(* What is refused depends on shapes and devices only.                     *)

(* Operands of the same shapes.                                            *)
AlikeOperands(x, y) ==
  /\ IsSequence(x) /\ IsSequence(y) /\ Len(x) = Len(y)
  /\ \A i \in 1 .. Len(x) : x[i].shape = y[i].shape

LEMMA ResultShapeFact ==
  ASSUME NEW s, NEW x, s.op \in Unary \cup Binary \cup Ternary \cup {"Concat"}, s.op # "Refuse"
  PROVE  Compute(s, x).out.shape = ResultShape(s, x)
<1>1. CASE s.op \in {"ReLU", "Sigmoid", "Tanh", "Exp", "Log", "Sqrt", "SiLU", "Softplus", "Sin",
                     "Cos", "Clamp"}
  BY <1>1, ElementwiseShape DEF ResultShape
<1>2. CASE s.op \in {"Add", "Sub", "Mul", "Div", "LessEqual", "Where", "Scale"}
  BY <1>2, ArithmeticShape DEF ResultShape
<1>3. CASE s.op \in {"Softmax", "LogSoftmax", "Cumsum", "Flip"}
  BY <1>3, AxisShape DEF ResultShape
<1>4. CASE s.op \in {"DftReal", "DftImag"}
  BY <1>4, TransformShape DEF ResultShape
<1>5. CASE s.op = "GroupNorm"
  BY <1>5, GroupNormShape DEF ResultShape
<1>6. CASE s.op = "Sum"
  BY <1>6, SumShapes DEF ResultShape
<1>7. CASE s.op = "SumAxes"
  BY <1>7, SumShapes DEF ResultShape
<1>8. CASE s.op = "MatMul"
  BY <1>8, SumShapes DEF ResultShape
<1>9. CASE s.op = "BroadcastAdd"
  BY <1>9, SumShapes DEF ResultShape
<1>10. CASE s.op = "Transpose"
  BY <1>10, LayoutShapes DEF ResultShape
<1>11. CASE s.op = "Reshape"
  BY <1>11, LayoutShapes DEF ResultShape
<1>12. CASE s.op = "Slice"
  BY <1>12 DEF ResultShape, Compute, Layout, Computed, Slice, Tensor
<1>13. CASE s.op = "Concat"
  <2>1. PICK ax : ax = Axis(s.with.axis, Len(x[1].shape))
    OBVIOUS
  <2>2. Compute(s, x).out = Concat(x, ax)
    BY <1>13, <2>1 DEF Compute, Layout, Computed
  <2>3. Concat(x, ax).shape = ConcatShape([k \in DOMAIN x |-> x[k].shape], ax)
    BY DEF Concat, Tensor
  <2>4. ResultShape(s, x) = ConcatShape([k \in DOMAIN x |-> x[k].shape], ax)
    BY <1>13, <2>1 DEF ResultShape
  <2>. QED  BY <2>2, <2>3, <2>4
<1>14. CASE s.op \in {"Conv2d", "DepthwiseConv2d", "MaxPool2d", "AvgPool2d", "NearestUpsample2d"}
  <2>1. PICK h, w : h = OH(x[1], s.with) /\ w = OW(x[1], s.with)
    OBVIOUS
  <2>2. CASE s.op = "Conv2d"
    BY <2>1, <2>2 DEF Compute, Windowed, Computed, Conv2d, Tensor, ResultShape
  <2>3. CASE s.op \in {"DepthwiseConv2d", "AvgPool2d"}
    BY <2>1, <2>3 DEF Compute, Windowed, Computed, Depthwise, AvgPool, Tensor, ResultShape
  <2>4. CASE s.op = "MaxPool2d"
    BY <2>1, <2>4 DEF Compute, Windowed, ComputedPair, Computed, Member, MaxPool, Map, Tensor,
                      ResultShape
  <2>5. CASE s.op = "NearestUpsample2d"
    BY <2>5 DEF Compute, Windowed, Computed, Upsample, Tensor, ResultShape
  <2>. QED  BY <1>14, <2>2, <2>3, <2>4, <2>5
<1>. QED
  BY <1>1, <1>2, <1>3, <1>4, <1>5, <1>6, <1>7, <1>8, <1>9, <1>10, <1>11, <1>12, <1>13, <1>14
     DEF Unary, Binary, Ternary

Arity(s, x) ==
  \/ s.op \in Unary /\ Len(x) = 1
  \/ s.op \in Binary /\ Len(x) = 2
  \/ s.op \in Ternary /\ Len(x) = 3
  \/ s.op = "Concat" /\ Len(x) > 0

Shapes(x) == [k \in DOMAIN x |-> x[k].shape]

LEMMA AlikeFact ==
  ASSUME NEW s, NEW x, NEW y, AlikeOperands(x, y), Arity(s, x)
  PROVE  /\ Len(x) \in Nat /\ DOMAIN x = 1 .. Len(x) /\ DOMAIN y = 1 .. Len(x) /\ Len(x) > 0
         /\ x[1].shape = y[1].shape
         /\ s.op \in Binary \cup Ternary => x[2].shape = y[2].shape
         /\ s.op \in Ternary => x[3].shape = y[3].shape
         /\ Shapes(x) = Shapes(y)
<1>1. PICK n \in Nat : n = Len(x) /\ DOMAIN x = 1 .. n /\ DOMAIN y = 1 .. n
  BY DEF AlikeOperands, IsSequence
<1>2. n > 0
  BY <1>1 DEF Arity
<1>3. \A i \in 1 .. n : x[i].shape = y[i].shape
  BY <1>1 DEF AlikeOperands
<1>4. s.op \in Ternary => n = 3
  BY <1>1 DEF Arity, Unary, Binary, Ternary
<1>5. s.op \in Binary => n = 2
  BY <1>1 DEF Arity, Unary, Binary, Ternary
<1>. QED
  BY <1>1, <1>2, <1>3, <1>4, <1>5 DEF Shapes

LEMMA ResultShapeOfShapes ==
  ASSUME NEW s, NEW x, NEW y, AlikeOperands(x, y), Arity(s, x)
  PROVE  ResultShape(s, x) = ResultShape(s, y)
<1>1. PICK sh : sh = x[1].shape /\ sh = y[1].shape
  BY AlikeFact
<1>2. PICK shapes : /\ shapes = [k \in DOMAIN x |-> x[k].shape]
                    /\ shapes = [k \in DOMAIN y |-> y[k].shape]
  <2>1. PICK shapes : shapes = Shapes(x) /\ shapes = Shapes(y)
    BY AlikeFact
  <2>. QED  BY <2>1 DEF Shapes
<1>3. s.op \in {"MatMul", "BroadcastAdd", "Conv2d"} => x[2].shape = y[2].shape
  BY AlikeFact DEF Binary, Ternary
<1>4. OH(x[1], s.with) = OH(y[1], s.with) /\ OW(x[1], s.with) = OW(y[1], s.with)
  BY <1>1 DEF OH, OW
<1>. QED
  BY <1>1, <1>2, <1>3, <1>4 DEF ResultShape

LEMMA AcceptsOfShapes ==
  ASSUME NEW s, NEW x, NEW y, AlikeOperands(x, y), Arity(s, x)
  PROVE  Accepts(s, x) <=> Accepts(s, y)
<1>1. PICK sh : sh = x[1].shape /\ sh = y[1].shape
  BY AlikeFact
<1>2. PICK shapes : /\ shapes = [k \in DOMAIN x |-> x[k].shape]
                    /\ shapes = [k \in DOMAIN y |-> y[k].shape]
  <2>1. PICK shapes : shapes = Shapes(x) /\ shapes = Shapes(y)
    BY AlikeFact
  <2>. QED  BY <2>1 DEF Shapes
<1>3. SameShapes(x) <=> SameShapes(y)
  <2>1. \A i \in DOMAIN x : i \in DOMAIN y /\ x[i].shape = y[i].shape
    BY AlikeFact DEF AlikeOperands
  <2>2. DOMAIN x = DOMAIN y
    BY AlikeFact
  <2>. QED  BY <1>1, <2>1, <2>2 DEF SameShapes
<1>4. CASE s.op \in {"Add", "Sub", "Mul", "Div", "LessEqual", "Where"}
  BY <1>3, <1>4 DEF Accepts
<1>5. CASE s.op \in {"MatMul", "BroadcastAdd"}
  <2>1. x[2].shape = y[2].shape
    BY <1>5, AlikeFact DEF Binary
  <2>. QED  BY <1>1, <1>5, <2>1 DEF Accepts
<1>6. CASE s.op \in {"Conv2d", "DepthwiseConv2d"}
  <2>1. x[2].shape = y[2].shape /\ x[3].shape = y[3].shape
    BY <1>6, AlikeFact DEF Ternary
  <2>2. \A rank, channels : FilterOK(x, rank, channels, s.with) <=> FilterOK(y, rank, channels, s.with)
    BY <1>1, <2>1 DEF FilterOK
  <2>. QED  BY <1>6, <2>2 DEF Accepts
<1>7. CASE s.op \in {"MaxPool2d", "AvgPool2d"}
  <2>1. PoolOK(x, s.with) <=> PoolOK(y, s.with)
    BY <1>1 DEF PoolOK
  <2>. QED  BY <1>7, <2>1 DEF Accepts
<1>8. CASE s.op = "GroupNorm"
  <2>1. x[2].shape = y[2].shape /\ x[3].shape = y[3].shape
    BY <1>8, AlikeFact DEF Ternary
  <2>2. GroupNormOK(sh, x[2], x[3], s.with.groups) <=> GroupNormOK(sh, y[2], y[3], s.with.groups)
    BY <2>1 DEF GroupNormOK
  <2>. QED  BY <1>1, <1>8, <2>2 DEF Accepts
<1>9. CASE s.op \in {"DftReal", "DftImag"}
  <2>1. x[2].shape = y[2].shape
    BY <1>9, AlikeFact DEF Binary
  <2>2. DFT2OK(x[1], x[2]) <=> DFT2OK(y[1], y[2])
    BY <1>1, <2>1 DEF DFT2OK
  <2>. QED  BY <1>9, <2>2 DEF Accepts
<1>10. CASE s.op = "Concat"
  BY <1>1, <1>2, <1>10 DEF Accepts
<1>11. CASE s.op \notin {"Add", "Sub", "Mul", "Div", "LessEqual", "Where", "MatMul", "BroadcastAdd",
                         "Conv2d", "DepthwiseConv2d", "MaxPool2d", "AvgPool2d", "GroupNorm",
                         "DftReal", "DftImag", "Concat"}
  BY <1>1, <1>11 DEF Accepts
<1>. QED
  BY <1>4, <1>5, <1>6, <1>7, <1>8, <1>9, <1>10, <1>11

(* A call with operands that passes the checks.                            *)
LEMMA CallIsLegal ==
  ASSUME NEW s, NEW known, Callable(s, known), NEW x, x = [i \in DOMAIN s.args |-> x[i]],
         \A i \in 1 .. Len(s.args) : IsSequence(x[i].shape)
  PROVE  /\ IsSequence(x) /\ Len(x) = Len(s.args) /\ Arity(s, x)
         /\ Accepts(s, x) => Legal(s, x)
<1>1. PICK k \in Nat : k = Len(s.args) /\ DOMAIN s.args = 1 .. k
  BY DEF Callable, IsSequence
<1>2. x = [i \in 1 .. k |-> x[i]]
  BY <1>1
<1>3. IsSequence(x) /\ Len(x) = k
  BY <1>2, FunctionIsSequence
<1>4. Arity(s, x)
  BY <1>1, <1>3 DEF Callable, Arity
<1>5. s.op = "Reshape" => IsSequence(s.with.shape)
  BY DEF Callable
<1>. QED
  BY <1>1, <1>3, <1>4, <1>5 DEF Legal, Arity

-----------------------------------------------------------------------------
(* Outline and Run are defined by functions that follow the statements:    *)
(* the function exists, whichever of the two is meant.                     *)

Operands(s, f) == [i \in DOMAIN s.args |-> f[s.args[i]]]

First(what, leaf) ==
  IF what = "outline" THEN [shape |-> leaf.value.shape, device |-> leaf.device] ELSE leaf.value

Then(what, s, x) ==
  IF what = "outline" THEN [shape |-> ResultShape(s, x), device |-> x[1].device]
  ELSE [shape |-> Compute(s, Strict(x)).out.shape, data |-> Strict(Compute(s, Strict(x)).out.data)]

Follows(f, what, ls, st, m) ==
  f = [n \in 1 .. m |-> IF n <= Len(ls) THEN First(what, ls[n])
                        ELSE Then(what, st[n - Len(ls)], Operands(st[n - Len(ls)], f))]

LEMMA OperandsAgree ==
  ASSUME NEW s, NEW known, Callable(s, known), NEW f, NEW g, \A n \in 1 .. known : f[n] = g[n]
  PROVE  Operands(s, f) = Operands(s, g)
<1>1. \A i \in DOMAIN s.args : s.args[i] \in 1 .. known
  BY DEF Callable, IsSequence
<1>2. \A i \in DOMAIN s.args : f[s.args[i]] = g[s.args[i]]
  BY <1>1
<1>. QED
  BY <1>2 DEF Operands

LEMMA FollowsExtends ==
  ASSUME NEW ls, NEW st, WellFormed(Len(ls), st), NEW m \in Nat, m < Len(ls) + Len(st),
         NEW what, NEW f, Follows(f, what, ls, st, m)
  PROVE  \E g : Follows(g, what, ls, st, m + 1)
<1>1. PICK L \in Nat, K \in Nat : L = Len(ls) /\ K = Len(st)
  BY DEF WellFormed, IsSequence
<1>. DEFINE NodeOf(n, h) == IF n <= L THEN First(what, ls[n])
                        ELSE Then(what, st[n - L], Operands(st[n - L], h))
<1>2. f = [n \in 1 .. m |-> NodeOf(n, f)]
  BY <1>1 DEF Follows
<1>3. ASSUME NEW n \in 1 .. m + 1, NEW g, \A i \in 1 .. m : g[i] = f[i]
      PROVE  NodeOf(n, g) = NodeOf(n, f)
  <2>1. CASE n > L
    <3>1. n - L \in 1 .. K /\ L + (n - L) - 1 = n - 1 /\ n - 1 \in Nat /\ n - 1 <= m
      BY <1>1, <2>1
    <3>2. Callable(st[n - L], n - 1)
      BY <1>1, <3>1 DEF WellFormed
    <3>3. \A i \in 1 .. n - 1 : g[i] = f[i]
      BY <1>3, <3>1
    <3>4. Operands(st[n - L], g) = Operands(st[n - L], f)
      BY <3>2, <3>3, OperandsAgree
    <3>. QED  BY <3>4
  <2>2. CASE ~(n > L)
    BY <1>1, <2>2
  <2>. QED  BY <2>1, <2>2
<1>. HIDE DEF NodeOf
<1>4. PICK g : g = [n \in 1 .. m + 1 |-> IF n = m + 1 THEN NodeOf(n, f) ELSE f[n]]
  OBVIOUS
<1>5. \A n \in 1 .. m : g[n] = f[n] /\ f[n] = NodeOf(n, f)
  <2>. SUFFICES ASSUME NEW n \in 1 .. m PROVE g[n] = f[n] /\ f[n] = NodeOf(n, f)
    OBVIOUS
  <2>1. n \in 1 .. m + 1 /\ n # m + 1
    OBVIOUS
  <2>2. g[n] = f[n]
    BY <1>4, <2>1
  <2>3. f[n] = NodeOf(n, f)
    BY <1>2
  <2>. QED  BY <2>2, <2>3
<1>6. \A n \in 1 .. m + 1 : g[n] = NodeOf(n, f)
  <2>. SUFFICES ASSUME NEW n \in 1 .. m + 1 PROVE g[n] = NodeOf(n, f)
    OBVIOUS
  <2>1. CASE n = m + 1
    <3>1. g[n] = NodeOf(n, f)
      BY <1>4, <2>1
    <3>. QED  BY <3>1
  <2>2. CASE n # m + 1
    <3>1. n \in 1 .. m
      BY <2>2
    <3>. QED  BY <1>5, <3>1
  <2>. QED  BY <2>1, <2>2
<1>7. \A n \in 1 .. m + 1 : NodeOf(n, g) = NodeOf(n, f)
  BY <1>3, <1>5
<1>8. g = [n \in 1 .. m + 1 |-> NodeOf(n, g)]
  BY <1>4, <1>6, <1>7
<1>. QED
  BY <1>1, <1>8 DEF NodeOf, Follows

LEMMA FollowsExists ==
  ASSUME NEW ls, NEW st, WellFormed(Len(ls), st), NEW what
  PROVE  \E f : Follows(f, what, ls, st, Len(ls) + Len(st))
<1>1. PICK N \in Nat : N = Len(ls) + Len(st)
  BY DEF WellFormed, IsSequence
<1> DEFINE T == {m \in Nat : m <= N /\ ~ \E f : Follows(f, what, ls, st, m)}
<1>2. SUFFICES ASSUME T # {} PROVE FALSE
  BY <1>1
<1>3. PICK m \in T : \A j \in T : ~ (j < m)
  <2>1. T \in SUBSET Nat
    OBVIOUS
  <2>. HIDE DEF T
  <2>. QED
    BY <1>2, <2>1, LeastExists
<1>4. m # 0
  <2>1. Follows([n \in 1 .. 0 |-> 0], what, ls, st, 0)
    BY DEF Follows
  <2>. QED  BY <1>3, <2>1
<1>5. m - 1 \in Nat /\ m - 1 < m /\ (m - 1) + 1 = m /\ m - 1 <= N /\ m - 1 < N
  BY <1>3, <1>4
<1>6. PICK f : Follows(f, what, ls, st, m - 1)
  BY <1>3, <1>5
<1>7. \E g : Follows(g, what, ls, st, (m - 1) + 1)
  BY <1>1, <1>5, <1>6, FollowsExtends
<1>. QED
  BY <1>3, <1>5, <1>7

Outlining(f, p, m) ==
  f = [n \in 1 .. m |->
        IF n <= Len(p.leaves) THEN [shape |-> p.leaves[n].value.shape, device |-> p.leaves[n].device]
        ELSE LET s == p.statements[n - Len(p.leaves)]
                 x == [i \in DOMAIN s.args |-> f[s.args[i]]]
             IN [shape |-> ResultShape(s, x), device |-> x[1].device]]

LEMMA OutlineFact ==
  ASSUME NEW p, WellFormed(Len(p.leaves), p.statements)
  PROVE  Follows(Outline(p), "outline", p.leaves, p.statements, Len(p.leaves) + Len(p.statements))
<1>1. PICK m : m = Len(p.leaves) + Len(p.statements)
  OBVIOUS
<1> DEFINE f == CHOOSE g : Outlining(g, p, m)
<1>2. \A g : Outlining(g, p, m) <=> Follows(g, "outline", p.leaves, p.statements, m)
  BY DEF Outlining, Follows, First, Then, Operands
<1>3. Outlining(f, p, m)
  BY <1>1, <1>2, FollowsExists
<1>4. Outline(p) = f
  BY <1>1 DEF Outline, Outlining
<1>. HIDE DEF f
<1>. QED
  BY <1>1, <1>2, <1>3, <1>4

LEMMA StrictOperands ==
  ASSUME NEW s, NEW f
  PROVE  Strict([i \in DOMAIN s.args |-> f[s.args[i]]]) = Operands(s, f)
  BY DEF Strict, Operands

Running(f, ls, st, m) ==
  f = [n \in 1 .. m |-> IF n <= Len(ls) THEN ls[n].value ELSE ResultOf(st[n - Len(ls)], f)]

LEMMA RunFact ==
  ASSUME NEW ls, NEW st, WellFormed(Len(ls), st)
  PROVE  \E f : /\ Follows(f, "run", ls, st, Len(ls) + Len(st))
                /\ Run(ls, st) = f[Len(ls) + Len(st)]
<1>1. PICK m : m = Len(ls) + Len(st)
  OBVIOUS
<1> DEFINE f == CHOOSE g : Running(g, ls, st, m)
<1>2. \A g : Running(g, ls, st, m) <=> Follows(g, "run", ls, st, m)
  <2>1. ASSUME NEW s, NEW g PROVE ResultOf(s, g) = Then("run", s, Operands(s, g))
    <3>1. PICK x : x = Operands(s, g)
      OBVIOUS
    <3>2. Strict(x) = x
      BY <3>1 DEF Strict, Operands
    <3>3. Strict([i \in DOMAIN s.args |-> g[s.args[i]]]) = x
      BY <3>1, StrictOperands
    <3>. QED  BY <3>1, <3>2, <3>3 DEF ResultOf, Then
  <2>2. \A leaf : First("run", leaf) = leaf.value
    BY DEF First
  <2>. QED  BY <2>1, <2>2 DEF Running, Follows
<1>3. Running(f, ls, st, m)
  BY <1>1, <1>2, FollowsExists
<1>4. Run(ls, st) = f[m]
  BY <1>1 DEF Run, Running
<1>. HIDE DEF f
<1>. QED
  BY <1>1, <1>2, <1>3, <1>4

-----------------------------------------------------------------------------
(* The shapes of a run, of whatever elements, are those of the outline.    *)

ProgramOK(ls, st) ==
  /\ IsSequence(ls) /\ WellFormed(Len(ls), st)
  /\ \A n \in 1 .. Len(ls) : IsSequence(ls[n].value.shape)

LEMMA ProgramFact ==
  ASSUME NEW p \in DOMAIN Programs
  PROVE  ProgramOK(Programs[p].leaves, Programs[p].statements)
<1>1. PICK ls, st, L : ls = Programs[p].leaves /\ st = Programs[p].statements /\ L = Len(ls)
  OBVIOUS
<1>2. /\ IsSequence(ls) /\ IsSequence(st) /\ \A n \in 1 .. L : IsSequence(ls[n].value.shape)
      /\ \A k \in 1 .. Len(st) : Callable(st[k], L + k - 1)
  BY <1>1, ProgramsAssumption DEF Callable
<1>3. L \in Nat
  BY <1>1, <1>2 DEF IsSequence
<1>. QED
  BY <1>1, <1>2, <1>3 DEF ProgramOK, WellFormed

(* The shapes and devices f of the nodes up to n are those of outline o.   *)
ShapedLike(f, o, n) == \A m \in 1 .. n : f[m].shape = o[m].shape /\ IsSequence(o[m].shape)

LEMMA OperandsAlike ==
  ASSUME NEW s, NEW known, Callable(s, known), NEW f, NEW o, ShapedLike(f, o, known)
  PROVE  /\ AlikeOperands(Operands(s, f), Operands(s, o)) /\ Arity(s, Operands(s, f))
         /\ Accepts(s, Operands(s, f)) <=> Accepts(s, Operands(s, o))
         /\ Accepts(s, Operands(s, f)) => Legal(s, Operands(s, f))
         /\ ResultShape(s, Operands(s, f)) = ResultShape(s, Operands(s, o))
<1>1. PICK x, y : x = Operands(s, f) /\ y = Operands(s, o)
  OBVIOUS
<1>2. /\ x = [i \in DOMAIN s.args |-> x[i]] /\ y = [i \in DOMAIN s.args |-> y[i]]
      /\ \A i \in DOMAIN s.args : x[i] = f[s.args[i]] /\ y[i] = o[s.args[i]]
  BY <1>1 DEF Operands
<1>3. DOMAIN s.args = 1 .. Len(s.args) /\ \A i \in 1 .. Len(s.args) : s.args[i] \in 1 .. known
  BY DEF Callable, IsSequence
<1>4. \A i \in 1 .. Len(s.args) :
        x[i].shape = y[i].shape /\ IsSequence(x[i].shape) /\ IsSequence(y[i].shape)
  BY <1>2, <1>3 DEF ShapedLike
<1>5. IsSequence(x) /\ Len(x) = Len(s.args) /\ Arity(s, x) /\ (Accepts(s, x) => Legal(s, x))
  BY <1>2, <1>4, CallIsLegal
<1>6. IsSequence(y) /\ Len(y) = Len(s.args)
  BY <1>2, <1>4, CallIsLegal
<1>7. AlikeOperands(x, y)
  BY <1>4, <1>5, <1>6 DEF AlikeOperands
<1>8. Accepts(s, x) <=> Accepts(s, y)
  BY <1>5, <1>7, AcceptsOfShapes
<1>9. ResultShape(s, x) = ResultShape(s, y)
  BY <1>5, <1>7, ResultShapeOfShapes
<1>. QED
  BY <1>1, <1>5, <1>7, <1>8, <1>9

(* An accepted call gives the shape of the outline.                        *)
LEMMA CallAlike ==
  ASSUME NEW s, NEW known, Callable(s, known), NEW f, NEW o, ShapedLike(f, o, known),
         Accepts(s, Operands(s, o))
  PROVE  /\ Compute(s, Operands(s, f)).out.shape = ResultShape(s, Operands(s, o))
         /\ IsSequence(ResultShape(s, Operands(s, o)))
<1>1. PICK x : x = Operands(s, f)
  OBVIOUS
<1>2. Legal(s, x) /\ Accepts(s, x) /\ ResultShape(s, x) = ResultShape(s, Operands(s, o))
  BY <1>1, OperandsAlike
<1>3. s.op \in Unary \cup Binary \cup Ternary \cup {"Concat"} /\ s.op # "Refuse"
  BY <1>2 DEF Legal, Accepts
<1>4. Compute(s, x).out.shape = ResultShape(s, x)
  BY <1>3, ResultShapeFact
<1>5. IsSequence(Compute(s, x).out.shape)
  BY <1>2, OutIsSequence
<1>. QED
  BY <1>1, <1>2, <1>4, <1>5

LEMMA NodeFact ==
  ASSUME NEW ls, NEW st, ProgramOK(ls, st), NEW what, NEW f,
         Follows(f, what, ls, st, Len(ls) + Len(st)), NEW n \in 1 .. Len(ls) + Len(st)
  PROVE  /\ n <= Len(ls) => f[n] = First(what, ls[n])
         /\ n > Len(ls) => /\ f[n] = Then(what, st[n - Len(ls)], Operands(st[n - Len(ls)], f))
                           /\ n - Len(ls) \in 1 .. Len(st) /\ Callable(st[n - Len(ls)], n - 1)
<1>1. PICK L \in Nat, K \in Nat : L = Len(ls) /\ K = Len(st)
  BY DEF ProgramOK, WellFormed, IsSequence
<1>2. f[n] = IF n <= L THEN First(what, ls[n])
             ELSE Then(what, st[n - L], Operands(st[n - L], f))
  BY <1>1 DEF Follows
<1>3. n \in Nat /\ (n > L => n - L \in 1 .. K /\ L + (n - L) - 1 = n - 1)
  BY <1>1
<1>4. n > L => Callable(st[n - L], n - 1)
  BY <1>1, <1>3 DEF ProgramOK, WellFormed
<1>. QED
  BY <1>1, <1>2, <1>3, <1>4

AllAccepted(st, o) == \A k \in 1 .. Len(st) : Accepts(st[k], Operands(st[k], o))

(* o is the outline of N nodes, whose statements all pass.                 *)
Legally(ls, st, N, o) ==
  /\ ProgramOK(ls, st) /\ N = Len(ls) + Len(st) /\ N > 0
  /\ Follows(o, "outline", ls, st, N) /\ AllAccepted(st, o)

LEMMA RunAlike ==
  ASSUME NEW ls, NEW st, NEW N, NEW o, Legally(ls, st, N, o)
  PROVE  Run(ls, st).shape = o[N].shape
<1>0. /\ ProgramOK(ls, st) /\ N = Len(ls) + Len(st) /\ N > 0
      /\ Follows(o, "outline", ls, st, N) /\ AllAccepted(st, o)
  BY DEF Legally
<1>1. PICK L \in Nat, K \in Nat : L = Len(ls) /\ K = Len(st)
  BY <1>0 DEF ProgramOK, WellFormed, IsSequence
<1>2. N \in Nat /\ N \in 1 .. N
  BY <1>0, <1>1
<1>3. PICK f : Follows(f, "run", ls, st, N) /\ Run(ls, st) = f[N]
  BY <1>0, RunFact DEF ProgramOK
<1>. DEFINE T == {n \in 1 .. N : ~(f[n].shape = o[n].shape /\ IsSequence(o[n].shape))}
<1>4. T = {}
  <2>1. SUFFICES ASSUME T # {} PROVE FALSE
    OBVIOUS
  <2>2. PICK n \in T : \A m \in T : ~ (m < n)
    <3>1. T \in SUBSET Nat
      BY <1>2
    <3>. HIDE DEF T
    <3>. QED  BY <2>1, <3>1, LeastExists
  <2>3. n \in 1 .. N
    BY <2>2
  <2>4. CASE n <= L
    <3>1. f[n] = First("run", ls[n]) /\ o[n] = First("outline", ls[n])
      BY <1>0, <1>1, <1>3, <2>3, <2>4, NodeFact
    <3>2. f[n] = ls[n].value /\ o[n].shape = ls[n].value.shape
      BY <3>1 DEF First
    <3>3. IsSequence(ls[n].value.shape)
      BY <1>0, <1>1, <2>3, <2>4 DEF ProgramOK
    <3>. QED  BY <2>2, <3>2, <3>3
  <2>5. CASE n > L
    <3>1. PICK s : s = st[n - L]
      OBVIOUS
    <3>2. /\ f[n] = Then("run", s, Operands(s, f)) /\ o[n] = Then("outline", s, Operands(s, o))
          /\ n - L \in 1 .. K /\ Callable(s, n - 1)
      BY <1>0, <1>1, <1>3, <2>3, <2>5, <3>1, NodeFact
    <3>3. ShapedLike(f, o, n - 1)
      <4>1. \A m \in 1 .. n - 1 : m \in 1 .. N /\ m < n
        BY <1>2, <2>3
      <4>. QED  BY <2>2, <4>1 DEF ShapedLike
    <3>4. Accepts(s, Operands(s, o))
      BY <1>0, <1>1, <3>1, <3>2 DEF AllAccepted
    <3>5. Strict(Operands(s, f)) = Operands(s, f)
      BY DEF Strict
    <3>6. f[n].shape = Compute(s, Operands(s, f)).out.shape
      BY <3>2, <3>5 DEF Then
    <3>7. o[n].shape = ResultShape(s, Operands(s, o))
      BY <3>2 DEF Then
    <3>. QED  BY <2>2, <3>2, <3>3, <3>4, <3>6, <3>7, CallAlike
  <2>. QED  BY <1>1, <2>3, <2>4, <2>5
<1>. QED
  BY <1>2, <1>3, <1>4

-----------------------------------------------------------------------------
(* The nodes follow the outline, as far as the program has come.           *)

Passes(p) == \A k \in 1 .. Len(p.statements) : PassesAt(p, k)

Outlined(nds, o) ==
  \A n \in 1 .. Len(nds) :
    nds[n].shape = o[n].shape /\ nds[n].device = o[n].device /\ IsSequence(o[n].shape)

OutlineOK(p) ==
  /\ program = Completed(p)
  /\ Outlined(nodes, Outline(p))
  /\ \A k \in 1 .. Len(nodes) - Len(p.leaves) : PassesAt(p, k)
  /\ pc = "rejected" => ~Passes(p)

OutlineInv == \E p \in DOMAIN Programs : OutlineOK(Programs[p])

LEMMA CompletedFact ==
  ASSUME NEW p, program = Completed(p)
  PROVE  /\ leaves = p.leaves /\ statements = p.statements /\ program.legal = p.legal
         /\ p.legal => program.upstream.shape = Run(p.leaves, p.statements).shape
  BY DEF Completed, leaves, statements, Upstream

LEMMA InitOutline == Init => OutlineInv
<1>. SUFFICES ASSUME Init PROVE OutlineInv
  OBVIOUS
<1>1. PICK q \in DOMAIN Programs : program = Completed(Programs[q])
  BY DEF Init
<1>2. PICK p, ls, st, L, o : /\ p = Programs[q] /\ ls = p.leaves /\ st = p.statements /\ L = Len(ls)
                             /\ o = Outline(p)
  OBVIOUS
<1>3. leaves = ls /\ program = Completed(p) /\ ProgramOK(ls, st)
  BY <1>1, <1>2, CompletedFact, ProgramFact
<1>4. L \in Nat /\ DOMAIN ls = 1 .. L /\ Len(st) \in Nat
  BY <1>2, <1>3 DEF ProgramOK, WellFormed, IsSequence
<1>5. nodes = [n \in 1 .. L |-> Leaf(ls[n].value.shape, n, ls[n].device, ls[n].requires_grad)]
  BY <1>3, <1>4 DEF Init
<1>6. Len(nodes) = L
  <2>1. PICK nds : nds = nodes
    OBVIOUS
  <2>2. nds = [n \in 1 .. L |-> nds[n]]
    BY <1>5, <2>1
  <2>. QED  BY <1>4, <2>1, <2>2, FunctionIsSequence
<1>7. Follows(o, "outline", ls, st, Len(ls) + Len(st))
  BY <1>2, <1>3, OutlineFact DEF ProgramOK
<1>8. ASSUME NEW n \in 1 .. L
      PROVE  nodes[n].shape = o[n].shape /\ nodes[n].device = o[n].device /\ IsSequence(o[n].shape)
  <2>1. n \in 1 .. Len(ls) + Len(st) /\ n <= Len(ls)
    <3>1. PICK K \in Nat : K = Len(st)
      BY <1>4
    <3>2. n \in 1 .. L + K /\ n <= L
      BY <1>4, <3>1
    <3>. QED  BY <1>2, <3>1, <3>2
  <2>2. o[n] = First("outline", ls[n])
    BY <1>3, <1>7, <2>1, NodeFact
  <2>3. o[n].shape = ls[n].value.shape /\ o[n].device = ls[n].device
    BY <2>2 DEF First
  <2>4. nodes[n].shape = ls[n].value.shape /\ nodes[n].device = ls[n].device
    BY <1>5 DEF Leaf
  <2>. QED  BY <1>2, <1>3, <2>3, <2>4 DEF ProgramOK
<1>9. pc = "forward" /\ 1 .. L - L = {}
  BY <1>4 DEF Init
<1>10. OutlineOK(p)
  BY <1>2, <1>3, <1>6, <1>8, <1>9 DEF OutlineOK, Outlined
<1>. QED
  BY <1>2, <1>10 DEF OutlineInv

Devices(s, f) == [i \in DOMAIN s.args |-> f[s.args[i]].device]
Contents(s, nds) == [i \in DOMAIN s.args |-> Value(nds[s.args[i]])]

LEMMA PassesFact ==
  ASSUME NEW p, NEW k, NEW s, s = p.statements[k], NEW o, o = Outline(p)
  PROVE  PassesAt(p, k) <=> DevicesOK(s, Devices(s, o)) /\ Accepts(s, Operands(s, o))
<1>1. PICK x : x = [i \in DOMAIN s.args |-> o[s.args[i]]]
  OBVIOUS
<1>2. [i \in DOMAIN s.args |-> x[i].device] = Devices(s, o)
  BY <1>1 DEF Devices
<1>3. x = Operands(s, o)
  BY <1>1 DEF Operands
<1>4. PassesAt(p, k) <=> DevicesOK(s, [i \in DOMAIN s.args |-> x[i].device]) /\ Accepts(s, x)
  BY <1>1 DEF PassesAt
<1>. QED
  BY <1>2, <1>3, <1>4

LEMMA MadeOnDevice ==
  ASSUME NEW s, NEW out, NEW kept, NEW buffer, NEW free
  PROVE  MakeResult(s, out, kept, buffer, free).device = nodes[s.args[1]].device
<1>1. PICK plain, traced, saved :
        /\ plain = Leaf(out.shape, buffer, nodes[s.args[1]].device, traced)
        /\ traced = (s.op # "LessEqual" /\ \E i \in DOMAIN s.args : nodes[s.args[i]].requires_grad)
        /\ saved = IF Borrows(s)
                   THEN [i \in DOMAIN s.args |->
                           [shape |-> nodes[s.args[i]].shape, buffer |-> nodes[s.args[i]].buffer]]
                   ELSE Handles(kept, free)
  OBVIOUS
<1>2. PICK node : node = MakeResult(s, out, kept, buffer, free)
  OBVIOUS
<1>3. node = IF traced
             THEN [plain EXCEPT !.op = s.op, !.args = s.args, !.with = s.with, !.saved = saved]
             ELSE plain
  BY <1>1, <1>2 DEF MakeResult
<1>4. plain.device = nodes[s.args[1]].device /\ node.device = plain.device
  BY <1>1, <1>3 DEF Leaf
<1>. QED
  BY <1>2, <1>4

(* The next statement, on nodes that follow the outline: it passes or not  *)
(* as in the outline, and gives the node of the outline.                   *)
LEMMA NextAlike ==
  ASSUME NEW s, NEW nds, NEW o, Callable(s, Len(nds)), Outlined(nds, o),
         NEW x, x = Contents(s, nds)
  PROVE  /\ Devices(s, nds) = Devices(s, o)
         /\ Accepts(s, x) <=> Accepts(s, Operands(s, o))
         /\ Accepts(s, x) => /\ Compute(s, x).out.shape = ResultShape(s, Operands(s, o))
                             /\ IsSequence(ResultShape(s, Operands(s, o)))
         /\ nds[s.args[1]].device = Operands(s, o)[1].device
<1>1. \A i \in DOMAIN s.args : s.args[i] \in 1 .. Len(nds)
  BY DEF Callable, IsSequence
<1>2. 1 \in DOMAIN s.args
  BY FirstOperand DEF Callable, IsSequence
<1>3. PICK v : v = [m \in 1 .. Len(nds) |-> Value(nds[m])]
  OBVIOUS
<1>4. ShapedLike(v, o, Len(nds))
  BY <1>3 DEF ShapedLike, Outlined, Value
<1>5. x = Operands(s, v)
  BY <1>1, <1>3 DEF Operands, Contents
<1>6. \A i \in DOMAIN s.args : nds[s.args[i]].device = o[s.args[i]].device
  BY <1>1 DEF Outlined
<1>7. Devices(s, nds) = Devices(s, o)
  BY <1>6 DEF Devices
<1>8. Accepts(s, x) <=> Accepts(s, Operands(s, o))
  BY <1>4, <1>5, OperandsAlike
<1>9. Accepts(s, x) => /\ Compute(s, x).out.shape = ResultShape(s, Operands(s, o))
                       /\ IsSequence(ResultShape(s, Operands(s, o)))
  BY <1>4, <1>5, <1>8, CallAlike
<1>10. nds[s.args[1]].device = Operands(s, o)[1].device
  BY <1>2, <1>6 DEF Operands
<1>. QED
  BY <1>7, <1>8, <1>9, <1>10

LEMMA ApplyOutline ==
  ASSUME GraphInv, Apply, NEW p, ProgramOK(p.leaves, p.statements), OutlineOK(p)
  PROVE  OutlineOK(p)'
<1>1. PICK nds, L, st, n, o : /\ nds = nodes /\ L = Len(p.leaves) /\ st = p.statements
                              /\ n = Len(nodes) + 1 /\ o = Outline(p)
  OBVIOUS
<1>2. /\ leaves = p.leaves /\ statements = st /\ L = Len(leaves)
      /\ program = Completed(p) /\ program' = program
  BY <1>1, CompletedFact DEF OutlineOK, Apply
<1>3. PICK K \in Nat, m \in Nat : K = Len(st) /\ m = Len(nds)
  BY <1>1, <1>2 DEF GraphInv, GraphOK, WellFormed, IsSequence
<1>4. L \in Nat /\ n = m + 1 /\ m >= L /\ n - L \in 1 .. K /\ L + (n - L) - 1 = m
  <2>1. L \in Nat /\ n = m + 1
    BY <1>1, <1>2, <1>3 DEF GraphInv, WellFormed
  <2>2. m >= L /\ m <= L + K
    BY <1>1, <1>2, <1>3 DEF GraphInv, GraphOK
  <2>3. m # L + K
    BY <1>1, <1>2, <1>3 DEF Apply, Applied
  <2>. QED  BY <1>3, <2>1, <2>2, <2>3
<1>5. PICK s, x, devices : s = st[n - L] /\ x = Contents(s, nds) /\ devices = Devices(s, nds)
  OBVIOUS
<1>6. s = Statement(Len(nodes) + 1)
  BY <1>1, <1>2, <1>5 DEF Statement
<1>7. Callable(s, Len(nds))
  <2>1. Callable(st[n - L], L + (n - L) - 1)
    BY <1>1, <1>3, <1>4 DEF ProgramOK, WellFormed
  <2>. QED  BY <1>3, <1>4, <1>5, <2>1
<1>8. Outlined(nds, o) /\ (\A k \in 1 .. m - L : PassesAt(p, k)) /\ pc = "forward"
  BY <1>1, <1>3 DEF OutlineOK, Apply
<1>9. /\ x = [i \in DOMAIN s.args |-> Value(nodes[s.args[i]])]
      /\ devices = [i \in DOMAIN s.args |-> nodes[s.args[i]].device]
  BY <1>1, <1>5 DEF Contents, Devices
<1>10. PassesAt(p, n - L) <=> DevicesOK(s, devices) /\ Accepts(s, x)
  <2>1. PassesAt(p, n - L) <=> DevicesOK(s, Devices(s, o)) /\ Accepts(s, Operands(s, o))
    BY <1>1, <1>5, PassesFact
  <2>2. devices = Devices(s, o) /\ (Accepts(s, x) <=> Accepts(s, Operands(s, o)))
    BY <1>5, <1>7, <1>8, NextAlike
  <2>. QED  BY <2>1, <2>2
<1>11. CASE DevicesOK(s, devices) /\ Accepts(s, x)
  <2>0. PICK buffer, free, node :
          /\ pc' = "forward" /\ nodes' = Append(nds, node)
          /\ node = MakeResult(s, Compute(s, x).out, Compute(s, x).saved, buffer, free)
    BY <1>1, <1>6, <1>8, <1>9, <1>11 DEF Apply, Checks
  <2>1. pc' = "forward" /\ nodes' = Append(nds, node)
    BY <2>0
  <2>2. node.shape = Compute(s, x).out.shape /\ node.device = nds[s.args[1]].device
    <3>1. MadeFrom(node, s, x, nodes, buffer, free)
      BY <2>0, MakeResultFact
    <3>2. node.device = nodes[s.args[1]].device
      BY <2>0, MadeOnDevice
    <3>. QED  BY <1>1, <3>1, <3>2 DEF MadeFrom
  <2>3. Appended(nodes', nds, node)
    BY <1>1, <2>1, AppendFact DEF GraphInv, GraphOK
  <2>4. o[n] = Then("outline", s, Operands(s, o))
    <3>1. PICK ls : ls = p.leaves
      OBVIOUS
    <3>2. ProgramOK(ls, st) /\ Follows(o, "outline", ls, st, Len(ls) + Len(st))
      BY <1>1, <3>1, OutlineFact DEF ProgramOK
    <3>3. n \in 1 .. L + K /\ n > L
      BY <1>3, <1>4
    <3>4. n \in 1 .. Len(ls) + Len(st) /\ n > Len(ls)
      BY <1>1, <1>3, <3>1, <3>3
    <3>5. o[n] = Then("outline", st[n - Len(ls)], Operands(st[n - Len(ls)], o))
      BY <3>2, <3>4, NodeFact
    <3>. QED  BY <1>1, <1>5, <3>1, <3>5
  <2>5. node.shape = o[n].shape /\ node.device = o[n].device /\ IsSequence(o[n].shape)
    <3>1. o[n].shape = ResultShape(s, Operands(s, o)) /\ o[n].device = Operands(s, o)[1].device
      BY <2>4 DEF Then
    <3>2. /\ Compute(s, x).out.shape = ResultShape(s, Operands(s, o))
          /\ IsSequence(ResultShape(s, Operands(s, o)))
          /\ nds[s.args[1]].device = Operands(s, o)[1].device
      BY <1>5, <1>7, <1>8, <1>11, NextAlike
    <3>. QED  BY <2>2, <3>1, <3>2
  <2>6. PICK r : r = nodes'
    OBVIOUS
  <2>7. /\ Len(r) = m + 1 /\ r[n] = node /\ (\A i \in 1 .. m : r[i] = nds[i])
        /\ \A i \in 1 .. m + 1 : i \in 1 .. m \/ i = n
    BY <1>3, <1>4, <2>3, <2>6 DEF Appended
  <2>8. Outlined(r, o)
    BY <1>3, <1>8, <2>5, <2>7 DEF Outlined
  <2>9. \A k \in 1 .. (m + 1) - L : PassesAt(p, k)
    <3>1. \A k \in 1 .. (m + 1) - L : k \in 1 .. m - L \/ k = n - L
      BY <1>3, <1>4
    <3>. QED  BY <1>8, <1>10, <1>11, <3>1
  <2>. QED
    BY <1>1, <1>2, <2>1, <2>6, <2>7, <2>8, <2>9 DEF OutlineOK
<1>12. CASE ~(DevicesOK(s, devices) /\ Accepts(s, x))
  <2>1. nodes' = nodes /\ pc' = "rejected"
    BY <1>1, <1>5, <1>6, <1>9, <1>12 DEF Apply, Checks
  <2>2. ~Passes(p)
    BY <1>1, <1>3, <1>4, <1>10, <1>12 DEF Passes
  <2>. QED
    BY <1>2, <2>1, <2>2 DEF OutlineOK
<1>. QED
  BY <1>11, <1>12

LEMMA AppliedPasses ==
  ASSUME GraphInv, Applied, NEW p, ProgramOK(p.leaves, p.statements), OutlineOK(p)
  PROVE  Passes(p)
<1>1. leaves = p.leaves /\ statements = p.statements
  BY CompletedFact DEF OutlineOK
<1>2. PICK L \in Nat, K \in Nat : L = Len(p.leaves) /\ K = Len(p.statements)
  BY DEF ProgramOK, WellFormed, IsSequence
<1>3. Len(nodes) = L + K
  BY <1>1, <1>2 DEF Applied
<1>4. (L + K) - L = K
  BY <1>2
<1>. QED
  BY <1>2, <1>3, <1>4 DEF OutlineOK, Passes

LEMMA LegalFact ==
  ASSUME LegalByShape, NEW q \in DOMAIN Programs
  PROVE  Len(Programs[q].leaves) > 0 /\ (Programs[q].legal <=> Passes(Programs[q]))
  BY DEF LegalByShape, Passes

(* A program that was carried out to its last result is legal, and the     *)
(* gradient it is given has the shape of that result.                      *)
LEMMA BeginOutline ==
  ASSUME GraphInv, Begin, LegalByShape, NEW q \in DOMAIN Programs, OutlineOK(Programs[q])
  PROVE  OutlineOK(Programs[q])'
<1>1. PICK p : p = Programs[q]
  OBVIOUS
<1>2. PICK ls, st, o, N : ls = p.leaves /\ st = p.statements /\ o = Outline(p) /\ N = Len(ls) + Len(st)
  OBVIOUS
<1>3. /\ ProgramOK(ls, st) /\ OutlineOK(p) /\ Passes(p) /\ p.legal /\ Len(ls) > 0
      /\ leaves = ls /\ statements = st
  <2>1. ProgramOK(ls, st) /\ OutlineOK(p) /\ Applied
    BY <1>1, <1>2, ProgramFact DEF Begin
  <2>2. Passes(p)
    BY <1>2, <2>1, AppliedPasses
  <2>. QED
    BY <1>1, <1>2, <2>1, <2>2, LegalFact, CompletedFact DEF OutlineOK
<1>4. program.upstream.shape = Run(ls, st).shape
  BY <1>2, <1>3, CompletedFact DEF OutlineOK
<1>5. AllAccepted(st, o)
  <2>1. \A k \in 1 .. Len(st) : PassesAt(p, k)
    BY <1>2, <1>3 DEF Passes
  <2>. QED  BY <1>2, <2>1, PassesFact DEF AllAccepted
<1>6. N > 0 /\ Follows(o, "outline", ls, st, N)
  <2>1. PICK L \in Nat, K \in Nat : L = Len(ls) /\ K = Len(st)
    BY <1>3 DEF ProgramOK, WellFormed, IsSequence
  <2>2. L + K > 0
    BY <1>3, <2>1
  <2>3. Follows(o, "outline", ls, st, Len(ls) + Len(st))
    BY <1>2, <1>3, OutlineFact DEF ProgramOK
  <2>. QED
    BY <1>2, <2>1, <2>2, <2>3
<1>7. Run(ls, st).shape = o[N].shape
  <2>1. Legally(ls, st, N, o)
    BY <1>2, <1>3, <1>5, <1>6 DEF Legally
  <2>. QED
    BY <2>1, RunAlike
<1>8. Len(nodes) = N /\ nodes[N].shape = o[N].shape
  <2>1. Len(nodes) = N
    BY <1>2, <1>3 DEF Begin, Applied
  <2>2. N \in 1 .. N
    BY <1>6, <2>1 DEF GraphInv, GraphOK, IsSequence
  <2>. QED
    BY <1>2, <1>3, <2>1, <2>2 DEF OutlineOK, Outlined
<1>9. pc' # "rejected" /\ UNCHANGED <<program, nodes>>
  BY <1>4, <1>7, <1>8 DEF Begin
<1>10. OutlineOK(p)'
  BY <1>3, <1>9 DEF OutlineOK
<1>. QED
  BY <1>1, <1>10

LEMMA OutlineStep ==
  ASSUME GraphInv, OutlineInv, LegalByShape, [Next]_vars
  PROVE  OutlineInv'
<1>1. PICK q \in DOMAIN Programs : OutlineOK(Programs[q])
  BY DEF OutlineInv
<1>2. SUFFICES OutlineOK(Programs[q])'
  BY DEF OutlineInv
<1>3. CASE Apply
  BY <1>1, <1>3, ApplyOutline, ProgramFact
<1>4. CASE Begin
  BY <1>1, <1>4, BeginOutline
<1>5. CASE Propagate \/ Commit \/ Write \/ UNCHANGED vars
  <2>1. UNCHANGED <<program, nodes>> /\ (pc' = "rejected" => pc = "rejected")
    BY <1>5 DEF Propagate, Deliver, Commit, Write, vars
  <2>. QED
    BY <1>1, <2>1 DEF OutlineOK
<1>. QED
  BY <1>3, <1>4, <1>5 DEF Next, Stop

(* Shapes and devices decide what is refused, and the elements never do:   *)
(* where the programs called legal are those whose outline passes the      *)
(* checks, a program is refused, in the forward pass or by the gradient it *)
(* is given, when it is illegal and only then.                             *)
THEOREM ShapesDecide == ASSUME LegalByShape PROVE Spec => []RejectsIllegal
<1>1. Init => OutlineInv
  BY InitOutline
<1>2. GraphInv /\ OutlineInv /\ [Next]_vars => OutlineInv'
  BY OutlineStep
<1>3. GraphInv /\ OutlineInv => RejectsIllegal
  <2>. SUFFICES ASSUME GraphInv, OutlineInv PROVE RejectsIllegal
    OBVIOUS
  <2>1. PICK q \in DOMAIN Programs : OutlineOK(Programs[q])
    BY DEF OutlineInv
  <2>2. PICK p : p = Programs[q]
    OBVIOUS
  <2>3. ProgramOK(p.leaves, p.statements) /\ OutlineOK(p) /\ (p.legal <=> Passes(p))
    BY <2>1, <2>2, ProgramFact, LegalFact
  <2>4. program.legal = p.legal
    BY <2>3, CompletedFact DEF OutlineOK
  <2>5. pc = "rejected" => ~Passes(p)
    BY <2>3 DEF OutlineOK
  <2>6. Applied => Passes(p)
    BY <2>3, AppliedPasses
  <2>. QED
    BY <2>3, <2>4, <2>5, <2>6 DEF RejectsIllegal
<1>. QED
  BY <1>1, <1>2, <1>3, GraphAlways, PTL DEF Spec
=============================================================================
