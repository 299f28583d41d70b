-------------------------- MODULE Operations_proofs --------------------------
(***************************************************************************)
(* Proofs about Operations: the gradients that backward_step returns have  *)
(* the shapes of the operands, for every operation and every operand that  *)
(* it accepts.                                                             *)
(***************************************************************************)
EXTENDS Operations, TLAPS, SequenceTheorems, WellFoundedInduction

-----------------------------------------------------------------------------
(* Sequences.                                                              *)

LEMMA SeqIsSequence ==
  ASSUME NEW X, NEW q \in Seq(X) PROVE IsSequence(q)
  BY DEF IsSequence

LEMMA FunctionIsSequence ==
  ASSUME NEW n \in Nat, NEW q, q = [i \in 1 .. n |-> q[i]]
  PROVE  IsSequence(q) /\ Len(q) = n
<1> DEFINE X == {q[i] : i \in 1 .. n}
<1>1. q \in [1 .. n -> X]
  OBVIOUS
<1>2. q \in Seq(X) /\ Len(q) = n
  <2>. HIDE DEF X
  <2>. QED
    BY <1>1
<1>. QED
  BY <1>2 DEF IsSequence

LEMMA SequenceIsSeq ==
  ASSUME NEW q, IsSequence(q)
  PROVE  \E X : q \in Seq(X)
<1> DEFINE X == {q[i] : i \in 1 .. Len(q)}
<1>1. q \in [1 .. Len(q) -> X] /\ Len(q) \in Nat
  BY DEF IsSequence
<1>2. q \in Seq(X)
  <2>. HIDE DEF X
  <2>. QED
    BY <1>1
<1>. QED
  BY <1>2

LEMMA SequencesEqual ==
  ASSUME NEW p, NEW q, IsSequence(p), IsSequence(q), Len(p) = Len(q),
         \A i \in 1 .. Len(p) : p[i] = q[i]
  PROVE  p = q
<1>1. [i \in 1 .. Len(p) |-> p[i]] = [i \in 1 .. Len(p) |-> q[i]]
  OBVIOUS
<1>. QED
  BY <1>1 DEF IsSequence

LEMMA ExceptIsSequence ==
  ASSUME NEW q, IsSequence(q), NEW a, NEW e
  PROVE  IsSequence([q EXCEPT ![a] = e]) /\ Len([q EXCEPT ![a] = e]) = Len(q)
<1>1. PICK n \in Nat : n = Len(q) /\ q = [i \in 1 .. n |-> q[i]]
  BY DEF IsSequence
<1>2. PICK r : r = [q EXCEPT ![a] = e]
  OBVIOUS
<1>3. r = [i \in 1 .. n |-> r[i]]
  BY <1>1, <1>2
<1>. QED
  BY <1>1, <1>2, <1>3, FunctionIsSequence

LEMMA TupleIsSequence ==
  /\ IsSequence(<<>>)
  /\ \A a : IsSequence(<<a>>)
  /\ \A a, b, c : IsSequence(<<a, b, c>>)
  /\ \A a, b, c, d : IsSequence(<<a, b, c, d>>)
<1>1. /\ <<>> \in Seq({})
      /\ \A a : <<a>> \in Seq({a})
      /\ \A a, b, c : <<a, b, c>> \in Seq({a, b, c})
      /\ \A a, b, c, d : <<a, b, c, d>> \in Seq({a, b, c, d})
  OBVIOUS
<1>. QED
  BY <1>1, SeqIsSequence

LEMMA CellFact ==
  ASSUME NEW i, IsSequence(i), Len(i) >= 2, NEW row, NEW col, NEW c, c = Cell(i, row, col)
  PROVE  /\ IsSequence(c) /\ Len(c) = Len(i)
         /\ \A d \in 1 .. Len(i) - 2 : c[d] = i[d]
         /\ c[Len(i) - 1] = row /\ c[Len(i)] = col
<1>1. PICK X : i \in Seq(X)
  BY SequenceIsSeq
<1>2. PICK Y : Y = X \cup {row, col}
  OBVIOUS
<1>3. PICK n : n = Len(i) - 2
  OBVIOUS
<1>4. n \in Nat /\ Len(i) = n + 2 /\ n <= Len(i)
  BY <1>3 DEF IsSequence
<1>5. i \in Seq(Y)
  BY <1>1, <1>2
<1>6. PICK s : s = SubSeq(i, 1, n)
  OBVIOUS
<1>7. s \in Seq(Y) /\ Len(s) = n /\ \A d \in 1 .. n : s[d] = i[d]
  BY <1>4, <1>5, <1>6
<1>8. PICK t : t = <<row, col>>
  OBVIOUS
<1>9. t \in Seq(Y) /\ Len(t) = 2 /\ t[1] = row /\ t[2] = col
  BY <1>2, <1>8
<1>10. c = s \o t
  BY <1>3, <1>6, <1>8 DEF Cell
<1>11. /\ c \in Seq(Y) /\ Len(c) = n + 2
       /\ \A d \in 1 .. n + 2 : c[d] = IF d <= n THEN s[d] ELSE t[d - n]
  <2>1. /\ s \o t \in Seq(Y) /\ Len(s \o t) = Len(s) + Len(t)
        /\ \A d \in 1 .. Len(s) + Len(t) :
             (s \o t)[d] = IF d <= Len(s) THEN s[d] ELSE t[d - Len(s)]
    BY <1>7, <1>9, ConcatProperties, Zenon
  <2>. QED
    BY <1>4, <1>7, <1>9, <1>10, <2>1
<1>12. c[n + 1] = row /\ c[n + 2] = col
  <2>1. n + 1 \in 1 .. n + 2 /\ n + 2 \in 1 .. n + 2 /\ ~(n + 1 <= n) /\ ~(n + 2 <= n)
    BY <1>4
  <2>2. n + 1 - n = 1 /\ n + 2 - n = 2
    BY <1>4
  <2>3. c[n + 1] = t[n + 1 - n] /\ c[n + 2] = t[n + 2 - n]
    BY <1>4, <1>11, SMT
  <2>. QED
    BY <1>9, <2>2, <2>3, Zenon
<1>13. \A d \in 1 .. n : c[d] = i[d]
  BY <1>4, <1>7, <1>11
<1>. QED
  BY <1>3, <1>4, <1>11, <1>12, <1>13, SeqIsSequence

LEMMA SwappedFact ==
  ASSUME NEW q, IsSequence(q), NEW a \in 1 .. Len(q), NEW b \in 1 .. Len(q)
  PROVE  /\ IsSequence(Swapped(q, a, b)) /\ Len(Swapped(q, a, b)) = Len(q)
         /\ Swapped(Swapped(q, a, b), a, b) = q
<1>1. PICK n \in Nat : n = Len(q) /\ q = [i \in 1 .. n |-> q[i]]
  BY DEF IsSequence
<1>2. PICK r : r = Swapped(q, a, b)
  OBVIOUS
<1>3. r = [i \in 1 .. n |-> IF i = b THEN q[a] ELSE IF i = a THEN q[b] ELSE q[i]]
  BY <1>1, <1>2 DEF Swapped
<1>4. r = [i \in 1 .. n |-> r[i]]
  BY <1>3
<1>5. Swapped(r, a, b) = [i \in 1 .. n |-> IF i = b THEN r[a] ELSE IF i = a THEN r[b] ELSE r[i]]
  BY <1>1, <1>4 DEF Swapped
<1>6. Swapped(r, a, b) = [i \in 1 .. n |-> q[i]]
  <2>1. \A i \in 1 .. n :
          (IF i = b THEN r[a] ELSE IF i = a THEN r[b] ELSE r[i]) = q[i]
    <3>1. a \in 1 .. n /\ b \in 1 .. n
      BY <1>1
    <3>2. r[b] = q[a] /\ (a # b => r[a] = q[b]) /\ (a = b => r[a] = q[a])
      BY <1>3, <3>1
    <3>3. \A i \in 1 .. n : i # a /\ i # b => r[i] = q[i]
      BY <1>3
    <3>. QED
      BY <3>2, <3>3
  <2>. QED
    BY <1>5, <2>1
<1>. QED
  BY <1>1, <1>2, <1>4, <1>6, FunctionIsSequence

LEMMA AxisFact ==
  ASSUME NEW axis, NEW rank \in Nat, AxisOK(axis, rank)
  PROVE  Axis(axis, rank) \in 1 .. rank
  BY DEF AxisOK, Axis

-----------------------------------------------------------------------------
(* The coordinates that a sum leaves: the function that Reduced is defined *)
(* by exists, and all its values are sequences.                            *)

LEMMA LeastExists ==
  ASSUME NEW T \in SUBSET Nat, T # {}
  PROVE  \E n \in T : \A m \in T : ~ (m < n)
<1> DEFINE R == OpToRel(<, Nat)
<1>1. IsWellFoundedOn(R, Nat)
  BY NatLessThanWellFounded
<1>2. PICK n \in T : \A m \in T : ~ (<<m, n>> \in R)
  <2>. HIDE DEF R
  <2>. QED
    BY <1>1, WFMin
<1>. QED
  BY <1>2 DEF OpToRel

Reducing(f, s, axes, keep, at, n) ==
  f = [d \in 0 .. n |->
         IF d = 0 THEN <<>>
         ELSE IF d \notin axes THEN Append(f[d - 1], s[d])
         ELSE IF keep THEN Append(f[d - 1], at) ELSE f[d - 1]]

LEMMA ReducingExtends ==
  ASSUME NEW f, NEW s, NEW axes, NEW keep, NEW at, NEW n \in Nat,
         Reducing(f, s, axes, keep, at, n)
  PROVE  \E g : Reducing(g, s, axes, keep, at, n + 1)
<1> DEFINE last == IF n + 1 \notin axes THEN Append(f[n], s[n + 1])
                   ELSE IF keep THEN Append(f[n], at) ELSE f[n]
<1>1. PICK g : g = [d \in 0 .. n + 1 |-> IF d = n + 1 THEN last ELSE f[d]]
  OBVIOUS
<1>2. \A d \in 0 .. n : g[d] = f[d]
  BY <1>1
<1>3. ASSUME NEW d \in 0 .. n + 1
      PROVE  g[d] = IF d = 0 THEN <<>>
                    ELSE IF d \notin axes THEN Append(g[d - 1], s[d])
                    ELSE IF keep THEN Append(g[d - 1], at) ELSE g[d - 1]
  <2>1. CASE d = n + 1
    <3>1. d - 1 = n /\ n \in 0 .. n /\ d # 0
      BY <2>1
    <3>2. g[d - 1] = f[n] /\ g[d] = last
      BY <1>1, <1>2, <2>1, <3>1
    <3>. QED
      BY <2>1, <3>1, <3>2
  <2>2. CASE d = 0
    <3>1. d \in 0 .. n
      BY <2>2
    <3>2. g[d] = f[d] /\ f[d] = <<>>
      BY <1>2, <2>2, <3>1 DEF Reducing
    <3>. QED
      BY <2>2, <3>2
  <2>3. CASE d # n + 1 /\ d # 0
    <3>1. d \in 0 .. n /\ d - 1 \in 0 .. n
      BY <2>3
    <3>2. g[d] = f[d] /\ g[d - 1] = f[d - 1]
      BY <1>2, <3>1
    <3>. QED
      BY <2>3, <3>1, <3>2 DEF Reducing
  <2>. QED
    BY <2>1, <2>2, <2>3
<1>4. g = [d \in 0 .. n + 1 |-> g[d]]
  BY <1>1
<1>5. Reducing(g, s, axes, keep, at, n + 1)
  <2>. HIDE DEF last
  <2>. QED
    BY <1>3, <1>4 DEF Reducing
<1>. QED
  BY <1>5

LEMMA ReducingExists ==
  ASSUME NEW s, NEW axes, NEW keep, NEW at, NEW N \in Nat
  PROVE  \E f : Reducing(f, s, axes, keep, at, N)
<1> DEFINE T == {n \in Nat : ~ \E f : Reducing(f, s, axes, keep, at, n)}
<1>1. SUFFICES ASSUME T # {} PROVE FALSE
  OBVIOUS
<1>2. PICK n \in T : \A m \in T : ~ (m < n)
  <2>1. T \in SUBSET Nat
    OBVIOUS
  <2>. HIDE DEF T
  <2>. QED
    BY <1>1, <2>1, LeastExists
<1>3. n # 0
  <2>1. Reducing([k \in 0 .. 0 |-> <<>>], s, axes, keep, at, 0)
    BY DEF Reducing
  <2>. QED
    BY <1>2, <2>1
<1>4. n - 1 \in Nat /\ n - 1 < n /\ (n - 1) + 1 = n
  BY <1>2, <1>3
<1>5. PICK f : Reducing(f, s, axes, keep, at, n - 1)
  BY <1>2, <1>4
<1>6. \E g : Reducing(g, s, axes, keep, at, (n - 1) + 1)
  BY <1>4, <1>5, ReducingExtends
<1>. QED
  BY <1>2, <1>4, <1>6

LEMMA ReducingGivesSequences ==
  ASSUME NEW X, NEW s \in Seq(X), NEW axes, NEW keep, NEW at \in X,
         NEW f, Reducing(f, s, axes, keep, at, Len(s))
  PROVE  f[Len(s)] \in Seq(X)
<1> DEFINE T == {d \in 0 .. Len(s) : f[d] \notin Seq(X)}
<1>1. SUFFICES ASSUME T # {} PROVE FALSE
  OBVIOUS
<1>2. PICK d \in T : \A m \in T : ~ (m < d)
  <2>1. T \in SUBSET Nat
    OBVIOUS
  <2>. HIDE DEF T
  <2>. QED
    BY <1>1, <2>1, LeastExists
<1>3. d # 0
  BY <1>2 DEF Reducing
<1>4. d - 1 \in 0 .. Len(s) /\ d - 1 < d /\ d \in 1 .. Len(s)
  BY <1>2, <1>3
<1>5. f[d - 1] \in Seq(X)
  BY <1>2, <1>4
<1>6. /\ s[d] \in X /\ Append(f[d - 1], s[d]) \in Seq(X)
      /\ Append(f[d - 1], at) \in Seq(X)
  BY <1>4, <1>5
<1>7. f[d] = IF d \notin axes THEN Append(f[d - 1], s[d])
             ELSE IF keep THEN Append(f[d - 1], at) ELSE f[d - 1]
  BY <1>2, <1>3 DEF Reducing
<1>8. f[d] \in Seq(X)
  BY <1>5, <1>6, <1>7
<1>. QED
  BY <1>2, <1>8

LEMMA ReducedFact ==
  ASSUME NEW s, IsSequence(s), NEW axes, NEW keep, NEW at
  PROVE  IsSequence(Reduced(s, axes, keep, at))
<1>1. PICK X : s \in Seq(X)
  BY SequenceIsSeq
<1>2. PICK Y : Y = X \cup {at}
  OBVIOUS
<1>3. s \in Seq(Y) /\ at \in Y /\ Len(s) \in Nat
  BY <1>1, <1>2
<1> DEFINE f == CHOOSE g : Reducing(g, s, axes, keep, at, Len(s))
<1>4. Reducing(f, s, axes, keep, at, Len(s))
  BY <1>3, ReducingExists
<1>5. f[Len(s)] \in Seq(Y)
  <2>. HIDE DEF f
  <2>. QED
    BY <1>3, <1>4, ReducingGivesSequences
<1>6. Reduced(s, axes, keep, at) = f[Len(s)]
  BY DEF Reduced, Reducing
<1>. QED
  BY <1>5, <1>6, SeqIsSequence

-----------------------------------------------------------------------------
(* Operands that the signature and the checks of an operation admit.       *)
Legal(s, x) ==
  /\ IsSequence(x) /\ \A i \in 1 .. Len(x) : IsSequence(x[i].shape)
  /\ \/ s.op \in Unary /\ Len(x) = 1
     \/ s.op \in Binary /\ Len(x) = 2
     \/ s.op \in Ternary /\ Len(x) = 3
     \/ s.op = "Concat" /\ Len(x) > 0
  /\ s.op = "Reshape" => IsSequence(s.with.shape)
  /\ Accepts(s, x)

-----------------------------------------------------------------------------
(* The shape of the result.                                                *)

LEMMA ElementwiseShape ==
  ASSUME NEW s, NEW x,
         s.op \in {"ReLU", "Sigmoid", "Tanh", "Exp", "Log", "Sqrt", "SiLU", "Softplus", "Sin",
                   "Cos", "Clamp"}
  PROVE  Compute(s, x).out.shape = x[1].shape
  BY DEF Compute, Activation, ComputedPair, Member, KeepsResult, Computed, Relu, Sigmoid,
         TanhForward, ExpForward, Log, SqrtForward, Silu, Softplus, SinForward, CosForward,
         Clamp, Map

LEMMA ArithmeticShape ==
  ASSUME NEW s, NEW x, s.op \in {"Add", "Sub", "Mul", "Div", "LessEqual", "Where", "Scale"}
  PROVE  Compute(s, x).out.shape = x[1].shape
  BY DEF Compute, Arithmetic, Computed, Add, Sub, Mul, Div, LessEqual, Where, Scale,
         Map, Map2, Map3

LEMMA AxisShape ==
  ASSUME NEW s, NEW x, s.op \in {"Softmax", "LogSoftmax", "Cumsum", "Flip"}
  PROVE  Compute(s, x).out.shape = x[1].shape
  BY DEF Compute, Layout, Computed, KeepsResult, Softmax, LogSoftmax, Cumsum, Flip, Tensor

LEMMA TransformShape ==
  ASSUME NEW s, NEW x, s.op \in {"DftReal", "DftImag"}
  PROVE  Compute(s, x).out.shape = x[1].shape
  BY DEF Compute, Computed, Member, Transformed, DFT2, Tensor, Map

LEMMA GroupNormShape ==
  ASSUME NEW s, NEW x, s.op = "GroupNorm"
  PROVE  Compute(s, x).out.shape = x[1].shape
<1>1. Compute(s, x) = Normalised(s, x)
  BY DEF Compute
<1>2. PICK e : e = GroupNorm(x[1], x[2], x[3], s.with.groups, s.with.eps)
  OBVIOUS
<1>3. e.shape = x[1].shape
  BY <1>2 DEF GroupNorm, Tensor
<1>4. Normalised(s, x).out = Member(e, 1)
  BY <1>2 DEF Normalised, Computed
<1>5. Normalised(s, x).out.shape = e.shape
  BY <1>4 DEF Member, Map
<1>. QED
  BY <1>1, <1>3, <1>5

LEMMA SumShapes ==
  ASSUME NEW s, NEW x
  PROVE  /\ s.op = "Sum" => Compute(s, x).out.shape = <<>>
         /\ s.op = "SumAxes" =>
              Compute(s, x).out.shape =
                Reduced(x[1].shape, Axes(s.with.axes, Len(x[1].shape)), s.with.keep, 1)
         /\ s.op = "MatMul" =>
              Compute(s, x).out.shape =
                Cell(x[1].shape, x[1].shape[Len(x[1].shape) - 1], x[2].shape[Len(x[1].shape)])
         /\ s.op = "BroadcastAdd" =>
              Compute(s, x).out.shape = BroadcastShape(x[1].shape, x[2].shape)
<1>1. ASSUME s.op = "Sum" PROVE Compute(s, x).out.shape = <<>>
  BY <1>1 DEF Compute, Arithmetic, Computed, BroadcastScalar, Tensor
<1>2. ASSUME s.op = "SumAxes"
      PROVE  Compute(s, x).out.shape =
               Reduced(x[1].shape, Axes(s.with.axes, Len(x[1].shape)), s.with.keep, 1)
  BY <1>2 DEF Compute, Arithmetic, Computed, SumAxes, Tensor
<1>3. ASSUME s.op = "MatMul"
      PROVE  Compute(s, x).out.shape =
               Cell(x[1].shape, x[1].shape[Len(x[1].shape) - 1], x[2].shape[Len(x[1].shape)])
  BY <1>3 DEF Compute, Arithmetic, Computed, MatMul, Tensor
<1>4. ASSUME s.op = "BroadcastAdd"
      PROVE  Compute(s, x).out.shape = BroadcastShape(x[1].shape, x[2].shape)
  BY <1>4 DEF Compute, Arithmetic, Computed, BroadcastAdd, Tensor
<1>. QED
  BY <1>1, <1>2, <1>3, <1>4

LEMMA LayoutShapes ==
  ASSUME NEW s, NEW x
  PROVE  /\ s.op = "Transpose" =>
              Compute(s, x).out.shape =
                Swapped(x[1].shape, Axis(s.with.axis, Len(x[1].shape)),
                        Axis(s.with.axis1, Len(x[1].shape)))
         /\ s.op = "Reshape" => Compute(s, x).out.shape = s.with.shape
         /\ s.op = "Slice" => \E ax : Compute(s, x).out.shape = [x[1].shape EXCEPT ![ax] = s.with.len]
<1>1. PICK ax : ax = Axis(s.with.axis, Len(x[1].shape))
  OBVIOUS
<1>2. ASSUME s.op = "Transpose"
      PROVE  Compute(s, x).out.shape = Swapped(x[1].shape, ax, Axis(s.with.axis1, Len(x[1].shape)))
  BY <1>1, <1>2 DEF Compute, Layout, Computed, Transpose, Tensor
<1>3. ASSUME s.op = "Reshape" PROVE Compute(s, x).out.shape = s.with.shape
  BY <1>3 DEF Compute, Layout, Computed, Reshaped
<1>4. ASSUME s.op = "Slice" PROVE Compute(s, x).out.shape = [x[1].shape EXCEPT ![ax] = s.with.len]
  BY <1>1, <1>4 DEF Compute, Layout, Computed, Slice, Tensor
<1>. QED
  BY <1>1, <1>2, <1>3, <1>4

LEMMA ConcatOutShape ==
  ASSUME NEW s, NEW x, 1 \in DOMAIN x, IsSequence(x[1].shape)
  PROVE  s.op = "Concat" => IsSequence(Compute(s, x).out.shape)
<1>. SUFFICES ASSUME s.op = "Concat" PROVE IsSequence(Compute(s, x).out.shape)
  OBVIOUS
<1>1. PICK ax : ax = Axis(s.with.axis, Len(x[1].shape))
  OBVIOUS
<1>2. Compute(s, x).out = Concat(x, ax)
  BY <1>1 DEF Compute, Layout, Computed
<1>3. PICK shapes : shapes = [k \in DOMAIN x |-> x[k].shape]
  OBVIOUS
<1>4. Concat(x, ax).shape = ConcatShape(shapes, ax)
  BY <1>3 DEF Concat, Tensor
<1>5. PICK q, e : q = shapes[1] /\ e = Begins(shapes, ax, Len(shapes) + 1)
  OBVIOUS
<1>6. ConcatShape(shapes, ax) = [q EXCEPT ![ax] = e]
  BY <1>5 DEF ConcatShape
<1>7. IsSequence([q EXCEPT ![ax] = e])
  BY <1>3, <1>5, ExceptIsSequence
<1>. QED
  BY <1>2, <1>4, <1>6, <1>7

LEMMA WindowShapes ==
  ASSUME NEW s, NEW x
  PROVE  /\ s.op = "Conv2d" =>
              \E h, w : Compute(s, x).out.shape = <<x[1].shape[1], x[2].shape[1], h, w>>
         /\ s.op \in {"DepthwiseConv2d", "MaxPool2d", "AvgPool2d", "NearestUpsample2d"} =>
              \E h, w : Compute(s, x).out.shape = <<x[1].shape[1], x[1].shape[2], h, w>>
<1>1. PICK h, w : h = OH(x[1], s.with) /\ w = OW(x[1], s.with)
  OBVIOUS
<1>2. PICK hs, ws : hs = x[1].shape[3] * s.with.scale /\ ws = x[1].shape[4] * s.with.scale
  OBVIOUS
<1>3. ASSUME s.op = "Conv2d"
      PROVE  Compute(s, x).out.shape = <<x[1].shape[1], x[2].shape[1], h, w>>
  BY <1>1, <1>3 DEF Compute, Windowed, Computed, Conv2d, Tensor
<1>4. ASSUME s.op \in {"DepthwiseConv2d", "AvgPool2d"}
      PROVE  Compute(s, x).out.shape = <<x[1].shape[1], x[1].shape[2], h, w>>
  BY <1>1, <1>4 DEF Compute, Windowed, Computed, Depthwise, AvgPool, Tensor
<1>5. ASSUME s.op = "MaxPool2d"
      PROVE  Compute(s, x).out.shape = <<x[1].shape[1], x[1].shape[2], h, w>>
  BY <1>1, <1>5 DEF Compute, Windowed, ComputedPair, Computed, Member, MaxPool, Map, Tensor
<1>6. ASSUME s.op = "NearestUpsample2d"
      PROVE  Compute(s, x).out.shape = <<x[1].shape[1], x[1].shape[2], hs, ws>>
  BY <1>2, <1>6 DEF Compute, Windowed, Computed, Upsample, Tensor
<1>7. s.op = "Conv2d" =>
        \E a, b : Compute(s, x).out.shape = <<x[1].shape[1], x[2].shape[1], a, b>>
  BY <1>3, Zenon
<1>8. s.op \in {"DepthwiseConv2d", "MaxPool2d", "AvgPool2d", "NearestUpsample2d"} =>
        \E a, b : Compute(s, x).out.shape = <<x[1].shape[1], x[1].shape[2], a, b>>
  BY <1>4, <1>5, <1>6, Zenon
<1>. QED
  BY <1>7, <1>8, Zenon

LEMMA BroadcastIsSequence ==
  ASSUME NEW sa, NEW sb, IsSequence(sa), IsSequence(sb)
  PROVE  IsSequence(BroadcastShape(sa, sb))
<1>1. PICK n \in Nat : n = Rank(sa, sb)
  BY DEF Rank, IsSequence
<1>2. PICK q : q = BroadcastShape(sa, sb)
  OBVIOUS
<1>3. q = [i \in 1 .. n |-> q[i]]
  BY <1>1, <1>2 DEF BroadcastShape
<1>. QED
  BY <1>2, <1>3, FunctionIsSequence

(* The result has a shape, like the operands.                              *)
LEMMA OutIsSequence ==
  ASSUME NEW s, NEW x, Legal(s, x)
  PROVE  IsSequence(Compute(s, x).out.shape)
<1>1. Len(x) \in Nat /\ Len(x) > 0 /\ 1 \in DOMAIN x /\ 1 \in 1 .. Len(x) /\ IsSequence(x[1].shape)
  BY DEF Legal, IsSequence
<1>2. PICK r \in Nat : r = Len(x[1].shape)
  BY <1>1 DEF IsSequence
<1>3. PICK ax : ax = Axis(s.with.axis, r)
  OBVIOUS
<1>4. CASE s.op \in {"ReLU", "Sigmoid", "Tanh", "Exp", "Log", "Sqrt", "SiLU", "Softplus", "Sin",
                     "Cos", "Clamp"}
  BY <1>1, <1>4, ElementwiseShape
<1>5. CASE s.op \in {"Add", "Sub", "Mul", "Div", "LessEqual", "Where", "Scale"}
  BY <1>1, <1>5, ArithmeticShape
<1>6. CASE s.op \in {"Softmax", "LogSoftmax", "Cumsum", "Flip"}
  BY <1>1, <1>6, AxisShape
<1>7. CASE s.op \in {"DftReal", "DftImag"}
  BY <1>1, <1>7, TransformShape
<1>8. CASE s.op = "GroupNorm"
  BY <1>1, <1>8, GroupNormShape
<1>9. CASE s.op = "Sum"
  BY <1>9, SumShapes, TupleIsSequence
<1>10. CASE s.op = "SumAxes"
  BY <1>1, <1>10, SumShapes, ReducedFact
<1>11. CASE s.op = "MatMul"
  <2>1. Len(x[1].shape) >= 2
    BY <1>11 DEF Legal, Accepts, MatMulOK
  <2>2. \A row, col : IsSequence(Cell(x[1].shape, row, col))
    BY <1>1, <2>1, CellFact
  <2>. QED
    BY <1>11, <2>2, SumShapes
<1>12. CASE s.op = "BroadcastAdd"
  <2>1. Len(x) = 2
    BY <1>12 DEF Legal, Unary, Ternary
  <2>2. IsSequence(x[2].shape)
    BY <2>1 DEF Legal
  <2>. QED
    BY <1>1, <1>12, <2>2, SumShapes, BroadcastIsSequence
<1>13. CASE s.op = "Transpose"
  <2>1. ax \in 1 .. r /\ Axis(s.with.axis1, r) \in 1 .. r
    BY <1>2, <1>3, <1>13, AxisFact DEF Legal, Accepts
  <2>2. Compute(s, x).out.shape = Swapped(x[1].shape, ax, Axis(s.with.axis1, r))
    BY <1>2, <1>3, <1>13, LayoutShapes, Zenon
  <2>. QED
    BY <1>1, <1>2, <2>1, <2>2, SwappedFact
<1>14. CASE s.op = "Reshape"
  BY <1>14, LayoutShapes DEF Legal
<1>15. CASE s.op = "Slice"
  <2>1. PICK a : Compute(s, x).out.shape = [x[1].shape EXCEPT ![a] = s.with.len]
    BY <1>15, LayoutShapes, Zenon
  <2>2. PICK q, e : q = x[1].shape /\ e = s.with.len
    OBVIOUS
  <2>3. IsSequence([q EXCEPT ![a] = e])
    BY <1>1, <2>2, ExceptIsSequence
  <2>. QED
    BY <2>1, <2>2, <2>3
<1>16. CASE s.op = "Concat"
  BY <1>1, <1>16, ConcatOutShape, Zenon
<1>17. CASE s.op \in {"Conv2d", "DepthwiseConv2d", "MaxPool2d", "AvgPool2d", "NearestUpsample2d"}
  <2>1. \E c, d, h, w : Compute(s, x).out.shape = <<c, d, h, w>>
    <3>1. CASE s.op = "Conv2d"
      <4>1. PICK h, w : Compute(s, x).out.shape = <<x[1].shape[1], x[2].shape[1], h, w>>
        BY <3>1, WindowShapes, SMT
      <4>. QED
        BY <4>1, Zenon
    <3>2. CASE s.op \in {"DepthwiseConv2d", "MaxPool2d", "AvgPool2d", "NearestUpsample2d"}
      <4>1. PICK h, w : Compute(s, x).out.shape = <<x[1].shape[1], x[1].shape[2], h, w>>
        BY <3>2, WindowShapes, SMT
      <4>. QED
        BY <4>1, Zenon
    <3>. QED
      BY <1>17, <3>1, <3>2
  <2>. QED
    BY <2>1, TupleIsSequence, Zenon
<1>18. CASE s.op = "Refuse"
  BY <1>18 DEF Legal, Accepts
<1>19. s.op \in Unary \cup Binary \cup Ternary \cup {"Concat"}
  BY DEF Legal
<1>. QED
  BY <1>4, <1>5, <1>6, <1>7, <1>8, <1>9, <1>10, <1>11, <1>12, <1>13, <1>14, <1>15, <1>16, <1>17,
     <1>18, <1>19 DEF Unary, Binary, Ternary

-----------------------------------------------------------------------------
(* The shapes of the gradients of the operands.                            *)

LEMMA BackwardCounts ==
  ASSUME NEW s, NEW g, NEW v, NEW sh
  PROVE  LET q == Backward(s, g, v, sh)
         IN /\ s.op \in Unary \ {"Refuse"} => DOMAIN q = 1 .. 1 /\ Len(q) = 1
            /\ s.op \in Binary \ {"LessEqual"} => DOMAIN q = 1 .. 2 /\ Len(q) = 2
            /\ s.op \in Ternary => DOMAIN q = 1 .. 3 /\ Len(q) = 3
<1>. DEFINE q == Backward(s, g, v, sh)
<1>1. ASSUME s.op \in Unary \ {"Refuse"} PROVE DOMAIN q = 1 .. 1 /\ Len(q) = 1
  BY <1>1, SMTT(30) DEF Backward, WindowBackward, Unary
<1>2. ASSUME s.op \in Binary \ {"LessEqual"} PROVE DOMAIN q = 1 .. 2 /\ Len(q) = 2
  BY <1>2, SMTT(30) DEF Backward, WindowBackward, Binary, DftBackward
<1>3. ASSUME s.op \in Ternary PROVE DOMAIN q = 1 .. 3 /\ Len(q) = 3
  BY <1>3, SMTT(30) DEF Backward, WindowBackward, Ternary, WhereBackward
<1>. QED
  BY <1>1, <1>2, <1>3

(* One operand: the gradient has the shape of the gradient that came, or   *)
(* that of the operand.                                                    *)
LEMMA ElementwiseBackward ==
  ASSUME NEW s, NEW g, NEW v, NEW sh
  PROVE  s.op \in {"ReLU", "Sigmoid", "Tanh", "Exp", "Log", "Sqrt", "SiLU", "Softplus", "Sin",
                   "Cos", "Clamp", "Scale"} => Backward(s, g, v, sh)[1].shape = g.shape
  BY DEF Backward, ReluBackward, SigmoidBackward, TanhBackward, ExpBackward, LogBackward,
         SqrtBackward, SiluBackward, SoftplusBackward, SinBackward, CosBackward, ClampBackward,
         Scale, Map2, Map3, Map

LEMMA AxisBackward ==
  ASSUME NEW s, NEW g, NEW v, NEW sh
  PROVE  s.op \in {"Softmax", "LogSoftmax", "Cumsum", "Flip"} =>
           Backward(s, g, v, sh)[1].shape = g.shape
  BY DEF Backward, SoftmaxBackward, LogSoftmaxBackward, CumsumBackward, Flip, Tensor

LEMMA SpreadBackward ==
  ASSUME NEW s, NEW g, NEW v, NEW sh
  PROVE  s.op \in {"Sum", "SumAxes", "MaxPool2d", "AvgPool2d", "NearestUpsample2d"} =>
           Backward(s, g, v, sh)[1].shape = sh[1]
  BY DEF Backward, WindowBackward, BroadcastScalar, SumAxesBackward, MaxPoolBackward,
         AvgPoolBackward, UpsampleBackward, Col2im, Tensor

LEMMA ViewBackward ==
  ASSUME NEW s, NEW g, NEW v, NEW sh
  PROVE  s.op \in {"Slice", "Reshape"} => Backward(s, g, v, sh)[1].shape = v[1].shape
  BY DEF Backward, SliceBackward, Reshaped, Tensor

LEMMA TransposeBackward ==
  ASSUME NEW s, NEW g, NEW v, NEW sh
  PROVE  s.op = "Transpose" =>
           Backward(s, g, v, sh)[1].shape =
             Swapped(g.shape, Axis(s.with.axis, Len(g.shape)), Axis(s.with.axis1, Len(g.shape)))
  BY DEF Backward, Transpose, Tensor

(* Several operands.                                                       *)
LEMMA ArithmeticBackward ==
  ASSUME NEW s, NEW g, NEW v, NEW sh
  PROVE  s.op \in {"Add", "Sub", "Mul", "Div"} =>
           LET q == Backward(s, g, v, sh) IN q[1].shape = g.shape /\ q[2].shape = g.shape
  BY DEF Backward, SubBackwardB, Mul, DivBackwardA, DivBackwardB, Map2, Map3, Map

LEMMA TransformBackward ==
  ASSUME NEW s, NEW g, NEW v, NEW sh
  PROVE  s.op \in {"DftReal", "DftImag"} =>
           LET q == Backward(s, g, v, sh) IN q[1].shape = g.shape /\ q[2].shape = g.shape
  BY DEF Backward, WindowBackward, DftBackward, DFT2, ZerosLike, Tensor, Member, Map

LEMMA WhereOperands ==
  ASSUME NEW s, NEW g, NEW v, NEW sh
  PROVE  s.op = "Where" =>
           LET q == Backward(s, g, v, sh)
           IN q[1].shape = g.shape /\ q[2].shape = v[1].shape /\ q[3].shape = v[1].shape
  BY DEF Backward, WindowBackward, WhereBackward, Where, ZerosLike, Map, Map3

LEMMA BroadcastBackward ==
  ASSUME NEW s, NEW g, NEW v, NEW sh
  PROVE  s.op = "BroadcastAdd" =>
           LET q == Backward(s, g, v, sh) IN q[1].shape = sh[1] /\ q[2].shape = sh[2]
  BY DEF Backward, BroadcastAddBackward, Tensor

LEMMA MatMulBackward ==
  ASSUME NEW s, NEW g, NEW v, NEW sh
  PROVE  s.op = "MatMul" =>
           LET q == Backward(s, g, v, sh) a == v[1].shape b == v[2].shape r == Len(g.shape)
           IN /\ q[1].shape = Cell(g.shape, g.shape[r - 1], b[r - 1])
              /\ q[2].shape = Cell(a, a[Len(a)], g.shape[Len(a)])
  BY DEF Backward, MatMulBackwardA, MatMulBackwardB, Tensor

LEMMA ConvBackward ==
  ASSUME NEW s, NEW g, NEW v, NEW sh
  PROVE  s.op = "Conv2d" =>
           LET q == Backward(s, g, v, sh)
           IN q[1].shape = sh[1] /\ q[2].shape = v[2].shape /\ q[3].shape = <<g.shape[2]>>
  BY DEF Backward, WindowBackward, ConvBackwardInput, ConvBackwardBias, ConvBackwardWeight,
         Col2im, Tensor

LEMMA DepthwiseBackward ==
  ASSUME NEW s, NEW g, NEW v, NEW sh
  PROVE  s.op = "DepthwiseConv2d" =>
           LET q == Backward(s, g, v, sh)
           IN /\ q[1].shape = sh[1] /\ q[2].shape = <<g.shape[2], s.with.kH, s.with.kW>>
              /\ q[3].shape = <<g.shape[2]>>
  BY DEF Backward, WindowBackward, DepthwiseBackwardInput, DepthwiseBackwardWeight,
         DepthwiseBackwardBias, Col2im, Tensor

LEMMA GroupNormBackward ==
  ASSUME NEW s, NEW g, NEW v, NEW sh
  PROVE  s.op = "GroupNorm" =>
           LET q == Backward(s, g, v, sh)
           IN q[1].shape = g.shape /\ q[2].shape = <<g.shape[2]>> /\ q[3].shape = <<g.shape[2]>>
  BY DEF Backward, WindowBackward, GroupNormBackwardInput, GroupNormBackwardWeight,
         GroupNormBackwardBias, Tensor

LEMMA ConcatOperands ==
  ASSUME NEW s, NEW g, NEW v, NEW sh, IsSequence(v)
  PROVE  s.op = "Concat" =>
           LET q == Backward(s, g, v, sh)
           IN DOMAIN q = 1 .. Len(v) /\ Len(q) = Len(v) /\ \A i \in 1 .. Len(v) : q[i].shape = v[i].shape
  BY DEF Backward, ConcatBackward, Tensor, IsSequence

-----------------------------------------------------------------------------
(* backward_step returns what validate_gradient accepts.                   *)

(* The gradients of the operands x, of their shapes.                       *)
GradientsFor(q, x) ==
  DOMAIN q = 1 .. Len(x) /\ Len(q) = Len(x) /\ \A i \in 1 .. Len(x) : q[i].shape = x[i].shape

(* What is saved, with any elements.                                       *)
Kept(v, s, x) ==
  IF s.op = "Concat"
  THEN IsSequence(v) /\ Len(v) = Len(x) /\ \A i \in 1 .. Len(x) : v[i].shape = x[i].shape
  ELSE /\ DOMAIN v = DOMAIN Compute(s, x).saved
       /\ \A i \in DOMAIN v : v[i].shape = Compute(s, x).saved[i].shape

LEMMA SavedOperands ==
  ASSUME NEW s, NEW x
  PROVE  /\ s.op \in {"MatMul", "Transpose", "Reshape", "Slice"} => Compute(s, x).saved = x
         /\ s.op = "Where" => Compute(s, x).saved = <<x[1]>>
         /\ s.op = "Conv2d" =>
              DOMAIN Compute(s, x).saved = 1 .. 2 /\ Compute(s, x).saved[2] = x[2]
<1>1. ASSUME s.op = "MatMul" PROVE Compute(s, x).saved = x
  BY <1>1 DEF Compute, Arithmetic, Computed
<1>2. ASSUME s.op \in {"Transpose", "Reshape", "Slice"} PROVE Compute(s, x).saved = x
  BY <1>2 DEF Compute, Layout, Computed
<1>3. ASSUME s.op = "Where" PROVE Compute(s, x).saved = <<x[1]>>
  BY <1>3 DEF Compute, Arithmetic, Computed
<1>4. ASSUME s.op = "Conv2d"
      PROVE  DOMAIN Compute(s, x).saved = 1 .. 2 /\ Compute(s, x).saved[2] = x[2]
  BY <1>4 DEF Compute, Windowed, Computed
<1>. QED
  BY <1>1, <1>2, <1>3, <1>4

(* The products with the transposed factors undo the product's shape.      *)
LEMMA MatMulShapes ==
  ASSUME NEW a, NEW b, IsSequence(a), IsSequence(b), MatMulOK(a, b),
         NEW r, r = Len(a), NEW c, c = Cell(a, a[r - 1], b[r])
  PROVE  Len(c) = r /\ Cell(c, c[r - 1], b[r - 1]) = a /\ Cell(a, a[r], c[r]) = b
<1>1. r \in Nat /\ r >= 2 /\ Len(b) = r /\ a[r] = b[r - 1] /\ \A d \in 1 .. r - 2 : a[d] = b[d]
  BY DEF MatMulOK, IsSequence
<1>2. /\ IsSequence(c) /\ Len(c) = r /\ \A d \in 1 .. r - 2 : c[d] = a[d]
      /\ c[r - 1] = a[r - 1] /\ c[r] = b[r]
  BY <1>1, CellFact
<1>3. PICK p : p = Cell(c, c[r - 1], b[r - 1])
  OBVIOUS
<1>4. /\ IsSequence(p) /\ Len(p) = r /\ \A d \in 1 .. r - 2 : p[d] = c[d]
      /\ p[r - 1] = c[r - 1] /\ p[r] = b[r - 1]
  BY <1>1, <1>2, <1>3, CellFact
<1>5. PICK q : q = Cell(a, a[r], c[r])
  OBVIOUS
<1>6. /\ IsSequence(q) /\ Len(q) = r /\ \A d \in 1 .. r - 2 : q[d] = a[d]
      /\ q[r - 1] = a[r] /\ q[r] = c[r]
  BY <1>1, <1>5, CellFact
<1>7. \A d \in 1 .. r : d \in 1 .. r - 2 \/ d = r - 1 \/ d = r
  BY <1>1
<1>8. \A d \in 1 .. r : p[d] = a[d]
  BY <1>1, <1>2, <1>4, <1>7
<1>9. \A d \in 1 .. r : q[d] = b[d]
  BY <1>1, <1>2, <1>6, <1>7
<1>10. p = a
  BY <1>4, <1>8, SequencesEqual
<1>11. q = b
  BY <1>1, <1>6, <1>9, SequencesEqual
<1>. QED
  BY <1>2, <1>3, <1>5, <1>10, <1>11

(* What backward_step is given, for a statement that was accepted.         *)
Given(s, x, g, v, sh) ==
  /\ Legal(s, x) /\ s.op # "LessEqual"
  /\ g.shape = Compute(s, x).out.shape /\ Kept(v, s, x)
  /\ \A i \in 1 .. Len(x) : sh[i] = x[i].shape

LEMMA BackwardFits ==
  ASSUME NEW s, NEW x, NEW g, NEW v, NEW sh, Given(s, x, g, v, sh)
  PROVE  GradientsFor(Backward(s, g, v, sh), x)
<1>. SUFFICES ASSUME Legal(s, x), s.op # "LessEqual", g.shape = Compute(s, x).out.shape,
                     Kept(v, s, x), \A i \in 1 .. Len(x) : sh[i] = x[i].shape
              PROVE  GradientsFor(Backward(s, g, v, sh), x)
  BY DEF Given
<1>1. PICK q : q = Backward(s, g, v, sh)
  OBVIOUS
<1>2. s.op # "Refuse" /\ s.op \in Unary \cup Binary \cup Ternary \cup {"Concat"}
  BY DEF Legal, Accepts
<1>3. Len(x) \in Nat /\ Len(x) > 0 /\ DOMAIN x = 1 .. Len(x)
  BY DEF Legal, IsSequence
<1>4. 1 \in 1 .. Len(x) /\ 1 \in DOMAIN x /\ IsSequence(x[1].shape) /\ sh[1] = x[1].shape
  BY <1>3 DEF Legal
<1>5. CASE s.op \in Unary
  <2>1. Len(x) = 1 /\ DOMAIN q = 1 .. 1 /\ Len(q) = 1
    BY <1>1, <1>2, <1>5, BackwardCounts DEF Legal, Unary, Binary, Ternary
  <2>2. SUFFICES q[1].shape = x[1].shape
    BY <1>1, <2>1 DEF GradientsFor
  <2>3. CASE s.op \in {"ReLU", "Sigmoid", "Tanh", "Exp", "Log", "Sqrt", "SiLU", "Softplus", "Sin",
                       "Cos", "Clamp", "Scale"}
    BY <1>1, <2>3, ElementwiseShape, ArithmeticShape, ElementwiseBackward
  <2>4. CASE s.op \in {"Softmax", "LogSoftmax", "Cumsum", "Flip"}
    BY <1>1, <2>4, AxisShape, AxisBackward
  <2>5. CASE s.op \in {"Sum", "SumAxes", "MaxPool2d", "AvgPool2d", "NearestUpsample2d"}
    BY <1>1, <1>4, <2>5, SpreadBackward
  <2>6. CASE s.op \in {"Slice", "Reshape"}
    <3>1. v[1].shape = x[1].shape
      BY <1>4, <2>6, SavedOperands DEF Kept
    <3>. QED
      BY <1>1, <2>6, <3>1, ViewBackward
  <2>7. CASE s.op = "Transpose"
    <3>1. PICK p, r, a, b : /\ p = x[1].shape /\ r = Len(p)
                            /\ a = Axis(s.with.axis, r) /\ b = Axis(s.with.axis1, r)
      OBVIOUS
    <3>2. r \in Nat /\ AxisOK(s.with.axis, r) /\ AxisOK(s.with.axis1, r)
      BY <1>4, <2>7, <3>1 DEF Legal, Accepts, IsSequence
    <3>3. a \in 1 .. r /\ b \in 1 .. r
      BY <3>1, <3>2, AxisFact
    <3>4. g.shape = Swapped(p, a, b)
      BY <2>7, <3>1, LayoutShapes
    <3>5. Len(Swapped(p, a, b)) = r /\ Swapped(Swapped(p, a, b), a, b) = p
      BY <1>4, <3>1, <3>3, SwappedFact
    <3>6. q[1].shape = Swapped(g.shape, Axis(s.with.axis, Len(g.shape)), Axis(s.with.axis1, Len(g.shape)))
      BY <1>1, <2>7, TransposeBackward
    <3>. QED
      BY <3>1, <3>4, <3>5, <3>6
  <2>. QED
    BY <1>2, <1>5, <2>3, <2>4, <2>5, <2>6, <2>7 DEF Unary
<1>6. CASE s.op \in Binary
  <2>1. Len(x) = 2 /\ DOMAIN q = 1 .. 2 /\ Len(q) = 2
    BY <1>1, <1>6, BackwardCounts DEF Legal, Unary, Binary, Ternary
  <2>2. 2 \in DOMAIN x /\ IsSequence(x[2].shape) /\ sh[2] = x[2].shape
    BY <1>3, <2>1 DEF Legal
  <2>3. SUFFICES q[1].shape = x[1].shape /\ q[2].shape = x[2].shape
    BY <1>1, <2>1 DEF GradientsFor
  <2>4. CASE s.op \in {"Add", "Sub", "Mul", "Div"}
    <3>1. x[2].shape = x[1].shape
      BY <2>2, <2>4 DEF Legal, Accepts, SameShapes
    <3>. QED
      BY <1>1, <2>4, <3>1, ArithmeticShape, ArithmeticBackward
  <2>5. CASE s.op \in {"DftReal", "DftImag"}
    <3>1. x[2].shape = x[1].shape
      BY <2>5 DEF Legal, Accepts, DFT2OK
    <3>. QED
      BY <1>1, <2>5, <3>1, TransformShape, TransformBackward
  <2>6. CASE s.op = "BroadcastAdd"
    BY <1>1, <1>4, <2>2, <2>6, BroadcastBackward
  <2>7. CASE s.op = "MatMul"
    <3>1. PICK a, b, r : a = x[1].shape /\ b = x[2].shape /\ r = Len(a)
      OBVIOUS
    <3>2. MatMulOK(a, b) /\ IsSequence(a) /\ IsSequence(b)
      BY <1>4, <2>2, <2>7, <3>1 DEF Legal, Accepts
    <3>3. g.shape = Cell(a, a[r - 1], b[r])
      BY <2>7, <3>1, SumShapes
    <3>4. /\ Len(g.shape) = r /\ Cell(g.shape, g.shape[r - 1], b[r - 1]) = a
          /\ Cell(a, a[r], g.shape[r]) = b
      <4>1. PICK c : c = g.shape
        OBVIOUS
      <4>2. Len(c) = r /\ Cell(c, c[r - 1], b[r - 1]) = a /\ Cell(a, a[r], c[r]) = b
        <5>1. r = Len(a) /\ c = Cell(a, a[r - 1], b[r])
          BY <3>1, <3>3, <4>1
        <5>. HIDE <3>1
        <5>. QED
          BY <3>2, <5>1, MatMulShapes
      <4>. QED
        BY <4>1, <4>2
    <3>5. v[1].shape = a /\ v[2].shape = b
      BY <1>4, <2>2, <2>7, <3>1, SavedOperands DEF Kept
    <3>6. /\ q[1].shape = Cell(g.shape, g.shape[r - 1], b[r - 1])
          /\ q[2].shape = Cell(a, a[r], g.shape[r])
      <4>1. PICK c, va, vb, n : c = g.shape /\ va = v[1].shape /\ vb = v[2].shape /\ n = Len(c)
        OBVIOUS
      <4>2. q[1].shape = Cell(c, c[n - 1], vb[n - 1]) /\ q[2].shape = Cell(va, va[Len(va)], c[Len(va)])
        BY <1>1, <2>7, <4>1, MatMulBackward
      <4>. QED
        BY <3>1, <3>4, <3>5, <4>1, <4>2
    <3>. QED
      BY <3>1, <3>4, <3>6
  <2>. QED
    BY <1>6, <2>4, <2>5, <2>6, <2>7 DEF Binary
<1>7. CASE s.op \in Ternary
  <2>1. Len(x) = 3 /\ DOMAIN q = 1 .. 3 /\ Len(q) = 3
    BY <1>1, <1>7, BackwardCounts DEF Legal, Unary, Binary, Ternary
  <2>2. /\ 2 \in DOMAIN x /\ IsSequence(x[2].shape)
        /\ 3 \in DOMAIN x /\ IsSequence(x[3].shape)
    BY <1>3, <2>1 DEF Legal
  <2>3. SUFFICES q[1].shape = x[1].shape /\ q[2].shape = x[2].shape /\ q[3].shape = x[3].shape
    BY <1>1, <2>1 DEF GradientsFor
  <2>4. CASE s.op = "Where"
    <3>1. x[2].shape = x[1].shape /\ x[3].shape = x[1].shape
      BY <2>2, <2>4 DEF Legal, Accepts, SameShapes
    <3>2. v[1].shape = x[1].shape
      BY <2>4, SavedOperands DEF Kept
    <3>. QED
      BY <1>1, <2>4, <3>1, <3>2, ArithmeticShape, WhereOperands
  <2>5. CASE s.op = "Conv2d"
    <3>1. FilterOK(x, 4, 2, s.with)
      BY <2>5 DEF Legal, Accepts
    <3>2. x[3].shape = <<x[2].shape[1]>>
      BY <3>1 DEF FilterOK
    <3>3. v[2].shape = x[2].shape
      BY <2>5, SavedOperands DEF Kept
    <3>4. g.shape[2] = x[2].shape[1]
      BY <2>5, WindowShapes
    <3>. QED
      BY <1>1, <1>4, <2>5, <3>2, <3>3, <3>4, ConvBackward
  <2>6. CASE s.op = "DepthwiseConv2d"
    <3>1. FilterOK(x, 3, 1, s.with)
      BY <2>6 DEF Legal, Accepts
    <3>2. PICK p : p = x[2].shape
      OBVIOUS
    <3>3. /\ Len(p) = 3 /\ x[1].shape[2] = p[1] /\ s.with.kH = p[2] /\ s.with.kW = p[3]
          /\ x[3].shape = <<p[1]>>
      BY <3>1, <3>2 DEF FilterOK
    <3>4. g.shape[2] = p[1]
      BY <2>6, <3>3, WindowShapes
    <3>5. p = <<p[1], p[2], p[3]>>
      BY <2>2, <3>2, <3>3 DEF IsSequence
    <3>. QED
      BY <1>1, <1>4, <2>6, <3>2, <3>3, <3>4, <3>5, DepthwiseBackward
  <2>7. CASE s.op = "GroupNorm"
    <3>1. GroupNormOK(x[1].shape, x[2], x[3], s.with.groups)
      BY <2>7 DEF Legal, Accepts
    <3>2. x[2].shape = <<x[1].shape[2]>> /\ x[3].shape = <<x[1].shape[2]>>
      BY <3>1 DEF GroupNormOK
    <3>. QED
      BY <1>1, <2>7, <3>2, GroupNormShape, GroupNormBackward
  <2>. QED
    BY <1>7, <2>4, <2>5, <2>6, <2>7 DEF Ternary
<1>8. CASE s.op = "Concat"
  <2>1. IsSequence(v) /\ Len(v) = Len(x) /\ \A i \in 1 .. Len(x) : v[i].shape = x[i].shape
    BY <1>8 DEF Kept
  <2>2. DOMAIN q = 1 .. Len(v) /\ Len(q) = Len(v) /\ \A i \in 1 .. Len(v) : q[i].shape = v[i].shape
    BY <1>1, <1>8, <2>1, ConcatOperands
  <2>. QED
    BY <1>1, <2>1, <2>2 DEF GradientsFor
<1>. QED
  BY <1>2, <1>5, <1>6, <1>7, <1>8

-----------------------------------------------------------------------------
(* What an operation saves is a sequence of tensors.                       *)

LEMMA SavedIsSequence ==
  ASSUME NEW s, NEW x, Legal(s, x)
  PROVE  IsSequence(Compute(s, x).saved)
<1>1. PICK k : k = Compute(s, x).saved
  OBVIOUS
<1>2. SUFFICES k = x \/ k = <<>> \/ (\E a : k = <<a>>) \/ (\E a, b : k = <<a, b>>)
               \/ \E a, b, c : k = <<a, b, c>>
  <2>1. \A a, b : <<a, b>> \in Seq({a, b})
    OBVIOUS
  <2>2. \A a, b : IsSequence(<<a, b>>)
    BY <2>1, SeqIsSequence
  <2>3. IsSequence(x)
    BY DEF Legal
  <2>. QED
    BY <1>1, <2>2, <2>3, TupleIsSequence, Zenon
<1>3. CASE s.op \in {"Add", "Sub", "LessEqual", "Scale", "Sum", "SumAxes", "BroadcastAdd"}
  BY <1>1, <1>3 DEF Compute, Arithmetic, Computed
<1>4. CASE s.op \in {"Mul", "Div", "MatMul"}
  BY <1>1, <1>4 DEF Compute, Arithmetic, Computed
<1>5. CASE s.op = "Where"
  BY <1>1, <1>5 DEF Compute, Arithmetic, Computed
<1>6. CASE s.op \in {"ReLU", "Log", "Softplus", "Sin", "Cos", "Clamp"}
  BY <1>1, <1>6 DEF Compute, Activation, Computed
<1>7. CASE s.op \in {"Sigmoid", "Tanh", "Exp", "Sqrt"}
  <2>1. k = <<Compute(s, x).out>>
    BY <1>1, <1>7 DEF Compute, Activation, Computed, KeepsResult
  <2>. QED
    BY <2>1
<1>8. CASE s.op = "SiLU"
  <2>1. PICK m : m = Member(Silu(x[1]), 2)
    OBVIOUS
  <2>2. k = Append(<<x[1]>>, m)
    BY <1>1, <1>8, <2>1 DEF Compute, Activation, ComputedPair, Computed
  <2>. QED
    BY <2>2
<1>9. CASE s.op \in {"Softmax", "LogSoftmax"}
  <2>1. k = <<Compute(s, x).out>>
    BY <1>1, <1>9 DEF Compute, Layout, Computed, KeepsResult
  <2>. QED
    BY <2>1
<1>10. CASE s.op \in {"Transpose", "Reshape", "Slice"}
  BY <1>1, <1>10 DEF Compute, Layout, Computed
<1>11. CASE s.op \in {"Concat", "Cumsum", "Flip"}
  BY <1>1, <1>11 DEF Compute, Layout, Computed
<1>12. CASE s.op \in {"DftReal", "DftImag"}
  BY <1>1, <1>12 DEF Compute, Transformed, Computed
<1>13. CASE s.op = "GroupNorm"
  <2>1. PICK e : e = GroupNorm(x[1], x[2], x[3], s.with.groups, s.with.eps)
    OBVIOUS
  <2>2. k = <<Member(e, 2), Member(e, 3), x[2]>>
    BY <1>1, <1>13, <2>1 DEF Compute, Normalised, Computed
  <2>. QED
    BY <2>2
<1>14. CASE s.op \in {"Conv2d", "DepthwiseConv2d"}
  <2>1. k = <<Im2col(x[1], s.with), x[2]>>
    BY <1>1, <1>14 DEF Compute, Windowed, Computed
  <2>. QED
    BY <2>1
<1>15. CASE s.op = "MaxPool2d"
  <2>1. PICK m : m = Member(MaxPool(x[1], s.with), 2)
    OBVIOUS
  <2>2. k = Append(<<>>, m)
    BY <1>1, <1>15, <2>1 DEF Compute, Windowed, ComputedPair, Computed
  <2>. QED
    BY <2>2
<1>16. CASE s.op \in {"AvgPool2d", "NearestUpsample2d"}
  BY <1>1, <1>16 DEF Compute, Windowed, Computed
<1>17. s.op # "Refuse" /\ s.op \in Unary \cup Binary \cup Ternary \cup {"Concat"}
  BY DEF Legal, Accepts
<1>. QED
  BY <1>3, <1>4, <1>5, <1>6, <1>7, <1>8, <1>9, <1>10, <1>11, <1>12, <1>13, <1>14, <1>15, <1>16,
     <1>17 DEF Unary, Binary, Ternary

(* backward_step reads the operation and its arguments.                    *)
LEMMA SameStatement ==
  ASSUME NEW s, NEW t, s.op = t.op, s.with = t.with, NEW g, NEW v, NEW sh
  PROVE  Backward(s, g, v, sh) = Backward(t, g, v, sh)
  BY DEF Backward, WindowBackward
=============================================================================
