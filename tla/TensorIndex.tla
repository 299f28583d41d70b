---------------------------- MODULE TensorIndex ----------------------------
(***************************************************************************)
(* Dense tensors as the kernels see them: a shape, and the elements in     *)
(* row-major order (last axis fastest) under flat indices from 0.  An      *)
(* index is a sequence of coordinates; axes are numbered from 1.           *)
(***************************************************************************)
EXTENDS ExactNumbers, FiniteSets, Sequences

(* Sequences, as shapes and indices are.                                   *)
IsSequence(q) == Len(q) \in Nat /\ q = [i \in 1 .. Len(q) |-> q[i]]

(* F(0) + ... + F(n - 1), first to last: of integers and of elements.      *)
IntSum(n, F(_)) ==
  LET upTo[k \in 0 .. n] == IF k = 0 THEN 0 ELSE upTo[k - 1] + F(k - 1)
  IN upTo[n]

Total(n, F(_)) ==
  LET upTo[k \in 0 .. n] == IF k = 0 THEN Zero ELSE upTo[k - 1] ++ F(k - 1)
  IN upTo[n]

(* The largest of F(0), ..., F(n - 1).                                     *)
Largest(n, F(_)) ==
  LET upTo[k \in 1 .. n] ==
        IF k = 1 \/ upTo[k - 1] \prec F(k - 1) THEN F(k - 1) ELSE upTo[k - 1]
  IN upTo[n]

Numel(sh) ==
  LET upTo[d \in 0 .. Len(sh)] == IF d = 0 THEN 1 ELSE upTo[d - 1] * sh[d]
  IN upTo[Len(sh)]

(* The elements after the axis: the stride of the axis.                    *)
Inner(sh, ax) == Numel(SubSeq(sh, ax + 1, Len(sh)))

Strides(sh) == [d \in DOMAIN sh |-> Inner(sh, d)]

Offset(idx, sh) == IntSum(Len(idx), LAMBDA d : idx[d + 1] * Strides(sh)[d + 1])

(* The k-th index in the order of increment_index.                         *)
Index(sh, k) ==
  LET carry[d \in 1 .. Len(sh) + 1] ==
        IF d = Len(sh) + 1 THEN k ELSE carry[d + 1] \div sh[d]
  IN [d \in DOMAIN sh |-> carry[d + 1] % sh[d]]

Cells(sh) == 0 .. Numel(sh) - 1

Tensor(sh, F(_)) == [shape |-> sh, data |-> [k \in Cells(sh) |-> F(Index(sh, k))]]
At(t, idx) == t.data[Offset(idx, t.shape)]

(* A function of the elements of one, two and three tensors of a shape.    *)
Map(x, F(_)) == [shape |-> x.shape, data |-> [k \in DOMAIN x.data |-> F(x.data[k])]]
Map2(x, y, F(_, _)) ==
  [shape |-> x.shape, data |-> [k \in DOMAIN x.data |-> F(x.data[k], y.data[k])]]
Map3(x, y, z, F(_, _, _)) ==
  [shape |-> x.shape, data |-> [k \in DOMAIN x.data |-> F(x.data[k], y.data[k], z.data[k])]]

(* Any axis the caller may write, and the axis it stands for.              *)
AxisOK(axis, rank) == axis \in -rank .. rank - 1
Axis(axis, rank) == (IF axis < 0 THEN axis + rank ELSE axis) + 1

AxesOK(axes, rank) ==
  /\ \A i \in DOMAIN axes : AxisOK(axes[i], rank)
  /\ \A i, j \in DOMAIN axes : i # j => Axis(axes[i], rank) # Axis(axes[j], rank)
Axes(axes, rank) == {Axis(axes[i], rank) : i \in DOMAIN axes}

(* Two shapes aligned at their last axes.                                  *)
Aligned(sh, d, rank) == IF d + Len(sh) > rank THEN sh[d + Len(sh) - rank] ELSE 1
Rank(sa, sb) == IF Len(sa) > Len(sb) THEN Len(sa) ELSE Len(sb)
=============================================================================
