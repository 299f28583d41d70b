---------------------------- MODULE ShapeKernels ----------------------------
(***************************************************************************)
(* The tensor kernels on the CPU that move and sum elements: cpu/          *)
(* tensor_ops_shape.cpp and detail/tensor_kernels.h.  They walk the        *)
(* elements by their indices.                                              *)
(***************************************************************************)
EXTENDS TensorIndex

Sum(x) == Total(Numel(x.shape), LAMBDA k : x.data[k])

BroadcastScalar(s, sh) == Tensor(sh, LAMBDA i : s)

-----------------------------------------------------------------------------
(* One axis.                                                               *)

SliceOK(sh, ax, start, len) ==
  start >= 0 /\ len > 0 /\ start <= sh[ax] /\ len <= sh[ax] - start

Slice(x, ax, start, len) ==
  Tensor([x.shape EXCEPT ![ax] = len], LAMBDA i : At(x, [i EXCEPT ![ax] = @ + start]))

SliceBackward(g, sh, ax, start, len) ==
  Tensor(sh, LAMBDA i :
    IF i[ax] \in start .. start + len - 1 THEN At(g, [i EXCEPT ![ax] = @ - start]) ELSE Zero)

(* Where input k begins along the axis.                                    *)
Begins(shapes, ax, k) == IntSum(k - 1, LAMBDA j : shapes[j + 1][ax])

ConcatOK(shapes, ax) ==
  /\ shapes # <<>>
  /\ \A k \in DOMAIN shapes :
       /\ Len(shapes[k]) = Len(shapes[1])
       /\ \A d \in DOMAIN shapes[1] : d # ax => shapes[k][d] = shapes[1][d]

ConcatShape(shapes, ax) ==
  [shapes[1] EXCEPT ![ax] = Begins(shapes, ax, Len(shapes) + 1)]

Concat(xs, ax) ==
  LET shapes == [k \in DOMAIN xs |-> xs[k].shape]
      From(i) == CHOOSE k \in DOMAIN xs :
                   i[ax] \in Begins(shapes, ax, k) .. Begins(shapes, ax, k + 1) - 1
  IN Tensor(ConcatShape(shapes, ax), LAMBDA i :
       At(xs[From(i)], [i EXCEPT ![ax] = @ - Begins(shapes, ax, From(i))]))

ConcatBackward(g, shapes, ax) ==
  [k \in DOMAIN shapes |->
     Tensor(shapes[k], LAMBDA i : At(g, [i EXCEPT ![ax] = @ + Begins(shapes, ax, k)]))]

Cumsum(x, ax) ==
  Tensor(x.shape, LAMBDA i : Total(i[ax] + 1, LAMBDA k : At(x, [i EXCEPT ![ax] = k])))

CumsumBackward(g, ax) ==
  Tensor(g.shape, LAMBDA i :
    Total(g.shape[ax] - i[ax], LAMBDA k : At(g, [i EXCEPT ![ax] = g.shape[ax] - 1 - k])))

Flip(x, ax) == Tensor(x.shape, LAMBDA i : At(x, [i EXCEPT ![ax] = x.shape[ax] - 1 - @]))

Swapped(s, a, b) == [s EXCEPT ![a] = s[b], ![b] = s[a]]

Transpose(x, a, b) == Tensor(Swapped(x.shape, a, b), LAMBDA i : At(x, Swapped(i, a, b)))

-----------------------------------------------------------------------------
(* Several axes.                                                           *)

(* The coordinates of a sum, of an index or of a shape: the axes that are  *)
(* summed over are left out, or are at.                                    *)
Reduced(s, axes, keep, at) ==
  LET upTo[d \in 0 .. Len(s)] ==
        IF d = 0 THEN <<>>
        ELSE IF d \notin axes THEN Append(upTo[d - 1], s[d])
        ELSE IF keep THEN Append(upTo[d - 1], at) ELSE upTo[d - 1]
  IN upTo[Len(s)]

SumAxes(x, axes, keep) ==
  Tensor(Reduced(x.shape, axes, keep, 1), LAMBDA o :
    Total(Numel(x.shape), LAMBDA k :
      IF Reduced(Index(x.shape, k), axes, keep, 0) = o THEN x.data[k] ELSE Zero))

SumAxesBackward(g, sh, axes, keep) ==
  Tensor(sh, LAMBDA i : At(g, Reduced(i, axes, keep, 0)))

BroadcastOK(sa, sb) ==
  \A d \in 1 .. Rank(sa, sb) :
    LET ad == Aligned(sa, d, Rank(sa, sb)) bd == Aligned(sb, d, Rank(sa, sb))
    IN ad = bd \/ ad = 1 \/ bd = 1

BroadcastShape(sa, sb) ==
  [d \in 1 .. Rank(sa, sb) |->
     LET ad == Aligned(sa, d, Rank(sa, sb))
     IN IF ad = 1 THEN Aligned(sb, d, Rank(sa, sb)) ELSE ad]

(* The element of an operand of shape sh behind an index of the result.    *)
Behind(sh, i) ==
  [d \in DOMAIN sh |-> IF sh[d] = 1 THEN 0 ELSE i[d + Len(i) - Len(sh)]]

BroadcastAdd(a, b) ==
  Tensor(BroadcastShape(a.shape, b.shape), LAMBDA i :
    At(a, Behind(a.shape, i)) ++ At(b, Behind(b.shape, i)))

(* Mutated: the gradient is not summed over the axes that were repeated.   *)
BroadcastAddBackwardWhole(g, sh) == g

BroadcastAddBackward(g, sh) ==
  Tensor(sh, LAMBDA o :
    Total(Numel(g.shape), LAMBDA k :
      IF Behind(sh, Index(g.shape, k)) = o THEN g.data[k] ELSE Zero))

-----------------------------------------------------------------------------
(* Matrix products over the last two axes, batched over the others.        *)

MatMulOK(sa, sb) ==
  LET r == Len(sa)
  IN /\ r >= 2 /\ Len(sb) = r
     /\ sa[r] = sb[r - 1]
     /\ \A d \in 1 .. r - 2 : sa[d] = sb[d]

(* The index with the last two coordinates row and col.                    *)
Cell(i, row, col) == SubSeq(i, 1, Len(i) - 2) \o <<row, col>>

MatMul(a, b) ==
  LET r == Len(a.shape)
  IN Tensor(Cell(a.shape, a.shape[r - 1], b.shape[r]), LAMBDA i :
       Total(a.shape[r], LAMBDA k : At(a, Cell(i, i[r - 1], k)) ** At(b, Cell(i, k, i[r]))))

MatMulBackwardA(g, b) ==
  LET r == Len(g.shape)
  IN Tensor(Cell(g.shape, g.shape[r - 1], b.shape[r - 1]), LAMBDA i :
       Total(g.shape[r], LAMBDA n : At(g, Cell(i, i[r - 1], n)) ** At(b, Cell(i, i[r], n))))

MatMulBackwardB(a, g) ==
  LET r == Len(a.shape)
  IN Tensor(Cell(a.shape, a.shape[r], g.shape[r]), LAMBDA i :
       Total(a.shape[r - 1], LAMBDA m : At(a, Cell(i, m, i[r - 1])) ** At(g, Cell(i, m, i[r]))))
=============================================================================
