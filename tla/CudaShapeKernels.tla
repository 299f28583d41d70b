-------------------------- MODULE CudaShapeKernels --------------------------
(***************************************************************************)
(* cuda/tensor_ops_shape.cu: the kernels of ShapeKernels on a CUDA device. *)
(* A thread knows its flat index only and computes offsets from it; the    *)
(* dispatcher has already turned every axis into a non-negative one.       *)
(***************************************************************************)
EXTENDS CudaLaunch

(* The coordinate of a flat index along one axis, by its stride.           *)
Coord(flat, sh, d) == (flat \div Strides(sh)[d]) % sh[d]

SumKernel(x) == Gather(1, LAMBDA t : Total(Numel(x.shape), LAMBDA k : x.data[k]))

CudaSum(x) == UnlessNone(Numel(x.shape), Plan(<<>>, TRUE, 0, <<SumKernel(x)>>))

CudaBroadcastScalar(s, sh) == Elementwise(sh, LAMBDA flat : s)

-----------------------------------------------------------------------------
(* One axis: flat = (outer * dim + coordinate) * inner + rest.             *)

SliceCopy(x, total, axis_dim, output_axis, inner, start) ==
  Gather(total, LAMBDA flat :
    x.data[(flat \div (output_axis * inner)) * axis_dim * inner
             + (start + ((flat \div inner) % output_axis)) * inner + (flat % inner)])

CudaSlice(x, ax, start, len) ==
  LET sh == [x.shape EXCEPT ![ax] = len]
  IN UnlessEmpty(Plan(sh, FALSE, 0,
       <<SliceCopy(x, Numel(sh), x.shape[ax], len, Inner(x.shape, ax), start)>>))

SliceScatter(g, axis_dim, gradient_axis, inner, start) ==
  Scatter(Numel(g.shape),
    LAMBDA flat : (flat \div (gradient_axis * inner)) * axis_dim * inner
                    + (start + ((flat \div inner) % gradient_axis)) * inner + (flat % inner),
    LAMBDA flat : g.data[flat])

CudaSliceBackward(g, sh, ax, start, len) ==
  UnlessEmpty(Plan(sh, TRUE, 0, <<SliceScatter(g, sh[ax], len, Inner(sh, ax), start)>>))

ConcatCopy(x, input_axis, output_axis, inner, axis_offset) ==
  Scatter(Numel(x.shape),
    LAMBDA flat : (flat \div (input_axis * inner)) * output_axis * inner
                    + (axis_offset + ((flat \div inner) % input_axis)) * inner + (flat % inner),
    LAMBDA flat : x.data[flat])

(* The loop skips the inputs without elements.                             *)
WithThreads(copies) ==
  LET upTo[k \in 0 .. Len(copies)] ==
        IF k = 0 THEN <<>>
        ELSE IF copies[k].n = 0 THEN upTo[k - 1] ELSE Append(upTo[k - 1], copies[k])
  IN upTo[Len(copies)]

CudaConcat(xs, ax) ==
  LET AxisSum(k) == IntSum(k, LAMBDA j : xs[j + 1].shape[ax])
      total_axis == AxisSum(Len(xs))
      sh == [xs[1].shape EXCEPT ![ax] = total_axis]
      copies == [k \in DOMAIN xs |->
        ConcatCopy(xs[k], xs[k].shape[ax], total_axis, Inner(sh, ax), AxisSum(k - 1))]
  IN UnlessEmpty(Plan(sh, FALSE, 0, WithThreads(copies)))

(* The gradient of input k.                                                *)
CudaConcatBackward(g, shapes, ax, k) ==
  IF shapes[k][ax] = 0 THEN Nothing(shapes[k])
  ELSE UnlessEmpty(CudaSlice(g, ax, IntSum(k - 1, LAMBDA j : shapes[j + 1][ax]), shapes[k][ax]))

FlipKernel(x, axis_dim, inner) ==
  Gather(Numel(x.shape), LAMBDA flat :
    x.data[flat + (axis_dim - 1 - 2 * ((flat \div inner) % axis_dim)) * inner])

CudaFlip(x, ax) ==
  UnlessEmpty(Plan(x.shape, FALSE, 0, <<FlipKernel(x, x.shape[ax], Inner(x.shape, ax))>>))

-----------------------------------------------------------------------------
(* Several axes: strides and flags are read from metadata buffers.         *)

(* Shapes and strides are copied to the device, but not those of scalars.  *)
Vectors(shapes) == Cardinality({k \in DOMAIN shapes : shapes[k] # <<>>})

(* The offset of an operand aligned at its last axis with the result.      *)
AlignedOffset(flat, sh, operand) ==
  IntSum(Len(sh), LAMBDA j :
    LET d == j + 1 + Len(operand) - Len(sh)
    IN IF d >= 1 /\ operand[d] # 1 THEN Coord(flat, sh, j + 1) * Strides(operand)[d] ELSE 0)

BroadcastForward(a, b, sh) ==
  Gather(Numel(sh), LAMBDA flat :
    a.data[AlignedOffset(flat, sh, a.shape)] ++ b.data[AlignedOffset(flat, sh, b.shape)])

CudaBroadcastAdd(a, b, sh) ==
  UnlessEmpty(Plan(sh, FALSE, Vectors(<<a.shape, b.shape, sh, a.shape, b.shape, sh>>),
                   <<BroadcastForward(a, b, sh)>>))

(* Mutated: the threads add without atomicity; the last store wins.        *)
BroadcastBackwardRacy(g, sh) ==
  Scatter(Numel(g.shape), LAMBDA flat : AlignedOffset(flat, g.shape, sh),
          LAMBDA flat : g.data[flat])

BroadcastBackward(g, sh) ==
  AtomicAdd(Numel(g.shape), LAMBDA flat : AlignedOffset(flat, g.shape, sh),
            LAMBDA flat : g.data[flat])

CudaBroadcastAddBackward(g, sh) ==
  IF sh = <<>> THEN CudaSum(g)
  ELSE UnlessNone(Numel(g.shape), Plan(sh, TRUE, Vectors(<<g.shape, g.shape, sh, sh>>), <<BroadcastBackward(g, sh)>>))

CudaSumAxesShape(sh, axes, keep) ==
  LET kept == SelectSeq([d \in DOMAIN sh |-> d], LAMBDA d : keep \/ d \notin axes)
  IN [j \in DOMAIN kept |-> IF kept[j] \in axes THEN 1 ELSE sh[kept[j]]]

(* The offset of the sum a flat index belongs to; out_axis counts the axes *)
(* of the sum passed so far.                                               *)
SumOffset(flat, sh, sums, axes, keep) ==
  IntSum(Len(sh), LAMBDA j :
    LET out_axis == IntSum(j, LAMBDA i : IF keep \/ i + 1 \notin axes THEN 1 ELSE 0) + 1
    IN IF j + 1 \in axes THEN 0 ELSE Coord(flat, sh, j + 1) * Strides(sums)[out_axis])

SumAxesForward(x, sums, axes, keep) ==
  AtomicAdd(Numel(x.shape), LAMBDA flat : SumOffset(flat, x.shape, sums, axes, keep),
            LAMBDA flat : x.data[flat])

CudaSumAxes(x, axes, keep) ==
  LET sums == CudaSumAxesShape(x.shape, axes, keep)
  IN UnlessNone(Numel(x.shape), Plan(sums, TRUE, Vectors(<<x.shape, x.shape, sums, x.shape>>),
                                     <<SumAxesForward(x, sums, axes, keep)>>))

SumAxesBackwardKernel(g, sh, axes, keep) ==
  Gather(Numel(sh), LAMBDA flat : g.data[SumOffset(flat, sh, g.shape, axes, keep)])

CudaSumAxesBackward(g, sh, axes, keep) ==
  UnlessEmpty(Plan(sh, FALSE, Vectors(<<sh, sh, g.shape, sh>>),
                   <<SumAxesBackwardKernel(g, sh, axes, keep)>>))

-----------------------------------------------------------------------------
(* Matrix products: batch, row and column of the thread's cell.            *)

Batched(total, rows, cols, F(_, _, _)) ==
  Gather(total, LAMBDA idx :
    F(idx \div (rows * cols), (idx % (rows * cols)) \div cols, (idx % (rows * cols)) % cols))

MatMulForward(a, b, M, N, K, total) ==
  Batched(total, M, N, LAMBDA batch, row, col :
    Total(K, LAMBDA p : a.data[batch * M * K + row * K + p] ** b.data[batch * K * N + p * N + col]))

MatMulBackwardAKernel(g, b, M, N, K, total) ==
  Batched(total, M, K, LAMBDA batch, row, col :
    Total(N, LAMBDA n : g.data[batch * M * N + row * N + n] ** b.data[batch * K * N + col * N + n]))

MatMulBackwardBKernel(a, g, M, N, K, total) ==
  Batched(total, K, N, LAMBDA batch, row, col :
    Total(M, LAMBDA m : a.data[batch * M * K + m * K + row] ** g.data[batch * M * N + m * N + col]))

LastTwo(sh, rows, cols) == SubSeq(sh, 1, Len(sh) - 2) \o <<rows, cols>>

CudaMatMul(a, b) ==
  LET r == Len(a.shape) M == a.shape[r - 1] K == a.shape[r] N == b.shape[r]
      sh == LastTwo(a.shape, M, N)
  IN UnlessNone(K, UnlessEmpty(Plan(sh, FALSE, 0, <<MatMulForward(a, b, M, N, K, Numel(sh))>>)))

CudaMatMulBackwardA(g, b) ==
  LET r == Len(g.shape) M == g.shape[r - 1] N == g.shape[r] K == b.shape[r - 1]
      sh == LastTwo(g.shape, M, K)
  IN UnlessNone(N, UnlessEmpty(Plan(sh, FALSE, 0, <<MatMulBackwardAKernel(g, b, M, N, K, Numel(sh))>>)))

CudaMatMulBackwardB(a, g) ==
  LET r == Len(a.shape) M == a.shape[r - 1] K == a.shape[r] N == g.shape[r]
      sh == LastTwo(a.shape, K, N)
  IN UnlessNone(M, UnlessEmpty(Plan(sh, FALSE, 0, <<MatMulBackwardBKernel(a, g, M, N, K, Numel(sh))>>)))
=============================================================================
