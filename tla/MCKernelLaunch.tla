--------------------------- MODULE MCKernelLaunch ---------------------------
(***************************************************************************)
(* The kernels of src/src/cuda on small tensors, each against the kernel   *)
(* on the CPU.                                                             *)
(***************************************************************************)
EXTENDS KernelLaunch, CudaShapeKernels, CudaElementwiseKernels, TLC

(* A function whose values TLC computes once.                              *)
Strict(f) == f @@ [c \in {} |-> 0]

(* Tensors: distinct elements first, first + 1, ..., and given ones.        *)
Ramp(sh, first) == [shape |-> sh, data |-> Strict([k \in Cells(sh) |-> Num(first + k)])]
Vector(ns) == [shape |-> <<Len(ns)>>, data |-> [k \in 0 .. Len(ns) - 1 |-> Num(ns[k + 1])]]
Scalar(x) == [shape |-> <<>>, data |-> [k \in {0} |-> x]]

(* A call that the CPU answers with t; with a window per axis, both may    *)
(* refuse it.                                                              *)
Call(thePlan, t) ==
  [windows |-> {}, expected |-> Strict(t.data),
   plan |-> [thePlan EXCEPT !.kernels = Strict([j \in DOMAIN @ |->
              [@[j] EXCEPT !.cell = Strict(@), !.value = Strict(@)]])]]
Windowed(sh, f, theCall) ==
  LET Along(input, kernel) == [input |-> input, kernel |-> kernel, stride |-> f.stride, pad |-> f.pad]
      given == [windows |-> {Along(sh[3], f.kH), Along(sh[4], f.kW)}, expected |-> <<>>,
                plan |-> Nothing(<<0>>)]
  IN IF Accepted(given) /\ CpuAccepted(given) THEN [theCall EXCEPT !.windows = given.windows]
     ELSE given
Status(holds) == Scalar(IF holds THEN One ELSE Zero)

m23 == Ramp(<<2, 3>>, 1)
m22 == Ramp(<<2, 2>>, 1)
m32 == Ramp(<<3, 2>>, -2)
none == Ramp(<<2, 0>>, 1)
-----------------------------------------------------------------------------

SumAxesCall(x, axes, keep) == Call(CudaSumAxes(x, axes, keep), Cpu!SumAxes(x, axes, keep))
SumAxesBackwardCall(g, sh, axes, keep) ==
  Call(CudaSumAxesBackward(g, sh, axes, keep), Cpu!SumAxesBackward(g, sh, axes, keep))
BroadcastCall(a, b) ==
  Call(CudaBroadcastAdd(a, b, Cpu!BroadcastShape(a.shape, b.shape)), Cpu!BroadcastAdd(a, b))
BroadcastBackwardCall(g, sh) ==
  Call(CudaBroadcastAddBackward(g, sh), Cpu!BroadcastAddBackward(g, sh))
ConcatCall(xs, ax) == Call(CudaConcat(xs, ax), Cpu!Concat(xs, ax))

ShapeCalls ==
  [sum |-> Call(CudaSum(m23), Scalar(Cpu!Sum(m23))),
   sum_none |-> Call(CudaSum(none), Scalar(Cpu!Sum(none))),
   broadcast_scalar |-> Call(CudaBroadcastScalar(Num(7), <<2, 2>>), Cpu!BroadcastScalar(Num(7), <<2, 2>>)),
   slice |-> Call(CudaSlice(m23, 2, 1, 2), Cpu!Slice(m23, 2, 1, 2)),
   slice_outer |-> Call(CudaSlice(m32, 1, 1, 2), Cpu!Slice(m32, 1, 1, 2)),
   slice_backward |-> Call(CudaSliceBackward(m22, <<2, 3>>, 2, 1, 2), Cpu!SliceBackward(m22, <<2, 3>>, 2, 1, 2)),
   slice_backward_outer |-> Call(CudaSliceBackward(m22, <<4, 2>>, 1, 1, 2), Cpu!SliceBackward(m22, <<4, 2>>, 1, 1, 2)),
   concat |-> ConcatCall(<<m22, Ramp(<<2, 1>>, 5), m22>>, 2),
   concat_outer |-> ConcatCall(<<m22, Ramp(<<0, 2>>, 1), Ramp(<<1, 2>>, 5)>>, 1),
   concat_backward |-> Call(CudaConcatBackward(m23, <<<<2, 2>>, <<2, 1>>>>, 2, 2),
                            Cpu!ConcatBackward(m23, <<<<2, 2>>, <<2, 1>>>>, 2)[2]),
   flip |-> Call(CudaFlip(m23, 2), Cpu!Flip(m23, 2)),
   flip_outer |-> Call(CudaFlip(m32, 1), Cpu!Flip(m32, 1)),
   broadcast |-> BroadcastCall(Ramp(<<2, 1>>, 1), Ramp(<<3>>, 10)),
   broadcast_rank |-> BroadcastCall(Ramp(<<2, 1, 2>>, 1), Ramp(<<1, 2, 1>>, 10)),
   broadcast_number |-> BroadcastCall(Scalar(Num(4)), m22),
   broadcast_backward |-> BroadcastBackwardCall(m23, <<2, 1>>),
   broadcast_backward_rank |-> BroadcastBackwardCall(m23, <<3>>),
   broadcast_backward_number |-> BroadcastBackwardCall(m23, <<>>),
   sum_axes |-> SumAxesCall(m23, {2}, FALSE),
   sum_axes_keep |-> SumAxesCall(m23, {1}, TRUE),
   sum_axes_both |-> SumAxesCall(Ramp(<<2, 2, 2>>, 1), {1, 3}, FALSE),
   sum_axes_all |-> SumAxesCall(m22, {1, 2}, FALSE),
   sum_axes_none |-> SumAxesCall(none, {2}, TRUE),
   sum_axes_backward |-> SumAxesBackwardCall(Ramp(<<2>>, 1), <<2, 3>>, {2}, FALSE),
   sum_axes_backward_keep |-> SumAxesBackwardCall(Ramp(<<1, 3>>, 1), <<2, 3>>, {1}, TRUE),
   matmul |-> Call(CudaMatMul(m23, m32), Cpu!MatMul(m23, m32)),
   matmul_batch |-> Call(CudaMatMul(Ramp(<<2, 1, 2>>, 1), Ramp(<<2, 2, 2>>, 1)),
                         Cpu!MatMul(Ramp(<<2, 1, 2>>, 1), Ramp(<<2, 2, 2>>, 1))),
   matmul_none |-> Call(CudaMatMul(none, Ramp(<<0, 3>>, 1)), Cpu!MatMul(none, Ramp(<<0, 3>>, 1))),
   matmul_a |-> Call(CudaMatMulBackwardA(m22, m32), Cpu!MatMulBackwardA(m22, m32)),
   matmul_b |-> Call(CudaMatMulBackwardB(m23, m22), Cpu!MatMulBackwardB(m23, m22))]
-----------------------------------------------------------------------------

x4 == Vector(<<-1, 0, 1, 2>>)
g4 == Vector(<<1, 2, -3, 4>>)
p4 == Vector(<<1, 2, 4, 8>>)
sq4 == Vector(<<1, 4, 9, 16>>)
zeros4 == Vector(<<0, 1, 0, 2>>)
s4 == Cpu!Sigmoid(x4)

(* Rows whose exponentials add up to powers of two.                        *)
rows == [shape |-> <<2, 3>>, data |-> [k \in 0 .. 5 |-> Num(<<1, 0, 0, -1, -2, -2>>[k + 1])]]
columns == Cpu!Transpose(rows, 1, 2)

UnaryCall(op, a, t) == Call(CudaUnary(a, op), t)
UnaryBackwardCall(op, saved, t) == Call(CudaUnaryBackward(g4, saved, op), t)
BinaryCall(op, t) == Call(CudaBinary(x4, p4, op), t)
StatusCall(a) == Call(CudaAllTrue(a), Status(Cpu!AllTrue(a)))
FiniteCall(a) == Call(CudaAllFinite(a), Status(Cpu!AllFinite(a)))
WithInfinity(a) == [a EXCEPT !.data = [@ EXCEPT ![1] = Infinity]]

x22 == Ramp(<<2, 2>>, -3)
x14 == Ramp(<<1, 4>>, 1)
m14 == Ramp(<<1, 4>>, -2)

ElementwiseCalls ==
  [relu |-> UnaryCall("ReLU", x4, Cpu!Relu(x4)),
   sigmoid |-> UnaryCall("Sigmoid", x4, Cpu!Sigmoid(x4)),
   tanh |-> UnaryCall("Tanh", x4, Cpu!TanhForward(x4)),
   exp |-> UnaryCall("Exp", x4, Cpu!ExpForward(x4)),
   log |-> UnaryCall("Log", p4, Cpu!Log(p4)),
   sqrt |-> UnaryCall("Sqrt", sq4, Cpu!SqrtForward(sq4)),
   relu_backward |-> UnaryBackwardCall("ReLU", x4, Cpu!ReluBackward(g4, x4)),
   sigmoid_backward |-> UnaryBackwardCall("Sigmoid", s4, Cpu!SigmoidBackward(g4, s4)),
   tanh_backward |-> UnaryBackwardCall("Tanh", s4, Cpu!TanhBackward(g4, s4)),
   exp_backward |-> UnaryBackwardCall("Exp", p4, Cpu!ExpBackward(g4, p4)),
   log_backward |-> UnaryBackwardCall("Log", p4, Cpu!LogBackward(g4, p4)),
   sqrt_backward |-> UnaryBackwardCall("Sqrt", p4, Cpu!SqrtBackward(g4, p4)),
   add |-> BinaryCall("Add", Cpu!Add(x4, p4)),
   mul |-> BinaryCall("Mul", Cpu!Mul(x4, p4)),
   sub |-> BinaryCall("Sub", Cpu!Sub(x4, p4)),
   div |-> BinaryCall("Div", Cpu!Div(x4, p4)),
   less_equal |-> BinaryCall("LessEqual", Cpu!LessEqual(x4, p4)),
   ones |-> Call(CudaOnes(<<3>>), Cpu!Ones(<<3>>)),
   scale |-> Call(CudaScale(x4, Frac(1, 2)), Cpu!Scale(x4, Frac(1, 2))),
   where |-> Call(CudaWhere(zeros4, x4, g4), Cpu!Where(zeros4, x4, g4)),
   silu |-> Call(CudaSilu(x4), Cpu!Silu(x4)),
   silu_backward |-> Call(CudaSiluBackward(g4, x4, s4), Cpu!SiluBackward(g4, x4, s4)),
   softplus |-> Call(CudaSoftplus(x4), Cpu!Softplus(x4)),
   softplus_backward |-> Call(CudaSoftplusBackward(g4, x4), Cpu!SoftplusBackward(g4, x4)),
   sub_b |-> Call(CudaSubBackwardB(g4), Cpu!SubBackwardB(g4)),
   div_a |-> Call(CudaDivBackwardA(g4, p4), Cpu!DivBackwardA(g4, p4)),
   div_b |-> Call(CudaDivBackwardB(g4, x4, p4), Cpu!DivBackwardB(g4, x4, p4)),
   all_true |-> StatusCall(p4), all_true_not |-> StatusCall(zeros4), all_true_none |-> StatusCall(none),
   all_true_infinite |-> StatusCall(WithInfinity(p4)),
   all_finite |-> FiniteCall(zeros4), all_finite_not |-> FiniteCall(WithInfinity(p4)),
   softmax |-> Call(CudaSoftmax(rows, 2), Cpu!Softmax(rows, 2)),
   softmax_outer |-> Call(CudaSoftmax(columns, 1), Cpu!Softmax(columns, 1)),
   softmax_backward |-> Call(CudaSoftmaxBackward(m23, rows, 2), Cpu!SoftmaxBackward(m23, rows, 2)),
   log_softmax |-> Call(CudaLogSoftmax(rows, 2), Cpu!LogSoftmax(rows, 2)),
   log_softmax_outer |-> Call(CudaLogSoftmax(columns, 1), Cpu!LogSoftmax(columns, 1)),
   log_softmax_backward |->
     Call(CudaLogSoftmaxBackward(m23, rows, 2), Cpu!LogSoftmaxBackward(m23, rows, 2)),
   dft2 |-> Call(CudaDFT2(m22, x22, FALSE, FALSE), Cpu!DFT2(m22, x22, FALSE, FALSE)),
   dft2_inverse |-> Call(CudaDFT2(x14, m14, TRUE, TRUE), Cpu!DFT2(x14, m14, TRUE, TRUE))]
-----------------------------------------------------------------------------

Window(kH, kW, stride, pad) == [kH |-> kH, kW |-> kW, stride |-> stride, pad |-> pad]

(* The saved columns are the cells -1, -2, ...                             *)
WithColumns(t, col) ==
  [t EXCEPT !.data = @ @@ [c \in {-1 - k : k \in DOMAIN col.data} |-> col.data[-1 - c]]]

ConvCall(sh, oc, f) ==
  LET x == Ramp(sh, 1) w == Ramp(<<oc, sh[2], f.kH, f.kW>>, -1) b == Ramp(<<oc>>, 10)
  IN Windowed(sh, f,
       Call(CudaConv2d(x, w, b, f), WithColumns(Cpu!Conv2d(x, w, b, f), Cpu!Im2col(x, f))))

ConvInputCall(sh, gsh, f) ==
  LET g == Ramp(gsh, 1) w == Ramp(<<gsh[2], sh[2], f.kH, f.kW>>, -1)
  IN Call(CudaConvBackwardInput(g, w, sh, f), Cpu!ConvBackwardInput(g, w, sh, f))

ConvWeightCall(sh, gsh, f) ==
  LET g == Ramp(gsh, 1) col == Cpu!Im2col(Ramp(sh, 1), f) wsh == <<gsh[2], sh[2], f.kH, f.kW>>
  IN Call(CudaConvBackwardWeight(g, col, wsh), Cpu!ConvBackwardWeight(g, col, wsh))

PoolCall(x, f) == Windowed(x.shape, f, Call(CudaMaxPool(x, f), Cpu!MaxPool(x, f)))

PoolBackwardCall(x, f) ==
  LET pooled == Cpu!MaxPool(x, f) mask == Map(pooled, LAMBDA p : p[2]) g == Ramp(pooled.shape, 1)
  IN Call(CudaMaxPoolBackward(g, mask, x.shape, f), Cpu!MaxPoolBackward(g, mask, x.shape, f))

(* Ties: the first of the largest wins.                                    *)
ties == [shape |-> <<1, 1, 2, 4>>, data |-> [k \in 0 .. 7 |-> Num(<<5, 5, 1, 7, 5, 2, 7, 7>>[k + 1])]]

NnCalls ==
  [conv |-> ConvCall(<<1, 2, 1, 3>>, 2, Window(1, 2, 1, 0)),
   conv_padded |-> ConvCall(<<1, 1, 2, 2>>, 1, Window(2, 2, 2, 1)),
   conv_batch |-> ConvCall(<<2, 1, 1, 2>>, 2, Window(1, 1, 1, 0)),
   conv_none |-> ConvCall(<<0, 1, 2, 2>>, 1, Window(1, 1, 1, 0)),
   conv_uneven |-> ConvCall(<<1, 1, 2, 3>>, 1, Window(2, 2, 2, 0)),
   conv_short |-> ConvCall(<<1, 1, 1, 2>>, 1, Window(2, 2, 1, 0)),
   conv_hollow |-> ConvCall(<<1, 1, 0, 2>>, 1, Window(2, 2, 1, 1)),
   conv_input |-> ConvInputCall(<<1, 1, 2, 3>>, <<1, 2, 1, 2>>, Window(2, 2, 1, 0)),
   conv_input_padded |-> ConvInputCall(<<1, 2, 2, 2>>, <<1, 1, 2, 2>>, Window(2, 2, 2, 1)),
   conv_weight |-> ConvWeightCall(<<2, 1, 2, 2>>, <<2, 2, 2, 1>>, Window(1, 2, 1, 0)),
   conv_weight_padded |-> ConvWeightCall(<<1, 2, 2, 2>>, <<1, 1, 2, 2>>, Window(2, 2, 2, 1)),
   conv_bias |-> Call(CudaConvBackwardBias(Ramp(<<2, 2, 1, 2>>, 1)), Cpu!ConvBackwardBias(Ramp(<<2, 2, 1, 2>>, 1))),
   max_pool |-> PoolCall(ties, Window(2, 2, 2, 0)),
   max_pool_overlap |-> PoolCall(ties, Window(2, 2, 1, 0)),
   max_pool_uneven |-> PoolCall(Ramp(<<1, 1, 3, 2>>, 1), Window(2, 2, 2, 0)),
   max_pool_backward |-> PoolBackwardCall(ties, Window(2, 2, 2, 0)),
   max_pool_backward_overlap |-> PoolBackwardCall(ties, Window(2, 2, 1, 0))]

MCCalls == ShapeCalls @@ ElementwiseCalls @@ NnCalls
=============================================================================
