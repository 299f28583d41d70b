----------------------------- MODULE Operations -----------------------------
(***************************************************************************)
(* The operations on variables: ops.cpp, conv.cpp, norm.cpp and fft.cpp,   *)
(* and backward_step of variable.cpp.  A statement s applies an operation  *)
(* s.op with the arguments s.with; x is the sequence of its operands.      *)
(* Axes are written as the caller writes them.                             *)
(***************************************************************************)
EXTENDS CpuKernels

Op(op, args) == [op |-> op, args |-> args, with |-> <<>>]
OpWith(op, args, with) == [op |-> op, args |-> args, with |-> with]

(* A statement that is always refused.                                     *)
Refusal == Op("Refuse", <<1>>)

(* The operations by the number of operands they have; Concat has any.     *)
Unary ==
  {"Scale", "Sum", "SumAxes", "ReLU", "Sigmoid", "Tanh", "Exp", "Log", "Sqrt", "SiLU", "Softplus",
   "Sin", "Cos", "Clamp", "Softmax", "LogSoftmax", "Transpose", "Reshape", "Slice", "Cumsum",
   "Flip", "MaxPool2d", "AvgPool2d", "NearestUpsample2d", "Refuse"}
Binary ==
  {"Add", "Sub", "Mul", "Div", "LessEqual", "MatMul", "BroadcastAdd", "DftReal", "DftImag"}
Ternary == {"Where", "Conv2d", "DepthwiseConv2d", "GroupNorm"}

(* validate_cpu: there is no kernel for these on a CUDA device.            *)
CpuOnly ==
  {"Sin", "Cos", "Clamp", "Transpose", "Cumsum", "DepthwiseConv2d", "AvgPool2d",
   "NearestUpsample2d", "GroupNorm"}

(* validate_binary and validate_cpu; DFT checks its pair likewise.         *)
DevicesOK(s, devices) ==
  /\ \A i \in DOMAIN devices : devices[i] = devices[1]
  /\ s.op \in CpuOnly => devices[1] = "cpu"

SameShapes(x) == \A i \in DOMAIN x : x[i].shape = x[1].shape

(* What conv2d and depthwise_conv2d ask of the weight and the bias, given  *)
(* the dimension of the weight that the channels of the input must match.  *)
(* The extents of the window are the last two of the weight.               *)
FilterOK(x, rank, channels, f) ==
  /\ Len(x[1].shape) = 4 /\ Len(x[2].shape) = rank
  /\ f.kH = x[2].shape[rank - 1] /\ f.kW = x[2].shape[rank]
  /\ x[1].shape[2] = x[2].shape[channels]
  /\ ConvGeometryOK(x[1].shape[3], x[1].shape[4], f)
  /\ x[3].shape = <<x[2].shape[1]>>

PoolOK(x, f) ==
  /\ Len(x[1].shape) = 4
  /\ PoolGeometryOK(x[1].shape[3], x[1].shape[4], f)
  /\ ExtentOK(x[1].shape[3], f.kH, f) /\ ExtentOK(x[1].shape[4], f.kW, f)

(* The checks of the operation and of the kernel it calls.                 *)
Accepts(s, x) ==
  LET w == s.with sh == x[1].shape r == Len(sh)
  IN CASE s.op \in {"Add", "Sub", "Mul", "Div", "LessEqual", "Where"} -> SameShapes(x)
       [] s.op = "MatMul" -> MatMulOK(sh, x[2].shape)
       [] s.op = "BroadcastAdd" -> BroadcastOK(sh, x[2].shape)
       [] s.op = "SumAxes" -> AxesOK(w.axes, r)
       [] s.op \in {"Softmax", "LogSoftmax", "Flip", "Cumsum"} -> AxisOK(w.axis, r)
       [] s.op = "Transpose" -> AxisOK(w.axis, r) /\ AxisOK(w.axis1, r)
       [] s.op = "Reshape" -> Numel(w.shape) = Numel(sh)
       [] s.op = "Concat" -> AxisOK(w.axis, r) /\ ConcatOK([i \in DOMAIN x |-> x[i].shape], Axis(w.axis, r))
       [] s.op = "Slice" -> AxisOK(w.axis, r) /\ SliceOK(sh, Axis(w.axis, r), w.start, w.len)
       [] s.op = "Clamp" -> w.lo \preceq w.hi
       [] s.op = "Conv2d" -> FilterOK(x, 4, 2, w)
       [] s.op = "DepthwiseConv2d" -> FilterOK(x, 3, 1, w)
       [] s.op \in {"MaxPool2d", "AvgPool2d"} -> PoolOK(x, w)
       [] s.op = "NearestUpsample2d" -> r = 4 /\ w.scale >= 1
       [] s.op = "GroupNorm" ->
            IsFinite(w.eps) /\ Zero \prec w.eps /\ GroupNormOK(sh, x[2], x[3], w.groups)
       [] s.op \in {"DftReal", "DftImag"} -> DFT2OK(x[1], x[2])
       [] s.op = "Refuse" -> FALSE
       [] OTHER -> TRUE

-----------------------------------------------------------------------------
(* What an operation computes: its result, and the tensors its node keeps  *)
(* copies of for backward.                                                 *)

Computed(out, saved) == [out |-> out, saved |-> saved]
KeepsResult(out) == Computed(out, <<out>>)
Member(t, i) == Map(t, LAMBDA e : e[i])
Reshaped(t, sh) == [shape |-> sh, data |-> t.data]
ComputedPair(pairs, saved) == Computed(Member(pairs, 1), Append(saved, Member(pairs, 2)))

Arithmetic(s, x) ==
  CASE s.op = "Add" -> Computed(Add(x[1], x[2]), <<>>)
    [] s.op = "Sub" -> Computed(Sub(x[1], x[2]), <<>>)
    [] s.op = "Mul" -> Computed(Mul(x[1], x[2]), x)
    [] s.op = "Div" -> Computed(Div(x[1], x[2]), x)
    [] s.op = "LessEqual" -> Computed(LessEqual(x[1], x[2]), <<>>)
    [] s.op = "Where" -> Computed(Where(x[1], x[2], x[3]), <<x[1]>>)
    [] s.op = "Scale" -> Computed(Scale(x[1], s.with.scalar), <<>>)
    [] s.op = "Sum" -> Computed(BroadcastScalar(Sum(x[1]), <<>>), <<>>)
    [] s.op = "SumAxes" ->
         Computed(SumAxes(x[1], Axes(s.with.axes, Len(x[1].shape)), s.with.keep), <<>>)
    [] s.op = "MatMul" -> Computed(MatMul(x[1], x[2]), x)
    [] s.op = "BroadcastAdd" -> Computed(BroadcastAdd(x[1], x[2]), <<>>)

Activation(s, x) ==
  CASE s.op = "ReLU" -> Computed(Relu(x[1]), x)
    [] s.op = "Sigmoid" -> KeepsResult(Sigmoid(x[1]))
    [] s.op = "Tanh" -> KeepsResult(TanhForward(x[1]))
    [] s.op = "Exp" -> KeepsResult(ExpForward(x[1]))
    [] s.op = "Log" -> Computed(Log(x[1]), x)
    [] s.op = "Sqrt" -> KeepsResult(SqrtForward(x[1]))
    [] s.op = "SiLU" -> ComputedPair(Silu(x[1]), <<x[1]>>)
    [] s.op = "Softplus" -> Computed(Softplus(x[1]), x)
    [] s.op = "Sin" -> Computed(SinForward(x[1]), x)
    [] s.op = "Cos" -> Computed(CosForward(x[1]), x)
    [] s.op = "Clamp" -> Computed(Clamp(x[1], s.with.lo, s.with.hi), x)

(* What Concat keeps is not copied: see Borrows in OperationGraph.         *)
Layout(s, x) ==
  LET w == s.with ax == Axis(w.axis, Len(x[1].shape))
  IN CASE s.op = "Softmax" -> KeepsResult(Softmax(x[1], ax))
       [] s.op = "LogSoftmax" -> KeepsResult(LogSoftmax(x[1], ax))
       [] s.op = "Transpose" -> Computed(Transpose(x[1], ax, Axis(w.axis1, Len(x[1].shape))), x)
       [] s.op = "Reshape" -> Computed(Reshaped(x[1], w.shape), x)
       [] s.op = "Concat" -> Computed(Concat(x, ax), <<>>)
       [] s.op = "Slice" -> Computed(Slice(x[1], ax, w.start, w.len), x)
       [] s.op = "Cumsum" -> Computed(Cumsum(x[1], ax), <<>>)
       [] s.op = "Flip" -> Computed(Flip(x[1], ax), <<>>)

(* The node of a convolution keeps the padding as a float, exact for every *)
(* padding below 2^24: it is the integer here.                             *)
Windowed(s, x) ==
  CASE s.op = "Conv2d" ->
         Computed(Conv2d(x[1], x[2], x[3], s.with), <<Im2col(x[1], s.with), x[2]>>)
    [] s.op = "DepthwiseConv2d" ->
         Computed(Depthwise(x[1], x[2], x[3], s.with), <<Im2col(x[1], s.with), x[2]>>)
    [] s.op = "MaxPool2d" ->
         ComputedPair(MaxPool(x[1], s.with), <<>>)
    [] s.op = "AvgPool2d" -> Computed(AvgPool(x[1], s.with), <<>>)
    [] s.op = "NearestUpsample2d" -> Computed(Upsample(x[1], s.with.scale), <<>>)

(* With the weight gamma of the moment.                                    *)
Normalised(s, x) ==
  LET Parts(all) == Computed(Member(all, 1), <<Member(all, 2), Member(all, 3), x[2]>>)
  IN Parts(GroupNorm(x[1], x[2], x[3], s.with.groups, s.with.eps))

(* The inverse transform scales.                                           *)
Transformed(s, x) ==
  Computed(Member(DFT2(x[1], x[2], s.with.inverse, s.with.inverse), IF s.op = "DftReal" THEN 1 ELSE 2),
           <<>>)

Compute(s, x) ==
  CASE s.op \in {"Add", "Sub", "Mul", "Div", "LessEqual", "Where", "Scale", "Sum", "SumAxes",
                 "MatMul", "BroadcastAdd"} -> Arithmetic(s, x)
    [] s.op \in {"ReLU", "Sigmoid", "Tanh", "Exp", "Log", "Sqrt", "SiLU", "Softplus", "Sin",
                 "Cos", "Clamp"} -> Activation(s, x)
    [] s.op \in {"Softmax", "LogSoftmax", "Transpose", "Reshape", "Concat", "Slice", "Cumsum",
                 "Flip"} -> Layout(s, x)
    [] s.op = "GroupNorm" -> Normalised(s, x)
    [] s.op \in {"DftReal", "DftImag"} -> Transformed(s, x)
    [] OTHER -> Windowed(s, x)

-----------------------------------------------------------------------------
(* backward_step: the gradients of the operands from the gradient g of the *)
(* result, the saved tensors v, and the shapes sh of the operands.         *)

(* fft_impl_variables and where: the gradient without the other component. *)
ZerosLike(g) == Map(g, LAMBDA e : Zero)
DftBackward(re, im, inverse) ==
  LET Parts(both) == <<Member(both, 1), Member(both, 2)>>
  IN Parts(DFT2(re, im, ~inverse, inverse))
WhereBackward(g, condition) ==
  <<ZerosLike(g), Where(condition, g, ZerosLike(g)), Where(condition, ZerosLike(g), g)>>

(* Windows and groups.                                                     *)
WindowBackward(s, g, v, sh) ==
  LET w == s.with
  IN CASE s.op = "Conv2d" ->
            <<ConvBackwardInput(g, v[2], sh[1], w), ConvBackwardWeight(g, v[1], v[2].shape),
              ConvBackwardBias(g)>>
       [] s.op = "DepthwiseConv2d" ->
            <<DepthwiseBackwardInput(g, v[2], sh[1], w), DepthwiseBackwardWeight(g, v[1], w),
              DepthwiseBackwardBias(g)>>
       [] s.op = "MaxPool2d" -> <<MaxPoolBackward(g, v[1], sh[1], w)>>
       [] s.op = "AvgPool2d" -> <<AvgPoolBackward(g, sh[1], w)>>
       [] s.op = "NearestUpsample2d" -> <<UpsampleBackward(g, sh[1], w.scale)>>
       [] s.op = "GroupNorm" ->
            <<GroupNormBackwardInput(g, v[1], v[2], v[3], w.groups),
              GroupNormBackwardWeight(g, v[1]), GroupNormBackwardBias(g)>>
       [] s.op = "Where" -> WhereBackward(g, v[1])
       [] s.op = "DftReal" -> DftBackward(g, ZerosLike(g), w.inverse)
       [] s.op = "DftImag" -> DftBackward(ZerosLike(g), g, w.inverse)

(* A slice is scattered into the shape of what was saved; the part of an   *)
(* operand of Concat has the shape of the saved operand, and so on.        *)
Backward(s, g, v, sh) ==
  LET w == s.with r == Len(g.shape)
  IN CASE s.op = "Add" -> <<g, g>>
       [] s.op = "Sub" -> <<g, SubBackwardB(g)>>
       [] s.op = "Mul" -> <<Mul(g, v[2]), Mul(g, v[1])>>
       [] s.op = "Div" -> <<DivBackwardA(g, v[2]), DivBackwardB(g, v[1], v[2])>>
       [] s.op = "Scale" -> <<Scale(g, w.scalar)>>
       [] s.op = "Sum" -> <<BroadcastScalar(g.data[0], sh[1])>>
       [] s.op = "SumAxes" -> <<SumAxesBackward(g, sh[1], Axes(w.axes, Len(sh[1])), w.keep)>>
       [] s.op = "MatMul" -> <<MatMulBackwardA(g, v[2]), MatMulBackwardB(v[1], g)>>
       [] s.op = "BroadcastAdd" -> <<BroadcastAddBackward(g, sh[1]), BroadcastAddBackward(g, sh[2])>>
       [] s.op = "ReLU" -> <<ReluBackward(g, v[1])>>
       [] s.op = "Sigmoid" -> <<SigmoidBackward(g, v[1])>>
       [] s.op = "Tanh" -> <<TanhBackward(g, v[1])>>
       [] s.op = "Exp" -> <<ExpBackward(g, v[1])>>
       [] s.op = "Log" -> <<LogBackward(g, v[1])>>
       [] s.op = "Sqrt" -> <<SqrtBackward(g, v[1])>>
       [] s.op = "SiLU" -> <<SiluBackward(g, v[1], v[2])>>
       [] s.op = "Softplus" -> <<SoftplusBackward(g, v[1])>>
       [] s.op = "Sin" -> <<SinBackward(g, v[1])>>
       [] s.op = "Cos" -> <<CosBackward(g, v[1])>>
       [] s.op = "Clamp" -> <<ClampBackward(g, v[1], w.lo, w.hi)>>
       [] s.op = "Softmax" -> <<SoftmaxBackward(g, v[1], Axis(w.axis, r))>>
       [] s.op = "LogSoftmax" -> <<LogSoftmaxBackward(g, v[1], Axis(w.axis, r))>>
       [] s.op = "Transpose" -> <<Transpose(g, Axis(w.axis, r), Axis(w.axis1, r))>>
       [] s.op = "Reshape" -> <<Reshaped(g, v[1].shape)>>
       [] s.op = "Concat" -> ConcatBackward(g, [i \in DOMAIN v |-> v[i].shape], Axis(w.axis, r))
       [] s.op = "Slice" -> <<SliceBackward(g, v[1].shape, Axis(w.axis, r), w.start, w.len)>>
       [] s.op = "Cumsum" -> <<CumsumBackward(g, Axis(w.axis, r))>>
       [] s.op = "Flip" -> <<Flip(g, Axis(w.axis, r))>>
       [] OTHER -> WindowBackward(s, g, v, sh)
=============================================================================
