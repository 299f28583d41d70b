---------------------------- MODULE MCOperations ----------------------------
(***************************************************************************)
(* Programs on small tensors: every operation alone, the compositions and  *)
(* layers, and operands that have to be refused.                           *)
(***************************************************************************)
EXTENDS OperationGraph, Layers, TLC

Ramp(sh, first) == [shape |-> sh, data |-> Strict([k \in Cells(sh) |-> Num(first + k)])]
Of(sh, ns) == [shape |-> sh, data |-> Strict([k \in Cells(sh) |-> Num(ns[k + 1])])]
Vector(ns) == Of(<<Len(ns)>>, ns)

Trained(t) == [value |-> t, requires_grad |-> TRUE, device |-> "cpu"]
Fixed(t) == [Trained(t) EXCEPT !.requires_grad = FALSE]
OnCuda(leaf) == [leaf EXCEPT !.device = "cuda"]

Program(ls, ss) == [leaves |-> ls, statements |-> ss, legal |-> TRUE, undoes |-> 0]
Undoing(p, leaf) == [p EXCEPT !.undoes = leaf]
Illegal(ls, ss) == [leaves |-> ls, statements |-> ss, legal |-> FALSE, undoes |-> 0]

m23 == Trained(Ramp(<<2, 3>>, 1))
m32 == Trained(Ramp(<<3, 2>>, -2))
m22 == Trained(Ramp(<<2, 2>>, 1))
n22 == Trained(Ramp(<<2, 2>>, -3))
v4 == Trained(Vector(<<-1, 0, 1, 2>>))
w4 == Trained(Vector(<<1, 2, 4, -1>>))
p4 == Trained(Vector(<<1, 2, 4, 8>>))
rows == Trained(Of(<<2, 3>>, <<1, 0, 0, -1, -2, -2>>))
none == Trained(Ramp(<<2, 0>>, 1))

One1(op, a) == Program(<<a>>, <<Op(op, <<1>>)>>)
With1(op, a, w) == Program(<<a>>, <<OpWith(op, <<1>>, w)>>)
One2(op, a, b) == Program(<<a, b>>, <<Op(op, <<1, 2>>)>>)
Twice1(op, a, w) == Undoing(Program(<<a>>, <<OpWith(op, <<1>>, w), OpWith(op, <<2>>, w)>>), 1)
-----------------------------------------------------------------------------

ArithmeticPrograms ==
  [add |-> One2("Add", v4, w4), sub |-> One2("Sub", v4, w4), mul |-> One2("Mul", v4, w4),
   div |-> One2("Div", v4, w4), div_fixed |-> One2("Div", Fixed(v4.value), w4),
   add_twice |-> Program(<<v4>>, <<Op("Add", <<1, 1>>)>>),
   square |-> Program(<<v4>>, <<Op("Mul", <<1, 1>>), Op("Mul", <<2, 1>>)>>),
   scale |-> With1("Scale", v4, [scalar |-> Frac(-3, 2)]),
   less_equal |-> One2("LessEqual", v4, w4),
   where |-> Program(<<v4, w4>>, <<Op("LessEqual", <<1, 2>>), Op("Where", <<3, 2, 1>>)>>),
   sum |-> One1("Sum", m23),
   sum_axes |-> With1("SumAxes", m23, [axes |-> <<-1>>, keep |-> FALSE]),
   sum_axes_keep |-> With1("SumAxes", m23, [axes |-> <<0>>, keep |-> TRUE]),
   sum_axes_both |-> With1("SumAxes", m23, [axes |-> <<1, -2>>, keep |-> FALSE]),
   mean |-> Program(<<m23>>, Mean(1, <<2, 3>>, 2)),
   mean_same |-> Undoing(Program(<<Fixed(Of(<<2, 3>>, <<0, 0, 0, 0, 0, 0>>)), Trained(Ramp(<<>>, 5))>>,
                                 <<Op("BroadcastAdd", <<1, 2>>)>> \o Mean(3, <<2, 3>>, 4)), 2),
   mean_none |-> Program(<<none>>, Mean(1, <<2, 0>>, 2)),
   mean_axes |-> Program(<<m23>>, MeanAxes(1, <<2, 3>>, <<-1>>, TRUE, 2)),
   matmul |-> One2("MatMul", m23, m32),
   matmul_batch |-> One2("MatMul", Trained(Ramp(<<2, 1, 2>>, 1)), Trained(Ramp(<<2, 2, 1>>, -1))),
   broadcast |-> One2("BroadcastAdd", m23, Trained(Ramp(<<1, 3>>, 4))),
   broadcast_rank |-> One2("BroadcastAdd", Trained(Ramp(<<2, 1>>, 1)), Trained(Ramp(<<3>>, 4)))]

ActivationPrograms ==
  [relu |-> One1("ReLU", v4), sigmoid |-> One1("Sigmoid", v4), tanh |-> One1("Tanh", v4),
   exp |-> One1("Exp", v4), log |-> One1("Log", p4),
   sqrt |-> One1("Sqrt", Trained(Vector(<<1, 4, 9, 16>>))),
   silu |-> One1("SiLU", v4), softplus |-> One1("Softplus", v4),
   sin |-> One1("Sin", v4), cos |-> One1("Cos", v4),
   clamp |-> With1("Clamp", v4, [lo |-> Num(0), hi |-> Num(1)]),
   exp_log |-> Undoing(Program(<<v4>>, <<Op("Exp", <<1>>), Op("Log", <<2>>)>>), 1),
   softmax |-> With1("Softmax", rows, [axis |-> -1]),
   softmax_outer |-> With1("Softmax", Trained(Transpose(rows.value, 1, 2)), [axis |-> 0]),
   log_softmax |-> With1("LogSoftmax", rows, [axis |-> 1]),
   log_softmax_outer |-> With1("LogSoftmax", Trained(Transpose(rows.value, 1, 2)), [axis |-> -2])]

LayoutPrograms ==
  [transpose |-> Program(<<m23>>, TransposeLast(1, <<2, 3>>)),
   transpose_twice |-> Twice1("Transpose", m23, [axis |-> -1, axis1 |-> 0]),
   flip_twice |-> Twice1("Flip", m23, [axis |-> -1]),
   flip |-> With1("Flip", m23, [axis |-> 0]),
   cumsum |-> With1("Cumsum", m23, [axis |-> -1]),
   cumsum_outer |-> With1("Cumsum", m23, [axis |-> 0]),
   reshape |-> Program(<<m23>>, <<OpWith("Reshape", <<1>>, [shape |-> <<3, 2>>]), Op("Mul", <<2, 2>>)>>),
   reshape_back |-> Undoing(Program(<<m23>>, <<OpWith("Reshape", <<1>>, [shape |-> <<6>>]),
                                               OpWith("Reshape", <<2>>, [shape |-> <<2, 3>>])>>), 1),
   concat |-> Program(<<m22, n22>>, <<OpWith("Concat", <<1, 2, 1>>, [axis |-> 0])>>),
   hcat |-> Program(<<m22, Trained(Ramp(<<2, 1>>, 7))>>, HCat(<<1, 2>>, <<2, 2>>)),
   slice |-> With1("Slice", m23, [axis |-> -1, start |-> 1, len |-> 2]),
   row_slice |-> Program(<<m32>>, <<SliceOf(1, 0, 1, 1)>>),
   split |-> Undoing(Program(<<m22>>, Split(1, <<2, 2>>, -1, "cpu") \o HCat(<<2, 3>>, <<2, 1>>)), 1)]

Window(kH, kW, stride, pad) == [kH |-> kH, kW |-> kW, stride |-> stride, pad |-> pad]
Image(H, W) == Trained(Ramp(<<1, 1, H, W>>, 1))
ties == Trained(Of(<<1, 1, 2, 3>>, <<5, 5, 1, 7, 5, 7>>))
groups4 == Trained(Of(<<1, 2, 1, 2>>, <<1, 7, 8, 2>>))

WindowPrograms ==
  [conv |-> Program(<<Image(2, 3), Trained(Ramp(<<1, 1, 2, 2>>, -1)), Trained(Ramp(<<1>>, 1))>>,
                    <<OpWith("Conv2d", <<1, 2, 3>>, Window(2, 2, 1, 0))>>),
   conv_padded |-> Program(<<Image(2, 2), Trained(Ramp(<<2, 1, 2, 2>>, -1)), Trained(Ramp(<<2>>, 1))>>,
                           <<OpWith("Conv2d", <<1, 2, 3>>, Window(2, 2, 2, 1))>>),
   depthwise |-> Program(<<Trained(Ramp(<<1, 2, 2, 2>>, 1)), Trained(Ramp(<<2, 2, 2>>, -1)), Trained(Ramp(<<2>>, 1))>>,
                         <<OpWith("DepthwiseConv2d", <<1, 2, 3>>, Window(2, 2, 2, 1))>>),
   max_pool |-> With1("MaxPool2d", ties, Window(2, 2, 1, 0)),
   avg_pool |-> With1("AvgPool2d", Image(2, 3), Window(2, 2, 1, 0)),
   upsample |-> With1("NearestUpsample2d", Image(1, 2), [scale |-> 2]),
   group_norm |-> Program(<<groups4, Trained(Vector(<<2, -1>>)), Trained(Vector(<<1, 3>>))>>,
                    <<OpWith("GroupNorm", <<1, 2, 3>>, [groups |-> 2, eps |-> Num(16)])>>)]

fixed4 == Fixed(Vector(<<1, 0, -2, 3>>))

Compositions ==
  [fft |-> Program(<<m22, n22>>, FFT2(<<1, 2>>) \o Abs2(<<3, 4>>, 5)),
   fft_back |-> Undoing(Program(<<m22, n22>>, FFT2(<<1, 2>>) \o IFFT2(<<3, 4>>)), 2),
   ifft |-> Program(<<Trained(Ramp(<<1, 4>>, 1)), Trained(Ramp(<<1, 4>>, -2))>>, IFFT2(<<1, 2>>) \o Abs2(<<3, 4>>, 5)),
   complex_mul |-> Program(<<m22, n22>>, Conj(<<1, 2>>) \o ComplexMul(<<1, 2>>, <<1, 3>>, 4)
                                            \o ComplexScale(<<8, 9>>, Num(3)) \o Abs2(<<10, 11>>, 12)),
   mse |-> Program(<<w4, fixed4>>, MseLoss(1, 2, <<4>>, 3)),
   mse_none |-> Program(<<none, Fixed(none.value)>>, MseLoss(1, 2, <<2, 0>>, 3)),
   cross_entropy |-> Program(<<rows, Fixed(Of(<<2, 3>>, <<1, 0, 0, 0, 0, 1>>))>>, CrossEntropy(1, 2, <<2, 3>>, 3)),
   q_sample |-> Program(<<v4, fixed4>>, QSample(1, 2, Frac(3, 5), Frac(4, 5), "cpu", 3))]
-----------------------------------------------------------------------------

(* Layers.                                                                 *)
linear == [kind |-> "Linear", in |-> 3, out |-> 2]
relu == [kind |-> "ReLU"]
conv == [kind |-> "Conv2d", in |-> 1, out |-> 1, kH |-> 2, kW |-> 2, stride |-> 1, pad |-> 0]
depthwise == [kind |-> "DepthwiseConv2d", channels |-> 1, kH |-> 1, kW |-> 2, stride |-> 1, pad |-> 0]
pool == [kind |-> "MaxPool2d", kH |-> 2, kW |-> 1, stride |-> -1]
mean_pool == [kind |-> "AvgPool2d", kH |-> 1, kW |-> 2, stride |-> -1]
upsample == [kind |-> "NearestUpsample2d", scale |-> 2]
norm == [kind |-> "GroupNorm", groups |-> 1, channels |-> 1, eps |-> Num(16)]

(* The input is node 1; then the parameters.                               *)
Stack(layers, input) ==
  LET shapes == SequentialParameters(layers)
  IN [leaves |-> <<input>> \o [i \in DOMAIN shapes |-> Trained(Ramp(shapes[i], i - 3))],
      statements |-> SequentialForward(layers, 1, 2, Len(shapes) + 2)]
Runs(stack) == Program(stack.leaves, stack.statements)
Refused(stack) == Illegal(stack.leaves, stack.statements)

LayerPrograms ==
  [perceptron |-> Runs(Stack(<<linear, relu, [linear EXCEPT !.in = 2, !.out = 1]>>, Fixed(m23.value))),
   cnn |-> Runs(Stack(<<conv, relu, [pool EXCEPT !.kH = 1]>>, Fixed(Ramp(<<1, 1, 2, 3>>, 1)))),
   blocks |-> Runs(Stack(<<depthwise, upsample, [pool EXCEPT !.kW = 2], [mean_pool EXCEPT !.kW = 1]>>, Image(1, 2))),
   normalised |-> Runs(Stack(<<norm>>, Trained(Of(<<1, 1, 1, 2>>, <<1, 7>>))))]

scalar == Trained(Ramp(<<>>, 1))

IllegalPrograms ==
  [add_shapes |-> Illegal(<<m23, m32>>, <<Op("Add", <<1, 2>>)>>),
   add_devices |-> Illegal(<<v4, OnCuda(w4)>>, <<Op("Add", <<1, 2>>)>>),
   sin_cuda |-> Illegal(<<OnCuda(v4)>>, <<Op("Sin", <<1>>)>>),
   split_cuda |-> Illegal(<<OnCuda(m22)>>, Split(1, <<2, 2>>, 0, "cuda")),
   split_odd |-> Illegal(<<m23>>, Split(1, <<2, 3>>, -1, "cpu")),
   matmul_inner |-> Illegal(<<m23, m23>>, <<Op("MatMul", <<1, 2>>)>>),
   matmul_vector |-> Illegal(<<v4, v4>>, <<Op("MatMul", <<1, 2>>)>>),
   broadcast_shapes |-> Illegal(<<m23, v4>>, <<Op("BroadcastAdd", <<1, 2>>)>>),
   sum_axis_twice |-> Illegal(<<m23>>, <<OpWith("SumAxes", <<1>>, [axes |-> <<1, -1>>, keep |-> FALSE])>>),
   mean_axis |-> Illegal(<<m23>>, MeanAxes(1, <<2, 3>>, <<2>>, FALSE, 2)),
   softmax_number |-> Illegal(<<scalar>>, <<OpWith("Softmax", <<1>>, [axis |-> -1])>>),
   transpose_vector |-> Illegal(<<v4>>, TransposeLast(1, <<4>>)),
   reshape_count |-> Illegal(<<m23>>, <<OpWith("Reshape", <<1>>, [shape |-> <<2, 2>>])>>),
   concat_shapes |-> Illegal(<<m23, m22>>, <<OpWith("Concat", <<1, 2>>, [axis |-> 0])>>),
   slice_past |-> Illegal(<<m23>>, <<SliceOf(1, 1, 2, 2)>>),
   slice_empty |-> Illegal(<<m23>>, <<SliceOf(1, 1, 0, 0)>>),
   clamp_bounds |-> Illegal(<<v4>>, <<OpWith("Clamp", <<1>>, [lo |-> Num(1), hi |-> Num(0)])>>),
   conv_stride |-> Illegal(<<Image(2, 3), Trained(Ramp(<<1, 1, 2, 2>>, 1)), Trained(Ramp(<<1>>, 1))>>,
                           <<OpWith("Conv2d", <<1, 2, 3>>, Window(2, 2, 2, 0))>>),
   conv_channels |-> Illegal(<<Image(2, 2), Trained(Ramp(<<1, 2, 1, 1>>, 1)), Trained(Ramp(<<1>>, 1))>>,
                             <<OpWith("Conv2d", <<1, 2, 3>>, Window(1, 1, 1, 0))>>),
   conv_bias |-> Illegal(<<Image(2, 2), Trained(Ramp(<<1, 1, 1, 1>>, 1)), Trained(Ramp(<<1, 1>>, 1))>>,
                         <<OpWith("Conv2d", <<1, 2, 3>>, Window(1, 1, 1, 0))>>),
   pool_uneven |-> Illegal(<<Image(3, 2)>>, <<OpWith("MaxPool2d", <<1>>, Window(2, 2, 2, 0))>>),
   pool_large |-> Illegal(<<Image(1, 2)>>, <<OpWith("AvgPool2d", <<1>>, Window(2, 2, 1, 0))>>),
   upsample_scale |-> Illegal(<<Image(1, 2)>>, <<OpWith("NearestUpsample2d", <<1>>, [scale |-> 0])>>),
   norm_groups |-> Illegal(<<groups4, Trained(Vector(<<2, -1>>)), Trained(Vector(<<1, 3>>))>>,
                           <<OpWith("GroupNorm", <<1, 2, 3>>, [groups |-> 3, eps |-> One])>>),
   norm_infinite |-> Illegal(<<groups4, Trained(Vector(<<2, -1>>)), Trained(Vector(<<1, 3>>))>>,
                             <<OpWith("GroupNorm", <<1, 2, 3>>, [groups |-> 2, eps |-> Infinity])>>),
   fft_vector |-> Illegal(<<v4, v4>>, FFT2(<<1, 2>>)),
   fft_none |-> Illegal(<<none, none>>, FFT2(<<1, 2>>)),
   cross_entropy_none |-> Illegal(<<none, Fixed(none.value)>>, CrossEntropy(1, 2, <<2, 0>>, 3)),
   q_sample_infinite |-> Illegal(<<v4, fixed4>>, QSample(1, 2, Infinity, One, "cpu", 3)),
   conv_layer |-> Refused(Stack(<<relu, [conv EXCEPT !.stride = 0]>>, Image(2, 2))),
   pool_layer |-> Refused(Stack(<<[pool EXCEPT !.stride = 0]>>, Image(2, 2))),
   norm_layer |-> Refused(Stack(<<[norm EXCEPT !.groups = 2]>>, Image(2, 2))),
   linear_input |-> Refused(Stack(<<linear>>, m22))]

MCPrograms ==
  ArithmeticPrograms @@ ActivationPrograms @@ LayoutPrograms @@ WindowPrograms @@ Compositions
    @@ LayerPrograms @@ IllegalPrograms

(* What is declared legal is what passes the checks on shapes and devices. *)
ASSUME LegalInstance == LegalByShape
=============================================================================
