------------------------------- MODULE Layers -------------------------------
(***************************************************************************)
(* The operations that are compositions of others, the layers of           *)
(* module.cpp and their composition in a Sequential: each is the sequence  *)
(* of statements it applies.  Nodes are numbered; the first new one is at. *)
(* sh is the shape of the operand a.                                       *)
(***************************************************************************)
EXTENDS Operations

ScaleBy(a, scalar) == OpWith("Scale", <<a>>, [scalar |-> scalar])

(* Mutated: the sum is divided by the rows.                                *)
MeanOfRows(a, sh, at) == <<Op("Sum", <<a>>), ScaleBy(at, Frac(1, sh[1]))>>

Mean(a, sh, at) ==
  IF Numel(sh) = 0 THEN <<Op("Sum", <<a>>)>>
  ELSE <<Op("Sum", <<a>>), ScaleBy(at, Frac(1, Numel(sh)))>>

MeanAxes(a, sh, axes, keep, at) ==
  IF ~AxesOK(axes, Len(sh)) THEN <<Refusal>>
  ELSE LET n == Numel([j \in DOMAIN axes |-> sh[Axis(axes[j], Len(sh))]])
           sums == OpWith("SumAxes", <<a>>, [axes |-> axes, keep |-> keep])
       IN IF n = 0 THEN <<sums>> ELSE <<sums, ScaleBy(at, Frac(1, n))>>

TransposeLast(a, sh) ==
  IF Len(sh) < 2 THEN <<Refusal>>
  ELSE <<OpWith("Transpose", <<a>>, [axis |-> Len(sh) - 2, axis1 |-> Len(sh) - 1])>>

HCat(args, sh) == <<OpWith("Concat", args, [axis |-> Len(sh) - 1])>>

SliceOf(a, axis, start, len) ==
  OpWith("Slice", <<a>>, [axis |-> axis, start |-> start, len |-> len])

Split(a, sh, axis, device) ==
  IF device # "cpu" \/ ~AxisOK(axis, Len(sh)) \/ sh[Axis(axis, Len(sh))] % 2 # 0
  THEN <<Refusal>>
  ELSE LET ax == Axis(axis, Len(sh)) - 1 half == sh[ax + 1] \div 2
       IN <<SliceOf(a, ax, 0, half), SliceOf(a, ax, half, half)>>

-----------------------------------------------------------------------------
(* Complex variables <<real, imaginary>>; Conj keeps the real part.        *)

Conj(z) == <<ScaleBy(z[2], Num(-1))>>

ComplexMul(a, b, at) ==
  <<Op("Mul", <<a[1], b[1]>>), Op("Mul", <<a[2], b[2]>>), Op("Mul", <<a[1], b[2]>>),
    Op("Mul", <<a[2], b[1]>>), Op("Sub", <<at, at + 1>>), Op("Add", <<at + 2, at + 3>>)>>

ComplexScale(z, scalar) == <<ScaleBy(z[1], scalar), ScaleBy(z[2], scalar)>>

Abs2(z, at) ==
  <<Op("Mul", <<z[1], z[1]>>), Op("Mul", <<z[2], z[2]>>), Op("Add", <<at, at + 1>>)>>

FFT2(z) ==
  <<OpWith("DftReal", z, [inverse |-> FALSE]), OpWith("DftImag", z, [inverse |-> FALSE])>>
IFFT2(z) ==
  <<OpWith("DftReal", z, [inverse |-> TRUE]), OpWith("DftImag", z, [inverse |-> TRUE])>>

-----------------------------------------------------------------------------
(* Losses and the noising step of a diffusion.                             *)

MseLoss(pred, target, sh, at) ==
  <<Op("Sub", <<pred, target>>), Op("Mul", <<at, at>>)>> \o Mean(at + 1, sh, at + 2)

(* The classes are the last axis; the mean is over the samples.            *)
CrossEntropy(pred, target, sh, at) ==
  IF sh = <<>> \/ sh[Len(sh)] = 0 THEN <<Refusal>>
  ELSE LET samples == Numel(SubSeq(sh, 1, Len(sh) - 1))
       IN <<OpWith("LogSoftmax", <<pred>>, [axis |-> -1]), Op("Mul", <<at, target>>),
            Op("Sum", <<at + 1>>),
            ScaleBy(at + 2, IF samples = 0 THEN Num(-1) ELSE Frac(-1, samples))>>

QSample(x0, noise, sqrt_alpha_bar, sqrt_one_minus_alpha_bar, device, at) ==
  IF ~IsFinite(sqrt_alpha_bar) \/ ~IsFinite(sqrt_one_minus_alpha_bar) \/ device # "cpu"
  THEN <<Refusal>>
  ELSE <<ScaleBy(x0, sqrt_alpha_bar), ScaleBy(noise, sqrt_one_minus_alpha_bar),
         Op("Add", <<at, at + 1>>)>>

-----------------------------------------------------------------------------
(* Layers.  A layer has a kind and the arguments of its constructor.       *)

(* A negative stride of a pool stands for the height of its window.        *)
PoolStride(layer) == IF layer.stride < 0 THEN layer.kH ELSE layer.stride

LinearOK(layer) == layer.in > 0 /\ layer.out > 0
ConvOK(layer) ==
  /\ layer.in > 0 /\ layer.out > 0 /\ layer.kH > 0 /\ layer.kW > 0
  /\ layer.stride > 0 /\ layer.pad >= 0
DepthwiseOK(layer) ==
  layer.channels > 0 /\ layer.kH > 0 /\ layer.kW > 0 /\ layer.stride > 0 /\ layer.pad >= 0
PoolingOK(layer) == layer.kH > 0 /\ layer.kW > 0 /\ PoolStride(layer) > 0
NormOK(layer) ==
  /\ layer.groups > 0 /\ layer.channels > 0 /\ layer.channels % layer.groups = 0
  /\ IsFinite(layer.eps) /\ Zero \prec layer.eps

ConstructorOK(layer) ==
  CASE layer.kind = "Linear" -> LinearOK(layer)
    [] layer.kind = "Conv2d" -> ConvOK(layer)
    [] layer.kind = "DepthwiseConv2d" -> DepthwiseOK(layer)
    [] layer.kind \in {"MaxPool2d", "AvgPool2d"} -> PoolingOK(layer)
    [] layer.kind = "NearestUpsample2d" -> layer.scale >= 1
    [] layer.kind = "GroupNorm" -> NormOK(layer)
    [] OTHER -> TRUE

(* The shapes of the parameters, in the order of registration.             *)
Parameters(layer) ==
  CASE layer.kind = "Linear" -> <<<<layer.in, layer.out>>, <<1, layer.out>>>>
    [] layer.kind = "Conv2d" -> <<<<layer.out, layer.in, layer.kH, layer.kW>>, <<layer.out>>>>
    [] layer.kind = "DepthwiseConv2d" -> <<<<layer.channels, layer.kH, layer.kW>>, <<layer.channels>>>>
    [] layer.kind = "GroupNorm" -> <<<<layer.channels>>, <<layer.channels>>>>
    [] OTHER -> <<>>

WindowOf(layer) ==
  [kH |-> layer.kH, kW |-> layer.kW,
   stride |-> IF layer.kind \in {"MaxPool2d", "AvgPool2d"} THEN PoolStride(layer) ELSE layer.stride,
   pad |-> IF layer.kind \in {"MaxPool2d", "AvgPool2d"} THEN 0 ELSE layer.pad]

(* forward on node a, whose parameters are the nodes w and w + 1.  That    *)
(* the channels of the input are those of the layer is checked twice, the  *)
(* second time by the operation, against the weight.                       *)
LayerForward(layer, a, w, at) ==
  CASE ~ConstructorOK(layer) -> <<Refusal>>
    [] layer.kind = "Linear" -> <<Op("MatMul", <<a, w>>), Op("BroadcastAdd", <<at, w + 1>>)>>
    [] layer.kind = "ReLU" -> <<Op("ReLU", <<a>>)>>
    [] layer.kind \in {"Conv2d", "DepthwiseConv2d"} ->
         <<OpWith(layer.kind, <<a, w, w + 1>>, WindowOf(layer))>>
    [] layer.kind \in {"MaxPool2d", "AvgPool2d"} -> <<OpWith(layer.kind, <<a>>, WindowOf(layer))>>
    [] layer.kind = "NearestUpsample2d" -> <<OpWith(layer.kind, <<a>>, [scale |-> layer.scale])>>
    [] layer.kind = "GroupNorm" ->
         <<OpWith("GroupNorm", <<a, w, w + 1>>, [groups |-> layer.groups, eps |-> layer.eps])>>

(* The layers in order, each on the result of the one before; their        *)
(* parameters are the nodes from w on.                                     *)
SequentialForward(layers, a, w, at) ==
  LET first[k \in 1 .. Len(layers)] ==
        IF k = 1 THEN w ELSE first[k - 1] + Len(Parameters(layers[k - 1]))
      upTo[k \in 0 .. Len(layers)] ==
        IF k = 0 THEN <<>>
        ELSE upTo[k - 1] \o
               LayerForward(layers[k], IF upTo[k - 1] = <<>> THEN a ELSE at + Len(upTo[k - 1]) - 1,
                            first[k], at + Len(upTo[k - 1]))
  IN upTo[Len(layers)]

SequentialParameters(layers) ==
  LET upTo[k \in 0 .. Len(layers)] ==
        IF k = 0 THEN <<>> ELSE upTo[k - 1] \o Parameters(layers[k])
  IN upTo[Len(layers)]
=============================================================================
