--------------------------- MODULE CudaNnKernels ---------------------------
(***************************************************************************)
(* cuda/tensor_ops_nn.cu: convolution and max-pooling on a CUDA device.    *)
(* Each thread gathers the sum of one cell.  The cells of the column       *)
(* matrix a forward convolution saves are numbered -1, -2, ...             *)
(***************************************************************************)
EXTENDS CudaLaunch

(* Mutated: the stride need not divide the span.                           *)
SpatialFits(input, kernel, f) ==
  /\ input > 0 /\ kernel > 0 /\ f.stride > 0 /\ f.pad >= 0
  /\ input + 2 * f.pad - kernel >= 0

SpatialOK(input, kernel, f) ==
  /\ input > 0 /\ kernel > 0 /\ f.stride > 0 /\ f.pad >= 0
  /\ input + 2 * f.pad - kernel >= 0
  /\ (input + 2 * f.pad - kernel) % f.stride = 0
Spatial(input, kernel, f) == (input + 2 * f.pad - kernel) \div f.stride + 1

(* The coordinates of flat index i in (_, C, H, W).                        *)
Nchw(i, C, H, W) ==
  [n |-> i \div (C * H * W), c |-> (i \div (H * W)) % C, h |-> (i \div W) % H, w |-> i % W]
Flat(n, c, h, w, C, H, W) == ((n * C + c) * H + h) * W + w

Im2colKernel(x, f, oH, oW) ==
  LET C == x.shape[2] H == x.shape[3] W == x.shape[4]
      P == oH * oW K == C * f.kH * f.kW
  IN Scatter(x.shape[1] * K * P, LAMBDA i : -1 - i, LAMBDA i :
       LET k == Nchw((i \div P) % K, C, f.kH, f.kW)
           ih == ((i % P) \div oW) * f.stride + k.h - f.pad
           iw == (i % oW) * f.stride + k.w - f.pad
       IN IF ih >= 0 /\ ih < H /\ iw >= 0 /\ iw < W
          THEN x.data[Flat(i \div (P * K), k.c, ih, iw, C, H, W)] ELSE Zero)

ConvForwardKernel(x, weight, bias, f, oH, oW) ==
  LET C == x.shape[2] H == x.shape[3] W == x.shape[4] OC == weight.shape[1]
  IN Gather(x.shape[1] * OC * oH * oW, LAMBDA i :
       LET o == Nchw(i, OC, oH, oW)
       IN bias.data[o.c] ++ Total(C * f.kH * f.kW, LAMBDA k :
            LET r == Nchw(k, C, f.kH, f.kW)
                ih == o.h * f.stride + r.h - f.pad
                iw == o.w * f.stride + r.w - f.pad
            IN IF ih < 0 \/ ih >= H \/ iw < 0 \/ iw >= W THEN Zero
               ELSE x.data[Flat(o.n, r.c, ih, iw, C, H, W)]
                      ** weight.data[Flat(o.c, r.c, r.h, r.w, C, f.kH, f.kW)]))

CudaConv2d(x, weight, bias, f) ==
  LET oH == Spatial(x.shape[3], f.kH, f) oW == Spatial(x.shape[4], f.kW, f)
      saved == Im2colKernel(x, f, oH, oW)
      columns == IF saved.n > 0 THEN <<saved>> ELSE <<>>
  IN UnlessEmpty(Plan(<<x.shape[1], weight.shape[1], oH, oW>>, FALSE, 0,
       columns \o <<ConvForwardKernel(x, weight, bias, f, oH, oW)>>))

(* Which position of the window put kernel row k on the row at.            *)
Over(at, k, f, extent) ==
  {o \in 0 .. extent - 1 : at + f.pad - k >= 0 /\ (at + f.pad - k) % f.stride = 0
                             /\ o = (at + f.pad - k) \div f.stride}

ConvBackwardInputKernel(g, weight, sh, f) ==
  LET C == sh[2] OC == weight.shape[1] oH == g.shape[3] oW == g.shape[4]
  IN Gather(Numel(sh), LAMBDA i :
       LET at == Nchw(i, C, sh[3], sh[4])
       IN Total(OC * f.kH * f.kW, LAMBDA k :
            LET r == Nchw(k, OC, f.kH, f.kW)
                ohs == Over(at.h, r.h, f, oH) ows == Over(at.w, r.w, f, oW)
            IN IF ohs = {} \/ ows = {} THEN Zero
               ELSE weight.data[Flat(r.c, at.c, r.h, r.w, C, f.kH, f.kW)]
                      ** g.data[Flat(at.n, r.c, CHOOSE o \in ohs : TRUE, CHOOSE o \in ows : TRUE,
                                    OC, oH, oW)]))

CudaConvBackwardInput(g, weight, sh, f) ==
  UnlessEmpty(Plan(sh, FALSE, 0, <<ConvBackwardInputKernel(g, weight, sh, f)>>))

ConvBackwardWeightKernel(g, col, wsh) ==
  LET C == wsh[2] kH == wsh[3] kW == wsh[4] OC == wsh[1] oH == g.shape[3] oW == g.shape[4]
  IN Gather(Numel(wsh), LAMBDA i :
       LET k == Nchw(i, C, kH, kW)
       IN Total(col.shape[1] * oH * oW, LAMBDA j :
            LET q == Nchw(j, 1, oH, oW)
            IN col.data[Flat(q.n, k.c * kH * kW + k.h * kW + k.w, q.h, q.w, C * kH * kW, oH, oW)]
                 ** g.data[Flat(q.n, k.n, q.h, q.w, OC, oH, oW)]))

CudaConvBackwardWeight(g, col, wsh) ==
  UnlessEmpty(Plan(wsh, FALSE, 0, <<ConvBackwardWeightKernel(g, col, wsh)>>))

ConvBackwardBiasKernel(g) ==
  Gather(g.shape[2], LAMBDA oc :
    Total(g.shape[1] * g.shape[3] * g.shape[4], LAMBDA j :
      LET q == Nchw(j, 1, g.shape[3], g.shape[4])
      IN g.data[Flat(q.n, oc, q.h, q.w, g.shape[2], g.shape[3], g.shape[4])]))

CudaConvBackwardBias(g) ==
  UnlessEmpty(Plan(<<g.shape[2]>>, FALSE, 0, <<ConvBackwardBiasKernel(g)>>))

-----------------------------------------------------------------------------

(* The scan of a window from its first element: a later element wins when  *)
(* it is greater.                                                          *)
MaxPoolKernel(x, f, oH, oW) ==
  LET C == x.shape[2] H == x.shape[3] W == x.shape[4]
      Value(o, k) == x.data[Flat(o.n, o.c, o.h * f.stride + k \div f.kW,
                                 o.w * f.stride + (k % f.kW), C, H, W)]
      best[o \in [n : 0 .. x.shape[1] - 1, c : 0 .. C - 1, h : 0 .. oH - 1, w : 0 .. oW - 1],
           k \in 0 .. f.kH * f.kW - 1] ==
        IF k = 0 THEN <<Value(o, 0), 0>>
        ELSE IF best[o, k - 1][1] \prec Value(o, k) THEN <<Value(o, k), k>> ELSE best[o, k - 1]
  IN Gather(x.shape[1] * C * oH * oW, LAMBDA i : best[Nchw(i, C, oH, oW), f.kH * f.kW - 1])

CudaMaxPool(x, f) ==
  LET oH == Spatial(x.shape[3], f.kH, f) oW == Spatial(x.shape[4], f.kW, f)
  IN UnlessEmpty(Plan(<<x.shape[1], x.shape[2], oH, oW>>, FALSE, 0, <<MaxPoolKernel(x, f, oH, oW)>>))

MaxPoolBackwardKernel(g, mask, sh, f) ==
  LET C == sh[2] oH == g.shape[3] oW == g.shape[4]
  IN Gather(Numel(sh), LAMBDA i :
       LET at == Nchw(i, C, sh[3], sh[4])
       IN Total(oH * oW, LAMBDA q :
            LET kh == at.h - (q \div oW) * f.stride
                kw == at.w - (q % oW) * f.stride
                out_idx == Flat(at.n, at.c, q \div oW, q % oW, C, oH, oW)
            IN IF kh \in 0 .. f.kH - 1 /\ kw \in 0 .. f.kW - 1
                  /\ mask.data[out_idx] = kh * f.kW + kw
               THEN g.data[out_idx] ELSE Zero))

CudaMaxPoolBackward(g, mask, sh, f) ==
  UnlessEmpty(Plan(sh, FALSE, 0, <<MaxPoolBackwardKernel(g, mask, sh, f)>>))
=============================================================================
