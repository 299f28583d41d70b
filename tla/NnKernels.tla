----------------------------- MODULE NnKernels -----------------------------
(***************************************************************************)
(* Convolution, pooling and upsampling on the CPU: cpu/tensor_ops_nn.cpp   *)
(* and detail/tensor_kernels.h.  Tensors are (N, C, H, W); a geometry f    *)
(* has the extents kH, kW of the window, its stride and the padding.       *)
(* A column matrix has one row per element of the window in each channel   *)
(* and one column per position of the window.                              *)
(***************************************************************************)
EXTENDS TensorIndex

Span(input, kernel, f) == input + 2 * f.pad - kernel

(* validate_conv2d_geometry and validate_pool_geometry, then the check of  *)
(* the kernel itself.                                                      *)
ConvGeometryOK(H, W, f) ==
  /\ f.stride > 0 /\ f.pad >= 0 /\ f.kH > 0 /\ f.kW > 0
  /\ Span(H, f.kH, f) >= 0 /\ Span(W, f.kW, f) >= 0
  /\ Span(H, f.kH, f) % f.stride = 0 /\ Span(W, f.kW, f) % f.stride = 0

PoolGeometryOK(H, W, f) ==
  f.kH > 0 /\ f.kW > 0 /\ f.stride > 0 /\ H >= f.kH /\ W >= f.kW

ExtentOK(input, kernel, f) ==
  Span(input, kernel, f) >= 0 /\ Span(input, kernel, f) % f.stride = 0
Extent(input, kernel, f) == Span(input, kernel, f) \div f.stride + 1

OH(x, f) == Extent(x.shape[3], f.kH, f)
OW(x, f) == Extent(x.shape[4], f.kW, f)

(* The row of the image under row k of the window at position o.           *)
Under(o, k, f) == o * f.stride + k - f.pad

(* The rows and columns of a column matrix, taken apart.                   *)
Row(k, f) == [c |-> k \div (f.kH * f.kW), h |-> (k \div f.kW) % f.kH, w |-> k % f.kW]
Col(p, oW) == [h |-> p \div oW, w |-> p % oW]

Pixel(x, n, c, h, w) ==
  IF h \in 0 .. x.shape[3] - 1 /\ w \in 0 .. x.shape[4] - 1 THEN At(x, <<n, c, h, w>>) ELSE Zero

Im2col(x, f) ==
  Tensor(<<x.shape[1], x.shape[2] * f.kH * f.kW, OH(x, f) * OW(x, f)>>, LAMBDA i :
    LET r == Row(i[2], f) q == Col(i[3], OW(x, f))
    IN Pixel(x, i[1], r.c, Under(q.h, r.h, f), Under(q.w, r.w, f)))

(* Mutated: the last window to touch a pixel wins.                         *)
Col2imLast(col, sh, f) ==
  LET oW == Extent(sh[4], f.kW, f) window == f.kH * f.kW
      Hit(i, j) == LET r == Row(j % window, f) q == Col(j \div window, oW)
                   IN Under(q.h, r.h, f) = i[3] /\ Under(q.w, r.w, f) = i[4]
  IN Tensor(sh, LAMBDA i :
       LET hits == {j \in 0 .. window * col.shape[3] - 1 : Hit(i, j)}
       IN IF hits = {} THEN Zero
          ELSE LET j == CHOOSE j \in hits : \A k \in hits : k <= j
               IN At(col, <<i[1], i[2] * window + (j % window), j \div window>>))

(* Every element of the window adds to the pixel it lay on.                *)
Col2im(col, sh, f) ==
  LET oW == Extent(sh[4], f.kW, f) window == f.kH * f.kW
  IN Tensor(sh, LAMBDA i :
       Total(window * col.shape[3], LAMBDA j :
         LET r == Row(j % window, f) q == Col(j \div window, oW)
         IN IF Under(q.h, r.h, f) = i[3] /\ Under(q.w, r.w, f) = i[4]
            THEN At(col, <<i[1], i[2] * window + (j % window), j \div window>>) ELSE Zero))

-----------------------------------------------------------------------------
(* Convolution: weight (OC, C, kH, kW).                                    *)

Conv2d(x, weight, bias, f) ==
  LET col == Im2col(x, f)
  IN Tensor(<<x.shape[1], weight.shape[1], OH(x, f), OW(x, f)>>, LAMBDA i :
       bias.data[i[2]] ++ Total(col.shape[2], LAMBDA k :
         weight.data[i[2] * col.shape[2] + k] ** At(col, <<i[1], k, i[3] * OW(x, f) + i[4]>>)))

ConvBackwardInput(g, weight, sh, f) ==
  LET K == sh[2] * f.kH * f.kW oW == g.shape[4]
  IN Col2im(Tensor(<<sh[1], K, g.shape[3] * oW>>, LAMBDA i :
       Total(weight.shape[1], LAMBDA oc :
         At(g, <<i[1], oc, i[3] \div oW, i[3] % oW>>) ** weight.data[oc * K + i[2]])), sh, f)

ConvBackwardWeight(g, col, wsh) ==
  Tensor(wsh, LAMBDA i :
    Total(col.shape[1] * col.shape[3], LAMBDA j :
      LET n == j \div col.shape[3] p == j % col.shape[3]
      IN At(g, <<n, i[1], p \div g.shape[4], p % g.shape[4]>>)
           ** At(col, <<n, (i[2] * wsh[3] + i[3]) * wsh[4] + i[4], p>>)))

(* The sum over samples and positions, per channel.                        *)
ConvBackwardBias(g) ==
  LET P == g.shape[3] * g.shape[4]
  IN Tensor(<<g.shape[2]>>, LAMBDA i :
       Total(g.shape[1] * P, LAMBDA j : g.data[((j \div P) * g.shape[2] + i[1]) * P + (j % P)]))

-----------------------------------------------------------------------------
(* Depthwise convolution: weight (C, kH, kW), one filter per channel.      *)

Depthwise(x, weight, bias, f) ==
  LET col == Im2col(x, f) window == f.kH * f.kW
  IN Tensor(<<x.shape[1], x.shape[2], OH(x, f), OW(x, f)>>, LAMBDA i :
       bias.data[i[2]] ++ Total(window, LAMBDA k :
         weight.data[i[2] * window + k]
           ** At(col, <<i[1], i[2] * window + k, i[3] * OW(x, f) + i[4]>>)))

DepthwiseBackwardInput(g, weight, sh, f) ==
  LET oW == g.shape[4]
  IN Col2im(Tensor(<<sh[1], sh[2] * f.kH * f.kW, g.shape[3] * oW>>, LAMBDA i :
       At(g, <<i[1], Row(i[2], f).c, i[3] \div oW, i[3] % oW>>) ** weight.data[i[2]]), sh, f)

DepthwiseBackwardWeight(g, col, f) ==
  Tensor(<<g.shape[2], f.kH, f.kW>>, LAMBDA i :
    Total(col.shape[1] * col.shape[3], LAMBDA j :
      LET n == j \div col.shape[3] p == j % col.shape[3]
      IN At(g, <<n, i[1], p \div g.shape[4], p % g.shape[4]>>)
           ** At(col, <<n, (i[1] * f.kH + i[2]) * f.kW + i[3], p>>)))

DepthwiseBackwardBias(g) ==
  Tensor(<<g.shape[2]>>, LAMBDA i :
    Total(g.shape[1] * g.shape[3] * g.shape[4], LAMBDA j :
      LET P == g.shape[3] * g.shape[4]
      IN At(g, <<j \div P, i[1], (j % P) \div g.shape[4], j % g.shape[4]>>)))

-----------------------------------------------------------------------------
(* Pooling and upsampling.                                                 *)

(* The element of the window at output index i, by its number.             *)
InWindow(x, i, k, f) ==
  At(x, <<i[1], i[2], Under(i[3], k \div f.kW, f), Under(i[4], k % f.kW, f)>>)

(* The number of the first largest element.                                *)
BestOf(x, i, f) ==
  CHOOSE k \in 0 .. f.kH * f.kW - 1 :
    /\ \A j \in 0 .. f.kH * f.kW - 1 : InWindow(x, i, j, f) \preceq InWindow(x, i, k, f)
    /\ \A j \in 0 .. k - 1 : InWindow(x, i, j, f) \prec InWindow(x, i, k, f)

(* Elements are pairs of the maximum and its number, the saved mask.       *)
MaxPool(x, f) ==
  Tensor(<<x.shape[1], x.shape[2], OH(x, f), OW(x, f)>>, LAMBDA i :
    <<InWindow(x, i, BestOf(x, i, f), f), BestOf(x, i, f)>>)

MaxPoolBackward(g, mask, sh, f) ==
  LET oW == g.shape[4] window == f.kH * f.kW
  IN Col2im(Tensor(<<sh[1], sh[2] * window, g.shape[3] * oW>>, LAMBDA i :
       LET o == <<i[1], Row(i[2], f).c, i[3] \div oW, i[3] % oW>>
       IN IF At(mask, o) = i[2] % window THEN At(g, o) ELSE Zero), sh, f)

AvgPool(x, f) ==
  Tensor(<<x.shape[1], x.shape[2], OH(x, f), OW(x, f)>>, LAMBDA i :
    Total(f.kH * f.kW, LAMBDA k : InWindow(x, i, k, f)) // Num(f.kH * f.kW))

AvgPoolBackward(g, sh, f) ==
  Tensor(sh, LAMBDA i :
    Total(g.shape[3] * g.shape[4], LAMBDA p :
      LET q == Col(p, g.shape[4])
      IN IF i[3] - q.h * f.stride \in 0 .. f.kH - 1 /\ i[4] - q.w * f.stride \in 0 .. f.kW - 1
         THEN At(g, <<i[1], i[2], q.h, q.w>>) // Num(f.kH * f.kW) ELSE Zero))

Upsample(x, scale) ==
  Tensor(<<x.shape[1], x.shape[2], x.shape[3] * scale, x.shape[4] * scale>>, LAMBDA i :
    At(x, <<i[1], i[2], i[3] \div scale, i[4] \div scale>>))

UpsampleBackward(g, sh, scale) ==
  Tensor(sh, LAMBDA i :
    Total(scale * scale, LAMBDA k :
      At(g, <<i[1], i[2], i[3] * scale + k \div scale, i[4] * scale + (k % scale)>>)))
=============================================================================
