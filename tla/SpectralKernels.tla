--------------------------- MODULE SpectralKernels ---------------------------
(***************************************************************************)
(* The discrete Fourier transform of the last two axes                     *)
(* (cpu/tensor_ops_spectral_optimizer.cpp) and group normalisation         *)
(* (detail/tensor_kernels.h) on the CPU.                                   *)
(***************************************************************************)
EXTENDS TensorIndex

(* Extents whose roots of unity are quarter turns.                         *)
QuarterTurns(k, extent) == Num((4 * k) \div extent)

DFT2OK(re, im) ==
  LET r == Len(re.shape)
  IN re.shape = im.shape /\ r >= 2 /\ re.shape[r - 1] > 0 /\ re.shape[r] > 0

(* Elements are pairs of the real and the imaginary part.                  *)
DFT2(re, im, inverse, scaled) ==
  LET rank == Len(re.shape) H == re.shape[rank - 1] W == re.shape[rank]
      norm == IF scaled THEN Frac(1, H * W) ELSE One
  IN Tensor(re.shape, LAMBDA i :
       LET Angle(j) == QuarterTurns(i[rank - 1] * (j \div W), H) ++ QuarterTurns(i[rank] * (j % W), W)
           Wr(j) == Cos(Angle(j))
           Wi(j) == IF inverse THEN Sin(Angle(j)) ELSE Neg(Sin(Angle(j)))
           From(x, j) == At(x, [i EXCEPT ![rank - 1] = j \div W, ![rank] = j % W])
       IN <<norm ** Total(H * W, LAMBDA j : (From(re, j) ** Wr(j)) -- (From(im, j) ** Wi(j))),
            norm ** Total(H * W, LAMBDA j : (From(re, j) ** Wi(j)) ++ (From(im, j) ** Wr(j)))>>)

-----------------------------------------------------------------------------
(* Group normalisation of (N, C, H, W): the channels of a group are        *)
(* consecutive, so the elements of a group are consecutive too.            *)

GroupNormOK(sh, gamma, beta, groups) ==
  Len(sh) = 4 /\ groups > 0 /\ sh[2] % groups = 0
  /\ gamma.shape = <<sh[2]>> /\ beta.shape = <<sh[2]>>

GroupSize(sh, groups) == (sh[2] \div groups) * sh[3] * sh[4]
GroupOf(i, sh, groups) == i[1] * groups + i[2] \div (sh[2] \div groups)

(* The sum over the group of flat index i of F(flat index).                *)
OverGroup(grp, sh, groups, F(_)) ==
  Total(GroupSize(sh, groups), LAMBDA j : F(grp * GroupSize(sh, groups) + j))

(* Elements are triples of the result and of what is saved: the normalised *)
(* element and the inverse deviation of its group.                         *)
GroupNorm(x, gamma, beta, groups, eps) ==
  LET M == Num(GroupSize(x.shape, groups))
      Square(v) == v ** v
      Mean(p) == OverGroup(p, x.shape, groups, LAMBDA k : x.data[k]) // M
      Var(p, mean) == OverGroup(p, x.shape, groups, LAMBDA k : Square(x.data[k] -- mean)) // M
      Scaled(i, xn, inv_std) == <<(gamma.data[i[2]] ** xn) ++ beta.data[i[2]], xn, inv_std>>
      Normalise(i, centred, inv_std) == Scaled(i, centred ** inv_std, inv_std)
      Element(i, p, mean) == Normalise(i, At(x, i) -- mean, One // Sqrt(Var(p, mean) ++ eps))
      Of(i, p) == Element(i, p, Mean(p))
  IN Tensor(x.shape, LAMBDA i : Of(i, GroupOf(i, x.shape, groups)))

GroupNormBackwardInput(g, xhat, inv_std, gamma, groups) ==
  LET sh == g.shape
      Dyh(k) == g.data[k] ** gamma.data[Index(sh, k)[2]]
      sum_dyh == [p \in 0 .. sh[1] * groups - 1 |-> OverGroup(p, sh, groups, Dyh)]
      sum_dyh_x == [p \in DOMAIN sum_dyh |->
                      OverGroup(p, sh, groups, LAMBDA k : Dyh(k) ** xhat.data[k])]
      inv_M == Frac(1, GroupSize(sh, groups))
  IN Tensor(sh, LAMBDA i :
       LET p == GroupOf(i, sh, groups)
       IN At(inv_std, i) ** (Dyh(Offset(i, sh))
            -- (inv_M ** (sum_dyh[p] ++ (At(xhat, i) ** sum_dyh_x[p])))))

(* Per channel, over the samples and positions.                            *)
OverChannel(sh, c, F(_)) ==
  Total(sh[1] * sh[3] * sh[4], LAMBDA j :
    F(((j \div (sh[3] * sh[4])) * sh[2] + c) * (sh[3] * sh[4]) + (j % (sh[3] * sh[4]))))

GroupNormBackwardWeight(g, xhat) ==
  Tensor(<<g.shape[2]>>, LAMBDA i :
    OverChannel(g.shape, i[1], LAMBDA k : g.data[k] ** xhat.data[k]))

GroupNormBackwardBias(g) ==
  Tensor(<<g.shape[2]>>, LAMBDA i : OverChannel(g.shape, i[1], LAMBDA k : g.data[k]))
=============================================================================
