----------------------- MODULE CudaElementwiseKernels -----------------------
(***************************************************************************)
(* cuda/tensor_ops_elementwise.cu and the transform of                     *)
(* cuda/tensor_ops_spectral_optimizer.cu: the kernels of                   *)
(* ElementwiseKernels, and DFT2, on a CUDA device.                         *)
(***************************************************************************)
EXTENDS CudaLaunch

(* The branch that does not overflow, by the sign.                         *)
SigmoidValue(x) ==
  IF Zero \preceq x THEN One // (One ++ Exp(Neg(x))) ELSE Exp(x) // (One ++ Exp(x))

UnaryValue(x, op) ==
  CASE op = "ReLU" -> IF Zero \prec x THEN x ELSE Zero
    [] op = "Sigmoid" -> SigmoidValue(x)
    [] op = "Tanh" -> Tanh(x)
    [] op = "Exp" -> Exp(x)
    [] op = "Log" -> Ln(x)
    [] op = "Sqrt" -> Sqrt(x)

Derivative(s, op) ==
  CASE op = "ReLU" -> IF Zero \prec s THEN One ELSE Zero
    [] op = "Sigmoid" -> s ** (One -- s)
    [] op = "Tanh" -> One -- (s ** s)
    [] op = "Exp" -> s
    [] op = "Log" -> One // s
    [] op = "Sqrt" -> One // (Num(2) ** s)

BinaryValue(x, y, op) ==
  CASE op = "Add" -> x ++ y
    [] op = "Mul" -> x ** y
    [] op = "Sub" -> x -- y
    [] op = "Div" -> x // y
    [] op = "LessEqual" -> IF x \preceq y THEN One ELSE Zero

CudaUnary(a, op) == Elementwise(a.shape, LAMBDA i : UnaryValue(a.data[i], op))
CudaUnaryBackward(g, saved, op) ==
  Elementwise(g.shape, LAMBDA i : g.data[i] ** Derivative(saved.data[i], op))
CudaBinary(a, b, op) == Elementwise(a.shape, LAMBDA i : BinaryValue(a.data[i], b.data[i], op))

CudaOnes(sh) == Elementwise(sh, LAMBDA i : One)
CudaScale(a, scalar) == Elementwise(a.shape, LAMBDA i : a.data[i] ** scalar)
CudaWhere(c, yes, no) ==
  Elementwise(c.shape, LAMBDA i : IF c.data[i].re # Zero.re THEN yes.data[i] ELSE no.data[i])

CudaSilu(a) ==
  Elementwise(a.shape, LAMBDA i :
    LET s == SigmoidValue(a.data[i]) IN <<a.data[i] ** s, s>>)
CudaSiluBackward(g, x, sig) ==
  Elementwise(g.shape, LAMBDA i :
    LET s == sig.data[i] IN g.data[i] ** (s ++ ((x.data[i] ** s) ** (One -- s))))

CudaSoftplus(a) ==
  Elementwise(a.shape, LAMBDA i :
    MaxOf(a.data[i], Zero) ++ Ln(One ++ Exp(Neg(AbsOf(a.data[i])))))
CudaSoftplusBackward(g, x) ==
  Elementwise(g.shape, LAMBDA i : g.data[i] ** SigmoidValue(x.data[i]))

CudaSubBackwardB(g) == Elementwise(g.shape, LAMBDA i : Neg(g.data[i]))
CudaDivBackwardA(g, b) == Elementwise(g.shape, LAMBDA i : g.data[i] // b.data[i])
CudaDivBackwardB(g, a, b) ==
  Elementwise(g.shape, LAMBDA i :
    Neg(g.data[i] ** a.data[i]) // (b.data[i] ** b.data[i]))

(* Threads that meet an offending element take the status from 1 to 0.     *)
CudaAllStatus(a, Holds(_)) ==
  IF Numel(a.shape) = 0 THEN Answer(One)
  ELSE Guarded(AtomicAnd(Numel(a.shape), LAMBDA i : IF Holds(a.data[i]) THEN One ELSE Zero))
CudaAllTrue(a) == CudaAllStatus(a, LAMBDA x : IsFinite(x) /\ x.re # Zero.re)
CudaAllFinite(a) == CudaAllStatus(a, LAMBDA x : IsFinite(x))

-----------------------------------------------------------------------------
(* Rows along an axis: each thread goes over the row of its own element.   *)
RowBase(flat, sh, ax) ==
  flat - ((flat \div Inner(sh, ax)) % sh[ax]) * Inner(sh, ax)
RowTotal(flat, sh, ax, F(_)) ==
  Total(sh[ax], LAMBDA k : F(RowBase(flat, sh, ax) + k * Inner(sh, ax)))
RowLargest(flat, x, ax) ==
  Largest(x.shape[ax], LAMBDA k : x.data[RowBase(flat, x.shape, ax) + k * Inner(x.shape, ax)])

CudaSoftmax(a, ax) ==
  Elementwise(a.shape, LAMBDA flat :
    LET max_value == RowLargest(flat, a, ax)
    IN Exp(a.data[flat] -- max_value)
         // RowTotal(flat, a.shape, ax, LAMBDA o : Exp(a.data[o] -- max_value)))

CudaSoftmaxBackward(g, saved, ax) ==
  Elementwise(g.shape, LAMBDA flat :
    saved.data[flat]
      ** (g.data[flat] -- RowTotal(flat, g.shape, ax, LAMBDA o : g.data[o] ** saved.data[o])))

CudaLogSoftmax(a, ax) ==
  Elementwise(a.shape, LAMBDA flat :
    LET max_value == RowLargest(flat, a, ax)
        denom == RowTotal(flat, a.shape, ax, LAMBDA o : Exp(a.data[o] -- max_value))
    IN a.data[flat] -- (max_value ++ Ln(denom)))

CudaLogSoftmaxBackward(g, saved, ax) ==
  Elementwise(g.shape, LAMBDA flat :
    g.data[flat] -- (Exp(saved.data[flat]) ** RowTotal(flat, g.shape, ax, LAMBDA o : g.data[o])))

-----------------------------------------------------------------------------
(* Extents whose roots of unity are quarter turns, as in SpectralKernels.  *)
DFT2Value(re, im, inverse, scaled, i) ==
  LET rank == Len(re.shape) H == re.shape[rank - 1] W == re.shape[rank]
      scale == IF scaled THEN Frac(1, H * W) ELSE One
      sign == IF inverse THEN One ELSE Num(-1)
      plane == H * W
      batch == i \div plane
      kr == (i % plane) \div W
      kc == (i % plane) % W
      Angle(j) == Num((4 * kr * (j \div W)) \div H) ++ Num((4 * kc * (j % W)) \div W)
      Wi(j) == sign ** Sin(Angle(j))
      Xr(j) == re.data[batch * plane + j]
      Xi(j) == im.data[batch * plane + j]
  IN <<scale ** Total(plane, LAMBDA j : (Xr(j) ** Cos(Angle(j))) -- (Xi(j) ** Wi(j))),
       scale ** Total(plane, LAMBDA j : (Xr(j) ** Wi(j)) ++ (Xi(j) ** Cos(Angle(j))))>>

CudaDFT2(re, im, inverse, scaled) ==
  Elementwise(re.shape, LAMBDA i : DFT2Value(re, im, inverse, scaled, i))
=============================================================================
