------------------------- MODULE ElementwiseKernels -------------------------
(***************************************************************************)
(* The kernels on the CPU that work element by element or along the rows   *)
(* of one axis: cpu/tensor_ops_elementwise.cpp and                         *)
(* detail/tensor_kernels.h.                                                *)
(***************************************************************************)
EXTENDS TensorIndex

Ones(sh) == Tensor(sh, LAMBDA i : One)

Add(a, b) == Map2(a, b, LAMBDA x, y : x ++ y)
Mul(a, b) == Map2(a, b, LAMBDA x, y : x ** y)
Sub(a, b) == Map2(a, b, LAMBDA x, y : x -- y)
Div(a, b) == Map2(a, b, LAMBDA x, y : x // y)
Scale(a, scalar) == Map(a, LAMBDA x : x ** scalar)

SubBackwardB(g) == Map(g, LAMBDA v : Neg(v))
DivBackwardA(g, b) == Map2(g, b, LAMBDA v, y : v // y)
DivBackwardB(g, a, b) == Map3(g, a, b, LAMBDA v, x, y : Neg(v ** x) // (y ** y))

(* 1 and 0 stand for true and false, and so does every other number.       *)
LessEqual(a, b) == Map2(a, b, LAMBDA x, y : IF x \preceq y THEN One ELSE Zero)
Where(c, yes, no) == Map3(c, yes, no, LAMBDA b, x, y : IF b.re # Zero.re THEN x ELSE y)

AllTrue(a) == \A k \in DOMAIN a.data : IsFinite(a.data[k]) /\ a.data[k].re # Zero.re
AllFinite(a) == \A k \in DOMAIN a.data : IsFinite(a.data[k])

-----------------------------------------------------------------------------
(* Functions of one element; saved is the operand of Relu, Log, Silu,      *)
(* Softplus, Sin, Cos and Clamp, and the result of the others.             *)

Relu(a) == Map(a, LAMBDA x : IF Zero \prec x THEN x ELSE Zero)
ReluBackward(g, saved) == Map2(g, saved, LAMBDA v, x : IF Zero \prec x THEN v ELSE Zero)

Sigmoid(a) == Map(a, LAMBDA x : One // (One ++ Exp(Neg(x))))
SigmoidBackward(g, saved) == Map2(g, saved, LAMBDA v, s : (v ** s) ** (One -- s))

TanhForward(a) == Map(a, LAMBDA x : Tanh(x))
TanhBackward(g, saved) == Map2(g, saved, LAMBDA v, s : v ** (One -- (s ** s)))

ExpForward(a) == Map(a, LAMBDA x : Exp(x))
ExpBackward(g, saved) == Map2(g, saved, LAMBDA v, s : v ** s)

Log(a) == Map(a, LAMBDA x : Ln(x))
LogBackward(g, saved) == Map2(g, saved, LAMBDA v, x : v // x)

SqrtForward(a) == Map(a, LAMBDA x : Sqrt(x))
SqrtBackward(g, saved) == Map2(g, saved, LAMBDA v, s : v // (Num(2) ** s))

(* Elements are pairs of the result and the sigmoid, which is saved.       *)
Silu(a) == Map(a, LAMBDA x : LET s == One // (One ++ Exp(Neg(x))) IN <<x ** s, s>>)
SiluBackward(g, a, sig) ==
  Map3(g, a, sig, LAMBDA v, x, s : v ** (s ++ ((x ** s) ** (One -- s))))

Softplus(a) == Map(a, LAMBDA x : MaxOf(x, Zero) ++ Ln(One ++ Exp(Neg(AbsOf(x)))))
SoftplusBackward(g, a) == Map2(g, a, LAMBDA v, x : v // (One ++ Exp(Neg(x))))

SinForward(a) == Map(a, LAMBDA x : Sin(x))
SinBackward(g, a) == Map2(g, a, LAMBDA v, x : v ** Cos(x))
CosForward(a) == Map(a, LAMBDA x : Cos(x))
CosBackward(g, a) == Map2(g, a, LAMBDA v, x : Neg(v) ** Sin(x))

Clamp(a, lo, hi) ==
  Map(a, LAMBDA x : LET v == MaxOf(x, lo) IN IF hi \prec v THEN hi ELSE v)
ClampBackward(g, a, lo, hi) ==
  Map2(g, a, LAMBDA v, x : IF lo \preceq x /\ x \preceq hi THEN v ELSE Zero)

-----------------------------------------------------------------------------
(* The row of index i along the axis, as a function of the coordinate.     *)
Along(x, i, ax) == [k \in 0 .. x.shape[ax] - 1 |-> At(x, [i EXCEPT ![ax] = k])]
RowSum(row, F(_)) == Total(Cardinality(DOMAIN row), LAMBDA k : F(row[k]))
RowMax(row) == Largest(Cardinality(DOMAIN row), LAMBDA k : row[k])

Softmax(a, ax) ==
  Tensor(a.shape, LAMBDA i :
    LET row == Along(a, i, ax) maxval == RowMax(row)
        inv == One // RowSum(row, LAMBDA x : Exp(x -- maxval))
    IN Exp(At(a, i) -- maxval) ** inv)

SoftmaxBackward(g, saved, ax) ==
  Tensor(g.shape, LAMBDA i :
    LET dot == Total(g.shape[ax], LAMBDA k : Along(g, i, ax)[k] ** Along(saved, i, ax)[k])
    IN At(saved, i) ** (At(g, i) -- dot))

LogSoftmax(a, ax) ==
  Tensor(a.shape, LAMBDA i :
    LET row == Along(a, i, ax) maxval == RowMax(row)
    IN At(a, i) -- (maxval ++ Ln(RowSum(row, LAMBDA x : Exp(x -- maxval)))))

LogSoftmaxBackward(g, saved, ax) ==
  Tensor(g.shape, LAMBDA i :
    At(g, i) -- (Exp(At(saved, i)) ** RowSum(Along(g, i, ax), LAMBDA v : v)))
=============================================================================
