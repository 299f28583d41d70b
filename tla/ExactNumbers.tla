---------------------------- MODULE ExactNumbers ----------------------------
(***************************************************************************)
(* The elements of tensors.  A float is taken for the exact rational it    *)
(* approximates: rounding, infinities and NaN are left out.  A number also *)
(* carries a derivative (a dual number), by the rules of calculus, so that *)
(* running a forward kernel on a number whose derivative is 1 gives the    *)
(* derivative of the result: what its backward kernel has to agree with.   *)
(*                                                                         *)
(* Transcendental functions keep the laws the kernels rely on: Exp is      *)
(* 2^n, with Exp' = Exp; Ln inverts it; Sin and Cos take quarter turns.    *)
(***************************************************************************)
EXTENDS Integers

(* Rationals <<p, q>> in lowest terms, q > 0.                              *)
LOCAL gcd[a \in Nat, b \in Nat] == IF b = 0 THEN a ELSE gcd[b, a % b]
LOCAL Abs(n) == IF n < 0 THEN -n ELSE n
LOCAL lowest[p \in Int, q \in Int] ==
  IF q < 0 THEN lowest[-p, -q]
  ELSE LET d == gcd[Abs(p), q] IN <<p \div d, q \div d>>
Ratio(p, q) == IF q = 1 THEN <<p, 1>> ELSE lowest[p, q]
Plus(a, b) == Ratio(a[1] * b[2] + b[1] * a[2], a[2] * b[2])
LOCAL Times(a, b) == Ratio(a[1] * b[1], a[2] * b[2])
LOCAL Inv(a) == Ratio(a[2], a[1])

Dual(re, du) == [re |-> re, du |-> du]
Num(n) == Dual(<<n, 1>>, <<0, 1>>)
Frac(p, q) == Dual(Ratio(p, q), <<0, 1>>)
Zero == Num(0)
One == Num(1)

(* What only the tests for finite elements are shown.                      *)
Infinity == Dual(<<1, 0>>, <<0, 1>>)
IsFinite(x) == x.re[2] # 0

(* The number with derivative 1, and the derivative of a number.           *)
Seed(x) == [x EXCEPT !.du = <<1, 1>>]
Slope(x) == Dual(x.du, <<0, 1>>)
Plain(x) == Dual(x.re, <<0, 1>>)

x ++ y == Dual(Plus(x.re, y.re), Plus(x.du, y.du))
x ** y == Dual(Times(x.re, y.re), Plus(Times(x.re, y.du), Times(x.du, y.re)))
Neg(x) == Num(-1) ** x
x -- y == x ++ Neg(y)

(* A function of x whose derivative at x is slope.                         *)
LOCAL Chain(value, slope, x) == Dual(value, Times(slope, x.du))
LOCAL Recip(x) == LET r == Inv(x.re) IN Chain(r, Times(<<-1, 1>>, Times(r, r)), x)
x // y == x ** Recip(y)

x \preceq y == x.re[1] * y.re[2] <= y.re[1] * x.re[2]
x \prec y == x.re[1] * y.re[2] < y.re[1] * x.re[2]
MaxOf(x, y) == IF x \prec y THEN y ELSE x
AbsOf(x) == IF x \prec Zero THEN Neg(x) ELSE x

Exp(x) ==
  LET n == x.re[1] e == IF n >= 0 THEN <<2^n, 1>> ELSE <<1, 2^(-n)>>
  IN Chain(e, e, x)

(* Powers of two are the values of Exp; elsewhere Ln is some function: only *)
(* its derivative is used there.                                           *)
Ln(x) ==
  LET log == {n \in -6 .. 6 : Exp(Num(n)).re = x.re}
  IN Chain(IF log # {} THEN <<CHOOSE n \in log : TRUE, 1>> ELSE <<100 * x.re[1], x.re[2]>>,
           Inv(x.re), x)

(* Of squares only.                                                        *)
Sqrt(x) ==
  LET Root(n) == CHOOSE r \in 0 .. n : r * r = n
      root == <<Root(x.re[1]), Root(x.re[2])>>
  IN Chain(root, Inv(Times(<<2, 1>>, root)), x)

LOCAL sine[n \in 0 .. 3] == IF n = 0 \/ n = 2 THEN 0 ELSE IF n = 1 THEN 1 ELSE -1
Sin(x) == Chain(<<sine[x.re[1] % 4], 1>>, <<sine[(x.re[1] + 1) % 4], 1>>, x)
Cos(x) == Chain(<<sine[(x.re[1] + 1) % 4], 1>>, <<-sine[x.re[1] % 4], 1>>, x)

Tanh(x) == LET e == Exp(x ++ x) IN (e -- One) // (e ++ One)
=============================================================================
