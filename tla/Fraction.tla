------------------------------ MODULE Fraction ------------------------------
(***************************************************************************)
(* class Fraction (src/tools/fraction.js): the exact arithmetic of the     *)
(* endgame solver's probabilities.  A fraction is <<numerator,             *)
(* denominator>>; integers are unbounded here, doubles in the code.        *)
(***************************************************************************)
EXTENDS Integers

Zero == <<0, 1>>
One  == <<1, 1>>

RECURSIVE Gcd(_, _)
Gcd(a, b) == IF b = 0 THEN a ELSE Gcd(b, a % b)

Lcm(a, b) == (a * b) \div Gcd(a, b)

Divides(i, f) == f[1] % i = 0 /\ f[2] % i = 0

\* the common divisor that reduce() tries next: two, then the odd numbers
Divisors(f) ==
  (IF Divides(2, f) THEN {2} ELSE {}) \cup
  {i \in 3 .. (IF f[1] < f[2] THEN f[1] ELSE f[2]) : i % 2 = 1 /\ Divides(i, f)}

RECURSIVE Reduce(_)
Reduce(f) ==
  IF f[1] > f[2] /\ f[1] % f[2] = 0 THEN <<f[1] \div f[2], 1>>
  ELSE IF Divisors(f) = {} THEN f
  ELSE LET i == CHOOSE i \in Divisors(f) : \A j \in Divisors(f) : i <= j
       IN  Reduce(<<f[1] \div i, f[2] \div i>>)

Plus(f, g) ==
  LET l == Lcm(f[2], g[2])
  IN  Reduce(<<f[1] * (l \div f[2]) + g[1] * (l \div g[2]), l>>)

Subtract(f, g) == Plus(f, <<-g[1], g[2]>>)

Multiply(f, g) == Reduce(<<f[1] * g[1], f[2] * g[2]>>)

Divide(f, g) == Multiply(f, <<g[2], g[1]>>)

LessThan(f, g) == Subtract(f, g)[1] < 0

SameValue(f, g) == Subtract(f, g)[1] = 0
=============================================================================
