------------------------------ MODULE Decimals ------------------------------
(***************************************************************************)
(* The decimal arithmetic the domain modules share.  An amount is a whole  *)
(* number of units; a cent is Cent of them, so that prices and caps with   *)
(* more decimals than two exist.  A quotient is kept as numerator and      *)
(* denominator until it is rounded.  (decimal.Decimal itself is external;  *)
(* its 28 digits are enough for every amount the tables hold.)             *)
(***************************************************************************)
EXTENDS Integers

CONSTANT Cent   \* units per cent

ASSUME CentAssumption == Cent \in Nat \ {0}

\* ROUND_DOWN of n / d for n >= 0.
RoundDown(n, d) == n \div d

\* ROUND_HALF_EVEN of n / d for n >= 0, the default of Decimal.quantize.
RoundHalfEven(n, d) ==
    LET q == n \div d
        r == n % d
    IN  IF 2 * r > d \/ (2 * r = d /\ q % 2 = 1) THEN q + 1 ELSE q

\* (n / d).quantize(Decimal("0.01")), in units.
ToCent(n, d) == Cent * RoundHalfEven(n, d * Cent)

LeastOf(a, b) == IF a <= b THEN a ELSE b
GreatestOf(a, b) == IF a >= b THEN a ELSE b
=============================================================================
