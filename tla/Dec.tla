-------------------------------- MODULE Dec --------------------------------
(***************************************************************************)
(* Fixed-point decimals (src/types/decimal.go).  A Dec is the integer       *)
(* number of its smallest units; One, 10^18 in the code, of them make 1.    *)
(* The code's integers are unbounded up to 315 bits, where it panics: the   *)
(* models stay below.                                                       *)
(***************************************************************************)
EXTENDS Integers

CONSTANT One  \* precisionReuse: how many units make the decimal 1

ASSUME OneAssumption == One \in Nat \ {0}

\* big.Int.Quo truncates towards zero.
TruncQuo(a, b) == IF a >= 0 THEN a \div b ELSE -((-a) \div b)

\* Bankers' rounding of a non-negative number of units times One.
RoundHalfEven(d) ==
    LET quo == d \div One
        rem == d % One
    IN  IF 2 * rem < One \/ (2 * rem = One /\ quo % 2 = 0) THEN quo ELSE quo + 1

chopPrecisionAndRound(d) ==
    IF d < 0 THEN -RoundHalfEven(-d) ELSE RoundHalfEven(d)

chopPrecisionAndRoundUp(d) ==
    IF d >= 0 /\ d % One # 0 THEN d \div One + 1 ELSE TruncQuo(d, One)

NewDec(i) == i * One

Mul(a, b) == chopPrecisionAndRound(a * b)
MulTruncate(a, b) == TruncQuo(a * b, One)
MulInt(a, i) == a * i
Quo(a, b) == chopPrecisionAndRound(TruncQuo(a * One * One, b))
QuoTruncate(a, b) == TruncQuo(TruncQuo(a * One * One, b), One)
QuoRoundUp(a, b) == chopPrecisionAndRoundUp(TruncQuo(a * One * One, b))
QuoInt(a, i) == TruncQuo(a, i)
TruncateInt(a) == TruncQuo(a, One)
RoundInt(a) == chopPrecisionAndRound(a)
Ceil(a) == NewDec(chopPrecisionAndRoundUp(a))
=============================================================================
