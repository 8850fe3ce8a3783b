----------------------------- MODULE DecProofs -----------------------------
(***************************************************************************)
(* What the operations of Dec return, for any precision.                   *)
(***************************************************************************)
EXTENDS Dec, TLAPS

USE OneAssumption

\* Division of naturals, which truncates.
LEMMA DivBounds ==
  ASSUME NEW a \in Nat, NEW b \in Nat \ {0}
  PROVE  /\ a \div b \in Nat
         /\ (a \div b) * b =< a
         /\ a < (a \div b) * b + b
  OBVIOUS

\* What is at most c times the divisor has a quotient of at most c.
LEMMA DivAtMost ==
  ASSUME NEW a \in Nat, NEW b \in Nat \ {0}, NEW c \in Nat, a =< c * b
  PROVE  a \div b =< c
<1>1. (a \div b) * b =< c * b
  BY DivBounds
<1>2. a \div b \in Nat
  BY DivBounds
<1>3. ASSUME NEW p \in Nat, p > c  PROVE p * b > c * b
  BY <1>3
<1> QED  BY <1>1, <1>2, <1>3

\* Integer division is monotone in the dividend.
LEMMA DivMonotone ==
  ASSUME NEW a \in Nat, NEW c \in Nat, NEW b \in Nat \ {0}, a =< c
  PROVE  a \div b =< c \div b
<1>1. a < (c \div b) * b + b
  BY DivBounds
<1>2. /\ (a \div b) * b =< a
      /\ a \div b \in Nat /\ c \div b \in Nat
  BY DivBounds
<1>3. ASSUME NEW p \in Nat, NEW q \in Nat, p * b < q * b + b  PROVE p =< q
  <2>1. SUFFICES ASSUME p >= q + 1  PROVE FALSE
    OBVIOUS
  <2>2. p * b >= (q + 1) * b
    BY <2>1
  <2>3. (q + 1) * b = q * b + b
    OBVIOUS
  <2> QED  BY <1>3, <2>2, <2>3
<1>4. (a \div b) * b < (c \div b) * b + b
  BY <1>1, <1>2
<1> QED  BY <1>2, <1>3, <1>4

\* chopPrecisionAndRound of a non-negative number: at most half a unit away, and the
\* even neighbour of the two when it is exactly half a unit away from both.
THEOREM RoundsToNearest ==
  ASSUME NEW d \in Nat
  PROVE  LET r == chopPrecisionAndRound(d)
         IN  /\ r \in Nat
             /\ 2 * (d - r * One) =< One /\ 2 * (r * One - d) =< One
             /\ 2 * (d - r * One) = One \/ 2 * (r * One - d) = One => r % 2 = 0
<1> DEFINE quo == d \div One
           rem == d % One
<1>1. /\ quo \in Nat /\ rem \in 0 .. One - 1
      /\ d = quo * One + rem
  BY DivBounds
<1>2. (quo + 1) * One = quo * One + One
  BY <1>1
<1>3. chopPrecisionAndRound(d) =
        IF 2 * rem < One \/ (2 * rem = One /\ quo % 2 = 0) THEN quo ELSE quo + 1
  BY DEF chopPrecisionAndRound, RoundHalfEven
<1> HIDE DEF quo, rem
<1>4. CASE 2 * rem < One
  BY <1>1, <1>2, <1>3, <1>4
<1>5. CASE 2 * rem = One
  <2>1. CASE quo % 2 = 0
    BY <1>1, <1>2, <1>3, <1>5, <2>1
  <2>2. CASE quo % 2 # 0
    <3>1. (quo + 1) % 2 = 0
      BY <1>1, <2>2
    <3>2. chopPrecisionAndRound(d) = quo + 1
      BY <1>3, <1>5, <2>2
    <3> QED  BY <1>1, <1>2, <1>5, <3>1, <3>2
  <2> QED  BY <2>1, <2>2
<1>6. CASE 2 * rem > One
  <2>1. chopPrecisionAndRound(d) = quo + 1
    BY <1>1, <1>3, <1>6
  <2> QED  BY <1>1, <1>2, <1>6, <2>1
<1> QED  BY <1>1, <1>4, <1>5, <1>6

\* Rounding does not pass a whole number of units that is not passed before.
LEMMA RoundAtMost ==
  ASSUME NEW d \in Nat, NEW c \in Nat, d =< c * One
  PROVE  chopPrecisionAndRound(d) \in 0 .. c
<1>1. d \div One \in Nat /\ d \div One =< c
  BY DivBounds, DivAtMost
<1>2. d % One \in 0 .. One - 1 /\ d = (d \div One) * One + (d % One)
  OBVIOUS
<1>3. CASE d \div One < c
  BY <1>1, <1>2, <1>3 DEF RoundHalfEven, chopPrecisionAndRound
<1>4. CASE d \div One = c
  <2>1. d % One = 0
    BY <1>2, <1>4
  <2> QED  BY <1>1, <1>4, <2>1 DEF RoundHalfEven, chopPrecisionAndRound
<1> QED  BY <1>1, <1>3, <1>4

\* A share of a whole is at most the whole: Quo(part * tokens, all), of a part of the
\* shares, truncated, is at most tokens.  ShareTokens rounds to the nearest unit, up
\* too, so this is what keeps RemoveDelShares from taking more than there is.
THEOREM ShareAtMostWhole ==
  ASSUME NEW part \in Nat, NEW all \in Nat \ {0}, NEW tokens \in Nat, part =< all
  PROVE  /\ Quo(MulInt(part, tokens), all) \in Nat
         /\ TruncateInt(Quo(MulInt(part, tokens), all)) \in 0 .. tokens
<1> DEFINE d == TruncQuo(part * tokens * One * One, all)
           q == Quo(MulInt(part, tokens), all)
           unit == tokens * One * One
<1>1. unit \in Nat /\ part * unit \in Nat /\ part * tokens * One * One = part * unit
  OBVIOUS
<1>2. part * unit =< unit * all
  BY <1>1
<1>3. d \in Nat /\ d =< (tokens * One) * One
  <2>1. d = (part * unit) \div all
    BY <1>1 DEF TruncQuo
  <2> HIDE DEF unit, d
  <2>2. d \in Nat /\ d =< unit
    BY <1>1, <1>2, <2>1, DivBounds, DivAtMost
  <2> QED  BY <2>2 DEF unit
<1>4. q = chopPrecisionAndRound(d)
  BY DEF Quo, MulInt
<1>5. tokens * One \in Nat
  OBVIOUS
<1>6. q \in 0 .. (tokens * One)
  <2> HIDE DEF d, q
  <2> QED  BY <1>3, <1>4, <1>5, RoundAtMost
<1>7. TruncateInt(q) \in 0 .. tokens
  <2> HIDE DEF q
  <2>1. q \in Nat /\ q =< tokens * One
    BY <1>5, <1>6
  <2>2. TruncateInt(q) = q \div One
    BY <2>1 DEF TruncateInt, TruncQuo
  <2> QED  BY <2>1, <2>2, DivBounds, DivAtMost
<1> QED  BY <1>5, <1>6, <1>7
=============================================================================
