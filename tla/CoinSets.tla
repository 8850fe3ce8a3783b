----------------------------- MODULE CoinSets -----------------------------
(***************************************************************************)
(* sdk.Coins (src/types/coin.go): amounts of several denominations, kept    *)
(* as a sequence sorted by denomination and without zero amounts.  A        *)
(* denomination is a number, which is all that its order needs.             *)
(***************************************************************************)
EXTENDS Integers, Sequences, SequencesExt

Coin(denom, amount) == [denom |-> denom, amount |-> amount]

\* Sorted, without repetition, and every amount positive.
IsValid(coins) ==
    /\ \A i \in DOMAIN coins : coins[i].amount > 0
    /\ \A i \in 1..(Len(coins) - 1) : coins[i].denom < coins[i + 1].denom

IsAllPositive(coins) == coins # <<>> /\ \A i \in DOMAIN coins : coins[i].amount > 0
IsAnyNegative(coins) == \E i \in DOMAIN coins : coins[i].amount < 0
removeZeroCoins(coins) == SelectSeq(coins, LAMBDA coin : coin.amount # 0)

\* Mutant: a sum of zero is kept.
KeepZero(coin) == <<coin>>

\* A coin is appended to a sum unless it is zero.
NonZero(coin) == removeZeroCoins(<<coin>>)

\* The merge of two sorted sequences, adding where the denominations meet.
safeAdd(a, b) ==
    LET sum[i \in 1..(Len(a) + 1), j \in 1..(Len(b) + 1)] ==
            IF i > Len(a) THEN removeZeroCoins(SubSeq(b, j, Len(b)))
            ELSE IF j > Len(b) THEN removeZeroCoins(SubSeq(a, i, Len(a)))
            ELSE IF a[i].denom < b[j].denom THEN NonZero(a[i]) \o sum[i + 1, j]
            ELSE IF a[i].denom > b[j].denom THEN NonZero(b[j]) \o sum[i, j + 1]
            ELSE NonZero(Coin(a[i].denom, a[i].amount + b[j].amount)) \o sum[i + 1, j + 1]
    IN  sum[1, 1]

Add(a, b) == safeAdd(a, b)
negative(coins) == [i \in DOMAIN coins |-> Coin(coins[i].denom, -coins[i].amount)]
SafeSub(a, b) == safeAdd(a, negative(b))
Sub(a, b) == SafeSub(a, b)   \* panics where Short holds
Short(a, b) == IsAnyNegative(SafeSub(a, b))

\* Binary search of a denomination; the lower part ends below the middle.
SearchBelow(coins, denom, below) ==
    LET found[lo \in 1..(Len(coins) + 1), hi \in -1..Len(coins)] ==
            IF lo > hi THEN 0
            ELSE IF lo = hi THEN IF coins[lo].denom = denom THEN coins[lo].amount ELSE 0
            ELSE LET mid == lo + ((hi - lo + 1) \div 2)
                 IN  IF denom < coins[mid].denom THEN found[lo, mid - below]
                     ELSE IF denom = coins[mid].denom THEN coins[mid].amount
                     ELSE found[mid + 1, hi]
    IN  found[1, Len(coins)]

AmountOf(coins, denom) == SearchBelow(coins, denom, 1)

Sort(coins) == SortSeq(coins, LAMBDA a, b : a.denom < b.denom)
IsEqual(a, b) == Sort(a) = Sort(b)
IsZero(coins) == \A i \in DOMAIN coins : coins[i].amount = 0
=============================================================================
