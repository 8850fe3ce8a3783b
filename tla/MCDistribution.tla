--------------------------- MODULE MCDistribution ---------------------------
(* Small instances of Distribution for TLC. *)
EXTENDS Distribution

\* Two genesis validators; the operator of 2 has stake with both.
SomeStake ==
    [key \in Delegators \X Validators |->
        CASE key = <<1, 1>> -> 12 [] key = <<2, 2>> -> 9 [] key = <<2, 1>> -> 9 [] OTHER -> 0]
SomeCoins == [d \in Delegators |-> IF d = 2 THEN 6 ELSE 0]
SomeRates == [v \in Validators |-> IF v = 1 THEN 10 ELSE 0]
Turns == <<1, 2>>
SomeFactors == {<<1, 100>>, <<2, 33>>}

\* Even amounts, halved by a slash without any rounding.
EvenStake ==
    [key \in Delegators \X Validators |->
        CASE key = <<1, 1>> -> 4 [] key = <<2, 2>> -> 4 [] key = <<2, 1>> -> 4 [] OTHER -> 0]
NoCoins == [d \in Delegators |-> 0]
Halves == Validators \X {50}
=============================================================================
