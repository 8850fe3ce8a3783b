----------------------------- MODULE MCStaking -----------------------------
(* Small instances of Staking for TLC. *)
EXTENDS Staking

\* Two genesis validators, with a delegator of 2; delegator 3 may create a third.
SomeStake ==
    [key \in Delegators \X Validators |->
        CASE key = <<1, 1>> -> 2 [] key = <<2, 2>> -> 2 [] key = <<3, 2>> -> 3 [] OTHER -> 0]
SomeCoins == [d \in Delegators |-> IF d = 3 THEN 2 ELSE 0]
=============================================================================
