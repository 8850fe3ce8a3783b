--------------------------- MODULE MCValidatorSet ---------------------------
(* Small instances of ValidatorSet for TLC. *)
EXTENDS ValidatorSet

\* Two genesis validators and an operator without one.
TwoOfThree == [v \in {1, 2, 3} |-> CASE v = 1 -> 2 [] v = 2 -> 3 [] OTHER -> 0]
=============================================================================
