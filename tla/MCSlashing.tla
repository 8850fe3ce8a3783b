----------------------------- MODULE MCSlashing -----------------------------
(* Small instances of Slashing for TLC. *)
EXTENDS Slashing, TLC

Symmetry == Permutations(Validators)
=============================================================================
