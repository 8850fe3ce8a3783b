---------------------------- MODULE MCMultiStore ----------------------------
(* Two or three stores and two blocks; the content of a store is a number     *)
(* that tells apart the block sequences that led to it.                       *)
EXTENDS MultiStore

MCContents == 0 .. 30
MCExec(s, c, b) == (2 * c + b) % 31
=============================================================================
