--------------------------- MODULE MCIavlIterator ---------------------------
(* Two goroutines that use one iterator over up to three items. *)
EXTENDS IavlIterator
=============================================================================
