----------------------------- MODULE CommitLog -----------------------------
(***************************************************************************)
(* What a CommitMultiStore promises its caller (src/store/types/store.go):  *)
(* a log of committed multistore states.  A commit appends, in one atomic   *)
(* step, the state that one block makes of the last committed state.        *)
(* Nothing committed is ever changed or lost, whatever crashes happen.      *)
(***************************************************************************)
EXTENDS Integers, Sequences

CONSTANTS
    Stores,         \* the substores mounted in the multistore
    Blocks,         \* the blocks consensus may decide
    Exec(_, _, _),  \* Exec(s, c, b): content of store s after block b ran on content c
    Empty           \* the content of a store nothing was written to

VARIABLE log        \* log[v]: the content of every store at version v

LastState == IF log = <<>> THEN [s \in Stores |-> Empty] ELSE log[Len(log)]

Init == log = <<>>

Commit(b) == log' = Append(log, [s \in Stores |-> Exec(s, LastState[s], b)])

Next == \E b \in Blocks : Commit(b)

Spec == Init /\ [][Next]_log
=============================================================================
