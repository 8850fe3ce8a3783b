------------------------------ MODULE Branches ------------------------------
(***************************************************************************)
(* What the caches of CacheKV promise: a committed map, and branches of it  *)
(* that are whole copies.  A transaction works on a copy of its branch,     *)
(* which it keeps or drops; the commit makes the delivered branch the       *)
(* committed map and starts every branch anew.                              *)
(***************************************************************************)
CONSTANTS Keys, Values, Nil, Branch

VARIABLES
    committed,  \* the committed map; an absent key has the value Nil
    branch,     \* the map of every branch
    copy,       \* the map a transaction in the branch works on
    running     \* the branches with a transaction in progress

vars == <<committed, branch, copy, running>>

Map == [Keys -> Values \cup {Nil}]

Init ==
    /\ committed \in Map
    /\ branch = [b \in Branch |-> committed] /\ copy = branch
    /\ running = {}

Start(b) ==
    /\ b \notin running
    /\ running' = running \cup {b}
    /\ UNCHANGED <<committed, branch, copy>>

Put(b, k, value) ==
    /\ copy' = [copy EXCEPT ![b][k] = value]
    /\ branch' = IF b \in running THEN branch ELSE [branch EXCEPT ![b][k] = value]
    /\ UNCHANGED <<committed, running>>

Keep(b) ==
    /\ b \in running
    /\ branch' = [branch EXCEPT ![b] = copy[b]]
    /\ running' = running \ {b}
    /\ UNCHANGED <<committed, copy>>

Drop(b) ==
    /\ b \in running
    /\ copy' = [copy EXCEPT ![b] = branch[b]]
    /\ running' = running \ {b}
    /\ UNCHANGED <<committed, branch>>

Commit(b) ==
    /\ running = {}
    /\ committed' = branch[b]
    /\ branch' = [c \in Branch |-> branch[b]] /\ copy' = branch'
    /\ UNCHANGED running

Next ==
    \/ \E b \in Branch, k \in Keys, value \in Values \cup {Nil} : Put(b, k, value)
    \/ \E b \in Branch : Start(b) \/ Keep(b) \/ Drop(b) \/ Commit(b)

Spec == Init /\ [][Next]_vars
=============================================================================
