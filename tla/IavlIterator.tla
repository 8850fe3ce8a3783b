---------------------------- MODULE IavlIterator ----------------------------
(***************************************************************************)
(* The iterator over an IAVL tree (src/store/iavl/store.go).  A goroutine   *)
(* walks the tree and offers every item on an unbuffered channel, another   *)
(* one fetches the first item; the callers take the others under a lock.    *)
(*                                                                          *)
(* An item is its place in the walk: the n keys of the range, in the order  *)
(* of the iteration, are 1..n.  Waiting on a channel or for the lock is an  *)
(* action that is not enabled.                                              *)
(***************************************************************************)
EXTENDS Naturals

CONSTANTS
    Callers,    \* goroutines that use the iterator
    MaxItems,   \* bound on the keys in the range
    MaxCalls    \* bound on the calls of each caller

Free == "free"

ASSUME ItemsAssumption == MaxItems \in Nat /\ MaxCalls \in Nat
ASSUME CallersAssumption == Free \notin Callers

VARIABLES
    n,          \* keys in the range
    sent,       \* items iterateRoutine has sent on iterCh
    iterCh,     \* whether iterCh is "open" or "closed"
    quit,       \* whether quitCh is closed
    init,       \* initRoutine: "receive", "close" or "done" (initCh is closed)
    mtx,        \* who holds the mutex, or Free
    invalid,
    key,        \* the current item, 0 before the first
    call,       \* what every caller is in: [op, at]
    calls       \* calls each caller has made

vars == <<n, sent, iterCh, quit, init, mtx, invalid, key, call, calls>>

Ops == {"Valid", "Next", "Get"}    \* Get is Key or Value
Idle == [op |-> "none", at |-> "idle"]

Init ==
    /\ n \in 0..MaxItems
    /\ sent = 0 /\ iterCh = "open" /\ quit = FALSE
    /\ init = "receive" /\ mtx = Free /\ invalid = FALSE /\ key = 0
    /\ call = [c \in Callers |-> Idle] /\ calls = [c \in Callers |-> 0]
-----------------------------------------------------------------------------
(* iterateRoutine *)

\* The select finds quitCh closed, or the walk is over: the channel is closed.
Stop ==
    /\ iterCh = "open" /\ (quit \/ sent = n)
    /\ iterCh' = "closed"
    /\ UNCHANGED <<n, sent, quit, init, mtx, invalid, key, call, calls>>

\* receiveNext: the item the routine offers, or that the channel is closed.  A select
\* may send although quitCh is closed.
Offered == iterCh = "open" /\ sent < n
Ended == iterCh = "closed"

\* setNext or setInvalid.
receiveNext ==
    /\ ~invalid
    /\ \/ Offered /\ sent' = sent + 1 /\ key' = sent + 1 /\ UNCHANGED invalid
       \/ Ended /\ invalid' = TRUE /\ UNCHANGED <<sent, key>>
-----------------------------------------------------------------------------
(* initRoutine *)

InitReceive ==
    /\ init = "receive" /\ receiveNext
    /\ init' = "close"
    /\ UNCHANGED <<n, iterCh, quit, mtx, call, calls>>

InitClose ==
    /\ init = "close" /\ init' = "done"
    /\ UNCHANGED <<n, sent, iterCh, quit, mtx, invalid, key, call, calls>>
-----------------------------------------------------------------------------
(* The callers *)

Call(c, op) ==
    /\ call[c] = Idle /\ calls[c] < MaxCalls
    /\ call' = [call EXCEPT ![c] = [op |-> op, at |-> "init"]]
    /\ calls' = [calls EXCEPT ![c] = @ + 1]
    /\ UNCHANGED <<n, sent, iterCh, quit, init, mtx, invalid, key>>

\* Mutant: no waiting for the first item.
LockAtOnce(c) ==
    /\ call[c].at = "init" /\ mtx = Free
    /\ mtx' = c
    /\ call' = [call EXCEPT ![c].at = "locked"]
    /\ UNCHANGED <<n, sent, iterCh, quit, init, invalid, key, calls>>

\* waitInit and mtx.Lock
Lock(c) ==
    /\ call[c].at = "init" /\ init = "done" /\ mtx = Free
    /\ mtx' = c
    /\ call' = [call EXCEPT ![c].at = "locked"]
    /\ UNCHANGED <<n, sent, iterCh, quit, init, invalid, key, calls>>

\* Mutant: the panic leaves the mutex locked.
ReturnKeeping(c) ==
    /\ call[c].at = "locked"
    /\ call[c].op = "Next" => invalid
    /\ mtx' = IF invalid /\ call[c].op # "Valid" THEN mtx ELSE Free
    /\ call' = [call EXCEPT ![c] = Idle]
    /\ UNCHANGED <<n, sent, iterCh, quit, init, invalid, key, calls>>

\* Valid, Key and Value read and unlock; assertIsValid unlocks before the panic, which
\* the code above recovers from.
Return(c) ==
    /\ call[c].at = "locked"
    /\ call[c].op = "Next" => invalid
    /\ mtx' = Free
    /\ call' = [call EXCEPT ![c] = Idle]
    /\ UNCHANGED <<n, sent, iterCh, quit, init, invalid, key, calls>>

\* Next, on a valid iterator: waits for the routine with the lock held.
Next_(c) ==
    /\ call[c].at = "locked" /\ call[c].op = "Next" /\ receiveNext
    /\ mtx' = Free
    /\ call' = [call EXCEPT ![c] = Idle]
    /\ UNCHANGED <<n, iterCh, quit, init, calls>>

\* Close, once and at any time: it waits for nothing.
Close ==
    /\ ~quit /\ quit' = TRUE
    /\ UNCHANGED <<n, sent, iterCh, init, mtx, invalid, key, call, calls>>

Next ==
    \/ Stop \/ InitReceive \/ InitClose
    \/ \E c \in Callers :
        \/ \E op \in Ops : Call(c, op)
        \/ Lock(c) \/ Return(c) \/ Next_(c)
    \/ Close

\* Goroutines that can run do run, and no caller is kept from a lock that is free again
\* and again (a Go mutex lets none starve).  Nobody has to call, or to close.
Fairness ==
    /\ WF_vars(Stop) /\ WF_vars(InitReceive) /\ WF_vars(InitClose)
    /\ \A c \in Callers : SF_vars(Lock(c)) /\ WF_vars(Return(c)) /\ WF_vars(Next_(c))

Spec == Init /\ [][Next]_vars
FairSpec == Spec /\ Fairness
-----------------------------------------------------------------------------
TypeOK ==
    /\ n \in Nat /\ sent \in 0..n /\ key \in 0..n
    /\ iterCh \in {"open", "closed"} /\ quit \in BOOLEAN /\ invalid \in BOOLEAN
    /\ init \in {"receive", "close", "done"} /\ mtx \in Callers \cup {Free}
    /\ call \in [Callers -> {Idle} \cup [op : Ops, at : {"init", "locked"}]]
    /\ calls \in [Callers -> Nat]

\* The state of the iterator that a caller with the lock reads has been set by the
\* initRoutine, and by nobody else since (what a data race would break).
Holds(c) == call[c].at = "locked"
Exclusive ==
    /\ \A c \in Callers : Holds(c) <=> mtx = c
    /\ \A c \in Callers : Holds(c) => init = "done"

\* Every item the routine hands over becomes the current one, in the order of the walk
\* and without one lost between the routine, initRoutine and the callers; a caller is
\* told of the end only when there is one, or after Close.
NoneLost ==
    /\ key = sent
    /\ init # "receive" => key > 0 \/ invalid
    /\ invalid => iterCh = "closed"
    /\ iterCh = "closed" => sent = n \/ quit
ItemsInOrder == TypeOK /\ Exclusive /\ NoneLost

\* A call returns: neither the wait for the first item, nor the lock, nor Next waits
\* for ever, whether the iterator is closed meanwhile or not.
CallsReturn == \A c \in Callers : call[c] # Idle ~> call[c] = Idle

\* The goroutines are gone once the caller has closed the iterator, or has come to the
\* end ("Close this to release goroutine").
RoutinesReleased == quit \/ sent = n ~> iterCh = "closed" /\ init = "done"

\* Nobody waits for ever: every call returns, and the goroutines are released.
NobodyWaits == CallsReturn /\ RoutinesReleased

\* The current item never goes back, an invalid iterator stays so ("True once, true
\* forever") and keeps its item.
Forward ==
    [][/\ key' = key \/ key' = key + 1
       /\ invalid => invalid' /\ key' = key]_vars
=============================================================================
