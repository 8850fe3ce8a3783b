------------------------------ MODULE CacheKV ------------------------------
(***************************************************************************)
(* Write-back caches on the store (src/store/cachekv/store.go), as the ABCI *)
(* application stacks them (src/baseapp/baseapp.go): the deliver and the    *)
(* check state are caches on the committed store, and a transaction runs in *)
(* a further cache on one of them, which is written or dropped.             *)
(*                                                                          *)
(* A cache is a Go map: a function on the keys it holds.  The stores of a   *)
(* multistore are cached and written together (src/store/cachemulti), so    *)
(* Keys are the keys of all of them.                                        *)
(***************************************************************************)
CONSTANTS
    Keys,
    Values,
    Nil     \* the value of a key that is not there

ASSUME NilAssumption == Nil \notin Values

VARIABLES
    base,      \* the stores of app.cms
    state,     \* the caches of checkState.ms and deliverState.ms
    msCache,   \* the cache of the transaction in progress, on top of the state's
    running,   \* the states with a transaction in progress
    live       \* the states that are not nil

cacheVars == <<base, state, msCache, running, live>>

Branch == {"deliver", "check"}

cValue == [value : Values \cup {Nil}, deleted : BOOLEAN, dirty : BOOLEAN]
Empty == [k \in {} |-> Nil]

\* setCacheValue
setCacheValue(c, k, value, deleted, dirty) ==
    [j \in DOMAIN c \cup {k} |->
        IF j = k THEN [value |-> value, deleted |-> deleted, dirty |-> dirty] ELSE c[j]]

\* What Get returns of a cache whose parent has the map below.
Seen(c, below) == [k \in Keys |-> IF k \in DOMAIN c THEN c[k].value ELSE below[k]]

StateMap(b) == Seen(state[b], base)
TxMap(b) == Seen(msCache[b], StateMap(b))

\* Get caches what it had to ask the parent for, also that there is nothing.
Got(c, k, below) ==
    IF k \in DOMAIN c THEN c ELSE setCacheValue(c, k, below[k], FALSE, FALSE)

Dirty(c) == {k \in DOMAIN c : c[k].dirty}

\* Mutant: a deleted key is left to the parent.
WrittenToCacheKeeping(c, parent) ==
    [k \in DOMAIN parent \cup Dirty(c) |->
        IF k \in Dirty(c) /\ ~(c[k].deleted /\ k \in DOMAIN parent)
        THEN [value |-> c[k].value, deleted |-> c[k].deleted, dirty |-> TRUE]
        ELSE parent[k]]

\* Write to a parent that is a cache: its Delete and Set of the dirty keys.  The case
\* that Write skips, a dirty entry without value that is not deleted, is ruled out by
\* NoStaleEntry.
WrittenToCache(c, parent) ==
    [k \in DOMAIN parent \cup Dirty(c) |->
        IF k \in Dirty(c)
        THEN [value |-> c[k].value, deleted |-> c[k].deleted, dirty |-> TRUE]
        ELSE parent[k]]

\* Write to the committed stores.
WrittenToStore(c, store) ==
    [k \in Keys |->
        IF k \notin Dirty(c) THEN store[k]
        ELSE IF c[k].deleted THEN Nil
        ELSE IF c[k].value = Nil THEN store[k]
        ELSE c[k].value]
-----------------------------------------------------------------------------
\* InitChain has set both states, or a version was loaded and the check state set.
Init ==
    /\ base \in [Keys -> Values \cup {Nil}]
    /\ state = [b \in Branch |-> Empty] /\ msCache = [b \in Branch |-> Empty]
    /\ running = {} /\ live \in {Branch, {"check"}}

\* Calls hold the lock of the local client: during a transaction nothing else runs.
May(b) == b \in live /\ running \subseteq {b}

Get(b, k) ==
    /\ May(b)
    /\ IF b \in running
       THEN /\ msCache' = [msCache EXCEPT ![b] = Got(@, k, StateMap(b))]
            /\ state' = IF k \in DOMAIN msCache[b] THEN state
                        ELSE [state EXCEPT ![b] = Got(@, k, base)]
       ELSE /\ state' = [state EXCEPT ![b] = Got(@, k, base)]
            /\ UNCHANGED msCache
    /\ UNCHANGED <<base, running, live>>

\* A keeper writes to the cache of the transaction, or in BeginBlock and EndBlock to
\* that of the state.
Mark(b, k, value, deleted) ==
    /\ May(b)
    /\ IF b \in running
       THEN /\ msCache' = [msCache EXCEPT ![b] = setCacheValue(@, k, value, deleted, TRUE)]
            /\ UNCHANGED state
       ELSE /\ state' = [state EXCEPT ![b] = setCacheValue(@, k, value, deleted, TRUE)]
            /\ UNCHANGED msCache
    /\ UNCHANGED <<base, running, live>>

Set(b, k, value) == Mark(b, k, value, FALSE)

Delete(b, k) == Mark(b, k, Nil, TRUE)

\* cacheTxContext
CacheWrap(b) ==
    /\ May(b) /\ b \notin running
    /\ running' = running \cup {b}
    /\ msCache' = [msCache EXCEPT ![b] = Empty]
    /\ UNCHANGED <<base, state, live>>

\* msCache.Write, of the ante handler or of the messages; the cache is not used again.
Write(b) ==
    /\ b \in running
    /\ state' = [state EXCEPT ![b] = WrittenToCache(msCache[b], @)]
    /\ msCache' = [msCache EXCEPT ![b] = Empty]
    /\ running' = running \ {b}
    /\ UNCHANGED <<base, live>>

\* runTx returns without the Write.
Abort(b) ==
    /\ b \in running
    /\ msCache' = [msCache EXCEPT ![b] = Empty]
    /\ running' = running \ {b}
    /\ UNCHANGED <<base, state, live>>

\* BeginBlock, after a Commit.
setDeliverState ==
    /\ "deliver" \notin live /\ running = {}
    /\ live' = Branch
    /\ state' = [state EXCEPT !["deliver"] = Empty]
    /\ UNCHANGED <<base, msCache, running>>

\* Commit: deliverState.ms.Write, setCheckState, and no deliver state.
Commit ==
    /\ "deliver" \in live /\ running = {}
    /\ base' = WrittenToStore(state["deliver"], base)
    /\ state' = [b \in Branch |-> Empty]
    /\ live' = {"check"}
    /\ UNCHANGED <<msCache, running>>

Next ==
    \/ \E b \in Branch :
        \/ \E k \in Keys :
            \/ Get(b, k)
            \/ \E value \in Values : Set(b, k, value)
            \/ Delete(b, k)
        \/ CacheWrap(b) \/ Write(b) \/ Abort(b)
    \/ setDeliverState
    \/ Commit

Spec == Init /\ [][Next]_cacheVars
-----------------------------------------------------------------------------
\* Caches hold what Go maps of the code may hold, and there is one only where the code
\* keeps a reference to it.
CacheTypeOK ==
    /\ base \in [Keys -> Values \cup {Nil}]
    /\ running \subseteq live /\ live \subseteq Branch
    /\ DOMAIN state = Branch /\ DOMAIN msCache = Branch
    /\ \A b \in Branch : \A c \in {state[b], msCache[b]} :
           c \in [DOMAIN c -> cValue] /\ DOMAIN c \subseteq Keys
    /\ \A b \in Branch : b \notin running => msCache[b] = Empty
    /\ \A b \in Branch : b \notin live => state[b] = Empty

\* An entry of c that was only read is what the parent still has, and a deleted one,
\* like no other dirty one, has no value: it may be read without asking the parent, and
\* need not be written.
EntriesSound(c, below) ==
    \A k \in DOMAIN c :
        IF c[k].dirty THEN c[k].deleted <=> c[k].value = Nil
        ELSE ~c[k].deleted /\ c[k].value = below[k]

\* Nothing changes a store beneath a cache that is still used: neither a transaction's
\* Write the state under a cache, nor a Commit the store under the check state.
NoStaleEntry ==
    \A b \in Branch : EntriesSound(state[b], base) /\ EntriesSound(msCache[b], StateMap(b))

AsBranches == INSTANCE Branches WITH
    committed <- base,
    branch <- [b \in Branch |-> StateMap(b)],
    copy <- [b \in Branch |-> TxMap(b)]

\* Read through all the caches, every state is a private copy of the committed store,
\* and a transaction works on a copy of the state: all of what it did appears with
\* Write, none with an abort, and the other state never sees any of it before Commit.
BranchesSpec == AsBranches!Spec
=============================================================================
