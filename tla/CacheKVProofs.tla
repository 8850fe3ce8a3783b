--------------------------- MODULE CacheKVProofs ---------------------------
(***************************************************************************)
(* Caches of any number of keys and values implement private copies of the  *)
(* store: CacheKV implements Branches.                                      *)
(***************************************************************************)
EXTENDS CacheKV, TLAPS

MapOf == [Keys -> Values \cup {Nil}]
IsCache(c) == c \in [DOMAIN c -> cValue] /\ DOMAIN c \subseteq Keys

\* A cache without entries shows what is below: CacheMultiStore changes nothing.
LEMMA SeenEmpty ==
    ASSUME NEW m \in MapOf
    PROVE  Seen(Empty, m) = m /\ IsCache(Empty) /\ EntriesSound(Empty, m)
BY DEF Seen, Empty, MapOf, IsCache, EntriesSound

\* What a cache shows is again a map, so caches can be stacked.
LEMMA SeenType ==
    ASSUME NEW m \in MapOf, NEW c, IsCache(c)
    PROVE  Seen(c, m) \in MapOf
BY DEF Seen, MapOf, IsCache, cValue

\* Get changes nothing of what is seen, and caches no more than the parent has.
LEMMA SeenGot ==
    ASSUME NEW m \in MapOf, NEW c, IsCache(c), EntriesSound(c, m), NEW k \in Keys
    PROVE  /\ IsCache(Got(c, k, m)) /\ EntriesSound(Got(c, k, m), m)
           /\ Seen(Got(c, k, m), m) = Seen(c, m)
<1>1. CASE k \in DOMAIN c
  BY <1>1 DEF Got
<1>2. CASE k \notin DOMAIN c
  <2> DEFINE e == [value |-> m[k], deleted |-> FALSE, dirty |-> FALSE]
             d == Got(c, k, m)
  <2>1. /\ d = [j \in DOMAIN c \cup {k} |-> IF j = k THEN e ELSE c[j]]
        /\ DOMAIN d = DOMAIN c \cup {k} /\ d[k] = e
        /\ \A j \in DOMAIN c : d[j] = c[j]
        /\ e \in cValue /\ e.value = m[k] /\ ~e.deleted /\ ~e.dirty
    BY <1>2 DEF Got, setCacheValue, cValue, MapOf
  <2> HIDE DEF d, e
  <2>2. IsCache(d)
    BY <2>1 DEF IsCache
  <2>3. EntriesSound(d, m)
    BY <2>1 DEF EntriesSound
  <2>4. Seen(d, m) = Seen(c, m)
    BY <2>1, <1>2 DEF Seen
  <2> QED BY <2>2, <2>3, <2>4 DEF d
<1> QED BY <1>1, <1>2

\* Write to a parent that is a cache makes it show what the cache showed.
LEMMA SeenWritten ==
    ASSUME NEW m \in MapOf, NEW c, IsCache(c), NEW p, IsCache(p),
           EntriesSound(p, m), EntriesSound(c, Seen(p, m))
    PROVE  /\ IsCache(WrittenToCache(c, p)) /\ EntriesSound(WrittenToCache(c, p), m)
           /\ Seen(WrittenToCache(c, p), m) = Seen(c, Seen(p, m))
<1> DEFINE d == WrittenToCache(c, p)
           e(k) == [value |-> c[k].value, deleted |-> c[k].deleted, dirty |-> TRUE]
<1>1. /\ DOMAIN d = DOMAIN p \cup Dirty(c)
      /\ d = [k \in DOMAIN p \cup Dirty(c) |-> IF k \in Dirty(c) THEN e(k) ELSE p[k]]
  BY DEF WrittenToCache
<1>2. \A k \in Dirty(c) : /\ k \in DOMAIN c /\ k \in Keys /\ c[k] \in cValue /\ c[k].dirty
                          /\ e(k) \in cValue /\ e(k).value = c[k].value
                          /\ e(k).deleted = c[k].deleted /\ e(k).dirty
  BY DEF Dirty, IsCache, cValue
<1>3. \A k \in DOMAIN d : IF k \in Dirty(c) THEN d[k] = e(k) ELSE k \in DOMAIN p /\ d[k] = p[k]
  BY <1>1
<1> HIDE DEF d, e
<1>4. IsCache(d)
  BY <1>1, <1>2, <1>3 DEF IsCache
<1>5. EntriesSound(d, m)
  BY <1>1, <1>2, <1>3 DEF EntriesSound
<1>6. \A k \in Keys : Seen(d, m)[k] = Seen(c, Seen(p, m))[k]
  <2> TAKE k \in Keys
  <2>1. CASE k \in Dirty(c)
    BY <2>1, <1>1, <1>2, <1>3 DEF Seen
  <2>2. CASE k \in DOMAIN c /\ k \notin Dirty(c)
    <3>1. c[k].value = Seen(p, m)[k]
      BY <2>2 DEF EntriesSound, Dirty
    <3>2. Seen(c, Seen(p, m))[k] = Seen(p, m)[k]
      BY <2>2, <3>1 DEF Seen
    <3>3. Seen(d, m)[k] = Seen(p, m)[k]
      BY <2>2, <1>1, <1>3 DEF Seen
    <3> QED BY <3>2, <3>3
  <2>3. CASE k \notin DOMAIN c
    BY <2>3, <1>1, <1>3 DEF Seen, Dirty
  <2> QED BY <2>1, <2>2, <2>3
<1>7. Seen(d, m) = Seen(c, Seen(p, m))
  BY <1>6 DEF Seen
<1> QED BY <1>4, <1>5, <1>7 DEF d

\* Write to the stores makes them what the cache showed.
LEMMA StoreWritten ==
    ASSUME NEW m \in MapOf, NEW c, IsCache(c), EntriesSound(c, m)
    PROVE  WrittenToStore(c, m) = Seen(c, m)
BY DEF WrittenToStore, Seen, EntriesSound, Dirty, MapOf, IsCache, cValue
-----------------------------------------------------------------------------
(* The inductive invariant, for one branch at a time *)

BranchOK(b) ==
    /\ IsCache(state[b]) /\ EntriesSound(state[b], base)
    /\ IsCache(msCache[b]) /\ EntriesSound(msCache[b], StateMap(b))
    /\ b \notin running => msCache[b] = Empty
    /\ b \notin live => state[b] = Empty

Inv ==
    /\ base \in MapOf /\ running \subseteq live /\ live \subseteq Branch
    /\ DOMAIN state = Branch /\ DOMAIN msCache = Branch
    /\ state = [b \in Branch |-> state[b]] /\ msCache = [b \in Branch |-> msCache[b]]
    /\ \A b \in Branch : BranchOK(b)

\* The maps of a branch, in the terms of Branches.
LEMMA Maps ==
    ASSUME Inv, NEW b \in Branch
    PROVE  /\ StateMap(b) \in MapOf /\ TxMap(b) \in MapOf
           /\ b \notin running => TxMap(b) = StateMap(b)
           /\ b \notin live => StateMap(b) = base
BY SeenType, SeenEmpty DEF Inv, BranchOK, StateMap, TxMap

\* A step that leaves the committed stores alone, and of the caches all but those of b,
\* leaves the other branch as it is.
LEMMA OtherBranch ==
    ASSUME Inv, NEW b \in Branch, NEW c \in Branch, c # b, base' = base,
           state'[c] = state[c], msCache'[c] = msCache[c],
           c \in running' <=> c \in running, c \in live' <=> c \in live
    PROVE  BranchOK(c)' /\ StateMap(c)' = StateMap(c) /\ TxMap(c)' = TxMap(c)
<1>1. StateMap(c)' = StateMap(c) /\ TxMap(c)' = TxMap(c)
  BY DEF StateMap, TxMap
<1>2. BranchOK(c)
  BY DEF Inv
<1> QED BY <1>1, <1>2 DEF BranchOK

\* InitChain or the loading of a version: every cache is empty.
LEMMA InitOK == Init => Inv
<1> SUFFICES ASSUME Init PROVE Inv
  OBVIOUS
<1>1. base \in MapOf /\ running = {} /\ live \subseteq Branch
  BY DEF Init, MapOf, Branch
<1>2. ASSUME NEW b \in Branch PROVE BranchOK(b)
  BY <1>1, SeenEmpty DEF Init, BranchOK, StateMap
<1> QED BY <1>1, <1>2 DEF Init, Inv
-----------------------------------------------------------------------------
(* Steps *)

\* What is left to show of a step in one branch b: its own caches.
LEMMA InBranch ==
    ASSUME Inv, NEW b \in Branch, base' = base,
           state' = [state EXCEPT ![b] = state'[b]],
           msCache' = [msCache EXCEPT ![b] = msCache'[b]],
           running' \subseteq live', live' \subseteq Branch,
           \A c \in Branch : c # b => (c \in running' <=> c \in running) /\ (c \in live' <=> c \in live),
           BranchOK(b)'
    PROVE  /\ Inv'
           /\ \A c \in Branch : c # b => StateMap(c)' = StateMap(c) /\ TxMap(c)' = TxMap(c)
<1>1. \A c \in Branch : c # b => state'[c] = state[c] /\ msCache'[c] = msCache[c]
  BY DEF Inv
<1>2. \A c \in Branch : c # b =>
          BranchOK(c)' /\ StateMap(c)' = StateMap(c) /\ TxMap(c)' = TxMap(c)
  BY <1>1, OtherBranch
<1>3. /\ DOMAIN state' = Branch /\ DOMAIN msCache' = Branch
      /\ state' = [c \in Branch |-> state'[c]] /\ msCache' = [c \in Branch |-> msCache'[c]]
  BY DEF Inv
<1>4. \A c \in Branch : BranchOK(c)'
  BY <1>2
<1> QED BY <1>2, <1>3, <1>4 DEF Inv

\* Get is no step of the maps.
LEMMA GetStep ==
    ASSUME Inv, NEW b \in Branch, NEW k \in Keys, Get(b, k)
    PROVE  /\ Inv' /\ UNCHANGED <<base, running>>
           /\ \A c \in Branch : StateMap(c)' = StateMap(c) /\ TxMap(c)' = TxMap(c)
<1>0. /\ base' = base /\ running' = running /\ live' = live /\ b \in live
      /\ base \in MapOf /\ StateMap(b) \in MapOf /\ BranchOK(b)
  BY Maps DEF Get, May, Inv
<1>1. /\ IsCache(Got(state[b], k, base)) /\ EntriesSound(Got(state[b], k, base), base)
      /\ Seen(Got(state[b], k, base), base) = StateMap(b)
  BY <1>0, SeenGot DEF BranchOK, StateMap
<1>2. /\ IsCache(Got(msCache[b], k, StateMap(b)))
      /\ EntriesSound(Got(msCache[b], k, StateMap(b)), StateMap(b))
      /\ Seen(Got(msCache[b], k, StateMap(b)), StateMap(b)) = TxMap(b)
  BY <1>0, SeenGot DEF BranchOK, TxMap
<1>3. /\ state' = [state EXCEPT ![b] = state'[b]] /\ msCache' = [msCache EXCEPT ![b] = msCache'[b]]
      /\ state'[b] \in {state[b], Got(state[b], k, base)}
      /\ IF b \in running THEN msCache'[b] = Got(msCache[b], k, StateMap(b))
         ELSE msCache'[b] = msCache[b]
  BY DEF Get, Inv
<1>4. StateMap(b)' = StateMap(b)
  BY <1>0, <1>1, <1>3 DEF StateMap
<1>5. TxMap(b)' = TxMap(b)
  BY <1>2, <1>3, <1>4 DEF TxMap
<1>6. BranchOK(b)'
  BY <1>0, <1>1, <1>2, <1>3, <1>4 DEF BranchOK
<1>7. Inv' /\ \A c \in Branch : c # b => StateMap(c)' = StateMap(c) /\ TxMap(c)' = TxMap(c)
  BY <1>0, <1>3, <1>6, InBranch DEF Inv
<1> QED BY <1>0, <1>4, <1>5, <1>7

\* Set and Delete change one key of the map they write to.
LEMMA MarkStep ==
    ASSUME Inv, NEW b \in Branch, NEW k \in Keys, NEW value \in Values \cup {Nil},
           Mark(b, k, value, value = Nil)
    PROVE  /\ Inv' /\ UNCHANGED <<base, running>>
           /\ \A c \in Branch : c # b => StateMap(c)' = StateMap(c) /\ TxMap(c)' = TxMap(c)
           /\ TxMap(b)' = [TxMap(b) EXCEPT ![k] = value]
           /\ StateMap(b)' = IF b \in running THEN StateMap(b)
                             ELSE [StateMap(b) EXCEPT ![k] = value]
<1> DEFINE m(c) == setCacheValue(c, k, value, value = Nil, TRUE)
<1>0. /\ base' = base /\ running' = running /\ live' = live /\ b \in live
      /\ base \in MapOf /\ StateMap(b) \in MapOf /\ BranchOK(b)
      /\ b \notin running => TxMap(b) = StateMap(b) /\ msCache[b] = Empty
  BY Maps DEF Mark, May, Inv, BranchOK
<1>a. /\ IsCache(state[b]) /\ EntriesSound(state[b], base)
      /\ IsCache(msCache[b]) /\ EntriesSound(msCache[b], StateMap(b))
  BY <1>0 DEF BranchOK
<1>b. ASSUME NEW x \in MapOf, NEW c, IsCache(c), EntriesSound(c, x)
      PROVE  /\ IsCache(m(c)) /\ EntriesSound(m(c), x)
             /\ Seen(m(c), x) = [Seen(c, x) EXCEPT ![k] = value]
  <2> DEFINE e == [value |-> value, deleted |-> value = Nil, dirty |-> TRUE]
  <2>1. /\ DOMAIN m(c) = DOMAIN c \cup {k} /\ m(c)[k] = e
        /\ m(c) = [j \in DOMAIN c \cup {k} |-> IF j = k THEN e ELSE c[j]]
        /\ \A j \in DOMAIN c : j # k => m(c)[j] = c[j]
        /\ e \in cValue /\ e.value = value /\ (e.deleted <=> value = Nil) /\ e.dirty
    BY DEF setCacheValue, cValue
  <2> HIDE DEF m, e
  <2>2. IsCache(m(c))
    BY <1>b, <2>1 DEF IsCache
  <2>3. EntriesSound(m(c), x)
    BY <1>b, <2>1 DEF EntriesSound
  <2>4. Seen(m(c), x) = [Seen(c, x) EXCEPT ![k] = value]
    BY <1>b, <2>1 DEF Seen
  <2> QED BY <2>2, <2>3, <2>4
<1>1. /\ IsCache(m(state[b])) /\ EntriesSound(m(state[b]), base)
      /\ Seen(m(state[b]), base) = [StateMap(b) EXCEPT ![k] = value]
  BY <1>0, <1>a, <1>b DEF StateMap
<1>2. /\ IsCache(m(msCache[b])) /\ EntriesSound(m(msCache[b]), StateMap(b))
      /\ Seen(m(msCache[b]), StateMap(b)) = [TxMap(b) EXCEPT ![k] = value]
  BY <1>0, <1>a, <1>b DEF TxMap
<1>3. /\ state' = [state EXCEPT ![b] = state'[b]] /\ msCache' = [msCache EXCEPT ![b] = msCache'[b]]
      /\ IF b \in running THEN state'[b] = state[b] /\ msCache'[b] = m(msCache[b])
         ELSE state'[b] = m(state[b]) /\ msCache'[b] = msCache[b]
  BY DEF Mark, Inv
<1> HIDE DEF m
<1>4. CASE b \in running
  <2>1. StateMap(b)' = StateMap(b)
    BY <1>0, <1>3, <1>4 DEF StateMap
  <2>2. TxMap(b)' = [TxMap(b) EXCEPT ![k] = value]
    BY <1>2, <1>3, <1>4, <2>1 DEF TxMap
  <2>3. BranchOK(b)'
    BY <1>0, <1>2, <1>3, <1>4, <2>1 DEF BranchOK
  <2>4. Inv' /\ \A c \in Branch : c # b => StateMap(c)' = StateMap(c) /\ TxMap(c)' = TxMap(c)
    BY <1>0, <1>3, <2>3, InBranch DEF Inv
  <2> QED BY <1>0, <1>4, <2>1, <2>2, <2>4
<1>5. CASE b \notin running
  <2>1. StateMap(b)' = [StateMap(b) EXCEPT ![k] = value]
    BY <1>0, <1>1, <1>3, <1>5 DEF StateMap
  <2>2. StateMap(b)' \in MapOf
    BY <1>0, <2>1 DEF MapOf
  <2>3. TxMap(b)' = StateMap(b)' /\ EntriesSound(msCache[b], StateMap(b)')
    BY <1>0, <1>3, <1>5, <2>2, SeenEmpty DEF TxMap
  <2>4. BranchOK(b)'
    BY <1>0, <1>1, <1>3, <1>5, <2>3 DEF BranchOK
  <2>5. Inv' /\ \A c \in Branch : c # b => StateMap(c)' = StateMap(c) /\ TxMap(c)' = TxMap(c)
    BY <1>0, <1>3, <2>4, InBranch DEF Inv
  <2> QED BY <1>0, <1>5, <2>1, <2>3, <2>5
<1> QED BY <1>4, <1>5

\* A transaction starts with an empty cache.
LEMMA CacheWrapStep ==
    ASSUME Inv, NEW b \in Branch, CacheWrap(b)
    PROVE  /\ Inv' /\ base' = base /\ b \notin running /\ running' = running \cup {b}
           /\ \A c \in Branch : StateMap(c)' = StateMap(c) /\ TxMap(c)' = TxMap(c)
<1>0. /\ base' = base /\ live' = live /\ b \in live /\ b \notin running
      /\ running' = running \cup {b} /\ state' = state
      /\ BranchOK(b) /\ StateMap(b) \in MapOf /\ msCache[b] = Empty
  BY Maps DEF CacheWrap, May, Inv, BranchOK
<1>1. /\ state' = [state EXCEPT ![b] = state'[b]] /\ msCache' = [msCache EXCEPT ![b] = msCache'[b]]
      /\ state'[b] = state[b] /\ msCache'[b] = msCache[b]
  BY <1>0 DEF CacheWrap, Inv
<1>2. StateMap(b)' = StateMap(b)
  BY <1>0 DEF StateMap
<1>3. TxMap(b)' = TxMap(b)
  BY <1>1, <1>2 DEF TxMap
<1>4. BranchOK(b)'
  BY <1>0, <1>1, <1>2 DEF BranchOK
<1>5. Inv' /\ \A c \in Branch : c # b => StateMap(c)' = StateMap(c) /\ TxMap(c)' = TxMap(c)
  BY <1>0, <1>1, <1>4, InBranch DEF Inv
<1> QED BY <1>0, <1>2, <1>3, <1>5

\* Write makes the state the copy that the transaction worked on.
LEMMA WriteStep ==
    ASSUME Inv, NEW b \in Branch, Write(b)
    PROVE  /\ Inv' /\ base' = base /\ b \in running /\ running' = running \ {b}
           /\ \A c \in Branch : c # b => StateMap(c)' = StateMap(c) /\ TxMap(c)' = TxMap(c)
           /\ StateMap(b)' = TxMap(b) /\ TxMap(b)' = TxMap(b)
<1>0. /\ base' = base /\ live' = live /\ b \in running /\ b \in live
      /\ running' = running \ {b} /\ base \in MapOf /\ BranchOK(b) /\ TxMap(b) \in MapOf
  BY Maps DEF Write, Inv
<1>1. /\ state' = [state EXCEPT ![b] = state'[b]] /\ msCache' = [msCache EXCEPT ![b] = msCache'[b]]
      /\ state'[b] = WrittenToCache(msCache[b], state[b]) /\ msCache'[b] = Empty
  BY DEF Write, Inv
<1>2. /\ IsCache(state'[b]) /\ EntriesSound(state'[b], base)
      /\ Seen(state'[b], base) = TxMap(b)
  BY <1>0, <1>1, SeenWritten DEF BranchOK, StateMap, TxMap
<1>3. StateMap(b)' = TxMap(b)
  BY <1>0, <1>2 DEF StateMap
<1>4. TxMap(b)' = TxMap(b) /\ IsCache(msCache'[b]) /\ EntriesSound(msCache'[b], TxMap(b))
  <2>1. TxMap(b)' = Seen(msCache'[b], StateMap(b)')
    BY DEF TxMap
  <2> QED BY <1>0, <1>1, <1>3, <2>1, SeenEmpty
<1>5. BranchOK(b)'
  BY <1>0, <1>1, <1>2, <1>3, <1>4 DEF BranchOK
<1>6. Inv' /\ \A c \in Branch : c # b => StateMap(c)' = StateMap(c) /\ TxMap(c)' = TxMap(c)
  BY <1>0, <1>1, <1>5, InBranch DEF Inv
<1> QED BY <1>0, <1>3, <1>4, <1>6

\* A transaction that is aborted leaves nothing behind.
LEMMA AbortStep ==
    ASSUME Inv, NEW b \in Branch, Abort(b)
    PROVE  /\ Inv' /\ base' = base /\ b \in running /\ running' = running \ {b}
           /\ \A c \in Branch : c # b => StateMap(c)' = StateMap(c) /\ TxMap(c)' = TxMap(c)
           /\ StateMap(b)' = StateMap(b) /\ TxMap(b)' = StateMap(b)
<1>0. /\ base' = base /\ live' = live /\ b \in running /\ b \in live /\ state' = state
      /\ running' = running \ {b} /\ BranchOK(b) /\ StateMap(b) \in MapOf
  BY Maps DEF Abort, Inv
<1>1. /\ state' = [state EXCEPT ![b] = state'[b]] /\ msCache' = [msCache EXCEPT ![b] = msCache'[b]]
      /\ state'[b] = state[b] /\ msCache'[b] = Empty
  BY <1>0 DEF Abort, Inv
<1>2. StateMap(b)' = StateMap(b)
  BY <1>0 DEF StateMap
<1>3. TxMap(b)' = StateMap(b) /\ IsCache(msCache'[b]) /\ EntriesSound(msCache'[b], StateMap(b))
  <2>1. TxMap(b)' = Seen(msCache'[b], StateMap(b)')
    BY DEF TxMap
  <2> QED BY <1>0, <1>1, <1>2, <2>1, SeenEmpty
<1>4. BranchOK(b)'
  BY <1>0, <1>1, <1>2, <1>3 DEF BranchOK
<1>5. Inv' /\ \A c \in Branch : c # b => StateMap(c)' = StateMap(c) /\ TxMap(c)' = TxMap(c)
  BY <1>0, <1>1, <1>4, InBranch DEF Inv
<1> QED BY <1>0, <1>2, <1>3, <1>5

\* BeginBlock: the new state is the committed one, which the branch showed already.
LEMMA BeginStep ==
    ASSUME Inv, setDeliverState
    PROVE  /\ Inv' /\ UNCHANGED <<base, running>>
           /\ \A c \in Branch : StateMap(c)' = StateMap(c) /\ TxMap(c)' = TxMap(c)
<1> DEFINE b == "deliver"
<1>0. /\ base' = base /\ live' = Branch /\ b \notin live /\ b \in Branch /\ msCache' = msCache
      /\ running' = running /\ running = {} /\ BranchOK(b) /\ state[b] = Empty
  BY DEF setDeliverState, Inv, Branch, BranchOK
<1>1. state' = state
  BY <1>0 DEF setDeliverState, Inv
<1>2. \A c \in Branch : StateMap(c)' = StateMap(c) /\ TxMap(c)' = TxMap(c)
  BY <1>0, <1>1 DEF StateMap, TxMap
<1>3. \A c \in Branch : BranchOK(c)'
  BY <1>0, <1>1, <1>2 DEF Inv, BranchOK
<1> QED BY <1>0, <1>1, <1>2, <1>3 DEF Inv

\* Commit: the stores become what the deliver state showed, and every state shows that.
LEMMA CommitStep ==
    ASSUME Inv, Commit
    PROVE  /\ Inv' /\ running = {} /\ running' = running
           /\ base' = StateMap("deliver")
           /\ \A c \in Branch : StateMap(c)' = base' /\ TxMap(c)' = base'
<1>0. /\ running = {} /\ running' = {} /\ live' = {"check"} /\ msCache' = msCache
      /\ state' = [b \in Branch |-> Empty] /\ "deliver" \in Branch /\ "check" \in Branch
      /\ base' = WrittenToStore(state["deliver"], base)
      /\ \A c \in Branch : msCache[c] = Empty
  BY DEF Commit, Inv, BranchOK, Branch
<1>1. base' = StateMap("deliver") /\ base' \in MapOf
  BY <1>0, StoreWritten, Maps DEF Inv, BranchOK, StateMap
<1>2. ASSUME NEW c \in Branch
      PROVE  StateMap(c)' = base' /\ TxMap(c)' = base' /\ BranchOK(c)'
  <2>1. state'[c] = Empty /\ msCache'[c] = Empty
    BY <1>0
  <2>2. StateMap(c)' = base' /\ IsCache(Empty) /\ EntriesSound(Empty, base')
    BY <1>1, <2>1, SeenEmpty DEF StateMap
  <2>3. TxMap(c)' = base'
    BY <1>1, <2>1, <2>2, SeenEmpty DEF TxMap
  <2>4. BranchOK(c)'
    BY <1>0, <2>1, <2>2 DEF BranchOK
  <2> QED BY <2>2, <2>3, <2>4
<1>3. Inv'
  BY <1>0, <1>1, <1>2 DEF Inv
<1> QED BY <1>0, <1>1, <1>2, <1>3
-----------------------------------------------------------------------------
(* The theorems *)

\* A step of the caches keeps the invariant and is a step of the maps, or none.
LEMMA NextStep == Inv /\ [Next]_cacheVars => Inv' /\ [AsBranches!Next]_(AsBranches!vars)
<1> SUFFICES ASSUME Inv, [Next]_cacheVars
             PROVE  Inv' /\ [AsBranches!Next]_(AsBranches!vars)
  OBVIOUS
<1> DEFINE br == [b \in Branch |-> StateMap(b)]
           cp == [b \in Branch |-> TxMap(b)]
<1>0. /\ DOMAIN br = Branch /\ DOMAIN cp = Branch
      /\ \A b \in Branch : br[b] = StateMap(b) /\ cp[b] = TxMap(b)
      /\ br' = [b \in Branch |-> StateMap(b)'] /\ cp' = [b \in Branch |-> TxMap(b)']
  OBVIOUS
<1>1. ASSUME NEW b \in Branch, NEW k \in Keys, Get(b, k)
      PROVE  Inv' /\ UNCHANGED (AsBranches!vars)
  <2>1. /\ Inv' /\ UNCHANGED <<base, running>>
        /\ \A c \in Branch : StateMap(c)' = StateMap(c) /\ TxMap(c)' = TxMap(c)
    BY <1>1, GetStep
  <2> QED BY <2>1 DEF AsBranches!vars
<1>2. ASSUME NEW b \in Branch, NEW k \in Keys, NEW value \in Values \cup {Nil},
             Mark(b, k, value, value = Nil)
      PROVE  Inv' /\ AsBranches!Put(b, k, value)
  <2>1. /\ Inv' /\ UNCHANGED <<base, running>>
        /\ \A c \in Branch : c # b => StateMap(c)' = StateMap(c) /\ TxMap(c)' = TxMap(c)
        /\ TxMap(b)' = [TxMap(b) EXCEPT ![k] = value]
        /\ StateMap(b)' = IF b \in running THEN StateMap(b)
                          ELSE [StateMap(b) EXCEPT ![k] = value]
    BY <1>2, MarkStep
  <2>2. cp' = [cp EXCEPT ![b][k] = value]
    BY <2>1
  <2>3. br' = IF b \in running THEN br ELSE [br EXCEPT ![b][k] = value]
    BY <2>1
  <2> QED BY <2>1, <2>2, <2>3 DEF AsBranches!Put
<1>3. ASSUME NEW b \in Branch, NEW k \in Keys, NEW value \in Values, Set(b, k, value)
      PROVE  Mark(b, k, value, value = Nil)
  BY <1>3, NilAssumption DEF Set, Mark, setCacheValue
<1>4. ASSUME NEW b \in Branch, NEW k \in Keys, Delete(b, k)
      PROVE  Mark(b, k, Nil, Nil = Nil)
  BY <1>4 DEF Delete, Mark, setCacheValue
<1>5. ASSUME NEW b \in Branch, CacheWrap(b)
      PROVE  Inv' /\ AsBranches!Start(b)
  <2>1. /\ Inv' /\ base' = base /\ b \notin running /\ running' = running \cup {b}
        /\ \A c \in Branch : StateMap(c)' = StateMap(c) /\ TxMap(c)' = TxMap(c)
    BY <1>5, CacheWrapStep
  <2> QED BY <2>1 DEF AsBranches!Start
<1>6. ASSUME NEW b \in Branch, Write(b)
      PROVE  Inv' /\ AsBranches!Keep(b)
  <2>1. /\ Inv' /\ base' = base /\ b \in running /\ running' = running \ {b}
        /\ \A c \in Branch : c # b => StateMap(c)' = StateMap(c) /\ TxMap(c)' = TxMap(c)
        /\ StateMap(b)' = TxMap(b) /\ TxMap(b)' = TxMap(b)
    BY <1>6, WriteStep
  <2>2. cp' = cp /\ br' = [br EXCEPT ![b] = cp[b]]
    BY <2>1
  <2> QED BY <2>1, <2>2 DEF AsBranches!Keep
<1>7. ASSUME NEW b \in Branch, Abort(b)
      PROVE  Inv' /\ AsBranches!Drop(b)
  <2>1. /\ Inv' /\ base' = base /\ b \in running /\ running' = running \ {b}
        /\ \A c \in Branch : c # b => StateMap(c)' = StateMap(c) /\ TxMap(c)' = TxMap(c)
        /\ StateMap(b)' = StateMap(b) /\ TxMap(b)' = StateMap(b)
    BY <1>7, AbortStep
  <2>2. br' = br /\ cp' = [cp EXCEPT ![b] = br[b]]
    BY <2>1
  <2> QED BY <2>1, <2>2 DEF AsBranches!Drop
<1>8. ASSUME setDeliverState
      PROVE  Inv' /\ UNCHANGED (AsBranches!vars)
  <2>1. /\ Inv' /\ UNCHANGED <<base, running>>
        /\ \A c \in Branch : StateMap(c)' = StateMap(c) /\ TxMap(c)' = TxMap(c)
    BY <1>8, BeginStep
  <2> QED BY <2>1 DEF AsBranches!vars
<1>9. ASSUME Commit
      PROVE  Inv' /\ AsBranches!Commit("deliver") /\ "deliver" \in Branch
  <2>1. /\ Inv' /\ running = {} /\ running' = running
        /\ base' = StateMap("deliver")
        /\ \A c \in Branch : StateMap(c)' = base' /\ TxMap(c)' = base'
    BY <1>9, CommitStep
  <2>2. "deliver" \in Branch
    BY DEF Branch
  <2>3. br' = [c \in Branch |-> br["deliver"]] /\ cp' = br' /\ base' = br["deliver"]
    BY <2>1, <2>2
  <2> QED BY <2>1, <2>2, <2>3 DEF AsBranches!Commit
<1>10. CASE UNCHANGED cacheVars
  <2>1. \A c \in Branch : StateMap(c)' = StateMap(c) /\ TxMap(c)' = TxMap(c) /\ (BranchOK(c) => BranchOK(c)')
    BY <1>10 DEF cacheVars, StateMap, TxMap, BranchOK
  <2>2. Inv'
    BY <1>10, <2>1 DEF cacheVars, Inv
  <2> QED BY <1>10, <2>1, <2>2 DEF cacheVars, AsBranches!vars
<1>11. CASE Next
  <2>1. \A b \in Branch, k \in Keys, value \in Values : Set(b, k, value) =>
            Inv' /\ AsBranches!Put(b, k, value)
    BY <1>2, <1>3
  <2>2. \A b \in Branch, k \in Keys : Delete(b, k) => Inv' /\ AsBranches!Put(b, k, Nil)
    BY <1>2, <1>4
  <2> QED BY <1>11, <2>1, <2>2, <1>1, <1>5, <1>6, <1>7, <1>8, <1>9 DEF Next, AsBranches!Next
<1> QED BY <1>10, <1>11

\* No cached entry goes stale: whatever is read, written, kept or dropped in either
\* state, the caches stay sound with respect to what is beneath them.
THEOREM CachesSound == Spec => []NoStaleEntry
<1>1. Inv => NoStaleEntry
  BY DEF Inv, BranchOK, NoStaleEntry
<1> QED BY <1>1, InitOK, NextStep, PTL DEF Spec

\* The caches of the application implement private copies of the committed store.
THEOREM CachesImplementBranches == Spec => BranchesSpec
<1>1. Init => AsBranches!Init
  <2> SUFFICES ASSUME Init PROVE AsBranches!Init
    OBVIOUS
  <2>1. base \in MapOf /\ running = {} /\ \A b \in Branch : state[b] = Empty /\ msCache[b] = Empty
    BY DEF Init, MapOf
  <2>2. \A b \in Branch : StateMap(b) = base /\ TxMap(b) = base
    BY <2>1, SeenEmpty DEF StateMap, TxMap
  <2> QED BY <2>1, <2>2 DEF AsBranches!Init, AsBranches!Map, MapOf
<1> QED BY <1>1, InitOK, NextStep, PTL DEF Spec, BranchesSpec, AsBranches!Spec
=============================================================================
