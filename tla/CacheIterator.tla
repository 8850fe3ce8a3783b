---------------------------- MODULE CacheIterator ----------------------------
(***************************************************************************)
(* Iteration over a store through the caches of CacheKV: one merging        *)
(* iterator per cache (src/store/cachekv/mergeiterator.go, memiterator.go)  *)
(* over the iterator of the committed store, seen through a prefix store    *)
(* (src/store/prefix/store.go).  Keepers set and delete while they iterate. *)
(*                                                                          *)
(* An iterator is a value: of the committed store, and of a cache's dirty   *)
(* items, the sequence of <<key, value>> still to come; of a cache, the     *)
(* parent's iterator and that of the dirty items, where a deleted key has   *)
(* the value Nil.  All are taken when the iterator is opened.               *)
(***************************************************************************)
EXTENDS CacheKV, Integers, SequencesExt

CONSTANTS
    MaxByte,   \* the largest byte
    Stored,    \* bound: what the store holds at first
    Written,   \* bound: values that are set
    Ranges,    \* bound: <<prefix, start, end>> that are iterated over
    MaxOps     \* bound: reads and writes in every branch

ASSUME BytesAssumption ==
    /\ Written \subseteq Values /\ MaxByte \in Nat /\ MaxOps \in [Branch -> Nat]
    /\ \A k \in Keys : k \in Seq(0..MaxByte) /\ k # <<>>
    /\ \A r \in Ranges : /\ r[1] \in Seq(0..MaxByte) /\ r[2] \in Seq(0..MaxByte)
                         /\ r[3] \in Seq(0..MaxByte) \cup {<<-1>>}

VARIABLES
    iter,  \* the open iterator, or NoIter
    ops

vars == <<base, state, msCache, running, live, iter, ops>>

NoIter == [open |-> FALSE]
NoEnd == <<-1>>  \* the end nil

\* bytes.Compare(a, b) < 0
Less(a, b) ==
    \/ IsStrictPrefix(a, b)
    \/ \E i \in DOMAIN a \cap DOMAIN b :
           a[i] < b[i] /\ \A j \in 1..(i - 1) : a[j] = b[j]

\* cacheMergeIterator.compare(a, b) < 0
Before(a, b, ascending) == IF ascending THEN Less(a, b) ELSE Less(b, a)

IsKeyInDomain(k, start, end) == ~Less(k, start) /\ (end = NoEnd \/ Less(k, end))

\* The first key after all those with the prefix: trailing largest bytes are cut off.
PrefixEndBytes(prefix) ==
    LET rest == {i \in DOMAIN prefix : prefix[i] # MaxByte}
    IN  IF rest = {} THEN NoEnd
        ELSE LET i == Max(rest) IN [SubSeq(prefix, 1, i) EXCEPT ![i] = @ + 1]

Ascending == SetToSortSeq(Keys, Less)
Descending == Reverse(Ascending)

\* The items of the map m under keys, in the order of the iteration.
Items(m, keys, ascending) ==
    LET sorted == SelectSeq(IF ascending THEN Ascending ELSE Descending, LAMBDA k : k \in keys)
    IN  [i \in DOMAIN sorted |-> <<sorted[i], m[sorted[i]]>>]
-----------------------------------------------------------------------------
(* Merging iterators; a store's own has an empty cache and itself as parent *)

Leaf(items) == [leaf |-> TRUE, items |-> items]
Merge(parent, items) == [leaf |-> FALSE, parent |-> parent, items |-> items]

\* skipCacheDeletes
RECURSIVE skipCacheDeletes(_, _, _)
skipCacheDeletes(items, until, ascending) ==
    IF items # <<>> /\ items[1][2] = Nil /\ (until = NoEnd \/ Before(items[1][1], until, ascending))
    THEN skipCacheDeletes(Tail(items), until, ascending)
    ELSE items

\* Validity, current item and successor of an iterator that has skipped.
RECURSIVE Valid(_)
Valid(it) == it.items # <<>> \/ (~it.leaf /\ Valid(it.parent))

\* The cache's item is the current one; with the parent's if they have the same key.
RECURSIVE Item(_, _)
FromCache(it, ascending) ==
    /\ it.items # <<>>
    /\ ~Valid(it.parent) \/ ~Before(Item(it.parent, ascending)[1], it.items[1][1], ascending)
Item(it, ascending) ==
    IF it.leaf \/ FromCache(it, ascending) THEN it.items[1] ELSE Item(it.parent, ascending)

\* Mutant: a deleted item that is also in the parent is skipped in the cache alone.
RECURSIVE skipInCacheOnly(_, _)
skipInCacheOnly(it, ascending) ==
    IF it.leaf THEN it
    ELSE LET p == skipInCacheOnly(it.parent, ascending)
         IN  [it EXCEPT !.parent = p,
                        !.items = skipCacheDeletes(@, NoEnd, ascending)]

RECURSIVE skipUntilExistsOrInvalid(_, _), Next_(_, _)

\* The parent's Valid, called first, skips in the parent.
skipUntilExistsOrInvalid(it, ascending) ==
    IF it.leaf THEN it
    ELSE LET p == skipUntilExistsOrInvalid(it.parent, ascending)
             merged == [it EXCEPT !.parent = p]
         IN  IF ~Valid(p) THEN [merged EXCEPT !.items = skipCacheDeletes(@, NoEnd, ascending)]
             ELSE IF it.items = <<>> \/ it.items[1][2] # Nil THEN merged
             ELSE LET keyP == Item(p, ascending)[1]
                      keyC == it.items[1][1]
                  IN  IF Before(keyP, keyC, ascending) THEN merged
                      ELSE skipUntilExistsOrInvalid(
                               IF keyP = keyC
                               THEN [it EXCEPT !.parent = Next_(p, ascending), !.items = Tail(@)]
                               ELSE [merged EXCEPT !.items = skipCacheDeletes(@, keyP, ascending)],
                               ascending)

\* Next of an iterator that has skipped.
Next_(it, ascending) ==
    IF it.leaf THEN [it EXCEPT !.items = Tail(@)]
    ELSE LET fromCache == FromCache(it, ascending)
             both == /\ fromCache /\ Valid(it.parent)
                     /\ Item(it.parent, ascending)[1] = it.items[1][1]
         IN  [it EXCEPT !.items = IF fromCache THEN Tail(@) ELSE @,
                        !.parent = IF ~fromCache \/ both THEN Next_(@, ascending) ELSE @]
-----------------------------------------------------------------------------
(* Iterating *)

\* cachekv.Store.iterator over that of a parent.
dirtyItems(c, start, end, ascending) ==
    Items([k \in Dirty(c) |-> c[k].value],
          {k \in Dirty(c) : IsKeyInDomain(k, start, end)}, ascending)

\* The iterator of the top cache of branch b.
Stacked(b, start, end, ascending) ==
    LET stored == {k \in Keys : base[k] # Nil /\ IsKeyInDomain(k, start, end)}
        below  == Merge(Leaf(Items(base, stored, ascending)),
                        dirtyItems(state[b], start, end, ascending))
    IN  IF b \in running THEN Merge(below, dirtyItems(msCache[b], start, end, ascending)) ELSE below

Counted(b) == ops[b] < MaxOps[b] /\ ops' = [ops EXCEPT ![b] = @ + 1]

\* Iterator and ReverseIterator of a prefix store, from start on and before end.
Iterator(b, prefix, start, end, ascending) ==
    /\ May(b) /\ ~iter.open
    /\ LET newend == IF end = NoEnd THEN PrefixEndBytes(prefix) ELSE prefix \o end
           it     == skipUntilExistsOrInvalid(
                         Stacked(b, prefix \o start, newend, ascending), ascending)
           seen   == {k \in Keys : /\ TxMap(b)[k] # Nil /\ IsPrefix(prefix, k)
                                   /\ ~Less(k, prefix \o start)
                                   /\ (end = NoEnd \/ Less(k, prefix \o end))}
       IN  iter' = [open |-> TRUE, prefix |-> prefix, ascending |-> ascending, it |-> it,
                    valid |-> Valid(it) /\ IsPrefix(prefix, Item(it, ascending)[1]),
                    out |-> <<>>, expected |-> Items(TxMap(b), seen, ascending)]
    /\ UNCHANGED <<base, state, msCache, running, live, ops>>

\* Key, Value and Next of the prefix iterator.
NextItem ==
    /\ iter.open /\ iter.valid
    /\ LET it == skipUntilExistsOrInvalid(Next_(iter.it, iter.ascending), iter.ascending)
       IN  iter' = [iter EXCEPT !.it = it, !.out = Append(@, Item(iter.it, iter.ascending)),
                                !.valid = /\ Valid(it)
                                          /\ IsPrefix(iter.prefix, Item(it, iter.ascending)[1])]
    /\ UNCHANGED <<base, state, msCache, running, live, ops>>

Close ==
    /\ iter.open
    /\ iter' = NoIter
    /\ UNCHANGED <<base, state, msCache, running, live, ops>>

\* An iterator does not outlive the cache that it was taken of.
IterInit == Init /\ base \in Stored /\ iter = NoIter /\ ops = [b \in Branch |-> 0]

IterNext ==
    \/ /\ \E b \in Branch, k \in Keys :
           /\ \/ Get(b, k)
              \/ \E value \in Written : Set(b, k, value)
              \/ Delete(b, k)
           /\ Counted(b)
       /\ UNCHANGED iter
    \/ /\ ~iter.open
       /\ \/ \E b \in Branch : CacheWrap(b) \/ Write(b) \/ Abort(b)
          \/ setDeliverState
          \/ Commit
       /\ UNCHANGED <<iter, ops>>
    \/ \E b \in Branch, r \in Ranges, ascending \in BOOLEAN :
           Iterator(b, r[1], r[2], r[3], ascending)
    \/ NextItem
    \/ Close

IterSpec == IterInit /\ [][IterNext]_vars
-----------------------------------------------------------------------------
\* Whatever is set and deleted meanwhile, an iterator gives the keys with the prefix, and
\* their values, as all the caches together had them when it was opened: each once, in
\* order, none that was deleted in any of them, and all of them before it is invalid.
IterationExact ==
    iter.open => /\ IsPrefix(iter.out, iter.expected)
                 /\ iter.valid <=> iter.out # iter.expected
=============================================================================
