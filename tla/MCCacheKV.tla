----------------------------- MODULE MCCacheKV -----------------------------
(* A small instance of CacheIterator for TLC: bytes 0 and 1. *)
EXTENDS CacheIterator

SomeKeys == {<<0>>, <<0, 1>>, <<1>>}
SomeStored == {[k \in Keys |-> IF k = <<0, 1>> THEN Nil ELSE "a"]}
SomeOps == [deliver |-> 3, check |-> 1]

\* All keys, and those with the prefix 01, whose last byte is the largest.
SomeRanges == {<<(<<>>), <<>>, NoEnd>>, <<(<<0, 1>>), <<>>, NoEnd>>}
=============================================================================
