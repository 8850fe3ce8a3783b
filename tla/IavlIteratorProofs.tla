------------------------- MODULE IavlIteratorProofs -------------------------
(***************************************************************************)
(* Proofs about the IAVL iterator: for any number of callers and of items   *)
(* nothing is lost or repeated between the goroutines, and what the lock    *)
(* protects is read by its holder only.                                     *)
(***************************************************************************)
EXTENDS IavlIterator, TLAPS

\* The iterator starts in order.
LEMMA InitOK == ASSUME Init PROVE ItemsInOrder
<1>1. \A c \in Callers : c # Free /\ call[c] = Idle /\ calls[c] = 0
  BY CallersAssumption DEF Init
<1>2. n \in Nat /\ sent = 0 /\ key = 0
  BY ItemsAssumption DEF Init
<1>3. TypeOK
  <2>1. call \in [Callers -> {Idle} \cup [op : Ops, at : {"init", "locked"}]] /\ calls \in [Callers -> Nat]
    BY DEF Init
  <2>2. sent \in 0..n /\ key \in 0..n
    BY <1>2
  <2> QED BY <1>2, <2>1, <2>2 DEF Init, TypeOK
<1>4. Exclusive
  BY <1>1 DEF Init, Exclusive, Holds, Idle
<1>5. NoneLost
  BY <1>2 DEF Init, NoneLost
<1> QED BY <1>3, <1>4, <1>5 DEF ItemsInOrder

\* Whoever takes from the channel, it gets the next item or the end.
LEMMA Received ==
    ASSUME ItemsInOrder, receiveNext, n' = n, iterCh' = iterCh, quit' = quit
    PROVE  /\ sent' \in 0..n /\ key' = sent' /\ invalid' \in BOOLEAN
           /\ key' = key \/ key' = key + 1
           /\ key' > 0 \/ invalid'
           /\ invalid' => iterCh = "closed" /\ key' = key
           /\ iterCh = "closed" => sent' = sent
<1>0. n \in Nat /\ sent \in 0..n /\ key = sent /\ invalid \in BOOLEAN /\ ~invalid
  BY DEF ItemsInOrder, TypeOK, NoneLost, receiveNext
<1>1. CASE Offered /\ sent' = sent + 1 /\ key' = sent + 1 /\ invalid' = invalid
  <2>1. iterCh = "open" /\ sent' \in 0..n /\ key' = sent' /\ key' = key + 1 /\ key' > 0
    BY <1>0, <1>1 DEF Offered
  <2> QED BY <1>0, <1>1, <2>1
<1>2. CASE Ended /\ invalid' = TRUE /\ sent' = sent /\ key' = key
  BY <1>0, <1>2 DEF Ended
<1> QED BY <1>1, <1>2 DEF receiveNext

\* A caller's call changes: the others are where they were.
LEMMA OneCall ==
    ASSUME ItemsInOrder, NEW c \in Callers,
           NEW v \in {Idle} \cup [op : Ops, at : {"init", "locked"}],
           call' = [call EXCEPT ![c] = v]
    PROVE  /\ call' \in [Callers -> {Idle} \cup [op : Ops, at : {"init", "locked"}]]
           /\ call'[c] = v
           /\ \A d \in Callers : d # c => call'[d] = call[d]
  BY DEF ItemsInOrder, TypeOK

\* Every step keeps the items in order and the lock exclusive, and moves forward.
LEMMA NextOK ==
    ItemsInOrder /\ [Next]_vars =>
        /\ ItemsInOrder'
        /\ (key' = key \/ key' = key + 1) /\ (invalid => invalid' /\ key' = key)
<1> SUFFICES ASSUME ItemsInOrder, [Next]_vars
             PROVE  /\ ItemsInOrder'
                    /\ (key' = key \/ key' = key + 1) /\ (invalid => invalid' /\ key' = key)
  OBVIOUS
<1> USE DEF ItemsInOrder
<1>1. CASE Stop
  BY <1>1 DEF Stop, TypeOK, Exclusive, Holds, NoneLost
<1>2. CASE InitReceive
  <2>1. n' = n /\ iterCh' = iterCh /\ quit' = quit /\ receiveNext /\ ~invalid
    BY <1>2 DEF InitReceive, receiveNext
  <2>2. /\ sent' \in 0..n /\ key' = sent' /\ invalid' \in BOOLEAN
        /\ key' = key \/ key' = key + 1
        /\ key' > 0 \/ invalid'
        /\ invalid' => iterCh = "closed" /\ key' = key
        /\ iterCh = "closed" => sent' = sent
    BY <2>1, Received
  <2>3. \A c \in Callers : ~Holds(c)
    BY <1>2 DEF InitReceive, Exclusive
  <2>4. TypeOK'
    BY <1>2, <2>1, <2>2 DEF InitReceive, TypeOK
  <2>5. Exclusive'
    BY <1>2, <2>3 DEF InitReceive, Exclusive, Holds
  <2>6. NoneLost'
    BY <1>2, <2>1, <2>2 DEF InitReceive, NoneLost
  <2> QED BY <2>1, <2>2, <2>4, <2>5, <2>6
<1>3. CASE InitClose
  BY <1>3 DEF InitClose, TypeOK, Exclusive, Holds, NoneLost
<1>4. ASSUME NEW c \in Callers, NEW op \in Ops, Call(c, op)
      PROVE  ItemsInOrder' /\ UNCHANGED <<key, invalid>>
  <2> DEFINE v == [op |-> op, at |-> "init"]
  <2>1. v \in [op : Ops, at : {"init", "locked"}] /\ call' = [call EXCEPT ![c] = v]
    BY <1>4 DEF Call
  <2>2. /\ call' \in [Callers -> {Idle} \cup [op : Ops, at : {"init", "locked"}]]
        /\ call'[c] = v
        /\ \A d \in Callers : d # c => call'[d] = call[d]
    BY <2>1, OneCall
  <2>3. ~Holds(c) /\ ~Holds(c)'
    BY <1>4, <2>2 DEF Call, Holds, Idle
  <2>4. calls' \in [Callers -> Nat]
    BY <1>4 DEF Call, TypeOK
  <2>5. TypeOK'
    BY <1>4, <2>2, <2>4 DEF Call, TypeOK
  <2>6. Exclusive'
    BY <1>4, <2>2, <2>3 DEF Call, Exclusive, Holds
  <2>7. NoneLost' /\ UNCHANGED <<key, invalid>>
    BY <1>4 DEF Call, NoneLost
  <2> QED BY <2>5, <2>6, <2>7
<1>5. ASSUME NEW c \in Callers, Lock(c)
      PROVE  ItemsInOrder' /\ UNCHANGED <<key, invalid>>
  <2> DEFINE v == [call[c] EXCEPT !.at = "locked"]
  <2>1. call[c] \in [op : Ops, at : {"init", "locked"}]
    BY <1>5 DEF Lock, TypeOK, Idle
  <2>2. v \in [op : Ops, at : {"init", "locked"}] /\ call' = [call EXCEPT ![c] = v] /\ v.at = "locked"
    BY <1>5, <2>1 DEF Lock
  <2>3. /\ call' \in [Callers -> {Idle} \cup [op : Ops, at : {"init", "locked"}]]
        /\ call'[c] = v
        /\ \A d \in Callers : d # c => call'[d] = call[d]
    BY <2>2, OneCall
  <2>4. Holds(c)' /\ mtx = Free /\ mtx' = c /\ init = "done" /\ init' = "done"
    BY <1>5, <2>2, <2>3 DEF Lock, Holds
  <2>5. TypeOK'
    BY <1>5, <2>3 DEF Lock, TypeOK
  <2>6. Exclusive'
    BY <2>3, <2>4, CallersAssumption DEF Exclusive, Holds
  <2>7. NoneLost' /\ UNCHANGED <<key, invalid>>
    BY <1>5 DEF Lock, NoneLost
  <2> QED BY <2>5, <2>6, <2>7
<1>6. ASSUME NEW c \in Callers, call[c].at = "locked", mtx' = Free,
             call' = [call EXCEPT ![c] = Idle], UNCHANGED <<init, calls>>
      PROVE  /\ call' \in [Callers -> {Idle} \cup [op : Ops, at : {"init", "locked"}]]
             /\ Exclusive'
  <2>1. /\ call' \in [Callers -> {Idle} \cup [op : Ops, at : {"init", "locked"}]]
        /\ call'[c] = Idle
        /\ \A d \in Callers : d # c => call'[d] = call[d]
    BY <1>6, OneCall
  <2>2. mtx = c
    BY <1>6 DEF Exclusive, Holds
  <2> QED BY <1>6, <2>1, <2>2, CallersAssumption DEF Exclusive, Holds, Idle
<1>7. ASSUME NEW c \in Callers, Return(c)
      PROVE  ItemsInOrder' /\ UNCHANGED <<key, invalid>>
  <2>1. /\ call' \in [Callers -> {Idle} \cup [op : Ops, at : {"init", "locked"}]]
        /\ Exclusive'
    BY <1>6, <1>7 DEF Return
  <2> QED BY <1>7, <2>1 DEF Return, TypeOK, NoneLost
<1>8. ASSUME NEW c \in Callers, Next_(c)
      PROVE  /\ ItemsInOrder'
             /\ (key' = key \/ key' = key + 1) /\ ~invalid
  <2>1. /\ call' \in [Callers -> {Idle} \cup [op : Ops, at : {"init", "locked"}]]
        /\ Exclusive'
    BY <1>6, <1>8 DEF Next_
  <2>2. n' = n /\ iterCh' = iterCh /\ quit' = quit /\ receiveNext /\ ~invalid
    BY <1>8 DEF Next_, receiveNext
  <2>3. /\ sent' \in 0..n /\ key' = sent' /\ invalid' \in BOOLEAN
        /\ key' = key \/ key' = key + 1
        /\ key' > 0 \/ invalid'
        /\ invalid' => iterCh = "closed" /\ key' = key
        /\ iterCh = "closed" => sent' = sent
    BY <2>2, Received
  <2>4. TypeOK'
    BY <1>8, <2>1, <2>2, <2>3 DEF Next_, TypeOK
  <2>5. NoneLost'
    BY <1>8, <2>2, <2>3 DEF Next_, NoneLost
  <2> QED BY <2>1, <2>2, <2>3, <2>4, <2>5
<1>9. CASE Close
  BY <1>9 DEF Close, TypeOK, Exclusive, Holds, NoneLost
<1>10. CASE UNCHANGED vars
  BY <1>10 DEF vars, TypeOK, Exclusive, Holds, NoneLost
<1>11. key \in Nat /\ (Stop \/ InitClose \/ Close \/ UNCHANGED vars => UNCHANGED <<key, invalid>>)
       /\ (InitReceive => ~invalid)
  BY DEF TypeOK, Stop, InitClose, Close, vars, InitReceive, receiveNext
<1> QED BY <1>1, <1>2, <1>3, <1>4, <1>5, <1>7, <1>8, <1>9, <1>10, <1>11 DEF Next

\* For any number of callers and items: what the lock protects is set before it is
\* read and by its holder only, and no item is lost, repeated or out of order.
THEOREM InOrder == Spec => []ItemsInOrder
  BY InitOK, NextOK, PTL DEF Spec

\* The current item never goes back, and an invalid iterator stays so.
THEOREM NeverBack == Spec => Forward
<1>1. ItemsInOrder /\ [Next]_vars =>
          [(key' = key \/ key' = key + 1) /\ (invalid => invalid' /\ key' = key)]_vars
  BY NextOK
<1> QED BY <1>1, InOrder, PTL DEF Spec, Forward
=============================================================================
