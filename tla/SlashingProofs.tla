--------------------------- MODULE SlashingProofs ---------------------------
(***************************************************************************)
(* Slashing, for any validators, window, durations and block times that     *)
(* SlashingAssumption allows.                                               *)
(***************************************************************************)
EXTENDS Slashing, FiniteSetTheorems, TLAPS

USE SlashingAssumption

W == SignedBlocksWindow
-----------------------------------------------------------------------------
(* The ring *)

\* Where the i-th of the last n votes is kept when the offset is o.
Slot(o, n, i) == (o - 1 - (n - i)) % W

\* The bits of the votes r.
Bits(o, r) == {Slot(o, Len(r), i) : i \in {j \in 1..Len(r) : r[j]}}

\* The votes after one more.
Pushed(r, b) ==
    LET all == Append(r, b) IN IF Len(all) > W THEN Tail(all) ELSE all

\* Numbers less than w apart have their own places in a ring of w.
LEMMA ModDistinct ==
  ASSUME NEW w \in Nat \ {0}, NEW a \in Nat, NEW b \in Nat, b < a, a < b + w
  PROVE  a % w # b % w
<1> DEFINE p == a \div w
           q == b \div w
<1>1. a = w * p + (a % w) /\ b = w * q + (b % w)
  OBVIOUS
<1>2. p \in Int /\ q \in Int /\ a % w \in Int /\ b % w \in Int
  OBVIOUS
<1>3. SUFFICES ASSUME a % w = b % w PROVE FALSE
  OBVIOUS
<1> HIDE DEF p, q
<1>4. a - b = w * (p - q)
  BY <1>1, <1>2, <1>3
<1>5. p - q >= 1
  BY <1>2, <1>4
<1>6. w * (p - q) >= w
  BY <1>2, <1>5
<1> QED  BY <1>4, <1>6

\* A number w away has the same place.
LEMMA ModSame ==
  ASSUME NEW w \in Nat \ {0}, NEW a \in Nat, a >= w
  PROVE  (a - w) % w = a % w
<1> DEFINE p == a \div w
           c == a - w
           q == c \div w
<1>1. a = w * p + (a % w) /\ c = w * q + (c % w)
  OBVIOUS
<1>2. p \in Int /\ q \in Int /\ a % w \in 0..(w-1) /\ c % w \in 0..(w-1)
  OBVIOUS
<1> DEFINE d == p - q - 1
           e == (c % w) - (a % w)
<1>3. w * d = e
  BY <1>1, <1>2
<1>4. d \in Int /\ e \in Int /\ e < w /\ e > -w
  BY <1>2
<1> HIDE DEF d, e
<1>5. d < 1
  <2>1. SUFFICES ASSUME d >= 1 PROVE w * d >= w
    BY <1>3, <1>4
  <2> QED  BY <2>1, <1>4
<1>6. d > -1
  <2>1. SUFFICES ASSUME d =< -1 PROVE w * d =< -w
    BY <1>3, <1>4
  <2> QED  BY <2>1, <1>4
<1>7. e = 0
  BY <1>3, <1>4, <1>5, <1>6
<1> QED  BY <1>2, <1>7 DEF e

\* Membership of the bits.
LEMMA InBits ==
  ASSUME NEW o, NEW r \in Seq(BOOLEAN), NEW x
  PROVE  x \in Bits(o, r) <=> \E i \in 1..Len(r) : r[i] = TRUE /\ x = Slot(o, Len(r), i)
<1>1. \A i \in 1..Len(r) : r[i] \in BOOLEAN
  OBVIOUS
<1> QED  BY <1>1, Zenon DEF Bits

\* A vote is written over the one that is W votes old, and over no other.
LEMMA RingStep ==
  ASSUME NEW o \in Nat, NEW r \in Seq(BOOLEAN), Len(r) =< W, Len(r) =< o, NEW b \in BOOLEAN
  PROVE  /\ Pushed(r, b) \in Seq(BOOLEAN)
         /\ Len(Pushed(r, b)) =< W /\ Len(Pushed(r, b)) =< o + 1
         /\ Bits(o + 1, Pushed(r, b)) =
                IF b THEN Bits(o, r) \cup {o % W} ELSE Bits(o, r) \ {o % W}
<1> DEFINE n == Len(r)
           all == Append(r, b)
           slot(i) == (o - 1 - (n - i)) % W
<1>1. n \in Nat /\ all \in Seq(BOOLEAN) /\ Len(all) = n + 1 /\ all[n + 1] = b
      /\ \A i \in 1..n : all[i] = r[i]
  OBVIOUS
<1>2. W \in Nat \ {0}
  BY DEF W
<1>3. \A x : x \in Bits(o, r) <=> \E i \in 1..n : r[i] = TRUE /\ x = slot(i)
  BY InBits DEF Slot
<1>4. CASE n < W
  <2>1. Pushed(r, b) = all
    BY <1>1, <1>2, <1>4 DEF Pushed
  <2>2. \A x : x \in Bits(o + 1, all) <=> \E i \in 1..(n+1) : all[i] = TRUE /\ x = ((o + 1) - 1 - ((n + 1) - i)) % W
    <3>1. \A x : x \in Bits(o + 1, all) <=> \E i \in 1..Len(all) : all[i] = TRUE /\ x = Slot(o + 1, Len(all), i)
      <4> HIDE DEF all
      <4> QED  BY <1>1, InBits
    <3> QED  BY <3>1, <1>1, Zenon DEF Slot
  <2>3. \A i \in 1..(n+1) : (o + 1) - 1 - ((n + 1) - i) = o - 1 - (n - i)
    BY <1>1
  <2>4. o - 1 - (n - (n + 1)) = o
    BY <1>1
  <2>5. \A i \in 1..n : slot(i) # o % W
    <3>1. TAKE i \in 1..n
    <3>2. o - 1 - (n - i) \in Nat /\ o - 1 - (n - i) < o /\ o < (o - 1 - (n - i)) + W
      BY <1>1, <1>2, <1>4
    <3> QED  BY <3>2, <1>2, ModDistinct
  <2> HIDE DEF slot, all, n
  <2>6. \A x : x \in Bits(o + 1, all) <=> (x \in Bits(o, r) \/ (b = TRUE /\ x = o % W))
    <3> SUFFICES ASSUME NEW x PROVE x \in Bits(o + 1, all) <=> (x \in Bits(o, r) \/ (b = TRUE /\ x = o % W))
      OBVIOUS
    <3>1. x \in Bits(o + 1, all) <=> \E i \in 1..(n+1) : all[i] = TRUE /\ x = slot(i)
      BY <2>2, <2>3 DEF slot
    <3>2. slot(n + 1) = o % W
      BY <2>4 DEF slot
    <3>3. \A i : i \in 1..(n + 1) <=> i \in 1..n \/ i = n + 1
      BY <1>1
    <3> QED  BY <1>1, <1>3, <3>1, <3>2, <3>3
  <2>7. o % W \notin Bits(o, r)
    BY <1>3, <2>5
  <2>8. Bits(o + 1, all) = IF b THEN Bits(o, r) \cup {o % W} ELSE Bits(o, r) \ {o % W}
    BY <2>6, <2>7, Zenon
  <2>9. Len(all) =< W /\ Len(all) =< o + 1
    BY <1>1, <1>2, <1>4 DEF n
  <2> QED  BY <1>1, <2>1, <2>8, <2>9, Zenon
<1>5. CASE n = W
  <2>1. Pushed(r, b) = Tail(all) /\ Tail(all) \in Seq(BOOLEAN) /\ Len(Tail(all)) = n
    BY <1>1, <1>2, <1>5 DEF Pushed
  <2>2. \A i \in 1..n : Tail(all)[i] = all[i + 1]
    BY <1>1
  <2>3. \A x : x \in Bits(o + 1, Tail(all)) <=>
                  \E i \in 1..n : Tail(all)[i] = TRUE /\ x = ((o + 1) - 1 - (n - i)) % W
    <3> DEFINE t == Tail(all)
    <3>1. t \in Seq(BOOLEAN) /\ Len(t) = n
      BY <2>1
    <3> HIDE DEF t
    <3>2. \A x : x \in Bits(o + 1, t) <=> \E i \in 1..Len(t) : t[i] = TRUE /\ x = Slot(o + 1, Len(t), i)
      BY <3>1, InBits
    <3> QED  BY <3>1, <3>2, Zenon DEF Slot, t
  <2>4. slot(1) = o % W /\ slot(n + 1) = o % W
    <3>1. o - 1 - (n - 1) = o - W /\ o - 1 - (n - (n + 1)) = o /\ o >= W
      BY <1>1, <1>2, <1>5
    <3> QED  BY <1>2, <3>1, ModSame
  <2>5. \A i \in 1..n : (o + 1) - 1 - (n - i) = o - 1 - (n - (i + 1))
    BY <1>1
  <2>6. \A i \in 2..n : slot(i) # o % W
    <3>1. TAKE i \in 2..n
    <3>2. o - 1 - (n - i) \in Nat /\ o - 1 - (n - i) < o /\ o < (o - 1 - (n - i)) + W
      BY <1>1, <1>2, <1>5
    <3> QED  BY <3>2, <1>2, ModDistinct
  <2>7. \A i \in 1..n : ((o + 1) - 1 - (n - i)) % W = slot(i + 1)
    BY <2>5
  <2> HIDE DEF slot, all, n
  <2>8. ASSUME NEW x
        PROVE  x \in Bits(o + 1, Tail(all)) <=> ((x \in Bits(o, r) /\ x # o % W) \/ (b = TRUE /\ x = o % W))
    <3>1. x \in Bits(o + 1, Tail(all)) <=> \E i \in 1..n : all[i + 1] = TRUE /\ x = slot(i + 1)
      BY <2>2, <2>3, <2>7
    <3>2. (\E i \in 1..n : all[i + 1] = TRUE /\ x = slot(i + 1))
             <=> (\E i \in 2..n : r[i] = TRUE /\ x = slot(i)) \/ (b = TRUE /\ x = o % W)
      <4>1. ASSUME NEW i \in 1..n, all[i + 1] = TRUE, x = slot(i + 1)
            PROVE  (\E j \in 2..n : r[j] = TRUE /\ x = slot(j)) \/ (b = TRUE /\ x = o % W)
        <5>1. CASE i = n
          BY <4>1, <5>1, <1>1, <2>4
        <5>2. CASE i # n
          <6>1. i + 1 \in 2..n /\ i + 1 \in 1..n
            BY <5>2, <1>1
          <6>2. r[i + 1] = TRUE
            BY <6>1, <4>1, <1>1
          <6> QED  BY <6>1, <6>2, <4>1
        <5> QED  BY <5>1, <5>2
      <4>2. ASSUME NEW j \in 2..n, r[j] = TRUE, x = slot(j)
            PROVE  \E i \in 1..n : all[i + 1] = TRUE /\ x = slot(i + 1)
        <5>1. j - 1 \in 1..n /\ (j - 1) + 1 = j /\ j \in 1..n
          BY <1>1
        <5> QED  BY <5>1, <4>2, <1>1
      <4>3. ASSUME b = TRUE, x = o % W
            PROVE  \E i \in 1..n : all[i + 1] = TRUE /\ x = slot(i + 1)
        <5>1. n \in 1..n
          BY <1>1, <1>2, <1>5
        <5> QED  BY <5>1, <4>3, <1>1, <2>4
      <4> QED  BY <4>1, <4>2, <4>3
    <3>3. (x \in Bits(o, r) /\ x # o % W) <=> \E i \in 2..n : r[i] = TRUE /\ x = slot(i)
      <4>1. \A i : i \in 1..n <=> i = 1 \/ i \in 2..n
        BY <1>1, <1>2, <1>5
      <4> QED  BY <4>1, <1>3, <2>4, <2>6
    <3> QED  BY <3>1, <3>2, <3>3
  <2>9. Bits(o + 1, Tail(all)) = IF b THEN Bits(o, r) \cup {o % W} ELSE Bits(o, r) \ {o % W}
    BY <2>8, Zenon
  <2>10. Len(Tail(all)) =< W /\ Len(Tail(all)) =< o + 1
    BY <1>1, <1>2, <1>5, <2>1 DEF n
  <2> QED  BY <2>1, <2>9, <2>10, Zenon
<1> QED  BY <1>1, <1>2, <1>4, <1>5
-----------------------------------------------------------------------------
(* The inductive invariant *)

Staked(v) == vals[v].status \in {"Bonded", "Unbonding"}

\* A validator has its key in the relation and, once bonded, a signing info.
KnownInv ==
    \A v \in Validators :
        /\ vals[v].status # "None" => v \in pubkeys
        /\ Staked(v) => infos[v].found
        /\ ~infos[v].found => infos[v] = NoInfo

\* v left the validator set so late that its unbonding ends UnbondingTime after time.
LeftSince(v, time) == vals[v].status = "Bonded" \/ (vals[v].status = "Unbonding" /\ vals[v].until >= time)

\* Who is to sign the next blocks is bonded, or left at most two blocks ago; after a block
\* no bonded validator is in jail.
SignersInv ==
    /\ nextVals = {v \in Validators : vals[v].status = "Bonded"}
    /\ phase = "committed" =>
           /\ \A v \in nextVals : ~vals[v].jailed
           /\ \A v \in curVals : LeftSince(v, now + UnbondingTime)
           /\ \A v \in lastVals : \E last \in TimeSteps : LeftSince(v, now - last + UnbondingTime)
    /\ phase = "deliver" =>
           /\ TimeSteps # {}
           /\ \A v \in curVals : \E last \in TimeSteps : LeftSince(v, now - last + UnbondingTime)

\* Who signed a block is bonded, or unbonding at least until evidence is too old, or
\* evidence is too old by now.
EvidenceInv ==
    \A e \in signed :
        /\ e[2] =< now
        /\ LeftSince(e[1], e[2] + MaxEvidenceAge) \/ now >= e[2] + MaxEvidenceAge

\* The jail time of a validator that is not tombstoned is over, or it is jailed and
\* nothing but the end of that time sets it free: it cannot be removed and created again
\* before.
JailInv ==
    \A v \in Validators : ~infos[v].tombstoned =>
        /\ infos[v].until =< now + DowntimeJailDuration
        /\ Staked(v) => vals[v].jailed \/ infos[v].until =< now
        /\ vals[v].status = "Unbonding" => infos[v].until =< vals[v].until + 1
        /\ ~Staked(v) => infos[v].until =< now + (IF phase = "committed" THEN 1 ELSE 0)

\* The ring, the counter beside it, and how many votes it is of.
RingInv ==
    \A v \in Validators :
        /\ Len(recent[v]) =< W /\ Len(recent[v]) =< infos[v].offset
        /\ missed[v] = Bits(infos[v].offset, recent[v])
        /\ infos[v].counter = Cardinality(missed[v])

IInv == TypeOK /\ KnownInv /\ SignersInv /\ EvidenceInv /\ JailInv /\ RingInv /\ PunishedOnce

ValType == [status : {"None", "Unbonded", "Unbonding", "Bonded"}, jailed : BOOLEAN, until : Nat]
InfoType == [found : BOOLEAN, start : Nat, offset : Nat, until : Nat, tombstoned : BOOLEAN,
             counter : Nat]

\* The record of a validator not there is well typed.
LEMMA NoValType == NoVal \in ValType
  BY DEF NoVal, ValType

\* The two initial signing infos differ in found and start only.
LEMMA NewInfoType ==
  ASSUME NEW h \in Nat
  PROVE  /\ NoInfo \in InfoType /\ NewInfo(h) \in InfoType
         /\ NewInfo(h).found = TRUE /\ NewInfo(h).tombstoned = FALSE
         /\ NewInfo(h).until = 0 /\ NewInfo(h).offset = 0 /\ NewInfo(h).counter = 0
         /\ NoInfo.found = FALSE /\ NoInfo.tombstoned = FALSE
         /\ NoInfo.until = 0 /\ NoInfo.offset = 0 /\ NoInfo.counter = 0
  BY DEF NewInfo, NoInfo, InfoType

\* TypeOK, one validator at a time.
LEMMA Types ==
  ASSUME TypeOK, NEW v \in Validators
  PROVE  /\ vals[v] \in ValType /\ infos[v] \in InfoType
         /\ vals[v].until \in Nat /\ infos[v].until \in Nat
         /\ infos[v].offset \in Nat /\ infos[v].counter \in Nat
         /\ vals[v].jailed \in BOOLEAN /\ infos[v].found \in BOOLEAN /\ infos[v].tombstoned \in BOOLEAN
         /\ vals[v].status \in {"None", "Unbonded", "Unbonding", "Bonded"}
         /\ recent[v] \in Seq(BOOLEAN) /\ missed[v] \subseteq 0..(W - 1)
         /\ now \in Nat /\ height \in Nat
  BY DEF TypeOK, ValType, InfoType, W

\* TypeOK, one signature at a time.
LEMMA SignedType ==
  ASSUME TypeOK, NEW e \in signed
  PROVE  e[1] \in Validators /\ e[2] \in Nat /\ e[2] + MaxEvidenceAge \in Int
<1>1. e \in Validators \X Nat
  BY DEF TypeOK
<1>2. e[1] \in Validators /\ e[2] \in Nat
  BY <1>1
<1> QED  BY <1>2

\* No vote at all.
LEMMA NoBits == \A o : Bits(o, <<>>) = {}
  BY DEF Bits

\* After InitChain: all validators bonded, no votes yet.
LEMMA InitIInv == Init => IInv
<1> SUFFICES ASSUME Init PROVE IInv
  OBVIOUS
<1>1. 0 \in Nat
  OBVIOUS
<1>2. TypeOK
  <2>1. [NoVal EXCEPT !.status = "Bonded"] \in ValType
    BY DEF NoVal, ValType
  <2>2. NewInfo(0) \in InfoType
    BY <1>1, NewInfoType
  <2>3. <<>> \in Seq(BOOLEAN)
    OBVIOUS
  <2>4. vals \in [Validators -> ValType] /\ infos \in [Validators -> InfoType]
    BY <2>1, <2>2 DEF Init
  <2>5. /\ missed \in [Validators -> SUBSET (0..(SignedBlocksWindow - 1))]
        /\ recent \in [Validators -> Seq(BOOLEAN)] /\ doubles \in [Validators -> Nat]
    BY <2>3 DEF Init
  <2>6. /\ pubkeys \subseteq Validators /\ lastVals \subseteq Validators
        /\ curVals \subseteq Validators /\ nextVals \subseteq Validators
        /\ signed \subseteq Validators \X Nat
        /\ now \in Nat /\ height \in Nat /\ phase \in {"deliver", "committed"}
    BY DEF Init
  <2> QED  BY <2>4, <2>5, <2>6 DEF TypeOK, ValType, InfoType
<1>3. KnownInv
  BY <1>1, NewInfoType DEF Init, KnownInv, Staked
<1>4. SignersInv
  BY DEF Init, SignersInv, LeftSince, NoVal
<1>5. EvidenceInv
  BY DEF Init, EvidenceInv
<1>6. JailInv
  <2>1. \A v \in Validators : infos[v].until = 0 /\ vals[v].until = 0 /\ vals[v].status = "Bonded"
    BY <1>1, NewInfoType DEF Init, NoVal
  <2>2. now = 0
    BY DEF Init
  <2> QED  BY <2>1, <2>2 DEF JailInv, Staked
<1>7. RingInv
  <2>1. \A v \in Validators : /\ infos[v].offset = 0 /\ infos[v].counter = 0
                              /\ missed[v] = {} /\ recent[v] = <<>>
    BY <1>1, NewInfoType DEF Init
  <2>2. Len(<<>>) = 0 /\ Cardinality({}) = 0 /\ W \in Nat
    BY FS_EmptySet DEF W
  <2>3. ASSUME NEW v \in Validators
        PROVE  /\ Len(recent[v]) =< W /\ Len(recent[v]) =< infos[v].offset
               /\ missed[v] = Bits(infos[v].offset, recent[v])
               /\ infos[v].counter = Cardinality(missed[v])
    <3>1. missed[v] = Bits(infos[v].offset, recent[v])
      BY <2>1, NoBits, Zenon
    <3>2. Len(recent[v]) = 0 /\ infos[v].offset = 0 /\ infos[v].counter = 0 /\ Cardinality(missed[v]) = 0
      BY <2>1, <2>2, Zenon
    <3> QED  BY <2>2, <3>1, <3>2
  <2> QED  BY <2>3 DEF RingInv
<1>8. PunishedOnce
  BY <1>1, NewInfoType DEF Init, PunishedOnce
<1> QED  BY <1>2, <1>3, <1>4, <1>5, <1>6, <1>7, <1>8 DEF IInv
-----------------------------------------------------------------------------
(* Messages *)

\* A message leaves the signing infos alone and changes one validator, which it neither
\* puts into the validator set nor takes out, and which it does not set free too early.
LEMMA MessageStep ==
  ASSUME IInv, Delivering, infos' = infos,
         NEW v \in Validators, NEW val \in ValType,
         vals' = [vals EXCEPT ![v] = val],
         pubkeys' \subseteq Validators, val.status # "None" => v \in pubkeys',
         pubkeys \subseteq pubkeys' \cup {v},
         Staked(v) => /\ val.status = vals[v].status /\ val.until = vals[v].until
                      /\ val.jailed \/ infos[v].tombstoned \/ infos[v].until =< now,
         ~Staked(v) => val.status \in {"None", "Unbonded"}
  PROVE  IInv'
<1>1. /\ phase = "deliver" /\ phase' = phase /\ now' = now /\ height' = height
      /\ missed' = missed /\ lastVals' = lastVals /\ curVals' = curVals /\ nextVals' = nextVals
      /\ signed' = signed /\ recent' = recent /\ doubles' = doubles
  BY DEF Delivering
<1>2. /\ TypeOK /\ KnownInv /\ SignersInv /\ EvidenceInv /\ JailInv /\ RingInv /\ PunishedOnce
  BY DEF IInv
<1>3. vals \in [Validators -> ValType]
  BY <1>2 DEF TypeOK, ValType
<1>4. vals' \in [Validators -> ValType] /\ vals'[v] = val /\ \A w \in Validators \ {v} : vals'[w] = vals[w]
  BY <1>3
<1>5. TypeOK'
  BY <1>1, <1>2, <1>4 DEF TypeOK, ValType
<1>6. ASSUME NEW w \in Validators
      PROVE  /\ Staked(w)' <=> Staked(w)
             /\ (vals'[w].status = "Bonded") <=> (vals[w].status = "Bonded")
             /\ Staked(w) => vals'[w].status = vals[w].status /\ vals'[w].until = vals[w].until
  BY <1>3, <1>4 DEF Staked, ValType
<1>7. KnownInv'
  BY <1>2, <1>4, <1>6 DEF KnownInv, Staked
<1>8. \A w \in Validators, t \in Int : LeftSince(w, t) =>
          vals'[w].status = "Bonded" \/ (vals'[w].status = "Unbonding" /\ vals'[w].until >= t)
  BY <1>6 DEF LeftSince, Staked
<1>9. SignersInv'
  <2>1. curVals \subseteq Validators
    BY <1>2 DEF TypeOK
  <2>2. nextVals' = {w \in Validators : vals'[w].status = "Bonded"}
    BY <1>1, <1>2, <1>6 DEF SignersInv
  <2>3. TimeSteps # {} /\ \A w \in curVals : \E last \in TimeSteps : LeftSince(w, now - last + UnbondingTime)
    BY <1>1, <1>2 DEF SignersInv
  <2>4. \A last \in TimeSteps : now - last + UnbondingTime \in Int
    BY <1>2 DEF TypeOK
  <2>5. \A w \in curVals : \E last \in TimeSteps :
            \/ vals'[w].status = "Bonded"
            \/ vals'[w].status = "Unbonding" /\ vals'[w].until >= now - last + UnbondingTime
    BY <1>8, <2>1, <2>3, <2>4
  <2> QED  BY <1>1, <2>2, <2>3, <2>5 DEF SignersInv, LeftSince
<1>10. EvidenceInv'
  <2>1. SUFFICES ASSUME NEW e \in signed
                 PROVE  /\ e[2] =< now
                        /\ \/ vals'[e[1]].status = "Bonded"
                           \/ /\ vals'[e[1]].status = "Unbonding"
                              /\ vals'[e[1]].until >= e[2] + MaxEvidenceAge
                           \/ now >= e[2] + MaxEvidenceAge
    BY <1>1 DEF EvidenceInv, LeftSince
  <2>2. e[1] \in Validators /\ e[2] + MaxEvidenceAge \in Int
    BY <1>2, SignedType
  <2> QED  BY <1>2, <1>8, <2>2 DEF EvidenceInv
<1>11. JailInv'
  <2> SUFFICES ASSUME NEW w \in Validators, ~infos[w].tombstoned
               PROVE  /\ infos[w].until =< now + DowntimeJailDuration
                      /\ Staked(w)' => vals'[w].jailed \/ infos[w].until =< now
                      /\ vals'[w].status = "Unbonding" => infos[w].until =< vals'[w].until + 1
                      /\ ~Staked(w)' => infos[w].until =< now + (IF phase = "committed" THEN 1 ELSE 0)
    BY <1>1 DEF JailInv
  <2>1. CASE w = v
    BY <1>2, <1>4, <1>6, <2>1 DEF JailInv, Staked
  <2>2. CASE w # v
    BY <1>2, <1>4, <1>6, <2>2 DEF JailInv, Staked
  <2> QED  BY <2>1, <2>2
<1>12. RingInv'
  BY <1>1, <1>2 DEF RingInv
<1>13. PunishedOnce'
  BY <1>1, <1>2 DEF PunishedOnce
<1> QED  BY <1>5, <1>7, <1>9, <1>10, <1>11, <1>12, <1>13 DEF IInv

\* Each message is a MessageStep.
LEMMA Messages ==
  ASSUME IInv, NEW v \in Validators, Unjail(v) \/ CreateValidator(v) \/ SelfJail(v) \/ Remove(v)
  PROVE  IInv'
<1>1. TypeOK /\ KnownInv /\ vals[v] \in ValType /\ now \in Nat /\ infos[v].until \in Nat
      /\ pubkeys \subseteq Validators
  BY Types DEF IInv, TypeOK
<1>2. ASSUME NEW b \in BOOLEAN, NEW val, val = [vals[v] EXCEPT !.jailed = b]
      PROVE  val \in ValType /\ val.jailed = b /\ val.status = vals[v].status /\ val.until = vals[v].until
  BY <1>1, <1>2 DEF ValType
<1>3. ~Staked(v) => vals[v].status \in {"None", "Unbonded"}
  BY <1>1 DEF Staked, ValType
<1>4. vals[v].status # "None" => v \in pubkeys
  BY <1>1 DEF KnownInv
<1>5. CASE Unjail(v)
  <2>1. PICK val : val = [vals[v] EXCEPT !.jailed = FALSE]
    OBVIOUS
  <2>2. /\ Delivering /\ infos' = infos /\ pubkeys' = pubkeys /\ vals' = [vals EXCEPT ![v] = val]
    BY <1>5, <2>1 DEF Unjail
  <2>3. infos[v].until =< now
    BY <1>1, <1>5 DEF Unjail, JailOver
  <2> QED  BY <1>1, <1>2, <1>3, <1>4, <2>1, <2>2, <2>3, MessageStep
<1>6. CASE SelfJail(v)
  <2>1. PICK val : val = [vals[v] EXCEPT !.jailed = TRUE]
    OBVIOUS
  <2>2. /\ Delivering /\ infos' = infos /\ pubkeys' = pubkeys /\ vals' = [vals EXCEPT ![v] = val]
    BY <1>6, <2>1 DEF SelfJail
  <2> QED  BY <1>1, <1>2, <1>3, <1>4, <2>1, <2>2, MessageStep
<1>7. CASE CreateValidator(v)
  <2>1. PICK val : val = [NoVal EXCEPT !.status = "Unbonded"]
    OBVIOUS
  <2>2. val \in ValType /\ val.status = "Unbonded"
    BY <2>1 DEF NoVal, ValType
  <2>3. /\ Delivering /\ infos' = infos /\ pubkeys' = pubkeys \cup {v}
        /\ vals' = [vals EXCEPT ![v] = val] /\ ~Staked(v)
    BY <1>7, <2>1 DEF CreateValidator, Staked
  <2> QED  BY <1>1, <2>2, <2>3, MessageStep
<1>8. CASE Remove(v)
  <2>1. NoVal \in ValType /\ NoVal.status = "None"
    BY DEF NoVal, ValType
  <2>2. /\ Delivering /\ infos' = infos /\ pubkeys' = pubkeys \ {v}
        /\ vals' = [vals EXCEPT ![v] = NoVal] /\ ~Staked(v)
    BY <1>8 DEF Remove, Staked
  <2> QED  BY <1>1, <2>1, <2>2, MessageStep
<1> QED  BY <1>5, <1>6, <1>7, <1>8
-----------------------------------------------------------------------------
(* EndBlock *)

\* What EndBlock does to one validator.
LEMMA EndBlockValidator ==
  ASSUME TypeOK, NEW bonded \in SUBSET Validators, NEW emptied \in SUBSET Validators,
         EndBlock(bonded, emptied), NEW v \in Validators
  PROVE  /\ vals'[v] \in ValType
         /\ v \in bonded =>
                /\ vals'[v].status = "Bonded" /\ ~vals'[v].jailed
                /\ vals[v].status # "None" /\ ~vals[v].jailed /\ v \notin emptied
         /\ v \notin bonded /\ vals[v].status = "Bonded" /\ UnbondingTime > 0 =>
                /\ vals'[v].status = "Unbonding" /\ vals'[v].until = now + UnbondingTime
                /\ vals'[v].jailed = vals[v].jailed /\ v \notin emptied
         /\ v \notin bonded /\ vals[v].status = "Unbonding" =>
                \/ vals'[v] = vals[v] /\ vals[v].until > now /\ v \notin emptied
                \/ vals'[v].status = "Unbonded" /\ vals[v].until =< now /\ v \notin emptied
                \/ vals'[v].status = "None" /\ vals[v].until =< now
         /\ v \notin bonded /\ vals[v].status \in {"None", "Unbonded"} =>
                vals'[v] = vals[v] /\ v \notin emptied
<1> DEFINE updated(w) ==
             CASE w \in bonded -> [vals[w] EXCEPT !.status = "Bonded"]
               [] vals[w].status = "Bonded" /\ w \notin bonded ->
                      [vals[w] EXCEPT !.status = "Unbonding", !.until = now + UnbondingTime]
               [] OTHER -> vals[w]
           mature == {w \in Validators : Mature(updated(w))}
<1>1. /\ \A w \in bonded : vals[w].status # "None" /\ ~vals[w].jailed
      /\ emptied \subseteq mature
      /\ vals' = [w \in Validators |->
                    CASE w \in emptied -> NoVal
                      [] w \in mature \ emptied -> [updated(w) EXCEPT !.status = "Unbonded"]
                      [] OTHER -> updated(w)]
  BY DEF EndBlock
<1>2. vals[v] \in ValType /\ now \in Nat /\ vals[v].until \in Nat
  BY Types
<1>3. /\ v \in emptied => vals'[v] = NoVal /\ Mature(updated(v))
      /\ v \notin emptied /\ Mature(updated(v)) => vals'[v] = [updated(v) EXCEPT !.status = "Unbonded"]
      /\ ~Mature(updated(v)) => vals'[v] = updated(v) /\ v \notin emptied
  <2> HIDE DEF updated
  <2> QED  BY <1>1
<1>4. CASE v \in bonded
  <2>1. updated(v) = [vals[v] EXCEPT !.status = "Bonded"]
    BY <1>4
  <2>2. ~vals[v].jailed /\ vals[v].status # "None"
    BY <1>1, <1>4
  <2> HIDE DEF updated
  <2>3. updated(v) \in ValType /\ updated(v).status = "Bonded" /\ updated(v).jailed = vals[v].jailed
    BY <1>2, <2>1 DEF ValType
  <2>4. ~Mature(updated(v))
    BY <2>3 DEF Mature
  <2> QED  BY <1>3, <1>4, <2>2, <2>3, <2>4
<1>5. CASE v \notin bonded /\ vals[v].status = "Bonded"
  <2>1. updated(v) = [vals[v] EXCEPT !.status = "Unbonding", !.until = now + UnbondingTime]
    BY <1>5
  <2> HIDE DEF updated
  <2>2. /\ updated(v) \in ValType /\ updated(v).status = "Unbonding"
        /\ updated(v).jailed = vals[v].jailed /\ updated(v).until = now + UnbondingTime
    <3>1. now + UnbondingTime \in Nat
      BY <1>2
    <3>2. ASSUME NEW t \in Nat, NEW val, val = [vals[v] EXCEPT !.status = "Unbonding", !.until = t]
          PROVE  val \in ValType /\ val.status = "Unbonding" /\ val.jailed = vals[v].jailed /\ val.until = t
      BY <1>2, <3>2 DEF ValType
    <3> QED  BY <2>1, <3>1, <3>2
  <2>3. UnbondingTime > 0 => ~Mature(updated(v))
    BY <1>2, <2>2 DEF Mature
  <2>4. [updated(v) EXCEPT !.status = "Unbonded"] \in ValType
    BY <2>2 DEF ValType
  <2> QED  BY <1>3, <1>5, <2>2, <2>3, <2>4, NoValType
<1>6. CASE v \notin bonded /\ vals[v].status # "Bonded"
  <2>1. updated(v) = vals[v]
    BY <1>6
  <2> HIDE DEF updated
  <2>2. Mature(updated(v)) <=> vals[v].status = "Unbonding" /\ vals[v].until =< now
    BY <2>1 DEF Mature
  <2>3. [vals[v] EXCEPT !.status = "Unbonded"] \in ValType
        /\ [vals[v] EXCEPT !.status = "Unbonded"].status = "Unbonded"
    BY <1>2 DEF ValType
  <2>4. NoVal.status = "None"
    BY DEF NoVal
  <2>5. CASE ~Mature(updated(v))
    <3>1. vals'[v] = vals[v] /\ v \notin emptied
      BY <1>3, <2>1, <2>5
    <3>2. vals[v].status = "Unbonding" => vals[v].until > now
      BY <1>2, <2>2, <2>5
    <3> QED  BY <1>2, <1>6, <3>1, <3>2
  <2>6. CASE Mature(updated(v))
    <3>1. vals[v].status = "Unbonding" /\ vals[v].until =< now
      BY <2>2, <2>6
    <3>2. CASE v \in emptied
      BY <1>3, <1>6, <2>4, <3>1, <3>2, NoValType
    <3>3. CASE v \notin emptied
      BY <1>3, <1>6, <2>1, <2>3, <2>6, <3>1, <3>3
    <3> QED  BY <3>2, <3>3
  <2> QED  BY <2>5, <2>6
<1> QED  BY <1>4, <1>5, <1>6

\* EndBlock: signers move on by one block, validators leave, mature and enter.
LEMMA EndBlockStep ==
  ASSUME IInv, NEW bonded \in SUBSET Validators, NEW emptied \in SUBSET Validators,
         EndBlock(bonded, emptied)
  PROVE  IInv'
<1>1. /\ phase = "deliver" /\ phase' = "committed" /\ now' = now /\ height' = height
      /\ missed' = missed /\ signed' = signed /\ recent' = recent /\ doubles' = doubles
      /\ pubkeys' = pubkeys \ emptied
      /\ lastVals' = curVals /\ curVals' = nextVals /\ nextVals' = bonded
  BY DEF EndBlock
<1>2. /\ TypeOK /\ KnownInv /\ SignersInv /\ EvidenceInv /\ JailInv /\ RingInv /\ PunishedOnce
  BY DEF IInv
<1>3. PICK step \in TimeSteps : TRUE
  BY <1>1, <1>2 DEF SignersInv
<1>4. /\ UnbondingTime > 0 /\ MaxEvidenceAge =< UnbondingTime /\ DowntimeJailDuration =< UnbondingTime
      /\ \A last \in TimeSteps : last \in Nat /\ last < UnbondingTime
  <2>1. step \in Nat /\ step >= 1 /\ step < UnbondingTime /\ MaxEvidenceAge + step =< UnbondingTime
        /\ DowntimeJailDuration + step + step =< UnbondingTime + 1
    BY <1>3
  <2>2. \A last \in TimeSteps : last \in Nat /\ last < UnbondingTime
    OBVIOUS
  <2> QED  BY <2>1, <2>2
<1>5. now \in Nat /\ height \in Nat /\ vals' = [v \in Validators |-> vals'[v]]
  BY <1>2 DEF TypeOK, EndBlock
\* Who is bonded for the first time gets a signing info like that of before but for the start.
<1>6. ASSUME NEW v \in Validators
      PROVE  /\ infos'[v] \in InfoType
             /\ infos'[v].offset = infos[v].offset /\ infos'[v].counter = infos[v].counter
             /\ infos'[v].until = infos[v].until /\ infos'[v].tombstoned = infos[v].tombstoned
             /\ infos[v].found => infos'[v].found
             /\ v \in bonded => infos'[v].found
             /\ ~infos'[v].found => infos'[v] = NoInfo
  <2> DEFINE newly == {w \in bonded : vals[w].status # "Bonded"}
  <2>1. infos' = [w \in Validators |-> IF w \in newly THEN AfterValidatorBonded(w) ELSE infos[w]]
    BY DEF EndBlock
  <2>2. /\ v \in newly /\ ~infos[v].found => infos'[v] = NewInfo(height)
        /\ ~(v \in newly /\ ~infos[v].found) => infos'[v] = infos[v]
    BY <2>1 DEF AfterValidatorBonded
  <2>3. /\ infos[v] \in InfoType /\ (~infos[v].found => infos[v] = NoInfo)
        /\ (vals[v].status = "Bonded" => infos[v].found)
    BY <1>2, Types DEF KnownInv, Staked
  <2>4. v \in bonded /\ ~infos[v].found => v \in newly
    BY <2>3
  <2> HIDE DEF newly
  <2>5. CASE v \in newly /\ ~infos[v].found
    BY <1>5, <2>2, <2>3, <2>5, NewInfoType
  <2>6. CASE ~(v \in newly /\ ~infos[v].found)
    BY <2>2, <2>3, <2>4, <2>6
  <2> QED  BY <2>5, <2>6
<1>7. TypeOK'
  <2>1. vals' \in [Validators -> ValType]
    BY <1>2, <1>5, EndBlockValidator
  <2>2. infos' = [v \in Validators |-> infos'[v]]
    BY DEF EndBlock
  <2>3. infos' \in [Validators -> InfoType]
    BY <1>6, <2>2
  <2> QED  BY <1>1, <1>2, <2>1, <2>3 DEF TypeOK, ValType, InfoType
\* What EndBlock does to the status, with the unbonding time known to be positive.
<1>8. ASSUME NEW v \in Validators
      PROVE  /\ vals[v] \in ValType /\ vals'[v] \in ValType
             /\ vals[v].until \in Nat /\ vals'[v].until \in Nat /\ infos[v].until \in Nat
             /\ v \in bonded =>
                    /\ vals'[v].status = "Bonded" /\ ~vals'[v].jailed
                    /\ vals[v].status # "None" /\ ~vals[v].jailed /\ v \notin emptied
             /\ v \notin bonded /\ vals[v].status = "Bonded" =>
                    /\ vals'[v].status = "Unbonding" /\ vals'[v].until = now + UnbondingTime
                    /\ vals'[v].jailed = vals[v].jailed /\ v \notin emptied
             /\ v \notin bonded /\ vals[v].status = "Unbonding" =>
                    \/ vals'[v] = vals[v] /\ vals[v].until > now /\ v \notin emptied
                    \/ vals'[v].status = "Unbonded" /\ vals[v].until =< now /\ v \notin emptied
                    \/ vals'[v].status = "None" /\ vals[v].until =< now
             /\ v \notin bonded /\ vals[v].status \in {"None", "Unbonded"} =>
                    vals'[v] = vals[v] /\ v \notin emptied
             /\ vals[v].status \in {"None", "Unbonded", "Unbonding", "Bonded"}
  <2>1. vals'[v] \in ValType /\ vals[v] \in ValType /\ infos[v].until \in Nat
    BY <1>2, EndBlockValidator, Types
  <2>2. vals'[v].until \in Nat /\ vals[v].until \in Nat
        /\ vals[v].status \in {"None", "Unbonded", "Unbonding", "Bonded"}
    BY <2>1 DEF ValType
  <2> QED  BY <1>2, <1>4, <2>1, <2>2, EndBlockValidator
<1>9. KnownInv'
  <2> SUFFICES ASSUME NEW v \in Validators
               PROVE  /\ vals'[v].status # "None" => v \in pubkeys'
                      /\ vals'[v].status \in {"Bonded", "Unbonding"} => infos'[v].found
                      /\ ~infos'[v].found => infos'[v] = NoInfo
    BY DEF KnownInv, Staked
  <2>1. /\ vals[v].status # "None" => v \in pubkeys
        /\ vals[v].status \in {"Bonded", "Unbonding"} => infos[v].found
    BY <1>2 DEF KnownInv, Staked
  <2>2. vals'[v].status # "None" => vals[v].status # "None" /\ v \notin emptied
    <3>1. CASE v \in bonded
      BY <1>8, <3>1
    <3>2. CASE v \notin bonded
      BY <1>8, <3>2
    <3> QED  BY <3>1, <3>2
  <2>3. vals'[v].status \in {"Bonded", "Unbonding"} =>
            v \in bonded \/ vals[v].status \in {"Bonded", "Unbonding"}
    BY <1>8
  <2> QED  BY <1>1, <1>6, <2>1, <2>2, <2>3
\* Who left the set by a time that is still to come has not left yet.
<1>10. ASSUME NEW v \in Validators, NEW t \in Int, LeftSince(v, t), t =< now + UnbondingTime
       PROVE  \/ vals'[v].status = "Bonded"
              \/ vals'[v].status = "Unbonding" /\ vals'[v].until >= t
              \/ now >= t
  <2>1. CASE v \in bonded
    BY <1>8, <2>1
  <2>2. CASE v \notin bonded /\ vals[v].status = "Bonded"
    BY <1>5, <1>8, <1>10, <2>2
  <2>3. CASE v \notin bonded /\ vals[v].status = "Unbonding" /\ vals[v].until >= t
    BY <1>5, <1>8, <2>3
  <2> QED  BY <1>10, <2>1, <2>2, <2>3 DEF LeftSince
<1>11. SignersInv'
  <2>1. curVals \subseteq Validators /\ nextVals = {v \in Validators : vals[v].status = "Bonded"}
    BY <1>2 DEF TypeOK, SignersInv
  <2>2. bonded = {v \in Validators : vals'[v].status = "Bonded"}
    <3>1. \A v \in Validators : v \in bonded <=> vals'[v].status = "Bonded"
      <4> SUFFICES ASSUME NEW v \in Validators, v \notin bonded PROVE vals'[v].status # "Bonded"
        BY <1>8
      <4> QED  BY <1>8
    <3> QED  BY <3>1
  <2>3. \A v \in bonded : ~vals'[v].jailed
    BY <1>8
  <2>4. ASSUME NEW v \in nextVals
        PROVE  \/ vals'[v].status = "Bonded"
               \/ vals'[v].status = "Unbonding" /\ vals'[v].until >= now + UnbondingTime
    BY <1>5, <1>8, <2>1
  <2>5. ASSUME NEW v \in curVals
        PROVE  \E last \in TimeSteps :
                 \/ vals'[v].status = "Bonded"
                 \/ vals'[v].status = "Unbonding" /\ vals'[v].until >= now - last + UnbondingTime
    <3>1. PICK last \in TimeSteps : LeftSince(v, now - last + UnbondingTime)
      BY <1>1, <1>2 DEF SignersInv
    <3>2. now - last + UnbondingTime \in Int /\ now - last + UnbondingTime =< now + UnbondingTime
          /\ ~(now >= now - last + UnbondingTime)
      BY <1>4, <1>5
    <3> QED  BY <1>10, <2>1, <3>1, <3>2
  <2> QED  BY <1>1, <2>2, <2>3, <2>4, <2>5 DEF SignersInv, LeftSince
<1>12. EvidenceInv'
  <2> SUFFICES ASSUME NEW e \in signed
               PROVE  /\ e[2] =< now
                      /\ \/ vals'[e[1]].status = "Bonded"
                         \/ /\ vals'[e[1]].status = "Unbonding"
                            /\ vals'[e[1]].until >= e[2] + MaxEvidenceAge
                         \/ now >= e[2] + MaxEvidenceAge
    BY <1>1 DEF EvidenceInv, LeftSince
  <2>1. e[1] \in Validators /\ e[2] \in Nat /\ e[2] + MaxEvidenceAge \in Int
    BY <1>2, SignedType
  <2>2. e[2] =< now /\ (LeftSince(e[1], e[2] + MaxEvidenceAge) \/ now >= e[2] + MaxEvidenceAge)
    BY <1>2 DEF EvidenceInv
  <2>3. e[2] + MaxEvidenceAge =< now + UnbondingTime
    BY <1>4, <1>5, <2>1, <2>2
  <2> QED  BY <1>10, <2>1, <2>2, <2>3
<1>13. JailInv'
  <2> SUFFICES ASSUME NEW v \in Validators, ~infos[v].tombstoned
               PROVE  /\ infos[v].until =< now + DowntimeJailDuration
                      /\ vals'[v].status \in {"Bonded", "Unbonding"} => vals'[v].jailed \/ infos[v].until =< now
                      /\ vals'[v].status = "Unbonding" => infos[v].until =< vals'[v].until + 1
                      /\ vals'[v].status \notin {"Bonded", "Unbonding"} => infos[v].until =< now + 1
    BY <1>1, <1>6 DEF JailInv, Staked
  <2>1. /\ infos[v].until =< now + DowntimeJailDuration
        /\ vals[v].status \in {"Bonded", "Unbonding"} => vals[v].jailed \/ infos[v].until =< now
        /\ vals[v].status = "Unbonding" => infos[v].until =< vals[v].until + 1
        /\ vals[v].status \notin {"Bonded", "Unbonding"} => infos[v].until =< now
    BY <1>1, <1>2, <1>5 DEF JailInv, Staked
  <2>2. CASE v \in bonded
    <3>1. infos[v].until =< now
      BY <1>8, <2>1, <2>2
    <3> QED  BY <1>5, <1>8, <2>1, <2>2, <3>1
  <2>3. CASE v \notin bonded /\ vals[v].status = "Bonded"
    BY <1>4, <1>5, <1>8, <2>1, <2>3
  <2>4. CASE v \notin bonded /\ vals[v].status = "Unbonding"
    BY <1>5, <1>8, <2>1, <2>4
  <2>5. CASE v \notin bonded /\ vals[v].status \in {"None", "Unbonded"}
    BY <1>5, <1>8, <2>1, <2>5
  <2> QED  BY <1>8, <2>2, <2>3, <2>4, <2>5
<1>14. RingInv'
  BY <1>1, <1>2, <1>6 DEF RingInv
<1>15. PunishedOnce'
  BY <1>1, <1>2, <1>6 DEF PunishedOnce
<1> QED  BY <1>7, <1>9, <1>11, <1>12, <1>13, <1>14, <1>15 DEF IInv
-----------------------------------------------------------------------------
(* BeginBlock *)

\* What a vote leaves is again a ring of the last votes with its counter.
VoteOK(v, b, h, time) ==
    LET info == InfoAfterVote(v, b, h, time)
        bits == MissedAfterVote(v, b, h)
        votes == RecentAfterVote(v, b, h)
    IN  /\ info \in InfoType /\ bits \subseteq 0..(W - 1) /\ votes \in Seq(BOOLEAN)
        /\ info.found = infos[v].found /\ info.tombstoned = infos[v].tombstoned
        /\ info.until = IF Downtime(v, b, h) THEN time + DowntimeJailDuration ELSE infos[v].until
        /\ Len(votes) =< W /\ Len(votes) =< info.offset
        /\ bits = Bits(info.offset, votes)
        /\ info.counter = Cardinality(bits)

\* handleValidatorSignature, with a punishment or without.
LEMMA VoteStep ==
  ASSUME IInv, NEW v \in Validators, NEW b \in BOOLEAN, NEW h \in Nat, NEW time \in Nat
  PROVE  VoteOK(v, b, h, time)
<1> DEFINE info == InfoAfterVote(v, b, h, time)
           bits == MissedAfterVote(v, b, h)
           votes == RecentAfterVote(v, b, h)
           o == infos[v].offset
           r == recent[v]
           counted == CountedMissed(v, b, o % W)
<1>1. TypeOK /\ RingInv
  BY DEF IInv
<1>2. /\ infos[v] \in InfoType /\ o \in Nat /\ infos[v].counter \in Nat /\ infos[v].until \in Nat
      /\ r \in Seq(BOOLEAN) /\ missed[v] \subseteq 0..(W - 1)
  BY <1>1, Types
<1>3. /\ Len(r) =< W /\ Len(r) =< o /\ missed[v] = Bits(o, r)
      /\ infos[v].counter = Cardinality(missed[v])
  BY <1>1 DEF RingInv
<1>4. W \in Nat \ {0} /\ o % W \in 0..(W - 1)
  BY <1>2 DEF W
<1>5. CASE Downtime(v, b, h)
  <2>1. /\ info = [infos[v] EXCEPT !.offset = 0, !.counter = 0, !.until = time + DowntimeJailDuration]
        /\ bits = {} /\ votes = <<>>
    BY <1>5 DEF InfoAfterVote, MissedAfterVote, RecentAfterVote
  <2>2. time + DowntimeJailDuration \in Nat /\ 0 \in Nat
    OBVIOUS
  <2>3. ASSUME NEW t \in Nat, NEW i, i = [infos[v] EXCEPT !.offset = 0, !.counter = 0, !.until = t]
        PROVE  /\ i \in InfoType /\ i.found = infos[v].found /\ i.tombstoned = infos[v].tombstoned
               /\ i.until = t /\ i.offset = 0 /\ i.counter = 0
    BY <1>2, <2>3 DEF InfoType
  <2> HIDE DEF info, bits, votes
  <2>4. /\ info \in InfoType /\ info.found = infos[v].found /\ info.tombstoned = infos[v].tombstoned
        /\ info.until = time + DowntimeJailDuration /\ info.offset = 0 /\ info.counter = 0
    BY <2>1, <2>2, <2>3
  <2>5. /\ bits \subseteq 0..(W - 1) /\ votes \in Seq(BOOLEAN) /\ Len(votes) = 0
        /\ bits = Bits(info.offset, votes) /\ Cardinality(bits) = 0
    BY <2>1, NoBits, FS_EmptySet
  <2>6. Len(votes) =< W /\ Len(votes) =< info.offset /\ info.counter = Cardinality(bits)
    BY <1>4, <2>4, <2>5
  <2>7. info.until = IF Downtime(v, b, h) THEN time + DowntimeJailDuration ELSE infos[v].until
    BY <1>5, <2>4
  <2> QED  BY <2>4, <2>5, <2>6, <2>7 DEF VoteOK, info, bits, votes
<1>6. CASE ~Downtime(v, b, h)
  <2>1. /\ info = [infos[v] EXCEPT !.offset = @ + 1, !.counter = counted]
        /\ bits = Marked(v, b, o % W) /\ votes = Pushed(r, b)
    BY <1>6 DEF InfoAfterVote, MissedAfterVote, RecentAfterVote, Pushed, W
  <2>2. /\ Bits(o + 1, Pushed(r, b)) = (IF b THEN Bits(o, r) \cup {o % W} ELSE Bits(o, r) \ {o % W})
        /\ Pushed(r, b) \in Seq(BOOLEAN) /\ Len(Pushed(r, b)) =< W /\ Len(Pushed(r, b)) =< o + 1
    BY <1>2, <1>3, RingStep
  <2>3. bits = Bits(o + 1, votes)
    BY <1>3, <2>1, <2>2, Zenon DEF Marked
  <2>4. bits \subseteq 0..(W - 1)
    BY <1>2, <1>4, <2>1 DEF Marked
  <2>5. IsFiniteSet(missed[v])
    <3>1. 0 \in Int /\ W - 1 \in Int
      BY <1>4
    <3>2. IsFiniteSet(0..(W - 1))
      BY <3>1, FS_Interval
    <3> QED  BY <1>2, <3>2, FS_Subset
  <2>6. counted \in Nat /\ counted = Cardinality(bits)
    <3>1. Cardinality(missed[v]) \in Nat
      BY <2>5, FS_CardinalityType
    <3>2. CASE b /\ o % W \notin missed[v]
      <4>1. counted = infos[v].counter + 1 /\ bits = missed[v] \cup {o % W}
        BY <2>1, <3>2 DEF CountedMissed, Marked
      <4>2. Cardinality(missed[v] \cup {o % W}) = Cardinality(missed[v]) + 1
        BY <2>5, <3>2, FS_AddElement
      <4> QED  BY <1>3, <3>1, <4>1, <4>2
    <3>3. CASE ~b /\ o % W \in missed[v]
      <4>1. counted = infos[v].counter - 1 /\ bits = missed[v] \ {o % W}
        BY <2>1, <3>3 DEF CountedMissed, Marked
      <4>2. ASSUME NEW S, NEW x \in S, IsFiniteSet(S)
            PROVE  Cardinality(S \ {x}) \in Nat /\ Cardinality(S \ {x}) = Cardinality(S) - 1
        <5>1. IsFiniteSet(S \ {x})
          BY <4>2, FS_RemoveElement
        <5>2. Cardinality(S \ {x}) \in Nat
          BY <5>1, FS_CardinalityType
        <5> QED  BY <4>2, <5>2, FS_RemoveElement
      <4>3. Cardinality(missed[v] \ {o % W}) \in Nat
            /\ Cardinality(missed[v] \ {o % W}) = Cardinality(missed[v]) - 1
        BY <2>5, <3>3, <4>2
      <4> QED  BY <1>3, <3>1, <4>1, <4>3
    <3>4. CASE (b /\ o % W \in missed[v]) \/ (~b /\ o % W \notin missed[v])
      <4>1. counted = infos[v].counter /\ bits = missed[v]
        BY <2>1, <3>4 DEF CountedMissed, Marked
      <4> QED  BY <1>3, <3>1, <4>1
    <3> QED  BY <3>2, <3>3, <3>4
  <2>7. ASSUME NEW c \in Nat, NEW i, i = [infos[v] EXCEPT !.offset = @ + 1, !.counter = c]
        PROVE  /\ i \in InfoType /\ i.found = infos[v].found /\ i.tombstoned = infos[v].tombstoned
               /\ i.until = infos[v].until /\ i.offset = o + 1 /\ i.counter = c
    <3>1. ASSUME NEW off \in Nat, i = [infos[v] EXCEPT !.offset = off, !.counter = c]
          PROVE  /\ i \in InfoType /\ i.found = infos[v].found /\ i.tombstoned = infos[v].tombstoned
                 /\ i.until = infos[v].until /\ i.offset = off /\ i.counter = c
      BY <1>2, <3>1 DEF InfoType
    <3>2. o + 1 \in Nat /\ i = [infos[v] EXCEPT !.offset = o + 1, !.counter = c]
      BY <1>2, <2>7
    <3> HIDE DEF o
    <3> QED  BY <3>1, <3>2
  <2> HIDE DEF info, bits, votes, counted
  <2>8. /\ info \in InfoType /\ info.found = infos[v].found /\ info.tombstoned = infos[v].tombstoned
        /\ info.until = infos[v].until /\ info.offset = o + 1 /\ info.counter = counted
    BY <2>1, <2>6, <2>7
  <2>9. info.until = IF Downtime(v, b, h) THEN time + DowntimeJailDuration ELSE infos[v].until
    BY <1>6, <2>8
  <2>10. votes \in Seq(BOOLEAN) /\ Len(votes) =< W /\ Len(votes) =< info.offset
    BY <2>1, <2>2, <2>8
  <2>11. bits = Bits(info.offset, votes) /\ info.counter = Cardinality(bits)
    BY <2>3, <2>6, <2>8
  <2> QED  BY <2>4, <2>8, <2>9, <2>10, <2>11 DEF VoteOK, info, bits, votes
<1> QED  BY <1>5, <1>6

\* BeginBlocker: the votes of the last block, then the evidence.
LEMMA BeginBlockStep ==
  ASSUME IInv, NEW step \in TimeSteps, NEW absent, NEW evidence, BeginBlock(step, absent, evidence)
  PROVE  IInv'
<1> DEFINE h == height + 1
           time == now + step
           down == {v \in lastVals : Downtime(v, v \in absent, h)}
           info(v) == IF v \in lastVals THEN InfoAfterVote(v, v \in absent, h, time) ELSE infos[v]
           twice == {v \in Validators : \E e \in evidence :
                       e[1] = v /\ Confirmed(v, e[2], time, infos[v].tombstoned)}
<1>1. /\ phase = "committed" /\ phase' = "deliver" /\ now' = time /\ height' = h
      /\ pubkeys' = pubkeys /\ lastVals' = lastVals /\ curVals' = curVals /\ nextVals' = nextVals
      /\ signed' = signed \cup {<<v, time>> : v \in curVals}
      /\ \A v \in lastVals : ~VotePanics(v, v \in absent, h)
  BY DEF BeginBlock
<1>2. /\ vals' = [v \in Validators |->
                    IF v \in down \cup twice THEN [vals[v] EXCEPT !.jailed = TRUE] ELSE vals[v]]
      /\ infos' = [v \in Validators |->
                    IF v \in twice
                    THEN [info(v) EXCEPT !.tombstoned = TRUE, !.until = DoubleSignJailEndTime]
                    ELSE info(v)]
      /\ missed' = [v \in Validators |->
                    IF v \in lastVals THEN MissedAfterVote(v, v \in absent, h) ELSE missed[v]]
      /\ recent' = [v \in Validators |->
                    IF v \in lastVals THEN RecentAfterVote(v, v \in absent, h) ELSE recent[v]]
      /\ doubles' = [v \in Validators |-> IF v \in twice THEN doubles[v] + 1 ELSE doubles[v]]
  BY DEF BeginBlock
<1>3. /\ TypeOK /\ KnownInv /\ SignersInv /\ EvidenceInv /\ JailInv /\ RingInv /\ PunishedOnce
  BY DEF IInv
<1>4. /\ now \in Nat /\ height \in Nat /\ step \in Nat /\ step >= 1 /\ h \in Nat /\ time \in Nat
      /\ time >= now + 1
  BY <1>3 DEF TypeOK
<1>5. ASSUME NEW v \in twice  PROVE v \in Validators /\ ~infos[v].tombstoned
  BY DEF Confirmed
<1>6. ASSUME NEW v \in down
      PROVE  /\ v \in Validators /\ v \in lastVals
             /\ \E last \in TimeSteps : LeftSince(v, now - last + UnbondingTime)
  BY <1>1, <1>3 DEF TypeOK, SignersInv
<1> HIDE DEF twice
\* What the votes leave of the signing info, the bits and the votes of one validator.
<1>7. ASSUME NEW v \in Validators
      PROVE  /\ info(v) \in InfoType /\ missed'[v] \subseteq 0..(W - 1) /\ recent'[v] \in Seq(BOOLEAN)
             /\ info(v).found = infos[v].found /\ info(v).tombstoned = infos[v].tombstoned
             /\ info(v).until = IF v \in down THEN time + DowntimeJailDuration ELSE infos[v].until
             /\ Len(recent'[v]) =< W /\ Len(recent'[v]) =< info(v).offset
             /\ missed'[v] = Bits(info(v).offset, recent'[v])
             /\ info(v).counter = Cardinality(missed'[v])
             /\ v \notin lastVals => info(v) = infos[v]
  <2>1. CASE v \in lastVals
    <3> DEFINE b == v \in absent
    <3>1. b \in BOOLEAN
      OBVIOUS
    <3>2. /\ info(v) = InfoAfterVote(v, b, h, time) /\ missed'[v] = MissedAfterVote(v, b, h)
          /\ recent'[v] = RecentAfterVote(v, b, h) /\ (v \in down <=> Downtime(v, b, h))
      BY <1>2, <2>1
    <3> HIDE DEF info, down, h, time, b
    <3>3. VoteOK(v, b, h, time)
      BY <1>4, <3>1, VoteStep
    <3> QED  BY <2>1, <3>2, <3>3 DEF VoteOK
  <2>2. CASE v \notin lastVals
    <3>1. info(v) = infos[v] /\ missed'[v] = missed[v] /\ recent'[v] = recent[v] /\ v \notin down
      BY <1>2, <2>2
    <3>2. infos[v] \in InfoType /\ missed[v] \subseteq 0..(W - 1) /\ recent[v] \in Seq(BOOLEAN)
      BY <1>3, Types
    <3>3. /\ Len(recent[v]) =< W /\ Len(recent[v]) =< infos[v].offset
          /\ missed[v] = Bits(infos[v].offset, recent[v])
          /\ infos[v].counter = Cardinality(missed[v])
      BY <1>3 DEF RingInv
    <3> HIDE DEF info, down, h, time
    <3> QED  BY <3>1, <3>2, <3>3
  <2> QED  BY <2>1, <2>2
<1> HIDE DEF info, down
\* And the evidence.
<1>8. ASSUME NEW v \in Validators
      PROVE  /\ infos'[v] \in InfoType
             /\ infos'[v].found = infos[v].found
             /\ infos'[v].offset = info(v).offset /\ infos'[v].counter = info(v).counter
             /\ v \in twice => infos'[v].tombstoned = TRUE
             /\ v \notin twice => infos'[v].tombstoned = infos[v].tombstoned /\ infos'[v].until = info(v).until
             /\ v \notin lastVals /\ v \notin twice => infos'[v] = infos[v]
  <2>1. CASE v \in twice
    <3>1. infos'[v] = [info(v) EXCEPT !.tombstoned = TRUE, !.until = DoubleSignJailEndTime]
      BY <1>2, <2>1
    <3> QED  BY <1>7, <2>1, <3>1 DEF InfoType
  <2>2. CASE v \notin twice
    <3>1. infos'[v] = info(v)
      BY <1>2, <2>2
    <3> QED  BY <1>7, <2>2, <3>1
  <2> QED  BY <2>1, <2>2
<1>9. ASSUME NEW v \in Validators
      PROVE  /\ vals'[v] \in ValType /\ vals'[v].status = vals[v].status /\ vals'[v].until = vals[v].until
             /\ v \in down \cup twice => vals'[v].jailed = TRUE
             /\ v \notin down \cup twice => vals'[v].jailed = vals[v].jailed
  <2>1. vals[v] \in ValType
    BY <1>3, Types
  <2>2. CASE v \in down \cup twice
    <3>1. vals'[v] = [vals[v] EXCEPT !.jailed = TRUE]
      BY <1>2, <2>2
    <3> QED  BY <2>1, <2>2, <3>1 DEF ValType
  <2>3. CASE v \notin down \cup twice
    BY <1>2, <2>1, <2>3
  <2> QED  BY <2>2, <2>3
<1> HIDE DEF h, time
<1>10. TypeOK'
  <2>1. /\ vals' = [v \in Validators |-> vals'[v]] /\ infos' = [v \in Validators |-> infos'[v]]
        /\ missed' = [v \in Validators |-> missed'[v]] /\ recent' = [v \in Validators |-> recent'[v]]
    BY <1>2
  <2>2. vals' \in [Validators -> ValType]
    BY <1>9, <2>1
  <2>3. infos' \in [Validators -> InfoType]
    BY <1>8, <2>1
  <2>4. missed' \in [Validators -> SUBSET (0..(SignedBlocksWindow - 1))]
    <3>1. \A v \in Validators : missed'[v] \in SUBSET (0..(SignedBlocksWindow - 1))
      BY <1>7 DEF W
    <3> QED  BY <2>1, <3>1
  <2>5. recent' \in [Validators -> Seq(BOOLEAN)]
    BY <1>7, <2>1
  <2>6. doubles' \in [Validators -> Nat]
    <3>1. \A v \in Validators : doubles[v] \in Nat /\ doubles[v] + 1 \in Nat
      BY <1>3 DEF TypeOK
    <3>2. doubles' = [v \in Validators |-> IF v \in twice THEN doubles[v] + 1 ELSE doubles[v]]
      BY <1>2
    <3> QED  BY <3>1, <3>2
  <2>7. signed' \subseteq Validators \X Nat
    BY <1>1, <1>3, <1>4 DEF TypeOK
  <2>8. /\ pubkeys' \subseteq Validators /\ lastVals' \subseteq Validators
        /\ curVals' \subseteq Validators /\ nextVals' \subseteq Validators
        /\ now' \in Nat /\ height' \in Nat /\ phase' \in {"deliver", "committed"}
    BY <1>1, <1>3, <1>4 DEF TypeOK
  <2> QED  BY <2>2, <2>3, <2>4, <2>5, <2>6, <2>7, <2>8 DEF TypeOK, ValType, InfoType
<1>11. KnownInv'
  <2> SUFFICES ASSUME NEW v \in Validators
               PROVE  /\ vals'[v].status # "None" => v \in pubkeys'
                      /\ vals'[v].status \in {"Bonded", "Unbonding"} => infos'[v].found
                      /\ ~infos'[v].found => infos'[v] = NoInfo
    BY DEF KnownInv, Staked
  <2>1. /\ vals[v].status # "None" => v \in pubkeys
        /\ vals[v].status \in {"Bonded", "Unbonding"} => infos[v].found
        /\ ~infos[v].found => infos[v] = NoInfo
    BY <1>3 DEF KnownInv, Staked
  <2>2. v \in lastVals => infos[v].found
    BY <1>1 DEF VotePanics
  \* Evidence is against one who is bonded or unbonding.
  <2>3. v \in twice => infos[v].found
    <3>1. v \in twice => vals[v].status \notin {"None", "Unbonded"}
      BY DEF twice, Confirmed
    <3>2. vals[v].status \in {"None", "Unbonded", "Unbonding", "Bonded"}
      BY <1>3, Types
    <3> QED  BY <2>1, <3>1, <3>2
  <2> QED  BY <1>1, <1>8, <1>9, <2>1, <2>2, <2>3
<1>12. SignersInv'
  <2>1. /\ curVals \subseteq Validators /\ nextVals = {v \in Validators : vals[v].status = "Bonded"}
        /\ \A v \in curVals : LeftSince(v, now + UnbondingTime)
    BY <1>1, <1>3 DEF TypeOK, SignersInv
  <2>2. nextVals' = {v \in Validators : vals'[v].status = "Bonded"}
    BY <1>1, <1>9, <2>1
  <2>3. now' - step + UnbondingTime = now + UnbondingTime
    BY <1>1, <1>4 DEF time
  <2>4. \A v \in curVals : \E last \in TimeSteps :
            \/ vals'[v].status = "Bonded"
            \/ vals'[v].status = "Unbonding" /\ vals'[v].until >= now' - last + UnbondingTime
    BY <1>9, <2>1, <2>3 DEF LeftSince
  <2> QED  BY <1>1, <2>2, <2>4 DEF SignersInv, LeftSince
<1>13. EvidenceInv'
  <2> SUFFICES ASSUME NEW e \in signed'
               PROVE  /\ e[2] =< time
                      /\ \/ vals'[e[1]].status = "Bonded"
                         \/ /\ vals'[e[1]].status = "Unbonding"
                            /\ vals'[e[1]].until >= e[2] + MaxEvidenceAge
                         \/ time >= e[2] + MaxEvidenceAge
    BY <1>1 DEF EvidenceInv, LeftSince
  <2>1. CASE e \in signed
    <3>1. e[1] \in Validators /\ e[2] \in Nat
      BY <1>3, <2>1, SignedType
    <3>2. e[2] =< now /\ (LeftSince(e[1], e[2] + MaxEvidenceAge) \/ now >= e[2] + MaxEvidenceAge)
      BY <1>3, <2>1 DEF EvidenceInv
    <3>3. vals'[e[1]].status = vals[e[1]].status /\ vals'[e[1]].until = vals[e[1]].until
      BY <1>9, <3>1
    <3>4. \/ vals[e[1]].status = "Bonded"
          \/ vals[e[1]].status = "Unbonding" /\ vals[e[1]].until >= e[2] + MaxEvidenceAge
          \/ now >= e[2] + MaxEvidenceAge
      BY <3>2 DEF LeftSince
    <3>5. e[2] =< time /\ (now >= e[2] + MaxEvidenceAge => time >= e[2] + MaxEvidenceAge)
      BY <1>4, <3>1, <3>2
    <3> QED  BY <3>3, <3>4, <3>5
  <2>2. CASE e \notin signed
    <3>1. PICK v \in curVals : e = <<v, time>>
      BY <1>1, <2>2
    <3>2. v \in Validators /\ vals[v].until \in Nat /\ LeftSince(v, now + UnbondingTime)
      BY <1>1, <1>3, Types DEF TypeOK, SignersInv
    <3>3. time + MaxEvidenceAge =< now + UnbondingTime
      BY <1>4 DEF time
    <3>4. e[1] = v /\ e[2] = time
      BY <3>1
    <3>5. vals'[v].status = vals[v].status /\ vals'[v].until = vals[v].until
      BY <1>9, <3>2
    <3>6. vals[v].until >= now + UnbondingTime => vals[v].until >= time + MaxEvidenceAge
      BY <1>4, <3>2, <3>3
    <3>7. vals[v].status = "Bonded" \/ (vals[v].status = "Unbonding" /\ vals[v].until >= now + UnbondingTime)
      BY <3>2 DEF LeftSince
    <3>8. time =< time
      BY <1>4
    <3> QED  BY <3>4, <3>5, <3>6, <3>7, <3>8
  <2> QED  BY <2>1, <2>2
<1>14. JailInv'
  <2> SUFFICES ASSUME NEW v \in Validators, ~infos'[v].tombstoned
               PROVE  /\ infos'[v].until =< time + DowntimeJailDuration
                      /\ vals'[v].status \in {"Bonded", "Unbonding"} => vals'[v].jailed \/ infos'[v].until =< time
                      /\ vals'[v].status = "Unbonding" => infos'[v].until =< vals'[v].until + 1
                      /\ vals'[v].status \notin {"Bonded", "Unbonding"} => infos'[v].until =< time
    BY <1>1, <1>4 DEF JailInv, Staked
  <2>1. v \notin twice /\ infos'[v].until = info(v).until /\ ~infos[v].tombstoned
    BY <1>8
  <2>2. /\ infos[v].until =< now + DowntimeJailDuration
        /\ vals[v].status \in {"Bonded", "Unbonding"} => vals[v].jailed \/ infos[v].until =< now
        /\ vals[v].status = "Unbonding" => infos[v].until =< vals[v].until + 1
        /\ vals[v].status \notin {"Bonded", "Unbonding"} => infos[v].until =< now + 1
    BY <1>1, <1>3, <2>1 DEF JailInv, Staked
  <2>3. infos[v].until \in Nat /\ vals[v].until \in Nat
    BY <1>3, Types
  <2>4. CASE v \notin down
    <3>1. infos'[v].until = infos[v].until /\ vals'[v].jailed = vals[v].jailed
      BY <1>7, <1>9, <2>1, <2>4
    <3>2. vals'[v].status = vals[v].status /\ vals'[v].until = vals[v].until
      BY <1>9
    <3>3. /\ infos[v].until =< time + DowntimeJailDuration
          /\ infos[v].until =< now => infos[v].until =< time
          /\ infos[v].until =< now + 1 => infos[v].until =< time
      BY <1>4, <2>2, <2>3
    <3> QED  BY <2>2, <3>1, <3>2, <3>3
  <2>5. CASE v \in down
    <3>1. infos'[v].until = time + DowntimeJailDuration /\ vals'[v].jailed
      BY <1>7, <1>9, <2>1, <2>5
    <3>2. PICK last \in TimeSteps : LeftSince(v, now - last + UnbondingTime)
      BY <1>6, <2>5
    <3>3. DowntimeJailDuration + last + step =< UnbondingTime + 1 /\ last \in Nat
      OBVIOUS
    <3>4. time + DowntimeJailDuration =< (now - last + UnbondingTime) + 1
      BY <1>4, <3>3 DEF time
    <3>5. vals'[v].status = vals[v].status /\ vals'[v].until = vals[v].until
      BY <1>9
    <3>6. \/ vals[v].status = "Bonded"
          \/ vals[v].status = "Unbonding" /\ vals[v].until >= now - last + UnbondingTime
      BY <3>2 DEF LeftSince
    <3>7. /\ vals[v].until >= now - last + UnbondingTime => time + DowntimeJailDuration =< vals[v].until + 1
          /\ time + DowntimeJailDuration =< time + DowntimeJailDuration
      BY <1>4, <2>3, <3>3, <3>4
    <3> QED  BY <3>1, <3>5, <3>6, <3>7
  <2> QED  BY <2>4, <2>5
<1>15. RingInv'
  BY <1>7, <1>8 DEF RingInv
<1>16. PunishedOnce'
  <2> SUFFICES ASSUME NEW v \in Validators
               PROVE  doubles'[v] = IF infos'[v].tombstoned THEN 1 ELSE 0
    BY DEF PunishedOnce
  <2>1. doubles[v] = IF infos[v].tombstoned THEN 1 ELSE 0
    BY <1>3 DEF PunishedOnce
  <2>2. CASE v \in twice
    <3>1. doubles'[v] = doubles[v] + 1 /\ infos'[v].tombstoned = TRUE
      BY <1>2, <1>8, <2>2
    <3>2. doubles[v] = 0
      BY <1>5, <2>1, <2>2
    <3> QED  BY <3>1, <3>2
  <2>3. CASE v \notin twice
    BY <1>2, <1>8, <2>1, <2>3
  <2> QED  BY <2>2, <2>3
<1> QED  BY <1>10, <1>11, <1>12, <1>13, <1>14, <1>15, <1>16 DEF IInv
-----------------------------------------------------------------------------
(* Theorems *)

\* Every step, and stuttering, keeps the invariant.
LEMMA NextIInv == IInv /\ [Next]_vars => IInv'
<1> SUFFICES ASSUME IInv, [Next]_vars PROVE IInv'
  OBVIOUS
<1>1. CASE UNCHANGED vars
  BY <1>1 DEF vars, IInv, TypeOK, KnownInv, SignersInv, EvidenceInv, JailInv, RingInv, PunishedOnce,
              Staked, LeftSince
<1>2. ASSUME NEW step \in TimeSteps, NEW absent, NEW evidence, BeginBlock(step, absent, evidence)
      PROVE  IInv'
  BY <1>2, BeginBlockStep
<1>3. ASSUME NEW v \in Validators, Unjail(v) \/ CreateValidator(v) \/ SelfJail(v) \/ Remove(v)
      PROVE  IInv'
  BY <1>3, Messages
<1>4. ASSUME NEW bonded \in SUBSET Validators, NEW emptied \in SUBSET Validators,
             EndBlock(bonded, emptied)
      PROVE  IInv'
  BY <1>4, EndBlockStep
<1>5. CASE Next
  <2>1. CASE \E step \in TimeSteps, absent \in SUBSET lastVals :
               \E evidence \in {{}} \cup {{e} : e \in signed} : BeginBlock(step, absent, evidence)
    BY <2>1, <1>2
  <2>2. CASE \E v \in Validators : Unjail(v) \/ CreateValidator(v) \/ SelfJail(v) \/ Remove(v)
    BY <2>2, <1>3
  <2>3. CASE \E bonded, emptied \in SUBSET Validators : EndBlock(bonded, emptied)
    BY <2>3, <1>4
  <2> QED  BY <1>5, <2>1, <2>2, <2>3 DEF Next
<1> QED  BY <1>1, <1>5

\* The inductive invariant holds always.
THEOREM Inductive == Spec => []IInv
  BY InitIInv, NextIInv, PTL DEF Spec

\* The bits of handleValidatorSignature stay within the window and its counter never
\* becomes negative, for every window and every pattern of votes, removals and returns.
THEOREM Typed == Spec => []TypeOK
<1>1. IInv => TypeOK
  BY DEF IInv
<1> QED  BY <1>1, Inductive, PTL

\* The MissedBlockBitArray of every validator is exactly the last SignedBlocksWindow votes
\* since it was reset, and the MissedBlocksCounter the number of its bits.
THEOREM RingAlwaysExact == Spec => []RingExact
<1>1. IInv => RingExact
  <2> SUFFICES ASSUME IInv, NEW v \in Validators
               PROVE  LET n == Len(recent[v])
                          slot(i) == (infos[v].offset - 1 - (n - i)) % SignedBlocksWindow
                      IN  /\ n =< infos[v].offset
                          /\ missed[v] = {slot(i) : i \in {j \in 1..n : recent[v][j]}}
                          /\ infos[v].counter = Cardinality(missed[v])
    BY DEF RingExact
  <2>1. /\ Len(recent[v]) =< infos[v].offset /\ missed[v] = Bits(infos[v].offset, recent[v])
        /\ infos[v].counter = Cardinality(missed[v])
    BY DEF IInv, RingInv
  <2> QED  BY <2>1 DEF Bits, Slot, W
<1> QED  BY <1>1, Inductive, PTL

\* BeginBlocker never panics: no vote and no evidence comes from one whose key or signing
\* info is gone, and no unbonded validator is slashed for downtime.
THEOREM NeverPanics == Spec => []NoPanic
<1>1. IInv => NoPanic
  <2> SUFFICES ASSUME IInv, phase = "committed"
               PROVE  /\ \A v \in lastVals, absent \in BOOLEAN : ~VotePanics(v, absent, height + 1)
                      /\ \A v \in Validators : ~EvidencePanics(v)
    BY DEF NoPanic
  <2>1. TypeOK /\ KnownInv /\ SignersInv
    BY DEF IInv
  <2>2. ASSUME NEW v \in lastVals, NEW absent \in BOOLEAN
        PROVE  ~VotePanics(v, absent, height + 1)
    <3>1. v \in Validators /\ Staked(v)
      BY <2>1 DEF TypeOK, SignersInv, LeftSince, Staked
    <3> QED  BY <2>1, <3>1 DEF KnownInv, Staked, VotePanics
  <2>3. ASSUME NEW v \in Validators  PROVE ~EvidencePanics(v)
    <3>1. vals[v].status \in {"None", "Unbonded", "Unbonding", "Bonded"}
      BY <2>1, Types
    <3> QED  BY <2>1, <3>1 DEF KnownInv, Staked, EvidencePanics
  <2> QED  BY <2>2, <2>3
<1> QED  BY <1>1, Inductive, PTL

\* Whoever signed a block recently enough for evidence to count is still bonded or
\* unbonding, so that handleDoubleSign never drops evidence because the validator left.
THEOREM AlwaysAccountable == Spec => []StillAccountable
<1>1. IInv => StillAccountable
  <2> SUFFICES ASSUME IInv, NEW e \in signed, NEW step \in TimeSteps,
                      now + step - e[2] =< MaxEvidenceAge
               PROVE  vals[e[1]].status \in {"Bonded", "Unbonding"}
    BY DEF StillAccountable
  <2>1. TypeOK /\ EvidenceInv
    BY DEF IInv
  <2>2. now \in Nat /\ e[2] \in Nat /\ step \in Nat /\ step >= 1
    BY <2>1, SignedType DEF TypeOK
  <2>3. ~(now >= e[2] + MaxEvidenceAge)
    BY <2>2
  <2> QED  BY <2>1, <2>3 DEF EvidenceInv, LeftSince
<1> QED  BY <1>1, Inductive, PTL

\* handleDoubleSign punishes a validator at most once, also across its removal and return.
THEOREM PunishedAtMostOnce == Spec => []PunishedOnce
<1>1. IInv => PunishedOnce
  BY DEF IInv
<1> QED  BY <1>1, Inductive, PTL

\* A validator jailed for downtime is not bonded again before its jail time is over, by
\* handleMsgUnjail or by leaving and being created again.
THEOREM JailAlwaysServed == Spec => []JailServed
<1>1. IInv => JailServed
  <2> SUFFICES ASSUME IInv, phase = "committed", NEW v \in Validators,
                      vals[v].status = "Bonded", ~infos[v].tombstoned
               PROVE  now >= infos[v].until
    BY DEF JailServed
  <2>1. ~vals[v].jailed
    BY DEF IInv, SignersInv
  <2>2. infos[v].until =< now
    BY <2>1 DEF IInv, JailInv, Staked
  <2>3. now \in Nat /\ infos[v].until \in Nat
    BY Types DEF IInv
  <2> QED  BY <2>2, <2>3
<1> QED  BY <1>1, Inductive, PTL

\* The bit array of handleValidatorSignature is the ring of the last votes, within the
\* window, and its counter the number of its bits.
THEOREM RingAlwaysSound == Spec => []RingSound
<1>1. TypeOK /\ RingExact => RingSound
  BY DEF RingSound
<1> QED  BY <1>1, Typed, RingAlwaysExact, PTL

\* Removal, return, evidence, votes and unjailing in any order: no second punishment for
\* double signing, no jail time for downtime cut short.
THEOREM PenaltiesAlwaysServed == Spec => []PenaltiesServed
<1>1. PunishedOnce /\ JailServed => PenaltiesServed
  BY DEF PenaltiesServed
<1> QED  BY <1>1, PunishedAtMostOnce, JailAlwaysServed, PTL
=============================================================================
