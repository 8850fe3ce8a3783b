----------------------------- MODULE IbcProofs -----------------------------
(***************************************************************************)
(* Proof that the chains and the relayers implement transfers by number and *)
(* once, and in order where a name is used by its own chain only, for any   *)
(* chains, names, accounts, relayers and links, and any claims.             *)
(*                                                                          *)
(* The argument: a message in a mempool carries the packet its sequence     *)
(* names, because a relayer reads the packet under the sequence it puts in  *)
(* the message and packets are never changed.  A message is accepted only   *)
(* with the sequence that is next under the name in its packet, and that is *)
(* the number of packets taken under the name: what comes out of a queue is *)
(* taken under its own number.                                              *)
(***************************************************************************)
EXTENDS Ibc, SequenceTheorems, TLAPS

Locals == [pc : {"sleep", "length", "seq", "loop", "await"}, i : Nat, length : Nat, seq : Nat]

\* The message carries the packet its sequence names.
Real(r, m) ==
    /\ m.seq \in Nat /\ m.seq < Len(egress[Link[r]])
    /\ m.packet = egress[Link[r]][m.seq + 1]

ChainsOK ==
    /\ bal \in [Chains \X Accounts -> Nat]
    /\ egress \in [Queues -> Seq(Packet)] /\ ingress \in [Queues -> Nat]
    /\ accSeq \in [Relayers -> Nat] /\ claimed \in Nat

\* What a packet is taken with: its queue, or Nowhere.
Entry == [packet : Packet, from : Queues \cup {Nowhere}]

\* Packet k that was taken under x, if it was in a queue, is packet k of the queue.
Taken(x, k) ==
    LET g == got[x][k]
    IN  g.from # Nowhere => /\ g.from[2] = x[1] /\ k <= Len(egress[g.from])
                            /\ g.packet = egress[g.from][k]

GotOK ==
    /\ got \in [Queues -> Seq(Entry)]
    /\ \A x \in Queues : Len(got[x]) = ingress[x] /\ \A k \in 1..Len(got[x]) : Taken(x, k)

PoolOK ==
    /\ pool \in [Relayers -> Seq(MsgIBCReceive)]
    /\ \A r \in Relayers : \A k \in 1..Len(pool[r]) : Real(r, pool[r][k])

RelOK ==
    /\ rel \in [Relayers -> Locals]
    /\ \A r \in Relayers : rel[r].length <= Len(egress[Link[r]])

\* What a node answers was true once.
PrevOK ==
    /\ \A l \in Queues : prev.length[l] \in Nat /\ prev.length[l] <= Len(egress[l]) /\ prev.ingress[l] \in Nat
    /\ \A r \in Relayers : prev.accSeq[r] \in Nat

Inv == ChainsOK /\ GotOK /\ PoolOK /\ RelOK /\ PrevOK

\* The links of the relayers are queues, between two chains.
LEMMA LinkFacts ==
    /\ \A r \in Relayers : Link[r] \in Queues /\ Link[r][1] \in Chains /\ Link[r][2] \in Chains
    /\ \A r \in Relayers : <<Link[r][2], Link[r][1]>> \in Queues
    /\ \A c \in Chains, p \in Packet : <<c, p.srcChain>> \in Queues /\ <<c, p.destChain>> \in Queues
    /\ \A c \in Chains, p \in Packet : <<c, p.src>> \in Chains \X Accounts /\ <<c, p.dest>> \in Chains \X Accounts
    /\ \A p \in Packet : p.coins \in Nat
<1>1. Amounts \subseteq Nat /\ Chains \subseteq ChainIDs /\ Link \in [Relayers -> Chains \X Chains]
  BY RouteAssumption
<1> QED BY <1>1 DEF Queues, Packet

\* A block records what there was before it, as long as packets are only added.
LEMMA BlockOK ==
    ASSUME Inv, NEW c \in Chains, Block(c),
           \A l \in Queues : Len(egress'[l]) \in Nat /\ Len(egress[l]) <= Len(egress'[l])
    PROVE  PrevOK'
<1>1. \A l \in Queues : Len(egress[l]) \in Nat /\ ingress[l] \in Nat
  BY DEF Inv, ChainsOK
<1>2. \A l \in Queues : /\ prev'.length[l] \in {Len(egress[l]), prev.length[l]}
                       /\ prev'.ingress[l] \in {ingress[l], prev.ingress[l]}
  BY DEF Block
<1>3. \A r \in Relayers : prev'.accSeq[r] \in {accSeq[r], prev.accSeq[r]} /\ accSeq[r] \in Nat
  BY DEF Block, Inv, ChainsOK
<1> QED BY <1>1, <1>2, <1>3 DEF Inv, PrevOK

\* The system starts in order.
LEMMA InitOK == ASSUME Init PROVE Inv
<1>1. ChainsOK
  <2>2. egress \in [Queues -> Seq(Packet)]
    BY DEF Init
  <2> QED BY <2>2, RouteAssumption DEF Init, ChainsOK
<1>2. PoolOK
  <2>1. \A r \in Relayers : pool[r] = <<>> /\ Len(pool[r]) = 0
    BY DEF Init
  <2>2. pool \in [Relayers -> Seq(MsgIBCReceive)]
    BY DEF Init
  <2> QED BY <2>1, <2>2 DEF PoolOK
<1>3. RelOK
  <2>1. Asleep \in Locals /\ Asleep.length = 0
    BY DEF Asleep, Locals
  <2>2. \A l \in Queues : Len(egress[l]) = 0
    BY DEF Init
  <2> QED BY <2>1, <2>2, LinkFacts DEF Init, RelOK
<1>4. PrevOK
  <2>1. \A l \in Queues : Len(egress[l]) = 0
    BY DEF Init
  <2> QED BY <2>1 DEF Init, PrevOK
<1>5. GotOK
  <2>1. \A x \in Queues : got[x] = <<>> /\ Len(got[x]) = 0 /\ ingress[x] = 0
    BY DEF Init
  <2>2. got \in [Queues -> Seq(Entry)]
    BY DEF Init
  <2> QED BY <2>1, <2>2 DEF GotOK
<1> QED BY <1>1, <1>2, <1>3, <1>4, <1>5 DEF Inv

\* Only the variables of one relayer change, to other ones within what there is.
LEMMA RelStep ==
    ASSUME Inv, NEW r \in Relayers, NEW next \in Locals, next.length <= Len(egress[Link[r]]),
           rel' = [rel EXCEPT ![r] = next], UNCHANGED egress
    PROVE  RelOK'
  BY DEF Inv, RelOK

\* As much happens in the loop of a relayer, except for a broadcast.
LEMMA StepOK ==
    ASSUME Inv, NEW r \in Relayers, NEW next \in Locals, next.length <= Len(egress[Link[r]]),
           Step(r, next)
    PROVE  Inv' /\ UNCHANGED <<bal, egress, got>>
<1>1. UNCHANGED <<bal, egress, ingress, accSeq, prev, pool, got, claimed>> /\ rel' = [rel EXCEPT ![r] = next]
  BY DEF Step
<1>2. RelOK'
  BY <1>1, RelStep
<1> QED BY <1>1, <1>2 DEF Inv, ChainsOK, GotOK, Taken, PoolOK, Real, PrevOK

\* Packets that are there stay what they are.
LEMMA SendOK ==
    ASSUME Inv, NEW c \in Chains, NEW p \in Packet, handleIBCTransferMsg(c, p)
    PROVE  Inv' /\ AsTransfers!Send(c, p)
<1> DEFINE l == <<c, p.destChain>>
           x == <<c, p.src>>
<1>0. /\ l \in Queues /\ x \in Chains \X Accounts /\ p.coins \in Nat /\ bal[x] >= p.coins
      /\ bal' = [bal EXCEPT ![x] = @ - p.coins]
      /\ egress' = [egress EXCEPT ![l] = Append(@, p)]
      /\ UNCHANGED <<ingress, accSeq, pool, rel, got, claimed>> /\ Block(c)
      /\ egress \in [Queues -> Seq(Packet)]
  BY LinkFacts DEF handleIBCTransferMsg, Inv, ChainsOK
<1>1. bal' \in [Chains \X Accounts -> Nat]
  <2>1. bal[x] \in Nat /\ bal[x] - p.coins \in Nat
    BY <1>0 DEF Inv, ChainsOK
  <2> QED BY <1>0, <2>1 DEF Inv, ChainsOK
<1>2. /\ Append(egress[l], p) \in Seq(Packet)
      /\ Len(Append(egress[l], p)) = Len(egress[l]) + 1
      /\ \A i \in 1..Len(egress[l]) : Append(egress[l], p)[i] = egress[l][i]
  BY <1>0, AppendProperties
<1>3. /\ egress' \in [Queues -> Seq(Packet)]
      /\ \A k \in Queues : /\ Len(egress[k]) \in Nat /\ Len(egress'[k]) \in Nat
                           /\ Len(egress[k]) <= Len(egress'[k])
                           /\ \A i \in 1..Len(egress[k]) : egress'[k][i] = egress[k][i]
  <2> HIDE DEF l, x
  <2>1. egress' \in [Queues -> Seq(Packet)]
    BY <1>0, <1>2
  <2>2. egress'[l] = Append(egress[l], p) /\ \A k \in Queues : k # l => egress'[k] = egress[k]
    BY <1>0
  <2>3. \A k \in Queues : Len(egress[k]) \in Nat
    BY <1>0
  <2>4. Len(egress'[l]) = Len(egress[l]) + 1 /\ \A i \in 1..Len(egress[l]) : egress'[l][i] = egress[l][i]
    BY <1>2, <2>2
  <2>5. ASSUME NEW k \in Queues
        PROVE  /\ Len(egress'[k]) \in Nat /\ Len(egress[k]) <= Len(egress'[k])
               /\ \A i \in 1..Len(egress[k]) : egress'[k][i] = egress[k][i]
    BY <1>0, <2>2, <2>3, <2>4
  <2> QED BY <2>1, <2>3, <2>5
<1>4. ChainsOK'
  BY <1>0, <1>1, <1>3 DEF Inv, ChainsOK
<1>5. PoolOK'
  <2>1. ASSUME NEW r \in Relayers, NEW m, Real(r, m)
        PROVE  Real(r, m)'
    <3>1. Link[r] \in Queues /\ m.seq + 1 \in 1..Len(egress[Link[r]])
      BY <1>3, <2>1, LinkFacts DEF Real
    <3> QED BY <1>3, <2>1, <3>1 DEF Real
  <2> QED BY <1>0, <2>1 DEF Inv, PoolOK
<1>6. RelOK'
  <2>1. \A r \in Relayers : rel[r].length \in Nat /\ rel[r].length <= Len(egress'[Link[r]])
    BY <1>3, LinkFacts DEF Inv, RelOK, Locals
  <2> QED BY <1>0, <2>1 DEF Inv, RelOK
<1>7. PrevOK'
  BY <1>0, <1>3, BlockOK
<1>8. GotOK'
  <2>1. ASSUME NEW y \in Queues, NEW k \in 1..Len(got[y]), Taken(y, k)
        PROVE  Taken(y, k)'
    <3>1. got[y] \in Seq(Entry) /\ got[y][k] \in Entry
      BY DEF Inv, GotOK
    <3>2. got[y][k].from # Nowhere => got[y][k].from \in Queues
      BY <3>1 DEF Entry
    <3>3. CASE got[y][k].from # Nowhere
      <4> DEFINE q == got[y][k].from
      <4>1. q \in Queues /\ k \in 1..Len(egress[q]) /\ q[2] = y[1] /\ got[y][k].packet = egress[q][k]
        BY <2>1, <3>2, <3>3, <1>3 DEF Taken
      <4> HIDE DEF q
      <4>2. k <= Len(egress'[q]) /\ egress'[q][k] = egress[q][k]
        BY <1>3, <4>1
      <4> QED BY <1>0, <4>1, <4>2 DEF Taken, q
    <3>4. CASE got[y][k].from = Nowhere
      BY <1>0, <3>4 DEF Taken
    <3> QED BY <3>3, <3>4
  <2> QED BY <1>0, <2>1 DEF Inv, GotOK
<1> QED BY <1>0, <1>4, <1>5, <1>6, <1>7, <1>8 DEF Inv, AsTransfers!Send

\* A relayer broadcasts the packet under the sequence it names.
LEMMA BroadcastOK ==
    ASSUME Inv, NEW r \in Relayers, Broadcast(r)
    PROVE  Inv' /\ UNCHANGED <<bal, egress, got>>
<1> DEFINE m == [packet |-> egress[Link[r]][rel[r].i + 1], seq |-> rel[r].i]
           next == Onward(r)
<1>0. /\ UNCHANGED <<bal, egress, ingress, accSeq, prev, got, claimed>>
      /\ pool' = [pool EXCEPT ![r] = Append(@, m)]
      /\ rel' = [rel EXCEPT ![r] = next]
      /\ rel[r].i < rel[r].length
  BY DEF Broadcast
<1>1. /\ rel[r] \in Locals /\ rel[r].length <= Len(egress[Link[r]]) /\ Link[r] \in Queues
      /\ egress[Link[r]] \in Seq(Packet) /\ pool[r] \in Seq(MsgIBCReceive)
  BY LinkFacts DEF Inv, RelOK, ChainsOK, PoolOK
<1>2. rel[r].i \in Nat /\ rel[r].length \in Nat /\ rel[r].seq \in Nat /\ Len(egress[Link[r]]) \in Nat
  BY <1>1 DEF Locals
<1>3. rel[r].i + 1 \in 1..Len(egress[Link[r]]) /\ rel[r].i < Len(egress[Link[r]])
  BY <1>0, <1>1, <1>2
<1>4. m \in MsgIBCReceive /\ Real(r, m)
  BY <1>1, <1>2, <1>3 DEF MsgIBCReceive, Real
<1>5. next \in Locals /\ next.length = rel[r].length
  BY <1>2 DEF Locals, Onward
<1>6. RelOK'
  BY <1>0, <1>1, <1>5, RelStep
<1>7. /\ Append(pool[r], m) \in Seq(MsgIBCReceive)
      /\ Len(Append(pool[r], m)) = Len(pool[r]) + 1
      /\ \A i \in 1..Len(pool[r]) : Append(pool[r], m)[i] = pool[r][i]
      /\ Append(pool[r], m)[Len(pool[r]) + 1] = m
  BY <1>1, <1>4, AppendProperties
<1>8. PoolOK'
  <2>1. pool' \in [Relayers -> Seq(MsgIBCReceive)]
    BY <1>0, <1>7 DEF Inv, PoolOK
  <2>2. \A k \in 1..Len(pool'[r]) : Real(r, pool'[r][k])
    BY <1>0, <1>1, <1>4, <1>7 DEF Inv, PoolOK
  <2>3. \A q \in Relayers : q # r => pool'[q] = pool[q]
    BY <1>0 DEF Inv, PoolOK
  <2>4. \A q \in Relayers : \A k \in 1..Len(pool'[q]) : Real(q, pool'[q][k])
    BY <2>2, <2>3 DEF Inv, PoolOK
  <2> QED BY <1>0, <2>1, <2>4 DEF PoolOK, Real
<1> QED BY <1>0, <1>6, <1>8 DEF Inv, ChainsOK, GotOK, Taken, PrevOK

\* What chain c accepts under the sequence that is next is taken as the next one: either
\* it is in no queue, or it is in the queue under that sequence.
LEMMA ReceiveOK ==
    ASSUME Inv, NEW c \in Chains, NEW m \in MsgIBCReceive, NEW from \in Queues \cup {Nowhere},
           handleIBCReceiveMsg(c, m, from), Expected(c, m), UNCHANGED egress,
           from # Nowhere =>
               from[2] = c /\ m.seq < Len(egress[from]) /\ m.packet = egress[from][m.seq + 1]
    PROVE  /\ bal' \in [Chains \X Accounts -> Nat] /\ ingress' \in [Queues -> Nat] /\ GotOK'
           /\ AsTransfers!Take(c, m.packet, from)
           /\ m.seq = Len(got[<<c, m.packet.srcChain>>])
<1> DEFINE x == <<c, m.packet.srcChain>>
           y == <<c, m.packet.dest>>
           e == [packet |-> m.packet, from |-> from]
<1>0. m.packet \in Packet /\ m.seq \in Nat
  BY DEF MsgIBCReceive
<1>1. /\ x \in Queues /\ y \in Chains \X Accounts /\ m.packet.coins \in Nat
      /\ bal' = [bal EXCEPT ![y] = @ + m.packet.coins]
      /\ ingress' = [ingress EXCEPT ![x] = m.seq + 1]
      /\ got' = [got EXCEPT ![x] = Append(@, e)]
      /\ m.seq = ingress[x]
  BY <1>0, LinkFacts DEF handleIBCReceiveMsg, Expected
<1>2. bal' \in [Chains \X Accounts -> Nat]
  <2>1. bal[y] \in Nat /\ bal[y] + m.packet.coins \in Nat
    BY <1>1 DEF Inv, ChainsOK
  <2> QED BY <1>1, <2>1 DEF Inv, ChainsOK
<1>3. ingress' \in [Queues -> Nat]
  BY <1>0, <1>1 DEF Inv, ChainsOK
<1>4. e \in Entry /\ got[x] \in Seq(Entry) /\ Len(got[x]) = ingress[x]
  BY <1>0, <1>1 DEF Entry, Inv, GotOK
<1>5. /\ Append(got[x], e) \in Seq(Entry)
      /\ Len(Append(got[x], e)) = Len(got[x]) + 1
      /\ \A i \in 1..Len(got[x]) : Append(got[x], e)[i] = got[x][i]
      /\ Append(got[x], e)[Len(got[x]) + 1] = e
  <2> HIDE DEF e, x
  <2> QED BY <1>4, AppendProperties
<1>6. got' \in [Queues -> Seq(Entry)]
  BY <1>1, <1>5 DEF Inv, GotOK
<1>7. \A z \in Queues : Len(got'[z]) = ingress'[z]
  BY <1>1, <1>4, <1>5 DEF Inv, GotOK, ChainsOK
<1>8. ASSUME NEW z \in Queues, NEW k \in 1..Len(got'[z])
      PROVE  Taken(z, k)'
  <2>1. CASE z = x /\ k = Len(got[x]) + 1
    <3>1. got'[z][k] = e /\ z[1] = c /\ k = m.seq + 1
      BY <1>1, <1>4, <1>5, <2>1 DEF Inv, GotOK
    <3>2. from # Nowhere => from \in Queues /\ Len(egress[from]) \in Nat
      BY DEF Inv, ChainsOK
    <3> QED BY <1>0, <3>1, <3>2 DEF Taken
  <2>2. CASE ~(z = x /\ k = Len(got[x]) + 1)
    <3>1. k \in 1..Len(got[z]) /\ got'[z][k] = got[z][k]
      <4> HIDE DEF e, x
      <4>1. CASE z = x
        <5>1. got'[z] = Append(got[x], e) /\ Len(got[x]) \in Nat
          BY <1>1, <1>4, <4>1 DEF Inv, GotOK
        <5> QED BY <1>5, <2>2, <4>1, <5>1
      <4>2. CASE z # x
        BY <1>1, <4>2 DEF Inv, GotOK
      <4> QED BY <4>1, <4>2
    <3>2. Taken(z, k)
      BY <3>1 DEF Inv, GotOK
    <3> QED BY <3>1, <3>2 DEF Taken
  <2> QED BY <2>1, <2>2
<1>9. GotOK'
  BY <1>6, <1>7, <1>8 DEF GotOK
<1> QED BY <1>1, <1>2, <1>3, <1>4, <1>9 DEF AsTransfers!Take

\* A claim is taken, out of no queue.
LEMMA ClaimOK ==
    ASSUME Inv, NEW c \in Chains, NEW p \in Claims[c], Claim(c, p)
    PROVE  Inv' /\ AsTransfers!Take(c, p, Nowhere)
<1> DEFINE m == [packet |-> p, seq |-> ingress[<<c, p.srcChain>>]]
<1>0. p \in Packet
  BY RouteAssumption
<1>1. /\ handleIBCReceiveMsg(c, m, Nowhere) /\ claimed' = claimed + p.coins /\ Block(c)
      /\ UNCHANGED <<egress, accSeq, pool, rel>>
  BY DEF Claim
<1>2. m \in MsgIBCReceive /\ Expected(c, m) /\ p.coins \in Nat
  BY <1>0, LinkFacts DEF MsgIBCReceive, Expected, Inv, ChainsOK
<1>3. /\ bal' \in [Chains \X Accounts -> Nat] /\ ingress' \in [Queues -> Nat] /\ GotOK'
      /\ AsTransfers!Take(c, p, Nowhere)
  <2>1. m.packet = p /\ Nowhere \in Queues \cup {Nowhere}
    OBVIOUS
  <2> QED BY <1>1, <1>2, <2>1, ReceiveOK
<1>4. ChainsOK'
  BY <1>1, <1>2, <1>3 DEF Inv, ChainsOK
<1>5. PrevOK'
  BY <1>1, BlockOK DEF Inv, ChainsOK
<1>6. PoolOK' /\ RelOK'
  BY <1>1 DEF Inv, PoolOK, RelOK, Real
<1> QED BY <1>3, <1>4, <1>5, <1>6 DEF Inv

\* What is accepted from a relayer is the next packet, of those under its name.
LEMMA DeliverOK ==
    ASSUME Inv, NEW r \in Relayers, Deliver(r)
    PROVE  Inv' /\ (\/ UNCHANGED <<bal, egress, got>>
                    \/ \E k \in 1..Len(egress[Link[r]]) : AsTransfers!Arrive(Link[r], k))
<1> DEFINE l == Link[r]
           c == l[2]
           m == Head(pool[r])
<1>0. /\ pool[r] # <<>> /\ handleIBCReceiveMsg(c, m, l)
      /\ accSeq' = [accSeq EXCEPT ![r] = @ + 1]
      /\ pool' = [pool EXCEPT ![r] = Tail(@)]
      /\ rel' = IF rel[r].seq = accSeq[r] + 1
                THEN [rel EXCEPT ![r] = Answered(r, Expected(c, m))] ELSE rel
      /\ Block(c) /\ egress' = egress /\ claimed' = claimed
  BY DEF Deliver
<1>1. /\ l \in Queues /\ c \in Chains /\ pool[r] \in Seq(MsgIBCReceive)
      /\ egress[l] \in Seq(Packet) /\ Len(egress[l]) \in Nat
  BY LinkFacts DEF Inv, ChainsOK, PoolOK
<1>2. /\ m \in MsgIBCReceive /\ Tail(pool[r]) \in Seq(MsgIBCReceive)
      /\ Len(Tail(pool[r])) = Len(pool[r]) - 1
      /\ \A i \in 1..Len(Tail(pool[r])) : Tail(pool[r])[i] = pool[r][i + 1]
      /\ m = pool[r][1] /\ 1 \in 1..Len(pool[r])
  BY <1>0, <1>1, HeadTailProperties
<1>3. Real(r, m)
  BY <1>2 DEF Inv, PoolOK
<1>4. PoolOK'
  <2>1. pool' \in [Relayers -> Seq(MsgIBCReceive)]
    BY <1>0, <1>2 DEF Inv, PoolOK
  <2>2. \A k \in 1..Len(pool'[r]) : Real(r, pool'[r][k])
    BY <1>0, <1>1, <1>2 DEF Inv, PoolOK
  <2>3. \A q \in Relayers : q # r => pool'[q] = pool[q]
    BY <1>0 DEF Inv, PoolOK
  <2>4. \A q \in Relayers : \A k \in 1..Len(pool'[q]) : Real(q, pool'[q][k])
    BY <2>2, <2>3 DEF Inv, PoolOK
  <2> QED BY <1>0, <2>1, <2>4 DEF PoolOK, Real
<1>5. RelOK'
  <2>1. Asleep \in Locals /\ Asleep.length <= Len(egress[l]) /\ rel[r] \in Locals
        /\ rel[r].length <= Len(egress[l])
    BY <1>1 DEF Asleep, Locals, Inv, RelOK
  <2>2. [rel[r] EXCEPT !.pc = "loop"] \in Locals /\ [rel[r] EXCEPT !.pc = "loop"].length = rel[r].length
    BY <2>1 DEF Locals
  <2>3. \E next \in Locals : next.length <= Len(egress[l]) /\ rel' = [rel EXCEPT ![r] = next]
    <3>1. CASE rel[r].seq = accSeq[r] + 1 /\ Answered(r, Expected(c, m)) = Asleep
      <4>1. rel' = [rel EXCEPT ![r] = Asleep]
        BY <1>0, <3>1
      <4> QED BY <2>1, <4>1
    <3>2. CASE rel[r].seq = accSeq[r] + 1 /\ Answered(r, Expected(c, m)) = [rel[r] EXCEPT !.pc = "loop"]
      BY <1>0, <2>1, <2>2, <3>2
    <3>3. CASE rel' = rel \/ rel' = [rel EXCEPT ![r] = rel[r]]
      <4>1. rel = [rel EXCEPT ![r] = rel[r]]
        BY DEF Inv, RelOK
      <4> QED BY <2>1, <3>3, <4>1
    <3>4. Answered(r, Expected(c, m)) \in {Asleep, rel[r], [rel[r] EXCEPT !.pc = "loop"]}
      BY DEF Answered
    <3> QED BY <1>0, <3>1, <3>2, <3>3, <3>4
  <2> QED BY <1>0, <2>3, RelStep
<1>6. accSeq' \in [Relayers -> Nat]
  BY <1>0 DEF Inv, ChainsOK
<1>7. PrevOK'
  BY <1>0, <1>1, BlockOK DEF Inv, ChainsOK
<1>8. CASE Expected(c, m)
  <2> DEFINE k == m.seq + 1
  <2>1. /\ bal' \in [Chains \X Accounts -> Nat] /\ ingress' \in [Queues -> Nat] /\ GotOK'
        /\ AsTransfers!Take(c, m.packet, l)
        /\ m.seq = Len(got[<<c, m.packet.srcChain>>])
    <3>1. /\ l \in Queues \cup {Nowhere}
          /\ l[2] = c /\ m.seq < Len(egress[l]) /\ m.packet = egress[l][m.seq + 1]
      BY <1>1, <1>3 DEF Real
    <3> HIDE DEF l, c, m
    <3> QED BY <1>0, <1>1, <1>2, <1>8, <3>1, ReceiveOK
  <2>2. ChainsOK'
    BY <1>0, <1>6, <2>1 DEF Inv, ChainsOK
  <2>3. k \in 1..Len(egress[l]) /\ m.packet = egress[l][k]
    BY <1>1, <1>3 DEF Real
  <2>4. AsTransfers!Arrive(l, k)
    <3> HIDE DEF m
    <3> QED BY <1>1, <2>1, <2>3 DEF AsTransfers!Arrive
  <2> QED BY <1>4, <1>5, <1>7, <2>1, <2>2, <2>3, <2>4 DEF Inv
<1>9. CASE ~Expected(c, m)
  <2>1. UNCHANGED <<bal, ingress, egress, got>>
    BY <1>0, <1>9 DEF handleIBCReceiveMsg
  <2>2. ChainsOK' /\ GotOK'
    BY <1>0, <1>6, <2>1 DEF Inv, ChainsOK, GotOK, Taken
  <2> QED BY <1>4, <1>5, <1>7, <2>1, <2>2 DEF Inv
<1> QED BY <1>8, <1>9

\* What is lost is not there: the rest is as it was.
LEMMA LostOK ==
    ASSUME Inv, NEW r \in Relayers, Lost(r)
    PROVE  Inv' /\ UNCHANGED <<bal, egress, got>>
<1>0. UNCHANGED <<bal, egress, ingress, accSeq, prev, rel, got, claimed>> /\ pool[r] \in Seq(MsgIBCReceive)
  BY DEF Lost, Inv, PoolOK
<1>1. PICK k \in 1..Len(pool[r]) : pool' = [pool EXCEPT ![r] = SubSeq(@, 1, k - 1)]
  BY DEF Lost
<1>2. /\ k \in Int /\ k - 1 \in Int /\ Len(pool[r]) \in Nat
      /\ \A i \in 1..k - 1 : i \in 1..Len(pool[r]) /\ pool[r][i] \in MsgIBCReceive
  BY <1>0
<1>3. /\ SubSeq(pool[r], 1, k - 1) \in Seq(MsgIBCReceive)
      /\ Len(SubSeq(pool[r], 1, k - 1)) = IF 1 <= k - 1 THEN k - 1 - 1 + 1 ELSE 0
      /\ \A i \in 1..k - 1 - 1 + 1 : SubSeq(pool[r], 1, k - 1)[i] = pool[r][1 + i - 1]
  BY <1>2, SubSeqProperties
<1>4. /\ Len(SubSeq(pool[r], 1, k - 1)) = k - 1
      /\ \A i \in 1..k - 1 : SubSeq(pool[r], 1, k - 1)[i] = pool[r][i]
  BY <1>2, <1>3
<1>5. pool' \in [Relayers -> Seq(MsgIBCReceive)]
  BY <1>1, <1>3 DEF Inv, PoolOK
<1>6. \A i \in 1..Len(pool'[r]) : Real(r, pool'[r][i])
  BY <1>1, <1>2, <1>4 DEF Inv, PoolOK
<1>7. \A q \in Relayers : q # r => pool'[q] = pool[q]
  BY <1>1 DEF Inv, PoolOK
<1>8. \A q \in Relayers : \A i \in 1..Len(pool'[q]) : Real(q, pool'[q][i])
  BY <1>6, <1>7 DEF Inv, PoolOK
<1>9. PoolOK'
  BY <1>0, <1>5, <1>8 DEF PoolOK, Real
<1> QED BY <1>0, <1>9 DEF Inv, ChainsOK, GotOK, Taken, RelOK, PrevOK

\* The queries and the ends of a round.
LEMMA LoopOK ==
    ASSUME Inv, NEW r \in Relayers,
           \/ QueryProcessed(r) \/ QueryLength(r) \/ getSequence(r)
           \/ Refused(r) \/ Timeout(r) \/ Done(r) \/ Again(r)
    PROVE  Inv' /\ UNCHANGED <<bal, egress, got>>
<1>0. /\ Link[r] \in Queues /\ Link[r][1] \in Chains /\ Link[r][2] \in Chains
      /\ rel[r] \in Locals /\ rel[r].length <= Len(egress[Link[r]])
      /\ Len(egress[Link[r]]) \in Nat
  BY LinkFacts DEF Inv, RelOK, ChainsOK
<1>1. PrevOK /\ <<Link[r][2], Link[r][1]>> \in Queues
  BY LinkFacts DEF Inv
<1>2. Asleep \in Locals /\ Asleep.length <= Len(egress[Link[r]])
  BY <1>0 DEF Asleep, Locals
<1>3. CASE Timeout(r) \/ Done(r) \/ (Refused(r) /\ r \notin Async)
  <2>1. Step(r, Asleep)
    BY <1>3 DEF Refused, Timeout, Done
  <2> QED BY <1>2, <2>1, StepOK
<1>8. CASE Refused(r) /\ r \in Async
  <2>1. Step(r, Onward(r))
    BY <1>8 DEF Refused
  <2>2. Onward(r) \in Locals /\ Onward(r).length = rel[r].length
    BY <1>0 DEF Locals, Onward
  <2> QED BY <1>0, <2>1, <2>2, StepOK
<1>4. CASE Again(r)
  <2>1. UNCHANGED <<bal, egress, ingress, accSeq, prev, pool, got, claimed>> /\ rel' = [rel EXCEPT ![r] = Asleep]
    BY <1>4 DEF Again
  <2>2. RelOK'
    BY <1>2, <2>1, RelStep
  <2> QED BY <2>1, <2>2 DEF Inv, ChainsOK, GotOK, Taken, PoolOK, Real, PrevOK
<1>5. CASE QueryProcessed(r)
  <2> DEFINE next == [pc |-> "length", i |-> processed(r), length |-> 0, seq |-> 0]
  <2>1. processed(r) \in Nat
    BY <1>0, <1>1 DEF PrevOK, processed
  <2>2. next \in Locals /\ next.length <= Len(egress[Link[r]])
    BY <1>0, <2>1 DEF Locals
  <2>3. Step(r, next)
    BY <1>5 DEF QueryProcessed
  <2> QED BY <2>2, <2>3, StepOK
<1>6. CASE QueryLength(r)
  <2> DEFINE len == prev.length[Link[r]]
             next == [rel[r] EXCEPT !.pc = "seq", !.length = len]
  <2>1. len \in Nat /\ len <= Len(egress[Link[r]])
    BY <1>0, <1>1 DEF PrevOK
  <2>2. next \in Locals /\ next.length <= Len(egress[Link[r]])
    BY <1>0, <2>1 DEF Locals
  <2>3. Step(r, next)
    BY <1>6 DEF QueryLength
  <2> QED BY <2>2, <2>3, StepOK
<1>7. CASE getSequence(r)
  <2> DEFINE sq == prev.accSeq[r]
             next == [rel[r] EXCEPT !.pc = "loop", !.seq = sq]
  <2>1. sq \in Nat
    BY <1>0, <1>1 DEF PrevOK
  <2>2. next \in Locals /\ next.length <= Len(egress[Link[r]])
    BY <1>0, <2>1 DEF Locals
  <2>3. Step(r, next)
    BY <1>7 DEF getSequence
  <2> QED BY <2>2, <2>3, StepOK
<1> QED BY <1>3, <1>4, <1>5, <1>6, <1>7, <1>8

\* Every step keeps the invariant, and sends a packet, or takes one, or neither.
LEMMA NextStep == Inv /\ [Next]_vars => Inv' /\ [AsTransfers!Next]_(AsTransfers!vars)
<1> SUFFICES ASSUME Inv, [Next]_vars
             PROVE  Inv' /\ [AsTransfers!Next]_(AsTransfers!vars)
  OBVIOUS
<1>0. Queues = AsTransfers!Queues /\ Packet = AsTransfers!Packet
  BY DEF Queues, AsTransfers!Queues, Packet, AsTransfers!Packet
<1>1. ASSUME NEW c \in Chains, NEW p \in Packet, handleIBCTransferMsg(c, p)
      PROVE  Inv' /\ AsTransfers!Next
  BY <1>0, <1>1, SendOK DEF AsTransfers!Next
<1>2. ASSUME NEW c \in Chains, NEW p \in Claims[c], Claim(c, p)
      PROVE  Inv' /\ AsTransfers!Next
  BY <1>2, ClaimOK DEF AsTransfers!Next, Nowhere
<1>3. ASSUME NEW c \in Chains, EmptyBlock(c)
      PROVE  Inv' /\ UNCHANGED <<bal, egress, got>>
  <2>1. UNCHANGED <<bal, egress, ingress, accSeq, pool, rel, got, claimed>> /\ Block(c)
    BY <1>3 DEF EmptyBlock
  <2>2. PrevOK'
    BY <2>1, BlockOK DEF Inv, ChainsOK
  <2> QED BY <2>1, <2>2 DEF Inv, ChainsOK, GotOK, Taken, PoolOK, Real, RelOK
<1>4. ASSUME NEW r \in Relayers, Deliver(r)
      PROVE  Inv' /\ (UNCHANGED <<bal, egress, got>> \/ AsTransfers!Next)
  <2>1. Inv' /\ (\/ UNCHANGED <<bal, egress, got>>
                 \/ \E k \in 1..Len(egress[Link[r]]) : AsTransfers!Arrive(Link[r], k))
    BY <1>4, DeliverOK
  <2> QED BY <1>0, <2>1, LinkFacts DEF AsTransfers!Next
<1>5. ASSUME NEW r \in Relayers, Lost(r) \/ Relay(r) \/ Again(r)
      PROVE  Inv' /\ UNCHANGED <<bal, egress, got>>
  BY <1>5, LostOK, LoopOK, BroadcastOK DEF Relay
<1>6. CASE UNCHANGED vars
  BY <1>6 DEF vars, AsTransfers!vars, Inv, ChainsOK, GotOK, Taken, PoolOK, Real, RelOK, PrevOK
<1>7. CASE Next
  BY <1>1, <1>2, <1>3, <1>4, <1>5, <1>7 DEF Next, AsTransfers!vars
<1> QED BY <1>6, <1>7

\* What the invariant says of a name that only its own chain uses.
LEMMA InvInOrder == Inv => TypeOK /\ InOrder
<1> SUFFICES ASSUME Inv PROVE TypeOK /\ InOrder
  OBVIOUS
<1>1. TypeOK
  BY DEF Inv, TypeOK, ChainsOK, GotOK, PoolOK, RelOK, Locals, Entry
<1>2. ASSUME NEW l \in Chains \X Chains, Undisturbed(l)
      PROVE  LET taken == got[<<l[2], l[1]>>]
             IN  /\ Len(taken) <= Len(egress[l])
                 /\ \A k \in 1..Len(taken) : taken[k].packet = egress[l][k]
  <2> DEFINE x == <<l[2], l[1]>>
  <2>1. x \in Queues /\ l \in Queues /\ l # Nowhere
    BY RouteAssumption DEF Queues, Nowhere
  <2>2. got[x] \in Seq(Entry) /\ Len(got[x]) \in Nat /\ Len(egress[l]) \in Nat
    BY <2>1 DEF Inv, GotOK, ChainsOK
  <2>3. ASSUME NEW k \in 1..Len(got[x])
        PROVE  k <= Len(egress[l]) /\ got[x][k].packet = egress[l][k]
    <3>1. got[x][k].from = l /\ Taken(x, k)
      BY <1>2, <2>1 DEF Undisturbed, Inv, GotOK
    <3> QED BY <2>1, <3>1 DEF Taken
  <2>4. Len(got[x]) <= Len(egress[l])
    <3>1. CASE Len(got[x]) = 0
      BY <2>2, <3>1
    <3>2. CASE Len(got[x]) # 0
      <4>1. Len(got[x]) \in 1..Len(got[x])
        BY <2>2, <3>2
      <4> QED BY <2>3, <4>1
    <3> QED BY <3>1, <3>2
  <2> QED BY <2>3, <2>4
<1> QED BY <1>1, <1>2 DEF InOrder

\* For any chains, relayers and claims, whatever is lost, late or relayed twice: balances
\* never become negative, and what a chain takes under the name of another is what that
\* one has sent it, in order and each packet once, as long as nobody else uses the name.
THEOREM InOrderOnce == Spec => [](TypeOK /\ InOrder)
<1>1. Init => Inv
  BY InitOK
<1> QED BY <1>1, NextStep, InvInOrder, PTL DEF Spec

\* For any chains, names, accounts, amounts, relayers, links and claims: what is relayed
\* out of a queue is taken under its number there, once, whatever it names.
THEOREM TakenByNumber == Spec => TransfersSpec
<1>1. Init => AsTransfers!Init
  <2>1. Queues = AsTransfers!Queues
    BY DEF Queues, AsTransfers!Queues
  <2> QED BY <2>1, RouteAssumption DEF Init, AsTransfers!Init
<1>2. Init => Inv
  BY InitOK
<1> QED BY <1>1, <1>2, NextStep, PTL DEF Spec, TransfersSpec, AsTransfers!Spec
=============================================================================
