--------------------------------- MODULE Ibc ---------------------------------
(***************************************************************************)
(* Coins sent from chain to chain (src/x/ibc), and the relayers that carry  *)
(* the packets (src/x/ibc/client/cli/relay.go).  A relayer keeps nothing:   *)
(* it reads off both chains what is still to be relayed, and goes round.    *)
(* Any of its queries and broadcasts may fail, it may die and be started    *)
(* again, and several may serve the same two chains.                        *)
(*                                                                          *)
(* A packet names the chain it comes from and the one it goes to.  Nothing  *)
(* compares the first name with the chain that a transfer is sent on, and   *)
(* a chain takes packets from anybody: the clients of the repository put in *)
(* the right name, and its relayers relay what is there to be relayed, but  *)
(* others may do as they like.                                              *)
(*                                                                          *)
(* A block holds one transaction or none.  A node answers queries from the  *)
(* version before its latest one, and admits a transaction to its mempool   *)
(* only in the sequence of its sender.                                      *)
(***************************************************************************)
EXTENDS Integers, Sequences, FiniteSets, Functions

CONSTANTS
    Chains,
    ChainIDs,     \* the names that packets may bear, those of the chains among them
    Accounts,
    Relayers,
    Link,         \* Link[r]: the <<from, to>> relayer r serves
    Async,        \* the relayers that do not await the commit of a transaction
    Amounts,      \* coins of a transfer
    Claims,       \* per chain: the packets that others than the relayers deliver to it
    MaxPackets,   \* bound on the packets of every queue
    MaxSequence,  \* bound on the transactions of a relayer
    MaxFaults,    \* bound on failures; a claim, or a wrong name, counts for all of them
    Genesis       \* coins of every <<chain, account>>

\* IBCPacket, as far as ValidateBasic lets it pass.
Packet ==
    {p \in [src : Accounts, dest : Accounts, coins : Amounts,
            srcChain : ChainIDs, destChain : ChainIDs] : p.srcChain # p.destChain}

MsgIBCReceive == [packet : Packet, seq : Nat]

\* <<c, name>>: what chain c has under EgressKey of that destination, or under
\* IngressSequenceKey of that source.
Queues == Chains \X ChainIDs

ASSUME RouteAssumption ==
    /\ Chains \subseteq ChainIDs
    /\ Link \in [Relayers -> Chains \X Chains] /\ Async \subseteq Relayers
    /\ Amounts \subseteq Nat /\ Claims \in [Chains -> SUBSET Packet]
    /\ MaxPackets \in [Queues -> Nat] /\ MaxSequence \in Nat /\ MaxFaults \in Nat
    /\ Genesis \in [Chains \X Accounts -> Nat]

VARIABLES
    bal,       \* coins of every <<chain, account>>
    egress,    \* per <<chain, destination>>: the packets under EgressKey
    ingress,   \* per <<chain, source>>: the sequence under IngressSequenceKey
    accSeq,    \* per relayer: the sequence of its account, on the chain it goes to
    prev,      \* what queries are answered from, of all chains
    pool,      \* per relayer: its messages in the mempool of the chain it goes to
    rel,       \* per relayer: the variables of its loop
    faults,    \* failures so far
    got,       \* history, per <<chain, source>>: the packets taken, and the queue each was in
    claimed    \* history: the coins of packets that were in no queue

vars == <<bal, egress, ingress, accSeq, prev, pool, rel, faults, got, claimed>>

\* The queue of a packet that was in none.
Nowhere == <<>>

\* Commit of a block of c: queries get to see the version before it.
Block(c) ==
    prev' = [length |-> [l \in Queues |-> IF l[1] = c THEN Len(egress[l]) ELSE prev.length[l]],
             ingress |-> [x \in Queues |-> IF x[1] = c THEN ingress[x] ELSE prev.ingress[x]],
             accSeq |-> [r \in Relayers |-> IF Link[r][2] = c THEN accSeq[r] ELSE prev.accSeq[r]]]

Asleep == [pc |-> "sleep", i |-> 0, length |-> 0, seq |-> 0]

Init ==
    /\ bal = Genesis
    /\ egress = [l \in Queues |-> <<>>] /\ ingress = [x \in Queues |-> 0]
    /\ accSeq = [r \in Relayers |-> 0]
    /\ prev = [length |-> [l \in Queues |-> 0], ingress |-> [x \in Queues |-> 0],
               accSeq |-> [r \in Relayers |-> 0]]
    /\ pool = [r \in Relayers |-> <<>>]
    /\ rel = [r \in Relayers |-> Asleep]
    /\ faults = 0
    /\ got = [x \in Queues |-> <<>>] /\ claimed = 0
-----------------------------------------------------------------------------
(* The chains *)

Fault(n) == faults + n <= MaxFaults /\ faults' = faults + n

\* handleIBCTransferMsg on chain c: SubtractCoins, PostIBCPacket.
handleIBCTransferMsg(c, p) ==
    LET l == <<c, p.destChain>>
    IN  /\ Len(egress[l]) < MaxPackets[l]
        /\ bal[<<c, p.src>>] >= p.coins
        /\ bal' = [bal EXCEPT ![<<c, p.src>>] = @ - p.coins]
        /\ egress' = [egress EXCEPT ![l] = Append(@, p)]
        /\ IF p.srcChain = c THEN UNCHANGED faults ELSE Fault(MaxFaults)
        /\ Block(c)
        /\ UNCHANGED <<ingress, accSeq, pool, rel, got, claimed>>

\* Mutant: a packet is credited although its sequence has passed.
ReceivedAtLeast(c, m) == m.seq <= ingress[<<c, m.packet.srcChain>>]

\* GetIngressSequence: the sequence is that of the source the packet names.
Expected(c, m) == m.seq = ingress[<<c, m.packet.srcChain>>]

\* Mutant: SetIngressSequence is forgotten.
ReceiveAgain(c, m, from) ==
    LET x == <<c, m.packet.srcChain>>
    IN  IF Expected(c, m)
        THEN /\ bal' = [bal EXCEPT ![<<c, m.packet.dest>>] = @ + m.packet.coins]
             /\ got' = [got EXCEPT ![x] = Append(@, [packet |-> m.packet, from |-> from])]
             /\ UNCHANGED ingress
        ELSE UNCHANGED <<bal, ingress, got>>

\* handleIBCReceiveMsg on chain c; with a wrong sequence it fails, and changes nothing.
handleIBCReceiveMsg(c, m, from) ==
    LET x == <<c, m.packet.srcChain>>
    IN  IF Expected(c, m)
        THEN /\ bal' = [bal EXCEPT ![<<c, m.packet.dest>>] = @ + m.packet.coins]
             /\ ingress' = [ingress EXCEPT ![x] = m.seq + 1]
             /\ got' = [got EXCEPT ![x] = Append(@, [packet |-> m.packet, from |-> from])]
        ELSE UNCHANGED <<bal, ingress, got>>

\* A MsgIBCReceive that is accepted, of an account that is none of the relayers: nobody
\* looks whether its packet was ever sent.
Claim(c, p) ==
    /\ Fault(MaxFaults)
    /\ handleIBCReceiveMsg(c, [packet |-> p, seq |-> ingress[<<c, p.srcChain>>]], Nowhere)
    /\ claimed' = claimed + p.coins
    /\ Block(c)
    /\ UNCHANGED <<egress, accSeq, pool, rel>>

\* The answer a relayer awaits: it goes on to the next packet, or round again.
Answered(r, ok) ==
    IF rel[r].pc # "await" THEN rel[r]
    ELSE IF ok THEN [rel[r] EXCEPT !.pc = "loop"] ELSE Asleep

\* A block with the next transaction of r: the ante handler takes its sequence, also
\* when the message fails.  An earlier transaction of r may still come before the one
\* it awaits.
Deliver(r) ==
    LET c == Link[r][2]
        m == Head(pool[r])
    IN  /\ pool[r] # <<>>
        /\ handleIBCReceiveMsg(c, m, Link[r])
        /\ accSeq' = [accSeq EXCEPT ![r] = @ + 1]
        /\ pool' = [pool EXCEPT ![r] = Tail(@)]
        /\ rel' = IF rel[r].seq = accSeq[r] + 1
                  THEN [rel EXCEPT ![r] = Answered(r, Expected(c, m))] ELSE rel
        /\ Block(c)
        /\ UNCHANGED <<egress, faults, claimed>>

\* A transaction gets lost, and with it those that can only follow it.
Lost(r) ==
    /\ Fault(1)
    /\ \E k \in 1..Len(pool[r]) : pool' = [pool EXCEPT ![r] = SubSeq(@, 1, k - 1)]
    /\ UNCHANGED <<bal, egress, ingress, accSeq, prev, rel, got, claimed>>

\* A block without transactions, if queries see anything new by it.
EmptyBlock(c) ==
    /\ Block(c) /\ prev' # prev
    /\ UNCHANGED <<bal, egress, ingress, accSeq, pool, rel, faults, got, claimed>>
-----------------------------------------------------------------------------
(* A relayer: loop *)

Step(r, next) ==
    /\ rel' = [rel EXCEPT ![r] = next]
    /\ UNCHANGED <<bal, egress, ingress, accSeq, prev, pool, faults, got, claimed>>

\* Mutant: the sequence is taken for that of the last packet received.
ProcessedAfter(r) == prev.ingress[<<Link[r][2], Link[r][1]>>] + 1

\* How many packets the chain it goes to has taken under the name of the other.
processed(r) == prev.ingress[<<Link[r][2], Link[r][1]>>]

QueryProcessed(r) ==
    /\ rel[r].pc = "sleep"
    /\ Step(r, [pc |-> "length", i |-> processed(r), length |-> 0, seq |-> 0])

QueryLength(r) ==
    /\ rel[r].pc = "length"
    /\ Step(r, [rel[r] EXCEPT !.pc = "seq", !.length = prev.length[Link[r]]])

getSequence(r) ==
    /\ rel[r].pc = "seq"
    /\ Step(r, [rel[r] EXCEPT !.pc = "loop", !.seq = prev.accSeq[r]])

\* All packets are relayed.
Done(r) ==
    /\ rel[r].pc = "loop" /\ rel[r].i >= rel[r].length
    /\ Step(r, Asleep)

\* i++ and seq++, after the answer or without waiting for it.
Onward(r) ==
    [pc |-> IF r \in Async THEN "loop" ELSE "await",
     i |-> rel[r].i + 1, length |-> rel[r].length, seq |-> rel[r].seq + 1]

\* refine and broadcastTx of packet i.  CheckTx admits it in sequence.
Broadcast(r) ==
    /\ rel[r].pc = "loop" /\ rel[r].i < rel[r].length
    /\ rel[r].seq = accSeq[r] + Len(pool[r]) /\ rel[r].seq < MaxSequence
    /\ pool' = [pool EXCEPT ![r] =
                    Append(@, [packet |-> egress[Link[r]][rel[r].i + 1], seq |-> rel[r].i])]
    /\ rel' = [rel EXCEPT ![r] = Onward(r)]
    /\ UNCHANGED <<bal, egress, ingress, accSeq, prev, faults, got, claimed>>

\* CheckTx refuses it: round again, but BroadcastTxAsync does not hear of it, and the
\* relayer goes on to the next packet.
Refused(r) ==
    /\ rel[r].pc = "loop" /\ rel[r].i < rel[r].length
    /\ rel[r].seq # accSeq[r] + Len(pool[r])
    /\ Step(r, IF r \in Async THEN Onward(r) ELSE Asleep)

\* The transaction it awaits is not to be expected any more.
Timeout(r) ==
    /\ rel[r].pc = "await" /\ rel[r].seq # accSeq[r] + Len(pool[r])
    /\ Step(r, Asleep)

\* A query or the broadcast fails, the answer to it is late, or the relayer panics and
\* is started again: it forgets everything.
Again(r) ==
    /\ rel[r].pc # "sleep"
    /\ Fault(1)
    /\ rel' = [rel EXCEPT ![r] = Asleep]
    /\ UNCHANGED <<bal, egress, ingress, accSeq, prev, pool, got, claimed>>

Relay(r) ==
    \/ QueryProcessed(r) \/ QueryLength(r) \/ getSequence(r)
    \/ Broadcast(r) \/ Refused(r) \/ Timeout(r) \/ Done(r)

Next ==
    \/ \E c \in Chains : \/ EmptyBlock(c)
                         \/ \E p \in Packet : handleIBCTransferMsg(c, p)
                         \/ \E p \in Claims[c] : Claim(c, p)
    \/ \E r \in Relayers : Deliver(r) \/ Lost(r) \/ Relay(r) \/ Again(r)

\* Blocks go on, those of a chain take up what is in its mempool, and the loop of a
\* relayer goes round for ever.
Fairness ==
    /\ \A c \in Chains : WF_vars(EmptyBlock(c))
    /\ \A r \in Relayers : WF_vars(Deliver(r)) /\ WF_vars(Relay(r))

Spec == Init /\ [][Next]_vars
FairSpec == Spec /\ Fairness
-----------------------------------------------------------------------------
TypeOK ==
    /\ bal \in [Chains \X Accounts -> Nat]
    /\ egress \in [Queues -> Seq(Packet)] /\ ingress \in [Queues -> Nat]
    /\ accSeq \in [Relayers -> Nat]
    /\ pool \in [Relayers -> Seq(MsgIBCReceive)]
    /\ rel \in [Relayers -> [pc : {"sleep", "length", "seq", "loop", "await"},
                             i : Nat, length : Nat, seq : Nat]]
    /\ got \in [Queues -> Seq([packet : Packet, from : Queues \cup {Nowhere}])]
    /\ claimed \in Nat

\* Packet k of queue l has arrived.
Credited(l, k) ==
    LET x == <<l[2], egress[l][k].srcChain>>
    IN  l[2] \in Chains /\ k <= Len(got[x]) /\ got[x][k].from = l

\* Coins that have left the chain of l and not arrived.
InTransit(l) ==
    LET coins == [k \in {j \in 1..Len(egress[l]) : ~Credited(l, j)} |-> egress[l][k].coins]
    IN  SumFunction(coins)

\* However often packets are relayed, by whom and in which order, and whatever they name:
\* the coins on all chains and those still to arrive are those of the genesis, and those
\* that somebody claimed.
CoinsKept ==
    SumFunction(bal) + SumFunction([l \in Queues |-> InTransit(l)]) = SumFunction(Genesis) + claimed

\* Nobody else has delivered anything to l[2] under the name of l[1].
Undisturbed(l) == \A k \in 1..Len(got[<<l[2], l[1]>>]) : got[<<l[2], l[1]>>][k].from = l

\* What a chain has taken under the name of another is what that one has sent it, from
\* the first packet on, none left out and none twice, as long as nobody else uses the name.
InOrder ==
    \A l \in Chains \X Chains :
        Undisturbed(l) =>
            LET taken == got[<<l[2], l[1]>>]
            IN  /\ Len(taken) <= Len(egress[l])
                /\ \A k \in 1..Len(taken) : taken[k].packet = egress[l][k]

\* No balance is overdrawn, no coin is made or lost on the way, and packets arrive in order.
TransfersSound == TypeOK /\ CoinsKept /\ InOrder

AsTransfers == INSTANCE Transfers WITH sent <- egress

\* The chains and the relayers together implement transfers that are taken by number, once.
TransfersSpec == AsTransfers!Spec

\* All packets up to the k-th of l bear the name of the chain they were sent on.
Named(l, k) == k <= Len(egress[l]) /\ \A j \in 1..k : egress[l][j].srcChain = l[1]

\* A packet arrives, whatever failed on the way, if somebody relays it, if it and all
\* before it name the right chain, and nobody else uses that name.
AllArrive ==
    \A l \in {Link[r] : r \in Relayers} : \A k \in 1..MaxPackets[l] :
        Named(l, k) ~> (Named(l, k) /\ Credited(l, k)) \/ ~Undisturbed(l)
=============================================================================
