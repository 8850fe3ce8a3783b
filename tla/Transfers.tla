----------------------------- MODULE Transfers -----------------------------
(***************************************************************************)
(* What the IBC module promises.  Every chain has a queue of packets for    *)
(* every other, and for every name the packets it has taken under it.  As   *)
(* number k under a name it takes the k-th packet of a queue that bears the *)
(* name, or one that somebody claims: of a queue each packet at most once.  *)
(* Where each name is used by its own chain only and nobody claims, that is *)
(* transfers in order and once.                                             *)
(***************************************************************************)
EXTENDS Integers, Sequences

CONSTANTS Chains, ChainIDs, Accounts, Amounts, Claims

VARIABLES
    bal,    \* coins of every <<chain, account>>
    sent,   \* for every <<chain, destination>>, the packets sent
    got     \* for every <<chain, source>>, the packets taken, and the queue each was in

vars == <<bal, sent, got>>

Queues == Chains \X ChainIDs
Packet ==
    {p \in [src : Accounts, dest : Accounts, coins : Amounts,
            srcChain : ChainIDs, destChain : ChainIDs] : p.srcChain # p.destChain}

Init ==
    /\ bal \in [Chains \X Accounts -> Nat]
    /\ sent = [l \in Queues |-> <<>>]
    /\ got = [x \in Queues |-> <<>>]

Send(c, p) ==
    /\ bal[<<c, p.src>>] >= p.coins
    /\ bal' = [bal EXCEPT ![<<c, p.src>>] = @ - p.coins]
    /\ sent' = [sent EXCEPT ![<<c, p.destChain>>] = Append(@, p)]
    /\ UNCHANGED got

\* Chain c takes p, out of some queue or out of none, as the next one under its name.
Take(c, p, from) ==
    /\ bal' = [bal EXCEPT ![<<c, p.dest>>] = @ + p.coins]
    /\ got' = [got EXCEPT ![<<c, p.srcChain>>] = Append(@, [packet |-> p, from |-> from])]
    /\ UNCHANGED sent

\* The k-th packet of queue l arrives as number k under the name it bears.
Arrive(l, k) ==
    /\ l[2] \in Chains
    /\ k = Len(got[<<l[2], sent[l][k].srcChain>>]) + 1
    /\ Take(l[2], sent[l][k], l)

Next ==
    \/ \E c \in Chains : \/ \E p \in Packet : Send(c, p)
                         \/ \E p \in Claims[c] : Take(c, p, <<>>)
    \/ \E l \in Queues : \E k \in 1..Len(sent[l]) : Arrive(l, k)

Spec == Init /\ [][Next]_vars
=============================================================================
