------------------------------- MODULE MCIbc -------------------------------
(* Two relayers, one of which does not await commits, compete to relay two packets,
   which may name a third chain as the one they come from. *)
EXTENDS Ibc

SameLink == [r \in Relayers |-> <<"A", "B">>]
SomeCoins == [x \in Chains \X Accounts |-> IF x[1] = "A" THEN 2 ELSE 0]
FewPackets == [l \in Queues |-> IF l = <<"A", "B">> THEN 2 ELSE 0]
SomeClaims == [c \in Chains |-> {p \in Packet : c = "B" /\ p.srcChain = "A" /\ p.destChain = "B"}]
=============================================================================
