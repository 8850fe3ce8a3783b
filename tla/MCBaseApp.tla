------------------------------ MODULE MCBaseApp ------------------------------
EXTENDS BaseApp

Send(from, to, amount) == [from |-> from, to |-> to, amount |-> amount]
Sig(a, num, seq) == [by |-> a, chain |-> ChainID, num |-> num, seq |-> seq]
Tx(msgs, fee, gas, sigs) == [msgs |-> msgs, fee |-> fee, gas |-> gas, sigs |-> sigs, basic |-> TRUE]

MCAccounts == {"a", "b", "c"}
MCGenesis == <<<<"a", 4>>, <<"b", 1>>>>

Pay1 == Tx(<<Send("a", "b", 1)>>, 1, 4, <<Sig("a", 0, 0)>>)
Pay2 == Tx(<<Send("a", "c", 1)>>, 1, 4, <<Sig("a", 0, 1)>>)
\* The fee is all that a has after Pay1 if its message is not executed.
Rest == Tx(<<Send("a", "b", 1)>>, 3, 4, <<Sig("a", 0, 1)>>)
\* Two signers; the second message is not covered unless a has paid b.
Swap == Tx(<<Send("a", "c", 1), Send("b", "a", 2)>>, 1, 6, <<Sig("a", 0, 0), Sig("b", 1, 0)>>)
\* b's signature is of another sequence.
HalfSigned == Tx(<<Send("a", "c", 1), Send("b", "a", 1)>>, 1, 6, <<Sig("a", 0, 0), Sig("b", 1, 5)>>)
\* b signs for a.
Forged == Tx(<<Send("a", "b", 1)>>, 0, 4, <<Sig("b", 1, 0)>>)
\* Enough gas for the ante handler only.
LowGas == Tx(<<Send("a", "b", 1)>>, 1, 2, <<Sig("a", 0, 0)>>)
Unsigned == Tx(<<Send("a", "b", 1)>>, 1, 4, <<>>)
\* c has to have an account first.
FromC == Tx(<<Send("c", "a", 1)>>, 0, 4, <<Sig("c", 2, 0)>>)
Dear == Tx(<<Send("b", "a", 1)>>, 3, 4, <<Sig("b", 1, 0)>>)
Invalid == [Pay1 EXCEPT !.basic = FALSE]

MCTxs == {Pay1, Pay2, Rest, Swap, HalfSigned, Forged, LowGas, Unsigned, FromC, Dear, Invalid}
Chained == {Pay1, Pay2, Swap, LowGas, FromC, Invalid}
MCBlocks == {<<>>} \cup {<<t>> : t \in MCTxs} \cup (Chained \X Chained)
=============================================================================
