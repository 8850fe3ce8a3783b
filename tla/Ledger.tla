------------------------------- MODULE Ledger -------------------------------
(***************************************************************************)
(* What the application promises its users, without caches, gas, check      *)
(* state or crashes.  Blocks of transactions are added to the chain; each   *)
(* transaction is ignored, or charged its fee, or charged and executed as a *)
(* whole; and nobody is charged, or sends, without having signed exactly    *)
(* this transaction as the next one of the account.                         *)
(***************************************************************************)
EXTENDS Integers, Sequences, FiniteSets, SequencesExt

CONSTANTS
    Accounts,
    Blocks,         \* sequences of transactions
    ChainID,
    GenesisCoins    \* account -> coins

VARIABLES
    chain,   \* the blocks so far
    coins,   \* account -> coins
    seq,     \* account -> number of transactions it has signed
    fees     \* all the fees paid

Book == [coins |-> coins, seq |-> seq, fees |-> fees]

Senders(tx) == {tx.msgs[i].from : i \in DOMAIN tx.msgs}

\* Every sender has signed this transaction for this chain and as its next one.
Authorized(book, tx) ==
    /\ tx.msgs # <<>>
    /\ \A a \in Senders(tx) : \E i \in DOMAIN tx.sigs :
           /\ tx.sigs[i].by = a
           /\ tx.sigs[i].chain = ChainID
           /\ tx.sigs[i].seq = book.seq[a]

\* The sender of the first message pays.
Payer(tx) == tx.msgs[1].from

Charged(book, tx) ==
    [coins |-> [book.coins EXCEPT ![Payer(tx)] = @ - tx.fee],
     seq   |-> [a \in Accounts |-> book.seq[a] + IF a \in Senders(tx) THEN 1 ELSE 0],
     fees  |-> book.fees + tx.fee]

Moved(book, msg) ==
    [book EXCEPT !.coins = [a \in Accounts |-> @[a]
                                - (IF a = msg.from THEN msg.amount ELSE 0)
                                + (IF a = msg.to THEN msg.amount ELSE 0)]]

\* The transfers of tx one after the other, if each is covered: one book, or none.
Transferred(book, tx) ==
    FoldLeft(LAMBDA books, msg :
                 {Moved(b, msg) : b \in {c \in books : c.coins[msg.from] >= msg.amount}},
             {book}, tx.msgs)

Outcomes(book, tx) ==
    {book} \cup
    IF Authorized(book, tx) /\ book.coins[Payer(tx)] >= tx.fee
    THEN {Charged(book, tx)} \cup Transferred(Charged(book, tx), tx)
    ELSE {}

Init ==
    /\ chain = <<>>
    /\ coins = GenesisCoins
    /\ seq = [a \in Accounts |-> 0]
    /\ fees = 0

AddBlock(block) ==
    /\ chain' = Append(chain, block)
    /\ Book' \in FoldLeft(LAMBDA books, tx : UNION {Outcomes(b, tx) : b \in books},
                          {Book}, block)

Next == \E block \in Blocks : AddBlock(block)

Spec == Init /\ [][Next]_<<chain, coins, seq, fees>>
=============================================================================
