-------------------------------- MODULE Auth --------------------------------
(***************************************************************************)
(* What a transaction does to a store: the ante handler (x/auth/ante.go),   *)
(* the transfers of x/bank, and runTx of baseapp around them, as functions. *)
(*                                                                         *)
(* A store has the accounts, the collected fees, what distribution has      *)
(* taken of them, and the consensus parameter.  A transaction is            *)
(*   [msgs, fee, gas, sigs, basic]: transfers, the fee and the gas limit,   *)
(* signatures, and whether the messages pass ValidateBasic.  A signature    *)
(* names whose key made it and what was signed besides the transaction:     *)
(* chain ID, account number and sequence.  There is one denomination, and   *)
(* accounts do not vest.  Amounts of gas are constants per kind of work.    *)
(***************************************************************************)
EXTENDS Dec, FiniteSets, SequencesExt

CONSTANTS
    MinGasPrice,   \* the node's minimum gas price, a Dec
    SizeGas,       \* txSize
    SigGas,        \* the verification of one signature
    MsgGas,        \* the execution of one message
    ParamsGas      \* GetParams, on the context of the block

ASSUME GasAssumption ==
    /\ MinGasPrice \in Nat /\ SizeGas \in Nat /\ SigGas \in Nat /\ MsgGas \in Nat
    /\ ParamsGas \in Nat

\* A meter without limit.
Infinite == -1
-----------------------------------------------------------------------------
(* Accounts *)

Exists(st, a) == a \in DOMAIN st.accs

SetAccount(st, a, acc) == [st EXCEPT !.accs = (a :> acc) @@ @]

\* NewAccountWithAddress: accounts are never removed, so the next number is how many
\* there are.
NewAccountWithAddress(st) == [num |-> Cardinality(DOMAIN st.accs), seq |-> 0, coins |-> 0]

getCoins(st, a) == IF Exists(st, a) THEN st.accs[a].coins ELSE 0

setCoins(st, a, amount) ==
    LET acc == IF Exists(st, a) THEN st.accs[a] ELSE NewAccountWithAddress(st)
    IN  SetAccount(st, a, [acc EXCEPT !.coins = amount])

\* sendCoins, when the sender has enough: the subtraction is stored before the
\* recipient's account is read.
sendCoins(st, from, to, amount) ==
    LET paid == setCoins(st, from, getCoins(st, from) - amount)
    IN  setCoins(paid, to, getCoins(paid, to) + amount)
-----------------------------------------------------------------------------
(* A run: the store so far, the gas consumed of a limit, and the result.  A *)
(* step of a run that has failed does nothing.                              *)

StartRun(st, limit) == [st |-> st, gas |-> 0, limit |-> limit, code |-> "OK"]

IsPastLimit(r) == r.limit # Infinite /\ r.gas > r.limit

GasConsumedToLimit(r) == IF IsPastLimit(r) THEN r.limit ELSE r.gas

FailIf(condition, r, code) ==
    IF r.code = "OK" /\ condition THEN [r EXCEPT !.code = code] ELSE r

\* ConsumeGas: the meter has moved on when it panics.
ConsumeGas(r, amount) ==
    IF r.code # "OK" THEN r
    ELSE LET consumed == [r EXCEPT !.gas = @ + amount]
         IN  FailIf(IsPastLimit(consumed), consumed, "OutOfGas")
-----------------------------------------------------------------------------
(* The ante handler *)

\* GetSigners: the senders in the order of the messages, without repetition.
GetSigners(tx) ==
    FoldLeft(LAMBDA s, msg : IF msg.from \in ToSet(s) THEN s ELSE Append(s, msg.from),
             <<>>, tx.msgs)

\* StdTx.ValidateBasic
ValidSignatures(tx) == Len(tx.sigs) > 0 /\ Len(tx.sigs) = Len(GetSigners(tx))

EnsureSufficientMempoolFees(tx) ==
    MinGasPrice # 0 => tx.fee >= RoundInt(Ceil(Mul(MinGasPrice, NewDec(tx.gas))))

\* A context: the height and the chain ID of its header.
isGenesis(ctx) == ctx.height = 0

SetGasMeter(ctx, gas) == IF isGenesis(ctx) THEN Infinite ELSE gas

\* What the signature of a has to be.
GetSignBytes(ctx, a, acc) ==
    [by |-> a, chain |-> ctx.chain, num |-> IF isGenesis(ctx) THEN 0 ELSE acc.num,
     seq |-> acc.seq]

\* Mutant: the sequence stays.
SequenceKept(acc) == acc

IncrementSequence(acc) == [acc EXCEPT !.seq = @ + 1]

\* DeductFees
CanPay(st, a, fee) == getCoins(st, a) >= fee

\* processSig for the i-th signature; acc is the account as it is in memory.
processSig(r, ctx, tx, i) ==
    LET a       == GetSigners(tx)[i]
        acc     == [r.st.accs[a] EXCEPT !.coins = IF i = 1 THEN @ - tx.fee ELSE @]
        known   == FailIf(~Exists(r.st, a), r, "UnknownAddress")
        metered == ConsumeGas(known, SigGas)
        checked == FailIf(tx.sigs[i] # GetSignBytes(ctx, a, acc), metered,
                          "Unauthorized")
    IN  IF checked.code # "OK" THEN checked
        ELSE [checked EXCEPT !.st = SetAccount(@, a, IncrementSequence(acc))]

\* NewAnteHandler.  The fee leaves the payer's account when the first signature is
\* processed, and is collected before.
AnteHandler(st, ctx, tx, check) ==
    LET payer     == GetSigners(tx)[1]
        started   == StartRun(st, SetGasMeter(ctx, tx.gas))
        mempool   == FailIf(check /\ ~EnsureSufficientMempoolFees(tx), started, "InsufficientFee")
        basic     == FailIf(~ValidSignatures(tx), mempool, "Unauthorized")
        sized     == ConsumeGas(basic, SizeGas)
        known     == FailIf(~Exists(st, payer), sized, "UnknownAddress")
        payable   == FailIf(~CanPay(st, payer, tx.fee), known, "InsufficientFunds")
        collected == [payable EXCEPT !.st.fees = @ + tx.fee]
    IN  FoldLeftDomain(LAMBDA r, i : processSig(r, ctx, tx, i), collected, tx.sigs)
-----------------------------------------------------------------------------
(* Messages *)

handleMsgSend(r, msg) ==
    LET metered == ConsumeGas(r, MsgGas)
        covered == FailIf(getCoins(r.st, msg.from) < msg.amount, metered, "InsufficientCoins")
    IN  IF covered.code # "OK" THEN covered
        ELSE [covered EXCEPT !.st = sendCoins(@, msg.from, msg.to, msg.amount)]

runMsgs(r, tx) == FoldLeft(handleMsgSend, r, tx.msgs)
=============================================================================
