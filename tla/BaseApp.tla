------------------------------- MODULE BaseApp -------------------------------
(***************************************************************************)
(* The ABCI application (src/baseapp/baseapp.go) with the ante handler and  *)
(* transfers of Auth.  Tendermint decides blocks and has each executed by   *)
(* BeginBlock, DeliverTx, EndBlock and Commit; CheckTx comes at any time    *)
(* between these calls, on a state of its own.  The process may stop        *)
(* between any two calls; Tendermint then has the block it had decided      *)
(* executed again from the start, or the genesis if no block was committed. *)
(* Every call holds the lock of the local client, so a call is a step.  The *)
(* commit of the stores, which is several writes, is module MultiStore's.   *)
(***************************************************************************)
EXTENDS Auth

CONSTANTS
    Accounts,
    Txs,            \* the transactions that somebody may send
    Blocks,         \* the sequences of them that Tendermint may decide
    ChainID,
    GenesisCoins,   \* accounts of the genesis file, in order: <<account, coins>>
    MaxGas,         \* ConsensusParams.Block.MaxGas, 0 for none
    InitGas,        \* what the InitChainer consumes
    BeginGas,       \* what a BeginBlocker consumes
    MaxHeight,      \* bound: blocks
    MaxPending      \* bound: transactions accepted by CheckTx between two commits

VARIABLES
    disk,       \* the store as of the last commit
    cms,        \* the store that the states below are cached on
    params,     \* app.consensusParams: the maximum gas
    deliver,    \* deliverState and the meters of its context
    check,      \* checkState
    phase,      \* which call of Tendermint comes next
    version,    \* the blocks committed
    chain,      \* the blocks that Tendermint has decided
    next,       \* the transaction of the block that comes next
    pending,    \* the transactions that CheckTx has accepted since the last commit
    executed    \* the transactions that the ante handler has let through, <<before, in>> this block

vars == <<disk, cms, params, deliver, check, phase, version, chain, next, pending, executed>>

EmptyStore == [accs |-> <<>>, fees |-> 0, allocated |-> 0, maxGas |-> 0]

\* A header: height and chain ID; abci.Header{} has neither.
NoHeader == [height |-> 0, chain |-> ""]
Header(h) == [height |-> h, chain |-> ChainID]

\* deliverState is nil.
NoState == [st |-> EmptyStore, ctx |-> NoHeader, blockGas |-> 0, ctxGas |-> 0, code |-> ""]
-----------------------------------------------------------------------------
(* Transactions *)

\* Mutant: the cache is written whatever the messages return.
MsgsWrittenAlways(ante, tx) == runMsgs(ante, tx)

\* runTx after the ante handler: the messages are executed in a cache on top of what
\* the ante handler has written, which is dropped if one of them fails.
MsgsWritten(ante, tx) ==
    LET ran == runMsgs(ante, tx)
    IN  IF ran.code = "OK" THEN ran ELSE [ran EXCEPT !.st = ante.st]

\* ctx.BlockGasMeter().IsOutOfGas(), for a limit that is 0 if there is none.
BlockOutOfGas(d, maxGas) == maxGas > 0 /\ d.blockGas >= maxGas

\* runTx in DeliverTx.  A transaction whose messages are not valid is charged what the
\* meter of the block's context has, which the ante handler has not replaced yet.  The
\* gas of the block is consumed last, when everything is written.
runTx(d, maxGas, tx) ==
    LET ante    == AnteHandler(d.st, d.ctx, tx, FALSE)
        ran     == IF ante.code = "OK" THEN MsgsWritten(ante, tx) ELSE [ante EXCEPT !.st = d.st]
        used(g) == [d EXCEPT !.blockGas = @ + g]
        charged == IF tx.basic
                   THEN [used(GasConsumedToLimit(ran)) EXCEPT !.st = ran.st, !.code = ran.code,
                                                            !.ctxGas = @ + ParamsGas]
                   ELSE [used(d.ctxGas) EXCEPT !.code = "InvalidMsg"]
    IN  CASE BlockOutOfGas(d, maxGas) -> [d EXCEPT !.code = "OutOfGas"]
          [] maxGas > 0 /\ charged.blockGas > maxGas -> [charged EXCEPT !.code = "OutOfGas"]
          [] OTHER -> charged

\* The ante handler lets tx through.
PassesAnte(d, maxGas, tx) ==
    /\ tx.basic
    /\ ~BlockOutOfGas(d, maxGas)
    /\ AnteHandler(d.st, d.ctx, tx, FALSE).code = "OK"
-----------------------------------------------------------------------------
(* Blocks *)

\* GaiaApp's initChainer: the accounts of the genesis file are numbered in order.
LoadGenesisAccounts(st) ==
    FoldLeft(LAMBDA s, entry : setCoins(s, entry[1], entry[2]), st, GenesisCoins)

\* The BeginBlocker of distribution takes the fees of the block before.
BeginBlocker(st, height) ==
    IF height > 1 THEN [st EXCEPT !.allocated = @ + st.fees, !.fees = 0] ELSE st

setDeliverState(st, ctx) == [NoState EXCEPT !.st = st, !.ctx = ctx]

Init ==
    /\ disk = EmptyStore /\ cms = EmptyStore
    /\ params = 0
    /\ deliver = NoState
    /\ check = [st |-> EmptyStore, ctx |-> NoHeader]
    /\ phase = "idle" /\ version = 0
    /\ chain = <<>> /\ next = 1
    /\ pending = <<>> /\ executed = <<<<>>, <<>>>>

\* InitChain: the consensus parameters go to the multistore itself, the genesis only to
\* the deliver state, and nothing is committed.
InitChain ==
    /\ phase = "idle" /\ version = 0
    /\ params' = MaxGas
    /\ cms' = [cms EXCEPT !.maxGas = MaxGas]
    /\ deliver' = [setDeliverState(LoadGenesisAccounts(cms'), Header(0)) EXCEPT !.ctxGas = InitGas]
    /\ check' = [st |-> cms', ctx |-> Header(0)]
    /\ phase' = "initialized"
    /\ pending' = <<>>
    /\ UNCHANGED <<disk, version, chain, next, executed>>

\* BeginBlock of a new block, or of the block that a stopped process had not committed.
BeginBlock(block) ==
    /\ phase = "initialized" \/ (phase = "idle" /\ version > 0)
    /\ version < MaxHeight
    /\ IF Len(chain) > version
       THEN block = chain[version + 1] /\ UNCHANGED chain
       ELSE chain' = Append(chain, block)
    /\ LET d == IF deliver = NoState THEN setDeliverState(cms, Header(version + 1)) ELSE deliver
       IN  deliver' = [d EXCEPT !.st = BeginBlocker(@, version + 1), !.ctx = Header(version + 1),
                                !.blockGas = 0, !.ctxGas = @ + BeginGas]
    /\ phase' = "deliver" /\ next' = 1
    /\ UNCHANGED <<disk, cms, params, check, version, pending, executed>>

DeliverTx ==
    LET tx == chain[version + 1][next]
    IN  /\ phase = "deliver" /\ next =< Len(chain[version + 1])
        /\ deliver' = runTx(deliver, params, tx)
        /\ next' = next + 1
        /\ executed' = IF PassesAnte(deliver, params, tx)
                       THEN [executed EXCEPT ![2] = Append(@, tx)] ELSE executed
        /\ UNCHANGED <<disk, cms, params, check, phase, version, chain, pending>>

\* EndBlock: the EndBlockers do not touch this part of the store.
EndBlock ==
    /\ phase = "deliver" /\ next > Len(chain[version + 1])
    /\ phase' = "ended"
    /\ UNCHANGED <<disk, cms, params, deliver, check, version, chain, next, pending, executed>>

\* Mutant: the check state gets the new header only.
CheckKept(st, ctx) == [check EXCEPT !.ctx = ctx]

setCheckState(st, ctx) == [st |-> st, ctx |-> ctx]

Commit ==
    /\ phase = "ended"
    /\ cms' = deliver.st /\ disk' = deliver.st
    /\ version' = version + 1
    /\ check' = setCheckState(deliver.st, deliver.ctx)
    /\ deliver' = NoState
    /\ phase' = "idle" /\ next' = 1
    /\ pending' = <<>>
    /\ executed' = <<executed[1] \o executed[2], <<>>>>
    /\ UNCHANGED <<params, chain>>

\* CheckTx: only the ante handler, and its writes are kept if it succeeds.
CheckTx(tx) ==
    LET ante == AnteHandler(check.st, check.ctx, tx, TRUE)
    IN  /\ version > 0 \/ phase # "idle"
        /\ Len(pending) < MaxPending
        /\ tx.basic /\ ante.code = "OK"
        /\ check' = [check EXCEPT !.st = ante.st]
        /\ pending' = Append(pending, tx)
        /\ UNCHANGED <<disk, cms, params, deliver, phase, version, chain, next, executed>>

\* Mutant: the parameters are only set by InitChain.
ParamsForgotten(st) == 0

\* initFromMainStore: the parameters as of the last commit, if there are any.
ParamsLoaded(st) == st.maxGas

\* The process stops and is started again: LoadLatestVersion and initFromMainStore.
Restart ==
    /\ disk' = disk /\ cms' = disk
    /\ params' = ParamsLoaded(disk)
    /\ deliver' = NoState
    /\ check' = [st |-> disk, ctx |-> NoHeader]
    /\ phase' = "idle" /\ next' = 1
    /\ pending' = <<>>
    /\ executed' = <<executed[1], <<>>>>
    /\ UNCHANGED <<version, chain>>

Next ==
    \/ InitChain
    \/ \E block \in Blocks : BeginBlock(block)
    \/ DeliverTx
    \/ EndBlock
    \/ Commit
    \/ \E tx \in Txs : CheckTx(tx)
    \/ Restart

Spec == Init /\ [][Next]_vars
-----------------------------------------------------------------------------
(* Properties *)

Account == [num : Nat, seq : Nat, coins : Nat]

IsStore(st) ==
    /\ DOMAIN st.accs \subseteq Accounts
    /\ \A a \in DOMAIN st.accs : st.accs[a] \in Account
    /\ st.fees \in Nat /\ st.allocated \in Nat /\ st.maxGas \in {0, MaxGas}

\* No account of any of the states, the ones of CheckTx included, is ever overdrawn.
TypeOK ==
    /\ IsStore(disk) /\ IsStore(cms) /\ IsStore(deliver.st) /\ IsStore(check.st)
    /\ params \in {0, MaxGas}
    /\ deliver.blockGas \in Nat /\ deliver.ctxGas \in Nat
    /\ phase \in {"idle", "initialized", "deliver", "ended"}
    /\ version \in 0..MaxHeight /\ next \in Nat
    /\ Len(chain) \in {version, version + 1}

Total(st) ==
    st.fees + st.allocated + FoldSet(LAMBDA a, n : n + st.accs[a].coins, 0, DOMAIN st.accs)

Supply == FoldLeft(LAMBDA n, entry : n + entry[2], 0, GenesisCoins)

\* Whatever fails where, coins are only moved: a fee that is collected was deducted.
SupplyConserved ==
    /\ version > 0 => Total(disk) = Supply
    /\ phase \in {"initialized", "deliver", "ended"} => Total(deliver.st) = Supply
    /\ check.st.accs # <<>> => Total(check.st) = Supply

\* The state that a block leads to, or a part of it, when nothing but that happens.
Delivered(st, height, block) ==
    LET begun == [setDeliverState(BeginBlocker(st, height), Header(height)) EXCEPT
                     !.ctxGas = BeginGas + IF height = 1 THEN InitGas ELSE 0]
    IN  FoldLeft(LAMBDA d, tx : runTx(d, MaxGas, tx), begun, block)

Replayed ==
    FoldLeftDomain(LAMBDA st, h : Delivered(st, h, chain[h]).st,
                   LoadGenesisAccounts([EmptyStore EXCEPT !.maxGas = MaxGas]),
                   SubSeq(chain, 1, version))

\* Replicas agree: the committed state is a function of the committed blocks, whatever
\* CheckTx was asked, and however often the process stopped and executed blocks again.
Deterministic == version > 0 => disk = Replayed

\* No transaction is let through twice, in the same block or in another, although
\* anybody may send it again.
NoReplay == IsInjective(executed[1] \o executed[2])

\* The block that Tendermint makes of what CheckTx has accepted since the last commit, in
\* that order: the first transaction in it that the ante handler does not let through
\* comes when the block is out of gas, or its payer has spent the fee by the messages of
\* an earlier one, which CheckTx does not run.  It is never one whose sequence, account
\* number or signature is wrong, that has not enough gas, or that has no account to pay.
CheckSound ==
    check.ctx.height > 0 =>
        \A before \in {[k \in DOMAIN pending |->
                          Delivered(disk, version + 1, SubSeq(pending, 1, k - 1))]} :
            LET through(k) == PassesAnte(before[k], MaxGas, pending[k])
                payer(k)   == GetSigners(pending[k])[1]
            IN  \A k \in DOMAIN pending :
                    \/ through(k)
                    \/ \E j \in 1..k - 1 : ~through(j)
                    \/ BlockOutOfGas(before[k], MaxGas)
                    \/ /\ AnteHandler(before[k].st, before[k].ctx, pending[k], FALSE).code
                            = "InsufficientFunds"
                       /\ \E j \in 1..k - 1 : payer(k) \in ToSet(GetSigners(pending[j]))

\* The application implements the ledger.
Books == INSTANCE Ledger WITH
    chain <- SubSeq(chain, 1, version),
    coins <- [a \in Accounts |->
                 getCoins(IF version = 0 THEN LoadGenesisAccounts(disk) ELSE disk, a)],
    seq <- [a \in Accounts |-> IF Exists(disk, a) THEN disk.accs[a].seq ELSE 0],
    fees <- disk.fees + disk.allocated,
    GenesisCoins <- [a \in Accounts |-> getCoins(LoadGenesisAccounts(EmptyStore), a)]
LedgerSpec == Books!Spec

\* The books of all the states, of CheckTx too: nobody is overdrawn, no coin is made or
\* lost, and no transaction is let through a second time.
BooksSound == TypeOK /\ SupplyConserved /\ NoReplay
-----------------------------------------------------------------------------
(* Said of the system, and not so *)

\* "If the remaining gas exceeds the meter's limits, then DeliverTx returns an error and
\* the transaction is not committed": after an error nobody but the payer has changed.
RefusedNotCommitted ==
    [][phase = "deliver" /\ next' = next + 1 /\ deliver'.code # "OK" =>
          \A a \in Accounts :
              getCoins(deliver'.st, a) # getCoins(deliver.st, a) =>
                  a = GetSigners(chain[version + 1][next])[1]]_vars
=============================================================================
