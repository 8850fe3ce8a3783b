# A TLA+ verification of the Cosmos SDK (my-cosmos)

This directory specifies the parts of the SDK that decide what a blockchain built with it
commits: the multistore and its crash behaviour, the caches and iterators over it, the ABCI
application, the transaction pipeline, accounts and coins, governance, the validator set,
staking, slashing, the distribution of rewards, and transfers between chains. The modules are
translated from the Go source under `src/`; `PROJECT.json` maps every definition to the lines
it stands for. TLC checks small instances, TLAPS proves what matters most for all values of
the constants.

    tlc -workers 2 -config Gov.cfg MCGov       # a run of PROJECT.json
    tlapm GovProofs.tla                        # the proofs of a module

## 1. The system

A validator runs two things: Tendermint, which agrees with its peers on blocks, and the
application, which executes them. Tendermint calls the application over ABCI: `InitChain`
once, then per block `BeginBlock`, `DeliverTx` for every transaction, `EndBlock`, `Commit`;
and `CheckTx` at any time in between, for transactions that want to enter the mempool. A
local client serialises the calls with a mutex. All replicas must come to the same state, and
so to the same hash, from the same blocks, whatever else each of them is asked and however
often it stops.

| part | state | operations | what must hold |
|---|---|---|---|
| root multistore, IAVL stores (`store/rootmulti`, `store/iavl`) | versions of every tree on disk, commit infos, `s/latest` | load, commit (store by store, then a batch), pruning, query height | what is on disk can be loaded after a crash anywhere; a repeated commit gives the same id; stores stay aligned |
| cached stores (`store/cachekv`, `cachemulti`) | overlays over a store | get, set, delete, iterate, write | a cache is indistinguishable from the map it stands for until it is written or dropped |
| IAVL iterators (`store/iavl`) | two goroutines, two channels, a lock | next, valid, key, value, close | items in order, nobody waits for ever |
| prefix, transient, tracing, gas stores; lists and queues | views of a store | the same | a prefix store touches only its keys |
| baseapp | check state, deliver state, consensus parameters | the ABCI calls, `runTx` | the state is a function of the blocks; all or nothing per transaction; block gas |
| accounts and the ante handler (`x/auth`) | accounts, collected fees | signatures, sequences, fees, gas; vesting | no replay; nobody pays or sends without a signature; supply |
| bank, vesting accounts | the same accounts, counters of what is delegated | send, multi-send, delegate, undelegate, export and import | coins only move; locked coins of vesting accounts stay, all others can be spent |
| staking, validators | validators, power index, validator queue, last powers, pool | create, edit, delegate, undelegate, jail, unjail, slash, end of a block | indices exact; the best validators bonded; Tendermint has the same set; no panic |
| staking, delegations | delegations, unbonding delegations, redelegations, two queues | the messages; completion; slashing of all three; genesis export | shares and tokens add up; slashing reaches the stake behind the infraction and no other |
| slashing | signing infos, ring of missed blocks, key relation | votes, evidence, unjailing, hooks | exact window; punished once; accountable until evidence expires; no panic |
| governance | proposals, two queues, deposits, votes | submit, deposit, vote, end of a block with the tally | queues and records agree; deposits covered; each token counted once; decisions final and reached |
| distribution | periods, reference counts, slash events, pools | allocation, withdrawal, hooks | everybody is paid what they earned, nothing is paid twice, the pool covers it |
| mint | minter | begin of a block | inflation within its bounds |
| params | subspaces, transient marks | get, set, modified | a change is seen in the block it is made in |
| ibc and its relayer | ingress and egress sequences; the relayer's loop | send, receive, relay | a packet is taken once and under its number, and arrives where its name is its own |
| decimals, coins (`types`) | none | arithmetic; sorted lists | rounding; the merge of sorted lists is the sum |
| gaia application | none of its own | order of blockers, hooks, genesis, export | the modules' expectations of each other |
| keys | two indices of one database | create, update, delete | the indices agree |
| clients, server, commands, simulation, codec | | input, output, tests | |

How they interact: every module reads and writes its stores through the context of a
transaction, a cache on the deliver state, which is a cache on the multistore; it iterates through
the same caches, down to an iterator that a goroutine feeds. Messages come
through the ante handler. Staking calls hooks of distribution and slashing; slashing calls
`Slash`, `Jail` and `Unjail` of staking; governance asks staking for the bonded validators and
delegations, and bank for transfers; the blockers run in a fixed order (mint, distribution and
slashing begin a block; governance and staking end it).

What makes it hard, by kind (the `hazards` of `PROJECT.json` name the lines):

- **A commit is many writes.** A crash may come between any two of them, and Tendermint then
  replays blocks that some of the stores have already saved.
- **Three states of the application** (committed, deliver, check) are cached on each other,
  and `CheckTx` runs between the calls of a block.
- **Records and the indices over them are kept in step by hand**: the power index is keyed by
  tokens, so every change of tokens deletes one key and writes another; queues are keyed by
  times; a ring of bits has a counter beside it.
- **Late knowledge**: votes and evidence are about a validator set of some blocks ago;
  meanwhile a validator has left, been jailed, removed, and perhaps created again.
- **Rounding**: shares, tokens, powers, slashes and rewards are divided and rounded at every
  step, and not all in the same direction.
- **Lazy accounting**: a delegation's rewards and an account's spendable coins are worked out
  when they are asked for, from counters and from records that must be kept exactly that long.
- **Unreliable messengers**: a relayer forgets, repeats and competes, and reads state that is
  stale when it is used.
- **Panics stop the chain**: an `EndBlocker` that panics does so on every replica.
- **Bounds**: gas of a transaction and of a block, places in the validator set, entries of an
  unbonding delegation.

## 2. Modules

| module | models | built on |
|---|---|---|
| `CommitLog` | what a `CommitMultiStore` promises: an atomic log of states (abstract) | |
| `MultiStore` | `rootmulti.Store`, `iavl.Store`: loading, the writes of a commit, pruning, crashes | refines `CommitLog` |
| `Dec` | `types/decimal.go`: fixed-point arithmetic with its roundings | |
| `Ledger` | what the application promises its users (abstract) | |
| `Branches` | what the caches promise: whole copies of the committed map (abstract) | |
| `CacheKV` | `cachekv.Store` as baseapp stacks it: states, transactions, Write, Commit | refines `Branches` |
| `CacheIterator` | merging iterators through the caches and a prefix store | `CacheKV` |
| `IavlIterator` | the goroutines, channels and lock of `iavlIterator` | |
| `Auth` | ante handler, gas meters, accounts, transfers, as functions of a store | `Dec` |
| `BaseApp` | the ABCI calls and `runTx`, restarts | `Auth`; refines `Ledger` |
| `Gov` | `x/gov` | `Dec` |
| `ValidatorKeeper` | staking's operations on validators, as functions of a store | `Dec` |
| `ValidatorSet` | the life of validators and Tendermint's set | `ValidatorKeeper` |
| `DelegationKeeper` | delegations, unbonding, redelegation, slashing, as functions of a store | `ValidatorKeeper` |
| `Staking` | delegators and validators together; genesis export | `DelegationKeeper` |
| `DistributionKeeper` | `x/distribution` and `x/mint`, with staking's operations and the hooks in them, as functions of a store | `DelegationKeeper` |
| `Distribution` | blocks of messages, slashes and rewards; export for height zero | `DistributionKeeper` |
| `Slashing` | `x/slashing` over the statuses of validators | |
| `CoinSets` | `types/coin.go`: sorted lists of coins | |
| `Bank` | `x/bank`, vesting accounts, accounts in the genesis file | `CoinSets`, `Dec` |
| `Transfers` | what IBC promises: packets taken by number and once (abstract) | |
| `Ibc` | `x/ibc` on several chains, and relayers between them | refines `Transfers` |
| `MC...` | the small instances | |
| `...Proofs` | theorems | |

Conventions. A definition has the name of the Go function it translates where there is one. A
message that the code refuses, with an error or a panic that `runTx` recovers from, changes
nothing (the cache of the transaction is dropped, which is what `BaseApp` is about), so it is
an action that is not enabled. A panic outside of a transaction stops the chain: it is a
predicate (`EndBlockSafe`, `NoPanic`, `NoSaveConflict`) or a flag of the store (`panics` of
`DistributionKeeper`) that a property rules out. The definitions
under the word "Mutant" are plausible mistakes, used to see that a property notices them;
nothing else refers to them.

### MultiStore and CommitLog

State: on disk `saved` (the versions of every tree), `commitInfo` and `latest`; in memory
`version`, the working `tree`s and how far a commit has come (`pending`, `releasing`);
Tendermint's `chain`. A hash stands for the content it is the hash of.

`LoadLatestVersion` loads every store at the version that the commit info names; version 0
means "the newest there is", as in IAVL. `DeliverBlock` takes the next block of the chain, or
a new one. `SaveVersion(s)` and `ReleaseVersion(s)` are the two halves of `iavl.Store.Commit`,
for the stores in any order (Go ranges over a map); `WriteBatch` is the last write of
`rootmulti.Store.Commit`. `Crash` may happen between any two of them. The refinement mapping
takes the batch for the commit.

### BaseApp, Auth and Ledger

`BaseApp` has the store as of the last commit (`disk`), the one that states are cached on
(`cms`), the memoized consensus parameters, the deliver state with the meters of its context,
and the check state. One action per ABCI call, `CheckTx` in between, and `Restart` at any
moment: Tendermint then repeats the block it had decided, or the genesis. `Auth` has what
happens to a store in between: `AnteHandler` in the order of the code (mempool fees, number of
signatures, gas of the size, payer, fee, then each signature), `runMsgs` with transfers, and
gas as a constant for each kind of work. `runTx` has the two caches (ante handler and
messages) and the block's gas, which is consumed after the writes. A signature is a record of
who made it and of what was signed besides the transaction; a transaction is one that somebody
sends, repeated and in any order.

`Ledger` knows nothing of caches, gas or crashes: each transaction of a block is ignored, or
charged, or charged and executed as a whole, and only if every sender has signed it as the
next one of their account.

### Gov

Proposals, the two queues as sets of `<<time, ID>>`, deposits, votes and balances. The
EndBlocker (`EndBlock`) drops what is due in the inactive queue and tallies what is due in the
active one. `tally` is translated with its rounding, delegations and deductions; what staking
answers (`stake`) changes with each block within the set `Stakes`, which includes a validator
that was jailed in this block and is gone from the index while the pool still counts it.

### ValidatorKeeper and ValidatorSet

`ValidatorKeeper` has the keeper's functions on a record `k` of the store: the power index is
the set of its keys `<<tokens, operator>>`, deleted and written by each operation as the code
does it, not derived. `ApplyValidatorSetUpdates` and `UnbondAllMatureValidatorQueue` are the
end of a block, with the code's panics as predicates. `ValidatorSet` adds the messages,
punishments, blocks and Tendermint's set (`tm`), which applies the updates it is given. Of the
delegations it keeps the operator's own apart, because that one can jail a validator.

### DelegationKeeper and Staking

Delegations, unbonding delegations, redelegations and their queues by key, as in the store.
`Slash` follows the code: unbonding delegations and redelegations since the infraction first,
the remainder from the validator. `Staking` has the messages of single delegators, slashing
for a block in the past with the power of that block, the end of a block, and
`ExportGenesis`/`InitGenesis`.

### Slashing

Signing infos, ring (`missed`), counter and key relation, driven by the votes of the set that
signed the last block (three sets: the updates of a block take effect two blocks later) and by
evidence for any block ever signed. Which validators are bonded at the end of a block is any
choice: `ValidatorSet` has the rule. `recent` and `doubles` are history variables, for the
properties.

### CacheKV, CacheIterator and Branches

`base` is the multistore, `state` the caches of the deliver and the check state, `msCache` the
cache of the transaction that runs in either. A cache is what the Go map holds: entries that
were read, set or deleted, with their flags. `Get` fills a cache, also with the knowledge that
a key is absent; `Write` passes the dirty entries on to the cache or the store beneath;
`Abort` drops them; `Commit` writes the deliver state, and renews the check state. The stores of
a multistore are cached and written together, so the keys are those of all of them. The
refinement mapping reads through the caches: no abstract variable knows what is cached where.

`CacheIterator` adds one open iterator: a merging iterator per cache (`skipUntilExistsOrInvalid`
and the rest step by step) over the dirty items, which are copied when it is opened, above the
iterator of the store, for the range that a prefix store makes of its arguments
(`PrefixEndBytes`). Keys are sequences of bytes. Keepers go on reading, setting and deleting
while it is open.

### IavlIterator

One action per step between two waits: `iterateRoutine` offers the items on an unbuffered
channel, `initRoutine` takes the first one, and the callers take the lock, receive, read and
unlock. A wait is an action that is not enabled. `Close` may come at any time, also never, and
while a caller waits with the lock held. The tree walked over is immutable, so an item is its
place in the walk.

### Bank and CoinSets

`CoinSets` has `safeAdd` and `AmountOf` as the recursion of their loops. `Bank` has the accounts
with the fields of each kind, and the keeper's functions as functions of the store that return
`Refused` for an error. A transaction deducts its fee, which it keeps when its message fails.
What staking does is seen only through the coins it takes and gives back: `Refund` returns any
amount up to what is owed and one coin more (shares become tokens with rounding),
`Slash` makes less come back than was delegated. `Restart` is the export of all accounts and
their import through the genesis file. `owed`, `sent` and `received` are history, for the
properties.

### DistributionKeeper and Distribution

The store of `DelegationKeeper` with the records of `x/distribution`. The operations of staking
that call hooks are written once more, with the hooks where the code calls them
(`unbondHooked`, `SlashHooked`, ...), from the parts that `DelegationKeeper` has. `Distribution`
makes blocks of them: `BeginBlock` mints and allocates the fees of the last block by the powers
at which it was signed, then come slashes, messages, and staking's `EndBlocker`, whose removals of
validators have a hook too. Every sanity check of the keeper that panics sets `panics`, and a
message that sets it fails. `prepForZeroHeightGenesis` is a function of the state, applied in
the property. `earned` and `paid` are history: what each delegation would have been
given had every block's rewards been divided at once.

### Ibc and Transfers

Chains with accounts, egress queues by the destination and ingress sequences by the source that
packets name; a block holds a transaction or none, and queries are answered from the version
before the latest, as `getHeight` of the IAVL store does without a height. A relayer is the loop
of `relay.go`, one action per query and per packet, that waits for the commit or, if it
broadcasts asynchronously, does not. Transactions wait in a mempool that admits them in the
sequence of their sender. `Lost` and `Again` are the faults: a transaction vanishes, with those
that follow it; a query or a broadcast fails, an answer is late, or the relayer panics and is
started again. Their number is bounded.

The source in a packet is what its sender put there. `ValidateBasic` only wants it to differ from
the destination, and nothing compares it with the chain that the transfer is sent on. Nor does
the receiving chain look where a packet comes from ("There will be no security check for incoming
packets", `docs/spec/ibc/mvp/ibc.md:28`; "This needs to do some authentication checking",
`x/ibc/mapper.go:55`). Both are in the model: a transfer may name any chain but its destination,
and `Claim` is a `MsgIBCReceive` from anybody, with a packet that need not have been sent. What
is promised is accordingly less than transfers in order: `Transfers` says that a chain takes as
number k under a name the k-th packet of a queue, once, or a claim. Transfers in order and once
follow where a name is used by its own chain only (`InOrder`). The clients of the repository
(`x/ibc/client/cli/ibctx.go`, `client/rest/transfer.go`) see to the name: they put in the chain ID that
the transaction is signed for. A packet with another name is credited once, under that name; the
relayers, who look under the right one, repeat it for ever, are refused, and never come to the
packets behind it, which is why `AllArrive` is about packets with none such before them.
Chain IDs are taken to be without slashes, so that `egress/<chain>` and `egress/<chain>/<index>`
are different keys. `got` and `claimed` are history.

## 3. What is checked

Every run checks deadlock unless its configuration stops at a bound.

| run | instance | properties |
|---|---|---|
| `ms_syncable` | three stores, two blocks, keepRecent 1, keepEvery 2, four versions | `CommitsSound`, `EveryBlockCommitted`, `LogSpec` |
| `cachekv` | three keys, one a prefix of another, of bytes 0 and 1; two ranges, both directions | `IterationExact`, `BranchesSpec` |
| `iavl_iterator` | two callers with three calls each, up to three items | `ItemsInOrder`, `NobodyWaits` |
| `baseapp` | three accounts, eleven transactions, two blocks of up to two, block gas for one and a half transactions | `BooksSound`, `Deterministic`, `CheckSound`, `LedgerSpec` |
| `bank` | a continuous and a delayed vesting account, a plain one, an address without one; three denominations | `CoinsExact`, `SpendableExact`, `NeverFrozen` |
| `gov` | a validator and its delegator who act, a second validator, two proposals, amounts that reach the minimum in one or two deposits, a rounding tally | `RecordsAgree`, `DepositsSound`, `CountedOnce`, `YesNeverHurts`, `EventuallyClosed` |
| `vs_life` | three operators, two places, power of two tokens per unit, five blocks, three messages or punishments | `IndicesExact`, `ElectionSound`, `NobodyAbandoned`, `EndBlockSafe`, `StaysSlashable` |
| `staking` | three validators, two places, a delegator who acts, six blocks, three messages or punishments, slash factors of a third and of all | `RecordsSound`, `ExportComplete`, `ValueKept`, `SlashReach` |
| `slashing` | two validators, a window of two, six blocks, a jail of two and an unbonding of three | `RingSound`, `NoPanic`, `StillAccountable`, `PenaltiesServed` |
| `distribution` | two validators, a delegator to both who acts, five blocks, three messages or slashes, one of all and one of a third | `FundsSound`, `ReferencesExact`, `CanWithdraw`, `FairShares`, `ZeroHeightSound` |
| `ibc` | two chains and a third name, two packets, two relayers of one link, one of them asynchronous, two faults, or a claim, or a packet with the third name | `TransfersSound`, `TransfersSpec`, `AllArrive` |
| `distribution_twice` | the same, with even amounts and slashes of a half, two of which may hit one validator in one block | `CanWithdraw`, violated |

What they show, where the name does not say it:

- `CommitsSound`: after a crash anywhere the latest version can be loaded (`LatestLoadable`), a
  repeated commit gives the same id (`CommitIDsAgree`), stores stay aligned, IAVL never
  refuses a version and the default query is served (`NodeSound`).
- `IterationExact`: an iterator gives what all caches together held when it was opened, in order,
  whatever was set and deleted meanwhile. `BranchesSpec`: a cache is never stale, and a
  transaction takes effect as a whole or not at all.
- `BooksSound`: coins only move, and no transaction is executed twice.
- `CheckSound`: of the block that is made of what `CheckTx` accepted, in that order, the ante
  handler refuses no transaction for its signatures, sequences, numbers or gas. `CheckTx` does not
  run messages and has no block's gas: the first one refused is refused because the block is out
  of gas, or because its payer has spent the fee by an earlier message. Both happen in the run.
- `SpendableExact`: what a vesting account may spend follows from its history alone (vested, plus
  received, less sent and less the vested coins it has delegated), not from the order in which
  time, transfers, slashes and refunds came. `NeverFrozen`: nobody but the owner lowers it.
- `DepositsSound`: the deposit account covers every deposit that may have to be refunded.
- `YesNeverHurts`: the tally is evaluated for all votes of three accounts, `Abstain` and no vote
  included, with every stake of the run.
- `PenaltiesServed`: a double sign is punished once and a jail for downtime is served in full,
  also by one who leaves and comes back. It says nothing of the jail of a tombstoned
  validator, which does end that way (`TombstonedStaysOut` below).
- `ElectionSound`: Tendermint has the bonded validators, the best are bonded, no place is left
  empty.
- `RecordsSound`: pool, shares and tokens add up, and the height and the completion time of every
  entry belong together, one of which slashing goes by and the other completion.
- `FundsSound`: not a fraction of a coin is lost between accounts, pools, fees and rewards, and
  what is outstanding pays everybody, so that the `Intersect` of `withdrawDelegationRewards` takes
  nothing off. That is shown for the precision of the run and for validators slashed at most once
  at a height; the code says that it "may happen on the very final digits"
  (`x/distribution/keeper/delegation.go:159`). `FairShares`: each delegation gets what it would have got
  had every block been paid out at once, within the bounds of truncation, which the property
  spells out. `CanWithdraw`: no sanity check fails for anybody at any time.
- `TransfersSound`: balances, packets on their way and claims add up to what there was
  (`CoinsKept`), and what is taken under a name that nobody else uses is what was sent, in order
  (`InOrder`). `TransfersSpec`: the refinement of `Transfers`.

Each run also checks a type invariant, on its own or as a part of the first property, which is
not only about types: naturals in it say that no balance, share, pool or counter is overdrawn.

**Bounds.** Four versions and keepEvery 2 let a waypoint, a pruned version and a version that is
both latest and pruned next occur; the content of a store is a number that tells all
block sequences of that length apart. Two blocks of two transactions let a transaction be
repeated in the same block, in the next one and after a restart, let a check state be used
after a commit, let the second of a block run out of the block's gas, and let the first one spend
what was to be the fee of the second. Time 5 of `gov` is
longer than the longest life of a proposal submitted by `LastSubmit`. In `vs_life`, `staking`,
`bank` and `distribution` the number of messages is bounded rather than their kinds or order;
three are enough to leave, redelegate and be slashed, to be jailed, unjailed and re-elected, and
what starts to unbond in the first blocks matures within the bound. Four in `bank` are enough to
delegate locked and free coins, to be slashed and to be refunded in two parts.
A window of two and six blocks let the ring go round, a punishment reset it, and a validator
unbond, be removed and come back. Who leaves in the first block is jailed in the third until the
fifth, removed in the fourth and back in the fifth: a jail outlasts blocks, and would not be served
if it were any longer. One is 100 in the runs: two digits are enough for all
roundings to occur; the proofs are for every precision. Three reads or writes in the deliver
state and one in the check state are enough for a key to be in every combination of
layers; the second range ends with the largest byte, so that its end has to carry. Two packets
and two faults let a packet be relayed by both relayers, twice by one, and after a lost one. A
claim or a packet with another's name counts as two faults, so that each is taken by itself, at
any moment. `MaxSequence` stops a relayer that repeats a packet for ever after three transactions,
which are enough for all that is to arrive.

**Fairness.** `MultiStore!FairSpec`: a node that is up takes steps and one that is down is
started again; `EveryBlockCommitted` holds if crashes stop at some point. `Gov!FairSpec`:
blocks go on being made; nobody has to send any message. `IavlIterator!FairSpec`: a goroutine
that can go on does, weakly fair; the lock is strongly fair, because a waiter of a Go mutex that
has failed for a millisecond gets it next. Nobody has to call or to close. `Ibc!FairSpec`: chains
go on making blocks, which take up what is in the mempool, and a relayer's loop, which has no
end, goes round; faults are bounded, and no fairness is asked of senders.

### Where code and documentation differ

`distribution_twice` is a run that ends with a counterexample (`findings`). A second slash of a
validator at the same height is merged into the first event, and the event gets the period that
ended last. A delegation that was restarted in between starts with that period, so the event
does not count for it: the stake that the keeper recalculates exceeds the one it finds, and the
sanity check panics whenever the delegator withdraws, delegates more or undelegates. That
takes a redelegation to the validator whose source is slashed between the two slashes; one
`BeginBlock` may punish a validator for downtime and then for a double sign. With
`SlashAgain = FALSE` there is no counterexample within the bounds.

The following are counterexamples as well. Each is found by TLC with the constants given,
changed from those of the run's configuration:

- `LatestLoadable` of `MultiStore` with KeepRecent and KeepEvery 0 (PruneEverything, "all saved
  states will be deleted, storing only the current state"): the previous version is deleted by
  each store before the batch names the new one latest. A crash in between leaves a node that
  cannot load.
- `CommitIDsAgree` of `MultiStore` with CrashFrom 0: a crash in the very first commit, after some
  stores are saved. Version 0 makes those load their newest tree, and the repeated first block is
  committed at version 2 of these stores ("the next commit after loading must be idempotent",
  `store/types/store.go`).
- `RefusedNotCommitted` of `BaseApp`, as configured: a transaction that takes the block past its
  gas limit is answered with an error and committed all the same, because the block's gas is
  consumed after the writes (`docs/concepts/baseapp.md:122` says that it "is not committed").
- `OwnVoteCounts` of `Gov`, as configured (`TwoValidators`): the vote of a validator's operator
  does not count for its delegations to other validators
  (`docs/spec/governance/01_concepts.md:135`: "it will override its validator vote with its own").
- `FactorBurned` of `Staking` with two validators and a factor of a half: a redelegation slashed
  after its stake left the destination counts as burned, and is taken off what the validator
  loses ("Find the contributing stake at that height and burn the specified slashFactor",
  `x/staking/keeper/slash.go`).
- `TombstonedStaysOut` of `Slashing`, as configured: a tombstoned validator whose stake leaves is
  removed, and can be created again with the same key and bonded
  (`docs/spec/slashing/01_concepts.md:42`: "they can not rejoin the validator set").

Others were met while modelling and have no run of their own. Each can be read off the action
named:

- `Gov!AddDeposit`: a deposit in the block in which the deposit period ends still opens the
  vote, since the queue is only read by the EndBlocker. The concepts close a
  proposal that has not reached MinDeposit "before" the period's end.
- `ValidatorSet!EditValidator`: the new minimum self-delegation is compared with all tokens of
  the validator, not with the operator's; and no slash compares anything with it.
- `Staking!Delegate`: delegation to a jailed validator is accepted.
- `Staking!BeginRedelegate`: redelegation of the last shares of an unbonded validator removes
  it first; what is not found is then taken for bonded, and the redelegation starts a full
  unbonding time.
- `Slashing!AfterValidatorBonded`: the start height is that of the first bonding, so a
  validator that returns is not protected for a window as a new one is.
- `DistributionKeeper!updateValidatorSlashFraction`: two slashes at one height are merged with a
  rounded product, the stake is cut by truncation; and the reference to the first period is never
  given back when the event moves on to another.
- `Distribution!prepForZeroHeightGenesis`: with a list of validators to keep, the export sets the
  others to jailed and leaves them in the power index until the import; the model is without one.
- `Ibc!Refused`: the asynchronous relayer is not told that `CheckTx` refused a packet, and goes on
  with the next ones, which are refused as well; only the next round repeats them.
- `BaseApp!CheckTx`: the comment says that routes are checked; check mode returns before any
  message is looked up. `BaseApp!Restart`: until the first commit after a start the check
  context has an empty header, without chain ID, so that `CheckTx` refuses what is signed for
  the chain. `BaseApp!runTx`: a transaction whose messages are invalid is charged the meter of
  the block's own context, which grows over the block.

## 4. What is proved

| module | theorem | states |
|---|---|---|
| `MultiStoreProofs` | `CommitsAlwaysSound` (from `CrashSafe`, `CommitIdempotent`, `NodeConsistent`), `ImplementsLog` | `CommitsSound`, `LogSpec` |
| `CacheKVProofs` | `CachesSound`, `CachesImplementBranches` | `NoStaleEntry`, `BranchesSpec` |
| `IavlIteratorProofs` | `InOrder`, `NeverBack` | `ItemsInOrder`, `Forward` |
| `IbcProofs` | `InOrderOnce`, `TakenByNumber` | `InOrder`; `TransfersSpec` |
| `GovProofs` | `RecordsConsistent`, `DecisionsFinal` | `RecordsAgree`, `ClosedForever` |
| `DecProofs` | `RoundsToNearest`, `ShareAtMostWhole` | rounding of a Dec; a part of the shares is never worth more than all tokens |
| `SlashingProofs` | `RingAlwaysSound`, `NeverPanics`, `AlwaysAccountable`, `PenaltiesAlwaysServed` | `RingSound`, `NoPanic`, `StillAccountable`, `PenaltiesServed` |
| `ValidatorSetProofs` | `IndexAndQueueExact`, `TendermintInSync`, `BestElected`, `NobodyIsAbandoned`, `EndBlockNeverPanics`, `SlashableUntilMature` | `IndicesExact`, `TendermintAgrees`, `BestBonded`, `NobodyAbandoned`, `EndBlockSafe`, `StaysSlashable` |

Assumptions are the named `ASSUME`s of the modules: naturals, finite sets, a positive precision.
`SlashingAssumption` also relates durations, which nothing in the code does. A validator that
leaves goes on signing for two blocks, so unbonding has to take longer than evidence is good for
by one block time, and than a downtime jail by two. The defaults (three weeks, two and ten
minutes) satisfy both for block times of a week. The multistore has two hypotheses:
`SafePruning` (keepRecent at least 1, or keepEvery 1: PruneEverything is excluded) and
`FirstCommitDone` (crashes come after the first commit); the two counterexamples of section 3
show that neither can be dropped.

**MultiStore.** `LatestLoadable` alone is not inductive: it says nothing of what a half-finished
commit leaves. `IInv` adds that every saved tree is the state its version stands for and is at
most one version ahead of `latest` (`SavedInv`), that the commit infos are those of the chain
and every store still has the latest version (`InfoInv`), what the process holds in memory in
each phase (`PhaseInv`), and that the chain is the repeated execution of blocks (`ChainInv`).
Pruning can then only release a version below `latest`, and saving a version that a crash left
behind meets the same content. For the refinement, `WriteBatch` appends to the log and all
other steps leave it as it is.

**Gov.** `IInv` is the three parts of `RecordsAgree`, the type of the records, and `FreshIDs`:
IDs that were not given out have no proposal, so that a new one meets no old deposit, vote or
queue entry. The step that matters is the EndBlocker: what a queue has due is exactly what is
open and past its end.

**ValidatorSet.** The lemmas on the keeper say that each of its functions keeps the index exact
(`GoodKeeper`) and what it does to the one validator it touches. `IInv` adds the queue,
agreement with Tendermint, and for each validator (`ValidatorOK`) that there are no tokens
without shares, that one in the index has a self-delegation and a positive minimum, and that an
operator without a validator has left nothing behind. `BestBonded` follows from the election: the visited keys are a prefix of the index, and
by counting a set of them none is left out that comes before. `ShareAtMostWhole` is needed
wherever shares are taken out: without it tokens might become negative.

**Slashing.** The lemma behind `RingExact` is `RingStep`: writing the bit at the offset modulo
the window replaces exactly the oldest of the last votes, since numbers less than a window apart
have different remainders. The counter follows by cardinality. The other four need to know how
long ago somebody left: `SignersInv` says that who is to sign is bonded or left at most two
blocks ago, `EvidenceInv` that who signed unbonds at least until evidence is too old, `JailInv`
that an unbonding that began in jail outlasts the jail, so that removal and a new
creation do not cut it short, and `KnownInv` that key and signing info are there until then.

**CacheKV.** `Inv` says of each branch (`BranchOK`) that its two caches are sound over what is
beneath them: an entry that was only read is what the parent still has, a dirty one is deleted
exactly when it has no value (`EntriesSound`), and what is not in use is empty. `SeenWritten` and
`StoreWritten` are the lemmas behind `Write`: writing a cache into its parent does not change what
is seen through it. `OtherBranch` says that no step in one branch shows in the other but
`Commit`, which empties both. The refinement then has one lemma per action.

**IavlIterator.** `ItemsInOrder` is inductive as it stands. What makes it so is `Exclusive`: who has
the lock knows that `initRoutine` is done, so that two receivers never take items at once.

**Ibc.** The theorems are for any names in packets and any claims. `Inv` says that what is in a
mempool is the packet that was sent under its sequence (`Real`), that a relayer never counts on
more packets than there are, that old versions know of no more than the new, and that an ingress
sequence is the number of packets taken under its name, each of which, if it was in a queue, has
the number it was taken under there (`Taken`). A delivered packet with the expected sequence is
therefore taken as `Transfers` says; any other changes nothing. `InOrder` follows: if all that
was taken under a name came out of one queue, it is the beginning of the queue.

Only model-checked: everything with sums over sets (`DepositsCovered`, `CountedOnce`,
`PlacesFilled`, `SupplyKept`, `SharesAddUp`, `ValueKept`, `FundsSound`, `CoinsExact`,
`CoinsKept`) and what follows from folds over sequences (`IterationExact`, `FairShares`,
`SpendableExact`), because their properties need induction that the provers lack; liveness
(`EventuallyClosed`, `EveryBlockCommitted`, `NobodyWaits`, `AllArrive`), which needs `ENABLED`;
`Staking`, `Distribution`, `Bank` and `BaseApp` as a whole.

## 5. Not modelled

Every part without a module is in `components` with the reason:

- `x/params`: each operation is one read or write of a key, and no message changes a
  parameter; the modules have parameters as constants. The marks of changed parameters in the
  transient store are read by nobody.
- `store/list`, `store/queue`: wrappers that nothing in the repository uses.
- `crypto/keys`: a local file of encrypted keys; what is left without the cryptography is one
  record per name and one per address.
- clients, server, commands: input, output and calls to a node. The relay command is modelled.
- simulation, mock application, codec, version: test support and wrappers of a library.

Within the modelled parts: text, descriptions, public keys and their types, memos, tags,
queriers, proofs of queries; changes of parameters, and with them a new `SignedBlocksWindow` in an
exported genesis, which leaves bits of the old window; several denominations outside of `Bank`;
genesis transactions; the width of integers (the code panics above 255 or 315 bits; amounts are
bounded by the supply, gas by `maxGasWanted`); the mutexes of the caches and of the IAVL tree,
which are only used by one goroutine at a time; export with a list of validators to keep.

Some things the code is exposed to have no property, because the code promises nothing: the
minimum self-delegation is compared with different amounts by creation, editing, withdrawal and
unjailing, and with none by slashing; `CheckTx` has an empty header until the first commit after
a start, so that `CheckSound` is stated for states with one; the gas of a block may be exceeded by
its last transaction.

## 6. Where to go on

1. Theorems about `DelegationKeeper` and `DistributionKeeper` that need no sums: the windows of
   entries, and that references are exact.
2. `BaseApp`: `Deterministic` and `NoReplay` for any number of blocks.
3. `Distribution` with the votes and evidence of `Slashing` in place of any choice of slashes.
