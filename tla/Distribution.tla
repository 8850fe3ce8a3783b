---------------------------- MODULE Distribution ----------------------------
(***************************************************************************)
(* Rewards: what a block's fees and minted coins become while delegators    *)
(* come, go, move and are slashed (src/x/distribution and src/x/mint, with  *)
(* x/staking calling the hooks of x/distribution).                          *)
(*                                                                          *)
(* A delegation is not touched when its validator is paid.  What it is owed *)
(* is worked out when it is next modified, from the rewards per token at    *)
(* the ends of two periods and from the slashes recorded in between; the    *)
(* records in between must therefore be kept exactly as long as somebody    *)
(* needs them.  Blocks are one second apart, so the height is the time.     *)
(***************************************************************************)
EXTENDS DistributionKeeper

CONSTANTS
    Genesis,      \* tokens delegated at genesis by every pair, 0 for none
    Coins,        \* coins left in the accounts at genesis
    SignerSets,   \* bound: who signed a block
    Proposers,    \* bound: the first of this sequence that has power proposes
    Senders,      \* bound: delegators that send messages
    Amounts,      \* bound: amounts delegated
    ShareInputs,  \* bound: amounts of shares taken out, besides all of them
    Factors,      \* bound: validators slashed, and the slash factors
    SlashAgain,   \* whether a validator may be slashed twice at one height
    MaxHeight,    \* bound: heights explored
    MaxOps        \* bound: messages and punishments explored

ASSUME StakeAssumption ==
    /\ Validators \subseteq Delegators /\ Senders \subseteq Delegators
    /\ Genesis \in [Delegators \X Validators -> Nat] /\ Coins \in [Delegators -> Nat]
    /\ SignerSets \subseteq SUBSET Validators /\ Proposers \in Seq(Validators)
    /\ Amounts \subseteq Nat \ {0} /\ ShareInputs \subseteq Nat \ {0}
    /\ Factors \subseteq Validators \X Rates
    /\ SlashAgain \in BOOLEAN
    /\ MaxHeight \in Nat /\ MaxOps \in Nat

VARIABLES
    store,
    powers,  \* LastValidatorPower after every block so far
    height,
    phase,   \* "begin", "deliver" or "committed"
    ops      \* messages and punishments so far

vars == <<store, powers, height, phase, ops>>

Val(v) == store.validators[v]
Existing(s) == {v \in Validators : s.validators[v].status # "None"}

\* Pairs in the order of the delegations' keys, by delegator.
Ordered(keys) == SetToSortSeq(keys, LAMBDA a, b : a[1] < b[1] \/ (a[1] = b[1] /\ a[2] < b[2]))

\* The hooks that InitGenesis calls for every validator, and for every delegation.
InitialHooks(s, vs, keys) ==
    FoldLeft(LAMBDA acc, key : initializeDelegation(incrementValidatorPeriod(acc, key[2]), key[1], key[2], 0),
             FoldLeft(LAMBDA acc, v : initializeValidator(acc, v), s, SetToSortSeq(vs, <)),
             Ordered(keys))

\* InitGenesis of a file with unbonded validators, and their first election.
Init ==
    LET tokens  == [v \in Validators |-> MapThenSumSet(LAMBDA d : Genesis[d, v], Delegators)]
        created == {v \in Validators : tokens[v] > 0}
        pairs   == {key \in Delegators \X Validators : Genesis[key] > 0}
        zero    == [v \in Validators |-> 0]
        none    == [key \in Delegators \X Validators |-> 0]
        staked  ==
            [validators |-> [v \in Validators |->
                 IF v \in created
                 THEN [NewValidator(1) EXCEPT !.tokens = tokens[v], !.shares = NewDec(tokens[v])]
                 ELSE NoValidator],
             index |-> {<<tokens[v], v>> : v \in created}, queue |-> {},
             last |-> zero, lastTotal |-> 0, bonded |-> 0,
             notBonded |-> MapThenSumSet(LAMBDA v : tokens[v], Validators)
                           + MapThenSumSet(LAMBDA d : Coins[d], Delegators),
             delegations |-> [key \in pairs |-> NewDec(Genesis[key])],
             ubds |-> <<>>, reds |-> <<>>, ubdQueue |-> {}, redQueue |-> {},
             coins |-> Coins,
             hist |-> <<>>, current |-> [v \in Validators |-> NoRewards],
             accumulated |-> zero, outstanding |-> zero, starting |-> <<>>, events |-> <<>>,
             community |-> 0, fees |-> 0, withdrawAddr |-> [d \in Delegators |-> d],
             inflation |-> InflationMin, panics |-> {}, earned |-> none, paid |-> none]
    IN  /\ store = ApplyValidatorSetUpdates(InitialHooks(staked, created, pairs), 0, 0)
        /\ powers = <<store.last>>
        /\ height = 0 /\ phase = "committed" /\ ops = 0
-----------------------------------------------------------------------------
(* Messages.  One that panics fails, and changes nothing. *)

Counted == ops < MaxOps /\ ops' = ops + 1

Delivering ==
    /\ phase # "committed" /\ phase' = "deliver"
    /\ Counted
    /\ UNCHANGED <<powers, height>>

Delivered(s) == s.panics = {} /\ store' = s

\* DelegateCoins and the rest of Keeper.Delegate, when d has the coins.
DelegateFrom(s, d, v, amount) ==
    /\ amount =< s.coins[d]
    /\ Delivered(DelegateHooked([s EXCEPT !.coins[d] = @ - amount], d, v, amount, height))

\* handleMsgCreateValidator, with a minimum self-delegation of 1.
CreateValidator(v, amount) ==
    /\ Delivering
    /\ Val(v).status = "None" /\ amount =< store.coins[v]
    /\ DelegateFrom(incrementValidatorPeriod(initializeValidator(AddNewValidator(store, v, 1), v), v),
                    v, v, amount)

\* handleMsgDelegate; the withdrawn rewards can be delegated.
Delegate(d, v, amount) ==
    /\ Delivering
    /\ Val(v).status # "None" /\ ~InvalidExRate(Val(v))
    /\ DelegateFrom(BeforeDelegation(store, d, v, height), d, v, amount)

\* handleMsgUndelegate
Undelegate(d, v, shares) ==
    /\ Delivering
    /\ shares =< Get(store.delegations, <<d, v>>, 0)
    /\ LET info   == getBeginInfo(store, v, height, height)
           amount == IssuedTokens(Val(v), shares)
           s      == unbondHooked(store, d, v, shares, height)
       IN  \/ info.completeNow /\ Delivered([s EXCEPT !.coins[d] = @ + amount])
           \/ /\ ~info.completeNow /\ ~HasMaxEntries(store.ubds, <<d, v>>)
              /\ Delivered(AddUnbondingDelegation(s, d, v, info, amount))

\* The entry of a redelegation of amount that was made in s.
Redelegated(s, d, src, dst, amount, shares) ==
    LET info == getBeginInfo(s, src, height, height)
    IN  IF info.completeNow THEN s ELSE AddRedelegation(s, d, src, dst, info, amount, shares)

\* handleMsgBeginRedelegate; the hooks do not change what shares are worth.
BeginRedelegate(d, src, dst, shares) ==
    LET amount == IssuedTokens(Val(src), shares)
    IN  /\ Delivering
        /\ src # dst
        /\ ~HasReceivingRedelegation(store, d, src)
        /\ ~HasMaxEntries(store.reds, <<d, src, dst>>)
        /\ shares =< Get(store.delegations, <<d, src>>, 0)
        /\ Val(dst).status # "None" /\ ~InvalidExRate(Val(dst))
        /\ amount > 0
        /\ Delivered(Redelegated(
               DelegateHooked(BeforeDelegation(unbondHooked(store, d, src, shares, height), d, dst, height),
                              d, dst, amount, height),
               d, src, dst, amount, IssuedShares(Val(dst), amount)))

\* handleMsgWithdrawDelegatorReward
WithdrawReward(d, v) ==
    /\ Delivering
    /\ <<d, v>> \in DOMAIN store.delegations
    /\ Delivered(WithdrawDelegationRewards(store, d, v, height))

\* handleMsgWithdrawValidatorCommission
WithdrawCommission(v) ==
    /\ Delivering
    /\ store.accumulated[v] > 0
    /\ Delivered(WithdrawValidatorCommission(store, v))

\* handleMsgModifyWithdrawAddress, when the parameter allows it.
SetWithdrawAddr(d, account) ==
    /\ Delivering
    /\ account # store.withdrawAddr[d]
    /\ Delivered([store EXCEPT !.withdrawAddr[d] = account])
-----------------------------------------------------------------------------
(* Blocks *)

\* The power with which v signed the block after h: updates take effect two blocks later.
PowerAt(v, h) == powers[IF h > 0 THEN h ELSE 1][v]

\* The BeginBlockers of x/mint and x/distribution.  The proposer of the last block, whose
\* address was stored meanwhile, had power at it.
BeginBlock(signers) ==
    LET power == [v \in Validators |-> PowerAt(v, height - 1)]
        able  == SelectSeq(Proposers, LAMBDA v : power[v] > 0)
    IN  /\ phase = "committed" /\ height < MaxHeight
        /\ store.panics = {} /\ (height > 0 => able # <<>>)
        /\ height' = height + 1 /\ phase' = "begin"
        /\ store' = IF height = 0 THEN Mint(store)
                    ELSE AllocateTokens(Mint(store), power, signers, Head(able))
        /\ UNCHANGED <<powers, ops>>

\* Slash and Jail by the slashing module for a block up to UnbondingTime ago.
SlashAndJail(v, infraction, factor) ==
    /\ phase = "begin" /\ Counted
    /\ PowerAt(v, infraction) > 0
    /\ height - (infraction + 1) =< UnbondingTime
    /\ Val(v).status \in {"Bonded", "Unbonding"}
    /\ SlashAgain \/ <<v, height>> \notin DOMAIN store.events
    /\ LET s == SlashHooked(store, v, infraction, PowerAt(v, infraction), factor, height, height)
       IN  store' = IF Val(v).jailed THEN s ELSE jailValidator(s, v)
    /\ UNCHANGED <<powers, height, phase>>

\* UnbondAllMatureValidatorQueue, with the hook of every validator that it removes.
UnbondMature(s) ==
    FoldLeft(LAMBDA acc, v : AfterValidatorRemoved(acc, v),
             UnbondAllMatureValidatorQueue(s, height),
             SetToSortSeq({v \in MatureValidators(s, height) : s.validators[v].shares = 0}, <))

\* The EndBlocker of x/staking.
EndBlock ==
    /\ phase # "committed" /\ phase' = "committed"
    /\ store' = CompleteRedelegations(CompleteUnbondings(
                    UnbondMature(ApplyValidatorSetUpdates(store, height, height)), height), height)
    /\ powers' = Append(powers, store'.last)
    /\ UNCHANGED <<height, ops>>

\* The amounts of shares that d may take out of v.
Withdrawals(d, v) == (ShareInputs \cup {Get(store.delegations, <<d, v>>, 0)}) \ {0}

Next ==
    \/ \E v \in Validators :
        \/ \E amount \in Amounts : v \in Senders /\ CreateValidator(v, amount)
        \/ WithdrawCommission(v)
    \/ \E f \in Factors, infraction \in 0..(height - 2) : SlashAndJail(f[1], infraction, f[2])
    \/ \E d \in Senders, v \in Validators :
        \/ \E amount \in Amounts : Delegate(d, v, amount)
        \/ \E shares \in Withdrawals(d, v) : Undelegate(d, v, shares)
        \/ \E shares \in Withdrawals(d, v), dst \in Validators : BeginRedelegate(d, v, dst, shares)
        \/ WithdrawReward(d, v)
    \/ \E d \in Senders, account \in Validators : SetWithdrawAddr(d, account)
    \/ \E signers \in SignerSets : BeginBlock(signers)
    \/ EndBlock

Spec == Init /\ [][Next]_vars
-----------------------------------------------------------------------------
(* Export *)

\* All commissions and all rewards.
WithdrawAll(s) ==
    FoldLeft(LAMBDA acc, key : WithdrawDelegationRewards(acc, key[1], key[2], height),
             FoldLeft(LAMBDA acc, v : WithdrawValidatorCommission(acc, v), s,
                      SetToSortSeq({v \in Existing(s) : s.accumulated[v] > 0}, <)),
             Ordered(DOMAIN s.delegations))

\* Mutant: what is still outstanding is forgotten.
ReinitializedLosing(s) ==
    InitialHooks([s EXCEPT !.events = <<>>, !.hist = <<>>], Existing(s), DOMAIN s.delegations)

\* What is still outstanding is donated, and every record of a period begins anew.
Reinitialized(s) ==
    InitialHooks([s EXCEPT !.events = <<>>, !.hist = <<>>,
                           !.community = @ + MapThenSumSet(LAMBDA v : s.outstanding[v], Existing(s))],
                 Existing(s), DOMAIN s.delegations)

\* prepForZeroHeightGenesis, without a white list; the end of the last block has elected
\* the validators already.
prepForZeroHeightGenesis(s) ==
    LET fresh(f) == [key \in DOMAIN f |-> [i \in DOMAIN f[key] |-> [f[key][i] EXCEPT !.height = 0]]]
    IN  [Reinitialized(WithdrawAll(s)) EXCEPT
            !.reds = fresh(@), !.ubds = fresh(@),
            !.validators = [v \in Validators |-> [@[v] EXCEPT !.unbondingHeight = 0]]]
-----------------------------------------------------------------------------
(* Properties *)

CoinsIn(s) ==
    MapThenSumSet(LAMBDA d : s.coins[d], Delegators) + s.fees
    + TokensOf(s, {v \in Validators : s.validators[v].status # "Bonded"})
    + MapThenSumSet(LAMBDA key : SumEntries(LAMBDA e : e.balance, s.ubds[key]), DOMAIN s.ubds)

SupplyIn(s) ==
    /\ s.bonded = TokensOf(s, {v \in Validators : s.validators[v].status = "Bonded"})
    /\ NewDec(s.notBonded) = NewDec(CoinsIn(s)) + s.community
                             + MapThenSumSet(LAMBDA v : s.outstanding[v], Validators)

\* The simulation's SupplyInvariants: the loose tokens of the pool are those of the
\* accounts, of the unbonding, of the validators that are not bonded, the collected fees,
\* and to the last fraction what is outstanding and in the community pool, whatever was
\* truncated, minted, slashed or forfeited on the way.
SupplyAddsUp == SupplyIn(store)

\* How many delegations, slashes and running periods of v in s refer to a period.
References(s, v, period) ==
    Cardinality({key \in DOMAIN s.starting : key[2] = v /\ s.starting[key].period = period})
    + Cardinality({key \in DOMAIN s.events : key[1] = v /\ s.events[key].period = period})
    + IF s.current[v].period = period + 1 THEN 1 ELSE 0

ReferencesIn(s) ==
    /\ DOMAIN s.starting = DOMAIN s.delegations
    /\ \A v \in Validators : \A period \in 0..s.current[v].period :
           Get(s.hist, <<v, period>>, [ratio |-> 0, refs |-> 0]).refs = References(s, v, period)

\* The simulation's ReferenceCountInvariant, record by record: a historical record is
\* counted, and kept, exactly as long as some delegation, slash event or the running
\* period refers to it, and every delegation has a starting point.
ReferencesExact == ReferencesIn(store)

\* The simulation's CanWithdrawInvariant, at all times and for every delegation by itself:
\* no sanity check of the keeper, of the stake or of a record, stands in the way of its
\* rewards, nor has one ever failed in the middle of a block.
CanWithdraw ==
    /\ store.panics = {}
    /\ \A key \in DOMAIN store.delegations :
           WithdrawDelegationRewards(store, key[1], key[2], height).panics = {}

\* What the delegation of the pair key could withdraw now.
Due(key) ==
    calculateDelegationRewards(incrementValidatorPeriod(store, key[2]), key[1], key[2],
                               store.current[key[2]].period, height).rewards

DelegationsTo(v) == {key \in DOMAIN store.delegations : key[2] = v}

\* In whichever order they come, what is outstanding pays the commission of a validator
\* and all of its delegations in full, so that Intersect takes nothing off.  The code is
\* prepared for the contrary ("may happen on the very final digits"); this is about the
\* precision of the run, and validators that are slashed at most once at a height.
Solvent ==
    \A v \in Existing(store) :
        store.outstanding[v] >= store.accumulated[v] + MapThenSumSet(Due, DelegationsTo(v))

\* No coin is made or lost between accounts, pools, rewards, fees and the community, and
\* every validator's rewards are enough for all who have a claim on them.
FundsSound == SupplyAddsUp /\ Solvent

\* What truncation may have taken from a delegation to v: a unit per token in each period,
\* of the stake what a slash's fraction was rounded up by, and the rewards of the token that
\* an unbonding left behind, which belongs to the shares but to no stake.
Truncated(v) ==
    LET tokens == MapThenSumSet(LAMBDA key : store.starting[key].stake, DelegationsTo(v)) \div One + 2
        slashes == Cardinality({key \in DOMAIN store.events : key[1] = v})
        ratio == Ratio(incrementValidatorPeriod(store, v), v, store.current[v].period)
    IN  (store.current[v].period + 1) * tokens + slashes * ((tokens * ratio) \div One) + ops * ratio

\* A delegation gets what it would have got had every block's rewards been divided among
\* the delegations at once, by their shares of that block, but for truncation: nothing for
\* a time it was not there, nothing twice, and no more than its slashed part.
FairShares ==
    \A key \in DOMAIN store.delegations :
        LET got == store.paid[key] + Due(key)
        IN  /\ got =< store.earned[key] + 2 * height
            /\ got >= store.earned[key] - Truncated(key[2])

\* A state in which nothing is owed to anybody.
PaidOut(s) ==
    /\ s.panics = {}
    /\ SupplyIn(s) /\ ReferencesIn(s)
    /\ \A v \in Validators : s.outstanding[v] = 0

\* After any block the state can be exported for a chain that starts at height zero: no
\* withdrawal on the way panics, nothing is left outstanding or lost, and the new records
\* are referred to as they should be.
ZeroHeightSound == phase = "committed" => PaidOut(prepForZeroHeightGenesis(store))
=============================================================================
