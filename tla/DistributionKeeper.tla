------------------------ MODULE DistributionKeeper ------------------------
(***************************************************************************)
(* The reward accounting of x/distribution and the minting that feeds it    *)
(* (src/x/distribution/keeper, src/x/mint), as functions of a store s with  *)
(* the fields of DelegationKeeper and                                       *)
(*   hist         ValidatorHistoricalRewards, by <<validator, period>>:     *)
(*                the rewards per token up to the end of the period, and    *)
(*                how many records refer to it                              *)
(*   current      ValidatorCurrentRewards: rewards of the running period    *)
(*   accumulated  commission not withdrawn yet                              *)
(*   outstanding  everything not withdrawn yet                              *)
(*   starting     DelegatorStartingInfo, by <<delegator, validator>>        *)
(*   events       ValidatorSlashEvents, by <<validator, height>>            *)
(*   community, fees   the fee pool, and the collected fees                 *)
(*   withdrawAddr the account that a delegator's rewards go to              *)
(*   inflation    of the minter                                             *)
(*   panics       the sanity checks that failed: "stake", the one of the    *)
(*                recalculated stake, and "record", all others              *)
(* There is one denomination, so DecCoins are Decs.                         *)
(***************************************************************************)
EXTENDS DelegationKeeper

CONSTANTS
    CommunityTax, BaseProposerReward, BonusProposerReward,  \* Params of x/distribution
    Commission,                                             \* by validator
    InflationRateChange, InflationMax, InflationMin, GoalBonded, BlocksPerYear  \* of x/mint

Rates == 0..One

ASSUME DistributionAssumption ==
    /\ CommunityTax \in Rates /\ BaseProposerReward \in Rates /\ BonusProposerReward \in Rates
    /\ CommunityTax + BaseProposerReward + BonusProposerReward =< One
    /\ Commission \in [Validators -> Rates]
    /\ InflationRateChange \in Nat /\ GoalBonded \in Rates \ {0} /\ BlocksPerYear \in Nat \ {0}
    /\ InflationMin \in Nat /\ InflationMax \in Nat /\ InflationMin =< InflationMax

NoRewards == [rewards |-> 0, period |-> 0]

\* A sanity check of the keeper that panics when bad holds.
Check(s, bad) == [s EXCEPT !.panics = IF bad THEN @ \cup {"record"} ELSE @]
-----------------------------------------------------------------------------
(* Periods and the references to them *)

\* Reading a record that is not there panics.
Ratio(s, v, period) == Get(s.hist, <<v, period>>, [ratio |-> 0, refs |-> 0]).ratio
Kept(s, v, period) == <<v, period>> \in DOMAIN s.hist

incrementReferenceCount(s, v, period) ==
    IF ~Kept(s, v, period) \/ s.hist[<<v, period>>].refs > 2 THEN Check(s, TRUE)
    ELSE [s EXCEPT !.hist[<<v, period>>].refs = @ + 1]

decrementReferenceCount(s, v, period) ==
    IF ~Kept(s, v, period) THEN Check(s, TRUE)
    ELSE IF s.hist[<<v, period>>].refs = 1 THEN [s EXCEPT !.hist = Without(@, {<<v, period>>})]
    ELSE [s EXCEPT !.hist[<<v, period>>].refs = @ - 1]

initializeValidator(s, v) ==
    [s EXCEPT !.hist = Put(@, <<v, 0>>, [ratio |-> 0, refs |-> 1]),
              !.current[v] = [rewards |-> 0, period |-> 1],
              !.accumulated[v] = 0,
              !.outstanding[v] = 0]

\* The rewards of a validator without tokens go to the community pool.
Forfeit(s, v) ==
    [Check(s, s.outstanding[v] < s.current[v].rewards) EXCEPT
        !.community = @ + s.current[v].rewards,
        !.outstanding[v] = @ - s.current[v].rewards]

\* Ends the running period, with ratio added to the rewards per token.
EndPeriod(s, v, ratio) ==
    LET cur == s.current[v]
    IN  [decrementReferenceCount(s, v, cur.period - 1) EXCEPT
            !.hist = Put(@, <<v, cur.period>>,
                         [ratio |-> Ratio(s, v, cur.period - 1) + ratio, refs |-> 1]),
            !.current[v] = [rewards |-> 0, period |-> cur.period + 1]]

incrementValidatorPeriod(s, v) ==
    LET tokens == s.validators[v].tokens
    IN  IF tokens = 0 THEN EndPeriod(Forfeit(s, v), v, 0)
        ELSE EndPeriod(s, v, QuoTruncate(s.current[v].rewards, NewDec(tokens)))
-----------------------------------------------------------------------------
(* Delegations *)

ShareTokensTruncated(val, shares) == QuoTruncate(MulInt(shares, val.tokens), val.shares)

\* The period has been ended before.
initializeDelegation(s, d, v, height) ==
    LET previous == s.current[v].period - 1
        stake    == ShareTokensTruncated(s.validators[v], s.delegations[<<d, v>>])
    IN  [incrementReferenceCount(s, v, previous) EXCEPT
            !.starting = Put(@, <<d, v>>,
                             [period |-> previous, stake |-> stake, height |-> height])]

\* calculateDelegationRewardsBetween, added to what acc has.
RewardsUpTo(s, v, acc, period) ==
    LET difference == Ratio(s, v, period) - Ratio(s, v, acc.period)
    IN  [acc EXCEPT
            !.rewards = @ + MulTruncate(difference, acc.stake),
            !.bad = \/ @ \/ acc.period > period \/ difference < 0
                    \/ ~Kept(s, v, acc.period) \/ ~Kept(s, v, period)]

\* Mutant: the rewards of a slashed delegation go on as if it had not been.
SlashedAtUnheeded(s, v, acc, height) == acc

\* One slash event on the way: it ends the interval, and reduces the stake.
SlashedAt(s, v, acc, height) ==
    LET event == s.events[<<v, height>>]
    IN  IF <<v, height>> \in DOMAIN s.events /\ event.period > acc.period
        THEN [RewardsUpTo(s, v, acc, event.period) EXCEPT
                 !.stake = MulTruncate(@, One - event.fraction), !.period = event.period]
        ELSE acc

\* The stake that is left of d's delegation, and its rewards, before the last interval.
SinceStart(s, d, v, height) ==
    LET info == s.starting[<<d, v>>]
        up   == [i \in 1..(height - info.height + 1) |-> info.height + i - 1]
    IN  FoldLeft(LAMBDA acc, h : SlashedAt(s, v, acc, h),
                 [rewards |-> 0, stake |-> info.stake, period |-> info.period, bad |-> FALSE], up)

\* How much of the stake that is left exceeds what the delegation is worth now: the
\* stake sanity check panics when there is any.
Excess(s, d, v, stake) == stake - ShareTokens(s.validators[v], s.delegations[<<d, v>>])

\* The rewards, and whether a check fails, from what the slash events left.
Final(s, d, v, acc, ending) ==
    LET all == RewardsUpTo(s, v, acc, ending)
    IN  [rewards |-> all.rewards, bad |-> all.bad, excess |-> Excess(s, d, v, acc.stake)]

\* None are due where the delegation started at this height.
calculateDelegationRewards(s, d, v, ending, height) ==
    IF s.starting[<<d, v>>].height = height
    THEN [rewards |-> 0, bad |-> FALSE, excess |-> 0]
    ELSE Final(s, d, v, SinceStart(s, d, v, height), ending)

\* Mutant: the fraction of a coin is paid to nobody.
PayLosing(s, d, v, rewards) ==
    [s EXCEPT !.outstanding[v] = @ - rewards,
              !.coins[s.withdrawAddr[d]] = @ + TruncateInt(rewards),
              !.paid[<<d, v>>] = @ + rewards,
              !.starting = Without(@, {<<d, v>>})]

\* Whole coins to the account and the remainder to the community pool; paid is the history
\* of what was withdrawn.
Pay(s, d, v, rewards) ==
    [s EXCEPT !.outstanding[v] = @ - rewards,
              !.community = @ + rewards - NewDec(TruncateInt(rewards)),
              !.coins[s.withdrawAddr[d]] = @ + TruncateInt(rewards),
              !.paid[<<d, v>>] = @ + rewards,
              !.starting = Without(@, {<<d, v>>})]

\* raw is what was calculated; no more is paid than is outstanding.
PayRaw(s, d, v, raw) ==
    Pay([Check(decrementReferenceCount(s, v, s.starting[<<d, v>>].period), raw.bad) EXCEPT
            !.panics = IF raw.excess > 0 THEN @ \cup {"stake"} ELSE @],
        d, v, Min({raw.rewards, s.outstanding[v]}))

\* After the period ending has ended.
WithdrawEnded(s, d, v, ending, height) ==
    PayRaw(s, d, v, calculateDelegationRewards(s, d, v, ending, height))

withdrawDelegationRewards(s, d, v, height) ==
    IF <<d, v>> \notin DOMAIN s.starting THEN Check(s, TRUE)
    ELSE WithdrawEnded(incrementValidatorPeriod(s, v), d, v, s.current[v].period, height)

WithdrawDelegationRewards(s, d, v, height) ==
    initializeDelegation(withdrawDelegationRewards(s, d, v, height), d, v, height)

\* The remainder stays with the validator.
WithdrawValidatorCommission(s, v) ==
    LET coins == TruncateInt(s.accumulated[v])
    IN  [Check(s, s.outstanding[v] < NewDec(coins)) EXCEPT
            !.accumulated[v] = @ - NewDec(coins),
            !.outstanding[v] = @ - NewDec(coins),
            !.coins[s.withdrawAddr[v]] = @ + coins]
-----------------------------------------------------------------------------
(* The hooks that x/staking calls, and the operations of its keeper with them *)

AfterValidatorRemoved(s, v) ==
    LET coins == TruncateInt(s.accumulated[v])
    IN  [Check(s, s.outstanding[v] < s.accumulated[v]) EXCEPT
            !.community = @ + s.outstanding[v] - NewDec(coins),
            !.coins[s.withdrawAddr[v]] = @ + coins,
            !.outstanding[v] = 0, !.accumulated[v] = 0, !.current[v] = NoRewards,
            !.events = Without(@, {key \in DOMAIN @ : key[1] = v}),
            !.hist = Without(@, {key \in DOMAIN @ : key[1] = v}),
            !.earned = [key \in DOMAIN @ |-> IF key[2] = v THEN 0 ELSE @[key]],
            !.paid = [key \in DOMAIN @ |-> IF key[2] = v THEN 0 ELSE @[key]]]

\* The slash event of this height.
Recorded(s, v, before, fraction, height) ==
    [s EXCEPT !.events = Put(@, <<v, height>>,
        [period   |-> s.current[v].period - 1,
         fraction |-> One - Mul(One - before, One - fraction)])]

\* Mutant: the event does not count as a reference to its period.
updateUncounted(s, v, fraction, height) ==
    Recorded(incrementValidatorPeriod(s, v), v, 0, fraction, height)

\* BeforeValidatorSlashed.  A second slash at a height is merged into the first.
updateValidatorSlashFraction(s, v, fraction, height) ==
    IF <<v, height>> \in DOMAIN s.events
    THEN Recorded(s, v, s.events[<<v, height>>].fraction, fraction, height)
    ELSE Recorded(incrementReferenceCount(incrementValidatorPeriod(s, v), v, s.current[v].period),
                  v, 0, fraction, height)

\* Mutant: a new delegation shares in the rewards of the running period.
BeforeDelegationUnended(s, d, v, height) ==
    IF <<d, v>> \in DOMAIN s.delegations THEN withdrawDelegationRewards(s, d, v, height) ELSE s

\* The hook that comes before a delegation is created or its shares are modified.
BeforeDelegation(s, d, v, height) ==
    IF <<d, v>> \in DOMAIN s.delegations THEN withdrawDelegationRewards(s, d, v, height)
    ELSE incrementValidatorPeriod(s, v)

\* Keeper.Delegate after that hook, the account aside.
DelegateHooked(s, d, v, amount, height) ==
    initializeDelegation(AddDelegation(s, d, v, amount), d, v, height)

\* The parts of Keeper.unbond after its hook.
JailBelow(s, d, v, left) ==
    IF d = v /\ BelowMinimum(s.validators[v], left) THEN jailValidator(s, v) ELSE s

Restarted(s, d, v, height) ==
    IF <<d, v>> \in DOMAIN s.delegations THEN initializeDelegation(s, d, v, height) ELSE s

RemoveEmpty(s, v) ==
    IF s.validators[v].shares = 0 /\ s.validators[v].status = "Unbonded"
    THEN AfterValidatorRemoved(RemoveValidator(s, v), v)
    ELSE s

\* The delegation is given left shares.
Reduced(s, d, v, left, height) ==
    Restarted(SetDelegation(JailBelow(s, d, v, left), d, v, left), d, v, height)

\* Keeper.unbond.  The new stake is taken before the tokens leave the validator.
unbondHooked(s, d, v, shares, height) ==
    RemoveEmpty(RemoveValidatorTokensAndShares(
                    Reduced(withdrawDelegationRewards(s, d, v, height), d, v,
                            s.delegations[<<d, v>>] - shares, height),
                    v, shares), v)

\* One round of slashRedelegation.
slashRedelegationHooked(acc, x, factor, height) ==
    LET s      == acc.store
        shares == Min({Get(s.delegations, <<x.d, x.dst>>, 0), Mul(factor, x.entry.sharesDst)})
    IN  [total |-> acc.total + SlashAmount(x.entry, factor),
         store |-> IF shares = 0 THEN s
                   ELSE [unbondHooked(s, x.d, x.dst, shares, height) EXCEPT
                            !.notBonded = @ - IssuedTokens(s.validators[x.dst], shares)]]

\* The validator's own part of Keeper.Slash, with the fraction that it is of the tokens.
BurnHooked(s, v, burn, height) ==
    LET tokens == s.validators[v].tokens
    IN  RemoveValidatorTokens(
            IF tokens = 0 THEN s
            ELSE updateValidatorSlashFraction(s, v,
                     Min({One, QuoRoundUp(NewDec(burn), NewDec(tokens))}), height),
            v, burn)

\* What the slashed entries leave of the amount, from the validator.
BurnRest(red, v, amount, height) ==
    BurnHooked(red.store, v, Max({0, Min({amount - red.total, red.store.validators[v].tokens})}),
               height)

\* Keeper.Slash of a validator that is not unbonded.
SlashHooked(s, v, infraction, power, factor, now, height) ==
    BurnRest(FoldLeft(LAMBDA acc, x : slashRedelegationHooked(acc, x, factor, height),
                      slashUnbondingDelegations(s, v, infraction, factor, now),
                      RedelegationsFrom(s, v, infraction, now)),
             v, TruncateInt(Mul(NewDec(power * PowerReduction), factor)), height)
-----------------------------------------------------------------------------
(* The beginning of a block *)

NextInflationRate(s) ==
    LET supply == s.bonded + s.notBonded
        ratio  == IF supply > 0 THEN QuoInt(NewDec(s.bonded), supply) ELSE 0
        change == Quo(Mul(One - Quo(ratio, GoalBonded), InflationRateChange), NewDec(BlocksPerYear))
    IN  Max({InflationMin, Min({InflationMax, s.inflation + change})})

\* The BeginBlocker of x/mint: NextAnnualProvisions and BlockProvision.
Mint(s) ==
    LET inflation == NextInflationRate(s)
        minted == TruncateInt(QuoInt(MulInt(inflation, s.bonded + s.notBonded), BlocksPerYear))
    IN  [s EXCEPT !.inflation = inflation, !.fees = @ + minted, !.notBonded = @ + minted]

\* What every delegation of v is to get of tokens, were it paid at once.
Earned(s, v, tokens) ==
    [key \in DOMAIN s.earned |->
        s.earned[key] + IF key[2] = v /\ key \in DOMAIN s.delegations /\ s.validators[v].tokens > 0
                        THEN (tokens * s.delegations[key]) \div s.validators[v].shares ELSE 0]

\* earned is the history of what the delegations were to get.
AllocateTokensToValidator(s, v, tokens) ==
    LET commission == Mul(tokens, Commission[v])
    IN  [Check(s, s.validators[v].status = "None") EXCEPT
            !.accumulated[v] = @ + commission,
            !.current[v].rewards = @ + tokens - commission,
            !.outstanding[v] = @ + tokens,
            !.earned = Earned(s, v, tokens - commission)]

\* One payment, out of what is left.
Allot(acc, v, amount) ==
    [store |-> AllocateTokensToValidator(acc.store, v, amount), left |-> acc.left - amount]

\* The rest is for the community.
Leave(acc) == [acc.store EXCEPT !.community = @ + acc.left]

\* To the proposer of the last block and, whether they signed it or not, to those who
\* were to sign it, by their power.
AllocateTokens(s, power, signers, proposer) ==
    LET fees  == NewDec(s.fees)
        Sum(vs) == MapThenSumSet(LAMBDA v : power[v], vs)
        total == Sum(Validators)
        share == BaseProposerReward
                 + MulTruncate(BonusProposerReward, Quo(NewDec(Sum(signers)), NewDec(total)))
        reward(v) == MulTruncate(MulTruncate(fees, One - share - CommunityTax),
                                 QuoTruncate(NewDec(power[v]), NewDec(total)))
        none  == [store |-> [s EXCEPT !.fees = 0], left |-> fees]
    IN  Leave(IF total = 0 THEN none
              ELSE FoldLeft(LAMBDA acc, v : Allot(acc, v, Min({acc.left, reward(v)})),
                            IF s.validators[proposer].status = "None" THEN none
                            ELSE Allot(none, proposer, MulTruncate(fees, share)),
                            SetToSortSeq({v \in Validators : power[v] > 0}, <)))
=============================================================================
