------------------------------ MODULE Staking ------------------------------
(***************************************************************************)
(* Delegators and validators: what the staking messages, the slashing      *)
(* module and the end of a block do to the whole store of x/staking and to *)
(* the delegators' accounts (src/x/staking/handler.go, genesis.go).        *)
(*                                                                         *)
(* ValidatorSet follows the validators alone, with more of them; here they *)
(* carry the stake of single delegators, who leave, move and are slashed   *)
(* after they left.                                                        *)
(***************************************************************************)
EXTENDS DelegationKeeper

CONSTANTS
    Genesis,      \* tokens delegated at genesis by every pair, 0 for none
    Coins,        \* coins left in the accounts at genesis
    Senders,      \* bound: delegators that send messages
    Amounts,      \* bound: amounts delegated
    ShareInputs,  \* bound: amounts of shares taken out, besides all of them
    Factors,      \* bound: slash factors
    TimeSteps,    \* bound: block time minus the last block's
    MaxHeight,    \* bound: heights explored
    MaxOps        \* bound: messages and punishments explored

ASSUME StakingAssumption ==
    /\ Validators \subseteq Delegators /\ Senders \subseteq Delegators
    /\ Genesis \in [Delegators \X Validators -> Nat] /\ Coins \in [Delegators -> Nat]
    /\ Amounts \subseteq Nat \ {0} /\ ShareInputs \subseteq Nat \ {0}
    /\ \A factor \in Factors : factor \in Nat /\ factor =< One
    /\ TimeSteps \subseteq Nat
    /\ MaxHeight \in Nat /\ MaxOps \in Nat

VARIABLES
    store,
    times,   \* the time of every block so far
    powers,  \* LastValidatorPower after every block so far
    phase,   \* "begin", "deliver" or "committed"
    ops      \* messages and punishments so far

vars == <<store, times, powers, phase, ops>>

height == Len(times) - 1
timeOf(h) == times[h + 1]
now == timeOf(height)
Val(v) == store.validators[v]

\* InitGenesis of a file with unbonded validators, and their first election to come.
Init ==
    LET tokens  == [v \in Validators |-> MapThenSumSet(LAMBDA d : Genesis[d, v], Delegators)]
        created == {v \in Validators : tokens[v] > 0}
        pairs   == {key \in Delegators \X Validators : Genesis[key] > 0}
    IN  /\ store =
             [validators |-> [v \in Validators |->
                  IF v \in created
                  THEN [NewValidator(1) EXCEPT !.tokens = tokens[v], !.shares = NewDec(tokens[v])]
                  ELSE NoValidator],
              index |-> {<<tokens[v], v>> : v \in created}, queue |-> {},
              last |-> [v \in Validators |-> 0], lastTotal |-> 0,
              bonded |-> 0,
              notBonded |-> MapThenSumSet(LAMBDA v : tokens[v], Validators)
                            + MapThenSumSet(LAMBDA d : Coins[d], Delegators),
              delegations |-> [key \in pairs |-> NewDec(Genesis[key])],
              ubds |-> <<>>, reds |-> <<>>, ubdQueue |-> {}, redQueue |-> {},
              coins |-> Coins]
        /\ times = <<0>> /\ powers = <<>> /\ phase = "deliver" /\ ops = 0
-----------------------------------------------------------------------------
(* Messages *)

Counted == ops < MaxOps /\ ops' = ops + 1

Delivering ==
    /\ height > 0 /\ phase # "committed" /\ phase' = "deliver"
    /\ Counted
    /\ UNCHANGED <<times, powers>>

\* handleMsgCreateValidator, with a minimum self-delegation of 1.
CreateValidator(v, amount) ==
    /\ Delivering
    /\ Val(v).status = "None" /\ amount =< store.coins[v]
    /\ store' = AddDelegation([AddNewValidator(store, v, 1) EXCEPT !.coins[v] = @ - amount],
                              v, v, amount)

\* handleMsgDelegate
Delegate(d, v, amount) ==
    /\ Delivering
    /\ Val(v).status # "None" /\ ~InvalidExRate(Val(v))
    /\ amount =< store.coins[d]
    /\ store' = AddDelegation([store EXCEPT !.coins[d] = @ - amount], d, v, amount)

\* handleMsgUndelegate
Undelegate(d, v, shares) ==
    /\ Delivering
    /\ shares =< Get(store.delegations, <<d, v>>, 0)
    /\ LET info   == getBeginInfo(store, v, now, height)
           amount == IssuedTokens(Val(v), shares)
           s      == unbond(store, d, v, shares)
       IN  \/ /\ info.completeNow
              /\ store' = [s EXCEPT !.coins[d] = @ + amount]
           \/ /\ ~info.completeNow
              /\ ~HasMaxEntries(store.ubds, <<d, v>>)
              /\ store' = AddUnbondingDelegation(s, d, v, info, amount)

\* handleMsgBeginRedelegate: getBeginInfo looks at the source after it was unbonded from.
BeginRedelegate(d, src, dst, shares) ==
    /\ Delivering
    /\ src # dst
    /\ ~HasReceivingRedelegation(store, d, src)
    /\ ~HasMaxEntries(store.reds, <<d, src, dst>>)
    /\ shares =< Get(store.delegations, <<d, src>>, 0)
    /\ LET amount  == IssuedTokens(Val(src), shares)
           s       == unbond(store, d, src, shares)
           created == IssuedShares(s.validators[dst], amount)
           t       == AddDelegation(s, d, dst, amount)
           info    == getBeginInfo(t, src, now, height)
       IN  /\ amount > 0
           /\ s.validators[dst].status # "None" /\ ~InvalidExRate(s.validators[dst])
           /\ store' = IF info.completeNow THEN t
                       ELSE AddRedelegation(t, d, src, dst, info, amount, created)

\* handleMsgUnjail, whenever the signing info allows it.
Unjail(v) ==
    /\ Delivering
    /\ Val(v).status # "None" /\ Val(v).jailed
    /\ <<v, v>> \in DOMAIN store.delegations
    /\ TruncateInt(ShareTokens(Val(v), store.delegations[<<v, v>>])) >= Val(v).minSelf
    /\ store' = unjailValidator(store, v)
-----------------------------------------------------------------------------
(* Blocks *)

BeginBlock(step) ==
    /\ phase = "committed" /\ height < MaxHeight
    /\ times' = Append(times, now + step) /\ phase' = "begin"
    /\ UNCHANGED <<store, powers, ops>>

\* The power with which v signed the block after infraction: validator updates take
\* effect two blocks later.
PowerAt(v, infraction) == powers[IF infraction = 0 THEN 1 ELSE infraction][v]

\* Slash and Jail by the slashing module, for a block up to UnbondingTime ago; the
\* module passes the height of the stake distribution, one less than the block's.
SlashAndJail(v, infraction, factor) ==
    /\ phase = "begin" /\ Counted
    /\ PowerAt(v, infraction) > 0
    /\ now - timeOf(infraction + 1) =< UnbondingTime
    /\ Val(v).status \in {"Bonded", "Unbonding"}
    /\ LET s == Slash(store, v, infraction, PowerAt(v, infraction), factor, now, height)
       IN  store' = IF Val(v).jailed THEN s ELSE jailValidator(s, v)
    /\ UNCHANGED <<times, powers, phase>>

\* EndBlocker
EndBlock ==
    /\ phase # "committed" /\ phase' = "committed"
    /\ LET s == UnbondAllMatureValidatorQueue(ApplyValidatorSetUpdates(store, now, height), now)
       IN  store' = CompleteRedelegations(CompleteUnbondings(s, now), now)
    /\ powers' = Append(powers, store'.last)
    /\ UNCHANGED <<times, ops>>

\* The amounts of shares that d may take out of v.
Withdrawals(d, v) == (ShareInputs \cup {Get(store.delegations, <<d, v>>, 0)}) \ {0}

Next ==
    \/ \E v \in Validators :
        \/ \E amount \in Amounts : v \in Senders /\ CreateValidator(v, amount)
        \/ Unjail(v)
        \/ \E infraction \in 0..(height - 2), factor \in Factors :
               SlashAndJail(v, infraction, factor)
    \/ \E d \in Senders, v \in Validators :
        \/ \E amount \in Amounts : Delegate(d, v, amount)
        \/ \E shares \in Withdrawals(d, v) : Undelegate(d, v, shares)
        \/ \E shares \in Withdrawals(d, v), dst \in Validators : BeginRedelegate(d, v, dst, shares)
    \/ \E step \in TimeSteps : BeginBlock(step)
    \/ EndBlock

Spec == Init /\ [][Next]_vars
-----------------------------------------------------------------------------
(* Genesis export *)

\* ExportGenesis: the indices and the queues are not exported.
ExportGenesis(s) ==
    [validators |-> s.validators, delegations |-> s.delegations, ubds |-> s.ubds, reds |-> s.reds,
     last |-> s.last, lastTotal |-> s.lastTotal, bonded |-> s.bonded, notBonded |-> s.notBonded]

\* The queue that InitGenesis makes of the entries of f.
Requeue(f) == UNION {{<<f[key][i].completion>> \o key : i \in DOMAIN f[key]} : key \in DOMAIN f}

\* Mutant: the unbonding delegations are not queued again.
InitGenesisUnqueued(g, coins) ==
    LET existing == {v \in Validators : g.validators[v].status # "None"}
    IN  [index |-> UNION {SetValidatorByPowerIndex(v, g.validators[v]) : v \in existing},
         queue |-> {<<g.validators[v].unbondingTime, v>> :
                        v \in {w \in existing : g.validators[w].status = "Unbonding"}},
         ubdQueue |-> {}, redQueue |-> Requeue(g.reds), coins |-> coins] @@ g

\* InitGenesis of an exported state; the accounts are those of x/auth.
InitGenesis(g, coins) ==
    LET existing == {v \in Validators : g.validators[v].status # "None"}
    IN  [index |-> UNION {SetValidatorByPowerIndex(v, g.validators[v]) : v \in existing},
         queue |-> {<<g.validators[v].unbondingTime, v>> :
                        v \in {w \in existing : g.validators[w].status = "Unbonding"}},
         ubdQueue |-> Requeue(g.ubds), redQueue |-> Requeue(g.reds), coins |-> coins] @@ g
-----------------------------------------------------------------------------
(* Properties *)

\* No operation, rounding and slashing included, takes more out of a validator, a
\* delegation, an entry, an account or the pool than there is.
TypeOK ==
    /\ store.validators \in [Validators -> Validator]
    /\ store.index \subseteq Nat \X Validators /\ store.queue \subseteq Nat \X Validators
    /\ store.last \in [Validators -> Nat] /\ store.lastTotal \in Nat
    /\ store.bonded \in Nat /\ store.notBonded \in Nat
    /\ DOMAIN store.delegations \subseteq Delegators \X Validators
    /\ \A key \in DOMAIN store.delegations : store.delegations[key] \in Nat
    /\ DOMAIN store.ubds \subseteq Delegators \X Validators
    /\ \A key \in DOMAIN store.ubds : \A i \in DOMAIN store.ubds[key] :
           /\ store.ubds[key][i] \in UnbondingDelegationEntry
           /\ store.ubds[key][i].balance =< store.ubds[key][i].initial
    /\ DOMAIN store.reds \subseteq Delegators \X Validators \X Validators
    /\ \A key \in DOMAIN store.reds : \A i \in DOMAIN store.reds[key] :
           store.reds[key][i] \in RedelegationEntry
    /\ store.ubdQueue \subseteq Nat \X Delegators \X Validators
    /\ store.redQueue \subseteq Nat \X Delegators \X Validators \X Validators
    /\ store.coins \in [Delegators -> Nat]
    /\ times \in Seq(Nat) /\ powers \in Seq([Validators -> Nat])
    /\ phase \in {"begin", "deliver", "committed"} /\ ops \in 0..MaxOps

CoinsOf(ds) == MapThenSumSet(LAMBDA d : store.coins[d], ds)

UnbondingOf(ds) ==
    MapThenSumSet(LAMBDA key : SumEntries(LAMBDA e : e.balance, store.ubds[key]),
                  {key \in DOMAIN store.ubds : key[1] \in ds})

\* The simulation's SupplyInvariants: the pool's bonded tokens are those of the bonded
\* validators, the others those of the other validators, of the unbonding delegations
\* and of the accounts, whatever moved between them or was burned by a slash; and the
\* end of the block moves no more between the two than there is.
SupplyKept ==
    /\ phase # "committed" => ~PoolPanics(store)
    /\ store.bonded = TokensOf(store, {v \in Validators : Val(v).status = "Bonded"})
    /\ store.notBonded = CoinsOf(Delegators) + UnbondingOf(Delegators)
                         + TokensOf(store, {v \in Validators : Val(v).status # "Bonded"})

\* The simulation's DelegatorSharesInvariant and PositiveDelegationInvariant: the shares
\* of a validator are exactly those of its delegations, none of which is empty and none
\* of which outlives its validator, also when a slash unbonds them.
SharesAddUp ==
    /\ \A v \in Validators :
           Val(v).shares = MapThenSumSet(LAMBDA key : store.delegations[key],
                                         {key \in DOMAIN store.delegations : key[2] = v})
    /\ \A key \in DOMAIN store.delegations : store.delegations[key] > 0

\* Whatever the state of the validator was when stake left it, the entry's height and
\* completion time belong together: UnbondingTime after the block of the height.  Slash
\* selects by the height, and relies on every entry that old being gone.  MaxEntries
\* bounds every unbonding delegation and redelegation, and no empty one is kept.
EntryWindow ==
    LET entries(f) == UNION {Range(f[key]) : key \in DOMAIN f}
    IN  /\ \A f \in {store.ubds, store.reds} : \A key \in DOMAIN f :
               Len(f[key]) \in 1..MaxEntries
        /\ \A e \in entries(store.ubds) \cup entries(store.reds) :
               /\ e.completion = timeOf(e.height) + UnbondingTime
               /\ phase = "committed" => e.completion > now

\* After every block an export of the state and its import give back the same store:
\* every key of the power index and of the three queues, which are not exported, can be
\* derived from the records, so none of them is missing, left over or under another time.
ExportComplete ==
    phase = "committed" => InitGenesis(ExportGenesis(store), store.coins) = store

\* What d owns: coins, unbonding delegations, and whole tokens of every delegation.
Wealth(d) ==
    CoinsOf({d}) + UnbondingOf({d})
    + MapThenSumSet(LAMBDA key : TruncateInt(ShareTokens(Val(key[2]), store.delegations[key])),
                    {key \in DOMAIN store.delegations : key[1] = d})

\* d had stake with v that a slash of v may reach.
Involved(d, v) ==
    \/ <<d, v>> \in DOMAIN store.delegations \cup DOMAIN store.ubds
    \/ \E key \in DOMAIN store.reds : key[1] = d /\ key[2] = v

\* No message of anybody and no end of a block, whatever it rounds, gives or takes more
\* than one token to or from any delegator; nor does a slash, of anybody without stake in
\* the validator.  Only slashing destroys wealth, and only that of those who backed it.
ValueKept ==
    [][\A d \in Delegators :
        \/ Wealth(d)' - Wealth(d) \in {-1, 0, 1}
        \/ phase = "begin" /\ phase' = "begin" /\
           \E v \in Validators, infraction \in 0..(height - 2), factor \in Factors :
               SlashAndJail(v, infraction, factor) /\ Involved(d, v)]_vars

\* A slash of v spares what left v before the infraction, the entries of other
\* validators, and of the delegations to others all but the slashed part of what was
\* redelegated there since.
SlashReach ==
    [][\A v \in Validators, infraction \in 0..(height - 2), factor \in Factors :
        phase = "begin" /\ phase' = "begin" /\ SlashAndJail(v, infraction, factor) =>
            /\ \A key \in DOMAIN store.ubds : \A i \in DOMAIN store.ubds[key] :
                   key[2] # v \/ store.ubds[key][i].height < infraction =>
                       store'.ubds[key][i] = store.ubds[key][i]
            /\ \A key \in DOMAIN store.delegations :
                   LET entries == Get(store.reds, <<key[1], v, key[2]>>, <<>>)
                       slashed(e) == IF e.height >= infraction THEN Mul(factor, e.sharesDst) ELSE 0
                   IN  Get(store'.delegations, key, 0) >=
                           store.delegations[key] - SumEntries(slashed, entries)]_vars
\* The records of staking are sound after every step: no amount is overdrawn, the pool and
\* the shares add up as the simulation's invariants demand, and every entry of an unbonding
\* delegation or redelegation lives for the window in which a slash can reach it.
RecordsSound == TypeOK /\ SupplyKept /\ SharesAddUp /\ EntryWindow

-----------------------------------------------------------------------------
(* Said of the system, and not so *)

\* The comment of Slash: it finds the contributing stake and burns the factor of it.  At
\* least when the validator itself still has that much and was not punished before.
FactorBurned ==
    [][\A v \in Validators, infraction \in 0..(height - 2), factor \in Factors :
        LET amount == TruncateInt(Mul(NewDec(PowerAt(v, infraction) * PowerReduction), factor))
        IN  phase = "begin" /\ phase' = "begin" /\ SlashAndJail(v, infraction, factor)
                /\ Val(v).tokens >= amount /\ ~Val(v).jailed =>
            store.bonded + store.notBonded - store'.bonded - store'.notBonded >= amount]_vars
=============================================================================
