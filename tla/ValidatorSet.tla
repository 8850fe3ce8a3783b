---------------------------- MODULE ValidatorSet ----------------------------
(***************************************************************************)
(* The life of validators: what the messages, the slashing module and the  *)
(* end of a block do to the validators of the staking store, and the       *)
(* validator set that Tendermint derives from the updates it is given.     *)
(*                                                                         *)
(* Of the delegations of a validator the operator's own is kept apart      *)
(* (self), because leaving it jails the validator; the other delegators    *)
(* hold the rest of the validator's shares.  Accounts and unbonding        *)
(* delegations are one amount, loose.  The Staking module has both in      *)
(* full.                                                                   *)
(***************************************************************************)
EXTENDS ValidatorKeeper

CONSTANTS
    Genesis,     \* self-delegations of the genesis transactions, 0 for none
    Supply,      \* tokens left in the accounts at genesis
    Amounts,     \* amounts delegated
    ShareInputs, \* amounts of shares taken out, besides all of them
    MinSelfs,    \* minimum self-delegations declared
    TimeSteps,   \* block time minus the last block's
    MaxHeight,   \* bound: heights explored
    MaxOps       \* bound: messages and punishments explored

ASSUME InputAssumption ==
    /\ Genesis \in [Validators -> Nat]
    /\ Supply \in Nat
    /\ Amounts \subseteq Nat \ {0}
    /\ ShareInputs \subseteq Nat \ {0}
    /\ MinSelfs \subseteq Nat \ {0}
    /\ TimeSteps \subseteq Nat
    /\ MaxHeight \in Nat /\ MaxOps \in Nat

VARIABLES
    keeper,  \* the store, as in ValidatorKeeper
    self,    \* shares of the operator's own delegation
    loose,   \* tokens in accounts and unbonding delegations
    tm,      \* power of every validator for Tendermint, 0 outside of its set
    now, height,
    phase,   \* "begin", "deliver" or "committed"
    ops      \* messages and punishments so far

vars == <<keeper, self, loose, tm, now, height, phase, ops>>

Val(v) == keeper.validators[v]

\* The store after the genesis transactions, before the first update.
Init ==
    LET created == {v \in Validators : Genesis[v] > 0}
    IN  /\ keeper =
             [validators |-> [v \in Validators |->
                  IF v \in created
                  THEN [NewValidator(1) EXCEPT !.tokens = Genesis[v], !.shares = NewDec(Genesis[v])]
                  ELSE NoValidator],
              index |-> {<<Genesis[v], v>> : v \in created},
              queue |-> {},
              last |-> [v \in Validators |-> 0], lastTotal |-> 0,
              bonded |-> 0,
              notBonded |-> Supply + MapThenSumSet(LAMBDA v : Genesis[v], Validators)]
        /\ self = [v \in Validators |-> NewDec(Genesis[v])]
        /\ loose = Supply
        /\ tm = [v \in Validators |-> 0]
        /\ now = 0 /\ height = 0 /\ phase = "deliver" /\ ops = 0
-----------------------------------------------------------------------------
(* Messages *)

Counted == ops < MaxOps /\ ops' = ops + 1

Delivering ==
    /\ height > 0 /\ phase # "committed" /\ phase' = "deliver"
    /\ Counted
    /\ UNCHANGED <<tm, now, height>>

Punishing ==
    /\ phase = "begin"
    /\ Counted
    /\ UNCHANGED <<loose, tm, now, height, phase>>

\* handleMsgCreateValidator; ValidateBasic wants amount >= minSelf.
CreateValidator(v, amount, minSelf) ==
    /\ Delivering
    /\ Val(v).status = "None"
    /\ minSelf =< amount /\ amount =< loose
    /\ keeper' = AddValidatorTokensAndShares(AddNewValidator(keeper, v, minSelf), v, amount)
    /\ self' = [self EXCEPT ![v] = NewDec(amount)]
    /\ loose' = loose - amount

\* The editing of MinSelfDelegation in handleMsgEditValidator.
EditValidator(v, minSelf) ==
    /\ Delivering
    /\ Val(v).status # "None"
    /\ minSelf > Val(v).minSelf /\ minSelf =< Val(v).tokens
    /\ keeper' = [keeper EXCEPT !.validators[v].minSelf = minSelf]
    /\ UNCHANGED <<self, loose>>

\* Keeper.Delegate, by the operator or by someone else.
Delegate(v, amount, operator) ==
    /\ Delivering
    /\ Val(v).status # "None" /\ ~InvalidExRate(Val(v))
    /\ amount =< loose
    /\ keeper' = AddValidatorTokensAndShares(keeper, v, amount)
    /\ self' = IF operator THEN [self EXCEPT ![v] = @ + IssuedShares(Val(v), amount)] ELSE self
    /\ loose' = loose - amount

\* What the operator, or everybody else, can take out of v.
Held(v, operator) == IF operator THEN self[v] ELSE Val(v).shares - self[v]

\* The jailing of a validator whose operator keeps only left shares.
JailedBelowMinimum(k, v, left) ==
    IF ~k.validators[v].jailed
           /\ TruncateInt(ShareTokens(k.validators[v], left)) < k.validators[v].minSelf
    THEN jailValidator(k, v) ELSE k

\* Mutant: an emptied validator is never removed.
KeepEmptied(k, v) == k

\* The removal of an unbonded validator without shares.
RemoveEmptied(k, v) ==
    IF k.validators[v].shares = 0 /\ k.validators[v].status = "Unbonded"
    THEN RemoveValidator(k, v) ELSE k

\* Keeper.unbond
unbond(v, shares, operator) ==
    LET k == IF operator THEN JailedBelowMinimum(keeper, v, self[v] - shares) ELSE keeper
    IN  RemoveEmptied(RemoveValidatorTokensAndShares(k, v, shares), v)

RemainingSelf(v, shares, operator) ==
    IF operator THEN [self EXCEPT ![v] = @ - shares] ELSE self

\* Undelegate, and the first half of BeginRedelegation.
Undelegate(v, shares, operator) ==
    /\ Delivering
    /\ shares =< Held(v, operator)
    /\ keeper' = unbond(v, shares, operator)
    /\ self' = RemainingSelf(v, shares, operator)
    /\ loose' = loose + IssuedTokens(Val(v), shares)

\* handleMsgUnjail, whenever the signing info allows it.
Unjail(v) ==
    /\ Delivering
    /\ Val(v).status # "None" /\ Val(v).jailed
    /\ self[v] > 0 /\ TruncateInt(ShareTokens(Val(v), self[v])) >= Val(v).minSelf
    /\ keeper' = unjailValidator(keeper, v)
    /\ UNCHANGED <<self, loose>>
-----------------------------------------------------------------------------
(* Blocks *)

BeginBlock(step) ==
    /\ phase = "committed" /\ height < MaxHeight
    /\ now' = now + step /\ height' = height + 1 /\ phase' = "begin"
    /\ UNCHANGED <<keeper, self, loose, tm, ops>>

\* Slash, and Jail unless already jailed, by the slashing module.
SlashAndJail(v, amount) ==
    /\ Punishing
    /\ Val(v).status \in {"Bonded", "Unbonding"}
    /\ LET burned == IF amount < Val(v).tokens THEN amount ELSE Val(v).tokens
           k      == RemoveValidatorTokens(keeper, v, burned)
       IN  keeper' = IF Val(v).jailed THEN k ELSE jailValidator(k, v)
    /\ UNCHANGED self

\* slashRedelegation, of which v is the destination: the tokens are burned.
SlashRedelegation(v, shares, operator) ==
    /\ Punishing
    /\ shares =< Held(v, operator)
    /\ keeper' = [unbond(v, shares, operator) EXCEPT !.notBonded = @ - IssuedTokens(Val(v), shares)]
    /\ self' = RemainingSelf(v, shares, operator)

\* What Tendermint does with validator updates.
UpdateState(set, updates) ==
    [v \in Validators |-> IF v \in DOMAIN updates THEN updates[v] ELSE set[v]]

\* The validators' part of EndBlocker.
EndBlock ==
    /\ phase # "committed"
    /\ keeper' = UnbondAllMatureValidatorQueue(ApplyValidatorSetUpdates(keeper, now, height), now)
    /\ tm' = UpdateState(tm, ValidatorUpdates(keeper))
    /\ phase' = "committed"
    /\ UNCHANGED <<self, loose, now, height, ops>>

Next ==
    \/ \E v \in Validators :
        \/ \E amount \in Amounts, minSelf \in MinSelfs : CreateValidator(v, amount, minSelf)
        \/ \E minSelf \in MinSelfs : EditValidator(v, minSelf)
        \/ \E amount \in Amounts, operator \in BOOLEAN : Delegate(v, amount, operator)
        \/ \E operator \in BOOLEAN :
            \E shares \in ShareInputs \cup ({Held(v, operator)} \ {0}) :
                \/ Undelegate(v, shares, operator)
                \/ SlashRedelegation(v, shares, operator)
        \/ Unjail(v)
        \/ \E amount \in Amounts : SlashAndJail(v, amount)
    \/ \E step \in TimeSteps : BeginBlock(step)
    \/ EndBlock

Spec == Init /\ [][Next]_vars
-----------------------------------------------------------------------------
(* Properties *)

\* Every amount of the store keeps its type: no operation, rounding included, takes
\* more tokens or shares out of a validator or of the pool than there are.
TypeOK ==
    /\ keeper.validators \in [Validators -> Validator]
    /\ keeper.index \subseteq Nat \X Validators
    /\ keeper.queue \subseteq Nat \X Validators
    /\ keeper.last \in [Validators -> Nat] /\ keeper.lastTotal \in Nat
    /\ keeper.bonded \in Nat /\ keeper.notBonded \in Nat
    /\ self \in [Validators -> Nat] /\ loose \in Nat
    /\ \A v \in Validators : self[v] =< Val(v).shares
    /\ tm \in [Validators -> Nat]
    /\ now \in Nat /\ height \in Nat /\ ops \in Nat
    /\ phase \in {"begin", "deliver", "committed"}

\* The power index holds exactly the validators that are not jailed, each once, under
\* its present tokens, although every operation deletes and rewrites the keys itself.
IndexExact ==
    keeper.index = {<<Val(v).tokens, v>> :
                        v \in {w \in Validators : Val(w).status # "None" /\ ~Val(w).jailed}}

\* The validator queue holds exactly the unbonding validators, each under its own
\* completion time, and at the end of a block nobody whose time has come.
QueueExact ==
    /\ keeper.queue = {<<Val(v).unbondingTime, v>> :
                           v \in {w \in Validators : Val(w).status = "Unbonding"}}
    /\ phase = "committed" => \A e \in keeper.queue : e[1] > now

\* The two indices over the validators hold what the validators call for.
IndicesExact == IndexExact /\ QueueExact

\* Tendermint's validator set, made of all the updates so far, is the set of bonded
\* validators, with the powers of LastValidatorPower, between any two messages.
TendermintAgrees ==
    /\ tm = keeper.last
    /\ \A v \in Validators : keeper.last[v] > 0 <=> Val(v).status = "Bonded"

BondedSet == {v \in Validators : Val(v).status = "Bonded"}
EligibleSet == {v \in Validators : ~Val(v).jailed /\ PotentialTendermintPower(Val(v)) > 0}

\* After every block the bonded validators are the best: at most MaxValidators, none
\* jailed or without power, nobody left out that comes before one of them in tokens
\* (then address); and Tendermint has their current powers.
BestBonded ==
    phase = "committed" =>
        /\ BondedSet \subseteq EligibleSet
        /\ Cardinality(BondedSet) =< MaxValidators
        /\ \A v \in BondedSet : tm[v] = PotentialTendermintPower(Val(v))
        /\ \A v \in BondedSet : \A w \in EligibleSet \ BondedSet :
               Before(<<Val(v).tokens, v>>, <<Val(w).tokens, w>>)

\* After every block no place is free while an eligible validator waits, and
\* LastTotalPower, written only when there are updates, is the power of all.
PlacesFilled ==
    phase = "committed" =>
        /\ EligibleSet \subseteq BondedSet \/ Cardinality(BondedSet) = MaxValidators
        /\ keeper.lastTotal = MapThenSumSet(LAMBDA v : tm[v], Validators)

\* A validator that is not jailed has a self-delegation, and one without shares has
\* no tokens and is on its way out: the tally, which divides by the shares of every
\* bonded validator, and the removal of validators, which panics on tokens, rely on it.
NobodyAbandoned ==
    \A v \in Validators :
        /\ Val(v).status # "None" /\ ~Val(v).jailed => self[v] > 0
        /\ Val(v).shares = 0 => Val(v).tokens = 0 /\ Val(v).status # "Unbonded"

\* EndBlocker never panics, whatever the block has done.
EndBlockSafe ==
    phase # "committed" =>
        /\ ~UpdatesPanic(keeper)
        /\ ~UnbondPanics(ApplyValidatorSetUpdates(keeper, now, height), now)

\* A validator whose votes Tendermint still counts, or counted less than UnbondingTime
\* ago, is neither unbonded nor removed: it can be slashed for what it signed.
StaysSlashable ==
    [][\A v \in Validators :
        Val(v).status \in {"Bonded", "Unbonding"} /\ Val(v)'.status \in {"Unbonded", "None"} =>
            \/ Val(v).status = "Unbonding" /\ now >= Val(v).unbondingTime
            \/ Val(v).status = "Bonded" /\ UnbondingTime = 0]_vars

\* The election as a whole: Tendermint's set is the bonded set at all times, after every
\* block it is the best one and no place is free without need, and no amount that it is
\* decided by has gone below zero.
ElectionSound == TypeOK /\ TendermintAgrees /\ BestBonded /\ PlacesFilled
=============================================================================
