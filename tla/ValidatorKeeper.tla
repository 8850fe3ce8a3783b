-------------------------- MODULE ValidatorKeeper --------------------------
(***************************************************************************)
(* The validators of the staking store and the keeper's operations on them *)
(* (src/x/staking/keeper/validator.go, val_state_change.go, slash.go and   *)
(* src/x/staking/types/validator.go, pool.go), as functions of a store k,  *)
(* a record with at least the fields                                       *)
(*   validators  the validator of every operator address                   *)
(*   index       the ValidatorsByPower index: pairs <<tokens, operator>>   *)
(*   queue       the ValidatorQueue: pairs <<completion time, operator>>   *)
(*   last        LastValidatorPower, 0 where there is none                 *)
(*   lastTotal   LastTotalPower                                            *)
(*   bonded, notBonded   the Pool                                          *)
(* Operator addresses are numbers, ordered as the addresses are.           *)
(***************************************************************************)
EXTENDS Dec, FiniteSetsExt

CONSTANTS
    Validators,      \* operator addresses
    MaxValidators,   \* Params
    UnbondingTime,
    PowerReduction   \* tokens per unit of Tendermint power

ASSUME ValidatorAssumption ==
    /\ Validators \subseteq Nat /\ IsFiniteSet(Validators)
    /\ MaxValidators \in Nat
    /\ UnbondingTime \in Nat
    /\ PowerReduction \in Nat \ {0}

Statuses == {"Unbonded", "Unbonding", "Bonded"}

\* A Validator, without its commission, description and key; status "None" is an
\* operator without a validator.
Validator == [status : Statuses \cup {"None"}, jailed : BOOLEAN, tokens : Nat, shares : Nat,
              minSelf : Nat, unbondingHeight : Nat, unbondingTime : Nat]

NoValidator == [status |-> "None", jailed |-> FALSE, tokens |-> 0, shares |-> 0,
                minSelf |-> 0, unbondingHeight |-> 0, unbondingTime |-> 0]

NewValidator(minSelf) == [NoValidator EXCEPT !.status = "Unbonded", !.minSelf = minSelf]

PotentialTendermintPower(val) == val.tokens \div PowerReduction

InvalidExRate(val) == val.tokens = 0 /\ val.shares > 0

ShareTokens(val, shares) == Quo(MulInt(shares, val.tokens), val.shares)
-----------------------------------------------------------------------------
(* The pool and the power index *)

\* bondedTokensToNotBonded when amount is negative.
notBondedTokensToBonded(k, amount) ==
    [k EXCEPT !.bonded = @ + amount, !.notBonded = @ - amount]

\* Mutant: jailed validators are kept in the power index.
IndexedAlways(v, val) == {<<val.tokens, v>>}

\* What SetValidatorByPowerIndex writes.
SetValidatorByPowerIndex(v, val) == IF val.jailed THEN {} ELSE {<<val.tokens, v>>}

\* Mutant: the old record's key stays in the power index.
ReplaceStale(k, v, val) ==
    [k EXCEPT !.validators[v] = val,
              !.index = @ \cup SetValidatorByPowerIndex(v, val)]

\* DeleteValidatorByPowerIndex of the old record, SetValidator and
\* SetValidatorByPowerIndex of the new one.
ReplaceValidator(k, v, val) ==
    [k EXCEPT !.validators[v] = val,
              !.index = (@ \ {<<k.validators[v].tokens, v>>})
                        \cup SetValidatorByPowerIndex(v, val)]

\* The move of v's tokens within the pool when they come (or, negative, go).
Pooled(k, v, amount) ==
    IF k.validators[v].status = "Bonded" THEN notBondedTokensToBonded(k, amount) ELSE k

\* AddTokensFromDel
IssuedShares(val, amount) ==
    IF val.shares = 0 THEN NewDec(amount) ELSE QuoInt(MulInt(val.shares, amount), val.tokens)

AddValidatorTokensAndShares(k, v, amount) ==
    LET val == k.validators[v]
    IN  ReplaceValidator(Pooled(k, v, amount), v,
            [val EXCEPT !.tokens = @ + amount, !.shares = @ + IssuedShares(val, amount)])

\* RemoveDelShares
IssuedTokens(val, shares) ==
    IF shares = val.shares THEN val.tokens ELSE TruncateInt(ShareTokens(val, shares))

RemoveValidatorTokensAndShares(k, v, shares) ==
    LET val    == k.validators[v]
        issued == IssuedTokens(val, shares)
    IN  ReplaceValidator(Pooled(k, v, -issued), v,
            [val EXCEPT !.tokens = @ - issued, !.shares = @ - shares])

\* RemoveValidatorTokens and the burning of the tokens by Slash.
RemoveValidatorTokens(k, v, amount) ==
    LET val == k.validators[v]
    IN  ReplaceValidator([Pooled(k, v, -amount) EXCEPT !.notBonded = @ - amount], v,
                         [val EXCEPT !.tokens = @ - amount])

RemoveValidator(k, v) ==
    [k EXCEPT !.validators[v] = NoValidator,
              !.index = @ \ {<<k.validators[v].tokens, v>>}]

\* CreateValidator before the self-delegation.
AddNewValidator(k, v, minSelf) ==
    [k EXCEPT !.validators[v] = NewValidator(minSelf), !.index = @ \cup {<<0, v>>}]

jailValidator(k, v) ==
    [k EXCEPT !.validators[v].jailed = TRUE,
              !.index = @ \ {<<k.validators[v].tokens, v>>}]

unjailValidator(k, v) ==
    [k EXCEPT !.validators[v].jailed = FALSE,
              !.index = @ \cup {<<k.validators[v].tokens, v>>}]
-----------------------------------------------------------------------------
(* The end of a block *)

\* The reverse iteration of the index: more tokens first, then the lower address.
Before(e, f) == e[1] > f[1] \/ (e[1] = f[1] /\ e[2] < f[2])

Powerful(k, e) == PotentialTendermintPower(k.validators[e[2]]) > 0

\* Mutant: one validator too many.
VisitedOneMore(k) ==
    {e \in k.index :
        /\ \A f \in k.index : Before(f, e) => Powerful(k, f)
        /\ Cardinality({f \in k.index : Before(f, e)}) =< MaxValidators}

\* The keys that the first loop of ApplyAndReturnValidatorSetUpdates reads: up to
\* MaxValidators of them, and none after the first validator without power.
Visited(k) ==
    {e \in k.index :
        /\ \A f \in k.index : Before(f, e) => Powerful(k, f)
        /\ Cardinality({f \in k.index : Before(f, e)}) < MaxValidators}

\* The validators that the loop finds or makes bonded.
Elected(k) == {e[2] : e \in {f \in Visited(k) : Powerful(k, f)}}

NoLongerBonded(k) == {v \in Validators : k.last[v] # 0} \ Elected(k)
NewlyBonded(k) == {v \in Elected(k) : k.validators[v].status # "Bonded"}

\* DeleteValidatorQueue of the validators vs.
DeleteValidatorQueue(k, vs) ==
    k.queue \ {<<k.validators[v].unbondingTime, v>> : v \in vs}

TokensOf(k, vs) == MapThenSumSet(LAMBDA v : k.validators[v].tokens, vs)

\* The updates that ApplyAndReturnValidatorSetUpdates returns.
ValidatorUpdates(k) ==
    [v \in {w \in Elected(k) : k.last[w] # PotentialTendermintPower(k.validators[w])}
               \cup NoLongerBonded(k) |->
        IF v \in Elected(k) THEN PotentialTendermintPower(k.validators[v]) ELSE 0]

\* bondValidator, beginUnbondingValidator
Transition(k, v, now, height) ==
    CASE v \in Elected(k) -> [k.validators[v] EXCEPT !.status = "Bonded"]
      [] v \in NoLongerBonded(k) ->
             [k.validators[v] EXCEPT !.status = "Unbonding",
                                     !.unbondingTime = now + UnbondingTime,
                                     !.unbondingHeight = height]
      [] OTHER -> k.validators[v]

ApplyValidatorSetUpdates(k, now, height) ==
    LET power(v) == PotentialTendermintPower(k.validators[v])
        moved    == NewlyBonded(k) \cup NoLongerBonded(k)
        delta    == TokensOf(k, NewlyBonded(k)) - TokensOf(k, NoLongerBonded(k))
    IN  [notBondedTokensToBonded(k, delta) EXCEPT
            !.validators = [v \in Validators |-> Transition(k, v, now, height)],
            !.index = (@ \ {<<k.validators[v].tokens, v>> : v \in moved})
                      \cup UNION {SetValidatorByPowerIndex(v, k.validators[v]) : v \in moved},
            !.queue = DeleteValidatorQueue(k, NewlyBonded(k))
                      \cup {<<now + UnbondingTime, v>> : v \in NoLongerBonded(k)},
            !.last = [v \in Validators |-> IF v \in Elected(k) THEN power(v) ELSE 0],
            !.lastTotal = IF ValidatorUpdates(k) = <<>> THEN @
                          ELSE MapThenSumSet(power, Elected(k))]

\* Mutant: validators are unbonded one second early.
MatureEarly(k, now) == {v \in Validators : \E e \in k.queue : e[1] =< now + 1 /\ e[2] = v}

\* The ValidatorQueueIterator up to now.
MatureValidators(k, now) == {v \in Validators : \E e \in k.queue : e[1] =< now /\ e[2] = v}

UnbondAllMatureValidatorQueue(k, now) ==
    LET mature  == MatureValidators(k, now)
        removed == {v \in mature : k.validators[v].shares = 0}
    IN  [k EXCEPT
            !.validators = [v \in Validators |->
                CASE v \in removed -> NoValidator
                  [] v \in mature \ removed -> [k.validators[v] EXCEPT !.status = "Unbonded"]
                  [] OTHER -> k.validators[v]],
            !.index = @ \ {<<k.validators[v].tokens, v>> : v \in removed},
            !.queue = {e \in @ : e[1] > now}]

\* The panics of ApplyAndReturnValidatorSetUpdates: mustGetValidator, a jailed
\* validator, bondedToUnbonding.
UpdatesPanic(k) ==
    \/ \E e \in Visited(k) : k.validators[e[2]].status = "None" \/ k.validators[e[2]].jailed
    \/ \E v \in NoLongerBonded(k) : k.validators[v].status # "Bonded"

\* The panics of the pool's sanity checks meanwhile.
PoolPanics(k) ==
    \/ k.notBonded < TokensOf(k, NewlyBonded(k))
    \/ k.bonded + TokensOf(k, NewlyBonded(k)) < TokensOf(k, NoLongerBonded(k))

\* The panics of UnbondAllMatureValidatorQueue and of RemoveValidator.
UnbondPanics(k, now) ==
    \E v \in MatureValidators(k, now) :
        \/ k.validators[v].status # "Unbonding"
        \/ k.validators[v].shares = 0 /\ k.validators[v].tokens > 0
=============================================================================
