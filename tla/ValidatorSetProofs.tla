------------------------- MODULE ValidatorSetProofs -------------------------
(***************************************************************************)
(* The life of validators, for any validators, amounts, minimum            *)
(* self-delegations, block times, precision and limits.  Sums of tokens    *)
(* (PlacesFilled, and the pool in Staking) are left to model checking;     *)
(* nothing here depends on them.                                           *)
(***************************************************************************)
EXTENDS ValidatorSet, DecProofs, FiniteSetTheorems

USE ValidatorAssumption, InputAssumption

\* A store: a record with the seven fields of ValidatorKeeper.
Fields == {"validators", "index", "queue", "last", "lastTotal", "bonded", "notBonded"}
IsKeeper(k) == k = [x \in Fields |-> k[x]]

ValidatorMap == [Validators -> Validator]

\* The power index and the queue that the validators vs call for.
IndexOf(vs) == {<<vs[v].tokens, v>> : v \in {w \in Validators : vs[w].status # "None" /\ ~vs[w].jailed}}
QueueOf(vs) == {<<vs[v].unbondingTime, v>> : v \in {w \in Validators : vs[w].status = "Unbonding"}}

GoodKeeper(k) == IsKeeper(k) /\ k.validators \in ValidatorMap /\ k.index = IndexOf(k.validators)
SameLists(k, r) == r.queue = k.queue /\ r.last = k.last

-----------------------------------------------------------------------------
(* The keeper's operations keep the index exact *)

\* The validators vs with val for v.
Put(vs, v, val) == [vs EXCEPT ![v] = val]

\* A validator after AddTokensFromDel, RemoveDelShares and RemoveTokens.
Topped(val, amount) == [val EXCEPT !.tokens = @ + amount, !.shares = @ + IssuedShares(val, amount)]
Reduced(val, shares) == [val EXCEPT !.tokens = @ - IssuedTokens(val, shares), !.shares = @ - shares]
Slashed(val, amount) == [val EXCEPT !.tokens = @ - amount]

\* The record of an operator without a validator is well typed.
LEMMA NoValidatorType == NoValidator \in Validator
  BY DEF NoValidator, Validator

\* Moving tokens between pools leaves validators and index alone.
LEMMA PooledStep ==
  ASSUME NEW k, NEW v \in Validators, NEW amount, GoodKeeper(k)
  PROVE  GoodKeeper(Pooled(k, v, amount)) /\ SameLists(k, Pooled(k, v, amount))
         /\ Pooled(k, v, amount).validators = k.validators
<1> DEFINE r == Pooled(k, v, amount)
<1>1. IsKeeper(k)
  BY DEF GoodKeeper
<1>2. IsKeeper(r) /\ SameLists(k, r) /\ r.validators = k.validators /\ r.index = k.index
  BY <1>1 DEF IsKeeper, Fields, Pooled, notBondedTokensToBonded, SameLists
<1> QED  BY <1>2 DEF GoodKeeper

\* Replacing a validator and its index entry together keeps the index exact.
LEMMA ReplaceStep ==
  ASSUME NEW k, NEW v \in Validators, NEW val \in Validator, GoodKeeper(k), val.status # "None"
  PROVE  /\ GoodKeeper(ReplaceValidator(k, v, val)) /\ SameLists(k, ReplaceValidator(k, v, val))
         /\ ReplaceValidator(k, v, val).validators = [k.validators EXCEPT ![v] = val]
<1> DEFINE r == ReplaceValidator(k, v, val)
           vs == [k.validators EXCEPT ![v] = val]
<1>1. IsKeeper(k) /\ k.validators \in ValidatorMap /\ k.index = IndexOf(k.validators)
  BY DEF GoodKeeper
<1>2. /\ IsKeeper(r) /\ SameLists(k, r) /\ r.validators = vs
      /\ r.index = (k.index \ {<<k.validators[v].tokens, v>>}) \cup SetValidatorByPowerIndex(v, val)
  BY <1>1 DEF IsKeeper, Fields, ReplaceValidator, SameLists
<1>3. vs \in ValidatorMap
  BY <1>1 DEF ValidatorMap
<1>4. vs[v] = val /\ \A w \in Validators : w # v => vs[w] = k.validators[w]
  BY <1>1 DEF ValidatorMap
<1>5. r.index = IndexOf(vs)
  <2> HIDE DEF vs, r
  <2> QED  BY <1>1, <1>2, <1>4 DEF IndexOf, SetValidatorByPowerIndex
<1> QED  BY <1>2, <1>3, <1>5 DEF GoodKeeper

\* Without its only key, the index is that of validators of which v is not indexed.
LEMMA IndexWithout ==
  ASSUME NEW vs, NEW ws, NEW v \in Validators,
         \A w \in Validators : w # v => ws[w] = vs[w],
         ws[v].status = "None" \/ ws[v].jailed
  PROVE  IndexOf(vs) \ {<<vs[v].tokens, v>>} = IndexOf(ws)
<1>1. ASSUME NEW e \in IndexOf(vs), e # <<vs[v].tokens, v>>  PROVE e \in IndexOf(ws)
  <2>1. PICK w \in Validators : e = <<vs[w].tokens, w>> /\ vs[w].status # "None" /\ ~vs[w].jailed
    BY DEF IndexOf
  <2>2. w # v
    BY <1>1, <2>1
  <2> QED  BY <2>1, <2>2 DEF IndexOf
<1>2. ASSUME NEW e \in IndexOf(ws)  PROVE e \in IndexOf(vs) /\ e # <<vs[v].tokens, v>>
  <2>1. PICK w \in Validators : e = <<ws[w].tokens, w>> /\ ws[w].status # "None" /\ ~ws[w].jailed
    BY DEF IndexOf
  <2>2. w # v
    BY <2>1
  <2> QED  BY <2>1, <2>2 DEF IndexOf
<1> QED  BY <1>1, <1>2

\* RemoveValidator takes the validator and its index entry away.
LEMMA RemoveStep ==
  ASSUME NEW k, NEW v \in Validators, GoodKeeper(k)
  PROVE  /\ GoodKeeper(RemoveValidator(k, v)) /\ SameLists(k, RemoveValidator(k, v))
         /\ RemoveValidator(k, v).validators = [k.validators EXCEPT ![v] = NoValidator]
<1> DEFINE r == RemoveValidator(k, v)
           vs == [k.validators EXCEPT ![v] = NoValidator]
<1>1. IsKeeper(k) /\ k.validators \in ValidatorMap /\ k.index = IndexOf(k.validators)
  BY DEF GoodKeeper
<1>2. /\ IsKeeper(r) /\ SameLists(k, r) /\ r.validators = vs
      /\ r.index = k.index \ {<<k.validators[v].tokens, v>>}
  BY <1>1 DEF IsKeeper, Fields, RemoveValidator, SameLists
<1>3. vs \in ValidatorMap
  BY <1>1, NoValidatorType DEF ValidatorMap
<1>4. vs[v].status = "None" /\ \A w \in Validators : w # v => vs[w] = k.validators[w]
  BY <1>1 DEF ValidatorMap, NoValidator
<1>5. r.index = IndexOf(vs)
  <2> HIDE DEF vs, r
  <2>1. IndexOf(k.validators) \ {<<k.validators[v].tokens, v>>} = IndexOf(vs)
    BY <1>4, IndexWithout
  <2> QED  BY <1>1, <1>2, <2>1
<1> QED  BY <1>2, <1>3, <1>5 DEF GoodKeeper

\* jailValidator takes the validator out of the index.
LEMMA JailStep ==
  ASSUME NEW k, NEW v \in Validators, GoodKeeper(k)
  PROVE  /\ GoodKeeper(jailValidator(k, v)) /\ SameLists(k, jailValidator(k, v))
         /\ jailValidator(k, v).validators =
                [k.validators EXCEPT ![v] = [k.validators[v] EXCEPT !.jailed = TRUE]]
<1> DEFINE r == jailValidator(k, v)
           val == [k.validators[v] EXCEPT !.jailed = TRUE]
           vs == [k.validators EXCEPT ![v] = val]
<1>1. IsKeeper(k) /\ k.validators \in ValidatorMap /\ k.index = IndexOf(k.validators)
  BY DEF GoodKeeper
<1>2. /\ IsKeeper(r) /\ SameLists(k, r) /\ r.validators = vs
      /\ r.index = k.index \ {<<k.validators[v].tokens, v>>}
  BY <1>1 DEF IsKeeper, Fields, jailValidator, SameLists
<1>3. val \in Validator /\ val.jailed
  BY <1>1 DEF ValidatorMap, Validator
<1>4. vs[v] = val /\ \A w \in Validators : w # v => vs[w] = k.validators[w]
  BY <1>1 DEF ValidatorMap
<1>5. vs \in ValidatorMap
  BY <1>1, <1>3 DEF ValidatorMap
<1>6. r.index = IndexOf(vs)
  <2> HIDE DEF vs, r, val
  <2>1. IndexOf(k.validators) \ {<<k.validators[v].tokens, v>>} = IndexOf(vs)
    BY <1>3, <1>4, IndexWithout
  <2> QED  BY <1>1, <1>2, <2>1
<1> QED  BY <1>2, <1>5, <1>6 DEF GoodKeeper

\* unjailValidator puts it back.
LEMMA UnjailStep ==
  ASSUME NEW k, NEW v \in Validators, GoodKeeper(k), k.validators[v].status # "None"
  PROVE  /\ GoodKeeper(unjailValidator(k, v)) /\ SameLists(k, unjailValidator(k, v))
         /\ unjailValidator(k, v).validators =
                [k.validators EXCEPT ![v] = [k.validators[v] EXCEPT !.jailed = FALSE]]
<1> DEFINE r == unjailValidator(k, v)
           val == [k.validators[v] EXCEPT !.jailed = FALSE]
           vs == [k.validators EXCEPT ![v] = val]
<1>1. IsKeeper(k) /\ k.validators \in ValidatorMap /\ k.index = IndexOf(k.validators)
  BY DEF GoodKeeper
<1>2. /\ IsKeeper(r) /\ SameLists(k, r) /\ r.validators = vs
      /\ r.index = k.index \cup {<<k.validators[v].tokens, v>>}
  BY <1>1 DEF IsKeeper, Fields, unjailValidator, SameLists
<1>3. val \in Validator /\ ~val.jailed /\ val.status # "None" /\ val.tokens = k.validators[v].tokens
  BY <1>1 DEF ValidatorMap, Validator
<1>4. vs[v] = val /\ \A w \in Validators : w # v => vs[w] = k.validators[w]
  BY <1>1 DEF ValidatorMap
<1>5. vs \in ValidatorMap
  BY <1>1, <1>3 DEF ValidatorMap
<1>6. r.index = IndexOf(vs)
  <2> HIDE DEF vs, r, val
  <2> QED  BY <1>1, <1>2, <1>3, <1>4 DEF IndexOf
<1> QED  BY <1>2, <1>5, <1>6 DEF GoodKeeper

\* A new validator enters the index.
LEMMA AddNewStep ==
  ASSUME NEW k, NEW v \in Validators, NEW minSelf \in Nat, GoodKeeper(k),
         k.validators[v].status = "None"
  PROVE  /\ GoodKeeper(AddNewValidator(k, v, minSelf)) /\ SameLists(k, AddNewValidator(k, v, minSelf))
         /\ AddNewValidator(k, v, minSelf).validators = [k.validators EXCEPT ![v] = NewValidator(minSelf)]
<1> DEFINE r == AddNewValidator(k, v, minSelf)
           val == NewValidator(minSelf)
           vs == [k.validators EXCEPT ![v] = val]
<1>1. IsKeeper(k) /\ k.validators \in ValidatorMap /\ k.index = IndexOf(k.validators)
  BY DEF GoodKeeper
<1>2. /\ IsKeeper(r) /\ SameLists(k, r) /\ r.validators = vs
      /\ r.index = k.index \cup {<<0, v>>}
  BY <1>1 DEF IsKeeper, Fields, AddNewValidator, SameLists
<1>3. val \in Validator /\ ~val.jailed /\ val.status # "None" /\ val.tokens = 0
  BY DEF NewValidator, NoValidator, Validator, Statuses
<1>4. vs[v] = val /\ \A w \in Validators : w # v => vs[w] = k.validators[w]
  BY <1>1 DEF ValidatorMap
<1>5. vs \in ValidatorMap
  BY <1>1, <1>3 DEF ValidatorMap
<1>6. r.index = IndexOf(vs)
  <2> HIDE DEF vs, r, val
  <2> QED  BY <1>1, <1>2, <1>3, <1>4 DEF IndexOf
<1> QED  BY <1>2, <1>5, <1>6 DEF GoodKeeper

\* The shares issued for an amount.
LEMMA IssuedSharesType ==
  ASSUME NEW val \in Validator, NEW amount \in Nat, ~InvalidExRate(val)
  PROVE  IssuedShares(val, amount) \in Nat
<1>1. val.shares \in Nat /\ val.tokens \in Nat
  BY DEF Validator
<1>2. CASE val.shares = 0
  BY <1>2, OneAssumption DEF IssuedShares, NewDec
<1>3. CASE val.shares # 0
  <2>1. val.tokens \in Nat \ {0}
    BY <1>1, <1>3 DEF InvalidExRate
  <2>2. val.shares * amount \in Nat
    BY <1>1
  <2>3. IssuedShares(val, amount) = (val.shares * amount) \div val.tokens
    BY <1>3, <2>1, <2>2 DEF IssuedShares, QuoInt, MulInt, TruncQuo
  <2> QED  BY <2>1, <2>2, <2>3, DivBounds
<1> QED  BY <1>2, <1>3

\* AddValidatorTokensAndShares moves the index entry to the new power.
LEMMA AddTokensStep ==
  ASSUME NEW k, NEW r, NEW v \in Validators, NEW val, NEW amount \in Nat,
         GoodKeeper(k), val = k.validators[v], val.status # "None", ~InvalidExRate(val),
         r = AddValidatorTokensAndShares(k, v, amount)
  PROVE  /\ Topped(val, amount) \in Validator
         /\ GoodKeeper(r) /\ SameLists(k, r)
         /\ r.validators = Put(k.validators, v, Topped(val, amount))
<1> DEFINE new == [val EXCEPT !.tokens = @ + amount, !.shares = @ + IssuedShares(val, amount)]
           p   == Pooled(k, v, amount)
<1>1. val \in Validator
  BY DEF GoodKeeper, ValidatorMap
<1>2. IssuedShares(val, amount) \in Nat
  BY <1>1, IssuedSharesType
<1>3. new \in Validator /\ new.status # "None"
  <2> DEFINE issued == IssuedShares(val, amount)
  <2> HIDE DEF issued
  <2>1. val.tokens + amount \in Nat /\ val.shares + issued \in Nat
    BY <1>1, <1>2 DEF Validator, issued
  <2>2. [val EXCEPT !.tokens = @ + amount, !.shares = @ + issued] \in Validator
    BY <1>1, <2>1 DEF Validator
  <2>3. [val EXCEPT !.tokens = @ + amount, !.shares = @ + issued].status = val.status
    BY <1>1 DEF Validator
  <2> QED  BY <2>2, <2>3 DEF issued
<1>4. GoodKeeper(p) /\ SameLists(k, p) /\ p.validators = k.validators
  BY PooledStep
<1>5. r = ReplaceValidator(p, v, new)
  BY DEF AddValidatorTokensAndShares
<1> HIDE DEF p, new
<1>6. /\ GoodKeeper(ReplaceValidator(p, v, new)) /\ SameLists(p, ReplaceValidator(p, v, new))
      /\ ReplaceValidator(p, v, new).validators = [p.validators EXCEPT ![v] = new]
  BY <1>3, <1>4, ReplaceStep
<1> QED  BY <1>3, <1>4, <1>5, <1>6 DEF SameLists, Put, new, Topped

\* RemoveDelShares never takes more tokens than there are.
LEMMA IssuedTokensBound ==
  ASSUME NEW val \in Validator, NEW shares \in Nat \ {0}, shares =< val.shares
  PROVE  IssuedTokens(val, shares) \in 0 .. val.tokens
<1>1. val.shares \in Nat \ {0} /\ val.tokens \in Nat
  BY DEF Validator
<1>2. CASE shares = val.shares
  BY <1>1, <1>2 DEF IssuedTokens
<1>3. CASE shares # val.shares
  <2>1. TruncateInt(Quo(MulInt(shares, val.tokens), val.shares)) \in 0 .. val.tokens
    BY <1>1, ShareAtMostWhole
  <2> QED  BY <1>3, <2>1 DEF IssuedTokens, ShareTokens
<1> QED  BY <1>2, <1>3

\* RemoveValidatorTokensAndShares moves the index entry to the new power.
LEMMA RemoveTokensStep ==
  ASSUME NEW k, NEW r, NEW v \in Validators, NEW val, NEW shares \in Nat \ {0},
         GoodKeeper(k), val = k.validators[v], val.status # "None", shares =< val.shares,
         r = RemoveValidatorTokensAndShares(k, v, shares)
  PROVE  /\ Reduced(val, shares) \in Validator
         /\ GoodKeeper(r) /\ SameLists(k, r)
         /\ r.validators = Put(k.validators, v, Reduced(val, shares))
<1> DEFINE issued == IssuedTokens(val, shares)
           new == [val EXCEPT !.tokens = @ - issued, !.shares = @ - shares]
           p   == Pooled(k, v, -issued)
<1>1. val \in Validator
  BY DEF GoodKeeper, ValidatorMap
<1>2. issued \in 0 .. val.tokens
  BY <1>1, IssuedTokensBound
<1>3. new \in Validator /\ new.status # "None"
  <2> HIDE DEF issued
  <2>1. val.tokens - issued \in Nat /\ val.shares - shares \in Nat
    BY <1>1, <1>2 DEF Validator
  <2>2. [val EXCEPT !.tokens = @ - issued, !.shares = @ - shares] \in Validator
    BY <1>1, <2>1 DEF Validator
  <2>3. [val EXCEPT !.tokens = @ - issued, !.shares = @ - shares].status = val.status
    BY <1>1 DEF Validator
  <2> QED  BY <2>2, <2>3
<1>4. GoodKeeper(p) /\ SameLists(k, p) /\ p.validators = k.validators
  BY PooledStep
<1>5. r = ReplaceValidator(p, v, new)
  BY DEF RemoveValidatorTokensAndShares
<1> HIDE DEF p, new
<1>6. /\ GoodKeeper(ReplaceValidator(p, v, new)) /\ SameLists(p, ReplaceValidator(p, v, new))
      /\ ReplaceValidator(p, v, new).validators = [p.validators EXCEPT ![v] = new]
  BY <1>3, <1>4, ReplaceStep
<1> QED  BY <1>3, <1>4, <1>5, <1>6 DEF SameLists, Put, new, Reduced

\* Burning tokens of the pool of what is not bonded leaves validators and index alone.
LEMMA BurnStep ==
  ASSUME NEW k, NEW x, GoodKeeper(k)
  PROVE  LET r == [k EXCEPT !.notBonded = x]
         IN  GoodKeeper(r) /\ SameLists(k, r) /\ r.validators = k.validators
<1> DEFINE r == [k EXCEPT !.notBonded = x]
<1>1. IsKeeper(k)
  BY DEF GoodKeeper
<1>2. IsKeeper(r) /\ SameLists(k, r) /\ r.validators = k.validators /\ r.index = k.index
  BY <1>1 DEF IsKeeper, Fields, SameLists
<1> QED  BY <1>2 DEF GoodKeeper

\* RemoveValidatorTokens, of at most the tokens there are, keeps the index exact.
LEMMA SlashStep ==
  ASSUME NEW k, NEW r, NEW v \in Validators, NEW val, NEW amount \in Nat,
         GoodKeeper(k), val = k.validators[v], val.status # "None", amount =< val.tokens,
         r = RemoveValidatorTokens(k, v, amount)
  PROVE  /\ Slashed(val, amount) \in Validator
         /\ GoodKeeper(r) /\ SameLists(k, r)
         /\ r.validators = Put(k.validators, v, Slashed(val, amount))
<1> DEFINE new == [val EXCEPT !.tokens = @ - amount]
           p   == Pooled(k, v, -amount)
           b   == [p EXCEPT !.notBonded = @ - amount]
<1>1. val \in Validator
  BY DEF GoodKeeper, ValidatorMap
<1>2. new \in Validator /\ new.status # "None"
  <2>1. val.tokens - amount \in Nat
    BY <1>1 DEF Validator
  <2>2. [val EXCEPT !.tokens = @ - amount] \in Validator
    BY <1>1, <2>1 DEF Validator
  <2>3. [val EXCEPT !.tokens = @ - amount].status = val.status
    BY <1>1 DEF Validator
  <2> QED  BY <2>2, <2>3
<1>3. GoodKeeper(p) /\ SameLists(k, p) /\ p.validators = k.validators
  BY PooledStep
<1>4. GoodKeeper(b) /\ SameLists(p, b) /\ b.validators = p.validators
  BY <1>3, BurnStep
<1>5. r = ReplaceValidator(b, v, new)
  BY DEF RemoveValidatorTokens
<1> HIDE DEF p, new, b
<1>6. /\ GoodKeeper(ReplaceValidator(b, v, new)) /\ SameLists(b, ReplaceValidator(b, v, new))
      /\ ReplaceValidator(b, v, new).validators = [b.validators EXCEPT ![v] = new]
  BY <1>2, <1>4, ReplaceStep
<1> QED  BY <1>2, <1>3, <1>4, <1>5, <1>6 DEF SameLists, Put, new, Slashed

-----------------------------------------------------------------------------
(* The inductive invariant *)

\* What holds of a validator and its operator's shares.
ValidatorOK(val, sv) ==
    /\ sv \in Nat /\ sv =< val.shares
    /\ val.status # "None" /\ ~val.jailed => sv > 0
    /\ val.shares = 0 => val.tokens = 0 /\ val.status # "Unbonded"
    /\ val.status # "None" => val.minSelf > 0
    /\ val.status = "None" => val = NoValidator

StoreType ==
    /\ IsKeeper(keeper) /\ keeper.validators \in ValidatorMap
    /\ keeper.last \in [Validators -> Nat]
    /\ self \in [Validators -> Nat]
    /\ now \in Nat /\ height \in Nat
    /\ phase \in {"begin", "deliver", "committed"}

IInv ==
    /\ StoreType
    /\ \A v \in Validators : ValidatorOK(Val(v), self[v])
    /\ IndexExact /\ QueueExact /\ TendermintAgrees

\* Index and queue are exact when each is what the validators make it.
LEMMA Exact ==
  /\ IndexExact <=> keeper.index = IndexOf(keeper.validators)
  /\ QueueExact <=> /\ keeper.queue = QueueOf(keeper.validators)
                    /\ phase = "committed" => \A e \in keeper.queue : e[1] > now
  BY DEF IndexExact, QueueExact, IndexOf, QueueOf, Val

\* The invariant gives the keeper lemmas their hypothesis.
LEMMA Good == IInv => GoodKeeper(keeper)
  BY Exact DEF IInv, StoreType, GoodKeeper

\* The step that StaysSlashable speaks of.
StepSlashable ==
    \A v \in Validators :
        Val(v).status \in {"Bonded", "Unbonding"} /\ Val(v)'.status \in {"Unbonded", "None"} =>
            \/ Val(v).status = "Unbonding" /\ now >= Val(v).unbondingTime
            \/ Val(v).status = "Bonded" /\ UnbondingTime = 0

\* A message or a punishment changes one validator, and neither puts it into the
\* validator set or the queue nor takes it out.
LEMMA MessageStep ==
  ASSUME IInv, NEW v \in Validators, NEW val \in Validator, NEW sv,
         GoodKeeper(keeper'), SameLists(keeper, keeper'),
         keeper'.validators = [keeper.validators EXCEPT ![v] = val],
         self' = [self EXCEPT ![v] = sv], ValidatorOK(val, sv),
         \/ val.status = Val(v).status /\ val.unbondingTime = Val(v).unbondingTime
         \/ {val.status, Val(v).status} \subseteq {"None", "Unbonded"},
         tm' = tm, now' = now, height' = height, phase' \in {"begin", "deliver"}
  PROVE  IInv' /\ StepSlashable
<1>1. /\ keeper.validators \in ValidatorMap /\ self \in [Validators -> Nat]
      /\ now \in Nat /\ height \in Nat /\ keeper.last \in [Validators -> Nat]
  BY DEF IInv, StoreType
<1>2. /\ keeper'.validators[v] = val /\ self'[v] = sv
      /\ \A w \in Validators : w # v => /\ keeper'.validators[w] = keeper.validators[w]
                                        /\ self'[w] = self[w]
  BY <1>1 DEF ValidatorMap
<1>3. StoreType'
  BY <1>1 DEF StoreType, GoodKeeper, SameLists, ValidatorOK
<1>4. \A w \in Validators : ValidatorOK(Val(w), self[w])'
  <2> SUFFICES ASSUME NEW w \in Validators
               PROVE  ValidatorOK(keeper'.validators[w], self'[w])
    BY DEF Val
  <2>1. CASE w = v
    BY <1>2, <2>1
  <2>2. CASE w # v
    BY <1>2, <2>2 DEF IInv, Val
  <2> QED  BY <2>1, <2>2
<1>5. IndexExact'
  BY DEF GoodKeeper, IndexExact, IndexOf, Val
<1>6. \A w \in Validators :
        /\ keeper'.validators[w].status = "Unbonding" <=> keeper.validators[w].status = "Unbonding"
        /\ keeper'.validators[w].status = "Bonded" <=> keeper.validators[w].status = "Bonded"
        /\ keeper.validators[w].status = "Unbonding" =>
               keeper'.validators[w].unbondingTime = keeper.validators[w].unbondingTime
  BY <1>2 DEF Val
<1>7. QueueExact'
  <2>1. QueueOf(keeper'.validators) = QueueOf(keeper.validators)
    BY <1>6 DEF QueueOf
  <2>2. keeper'.queue = QueueOf(keeper'.validators)
    BY <2>1, Exact DEF IInv, SameLists
  <2> QED  BY <2>2 DEF QueueExact, QueueOf, Val
<1>8. TendermintAgrees'
  BY <1>6 DEF TendermintAgrees, IInv, SameLists, Val
<1>9. StepSlashable
  BY <1>2 DEF StepSlashable, Val
<1> QED  BY <1>3, <1>4, <1>5, <1>7, <1>8, <1>9 DEF IInv

\* handleMsgCreateValidator keeps the invariant.
LEMMA CreateStep ==
  ASSUME IInv, NEW v \in Validators, NEW amount \in Amounts, NEW minSelf \in MinSelfs,
         CreateValidator(v, amount, minSelf)
  PROVE  IInv' /\ StepSlashable
<1> DEFINE k == AddNewValidator(keeper, v, minSelf)
           new == NewValidator(minSelf)
           issued == IssuedShares(new, amount)
           val == Topped(new, amount)
<1>1. GoodKeeper(keeper) /\ keeper.validators \in ValidatorMap /\ keeper.validators[v].status = "None"
  BY Good DEF GoodKeeper, CreateValidator, Val
<1>2. GoodKeeper(k) /\ SameLists(keeper, k) /\ k.validators = [keeper.validators EXCEPT ![v] = new]
  BY <1>1, AddNewStep
<1>3. k.validators[v] = new
  BY <1>1, <1>2 DEF ValidatorMap
<1>4. /\ new.status = "Unbonded" /\ new.tokens = 0 /\ new.shares = 0 /\ ~InvalidExRate(new)
      /\ new \in Validator /\ new.minSelf = minSelf
  <2>1. new \in Validator
    BY DEF NewValidator, NoValidator, Validator, Statuses
  <2>2. /\ new.status = "Unbonded" /\ new.tokens = 0 /\ new.shares = 0
        /\ new.minSelf = minSelf
    BY DEF NewValidator, NoValidator
  <2> QED  BY <2>1, <2>2 DEF InvalidExRate
<1>5. issued = NewDec(amount) /\ NewDec(amount) \in Nat \ {0}
  BY <1>4, OneAssumption DEF IssuedShares, NewDec
<1> HIDE DEF k, new, issued
<1>6. /\ val \in Validator
      /\ GoodKeeper(keeper') /\ SameLists(k, keeper') /\ keeper'.validators = Put(k.validators, v, val)
  <2>1. keeper' = AddValidatorTokensAndShares(k, v, amount) /\ amount \in Nat
    BY DEF CreateValidator, k
  <2>2. GoodKeeper(k) /\ new = k.validators[v] /\ new.status # "None" /\ ~InvalidExRate(new)
    BY <1>2, <1>3, <1>4
  <2> QED  BY <2>1, <2>2, AddTokensStep
<1>7. keeper'.validators = [keeper.validators EXCEPT ![v] = val]
  <2> HIDE DEF val
  <2> QED  BY <1>1, <1>2, <1>6 DEF ValidatorMap, Put
<1>8. /\ val.status = "Unbonded" /\ val.shares = NewDec(amount) /\ val.minSelf = minSelf
  BY <1>4, <1>5 DEF Validator, Topped, issued
<1>9. ValidatorOK(val, NewDec(amount))
  BY <1>5, <1>8 DEF ValidatorOK
<1>10. /\ self' = [self EXCEPT ![v] = NewDec(amount)]
       /\ tm' = tm /\ now' = now /\ height' = height /\ phase' = "deliver"
  BY DEF CreateValidator, Delivering
<1>11. SameLists(keeper, keeper')
  BY <1>2, <1>6 DEF SameLists
<1>12. {val.status, Val(v).status} \subseteq {"None", "Unbonded"}
  BY <1>1, <1>8 DEF Val
<1> HIDE DEF val
<1> QED  BY <1>6, <1>7, <1>9, <1>10, <1>11, <1>12, MessageStep

\* handleMsgEditValidator keeps the invariant.
LEMMA EditStep ==
  ASSUME IInv, NEW v \in Validators, NEW minSelf \in MinSelfs, EditValidator(v, minSelf)
  PROVE  IInv' /\ StepSlashable
<1> DEFINE val == [Val(v) EXCEPT !.minSelf = minSelf]
<1>1. /\ IsKeeper(keeper) /\ keeper.validators \in ValidatorMap /\ Val(v) \in Validator
      /\ keeper.index = IndexOf(keeper.validators) /\ self \in [Validators -> Nat]
  BY Good DEF GoodKeeper, IInv, StoreType, ValidatorMap, Val
<1>2. /\ keeper' = [keeper EXCEPT !.validators[v].minSelf = minSelf]
      /\ self' = self /\ tm' = tm /\ now' = now /\ height' = height /\ phase' = "deliver"
      /\ Val(v).status # "None"
  BY DEF EditValidator, Delivering
<1>3. /\ IsKeeper(keeper') /\ SameLists(keeper, keeper')
      /\ keeper'.validators = [keeper.validators EXCEPT ![v] = val]
      /\ keeper'.index = keeper.index
  BY <1>1, <1>2 DEF IsKeeper, Fields, SameLists, Val
<1>4. val \in Validator
  BY <1>1 DEF Validator
<1>5. /\ val.status = Val(v).status /\ val.jailed = Val(v).jailed /\ val.tokens = Val(v).tokens
      /\ val.shares = Val(v).shares /\ val.unbondingTime = Val(v).unbondingTime
      /\ val.minSelf = minSelf
  BY <1>1 DEF Validator
<1>6. ValidatorOK(val, self[v])
  BY <1>2, <1>5 DEF ValidatorOK, IInv
<1> HIDE DEF val
<1>7. \A w \in Validators :
        /\ keeper'.validators[w].status = keeper.validators[w].status
        /\ keeper'.validators[w].jailed = keeper.validators[w].jailed
        /\ keeper'.validators[w].tokens = keeper.validators[w].tokens
  BY <1>1, <1>3, <1>5 DEF ValidatorMap, Val
<1>8. IndexOf(keeper'.validators) = IndexOf(keeper.validators)
  BY <1>7 DEF IndexOf
<1>9. GoodKeeper(keeper')
  BY <1>1, <1>3, <1>4, <1>8 DEF GoodKeeper, ValidatorMap
<1>10. self' = [self EXCEPT ![v] = self[v]]
  BY <1>1, <1>2
<1> QED  BY <1>2, <1>3, <1>4, <1>5, <1>6, <1>9, <1>10, MessageStep

\* handleMsgDelegate keeps the invariant.
LEMMA DelegateStep ==
  ASSUME IInv, NEW v \in Validators, NEW amount \in Amounts, NEW operator \in BOOLEAN,
         Delegate(v, amount, operator)
  PROVE  IInv' /\ StepSlashable
<1> DEFINE issued == IssuedShares(Val(v), amount)
           val == Topped(Val(v), amount)
           sv == IF operator THEN self[v] + issued ELSE self[v]
<1>1. /\ GoodKeeper(keeper) /\ Val(v) \in Validator /\ self \in [Validators -> Nat]
      /\ ValidatorOK(Val(v), self[v])
  BY Good DEF GoodKeeper, IInv, StoreType, ValidatorMap, Val
<1>2. /\ Val(v).status # "None" /\ ~InvalidExRate(Val(v))
      /\ keeper' = AddValidatorTokensAndShares(keeper, v, amount)
      /\ tm' = tm /\ now' = now /\ height' = height /\ phase' = "deliver"
  BY DEF Delegate, Delivering
<1>3. /\ val \in Validator
      /\ GoodKeeper(keeper') /\ SameLists(keeper, keeper')
      /\ keeper'.validators = [keeper.validators EXCEPT ![v] = val]
  <2>1. amount \in Nat
    OBVIOUS
  <2>2. /\ val \in Validator
        /\ GoodKeeper(keeper') /\ SameLists(keeper, keeper')
        /\ keeper'.validators = Put(keeper.validators, v, val)
    BY <1>1, <1>2, <2>1, AddTokensStep DEF Val
  <2> QED  BY <2>2 DEF Put
<1>4. issued \in Nat /\ (Val(v).shares = 0 => issued > 0)
  <2>1. issued \in Nat
    BY <1>1, <1>2, IssuedSharesType
  <2>2. Val(v).shares = 0 => issued > 0
    BY OneAssumption DEF IssuedShares, NewDec
  <2> QED  BY <2>1, <2>2
<1>5. self' = [self EXCEPT ![v] = sv]
  BY <1>1 DEF Delegate
<1> HIDE DEF issued
<1>6. /\ val.status = Val(v).status /\ val.jailed = Val(v).jailed
      /\ val.shares = Val(v).shares + issued /\ val.unbondingTime = Val(v).unbondingTime
      /\ val.minSelf = Val(v).minSelf
  BY <1>1 DEF Validator, Topped, issued
<1>7. Val(v).shares \in Nat
  BY <1>1 DEF Validator
<1>8. ValidatorOK(val, sv)
  <2> HIDE DEF val
  <2> QED  BY <1>1, <1>2, <1>4, <1>6, <1>7 DEF ValidatorOK
<1> HIDE DEF val, sv
<1> QED  BY <1>2, <1>3, <1>5, <1>6, <1>8, MessageStep

\* The validator that unbond leaves.
Jailing(v, shares, operator) ==
    operator /\ ~Val(v).jailed /\ TruncateInt(ShareTokens(Val(v), self[v] - shares)) < Val(v).minSelf
Left(v, shares, operator) ==
    LET val == Reduced(IF Jailing(v, shares, operator) THEN [Val(v) EXCEPT !.jailed = TRUE] ELSE Val(v),
                       shares)
    IN  IF val.shares = 0 /\ val.status = "Unbonded" THEN NoValidator ELSE val

\* unbond keeps the invariant, also when it jails or removes the validator.
LEMMA UnbondStep ==
  ASSUME IInv, NEW v \in Validators, NEW shares \in Nat \ {0}, NEW operator \in BOOLEAN,
         shares =< Held(v, operator)
  PROVE  /\ Left(v, shares, operator) \in Validator
         /\ GoodKeeper(unbond(v, shares, operator)) /\ SameLists(keeper, unbond(v, shares, operator))
         /\ unbond(v, shares, operator).validators =
                [keeper.validators EXCEPT ![v] = Left(v, shares, operator)]
         /\ ValidatorOK(Left(v, shares, operator), RemainingSelf(v, shares, operator)[v])
         /\ \/ /\ Left(v, shares, operator).status = Val(v).status
               /\ Left(v, shares, operator).unbondingTime = Val(v).unbondingTime
            \/ {Left(v, shares, operator).status, Val(v).status} \subseteq {"None", "Unbonded"}
<1> DEFINE old == Val(v)
           jailing == Jailing(v, shares, operator)
           one == IF jailing THEN [old EXCEPT !.jailed = TRUE] ELSE old
           k1 == IF operator THEN JailedBelowMinimum(keeper, v, self[v] - shares) ELSE keeper
           two == Reduced(one, shares)
           k2 == RemoveValidatorTokensAndShares(k1, v, shares)
           gone == two.shares = 0 /\ two.status = "Unbonded"
           sv == RemainingSelf(v, shares, operator)[v]
<1>1. /\ GoodKeeper(keeper) /\ keeper.validators \in ValidatorMap /\ old = keeper.validators[v]
      /\ old \in Validator /\ self \in [Validators -> Nat] /\ ValidatorOK(old, self[v])
  BY Good DEF GoodKeeper, IInv, StoreType, ValidatorMap, Val
<1>2. /\ old.shares \in Nat /\ old.tokens \in Nat /\ self[v] \in Nat /\ self[v] =< old.shares
      /\ shares =< old.shares /\ (operator => shares =< self[v])
      /\ (~operator => shares =< old.shares - self[v])
  BY <1>1 DEF Held, Validator, ValidatorOK
<1>3. old.status # "None" /\ old.minSelf > 0
  <2>1. old.status = "None" => old.shares = 0
    BY <1>1 DEF ValidatorOK, NoValidator
  <2> QED  BY <1>1, <1>2, <2>1 DEF ValidatorOK
<1>4. /\ one \in Validator /\ one.status = old.status /\ one.shares = old.shares
      /\ one.tokens = old.tokens /\ one.minSelf = old.minSelf
      /\ one.unbondingTime = old.unbondingTime /\ (one.jailed <=> old.jailed \/ jailing)
  <2> HIDE DEF old, jailing
  <2> QED  BY <1>1 DEF Validator
<1>5. k1 = IF jailing THEN jailValidator(keeper, v) ELSE keeper
  BY <1>1 DEF JailedBelowMinimum, Jailing
<1>6. /\ GoodKeeper(k1) /\ SameLists(keeper, k1)
      /\ k1.validators = [keeper.validators EXCEPT ![v] = one]
  <2>1. CASE jailing
    <3> HIDE DEF jailing
    <3>1. k1 = jailValidator(keeper, v) /\ one = [keeper.validators[v] EXCEPT !.jailed = TRUE]
      BY <1>1, <1>5, <2>1
    <3> HIDE DEF k1, one
    <3> QED  BY <1>1, <3>1, JailStep
  <2>2. CASE ~jailing
    <3> HIDE DEF jailing
    <3>1. k1 = keeper /\ one = keeper.validators[v]
      BY <1>1, <1>5, <2>2
    <3> HIDE DEF k1, one
    <3> QED  BY <1>1, <3>1 DEF SameLists, ValidatorMap
  <2> QED  BY <2>1, <2>2
<1>7. k1.validators[v] = one
  BY <1>1, <1>6 DEF ValidatorMap
<1>8. /\ two \in Validator /\ GoodKeeper(k2) /\ SameLists(k1, k2)
      /\ k2.validators = Put(k1.validators, v, two)
  <2> HIDE DEF k1, one
  <2>1. one.status # "None" /\ shares =< one.shares
    BY <1>2, <1>3, <1>4
  <2>2. GoodKeeper(k1) /\ one = k1.validators[v] /\ k2 = RemoveValidatorTokensAndShares(k1, v, shares)
    BY <1>6, <1>7
  <2> HIDE DEF k2
  <2> QED  BY <2>1, <2>2, RemoveTokensStep
<1>9. k2.validators = [keeper.validators EXCEPT ![v] = two] /\ SameLists(keeper, k2)
  <2> HIDE DEF k1, k2, one, two
  <2> QED  BY <1>1, <1>6, <1>8 DEF ValidatorMap, SameLists, Put
<1>10. k2.validators[v] = two
  <2> HIDE DEF k2, two
  <2> QED  BY <1>1, <1>9 DEF ValidatorMap
<1>11. unbond(v, shares, operator) = IF gone THEN RemoveValidator(k2, v) ELSE k2
  <2>1. unbond(v, shares, operator) = RemoveEmptied(k2, v)
    BY DEF unbond
  <2> HIDE DEF k2, two
  <2> QED  BY <1>10, <2>1 DEF RemoveEmptied
<1>12. Left(v, shares, operator) = IF gone THEN NoValidator ELSE two
  BY DEF Left
<1>13. IssuedTokens(one, shares) \in 0 .. old.tokens /\ (shares = old.shares => IssuedTokens(one, shares) = old.tokens)
  <2> HIDE DEF one, old
  <2>1. IssuedTokens(one, shares) \in 0 .. one.tokens
    BY <1>2, <1>4, IssuedTokensBound
  <2>2. shares = old.shares => IssuedTokens(one, shares) = one.tokens
    BY <1>4 DEF IssuedTokens
  <2> QED  BY <1>4, <2>1, <2>2
<1>14. /\ two.status = old.status /\ two.shares = old.shares - shares
       /\ two.tokens = old.tokens - IssuedTokens(one, shares) /\ two.minSelf = old.minSelf
       /\ two.unbondingTime = old.unbondingTime /\ (two.jailed <=> old.jailed \/ jailing)
  <2> HIDE DEF one, old, jailing
  <2> QED  BY <1>4 DEF Reduced, Validator
<1>15. sv \in Nat /\ sv = (IF operator THEN self[v] - shares ELSE self[v]) /\ sv =< two.shares
  <2>1. sv = IF operator THEN self[v] - shares ELSE self[v]
    BY <1>1 DEF RemainingSelf
  <2> HIDE DEF two, old, sv
  <2> QED  BY <1>2, <1>14, <2>1
<1>16. ~two.jailed => sv > 0
  <2>1. SUFFICES ASSUME ~two.jailed, sv = 0  PROVE FALSE
    BY <1>15
  <2>2. ~old.jailed /\ ~jailing /\ self[v] > 0
    BY <1>1, <1>3, <1>14, <2>1 DEF ValidatorOK
  <2>3. operator /\ self[v] - shares = 0
    BY <1>15, <2>1, <2>2
  <2>4. ShareTokens(old, 0) = 0 /\ TruncateInt(0) = 0
    <3>1. old.shares \in Nat \ {0}
      BY <1>2
    <3>2. MulInt(0, old.tokens) = 0
      BY <1>2 DEF MulInt
    <3>3. 0 * One * One = 0 /\ 0 \div old.shares = 0 /\ 0 \div One = 0 /\ 0 % One = 0
      BY <3>1, OneAssumption
    <3>4. Quo(0, old.shares) = 0
      <4>1. TruncQuo(0 * One * One, old.shares) = 0
        BY <3>3 DEF TruncQuo
      <4>2. chopPrecisionAndRound(0) = 0
        BY <3>3, OneAssumption DEF chopPrecisionAndRound, RoundHalfEven
      <4> QED  BY <4>1, <4>2 DEF Quo
    <3> QED  BY <3>2, <3>3, <3>4 DEF ShareTokens, TruncateInt, TruncQuo
  <2>5. TruncateInt(ShareTokens(old, self[v] - shares)) < old.minSelf
    BY <1>3, <2>3, <2>4
  <2> QED  BY <2>2, <2>3, <2>5 DEF Jailing
<1>17. two.shares = 0 => two.tokens = 0
  <2> HIDE DEF two, one, old
  <2> QED  BY <1>2, <1>13, <1>14
<1>18. CASE gone
  <2>1. Left(v, shares, operator) = NoValidator /\ unbond(v, shares, operator) = RemoveValidator(k2, v)
    BY <1>11, <1>12, <1>18
  <2>2. sv = 0
    BY <1>15, <1>18
  <2>3. old.status = "Unbonded"
    BY <1>14, <1>18
  <2>4. ValidatorOK(NoValidator, 0) /\ NoValidator.status = "None"
    BY DEF ValidatorOK, NoValidator
  <2> HIDE DEF k2, two, gone, sv
  <2>5. /\ GoodKeeper(RemoveValidator(k2, v)) /\ SameLists(k2, RemoveValidator(k2, v))
        /\ RemoveValidator(k2, v).validators = [k2.validators EXCEPT ![v] = NoValidator]
    BY <1>8, RemoveStep
  <2>6. [k2.validators EXCEPT ![v] = NoValidator] = [keeper.validators EXCEPT ![v] = NoValidator]
    BY <1>1, <1>9 DEF ValidatorMap
  <2> QED  BY <1>9, <2>1, <2>2, <2>3, <2>4, <2>5, <2>6, NoValidatorType DEF SameLists, sv
<1>19. CASE ~gone
  <2>1. Left(v, shares, operator) = two /\ unbond(v, shares, operator) = k2
    BY <1>11, <1>12, <1>19
  <2>2. ValidatorOK(two, sv)
    <3> HIDE DEF two, sv, old
    <3> QED  BY <1>3, <1>14, <1>15, <1>16, <1>17, <1>19 DEF ValidatorOK
  <2> HIDE DEF k2, two, gone
  <2> QED  BY <1>8, <1>9, <1>14, <2>1, <2>2
<1> QED  BY <1>18, <1>19

\* Shares that somebody takes out are positive.
LEMMA UndelegateStep ==
  ASSUME IInv, NEW v \in Validators, NEW shares \in Nat \ {0}, NEW operator \in BOOLEAN,
         Undelegate(v, shares, operator) \/ SlashRedelegation(v, shares, operator)
  PROVE  IInv' /\ StepSlashable
<1> DEFINE u == unbond(v, shares, operator)
           val == Left(v, shares, operator)
           sv == RemainingSelf(v, shares, operator)[v]
<1>1. /\ shares =< Held(v, operator) /\ self' = RemainingSelf(v, shares, operator)
      /\ keeper' = u \/ \E x : keeper' = [u EXCEPT !.notBonded = x]
      /\ tm' = tm /\ now' = now /\ height' = height /\ phase' \in {"begin", "deliver"}
  BY DEF Undelegate, SlashRedelegation, Delivering, Punishing
<1>2. self' = [self EXCEPT ![v] = sv]
  <2>1. self \in [Validators -> Nat]
    BY DEF IInv, StoreType
  <2> QED  BY <1>1, <2>1 DEF RemainingSelf
<1>3. /\ val \in Validator
      /\ GoodKeeper(u) /\ SameLists(keeper, u)
      /\ u.validators = [keeper.validators EXCEPT ![v] = val]
      /\ ValidatorOK(val, sv)
      /\ \/ val.status = Val(v).status /\ val.unbondingTime = Val(v).unbondingTime
         \/ {val.status, Val(v).status} \subseteq {"None", "Unbonded"}
  BY <1>1, UnbondStep
<1> HIDE DEF u, val, sv
<1>4. GoodKeeper(keeper') /\ SameLists(keeper, keeper') /\ keeper'.validators = u.validators
  <2>1. CASE keeper' = u
    BY <1>3, <2>1
  <2>2. ASSUME NEW x, keeper' = [u EXCEPT !.notBonded = x]
        PROVE  GoodKeeper(keeper') /\ SameLists(keeper, keeper') /\ keeper'.validators = u.validators
    <3>1. GoodKeeper(keeper') /\ SameLists(u, keeper') /\ keeper'.validators = u.validators
      BY <1>3, <2>2, BurnStep
    <3> QED  BY <1>3, <3>1 DEF SameLists
  <2> QED  BY <1>1, <2>1, <2>2
<1> QED  BY <1>1, <1>2, <1>3, <1>4, MessageStep

\* Unjail keeps the invariant.
LEMMA UnjailKeepsInv ==
  ASSUME IInv, NEW v \in Validators, Unjail(v)
  PROVE  IInv' /\ StepSlashable
<1> DEFINE val == [Val(v) EXCEPT !.jailed = FALSE]
<1>1. /\ GoodKeeper(keeper) /\ Val(v) \in Validator /\ Val(v) = keeper.validators[v]
      /\ self \in [Validators -> Nat] /\ ValidatorOK(Val(v), self[v])
  BY Good DEF GoodKeeper, IInv, StoreType, ValidatorMap, Val
<1>2. /\ Val(v).status # "None" /\ self[v] > 0 /\ keeper' = unjailValidator(keeper, v)
      /\ self' = self /\ tm' = tm /\ now' = now /\ height' = height /\ phase' = "deliver"
  BY DEF Unjail, Delivering
<1>3. /\ GoodKeeper(keeper') /\ SameLists(keeper, keeper')
      /\ keeper'.validators = [keeper.validators EXCEPT ![v] = val]
  BY <1>1, <1>2, UnjailStep
<1>4. val \in Validator
  BY <1>1 DEF Validator
<1>5. /\ val.status = Val(v).status /\ val.unbondingTime = Val(v).unbondingTime
      /\ val.shares = Val(v).shares /\ val.tokens = Val(v).tokens /\ val.minSelf = Val(v).minSelf
  BY <1>1 DEF Validator
<1> HIDE DEF val
<1>6. ValidatorOK(val, self[v])
  BY <1>1, <1>2, <1>5 DEF ValidatorOK
<1>7. self' = [self EXCEPT ![v] = self[v]]
  BY <1>1, <1>2
<1> QED  BY <1>2, <1>3, <1>4, <1>5, <1>6, <1>7, MessageStep

\* Slash and Jail of a validator keep the invariant.
LEMMA SlashAndJailStep ==
  ASSUME IInv, NEW v \in Validators, NEW amount \in Amounts, SlashAndJail(v, amount)
  PROVE  IInv' /\ StepSlashable
<1> DEFINE old == Val(v)
           burned == IF amount < old.tokens THEN amount ELSE old.tokens
           k == RemoveValidatorTokens(keeper, v, burned)
           one == Slashed(old, burned)
           val == [one EXCEPT !.jailed = TRUE]
<1>1. /\ GoodKeeper(keeper) /\ old \in Validator /\ old = keeper.validators[v]
      /\ self \in [Validators -> Nat] /\ ValidatorOK(old, self[v]) /\ keeper.validators \in ValidatorMap
  BY Good DEF GoodKeeper, IInv, StoreType, ValidatorMap, Val
<1>2. /\ old.status \in {"Bonded", "Unbonding"} /\ keeper' = IF old.jailed THEN k ELSE jailValidator(k, v)
      /\ self' = self /\ tm' = tm /\ now' = now /\ height' = height /\ phase' = "begin"
  BY DEF SlashAndJail, Punishing, IInv, StoreType
<1>3. burned \in Nat /\ burned =< old.tokens /\ old.tokens \in Nat
  <2>1. old.tokens \in Nat /\ amount \in Nat
    BY <1>1 DEF Validator
  <2> HIDE DEF old
  <2> QED  BY <2>1
<1>4. /\ one \in Validator /\ GoodKeeper(k) /\ SameLists(keeper, k)
      /\ k.validators = Put(keeper.validators, v, one)
  <2> HIDE DEF burned, old
  <2>1. old.status # "None" /\ k = RemoveValidatorTokens(keeper, v, burned)
    BY <1>2
  <2> HIDE DEF k
  <2> QED  BY <1>1, <1>3, <2>1, SlashStep
<1>5. /\ one.status = old.status /\ one.unbondingTime = old.unbondingTime
      /\ one.shares = old.shares /\ one.tokens = old.tokens - burned /\ one.minSelf = old.minSelf
      /\ one.jailed = old.jailed
  <2> HIDE DEF burned, old
  <2> QED  BY <1>1 DEF Slashed, Validator
<1>6. /\ val \in Validator
      /\ val.status = old.status /\ val.unbondingTime = old.unbondingTime /\ val.jailed
      /\ val.shares = old.shares /\ val.tokens = old.tokens - burned /\ val.minSelf = old.minSelf
  <2> HIDE DEF burned, old, one
  <2>1. val \in Validator
    BY <1>4 DEF Validator
  <2>2. /\ val.status = one.status /\ val.unbondingTime = one.unbondingTime /\ val.jailed
        /\ val.shares = one.shares /\ val.tokens = one.tokens /\ val.minSelf = one.minSelf
    BY <1>4 DEF Validator
  <2> QED  BY <1>5, <2>1, <2>2
<1>7. old.shares = 0 => old.tokens - burned = 0
  <2>1. old.shares = 0 => old.tokens = 0
    BY <1>1 DEF ValidatorOK
  <2> HIDE DEF burned, old
  <2> QED  BY <1>3, <2>1
<1>8. self' = [self EXCEPT ![v] = self[v]]
  BY <1>1, <1>2
<1>9. CASE old.jailed
  <2> HIDE DEF old, burned, one, k
  <2>1. keeper' = k /\ k.validators = [keeper.validators EXCEPT ![v] = one]
    BY <1>2, <1>4, <1>9 DEF Put
  <2>2. ValidatorOK(one, self[v])
    BY <1>1, <1>2, <1>5, <1>7, <1>9 DEF ValidatorOK
  <2> QED  BY <1>2, <1>4, <1>5, <1>8, <2>1, <2>2, MessageStep DEF old
<1>10. CASE ~old.jailed
  <2> HIDE DEF old, burned, one, k
  <2>1. keeper' = jailValidator(k, v)
    BY <1>2, <1>10
  <2>2. k.validators[v] = one
    BY <1>1, <1>4 DEF Put, ValidatorMap
  <2>3. /\ GoodKeeper(keeper') /\ SameLists(k, keeper')
        /\ keeper'.validators = [k.validators EXCEPT ![v] = [k.validators[v] EXCEPT !.jailed = TRUE]]
    BY <1>4, <2>1, JailStep
  <2>4. keeper'.validators = [k.validators EXCEPT ![v] = val]
    BY <2>2, <2>3
  <2>5. keeper'.validators = [keeper.validators EXCEPT ![v] = val] /\ SameLists(keeper, keeper')
    <3> HIDE DEF val
    <3> QED  BY <1>1, <1>4, <2>3, <2>4 DEF Put, ValidatorMap, SameLists
  <2>6. ValidatorOK(val, self[v])
    <3> HIDE DEF val
    <3> QED  BY <1>1, <1>2, <1>6, <1>7 DEF ValidatorOK
  <2> HIDE DEF val
  <2> QED  BY <1>2, <1>6, <1>8, <2>3, <2>5, <2>6, MessageStep DEF old
<1> QED  BY <1>9, <1>10

\* BeginBlock keeps the invariant.
LEMMA BeginBlockStep ==
  ASSUME IInv, NEW step \in TimeSteps, BeginBlock(step)
  PROVE  IInv' /\ StepSlashable
<1>1. /\ keeper' = keeper /\ self' = self /\ tm' = tm /\ phase' = "begin"
      /\ now' = now + step /\ height' = height + 1
  BY DEF BeginBlock
<1>2. now' \in Nat /\ height' \in Nat
  <2>1. now \in Nat /\ height \in Nat
    BY DEF IInv, StoreType
  <2>2. step \in Nat
    OBVIOUS
  <2> QED  BY <1>1, <2>1, <2>2
<1>3. StoreType'
  BY <1>1, <1>2 DEF IInv, StoreType
<1>4. \A v \in Validators : ValidatorOK(Val(v), self[v])'
  BY <1>1 DEF IInv, Val
<1>5. IndexExact' /\ QueueExact' /\ TendermintAgrees'
  BY <1>1 DEF IInv, IndexExact, QueueExact, TendermintAgrees, Val
<1>6. StepSlashable
  BY <1>1 DEF StepSlashable, Val
<1> QED  BY <1>3, <1>4, <1>5, <1>6 DEF IInv

-----------------------------------------------------------------------------
(* The end of a block *)

\* What the first loop makes of the validators.
LEMMA Election ==
  ASSUME IInv
  PROVE  /\ \A v \in Elected(keeper) :
               /\ v \in Validators /\ Val(v).status # "None" /\ ~Val(v).jailed
               /\ PotentialTendermintPower(Val(v)) > 0
               /\ <<Val(v).tokens, v>> \in Visited(keeper)
         /\ \A v \in NoLongerBonded(keeper) : v \in Validators /\ Val(v).status = "Bonded"
         /\ \A v \in Validators \ (Elected(keeper) \cup NoLongerBonded(keeper)) :
               keeper.last[v] = 0 /\ Val(v).status # "Bonded"
<1>1. keeper.last \in [Validators -> Nat]
  BY DEF IInv, StoreType
<1>2. \A e \in keeper.index : \E v \in Validators :
        e = <<Val(v).tokens, v>> /\ Val(v).status # "None" /\ ~Val(v).jailed
  BY DEF IInv, IndexExact
<1>3. ASSUME NEW v \in Elected(keeper)
      PROVE  /\ v \in Validators /\ Val(v).status # "None" /\ ~Val(v).jailed
             /\ PotentialTendermintPower(Val(v)) > 0
             /\ <<Val(v).tokens, v>> \in Visited(keeper)
  <2>1. PICK e \in Visited(keeper) : Powerful(keeper, e) /\ v = e[2]
    BY DEF Elected
  <2>2. e \in keeper.index
    BY <2>1 DEF Visited
  <2>3. PICK w \in Validators : e = <<Val(w).tokens, w>> /\ Val(w).status # "None" /\ ~Val(w).jailed
    BY <1>2, <2>2
  <2>4. w = v
    BY <2>1, <2>3
  <2> QED  BY <2>1, <2>3, <2>4 DEF Powerful, Val
<1>4. \A v \in Validators : keeper.last[v] > 0 <=> Val(v).status = "Bonded"
  BY DEF IInv, TendermintAgrees
<1>5. \A v \in NoLongerBonded(keeper) : v \in Validators /\ Val(v).status = "Bonded"
  BY <1>1, <1>4 DEF NoLongerBonded
<1>6. \A v \in Validators \ (Elected(keeper) \cup NoLongerBonded(keeper)) :
               keeper.last[v] = 0 /\ Val(v).status # "Bonded"
  BY <1>1, <1>4 DEF NoLongerBonded
<1> QED  BY <1>3, <1>5, <1>6

\* The store between the two halves of EndBlocker.
Applied == ApplyValidatorSetUpdates(keeper, now, height)

\* ApplyAndReturnValidatorSetUpdates keeps the keeper good and follows the election.
LEMMA AppliedStep ==
  ASSUME IInv
  PROVE  /\ GoodKeeper(Applied)
         /\ Applied.queue = QueueOf(Applied.validators)
         /\ Applied.last = [v \in Validators |->
                IF v \in Elected(keeper) THEN PotentialTendermintPower(Val(v)) ELSE 0]
         /\ \A v \in Validators :
                /\ Applied.validators[v].status =
                       IF v \in Elected(keeper) THEN "Bonded"
                       ELSE IF v \in NoLongerBonded(keeper) THEN "Unbonding"
                       ELSE Val(v).status
                /\ Applied.validators[v].unbondingTime =
                       IF v \in NoLongerBonded(keeper) THEN now + UnbondingTime
                       ELSE Val(v).unbondingTime
                /\ Applied.validators[v].jailed = Val(v).jailed
                /\ Applied.validators[v].tokens = Val(v).tokens
                /\ Applied.validators[v].shares = Val(v).shares
                /\ Applied.validators[v].minSelf = Val(v).minSelf
                /\ Val(v).status = "None" => Applied.validators[v] = Val(v)
<1> DEFINE A == Applied
           E == Elected(keeper)
           L == NoLongerBonded(keeper)
           N == NewlyBonded(keeper)
           new(v) == Transition(keeper, v, now, height)
<1>1. /\ keeper.validators \in ValidatorMap /\ IsKeeper(keeper) /\ now \in Nat /\ height \in Nat
      /\ keeper.index = IndexOf(keeper.validators) /\ keeper.queue = QueueOf(keeper.validators)
      /\ \A v \in Validators : Val(v) \in Validator /\ Val(v) = keeper.validators[v]
  BY Exact DEF IInv, StoreType, ValidatorMap, Val
<1>2. /\ IsKeeper(A)
      /\ A.validators = [v \in Validators |-> new(v)]
      /\ A.index = (keeper.index \ {<<keeper.validators[v].tokens, v>> : v \in N \cup L})
                   \cup UNION {SetValidatorByPowerIndex(v, keeper.validators[v]) : v \in N \cup L}
      /\ A.queue = DeleteValidatorQueue(keeper, N) \cup {<<now + UnbondingTime, v>> : v \in L}
      /\ A.last = [v \in Validators |->
                      IF v \in E THEN PotentialTendermintPower(keeper.validators[v]) ELSE 0]
  BY <1>1 DEF IsKeeper, Fields, Applied, ApplyValidatorSetUpdates, notBondedTokensToBonded
<1>3. /\ \A v \in E : v \in Validators /\ Val(v).status # "None" /\ ~Val(v).jailed
      /\ \A v \in L : v \in Validators /\ Val(v).status = "Bonded" /\ v \notin E
      /\ \A v \in Validators \ (E \cup L) : Val(v).status # "Bonded"
      /\ \A v \in N : v \in E /\ Val(v).status # "Bonded"
      /\ \A v \in E \ N : Val(v).status = "Bonded"
  BY Election DEF NoLongerBonded, NewlyBonded, Val
<1>4. ASSUME NEW v \in Validators
      PROVE  /\ new(v) \in Validator
             /\ new(v).status = IF v \in E THEN "Bonded" ELSE IF v \in L THEN "Unbonding" ELSE Val(v).status
             /\ new(v).unbondingTime = IF v \in L THEN now + UnbondingTime ELSE Val(v).unbondingTime
             /\ new(v).jailed = Val(v).jailed /\ new(v).tokens = Val(v).tokens
             /\ new(v).shares = Val(v).shares /\ new(v).minSelf = Val(v).minSelf
             /\ v \notin E \cup L => new(v) = Val(v)
  <2> HIDE DEF E, L
  <2>1. CASE v \in E
    <3>0. v \notin L
      BY <1>3, <2>1
    <3>1. new(v) = [Val(v) EXCEPT !.status = "Bonded"]
      BY <2>1, <3>0 DEF Transition, Val, E, L
    <3>2. Val(v) \in Validator
      BY <1>1
    <3>3. [Val(v) EXCEPT !.status = "Bonded"] \in Validator
      BY <3>2 DEF Validator, Statuses
    <3> HIDE DEF new
    <3> QED  BY <2>1, <3>0, <3>1, <3>2, <3>3 DEF Validator
  <2>2. CASE v \in L
    <3>1. new(v) = [Val(v) EXCEPT !.status = "Unbonding", !.unbondingTime = now + UnbondingTime,
                                  !.unbondingHeight = height] /\ v \notin E
      BY <1>1, <1>3, <2>2 DEF Transition, E, L
    <3>2. Val(v) \in Validator /\ now + UnbondingTime \in Nat /\ height \in Nat
      BY <1>1
    <3>3. [Val(v) EXCEPT !.status = "Unbonding", !.unbondingTime = now + UnbondingTime,
                         !.unbondingHeight = height] \in Validator
      BY <3>2 DEF Validator, Statuses
    <3> HIDE DEF new
    <3> QED  BY <2>2, <3>1, <3>2, <3>3 DEF Validator
  <2>3. CASE v \notin E \cup L
    <3>1. new(v) = Val(v)
      BY <1>1, <2>3 DEF Transition, E, L
    <3> HIDE DEF new
    <3> QED  BY <1>1, <2>3, <3>1
  <2> QED  BY <2>1, <2>2, <2>3
<1> HIDE DEF new, A, E, L, N
<1>5. A.validators \in ValidatorMap
  BY <1>2, <1>4 DEF ValidatorMap
<1>6. \A v \in Validators : A.validators[v] = new(v)
  BY <1>2
<1>7. A.index = IndexOf(A.validators)
  <2>1. IndexOf(A.validators) = IndexOf(keeper.validators)
    BY <1>1, <1>3, <1>4, <1>6 DEF IndexOf
  <2>2. ASSUME NEW v \in N \cup L
        PROVE  v \in Validators /\ Val(v).status # "None"
    BY <1>3
  <2>3. ASSUME NEW e \in A.index  PROVE e \in keeper.index
    <3>1. CASE e \in UNION {SetValidatorByPowerIndex(v, keeper.validators[v]) : v \in N \cup L}
      <4>1. PICK v \in N \cup L : e \in SetValidatorByPowerIndex(v, keeper.validators[v])
        BY <3>1
      <4> QED  BY <1>1, <2>2, <4>1 DEF IndexOf, SetValidatorByPowerIndex
    <3> QED  BY <1>2, <3>1
  <2>4. ASSUME NEW e \in keeper.index  PROVE e \in A.index
    <3>1. PICK v \in Validators : e = <<keeper.validators[v].tokens, v>> /\ ~keeper.validators[v].jailed
      BY <1>1 DEF IndexOf
    <3>2. CASE v \in N \cup L
      <4>1. e \in SetValidatorByPowerIndex(v, keeper.validators[v])
        BY <3>1 DEF SetValidatorByPowerIndex
      <4> QED  BY <1>2, <3>2, <4>1
    <3>3. CASE v \notin N \cup L
      <4>1. e \notin {<<keeper.validators[w].tokens, w>> : w \in N \cup L}
        BY <3>1, <3>3
      <4> QED  BY <1>2, <4>1
    <3> QED  BY <3>2, <3>3
  <2>5. A.index = keeper.index
    BY <2>3, <2>4
  <2> QED  BY <1>1, <2>1, <2>5
<1>8. A.queue = QueueOf(A.validators)
  <2>1. ASSUME NEW e \in A.queue  PROVE e \in QueueOf(A.validators)
    <3>1. CASE e \in {<<now + UnbondingTime, v>> : v \in L}
      <4>1. PICK v \in L : e = <<now + UnbondingTime, v>>
        BY <3>1
      <4>2. v \in Validators /\ new(v).status = "Unbonding" /\ new(v).unbondingTime = now + UnbondingTime
        BY <1>3, <1>4
      <4> QED  BY <1>6, <4>1, <4>2 DEF QueueOf
    <3>2. CASE e \in DeleteValidatorQueue(keeper, N)
      <4>1. PICK v \in Validators : e = <<Val(v).unbondingTime, v>> /\ Val(v).status = "Unbonding"
        BY <1>1, <3>2 DEF DeleteValidatorQueue, QueueOf
      <4>2. v \notin N
        BY <1>1, <3>2, <4>1 DEF DeleteValidatorQueue
      <4>3. v \notin E \cup L
        BY <1>3, <4>1, <4>2
      <4> QED  BY <1>4, <1>6, <4>1, <4>3 DEF QueueOf
    <3> QED  BY <1>2, <3>1, <3>2
  <2>2. ASSUME NEW e \in QueueOf(A.validators)  PROVE e \in A.queue
    <3>1. PICK v \in Validators : e = <<new(v).unbondingTime, v>> /\ new(v).status = "Unbonding"
      BY <1>6 DEF QueueOf
    <3>2. CASE v \in L
      BY <1>2, <1>4, <3>1, <3>2
    <3>3. CASE v \notin L
      <4>1. v \notin E /\ e = <<Val(v).unbondingTime, v>> /\ Val(v).status = "Unbonding"
        BY <1>4, <3>1, <3>3
      <4>2. e \in keeper.queue /\ v \notin N
        BY <1>1, <1>3, <4>1 DEF QueueOf
      <4>3. e \in DeleteValidatorQueue(keeper, N)
        BY <4>1, <4>2 DEF DeleteValidatorQueue
      <4> QED  BY <1>2, <4>3
    <3> QED  BY <3>2, <3>3
  <2> QED  BY <2>1, <2>2
<1>9. GoodKeeper(A)
  BY <1>2, <1>5, <1>7 DEF GoodKeeper
<1>10. \A v \in Validators : Val(v).status = "None" => v \notin E \cup L
  BY <1>3
<1> QED  BY <1>1, <1>2, <1>4, <1>6, <1>8, <1>9, <1>10 DEF A, E, L

\* The validators that UnbondAllMatureValidatorQueue finds.
LEMMA MatureOnes ==
  ASSUME IInv, NEW v \in Validators
  PROVE  v \in MatureValidators(Applied, now) <=>
             /\ Applied.validators[v].status = "Unbonding"
             /\ Applied.validators[v].unbondingTime =< now
<1>1. Applied.queue = QueueOf(Applied.validators)
  BY AppliedStep
<1>2. ASSUME v \in MatureValidators(Applied, now)
      PROVE  Applied.validators[v].status = "Unbonding" /\ Applied.validators[v].unbondingTime =< now
  <2>1. PICK e \in QueueOf(Applied.validators) : e[1] =< now /\ e[2] = v
    BY <1>1, <1>2 DEF MatureValidators
  <2>2. PICK w \in Validators : /\ e = <<Applied.validators[w].unbondingTime, w>>
                                /\ Applied.validators[w].status = "Unbonding"
    BY DEF QueueOf
  <2> QED  BY <2>1, <2>2
<1>3. ASSUME Applied.validators[v].status = "Unbonding", Applied.validators[v].unbondingTime =< now
      PROVE  v \in MatureValidators(Applied, now)
  <2>1. <<Applied.validators[v].unbondingTime, v>> \in Applied.queue
    BY <1>1, <1>3 DEF QueueOf
  <2> QED  BY <1>3, <2>1 DEF MatureValidators
<1> QED  BY <1>2, <1>3

\* What the end of a block makes of every validator.
LEMMA EndBlockValidators ==
  ASSUME IInv, EndBlock
  PROVE  /\ IsKeeper(keeper') /\ keeper'.validators \in ValidatorMap
         /\ keeper'.last = Applied.last
         /\ keeper'.index = Applied.index \ {<<Applied.validators[v].tokens, v>> :
                v \in {w \in MatureValidators(Applied, now) : Applied.validators[w].shares = 0}}
         /\ keeper'.queue = {e \in Applied.queue : e[1] > now}
         /\ \A v \in Validators :
              IF v \in MatureValidators(Applied, now)
              THEN IF Applied.validators[v].shares = 0 THEN Val(v)' = NoValidator
                   ELSE Val(v)' = [Applied.validators[v] EXCEPT !.status = "Unbonded"]
              ELSE Val(v)' = Applied.validators[v]
<1> DEFINE M == MatureValidators(Applied, now)
           R == {v \in M : Applied.validators[v].shares = 0}
           new(v) == CASE v \in R -> NoValidator
                       [] v \in M \ R -> [Applied.validators[v] EXCEPT !.status = "Unbonded"]
                       [] OTHER -> Applied.validators[v]
<1>1. keeper' = UnbondAllMatureValidatorQueue(Applied, now)
  BY DEF EndBlock, Applied
<1>2. GoodKeeper(Applied)
  BY AppliedStep
<1>3. IsKeeper(Applied) /\ Applied.validators \in ValidatorMap
  BY <1>2 DEF GoodKeeper
<1> HIDE DEF Applied
<1>4. /\ IsKeeper(keeper') /\ keeper'.last = Applied.last
      /\ keeper'.validators = [v \in Validators |-> new(v)]
      /\ keeper'.index = Applied.index \ {<<Applied.validators[v].tokens, v>> : v \in R}
      /\ keeper'.queue = {e \in Applied.queue : e[1] > now}
  BY <1>1, <1>3 DEF IsKeeper, Fields, UnbondAllMatureValidatorQueue
<1>5. ASSUME NEW v \in Validators
      PROVE  /\ new(v) \in Validator
             /\ IF v \in M
                THEN IF Applied.validators[v].shares = 0 THEN new(v) = NoValidator
                     ELSE new(v) = [Applied.validators[v] EXCEPT !.status = "Unbonded"]
                ELSE new(v) = Applied.validators[v]
  <2>1. Applied.validators[v] \in Validator
    BY <1>3 DEF ValidatorMap
  <2>2. [Applied.validators[v] EXCEPT !.status = "Unbonded"] \in Validator
    BY <2>1 DEF Validator, Statuses
  <2>3. IF v \in M
        THEN IF Applied.validators[v].shares = 0 THEN new(v) = NoValidator
             ELSE new(v) = [Applied.validators[v] EXCEPT !.status = "Unbonded"]
        ELSE new(v) = Applied.validators[v]
    <3> HIDE DEF M
    <3> QED  OBVIOUS
  <2> HIDE DEF new, M
  <2> QED  BY <2>1, <2>2, <2>3, NoValidatorType
<1> HIDE DEF new
<1>6. keeper'.validators \in ValidatorMap /\ \A v \in Validators : Val(v)' = new(v)
  BY <1>4, <1>5 DEF ValidatorMap, Val
<1> QED  BY <1>4, <1>5, <1>6

\* The fields of every validator after the end of a block.
LEMMA EndBlockFields ==
  ASSUME IInv, EndBlock, NEW v \in Validators
  PROVE  \/ /\ v \in Elected(keeper)
            /\ Val(v)'.status = "Bonded"
            /\ Val(v)'.jailed = Val(v).jailed /\ Val(v)'.tokens = Val(v).tokens
            /\ Val(v)'.shares = Val(v).shares /\ Val(v)'.minSelf = Val(v).minSelf
         \/ /\ v \notin Elected(keeper) /\ Val(v)'.status # "Bonded"
            /\ Val(v)'.jailed = Val(v).jailed /\ Val(v)'.tokens = Val(v).tokens
            /\ Val(v)'.shares = Val(v).shares /\ Val(v)'.minSelf = Val(v).minSelf
            /\ Val(v)'.status = "None" <=> Val(v).status = "None"
            /\ Val(v).status = "None" => Val(v)' = Val(v)
            /\ Val(v)'.status = "Unbonded" =>
                 \/ Val(v).status = "Unbonded"
                 \/ Val(v).shares # 0 /\ v \in MatureValidators(Applied, now)
         \/ /\ v \notin Elected(keeper) /\ Val(v)' = NoValidator
            /\ Val(v).shares = 0 /\ Val(v).tokens = 0 /\ v \in MatureValidators(Applied, now)
<1> DEFINE a == Applied.validators[v]
<1>1. /\ a.status = IF v \in Elected(keeper) THEN "Bonded"
                    ELSE IF v \in NoLongerBonded(keeper) THEN "Unbonding" ELSE Val(v).status
      /\ a.jailed = Val(v).jailed /\ a.tokens = Val(v).tokens
      /\ a.shares = Val(v).shares /\ a.minSelf = Val(v).minSelf
      /\ Val(v).status = "None" => a = Val(v)
      /\ a \in Validator
  BY AppliedStep DEF GoodKeeper, ValidatorMap
<1>2. v \in MatureValidators(Applied, now) => a.status = "Unbonding"
  BY MatureOnes
<1>3. IF v \in MatureValidators(Applied, now)
      THEN IF a.shares = 0 THEN Val(v)' = NoValidator
           ELSE Val(v)' = [a EXCEPT !.status = "Unbonded"]
      ELSE Val(v)' = a
  BY EndBlockValidators
<1>4. /\ Val(v).shares = 0 => Val(v).tokens = 0
      /\ v \in NoLongerBonded(keeper) => Val(v).status = "Bonded"
      /\ Val(v).status = "Bonded" => v \in Elected(keeper) \cup NoLongerBonded(keeper)
  BY Election DEF IInv, ValidatorOK
<1> HIDE DEF a
<1>5. CASE v \notin MatureValidators(Applied, now)
  <2>1. Val(v)' = a
    BY <1>3, <1>5
  <2> QED  BY <1>1, <1>4, <1>5, <2>1
<1>6. CASE v \in MatureValidators(Applied, now) /\ a.shares = 0
  <2>1. Val(v)' = NoValidator /\ v \notin Elected(keeper)
    BY <1>1, <1>2, <1>3, <1>6
  <2> QED  BY <1>1, <1>4, <1>6, <2>1
<1>7. CASE v \in MatureValidators(Applied, now) /\ a.shares # 0
  <2>1. Val(v)' = [a EXCEPT !.status = "Unbonded"] /\ v \notin Elected(keeper)
    BY <1>1, <1>2, <1>3, <1>7
  <2>2. /\ [a EXCEPT !.status = "Unbonded"].status = "Unbonded"
        /\ [a EXCEPT !.status = "Unbonded"].jailed = a.jailed
        /\ [a EXCEPT !.status = "Unbonded"].tokens = a.tokens
        /\ [a EXCEPT !.status = "Unbonded"].shares = a.shares
        /\ [a EXCEPT !.status = "Unbonded"].minSelf = a.minSelf
    BY <1>1 DEF Validator
  <2>3. Val(v).status # "None"
    BY <1>1, <1>2, <1>7
  <2> QED  BY <1>1, <1>7, <2>1, <2>2, <2>3
<1> QED  BY <1>5, <1>6, <1>7

\* EndBlock keeps the invariant.
LEMMA EndBlockStep ==
  ASSUME IInv, EndBlock
  PROVE  IInv' /\ StepSlashable
<1> DEFINE M == MatureValidators(Applied, now)
           E == Elected(keeper)
<1>1. /\ self' = self /\ now' = now /\ height' = height /\ phase' = "committed"
      /\ tm' = UpdateState(tm, ValidatorUpdates(keeper))
  BY DEF EndBlock
<1>2. /\ self \in [Validators -> Nat] /\ now \in Nat /\ height \in Nat
      /\ keeper.last \in [Validators -> Nat] /\ tm = keeper.last
      /\ keeper.validators \in ValidatorMap
      /\ \A v \in Validators : Val(v) \in Validator
  BY DEF IInv, StoreType, TendermintAgrees, ValidatorMap, Val
<1>3. \A v \in Validators : PotentialTendermintPower(Val(v)) \in Nat
  <2> SUFFICES ASSUME NEW v \in Validators  PROVE PotentialTendermintPower(Val(v)) \in Nat
    OBVIOUS
  <2>1. Val(v).tokens \in Nat
    BY <1>2 DEF Validator
  <2> QED  BY <2>1, DivBounds DEF PotentialTendermintPower
<1>4. Applied.last = [v \in Validators |-> IF v \in E THEN PotentialTendermintPower(Val(v)) ELSE 0]
  BY AppliedStep
<1>5. StoreType'
  <2>1. /\ IsKeeper(keeper') /\ keeper'.validators \in ValidatorMap /\ keeper'.last = Applied.last
    BY EndBlockValidators
  <2>2. Applied.last \in [Validators -> Nat]
    BY <1>3, <1>4
  <2> QED  BY <1>1, <1>2, <2>1, <2>2 DEF StoreType
<1>6. ASSUME NEW v \in Validators
      PROVE  ValidatorOK(Val(v)', self[v])
  <2>1. ValidatorOK(Val(v), self[v]) /\ self[v] \in Nat /\ Val(v).shares \in Nat
    BY <1>2 DEF IInv, Validator
  <2>2. v \in E => Val(v).status # "None" /\ ~Val(v).jailed
    BY Election
  <2>3. CASE Val(v)' = NoValidator /\ Val(v).shares = 0
    <3>1. self[v] = 0
      BY <2>1, <2>3 DEF ValidatorOK
    <3>2. /\ NoValidator.shares = 0 /\ NoValidator.tokens = 0 /\ NoValidator.status = "None"
      BY DEF NoValidator
    <3> QED  BY <2>3, <3>1, <3>2 DEF ValidatorOK
  <2>4. CASE ~(Val(v)' = NoValidator /\ Val(v).shares = 0)
    <3>1. \/ /\ v \in E
             /\ Val(v)'.status = "Bonded"
             /\ Val(v)'.jailed = Val(v).jailed /\ Val(v)'.tokens = Val(v).tokens
             /\ Val(v)'.shares = Val(v).shares /\ Val(v)'.minSelf = Val(v).minSelf
          \/ /\ Val(v)'.jailed = Val(v).jailed /\ Val(v)'.tokens = Val(v).tokens
             /\ Val(v)'.shares = Val(v).shares /\ Val(v)'.minSelf = Val(v).minSelf
             /\ Val(v)'.status = "None" <=> Val(v).status = "None"
             /\ Val(v).status = "None" => Val(v)' = Val(v)
             /\ Val(v)'.status = "Unbonded" => Val(v).status = "Unbonded" \/ Val(v).shares # 0
      BY <2>4, EndBlockFields
    <3> HIDE DEF E
    <3> QED  BY <2>1, <2>2, <3>1 DEF ValidatorOK
  <2> QED  BY <2>3, <2>4
<1>7. IndexExact'
  <2>1. /\ keeper'.index = Applied.index \ {<<Applied.validators[v].tokens, v>> :
                v \in {w \in M : Applied.validators[w].shares = 0}}
        /\ Applied.index = IndexOf(Applied.validators)
    BY EndBlockValidators, AppliedStep DEF GoodKeeper
  <2> DEFINE R == {w \in M : Applied.validators[w].shares = 0}
  <2>2. ASSUME NEW v \in Validators
        PROVE  /\ v \in R => Val(v)'.status = "None"
               /\ v \notin R => /\ Val(v)'.tokens = Applied.validators[v].tokens
                                /\ Val(v)'.jailed = Applied.validators[v].jailed
                                /\ Val(v)'.status = "None" <=> Applied.validators[v].status = "None"
    <3>1. Applied.validators[v] \in Validator
      BY AppliedStep DEF GoodKeeper, ValidatorMap
    <3>2. v \in M => Applied.validators[v].status = "Unbonding"
      BY MatureOnes
    <3>3. IF v \in M
          THEN IF Applied.validators[v].shares = 0 THEN Val(v)' = NoValidator
               ELSE Val(v)' = [Applied.validators[v] EXCEPT !.status = "Unbonded"]
          ELSE Val(v)' = Applied.validators[v]
      BY EndBlockValidators
    <3>4. NoValidator.status = "None"
      BY DEF NoValidator
    <3> HIDE DEF M
    <3> QED  BY <3>1, <3>2, <3>3, <3>4 DEF Validator
  <2>3. R \subseteq Validators
    BY DEF MatureValidators
  <2> HIDE DEF R
  <2>4. keeper'.index = IndexOf(Applied.validators) \ {<<Applied.validators[v].tokens, v>> : v \in R}
    BY <2>1 DEF R
  <2>5. ASSUME NEW e \in keeper'.index  PROVE e \in IndexOf(keeper'.validators)
    <3>1. PICK v \in Validators : /\ e = <<Applied.validators[v].tokens, v>>
                                  /\ Applied.validators[v].status # "None" /\ ~Applied.validators[v].jailed
      BY <2>4 DEF IndexOf
    <3>2. v \notin R
      BY <2>4, <3>1
    <3> QED  BY <2>2, <3>1, <3>2 DEF IndexOf, Val
  <2>6. ASSUME NEW e \in IndexOf(keeper'.validators)  PROVE e \in keeper'.index
    <3>1. PICK v \in Validators : e = <<Val(v)'.tokens, v>> /\ Val(v)'.status # "None" /\ ~Val(v)'.jailed
      BY DEF IndexOf, Val
    <3>2. v \notin R
      BY <2>2, <3>1
    <3>3. e \in IndexOf(Applied.validators)
      BY <2>2, <3>1, <3>2 DEF IndexOf
    <3>4. e \notin {<<Applied.validators[w].tokens, w>> : w \in R}
      BY <3>1, <3>2
    <3> QED  BY <2>4, <3>3, <3>4
  <2>7. keeper'.index = IndexOf(keeper'.validators)
    BY <2>5, <2>6
  <2> QED  BY <2>7 DEF IndexExact, IndexOf, Val
<1>8. QueueExact'
  <2>1. keeper'.queue = {e \in QueueOf(Applied.validators) : e[1] > now}
    BY EndBlockValidators, AppliedStep
  <2>2. ASSUME NEW v \in Validators
        PROVE  /\ Applied.validators[v].unbondingTime \in Nat
               /\ v \in M <=> /\ Applied.validators[v].status = "Unbonding"
                              /\ Applied.validators[v].unbondingTime =< now
               /\ v \in M => Val(v)'.status # "Unbonding"
               /\ v \notin M => Val(v)' = Applied.validators[v]
    <3>1. Applied.validators[v] \in Validator
      BY AppliedStep DEF GoodKeeper, ValidatorMap
    <3>2. v \in M <=> /\ Applied.validators[v].status = "Unbonding"
                      /\ Applied.validators[v].unbondingTime =< now
      BY MatureOnes
    <3>3. IF v \in M
          THEN IF Applied.validators[v].shares = 0 THEN Val(v)' = NoValidator
               ELSE Val(v)' = [Applied.validators[v] EXCEPT !.status = "Unbonded"]
          ELSE Val(v)' = Applied.validators[v]
      BY EndBlockValidators
    <3>4. NoValidator.status = "None"
      BY DEF NoValidator
    <3>5. [Applied.validators[v] EXCEPT !.status = "Unbonded"].status = "Unbonded"
          /\ Applied.validators[v].unbondingTime \in Nat
      BY <3>1 DEF Validator
    <3> HIDE DEF M
    <3> QED  BY <3>2, <3>3, <3>4, <3>5
  <2> HIDE DEF M
  <2>3. ASSUME NEW e \in keeper'.queue  PROVE e \in QueueOf(keeper'.validators)
    <3>1. PICK v \in Validators : /\ e = <<Applied.validators[v].unbondingTime, v>>
                                  /\ Applied.validators[v].status = "Unbonding"
      BY <2>1 DEF QueueOf
    <3>2. e[1] > now /\ e[1] = Applied.validators[v].unbondingTime
      BY <2>1, <3>1
    <3>3. v \notin M
      BY <1>2, <2>2, <3>2
    <3> QED  BY <2>2, <3>1, <3>3 DEF QueueOf, Val
  <2>4. ASSUME NEW e \in QueueOf(keeper'.validators)  PROVE e \in keeper'.queue
    <3>1. PICK v \in Validators : e = <<Val(v)'.unbondingTime, v>> /\ Val(v)'.status = "Unbonding"
      BY DEF QueueOf, Val
    <3>2. v \notin M /\ Val(v)' = Applied.validators[v]
      BY <2>2, <3>1
    <3>3. e[1] > now
      BY <1>2, <2>2, <3>1, <3>2
    <3>4. e \in QueueOf(Applied.validators)
      BY <3>1, <3>2 DEF QueueOf
    <3> QED  BY <2>1, <3>3, <3>4
  <2>5. keeper'.queue = QueueOf(keeper'.validators)
    BY <2>3, <2>4
  <2> QED  BY <1>1, <2>1, <2>5 DEF QueueExact, QueueOf, Val
<1>9. TendermintAgrees'
  <2>1. keeper'.last = Applied.last
    BY EndBlockValidators
  <2> DEFINE power(v) == PotentialTendermintPower(Val(v))
             U == ValidatorUpdates(keeper)
             D == {w \in E : keeper.last[w] # power(w)} \cup NoLongerBonded(keeper)
  <2>2. U = [v \in D |-> IF v \in E THEN power(v) ELSE 0]
    BY DEF ValidatorUpdates, Val
  <2>3. /\ E \subseteq Validators /\ \A v \in E : power(v) > 0
        /\ \A v \in Validators \ (E \cup NoLongerBonded(keeper)) : keeper.last[v] = 0
    BY Election
  <2>4. \A v \in NoLongerBonded(keeper) : v \notin E
    BY DEF NoLongerBonded
  <2>5. tm' = [v \in Validators |-> IF v \in DOMAIN U THEN U[v] ELSE tm[v]]
    BY <1>1 DEF UpdateState
  <2> HIDE DEF U, E, power
  <2>6. ASSUME NEW v \in Validators  PROVE tm'[v] = IF v \in E THEN power(v) ELSE 0
    BY <1>2, <2>2, <2>3, <2>4, <2>5
  <2>7. tm' = Applied.last
    BY <1>4, <2>5, <2>6 DEF power
  <2>8. ASSUME NEW v \in Validators  PROVE keeper'.last[v] > 0 <=> Val(v)'.status = "Bonded"
    <3>1. v \in E <=> Val(v)'.status = "Bonded"
      <4>1. NoValidator.status # "Bonded"
        BY DEF NoValidator
      <4> QED  BY <4>1, EndBlockFields DEF E
    <3>2. Applied.last[v] > 0 <=> v \in E
      <4>1. Applied.last[v] = IF v \in E THEN power(v) ELSE 0
        BY <1>4 DEF power
      <4>2. CASE v \in E
        <5>1. power(v) > 0
          BY <2>3, <4>2
        <5> QED  BY <4>1, <4>2, <5>1
      <4>3. CASE v \notin E
        <5>1. Applied.last[v] = 0
          BY <4>1, <4>3
        <5> QED  BY <4>3, <5>1
      <4> QED  BY <4>2, <4>3
    <3> QED  BY <2>1, <3>1, <3>2
  <2> QED  BY <2>1, <2>7, <2>8 DEF TendermintAgrees
<1>10. StepSlashable
  <2> SUFFICES ASSUME NEW v \in Validators,
                      Val(v).status \in {"Bonded", "Unbonding"}, Val(v)'.status \in {"Unbonded", "None"}
               PROVE  \/ Val(v).status = "Unbonding" /\ now >= Val(v).unbondingTime
                      \/ Val(v).status = "Bonded" /\ UnbondingTime = 0
    BY DEF StepSlashable
  <2>1. v \in M /\ v \notin E
    BY EndBlockFields
  <2>2. Applied.validators[v].unbondingTime =< now
    BY <2>1, MatureOnes
  <2>3. Applied.validators[v].unbondingTime =
            IF v \in NoLongerBonded(keeper) THEN now + UnbondingTime ELSE Val(v).unbondingTime
    BY AppliedStep
  <2>4. /\ v \in NoLongerBonded(keeper) => Val(v).status = "Bonded"
        /\ v \notin NoLongerBonded(keeper) => Val(v).status # "Bonded"
    BY <2>1, Election
  <2>5. Val(v).unbondingTime \in Nat
    BY <1>2 DEF Validator
  <2> HIDE DEF M, E
  <2> QED  BY <1>2, <2>2, <2>3, <2>4, <2>5
<1>11. \A v \in Validators : ValidatorOK(Val(v), self[v])'
  BY <1>1, <1>6
<1> QED  BY <1>5, <1>7, <1>8, <1>9, <1>10, <1>11 DEF IInv

-----------------------------------------------------------------------------
(* The election *)

Preceding(e) == {f \in keeper.index : Before(f, e)}

\* The keys before a key of the index are finitely many.
LEMMA PrecedingFinite ==
  ASSUME IInv, NEW e
  PROVE  IsFiniteSet(Preceding(e)) /\ Cardinality(Preceding(e)) \in Nat
<1> DEFINE f == [x \in keeper.index |-> x[2]]
<1>1. \A x \in keeper.index : \E v \in Validators : x = <<Val(v).tokens, v>>
  BY DEF IInv, IndexExact
<1>2. \A x \in keeper.index : x[2] \in Validators /\ x = <<Val(x[2]).tokens, x[2]>>
  BY <1>1
<1>3. f \in Injection(keeper.index, Validators)
  BY <1>2 DEF Injection, IsInjective
<1>4. IsFiniteSet(keeper.index)
  BY <1>3, FS_Injection
<1> QED  BY <1>4, FS_Subset, FS_CardinalityType DEF Preceding

\* Keys of the index are compared like pairs of numbers.
LEMMA BeforeOrder ==
  ASSUME IInv, NEW e \in keeper.index, NEW f \in keeper.index
  PROVE  /\ ~Before(e, e)
         /\ e # f => Before(e, f) \/ Before(f, e)
         /\ \A g \in keeper.index : Before(e, f) /\ Before(f, g) => Before(e, g)
<1>1. \A x \in keeper.index : x = <<x[1], x[2]>> /\ x[1] \in Nat /\ x[2] \in Nat
  <2> SUFFICES ASSUME NEW x \in keeper.index
               PROVE  x = <<x[1], x[2]>> /\ x[1] \in Nat /\ x[2] \in Nat
    OBVIOUS
  <2>1. PICK v \in Validators : x = <<Val(v).tokens, v>>
    BY DEF IInv, IndexExact
  <2>2. Val(v).tokens \in Nat
    BY DEF IInv, StoreType, ValidatorMap, Validator, Val
  <2> QED  BY <2>1, <2>2
<1> QED  BY <1>1 DEF Before

\* An earlier key is preceded by fewer keys.
LEMMA FewerPrecede ==
  ASSUME IInv, NEW e \in keeper.index, NEW f \in keeper.index, Before(e, f)
  PROVE  Cardinality(Preceding(e)) < Cardinality(Preceding(f))
<1>1. Preceding(e) \subseteq Preceding(f) /\ e \in Preceding(f) /\ e \notin Preceding(e)
  BY BeforeOrder DEF Preceding
<1>2. IsFiniteSet(Preceding(f)) /\ Cardinality(Preceding(f)) \in Nat /\ Cardinality(Preceding(e)) \in Nat
  BY PrecedingFinite
<1>3. Cardinality(Preceding(e)) =< Cardinality(Preceding(f))
      /\ (Cardinality(Preceding(f)) = Cardinality(Preceding(e)) => Preceding(f) = Preceding(e))
  BY <1>1, <1>2, FS_Subset
<1> QED  BY <1>1, <1>2, <1>3

\* No more validators are elected than there are places.
LEMMA ElectedBounded ==
  ASSUME IInv
  PROVE  Cardinality(Elected(keeper)) =< MaxValidators
<1> DEFINE key(v) == <<Val(v).tokens, v>>
           rank(v) == Cardinality(Preceding(key(v)))
           f == [v \in Elected(keeper) |-> rank(v)]
<1>1. \A v \in Elected(keeper) : key(v) \in Visited(keeper)
  BY Election
<1>2. \A v \in Elected(keeper) : key(v) \in keeper.index /\ rank(v) < MaxValidators
  BY <1>1 DEF Visited, Preceding
<1>3. \A v \in Elected(keeper) : rank(v) \in 0 .. (MaxValidators - 1)
  <2> SUFFICES ASSUME NEW v \in Elected(keeper)  PROVE rank(v) \in 0 .. (MaxValidators - 1)
    OBVIOUS
  <2>1. rank(v) \in Nat
    BY PrecedingFinite
  <2>2. rank(v) < MaxValidators
    BY <1>2
  <2> HIDE DEF rank
  <2> QED  BY <2>1, <2>2
<1>4. ASSUME NEW v \in Elected(keeper), NEW w \in Elected(keeper), v # w
      PROVE  rank(v) # rank(w)
  <2>1. key(v) \in keeper.index /\ key(w) \in keeper.index /\ key(v) # key(w)
    BY <1>2, <1>4
  <2>2. Before(key(v), key(w)) \/ Before(key(w), key(v))
    BY <2>1, BeforeOrder
  <2>3. rank(v) \in Nat /\ rank(w) \in Nat
    BY PrecedingFinite
  <2>4. rank(v) < rank(w) \/ rank(w) < rank(v)
    BY <2>1, <2>2, FewerPrecede
  <2> HIDE DEF rank
  <2> QED  BY <2>3, <2>4
<1> HIDE DEF rank
<1>5. f \in Injection(Elected(keeper), 0 .. (MaxValidators - 1))
  BY <1>3, <1>4 DEF Injection, IsInjective
<1>6. /\ IsFiniteSet(0 .. (MaxValidators - 1))
      /\ Cardinality(0 .. (MaxValidators - 1)) = MaxValidators
  BY FS_Interval
<1> HIDE DEF f
<1>7. Cardinality(Elected(keeper)) =< Cardinality(0 .. (MaxValidators - 1))
  BY <1>5, <1>6, FS_Injection
<1> QED  BY <1>6, <1>7

\* Nobody eligible that is left out comes before an elected validator.
LEMMA ElectedFirst ==
  ASSUME IInv, NEW v \in Elected(keeper), NEW w \in Validators,
         w \notin Elected(keeper), ~Val(w).jailed, PotentialTendermintPower(Val(w)) > 0
  PROVE  Before(<<Val(v).tokens, v>>, <<Val(w).tokens, w>>)
<1> DEFINE e == <<Val(v).tokens, v>>
           f == <<Val(w).tokens, w>>
<1>1. e \in Visited(keeper) /\ e \in keeper.index
  BY Election DEF Visited
<1>2. Val(w).status # "None"
  <2>1. Val(w).status = "None" => Val(w) = NoValidator
    BY DEF IInv, ValidatorOK
  <2>2. PotentialTendermintPower(NoValidator) = 0
    BY DEF PotentialTendermintPower, NoValidator
  <2> QED  BY <2>1, <2>2
<1>3. f \in keeper.index /\ Powerful(keeper, f)
  BY <1>2 DEF IInv, IndexExact, Powerful, Val
<1>4. f \notin Visited(keeper)
  BY <1>3 DEF Elected
<1>5. v # w
  OBVIOUS
<1> HIDE DEF e, f
<1>6. SUFFICES ASSUME Before(f, e)  PROVE FALSE
  <2>1. e # f
    BY <1>5 DEF e, f
  <2> QED  BY <1>1, <1>3, <1>6, <2>1, BeforeOrder DEF e, f
<1>7. \A g \in keeper.index : Before(g, f) => Powerful(keeper, g)
  <2> SUFFICES ASSUME NEW g \in keeper.index, Before(g, f)  PROVE Powerful(keeper, g)
    OBVIOUS
  <2>1. Before(g, e)
    BY <1>1, <1>3, <1>6, BeforeOrder
  <2> QED  BY <1>1, <2>1 DEF Visited
<1>8. Cardinality(Preceding(f)) < Cardinality(Preceding(e))
  BY <1>1, <1>3, <1>6, FewerPrecede
<1>9. Cardinality(Preceding(e)) < MaxValidators
  BY <1>1 DEF Visited, Preceding
<1>10. Cardinality(Preceding(f)) \in Nat /\ Cardinality(Preceding(e)) \in Nat
  BY PrecedingFinite
<1>11. Cardinality(Preceding(f)) < MaxValidators
  BY <1>8, <1>9, <1>10
<1> QED  BY <1>3, <1>4, <1>7, <1>11 DEF Visited, Preceding

\* After EndBlock nobody outside the set has more power than one inside.
LEMMA EndBlockBest ==
  ASSUME IInv, EndBlock
  PROVE  BestBonded'
<1> DEFINE E == Elected(keeper)
<1>1. ASSUME NEW v \in Validators
      PROVE  /\ v \in E <=> Val(v)'.status = "Bonded"
             /\ \/ Val(v)'.jailed = Val(v).jailed /\ Val(v)'.tokens = Val(v).tokens
                \/ Val(v)'.tokens = 0 /\ Val(v).tokens = 0
  <2>1. NoValidator.status = "None" /\ NoValidator.tokens = 0
    BY DEF NoValidator
  <2> QED  BY <2>1, EndBlockFields
<1>2. ASSUME NEW v \in Validators
      PROVE  v \in EligibleSet' <=> ~Val(v).jailed /\ PotentialTendermintPower(Val(v)) > 0
  <2>1. Val(v)'.tokens = Val(v).tokens
    BY <1>1
  <2>2. PotentialTendermintPower(Val(v)') = PotentialTendermintPower(Val(v))
    BY <2>1 DEF PotentialTendermintPower
  <2>3. Val(v).tokens = 0 => ~(PotentialTendermintPower(Val(v)) > 0)
    BY DEF PotentialTendermintPower
  <2> QED  BY <1>1, <2>2, <2>3 DEF EligibleSet
<1>3. BondedSet' = E
  BY <1>1, Election DEF BondedSet
<1>4. BondedSet' \subseteq EligibleSet'
  BY <1>2, <1>3, Election
<1>5. Cardinality(BondedSet') =< MaxValidators
  BY <1>3, ElectedBounded
<1>6. ASSUME NEW v \in BondedSet'  PROVE tm'[v] = PotentialTendermintPower(Val(v)')
  <2>1. v \in E /\ v \in Validators
    BY <1>3 DEF BondedSet
  <2>2. tm' = keeper'.last
    BY EndBlockStep DEF IInv, TendermintAgrees
  <2>3. keeper'.last[v] = PotentialTendermintPower(Val(v))
    BY <2>1, EndBlockValidators, AppliedStep
  <2>4. PotentialTendermintPower(Val(v)') = PotentialTendermintPower(Val(v))
    BY <1>1, <2>1 DEF PotentialTendermintPower
  <2> QED  BY <2>2, <2>3, <2>4
<1>7. ASSUME NEW v \in BondedSet', NEW w \in EligibleSet' \ BondedSet'
      PROVE  Before(<<Val(v)'.tokens, v>>, <<Val(w)'.tokens, w>>)
  <2>1. v \in E /\ v \in Validators /\ w \in Validators /\ w \notin E
    BY <1>3 DEF BondedSet, EligibleSet
  <2>2. ~Val(w).jailed /\ PotentialTendermintPower(Val(w)) > 0
    BY <1>2, <2>1
  <2>3. Before(<<Val(v).tokens, v>>, <<Val(w).tokens, w>>)
    BY <2>1, <2>2, ElectedFirst
  <2>4. Val(v)'.tokens = Val(v).tokens /\ Val(w)'.tokens = Val(w).tokens
    BY <1>1, <2>1
  <2> QED  BY <2>3, <2>4
<1> HIDE DEF E
<1> QED  BY <1>4, <1>5, <1>6, <1>7 DEF BestBonded

-----------------------------------------------------------------------------
(* Theorems *)

\* NewDec of a natural is a natural.
LEMMA NewDecType ==
  ASSUME NEW n \in Nat
  PROVE  NewDec(n) \in Nat /\ (n > 0 <=> NewDec(n) > 0)
<1>1. One \in Nat \ {0}
  BY OneAssumption
<1> QED  BY <1>1 DEF NewDec

\* Before the first block.
LEMMA InitIInv == Init => IInv /\ phase # "committed"
<1> SUFFICES ASSUME Init  PROVE IInv /\ phase # "committed"
  OBVIOUS
<1> DEFINE created == {v \in Validators : Genesis[v] > 0}
           val(v) == IF v \in created
                     THEN [NewValidator(1) EXCEPT !.tokens = Genesis[v], !.shares = NewDec(Genesis[v])]
                     ELSE NoValidator
<1>1. /\ keeper.validators = [v \in Validators |-> val(v)]
      /\ keeper.index = {<<Genesis[v], v>> : v \in created}
      /\ keeper.queue = {} /\ keeper.last = [v \in Validators |-> 0]
      /\ self = [v \in Validators |-> NewDec(Genesis[v])]
      /\ tm = [v \in Validators |-> 0]
      /\ now = 0 /\ height = 0 /\ phase = "deliver"
  BY DEF Init
<1>2. IsKeeper(keeper)
  BY DEF Init, IsKeeper, Fields
<1>3. ASSUME NEW v \in Validators
      PROVE  /\ Val(v) = val(v) /\ val(v) \in Validator /\ ValidatorOK(val(v), self[v])
             /\ v \in created => /\ val(v).status = "Unbonded" /\ val(v).tokens = Genesis[v]
                                 /\ val(v).jailed = FALSE
             /\ v \notin created => val(v).status = "None"
  <2>1. Val(v) = val(v)
    BY <1>1 DEF Val
  <2>2. Genesis[v] \in Nat /\ NewDec(Genesis[v]) \in Nat /\ self[v] = NewDec(Genesis[v])
        /\ (Genesis[v] > 0 <=> NewDec(Genesis[v]) > 0)
    <3>1. Genesis[v] \in Nat /\ self[v] = NewDec(Genesis[v])
      BY <1>1
    <3> QED  BY <3>1, NewDecType
  <2>3. CASE v \in created
    <3> DEFINE g == Genesis[v]
               d == NewDec(Genesis[v])
    <3>1. val(v) = [status |-> "Unbonded", jailed |-> FALSE, tokens |-> g, shares |-> d,
                    minSelf |-> 1, unbondingHeight |-> 0, unbondingTime |-> 0]
      BY <2>3 DEF NewValidator, NoValidator
    <3> HIDE DEF val, g, d
    <3>2. g \in Nat /\ d \in Nat /\ d > 0 /\ self[v] = d /\ g = Genesis[v]
      BY <2>2, <2>3 DEF g, d
    <3>3. val(v) \in Validator
      BY <3>1, <3>2 DEF Validator, Statuses
    <3>4. ValidatorOK(val(v), self[v])
      BY <3>1, <3>2 DEF ValidatorOK
    <3> QED  BY <2>1, <2>3, <3>1, <3>2, <3>3, <3>4
  <2>4. CASE v \notin created
    <3>1. val(v) = NoValidator /\ self[v] = 0
      BY <2>2, <2>4
    <3> HIDE DEF val
    <3>2. ValidatorOK(NoValidator, 0) /\ NoValidator.status = "None"
      BY DEF ValidatorOK, NoValidator
    <3> QED  BY <2>1, <2>4, <3>1, <3>2, NoValidatorType
  <2> QED  BY <2>3, <2>4
<1> HIDE DEF val
<1>4. StoreType
  <2>1. self \in [Validators -> Nat]
    BY <1>1, NewDecType
  <2>2. keeper.validators \in ValidatorMap
    BY <1>1, <1>3 DEF ValidatorMap
  <2> QED  BY <1>1, <1>2, <2>1, <2>2 DEF StoreType
<1>5. \A v \in Validators : ValidatorOK(Val(v), self[v])
  BY <1>3
<1>6. IndexExact
  <2>1. \A v \in Validators : v \in created <=> Val(v).status # "None" /\ ~Val(v).jailed
    BY <1>3
  <2>2. \A v \in created : Val(v).tokens = Genesis[v]
    <3> SUFFICES ASSUME NEW v \in created  PROVE Val(v).tokens = Genesis[v]
      OBVIOUS
    <3>1. v \in Validators
      OBVIOUS
    <3> HIDE DEF created
    <3>2. Val(v) = val(v)
      BY <1>3, <3>1
    <3>3. val(v).tokens = Genesis[v]
      BY <1>3, <3>1
    <3> QED  BY <3>2, <3>3
  <2>3. created = {w \in Validators : Val(w).status # "None" /\ ~Val(w).jailed}
    BY <2>1
  <2> HIDE DEF created
  <2>4. {<<Genesis[v], v>> : v \in created} = {<<Val(v).tokens, v>> : v \in created}
    BY <2>2
  <2> QED  BY <1>1, <2>3, <2>4 DEF IndexExact
<1>7. QueueExact
  <2>1. \A v \in Validators : Val(v).status # "Unbonding"
    BY <1>3
  <2> QED  BY <1>1, <2>1 DEF QueueExact
<1>8. TendermintAgrees
  <2>1. \A v \in Validators : Val(v).status # "Bonded"
    BY <1>3
  <2> QED  BY <1>1, <2>1 DEF TendermintAgrees
<1> QED  BY <1>1, <1>4, <1>5, <1>6, <1>7, <1>8 DEF IInv

\* What is held in the operator's and in the other delegators' names is a number.
LEMMA HeldType ==
  ASSUME IInv, NEW v \in Validators, NEW operator \in BOOLEAN
  PROVE  Held(v, operator) \in Nat
<1>1. self[v] \in Nat /\ self[v] =< Val(v).shares
  BY DEF IInv, ValidatorOK
<1>2. Val(v).shares \in Nat
  BY DEF IInv, StoreType, ValidatorMap, Validator, Val
<1> QED  BY <1>1, <1>2 DEF Held

\* Every step, and stuttering, keeps the invariant.
LEMMA NextStep ==
  ASSUME IInv, BestBonded, Next
  PROVE  IInv' /\ BestBonded' /\ StepSlashable
<1>1. ASSUME NEW v \in Validators, NEW amount \in Amounts, NEW minSelf \in MinSelfs,
             CreateValidator(v, amount, minSelf)
      PROVE  IInv' /\ StepSlashable /\ phase' # "committed"
  BY <1>1, CreateStep DEF CreateValidator, Delivering
<1>2. ASSUME NEW v \in Validators, NEW minSelf \in MinSelfs, EditValidator(v, minSelf)
      PROVE  IInv' /\ StepSlashable /\ phase' # "committed"
  BY <1>2, EditStep DEF EditValidator, Delivering
<1>3. ASSUME NEW v \in Validators, NEW amount \in Amounts, NEW operator \in BOOLEAN,
             Delegate(v, amount, operator)
      PROVE  IInv' /\ StepSlashable /\ phase' # "committed"
  BY <1>3, DelegateStep DEF Delegate, Delivering
<1>4. ASSUME NEW v \in Validators, NEW operator \in BOOLEAN,
             NEW shares \in ShareInputs \cup ({Held(v, operator)} \ {0}),
             Undelegate(v, shares, operator) \/ SlashRedelegation(v, shares, operator)
      PROVE  IInv' /\ StepSlashable /\ phase' # "committed"
  <2>1. shares \in Nat \ {0}
    BY <1>4, HeldType
  <2> QED  BY <1>4, <2>1, UndelegateStep DEF Undelegate, SlashRedelegation, Delivering, Punishing
<1>5. ASSUME NEW v \in Validators, Unjail(v)
      PROVE  IInv' /\ StepSlashable /\ phase' # "committed"
  BY <1>5, UnjailKeepsInv DEF Unjail, Delivering
<1>6. ASSUME NEW v \in Validators, NEW amount \in Amounts, SlashAndJail(v, amount)
      PROVE  IInv' /\ StepSlashable /\ phase' # "committed"
  BY <1>6, SlashAndJailStep DEF SlashAndJail, Punishing
<1>7. ASSUME NEW step \in TimeSteps, BeginBlock(step)
      PROVE  IInv' /\ StepSlashable /\ phase' # "committed"
  BY <1>7, BeginBlockStep DEF BeginBlock
<1>8. CASE EndBlock
  BY <1>8, EndBlockStep, EndBlockBest
<1>9. phase' # "committed" => BestBonded'
  BY DEF BestBonded
<1> QED  BY <1>1, <1>2, <1>3, <1>4, <1>5, <1>6, <1>7, <1>8, <1>9 DEF Next

\* The inductive invariant: the store has its type, the index, the queue and
\* Tendermint's set agree with the validators, no validator is abandoned, and the
\* best are bonded whenever a block ends.
THEOREM Inductive == Spec => [](IInv /\ BestBonded)
<1>1. Init => IInv /\ BestBonded
  BY InitIInv DEF BestBonded
<1>2. IInv /\ BestBonded /\ [Next]_vars => (IInv /\ BestBonded)'
  <2> SUFFICES ASSUME IInv, BestBonded, [Next]_vars  PROVE (IInv /\ BestBonded)'
    OBVIOUS
  <2>1. CASE Next
    BY <2>1, NextStep
  <2>2. CASE UNCHANGED vars
    <3>1. BestBonded'
      BY <2>2 DEF vars, BestBonded, BondedSet, EligibleSet, Val
    <3>2. IInv'
      BY <2>2 DEF vars, IInv, StoreType, IndexExact, QueueExact, TendermintAgrees, Val
    <3> QED  BY <3>1, <3>2
  <2> QED  BY <2>1, <2>2
<1> QED  BY <1>1, <1>2, PTL DEF Spec

\* The power index and the validator queue hold exactly what the validators call
\* for, between any two operations of the keeper's callers.
THEOREM IndexAndQueueExact == Spec => []IndicesExact
<1>1. IInv => IndicesExact
  BY DEF IInv, IndicesExact
<1> QED  BY <1>1, Inductive, PTL

\* Tendermint, given the updates of every block, has the bonded validators with the
\* powers of the store.
THEOREM TendermintInSync == Spec => []TendermintAgrees
<1>1. IInv => TendermintAgrees
  BY DEF IInv
<1> QED  BY <1>1, Inductive, PTL

\* Every block ends with the best validators bonded, at most MaxValidators of them.
THEOREM BestElected == Spec => []BestBonded
  BY Inductive, PTL

\* A validator in the index has a self-delegation, and one without shares has no tokens.
THEOREM NobodyIsAbandoned == Spec => []NobodyAbandoned
<1>1. IInv => NobodyAbandoned
  BY DEF IInv, NobodyAbandoned, ValidatorOK
<1> QED  BY <1>1, Inductive, PTL

\* ApplyAndReturnValidatorSetUpdates and UnbondAllMatureValidatorQueue never panic.
THEOREM EndBlockNeverPanics == Spec => []EndBlockSafe
<1>1. IInv => EndBlockSafe
  <2> SUFFICES ASSUME IInv
               PROVE  ~UpdatesPanic(keeper) /\ ~UnbondPanics(Applied, now)
    BY DEF EndBlockSafe, Applied
  <2>1. \A e \in Visited(keeper) : Val(e[2]).status # "None" /\ ~Val(e[2]).jailed
    BY DEF Visited, IInv, IndexExact
  <2>2. ~UpdatesPanic(keeper)
    BY <2>1, Election DEF UpdatesPanic, Val
  <2>3. ASSUME NEW v \in MatureValidators(Applied, now)
        PROVE  /\ Applied.validators[v].status = "Unbonding"
               /\ ~(Applied.validators[v].shares = 0 /\ Applied.validators[v].tokens > 0)
    <3>1. v \in Validators
      BY DEF MatureValidators
    <3>2. Applied.validators[v].status = "Unbonding"
      BY <3>1, MatureOnes
    <3>3. Applied.validators[v].shares = Val(v).shares /\ Applied.validators[v].tokens = Val(v).tokens
      BY <3>1, AppliedStep
    <3>4. Val(v).shares = 0 => Val(v).tokens = 0
      BY <3>1 DEF IInv, ValidatorOK
    <3> QED  BY <3>2, <3>3, <3>4
  <2> QED  BY <2>2, <2>3 DEF UnbondPanics
<1> QED  BY <1>1, Inductive, PTL

\* A bonded validator becomes unbonded, or goes, only after UnbondingTime in the queue.
THEOREM SlashableUntilMature == Spec => StaysSlashable
<1>1. IInv /\ BestBonded /\ [Next]_vars => [StepSlashable]_vars
  BY NextStep
<1> QED  BY <1>1, Inductive, PTL DEF Spec, StaysSlashable, StepSlashable
=============================================================================
