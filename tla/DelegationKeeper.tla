-------------------------- MODULE DelegationKeeper --------------------------
(***************************************************************************)
(* Delegations, unbonding delegations and redelegations, and the keeper's  *)
(* operations on them (src/x/staking/keeper/delegation.go, slash.go and    *)
(* src/x/staking/types/delegation.go), as functions of a store s with the  *)
(* fields of ValidatorKeeper and                                           *)
(*   delegations  shares, by <<delegator, validator>>                      *)
(*   ubds         entries, by <<delegator, validator>>                     *)
(*   reds         entries, by <<delegator, source, destination>>           *)
(*   ubdQueue     <<completion time, delegator, validator>>                *)
(*   redQueue     <<completion time, delegator, source, destination>>      *)
(*   coins        the accounts of the delegators                           *)
(* A slice of a queue may hold a pair more than once; completing it again  *)
(* changes nothing, so queues are sets.                                    *)
(***************************************************************************)
EXTENDS ValidatorKeeper, SequencesExt

CONSTANTS
    Delegators,  \* account addresses; an operator's account has the operator's address
    MaxEntries   \* Params

ASSUME DelegatorAssumption ==
    Delegators \subseteq Nat /\ IsFiniteSet(Delegators) /\ MaxEntries \in Nat

UnbondingDelegationEntry == [height : Nat, completion : Nat, initial : Nat, balance : Nat]
RedelegationEntry == [height : Nat, completion : Nat, initial : Nat, sharesDst : Nat]

\* The completion time itself is mature.
IsMature(e, now) == e.completion =< now

\* The value of a key of the store, or what a missing one stands for.
Get(f, key, missing) == IF key \in DOMAIN f THEN f[key] ELSE missing
Put(f, key, value) == (key :> value) @@ f
Without(f, keys) == Restrict(f, DOMAIN f \ keys)

SumEntries(op(_), entries) == FoldLeft(LAMBDA acc, e : acc + op(e), 0, entries)
-----------------------------------------------------------------------------
(* Delegating and unbonding *)

\* SetDelegation, or RemoveDelegation of one without shares left.
SetDelegation(s, d, v, shares) ==
    [s EXCEPT !.delegations = IF shares = 0 THEN Without(@, {<<d, v>>}) ELSE Put(@, <<d, v>>, shares)]

\* Keeper.Delegate, the account aside.
AddDelegation(s, d, v, amount) ==
    LET shares == Get(s.delegations, <<d, v>>, 0) + IssuedShares(s.validators[v], amount)
    IN  [AddValidatorTokensAndShares(s, v, amount)
            EXCEPT !.delegations = Put(@, <<d, v>>, shares)]

\* The operator keeps only left shares, worth less than the minimum.
BelowMinimum(val, left) ==
    ~val.jailed /\ TruncateInt(ShareTokens(val, left)) < val.minSelf

\* Keeper.unbond of no more shares than the delegation has.
unbond(s, d, v, shares) ==
    LET val  == s.validators[v]
        left == s.delegations[<<d, v>>] - shares
        kept == SetDelegation(s, d, v, left)
        k    == RemoveValidatorTokensAndShares(
                    IF d = v /\ BelowMinimum(val, left) THEN jailValidator(kept, v) ELSE kept,
                    v, shares)
    IN  IF k.validators[v].shares = 0 /\ val.status = "Unbonded" THEN RemoveValidator(k, v) ELSE k

\* Mutant: stake that leaves an unbonding validator is dated today.
getBeginInfoToday(s, v, now, height) ==
    LET val == s.validators[v]
    IN  [completeNow |-> val.status = "Unbonded", height |-> height,
         completion  |-> IF val.status = "Unbonding" THEN val.unbondingTime ELSE now + UnbondingTime]

\* Since when, until when, and whether at all stake that leaves v stays slashable.
getBeginInfo(s, v, now, height) ==
    LET val == s.validators[v]
    IN  [completeNow |-> val.status = "Unbonded",
         height      |-> IF val.status = "Unbonding" THEN val.unbondingHeight ELSE height,
         completion  |-> IF val.status = "Unbonding" THEN val.unbondingTime ELSE now + UnbondingTime]

\* SetUnbondingDelegationEntry and InsertUBDQueue
AddUnbondingDelegation(s, d, v, info, amount) ==
    LET entry == [height |-> info.height, completion |-> info.completion,
                  initial |-> amount, balance |-> amount]
    IN  [s EXCEPT !.ubds = Put(@, <<d, v>>, Append(Get(@, <<d, v>>, <<>>), entry)),
                  !.ubdQueue = @ \cup {<<info.completion, d, v>>}]

\* SetRedelegationEntry and InsertRedelegationQueue
AddRedelegation(s, d, src, dst, info, amount, shares) ==
    LET entry == [height |-> info.height, completion |-> info.completion,
                  initial |-> amount, sharesDst |-> shares]
    IN  [s EXCEPT !.reds = Put(@, <<d, src, dst>>, Append(Get(@, <<d, src, dst>>, <<>>), entry)),
                  !.redQueue = @ \cup {<<info.completion, d, src, dst>>}]

HasMaxEntries(f, key) == Len(Get(f, key, <<>>)) >= MaxEntries

HasReceivingRedelegation(s, d, v) == \E key \in DOMAIN s.reds : key[1] = d /\ key[3] = v
-----------------------------------------------------------------------------
(* Completion *)

\* The entries that CompleteUnbonding and CompleteRedelegation leave.
Remaining(entries, now) == SelectSeq(entries, LAMBDA e : ~IsMature(e, now))

\* What f becomes when the entries under keys are completed: empty ones are removed.
Completed(f, keys, now) ==
    Without([key \in DOMAIN f |-> IF key \in keys THEN Remaining(f[key], now) ELSE f[key]],
            {key \in keys \cap DOMAIN f : Remaining(f[key], now) = <<>>})

MatureBalance(entries, now) ==
    SumEntries(LAMBDA e : IF IsMature(e, now) THEN e.balance ELSE 0, entries)

\* DequeueAllMatureUBDQueue, and CompleteUnbonding of every pair.
CompleteUnbondings(s, now) ==
    LET pairs == {<<q[2], q[3]>> : q \in {p \in s.ubdQueue : p[1] =< now}} \cap DOMAIN s.ubds
        paid(d) == MapThenSumSet(LAMBDA key : MatureBalance(s.ubds[key], now),
                                 {key \in pairs : key[1] = d})
    IN  [s EXCEPT !.ubdQueue = {q \in @ : q[1] > now},
                  !.ubds = Completed(@, pairs, now),
                  !.coins = [d \in Delegators |-> @[d] + paid(d)]]

\* DequeueAllMatureRedelegationQueue, and CompleteRedelegation of every triplet.
CompleteRedelegations(s, now) ==
    LET triplets == {<<q[2], q[3], q[4]>> : q \in {p \in s.redQueue : p[1] =< now}}
    IN  [s EXCEPT !.redQueue = {q \in @ : q[1] > now},
                  !.reds = Completed(@, triplets, now)]
-----------------------------------------------------------------------------
(* Slashing *)

\* Mutant: stake that left before the infraction is slashed too.
ContributedAlways(e, infraction, now) == ~IsMature(e, now)

\* The entry's stake contributed to the infraction and has not left yet.
Contributed(e, infraction, now) == e.height >= infraction /\ ~IsMature(e, now)

\* What the entry is to lose.
SlashAmount(e, factor) == TruncateInt(MulInt(factor, e.initial))

\* What it can lose.
Lost(e, cut) == IF cut < e.balance THEN cut ELSE e.balance

\* slashUnbondingDelegation of every one from v, and the total it returns.
slashUnbondingDelegations(s, v, infraction, factor, now) ==
    LET pairs   == {key \in DOMAIN s.ubds : key[2] = v}
        cut(e)  == IF Contributed(e, infraction, now) THEN SlashAmount(e, factor) ELSE 0
        lost(e) == Lost(e, cut(e))
        all(op(_)) == MapThenSumSet(LAMBDA key : SumEntries(op, s.ubds[key]), pairs)
    IN  [total |-> all(cut),
         store |-> [s EXCEPT !.notBonded = @ - all(lost),
                             !.ubds = [key \in DOMAIN @ |->
                                 IF key \in pairs
                                 THEN [i \in DOMAIN @[key] |->
                                          [@[key][i] EXCEPT !.balance = @ - lost(s.ubds[key][i])]]
                                 ELSE @[key]]]]

\* The entries of the redelegations from v that contributed, in the store's order.
RedelegationsFrom(s, v, infraction, now) ==
    LET before(a, b) == a[1] < b[1] \/ (a[1] = b[1] /\ a[3] < b[3])
        keys == SetToSortSeq({key \in DOMAIN s.reds : key[2] = v}, before)
        entries(key) == [i \in DOMAIN s.reds[key] |->
                            [d |-> key[1], dst |-> key[3], entry |-> s.reds[key][i]]]
    IN  SelectSeq(FlattenSeq([i \in DOMAIN keys |-> entries(keys[i])]),
                  LAMBDA x : Contributed(x.entry, infraction, now))

\* Mutant: all delegators of the destination pay for the redelegation.
slashDestination(acc, x, factor) ==
    [total |-> acc.total + SlashAmount(x.entry, factor),
     store |-> RemoveValidatorTokens(acc.store, x.dst, SlashAmount(x.entry, factor))]

\* One round of slashRedelegation: the destination's shares are unbonded and burned.
slashRedelegationEntry(acc, x, factor) ==
    LET s      == acc.store
        held   == Get(s.delegations, <<x.d, x.dst>>, 0)
        wanted == Mul(factor, x.entry.sharesDst)
        shares == IF wanted > held THEN held ELSE wanted
    IN  [total |-> acc.total + SlashAmount(x.entry, factor),
         store |-> IF shares = 0 THEN s
                   ELSE [unbond(s, x.d, x.dst, shares) EXCEPT
                            !.notBonded = @ - IssuedTokens(s.validators[x.dst], shares)]]

\* Keeper.Slash of a validator that is not unbonded.
Slash(s, v, infraction, power, factor, now, height) ==
    LET amount == TruncateInt(Mul(NewDec(power * PowerReduction), factor))
        ubd    == IF infraction < height
                  THEN slashUnbondingDelegations(s, v, infraction, factor, now)
                  ELSE [total |-> 0, store |-> s]
        red    == IF infraction < height
                  THEN FoldLeft(LAMBDA acc, x : slashRedelegationEntry(acc, x, factor), ubd,
                                RedelegationsFrom(s, v, infraction, now))
                  ELSE ubd
        burn   == Max({0, Min({amount - red.total, s.validators[v].tokens})})
    IN  RemoveValidatorTokens(red.store, v, burn)
=============================================================================
