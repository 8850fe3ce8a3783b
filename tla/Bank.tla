------------------------------- MODULE Bank -------------------------------
(***************************************************************************)
(* Accounts and the coins in them: x/bank, the vesting accounts of x/auth,  *)
(* the fees that the ante handler deducts, and the accounts' way through an *)
(* exported genesis file.                                                   *)
(*                                                                          *)
(* A vesting account keeps no list of its locked coins.  How many of its    *)
(* coins may be spent follows from the time, from its balance, and from two *)
(* counters of what it has delegated; delegations come back as somebody     *)
(* else (a slash, the unbonding queue) decides, and possibly not in full.   *)
(* Staking is seen here through the coins it takes and returns only.        *)
(***************************************************************************)
EXTENDS Dec, CoinSets, FiniteSetsExt

CONSTANTS
    Addresses,
    Denoms,     \* denominations, numbers
    BondDenom,  \* the denomination that is delegated
    Genesis,    \* the accounts of the genesis file
    Sends,      \* bound: messages, of MsgSend and of MsgMultiSend
    Fees,       \* bound: fees
    Stakes,     \* bound: amounts delegated
    Refunds,    \* bound: amounts that come back from staking
    Slashes,    \* bound: amounts slashed
    Rewards,    \* bound: coins paid out as rewards
    MaxTime,    \* bound: block times explored
    MaxOps      \* bound: messages, refunds, rewards and slashes explored

None == [type |-> "none"]

ASSUME BankAssumption ==
    /\ Denoms \subseteq Nat /\ BondDenom \in Denoms
    /\ DOMAIN Genesis = Addresses
    /\ Stakes \cup Refunds \cup Slashes \subseteq Nat \ {0}
    /\ MaxTime \in Nat /\ MaxOps \in Nat

VARIABLES
    store,        \* accounts, and where their coins go
    sendEnabled,  \* the parameter of x/bank
    time,
    ops

vars == <<store, sendEnabled, time, ops>>

IsVesting(acc) == acc.type \in {"continuous", "delayed"}

\* What every denomination amounts to in coins that hold it once, for the history.
Value(coins) ==
    [d \in Denoms |-> IF \E i \in DOMAIN coins : coins[i].denom = d
                      THEN coins[CHOOSE i \in DOMAIN coins : coins[i].denom = d].amount ELSE 0]
Plus(f, g) == [d \in Denoms |-> f[d] + g[d]]
Covers(f, g) == \A d \in Denoms : f[d] >= g[d]
Nothing == [d \in Denoms |-> 0]

-----------------------------------------------------------------------------
(* Vesting (src/x/auth/account.go).                                         *)

\* The share of the time that is over, rounded, of every original coin, rounded.
GetVestedCoins(acc, t) ==
    IF t >= acc.end THEN acc.originalVesting
    ELSE IF acc.type = "delayed" \/ t <= acc.start THEN <<>>
    ELSE LET s == Quo(NewDec(t - acc.start), NewDec(acc.end - acc.start))
         IN  [i \in DOMAIN acc.originalVesting |->
                 Coin(acc.originalVesting[i].denom,
                      RoundInt(Mul(NewDec(acc.originalVesting[i].amount), s)))]

GetVestingCoins(acc, t) == Sub(acc.originalVesting, GetVestedCoins(acc, t))

Lesser(a, b) == IF a < b THEN a ELSE b
Greater(a, b) == IF a > b THEN a ELSE b

\* What of a coin of the balance is not held back for the coins still vesting.
Unlocked(acc, coin, vesting) ==
    coin.amount + AmountOf(acc.delegatedVesting, coin.denom) - AmountOf(vesting, coin.denom)

\* NewCoin panics where Unlocked is negative.
spendableCoins(acc, vesting) ==
    removeZeroCoins([i \in DOMAIN acc.coins |->
        Coin(acc.coins[i].denom, Lesser(Unlocked(acc, acc.coins[i], vesting), acc.coins[i].amount))])

SpendableCoins(acc, t) == IF IsVesting(acc) THEN spendableCoins(acc, GetVestingCoins(acc, t)) ELSE acc.coins

\* Coins still vesting are delegated first.
TrackDelegation(acc, t, coin) ==
    LET x == Lesser(Greater(AmountOf(GetVestingCoins(acc, t), coin.denom)
                              - AmountOf(acc.delegatedVesting, coin.denom), 0), coin.amount)
    IN  [acc EXCEPT !.delegatedVesting = Add(@, <<Coin(coin.denom, x)>>),
                    !.delegatedFree = Add(@, <<Coin(coin.denom, coin.amount - x)>>),
                    !.coins = Sub(@, <<coin>>)]

\* Free coins come back first; more may come back than the counters hold.
TrackUndelegation(acc, coin) ==
    LET x == Lesser(AmountOf(acc.delegatedFree, coin.denom), coin.amount)
        y == Lesser(AmountOf(acc.delegatedVesting, coin.denom), coin.amount - x)
    IN  [acc EXCEPT !.delegatedFree = Sub(@, <<Coin(coin.denom, x)>>),
                    !.delegatedVesting = Sub(@, <<Coin(coin.denom, y)>>),
                    !.coins = Add(@, <<coin>>)]

-----------------------------------------------------------------------------
(* The keeper (src/x/bank/keeper.go) on the store.  Refused is an error, or  *)
(* a panic inside a transaction.                                             *)

Refused == [refused |-> TRUE]

\* An account that does not exist is created with the coins.
setCoins(s, a, coins) ==
    [s EXCEPT !.accounts[a] = IF s.accounts[a] = None THEN [type |-> "base", coins |-> coins]
                              ELSE [@ EXCEPT !.coins = coins]]

getCoins(s, a) == IF s.accounts[a] = None THEN <<>> ELSE s.accounts[a].coins
Spendable(s, a, t) == IF s.accounts[a] = None THEN <<>> ELSE SpendableCoins(s.accounts[a], t)

\* Mutant: the balance is checked, not what may be spent of it.
subtractFromBalance(s, a, amt, t) ==
    IF s = Refused \/ ~IsValid(amt) \/ Short(getCoins(s, a), amt) THEN Refused
    ELSE [setCoins(s, a, Sub(getCoins(s, a), amt)) EXCEPT !.sent[a] = Plus(@, Value(amt))]

subtractCoins(s, a, amt, t) ==
    IF s = Refused \/ ~IsValid(amt) \/ Short(Spendable(s, a, t), amt) THEN Refused
    ELSE [setCoins(s, a, Sub(getCoins(s, a), amt)) EXCEPT !.sent[a] = Plus(@, Value(amt))]

addCoins(s, a, amt) ==
    IF s = Refused \/ ~IsValid(amt) THEN Refused
    ELSE [setCoins(s, a, Add(getCoins(s, a), amt)) EXCEPT !.received[a] = Plus(@, Value(amt))]

sendCoins(s, msg, t) == addCoins(subtractCoins(s, msg.from, msg.amount, t), msg.to, msg.amount)

\* ValidateBasic of every Input and every Output.
ValidEach(msg) ==
    /\ msg.inputs # <<>> /\ msg.outputs # <<>>
    /\ \A i \in DOMAIN msg.inputs : IsValid(msg.inputs[i].coins) /\ IsAllPositive(msg.inputs[i].coins)
    /\ \A i \in DOMAIN msg.outputs : IsValid(msg.outputs[i].coins) /\ IsAllPositive(msg.outputs[i].coins)

ValidateInputsOutputs(msg) ==
    LET Total(list) == FoldLeft(LAMBDA sum, item : Add(sum, item.coins), <<>>, list)
    IN  ValidEach(msg) /\ IsEqual(Total(msg.inputs), Total(msg.outputs))

\* All the inputs are subtracted, one after the other, before any output is added.
inputOutputCoins(s, msg, t) ==
    FoldLeft(LAMBDA acc, out : addCoins(acc, out.address, out.coins),
             FoldLeft(LAMBDA acc, in : subtractCoins(acc, in.address, in.coins, t), s, msg.inputs),
             msg.outputs)

\* delegateCoins, called by Delegate with one coin; the balance is checked, locked coins included.
delegateCoins(s, a, n, t) ==
    LET coin == Coin(BondDenom, n)
        acc == s.accounts[a]
    IN  IF acc = None \/ Short(getCoins(s, a), <<coin>>) THEN Refused
        ELSE [s EXCEPT !.accounts[a] = IF IsVesting(acc) THEN TrackDelegation(acc, t, coin)
                                       ELSE [acc EXCEPT !.coins = Sub(@, <<coin>>)],
                       !.staked = @ + n,
                       !.owed[a] = @ + n]

\* undelegateCoins, with what staking returns; more than what is owed is a gain from rounding.
undelegateCoins(s, a, n) ==
    LET coin == Coin(BondDenom, n)
        acc == s.accounts[a]
        due == Lesser(n, s.owed[a])
    IN  [s EXCEPT !.accounts[a] = IF IsVesting(acc) THEN TrackUndelegation(acc, coin)
                                  ELSE [acc EXCEPT !.coins = Add(@, <<coin>>)],
                  !.staked = @ - n,
                  !.owed[a] = @ - due,
                  !.received[a] = Plus(@, Value(<<Coin(BondDenom, n - due)>>))]

\* The fee, of the first signer: both the balance and what may be spent of it must do.
DeductFees(s, a, fee, t) ==
    IF s.accounts[a] = None \/ ~IsValid(fee) THEN Refused
    ELSE IF Short(getCoins(s, a), fee) \/ Short(Spendable(s, a, t), fee) THEN Refused
    ELSE [setCoins(s, a, Sub(getCoins(s, a), fee)) EXCEPT !.fees = Add(@, fee),
                                                          !.sent[a] = Plus(@, Value(fee))]

-----------------------------------------------------------------------------
\* ToAccount of every account of the genesis file: which kind of account a file means.
ToAccount(g) ==
    IF IsZero(g.originalVesting) THEN [type |-> "base", coins |-> Sort(g.coins)]
    ELSE [type |-> IF g.start # 0 THEN "continuous" ELSE "delayed",
          coins |-> Sort(g.coins), originalVesting |-> g.originalVesting,
          delegatedFree |-> g.delegatedFree, delegatedVesting |-> g.delegatedVesting,
          start |-> g.start, end |-> g.end]

\* Mutant: the counter of delegated vesting coins is left out of the file.
GenesisAccountShort(acc) ==
    [coins |-> acc.coins,
     originalVesting |-> IF IsVesting(acc) THEN acc.originalVesting ELSE <<>>,
     delegatedFree |-> IF IsVesting(acc) THEN acc.delegatedFree ELSE <<>>,
     delegatedVesting |-> <<>>,
     start |-> IF acc.type = "continuous" THEN acc.start ELSE 0,
     end |-> IF IsVesting(acc) THEN acc.end ELSE 0]

\* What is exported of an account; a delayed one has no start.
NewGenesisAccountI(acc) ==
    [coins |-> acc.coins,
     originalVesting |-> IF IsVesting(acc) THEN acc.originalVesting ELSE <<>>,
     delegatedFree |-> IF IsVesting(acc) THEN acc.delegatedFree ELSE <<>>,
     delegatedVesting |-> IF IsVesting(acc) THEN acc.delegatedVesting ELSE <<>>,
     start |-> IF acc.type = "continuous" THEN acc.start ELSE 0,
     end |-> IF IsVesting(acc) THEN acc.end ELSE 0]

\* validateGenesisStateAccounts
ValidGenesisAccount(g) == ~IsZero(g.originalVesting) => g.end # 0 /\ g.start < g.end

ASSUME GenesisAssumption ==
    \A a \in Addresses : Genesis[a] = None \/ ValidGenesisAccount(Genesis[a])

Init ==
    /\ store = [accounts |-> [a \in Addresses |-> IF Genesis[a] = None THEN None ELSE ToAccount(Genesis[a])],
                staked |-> 0, fees |-> <<>>, paid |-> Nothing, burned |-> 0,
                owed |-> [a \in Addresses |-> 0],
                sent |-> [a \in Addresses |-> Nothing], received |-> [a \in Addresses |-> Nothing]]
    /\ sendEnabled = TRUE
    /\ time = 0
    /\ ops = 0

Counted == ops < MaxOps /\ ops' = ops + 1

\* ValidateBasic of MsgSend, and of MsgMultiSend.
ValidateBasic(msg) ==
    IF msg.type = "send" THEN IsValid(msg.amount) /\ IsAllPositive(msg.amount) ELSE ValidateInputsOutputs(msg)

Signer(msg) == IF msg.type = "send" THEN msg.from ELSE msg.inputs[1].address
Signers(msg) == IF msg.type = "send" THEN {msg.from} ELSE {msg.inputs[i].address : i \in DOMAIN msg.inputs}

\* handleMsgSend and handleMsgMultiSend
Handled(s, msg) ==
    IF ~sendEnabled THEN Refused
    ELSE IF msg.type = "send" THEN sendCoins(s, msg, time) ELSE inputOutputCoins(s, msg, time)

\* The fee is kept when the messages fail.
Kept(after, charged) == IF after = Refused THEN charged ELSE after

\* A transaction with a message of x/bank.
DeliverSend(msg, fee) ==
    /\ Counted
    /\ ValidateBasic(msg)
    /\ \A a \in Signers(msg) : store.accounts[a] # None
    /\ LET charged == DeductFees(store, Signer(msg), fee, time)
       IN  charged # Refused /\ store' = Kept(Handled(charged, msg), charged)
    /\ UNCHANGED <<sendEnabled, time>>

\* A transaction with MsgDelegate; what staking does with the coins is in Staking.
DeliverDelegate(a, n, fee) ==
    /\ Counted
    /\ LET charged == DeductFees(store, a, fee, time)
       IN  charged # Refused /\ store' = Kept(delegateCoins(charged, a, n, time), charged)
    /\ UNCHANGED <<sendEnabled, time>>

\* Of staking: an unbonding delegation matures, worth at most one coin more than was delegated.
Refund(a, n) ==
    /\ Counted
    /\ store.owed[a] > 0 /\ n <= store.owed[a] + 1 /\ n <= store.staked
    /\ store' = undelegateCoins(store, a, n)
    /\ UNCHANGED <<sendEnabled, time>>

\* Of staking: a slash burns staked coins.
Slash(n) ==
    /\ Counted
    /\ n <= store.staked
    /\ store' = [store EXCEPT !.staked = @ - n, !.burned = @ + n]
    /\ UNCHANGED <<sendEnabled, time>>

\* x/distribution pays rewards, with AddCoins.
Reward(a, coins) ==
    /\ Counted
    /\ store' = [addCoins(store, a, coins) EXCEPT !.paid = Plus(@, Value(coins))]
    /\ UNCHANGED <<sendEnabled, time>>

NextBlock ==
    /\ time < MaxTime
    /\ time' = time + 1
    /\ UNCHANGED <<store, sendEnabled, ops>>

\* The state is exported, and a new chain starts from the file, in which the parameter of
\* x/bank may have been changed: no message does.
Restart ==
    /\ \A a \in {b \in Addresses : store.accounts[b] # None} :
          ValidGenesisAccount(NewGenesisAccountI(store.accounts[a]))
    /\ store' = [store EXCEPT !.accounts =
                    [a \in Addresses |-> IF @[a] = None THEN None ELSE ToAccount(NewGenesisAccountI(@[a]))]]
    /\ sendEnabled' \in BOOLEAN
    /\ UNCHANGED <<time, ops>>

Next ==
    \/ \E msg \in Sends, fee \in Fees : DeliverSend(msg, fee)
    \/ \E a \in Addresses, n \in Stakes, fee \in Fees : DeliverDelegate(a, n, fee)
    \/ \E a \in Addresses, n \in Refunds : Refund(a, n)
    \/ \E n \in Slashes : Slash(n)
    \/ \E a \in Addresses, coins \in Rewards : Reward(a, coins)
    \/ NextBlock
    \/ Restart

Spec == Init /\ [][Next]_vars

-----------------------------------------------------------------------------
Accounts == {a \in Addresses : store.accounts[a] # None}
Balances == {store.accounts[a].coins : a \in Accounts} \cup {store.fees}
Held(d) ==
    MapThenSumSet(LAMBDA a : Value(getCoins(store, a))[d], Addresses) + Value(store.fees)[d]
        + (IF d = BondDenom THEN store.staked + store.burned ELSE 0)
AtGenesis(d) == MapThenSumSet(LAMBDA a : IF Genesis[a] = None THEN 0 ELSE Value(Genesis[a].coins)[d], Addresses)

\* However messages, fees, refunds and rewards interleave, every balance is a valid
\* sdk.Coins, sorted and positive, the merge and the binary search on it agree with the
\* amounts per denomination, and no coin appears or disappears: all that is held, staked,
\* collected and burned is what genesis and rewards put there (TotalCoinsInvariant and
\* NonnegativeBalanceInvariant of x/bank/simulation, per denomination).
CoinsExact ==
    /\ \A coins \in Balances :
          /\ IsValid(coins)
          /\ Value(coins) = [d \in Denoms |-> AmountOf(coins, d)]
          /\ Plus(Value(SafeSub(store.fees, coins)), Value(coins)) = Value(store.fees)
    /\ \A d \in Denoms : Held(d) = AtGenesis(d) + store.paid[d]

FreeExact(vested, received, sent, delegated, balance, spendable) ==
    \A d \in Denoms :
        LET free == vested[d] + received[d] - sent[d] - delegated[d]
        IN  free >= 0 /\ spendable[d] = Lesser(free, balance[d])

\* What a vesting account may spend is decided by its history alone, whatever order time,
\* transfers, delegations, slashes and refunds came in: of every denomination, the coins
\* vested so far and those received, less those sent and those vested ones that are
\* delegated, as far as the balance goes.  In particular it has never sent a coin that was
\* still locked, it can always spend what it received from others, everything is free at
\* the end time, and spendableCoins never meets a negative amount, where NewCoin panics.
SpendableExact ==
    \A a \in {b \in Accounts : IsVesting(store.accounts[b])} :
        FreeExact(Value(GetVestedCoins(store.accounts[a], time)), store.received[a], store.sent[a],
                  Value(store.accounts[a].delegatedFree), Value(store.accounts[a].coins),
                  Value(SpendableCoins(store.accounts[a], time)))

\* Nobody but the owner, by a transaction, lowers what an account may spend: not time, not
\* a refund of a slashed delegation, not a reward, not a transaction of others, and not
\* the export of the chain and its import.
NeverFrozen ==
    [][\A a \in Accounts :
          \/ store'.sent[a] # store.sent[a]
          \/ store'.owed[a] > store.owed[a]
          \/ \E before \in {Spendable(store, a, time)}, after \in {Spendable(store', a, time')} :
                Covers(Value(after), Value(before))]_vars
=============================================================================
