------------------------------ MODULE MCBank ------------------------------
(***************************************************************************)
(* A continuous and a delayed vesting account, a plain one, and an address  *)
(* that has no account yet; three denominations.                            *)
(***************************************************************************)
EXTENDS Bank

CONSTANTS cont, delay, plain, fresh

Each(amounts) == removeZeroCoins([d \in 1..3 |-> Coin(d, amounts[d])])

File(coins, vesting, start, end) ==
    [coins |-> coins, originalVesting |-> vesting, delegatedFree |-> <<>>, delegatedVesting |-> <<>>,
     start |-> start, end |-> end]

SomeGenesis ==
    [a \in Addresses |->
        CASE a = cont -> File(Each(<<0, 4, 10>>), Each(<<0, 4, 10>>), 1, 4)
          [] a = delay -> File(Each(<<2, 0, 6>>), Each(<<2, 0, 6>>), 0, 3)
          [] a = plain -> File(Each(<<3, 3, 9>>), <<>>, 0, 0)
          [] OTHER -> None]

Send(from, to, amount) == [type |-> "send", from |-> from, to |-> to, amount |-> amount]
MultiSend(inputs, outputs) == [type |-> "multisend", inputs |-> inputs, outputs |-> outputs]
Put(a, coins) == [address |-> a, coins |-> coins]

\* Among them coins out of order, totals that differ, an input given twice.
SomeSends ==
    { Send(cont, plain, Each(<<0, 1, 3>>)), Send(delay, cont, Each(<<2, 0, 4>>)),
      Send(plain, cont, Each(<<3, 0, 5>>)), Send(plain, delay, <<Coin(3, 1), Coin(1, 1)>>),
      MultiSend(<<Put(plain, Each(<<1, 0, 0>>)), Put(cont, Each(<<0, 0, 4>>)), Put(cont, Each(<<0, 0, 4>>))>>,
                <<Put(fresh, Each(<<1, 0, 8>>))>>),
      MultiSend(<<Put(plain, Each(<<0, 2, 0>>))>>, <<Put(delay, Each(<<0, 3, 0>>))>>) }

SomeFees == {<<>>, Each(<<0, 0, 1>>)}
SomeRewards == {Each(<<1, 0, 2>>)}
=============================================================================
