-------------------------------- MODULE Gov --------------------------------
(***************************************************************************)
(* Governance (src/x/gov): proposals, the deposits that open them to a      *)
(* vote, the votes, and the EndBlocker that drops the proposals whose       *)
(* deposit period is over and tallies those whose voting period is over.    *)
(*                                                                         *)
(* Amounts are of the one denomination of MinDeposit.  A deposit of 0 is    *)
(* one that does not exist or is empty.  Stakes is what the staking module  *)
(* may answer when the EndBlocker tallies.                                  *)
(***************************************************************************)
EXTENDS Dec, FiniteSetsExt

CONSTANTS
    Accounts,          \* users; a validator is known by its operator's account
    Senders,           \* the users that messages come from
    InitialCoins,      \* what every user starts with
    Amounts,           \* the amounts that messages carry
    Ballots,           \* the options that messages carry
    MinDeposit,        \* DepositParams
    MaxDepositPeriod,
    VotingPeriod,      \* VotingParams
    Quorum,            \* TallyParams, as Decs
    Threshold,
    Veto,
    Stakes,            \* the answers of the staking module
    BlockTimes,        \* how much time passes between two blocks
    MaxTime,           \* bound: the time of the last block
    LastSubmit,        \* bound: the last time a proposal is submitted
    MaxProposals       \* bound: how many proposals are submitted

DepositedCoins == "DepositedCoinsAccAddr"
BurnedCoins == "BurnedDepositCoinsAccAddr"

IDs == 1 .. MaxProposals
Options == {"Yes", "Abstain", "No", "NoWithVeto"}
Open == {"DepositPeriod", "VotingPeriod"}
Final == {"Passed", "Rejected"}
Times == 0 .. MaxTime + MaxDepositPeriod + VotingPeriod

\* TextProposal, without its text, its submission time and its final tally.
Proposal == [status : {"Nil"} \cup Open \cup Final, totalDeposit : Nat,
             depositEnd : Times, votingEnd : Times]

\* The answer of GetProposal for an ID that is not in the store.
NoProposal == [status |-> "Nil", totalDeposit |-> 0, depositEnd |-> 0, votingEnd |-> 0]

ASSUME GovAssumption ==
    /\ Senders \subseteq Accounts
    /\ InitialCoins \in Nat
    /\ Amounts \subseteq Nat
    /\ Ballots \subseteq Options
    /\ MinDeposit \in Nat
    /\ MaxDepositPeriod \in Nat
    /\ VotingPeriod \in Nat
    /\ BlockTimes \subseteq Nat
    /\ MaxTime \in Nat
    /\ LastSubmit \in Nat
    /\ MaxProposals \in Nat
    /\ Accounts \cap {DepositedCoins, BurnedCoins} = {}

VARIABLES
    proposals,  \* KeyProposal: the TextProposals in the store
    nextID,     \* KeyNextProposalID
    inactive,   \* PrefixInactiveProposalQueue: pairs of a deposit end time and an ID
    active,     \* PrefixActiveProposalQueue: pairs of a voting end time and an ID
    deposits,   \* KeyDeposit
    votes,      \* KeyVote
    coins,      \* the bank's balances
    now,        \* the time of the current block
    phase,      \* "deliver" until the block's EndBlocker has run, then "ended"
    stake       \* the staking module's answer in this block

vars == <<proposals, nextID, inactive, active, deposits, votes, coins, now, phase,
          stake>>

Init ==
    /\ proposals = [p \in IDs |-> NoProposal]
    /\ nextID = 1
    /\ inactive = {}
    /\ active = {}
    /\ deposits = [p \in IDs |-> [a \in Accounts |-> 0]]
    /\ votes = [p \in IDs |-> [a \in Accounts |-> "Empty"]]
    /\ coins = [a \in Accounts \cup {DepositedCoins, BurnedCoins} |->
                   IF a \in Accounts THEN InitialCoins ELSE 0]
    /\ now = 0
    /\ phase = "ended"
    /\ stake \in Stakes
-----------------------------------------------------------------------------
(* The tally of the votes vs, which are votes[p] of some proposal p *)

\* A voter that is no bonded validator takes its delegations out of the power
\* of the validators they are with.
IndependentVoters(vs) == {a \in Accounts : vs[a] # "Empty" /\ a \notin stake.bonded}

\* Mutant: a validator votes with its delegators' shares although they voted.
NoDeductions(vs, v) == 0

DelegatorDeductions(vs, v) ==
    MapThenSumSet(LAMBDA a : stake.delegations[a][v], IndependentVoters(vs))

DelegatorPower(a, v) ==
    MulInt(Quo(stake.delegations[a][v], stake.shares[v]), stake.tokens[v])

ValidatorPower(vs, v) ==
    MulInt(Quo(stake.shares[v] - DelegatorDeductions(vs, v), stake.shares[v]),
           stake.tokens[v])

\* results[option]
TallyResult(vs, option) ==
    MapThenSumSet(LAMBDA e : DelegatorPower(e[1], e[2]),
                  {a \in IndependentVoters(vs) : vs[a] = option} \X stake.bonded)
    + MapThenSumSet(LAMBDA v : ValidatorPower(vs, v),
                    {v \in stake.bonded : vs[v] = option})

TotalVotingPower(vs) == MapThenSumSet(LAMBDA o : TallyResult(vs, o), Options)

\* Mutant: it is the No votes that have to exceed the threshold.
PassesWithNo(vs) ==
    LET total == TotalVotingPower(vs)
        cast  == total - TallyResult(vs, "Abstain")
    IN  /\ stake.totalBonded # 0
        /\ Quo(total, NewDec(stake.totalBonded)) >= Quorum
        /\ cast # 0
        /\ Quo(TallyResult(vs, "NoWithVeto"), total) =< Veto
        /\ Quo(TallyResult(vs, "No"), cast) > Threshold

\* tally: quorum, all abstain, veto, threshold, in this order.
Passes(vs) ==
    LET total == TotalVotingPower(vs)
        cast  == total - TallyResult(vs, "Abstain")
    IN  /\ stake.totalBonded # 0
        /\ Quo(total, NewDec(stake.totalBonded)) >= Quorum
        /\ cast # 0
        /\ Quo(TallyResult(vs, "NoWithVeto"), total) =< Veto
        /\ Quo(TallyResult(vs, "Yes"), cast) > Threshold
-----------------------------------------------------------------------------
(* Messages *)

\* "Check if proposal is still depositable"
Depositable(ps, p) == ps[p].status \in Open

\* The bank's subtractCoins fails when the sender has too little.
CanSend(a, amount) == coins[a] >= amount

\* Mutant: a second deposit of the same account replaces the first.
CreditReplacing(p, a, amount) == [deposits EXCEPT ![p][a] = amount]

\* The deposit object is added or increased.
Credit(p, a, amount) == [deposits EXCEPT ![p][a] = @ + amount]

\* Mutant: a proposal in its voting period stays in the inactive queue.
DequeueForgotten(queue, time, p) == queue

\* RemoveFromInactiveProposalQueue
RemoveFromInactiveProposalQueue(queue, time, p) == queue \ {<<time, p>>}

\* AddDeposit on proposal p of the proposals ps, with the inactive queue ina:
\* the deposit that reaches MinDeposit activates the voting period.
AddDeposit(ps, ina, p, a, amount) ==
    LET total     == ps[p].totalDeposit + amount
        activates == ps[p].status = "DepositPeriod" /\ total >= MinDeposit
    IN  /\ Depositable(ps, p)
        /\ CanSend(a, amount)
        /\ coins' = [coins EXCEPT ![a] = @ - amount, ![DepositedCoins] = @ + amount]
        /\ deposits' = Credit(p, a, amount)
        /\ IF activates
           THEN /\ proposals' = [ps EXCEPT ![p].totalDeposit = total,
                                           ![p].status = "VotingPeriod",
                                           ![p].votingEnd = now + VotingPeriod]
                /\ inactive' = RemoveFromInactiveProposalQueue(ina, ps[p].depositEnd, p)
                /\ active' = active \cup {<<now + VotingPeriod, p>>}
           ELSE /\ proposals' = [ps EXCEPT ![p].totalDeposit = total]
                /\ inactive' = ina
                /\ UNCHANGED active

\* handleMsgSubmitProposal: NewTextProposal and the first deposit on it.
SubmitProposal(a, amount) ==
    LET end == now + MaxDepositPeriod
        new == [status |-> "DepositPeriod", totalDeposit |-> 0, depositEnd |-> end,
                votingEnd |-> 0]
    IN  /\ phase = "deliver"
        /\ now =< LastSubmit
        /\ nextID \in IDs
        /\ AddDeposit([proposals EXCEPT ![nextID] = new],
                      inactive \cup {<<end, nextID>>}, nextID, a, amount)
        /\ nextID' = nextID + 1
        /\ UNCHANGED <<votes, now, phase, stake>>

\* handleMsgDeposit
Deposit(p, a, amount) ==
    /\ phase = "deliver"
    /\ AddDeposit(proposals, inactive, p, a, amount)
    /\ UNCHANGED <<nextID, votes, now, phase, stake>>

\* handleMsgVote: a later vote replaces an earlier one.
AddVote(p, a, option) ==
    /\ phase = "deliver"
    /\ proposals[p].status = "VotingPeriod"
    /\ votes' = [votes EXCEPT ![p][a] = option]
    /\ UNCHANGED <<proposals, nextID, inactive, active, deposits, coins, now, phase,
                   stake>>
-----------------------------------------------------------------------------
(* Blocks *)

\* A block begins; the staking module has moved on.
BeginBlock ==
    /\ phase = "ended"
    /\ \E d \in BlockTimes : now' = IF now + d > MaxTime THEN MaxTime ELSE now + d
    /\ phase' = "deliver"
    /\ stake' \in Stakes
    /\ UNCHANGED <<proposals, nextID, inactive, active, deposits, votes, coins>>

\* Mutant: only what is due at exactly this time.
DueNow(queue) == {p \in IDs : <<now, p>> \in queue}

\* The IDs that a queue iterator up to the current time returns.
Due(queue) == {p \in IDs : \E t \in Times : t =< now /\ <<t, p>> \in queue}

\* EndBlocker: the proposals due in the inactive queue are deleted and their
\* deposits burned; those due in the active queue are tallied, their votes
\* deleted and their deposits refunded or burned.
EndBlock ==
    LET dropped  == Due(inactive)
        tallied  == Due(active)
        passed   == {p \in tallied : Passes(votes[p])}
        settled  == dropped \cup tallied
        refund   == [a \in Accounts |->
                        MapThenSumSet(LAMBDA p : deposits[p][a], passed)]
        returned == MapThenSumSet(LAMBDA a : refund[a], Accounts)
        burned   == MapThenSumSet(LAMBDA e : deposits[e[1]][e[2]],
                                  (settled \ passed) \X Accounts)
    IN  /\ phase = "deliver"
        /\ phase' = "ended"
        /\ proposals' = [p \in IDs |->
               CASE p \in dropped -> NoProposal
                 [] p \in passed -> [proposals[p] EXCEPT !.status = "Passed"]
                 [] p \in tallied \ passed -> [proposals[p] EXCEPT !.status = "Rejected"]
                 [] OTHER -> proposals[p]]
        /\ inactive' = inactive \ {<<proposals[p].depositEnd, p>> : p \in dropped}
        /\ active' = active \ {<<proposals[p].votingEnd, p>> : p \in settled}
        /\ deposits' = [p \in IDs |->
               IF p \in settled THEN [a \in Accounts |-> 0] ELSE deposits[p]]
        /\ votes' = [p \in IDs |->
               IF p \in tallied THEN [a \in Accounts |-> "Empty"] ELSE votes[p]]
        /\ coins' = [a \in DOMAIN coins |->
               CASE a \in Accounts -> coins[a] + refund[a]
                 [] a = DepositedCoins -> coins[a] - returned - burned
                 [] a = BurnedCoins -> coins[a] + burned]
        /\ UNCHANGED <<nextID, now, stake>>

Next ==
    \/ \E a \in Senders, amount \in Amounts : SubmitProposal(a, amount)
    \/ \E p \in IDs, a \in Senders, amount \in Amounts : Deposit(p, a, amount)
    \/ \E p \in IDs, a \in Senders, option \in Ballots : AddVote(p, a, option)
    \/ BeginBlock
    \/ EndBlock

Spec == Init /\ [][Next]_vars

\* Consensus keeps producing blocks: BeginBlock and EndBlock, one of which is always
\* enabled, go on alternating.
FairSpec == Spec /\ WF_phase(phase' = IF phase = "deliver" THEN "ended" ELSE "deliver")
-----------------------------------------------------------------------------
(* Properties *)

\* Proposals are nil, open or final, the queues hold times and IDs, balances and
\* deposits are never negative.
TypeOK ==
    /\ proposals \in [IDs -> Proposal]
    /\ nextID \in 1 .. MaxProposals + 1
    /\ inactive \subseteq Times \X IDs
    /\ active \subseteq Times \X IDs
    /\ deposits \in [IDs -> [Accounts -> Nat]]
    /\ votes \in [IDs -> [Accounts -> Options \cup {"Empty"}]]
    /\ coins \in [Accounts \cup {DepositedCoins, BurnedCoins} -> Nat]
    /\ now \in 0 .. MaxTime
    /\ phase \in {"deliver", "ended"}
    /\ stake \in Stakes

InStatus(status) == {p \in IDs : proposals[p].status = status}

\* What InitGenesis inserts into the queues for the exported proposals.
GenesisInactive == {<<proposals[p].depositEnd, p>> : p \in InStatus("DepositPeriod")}
GenesisActive == {<<proposals[p].votingEnd, p>> : p \in InStatus("VotingPeriod")}

\* Every proposal in its deposit period is in the inactive queue at its deposit
\* end, every proposal in its voting period is in the active queue at its voting
\* end, and nothing else is: the EndBlocker never meets an ID without a proposal,
\* and InitGenesis of an exported state rebuilds the same queues.
QueuesAgree == inactive = GenesisInactive /\ active = GenesisActive

\* Once the EndBlocker has run, no open proposal is past its end.
NothingOverdue ==
    phase = "ended" =>
        /\ \A p \in InStatus("DepositPeriod") : proposals[p].depositEnd > now
        /\ \A p \in InStatus("VotingPeriod") : proposals[p].votingEnd > now

Deposited(p) == MapThenSumSet(LAMBDA a : deposits[p][a], Accounts)

\* The deposit account holds exactly the deposits, and every open proposal's total
\* is the sum of its deposits: the SendCoins of RefundDeposits and DeleteDeposits
\* cannot fail ("should not happen") and no deposit is stranded.
DepositsCovered ==
    /\ coins[DepositedCoins] = MapThenSumSet(Deposited, IDs)
    /\ \A p \in IDs : proposals[p].status \in Open =>
           Deposited(p) = proposals[p].totalDeposit

\* Deposits are kept for open proposals and votes for proposals in their voting
\* period only, so ExportGenesis, which visits the stored proposals, loses none.
RecordsOwned ==
    \A p \in IDs, a \in Accounts :
        /\ deposits[p][a] # 0 => proposals[p].status \in Open
        /\ votes[p][a] # "Empty" => proposals[p].status = "VotingPeriod"

\* The store is consistent: queues, open proposals, deposits and votes agree, and the
\* end of a block leaves nothing overdue.
RecordsAgree == QueuesAgree /\ NothingOverdue /\ RecordsOwned

Closed(p) == p < nextID /\ proposals[p].status \notin Open

\* A decided or dropped proposal never changes again and its ID is not reused.
ClosedForever == [][\A p \in IDs : Closed(p) => proposals'[p] = proposals[p]]_vars

\* Every proposal is eventually decided or dropped.
EventuallyClosed == \A p \in IDs : (proposals[p].status \in Open) ~> Closed(p)

\* Whatever everybody has voted, Abstain included: voting Yes instead of anything else
\* never turns a passing proposal into a failing one, by the rounding of the powers and
\* shares either.  The tally depends on the votes and the stake alone, so it is enough to
\* look at all votes that might be cast, with every stake, before there is a proposal.
YesNeverHurts ==
    nextID = 1 /\ phase = "deliver" =>
        \A vs \in [Accounts -> Options \cup {"Empty"}] :
            Passes(vs) => \A a \in Accounts :
                vs[a] \in Options => Passes([vs EXCEPT ![a] = "Yes"])

BondedTokens == MapThenSumSet(LAMBDA v : stake.tokens[v], stake.bonded)

\* No bonded token is counted twice: a delegator who votes takes its shares out of
\* its validator's vote.  Each of the divisions rounds by at most one unit per token.
CountedOnce ==
    \A p \in InStatus("VotingPeriod") :
        TotalVotingPower(votes[p]) =< NewDec(BondedTokens)
                               + BondedTokens * (1 + Cardinality(IndependentVoters(votes[p])))

\* Deposits are covered, and no balance or deposit has gone below zero on the way.
DepositsSound == TypeOK /\ DepositsCovered

-----------------------------------------------------------------------------
(* What the documentation says and the code does not do *)

\* "If the delegator votes after its validator, it will override its validator vote
\* with its own": the stake a voter has delegated to bonded validators counts for
\* the option that it voted for, besides what it votes with as a validator.
OwnVoteCounts ==
    \A p \in InStatus("VotingPeriod"), a \in Accounts :
        votes[p][a] # "Empty" =>
            TallyResult(votes[p], votes[p][a])
                >= MapThenSumSet(LAMBDA v : DelegatorPower(a, v), stake.bonded \ {a})
                   + MapThenSumSet(LAMBDA v : ValidatorPower(votes[p], v), stake.bonded \cap {a})
=============================================================================
