------------------------------ MODULE GovProofs ------------------------------
(***************************************************************************)
(* The life of a proposal, for any accounts, parameters, block times,      *)
(* amounts and stakes: the queues and the statuses agree, the EndBlocker   *)
(* leaves nothing overdue, records do not outlive their proposal and a     *)
(* closed proposal stays closed.  That balances are never negative rests   *)
(* on sums over the deposits and is left to model checking; nothing here   *)
(* depends on it.                                                          *)
(***************************************************************************)
EXTENDS Gov, TLAPS

USE GovAssumption

\* The part of the type invariant that is not about balances.
StoreType ==
    /\ proposals \in [IDs -> Proposal]
    /\ nextID \in 1 .. MaxProposals + 1
    /\ deposits \in [IDs -> [Accounts -> Nat]]
    /\ votes \in [IDs -> [Accounts -> Options \cup {"Empty"}]]
    /\ now \in 0 .. MaxTime
    /\ phase \in {"deliver", "ended"}

\* IDs that were not given out yet have no proposal.
FreshIDs == \A p \in IDs : p >= nextID => proposals[p].status = "Nil"

IInv == StoreType /\ FreshIDs /\ QueuesAgree /\ NothingOverdue /\ RecordsOwned

\* The record of an ID not given out is well typed.
LEMMA NoProposalType == NoProposal \in Proposal
  BY DEF NoProposal, Proposal, Times

\* Genesis: no proposals, empty queues.
LEMMA InitIInv == Init => IInv
<1> SUFFICES ASSUME Init PROVE IInv
  OBVIOUS
<1>1. StoreType
  BY NoProposalType DEF Init, StoreType, Options, IDs
<1>2. \A p \in IDs : proposals[p].status = "Nil"
  BY DEF Init, NoProposal
<1>3. GenesisInactive = {} /\ GenesisActive = {}
  BY <1>2 DEF GenesisInactive, GenesisActive, InStatus
<1>4. QueuesAgree
  BY <1>3 DEF QueuesAgree, Init
<1>5. NothingOverdue /\ FreshIDs
  BY <1>2 DEF NothingOverdue, InStatus, FreshIDs
<1>6. RecordsOwned
  BY DEF Init, RecordsOwned
<1> QED  BY <1>1, <1>4, <1>5, <1>6 DEF IInv

\* The queues that a set of proposals calls for.
DueInactive(ps) == {<<ps[q].depositEnd, q>> : q \in {r \in IDs : ps[r].status = "DepositPeriod"}}
DueActive(ps) == {<<ps[q].votingEnd, q>> : q \in {r \in IDs : ps[r].status = "VotingPeriod"}}

\* The queues agree with the records when each is what the records have due.
LEMMA QueuesAgreeIff ==
  QueuesAgree <=> inactive = DueInactive(proposals) /\ active = DueActive(proposals)
  BY DEF QueuesAgree, GenesisInactive, GenesisActive, InStatus, DueInactive, DueActive

\* AddDeposit, opening the vote or not, keeps records and queues in step.
LEMMA AddDepositStep ==
  ASSUME NEW ps \in [IDs -> Proposal], NEW ina, NEW p \in IDs, NEW a \in Accounts,
         NEW amount \in Amounts,
         StoreType, ina = DueInactive(ps), active = DueActive(ps),
         AddDeposit(ps, ina, p, a, amount)
  PROVE  /\ proposals' \in [IDs -> Proposal]
         /\ deposits' \in [IDs -> [Accounts -> Nat]]
         /\ \A q \in IDs \ {p} : proposals'[q] = ps[q] /\ deposits'[q] = deposits[q]
         /\ ps[p].status \in Open
         /\ proposals'[p].status \in Open
         /\ ps[p].status = "VotingPeriod" => proposals'[p].status = "VotingPeriod"
         /\ inactive' = DueInactive(proposals')
         /\ active' = DueActive(proposals')
<1> DEFINE total == ps[p].totalDeposit + amount
           ends  == now + VotingPeriod
           live  == [ps[p] EXCEPT !.totalDeposit = total, !.status = "VotingPeriod",
                                  !.votingEnd = ends]
           paid  == [ps[p] EXCEPT !.totalDeposit = total]
           fires == ps[p].status = "DepositPeriod" /\ total >= MinDeposit
<1>1. /\ ps[p] \in Proposal /\ ps[p].status \in Open
      /\ total \in Nat /\ ends \in Times
  BY DEF AddDeposit, Depositable, StoreType, Proposal, Times
<1>2. live \in Proposal /\ paid \in Proposal
  BY <1>1 DEF Proposal, Open
<1>3. deposits' \in [IDs -> [Accounts -> Nat]] /\ \A q \in IDs \ {p} : deposits'[q] = deposits[q]
  BY DEF AddDeposit, Credit, StoreType
<1>4. CASE fires
  <2>1. proposals' = [ps EXCEPT ![p] = live]
    BY <1>4 DEF AddDeposit
  <2>2. /\ live.status = "VotingPeriod" /\ live.votingEnd = ends
        /\ inactive' = ina \ {<<ps[p].depositEnd, p>>}
        /\ active' = active \cup {<<ends, p>>}
    BY <1>1, <1>4 DEF AddDeposit, RemoveFromInactiveProposalQueue, Proposal
  <2> HIDE DEF live
  <2>3. /\ proposals' \in [IDs -> Proposal] /\ proposals'[p] = live
        /\ \A q \in IDs \ {p} : proposals'[q] = ps[q]
    BY <1>2, <2>1
  <2>4. inactive' = DueInactive(proposals')
    BY <1>4, <2>2, <2>3 DEF DueInactive
  <2>5. active' = DueActive(proposals')
    BY <1>4, <2>2, <2>3 DEF DueActive
  <2> QED  BY <1>1, <1>3, <2>2, <2>3, <2>4, <2>5 DEF Open
<1>5. CASE ~fires
  <2>1. /\ proposals' = [ps EXCEPT ![p] = paid] /\ inactive' = ina /\ active' = active
    BY <1>5 DEF AddDeposit
  <2>2. /\ paid.status = ps[p].status /\ paid.votingEnd = ps[p].votingEnd
        /\ paid.depositEnd = ps[p].depositEnd
    BY <1>1 DEF Proposal
  <2> HIDE DEF paid
  <2>3. /\ proposals' \in [IDs -> Proposal] /\ proposals'[p] = paid
        /\ \A q \in IDs \ {p} : proposals'[q] = ps[q]
    BY <1>2, <2>1
  <2>4. \A q \in IDs : /\ proposals'[q].status = ps[q].status
                       /\ proposals'[q].votingEnd = ps[q].votingEnd
                       /\ proposals'[q].depositEnd = ps[q].depositEnd
    BY <2>2, <2>3
  <2>5. DueInactive(proposals') = DueInactive(ps) /\ DueActive(proposals') = DueActive(ps)
    BY <2>4 DEF DueInactive, DueActive
  <2> QED  BY <1>1, <1>3, <2>1, <2>3, <2>4, <2>5
<1> QED  BY <1>4, <1>5

\* handleMsgSubmitProposal: a fresh proposal with its first deposit.
LEMMA SubmitStep ==
  ASSUME IInv, NEW a \in Accounts, NEW amount \in Amounts, SubmitProposal(a, amount)
  PROVE  IInv' /\ \A q \in IDs : Closed(q) => proposals'[q] = proposals[q]
<1> DEFINE p   == nextID
           end == now + MaxDepositPeriod
           new == [status |-> "DepositPeriod", totalDeposit |-> 0, depositEnd |-> end,
                   votingEnd |-> 0]
           ps  == [proposals EXCEPT ![p] = new]
           ina == inactive \cup {<<end, p>>}
<1>1. /\ phase = "deliver" /\ p \in IDs /\ nextID' = nextID + 1
      /\ AddDeposit(ps, ina, p, a, amount)
      /\ UNCHANGED <<votes, now, phase>>
  BY DEF SubmitProposal
<1>2. StoreType /\ FreshIDs /\ QueuesAgree /\ RecordsOwned
  BY DEF IInv
<1>3. new \in Proposal
  BY <1>2 DEF StoreType, Proposal, Times, Open
<1>4. new.status = "DepositPeriod" /\ new.depositEnd = end
  OBVIOUS
<1> HIDE DEF new
<1>5. /\ ps \in [IDs -> Proposal] /\ ps[p] = new
      /\ \A q \in IDs \ {p} : ps[q] = proposals[q]
  BY <1>1, <1>2, <1>3 DEF StoreType
<1>6. proposals[p].status = "Nil"
  BY <1>1, <1>2 DEF FreshIDs, StoreType
<1> HIDE DEF ps
<1>7. ina = DueInactive(ps) /\ active = DueActive(ps)
  <2>1. ina = DueInactive(ps)
    BY <1>1, <1>2, <1>4, <1>5, <1>6, QueuesAgreeIff DEF DueInactive
  <2>2. active = DueActive(ps)
    BY <1>1, <1>2, <1>4, <1>5, <1>6, QueuesAgreeIff DEF DueActive
  <2> QED  BY <2>1, <2>2
<1> HIDE DEF ina
<1>8. /\ proposals' \in [IDs -> Proposal]
      /\ deposits' \in [IDs -> [Accounts -> Nat]]
      /\ \A q \in IDs \ {p} : proposals'[q] = ps[q] /\ deposits'[q] = deposits[q]
      /\ proposals'[p].status \in Open
      /\ inactive' = DueInactive(proposals')
      /\ active' = DueActive(proposals')
  BY <1>1, <1>2, <1>5, <1>7, AddDepositStep
<1>9. StoreType'
  BY <1>1, <1>2, <1>8 DEF StoreType, IDs
<1>10. FreshIDs'
  BY <1>1, <1>2, <1>5, <1>8 DEF FreshIDs, StoreType, IDs
<1>11. QueuesAgree'
  BY <1>8, QueuesAgreeIff DEF QueuesAgree, GenesisInactive, GenesisActive, InStatus,
     DueInactive, DueActive
<1>12. NothingOverdue'
  BY <1>1 DEF NothingOverdue
<1>13. RecordsOwned'
  <2> SUFFICES ASSUME NEW q \in IDs, NEW b \in Accounts
               PROVE  /\ deposits'[q][b] # 0 => proposals'[q].status \in Open
                      /\ votes'[q][b] # "Empty" => proposals'[q].status = "VotingPeriod"
    BY DEF RecordsOwned
  <2>1. CASE q = p
    BY <1>1, <1>2, <1>6, <1>8, <2>1 DEF RecordsOwned
  <2>2. CASE q # p
    BY <1>1, <1>2, <1>5, <1>8, <2>2 DEF RecordsOwned
  <2> QED  BY <2>1, <2>2
<1>14. \A q \in IDs : Closed(q) => proposals'[q] = proposals[q]
  BY <1>1, <1>2, <1>5, <1>8 DEF Closed, StoreType
<1> QED  BY <1>9, <1>10, <1>11, <1>12, <1>13, <1>14 DEF IInv

\* handleMsgDeposit on an open proposal.
LEMMA DepositStep ==
  ASSUME IInv, NEW p \in IDs, NEW a \in Accounts, NEW amount \in Amounts,
         Deposit(p, a, amount)
  PROVE  IInv' /\ \A q \in IDs : Closed(q) => proposals'[q] = proposals[q]
<1>1. /\ phase = "deliver" /\ AddDeposit(proposals, inactive, p, a, amount)
      /\ UNCHANGED <<nextID, votes, now, phase>>
  BY DEF Deposit
<1>2. StoreType /\ FreshIDs /\ QueuesAgree /\ RecordsOwned
  BY DEF IInv
<1>3. /\ proposals \in [IDs -> Proposal]
      /\ inactive = DueInactive(proposals) /\ active = DueActive(proposals)
  BY <1>2, QueuesAgreeIff DEF StoreType
<1>4. /\ proposals' \in [IDs -> Proposal]
      /\ deposits' \in [IDs -> [Accounts -> Nat]]
      /\ \A q \in IDs \ {p} : proposals'[q] = proposals[q] /\ deposits'[q] = deposits[q]
      /\ proposals[p].status \in Open
      /\ proposals'[p].status \in Open
      /\ proposals[p].status = "VotingPeriod" => proposals'[p].status = "VotingPeriod"
      /\ inactive' = DueInactive(proposals')
      /\ active' = DueActive(proposals')
  BY <1>1, <1>2, <1>3, AddDepositStep
<1>5. StoreType'
  BY <1>1, <1>2, <1>4 DEF StoreType
<1>6. FreshIDs'
  BY <1>1, <1>2, <1>4 DEF FreshIDs, Open
<1>7. QueuesAgree'
  BY <1>4 DEF QueuesAgree, GenesisInactive, GenesisActive, InStatus,
     DueInactive, DueActive
<1>8. NothingOverdue'
  BY <1>1 DEF NothingOverdue
<1>9. RecordsOwned'
  BY <1>1, <1>2, <1>4 DEF RecordsOwned
<1>10. \A q \in IDs : Closed(q) => proposals'[q] = proposals[q]
  BY <1>4 DEF Closed
<1> QED  BY <1>5, <1>6, <1>7, <1>8, <1>9, <1>10 DEF IInv

\* AddVote touches votes only, of a proposal in its voting period.
LEMMA AddVoteStep ==
  ASSUME IInv, NEW p \in IDs, NEW a \in Accounts, NEW option \in Ballots,
         AddVote(p, a, option)
  PROVE  IInv' /\ proposals' = proposals
<1>1. /\ phase = "deliver" /\ proposals[p].status = "VotingPeriod"
      /\ votes' = [votes EXCEPT ![p][a] = option]
      /\ UNCHANGED <<proposals, nextID, inactive, active, deposits, now, phase>>
  BY DEF AddVote
<1>2. StoreType /\ FreshIDs /\ QueuesAgree /\ RecordsOwned
  BY DEF IInv
<1>3. StoreType'
  BY <1>1, <1>2 DEF StoreType
<1>4. FreshIDs' /\ QueuesAgree'
  BY <1>1, <1>2 DEF FreshIDs, QueuesAgree, GenesisInactive, GenesisActive, InStatus
<1>5. NothingOverdue'
  BY <1>1 DEF NothingOverdue
<1>6. RecordsOwned'
  BY <1>1, <1>2 DEF RecordsOwned, StoreType
<1> QED  BY <1>1, <1>3, <1>4, <1>5, <1>6 DEF IInv

\* Time passes, and nothing else.
LEMMA BeginBlockStep ==
  ASSUME IInv, BeginBlock
  PROVE  IInv' /\ proposals' = proposals
<1>1. /\ phase' = "deliver"
      /\ UNCHANGED <<proposals, nextID, inactive, active, deposits, votes>>
  BY DEF BeginBlock
<1>2. StoreType /\ FreshIDs /\ QueuesAgree /\ RecordsOwned
  BY DEF IInv
<1>3. now' \in 0 .. MaxTime
  BY <1>2 DEF BeginBlock, StoreType
<1>4. StoreType'
  BY <1>1, <1>2, <1>3 DEF StoreType
<1>5. FreshIDs' /\ QueuesAgree' /\ NothingOverdue' /\ RecordsOwned'
  BY <1>1, <1>2 DEF FreshIDs, QueuesAgree, GenesisInactive, GenesisActive, InStatus,
     NothingOverdue, RecordsOwned
<1> QED  BY <1>1, <1>4, <1>5 DEF IInv

\* What the queue iterators return, in terms of the proposals.
LEMMA DueProposals ==
  ASSUME IInv
  PROVE  /\ Due(inactive) = {p \in IDs : /\ proposals[p].status = "DepositPeriod"
                                         /\ proposals[p].depositEnd =< now}
         /\ Due(active) = {p \in IDs : /\ proposals[p].status = "VotingPeriod"
                                       /\ proposals[p].votingEnd =< now}
<1>1. /\ inactive = DueInactive(proposals) /\ active = DueActive(proposals)
      /\ \A p \in IDs : proposals[p].depositEnd \in Times /\ proposals[p].votingEnd \in Times
  BY QueuesAgreeIff DEF IInv, StoreType, Proposal
<1>2. \A p \in IDs, x \in Times : <<x, p>> \in inactive <=>
          proposals[p].status = "DepositPeriod" /\ proposals[p].depositEnd = x
  BY <1>1 DEF DueInactive
<1>3. \A p \in IDs, x \in Times : <<x, p>> \in active <=>
          proposals[p].status = "VotingPeriod" /\ proposals[p].votingEnd = x
  BY <1>1 DEF DueActive
<1>4. \A p \in IDs : p \in Due(inactive) <=> /\ proposals[p].status = "DepositPeriod"
                                            /\ proposals[p].depositEnd =< now
  BY <1>1, <1>2 DEF Due
<1>5. \A p \in IDs : p \in Due(active) <=> /\ proposals[p].status = "VotingPeriod"
                                          /\ proposals[p].votingEnd =< now
  BY <1>1, <1>3 DEF Due
<1>6. Due(inactive) \subseteq IDs /\ Due(active) \subseteq IDs
  BY DEF Due
<1> QED  BY <1>4, <1>5, <1>6

\* EndBlocker: what is due leaves its queue, its deposits and its votes.
LEMMA EndBlockStep ==
  ASSUME IInv, EndBlock
  PROVE  IInv' /\ \A q \in IDs : Closed(q) => proposals'[q] = proposals[q]
<1> DEFINE dropped == Due(inactive)
           tallied == Due(active)
           passed  == {p \in tallied : Passes(p)}
           settled == dropped \cup tallied
           decided(p) == [proposals[p] EXCEPT !.status =
                             IF p \in passed THEN "Passed" ELSE "Rejected"]
<1>1. StoreType /\ FreshIDs /\ QueuesAgree /\ RecordsOwned
  BY DEF IInv
<1>2. /\ dropped = {p \in IDs : /\ proposals[p].status = "DepositPeriod"
                                /\ proposals[p].depositEnd =< now}
      /\ tallied = {p \in IDs : /\ proposals[p].status = "VotingPeriod"
                                /\ proposals[p].votingEnd =< now}
  BY DueProposals
<1>3. /\ phase' = "ended" /\ nextID' = nextID /\ now' = now
      /\ inactive' = inactive \ {<<proposals[p].depositEnd, p>> : p \in dropped}
      /\ active' = active \ {<<proposals[p].votingEnd, p>> : p \in settled}
      /\ deposits' = [p \in IDs |->
             IF p \in settled THEN [a \in Accounts |-> 0] ELSE deposits[p]]
      /\ votes' = [p \in IDs |->
             IF p \in tallied THEN [a \in Accounts |-> "Empty"] ELSE votes[p]]
  BY DEF EndBlock
<1>4. proposals' = [p \in IDs |->
               CASE p \in dropped -> NoProposal
                 [] p \in passed -> [proposals[p] EXCEPT !.status = "Passed"]
                 [] p \in tallied \ passed -> [proposals[p] EXCEPT !.status = "Rejected"]
                 [] OTHER -> proposals[p]]
  BY DEF EndBlock
<1> HIDE DEF dropped, tallied, passed
<1>5. passed \subseteq tallied /\ tallied \subseteq IDs
  BY <1>2 DEF passed
<1>6. \A p \in IDs : p \in dropped => proposals'[p] = NoProposal
  BY <1>2, <1>4, <1>5
<1>7. \A p \in IDs : p \in tallied => proposals'[p] = decided(p)
  BY <1>2, <1>4, <1>5
<1>8. \A p \in IDs : p \notin settled => proposals'[p] = proposals[p]
  BY <1>4, <1>5
<1>9. \A p \in IDs : /\ decided(p) \in Proposal
                     /\ decided(p).status \in Final
  BY <1>1 DEF StoreType, Proposal, Final
<1>10. DOMAIN proposals' = IDs /\ proposals' = [p \in IDs |-> proposals'[p]]
  BY <1>4
<1> HIDE DEF decided
<1>11. \A p \in IDs : proposals'[p] \in Proposal
  BY <1>1, <1>6, <1>7, <1>8, <1>9, NoProposalType DEF StoreType
<1>12. StoreType'
  <2>1. proposals' \in [IDs -> Proposal]
    BY <1>10, <1>11
  <2>2. deposits' \in [IDs -> [Accounts -> Nat]]
    BY <1>1, <1>3 DEF StoreType
  <2>3. votes' \in [IDs -> [Accounts -> Options \cup {"Empty"}]]
    BY <1>1, <1>3 DEF StoreType
  <2> QED  BY <1>1, <1>3, <2>1, <2>2, <2>3 DEF StoreType
<1>13. \A p \in IDs : /\ p \in dropped => proposals'[p].status = "Nil"
                      /\ p \in tallied => proposals'[p].status \in Final
                      /\ p \notin settled => proposals'[p] = proposals[p]
  BY <1>6, <1>7, <1>8, <1>9 DEF NoProposal
<1>14. FreshIDs'
  BY <1>1, <1>2, <1>3, <1>13 DEF FreshIDs
<1>15. inactive' = DueInactive(proposals)' /\ active' = DueActive(proposals)'
  <2>1. \A p \in IDs : /\ proposals'[p].status = "DepositPeriod" <=>
                              proposals[p].status = "DepositPeriod" /\ p \notin dropped
                       /\ proposals'[p].status = "VotingPeriod" <=>
                              proposals[p].status = "VotingPeriod" /\ p \notin tallied
    BY <1>2, <1>13 DEF Final
  <2>2. inactive' = DueInactive(proposals)'
    BY <1>1, <1>2, <1>3, <1>13, <2>1, QueuesAgreeIff DEF DueInactive
  <2>3. active' = DueActive(proposals)'
    BY <1>1, <1>2, <1>3, <1>13, <2>1, QueuesAgreeIff DEF DueActive
  <2> QED  BY <2>2, <2>3
<1>16. QueuesAgree'
  BY <1>15 DEF QueuesAgree, GenesisInactive, GenesisActive, InStatus, DueInactive, DueActive
<1>17. NothingOverdue'
  <2>1. \A p \in IDs : /\ proposals[p].depositEnd \in Int
                       /\ proposals[p].votingEnd \in Int
    BY <1>1 DEF StoreType, Proposal, Times
  <2>2. now \in Int
    BY <1>1 DEF StoreType
  <2>3. ASSUME NEW p \in IDs, proposals'[p].status = "DepositPeriod"
        PROVE  proposals'[p].depositEnd > now'
    BY <1>2, <1>3, <1>13, <2>1, <2>2, <2>3 DEF Final
  <2>4. ASSUME NEW p \in IDs, proposals'[p].status = "VotingPeriod"
        PROVE  proposals'[p].votingEnd > now'
    BY <1>2, <1>3, <1>13, <2>1, <2>2, <2>4 DEF Final
  <2> QED  BY <2>3, <2>4 DEF NothingOverdue, InStatus
<1>18. RecordsOwned'
  BY <1>1, <1>2, <1>3, <1>13 DEF RecordsOwned
<1>19. \A q \in IDs : Closed(q) => proposals'[q] = proposals[q]
  BY <1>2, <1>13 DEF Closed, Open
<1> QED  BY <1>12, <1>14, <1>16, <1>17, <1>18, <1>19 DEF IInv

\* Every step, and stuttering, keeps the invariant.
LEMMA NextStep ==
  ASSUME IInv, [Next]_vars
  PROVE  IInv' /\ \A q \in IDs : Closed(q) => proposals'[q] = proposals[q]
<1>1. ASSUME NEW a \in Accounts, NEW amount \in Amounts, SubmitProposal(a, amount)
      PROVE  IInv' /\ \A q \in IDs : Closed(q) => proposals'[q] = proposals[q]
  BY <1>1, SubmitStep
<1>2. ASSUME NEW p \in IDs, NEW a \in Accounts, NEW amount \in Amounts, Deposit(p, a, amount)
      PROVE  IInv' /\ \A q \in IDs : Closed(q) => proposals'[q] = proposals[q]
  BY <1>2, DepositStep
<1>3. ASSUME NEW p \in IDs, NEW a \in Accounts, NEW option \in Ballots, AddVote(p, a, option)
      PROVE  IInv' /\ \A q \in IDs : Closed(q) => proposals'[q] = proposals[q]
  BY <1>3, AddVoteStep
<1>4. CASE BeginBlock
  BY <1>4, BeginBlockStep
<1>5. CASE EndBlock
  BY <1>5, EndBlockStep
<1>6. CASE UNCHANGED vars
  BY <1>6 DEF vars, IInv, StoreType, FreshIDs, QueuesAgree, GenesisInactive, GenesisActive,
     InStatus, NothingOverdue, RecordsOwned
<1> QED  BY <1>1, <1>2, <1>3, <1>4, <1>5, <1>6 DEF Next

\* The inductive invariant holds in every state.
THEOREM Inductive == Spec => []IInv
<1>1. IInv /\ [Next]_vars => IInv'
  BY NextStep
<1> QED  BY InitIInv, <1>1, PTL DEF Spec

\* The queues hold exactly the open proposals at their ends, so the EndBlocker never
\* meets an ID whose proposal is gone or in another status; after it no open proposal
\* is past its end, and no deposit or vote outlives the period of its proposal.
THEOREM RecordsConsistent == Spec => []RecordsAgree
<1>1. IInv => RecordsAgree
  BY DEF IInv, RecordsAgree
<1> QED  BY <1>1, Inductive, PTL

\* A decided or dropped proposal never changes and its ID is never given out again.
THEOREM DecisionsFinal == Spec => ClosedForever
<1>1. IInv /\ [Next]_vars => [\A p \in IDs : Closed(p) => proposals'[p] = proposals[p]]_vars
  BY NextStep
<1> QED  BY <1>1, Inductive, PTL DEF Spec, ClosedForever
=============================================================================
