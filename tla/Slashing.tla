------------------------------ MODULE Slashing ------------------------------
(***************************************************************************)
(* x/slashing: who signed the last blocks, and the punishment of those who *)
(* did not or signed twice (src/x/slashing).                               *)
(*                                                                         *)
(* Of x/staking there is what slashing sees of it and acts on: the status, *)
(* the jailing and the removal of validators, and the hooks; Staking and   *)
(* ValidatorSet have the rest, in particular who becomes bonded, which is  *)
(* any choice here, and what Slash does.  A validator has one consensus    *)
(* key, and one that is created again has the same.  Tendermint keeps the  *)
(* sets that sign the last block, this one and the next.                   *)
(***************************************************************************)
EXTENDS Integers, FiniteSets, Sequences

CONSTANTS
    Validators,
    SignedBlocksWindow,    \* Params
    MinSignedPerWindow,    \* as a number of blocks
    MaxEvidenceAge,
    DowntimeJailDuration,
    DoubleSignJailEndTime, \* the end of time
    UnbondingTime,         \* of staking
    TimeSteps,             \* block time minus the last block's
    MaxHeight              \* bound: heights explored

\* Block times of Tendermint increase strictly.  Nothing in the code relates the durations
\* to each other; the properties need that unbonding takes longer than evidence is good
\* for, and longer than a jail, by the blocks that votes lag behind.
ASSUME SlashingAssumption ==
    /\ IsFiniteSet(Validators)
    /\ SignedBlocksWindow \in Nat \ {0}
    /\ MinSignedPerWindow \in 0..SignedBlocksWindow
    /\ MaxEvidenceAge \in Nat /\ DowntimeJailDuration \in Nat /\ UnbondingTime \in Nat
    /\ DoubleSignJailEndTime \in Nat
    /\ TimeSteps \subseteq Nat \ {0} /\ MaxHeight \in Nat
    /\ \A step \in TimeSteps : step < UnbondingTime /\ MaxEvidenceAge + step =< UnbondingTime
    /\ \A last, step \in TimeSteps : DowntimeJailDuration + last + step =< UnbondingTime + 1

VARIABLES
    vals,      \* staking: status, jailed and the end of the unbonding of every validator
    infos,     \* ValidatorSigningInfo
    missed,    \* the set indices of the MissedBlockBitArray
    pubkeys,   \* the AddrPubkeyRelation
    lastVals, curVals, nextVals,  \* Tendermint: signers of the last, this and the next block
    signed,    \* <<validator, block time>> of every block it was to sign
    recent,    \* what the last SignedBlocksWindow votes were since the last reset
    doubles,   \* punishments for double signs
    now, height, phase

vars == <<vals, infos, missed, pubkeys, lastVals, curVals, nextVals, signed, recent, doubles,
          now, height, phase>>

NoVal == [status |-> "None", jailed |-> FALSE, until |-> 0]

\* No signing info yet.
NoInfo == [found |-> FALSE, start |-> 0, offset |-> 0, until |-> 0, tombstoned |-> FALSE,
           counter |-> 0]

\* AfterValidatorBonded creates it the first time only.
NewInfo(h) == [NoInfo EXCEPT !.found = TRUE, !.start = h]

\* After InitChain: all validators are bonded.
Init ==
    /\ vals = [v \in Validators |-> [NoVal EXCEPT !.status = "Bonded"]]
    /\ infos = [v \in Validators |-> NewInfo(0)]
    /\ missed = [v \in Validators |-> {}]
    /\ pubkeys = Validators
    /\ lastVals = {} /\ curVals = Validators /\ nextVals = Validators
    /\ signed = {} /\ recent = [v \in Validators |-> <<>>] /\ doubles = [v \in Validators |-> 0]
    /\ now = 0 /\ height = 0 /\ phase = "committed"
-----------------------------------------------------------------------------
(* BeginBlocker *)

\* Mutant: a block that was missed before is not counted down.
CountedNeverDown(v, absent, index) ==
    infos[v].counter + IF absent /\ index \notin missed[v] THEN 1 ELSE 0

\* The counter follows the bit that changes.
CountedMissed(v, absent, index) ==
    CASE absent /\ index \notin missed[v] -> infos[v].counter + 1
      [] ~absent /\ index \in missed[v] -> infos[v].counter - 1
      [] OTHER -> infos[v].counter

\* Too many of the last blocks missed at height h.
BelowThreshold(v, absent, h) ==
    /\ h > infos[v].start + SignedBlocksWindow
    /\ CountedMissed(v, absent, infos[v].offset % SignedBlocksWindow)
           > SignedBlocksWindow - MinSignedPerWindow

Punishable(v) == vals[v].status # "None" /\ ~vals[v].jailed

\* handleValidatorSignature slashes and jails v.
Downtime(v, absent, h) == BelowThreshold(v, absent, h) /\ Punishable(v)

\* setValidatorMissedBlockBitArray
Marked(v, absent, index) ==
    IF absent THEN missed[v] \cup {index} ELSE missed[v] \ {index}

\* handleValidatorSignature, for the signing info.
InfoAfterVote(v, absent, h, time) ==
    IF Downtime(v, absent, h)
    THEN [infos[v] EXCEPT !.offset = 0, !.counter = 0, !.until = time + DowntimeJailDuration]
    ELSE [infos[v] EXCEPT !.offset = @ + 1,
             !.counter = CountedMissed(v, absent, infos[v].offset % SignedBlocksWindow)]

\* handleValidatorSignature, for the bit array.
MissedAfterVote(v, absent, h) ==
    IF Downtime(v, absent, h) THEN {} ELSE Marked(v, absent, infos[v].offset % SignedBlocksWindow)

RecentAfterVote(v, absent, h) ==
    IF Downtime(v, absent, h) THEN <<>>
    ELSE LET all == Append(recent[v], absent)
         IN  IF Len(all) > SignedBlocksWindow THEN Tail(all) ELSE all

\* handleDoubleSign does not return early.
Confirmed(v, time, blockTime, tombstoned) ==
    /\ v \in pubkeys
    /\ blockTime - time =< MaxEvidenceAge
    /\ vals[v].status \notin {"None", "Unbonded"}
    /\ ~tombstoned

\* The panics of handleValidatorSignature and of Slash: an unknown key or signing info,
\* or an unbonded validator to be slashed.
VotePanics(v, absent, h) ==
    \/ v \notin pubkeys \/ ~infos[v].found
    \/ Downtime(v, absent, h) /\ vals[v].status = "Unbonded"

\* The panic of handleDoubleSign: no signing info for a validator to be slashed.
EvidencePanics(v) ==
    v \in pubkeys /\ vals[v].status \notin {"None", "Unbonded"} /\ ~infos[v].found

\* BeginBlocker of the next block: the votes of the last one, then at most one double
\* sign (bound) by v of a block at some time.
BeginBlock(step, absent, evidence) ==
    LET h    == height + 1
        time == now + step
        down == {v \in lastVals : Downtime(v, v \in absent, h)}
        info(v) == IF v \in lastVals THEN InfoAfterVote(v, v \in absent, h, time) ELSE infos[v]
        twice == {v \in Validators : \E e \in evidence :
                     e[1] = v /\ Confirmed(v, e[2], time, infos[v].tombstoned)}
    IN  /\ phase = "committed" /\ height < MaxHeight
        /\ \A v \in lastVals : ~VotePanics(v, v \in absent, h)
        /\ \A e \in evidence : ~EvidencePanics(e[1])
        /\ vals' = [v \in Validators |->
                        IF v \in down \cup twice THEN [vals[v] EXCEPT !.jailed = TRUE] ELSE vals[v]]
        /\ infos' = [v \in Validators |->
                        IF v \in twice
                        THEN [info(v) EXCEPT !.tombstoned = TRUE, !.until = DoubleSignJailEndTime]
                        ELSE info(v)]
        /\ missed' = [v \in Validators |->
                        IF v \in lastVals THEN MissedAfterVote(v, v \in absent, h) ELSE missed[v]]
        /\ recent' = [v \in Validators |->
                        IF v \in lastVals THEN RecentAfterVote(v, v \in absent, h) ELSE recent[v]]
        /\ doubles' = [v \in Validators |-> IF v \in twice THEN doubles[v] + 1 ELSE doubles[v]]
        /\ signed' = signed \cup {<<v, time>> : v \in curVals}
        /\ now' = time /\ height' = h /\ phase' = "deliver"
        /\ UNCHANGED <<pubkeys, lastVals, curVals, nextVals>>
-----------------------------------------------------------------------------
(* Messages, and the validators' EndBlocker *)

Delivering ==
    /\ phase = "deliver"
    /\ UNCHANGED <<missed, lastVals, curVals, nextVals, signed, recent, doubles, now, height, phase>>

\* The tests of handleMsgUnjail on the signing info.
JailOver(v) == ~infos[v].tombstoned /\ now >= infos[v].until

\* handleMsgUnjail, with a sufficient self-delegation.
Unjail(v) ==
    /\ Delivering
    /\ vals[v].status # "None" /\ vals[v].jailed
    /\ infos[v].found /\ JailOver(v)
    /\ vals' = [vals EXCEPT ![v].jailed = FALSE]
    /\ UNCHANGED <<infos, pubkeys>>

\* handleMsgCreateValidator and AfterValidatorCreated
CreateValidator(v) ==
    /\ Delivering
    /\ vals[v].status = "None"
    /\ vals' = [vals EXCEPT ![v] = [NoVal EXCEPT !.status = "Unbonded"]]
    /\ pubkeys' = pubkeys \cup {v}
    /\ UNCHANGED infos

\* unbond by the operator, below its minimum.
SelfJail(v) ==
    /\ Delivering
    /\ vals[v].status # "None" /\ ~vals[v].jailed
    /\ vals' = [vals EXCEPT ![v].jailed = TRUE]
    /\ UNCHANGED <<infos, pubkeys>>

\* unbond of the last shares of an unbonded validator, and AfterValidatorRemoved.
Remove(v) ==
    /\ Delivering
    /\ vals[v].status = "Unbonded"
    /\ vals' = [vals EXCEPT ![v] = NoVal]
    /\ pubkeys' = pubkeys \ {v}
    /\ UNCHANGED infos

\* Mutant: every bonding starts a new signing info.
BondedAnew(v) == NewInfo(height)

\* AfterValidatorBonded
AfterValidatorBonded(v) == IF infos[v].found THEN infos[v] ELSE NewInfo(height)

\* Mutant: the time at which a validator began to unbond is forgotten.
MatureAtOnce(val) == val.status = "Unbonding"

\* UnbondAllMatureValidatorQueue takes the validator off the queue.
Mature(val) == val.status = "Unbonding" /\ val.until =< now

\* EndBlocker: some validators that are not jailed are bonded, the others leave; of those
\* whose time is over, the emptied ones are removed.
EndBlock(bonded, emptied) ==
    LET updated(v) ==
            CASE v \in bonded -> [vals[v] EXCEPT !.status = "Bonded"]
              [] vals[v].status = "Bonded" /\ v \notin bonded ->
                     [vals[v] EXCEPT !.status = "Unbonding", !.until = now + UnbondingTime]
              [] OTHER -> vals[v]
        mature == {v \in Validators : Mature(updated(v))}
        newly  == {v \in bonded : vals[v].status # "Bonded"}
    IN  /\ phase = "deliver" /\ phase' = "committed"
        /\ \A v \in bonded : vals[v].status # "None" /\ ~vals[v].jailed
        /\ emptied \subseteq mature
        /\ vals' = [v \in Validators |->
                        CASE v \in emptied -> NoVal
                          [] v \in mature \ emptied -> [updated(v) EXCEPT !.status = "Unbonded"]
                          [] OTHER -> updated(v)]
        /\ infos' = [v \in Validators |-> IF v \in newly THEN AfterValidatorBonded(v) ELSE infos[v]]
        /\ pubkeys' = pubkeys \ emptied
        /\ lastVals' = curVals /\ curVals' = nextVals /\ nextVals' = bonded
        /\ UNCHANGED <<missed, signed, recent, doubles, now, height>>

Next ==
    \/ \E step \in TimeSteps, absent \in SUBSET lastVals :
        \E evidence \in {{}} \cup {{e} : e \in signed} : BeginBlock(step, absent, evidence)
    \/ \E v \in Validators : Unjail(v) \/ CreateValidator(v) \/ SelfJail(v) \/ Remove(v)
    \/ \E bonded, emptied \in SUBSET Validators : EndBlock(bonded, emptied)

Spec == Init /\ [][Next]_vars
-----------------------------------------------------------------------------
(* Properties *)

\* Bits stay within the window and no counter of a signing info becomes negative.
TypeOK ==
    /\ vals \in [Validators -> [status : {"None", "Unbonded", "Unbonding", "Bonded"},
                                jailed : BOOLEAN, until : Nat]]
    /\ infos \in [Validators -> [found : BOOLEAN, start : Nat, offset : Nat, until : Nat,
                                 tombstoned : BOOLEAN, counter : Nat]]
    /\ missed \in [Validators -> SUBSET (0..(SignedBlocksWindow - 1))]
    /\ pubkeys \subseteq Validators
    /\ lastVals \subseteq Validators /\ curVals \subseteq Validators /\ nextVals \subseteq Validators
    /\ signed \subseteq Validators \X Nat
    /\ recent \in [Validators -> Seq(BOOLEAN)]
    /\ doubles \in [Validators -> Nat]
    /\ now \in Nat /\ height \in Nat /\ phase \in {"deliver", "committed"}

\* The array is a ring over the last SignedBlocksWindow votes since the last reset: the
\* bit of every one of them says whether the block was missed, and no other is set.  The
\* counter, which is all that decides on a punishment, is the number of bits, across
\* resets, removals and new bondings.
RingExact ==
    \A v \in Validators :
        LET n == Len(recent[v])
            slot(i) == (infos[v].offset - 1 - (n - i)) % SignedBlocksWindow
        IN  /\ n =< infos[v].offset
            /\ missed[v] = {slot(i) : i \in {j \in 1..n : recent[v][j]}}
            /\ infos[v].counter = Cardinality(missed[v])

\* BeginBlocker never panics: whoever signed the last block, and may have left the set
\* two blocks ago, still has its key and signing info, and is not unbonded.
NoPanic ==
    phase = "committed" =>
        /\ \A v \in lastVals, absent \in BOOLEAN : ~VotePanics(v, absent, height + 1)
        /\ \A v \in Validators : ~EvidencePanics(v)

\* Whoever was to sign a block not older than MaxEvidenceAge is bonded or unbonding, so
\* evidence against it is never dropped because it has left.
StillAccountable ==
    phase = "committed" =>
        \A e \in signed : \A step \in TimeSteps :
            now + step - e[2] =< MaxEvidenceAge => vals[e[1]].status \in {"Bonded", "Unbonding"}

\* A validator is punished for a double sign at most once, also when it is removed and
\* created again with the same key.
PunishedOnce ==
    \A v \in Validators : doubles[v] = IF infos[v].tombstoned THEN 1 ELSE 0

\* After a block no validator is bonded before its jail time for downtime is over, even
\* if it was removed and created again.  Nothing is said of the tombstoned ones.
JailServed ==
    phase = "committed" =>
        \A v \in Validators :
            vals[v].status = "Bonded" /\ ~infos[v].tombstoned => now >= infos[v].until

\* The ring is exact, within the window, and no counter has gone below zero.
RingSound == TypeOK /\ RingExact

\* Leaving and coming back with the same key, in any order with evidence, votes and
\* unjailing, does not make a double sign punishable again, nor a jail for downtime any
\* shorter.  It does end the jail of a tombstoned validator: see TombstonedStaysOut.
PenaltiesServed == PunishedOnce /\ JailServed
-----------------------------------------------------------------------------
(* Said of the system, and not so *)

\* The concepts: a tombstoned validator can not rejoin the validator set.
TombstonedStaysOut ==
    phase = "committed" =>
        \A v \in Validators : infos[v].tombstoned => vals[v].status # "Bonded"
=============================================================================
