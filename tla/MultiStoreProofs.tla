-------------------------- MODULE MultiStoreProofs --------------------------
(***************************************************************************)
(* For every set of stores, every block execution and every pruning        *)
(* strategy that keeps the last version (keepRecent >= 1, or keepEvery = 1 *)
(* as in PruneNothing), a crash between any two writes of a commit loses   *)
(* nothing, provided the first commit completes.                           *)
(***************************************************************************)
EXTENDS MultiStore, TLAPS

\* The hypotheses of the theorems: the pruning strategy keeps the last version,
\* and crashes happen only after the first commit.
SafePruning == KeepRecent >= 1 \/ KeepEvery = 1
FirstCommitDone == CrashFrom >= 1

\* The state that block v is known to lead to.
Decided(s, v) == [version |-> v, content |-> chain[v].app[s]]

\* Every saved tree is the state its version stands for, and at most one
\* version is ahead of the latest committed one.
SavedInv ==
    \A s \in Stores : \A v \in DOMAIN saved[s] :
        /\ v \in 1 .. latest + 1
        /\ v =< Len(chain)
        /\ saved[s][v] = chain[v].app[s]

\* The commit infos are those of versions 1 to latest, and every store has kept
\* the latest version.
InfoInv ==
    /\ latest =< Len(chain)
    /\ DOMAIN commitInfo = 1 .. latest
    /\ \A v \in 1 .. latest : \A s \in Stores : commitInfo[v][s] = Decided(s, v)
    /\ latest # 0 => \A s \in Stores : latest \in DOMAIN saved[s]

\* What the process holds in memory in each of its phases.
PhaseInv ==
    /\ phase = "down" =>
           /\ pending = {}
           /\ releasing = {}
           /\ latest = 0 => \A s \in Stores : DOMAIN saved[s] = {}
    /\ phase = "idle" =>
           /\ version = latest
           /\ pending = {}
           /\ releasing = {}
           /\ latest = 0 => \A s \in Stores : DOMAIN saved[s] = {}
           /\ \A s \in Stores :
                 tree[s] = [version |-> latest, content |-> AppState(latest)[s]]
    /\ phase = "commit" =>
           /\ version = latest
           /\ latest + 1 =< Len(chain)
           /\ \A s \in pending :
                 tree[s] = [version |-> latest, content |-> chain[latest + 1].app[s]]
           /\ \A s \in Stores \ pending :
                 /\ tree[s] = Decided(s, latest + 1)
                 /\ latest + 1 \in DOMAIN saved[s]
           /\ releasing \subseteq Stores \ pending

\* Each decided state is what its block makes of the previous one.
ChainInv ==
    \A v \in 1 .. Len(chain) :
        chain[v].app = [s \in Stores |-> Exec(s, AppState(v - 1)[s], chain[v].block)]

IInv == TypeOK /\ SavedInv /\ InfoInv /\ PhaseInv /\ ChainInv

USE ContentsAssumption, BoundsAssumption

\* A new node: nothing saved, nothing loaded.
LEMMA InitIInv == Init => IInv
  BY DEF Init, IInv, TypeOK, SavedInv, InfoInv, PhaseInv, ChainInv, NewTree,
         CommitIDs, AppState

\* Executing blocks yields contents of stores.
LEMMA AppStateType ==
  ASSUME TypeOK, NEW v \in 0 .. Len(chain)
  PROVE  AppState(v) \in [Stores -> Contents]
<1>1. CASE v = 0
  BY <1>1 DEF AppState
<1>2. CASE v # 0
  <2>1. chain[v] \in Decisions
    BY <1>2 DEF TypeOK
  <2> QED  BY <1>2, <2>1 DEF AppState, Decisions
<1> QED  BY <1>1, <1>2

\* LoadLatestVersion fills the memory from the latest commit info.
LEMMA LoadPreserves ==
  ASSUME IInv, LoadLatestVersion
  PROVE  IInv'
<1> USE DEF IInv
<1>1. ASSUME NEW s \in Stores
      PROVE  LoadTree(s) = [version |-> latest, content |-> AppState(latest)[s]]
  <2>1. CASE latest = 0
    BY <1>1, <2>1 DEF LoadTree, LoadID, LoadLatestVersion, PhaseInv, NewTree, AppState
  <2>2. CASE latest # 0
    <3>1. latest \in 1 .. latest /\ commitInfo[latest][s] = Decided(s, latest)
      BY <2>2 DEF InfoInv, TypeOK
    <3>2. LoadID(s) = latest
      BY <2>2, <3>1 DEF LoadID, Decided
    <3>3. latest \in DOMAIN saved[s] /\ saved[s][latest] = chain[latest].app[s]
      BY <2>2 DEF InfoInv, SavedInv
    <3> QED  BY <2>2, <3>2, <3>3 DEF LoadTree, AppState
  <2> QED  BY <2>1, <2>2
<1>2. AppState(latest) \in [Stores -> Contents]
  BY AppStateType DEF InfoInv, TypeOK
<1>3. TypeOK'
  BY <1>1, <1>2 DEF LoadLatestVersion, TypeOK, CommitIDs
<1>4. SavedInv' /\ InfoInv' /\ ChainInv'
  BY DEF LoadLatestVersion, SavedInv, InfoInv, ChainInv, Decided, AppState
<1>5. PhaseInv'
  <2>1. pending' = {} /\ releasing' = {}
    BY DEF LoadLatestVersion, PhaseInv
  <2>2. \A s \in Stores : tree'[s] = [version |-> latest, content |-> AppState(latest)[s]]
    BY <1>1 DEF LoadLatestVersion
  <2> QED  BY <2>1, <2>2 DEF LoadLatestVersion, PhaseInv, AppState
<1> QED  BY <1>3, <1>4, <1>5

\* A block changes the working trees only.
LEMMA DeliverPreserves ==
  ASSUME IInv, NEW b \in Blocks, DeliverBlock(b)
  PROVE  IInv'
<1> USE DEF IInv
<1> DEFINE app == [s \in Stores |-> Exec(s, AppState(latest)[s], b)]
<1>1. /\ phase = "idle" /\ version = latest /\ latest \in Nat
      /\ phase' = "commit" /\ pending' = Stores
      /\ UNCHANGED <<saved, commitInfo, latest, version, releasing>>
  BY DEF DeliverBlock, PhaseInv, TypeOK
<1>2. AppState(latest) \in [Stores -> Contents]
  BY AppStateType DEF InfoInv, TypeOK
<1>3. app \in [Stores -> Contents]
  BY <1>2
<1>4. \A s \in Stores : tree'[s] = [version |-> latest, content |-> app[s]]
  BY <1>1 DEF DeliverBlock, PhaseInv, TypeOK, CommitIDs
<1>5. tree' \in [Stores -> CommitIDs]
  <2>1. ASSUME NEW s \in Stores
        PROVE  tree'[s] \in CommitIDs
    <3>1. app[s] \in Contents
      BY <1>3
    <3> HIDE DEF app
    <3>2. tree'[s] = [version |-> latest, content |-> app[s]]
      BY <1>4
    <3> QED  BY <1>1, <3>1, <3>2 DEF CommitIDs
  <2>2. tree' = [s \in Stores |-> tree'[s]]
    BY DEF DeliverBlock
  <2> QED  BY <2>1, <2>2
<1>6. /\ chain' \in Seq(Decisions)
      /\ Len(chain) =< Len(chain')
      /\ latest + 1 =< Len(chain')
      /\ \A v \in 1 .. Len(chain) : chain'[v] = chain[v]
      /\ chain'[latest + 1].app = app
      /\ ChainInv'
  <2>1. CASE version < Len(chain)
    <3>1. b = chain[latest + 1].block /\ chain' = chain
      BY <1>1, <2>1 DEF DeliverBlock
    <3>2. latest + 1 \in 1 .. Len(chain) /\ (latest + 1) - 1 = latest
      BY <1>1, <2>1 DEF TypeOK
    <3>3. chain[latest + 1].app = app
      BY <3>1, <3>2 DEF ChainInv
    <3> QED  BY <3>1, <3>2, <3>3 DEF TypeOK, ChainInv, AppState
  <2>2. CASE ~(version < Len(chain))
    <3> DEFINE d == [block |-> b, app |-> app]
    <3>1. chain' = Append(chain, d)
      BY <1>1, <2>2 DEF DeliverBlock
    <3>2. Len(chain) = latest
      BY <1>1, <2>2 DEF InfoInv, TypeOK
    <3>3. d \in Decisions
      BY <1>3 DEF Decisions
    <3> HIDE DEF d
    <3>4. /\ chain' \in Seq(Decisions)
          /\ Len(chain') = latest + 1
          /\ \A v \in 1 .. latest : chain'[v] = chain[v]
          /\ chain'[latest + 1] = d
      BY <3>1, <3>2, <3>3 DEF TypeOK
    <3>5. d.block = b /\ d.app = app
      BY DEF d
    <3>6. \A v \in 0 .. latest : AppState(v)' = AppState(v)
      BY <1>1, <3>4 DEF AppState
    <3>7. ASSUME NEW v \in 1 .. latest + 1
          PROVE  chain'[v].app = [s \in Stores |-> Exec(s, AppState(v - 1)'[s], chain'[v].block)]
      <4>1. CASE v = latest + 1
        <5>1. AppState(v - 1)' = AppState(latest)
          BY <1>1, <3>6, <4>1
        <5> QED  BY <3>4, <3>5, <4>1, <5>1
      <4>2. CASE v # latest + 1
        <5>1. v \in 1 .. latest /\ v - 1 \in 0 .. latest
          BY <1>1, <4>2
        <5>2. chain[v].app = [s \in Stores |-> Exec(s, AppState(v - 1)[s], chain[v].block)]
          BY <3>2, <5>1 DEF ChainInv
        <5> QED  BY <3>4, <3>6, <5>1, <5>2
      <4> QED  BY <4>1, <4>2
    <3>8. ChainInv'
      BY <3>4, <3>7 DEF ChainInv
    <3> QED  BY <1>1, <3>2, <3>4, <3>5, <3>8
  <2> QED  BY <2>1, <2>2
<1> HIDE DEF app
<1>7. TypeOK'
  BY <1>1, <1>5, <1>6 DEF TypeOK
<1>8. Len(chain) \in Nat /\ Len(chain') \in Nat
  BY <1>6 DEF TypeOK
<1>9. SavedInv'
  BY <1>1, <1>6, <1>8 DEF SavedInv
<1>10. InfoInv'
  BY <1>1, <1>6, <1>8 DEF InfoInv, Decided
<1>11. PhaseInv'
  BY <1>1, <1>4, <1>6 DEF PhaseInv
<1> QED  BY <1>6, <1>7, <1>9, <1>10, <1>11

\* SaveVersion of one store, new or repeated after a crash.
LEMMA SavePreserves ==
  ASSUME IInv, NEW s \in Stores, SaveVersion(s)
  PROVE  IInv'
<1> USE DEF IInv
<1> DEFINE v == latest + 1
<1>1. /\ phase = "commit" /\ version = latest /\ latest \in Nat
      /\ s \in pending /\ tree[s] = [version |-> latest, content |-> chain[v].app[s]]
      /\ v =< Len(chain) /\ v \in 1 .. Len(chain) /\ Len(chain) \in Nat
  <2>1. phase = "commit" /\ s \in pending
    BY DEF SaveVersion
  <2>2. latest \in Nat /\ Len(chain) \in Nat
    BY DEF TypeOK
  <2>3. /\ version = latest
        /\ tree[s] = [version |-> latest, content |-> chain[latest + 1].app[s]]
        /\ latest + 1 =< Len(chain)
    BY <2>1 DEF PhaseInv
  <2> QED  BY <2>1, <2>2, <2>3
<1>2. chain[v] \in Decisions
  BY <1>1 DEF TypeOK
<1>3. chain[v].app[s] \in Contents
  BY <1>2 DEF Decisions
<1>4. /\ UNCHANGED <<commitInfo, latest, chain, phase, version>>
      /\ pending' = pending \ {s}
      /\ releasing' = {s}
      /\ saved' = [saved EXCEPT ![s] =
             [w \in DOMAIN saved[s] \cup {v} |->
                 IF w = v THEN chain[v].app[s] ELSE saved[s][w]]]
      /\ tree' = [tree EXCEPT ![s].version = v]
  BY <1>1 DEF SaveVersion
<1>5. /\ tree' \in [Stores -> CommitIDs]
      /\ tree'[s] = Decided(s, v)
      /\ \A r \in Stores \ {s} : tree'[r] = tree[r]
  BY <1>1, <1>3, <1>4 DEF TypeOK, CommitIDs, Decided
<1>6. /\ DOMAIN saved' = Stores
      /\ DOMAIN saved'[s] = DOMAIN saved[s] \cup {v}
      /\ saved'[s][v] = chain[v].app[s]
      /\ \A w \in DOMAIN saved[s] \ {v} : saved'[s][w] = saved[s][w]
      /\ \A r \in Stores \ {s} : saved'[r] = saved[r]
  BY <1>4 DEF TypeOK
<1> HIDE DEF v
<1>7. TypeOK'
  <2>1. v \in Nat
    BY <1>1 DEF v
  <2>2. ASSUME NEW r \in Stores
        PROVE  /\ DOMAIN saved'[r] \subseteq Nat
               /\ \A w \in DOMAIN saved'[r] : saved'[r][w] \in Contents
    BY <1>3, <1>6, <2>1 DEF TypeOK
  <2>3. pending' \subseteq Stores /\ releasing' \subseteq Stores
    BY <1>4 DEF TypeOK
  <2> QED  BY <1>4, <1>5, <1>6, <2>2, <2>3 DEF TypeOK
<1>8. SavedInv'
  <2>1. ASSUME NEW r \in Stores, NEW w \in DOMAIN saved'[r]
        PROVE  /\ w \in 1 .. latest + 1
               /\ w =< Len(chain)
               /\ saved'[r][w] = chain[w].app[r]
    <3>1. CASE r = s /\ w = v
      BY <1>1, <1>6, <3>1 DEF v
    <3>2. CASE ~(r = s /\ w = v)
      <4>1. w \in DOMAIN saved[r] /\ saved'[r][w] = saved[r][w]
        BY <1>6, <3>2
      <4> QED  BY <4>1 DEF SavedInv
    <3> QED  BY <3>1, <3>2
  <2>2. latest' = latest /\ chain' = chain
    BY <1>4
  <2> QED  BY <2>1, <2>2 DEF SavedInv
<1>9. InfoInv'
  BY <1>4, <1>6 DEF InfoInv, Decided
<1>10. PhaseInv'
  <2>1. \A r \in pending' : tree'[r] = [version |-> latest, content |-> chain[v].app[r]]
    BY <1>1, <1>4, <1>5 DEF PhaseInv, TypeOK, v
  <2>2. \A r \in Stores \ pending' : tree'[r] = Decided(r, v) /\ v \in DOMAIN saved'[r]
    BY <1>1, <1>4, <1>5, <1>6 DEF PhaseInv, v
  <2> QED  BY <1>1, <1>4, <2>1, <2>2 DEF PhaseInv, Decided, v
<1>11. ChainInv'
  BY <1>4 DEF ChainInv, AppState
<1> QED  BY <1>7, <1>8, <1>9, <1>10, <1>11

\* A commit never releases the version that the commit info on disk names.
LEMMA LatestKept ==
  ASSUME SafePruning, NEW v \in Nat
  PROVE  v \notin Released(v + 1)
<1>1. (v + 1) - 1 = v
  OBVIOUS
<1>2. CASE KeepRecent >= 1
  BY <1>1, <1>2 DEF Released
<1>3. CASE KeepEvery = 1
  <2>1. \A n \in Int : n % 1 = 0
    OBVIOUS
  <2> QED  BY <1>1, <1>3, <2>1 DEF Released
<1> QED  BY <1>2, <1>3 DEF SafePruning

\* Pruning releases no version that a restart may need.
LEMMA ReleasePreserves ==
  ASSUME IInv, SafePruning, NEW s \in Stores, ReleaseVersion(s)
  PROVE  IInv'
<1> USE DEF IInv
<1>1. /\ phase = "commit" /\ s \in Stores \ pending /\ latest \in Nat
      /\ tree[s].version = latest + 1
      /\ Len(chain) \in Nat
  BY DEF ReleaseVersion, PhaseInv, TypeOK, Decided
<1> DEFINE kept == DOMAIN saved[s] \ Released(latest + 1)
<1>2. /\ UNCHANGED <<commitInfo, latest, chain, phase, version, tree, pending>>
      /\ releasing' = {}
      /\ saved' = [saved EXCEPT ![s] = [w \in kept |-> saved[s][w]]]
  BY <1>1 DEF ReleaseVersion
<1>3. /\ DOMAIN saved' = Stores
      /\ DOMAIN saved'[s] = kept
      /\ \A w \in kept : saved'[s][w] = saved[s][w]
      /\ \A r \in Stores \ {s} : saved'[r] = saved[r]
  BY <1>2 DEF TypeOK
<1>4. latest \notin Released(latest + 1)
  BY <1>1, LatestKept
<1>5. latest + 1 \notin Released(latest + 1)
  BY <1>1 DEF Released
<1>6. \A r \in Stores :
         /\ DOMAIN saved'[r] \subseteq DOMAIN saved[r]
         /\ \A w \in DOMAIN saved'[r] : saved'[r][w] = saved[r][w]
         /\ latest \in DOMAIN saved[r] => latest \in DOMAIN saved'[r]
         /\ latest + 1 \in DOMAIN saved[r] => latest + 1 \in DOMAIN saved'[r]
  BY <1>3, <1>4, <1>5
<1>7. TypeOK'
  <2>1. \A r \in Stores : /\ DOMAIN saved'[r] \subseteq Nat
                          /\ \A w \in DOMAIN saved'[r] : saved'[r][w] \in Contents
    BY <1>6 DEF TypeOK
  <2> QED  BY <1>2, <1>3, <2>1 DEF TypeOK
<1>8. SavedInv'
  BY <1>2, <1>6 DEF SavedInv
<1>9. InfoInv'
  BY <1>2, <1>6 DEF InfoInv, Decided
<1>10. PhaseInv'
  BY <1>1, <1>2, <1>6 DEF PhaseInv, Decided
<1>11. ChainInv'
  BY <1>2 DEF ChainInv, AppState
<1> QED  BY <1>7, <1>8, <1>9, <1>10, <1>11

\* The batch makes the new version the latest.
LEMMA WritePreserves ==
  ASSUME IInv, WriteBatch
  PROVE  IInv'
<1> USE DEF IInv
<1> DEFINE v == latest + 1
<1>1. /\ phase = "commit" /\ version = latest /\ pending = {} /\ releasing = {}
      /\ v =< Len(chain)
      /\ latest \in Nat /\ Len(chain) \in Nat
      /\ \A s \in Stores : tree[s] = Decided(s, v) /\ v \in DOMAIN saved[s]
  BY DEF WriteBatch, PhaseInv, TypeOK
<1>2. /\ UNCHANGED <<saved, chain, tree, pending, releasing>>
      /\ latest' = v /\ version' = v /\ phase' = "idle"
      /\ commitInfo' = [w \in DOMAIN commitInfo \cup {v} |->
                            IF w = v THEN tree ELSE commitInfo[w]]
  BY <1>1 DEF WriteBatch
<1>3. /\ DOMAIN commitInfo' = 1 .. v
      /\ commitInfo'[v] = tree
      /\ \A w \in 1 .. latest : commitInfo'[w] = commitInfo[w]
  BY <1>1, <1>2 DEF InfoInv
<1>4. v \in Nat /\ v # 0 /\ \A w \in 1 .. v : w = v \/ w \in 1 .. latest
  BY <1>1
<1> HIDE DEF v
<1>5. \A w \in 1 .. v : commitInfo'[w] \in [Stores -> CommitIDs]
  BY <1>3, <1>4 DEF TypeOK, InfoInv
<1>6. TypeOK'
  BY <1>2, <1>3, <1>4, <1>5 DEF TypeOK
<1>7. SavedInv'
  BY <1>1, <1>2 DEF SavedInv, v
<1>8. InfoInv'
  <2>1. ASSUME NEW w \in 1 .. v, NEW s \in Stores
        PROVE  commitInfo'[w][s] = Decided(s, w)
    BY <1>1, <1>3, <1>4 DEF InfoInv
  <2> QED  BY <1>1, <1>2, <1>3, <2>1 DEF InfoInv, Decided
<1>9. PhaseInv'
  BY <1>1, <1>2, <1>4 DEF PhaseInv, Decided, AppState
<1>10. ChainInv'
  BY <1>2 DEF ChainInv, AppState
<1> QED  BY <1>6, <1>7, <1>8, <1>9, <1>10

\* A crash loses the memory and keeps the disk.
LEMMA CrashPreserves ==
  ASSUME IInv, FirstCommitDone, Crash
  PROVE  IInv'
<1> USE DEF IInv
<1>1. latest # 0 /\ latest \in Nat
  BY DEF Crash, FirstCommitDone, TypeOK
<1>2. NewTree \in CommitIDs
  BY DEF NewTree, CommitIDs
<1>3. TypeOK'
  BY <1>2 DEF Crash, TypeOK
<1>4. SavedInv' /\ InfoInv' /\ ChainInv'
  BY DEF Crash, SavedInv, InfoInv, ChainInv, Decided, AppState
<1>5. PhaseInv'
  BY <1>1 DEF Crash, PhaseInv
<1> QED  BY <1>3, <1>4, <1>5

\* Stuttering.
LEMMA StutterPreserves ==
  ASSUME IInv, UNCHANGED vars
  PROVE  IInv'
  BY DEF IInv, vars, TypeOK, SavedInv, InfoInv, PhaseInv, ChainInv, Decided, AppState

\* Every step, and stuttering, keeps the invariant.
LEMMA NextPreserves ==
  ASSUME IInv, SafePruning, FirstCommitDone, [Next]_vars
  PROVE  IInv'
  BY LoadPreserves, DeliverPreserves, SavePreserves, ReleasePreserves,
     WritePreserves, CrashPreserves, StutterPreserves DEF Next, Step

\* The inductive invariant holds in every reachable state.
THEOREM Inductive ==
  ASSUME SafePruning, FirstCommitDone
  PROVE  Spec => []IInv
<1>1. Init => IInv
  BY InitIInv
<1>2. IInv /\ [Next]_vars => IInv'
  BY NextPreserves
<1> QED  BY <1>1, <1>2, PTL DEF Spec

\* What the invariant says of the properties the runs check.
LEMMA Consequences ==
  ASSUME IInv
  PROVE  /\ LatestLoadable
         /\ CommitIDsAgree
         /\ StoresAligned
         /\ NoSaveConflict
         /\ DefaultQueryServed
<1> USE DEF IInv
<1>1. latest \in Nat /\ Len(chain) \in Nat
  BY DEF TypeOK
<1>2. LatestLoadable
  <2>1. CASE latest = 0
    BY <2>1 DEF LatestLoadable, CanLoad, LoadID
  <2>2. CASE latest # 0
    <3>1. latest \in DOMAIN commitInfo
      BY <1>1, <2>2 DEF InfoInv
    <3>2. ASSUME NEW s \in Stores
          PROVE  CanLoad(s)
      <4>1. commitInfo[latest][s] = [version |-> latest, content |-> chain[latest].app[s]]
        BY <1>1, <2>2 DEF InfoInv, Decided
      <4>2. LoadID(s) = latest
        BY <2>2, <4>1 DEF LoadID
      <4> QED  BY <2>2, <4>2 DEF CanLoad, InfoInv
    <3> QED  BY <3>1, <3>2 DEF LatestLoadable
  <2> QED  BY <2>1, <2>2
<1>3. CommitIDsAgree
  BY <1>1 DEF CommitIDsAgree, InfoInv, Decided, AppState
<1>4. StoresAligned
  BY DEF StoresAligned, PhaseInv
<1>5. NoSaveConflict
  <2> SUFFICES ASSUME phase = "commit", NEW s \in pending
               PROVE  ~SaveConflict(s)
    BY DEF NoSaveConflict
  <2>1. s \in Stores
    BY DEF TypeOK
  <2>2. tree[s] = [version |-> latest, content |-> chain[latest + 1].app[s]]
    BY DEF PhaseInv
  <2> QED  BY <2>1, <2>2 DEF SaveConflict, SavedInv
<1>6. DefaultQueryServed
  <2> SUFFICES ASSUME phase # "down", NEW s \in Stores, tree[s].version > 0,
                      tree[s].version - 1 \notin DOMAIN saved[s]
               PROVE  tree[s].version \in DOMAIN saved[s]
    BY DEF DefaultQueryServed, QueryHeight
  <2>1. CASE phase = "idle"
    <3>1. tree[s] = [version |-> latest, content |-> AppState(latest)[s]]
      BY <2>1 DEF PhaseInv
    <3>2. tree[s].version = latest
      BY <3>1
    <3> QED  BY <3>2 DEF InfoInv
  <2>2. CASE phase = "commit" /\ s \in pending
    <3>1. tree[s] = [version |-> latest, content |-> chain[latest + 1].app[s]]
      BY <2>2 DEF PhaseInv
    <3>2. tree[s].version = latest
      BY <3>1
    <3> QED  BY <3>2 DEF InfoInv
  <2>3. CASE phase = "commit" /\ s \notin pending
    <3>1. tree[s] = [version |-> latest + 1, content |-> chain[latest + 1].app[s]]
      BY <2>3 DEF PhaseInv, Decided
    <3>2. tree[s].version = latest + 1
      BY <3>1
    <3> QED  BY <2>3, <3>2 DEF PhaseInv
  <2> QED  BY <2>1, <2>2, <2>3 DEF TypeOK
<1> QED  BY <1>2, <1>3, <1>4, <1>5, <1>6

\* With a pruning strategy that keeps the last version, LoadLatestVersion finds
\* every store's tree after a crash between any two writes of a commit.
THEOREM CrashSafe ==
  ASSUME SafePruning, FirstCommitDone
  PROVE  Spec => []LatestLoadable
<1>1. IInv => LatestLoadable
  BY Consequences
<1> QED  BY <1>1, Inductive, PTL

\* "the next commit after loading must be idempotent (return the same commit
\* id)": every CommitID ever written is the one that the chain determines.
THEOREM CommitIdempotent ==
  ASSUME SafePruning, FirstCommitDone
  PROVE  Spec => []CommitIDsAgree
<1>1. IInv => CommitIDsAgree
  BY Consequences
<1> QED  BY <1>1, Inductive, PTL

\* Between blocks all stores stand on the state of the loaded or committed
\* version, iavl never refuses a version, and a query without a height is served.
THEOREM NodeConsistent ==
  ASSUME SafePruning, FirstCommitDone
  PROVE  Spec => []NodeSound
<1>1. IInv => NodeSound
  BY Consequences DEF NodeSound
<1> QED  BY <1>1, Inductive, PTL

\* All that a node needs of its stores after a crash at any point of a commit, and while it
\* runs.
THEOREM CommitsAlwaysSound ==
  ASSUME SafePruning, FirstCommitDone
  PROVE  Spec => []CommitsSound
<1>1. IInv => CommitsSound
  BY Consequences DEF CommitsSound, NodeSound, IInv
<1> QED  BY <1>1, Inductive, PTL

-----------------------------------------------------------------------------
(* Refinement of the atomic commit log *)

\* The log that a multistore state stands for.
LogOf == [v \in 1 .. latest |-> [s \in Stores |-> commitInfo[v][s].content]]

\* A commit info holds the contents of the chain's state.
LEMMA CommittedContent ==
  ASSUME IInv, NEW v \in 1 .. latest, NEW s \in Stores
  PROVE  commitInfo[v][s].content = chain[v].app[s]
<1>1. commitInfo[v][s] = [version |-> v, content |-> chain[v].app[s]]
  BY DEF IInv, InfoInv, Decided
<1> QED  BY <1>1

\* The last entry of the log is the chain's last state.
LEMMA LogOfLast ==
  ASSUME IInv
  PROVE  Log!LastState = AppState(latest)
<1> USE DEF IInv
<1>1. latest \in Nat
  BY DEF TypeOK
<1>2. CASE latest = 0
  <2>1. LogOf = <<>>
    BY <1>2 DEF LogOf
  <2> QED  BY <1>2, <2>1 DEF Log!LastState, LogOf, AppState
<1>3. CASE latest # 0
  <2>1. LogOf # <<>> /\ Len(LogOf) = latest
    BY <1>1, <1>3 DEF LogOf
  <2>2. LogOf[latest] = [s \in Stores |-> chain[latest].app[s]]
    <3>1. \A s \in Stores : commitInfo[latest][s].content = chain[latest].app[s]
      BY <1>1, <1>3, CommittedContent
    <3> QED  BY <1>1, <1>3, <3>1 DEF LogOf
  <2>3. AppState(latest) \in [Stores -> Contents]
    BY <1>1, AppStateType DEF InfoInv
  <2> QED  BY <1>3, <2>1, <2>2, <2>3 DEF Log!LastState, LogOf, AppState
<1> QED  BY <1>2, <1>3

\* The batch appends the block's state; no other step changes the log.
LEMMA StepRefines ==
  ASSUME IInv, IInv', [Next]_vars
  PROVE  Log!Next \/ UNCHANGED LogOf
<1>1. CASE UNCHANGED <<latest, commitInfo>>
  BY <1>1 DEF LogOf
<1>2. CASE WriteBatch
  <2> DEFINE v == latest + 1
             app == [s \in Stores |-> Exec(s, AppState(latest)[s], chain[v].block)]
  <2>1. latest \in Nat /\ v \in 1 .. Len(chain) /\ v - 1 = latest /\ latest' = v /\ chain' = chain
    <3>1. latest \in Nat /\ Len(chain) \in Nat
      BY DEF IInv, TypeOK
    <3>2. version = latest /\ latest + 1 =< Len(chain)
      BY <1>2 DEF IInv, PhaseInv, WriteBatch
    <3> QED  BY <1>2, <3>1, <3>2 DEF WriteBatch
  <2>2. chain[v].app = app
    BY <2>1 DEF IInv, ChainInv
  <2>3. chain[v].block \in Blocks
    <3>1. chain[v] \in Decisions
      BY <2>1 DEF IInv, TypeOK
    <3> QED  BY <3>1 DEF Decisions
  <2>4. \A w \in 1 .. v : LogOf'[w] = [s \in Stores |-> chain[w].app[s]]
    <3>1. \A w \in 1 .. v : \A s \in Stores : commitInfo'[w][s].content = chain[w].app[s]
      <4> SUFFICES ASSUME NEW w \in 1 .. v, NEW s \in Stores
                   PROVE  commitInfo'[w][s].content = chain[w].app[s]
        OBVIOUS
      <4>1. commitInfo'[w][s] = [version |-> w, content |-> chain[w].app[s]]
        BY <2>1 DEF IInv, InfoInv, Decided
      <4> QED  BY <4>1
    <3> QED  BY <2>1, <3>1 DEF LogOf
  <2>5. \A w \in 1 .. latest : LogOf[w] = [s \in Stores |-> chain[w].app[s]]
    <3>1. \A w \in 1 .. latest : \A s \in Stores : commitInfo[w][s].content = chain[w].app[s]
      BY CommittedContent
    <3> QED  BY <3>1 DEF LogOf
  <2>6. LogOf'[v] = app
    <3>1. v \in 1 .. v
      BY <2>1
    <3>2. LogOf'[v] = [s \in Stores |-> chain[v].app[s]]
      BY <2>4, <3>1
    <3>3. \A s \in Stores : chain[v].app[s] = app[s]
      BY <2>2
    <3>4. app = [s \in Stores |-> app[s]]
      OBVIOUS
    <3> HIDE DEF app, v
    <3> QED  BY <3>2, <3>3, <3>4
  <2> HIDE DEF app
  <2>7. LogOf' = Append(LogOf, app)
    <3>1. LogOf = [w \in 1 .. latest |-> LogOf[w]] /\ LogOf' = [w \in 1 .. v |-> LogOf'[w]]
      BY <2>1 DEF LogOf
    <3>2. \A w \in 1 .. latest : LogOf'[w] = LogOf[w]
      <4> SUFFICES ASSUME NEW w \in 1 .. latest
                   PROVE  LogOf'[w] = LogOf[w]
        OBVIOUS
      <4>1. w \in 1 .. v
        BY <2>1
      <4>2. LogOf'[w] = [s \in Stores |-> chain[w].app[s]]
        BY <2>4, <4>1
      <4>3. LogOf[w] = [s \in Stores |-> chain[w].app[s]]
        BY <2>5
      <4> QED  BY <4>2, <4>3
    <3> QED  BY <2>1, <2>6, <3>1, <3>2
  <2>8. LogOf' = Append(LogOf, [s \in Stores |-> Exec(s, Log!LastState[s], chain[v].block)])
    BY <2>7, LogOfLast DEF app
  <2> QED  BY <2>3, <2>8 DEF Log!Next, Log!Commit, LogOf
<1> QED
  BY <1>1, <1>2 DEF Next, Step, vars, LoadLatestVersion, DeliverBlock, SaveVersion,
                    ReleaseVersion, Crash

\* The multistore implements the atomic commit log: to its user a commit is one
\* step, although it is many writes with crashes between them.
THEOREM ImplementsLog ==
  ASSUME SafePruning, FirstCommitDone
  PROVE  Spec => LogSpec
<1>1. Init => Log!Init
  BY DEF Init, Log!Init
<1>2. IInv /\ IInv' /\ [Next]_vars => [Log!Next]_LogOf
  BY StepRefines
<1> QED  BY <1>1, <1>2, Inductive, PTL DEF Spec, LogSpec, Log!Spec, LogOf
=============================================================================
