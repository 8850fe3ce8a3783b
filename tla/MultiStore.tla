----------------------------- MODULE MultiStore -----------------------------
(***************************************************************************)
(* The root multistore (src/store/rootmulti) over IAVL substores           *)
(* (src/store/iavl): how a block is committed, what a crash leaves on disk *)
(* and what LoadLatestVersion makes of it.                                 *)
(*                                                                         *)
(* Commit is not one write.  Every IAVL store saves its new version and    *)
(* releases an old one by itself, in the arbitrary order in which Go       *)
(* ranges over the map of stores; only then one batch writes the commit    *)
(* info and the latest version.  The process may die between any two of    *)
(* these writes.  Tendermint, which holds the chain, then replays the      *)
(* blocks that the application does not know of.                           *)
(*                                                                         *)
(* Transient substores hold nothing that a commit or a restart keeps and   *)
(* are left out.                                                           *)
(***************************************************************************)
EXTENDS Integers, Sequences, FiniteSets

CONSTANTS
    Stores,         \* the IAVL substores
    Contents,       \* what a substore can hold
    Empty,          \* the content of a store nothing was written to
    Blocks,         \* the blocks consensus may decide
    Exec(_, _, _),  \* Exec(s, c, b): content of store s after block b ran on content c
    KeepRecent,     \* PruningOptions.keepRecent
    KeepEvery,      \* PruningOptions.keepEvery
    CrashFrom,      \* bound: crashes happen only once this version is committed
    MaxVersion      \* bound: the last block that is executed

ASSUME ContentsAssumption ==
    /\ Empty \in Contents
    /\ \A s \in Stores, c \in Contents, b \in Blocks : Exec(s, c, b) \in Contents

ASSUME BoundsAssumption ==
    /\ KeepRecent \in Nat
    /\ KeepEvery \in Nat
    /\ CrashFrom \in Nat
    /\ MaxVersion \in Nat

VARIABLES
    saved,       \* disk: saved[s][v] is the tree of store s at version v
    commitInfo,  \* disk, key s/<version>: the CommitID of every IAVL store
    latest,      \* disk, key s/latest
    chain,       \* Tendermint: the decided blocks and the state they lead to
    phase,       \* what the process is doing
    version,     \* Store.lastCommitID.Version
    tree,        \* the working trees, [version, content]
    pending,     \* stores that commitStores has not reached yet
    releasing    \* the store between SaveVersion and DeleteVersion

vars == <<saved, commitInfo, latest, chain, phase, version, tree, pending,
          releasing>>

\* iavl.NewMutableTree: nothing saved yet.
NewTree == [version |-> 0, content |-> Empty]

\* A CommitID: a version and the hash of the tree, which stands for its content.
CommitIDs == [version : Nat, content : Contents]

\* A decided block and the application state it leads to.
Decisions == [block : Blocks, app : [Stores -> Contents]]

\* The application state after v blocks, as every replica computes it.
AppState(v) == IF v = 0 THEN [s \in Stores |-> Empty] ELSE chain[v].app

Init ==
    /\ saved = [s \in Stores |-> <<>>]
    /\ commitInfo = <<>>
    /\ latest = 0
    /\ chain = <<>>
    /\ phase = "down"
    /\ version = 0
    /\ tree = [s \in Stores |-> NewTree]
    /\ pending = {}
    /\ releasing = {}
-----------------------------------------------------------------------------
(* Loading *)

\* The CommitID that LoadVersion(latest) asks store s for.
LoadID(s) == IF latest = 0 THEN 0 ELSE commitInfo[latest][s].version

\* iavl.MutableTree.LoadVersion finds the version it is asked for; version 0
\* asks for whatever is newest and is always found.
CanLoad(s) == LoadID(s) = 0 \/ LoadID(s) \in DOMAIN saved[s]

Newest(s) == CHOOSE v \in DOMAIN saved[s] : \A w \in DOMAIN saved[s] : w =< v

LoadTree(s) ==
    LET v == IF LoadID(s) = 0 THEN Newest(s) ELSE LoadID(s)
    IN  IF LoadID(s) = 0 /\ DOMAIN saved[s] = {}
        THEN NewTree
        ELSE [version |-> v, content |-> saved[s][v]]

\* LoadLatestVersion: every store is loaded at the version that the commit info
\* of the latest version names.  When one cannot be, the process does not start.
LoadLatestVersion ==
    /\ phase = "down"
    /\ latest # 0 => latest \in DOMAIN commitInfo
    /\ \A s \in Stores : CanLoad(s)
    /\ phase' = "idle"
    /\ version' = latest
    /\ tree' = [s \in Stores |-> LoadTree(s)]
    /\ UNCHANGED <<saved, commitInfo, latest, chain, pending, releasing>>
-----------------------------------------------------------------------------
(* Executing and committing a block *)

\* Mutant: the node runs new blocks only, and none while it is behind the chain.
DeliverNoReplay(b) ==
    /\ phase = "idle"
    /\ version < MaxVersion
    /\ version = Len(chain)
    /\ chain' = Append(chain,
           [block |-> b,
            app   |-> [s \in Stores |-> Exec(s, AppState(version)[s], b)]])
    /\ tree' = [s \in Stores |->
                  [tree[s] EXCEPT !.content = Exec(s, tree[s].content, b)]]
    /\ phase' = "commit"
    /\ pending' = Stores
    /\ UNCHANGED <<saved, commitInfo, latest, version, releasing>>

\* Tendermint hands over the next block: one of the chain when it replays, a
\* newly decided one otherwise.  Executing it and BaseApp.Commit's
\* deliverState.ms.Write() leave its writes in the working trees.
DeliverBlock(b) ==
    /\ phase = "idle"
    /\ version < MaxVersion
    /\ IF version < Len(chain)
       THEN b = chain[version + 1].block /\ UNCHANGED chain
       ELSE chain' = Append(chain,
                [block |-> b,
                 app   |-> [s \in Stores |-> Exec(s, AppState(version)[s], b)]])
    /\ tree' = [s \in Stores |->
                  [tree[s] EXCEPT !.content = Exec(s, tree[s].content, b)]]
    /\ phase' = "commit"
    /\ pending' = Stores
    /\ UNCHANGED <<saved, commitInfo, latest, version, releasing>>

\* Saving a version that is there already succeeds only if it holds the same
\* tree: otherwise iavl returns an error and iavl.Store.Commit panics.
SaveConflict(s) ==
    LET v == tree[s].version + 1
    IN  v \in DOMAIN saved[s] /\ saved[s][v] # tree[s].content

\* iavl.Store.Commit, first half: tree.SaveVersion() makes the tree durable.
SaveVersion(s) ==
    LET v == tree[s].version + 1
    IN  /\ phase = "commit"
        /\ releasing = {}
        /\ s \in pending
        /\ ~SaveConflict(s)
        /\ saved' = [saved EXCEPT ![s] =
               [w \in DOMAIN saved[s] \cup {v} |->
                    IF w = v THEN tree[s].content ELSE saved[s][w]]]
        /\ tree' = [tree EXCEPT ![s].version = v]
        /\ pending' = pending \ {s}
        /\ releasing' = {s}
        /\ UNCHANGED <<commitInfo, latest, chain, phase, version>>

\* Mutant: counts the version just saved as the previous one.
ReleasedOffByOne(v) ==
    LET toRelease == v - KeepRecent
    IN  IF KeepRecent < v /\ (KeepEvery = 0 \/ toRelease % KeepEvery # 0)
        THEN {toRelease}
        ELSE {}

\* The version iavl.Store.Commit releases after it has saved version v.
Released(v) ==
    LET previous  == v - 1
        toRelease == previous - KeepRecent
    IN  IF KeepRecent < previous /\ (KeepEvery = 0 \/ toRelease % KeepEvery # 0)
        THEN {toRelease}
        ELSE {}

\* iavl.Store.Commit, second half: release an old version, if it is still
\* there and not a waypoint.
ReleaseVersion(s) ==
    LET kept == DOMAIN saved[s] \ Released(tree[s].version)
    IN  /\ phase = "commit"
        /\ s \in releasing
        /\ saved' = [saved EXCEPT ![s] = [w \in kept |-> saved[s][w]]]
        /\ releasing' = {}
        /\ UNCHANGED <<commitInfo, latest, chain, phase, version, tree, pending>>

\* Mutant: the batch is written before every store is saved.
WriteBatchEarly ==
    LET v == version + 1
    IN  /\ phase = "commit"
        /\ releasing = {}
        /\ commitInfo' = [w \in DOMAIN commitInfo \cup {v} |->
                             IF w = v THEN tree ELSE commitInfo[w]]
        /\ latest' = v
        /\ version' = v
        /\ pending' = {}
        /\ phase' = "idle"
        /\ UNCHANGED <<saved, chain, tree, releasing>>

\* The end of rootmulti.Store.Commit: one batch writes the commit info and the
\* latest version.
WriteBatch ==
    LET v == version + 1
    IN  /\ phase = "commit"
        /\ pending = {}
        /\ releasing = {}
        /\ commitInfo' = [w \in DOMAIN commitInfo \cup {v} |->
                             IF w = v THEN tree ELSE commitInfo[w]]
        /\ latest' = v
        /\ version' = v
        /\ phase' = "idle"
        /\ UNCHANGED <<saved, chain, tree, pending, releasing>>

\* The process dies: what is not on disk is lost.
Crash ==
    /\ phase # "down"
    /\ latest >= CrashFrom
    /\ phase' = "down"
    /\ version' = 0
    /\ tree' = [s \in Stores |-> NewTree]
    /\ pending' = {}
    /\ releasing' = {}
    /\ UNCHANGED <<saved, commitInfo, latest, chain>>

Step ==
    \/ LoadLatestVersion
    \/ \E b \in Blocks : DeliverBlock(b)
    \/ \E s \in Stores : SaveVersion(s) \/ ReleaseVersion(s)
    \/ WriteBatch

Next == Step \/ Crash

Spec == Init /\ [][Next]_vars

\* A started node runs, and a node that went down is started again.
FairSpec == Spec /\ WF_vars(Step)
-----------------------------------------------------------------------------
(* Properties *)

\* Versions are numbers, stores hold contents, the control state is one of three.
TypeOK ==
    /\ DOMAIN saved = Stores
    /\ \A s \in Stores : /\ DOMAIN saved[s] \subseteq Nat
                         /\ \A v \in DOMAIN saved[s] : saved[s][v] \in Contents
    /\ DOMAIN commitInfo \subseteq Nat
    /\ \A v \in DOMAIN commitInfo : commitInfo[v] \in [Stores -> CommitIDs]
    /\ latest \in Nat
    /\ chain \in Seq(Decisions)
    /\ phase \in {"down", "idle", "commit"}
    /\ version \in Nat
    /\ tree \in [Stores -> CommitIDs]
    /\ pending \subseteq Stores
    /\ releasing \subseteq Stores

\* LoadLatestVersion succeeds whenever the process may have to be restarted,
\* the moments between two writes of a commit included: the commit info of the
\* latest version is there, and every store still has the version it names.
LatestLoadable ==
    /\ latest # 0 => latest \in DOMAIN commitInfo
    /\ \A s \in Stores : CanLoad(s)

\* The commit id of version v is the one every replica computes for block v,
\* whatever crashes happened before it was written: a commit after an
\* incomplete one is idempotent.
CommitIDsAgree ==
    \A v \in DOMAIN commitInfo, s \in Stores :
        commitInfo[v][s] = [version |-> v, content |-> AppState(v)[s]]

\* A node that is between blocks stands on exactly the state of its version:
\* no store is ahead of the others or has run a block twice.
StoresAligned ==
    phase = "idle" =>
        \A s \in Stores :
            tree[s] = [version |-> version, content |-> AppState(version)[s]]

\* iavl never refuses to save a version that an incomplete commit left behind
\* (iavl.Store.Commit would panic).
NoSaveConflict ==
    phase = "commit" => \A s \in pending : ~SaveConflict(s)

\* getHeight: the height a query without a height is answered at.
QueryHeight(s) ==
    LET v == tree[s].version
    IN  IF v - 1 \in DOMAIN saved[s] THEN v - 1 ELSE v

\* A query without a height always finds a version once there is one: "If
\* latest-1 is not present, use latest (which must be present)".
DefaultQueryServed ==
    phase # "down" =>
        \A s \in Stores : tree[s].version > 0 => QueryHeight(s) \in DOMAIN saved[s]

\* A running node is sound: its stores are aligned, its commits cannot be refused by
\* iavl and its queries without a height are served.
NodeSound == StoresAligned /\ NoSaveConflict /\ DefaultQueryServed

\* Once crashes stop, every block is executed and committed.
EveryBlockCommitted ==
    (<>[](phase # "down")) => <>(latest = MaxVersion)

\* The multistore implements the atomic commit log: the batch is the commit.
Log == INSTANCE CommitLog WITH
    log <- [v \in 1 .. latest |-> [s \in Stores |-> commitInfo[v][s].content]]
LogSpec == Log!Spec

\* A commit may be cut off between any two of its writes: the node can be started again
\* (LoadLatestVersion), the block that is executed again gets the commit id that the other
\* replicas have, and a running node has its stores aligned and its queries served.
CommitsSound == TypeOK /\ LatestLoadable /\ CommitIDsAgree /\ NodeSound
=============================================================================
