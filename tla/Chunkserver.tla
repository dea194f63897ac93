---------------------------- MODULE Chunkserver ----------------------------
(***************************************************************************)
(* The per-chunk state machine of the chunkservers holding one chunk: the  *)
(* contract of the Chunkserver and ChunkserverSingle interfaces of         *)
(* src/lib/apis/chunkserver.go.  Each operation runs under the chunk's     *)
(* lock on its server, so it is one atomic step.                           *)
(*                                                                         *)
(*   committed[s][v]  payload of version v on server s, or NoData          *)
(*   latest[s]        version returned to readers (0: s holds no copy)     *)
(*   prepared[s]      staged writes, identified by their commit hash       *)
(***************************************************************************)
EXTENDS ZirconBase

VARIABLES committed, latest, prepared

csVars == <<committed, latest, prepared>>

CSTypeOK ==
    /\ committed \in [Server -> [Version -> Payload \cup {NoData}]]
    /\ latest \in [Server -> 0..MaxVersion]
    /\ prepared \in [Server -> SUBSET Span]

\* Every operation "fails if a copy of this chunk isn't located on this
\* chunkserver"; a held chunk always has a positive latest version.
Holds(s) == latest[s] # 0

NoVersions == [v \in Version |-> NoData]

\* The sum of offset and length must not exceed MaxChunkSize.
InBounds(w) == w.off + 1 <= ChunkSize

CSInit ==
    /\ committed = [s \in Server |-> NoVersions]
    /\ latest = [s \in Server |-> 0]
    /\ prepared = [s \in Server |-> {}]

(* Read with a minimum version: succeeds when the server holds the chunk  *)
(* and its latest version is at least `minimum` (or minimum = AnyVersion); *)
(* it returns the latest version and its data.  Read changes no state.    *)
ReadOK(s, minimum) ==
    /\ Holds(s)
    /\ minimum = AnyVersion \/ latest[s] >= minimum

ReadData(s) == committed[s][latest[s]]

(* StartWrite: stage (offset, data) under its hash.  Staging the same     *)
(* write twice leaves one staged entry.                                    *)
StartWrite(s, w) ==
    /\ Holds(s)
    /\ InBounds(w)
    /\ prepared' = [prepared EXCEPT ![s] = @ \cup {w}]
    /\ UNCHANGED <<committed, latest>>

(* StartWriteReplicated: StartWrite locally, then StartWrite on each      *)
(* listed replica; fails if any of them fails, leaving the copies staged  *)
(* on the replicas that succeeded.  Each forward is an RPC to another     *)
(* chunkserver that may not arrive: `reached` are the replicas whose      *)
(* StartWrite ran.  Staging only adds to `prepared`, so the concurrent    *)
(* forwards are one step.  Result: TRUE iff all succeeded.                *)
CanStage(s, w) == Holds(s) /\ InBounds(w)

StartWriteReplicated(s, w, replicas, reached, ok) ==
    /\ CanStage(s, w)
    /\ reached \subseteq replicas
    /\ prepared' = [t \in Server |->
                       IF t \in {s} \cup reached /\ CanStage(t, w)
                       THEN prepared[t] \cup {w} ELSE prepared[t]]
    /\ ok = (reached = replicas /\ \A t \in replicas : CanStage(t, w))
    /\ UNCHANGED <<committed, latest>>

(* CommitWrite: take the data of oldVersion, apply the staged write `h`   *)
(* and store it as newVersion; the staged write is consumed.  A payload   *)
(* already stored at newVersion is overwritten.  Does not touch latest.   *)
CanCommit(s, h, oldVersion, newVersion) ==
    /\ Holds(s)
    /\ oldVersion < newVersion
    /\ h \in prepared[s]
    /\ committed[s][oldVersion] # NoData

CommitWrite(s, h, oldVersion, newVersion) ==
    /\ CanCommit(s, h, oldVersion, newVersion)
    /\ committed' = [committed EXCEPT ![s][newVersion] =
                                   Apply(committed[s][oldVersion], h)]
    /\ prepared' = [prepared EXCEPT ![s] = @ \ {h}]
    /\ UNCHANGED latest

(* UpdateLatestVersion: if the version reported to clients is oldVersion, *)
(* report newVersion from now on and delete every older version.          *)
\* Mutant: the "current version differs from oldVersion" check dropped.
CanUpdateLatestAnyOld(s, oldVersion, newVersion) ==
    /\ Holds(s)
    /\ oldVersion <= newVersion

CanUpdateLatest(s, oldVersion, newVersion) ==
    /\ Holds(s)
    /\ latest[s] = oldVersion
    /\ oldVersion <= newVersion

\* Mutant: prunes only the versions below the OLD latest version.
UpdateLatestVersionPruneOld(s, oldVersion, newVersion) ==
    /\ CanUpdateLatest(s, oldVersion, newVersion)
    /\ latest' = [latest EXCEPT ![s] = newVersion]
    /\ committed' = [committed EXCEPT ![s] =
                        [v \in Version |-> IF v < oldVersion THEN NoData ELSE @[v]]]
    /\ UNCHANGED prepared

\* Mutant: off by one, also prunes the new latest version itself.
UpdateLatestVersionPruneNew(s, oldVersion, newVersion) ==
    /\ CanUpdateLatest(s, oldVersion, newVersion)
    /\ latest' = [latest EXCEPT ![s] = newVersion]
    /\ committed' = [committed EXCEPT ![s] =
                        [v \in Version |-> IF v <= newVersion THEN NoData ELSE @[v]]]
    /\ UNCHANGED prepared

UpdateLatestVersion(s, oldVersion, newVersion) ==
    /\ CanUpdateLatest(s, oldVersion, newVersion)
    /\ latest' = [latest EXCEPT ![s] = newVersion]
    /\ committed' = [committed EXCEPT ![s] =
                        [v \in Version |-> IF v < newVersion THEN NoData ELSE @[v]]]
    /\ UNCHANGED prepared

(* Add: allocate the chunk with zero-padded initial data at a positive    *)
(* initial version; fails if the chunk is already held.                   *)
Add(s, data, initialVersion) ==
    /\ ~Holds(s)
    /\ initialVersion \in Version
    /\ committed' = [committed EXCEPT ![s] = [NoVersions EXCEPT ![initialVersion] = data]]
    /\ latest' = [latest EXCEPT ![s] = initialVersion]
    /\ UNCHANGED prepared

(* Replicate: read the committed payload of `version` on s and Add it on  *)
(* the target server t at the same version.                               *)
Replicate(s, t, version) ==
    /\ Holds(s)
    /\ committed[s][version] # NoData
    /\ Add(t, committed[s][version], version)

(* Delete: remove the chunk if its latest version is `version` and no     *)
(* newer version is stored (spec 4.1); the staged writes go with it.      *)
CanDelete(s, version) ==
    /\ Holds(s)
    /\ latest[s] = version
    /\ \A v \in Version : v > version => committed[s][v] = NoData

Delete(s, version) ==
    /\ CanDelete(s, version)
    /\ committed' = [committed EXCEPT ![s] = NoVersions]
    /\ latest' = [latest EXCEPT ![s] = 0]
    /\ prepared' = [prepared EXCEPT ![s] = {}]

-----------------------------------------------------------------------------
(* The chunkserver on its own, driven by arbitrary callers.               *)

CSNext ==
    \/ \E s \in Server, w \in Span : StartWrite(s, w)
    \/ \E s \in Server, w \in Span, r \in SUBSET Server, a \in SUBSET Server,
          ok \in BOOLEAN : StartWriteReplicated(s, w, r, a, ok)
    \/ \E s \in Server, h \in Span, o, n \in Version : CommitWrite(s, h, o, n)
    \/ \E s \in Server, o, n \in Version : UpdateLatestVersion(s, o, n)
    \/ \E s \in Server, n \in Version : Add(s, Zeroes, n)
    \/ \E s, t \in Server, v \in Version : Replicate(s, t, v)
    \/ \E s \in Server, v \in Version : Delete(s, v)

CSSpec == CSInit /\ [][CSNext]_csVars

-----------------------------------------------------------------------------
(* Garbage collection (spec 8.4): a server never keeps a committed        *)
(* version older than the version it reports to readers.  CommitWrite     *)
(* builds only on a version that is still stored and UpdateLatestVersion  *)
(* prunes below the new latest, so the pruned versions never come back.   *)
NoVersionBelowLatest ==
    \A s \in Server, v \in Version :
        committed[s][v] # NoData => Holds(s) /\ latest[s] <= v

=============================================================================
