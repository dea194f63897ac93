--------------------------- MODULE ZirconProofs ---------------------------
(***************************************************************************)
(* Proofs about the write path, for every set of servers and clients and  *)
(* every version bound: replicas stay readable at LastConsumedVersion     *)
(* (ReadableAtConsumed), they show only stored, published versions        *)
(* (VisibleIsPublished), and the write path implements ChunkVersions.     *)
(*                                                                         *)
(* Neither property is inductive.  Write step 7 raises                    *)
(* LastConsumedVersion to newVersion, which is safe only because every   *)
(* replica already shows newVersion; step 6 moves a replica to            *)
(* newVersion, which is safe only because newVersion is published and     *)
(* still stored there.  The inductive invariant ZInv records, for a       *)
(* client in step 6 or 7, that it published newVersion and that each      *)
(* replica whose UpdateLatestVersion returned shows at least newVersion   *)
(* (Consumable); and, for a client from step 3 on, that newVersion stays  *)
(* stored on each replica it committed to until that replica has moved    *)
(* past it (Stored).  UpdateLatestVersion moves a replica only from the   *)
(* LastConsumedVersion the client read to newVersion, which is larger,    *)
(* and prunes only below newVersion, so replicas never go back and a      *)
(* version is removed only from a replica that has moved past it.        *)
(***************************************************************************)
EXTENDS Zircon, TLAPS

\* A well-formed entry as the write path reads it.
EntryOK(e) == e \in Entry /\ e.replicas = Server /\ 1 <= e.lcv /\ e.lcv <= e.mrv

\* Clients holding an entry they read, and those past WriteBegin.
HasEntry == {"read", "write", "stage", "commit", "update"}

\* Version newVersion of client c's Write is still stored on replica r, or
\* r has already moved past it (and then never shows it again).
CommittedAt(c, r) ==
    committed[r][NewVersion(c)] # NoData \/ latest[r] > NewVersion(c)

\* The types the proofs rely on.
ZTypeOK ==
    /\ committed \in [Server -> [Version -> Payload \cup {NoData}]]
    /\ latest \in [Server -> Version]
    /\ pc \in [Client -> PC]
    /\ delta \in [Client -> Delta]
    /\ entry \in [Client -> Entry \cup {NoEntry}]
    /\ got \in [Client -> [data : Payload, ver : Nat]]
    /\ span \in [Client -> Span]
    /\ pending \in [Client -> SUBSET Server]
    /\ failed \in [Client -> BOOLEAN]

\* The entry, and every entry a client acts on, is well formed; a Write
\* in steps 2-5 commits a version within the bound.
EntriesOK ==
    /\ EntryOK(md)
    /\ \A c \in Client : pc[c] \in HasEntry => EntryOK(entry[c])
    /\ \A c \in Client : pc[c] \in {"stage", "commit"} => entry[c].mrv < MaxVersion

\* A Write in step 6 or 7 has published newVersion, and the replicas whose
\* UpdateLatestVersion returned show it; every replica shows at least LCV.
Consumable ==
    /\ \A c \in Client : pc[c] = "update" =>
          /\ NewVersion(c) <= md.mrv
          /\ \A s \in Server \ pending[c] : latest[s] >= NewVersion(c)
    /\ \A s \in Server : latest[s] >= md.lcv

\* The version a replica shows is stored and published; a Write whose
\* commits have succeeded so far keeps newVersion stored on those replicas
\* until it has moved them to it.
Stored ==
    /\ \A s \in Server : committed[s][latest[s]] # NoData /\ latest[s] <= md.mrv
    /\ \A c \in Client : pc[c] = "commit" /\ ~failed[c] =>
          \A r \in Server \ pending[c] : CommittedAt(c, r)
    /\ \A c \in Client : pc[c] = "update" => \A r \in pending[c] : CommittedAt(c, r)

ZInv == ZTypeOK /\ EntriesOK /\ Consumable /\ Stored

\* CommitWrite stores a payload: a staged write applied to a payload.
LEMMA ApplySpan ==
    ASSUME NEW p \in Payload, NEW w \in Span
    PROVE  Apply(p, w) \in Payload
BY DEF Apply, Payload, Span, Value

(* The state after New satisfies ZInv. *)
LEMMA ZInitInv == Init => ZInv
<1> SUFFICES ASSUME Init PROVE ZInv
    OBVIOUS
<1>1. Zeroes \in Payload /\ Zeroes # NoData
    BY MaxValueAssumption, NoDataAssumption DEF Zeroes, Payload, Value
<1>2. ZTypeOK
  <2>1. committed \in [Server -> [Version -> Payload \cup {NoData}]]
      BY <1>1, MaxVersionAssumption DEF Init, NoVersions, Version
  <2>2. delta \in [Client -> Delta]
      BY DeltaAssumption DEF Init
  <2>3. latest \in [Server -> Version] /\ pc \in [Client -> PC]
        /\ entry \in [Client -> Entry \cup {NoEntry}]
        /\ got \in [Client -> [data : Payload, ver : Nat]]
      BY <1>1, MaxVersionAssumption DEF Init, Version, PC
  <2>4. span \in [Client -> Span] /\ pending \in [Client -> SUBSET Server]
        /\ failed \in [Client -> BOOLEAN]
      BY MaxValueAssumption, ChunkSizeAssumption DEF Init, Span, Value
  <2>5. QED
      BY <2>1, <2>2, <2>3, <2>4 DEF ZTypeOK
<1>3. EntriesOK /\ Consumable /\ Stored
    BY <1>1, MaxVersionAssumption
    DEF Init, EntriesOK, Consumable, Stored, EntryOK, Entry, HasEntry, NoVersions, Version
<1>4. QED
    BY <1>2, <1>3 DEF ZInv

(* A Write past WriteBegin commits a version within Version.             *)
LEMMA ZNewVersionInRange ==
    ASSUME ZInv, NEW d \in Client, pc[d] \in {"stage", "commit", "update"}
    PROVE  NewVersion(d) \in Version
BY MaxVersionAssumption
DEF ZInv, ZTypeOK, EntriesOK, Consumable, EntryOK, Entry, HasEntry, NewVersion, Version

(* CommittedAt survives a step that keeps every stored version of s, or  *)
(* moves s past it, and never moves s back: CommitWrite only stores, and  *)
(* UpdateLatestVersion prunes only below the version it moves s to.       *)
LEMMA CommittedAtStable ==
    ASSUME ZTypeOK, NEW d \in Client, NEW s \in Server,
           NewVersion(d) \in Version, entry'[d] = entry[d],
           latest'[s] \in Nat, latest'[s] >= latest[s],
           \A v \in Version : committed[s][v] # NoData =>
                               committed'[s][v] # NoData \/ latest'[s] > v,
           CommittedAt(d, s)
    PROVE  CommittedAt(d, s)'
BY DEF ZTypeOK, CommittedAt, NewVersion, Version

(* Every step of every client keeps ZInv: steps 6 and 7 of Write move a *)
(* replica forward and LastConsumedVersion up only as far as the         *)
(* replicas show; every other step leaves `md` and `latest` alone.        *)
LEMMA ZNextInv == ZInv /\ [Next]_vars => ZInv'
<1> SUFFICES ASSUME ZInv, [Next]_vars PROVE ZInv'
    OBVIOUS
<1> USE MaxVersionAssumption, NoDataAssumption
<1>1. ASSUME NEW c \in Client, NEW d \in Delta, Iterate(c, d) PROVE ZInv'
    BY <1>1 DEF ZInv, ZTypeOK, EntriesOK, Consumable, Stored, CommittedAt, EntryOK,
                Iterate, HasEntry, NewVersion, PC
<1>2. ASSUME NEW c \in Client, Finish(c) PROVE ZInv'
    BY <1>2 DEF ZInv, ZTypeOK, EntriesOK, Consumable, Stored, CommittedAt, EntryOK,
                Finish, HasEntry, NewVersion, PC
<1>3. ASSUME NEW c \in Client, ReadEntry(c) PROVE ZInv'
    BY <1>3 DEF ZInv, ZTypeOK, EntriesOK, Consumable, Stored, CommittedAt, EntryOK,
                ReadEntry, HasEntry, NewVersion, PC
<1>4. ASSUME NEW c \in Client, NEW s \in Server, ReadReplica(c, s) PROVE ZInv'
    BY <1>4 DEF ZInv, ZTypeOK, EntriesOK, Consumable, Stored, CommittedAt, EntryOK,
                ReadReplica, ReadData, HasEntry, NewVersion, PC, Version
<1>5. ASSUME NEW c \in Client, WriteStale(c) PROVE ZInv'
    BY <1>5 DEF ZInv, ZTypeOK, EntriesOK, Consumable, Stored, CommittedAt, EntryOK,
                WriteStale, HasEntry, NewVersion, PC
<1>6. ASSUME NEW c \in Client, WriteBegin(c) PROVE ZInv'
  <2>1. span' \in [Client -> Span]
    <3>1. got[c].data[0] \in Value /\ delta[c] \in Nat
      <4>1. got[c].data \in Payload /\ delta[c] \in Delta
          BY DEF ZInv, ZTypeOK
      <4>2. 0 \in Cell
          BY ChunkSizeAssumption DEF Cell
      <4>3. QED
          BY <4>1, <4>2, DeltaAssumption DEF Payload
    <3>2. QED
        BY <1>6, <3>1, ChunkSizeAssumption DEF WriteBegin, ZInv, ZTypeOK, Span, Value
  <2>2. QED
      BY <1>6, <2>1 DEF ZInv, ZTypeOK, EntriesOK, Consumable, Stored, CommittedAt, EntryOK,
                        WriteBegin, HasEntry, NewVersion, PC
<1>7. ASSUME NEW c \in Client, WriteOutOfBounds(c) PROVE ZInv'
    BY <1>7 DEF ZInv, ZTypeOK, EntriesOK, Consumable, Stored, CommittedAt, EntryOK,
                WriteOutOfBounds, HasEntry, NewVersion, PC
<1>8. ASSUME NEW c \in Client, Stage(c) PROVE ZInv'
    BY <1>8 DEF ZInv, ZTypeOK, EntriesOK, Consumable, Stored, CommittedAt, EntryOK,
                Stage, StartWriteReplicated, EntryOK, HasEntry, NewVersion, PC, Entry
<1>9. ASSUME NEW c \in Client, NEW r \in Server, Commit(c, r) PROVE ZInv'
  <2> DEFINE old == entry[c].mrv
             new == Apply(committed[r][old], span[c])
  <2>1. pc[c] = "commit" /\ r \in pending[c] /\ EntryOK(entry[c])
        /\ old \in Version /\ NewVersion(c) \in Version
      BY <1>9 DEF Commit, ZInv, EntriesOK, HasEntry, EntryOK, Entry, NewVersion, Version
  <2>2. new \in Payload /\ new # NoData
      BY <1>9, <2>1, ApplySpan DEF Commit, CommitWrite, CanCommit, ZInv, ZTypeOK
  <2>3. committed' = [committed EXCEPT ![r][NewVersion(c)] = new]
      BY <1>9 DEF Commit, CommitWrite
  <2>4. \A s \in Server, v \in Version :
           committed'[s][v] = committed[s][v] \/ committed'[s][v] = new
      BY <2>3, <2>1 DEF ZInv, ZTypeOK
  <2>5. committed'[r][NewVersion(c)] = new
      BY <2>3, <2>1 DEF ZInv, ZTypeOK
  <2>6. UNCHANGED <<latest, md, pc, entry, got, span, failed, delta>>
      BY <1>9 DEF Commit, CommitWrite
  <2>7. pending' = [pending EXCEPT ![c] = @ \ {r}]
      BY <1>9 DEF Commit
  <2>8. ZTypeOK'
      BY <2>2, <2>3, <2>6, <2>7, <2>1 DEF ZInv, ZTypeOK
  <2>9. EntriesOK' /\ Consumable'
      BY <2>1, <2>6, <2>7 DEF ZInv, ZTypeOK, EntriesOK, Consumable, NewVersion
  <2>10. Stored'
    <3>1. \A s \in Server, v \in Version :
             committed[s][v] # NoData => committed'[s][v] # NoData
        BY <2>2, <2>4
    <3>2. \A s \in Server : committed'[s][latest'[s]] # NoData /\ latest'[s] <= md'.mrv
        BY <3>1, <2>6 DEF ZInv, ZTypeOK, Stored
    <3>3. ASSUME NEW d \in Client, NEW s \in Server, pc[d] \in {"commit", "update"},
                 CommittedAt(d, s)
          PROVE  CommittedAt(d, s)'
      <4>1. NewVersion(d) \in Version
          BY <3>3, ZNewVersionInRange
      <4>2. latest'[s] \in Nat /\ latest'[s] >= latest[s]
          BY <2>6 DEF ZInv, ZTypeOK, Version
      <4>3. QED
          BY <3>3, <3>1, <4>1, <4>2, <2>6, CommittedAtStable DEF ZInv
    <3>4. CommittedAt(c, r)'
        BY <2>1, <2>2, <2>5, <2>6 DEF CommittedAt, NewVersion
    <3>5. QED
        BY <3>2, <3>3, <3>4, <2>1, <2>6, <2>7 DEF ZInv, ZTypeOK, Stored
  <2>11. QED
      BY <2>8, <2>9, <2>10 DEF ZInv
<1>10. ASSUME NEW c \in Client, NEW r \in Server, CommitFail(c, r) PROVE ZInv'
    BY <1>10 DEF ZInv, ZTypeOK, EntriesOK, Consumable, Stored, CommittedAt, EntryOK,
                 CommitFail, HasEntry, NewVersion, PC
<1>11. ASSUME NEW c \in Client, CommitAbort(c) PROVE ZInv'
    BY <1>11 DEF ZInv, ZTypeOK, EntriesOK, Consumable, Stored, CommittedAt, EntryOK,
                 CommitAbort, HasEntry, NewVersion, PC
<1>12. ASSUME NEW c \in Client, Publish(c) PROVE ZInv'
  <2>1. /\ pc[c] = "commit" /\ pending[c] = {} /\ ~failed[c]
        /\ md = entry[c] /\ md' = PublishedEntry(c)
        /\ pc' = [pc EXCEPT ![c] = "update"]
        /\ pending' = [pending EXCEPT ![c] = Server]
        /\ UNCHANGED <<committed, latest, entry, got, span, failed, delta>>
      BY <1>12 DEF Publish, UpdateEntry, CanUpdateEntry, ZInv, EntriesOK, EntryOK, HasEntry
  <2>2. EntryOK(md') /\ md'.mrv = md.mrv + 1 /\ md'.lcv = md.lcv
      BY <2>1 DEF ZInv, EntriesOK, EntryOK, Entry, PublishedEntry, NewVersion
  <2>3. ZTypeOK' /\ EntriesOK'
      BY <2>1, <2>2 DEF ZInv, ZTypeOK, EntriesOK, PC, HasEntry
  <2>4. Consumable'
    <3>1. NewVersion(c) = md'.mrv
        BY <2>1, <2>2 DEF NewVersion
    <3>2. ASSUME NEW d \in Client, d # c, pc[d] = "update"
          PROVE  NewVersion(d) <= md'.mrv
        BY <3>2, <2>2 DEF ZInv, Consumable, EntriesOK, EntryOK, Entry, HasEntry, NewVersion
    <3>3. ASSUME NEW d \in Client, pc'[d] = "update"
          PROVE  /\ NewVersion(d)' <= md'.mrv
                 /\ \A s \in Server \ pending'[d] : latest'[s] >= NewVersion(d)'
      <4>1. CASE d = c
        <5>1. NewVersion(d)' = md'.mrv
            BY <4>1, <3>1, <2>1 DEF NewVersion
        <5>2. Server \ pending'[d] = {}
            BY <4>1, <2>1 DEF ZInv, ZTypeOK
        <5>3. QED
            BY <5>1, <5>2, <2>2 DEF EntryOK, Entry
      <4>2. CASE d # c
          BY <4>2, <3>3, <3>2, <2>1 DEF ZInv, ZTypeOK, Consumable, NewVersion
      <4>3. QED
          BY <4>1, <4>2
    <3>4. \A s \in Server : latest'[s] >= md'.lcv
        BY <2>1, <2>2 DEF ZInv, Consumable
    <3>5. QED
        BY <3>3, <3>4 DEF Consumable
  <2>5. Stored'
    <3>1. \A s \in Server : committed'[s][latest'[s]] # NoData /\ latest'[s] <= md'.mrv
        BY <2>1, <2>2 DEF ZInv, ZTypeOK, Stored, EntriesOK, EntryOK, Entry, Version
    <3>2. \A r \in Server : CommittedAt(c, r)' = CommittedAt(c, r)
        BY <2>1 DEF CommittedAt, NewVersion
    <3>3. \A r \in Server : CommittedAt(c, r)
        BY <2>1 DEF ZInv, Stored
    <3>4. QED
        BY <2>1, <3>1, <3>2, <3>3 DEF ZInv, ZTypeOK, Stored, CommittedAt, NewVersion
  <2>6. QED
      BY <2>3, <2>4, <2>5 DEF ZInv
<1>13. ASSUME NEW c \in Client, PublishStale(c) PROVE ZInv'
    BY <1>13 DEF ZInv, ZTypeOK, EntriesOK, Consumable, Stored, CommittedAt, EntryOK,
                 PublishStale, HasEntry, NewVersion, PC
<1>14. ASSUME NEW c \in Client, NEW r \in Server, Update(c, r) PROVE ZInv'
  <2> DEFINE nv == NewVersion(c)
  <2>1. /\ pc[c] = "update" /\ r \in pending[c] /\ EntryOK(entry[c])
        /\ latest[r] = entry[c].lcv /\ latest[r] < nv /\ nv <= md.mrv
        /\ nv \in Version /\ CommittedAt(c, r)
      BY <1>14 DEF Update, UpdateLatestVersion, CanUpdateLatest, ZInv, ZTypeOK,
                   EntriesOK, Consumable, Stored, HasEntry, EntryOK, Entry, NewVersion,
                   Version
  <2>2. committed[r][nv] # NoData
      BY <2>1 DEF CommittedAt, ZInv, ZTypeOK, Version
  <2>3. /\ latest' = [latest EXCEPT ![r] = nv]
        /\ committed' = [committed EXCEPT ![r] =
                            [v \in Version |-> IF v < nv THEN NoData ELSE @[v]]]
        /\ pending' = [pending EXCEPT ![c] = @ \ {r}]
        /\ UNCHANGED <<md, pc, entry, got, span, failed, delta>>
      BY <1>14 DEF Update, UpdateLatestVersion
  <2>4. ZTypeOK'
      BY <2>1, <2>3 DEF ZInv, ZTypeOK
  <2>5. EntriesOK'
      BY <2>3 DEF ZInv, EntriesOK
  <2>6. Consumable'
    <3>1. \A s \in Server : latest'[s] >= latest[s]
        BY <2>1, <2>3 DEF ZInv, ZTypeOK, Version
    <3>2. latest'[r] = nv
        BY <2>3 DEF ZInv, ZTypeOK
    <3>3. ASSUME NEW d \in Client, pc'[d] = "update"
          PROVE  /\ NewVersion(d)' <= md'.mrv
                 /\ \A s \in Server \ pending'[d] : latest'[s] >= NewVersion(d)'
      <4>1. pc[d] = "update" /\ NewVersion(d)' = NewVersion(d) /\ md' = md
          BY <3>3, <2>3 DEF NewVersion
      <4>2. NewVersion(d) \in Version
          BY <4>1, ZNewVersionInRange
      <4>3. QED
          BY <4>1, <4>2, <3>1, <3>2, <2>1, <2>3 DEF ZInv, ZTypeOK, Consumable, Version
    <3>4. \A s \in Server : latest'[s] >= md'.lcv
        BY <3>1, <2>1, <2>3 DEF ZInv, ZTypeOK, Consumable, EntriesOK, EntryOK, Entry, Version
    <3>5. QED
        BY <3>3, <3>4 DEF Consumable
  <2>7. Stored'
    <3>1. \A s \in Server : committed'[s][latest'[s]] # NoData /\ latest'[s] <= md'.mrv
        BY <2>1, <2>2, <2>3 DEF ZInv, ZTypeOK, Stored, Version
    <3>2. ASSUME NEW d \in Client, NEW s \in Server, pc[d] \in {"commit", "update"},
                 CommittedAt(d, s)
          PROVE  CommittedAt(d, s)'
      <4>1. latest'[s] \in Nat /\ latest'[s] >= latest[s]
          BY <2>1, <2>3 DEF ZInv, ZTypeOK, Version
      <4>2. \A v \in Version : committed[s][v] # NoData =>
                                committed'[s][v] # NoData \/ latest'[s] > v
          BY <2>1, <2>3 DEF ZInv, ZTypeOK
      <4>3. NewVersion(d) \in Version
          BY <3>2, ZNewVersionInRange
      <4>4. QED
          BY <3>2, <4>1, <4>2, <4>3, <2>3, CommittedAtStable DEF ZInv
    <3>3. QED
        BY <3>1, <3>2, <2>1, <2>3 DEF ZInv, ZTypeOK, Stored
  <2>8. QED
      BY <2>4, <2>5, <2>6, <2>7 DEF ZInv
<1>15. ASSUME NEW c \in Client, Consume(c) PROVE ZInv'
  <2>1. md' = [mrv |-> md.mrv, lcv |-> NewVersion(c), replicas |-> md.replicas]
      BY <1>15 DEF ZInv, EntriesOK, Consume, UpdateEntry, EntryOK, Entry
  <2>2. /\ pc[c] = "update" /\ pending[c] = {} /\ MonotoneUpdate(md, md')
        /\ pc' = [pc EXCEPT ![c] = "idle"]
        /\ UNCHANGED <<committed, latest, pending, entry, got, span, failed, delta>>
      BY <1>15 DEF Consume, UpdateEntry, CanUpdateEntry
  <2>3. QED
      BY <2>1, <2>2 DEF ZInv, ZTypeOK, EntriesOK, Consumable, Stored, CommittedAt, EntryOK,
                        MonotoneUpdate, EntryOK, HasEntry, NewVersion, PC, Entry
<1>16. CASE UNCHANGED vars
    BY <1>16 DEF ZInv, ZTypeOK, EntriesOK, Consumable, Stored, CommittedAt, EntryOK,
                 vars, clientVars, NewVersion
<1>17. QED
    BY <1>1, <1>2, <1>3, <1>4, <1>5, <1>6, <1>7, <1>8, <1>9, <1>10, <1>11,
       <1>12, <1>13, <1>14, <1>15, <1>16
    DEF Next, ClientStep, Terminated

-----------------------------------------------------------------------------
(* ReadableAtConsumed (Read at LastConsumedVersion succeeds on every      *)
(* replica of the entry) holds in every reachable state, for any number   *)
(* of concurrent clients and servers and any version bound.               *)
THEOREM ZReadableAtConsumed == Spec => []ReadableAtConsumed
<1>1. ZInv => ReadableAtConsumed
    BY DEF ZInv, EntriesOK, Consumable, EntryOK, ReadableAtConsumed
<1>2. QED
    BY <1>1, ZInitInv, ZNextInv, PTL DEF Spec

(* VisibleIsPublished (a replica shows only a version it stores and that *)
(* the entry has published) holds in every reachable state: step 6 moves  *)
(* a replica only to a version the Write committed there and published,   *)
(* and UpdateLatestVersion never prunes the version it moves to.          *)
THEOREM ZVisibleIsPublished == Spec => []VisibleIsPublished
<1>1. ZInv => VisibleIsPublished
    BY NoEntryAssumption DEF ZInv, EntriesOK, Stored, EntryOK, VisibleIsPublished
<1>2. QED
    BY <1>1, ZInitInv, ZNextInv, PTL DEF Spec

(* The write path implements ChunkVersions: under the mapping of          *)
(* MostRecentVersion, LastConsumedVersion and the replicas' latest        *)
(* versions, CAS of step 5 is a publish, UpdateLatestVersion of step 6 a  *)
(* replica showing a published version, CAS of step 7 a consume (or a    *)
(* stutter when it does not raise LastConsumedVersion), and every other   *)
(* step a stutter.                                                         *)
THEOREM ZImplementsChunkVersions == Spec => ImplementsChunkVersions
<1>1. Init => CV!CVInit
    BY DEF Init, CV!CVInit
<1>2. ZInv /\ [Next]_vars => [CV!CVNext]_CV!cvVars
  <2> SUFFICES ASSUME ZInv, [Next]_vars PROVE [CV!CVNext]_CV!cvVars
      OBVIOUS
  <2> USE MaxVersionAssumption
  <2>1. ASSUME NEW c \in Client, Publish(c) PROVE CV!Publish
      BY <2>1 DEF ZInv, ZTypeOK, EntriesOK, Consumable, Publish, UpdateEntry, CanUpdateEntry, PublishedEntry,
                  NewVersion, EntryOK, HasEntry, CV!Publish, Entry
  <2>2. ASSUME NEW c \in Client, NEW r \in Server, Update(c, r)
        PROVE  CV!Show(r, NewVersion(c)) /\ NewVersion(c) \in 1..md.mrv
      BY <2>2 DEF ZInv, ZTypeOK, EntriesOK, Consumable, Update, UpdateLatestVersion, CanUpdateLatest, Holds,
                  NewVersion, EntryOK, HasEntry, CV!Show, Entry
  <2>3. ASSUME NEW c \in Client, Consume(c), NewVersion(c) # md.lcv
        PROVE  CV!Consume(NewVersion(c)) /\ NewVersion(c) \in 1..md.mrv
    <3>1. md' = [mrv |-> md.mrv, lcv |-> NewVersion(c), replicas |-> md.replicas]
        BY <2>3 DEF ZInv, ZTypeOK, EntriesOK, Consumable, Consume, UpdateEntry, EntryOK, Entry
    <3>2. MonotoneUpdate(md, md') /\ pending[c] = {} /\ UNCHANGED latest
        BY <2>3 DEF Consume, UpdateEntry, CanUpdateEntry
    <3>3. pc[c] = "update" /\ EntryOK(entry[c])
        BY <2>3 DEF Consume, ZInv, EntriesOK, HasEntry
    <3>4. NewVersion(c) \in 1..md.mrv /\ \A r \in Server : latest[r] >= NewVersion(c)
        BY <3>2, <3>3 DEF ZInv, ZTypeOK, Consumable, EntriesOK, EntryOK, Entry, NewVersion
    <3>5. md.lcv < NewVersion(c)
        BY <2>3, <3>1, <3>2, <3>4 DEF ZInv, EntriesOK, EntryOK, Entry, MonotoneUpdate
    <3>6. QED
        BY <3>1, <3>2, <3>4, <3>5 DEF CV!Consume
  <2>4. ASSUME NEW c \in Client, Consume(c), NewVersion(c) = md.lcv
        PROVE  UNCHANGED CV!cvVars
      BY <2>4 DEF ZInv, ZTypeOK, EntriesOK, Consumable, Consume, UpdateEntry, CV!cvVars, EntryOK, Entry
  <2>5. ASSUME NEW c \in Client,
               \/ \E d \in Delta : Iterate(c, d)
               \/ Finish(c) \/ ReadEntry(c)
               \/ \E s \in Server : ReadReplica(c, s)
               \/ WriteStale(c) \/ WriteBegin(c) \/ WriteOutOfBounds(c)
               \/ Stage(c)
               \/ \E r \in Server : Commit(c, r) \/ CommitFail(c, r)
               \/ CommitAbort(c) \/ PublishStale(c)
        PROVE  UNCHANGED CV!cvVars
      BY <2>5 DEF Iterate, Finish, ReadEntry, ReadReplica, WriteStale,
                  WriteBegin, WriteOutOfBounds, Stage, StartWriteReplicated,
                  Commit, CommitWrite, CommitFail, CommitAbort, PublishStale,
                  CV!cvVars
  <2>6. CASE UNCHANGED vars
      BY <2>6 DEF vars, CV!cvVars
  <2>7. QED
      BY <2>1, <2>2, <2>3, <2>4, <2>5, <2>6
      DEF Next, ClientStep, Terminated, CV!CVNext
<1>3. QED
    BY <1>1, <1>2, ZInitInv, ZNextInv, PTL
    DEF Spec, ImplementsChunkVersions, CV!CVSpec

-----------------------------------------------------------------------------
(* Garbage collection on the write path.  Only CommitWrite (step 3) and   *)
(* UpdateLatestVersion (step 6) change a replica's versions.  CommitWrite *)
(* stores newVersion, which is above latest because it builds on the      *)
(* stored MostRecentVersion the client read, and a stored version is not  *)
(* below latest.  UpdateLatestVersion keeps only the versions at or above *)
(* the version it moves to.                                               *)

\* Every client step other than Commit and Update keeps every replica's
\* versions and latest version.
LEMMA ZOtherStepsKeepVersions ==
    ASSUME NEW c \in Client,
           \/ \E d \in Delta : Iterate(c, d)
           \/ Finish(c) \/ ReadEntry(c)
           \/ \E s \in Server : ReadReplica(c, s)
           \/ WriteStale(c) \/ WriteBegin(c) \/ WriteOutOfBounds(c)
           \/ Stage(c)
           \/ \E r \in Server : CommitFail(c, r)
           \/ CommitAbort(c) \/ Publish(c) \/ PublishStale(c) \/ Consume(c)
    PROVE  UNCHANGED <<committed, latest>>
BY DEF Iterate, Finish, ReadEntry, ReadReplica, WriteStale, WriteBegin,
       WriteOutOfBounds, Stage, StartWriteReplicated, CommitFail, CommitAbort,
       Publish, PublishStale, Consume

LEMMA ZNoVersionBelowLatestStep ==
    ZInv /\ NoVersionBelowLatest /\ [Next]_vars => NoVersionBelowLatest'
<1> SUFFICES ASSUME ZInv, NoVersionBelowLatest, [Next]_vars
             PROVE  NoVersionBelowLatest'
    OBVIOUS
<1>1. \A s \in Server : Holds(s)'
  <2>1. ZInv'
      BY ZNextInv
  <2>2. QED
      BY <2>1, MaxVersionAssumption DEF ZInv, ZTypeOK, Holds, Version
<1>2. SUFFICES ASSUME NEW s \in Server, NEW v \in Version, committed'[s][v] # NoData
               PROVE  latest'[s] <= v
    BY <1>1 DEF NoVersionBelowLatest
<1>3. ASSUME NEW c \in Client, NEW r \in Server, Commit(c, r) PROVE latest'[s] <= v
  <2>1. NewVersion(c) \in Version /\ entry[c].mrv \in Version
      BY <1>3, ZNewVersionInRange, MaxVersionAssumption
      DEF Commit, ZInv, EntriesOK, EntryOK, Entry, HasEntry, Version
  <2>2. latest[r] <= entry[c].mrv
      BY <1>3, <2>1 DEF Commit, CommitWrite, CanCommit, NoVersionBelowLatest
  <2>3. committed' = [committed EXCEPT ![r][NewVersion(c)] =
                         Apply(committed[r][entry[c].mrv], span[c])]
        /\ latest' = latest
      BY <1>3 DEF Commit, CommitWrite
  <2>4. CASE s = r /\ v = NewVersion(c)
      BY <2>1, <2>2, <2>3, <2>4 DEF ZInv, ZTypeOK, NewVersion, Version
  <2>5. CASE ~(s = r /\ v = NewVersion(c))
      BY <1>2, <2>3, <2>5 DEF ZInv, ZTypeOK, NoVersionBelowLatest
  <2>6. QED
      BY <2>4, <2>5
<1>4. ASSUME NEW c \in Client, NEW r \in Server, Update(c, r) PROVE latest'[s] <= v
  <2>1. NewVersion(c) \in Version
      BY <1>4, ZNewVersionInRange DEF Update
  <2>2. /\ latest' = [latest EXCEPT ![r] = NewVersion(c)]
        /\ committed' = [committed EXCEPT ![r] =
               [u \in Version |-> IF u < NewVersion(c) THEN NoData ELSE @[u]]]
      BY <1>4 DEF Update, UpdateLatestVersion
  <2>3. CASE s = r
      BY <1>2, <2>1, <2>2, <2>3 DEF ZInv, ZTypeOK, Version
  <2>4. CASE s # r
      BY <1>2, <2>2, <2>4 DEF ZInv, ZTypeOK, NoVersionBelowLatest
  <2>5. QED
      BY <2>3, <2>4
<1>5. ASSUME UNCHANGED <<committed, latest>> PROVE latest'[s] <= v
    BY <1>2, <1>5 DEF NoVersionBelowLatest
<1>6. QED
  <2>1. CASE UNCHANGED vars
      BY <2>1, <1>5 DEF vars
  <2>2. ASSUME NEW c \in Client, ClientStep(c) PROVE latest'[s] <= v
      BY <2>2, <1>3, <1>4, <1>5, ZOtherStepsKeepVersions DEF ClientStep
  <2>3. QED
      BY <2>1, <2>2 DEF Next, Terminated

(* Garbage collection (spec 8.4) holds on the write path: with any number *)
(* of clients running their CommitWrite and UpdateLatestVersion calls     *)
(* concurrently, no replica keeps a version below the one it shows.       *)
THEOREM ZNoVersionBelowLatest == Spec => []NoVersionBelowLatest
<1>1. Init => NoVersionBelowLatest
    BY MaxVersionAssumption DEF Init, NoVersionBelowLatest, Holds, NoVersions, Version
<1>2. QED
    BY <1>1, ZInitInv, ZNextInv, ZNoVersionBelowLatestStep, PTL DEF Spec

\* The payload at the version a replica shows changes only when the
\* replica moves: a Commit at that version would build on a stored version
\* below it, which NoVersionBelowLatest rules out.
LEMMA ZShownDataStep ==
    ASSUME ZInv, NoVersionBelowLatest, [Next]_vars,
           NEW s \in Server, latest'[s] = latest[s]
    PROVE  committed'[s][latest[s]] = committed[s][latest[s]]
<1>1. ASSUME NEW c \in Client, NEW r \in Server, Commit(c, r)
      PROVE  committed'[s][latest[s]] = committed[s][latest[s]]
  <2>1. NewVersion(c) \in Version /\ entry[c].mrv \in Version
      BY <1>1, ZNewVersionInRange, MaxVersionAssumption
      DEF Commit, ZInv, EntriesOK, EntryOK, Entry, HasEntry, Version
  <2>2. latest[r] <= entry[c].mrv
      BY <1>1, <2>1 DEF Commit, CommitWrite, CanCommit, NoVersionBelowLatest
  <2>3. latest[r] # NewVersion(c)
      BY <2>1, <2>2 DEF ZInv, ZTypeOK, NewVersion, Version
  <2>4. committed' = [committed EXCEPT ![r][NewVersion(c)] =
                         Apply(committed[r][entry[c].mrv], span[c])]
      BY <1>1 DEF Commit, CommitWrite
  <2>5. QED
      BY <2>3, <2>4 DEF ZInv, ZTypeOK
<1>2. ASSUME NEW c \in Client, NEW r \in Server, Update(c, r)
      PROVE  committed'[s][latest[s]] = committed[s][latest[s]]
  <2>1. /\ latest' = [latest EXCEPT ![r] = NewVersion(c)]
        /\ committed' = [committed EXCEPT ![r] =
               [u \in Version |-> IF u < NewVersion(c) THEN NoData ELSE @[u]]]
      BY <1>2 DEF Update, UpdateLatestVersion
  <2>2. CASE s = r
      BY <2>1, <2>2 DEF ZInv, ZTypeOK, Version
  <2>3. CASE s # r
      BY <2>1, <2>3 DEF ZInv, ZTypeOK
  <2>4. QED
      BY <2>2, <2>3
<1>3. CASE UNCHANGED vars
    BY <1>3 DEF vars
<1>4. ASSUME NEW c \in Client, ClientStep(c)
      PROVE  committed'[s][latest[s]] = committed[s][latest[s]]
    BY <1>4, <1>1, <1>2, ZOtherStepsKeepVersions DEF ClientStep
<1>5. QED
    BY <1>3, <1>4 DEF Next, Terminated

(* A reader that reads the same version twice from a replica gets the    *)
(* same data, for any number of concurrent writers: CommitWrite, which    *)
(* overwrites whatever is stored at newVersion, never writes at the       *)
(* version a replica shows.                                               *)
THEOREM ZShownDataStable == Spec => ShownDataStable
<1>1. ZInv /\ NoVersionBelowLatest /\ [Next]_vars
        => [\A s \in Server : latest'[s] = latest[s] =>
               committed'[s][latest[s]] = committed[s][latest[s]]]_vars
    BY ZShownDataStep
<1>2. Init => ZInv /\ NoVersionBelowLatest
    BY ZInitInv, MaxVersionAssumption DEF Init, NoVersionBelowLatest, Holds, NoVersions, Version
<1>3. ZInv /\ NoVersionBelowLatest /\ [Next]_vars => (ZInv /\ NoVersionBelowLatest)'
    BY ZNextInv, ZNoVersionBelowLatestStep
<1>4. QED
    BY <1>1, <1>2, <1>3, PTL DEF Spec, ShownDataStable

-----------------------------------------------------------------------------
(* Type correctness of the whole state.  ZTypeOK leaves out the staged    *)
(* writes, the versions Read returned, the entry and the ghost history.   *)
(* The history needs a strengthening: Publish stores the winner's payload *)
(* at newVersion by applying its span to hist[MostRecentVersion], which   *)
(* is a payload only because every published version has one.            *)

HistPublished == \A v \in 1..md.mrv : hist[v] \in Payload

ZTypeRest ==
    /\ prepared \in [Server -> SUBSET Span]
    /\ \A c \in Client : got[c].ver \in 0..MaxVersion
    /\ hist \in [Version -> Payload \cup {NoData}]
    /\ HistPublished

\* Steps that leave the staged writes, Read results, entry and history alone.
LEMMA ZQuietSteps ==
    ASSUME NEW c \in Client,
           \/ \E d \in Delta : Iterate(c, d)
           \/ Finish(c) \/ ReadEntry(c)
           \/ WriteStale(c) \/ WriteBegin(c) \/ WriteOutOfBounds(c)
           \/ \E r \in Server : CommitFail(c, r) \/ Update(c, r)
           \/ CommitAbort(c) \/ PublishStale(c)
    PROVE  UNCHANGED <<prepared, got, md, hist>>
BY DEF Iterate, Finish, ReadEntry, WriteStale, WriteBegin, WriteOutOfBounds,
       CommitFail, Update, UpdateLatestVersion, CommitAbort, PublishStale

LEMMA ZTypeRestStep ==
    ZInv /\ ZTypeRest /\ [Next]_vars => ZTypeRest'
<1> SUFFICES ASSUME ZInv, ZTypeRest, [Next]_vars PROVE ZTypeRest'
    OBVIOUS
<1> USE MaxVersionAssumption
<1>1. ASSUME NEW c \in Client, NEW s \in Server, ReadReplica(c, s) PROVE ZTypeRest'
  <2>1. got' = [got EXCEPT ![c] = [data |-> ReadData(s), ver |-> latest[s]]]
        /\ UNCHANGED <<prepared, md, hist>>
      BY <1>1 DEF ReadReplica
  <2>2. latest[s] \in 0..MaxVersion
      BY DEF ZInv, ZTypeOK, Version
  <2>3. \A d \in Client : got'[d].ver \in 0..MaxVersion
      BY <2>1, <2>2 DEF ZTypeRest
  <2>4. QED
      BY <2>1, <2>3 DEF ZTypeRest, HistPublished
<1>2. ASSUME NEW c \in Client, Stage(c) PROVE ZTypeRest'
    BY <1>2 DEF Stage, StartWriteReplicated, ZTypeRest, HistPublished, ZInv, ZTypeOK
<1>3. ASSUME NEW c \in Client, NEW r \in Server, Commit(c, r) PROVE ZTypeRest'
    BY <1>3 DEF Commit, CommitWrite, ZTypeRest, HistPublished
<1>4. ASSUME NEW c \in Client, Publish(c) PROVE ZTypeRest'
  <2>1. entry[c] = md /\ EntryOK(md) /\ md.mrv < MaxVersion
      BY <1>4 DEF Publish, UpdateEntry, CanUpdateEntry, ZInv, EntriesOK
  <2>2. hist[md.mrv] \in Payload /\ span[c] \in Span
      BY <2>1 DEF ZTypeRest, HistPublished, ZInv, ZTypeOK, EntryOK, Entry
  <2>3. Apply(hist[md.mrv], span[c]) \in Payload
      BY <2>2, ApplySpan
  <2>4. /\ md'.mrv = md.mrv + 1
        /\ hist' = [hist EXCEPT ![md.mrv + 1] = Apply(hist[md.mrv], span[c])]
        /\ md.mrv + 1 \in Version
      BY <1>4, <2>1 DEF Publish, UpdateEntry, PublishedEntry, NewVersion, EntryOK, Entry, Version
  <2>5. UNCHANGED <<prepared, got>>
      BY <1>4 DEF Publish
  <2>6. hist' \in [Version -> Payload \cup {NoData}]
      BY <2>3, <2>4 DEF ZTypeRest
  <2>7. HistPublished'
    <3> SUFFICES ASSUME NEW v \in 1..md'.mrv PROVE hist'[v] \in Payload
        BY DEF HistPublished
    <3>1. CASE v = md.mrv + 1
        BY <2>3, <2>4, <3>1 DEF ZTypeRest
    <3>2. CASE v # md.mrv + 1
      <4>1. v \in 1..md.mrv /\ v \in Version
          BY <2>1, <2>4, <3>2 DEF EntryOK, Entry, Version
      <4>2. QED
          BY <2>4, <3>2, <4>1 DEF ZTypeRest, HistPublished
    <3>3. QED
        BY <3>1, <3>2
  <2>8. QED
      BY <2>5, <2>6, <2>7 DEF ZTypeRest
<1>5. ASSUME NEW c \in Client, Consume(c) PROVE ZTypeRest'
  <2>1. md'.mrv = md.mrv
      BY <1>5 DEF Consume, UpdateEntry, ZInv, EntriesOK, EntryOK, Entry
  <2>2. QED
      BY <1>5, <2>1 DEF Consume, ZTypeRest, HistPublished
<1>6. ASSUME NEW c \in Client,
             \/ \E d \in Delta : Iterate(c, d)
             \/ Finish(c) \/ ReadEntry(c)
             \/ WriteStale(c) \/ WriteBegin(c) \/ WriteOutOfBounds(c)
             \/ \E r \in Server : CommitFail(c, r) \/ Update(c, r)
             \/ CommitAbort(c) \/ PublishStale(c)
      PROVE  ZTypeRest'
    BY <1>6, ZQuietSteps DEF ZTypeRest, HistPublished
<1>7. CASE UNCHANGED vars
    BY <1>7 DEF vars, clientVars, ZTypeRest, HistPublished
<1>8. QED
    BY <1>1, <1>2, <1>3, <1>4, <1>5, <1>6, <1>7 DEF Next, ClientStep, Terminated

(* Every reachable state of the write path has the types TypeOK states,  *)
(* for any servers, clients and bounds.                                   *)
THEOREM ZTypeCorrect == Spec => []TypeOK
<1>1. Init => ZTypeRest
    BY MaxVersionAssumption, MaxValueAssumption, ChunkSizeAssumption
    DEF Init, ZTypeRest, HistPublished, NoVersions, Zeroes, Payload, Value, Cell, Version
<1>2. ZInv /\ ZTypeRest => TypeOK
    BY DEF ZInv, ZTypeOK, EntriesOK, EntryOK, ZTypeRest, TypeOK, CSTypeOK, MDTypeOK, Version
<1>3. QED
    BY <1>1, <1>2, ZInitInv, ZNextInv, ZTypeRestStep, PTL DEF Spec

-----------------------------------------------------------------------------
(* The abstract version order, carried to the write path by the          *)
(* refinement: a fact proved once about ChunkVersions holds of any        *)
(* implementation, here without reasoning about the clients' steps again. *)
CVP == INSTANCE ChunkVersionsProofs
        WITH Replica <- Server, published <- md.mrv, consumed <- md.lcv, visible <- latest

(* Under the refinement mapping, every replica shows a version between    *)
(* LastConsumedVersion and MostRecentVersion, in every reachable state of *)
(* the write path.                                                         *)
THEOREM ZVersionOrder == Spec => []CVP!VersionOrder
<1>1. ImplementsChunkVersions => CVP!CVSpec
    BY DEF ImplementsChunkVersions, CV!CVSpec, CVP!CVSpec, CV!CVInit, CVP!CVInit,
           CV!CVNext, CVP!CVNext, CV!cvVars, CVP!cvVars, CV!Publish, CVP!Publish,
           CV!Show, CVP!Show, CV!Consume, CVP!Consume
<1>2. QED
    BY <1>1, ZImplementsChunkVersions, CVP!CVVersionOrder

=============================================================================
