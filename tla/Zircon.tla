------------------------------- MODULE Zircon -------------------------------
(***************************************************************************)
(* The write path of Zircon for one chunk: clients running the read-      *)
(* modify-write loop of TestConflictingClients (src/lib/client/control/    *)
(* client_test.go) through client.Read and client.Write (spec 4.3), the   *)
(* metadata cache's CAS (MetadataCache) and the chunk's replicas           *)
(* (Chunkserver).  Every RPC is one atomic step at its callee; the client *)
(* issues the per-replica CommitWrite and UpdateLatestVersion calls        *)
(* concurrently, so they are separate steps in any order.                 *)
(*                                                                         *)
(* Initially the chunk has been created by New: every server holds it at  *)
(* version 1 with zero data, and the entry is published at 1/1.          *)
(***************************************************************************)
EXTENDS Chunkserver, MetadataCache

CONSTANTS
    Client,   \* concurrent client goroutines of the test
    Delta     \* the additions a client may pick (nextAddition in the test)

ASSUME DeltaAssumption == Delta \subseteq Nat \ {0} /\ Delta # {}

VARIABLES
    pc,       \* where each client is in its loop
    delta,    \* the addition of the current iteration (kept across retries)
    entry,    \* the metadata entry the client read last
    got,      \* data and version returned by its last chunkserver Read
    span,     \* the staged write of its current Write
    pending,  \* replicas whose concurrent call has not returned yet
    failed,   \* some concurrent CommitWrite of this Write failed
    hist      \* ghost: payload published at each version by the CAS winner

clientVars == <<pc, delta, entry, got, span, pending, failed>>
vars == <<committed, latest, prepared, md, clientVars, hist>>

PC == {"idle", "retry", "read", "write", "stage", "commit", "update", "done"}

TypeOK ==
    /\ CSTypeOK
    /\ MDTypeOK
    /\ pc \in [Client -> PC]
    /\ delta \in [Client -> Delta]
    /\ entry \in [Client -> Entry \cup {NoEntry}]
    /\ got \in [Client -> [data : Payload, ver : 0..MaxVersion]]
    /\ span \in [Client -> Span]
    /\ pending \in [Client -> SUBSET Server]
    /\ failed \in [Client -> BOOLEAN]
    /\ hist \in [Version -> Payload \cup {NoData}]

\* The version a Write commits: MostRecentVersion + 1 of the entry it read.
NewVersion(c) == entry[c].mrv + 1

Init ==
    /\ committed = [s \in Server |-> [NoVersions EXCEPT ![1] = Zeroes]]
    /\ latest = [s \in Server |-> 1]
    /\ prepared = [s \in Server |-> {}]
    /\ md = [mrv |-> 1, lcv |-> 1, replicas |-> Server]
    /\ pc = [c \in Client |-> "idle"]
    /\ delta = [c \in Client |-> CHOOSE d \in Delta : TRUE]
    /\ entry = [c \in Client |-> NoEntry]
    /\ got = [c \in Client |-> [data |-> Zeroes, ver |-> 0]]
    /\ span = [c \in Client |-> [off |-> 0, val |-> 0]]
    /\ pending = [c \in Client |-> {}]
    /\ failed = [c \in Client |-> FALSE]
    /\ hist = [NoVersions EXCEPT ![1] = Zeroes]

-----------------------------------------------------------------------------
(* The test loop: an iteration picks nextAddition, then retries           *)
(* Read + Write until a Write succeeds; at the deadline the loop ends.    *)

Iterate(c, d) ==
    /\ pc[c] = "idle"
    /\ pc' = [pc EXCEPT ![c] = "retry"]
    /\ delta' = [delta EXCEPT ![c] = d]
    /\ UNCHANGED <<committed, latest, prepared, md, entry, got, span, pending, failed, hist>>

Finish(c) ==
    /\ pc[c] = "idle"
    /\ pc' = [pc EXCEPT ![c] = "done"]
    /\ UNCHANGED <<committed, latest, prepared, md, delta, entry, got, span, pending, failed, hist>>

(* client.Read(chunk, 0, 128): fetch the entry, then Read a replica with  *)
(* minimum LastConsumedVersion.  A stale replica is retried, so only a    *)
(* successful Read is a step.                                             *)
ReadEntry(c) ==
    /\ pc[c] = "retry"
    /\ md # NoEntry
    /\ entry' = [entry EXCEPT ![c] = md]
    /\ pc' = [pc EXCEPT ![c] = "read"]
    /\ UNCHANGED <<committed, latest, prepared, md, delta, got, span, pending, failed, hist>>

ReadReplica(c, s) ==
    /\ pc[c] = "read"
    /\ s \in entry[c].replicas
    /\ ReadOK(s, entry[c].lcv)
    /\ got' = [got EXCEPT ![c] = [data |-> ReadData(s), ver |-> latest[s]]]
    /\ pc' = [pc EXCEPT ![c] = "write"]
    /\ UNCHANGED <<committed, latest, prepared, md, delta, entry, span, pending, failed, hist>>

(* client.Write(chunk, 0, ver, newData), step 1: read the entry and       *)
(* require MostRecentVersion = ver, else StaleVersionError.               *)
WriteStale(c) ==
    /\ pc[c] = "write"
    /\ got[c].ver # AnyVersion
    /\ md.mrv # got[c].ver
    /\ pc' = [pc EXCEPT ![c] = "retry"]
    /\ UNCHANGED <<committed, latest, prepared, md, delta, entry, got, span, pending, failed, hist>>

WriteBegin(c) ==
    /\ pc[c] = "write"
    /\ got[c].ver = AnyVersion \/ md.mrv = got[c].ver
    /\ md.mrv < MaxVersion                       \* bound on versions
    /\ got[c].data[0] + delta[c] <= MaxValue     \* bound on values
    /\ entry' = [entry EXCEPT ![c] = md]
    /\ span' = [span EXCEPT ![c] = [off |-> 0, val |-> got[c].data[0] + delta[c]]]
    /\ pc' = [pc EXCEPT ![c] = "stage"]
    /\ UNCHANGED <<committed, latest, prepared, md, delta, got, pending, failed, hist>>

\* Past the model's bounds the client's loop ends, as at the test deadline.
WriteOutOfBounds(c) ==
    /\ pc[c] = "write"
    /\ got[c].ver = AnyVersion \/ md.mrv = got[c].ver
    /\ \/ md.mrv = MaxVersion
       \/ got[c].data[0] + delta[c] > MaxValue
    /\ pc' = [pc EXCEPT ![c] = "done"]
    /\ UNCHANGED <<committed, latest, prepared, md, delta, entry, got, span, pending, failed, hist>>

(* Step 2: StartWriteReplicated on the primary, the first replica of the *)
(* entry (spec 4.3), forwarding to the others; a forward may not arrive.  *)
Primary(e) == CHOOSE p \in e.replicas : TRUE

Stage(c) ==
    /\ pc[c] = "stage"
    /\ \E reached \in SUBSET (entry[c].replicas \ {Primary(entry[c])}), ok \in BOOLEAN :
          /\ StartWriteReplicated(Primary(entry[c]), span[c],
                                  entry[c].replicas \ {Primary(entry[c])}, reached, ok)
          /\ pc' = [pc EXCEPT ![c] = IF ok THEN "commit" ELSE "retry"]
    /\ pending' = [pending EXCEPT ![c] = entry[c].replicas]
    /\ failed' = [failed EXCEPT ![c] = FALSE]
    /\ UNCHANGED <<md, delta, entry, got, span, hist>>

(* Steps 3-4: CommitWrite(chunk, hash, MostRecentVersion, +1) on every    *)
(* replica concurrently; each call succeeds or fails on its own.          *)
Commit(c, r) ==
    /\ pc[c] = "commit"
    /\ r \in pending[c]
    /\ CommitWrite(r, span[c], entry[c].mrv, NewVersion(c))
    /\ pending' = [pending EXCEPT ![c] = @ \ {r}]
    /\ UNCHANGED <<md, pc, delta, entry, got, span, failed, hist>>

CommitFail(c, r) ==
    /\ pc[c] = "commit"
    /\ r \in pending[c]
    /\ ~CanCommit(r, span[c], entry[c].mrv, NewVersion(c))
    /\ pending' = [pending EXCEPT ![c] = @ \ {r}]
    /\ failed' = [failed EXCEPT ![c] = TRUE]
    /\ UNCHANGED <<committed, latest, prepared, md, pc, delta, entry, got, span, hist>>

\* Some replica refused the commit: the Write fails (ReplicationFailure).
CommitAbort(c) ==
    /\ pc[c] = "commit"
    /\ pending[c] = {}
    /\ failed[c]
    /\ pc' = [pc EXCEPT ![c] = "retry"]
    /\ UNCHANGED <<committed, latest, prepared, md, delta, entry, got, span, pending, failed, hist>>

(* Step 5: CAS the entry to MostRecentVersion = newVersion.  On           *)
(* StaleEntryError the Write returns StaleVersionError.                   *)
PublishedEntry(c) ==
    [mrv |-> NewVersion(c), lcv |-> entry[c].lcv, replicas |-> entry[c].replicas]

Publish(c) ==
    /\ pc[c] = "commit"
    /\ pending[c] = {}
    /\ ~failed[c]
    /\ UpdateEntry(entry[c], PublishedEntry(c))
    /\ hist' = [hist EXCEPT ![NewVersion(c)] = Apply(hist[entry[c].mrv], span[c])]
    /\ pc' = [pc EXCEPT ![c] = "update"]
    /\ pending' = [pending EXCEPT ![c] = entry[c].replicas]
    /\ UNCHANGED <<committed, latest, prepared, delta, entry, got, span, failed>>

PublishStale(c) ==
    /\ pc[c] = "commit"
    /\ pending[c] = {}
    /\ ~failed[c]
    /\ ~CanUpdateEntry(entry[c], PublishedEntry(c))
    /\ pc' = [pc EXCEPT ![c] = "retry"]
    /\ UNCHANGED <<committed, latest, prepared, md, delta, entry, got, span, pending, failed, hist>>

(* Step 6: UpdateLatestVersion(chunk, LastConsumedVersion, newVersion) on *)
(* every replica concurrently; a failed call is retried until it succeeds *)
(* (spec 4.3: "safe to retry indefinitely"), so only success is a step.   *)
Update(c, r) ==
    /\ pc[c] = "update"
    /\ r \in pending[c]
    /\ UpdateLatestVersion(r, entry[c].lcv, NewVersion(c))
    /\ pending' = [pending EXCEPT ![c] = @ \ {r}]
    /\ UNCHANGED <<md, pc, delta, entry, got, span, failed, hist>>

(* Step 7: CAS LastConsumedVersion up to newVersion.  StaleEntry is       *)
(* retried against the re-read entry, so the step is the final CAS.       *)
\* Mutant: raises LastConsumedVersion without waiting for all step-6 calls.
ConsumeEarly(c) ==
    /\ pc[c] = "update"
    /\ md # NoEntry
    /\ UpdateEntry(md, [md EXCEPT !.lcv = NewVersion(c)])
    /\ pc' = [pc EXCEPT ![c] = "idle"]
    /\ UNCHANGED <<committed, latest, prepared, delta, entry, got, span, pending, failed, hist>>

Consume(c) ==
    /\ pc[c] = "update"
    /\ pending[c] = {}
    /\ md # NoEntry
    /\ UpdateEntry(md, [md EXCEPT !.lcv = NewVersion(c)])
    /\ pc' = [pc EXCEPT ![c] = "idle"]
    /\ UNCHANGED <<committed, latest, prepared, delta, entry, got, span, pending, failed, hist>>

-----------------------------------------------------------------------------
Terminated == \A c \in Client : pc[c] = "done"

\* One step of client c: its own action or the RPC it issues.
ClientStep(c) ==
    \/ \E d \in Delta : Iterate(c, d)
    \/ Finish(c)
    \/ ReadEntry(c)
    \/ \E s \in Server : ReadReplica(c, s)
    \/ WriteStale(c) \/ WriteBegin(c) \/ WriteOutOfBounds(c)
    \/ Stage(c)
    \/ \E r \in Server : Commit(c, r) \/ CommitFail(c, r)
    \/ CommitAbort(c) \/ Publish(c) \/ PublishStale(c)
    \/ \E r \in Server : Update(c, r)
    \/ Consume(c)

Next ==
    \/ \E c \in Client : ClientStep(c)
    \/ Terminated /\ UNCHANGED vars

Spec == Init /\ [][Next]_vars

\* Every client action is taken once it stays possible: the goroutines of
\* the test are scheduled by the Go runtime and every RPC returns.
Fairness == \A c \in Client : WF_vars(ClientStep(c))

FairSpec == Spec /\ Fairness

-----------------------------------------------------------------------------
(* Properties.                                                            *)

(* Reads at LastConsumedVersion succeed everywhere: every replica of the  *)
(* entry reports a latest version at least LastConsumedVersion.  A client *)
(* may raise LastConsumedVersion (Write step 7) only after its            *)
(* UpdateLatestVersion calls (step 6) returned on every replica, and a    *)
(* replica's latest version never goes back.                              *)
ReadableAtConsumed ==
    md # NoEntry => \A s \in md.replicas : latest[s] >= md.lcv

(* The version a replica shows to readers is committed on it, and was     *)
(* published in the metadata: UpdateLatestVersion runs only after every   *)
(* replica committed newVersion and the CAS of step 5 succeeded, and no   *)
(* GC of another writer removed it in between.                            *)
VisibleIsPublished ==
    \A s \in Server :
        Holds(s) => /\ committed[s][latest[s]] # NoData
                   /\ md # NoEntry /\ latest[s] <= md.mrv

(* No lost update (TestConflictingClients, client_test.go:327): the       *)
(* payload a replica stores at a published version is the one the writer  *)
(* that won that version's CAS produced, so the CAS order is the order of *)
(* the data.                                                               *)
PublishedDataIsWinners ==
    \A s \in Server, v \in Version :
        (committed[s][v] # NoData /\ md # NoEntry /\ v <= md.mrv)
            => committed[s][v] = hist[v]

(* A reader that reads the same version twice from a replica gets the    *)
(* same data: while a replica's latest version stays, the payload stored   *)
(* at it never changes.  CommitWrite overwrites whatever is stored at      *)
(* newVersion, so this rests on no stale Write ever committing at the      *)
(* version a replica already shows (its old version must still be stored, *)
(* and UpdateLatestVersion pruned everything below latest).               *)
ShownDataStable ==
    [][\A s \in Server :
         latest'[s] = latest[s] => committed'[s][latest[s]] = committed[s][latest[s]]]_vars

(* The write path implements ChunkVersions (spec 8, property 1): with    *)
(* MostRecentVersion, LastConsumedVersion and the replicas' latest        *)
(* versions as the abstract state, every step is a publish, a replica     *)
(* showing a newer published version, a rise of LastConsumedVersion to a  *)
(* version all replicas show, or leaves them alone.                       *)
CV == INSTANCE ChunkVersions
        WITH Replica <- Server, published <- md.mrv, consumed <- md.lcv, visible <- latest

ImplementsChunkVersions == CV!CVSpec

(* A Write whose version was published eventually returns to its caller  *)
(* (spec 4.3: steps 6 and 7 are safe to retry indefinitely).              *)
PublishedWriteReturns ==
    \A c \in Client : pc[c] = "update" ~> pc[c] = "idle"

=============================================================================
