# Zircon — TLA+ models, runs and proofs

This directory holds TLA+ models of Zircon's chunk write path and of its
filesystem layer, along with the TLC configurations that model-check them and
TLAPS proofs. The repository's source is:

- `src/lib/apis/chunkserver.go`: the Chunkserver interfaces and the filesystem layer;
- `src/unnamed/part_000`: the metadata cache RPC proxies;
- `src/unnamed/part_001`: the chunkserver RPC tests and the build script;
- `src/lib/client/control/client_test.go`: the client tests.

Some code is not in the repository: the chunkserver and metadata cache
implementations, and the client's `Read` and `Write`. Those are modelled from
`spec.md` (the interface comments, spec 4.2 and 4.3) and marked
`spec_modelled` in `PROJECT.json`.

## 1. Inventory

| Component | Source | State | Operations |
|---|---|---|---|
| Chunkserver (per chunk, per server) | chunkserver.go 23-82 | committed versions, latest version, staged writes | Read, StartWrite, StartWriteReplicated, CommitWrite, UpdateLatestVersion, Add, Replicate, Delete, ListAllChunks |
| Metadata cache | spec 4.2; entries at part_000 50-56 | entry `[MostRecentVersion, LastConsumedVersion, Replicas]`, owner | NewEntry, ReadEntry, UpdateEntry (CAS), DeleteEntry (CAS) |
| Metadata cache RPC | part_000 | none (a proxy) | the four calls, server side and client side |
| Client coordinator | spec 4.3, driven by TestConflictingClients (client_test.go 229-328) | per-client loop position, entry read, staged span | Read (ReadEntry, then a replica Read); Write (stale check, StartWriteReplicated, CommitWrite on all replicas, CAS MRV, UpdateLatestVersion on all replicas, CAS LCV) |
| File streams | chunkserver.go 449-546 | closed flag, uint32 head, the File | Read, ReadAt, Write, WriteAt, Seek, Truncate, Close |
| Filesystem paths | chunkserver.go 139-390 | the directory tree | Mkdir, Rename, Unlink, Rmdir, SymLink, Stat, ReadLink, ListDir, Truncate, OpenRead, OpenWrite |
| erroringWriter | chunkserver.go 413-447 | none | delegation and constant errors |
| Chunkserver RPC tests, build script | part_001 | none | not a component with state |

How they interact:

- A client reads the entry from the metadata cache, then a replica at
  LastConsumedVersion.
- A write stages the data on all replicas and commits it as MRV+1 on every
  replica.
- The write then publishes MRV+1 by CAS, moves every replica's latest version
  (which also garbage-collects older versions), and publishes LCV by CAS.
- Every metadata cache call crosses the RPC proxies.
- The filesystem opens files by path and hands out `fileStream`s over them.

Hard behaviours that the code is exposed to:

- concurrent writers on one chunk;
- concurrent per-replica RPCs that complete in any order and fail one by one;
- CAS losers;
- garbage collection racing commits;
- RPC transport failures and the generated client's result-on-error convention;
- uint32 conversions of int64 offsets;
- use after Close;
- check-then-act races between path lookups and creations.

`PROJECT.json` lists the hazards, each at its source line.

## 2. Modules

| Module | Models | Correspondence |
|---|---|---|
| `ZirconBase` | chunkserver.go constants and types | `Version`, `AnyVersion`, a chunk of `ChunkSize` cells holding small values, a write `Span` (offset and value), and `Apply`, which is what CommitWrite does to the old payload. |
| `Chunkserver` | the Chunkserver contract for one chunk on all servers | `committed[s][v]` (payload or `NoData`), `latest[s]` (0 = no copy), `prepared[s]` (staged writes, named by their commit hash: the span itself). Each interface method is an action, with its guard from the documented failure conditions. |
| `MetadataCache` | the entry CAS (spec 4.2) | `md` is the entry or `NoEntry`. UpdateEntry and DeleteEntry succeed only on an exact match with the previous entry, and versions never decrease. |
| `Zircon` | the client write path driven by TestConflictingClients | Extends both of the above. `pc` is each client goroutine's place in the read-modify-write loop. Every RPC is one step at its callee. Step 2 calls StartWriteReplicated on the primary, the entry's first replica (`Primary`), which forwards to the others; any subset of the forwards may fail, and then the Write retries with the data staged where it arrived. The per-replica CommitWrite and UpdateLatestVersion calls are separate steps in any order (`pending`). `hist` is a ghost that records the payload the CAS winner of each version produced. `Init` is the state after `New`, with the setup write of "0" abstracted to value 0 at version 1. |
| `MetadataCacheRPC` | part_000 | One call at a time: the cache's answer (`Call`), the server proxy's twirp response (`ServeRead`/`ServeUpdate`), transport (`Deliver`/`TransportFail`), and the client proxy's decoding (`DecodeRead`/`DecodeUpdate`). `NilOnError` chooses the generated twirp client: nil result on error (current generators) or an empty one. |
| `FileStream` | fileStream | `closed`, `head` computed mod 2^`Width`, and the File's `size`. `releases` and `touched` are ghosts: Release calls, and File use after release. `last` is the position asked for and the position used by the last Read, Write, ReadAt, WriteAt or Seek. A Read that reads nothing into a non-empty buffer, and a ReadAt that reads fewer bytes than asked, return `io.EOF` (`ok` false). |
| `OpenWrite` | OpenRead, OpenWrite, Stat, Truncate(path), Unlink on one path | `file` is the identity of the file at the path. Each `ref.NewFile`, `ref.LookupFile` or `ref.Remove` is one atomic step; several openers and unlinks interleave between them. |
| `ChunkVersions` | spec 8 property 1 and the Read contract of spec 4.3 | The abstract version state of one chunk: `published` (MostRecentVersion), `consumed` (LastConsumedVersion) and `visible[r]` (the version replica `r` shows). Publish raises `published`; Show moves a replica forward to a published version; Consume raises `consumed` to a version every replica shows. |
| `ChunkserverProofs` | proofs about `Chunkserver` | |
| `ZirconProofs` | proofs about `Zircon` | |
| `MetadataCacheRPCProofs` | proofs about `MetadataCacheRPC` | |
| `ChunkVersionsProofs` | proofs about `ChunkVersions` | |
| `OpenWriteProofs` | proofs about `OpenWrite` | |
| `MC*` | TLC instances | |

## 3. Runs

Every run finishes in seconds. *pass* means TLC found no error; *violation*
means TLC finds the property violated, which is recorded as a finding.

| Run (cfg) | Property | Result | What it shows |
|---|---|---|---|
| MCZircon.cfg | ReadableAtConsumed, VisibleIsPublished, NoVersionBelowLatest; ImplementsChunkVersions, ShownDataStable | pass, 810 503 states | Two clients, two replicas, versions up to 3, any interleaving of their RPCs: every replica stays readable at LCV; readers see only committed and published versions; no replica keeps a version below the one it shows; the payload at the version a replica shows never changes while it shows it (CommitWrite overwrites); and the write path refines `ChunkVersions` under the mapping `published <- md.mrv`, `consumed <- md.lcv`, `visible <- latest`. |
| MCZirconLostUpdate.cfg | PublishedDataIsWinners | violation | Two writers read MRV=v and both CommitWrite at v+1. The CAS loser's commit lands last on a replica, and that replica serves the loser's data as the published v+1 (a lost update; TestConflictingClients asserts the sum at client_test.go:327). |
| MCZirconStuck.cfg | PublishedWriteReturns (FairSpec) | violation | Writer A publishes; writer B then publishes and moves the latest version of one replica. A's UpdateLatestVersion(lcv, new) on that replica now fails forever, and B's fails on the other replica. Neither Write returns. |
| MCMetadataCacheRPC.cfg | OutcomePreserved | pass | With an empty result on error, every owner and error kind survives the round trip. |
| MCMetadataCacheRPCNil.cfg | OutcomePreserved | violation | With a nil result on error, UpdateEntry and DeleteEntry dereference it (part_000:140, 155) on StaleEntry or on a transport error. |
| MCFileStreamClosed.cfg | NoUseAfterRelease | violation | Truncate after Close (line 537 has no `closed` check). |
| MCFileStreamOffsets.cfg | OffsetHonoured | violation | `uint32(off)` wraps negative or large offsets (TLC's witness is ReadAt with an empty buffer at offset -1, which succeeds at the wrapped position; with a non-empty buffer the wrapped position is past the file and the short read returns `io.EOF`); an unknown whence seeks to 0; and four 2-byte Writes wrap a 3-bit head from 6 back to 0 (`f.head += uint32(len(p))`, line 498), with the file at 8 bytes. |
| MCOpenWrite.cfg | ExclusiveOwnUnlessUnlinked | pass, 67 638 states | With three callers (opens in every mode, Stat, Truncate) and unlinks, an exclusive open during which no Unlink ran returns the very file its own NewFile created, and fails when that NewFile failed. Which file it returns when an Unlink does intervene is the violation run MCOpenWriteUnlink below. |
| MCOpenWriteRace.cfg | CreateOpenSucceeds | violation | Two create-opens of a missing file: one fails with "two errors" although nothing was unlinked. |
| MCOpenWriteUnlink.cfg | ExclusiveOpensOwnFile | violation | An unlink and a re-create between an exclusive open's NewFile and its LookupFile make it return another caller's file. |

Bounds, and why they suffice:

- **Zircon runs:** two clients and two servers are the smallest instance with
  both a write conflict and a per-replica ordering difference. Three versions
  allow two successive writes after New. A chunk of one cell with values 0..3
  and additions {1, 2} makes the two writers' data differ.
- **FileStream:** a 3-bit head makes `uint32` wrapping reachable with offsets
  {-1, 0, 3, 8, 9}, and a file of up to 10 bytes lets a sequential stream
  pass 2^3.
- **OpenWrite:** three openers cover every pair of modes plus a third caller
  that re-creates the file.

The chunkserver driven by arbitrary callers (`CSSpec`, with Add, Replicate
and Delete) has no run of its own. `ChunkserverProofs` proves its invariant for
every instance, and the write-path run checks the same invariant under the
calls the client makes.

Each passing property has a mutant in `PROJECT.json`, a plausible bug that
TLC catches under the run's cfg:

- pruning `v <= newVersion` in UpdateLatestVersion;
- raising LCV before step 6 finished;
- UpdateLatestVersion without its "latest = oldVersion" check (breaks the
  refinement: a replica moves backwards);
- UpdateLatestVersion pruning only below the old latest version (a stale
  Write then commits at, and overwrites, the version a replica shows);
- dropping ReadEntry's `err` check;
- the exclusive branch ignoring NewFile's error.

Deadlock checking: the Zircon runs set `CHECK_DEADLOCK FALSE`, because the
stuck-write interleaving above really does stop every client. The other models
check deadlock; their explicit terminal stutter (`OWDone`) marks where the
callers have returned.

## 4. Fairness

`FairSpec` assumes weak fairness of each client goroutine's steps: the Go
scheduler runs every runnable goroutine, and every RPC returns (successfully or
with an error that the model treats as a separate step). Under that assumption:

`PublishedWriteReturns` is violated with two clients, so the failure is in
the protocol and not in the scheduling. It is the only liveness property of
the project. No progress property is claimed to hold: with one client there is
no contention to survive, and with two the stuck-write run shows a Write that
never returns.

## 5. Proofs

`ChunkserverProofs` proves, for every set of servers, every `MaxVersion`,
`ChunkSize` and `MaxValue`:

- `CSTypeCorrect`: `CSSpec => []CSTypeOK`;
- `CSNoVersionBelowLatest`: `CSSpec => []NoVersionBelowLatest`.

`NoVersionBelowLatest` is not inductive on its own: CommitWrite stores
`Apply(committed[s][old], h)`, which is a payload only when the staged span `h`
is in bounds. The inductive invariant `CSInv` therefore adds:

- the type invariant;
- `StagedInBounds`, which says every prepared span fits the chunk.

The lemma `ApplyInPayload` says that applying an in-bounds span to a payload
gives a payload.

The argument has three parts:

- `InitInv`: `CSInit => CSInv`.
- `NextInv`: every action preserves `CSInv`, with one step per action.
  - UpdateLatestVersion keeps exactly the versions `>= newVersion` and sets
    `latest` to `newVersion`.
  - CommitWrite requires `newVersion > latest` of a holding server.
  - Add and Replicate start from a server with no versions.
  - Delete clears everything.
- The temporal step, by PTL.

`ZirconProofs` proves, for every set of servers and clients and every
`MaxVersion` (with `Delta` a non-empty set of positive additions):

- `ZReadableAtConsumed`: `Spec => []ReadableAtConsumed`;
- `ZVisibleIsPublished`: `Spec => []VisibleIsPublished`;
- `ZImplementsChunkVersions`: `Spec => ImplementsChunkVersions`. Every
  initial state maps to `CVInit`, and every step maps to a `ChunkVersions`
  step or a stutter:
  - step 5 (`Publish`) maps to `Publish`;
  - step 6 (`Update`) maps to `Show(r, newVersion)`;
  - step 7 (`Consume`) maps to `Consume(newVersion)`, or to a stutter when it
    does not raise LastConsumedVersion;
  - every other step leaves `md` and `latest` alone.

Neither invariant is inductive:

- Step 7 raises LCV to newVersion, which is safe only because every replica
  already shows newVersion.
- Step 6 moves a replica to newVersion, which is safe only because
  newVersion is published and still stored on that replica.

The inductive invariant `ZInv` has four parts:

- `ZTypeOK`: the types of the state.
- `EntriesOK`: the entry, and every entry a client holds, is well formed
  (`1 <= lcv <= mrv`, and the replicas are all the servers). A client staging
  or committing read `mrv < MaxVersion`.
- `Consumable`: a client in step 6 or 7 has published its version
  (`newVersion <= md.mrv`), and every replica whose UpdateLatestVersion
  returned shows at least newVersion. Every replica shows at least LCV.
- `Stored`: a replica's latest version is stored and `<= md.mrv`.
  `CommittedAt(c, r)` says that newVersion is still stored on `r`, or that
  `r` has moved past it. It holds:
  - for a committing client with no failure so far, on each replica whose
    CommitWrite returned;
  - for a client in step 6, on each replica still pending.

The argument rests on three facts:

- UpdateLatestVersion moves a replica only from the LCV the client read to
  the larger newVersion, so replicas never move back.
- It prunes only below the version it moves to.
- CommitWrite only stores.

Together these give the lemma `CommittedAtStable`: `CommittedAt` survives
every step. The same invariant gives the refinement's step obligations.

`ZirconProofs` also proves, on the same footing:

- `ZNoVersionBelowLatest`: `Spec => []NoVersionBelowLatest`. Only Commit and
  Update change a replica's versions. Commit's guard needs the old version
  stored, hence `>= latest`, so newVersion is above latest. Update keeps only
  the versions at or above the one it moves to. The step lemma uses `ZInv`
  for `latest >= 1` and for the committing client's entry.
- `ZShownDataStable`: `Spec => ShownDataStable`, an action property. A
  Commit at the version a replica shows would build on a stored version
  below it, which `NoVersionBelowLatest` rules out. So the proof rests on
  `ZInv /\ NoVersionBelowLatest`.
- `ZTypeCorrect`: `Spec => []TypeOK`. `ZInv` leaves out the staged writes,
  Read's version, the entry and the ghost `hist`. `ZTypeRest` adds them,
  with `HistPublished`: every published version has a payload in `hist`.
  That is needed because Publish stores `Apply(hist[mrv], span)`.
- `ZVersionOrder`: under the refinement mapping, LCV `<=` every replica's
  latest `<=` MRV. It is derived only from `ZImplementsChunkVersions` and
  `CVVersionOrder`, which `ChunkVersionsProofs` proves of the abstract
  spec, where the order is inductive with the types.

`MetadataCacheRPCProofs` proves `RPCOutcomePreserved`: under the hypothesis
`~NilOnError`, `RPCSpec => []OutcomePreserved`. The hypothesis is the build
the passing run checks; the violation run shows the property fails without
it, and the proof indeed fails without it at the UpdateEntry/DeleteEntry
round trip. `OutcomePreserved` speaks only of the state after Return, so
`RInv` adds:

- `InFlight`: once served, the cache's answer is one its contract allows,
  and the handler's response is the server proxy's encoding of it.
- `StubReturned`: once sent, the stub returned that response as twirp
  delivers it, or a transport error.

The lemmas `ReadRoundTrip`, `UpdateRoundTrip` and `TransportFaithful` show
that decoding gives the answer back, for every answer of every call.

`OpenWriteProofs` proves `OWExclusiveOwnUnlessUnlinked`:
`OWSpec => []ExclusiveOwnUnlessUnlinked`, for every set of callers. The
property is not inductive: an exclusive caller returns "ok" from its
LookupFile, and the file that lookup finds must be its own. The inductive
invariant `OWInv` adds:

- `OwnFileAtPath`: while a caller waits on its LookupFile and no Unlink has
  run since its NewFile, the file at the path is the one that NewFile
  created. Other callers' NewFile fails on an existing file, and Truncate and
  Stat do not replace it, so only an Unlink can change it.
- `StatOnly`: only a Stat caller reaches Stat's LookupFile.
- `ExclusiveVia`: an exclusive caller only passes through the states of
  the exclusive branch, so it returns only from its own LookupFile.
- `nextId` is never 0, so a created file never has the "none" identity.

There is one lemma per kind of caller step and one for Unlink. TLC also
checks `OWInv` as an invariant on the three-caller instance.

## 6. Only model-checked

The following are checked by TLC but not proved:

- everything about `FileStream`: its two properties are violation runs.
  Nothing is proved about it, because its arithmetic modulo `2^Width` is
  beyond the provers, which treat `^` as opaque beyond `2^0 = 1`;
- the liveness property `PublishedWriteReturns`, in a violation run.
  Liveness and ENABLED are beyond TLAPS.

## 7. Not modelled

- Metadata cache ownership, leases and NewEntry.
- The coordination service.
- The frontend and the connection cache. Their code is not in the repository.
- client `New` and `Delete`, and multi-chunk writes.
- The other filesystem path operations (Mkdir, Rename, Rmdir, SymLink,
  ReadLink, ListDir), and Stat of directories and symlinks: the modelled path
  names a file or nothing.
- erroringWriter: pure delegation.
- Chunkserver RPC tests and the build script. The unpinned twirp generator in
  the build script is represented by `NilOnError`.
- Crash and restart of chunkservers: their persistence is not in the
  repository.

Spec inconsistencies met while modelling:

- Invariant I3 (LCV at most every replica's visible version) is broken by the
  protocol itself between steps 6 and 7.
- Spec 4.3 says New publishes version 1, while its scenario reads version 0
  after New.

## 8. Plan for the next sittings

1. Model the remaining filesystem path operations (Mkdir, Rmdir, SymLink,
   Rename, and Stat of directories) over a small directory tree. Their
   Traverser and Reference are not in the repository, and the spec leaves
   the filesystem layer out of scope, so their semantics would have to be
   taken from the calls alone.
2. A register specification of a chunk (a read returns the last published
   write), refined by a variant in which CommitWrite refuses an existing
   version, so that the lost update cannot occur.
