------------------------- MODULE ChunkserverProofs -------------------------
(***************************************************************************)
(* Proofs about the chunkserver state machine, for every number of        *)
(* servers, versions and cells.  The type invariant and the garbage-      *)
(* collection invariant NoVersionBelowLatest are proved together: neither *)
(* is inductive alone.  CommitWrite stores Apply(old payload, staged      *)
(* write), which is a Payload only because every staged write is in       *)
(* bounds (StagedInBounds); and it creates version newVersion above the   *)
(* latest one only because oldVersion, still stored, is not below latest  *)
(* (NoVersionBelowLatest itself).                                         *)
(***************************************************************************)
EXTENDS Chunkserver, TLAPS

\* Staged writes passed the MaxChunkSize check of StartWrite.
StagedInBounds == \A s \in Server : \A w \in prepared[s] : InBounds(w)

CSInv == CSTypeOK /\ StagedInBounds /\ NoVersionBelowLatest

LEMMA ApplyInPayload ==
    ASSUME NEW p \in Payload, NEW w \in Span, InBounds(w)
    PROVE  Apply(p, w) \in Payload
BY ChunkSizeAssumption DEF Apply, Payload, Cell, InBounds, Span

LEMMA InitInv == CSInit => CSInv
BY MaxVersionAssumption DEF CSInit, CSInv, CSTypeOK, StagedInBounds,
                            NoVersionBelowLatest, NoVersions

LEMMA NextInv == CSInv /\ [CSNext]_csVars => CSInv'
<1> SUFFICES ASSUME CSInv, [CSNext]_csVars PROVE CSInv'
    OBVIOUS
<1> USE DEF CSInv
<1>1. ASSUME NEW s \in Server, NEW w \in Span, StartWrite(s, w)
      PROVE  CSInv'
    BY <1>1 DEF StartWrite, CSTypeOK, StagedInBounds, NoVersionBelowLatest, Holds
<1>2. ASSUME NEW s \in Server, NEW w \in Span, NEW r \in SUBSET Server,
             NEW a \in SUBSET Server, NEW ok \in BOOLEAN,
             StartWriteReplicated(s, w, r, a, ok)
      PROVE  CSInv'
    BY <1>2 DEF StartWriteReplicated, CanStage, CSTypeOK, StagedInBounds,
                NoVersionBelowLatest, Holds
<1>3. ASSUME NEW s \in Server, NEW h \in Span, NEW o \in Version,
             NEW n \in Version, CommitWrite(s, h, o, n)
      PROVE  CSInv'
    <2>1. InBounds(h)
        BY <1>3 DEF CommitWrite, CanCommit, StagedInBounds
    <2>2. Apply(committed[s][o], h) \in Payload
        BY <1>3, <2>1, ApplyInPayload DEF CommitWrite, CanCommit, CSTypeOK
    <2>3. CSTypeOK'
        BY <1>3, <2>2 DEF CommitWrite, CSTypeOK
    <2>4. StagedInBounds'
        BY <1>3 DEF CommitWrite, StagedInBounds, CSTypeOK
    <2>5. latest[s] <= o
        BY <1>3 DEF CommitWrite, CanCommit, NoVersionBelowLatest
    <2>6. NoVersionBelowLatest'
        BY <1>3, <2>5, MaxVersionAssumption
           DEF CommitWrite, CanCommit, NoVersionBelowLatest, Holds, CSTypeOK, Version
    <2>7. QED
        BY <2>3, <2>4, <2>6
<1>4. ASSUME NEW s \in Server, NEW o \in Version, NEW n \in Version,
             UpdateLatestVersion(s, o, n)
      PROVE  CSInv'
    BY <1>4, MaxVersionAssumption
       DEF UpdateLatestVersion, CanUpdateLatest, CSTypeOK, StagedInBounds,
           NoVersionBelowLatest, Holds, Version
<1>5. ASSUME NEW s \in Server, NEW n \in Version, Add(s, Zeroes, n)
      PROVE  CSInv'
    BY <1>5, ChunkSizeAssumption, MaxValueAssumption
       DEF Add, CSTypeOK, StagedInBounds, NoVersionBelowLatest, Holds,
           NoVersions, Zeroes, Payload, Cell, Value, Version
<1>6. ASSUME NEW s \in Server, NEW t \in Server, NEW v \in Version,
             Replicate(s, t, v)
      PROVE  CSInv'
    <2>1. committed[s][v] \in Payload
        BY <1>6 DEF Replicate, CSTypeOK
    <2>2. QED
        BY <1>6, <2>1, MaxVersionAssumption
           DEF Replicate, Add, CSTypeOK, StagedInBounds,
               NoVersionBelowLatest, Holds, NoVersions, Version
<1>7. ASSUME NEW s \in Server, NEW v \in Version, Delete(s, v)
      PROVE  CSInv'
    BY <1>7, MaxVersionAssumption
       DEF Delete, CanDelete, CSTypeOK, StagedInBounds,
           NoVersionBelowLatest, Holds, NoVersions, Version
<1>8. CASE UNCHANGED csVars
    BY <1>8 DEF csVars, CSTypeOK, StagedInBounds, NoVersionBelowLatest, Holds
<1>9. QED
    BY <1>1, <1>2, <1>3, <1>4, <1>5, <1>6, <1>7, <1>8 DEF CSNext

(* The chunkserver's state always has the types CSTypeOK states.          *)
THEOREM CSTypeCorrect == CSSpec => []CSTypeOK
<1>1. CSInv => CSTypeOK
    BY DEF CSInv
<1>2. QED
    BY <1>1, InitInv, NextInv, PTL DEF CSSpec

(* Garbage collection (spec 8.4): a chunkserver never stores a committed  *)
(* version older than the one it reports to readers, whatever sequence   *)
(* of StartWrite, CommitWrite, UpdateLatestVersion, Add, Replicate and   *)
(* Delete calls it receives.                                               *)
THEOREM CSNoVersionBelowLatest == CSSpec => []NoVersionBelowLatest
<1>1. CSInv => NoVersionBelowLatest
    BY DEF CSInv
<1>2. QED
    BY <1>1, InitInv, NextInv, PTL DEF CSSpec

=============================================================================
