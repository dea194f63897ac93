------------------------ MODULE ChunkVersionsProofs ------------------------
(***************************************************************************)
(* Proofs about the abstract version state of a chunk.  The order         *)
(* consumed <= visible[r] <= published is inductive together with the     *)
(* types: Publish only raises published, Show moves a replica to a        *)
(* published version above the one it showed, and Consume raises         *)
(* consumed only to a version every replica shows.  The write path       *)
(* inherits these facts through ImplementsChunkVersions (ZirconProofs).   *)
(***************************************************************************)
EXTENDS ChunkVersions, TLAPS

\* Versions are ordered: consumed, then what each replica shows, then
\* what the metadata has published.
VersionOrder ==
    /\ ConsumedReadable
    /\ \A r \in Replica : visible[r] <= published

CVInv == CVTypeOK /\ VersionOrder

LEMMA CVInitInv == CVInit => CVInv
BY DEF CVInit, CVInv, CVTypeOK, VersionOrder, ConsumedReadable

LEMMA CVNextInv == CVInv /\ [CVNext]_cvVars => CVInv'
<1> SUFFICES ASSUME CVInv, [CVNext]_cvVars PROVE CVInv'
    OBVIOUS
<1> USE DEF CVInv, CVTypeOK, VersionOrder, ConsumedReadable
<1>1. CASE Publish
    BY <1>1 DEF Publish
<1>2. ASSUME NEW r \in Replica, NEW v \in 1..published, Show(r, v) PROVE CVInv'
    BY <1>2 DEF Show
<1>3. ASSUME NEW v \in 1..published, Consume(v) PROVE CVInv'
    BY <1>3 DEF Consume
<1>4. CASE UNCHANGED cvVars
    BY <1>4 DEF cvVars
<1>5. QED
    BY <1>1, <1>2, <1>3, <1>4 DEF CVNext

(* Whatever the order of publishes, replicas moving forward and rises of *)
(* LastConsumedVersion, every replica can serve a Read at                 *)
(* LastConsumedVersion and shows no version beyond the published one.     *)
THEOREM CVVersionOrder == CVSpec => []VersionOrder
<1>1. CVInv => VersionOrder
    BY DEF CVInv
<1>2. QED
    BY <1>1, CVInitInv, CVNextInv, PTL DEF CVSpec

=============================================================================
