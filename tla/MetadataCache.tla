--------------------------- MODULE MetadataCache ---------------------------
(***************************************************************************)
(* The metadata cache's entry for the chunk (spec 4.2): MostRecentVersion, *)
(* LastConsumedVersion and the replica set, updated only by compare-and-  *)
(* swap.  The RPC surface is the MetadataCache proxy of src/unnamed/       *)
(* part_000; the cache itself is not under src/ and is modelled from the  *)
(* spec.  In this module the cache is always the chunk's owner.           *)
(***************************************************************************)
EXTENDS ZirconBase

CONSTANT NoEntry   \* the chunk has no entry (never created, or deleted)

VARIABLE md

Entry == [mrv : 0..MaxVersion, lcv : 0..MaxVersion, replicas : SUBSET Server]

ASSUME NoEntryAssumption == NoEntry \notin Entry

MDTypeOK == md \in Entry \cup {NoEntry}

(* Invariants the cache enforces on every successful UpdateEntry.         *)
MonotoneUpdate(prev, next) ==
    /\ next.mrv >= prev.mrv
    /\ next.lcv >= prev.lcv
    /\ next.lcv <= next.mrv

(* UpdateEntry(chunk, prev, next): succeeds iff the current entry equals  *)
(* prev field by field; otherwise StaleEntryError with no state change.   *)
CanUpdateEntry(prev, next) ==
    /\ md # NoEntry
    /\ md = prev
    /\ MonotoneUpdate(prev, next)

UpdateEntry(prev, next) ==
    /\ CanUpdateEntry(prev, next)
    /\ md' = next

(* DeleteEntry(chunk, prev): as UpdateEntry, but removes the entry.       *)
DeleteEntry(prev) ==
    /\ md # NoEntry
    /\ md = prev
    /\ md' = NoEntry

=============================================================================
