----------------------------- MODULE ZirconBase -----------------------------
(***************************************************************************)
(* Constants and data shared by the components of the Zircon model.       *)
(*                                                                         *)
(* Chunks are independent (every chunkserver and metadata-cache operation  *)
(* takes its own per-chunk lock), so the model follows ONE chunk.  Its     *)
(* payload, MaxChunkSize bytes in the code, is abstracted to ChunkSize     *)
(* cells, each holding a small number; a write stages one cell.            *)
(***************************************************************************)
EXTENDS Naturals

CONSTANTS
    Server,      \* chunkserver names (apis.ServerName / ServerAddress)
    MaxVersion,  \* bound on apis.Version, which is a uint64 in the code
    ChunkSize,   \* cells per chunk (stands for apis.MaxChunkSize)
    MaxValue,    \* largest value a cell may hold
    NoData       \* marks a version that is not committed on a server

ASSUME ServerAssumption == Server # {}
ASSUME MaxVersionAssumption == MaxVersion \in Nat \ {0}
ASSUME ChunkSizeAssumption == ChunkSize \in Nat \ {0}
ASSUME MaxValueAssumption == MaxValue \in Nat

\* apis.AnyVersion: "any version is valid"; real versions are positive.
AnyVersion == 0
Version == 1..MaxVersion

Value == 0..MaxValue
Cell == 0..(ChunkSize - 1)
Payload == [Cell -> Value]

\* Add pads its initial data with zeroes up to MaxChunkSize.
Zeroes == [i \in Cell |-> 0]

ASSUME NoDataAssumption == NoData \notin Payload

\* A staged write (offset, data) of one cell.  The commit hash is a
\* deterministic digest of offset and data, so the span itself is its hash.
Span == [off : 0..ChunkSize, val : Value]

\* The payload of oldVersion with a staged write applied to it.
Apply(p, w) == [p EXCEPT ![w.off] = w.val]

=============================================================================
