------------------------- MODULE MCMetadataCacheRPC -------------------------
(* MetadataCache RPC round trips with two possible redirect owners.       *)
EXTENDS MetadataCacheRPC

=============================================================================
