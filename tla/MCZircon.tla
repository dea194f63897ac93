------------------------------ MODULE MCZircon ------------------------------
(* Small instance of Zircon for TLC: two chunkservers, two clients.       *)
EXTENDS Zircon

MCChunkSize == 1
MCMaxVersion == 3
MCMaxValue == 3
MCDelta == {1, 2}


=============================================================================
