---------------------------- MODULE MCFileStream ----------------------------
(* A 3-bit head, so that offsets past 2^Width are within reach.           *)
EXTENDS FileStream

MCOffset == {-1, 0, 3, 8, 9}
MCLength == {0, 2}

=============================================================================
