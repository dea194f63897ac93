----------------------------- MODULE FileStream -----------------------------
(***************************************************************************)
(* The fileStream of the filesystem layer (src/lib/apis/chunkserver.go,   *)
(* lines 449-546): an io.Reader/Writer/Seeker/Closer over a *File, with a *)
(* uint32 head.  Offsets from callers are int64 and are converted with    *)
(* uint32(...), i.e. taken modulo 2^Width.  The File is abstracted to its *)
(* size; its Read returns the bytes between the offset and the end.       *)
(***************************************************************************)
EXTENDS Integers

CONSTANTS
    Width,        \* bits of the head (32 in the code)
    MaxFileSize,  \* File.Write beyond this size fails
    Offset,       \* int64 offsets callers pass (ReadAt, WriteAt, Seek)
    Length        \* buffer lengths callers pass

\* Width \in Nat \ {0}, MaxFileSize \in Nat, Length \subseteq Nat, Offset \subseteq Int.

U32(x) == x % (2 ^ Width)          \* uint32(x) for an int64 x
U32Max == 2 ^ Width - 1

SeekStart == 0
SeekCurrent == 1
SeekEnd == 2
Whence == {SeekStart, SeekCurrent, SeekEnd, 3}

VARIABLES
    closed,    \* fileStream.closed
    head,      \* fileStream.head (uint32)
    size,      \* the File's size
    releases,  \* number of f.Release() calls so far
    touched,   \* ghost: the File was used after it was released
    last       \* ghost: offset requested and offset used by the last call
               \* that sets or moves a position

fsVars == <<closed, head, size, releases, touched, last>>

Call == [op : {"none", "Read", "Write", "ReadAt", "WriteAt", "Seek"},
         req : Int, at : Int, ok : BOOLEAN]

FSTypeOK ==
    /\ closed \in BOOLEAN
    /\ head \in 0..U32Max
    /\ size \in 0..MaxFileSize
    /\ releases \in Nat
    /\ touched \in BOOLEAN
    /\ last \in Call

FSInit ==
    /\ closed = FALSE
    /\ head = 0
    /\ size \in 0..MaxFileSize
    /\ releases = 0
    /\ touched = FALSE
    /\ last = [op |-> "none", req |-> 0, at |-> 0, ok |-> TRUE]

\* Any call on the File after it was released.
UseFile == touched' = (touched \/ releases > 0)

\* File.Read(offset, n): the bytes from offset up to the end of the file.
FileReadLen(off, n) == IF off >= size THEN 0 ELSE IF size - off < n THEN size - off ELSE n

\* File.Write(offset, data) succeeds when the result fits.
FileWriteOK(off, n) == off + n <= MaxFileSize
Grown(off, n) == IF off + n > size THEN off + n ELSE size

-----------------------------------------------------------------------------
(* Read (457-471): reads at head and advances head by the bytes read;    *)
(* nothing left to read for a non-empty buffer is io.EOF.                 *)
Read(n) ==
    /\ ~closed
    /\ head' = U32(head + FileReadLen(head, n))
    /\ UseFile
    /\ last' = [op |-> "Read", req |-> head + FileReadLen(head, n),
                at |-> head', ok |-> ~(FileReadLen(head, n) = 0 /\ n > 0)]
    /\ UNCHANGED <<closed, size, releases>>

(* ReadAt (473-488): reads at uint32(off); head unchanged.  A short read *)
(* returns io.EOF.                                                        *)
ReadAt(n, off) ==
    /\ ~closed
    /\ UseFile
    /\ last' = [op |-> "ReadAt", req |-> off, at |-> U32(off),
                ok |-> FileReadLen(U32(off), n) = n]
    /\ UNCHANGED <<closed, head, size, releases>>

(* Write (490-500): writes at head; on success head += len(p).            *)
Write(n) ==
    /\ ~closed
    /\ UseFile
    /\ IF FileWriteOK(head, n)
       THEN /\ size' = Grown(head, n)
            /\ head' = U32(head + n)
       ELSE UNCHANGED <<size, head>>
    /\ last' = [op |-> "Write", req |-> head + n, at |-> head',
                ok |-> FileWriteOK(head, n)]
    /\ UNCHANGED <<closed, releases>>

(* WriteAt (502-512): writes at uint32(off).                              *)
WriteAt(n, off) ==
    /\ ~closed
    /\ UseFile
    /\ IF FileWriteOK(U32(off), n)
       THEN size' = Grown(U32(off), n) ELSE UNCHANGED size
    /\ last' = [op |-> "WriteAt", req |-> off, at |-> U32(off),
                ok |-> FileWriteOK(U32(off), n)]
    /\ UNCHANGED <<closed, head, releases>>

(* Seek (514-533): an unknown whence leaves nhead at its zero value.      *)
NewHead(offset, whence) ==
    CASE whence = SeekStart   -> U32(offset)
      [] whence = SeekCurrent -> U32(head + offset)
      [] whence = SeekEnd     -> U32(size + offset)
      [] OTHER                -> 0

\* The position io.Seeker asks for.
Requested(offset, whence) ==
    CASE whence = SeekStart   -> offset
      [] whence = SeekCurrent -> head + offset
      [] OTHER                -> size + offset

Seek(offset, whence) ==
    /\ ~closed
    /\ head' = NewHead(offset, whence)
    /\ IF whence = SeekEnd THEN UseFile ELSE UNCHANGED touched
    /\ last' = [op |-> "Seek", req |-> Requested(offset, whence),
                at |-> NewHead(offset, whence), ok |-> TRUE]
    /\ UNCHANGED <<closed, size, releases>>

(* Truncate (535-538): no closed check.                                   *)
Truncate(len) ==
    /\ UseFile
    /\ IF U32(len) <= MaxFileSize THEN size' = U32(len) ELSE UNCHANGED size
    /\ UNCHANGED <<closed, head, releases, last>>

(* Close (540-546): releases the File once; closing again is a no-op.     *)
Close ==
    /\ IF ~closed
       THEN /\ releases' = releases + 1
            /\ closed' = TRUE
            /\ UseFile
       ELSE UNCHANGED <<releases, closed, touched>>
    /\ UNCHANGED <<head, size, last>>

FSNext ==
    \/ \E n \in Length : Read(n) \/ Write(n)
    \/ \E n \in Length, off \in Offset : ReadAt(n, off) \/ WriteAt(n, off)
    \/ \E off \in Offset, w \in Whence : Seek(off, w)
    \/ \E len \in Length : Truncate(len)
    \/ Close

FSSpec == FSInit /\ [][FSNext]_fsVars

-----------------------------------------------------------------------------
(* Once Close released the File, no method of the stream uses it again.   *)
NoUseAfterRelease == ~touched

(* Every call acts at the position the caller asked for, or fails: the    *)
(* int64 offsets of ReadAt, WriteAt and Seek are not silently wrapped     *)
(* into uint32 range, an unknown whence does not move the head to 0, and  *)
(* Read and Write leave the head just past the bytes they transferred     *)
(* (`f.head += uint32(len(...))` does not wrap).                          *)
OffsetHonoured == last.ok => last.at = last.req

=============================================================================
