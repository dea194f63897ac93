----------------------------- MODULE OpenWrite ------------------------------
(***************************************************************************)
(* filesystem.OpenWrite, OpenRead, Stat and Truncate (src/lib/apis/      *)
(* chunkserver.go, lines 223-390) called concurrently by several callers *)
(* on one path that names a file or nothing, while                        *)
(* Unlink (lines 161-168) may remove the file.  Each call to the          *)
(* directory (ref.NewFile, ref.LookupFile, ref.Remove) is one atomic      *)
(* step; between them another caller may run.  The directory is           *)
(* abstracted to the identity of the file at the path (0: none); files    *)
(* get fresh identities when NewFile creates them.                        *)
(***************************************************************************)
EXTENDS Naturals

CONSTANT Opener    \* concurrent callers of OpenWrite / OpenRead

\* The (create, exclusive) flags a caller passes.
Mode == {"read", "open", "create", "exclusive", "exclusiveNoCreate", "stat", "truncate"}

VARIABLES
    file,     \* identity of the file at the path, 0 if there is none
    nextId,   \* identity the next NewFile gives
    mode,     \* mode[o]: the flags opener o passed
    pc,       \* pc[o]: the next directory call of o, or its result
    opened,   \* opened[o]: the file o's last LookupFile returned
    created,  \* ghost: created[o] is the file o's NewFile made, 0 if none
    unlinked  \* ghost: unlinked[o] iff Unlink ran while o was in its call

owVars == <<file, nextId, mode, pc, opened, created, unlinked>>

exists == file # 0
Running(o) == pc[o] \in {"create", "lookup", "statLookup"}

FileId == Nat

OWTypeOK ==
    /\ file \in FileId
    /\ nextId \in FileId
    /\ mode \in [Opener -> Mode]
    /\ pc \in [Opener -> {"start", "create", "lookup", "statLookup", "ok", "err"}]
    /\ opened \in [Opener -> FileId]
    /\ created \in [Opener -> FileId]
    /\ unlinked \in [Opener -> BOOLEAN]

\* The path holds a file created before (identity 1) or nothing.
OWInit ==
    /\ file \in {0, 1}
    /\ nextId = 2
    /\ mode \in [Opener -> Mode]
    /\ pc = [o \in Opener |-> "start"]
    /\ opened = [o \in Opener |-> 0]
    /\ created = [o \in Opener |-> 0]
    /\ unlinked = [o \in Opener |-> FALSE]

Return(o, r) == pc' = [pc EXCEPT ![o] = r]

\* ref.NewFile: fails when the name is taken, else makes a fresh file.
NewFile(o, next) ==
    IF exists
    THEN /\ Return(o, "err")
         /\ UNCHANGED <<file, nextId, created>>
    ELSE /\ file' = nextId
         /\ nextId' = nextId + 1
         /\ created' = [created EXCEPT ![o] = nextId]
         /\ Return(o, next)

\* ref.LookupFile: the file at the path, or an error.
LookupFile(o, fail) ==
    IF exists
    THEN /\ Return(o, "ok")
         /\ opened' = [opened EXCEPT ![o] = file]
    ELSE /\ Return(o, fail)
         /\ UNCHANGED opened

\* Mutant: the exclusive branch without its `if err != nil` after NewFile.
ExclusiveIgnoringErr(o) ==
    /\ pc[o] = "start"
    /\ mode[o] = "exclusive"
    /\ IF exists THEN UNCHANGED <<file, nextId, created>>
                 ELSE /\ file' = nextId
                      /\ nextId' = nextId + 1
                      /\ created' = [created EXCEPT ![o] = nextId]
    /\ Return(o, "lookup")
    /\ UNCHANGED <<mode, opened, unlinked>>

(* OpenRead (lines 335-349): one LookupFile.                              *)
OpenRead(o) ==
    /\ pc[o] = "start"
    /\ mode[o] = "read"
    /\ LookupFile(o, "err")
    /\ UNCHANGED <<file, nextId, mode, created, unlinked>>

(* Stat (lines 223-249): ref.Stat of the name; for a FILE, LookupFile   *)
(* then Size on the File; NONEXISTENT is "no such file".                 *)
Stat(o) ==
    /\ pc[o] = "start"
    /\ mode[o] = "stat"
    /\ Return(o, IF exists THEN "statLookup" ELSE "err")
    /\ UNCHANGED <<file, nextId, mode, opened, created, unlinked>>

StatLookup(o) ==
    /\ pc[o] = "statLookup"
    /\ LookupFile(o, "err")
    /\ UNCHANGED <<file, nextId, mode, created, unlinked>>

(* Truncate(path) (lines 321-333): LookupFile, then Truncate and Release  *)
(* on the File, which leave the directory alone.                          *)
TruncatePath(o) ==
    /\ pc[o] = "start"
    /\ mode[o] = "truncate"
    /\ LookupFile(o, "err")
    /\ UNCHANGED <<file, nextId, mode, created, unlinked>>

(* OpenWrite, exclusive && !create: rejected (lines 358-360).             *)
Mismatched(o) ==
    /\ pc[o] = "start"
    /\ mode[o] = "exclusiveNoCreate"
    /\ Return(o, "err")
    /\ UNCHANGED <<file, nextId, mode, opened, created, unlinked>>

(* OpenWrite, exclusive: NewFile (lines 361-364), then LookupFile.        *)
Exclusive(o) ==
    /\ pc[o] = "start"
    /\ mode[o] = "exclusive"
    /\ NewFile(o, "lookup")
    /\ UNCHANGED <<mode, opened, unlinked>>

(* OpenWrite, not exclusive: LookupFile first (line 370); when it fails, *)
(* create (lines 372-381) or give up (line 383).                          *)
LookupFirst(o) ==
    /\ pc[o] = "start"
    /\ mode[o] \in {"open", "create"}
    /\ LookupFile(o, IF mode[o] = "create" THEN "create" ELSE "err")
    /\ UNCHANGED <<file, nextId, mode, created, unlinked>>

(* The NewFile after a failed lookup (lines 374-377).                     *)
CreateAfterLookup(o) ==
    /\ pc[o] = "create"
    /\ NewFile(o, "lookup")
    /\ UNCHANGED <<mode, opened, unlinked>>

(* The LookupFile after a successful NewFile (lines 365-368, 378-381).   *)
LookupCreated(o) ==
    /\ pc[o] = "lookup"
    /\ LookupFile(o, "err")
    /\ UNCHANGED <<file, nextId, mode, created, unlinked>>

(* Unlink by another caller (lines 161-168): ref.Remove of the file.      *)
Unlink ==
    /\ exists
    /\ file' = 0
    /\ unlinked' = [o \in Opener |-> unlinked[o] \/ Running(o)]
    /\ UNCHANGED <<nextId, mode, pc, opened, created>>

\* Every call has returned: the callers stop.
OWDone == \A o \in Opener : pc[o] \in {"ok", "err"}

OWNext ==
    \/ \E o \in Opener :
          \/ OpenRead(o)
          \/ Stat(o) \/ StatLookup(o)
          \/ TruncatePath(o)
          \/ Mismatched(o)
          \/ Exclusive(o)
          \/ LookupFirst(o)
          \/ CreateAfterLookup(o)
          \/ LookupCreated(o)
    \/ Unlink
    \/ OWDone /\ UNCHANGED owVars

OWSpec == OWInit /\ [][OWNext]_owVars

-----------------------------------------------------------------------------
(* An exclusive open (O_EXCL) during which no Unlink ran returns the     *)
(* file its own NewFile created.  Files get fresh identities, so two      *)
(* exclusive opens racing on one name both succeed without an unlink      *)
(* only with different files: between an opener's NewFile and its         *)
(* LookupFile no other caller can put a file at the path unless the file  *)
(* is removed first.  (With an unlink in between the run                  *)
(* open_exclusive_unlink shows another caller's file being returned.)     *)
ExclusiveOwnUnlessUnlinked ==
    \A o \in Opener :
        (mode[o] = "exclusive" /\ pc[o] = "ok" /\ ~unlinked[o])
            => opened[o] = created[o] /\ created[o] # 0

(* The stream an exclusive open returns is the file that call created,   *)
(* not a file another caller put at the path after an Unlink.            *)
ExclusiveOpensOwnFile ==
    \A o \in Opener : (mode[o] = "exclusive" /\ pc[o] = "ok") => opened[o] = created[o]

(* An open with create and without exclusive (O_CREAT) succeeds unless    *)
(* the file is unlinked during the call: it opens the file whoever        *)
(* created it.                                                            *)
CreateOpenSucceeds ==
    \A o \in Opener : (mode[o] = "create" /\ pc[o] = "err") => unlinked[o]

=============================================================================
