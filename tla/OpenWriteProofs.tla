-------------------------- MODULE OpenWriteProofs ---------------------------
(***************************************************************************)
(* Proof that an exclusive OpenWrite during which no Unlink ran returns   *)
(* the file its own NewFile created, for any number of concurrent         *)
(* callers.  ExclusiveOwnUnlessUnlinked speaks only of returned calls, so  *)
(* it is not inductive.  OWInv adds what holds while a call is between    *)
(* its NewFile and its LookupFile (OwnFileAtPath): unless an Unlink ran   *)
(* since, the file at the path is the one the caller created.  No other   *)
(* caller can change that: every NewFile fails while a file exists, and   *)
(* only Unlink removes it, which marks every running call.  StatOnly says *)
(* that Stat's LookupFile, which reaches "ok" too, is only a Stat         *)
(* caller's; nextId stays positive so that a created file is never the    *)
(* "none" identity 0.                                                      *)
(***************************************************************************)
EXTENDS OpenWrite, TLAPS

OwnFileAtPath ==
    \A o \in Opener :
        pc[o] = "lookup" /\ ~unlinked[o] => file = created[o] /\ created[o] # 0

StatOnly == \A o \in Opener : pc[o] = "statLookup" => mode[o] = "stat"

\* A returned exclusive call went through "lookup": OpenRead, Stat,
\* Truncate and a first lookup are other modes' steps.
ExclusiveVia == \A o \in Opener : mode[o] = "exclusive" => pc[o] \in {"start", "lookup", "ok", "err"}

OWInv ==
    /\ OWTypeOK
    /\ nextId # 0
    /\ OwnFileAtPath
    /\ StatOnly
    /\ ExclusiveVia
    /\ ExclusiveOwnUnlessUnlinked

LEMMA OWInitInv == OWInit => OWInv
  BY DEF OWInit, OWInv, OWTypeOK, FileId, OwnFileAtPath, StatOnly, ExclusiveVia,
         ExclusiveOwnUnlessUnlinked

\* The step of one caller o.
LEMMA OWCallerInv ==
    ASSUME OWInv, NEW o \in Opener,
           \/ OpenRead(o) \/ Stat(o) \/ StatLookup(o) \/ TruncatePath(o)
           \/ Mismatched(o) \/ Exclusive(o) \/ LookupFirst(o)
           \/ CreateAfterLookup(o) \/ LookupCreated(o)
    PROVE  OWInv'
<1> USE DEF OWInv, OWTypeOK, FileId, OwnFileAtPath, StatOnly, ExclusiveVia,
            ExclusiveOwnUnlessUnlinked, Return, exists
<1>1. CASE OpenRead(o)
  BY <1>1 DEF OpenRead, LookupFile
<1>2. CASE Stat(o)
  BY <1>2 DEF Stat
<1>3. CASE StatLookup(o)
  BY <1>3 DEF StatLookup, LookupFile
<1>4. CASE TruncatePath(o)
  BY <1>4 DEF TruncatePath, LookupFile
<1>5. CASE Mismatched(o)
  BY <1>5 DEF Mismatched
<1>6. CASE Exclusive(o)
  BY <1>6 DEF Exclusive, NewFile
<1>7. CASE LookupFirst(o)
  BY <1>7 DEF LookupFirst, LookupFile
<1>8. CASE CreateAfterLookup(o)
  BY <1>8 DEF CreateAfterLookup, NewFile
<1>9. CASE LookupCreated(o)
  BY <1>9 DEF LookupCreated, LookupFile
<1>10. QED
  BY <1>1, <1>2, <1>3, <1>4, <1>5, <1>6, <1>7, <1>8, <1>9

\* Unlink marks every call between its directory calls, so it keeps
\* OwnFileAtPath although the file it removes was some caller's.
LEMMA OWUnlinkInv ==
    ASSUME OWInv, Unlink
    PROVE  OWInv'
  BY DEF Unlink, Running, OWInv, OWTypeOK, FileId, OwnFileAtPath, StatOnly,
         ExclusiveVia, ExclusiveOwnUnlessUnlinked

LEMMA OWNextInv == OWInv /\ [OWNext]_owVars => OWInv'
<1> SUFFICES ASSUME OWInv, [OWNext]_owVars PROVE OWInv'
  OBVIOUS
<1>1. CASE \E o \in Opener :
          \/ OpenRead(o) \/ Stat(o) \/ StatLookup(o) \/ TruncatePath(o)
          \/ Mismatched(o) \/ Exclusive(o) \/ LookupFirst(o)
          \/ CreateAfterLookup(o) \/ LookupCreated(o)
  BY <1>1, OWCallerInv
<1>2. CASE Unlink
  BY <1>2, OWUnlinkInv
<1>3. CASE UNCHANGED owVars
  BY <1>3 DEF owVars, OWInv, OWTypeOK, OwnFileAtPath, StatOnly, ExclusiveVia,
              ExclusiveOwnUnlessUnlinked
<1>4. QED
  BY <1>1, <1>2, <1>3 DEF OWNext

(* OWSpec => []ExclusiveOwnUnlessUnlinked: with any number of callers     *)
(* racing on one name, an exclusive OpenWrite during which no Unlink ran  *)
(* returns the file its own NewFile created, so two such opens never      *)
(* share a file.                                                          *)
THEOREM OWExclusiveOwnUnlessUnlinked == OWSpec => []ExclusiveOwnUnlessUnlinked
<1>1. OWInv => ExclusiveOwnUnlessUnlinked
  BY DEF OWInv
<1>2. QED
  BY <1>1, OWInitInv, OWNextInv, PTL DEF OWSpec

=============================================================================
