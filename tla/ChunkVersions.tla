--------------------------- MODULE ChunkVersions ---------------------------
(***************************************************************************)
(* What the write path promises about the versions of one chunk (spec 8,  *)
(* property 1, and the Read contract of spec 4.3): the published version  *)
(* only grows, one write at a time; each replica shows readers a version  *)
(* that only grows and was published; LastConsumedVersion only grows,     *)
(* stays at most the published version, and is raised only to a version  *)
(* every replica already shows, so a Read at LastConsumedVersion          *)
(* succeeds on every replica.                                              *)
(***************************************************************************)
EXTENDS Naturals

CONSTANT Replica

VARIABLES
    published,  \* MostRecentVersion
    consumed,   \* LastConsumedVersion
    visible     \* visible[r]: the version replica r returns to readers

cvVars == <<published, consumed, visible>>

CVTypeOK ==
    /\ published \in Nat
    /\ consumed \in Nat
    /\ visible \in [Replica -> Nat]

\* The state New leaves: version 1 published, consumed and shown everywhere.
CVInit ==
    /\ published = 1
    /\ consumed = 1
    /\ visible = [r \in Replica |-> 1]

\* A write is published as the next version.
Publish ==
    /\ published' = published + 1
    /\ UNCHANGED <<consumed, visible>>

\* A replica starts showing a newer, published version.
Show(r, v) ==
    /\ visible[r] < v
    /\ v <= published
    /\ visible' = [visible EXCEPT ![r] = v]
    /\ UNCHANGED <<published, consumed>>

\* LastConsumedVersion moves up to a version every replica shows.
Consume(v) ==
    /\ consumed < v
    /\ v <= published
    /\ \A r \in Replica : visible[r] >= v
    /\ consumed' = v
    /\ UNCHANGED <<published, visible>>

CVNext ==
    \/ Publish
    \/ \E r \in Replica, v \in 1..published : Show(r, v)
    \/ \E v \in 1..published : Consume(v)

CVSpec == CVInit /\ [][CVNext]_cvVars

(* Every replica can serve a Read at LastConsumedVersion.                 *)
ConsumedReadable == \A r \in Replica : consumed <= visible[r]

=============================================================================
