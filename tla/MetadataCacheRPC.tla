-------------------------- MODULE MetadataCacheRPC --------------------------
(***************************************************************************)
(* One MetadataCache call through the RPC layer of src/unnamed/part_000:  *)
(* the server-side proxy (proxyMetadataCacheAsTwirp) turns the cache's    *)
(* (result, owner, err) into a twirp response, twirp carries either the   *)
(* response or the handler's error, and the client-side proxy             *)
(* (proxyTwirpAsMetadataCache) turns it back into (result, owner, err).   *)
(* Errors are reduced to their kind: err.Error() followed by errors.New   *)
(* keeps the text, hence the kind.                                        *)
(*                                                                         *)
(* The twirp client stub is generated code that is not in the repository: *)
(* older generators return an allocated empty result together with an     *)
(* error, newer ones return nil; NilOnError says which build is used.     *)
(***************************************************************************)
EXTENDS Naturals

CONSTANTS
    Owner,        \* metadata-cache names an entry can be redirected to
    NilOnError    \* the generated client returns a nil result on error

ASSUME NilOnErrorAssumption == NilOnError \in BOOLEAN

Op == {"NewEntry", "ReadEntry", "UpdateEntry", "DeleteEntry"}
NoOwner == ""                                   \* "I am the owner"
ErrKind == {"NotOwner", "StaleEntry", "NotFound", "Internal"}
NoErr == "nil"
Transport == "Transport"
\* A nil-pointer dereference in the client proxy, and "no call returned yet".
Panic == [owner |-> NoOwner, err |-> "panic"]
NoCall == [owner |-> NoOwner, err |-> "none"]

(* What the cache may return, by the MetadataCache contract (spec 4.2).   *)
CacheOutcome(op) ==
    CASE op = "NewEntry" ->
            [owner : {NoOwner}, err : {NoErr, "Internal"}]
      [] op = "ReadEntry" ->
            [owner : {NoOwner}, err : {NoErr, "NotFound"}]
            \cup [owner : Owner, err : {"NotOwner"}]
      [] OTHER ->
            [owner : {NoOwner}, err : {NoErr, "StaleEntry"}]
            \cup [owner : Owner, err : {"NotOwner"}]

\* A *Result message pointer: nil, or a message with Owner and OwnerErr.
Result == [nil : BOOLEAN, owner : {NoOwner} \cup Owner, ownerErr : ErrKind \cup {NoErr}]
NilResult == [nil |-> TRUE, owner |-> NoOwner, ownerErr |-> NoErr]
Msg(o, e) == [nil |-> FALSE, owner |-> o, ownerErr |-> e]

VARIABLES
    phase,   \* "idle", "served" (handler returned), "sent" (client stub returned)
    op,      \* the call in flight
    cache,   \* what the metadata cache returned
    handler, \* what the twirp handler returned: [res : Result, err]
    stub,    \* what the generated client returned: [res : Result, err]
    out      \* what the caller of the client proxy got, or Panic

rpcVars == <<phase, op, cache, handler, stub, out>>

Reply == [res : Result, err : ErrKind \cup {NoErr, Transport}]
Outcome == [owner : {NoOwner} \cup Owner, err : ErrKind \cup {NoErr, Transport}]

RPCTypeOK ==
    /\ phase \in {"idle", "served", "sent"}
    /\ op \in Op
    /\ handler \in Reply
    /\ stub \in Reply
    /\ out \in Outcome \cup {Panic, NoCall}

RPCInit ==
    /\ phase = "idle"
    /\ op = "NewEntry"
    /\ cache = [owner |-> NoOwner, err |-> NoErr]
    /\ handler = [res |-> NilResult, err |-> NoErr]
    /\ stub = [res |-> NilResult, err |-> NoErr]
    /\ out = NoCall

-----------------------------------------------------------------------------
(* Server side: the cache answers, the proxy builds the twirp response.   *)

\* NewEntry (part_000:29-37) and ReadEntry (39-57): an error without owner
\* is returned as the handler error; ReadEntry's redirect travels inside
\* the result.
ServeRead(c) ==
    IF c.err # NoErr /\ c.owner = NoOwner
    THEN [res |-> NilResult, err |-> c.err]
    ELSE IF c.err # NoErr
         THEN [res |-> Msg(c.owner, c.err), err |-> NoErr]
         ELSE [res |-> Msg(NoOwner, NoErr), err |-> NoErr]

\* UpdateEntry (59-78) and DeleteEntry (80-95): a redirect travels inside
\* the result; otherwise the result carries no owner and the error, if
\* any, is the handler error.
ServeUpdate(c) ==
    IF c.owner # NoOwner
    THEN [res |-> Msg(c.owner, c.err), err |-> NoErr]
    ELSE [res |-> Msg(NoOwner, NoErr), err |-> c.err]

Call(o, c) ==
    /\ phase = "idle"
    /\ c \in CacheOutcome(o)
    /\ phase' = "served"
    /\ op' = o
    /\ cache' = c
    /\ handler' = IF o \in {"NewEntry", "ReadEntry"} THEN ServeRead(c) ELSE ServeUpdate(c)
    /\ UNCHANGED <<stub, out>>

(* twirp: a handler error replaces the response; the client stub returns *)
(* the decoded response, or its error with a nil or an empty result.     *)
StubOnError(e) ==
    [res |-> IF NilOnError THEN NilResult ELSE Msg(NoOwner, NoErr),
     err |-> e]

Deliver ==
    /\ phase = "served"
    /\ phase' = "sent"
    /\ stub' = IF handler.err # NoErr THEN StubOnError(handler.err) ELSE handler
    /\ UNCHANGED <<op, cache, handler, out>>

\* The request or the response is lost or times out.
TransportFail ==
    /\ phase = "served"
    /\ phase' = "sent"
    /\ stub' = StubOnError(Transport)
    /\ UNCHANGED <<op, cache, handler, out>>

-----------------------------------------------------------------------------
(* Client side: proxyTwirpAsMetadataCache.                                *)

\* Mutant: ReadEntry without its `if err != nil` test.
DecodeReadNoErrCheck(r) ==
    IF r.res.owner # NoOwner THEN [owner |-> r.res.owner, err |-> r.res.ownerErr]
    ELSE [owner |-> NoOwner, err |-> NoErr]

\* NewEntry (101-107) and ReadEntry (109-124) test err before the result.
DecodeRead(r) ==
    IF r.err # NoErr THEN [owner |-> NoOwner, err |-> r.err]
    ELSE IF r.res.owner # NoOwner THEN [owner |-> r.res.owner, err |-> r.res.ownerErr]
    ELSE [owner |-> NoOwner, err |-> NoErr]

\* UpdateEntry (126-144) and DeleteEntry (146-159) read result.Owner
\* before looking at err: a nil result is dereferenced.
DecodeUpdate(r) ==
    IF r.res.nil THEN Panic
    ELSE IF r.res.owner # NoOwner THEN [owner |-> r.res.owner, err |-> r.res.ownerErr]
    ELSE [owner |-> r.res.owner, err |-> r.err]

Return ==
    /\ phase = "sent"
    /\ phase' = "idle"
    /\ out' = IF op \in {"NewEntry", "ReadEntry"} THEN DecodeRead(stub) ELSE DecodeUpdate(stub)
    /\ UNCHANGED <<op, cache, handler, stub>>

RPCNext ==
    \/ \E o \in Op, c \in UNION {CacheOutcome(x) : x \in Op} : Call(o, c)
    \/ Deliver
    \/ TransportFail
    \/ Return

RPCSpec == RPCInit /\ [][RPCNext]_rpcVars

-----------------------------------------------------------------------------
(* The caller of the client proxy sees what the metadata cache returned: *)
(* the same redirect owner and the same kind of error (NotOwner,          *)
(* StaleEntry, NotFound), or a transport error, and never a panic.  The   *)
(* client's retry policy (spec 7) depends on telling these apart.         *)
Faithful(o, c, res) ==
    \/ res = [owner |-> c.owner, err |-> c.err]
    \/ res = [owner |-> NoOwner, err |-> Transport]

OutcomePreserved ==
    (phase = "idle" /\ out # NoCall) => Faithful(op, cache, out)

=============================================================================
