----------------------- MODULE MetadataCacheRPCProofs -----------------------
(***************************************************************************)
(* Proof that a MetadataCache call through the twirp proxies returns what *)
(* the cache returned, or a transport error, when the generated client    *)
(* returns an empty result with an error (NilOnError = FALSE; with a nil  *)
(* result the client proxy's UpdateEntry and DeleteEntry dereference nil, *)
(* which the run rpc_nil_result shows).                                    *)
(*                                                                         *)
(* OutcomePreserved speaks only of the state after Return, so it is not   *)
(* inductive: RInv adds what the earlier phases hold.  Once served, the   *)
(* handler's response is what the server proxy builds from the cache's    *)
(* answer; once sent, the stub returned that response decoded by twirp,   *)
(* or a transport error.  The lemma RoundTrip then says that decoding     *)
(* either gives back the cache's answer, for every answer the cache may   *)
(* give.                                                                   *)
(***************************************************************************)
EXTENDS MetadataCacheRPC, TLAPS

\* The server proxy's response for call o when the cache answered c.
Served(o, c) == IF o \in {"NewEntry", "ReadEntry"} THEN ServeRead(c) ELSE ServeUpdate(c)

\* What the generated client returns when twirp delivers response h.
Delivered(h) == IF h.err # NoErr THEN StubOnError(h.err) ELSE h

\* The client proxy's decoding of the stub's return r for call o.
Decoded(o, r) == IF o \in {"NewEntry", "ReadEntry"} THEN DecodeRead(r) ELSE DecodeUpdate(r)

InFlight ==
    phase \in {"served", "sent"} =>
        /\ cache \in CacheOutcome(op)
        /\ handler = Served(op, cache)

StubReturned ==
    phase = "sent" => stub \in {Delivered(handler), StubOnError(Transport)}

RInv ==
    /\ phase \in {"idle", "served", "sent"}
    /\ op \in Op
    /\ InFlight
    /\ StubReturned
    /\ OutcomePreserved

\* With an empty result on error, a transport failure reaches the caller
\* as a transport error, for every call.
LEMMA TransportFaithful ==
    ASSUME ~NilOnError, NEW o \in Op, NEW c
    PROVE  Faithful(o, c, Decoded(o, StubOnError(Transport)))
  BY DEF Faithful, Decoded, DecodeRead, DecodeUpdate, StubOnError, Msg,
         Transport, NoErr, NoOwner, Op

\* NewEntry and ReadEntry: ServeRead then DecodeRead give the answer back.
LEMMA ReadRoundTrip ==
    ASSUME ~NilOnError, NEW o \in {"NewEntry", "ReadEntry"}, NEW c \in CacheOutcome(o)
    PROVE  Faithful(o, c, Decoded(o, Delivered(Served(o, c))))
<1>1. c.err # NoErr /\ c.owner = NoOwner
        => Faithful(o, c, Decoded(o, Delivered(Served(o, c))))
  BY DEF Faithful, Decoded, Delivered, Served, ServeRead, DecodeRead,
         StubOnError, Msg, NilResult, NoErr, NoOwner
<1>2. c.owner # NoOwner
        => Faithful(o, c, Decoded(o, Delivered(Served(o, c))))
  BY DEF CacheOutcome, Faithful, Decoded, Delivered, Served, ServeRead,
         DecodeRead, Msg, NoErr, NoOwner, ErrKind
<1>3. c.err = NoErr /\ c.owner = NoOwner
        => Faithful(o, c, Decoded(o, Delivered(Served(o, c))))
  BY DEF CacheOutcome, Faithful, Decoded, Delivered, Served, ServeRead,
         DecodeRead, Msg, NoErr, NoOwner
<1>4. QED
  BY <1>1, <1>2, <1>3

\* UpdateEntry and DeleteEntry: ServeUpdate then DecodeUpdate give the
\* answer back, as long as the stub never returns a nil result.
LEMMA UpdateRoundTrip ==
    ASSUME ~NilOnError, NEW o \in {"UpdateEntry", "DeleteEntry"}, NEW c \in CacheOutcome(o)
    PROVE  Faithful(o, c, Decoded(o, Delivered(Served(o, c))))
<1>1. c.owner # NoOwner
        => Faithful(o, c, Decoded(o, Delivered(Served(o, c))))
  BY DEF CacheOutcome, Faithful, Decoded, Delivered, Served, ServeUpdate,
         DecodeUpdate, Msg, NoErr, NoOwner, ErrKind
<1>2. c.owner = NoOwner
        => Faithful(o, c, Decoded(o, Delivered(Served(o, c))))
  BY DEF CacheOutcome, Faithful, Decoded, Delivered, Served, ServeUpdate,
         DecodeUpdate, StubOnError, Msg, NoErr, NoOwner
<1>3. QED
  BY <1>1, <1>2

LEMMA RInitInv == RPCInit => RInv
  BY DEF RPCInit, RInv, Op, InFlight, StubReturned, OutcomePreserved

\* The caller's outcome after Return, from the invariant of the sent phase.
LEMMA ReturnFaithful ==
    ASSUME ~NilOnError, RInv, phase = "sent"
    PROVE  Faithful(op, cache, Decoded(op, stub))
<1>1. /\ cache \in CacheOutcome(op)
      /\ stub \in {Delivered(Served(op, cache)), StubOnError(Transport)}
  BY DEF RInv, InFlight, StubReturned
<1>2. CASE stub = StubOnError(Transport)
  BY <1>2, TransportFaithful DEF RInv
<1>3. CASE stub = Delivered(Served(op, cache)) /\ op \in {"NewEntry", "ReadEntry"}
  BY <1>1, <1>3, ReadRoundTrip
<1>4. CASE stub = Delivered(Served(op, cache)) /\ op \in {"UpdateEntry", "DeleteEntry"}
  BY <1>1, <1>4, UpdateRoundTrip
<1>5. QED
  BY <1>1, <1>2, <1>3, <1>4 DEF RInv, Op

LEMMA RNextInv ==
    ASSUME ~NilOnError, RInv, [RPCNext]_rpcVars
    PROVE  RInv'
<1>1. ASSUME NEW o \in Op, NEW c, Call(o, c)
      PROVE  RInv'
  BY <1>1 DEF Call, RInv, InFlight, StubReturned, OutcomePreserved, Served
<1>2. CASE Deliver
  BY <1>2 DEF Deliver, RInv, InFlight, StubReturned, OutcomePreserved, Delivered
<1>3. CASE TransportFail
  BY <1>3 DEF TransportFail, RInv, InFlight, StubReturned, OutcomePreserved
<1>4. CASE Return
  <2>1. Faithful(op, cache, Decoded(op, stub))
    BY <1>4, ReturnFaithful DEF Return
  <2>2. out' = Decoded(op, stub) /\ UNCHANGED <<op, cache>> /\ phase' = "idle"
    BY <1>4 DEF Return, Decoded
  <2>3. QED
    BY <2>1, <2>2 DEF RInv, InFlight, StubReturned, OutcomePreserved
<1>5. CASE UNCHANGED rpcVars
  BY <1>5 DEF rpcVars, RInv, InFlight, StubReturned, OutcomePreserved
<1>6. QED
  BY <1>1, <1>2, <1>3, <1>4, <1>5 DEF RPCNext

(* With a generated client that returns an empty result on error, every  *)
(* call through proxyMetadataCacheAsTwirp and proxyTwirpAsMetadataCache   *)
(* returns to its caller the owner and the error kind the metadata cache  *)
(* returned, or a transport error; it never panics.                       *)
THEOREM RPCOutcomePreserved ==
    ASSUME ~NilOnError
    PROVE  RPCSpec => []OutcomePreserved
<1>1. RInv => OutcomePreserved
  BY DEF RInv
<1>2. RInv /\ [RPCNext]_rpcVars => RInv'
  BY RNextInv
<1>3. QED
  BY <1>1, <1>2, RInitInv, PTL DEF RPCSpec

=============================================================================
