----------------------------- MODULE RequestLimit -----------------------------
(***************************************************************************)
(* gen3_embeddings.limits: the middleware that bounds a request's body     *)
(* before the application sees it, and the measurement of how deep the     *)
(* metadata in that body nest.  A body is a number of bytes that arrive in *)
(* pieces from a client that may leave at any moment.                      *)
(***************************************************************************)
EXTENDS Naturals, Sequences

CONSTANTS
    MaxBody,   \* MAX_REQUEST_BODY_BYTES
    MaxDepth,  \* MAX_METADATA_DEPTH
    MaxPiece,  \* bound: bytes of one message
    MaxSent,   \* bound: bytes of one body
    MaxWire,   \* messages the server buffers before it stops reading
    Documents, \* decoded JSON, a value being the set of the values it contains
    DepthOf,   \* how many levels each of them nests
    None,      \* no Content-Length
    Invalid    \* a Content-Length that is no number

ASSUME BoundsAssumption == {MaxBody, MaxDepth, MaxPiece, MaxSent, MaxWire} \subseteq Nat
ASSUME HeaderAssumption == None \notin Nat /\ Invalid \notin Nat

\* JSON is finite: a value nests one level more than the deepest value in it,
\* and a value with nothing in it nests none.
ASSUME DepthAssumption ==
    /\ DepthOf \in [Documents -> Nat]
    /\ \A v \in Documents :
          /\ v \subseteq Documents
          /\ \A w \in v : DepthOf[w] < DepthOf[v]
          /\ DepthOf[v] # 0 => \E w \in v : DepthOf[v] = DepthOf[w] + 1

VARIABLES
    pc,       \* of the middleware, then of the application
    declared, \* Content-Length: None, Invalid or a number
    sent,     \* bytes the client has sent
    client,   \* "sends", "finished" or "gone"
    wire,     \* messages on their way
    chunks,   \* bytes _read_capped holds
    body,     \* what the application has received
    whole,    \* the application takes its body to be complete
    status,
    doc,      \* the metadata in the body
    frontier, \* values of one level of it
    depth

vars == <<pc, declared, sent, client, wire, chunks, body, whole, status, doc, frontier, depth>>
fromClient == <<declared, sent, client>>
metadata == <<doc, frontier, depth>>

Piece(n, more) == [type |-> "http.request", size |-> n, more |-> more]
Disconnect == [type |-> "http.disconnect", size |-> 0, more |-> FALSE]

Limited(n) == n > MaxBody

-----------------------------------------------------------------------------
\* The client, which the server holds to the length it declared.
Send(n, more) ==
    /\ client = "sends" /\ pc \notin {"idle", "done"} /\ Len(wire) < MaxWire
    /\ sent + n <= MaxSent
    /\ declared \in Nat => sent + n <= declared /\ (~more => sent + n = declared)
    /\ sent' = sent + n
    /\ client' = IF more THEN "sends" ELSE "finished"
    /\ wire' = Append(wire, Piece(n, more))
    /\ UNCHANGED <<pc, declared, chunks, body, whole, status, metadata>>

Leave ==
    /\ client = "sends" /\ pc \notin {"idle", "done"}
    /\ client' = "gone"
    /\ wire' = Append(wire, Disconnect)
    /\ UNCHANGED <<pc, declared, sent, chunks, body, whole, status, metadata>>

Begin(length) ==
    /\ pc = "idle"
    /\ pc' = "header" /\ declared' = length
    /\ UNCHANGED <<sent, client, wire, chunks, body, whole, status, metadata>>

-----------------------------------------------------------------------------
Respond(s) == pc' = "done" /\ status' = s

\* __call__: a length that is announced is all there is to check.
CheckHeader ==
    /\ pc = "header"
    /\ IF declared = Invalid THEN Respond(400)
       ELSE IF declared = None THEN pc' = "capped" /\ UNCHANGED status
       ELSE IF Limited(declared) THEN Respond(413)
       ELSE pc' = "app" /\ UNCHANGED status
    /\ UNCHANGED <<fromClient, wire, chunks, body, whole, metadata>>

\* Seeded fault: the body is measured once it is read.
MeasuredAtTheEnd(total, more) == ~more /\ Limited(total)

\* The limit is exceeded as soon as the bytes so far exceed it.
Exceeded(total, more) == Limited(total)

\* Seeded fault: the body is read until an empty message.
UntilEmpty(msg) == msg.size > 0

\* The body goes on after this message.
Continues(msg) == msg.more

\* Seeded fault: the body ends where the client left.
UpToTheDisconnect(msg) == chunks + msg.size

\* What is left of the body when this message is the last one.
BodyAt(msg) == IF msg = Disconnect THEN 0 ELSE chunks + msg.size

\* _read_capped: one message.  A client that left counts as one without a body.
ReadCapped ==
    /\ pc = "capped" /\ wire # <<>>
    /\ wire' = Tail(wire)
    /\ LET msg == Head(wire)
       IN  IF Exceeded(chunks + msg.size, msg.more) THEN Respond(413) /\ chunks' = 0
           ELSE /\ UNCHANGED status
                /\ IF msg # Disconnect /\ Continues(msg)
                   THEN chunks' = chunks + msg.size /\ UNCHANGED pc
                   ELSE chunks' = BodyAt(msg) /\ pc' = "replay"
    /\ UNCHANGED <<fromClient, body, whole, metadata>>

\* _replay_body: the buffered body, once.
Replay ==
    /\ pc = "replay"
    /\ body' = chunks /\ whole' = TRUE /\ chunks' = 0
    /\ pc' = "handler"
    /\ UNCHANGED <<fromClient, wire, status, metadata>>

\* A body that was announced reaches the application piece by piece.
AppReceives ==
    /\ pc = "app" /\ wire # <<>>
    /\ wire' = Tail(wire)
    /\ LET msg == Head(wire)
       IN  IF msg = Disconnect THEN pc' = "done" /\ UNCHANGED <<body, whole>>
           ELSE /\ body' = body + msg.size /\ whole' = ~msg.more
                /\ pc' = IF msg.more THEN "app" ELSE "handler"
    /\ UNCHANGED <<fromClient, chunks, status, metadata>>

-----------------------------------------------------------------------------
\* validate_metadata measures the metadata of the body level by level.
Parse(v) ==
    /\ pc = "handler"
    /\ pc' = "measure"
    /\ doc' = v /\ frontier' = {v} /\ depth' = 0
    /\ UNCHANGED <<fromClient, wire, chunks, body, whole, status>>

\* Seeded fault: a level is counted before anything is known to be nested in it.
LevelAlways(values) == TRUE

\* There is a level below these values.
Nests(values) == UNION values # {}

TooDeep(d) == d > MaxDepth

\* metadata_depth: one round of its loop.
Level ==
    /\ pc = "measure"
    /\ IF Nests(frontier)
       THEN /\ depth' = depth + 1 /\ frontier' = UNION frontier
            /\ IF TooDeep(depth + 1) THEN Respond(422) ELSE UNCHANGED <<pc, status>>
       ELSE Respond(200) /\ UNCHANGED <<depth, frontier>>
    /\ UNCHANGED <<fromClient, wire, chunks, body, whole, doc>>

-----------------------------------------------------------------------------
Init ==
    /\ pc = "idle" /\ declared = None /\ sent = 0 /\ client = "sends" /\ wire = <<>>
    /\ chunks = 0 /\ body = 0 /\ whole = FALSE /\ status = 0
    /\ doc = {} /\ frontier = {} /\ depth = 0

Next ==
    \/ \E length \in {None, Invalid} \cup 0..MaxSent : Begin(length)
    \/ \E n \in 0..MaxPiece, more \in BOOLEAN : Send(n, more)
    \/ Leave
    \/ CheckHeader \/ ReadCapped \/ Replay \/ AppReceives
    \/ \E v \in Documents : Parse(v)
    \/ Level

Spec == Init /\ [][Next]_vars

\* The middleware reads what has arrived and the walk over the metadata goes on.
FairSpec == Spec /\ WF_vars(CheckHeader \/ ReadCapped \/ Replay \/ AppReceives \/ Level)
                 /\ WF_vars(\E v \in Documents : Parse(v))

-----------------------------------------------------------------------------
\* The application never takes in more than the limit, and the middleware never
\* holds more, whatever the client announces and however it cuts its body.
NothingAboveTheLimit == body <= MaxBody /\ chunks <= MaxBody

\* A 413 answers a body that is too large.  A body the application takes for
\* complete is the client's, every byte it sent and no more to come; or nothing
\* at all, of a client that announced no length and left before the end: no part
\* of a body ever passes for the whole.
BodiesAreTheClients ==
    /\ status = 413 => sent > MaxBody \/ (declared \in Nat /\ declared > MaxBody)
    /\ whole =>
          \/ client = "finished" /\ body = sent
          \/ client = "gone" /\ declared = None /\ body = 0

\* What the walk finds is how deep the metadata nest, one level past the limit at
\* the most, and it refuses exactly what nests deeper.
DepthIsExact ==
    pc = "done" /\ status \in {200, 422} =>
        /\ depth = IF DepthOf[doc] > MaxDepth THEN MaxDepth + 1 ELSE DepthOf[doc]
        /\ status = 422 <=> DepthOf[doc] > MaxDepth

\* A client that sends its body to the end, or leaves, is not waited for.
MiddlewareEnds == (pc # "idle" /\ client # "sends") ~> pc = "done"
=============================================================================
