------------------------------ MODULE Inference ------------------------------
(***************************************************************************)
(* POST /v1/responses of gen3_inference: find the model at the primary     *)
(* repository or a trusted one, pick a protocol, call the upstream server  *)
(* and answer in one reply or in a stream of events.  All requests share   *)
(* one event loop, and the OpenAI client is synchronous: who waits for its *)
(* upstream holds the loop.  An upstream may fail or end at any point, and *)
(* a client may leave.  Conversions has the translation of single replies. *)
(***************************************************************************)
EXTENDS Conversions, Integers, Sequences, SequencesExt, FiniteSetsExt

CONSTANTS
    Requests,  \* the clients of one pod
    Primary,   \* the host of GEN3_AI_MODEL_REPO_URL
    Trusted,   \* ALLOWED_GEN3_INFERENCE_HOSTS, a sequence of hosts
    Keyed,     \* hosts with credentials in HOST_TO_CREDS
    Worlds,    \* per client, what repositories may say of the model: functions from hosts
    Replies,   \* per client, what an upstream may answer a call without a stream
    MaxChunks  \* bound: chunks of one upstream stream

ASSUME TrustedAssumption == Trusted \in Seq(Range(Trusted))

\* The lists of a reply: its items or choices, and the parts of an item.
ASSUME RepliesAssumption ==
    \A r \in Requests : \A x \in Replies[r] :
        /\ x.value \in Seq(Range(x.value))
        /\ x.kind = "openresponses" =>
              \A i \in DOMAIN x.value : x.value[i].parts \in Seq(Range(x.value[i].parts))

Protocols == {"openresponses", "openai_chat"}

\* The replies of a repository: no connection, a 404, another failure (whose
\* JSON describes no model, or that is no JSON), a 200 that says nothing, or a model.
Unreachable == [status |-> 0, url |-> None, protocols |-> {}]
Missing == [status |-> 404, url |-> None, protocols |-> {}]
Broken == [status |-> 500, url |-> None, protocols |-> {}]
Opaque == [status |-> 502, url |-> None, protocols |-> {}]
Empty == [status |-> 204, url |-> None, protocols |-> {}]
Model(url, protocols) == [status |-> 200, url |-> url, protocols |-> protocols]

\* A chunk of a chat stream: the content of its choice (None where the delta has
\* none), no choice at all, and whether it carries usage.
Chunk(content, usage) == [content |-> content, usage |-> usage]
ChatChunks == {Chunk("text", FALSE), Chunk("blank", FALSE), Chunk(None, FALSE), Chunk("no_choice", TRUE)}

\* An event of a Responses stream.
ResponsesChunks == {Chunk("delta", FALSE), Chunk("completed", FALSE), Chunk("failed", FALSE)}

VARIABLES
    pc,       \* request to where it is
    world, stream,
    at,       \* the repository asked: 0 the primary, else one of Trusted
    base,     \* base_url of the client, the model's
    protocol,
    sent,     \* chunks the upstream sent
    upstream, \* "open", "ended", "failed", or "abandoned" by the client
    usage,    \* usage_info of the generator
    text,     \* overall_content of the generator: each piece is named by its chunk
    out,      \* events the client was sent
    single,   \* what the upstream answered in one piece
    answer,   \* [status, body]: the body of an error is an "error" object or a "string"
    loop      \* who holds the event loop, or None

vars == <<pc, world, stream, at, base, protocol, sent, upstream, usage, text, out, single, answer, loop>>
found == <<world, stream, at, base, protocol>>
streamed == <<sent, upstream, usage, text, out>>

Hosts == {Primary} \cup Range(Trusted)
TrustedDomains == Range(Trusted)
Goto(r, state) == pc' = [pc EXCEPT ![r] = state]
End(r, status, body) ==
    /\ Goto(r, "over")
    /\ answer' = [answer EXCEPT ![r] = [status |-> status, body |-> body]]

-----------------------------------------------------------------------------
(* The lookup: asynchronous, so others run meanwhile.                       *)

Begin(r, w, s, named) ==
    /\ pc[r] = "idle"
    /\ world' = [world EXCEPT ![r] = w] /\ stream' = [stream EXCEPT ![r] = s]
    /\ IF named THEN Goto(r, "repository") /\ UNCHANGED answer
       ELSE End(r, 400, "error")
    /\ UNCHANGED <<at, base, protocol, streamed, single, loop>>

\* Seeded fault: the model's url is taken as it comes.
TrustAny(url) == TRUE

\* The domain of a url the model gives must be one of the trusted.
IsTrusted(url) == url \in TrustedDomains

\* get_inference_protocol_client: Open Responses where the model has it.
Choose(protocols) == IF "openresponses" \in protocols THEN "openresponses" ELSE "openai_chat"

\* A repository that has it: its own host, or the url it gives; response.json()
\* raises where there is none.
Found(r, host, reply) ==
    LET url == IF reply.url # None THEN reply.url ELSE host IN
    /\ IF reply = Opaque THEN End(r, 500, "error")
       ELSE IF reply = Empty THEN End(r, 400, "error")
       ELSE IF reply.url # None /\ ~IsTrusted(reply.url) THEN End(r, 500, "error")
       ELSE IF reply.protocols = {} THEN End(r, 400, "error")
       ELSE Goto(r, "call") /\ UNCHANGED answer
    /\ base' = [base EXCEPT ![r] = url]
    /\ protocol' = [protocol EXCEPT ![r] = Choose(reply.protocols)]
    /\ UNCHANGED at

\* Seeded fault: the loop over the trusted domains asks the first one again.
SameHost(i) == IF i = 0 THEN 1 ELSE i

\* for domain in trusted_domains
NextHost(i) == i + 1

Ask(r) ==
    LET host == IF at[r] = 0 THEN Primary ELSE Trusted[at[r]]
        reply == world[r][host]
        here == IF at[r] = 0 THEN reply # Missing ELSE reply.status \in {200, 204}
    IN
    /\ pc[r] = "repository"
    /\ IF reply = Unreachable THEN End(r, 500, "error") /\ UNCHANGED <<at, base, protocol>>
       ELSE IF here THEN Found(r, host, reply)
       ELSE /\ at' = [at EXCEPT ![r] = NextHost(at[r])]
            /\ UNCHANGED <<base, protocol>>
            /\ IF at[r] = Len(Trusted) THEN End(r, 404, "error")
               ELSE UNCHANGED <<pc, answer>>
    /\ UNCHANGED <<world, stream, streamed, single, loop>>

-----------------------------------------------------------------------------
(* The call: the client blocks the loop until it returns.                   *)

\* OpenAI() raises where no key is known, unless the environment has one.
Call(r) ==
    /\ pc[r] = "call" /\ loop = None
    /\ \/ Goto(r, "calling") /\ loop' = r /\ UNCHANGED answer
       \/ base[r] \notin Keyed /\ End(r, 500, "error") /\ UNCHANGED loop
    /\ UNCHANGED <<found, streamed, single>>

\* create() returns or raises; only the single reply translates what it raises,
\* and nobody what its conversion raises.
CallReturns(r) ==
    /\ pc[r] = "calling"
    /\ loop' = None
    /\ \/ /\ stream[r] /\ UNCHANGED single
          /\ \/ Goto(r, IF protocol[r] = "openai_chat" THEN "opening" ELSE "next") /\ UNCHANGED answer
             \/ End(r, 500, "error")
       \/ ~stream[r] /\ UNCHANGED single /\ (End(r, 404, "error") \/ End(r, 503, "string"))
       \/ ~stream[r] /\ \E x \in Replies[r] :
             /\ x.kind = protocol[r]
             /\ single' = [single EXCEPT ![r] = x]
             /\ IF Convert(x) = Raised THEN End(r, 500, "error") ELSE End(r, 200, Convert(x))
    /\ UNCHANGED <<found, streamed>>

-----------------------------------------------------------------------------
(* The stream: an event is what the client is sent between two reads.       *)

Event(type, seq, t, u) == [type |-> type, seq |-> seq, text |-> t, usage |-> u]
Plain(r, type) == Event(type, Len(out[r]), <<>>, None)
Emit(r, event) == out' = [out EXCEPT ![r] = Append(@, event)]
Done == Event("[DONE]", 0, <<>>, None)

\* What the content of a chunk, the i-th, adds to the text.
Piece(c, i) == IF c.content = "text" THEN <<i>> ELSE <<>>

Opening(r) ==
    /\ pc[r] = "opening" /\ loop = None
    /\ Emit(r, Plain(r, IF out[r] = <<>> THEN "response.output_item.added" ELSE "response.content_part.added"))
    /\ Goto(r, IF out[r] = <<>> THEN "opening" ELSE "next")
    /\ UNCHANGED <<found, sent, upstream, usage, text, single, answer, loop>>

\* next() of the synchronous iterator.
Read(r) ==
    /\ pc[r] = "next" /\ loop = None
    /\ Goto(r, "reading") /\ loop' = r
    /\ UNCHANGED <<found, streamed, single, answer>>

\* ChatCompletionChunk keeps finish_reason in its choices: it has none itself.
FinishReason(c) == None

UsageInfo(r, c) == IF FinishReason(c) # None /\ c.usage THEN "usage" ELSE usage[r]

Number(r, c) == Len(out[r])

\* One delta for the choice; adding None to the text raises after the event.
ChatChunk(r, c) ==
    /\ protocol[r] = "openai_chat"
    /\ usage' = [usage EXCEPT ![r] = UsageInfo(r, c)]
    /\ IF c.content = "no_choice" THEN UNCHANGED out
       ELSE Emit(r, Event("response.output_text.delta", Number(r, c), Piece(c, Len(sent[r]) + 1), None))
    /\ text' = [text EXCEPT ![r] = @ \o Piece(c, Len(sent[r]) + 1)]
    /\ Goto(r, IF c.content = None THEN "over" ELSE "next")

\* Every event as it comes.
ResponsesChunk(r, c) ==
    /\ protocol[r] = "openresponses"
    /\ Emit(r, Plain(r, c.content))
    /\ Goto(r, "next")
    /\ UNCHANGED <<usage, text>>

ChunkArrives(r) ==
    /\ pc[r] = "reading" /\ Len(sent[r]) < MaxChunks
    /\ loop' = None
    /\ \E c \in IF protocol[r] = "openai_chat" THEN ChatChunks ELSE ResponsesChunks :
          /\ sent' = [sent EXCEPT ![r] = Append(@, c)]
          /\ ChatChunk(r, c) \/ ResponsesChunk(r, c)
    /\ UNCHANGED <<found, upstream, single, answer>>

UpstreamEnds(r) ==
    /\ pc[r] = "reading"
    /\ loop' = None
    /\ upstream' = [upstream EXCEPT ![r] = "ended"]
    /\ IF protocol[r] = "openai_chat" THEN Goto(r, "closing") /\ UNCHANGED out
       ELSE Goto(r, "over") /\ Emit(r, Done)
    /\ UNCHANGED <<found, sent, usage, text, single, answer>>

\* Seeded fault: the closing events are sent in a finally.
ClosedAnyway(r) == IF protocol[r] = "openai_chat" THEN "closing" ELSE "over"

\* Seeded fault: a read that failed is tried again.
ReadAgain(r) == "next"

\* What follows an upstream that raises: nothing, the generator ends with it.
AfterFailure(r) == "over"

UpstreamFails(r) ==
    /\ pc[r] = "reading"
    /\ loop' = None
    /\ upstream' = [upstream EXCEPT ![r] = "failed"]
    /\ Goto(r, AfterFailure(r))
    /\ UNCHANGED <<found, sent, usage, text, out, single, answer>>

\* The text and its usage, the end of the item, and the end of the stream.
Closing(r) ==
    LET last == Last(out[r]).type IN
    /\ pc[r] = "closing" /\ loop = None
    /\ IF last = "response.output_text.done" THEN
            Emit(r, Plain(r, "response.output_item.done")) /\ UNCHANGED pc
       ELSE IF last = "response.output_item.done" THEN Emit(r, Done) /\ Goto(r, "over")
       ELSE /\ Emit(r, Event("response.output_text.done", Len(out[r]), text[r], usage[r]))
            /\ UNCHANGED pc
    /\ UNCHANGED <<found, sent, upstream, usage, text, single, answer, loop>>

\* Noticed where the stream yields, never while the loop is held.
ClientLeaves(r) ==
    /\ pc[r] \in {"opening", "next", "closing"} /\ loop = None
    /\ upstream' = [upstream EXCEPT ![r] = "abandoned"]
    /\ Goto(r, "over")
    /\ UNCHANGED <<found, sent, usage, text, out, single, answer, loop>>

-----------------------------------------------------------------------------
Init ==
    /\ pc = [r \in Requests |-> "idle"] /\ loop = None
    /\ world = [r \in Requests |-> None] /\ stream = [r \in Requests |-> FALSE]
    /\ at = [r \in Requests |-> 0]
    /\ base = [r \in Requests |-> None] /\ protocol = [r \in Requests |-> None]
    /\ sent = [r \in Requests |-> <<>>] /\ upstream = [r \in Requests |-> "open"]
    /\ usage = [r \in Requests |-> None] /\ text = [r \in Requests |-> <<>>] /\ out = [r \in Requests |-> <<>>]
    /\ single = [r \in Requests |-> None]
    /\ answer = [r \in Requests |-> [status |-> 200, body |-> None]]

Upstream(r) == CallReturns(r) \/ ChunkArrives(r) \/ UpstreamEnds(r) \/ UpstreamFails(r)
Handler(r) == Ask(r) \/ Call(r) \/ Opening(r) \/ Read(r) \/ Closing(r)

Next == \E r \in Requests :
    \/ \E w \in Worlds[r], s, named \in BOOLEAN : Begin(r, w, s, named)
    \/ Handler(r) \/ Upstream(r) \/ ClientLeaves(r)

\* The loop is fair to its tasks, and the timeouts of httpx and of the OpenAI
\* client end every wait; nobody has to send a request or to leave.
Fairness == \A r \in Requests : WF_vars(Handler(r)) /\ WF_vars(Upstream(r))

Spec == Init /\ [][Next]_vars /\ Fairness

-----------------------------------------------------------------------------
Types(r) == {out[r][i].type : i \in DOMAIN out[r]}
Over(r) == pc[r] = "over"
Chat(r) == protocol[r] = "openai_chat" /\ stream[r]

WithChoice(chunks) == {k \in DOMAIN chunks : chunks[k].content # "no_choice"}
Deltas(events) == {i \in DOMAIN events : events[i].type = "response.output_text.delta"}

Increasing(f) == \A i, j \in DOMAIN f : i < j => f[i] < f[j]

\* One delta for each choice, in their order, with its content; no other event
\* but the last of the text has a text.
DeltasAreTheChoices(events, chunks) ==
    /\ \E f \in [WithChoice(chunks) -> Deltas(events)] :
          /\ Increasing(f)
          /\ \A i \in Deltas(events) : \E k \in WithChoice(chunks) : f[k] = i
          /\ \A k \in WithChoice(chunks) : events[f[k]].text = Piece(chunks[k], k)
    /\ \A i \in DOMAIN events \ Deltas(events) :
          events[i].text # <<>> => events[i].type = "response.output_text.done"

\* A text that has every piece of the chunks, once and in their order.
IsWholeText(t, chunks) ==
    /\ Increasing(t)
    /\ Range(t) = {k \in DOMAIN chunks : chunks[k].content = "text"}

\* A stream says that it is complete exactly if its upstream ended in order, and
\* then it is: one delta per content the upstream sent, numbered without a gap,
\* and the whole text.  A failure never passes for a shorter answer.
DoneIsWhole ==
    \A r \in Requests :
        /\ "[DONE]" \in Types(r) <=> Over(r) /\ upstream[r] = "ended"
        /\ "[DONE]" \in Types(r) =>
           LET n == Len(out[r]) IN
           /\ out[r][n] = Done
           /\ Chat(r) =>
                 /\ \A i \in 1..(n - 1) : out[r][i].seq = i - 1
                 /\ DeltasAreTheChoices(out[r], sent[r])
                 /\ out[r][n - 2].type = "response.output_text.done" /\ IsWholeText(out[r][n - 2].text, sent[r])
           /\ ~Chat(r) => [i \in DOMAIN sent[r] |-> sent[r][i].content] = [i \in 1..(n - 1) |-> out[r][i].type]

\* Requests go only to a server of the primary or of a trusted domain, with the
\* first protocol of those the model has, and the model is the one of the first
\* repository in order that has it.
FirstTrustedHostServes ==
    \A r \in Requests : pc[r] \notin {"idle", "repository", "over"} =>
        LET host == IF at[r] = 0 THEN Primary ELSE Trusted[at[r]] IN
        /\ base[r] \in Hosts
        /\ base[r] = host \/ (base[r] = world[r][host].url /\ base[r] \in TrustedDomains)
        /\ protocol[r] = "openai_chat" => "openresponses" \notin world[r][host].protocols
        /\ at[r] > 0 => world[r][Primary] = Missing
        /\ \A i \in 1..(at[r] - 1) : world[r][Trusted[i]].status \notin {200, 204}

\* Every request ends, although one that waits holds up all others.
EveryRequestEnds == \A r \in Requests : pc[r] # "idle" ~> Over(r)

\* Where a text stands in an item of a reply.
Said(item) == {i \in DOMAIN item.parts :
                 item.type = "reasoning" \/ (item.type = "message" /\ item.parts[i].type = "output_text")}

Answered(r, kind) == Over(r) /\ ~stream[r] /\ answer[r].status = 200 /\ single[r].kind = kind

\* Nothing that is answered is lost, repeated or moved: the items the protocol
\* knows are there, in order, with their texts, and nothing else is.
OutputsAreTheReply ==
    \A r \in Requests : Answered(r, "openresponses") =>
        LET output == answer[r].body.output
            value == single[r].value
        IN  \E f \in [DOMAIN output -> DOMAIN value] :
                /\ \A i, j \in DOMAIN output : i < j => f[i] < f[j]
                /\ \A k \in DOMAIN value : Known(value[k]) => k \in {f[i] : i \in DOMAIN output}
                /\ \A i \in DOMAIN output :
                      LET item == value[f[i]] IN
                      /\ output[i].type = item.type
                      /\ output[i].id \in {item.id, item.call_id}
                      /\ output[i].type \in {"message", "reasoning"} =>
                            /\ Len(output[i].parts) = Cardinality(Said(item))
                            /\ \A p \in Said(item) : item.parts[p].text \in Range(Texts(output[i].parts))

\* A chat completion turned into a response and back says the same: the texts of
\* its choices in order, a missing one as the empty text.
RoundTripKeepsText ==
    \A r \in Requests : Answered(r, "openai_chat") =>
        LET value == single[r].value
            chat == ToChat(answer[r].body.output)
        IN  /\ Len(chat.content) = Len(value)
            /\ \A i \in DOMAIN value :
                  chat.content[i] = (IF value[i].content = None THEN "" ELSE value[i].content)

-----------------------------------------------------------------------------
(* What the documents say and the code does not do; README, "Deviations".   *)

\* openai_chat_to_openresponses.py:144: "Open Responses mandates these events",
\* which end with the done of the text and of the item.  So a stream whose
\* upstream does not fail, for a client that stays, has them.
MandatedEventsSent ==
    \A r \in Requests :
        Over(r) /\ out[r] # <<>> /\ Chat(r) /\ upstream[r] \in {"open", "ended"} =>
            {"response.output_text.done", "response.output_item.done"} \subseteq Types(r)

\* openai_chat_to_openresponses.py:153: "include_usage (bool): Whether to include
\* usage information in the final chunk"; the caller passes True.
UsageIsIncluded ==
    \A r \in Requests : "response.output_text.done" \in Types(r)
                        /\ (\E i \in DOMAIN sent[r] : sent[r][i].usage) =>
        \E i \in DOMAIN out[r] : out[r][i].type = "response.output_text.done" /\ out[r][i].usage # None

\* main.py:98: "override default exception handling to match expected error format
\* described by the Open Responses specification".
ErrorsHaveTheFormat ==
    \A r \in Requests : answer[r].status >= 400 => answer[r].body = "error"

\* responses.py:213: "check if model is available at any of the configured trusted
\* domains".  So a model that one of them has is found there.
AnyTrustedDomainIsAsked ==
    \A r \in Requests : Over(r) /\ world[r][Primary] = Missing
                        /\ (\E i \in DOMAIN Trusted : world[r][Trusted[i]].status = 200) =>
        base[r] # None

\* README.md:3 of gen3_inference: "API is compliant with Open Responses", where a
\* call and its output are tied by call_id and two calls are told apart by it.
CallsKeepTheirIds ==
    \A r \in Requests : Answered(r, "openresponses") =>
        LET output == answer[r].body.output
            calls == {i \in DOMAIN output : output[i].type = "function_call"}
        IN  \A i, j \in calls : output[i].id # output[j].id => output[i].call_id # output[j].call_id

\* openai_chat_to_openresponses.py:344 and :351: "-1 to indicate unknown".  So a
\* detail that is known is kept, one that is not is -1, and neither is an error.
UnknownUsageIsMinusOne ==
    \A r \in Requests : single[r] # None /\ single[r].usage # None =>
        /\ answer[r].status = 200
        /\ answer[r].body.usage =
              [cached |-> IF single[r].usage.prompt = None THEN -1 ELSE single[r].usage.prompt,
               reasoning |-> IF single[r].usage.completion = None THEN -1 ELSE single[r].usage.completion]

\* openresponses_to_chatcompletion.py:30: "If multiple function calls are present
\* they are collapsed into a single tool_calls array."
CallsAreCollapsed ==
    \A r \in Requests : Answered(r, "openresponses") =>
        LET output == answer[r].body.output IN
        ToChat(output) # Raised =>
            Len(ToChat(output).calls) = Len(SelectSeq(output, LAMBDA item : item.type = "function_call"))
=============================================================================
