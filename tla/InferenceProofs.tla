--------------------------- MODULE InferenceProofs ---------------------------
(***************************************************************************)
(* Proofs about Inference for any number of requests and trusted hosts,    *)
(* any worlds and streams of any length.                                   *)
(***************************************************************************)
EXTENDS Inference, FiniteSetTheorems, WellFoundedInduction, TLAPS

-----------------------------------------------------------------------------
(* The lookup.                                                              *)

States == {"idle", "repository", "call", "calling", "opening", "next", "reading", "closing",
           "over"}

HostOf(r) == IF at[r] = 0 THEN Primary ELSE Trusted[at[r]]

\* Every repository asked before this one had no model.
AskedInOrder(r) ==
    /\ at[r] \in 0..Len(Trusted)
    /\ at[r] > 0 => world[r][Primary] = Missing
    /\ \A i \in 1..(at[r] - 1) : world[r][Trusted[i]].status \notin {200, 204}

\* What the lookup settled for a request that is past it.
Served(r) ==
    /\ base[r] \in Hosts
    /\ base[r] = HostOf(r) \/ (base[r] = world[r][HostOf(r)].url /\ base[r] \in TrustedDomains)
    /\ protocol[r] = "openai_chat" => "openresponses" \notin world[r][HostOf(r)].protocols
    /\ AskedInOrder(r)

\* The fields of the lookup are functions of the requests.
LookupShape ==
    /\ pc \in [Requests -> States]
    /\ at \in [Requests -> Nat]
    /\ world = [r \in Requests |-> world[r]]
    /\ base = [r \in Requests |-> base[r]]
    /\ protocol = [r \in Requests |-> protocol[r]]

LookupInv ==
    /\ LookupShape
    /\ \A r \in Requests :
          /\ pc[r] = "idle" => at[r] = 0
          /\ pc[r] = "repository" => AskedInOrder(r)
          /\ pc[r] \notin {"idle", "repository", "over"} => Served(r)

\* What a step leaves of the lookup of a request.
SameLookup(r) ==
    world'[r] = world[r] /\ at'[r] = at[r] /\ base'[r] = base[r] /\ protocol'[r] = protocol[r]

\* A step past the lookup of r settles nothing anew.
LEMMA PastLookup ==
    ASSUME LookupInv, NEW r \in Requests, pc[r] \notin {"idle", "repository"},
           UNCHANGED found, NEW s \in States \ {"idle", "repository"},
           pc' = [pc EXCEPT ![r] = s],
           pc[r] = "over" => s = "over"
    PROVE  LookupInv'
  <1>1. /\ world' = world /\ at' = at /\ base' = base /\ protocol' = protocol
    BY DEF found
  <1>2. LookupShape'
    BY <1>1 DEF LookupInv, LookupShape, States
  <1>3. \A q \in Requests : q # r => pc'[q] = pc[q]
    BY DEF LookupInv, LookupShape
  <1>4. pc'[r] = s
    BY DEF LookupInv, LookupShape
  <1>5. \A q \in Requests : (AskedInOrder(q) => AskedInOrder(q)') /\ (Served(q) => Served(q)')
    BY <1>1 DEF AskedInOrder, Served, HostOf
  <1> QED
    BY <1>1, <1>2, <1>3, <1>4, <1>5 DEF LookupInv

LEMMA BeginLookup ==
    ASSUME LookupInv, NEW r \in Requests, NEW w, NEW s, NEW named, Begin(r, w, s, named)
    PROVE  LookupInv'
  <1>1. /\ pc[r] = "idle" /\ world' = [world EXCEPT ![r] = w]
        /\ at' = at /\ base' = base /\ protocol' = protocol
        /\ pc' = [pc EXCEPT ![r] = "repository"] \/ pc' = [pc EXCEPT ![r] = "over"]
    BY DEF Begin, Goto, End
  <1>2. LookupShape'
    BY <1>1 DEF LookupInv, LookupShape, States
  <1>3. \A q \in Requests : q # r => pc'[q] = pc[q] /\ SameLookup(q)
    BY <1>1 DEF LookupInv, LookupShape, SameLookup
  <1>4. \A q \in Requests : q # r /\ AskedInOrder(q) => AskedInOrder(q)'
    BY <1>3 DEF AskedInOrder, SameLookup
  <1>5. \A q \in Requests : q # r /\ Served(q) => Served(q)'
    BY <1>3, <1>4 DEF Served, SameLookup, HostOf
  <1>6. pc'[r] \in {"repository", "over"} /\ at'[r] = 0
    BY <1>1 DEF LookupInv, LookupShape
  <1>7. AskedInOrder(r)'
    BY <1>6, TrustedAssumption DEF AskedInOrder
  <1> QED
    BY <1>2, <1>3, <1>4, <1>5, <1>6, <1>7 DEF LookupInv, SameLookup

\* The repository that has it, asked in its turn.
LEMMA FoundServes ==
    ASSUME LookupInv, NEW r \in Requests, AskedInOrder(r), world' = world,
           Found(r, HostOf(r), world[r][HostOf(r)]), pc'[r] \notin {"idle", "repository", "over"}
    PROVE  Served(r)'
  <1> DEFINE reply == world[r][HostOf(r)]
             url == IF reply.url # None THEN reply.url ELSE HostOf(r)
  <1>1. /\ base' = [base EXCEPT ![r] = url]
        /\ protocol' = [protocol EXCEPT ![r] = Choose(reply.protocols)]
        /\ at' = at
    BY DEF Found
  <1>2. ~(reply.url # None /\ ~IsTrusted(reply.url))
    BY DEF Found, End, Goto, LookupInv, LookupShape
  <1>3. base'[r] = url /\ protocol'[r] = Choose(reply.protocols)
    BY <1>1 DEF LookupInv, LookupShape
  <1>4. HostOf(r) \in Hosts
    BY TrustedAssumption DEF AskedInOrder, HostOf, Hosts, Range
  <1>5. base'[r] \in Hosts
    BY <1>2, <1>3, <1>4 DEF IsTrusted, TrustedDomains, Hosts
  <1>6. base'[r] = HostOf(r) \/ (base'[r] = reply.url /\ base'[r] \in TrustedDomains)
    BY <1>2, <1>3 DEF IsTrusted
  <1>7. protocol'[r] = "openai_chat" => "openresponses" \notin reply.protocols
    BY <1>3 DEF Choose
  <1>8. HostOf(r)' = HostOf(r) /\ world'[r][HostOf(r)] = reply /\ AskedInOrder(r)'
    BY <1>1 DEF HostOf, AskedInOrder
  <1> QED
    BY <1>5, <1>6, <1>7, <1>8 DEF Served, Hosts, TrustedDomains

\* A step of the lookup of r: it stays true of r, and of the others.
LEMMA OneLookup ==
    ASSUME LookupInv, NEW r \in Requests, LookupShape',
           \A q \in Requests : q # r => pc'[q] = pc[q] /\ SameLookup(q),
           pc'[r] # "idle",
           pc'[r] = "repository" => AskedInOrder(r)',
           pc'[r] \notin {"idle", "repository", "over"} => Served(r)'
    PROVE  LookupInv'
  <1>1. \A q \in Requests : q # r /\ AskedInOrder(q) => AskedInOrder(q)'
    BY DEF AskedInOrder, SameLookup
  <1>2. \A q \in Requests : q # r /\ Served(q) => Served(q)'
    BY <1>1 DEF Served, SameLookup, HostOf
  <1> QED
    BY <1>1, <1>2 DEF LookupInv, SameLookup

LEMMA AskLookup ==
    ASSUME LookupInv, NEW r \in Requests, Ask(r)
    PROVE  LookupInv'
  <1> DEFINE host == HostOf(r)
             reply == world[r][host]
             here == IF at[r] = 0 THEN reply # Missing ELSE reply.status \in {200, 204}
  <1>1. pc[r] = "repository" /\ world' = world /\ AskedInOrder(r)
    BY DEF Ask, LookupInv
  <1>2. CASE reply = Unreachable
    <2>1. pc' = [pc EXCEPT ![r] = "over"] /\ at' = at /\ base' = base /\ protocol' = protocol
      BY <1>2 DEF Ask, End, Goto, HostOf
    <2>2. LookupShape'
      BY <1>1, <2>1 DEF LookupInv, LookupShape, States
    <2>3. pc'[r] = "over" /\ \A q \in Requests : q # r => pc'[q] = pc[q] /\ SameLookup(q)
      BY <1>1, <2>1 DEF LookupInv, LookupShape, SameLookup
    <2> QED
      BY <2>2, <2>3, OneLookup
  <1>3. CASE reply # Unreachable /\ here
    <2>1. Found(r, host, reply)
      BY <1>3 DEF Ask, HostOf
    <2>2. /\ pc' = [pc EXCEPT ![r] = "over"] \/ pc' = [pc EXCEPT ![r] = "call"]
          /\ at' = at /\ \E b : base' = [base EXCEPT ![r] = b]
          /\ \E p : protocol' = [protocol EXCEPT ![r] = p]
      <3> HIDE DEF host, reply
      <3> QED
        BY <2>1 DEF Found, End, Goto
    <2>3. LookupShape'
      BY <1>1, <2>2 DEF LookupInv, LookupShape, States
    <2>4. \A q \in Requests : q # r => pc'[q] = pc[q] /\ SameLookup(q)
      BY <1>1, <2>2 DEF LookupInv, LookupShape, SameLookup
    <2>5. pc'[r] \in {"over", "call"}
      BY <2>2 DEF LookupInv, LookupShape
    <2>6. pc'[r] \notin {"idle", "repository", "over"} => Served(r)'
      BY <1>1, <2>1, FoundServes
    <2> QED
      BY <2>3, <2>4, <2>5, <2>6, OneLookup
  <1>4. CASE reply # Unreachable /\ ~here
    <2>1. /\ at' = [at EXCEPT ![r] = at[r] + 1] /\ base' = base /\ protocol' = protocol
          /\ IF at[r] = Len(Trusted) THEN pc' = [pc EXCEPT ![r] = "over"] ELSE pc' = pc
      BY <1>4 DEF Ask, End, Goto, HostOf, NextHost
    <2>2. LookupShape'
      BY <1>1, <2>1 DEF LookupInv, LookupShape, States
    <2>3. \A q \in Requests : q # r => pc'[q] = pc[q] /\ SameLookup(q)
      BY <1>1, <2>1 DEF LookupInv, LookupShape, SameLookup
    <2>4. pc'[r] \in {"over", "repository"} /\ (pc'[r] = "repository" => at[r] # Len(Trusted))
      BY <1>1, <2>1 DEF LookupInv, LookupShape
    <2>5. ASSUME pc'[r] = "repository"
          PROVE  AskedInOrder(r)'
      <3>1. at[r] \in Nat /\ at'[r] = at[r] + 1 /\ world'[r] = world[r]
        BY <1>1, <2>1 DEF LookupInv, LookupShape
      <3>2. at'[r] \in 0..Len(Trusted)
        BY <1>1, <2>4, <2>5, <3>1, TrustedAssumption DEF AskedInOrder
      <3>3. world[r][Primary] = Missing
        BY <1>1, <1>4, <3>1 DEF AskedInOrder, HostOf
      <3>4. ASSUME NEW i \in 1..at[r]
            PROVE  world[r][Trusted[i]].status \notin {200, 204}
        <4>1. CASE i = at[r]
          BY <1>4, <4>1, <3>1 DEF HostOf
        <4>2. CASE i # at[r]
          BY <1>1, <4>2, <3>1 DEF AskedInOrder
        <4> QED
          BY <4>1, <4>2
      <3> QED
        BY <3>1, <3>2, <3>3, <3>4 DEF AskedInOrder
    <2> QED
      BY <2>2, <2>3, <2>4, <2>5, OneLookup
  <1> QED
    BY <1>2, <1>3, <1>4

LEMMA LookupNext == LookupInv /\ [Next]_vars => LookupInv'
  <1> SUFFICES ASSUME LookupInv, [Next]_vars
               PROVE  LookupInv'
    OBVIOUS
  <1>1. CASE UNCHANGED vars
    BY <1>1 DEF vars, LookupInv, LookupShape, AskedInOrder, Served, HostOf
  <1>2. ASSUME NEW r \in Requests,
               Handler(r) \/ Upstream(r) \/ ClientLeaves(r)
        PROVE  LookupInv'
    <2> USE DEF States
    <2>1. CASE Ask(r)
      BY <2>1, AskLookup
    <2>2. CASE Call(r)
      <3>1. pc[r] = "call" /\ UNCHANGED found
            /\ (pc' = [pc EXCEPT ![r] = "calling"] \/ pc' = [pc EXCEPT ![r] = "over"])
        BY <2>2 DEF Call, Goto, End
      <3> QED
        BY <3>1, PastLookup
    <2>3. CASE Opening(r)
      <3>1. pc[r] = "opening" /\ UNCHANGED found
            /\ (pc' = [pc EXCEPT ![r] = "opening"] \/ pc' = [pc EXCEPT ![r] = "next"])
        BY <2>3 DEF Opening, Goto
      <3> QED
        BY <3>1, PastLookup
    <2>4. CASE Read(r)
      <3>1. pc[r] = "next" /\ UNCHANGED found /\ pc' = [pc EXCEPT ![r] = "reading"]
        BY <2>4 DEF Read, Goto
      <3> QED
        BY <3>1, PastLookup
    <2>5. CASE Closing(r)
      <3>1. pc[r] = "closing" /\ UNCHANGED found /\ (pc' = pc \/ pc' = [pc EXCEPT ![r] = "over"])
        BY <2>5 DEF Closing, Goto
      <3>2. pc' = pc => pc' = [pc EXCEPT ![r] = "closing"]
        BY <3>1 DEF LookupInv, LookupShape
      <3> QED
        BY <3>1, <3>2, PastLookup
    <2>6. CASE CallReturns(r)
      <3>1. pc[r] = "calling" /\ UNCHANGED found
            /\ \/ pc' = [pc EXCEPT ![r] = "opening"] \/ pc' = [pc EXCEPT ![r] = "next"]
               \/ pc' = [pc EXCEPT ![r] = "over"]
        BY <2>6 DEF CallReturns, Goto, End
      <3> QED
        BY <3>1, PastLookup
    <2>7. CASE ChunkArrives(r)
      <3>1. pc[r] = "reading" /\ UNCHANGED found
            /\ (pc' = [pc EXCEPT ![r] = "next"] \/ pc' = [pc EXCEPT ![r] = "over"])
        BY <2>7 DEF ChunkArrives, ChatChunk, ResponsesChunk, Goto
      <3> QED
        BY <3>1, PastLookup
    <2>8. CASE UpstreamEnds(r)
      <3>1. pc[r] = "reading" /\ UNCHANGED found
            /\ (pc' = [pc EXCEPT ![r] = "closing"] \/ pc' = [pc EXCEPT ![r] = "over"])
        BY <2>8 DEF UpstreamEnds, Goto
      <3> QED
        BY <3>1, PastLookup
    <2>9. CASE UpstreamFails(r)
      <3>1. pc[r] = "reading" /\ UNCHANGED found /\ pc' = [pc EXCEPT ![r] = "over"]
        BY <2>9 DEF UpstreamFails, AfterFailure, Goto
      <3> QED
        BY <3>1, PastLookup
    <2>10. CASE ClientLeaves(r)
      <3>1. pc[r] \in {"opening", "next", "closing"} /\ UNCHANGED found
            /\ pc' = [pc EXCEPT ![r] = "over"]
        BY <2>10 DEF ClientLeaves, Goto
      <3> QED
        BY <3>1, PastLookup
    <2> QED
      BY <1>2, <2>1, <2>2, <2>3, <2>4, <2>5, <2>6, <2>7, <2>8, <2>9, <2>10 DEF Handler, Upstream
  <1>3. ASSUME NEW r \in Requests, NEW w \in Worlds[r], NEW s \in BOOLEAN, NEW named \in BOOLEAN,
               Begin(r, w, s, named)
        PROVE  LookupInv'
    BY <1>3, BeginLookup
  <1> QED
    BY <1>1, <1>2, <1>3 DEF Next

\* A request goes to a server of the primary or of a trusted domain, the first
\* repository in order that has the model, with a protocol it has.
THEOREM FirstTrustedServes == Spec => []FirstTrustedHostServes
  <1>1. Init => LookupInv
    BY DEF Init, LookupInv, LookupShape, States
  <1>2. LookupInv /\ [Next]_vars => LookupInv'
    BY LookupNext
  <1>3. LookupInv => FirstTrustedHostServes
    BY DEF LookupInv, Served, AskedInOrder, HostOf, FirstTrustedHostServes
  <1> QED
    BY <1>1, <1>2, <1>3, PTL DEF Spec

-----------------------------------------------------------------------------
(* The stream.                                                              *)

EventTypes ==
    {"response.output_item.added", "response.content_part.added", "response.output_text.delta",
     "response.output_text.done", "response.output_item.done", "[DONE]", "delta", "completed", "failed"}
Events == [type : EventTypes, seq : Nat, text : Seq(Nat), usage : {None, "usage"}]
Chunks == ChatChunks \cup ResponsesChunks

LEMMA ChunkShape ==
    ASSUME NEW c \in Chunks
    PROVE  /\ c.content \in {"text", "blank", None, "no_choice", "delta", "completed", "failed"}
           /\ c \in ResponsesChunks => c.content \in {"delta", "completed", "failed"}
  BY DEF Chunks, ChatChunks, ResponsesChunks, Chunk

\* What is written is an event.
LEMMA EventShape ==
    ASSUME NEW type \in EventTypes, NEW seq \in Nat, NEW t \in Seq(Nat), NEW u \in {None, "usage"}
    PROVE  /\ Event(type, seq, t, u) \in Events
           /\ Event(type, seq, t, u).type = type /\ Event(type, seq, t, u).seq = seq
           /\ Event(type, seq, t, u).text = t
  BY DEF Event, Events

LEMMA Appended ==
    ASSUME NEW S, NEW s \in Seq(S), NEW x \in S
    PROVE  /\ Len(s) \in Nat /\ DOMAIN s = 1..Len(s)
           /\ Append(s, x) \in Seq(S) /\ Len(Append(s, x)) = Len(s) + 1
           /\ DOMAIN Append(s, x) = 1..(Len(s) + 1) /\ Append(s, x)[Len(s) + 1] = x
           /\ \A i \in 1..Len(s) : Append(s, x)[i] = s[i]
  OBVIOUS

\* A piece goes to the end of the text.
LEMMA TextGrows ==
    ASSUME NEW chunks \in Seq(Chunks), NEW c \in Chunks, NEW t \in Seq(Nat), IsWholeText(t, chunks)
    PROVE  /\ t \o Piece(c, Len(chunks) + 1) \in Seq(Nat)
           /\ IsWholeText(t \o Piece(c, Len(chunks) + 1), Append(chunks, c))
  <1> DEFINE n == Len(chunks)
             m == Len(t)
             after == Append(chunks, c)
  <1>1. n \in Nat /\ m \in Nat /\ DOMAIN chunks = 1..n /\ DOMAIN t = 1..m
    OBVIOUS
  <1>2. DOMAIN after = 1..(n + 1) /\ after[n + 1] = c /\ \A k \in 1..n : after[k] = chunks[k]
    BY Appended
  <1>3. \A i \in 1..m : t[i] \in 1..n /\ chunks[t[i]].content = "text"
    BY <1>1 DEF IsWholeText, Range
  <1>4. \A k \in 1..n : chunks[k].content = "text" => \E i \in 1..m : t[i] = k
    BY <1>1 DEF IsWholeText, Range
  <1>5. \A i, j \in 1..m : i < j => t[i] < t[j]
    BY <1>1 DEF IsWholeText, Increasing
  <1> HIDE DEF after
  <1>6. CASE c.content = "text"
    <2> DEFINE u == Append(t, n + 1)
    <2>1. /\ DOMAIN u = 1..(m + 1) /\ u[m + 1] = n + 1 /\ u \in Seq(Nat)
          /\ \A i \in 1..m : u[i] = t[i]
      BY <1>1, Appended
    <2>2. t \o Piece(c, n + 1) = u
      BY <1>1, <1>6 DEF Piece
    <2> HIDE DEF u
    <2>3. Increasing(u)
      <3>1. SUFFICES ASSUME NEW i \in 1..(m + 1), NEW j \in 1..(m + 1), i < j
                     PROVE  u[i] < u[j]
        BY <2>1 DEF Increasing
      <3>2. i \in 1..m /\ u[i] = t[i] /\ t[i] \in 1..n
        BY <1>1, <1>3, <2>1, <3>1
      <3>3. CASE j = m + 1
        BY <1>1, <2>1, <3>2, <3>3
      <3>4. CASE j # m + 1
        <4>1. j \in 1..m /\ u[j] = t[j]
          BY <1>1, <2>1, <3>4
        <4> QED
          BY <1>5, <3>1, <3>2, <4>1
      <3> QED
        BY <3>3, <3>4
    <2>4. \A i \in 1..(m + 1) : u[i] \in 1..(n + 1) /\ after[u[i]].content = "text"
      <3>1. ASSUME NEW i \in 1..m
            PROVE  u[i] \in 1..(n + 1) /\ after[u[i]].content = "text"
        BY <1>1, <1>2, <1>3, <2>1
      <3> QED
        BY <1>1, <1>2, <1>6, <2>1, <3>1
    <2>5. \A k \in 1..(n + 1) : after[k].content = "text" => \E i \in 1..(m + 1) : u[i] = k
      <3>1. ASSUME NEW k \in 1..n, after[k].content = "text"
            PROVE  \E i \in 1..(m + 1) : u[i] = k
        BY <1>1, <1>2, <1>4, <2>1, <3>1
      <3> QED
        BY <1>1, <2>1, <3>1
    <2>6. Range(u) = {k \in DOMAIN after : after[k].content = "text"}
      <3>1. \A k \in Range(u) : k \in DOMAIN after /\ after[k].content = "text"
        BY <1>2, <2>1, <2>4 DEF Range
      <3>2. \A k \in DOMAIN after : after[k].content = "text" => k \in Range(u)
        BY <1>2, <2>1, <2>5 DEF Range
      <3> QED
        BY <3>1, <3>2
    <2> QED
      BY <2>1, <2>2, <2>3, <2>6 DEF IsWholeText, after
  <1>7. CASE c.content # "text"
    <2>1. t \o Piece(c, n + 1) = t
      BY <1>7 DEF Piece
    <2>2. \A k \in 1..(n + 1) : after[k].content = "text" <=> k \in 1..n /\ chunks[k].content = "text"
      BY <1>1, <1>2, <1>7
    <2>3. {k \in DOMAIN after : after[k].content = "text"} = {k \in DOMAIN chunks : chunks[k].content = "text"}
      BY <1>1, <1>2, <2>2
    <2> QED
      BY <2>1, <2>3 DEF IsWholeText, after
  <1> QED
    BY <1>6, <1>7

\* An event that is no delta leaves the deltas as they are.
LEMMA OtherEvent ==
    ASSUME NEW events \in Seq(Events), NEW e \in Events, NEW chunks,
           e.type # "response.output_text.delta",
           e.text # <<>> => e.type = "response.output_text.done",
           DeltasAreTheChoices(events, chunks)
    PROVE  DeltasAreTheChoices(Append(events, e), chunks)
  <1> DEFINE n == Len(events)
             after == Append(events, e)
  <1>1. /\ n \in Nat /\ DOMAIN events = 1..n /\ DOMAIN after = 1..(n + 1)
        /\ after[n + 1] = e /\ \A i \in 1..n : after[i] = events[i]
    BY Appended
  <1> HIDE DEF after
  <1>2. Deltas(after) = Deltas(events)
    BY <1>1 DEF Deltas
  <1>3. PICK f \in [WithChoice(chunks) -> Deltas(events)] :
            /\ Increasing(f)
            /\ \A i \in Deltas(events) : \E k \in WithChoice(chunks) : f[k] = i
            /\ \A k \in WithChoice(chunks) : events[f[k]].text = Piece(chunks[k], k)
    BY DEF DeltasAreTheChoices
  <1>4. \A k \in WithChoice(chunks) : after[f[k]].text = Piece(chunks[k], k)
    <2>1. \A k \in WithChoice(chunks) : f[k] \in 1..n
      BY <1>1, <1>3 DEF Deltas
    <2> QED
      BY <1>1, <1>3, <2>1
  <1>5. \A i \in DOMAIN after \ Deltas(after) :
            after[i].text # <<>> => after[i].type = "response.output_text.done"
    <2>1. \A i \in DOMAIN events \ Deltas(events) :
            events[i].text # <<>> => events[i].type = "response.output_text.done"
      BY DEF DeltasAreTheChoices
    <2> QED
      BY <1>1, <1>2, <2>1
  <1>6. DeltasAreTheChoices(after, chunks)
    BY <1>2, <1>3, <1>4, <1>5 DEF DeltasAreTheChoices
  <1> QED
    BY <1>6 DEF after

\* A chunk without a choice has no delta.
LEMMA NoChoice ==
    ASSUME NEW chunks \in Seq(Chunks), NEW c \in Chunks, c.content = "no_choice",
           NEW events, DeltasAreTheChoices(events, chunks)
    PROVE  DeltasAreTheChoices(events, Append(chunks, c))
  <1> DEFINE n == Len(chunks)
             after == Append(chunks, c)
  <1>1. /\ n \in Nat /\ DOMAIN chunks = 1..n /\ DOMAIN after = 1..(n + 1)
        /\ after[n + 1] = c /\ \A i \in 1..n : after[i] = chunks[i]
    BY Appended
  <1> HIDE DEF after
  <1>2. WithChoice(after) = WithChoice(chunks)
    BY <1>1 DEF WithChoice
  <1>3. \A k \in WithChoice(chunks) : Piece(after[k], k) = Piece(chunks[k], k)
    BY <1>1 DEF WithChoice
  <1>4. DeltasAreTheChoices(events, after)
    BY <1>2, <1>3 DEF DeltasAreTheChoices
  <1> QED
    BY <1>4 DEF after

\* A chunk with a choice, and its delta.
LEMMA DeltaEvent ==
    ASSUME NEW chunks \in Seq(Chunks), NEW c \in Chunks, c.content # "no_choice",
           NEW events \in Seq(Events), NEW e \in Events,
           e.type = "response.output_text.delta", e.text = Piece(c, Len(chunks) + 1),
           DeltasAreTheChoices(events, chunks)
    PROVE  DeltasAreTheChoices(Append(events, e), Append(chunks, c))
  <1> DEFINE n == Len(chunks)
             m == Len(events)
             cs == Append(chunks, c)
             es == Append(events, e)
  <1>1. /\ n \in Nat /\ DOMAIN chunks = 1..n /\ DOMAIN cs = 1..(n + 1)
        /\ cs[n + 1] = c /\ \A i \in 1..n : cs[i] = chunks[i]
    BY Appended
  <1>2. /\ m \in Nat /\ DOMAIN events = 1..m /\ DOMAIN es = 1..(m + 1)
        /\ es[m + 1] = e /\ \A i \in 1..m : es[i] = events[i]
    BY Appended
  <1> HIDE DEF cs, es
  <1>3. WithChoice(cs) = WithChoice(chunks) \cup {n + 1} /\ WithChoice(chunks) \subseteq 1..n
    BY <1>1 DEF WithChoice
  <1>4. Deltas(es) = Deltas(events) \cup {m + 1} /\ Deltas(events) \subseteq 1..m
    BY <1>2 DEF Deltas
  <1>5. PICK f \in [WithChoice(chunks) -> Deltas(events)] :
            /\ Increasing(f)
            /\ \A i \in Deltas(events) : \E k \in WithChoice(chunks) : f[k] = i
            /\ \A k \in WithChoice(chunks) : events[f[k]].text = Piece(chunks[k], k)
    BY DEF DeltasAreTheChoices
  <1> DEFINE g == [k \in WithChoice(cs) |-> IF k = n + 1 THEN m + 1 ELSE f[k]]
  <1>6. g \in [WithChoice(cs) -> Deltas(es)]
    BY <1>3, <1>4
  <1>7. \A k \in WithChoice(chunks) : k # n + 1 /\ g[k] = f[k] /\ f[k] \in Deltas(events)
    BY <1>1, <1>3
  <1>8. g[n + 1] = m + 1
    BY <1>3
  <1> HIDE DEF g
  <1>9. Increasing(g)
    <2>1. SUFFICES ASSUME NEW i \in WithChoice(cs), NEW j \in WithChoice(cs), i < j
                   PROVE  g[i] < g[j]
      BY <1>6 DEF Increasing
    <2>2. i \in WithChoice(chunks)
      BY <1>1, <1>3, <2>1
    <2>3. CASE j = n + 1
      BY <1>2, <1>4, <1>7, <1>8, <2>2, <2>3
    <2>4. CASE j # n + 1
      BY <1>3, <1>5, <1>7, <2>1, <2>2, <2>4 DEF Increasing
    <2> QED
      BY <2>3, <2>4
  <1>10. \A i \in Deltas(es) : \E k \in WithChoice(cs) : g[k] = i
    BY <1>3, <1>4, <1>5, <1>7, <1>8
  <1>11. ASSUME NEW k \in WithChoice(cs)
         PROVE  es[g[k]].text = Piece(cs[k], k)
    <2>1. CASE k = n + 1
      BY <1>1, <1>2, <1>8, <2>1
    <2>2. CASE k # n + 1
      <3>1. k \in WithChoice(chunks) /\ g[k] = f[k] /\ f[k] \in 1..m /\ k \in 1..n
        BY <1>3, <1>4, <1>7, <2>2
      <3> QED
        BY <1>1, <1>2, <1>5, <3>1
    <2> QED
      BY <2>1, <2>2
  <1>12. \A i \in DOMAIN es \ Deltas(es) :
            es[i].text # <<>> => es[i].type = "response.output_text.done"
    BY <1>2, <1>4 DEF DeltasAreTheChoices
  <1>13. DeltasAreTheChoices(es, cs)
    BY <1>6, <1>9, <1>10, <1>11, <1>12 DEF DeltasAreTheChoices
  <1> QED
    BY <1>13 DEF cs, es

\* What the variables of a request hold.
StreamShape ==
    /\ pc \in [Requests -> States]
    /\ stream = [r \in Requests |-> stream[r]]
    /\ protocol = [r \in Requests |-> protocol[r]]
    /\ upstream = [r \in Requests |-> upstream[r]]
    /\ usage \in [Requests -> {None, "usage"}]
    /\ sent \in [Requests -> Seq(Chunks)]
    /\ text \in [Requests -> Seq(Nat)]
    /\ out \in [Requests -> Seq(Events)]

Fresh(r) == sent[r] = <<>> /\ text[r] = <<>> /\ out[r] = <<>> /\ upstream[r] = "open"

NotDone(events) == \A i \in DOMAIN events : events[i].type # "[DONE]"
Numbered(events) == \A i \in DOMAIN events : events[i].seq = i - 1

\* The stream of a chat so far.
ChatSoFar(r) ==
    /\ Numbered(out[r]) /\ NotDone(out[r])
    /\ DeltasAreTheChoices(out[r], sent[r])
    /\ IsWholeText(text[r], sent[r])

\* A stream passed on so far.
EchoSoFar(r) ==
    /\ Len(out[r]) = Len(sent[r]) /\ NotDone(out[r])
    /\ \A i \in DOMAIN sent[r] : out[r][i].type = sent[r][i].content

\* The end of a chat: the done of the text, that of the item, and of the stream.
TextDone(r, n) ==
    /\ n \in DOMAIN out[r]
    /\ out[r][n].type = "response.output_text.done" /\ IsWholeText(out[r][n].text, sent[r])

\* What DoneIsWhole says of the events of a complete stream.
Complete(r) ==
    LET n == Len(out[r]) IN
    /\ n > 0 /\ out[r][n] = Done
    /\ Chat(r) =>
          /\ \A i \in 1..(n - 1) : out[r][i].seq = i - 1
          /\ DeltasAreTheChoices(out[r], sent[r])
          /\ TextDone(r, n - 2)
    /\ ~Chat(r) => /\ n = Len(sent[r]) + 1
                   /\ \A i \in DOMAIN sent[r] : out[r][i].type = sent[r][i].content

\* Where a request is in its stream and what it was sent by then.
Stage(r) ==
    /\ pc[r] \in {"idle", "repository", "call", "calling"} => Fresh(r)
    /\ pc[r] \in {"opening", "next", "reading", "closing"} => stream[r]
    /\ pc[r] \in {"opening", "closing"} => Chat(r)
    /\ pc[r] \in {"opening", "next", "reading"} => upstream[r] = "open"
    /\ pc[r] \in {"opening", "next", "reading", "closing"} =>
          IF Chat(r) THEN ChatSoFar(r) ELSE EchoSoFar(r)
    /\ pc[r] \in {"next", "reading", "closing"} /\ Chat(r) => out[r] # <<>>
    /\ pc[r] \in {"opening", "next", "reading"} /\ Chat(r) =>
          \A i \in DOMAIN out[r] :
              out[r][i].type \notin {"response.output_text.done", "response.output_item.done"}
    /\ pc[r] = "closing" =>
          LET n == Len(out[r]) IN
          /\ upstream[r] = "ended"
          /\ out[r][n].type = "response.output_text.done" => TextDone(r, n)
          /\ out[r][n].type = "response.output_item.done" => TextDone(r, n - 1)
    /\ pc[r] = "over" => IF upstream[r] = "ended" THEN Complete(r) ELSE NotDone(out[r])

StreamInv == StreamShape /\ \A r \in Requests : Stage(r)

\* What a step of r leaves of another request, and of its own function.
SameStream(q) ==
    /\ pc'[q] = pc[q] /\ stream'[q] = stream[q] /\ protocol'[q] = protocol[q]
    /\ upstream'[q] = upstream[q] /\ sent'[q] = sent[q] /\ text'[q] = text[q] /\ out'[q] = out[q]

Touches(r) ==
    /\ pc' = [pc EXCEPT ![r] = pc'[r]]
    /\ stream' = [stream EXCEPT ![r] = stream'[r]]
    /\ protocol' = [protocol EXCEPT ![r] = protocol'[r]]
    /\ upstream' = [upstream EXCEPT ![r] = upstream'[r]]
    /\ usage' = [usage EXCEPT ![r] = usage'[r]]
    /\ sent' = [sent EXCEPT ![r] = sent'[r]]
    /\ text' = [text EXCEPT ![r] = text'[r]]
    /\ out' = [out EXCEPT ![r] = out'[r]]

LEMMA SameStage ==
    ASSUME NEW q \in Requests, SameStream(q), Stage(q)
    PROVE  Stage(q)'
  BY DEF SameStream, Stage, Fresh, Chat, ChatSoFar, EchoSoFar, Complete, TextDone

\* A step that touches one request, and leaves it in its stage.
LEMMA OneStream ==
    ASSUME StreamInv, NEW r \in Requests, Touches(r),
           pc'[r] \in States, usage'[r] \in {None, "usage"}, sent'[r] \in Seq(Chunks),
           text'[r] \in Seq(Nat), out'[r] \in Seq(Events), Stage(r)'
    PROVE  StreamInv'
  <1>1. StreamShape'
    BY DEF StreamInv, StreamShape, Touches
  <1>2. \A q \in Requests : q # r => SameStream(q)
    BY DEF StreamInv, StreamShape, Touches, SameStream
  <1>3. \A q \in Requests : q # r => Stage(q)'
    BY <1>2, SameStage DEF StreamInv
  <1> QED
    BY <1>1, <1>3 DEF StreamInv

\* Before the first chunk there is nothing to be wrong.
LEMMA NothingYet ==
    /\ DeltasAreTheChoices(<<>>, <<>>) /\ IsWholeText(<<>>, <<>>)
    /\ Numbered(<<>>) /\ NotDone(<<>>)
    /\ <<>> \in Seq(Chunks) /\ <<>> \in Seq(Nat) /\ <<>> \in Seq(Events)
  <1>1. DOMAIN <<>> = {} /\ Len(<<>>) = 0
    OBVIOUS
  <1>2. WithChoice(<<>>) = {} /\ Deltas(<<>>) = {}
    BY <1>1 DEF WithChoice, Deltas
  <1>3. [k \in {} |-> 1] \in [WithChoice(<<>>) -> Deltas(<<>>)]
    BY <1>2
  <1>4. Increasing([k \in {} |-> 1])
    BY DEF Increasing
  <1>5. DeltasAreTheChoices(<<>>, <<>>)
    BY <1>1, <1>2, <1>3, <1>4 DEF DeltasAreTheChoices
  <1>6. IsWholeText(<<>>, <<>>)
    BY <1>1 DEF IsWholeText, Increasing, Range
  <1> QED
    BY <1>1, <1>5, <1>6 DEF Numbered, NotDone

\* The next event, numbered.
LEMMA NextEvent ==
    ASSUME NEW events \in Seq(Events), NEW e \in Events, e.type # "[DONE]", NotDone(events)
    PROVE  /\ NotDone(Append(events, e))
           /\ Numbered(events) /\ e.seq = Len(events) => Numbered(Append(events, e))
           /\ Append(events, e) # <<>>
  <1>1. /\ Len(events) \in Nat /\ DOMAIN events = 1..Len(events)
        /\ DOMAIN Append(events, e) = 1..(Len(events) + 1) /\ Append(events, e)[Len(events) + 1] = e
        /\ \A i \in 1..Len(events) : Append(events, e)[i] = events[i]
        /\ Len(Append(events, e)) = Len(events) + 1
    BY Appended
  <1>2. ASSUME NEW i \in 1..(Len(events) + 1)
        PROVE  /\ Append(events, e)[i].type # "[DONE]"
               /\ Numbered(events) /\ e.seq = Len(events) => Append(events, e)[i].seq = i - 1
    <2>1. CASE i = Len(events) + 1
      BY <1>1, <2>1
    <2>2. CASE i # Len(events) + 1
      <3>1. i \in 1..Len(events) /\ Append(events, e)[i] = events[i]
        BY <1>1, <2>2
      <3> QED
        BY <1>1, <3>1 DEF NotDone, Numbered
    <2> QED
      BY <2>1, <2>2
  <1> QED
    BY <1>1, <1>2 DEF NotDone, Numbered

LEMMA PlainShape ==
    ASSUME NEW r, out[r] \in Seq(Events), NEW type \in EventTypes
    PROVE  /\ Plain(r, type) \in Events /\ Plain(r, type).type = type
           /\ Plain(r, type).seq = Len(out[r]) /\ Plain(r, type).text = <<>>
  <1>1. Len(out[r]) \in Nat /\ <<>> \in Seq(Nat) /\ None \in {None, "usage"}
    OBVIOUS
  <1> QED
    BY <1>1, EventShape DEF Plain

LEMMA DeltaShape ==
    ASSUME NEW n \in Nat, NEW t \in Seq(Nat)
    PROVE  LET e == Event("response.output_text.delta", n, t, None) IN
           e \in Events /\ e.type = "response.output_text.delta" /\ e.seq = n /\ e.text = t
  <1>1. "response.output_text.delta" \in EventTypes /\ None \in {None, "usage"}
    BY DEF EventTypes
  <1> QED
    BY <1>1, EventShape

\* A request that has not been answered with a stream yet.
LEMMA StillFresh ==
    ASSUME StreamInv, NEW r \in Requests, Touches(r), Fresh(r),
           usage' = usage, sent' = sent, text' = text, out' = out, upstream' = upstream,
           pc'[r] \in {"idle", "repository", "call", "calling", "over"}
    PROVE  StreamInv'
  <1>1. Fresh(r)'
    BY DEF Fresh
  <1>2. Stage(r)'
    BY <1>1, NothingYet DEF Stage, Fresh
  <1> QED
    BY <1>2, OneStream DEF StreamInv, StreamShape, States

LEMMA EarlyStream ==
    ASSUME StreamInv, NEW r \in Requests,
           \/ \E w, s, named : Begin(r, w, s, named)
           \/ Ask(r) \/ Call(r)
    PROVE  StreamInv'
  <1>1. /\ pc[r] \in {"idle", "repository", "call"}
        /\ UNCHANGED streamed
        /\ \E s \in {"repository", "call", "calling", "over"} : pc' = pc \/ pc' = [pc EXCEPT ![r] = s]
        /\ stream' = stream \/ \E s : stream' = [stream EXCEPT ![r] = s]
        /\ protocol' = protocol \/ \E p : protocol' = [protocol EXCEPT ![r] = p]
    <2>1. ASSUME NEW w, NEW s, NEW named, Begin(r, w, s, named)
          PROVE  <1>1!1 /\ <1>1!2 /\ <1>1!3 /\ <1>1!4 /\ <1>1!5
      BY <2>1 DEF Begin, Goto, End
    <2>2. CASE Ask(r)
      <3>1. pc[r] = "repository" /\ UNCHANGED streamed /\ stream' = stream
        BY <2>2 DEF Ask
      <3>2. /\ pc' = pc \/ pc' = [pc EXCEPT ![r] = "over"] \/ pc' = [pc EXCEPT ![r] = "call"]
            /\ protocol' = protocol \/ \E p : protocol' = [protocol EXCEPT ![r] = p]
        BY <2>2 DEF Ask, Found, Goto, End
      <3> QED
        BY <3>1, <3>2
    <2>3. CASE Call(r)
      BY <2>3 DEF Call, Goto, End, found
    <2> QED
      BY <2>1, <2>2, <2>3
  <1>2. usage' = usage /\ sent' = sent /\ text' = text /\ out' = out /\ upstream' = upstream
    BY <1>1 DEF streamed
  <1>3. Touches(r)
    BY <1>1, <1>2 DEF Touches, StreamInv, StreamShape
  <1>4. Fresh(r)
    BY <1>1 DEF StreamInv, Stage
  <1>5. pc'[r] \in {"idle", "repository", "call", "calling", "over"}
    BY <1>1 DEF StreamInv, StreamShape
  <1> QED
    BY <1>2, <1>3, <1>4, <1>5, StillFresh

\* The call returns: a stream begins with nothing sent.
LEMMA ReturnStream ==
    ASSUME StreamInv, NEW r \in Requests, CallReturns(r)
    PROVE  StreamInv'
  <1>1. /\ pc[r] = "calling"
        /\ usage' = usage /\ sent' = sent /\ text' = text /\ out' = out /\ upstream' = upstream
        /\ stream' = stream /\ protocol' = protocol
        /\ \/ pc' = [pc EXCEPT ![r] = "over"]
           \/ stream[r] /\ protocol[r] = "openai_chat" /\ pc' = [pc EXCEPT ![r] = "opening"]
           \/ stream[r] /\ protocol[r] # "openai_chat" /\ pc' = [pc EXCEPT ![r] = "next"]
    BY DEF CallReturns, Goto, End, found, streamed
  <1>2. Touches(r)
    BY <1>1 DEF Touches, StreamInv, StreamShape
  <1>3. Fresh(r) /\ Fresh(r)'
    BY <1>1 DEF StreamInv, Stage, Fresh
  <1>4. \/ pc'[r] = "over"
        \/ Chat(r) /\ pc'[r] = "opening"
        \/ stream[r] /\ ~Chat(r) /\ pc'[r] = "next"
    BY <1>1 DEF StreamInv, StreamShape, Chat
  <1>5. Stage(r)'
    <2>1. Chat(r)' = Chat(r) /\ stream'[r] = stream[r]
      BY <1>1 DEF Chat
    <2>2. ChatSoFar(r)' /\ EchoSoFar(r)'
      BY <1>3, NothingYet DEF ChatSoFar, EchoSoFar, Fresh
    <2>3. NotDone(out[r])' /\ DOMAIN out'[r] = {}
      BY <1>3, NothingYet DEF Fresh
    <2>4. upstream'[r] = "open"
      BY <1>3 DEF Fresh
    <2>5. CASE pc'[r] = "over"
      BY <2>3, <2>4, <2>5 DEF Stage
    <2>6. CASE Chat(r) /\ pc'[r] = "opening"
      BY <2>1, <2>2, <2>3, <2>4, <2>6 DEF Stage, Chat
    <2>7. CASE stream[r] /\ ~Chat(r) /\ pc'[r] = "next"
      BY <2>1, <2>2, <2>3, <2>4, <2>7 DEF Stage
    <2> QED
      BY <1>4, <2>5, <2>6, <2>7
  <1> QED
    BY <1>1, <1>2, <1>4, <1>5, OneStream DEF StreamInv, StreamShape, States

\* An event that is no delta, written before the text is done.
LEMMA ChatGoesOn ==
    ASSUME NEW r, out[r] \in Seq(Events), NEW e \in Events, out'[r] = Append(out[r], e),
           sent'[r] = sent[r], text'[r] = text[r], ChatSoFar(r), e.seq = Len(out[r]),
           e.type \notin {"[DONE]", "response.output_text.delta"},
           e.text # <<>> => e.type = "response.output_text.done"
    PROVE  ChatSoFar(r)' /\ out'[r] # <<>> /\ out'[r] \in Seq(Events)
  <1>1. DeltasAreTheChoices(Append(out[r], e), sent[r])
    BY OtherEvent DEF ChatSoFar
  <1>2. /\ NotDone(Append(out[r], e)) /\ Numbered(Append(out[r], e))
        /\ Append(out[r], e) # <<>> /\ Append(out[r], e) \in Seq(Events)
    BY NextEvent, Appended DEF ChatSoFar
  <1> QED
    BY <1>1, <1>2 DEF ChatSoFar

LEMMA OpeningStream ==
    ASSUME StreamInv, NEW r \in Requests, Opening(r)
    PROVE  StreamInv'
  <1> DEFINE type == IF out[r] = <<>> THEN "response.output_item.added" ELSE "response.content_part.added"
             e == Plain(r, type)
  <1>0. out[r] \in Seq(Events) /\ Len(out[r]) \in Nat
    BY DEF StreamInv, StreamShape
  <1>1. /\ pc[r] = "opening" /\ usage' = usage /\ sent' = sent /\ text' = text /\ upstream' = upstream
        /\ stream' = stream /\ protocol' = protocol
        /\ pc' = [pc EXCEPT ![r] = IF out[r] = <<>> THEN "opening" ELSE "next"]
        /\ out' = [out EXCEPT ![r] = Append(out[r], e)]
    BY DEF Opening, Emit, Goto, found
  <1>2. /\ e \in Events /\ e.type = type /\ e.seq = Len(out[r]) /\ e.text = <<>>
    <2>1. type \in EventTypes
      BY DEF EventTypes
    <2> HIDE DEF type
    <2> QED
      BY <1>0, <2>1, PlainShape
  <1> HIDE DEF e
  <1>3. out'[r] = Append(out[r], e) /\ pc'[r] \in {"opening", "next"}
    BY <1>1 DEF StreamInv, StreamShape
  <1>4. Touches(r)
    BY <1>1, <1>3 DEF Touches, StreamInv, StreamShape
  <1>5. Chat(r) /\ upstream[r] = "open" /\ ChatSoFar(r) /\ stream[r]
        /\ \A i \in DOMAIN out[r] :
              out[r][i].type \notin {"response.output_text.done", "response.output_item.done"}
    BY <1>1 DEF StreamInv, Stage
  <1>6. ChatSoFar(r)' /\ out'[r] # <<>> /\ out'[r] \in Seq(Events)
    BY <1>0, <1>1, <1>2, <1>3, <1>5, ChatGoesOn
  <1>7. \A i \in DOMAIN out'[r] :
            out'[r][i].type \notin {"response.output_text.done", "response.output_item.done"}
    BY <1>0, <1>2, <1>3, <1>5, Appended
  <1>8. Chat(r)' /\ upstream'[r] = "open" /\ stream'[r]
    BY <1>1, <1>5 DEF Chat
  <1>9. Stage(r)'
    BY <1>3, <1>6, <1>7, <1>8 DEF Stage
  <1> QED
    BY <1>1, <1>3, <1>4, <1>6, <1>9, OneStream DEF StreamInv, StreamShape, States

\* Reads, failures and clients that leave write nothing.
LEMMA QuietStream ==
    ASSUME StreamInv, NEW r \in Requests, Read(r) \/ UpstreamFails(r) \/ ClientLeaves(r)
    PROVE  StreamInv'
  <1>1. /\ usage' = usage /\ sent' = sent /\ text' = text /\ out' = out
        /\ stream' = stream /\ protocol' = protocol
        /\ \/ pc[r] = "next" /\ pc' = [pc EXCEPT ![r] = "reading"] /\ upstream' = upstream
           \/ /\ pc[r] \in {"opening", "next", "reading", "closing"} /\ pc' = [pc EXCEPT ![r] = "over"]
              /\ upstream' = [upstream EXCEPT ![r] = "failed"]
                 \/ upstream' = [upstream EXCEPT ![r] = "abandoned"]
    BY DEF Read, UpstreamFails, ClientLeaves, AfterFailure, Goto, found, streamed
  <1>2. \/ pc[r] = "next" /\ pc'[r] = "reading" /\ upstream'[r] = upstream[r]
        \/ /\ pc[r] \in {"opening", "next", "reading", "closing"} /\ pc'[r] = "over"
           /\ upstream'[r] # "ended"
    BY <1>1 DEF StreamInv, StreamShape
  <1>3. Touches(r)
    BY <1>1 DEF Touches, StreamInv, StreamShape
  <1>4. /\ Chat(r)' = Chat(r) /\ stream'[r] = stream[r]
        /\ (ChatSoFar(r) => ChatSoFar(r)') /\ (EchoSoFar(r) => EchoSoFar(r)')
        /\ out'[r] = out[r]
    BY <1>1 DEF Chat, ChatSoFar, EchoSoFar
  <1>5. Stage(r)'
    <2>1. CASE pc[r] = "next" /\ pc'[r] = "reading" /\ upstream'[r] = upstream[r]
      <3>1. /\ stream[r] /\ upstream[r] = "open" /\ IF Chat(r) THEN ChatSoFar(r) ELSE EchoSoFar(r)
            /\ Chat(r) => out[r] # <<>>
            /\ Chat(r) => \A i \in DOMAIN out[r] :
                 out[r][i].type \notin {"response.output_text.done", "response.output_item.done"}
        BY <2>1 DEF StreamInv, Stage
      <3>2. /\ stream'[r] /\ upstream'[r] = "open" /\ IF Chat(r)' THEN ChatSoFar(r)' ELSE EchoSoFar(r)'
            /\ Chat(r)' => out'[r] # <<>>
            /\ Chat(r)' => \A i \in DOMAIN out'[r] :
                 out'[r][i].type \notin {"response.output_text.done", "response.output_item.done"}
        BY <1>4, <2>1, <3>1
      <3> QED
        BY <2>1, <3>2 DEF Stage
    <2>2. CASE /\ pc[r] \in {"opening", "next", "reading", "closing"} /\ pc'[r] = "over"
               /\ upstream'[r] # "ended"
      <3>1. NotDone(out[r])
        BY <2>2 DEF StreamInv, Stage, ChatSoFar, EchoSoFar
      <3> QED
        BY <1>4, <2>2, <3>1 DEF Stage
    <2> QED
      BY <1>2, <2>1, <2>2
  <1> QED
    BY <1>1, <1>2, <1>3, <1>5, OneStream DEF StreamInv, StreamShape, States

LEMMA ChatChunkStream ==
    ASSUME StreamInv, NEW r \in Requests, pc[r] = "reading", NEW c \in ChatChunks, ChatChunk(r, c),
           sent' = [sent EXCEPT ![r] = Append(@, c)], UNCHANGED <<found, upstream>>
    PROVE  StreamInv'
  <1> DEFINE piece == Piece(c, Len(sent[r]) + 1)
             e == Event("response.output_text.delta", Len(out[r]), piece, None)
  <1>1. /\ out[r] \in Seq(Events) /\ Len(out[r]) \in Nat /\ sent[r] \in Seq(Chunks)
        /\ Len(sent[r]) \in Nat /\ text[r] \in Seq(Nat) /\ c \in Chunks
    BY DEF StreamInv, StreamShape, Chunks
  <1>2. /\ protocol[r] = "openai_chat" /\ usage' = [usage EXCEPT ![r] = usage[r]]
        /\ IF c.content = "no_choice" THEN out' = out ELSE out' = [out EXCEPT ![r] = Append(out[r], e)]
        /\ text' = [text EXCEPT ![r] = text[r] \o piece]
        /\ pc' = [pc EXCEPT ![r] = IF c.content = None THEN "over" ELSE "next"]
        /\ stream' = stream /\ protocol' = protocol /\ upstream' = upstream
    BY DEF ChatChunk, UsageInfo, FinishReason, Number, Emit, Goto, found
  <1>3. /\ Chat(r) /\ stream[r] /\ upstream[r] = "open" /\ ChatSoFar(r) /\ out[r] # <<>>
        /\ \A i \in DOMAIN out[r] :
              out[r][i].type \notin {"response.output_text.done", "response.output_item.done"}
    BY <1>2 DEF StreamInv, Stage, Chat
  <1>4. piece \in Seq(Nat)
    BY <1>1 DEF Piece
  <1>5. e \in Events /\ e.type = "response.output_text.delta" /\ e.seq = Len(out[r]) /\ e.text = piece
    BY <1>1, <1>4, DeltaShape
  <1> HIDE DEF e, piece
  <1>6. /\ pc'[r] \in {"over", "next"} /\ sent'[r] = Append(sent[r], c) /\ text'[r] = text[r] \o piece
        /\ upstream'[r] = "open" /\ stream'[r] /\ usage'[r] = usage[r]
        /\ IF c.content = "no_choice" THEN out'[r] = out[r] ELSE out'[r] = Append(out[r], e)
    BY <1>2, <1>3 DEF StreamInv, StreamShape
  <1>7. Touches(r)
    BY <1>2, <1>6 DEF Touches, StreamInv, StreamShape
  <1>8. sent'[r] \in Seq(Chunks) /\ text'[r] \in Seq(Nat) /\ IsWholeText(text'[r], sent'[r])
    BY <1>1, <1>3, <1>6, TextGrows, Appended DEF ChatSoFar, piece
  <1>9. /\ out'[r] \in Seq(Events) /\ out'[r] # <<>> /\ Numbered(out'[r]) /\ NotDone(out'[r])
        /\ DeltasAreTheChoices(out'[r], sent'[r])
        /\ \A i \in DOMAIN out'[r] :
              out'[r][i].type \notin {"response.output_text.done", "response.output_item.done"}
    <2>1. CASE c.content = "no_choice"
      BY <1>1, <1>3, <1>6, <2>1, NoChoice DEF ChatSoFar
    <2>2. CASE c.content # "no_choice"
      <3>1. out'[r] = Append(out[r], e) /\ NotDone(out[r]) /\ Numbered(out[r])
        BY <1>3, <1>6, <2>2 DEF ChatSoFar
      <3>2. out'[r] \in Seq(Events) /\ out'[r] # <<>> /\ Numbered(out'[r]) /\ NotDone(out'[r])
        BY <1>1, <1>5, <3>1, NextEvent, Appended
      <3>3. DeltasAreTheChoices(out'[r], sent'[r])
        BY <1>1, <1>3, <1>5, <1>6, <2>2, <3>1, DeltaEvent DEF ChatSoFar, piece
      <3>4. \A i \in DOMAIN out'[r] :
              out'[r][i].type \notin {"response.output_text.done", "response.output_item.done"}
        BY <1>1, <1>3, <1>5, <3>1, Appended
      <3> QED
        BY <3>2, <3>3, <3>4
    <2> QED
      BY <2>1, <2>2
  <1>10. ChatSoFar(r)' /\ Chat(r)'
    BY <1>2, <1>3, <1>8, <1>9 DEF ChatSoFar, Chat
  <1>11. Stage(r)'
    <2>1. CASE pc'[r] = "over"
      BY <1>6, <1>9, <2>1 DEF Stage
    <2>2. CASE pc'[r] = "next"
      BY <1>6, <1>9, <1>10, <2>2 DEF Stage
    <2> QED
      BY <1>6, <2>1, <2>2
  <1> QED
    BY <1>6, <1>7, <1>8, <1>9, <1>11, OneStream DEF StreamInv, StreamShape, States

LEMMA EchoChunkStream ==
    ASSUME StreamInv, NEW r \in Requests, pc[r] = "reading", NEW c \in ResponsesChunks,
           ResponsesChunk(r, c),
           sent' = [sent EXCEPT ![r] = Append(@, c)], UNCHANGED <<found, upstream>>
    PROVE  StreamInv'
  <1> DEFINE e == Plain(r, c.content)
  <1>1. /\ out[r] \in Seq(Events) /\ Len(out[r]) \in Nat /\ sent[r] \in Seq(Chunks)
        /\ Len(sent[r]) \in Nat /\ text[r] \in Seq(Nat) /\ c \in Chunks
    BY DEF StreamInv, StreamShape, Chunks
  <1>2. /\ protocol[r] = "openresponses" /\ usage' = usage /\ text' = text
        /\ out' = [out EXCEPT ![r] = Append(out[r], e)]
        /\ pc' = [pc EXCEPT ![r] = "next"]
        /\ stream' = stream /\ protocol' = protocol /\ upstream' = upstream
    BY DEF ResponsesChunk, Emit, Goto, found
  <1>3. ~Chat(r) /\ stream[r] /\ upstream[r] = "open" /\ EchoSoFar(r)
    BY <1>2 DEF StreamInv, Stage, Chat
  <1>4. e \in Events /\ e.type = c.content /\ c.content \in {"delta", "completed", "failed"}
    BY <1>1, ChunkShape, PlainShape DEF EventTypes
  <1> HIDE DEF e
  <1>5. /\ pc'[r] = "next" /\ sent'[r] = Append(sent[r], c) /\ text'[r] = text[r]
        /\ upstream'[r] = "open" /\ stream'[r] /\ usage'[r] = usage[r] /\ out'[r] = Append(out[r], e)
    BY <1>2, <1>3 DEF StreamInv, StreamShape
  <1>6. Touches(r)
    BY <1>2, <1>5 DEF Touches, StreamInv, StreamShape
  <1>7. /\ out'[r] \in Seq(Events) /\ sent'[r] \in Seq(Chunks)
        /\ Len(out'[r]) = Len(out[r]) + 1 /\ Len(sent'[r]) = Len(sent[r]) + 1
    BY <1>1, <1>4, <1>5, Appended
  <1>8. NotDone(out'[r])
    BY <1>1, <1>3, <1>4, <1>5, NextEvent DEF EchoSoFar
  <1>9. \A i \in DOMAIN sent'[r] : out'[r][i].type = sent'[r][i].content
    <2>1. /\ DOMAIN sent'[r] = 1..(Len(sent[r]) + 1) /\ sent'[r][Len(sent[r]) + 1] = c
          /\ \A i \in 1..Len(sent[r]) : sent'[r][i] = sent[r][i]
          /\ DOMAIN sent[r] = 1..Len(sent[r])
      BY <1>1, <1>5, Appended
    <2>2. /\ out'[r][Len(sent[r]) + 1] = e
          /\ \A i \in 1..Len(sent[r]) : out'[r][i] = out[r][i]
      BY <1>1, <1>3, <1>4, <1>5, Appended DEF EchoSoFar
    <2>3. \A i \in 1..Len(sent[r]) : out[r][i].type = sent[r][i].content
      BY <1>3, <2>1 DEF EchoSoFar
    <2>4. ASSUME NEW i \in 1..(Len(sent[r]) + 1)
          PROVE  out'[r][i].type = sent'[r][i].content
      <3>1. CASE i = Len(sent[r]) + 1
        BY <1>4, <2>1, <2>2, <3>1
      <3>2. CASE i # Len(sent[r]) + 1
        <4>1. i \in 1..Len(sent[r])
          BY <1>1, <3>2
        <4> QED
          BY <2>1, <2>2, <2>3, <4>1
      <3> QED
        BY <3>1, <3>2
    <2> QED
      BY <2>1, <2>4
  <1>10. EchoSoFar(r)' /\ ~Chat(r)'
    BY <1>2, <1>3, <1>7, <1>8, <1>9 DEF EchoSoFar, Chat
  <1>11. Stage(r)'
    BY <1>5, <1>10 DEF Stage
  <1> QED
    BY <1>1, <1>5, <1>6, <1>7, <1>11, OneStream DEF StreamInv, StreamShape, States

LEMMA DoneShape == Done \in Events /\ Done.type = "[DONE]" /\ Done.text = <<>>
  <1>1. "[DONE]" \in EventTypes /\ 0 \in Nat /\ <<>> \in Seq(Nat) /\ None \in {None, "usage"}
    BY DEF EventTypes
  <1> QED
    BY <1>1, EventShape DEF Done

LEMMA EndsStream ==
    ASSUME StreamInv, NEW r \in Requests, UpstreamEnds(r)
    PROVE  StreamInv'
  <1>1. /\ out[r] \in Seq(Events) /\ Len(out[r]) \in Nat /\ sent[r] \in Seq(Chunks)
        /\ Len(sent[r]) \in Nat /\ text[r] \in Seq(Nat) /\ usage[r] \in {None, "usage"}
    BY DEF StreamInv, StreamShape
  <1>2. /\ pc[r] = "reading" /\ sent' = sent /\ usage' = usage /\ text' = text
        /\ stream' = stream /\ protocol' = protocol
        /\ upstream' = [upstream EXCEPT ![r] = "ended"]
        /\ IF protocol[r] = "openai_chat" THEN pc' = [pc EXCEPT ![r] = "closing"] /\ out' = out
           ELSE pc' = [pc EXCEPT ![r] = "over"] /\ out' = [out EXCEPT ![r] = Append(out[r], Done)]
    BY DEF UpstreamEnds, Goto, Emit, found
  <1>3. stream[r] /\ IF Chat(r) THEN ChatSoFar(r) ELSE EchoSoFar(r)
    BY <1>2 DEF StreamInv, Stage
  <1>4. upstream'[r] = "ended" /\ stream'[r] /\ (Chat(r)' <=> Chat(r)) /\ (Chat(r) <=> protocol[r] = "openai_chat")
    BY <1>2, <1>3 DEF StreamInv, StreamShape, Chat
  <1>5. CASE Chat(r)
    <2>1. pc'[r] = "closing" /\ out' = out
      BY <1>2, <1>4, <1>5 DEF StreamInv, StreamShape
    <2>2. Touches(r)
      BY <1>2, <1>4, <1>5, <2>1 DEF Touches, StreamInv, StreamShape
    <2>3. ChatSoFar(r)'
      BY <1>2, <1>3, <1>5, <2>1 DEF ChatSoFar
    <2>4. /\ out[r] # <<>>
          /\ \A i \in DOMAIN out[r] :
                out[r][i].type \notin {"response.output_text.done", "response.output_item.done"}
      BY <1>2, <1>5 DEF StreamInv, Stage
    <2>5. Len(out[r]) \in DOMAIN out[r]
      BY <1>1, <2>4
    <2>6. Stage(r)'
      BY <1>4, <1>5, <2>1, <2>3, <2>4, <2>5 DEF Stage
    <2> QED
      BY <1>1, <1>2, <2>1, <2>2, <2>6, OneStream DEF StreamInv, StreamShape, States
  <1>6. CASE ~Chat(r)
    <2>1. pc' = [pc EXCEPT ![r] = "over"] /\ out' = [out EXCEPT ![r] = Append(out[r], Done)]
      BY <1>2, <1>4, <1>6
    <2>2. pc'[r] = "over" /\ out'[r] = Append(out[r], Done)
      BY <2>1 DEF StreamInv, StreamShape
    <2>3. Touches(r)
      BY <1>2, <1>4, <2>1, <2>2 DEF Touches, StreamInv, StreamShape
    <2>4. /\ out'[r] \in Seq(Events) /\ Len(out'[r]) = Len(out[r]) + 1
          /\ out'[r][Len(out[r]) + 1] = Done
          /\ \A i \in 1..Len(out[r]) : out'[r][i] = out[r][i]
      BY <1>1, <2>2, DoneShape, Appended
    <2>5. Complete(r)'
      <3>1. Len(out[r]) = Len(sent[r]) /\ \A i \in DOMAIN sent[r] : out[r][i].type = sent[r][i].content
        BY <1>3, <1>6 DEF EchoSoFar
      <3>2. DOMAIN sent[r] = 1..Len(sent[r])
        BY <1>1
      <3>3. sent'[r] = sent[r] /\ ~Chat(r)'
        BY <1>2, <1>4, <1>6
      <3>4. \A i \in DOMAIN sent[r] : out'[r][i].type = sent[r][i].content
        BY <2>4, <3>1, <3>2
      <3>5. Len(out'[r]) > 0 /\ out'[r][Len(out'[r])] = Done /\ Len(out'[r]) = Len(sent[r]) + 1
        BY <1>1, <2>4, <3>1
      <3> QED
        BY <3>3, <3>4, <3>5 DEF Complete
    <2>6. Stage(r)'
      BY <1>4, <2>2, <2>5 DEF Stage
    <2> QED
      BY <1>1, <1>2, <2>2, <2>3, <2>4, <2>6, OneStream DEF StreamInv, StreamShape, States
  <1> QED
    BY <1>5, <1>6

\* The done of a text stays where it is.
LEMMA DoneStays ==
    ASSUME NEW r, out[r] \in Seq(Events), NEW e \in Events, out'[r] = Append(out[r], e),
           sent'[r] = sent[r], NEW n, TextDone(r, n)
    PROVE  n \in DOMAIN out'[r] /\ out'[r][n].type = "response.output_text.done"
           /\ IsWholeText(out'[r][n].text, sent'[r])
  BY Appended DEF TextDone

LEMMA ClosingStream ==
    ASSUME StreamInv, NEW r \in Requests, Closing(r)
    PROVE  StreamInv'
  <1> DEFINE n == Len(out[r])
             last == out[r][n].type
  <1>1. /\ out[r] \in Seq(Events) /\ n \in Nat /\ sent[r] \in Seq(Chunks)
        /\ text[r] \in Seq(Nat) /\ usage[r] \in {None, "usage"}
    BY DEF StreamInv, StreamShape
  <1>2. /\ pc[r] = "closing" /\ sent' = sent /\ usage' = usage /\ text' = text
        /\ stream' = stream /\ protocol' = protocol /\ upstream' = upstream
        /\ \/ /\ last = "response.output_text.done" /\ pc' = pc
              /\ out' = [out EXCEPT ![r] = Append(out[r], Plain(r, "response.output_item.done"))]
           \/ /\ last = "response.output_item.done" /\ pc' = [pc EXCEPT ![r] = "over"]
              /\ out' = [out EXCEPT ![r] = Append(out[r], Done)]
           \/ /\ pc' = pc
              /\ out' = [out EXCEPT ![r] = Append(out[r],
                            Event("response.output_text.done", n, text[r], usage[r]))]
    BY DEF Closing, Goto, Emit, found, Last
  <1>3. /\ Chat(r) /\ stream[r] /\ ChatSoFar(r) /\ upstream[r] = "ended"
        /\ last = "response.output_text.done" => TextDone(r, n)
        /\ last = "response.output_item.done" => TextDone(r, n - 1)
    BY <1>2 DEF StreamInv, Stage
  <1>4. Chat(r)' /\ stream'[r] /\ upstream'[r] = "ended" /\ sent'[r] = sent[r] /\ text'[r] = text[r]
    BY <1>2, <1>3 DEF Chat
  <1>5. CASE /\ last = "response.output_text.done" /\ pc' = pc
             /\ out' = [out EXCEPT ![r] = Append(out[r], Plain(r, "response.output_item.done"))]
    <2> DEFINE e == Plain(r, "response.output_item.done")
    <2>1. /\ e \in Events /\ e.type = "response.output_item.done" /\ e.seq = n /\ e.text = <<>>
      <3>1. "response.output_item.done" \in EventTypes
        BY DEF EventTypes
      <3> QED
        BY <1>1, <3>1, PlainShape
    <2>2. pc'[r] = "closing" /\ out'[r] = Append(out[r], e)
      BY <1>2, <1>5 DEF StreamInv, StreamShape
    <2>3. Touches(r)
      BY <1>2, <1>5, <2>2 DEF Touches, StreamInv, StreamShape
    <2> HIDE DEF e
    <2>4. ChatSoFar(r)' /\ out'[r] # <<>> /\ out'[r] \in Seq(Events)
      BY <1>1, <1>3, <1>4, <2>1, <2>2, ChatGoesOn
    <2>5. Len(out'[r]) = n + 1 /\ out'[r][n + 1] = e
      BY <1>1, <2>1, <2>2, Appended
    <2>6. /\ n \in DOMAIN out'[r] /\ out'[r][n].type = "response.output_text.done"
          /\ IsWholeText(out'[r][n].text, sent'[r])
      <3>1. TextDone(r, n)
        BY <1>3, <1>5
      <3> QED
        BY <1>1, <1>4, <2>1, <2>2, <3>1, DoneStays
    <2>7. TextDone(r, Len(out[r]) - 1)'
      <3>1. Len(out'[r]) - 1 = n
        BY <1>1, <2>5
      <3> QED
        BY <2>6, <3>1 DEF TextDone
    <2>8. Stage(r)'
      BY <1>4, <2>1, <2>2, <2>4, <2>5, <2>7 DEF Stage
    <2> QED
      BY <1>1, <1>2, <2>2, <2>3, <2>4, <2>8, OneStream DEF States
  <1>6. CASE /\ last = "response.output_item.done" /\ pc' = [pc EXCEPT ![r] = "over"]
             /\ out' = [out EXCEPT ![r] = Append(out[r], Done)]
    <2>1. pc'[r] = "over" /\ out'[r] = Append(out[r], Done)
      BY <1>6 DEF StreamInv, StreamShape
    <2>2. Touches(r)
      BY <1>2, <1>6, <2>1 DEF Touches, StreamInv, StreamShape
    <2>3. /\ out'[r] \in Seq(Events) /\ Len(out'[r]) = n + 1 /\ out'[r][n + 1] = Done
          /\ \A i \in 1..n : out'[r][i] = out[r][i]
      BY <1>1, <2>1, DoneShape, Appended
    <2>4. DeltasAreTheChoices(out'[r], sent'[r])
      BY <1>1, <1>3, <1>4, <2>1, DoneShape, OtherEvent DEF ChatSoFar
    <2>5. \A i \in 1..n : out'[r][i].seq = i - 1
      <3>1. Numbered(out[r]) /\ DOMAIN out[r] = 1..n
        BY <1>1, <1>3 DEF ChatSoFar
      <3> QED
        BY <2>3, <3>1 DEF Numbered
    <2>6. TextDone(r, Len(out[r]) - 2)'
      <3>1. (n + 1) - 2 = n - 1
        BY <1>1
      <3>2. TextDone(r, n - 1)
        BY <1>3, <1>6
      <3>3. /\ n - 1 \in DOMAIN out'[r] /\ out'[r][n - 1].type = "response.output_text.done"
            /\ IsWholeText(out'[r][n - 1].text, sent'[r])
        BY <1>1, <1>4, <2>1, <3>2, DoneShape, DoneStays
      <3> QED
        BY <2>3, <3>1, <3>3 DEF TextDone
    <2>7. Complete(r)'
      <3>1. Len(out'[r]) > 0 /\ out'[r][Len(out'[r])] = Done /\ Len(out'[r]) - 1 = n
        BY <1>1, <2>3
      <3> QED
        BY <1>4, <2>4, <2>5, <2>6, <3>1 DEF Complete
    <2>8. Stage(r)'
      BY <1>4, <2>1, <2>7 DEF Stage
    <2> QED
      BY <1>1, <1>2, <2>1, <2>2, <2>3, <2>8, OneStream DEF States
  <1>7. CASE /\ pc' = pc
             /\ out' = [out EXCEPT ![r] = Append(out[r],
                           Event("response.output_text.done", n, text[r], usage[r]))]
    <2> DEFINE e == Event("response.output_text.done", n, text[r], usage[r])
    <2>1. /\ e \in Events /\ e.type = "response.output_text.done" /\ e.seq = n /\ e.text = text[r]
      <3>1. "response.output_text.done" \in EventTypes
        BY DEF EventTypes
      <3> QED
        BY <1>1, <3>1, EventShape
    <2>2. pc'[r] = "closing" /\ out'[r] = Append(out[r], e)
      BY <1>2, <1>7 DEF StreamInv, StreamShape
    <2>3. Touches(r)
      BY <1>2, <1>7, <2>2 DEF Touches, StreamInv, StreamShape
    <2> HIDE DEF e
    <2>4. ChatSoFar(r)' /\ out'[r] # <<>> /\ out'[r] \in Seq(Events)
      BY <1>1, <1>3, <1>4, <2>1, <2>2, ChatGoesOn
    <2>5. Len(out'[r]) = n + 1 /\ out'[r][n + 1] = e /\ n + 1 \in DOMAIN out'[r]
      BY <1>1, <2>1, <2>2, Appended
    <2>6. IsWholeText(e.text, sent'[r])
      BY <1>3, <1>4, <2>1 DEF ChatSoFar
    <2>7. TextDone(r, Len(out[r]))'
      BY <2>1, <2>5, <2>6 DEF TextDone
    <2>8. Stage(r)'
      BY <1>4, <2>1, <2>2, <2>4, <2>5, <2>7 DEF Stage
    <2> QED
      BY <1>1, <1>2, <2>2, <2>3, <2>4, <2>8, OneStream DEF States
  <1> QED
    BY <1>2, <1>5, <1>6, <1>7

LEMMA StreamNext == StreamInv /\ [Next]_vars => StreamInv'
  <1> SUFFICES ASSUME StreamInv, [Next]_vars
               PROVE  StreamInv'
    OBVIOUS
  <1>1. CASE UNCHANGED vars
    <2>1. \A q \in Requests : SameStream(q)
      BY <1>1 DEF vars, SameStream
    <2>2. \A q \in Requests : Stage(q)'
      BY <2>1, SameStage DEF StreamInv
    <2> QED
      BY <1>1, <2>2 DEF vars, StreamInv, StreamShape
  <1>2. ASSUME NEW r \in Requests, ChunkArrives(r)
        PROVE  StreamInv'
    <2>1. PICK c \in IF protocol[r] = "openai_chat" THEN ChatChunks ELSE ResponsesChunks :
              sent' = [sent EXCEPT ![r] = Append(@, c)] /\ (ChatChunk(r, c) \/ ResponsesChunk(r, c))
      BY <1>2 DEF ChunkArrives
    <2>2. pc[r] = "reading" /\ UNCHANGED <<found, upstream>>
      BY <1>2 DEF ChunkArrives
    <2>3. CASE ChatChunk(r, c)
      <3>1. c \in ChatChunks
        BY <2>1, <2>3 DEF ChatChunk
      <3> QED
        BY <2>1, <2>2, <2>3, <3>1, ChatChunkStream
    <2>4. CASE ResponsesChunk(r, c)
      <3>1. c \in ResponsesChunks
        BY <2>1, <2>4 DEF ResponsesChunk
      <3> QED
        BY <2>1, <2>2, <2>4, <3>1, EchoChunkStream
    <2> QED
      BY <2>1, <2>3, <2>4
  <1>3. ASSUME NEW r \in Requests,
               \/ \E w \in Worlds[r], s, named \in BOOLEAN : Begin(r, w, s, named)
               \/ Handler(r) \/ CallReturns(r) \/ UpstreamEnds(r) \/ UpstreamFails(r) \/ ClientLeaves(r)
        PROVE  StreamInv'
    BY <1>3, EarlyStream, ReturnStream, OpeningStream, QuietStream, EndsStream, ClosingStream DEF Handler
  <1> QED
    BY <1>1, <1>2, <1>3 DEF Next, Upstream

\* A stream says that it is complete exactly if its upstream ended in order, and
\* then its deltas are the chunks with a choice and its text is all of theirs.
THEOREM CompleteMeansWhole == Spec => []DoneIsWhole
  <1>1. Init => StreamInv
    <2> SUFFICES ASSUME Init
                 PROVE  StreamInv
      OBVIOUS
    <2>1. StreamShape
      BY NothingYet DEF Init, StreamShape, States
    <2>2. \A r \in Requests : Fresh(r) /\ pc[r] = "idle"
      BY DEF Init, Fresh
    <2> QED
      BY <2>1, <2>2 DEF StreamInv, Stage
  <1>2. StreamInv /\ [Next]_vars => StreamInv'
    BY StreamNext
  <1>3. StreamInv => DoneIsWhole
    <2> SUFFICES ASSUME StreamInv, NEW r \in Requests
                 PROVE  DoneIsWhole!(r)
      BY DEF DoneIsWhole
    <2>1. CASE Over(r) /\ upstream[r] = "ended"
      <3>1. Complete(r)
        BY <2>1 DEF StreamInv, Stage, Over
      <3>2. out[r] \in Seq(Events) /\ Len(out[r]) \in Nat /\ sent[r] \in Seq(Chunks)
        BY DEF StreamInv, StreamShape
      <3>3. "[DONE]" \in Types(r)
        <4>1. Len(out[r]) \in DOMAIN out[r] /\ out[r][Len(out[r])].type = "[DONE]"
          BY <3>1, <3>2, DoneShape DEF Complete
        <4> QED
          BY <4>1 DEF Types
      <3>4. ASSUME ~Chat(r)
            PROVE  [i \in DOMAIN sent[r] |-> sent[r][i].content]
                      = [i \in 1..(Len(out[r]) - 1) |-> out[r][i].type]
        <4>1. DOMAIN sent[r] = 1..(Len(out[r]) - 1)
          BY <3>1, <3>2, <3>4 DEF Complete
        <4>2. \A i \in DOMAIN sent[r] : out[r][i].type = sent[r][i].content
          BY <3>1, <3>4 DEF Complete
        <4> QED
          BY <4>1, <4>2
      <3> QED
        BY <2>1, <3>1, <3>3, <3>4 DEF Complete, TextDone
    <2>2. CASE ~(Over(r) /\ upstream[r] = "ended")
      <3>1. NotDone(out[r])
        <4>1. pc[r] \in States /\ Stage(r)
          BY DEF StreamInv, StreamShape
        <4>2. CASE pc[r] \in {"idle", "repository", "call", "calling"}
          BY <4>1, <4>2, NothingYet DEF Stage, Fresh
        <4>3. CASE pc[r] \in {"opening", "next", "reading", "closing"}
          BY <4>1, <4>3 DEF Stage, ChatSoFar, EchoSoFar
        <4>4. CASE pc[r] = "over"
          BY <2>2, <4>1, <4>4 DEF Stage, Over
        <4> QED
          BY <4>1, <4>2, <4>3, <4>4 DEF States
      <3>2. "[DONE]" \notin Types(r)
        BY <3>1 DEF Types, NotDone
      <3> QED
        BY <2>2, <3>2
    <2> QED
      BY <2>1, <2>2
  <1> QED
    BY <1>1, <1>2, <1>3, PTL DEF Spec

-----------------------------------------------------------------------------
(* Sequences that are joined.  Induction over their length is over the set  *)
(* of the lengths up to it that have what is proved.                        *)

\* A set of naturals has a smallest member.
LEMMA HasMin ==
    ASSUME NEW S \in SUBSET Nat, S # {}
    PROVE  \E q \in S : \A r \in S : q <= r
  <1> DEFINE R == {ss \in Nat \X Nat : ss[1] < ss[2]}
  <1>1. IsWellFoundedOn(R, Nat)
    BY NatLessThanWellFounded DEF OpToRel
  <1>2. PICK q \in S : \A r \in S : <<r, q>> \notin R
    <2> HIDE DEF R
    <2> QED
      BY <1>1, WFMin
  <1>3. ASSUME NEW r \in S PROVE q <= r
    <2>1. q \in Nat /\ r \in Nat /\ ~(r < q)
      BY <1>2
    <2> QED
      BY <2>1
  <1> QED
    BY <1>3

\* Induction up to n, over the set of the numbers that have what is proved.
LEMMA UpToInduction ==
    ASSUME NEW n \in Nat, NEW S, 0 \in S,
           \A m \in 1..n : m - 1 \in S => m \in S
    PROVE  0..n \subseteq S
  <1>1. SUFFICES ASSUME (0..n) \ S # {} PROVE FALSE
    OBVIOUS
  <1>2. PICK q \in (0..n) \ S : \A r \in (0..n) \ S : q <= r
    <2>1. (0..n) \ S \in SUBSET Nat
      OBVIOUS
    <2> QED
      BY <1>1, <2>1, HasMin
  <1>3. q \in 1..n /\ q - 1 \in 0..n /\ ~(q <= q - 1)
    BY <1>2
  <1>4. q - 1 \in S
    BY <1>2, <1>3
  <1> QED
    BY <1>2, <1>3, <1>4

\* The elements of s joined one by one.
Joined(s, n, joined) ==
    /\ joined[0] = <<>>
    /\ \A m \in 1..n : joined[m] = joined[m - 1] \o s[m]

\* FlattenSeq joins the elements of a sequence of sequences.
LEMMA Joining ==
    ASSUME NEW T, NEW s \in Seq(Seq(T))
    PROVE  \E joined \in [0..Len(s) -> Seq(T)] :
              Joined(s, Len(s), joined) /\ FlattenSeq(s) = joined[Len(s)]
  <1> DEFINE n == Len(s)
             S == {m \in 0..n : \E j \in [0..m -> Seq(T)] : Joined(s, m, j)}
  <1>1. n \in Nat /\ DOMAIN s = 1..n /\ \A m \in 1..n : s[m] \in Seq(T)
    OBVIOUS
  <1>2. 0 \in S
    <2> DEFINE j == [m \in 0..0 |-> <<>>]
    <2>1. j \in [0..0 -> Seq(T)]
      OBVIOUS
    <2>2. Joined(s, 0, j)
      BY DEF Joined
    <2>3. 0 \in 0..n
      BY <1>1
    <2> HIDE DEF j
    <2> QED
      BY <2>1, <2>2, <2>3
  <1>3. ASSUME NEW m \in 1..n, m - 1 \in S
        PROVE  m \in S
    <2>1. PICK j \in [0..(m - 1) -> Seq(T)] : Joined(s, m - 1, j)
      BY <1>3
    <2> DEFINE k == [i \in 0..m |-> IF i = m THEN j[m - 1] \o s[m] ELSE j[i]]
    <2>2. j[m - 1] \in Seq(T) /\ s[m] \in Seq(T)
      BY <1>1, <2>1
    <2>3. j[m - 1] \o s[m] \in Seq(T)
      BY <2>2
    <2>4. k \in [0..m -> Seq(T)]
      <3>1. \A i \in 0..m : i # m => i \in 0..(m - 1)
        BY <1>1
      <3>2. \A i \in 0..m : k[i] \in Seq(T)
        BY <2>1, <2>3, <3>1
      <3> QED
        BY <3>2
    <2>5. k[0] = <<>>
      BY <1>1, <2>1 DEF Joined
    <2>6. \A i \in 1..m : k[i] = k[i - 1] \o s[i]
      <3> SUFFICES ASSUME NEW i \in 1..m
                   PROVE  k[i] = k[i - 1] \o s[i]
        OBVIOUS
      <3>1. i - 1 \in 0..m /\ i - 1 # m /\ k[i - 1] = j[i - 1]
        BY <1>1
      <3>2. i # m => i \in 1..(m - 1) /\ k[i] = j[i]
        BY <1>1
      <3>3. \A l \in 1..(m - 1) : j[l] = j[l - 1] \o s[l]
        BY <2>1 DEF Joined
      <3> HIDE DEF k
      <3>4. k[m] = j[m - 1] \o s[m]
        BY <1>1 DEF k
      <3> QED
        BY <3>1, <3>2, <3>3, <3>4
    <2>7. Joined(s, m, k)
      BY <2>5, <2>6 DEF Joined
    <2> HIDE DEF k
    <2> QED
      BY <1>1, <2>4, <2>7
  <1>4. n \in S
    <2> HIDE DEF S
    <2>1. 0..n \subseteq S
      BY <1>1, <1>2, <1>3, UpToInduction
    <2> QED
      BY <1>1, <2>1
  <1>5. PICK j \in [0..n -> Seq(T)] : Joined(s, n, j)
    BY <1>4
  <1>6. ASSUME n = 0
        PROVE  FlattenSeq(s) = j[n]
    BY <1>5, <1>6 DEF FlattenSeq, Joined
  <1>7. ASSUME n # 0
        PROVE  FlattenSeq(s) = j[n]
    <2> DEFINE P(h) == h = [i \in 1..n |-> IF i = 1 THEN s[i] ELSE h[i - 1] \o s[i]]
               g == [i \in 1..n |-> j[i]]
    <2>1. FlattenSeq(s) = (CHOOSE h : P(h))[n]
      BY <1>7 DEF FlattenSeq
    <2>2. j[1] = s[1]
      <3>1. 1 \in 1..n /\ s[1] \in Seq(T)
        BY <1>1, <1>7
      <3>2. j[1] = j[0] \o s[1] /\ j[0] = <<>>
        <4>1. \A m \in 1..n : j[m] = j[m - 1] \o s[m]
          BY <1>5 DEF Joined
        <4>2. 1 - 1 = 0
          OBVIOUS
        <4>3. j[1] = j[1 - 1] \o s[1]
          BY <3>1, <4>1
        <4> QED
          BY <1>5, <4>2, <4>3 DEF Joined
      <3>3. <<>> \o s[1] = s[1]
        BY <3>1
      <3> QED
        BY <3>2, <3>3
    <2>3. \A i \in 1..n : g[i] = (IF i = 1 THEN s[i] ELSE g[i - 1] \o s[i])
      <3> SUFFICES ASSUME NEW i \in 1..n, i # 1
                   PROVE  g[i] = g[i - 1] \o s[i]
        BY <2>2
      <3>1. i - 1 \in 1..n /\ g[i] = j[i] /\ g[i - 1] = j[i - 1]
        BY <1>1
      <3>2. j[i] = j[i - 1] \o s[i]
        BY <1>5 DEF Joined
      <3> HIDE DEF g
      <3> QED
        BY <3>1, <3>2
    <2>4. P(g) /\ \A h : P(h) => h = g
      <3> HIDE DEF g
      <3>1. g = [i \in 1..n |-> g[i]]
        BY DEF g
      <3>2. P(g)
        BY <2>3, <3>1
      <3>3. ASSUME NEW h, P(h)
            PROVE  h = g
        <4> DEFINE E == {0} \cup {m \in 1..n : h[m] = g[m]}
        <4>1. ASSUME NEW m \in 1..n, m - 1 \in E
              PROVE  m \in E
          <5>1. h[m] = IF m = 1 THEN s[m] ELSE h[m - 1] \o s[m]
            BY <3>3
          <5>2. g[m] = IF m = 1 THEN s[m] ELSE g[m - 1] \o s[m]
            BY <2>3
          <5>3. m # 1 => h[m - 1] = g[m - 1]
            BY <1>1, <4>1
          <5> QED
            BY <5>1, <5>2, <5>3
        <4>2. 0..n \subseteq E
          <5>1. 0 \in E
            OBVIOUS
          <5> HIDE DEF E
          <5> QED
            BY <1>1, <4>1, <5>1, UpToInduction
        <4>3. \A m \in 1..n : h[m] = g[m]
          <5> SUFFICES ASSUME NEW m \in 1..n
                       PROVE  h[m] = g[m]
            OBVIOUS
          <5>1. m \in 0..n /\ m # 0
            BY <1>1
          <5> QED
            BY <4>2, <5>1
        <4>4. h = [i \in 1..n |-> h[i]]
          BY <3>3
        <4> QED
          BY <3>1, <4>3, <4>4
      <3> QED
        BY <3>2, <3>3
    <2>5. (CHOOSE h : P(h)) = g
      <3> HIDE DEF P, g
      <3> QED
        BY <2>4
    <2>6. g[n] = j[n]
      BY <1>1, <1>7
    <2> HIDE DEF P, g, n
    <2> QED
      BY <2>1, <2>5, <2>6
  <1> QED
    BY <1>5, <1>6, <1>7

\* The positions f, in order and without a gap those of keep, with what g has there.
Picks(f, result, keep, g) ==
    /\ Increasing(f)
    /\ \A k \in keep : \E p \in DOMAIN f : f[p] = k
    /\ \A p \in DOMAIN f : result[p] = g[f[p]]

\* What a sequence has left when the positions in keep are kept, in their order.
LEMMA Filtered ==
    ASSUME NEW n \in Nat, NEW keep \in SUBSET (1..n), NEW T, NEW g \in [1..n -> T], NEW s,
           s = [i \in 1..n |-> IF i \in keep THEN <<g[i]>> ELSE <<>>]
    PROVE  /\ FlattenSeq(s) \in Seq(T)
           /\ \E f \in [1..Len(FlattenSeq(s)) -> keep] : Picks(f, FlattenSeq(s), keep, g)
  <1>1. s \in Seq(Seq(T)) /\ Len(s) = n
    <2>1. \A i \in 1..n : (IF i \in keep THEN <<g[i]>> ELSE <<>>) \in Seq(T)
      OBVIOUS
    <2> QED
      BY <2>1
  <1>2. PICK j \in [0..n -> Seq(T)] : Joined(s, n, j) /\ FlattenSeq(s) = j[n]
    BY <1>1, Joining
  <1> DEFINE Good(m, f) ==
                /\ Increasing(f)
                /\ \A k \in keep : k <= m => \E p \in 1..Len(j[m]) : f[p] = k
                /\ \A p \in 1..Len(j[m]) : f[p] <= m /\ j[m][p] = g[f[p]]
             S == {m \in 0..n : \E f \in [1..Len(j[m]) -> keep] : Good(m, f)}
  <1>3. 0 \in S
    <2> DEFINE f == [p \in {} |-> 0]
    <2>1. j[0] = <<>> /\ 1..Len(j[0]) = {}
      BY <1>2 DEF Joined
    <2>2. f \in [1..Len(j[0]) -> keep]
      BY <2>1
    <2>3. Good(0, f)
      BY <2>1 DEF Increasing
    <2> HIDE DEF f
    <2> QED
      BY <2>2, <2>3
  <1>4. ASSUME NEW m \in 1..n, m - 1 \in S
        PROVE  m \in S
    <2>1. PICK f \in [1..Len(j[m - 1]) -> keep] : Good(m - 1, f)
      BY <1>4
    <2>2. m \in 0..n /\ m - 1 \in 0..n /\ j[m - 1] \in Seq(T) /\ j[m] = j[m - 1] \o s[m]
      <3>1. m \in 0..n /\ m - 1 \in 0..n
        OBVIOUS
      <3> QED
        BY <1>2, <3>1 DEF Joined
    <2> DEFINE L == Len(j[m - 1])
    <2>3. L \in Nat
      BY <2>2
    <2>6. \A p \in 1..L : /\ f[p] \in keep /\ f[p] \in Int /\ f[p] <= m - 1
                          /\ j[m - 1][p] = g[f[p]]
      <3>1. \A p \in 1..L : f[p] \in keep
        OBVIOUS
      <3>2. \A k \in keep : k \in Int
        OBVIOUS
      <3> QED
        BY <2>1, <3>1, <3>2
    <2>7. \A k \in keep : k \in Int
      OBVIOUS
    <2>4. CASE m \notin keep
      <3>1. s[m] = <<>>
        BY <2>4
      <3>2. j[m] = j[m - 1]
        BY <2>2, <3>1
      <3>3. Good(m, f)
        <4>1. \A k \in keep : k <= m => k <= m - 1
          BY <2>4, <2>7
        <4>2. \A p \in 1..Len(j[m]) : f[p] <= m
          BY <2>6, <3>2
        <4> QED
          BY <2>1, <3>2, <4>1, <4>2
      <3> HIDE DEF Good
      <3> QED
        BY <2>1, <2>2, <3>2, <3>3
    <2>5. CASE m \in keep
      <3> DEFINE h == [p \in 1..(L + 1) |-> IF p = L + 1 THEN m ELSE f[p]]
      <3>1. s[m] = <<g[m]>> /\ g[m] \in T
        BY <2>5
      <3>2. Len(j[m]) = L + 1 /\ j[m][L + 1] = g[m] /\ \A p \in 1..L : j[m][p] = j[m - 1][p]
        BY <2>2, <3>1
      <3>3. h[L + 1] = m /\ DOMAIN h = 1..(L + 1) /\ \A p \in 1..L : h[p] = f[p]
        BY <2>3
      <3>4. h \in [1..Len(j[m]) -> keep]
        BY <2>1, <2>3, <2>5, <3>2
      <3> HIDE DEF h
      <3>5. \A p \in 1..L : f[p] < m /\ f[p] <= m
        BY <2>6
      <3>10. L + 1 \in 1..(L + 1) /\ m \in keep
        BY <2>3, <2>5
      <3>6. Increasing(h)
        <4> SUFFICES ASSUME NEW p \in 1..(L + 1), NEW q \in 1..(L + 1), p < q
                     PROVE  h[p] < h[q]
          BY <3>3 DEF Increasing
        <4>1. p \in 1..L
          BY <2>3
        <4>2. CASE q = L + 1
          BY <3>3, <3>5, <4>1, <4>2
        <4>3. CASE q # L + 1
          <5>1. q \in 1..L
            BY <2>3, <4>3
          <5> QED
            BY <2>1, <3>3, <4>1, <5>1 DEF Increasing
        <4> QED
          BY <4>2, <4>3
      <3>7. \A k \in keep : k <= m => \E p \in 1..Len(j[m]) : h[p] = k
        <4> SUFFICES ASSUME NEW k \in keep, k <= m
                     PROVE  \E p \in 1..Len(j[m]) : h[p] = k
          OBVIOUS
        <4>1. CASE k = m
          BY <3>2, <3>3, <3>10, <4>1
        <4>2. CASE k # m
          <5>1. k <= m - 1
            BY <2>7, <4>2
          <5>2. PICK p \in 1..L : f[p] = k
            BY <2>1, <5>1
          <5> QED
            BY <2>3, <3>2, <3>3, <5>2
        <4> QED
          BY <4>1, <4>2
      <3>8. \A p \in 1..Len(j[m]) : h[p] <= m /\ j[m][p] = g[h[p]]
        <4> SUFFICES ASSUME NEW p \in 1..(L + 1)
                     PROVE  h[p] <= m /\ j[m][p] = g[h[p]]
          BY <3>2
        <4>1. CASE p = L + 1
          BY <3>2, <3>3, <4>1
        <4>2. CASE p # L + 1
          <5>1. p \in 1..L
            BY <2>3, <4>2
          <5> QED
            BY <2>6, <3>2, <3>3, <3>5, <5>1
        <4> QED
          BY <4>1, <4>2
      <3>9. Good(m, h)
        BY <3>6, <3>7, <3>8
      <3> HIDE DEF Good
      <3> QED
        BY <2>2, <3>4, <3>9
    <2> QED
      BY <2>4, <2>5
  <1>5. n \in S
    <2> HIDE DEF S
    <2>1. 0..n \subseteq S
      BY <1>3, <1>4, UpToInduction
    <2> QED
      BY <2>1
  <1>6. PICK f \in [1..Len(j[n]) -> keep] : Good(n, f)
    BY <1>5
  <1>7. n \in 0..n /\ \A k \in keep : k <= n
    OBVIOUS
  <1>8. FlattenSeq(s) \in Seq(T)
    BY <1>2, <1>7
  <1>9. /\ Increasing(f)
        /\ \A k \in keep : \E p \in DOMAIN f : f[p] = k
        /\ \A p \in DOMAIN f : j[n][p] = g[f[p]]
    BY <1>6, <1>7
  <1> QED
    BY <1>2, <1>8, <1>9 DEF Picks

-----------------------------------------------------------------------------
(* The conversions of single replies.                                       *)

\* A list as a function of its positions.
LEMMA Positions ==
    ASSUME NEW s, s \in Seq(Range(s))
    PROVE  Len(s) \in Nat /\ DOMAIN s = 1..Len(s) /\ s = [i \in 1..Len(s) |-> s[i]]
  OBVIOUS

\* An increasing list of some positions has as many as there are.
LEMMA Counted ==
    ASSUME NEW n \in Nat, NEW m \in Nat, NEW keep \in SUBSET (1..m), NEW f \in [1..n -> keep],
           Increasing(f), \A k \in keep : \E p \in DOMAIN f : f[p] = k
    PROVE  Cardinality(keep) = n
  <1>1. IsFiniteSet(1..n) /\ Cardinality(1..n) = n
    BY FS_Interval
  <1>2. \A p \in 1..n : f[p] \in Int
    <2>1. \A p \in 1..n : f[p] \in keep
      OBVIOUS
    <2>2. \A k \in keep : k \in Int
      OBVIOUS
    <2> QED
      BY <2>1, <2>2
  <1>3. ASSUME NEW p \in 1..n, NEW q \in 1..n, f[p] = f[q]
        PROVE  p = q
    <2>1. ~(f[p] < f[q]) /\ ~(f[q] < f[p])
      BY <1>2, <1>3
    <2>2. ~(p < q) /\ ~(q < p)
      BY <2>1 DEF Increasing
    <2> QED
      BY <2>2
  <1>4. f \in Bijection(1..n, keep)
    BY <1>3 DEF Bijection, Injection, Surjection, IsInjective
  <1> QED
    BY <1>1, <1>4, FS_Bijection DEF ExistsBijection

\* What becomes of an item the protocol knows: it keeps its type and an id, and
\* of a message or of reasoning each text.
LEMMA ItemKept ==
    ASSUME NEW item, item.parts \in Seq(Range(item.parts)), Known(item)
    PROVE  /\ ConvertItem(item).type = item.type
           /\ ConvertItem(item).id \in {item.id, item.call_id}
           /\ ConvertItem(item).type \in {"message", "reasoning"} =>
                 /\ Len(ConvertItem(item).parts) = Cardinality(Said(item))
                 /\ \A p \in Said(item) :
                       item.parts[p].text \in Range(Texts(ConvertItem(item).parts))
  <1> DEFINE parts == item.parts
             n == Len(parts)
  <1>1. n \in Nat /\ DOMAIN parts = 1..n
    BY Positions
  <1>2. ASSUME item.type \in {"function_call", "function_call_output"}
        PROVE  ConvertItem(item).type = item.type /\ ConvertItem(item).id = item.call_id
    BY <1>2 DEF ConvertItem, Item
  <1>3. CASE item.type = "reasoning"
    <2> DEFINE kept == [i \in DOMAIN parts |-> Input(parts[i])]
    <2>1. ConvertItem(item) = Item("reasoning", item.id, None, None, kept)
      BY <1>3 DEF ConvertItem
    <2>2. Said(item) = 1..n
      BY <1>1, <1>3 DEF Said
    <2>3. Len(kept) = n
      BY <1>1
    <2>4. Cardinality(1..n) = n
      BY <1>1, FS_Interval
    <2>5. \A p \in 1..n : p \in DOMAIN Texts(kept) /\ Texts(kept)[p] = parts[p].text
      BY <1>1 DEF Texts, Input, Part
    <2> HIDE DEF kept
    <2> QED
      BY <1>3, <2>1, <2>2, <2>3, <2>4, <2>5 DEF Item, Range
  <1>4. CASE item.type = "message"
    <2> DEFINE keep == {i \in 1..n : IsText(parts[i])}
               g == [i \in 1..n |-> Input(parts[i])]
               T == {Input(parts[i]) : i \in 1..n}
               s == [i \in 1..n |-> IF i \in keep THEN <<g[i]>> ELSE <<>>]
               kept == FlattenSeq(s)
    <2>1. s = [i \in DOMAIN parts |-> IF IsText(parts[i]) THEN <<Input(parts[i])>> ELSE <<>>]
      BY <1>1
    <2>2. ConvertItem(item) = Item("message", item.id, None, Status(item.status), kept)
      BY <1>4, <2>1 DEF ConvertItem
    <2>3. Said(item) = keep
      BY <1>1, <1>4 DEF Said, IsText
    <2>4. g \in [1..n -> T] /\ keep \in SUBSET (1..n)
      OBVIOUS
    <2>5. \A i \in 1..n : g[i].text = parts[i].text
      BY DEF Input, Part
    <2> HIDE DEF g, keep, T
    <2>6. /\ kept \in Seq(T)
          /\ \E f \in [1..Len(kept) -> keep]  : Picks(f, kept, keep, g)
      <3>1. s = [i \in 1..n |-> IF i \in keep THEN <<g[i]>> ELSE <<>>]
        OBVIOUS
      <3> HIDE DEF s, n
      <3> QED
        BY <1>1, <2>4, <3>1, Filtered
    <2> HIDE DEF kept
    <2>7. PICK f \in [1..Len(kept) -> keep]  : Picks(f, kept, keep, g)
      BY <2>6
    <2>8. Len(kept) \in Nat /\ DOMAIN kept = 1..Len(kept)
      BY <2>6
    <2>9. Cardinality(keep) = Len(kept)
      BY <1>1, <2>4, <2>7, <2>8, Counted DEF Picks
    <2>10. ASSUME NEW k \in keep
           PROVE  parts[k].text \in Range(Texts(kept))
      <3>1. PICK p \in 1..Len(kept) : kept[p] = g[k]
        BY <2>7 DEF Picks
      <3>2. Texts(kept)[p] = parts[k].text /\ p \in DOMAIN Texts(kept)
        BY <2>4, <2>5, <2>8, <3>1 DEF Texts
      <3> QED
        BY <3>2 DEF Range
    <2> QED
      BY <1>4, <2>2, <2>3, <2>9, <2>10 DEF Item
  <1> QED
    BY <1>2, <1>3, <1>4 DEF Known

\* What OutputsAreTheReply says of an output and the items it was made from.
Kept(output, value) ==
    \E f \in [DOMAIN output -> DOMAIN value] :
        /\ \A i, j \in DOMAIN output : i < j => f[i] < f[j]
        /\ \A k \in DOMAIN value : Known(value[k]) => k \in {f[i] : i \in DOMAIN output}
        /\ \A i \in DOMAIN output :
              LET item == value[f[i]] IN
              /\ output[i].type = item.type
              /\ output[i].id \in {item.id, item.call_id}
              /\ output[i].type \in {"message", "reasoning"} =>
                    /\ Len(output[i].parts) = Cardinality(Said(item))
                    /\ \A p \in Said(item) : item.parts[p].text \in Range(Texts(output[i].parts))

LEMMA ResponseKept ==
    ASSUME NEW value, value \in Seq(Range(value)),
           \A i \in DOMAIN value : value[i].parts \in Seq(Range(value[i].parts))
    PROVE  Kept(FromResponses(value), value)
  <1> DEFINE n == Len(value)
             keep == {i \in 1..n : Known(value[i])}
             g == [i \in 1..n |-> ConvertItem(value[i])]
             T == {ConvertItem(value[i]) : i \in 1..n}
             s == [i \in 1..n |-> IF i \in keep THEN <<g[i]>> ELSE <<>>]
             output == FlattenSeq(s)
  <1>1. n \in Nat /\ DOMAIN value = 1..n
    BY Positions
  <1>2. FromResponses(value) = output
    <2>1. s = [i \in DOMAIN value |-> IF Known(value[i]) THEN <<ConvertItem(value[i])>> ELSE <<>>]
      BY <1>1
    <2> QED
      BY <2>1 DEF FromResponses
  <1>3. g \in [1..n -> T] /\ keep \in SUBSET (1..n)
    OBVIOUS
  <1>4. \A i \in keep : i \in DOMAIN value /\ g[i] = ConvertItem(value[i]) /\ Known(value[i])
    BY <1>1
  <1>5. \A k \in DOMAIN value : Known(value[k]) => k \in keep
    BY <1>1
  <1> HIDE DEF g, keep, T
  <1>6. /\ output \in Seq(T)
        /\ \E f \in [1..Len(output) -> keep]  : Picks(f, output, keep, g)
    <2>1. s = [i \in 1..n |-> IF i \in keep THEN <<g[i]>> ELSE <<>>]
      OBVIOUS
    <2> HIDE DEF s, n
    <2> QED
      BY <1>1, <1>3, <2>1, Filtered
  <1> HIDE DEF output
  <1>7. PICK f \in [1..Len(output) -> keep]  : Picks(f, output, keep, g)
    BY <1>6
  <1>8. DOMAIN output = 1..Len(output)
    BY <1>6
  <1>9. f \in [DOMAIN output -> DOMAIN value]
    BY <1>4, <1>8
  <1>10. \A i, j \in DOMAIN output : i < j => f[i] < f[j]
    BY <1>7, <1>8 DEF Increasing, Picks
  <1>11. \A k \in DOMAIN value : Known(value[k]) => k \in {f[i] : i \in DOMAIN output}
    BY <1>5, <1>7, <1>8 DEF Picks
  <1>12. ASSUME NEW i \in DOMAIN output
         PROVE  LET item == value[f[i]] IN
                /\ output[i].type = item.type
                /\ output[i].id \in {item.id, item.call_id}
                /\ output[i].type \in {"message", "reasoning"} =>
                      /\ Len(output[i].parts) = Cardinality(Said(item))
                      /\ \A p \in Said(item) : item.parts[p].text \in Range(Texts(output[i].parts))
    <2>1. f[i] \in keep /\ output[i] = g[f[i]]
      BY <1>7, <1>8 DEF Picks
    <2>2. output[i] = ConvertItem(value[f[i]]) /\ Known(value[f[i]]) /\ f[i] \in DOMAIN value
      BY <1>4, <2>1
    <2> QED
      BY <2>2, ItemKept
  <1> QED
    BY <1>2, <1>9, <1>10, <1>11, <1>12 DEF Kept

\* An increasing list of all the positions up to n is those positions in order.
LEMMA AllInOrder ==
    ASSUME NEW n \in Nat, NEW f \in [1..n -> 1..n], Increasing(f),
           \A k \in 1..n : \E p \in DOMAIN f : f[p] = k
    PROVE  \A p \in 1..n : f[p] = p
  <1> DEFINE S == {0} \cup {m \in 1..n : f[m] = m}
  <1>1. \A p \in 1..n : f[p] \in 1..n
    OBVIOUS
  <1>2. ASSUME NEW m \in 1..n, m - 1 \in S
        PROVE  m \in S
    <2>1. PICK p \in 1..n : f[p] = m
      OBVIOUS
    <2>2. f[m] > m - 1
      <3>1. CASE m = 1
        BY <1>1, <3>1
      <3>2. CASE m # 1
        <4>1. m - 1 \in 1..n /\ f[m - 1] = m - 1 /\ m - 1 < m
          BY <1>2, <3>2
        <4>2. f[m - 1] < f[m]
          BY <4>1 DEF Increasing
        <4> QED
          BY <1>1, <4>1, <4>2
      <3> QED
        BY <3>1, <3>2
    <2>3. ~(m < p)
      <3>1. m < p => f[m] < f[p]
        BY DEF Increasing
      <3> QED
        BY <1>1, <2>1, <2>2, <3>1
    <2>4. ~(p < m)
      <3> SUFFICES ASSUME p < m PROVE FALSE
        OBVIOUS
      <3>1. m - 1 \in 1..n /\ f[m - 1] = m - 1 /\ p <= m - 1
        BY <1>2
      <3>2. p < m - 1 => f[p] < f[m - 1]
        BY <3>1 DEF Increasing
      <3>3. p = m - 1 => f[p] = m - 1
        BY <3>1
      <3> QED
        BY <1>1, <2>1, <3>1, <3>2, <3>3
    <2> QED
      BY <2>1, <2>3, <2>4
  <1>3. 0..n \subseteq S
    <2>1. 0 \in S
      OBVIOUS
    <2> HIDE DEF S
    <2> QED
      BY <1>2, <2>1, UpToInduction
  <1> SUFFICES ASSUME NEW p \in 1..n
               PROVE  f[p] = p
    OBVIOUS
  <1>4. p \in 0..n /\ p # 0
    OBVIOUS
  <1> QED
    BY <1>3, <1>4

\* The content of a choice; a missing one is the empty text.
TextOf(choice) == IF choice.content = None THEN "" ELSE choice.content

\* The messages made of choices say, turned back, what the choices said.
LEMMA ChoicesKept ==
    ASSUME NEW value, value \in Seq(Range(value))
    PROVE  /\ Len(ToChat(FromChoices(value)).content) = Len(value)
           /\ \A i \in DOMAIN value : ToChat(FromChoices(value)).content[i] = TextOf(value[i])
  <1> DEFINE n == Len(value)
             output == FromChoices(value)
             g == [i \in 1..n |-> TextOf(value[i])]
             T == {TextOf(value[i]) : i \in 1..n}
             s == [i \in 1..n |-> IF i \in 1..n THEN <<g[i]>> ELSE <<>>]
             content == FlattenSeq(s)
  <1>1. n \in Nat /\ DOMAIN value = 1..n
    BY Positions
  <1>2. DOMAIN output = 1..n
    BY <1>1 DEF FromChoices
  <1>3. \A i \in 1..n : output[i] = Item("message", i - 1, None, "completed", <<Part("input_text", TextOf(value[i]))>>)
    BY <1>1 DEF FromChoices, TextOf
  <1>4. \A i \in 1..n : output[i].type = "message" /\ output[i].parts = <<Part("input_text", TextOf(value[i]))>>
    <2> SUFFICES ASSUME NEW i \in 1..n
                 PROVE  /\ output[i].type = "message"
                        /\ output[i].parts = <<Part("input_text", TextOf(value[i]))>>
      OBVIOUS
    <2> DEFINE parts == <<Part("input_text", TextOf(value[i]))>>
    <2>1. output[i] = Item("message", i - 1, None, "completed", parts)
      BY <1>3
    <2> HIDE DEF parts, output, n
    <2>2. output[i].type = "message" /\ output[i].parts = parts
      BY <2>1 DEF Item
    <2> QED
      BY <2>2 DEF parts
  <1> HIDE DEF output, n
  <1>5. \A i \in 1..n : Texts(output[i].parts) = <<g[i]>>
    <2> SUFFICES ASSUME NEW i \in 1..n
                 PROVE  Texts(output[i].parts) = <<g[i]>>
      OBVIOUS
    <2> DEFINE part == Part("input_text", TextOf(value[i]))
    <2>1. part.text = g[i]
      BY DEF Part
    <2> HIDE DEF part
    <2>2. Texts(<<part>>) = <<part.text>>
      BY DEF Texts
    <2> QED
      BY <1>4, <2>1, <2>2 DEF part
  <1>6. ToChat(output).content = content
    <2>1. ~\E i \in DOMAIN output : Stumbles(output[i])
      BY <1>2, <1>4 DEF Stumbles
    <2>2. ToChat(output).content = Content(output)
      BY <2>1 DEF ToChat
    <2>3. s = [i \in DOMAIN output |->
                 IF output[i].type \in {"message", "reasoning"} THEN Texts(output[i].parts) ELSE <<>>]
      <3> HIDE DEF g
      <3> QED
        BY <1>2, <1>4, <1>5
    <2> HIDE DEF s
    <2> QED
      BY <2>2, <2>3 DEF Content
  <1>7. g \in [1..n -> T] /\ 1..n \in SUBSET (1..n)
    OBVIOUS
  <1>8. \A i \in 1..n : g[i] = TextOf(value[i])
    OBVIOUS
  <1> HIDE DEF g, T
  <1>9. content \in Seq(T) /\ \E f \in [1..Len(content) -> 1..n] : Picks(f, content, 1..n, g)
    <2>1. s = [i \in 1..n |-> IF i \in 1..n THEN <<g[i]>> ELSE <<>>]
      OBVIOUS
    <2> HIDE DEF s
    <2> QED
      BY <1>1, <1>7, <2>1, Filtered
  <1> HIDE DEF content
  <1>10. PICK f \in [1..Len(content) -> 1..n] : Picks(f, content, 1..n, g)
    BY <1>9
  <1>11. Len(content) \in Nat
    BY <1>9
  <1>12. Len(content) = n
    <2>1. Cardinality(1..n) = Len(content)
      BY <1>1, <1>7, <1>10, <1>11, Counted DEF Picks
    <2>2. Cardinality(1..n) = n
      BY <1>1, FS_Interval
    <2> QED
      BY <2>1, <2>2
  <1>13. \A p \in 1..n : f[p] = p
    BY <1>1, <1>10, <1>12, AllInOrder DEF Picks
  <1>14. \A p \in 1..n : content[p] = TextOf(value[p])
    BY <1>8, <1>10, <1>12, <1>13 DEF Picks
  <1> QED
    BY <1>1, <1>6, <1>12, <1>14 DEF n, output

-----------------------------------------------------------------------------
(* The single reply.                                                        *)

\* A request in its stream asked for one, and one that was answered in one piece
\* without an error got what its upstream said, converted.
Replied(r) ==
    /\ pc[r] \in {"opening", "next", "reading", "closing"} => stream[r]
    /\ pc[r] = "over" /\ ~stream[r] /\ answer[r].status = 200 =>
          /\ single[r] \in Replies[r]
          /\ Convert(single[r]) # Raised
          /\ answer[r].body = Convert(single[r])

ReplyInv ==
    /\ pc \in [Requests -> States]
    /\ stream = [r \in Requests |-> stream[r]]
    /\ single = [r \in Requests |-> single[r]]
    /\ answer = [r \in Requests |-> answer[r]]
    /\ \A r \in Requests : Replied(r)

\* A step that touches one request.
LEMMA OneReply ==
    ASSUME ReplyInv, NEW r \in Requests,
           NEW s \in States, pc' = [pc EXCEPT ![r] = s],
           stream' = [stream EXCEPT ![r] = stream'[r]],
           single' = [single EXCEPT ![r] = single'[r]],
           answer' = [answer EXCEPT ![r] = answer'[r]],
           Replied(r)'
    PROVE  ReplyInv'
  <1>1. \A q \in Requests : q # r =>
            pc'[q] = pc[q] /\ stream'[q] = stream[q] /\ single'[q] = single[q] /\ answer'[q] = answer[q]
    BY DEF ReplyInv
  <1>2. \A q \in Requests : q # r => Replied(q)'
    BY <1>1 DEF ReplyInv, Replied
  <1> QED
    BY <1>2 DEF ReplyInv

\* A step that ends the request with an error.
LEMMA ErrorReply ==
    ASSUME ReplyInv, NEW r \in Requests, NEW status \in {400, 404, 500, 503}, NEW body,
           End(r, status, body), UNCHANGED single,
           stream' = [stream EXCEPT ![r] = stream'[r]]
    PROVE  ReplyInv'
  <1>1. pc' = [pc EXCEPT ![r] = "over"] /\ pc'[r] = "over"
    BY DEF End, Goto, ReplyInv
  <1>2. answer'[r].status = status /\ answer' = [answer EXCEPT ![r] = answer'[r]]
    BY DEF End, ReplyInv
  <1>3. single' = [single EXCEPT ![r] = single'[r]]
    BY DEF ReplyInv
  <1>4. Replied(r)'
    BY <1>1, <1>2 DEF Replied
  <1> QED
    BY <1>1, <1>2, <1>3, <1>4, OneReply DEF States

\* A step that answers nothing: of the lookup, or of a stream.
LEMMA NoReply ==
    ASSUME ReplyInv, NEW r \in Requests, NEW s \in States, pc' = [pc EXCEPT ![r] = s],
           UNCHANGED <<single, answer>>,
           stream' = [stream EXCEPT ![r] = stream'[r]],
           s \in {"repository", "call", "calling"} \/ stream'[r]
    PROVE  ReplyInv'
  <1>1. pc'[r] = s
    BY DEF ReplyInv
  <1>2. single' = [single EXCEPT ![r] = single'[r]] /\ answer' = [answer EXCEPT ![r] = answer'[r]]
    BY DEF ReplyInv
  <1>3. Replied(r)'
    BY <1>1 DEF Replied
  <1> QED
    BY <1>2, <1>3, OneReply

LEMMA ReplyNext == ReplyInv /\ [Next]_vars => ReplyInv'
  <1> SUFFICES ASSUME ReplyInv, [Next]_vars
               PROVE  ReplyInv'
    OBVIOUS
  <1>1. CASE UNCHANGED vars
    BY <1>1 DEF vars, ReplyInv, Replied
  <1>2. ASSUME NEW r \in Requests, NEW w \in Worlds[r], NEW s \in BOOLEAN, NEW named \in BOOLEAN,
               Begin(r, w, s, named)
        PROVE  ReplyInv'
    <2>1. stream' = [stream EXCEPT ![r] = stream'[r]] /\ UNCHANGED single
      BY <1>2 DEF Begin, ReplyInv
    <2>2. CASE named
      <3>1. pc' = [pc EXCEPT ![r] = "repository"] /\ UNCHANGED answer
        BY <1>2, <2>2 DEF Begin, Goto
      <3> QED
        BY <2>1, <3>1, NoReply DEF States
    <2>3. CASE ~named
      <3>1. End(r, 400, "error")
        BY <1>2, <2>3 DEF Begin
      <3> QED
        BY <2>1, <3>1, ErrorReply
    <2> QED
      BY <2>2, <2>3
  <1>3. ASSUME NEW r \in Requests,
               Handler(r) \/ Upstream(r) \/ ClientLeaves(r)
        PROVE  ReplyInv'
    <2>1. UNCHANGED stream
      BY <1>3 DEF Handler, Upstream, Ask, Call, Opening, Read, Closing, CallReturns, ChunkArrives,
                  UpstreamEnds, UpstreamFails, ClientLeaves, found
    <2>2. stream' = [stream EXCEPT ![r] = stream'[r]] /\ stream'[r] = stream[r]
      BY <2>1 DEF ReplyInv
    <2>3. CASE Ask(r)
      <3> DEFINE host == IF at[r] = 0 THEN Primary ELSE Trusted[at[r]]
                 reply == world[r][host]
      <3>1. UNCHANGED single
        BY <2>3 DEF Ask
      <3>2. \/ End(r, 500, "error")
            \/ Found(r, host, reply)
            \/ End(r, 404, "error")
            \/ UNCHANGED <<pc, answer>>
        BY <2>3 DEF Ask
      <3>3. CASE Found(r, host, reply)
        <4>1. \/ End(r, 400, "error") \/ End(r, 500, "error")
              \/ pc' = [pc EXCEPT ![r] = "call"] /\ UNCHANGED answer
          BY <3>3 DEF Found, Goto
        <4> QED
          BY <2>2, <3>1, <4>1, ErrorReply, NoReply DEF States
      <3>4. CASE UNCHANGED <<pc, answer>>
        <4>1. pc' = pc /\ answer' = answer /\ single' = single /\ stream' = stream
          BY <2>1, <3>1, <3>4
        <4> QED
          BY <4>1 DEF ReplyInv, Replied
      <3> HIDE DEF host, reply
      <3> QED
        BY <2>2, <3>1, <3>2, <3>3, <3>4, ErrorReply
    <2>4. CASE Call(r)
      <3>1. /\ UNCHANGED single
            /\ \/ pc' = [pc EXCEPT ![r] = "calling"] /\ UNCHANGED answer
               \/ End(r, 500, "error")
        BY <2>4 DEF Call, Goto
      <3> QED
        BY <2>2, <3>1, ErrorReply, NoReply DEF States
    <2>5. CASE CallReturns(r)
      <3>1. CASE /\ stream[r] /\ UNCHANGED single
                 /\ \/ Goto(r, IF protocol[r] = "openai_chat" THEN "opening" ELSE "next") /\ UNCHANGED answer
                    \/ End(r, 500, "error")
        <4>1. \/ pc' = [pc EXCEPT ![r] = "opening"] /\ UNCHANGED answer
              \/ pc' = [pc EXCEPT ![r] = "next"] /\ UNCHANGED answer
              \/ End(r, 500, "error")
          BY <3>1 DEF Goto
        <4>2. CASE End(r, 500, "error")
          BY <2>2, <3>1, <4>2, ErrorReply
        <4>3. ASSUME NEW s \in {"opening", "next"}, pc' = [pc EXCEPT ![r] = s], UNCHANGED answer
              PROVE  ReplyInv'
          BY <2>2, <3>1, <4>3, NoReply DEF States
        <4> QED
          BY <4>1, <4>2, <4>3
      <3>2. CASE ~stream[r] /\ UNCHANGED single /\ (End(r, 404, "error") \/ End(r, 503, "string"))
        BY <2>2, <3>2, ErrorReply
      <3>3. ASSUME NEW x \in Replies[r],
                   single' = [single EXCEPT ![r] = x],
                   IF Convert(x) = Raised THEN End(r, 500, "error") ELSE End(r, 200, Convert(x))
            PROVE  ReplyInv'
        <4> DEFINE raised == Convert(x) = Raised
                   status == IF raised THEN 500 ELSE 200
                   body == IF raised THEN "error" ELSE Convert(x)
        <4>1. End(r, status, body)
          BY <3>3
        <4>2. status = 200 => body = Convert(x) /\ Convert(x) # Raised
          OBVIOUS
        <4> HIDE DEF status, body
        <4>3. pc' = [pc EXCEPT ![r] = "over"] /\ pc'[r] = "over"
          BY <4>1 DEF End, Goto, ReplyInv
        <4>4. /\ answer'[r] = [status |-> status, body |-> body]
              /\ answer' = [answer EXCEPT ![r] = answer'[r]]
          BY <4>1 DEF End, ReplyInv
        <4>5. single'[r] = x /\ single' = [single EXCEPT ![r] = single'[r]]
          BY <3>3 DEF ReplyInv
        <4>6. Replied(r)'
          BY <4>2, <4>3, <4>4, <4>5 DEF Replied
        <4> QED
          BY <2>2, <4>3, <4>4, <4>5, <4>6, OneReply DEF States
      <3> QED
        BY <2>5, <3>1, <3>2, <3>3 DEF CallReturns
    <2>6. ASSUME pc[r] \in {"opening", "next", "reading", "closing"}, UNCHANGED <<single, answer>>,
                 NEW s \in States, pc' = [pc EXCEPT ![r] = s]
          PROVE  ReplyInv'
      <3>1. stream'[r]
        BY <2>2, <2>6 DEF ReplyInv, Replied
      <3> QED
        BY <2>2, <2>6, <3>1, NoReply
    <2>7. ASSUME Opening(r) \/ Read(r) \/ Closing(r) \/ ChunkArrives(r) \/ UpstreamEnds(r)
                 \/ UpstreamFails(r) \/ ClientLeaves(r)
          PROVE  ReplyInv'
      <3>1. pc[r] \in {"opening", "next", "reading", "closing"} /\ UNCHANGED <<single, answer>>
        BY <2>7 DEF Opening, Read, Closing, ChunkArrives, UpstreamEnds, UpstreamFails, ClientLeaves
      <3>2. \E s \in States : pc' = [pc EXCEPT ![r] = s]
        <4>1. ASSUME pc' = pc
              PROVE  pc' = [pc EXCEPT ![r] = pc[r]] /\ pc[r] \in States
          BY <4>1 DEF ReplyInv
        <4>2. CASE Opening(r)
          BY <4>2 DEF Opening, Goto, States
        <4>3. CASE Read(r)
          BY <4>3 DEF Read, Goto, States
        <4>4. CASE Closing(r)
          <5>1. pc' = pc \/ pc' = [pc EXCEPT ![r] = "over"]
            BY <4>4 DEF Closing, Goto
          <5> QED
            BY <4>1, <5>1 DEF States
        <4>5. CASE ChunkArrives(r)
          <5>1. pc' = [pc EXCEPT ![r] = "next"] \/ pc' = [pc EXCEPT ![r] = "over"]
            BY <4>5 DEF ChunkArrives, ChatChunk, ResponsesChunk, Goto
          <5> QED
            BY <5>1 DEF States
        <4>6. CASE UpstreamEnds(r)
          <5>1. pc' = [pc EXCEPT ![r] = "closing"] \/ pc' = [pc EXCEPT ![r] = "over"]
            BY <4>6 DEF UpstreamEnds, Goto
          <5> QED
            BY <5>1 DEF States
        <4>7. CASE UpstreamFails(r)
          BY <4>7 DEF UpstreamFails, AfterFailure, Goto, States
        <4>8. CASE ClientLeaves(r)
          BY <4>8 DEF ClientLeaves, Goto, States
        <4> QED
          BY <2>7, <4>2, <4>3, <4>4, <4>5, <4>6, <4>7, <4>8
      <3> QED
        BY <2>6, <3>1, <3>2
    <2> QED
      BY <1>3, <2>3, <2>4, <2>5, <2>7 DEF Handler, Upstream
  <1> QED
    BY <1>1, <1>2, <1>3 DEF Next

\* An answer in one piece is the conversion of what the upstream said.
LEMMA ReplyInvariant == Spec => []ReplyInv
  <1>1. Init => ReplyInv
    BY DEF Init, ReplyInv, Replied, States
  <1>2. ReplyInv /\ [Next]_vars => ReplyInv'
    BY ReplyNext
  <1> QED
    BY <1>1, <1>2, PTL DEF Spec

\* Nothing of a response is lost, repeated or moved: the items the protocol knows
\* are there, in order, with their texts, and nothing else is.
THEOREM ResponsesAreKept == Spec => []OutputsAreTheReply
  <1>1. ReplyInv => OutputsAreTheReply
    <2> SUFFICES ASSUME ReplyInv, NEW r \in Requests, Answered(r, "openresponses")
                 PROVE  Kept(answer[r].body.output, single[r].value)
      BY DEF OutputsAreTheReply, Kept
    <2> DEFINE x == single[r]
    <2>1. x \in Replies[r] /\ answer[r].body = Convert(x) /\ x.kind = "openresponses"
      BY DEF ReplyInv, Replied, Answered, Over
    <2>2. answer[r].body.output = FromResponses(x.value)
      BY <2>1 DEF Convert, ConvertResponse, Resource
    <2>3. /\ x.value \in Seq(Range(x.value))
          /\ \A i \in DOMAIN x.value : x.value[i].parts \in Seq(Range(x.value[i].parts))
      BY <2>1, RepliesAssumption
    <2> HIDE DEF x
    <2>4. Kept(FromResponses(x.value), x.value)
      BY <2>3, ResponseKept
    <2> QED
      BY <2>2, <2>4 DEF x
  <1> QED
    BY <1>1, ReplyInvariant, PTL

\* A chat completion turned into a response and back says the same.
THEOREM RoundTripKeepsTexts == Spec => []RoundTripKeepsText
  <1>1. ReplyInv => RoundTripKeepsText
    <2> SUFFICES ASSUME ReplyInv, NEW r \in Requests, Answered(r, "openai_chat")
                 PROVE  /\ Len(ToChat(answer[r].body.output).content) = Len(single[r].value)
                        /\ \A i \in DOMAIN single[r].value :
                              ToChat(answer[r].body.output).content[i] = TextOf(single[r].value[i])
      BY DEF RoundTripKeepsText, TextOf
    <2> DEFINE x == single[r]
    <2>1. /\ x \in Replies[r] /\ answer[r].body = Convert(x) /\ Convert(x) # Raised
          /\ x.kind = "openai_chat"
      BY DEF ReplyInv, Replied, Answered, Over
    <2>2. answer[r].body.output = FromChoices(x.value)
      BY <2>1 DEF Convert, ConvertChat, Resource
    <2>3. x.value \in Seq(Range(x.value))
      BY <2>1, RepliesAssumption
    <2> HIDE DEF x
    <2>4. /\ Len(ToChat(FromChoices(x.value)).content) = Len(x.value)
          /\ \A i \in DOMAIN x.value : ToChat(FromChoices(x.value)).content[i] = TextOf(x.value[i])
      BY <2>3, ChoicesKept
    <2> QED
      BY <2>2, <2>4 DEF x
  <1> QED
    BY <1>1, ReplyInvariant, PTL
=============================================================================
