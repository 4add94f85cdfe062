------------------------- MODULE RequestLimitProofs -------------------------
(***************************************************************************)
(* Proofs about RequestLimit for any limits, bodies cut in any pieces and  *)
(* any metadata: the three invariants of the run, from one that accounts   *)
(* for every byte on its way.                                              *)
(***************************************************************************)
EXTENDS RequestLimit, TLAPS

-----------------------------------------------------------------------------
(* Types.                                                                   *)

Message == [type : {"http.request", "http.disconnect"}, size : Nat, more : BOOLEAN]

LimitType ==
    /\ pc \in {"idle", "header", "capped", "replay", "app", "handler", "measure", "done"}
    /\ declared \in Nat \cup {None, Invalid}
    /\ sent \in Nat
    /\ client \in {"sends", "finished", "gone"}
    /\ wire \in Seq(Message)
    /\ chunks \in Nat /\ body \in Nat /\ whole \in BOOLEAN
    /\ status \in {0, 200, 400, 413, 422}
    /\ depth \in Nat

LEMMA PieceType ==
    ASSUME NEW n \in Nat, NEW more \in BOOLEAN
    PROVE  /\ Piece(n, more) \in Message /\ Piece(n, more) # Disconnect
           /\ Piece(n, more).size = n /\ Piece(n, more).more = more
           /\ Disconnect \in Message /\ Disconnect.size = 0 /\ ~Disconnect.more
  BY DEF Piece, Disconnect, Message

LEMMA InitLimitType == Init => LimitType
  <1> SUFFICES ASSUME Init PROVE LimitType
    OBVIOUS
  <1>1. wire \in Seq(Message)
    BY DEF Init
  <1>2. whole \in BOOLEAN
    BY Zenon DEF Init
  <1> QED
    BY <1>1, <1>2 DEF Init, LimitType

LEMMA NextLimitType == LimitType /\ [Next]_vars => LimitType'
  <1> SUFFICES ASSUME LimitType, [Next]_vars PROVE LimitType'
    OBVIOUS
  <1> USE DEF LimitType
  <1>1. CASE UNCHANGED vars
    BY <1>1 DEF vars
  <1>2. ASSUME NEW length \in {None, Invalid} \cup 0..MaxSent, Begin(length) PROVE LimitType'
    BY <1>2, BoundsAssumption DEF Begin, metadata
  <1>3. ASSUME NEW n \in 0..MaxPiece, NEW more \in BOOLEAN, Send(n, more) PROVE LimitType'
    BY <1>3, BoundsAssumption, PieceType DEF Send, metadata
  <1>4. CASE Leave
    BY <1>4, PieceType DEF Leave, metadata
  <1>5. CASE CheckHeader
    BY <1>5 DEF CheckHeader, Respond, fromClient, metadata
  <1>6. CASE ReadCapped
    <2>1. Head(wire) \in Message /\ Tail(wire) \in Seq(Message)
      BY <1>6 DEF ReadCapped
    <2>2. chunks + Head(wire).size \in Nat
      BY <2>1 DEF Message
    <2> QED
      BY <1>6, <2>1, <2>2 DEF ReadCapped, Respond, BodyAt, fromClient, metadata
  <1>7. CASE Replay
    BY <1>7 DEF Replay, fromClient, metadata
  <1>8. CASE AppReceives
    <2>1. Head(wire) \in Message /\ Tail(wire) \in Seq(Message)
      BY <1>8 DEF AppReceives
    <2>2. body + Head(wire).size \in Nat
      BY <2>1 DEF Message
    <2>3. whole' \in BOOLEAN
      <3>1. whole' = (~Head(wire).more) \/ whole' = whole
        BY <1>8, Zenon DEF AppReceives
      <3> QED
        BY <3>1, Zenon
    <2>4. /\ wire' = Tail(wire) /\ body' \in Nat /\ pc' \in {"app", "handler", "done"}
          /\ declared' = declared /\ sent' = sent /\ client' = client
          /\ chunks' = chunks /\ status' = status /\ depth' = depth
      BY <1>8, <2>2 DEF AppReceives, fromClient, metadata
    <2> QED
      BY <2>1, <2>3, <2>4
  <1>9. ASSUME NEW v \in Documents, Parse(v) PROVE LimitType'
    BY <1>9 DEF Parse, fromClient
  <1>10. CASE Level
    BY <1>10 DEF Level, Respond, fromClient
  <1> QED
    BY <1>1, <1>2, <1>3, <1>4, <1>5, <1>6, <1>7, <1>8, <1>9, <1>10 DEF Next

-----------------------------------------------------------------------------
(* The bytes.  What the service has taken in and what is still on the wire  *)
(* add up to what the client has sent; the sum over the wire is stated by   *)
(* its partial sums, total[i] being what is taken in after i messages more. *)

Taken == IF pc = "app" THEN body ELSE chunks

Adds(total) ==
    /\ total[0] = Taken
    /\ \A i \in 1..Len(wire) : total[i] = total[i - 1] + wire[i].size
    /\ total[Len(wire)] = sent

Reading == pc \in {"idle", "header", "capped", "app"}

NothingLost == Reading => \E total \in [0..Len(wire) -> 0..sent] : Adds(total)

\* The last message of a body, or the word that the client left, is the last
\* on the wire.
EndsOnce ==
    \A i \in 1..Len(wire) :
        ~wire[i].more => /\ i = Len(wire)
                         /\ client = IF wire[i] = Disconnect THEN "gone" ELSE "finished"

\* What each stage of the request has taken in, and under which check.
Stages ==
    /\ pc = "idle" => sent = 0 /\ wire = <<>> /\ client = "sends" /\ declared = None
    /\ pc \in {"idle", "header", "capped"} => body = 0 /\ ~whole
    /\ pc \in {"idle", "header", "app"} => chunks = 0
    /\ pc = "app" => declared \in Nat /\ declared <= MaxBody
    /\ pc \in {"capped", "replay"} => declared = None
    /\ pc = "replay" =>
          \/ client = "finished" /\ chunks = sent
          \/ client = "gone" /\ chunks = 0
    /\ declared \in Nat => sent <= declared
    /\ pc # "done" => status = 0

BytesInv ==
    /\ LimitType /\ NothingLost /\ EndsOnce /\ Stages
    /\ NothingAboveTheLimit /\ BodiesAreTheClients

\* A message that arrives is accounted for by one partial sum more.
LEMMA ArrivalAdds ==
    ASSUME LimitType, NEW total \in [0..Len(wire) -> 0..sent], Adds(total),
           NEW msg \in Message, wire' = Append(wire, msg), sent' = sent + msg.size,
           Taken' = Taken
    PROVE  \E more \in [0..Len(wire') -> 0..sent'] : Adds(more)'
  <1> DEFINE more == [i \in 0..(Len(wire) + 1) |-> IF i <= Len(wire) THEN total[i] ELSE sent']
  <1>1. Len(wire) \in Nat /\ Len(wire') = Len(wire) + 1 /\ msg.size \in Nat /\ sent \in Nat
    BY DEF LimitType, Message
  <1>2. sent' \in Nat /\ sent <= sent'
    BY <1>1
  <1>3. more \in [0..Len(wire') -> 0..sent']
    BY <1>1, <1>2
  <1>4. /\ \A i \in 1..Len(wire) : wire'[i] = wire[i]
        /\ wire'[Len(wire) + 1] = msg
    BY DEF LimitType
  <1>5. more[0] = Taken' /\ more[Len(wire')] = sent'
    BY <1>1 DEF Adds
  <1>6. ASSUME NEW i \in 1..Len(wire') PROVE more[i] = more[i - 1] + wire'[i].size
    <2>1. CASE i <= Len(wire)
      <3>1. i \in 1..Len(wire) /\ i \in 0..(Len(wire) + 1) /\ i - 1 \in 0..(Len(wire) + 1)
            /\ i - 1 <= Len(wire)
        BY <1>1, <2>1
      <3>2. more[i] = total[i] /\ more[i - 1] = total[i - 1]
        BY <2>1, <3>1
      <3>3. total[i] = total[i - 1] + wire[i].size
        BY <3>1 DEF Adds
      <3> HIDE DEF more
      <3> QED
        BY <1>4, <3>1, <3>2, <3>3
    <2>2. CASE i = Len(wire) + 1
      <3>1. more[i] = sent' /\ more[i - 1] = total[Len(wire)]
        BY <1>1, <2>2
      <3> HIDE DEF more
      <3> QED
        BY <1>1, <1>4, <2>2, <3>1 DEF Adds
    <2> QED
      BY <1>1, <2>1, <2>2
  <1> HIDE DEF more
  <1> QED
    BY <1>3, <1>5, <1>6 DEF Adds

\* A message that is taken in leaves the wire and joins what was taken in.
LEMMA TakingAdds ==
    ASSUME LimitType, wire # <<>>,
           NEW total \in [0..Len(wire) -> 0..sent], Adds(total)
    PROVE  /\ Taken + Head(wire).size <= sent
           /\ Len(wire) = 1 => Taken + Head(wire).size = sent
           /\ wire' = Tail(wire) /\ sent' = sent /\ Taken' = Taken + Head(wire).size =>
                 \E rest \in [0..Len(wire') -> 0..sent'] : Adds(rest)'
  <1>1. Len(wire) \in Nat /\ Len(wire) >= 1 /\ Head(wire) = wire[1] /\ sent \in Nat
    BY DEF LimitType
  <1>2. total[1] = Taken + Head(wire).size /\ total[1] \in 0..sent
    BY <1>1 DEF Adds
  <1>3. Taken + Head(wire).size <= sent /\ (Len(wire) = 1 => Taken + Head(wire).size = sent)
    BY <1>1, <1>2 DEF Adds
  <1>4. ASSUME wire' = Tail(wire), sent' = sent, Taken' = Taken + Head(wire).size
        PROVE  \E rest \in [0..Len(wire') -> 0..sent'] : Adds(rest)'
    <2> DEFINE rest == [i \in 0..(Len(wire) - 1) |-> total[i + 1]]
    <2>1. /\ Len(wire') = Len(wire) - 1
          /\ \A i \in 1..Len(wire') : wire'[i] = wire[i + 1]
      BY <1>1, <1>4 DEF LimitType
    <2>2. rest \in [0..Len(wire') -> 0..sent']
      BY <1>1, <1>4, <2>1
    <2>3. rest[0] = Taken' /\ rest[Len(wire')] = sent'
      BY <1>1, <1>2, <1>4, <2>1 DEF Adds
    <2>4. ASSUME NEW i \in 1..Len(wire') PROVE rest[i] = rest[i - 1] + wire'[i].size
      <3>1. /\ i \in 0..(Len(wire) - 1) /\ i - 1 \in 0..(Len(wire) - 1)
            /\ i + 1 \in 1..Len(wire) /\ (i + 1) - 1 = i /\ (i - 1) + 1 = i
        BY <1>1, <2>1
      <3>2. rest[i] = total[i + 1] /\ rest[i - 1] = total[i]
        BY <3>1
      <3>3. total[i + 1] = total[i] + wire[i + 1].size
        BY <3>1 DEF Adds
      <3> HIDE DEF rest
      <3> QED
        BY <2>1, <3>2, <3>3
    <2> HIDE DEF rest
    <2> QED
      BY <2>2, <2>3, <2>4 DEF Adds
  <1> QED
    BY <1>3, <1>4

LEMMA InitBytes == Init => BytesInv
  <1> SUFFICES ASSUME Init PROVE BytesInv
    OBVIOUS
  <1>1. LimitType
    BY InitLimitType
  <1>2. Len(wire) = 0 /\ pc = "idle" /\ sent = 0 /\ chunks = 0 /\ body = 0 /\ status = 0
        /\ wire = <<>> /\ client = "sends" /\ declared = None
    BY DEF Init
  <1>3. ~whole
    BY Zenon DEF Init
  <1>4. NothingLost
    <2> DEFINE total == [i \in 0..0 |-> 0]
    <2>1. total \in [0..Len(wire) -> 0..sent] /\ total[0] = 0
      BY <1>2
    <2> HIDE DEF total
    <2> QED
      BY <1>2, <2>1 DEF NothingLost, Adds, Taken
  <1>5. EndsOnce
    BY <1>2 DEF EndsOnce
  <1>6. Stages
    BY <1>2, <1>3, HeaderAssumption DEF Stages
  <1>7. NothingAboveTheLimit /\ BodiesAreTheClients
    BY <1>2, <1>3, BoundsAssumption DEF NothingAboveTheLimit, BodiesAreTheClients
  <1> QED
    BY <1>1, <1>4, <1>5, <1>6, <1>7 DEF BytesInv

\* A step that leaves the wire and what was taken in alone loses nothing.
LEMMA AdmitKeeps ==
    ASSUME NothingLost, Reading, wire' = wire, sent' = sent, Taken' = Taken
    PROVE  NothingLost'
  BY DEF NothingLost, Adds

LEMMA BeginKeeps ==
    ASSUME BytesInv, NEW length \in {None, Invalid} \cup 0..MaxSent, Begin(length)
    PROVE  BytesInv'
  <1> USE DEF BytesInv
  <1>1. LimitType'
    BY NextLimitType DEF Next
  <1>2. /\ pc = "idle" /\ pc' = "header" /\ declared' = length /\ sent' = sent /\ sent = 0
        /\ client' = client /\ wire' = wire /\ chunks' = chunks /\ body' = body
        /\ whole' = whole /\ status' = status
    BY DEF Begin, Stages
  <1>3. NothingLost'
    BY <1>2, AdmitKeeps DEF Reading, Taken
  <1>4. EndsOnce' /\ NothingAboveTheLimit'
    BY <1>2 DEF EndsOnce, NothingAboveTheLimit
  <1>5. Stages'
    BY <1>1, <1>2 DEF Stages, LimitType
  <1>6. BodiesAreTheClients'
    BY <1>2 DEF BodiesAreTheClients, Stages
  <1> QED
    BY <1>1, <1>3, <1>4, <1>5, <1>6

LEMMA SendKeeps ==
    ASSUME BytesInv, NEW n \in 0..MaxPiece, NEW more \in BOOLEAN, Send(n, more)
    PROVE  BytesInv'
  <1> USE DEF BytesInv
  <1> DEFINE msg == Piece(n, more)
  <1>1. LimitType'
    BY NextLimitType DEF Next
  <1>2. n \in Nat
    BY BoundsAssumption
  <1>3. msg \in Message /\ msg.size = n /\ msg.more = more /\ msg # Disconnect
    BY <1>2, PieceType
  <1>4. /\ pc \notin {"idle", "done"} /\ client = "sends"
        /\ declared \in Nat => sent + n <= declared
        /\ wire' = Append(wire, msg) /\ sent' = sent + msg.size
        /\ client' = IF more THEN "sends" ELSE "finished"
        /\ pc' = pc /\ declared' = declared /\ chunks' = chunks /\ body' = body
        /\ whole' = whole /\ status' = status
    BY <1>3 DEF Send
  <1>5. sent' \in Nat /\ sent <= sent'
    BY <1>2, <1>3, <1>4 DEF LimitType
  <1> HIDE DEF msg
  <1>6. NothingLost'
    <2>1. SUFFICES ASSUME Reading'
                   PROVE  \E total \in [0..Len(wire') -> 0..sent'] : Adds(total)'
      BY DEF NothingLost
    <2>2. PICK total \in [0..Len(wire) -> 0..sent] : Adds(total)
      BY <1>4, <2>1 DEF NothingLost, Reading
    <2>3. Taken' = Taken
      BY <1>4 DEF Taken
    <2> QED
      BY <1>3, <1>4, <2>2, <2>3, ArrivalAdds
  <1>7. EndsOnce'
    <2>1. /\ Len(wire) \in Nat /\ Len(wire') = Len(wire) + 1 /\ wire'[Len(wire) + 1] = msg
          /\ \A i \in 1..Len(wire) : wire'[i] = wire[i]
      BY <1>3, <1>4 DEF LimitType
    <2>2. \A i \in 1..Len(wire) : wire[i].more
      BY <1>4 DEF EndsOnce
    <2>3. ASSUME NEW i \in 1..Len(wire'), ~wire'[i].more
          PROVE  i = Len(wire') /\ wire'[i] = msg /\ ~more
      BY <1>3, <2>1, <2>2, <2>3
    <2> QED
      BY <1>3, <1>4, <2>3 DEF EndsOnce
  <1>8. Stages'
    BY <1>2, <1>3, <1>4, <1>5 DEF Stages, LimitType
  <1>9. NothingAboveTheLimit' /\ BodiesAreTheClients'
    BY <1>4, <1>5 DEF NothingAboveTheLimit, BodiesAreTheClients, Stages
  <1> QED
    BY <1>1, <1>6, <1>7, <1>8, <1>9

LEMMA LeaveKeeps ==
    ASSUME BytesInv, Leave
    PROVE  BytesInv'
  <1> USE DEF BytesInv
  <1>1. LimitType'
    BY NextLimitType DEF Next
  <1>2. Disconnect \in Message /\ Disconnect.size = 0 /\ ~Disconnect.more
    BY PieceType
  <1>3. /\ pc \notin {"idle", "done"} /\ client = "sends" /\ client' = "gone"
        /\ wire' = Append(wire, Disconnect) /\ sent' = sent
        /\ pc' = pc /\ declared' = declared /\ chunks' = chunks /\ body' = body
        /\ whole' = whole /\ status' = status
    BY DEF Leave
  <1>4. sent' = sent + Disconnect.size
    BY <1>2, <1>3 DEF LimitType
  <1>5. NothingLost'
    <2>1. SUFFICES ASSUME Reading'
                   PROVE  \E total \in [0..Len(wire') -> 0..sent'] : Adds(total)'
      BY DEF NothingLost
    <2>2. PICK total \in [0..Len(wire) -> 0..sent] : Adds(total)
      BY <1>3, <2>1 DEF NothingLost, Reading
    <2>3. Taken' = Taken
      BY <1>3 DEF Taken
    <2> QED
      BY <1>2, <1>3, <1>4, <2>2, <2>3, ArrivalAdds
  <1>6. EndsOnce'
    <2>1. /\ Len(wire) \in Nat /\ Len(wire') = Len(wire) + 1
          /\ wire'[Len(wire) + 1] = Disconnect
          /\ \A i \in 1..Len(wire) : wire'[i] = wire[i]
      BY <1>2, <1>3 DEF LimitType
    <2>2. \A i \in 1..Len(wire) : wire[i].more
      BY <1>3 DEF EndsOnce
    <2>3. ASSUME NEW i \in 1..Len(wire'), ~wire'[i].more
          PROVE  i = Len(wire') /\ wire'[i] = Disconnect
      BY <2>1, <2>2, <2>3
    <2> QED
      BY <1>3, <2>3 DEF EndsOnce
  <1>7. Stages' /\ NothingAboveTheLimit' /\ BodiesAreTheClients'
    BY <1>3 DEF Stages, NothingAboveTheLimit, BodiesAreTheClients
  <1> QED
    BY <1>1, <1>5, <1>6, <1>7

LEMMA CheckHeaderKeeps ==
    ASSUME BytesInv, CheckHeader
    PROVE  BytesInv'
  <1> USE DEF BytesInv
  <1>1. LimitType'
    BY NextLimitType DEF Next
  <1>2. /\ pc = "header" /\ declared' = declared /\ sent' = sent /\ client' = client
        /\ wire' = wire /\ chunks' = chunks /\ body' = body /\ whole' = whole
        /\ chunks = 0 /\ body = 0 /\ ~whole /\ status = 0
    BY DEF CheckHeader, fromClient, Stages
  <1>3. \/ pc' = "done" /\ status' = 400
        \/ pc' = "capped" /\ status' = status /\ declared = None
        \/ pc' = "done" /\ status' = 413 /\ declared \in Nat /\ declared > MaxBody
        \/ pc' = "app" /\ status' = status /\ declared \in Nat /\ declared <= MaxBody
    BY BoundsAssumption DEF CheckHeader, Respond, Limited, LimitType
  <1>4. NothingLost'
    <2>1. Taken' = Taken /\ Reading
      BY <1>2 DEF Taken, Reading
    <2> QED
      BY <1>2, <2>1, AdmitKeeps
  <1>5. EndsOnce' /\ NothingAboveTheLimit'
    BY <1>2 DEF EndsOnce, NothingAboveTheLimit
  <1>6. Stages' /\ BodiesAreTheClients'
    BY <1>2, <1>3 DEF Stages, BodiesAreTheClients
  <1> QED
    BY <1>1, <1>4, <1>5, <1>6

\* The head of the wire: what taking it in amounts to, and what it says of the
\* client when it is the last message.
LEMMA HeadFacts ==
    ASSUME BytesInv, wire # <<>>, Reading
    PROVE  /\ Head(wire) \in Message /\ Head(wire).size \in Nat
           /\ Taken + Head(wire).size <= sent
           /\ ~Head(wire).more =>
                 /\ Taken + Head(wire).size = sent
                 /\ client = IF Head(wire) = Disconnect THEN "gone" ELSE "finished"
           /\ wire' = Tail(wire) /\ sent' = sent /\ Taken' = Taken + Head(wire).size =>
                 \E rest \in [0..Len(wire') -> 0..sent'] : Adds(rest)'
           /\ wire' = Tail(wire) /\ client' = client => EndsOnce'
  <1> USE DEF BytesInv
  <1>1. PICK total \in [0..Len(wire) -> 0..sent] : Adds(total)
    BY DEF NothingLost
  <1>2. Head(wire) = wire[1] /\ Len(wire) \in Nat /\ 1 \in 1..Len(wire)
    BY DEF LimitType
  <1>3. Head(wire) \in Message /\ Head(wire).size \in Nat
    <2>1. Head(wire) \in Message
      BY DEF LimitType
    <2> QED
      BY <2>1 DEF Message
  <1>4. ~Head(wire).more =>
           Len(wire) = 1 /\ client = IF Head(wire) = Disconnect THEN "gone" ELSE "finished"
    BY <1>2 DEF EndsOnce
  <1>5. ASSUME wire' = Tail(wire), client' = client PROVE EndsOnce'
    <2>1. /\ Len(wire') = Len(wire) - 1
          /\ \A i \in 1..Len(wire') : wire'[i] = wire[i + 1]
      BY <1>2, <1>5 DEF LimitType
    <2>2. ASSUME NEW i \in 1..Len(wire'), ~wire'[i].more
          PROVE  /\ i = Len(wire')
                 /\ client = IF wire'[i] = Disconnect THEN "gone" ELSE "finished"
      <3>1. i + 1 \in 1..Len(wire) /\ wire'[i] = wire[i + 1]
        BY <1>2, <2>1
      <3>2. /\ i + 1 = Len(wire)
            /\ client = IF wire[i + 1] = Disconnect THEN "gone" ELSE "finished"
        BY <2>2, <3>1 DEF EndsOnce
      <3> QED
        BY <1>2, <2>1, <3>1, <3>2
    <2> QED
      BY <1>5, <2>2 DEF EndsOnce
  <1> QED
    BY <1>1, <1>3, <1>4, <1>5, TakingAdds

LEMMA ReadCappedKeeps ==
    ASSUME BytesInv, ReadCapped
    PROVE  BytesInv'
  <1> USE DEF BytesInv
  <1> DEFINE msg == Head(wire)
  <1>1. LimitType'
    BY NextLimitType DEF Next
  <1>2. /\ pc = "capped" /\ wire # <<>> /\ wire' = Tail(wire)
        /\ declared' = declared /\ sent' = sent /\ client' = client
        /\ body' = body /\ whole' = whole /\ body = 0 /\ ~whole /\ status = 0
    BY DEF ReadCapped, fromClient, Stages
  <1>3. Reading /\ Taken = chunks
    BY <1>2 DEF Reading, Taken
  <1>4. \/ pc' = "done" /\ status' = 413 /\ chunks' = 0 /\ chunks + msg.size > MaxBody
        \/ /\ pc' = "capped" /\ status' = status /\ chunks' = chunks + msg.size
           /\ chunks' <= MaxBody
        \/ /\ pc' = "replay" /\ status' = status /\ msg = Disconnect /\ chunks' = 0
        \/ /\ pc' = "replay" /\ status' = status /\ msg # Disconnect /\ ~msg.more
           /\ chunks' = chunks + msg.size /\ chunks' <= MaxBody
    <2>1. chunks \in Nat /\ msg.size \in Nat
      BY <1>2, <1>3, HeadFacts DEF LimitType
    <2> QED
      BY <2>1, BoundsAssumption
         DEF ReadCapped, Respond, Exceeded, Limited, Continues, BodyAt
  <1>5. /\ chunks + msg.size <= sent
        /\ ~msg.more => /\ chunks + msg.size = sent
                        /\ client = IF msg = Disconnect THEN "gone" ELSE "finished"
    BY <1>2, <1>3, HeadFacts
  <1>6. sent \in Nat /\ chunks \in Nat /\ msg.size \in Nat
    BY <1>2, <1>3, HeadFacts DEF LimitType
  <1>7. NothingLost'
    <2>1. CASE pc' = "capped"
      <3>1. Taken' = Taken + msg.size
        BY <1>3, <1>4, <2>1 DEF Taken
      <3> QED
        BY <1>2, <1>3, <3>1, HeadFacts DEF NothingLost
    <2>2. CASE pc' # "capped"
      BY <1>4, <2>2 DEF NothingLost, Reading
    <2> QED
      BY <2>1, <2>2
  <1>8. EndsOnce'
    BY <1>2, <1>3, HeadFacts
  <1> HIDE DEF msg
  <1>d. msg = Disconnect => client = "gone"
    <2>1. ~Disconnect.more
      BY DEF Disconnect
    <2> QED
      BY <1>5, <2>1
  <1>u. msg # Disconnect /\ ~msg.more => client = "finished" /\ chunks + msg.size = sent
    BY <1>5
  <1>9. Stages'
    BY <1>2, <1>4, <1>d, <1>u, <1>6 DEF Stages
  <1>10. NothingAboveTheLimit' /\ BodiesAreTheClients'
    BY <1>2, <1>4, <1>5, <1>6, BoundsAssumption DEF NothingAboveTheLimit, BodiesAreTheClients
  <1> QED
    BY <1>1, <1>7, <1>8, <1>9, <1>10

LEMMA ReplayKeeps ==
    ASSUME BytesInv, Replay
    PROVE  BytesInv'
  <1> USE DEF BytesInv
  <1>1. LimitType'
    BY NextLimitType DEF Next
  <1>2. /\ pc = "replay" /\ pc' = "handler" /\ body' = chunks /\ chunks' = 0 /\ wire' = wire
        /\ declared' = declared /\ sent' = sent /\ client' = client /\ status' = status
    BY DEF Replay, fromClient
  <1>3. NothingLost' /\ EndsOnce'
    BY <1>2 DEF NothingLost, Reading, EndsOnce
  <1>4. Stages' /\ NothingAboveTheLimit' /\ BodiesAreTheClients'
    BY <1>2, BoundsAssumption DEF Stages, NothingAboveTheLimit, BodiesAreTheClients
  <1> QED
    BY <1>1, <1>3, <1>4

LEMMA AppReceivesKeeps ==
    ASSUME BytesInv, AppReceives
    PROVE  BytesInv'
  <1> USE DEF BytesInv
  <1> DEFINE msg == Head(wire)
  <1>1. LimitType'
    BY NextLimitType DEF Next
  <1>2. /\ pc = "app" /\ wire # <<>> /\ wire' = Tail(wire)
        /\ declared' = declared /\ sent' = sent /\ client' = client
        /\ chunks' = chunks /\ status' = status /\ chunks = 0 /\ status = 0
        /\ declared \in Nat /\ declared <= MaxBody /\ sent <= declared
    BY DEF AppReceives, fromClient, Stages
  <1>3. Reading /\ Taken = body
    BY <1>2 DEF Reading, Taken
  <1>4. /\ body + msg.size <= sent
        /\ ~msg.more => /\ body + msg.size = sent
                        /\ client = IF msg = Disconnect THEN "gone" ELSE "finished"
    BY <1>2, <1>3, HeadFacts
  <1>5. \/ pc' = "done" /\ body' = body /\ whole' = whole
        \/ pc' = "app" /\ body' = body + msg.size /\ ~whole'
        \/ /\ pc' = "handler" /\ body' = body + msg.size /\ msg # Disconnect /\ ~msg.more
    BY Zenon DEF AppReceives
  <1>6. sent \in Nat /\ body \in Nat /\ msg.size \in Nat /\ MaxBody \in Nat
    BY <1>2, <1>3, HeadFacts, BoundsAssumption DEF LimitType
  <1>7. NothingLost'
    <2>1. CASE pc' = "app"
      <3>1. Taken' = Taken + msg.size
        BY <1>3, <1>5, <2>1 DEF Taken
      <3> QED
        BY <1>2, <1>3, <3>1, HeadFacts DEF NothingLost
    <2>2. CASE pc' # "app"
      BY <1>5, <2>2 DEF NothingLost, Reading
    <2> QED
      BY <2>1, <2>2
  <1>8. EndsOnce'
    BY <1>2, <1>3, HeadFacts
  <1> HIDE DEF msg
  <1>9. Stages'
    BY <1>2, <1>5, <1>6 DEF Stages
  <1>10. NothingAboveTheLimit' /\ BodiesAreTheClients'
    BY <1>2, <1>4, <1>5, <1>6 DEF NothingAboveTheLimit, BodiesAreTheClients
  <1> QED
    BY <1>1, <1>7, <1>8, <1>9, <1>10

LEMMA NextBytes == BytesInv /\ [Next]_vars => BytesInv'
  <1> SUFFICES ASSUME BytesInv, [Next]_vars PROVE BytesInv'
    OBVIOUS
  <1>1. LimitType'
    BY NextLimitType DEF BytesInv
  <1>2. CASE UNCHANGED vars
    BY <1>1, <1>2 DEF vars, BytesInv, NothingLost, Reading, Adds, Taken, EndsOnce, Stages,
                      NothingAboveTheLimit, BodiesAreTheClients
  <1>3. ASSUME Level \/ \E v \in Documents : Parse(v) PROVE BytesInv'
    <2>1. /\ pc \in {"handler", "measure"} /\ pc' \in {"measure", "done"}
          /\ status' \in {status, 200, 422} /\ (pc' # "done" => status' = status)
          /\ declared' = declared /\ sent' = sent /\ client' = client /\ wire' = wire
          /\ chunks' = chunks /\ body' = body /\ whole' = whole
      BY <1>3 DEF Level, Parse, Respond, fromClient
    <2>2. NothingLost' /\ EndsOnce'
      BY <2>1 DEF BytesInv, NothingLost, Reading, EndsOnce
    <2>3. Stages' /\ NothingAboveTheLimit' /\ BodiesAreTheClients'
      BY <2>1 DEF BytesInv, Stages, NothingAboveTheLimit, BodiesAreTheClients
    <2> QED
      BY <1>1, <2>2, <2>3 DEF BytesInv
  <1> QED
    BY <1>2, <1>3, BeginKeeps, SendKeeps, LeaveKeeps, CheckHeaderKeeps, ReadCappedKeeps,
       ReplayKeeps, AppReceivesKeeps DEF Next

\* Whatever length a client announces and however it cuts its body, neither the
\* middleware nor the application ever holds more than the limit.
THEOREM BodiesAreBounded == Spec => []NothingAboveTheLimit
  <1>1. BytesInv => NothingAboveTheLimit
    BY DEF BytesInv
  <1> QED
    BY <1>1, InitBytes, NextBytes, PTL DEF Spec

\* A 413 is deserved, and a body the application takes to be complete is every
\* byte of a client that sent all it had, or the empty body of one that left
\* before the end: never a part.
THEOREM BodiesAreWhole == Spec => []BodiesAreTheClients
  <1>1. BytesInv => BodiesAreTheClients
    BY DEF BytesInv
  <1> QED
    BY <1>1, InitBytes, NextBytes, PTL DEF Spec

-----------------------------------------------------------------------------
(* The depth of the metadata.  Every value of a level nests so much that it *)
(* and the levels above it are within the depth of the whole, and one of    *)
(* them reaches it.                                                         *)

OnTheWay ==
    /\ frontier \subseteq Documents
    /\ \A v \in frontier : depth + DepthOf[v] <= DepthOf[doc]
    /\ \E v \in frontier : depth + DepthOf[v] = DepthOf[doc]

DepthInv ==
    /\ depth \in Nat
    /\ pc \in {"measure", "done"} \/ (status = 0 /\ depth = 0)
    /\ pc = "measure" => /\ doc \in Documents /\ OnTheWay /\ depth <= MaxDepth /\ status = 0
    /\ pc = "done" /\ status \in {200, 422} =>
          /\ doc \in Documents
          /\ status = 200 => depth = DepthOf[doc] /\ depth <= MaxDepth
          /\ status = 422 => depth = MaxDepth + 1 /\ depth <= DepthOf[doc]

\* A level below is one level further on the way.
LEMMA LevelDown ==
    ASSUME doc \in Documents, OnTheWay, depth \in Nat, Nests(frontier),
           frontier' = UNION frontier, depth' = depth + 1, doc' = doc
    PROVE  OnTheWay' /\ depth' <= DepthOf[doc']
  <1>1. \A v \in Documents : DepthOf[v] \in Nat
    BY DepthAssumption
  <1>2. ASSUME NEW v \in frontier, NEW w \in v
        PROVE  w \in Documents /\ DepthOf[w] < DepthOf[v] /\ depth + DepthOf[v] <= DepthOf[doc]
    BY DepthAssumption DEF OnTheWay
  <1>3. frontier' \subseteq Documents
    BY <1>2
  <1>4. ASSUME NEW w \in frontier' PROVE depth' + DepthOf[w] <= DepthOf[doc']
    <2>1. PICK v \in frontier : w \in v
      BY <1>4
    <2>2. DepthOf[v] \in Nat /\ DepthOf[w] \in Nat /\ DepthOf[doc] \in Nat
      BY <1>1, <1>2, <2>1 DEF OnTheWay
    <2> QED
      BY <1>2, <2>1, <2>2
  <1>5. PICK w \in frontier' : TRUE
    BY DEF Nests
  <1>6. PICK v \in frontier : depth + DepthOf[v] = DepthOf[doc]
    BY DEF OnTheWay
  <1>7. DepthOf[v] \in Nat /\ DepthOf[w] \in Nat /\ DepthOf[doc] \in Nat
    BY <1>1, <1>3, <1>5 DEF OnTheWay
  <1>8. DepthOf[v] # 0
    BY <1>4, <1>6, <1>7
  <1>9. PICK x \in v : DepthOf[v] = DepthOf[x] + 1
    BY <1>8, DepthAssumption DEF OnTheWay
  <1>10. x \in frontier' /\ DepthOf[x] \in Nat
    BY <1>1, <1>2
  <1>11. depth' + DepthOf[x] = DepthOf[doc']
    BY <1>6, <1>7, <1>9, <1>10
  <1>12. depth' <= DepthOf[doc']
    BY <1>7, <1>10, <1>11
  <1> QED
    BY <1>3, <1>4, <1>10, <1>11, <1>12 DEF OnTheWay

\* Where nothing nests any more the walk has found the depth of the whole.
LEMMA LevelLast ==
    ASSUME doc \in Documents, OnTheWay, depth \in Nat, ~Nests(frontier)
    PROVE  depth = DepthOf[doc]
  <1>1. PICK v \in frontier : depth + DepthOf[v] = DepthOf[doc]
    BY DEF OnTheWay
  <1>2. v \in Documents /\ DepthOf[v] \in Nat
    BY DepthAssumption DEF OnTheWay
  <1>3. ~\E w \in v : TRUE
    BY DEF Nests
  <1>4. DepthOf[v] = 0
    BY <1>2, <1>3, DepthAssumption
  <1> QED
    BY <1>1, <1>4

LEMMA NextDepth == DepthInv /\ [Next]_vars => DepthInv'
  <1> SUFFICES ASSUME DepthInv, [Next]_vars PROVE DepthInv'
    OBVIOUS
  <1>1. CASE Level
    <2>1. /\ pc = "measure" /\ doc \in Documents /\ OnTheWay /\ depth <= MaxDepth
          /\ status = 0 /\ depth \in Nat /\ doc' = doc
      BY <1>1 DEF Level, DepthInv
    <2>2. CASE ~Nests(frontier)
      <3>1. pc' = "done" /\ status' = 200 /\ depth' = depth
        BY <1>1, <2>2 DEF Level, Respond
      <3> QED
        BY <2>1, <2>2, <3>1, LevelLast DEF DepthInv
    <2>3. CASE Nests(frontier)
      <3>1. /\ depth' = depth + 1 /\ frontier' = UNION frontier
            /\ IF depth + 1 > MaxDepth THEN pc' = "done" /\ status' = 422
               ELSE pc' = pc /\ status' = status
        BY <1>1, <2>3 DEF Level, Respond, TooDeep
      <3>2. OnTheWay' /\ depth' <= DepthOf[doc']
        BY <2>1, <2>3, <3>1, LevelDown
      <3> QED
        BY <2>1, <3>1, <3>2, BoundsAssumption DEF DepthInv
    <2> QED
      BY <2>2, <2>3
  <1>2. ASSUME NEW v \in Documents, Parse(v) PROVE DepthInv'
    <2>1. /\ pc = "handler" /\ pc' = "measure" /\ doc' = v /\ frontier' = {v} /\ depth' = 0
          /\ status' = 0
      BY <1>2 DEF Parse, DepthInv
    <2>2. OnTheWay'
      BY <2>1, DepthAssumption DEF OnTheWay
    <2> QED
      BY <2>1, <2>2, BoundsAssumption DEF DepthInv
  <1>3. ASSUME UNCHANGED metadata, pc # "done", pc' # "measure", status' \notin {200, 422},
               pc # "measure", pc' = "done" \/ status' = status
        PROVE  DepthInv'
    BY <1>3 DEF DepthInv, metadata
  <1>4. ASSUME UNCHANGED metadata, pc' = pc, status' = status
        PROVE  DepthInv'
    BY <1>4 DEF DepthInv, OnTheWay, metadata
  <1>5. CASE UNCHANGED vars
    BY <1>4, <1>5 DEF vars, metadata
  <1>6. ASSUME NEW length, Begin(length) PROVE DepthInv'
    BY <1>3, <1>6 DEF Begin, DepthInv
  <1>7. ASSUME NEW n, NEW more, Send(n, more) PROVE DepthInv'
    BY <1>4, <1>7 DEF Send
  <1>8. CASE Leave
    BY <1>4, <1>8 DEF Leave
  <1>9. CASE CheckHeader
    BY <1>3, <1>9 DEF CheckHeader, Respond, DepthInv
  <1>10. CASE ReadCapped
    BY <1>3, <1>10 DEF ReadCapped, Respond, DepthInv
  <1>11. CASE Replay
    BY <1>3, <1>11 DEF Replay, DepthInv
  <1>12. CASE AppReceives
    BY <1>3, <1>12 DEF AppReceives, DepthInv
  <1> QED
    BY <1>1, <1>2, <1>5, <1>6, <1>7, <1>8, <1>9, <1>10, <1>11, <1>12 DEF Next

\* The level by level walk finds exactly how deep the metadata nest, stops one
\* level past the limit, and refuses exactly what nests deeper.
THEOREM DepthIsMeasured == Spec => []DepthIsExact
  <1>1. Init => DepthInv
    BY DEF Init, DepthInv
  <1>2. DepthInv => DepthIsExact
    <2> SUFFICES ASSUME DepthInv, pc = "done", status \in {200, 422}
                 PROVE  /\ depth = IF DepthOf[doc] > MaxDepth THEN MaxDepth + 1 ELSE DepthOf[doc]
                        /\ status = 422 <=> DepthOf[doc] > MaxDepth
      BY DEF DepthIsExact
    <2>1. DepthOf[doc] \in Nat /\ MaxDepth \in Nat
      BY DepthAssumption, BoundsAssumption DEF DepthInv
    <2> QED
      BY <2>1 DEF DepthInv
  <1> QED
    BY <1>1, <1>2, NextDepth, PTL DEF Spec
=============================================================================
