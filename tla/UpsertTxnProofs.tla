--------------------------- MODULE UpsertTxnProofs ---------------------------
(***************************************************************************)
(* Proofs about UpsertTxn for any number of clients, rows and contents and *)
(* batches of any length: type correctness, and that it implements         *)
(* AtomicPut.                                                              *)
(***************************************************************************)
EXTENDS UpsertTxn, WellFoundedInduction, TLAPS

\* A row is locked by one transaction at most.
LocksExclusive ==
    \A s, t \in Clients : \A u \in Uuids : Locks(s, u) /\ Locks(t, u) => s = t

\* The row of item p is locked, holds its content, and was there before the
\* statement only if that is allowed: the row the item names, a row that had
\* its content, or a row that another item names.  Without an id, p is the first
\* item of its content.
Settled(c, p) ==
    LET i == Items(c)[p]
        u == written[c][p]
    IN
    /\ mine[c][u] = i.content
    /\ i.id # NoValue => u = i.id /\ u \in Rows(table)
    /\ i.id = NoValue =>
          /\ pc[c] \in {"insert", "place"}
          /\ p \in Firsts(Items(c))
          /\ \/ table[u] = NoValue
             \/ req[c].op = "put" /\ table[u] = i.content
             \/ \E q \in DOMAIN Items(c) : Items(c)[q].id = u

\* Every row a transaction has locked is the row of one of its items.
Claimed(c, u) ==
    \/ \E p \in DOMAIN Items(c) : written[c][p] = u
    \/ pc[c] = "index" /\ Items(c)[at[c]].id = u

\* How far the statements of c have come.
Progress(c) ==
    /\ \A p \in todo[c] : written[c][p] = 0
    /\ pc[c] = "insert" /\ at[c] # 0 => req[c].op = "put"
    /\ pc[c] \in {"update", "index"} => todo[c] \subseteq ById(Items(c))
    /\ pc[c] = "index" =>
          LET i == Items(c)[at[c]] IN i.id \in Rows(table) /\ mine[c][i.id] = i.content
    /\ pc[c] \in {"insert", "place"} =>
          /\ Missing(c) = {}
          /\ todo[c] \subseteq Firsts(Items(c))
          /\ \A p \in Firsts(Items(c)) : p \in todo[c] \/ written[c][p] # 0

TxnOK(c) ==
    /\ req[c] = NoValue => \A u \in Uuids : ~Locks(c, u)
    /\ req[c] # NoValue =>
          /\ \A p \in DOMAIN Items(c) : written[c][p] # 0 => Settled(c, p)
          /\ \A u \in Uuids : Locks(c, u) => Claimed(c, u)
          /\ Progress(c)

TxnInv == TypeOK /\ LocksExclusive /\ \A c \in Clients : TxnOK(c)

-----------------------------------------------------------------------------
(* Batches and the items of one content.                                    *)

LEMMA BatchFacts ==
    ASSUME NEW b \in Batches
    PROVE  /\ b.items \in Seq(Item)
           /\ b.op \in {"post", "put"}
           /\ DOMAIN b.items \subseteq Nat \ {0}
           /\ \A p \in DOMAIN b.items :
                 /\ b.items[p] \in Item
                 /\ b.items[p].id \in Uuids \cup {NoValue}
                 /\ b.items[p].content \in Contents
                 /\ b.items[p].content # NoValue
                 /\ b.items[p].content # Untouched
           /\ b # NoValue
           /\ Firsts(b.items) \subseteq DOMAIN b.items \ ById(b.items)
           /\ ById(b.items) \subseteq DOMAIN b.items
  <1>1. b \in Batch /\ b # NoValue
    BY BatchAssumption
  <1>2. b.items \in Seq(Item) /\ b.op \in {"post", "put"}
    BY <1>1 DEF Batch
  <1>3. \A p \in DOMAIN b.items : b.items[p] \in Item
    BY <1>2
  <1>4. Firsts(b.items) \subseteq DOMAIN b.items \ ById(b.items) /\ ById(b.items) \subseteq DOMAIN b.items
    BY DEF Firsts, ById
  <1>5. DOMAIN b.items \subseteq Nat \ {0}
    BY <1>2
  <1> QED
    BY <1>1, <1>2, <1>3, <1>4, <1>5, BatchAssumption DEF Item

\* Among the items without an id, each content has a first one.
LEMMA FirstExists ==
    ASSUME NEW b \in Batches, NEW p \in DOMAIN b.items, p \notin ById(b.items)
    PROVE  \E q \in Firsts(b.items) : b.items[q].content = b.items[p].content
  <1> DEFINE S == {q \in DOMAIN b.items \ ById(b.items) :
                      b.items[q].content = b.items[p].content}
  <1>1. S \in SUBSET Nat /\ p \in S
    BY BatchFacts
  <1> DEFINE R == {ss \in Nat \X Nat : ss[1] < ss[2]}
  <1>2. IsWellFoundedOn(R, Nat)
    BY NatLessThanWellFounded DEF OpToRel
  <1> HIDE DEF S
  <1>3. PICK q \in S : \A r \in S : <<r, q>> \notin R
    <2> HIDE DEF R
    <2> QED
      BY <1>1, <1>2, WFMin
  <1>4. \A r \in S : q <= r
    <2> SUFFICES ASSUME NEW r \in S, ~(q <= r)
                 PROVE  FALSE
      OBVIOUS
    <2>1. q \in Nat /\ r \in Nat /\ r < q
      BY <1>1
    <2>2. <<r, q>> \in R
      BY <2>1
    <2> QED
      BY <1>3, <2>2
  <1> USE DEF S
  <1> QED
    BY <1>4 DEF Firsts

\* An item that is a row's first stands for all items of that content.
LEMMA FirstsDiffer ==
    ASSUME NEW b \in Batches, NEW p \in Firsts(b.items), NEW q \in Firsts(b.items),
           b.items[p].content = b.items[q].content
    PROVE  p = q
  BY BatchFacts DEF Firsts

LEMMA ZeroIsNoUuid == 0 \notin Uuids /\ NoValue \notin Uuids
  BY BatchAssumption DEF Uuids

-----------------------------------------------------------------------------
(* The invariant of the transactions.                                       *)

\* What the other clients do leaves a transaction in order, as long as its
\* locked rows keep what is committed for them.
LEMMA TxnFrame ==
    ASSUME TxnInv, NEW d \in Clients,
           req'[d] = req[d], pc'[d] = pc[d], at'[d] = at[d], todo'[d] = todo[d],
           mine'[d] = mine[d], written'[d] = written[d],
           \A u \in Uuids : Locks(d, u) => table'[u] = table[u]
    PROVE  TxnOK(d)'
  <1> USE DEF Items
  <1>1. CASE req[d] = NoValue
    BY <1>1 DEF TxnInv, TxnOK, Locks
  <1>2. CASE req[d] # NoValue
    <2> DEFINE items == req[d].items
    <2>0. req[d] \in Batches /\ DOMAIN written[d] = DOMAIN items
      BY <1>2 DEF TxnInv, TypeOK
    <2>1. ASSUME NEW p \in DOMAIN items, written[d][p] # 0
          PROVE  Settled(d, p)'
      <3>1. Settled(d, p)
        BY <1>2, <2>1 DEF TxnInv, TxnOK
      <3>2. written[d][p] \in Uuids
        BY <2>0, <2>1 DEF TxnInv, TypeOK
      <3>3. items[p].content # Untouched
        BY <2>0, BatchFacts
      <3>4. table'[written[d][p]] = table[written[d][p]]
        BY <3>1, <3>2, <3>3 DEF Settled, Locks
      <3> QED
        BY <3>1, <3>2, <3>4 DEF Settled, Rows
    <2>2. ASSUME NEW u \in Uuids, Locks(d, u)'
          PROVE  Claimed(d, u)'
      <3>1. Locks(d, u)
        BY <2>2 DEF Locks
      <3> QED
        BY <1>2, <3>1 DEF TxnInv, TxnOK, Claimed
    <2>3. Progress(d)'
      <3>1. Progress(d)
        BY <1>2 DEF TxnInv, TxnOK
      <3>2. ASSUME pc[d] = "index"
            PROVE  LET i == items[at[d]] IN
                   i.id \in Rows(table') /\ mine[d][i.id] = i.content
        <4>1. items[at[d]].id \in Rows(table) /\ mine[d][items[at[d]].id] = items[at[d]].content
          BY <3>1, <3>2 DEF Progress
        <4>2. at[d] \in DOMAIN items
          BY <1>2, <3>2 DEF TxnInv, TypeOK
        <4>3. items[at[d]].content # Untouched
          BY <2>0, <4>2, BatchFacts
        <4> QED
          BY <4>1, <4>3 DEF Rows, Locks
      <3> QED
        BY <3>1, <3>2 DEF Progress, Missing
    <2> QED
      BY <1>2, <2>1, <2>2, <2>3 DEF TxnOK
  <1> QED
    BY <1>1, <1>2

\* The end of a transaction, with a table that keeps what others have locked.
LEMMA EndKeeps ==
    ASSUME TxnInv, NEW c \in Clients, NEW status \in Statuses, NEW out \in Seq(Uuids),
           End(c, status, out),
           table' \in [Uuids -> Contents \cup {NoValue}],
           \A d \in Clients \ {c} : \A u \in Uuids : Locks(d, u) => table'[u] = table[u]
    PROVE  TxnInv'
  <1>1. TypeOK'
    <2>1. Nothing \in [Uuids -> Contents \cup {Untouched}]
      BY DEF Nothing
    <2>2. [status |-> status, out |-> out] \in [status : Statuses, out : Seq(Uuids)]
      OBVIOUS
    <2> QED
      BY <2>1, <2>2 DEF TxnInv, TypeOK, End, States, Items
  <1>2. LocksExclusive'
    BY DEF TxnInv, TypeOK, LocksExclusive, Locks, End, Nothing
  <1>3. TxnOK(c)'
    BY DEF TxnInv, TypeOK, TxnOK, Locks, End, Nothing
  <1>4. \A d \in Clients \ {c} : TxnOK(d)'
    <2> TAKE d \in Clients \ {c}
    <2>1. /\ req'[d] = req[d] /\ pc'[d] = pc[d] /\ at'[d] = at[d] /\ todo'[d] = todo[d]
          /\ mine'[d] = mine[d] /\ written'[d] = written[d]
      BY DEF TxnInv, TypeOK, End
    <2> QED
      BY <2>1, TxnFrame
  <1> QED
    BY <1>1, <1>2, <1>3, <1>4 DEF TxnInv

LEMMA RollbackKeeps ==
    ASSUME TxnInv, NEW c \in Clients, NEW status \in Statuses, Rollback(c, status)
    PROVE  TxnInv'
  <1>1. <<>> \in Seq(Uuids)
    OBVIOUS
  <1>2. table' \in [Uuids -> Contents \cup {NoValue}]
    BY DEF Rollback, TxnInv, TypeOK
  <1> QED
    BY <1>1, <1>2, EndKeeps DEF Rollback

\* Nothing of client d changes.
Idles(d) ==
    /\ req'[d] = req[d] /\ pc'[d] = pc[d] /\ at'[d] = at[d] /\ todo'[d] = todo[d]
    /\ mine'[d] = mine[d] /\ written'[d] = written[d]

LEMMA BeginKeeps ==
    ASSUME TxnInv, NEW c \in Clients, NEW b \in Batches, Begin(c, b)
    PROVE  TxnInv'
  <1> USE BatchFacts, ZeroIsNoUuid
  <1> DEFINE ids == ById(b.items)
  <1>0. req[c] = NoValue /\ at[c] = 0
    BY DEF TxnInv, TypeOK, Begin
  <1>1. /\ req'[c] = b /\ at'[c] = 0 /\ mine'[c] = mine[c]
        /\ written'[c] = [p \in DOMAIN b.items |-> 0]
        /\ pc'[c] = IF ids = {} THEN "insert" ELSE "update"
        /\ todo'[c] = IF ids = {} THEN Firsts(b.items) ELSE {p \in ids : b.items[p].id \in Rows(table)}
    BY <1>0 DEF TxnInv, TypeOK, Begin
  <1>2. todo'[c] \subseteq DOMAIN b.items /\ todo'[c] \in SUBSET Nat
    BY <1>1 DEF ById
  <1>3. written'[c] \in Seq(Uuids \cup {0})
    BY <1>1
  <1>4. TypeOK'
    <2>1. req' \in [Clients -> Batches \cup {NoValue}]
      BY DEF TxnInv, TypeOK, Begin
    <2>2. pc' \in [Clients -> States]
      BY DEF TxnInv, TypeOK, Begin, States
    <2>3. todo' \in [Clients -> SUBSET Nat] /\ written' \in [Clients -> Seq(Uuids \cup {0})]
      BY <1>1, <1>2, <1>3 DEF TxnInv, TypeOK, Begin
    <2>4. reply' \in [Clients -> [status : Statuses, out : Seq(Uuids)]]
      <3>1. NoReply \in [status : Statuses, out : Seq(Uuids)]
        BY DEF NoReply, Statuses
      <3> QED
        BY <3>1 DEF TxnInv, TypeOK, Begin
    <2> QED
      BY <1>0, <1>1, <1>2, <2>1, <2>2, <2>3, <2>4 DEF TxnInv, TypeOK, Begin, Items
  <1>5. LocksExclusive'
    BY DEF TxnInv, LocksExclusive, Locks, Begin
  <1>6. TxnOK(c)'
    <2>1. \A u \in Uuids : ~Locks(c, u)'
      BY <1>0, <1>1 DEF TxnInv, TxnOK, Locks
    <2>2. Progress(c)'
      BY <1>1, <1>2 DEF Progress, Missing, ById, Items
    <2> QED
      BY <1>1, <2>1, <2>2 DEF TxnOK, Items
  <1>7. \A d \in Clients \ {c} : TxnOK(d)'
    <2> TAKE d \in Clients \ {c}
    <2>1. Idles(d) /\ table' = table
      BY DEF TxnInv, TypeOK, Begin, Idles
    <2> QED
      BY <2>1, TxnFrame DEF Idles
  <1> QED
    BY <1>4, <1>5, <1>6, <1>7 DEF TxnInv

\* A step of c that leaves the committed table and the others alone.
OwnStep(c) ==
    /\ \A d \in Clients \ {c} : Idles(d)
    /\ table' = table
    /\ req' = req /\ reply' = reply

LEMMA OwnStepKeepsOthers ==
    ASSUME TxnInv, NEW c \in Clients, OwnStep(c)
    PROVE  \A d \in Clients \ {c} : TxnOK(d)'
  <1> TAKE d \in Clients \ {c}
  <1> QED
    BY TxnFrame DEF OwnStep, Idles

LEMMA VisitKeeps ==
    ASSUME TxnInv, NEW c \in Clients, NEW p \in todo[c], Visit(c, p)
    PROVE  TxnInv'
  <1>0. req[c] \in Batches /\ p \in Nat
    BY DEF TxnInv, TypeOK
  <1>1. req[c] # NoValue
    BY <1>0, BatchFacts
  <1>2. pc'[c] = IF pc[c] = "insert" /\ req[c].op = "post" THEN "place" ELSE pc[c]
    BY DEF TxnInv, TypeOK, Visit
  <1>3. p # 0
    BY <1>0, <1>1, BatchFacts DEF TxnInv, TypeOK, Items
  <1>4. TypeOK'
    BY <1>0, <1>1, <1>2, <1>3 DEF TxnInv, TypeOK, Visit, Items, States
  <1>5. LocksExclusive'
    BY DEF TxnInv, LocksExclusive, Locks, Visit
  <1>6. pc[c] # "index"
    BY DEF TxnInv, TypeOK, Visit
  <1>7. TxnOK(c)'
    <2>1. TxnOK(c) /\ pc'[c] \in {"insert", "place"} <=> pc[c] \in {"insert", "place"}
      BY <1>2 DEF TxnInv
    <2>2. ASSUME NEW q \in DOMAIN Items(c), written[c][q] # 0
          PROVE  Settled(c, q)'
      BY <1>1, <1>2, <2>2 DEF TxnInv, TxnOK, Settled, Items, Visit
    <2>3. ASSUME NEW u \in Uuids, Locks(c, u)
          PROVE  Claimed(c, u)'
      BY <1>1, <1>6, <2>3 DEF TxnInv, TxnOK, Claimed, Items, Visit
    <2>4. Progress(c)'
      <3>1. Progress(c) /\ req[c].op \in {"post", "put"}
        BY <1>0, <1>1, BatchFacts DEF TxnInv, TxnOK
      <3>2. pc'[c] = "insert" => req[c].op = "put"
        BY <1>2, <3>1
      <3>3. pc'[c] # "index"
        BY <1>2, <1>6
      <3>4. req'[c] = req[c] /\ written'[c] = written[c] /\ todo'[c] = todo[c]
        BY DEF Visit
      <3> QED
        BY <1>2, <3>1, <3>2, <3>3, <3>4 DEF Progress, Missing, Items
    <2> QED
      BY <1>1, <2>2, <2>3, <2>4 DEF TxnOK, Locks, Items, Visit
  <1>8. OwnStep(c)
    BY DEF TxnInv, TypeOK, Visit, OwnStep, Idles
  <1> QED
    BY <1>4, <1>5, <1>7, <1>8, OwnStepKeepsOthers DEF TxnInv

\* What c has written, typed.
LEMMA WrittenType ==
    ASSUME TypeOK, NEW c \in Clients, req[c] # NoValue
    PROVE  /\ req[c] \in Batches
           /\ written[c] \in Seq(Uuids \cup {0})
           /\ DOMAIN written[c] = DOMAIN Items(c)
           /\ \A p \in DOMAIN Items(c) : written[c][p] \in Uuids \cup {0}
           /\ \A p \in DOMAIN Items(c), u \in Uuids \cup {0} :
                 [written[c] EXCEPT ![p] = u] \in Seq(Uuids \cup {0})
  BY DEF TypeOK

\* Finishing an item touches nothing but the client's own bookkeeping.
Finished(c, u) ==
    /\ at[c] \in DOMAIN Items(c) /\ at[c] \in todo[c]
    /\ at'[c] = 0 /\ todo'[c] = todo[c] \ {at[c]}
    /\ written'[c] = [written[c] EXCEPT ![at[c]] = u]
    /\ \A q \in DOMAIN Items(c) : written'[c][q] = IF q = at[c] THEN u ELSE written[c][q]
    /\ DOMAIN written'[c] = DOMAIN Items(c)
    /\ at' \in [Clients -> Nat]
    /\ todo' \in [Clients -> SUBSET Nat]
    /\ written' \in [Clients -> Seq(Uuids \cup {0})]
    /\ \A d \in Clients \ {c} : at'[d] = at[d] /\ todo'[d] = todo[d] /\ written'[d] = written[d]

LEMMA DoneFacts ==
    ASSUME TypeOK, NEW c \in Clients, req[c] # NoValue, at[c] # 0,
           NEW u \in Uuids \cup {0}, Done(c, at[c], u)
    PROVE  Finished(c, u)
  <1>1. at[c] \in DOMAIN Items(c) /\ at[c] \in todo[c]
    BY DEF TypeOK
  <1>2. written'[c] = [written[c] EXCEPT ![at[c]] = u]
    BY DEF TypeOK, Done
  <1>3. written'[c] \in Seq(Uuids \cup {0})
    BY <1>1, <1>2, WrittenType
  <1>4. written' \in [Clients -> Seq(Uuids \cup {0})]
    BY <1>3 DEF TypeOK, Done
  <1>5. \A q \in DOMAIN Items(c) : written'[c][q] = IF q = at[c] THEN u ELSE written[c][q]
    BY <1>1, <1>2, WrittenType
  <1>6. DOMAIN written'[c] = DOMAIN Items(c)
    BY <1>2, WrittenType
  <1> QED
    BY <1>1, <1>2, <1>4, <1>5, <1>6 DEF TypeOK, Done, Finished

\* A row the client now locks was locked by nobody else.
LEMMA LockKeepsExclusive ==
    ASSUME TypeOK, LocksExclusive, NEW c \in Clients, NEW u \in Uuids, NEW x \in Contents,
           mine' = [mine EXCEPT ![c][u] = x],
           \A s \in Clients \ {c} : ~Locks(s, u)
    PROVE  /\ LocksExclusive'
           /\ mine' \in [Clients -> [Uuids -> Contents \cup {Untouched}]]
           /\ \A w \in Uuids : mine'[c][w] = IF w = u THEN x ELSE mine[c][w]
           /\ \A s \in Clients \ {c} : mine'[s] = mine[s]
  <1>1. \A w \in Uuids : mine'[c][w] = IF w = u THEN x ELSE mine[c][w]
    BY DEF TypeOK
  <1>2. \A s \in Clients \ {c} : mine'[s] = mine[s]
    BY DEF TypeOK
  <1>3. mine' \in [Clients -> [Uuids -> Contents \cup {Untouched}]]
    BY DEF TypeOK
  <1>4. ASSUME NEW s \in Clients, NEW t \in Clients, NEW w \in Uuids,
               Locks(s, w)', Locks(t, w)'
        PROVE  s = t
    BY <1>1, <1>2, <1>4 DEF LocksExclusive, Locks
  <1> QED
    BY <1>1, <1>2, <1>3, <1>4 DEF LocksExclusive

LEMMA UpdateRowKeeps ==
    ASSUME TxnInv, NEW c \in Clients, UpdateRow(c)
    PROVE  TxnInv'
  <1> DEFINE p == at[c]
             i == Items(c)[p]
  <1>0. /\ pc[c] = "update" /\ p # 0 /\ Blockers(c) = {} /\ req[c] # NoValue
        /\ req' = req /\ table' = table /\ reply' = reply
    BY DEF TxnInv, TypeOK, UpdateRow, Working
  <1>1. /\ req[c] \in Batches /\ p \in DOMAIN Items(c) /\ p \in todo[c]
        /\ p \in ById(Items(c)) /\ written[c][p] = 0 /\ Progress(c)
        /\ i.content \in Contents /\ i.id \in Uuids
    <2>1. req[c] \in Batches /\ p \in DOMAIN Items(c) /\ p \in todo[c] /\ Progress(c)
      BY <1>0 DEF TxnInv, TypeOK, TxnOK
    <2>2. p \in ById(Items(c)) /\ written[c][p] = 0
      BY <1>0, <2>1 DEF Progress
    <2> QED
      BY <2>1, <2>2, BatchFacts DEF ById, Items
  <1>2. \A q \in DOMAIN Items(c) : written[c][q] # 0 =>
           Settled(c, q) /\ Items(c)[q].id # NoValue /\ written[c][q] # i.id
    <2> TAKE q \in DOMAIN Items(c)
    <2> HAVE written[c][q] # 0
    <2>1. Settled(c, q)
      BY <1>0 DEF TxnInv, TxnOK
    <2>2. Items(c)[q].id # NoValue /\ written[c][q] = Items(c)[q].id
      BY <1>0, <2>1 DEF Settled
    <2>3. q # p
      BY <1>1
    <2>4. Items(c)[q].id # Items(c)[p].id
      BY <1>1, <2>2, <2>3, BatchAssumption DEF Items
    <2> QED
      BY <2>1, <2>2, <2>4
  <1>3. \A u \in Uuids : Locks(c, u) => \E q \in DOMAIN Items(c) : written[c][q] = u
    BY <1>0 DEF TxnInv, TxnOK, Claimed
  <1>4. CASE table[i.id] = NoValue
    <2>1. Done(c, p, 0) /\ pc' = pc /\ mine' = mine
      BY <1>4 DEF UpdateRow
    <2>a. Finished(c, 0)
      <3>1. 0 \in Uuids \cup {0}
        OBVIOUS
      <3> QED
        BY <1>0, <2>1, <3>1, DoneFacts DEF TxnInv
    <2>2. TypeOK'
      BY <1>0, <1>1, <2>1, <2>a DEF TxnInv, TypeOK, Items, Finished
    <2>3. LocksExclusive'
      BY <2>1 DEF TxnInv, LocksExclusive, Locks
    <2>4. written'[c] = written[c]
      BY <1>0, <1>1, <2>a, WrittenType DEF TxnInv, Finished
    <2>5. TxnOK(c)'
      <3>1. \A q \in DOMAIN Items(c) : written'[c][q] # 0 => Settled(c, q)'
        BY <1>0, <1>2, <2>1, <2>4 DEF Settled, Items, Rows
      <3>2. \A u \in Uuids : Locks(c, u)' => Claimed(c, u)'
        BY <1>0, <1>3, <2>1, <2>4 DEF Locks, Claimed, Items
      <3>3. Progress(c)'
        BY <1>0, <1>1, <2>1, <2>4, <2>a DEF TxnInv, Progress, Items, Finished
      <3> QED
        BY <1>0, <3>1, <3>2, <3>3 DEF TxnOK, Items
    <2>6. OwnStep(c)
      BY <1>0, <1>1, <2>1, <2>a DEF TxnInv, OwnStep, Idles, Finished
    <2> QED
      BY <2>2, <2>3, <2>5, <2>6, OwnStepKeepsOthers DEF TxnInv
  <1>5. CASE table[i.id] # NoValue
    <2>1. /\ mine' = [mine EXCEPT ![c][i.id] = i.content]
          /\ pc' = [pc EXCEPT ![c] = "index"]
          /\ at' = at /\ todo' = todo /\ written' = written
      BY <1>5 DEF UpdateRow
    <2>2. \A s \in Clients \ {c} : ~Locks(s, i.id)
      BY <1>0 DEF Blockers
    <2>3. TypeOK'
      BY <1>0, <1>1, <2>1, <2>2, LockKeepsExclusive DEF TxnInv, TypeOK, Items, States
    <2>4. LocksExclusive'
      BY <1>1, <2>1, <2>2, LockKeepsExclusive DEF TxnInv
    <2>5. /\ \A w \in Uuids : mine'[c][w] = IF w = i.id THEN i.content ELSE mine[c][w]
          /\ \A d \in Clients \ {c} : mine'[d] = mine[d]
      BY <1>1, <2>1, <2>2, LockKeepsExclusive DEF TxnInv
    <2>6. pc'[c] = "index"
      BY <2>1 DEF TxnInv, TypeOK
    <2>7. TxnOK(c)'
      <3>1. ASSUME NEW q \in DOMAIN Items(c), written[c][q] # 0
            PROVE  Settled(c, q)'
        <4>1. written[c][q] \in Uuids
          BY <1>0, <3>1, WrittenType DEF TxnInv
        <4> QED
          BY <1>0, <1>2, <2>1, <2>5, <3>1, <4>1 DEF Settled, Items, Rows
      <3>2. ASSUME NEW u \in Uuids, Locks(c, u)'
            PROVE  Claimed(c, u)'
        BY <1>0, <1>3, <2>1, <2>5, <2>6, <3>2 DEF Locks, Claimed, Items
      <3>3. Progress(c)'
        BY <1>0, <1>1, <1>5, <2>1, <2>5, <2>6 DEF Progress, Items, Rows
      <3> QED
        BY <1>0, <2>1, <3>1, <3>2, <3>3 DEF TxnOK, Items
    <2>8. OwnStep(c)
      BY <1>0, <2>1, <2>5 DEF TxnInv, TypeOK, OwnStep, Idles
    <2> QED
      BY <2>3, <2>4, <2>7, <2>8, OwnStepKeepsOthers DEF TxnInv
  <1> QED
    BY <1>4, <1>5

\* The item a statement works on.
LEMMA WorkingItem ==
    ASSUME TxnInv, NEW c \in Clients, NEW state \in States \ {"idle"}, Working(c, state)
    PROVE  /\ pc[c] = state /\ at[c] # 0 /\ Blockers(c) = {} /\ req[c] # NoValue
           /\ req[c] \in Batches /\ at[c] \in DOMAIN Items(c) /\ at[c] \in todo[c]
           /\ written[c][at[c]] = 0 /\ Progress(c)
           /\ Items(c)[at[c]].content \in Contents
           /\ Items(c)[at[c]].content # NoValue
           /\ Items(c)[at[c]].content # Untouched
           /\ \A q \in DOMAIN Items(c) : written[c][q] # 0 => Settled(c, q) /\ written[c][q] \in Uuids
           /\ \A u \in Uuids : Locks(c, u) => Claimed(c, u)
  <1>1. /\ pc[c] = state /\ at[c] # 0 /\ Blockers(c) = {} /\ req[c] # NoValue
        /\ req[c] \in Batches /\ at[c] \in DOMAIN Items(c) /\ at[c] \in todo[c] /\ Progress(c)
    BY DEF Working, TxnInv, TypeOK, TxnOK
  <1>2. written[c][at[c]] = 0
    BY <1>1 DEF Progress
  <1>3. \A q \in DOMAIN Items(c) : written[c][q] # 0 => Settled(c, q) /\ written[c][q] \in Uuids
    BY <1>1, WrittenType DEF TxnInv, TxnOK
  <1>4. \A u \in Uuids : Locks(c, u) => Claimed(c, u)
    BY <1>1 DEF TxnInv, TxnOK
  <1> QED
    BY <1>1, <1>2, <1>3, <1>4, BatchFacts DEF Items

LEMMA IndexRowKeeps ==
    ASSUME TxnInv, NEW c \in Clients, IndexRow(c)
    PROVE  TxnInv'
  <1> DEFINE p == at[c]
             i == Items(c)[p]
  <1>0. "index" \in States \ {"idle"} /\ "duplicate" \in Statuses
    BY DEF States, Statuses
  <1>1. CASE Rollback(c, "duplicate")
    BY <1>0, <1>1, RollbackKeeps
  <1>2. CASE /\ Done(c, p, i.id)
             /\ pc' = [pc EXCEPT ![c] = "update"]
             /\ UNCHANGED <<table, req, mine, reply>>
    <2>1. /\ pc[c] = "index" /\ p # 0 /\ req[c] # NoValue
          /\ req[c] \in Batches /\ p \in DOMAIN Items(c) /\ p \in todo[c]
          /\ written[c][p] = 0 /\ Progress(c)
          /\ \A q \in DOMAIN Items(c) : written[c][q] # 0 => Settled(c, q) /\ written[c][q] \in Uuids
          /\ \A u \in Uuids : Locks(c, u) => Claimed(c, u)
      BY <1>0, WorkingItem DEF IndexRow
    <2>2. i.id \in Uuids /\ i.id \in Rows(table) /\ mine[c][i.id] = i.content
      BY <2>1 DEF Progress, Rows
    <2>3. Finished(c, i.id)
      BY <1>2, <2>1, <2>2, DoneFacts DEF TxnInv
    <2>4. pc'[c] = "update"
      BY <1>2 DEF TxnInv, TypeOK
    <2>5. TypeOK'
      BY <1>2, <2>1, <2>3 DEF TxnInv, TypeOK, Finished, Items, States
    <2>6. LocksExclusive'
      BY <1>2 DEF TxnInv, LocksExclusive, Locks
    <2>7. ASSUME NEW q \in DOMAIN Items(c), written'[c][q] # 0
          PROVE  Settled(c, q)'
      <3>1. CASE q = p
        BY <1>2, <2>2, <2>3, <3>1, BatchFacts, ZeroIsNoUuid DEF Settled, Items, Rows, Finished
      <3>2. CASE q # p
        <4>1. Settled(c, q) /\ written'[c][q] = written[c][q]
          BY <2>1, <2>3, <2>7, <3>2 DEF Finished
        <4> QED
          BY <1>2, <2>1, <4>1 DEF Settled, Items, Rows
      <3> QED
        BY <3>1, <3>2
    <2>8. ASSUME NEW u \in Uuids, Locks(c, u)'
          PROVE  Claimed(c, u)'
      <3>1. Claimed(c, u)
        BY <1>2, <2>1, <2>8 DEF Locks
      <3>2. CASE Items(c)[p].id = u
        BY <1>2, <2>3, <3>2 DEF Claimed, Items, Finished
      <3>3. CASE \E q \in DOMAIN Items(c) : written[c][q] = u
        <4>1. PICK q \in DOMAIN Items(c) : written[c][q] = u
          BY <3>3
        <4>2. q # p
          BY <2>1, <4>1, ZeroIsNoUuid
        <4> QED
          BY <1>2, <2>3, <4>1, <4>2 DEF Claimed, Items, Finished
      <3> QED
        BY <3>1, <3>2, <3>3 DEF Claimed
    <2>9. Progress(c)'
      BY <1>2, <2>1, <2>3, <2>4 DEF Progress, Items, Finished
    <2>10. TxnOK(c)'
      BY <1>2, <2>1, <2>7, <2>8, <2>9 DEF TxnOK, Items
    <2>11. OwnStep(c)
      BY <1>2, <2>3 DEF TxnInv, TypeOK, OwnStep, Idles, Finished
    <2> QED
      BY <2>5, <2>6, <2>10, <2>11, OwnStepKeepsOthers DEF TxnInv
  <1> QED
    BY <1>1, <1>2 DEF IndexRow

LEMMA EndUpdateKeeps ==
    ASSUME TxnInv, NEW c \in Clients, EndUpdate(c)
    PROVE  TxnInv'
  <1>0. "missing" \in Statuses
    BY DEF Statuses
  <1>1. CASE Rollback(c, "missing")
    BY <1>0, <1>1, RollbackKeeps
  <1>2. CASE /\ Missing(c) = {}
             /\ pc' = [pc EXCEPT ![c] = "insert"]
             /\ todo' = [todo EXCEPT ![c] = Firsts(Items(c))]
             /\ UNCHANGED <<table, req, at, mine, written, reply>>
    <2>1. /\ pc[c] = "update" /\ at[c] = 0 /\ req[c] # NoValue /\ req[c] \in Batches /\ Progress(c)
          /\ \A q \in DOMAIN Items(c) : written[c][q] # 0 => Settled(c, q)
          /\ \A u \in Uuids : Locks(c, u) => Claimed(c, u)
      BY DEF TxnInv, TypeOK, TxnOK, EndUpdate
    <2>2. pc'[c] = "insert" /\ todo'[c] = Firsts(Items(c))
      BY <1>2 DEF TxnInv, TypeOK
    <2>3. /\ Firsts(Items(c)) \subseteq DOMAIN Items(c) \ ById(Items(c))
          /\ Firsts(Items(c)) \in SUBSET Nat
      BY <2>1, BatchFacts DEF Items
    <2>4. TypeOK'
      BY <1>2, <2>1, <2>2, <2>3 DEF TxnInv, TypeOK, Items, States
    <2>5. LocksExclusive'
      BY <1>2 DEF TxnInv, LocksExclusive, Locks
    <2>6. ASSUME NEW q \in DOMAIN Items(c), written[c][q] # 0
          PROVE  Settled(c, q)'
      BY <1>2, <2>1, <2>2, <2>6 DEF Settled, Items, Rows
    <2>7. ASSUME NEW u \in Uuids, Locks(c, u)
          PROVE  Claimed(c, u)'
      BY <1>2, <2>1, <2>2, <2>7 DEF Claimed, Items
    <2>8. \A p \in Firsts(Items(c)) : written[c][p] = 0
      <3> TAKE p \in Firsts(Items(c))
      <3>1. p \in DOMAIN Items(c) /\ Items(c)[p].id = NoValue
        BY <2>3 DEF ById
      <3> QED
        BY <2>1, <3>1 DEF Settled
    <2>9. Progress(c)'
      BY <1>2, <2>1, <2>2, <2>8 DEF Progress, Items, Missing
    <2>10. TxnOK(c)'
      BY <1>2, <2>1, <2>6, <2>7, <2>9 DEF TxnOK, Items, Locks
    <2>11. OwnStep(c)
      BY <1>2 DEF TxnInv, TypeOK, OwnStep, Idles
    <2> QED
      BY <2>4, <2>5, <2>10, <2>11, OwnStepKeepsOthers DEF TxnInv
  <1> QED
    BY <1>1, <1>2 DEF EndUpdate

\* An item of the INSERT gets row u, which now holds its content under a lock:
\* a row that had it already (ON CONFLICT) or one that did not exist.
LEMMA PlacedKeeps ==
    ASSUME TxnInv, NEW c \in Clients, NEW state \in {"insert", "place"}, Working(c, state),
           NEW u \in Uuids,
           mine' = [mine EXCEPT ![c][u] = Items(c)[at[c]].content],
           Done(c, at[c], u),
           pc' = [pc EXCEPT ![c] = "insert"],
           UNCHANGED <<table, req, reply>>,
           \A s \in Clients \ {c} : ~Locks(s, u),
           \/ table[u] = NoValue
           \/ req[c].op = "put" /\ table[u] = Items(c)[at[c]].content
           \/ \E q \in DOMAIN Items(c) : Items(c)[q].id = u,
           Locks(c, u) => mine[c][u] = Items(c)[at[c]].content
    PROVE  TxnInv'
  <1> DEFINE p == at[c]
             x == Items(c)[p].content
  <1>0. state \in States \ {"idle"}
    BY DEF States
  <1>1. /\ pc[c] = state /\ p # 0 /\ req[c] # NoValue
        /\ req[c] \in Batches /\ p \in DOMAIN Items(c) /\ p \in todo[c]
        /\ written[c][p] = 0 /\ Progress(c)
        /\ x \in Contents /\ x # NoValue /\ x # Untouched
        /\ \A q \in DOMAIN Items(c) : written[c][q] # 0 => Settled(c, q) /\ written[c][q] \in Uuids
        /\ \A w \in Uuids : Locks(c, w) => Claimed(c, w)
    BY <1>0, WorkingItem
  <1>2. p \in Firsts(Items(c)) /\ Items(c)[p].id = NoValue
    <2>1. p \in Firsts(Items(c))
      BY <1>1 DEF Progress
    <2> QED
      BY <1>1, <2>1, BatchFacts DEF ById, Items
  <1>3. Finished(c, u)
    BY <1>1, DoneFacts DEF TxnInv
  <1>4. /\ LocksExclusive'
        /\ mine' \in [Clients -> [Uuids -> Contents \cup {Untouched}]]
        /\ \A w \in Uuids : mine'[c][w] = IF w = u THEN x ELSE mine[c][w]
        /\ \A s \in Clients \ {c} : mine'[s] = mine[s]
    BY <1>1, LockKeepsExclusive DEF TxnInv
  <1>5. pc'[c] = "insert"
    BY DEF TxnInv, TypeOK
  <1>6. TypeOK'
    <2>1. TypeOK /\ pc' \in [Clients -> States]
      BY DEF TxnInv, TypeOK, States
    <2>2. /\ at' \in [Clients -> Nat] /\ todo' \in [Clients -> SUBSET Nat]
          /\ written' \in [Clients -> Seq(Uuids \cup {0})]
          /\ todo'[c] \subseteq DOMAIN Items(c) /\ at'[c] = 0
          /\ DOMAIN written'[c] = DOMAIN Items(c)
      BY <1>1, <1>3, <2>1 DEF Finished, TypeOK
    <2>3. \A d \in Clients \ {c} :
             /\ pc'[d] = pc[d] /\ at'[d] = at[d]
             /\ todo'[d] = todo[d] /\ written'[d] = written[d]
      BY <1>3, <2>1 DEF Finished, TypeOK
    <2>4. \A d \in Clients : Items(d)' = Items(d)
      BY DEF Items
    <2>5. \A d \in Clients :
             /\ pc'[d] = "idle" <=> req'[d] = NoValue
             /\ req'[d] = NoValue => at'[d] = 0 /\ todo'[d] = {}
             /\ req'[d] # NoValue =>
                   /\ todo'[d] \subseteq DOMAIN Items(d)
                   /\ at'[d] \in todo'[d] \cup {0}
                   /\ DOMAIN written'[d] = DOMAIN Items(d)
             /\ pc'[d] \in {"index", "place"} => at'[d] # 0
      <3> TAKE d \in Clients
      <3>1. CASE d = c
        BY <1>1, <1>5, <2>2, <3>1
      <3>2. CASE d # c
        BY <2>1, <2>3, <3>2 DEF TypeOK
      <3> QED
        BY <3>1, <3>2
    <2> QED
      BY <1>4, <2>1, <2>2, <2>4, <2>5 DEF TypeOK
  <1>7. ASSUME NEW q \in DOMAIN Items(c), written'[c][q] # 0
        PROVE  Settled(c, q)'
    <2>1. CASE q = p
      BY <1>1, <1>2, <1>3, <1>4, <1>5, <2>1 DEF Settled, Items, Finished
    <2>2. CASE q # p
      <3>1. written'[c][q] = written[c][q] /\ Settled(c, q) /\ written[c][q] \in Uuids
        BY <1>1, <1>3, <1>7, <2>2 DEF Finished
      <3>2. mine[c][written[c][q]] = Items(c)[q].content /\ Items(c)[q].content # Untouched
        BY <1>1, <3>1, BatchFacts DEF Settled, Items
      <3>3. mine'[c][written[c][q]] = mine[c][written[c][q]]
        BY <1>4, <3>1, <3>2 DEF Locks
      <3> QED
        BY <1>1, <1>5, <3>1, <3>3 DEF Settled, Items, Rows
    <2> QED
      BY <2>1, <2>2
  <1>8. ASSUME NEW w \in Uuids, Locks(c, w)'
        PROVE  Claimed(c, w)'
    <2>1. CASE w = u
      BY <1>1, <1>3, <2>1 DEF Claimed, Items, Finished
    <2>2. CASE w # u
      <3>1. Claimed(c, w)
        BY <1>1, <1>4, <1>8, <2>2 DEF Locks
      <3>2. PICK q \in DOMAIN Items(c) : written[c][q] = w
        BY <1>1, <3>1 DEF Claimed
      <3>3. q # p
        BY <1>1, <3>2, ZeroIsNoUuid
      <3> QED
        BY <1>3, <3>2, <3>3 DEF Claimed, Items, Finished
    <2> QED
      BY <2>1, <2>2
  <1>9. Progress(c)'
    <2>1. Missing(c)' = {}
      <3>1. \A q \in ById(Items(c)) : q # p /\ written[c][q] # 0 /\ q \in DOMAIN Items(c)
        BY <1>1, <1>2 DEF Progress, Missing, ById
      <3> QED
        BY <1>3, <3>1 DEF Missing, Finished, Items
    <2>2. \A q \in todo'[c] : written'[c][q] = 0
      BY <1>1, <1>3 DEF Progress, Finished, TxnInv, TypeOK
    <2>3. \A q \in Firsts(Items(c)) : q \in todo'[c] \/ written'[c][q] # 0
      <3> TAKE q \in Firsts(Items(c))
      <3>1. q \in DOMAIN Items(c)
        BY <1>1, BatchFacts DEF Items
      <3> QED
        BY <1>1, <1>3, <3>1, ZeroIsNoUuid DEF Progress, Finished
    <2>4. todo'[c] \subseteq Firsts(Items(c)) /\ at'[c] = 0
      BY <1>1, <1>3 DEF Progress, Finished
    <2> QED
      BY <1>5, <2>1, <2>2, <2>3, <2>4 DEF Progress, Items
  <1>10. TxnOK(c)'
    BY <1>1, <1>7, <1>8, <1>9 DEF TxnOK, Items
  <1>11. OwnStep(c)
    BY <1>3, <1>4 DEF TxnInv, TypeOK, OwnStep, Idles, Finished
  <1> QED
    BY <1>4, <1>6, <1>10, <1>11, OwnStepKeepsOthers DEF TxnInv

LEMMA ArbitrateKeeps ==
    ASSUME TxnInv, NEW c \in Clients, Arbitrate(c)
    PROVE  TxnInv'
  <1> DEFINE p == at[c]
             x == Items(c)[p].content
             same == {u \in Uuids : View(c)[u] = x}
  <1>0. "insert" \in States \ {"idle"}
    BY DEF States
  <1>1. /\ Working(c, "insert") /\ pc[c] = "insert" /\ p # 0 /\ Blockers(c) = {} /\ req[c] # NoValue
        /\ req[c] \in Batches /\ p \in DOMAIN Items(c) /\ p \in todo[c] /\ Progress(c)
        /\ x \in Contents /\ x # NoValue /\ x # Untouched
        /\ \A q \in DOMAIN Items(c) : written[c][q] # 0 => Settled(c, q)
        /\ \A w \in Uuids : Locks(c, w) => Claimed(c, w)
    BY <1>0, WorkingItem DEF Arbitrate
  <1>2. CASE /\ pc' = [pc EXCEPT ![c] = "place"]
             /\ UNCHANGED <<table, req, at, todo, mine, written, reply>>
    <2>1. pc'[c] = "place"
      BY <1>2 DEF TxnInv, TypeOK
    <2>2. TypeOK'
      BY <1>1, <1>2, <2>1 DEF TxnInv, TypeOK, Items, States
    <2>3. LocksExclusive'
      BY <1>2 DEF TxnInv, LocksExclusive, Locks
    <2>4. TxnOK(c)'
      <3>1. ASSUME NEW q \in DOMAIN Items(c), written[c][q] # 0
            PROVE  Settled(c, q)'
        BY <1>1, <1>2, <2>1, <3>1 DEF Settled, Items, Rows
      <3>2. ASSUME NEW u \in Uuids, Locks(c, u)
            PROVE  Claimed(c, u)'
        BY <1>1, <1>2, <2>1, <3>2 DEF Claimed, Items
      <3>3. Progress(c)'
        BY <1>1, <1>2, <2>1 DEF Progress, Missing, Items
      <3> QED
        BY <1>1, <1>2, <3>1, <3>2, <3>3 DEF TxnOK, Items, Locks
    <2>5. OwnStep(c)
      BY <1>2 DEF TxnInv, TypeOK, OwnStep, Idles
    <2> QED
      BY <2>2, <2>3, <2>4, <2>5, OwnStepKeepsOthers DEF TxnInv
  <1>3. ASSUME NEW u \in same,
               mine' = [mine EXCEPT ![c][u] = x], Done(c, p, u),
               UNCHANGED <<pc, table, req, reply>>
        PROVE  TxnInv'
    <2>1. u \in Uuids /\ View(c)[u] = x
      OBVIOUS
    <2>2. /\ Locks(c, u) => mine[c][u] = x
          /\ ~Locks(c, u) => table[u] = x
      BY <2>1 DEF View
    <2>3. \A s \in Clients \ {c} : ~Locks(s, u)
      <3> SUFFICES ASSUME NEW s \in Clients \ {c}, Locks(s, u)
                   PROVE  FALSE
        OBVIOUS
      <3>1. ~Locks(c, u)
        BY <2>1 DEF TxnInv, LocksExclusive
      <3>2. Undecided(s, x)
        BY <2>1, <2>2, <3>1 DEF Undecided
      <3> QED
        BY <1>1, <3>2 DEF Blockers
    <2>4. \/ table[u] = NoValue
          \/ req[c].op = "put" /\ table[u] = x
          \/ \E q \in DOMAIN Items(c) : Items(c)[q].id = u
      <3>1. CASE ~Locks(c, u)
        BY <1>1, <2>2, <3>1 DEF Progress
      <3>2. CASE Locks(c, u)
        <4>1. PICK q \in DOMAIN Items(c) : written[c][q] = u
          BY <1>1, <2>1, <3>2 DEF Claimed
        <4>2. Settled(c, q)
          BY <1>1, <2>1, <4>1, ZeroIsNoUuid
        <4>3. Items(c)[q].content = x
          BY <2>2, <3>2, <4>1, <4>2 DEF Settled
        <4> QED
          BY <4>1, <4>2, <4>3 DEF Settled
      <3> QED
        BY <3>1, <3>2
    <2>5. pc' = [pc EXCEPT ![c] = "insert"]
      BY <1>1, <1>3 DEF TxnInv, TypeOK
    <2> QED
      BY <1>1, <1>3, <2>1, <2>2, <2>3, <2>4, <2>5, PlacedKeeps
  <1> QED
    BY <1>2, <1>3 DEF Arbitrate

LEMMA PlaceKeeps ==
    ASSUME TxnInv, NEW c \in Clients, Place(c)
    PROVE  TxnInv'
  <1> DEFINE p == at[c]
             x == Items(c)[p].content
  <1>0. {"duplicate", "violation"} \subseteq Statuses /\ Working(c, "place")
    BY DEF Statuses, Place
  <1>1. CASE Rollback(c, IF req[c].op = "post" THEN "duplicate" ELSE "violation")
    <2>1. (IF req[c].op = "post" THEN "duplicate" ELSE "violation") \in Statuses
      BY <1>0
    <2> QED
      BY <1>1, <2>1, RollbackKeeps
  <1>2. ASSUME NEW u \in Fresh,
               mine' = [mine EXCEPT ![c][u] = x], Done(c, p, u),
               pc' = [pc EXCEPT ![c] = "insert"],
               UNCHANGED <<table, req, reply>>
        PROVE  TxnInv'
    <2>1. u \in Uuids /\ table[u] = NoValue /\ \A s \in Clients : ~Locks(s, u)
      BY DEF Fresh
    <2> QED
      BY <1>0, <1>2, <2>1, PlacedKeeps
  <1> QED
    BY <1>1, <1>2 DEF Place

\* The ids a transaction answers with, once it has nothing left to do.
LEMMA AnswerFacts ==
    ASSUME TxnInv, NEW c \in Clients, req[c] # NoValue, pc[c] = "insert", todo[c] = {},
           NEW p \in DOMAIN Items(c)
    PROVE  \E q \in DOMAIN Items(c) :
              /\ RowOf(c, p) = written[c][q]
              /\ written[c][q] \in Uuids
              /\ Items(c)[q].content = Items(c)[p].content
              /\ Settled(c, q)
              /\ Items(c)[p].id # NoValue => q = p
              /\ Items(c)[p].id = NoValue => Items(c)[q].id = NoValue
  <1>1. /\ req[c] \in Batches /\ Progress(c)
        /\ \A q \in DOMAIN Items(c) : written[c][q] # 0 => Settled(c, q) /\ written[c][q] \in Uuids
    BY WrittenType DEF TxnInv, TypeOK, TxnOK
  <1>2. CASE Items(c)[p].id # NoValue
    <2>1. written[c][p] # 0
      BY <1>1, <1>2 DEF Progress, Missing, ById
    <2> QED
      BY <1>1, <1>2, <2>1 DEF RowOf
  <1>3. CASE Items(c)[p].id = NoValue
    <2>1. p \notin ById(Items(c))
      BY <1>3 DEF ById
    <2>2. \E q \in Firsts(Items(c)) : Items(c)[q].content = Items(c)[p].content
      BY <1>1, <2>1, FirstExists DEF Items
    <2> DEFINE q == CHOOSE r \in Firsts(Items(c)) : Items(c)[r].content = Items(c)[p].content
    <2>3. q \in Firsts(Items(c)) /\ Items(c)[q].content = Items(c)[p].content
      BY <2>2
    <2>4. RowOf(c, p) = written[c][q]
      BY <1>3 DEF RowOf
    <2> HIDE DEF q
    <2>5. q \in DOMAIN Items(c) /\ Items(c)[q].id = NoValue
      BY <2>3 DEF Firsts, ById
    <2>6. written[c][q] # 0
      BY <1>1, <2>3 DEF Progress
    <2> QED
      BY <1>1, <1>3, <2>3, <2>4, <2>5, <2>6
  <1> QED
    BY <1>2, <1>3

LEMMA CommitKeeps ==
    ASSUME TxnInv, NEW c \in Clients, Commit(c)
    PROVE  TxnInv'
  <1> DEFINE out == [p \in DOMAIN Items(c) |-> RowOf(c, p)]
  <1>1. req[c] # NoValue /\ req[c] \in Batches /\ pc[c] = "insert" /\ todo[c] = {}
    BY DEF TxnInv, TypeOK, Commit
  <1>2. \A p \in DOMAIN Items(c) : RowOf(c, p) \in Uuids
    BY <1>1, AnswerFacts
  <1>3. out \in Seq(Uuids)
    <2>1. Items(c) \in Seq(Item)
      BY <1>1, BatchFacts DEF Items
    <2>2. Len(Items(c)) \in Nat /\ DOMAIN Items(c) = 1..Len(Items(c))
      BY <2>1
    <2>3. out \in [1..Len(Items(c)) -> Uuids]
      BY <1>2, <2>2
    <2> QED
      BY <2>2, <2>3
  <1>4. table' = View(c) /\ End(c, "ok", out) /\ "ok" \in Statuses
    BY DEF Commit, Statuses
  <1>5. View(c) \in [Uuids -> Contents \cup {NoValue}]
    BY DEF View, Locks, TxnInv, TypeOK
  <1>6. \A d \in Clients \ {c} : \A u \in Uuids : Locks(d, u) => View(c)[u] = table[u]
    BY DEF View, TxnInv, LocksExclusive
  <1> HIDE DEF out
  <1> QED
    BY <1>3, <1>4, <1>5, <1>6, EndKeeps

LEMMA OtherWriteKeeps ==
    ASSUME TxnInv, NEW u \in Uuids, NEW x \in Contents \cup {NoValue}, OtherWrite(u, x)
    PROVE  TxnInv'
  <1>1. table' \in [Uuids -> Contents \cup {NoValue}]
    BY DEF TxnInv, TypeOK, OtherWrite
  <1>2. TypeOK'
    BY <1>1 DEF TxnInv, TypeOK, OtherWrite, Items
  <1>3. LocksExclusive'
    BY DEF TxnInv, LocksExclusive, Locks, OtherWrite
  <1>4. \A d \in Clients : TxnOK(d)'
    <2> TAKE d \in Clients
    <2>1. Idles(d)
      BY DEF OtherWrite, Idles
    <2>2. \A w \in Uuids : Locks(d, w) => table'[w] = table[w]
      BY DEF OtherWrite, TxnInv, TypeOK
    <2> QED
      BY <2>1, <2>2, TxnFrame DEF Idles
  <1> QED
    BY <1>2, <1>3, <1>4 DEF TxnInv

LEMMA InitTxnInv == Init => TxnInv
  <1> SUFFICES ASSUME Init
               PROVE  TxnInv
    OBVIOUS
  <1>1. <<>> \in Seq(Uuids) /\ <<>> \in Seq(Uuids \cup {0})
    OBVIOUS
  <1>2. TypeOK
    BY <1>1 DEF Init, TypeOK, States, Statuses, NoReply, Nothing, Items
  <1>3. \A c \in Clients : \A u \in Uuids : ~Locks(c, u)
    BY DEF Init, Locks, Nothing
  <1> QED
    BY <1>2, <1>3 DEF Init, TxnInv, LocksExclusive, TxnOK

LEMMA NextKeepsTxnInv == TxnInv /\ [Next]_vars => TxnInv'
  <1> SUFFICES ASSUME TxnInv, [Next]_vars
               PROVE  TxnInv'
    OBVIOUS
  <1>1. ASSUME NEW c \in Clients, Step(c)
        PROVE  TxnInv'
    <2>1. ASSUME Deadlocked(c), Rollback(c, "deadlock")
          PROVE  TxnInv'
      BY <2>1, RollbackKeeps DEF Statuses
    <2> QED
      BY <1>1, <2>1, VisitKeeps, UpdateRowKeeps, IndexRowKeeps, EndUpdateKeeps,
         ArbitrateKeeps, PlaceKeeps, CommitKeeps DEF Step, BreakDeadlock
  <1>2. ASSUME NEW c \in Clients, Cancel(c)
        PROVE  TxnInv'
    BY <1>2, RollbackKeeps DEF Cancel, Statuses
  <1>3. ASSUME NEW c \in Clients, NEW b \in Batches, Begin(c, b)
        PROVE  TxnInv'
    BY <1>3, BeginKeeps
  <1>4. ASSUME NEW u \in Uuids, NEW x \in Contents \cup {NoValue}, OtherWrite(u, x)
        PROVE  TxnInv'
    BY <1>4, OtherWriteKeeps
  <1>5. CASE UNCHANGED vars
    <2>1. TypeOK' /\ LocksExclusive'
      BY <1>5 DEF vars, TxnInv, TypeOK, LocksExclusive, Locks, Items
    <2>2. \A d \in Clients : TxnOK(d)'
      <3> TAKE d \in Clients
      <3> QED
        BY <1>5, TxnFrame DEF vars
    <2> QED
      BY <2>1, <2>2 DEF TxnInv
  <1> QED
    BY <1>1, <1>2, <1>3, <1>4, <1>5 DEF Next

\* Every transaction stays within its types, and the table within its own,
\* whatever the clients send and however their statements interleave.
THEOREM TypeCorrect == Spec => []TypeOK
  <1>1. TxnInv => TypeOK
    BY DEF TxnInv
  <1> QED
    BY InitTxnInv, NextKeepsTxnInv, <1>1, PTL DEF Spec
-----------------------------------------------------------------------------
(* The steps, seen as steps of AtomicPut.                                   *)

LEMMA CommitApplies ==
    ASSUME TxnInv, NEW c \in Clients, Commit(c)
    PROVE  Atomic!Apply(c)
  <1> DEFINE items == Items(c)
             out == [p \in DOMAIN items |-> RowOf(c, p)]
  <1>1. /\ req[c] # NoValue /\ req[c] \in Batches /\ pc[c] = "insert" /\ todo[c] = {}
        /\ table' = View(c) /\ End(c, "ok", out)
    BY DEF TxnInv, TypeOK, Commit
  <1>2. \A p \in DOMAIN items : out[p] \in Uuids
    BY <1>1, AnswerFacts
  <1>3. Atomic!Lands(req[c], out, table)
    <2>1. ASSUME NEW p \in DOMAIN items
          PROVE  /\ items[p].id # NoValue => out[p] = items[p].id /\ items[p].id \in Rows(table)
                 /\ items[p].id = NoValue =>
                       \/ table[out[p]] = NoValue
                       \/ req[c].op = "put" /\ table[out[p]] = items[p].content
                       \/ \E q \in DOMAIN items : items[q].id = out[p]
                 /\ mine[c][out[p]] = items[p].content
      <3>1. PICK q \in DOMAIN items :
               /\ out[p] = written[c][q] /\ items[q].content = items[p].content /\ Settled(c, q)
               /\ items[p].id # NoValue => q = p
               /\ items[p].id = NoValue => items[q].id = NoValue
        BY <1>1, AnswerFacts
      <3> HIDE DEF out
      <3> QED
        BY <3>1 DEF Settled
    <2> HIDE DEF out
    <2> QED
      BY <2>1 DEF Atomic!Lands, Atomic!Rows, Rows, Items
  <1>4. Atomic!Write(req[c], out, table) = View(c)
    <2>1. \A p \in DOMAIN items : mine[c][out[p]] = items[p].content /\ items[p].content # Untouched
      <3> TAKE p \in DOMAIN items
      <3>1. PICK q \in DOMAIN items :
               out[p] = written[c][q] /\ items[q].content = items[p].content /\ Settled(c, q)
        BY <1>1, AnswerFacts
      <3> HIDE DEF out
      <3> QED
        BY <1>1, <3>1, BatchFacts DEF Settled, Items
    <2>2. ASSUME NEW u \in Uuids, Locks(c, u)
          PROVE  \E p \in DOMAIN items : out[p] = u
      <3>1. PICK p \in DOMAIN items : written[c][p] = u
        BY <1>1, <2>2 DEF TxnInv, TxnOK, Claimed
      <3>2. Settled(c, p)
        BY <1>1, <2>2, <3>1, ZeroIsNoUuid DEF TxnInv, TxnOK
      <3>3. CASE items[p].id # NoValue
        BY <3>1, <3>3 DEF RowOf
      <3>4. CASE items[p].id = NoValue
        <4>1. p \in Firsts(items)
          BY <3>2, <3>4 DEF Settled
        <4> DEFINE q == CHOOSE r \in Firsts(items) : items[r].content = items[p].content
        <4>2. q \in Firsts(items) /\ items[q].content = items[p].content
          BY <4>1
        <4>3. q = p
          <5> HIDE DEF q
          <5> QED
            BY <1>1, <4>1, <4>2, FirstsDiffer DEF Items
        <4>4. RowOf(c, p) = written[c][q]
          BY <3>4 DEF RowOf
        <4> QED
          BY <3>1, <4>3, <4>4
      <3> QED
        BY <3>3, <3>4
    <2> HIDE DEF out
    <2>3. ASSUME NEW u \in Uuids
          PROVE  View(c)[u] = IF \E p \in DOMAIN items : out[p] = u
                                THEN items[CHOOSE p \in DOMAIN items : out[p] = u].content
                                ELSE table[u]
      <3>1. CASE \E p \in DOMAIN items : out[p] = u
        <4> DEFINE r == CHOOSE p \in DOMAIN items : out[p] = u
        <4>1. r \in DOMAIN items /\ out[r] = u
          BY <3>1
        <4> HIDE DEF r
        <4>2. mine[c][u] = items[r].content /\ Locks(c, u)
          BY <2>1, <4>1 DEF Locks
        <4>3. View(c)[u] = items[r].content
          BY <4>2 DEF View
        <4> QED
          BY <3>1, <4>3 DEF r
      <3>2. CASE ~\E p \in DOMAIN items : out[p] = u
        BY <2>2, <3>2 DEF View
      <3> QED
        BY <3>1, <3>2
    <2>4. Atomic!Write(req[c], out, table) =
            [u \in Uuids |->
                IF \E p \in DOMAIN items : out[p] = u
                  THEN items[CHOOSE p \in DOMAIN items : out[p] = u].content
                  ELSE table[u]]
      BY DEF Atomic!Write, Items
    <2> QED
      BY <2>3, <2>4 DEF View
  <1>5. out \in [DOMAIN req[c].items -> Uuids]
    BY <1>2 DEF Items
  <1> HIDE DEF out
  <1> QED
    BY <1>1, <1>3, <1>4, <1>5 DEF Atomic!Apply, End

LEMMA StepsMap == TxnInv /\ [Next]_vars => [Atomic!Next]_(Atomic!vars)
  <1> SUFFICES ASSUME TxnInv, [Next]_vars
               PROVE  [Atomic!Next]_(Atomic!vars)
    OBVIOUS
  <1> USE DEF Atomic!vars
  <1>1. ASSUME NEW c \in Clients, NEW s \in Statuses \ {"none", "ok"}, Rollback(c, s), pc[c] # "idle"
        PROVE  Atomic!Next
    <2>1. req[c] # NoValue
      BY <1>1 DEF TxnInv, TypeOK
    <2>2. Atomic!Refuse(c)
      BY <1>1, <2>1 DEF Atomic!Refuse, Atomic!Statuses, Statuses, Rollback, End
    <2> QED
      BY <2>2 DEF Atomic!Next
  <1>2. ASSUME NEW c \in Clients, Step(c)
        PROVE  [Atomic!Next]_(Atomic!vars)
    <2>1. ASSUME NEW p \in todo[c], Visit(c, p)
          PROVE  UNCHANGED Atomic!vars
      BY <2>1 DEF Visit
    <2>2. CASE UpdateRow(c)
      BY <2>2 DEF UpdateRow
    <2>3. CASE IndexRow(c)
      BY <1>1, <2>3 DEF IndexRow, Working, Statuses
    <2>4. CASE EndUpdate(c)
      BY <1>1, <2>4 DEF EndUpdate, Statuses
    <2>5. CASE Arbitrate(c)
      BY <2>5 DEF Arbitrate
    <2>6. CASE Place(c)
      BY <1>1, <2>6 DEF Place, Working, Statuses
    <2>7. CASE Commit(c)
      BY <2>7, CommitApplies DEF Atomic!Next
    <2>8. CASE BreakDeadlock(c)
      <3>1. pc[c] # "idle"
        <4>1. at[c] # 0
          <5>1. Blockers(c) # {}
            BY <2>8 DEF BreakDeadlock, Deadlocked
          <5> QED
            BY <5>1 DEF Blockers
        <4> QED
          BY <4>1 DEF TxnInv, TypeOK
      <3> QED
        BY <1>1, <2>8, <3>1 DEF BreakDeadlock, Statuses
    <2> QED
      BY <1>2, <2>1, <2>2, <2>3, <2>4, <2>5, <2>6, <2>7, <2>8 DEF Step
  <1>3. ASSUME NEW c \in Clients, Cancel(c)
        PROVE  [Atomic!Next]_(Atomic!vars)
    BY <1>1, <1>3 DEF Cancel, Statuses
  <1>4. ASSUME NEW c \in Clients, NEW b \in Batches, Begin(c, b)
        PROVE  [Atomic!Next]_(Atomic!vars)
    <2>1. Atomic!Send(c, b)
      BY <1>4 DEF Begin, Atomic!Send, Atomic!NoReply, NoReply, TxnInv, TypeOK
    <2> QED
      BY <2>1 DEF Atomic!Next
  <1>5. ASSUME NEW u \in Uuids, NEW x \in Contents \cup {NoValue}, OtherWrite(u, x)
        PROVE  [Atomic!Next]_(Atomic!vars)
    <2>1. Atomic!Replace(u, x)
      BY <1>5 DEF OtherWrite, Atomic!Replace, Atomic!Rows, Rows
    <2> QED
      BY <2>1 DEF Atomic!Next
  <1>6. CASE UNCHANGED vars
    BY <1>6 DEF vars
  <1> QED
    BY <1>2, <1>3, <1>4, <1>5, <1>6 DEF Next

\* Row-by-row writing under locks, beside other bulk writes, single writes and
\* deletes, with deadlocks broken and statements cancelled anywhere, is
\* indistinguishable from AtomicPut: each bulk write takes effect in one instant
\* or not at all, and answers with the rows it wrote.
THEOREM BulkWritesAreAtomic == Spec => WritesAreAtomic
  <1>1. Init => Atomic!Init
    BY DEF Init, Atomic!Init, Atomic!NoReply, NoReply
  <1> QED
    BY <1>1, InitTxnInv, NextKeepsTxnInv, StepsMap, PTL DEF Spec, WritesAreAtomic, Atomic!Spec
=============================================================================
