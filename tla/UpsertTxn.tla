------------------------------ MODULE UpsertTxn ------------------------------
(***************************************************************************)
(* The inside of the transactions that VectorStore takes in one step: bulk *)
(* PUTs and POSTs of several clients on one collection, row by row, under  *)
(* READ COMMITTED.  A statement locks the rows it writes until its         *)
(* transaction ends, waits for rows and for index entries another          *)
(* transaction has not committed, and goes on with what that one left.     *)
(*                                                                         *)
(* The tables carry two unique indexes over the same values: the v2 index, *)
(* which ON CONFLICT arbitrates on, and the legacy constraint.             *)
(***************************************************************************)
EXTENDS Integers, Sequences, Relation

CONSTANTS
    Clients,    \* callers with a bulk write in flight
    MaxRows,    \* bound: embedding ids in use at once
    Contents,   \* a stored vector with its metadata
    Batches,    \* the bulk writes clients send
    Untouched,  \* a transaction has no version of its own of a row
    NoValue     \* None; in the table: no such row

Uuids == 1..MaxRows
Item == [id : Uuids \cup {NoValue}, content : Contents]
Batch == [op : {"post", "put"}, items : Seq(Item)]

\* RepeatedEmbeddingIdError refuses a batch that names an id twice, and the
\* items of a POST have no ids.
ASSUME BatchAssumption ==
    /\ Batches \subseteq Batch
    /\ MaxRows \in Nat
    /\ NoValue \notin Uuids /\ NoValue \notin Contents /\ NoValue \notin Batches
    /\ Untouched \notin Contents
    /\ \A b \in Batches :
          /\ b.op = "post" => \A p \in DOMAIN b.items : b.items[p].id = NoValue
          /\ \A p, q \in DOMAIN b.items :
                b.items[p].id = b.items[q].id => p = q \/ b.items[p].id = NoValue

VARIABLES
    table,    \* the committed rows: id to content, NoValue where there is none
    req,      \* the bulk write each client has in flight
    pc,       \* where its transaction is
    at,       \* the item its statement is working on, 0 between items
    todo,     \* items the statement has not finished
    mine,     \* its uncommitted row versions; their rows are locked
    written,  \* `written`: per finished item, the id of its row (0: none yet)
    reply     \* status and, per item, the id of the embedding answered

vars == <<table, req, pc, at, todo, mine, written, reply>>

Rows(t) == {u \in Uuids : t[u] # NoValue}
Nothing == [u \in Uuids |-> Untouched]
NoReply == [status |-> "none", out |-> <<>>]
Items(c) == req[c].items
ById(items) == {p \in DOMAIN items : items[p].id # NoValue}

\* _dedupe_rows: of the items without an id, the first of each content.
Firsts(items) ==
    {p \in DOMAIN items \ ById(items) :
        \A q \in DOMAIN items \ ById(items) :
            items[q].content = items[p].content => p <= q}

\* Any table without twins over the ids that clients know.
Init ==
    /\ table \in {t \in [Uuids -> Contents \cup {NoValue}] :
                     /\ \A u, w \in Rows(t) : t[u] = t[w] => u = w
                     /\ \A u \in Rows(t) : \E b \in Batches : \E p \in DOMAIN b.items : b.items[p].id = u}
    /\ req = [c \in Clients |-> NoValue]
    /\ pc = [c \in Clients |-> "idle"]
    /\ at = [c \in Clients |-> 0]
    /\ todo = [c \in Clients |-> {}]
    /\ mine = [c \in Clients |-> Nothing]
    /\ written = [c \in Clients |-> <<>>]
    /\ reply = [c \in Clients |-> NoReply]

-----------------------------------------------------------------------------
(* What a transaction sees and what it waits for.                           *)

Locks(c, u) == mine[c][u] # Untouched

\* The rows as c's own transaction sees them.
View(c) == [u \in Uuids |-> IF Locks(c, u) THEN mine[c][u] ELSE table[u]]

\* The row c has written but not yet entered into the indexes.
Unindexed(c) == IF pc[c] = "index" THEN Items(c)[at[c]].id ELSE NoValue

\* s has an undecided index entry for x: one it added, or one it took away.
Undecided(s, x) ==
    \E u \in Uuids : Locks(s, u) /\ (table[u] = x \/ (mine[s][u] = x /\ u # Unindexed(s)))

\* The transactions whose end c waits for.
Blockers(c) ==
    IF at[c] = 0 THEN {}
    ELSE LET i == Items(c)[at[c]] IN
         {s \in Clients \ {c} :
             IF pc[c] = "update" THEN Locks(s, i.id) ELSE Undecided(s, i.content)}

\* Seeded fault: nobody looks for cycles.
NeverDetected(c) == FALSE

\* A cycle of waits through c: what Postgres looks for after deadlock_timeout.
WaitsFor == TransitiveClosure([s, t \in Clients |-> t \in Blockers(s)], Clients)
InCycle(c) == WaitsFor[c, c]
Deadlocked(c) == Blockers(c) # {} /\ InCycle(c)

\* The transaction ends, and with it its locks; the handler answers.
End(c, status, out) ==
    /\ req' = [req EXCEPT ![c] = NoValue]
    /\ pc' = [pc EXCEPT ![c] = "idle"]
    /\ at' = [at EXCEPT ![c] = 0]
    /\ todo' = [todo EXCEPT ![c] = {}]
    /\ mine' = [mine EXCEPT ![c] = Nothing]
    /\ written' = [written EXCEPT ![c] = <<>>]
    /\ reply' = [reply EXCEPT ![c] = [status |-> status, out |-> out]]

Rollback(c, status) == End(c, status, <<>>) /\ UNCHANGED table

\* gen_random_uuid: an id no row has, and no request in flight names.  (An id
\* is never handed out twice; here it may be, once nothing tells of it.)
Fresh ==
    {u \in Uuids :
        /\ table[u] = NoValue
        /\ \A s \in Clients :
              /\ ~Locks(s, u)
              /\ pc[s] # "idle" => \A p \in DOMAIN Items(s) : Items(s)[p].id # u}

\* Item p of the statement is finished: its row is u (0: it found none).
Done(c, p, u) ==
    /\ todo' = [todo EXCEPT ![c] = @ \ {p}]
    /\ at' = [at EXCEPT ![c] = 0]
    /\ written' = [written EXCEPT ![c][p] = u]

-----------------------------------------------------------------------------
(* The steps of a transaction.                                              *)

\* The statement on the items with ids, if there are any: its snapshot decides
\* which rows it visits.  A POST has only the INSERT.
Begin(c, b) ==
    LET byId == ById(b.items) IN
    /\ pc[c] = "idle"
    /\ req' = [req EXCEPT ![c] = b]
    /\ pc' = [pc EXCEPT ![c] = IF byId = {} THEN "insert" ELSE "update"]
    /\ todo' = [todo EXCEPT ![c] =
                  IF byId = {} THEN Firsts(b.items)
                  ELSE {p \in byId : b.items[p].id \in Rows(table)}]
    /\ written' = [written EXCEPT ![c] = [p \in DOMAIN b.items |-> 0]]
    /\ reply' = [reply EXCEPT ![c] = NoReply]
    /\ UNCHANGED <<table, at, mine>>

\* The plan visits the rows of a statement in an order of its own.
Visit(c, p) ==
    /\ at[c] = 0
    /\ p \in todo[c]
    /\ at' = [at EXCEPT ![c] = p]
    /\ pc' = [pc EXCEPT ![c] = IF @ = "insert" /\ req[c].op = "post" THEN "place" ELSE @]
    /\ UNCHANGED <<table, req, todo, mine, written, reply>>

Working(c, state) == pc[c] = state /\ at[c] # 0 /\ Blockers(c) = {}

\* The UPDATE locks a row and writes its new version.  A row that was deleted
\* while the statement waited for it is passed over.
UpdateRow(c) ==
    LET p == at[c]
        i == Items(c)[p]
    IN
    /\ Working(c, "update")
    /\ IF table[i.id] = NoValue
         THEN Done(c, p, 0) /\ UNCHANGED <<pc, mine>>
         ELSE /\ mine' = [mine EXCEPT ![c][i.id] = i.content]
              /\ pc' = [pc EXCEPT ![c] = "index"]
              /\ UNCHANGED <<at, todo, written>>
    /\ UNCHANGED <<table, req, reply>>

\* The new version enters the unique indexes, or collides in them.
IndexRow(c) ==
    LET p == at[c]
        i == Items(c)[p]
    IN
    /\ Working(c, "index")
    /\ IF \E u \in Rows(View(c)) : u # i.id /\ View(c)[u] = i.content
         THEN Rollback(c, "duplicate")
         ELSE /\ Done(c, p, i.id)
              /\ pc' = [pc EXCEPT ![c] = "update"]
              /\ UNCHANGED <<table, req, mine, reply>>

\* Seeded fault: an id that was not found is not an error.
NoneMissing(c) == {}

\* `missing`: the items whose id the UPDATE did not return.
Missing(c) == {p \in ById(Items(c)) : written[c][p] = 0}

\* After the UPDATE: EmbeddingNotFoundError, or on to the INSERT of the others.
EndUpdate(c) ==
    /\ pc[c] = "update" /\ at[c] = 0 /\ todo[c] = {}
    /\ IF Missing(c) # {}
         THEN Rollback(c, "missing")
         ELSE /\ pc' = [pc EXCEPT ![c] = "insert"]
              /\ todo' = [todo EXCEPT ![c] = Firsts(Items(c))]
              /\ UNCHANGED <<table, req, at, mine, written, reply>>

\* ON CONFLICT ... DO UPDATE SET updated_at: the row that holds the content is
\* locked and keeps it; where there is none, a row is about to be inserted.
Arbitrate(c) ==
    LET p == at[c]
        x == Items(c)[p].content
        same == {u \in Uuids : View(c)[u] = x}
    IN
    /\ Working(c, "insert")
    /\ IF same = {}
         THEN pc' = [pc EXCEPT ![c] = "place"] /\ UNCHANGED <<at, todo, mine, written>>
         ELSE \E u \in same :
                 /\ mine' = [mine EXCEPT ![c][u] = x]
                 /\ Done(c, p, u)
                 /\ UNCHANGED pc
    /\ UNCHANGED <<table, req, reply>>

\* The new row enters the indexes, the legacy constraint first.  ON CONFLICT
\* does not speak for that constraint: a row that came there since Arbitrate,
\* or that a POST meets, is a UniqueViolationError.
Place(c) ==
    LET p == at[c]
        x == Items(c)[p].content
    IN
    /\ Working(c, "place")
    /\ IF \E u \in Uuids : View(c)[u] = x
         THEN Rollback(c, IF req[c].op = "post" THEN "duplicate" ELSE "violation")
         ELSE \E u \in Fresh :
              /\ \A w \in Fresh : u <= w
              /\ mine' = [mine EXCEPT ![c][u] = x]
              /\ Done(c, p, u)
              /\ pc' = [pc EXCEPT ![c] = "insert"]
              /\ UNCHANGED <<table, req, reply>>

\* Seeded fault: an item that was deduplicated away answers with row 0.
RowOfItemOnly(c, p) == written[c][p]

\* _bulk_write_results: the row of an item, shared by items of one content.
RowOf(c, p) ==
    LET items == Items(c) IN
    IF items[p].id # NoValue THEN written[c][p]
    ELSE written[c][CHOOSE q \in Firsts(items) : items[q].content = items[p].content]

Commit(c) ==
    /\ pc[c] = "insert" /\ at[c] = 0 /\ todo[c] = {}
    /\ table' = View(c)
    /\ End(c, "ok", [p \in DOMAIN Items(c) |-> RowOf(c, p)])

\* Postgres aborts a transaction of the cycle, of its choice.
BreakDeadlock(c) == Deadlocked(c) /\ Rollback(c, "deadlock")

\* statement_timeout, or a lost connection.
Cancel(c) == pc[c] # "idle" /\ Rollback(c, "timeout")

\* update_embedding and delete_embedding of somebody else: one statement on one
\* row, in a transaction of its own.  They wait as the others do.
OtherWrite(u, x) ==
    /\ u \in Rows(table)
    /\ \A s \in Clients : ~Locks(s, u)
    /\ x # NoValue =>
          /\ \A s \in Clients : ~Undecided(s, x)
          /\ \A w \in Rows(table) : table[w] = x => w = u
    /\ table' = [table EXCEPT ![u] = x]
    /\ UNCHANGED <<req, pc, at, todo, mine, written, reply>>

Step(c) ==
    \/ \E p \in todo[c] : Visit(c, p)
    \/ UpdateRow(c)
    \/ IndexRow(c)
    \/ EndUpdate(c)
    \/ Arbitrate(c)
    \/ Place(c)
    \/ Commit(c)
    \/ BreakDeadlock(c)

Next ==
    \/ \E c \in Clients : Step(c) \/ Cancel(c) \/ \E b \in Batches : Begin(c, b)
    \/ \E u \in Uuids, x \in Contents \cup {NoValue} : OtherWrite(u, x)

Spec == Init /\ [][Next]_vars

\* Postgres runs every statement that waits for nothing, queues those that wait
\* for a transaction to end, and looks for deadlocks: a step that is possible
\* again and again is taken.  Nobody has to send, to write or to cancel.
FairSpec == Spec /\ \A c \in Clients : SF_vars(Step(c))

-----------------------------------------------------------------------------
States == {"idle", "update", "index", "insert", "place"}
Statuses == {"none", "ok", "missing", "duplicate", "violation", "deadlock", "timeout"}

TypeOK ==
    /\ table \in [Uuids -> Contents \cup {NoValue}]
    /\ req \in [Clients -> Batches \cup {NoValue}]
    /\ pc \in [Clients -> States]
    /\ at \in [Clients -> Nat]
    /\ todo \in [Clients -> SUBSET Nat]
    /\ mine \in [Clients -> [Uuids -> Contents \cup {Untouched}]]
    /\ written \in [Clients -> Seq(Uuids \cup {0})]
    /\ reply \in [Clients -> [status : Statuses, out : Seq(Uuids)]]
    /\ \A c \in Clients :
          /\ pc[c] = "idle" <=> req[c] = NoValue
          /\ req[c] = NoValue => at[c] = 0 /\ todo[c] = {}
          /\ req[c] # NoValue =>
                /\ todo[c] \subseteq DOMAIN Items(c)
                /\ at[c] \in todo[c] \cup {0}
                /\ DOMAIN written[c] = DOMAIN Items(c)
          /\ pc[c] \in {"index", "place"} => at[c] # 0

\* Every bulk write, seen from outside, is one atomic step or leaves no trace:
\* the UPDATE and the INSERT of upsert_embeddings_bulk, row by row beside
\* other transactions, implement AtomicPut.  The mapping is what has been committed
\* and what the caller sees: uncommitted versions, locks and orders are hidden.
Atomic == INSTANCE AtomicPut WITH table <- table, req <- req, reply <- reply
WritesAreAtomic == Atomic!Spec

\* Every bulk write ends: two that lock the same rows or contents in different
\* orders do not wait on each other for ever.
WritesEnd == \A c \in Clients : pc[c] # "idle" ~> pc[c] = "idle"

-----------------------------------------------------------------------------
(* What the documents say and the code does not do; README, "Deviations".   *)

\* database/dal/writes.py:420 of ON CONFLICT on the v2 index: "anything that
\* would collide there collides here too and is handled".  So no bulk PUT ends
\* in a unique violation of the legacy constraint.
LegacyCollisionsHandled == \A c \in Clients : reply[c].status # "violation"
=============================================================================
