------------------------------ MODULE AtomicPut ------------------------------
(***************************************************************************)
(* What a bulk write promises its caller: it is written in full or not at  *)
(* all, in one instant, whatever the other writers of the collection do.   *)
(* "Both halves run in one transaction, so the batch is written in full or *)
(* not at all" (WriteMixin.upsert_embeddings_bulk).                        *)
(*                                                                         *)
(* One collection and one authz path; content stands for a vector and its  *)
(* metadata.  UpsertTxn shows how statements and locks keep the promise.   *)
(***************************************************************************)

CONSTANTS
    Clients,    \* callers with a bulk write in flight
    Uuids,      \* embedding ids
    Contents,   \* a stored vector with its metadata
    Batches,    \* the bulk writes clients send: UpsertTxn states what they are
    NoValue     \* None; in the table: no such row

VARIABLES
    table,   \* the committed rows: id to content
    req,     \* the bulk write each client has in flight
    reply    \* its answer: a status and, per item, the id it was written under

vars == <<table, req, reply>>

Statuses == {"none", "ok", "missing", "duplicate", "violation", "deadlock", "timeout"}
Rows(t) == {u \in Uuids : t[u] # NoValue}
NoReply == [status |-> "none", out |-> <<>>]

\* out names the row of every item: its own if the item names one, and
\* otherwise one that had its content already or one that did not exist.
Lands(b, out, t) ==
    \A p \in DOMAIN b.items :
        LET i == b.items[p] IN
        /\ i.id # NoValue => out[p] = i.id /\ i.id \in Rows(t)
        /\ i.id = NoValue =>
              \/ t[out[p]] = NoValue
              \/ b.op = "put" /\ t[out[p]] = i.content
              \/ \E q \in DOMAIN b.items : b.items[q].id = out[p]
        /\ \A q \in DOMAIN b.items : out[p] = out[q] => i.content = b.items[q].content

\* The table with every item written to its row, and no other row touched.
Write(b, out, t) ==
    [u \in Uuids |->
        IF \E p \in DOMAIN b.items : out[p] = u
          THEN b.items[CHOOSE p \in DOMAIN b.items : out[p] = u].content
          ELSE t[u]]

Send(c, b) ==
    /\ req[c] = NoValue
    /\ req' = [req EXCEPT ![c] = b]
    /\ reply' = [reply EXCEPT ![c] = NoReply]
    /\ UNCHANGED table

Apply(c) ==
    /\ req[c] # NoValue
    /\ req' = [req EXCEPT ![c] = NoValue]
    /\ \E out \in [DOMAIN req[c].items -> Uuids] :
          /\ Lands(req[c], out, table)
          /\ table' = Write(req[c], out, table)
          /\ reply' = [reply EXCEPT ![c] = [status |-> "ok", out |-> out]]

Refuse(c) ==
    /\ req[c] # NoValue
    /\ req' = [req EXCEPT ![c] = NoValue]
    /\ \E s \in Statuses \ {"none", "ok"} :
          reply' = [reply EXCEPT ![c] = [status |-> s, out |-> <<>>]]
    /\ UNCHANGED table

\* A single PUT or a DELETE of somebody else.
Replace(u, x) ==
    /\ u \in Rows(table)
    /\ table' = [table EXCEPT ![u] = x]
    /\ UNCHANGED <<req, reply>>

Init ==
    /\ table \in [Uuids -> Contents \cup {NoValue}]
    /\ req = [c \in Clients |-> NoValue]
    /\ reply = [c \in Clients |-> NoReply]

Next ==
    \/ \E c \in Clients : Apply(c) \/ Refuse(c) \/ \E b \in Batches : Send(c, b)
    \/ \E u \in Uuids, x \in Contents \cup {NoValue} : Replace(u, x)

Spec == Init /\ [][Next]_vars
=============================================================================
