----------------------------- MODULE HashRollout -----------------------------
(***************************************************************************)
(* The move from md5 to sha256 content hashes in gen3_embeddings: pods of  *)
(* the previous and of the new release write the same embedding tables     *)
(* while db/backfill_sha256_content_hashes.py fills the new columns.       *)
(*                                                                         *)
(* A row carries two generations of hashes.  eh and mh are the legacy      *)
(* columns embedding_hash and metadata_hash, eh2 and mh2 the v2 columns,   *)
(* NULL until somebody writes them.  Each pair has a unique index; NULLs   *)
(* are distinct to it.  The old release hashes the texts the caller sent   *)
(* with md5.  The new one hashes with sha256, into both generations, the   *)
(* vector as the column stores it and the metadata as the caller's text:   *)
(* what jsonb gives back for that text may be another one (1e+16 comes     *)
(* back as 10000000000000000, -0.0 as 0.0), and that is all a script that  *)
(* reads the table afterwards can hash.                                    *)
(*                                                                         *)
(* A request of a pod is one transaction and one step here (VectorStore    *)
(* has the steps around it) and carries one item.  The backfill is a       *)
(* script: it reads a batch, computes hashes, and writes in a later        *)
(* transaction; it may be stopped between any two of them and run again.   *)
(***************************************************************************)
EXTENDS Integers, FiniteSets

CONSTANTS
    NTables,    \* TABLES: 1 is embeddings_vector, 2 is embeddings_halfvec
    Texts,      \* vectors as callers write them
    Rounded,    \* per table, the vector its column stores for a text
    Metas,      \* canonical JSON texts of metadata
    Jsonb,      \* the text in which a jsonb column gives such a text back
    Authzs,     \* authz paths
    MaxRows,    \* bound: embedding ids
    BatchSize,  \* BATCH_SIZE
    MaxRuns,    \* bound: how often the backfill is started
    Writes,     \* the kinds of request that occur
    NoValue     \* NULL / None

Tables == 1..NTables
Ids == 1..MaxRows

ASSUME SizeAssumption ==
    NTables \in Nat \ {0} /\ MaxRows \in Nat /\ BatchSize \in Nat \ {0} /\ MaxRuns \in Nat
ASSUME TextAssumption ==
    /\ Rounded \in [Tables -> [Texts -> Texts]]
    /\ \A t \in Tables, v \in Texts : Rounded[t][Rounded[t][v]] = Rounded[t][v]
\* What jsonb gives back it gives back again.
ASSUME JsonbAssumption ==
    /\ Jsonb \in [Metas -> Metas]
    /\ \A m \in Metas : Jsonb[Jsonb[m]] = Jsonb[m]
ASSUME NullAssumption == NoValue \notin Texts \cup Metas \cup Authzs

Md5(x) == <<"md5", x>>
Sha(x) == <<"sha", x>>
ASSUME HashAssumption == \A x \in Texts \cup Metas : NoValue \notin {Md5(x), Sha(x)}

VectorHash == {"md5", "sha"} \X Texts
MetaHash == {"md5", "sha"} \X Metas

Row == [id : Ids, table : Tables, authz : Authzs, vec : Texts, meta : Metas,
        eh : VectorHash, mh : MetaHash,
        eh2 : VectorHash \cup {NoValue}, mh2 : MetaHash \cup {NoValue}]

\* What the backfill computed for a row it read.
Computed == [id : Ids, eh : VectorHash, mh : MetaHash]

VARIABLES
    rows,        \* both embedding tables
    issued,      \* ids gen_random_uuid has handed out, never to do so again
    release,     \* which pods run: "old", "mixed" while deploying, "new"
    status,      \* the last answer of a pod: 0 before the first
    runs,        \* how often the backfill was started
    pc,          \* where the backfill is; "off" when it is not running
    tab,         \* the table backfill_table is at
    cursor,      \* its keyset cursor, 0 for None
    batch,       \* computed but not yet written
    collisions   \* ids the run reports as colliding

bf == <<runs, pc, tab, cursor, batch, collisions>>
vars == <<rows, issued, release, status, runs, pc, tab, cursor, batch, collisions>>

Init ==
    /\ rows = {}
    /\ issued = {}
    /\ release = "old"
    /\ status = 0
    /\ runs = 0
    /\ pc = "off"
    /\ tab = 1
    /\ cursor = 0
    /\ batch = {}
    /\ collisions = {}

-----------------------------------------------------------------------------
(* The two unique indexes.                                                  *)

Indexed(w) == w.eh2 # NoValue /\ w.mh2 # NoValue

SameLegacy(w, x) ==
    <<w.table, w.authz, w.eh, w.mh>> = <<x.table, x.authz, x.eh, x.mh>>

\* Seeded fault: the v2 index leaves metadata_hash_v2 out.
SameV2NoMeta(w, x) ==
    /\ Indexed(w) /\ Indexed(x)
    /\ <<w.table, w.authz, w.eh2>> = <<x.table, x.authz, x.eh2>>

SameV2(w, x) ==
    /\ Indexed(w) /\ Indexed(x)
    /\ <<w.table, w.authz, w.eh2, w.mh2>> = <<x.table, x.authz, x.eh2, x.mh2>>

SameContent(w, x) ==
    <<w.table, w.authz, w.vec, w.meta>> = <<x.table, x.authz, x.vec, x.meta>>

Others(w) == {x \in rows : x.id # w.id}
CollidesLegacy(w) == \E x \in Others(w) : SameLegacy(w, x)
CollidesV2(w) == \E x \in Others(w) : SameV2(w, x)

\* The answer of a request that leaves the tables as `table`.
Reply(s, table) ==
    /\ status' = s
    /\ rows' = table
    /\ issued' = issued \cup {w.id : w \in table}

-----------------------------------------------------------------------------
(* Deployment.                                                              *)

Deploy ==
    /\ \/ release = "old" /\ release' = "mixed"
       \/ release = "mixed" /\ release' = "new"
    /\ UNCHANGED <<rows, issued, status, bf>>

OldPods == release \in {"old", "mixed"}
NewPods == release \in {"mixed", "new"}

(* Pods of the previous release: legacy columns only.                       *)

\* POST: the conflict is on the legacy constraint.
OldPost(i, t, a, v, m) ==
    LET w == [id |-> i, table |-> t, authz |-> a, vec |-> Rounded[t][v], meta |-> Jsonb[m],
              eh |-> Md5(v), mh |-> Md5(m), eh2 |-> NoValue, mh2 |-> NoValue]
    IN
    /\ OldPods /\ "old_post" \in Writes
    /\ i \notin issued
    /\ IF CollidesLegacy(w) THEN Reply(409, rows) ELSE Reply(200, rows \cup {w})
    /\ UNCHANGED <<release, bf>>

\* PUT of one embedding: the fields supplied, and their legacy hashes.
OldUpdate(w, v, m) ==
    LET x == [w EXCEPT !.vec = IF v = NoValue THEN @ ELSE Rounded[w.table][v],
                       !.eh = IF v = NoValue THEN @ ELSE Md5(v),
                       !.meta = IF m = NoValue THEN @ ELSE Jsonb[m],
                       !.mh = IF m = NoValue THEN @ ELSE Md5(m)]
    IN
    /\ OldPods /\ "old_update" \in Writes
    /\ IF CollidesLegacy(x) \/ CollidesV2(x)
         THEN Reply(409, rows)
         ELSE Reply(200, (rows \ {w}) \cup {x})
    /\ UNCHANGED <<release, bf>>

(* Pods of the new release.                                                 *)

\* A row as _insert_bulk_batch writes it: the same hashes in both generations.
NewRow(i, t, a, v, m) ==
    LET s == Rounded[t][v] IN
    [id |-> i, table |-> t, authz |-> a, vec |-> s, meta |-> Jsonb[m],
     eh |-> Sha(s), mh |-> Sha(m), eh2 |-> Sha(s), mh2 |-> Sha(m)]

\* WriteMixin.create_embeddings_bulk: a violation of either index is a 409.
NewPost(i, t, a, v, m) ==
    LET w == NewRow(i, t, a, v, m) IN
    /\ NewPods /\ "new_post" \in Writes
    /\ i \notin issued
    /\ IF CollidesLegacy(w) \/ CollidesV2(w)
         THEN Reply(409, rows)
         ELSE Reply(200, rows \cup {w})
    /\ UNCHANGED <<release, bf>>

\* WriteMixin.upsert_embeddings_bulk, an item without an id: ON CONFLICT on the
\* v2 index takes the row that is there, the legacy constraint stays in force.
NewUpsert(i, t, a, v, m) ==
    LET w == NewRow(i, t, a, v, m) IN
    /\ NewPods /\ "new_upsert" \in Writes
    /\ i \notin issued
    /\ IF CollidesV2(w) THEN Reply(200, rows)
       ELSE IF CollidesLegacy(w) THEN Reply(500, rows)
       ELSE Reply(200, rows \cup {w})
    /\ UNCHANGED <<release, bf>>

\* WriteMixin.update_embedding: the hashes of the fields supplied, in both
\* generations.  With vector, metadata and authz supplied it is also what
\* upsert_embeddings_bulk does to an item with an id.
NewUpdate(w, v, m, a) ==
    LET s == Rounded[w.table][v]
        x == [w EXCEPT !.vec = IF v = NoValue THEN @ ELSE s,
                       !.eh = IF v = NoValue THEN @ ELSE Sha(s),
                       !.eh2 = IF v = NoValue THEN @ ELSE Sha(s),
                       !.meta = IF m = NoValue THEN @ ELSE Jsonb[m],
                       !.mh = IF m = NoValue THEN @ ELSE Sha(m),
                       !.mh2 = IF m = NoValue THEN @ ELSE Sha(m),
                       !.authz = IF a = NoValue THEN @ ELSE a]
    IN
    /\ NewPods /\ "new_update" \in Writes
    /\ IF CollidesLegacy(x) \/ CollidesV2(x)
         THEN Reply(409, rows)
         ELSE Reply(200, (rows \ {w}) \cup {x})
    /\ UNCHANGED <<release, bf>>

\* DELETE of one embedding, the same in both releases.
Delete(w) ==
    /\ "delete" \in Writes
    /\ Reply(204, rows \ {w})
    /\ UNCHANGED <<release, bf>>

Pods ==
    \/ \E i \in Ids, t \in Tables, a \in Authzs, v \in Texts, m \in Metas :
          OldPost(i, t, a, v, m) \/ NewPost(i, t, a, v, m) \/ NewUpsert(i, t, a, v, m)
    \/ \E w \in rows, v \in Texts \cup {NoValue}, m \in Metas \cup {NoValue} :
          \/ OldUpdate(w, v, m)
          \/ \E a \in Authzs \cup {NoValue} : NewUpdate(w, v, m, a)
    \/ \E w \in rows : Delete(w)

-----------------------------------------------------------------------------
(* The backfill.                                                            *)

\* "Run it after deploying the app code that writes the v2 columns."
StartBackfill ==
    /\ pc \in {"off", "done"}
    /\ release = "new"
    /\ runs < MaxRuns
    /\ runs' = runs + 1
    /\ pc' = "select"
    /\ tab' = 1
    /\ cursor' = 0
    /\ batch' = {}
    /\ collisions' = {}
    /\ UNCHANGED <<rows, issued, release, status>>

\* The script is stopped: what it held is gone, what it committed stays.
Interrupt ==
    /\ pc \in {"select", "update", "retry"}
    /\ pc' = "off"
    /\ tab' = 1
    /\ cursor' = 0
    /\ batch' = {}
    /\ collisions' = {}
    /\ UNCHANGED <<rows, issued, release, status, runs>>

\* Seeded fault: the scan never moves past the rows it has read.
PendingFromStart == {w \in rows : w.table = tab /\ w.eh2 = NoValue}

\* The rows the SELECT of the current table finds beyond the cursor.
Pending == {w \in rows : w.table = tab /\ w.eh2 = NoValue /\ w.id > cursor}

\* ORDER BY ... LIMIT BATCH_SIZE.
FirstPending ==
    {w \in Pending : Cardinality({x \in Pending : x.id < w.id}) < BatchSize}

\* Seeded fault: the script hashes vectors the way the previous release did.
RowHashesOfText(w) == [id |-> w.id, eh |-> Md5(w.vec), mh |-> Sha(w.meta)]

\* row_hashes: the vector as stored, and the metadata as jsonb gives it back.
RowHashes(w) == [id |-> w.id, eh |-> Sha(w.vec), mh |-> Sha(w.meta)]

\* Seeded fault: the loop over the tables does not end.
LastTableNever == FALSE

LastTable == tab = NTables

SelectBatch ==
    /\ pc = "select"
    /\ \/ /\ Pending # {}
          /\ batch' = {RowHashes(w) : w \in FirstPending}
          /\ \E w \in FirstPending :
                (\A x \in FirstPending : x.id <= w.id) /\ cursor' = w.id
          /\ pc' = "update"
          /\ UNCHANGED tab
       \/ /\ Pending = {} /\ ~LastTable
          /\ tab' = tab + 1
          /\ cursor' = 0
          /\ UNCHANGED <<pc, batch>>
       \/ /\ Pending = {} /\ LastTable
          /\ pc' = "done"
          /\ UNCHANGED <<tab, cursor, batch>>
    /\ UNCHANGED <<rows, issued, release, status, runs, collisions>>

\* Row w with the hashes the script computed for its id, if it is among bs.
Stamp(w, bs) ==
    IF \E b \in bs : b.id = w.id
      THEN LET b == CHOOSE b \in bs : b.id = w.id IN [w EXCEPT !.eh2 = b.eh, !.mh2 = b.mh]
      ELSE w

Stamped(bs) == {Stamp(w, bs) : w \in rows}

\* The orders in which the UPDATE may visit its rows; the v2 index is checked
\* as each row is written, against the rows as they are then.
VisitOrders(bs) ==
    {order \in [bs -> 1..Cardinality(bs)] : \A b, c \in bs : order[b] = order[c] => b = c}

UpdateCollides(bs, order) ==
    \E b \in bs, w \in rows, x \in rows :
        /\ w.id = b.id /\ x.id # b.id
        /\ SameV2(Stamp(w, bs), Stamp(x, {c \in bs : order[c] < order[b]}))

\* The UPDATE of a whole batch.
UpdateBatch ==
    /\ pc = "update"
    /\ \E order \in VisitOrders(batch) :
          IF UpdateCollides(batch, order)
            THEN pc' = "retry" /\ UNCHANGED <<rows, batch>>
            ELSE pc' = "select" /\ rows' = Stamped(batch) /\ batch' = {}
    /\ UNCHANGED <<issued, release, status, runs, tab, cursor, collisions>>

\* Seeded fault: a collision of the retry is not kept for the report.
WithCollisionLost(b) == collisions

\* The list the summary prints.
WithCollision(b) == collisions \cup {b.id}

\* After a UniqueViolationError, the same UPDATE for one row at a time.
RetryRow ==
    /\ pc = "retry"
    /\ \E b \in batch :
          /\ \A c \in batch : b.id <= c.id
          /\ batch' = batch \ {b}
          /\ IF \E w \in rows : w.id = b.id /\ CollidesV2(Stamp(w, {b}))
               THEN collisions' = WithCollision(b) /\ UNCHANGED rows
               ELSE rows' = Stamped({b}) /\ UNCHANGED collisions
    /\ pc' = IF batch' = {} THEN "select" ELSE "retry"
    /\ UNCHANGED <<issued, release, status, runs, tab, cursor>>

Backfill == SelectBatch \/ UpdateBatch \/ RetryRow

Next == Deploy \/ Pods \/ StartBackfill \/ Interrupt \/ Backfill

Spec == Init /\ [][Next]_vars

\* The script runs to its end unless it is interrupted.  Nobody owes a deploy,
\* a request or a re-run.
FairSpec == Spec /\ WF_vars(Backfill)

-----------------------------------------------------------------------------
TypeOK ==
    /\ rows \subseteq Row
    /\ issued \subseteq Ids
    /\ release \in {"old", "mixed", "new"}
    /\ status \in {0, 200, 204, 409, 500}
    /\ runs \in 0..MaxRuns
    /\ pc \in {"off", "select", "update", "retry", "done"}
    /\ tab \in Tables
    /\ cursor \in Ids \cup {0}
    /\ batch \subseteq Computed
    /\ collisions \subseteq Ids

\* When the backfill has ended, every row that still has no embedding_hash_v2
\* is in its report, whatever pods of either release wrote, changed or deleted
\* while it ran: the keyset cursor skips no row, and the row-by-row retry of a
\* failed batch forgets none.
ReportComplete ==
    pc = "done" => \A w \in rows : w.eh2 = NoValue => w.id \in collisions

\* The backfill comes to its end unless it is interrupted, also when rows that
\* collide stay NULL and pods keep writing beside it.
BackfillCompletes == pc = "select" ~> pc \in {"done", "off"}

\* Whether a pod of the previous release wrote the row.
WrittenByOld(w) == \E m \in Metas : w.mh = Md5(m)

\* With no update in place during the rollout, a v2 hash describes the content
\* of its row: what the backfill computed from a batch it read outside any
\* transaction still holds when it writes it, whatever is inserted and deleted
\* in between.  A vector's hash is that of the stored vector.  A metadata hash
\* is that of a text the column gives back as the row's metadata: the very text
\* it gives back where the script hashed a row of the previous release.
HashesDescribeContent ==
    \A w \in rows :
        /\ w.eh2 # NoValue => w.eh2 = Sha(w.vec)
        /\ w.mh2 # NoValue =>
              /\ \E m \in Metas : Jsonb[m] = w.meta /\ w.mh2 = Sha(m)
              /\ WrittenByOld(w) => w.mh2 = Sha(w.meta)

\* No other text than what jsonb gives back is stored as this metadata.
OneText(x) == \A m \in Metas : Jsonb[m] = x => m = x

\* With no update in place during the rollout, a report without collisions
\* means that deduplication is back as far as hashes can tell: no two rows hold
\* the same stored vector, metadata and authz if both are of the previous
\* release, nor if no other text is stored as that metadata, and none ever will
\* while only the new release writes.  Without the condition on the text it is
\* not so; see BackfilledRowIsSeen.
CleanReportMeansNoTwins ==
    pc = "done" /\ collisions = {} =>
        \A w, x \in rows :
            /\ SameContent(w, x)
            /\ OneText(w.meta) \/ (WrittenByOld(w) /\ WrittenByOld(x))
            => w = x

\* With no update in place during the rollout, a row is reported only while
\* another row with the same content is in the table: a failed batch does not
\* drag rows into the report that merely shared it.
CollisionsHonest ==
    [][pc = "retry" => \A i \in collisions' \ collisions :
          \E w, x \in rows : w.id = i /\ x # w /\ SameContent(w, x)]_vars

-----------------------------------------------------------------------------
(* What the documents say and the code does not do; README, "Deviations".   *)

\* db/backfill_sha256_content_hashes.py:23: "Idempotent. Only rows with a NULL
\* `embedding_hash_v2` are touched".
OnlyNullsTouched ==
    [][UpdateBatch \/ RetryRow =>
         \A w \in rows, x \in rows' :
            w.id = x.id /\ w # x => w.eh2 = NoValue]_vars

\* db/backfill_sha256_content_hashes.py:75: "a backfilled row and a fresh write of
\* identical content agree, which is the whole point: the unique index has to see
\* them as one".  So a POST of the vector, the metadata text and the authz of a
\* row of the previous release that has been backfilled is refused.
BackfilledRowIsSeen ==
    [][\A i \in Ids, t \in Tables, a \in Authzs, v \in Texts, m \in Metas, w \in rows :
         /\ NewPost(i, t, a, v, m)
         /\ Indexed(w)
         /\ <<w.table, w.authz, w.vec, w.mh>> = <<t, a, Rounded[t][v], Md5(m)>>
         => status' = 409]_vars

\* db/backfill_sha256_content_hashes.py:17: "Until it completes, rows written
\* before that deploy have NULL v2 hashes, which means they sit outside the new
\* unique index": once it has completed without a collision, none does.
CompletedMeansIndexed == pc = "done" /\ collisions = {} => \A w \in rows : Indexed(w)

\* db/migrations/20260826120000_sha256_content_hashes.sql:81 of old and new pods
\* side by side: "there is no correctness loss beyond dedup misses".  So a POST
\* is refused as a duplicate only if the table holds that content.
OldPodsOnlyMissDuplicates ==
    [][\A i \in Ids, t \in Tables, a \in Authzs, v \in Texts, m \in Metas :
         NewPost(i, t, a, v, m) /\ status' = 409 =>
            \E w \in rows : SameContent(w, NewRow(i, t, a, v, m))]_vars

\* database/dal/writes.py:420 of the upsert's ON CONFLICT: "anything that would
\* collide there collides here too and is handled": no upsert ends in a 500.
LegacyConflictHandled == status # 500

=============================================================================
