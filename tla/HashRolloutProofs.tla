-------------------------- MODULE HashRolloutProofs --------------------------
(***************************************************************************)
(* Proofs about HashRollout for any number of tables, rows, texts and any  *)
(* batch size: types, ReportComplete, and that hashes and reports tell     *)
(* the truth where nothing is updated in place.                            *)
(***************************************************************************)
EXTENDS HashRollout, FunctionTheorems, FiniteSetTheorems, TLAPS

-----------------------------------------------------------------------------
(* Type correctness.                                                        *)

\* A row of the previous release, and one of the new release, is well-typed.
LEMMA FreshRowType ==
    ASSUME NEW i \in Ids, NEW t \in Tables, NEW a \in Authzs, NEW v \in Texts, NEW m \in Metas
    PROVE  /\ [id |-> i, table |-> t, authz |-> a, vec |-> Rounded[t][v], meta |-> Jsonb[m],
               eh |-> Md5(v), mh |-> Md5(m), eh2 |-> NoValue, mh2 |-> NoValue] \in Row
           /\ NewRow(i, t, a, v, m) \in Row
  <1>1. Rounded[t][v] \in Texts /\ Jsonb[m] \in Metas
    BY TextAssumption, JsonbAssumption
  <1> QED
    BY <1>1 DEF Row, NewRow, VectorHash, MetaHash, Md5, Sha

\* A row that a PUT of the previous release has changed.
OldMerged(w, v, m) ==
    [w EXCEPT !.vec = IF v = NoValue THEN @ ELSE Rounded[w.table][v],
              !.eh = IF v = NoValue THEN @ ELSE Md5(v),
              !.meta = IF m = NoValue THEN @ ELSE Jsonb[m],
              !.mh = IF m = NoValue THEN @ ELSE Md5(m)]

\* A row that a PUT of the new release has changed.
NewMerged(w, v, m, a) ==
    [w EXCEPT !.vec = IF v = NoValue THEN @ ELSE Rounded[w.table][v],
              !.eh = IF v = NoValue THEN @ ELSE Sha(Rounded[w.table][v]),
              !.eh2 = IF v = NoValue THEN @ ELSE Sha(Rounded[w.table][v]),
              !.meta = IF m = NoValue THEN @ ELSE Jsonb[m],
              !.mh = IF m = NoValue THEN @ ELSE Sha(m),
              !.mh2 = IF m = NoValue THEN @ ELSE Sha(m),
              !.authz = IF a = NoValue THEN @ ELSE a]

\* Neither touches the id or the table of a row; the new release never takes
\* a v2 hash away.
LEMMA MergedType ==
    ASSUME NEW w \in Row, NEW v \in Texts \cup {NoValue}, NEW m \in Metas \cup {NoValue},
           NEW a \in Authzs \cup {NoValue}
    PROVE  /\ OldMerged(w, v, m) \in Row
           /\ OldMerged(w, v, m).id = w.id
           /\ NewMerged(w, v, m, a) \in Row
           /\ NewMerged(w, v, m, a).id = w.id
           /\ NewMerged(w, v, m, a).table = w.table
           /\ NewMerged(w, v, m, a).eh2 = NoValue => w.eh2 = NoValue
  <1>1. v # NoValue => Rounded[w.table][v] \in Texts
    BY TextAssumption DEF Row
  <1>2. v # NoValue => Sha(Rounded[w.table][v]) # NoValue
    BY <1>1, HashAssumption
  <1>3. /\ w.vec \in Texts /\ w.meta \in Metas /\ w.authz \in Authzs
        /\ w.eh \in VectorHash /\ w.mh \in MetaHash
        /\ w.eh2 \in VectorHash \cup {NoValue} /\ w.mh2 \in MetaHash \cup {NoValue}
    BY DEF Row
  <1> DEFINE vec == IF v = NoValue THEN w.vec ELSE Rounded[w.table][v]
             meta == IF m = NoValue THEN w.meta ELSE Jsonb[m]
             authz == IF a = NoValue THEN w.authz ELSE a
             oeh == IF v = NoValue THEN w.eh ELSE Md5(v)
             omh == IF m = NoValue THEN w.mh ELSE Md5(m)
             neh == IF v = NoValue THEN w.eh ELSE Sha(Rounded[w.table][v])
             neh2 == IF v = NoValue THEN w.eh2 ELSE Sha(Rounded[w.table][v])
             nmh == IF m = NoValue THEN w.mh ELSE Sha(m)
             nmh2 == IF m = NoValue THEN w.mh2 ELSE Sha(m)
  <1>4. vec \in Texts /\ meta \in Metas /\ authz \in Authzs
    BY <1>1, <1>3, JsonbAssumption
  <1>5. oeh \in VectorHash /\ neh \in VectorHash /\ neh2 \in VectorHash \cup {NoValue}
    BY <1>1, <1>3 DEF VectorHash, Md5, Sha
  <1>6. omh \in MetaHash /\ nmh \in MetaHash /\ nmh2 \in MetaHash \cup {NoValue}
    BY <1>3 DEF MetaHash, Md5, Sha
  <1>7. neh2 = NoValue => w.eh2 = NoValue
    BY <1>2
  <1>8. OldMerged(w, v, m) = [w EXCEPT !.vec = vec, !.eh = oeh, !.meta = meta, !.mh = omh]
    BY DEF OldMerged
  <1>9. NewMerged(w, v, m, a) = [w EXCEPT !.vec = vec, !.eh = neh, !.eh2 = neh2, !.meta = meta,
                                          !.mh = nmh, !.mh2 = nmh2, !.authz = authz]
    BY DEF NewMerged
  <1> HIDE DEF vec, meta, authz, oeh, omh, neh, neh2, nmh, nmh2
  <1>10. OldMerged(w, v, m) \in Row /\ OldMerged(w, v, m).id = w.id
    BY <1>4, <1>5, <1>6, <1>8 DEF Row
  <1>11. /\ NewMerged(w, v, m, a) \in Row /\ NewMerged(w, v, m, a).id = w.id
         /\ NewMerged(w, v, m, a).table = w.table
         /\ NewMerged(w, v, m, a).eh2 = neh2
    BY <1>4, <1>5, <1>6, <1>9 DEF Row
  <1> QED
    BY <1>7, <1>10, <1>11

\* A row keeps its id and its table when the backfill writes its hashes, and
\* gets a v2 hash of its vector exactly if the script computed one for its id.
LEMMA StampType ==
    ASSUME NEW w \in Row, NEW bs \in SUBSET Computed
    PROVE  /\ Stamp(w, bs) \in Row
           /\ Stamp(w, bs).id = w.id /\ Stamp(w, bs).table = w.table
           /\ Stamp(w, bs).eh2 = NoValue =>
                 w.eh2 = NoValue /\ \A b \in bs : b.id # w.id
  <1>1. CASE \A b \in bs : b.id # w.id
    BY <1>1 DEF Stamp
  <1>2. CASE \E b \in bs : b.id = w.id
    <2> DEFINE b == CHOOSE x \in bs : x.id = w.id
    <2>1. b \in bs /\ b.id = w.id
      BY <1>2
    <2>2. Stamp(w, bs) = [w EXCEPT !.eh2 = b.eh, !.mh2 = b.mh]
      BY <1>2 DEF Stamp
    <2> HIDE DEF b
    <2>3. b.eh \in VectorHash /\ b.mh \in MetaHash
      BY <2>1 DEF Computed
    <2>4. b.eh # NoValue
      <3>1. PICK g \in {"md5", "sha"}, x \in Texts : b.eh = <<g, x>>
        BY <2>3 DEF VectorHash
      <3> QED
        BY <3>1, HashAssumption DEF Md5, Sha
    <2> QED
      BY <2>2, <2>3, <2>4 DEF Row
  <1> QED
    BY <1>1, <1>2

LEMMA RowHashesType ==
    ASSUME NEW w \in Row
    PROVE  RowHashes(w) \in Computed /\ RowHashes(w).id = w.id
  BY DEF RowHashes, Computed, Row, VectorHash, MetaHash, Sha

\* What a request of a pod may do to the tables: nothing, add one row under a
\* fresh id, change one row in place or remove one; a row without v2 hash is
\* added only by a pod of the previous release, and only such a pod may
\* leave one that had none changed otherwise.
LEMMA PodStep ==
    ASSUME rows \subseteq Row, Pods
    PROVE  /\ \/ rows' = rows
              \/ \E x \in Row :
                    /\ x.id \notin issued
                    /\ x.eh2 = NoValue => OldPods
                    /\ rows' = rows \cup {x}
              \/ \E w \in rows, x \in Row :
                    /\ x.id = w.id
                    /\ OldPods \/ (x.table = w.table /\ (x.eh2 = NoValue => w.eh2 = NoValue))
                    /\ rows' = (rows \ {w}) \cup {x}
              \/ \E w \in rows : rows' = rows \ {w}
           /\ issued' = issued \cup {w.id : w \in rows'}
           /\ status' \in {200, 204, 409, 500}
           /\ UNCHANGED <<release, bf>>
  <1>1. ASSUME NEW i \in Ids, NEW t \in Tables, NEW a \in Authzs, NEW v \in Texts,
               NEW m \in Metas,
               OldPost(i, t, a, v, m) \/ NewPost(i, t, a, v, m) \/ NewUpsert(i, t, a, v, m)
        PROVE  /\ \/ rows' = rows
                  \/ \E x \in Row :
                        /\ x.id \notin issued
                        /\ x.eh2 = NoValue => OldPods
                        /\ rows' = rows \cup {x}
               /\ issued' = issued \cup {w.id : w \in rows'}
               /\ status' \in {200, 204, 409, 500}
               /\ UNCHANGED <<release, bf>>
    <2> DEFINE o == [id |-> i, table |-> t, authz |-> a, vec |-> Rounded[t][v], meta |-> Jsonb[m],
                     eh |-> Md5(v), mh |-> Md5(m), eh2 |-> NoValue, mh2 |-> NoValue]
               n == NewRow(i, t, a, v, m)
    <2>1. /\ o \in Row /\ o.id = i
          /\ n \in Row /\ n.id = i /\ n.eh2 = Sha(Rounded[t][v])
      BY FreshRowType DEF NewRow
    <2>2. n.eh2 # NoValue
      BY <2>1, TextAssumption, HashAssumption
    <2>3. CASE OldPost(i, t, a, v, m)
      <3>1. i \notin issued /\ OldPods /\ (rows' = rows \/ rows' = rows \cup {o})
        BY <2>3 DEF OldPost, Reply
      <3>2. /\ issued' = issued \cup {w.id : w \in rows'}
            /\ status' \in {200, 204, 409, 500} /\ UNCHANGED <<release, bf>>
        BY <2>3 DEF OldPost, Reply
      <3> HIDE DEF o
      <3> QED
        BY <2>1, <3>1, <3>2
    <2>4. CASE NewPost(i, t, a, v, m) \/ NewUpsert(i, t, a, v, m)
      <3>1. i \notin issued /\ (rows' = rows \/ rows' = rows \cup {n})
        BY <2>4 DEF NewPost, NewUpsert, Reply
      <3>2. /\ issued' = issued \cup {w.id : w \in rows'}
            /\ status' \in {200, 204, 409, 500} /\ UNCHANGED <<release, bf>>
        BY <2>4 DEF NewPost, NewUpsert, Reply
      <3> HIDE DEF n
      <3> QED
        BY <2>1, <2>2, <3>1, <3>2
    <2> QED
      BY <1>1, <2>3, <2>4
  <1>2. ASSUME NEW w \in rows, NEW v \in Texts \cup {NoValue}, NEW m \in Metas \cup {NoValue},
               NEW a \in Authzs \cup {NoValue},
               OldUpdate(w, v, m) \/ NewUpdate(w, v, m, a)
        PROVE  /\ \/ rows' = rows
                  \/ \E x \in Row :
                        /\ x.id = w.id
                        /\ OldPods \/ (x.table = w.table /\ (x.eh2 = NoValue => w.eh2 = NoValue))
                        /\ rows' = (rows \ {w}) \cup {x}
               /\ issued' = issued \cup {x.id : x \in rows'}
               /\ status' \in {200, 204, 409, 500}
               /\ UNCHANGED <<release, bf>>
    <2>1. CASE OldUpdate(w, v, m)
      <3>1. OldPods /\ (rows' = rows \/ rows' = (rows \ {w}) \cup {OldMerged(w, v, m)})
        BY <2>1 DEF OldUpdate, OldMerged, Reply
      <3>2. /\ issued' = issued \cup {x.id : x \in rows'}
            /\ status' \in {200, 204, 409, 500} /\ UNCHANGED <<release, bf>>
        BY <2>1 DEF OldUpdate, Reply
      <3> QED
        BY <3>1, <3>2, MergedType
    <2>2. CASE NewUpdate(w, v, m, a)
      <3>1. rows' = rows \/ rows' = (rows \ {w}) \cup {NewMerged(w, v, m, a)}
        BY <2>2 DEF NewUpdate, NewMerged, Reply
      <3>2. /\ issued' = issued \cup {x.id : x \in rows'}
            /\ status' \in {200, 204, 409, 500} /\ UNCHANGED <<release, bf>>
        BY <2>2 DEF NewUpdate, Reply
      <3> QED
        BY <3>1, <3>2, MergedType
    <2> QED
      BY <1>2, <2>1, <2>2
  <1>3. ASSUME NEW w \in rows, Delete(w)
        PROVE  /\ rows' = rows \ {w}
               /\ issued' = issued \cup {x.id : x \in rows'}
               /\ status' \in {200, 204, 409, 500}
               /\ UNCHANGED <<release, bf>>
    BY <1>3 DEF Delete, Reply
  <1>4. CASE \E i \in Ids, t \in Tables, a \in Authzs, v \in Texts, m \in Metas :
               OldPost(i, t, a, v, m) \/ NewPost(i, t, a, v, m) \/ NewUpsert(i, t, a, v, m)
    BY <1>1, <1>4
  <1>5. CASE \E w \in rows, v \in Texts \cup {NoValue}, m \in Metas \cup {NoValue} :
               \/ OldUpdate(w, v, m)
               \/ \E a \in Authzs \cup {NoValue} : NewUpdate(w, v, m, a)
    BY <1>2, <1>5
  <1>6. CASE \E w \in rows : Delete(w)
    BY <1>3, <1>6
  <1> QED
    BY <1>4, <1>5, <1>6 DEF Pods

-----------------------------------------------------------------------------
(* ReportComplete.                                                          *)

\* An id names one row and is in the ledger of ids handed out.
IdsOnce ==
    /\ \A w \in rows : w.id \in issued
    /\ \A w, x \in rows : w.id = x.id => w = x

Running == pc \in {"select", "update", "retry"}

\* The rows the scan has left behind: of an earlier table, or of this one up
\* to the cursor.
Passed(w) == w.table < tab \/ (w.table = tab /\ w.id <= cursor)

\* A row the scan has passed carries a v2 hash, is waiting in the batch, or
\* is in the report; only the new release writes meanwhile.
ScanInv ==
    /\ pc # "off" => release = "new"
    /\ Running => \A w \in rows :
          w.eh2 = NoValue /\ Passed(w) => w.id \in collisions \/ \E b \in batch : b.id = w.id
    /\ pc = "select" => batch = {}
    /\ ReportComplete

ReportInv == TypeOK /\ IsFiniteSet(rows) /\ IdsOnce /\ ScanInv

\* Whatever the pods do, the tables stay well-typed, finite and without two
\* rows under one id.
LEMMA PodsKeepRows ==
    ASSUME ReportInv, Pods
    PROVE  TypeOK' /\ IsFiniteSet(rows)' /\ IdsOnce'
  <1> USE DEF ReportInv
  <1>1. rows \subseteq Row
    BY DEF TypeOK
  <1>2. rows' \subseteq Row /\ IsFiniteSet(rows')
    <2>1. ASSUME NEW x PROVE IsFiniteSet(rows \cup {x})
      BY FS_AddElement
    <2>2. ASSUME NEW w, NEW x PROVE IsFiniteSet((rows \ {w}) \cup {x}) /\ IsFiniteSet(rows \ {w})
      BY FS_RemoveElement, FS_AddElement
    <2>3. CASE rows' = rows
      BY <1>1, <2>3
    <2>4. CASE \E x \in Row : rows' = rows \cup {x}
      BY <1>1, <2>1, <2>4
    <2>5. CASE \E w \in rows, x \in Row : rows' = (rows \ {w}) \cup {x}
      <3>1. PICK w \in rows, x \in Row : rows' = (rows \ {w}) \cup {x}
        BY <2>5
      <3>2. IsFiniteSet(rows')
        BY <2>2, <3>1
      <3> QED
        BY <1>1, <3>1, <3>2
    <2>6. CASE \E w \in rows : rows' = rows \ {w}
      BY <1>1, <2>2, <2>6
    <2> QED
      BY <1>1, <2>3, <2>4, <2>5, <2>6, PodStep
  <1>3. IdsOnce'
    <2>1. issued' = issued \cup {w.id : w \in rows'}
      BY <1>1, PodStep
    <2>2. \A w \in rows' : w.id \in issued'
      BY <2>1
    <2>3. \A w, x \in rows' : w.id = x.id => w = x
      BY <1>1, PodStep DEF IdsOnce
    <2> QED
      BY <2>2, <2>3 DEF IdsOnce
  <1>4. TypeOK'
    <2>1. /\ issued' = issued \cup {w.id : w \in rows'}
          /\ status' \in {0, 200, 204, 409, 500}
          /\ UNCHANGED <<release, bf>>
      BY <1>1, PodStep
    <2>2. \A w \in rows' : w.id \in Ids
      BY <1>2 DEF Row
    <2> QED
      BY <1>2, <2>1, <2>2 DEF TypeOK, bf
  <1> QED
    BY <1>2, <1>3, <1>4

\* While the script runs or has ended, pods of the new release add no row
\* without a v2 hash and move none.
LEMMA PodsKeepScan ==
    ASSUME ReportInv, Pods
    PROVE  ScanInv'
  <1> USE DEF ReportInv
  <1>1. rows \subseteq Row /\ UNCHANGED <<release, bf>>
    BY PodStep DEF TypeOK
  <1>2. CASE pc = "off"
    BY <1>1, <1>2 DEF ScanInv, Running, ReportComplete, bf
  <1>3. CASE pc # "off"
    <2>1. ~OldPods
      BY <1>3 DEF ScanInv, OldPods
    <2>2. ASSUME NEW x \in rows', x.eh2 = NoValue
          PROVE  \E w \in rows : w.eh2 = NoValue /\ w.id = x.id /\ w.table = x.table
      BY <1>1, <2>1, <2>2, PodStep
    <2> QED
      BY <1>1, <2>2 DEF ScanInv, Running, ReportComplete, Passed, bf
  <1> QED
    BY <1>2, <1>3

\* Writing hashes keeps the tables well-typed, finite and without two rows
\* under one id.
LEMMA StampedKeepsRows ==
    ASSUME ReportInv, NEW bs \in SUBSET Computed, rows' = Stamped(bs), issued' = issued
    PROVE  rows' \subseteq Row /\ IsFiniteSet(rows)' /\ IdsOnce'
  <1> USE DEF ReportInv
  <1>1. rows \subseteq Row
    BY DEF TypeOK
  <1>2. rows' \subseteq Row
    BY <1>1, StampType DEF Stamped
  <1>3. IsFiniteSet(rows')
    <2> DEFINE f == [w \in rows |-> Stamp(w, bs)]
    <2>1. f \in Surjection(rows, rows')
      BY Fun_IsSurj DEF Stamped
    <2> HIDE DEF f
    <2> QED
      BY <2>1, FS_Surjection
  <1>4. \A x \in rows' : \E w \in rows : x = Stamp(w, bs) /\ x.id = w.id
    BY <1>1, StampType DEF Stamped
  <1>5. IdsOnce'
    BY <1>4 DEF IdsOnce
  <1> QED
    BY <1>2, <1>3, <1>5

\* The batch is a lower part of what is pending: a pending row that is not in
\* it lies beyond the new cursor.
LEMMA BatchIsLowerPart ==
    ASSUME ReportInv, NEW w \in FirstPending, NEW x \in Pending, x.id <= w.id
    PROVE  x \in FirstPending
  <1> USE DEF ReportInv
  <1> DEFINE Below(y) == {z \in Pending : z.id < y.id}
  <1>1. Pending \subseteq rows /\ \A y \in Pending : y.id \in Int
    BY SizeAssumption DEF Pending, TypeOK, Row, Ids
  <1>2. w \in Pending /\ Cardinality(Below(w)) < BatchSize
    BY DEF FirstPending
  <1>3. Below(x) \subseteq Below(w)
    BY <1>1, <1>2
  <1>4. IsFiniteSet(Below(w))
    BY <1>1, FS_Subset
  <1>5. Cardinality(Below(x)) <= Cardinality(Below(w))
    BY <1>3, <1>4, FS_Subset
  <1>6. Cardinality(Below(x)) \in Nat /\ Cardinality(Below(w)) \in Nat /\ BatchSize \in Nat
    BY <1>3, <1>4, FS_Subset, FS_CardinalityType, SizeAssumption
  <1> QED
    BY <1>2, <1>5, <1>6 DEF FirstPending

LEMMA SelectBatchKeeps ==
    ASSUME ReportInv, SelectBatch
    PROVE  ReportInv'
  <1> USE DEF ReportInv
  <1>1. /\ rows' = rows /\ issued' = issued /\ release' = release /\ status' = status
        /\ runs' = runs /\ collisions' = collisions /\ pc = "select" /\ batch = {}
        /\ release = "new"
    BY DEF SelectBatch, ScanInv
  <1>2. /\ rows \subseteq Row /\ tab \in Tables /\ tab \in Int /\ NTables \in Int
        /\ cursor \in Ids \cup {0} /\ cursor \in Int
    BY SizeAssumption DEF TypeOK, Tables, Ids
  <1>3. \A w \in rows : w.id \in Ids /\ w.id \in Int /\ w.id > 0 /\ w.table \in Tables /\ w.table \in Int
    BY <1>2, SizeAssumption DEF Row, Ids, Tables
  <1>4. \A w \in rows : w.eh2 = NoValue /\ Passed(w) => w.id \in collisions
    BY <1>1 DEF ScanInv, Running
  <1>5. CASE Pending # {} /\ pc' = "update"
    <2>1. /\ batch' = {RowHashes(w) : w \in FirstPending}
          /\ tab' = tab
          /\ \E w \in FirstPending : (\A x \in FirstPending : x.id <= w.id) /\ cursor' = w.id
      BY <1>5 DEF SelectBatch
    <2>2. PICK w \in FirstPending : (\A x \in FirstPending : x.id <= w.id) /\ cursor' = w.id
      BY <2>1
    <2>3. FirstPending \subseteq rows
      BY DEF FirstPending, Pending
    <2>4. batch' \subseteq Computed /\ \A x \in FirstPending : \E b \in batch' : b.id = x.id
      BY <1>2, <2>1, <2>3, RowHashesType
    <2>5. cursor' \in Ids
      BY <1>3, <2>2, <2>3
    <2>6. TypeOK'
      BY <1>1, <1>5, <2>1, <2>4, <2>5 DEF TypeOK
    <2>7. ASSUME NEW x \in rows, x.eh2 = NoValue, Passed(x)'
          PROVE  x.id \in collisions \/ \E b \in batch' : b.id = x.id
      <3>1. CASE Passed(x)
        BY <1>4, <2>7, <3>1
      <3>2. CASE ~Passed(x)
        <4>1. x.table = tab /\ x.id > cursor /\ x.id <= w.id
          BY <1>2, <1>3, <2>1, <2>2, <2>7, <3>2 DEF Passed
        <4>2. x \in Pending
          BY <2>7, <4>1 DEF Pending
        <4>3. x \in FirstPending
          BY <4>1, <4>2, BatchIsLowerPart
        <4> QED
          BY <2>4, <4>3
      <3> QED
        BY <3>1, <3>2
    <2>8. ScanInv'
      BY <1>1, <1>5, <2>7 DEF ScanInv, Running, ReportComplete, Passed
    <2> QED
      BY <1>1, <2>6, <2>8 DEF IdsOnce
  <1>6. CASE Pending = {} /\ ~LastTable
    <2>1. tab' = tab + 1 /\ cursor' = 0 /\ pc' = pc /\ batch' = batch
      BY <1>6 DEF SelectBatch
    <2>2. tab' \in Tables
      BY <1>2, <1>6, <2>1 DEF LastTable, Tables
    <2>3. TypeOK'
      BY <1>1, <2>1, <2>2 DEF TypeOK
    <2>4. ASSUME NEW x \in rows, x.eh2 = NoValue, Passed(x)'
          PROVE  x.id \in collisions
      <3>1. x.table <= tab
        BY <1>2, <1>3, <2>1, <2>4 DEF Passed
      <3>2. x.table = tab => x.id <= cursor
        BY <1>2, <1>3, <1>6, <2>4 DEF Pending
      <3>3. Passed(x)
        BY <1>2, <1>3, <3>1, <3>2 DEF Passed
      <3> QED
        BY <1>4, <2>4, <3>3
    <2>5. ScanInv'
      BY <1>1, <2>1, <2>4 DEF ScanInv, Running, ReportComplete, Passed
    <2> QED
      BY <1>1, <2>3, <2>5 DEF IdsOnce
  <1>7. CASE Pending = {} /\ LastTable
    <2>1. pc' = "done" /\ UNCHANGED <<tab, cursor, batch>>
      BY <1>7 DEF SelectBatch
    <2>2. TypeOK'
      BY <1>1, <2>1 DEF TypeOK
    <2>3. ASSUME NEW x \in rows, x.eh2 = NoValue
          PROVE  x.id \in collisions
      <3>1. x.table <= tab
        BY <1>2, <1>3, <1>7 DEF LastTable, Tables
      <3>2. x.table = tab => x.id <= cursor
        BY <1>2, <1>3, <1>7, <2>3 DEF Pending
      <3>3. Passed(x)
        BY <1>2, <1>3, <3>1, <3>2 DEF Passed
      <3> QED
        BY <1>4, <2>3, <3>3
    <2>4. ScanInv'
      BY <1>1, <2>1, <2>3 DEF ScanInv, Running, ReportComplete
    <2> QED
      BY <1>1, <2>2, <2>4 DEF IdsOnce
  <1> QED
    BY <1>5, <1>6, <1>7 DEF SelectBatch

LEMMA UpdateBatchKeeps ==
    ASSUME ReportInv, UpdateBatch
    PROVE  ReportInv'
  <1> USE DEF ReportInv
  <1>1. /\ pc = "update"
        /\ UNCHANGED <<issued, release, status, runs, tab, cursor, collisions>>
        /\ \/ pc' = "retry" /\ rows' = rows /\ batch' = batch
           \/ pc' = "select" /\ rows' = Stamped(batch) /\ batch' = {}
    BY DEF UpdateBatch
  <1>2. rows \subseteq Row /\ batch \in SUBSET Computed
    BY DEF TypeOK
  <1>3. CASE pc' = "retry" /\ rows' = rows /\ batch' = batch
    BY <1>1, <1>3 DEF TypeOK, IdsOnce, ScanInv, Running, ReportComplete, Passed
  <1>4. CASE pc' = "select" /\ rows' = Stamped(batch) /\ batch' = {}
    <2>1. rows' \subseteq Row /\ IsFiniteSet(rows)' /\ IdsOnce'
      BY <1>1, <1>2, <1>4, StampedKeepsRows
    <2>2. TypeOK'
      BY <1>1, <1>4, <2>1 DEF TypeOK
    <2>3. ASSUME NEW x \in rows', x.eh2 = NoValue, Passed(x)'
          PROVE  x.id \in collisions
      <3>1. PICK w \in rows : x = Stamp(w, batch)
        BY <1>4, <2>3 DEF Stamped
      <3>2. /\ x.id = w.id /\ x.table = w.table
            /\ w.eh2 = NoValue /\ \A b \in batch : b.id # w.id
        BY <1>2, <2>3, <3>1, StampType
      <3>3. Passed(w)
        BY <1>1, <2>3, <3>2 DEF Passed
      <3> QED
        BY <1>1, <3>2, <3>3 DEF ScanInv, Running
    <2>4. ScanInv'
      BY <1>1, <1>4, <2>3 DEF ScanInv, Running, ReportComplete
    <2> QED
      BY <2>1, <2>2, <2>4
  <1> QED
    BY <1>1, <1>3, <1>4

LEMMA RetryRowKeeps ==
    ASSUME ReportInv, RetryRow
    PROVE  ReportInv'
  <1> USE DEF ReportInv
  <1>1. /\ pc = "retry"
        /\ pc' \in {"select", "retry"} /\ (pc' = "select" => batch' = {})
        /\ UNCHANGED <<issued, release, status, runs, tab, cursor>>
    BY DEF RetryRow
  <1>2. PICK b \in batch :
           /\ batch' = batch \ {b}
           /\ \/ collisions' = collisions \cup {b.id} /\ rows' = rows
              \/ rows' = Stamped({b}) /\ collisions' = collisions
    BY DEF RetryRow, WithCollision
  <1>3. rows \subseteq Row /\ batch \in SUBSET Computed /\ {b} \in SUBSET Computed
    BY DEF TypeOK
  <1>4. rows' \subseteq Row /\ IsFiniteSet(rows)' /\ IdsOnce'
    <2>1. CASE rows' = rows
      BY <1>1, <1>3, <2>1 DEF IdsOnce
    <2>2. CASE rows' = Stamped({b})
      BY <1>1, <1>3, <2>2, StampedKeepsRows
    <2> QED
      BY <1>2, <2>1, <2>2
  <1>5. TypeOK'
    <2>1. b.id \in Ids
      BY <1>3 DEF Computed
    <2> QED
      BY <1>1, <1>2, <1>3, <1>4, <2>1 DEF TypeOK
  <1>6. ASSUME NEW x \in rows', x.eh2 = NoValue, Passed(x)'
        PROVE  x.id \in collisions' \/ \E d \in batch' : d.id = x.id
    <2>1. PICK w \in rows :
             /\ x.id = w.id /\ x.table = w.table /\ w.eh2 = NoValue
             /\ w.id # b.id \/ w.id \in collisions'
      <3>1. CASE collisions' = collisions \cup {b.id} /\ rows' = rows
        BY <1>6, <3>1
      <3>2. CASE rows' = Stamped({b}) /\ collisions' = collisions
        <4>1. PICK w \in rows : x = Stamp(w, {b})
          BY <3>2 DEF Stamped
        <4>2. x.id = w.id /\ x.table = w.table /\ w.eh2 = NoValue /\ b.id # w.id
          BY <1>3, <1>6, <4>1, StampType
        <4> QED
          BY <4>2
      <3> QED
        BY <1>2, <3>1, <3>2
    <2>2. Passed(w)
      BY <1>1, <1>6, <2>1 DEF Passed
    <2>3. w.id \in collisions \/ \E d \in batch : d.id = w.id
      BY <1>1, <2>1, <2>2 DEF ScanInv, Running
    <2> QED
      BY <1>2, <2>1, <2>3
  <1>7. ScanInv'
    BY <1>1, <1>6 DEF ScanInv, Running, ReportComplete
  <1> QED
    BY <1>4, <1>5, <1>7

LEMMA ReportInit == Init => ReportInv
  BY SizeAssumption, FS_EmptySet
     DEF Init, ReportInv, TypeOK, IdsOnce, ScanInv, Running, ReportComplete, Tables

LEMMA ReportNext == ReportInv /\ [Next]_vars => ReportInv'
  <1> SUFFICES ASSUME ReportInv, [Next]_vars PROVE ReportInv'
    OBVIOUS
  <1> USE DEF ReportInv
  <1>1. CASE UNCHANGED vars
    BY <1>1 DEF vars, TypeOK, IdsOnce, ScanInv, Running, ReportComplete, Passed
  <1>2. CASE Deploy
    BY <1>2 DEF Deploy, bf, TypeOK, IdsOnce, ScanInv, Running, ReportComplete, Passed
  <1>3. CASE Pods
    BY <1>3, PodsKeepRows, PodsKeepScan
  <1>4. CASE StartBackfill
    <2>1. TypeOK'
      BY <1>4, SizeAssumption DEF StartBackfill, TypeOK, Tables
    <2>2. \A w \in rows : ~(w.table < 1) /\ ~(w.id <= 0)
      BY SizeAssumption DEF TypeOK, Row, Tables, Ids
    <2>3. ScanInv'
      BY <1>4, <2>2 DEF StartBackfill, ScanInv, Running, ReportComplete, Passed
    <2> QED
      BY <1>4, <2>1, <2>3 DEF StartBackfill, IdsOnce
  <1>5. CASE Interrupt
    BY <1>5, SizeAssumption
       DEF Interrupt, TypeOK, IdsOnce, ScanInv, Running, ReportComplete, Tables
  <1>6. CASE Backfill
    BY <1>6, SelectBatchKeeps, UpdateBatchKeeps, RetryRowKeeps DEF Backfill
  <1> QED
    BY <1>1, <1>2, <1>3, <1>4, <1>5, <1>6 DEF Next

\* Both generations of hash columns, the script's cursor, batch and report
\* stay well-typed, whatever pods of both releases do.
THEOREM TypeCorrect == Spec => []TypeOK
  <1>1. ReportInv => TypeOK
    BY DEF ReportInv
  <1> QED
    BY <1>1, ReportInit, ReportNext, PTL DEF Spec

\* When the backfill has ended, every row that still has no embedding_hash_v2
\* is in its report, for any number of rows and tables and any batch size.
THEOREM ReportIsComplete == Spec => []ReportComplete
  <1>1. ReportInv => ReportComplete
    BY DEF ReportInv, ScanInv
  <1> QED
    BY <1>1, ReportInit, ReportNext, PTL DEF Spec
-----------------------------------------------------------------------------
(* Where no row is updated in place: HashesDescribeContent,                 *)
(* CleanReportMeansNoTwins and CollisionsHonest.                            *)

\* The rollout this part is about: pods insert and delete.  HashRollout's
\* finding shows what an update in place between SELECT and UPDATE does.
Quiet == Writes \cap {"old_update", "new_update"} = {}

\* Metadata is held as jsonb gives it back.  A row has both v2 hashes or none,
\* the vector's is that of the stored vector, the metadata's that of a text held
\* so, and of the one held if the previous release wrote the row.
Described(w) ==
    /\ Jsonb[w.meta] = w.meta
    /\ w.eh2 = NoValue <=> w.mh2 = NoValue
    /\ w.eh2 # NoValue =>
          /\ w.eh2 = Sha(w.vec)
          /\ \E m \in Metas : Jsonb[m] = w.meta /\ w.mh2 = Sha(m)
          /\ WrittenByOld(w) => w.mh2 = Sha(w.meta)

\* What the unique index on the v2 hashes admits.
V2Unique == \A w, x \in rows : SameV2(w, x) => w = x

\* What the script computed holds for the row as it is now, if it still is: ids
\* are not drawn again.
BatchDescribes ==
    /\ IsFiniteSet(batch)
    /\ \A b \in batch : b.id \in issued
    /\ \A b, c \in batch : b.id = c.id => b = c
    /\ \A b \in batch, w \in rows : b.id = w.id => b = RowHashes(w)

QuietInv == ReportInv /\ V2Unique /\ BatchDescribes /\ \A w \in rows : Described(w)

LEMMA SameV2Symmetric == ASSUME NEW w, NEW x, SameV2(w, x) PROVE SameV2(x, w)
  BY DEF SameV2

\* A row that collides with none can join the index, one that leaves does no harm.
LEMMA QuietPodStep ==
    ASSUME QuietInv, Quiet, Pods
    PROVE  /\ \/ rows' = rows
              \/ \E x \in Row :
                    /\ x.id \notin issued
                    /\ Described(x)
                    /\ \A y \in rows : ~SameV2(x, y)
                    /\ rows' = rows \cup {x}
              \/ \E w \in rows : rows' = rows \ {w}
           /\ issued \subseteq issued'
           /\ batch' = batch
  <1> USE DEF QuietInv
  <1>1. issued \subseteq issued' /\ batch' = batch
    BY PodStep DEF ReportInv, TypeOK, bf
  <1>2. ASSUME NEW i \in Ids, NEW t \in Tables, NEW a \in Authzs, NEW v \in Texts,
               NEW m \in Metas, OldPost(i, t, a, v, m)
        PROVE  \/ rows' = rows
               \/ \E x \in Row :
                     /\ x.id \notin issued
                     /\ Described(x)
                     /\ \A y \in rows : ~SameV2(x, y)
                     /\ rows' = rows \cup {x}
    <2> DEFINE o == [id |-> i, table |-> t, authz |-> a, vec |-> Rounded[t][v], meta |-> Jsonb[m],
                     eh |-> Md5(v), mh |-> Md5(m), eh2 |-> NoValue, mh2 |-> NoValue]
    <2>1. /\ o \in Row /\ o.id = i /\ o.eh2 = NoValue /\ o.mh2 = NoValue
          /\ Jsonb[o.meta] = o.meta
      BY FreshRowType, JsonbAssumption
    <2>2. i \notin issued /\ (rows' = rows \/ rows' = rows \cup {o})
      BY <1>2 DEF OldPost, Reply
    <2> HIDE DEF o
    <2> QED
      BY <2>1, <2>2 DEF Described, SameV2, Indexed
  <1>3. ASSUME NEW i \in Ids, NEW t \in Tables, NEW a \in Authzs, NEW v \in Texts,
               NEW m \in Metas, NewPost(i, t, a, v, m) \/ NewUpsert(i, t, a, v, m)
        PROVE  \/ rows' = rows
               \/ \E x \in Row :
                     /\ x.id \notin issued
                     /\ Described(x)
                     /\ \A y \in rows : ~SameV2(x, y)
                     /\ rows' = rows \cup {x}
    <2> DEFINE n == NewRow(i, t, a, v, m)
    <2>1. /\ n \in Row /\ n.id = i
          /\ n.eh2 = Sha(n.vec) /\ n.mh2 = Sha(m) /\ n.mh = Sha(m)
          /\ n.vec \in Texts /\ n.meta = Jsonb[m] /\ Jsonb[n.meta] = n.meta
      BY FreshRowType, TextAssumption, JsonbAssumption DEF NewRow
    <2>2. n.eh2 # NoValue /\ n.mh2 # NoValue /\ ~WrittenByOld(n)
      BY <2>1, HashAssumption DEF WrittenByOld, Md5, Sha
    <2>3. i \notin issued /\ (rows' = rows \/ (rows' = rows \cup {n} /\ ~CollidesV2(n)))
      BY <1>3 DEF NewPost, NewUpsert, Reply
    <2>4. \A y \in rows : y.id \in issued
      BY DEF ReportInv, IdsOnce
    <2> HIDE DEF n
    <2> QED
      BY <2>1, <2>2, <2>3, <2>4 DEF Described, CollidesV2, Others
  <1>4. ASSUME NEW w \in rows, Delete(w)
        PROVE  rows' = rows \ {w}
    BY <1>4 DEF Delete, Reply
  <1>5. ASSUME NEW w \in rows, NEW v, NEW m, NEW a, OldUpdate(w, v, m) \/ NewUpdate(w, v, m, a)
        PROVE  FALSE
    BY <1>5 DEF OldUpdate, NewUpdate, Quiet
  <1> QED
    BY <1>1, <1>2, <1>3, <1>4, <1>5 DEF Pods

LEMMA QuietPodsKeep ==
    ASSUME QuietInv, Quiet, Pods
    PROVE  QuietInv'
  <1> USE DEF QuietInv
  <1>1. ReportInv'
    BY PodsKeepRows, PodsKeepScan DEF ReportInv
  <1>2. \A w, x : SameV2(w, x) => SameV2(x, w)
    BY SameV2Symmetric
  <1>3. \A w \in rows : w.id \in issued
    BY DEF ReportInv, IdsOnce
  <1>4. issued \subseteq issued' /\ batch' = batch
    BY QuietPodStep
  <1>5. CASE rows' \subseteq rows
    BY <1>1, <1>4, <1>5 DEF V2Unique, BatchDescribes, Described, SameV2, Indexed, RowHashes
  <1>6. CASE \E x \in Row :
               /\ x.id \notin issued
               /\ Described(x)
               /\ \A y \in rows : ~SameV2(x, y)
               /\ rows' = rows \cup {x}
    <2>1. PICK x \in Row :
             /\ x.id \notin issued
             /\ Described(x)
             /\ \A y \in rows : ~SameV2(x, y)
             /\ rows' = rows \cup {x}
      BY <1>6
    <2>2. V2Unique'
      <3>1. \A w, y \in rows' : SameV2(w, y) => w = y
        BY <1>2, <2>1 DEF V2Unique
      <3> QED
        BY <3>1 DEF V2Unique, SameV2, Indexed
    <2>3. BatchDescribes'
      BY <1>4, <2>1 DEF BatchDescribes
    <2>4. \A w \in rows' : Described(w)
      BY <2>1
    <2> QED
      BY <1>1, <2>2, <2>3, <2>4 DEF Described
  <1> QED
    BY <1>5, <1>6, QuietPodStep

\* A row whose hashes are written gets those the script computed for it, and
\* keeps everything else.
LEMMA StampIs ==
    ASSUME QuietInv, NEW bs \in SUBSET batch, NEW w \in rows
    PROVE  /\ \A b \in bs : b.id = w.id =>
                 Stamp(w, bs) = [w EXCEPT !.eh2 = Sha(w.vec), !.mh2 = Sha(w.meta)]
           /\ (\A b \in bs : b.id # w.id) => Stamp(w, bs) = w
  <1>1. CASE \A b \in bs : b.id # w.id
    BY <1>1 DEF Stamp
  <1>2. CASE \E b \in bs : b.id = w.id
    <2> DEFINE b == CHOOSE x \in bs : x.id = w.id
    <2>1. b \in bs /\ b.id = w.id
      BY <1>2
    <2>2. Stamp(w, bs) = [w EXCEPT !.eh2 = b.eh, !.mh2 = b.mh]
      BY <1>2 DEF Stamp
    <2> HIDE DEF b
    <2>3. b = RowHashes(w)
      BY <2>1 DEF QuietInv, BatchDescribes
    <2> QED
      BY <1>2, <2>2, <2>3 DEF RowHashes
  <1> QED
    BY <1>1, <1>2

\* Writing hashes to rows of the batch keeps them true to their content, and
\* the rest of the batch too.
LEMMA StampedDescribes ==
    ASSUME QuietInv, NEW bs \in SUBSET batch, rows' = Stamped(bs), batch' \subseteq batch,
           issued' = issued
    PROVE  BatchDescribes' /\ (\A w \in rows : Described(w))'
  <1> USE DEF QuietInv
  <1>1. rows \subseteq Row
    BY DEF ReportInv, TypeOK
  <1>2. ASSUME NEW w \in rows
        PROVE  /\ Described(Stamp(w, bs))
               /\ Stamp(w, bs).id = w.id
               /\ RowHashes(Stamp(w, bs)) = RowHashes(w)
    <2>1. w \in Row /\ Sha(w.vec) # NoValue /\ Sha(w.meta) # NoValue
      BY <1>1, HashAssumption DEF Row
    <2>2. CASE \A b \in bs : b.id # w.id
      BY <2>2, StampIs
    <2>3. CASE \E b \in bs : b.id = w.id
      <3>1. Stamp(w, bs) = [w EXCEPT !.eh2 = Sha(w.vec), !.mh2 = Sha(w.meta)]
        BY <2>3, StampIs
      <3> QED
        <4>1. /\ Stamp(w, bs).meta = w.meta /\ Stamp(w, bs).mh = w.mh
              /\ Stamp(w, bs).vec = w.vec /\ Stamp(w, bs).id = w.id
              /\ Stamp(w, bs).eh2 = Sha(w.vec) /\ Stamp(w, bs).mh2 = Sha(w.meta)
          BY <2>1, <3>1 DEF Row
        <4>2. w.meta \in Metas /\ Jsonb[w.meta] = w.meta
          BY <2>1 DEF Row, Described
        <4> QED
          BY <2>1, <4>1, <4>2 DEF Described, RowHashes
    <2> QED
      BY <2>2, <2>3
  <1>3. \A x \in rows' : \E w \in rows : x = Stamp(w, bs)
    BY DEF Stamped
  <1>4. \A x \in rows' : Described(x)
    BY <1>2, <1>3
  <1>5. ASSUME NEW b \in batch', NEW x \in rows', b.id = x.id
        PROVE  b = RowHashes(x)
    BY <1>2, <1>3, <1>5 DEF BatchDescribes
  <1>6. IsFiniteSet(batch')
    BY FS_Subset DEF BatchDescribes
  <1>7. BatchDescribes'
    BY <1>5, <1>6 DEF BatchDescribes, RowHashes
  <1> QED
    BY <1>4, <1>7 DEF Described

\* The UPDATE of a batch lets no two rows into the index under one key: of two
\* rows that would end up with one, the later in the order collides.
LEMMA UpdateKeepsUnique ==
    ASSUME QuietInv, NEW order \in VisitOrders(batch), ~UpdateCollides(batch, order),
           NEW w \in rows, NEW x \in rows, SameV2(Stamp(w, batch), Stamp(x, batch))
    PROVE  w = x
  <1> USE DEF QuietInv
  <1> SUFFICES ASSUME w # x PROVE FALSE
    OBVIOUS
  <1>1. w.id # x.id
    BY DEF ReportInv, IdsOnce
  <1>2. \A b \in batch : order[b] \in Int
    BY FS_CardinalityType DEF VisitOrders, BatchDescribes
  <1>3. \A b, c \in batch : order[b] = order[c] => b = c
    BY DEF VisitOrders
  <1>4. ASSUME NEW u \in rows, NEW v \in rows, NEW b \in batch, u.id = b.id, v.id # b.id,
               SameV2(Stamp(u, batch), Stamp(v, batch)),
               \A c \in batch : c.id = v.id => order[c] < order[b]
        PROVE  FALSE
    <2> DEFINE earlier == {c \in batch : order[c] < order[b]}
    <2>1. Stamp(v, earlier) = Stamp(v, batch)
      <3>1. CASE \A c \in batch : c.id # v.id
        <4>1. Stamp(v, earlier) = v /\ Stamp(v, batch) = v
          BY <3>1 DEF Stamp
        <4> QED
          BY <4>1
      <3>2. CASE \E c \in batch : c.id = v.id
        <4>1. PICK c \in batch : c.id = v.id
          BY <3>2
        <4>2. c \in earlier
          BY <1>4, <4>1
        <4> QED
          BY <4>1, <4>2, StampIs
      <3> QED
        BY <3>1, <3>2
    <2> QED
      BY <1>4, <2>1 DEF UpdateCollides
  <1>5. SameV2(Stamp(x, batch), Stamp(w, batch))
    BY SameV2Symmetric
  <1>6. CASE \A b \in batch : b.id # w.id /\ b.id # x.id
    <2>1. Stamp(w, batch) = w /\ Stamp(x, batch) = x
      BY <1>6 DEF Stamp
    <2> QED
      BY <2>1 DEF V2Unique
  <1>7. CASE (\A b \in batch : b.id # w.id) /\ \E c \in batch : c.id = x.id
    BY <1>1, <1>4, <1>5, <1>7
  <1>8. CASE (\A b \in batch : b.id # x.id) /\ \E c \in batch : c.id = w.id
    BY <1>1, <1>4, <1>8
  <1>9. CASE (\E b \in batch : b.id = w.id) /\ \E c \in batch : c.id = x.id
    <2>1. PICK b \in batch, c \in batch : b.id = w.id /\ c.id = x.id
      BY <1>9
    <2>2. /\ \A d \in batch : d.id = w.id => d = b
          /\ \A d \in batch : d.id = x.id => d = c
      BY <2>1 DEF BatchDescribes
    <2>3. order[b] < order[c] \/ order[c] < order[b]
      BY <1>1, <1>2, <1>3, <2>1
    <2> QED
      BY <1>1, <1>4, <1>5, <2>1, <2>2, <2>3
  <1> QED
    BY <1>6, <1>7, <1>8, <1>9

LEMMA QuietSelectKeeps ==
    ASSUME QuietInv, SelectBatch
    PROVE  QuietInv'
  <1> USE DEF QuietInv
  <1>1. ReportInv' /\ UNCHANGED <<rows, issued>>
    BY SelectBatchKeeps DEF SelectBatch
  <1>2. CASE batch' = batch
    BY <1>1, <1>2 DEF V2Unique, BatchDescribes, Described, SameV2, Indexed
  <1>3. CASE batch' = {RowHashes(w) : w \in FirstPending}
    <2>1. FirstPending \subseteq rows /\ IsFiniteSet(rows)
      BY DEF FirstPending, Pending, ReportInv
    <2>2. IsFiniteSet(batch')
      <3> DEFINE f == [w \in FirstPending |-> RowHashes(w)]
      <3>1. f \in Surjection(FirstPending, batch')
        BY <1>3, Fun_IsSurj
      <3>2. IsFiniteSet(FirstPending)
        BY <2>1, FS_Subset
      <3> HIDE DEF f
      <3> QED
        BY <3>1, <3>2, FS_Surjection
    <2>3. /\ \A w \in rows : w.id \in issued
          /\ \A w, x \in rows : w.id = x.id => w = x
      BY DEF ReportInv, IdsOnce
    <2>4. \A b \in batch' : \E w \in rows : b = RowHashes(w) /\ b.id = w.id
      BY <1>3, <2>1 DEF RowHashes
    <2>5. BatchDescribes'
      BY <1>1, <2>2, <2>3, <2>4 DEF BatchDescribes
    <2> QED
      BY <1>1, <2>5 DEF V2Unique, Described, SameV2, Indexed
  <1> QED
    BY <1>2, <1>3 DEF SelectBatch

LEMMA QuietUpdateKeeps ==
    ASSUME QuietInv, UpdateBatch
    PROVE  QuietInv'
  <1> USE DEF QuietInv
  <1>1. ReportInv' /\ issued' = issued
    BY UpdateBatchKeeps DEF UpdateBatch
  <1>2. CASE UNCHANGED <<rows, batch>>
    BY <1>1, <1>2 DEF V2Unique, BatchDescribes, Described, SameV2, Indexed
  <1>3. CASE ~UNCHANGED <<rows, batch>>
    <2>1. PICK order \in VisitOrders(batch) : ~UpdateCollides(batch, order)
      BY <1>3 DEF UpdateBatch
    <2>2. rows' = Stamped(batch) /\ batch' = {}
      BY <1>3 DEF UpdateBatch
    <2>3. BatchDescribes' /\ (\A w \in rows : Described(w))'
      BY <1>1, <2>2, StampedDescribes
    <2>4. \A y, z \in rows' : SameV2(y, z) => y = z
      BY <2>1, <2>2, UpdateKeepsUnique DEF Stamped
    <2>5. V2Unique'
      BY <2>4 DEF V2Unique, SameV2, Indexed
    <2> QED
      BY <1>1, <2>3, <2>5
  <1> QED
    BY <1>2, <1>3

LEMMA QuietRetryKeeps ==
    ASSUME QuietInv, RetryRow
    PROVE  QuietInv'
  <1> USE DEF QuietInv
  <1>1. ReportInv' /\ issued' = issued
    BY RetryRowKeeps DEF RetryRow
  <1>2. PICK b \in batch :
           /\ batch' = batch \ {b}
           /\ \/ rows' = rows
              \/ /\ \A w \in rows : w.id = b.id => ~CollidesV2(Stamp(w, {b}))
                 /\ rows' = Stamped({b})
    BY DEF RetryRow
  <1>3. CASE rows' = rows
    <2>1. IsFiniteSet(batch')
      BY <1>2, FS_Subset DEF BatchDescribes
    <2> QED
      BY <1>1, <1>2, <1>3, <2>1 DEF V2Unique, BatchDescribes, Described, SameV2, Indexed
  <1>4. CASE /\ \A w \in rows : w.id = b.id => ~CollidesV2(Stamp(w, {b}))
             /\ rows' = Stamped({b})
    <2>1. BatchDescribes' /\ (\A w \in rows : Described(w))'
      BY <1>1, <1>2, <1>4, StampedDescribes
    <2>2. \A w \in rows : w.id # b.id => Stamp(w, {b}) = w
      BY StampIs
    <2>3. \A w \in rows : Stamp(w, {b}).id = w.id
      BY StampType DEF ReportInv, TypeOK
    <2>4. \A w, x \in rows : w.id = x.id => w = x
      BY DEF ReportInv, IdsOnce
    <2>5. ASSUME NEW w \in rows, NEW x \in rows, w.id = b.id, x.id # b.id
          PROVE  ~SameV2(Stamp(w, {b}), Stamp(x, {b})) /\ ~SameV2(Stamp(x, {b}), Stamp(w, {b}))
      BY <1>4, <2>2, <2>3, <2>5, SameV2Symmetric DEF CollidesV2, Others
    <2>6. \A w, x \in rows : SameV2(Stamp(w, {b}), Stamp(x, {b})) => w = x
      BY <2>2, <2>4, <2>5 DEF V2Unique
    <2>7. \A y, z \in rows' : SameV2(y, z) => y = z
      BY <1>4, <2>6 DEF Stamped
    <2>8. V2Unique'
      BY <2>7 DEF V2Unique, SameV2, Indexed
    <2> QED
      BY <1>1, <2>1, <2>8
  <1> QED
    BY <1>2, <1>3, <1>4

LEMMA QuietInit == Init => QuietInv
  BY ReportInit, FS_EmptySet DEF Init, QuietInv, V2Unique, BatchDescribes

LEMMA QuietNext == Quiet /\ QuietInv /\ [Next]_vars => QuietInv'
  <1> SUFFICES ASSUME Quiet, QuietInv, [Next]_vars PROVE QuietInv'
    OBVIOUS
  <1>1. CASE Pods
    BY <1>1, QuietPodsKeep
  <1>2. CASE Backfill
    BY <1>2, QuietSelectKeeps, QuietUpdateKeeps, QuietRetryKeeps DEF Backfill
  <1>3. CASE Deploy \/ StartBackfill \/ Interrupt \/ UNCHANGED vars
    <2>1. ReportInv'
      BY ReportNext DEF QuietInv
    <2>2. UNCHANGED <<rows, issued>> /\ (batch' = batch \/ batch' = {})
      BY <1>3 DEF Deploy, StartBackfill, Interrupt, vars, bf
    <2> QED
      BY <2>1, <2>2, FS_EmptySet
         DEF QuietInv, V2Unique, BatchDescribes, Described, SameV2, Indexed
  <1> QED
    BY <1>1, <1>2, <1>3 DEF Next

LEMMA QuietInvariant == ASSUME Quiet PROVE Spec => []QuietInv
  <1>1. QuietInv /\ [Next]_vars => QuietInv'
    BY QuietNext
  <1> QED
    BY <1>1, QuietInit, PTL DEF Spec

\* Where nothing is updated in place, a v2 hash describes the content of its row:
\* what the script computed still holds when it writes it, in a later transaction.
THEOREM HashesAreTrue == ASSUME Quiet PROVE Spec => []HashesDescribeContent
  <1>1. QuietInv => HashesDescribeContent
    BY DEF QuietInv, Described, HashesDescribeContent
  <1> QED
    BY <1>1, QuietInvariant, PTL

\* Where nothing is updated in place, a run that reports no collision leaves no
\* two rows of the previous release with the same content, nor any two rows whose
\* metadata only one text is stored as: every row is hashed (ReportComplete), each
\* hash is its row's (Described), and the index admits one row of each (V2Unique).
THEOREM CleanReportIsDeduplicated == ASSUME Quiet PROVE Spec => []CleanReportMeansNoTwins
  <1>1. ASSUME QuietInv, pc = "done", collisions = {}, NEW w \in rows, NEW x \in rows,
               SameContent(w, x),
               OneText(w.meta) \/ (WrittenByOld(w) /\ WrittenByOld(x))
        PROVE  w = x
    <2>1. w.eh2 # NoValue /\ x.eh2 # NoValue
      BY <1>1 DEF QuietInv, ReportInv, ScanInv, ReportComplete
    <2>2. Described(w) /\ Described(x)
      BY <1>1 DEF QuietInv
    <2>3. /\ w.table = x.table /\ w.authz = x.authz
          /\ w.vec = x.vec /\ w.meta = x.meta
      BY <1>1 DEF SameContent
    <2>4. w.mh2 = Sha(w.meta) /\ x.mh2 = Sha(x.meta)
      BY <1>1, <2>1, <2>2, <2>3 DEF Described, OneText
    <2>5. w.eh2 = Sha(w.vec) /\ x.eh2 = Sha(x.vec) /\ w.mh2 # NoValue /\ x.mh2 # NoValue
      BY <2>1, <2>2 DEF Described
    <2>6. SameV2(w, x)
      BY <2>1, <2>3, <2>4, <2>5 DEF SameV2, Indexed
    <2> QED
      BY <1>1, <2>6 DEF QuietInv, V2Unique
  <1>2. QuietInv => CleanReportMeansNoTwins
    BY <1>1 DEF CleanReportMeansNoTwins
  <1> QED
    BY <1>2, QuietInvariant, PTL

\* Where nothing is updated in place, a row is reported only while another row
\* with the same content is in the table.
THEOREM ReportsAreHonest == ASSUME Quiet PROVE Spec => CollisionsHonest
  <1>1. ASSUME QuietInv, [Next]_vars, pc = "retry", NEW i \in collisions' \ collisions
        PROVE  \E w, x \in rows : w.id = i /\ x # w /\ SameContent(w, x)
    <2>1. RetryRow
      <3>1. Pods => collisions' = collisions
        BY <1>1, PodStep DEF QuietInv, ReportInv, TypeOK, bf
      <3>2. ~(Deploy \/ StartBackfill \/ Interrupt \/ SelectBatch \/ UpdateBatch \/ UNCHANGED vars)
        BY <1>1 DEF Deploy, StartBackfill, Interrupt, SelectBatch, UpdateBatch, vars, bf
      <3> QED
        BY <1>1, <3>1, <3>2 DEF Next, Backfill
    <2>2. PICK b \in batch, w \in rows :
             w.id = b.id /\ b.id = i /\ CollidesV2(Stamp(w, {b}))
      BY <1>1, <2>1 DEF RetryRow, WithCollision
    <2>3. w \in Row
      BY <1>1 DEF QuietInv, ReportInv, TypeOK
    <2>4. Stamp(w, {b}) = [w EXCEPT !.eh2 = Sha(w.vec), !.mh2 = Sha(w.meta)]
      BY <1>1, <2>2, StampIs
    <2>5. PICK x \in rows : x.id # w.id /\ SameV2(Stamp(w, {b}), x)
      BY <2>2, <2>3, <2>4 DEF CollidesV2, Others, Row
    <2>6. x \in Row /\ x.eh2 = Sha(x.vec) /\ Jsonb[w.meta] = w.meta
      BY <1>1, <2>2, <2>5 DEF QuietInv, ReportInv, TypeOK, Described, SameV2, Indexed
    <2>m. PICK m \in Metas : Jsonb[m] = x.meta /\ x.mh2 = Sha(m)
      BY <1>1, <2>5 DEF QuietInv, Described, SameV2, Indexed
    <2>7. /\ w.table = x.table /\ w.authz = x.authz
          /\ Sha(w.vec) = Sha(x.vec) /\ Sha(w.meta) = Sha(m)
      BY <2>3, <2>4, <2>5, <2>6, <2>m DEF SameV2, Row
    <2>8. SameContent(w, x)
      BY <2>6, <2>7, <2>m DEF SameContent, Sha
    <2> QED
      BY <2>2, <2>5, <2>8
  <1>2. QuietInv /\ [Next]_vars =>
          (pc = "retry" => \A i \in collisions' \ collisions :
             \E w, x \in rows : w.id = i /\ x # w /\ SameContent(w, x))
    BY <1>1
  <1> QED
    BY <1>2, QuietInvariant, PTL DEF Spec, CollisionsHonest
=============================================================================
