-------------------------- MODULE VectorStoreProofs --------------------------
(***************************************************************************)
(* Proofs about VectorStore for any number of clients, names, vectors and  *)
(* requests: type correctness, RowsFitCollection, NoTwins and the action   *)
(* properties GrantsBoundChanges, ChecksCoverChanges, AnswerMatchesRequest.*)
(***************************************************************************)
EXTENDS VectorStore, WellFoundedInduction, FiniteSetTheorems, TLAPS

-----------------------------------------------------------------------------
(* Type correctness.  TypeOK is split into what the database holds and what *)
(* the handlers hold; a handler past its lookup holds a Collection.         *)

DbType ==
    /\ collections \subseteq Collection
    /\ nextId \in 1..(MaxCollections + 1)
    /\ rows \subseteq Row
    /\ nextUuid \in 1..(MaxRows + 1)

Holds(c) == phase[c] \in {"require", "write"} /\ req[c].op \in EmbeddingOps

HandlerType ==
    /\ req \in [Clients -> Requests \cup {NoValue}]
    /\ phase \in [Clients -> Phases]
    /\ grants \in [Clients -> SUBSET Paths]
    /\ asked \in [Clients -> SUBSET (Actions \X Paths)]
    /\ held \in [Clients -> Collection \cup {NoValue}]
    /\ \A c \in Clients : phase[c] # "idle" => req[c] \in Requests
    /\ \A c \in Clients : phase[c] = "require" => req[c].authz # NoValue
    /\ \A c \in Clients : Holds(c) => held[c] \in Collection

TypeInv == DbType /\ HandlerType

\* What the request schemas give of a request.
LEMMA RequestFields ==
    ASSUME NEW r \in Requests
    PROVE  /\ r.op \in EmbeddingOps \cup CollectionOps
           /\ r.name \in Names
           /\ r.items \in Seq(Item)
           /\ r.authz \in Paths \cup {NoValue}
           /\ r.id \in Uuids \cup {NoValue}
           /\ r.vec \in Vectors \cup {NoValue}
           /\ r.meta \in Metas \cup {NoValue}
           /\ r.desc \in Descriptions \cup {NoValue}
           /\ r.op = "create_collection" => r.dims \in Dims /\ r.vtype \in VTypes
  <1>1. r \in Request
    BY RequestAssumption
  <1>2. r.op = "create_collection" => r.dims \in Dims /\ r.vtype \in VTypes
    BY RequestAssumption
  <1> QED
    BY <1>1, <1>2 DEF Request

\* The authz path a bulk write stores is a path.
LEMMA BodyAuthzType ==
    ASSUME NEW r \in Requests
    PROVE  BodyAuthz(r) \in Paths
  BY RequestFields, PathAssumption DEF BodyAuthz

\* What is stored of a vector that passed to_storage_array is a vector.
LEMMA StoredType ==
    ASSUME NEW k \in Collection, NEW v, Storable(k, v)
    PROVE  /\ v \in Vectors
           /\ Stored[k.vtype][v] \in Vectors
           /\ DimOf[Stored[k.vtype][v]] = k.dims
           /\ Stored[k.vtype][Stored[k.vtype][v]] = Stored[k.vtype][v]
  <1>1. k.vtype \in VTypes
    BY DEF Collection
  <1> QED
    BY <1>1, VectorAssumption DEF Storable

\* A storable item becomes a row.
LEMMA AsRowType ==
    ASSUME NEW k \in Collection, NEW item \in Item, Storable(k, item.vec),
           NEW a \in Paths, NEW u \in Uuids
    PROVE  AsRow(k, item, a, u) \in Row
  <1>1. Stored[k.vtype][item.vec] \in Vectors
    BY StoredType
  <1>2. k.vtype \in VTypes /\ k.id \in Ids /\ item.meta \in Metas
    BY DEF Collection, Item
  <1> QED
    BY <1>1, <1>2 DEF AsRow, Row

\* What every answer does to the handler, whatever its status.
Finished(c) ==
    /\ phase' = [phase EXCEPT ![c] = "idle"]
    /\ req' = [req EXCEPT ![c] = NoValue]
    /\ grants' = [grants EXCEPT ![c] = {}]
    /\ asked' = [asked EXCEPT ![c] = {}]
    /\ held' = [held EXCEPT ![c] = NoValue]

LEMMA FinishIsFinished ==
    ASSUME NEW c, NEW s, NEW e, Finish(c, s, e)
    PROVE  Finished(c)
  BY DEF Finish, Finished

\* A handler that answers leaves well-typed handlers behind.
LEMMA FinishType ==
    ASSUME HandlerType, NEW c \in Clients, Finished(c)
    PROVE  HandlerType'
  <1>1. /\ req' \in [Clients -> Requests \cup {NoValue}]
        /\ phase' \in [Clients -> Phases]
        /\ grants' \in [Clients -> SUBSET Paths]
        /\ asked' \in [Clients -> SUBSET (Actions \X Paths)]
        /\ held' \in [Clients -> Collection \cup {NoValue}]
    BY DEF HandlerType, Finished, Phases
  <1>2. ASSUME NEW d \in Clients, phase'[d] # "idle"
        PROVE  d # c /\ phase'[d] = phase[d] /\ req'[d] = req[d] /\ held'[d] = held[d]
    BY <1>2 DEF HandlerType, Finished
  <1>3. \A d \in Clients : phase'[d] # "idle" => req'[d] \in Requests
    BY <1>2 DEF HandlerType
  <1>4. \A d \in Clients : Holds(d)' => held'[d] \in Collection
    BY <1>2 DEF HandlerType, Holds
  <1>5. \A d \in Clients : phase'[d] = "require" => req'[d].authz # NoValue
    BY <1>2 DEF HandlerType
  <1> QED
    BY <1>1, <1>3, <1>4, <1>5 DEF HandlerType

\* The resources a request is checked for are actions on paths.
LEMMA DemandedType ==
    ASSUME NEW op \in EmbeddingOps \cup CollectionOps
    PROVE  Demanded(op) \subseteq Actions
  BY DEF Demanded, Declared, Actions, EmbeddingOps, CollectionOps

\* The steps of a handler before its last leave well-typed handlers behind.
LEMMA SendType ==
    ASSUME HandlerType, NEW c \in Clients, NEW r \in Requests, Send(c, r)
    PROVE  HandlerType'
  <1>1. \A d \in Clients : d # c =>
           phase'[d] = phase[d] /\ req'[d] = req[d] /\ held'[d] = held[d]
    BY DEF HandlerType, Send
  <1>2. phase'[c] = "arrived" /\ req'[c] = r
    BY DEF HandlerType, Send
  <1>3. /\ req' \in [Clients -> Requests \cup {NoValue}]
        /\ phase' \in [Clients -> Phases]
        /\ grants' = grants /\ asked' = asked /\ held' = held
    BY DEF HandlerType, Send, Phases
  <1> QED
    BY <1>1, <1>2, <1>3 DEF HandlerType, Holds

LEMMA AuthzType ==
    ASSUME HandlerType, NEW c \in Clients, NEW allowed \in GrantSets,
           NEW granted \in BOOLEAN, Authz(c, allowed, granted)
    PROVE  HandlerType'
  <1>1. CASE NamedInPath(req[c].op) /\ ~SkipAuth /\ ~granted
    <2>1. Finish(c, 403, <<>>)
      BY <1>1 DEF Authz
    <2> QED
      BY <2>1, FinishIsFinished, FinishType
  <1>2. CASE ~(NamedInPath(req[c].op) /\ ~SkipAuth /\ ~granted)
    <2>1. req[c] \in Requests
      BY DEF Authz, HandlerType
    <2>2. req[c].op \in EmbeddingOps \cup CollectionOps /\ req[c].name \in Names
      BY <2>1, RequestFields
    <2>3. Demanded(req[c].op) \X {PathOf[req[c].name]} \in SUBSET (Actions \X Paths)
      BY <2>2, DemandedType, PathAssumption
    <2>4. asked' \in [Clients -> SUBSET (Actions \X Paths)]
      BY <1>2, <2>3 DEF Authz, HandlerType
    <2>5. grants' \in [Clients -> SUBSET Paths]
      BY <1>2, PathAssumption DEF Authz, HandlerType
    <2>6. /\ phase' = [phase EXCEPT ![c] =
                         IF req[c].op \in EmbeddingOps THEN "lookup" ELSE "write"]
          /\ req' = req /\ held' = held
      BY <1>2 DEF Authz
    <2>7. CASE req[c].op \in EmbeddingOps
      <3>1. phase' = [phase EXCEPT ![c] = "lookup"]
        BY <2>6, <2>7
      <3>2. /\ phase' \in [Clients -> Phases]
            /\ phase'[c] = "lookup"
            /\ \A d \in Clients : d # c => phase'[d] = phase[d]
        BY <3>1 DEF HandlerType, Phases
      <3> QED
        BY <2>1, <2>4, <2>5, <2>6, <3>2 DEF HandlerType, Holds
    <2>8. CASE req[c].op \notin EmbeddingOps
      <3>1. phase' = [phase EXCEPT ![c] = "write"]
        BY <2>6, <2>8
      <3>2. /\ phase' \in [Clients -> Phases]
            /\ phase'[c] = "write"
            /\ \A d \in Clients : d # c => phase'[d] = phase[d]
        BY <3>1 DEF HandlerType, Phases
      <3> QED
        BY <2>1, <2>4, <2>5, <2>6, <2>8, <3>2 DEF HandlerType, Holds
    <2> QED
      BY <2>7, <2>8
  <1> QED
    BY <1>1, <1>2

LEMMA GetCollectionByNameType ==
    ASSUME TypeInv, NEW c \in Clients, GetCollectionByName(c)
    PROVE  HandlerType'
  <1> DEFINE found == {k \in collections : k.name = req[c].name /\ NameAllowed(c, k.name)}
  <1>1. CASE found = {}
    BY <1>1, FinishIsFinished, FinishType DEF TypeInv, GetCollectionByName
  <1>2. CASE found # {}
    <2>1. PICK k \in found : held' = [held EXCEPT ![c] = k]
      BY <1>2 DEF GetCollectionByName
    <2>2. k \in Collection
      BY DEF TypeInv, DbType
    <2>3. req[c] \in Requests
      BY DEF GetCollectionByName, TypeInv, HandlerType
    <2>4. NeedsRequire(req[c]) => req[c].authz # NoValue
      BY DEF NeedsRequire, BodyAuthz
    <2>5. /\ phase' = [phase EXCEPT ![c] =
                         IF NeedsRequire(req[c]) THEN "require" ELSE "write"]
          /\ req' = req /\ grants' = grants /\ asked' = asked
      BY <1>2 DEF GetCollectionByName
    <2>6. held' \in [Clients -> Collection \cup {NoValue}] /\ held'[c] = k
      BY <2>1, <2>2 DEF TypeInv, HandlerType
    <2>7. phase' \in [Clients -> Phases]
      BY <2>5 DEF TypeInv, HandlerType, Phases
    <2>8. \A d \in Clients : d # c => phase'[d] = phase[d] /\ held'[d] = held[d]
      BY <2>1, <2>5 DEF TypeInv, HandlerType
    <2>9. phase'[c] = "require" => req[c].authz # NoValue
      BY <2>4, <2>5 DEF TypeInv, HandlerType
    <2> QED
      BY <2>2, <2>3, <2>5, <2>6, <2>7, <2>8, <2>9 DEF TypeInv, HandlerType, Holds
  <1> QED
    BY <1>1, <1>2

LEMMA RequireType ==
    ASSUME HandlerType, NEW c \in Clients, NEW granted \in BOOLEAN, Require(c, granted)
    PROVE  HandlerType'
  <1>1. CASE ~SkipAuth /\ ~granted
    BY <1>1, FinishIsFinished, FinishType DEF Require
  <1>2. CASE ~(~SkipAuth /\ ~granted)
    <2>1. req[c] \in Requests /\ phase[c] = "require" /\ req[c].authz # NoValue
      BY DEF Require, HandlerType
    <2>2. /\ req[c].op \in EmbeddingOps \cup CollectionOps
          /\ req[c].authz \in Paths
      BY <2>1, RequestFields
    <2>3. Demanded(req[c].op) \X {req[c].authz} \in SUBSET (Actions \X Paths)
      BY <2>2, DemandedType
    <2>4. asked' \in [Clients -> SUBSET (Actions \X Paths)]
      BY <1>2, <2>3 DEF Require, HandlerType
    <2>5. /\ phase' \in [Clients -> Phases] /\ phase'[c] = "write"
          /\ \A d \in Clients : d # c => phase'[d] = phase[d]
          /\ req' = req /\ grants' = grants /\ held' = held
      BY <1>2 DEF Require, HandlerType, Phases
    <2> QED
      BY <2>1, <2>4, <2>5 DEF HandlerType, Holds
  <1> QED
    BY <1>1, <1>2

\* The steps that end a handler.
LEMMA LastStepFinishes ==
    ASSUME NEW c \in Clients,
           \/ CreateCollection(c) \/ UpdateCollection(c) \/ DeleteCollection(c)
           \/ CreateEmbeddingsBulk(c) \/ UpsertEmbeddingsBulk(c) \/ UpdateEmbedding(c)
           \/ DeleteEmbedding(c) \/ GetEmbedding(c) \/ QueryFails(c)
    PROVE  Finished(c)
  <1> USE FinishIsFinished
  <1>1. CASE CreateCollection(c)
    BY <1>1 DEF CreateCollection
  <1>2. CASE UpdateCollection(c)
    BY <1>2 DEF UpdateCollection
  <1>3. CASE DeleteCollection(c)
    BY <1>3 DEF DeleteCollection
  <1>4. CASE CreateEmbeddingsBulk(c)
    BY <1>4 DEF CreateEmbeddingsBulk
  <1>5. CASE UpsertEmbeddingsBulk(c)
    BY <1>5 DEF UpsertEmbeddingsBulk
  <1>6. CASE UpdateEmbedding(c)
    BY <1>6 DEF UpdateEmbedding
  <1>7. CASE DeleteEmbedding(c)
    BY <1>7 DEF DeleteEmbedding
  <1>8. CASE GetEmbedding(c)
    BY <1>8 DEF GetEmbedding
  <1>9. CASE QueryFails(c)
    BY <1>9 DEF QueryFails
  <1> QED
    BY <1>1, <1>2, <1>3, <1>4, <1>5, <1>6, <1>7, <1>8, <1>9

\* The rows an INSERT adds are rows, under ids never handed out before.
LEMMA InsertedType ==
    ASSUME NEW k \in Collection, NEW a \in Paths, NEW items \in Seq(Item),
           NEW ps \in SUBSET DOMAIN items, NEW table,
           \A p \in ps : Storable(k, items[p].vec),
           nextUuid \in 1..(MaxRows + 1), nextUuid + Len(items) - 1 \in Uuids
    PROVE  Inserted(table, k, a, items, ps) \subseteq Row
  <1>1. SUFFICES ASSUME NEW p \in ps
                 PROVE  AsRow(k, items[p], a, nextUuid + p - 1) \in Row
    BY <1>1 DEF Inserted, Firsts, HashPair
  <1>2. p \in 1..Len(items) /\ items[p] \in Item
    OBVIOUS
  <1>3. nextUuid + p - 1 \in Uuids
    BY <1>2, BoundAssumption DEF Uuids
  <1> QED
    BY <1>2, <1>3, AsRowType

\* The rows an UPDATE by id leaves are rows.
LEMMA UpdatedType ==
    ASSUME rows \subseteq Row, NEW k \in Collection, NEW a \in Paths, NEW items \in Seq(Item),
           NEW named, \A p \in DOMAIN items : Storable(k, items[p].vec)
    PROVE  Updated(k, a, items, named) \subseteq Row
  <1>1. SUFFICES ASSUME NEW p \in ById(items)
                 PROVE  AsRow(k, items[p], a, items[p].id) \in Row
    BY <1>1 DEF Updated
  <1>2. p \in DOMAIN items /\ items[p] \in Item /\ items[p].id # NoValue
    BY DEF ById
  <1>3. items[p].id \in Uuids
    BY <1>2 DEF Item
  <1> QED
    BY <1>2, <1>3, AsRowType

\* A handler about to write an embedding has a request and a Collection.
LEMMA WritingType ==
    ASSUME HandlerType, NEW c \in Clients, NEW op \in EmbeddingOps, Writing(c, op)
    PROVE  req[c] \in Requests /\ req[c].op = op /\ held[c] \in Collection
  BY DEF HandlerType, Writing, Holds

\* The writes of collections leave the tables well-typed.
LEMMA CollectionStepType ==
    ASSUME TypeInv, NEW c \in Clients,
           CreateCollection(c) \/ UpdateCollection(c) \/ DeleteCollection(c)
    PROVE  DbType'
  <1>1. CASE CreateCollection(c)
    <2>1. req[c] \in Requests /\ req[c].op = "create_collection"
      BY <1>1 DEF CreateCollection, Writing, TypeInv, HandlerType
    <2>2. /\ req[c].name \in Names /\ req[c].dims \in Dims /\ req[c].vtype \in VTypes
          /\ req[c].desc \in Descriptions \cup {NoValue}
      BY <2>1, RequestFields
    <2> DEFINE k == [id |-> nextId, name |-> req[c].name, dims |-> req[c].dims,
                     vtype |-> req[c].vtype, desc |-> req[c].desc]
    <2>3. nextId \in Ids => k \in Collection
      BY <2>2 DEF Collection
    <2>4. collections' \subseteq Collection
      BY <1>1, <2>3 DEF CreateCollection, TypeInv, DbType, db
    <2>5. nextId' \in 1..(MaxCollections + 1)
      BY <1>1, BoundAssumption DEF CreateCollection, TypeInv, DbType, Ids, db
    <2>6. rows' = rows /\ nextUuid' = nextUuid
      BY <1>1 DEF CreateCollection, db
    <2> QED
      BY <2>4, <2>5, <2>6 DEF TypeInv, DbType
  <1>2. CASE UpdateCollection(c)
    <2>1. req[c].desc \in Descriptions \cup {NoValue}
      BY <1>2, RequestFields DEF UpdateCollection, Writing, TypeInv, HandlerType
    <2>2. \A k \in Collection : [k EXCEPT !.desc = req[c].desc] \in Collection
      BY <2>1 DEF Collection
    <2>3. collections' \subseteq Collection
      BY <1>2, <2>2 DEF UpdateCollection, TypeInv, DbType
    <2> QED
      BY <1>2, <2>3 DEF UpdateCollection, TypeInv, DbType
  <1>3. CASE DeleteCollection(c)
    BY <1>3 DEF DeleteCollection, TypeInv, DbType
  <1> QED
    BY <1>1, <1>2, <1>3

\* So do the writes of embeddings.
LEMMA CreateEmbeddingsBulkType ==
    ASSUME TypeInv, NEW c \in Clients, CreateEmbeddingsBulk(c)
    PROVE  DbType'
  <1> DEFINE r == req[c]
             a == BodyAuthz(r)
             ps == DOMAIN r.items
             new == Inserted(rows, held[c], a, r.items, ps)
  <1>1. r \in Requests /\ held[c] \in Collection
    BY WritingType DEF CreateEmbeddingsBulk, TypeInv, EmbeddingOps, Writing
  <1>2. r.items \in Seq(Item) /\ a \in Paths
    BY <1>1, RequestFields, BodyAuthzType
  <1>3. collections' = collections /\ nextId' = nextId
    BY DEF CreateEmbeddingsBulk
  <1>4. CASE rows' = rows /\ nextUuid' = nextUuid
    BY <1>3, <1>4 DEF TypeInv, DbType
  <1>5. CASE ~(rows' = rows /\ nextUuid' = nextUuid)
    <2>1. /\ \A p \in ps : Storable(held[c], r.items[p].vec)
          /\ nextUuid + Len(r.items) - 1 \in Uuids
          /\ rows' = rows \cup new
          /\ UseUuids(new, r.items)
      BY <1>5 DEF CreateEmbeddingsBulk
    <2>2. new \subseteq Row
      BY <1>1, <1>2, <2>1, InsertedType DEF TypeInv, DbType
    <2>3. nextUuid' \in 1..(MaxRows + 1)
      BY <1>2, <2>1, BoundAssumption DEF UseUuids, Uuids, TypeInv, DbType
    <2> QED
      BY <1>3, <2>1, <2>2, <2>3 DEF TypeInv, DbType
  <1> QED
    BY <1>4, <1>5

LEMMA UpsertEmbeddingsBulkType ==
    ASSUME TypeInv, NEW c \in Clients, UpsertEmbeddingsBulk(c)
    PROVE  DbType'
  <1> DEFINE r == req[c]
             a == BodyAuthz(r)
             byContent == DOMAIN r.items \ ById(r.items)
             named == UNION {Target(c, held[c], r.items[p].id) : p \in ById(r.items)}
             updated == Updated(held[c], a, r.items, named)
             new == Inserted(updated, held[c], a, r.items, byContent)
  <1>1. r \in Requests /\ held[c] \in Collection
    BY WritingType DEF UpsertEmbeddingsBulk, TypeInv, EmbeddingOps, Writing
  <1>2. r.items \in Seq(Item) /\ a \in Paths
    BY <1>1, RequestFields, BodyAuthzType
  <1>3. collections' = collections /\ nextId' = nextId
    BY DEF UpsertEmbeddingsBulk
  <1>4. CASE rows' = rows /\ nextUuid' = nextUuid
    BY <1>3, <1>4 DEF TypeInv, DbType
  <1>5. CASE ~(rows' = rows /\ nextUuid' = nextUuid)
    <2>1. /\ \A p \in DOMAIN r.items : Storable(held[c], r.items[p].vec)
          /\ nextUuid + Len(r.items) - 1 \in Uuids \/ new = {}
          /\ rows' = updated \cup new
          /\ UseUuids(new, r.items)
      BY <1>5 DEF UpsertEmbeddingsBulk
    <2>2. updated \subseteq Row
      BY <1>1, <1>2, <2>1, UpdatedType DEF TypeInv, DbType
    <2>3. CASE new = {}
      BY <1>3, <2>1, <2>2, <2>3 DEF UseUuids, TypeInv, DbType
    <2>4. CASE new # {}
      <3>1. /\ byContent \in SUBSET DOMAIN r.items
            /\ \A p \in byContent : Storable(held[c], r.items[p].vec)
            /\ nextUuid \in 1..(MaxRows + 1)
            /\ nextUuid + Len(r.items) - 1 \in Uuids
        BY <2>1, <2>4 DEF TypeInv, DbType
      <3>2. new \subseteq Row
        <4> HIDE DEF r, a, byContent, updated
        <4> QED
          BY <1>1, <1>2, <3>1, InsertedType
      <3>3. nextUuid' = nextUuid + Len(r.items)
        BY <2>1, <2>4 DEF UseUuids
      <3>4. Len(r.items) \in Nat
        BY <1>2
      <3>5. nextUuid' \in 1..(MaxRows + 1)
        <4> HIDE DEF r
        <4> QED
          BY <3>1, <3>3, <3>4, BoundAssumption DEF Uuids
      <3> QED
        BY <1>3, <2>1, <2>2, <3>2, <3>5 DEF DbType, TypeInv
    <2> QED
      BY <2>3, <2>4
  <1> QED
    BY <1>4, <1>5

\* The row a single PUT writes in place of row w.
Merged(c, w) ==
    [w EXCEPT !.vec = IF req[c].vec = NoValue THEN @ ELSE Stored[held[c].vtype][req[c].vec],
              !.meta = IF req[c].meta = NoValue THEN @ ELSE req[c].meta,
              !.authz = IF req[c].authz = NoValue THEN @ ELSE req[c].authz]

LEMMA MergedType ==
    ASSUME NEW c \in Clients, NEW w \in Row, req[c] \in Requests, held[c] \in Collection,
           req[c].vec = NoValue \/ Storable(held[c], req[c].vec)
    PROVE  /\ Merged(c, w) \in Row
           /\ Merged(c, w).uuid = w.uuid /\ Merged(c, w).coll = w.coll
           /\ Merged(c, w).table = w.table
           /\ Merged(c, w).vec = IF req[c].vec = NoValue THEN w.vec
                                ELSE Stored[held[c].vtype][req[c].vec]
  <1>1. req[c].meta \in Metas \cup {NoValue} /\ req[c].authz \in Paths \cup {NoValue}
    BY RequestFields
  <1>2. req[c].vec # NoValue => Stored[held[c].vtype][req[c].vec] \in Vectors
    BY StoredType
  <1> QED
    BY <1>1, <1>2 DEF Merged, Row

LEMMA UpdateEmbeddingStep ==
    ASSUME NEW c \in Clients, UpdateEmbedding(c)
    PROVE  \/ rows' = rows
           \/ \E w \in Target(c, held[c], req[c].id) :
                 /\ req[c].vec = NoValue \/ Storable(held[c], req[c].vec)
                 /\ AuthzAllowed(c, Merged(c, w).authz)
                 /\ \A x \in rows : x # w => ~SameContent(x, Merged(c, w))
                 /\ rows' = (rows \ {w}) \cup {Merged(c, w)}
  BY DEF UpdateEmbedding, Merged

LEMMA UpdateEmbeddingType ==
    ASSUME TypeInv, NEW c \in Clients, UpdateEmbedding(c)
    PROVE  DbType'
  <1>1. req[c] \in Requests /\ held[c] \in Collection
    BY WritingType DEF UpdateEmbedding, TypeInv, EmbeddingOps, Writing
  <1>2. rows' \subseteq Row
    <2>1. CASE rows' = rows
      BY <2>1 DEF TypeInv, DbType
    <2>2. CASE rows' # rows
      <3>1. PICK w \in Target(c, held[c], req[c].id) :
               /\ req[c].vec = NoValue \/ Storable(held[c], req[c].vec)
               /\ rows' = (rows \ {w}) \cup {Merged(c, w)}
        BY <2>2, UpdateEmbeddingStep
      <3>2. w \in Row
        BY DEF Target, TypeInv, DbType
      <3>3. Merged(c, w) \in Row
        BY <1>1, <3>1, <3>2, MergedType
      <3> QED
        BY <3>1, <3>3 DEF TypeInv, DbType
    <2> QED
      BY <2>1, <2>2
  <1> QED
    BY <1>2 DEF UpdateEmbedding, TypeInv, DbType

\* TypeInv is inductive.
LEMMA InitType == Init => TypeInv
  BY BoundAssumption DEF Init, TypeInv, DbType, HandlerType, Holds, Phases

LEMMA NextType == TypeInv /\ [Next]_vars => TypeInv'
  <1> SUFFICES ASSUME TypeInv, [Next]_vars PROVE TypeInv'
    OBVIOUS
  <1>1. CASE UNCHANGED vars
    BY <1>1 DEF vars, TypeInv, DbType, HandlerType, Holds
  <1>2. ASSUME NEW c \in Clients, NEW r \in Requests, Send(c, r) PROVE TypeInv'
    BY <1>2, SendType DEF TypeInv, DbType, Send, db
  <1>3. ASSUME NEW c \in Clients, NEW allowed \in GrantSets, NEW granted \in BOOLEAN,
               Authz(c, allowed, granted)
        PROVE  TypeInv'
    BY <1>3, AuthzType DEF TypeInv, DbType, Authz, db
  <1>4. ASSUME NEW c \in Clients, GetCollectionByName(c) PROVE TypeInv'
    BY <1>4, GetCollectionByNameType DEF TypeInv, DbType, GetCollectionByName, db
  <1>5. ASSUME NEW c \in Clients, NEW granted \in BOOLEAN, Require(c, granted) PROVE TypeInv'
    BY <1>5, RequireType DEF TypeInv, DbType, Require, db
  <1>6. ASSUME NEW c \in Clients,
               CreateCollection(c) \/ UpdateCollection(c) \/ DeleteCollection(c)
        PROVE  TypeInv'
    BY <1>6, CollectionStepType, LastStepFinishes, FinishType DEF TypeInv
  <1>7. ASSUME NEW c \in Clients, CreateEmbeddingsBulk(c) PROVE TypeInv'
    BY <1>7, CreateEmbeddingsBulkType, LastStepFinishes, FinishType DEF TypeInv
  <1>8. ASSUME NEW c \in Clients, UpsertEmbeddingsBulk(c) PROVE TypeInv'
    BY <1>8, UpsertEmbeddingsBulkType, LastStepFinishes, FinishType DEF TypeInv
  <1>9. ASSUME NEW c \in Clients, UpdateEmbedding(c) PROVE TypeInv'
    BY <1>9, UpdateEmbeddingType, LastStepFinishes, FinishType DEF TypeInv
  <1>10. ASSUME NEW c \in Clients, DeleteEmbedding(c) PROVE TypeInv'
    <2>1. DbType'
      BY <1>10 DEF DeleteEmbedding, TypeInv, DbType
    <2> QED
      BY <1>10, <2>1, LastStepFinishes, FinishType DEF TypeInv
  <1>11. ASSUME NEW c \in Clients, GetEmbedding(c) \/ QueryFails(c) PROVE TypeInv'
    <2>1. DbType'
      BY <1>11 DEF GetEmbedding, QueryFails, TypeInv, DbType, db
    <2> QED
      BY <1>11, <2>1, LastStepFinishes, FinishType DEF TypeInv
  <1> QED
    BY <1>1, <1>2, <1>3, <1>4, <1>5, <1>6, <1>7, <1>8, <1>9, <1>10, <1>11 DEF Next, Handle

LEMMA TypeInvariant == Spec => []TypeInv
  BY InitType, NextType, PTL DEF Spec

\* The tables hold only well-formed collections and embeddings, and every
\* handler only what its request and its lookup gave it.
THEOREM TypeCorrect == Spec => []TypeOK
  <1>1. TypeInv => TypeOK
    BY DEF TypeInv, DbType, HandlerType, TypeOK
  <1> QED
    BY <1>1, TypeInvariant, PTL

-----------------------------------------------------------------------------
(* What the embedding writes do when they write.                            *)

LEMMA CreateStep ==
    ASSUME NEW c \in Clients, CreateEmbeddingsBulk(c)
    PROVE  LET items == req[c].items
               a == BodyAuthz(req[c])
               new == Inserted(rows, held[c], a, items, DOMAIN items)
           IN  \/ rows' = rows /\ nextUuid' = nextUuid
               \/ /\ \A p \in DOMAIN items : Storable(held[c], items[p].vec)
                  /\ AuthzAllowed(c, a)
                  /\ CollectionExists(held[c])
                  /\ nextUuid + Len(items) - 1 \in Uuids
                  /\ rows' = rows \cup new
                  /\ UseUuids(new, items)
  BY DEF CreateEmbeddingsBulk

\* The rows a handler names by id, and the table its UPDATE leaves.
Named(c) == UNION {Target(c, held[c], req[c].items[p].id) : p \in ById(req[c].items)}
AfterUpdate(c) == Updated(held[c], BodyAuthz(req[c]), req[c].items, Named(c))
ByContent(c) == DOMAIN req[c].items \ ById(req[c].items)
NewRows(c) == Inserted(AfterUpdate(c), held[c], BodyAuthz(req[c]), req[c].items, ByContent(c))

LEMMA UpsertStep ==
    ASSUME NEW c \in Clients, UpsertEmbeddingsBulk(c)
    PROVE  LET items == req[c].items
               a == BodyAuthz(req[c])
           IN  \/ rows' = rows /\ nextUuid' = nextUuid
               \/ /\ \A p \in DOMAIN items : Storable(held[c], items[p].vec)
                  /\ \A p, q \in ById(items) : items[p].id = items[q].id => p = q
                  /\ \A p \in ById(items) : Target(c, held[c], items[p].id) # {}
                  /\ \E order \in VisitOrders({p \in ById(items) :
                                      Target(c, held[c], items[p].id) # {}}, items) :
                        ~Collides(order, held[c], a, items)
                  /\ ByContent(c) = {} \/ (CollectionExists(held[c]) /\ AuthzAllowed(c, a))
                  /\ Named(c) = {} \/ AuthzAllowed(c, a)
                  /\ nextUuid + Len(items) - 1 \in Uuids \/ NewRows(c) = {}
                  /\ rows' = AfterUpdate(c) \cup NewRows(c)
                  /\ UseUuids(NewRows(c), items)
  BY DEF UpsertEmbeddingsBulk, Named, AfterUpdate, ByContent, NewRows

-----------------------------------------------------------------------------
(* RowsFitCollection.  A handler writes with the Collection it looked up;   *)
(* ids of collections are never reused and a collection never changes its   *)
(* shape, so what it holds is either gone or still right.                   *)

\* A collection id is handed out once, and names one collection.
IdsOnce ==
    /\ \A k \in collections : k.id < nextId
    /\ \A k, l \in collections : k.id = l.id => k = l

SameShape(k, l) == k.name = l.name /\ k.dims = l.dims /\ k.vtype = l.vtype

\* The Collection of a handler past its lookup has the name the request asked
\* for and still has the shape it had, or it is gone and will not come back.
HeldIsCurrent ==
    \A c \in Clients : Holds(c) =>
        /\ held[c].name = req[c].name
        /\ held[c].id < nextId
        /\ \A k \in collections : k.id = held[c].id => SameShape(k, held[c])

FitInv == TypeInv /\ IdsOnce /\ HeldIsCurrent /\ RowsFitCollection

Fits(w) ==
    \E k \in collections :
        /\ k.id = w.coll
        /\ k.vtype = w.table
        /\ k.dims = DimOf[w.vec]
        /\ Stored[w.table][w.vec] = w.vec

StillHolds(d) == Holds(d) /\ held'[d] = held[d] /\ req'[d] = req[d]
JustFound(d) == held'[d] \in collections /\ held'[d].name = req'[d].name /\ UNCHANGED db

\* Only a lookup makes a handler hold another Collection than before.
LEMMA HoldsNext ==
    ASSUME TypeInv, [Next]_vars, NEW d \in Clients, Holds(d)'
    PROVE  \/ StillHolds(d)
           \/ JustFound(d)
  <1>1. CASE UNCHANGED vars
    BY <1>1 DEF vars, Holds, StillHolds
  <1>2. ASSUME NEW c \in Clients, NEW r \in Requests, Send(c, r)
        PROVE  StillHolds(d)
    BY <1>2 DEF Send, Holds, StillHolds, TypeInv, HandlerType
  <1>3. ASSUME NEW c \in Clients, Finished(c)
        PROVE  StillHolds(d)
    BY <1>3 DEF Finished, Holds, StillHolds, TypeInv, HandlerType
  <1>4. ASSUME NEW c \in Clients, NEW allowed \in GrantSets, NEW granted \in BOOLEAN,
               Authz(c, allowed, granted)
        PROVE  StillHolds(d)
    <2>1. CASE Finished(c)
      BY <1>3, <2>1
    <2>2. CASE ~Finished(c)
      <3>1. /\ phase' = [phase EXCEPT ![c] =
                           IF req[c].op \in EmbeddingOps THEN "lookup" ELSE "write"]
            /\ req' = req /\ held' = held
        BY <1>4, <2>2, FinishIsFinished DEF Authz
      <3>2. CASE req[c].op \in EmbeddingOps
        <4>1. phase' = [phase EXCEPT ![c] = "lookup"]
          BY <3>1, <3>2
        <4> QED
          BY <3>1, <4>1 DEF Holds, StillHolds, TypeInv, HandlerType
      <3>3. CASE req[c].op \notin EmbeddingOps
        <4>1. phase' = [phase EXCEPT ![c] = "write"]
          BY <3>1, <3>3
        <4> QED
          BY <3>1, <3>3, <4>1 DEF Holds, StillHolds, TypeInv, HandlerType
      <3> QED
        BY <3>2, <3>3
    <2> QED
      BY <2>1, <2>2
  <1>5. ASSUME NEW c \in Clients, NEW granted \in BOOLEAN, Require(c, granted)
        PROVE  StillHolds(d)
    <2>1. CASE Finished(c)
      BY <1>3, <2>1
    <2>2. CASE ~Finished(c)
      <3>1. /\ phase[c] = "require" /\ phase' = [phase EXCEPT ![c] = "write"]
            /\ req' = req /\ held' = held
        BY <1>5, <2>2, FinishIsFinished DEF Require
      <3> QED
        BY <3>1 DEF Holds, StillHolds, TypeInv, HandlerType
    <2> QED
      BY <2>1, <2>2
  <1>6. ASSUME NEW c \in Clients, GetCollectionByName(c)
        PROVE  \/ StillHolds(d)
               \/ JustFound(d)
    <2>1. CASE Finished(c)
      BY <1>3, <2>1
    <2>2. CASE ~Finished(c)
      <3>1. PICK k \in collections : k.name = req[c].name /\ held' = [held EXCEPT ![c] = k]
        BY <1>6, <2>2, FinishIsFinished DEF GetCollectionByName
      <3>2. /\ \E x : phase' = [phase EXCEPT ![c] = x]
            /\ req' = req /\ UNCHANGED db
        BY <1>6, <2>2, FinishIsFinished DEF GetCollectionByName
      <3>3. CASE d = c
        BY <3>1, <3>2, <3>3 DEF JustFound, TypeInv, HandlerType
      <3>4. CASE d # c
        BY <3>1, <3>2, <3>4 DEF Holds, StillHolds, TypeInv, HandlerType
      <3> QED
        BY <3>3, <3>4
    <2> QED
      BY <2>1, <2>2
  <1>7. ASSUME NEW c \in Clients,
               \/ CreateCollection(c) \/ UpdateCollection(c) \/ DeleteCollection(c)
               \/ CreateEmbeddingsBulk(c) \/ UpsertEmbeddingsBulk(c) \/ UpdateEmbedding(c)
               \/ DeleteEmbedding(c) \/ GetEmbedding(c) \/ QueryFails(c)
        PROVE  StillHolds(d)
    BY <1>3, <1>7, LastStepFinishes
  <1> QED
    BY <1>1, <1>2, <1>4, <1>5, <1>6, <1>7 DEF Next, Handle

\* Every step that changes the database is the last of some handler.
LEMMA StepKinds ==
    ASSUME [Next]_vars
    PROVE  \/ UNCHANGED db
           \/ \E c \in Clients :
                \/ CreateCollection(c) \/ UpdateCollection(c) \/ DeleteCollection(c)
                \/ CreateEmbeddingsBulk(c) \/ UpsertEmbeddingsBulk(c)
                \/ UpdateEmbedding(c) \/ DeleteEmbedding(c)
  <1>1. CASE UNCHANGED vars
    BY <1>1 DEF vars, db
  <1>2. ASSUME NEW c \in Clients, NEW r \in Requests, Send(c, r) PROVE UNCHANGED db
    BY <1>2 DEF Send
  <1>3. ASSUME NEW c \in Clients, NEW allowed \in GrantSets, NEW granted \in BOOLEAN,
               Authz(c, allowed, granted)
        PROVE  UNCHANGED db
    BY <1>3 DEF Authz
  <1>4. ASSUME NEW c \in Clients, NEW granted \in BOOLEAN, Require(c, granted)
        PROVE  UNCHANGED db
    BY <1>4 DEF Require
  <1>5. ASSUME NEW c \in Clients, GetCollectionByName(c) \/ GetEmbedding(c) \/ QueryFails(c)
        PROVE  UNCHANGED db
    BY <1>5 DEF GetCollectionByName, GetEmbedding, QueryFails
  <1> QED
    BY <1>1, <1>2, <1>3, <1>4, <1>5 DEF Next, Handle

\* The collections after a step are those before it, in the same shape, and at
\* most one more under the next id.
LEMMA CollectionsNext ==
    ASSUME TypeInv, IdsOnce, [Next]_vars
    PROVE  /\ nextId' \in {nextId, nextId + 1}
           /\ \A k \in collections' :
                 \/ \E l \in collections : l.id = k.id /\ SameShape(l, k)
                 \/ k.id = nextId /\ nextId' = nextId + 1
           /\ IdsOnce'
  <1> USE DEF TypeInv, DbType
  <1> \A k : SameShape(k, k)
    BY DEF SameShape
  <1>1. CASE UNCHANGED db
    BY <1>1 DEF db, IdsOnce
  <1>2. ASSUME NEW c \in Clients, CreateCollection(c)
        PROVE  /\ nextId' \in {nextId, nextId + 1}
               /\ \A k \in collections' : k \in collections \/ (k.id = nextId /\ nextId' = nextId + 1)
               /\ IdsOnce'
    <2>1. CASE collections' = collections /\ nextId' = nextId
      <3>1. IdsOnce'
        BY <2>1 DEF IdsOnce
      <3> QED
        BY <2>1, <3>1
    <2>2. CASE ~(collections' = collections /\ nextId' = nextId)
      <3>1. nextId' = nextId + 1
        BY <1>2, <2>2 DEF CreateCollection, db
      <3>2. \E k : k.id = nextId /\ collections' \subseteq collections \cup {k}
        <4>1. CASE collections' = collections
          <5>1. [id |-> nextId].id = nextId
            OBVIOUS
          <5> QED
            BY <4>1, <5>1
        <4>2. CASE collections' # collections
          <5> DEFINE k == [id |-> nextId, name |-> req[c].name, dims |-> req[c].dims,
                           vtype |-> req[c].vtype, desc |-> req[c].desc]
          <5>1. collections' = collections \cup {k}
            BY <1>2, <4>2 DEF CreateCollection, db
          <5>2. k.id = nextId
            OBVIOUS
          <5> QED
            BY <5>1, <5>2
        <4> QED
          BY <4>1, <4>2
      <3>3. PICK k : k.id = nextId /\ collections' \subseteq collections \cup {k}
        BY <3>2
      <3>4. \A l \in collections : l.id \in Nat /\ l.id < nextId
        BY DEF IdsOnce, Collection, Ids
      <3>5. nextId \in Nat
        BY BoundAssumption
      <3> QED
        BY <3>1, <3>3, <3>4, <3>5 DEF IdsOnce
    <2> QED
      BY <2>1, <2>2
  <1>3. ASSUME NEW c \in Clients, UpdateCollection(c)
        PROVE  /\ nextId' = nextId
               /\ \A k \in collections' :
                    \E l \in collections : l.id = k.id /\ SameShape(l, k)
               /\ IdsOnce'
    <2>1. CASE collections' = collections
      BY <1>3, <2>1 DEF UpdateCollection, IdsOnce
    <2>2. CASE collections' # collections
      <3> DEFINE found == {k \in collections : k.name = req[c].name /\ NameAllowed(c, k.name)}
                 Patched(k) == [k EXCEPT !.desc = req[c].desc]
      <3>1. collections' = (collections \ found) \cup {Patched(k) : k \in found}
        BY <1>3, <2>2 DEF UpdateCollection
      <3>2. \A k \in collections : /\ Patched(k).id = k.id /\ SameShape(k, Patched(k))
        BY DEF Collection, SameShape
      <3>3. nextId' = nextId
        BY <1>3 DEF UpdateCollection
      <3> HIDE DEF found, Patched
      <3>4. found \subseteq collections
        BY DEF found
      <3>5. \A k \in collections' :
               \E l \in collections : /\ l.id = k.id /\ SameShape(l, k)
                                     /\ \/ k = l /\ l \notin found
                                        \/ k = Patched(l) /\ l \in found
        BY <3>1, <3>2, <3>4
      <3>6. IdsOnce'
        BY <3>3, <3>5 DEF IdsOnce
      <3> QED
        BY <3>3, <3>5, <3>6
    <2> QED
      BY <2>1, <2>2
  <1>4. ASSUME NEW c \in Clients, DeleteCollection(c)
        PROVE  nextId' = nextId /\ collections' \subseteq collections /\ IdsOnce'
    BY <1>4 DEF DeleteCollection, IdsOnce
  <1>5. ASSUME NEW c \in Clients,
               \/ CreateEmbeddingsBulk(c) \/ UpsertEmbeddingsBulk(c)
               \/ UpdateEmbedding(c) \/ DeleteEmbedding(c)
        PROVE  nextId' = nextId /\ collections' = collections /\ IdsOnce'
    BY <1>5 DEF CreateEmbeddingsBulk, UpsertEmbeddingsBulk, UpdateEmbedding, DeleteEmbedding,
                IdsOnce
  <1> QED
    BY <1>1, <1>2, <1>3, <1>4, <1>5, StepKinds

\* What a handler holds stays current, whatever other handlers do.
LEMMA HeldNext ==
    ASSUME TypeInv, TypeInv', IdsOnce, HeldIsCurrent, [Next]_vars
    PROVE  HeldIsCurrent'
  <1> SUFFICES ASSUME NEW d \in Clients, Holds(d)'
               PROVE  /\ held'[d].name = req'[d].name
                      /\ held'[d].id < nextId'
                      /\ \A k \in collections' : k.id = held'[d].id => SameShape(k, held'[d])
    BY DEF HeldIsCurrent, SameShape
  <1>1. CASE JustFound(d)
    BY <1>1 DEF JustFound, IdsOnce, SameShape, db
  <1>2. CASE StillHolds(d)
    <2>1. held[d].id < nextId /\ held[d].id \in Nat /\ nextId \in Nat
      BY <1>2, BoundAssumption
         DEF StillHolds, HeldIsCurrent, TypeInv, DbType, HandlerType, Collection, Ids
    <2>2. nextId' \in {nextId, nextId + 1}
      BY CollectionsNext
    <2>3. ASSUME NEW k \in collections', k.id = held[d].id PROVE SameShape(k, held[d])
      <3>1. PICK l \in collections : l.id = k.id /\ SameShape(l, k)
        BY <2>1, <2>3, CollectionsNext
      <3> QED
        BY <1>2, <2>3, <3>1 DEF StillHolds, HeldIsCurrent, SameShape
    <2> QED
      BY <1>2, <2>1, <2>2, <2>3 DEF StillHolds, HeldIsCurrent
  <1> QED
    BY <1>1, <1>2, HoldsNext

\* What is stored with the Collection a handler holds fits it, if it still
\* exists.
LEMMA AsRowFits ==
    ASSUME HeldIsCurrent, NEW c \in Clients, Holds(c), held[c] \in Collection,
           CollectionExists(held[c]), NEW item, Storable(held[c], item.vec), NEW a, NEW u
    PROVE  Fits(AsRow(held[c], item, a, u))
  <1>1. PICK k \in collections : k.id = held[c].id
    BY DEF CollectionExists
  <1>2. k.dims = held[c].dims /\ k.vtype = held[c].vtype
    BY <1>1 DEF HeldIsCurrent, SameShape
  <1> DEFINE t == held[c].vtype
             v == Stored[t][item.vec]
  <1>3. DimOf[v] = held[c].dims /\ Stored[t][v] = v
    BY StoredType DEF Storable
  <1>4. \E l \in collections :
           l.id = held[c].id /\ l.vtype = t /\ l.dims = DimOf[v] /\ Stored[t][v] = v
    BY <1>1, <1>2, <1>3
  <1> QED
    BY <1>4 DEF Fits, AsRow

\* The collection of a row that the handler can see through the one it holds
\* exists.
LEMMA TargetExists ==
    ASSUME RowsFitCollection, NEW c, NEW k, NEW id, Target(c, k, id) # {}
    PROVE  CollectionExists(k)
  BY DEF RowsFitCollection, Target, CollectionExists

\* The embedding writes leave rows that fit the collections.
LEMMA EmbeddingWritesFit ==
    ASSUME FitInv, NEW c \in Clients,
           \/ CreateEmbeddingsBulk(c) \/ UpsertEmbeddingsBulk(c)
           \/ UpdateEmbedding(c) \/ DeleteEmbedding(c)
    PROVE  \A w \in rows' : Fits(w)
  <1> USE DEF FitInv
  <1>1. \A w \in rows : Fits(w)
    BY DEF RowsFitCollection, Fits
  <1>2. req[c] \in Requests /\ held[c] \in Collection /\ Holds(c)
    BY DEF TypeInv, HandlerType, Holds, CreateEmbeddingsBulk, UpsertEmbeddingsBulk,
           UpdateEmbedding, DeleteEmbedding, Writing, EmbeddingOps
  <1> DEFINE items == req[c].items
  <1>3. CASE CreateEmbeddingsBulk(c)
    <2>1. CASE rows' = rows
      BY <1>1, <2>1
    <2>2. CASE rows' # rows
      <3> DEFINE new == Inserted(rows, held[c], BodyAuthz(req[c]), items, DOMAIN items)
      <3>1. /\ \A p \in DOMAIN items : Storable(held[c], items[p].vec)
            /\ CollectionExists(held[c])
            /\ rows' = rows \cup new
        BY <1>3, <2>2, CreateStep
      <3>2. \A w \in new : Fits(w)
        BY <1>2, <3>1, AsRowFits DEF Inserted, Firsts, HashPair
      <3> QED
        BY <1>1, <3>1, <3>2
    <2> QED
      BY <2>1, <2>2
  <1>4. CASE UpsertEmbeddingsBulk(c)
    <2>1. CASE rows' = rows
      BY <1>1, <2>1
    <2>2. CASE rows' # rows
      <3>1. /\ \A p \in DOMAIN items : Storable(held[c], items[p].vec)
            /\ \A p \in ById(items) : Target(c, held[c], items[p].id) # {}
            /\ ByContent(c) = {} \/ CollectionExists(held[c])
            /\ rows' = AfterUpdate(c) \cup NewRows(c)
        BY <1>4, <2>2, UpsertStep
      <3>2. ASSUME NEW w \in AfterUpdate(c) PROVE Fits(w)
        <4>1. CASE w \in rows
          BY <1>1, <4>1
        <4>2. CASE w \notin rows
          <5>1. PICK p \in ById(items) :
                   w = AsRow(held[c], items[p], BodyAuthz(req[c]), items[p].id)
            BY <3>2, <4>2 DEF AfterUpdate, Updated
          <5>2. p \in DOMAIN items /\ CollectionExists(held[c])
            BY <3>1, TargetExists DEF ById
          <5> QED
            BY <1>2, <3>1, <5>1, <5>2, AsRowFits
        <4> QED
          BY <4>1, <4>2
      <3>3. ASSUME NEW w \in NewRows(c) PROVE Fits(w)
        <4>1. PICK p \in ByContent(c) :
                 \E u : w = AsRow(held[c], items[p], BodyAuthz(req[c]), u)
          BY <3>3 DEF NewRows, Inserted, Firsts, HashPair
        <4>2. PICK u : w = AsRow(held[c], items[p], BodyAuthz(req[c]), u)
          BY <4>1
        <4>3. p \in DOMAIN items /\ CollectionExists(held[c])
          BY <3>1, <4>1 DEF ByContent
        <4> QED
          BY <1>2, <3>1, <4>2, <4>3, AsRowFits
      <3> QED
        BY <3>1, <3>2, <3>3
    <2> QED
      BY <2>1, <2>2
  <1>5. CASE UpdateEmbedding(c)
    <2>1. CASE rows' = rows
      BY <1>1, <2>1
    <2>2. CASE rows' # rows
      <3>1. PICK w \in Target(c, held[c], req[c].id) :
               /\ req[c].vec = NoValue \/ Storable(held[c], req[c].vec)
               /\ rows' = (rows \ {w}) \cup {Merged(c, w)}
        BY <1>5, <2>2, UpdateEmbeddingStep
      <3>2. /\ w \in rows /\ w \in Row /\ Fits(w)
            /\ w.table = held[c].vtype /\ w.coll = held[c].id
        BY <1>1 DEF Target, TypeInv, DbType
      <3>3. /\ Merged(c, w).coll = w.coll /\ Merged(c, w).table = w.table
            /\ Merged(c, w).vec = IF req[c].vec = NoValue THEN w.vec
                                  ELSE Stored[held[c].vtype][req[c].vec]
        BY <1>2, <3>1, <3>2, MergedType
      <3>4. Fits(Merged(c, w))
        <4>1. CASE req[c].vec = NoValue
          BY <3>2, <3>3, <4>1 DEF Fits
        <4>2. CASE req[c].vec # NoValue
          <5> DEFINE v == Stored[held[c].vtype][req[c].vec]
          <5>1. DimOf[v] = held[c].dims /\ Stored[held[c].vtype][v] = v
            BY <1>2, <3>1, <4>2, StoredType DEF Storable
          <5>2. PICK k \in collections : k.id = held[c].id
            BY <3>1, TargetExists DEF CollectionExists
          <5>3. k.dims = held[c].dims /\ k.vtype = held[c].vtype
            BY <1>2, <5>2 DEF HeldIsCurrent, SameShape
          <5>4. Merged(c, w).vec = v
            BY <3>3, <4>2
          <5> QED
            BY <3>2, <3>3, <5>1, <5>2, <5>3, <5>4 DEF Fits
        <4> QED
          BY <4>1, <4>2
      <3> QED
        BY <1>1, <3>1, <3>4
    <2> QED
      BY <2>1, <2>2
  <1>6. CASE DeleteEmbedding(c)
    BY <1>1, <1>6 DEF DeleteEmbedding
  <1> QED
    BY <1>3, <1>4, <1>5, <1>6

\* Every step keeps rows and collections fitting.
LEMMA RowsFitNext ==
    ASSUME FitInv, [Next]_vars
    PROVE  RowsFitCollection'
  <1> USE DEF FitInv
  <1>1. CASE UNCHANGED db
    BY <1>1 DEF RowsFitCollection, db
  <1>2. ASSUME NEW c \in Clients,
               \/ CreateEmbeddingsBulk(c) \/ UpsertEmbeddingsBulk(c)
               \/ UpdateEmbedding(c) \/ DeleteEmbedding(c)
        PROVE  RowsFitCollection'
    <2>1. \A w \in rows' : Fits(w)
      BY <1>2, EmbeddingWritesFit
    <2>2. collections' = collections
      BY <1>2 DEF CreateEmbeddingsBulk, UpsertEmbeddingsBulk, UpdateEmbedding, DeleteEmbedding
    <2> QED
      BY <2>1, <2>2 DEF RowsFitCollection, Fits
  <1>3. ASSUME NEW c \in Clients, CreateCollection(c) PROVE RowsFitCollection'
    <2>1. rows' = rows /\ collections \subseteq collections'
      BY <1>3 DEF CreateCollection, db
    <2> QED
      BY <2>1 DEF RowsFitCollection
  <1>4. ASSUME NEW c \in Clients, UpdateCollection(c) PROVE RowsFitCollection'
    <2>1. rows' = rows
      BY <1>4 DEF UpdateCollection
    <2>2. ASSUME NEW k \in collections
          PROVE  \E l \in collections' : l.id = k.id /\ l.dims = k.dims /\ l.vtype = k.vtype
      <3> DEFINE found == {x \in collections : x.name = req[c].name /\ NameAllowed(c, x.name)}
                 l == [k EXCEPT !.desc = req[c].desc]
      <3>1. l.id = k.id /\ l.dims = k.dims /\ l.vtype = k.vtype
        BY DEF Collection, TypeInv, DbType
      <3>2. k \in collections' \/ l \in collections'
        BY <1>4 DEF UpdateCollection
      <3> QED
        BY <3>1, <3>2
    <2>3. ASSUME NEW w \in rows
          PROVE  \E l \in collections' : /\ l.id = w.coll /\ l.vtype = w.table
                                         /\ l.dims = DimOf[w.vec]
                                         /\ Stored[w.table][w.vec] = w.vec
      BY <2>2 DEF RowsFitCollection
    <2> QED
      BY <2>1, <2>3 DEF RowsFitCollection
  <1>5. ASSUME NEW c \in Clients, DeleteCollection(c) PROVE RowsFitCollection'
    BY <1>5 DEF DeleteCollection, RowsFitCollection
  <1> QED
    BY <1>1, <1>2, <1>3, <1>4, <1>5, StepKinds

LEMMA FitNext == FitInv /\ [Next]_vars => FitInv'
  BY NextType, CollectionsNext, HeldNext, RowsFitNext DEF FitInv

LEMMA FitInit == Init => FitInv
  BY InitType DEF Init, FitInv, IdsOnce, HeldIsCurrent, Holds, RowsFitCollection

\* Whatever is deleted, recreated and written concurrently, every embedding
\* belongs to a collection that exists, lies in the table of its vector type
\* and has its dimensions, although every write trusts a Collection that an
\* earlier transaction of its handler read.
THEOREM EmbeddingsFit == Spec => []RowsFitCollection
  <1>1. FitInv => RowsFitCollection
    BY DEF FitInv
  <1> QED
    BY <1>1, FitInit, FitNext, PTL DEF Spec

-----------------------------------------------------------------------------
(* NoTwins.  It needs that an embedding id names one row: only then does    *)
(* "the row this item replaces" mean what the UPDATE of a bulk PUT does.    *)

\* An embedding id is handed out once, and names one row.
UuidsOnce ==
    /\ \A w \in rows : w.uuid < nextUuid
    /\ \A w, x \in rows : w.uuid = x.uuid => w = x

TwinInv == TypeInv /\ UuidsOnce /\ NoTwins

\* The rows one INSERT adds differ in content and id from each other, in
\* content from the table it adds them to, and their ids are new.
LEMMA InsertedOnce ==
    ASSUME nextUuid \in Nat, NEW k, NEW a, NEW items \in Seq(Item),
           NEW ps \in SUBSET DOMAIN items, NEW table
    PROVE  LET new == Inserted(table, k, a, items, ps) IN
           /\ \A w, x \in new : SameContent(w, x) \/ w.uuid = x.uuid => w = x
           /\ \A w \in new, x \in table : ~SameContent(w, x)
           /\ \A w \in new : w.uuid \in nextUuid..(nextUuid + Len(items) - 1)
  <1> DEFINE new == Inserted(table, k, a, items, ps)
             Nth(p) == AsRow(k, items[p], a, nextUuid + p - 1)
  <1>1. ps \subseteq 1..Len(items) /\ Len(items) \in Nat
    OBVIOUS
  <1>2. \A w \in new : \E p \in Firsts(k, items, ps) : w = Nth(p)
    BY DEF Inserted
  <1>3. \A p : Nth(p).uuid = nextUuid + p - 1
    BY DEF AsRow
  <1>4. ASSUME NEW p \in Firsts(k, items, ps), NEW q \in Firsts(k, items, ps),
               SameContent(Nth(p), Nth(q)) \/ Nth(p).uuid = Nth(q).uuid
        PROVE  p = q
    <2>1. p \in ps /\ q \in ps /\ p \in Int /\ q \in Int
      BY <1>1 DEF Firsts, HashPair
    <2>2. CASE SameContent(Nth(p), Nth(q))
      <3>1. /\ Stored[k.vtype][items[p].vec] = Stored[k.vtype][items[q].vec]
            /\ items[p].meta = items[q].meta
        BY <2>2 DEF SameContent, Key, AsRow
      <3>2. ~(p < q) /\ ~(q < p)
        BY <2>1, <3>1 DEF Firsts, HashPair
      <3> QED
        BY <2>1, <3>2
    <2>3. CASE Nth(p).uuid = Nth(q).uuid
      <3>1. nextUuid + p - 1 = nextUuid + q - 1
        BY <2>3, <1>3
      <3> QED
        BY <2>1, <3>1
    <2> QED
      BY <1>4, <2>2, <2>3
  <1>5. ASSUME NEW w \in new, NEW x \in new, SameContent(w, x) \/ w.uuid = x.uuid
        PROVE  w = x
    BY <1>2, <1>4, <1>5
  <1>6. \A w \in new, x \in table : ~SameContent(w, x)
    BY DEF Inserted
  <1>7. ASSUME NEW w \in new PROVE w.uuid \in nextUuid..(nextUuid + Len(items) - 1)
    <2>1. PICK p \in Firsts(k, items, ps) : w = Nth(p)
      BY <1>2
    <2>2. p \in 1..Len(items) /\ w.uuid = nextUuid + p - 1
      BY <1>1, <1>3, <2>1 DEF Firsts, HashPair
    <2> QED
      BY <1>1, <2>2
  <1> QED
    BY <1>5, <1>6, <1>7

\* The ids of inserted rows were never handed out before.
LEMMA InsertedIsNew ==
    ASSUME TypeInv, UuidsOnce, NEW k, NEW a, NEW items \in Seq(Item),
           NEW ps \in SUBSET DOMAIN items, NEW table
    PROVE  \A w \in Inserted(table, k, a, items, ps), x \in rows : x.uuid # w.uuid
  <1>1. nextUuid \in Nat /\ Len(items) \in Nat
    BY BoundAssumption DEF TypeInv, DbType
  <1>2. \A w \in Inserted(table, k, a, items, ps) :
           w.uuid \in nextUuid..(nextUuid + Len(items) - 1)
    BY <1>1, InsertedOnce
  <1>3. \A x \in rows : x.uuid \in Nat /\ x.uuid < nextUuid
    BY BoundAssumption DEF UuidsOnce, TypeInv, DbType, Row, Uuids
  <1> HIDE DEF TypeInv
  <1> QED
    BY <1>1, <1>2, <1>3

\* A statement that adds its rows to a table without twins leaves no twins.
LEMMA InsertedKeepsOnce ==
    ASSUME nextUuid \in Nat, NEW k, NEW a, NEW items \in Seq(Item), items # <<>>,
           NEW ps \in SUBSET DOMAIN items, NEW table,
           \A w \in table : w.uuid \in Nat /\ w.uuid < nextUuid,
           \A w, x \in table : SameContent(w, x) \/ w.uuid = x.uuid => w = x,
           NEW new, new = Inserted(table, k, a, items, ps),
           rows' = table \cup new, UseUuids(new, items)
    PROVE  UuidsOnce' /\ NoTwins'
  <1>1. /\ \A w, x \in new : SameContent(w, x) \/ w.uuid = x.uuid => w = x
        /\ \A w \in new, x \in table : ~SameContent(w, x)
        /\ \A w \in new : w.uuid \in nextUuid..(nextUuid + Len(items) - 1)
    BY InsertedOnce
  <1>2. \A w, x : SameContent(w, x) <=> SameContent(x, w)
    BY DEF SameContent
  <1>3. \A w \in new, x \in table : w.uuid # x.uuid
    BY <1>1
  <1>4. \A w, x \in rows' : SameContent(w, x) \/ w.uuid = x.uuid => w = x
    BY <1>1, <1>2, <1>3
  <1>5. Len(items) \in Nat /\ Len(items) > 0
    OBVIOUS
  <1>6. \A w \in rows' : w.uuid < nextUuid'
    <2>1. CASE new = {}
      BY <2>1 DEF UseUuids
    <2>2. CASE new # {}
      <3>1. nextUuid' = nextUuid + Len(items)
        BY <2>2 DEF UseUuids
      <3> QED
        BY <1>1, <1>5, <3>1
    <2> QED
      BY <2>1, <2>2
  <1>7. NoTwins'
    BY <1>4 DEF NoTwins, SameContent, Key
  <1>8. UuidsOnce'
    BY <1>4, <1>6 DEF UuidsOnce
  <1> QED
    BY <1>7, <1>8

\* The UPDATE of a bulk PUT that no unique violation stopped leaves no twins:
\* a row keeps its key until its turn, so of two rows with one key the later
\* one in the order of the turns would have collided.
LEMMA UpdatedOnce ==
    ASSUME TwinInv, NEW c \in Clients, req[c].items \in Seq(Item),
           \A p, q \in ById(req[c].items) :
              req[c].items[p].id = req[c].items[q].id => p = q,
           \A p \in ById(req[c].items) : Target(c, held[c], req[c].items[p].id) # {},
           NEW order \in VisitOrders({p \in ById(req[c].items) :
                            Target(c, held[c], req[c].items[p].id) # {}}, req[c].items),
           ~Collides(order, held[c], BodyAuthz(req[c]), req[c].items)
    PROVE  /\ \A w \in AfterUpdate(c) : w.uuid \in Nat /\ w.uuid < nextUuid
           /\ \A w, x \in AfterUpdate(c) : SameContent(w, x) \/ w.uuid = x.uuid => w = x
  <1> DEFINE items == req[c].items
             byId == ById(items)
             k == held[c]
             a == BodyAuthz(req[c])
             New(p) == AsRow(k, items[p], a, items[p].id)
  <1>1. DOMAIN order = byId
    BY DEF VisitOrders
  <1>2. /\ \A p \in byId : order[p] \in Int
        /\ \A p, q \in byId : order[p] = order[q] => p = q
    <2>1. {p \in byId : Target(c, k, items[p].id) # {}} = byId
      OBVIOUS
    <2>2. order \in VisitOrders(byId, items)
      BY <2>1
    <2> HIDE DEF byId
    <2>3. order \in [byId -> 1..Len(items)]
      BY <2>2 DEF VisitOrders
    <2>4. \A p, q \in byId : order[p] = order[q] => p = q
      BY <2>2 DEF VisitOrders
    <2>5. Len(items) \in Nat
      OBVIOUS
    <2> QED
      BY <2>3, <2>4, <2>5
  <1>3. \A w \in rows : w.uuid \in Nat /\ w.uuid < nextUuid
    BY BoundAssumption DEF TwinInv, TypeInv, DbType, Row, Uuids, UuidsOnce
  <1>4. \A p \in byId : \E x \in Named(c) : x \in rows /\ x.uuid = items[p].id
    BY DEF Named, Target
  <1>5. \A p \in byId, w \in rows : w.uuid = items[p].id => w \in Named(c)
    BY <1>4 DEF TwinInv, UuidsOnce
  <1>6. \A p : New(p).uuid = items[p].id
    BY DEF AsRow
  <1>7. \A w \in AfterUpdate(c) :
           (w \in rows /\ w \notin Named(c)) \/ \E p \in byId : w = New(p)
    BY DEF AfterUpdate, Updated
  <1>8. ASSUME NEW p \in byId, NEW w \in rows, w \notin Named(c)
        PROVE  ~SameContent(New(p), w) /\ New(p).uuid # w.uuid
    <2>1. \A q \in byId : items[q].id # w.uuid
      BY <1>5, <1>8
    <2>2. KeyAtTurn(w, p, order, k, a, items) = Key(w)
      BY <1>1, <2>1 DEF KeyAtTurn
    <2>3. Key(New(p)) # Key(w)
      BY <1>1, <2>1, <2>2 DEF Collides
    <2> QED
      BY <1>6, <2>1, <2>3 DEF SameContent
  <1>9. ASSUME NEW p \in byId, NEW q \in byId, order[q] < order[p]
        PROVE  ~SameContent(New(p), New(q)) /\ New(p).uuid # New(q).uuid
    <2>1. items[p].id # items[q].id
      BY <1>2, <1>9
    <2>2. PICK x \in rows : x.uuid = items[q].id
      BY <1>4
    <2>3. (CHOOSE z \in DOMAIN order : items[z].id = x.uuid) = q
      BY <1>1, <2>2
    <2>4. KeyAtTurn(x, p, order, k, a, items) = Key(New(q))
      BY <1>1, <1>9, <2>2, <2>3 DEF KeyAtTurn
    <2>5. Key(New(p)) # Key(New(q))
      BY <1>1, <2>1, <2>2, <2>4 DEF Collides
    <2> QED
      BY <1>6, <2>1, <2>5 DEF SameContent
  <1>10. \A w, x : SameContent(w, x) <=> SameContent(x, w)
    BY DEF SameContent
  <1>11. ASSUME NEW p \in byId, NEW q \in byId, p # q
         PROVE  ~SameContent(New(p), New(q)) /\ New(p).uuid # New(q).uuid
    <2>1. order[p] < order[q] \/ order[q] < order[p]
      BY <1>2, <1>11
    <2> QED
      BY <1>9, <1>10, <2>1
  <1>12. ASSUME NEW w \in AfterUpdate(c), NEW x \in AfterUpdate(c),
                SameContent(w, x) \/ w.uuid = x.uuid
         PROVE  w = x
    <2> HIDE DEF New, byId
    <2>1. CASE w \in rows /\ x \in rows
      BY <1>12, <2>1 DEF TwinInv, NoTwins, UuidsOnce
    <2>2. CASE w \notin rows
      <3>1. PICK p \in byId : w = New(p)
        BY <1>7, <2>2
      <3> QED
        BY <1>7, <1>8, <1>11, <1>12, <3>1
    <2>3. CASE x \notin rows
      <3>1. PICK p \in byId : x = New(p)
        BY <1>7, <2>3
      <3> QED
        BY <1>7, <1>8, <1>10, <1>11, <1>12, <3>1
    <2> QED
      BY <2>1, <2>2, <2>3
  <1>13. \A w \in AfterUpdate(c) : w.uuid \in Nat /\ w.uuid < nextUuid
    BY <1>3, <1>4, <1>6, <1>7
  <1> QED
    BY <1>12, <1>13

\* Every step keeps ids and contents unique.
LEMMA TwinsNext ==
    ASSUME TwinInv, [Next]_vars
    PROVE  UuidsOnce' /\ NoTwins'
  <1> USE DEF TwinInv
  <1>1. nextUuid \in Nat /\ \A w \in rows : w.uuid \in Nat
    BY BoundAssumption DEF TypeInv, DbType, Row, Uuids
  <1>2. CASE rows' \subseteq rows /\ nextUuid' = nextUuid
    BY <1>2 DEF UuidsOnce, NoTwins, SameContent, Key
  <1>3. ASSUME NEW c \in Clients, CreateEmbeddingsBulk(c) PROVE UuidsOnce' /\ NoTwins'
    <2> DEFINE items == req[c].items
               new == Inserted(rows, held[c], BodyAuthz(req[c]), items, DOMAIN items)
    <2>1. CASE rows' = rows /\ nextUuid' = nextUuid
      BY <1>2, <2>1
    <2>2. CASE ~(rows' = rows /\ nextUuid' = nextUuid)
      <3>1. rows' = rows \cup new /\ UseUuids(new, items)
        BY <1>3, <2>2, CreateStep
      <3>2. items \in Seq(Item) /\ items # <<>>
        BY <1>3, RequestFields, RequestAssumption
           DEF CreateEmbeddingsBulk, Writing, TypeInv, HandlerType
      <3>3. /\ \A w \in rows : w.uuid \in Nat /\ w.uuid < nextUuid
            /\ \A w, x \in rows : SameContent(w, x) \/ w.uuid = x.uuid => w = x
        BY <1>1 DEF UuidsOnce, NoTwins
      <3> HIDE DEF items
      <3> QED
        BY <1>1, <3>1, <3>2, <3>3, InsertedKeepsOnce
    <2> QED
      BY <2>1, <2>2
  <1>4. ASSUME NEW c \in Clients, UpsertEmbeddingsBulk(c) PROVE UuidsOnce' /\ NoTwins'
    <2> DEFINE items == req[c].items
    <2>1. CASE rows' = rows /\ nextUuid' = nextUuid
      BY <1>2, <2>1
    <2>2. CASE ~(rows' = rows /\ nextUuid' = nextUuid)
      <3>1. items \in Seq(Item) /\ items # <<>>
        BY <1>4, RequestFields, RequestAssumption
           DEF UpsertEmbeddingsBulk, Writing, TypeInv, HandlerType
      <3>2. /\ rows' = AfterUpdate(c) \cup NewRows(c)
            /\ UseUuids(NewRows(c), items)
        BY <1>4, <2>2, UpsertStep
      <3>3. /\ \A w \in AfterUpdate(c) : w.uuid \in Nat /\ w.uuid < nextUuid
            /\ \A w, x \in AfterUpdate(c) : SameContent(w, x) \/ w.uuid = x.uuid => w = x
        BY <1>4, <2>2, <3>1, UpsertStep, UpdatedOnce
      <3>4. /\ NewRows(c) = Inserted(AfterUpdate(c), held[c], BodyAuthz(req[c]), items,
                                     ByContent(c))
            /\ ByContent(c) \in SUBSET DOMAIN items
        BY DEF NewRows, ByContent
      <3> HIDE DEF items
      <3> QED
        BY <1>1, <3>1, <3>2, <3>3, <3>4, InsertedKeepsOnce
    <2> QED
      BY <2>1, <2>2
  <1>5. ASSUME NEW c \in Clients, UpdateEmbedding(c) PROVE UuidsOnce' /\ NoTwins'
    <2>1. nextUuid' = nextUuid
      BY <1>5 DEF UpdateEmbedding
    <2>2. CASE rows' = rows
      BY <1>2, <2>1, <2>2
    <2>3. CASE rows' # rows
      <3>1. PICK w \in Target(c, held[c], req[c].id) :
               /\ req[c].vec = NoValue \/ Storable(held[c], req[c].vec)
               /\ \A x \in rows : x # w => ~SameContent(x, Merged(c, w))
               /\ rows' = (rows \ {w}) \cup {Merged(c, w)}
        BY <1>5, <2>3, UpdateEmbeddingStep
      <3>2. req[c] \in Requests /\ held[c] \in Collection
        BY <1>5, WritingType DEF UpdateEmbedding, TypeInv, EmbeddingOps, Writing
      <3>3. w \in rows /\ w \in Row
        BY DEF Target, TypeInv, DbType
      <3>4. Merged(c, w).uuid = w.uuid
        BY <3>1, <3>2, <3>3, MergedType
      <3>5. UuidsOnce'
        BY <2>1, <3>1, <3>3, <3>4 DEF UuidsOnce
      <3>6. \A x, y : SameContent(x, y) <=> SameContent(y, x)
        BY DEF SameContent
      <3>7. \A x, y \in rows' : SameContent(x, y) => x = y
        BY <3>1, <3>3, <3>6 DEF NoTwins
      <3>8. NoTwins'
        BY <3>7 DEF NoTwins, SameContent, Key
      <3> QED
        BY <3>5, <3>8
    <2> QED
      BY <2>2, <2>3
  <1>6. ASSUME NEW c \in Clients,
               \/ CreateCollection(c) \/ UpdateCollection(c) \/ DeleteCollection(c)
               \/ DeleteEmbedding(c)
        PROVE  UuidsOnce' /\ NoTwins'
    <2>1. rows' \subseteq rows /\ nextUuid' = nextUuid
      BY <1>6 DEF CreateCollection, UpdateCollection, DeleteCollection, DeleteEmbedding, db
    <2> QED
      BY <1>2, <2>1
  <1>7. CASE UNCHANGED db
    BY <1>2, <1>7 DEF db
  <1> QED
    BY <1>3, <1>4, <1>5, <1>6, <1>7, StepKinds

LEMMA TwinInit == Init => TwinInv
  BY InitType DEF Init, TwinInv, UuidsOnce, NoTwins

\* No two embeddings of a collection ever hold the same vector, metadata and
\* authz, whatever writes of however many clients raced.
THEOREM Deduplicated == Spec => []NoTwins
  <1>1. TwinInv /\ [Next]_vars => TwinInv'
    BY NextType, TwinsNext DEF TwinInv
  <1>2. TwinInv => NoTwins
    BY DEF TwinInv
  <1> QED
    BY <1>1, <1>2, TwinInit, PTL DEF Spec

-----------------------------------------------------------------------------
(* The action properties: what the last step of a handler may do.           *)

LastStep(c) ==
    \/ CreateCollection(c) \/ UpdateCollection(c) \/ DeleteCollection(c)
    \/ CreateEmbeddingsBulk(c) \/ UpsertEmbeddingsBulk(c) \/ UpdateEmbedding(c)
    \/ DeleteEmbedding(c) \/ GetEmbedding(c) \/ QueryFails(c)

\* A handler answers in a step of its own.
LEMMA AnswerIsLastStep ==
    ASSUME HandlerType, [Next]_vars, NEW c \in Clients, Answers(c)
    PROVE  LastStep(c)
  <1>1. phase \in [Clients -> Phases] /\ phase[c] = "write" /\ phase'[c] = "idle"
    BY DEF HandlerType, Answers
  <1>2. ASSUME NEW d \in Clients, NEW x, phase' = [phase EXCEPT ![d] = x]
        PROVE  d = c
    BY <1>1, <1>2
  <1>3. ~UNCHANGED vars
    BY <1>1 DEF vars
  <1>4. ASSUME NEW d \in Clients, NEW r \in Requests, Send(d, r) PROVE FALSE
    BY <1>1, <1>2, <1>4 DEF Send
  <1>5. ASSUME NEW d \in Clients, NEW allowed \in GrantSets, NEW granted \in BOOLEAN,
               Authz(d, allowed, granted)
        PROVE  FALSE
    <2>1. phase[d] = "arrived" /\ \E x : phase' = [phase EXCEPT ![d] = x]
      BY <1>5 DEF Authz, Finish
    <2> QED
      BY <1>1, <1>2, <2>1
  <1>6. ASSUME NEW d \in Clients, NEW granted \in BOOLEAN, Require(d, granted) PROVE FALSE
    <2>1. phase[d] = "require" /\ \E x : phase' = [phase EXCEPT ![d] = x]
      BY <1>6 DEF Require, Finish
    <2> QED
      BY <1>1, <1>2, <2>1
  <1>7. ASSUME NEW d \in Clients, GetCollectionByName(d) PROVE FALSE
    <2>1. phase[d] = "lookup" /\ \E x : phase' = [phase EXCEPT ![d] = x]
      BY <1>7 DEF GetCollectionByName, Finish
    <2> QED
      BY <1>1, <1>2, <2>1
  <1>8. ASSUME NEW d \in Clients, LastStep(d) PROVE d = c
    <2>1. Finished(d)
      BY <1>8, LastStepFinishes DEF LastStep
    <2> QED
      BY <1>2, <2>1 DEF Finished
  <1>9. PICK d \in Clients : LastStep(d)
    BY <1>3, <1>4, <1>5, <1>6, <1>7 DEF Next, Handle, LastStep
  <1> QED
    BY <1>8, <1>9

\* Embeddings change hands only within the grants: the rows a write takes away
\* were targets, the rows it adds passed WITH CHECK.
LEMMA EmbeddingWritesBound ==
    ASSUME FitInv, NEW c \in Clients,
           \/ CreateEmbeddingsBulk(c) \/ UpsertEmbeddingsBulk(c)
           \/ UpdateEmbedding(c) \/ DeleteEmbedding(c)
    PROVE  /\ \A w \in rows \ rows' : AuthzAllowed(c, w.authz)
           /\ \A w \in rows' \ rows : AuthzAllowed(c, w.authz)
           /\ collections' = collections
  <1> USE DEF FitInv
  <1>1. collections' = collections
    BY DEF CreateEmbeddingsBulk, UpsertEmbeddingsBulk, UpdateEmbedding, DeleteEmbedding
  <1>2. CASE rows' = rows
    BY <1>1, <1>2
  <1>3. \A k, item, a, u : AsRow(k, item, a, u).authz = a
    BY DEF AsRow
  <1>4. \A k, id : \A w \in Target(c, k, id) : w \in rows /\ AuthzAllowed(c, w.authz)
    BY DEF Target
  <1>5. CASE CreateEmbeddingsBulk(c) /\ rows' # rows
    <2> DEFINE items == req[c].items
               new == Inserted(rows, held[c], BodyAuthz(req[c]), items, DOMAIN items)
    <2>1. AuthzAllowed(c, BodyAuthz(req[c])) /\ rows' = rows \cup new
      BY <1>5, CreateStep
    <2>2. \A w \in new : w.authz = BodyAuthz(req[c])
      BY <1>3 DEF Inserted
    <2> HIDE DEF new
    <2> QED
      BY <1>1, <2>1, <2>2
  <1>6. CASE UpsertEmbeddingsBulk(c) /\ rows' # rows
    <2>1. /\ rows' = AfterUpdate(c) \cup NewRows(c)
          /\ \A p \in ById(req[c].items) : Target(c, held[c], req[c].items[p].id) # {}
          /\ ByContent(c) = {} \/ AuthzAllowed(c, BodyAuthz(req[c]))
          /\ Named(c) = {} \/ AuthzAllowed(c, BodyAuthz(req[c]))
      BY <1>6, UpsertStep
    <2>2. \A w \in Named(c) : w \in rows /\ AuthzAllowed(c, w.authz)
      BY <1>4 DEF Named
    <2>3. \A w \in NewRows(c) : w.authz = BodyAuthz(req[c]) /\ AuthzAllowed(c, w.authz)
      <3>1. ASSUME NEW w \in NewRows(c) PROVE w.authz = BodyAuthz(req[c]) /\ ByContent(c) # {}
        BY <1>3 DEF NewRows, Inserted, Firsts, HashPair
      <3> QED
        BY <2>1, <3>1
    <2>4. \A w \in AfterUpdate(c) \ rows : AuthzAllowed(c, w.authz)
      <3>1. ASSUME NEW w \in AfterUpdate(c) \ rows
            PROVE  w.authz = BodyAuthz(req[c]) /\ Named(c) # {}
        <4>1. PICK p \in ById(req[c].items) :
                 w = AsRow(held[c], req[c].items[p], BodyAuthz(req[c]), req[c].items[p].id)
          BY <3>1 DEF AfterUpdate, Updated
        <4> QED
          BY <1>3, <2>1, <4>1 DEF Named
      <3> QED
        BY <2>1, <3>1
    <2>5. \A w \in rows \ AfterUpdate(c) : w \in Named(c)
      BY DEF AfterUpdate, Updated
    <2> QED
      BY <1>1, <2>1, <2>2, <2>3, <2>4, <2>5
  <1>7. CASE UpdateEmbedding(c) /\ rows' # rows
    BY <1>1, <1>4, <1>7, UpdateEmbeddingStep
  <1>8. CASE DeleteEmbedding(c)
    BY <1>1, <1>4, <1>8 DEF DeleteEmbedding
  <1> QED
    BY <1>2, <1>5, <1>6, <1>7, <1>8

LEMMA AnswersAreBound ==
    ASSUME FitInv, [Next]_vars, NEW c \in Clients, Answers(c)
    PROVE  GrantsBound(c)
  <1> USE DEF FitInv
  <1>1. LastStep(c)
    BY AnswerIsLastStep DEF TypeInv
  <1>2. CASE \/ CreateEmbeddingsBulk(c) \/ UpsertEmbeddingsBulk(c)
             \/ UpdateEmbedding(c) \/ DeleteEmbedding(c)
    BY <1>2, EmbeddingWritesBound DEF GrantsBound
  <1>3. CASE GetEmbedding(c) \/ QueryFails(c)
    BY <1>3 DEF GetEmbedding, QueryFails, GrantsBound, db
  <1>4. CASE CreateCollection(c)
    <2>1. rows' = rows
      BY <1>4 DEF CreateCollection, db
    <2>2. collections' = collections \/
             (/\ NameAllowed(c, req[c].name)
              /\ \E k : k.name = req[c].name /\ collections' = collections \cup {k})
      <3>1. CASE collections' = collections
        BY <3>1
      <3>2. CASE collections' # collections
        <4> DEFINE k == [id |-> nextId, name |-> req[c].name, dims |-> req[c].dims,
                         vtype |-> req[c].vtype, desc |-> req[c].desc]
        <4>1. req[c].name \in AllowedNames(c) /\ collections' = collections \cup {k}
          BY <1>4, <3>2 DEF CreateCollection, db
        <4>2. k.name = req[c].name
          OBVIOUS
        <4> HIDE DEF k
        <4> QED
          BY <4>1, <4>2 DEF AllowedNames, NameAllowed
      <3> QED
        BY <3>1, <3>2
    <2> QED
      BY <2>1, <2>2 DEF GrantsBound
  <1>5. CASE UpdateCollection(c)
    <2> DEFINE found == {k \in collections : k.name = req[c].name /\ NameAllowed(c, k.name)}
               Patched(k) == [k EXCEPT !.desc = req[c].desc]
    <2>1. rows' = rows
      BY <1>5 DEF UpdateCollection
    <2>2. \/ collections' = collections
          \/ collections' = (collections \ found) \cup {Patched(k) : k \in found}
      BY <1>5 DEF UpdateCollection
    <2>3. \A k \in collections : Patched(k).name = k.name
      BY DEF Collection, TypeInv, DbType
    <2>4. \A k \in found : k \in collections /\ NameAllowed(c, k.name)
      OBVIOUS
    <2> HIDE DEF found, Patched
    <2> QED
      BY <2>1, <2>2, <2>3, <2>4 DEF GrantsBound
  <1>6. CASE DeleteCollection(c)
    <2> DEFINE found == {k \in collections : k.name = req[c].name /\ NameAllowed(c, k.name)}
    <2>1. /\ collections' = collections \ found
          /\ rows' = {w \in rows : \A k \in found : w.coll # k.id}
      BY <1>6 DEF DeleteCollection
    <2>2. \A w \in rows \ rows' : ~\E k \in collections' : k.id = w.coll
      BY <2>1 DEF IdsOnce
    <2> QED
      BY <2>1, <2>2 DEF GrantsBound
  <1> QED
    BY <1>1, <1>2, <1>3, <1>4, <1>5, <1>6 DEF LastStep

LEMMA FitInvariant == Spec => []FitInv
  BY FitInit, FitNext, PTL DEF Spec

\* No request changes anything that row-level security does not let its caller
\* see, before and after, but for the cascade, whatever it raced with.
THEOREM ChangesAreWithinGrants == Spec => GrantsBoundChanges
  <1>1. FitInv /\ [Next]_vars => \A c \in Clients : Answers(c) => GrantsBound(c)
    BY AnswersAreBound
  <1> QED
    BY <1>1, FitInvariant, PTL DEF Spec, GrantsBoundChanges

-----------------------------------------------------------------------------
(* ChecksCoverChanges: what a handler was granted before its last step, and *)
(* whose path that was.                                                     *)

\* Past the dependency the demanded actions were granted on the path in the
\* request, and past ctx.require on the authz path in its body.
AskedInv ==
    ~SkipAuth => \A c \in Clients :
        LET r == req[c] IN
        /\ phase[c] \in {"lookup", "require", "write"} /\ NamedInPath(r.op) =>
              Demanded(r.op) \X {PathOf[r.name]} \subseteq asked[c]
        /\ phase[c] = "write" /\ r.op \in EmbeddingOps /\ NeedsRequire(r) =>
              Demanded(r.op) \X {r.authz} \subseteq asked[c]

\* A handler whose request, phase and grants a step leaves alone.
Untouched(d) == req'[d] = req[d] /\ phase'[d] = phase[d] /\ asked'[d] = asked[d]

\* A step that takes one handler to a state that satisfies AskedInv keeps it.
LEMMA AskedElsewhere ==
    ASSUME AskedInv, NEW c \in Clients, \A d \in Clients : d # c => Untouched(d),
           LET r == req'[c] IN
           ~SkipAuth =>
             /\ phase'[c] \in {"lookup", "require", "write"} /\ NamedInPath(r.op) =>
                   Demanded(r.op) \X {PathOf[r.name]} \subseteq asked'[c]
             /\ phase'[c] = "write" /\ r.op \in EmbeddingOps /\ NeedsRequire(r) =>
                   Demanded(r.op) \X {r.authz} \subseteq asked'[c]
    PROVE  AskedInv'
  BY DEF AskedInv, Untouched

LEMMA AskedFinished ==
    ASSUME HandlerType, AskedInv, NEW c \in Clients, Finished(c)
    PROVE  AskedInv'
  <1>1. phase'[c] = "idle" /\ \A d \in Clients : d # c => Untouched(d)
    BY DEF HandlerType, Finished, Untouched
  <1> QED
    BY <1>1, AskedElsewhere

LEMMA AskedNext ==
    ASSUME TypeInv, AskedInv, [Next]_vars
    PROVE  AskedInv'
  <1> USE DEF TypeInv, HandlerType
  <1>1. CASE UNCHANGED vars
    BY <1>1 DEF vars, AskedInv
  <1>2. ASSUME NEW c \in Clients, NEW r \in Requests, Send(c, r) PROVE AskedInv'
    <2>1. phase'[c] = "arrived" /\ \A d \in Clients : d # c => Untouched(d)
      BY <1>2 DEF Send, Untouched
    <2> QED
      BY <2>1, AskedElsewhere
  <1>3. ASSUME NEW c \in Clients, NEW allowed \in GrantSets, NEW granted \in BOOLEAN,
               Authz(c, allowed, granted)
        PROVE  AskedInv'
    <2>1. CASE Finished(c)
      BY <2>1, AskedFinished
    <2>2. CASE ~Finished(c)
      <3> DEFINE next == IF req[c].op \in EmbeddingOps THEN "lookup" ELSE "write"
                 onPath == IF NamedInPath(req[c].op) /\ ~SkipAuth
                               THEN Demanded(req[c].op) \X {PathOf[req[c].name]} ELSE {}
      <3>1. /\ req' = req
            /\ asked' = [asked EXCEPT ![c] = onPath]
            /\ phase' = [phase EXCEPT ![c] = next]
        BY <1>3, <2>2, FinishIsFinished DEF Authz
      <3>2. req[c].op \notin EmbeddingOps \/ next # "write"
        OBVIOUS
      <3> HIDE DEF next
      <3>3. \A d \in Clients : d # c => Untouched(d)
        BY <3>1 DEF Untouched
      <3>4. asked'[c] = onPath /\ phase'[c] = next
        BY <3>1
      <3> QED
        BY <3>1, <3>2, <3>3, <3>4, AskedElsewhere
    <2> QED
      BY <2>1, <2>2
  <1>4. ASSUME NEW c \in Clients, GetCollectionByName(c) PROVE AskedInv'
    <2>1. CASE Finished(c)
      BY <2>1, AskedFinished
    <2>2. CASE ~Finished(c)
      <3> DEFINE next == IF NeedsRequire(req[c]) THEN "require" ELSE "write"
      <3>1. /\ phase[c] = "lookup" /\ req' = req /\ asked' = asked
            /\ phase' = [phase EXCEPT ![c] = next]
        BY <1>4, <2>2, FinishIsFinished DEF GetCollectionByName
      <3>2. ~NeedsRequire(req[c]) \/ next # "write"
        OBVIOUS
      <3> HIDE DEF next
      <3>3. \A d \in Clients : d # c => Untouched(d)
        BY <3>1 DEF Untouched
      <3>4. phase'[c] = next
        BY <3>1
      <3> QED
        BY <3>1, <3>2, <3>3, <3>4, AskedElsewhere DEF AskedInv
    <2> QED
      BY <2>1, <2>2
  <1>5. ASSUME NEW c \in Clients, NEW granted \in BOOLEAN, Require(c, granted)
        PROVE  AskedInv'
    <2>1. CASE Finished(c)
      BY <2>1, AskedFinished
    <2>2. CASE ~Finished(c)
      <3> DEFINE demanded == Demanded(req[c].op) \X {req[c].authz}
      <3>1. /\ phase[c] = "require" /\ req' = req /\ phase' = [phase EXCEPT ![c] = "write"]
            /\ ~SkipAuth => asked' = [asked EXCEPT ![c] = @ \cup demanded]
            /\ SkipAuth => asked' = [asked EXCEPT ![c] = @]
        BY <1>5, <2>2, FinishIsFinished DEF Require
      <3>2. \A d \in Clients : d # c => Untouched(d)
        BY <3>1 DEF Untouched
      <3>3. ~SkipAuth => asked'[c] = asked[c] \cup demanded
        BY <3>1
      <3>4. ~SkipAuth /\ NamedInPath(req[c].op) =>
               Demanded(req[c].op) \X {PathOf[req[c].name]} \subseteq asked[c]
        BY <3>1 DEF AskedInv
      <3>5. ~SkipAuth =>
              /\ NamedInPath(req[c].op) =>
                    Demanded(req[c].op) \X {PathOf[req[c].name]} \subseteq asked'[c]
              /\ Demanded(req[c].op) \X {req[c].authz} \subseteq asked'[c]
        <4> HIDE DEF demanded
        <4>1. ~SkipAuth => asked[c] \subseteq asked'[c] /\ demanded \subseteq asked'[c]
          BY <3>3
        <4> QED
          BY <3>4, <4>1, Zenon DEF demanded
      <3> QED
        BY <3>1, <3>2, <3>5, AskedElsewhere
    <2> QED
      BY <2>1, <2>2
  <1>6. ASSUME NEW c \in Clients, LastStep(c) PROVE AskedInv'
    BY <1>6, LastStepFinishes, AskedFinished DEF LastStep
  <1> QED
    BY <1>1, <1>2, <1>3, <1>4, <1>5, <1>6 DEF Next, Handle, LastStep

ChecksInv == FitInv /\ TwinInv /\ AskedInv

LEMMA ChecksInvariant == Spec => []ChecksInv
  <1>1. Init => AskedInv
    BY DEF Init, AskedInv
  <1>2. FitInv /\ AskedInv /\ [Next]_vars => AskedInv'
    BY AskedNext DEF FitInv
  <1>3. TwinInv /\ [Next]_vars => TwinInv'
    BY NextType, TwinsNext DEF TwinInv
  <1> QED
    BY <1>1, <1>2, <1>3, FitInit, FitNext, TwinInit, PTL DEF Spec, ChecksInv

\* What the policy engine has granted a handler about to write.
LEMMA GrantedAtWrite ==
    ASSUME ChecksInv, ~SkipAuth, NEW c \in Clients, NEW op \in EmbeddingOps \cup CollectionOps,
           op # "create_collection", Writing(c, op), NEW action \in Demanded(op)
    PROVE  /\ <<action, PathOf[req[c].name]>> \in asked[c]
           /\ NeedsRequire(req[c]) /\ op \in EmbeddingOps => <<action, req[c].authz>> \in asked[c]
           /\ op \in {"post_embeddings", "put_embeddings"} =>
                 <<action, BodyAuthz(req[c])>> \in asked[c]
  <1>1. phase[c] = "write" /\ req[c].op = op /\ NamedInPath(op)
    BY DEF Writing, NamedInPath
  <1>2. Demanded(op) \X {PathOf[req[c].name]} \subseteq asked[c]
    BY <1>1 DEF ChecksInv, AskedInv
  <1>3. NeedsRequire(req[c]) /\ op \in EmbeddingOps =>
           Demanded(op) \X {req[c].authz} \subseteq asked[c]
    BY <1>1 DEF ChecksInv, AskedInv
  <1>4. CASE op \in {"post_embeddings", "put_embeddings"}
    <2>1. op \in EmbeddingOps
      BY <1>4 DEF EmbeddingOps
    <2>2. NeedsRequire(req[c]) \/ BodyAuthz(req[c]) = PathOf[req[c].name]
      BY <1>1, <1>4 DEF NeedsRequire
    <2>3. NeedsRequire(req[c]) => BodyAuthz(req[c]) \in {PathOf[req[c].name], req[c].authz}
      BY DEF BodyAuthz
    <2> QED
      BY <1>2, <1>3, <2>1, <2>2, <2>3
  <1> QED
    BY <1>2, <1>3, <1>4

\* The collection a handler writes to has the name its request gave.
LEMMA NameOfHeld ==
    ASSUME FitInv, NEW c \in Clients, Holds(c), CollectionExists(held[c])
    PROVE  NameOf(held[c].id) = req[c].name
  <1>1. PICK k \in collections : k.id = held[c].id
    BY DEF CollectionExists
  <1>2. (CHOOSE l \in collections : l.id = held[c].id) = k
    BY <1>1 DEF FitInv, IdsOnce
  <1>3. k.name = req[c].name
    BY <1>1 DEF FitInv, HeldIsCurrent, SameShape
  <1> QED
    BY <1>2, <1>3 DEF NameOf

\* The single-row operations.
LEMMA DemandedOf ==
    /\ "create" \in Demanded("post_embeddings")
    /\ {"update", "create"} \subseteq Demanded("put_embeddings")
    /\ "update" \in Demanded("put_embedding")
    /\ "delete" \in Demanded("delete_embedding")
    /\ "update" \in Demanded("patch_collection")
    /\ "delete" \in Demanded("delete_collection")
  BY DEF Demanded, Declared

LEMMA CreateIsChecked ==
    ASSUME ChecksInv, ~SkipAuth, NEW c \in Clients, CreateEmbeddingsBulk(c)
    PROVE  ChecksCover(c)
  <1> DEFINE items == req[c].items
             a == BodyAuthz(req[c])
             new == Inserted(rows, held[c], a, items, DOMAIN items)
  <1>1. /\ req[c] \in Requests /\ held[c] \in Collection /\ Holds(c)
        /\ Writing(c, "post_embeddings") /\ collections' = collections
    BY DEF ChecksInv, FitInv, TypeInv, HandlerType, Holds, CreateEmbeddingsBulk, Writing,
           EmbeddingOps
  <1>2. CASE rows' = rows
    BY <1>1, <1>2 DEF ChecksCover
  <1>3. CASE rows' # rows
    <2>1. CollectionExists(held[c]) /\ rows' = rows \cup new
      BY <1>3, CreateStep
    <2>2. NameOf(held[c].id) = req[c].name
      BY <1>1, <2>1, NameOfHeld DEF ChecksInv
    <2>3. items \in Seq(Item)
      BY <1>1, RequestFields
    <2>4. \A w \in new, x \in rows : x.uuid # w.uuid
      <3> HIDE DEF a, items
      <3> QED
        BY <2>3, InsertedIsNew DEF ChecksInv, TwinInv
    <2>5. \A w \in new : w.coll = held[c].id /\ w.authz = a
      BY DEF Inserted, AsRow
    <2>6. {<<"create", PathOf[req[c].name]>>, <<"create", a>>} \subseteq asked[c]
      BY <1>1, DemandedOf, GrantedAtWrite DEF EmbeddingOps
    <2> HIDE DEF new, a, items
    <2> QED
      BY <1>1, <2>1, <2>2, <2>4, <2>5, <2>6 DEF ChecksCover
  <1> QED
    BY <1>2, <1>3

LEMMA UpsertIsChecked ==
    ASSUME ChecksInv, ~SkipAuth, NEW c \in Clients, UpsertEmbeddingsBulk(c)
    PROVE  ChecksCover(c)
  <1> DEFINE items == req[c].items
             a == BodyAuthz(req[c])
             New(p) == AsRow(held[c], items[p], a, items[p].id)
  <1>1. /\ req[c] \in Requests /\ held[c] \in Collection /\ Holds(c)
        /\ Writing(c, "put_embeddings") /\ collections' = collections
    BY DEF ChecksInv, FitInv, TypeInv, HandlerType, Holds, UpsertEmbeddingsBulk, Writing,
           EmbeddingOps
  <1>2. CASE rows' = rows
    BY <1>1, <1>2 DEF ChecksCover
  <1>3. CASE rows' # rows
    <2>1. /\ rows' = AfterUpdate(c) \cup NewRows(c)
          /\ ByContent(c) = {} \/ CollectionExists(held[c])
          /\ \A p \in ById(items) : Target(c, held[c], items[p].id) # {}
      BY <1>3, UpsertStep
    <2>2. /\ <<"update", PathOf[req[c].name]>> \in asked[c] /\ <<"update", a>> \in asked[c]
          /\ <<"create", PathOf[req[c].name]>> \in asked[c] /\ <<"create", a>> \in asked[c]
      BY <1>1, DemandedOf, GrantedAtWrite DEF EmbeddingOps
    <2>3. items \in Seq(Item) /\ ByContent(c) \in SUBSET DOMAIN items
      BY <1>1, RequestFields DEF ByContent
    <2>4. \A w \in NewRows(c), x \in rows : x.uuid # w.uuid
      <3> HIDE DEF items
      <3>1. NewRows(c) = Inserted(AfterUpdate(c), held[c], a, items, ByContent(c))
        BY DEF NewRows, items
      <3> HIDE DEF a
      <3> QED
        BY <2>3, <3>1, InsertedIsNew DEF ChecksInv, TwinInv
    <2>5. CollectionExists(held[c]) => NameOf(held[c].id) = req[c].name
      BY <1>1, NameOfHeld DEF ChecksInv
    <2>6. ASSUME NEW w \in NewRows(c)
          PROVE  /\ NameOf(w.coll) = req[c].name /\ w.authz = a
                 /\ \A x \in rows : x.uuid # w.uuid
      <3>1. w.coll = held[c].id /\ w.authz = a /\ ByContent(c) # {}
        BY DEF NewRows, Inserted, AsRow, Firsts, HashPair
      <3> QED
        BY <2>1, <2>4, <2>5, <3>1
    <2>7. ASSUME NEW w \in AfterUpdate(c) \ rows
          PROVE  /\ NameOf(w.coll) = req[c].name /\ w.authz = a
                 /\ \E x \in rows : x.uuid = w.uuid
      <3>1. PICK p \in ById(items) : w = New(p)
        BY DEF AfterUpdate, Updated
      <3>2. PICK x \in Target(c, held[c], items[p].id) : TRUE
        BY <2>1
      <3>3. CollectionExists(held[c])
        BY <3>2, TargetExists DEF ChecksInv, FitInv
      <3> QED
        BY <2>5, <3>1, <3>2, <3>3 DEF AsRow, Target
    <2>8. ASSUME NEW w \in rows \ rows' PROVE \E x \in rows' : x.uuid = w.uuid
      <3>1. w \in Named(c)
        BY <2>1 DEF AfterUpdate, Updated
      <3>2. PICK p \in ById(items) : w \in Target(c, held[c], items[p].id)
        BY <3>1 DEF Named
      <3>3. New(p) \in rows'
        BY <2>1 DEF AfterUpdate, Updated
      <3>4. New(p).uuid = w.uuid
        BY <3>2 DEF Target, AsRow
      <3> QED
        BY <3>3, <3>4
    <2> HIDE DEF a
    <2>9. \A w \in rows' \ rows : w \in NewRows(c) \/ w \in AfterUpdate(c) \ rows
      BY <2>1
    <2> QED
      BY <1>1, <2>2, <2>6, <2>7, <2>8, <2>9 DEF ChecksCover
  <1> QED
    BY <1>2, <1>3

LEMMA SingleWriteIsChecked ==
    ASSUME ChecksInv, ~SkipAuth, NEW c \in Clients, UpdateEmbedding(c) \/ DeleteEmbedding(c)
    PROVE  ChecksCover(c)
  <1>1. /\ req[c] \in Requests /\ held[c] \in Collection /\ Holds(c)
        /\ collections' = collections
    BY DEF ChecksInv, FitInv, TypeInv, HandlerType, Holds, UpdateEmbedding, DeleteEmbedding,
           Writing, EmbeddingOps
  <1>2. CASE rows' = rows
    BY <1>1, <1>2 DEF ChecksCover
  <1>3. ASSUME NEW id, NEW w \in Target(c, held[c], id)
        PROVE  w \in rows /\ NameOf(w.coll) = req[c].name
    <2>1. CollectionExists(held[c])
      BY TargetExists DEF ChecksInv, FitInv
    <2> QED
      BY <1>1, <2>1, NameOfHeld DEF ChecksInv, Target
  <1>4. CASE UpdateEmbedding(c) /\ rows' # rows
    <2>1. PICK w \in Target(c, held[c], req[c].id) :
             /\ req[c].vec = NoValue \/ Storable(held[c], req[c].vec)
             /\ rows' = (rows \ {w}) \cup {Merged(c, w)}
      BY <1>4, UpdateEmbeddingStep
    <2>2. w \in rows /\ w \in Row /\ NameOf(w.coll) = req[c].name
      BY <1>3 DEF ChecksInv, FitInv, TypeInv, DbType
    <2>3. Merged(c, w).uuid = w.uuid /\ Merged(c, w).coll = w.coll
      BY <1>1, <2>1, <2>2, MergedType
    <2>4. \A x \in rows : x.uuid = w.uuid => x = w
      BY <2>2 DEF ChecksInv, TwinInv, UuidsOnce
    <2>5. /\ Writing(c, "put_embedding") /\ "put_embedding" \in EmbeddingOps
          /\ req[c].op = "put_embedding"
      BY <1>4 DEF UpdateEmbedding, Writing, EmbeddingOps
    <2>6. <<"update", PathOf[req[c].name]>> \in asked[c]
      BY <2>5, DemandedOf, GrantedAtWrite
    <2>7. Merged(c, w).authz # w.authz => <<"update", Merged(c, w).authz>> \in asked[c]
      <3>1. SUFFICES ASSUME Merged(c, w).authz # w.authz
                     PROVE  <<"update", Merged(c, w).authz>> \in asked[c]
        OBVIOUS
      <3>2. req[c].authz # NoValue /\ Merged(c, w).authz = req[c].authz
        <4> HIDE DEF ChecksInv
        <4> QED
          BY <2>2, <3>1 DEF Merged, Row
      <3>3. NeedsRequire(req[c])
        BY <2>5, <3>2 DEF NeedsRequire
      <3> QED
        BY <2>5, <3>2, <3>3, DemandedOf, GrantedAtWrite
    <2> QED
      BY <1>1, <2>1, <2>2, <2>3, <2>4, <2>6, <2>7 DEF ChecksCover
  <1>5. CASE DeleteEmbedding(c)
    <2>1. <<"delete", PathOf[req[c].name]>> \in asked[c]
      BY <1>5, DemandedOf, GrantedAtWrite DEF DeleteEmbedding, EmbeddingOps
    <2>2. \A w \in rows \ rows' : NameOf(w.coll) = req[c].name
      BY <1>3, <1>5 DEF DeleteEmbedding
    <2>3. rows' \subseteq rows
      BY <1>5 DEF DeleteEmbedding
    <2> QED
      BY <1>1, <2>1, <2>2, <2>3 DEF ChecksCover
  <1> QED
    BY <1>2, <1>4, <1>5

LEMMA CollectionStepIsChecked ==
    ASSUME ChecksInv, ~SkipAuth, NEW c \in Clients,
           CreateCollection(c) \/ UpdateCollection(c) \/ DeleteCollection(c)
    PROVE  ChecksCover(c)
  <1> DEFINE found == {k \in collections : k.name = req[c].name /\ NameAllowed(c, k.name)}
             Patched(k) == [k EXCEPT !.desc = req[c].desc]
  <1>1. CASE CreateCollection(c)
    <2>1. rows' = rows /\ collections \subseteq collections'
      BY <1>1 DEF CreateCollection, db
    <2> QED
      BY <2>1 DEF ChecksCover
  <1>2. CASE UpdateCollection(c)
    <2>1. <<"update", PathOf[req[c].name]>> \in asked[c]
      BY <1>2, DemandedOf, GrantedAtWrite DEF UpdateCollection, CollectionOps
    <2>2. rows' = rows
      BY <1>2 DEF UpdateCollection
    <2>3. \/ collections' = collections
          \/ collections' = (collections \ found) \cup {Patched(k) : k \in found}
      BY <1>2 DEF UpdateCollection
    <2>4. \A k \in collections : Patched(k).id = k.id
      BY DEF Collection, ChecksInv, FitInv, TypeInv, DbType
    <2>5. \A k \in found : k \in collections /\ k.name = req[c].name
      OBVIOUS
    <2> HIDE DEF found, Patched
    <2>6. ASSUME NEW k \in collections \ collections'
          PROVE  k.name = req[c].name /\ \E l \in collections' : l.id = k.id
      BY <2>3, <2>4, <2>5
    <2> QED
      BY <2>1, <2>2, <2>6 DEF ChecksCover
  <1>3. CASE DeleteCollection(c)
    <2>1. <<"delete", PathOf[req[c].name]>> \in asked[c]
      BY <1>3, DemandedOf, GrantedAtWrite DEF DeleteCollection, CollectionOps
    <2>2. /\ collections' = collections \ found
          /\ rows' = {w \in rows : \A k \in found : w.coll # k.id}
      BY <1>3 DEF DeleteCollection
    <2>3. \A k, l \in collections : k.id = l.id => k = l
      BY DEF ChecksInv, FitInv, IdsOnce
    <2>4. ASSUME NEW w \in rows \ rows' PROVE NameOf(w.coll) = req[c].name
      <3>1. PICK k \in found : w.coll = k.id
        BY <2>2
      <3>2. (CHOOSE l \in collections : l.id = w.coll) = k
        BY <2>3, <3>1
      <3> QED
        BY <3>1, <3>2 DEF NameOf
    <2>5. ASSUME NEW k \in collections \ collections'
          PROVE  k.name = req[c].name /\ ~\E l \in collections' : l.id = k.id
      BY <2>2, <2>3
    <2>6. rows' \subseteq rows
      BY <2>2
    <2> QED
      BY <2>1, <2>4, <2>5, <2>6 DEF ChecksCover
  <1> QED
    BY <1>1, <1>2, <1>3

LEMMA AnswersAreChecked ==
    ASSUME ChecksInv, ~SkipAuth, [Next]_vars, NEW c \in Clients, Answers(c)
    PROVE  ChecksCover(c)
  <1>1. LastStep(c)
    BY AnswerIsLastStep DEF ChecksInv, FitInv, TypeInv
  <1>2. CASE GetEmbedding(c) \/ QueryFails(c)
    BY <1>2 DEF GetEmbedding, QueryFails, ChecksCover, db
  <1> QED
    BY <1>1, <1>2, CreateIsChecked, UpsertIsChecked, SingleWriteIsChecked,
       CollectionStepIsChecked DEF LastStep

\* Every embedding and collection is created, changed, moved or removed only
\* by a request for which the policy engine granted that action on its paths,
\* also when the collection was recreated after the request was checked.
THEOREM ChangesAreChecked == Spec => ChecksCoverChanges
  <1>1. ChecksInv /\ [Next]_vars =>
           (~SkipAuth => \A c \in Clients : Answers(c) => ChecksCover(c))
    BY AnswersAreChecked
  <1> QED
    BY <1>1, ChecksInvariant, PTL DEF Spec, ChecksCoverChanges

-----------------------------------------------------------------------------
(* AnswerMatchesRequest: what the answer of a bulk write is made of.        *)

LEMMA NatSetHasMin ==
    ASSUME NEW S \in SUBSET Nat, S # {}
    PROVE  \E q \in S : \A r \in S : q <= r
  <1> DEFINE R == {ss \in Nat \X Nat : ss[1] < ss[2]}
  <1>1. IsWellFoundedOn(R, Nat)
    BY NatLessThanWellFounded DEF OpToRel
  <1>2. PICK q \in S : \A r \in S : <<r, q>> \notin R
    <2> HIDE DEF R
    <2> QED
      BY <1>1, WFMin
  <1>3. ASSUME NEW r \in S PROVE q <= r
    <2>1. q \in Nat /\ r \in Nat /\ ~(r < q)
      BY <1>2
    <2> QED
      BY <2>1
  <1> QED
    BY <1>3

\* _dedupe_rows keeps a position for every content, and original_to_unique names it.
LEMMA UniqueIsFirst ==
    ASSUME NEW k, NEW items \in Seq(Item), NEW ps \in SUBSET DOMAIN items, NEW p \in ps
    PROVE  /\ UniqueOf(k, items, ps, p) \in Firsts(k, items, ps)
           /\ HashPair(k, items, UniqueOf(k, items, ps, p)) = HashPair(k, items, p)
  <1> DEFINE S == {q \in ps : HashPair(k, items, q) = HashPair(k, items, p)}
  <1>1. S \in SUBSET Nat /\ p \in S
    OBVIOUS
  <1>2. PICK q \in S : \A r \in S : q <= r
    <2> HIDE DEF S
    <2> QED
      BY <1>1, NatSetHasMin
  <1>3. q \in Firsts(k, items, ps)
    <2>1. SUFFICES ASSUME NEW r \in ps, r < q, HashPair(k, items, r) = HashPair(k, items, q)
                   PROVE  FALSE
      BY DEF Firsts
    <2>2. r \in S /\ r \in Nat /\ q \in Nat
      BY <1>1, <2>1
    <2> QED
      BY <1>2, <2>1, <2>2
  <1>4. HashPair(k, items, q) = HashPair(k, items, p)
    OBVIOUS
  <1> QED
    BY <1>3, <1>4 DEF UniqueOf

\* Two positions of one list have different numbers, so by_id and by_content lead
\* from a number back to the position it was given to.
LEMMA OrdinalNumbers ==
    ASSUME NEW n \in Nat, NEW ps \in SUBSET (1..n), NEW p \in ps
    PROVE  /\ Ordinal(p, ps) \in 1..Cardinality(ps)
           /\ Position(Ordinal(p, ps), ps) = p
  <1> DEFINE Upto(q) == {r \in ps : r <= q}
  <1>1. IsFiniteSet(ps) /\ Cardinality(ps) \in Nat
    <2>1. IsFiniteSet(1..n)
      BY FS_Interval
    <2>2. IsFiniteSet(ps)
      BY <2>1, FS_Subset
    <2> QED
      BY <2>2, FS_CardinalityType
  <1>2. ASSUME NEW q \in ps
        PROVE  /\ IsFiniteSet(Upto(q)) /\ Ordinal(q, ps) = Cardinality(Upto(q))
               /\ Cardinality(Upto(q)) \in Nat /\ Cardinality(Upto(q)) <= Cardinality(ps)
               /\ Cardinality(Upto(q)) # 0
    <2>1. Upto(q) \in SUBSET ps /\ q \in Upto(q)
      OBVIOUS
    <2>2. Ordinal(q, ps) = Cardinality(Upto(q))
      BY DEF Ordinal
    <2> HIDE DEF Upto
    <2>3. IsFiniteSet(Upto(q)) /\ Cardinality(Upto(q)) <= Cardinality(ps)
      BY <1>1, <2>1, FS_Subset
    <2>4. Cardinality(Upto(q)) \in Nat /\ Cardinality(Upto(q)) # 0
      BY <2>1, <2>3, FS_CardinalityType, FS_EmptySet
    <2> QED
      BY <2>2, <2>3, <2>4
  <1>3. ASSUME NEW q \in ps, NEW r \in ps, q < r
        PROVE  Ordinal(q, ps) # Ordinal(r, ps)
    <2>0. \A t \in ps : t \in Int
      OBVIOUS
    <2>1. Upto(q) \in SUBSET Upto(r) /\ r \in Upto(r) /\ r \notin Upto(q)
      <3>1. ~(r <= q) /\ r <= r
        BY <1>3, <2>0
      <3>2. \A t \in ps : t <= q => t <= r
        BY <1>3, <2>0
      <3>3. Upto(q) \in SUBSET Upto(r)
        BY <3>2, Zenon
      <3>4. r \in Upto(r) /\ r \notin Upto(q)
        BY <3>1, Zenon
      <3> QED
        BY <3>3, <3>4
    <2>2. Upto(q) # Upto(r)
      BY <2>1
    <2>3. IsFiniteSet(Upto(r)) /\ Ordinal(q, ps) = Cardinality(Upto(q))
          /\ Ordinal(r, ps) = Cardinality(Upto(r))
      BY <1>2
    <2> HIDE DEF Upto
    <2> QED
      BY <2>1, <2>2, <2>3, FS_Subset
  <1>4. \A q \in ps : Ordinal(q, ps) = Ordinal(p, ps) => q = p
    <2> SUFFICES ASSUME NEW q \in ps, q # p PROVE Ordinal(q, ps) # Ordinal(p, ps)
      OBVIOUS
    <2>1. q < p \/ p < q
      OBVIOUS
    <2> QED
      BY <1>3, <2>1
  <1>5. Position(Ordinal(p, ps), ps) = p
    BY <1>4 DEF Position
  <1>6. Ordinal(p, ps) \in 1..Cardinality(ps)
    <2> HIDE DEF Upto
    <2> QED
      BY <1>1, <1>2
  <1> QED
    BY <1>5, <1>6

\* What a row of a table says when it is the one an item landed in.
Holding(w, k, item, a) ==
    /\ w.table = k.vtype /\ w.coll = k.id
    /\ w.vec = Stored[k.vtype][item.vec] /\ w.meta = item.meta /\ w.authz = a

\* RETURNING of the INSERT has a row for each item's hash pair, and only rows of
\* the request's collection and authz: looked up by the pair, the result handed to
\* an item holds that item's content.
LEMMA LandedThere ==
    ASSUME NEW k, NEW a, NEW items \in Seq(Item), NEW ps \in SUBSET DOMAIN items, NEW p \in ps,
           NEW table, NEW after, after = table \cup Inserted(table, k, a, items, ps),
           NEW i \in 1..Cardinality(ps), Position(i, ps) = p
    PROVE  LET w == BulkWriteResults(Returned(after, k, a, items, ps), k, items, ps)[i] IN
           w \in after /\ Holding(w, k, items[p], a)
  <1> DEFINE q == UniqueOf(k, items, ps, p)
             returned == Returned(after, k, a, items, ps)
             Has(w) == SameContent(w, AsRow(k, items[q], a, w.uuid))
             Found(w) == <<w.vec, w.meta>> = HashPair(k, items, q)
             result == CHOOSE w \in returned : Found(w)
  <1>1. q \in Firsts(k, items, ps) /\ HashPair(k, items, q) = HashPair(k, items, p)
    BY UniqueIsFirst
  <1>2. BulkWriteResults(returned, k, items, ps)[i] = result
    BY DEF BulkWriteResults
  <1>3. \E w \in after : Has(w)
    <2> DEFINE new == AsRow(k, items[q], a, nextUuid + q - 1)
    <2>1. Has(new)
      BY DEF SameContent, Key, AsRow
    <2>2. CASE new \in Inserted(table, k, a, items, ps)
      BY <2>1, <2>2
    <2>3. CASE new \notin Inserted(table, k, a, items, ps)
      <3>1. PICK x \in table : SameContent(new, x)
        BY <1>1, <2>3 DEF Inserted
      <3>2. Has(x)
        BY <2>1, <3>1 DEF SameContent, Key, AsRow
      <3> QED
        BY <3>1, <3>2
    <2> QED
      BY <2>2, <2>3
  <1>4. \E w \in returned : Found(w)
    <2>1. PICK w \in after : Has(w)
      BY <1>3
    <2>2. w \in returned
      BY <1>1, <2>1 DEF Returned
    <2>3. Found(w)
      BY <2>1 DEF SameContent, Key, AsRow, HashPair
    <2> QED
      BY <2>2, <2>3
  <1>5. result \in returned /\ Found(result)
    <2> HIDE DEF returned, Found
    <2> QED
      BY <1>4
  <1> HIDE DEF result, q
  <1>6. PICK u \in Firsts(k, items, ps) : SameContent(result, AsRow(k, items[u], a, result.uuid))
    BY <1>5 DEF Returned
  <1>7. result.table = k.vtype /\ result.coll = k.id /\ result.authz = a
    BY <1>6 DEF SameContent, Key, AsRow
  <1>8. result.vec = Stored[k.vtype][items[p].vec] /\ result.meta = items[p].meta
    BY <1>1, <1>5 DEF HashPair
  <1>9. result \in after
    BY <1>5 DEF Returned
  <1> QED
    BY <1>2, <1>7, <1>8, <1>9 DEF Holding

\* Where every item of the request is in the batch, numbers are positions.
LEMMA AllAreNumbered ==
    ASSUME NEW items \in Seq(Item), NEW p \in DOMAIN items
    PROVE  /\ Cardinality(DOMAIN items) = Len(items)
           /\ p \in 1..Cardinality(DOMAIN items) /\ Position(p, DOMAIN items) = p
  <1>1. DOMAIN items = 1..Len(items) /\ Len(items) \in Nat /\ p \in 1..Len(items)
    OBVIOUS
  <1>2. Cardinality(DOMAIN items) = Len(items)
    BY <1>1, FS_Interval
  <1>3. {q \in DOMAIN items : q <= p} = 1..p /\ p \in Int /\ p >= 1
    BY <1>1
  <1>4. Ordinal(p, DOMAIN items) = p
    <2>1. Cardinality(1..p) = p
      BY <1>3, FS_Interval
    <2> QED
      BY <1>3, <2>1 DEF Ordinal
  <1>5. Position(p, DOMAIN items) = p
    BY <1>1, <1>4, OrdinalNumbers
  <1> QED
    BY <1>1, <1>2, <1>5

\* RETURNING of the UPDATE leads from the ordinality back to the item.
LEMMA UpdatedThere ==
    ASSUME NEW k, NEW a, NEW items \in Seq(Item), NEW p \in ById(items)
    PROVE  (CHOOSE x \in UpdateReturned(k, a, items) : Position(x.ord, ById(items)) = p).row
              = AsRow(k, items[p], a, items[p].id)
  <1> DEFINE Mine(x) == Position(x.ord, ById(items)) = p
             x == CHOOSE y \in UpdateReturned(k, a, items) : Mine(y)
             Of(q) == [row |-> AsRow(k, items[q], a, items[q].id), ord |-> Ordinal(q, ById(items))]
  <1>1. ById(items) \in SUBSET (1..Len(items)) /\ Len(items) \in Nat
    BY DEF ById
  <1>2. \A q \in ById(items) : Position(Ordinal(q, ById(items)), ById(items)) = q
    BY <1>1, OrdinalNumbers
  <1>3. UpdateReturned(k, a, items) = {Of(q) : q \in ById(items)}
    BY DEF UpdateReturned
  <1>4. Mine(Of(p)) /\ Of(p) \in UpdateReturned(k, a, items)
    BY <1>2, <1>3
  <1>5. x \in UpdateReturned(k, a, items) /\ Mine(x)
    <2> HIDE DEF Mine, Of
    <2> QED
      BY <1>4
  <1>6. PICK q \in ById(items) : x = Of(q)
    <2> HIDE DEF x, Of
    <2> QED
      BY <1>3, <1>5
  <1>7. x.ord = Ordinal(q, ById(items)) /\ x.row = AsRow(k, items[q], a, items[q].id)
    <2> HIDE DEF x
    <2> QED
      BY <1>6
  <1>8. q = p
    <2> HIDE DEF x
    <2> QED
      BY <1>2, <1>5, <1>7
  <1> QED
    BY <1>7, <1>8

\* Every client has a reply.
RepliesAreFunction == reply = [c \in Clients |-> reply[c]]

MatchInv == FitInv /\ TwinInv /\ RepliesAreFunction

LEMMA RepliesNext ==
    ASSUME RepliesAreFunction, [Next]_vars
    PROVE  RepliesAreFunction'
  <1>1. ASSUME NEW c \in Clients, NEW x, reply' = [reply EXCEPT ![c] = x]
        PROVE  RepliesAreFunction'
    BY <1>1 DEF RepliesAreFunction
  <1>2. ASSUME NEW c \in Clients, NEW s, NEW e, Finish(c, s, e) PROVE RepliesAreFunction'
    BY <1>1, <1>2 DEF Finish
  <1>3. CASE reply' = reply
    BY <1>3 DEF RepliesAreFunction
  <1>4. CASE UNCHANGED vars
    BY <1>3, <1>4 DEF vars
  <1>5. ASSUME NEW c \in Clients, NEW r \in Requests, Send(c, r) PROVE RepliesAreFunction'
    BY <1>1, <1>5 DEF Send
  <1>6. ASSUME NEW c \in Clients, NEW allowed \in GrantSets, NEW granted \in BOOLEAN,
               Authz(c, allowed, granted)
        PROVE  RepliesAreFunction'
    BY <1>2, <1>3, <1>6 DEF Authz
  <1>7. ASSUME NEW c \in Clients, NEW granted \in BOOLEAN, Require(c, granted)
        PROVE  RepliesAreFunction'
    BY <1>2, <1>3, <1>7 DEF Require
  <1>8. ASSUME NEW c \in Clients, GetCollectionByName(c) PROVE RepliesAreFunction'
    BY <1>2, <1>3, <1>8 DEF GetCollectionByName
  <1>9. ASSUME NEW c \in Clients, CreateCollection(c) \/ UpdateCollection(c) \/ DeleteCollection(c)
        PROVE  RepliesAreFunction'
    BY <1>2, <1>9 DEF CreateCollection, UpdateCollection, DeleteCollection
  <1>10. ASSUME NEW c \in Clients, CreateEmbeddingsBulk(c) PROVE RepliesAreFunction'
    BY <1>2, <1>10 DEF CreateEmbeddingsBulk
  <1>11. ASSUME NEW c \in Clients, UpsertEmbeddingsBulk(c) PROVE RepliesAreFunction'
    BY <1>2, <1>11 DEF UpsertEmbeddingsBulk
  <1>12. ASSUME NEW c \in Clients, UpdateEmbedding(c) PROVE RepliesAreFunction'
    BY <1>2, <1>12 DEF UpdateEmbedding
  <1>13. ASSUME NEW c \in Clients, DeleteEmbedding(c) \/ GetEmbedding(c) \/ QueryFails(c)
         PROVE  RepliesAreFunction'
    BY <1>2, <1>13 DEF DeleteEmbedding, GetEmbedding, QueryFails
  <1> QED
    BY <1>4, <1>5, <1>6, <1>7, <1>8, <1>9, <1>10, <1>11, <1>12, <1>13 DEF Next, Handle

LEMMA MatchInvariant == Spec => []MatchInv
  <1>1. Init => RepliesAreFunction
    BY DEF Init, RepliesAreFunction
  <1>2. TwinInv /\ [Next]_vars => TwinInv'
    BY NextType, TwinsNext DEF TwinInv
  <1>3. RepliesAreFunction /\ [Next]_vars => RepliesAreFunction'
    BY RepliesNext
  <1> QED
    BY <1>1, <1>2, <1>3, FitInit, FitNext, TwinInit, PTL DEF Spec, MatchInv

LEMMA ReplyIs ==
    ASSUME RepliesAreFunction, NEW c \in Clients, NEW s, NEW e, Finish(c, s, e)
    PROVE  reply'[c].status = s /\ reply'[c].rows = e
  BY DEF RepliesAreFunction, Finish

\* An answer that carries nothing is right unless it says that a bulk write
\* succeeded.
LEMMA EmptyAnswerMatches ==
    ASSUME RepliesAreFunction, NEW c \in Clients, NEW s, Finish(c, s, <<>>),
           s # 200 \/ req[c].op \notin {"post_embeddings", "put_embeddings"}
    PROVE  AnswerMatches(c)
  <1>1. reply'[c].status = s /\ reply'[c].rows = <<>>
    BY ReplyIs
  <1>2. DOMAIN reply'[c].rows = {}
    BY <1>1
  <1> QED
    BY <1>1, <1>2 DEF AnswerMatches

\* A row of the collection a handler holds lies under the name it asked for.
LEMMA HeldIsNamed ==
    ASSUME FitInv, NEW c \in Clients, Holds(c), CollectionExists(held[c]),
           collections' = collections
    PROVE  \E k \in collections' : k.id = held[c].id /\ k.name = req[c].name
  BY DEF FitInv, HeldIsCurrent, SameShape, CollectionExists

\* A bulk write that answers one row for each item, each holding the item.
LEMMA BulkAnswerMatches ==
    ASSUME MatchInv, NEW c \in Clients, Holds(c), collections' = collections,
           req[c].op \in {"post_embeddings", "put_embeddings"},
           NEW out, Finish(c, 200, out), DOMAIN out = DOMAIN req[c].items,
           \A p \in DOMAIN req[c].items :
              /\ CollectionExists(held[c])
              /\ out[p] \in rows'
              /\ Holding(out[p], held[c], req[c].items[p], BodyAuthz(req[c]))
              /\ IF req[c].op = "put_embeddings"
                   THEN req[c].items[p].id \in {out[p].uuid, NoValue}
                   ELSE \A w \in rows : w.uuid # out[p].uuid
    PROVE  AnswerMatches(c)
  <1>1. reply'[c].rows = out
    BY ReplyIs DEF MatchInv
  <1>2. ASSUME NEW p \in DOMAIN out
        PROVE  \E k \in collections' : k.id = out[p].coll /\ k.name = req[c].name
    BY HeldIsNamed DEF MatchInv, Holding
  <1> QED
    BY <1>1, <1>2 DEF AnswerMatches, Holding

LEMMA CreateAnswerMatches ==
    ASSUME MatchInv, NEW c \in Clients, CreateEmbeddingsBulk(c)
    PROVE  AnswerMatches(c)
  <1> DEFINE items == req[c].items
             a == BodyAuthz(req[c])
             k == held[c]
             new == Inserted(rows, k, a, items, DOMAIN items)
             table == rows \cup new
             out == BulkWriteResults(Returned(table, k, a, items, DOMAIN items),
                                     k, items, DOMAIN items)
  <1>1. /\ req[c] \in Requests /\ Holds(c) /\ req[c].op = "post_embeddings"
        /\ collections' = collections
    BY DEF MatchInv, FitInv, TypeInv, HandlerType, Holds, CreateEmbeddingsBulk, Writing,
           EmbeddingOps
  <1>2. CASE \E s \in {400, 403, 409, 500} : Finish(c, s, <<>>)
    BY <1>2, EmptyAnswerMatches DEF MatchInv
  <1>3. CASE ~\E s \in {400, 403, 409, 500} : Finish(c, s, <<>>)
    <2>1. /\ \A p \in DOMAIN items, w \in rows : ~SameContent(w, AsRow(k, items[p], a, w.uuid))
          /\ CollectionExists(k)
          /\ rows' = table
          /\ Finish(c, 200, out)
      BY <1>3 DEF CreateEmbeddingsBulk
    <2>2. items \in Seq(Item)
      BY <1>1, RequestFields
    <2>3. \A w \in new, x \in rows : x.uuid # w.uuid
      <3> HIDE DEF a, items, k
      <3> QED
        BY <2>2, InsertedIsNew DEF MatchInv, TwinInv
    <2>4. ASSUME NEW p \in DOMAIN items
          PROVE  /\ out[p] \in rows' /\ Holding(out[p], k, items[p], a)
                 /\ \A w \in rows : w.uuid # out[p].uuid
      <3>2. out[p] \in table /\ Holding(out[p], k, items[p], a)
        <4>1. table = rows \cup Inserted(rows, k, a, items, DOMAIN items)
          OBVIOUS
        <4>2. DOMAIN items \in SUBSET DOMAIN items
          OBVIOUS
        <4> HIDE DEF a, items, k, table
        <4>3. p \in 1..Cardinality(DOMAIN items) /\ Position(p, DOMAIN items) = p
          BY <2>2, AllAreNumbered
        <4> QED
          BY <2>2, <4>1, <4>2, <4>3, LandedThere
      <3>3. out[p] \notin rows
        <4> HIDE DEF out
        <4> QED
          BY <2>1, <3>2 DEF Holding, SameContent, Key, AsRow
      <3> HIDE DEF out, new
      <3> QED
        BY <2>1, <2>3, <3>2, <3>3
    <2>5. DOMAIN out = DOMAIN items
      <3>1. DOMAIN out = 1..Cardinality(DOMAIN items)
        BY DEF BulkWriteResults
      <3>2. DOMAIN items = 1..Len(items) /\ Len(items) \in Nat
        BY <2>2
      <3> HIDE DEF items, out
      <3>3. Cardinality(1..Len(items)) = Len(items)
        <4>1. ASSUME NEW n \in Nat PROVE Cardinality(1..n) = n
          BY FS_Interval
        <4> QED
          BY <3>2, <4>1
      <3> QED
        BY <3>1, <3>2, <3>3
    <2> HIDE DEF out
    <2> QED
      BY <1>1, <2>1, <2>4, <2>5, BulkAnswerMatches
  <1> QED
    BY <1>2, <1>3

LEMMA UpsertAnswerMatches ==
    ASSUME MatchInv, NEW c \in Clients, UpsertEmbeddingsBulk(c)
    PROVE  AnswerMatches(c)
  <1> DEFINE items == req[c].items
             a == BodyAuthz(req[c])
             k == held[c]
             table == AfterUpdate(c) \cup NewRows(c)
             out == Written(table, k, a, items)
  <1>1. /\ req[c] \in Requests /\ Holds(c) /\ req[c].op = "put_embeddings"
        /\ collections' = collections
    BY DEF MatchInv, FitInv, TypeInv, HandlerType, Holds, UpsertEmbeddingsBulk, Writing,
           EmbeddingOps
  <1>2. CASE \E s \in {400, 403, 409, 500} : Finish(c, s, <<>>)
    BY <1>2, EmptyAnswerMatches DEF MatchInv
  <1>3. CASE ~\E s \in {400, 403, 409, 500} : Finish(c, s, <<>>)
    <2>1. /\ \A p \in ById(items) : Target(c, k, items[p].id) # {}
          /\ ByContent(c) = {} \/ CollectionExists(k)
          /\ rows' = table
          /\ Finish(c, 200, out)
      <3> DEFINE named == UNION {Target(c, k, items[p].id) : p \in ById(items)}
                 missing == \E p \in ById(items) : Target(c, k, items[p].id) = {}
                 byContent == DOMAIN items \ ById(items)
                 updated == Updated(k, a, items, named)
                 after == updated \cup Inserted(updated, k, a, items, byContent)
      <3>1. /\ ~missing /\ (byContent = {} \/ CollectionExists(k))
            /\ rows' = after /\ Finish(c, 200, Written(after, k, a, items))
        <4>1. /\ ~Finish(c, 400, <<>>) /\ ~Finish(c, 403, <<>>)
              /\ ~Finish(c, 409, <<>>) /\ ~Finish(c, 500, <<>>)
          BY <1>3
        <4> QED
          BY <4>1 DEF UpsertEmbeddingsBulk
      <3>2. byContent = ByContent(c) /\ updated = AfterUpdate(c)
        BY DEF Named, AfterUpdate, ByContent
      <3>3. after = table
        BY <3>2 DEF NewRows
      <3> QED
        BY <3>1, <3>2, <3>3
    <2>2. items \in Seq(Item)
      BY <1>1, RequestFields
    <2>3. ASSUME NEW p \in DOMAIN items
          PROVE  /\ CollectionExists(k) /\ out[p] \in rows' /\ Holding(out[p], k, items[p], a)
                 /\ items[p].id \in {out[p].uuid, NoValue}
      <3>1. CASE p \in ById(items)
        <4>1. out[p] = AsRow(k, items[p], a, items[p].id)
          <5>1. out[p] = (CHOOSE x \in UpdateReturned(k, a, items) :
                             Position(x.ord, ById(items)) = p).row
            BY <3>1 DEF Written
          <5> HIDE DEF items, k, a, out
          <5> QED
            BY <2>2, <3>1, <5>1, UpdatedThere
        <4>2. AsRow(k, items[p], a, items[p].id) \in AfterUpdate(c)
          BY <3>1 DEF AfterUpdate, Updated
        <4>3. CollectionExists(k)
          BY <2>1, <3>1, TargetExists DEF MatchInv, FitInv
        <4> HIDE DEF out
        <4> QED
          BY <2>1, <4>1, <4>2, <4>3 DEF Holding, AsRow
      <3>2. CASE p \notin ById(items)
        <4> DEFINE ps == ByContent(c)
                   results == BulkWriteResults(Returned(table, k, a, items, ps), k, items, ps)
                   i == CHOOSE n \in DOMAIN results : Position(n, ps) = p
        <4>1. out[p] = results[i]
          BY <3>2 DEF Written, ByContent
        <4>2. items[p].id = NoValue /\ p \in ps /\ ps \in SUBSET DOMAIN items
          BY <3>2 DEF ById, ByContent
        <4>3. table = AfterUpdate(c) \cup Inserted(AfterUpdate(c), k, a, items, ps)
          BY DEF NewRows
        <4>4. DOMAIN results = 1..Cardinality(ps)
          BY DEF BulkWriteResults
        <4>5. DOMAIN items = 1..Len(items) /\ Len(items) \in Nat
          BY <2>2
        <4> HIDE DEF a, items, k, out, table, ps, results
        <4>6. Ordinal(p, ps) \in 1..Cardinality(ps) /\ Position(Ordinal(p, ps), ps) = p
          BY <4>2, <4>5, OrdinalNumbers
        <4>7. i \in 1..Cardinality(ps) /\ Position(i, ps) = p
          BY <4>4, <4>6
        <4> HIDE DEF i
        <4>8. results[i] \in table /\ Holding(results[i], k, items[p], a)
          BY <2>2, <4>2, <4>3, <4>7, LandedThere DEF results
        <4>9. ps # {}
          BY <4>2
        <4> QED
          BY <2>1, <4>1, <4>2, <4>8, <4>9 DEF ps
      <3> QED
        BY <3>1, <3>2
    <2>4. DOMAIN out = DOMAIN items
      BY DEF Written
    <2> HIDE DEF out
    <2> QED
      BY <1>1, <2>1, <2>3, <2>4, BulkAnswerMatches
  <1> QED
    BY <1>2, <1>3

\* A single PUT, and a GET, answer the row they wrote or read.
LEMMA SingleAnswerMatches ==
    ASSUME MatchInv, NEW c \in Clients, UpdateEmbedding(c) \/ GetEmbedding(c)
    PROVE  AnswerMatches(c)
  <1>1. /\ req[c] \in Requests /\ held[c] \in Collection /\ Holds(c)
        /\ collections' = collections
        /\ req[c].op \notin {"post_embeddings", "put_embeddings"}
    BY DEF MatchInv, FitInv, TypeInv, HandlerType, Holds, UpdateEmbedding, GetEmbedding,
           Writing, EmbeddingOps, db
  <1>2. CASE \E s \in {400, 403, 404, 409} : Finish(c, s, <<>>)
    BY <1>1, <1>2, EmptyAnswerMatches DEF MatchInv
  <1>3. ASSUME NEW w \in Target(c, held[c], req[c].id)
        PROVE  /\ w \in rows /\ w \in Row
               /\ \E k \in collections' : k.id = w.coll /\ k.name = req[c].name
    <2>1. CollectionExists(held[c])
      BY TargetExists DEF MatchInv, FitInv
    <2> QED
      BY <1>1, <2>1, HeldIsNamed DEF MatchInv, FitInv, TypeInv, DbType, Target
  <1>4. ASSUME NEW x \in rows', Finish(c, 200, <<x>>),
               \E k \in collections' : k.id = x.coll /\ k.name = req[c].name
        PROVE  AnswerMatches(c)
    <2>1. reply'[c].rows = <<x>>
      BY <1>4, ReplyIs DEF MatchInv
    <2> QED
      BY <1>1, <1>4, <2>1 DEF AnswerMatches
  <1>5. CASE UpdateEmbedding(c) /\ ~\E s \in {400, 403, 404, 409} : Finish(c, s, <<>>)
    <2>1. PICK w \in Target(c, held[c], req[c].id) :
             /\ req[c].vec = NoValue \/ Storable(held[c], req[c].vec)
             /\ rows' = (rows \ {w}) \cup {Merged(c, w)}
             /\ Finish(c, 200, <<Merged(c, w)>>)
      BY <1>5 DEF UpdateEmbedding, Merged
    <2>2. Merged(c, w).coll = w.coll
      BY <1>1, <1>3, <2>1, MergedType
    <2> QED
      BY <1>3, <1>4, <2>1, <2>2
  <1>6. CASE GetEmbedding(c) /\ ~\E s \in {400, 403, 404, 409} : Finish(c, s, <<>>)
    <2>1. PICK w \in Target(c, held[c], req[c].id) : Finish(c, 200, <<w>>)
      BY <1>6 DEF GetEmbedding
    <2>2. rows' = rows
      BY <1>6 DEF GetEmbedding, db
    <2> QED
      BY <1>3, <1>4, <2>1, <2>2
  <1> QED
    BY <1>2, <1>5, <1>6

LEMMA AnswersMatch ==
    ASSUME MatchInv, [Next]_vars, NEW c \in Clients, Answers(c)
    PROVE  AnswerMatches(c)
  <1>1. LastStep(c)
    BY AnswerIsLastStep DEF MatchInv, FitInv, TypeInv
  <1>2. CASE CreateCollection(c) \/ UpdateCollection(c) \/ DeleteCollection(c) \/ DeleteEmbedding(c)
    <2>1. req[c].op \notin {"post_embeddings", "put_embeddings"}
      BY <1>2 DEF CreateCollection, UpdateCollection, DeleteCollection, DeleteEmbedding, Writing
    <2>2. \E s \in {200, 204, 403, 404, 409} : Finish(c, s, <<>>)
      BY <1>2 DEF CreateCollection, UpdateCollection, DeleteCollection, DeleteEmbedding
    <2> QED
      BY <2>1, <2>2, EmptyAnswerMatches DEF MatchInv
  <1>3. CASE QueryFails(c)
    BY <1>3, EmptyAnswerMatches DEF QueryFails, MatchInv
  <1> QED
    BY <1>1, <1>2, <1>3, CreateAnswerMatches, UpsertAnswerMatches, SingleAnswerMatches
       DEF LastStep

\* Every embedding in an answer is in the database under the collection the
\* request named, and a bulk write answers, item by item, what it stored.
THEOREM AnswersAreWhatIsStored == Spec => AnswerMatchesRequest
  <1>1. MatchInv /\ [Next]_vars => \A c \in Clients : Answers(c) => AnswerMatches(c)
    BY AnswersMatch
  <1> QED
    BY <1>1, MatchInvariant, PTL DEF Spec, AnswerMatchesRequest

=============================================================================
