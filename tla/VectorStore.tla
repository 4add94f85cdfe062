----------------------------- MODULE VectorStore -----------------------------
(***************************************************************************)
(* The gen3_embeddings service: request handlers of several clients over   *)
(* one Postgres database.                                                  *)
(*                                                                         *)
(* A handler is not one atomic step.  It asks the policy engine what the   *)
(* caller may touch (AuthzDependency), looks the collection up by name in  *)
(* one transaction, may ask the policy engine again about an authz path    *)
(* taken from the body, and then writes in a second transaction, with the  *)
(* Collection object it read in the first.  Everything other clients do in *)
(* between, up to deleting the collection and creating another one of the  *)
(* same name, happens between those steps here as well.                    *)
(*                                                                         *)
(* One DAL transaction (_with_rls) is one step.  UpsertEmbeddingsBulk runs *)
(* two statements in its transaction; their order is kept.                 *)
(***************************************************************************)
EXTENDS Integers, Sequences, FiniteSets

CONSTANTS
    Clients,        \* callers of the HTTP API
    Names,          \* normalized collection names
    Paths,          \* authz resource paths
    PathOf,         \* the path /vectorstore/collections/{name} of each name
    GrantSets,      \* the sets of paths the policy engine may resolve a caller to
    Vectors,        \* vectors as the caller sends them
    DimOf,          \* number of components of a vector
    Stored,         \* per vector type: what the column holds after rounding
    RawText,        \* an item that carries text chunks in place of a vector
    Metas,          \* metadata values, {} included
    Descriptions,   \* collection descriptions
    Requests,       \* the requests clients send
    MaxCollections, \* bound: collection ids the identity sequence hands out
    MaxRows,        \* bound: embedding ids gen_random_uuid hands out
    SkipAuth,       \* DEBUG_SKIP_AUTH, and with it a role that bypasses RLS
    NoValue         \* None / NULL

VTypes == {"vector", "halfvec"}
Dims == {DimOf[v] : v \in Vectors}
Uuids == 1..MaxRows
Ids == 1..MaxCollections

Actions == {"read", "create", "update", "delete"}

ASSUME PathAssumption ==
    /\ PathOf \in [Names -> Paths]
    /\ \A m, n \in Names : PathOf[m] = PathOf[n] => m = n
    /\ GrantSets \subseteq SUBSET Paths

\* Rounding to storage precision keeps the number of components, and rounding
\* twice is rounding once.  NoValue stands for a value the type cannot hold.
ASSUME VectorAssumption ==
    /\ DimOf \in [Vectors -> Nat]
    /\ Stored \in [VTypes -> [Vectors -> Vectors \cup {NoValue}]]
    /\ RawText \notin Vectors
    /\ NoValue \notin Vectors
    /\ \A t \in VTypes, v \in Vectors :
          LET w == Stored[t][v] IN
          w # NoValue => DimOf[w] = DimOf[v] /\ Stored[t][w] = w

ASSUME BoundAssumption == MaxCollections \in Nat /\ MaxRows \in Nat /\ SkipAuth \in BOOLEAN

\* An element of CreateEmbeddingsBody.embeddings.
Item == [id : Uuids \cup {NoValue}, vec : Vectors \cup {RawText}, meta : Metas]

EmbeddingOps == {"get_embedding", "post_embeddings", "put_embeddings",
                 "put_embedding", "delete_embedding"}
CollectionOps == {"create_collection", "patch_collection", "delete_collection"}

\* One record for every kind of request: a field the operation has no use for
\* holds NoValue (or the empty sequence).
Request ==
    [op     : EmbeddingOps \cup CollectionOps,
     name   : Names,
     items  : Seq(Item),
     authz  : Paths \cup {NoValue},
     id     : Uuids \cup {NoValue},
     vec    : Vectors \cup {NoValue},
     meta   : Metas \cup {NoValue},
     dims   : Dims \cup {NoValue},
     vtype  : VTypes \cup {NoValue},
     desc   : Descriptions \cup {NoValue}]

\* The request schemas: items are never empty, a new collection has its shape.
ASSUME RequestAssumption ==
    /\ Requests \subseteq Request
    /\ NoValue \notin Paths /\ NoValue \notin Metas /\ NoValue \notin Descriptions
    /\ NoValue \notin Requests
    /\ \A r \in Requests :
          /\ r.op = "create_collection" => r.dims \in Dims /\ r.vtype \in VTypes
          /\ r.op \in {"post_embeddings", "put_embeddings"} => r.items # <<>>


VARIABLES
    collections,  \* rows of the table collections
    nextId,       \* next value of its identity sequence
    rows,         \* rows of embeddings_vector and embeddings_halfvec
    nextUuid,     \* every embedding id handed out so far is below it
    req,          \* the request each client has in flight
    phase,        \* how far its handler has come
    grants,       \* AuthzContext.allowed_authz of that handler
    asked,        \* <<action, path>> pairs the policy engine granted it
    held,         \* the Collection object the handler read
    reply         \* the response: a status and the embeddings it carries

db == <<collections, nextId, rows, nextUuid>>
vars == <<collections, nextId, rows, nextUuid, req, phase, grants, asked, held, reply>>

Collection == [id : Ids, name : Names, dims : Dims, vtype : VTypes,
               desc : Descriptions \cup {NoValue}]
Row == [uuid : Uuids, table : VTypes, coll : Ids, vec : Vectors, meta : Metas,
        authz : Paths]
Phases == {"idle", "arrived", "lookup", "require", "write"}
NoReply == [status |-> 0, rows |-> <<>>]

Init ==
    /\ collections = {}
    /\ nextId = 1
    /\ rows = {}
    /\ nextUuid = 1
    /\ req = [c \in Clients |-> NoValue]
    /\ phase = [c \in Clients |-> "idle"]
    /\ grants = [c \in Clients |-> {}]
    /\ asked = [c \in Clients |-> {}]
    /\ held = [c \in Clients |-> NoValue]
    /\ reply = [c \in Clients |-> NoReply]

-----------------------------------------------------------------------------
(* Authorization as the routes declare it, and row-level security.          *)

\* The action a route declares: it scopes row-level security.
Declared(op) ==
    CASE op = "get_embedding" -> "read"
      [] op \in {"create_collection", "post_embeddings"} -> "create"
      [] op \in {"patch_collection", "put_embeddings", "put_embedding"} -> "update"
      [] op \in {"delete_collection", "delete_embedding"} -> "delete"

\* Seeded fault: the route forgets also_require.
DemandedOwnOnly(op) == {Declared(op)}

\* The actions demanded on the resources a request names.
Demanded(op) ==
    {Declared(op)} \cup (IF op = "put_embeddings" THEN {"create"} ELSE {})

\* POST /vectorstore/collections is the one write whose path names no collection.
NamedInPath(op) == op # "create_collection"

\* The policies' predicates, the same for USING and WITH CHECK.
AuthzAllowed(c, a) == SkipAuth \/ a \in grants[c]
NameAllowed(c, n) == SkipAuth \/ PathOf[n] \in grants[c]

\* get_allowed_collection_names_from_authz, the set the DAL compares names with.
AllowedNames(c) == {n \in Names : PathOf[n] \in grants[c]}

\* The authz path stored with every embedding of a bulk write.
BodyAuthz(r) == IF r.authz = NoValue THEN PathOf[r.name] ELSE r.authz

\* Whether the handler calls ctx.require before its write.
NeedsRequire(r) ==
    \/ /\ r.op \in {"post_embeddings", "put_embeddings"}
       /\ BodyAuthz(r) # PathOf[r.name]
    \/ r.op = "put_embedding" /\ r.authz # NoValue

\* The response leaves and the handler's locals are gone.
Finish(c, status, embeddings) ==
    /\ phase' = [phase EXCEPT ![c] = "idle"]
    /\ req' = [req EXCEPT ![c] = NoValue]
    /\ reply' = [reply EXCEPT ![c] = [status |-> status, rows |-> embeddings]]
    /\ grants' = [grants EXCEPT ![c] = {}]
    /\ asked' = [asked EXCEPT ![c] = {}]
    /\ held' = [held EXCEPT ![c] = NoValue]

\* A client sends a request.
Send(c, r) ==
    /\ phase[c] = "idle"
    /\ req' = [req EXCEPT ![c] = r]
    /\ phase' = [phase EXCEPT ![c] = "arrived"]
    /\ reply' = [reply EXCEPT ![c] = NoReply]
    /\ UNCHANGED <<db, grants, asked, held>>

\* AuthzDependency.__call__.  The grants come from auth_mapping, the yes or no
\* from auth_request: two calls to a policy engine whose answers may differ.
Authz(c, allowed, granted) ==
    LET r == req[c] IN
    /\ phase[c] = "arrived"
    /\ IF NamedInPath(r.op) /\ ~SkipAuth /\ ~granted
         THEN Finish(c, 403, <<>>)
         ELSE /\ grants' = [grants EXCEPT ![c] = IF SkipAuth THEN {} ELSE allowed]
              /\ asked' = [asked EXCEPT ![c] =
                             IF NamedInPath(r.op) /\ ~SkipAuth
                               THEN Demanded(r.op) \X {PathOf[r.name]}
                               ELSE {}]
              /\ phase' = [phase EXCEPT ![c] =
                             IF r.op \in EmbeddingOps THEN "lookup" ELSE "write"]
              /\ UNCHANGED <<req, held, reply>>
    /\ UNCHANGED db

\* get_collection_by_name at the top of every embedding route.
GetCollectionByName(c) ==
    LET r == req[c]
        found == {k \in collections : k.name = r.name /\ NameAllowed(c, k.name)}
    IN
    /\ phase[c] = "lookup"
    /\ IF found = {}
         THEN Finish(c, 404, <<>>)
         ELSE /\ \E k \in found : held' = [held EXCEPT ![c] = k]
              /\ phase' = [phase EXCEPT ![c] =
                             IF NeedsRequire(r) THEN "require" ELSE "write"]
              /\ UNCHANGED <<req, grants, asked, reply>>
    /\ UNCHANGED db

\* AuthzContext.require: the body's authz path, for the demanded actions.
Require(c, granted) ==
    LET r == req[c] IN
    /\ phase[c] = "require"
    /\ IF ~SkipAuth /\ ~granted
         THEN Finish(c, 403, <<>>)
         ELSE /\ asked' = [asked EXCEPT ![c] =
                             IF SkipAuth THEN @
                             ELSE @ \cup (Demanded(r.op) \X {r.authz})]
              /\ phase' = [phase EXCEPT ![c] = "write"]
              /\ UNCHANGED <<req, grants, held, reply>>
    /\ UNCHANGED db

Writing(c, op) == phase[c] = "write" /\ req[c].op = op

\* A transaction that fails for a reason of its own: statement_timeout, a lost
\* connection, an exhausted pool.  Nothing is written.
QueryFails(c) ==
    /\ phase[c] \in {"lookup", "write"}
    /\ Finish(c, 500, <<>>)
    /\ UNCHANGED db

-----------------------------------------------------------------------------
(* Collections.                                                             *)

\* WriteMixin.create_collection.  A refused INSERT has consumed its id.
CreateCollection(c) ==
    LET r == req[c] IN
    /\ Writing(c, "create_collection")
    /\ IF r.name \notin AllowedNames(c)
         THEN Finish(c, 403, <<>>) /\ UNCHANGED db
         ELSE /\ nextId \in Ids
              /\ nextId' = nextId + 1
              /\ IF \E k \in collections : k.name = r.name
                   THEN Finish(c, 409, <<>>) /\ UNCHANGED collections
                   ELSE /\ collections' = collections \cup
                             {[id |-> nextId, name |-> r.name, dims |-> r.dims,
                               vtype |-> r.vtype, desc |-> r.desc]}
                        /\ Finish(c, 200, <<>>)
              /\ UNCHANGED <<rows, nextUuid>>

\* WriteMixin.update_collection: only the description is ever assigned.
UpdateCollection(c) ==
    LET r == req[c]
        found == {k \in collections : k.name = r.name /\ NameAllowed(c, k.name)}
    IN
    /\ Writing(c, "patch_collection")
    /\ IF found = {}
         THEN Finish(c, 404, <<>>) /\ UNCHANGED collections
         ELSE /\ collections' =
                   IF r.desc = NoValue THEN collections
                   ELSE (collections \ found) \cup {[k EXCEPT !.desc = r.desc] : k \in found}
              /\ Finish(c, 200, <<>>)
    /\ UNCHANGED <<nextId, rows, nextUuid>>

\* WriteMixin.delete_collection: the cascade runs without row-level security.
DeleteCollection(c) ==
    LET r == req[c]
        found == {k \in collections : k.name = r.name /\ NameAllowed(c, k.name)}
    IN
    /\ Writing(c, "delete_collection")
    /\ collections' = collections \ found
    /\ rows' = {w \in rows : \A k \in found : w.coll # k.id}
    /\ Finish(c, IF found = {} THEN 404 ELSE 204, <<>>)
    /\ UNCHANGED <<nextId, nextUuid>>

-----------------------------------------------------------------------------
(* Embeddings.  Content is compared through its hashes, taken at storage    *)
(* precision, so equal hashes are equal stored values.                      *)

\* Seeded fault: no check that the type can hold every component.
StorableUnchecked(k, v) == v \in Vectors /\ DimOf[v] = k.dims

\* to_storage_array: the vector fits the collection the handler holds.
Storable(k, v) == v \in Vectors /\ DimOf[v] = k.dims /\ Stored[k.vtype][v] # NoValue

\* The unique index on (collection_id, embedding_hash_v2, metadata_hash_v2, authz).
Key(w) == <<w.table, w.coll, w.vec, w.meta, w.authz>>

\* Seeded fault: the table has no policy on its own rows.
TargetUnguarded(c, k, id) == {w \in rows : w.table = k.vtype /\ w.coll = k.id /\ w.uuid = id}

\* The row with this id that a handler can see through the collection it holds.
Target(c, k, id) ==
    {w \in rows : w.table = k.vtype /\ w.coll = k.id /\ w.uuid = id /\ AuthzAllowed(c, w.authz)}

\* What an item of a bulk write is stored as.
AsRow(k, item, a, uuid) ==
    [uuid |-> uuid, table |-> k.vtype, coll |-> k.id,
     vec |-> Stored[k.vtype][item.vec], meta |-> item.meta, authz |-> a]

SameContent(w, x) == Key(w) = Key(x)

\* The hashes of item p: the key of its row within a batch.
HashPair(k, items, p) == <<Stored[k.vtype][items[p].vec], items[p].meta>>

\* _dedupe_rows: of the positions ps, the first of each content.
Firsts(k, items, ps) ==
    {p \in ps : \A q \in ps : q < p => HashPair(k, items, q) # HashPair(k, items, p)}

\* original_to_unique: the position whose row stands for item p in the batch.
UniqueOf(k, items, ps, p) ==
    CHOOSE q \in Firsts(k, items, ps) : HashPair(k, items, q) = HashPair(k, items, p)

\* _insert_bulk_batch over a table state: the rows the INSERT adds, each under
\* an id of its own; a content that is already there adds none.
Inserted(table, k, a, items, ps) ==
    {w \in {AsRow(k, items[p], a, nextUuid + p - 1) : p \in Firsts(k, items, ps)} :
        \A x \in table : ~SameContent(w, x)}

UseUuids(inserted, items) ==
    nextUuid' = IF inserted = {} THEN nextUuid ELSE nextUuid + Len(items)

\* RETURNING of that INSERT, over the table it leaves: the rows it added and,
\* with ON CONFLICT, those it met.  Postgres promises no order.
Returned(table, k, a, items, ps) ==
    {w \in table : \E p \in Firsts(k, items, ps) : SameContent(w, AsRow(k, items[p], a, w.uuid))}

\* Positions ps of the request as the list by_id or by_content: the number of a
\* position in it, from 1 like WITH ORDINALITY, and the position of a number.
Ordinal(p, ps) == Cardinality({q \in ps : q <= p})
Position(i, ps) == CHOOSE p \in ps : Ordinal(p, ps) = i

\* _bulk_write_results: rows_by_key finds the row of each hash pair of the
\* batch, and original_to_unique hands it to every item it stands for; result i
\* is for the i-th item of the batch.  No pair is ever without a row, so its
\* EmbeddingWriteInconsistencyError has no part in this.
BulkWriteResults(returned, k, items, ps) ==
    [i \in 1..Cardinality(ps) |->
        LET key == HashPair(k, items, UniqueOf(k, items, ps, Position(i, ps))) IN
        CHOOSE w \in returned : <<w.vec, w.meta>> = key]

\* Seeded fault: no foreign key to collections.
CollectionUnchecked(k) == TRUE

\* The foreign key of the embedding tables.
CollectionExists(k) == \E x \in collections : x.id = k.id

\* create_embeddings_in_collection with WriteMixin.create_embeddings_bulk.
CreateEmbeddingsBulk(c) ==
    LET r == req[c]
        k == held[c]
        a == BodyAuthz(r)
        ps == DOMAIN r.items
        new == Inserted(rows, k, a, r.items, ps)
        table == rows \cup new
    IN
    /\ Writing(c, "post_embeddings")
    /\ \/ /\ \E p \in ps : ~Storable(k, r.items[p].vec)
          /\ Finish(c, 400, <<>>)
          /\ UNCHANGED <<rows, nextUuid>>
       \/ /\ \A p \in ps : Storable(k, r.items[p].vec)
          /\ \/ /\ ~AuthzAllowed(c, a)
                /\ Finish(c, 403, <<>>)
                /\ UNCHANGED <<rows, nextUuid>>
             \/ /\ AuthzAllowed(c, a)
                /\ \E p \in ps, w \in rows : SameContent(w, AsRow(k, r.items[p], a, w.uuid))
                /\ Finish(c, 409, <<>>)
                /\ UNCHANGED <<rows, nextUuid>>
             \/ /\ AuthzAllowed(c, a)
                /\ \A p \in ps, w \in rows : ~SameContent(w, AsRow(k, r.items[p], a, w.uuid))
                /\ IF CollectionExists(k)
                     THEN /\ nextUuid + Len(r.items) - 1 \in Uuids
                          /\ rows' = table
                          /\ UseUuids(new, r.items)
                          /\ Finish(c, 200,
                                     BulkWriteResults(Returned(table, k, a, r.items, ps),
                                                      k, r.items, ps))
                     ELSE Finish(c, 500, <<>>) /\ UNCHANGED <<rows, nextUuid>>
    /\ UNCHANGED <<collections, nextId>>

\* The UPDATE of WriteMixin.upsert_embeddings_bulk.  Item p replaces the row
\* Target(c, k, items[p].id); the unique index is checked row by row, in
\* whatever order the statement visits the rows (order[p] is p's turn).
ById(items) == {p \in DOMAIN items : items[p].id # NoValue}

VisitOrders(ps, items) ==
    {order \in [ps -> 1..Len(items)] : \A p, q \in ps : order[p] = order[q] => p = q}

\* The key row w has when p's turn comes, in this order.
KeyAtTurn(w, p, order, k, a, items) ==
    IF \E q \in DOMAIN order : order[q] < order[p] /\ items[q].id = w.uuid
      THEN Key(AsRow(k, items[CHOOSE q \in DOMAIN order : items[q].id = w.uuid], a, w.uuid))
      ELSE Key(w)

\* Seeded fault: the UPDATE runs without the unique index.
CollidesNever(order, k, a, items) == FALSE

Collides(order, k, a, items) ==
    \E p \in DOMAIN order, w \in rows :
        /\ w.uuid # items[p].id
        /\ Key(AsRow(k, items[p], a, items[p].id)) = KeyAtTurn(w, p, order, k, a, items)

\* The table after the UPDATE went through.
Updated(k, a, items, named) ==
    (rows \ named) \cup {AsRow(k, items[p], a, items[p].id) : p \in ById(items)}

\* RETURNING of that UPDATE: each row with the ordinality of the input it was
\* joined to.
UpdateReturned(k, a, items) ==
    {[row |-> AsRow(k, items[p], a, items[p].id), ord |-> Ordinal(p, ById(items))] :
        p \in ById(items)}

\* Seeded fault: the results are answered in the order of the two statements.
WrittenInStatementOrder(table, k, a, items) ==
    LET byId == ById(items)
        byContent == DOMAIN items \ byId
        results == BulkWriteResults(Returned(table, k, a, items, byContent), k, items, byContent)
    IN [p \in DOMAIN items |->
           IF p <= Cardinality(byId)
             THEN (CHOOSE x \in UpdateReturned(k, a, items) : x.ord = p).row
             ELSE results[p - Cardinality(byId)]]

\* The dict `written`, read out in the items' order: a row of the UPDATE under the
\* position of its input, result i of the INSERT under the i-th position of
\* by_content.
Written(table, k, a, items) ==
    LET byId == ById(items)
        byContent == DOMAIN items \ byId
        results == BulkWriteResults(Returned(table, k, a, items, byContent), k, items, byContent)
    IN [p \in DOMAIN items |->
           IF p \in byId
             THEN (CHOOSE x \in UpdateReturned(k, a, items) : Position(x.ord, byId) = p).row
             ELSE results[CHOOSE i \in DOMAIN results : Position(i, byContent) = p]]

\* put_embeddings_in_collection with WriteMixin.upsert_embeddings_bulk: first
\* the UPDATE of the items with an id, then the INSERT ... ON CONFLICT of the
\* others, in one transaction.
UpsertEmbeddingsBulk(c) ==
    LET r == req[c]
        items == r.items
        k == held[c]
        a == BodyAuthz(r)
        byId == ById(items)
        byContent == DOMAIN items \ byId
        named == UNION {Target(c, k, items[p].id) : p \in byId}
        invalid ==
            \/ \E p \in DOMAIN items : ~Storable(k, items[p].vec)
            \/ \E p, q \in byId : p # q /\ items[p].id = items[q].id
        missing == \E p \in byId : Target(c, k, items[p].id) = {}
        updated == Updated(k, a, items, named)
        new == Inserted(updated, k, a, items, byContent)
        table == updated \cup new
        Refuse(status) == Finish(c, status, <<>>) /\ UNCHANGED <<rows, nextUuid>>
    IN
    /\ Writing(c, "put_embeddings")
    /\ \/ invalid /\ Refuse(400)
       \/ ~invalid /\ named # {} /\ ~AuthzAllowed(c, a) /\ Refuse(403)
       \/ /\ ~invalid /\ (named = {} \/ AuthzAllowed(c, a))
          /\ \E order \in VisitOrders({p \in byId : Target(c, k, items[p].id) # {}}, items) :
                IF Collides(order, k, a, items)
                  THEN Refuse(409)
                ELSE IF missing
                  THEN Refuse(400)
                ELSE IF byContent # {} /\ ~AuthzAllowed(c, a)
                  THEN Refuse(403)
                ELSE IF byContent # {} /\ ~CollectionExists(k)
                  THEN Refuse(500)
                ELSE /\ nextUuid + Len(items) - 1 \in Uuids \/ new = {}
                     /\ rows' = table
                     /\ UseUuids(new, items)
                     /\ Finish(c, 200, Written(table, k, a, items))
    /\ UNCHANGED <<collections, nextId>>

\* update_embedding_in_collection with WriteMixin.update_embedding: only the
\* supplied fields are written, and no field at all makes it a plain read.
UpdateEmbedding(c) ==
    LET r == req[c]
        k == held[c]
        found == Target(c, k, r.id)
        Merge(w) == [w EXCEPT !.vec = IF r.vec = NoValue THEN @ ELSE Stored[k.vtype][r.vec],
                              !.meta = IF r.meta = NoValue THEN @ ELSE r.meta,
                              !.authz = IF r.authz = NoValue THEN @ ELSE r.authz]
    IN
    /\ Writing(c, "put_embedding")
    /\ IF r.vec # NoValue /\ ~Storable(k, r.vec)
         THEN Finish(c, 400, <<>>) /\ UNCHANGED rows
       ELSE IF found = {}
         THEN Finish(c, 400, <<>>) /\ UNCHANGED rows
       ELSE \E w \in found :
            IF ~AuthzAllowed(c, Merge(w).authz)
              THEN Finish(c, 403, <<>>) /\ UNCHANGED rows
            ELSE IF \E x \in rows : x # w /\ SameContent(x, Merge(w))
              THEN Finish(c, 409, <<>>) /\ UNCHANGED rows
            ELSE /\ rows' = (rows \ {w}) \cup {Merge(w)}
                 /\ Finish(c, 200, <<Merge(w)>>)
    /\ UNCHANGED <<collections, nextId, nextUuid>>

\* delete_embedding with WriteMixin.delete_embedding.
DeleteEmbedding(c) ==
    LET found == Target(c, held[c], req[c].id) IN
    /\ Writing(c, "delete_embedding")
    /\ rows' = rows \ found
    /\ Finish(c, IF found = {} THEN 404 ELSE 204, <<>>)
    /\ UNCHANGED <<collections, nextId, nextUuid>>

\* get_embedding_from_collection with ReadMixin.get_embedding_by_collection_and_id.
GetEmbedding(c) ==
    LET found == Target(c, held[c], req[c].id) IN
    /\ Writing(c, "get_embedding")
    /\ IF found = {}
         THEN Finish(c, 404, <<>>)
         ELSE \E w \in found : Finish(c, 200, <<w>>)
    /\ UNCHANGED db

-----------------------------------------------------------------------------
Handle(c) ==
    \/ \E allowed \in GrantSets, granted \in BOOLEAN : Authz(c, allowed, granted)
    \/ GetCollectionByName(c)
    \/ \E granted \in BOOLEAN : Require(c, granted)
    \/ CreateCollection(c)
    \/ UpdateCollection(c)
    \/ DeleteCollection(c)
    \/ CreateEmbeddingsBulk(c)
    \/ UpsertEmbeddingsBulk(c)
    \/ UpdateEmbedding(c)
    \/ DeleteEmbedding(c)
    \/ GetEmbedding(c)
    \/ QueryFails(c)

Next == \E c \in Clients : Handle(c) \/ \E r \in Requests : Send(c, r)

Spec == Init /\ [][Next]_vars

-----------------------------------------------------------------------------
TypeOK ==
    /\ collections \subseteq Collection
    /\ nextId \in 1..(MaxCollections + 1)
    /\ rows \subseteq Row
    /\ nextUuid \in 1..(MaxRows + 1)
    /\ req \in [Clients -> Requests \cup {NoValue}]
    /\ phase \in [Clients -> Phases]
    /\ grants \in [Clients -> SUBSET Paths]
    /\ asked \in [Clients -> SUBSET (Actions \X Paths)]
    /\ held \in [Clients -> Collection \cup {NoValue}]
    /\ \A c \in Clients : phase[c] # "idle" => req[c] \in Requests

\* Every embedding belongs to a collection that exists, lies in the table of
\* its vector type, has its number of dimensions and is exactly what that type
\* stores.  The handlers write with a Collection they read in an earlier
\* transaction (routes/embeddings.py looks it up, dal/writes.py uses it), so
\* this is where a collection deleted and recreated meanwhile would show.
RowsFitCollection ==
    \A w \in rows : \E k \in collections :
        /\ k.id = w.coll
        /\ k.vtype = w.table
        /\ k.dims = DimOf[w.vec]
        /\ Stored[w.table][w.vec] = w.vec

\* No two embeddings of a collection hold the same vector, metadata and authz,
\* whatever mix of POST, bulk PUT and single PUT wrote them and however their
\* vectors were rounded (the deduplication the unique index is there for).
NoTwins == \A w, x \in rows : SameContent(w, x) => w = x

\* The step in which the handler of c answers after its last transaction.
Answers(c) == phase[c] = "write" /\ phase'[c] = "idle"

AnswerMatches(c) ==
    LET r == req[c]
        out == reply'[c].rows
    IN
    /\ \A p \in DOMAIN out :
          /\ out[p] \in rows'
          /\ \E k \in collections' : k.id = out[p].coll /\ k.name = r.name
    /\ r.op \in {"post_embeddings", "put_embeddings"} /\ reply'[c].status = 200 =>
          /\ DOMAIN out = DOMAIN r.items
          /\ \A p \in DOMAIN out :
                /\ out[p].vec = Stored[out[p].table][r.items[p].vec]
                /\ out[p].meta = r.items[p].meta
                /\ out[p].authz = BodyAuthz(r)
                /\ IF r.op = "put_embeddings"
                     THEN r.items[p].id \in {out[p].uuid, NoValue}
                     ELSE \A w \in rows : w.uuid # out[p].uuid

\* Every embedding an answer carries is in the database under a collection of
\* the name in the request's path.  A bulk write answers one embedding per
\* item, in the items' order, holding what that item is stored as, under the
\* id the item names (PUT) or under an id that did not exist before (POST);
\* this is what _dedupe_rows, _bulk_write_results and `written` keep aligned.
AnswerMatchesRequest == [][\A c \in Clients : Answers(c) => AnswerMatches(c)]_vars

GrantsBound(c) ==
    /\ \A w \in rows \ rows' :
          (\E k \in collections' : k.id = w.coll) => AuthzAllowed(c, w.authz)
    /\ \A w \in rows' \ rows : AuthzAllowed(c, w.authz)
    /\ \A k \in (collections \ collections') \cup (collections' \ collections) :
          NameAllowed(c, k.name)

\* Row-level security bounds every change: a request adds, changes and removes
\* only embeddings whose authz, before and after, is among the grants resolved
\* for its one declared action, and collections so named; the one exception is
\* the cascade of a collection's deletion.
GrantsBoundChanges == [][\A c \in Clients : Answers(c) => GrantsBound(c)]_vars

\* The name of the collection with this id, before the step.
NameOf(id) == (CHOOSE k \in collections : k.id = id).name

ChecksCover(c) ==
    /\ \A w \in rows' \ rows :
          LET before == {x \in rows : x.uuid = w.uuid} IN
          IF before = {}
            THEN {<<"create", PathOf[NameOf(w.coll)]>>, <<"create", w.authz>>} \subseteq asked[c]
            ELSE /\ <<"update", PathOf[NameOf(w.coll)]>> \in asked[c]
                 /\ \A x \in before : x.authz # w.authz => <<"update", w.authz>> \in asked[c]
    /\ \A w \in rows \ rows' :
          (\A x \in rows' : x.uuid # w.uuid) =>
             <<"delete", PathOf[NameOf(w.coll)]>> \in asked[c]
    /\ \A k \in collections \ collections' :
          <<IF \E l \in collections' : l.id = k.id THEN "update" ELSE "delete",
            PathOf[k.name]>> \in asked[c]

\* The policy engine was asked, during the request that made it, about every
\* change that is not bounded by the grants alone: an embedding is created only
\* where `create` was granted on its collection's path and on its own authz,
\* changed only where `update` was granted on the collection's path and moved
\* only to an authz `update` was granted on, removed only where `delete` was
\* granted on the collection's path; the same for collections.
ChecksCoverChanges == [][~SkipAuth => \A c \in Clients : Answers(c) => ChecksCover(c)]_vars

-----------------------------------------------------------------------------
(* What the documents say and the code does not do; README, "Deviations".   *)

\* database/errors.py:78 of DuplicateEmbeddingError: "The write would leave two
\* identical embeddings".  So a bulk PUT of items with ids is answered 409 only
\* if the table after it would hold two rows with the same content.
ConflictMeansTwins ==
    [][\A c \in Clients :
        Answers(c) /\ req[c].op = "put_embeddings" /\ reply'[c].status = 409 =>
            LET items == req[c].items
                a == BodyAuthz(req[c])
                named == UNION {Target(c, held[c], items[p].id) : p \in ById(items)}
            IN \E w, x \in Updated(held[c], a, items, named) : w # x /\ SameContent(w, x)]_vars

\* database/dal/base.py:40 of the Python checks on names beside row-level
\* security: "The two cannot disagree".  So a create_collection is refused
\* with a 403 only if the policy refuses the name as well.
NameCheckAgreesWithPolicy ==
    [][\A c \in Clients :
        Answers(c) /\ req[c].op = "create_collection" /\ reply'[c].status = 403 =>
            ~NameAllowed(c, req[c].name)]_vars

=============================================================================
