------------------------------ MODULE ReadPaths ------------------------------
(***************************************************************************)
(* The reads that take more than one transaction: bulk reads by id, search *)
(* across collections, and walks through the pages of a listing, of one    *)
(* caller beside writers who create and delete collections and embeddings  *)
(* between the steps.  Readers change nothing, so one stands for all.      *)
(* VectorSearch ranks the hits; here a search keeps all of them.           *)
(***************************************************************************)
EXTENDS Integers, Sequences, SequencesExt, FiniteSetsExt

CONSTANTS
    Names,        \* collection names, numbered in alphabetical order
    Allowed,      \* the names the caller's grants cover: RLS of both tables
    MaxId,        \* bound: collections ever created
    Uuids,        \* embedding ids, in order
    Contents,     \* a vector with its metadata
    Requests,     \* the reads of the caller
    MaxSearched,  \* MAX_COLLECTIONS_SEARCHED
    PageSize,
    MaxChanges,   \* bound: writes of others during one read
    None,
    Gone          \* a deleted embedding: its id is never drawn again

\* Names and ids have an order, and there are finitely many ids.
ASSUME OrderAssumption ==
    Names \subseteq Int /\ Uuids \subseteq Int /\ IsFiniteSet(Uuids) /\ MaxId \in Nat

ASSUME LimitsAssumption == MaxSearched \in Nat \ {0} /\ PageSize \in Nat \ {0}

Row(id, authz, content) == [collection |-> id, authz |-> authz, content |-> content]

\* What stands for nothing is neither a row nor an embedding.
ASSUME RowAssumption ==
    /\ None # Gone
    /\ \A id \in 1..MaxId, x \in Contents :
        /\ \A n \in Names : Row(id, n, x) \notin {None, Gone}
        /\ \A u \in Uuids : [id |-> u, collection |-> id, content |-> x] # None

ASSUME RequestAssumption ==
    \A r \in Requests :
        /\ r.op \in {"bulk", "bulk_in", "search", "collections", "embeddings"}
        /\ r.ids \in Seq(Range(r.ids))
        /\ r.names # None => r.names \in Seq(Range(r.names))
        /\ r.op = "search" => r.vector_type \in {"vector", "halfvec"}

Types == {"vector", "halfvec"}
Collection == [id : 1..MaxId, name : Names, vector_type : Types]

VARIABLES
    collections, \* the table: set of collections
    rows,        \* id to [collection (its id), authz, content], None or Gone
    nextId,      \* collections_id_seq
    pc, req,     \* the read and where it is
    found,       \* embeddings fetched so far
    held,        \* collections fetched so far, in order
    page,        \* of a walk
    answer,      \* [status, items]
    seen,        \* what was visible at some moment since the read began
    always,      \* what was visible at every moment since
    changes      \* writes since the read began

tables == <<collections, rows, nextId>>
reader == <<pc, req, found, held, page, answer>>
vars == <<tables, reader, seen, always, changes>>

-----------------------------------------------------------------------------
(* What the caller sees: both tables under row-level security.              *)

VisibleCollections(cs) == {c \in cs : c.name \in Allowed}

Embedding(rs, u) == [id |-> u, collection |-> rs[u].collection, content |-> rs[u].content]

\* SELECT * FROM embeddings_<type>, under the policy on authz.
VisibleRows(cs, rs, type) ==
    {Embedding(rs, u) : u \in {v \in Uuids :
        /\ rs[v] \notin {None, Gone}
        /\ rs[v].authz \in Allowed
        /\ \E c \in cs : c.id = rs[v].collection /\ c.vector_type = type}}

\* An embedding with the collection it is shown in, or a collection listed.
Shown(e, c) == [embedding |-> e, collection |-> c]
Listed(c) == [embedding |-> None, collection |-> c]

\* All that an answer could show truthfully.
Facts(cs, rs) ==
    {Listed(c) : c \in VisibleCollections(cs)} \cup
    UNION {{Shown(e, c) : e \in {x \in VisibleRows(cs, rs, c.vector_type) : x.collection = c.id}}
             : c \in VisibleCollections(cs)}

ByName(n) == {c \in VisibleCollections(collections) : c.name = n}

\* The k-th smallest of a set of numbers.
Nth(S, k) == CHOOSE x \in S : Cardinality({y \in S : y < x}) = k - 1

\* ORDER BY collection_name, which is unique, and ORDER BY embedding_id.
NamesInOrder(cs) ==
    LET names == {c.name : c \in cs} IN
    [k \in 1..Cardinality(names) |-> CHOOSE c \in cs : c.name = Nth(names, k)]
IdsInOrder(es) ==
    LET ids == {e.id : e \in es} IN
    [k \in 1..Cardinality(ids) |-> CHOOSE e \in es : e.id = Nth(ids, k)]

\* LIMIT and OFFSET.
Slice(s, offset, limit) == SubSeq(s, offset + 1, Min({offset + limit, Len(s)}))

\* Seeded fault: the collection of a hit is any one of its vector type.
HeldAnyOfType(cs, id) == cs

\* collection_by_id.get(id): the collection held under that id, if any.
HeldById(cs, id) == {c \in cs : c.id = id}

-----------------------------------------------------------------------------
NoAnswer == [status |-> 0, items |-> <<>>]

Answer(status, items) ==
    /\ pc' = "done"
    /\ answer' = [status |-> status, items |-> items]
    /\ UNCHANGED <<tables, req, found, held, page, seen, always, changes>>

Goto(state) == pc' = state /\ UNCHANGED <<tables, req, page, answer, seen, always, changes>>

Begin(r) ==
    /\ pc = "idle"
    /\ req' = r
    /\ pc' = IF r.op = "bulk" THEN "vector"
             ELSE IF r.op = "search" THEN (IF r.names = None THEN "list" ELSE "names")
             ELSE IF r.op = "collections" THEN "page" ELSE "lookup"
    /\ found' = {} /\ held' = <<>> /\ page' = 1
    /\ answer' = NoAnswer
    /\ seen' = Facts(collections, rows)
    /\ always' = Facts(collections, rows)
    /\ changes' = 0
    /\ UNCHANGED tables

Asked == {e \in VisibleRows(collections, rows, "vector") : e.id \in Range(req.ids)}
AskedHalf == {e \in VisibleRows(collections, rows, "halfvec") : e.id \in Range(req.ids)}

\* get_embeddings_bulk: two statements, each with a snapshot of its own.
FetchVector ==
    /\ pc = "vector"
    /\ found' = Asked
    /\ UNCHANGED held
    /\ Goto("halfvec")

FetchHalfvec ==
    /\ pc = "halfvec"
    /\ found' = found \cup AskedHalf
    /\ UNCHANGED held
    /\ Goto("collections")

\* Seeded fault: an id asked for twice is answered once.
AtFirstPosition(es, cs) ==
    LET Of(e, i) == [index |-> i, fact |-> Shown(e, CHOOSE c \in HeldById(cs, e.collection) : TRUE)]
        at == {i \in DOMAIN req.ids :
                 /\ \A j \in 1..(i - 1) : req.ids[j] # req.ids[i]
                 /\ \E e \in es : e.id = req.ids[i] /\ HeldById(cs, e.collection) # {}}
    IN  [k \in 1..Cardinality(at) |->
            LET i == Nth(at, k) IN
            Of(CHOOSE e \in es : e.id = req.ids[i], i)]

\* The request's order, duplicates included; what has no row or whose collection
\* the caller does not see, or no longer, is left out.
InRequestOrder(es, cs) ==
    LET Of(e, i) == [index |-> i, fact |-> Shown(e, CHOOSE c \in HeldById(cs, e.collection) : TRUE)]
        at == {i \in DOMAIN req.ids :
                 \E e \in es : e.id = req.ids[i] /\ HeldById(cs, e.collection) # {}}
    IN  [k \in 1..Cardinality(at) |->
            LET i == Nth(at, k) IN
            Of(CHOOSE e \in es : e.id = req.ids[i], i)]

\* get_collection_by_id_bulk, in a transaction of its own.
FetchCollections ==
    /\ pc = "collections"
    /\ Answer(200, InRequestOrder(found,
                {c \in VisibleCollections(collections) : \E e \in found : e.collection = c.id}))

\* get_collection_by_name, for a bulk read or a page of one collection.
Lookup ==
    /\ pc = "lookup"
    /\ IF ByName(req.name) = {} THEN Answer(404, answer.items)
       ELSE /\ held' = SetToSeq(ByName(req.name))
            /\ UNCHANGED found
            /\ Goto(IF req.op = "bulk_in" THEN "fetch" ELSE "page")

\* get_embeddings_bulk_from_collection_ordered, with the collection held.
FetchOrdered ==
    /\ pc = "fetch"
    /\ LET c == held[1] IN
       Answer(200, InRequestOrder(
           {e \in VisibleRows(collections, rows, c.vector_type) : e.collection = c.id}, {c}))

\* search_across_collections with names: one lookup each.
LookupNext ==
    /\ pc = "names"
    /\ IF Len(held) = Len(req.names)
         THEN IF held = <<>> THEN Answer(200, <<>>)
              ELSE UNCHANGED <<found, held>> /\ Goto("search")
         ELSE LET n == req.names[Len(held) + 1] IN
              IF ByName(n) = {} THEN Answer(400, <<>>)
              ELSE held' = held \o SetToSeq(ByName(n)) /\ UNCHANGED found /\ Goto("names")

\* list_collections(limit=MAX_COLLECTIONS_SEARCHED + 1).
ListedForSearch == Slice(NamesInOrder(VisibleCollections(collections)), 0, MaxSearched + 1)

\* Without names: every collection, or 400 where one search may not span them.
ListForSearch ==
    /\ pc = "list"
    /\ IF Len(ListedForSearch) > MaxSearched THEN Answer(400, <<>>)
       ELSE IF ListedForSearch = <<>> THEN Answer(200, <<>>)
       ELSE held' = ListedForSearch /\ UNCHANGED found /\ Goto("search")

\* The arms of the search: the collections held, of the type asked for.
Targets == {c \in Range(held) : c.vector_type = req.vector_type}

\* The ranked rows, in another transaction, each with the collection held.
Search ==
    LET hits == {e \in VisibleRows(collections, rows, req.vector_type) :
                    \E c \in Targets : c.id = e.collection}
        Of(e) == CHOOSE c \in HeldById(Range(held), e.collection) : TRUE
        order == IdsInOrder(hits)
    IN
    /\ pc = "search"
    /\ IF \E e \in hits : HeldById(Range(held), e.collection) = {}
         THEN Answer(500, <<>>)
         ELSE Answer(200, [k \in DOMAIN order |-> [index |-> k, fact |-> Shown(order[k], Of(order[k]))]])

\* What a walk pages through: the collections, or the embeddings of one.
Listing ==
    IF req.op = "collections"
      THEN [k \in DOMAIN NamesInOrder(VisibleCollections(collections)) |->
               Listed(NamesInOrder(VisibleCollections(collections))[k])]
      ELSE LET c == held[1]
               es == IdsInOrder({e \in VisibleRows(collections, rows, c.vector_type) : e.collection = c.id})
           IN  [k \in DOMAIN es |-> Shown(es[k], c)]

\* Seeded fault: a full page is taken for the last one.
LastWhenFull(items) == Len(items) <= PageSize

\* next_page is null: the page is not full.
LastPage(items) == Len(items) # PageSize

\* One page, in a request of its own (which looks its collection up again), and
\* on to the next where there is one.
FetchPage ==
    LET now == Slice(Listing, (page - 1) * PageSize, PageSize)
        items == answer.items \o [k \in DOMAIN now |-> [index |-> page, fact |-> now[k]]]
    IN
    /\ pc = "page"
    /\ IF LastPage(now) THEN Answer(200, items)
       ELSE /\ answer' = [status |-> 0, items |-> items]
            /\ page' = page + 1
            /\ pc' = IF req.op = "collections" THEN "page" ELSE "lookup"
            /\ UNCHANGED <<tables, req, found, held, seen, always, changes>>

-----------------------------------------------------------------------------
(* Writers, each step one committed transaction of theirs.                  *)

Change ==
    /\ IF pc = "idle" THEN UNCHANGED <<seen, always, changes>>
       ELSE /\ pc # "done" /\ changes < MaxChanges
            /\ changes' = changes + 1
            /\ seen' = seen \cup Facts(collections', rows')
            /\ always' = always \cap Facts(collections', rows')
    /\ UNCHANGED reader

CreateCollection(n, type) ==
    /\ nextId <= MaxId
    /\ \A c \in collections : c.name # n
    /\ collections' = collections \cup {[id |-> nextId, name |-> n, vector_type |-> type]}
    /\ nextId' = nextId + 1
    /\ UNCHANGED rows
    /\ Change

Stored(u) == rows[u] \notin {None, Gone}

\* With its embeddings, by cascade.
DeleteCollection(c) ==
    /\ collections' = collections \ {c}
    /\ rows' = [u \in Uuids |->
                  IF Stored(u) /\ rows[u].collection = c.id THEN Gone ELSE rows[u]]
    /\ UNCHANGED nextId
    /\ Change

\* An insert, or an update of what the row holds and who may see it.
PutEmbedding(u, c, n, x) ==
    /\ rows[u] # Gone
    /\ Stored(u) => rows[u].collection = c.id
    /\ rows' = [rows EXCEPT ![u] = Row(c.id, n, x)]
    /\ UNCHANGED <<collections, nextId>>
    /\ Change

DeleteEmbedding(u) ==
    /\ Stored(u)
    /\ rows' = [rows EXCEPT ![u] = Gone]
    /\ UNCHANGED <<collections, nextId>>
    /\ Change

Init ==
    /\ collections = {} /\ nextId = 1
    /\ rows = [u \in Uuids |-> None]
    /\ pc = "idle" /\ req = None /\ found = {} /\ held = <<>> /\ page = 1
    /\ answer = NoAnswer
    /\ seen = {} /\ always = {} /\ changes = 0

\* The caller has its answer.
Return ==
    /\ pc = "done"
    /\ pc' = "idle" /\ req' = None /\ found' = {} /\ held' = <<>> /\ page' = 1
    /\ answer' = NoAnswer
    /\ seen' = {} /\ always' = {} /\ changes' = 0
    /\ UNCHANGED tables

Read ==
    \/ \E r \in Requests : Begin(r)
    \/ FetchVector \/ FetchHalfvec \/ FetchCollections
    \/ Lookup \/ FetchOrdered
    \/ LookupNext \/ ListForSearch \/ Search
    \/ FetchPage
    \/ Return

Others ==
    \/ \E n \in Names, type \in Types : CreateCollection(n, type)
    \/ \E c \in collections : DeleteCollection(c)
    \/ \E u \in Uuids, c \in collections, n \in Names, x \in Contents : PutEmbedding(u, c, n, x)
    \/ \E u \in Uuids : DeleteEmbedding(u)

Next == Read \/ Others

Spec == Init /\ [][Next]_vars

-----------------------------------------------------------------------------
Shows == {answer.items[k].fact : k \in DOMAIN answer.items}
Walks == {"collections", "embeddings"}

\* No answer shows an embedding, its content and its collection together that
\* were not together at some moment of the read, although they come from
\* transactions between which anything may be deleted, recreated or moved.
AnswersAreTruthful == Shows \subseteq seen

\* A read asks for this: an id of a bulk read, all of a search.
AskedFor(f) ==
    /\ f.embedding # None
    /\ \/ req.op = "bulk" /\ f.embedding.id \in Range(req.ids)
       \/ req.op = "bulk_in" /\ f.embedding.id \in Range(req.ids) /\ f.collection.name = req.name
       \/ /\ req.op = "search" /\ f.collection.vector_type = req.vector_type
          /\ req.names # None => f.collection.name \in Range(req.names)

\* What was there all along is in the answer, at every position it was asked
\* for: a bulk read looks in both tables, and a search that is answered searched
\* every collection the caller can see ("rather than searching a subset").
AnswersAreComplete ==
    pc = "done" /\ answer.status = 200 =>
        \A f \in always : AskedFor(f) =>
            /\ f \in Shows
            /\ req.op \in {"bulk", "bulk_in"} =>
                  \A i \in DOMAIN req.ids : req.ids[i] = f.embedding.id =>
                      \E k \in DOMAIN answer.items : answer.items[k] = [index |-> i, fact |-> f]

\* The place of a fact in its listing.
Place(f) == IF req.op = "collections" THEN f.collection.name ELSE f.embedding.id

\* A walk through the pages of a listing that nobody disturbs shows everything,
\* once, in order.
QuietWalksAreExact ==
    pc = "done" /\ answer.status = 200 /\ req.op \in Walks /\ seen = always =>
        /\ \A f \in always :
              IF req.op = "collections" THEN f.embedding = None => f \in Shows
              ELSE f.embedding # None /\ f.collection.name = req.name => f \in Shows
        /\ \A j, k \in DOMAIN answer.items :
              j < k => Place(answer.items[j].fact) < Place(answer.items[k].fact)

-----------------------------------------------------------------------------
(* What the documents say and the code does not do; README, "Deviations".   *)

\* routes/collections.py:35 of the listing: "Returns every vector collection you
\* have access to, one page at a time".  So a walk shows what was there all along.
WalksShowEvery ==
    pc = "done" /\ answer.status = 200 /\ req.op = "collections" =>
        \A f \in always : f.embedding = None => f \in Shows
=============================================================================
