---------------------------- MODULE VectorSearch ----------------------------
(***************************************************************************)
(* Similarity search: the index discovery of startup, the choice of an     *)
(* index and of a query form per collection, the candidate pools and       *)
(* hnsw.ef_search, and the merge of the arms of a cross-collection search. *)
(*                                                                         *)
(* Every search asks for one query vector, so an embedding is its distance *)
(* under each metric and its Hamming distance.  No query says which of the *)
(* rows at one distance it takes first, so a query is the set of what it   *)
(* may return.  An index scan yields rows in index order.                  *)
(***************************************************************************)
EXTENDS Integers, FiniteSets, FiniteSetsExt

CONSTANTS
    Collections,       \* [id, vector_type, dimensions]
    Embeddings,        \* [uuid, collection, dist, hamming, passes]: passes its filters
    Shapes,            \* indexes an operator may build
    Queries,           \* search bodies
    IterativeScan,     \* HNSW_ITERATIVE_SCAN is not "off"
    EfSearch,          \* HNSW_EF_SEARCH
    MaxEfSearch,       \* HNSW_MAX_EF_SEARCH
    RescoreMultiplier, RescoreMin, RescoreMax,
    Nothing            \* no threshold, no index, no candidate pool

Types == {"vector", "halfvec"}

Metrics == {"cosine_similarity", "cosine_distance", "l2_distance", "inner_product", "l1_distance"}

\* Both halves of `cosine_similarity`: its operator and the index that serves it.
Ordering(metric) == IF metric = "cosine_similarity" THEN "cosine_distance" ELSE metric

ASSUME NumbersAssumption ==
    /\ {EfSearch, MaxEfSearch, RescoreMultiplier, RescoreMin, RescoreMax} \subseteq Nat
    /\ Nothing \notin Int

\* A search body.
Query == [metric : Metrics, top_k : Nat, min_value : Int \cup {Nothing}, max_value : Int \cup {Nothing},
          filtered : BOOLEAN, vector_type : Types, dimensions : Nat]

ASSUME QueriesAssumption == Queries \subseteq Query

ASSUME CollectionsAssumption ==
    \A c \in Collections : c.vector_type \in Types /\ c.id \in Nat

\* The table is finite, and what a search ranks by is ordered.
ASSUME EmbeddingsAssumption ==
    /\ IsFiniteSet(Embeddings)
    /\ \A e \in Embeddings : e.hamming \in Int
    /\ \A e \in Embeddings, m \in Metrics : e.dist[Ordering(m)] \in Int

VARIABLES
    rows,      \* the embeddings stored
    catalog,   \* pg_index: shapes, each valid or not
    known      \* DataAccessLayerBase.vector_indexes, as discovered at startup

searchVars == <<rows, catalog, known>>

TableOf(type) == IF type = "vector" THEN "embeddings_vector" ELSE "embeddings_halfvec"

OpclassMetric ==
    [vector_cosine_ops |-> "cosine_distance", vector_l2_ops |-> "l2_distance",
     vector_ip_ops |-> "inner_product", vector_l1_ops |-> "l1_distance",
     halfvec_cosine_ops |-> "cosine_distance", halfvec_l2_ops |-> "l2_distance",
     halfvec_ip_ops |-> "inner_product", halfvec_l1_ops |-> "l1_distance"]

-----------------------------------------------------------------------------
(* Index discovery.  The expression of an index is a cast to a vector type, *)
(* or "bit" for binary_quantize(); its predicate names a collection, or is  *)
(* Nothing where it is anything but (collection_id = n).                    *)

\* _parse: the shapes that search emits.
Usable(i) ==
    /\ i.predicate # Nothing
    /\ \/ i.opclass = "bit_hamming_ops" /\ i.expression = "bit"
       \/ /\ i.opclass \in DOMAIN OpclassMetric
          /\ i.expression \in Types
          /\ TableOf(i.expression) = i.table

Parse(i) ==
    [table |-> i.table, dimensions |-> i.dimensions,
     strategy |-> IF i.expression = "bit" THEN "binary" ELSE "direct",
     metric |-> IF i.expression = "bit" THEN Nothing ELSE OpclassMetric[i.opclass],
     vector_type |-> IF i.expression = "bit" THEN Nothing ELSE i.expression]

\* What stands for no index is not one.
ASSUME NothingAssumption == \A s \in Shapes : Parse(s) # Nothing

\* discover_vector_indexes: the valid ones, by collection.
Discovered ==
    [c \in Collections |->
        {Parse(e.shape) : e \in {x \in catalog : x.valid /\ Usable(x.shape) /\ x.shape.predicate = c.id}}]

\* Seeded fault: an index on the other table is as good as any.
ChooseIndexAnyTable(c, q) ==
    LET usable == {i \in known[c] : i.dimensions = c.dimensions}
        direct == {i \in usable : i.strategy = "direct" /\ i.metric = Ordering(q.metric)}
        binary == {i \in usable : i.strategy = "binary"}
    IN  IF direct # {} THEN CHOOSE i \in direct : TRUE
        ELSE IF binary # {} THEN CHOOSE i \in binary : TRUE ELSE Nothing

\* choose_index: a direct index of the metric, else a binary one.
ChooseIndex(c, q) ==
    LET usable == {i \in known[c] : i.table = TableOf(c.vector_type) /\ i.dimensions = c.dimensions}
        direct == {i \in usable : i.strategy = "direct" /\ i.metric = Ordering(q.metric)}
        binary == {i \in usable : i.strategy = "binary"}
    IN  IF direct # {} THEN CHOOSE i \in direct : TRUE
        ELSE IF binary # {} THEN CHOOSE i \in binary : TRUE ELSE Nothing

Form(c, q) ==
    LET i == ChooseIndex(c, q) IN IF i = Nothing THEN "direct" ELSE i.strategy

\* Postgres: an index the planner can use for a form of the query on c.
Serves(e, c, form, q) ==
    /\ e.valid
    /\ e.shape.table = TableOf(c.vector_type)
    /\ e.shape.predicate \in {c.id, Nothing}
    /\ e.shape.dimensions = c.dimensions
    /\ IF form = "binary" THEN e.shape.expression = "bit" /\ e.shape.opclass = "bit_hamming_ops"
       ELSE /\ e.shape.expression = c.vector_type
            /\ e.shape.opclass \in DOMAIN OpclassMetric
            /\ OpclassMetric[e.shape.opclass] = Ordering(q.metric)

-----------------------------------------------------------------------------
(* What a query ranks by, and the rows it may return.                       *)

Dist(q, e) == e.dist[Ordering(q.metric)]
Value(q, e) == IF q.metric = "cosine_similarity" THEN 1 - Dist(q, e) ELSE Dist(q, e)

\* Seeded fault: every value is sorted upwards.
RankUp(q, e) == Value(q, e)

\* value_order: DESC for a similarity.
Rank(q, e) == IF q.metric = "cosine_similarity" THEN -Value(q, e) ELSE Value(q, e)

\* _threshold_clauses, on the reported value.
Within(q, e) ==
    /\ q.min_value # Nothing => Value(q, e) >= q.min_value
    /\ q.max_value # Nothing => Value(q, e) <= q.max_value

\* ORDER BY key LIMIT k: any k rows with none before them left out.
Nearest(S, Key(_), k) ==
    {T \in kSubset(Min({k, Cardinality(S)}), S) : \A e \in T, f \in S \ T : Key(e) <= Key(f)}

\* One of the possible results for each of cs.
OneOfEach(cs, Results(_)) ==
    {result \in [cs -> UNION {Results(c) : c \in cs}] : \A c \in cs : result[c] \in Results(c)}

\* Seeded fault: the pool is capped below what the caller wants back.
RescoreLimitCapped(c, q) ==
    IF Form(c, q) # "binary" THEN Nothing
    ELSE Max({Min({q.top_k * RescoreMultiplier, RescoreMax}), RescoreMin})

BinaryRescoreLimit(c, q) ==
    IF Form(c, q) # "binary" THEN Nothing
    ELSE Max({Min({q.top_k * RescoreMultiplier, RescoreMax}), RescoreMin, q.top_k})

\* Seeded fault: the pool does not raise hnsw.ef_search.
EfDefault(pools) == EfSearch

\* _with_rls: hnsw.ef_search of the transaction, for the pools of its arms.
Ef(pools) == Min({Max({EfSearch} \cup (pools \ {Nothing})), MaxEfSearch})

ScanKey(q, form, e) == IF form = "binary" THEN e.hamming ELSE Dist(q, e)

\* The rows of c a scan reaches: without iterative scans an index yields ef.
Reached(c, q, form, ef, iterative) ==
    LET Key(e) == ScanKey(q, form, e)
        own == {e \in rows : e.collection = c.id}
    IN  IF ~iterative /\ \E i \in catalog : Serves(i, c, form, q) THEN Nearest(own, Key, ef) ELSE {own}

\* The candidate query on c: the filters cut down what the scan reaches.
Scan(c, q, form, limit, ef) ==
    LET Key(e) == ScanKey(q, form, e)
    IN  UNION {Nearest({e \in reached : q.filtered => e.passes}, Key, limit) :
                  reached \in Reached(c, q, form, ef, IterativeScan)}

\* build_search_sql, for a query of c's dimensions.
SearchInCollection(c, q) ==
    LET pool == BinaryRescoreLimit(c, q)
        ef == Ef({pool})
        Key(e) == Rank(q, e)
        Kept(hits) == {e \in hits : Within(q, e)}
    IN  IF pool = Nothing
          THEN {Kept(hits) : hits \in Scan(c, q, "direct", q.top_k, ef)}
          ELSE UNION {Nearest(Kept(hits), Key, q.top_k) : hits \in Scan(c, q, "binary", pool, ef)}

\* One arm of build_multi_collection_search_sql.
Arm(c, q, ef) ==
    LET pool == BinaryRescoreLimit(c, q)
        Key(e) == Rank(q, e)
    IN  IF pool = Nothing THEN Scan(c, q, "direct", q.top_k, ef)
        ELSE UNION {Nearest(hits, Key, q.top_k) : hits \in Scan(c, q, "binary", pool, ef)}

\* The collections that can hold a hit.
Targets(cs, q) == {c \in cs : c.vector_type = q.vector_type /\ c.dimensions = q.dimensions}

SearchAcrossCollections(cs, q) ==
    LET targets == Targets(cs, q)
        ef == Ef({BinaryRescoreLimit(c, q) : c \in targets})
        Key(e) == Rank(q, e)
        Hits(c) == Arm(c, q, ef)
    IN  UNION {Nearest({e \in UNION {hits[c] : c \in targets} : Within(q, e)}, Key, q.top_k) :
                  hits \in OneOfEach(targets, Hits)}

-----------------------------------------------------------------------------
SearchInit ==
    /\ rows \in SUBSET Embeddings
    /\ catalog = {}
    /\ known = Discovered

\* CREATE INDEX CONCURRENTLY: the index is INVALID until the build is done, and
\* stays so where it fails.
CreateIndex(s) ==
    /\ \A e \in catalog : e.shape # s
    /\ catalog' = catalog \cup {[shape |-> s, valid |-> FALSE]}
    /\ UNCHANGED <<rows, known>>

IndexBuilt(e) ==
    /\ ~e.valid
    /\ catalog' = (catalog \ {e}) \cup {[e EXCEPT !.valid = TRUE]}
    /\ UNCHANGED <<rows, known>>

DropIndex(e) ==
    /\ catalog' = catalog \ {e}
    /\ UNCHANGED <<rows, known>>

\* A pod starts: what search knows is what the catalog holds now.
Restart ==
    /\ known' = Discovered
    /\ UNCHANGED <<rows, catalog>>

Write(e) == rows' = rows \cup {e} /\ UNCHANGED <<catalog, known>>
Delete(e) == rows' = rows \ {e} /\ UNCHANGED <<catalog, known>>

SearchNext ==
    \/ \E s \in Shapes : CreateIndex(s)
    \/ \E e \in catalog : IndexBuilt(e) \/ DropIndex(e)
    \/ Restart
    \/ \E e \in Embeddings : Write(e) \/ Delete(e)

SearchSpec == SearchInit /\ [][SearchNext]_searchVars

-----------------------------------------------------------------------------
Own(c, q) == {e \in rows : e.collection = c.id /\ (q.filtered => e.passes)}

\* While the catalog is as it was at startup, no search goes without an index
\* that could have served it, and none gives up precision for nothing: where a
\* valid index of the collection answers some form of the query, or the form is
\* the binary one, a valid index answers the form emitted.  An index on the other
\* table or over another cast must not draw a search to a form nothing serves.
EmittedFormIsServed ==
    known = Discovered =>
        \A c \in Collections, q \in Queries :
            \/ Form(c, q) = "binary"
            \/ \E e \in catalog : /\ e.shape.predicate = c.id
                                  /\ Serves(e, c, "direct", q) \/ Serves(e, c, "binary", q)
            => \E e \in catalog : Serves(e, c, Form(c, q), q)

\* With iterative scans, a search without thresholds is short of top_k only when
\* its collections are, whatever happened to the indexes since startup.
SearchesFill ==
    \A q \in Queries : q.min_value = Nothing /\ q.max_value = Nothing =>
        /\ \A c \in Targets(Collections, q) :
              {Cardinality(hits) : hits \in SearchInCollection(c, q)}
                = {Min({q.top_k, Cardinality(Own(c, q))})}
        /\ {Cardinality(hits) : hits \in SearchAcrossCollections(Collections, q)}
             = {Min({q.top_k, Cardinality(UNION {Own(c, q) : c \in Targets(Collections, q)})})}

\* "Each arm takes its own top_k, and the outer query re-sorts and takes top_k
\* again.  That is exactly equivalent to a global top-k" (helpers.py), of the
\* rows of direct arms and the pools of binary ones: whichever of the rows at one
\* distance the arms take, nothing else can come out, and all of that can.
MergeIsGlobalTopK ==
    \A q \in Queries : q.min_value = Nothing /\ q.max_value = Nothing =>
        LET targets == Targets(Collections, q)
            ef == Ef({BinaryRescoreLimit(c, q) : c \in targets})
            Key(e) == Dist(q, e)
            Pools(c) == IF BinaryRescoreLimit(c, q) = Nothing THEN {Own(c, q)}
                        ELSE Scan(c, q, "binary", BinaryRescoreLimit(c, q), ef)
        IN  SearchAcrossCollections(Collections, q)
              = UNION {Nearest(UNION {pool[c] : c \in targets}, Key, q.top_k) :
                          pool \in OneOfEach(targets, Pools)}

\* The bound that drops distant hits "changes nothing, because everything it
\* removes sorts after everything it keeps" (_threshold_clauses): the answers are
\* those of the same search without it, less the hits beyond it.
FarBoundOnlyCuts ==
    \A q \in Queries :
        LET far == IF q.metric = "cosine_similarity" THEN q.max_value = Nothing ELSE q.min_value = Nothing
            open == [q EXCEPT !.min_value = Nothing, !.max_value = Nothing]
            Cut(results) == {{e \in hits : Within(q, e)} : hits \in results}
        IN  far =>
              /\ SearchAcrossCollections(Collections, q) = Cut(SearchAcrossCollections(Collections, open))
              /\ \A c \in Targets(Collections, q) :
                    SearchInCollection(c, q) = Cut(SearchInCollection(c, open))

\* hnsw.ef_search covers the pool of every binary arm: even a scan that stops
\* there, since iterative scans are off, yields an unfiltered pool in full, up to
\* what pgvector accepts.
PoolsNotTruncated ==
    \A q \in Queries : ~q.filtered =>
        \A cs \in SUBSET Collections : \A c \in Targets(cs, q) :
            LET pool == BinaryRescoreLimit(c, q)
                ef == Ef({BinaryRescoreLimit(d, q) : d \in Targets(cs, q)})
            IN  pool # Nothing =>
                  \A reached \in Reached(c, q, "binary", ef, FALSE) :
                      Cardinality(reached) >= Min({pool, Cardinality(Own(c, q)), MaxEfSearch})

-----------------------------------------------------------------------------
(* What the documents say and the code does not do; README, "Deviations".   *)

\* routes/search.py:137 of searching in batches: ordering the combined batches
\* and keeping the first top_k "gives exactly what a single search over all of
\* them would".  With iterative scans it does, without them it does not.
BatchingKeepsResults ==
    \A q \in Queries, batch \in SUBSET Collections :
        LET Key(e) == Rank(q, e) IN
        UNION {Nearest(some \cup others, Key, q.top_k) :
                  some \in SearchAcrossCollections(batch, q),
                  others \in SearchAcrossCollections(Collections \ batch, q)}
          = SearchAcrossCollections(Collections, q)

\* helpers.py of the binary arm of a cross-collection search: "Same two-stage
\* shape as the single-collection binary path".  So a search that names one
\* collection finds what the search of that collection finds.
OneIsAcrossOne ==
    \A q \in Queries : \A c \in Targets(Collections, q) :
        SearchAcrossCollections({c}, q) = SearchInCollection(c, q)
=============================================================================
