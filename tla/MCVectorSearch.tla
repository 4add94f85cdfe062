---------------------------- MODULE MCVectorSearch ----------------------------
(* A small instance of VectorSearch for TLC. *)
EXTENDS VectorSearch

Col(i, type) == [id |-> i, vector_type |-> type, dimensions |-> 2]
MCCollections == {Col(1, "vector"), Col(2, "vector"), Col(3, "halfvec")}

\* Distances under cosine and l2 that disagree with each other and with the
\* Hamming distance.  Two rows of collection 1 are at one Hamming distance and two
\* at one l2 distance, and its last is as near as one of collection 2.
Emb(i, c, cosine, l2, hamming, passes) ==
    [uuid |-> i, collection |-> c,
     dist |-> [cosine_distance |-> cosine, l2_distance |-> l2, inner_product |-> -cosine,
               l1_distance |-> l2],
     hamming |-> hamming, passes |-> passes]

MCEmbeddings ==
    {Emb(1, 1, 0, 5, 2, TRUE), Emb(2, 1, 1, 2, 1, FALSE), Emb(3, 1, 3, 2, 2, TRUE),
     Emb(4, 2, 1, 3, 5, TRUE), Emb(5, 2, 3, 1, 4, TRUE)}

Shape(table, opclass, expression, predicate) ==
    [table |-> table, opclass |-> opclass, expression |-> expression,
     predicate |-> predicate, dimensions |-> 2]

\* Of collection 1 a binary index, one on the other table and one over a cast its
\* table does not store; of collection 2 a direct one.
MCShapes ==
    {Shape("embeddings_vector", "bit_hamming_ops", "bit", 1),
     Shape("embeddings_halfvec", "halfvec_cosine_ops", "halfvec", 1),
     Shape("embeddings_vector", "halfvec_cosine_ops", "halfvec", 1),
     Shape("embeddings_vector", "vector_cosine_ops", "vector", 2)}

Body(metric, k, lo, hi, filtered) ==
    [metric |-> metric, top_k |-> k, min_value |-> lo, max_value |-> hi,
     filtered |-> filtered, vector_type |-> "vector", dimensions |-> 2]

\* With filters, and with a threshold on either side that cuts near or far hits.
Bounds == {<<Nothing, Nothing>>, <<-1, Nothing>>, <<2, Nothing>>, <<Nothing, -1>>, <<Nothing, 2>>}
MCQueries ==
    {Body(metric, k, b[1], b[2], FALSE) :
        metric \in {"cosine_similarity", "l2_distance"}, k \in {1, 3}, b \in Bounds}
    \cup {Body(metric, k, Nothing, Nothing, TRUE) : metric \in {"cosine_similarity", "l2_distance"}, k \in {1, 3}}
=============================================================================
