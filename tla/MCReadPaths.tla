----------------------------- MODULE MCReadPaths -----------------------------
(* Small instances of ReadPaths for TLC. *)
EXTENDS ReadPaths

Request(op, name, names, ids, type) ==
    [op |-> op, name |-> name, names |-> names, ids |-> ids, vector_type |-> type]

\* An id asked for twice, one that is in either table, and one after the other.
BulkRequests ==
    {Request("bulk", None, None, <<2, 1, 2>>, None),
     Request("bulk_in", 1, None, <<2, 1, 2>>, None)}

SearchRequests ==
    {Request("search", None, None, <<>>, "vector"),
     Request("search", None, <<2, 1>>, <<>>, "vector")}

WalkRequests ==
    {Request("collections", None, None, <<>>, None),
     Request("embeddings", 1, None, <<>>, None)}

MCRequests == BulkRequests \cup SearchRequests \cup WalkRequests
=============================================================================
