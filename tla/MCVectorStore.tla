---------------------------- MODULE MCVectorStore ----------------------------
(***************************************************************************)
(* Small instances of VectorStore for TLC.                                 *)
(*                                                                         *)
(* "a" and "b" have one component and the same float16 value, "x" has one  *)
(* component too large for float16, "w" has two components.                *)
(***************************************************************************)
EXTENDS VectorStore, TLC

MCNames == {"docs"}
MCPaths == {"/docs", "/prog"}
MCPathOf == [n \in MCNames |-> "/docs"]
MCVectors == {"a", "b", "x", "w"}
MCDimOf == [a |-> 1, b |-> 1, x |-> 1, w |-> 2]
MCStored == [vector  |-> [a |-> "a", b |-> "b", x |-> "x", w |-> "w"],
             halfvec |-> [a |-> "a", b |-> "a", x |-> NoValue, w |-> NoValue]]
MCMetas == {"m", "n"}

Base == [op |-> "get_embedding", name |-> "docs", items |-> <<>>, authz |-> NoValue,
         id |-> NoValue, vec |-> NoValue, meta |-> NoValue, dims |-> NoValue,
         vtype |-> NoValue, desc |-> NoValue]

Create(d, t) == [Base EXCEPT !.op = "create_collection", !.dims = d, !.vtype = t]
Post(items, p) == [Base EXCEPT !.op = "post_embeddings", !.items = items, !.authz = p]
Put(items, p) == [Base EXCEPT !.op = "put_embeddings", !.items = items, !.authz = p]
PutOne(u, v, p) == [Base EXCEPT !.op = "put_embedding", !.id = u, !.vec = v, !.authz = p]
It(u, v) == [id |-> u, vec |-> v, meta |-> "m"]

\* Two interchangeable clients, a collection that is deleted and recreated
\* under their hands.
ClientSymmetry == Permutations(Clients)
LifecycleGrants == {{}, {"/docs"}, {"/docs", "/prog"}}
LifecycleRequests ==
    {Create(1, "vector"), Create(1, "halfvec"),
     [Base EXCEPT !.op = "delete_collection"],
     [Base EXCEPT !.op = "patch_collection"],
     [Base EXCEPT !.op = "patch_collection", !.desc = "d"],
     Post(<<It(NoValue, "a"), It(NoValue, "b")>>, NoValue),
     Post(<<It(NoValue, "a")>>, "/prog"),
     Put(<<It(1, "b"), It(NoValue, "a")>>, "/prog"),
     Put(<<It(NoValue, "b")>>, "/prog"),
     PutOne(1, "b", "/prog"),
     [Base EXCEPT !.op = "delete_embedding", !.id = 2]}

\* One client, every bulk write of up to two items over one collection, and a
\* few in which items alternate between id and content or differ in metadata.
BulkGrants == {{"/docs"}, {"/docs", "/prog"}}
BulkItems == {It(u, v) : u \in {NoValue, 1, 2}, v \in {"a", "b"}}
BulkRequests ==
    {Create(1, "vector"), Create(1, "halfvec"), Create(2, "vector")}
    \cup {Put(<<i, j>>, p) : i \in BulkItems, j \in BulkItems, p \in {NoValue, "/prog"}}
    \cup {Put(<<It(NoValue, v)>>, NoValue) : v \in {"x", "w", RawText}}
    \cup {Post(<<It(NoValue, "a"), It(NoValue, v)>>, NoValue) : v \in {"a", "b", "x"}}
    \cup {Put(<<It(NoValue, v), It(1, "b"), It(NoValue, "a")>>, NoValue) : v \in {"a", "b"}}
    \cup {Post(<<It(NoValue, "a"), [It(NoValue, "b") EXCEPT !.meta = "n"]>>, NoValue)}
    \cup {PutOne(1, v, p) : v \in {NoValue, "a", "b", "x"}, p \in {NoValue, "/prog"}}
    \cup {[Base EXCEPT !.op = o, !.id = 1] : o \in {"get_embedding", "delete_embedding"}}
=============================================================================
