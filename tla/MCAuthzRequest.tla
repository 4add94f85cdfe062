---------------------------- MODULE MCAuthzRequest ----------------------------
(* Small instances of AuthzRequest for TLC. *)
EXTENDS AuthzRequest

\* "A" is a spelling of collection "a"; "/A" cannot name a stored collection, and
\* "/x" is an authz of rows that has nothing to do with collections.
MCResources == {"/", "/a", "/A", "/x"}
MCResourceOf == [n \in Names |-> IF n = "a" THEN "/a" ELSE "/A"]
MCNormalOf == [n \in Names |-> "a"]

Entry(r, s, m) == [resource |-> r, service |-> s, method |-> m]
MCEntries ==
    {Entry("/a", "ours", "read"), Entry("/a", "*", "update"), Entry("/a", "ours", "create"),
     Entry("/x", "ours", "*"), Entry("/a", "other", "read"), Entry("/", "ours", "*"),
     Entry("/A", "ours", "read")}

Asks(t, n, a, also, b, one) ==
    [token |-> t, name |-> n, action |-> a, also |-> also, body |-> b, one |-> one]

\* Reads of a collection or of all; a PUT of one row, an upsert and a POST, each
\* with an authz of its own in the body or without; and every other token.
MCRequests ==
    {Asks("good", n, "read", {}, None, FALSE) : n \in {"A", None}}
    \cup {Asks("good", "A", "update", {}, b, TRUE) : b \in {"/a", "/x", None}}
    \cup {Asks("good", "A", "update", {"create"}, b, FALSE) : b \in {"/a", "/x", None}}
    \cup {Asks("good", "A", "create", {}, b, FALSE) : b \in {"/a", "/x"}}
    \cup {Asks(t, n, "read", {}, None, FALSE) : t \in {"none", "bad"}, n \in {"A", None}}
=============================================================================
