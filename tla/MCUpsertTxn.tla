---------------------------- MODULE MCUpsertTxn ----------------------------
(* Small instances of UpsertTxn for TLC. *)
EXTENDS UpsertTxn

It(i, x) == [id |-> i, content |-> x]
Put(items) == [op |-> "put", items |-> items]
Post(items) == [op |-> "post", items |-> items]

\* By id in both orders, by content in both orders, both at once with an item
\* that lands on the row another item updates, and a POST.
MCBatches ==
    {Put(<<It(1, "A"), It(2, "B")>>),
     Put(<<It(NoValue, "A"), It(NoValue, "C"), It(NoValue, "A")>>),
     Put(<<It(NoValue, "B"), It(1, "C")>>),
     Post(<<It(NoValue, "A"), It(NoValue, "B")>>)}
=============================================================================
