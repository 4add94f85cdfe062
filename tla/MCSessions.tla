------------------------------ MODULE MCSessions ------------------------------
(* A small instance of Sessions for TLC. *)
EXTENDS Sessions

\* Every role, owner or not, with policies in force, disabled, not forced or
\* without tables or privileges.
MCDatabases ==
    {[role |-> ro, owner |-> o, granted |-> g, tables |-> ta, enabled |-> e, forced |-> f] :
        ro \in {"plain", "super", "bypassrls"}, o \in BOOLEAN, g \in BOOLEAN,
        ta \in {{}, Tables}, e \in {Tables, {"collections"}}, f \in {Tables, {}}}

=============================================================================
