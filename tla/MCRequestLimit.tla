---------------------------- MODULE MCRequestLimit ----------------------------
(* Small instances of RequestLimit for TLC. *)
EXTENDS RequestLimit

\* Every value that nests at most three levels, and one of four.
Leaf == {}
MCDocuments == SUBSET SUBSET SUBSET {Leaf} \cup {{{{{Leaf}}}}}
MCDepthOf[v \in MCDocuments] ==
    IF v = {} THEN 0
    ELSE 1 + (CHOOSE d \in {MCDepthOf[w] : w \in v} : \A w \in v : MCDepthOf[w] <= d)
=============================================================================
