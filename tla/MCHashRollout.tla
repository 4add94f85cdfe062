---------------------------- MODULE MCHashRollout ----------------------------
(***************************************************************************)
(* Small instances of HashRollout: in the halfvec table the texts "a" and  *)
(* "b" round to the same vector, in the vector table they do not.  Of the  *)
(* metadata texts "e" (think of {"x":1e+16}) comes back from jsonb as "d"  *)
(* ({"x":10000000000000000}); "m" comes back as it is.                     *)
(***************************************************************************)
EXTENDS HashRollout

MCTexts == {"a", "b"}
TwoTables == << [a |-> "a", b |-> "b"], [a |-> "a", b |-> "a"] >>
OneTable == << [a |-> "a", b |-> "a"] >>
VectorTable == << [a |-> "a", b |-> "b"] >>

OneMeta == {"m"}
OneMetaJsonb == [m |-> "m"]
ThreeMetas == {"d", "e", "m"}
ThreeMetasJsonb == [d |-> "d", e |-> "d", m |-> "m"]

AllWrites == {"old_post", "old_update", "new_post", "new_upsert", "new_update", "delete"}
NoUpdates == {"old_post", "new_post", "new_upsert", "delete"}
=============================================================================
