--------------------------- MODULE MCVectorSearch ---------------------------
(* Two partitions and three keys on a line, searched from both sides.       *)
EXTENDS VectorSearch

MCPartNames == {"_default", "p"}
\* all keys, or one that may be anywhere: what holds of one holds of each
MCGets      == {[ids |-> {1, 2, 3}, out |-> {}], [ids |-> {1, 2, 3}, out |-> {Extra}],
                [ids |-> {1}, out |-> {Scalar}]}
MCPoints    == {0, 3}
MCQueries   == {1, -1}
\* index names are only compared
MCNames     == Permutations(IndexNames)
=============================================================================
