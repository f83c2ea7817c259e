----------------------------- MODULE MCNodePool -----------------------------
(* Small instances of NodePool.  Ids and hashes are interchangeable, and so *)
(* are the workers unless some of them fail.                                *)
EXTENDS NodePool, TLC

RowSymmetry ==
    Permutations(Sources) \cup Permutations(Hashes) \cup Permutations(NodeIds)

Symmetry == RowSymmetry \cup Permutations(Workers)
=============================================================================
