--------------------------- MODULE MCCheckResults ---------------------------
(* Small instances of CheckResults.  Nodes, tags and workers are            *)
(* interchangeable: nothing in CheckResults names one of them.              *)
EXTENDS CheckResults, TLC

Symmetry == Permutations(Nodes) \cup Permutations(Tags) \cup Permutations(Workers)
=============================================================================
