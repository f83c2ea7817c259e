---------------------------- MODULE MCAliveCache ----------------------------
(* A small instance of AliveCache: two checkers, one of which makes deep    *)
(* checks.  Only its nodes have scores under its tag.                       *)
EXTENDS AliveCache

MCTags == {"quick", "full"}
MCDeep == {"full"}
=============================================================================
