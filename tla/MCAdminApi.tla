----------------------------- MODULE MCAdminApi -----------------------------
(* The environments as far as their fields matter: Status is the fourth of  *)
(* a source, Alive the sixth of a node, and a source has five.              *)
EXTENDS AdminApi, TLC

MCEnvFields == [node   |-> <<"another", "another", "another", "another", "another", "Alive">>,
                source |-> <<"another", "another", "another", "Status", "another">>]
MCTested    == [node |-> "Alive", source |-> "Status"]

MCMaxRows   == [log |-> 3, sponsor |-> 3, node |-> 3, source |-> 2]

Symmetry == Permutations(Ids)
=============================================================================
