----------------------------- MODULE MCSelector -----------------------------
(* Ten candidates in three common regions, two others that share their full *)
(* name, and none: the fewest in which the quotas of every preset can come  *)
(* out uneven.                                                              *)
EXTENDS Distribution

MCNodes   == {"hk1", "hk2", "tw1", "tw2", "sg1", "sg2", "cd1", "cd2", "cg1", "un1"}
MCRegions == {"HK", "TW", "SG", "CD", "CG"}
MCCommon  == {"HK", "TW", "SG"}
MCRank    == [HK |-> 1, TW |-> 2, SG |-> 4, CD |-> 50, CG |-> 51]

MCRegionOf ==
    [hk1 |-> "HK", hk2 |-> "HK", tw1 |-> "TW", tw2 |-> "TW", sg1 |-> "SG",
     sg2 |-> "SG", cd1 |-> "CD", cd2 |-> "CD", cg1 |-> "CG", un1 |-> "UN"]

MCScoreOf ==
    [hk1 |-> 1, hk2 |-> 2, tw1 |-> 1, tw2 |-> 1, sg1 |-> 2,
     sg2 |-> 1, cd1 |-> 1, cd2 |-> 2, cg1 |-> 2, un1 |-> 2]

MCLimits == 0..10

MCServices == {"netflix", "disney"}
MCUnlocks ==
    [hk1 |-> MCServices, hk2 |-> MCServices, tw1 |-> {"netflix"}, tw2 |-> {}, sg1 |-> {"disney"},
     sg2 |-> MCServices, cd1 |-> MCServices, cd2 |-> {"netflix"}, cg1 |-> MCServices, un1 |-> {}]

MCGrades      == <<[letter |-> "A", least |-> 3], [letter |-> "B", least |-> 2]>>
MCFlag        == [HK |-> "hk", TW |-> "tw", SG |-> "sg", CD |-> "cd", CG |-> "cg"]
MCTerritory   == [HK |-> "Hong Kong", TW |-> "Taiwan", SG |-> "Singapore",
                  CD |-> "Congo", CG |-> "Congo"]
MCRegionOrder == <<"HK", "TW", "SG">>
MCAlphabet    == <<"CD", "CG", "HK", "SG", "TW", "UN">>
=============================================================================
