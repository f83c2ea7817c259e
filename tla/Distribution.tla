---------------------------- MODULE Distribution ----------------------------
(***************************************************************************)
(* What the distribution endpoint does around the selection                *)
(* (distribution/handler.go, naming/naming.go): the unlock filter that     *)
(* decides on the candidates, the order and the numbers of the selected    *)
(* nodes, and their names.  A name is the record of what the default       *)
(* template puts into it, and a set of services stands for a list of them. *)
(***************************************************************************)
EXTENDS Selector, Sampling

CONSTANTS
    Services,      \* streaming services
    Unlocks,       \* the services each entry's latest deep check unlocked
    Grades,        \* letters and their least scores, best first
    Flag,          \* emoji of each region in flags.json
    Territory,     \* and its full name
    RegionOrder,   \* naming.RegionOrder, and
    Alphabet       \*   all codes in alphabetical order

ASSUME UnlocksAssumption == IsFiniteSet(Services) /\ Unlocks \in [Nodes -> SUBSET Services]

(* Of flags.json: an emoji and a name for each of its codes, no emoji twice. *)
ASSUME FlagAssumption ==
    /\ IsInjective(Flag) /\ "" \notin Range(Flag)
    /\ DOMAIN Territory = DOMAIN Flag

ASSUME AlphabetAssumption ==
    IsInjective(RegionOrder) /\ IsInjective(Alphabet) /\ Regions \cup {UN} \subseteq Range(Alphabet)

Modes == {"", "select", "mark"}

-----------------------------------------------------------------------------

nodeMatchesUnlocks(e, requested) == requested \subseteq Unlocks[e]
nodeMatchesAnyUnlock(e, requested) == requested \cap Unlocks[e] # {}

(* Without a mode a list of services filters nothing.                       *)
admitted(e, requested, mode) ==
    requested = {} \/ CASE mode = "select" -> nodeMatchesUnlocks(e, requested)
                        [] mode = "mark" -> nodeMatchesAnyUnlock(e, requested)
                        [] OTHER -> TRUE

(* The marks in a name.  With one service to select they would be the same  *)
(* on every name.                                                           *)
assembleUnlockFlags(e, requested, mode) ==
    CASE mode = "" \/ (mode = "select" /\ Cardinality(requested) <= 1) -> {}
      [] requested = {} -> Unlocks[e]
      [] OTHER -> requested \cap Unlocks[e]

-----------------------------------------------------------------------------
Place(order, r) == CHOOSE i \in DOMAIN order : order[i] = r

(* sortRegionsByNamingOrder: known regions in their order, the others after *)
(* them by code.                                                            *)
precedes(r, s) ==
    LET known == Range(RegionOrder)
    IN  CASE r \in known /\ s \in known -> Place(RegionOrder, r) < Place(RegionOrder, s)
          [] r \in known /\ s \notin known -> TRUE
          [] r \notin known /\ s \in known -> FALSE
          [] OTHER -> Place(Alphabet, r) < Place(Alphabet, s)

ASSUME RankAssumption == \A r, s \in Regions : Rank[r] < Rank[s] <=> precedes(r, s)

(* assembleOutput: the entries of a region in an order sort.Slice may give  *)
(* them; the place is the number.                                           *)
Numbered(S) ==
    {s \in [1..Cardinality(S) -> S] :
        IsInjective(s) /\ \A j, k \in DOMAIN s : j < k => ScoreOf[s[j]] >= ScoreOf[s[k]]}

gradeFromScore(score) ==
    LET met == SelectSeq(Grades, LAMBDA g : score >= g.least)
    IN  IF met = <<>> THEN "D" ELSE Head(met).letter

(* Codes flags.json does not have stand for themselves.                     *)
flagFor(r) == IF r \in DOMAIN Flag THEN Flag[r] ELSE ""
RegionName(r) == IF r \in DOMAIN Territory THEN Territory[r] ELSE r

(* Mutant of Render: the flag is left to the region name.                   *)
RenderWithoutFlag(e, seqNo, marks) ==
    [unlock_flags |-> marks, grade |-> gradeFromScore(ScoreOf[e]), region_flag |-> "",
     region |-> IF preset = "common" THEN RegionOf[e] ELSE RegionName(RegionOf[e]),
     seq |-> seqNo]

Render(e, seqNo, marks) ==
    [unlock_flags |-> marks, grade |-> gradeFromScore(ScoreOf[e]),
     region_flag |-> flagFor(RegionOf[e]),
     region |-> IF preset = "common" THEN RegionOf[e] ELSE RegionName(RegionOf[e]),
     seq |-> seqNo]

-----------------------------------------------------------------------------
(* The names of the entries of one region, in order.                        *)
Names(s, requested, mode) ==
    [j \in DOMAIN s |-> Render(s[j], j, assembleUnlockFlags(s[j], requested, mode))]

Answers(S, requested, mode) == {Names(s, requested, mode) : s \in Numbered(S)}

(* The names of one subscription are all different, as the clients that key *)
(* proxies by name need: numbers start anew in every region, different      *)
(* regions may have the same full name, and nodes of equal score come in    *)
(* any order; and a name shows each requested service that let its node     *)
(* pass the filter (docs/distribution.md:89-100, naming.go:128-165).        *)
NamesTell ==
    pc = "done" =>
        \A requested \in SUBSET Services, mode \in Modes :
            (\A e \in selected : admitted(e, requested, mode)) =>
              /\ \A r, t \in RegionsOf(selected) :
                   \A a \in Answers(In(selected, r), requested, mode),
                      b \in Answers(In(selected, t), requested, mode) :
                     \A j \in DOMAIN a, k \in DOMAIN b :
                       a[j] = b[k] => r = t /\ (a = b => j = k)
              /\ \A e \in selected :
                   LET marks == assembleUnlockFlags(e, requested, mode)
                   IN  requested # {} =>
                         /\ mode = "mark" => marks # {} /\ marks \subseteq requested
                         /\ mode = "select" /\ Cardinality(requested) > 1 => marks = requested

(* Weighted samples have no favourites but by score: of the keys drawn for  *)
(* the entries the largest are taken, whatever the order of the pool and    *)
(* however often the root of the heap was replaced (selector.go:395-451).   *)
(* The pools tried are those of LargestOnly, once between two requests.     *)
KeepsLargest == pc = "idle" => LargestOnly
=============================================================================
