------------------------------ MODULE Selector ------------------------------
(***************************************************************************)
(* The node selector of the distribution endpoint                          *)
(* (distribution/selector.go): at most max_distribute nodes out of the     *)
(* candidates, by preset.  A request serves one region after the other     *)
(* with a quota of its own, tops up what the quotas left open, and fills   *)
(* the rest by score.  Requests share nothing, so one at a time stands     *)
(* for all.                                                                *)
(*                                                                         *)
(* The slices of the code are sets here, and length counts what was        *)
(* appended to the result, twice if it was appended twice.  Random and     *)
(* weighted samples may be any subset of their size.                       *)
(***************************************************************************)
EXTENDS Integers, FiniteSets, FiniteSetsExt

CONSTANTS
    Nodes,        \* cache entries
    Regions,      \* known regions
    UN,           \* no region: normaliseRegion of an empty one
    Common,       \* commonRegions
    RegionOf,     \* the normalised region of each entry
    Rank,         \* the place of each region in the naming order
    ScoreOf,      \* the score of each entry
    Limits        \* values of max_distribute

ASSUME NodesAssumption == IsFiniteSet(Nodes)

ASSUME RegionAssumption ==
    /\ UN \notin Regions
    /\ Common \subseteq Regions
    /\ RegionOf \in [Nodes -> Regions \cup {UN}]

ASSUME OrderAssumption ==
    /\ Rank \in [Regions -> Nat]
    /\ \A r, s \in Regions : Rank[r] = Rank[s] => r = s
    /\ ScoreOf \in [Nodes -> Nat]

ASSUME LimitsAssumption == Limits \subseteq Int

VARIABLES
    pc,            \* the stage the request is at
    preset,        \* the effective preset
    maxDistribute, \* the configured limit
    entries,       \* the candidates, for "other" without the common regions
    todo,          \* regions still to serve
    assigned,      \* the quotas given out so far
    deficit,       \* totalDeficit
    remaining,     \* nodes of served regions kept for the deficit
    selected,      \* the result, as a set,
    length         \*   and its length

request == <<preset, maxDistribute, entries>>
vars == <<pc, request, todo, assigned, deficit, remaining, selected, length>>

Presets == {"common", "all", "other"}

min(a, b) == IF a < b THEN a ELSE b

In(pool, r) == {e \in pool : RegionOf[e] = r}
RegionsOf(pool) == {RegionOf[e] : e \in pool}

commonPool == {e \in entries : RegionOf[e] \in Common}
unPool     == In(entries, UN)

(* Mutant of otherPool: UN counts as a region like the others.              *)
otherPoolWithUN == entries \ commonPool

otherPool == entries \ (commonPool \cup unPool)

(* Preset "common" without a node in a common region falls back to "all".   *)
CommonMode == preset = "common" /\ commonPool # {}

pool == IF CommonMode THEN commonPool ELSE entries \ unPool
targetCount == min(maxDistribute, Cardinality(pool))

avg == targetCount \div Cardinality(RegionsOf(pool))

(* computeQuotas: math.Round of targetCount * len / total.                  *)
proportional(r) ==
    (2 * targetCount * Cardinality(In(pool, r)) + Cardinality(pool)) \div (2 * Cardinality(pool))

(* Mutants of quota: the last region gets its share like the others, or     *)
(* every region may take what is left.                                      *)
quotaNoRemainder(r) == IF CommonMode THEN avg ELSE proportional(r)
quotaGreedy(r) == targetCount - assigned

(* The last region absorbs the remainder, which may be negative.            *)
quota(r) ==
    IF todo = {r} THEN targetCount - assigned
    ELSE IF CommonMode THEN avg ELSE proportional(r)

(* randomSample, weightedSample; topNByScore breaks ties either way.        *)
AnyOf(S, k)  == kSubset(IF k < 0 THEN 0 ELSE min(k, Cardinality(S)), S)
BestOf(S, k) == {T \in AnyOf(S, k) : \A e \in T, f \in S \ T : ScoreOf[e] >= ScoreOf[f]}

(* Up to one and a half times the quota the best are taken.                 *)
selectFromPool(S, k) ==
    IF ~CommonMode /\ 2 * Cardinality(S) <= 3 * k THEN BestOf(S, k) ELSE AnyOf(S, k)

shortfall(S, k) == IF Cardinality(S) <= k THEN k - Cardinality(S) ELSE 0

Take(nodes) ==
    /\ selected' = selected \cup nodes
    /\ length' = length + Cardinality(nodes)

Init ==
    /\ pc = "idle"
    /\ preset = "common" /\ maxDistribute = 0 /\ entries = {}
    /\ todo = {} /\ assigned = 0 /\ deficit = 0 /\ remaining = {}
    /\ selected = {} /\ length = 0

-----------------------------------------------------------------------------
(* Distribute up to the selection: any candidates may pass the tag and      *)
(* unlock filters, and any preset may be in effect.                         *)
Request ==
    /\ pc = "idle"
    /\ \E p \in Presets, limit \in Limits, candidates \in SUBSET Nodes :
         /\ preset' = p
         /\ maxDistribute' = limit
         /\ entries' = IF p = "other"
                       THEN {e \in candidates : RegionOf[e] \notin Common}
                       ELSE candidates
         /\ IF candidates = {} \/ limit <= 0
            THEN pc' = "done" /\ UNCHANGED todo
            ELSE pc' = "serve" /\ todo' = RegionsOf(pool')
    /\ UNCHANGED <<assigned, deficit, remaining, selected, length>>

(* Mutant of Serve: what is left over includes what was taken.              *)
ServeKeepsAll(r) ==
    /\ pc = "serve"
    /\ r \in todo /\ \A s \in todo : Rank[r] <= Rank[s]
    /\ \E got \in selectFromPool(In(pool, r), quota(r)) : Take(got)
    /\ remaining' = remaining \cup In(pool, r)
    /\ deficit' = deficit + shortfall(In(pool, r), quota(r))
    /\ assigned' = assigned + quota(r)
    /\ todo' = todo \ {r}
    /\ UNCHANGED <<pc, request>>

(* One turn of the loop over the regions.  collectProportional keeps the    *)
(* rest of a region only if the region has too few nodes.                   *)
Serve(r) ==
    /\ pc = "serve"
    /\ r \in todo /\ \A s \in todo : Rank[r] <= Rank[s]
    /\ LET S == In(pool, r)
           missing == shortfall(S, quota(r))
       IN  /\ \E got \in selectFromPool(S, quota(r)) :
                /\ Take(got)
                /\ remaining' = IF CommonMode \/ missing > 0
                                THEN remaining \cup (S \ got)
                                ELSE remaining
           /\ deficit' = deficit + missing
    /\ assigned' = assigned + quota(r)
    /\ todo' = todo \ {r}
    /\ UNCHANGED <<pc, request>>

(* Mutant of FillDeficit: what the quotas left open stays open.             *)
SkipDeficit ==
    /\ pc = "serve" /\ todo = {}
    /\ pc' = IF CommonMode THEN "other" ELSE "un"
    /\ UNCHANGED <<request, todo, assigned, deficit, remaining, selected, length>>

FillDeficit ==
    /\ pc = "serve" /\ todo = {}
    /\ \E more \in AnyOf(remaining, deficit) : Take(more)
    /\ pc' = IF CommonMode THEN "other" ELSE "un"
    /\ UNCHANGED <<request, todo, assigned, deficit, remaining>>

FillOther ==
    /\ pc = "other"
    /\ \E more \in BestOf(otherPool, maxDistribute - length) : Take(more)
    /\ pc' = "un"
    /\ UNCHANGED <<request, todo, assigned, deficit, remaining>>

(* Mutant of FillUN: fills up to the target instead of the limit.           *)
FillUNToTarget ==
    /\ pc = "un"
    /\ \E more \in BestOf(unPool, targetCount - length) : Take(more)
    /\ pc' = "done"
    /\ UNCHANGED <<request, todo, assigned, deficit, remaining>>

FillUN ==
    /\ pc = "un"
    /\ \E more \in BestOf(unPool, maxDistribute - length) : Take(more)
    /\ pc' = "done"
    /\ UNCHANGED <<request, todo, assigned, deficit, remaining>>

(* assembleOutput sorts and numbers the nodes, the handler renders them.    *)
Answer ==
    /\ pc = "done"
    /\ pc' = "idle"
    /\ preset' = "common" /\ maxDistribute' = 0 /\ entries' = {}
    /\ todo' = {} /\ assigned' = 0 /\ deficit' = 0 /\ remaining' = {}
    /\ selected' = {} /\ length' = 0

Next ==
    \/ Request
    \/ \E r \in Regions : Serve(r)
    \/ FillDeficit \/ FillOther \/ FillUN
    \/ Answer

Spec == Init /\ [][Next]_vars

-----------------------------------------------------------------------------
(* Properties *)

(* Every variable keeps its type, and only nodes of known regions have      *)
(* quotas.                                                                  *)
TypeOK ==
    /\ pc \in {"idle", "serve", "other", "un", "done"}
    /\ preset \in Presets
    /\ maxDistribute \in Limits \cup {0}
    /\ entries \in SUBSET Nodes
    /\ todo \in SUBSET Regions
    /\ assigned \in Int
    /\ deficit \in Nat
    /\ remaining \in SUBSET entries
    /\ selected \in SUBSET entries
    /\ length \in Nat

(* No node is distributed twice: sampling, topping up and filling draw from *)
(* pools that never overlap what was taken (selector.go:147-182, 207-233).  *)
NoneTwice == length = Cardinality(selected)

Served == pc = "done" /\ maxDistribute > 0

(* With a node in a common region, preset "common" yields exactly           *)
(* max_distribute nodes, or all there are: whatever the quotas round away   *)
(* or cannot place is topped up (docs/distribution.md:98).                  *)
CommonFillsUp ==
    Served /\ CommonMode => length = min(maxDistribute, Cardinality(entries))

(* Preset "common" takes other regions only once the common ones are used   *)
(* up, and UN only once all others are (docs/distribution.md:65-66).        *)
CommonFirst ==
    Served /\ CommonMode =>
        /\ selected \subseteq commonPool \/ commonPool \subseteq selected
        /\ selected \cap unPool = {} \/ entries \ unPool \subseteq selected

(* Preset "common" starves no common region: each gets its equal share or   *)
(* all it has (docs/distribution.md:63).                                    *)
EvenShare ==
    Served /\ CommonMode =>
        \A r \in RegionsOf(commonPool) :
            Cardinality(In(selected, r)) >= min(avg, Cardinality(In(entries, r)))

(* If there are no more candidates than max_distribute, every one of them   *)
(* is distributed, whatever the preset (docs/distribution.md:98).           *)
AllWhenFewer ==
    Served /\ Cardinality(entries) <= maxDistribute => selected = entries

(* The rounded quotas of "all" and "other" miss the target by less than     *)
(* half a node per region (selector.go:334-353).                            *)
RoundingBounded ==
    Served /\ ~CommonMode /\ pool # {} =>
        LET wanted == min(maxDistribute, Cardinality(entries))
            slack  == Cardinality(RegionsOf(pool)) - 1
        IN  2 * (length - wanted) <= slack /\ 2 * (wanted - length) <= slack

(* Never more than max_distribute nodes (docs/distribution.md:98).          *)
NeverTooMany == Served => length <= maxDistribute
=============================================================================
