--------------------------- MODULE SelectorProofs ---------------------------
(***************************************************************************)
(* Theorems about Selector: its types, that no node is distributed twice,  *)
(* that preset "common" gives exactly what it promises, and how far the    *)
(* rounded quotas of "all" and "other" may miss the limit, for every set   *)
(* of candidates, every assignment of regions and every limit.             *)
(***************************************************************************)
EXTENDS Selector, FiniteSetTheorems, TLAPS

USE NodesAssumption, RegionAssumption, OrderAssumption, LimitsAssumption

-----------------------------------------------------------------------------
(* Samples *)

(* A sample is a subset of what is asked for, or of all there is.           *)
LEMMA SampleSize ==
    ASSUME NEW S, IsFiniteSet(S), NEW k \in Int, NEW T \in AnyOf(S, k)
    PROVE  /\ T \subseteq S /\ IsFiniteSet(T)
           /\ Cardinality(T) = IF k < 0 THEN 0 ELSE min(k, Cardinality(S))
<1>1. T \subseteq S /\ Cardinality(T) = IF k < 0 THEN 0 ELSE min(k, Cardinality(S))
  BY DEF AnyOf, kSubset
<1> QED BY <1>1, FS_Subset

LEMMA BestIsAny == ASSUME NEW S, NEW k PROVE BestOf(S, k) \subseteq AnyOf(S, k)
BY DEF BestOf

LEMMA PoolSample ==
    ASSUME NEW S, NEW k PROVE selectFromPool(S, k) \subseteq AnyOf(S, k)
BY BestIsAny DEF selectFromPool

(* The candidates of a request and every part of them are finite.           *)
LEMMA PartsFinite ==
    ASSUME entries \in SUBSET Nodes, NEW S \in SUBSET entries
    PROVE  IsFiniteSet(S) /\ Cardinality(S) \in Nat
<1>1. IsFiniteSet(S)
  BY FS_Subset
<1> QED BY <1>1, FS_CardinalityType

(* A disjoint part adds its size to the result.                             *)
LEMMA DisjointSize ==
    ASSUME NEW A, NEW B, IsFiniteSet(A), IsFiniteSet(B), A \cap B = {}
    PROVE  /\ IsFiniteSet(A \cup B)
           /\ Cardinality(A \cup B) = Cardinality(A) + Cardinality(B)
<1>1. Cardinality(A) \in Nat /\ Cardinality(B) \in Nat
  BY FS_CardinalityType
<1>2. Cardinality(A \cap B) = 0
  BY FS_EmptySet
<1> QED BY <1>1, <1>2, FS_Union

LEMMA PoolFacts ==
    ASSUME entries \in SUBSET Nodes
    PROVE  /\ pool \subseteq entries /\ commonPool \subseteq entries
           /\ otherPool \subseteq entries /\ unPool \subseteq entries
           /\ pool \cap unPool = {} /\ commonPool \cap unPool = {}
           /\ commonPool \cap otherPool = {} /\ otherPool \cap unPool = {}
           /\ entries \ unPool = commonPool \cup otherPool
           /\ RegionsOf(pool) \subseteq Regions
BY DEF pool, commonPool, otherPool, unPool, In, RegionsOf

-----------------------------------------------------------------------------
(* What has been taken *)

(* The regions still to serve are untouched, and nothing that was taken is  *)
(* kept for later.                                                          *)
Touched == {e \in pool : RegionOf[e] \notin todo}

TakenOK ==
    /\ pc = "idle" => /\ todo = {} /\ assigned = 0 /\ deficit = 0
                      /\ remaining = {} /\ selected = {}
    /\ pc = "serve" => /\ maxDistribute > 0
                       /\ todo \subseteq RegionsOf(pool)
                       /\ selected \subseteq Touched
                       /\ remaining \subseteq Touched \ selected
    /\ pc = "other" => CommonMode /\ maxDistribute > 0 /\ selected \subseteq commonPool
    /\ pc = "un" => maxDistribute > 0 /\ selected \cap unPool = {}

SelInv == TypeOK /\ NoneTwice /\ TakenOK

LEMMA SelInit == Init => SelInv
BY FS_EmptySet DEF Init, SelInv, TypeOK, NoneTwice, TakenOK, Presets

(* Taking a part that was not taken before.                                 *)
LEMMA TakeNew ==
    ASSUME TypeOK, NoneTwice, NEW T \in SUBSET entries, T \cap selected = {}, Take(T)
    PROVE  /\ selected' = selected \cup T
           /\ length' = Cardinality(selected') /\ length' \in Nat
           /\ length' = length + Cardinality(T)
<1>1. /\ IsFiniteSet(selected) /\ Cardinality(selected) \in Nat
      /\ IsFiniteSet(T) /\ Cardinality(T) \in Nat
  BY PartsFinite DEF TypeOK
<1>2. Cardinality(selected \cup T) = Cardinality(selected) + Cardinality(T)
  BY <1>1, DisjointSize
<1> QED BY <1>1, <1>2 DEF Take, NoneTwice

LEMMA QuotaType ==
    ASSUME TypeOK, NEW r \in todo, todo \subseteq RegionsOf(pool)
    PROVE  /\ quota(r) \in Int
           /\ targetCount \in Int
           /\ IsFiniteSet(In(pool, r)) /\ Cardinality(In(pool, r)) \in Nat
           /\ IsFiniteSet(pool) /\ Cardinality(pool) \in Nat \ {0}
           /\ IsFiniteSet(RegionsOf(pool)) /\ Cardinality(RegionsOf(pool)) \in Nat \ {0}
           /\ shortfall(In(pool, r), quota(r)) \in Nat
<1>1. pool \subseteq entries /\ In(pool, r) \subseteq entries
  BY PoolFacts DEF TypeOK, In
<1>2. /\ IsFiniteSet(In(pool, r)) /\ Cardinality(In(pool, r)) \in Nat
      /\ IsFiniteSet(pool) /\ Cardinality(pool) \in Nat
  BY <1>1, PartsFinite DEF TypeOK
<1>3. pool # {} /\ RegionsOf(pool) # {}
  BY DEF RegionsOf
<1>4. Cardinality(pool) # 0
  BY <1>2, <1>3, FS_EmptySet
<1>5. IsFiniteSet(RegionsOf(pool))
  <2> DEFINE f == [e \in pool |-> RegionOf[e]]
  <2>1. f \in Surjection(pool, RegionsOf(pool))
    BY DEF Surjection, RegionsOf
  <2> QED BY <1>2, <2>1, FS_Surjection
<1>6. Cardinality(RegionsOf(pool)) \in Nat \ {0}
  BY <1>3, <1>5, FS_EmptySet, FS_CardinalityType
<1>7. maxDistribute \in Int /\ targetCount \in Int
  BY <1>2 DEF TypeOK, targetCount, min
<1>8. avg \in Int
  BY <1>6, <1>7 DEF avg
<1>9. proportional(r) \in Int
  <2>1. 2 * Cardinality(pool) \in Nat \ {0}
    BY <1>2, <1>4
  <2>2. 2 * targetCount * Cardinality(In(pool, r)) + Cardinality(pool) \in Int
    BY <1>2, <1>7
  <2> QED BY <2>1, <2>2 DEF proportional
<1>10. quota(r) \in Int
  BY <1>7, <1>8, <1>9 DEF quota, TypeOK
<1>11. shortfall(In(pool, r), quota(r)) \in Nat
  BY <1>2, <1>10 DEF shortfall
<1> QED BY <1>2, <1>4, <1>5, <1>6, <1>7, <1>10, <1>11

LEMMA Frame ==
    ASSUME UNCHANGED request
    PROVE  /\ entries' = entries /\ maxDistribute' = maxDistribute
           /\ commonPool' = commonPool /\ unPool' = unPool /\ otherPool' = otherPool
           /\ (CommonMode <=> CommonMode') /\ pool' = pool
           /\ targetCount' = targetCount /\ avg' = avg
BY DEF request, commonPool, unPool, otherPool, CommonMode, pool, targetCount, avg, In

LEMMA RequestKeeps == ASSUME SelInv, Request PROVE SelInv'
<1>0. /\ pc = "idle" /\ todo = {} /\ assigned = 0 /\ deficit = 0
      /\ remaining = {} /\ selected = {} /\ length = 0
  BY FS_EmptySet DEF SelInv, TakenOK, Request, NoneTwice
<1>1. /\ preset' \in Presets /\ maxDistribute' \in Limits /\ entries' \in SUBSET Nodes
      /\ assigned' = 0 /\ deficit' = 0 /\ remaining' = {}
      /\ selected' = {} /\ length' = 0
      /\ \/ pc' = "done" /\ todo' = {}
         \/ pc' = "serve" /\ todo' = RegionsOf(pool)' /\ maxDistribute' > 0
  BY <1>0 DEF Request
<1>2. RegionsOf(pool)' \subseteq Regions
  BY <1>1 DEF RegionsOf, pool, commonPool, unPool, In
<1>3. TypeOK'
  BY <1>1, <1>2 DEF TypeOK
<1>4. NoneTwice'
  BY <1>1, FS_EmptySet DEF NoneTwice
<1>5. TakenOK'
  BY <1>1 DEF TakenOK
<1> QED BY <1>3, <1>4, <1>5 DEF SelInv

LEMMA ServeKeeps == ASSUME SelInv, NEW r \in Regions, Serve(r) PROVE SelInv'
<1>0. /\ TypeOK /\ NoneTwice /\ TakenOK /\ pc = "serve" /\ r \in todo
      /\ maxDistribute > 0 /\ todo \subseteq RegionsOf(pool)
      /\ selected \subseteq Touched /\ remaining \subseteq Touched \ selected
  BY DEF SelInv, TakenOK, Serve
<1>1. pool \subseteq entries /\ entries \subseteq Nodes
  BY <1>0, PoolFacts DEF TypeOK
<1>2. /\ quota(r) \in Int /\ shortfall(In(pool, r), quota(r)) \in Nat
      /\ IsFiniteSet(In(pool, r))
  BY <1>0, QuotaType
<1>3. UNCHANGED request /\ pc' = "serve" /\ todo' = todo \ {r}
      /\ assigned' = assigned + quota(r)
      /\ deficit' = deficit + shortfall(In(pool, r), quota(r))
  BY <1>0 DEF Serve
<1>4. PICK got \in selectFromPool(In(pool, r), quota(r)) :
        /\ Take(got)
        /\ \/ remaining' = remaining \cup (In(pool, r) \ got)
           \/ remaining' = remaining
  BY DEF Serve
<1>5. got \subseteq In(pool, r)
  BY <1>2, PoolSample, SampleSize
<1>6. got \subseteq entries /\ got \cap selected = {}
  BY <1>0, <1>1, <1>5 DEF In, Touched
<1>7. selected' = selected \cup got /\ length' = Cardinality(selected') /\ length' \in Nat
  BY <1>0, <1>4, <1>6, TakeNew
<1>8. entries' = entries /\ pool' = pool
  BY <1>3, Frame
<1>9. Touched' = Touched \cup In(pool, r)
  BY <1>0, <1>3, <1>8 DEF Touched, In, RegionsOf
<1>10. selected' \subseteq Touched' /\ remaining' \subseteq Touched' \ selected'
  BY <1>0, <1>4, <1>5, <1>7, <1>9 DEF In, Touched
<1>11. TypeOK'
  <2>1. remaining' \subseteq entries' /\ selected' \subseteq entries'
    BY <1>1, <1>8, <1>10 DEF Touched
  <2>2. assigned' \in Int /\ deficit' \in Nat
    BY <1>0, <1>2, <1>3 DEF TypeOK
  <2> QED BY <1>0, <1>3, <1>7, <2>1, <2>2 DEF TypeOK, request
<1>12. RegionsOf(pool)' = RegionsOf(pool)
  BY <1>8 DEF RegionsOf
<1>13. TakenOK'
  BY <1>0, <1>3, <1>10, <1>12 DEF TakenOK, request
<1> QED BY <1>7, <1>11, <1>13 DEF SelInv, NoneTwice

(* The three steps that follow the loop take from pools of their own.       *)
LEMMA FillKeeps ==
    ASSUME SelInv, FillDeficit \/ FillOther \/ FillUN
    PROVE  SelInv'
<1>0. /\ TypeOK /\ NoneTwice /\ TakenOK
      /\ deficit \in Int /\ maxDistribute - length \in Int
  BY DEF SelInv, TypeOK
<1>1. /\ UNCHANGED <<request, todo, assigned, deficit, remaining>>
      /\ pc' \in {"other", "un", "done"}
      /\ todo' = todo
  BY DEF FillDeficit, FillOther, FillUN
<1>2. /\ pool \subseteq entries /\ otherPool \subseteq entries
      /\ unPool \subseteq entries /\ remaining \subseteq entries
  BY <1>0, PoolFacts DEF TypeOK
<1>3. IsFiniteSet(otherPool) /\ IsFiniteSet(unPool) /\ IsFiniteSet(remaining)
  BY <1>0, <1>2, PartsFinite DEF TypeOK
<1>4. PICK T \in SUBSET entries :
        /\ Take(T) /\ T \cap selected = {}
        /\ FillDeficit => T \subseteq remaining
        /\ FillOther => T \subseteq otherPool
  <2>1. CASE FillDeficit
    <3>1. PICK T \in AnyOf(remaining, deficit) : Take(T)
      BY <2>1 DEF FillDeficit
    <3>2. T \subseteq remaining
      BY <1>0, <1>3, <3>1, SampleSize
    <3>3. remaining \cap selected = {} /\ ~FillOther
      BY <1>0, <2>1 DEF TakenOK, FillDeficit, FillOther
    <3> QED BY <1>2, <3>1, <3>2, <3>3
  <2>2. CASE FillOther
    <3>1. PICK T \in BestOf(otherPool, maxDistribute - length) : Take(T)
      BY <2>2 DEF FillOther
    <3>2. T \subseteq otherPool
      BY <1>0, <1>3, <3>1, BestIsAny, SampleSize
    <3>3. otherPool \cap selected = {} /\ ~FillDeficit
      BY <1>0, <2>2 DEF TakenOK, FillDeficit, FillOther, otherPool
    <3> QED BY <1>2, <3>1, <3>2, <3>3
  <2>3. CASE FillUN
    <3>1. PICK T \in BestOf(unPool, maxDistribute - length) : Take(T)
      BY <2>3 DEF FillUN
    <3>2. T \subseteq unPool
      BY <1>0, <1>3, <3>1, BestIsAny, SampleSize
    <3>3. unPool \cap selected = {} /\ ~FillDeficit /\ ~FillOther
      BY <1>0, <2>3 DEF TakenOK, FillDeficit, FillOther, FillUN
    <3> QED BY <1>2, <3>1, <3>2, <3>3
  <2> QED BY <2>1, <2>2, <2>3
<1>5. selected' = selected \cup T /\ length' = Cardinality(selected') /\ length' \in Nat
  BY <1>0, <1>4, TakeNew
<1>6. TypeOK'
  BY <1>0, <1>1, <1>4, <1>5 DEF TypeOK, request
<1>7. /\ entries' = entries /\ maxDistribute' = maxDistribute /\ (CommonMode <=> CommonMode')
      /\ commonPool' = commonPool /\ unPool' = unPool
  BY <1>1, Frame
<1>8. TakenOK'
  <2>1. CASE FillDeficit
    <3>1. /\ pc = "serve" /\ maxDistribute > 0 /\ selected' \subseteq pool
          /\ pc' = IF CommonMode THEN "other" ELSE "un"
      BY <1>0, <1>4, <1>5, <2>1 DEF TakenOK, FillDeficit, Touched
    <3>2. CommonMode => selected' \subseteq commonPool
      BY <3>1 DEF pool
    <3>3. selected' \cap unPool = {}
      BY <1>0, <3>1, PoolFacts DEF TypeOK
    <3> QED BY <1>7, <3>1, <3>2, <3>3 DEF TakenOK
  <2>2. CASE FillOther
    <3>1. /\ maxDistribute > 0 /\ pc' = "un" /\ selected' \subseteq commonPool \cup otherPool
      BY <1>0, <1>4, <1>5, <2>2 DEF TakenOK, FillOther
    <3>2. (commonPool \cup otherPool) \cap unPool = {}
      BY <1>0, PoolFacts DEF TypeOK
    <3> QED BY <1>7, <3>1, <3>2 DEF TakenOK
  <2>3. CASE FillUN
    BY <2>3 DEF FillUN, TakenOK
  <2> QED BY <2>1, <2>2, <2>3
<1> QED BY <1>5, <1>6, <1>8 DEF SelInv, NoneTwice

LEMMA AnswerKeeps == ASSUME Answer PROVE SelInv'
BY FS_EmptySet DEF Answer, SelInv, TypeOK, NoneTwice, TakenOK, Presets

LEMMA SelStep == SelInv /\ [Next]_vars => SelInv'
<1> SUFFICES ASSUME SelInv, [Next]_vars PROVE SelInv'
  OBVIOUS
<1>1. CASE Request
  BY <1>1, RequestKeeps
<1>2. ASSUME NEW r \in Regions, Serve(r) PROVE SelInv'
  BY <1>2, ServeKeeps
<1>3. CASE FillDeficit \/ FillOther \/ FillUN
  BY <1>3, FillKeeps
<1>4. CASE Answer
  BY <1>4, AnswerKeeps
<1>5. CASE UNCHANGED vars
  <2>1. UNCHANGED request
    BY <1>5 DEF vars
  <2>2. pool' = pool /\ commonPool' = commonPool /\ unPool' = unPool /\ (CommonMode <=> CommonMode')
    BY <2>1, Frame
  <2> QED BY <1>5, <2>2
          DEF vars, request, SelInv, TypeOK, NoneTwice, TakenOK, Touched, RegionsOf
<1> QED BY <1>1, <1>2, <1>3, <1>4, <1>5 DEF Next

LEMMA SelInvariant == Spec => []SelInv
BY SelInit, SelStep, PTL DEF Spec

(* Every variable keeps its type, whatever is drawn.                        *)
THEOREM TypeCorrect == Spec => []TypeOK
<1>1. SelInv => TypeOK
  BY DEF SelInv
<1> QED BY <1>1, SelInvariant, PTL

(* No preset distributes a node twice: what is topped up and filled was     *)
(* never taken before (selector.go:147-182, 207-233).                       *)
THEOREM NoNodeTwice == Spec => []NoneTwice
<1>1. SelInv => NoneTwice
  BY DEF SelInv
<1> QED BY <1>1, SelInvariant, PTL

-----------------------------------------------------------------------------
(* Preset "common" *)

(* While the regions are served, what is taken and what is missing add up   *)
(* to the quotas, and the quotas leave the last region a remainder that is  *)
(* not negative.                                                            *)
QuotasOK ==
    /\ remaining = Touched \ selected
    /\ length + deficit = assigned
    /\ todo = {} => assigned = targetCount
    /\ todo # {} => assigned + avg * Cardinality(todo) <= targetCount

CommonSplit ==
    /\ selected \subseteq commonPool \cup otherPool
    /\ selected \subseteq commonPool \/ commonPool \subseteq selected

CommonOK ==
    /\ pc = "serve" /\ CommonMode => QuotasOK
    /\ pc = "other" => length = min(maxDistribute, Cardinality(commonPool))
    /\ pc = "un" /\ CommonMode =>
         /\ length = min(maxDistribute, Cardinality(commonPool \cup otherPool))
         /\ CommonSplit
    /\ CommonFillsUp /\ CommonFirst

CommonInv == SelInv /\ CommonOK

LEMMA Share ==
    ASSUME NEW t \in Nat, NEW n \in Nat \ {0}
    PROVE  t \div n \in Nat /\ (t \div n) * n <= t
OBVIOUS

LEMMA TargetType ==
    ASSUME TypeOK, CommonMode, maxDistribute > 0
    PROVE  /\ pool = commonPool /\ IsFiniteSet(commonPool) /\ Cardinality(commonPool) \in Nat
           /\ targetCount = min(maxDistribute, Cardinality(commonPool))
           /\ maxDistribute \in Nat /\ targetCount \in Nat
           /\ IsFiniteSet(RegionsOf(pool)) /\ Cardinality(RegionsOf(pool)) \in Nat \ {0}
           /\ avg \in Nat /\ avg * Cardinality(RegionsOf(pool)) <= targetCount
<1>1. pool = commonPool /\ commonPool # {}
  BY DEF pool, CommonMode
<1>2. IsFiniteSet(commonPool) /\ Cardinality(commonPool) \in Nat
  BY PoolFacts, PartsFinite DEF TypeOK
<1>3. maxDistribute \in Nat
  BY DEF TypeOK
<1>4. targetCount = min(maxDistribute, Cardinality(commonPool)) /\ targetCount \in Nat
  BY <1>1, <1>2, <1>3 DEF targetCount, min
<1>5. IsFiniteSet(RegionsOf(pool))
  <2> DEFINE f == [e \in pool |-> RegionOf[e]]
  <2>1. f \in Surjection(pool, RegionsOf(pool))
    BY DEF Surjection, RegionsOf
  <2> QED BY <1>1, <1>2, <2>1, FS_Surjection
<1>6. Cardinality(RegionsOf(pool)) \in Nat \ {0}
  <2>1. PICK e \in pool : TRUE
    BY <1>1
  <2>2. RegionOf[e] \in RegionsOf(pool)
    BY DEF RegionsOf
  <2> QED BY <1>5, <2>2, FS_EmptySet, FS_CardinalityType
<1>7. avg \in Nat /\ avg * Cardinality(RegionsOf(pool)) <= targetCount
  BY <1>4, <1>6, Share DEF avg
<1> QED BY <1>1, <1>2, <1>3, <1>4, <1>5, <1>6, <1>7

(* At the start every region is to be served and nothing is taken.          *)
Untouched ==
    TypeOK /\ CommonMode /\ maxDistribute > 0 /\ todo = RegionsOf(pool) =>
        /\ todo # {} /\ Touched = {}
        /\ targetCount \in Nat
        /\ avg * Cardinality(todo) \in Int /\ avg * Cardinality(todo) <= targetCount

LEMMA StartsUntouched == Untouched
<1> SUFFICES ASSUME TypeOK, CommonMode, maxDistribute > 0, todo = RegionsOf(pool)
             PROVE  /\ todo # {} /\ Touched = {}
                    /\ targetCount \in Nat
                    /\ avg * Cardinality(todo) \in Int
                    /\ avg * Cardinality(todo) <= targetCount
  BY DEF Untouched
<1>1. /\ targetCount \in Nat /\ avg \in Nat
      /\ Cardinality(todo) \in Nat \ {0} /\ avg * Cardinality(todo) <= targetCount
  BY TargetType
<1>2. todo # {}
  BY <1>1, FS_EmptySet
<1>3. Touched = {}
  BY DEF Touched, RegionsOf
<1> QED BY <1>1, <1>2, <1>3

LEMMA CommonRequest == ASSUME SelInv, SelInv', Request PROVE CommonOK'
<1>1. /\ pc' \in {"serve", "done"} /\ selected' = {} /\ length' = 0
      /\ assigned' = 0 /\ deficit' = 0 /\ remaining' = {} /\ TypeOK'
      /\ pc' = "serve" => todo' = RegionsOf(pool)' /\ maxDistribute' > 0
      /\ Served' => entries' = {}
  <2>1. pc = "idle" /\ selected = {} /\ length = 0 /\ assigned = 0 /\ deficit = 0 /\ remaining = {}
    BY FS_EmptySet DEF SelInv, TakenOK, Request, NoneTwice
  <2> QED BY <2>1 DEF Request, Served, SelInv
<1>2. ASSUME pc' = "serve", CommonMode' PROVE QuotasOK'
  <2>1. Untouched'
    BY StartsUntouched, PTL
  <2>2. /\ todo' # {} /\ Touched' = {}
        /\ targetCount' \in Nat
        /\ avg' * Cardinality(todo') \in Int /\ avg' * Cardinality(todo') <= targetCount'
    BY <1>1, <1>2, <2>1 DEF Untouched
  <2> QED BY <1>1, <2>2 DEF QuotasOK
<1>3. CommonFillsUp' /\ CommonFirst'
  BY <1>1 DEF CommonFillsUp, CommonFirst, CommonMode, commonPool, Served
<1> QED BY <1>1, <1>2, <1>3 DEF CommonOK

LEMMA CommonServe ==
    ASSUME CommonInv, SelInv', NEW r \in Regions, Serve(r) PROVE CommonOK'
<1>0. /\ TypeOK /\ pc = "serve" /\ r \in todo /\ maxDistribute > 0
      /\ todo \subseteq RegionsOf(pool) /\ selected \subseteq Touched
      /\ length \in Nat /\ deficit \in Nat /\ assigned \in Int /\ SelInv
  BY DEF CommonInv, SelInv, TakenOK, Serve, TypeOK
<1>1. UNCHANGED request /\ pc' = "serve" /\ todo' = todo \ {r}
      /\ assigned' = assigned + quota(r)
      /\ deficit' = deficit + shortfall(In(pool, r), quota(r))
  BY <1>0 DEF Serve
<1>2. SUFFICES ASSUME CommonMode PROVE QuotasOK'
  <2>1. CommonMode <=> CommonMode'
    BY <1>1, Frame
  <2> QED BY <1>1, <2>1 DEF CommonOK, CommonFillsUp, CommonFirst, Served
<1>3. QuotasOK
  BY <1>0, <1>2 DEF CommonInv, CommonOK
<1>4. /\ targetCount \in Nat /\ avg \in Nat
      /\ IsFiniteSet(RegionsOf(pool))
  BY <1>0, <1>2, TargetType
<1>5. /\ quota(r) \in Int /\ IsFiniteSet(In(pool, r)) /\ Cardinality(In(pool, r)) \in Nat
  BY <1>0, QuotaType
<1>6. IsFiniteSet(todo) /\ Cardinality(todo) \in Nat \ {0}
  BY <1>0, <1>4, FS_Subset, FS_EmptySet, FS_CardinalityType
<1>7. Cardinality(todo') = Cardinality(todo) - 1 /\ IsFiniteSet(todo')
  BY <1>0, <1>1, <1>6, FS_RemoveElement
<1>8. assigned + avg * Cardinality(todo) <= targetCount
  BY <1>0, <1>3 DEF QuotasOK
<1>9. /\ quota(r) >= 0
      /\ todo' = {} => assigned' = targetCount
      /\ todo' # {} => assigned' + avg * Cardinality(todo') <= targetCount
  <2>1. CASE todo = {r}
    <3>1. Cardinality(todo) = 1
      BY <2>1, FS_Singleton
    <3>2. quota(r) = targetCount - assigned /\ todo' = {}
      BY <1>1, <2>1 DEF quota
    <3>3. avg * Cardinality(todo) = avg
      BY <1>4, <3>1
    <3> QED BY <1>0, <1>1, <1>4, <1>8, <3>2, <3>3
  <2>2. CASE todo # {r}
    <3>1. quota(r) = avg /\ todo' # {}
      BY <1>0, <1>1, <1>2, <2>2 DEF quota
    <3>2. avg * Cardinality(todo) = avg + avg * (Cardinality(todo) - 1)
      BY <1>4, <1>6
    <3>3. avg * (Cardinality(todo) - 1) \in Int
      BY <1>4, <1>6
    <3> QED BY <1>0, <1>1, <1>4, <1>7, <1>8, <3>1, <3>2, <3>3
  <2> QED BY <2>1, <2>2
<1>10. PICK got \in AnyOf(In(pool, r), quota(r)) :
         Take(got) /\ remaining' = remaining \cup (In(pool, r) \ got)
  BY <1>2, PoolSample DEF Serve
<1>11. /\ got \subseteq In(pool, r)
       /\ Cardinality(got) = min(quota(r), Cardinality(In(pool, r)))
  BY <1>5, <1>9, <1>10, SampleSize
<1>12. Cardinality(got) + shortfall(In(pool, r), quota(r)) = quota(r)
  BY <1>5, <1>9, <1>11 DEF min, shortfall
<1>13. /\ selected' = selected \cup got /\ length' = length + Cardinality(got)
  BY <1>10 DEF Take
<1>14. length' + deficit' = assigned'
  <2>1. length + deficit = assigned
    BY <1>3 DEF QuotasOK
  <2>2. Cardinality(got) \in Int /\ shortfall(In(pool, r), quota(r)) \in Int
    BY <1>5, <1>11 DEF min, shortfall
  <2> QED BY <1>0, <1>1, <1>5, <1>12, <1>13, <2>1, <2>2
<1>15. pool' = pool /\ targetCount' = targetCount /\ avg' = avg
  BY <1>1, Frame
<1>16. Touched' = Touched \cup In(pool, r)
  BY <1>0, <1>1, <1>15 DEF Touched, In, RegionsOf
<1>17. In(pool, r) \cap Touched = {}
  BY <1>0 DEF In, Touched
<1>18. remaining' = Touched' \ selected'
  BY <1>0, <1>3, <1>10, <1>11, <1>13, <1>16, <1>17 DEF QuotasOK
<1> QED BY <1>9, <1>14, <1>15, <1>18 DEF QuotasOK

(* Filling up from a second pool: the limit is reached or both pools are    *)
(* used up, and the second one is touched only if the first is.             *)
FillsUp(P, Q, A, m, k, T) ==
    /\ IsFiniteSet(P) /\ IsFiniteSet(Q) /\ P \cap Q = {} /\ A \subseteq P
    /\ Cardinality(A) = min(m, Cardinality(P)) /\ k = m - Cardinality(A)
    /\ T \in AnyOf(Q, k)
    => /\ T \subseteq Q
       /\ Cardinality(A \cup T) = min(m, Cardinality(P \cup Q))
       /\ T # {} => A = P

LEMMA FillUp == \A P, Q, A, k, T : \A m \in Nat : FillsUp(P, Q, A, m, k, T)
<1> TAKE P, Q, A, k, T
<1> TAKE m \in Nat
<1> SUFFICES ASSUME IsFiniteSet(P), IsFiniteSet(Q), P \cap Q = {}, A \subseteq P,
                    Cardinality(A) = min(m, Cardinality(P)), k = m - Cardinality(A),
                    T \in AnyOf(Q, k)
             PROVE  /\ T \subseteq Q
                    /\ Cardinality(A \cup T) = min(m, Cardinality(P \cup Q))
                    /\ T # {} => A = P
  BY DEF FillsUp
<1>1. /\ Cardinality(P) \in Nat /\ Cardinality(Q) \in Nat
      /\ IsFiniteSet(A) /\ Cardinality(A) \in Nat
  BY FS_CardinalityType, FS_Subset
<1>2. /\ T \subseteq Q /\ IsFiniteSet(T)
      /\ Cardinality(T) = min(m - Cardinality(A), Cardinality(Q))
  <2>1. k \in Int /\ ~(k < 0)
    BY <1>1 DEF min
  <2> QED BY <1>1, <2>1, SampleSize
<1>3. /\ Cardinality(A \cup T) = Cardinality(A) + Cardinality(T)
      /\ Cardinality(P \cup Q) = Cardinality(P) + Cardinality(Q)
  BY <1>1, <1>2, DisjointSize
<1>4. Cardinality(A \cup T) = min(m, Cardinality(P \cup Q))
  BY <1>1, <1>2, <1>3 DEF min
<1>5. ASSUME T # {} PROVE A = P
  <2>1. Cardinality(T) # 0
    BY <1>2, <1>5, FS_EmptySet
  <2>2. Cardinality(A) = Cardinality(P)
    BY <1>1, <1>2, <2>1 DEF min
  <2> QED BY <1>1, <2>2, FS_Subset
<1> QED BY <1>2, <1>4, <1>5

LEMMA CommonDeficit == ASSUME CommonInv, SelInv', FillDeficit PROVE CommonOK'
<1>0. /\ TypeOK /\ NoneTwice /\ pc = "serve" /\ todo = {} /\ maxDistribute > 0
      /\ selected \subseteq Touched
      /\ length \in Nat /\ deficit \in Nat
  BY DEF CommonInv, SelInv, TakenOK, FillDeficit, TypeOK
<1>1. UNCHANGED request /\ pc' = IF CommonMode THEN "other" ELSE "un"
  BY DEF FillDeficit
<1>2. CommonMode <=> CommonMode'
  BY <1>1, Frame
<1>3. SUFFICES ASSUME CommonMode
               PROVE length' = min(maxDistribute', Cardinality(commonPool'))
  BY <1>1, <1>2 DEF CommonOK, CommonFillsUp, CommonFirst, Served
<1>4. /\ pool = commonPool /\ IsFiniteSet(commonPool) /\ Cardinality(commonPool) \in Nat
      /\ targetCount = min(maxDistribute, Cardinality(commonPool))
      /\ maxDistribute \in Nat
  BY <1>0, <1>3, TargetType
<1>5. /\ remaining = commonPool \ selected /\ length + deficit = targetCount
      /\ selected \subseteq commonPool
  BY <1>0, <1>3, <1>4 DEF CommonInv, CommonOK, QuotasOK, Touched
<1>6. IsFiniteSet(remaining) /\ Cardinality(remaining) = Cardinality(commonPool) - length
  <2>1. commonPool \cap selected = selected
    BY <1>5
  <2>2. /\ IsFiniteSet(commonPool \ selected)
        /\ Cardinality(commonPool \ selected)
             = Cardinality(commonPool) - Cardinality(commonPool \cap selected)
    BY <1>4, FS_Difference
  <2>3. length = Cardinality(selected)
    BY <1>0 DEF NoneTwice
  <2> QED BY <1>5, <2>1, <2>2, <2>3
<1>7. PICK T \in AnyOf(remaining, deficit) : Take(T)
  BY DEF FillDeficit
<1>8. Cardinality(T) = min(deficit, Cardinality(remaining))
  BY <1>0, <1>6, <1>7, SampleSize
<1>9. Cardinality(T) = deficit
  BY <1>0, <1>4, <1>5, <1>6, <1>8 DEF min
<1>10. length' = targetCount
  BY <1>5, <1>7, <1>9 DEF Take
<1>11. maxDistribute' = maxDistribute /\ commonPool' = commonPool
  BY <1>1, Frame
<1> QED BY <1>4, <1>10, <1>11

LEMMA CommonOther == ASSUME CommonInv, SelInv', FillOther PROVE CommonOK'
<1>0. /\ TypeOK /\ NoneTwice /\ CommonMode /\ maxDistribute > 0 /\ maxDistribute \in Nat
      /\ selected \subseteq commonPool
      /\ length = min(maxDistribute, Cardinality(commonPool)) /\ length = Cardinality(selected)
  BY DEF CommonInv, SelInv, TakenOK, CommonOK, FillOther, TypeOK, NoneTwice
<1>1. /\ UNCHANGED request /\ pc' = "un"
      /\ maxDistribute' = maxDistribute /\ (CommonMode <=> CommonMode')
      /\ commonPool' = commonPool /\ otherPool' = otherPool
  BY Frame DEF FillOther
<1>2. PICK T \in AnyOf(otherPool, maxDistribute - length) : Take(T)
  BY BestIsAny DEF FillOther
<1>3. /\ T \subseteq otherPool /\ T \in SUBSET entries /\ T \cap selected = {}
      /\ Cardinality(selected \cup T) = min(maxDistribute, Cardinality(commonPool \cup otherPool))
      /\ T # {} => selected = commonPool
  <2>1. /\ commonPool \in SUBSET entries /\ otherPool \in SUBSET entries
        /\ commonPool \cap otherPool = {} /\ entries \in SUBSET Nodes
    BY <1>0, PoolFacts DEF TypeOK
  <2>2. IsFiniteSet(commonPool) /\ IsFiniteSet(otherPool)
    BY <2>1, PartsFinite
  <2>3. /\ T \subseteq otherPool
        /\ Cardinality(selected \cup T) = min(maxDistribute, Cardinality(commonPool \cup otherPool))
        /\ T # {} => selected = commonPool
    <3>1. FillsUp(commonPool, otherPool, selected, maxDistribute, maxDistribute - length, T)
      BY <1>0, FillUp
    <3> QED BY <1>0, <1>2, <2>1, <2>2, <3>1 DEF FillsUp
  <2> QED BY <1>0, <2>1, <2>3
<1>4. selected' = selected \cup T /\ length' = Cardinality(selected')
  BY <1>0, <1>2, <1>3, TakeNew
<1>5. CommonSplit'
  BY <1>0, <1>1, <1>3, <1>4 DEF CommonSplit
<1> QED BY <1>1, <1>3, <1>4, <1>5 DEF CommonOK, CommonFillsUp, CommonFirst, Served

LEMMA CommonUN == ASSUME CommonInv, SelInv', FillUN PROVE CommonOK'
<1>0. /\ TypeOK /\ NoneTwice /\ pc' = "done" /\ maxDistribute \in Nat
      /\ length = Cardinality(selected)
  BY DEF CommonInv, SelInv, TakenOK, FillUN, TypeOK, NoneTwice
<1>1. /\ entries' = entries /\ maxDistribute' = maxDistribute /\ (CommonMode <=> CommonMode')
      /\ commonPool' = commonPool /\ unPool' = unPool
  BY Frame DEF FillUN
<1>2. SUFFICES ASSUME CommonMode PROVE CommonFillsUp' /\ CommonFirst'
  BY <1>0, <1>1 DEF CommonOK, CommonFillsUp, CommonFirst
<1>3. /\ length = min(maxDistribute, Cardinality(commonPool \cup otherPool))
      /\ CommonSplit
  BY <1>2 DEF CommonInv, CommonOK, FillUN
<1>4. PICK T \in AnyOf(unPool, maxDistribute - length) : Take(T)
  BY BestIsAny DEF FillUN
<1>5. /\ commonPool \cup otherPool \subseteq entries /\ unPool \subseteq entries
      /\ (commonPool \cup otherPool) \cap unPool = {}
      /\ entries \ unPool = commonPool \cup otherPool
      /\ (commonPool \cup otherPool) \cup unPool = entries
      /\ otherPool \cap commonPool = {}
  BY <1>0, PoolFacts DEF TypeOK
<1>6. /\ T \subseteq unPool /\ T \in SUBSET entries /\ T \cap selected = {}
      /\ Cardinality(selected \cup T) = min(maxDistribute, Cardinality(entries))
      /\ T # {} => selected = commonPool \cup otherPool
  <2>1. /\ entries \in SUBSET Nodes /\ selected \subseteq commonPool \cup otherPool
    BY <1>0, <1>3 DEF TypeOK, CommonSplit
  <2>2. IsFiniteSet(commonPool \cup otherPool) /\ IsFiniteSet(unPool)
    BY <1>5, <2>1, PartsFinite
  <2>3. /\ T \subseteq unPool
        /\ Cardinality(selected \cup T)
             = min(maxDistribute, Cardinality((commonPool \cup otherPool) \cup unPool))
        /\ T # {} => selected = commonPool \cup otherPool
    <3>1. FillsUp(commonPool \cup otherPool, unPool, selected,
                  maxDistribute, maxDistribute - length, T)
      BY <1>0, FillUp
    <3> QED BY <1>0, <1>3, <1>4, <1>5, <2>1, <2>2, <3>1 DEF FillsUp
  <2> QED BY <1>5, <2>1, <2>3
<1>7. selected' = selected \cup T /\ length' = Cardinality(selected')
  BY <1>0, <1>4, <1>6, TakeNew
<1>8. CommonFillsUp'
  BY <1>1, <1>6, <1>7 DEF CommonFillsUp
<1>9. CommonFirst'
  <2>1. selected' \subseteq commonPool' \/ commonPool' \subseteq selected'
    BY <1>1, <1>3, <1>6, <1>7 DEF CommonSplit
  <2>2. selected' \cap unPool' = {} \/ entries' \ unPool' \subseteq selected'
    BY <1>1, <1>3, <1>5, <1>6, <1>7 DEF CommonSplit
  <2> QED BY <2>1, <2>2 DEF CommonFirst
<1> QED BY <1>8, <1>9

LEMMA CommonStep == CommonInv /\ [Next]_vars => CommonInv'
<1> SUFFICES ASSUME CommonInv, [Next]_vars PROVE CommonInv'
  OBVIOUS
<1>0. SelInv /\ SelInv'
  BY SelStep DEF CommonInv
<1>1. CASE Request
  BY <1>0, <1>1, CommonRequest DEF CommonInv
<1>2. ASSUME NEW r \in Regions, Serve(r) PROVE CommonInv'
  BY <1>0, <1>2, CommonServe DEF CommonInv
<1>3. CASE FillDeficit
  BY <1>0, <1>3, CommonDeficit DEF CommonInv
<1>4. CASE FillOther
  BY <1>0, <1>4, CommonOther DEF CommonInv
<1>5. CASE FillUN
  BY <1>0, <1>5, CommonUN DEF CommonInv
<1>6. CASE Answer
  BY <1>0, <1>6 DEF Answer, CommonInv, CommonOK, CommonFillsUp, CommonFirst, Served
<1>7. CASE UNCHANGED vars
  <2>1. UNCHANGED request
    BY <1>7 DEF vars
  <2>2. /\ entries' = entries /\ maxDistribute' = maxDistribute
        /\ commonPool' = commonPool /\ unPool' = unPool /\ otherPool' = otherPool
        /\ (CommonMode <=> CommonMode') /\ pool' = pool
        /\ targetCount' = targetCount /\ avg' = avg
    BY <2>1, Frame
  <2>3. CommonOK => CommonOK'
    BY <1>7, <2>2 DEF vars, CommonOK, QuotasOK, CommonSplit, CommonFillsUp, CommonFirst, Served, Touched
  <2> QED BY <1>0, <2>3 DEF CommonInv
<1> QED BY <1>1, <1>2, <1>3, <1>4, <1>5, <1>6, <1>7 DEF Next

LEMMA CommonInvariant == Spec => []CommonInv
<1>1. Init => CommonInv
  BY SelInit DEF Init, CommonInv, CommonOK, CommonFillsUp, CommonFirst, Served
<1> QED BY <1>1, CommonStep, PTL DEF Spec

(* With any node in a common region, preset "common" distributes exactly    *)
(* max_distribute nodes, or all candidates if there are fewer: the quotas   *)
(* that round away or cannot be met are made up for (selector.go:95-185).   *)
THEOREM CommonIsExact == Spec => []CommonFillsUp
<1>1. CommonInv => CommonFillsUp
  BY DEF CommonInv, CommonOK
<1> QED BY <1>1, CommonInvariant, PTL

(* Preset "common" touches the other regions only when the common ones are  *)
(* used up, and UN only when all others are (selector.go:174-182).          *)
THEOREM CommonComesFirst == Spec => []CommonFirst
<1>1. CommonInv => CommonFirst
  BY DEF CommonInv, CommonOK
<1> QED BY <1>1, CommonInvariant, PTL

-----------------------------------------------------------------------------
(* The share of each region *)

Given(r) == Cardinality(In(selected, r)) >= min(avg, Cardinality(In(commonPool, r)))

ShareOK ==
    pc # "idle" /\ CommonMode /\ maxDistribute > 0 =>
        \A r \in RegionsOf(commonPool) : (pc = "serve" /\ r \in todo) \/ Given(r)

(* What a region was given it keeps.                                        *)
LEMMA ShareGrows ==
    ASSUME TypeOK, TypeOK', UNCHANGED request, selected \subseteq selected',
           NEW r, Given(r), avg \in Int
    PROVE  Given(r)'
<1>1. /\ In(selected, r) \subseteq In(selected', r) /\ In(selected', r) \subseteq entries
      /\ In(selected, r) \subseteq entries /\ In(commonPool, r) \subseteq entries
  <2>1. entries' = entries
    BY DEF request
  <2> QED BY <2>1 DEF In, TypeOK, commonPool
<1>2. /\ IsFiniteSet(In(selected', r)) /\ Cardinality(In(selected', r)) \in Nat
      /\ Cardinality(In(selected, r)) \in Nat /\ Cardinality(In(commonPool, r)) \in Nat
  BY <1>1, PartsFinite DEF TypeOK
<1>3. Cardinality(In(selected, r)) <= Cardinality(In(selected', r))
  BY <1>1, <1>2, FS_Subset
<1>4. avg' = avg /\ commonPool' = commonPool
  BY Frame
<1>5. /\ In(selected, r)' = In(selected', r)
      /\ In(commonPool, r)' = In(commonPool, r)
  BY <1>4 DEF In
<1> QED BY <1>2, <1>3, <1>4, <1>5 DEF Given, min

(* The region just served is given its quota, which is not below the share. *)
LEMMA ShareServed ==
    ASSUME CommonInv, SelInv', CommonMode, NEW r \in Regions, Serve(r)
    PROVE  Given(r)'
<1>0. /\ TypeOK /\ TypeOK' /\ pc = "serve" /\ r \in todo /\ maxDistribute > 0
      /\ todo \subseteq RegionsOf(pool) /\ QuotasOK /\ assigned \in Int
  BY DEF CommonInv, CommonOK, SelInv, TakenOK, Serve, TypeOK
<1>1. /\ targetCount \in Nat /\ avg \in Nat /\ pool = commonPool
      /\ IsFiniteSet(RegionsOf(pool))
  BY <1>0, TargetType
<1>2. /\ quota(r) \in Int /\ IsFiniteSet(In(pool, r)) /\ Cardinality(In(pool, r)) \in Nat
  BY <1>0, QuotaType
<1>3. quota(r) >= avg
  <2>1. CASE todo = {r}
    <3>1. Cardinality(todo) = 1
      BY <2>1, FS_Singleton
    <3>2. assigned + avg * Cardinality(todo) <= targetCount
      BY <1>0 DEF QuotasOK
    <3>3. avg * Cardinality(todo) = avg
      BY <1>1, <3>1
    <3>4. quota(r) = targetCount - assigned
      BY <2>1 DEF quota
    <3> QED BY <1>0, <1>1, <3>2, <3>3, <3>4
  <2>2. CASE todo # {r}
    <3>1. quota(r) = avg
      BY <2>2 DEF quota
    <3> QED BY <1>1, <3>1
  <2> QED BY <2>1, <2>2
<1>4. PICK got \in AnyOf(In(pool, r), quota(r)) : Take(got)
  BY PoolSample DEF Serve
<1>5. /\ got \subseteq In(pool, r) /\ IsFiniteSet(got)
      /\ Cardinality(got) = min(quota(r), Cardinality(In(pool, r)))
  BY <1>1, <1>2, <1>3, <1>4, SampleSize
<1>6. got \subseteq In(selected', r) /\ In(selected', r) \subseteq entries
  <2>1. selected' = selected \cup got /\ entries' = entries
    BY <1>4 DEF Take, Serve, request
  <2> QED BY <1>0, <1>5, <2>1 DEF In, TypeOK
<1>7. /\ IsFiniteSet(In(selected', r)) /\ Cardinality(In(selected', r)) \in Nat
  BY <1>0, <1>6, PartsFinite DEF TypeOK
<1>8. Cardinality(got) <= Cardinality(In(selected', r))
  BY <1>6, <1>7, FS_Subset
<1>9. avg' = avg /\ commonPool' = commonPool
  BY Frame DEF Serve
<1>10. /\ In(selected, r)' = In(selected', r) /\ In(commonPool, r)' = In(pool, r)
  BY <1>1, <1>9 DEF In
<1> QED BY <1>1, <1>2, <1>3, <1>5, <1>7, <1>8, <1>9, <1>10 DEF Given, min

LEMMA ShareStep == CommonInv /\ ShareOK /\ [Next]_vars => ShareOK'
<1> SUFFICES ASSUME CommonInv, ShareOK, [Next]_vars PROVE ShareOK'
  OBVIOUS
<1>0. CommonInv' /\ SelInv /\ SelInv' /\ TypeOK /\ TypeOK'
  BY CommonStep DEF CommonInv, SelInv
<1>1. CASE Request
  <2>1. pc' = "serve" => todo' = RegionsOf(pool)'
    BY <1>1 DEF Request
  <2>2. pc' = "serve" \/ ~(maxDistribute' > 0 /\ CommonMode')
    BY <1>1 DEF Request, CommonMode, commonPool
  <2>3. CommonMode' => RegionsOf(pool)' = RegionsOf(commonPool)'
    BY DEF pool
  <2> QED BY <2>1, <2>2, <2>3 DEF ShareOK
<1>2. CASE Answer
  BY <1>2 DEF Answer, ShareOK
<1>3. ASSUME UNCHANGED request, selected \subseteq selected', pc # "idle",
             \A r \in RegionsOf(commonPool) :
                CommonMode /\ maxDistribute > 0 /\ pc = "serve" /\ r \in todo =>
                   (pc' = "serve" /\ r \in todo') \/ Given(r)'
      PROVE  ShareOK'
  <2>1. /\ commonPool' = commonPool /\ (CommonMode <=> CommonMode')
        /\ maxDistribute' = maxDistribute
    BY <1>3, Frame
  <2>2. SUFFICES ASSUME CommonMode, maxDistribute > 0, NEW r \in RegionsOf(commonPool)
                 PROVE  (pc' = "serve" /\ r \in todo') \/ Given(r)'
    BY <2>1 DEF ShareOK, RegionsOf
  <2>3. avg \in Int
    BY <1>0, <2>2, TargetType
  <2> QED BY <1>0, <1>3, <2>2, <2>3, ShareGrows DEF ShareOK
<1>4. ASSUME NEW r \in Regions, Serve(r) PROVE ShareOK'
  <2>1. /\ UNCHANGED request /\ selected \subseteq selected' /\ pc = "serve"
        /\ pc' = "serve" /\ todo' = todo \ {r}
    BY <1>4 DEF Serve, Take
  <2>2. CommonMode => Given(r)'
    BY <1>0, <1>4, ShareServed
  <2> QED BY <1>3, <2>1, <2>2
<1>5. CASE FillDeficit \/ FillOther \/ FillUN
  <2>1. /\ UNCHANGED request /\ selected \subseteq selected' /\ pc # "idle"
        /\ pc = "serve" => todo = {}
    BY <1>5 DEF FillDeficit, FillOther, FillUN, Take
  <2> QED BY <1>3, <2>1
<1>6. CASE UNCHANGED vars
  <2>1. /\ UNCHANGED request /\ pc' = pc /\ todo' = todo /\ selected' = selected
    BY <1>6 DEF vars
  <2>2. CASE pc = "idle"
    BY <2>1, <2>2 DEF ShareOK
  <2>3. CASE pc # "idle"
    BY <1>3, <2>1, <2>3
  <2> QED BY <2>2, <2>3
<1> QED BY <1>1, <1>2, <1>4, <1>5, <1>6 DEF Next

(* Preset "common" gives every common region with candidates its equal      *)
(* share, or all of its nodes (selector.go:127-172).                        *)
THEOREM CommonSharesEvenly == Spec => []EvenShare
<1>1. Init => ShareOK
  BY DEF Init, ShareOK
<1>2. Spec => []ShareOK
  BY <1>1, CommonInvariant, ShareStep, PTL DEF Spec
<1>3. ShareOK => EvenShare
  <2> SUFFICES ASSUME ShareOK, Served, CommonMode, NEW r \in RegionsOf(commonPool)
               PROVE  Cardinality(In(selected, r)) >= min(avg, Cardinality(In(entries, r)))
    BY DEF EvenShare
  <2>1. Given(r)
    BY DEF ShareOK, Served
  <2>2. In(entries, r) = In(commonPool, r)
    BY DEF In, commonPool, RegionsOf
  <2> QED BY <2>1, <2>2 DEF Given
<1> QED BY <1>2, <1>3, PTL
-----------------------------------------------------------------------------
(* Arithmetic *)

LEMMA Division ==
    ASSUME NEW a \in Nat, NEW b \in Nat \ {0}
    PROVE  a \div b \in Nat /\ b * (a \div b) <= a /\ a < b * (a \div b) + b
OBVIOUS

LEMMA Cancel ==
    ASSUME NEW P \in Nat \ {0}, NEW a \in Int, NEW b \in Int, P * a <= P * b
    PROVE  a <= b
OBVIOUS

(* A rounded share is off by half a node and exceeds no region.             *)
LEMMA Rounding ==
    ASSUME NEW P \in Nat \ {0}, NEW T \in Nat, T <= P, NEW s \in Nat,
           NEW q, q = (2 * T * s + P) \div (2 * P)
    PROVE  /\ q \in Nat /\ q <= s
           /\ 2 * P * q - 2 * T * s <= P /\ 2 * T * s - 2 * P * q <= P
           /\ T = P => q = s
<1>1. T * s \in Nat /\ P * s \in Nat /\ T * s <= P * s
  <2>1. PICK d \in Nat : P = T + d
    <3>1. P - T \in Nat /\ P = T + (P - T)
      OBVIOUS
    <3> QED BY <3>1
  <2>2. P * s = T * s + d * s /\ d * s \in Nat /\ T * s \in Nat
    BY <2>1
  <2> QED BY <2>2
<1>2. 2 * T * s + P \in Nat /\ 2 * P \in Nat \ {0} /\ 2 * T * s = 2 * (T * s)
  BY <1>1
<1>3. /\ q \in Nat
      /\ (2 * P) * q <= 2 * T * s + P /\ 2 * T * s + P < (2 * P) * q + 2 * P
  BY <1>2, Division
<1>4. P * q \in Nat /\ (2 * P) * q = 2 * (P * q) /\ 2 * P * q = 2 * (P * q)
  BY <1>3
<1>5. q <= s
  <2>1. 2 * (P * q) < 2 * (P * s) + 2 * P
    <3> DEFINE a == P * q
               b == T * s
               c == P * s
    <3>1. a \in Nat /\ b \in Nat /\ c \in Nat /\ b <= c /\ 2 * a <= 2 * b + P
      BY <1>1, <1>2, <1>3, <1>4
    <3> HIDE DEF a, b, c
    <3>2. 2 * a < 2 * c + 2 * P
      BY <3>1
    <3> QED BY <3>2 DEF a, c
  <2>2. P * q < P * (s + 1)
    <3>1. P * (s + 1) = P * s + P
      OBVIOUS
    <3>2. P * q < P * s + P
      BY <1>1, <1>4, <2>1
    <3> QED BY <3>1, <3>2
  <2>3. ASSUME q >= s + 1 PROVE FALSE
    <3>1. PICK d \in Nat : q = (s + 1) + d
      <4>1. q - (s + 1) \in Nat /\ q = (s + 1) + (q - (s + 1))
        BY <1>3, <2>3
      <4> QED BY <4>1
    <3>2. P * q = P * (s + 1) + P * d /\ P * d \in Nat /\ P * (s + 1) \in Nat
      BY <3>1
    <3> QED BY <2>2, <3>2
  <2> QED BY <1>3, <2>3
<1>6. ASSUME T = P PROVE q = s
  <2>1. 2 * (P * s) + P < 2 * (P * q) + 2 * P
    BY <1>2, <1>3, <1>4, <1>6
  <2>2. ASSUME q + 1 <= s PROVE FALSE
    <3>1. PICK d \in Nat : s = (q + 1) + d
      <4>1. s - (q + 1) \in Nat /\ s = (q + 1) + (s - (q + 1))
        BY <1>3, <2>2
      <4> QED BY <4>1
    <3>2. P * s = P * q + P + P * d /\ P * d \in Nat
      BY <1>3, <3>1
    <3> QED BY <1>4, <2>1, <3>2
  <2> QED BY <1>3, <1>5, <2>2
<1> QED BY <1>1, <1>2, <1>3, <1>4, <1>5, <1>6

(* What t nodes of P were given, l, is off their share by at most k halves. *)
Near(P, T, l, t, k) ==
    /\ 2 * P * l - 2 * T * t <= P * k
    /\ 2 * T * t - 2 * P * l <= P * k

LEMMA NearMore ==
    ASSUME NEW P \in Nat, NEW T \in Nat, NEW l \in Int, NEW t \in Int, NEW k \in Int,
           NEW q \in Int, NEW s \in Int, Near(P, T, l, t, k), Near(P, T, q, s, 1)
    PROVE  Near(P, T, l + q, t + s, k + 1)
<1>1. /\ P * (l + q) = P * l + P * q /\ T * (t + s) = T * t + T * s /\ P * (k + 1) = P * k + P
      /\ P * l \in Int /\ P * q \in Int /\ T * t \in Int /\ T * s \in Int /\ P * k \in Int
  OBVIOUS
<1>2. /\ 2 * P * l = 2 * (P * l) /\ 2 * P * q = 2 * (P * q)
      /\ 2 * T * t = 2 * (T * t) /\ 2 * T * s = 2 * (T * s)
      /\ 2 * P * (l + q) = 2 * (P * (l + q)) /\ 2 * T * (t + s) = 2 * (T * (t + s))
  OBVIOUS
<1> QED BY <1>1, <1>2 DEF Near

(* The last region takes what is left of the target, as far as it can.      *)
LEMMA LastQuota ==
    ASSUME NEW P \in Nat \ {0}, NEW T \in Nat, T <= P, NEW s \in Nat, NEW l \in Nat,
           NEW k \in Nat, Near(P, T, l, P - s, k),
           NEW g, g = IF T - l < 0 THEN 0 ELSE min(T - l, s)
    PROVE  2 * (l + g - T) <= k /\ 2 * (T - (l + g)) <= k
<1>1. /\ P * T \in Nat /\ P * l \in Nat /\ T * s \in Nat /\ P * s \in Nat /\ P * k \in Nat
      /\ T * (P - s) = P * T - T * s
      /\ 2 * P * l = 2 * (P * l) /\ 2 * T * (P - s) = 2 * (T * (P - s))
  OBVIOUS
<1>2. T * s <= P * s
  <2>1. PICK d \in Nat : P = T + d
    <3>1. P - T \in Nat /\ P = T + (P - T)
      OBVIOUS
    <3> QED BY <3>1
  <2>2. P * s = T * s + d * s /\ d * s \in Nat
    BY <2>1
  <2> QED BY <1>1, <2>2
<1>3. /\ 2 * (P * l) - 2 * (P * T) + 2 * (T * s) <= P * k
      /\ 2 * (P * T) - 2 * (T * s) - 2 * (P * l) <= P * k
  BY <1>1 DEF Near
<1>4. CASE T - l < 0
  <2>1. P * (2 * (l - T)) = 2 * (P * l) - 2 * (P * T)
    OBVIOUS
  <2>2. P * (2 * (l - T)) <= P * k
    BY <1>1, <1>3, <2>1
  <2>3. 2 * (l - T) <= k
    BY <2>2, Cancel
  <2> QED BY <1>4, <2>3
<1>5. CASE T - l >= 0 /\ T - l <= s
  BY <1>5 DEF min
<1>6. CASE T - l > s
  <2>1. P * (2 * (T - (l + s))) = 2 * (P * T) - 2 * (P * l) - 2 * (P * s)
    OBVIOUS
  <2>2. P * (2 * (T - (l + s))) <= P * k
    BY <1>1, <1>2, <1>3, <2>1
  <2>3. 2 * (T - (l + s)) <= k
    BY <2>2, Cancel
  <2>4. g = s
    BY <1>6 DEF min
  <2> QED BY <1>6, <2>3, <2>4
<1> QED BY <1>4, <1>5, <1>6

-----------------------------------------------------------------------------
(* Presets "all" and "other" *)

Total == Cardinality(pool)
RegionCount == Cardinality(RegionsOf(pool))

(* At the end of the loop: close to the target, and there if all are.       *)
CloseBy ==
    /\ targetCount = Total => length = Total
    /\ pool # {} => /\ 2 * (length - targetCount) <= RegionCount - 1
                    /\ 2 * (targetCount - length) <= RegionCount - 1

(* While regions are served each of them has its rounded share, so nothing  *)
(* is missing and nothing kept; the last one may be short, but then has no  *)
(* nodes left.                                                              *)
SharesOK ==
    /\ remaining = {}
    /\ todo # {} =>
         /\ length = assigned
         /\ targetCount = Total => length = Cardinality(Touched)
         /\ Near(Total, targetCount, length, Cardinality(Touched), RegionCount - Cardinality(todo))
    /\ todo = {} => CloseBy

QuotaOK ==
    /\ pc = "serve" /\ ~CommonMode => SharesOK
    /\ pc = "un" /\ ~CommonMode => selected \subseteq pool /\ CloseBy
    /\ ~CommonMode => AllWhenFewer
    /\ RoundingBounded

QuotaInv == SelInv /\ QuotaOK

LEMMA PoolSizes ==
    ASSUME TypeOK, maxDistribute > 0
    PROVE  /\ pool \subseteq entries /\ entries \in SUBSET Nodes
           /\ IsFiniteSet(pool) /\ Total \in Nat /\ (Total = 0 <=> pool = {})
           /\ maxDistribute \in Nat \ {0}
           /\ targetCount = min(maxDistribute, Total)
           /\ targetCount \in Nat /\ targetCount <= Total
           /\ IsFiniteSet(RegionsOf(pool)) /\ RegionCount \in Nat
           /\ (RegionCount = 0 <=> pool = {}) /\ (RegionsOf(pool) = {} <=> pool = {})
<1>1. pool \subseteq entries /\ entries \in SUBSET Nodes
  BY PoolFacts DEF TypeOK
<1>2. IsFiniteSet(pool) /\ Total \in Nat /\ (Total = 0 <=> pool = {})
  BY <1>1, PartsFinite, FS_EmptySet DEF Total
<1>3. maxDistribute \in Nat \ {0} /\ targetCount = min(maxDistribute, Total)
  BY DEF TypeOK, targetCount, Total
<1>4. targetCount \in Nat /\ targetCount <= Total
  BY <1>2, <1>3 DEF min
<1>5. IsFiniteSet(RegionsOf(pool))
  <2> DEFINE f == [e \in pool |-> RegionOf[e]]
  <2>1. f \in Surjection(pool, RegionsOf(pool))
    BY DEF Surjection, RegionsOf
  <2> QED BY <1>2, <2>1, FS_Surjection
<1>6. RegionsOf(pool) = {} <=> pool = {}
  <2>1. \A e \in pool : RegionOf[e] \in RegionsOf(pool)
    BY DEF RegionsOf
  <2>2. \A x \in RegionsOf(pool) : \E e \in pool : x = RegionOf[e]
    BY DEF RegionsOf
  <2> QED BY <2>1, <2>2
<1>7. RegionCount \in Nat /\ (RegionCount = 0 <=> pool = {})
  BY <1>5, <1>6, FS_EmptySet, FS_CardinalityType DEF RegionCount
<1> QED BY <1>1, <1>2, <1>3, <1>4, <1>5, <1>6, <1>7

LEMMA QuotaFrame ==
    ASSUME UNCHANGED request
    PROVE  Total' = Total /\ RegionCount' = RegionCount
<1>1. pool' = pool
  BY Frame
<1> QED BY <1>1 DEF Total, RegionCount, RegionsOf

(* At the start nothing is taken and nothing given.                         *)
Starting ==
    TypeOK /\ maxDistribute > 0 /\ todo = RegionsOf(pool) /\ remaining = {}
      /\ length = 0 /\ assigned = 0 => SharesOK

LEMMA StartsWell == Starting
<1> SUFFICES ASSUME TypeOK, maxDistribute > 0, todo = RegionsOf(pool), remaining = {},
                    length = 0, assigned = 0
             PROVE  SharesOK
  BY DEF Starting
<1>1. Touched = {} /\ Cardinality(Touched) = 0
  BY FS_EmptySet DEF Touched, RegionsOf
<1>2. RegionCount - Cardinality(todo) = 0
  BY PoolSizes DEF RegionCount
<1>3. Near(Total, targetCount, 0, 0, 0)
  BY PoolSizes DEF Near
<1>4. todo = {} => CloseBy
  BY PoolSizes DEF CloseBy
<1> QED BY <1>1, <1>2, <1>3, <1>4 DEF SharesOK

LEMMA QuotaRequest == ASSUME SelInv, SelInv', Request PROVE QuotaOK'
<1>1. /\ pc' \in {"serve", "done"} /\ selected' = {} /\ length' = 0
      /\ assigned' = 0 /\ remaining' = {} /\ TypeOK'
      /\ pc' = "serve" => todo' = RegionsOf(pool)' /\ maxDistribute' > 0
      /\ Served' => entries' = {}
  <2>1. pc = "idle" /\ selected = {} /\ length = 0 /\ assigned = 0 /\ remaining = {}
    BY FS_EmptySet DEF SelInv, TakenOK, Request, NoneTwice
  <2> QED BY <2>1 DEF Request, Served, SelInv
<1>2. Starting'
  BY StartsWell, PTL
<1>3. pc' = "serve" => SharesOK'
  BY <1>1, <1>2 DEF Starting
<1>4. AllWhenFewer' /\ RoundingBounded'
  BY <1>1 DEF AllWhenFewer, RoundingBounded, pool, Served
<1> QED BY <1>1, <1>3, <1>4 DEF QuotaOK

LEMMA QuotaServe ==
    ASSUME QuotaInv, SelInv', NEW r \in Regions, Serve(r) PROVE QuotaOK'
<1>0. /\ TypeOK /\ SelInv /\ NoneTwice /\ pc = "serve" /\ r \in todo /\ maxDistribute > 0
      /\ todo \subseteq RegionsOf(pool) /\ selected \subseteq Touched
      /\ length \in Nat /\ assigned \in Int
  BY DEF QuotaInv, SelInv, TakenOK, Serve, TypeOK
<1>1. UNCHANGED request /\ pc' = "serve" /\ todo' = todo \ {r}
      /\ assigned' = assigned + quota(r)
  BY <1>0 DEF Serve
<1>2. SUFFICES ASSUME ~CommonMode PROVE SharesOK'
  <2>1. CommonMode <=> CommonMode'
    BY <1>1, Frame
  <2> QED BY <1>1, <2>1 DEF QuotaOK, AllWhenFewer, RoundingBounded, Served
<1> DEFINE S == In(pool, r)
           s == Cardinality(S)
           t == Cardinality(Touched)
           k == RegionCount - Cardinality(todo)
<1>3. /\ remaining = {} /\ length = assigned
      /\ targetCount = Total => length = t
      /\ Near(Total, targetCount, length, t, k)
  BY <1>0, <1>2 DEF QuotaInv, QuotaOK, SharesOK
<1>4. /\ pool \subseteq entries /\ entries \in SUBSET Nodes
      /\ IsFiniteSet(pool) /\ Total \in Nat \ {0} /\ pool # {}
      /\ targetCount \in Nat /\ targetCount <= Total
      /\ IsFiniteSet(RegionsOf(pool)) /\ RegionCount \in Nat
  BY <1>0, PoolSizes DEF RegionsOf
<1>5. quota(r) \in Int /\ IsFiniteSet(S) /\ s \in Nat
  BY <1>0, QuotaType
<1>6. /\ IsFiniteSet(todo) /\ Cardinality(todo) \in Nat \ {0}
      /\ Cardinality(todo') = Cardinality(todo) - 1
      /\ Cardinality(todo) <= RegionCount
  BY <1>0, <1>1, <1>4, FS_Subset, FS_EmptySet, FS_CardinalityType, FS_RemoveElement
     DEF RegionCount
<1>7. /\ pool' = pool /\ targetCount' = targetCount /\ Total' = Total
      /\ RegionCount' = RegionCount
  BY <1>1, Frame, QuotaFrame
<1>8. Touched' = Touched \cup S /\ Touched \cap S = {}
  BY <1>0, <1>1, <1>7 DEF Touched, In, RegionsOf
<1>9. /\ IsFiniteSet(Touched) /\ t \in Nat
      /\ Cardinality(Touched') = t + s /\ t + s <= Total
  <2>1. Touched \subseteq pool /\ S \subseteq pool
    BY DEF Touched, In
  <2>2. IsFiniteSet(Touched) /\ t \in Nat
    BY <1>4, <2>1, FS_Subset, FS_CardinalityType
  <2>3. Cardinality(Touched \cup S) = t + s
    BY <1>5, <1>8, <2>2, DisjointSize
  <2>4. Cardinality(Touched \cup S) <= Total
    BY <1>4, <2>1, FS_Subset DEF Total
  <2> QED BY <1>8, <2>2, <2>3, <2>4
<1>10. PICK got \in AnyOf(S, quota(r)) :
         /\ Take(got)
         /\ remaining' = IF shortfall(S, quota(r)) > 0 THEN remaining \cup (S \ got) ELSE remaining
  BY <1>2, PoolSample DEF Serve
<1>11. /\ got \subseteq S /\ IsFiniteSet(got)
       /\ Cardinality(got) = IF quota(r) < 0 THEN 0 ELSE min(quota(r), s)
       /\ length' = length + Cardinality(got)
  BY <1>5, <1>10, SampleSize DEF Take
<1>12. remaining' = {}
  <2>1. ASSUME shortfall(S, quota(r)) > 0 PROVE S \ got = {}
    <3>1. Cardinality(got) = s
      BY <1>5, <1>11, <2>1 DEF shortfall, min
    <3> QED BY <1>5, <1>11, <3>1, FS_Subset
  <2> QED BY <1>3, <1>10, <2>1
<1> HIDE DEF s, t, k, S
<1>13. CASE todo # {r}
  <2>1. /\ quota(r) = (2 * targetCount * s + Total) \div (2 * Total)
        /\ todo' # {}
    BY <1>0, <1>1, <1>2, <1>13 DEF quota, proportional, Total, s, S
  <2>2. /\ quota(r) \in Nat /\ quota(r) <= s
        /\ 2 * Total * quota(r) - 2 * targetCount * s <= Total
        /\ 2 * targetCount * s - 2 * Total * quota(r) <= Total
        /\ targetCount = Total => quota(r) = s
    BY <1>4, <1>5, <2>1, Rounding
  <2>3. length' = length + quota(r) /\ length' = assigned'
    BY <1>1, <1>3, <1>5, <1>11, <2>2 DEF min
  <2>4. targetCount = Total => length' = t + s
    BY <1>3, <2>2, <2>3
  <2>5. Near(Total, targetCount, quota(r), s, 1)
    BY <1>4, <2>2 DEF Near
  <2>6. k \in Int /\ RegionCount - Cardinality(todo') = k + 1
    BY <1>4, <1>6 DEF k
  <2>7. Near(Total, targetCount, length + quota(r), t + s, k + 1)
    BY <1>0, <1>3, <1>4, <1>5, <1>9, <2>5, <2>6, NearMore
  <2>8. Near(Total', targetCount', length', Cardinality(Touched'), RegionCount' - Cardinality(todo'))
    BY <1>7, <1>9, <2>3, <2>6, <2>7
  <2> QED BY <1>7, <1>9, <1>12, <2>1, <2>3, <2>4, <2>8 DEF SharesOK, Near
<1>14. CASE todo = {r}
  <2>1. todo' = {} /\ quota(r) = targetCount - length
    BY <1>1, <1>3, <1>14 DEF quota
  <2>2. pool = Touched \cup S
    BY <1>14 DEF Touched, In, S
  <2>3. Total = t + s
    BY <1>8, <1>9, <2>2 DEF Total
  <2>4. k \in Nat /\ k = RegionCount - 1
    <3>1. Cardinality(todo) = 1
      BY <1>14, FS_Singleton
    <3> QED BY <1>4, <1>6, <3>1 DEF k
  <2>5. Near(Total, targetCount, length, Total - s, k)
    <3>1. t = Total - s
      BY <1>5, <1>9, <2>3
    <3> QED BY <1>3, <3>1
  <2>6. /\ 2 * (length' - targetCount) <= k
        /\ 2 * (targetCount - length') <= k
    <3> DEFINE g == Cardinality(got)
    <3>1. g = IF targetCount - length < 0 THEN 0 ELSE min(targetCount - length, s)
      BY <1>11, <2>1
    <3>0. length' = length + g
      BY <1>11
    <3> HIDE DEF g
    <3>2. /\ 2 * (length + g - targetCount) <= k
          /\ 2 * (targetCount - (length + g)) <= k
      BY <1>0, <1>4, <1>5, <2>4, <2>5, <3>1, LastQuota
    <3>3. g \in Int
      BY <1>0, <1>4, <1>5, <3>1 DEF min
    <3> QED BY <1>0, <1>4, <2>4, <3>0, <3>2, <3>3
  <2>7. ASSUME targetCount = Total PROVE length' = Total
    <3>1. quota(r) = s
      BY <1>3, <1>5, <1>9, <2>1, <2>3, <2>7
    <3>2. Cardinality(got) = s
      BY <1>5, <1>11, <3>1 DEF min
    <3> QED BY <1>3, <1>11, <2>3, <2>7, <3>2
  <2>8. CloseBy'
    BY <1>7, <2>4, <2>6, <2>7 DEF CloseBy
  <2> QED BY <1>12, <2>1, <2>8 DEF SharesOK
<1> QED BY <1>13, <1>14

(* Nothing was kept, so the deficit stays.                                  *)
LEMMA QuotaDeficit == ASSUME QuotaInv, SelInv', FillDeficit PROVE QuotaOK'
<1>0. /\ TypeOK /\ SelInv /\ pc = "serve" /\ todo = {} /\ maxDistribute > 0
      /\ selected \subseteq Touched /\ deficit \in Nat /\ length \in Nat
  BY DEF QuotaInv, SelInv, TakenOK, FillDeficit, TypeOK
<1>1. UNCHANGED request /\ pc' = IF CommonMode THEN "other" ELSE "un"
  BY DEF FillDeficit
<1>2. CommonMode <=> CommonMode'
  BY <1>1, Frame
<1>3. SUFFICES ASSUME ~CommonMode PROVE selected' \subseteq pool' /\ CloseBy'
  BY <1>1, <1>2 DEF QuotaOK, AllWhenFewer, RoundingBounded, Served
<1>4. remaining = {} /\ CloseBy
  BY <1>0, <1>3 DEF QuotaInv, QuotaOK, SharesOK
<1>5. PICK T \in AnyOf(remaining, deficit) : Take(T)
  BY DEF FillDeficit
<1>6. T = {} /\ Cardinality(T) = 0
  BY <1>0, <1>4, <1>5, SampleSize, FS_EmptySet
<1>7. selected' = selected /\ length' = length
  BY <1>0, <1>5, <1>6 DEF Take
<1>8. /\ pool' = pool /\ targetCount' = targetCount /\ Total' = Total
      /\ RegionCount' = RegionCount
  BY <1>1, Frame, QuotaFrame
<1>9. selected' \subseteq pool' /\ CloseBy'
  BY <1>0, <1>4, <1>7, <1>8 DEF Touched, CloseBy
<1> QED BY <1>9

(* UN fills up to the limit: p of P nodes with a region are taken, and g of *)
(* u without.                                                               *)
LEMMA FillBound ==
    ASSUME NEW m \in Nat, NEW P \in Nat, NEW u \in Nat, NEW p \in Nat, p <= P,
           NEW c \in Int, c >= 0,
           2 * (p - min(m, P)) <= c, 2 * (min(m, P) - p) <= c,
           NEW g, g = IF m - p < 0 THEN 0 ELSE min(m - p, u)
    PROVE  /\ 2 * ((p + g) - min(m, P + u)) <= c
           /\ 2 * (min(m, P + u) - (p + g)) <= c
BY DEF min

LEMMA QuotaUN == ASSUME QuotaInv, SelInv', FillUN PROVE QuotaOK'
<1>0. /\ TypeOK /\ SelInv /\ NoneTwice /\ pc = "un" /\ pc' = "done" /\ maxDistribute > 0
      /\ length \in Nat /\ length = Cardinality(selected)
  BY DEF QuotaInv, SelInv, TakenOK, FillUN, TypeOK, NoneTwice
<1>1. /\ UNCHANGED request /\ entries' = entries /\ maxDistribute' = maxDistribute
      /\ pool' = pool /\ (CommonMode <=> CommonMode') /\ unPool' = unPool
      /\ RegionsOf(pool)' = RegionsOf(pool)
  BY Frame DEF FillUN, RegionsOf
<1>2. SUFFICES ASSUME ~CommonMode PROVE AllWhenFewer' /\ RoundingBounded'
  BY <1>0, <1>1 DEF QuotaOK, RoundingBounded
<1>3. /\ selected \subseteq pool /\ CloseBy
  BY <1>0, <1>2 DEF QuotaInv, QuotaOK
<1>4. /\ pool \subseteq entries /\ entries \in SUBSET Nodes
      /\ IsFiniteSet(pool) /\ Total \in Nat /\ (Total = 0 <=> pool = {})
      /\ maxDistribute \in Nat /\ targetCount = min(maxDistribute, Total)
      /\ RegionCount \in Nat /\ (RegionCount = 0 <=> pool = {})
  BY <1>0, PoolSizes
<1>5. /\ pool \cup unPool = entries /\ pool \cap unPool = {}
  BY <1>2 DEF pool, unPool, In
<1>6. /\ IsFiniteSet(unPool) /\ Cardinality(unPool) \in Nat
      /\ Cardinality(entries) = Total + Cardinality(unPool)
  <2>1. IsFiniteSet(unPool) /\ Cardinality(unPool) \in Nat
    BY <1>4, <1>5, PartsFinite
  <2> QED BY <1>4, <1>5, <2>1, DisjointSize DEF Total
<1>7. PICK T \in AnyOf(unPool, maxDistribute - length) : Take(T)
  BY BestIsAny DEF FillUN
<1>8. /\ T \subseteq unPool /\ IsFiniteSet(T)
      /\ Cardinality(T) = IF maxDistribute - length < 0 THEN 0
                          ELSE min(maxDistribute - length, Cardinality(unPool))
  <2>1. maxDistribute - length \in Int
    BY <1>0, <1>4
  <2> QED BY <1>6, <1>7, <2>1, SampleSize
<1>9. selected' = selected \cup T /\ length' = length + Cardinality(T)
  BY <1>7 DEF Take
<1>10. length <= Total
  BY <1>0, <1>3, <1>4, FS_Subset DEF Total
<1>11. AllWhenFewer'
  <2>1. SUFFICES ASSUME Cardinality(entries) <= maxDistribute PROVE selected' = entries
    BY <1>1 DEF AllWhenFewer
  <2>2. targetCount = Total
    BY <1>4, <1>6, <2>1 DEF min
  <2>3. selected = pool
    BY <1>0, <1>3, <1>4, <2>2, FS_Subset DEF CloseBy, Total
  <2>4. Cardinality(T) = Cardinality(unPool)
    BY <1>4, <1>6, <1>8, <2>1, <1>0, <2>2, <1>3 DEF min, CloseBy
  <2>5. T = unPool
    BY <1>6, <1>8, <2>4, FS_Subset
  <2> QED BY <1>5, <1>9, <2>3, <2>5
<1>12. RoundingBounded'
  <2>1. SUFFICES ASSUME pool # {}
                 PROVE  /\ 2 * (length' - min(maxDistribute, Cardinality(entries))) <= RegionCount - 1
                        /\ 2 * (min(maxDistribute, Cardinality(entries)) - length') <= RegionCount - 1
    BY <1>1 DEF RoundingBounded, RegionCount
  <2>2. /\ 2 * (length - min(maxDistribute, Total)) <= RegionCount - 1
        /\ 2 * (min(maxDistribute, Total) - length) <= RegionCount - 1
        /\ RegionCount - 1 \in Int /\ RegionCount - 1 >= 0
    BY <1>3, <1>4, <2>1 DEF CloseBy
  <2> DEFINE g == Cardinality(T)
             u == Cardinality(unPool)
             c == RegionCount - 1
  <2>3. length' = length + g /\ Cardinality(entries) = Total + u /\ u \in Nat
    BY <1>6, <1>9
  <2>4. g = IF maxDistribute - length < 0 THEN 0 ELSE min(maxDistribute - length, u)
    BY <1>8
  <2>5. /\ c \in Int /\ c >= 0
        /\ 2 * (length - min(maxDistribute, Total)) <= c
        /\ 2 * (min(maxDistribute, Total) - length) <= c
    BY <2>2
  <2> HIDE DEF g, u, c
  <2>6. /\ 2 * ((length + g) - min(maxDistribute, Total + u)) <= c
        /\ 2 * (min(maxDistribute, Total + u) - (length + g)) <= c
    BY <1>0, <1>4, <1>10, <2>3, <2>4, <2>5, FillBound
  <2> QED BY <2>3, <2>6 DEF c
<1> QED BY <1>11, <1>12

LEMMA QuotaStep == QuotaInv /\ [Next]_vars => QuotaInv'
<1> SUFFICES ASSUME QuotaInv, [Next]_vars PROVE QuotaInv'
  OBVIOUS
<1>0. SelInv /\ SelInv'
  BY SelStep DEF QuotaInv
<1>1. CASE Request
  BY <1>0, <1>1, QuotaRequest DEF QuotaInv
<1>2. ASSUME NEW r \in Regions, Serve(r) PROVE QuotaInv'
  BY <1>0, <1>2, QuotaServe DEF QuotaInv
<1>3. CASE FillDeficit
  BY <1>0, <1>3, QuotaDeficit DEF QuotaInv
<1>4. CASE FillOther
  <2>1. CommonMode /\ pc' = "un" /\ UNCHANGED request
    BY <1>0, <1>4 DEF FillOther, SelInv, TakenOK
  <2>2. CommonMode'
    BY <2>1, Frame
  <2> QED BY <1>0, <2>1, <2>2 DEF QuotaInv, QuotaOK, RoundingBounded
<1>5. CASE FillUN
  BY <1>0, <1>5, QuotaUN DEF QuotaInv
<1>6. CASE Answer
  BY <1>0, <1>6 DEF Answer, QuotaInv, QuotaOK, AllWhenFewer, RoundingBounded, Served
<1>7. CASE UNCHANGED vars
  <2>1. UNCHANGED request
    BY <1>7 DEF vars
  <2>2. /\ entries' = entries /\ maxDistribute' = maxDistribute /\ pool' = pool
        /\ (CommonMode <=> CommonMode') /\ targetCount' = targetCount
        /\ Total' = Total /\ RegionCount' = RegionCount
    BY <2>1, Frame, QuotaFrame
  <2>3. Touched' = Touched
    BY <1>7, <2>2 DEF vars, Touched
  <2>4. QuotaOK => QuotaOK'
    BY <1>7, <2>2, <2>3
       DEF vars, QuotaOK, SharesOK, CloseBy, Near, AllWhenFewer, RoundingBounded, Served, RegionsOf
  <2> QED BY <1>0, <2>4 DEF QuotaInv
<1> QED BY <1>1, <1>2, <1>3, <1>4, <1>5, <1>6, <1>7 DEF Next

LEMMA QuotaInvariant == Spec => []QuotaInv
<1>1. Init => QuotaInv
  BY SelInit DEF Init, QuotaInv, QuotaOK, AllWhenFewer, RoundingBounded, Served
<1> QED BY <1>1, QuotaStep, PTL DEF Spec

-----------------------------------------------------------------------------
(* If there are no more candidates than max_distribute, every one of them   *)
(* is distributed, by every preset (docs/distribution.md:98): the rounding  *)
(* of selector.go:334-353 is exact when the target is all there is.         *)
THEOREM FewAreAllTaken == Spec => []AllWhenFewer
<1>1. CommonInv /\ QuotaInv => AllWhenFewer
  <2> SUFFICES ASSUME CommonInv, QuotaInv, Served, Cardinality(entries) <= maxDistribute,
                      CommonMode
               PROVE  selected = entries
    BY DEF AllWhenFewer, QuotaInv, QuotaOK
  <2>1. /\ length = min(maxDistribute, Cardinality(entries))
        /\ length = Cardinality(selected) /\ selected \subseteq entries
        /\ maxDistribute \in Int /\ entries \in SUBSET Nodes
    BY DEF CommonInv, CommonOK, CommonFillsUp, SelInv, NoneTwice, TypeOK
  <2>2. IsFiniteSet(entries) /\ Cardinality(entries) \in Nat
    BY <2>1, PartsFinite
  <2>3. Cardinality(selected) = Cardinality(entries)
    BY <2>1, <2>2 DEF min
  <2> QED BY <2>1, <2>2, <2>3, FS_Subset
<1> QED BY <1>1, CommonInvariant, QuotaInvariant, PTL

(* The rounded quotas of "all" and "other" miss the number that is wanted   *)
(* by at most half a node for each region but the last, above or below      *)
(* (selector.go:334-353).                                                   *)
THEOREM RoundingIsBounded == Spec => []RoundingBounded
<1>1. QuotaInv => RoundingBounded
  BY DEF QuotaInv, QuotaOK
<1> QED BY <1>1, QuotaInvariant, PTL
=============================================================================
