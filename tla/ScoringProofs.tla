--------------------------- MODULE ScoringProofs ---------------------------
(***************************************************************************)
(* Theorems about Scoring, for any nodes, tags, submissions, settings and  *)
(* results: what a scoring that nothing interfered with leaves behind, how *)
(* soon a change of the configuration reaches the scorings, and that no    *)
(* score is out of range, by induction over the weighted sums.             *)
(***************************************************************************)
EXTENDS Scoring, FiniteSetTheorems, WellFoundedInduction, TLAPS

USE NatAssumption, DefaultsAssumption

-----------------------------------------------------------------------------
(* Induction over the natural numbers *)

LEMMA LeastElement ==
    ASSUME NEW T, T \subseteq Nat, T # {}
    PROVE  \E m \in T : \A k \in T : m <= k
<1>1. PICK R : IsWellFoundedOn(R, Nat) /\ \A x, y \in Nat : <<y, x>> \in R <=> y < x
  <2>1. IsWellFoundedOn(OpToRel(<, Nat), Nat)
    BY NatLessThanWellFounded
  <2>2. \A x, y \in Nat : <<y, x>> \in OpToRel(<, Nat) <=> y < x
    BY DEF OpToRel
  <2> QED BY <2>1, <2>2
<1>2. IsWellFoundedOn(R, Nat)
  BY <1>1
<1>3. \E m \in T : \A k \in T : ~(<<k, m>> \in R)
  BY <1>2, WFMin
<1>4. \A m, k \in T : ~(<<k, m>> \in R) => m <= k
  BY <1>1
<1> QED BY <1>3, <1>4

LEMMA Induct ==
    ASSUME NEW S, 0 \in S, \A n \in Nat : n \in S => n + 1 \in S
    PROVE  Nat \subseteq S
<1> SUFFICES ASSUME Nat \ S # {} PROVE FALSE
  OBVIOUS
<1>1. PICK m \in Nat \ S : \A k \in Nat \ S : m <= k
  <2>1. Nat \ S \subseteq Nat
    OBVIOUS
  <2> QED BY <2>1, LeastElement
<1>2. m # 0 /\ m - 1 \in Nat /\ m - 1 \in S
  BY <1>1
<1> QED BY <1>1, <1>2

-----------------------------------------------------------------------------
(* Sums over finite sets *)

Pick(s) == CHOOSE x \in s : TRUE

(* it takes the sum of g over each set of D, one element after the other.    *)
Sums(it, g, D) == it = [s \in D |-> IF s = {} THEN 0 ELSE g[Pick(s)] + it[s \ {Pick(s)}]]

UpTo(S, k) == {s \in SUBSET S : Cardinality(s) <= k}

LEMMA PickIn == ASSUME NEW s, s # {} PROVE Pick(s) \in s
BY DEF Pick

LEMMA Smaller ==
    ASSUME NEW S, IsFiniteSet(S), NEW s \in SUBSET S
    PROVE  /\ Cardinality(s) \in Nat /\ Cardinality(s) <= Cardinality(S)
           /\ Cardinality(s) = 0 <=> s = {}
           /\ s # {} => /\ s \ {Pick(s)} \in SUBSET S
                        /\ Cardinality(s \ {Pick(s)}) = Cardinality(s) - 1
<1>1. IsFiniteSet(s) /\ Cardinality(s) <= Cardinality(S)
  BY FS_Subset
<1>2. Cardinality(s) \in Nat /\ (Cardinality(s) = 0 <=> s = {})
  BY <1>1, FS_CardinalityType, FS_EmptySet
<1>3. ASSUME s # {} PROVE Cardinality(s \ {Pick(s)}) = Cardinality(s) - 1
  BY <1>1, <1>3, PickIn, FS_RemoveElement
<1> QED BY <1>1, <1>2, <1>3

(* The recursive definition has a solution, by induction over the size.     *)
LEMMA SumUpTo ==
    ASSUME NEW S, IsFiniteSet(S), NEW g
    PROVE  \A k \in Nat : \E it : Sums(it, g, UpTo(S, k))
<1> DEFINE K == {k \in Nat : \E it : Sums(it, g, UpTo(S, k))}
<1>1. 0 \in K
  <2>1. UpTo(S, 0) = {{}}
    <3>1. ASSUME NEW s \in SUBSET S PROVE Cardinality(s) <= 0 <=> s = {}
      <4>1. Cardinality(s) \in Nat /\ (Cardinality(s) = 0 <=> s = {})
        BY Smaller
      <4> QED BY <4>1
    <3> QED BY <3>1 DEF UpTo
  <2>2. Sums([s \in {{}} |-> 0], g, {{}})
    BY DEF Sums
  <2> QED BY <2>1, <2>2
<1>2. ASSUME NEW k \in Nat, k \in K PROVE k + 1 \in K
  <2>1. PICK it : Sums(it, g, UpTo(S, k))
    BY <1>2
  <2> DEFINE D == UpTo(S, k + 1)
             next(s) == IF s = {} THEN 0 ELSE g[Pick(s)] + it[s \ {Pick(s)}]
             more == [s \in D |-> next(s)]
  <2>2. ASSUME NEW s \in D, s # {} PROVE s \ {Pick(s)} \in UpTo(S, k) /\ s \ {Pick(s)} \in D
    BY <2>2, Smaller DEF UpTo
  <2>3. ASSUME NEW s \in UpTo(S, k) PROVE s \in D /\ it[s] = next(s)
    <3>1. s \in SUBSET S /\ Cardinality(s) <= k
      BY DEF UpTo
    <3>2. Cardinality(s) \in Nat
      BY <3>1, Smaller
    <3>3. s \in D
      BY <3>1, <3>2 DEF UpTo
    <3> QED BY <2>1, <3>3 DEF Sums
  <2>4. ASSUME NEW s \in D, s # {} PROVE more[s \ {Pick(s)}] = it[s \ {Pick(s)}]
    BY <2>2, <2>3, <2>4
  <2>5. Sums(more, g, D)
    BY <2>4 DEF Sums
  <2> HIDE DEF more
  <2> QED BY <2>5
<1> HIDE DEF K
<1> QED BY <1>1, <1>2, Induct DEF K

LEMMA SumIs ==
    ASSUME NEW g, IsFiniteSet(DOMAIN g)
    PROVE  \E it : Sums(it, g, SUBSET DOMAIN g) /\ SumFunction(g) = it[DOMAIN g]
<1> DEFINE it == CHOOSE it : Sums(it, g, SUBSET DOMAIN g)
<1>1. SumFunction(g) = it[DOMAIN g]
  BY DEF SumFunction, SumFunctionOnSet, FoldFunctionOnSet, MapThenFoldSet, Sums, Pick
<1>2. UpTo(DOMAIN g, Cardinality(DOMAIN g)) = SUBSET DOMAIN g
  BY Smaller DEF UpTo
<1>3. \E i : Sums(i, g, SUBSET DOMAIN g)
  <2>1. Cardinality(DOMAIN g) \in Nat
    BY FS_CardinalityType
  <2>2. \E i : Sums(i, g, UpTo(DOMAIN g, Cardinality(DOMAIN g)))
    BY <2>1, SumUpTo
  <2> QED BY <1>2, <2>2
<1>4. Sums(it, g, SUBSET DOMAIN g)
  BY <1>3
<1> HIDE DEF it
<1> QED BY <1>1, <1>4

LEMMA NoSum == SumFunction([x \in {} |-> 0]) = 0
<1> DEFINE g == [x \in {} |-> 0]
<1>1. DOMAIN g = {} /\ IsFiniteSet({})
  BY FS_EmptySet
<1>2. PICK it : Sums(it, g, SUBSET DOMAIN g) /\ SumFunction(g) = it[DOMAIN g]
  BY <1>1, SumIs
<1> QED BY <1>1, <1>2 DEF Sums

(* Sums of integers are integers, sums of natural numbers are natural       *)
(* numbers and no less than any of them.                                    *)
LEMMA SumFact ==
    ASSUME NEW g, IsFiniteSet(DOMAIN g), NEW T \in {Int, Nat}, \A x \in DOMAIN g : g[x] \in T
    PROVE  SumFunction(g) \in T /\ (T = Nat => \A x \in DOMAIN g : g[x] <= SumFunction(g))
<1>1. PICK it : Sums(it, g, SUBSET DOMAIN g) /\ SumFunction(g) = it[DOMAIN g]
  BY SumIs
<1> DEFINE Good(s) == it[s] \in T /\ (T = Nat => \A x \in s : g[x] <= it[s])
           K == {k \in Nat : \A s \in SUBSET DOMAIN g : Cardinality(s) = k => Good(s)}
<1>2. 0 \in K
  <2>1. it[{}] = 0
    BY <1>1 DEF Sums
  <2>2. ASSUME NEW s \in SUBSET DOMAIN g, Cardinality(s) = 0 PROVE Good(s)
    <3>1. s = {}
      BY <2>2, Smaller
    <3> QED BY <2>1, <3>1
  <2> QED BY <2>2
<1>3. ASSUME NEW k \in Nat, k \in K PROVE k + 1 \in K
  <2>1. ASSUME NEW s \in SUBSET DOMAIN g, Cardinality(s) = k + 1 PROVE Good(s)
    <3> DEFINE p == Pick(s)
    <3>1. s # {} /\ p \in s /\ s \ {p} \in SUBSET DOMAIN g /\ Cardinality(s \ {p}) = k
      BY <2>1, Smaller, PickIn
    <3>2. it[s] = g[p] + it[s \ {p}]
      BY <1>1, <3>1 DEF Sums
    <3>3. Good(s \ {p})
      BY <1>3, <3>1
    <3> HIDE DEF p
    <3>4. g[p] \in T /\ it[s \ {p}] \in T
      BY <3>1, <3>3
    <3>5. it[s] \in T
      BY <3>2, <3>4
    <3>6. ASSUME T = Nat, NEW x \in s PROVE g[x] <= it[s]
      <4>1. g[x] \in Nat /\ it[s \ {p}] \in Nat /\ g[p] \in Nat
        BY <3>4, <3>6
      <4>2. CASE x = p
        BY <3>2, <4>1, <4>2
      <4>3. CASE x # p
        <5>1. g[x] <= it[s \ {p}]
          BY <3>3, <3>6, <4>3
        <5>2. g[x] \in Nat
          BY <3>6
        <5> QED BY <3>2, <4>1, <5>1, <5>2
      <4> QED BY <4>2, <4>3
    <3> QED BY <3>5, <3>6
  <2> QED BY <2>1
<1> HIDE DEF K
<1>4. Cardinality(DOMAIN g) \in K
  BY <1>2, <1>3, Induct, FS_CardinalityType
<1> QED BY <1>1, <1>4 DEF K
-----------------------------------------------------------------------------
(* computeScore *)

LEMMA ClampRange ==
    ASSUME NEW v \in Int, NEW top \in Nat
    PROVE  Clamp(v, top) \in 0..top
BY DEF Clamp

LEMMA AlphaRange ==
    ASSUME NEW p \in Params
    PROVE  Alpha(p)[1] \in Nat \ {0} /\ Alpha(p)[2] \in Nat \ {0}
<1>1. Decay[p][1] \in Int /\ Decay[p][2] \in Int
  BY SettingsAssumption
<1> QED BY <1>1 DEF Alpha

LEMMA PowerPositive ==
    ASSUME NEW a \in Nat \ {0}, NEW k \in Nat
    PROVE  Power(a, k) \in Nat \ {0}
<1> DEFINE Powers(m, g) == g = [i \in 0..m |-> IF i = 0 THEN 1 ELSE a * g[i - 1]]
           K == {m \in Nat : \E g : Powers(m, g)}
<1>1. 0 \in K
  <2>1. Powers(0, [i \in 0..0 |-> 1])
    OBVIOUS
  <2> HIDE DEF Powers
  <2> QED BY <2>1
<1>2. ASSUME NEW m \in Nat, m \in K PROVE m + 1 \in K
  <2>1. PICK g : Powers(m, g)
    BY <1>2
  <2> DEFINE h == [i \in 0..(m + 1) |-> IF i = m + 1 THEN a * g[m] ELSE g[i]]
  <2>2. Powers(m + 1, h)
    BY <2>1
  <2> HIDE DEF h, Powers
  <2> QED BY <2>2
<1> HIDE DEF K
<1>3. k \in K
  BY <1>1, <1>2, Induct
<1> DEFINE g == CHOOSE g : Powers(k, g)
<1>4. Power(a, k) = g[k]
  BY DEF Power
<1>5. Powers(k, g)
  BY <1>3 DEF K
<1>6. \A h : Powers(k, h) => h \in [0..k -> Nat \ {0}]
  <2> SUFFICES ASSUME NEW h, Powers(k, h) PROVE h \in [0..k -> Nat \ {0}]
    OBVIOUS
  <2> DEFINE I == {i \in Nat : i \in 0..k => h[i] \in Nat \ {0}}
  <2>1. 0 \in I
    OBVIOUS
  <2>2. ASSUME NEW i \in Nat, i \in I PROVE i + 1 \in I
    <3>1. ASSUME i + 1 \in 0..k PROVE h[i + 1] = a * h[i] /\ h[i] \in Nat \ {0}
      BY <2>2, <3>1
    <3>2. \A x \in Nat \ {0} : a * x \in Nat \ {0}
      OBVIOUS
    <3> QED BY <3>1, <3>2
  <2> HIDE DEF I
  <2>3. Nat \subseteq I
    BY <2>1, <2>2, Induct
  <2>4. ASSUME NEW i \in 0..k PROVE h[i] \in Nat \ {0}
    <3>1. i \in Nat
      OBVIOUS
    <3>2. i \in I
      BY <2>3, <3>1
    <3> QED BY <3>2 DEF I
  <2>5. DOMAIN h = 0..k /\ h = [i \in 0..k |-> h[i]]
    OBVIOUS
  <2> HIDE DEF Powers
  <2> QED BY <2>4, <2>5
<1> HIDE DEF g
<1> QED BY <1>4, <1>5, <1>6

LEMMA DecayPositive ==
    ASSUME NEW p \in Params, NEW n \in Nat, NEW i \in 1..n
    PROVE  DecayOf(p, i, n) \in Nat \ {0}
<1>1. i - 1 \in Nat /\ n - i \in Nat
  OBVIOUS
<1>2. Power(Alpha(p)[1], i - 1) \in Nat \ {0} /\ Power(Alpha(p)[2], n - i) \in Nat \ {0}
  BY <1>1, AlphaRange, PowerPositive
<1>3. \A x, y \in Nat \ {0} : x * y \in Nat \ {0}
  OBVIOUS
<1> QED BY <1>2, <1>3 DEF DecayOf

LEMMA WeightedMeanType ==
    ASSUME NEW p \in Params, NEW n \in Nat \ {0}, NEW f \in [1..n -> Int]
    PROVE  WeightedMean(p, f) \in Int
<1>1. DOMAIN f = 1..n /\ Len(f) = n /\ IsFiniteSet(1..n)
  BY FS_Interval
<1> DEFINE w == [i \in DOMAIN f |-> DecayOf(p, i, Len(f))]
           wf == [i \in DOMAIN f |-> w[i] * f[i]]
<1>2. DOMAIN w = 1..n /\ \A i \in DOMAIN w : w[i] \in Nat \ {0}
  BY <1>1, DecayPositive
<1>3. DOMAIN wf = 1..n /\ \A i \in DOMAIN wf : wf[i] = w[i] * f[i]
  BY <1>1
<1>4. WeightedMean(p, f) = SumFunction(wf) \div SumFunction(w)
  BY DEF WeightedMean
<1> HIDE DEF w, wf
<1>5. SumFunction(w) \in Nat /\ w[1] <= SumFunction(w)
  <2>1. IsFiniteSet(DOMAIN w) /\ 1 \in DOMAIN w /\ \A i \in DOMAIN w : w[i] \in Nat
    BY <1>1, <1>2
  <2>2. Nat \in {Int, Nat}
    OBVIOUS
  <2> QED BY <2>1, <2>2, SumFact
<1>6. SumFunction(wf) \in Int
  <2>1. \A i \in DOMAIN wf : wf[i] \in Int
    BY <1>2, <1>3
  <2>2. Int \in {Int, Nat} /\ IsFiniteSet(DOMAIN wf)
    BY <1>1, <1>3
  <2> QED BY <2>1, <2>2, SumFact
<1>7. SumFunction(w) \in Nat \ {0}
  <2>1. w[1] \in Nat \ {0}
    BY <1>2
  <2> QED BY <1>5, <2>1
<1> QED BY <1>4, <1>6, <1>7

LEMMA BlendRange ==
    ASSUME NEW a \in 0..Scale, NEW b \in 0..Scale, NEW u \in Nat, NEW v \in Nat, u + v > 0
    PROVE  Blend(a, u, b, v) \in 0..Scale
<1>1. /\ a * u \in Nat /\ b * v \in Nat
      /\ a * u <= Scale * u /\ b * v <= Scale * v
      /\ Scale * u \in Nat /\ Scale * v \in Nat
  <2>1. \A x \in 0..Scale, y \in Nat : x * y \in Nat /\ x * y <= Scale * y /\ Scale * y \in Nat
    OBVIOUS
  <2> QED BY <2>1
<1>2. Scale * (u + v) = Scale * u + Scale * v
  OBVIOUS
<1> DEFINE s == a * u + b * v
           d == u + v
<1>3. s \in Nat /\ d \in Nat \ {0} /\ s <= Scale * d
  BY <1>1, <1>2
<1>4. Blend(a, u, b, v) = s \div d
  BY DEF Blend
<1> HIDE DEF s, d
<1>5. s \div d \in Nat /\ d * (s \div d) <= s
  BY <1>3
<1>6. d * (s \div d) <= d * Scale
  BY <1>3, <1>5
<1>7. \A x \in Nat : d * x <= d * Scale => x <= Scale
  BY <1>3
<1> QED BY <1>4, <1>5, <1>6, <1>7

LEMMA WeightRange ==
    ASSUME NEW p \in Params
    PROVE  \A k \in {"latency", "stability", "speed"} :
             Weight(p, k) \in Nat /\ 100 - Weight(p, k) \in Nat
<1>1. Weights[p]["latency"] \in Int /\ Weights[p]["stability"] \in Int /\ Weights[p]["speed"] \in Int
  BY SettingsAssumption
<1>2. ASSUME NEW v \in Int PROVE Clamp(v, 100) \in Nat /\ 100 - Clamp(v, 100) \in Nat
  BY DEF Clamp
<1> QED BY <1>1, <1>2 DEF Weight

(* A stored check: its speed is a number.                                   *)
Records == {Row(r) : r \in Results}

LEMMA RowType ==
    ASSUME NEW r \in Records
    PROVE  r.latency \in Int /\ r.jitter \in Int /\ r.speed \in Int
<1>1. PICK q \in Results : r = Row(q)
  BY DEF Records
<1>2. q \in [latency : Int, jitter : Int, speed : Int \cup {Missing}]
  BY ResultsAssumption
<1> QED BY <1>1, <1>2 DEF Row

LEMMA QualityRange ==
    ASSUME NEW p \in Params, NEW R \in Seq(Records), R # <<>>
    PROVE  quality(p, R) \in 0..Scale
<1> DEFINE n == Len(R)
           lat == [i \in DOMAIN R |-> Latency(R[i])]
           jit == [i \in DOMAIN R |-> Jitter(R[i])]
           lx == Clamp(WeightedMean(p, lat), maxLatencyMs)
           jx == Clamp(WeightedMean(p, jit), maxJitterMs)
           l == LatencyCurve[p][lx]
           s == StabilityCurve[p][jx]
<1>1. n \in Nat \ {0} /\ DOMAIN R = 1..n
  OBVIOUS
<1>2. lat \in [1..n -> Int] /\ jit \in [1..n -> Int]
  <2>1. ASSUME NEW i \in DOMAIN R PROVE Latency(R[i]) \in Int /\ Jitter(R[i]) \in Int
    <3>1. R[i] \in Records
      OBVIOUS
    <3> QED BY <3>1, RowType, CurvesAssumption DEF Latency, Jitter
  <2> QED BY <1>1, <2>1
<1>3. lx \in 0..maxLatencyMs /\ jx \in 0..maxJitterMs
  <2> HIDE DEF lat, jit, n
  <2>1. WeightedMean(p, lat) \in Int /\ WeightedMean(p, jit) \in Int
    BY <1>1, <1>2, WeightedMeanType
  <2> QED BY <2>1, ClampRange, CurvesAssumption
<1>4. l \in 0..Scale /\ s \in 0..Scale
  <2> HIDE DEF lx, jx
  <2> QED BY <1>3, CurvesAssumption
<1>5. Weight(p, "latency") \in Nat /\ Weight(p, "stability") \in Nat
  BY WeightRange
<1>6. quality(p, R) = IF Weight(p, "latency") + Weight(p, "stability") > 0
                      THEN Blend(l, Weight(p, "latency"), s, Weight(p, "stability"))
                      ELSE Blend(l, 70, s, 30)
  BY DEF quality
<1> HIDE DEF l, s
<1>7. Blend(l, 70, s, 30) \in 0..Scale
  BY <1>4, BlendRange
<1>8. ASSUME Weight(p, "latency") + Weight(p, "stability") > 0
      PROVE  Blend(l, Weight(p, "latency"), s, Weight(p, "stability")) \in 0..Scale
  BY <1>4, <1>5, <1>8, BlendRange
<1> QED BY <1>6, <1>7, <1>8

(* Whatever is configured and reported, a score is in range.                *)
LEMMA ScoreRange ==
    ASSUME NEW p \in Params, NEW R \in Seq(Records)
    PROVE  computeScore(p, R) \in 0..Scale
<1>1. CASE R = <<>>
  BY <1>1 DEF computeScore
<1>2. CASE R # <<>>
  <2>1. quality(p, R) \in 0..Scale
    BY <1>2, QualityRange
  <2>2. R[1].speed \in Int
    <3>1. R[1] \in Records
      BY <1>2
    <3> QED BY <3>1, RowType
  <2>3. SpeedCurve[Clamp(R[1].speed, maxSpeedKbps)] \in 0..Scale
    <3>1. Clamp(R[1].speed, maxSpeedKbps) \in 0..maxSpeedKbps
      BY <2>2, ClampRange, CurvesAssumption
    <3> QED BY <3>1, CurvesAssumption
  <2>4. Weight(p, "speed") \in Nat /\ 100 - Weight(p, "speed") \in Nat
    BY WeightRange
  <2>5. (100 - Weight(p, "speed")) + Weight(p, "speed") > 0
    BY <2>4
  <2>6. Blend(quality(p, R), 100 - Weight(p, "speed"),
              SpeedCurve[Clamp(R[1].speed, maxSpeedKbps)], Weight(p, "speed")) \in 0..Scale
    BY <2>1, <2>3, <2>4, <2>5, BlendRange
  <2> QED BY <1>2, <2>1, <2>6 DEF computeScore
<1> QED BY <1>1, <1>2

-----------------------------------------------------------------------------
(* The jobs *)

Fields == {"pc", "tag", "node", "todo", "params", "asked", "score", "avg",
           "nodeAlone", "tagAlone"}
AtRest == {"idle", "decide", "next"}
AtWork == {"read", "store", "records", "upsert", "avg", "update"}

JobType(j) ==
    /\ DOMAIN j = Fields
    /\ j.pc \in AtRest \cup AtWork
    /\ j.tag \in Tags /\ j.todo \in SUBSET Nodes
    /\ j.params \in Params /\ j.asked \in Nat
    /\ j.pc \in AtWork => j.node \in Nodes

Types ==
    /\ now \in Nat /\ changed \in Nat
    /\ conf \in Params
    /\ DOMAIN cache = {"params", "expireAt"}
    /\ cache.params \in Params /\ cache.expireAt \in Nat
    /\ DOMAIN score = Nodes
    /\ DOMAIN tagScore = Nodes /\ \A n \in Nodes : DOMAIN tagScore[n] = Tags
    /\ DOMAIN checks = Nodes /\ \A n \in Nodes : DOMAIN checks[n] = Tags
    /\ DOMAIN job = Workers
    /\ \A w \in Workers : JobType(job[w])

LEMMA BusyIs ==
    ASSUME Types
    PROVE  Busy = {w \in Workers : job[w].pc \in AtWork}
BY DEF Types, JobType, Busy, AtRest, AtWork

-----------------------------------------------------------------------------
(* What the steps of one worker do to the jobs *)

Only(w) == DOMAIN job' = Workers /\ \A u \in Workers \ {w} : job'[u] = job[u]

Same(w) ==
    /\ DOMAIN job'[w] = Fields
    /\ job'[w].tag = job[w].tag /\ job'[w].node = job[w].node /\ job'[w].todo = job[w].todo
    /\ job'[w].nodeAlone = job[w].nodeAlone /\ job'[w].tagAlone = job[w].tagAlone

LEMMA NobodyType == ASSUME NEW t \in Tags PROVE JobType(Nobody(t)) /\ Nobody(t).pc = "idle"
BY DEF JobType, Nobody, Fields, AtRest, AtWork

(* A scoring of a node ends.                                                *)
LEMMA ContinueStep ==
    ASSUME Types, NEW w \in Workers, Continue(w)
    PROVE  Only(w) /\ JobType(job'[w]) /\ job'[w].pc \in AtRest
<1>1. JobType(job[w])
  BY DEF Types
<1>2. job'[w] = IF job[w].todo = {} THEN Nobody(job[w].tag) ELSE [job[w] EXCEPT !.pc = "next"]
  BY DEF Continue, Types
<1>3. Only(w)
  BY DEF Continue, Types, Only
<1>4. CASE job[w].todo = {}
  BY <1>1, <1>2, <1>3, <1>4, NobodyType DEF JobType, AtRest
<1>5. CASE job[w].todo # {}
  BY <1>1, <1>2, <1>3, <1>5 DEF JobType, AtRest, AtWork, Fields
<1> QED BY <1>4, <1>5

LEMMA ReadParamsStep ==
    ASSUME Types, NEW w \in Workers, ReadParams(w) \/ ReadParamsFails(w)
    PROVE  /\ Only(w) /\ Same(w) /\ job[w].pc = "read" /\ job'[w].pc = "store"
           /\ job'[w].asked = job[w].asked
           /\ UNCHANGED <<now, conf, cache, checks, tagScore, score, averaged, scored>>
           /\ \/ job'[w].params = conf /\ changed' = changed
              \/ job'[w].params = Defaults /\ changed' = now
<1>1. CASE ReadParams(w)
  BY <1>1 DEF ReadParams, Types, JobType, Only, Same, Fields, history
<1>2. CASE ReadParamsFails(w)
  BY <1>2 DEF ReadParamsFails, Types, JobType, Only, Same, Fields
<1> QED BY <1>1, <1>2

LEMMA StoreParamsStep ==
    ASSUME Types, NEW w \in Workers, StoreParams(w)
    PROVE  /\ Only(w) /\ Same(w) /\ job[w].pc = "store" /\ job'[w].pc = "records"
           /\ job'[w].asked = job[w].asked /\ job'[w].params = job[w].params
           /\ cache' = [params |-> job[w].params, expireAt |-> job[w].asked + TTL]
           /\ UNCHANGED <<now, conf, checks, tagScore, score, changed, averaged, scored>>
BY DEF StoreParams, Types, JobType, Only, Same, Fields, history

LEMMA FetchRecordsStep ==
    ASSUME Types, NEW w \in Workers, FetchRecords(w)
    PROVE  /\ Only(w) /\ Same(w) /\ job[w].pc = "records" /\ job'[w].pc = "upsert"
           /\ job'[w].params = Defaults /\ job'[w].asked = 0
           /\ job'[w].score = computeScore(job[w].params, Recent(ChecksOf(w)))
           /\ UNCHANGED <<now, conf, cache, checks, tagScore, score, changed, averaged, scored>>
<1> DEFINE s == computeScore(job[w].params, Recent(ChecksOf(w)))
<1>1. /\ job[w].pc = "records"
      /\ job' = [job EXCEPT ![w].pc = "upsert", ![w].params = Defaults, ![w].asked = 0,
                            ![w].score = s]
      /\ UNCHANGED <<now, conf, cache, checks, tagScore, score, changed, averaged, scored>>
  BY DEF FetchRecords, history
<1> HIDE DEF s
<1> QED BY <1>1 DEF Types, JobType, Only, Same, Fields, s

LEMMA UpsertStep ==
    ASSUME Types, NEW w \in Workers, Upsert(w)
    PROVE  /\ Only(w) /\ Same(w) /\ job[w].pc = "upsert" /\ job'[w].pc = "avg"
           /\ job'[w].params = job[w].params /\ job'[w].asked = job[w].asked
           /\ tagScore' = [tagScore EXCEPT ![job[w].node][job[w].tag] = job[w].score]
           /\ UNCHANGED <<now, conf, cache, checks, score, changed, averaged, scored>>
BY DEF Upsert, Types, JobType, Only, Same, Fields, history

LEMMA AverageStep ==
    ASSUME Types, NEW w \in Workers, Average(w)
    PROVE  /\ Only(w) /\ Same(w) /\ job[w].pc = "avg" /\ job'[w].pc = "update"
           /\ job'[w].params = job[w].params /\ job'[w].asked = job[w].asked
           /\ job'[w].avg = Mean(tagScore[job[w].node])
           /\ UNCHANGED <<now, conf, cache, checks, tagScore, score, changed, averaged, scored>>
<1> DEFINE m == Mean(tagScore[job[w].node])
<1>1. /\ job[w].pc = "avg"
      /\ job' = [job EXCEPT ![w].pc = "update", ![w].avg = m]
      /\ UNCHANGED <<now, conf, cache, checks, tagScore, score, changed, averaged, scored>>
  BY DEF Average, history
<1> HIDE DEF m
<1> QED BY <1>1 DEF Types, JobType, Only, Same, Fields, m

(* A scoring begins and takes the solitude of those it meets.               *)
LEMMA LoadParamsStep ==
    ASSUME Types, NEW w \in Workers, LoadParams(w)
    PROVE  \E n \in Nodes :
             /\ DOMAIN job' = Workers
             /\ job[w].pc = "next"
             /\ job'[w].pc \in {"records", "read"} /\ DOMAIN job'[w] = Fields
             /\ job'[w].tag = job[w].tag /\ job'[w].node = n
             /\ job'[w].todo \in SUBSET Nodes /\ job'[w].asked = now
             /\ job'[w].pc = "records" => now < cache.expireAt /\ job'[w].params = cache.params
             /\ job'[w].params \in Params
             /\ job'[w].nodeAlone => \A u \in Busy \ {w} : job[u].node # n
             /\ job'[w].tagAlone =>
                  \A u \in Busy \ {w} : ~(job[u].node = n /\ job[u].tag = job[w].tag)
             /\ \A u \in Workers \ {w} :
                  /\ DOMAIN job'[u] = Fields
                  /\ job'[u].pc = job[u].pc /\ job'[u].tag = job[u].tag
                  /\ job'[u].node = job[u].node /\ job'[u].todo = job[u].todo
                  /\ job'[u].params = job[u].params /\ job'[u].asked = job[u].asked
                  /\ job'[u].score = job[u].score /\ job'[u].avg = job[u].avg
                  /\ job'[u].nodeAlone => job[u].nodeAlone /\ ~(u \in Busy /\ job[u].node = n)
                  /\ job'[u].tagAlone =>
                       /\ job[u].tagAlone
                       /\ ~(u \in Busy /\ job[u].node = n /\ job[u].tag = job[w].tag)
             /\ averaged' = averaged \ {n}
             /\ scored' = scored \ {<<n, job[w].tag>>}
             /\ UNCHANGED <<now, conf, cache, checks, tagScore, score, changed>>
<1> PICK n \in job[w].todo :
      LET others == {u \in Busy \ {w} : job[u].node = n}
          same   == {u \in others : job[u].tag = job[w].tag}
          cached == now < cache.expireAt
      IN  /\ job' = [u \in Workers |->
               IF u = w
               THEN [job[w] EXCEPT
                       !.pc = IF cached THEN "records" ELSE "read",
                       !.params = IF cached THEN cache.params ELSE @,
                       !.node = n, !.todo = @ \ {n}, !.asked = now,
                       !.nodeAlone = others = {}, !.tagAlone = same = {}]
               ELSE [job[u] EXCEPT !.nodeAlone = @ /\ u \notin others,
                                   !.tagAlone = @ /\ u \notin same]]
          /\ averaged' = averaged \ {n}
          /\ scored' = scored \ {<<n, job[w].tag>>}
  BY DEF LoadParams
<1> DEFINE others == {u \in Busy \ {w} : job[u].node = n}
           same   == {u \in others : job[u].tag = job[w].tag}
           cached == now < cache.expireAt
           noOthers == others = {}
           noSame == same = {}
           pc == IF cached THEN "records" ELSE "read"
           params == IF cached THEN cache.params ELSE job[w].params
<1>1. /\ job' = [u \in Workers |->
               IF u = w
               THEN [job[w] EXCEPT !.pc = pc, !.params = params, !.node = n,
                                   !.todo = job[w].todo \ {n}, !.asked = now,
                                   !.nodeAlone = noOthers, !.tagAlone = noSame]
               ELSE [job[u] EXCEPT !.nodeAlone = job[u].nodeAlone /\ u \notin others,
                                   !.tagAlone = job[u].tagAlone /\ u \notin same]]
      /\ averaged' = averaged \ {n} /\ scored' = scored \ {<<n, job[w].tag>>}
  OBVIOUS
<1>2. /\ job[w].pc = "next" /\ n \in Nodes
      /\ UNCHANGED <<now, conf, cache, checks, tagScore, score, changed>>
  BY DEF LoadParams, Types, JobType
<1>3. /\ noOthers => \A u \in Busy \ {w} : job[u].node # n
      /\ noSame => \A u \in Busy \ {w} : ~(job[u].node = n /\ job[u].tag = job[w].tag)
  OBVIOUS
<1>4. /\ pc \in {"records", "read"} /\ params \in Params
      /\ pc = "records" => now < cache.expireAt /\ params = cache.params
  BY DEF Types, JobType
<1>5. \A u \in Workers \ {w} :
        /\ u \notin others => ~(u \in Busy /\ job[u].node = n)
        /\ u \notin same => ~(u \in Busy /\ job[u].node = n /\ job[u].tag = job[w].tag)
  OBVIOUS
<1> HIDE DEF others, same, noOthers, noSame, pc, params
<1>6. ASSUME NEW u \in Workers \ {w}
      PROVE  /\ DOMAIN job'[u] = Fields
             /\ job'[u].pc = job[u].pc /\ job'[u].tag = job[u].tag
             /\ job'[u].node = job[u].node /\ job'[u].todo = job[u].todo
             /\ job'[u].params = job[u].params /\ job'[u].asked = job[u].asked
             /\ job'[u].score = job[u].score /\ job'[u].avg = job[u].avg
             /\ job'[u].nodeAlone => job[u].nodeAlone /\ u \notin others
             /\ job'[u].tagAlone => job[u].tagAlone /\ u \notin same
  <2> DEFINE a == job[u].nodeAlone /\ u \notin others
             b == job[u].tagAlone /\ u \notin same
  <2>1. job'[u] = [job[u] EXCEPT !.nodeAlone = a, !.tagAlone = b]
    BY <1>1
  <2>2. DOMAIN job[u] = Fields
    BY DEF Types, JobType
  <2>3. (a => job[u].nodeAlone /\ u \notin others) /\ (b => job[u].tagAlone /\ u \notin same)
    OBVIOUS
  <2> HIDE DEF a, b
  <2>4. /\ DOMAIN job'[u] = Fields
        /\ job'[u].pc = job[u].pc /\ job'[u].tag = job[u].tag
        /\ job'[u].node = job[u].node /\ job'[u].todo = job[u].todo
        /\ job'[u].params = job[u].params /\ job'[u].asked = job[u].asked
        /\ job'[u].score = job[u].score /\ job'[u].avg = job[u].avg
        /\ job'[u].nodeAlone = a /\ job'[u].tagAlone = b
    BY <2>1, <2>2 DEF Fields
  <2> QED BY <2>3, <2>4
<1>7. /\ DOMAIN job' = Workers
      /\ DOMAIN job'[w] = Fields /\ job'[w].pc = pc /\ job'[w].params = params
      /\ job'[w].tag = job[w].tag /\ job'[w].node = n
      /\ job'[w].todo = job[w].todo \ {n} /\ job'[w].asked = now
      /\ job'[w].nodeAlone = noOthers /\ job'[w].tagAlone = noSame
  <2>1. DOMAIN job[w] = Fields
    BY DEF Types, JobType
  <2>2. job'[w] = [job[w] EXCEPT !.pc = pc, !.params = params, !.node = n,
                                 !.todo = job[w].todo \ {n}, !.asked = now,
                                 !.nodeAlone = noOthers, !.tagAlone = noSame]
        /\ DOMAIN job' = Workers
    BY <1>1
  <2> QED BY <2>1, <2>2 DEF Fields
<1>8. job[w].todo \ {n} \in SUBSET Nodes
  BY DEF Types, JobType
<1>9. \A u \in Workers \ {w} :
        /\ DOMAIN job'[u] = Fields
        /\ job'[u].pc = job[u].pc /\ job'[u].tag = job[u].tag
        /\ job'[u].node = job[u].node /\ job'[u].todo = job[u].todo
        /\ job'[u].params = job[u].params /\ job'[u].asked = job[u].asked
        /\ job'[u].score = job[u].score /\ job'[u].avg = job[u].avg
        /\ job'[u].nodeAlone => job[u].nodeAlone /\ ~(u \in Busy /\ job[u].node = n)
        /\ job'[u].tagAlone =>
             /\ job[u].tagAlone
             /\ ~(u \in Busy /\ job[u].node = n /\ job[u].tag = job[w].tag)
  BY <1>5, <1>6
<1>10. /\ job'[w].pc \in {"records", "read"}
       /\ job'[w].todo \in SUBSET Nodes
       /\ job'[w].pc = "records" => now < cache.expireAt /\ job'[w].params = cache.params
       /\ job'[w].params \in Params
       /\ job'[w].nodeAlone => \A u \in Busy \ {w} : job[u].node # n
       /\ job'[w].tagAlone =>
            \A u \in Busy \ {w} : ~(job[u].node = n /\ job[u].tag = job[w].tag)
  BY <1>3, <1>4, <1>7, <1>8
<1> USE <1>2
<1> WITNESS n \in Nodes
<1> QED BY <1>1, <1>2, <1>7, <1>9, <1>10

(* Checks of some nodes under a tag come or go.                             *)
LEMMA DisturbStep ==
    ASSUME Types, NEW S, NEW t, NEW u \in Workers, NEW j, j = Disturb(job, S, t)[u]
    PROVE  /\ DOMAIN j = Fields
           /\ j.pc = job[u].pc /\ j.tag = job[u].tag /\ j.node = job[u].node
           /\ j.todo = job[u].todo /\ j.params = job[u].params /\ j.asked = job[u].asked
           /\ j.score = job[u].score /\ j.avg = job[u].avg
           /\ j.nodeAlone = job[u].nodeAlone
           /\ j.tagAlone => /\ job[u].tagAlone
                            /\ ~(u \in Busy /\ job[u].node \in S /\ job[u].tag = t)
<1>1. j = IF u \in Busy /\ job[u].node \in S /\ job[u].tag = t
          THEN [job[u] EXCEPT !.tagAlone = FALSE] ELSE job[u]
  BY DEF Disturb
<1>2. DOMAIN job[u] = Fields
  BY DEF Types, JobType
<1>3. CASE u \in Busy /\ job[u].node \in S /\ job[u].tag = t
  <2>1. j = [job[u] EXCEPT !.tagAlone = FALSE]
    BY <1>1, <1>3
  <2> QED BY <1>2, <2>1 DEF Fields
<1>4. CASE ~(u \in Busy /\ job[u].node \in S /\ job[u].tag = t)
  BY <1>1, <1>2, <1>4
<1> QED BY <1>3, <1>4

LEMMA SubmitStep ==
    ASSUME Types, NEW w \in Workers, Submit(w)
    PROVE  \E S \in SUBSET Nodes :
             /\ DOMAIN job' = Workers
             /\ job[w].pc = "idle" /\ JobType(job'[w]) /\ job'[w].pc = "decide"
             /\ \A u \in Workers \ {w} : job'[u] = Disturb(job, S, job[w].tag)[u]
             /\ \A n \in Nodes : n \notin S => checks'[n] = checks[n]
             /\ \A n \in Nodes : DOMAIN checks'[n] = Tags
             /\ \A n \in Nodes : \A t \in Tags \ {job[w].tag} : checks'[n][t] = checks[n][t]
             /\ DOMAIN checks' = Nodes
             /\ scored' = scored \ (S \X {job[w].tag})
             /\ UNCHANGED <<now, conf, cache, tagScore, score, changed, averaged>>
<1>0. PICK S \in (SUBSET Nodes) \ {{}} : \E result \in [S -> Results] :
         /\ checks' = [n \in Nodes |-> IF n \in S
                 THEN [checks[n] EXCEPT ![job[w].tag] = <<Row(result[n])>> \o @] ELSE checks[n]]
         /\ job' = [Disturb(job, S, job[w].tag) EXCEPT ![w].pc = "decide", ![w].todo = S]
         /\ scored' = scored \ (S \X {job[w].tag})
  BY DEF Submit
<1>1. PICK result \in [S -> Results] :
         /\ checks' = [n \in Nodes |-> IF n \in S
                 THEN [checks[n] EXCEPT ![job[w].tag] = <<Row(result[n])>> \o @] ELSE checks[n]]
         /\ job' = [Disturb(job, S, job[w].tag) EXCEPT ![w].pc = "decide", ![w].todo = S]
         /\ scored' = scored \ (S \X {job[w].tag})
  BY <1>0
<1>2. /\ job[w].pc = "idle" /\ UNCHANGED <<now, conf, cache, tagScore, score, changed, averaged>>
  BY DEF Submit
<1> DEFINE J == Disturb(job, S, job[w].tag)
<1>3. DOMAIN J = Workers
  BY DEF Disturb
<1>4. /\ DOMAIN J[w] = Fields /\ J[w].tag = job[w].tag /\ J[w].params = job[w].params
      /\ J[w].asked = job[w].asked
  BY DisturbStep
<1>5. job' = [J EXCEPT ![w].pc = "decide", ![w].todo = S]
  BY <1>1
<1> HIDE DEF J
<1>6. /\ DOMAIN job' = Workers
      /\ \A u \in Workers \ {w} : job'[u] = J[u]
      /\ DOMAIN job'[w] = Fields /\ job'[w].tag = job[w].tag /\ job'[w].params = job[w].params
      /\ job'[w].asked = job[w].asked /\ job'[w].pc = "decide" /\ job'[w].todo = S
  BY <1>3, <1>4, <1>5 DEF Fields
<1>7. JobType(job'[w])
  BY <1>6 DEF Types, JobType, AtRest, AtWork
<1>8. /\ DOMAIN checks' = Nodes
      /\ \A n \in Nodes : n \notin S => checks'[n] = checks[n]
      /\ \A n \in Nodes : DOMAIN checks'[n] = Tags
      /\ \A n \in Nodes : \A t \in Tags \ {job[w].tag} : checks'[n][t] = checks[n][t]
  <2> DEFINE new(n) == <<Row(result[n])>> \o checks[n][job[w].tag]
  <2>1. checks' = [n \in Nodes |-> IF n \in S
                 THEN [checks[n] EXCEPT ![job[w].tag] = new(n)] ELSE checks[n]]
    BY <1>1
  <2> HIDE DEF new
  <2> QED BY <2>1 DEF Types
<1> QED BY <1>1, <1>2, <1>6, <1>7, <1>8 DEF J

LEMMA ExpireStep ==
    ASSUME Types, NEW n \in Nodes, NEW t \in Tags, Expire(n, t)
    PROVE  /\ DOMAIN job' = Workers
           /\ \A u \in Workers : job'[u] = Disturb(job, {n}, t)[u]
           /\ \A m \in Nodes : m # n => checks'[m] = checks[m]
           /\ \A m \in Nodes : DOMAIN checks'[m] = Tags
           /\ \A m \in Nodes : \A r \in Tags \ {t} : checks'[m][r] = checks[m][r]
           /\ DOMAIN checks' = Nodes
           /\ scored' = scored \ {<<n, t>>}
           /\ UNCHANGED <<now, conf, cache, tagScore, score, changed, averaged>>
<1> DEFINE rest == Front(checks[n][t])
<1>1. /\ checks' = [checks EXCEPT ![n][t] = rest]
      /\ job' = Disturb(job, {n}, t)
      /\ scored' = scored \ {<<n, t>>}
      /\ UNCHANGED <<now, conf, cache, tagScore, score, changed, averaged>>
  BY DEF Expire
<1>2. DOMAIN job' = Workers
  BY <1>1 DEF Disturb
<1> HIDE DEF rest
<1>3. /\ \A m \in Nodes : m # n => checks'[m] = checks[m]
      /\ \A m \in Nodes : DOMAIN checks'[m] = Tags
      /\ \A m \in Nodes : \A r \in Tags \ {t} : checks'[m][r] = checks[m][r]
      /\ DOMAIN checks' = Nodes
  BY <1>1 DEF Types
<1> QED BY <1>1, <1>2, <1>3

(* Rows of a node go from under its scorings.                               *)
LEMMA SpoilStep ==
    ASSUME Types, NEW n \in Nodes, NEW scores \in BOOLEAN, Spoil(n, scores)
    PROVE  /\ DOMAIN job' = Workers
           /\ \A u \in Workers :
                /\ DOMAIN job'[u] = Fields
                /\ job'[u].pc = job[u].pc /\ job'[u].tag = job[u].tag
                /\ job'[u].node = job[u].node /\ job'[u].todo = job[u].todo
                /\ job'[u].params = job[u].params /\ job'[u].asked = job[u].asked
                /\ job'[u].score = job[u].score /\ job'[u].avg = job[u].avg
                /\ job'[u].nodeAlone =>
                     job[u].nodeAlone /\ ~(scores /\ u \in Busy /\ job[u].node = n)
                /\ job'[u].tagAlone => job[u].tagAlone /\ ~(u \in Busy /\ job[u].node = n)
<1>1. DOMAIN job' = Workers
  BY DEF Spoil
<1>2. ASSUME NEW u \in Workers
      PROVE  /\ DOMAIN job'[u] = Fields
             /\ job'[u].pc = job[u].pc /\ job'[u].tag = job[u].tag
             /\ job'[u].node = job[u].node /\ job'[u].todo = job[u].todo
             /\ job'[u].params = job[u].params /\ job'[u].asked = job[u].asked
             /\ job'[u].score = job[u].score /\ job'[u].avg = job[u].avg
             /\ job'[u].nodeAlone =>
                  job[u].nodeAlone /\ ~(scores /\ u \in Busy /\ job[u].node = n)
             /\ job'[u].tagAlone => job[u].tagAlone /\ ~(u \in Busy /\ job[u].node = n)
  <2> DEFINE hit == u \in Busy /\ job[u].node = n
             alone == job[u].nodeAlone /\ ~scores
  <2>1. DOMAIN job[u] = Fields
    BY DEF Types, JobType
  <2>2. CASE hit
    <3>1. job'[u] = [job[u] EXCEPT !.tagAlone = FALSE, !.nodeAlone = alone]
      BY <2>2 DEF Spoil
    <3>2. alone => job[u].nodeAlone /\ ~scores
      OBVIOUS
    <3> HIDE DEF alone
    <3>3. /\ DOMAIN job'[u] = Fields
          /\ job'[u].pc = job[u].pc /\ job'[u].tag = job[u].tag
          /\ job'[u].node = job[u].node /\ job'[u].todo = job[u].todo
          /\ job'[u].params = job[u].params /\ job'[u].asked = job[u].asked
          /\ job'[u].score = job[u].score /\ job'[u].avg = job[u].avg
          /\ job'[u].nodeAlone = alone /\ job'[u].tagAlone = FALSE
      BY <2>1, <3>1 DEF Fields
    <3> QED BY <3>2, <3>3
  <2>3. CASE ~hit
    <3>1. job'[u] = job[u]
      BY <2>3 DEF Spoil
    <3> QED BY <2>1, <2>3, <3>1
  <2> QED BY <2>2, <2>3
<1> QED BY <1>1, <1>2

(* A purge takes the checks of a node, or its tag scores.                   *)
LEMMA PurgeChecksStep ==
    ASSUME Types, NEW n \in Nodes, PurgeChecks(n)
    PROVE  /\ Spoil(n, FALSE) /\ UNCHANGED averaged
           /\ \A m \in Nodes : m # n => checks'[m] = checks[m]
           /\ \A m \in Nodes : DOMAIN checks'[m] = Tags
           /\ DOMAIN checks' = Nodes
           /\ scored' = scored \ ({n} \X Tags)
           /\ UNCHANGED <<now, conf, cache, tagScore, score, changed>>
BY DEF PurgeChecks, Spoil, Types

LEMMA PurgeScoresStep ==
    ASSUME Types, NEW n \in Nodes, PurgeScores(n)
    PROVE  /\ Spoil(n, TRUE) /\ averaged' = averaged \ {n}
           /\ \A m \in Nodes : m # n => tagScore'[m] = tagScore[m]
           /\ \A m \in Nodes : DOMAIN tagScore'[m] = Tags
           /\ DOMAIN tagScore' = Nodes
           /\ scored' = scored \ ({n} \X Tags)
           /\ UNCHANGED <<now, conf, cache, checks, score, changed>>
BY DEF PurgeScores, Spoil, Types

LEMMA PurgeJobs ==
    ASSUME Types, NEW n \in Nodes, PurgeChecks(n) \/ PurgeScores(n)
    PROVE  /\ DOMAIN job' = Workers
           /\ \A u \in Workers :
                /\ DOMAIN job'[u] = Fields
                /\ job'[u].pc = job[u].pc /\ job'[u].tag = job[u].tag
                /\ job'[u].node = job[u].node /\ job'[u].todo = job[u].todo
                /\ job'[u].params = job[u].params /\ job'[u].asked = job[u].asked
                /\ job'[u].score = job[u].score /\ job'[u].avg = job[u].avg
                /\ job'[u].nodeAlone => job[u].nodeAlone
                /\ job'[u].tagAlone => job[u].tagAlone /\ ~(u \in Busy /\ job[u].node = n)
<1>1. PICK scores \in BOOLEAN : Spoil(n, scores)
  <2>1. Spoil(n, FALSE) \/ Spoil(n, TRUE)
    BY PurgeChecksStep, PurgeScoresStep
  <2> QED BY <2>1
<1> HIDE DEF Types
<1> QED BY <1>1, SpoilStep

-----------------------------------------------------------------------------
(* Types *)

LEMMA TypesInit == Init => Types
<1> SUFFICES ASSUME Init PROVE Types
  OBVIOUS
<1>1. ASSUME NEW w \in Workers PROVE JobType(job[w])
  <2>1. job[w] \in {Nobody(t) : t \in Tags}
    BY DEF Init
  <2> QED BY <2>1, NobodyType
<1>2. DOMAIN job = Workers
  BY DEF Init
<1> QED BY <1>1, <1>2 DEF Init, Types

(* A step of one worker.                                                    *)
LEMMA TypesOnly ==
    ASSUME Types, NEW w \in Workers, Only(w), JobType(job'[w]),
           now' \in Nat, changed' \in Nat, conf' \in Params,
           DOMAIN cache' = {"params", "expireAt"},
           cache'.params \in Params, cache'.expireAt \in Nat,
           DOMAIN score' = Nodes,
           DOMAIN tagScore' = Nodes, \A n \in Nodes : DOMAIN tagScore'[n] = Tags,
           checks' = checks
    PROVE  Types'
BY DEF Types, Only, JobType

LEMMA TypesNext == ASSUME Types, [Next]_vars PROVE Types'
<1>1. ASSUME NEW w \in Workers, ReadParams(w) \/ ReadParamsFails(w) PROVE Types'
  <2>1. JobType(job'[w])
    BY <1>1, ReadParamsStep DEF Types, JobType, Same, AtRest, AtWork
  <2> QED BY <1>1, <2>1, ReadParamsStep, TypesOnly DEF Types
<1>2. ASSUME NEW w \in Workers, StoreParams(w) PROVE Types'
  <2>1. JobType(job'[w])
    BY <1>2, StoreParamsStep DEF Types, JobType, Same, AtRest, AtWork
  <2>2. /\ DOMAIN cache' = {"params", "expireAt"}
        /\ cache'.params \in Params /\ cache'.expireAt \in Nat
    BY <1>2, StoreParamsStep DEF Types, JobType
  <2> QED BY <1>2, <2>1, <2>2, StoreParamsStep, TypesOnly DEF Types
<1>3. ASSUME NEW w \in Workers, FetchRecords(w) PROVE Types'
  <2>1. JobType(job'[w])
    BY <1>3, FetchRecordsStep DEF Types, JobType, Same, AtRest, AtWork
  <2> QED BY <1>3, <2>1, FetchRecordsStep, TypesOnly DEF Types
<1>4. ASSUME NEW w \in Workers, Upsert(w) PROVE Types'
  <2>1. JobType(job'[w])
    BY <1>4, UpsertStep DEF Types, JobType, Same, AtRest, AtWork
  <2>2. DOMAIN tagScore' = Nodes /\ \A n \in Nodes : DOMAIN tagScore'[n] = Tags
    BY <1>4, UpsertStep DEF Types
  <2> QED BY <1>4, <2>1, <2>2, UpsertStep, TypesOnly DEF Types
<1>5. ASSUME NEW w \in Workers, Average(w) PROVE Types'
  <2>1. JobType(job'[w])
    BY <1>5, AverageStep DEF Types, JobType, Same, AtRest, AtWork
  <2> QED BY <1>5, <2>1, AverageStep, TypesOnly DEF Types
<1>6. ASSUME NEW w \in Workers, UpdateNode(w) \/ StatementFails(w) PROVE Types'
  <2>1. Continue(w) /\ UNCHANGED <<now, conf, cache, checks, tagScore, changed>>
        /\ DOMAIN score' = DOMAIN score
    BY <1>6 DEF UpdateNode, StatementFails, history
  <2> QED BY <2>1, ContinueStep, TypesOnly DEF Types
<1>7. ASSUME NEW w \in Workers, LoadParams(w) PROVE Types'
  <2>1. PICK n \in Nodes :
             /\ DOMAIN job' = Workers
             /\ job'[w].pc \in {"records", "read"} /\ DOMAIN job'[w] = Fields
             /\ job'[w].tag = job[w].tag /\ job'[w].node = n
             /\ job'[w].todo \in SUBSET Nodes /\ job'[w].asked = now
             /\ job'[w].params \in Params
             /\ \A u \in Workers \ {w} :
                  /\ DOMAIN job'[u] = Fields
                  /\ job'[u].pc = job[u].pc /\ job'[u].tag = job[u].tag
                  /\ job'[u].node = job[u].node /\ job'[u].todo = job[u].todo
                  /\ job'[u].params = job[u].params /\ job'[u].asked = job[u].asked
             /\ UNCHANGED <<now, conf, cache, checks, tagScore, score, changed>>
    BY <1>7, LoadParamsStep
  <2>2. \A u \in Workers : JobType(job'[u])
    BY <2>1 DEF Types, JobType, AtRest, AtWork
  <2> QED BY <2>1, <2>2 DEF Types, JobType
<1>8. ASSUME NEW w \in Workers, Submit(w) PROVE Types'
  <2>1. PICK S \in SUBSET Nodes :
             /\ DOMAIN job' = Workers
             /\ JobType(job'[w])
             /\ \A u \in Workers \ {w} : job'[u] = Disturb(job, S, job[w].tag)[u]
             /\ \A n \in Nodes : DOMAIN checks'[n] = Tags
             /\ DOMAIN checks' = Nodes
             /\ UNCHANGED <<now, conf, cache, tagScore, score, changed>>
    BY <1>8, SubmitStep
  <2>2. ASSUME NEW u \in Workers PROVE JobType(job'[u])
    BY <2>1, DisturbStep DEF Types, JobType
  <2> QED BY <2>1, <2>2 DEF Types, JobType
<1>9. ASSUME NEW n \in Nodes, NEW t \in Tags, Expire(n, t) PROVE Types'
  <2>1. /\ DOMAIN job' = Workers
        /\ \A u \in Workers : job'[u] = Disturb(job, {n}, t)[u]
        /\ \A m \in Nodes : DOMAIN checks'[m] = Tags
        /\ DOMAIN checks' = Nodes
        /\ UNCHANGED <<now, conf, cache, tagScore, score, changed>>
    BY <1>9, ExpireStep
  <2>2. ASSUME NEW u \in Workers PROVE JobType(job'[u])
    BY <2>1, DisturbStep DEF Types, JobType
  <2> QED BY <2>1, <2>2 DEF Types, JobType
<1>14. ASSUME NEW n \in Nodes, PurgeChecks(n) PROVE Types'
  <2>1. ASSUME NEW u \in Workers PROVE JobType(job'[u])
    <3>1. /\ DOMAIN job'[u] = Fields
          /\ job'[u].pc = job[u].pc /\ job'[u].tag = job[u].tag
          /\ job'[u].node = job[u].node /\ job'[u].todo = job[u].todo
          /\ job'[u].params = job[u].params /\ job'[u].asked = job[u].asked
      BY <1>14, PurgeJobs
    <3> QED BY <3>1 DEF Types, JobType
  <2>2. /\ DOMAIN job' = Workers
        /\ DOMAIN checks' = Nodes /\ \A m \in Nodes : DOMAIN checks'[m] = Tags
        /\ UNCHANGED <<now, conf, cache, tagScore, score, changed>>
    BY <1>14, PurgeChecksStep, PurgeJobs
  <2> QED BY <2>1, <2>2 DEF Types
<1>15. ASSUME NEW n \in Nodes, PurgeScores(n) PROVE Types'
  <2>1. ASSUME NEW u \in Workers PROVE JobType(job'[u])
    <3>1. /\ DOMAIN job'[u] = Fields
          /\ job'[u].pc = job[u].pc /\ job'[u].tag = job[u].tag
          /\ job'[u].node = job[u].node /\ job'[u].todo = job[u].todo
          /\ job'[u].params = job[u].params /\ job'[u].asked = job[u].asked
      BY <1>15, PurgeJobs
    <3> QED BY <3>1 DEF Types, JobType
  <2>2. /\ DOMAIN job' = Workers
        /\ DOMAIN tagScore' = Nodes /\ \A m \in Nodes : DOMAIN tagScore'[m] = Tags
        /\ UNCHANGED <<now, conf, cache, checks, score, changed>>
    BY <1>15, PurgeScoresStep, PurgeJobs
  <2> QED BY <2>1, <2>2 DEF Types
<1>10. ASSUME NEW w \in Workers, Spawn(w) PROVE Types'
  <2>1. JobType(job'[w]) /\ Only(w)
    BY <1>10 DEF Spawn, Types, JobType, Only, Fields, AtRest, AtWork
  <2> QED BY <1>10, <2>1, TypesOnly DEF Spawn, history, Types
<1>11. CASE Configure
  BY <1>11 DEF Configure, Types, JobType
<1>12. CASE Tick
  BY <1>12 DEF Tick, history, Types, JobType
<1>13. CASE UNCHANGED vars
  BY <1>13 DEF vars, history, Types, JobType
<1> QED BY <1>1, <1>2, <1>3, <1>4, <1>5, <1>6, <1>7, <1>8, <1>9, <1>10, <1>11, <1>12, <1>13,
            <1>14, <1>15
        DEF Next, Score

-----------------------------------------------------------------------------
(* Parameters *)

(* The cache cannot outlive a change by more than a time to live, and what  *)
(* is read after the last change is the setting.                            *)
Follows(j) ==
    /\ j.asked <= now
    /\ j.pc = "store" /\ j.asked > changed => j.params = conf
    /\ j.pc = "records" /\ j.asked >= changed + TTL => j.params = conf

ParamInv ==
    /\ changed <= now /\ cache.expireAt <= now + TTL
    /\ cache.expireAt > changed + TTL => cache.params = conf
    /\ \A w \in Workers : Follows(job[w])

(* The steps that have nothing to do with parameters.                       *)
LEMMA ParamIdle ==
    ASSUME Types, Types', ParamInv,
           UNCHANGED <<now, conf, cache, changed>>,
           \A u \in Workers :
              \/ /\ job'[u].pc = job[u].pc /\ job'[u].params = job[u].params
                 /\ job'[u].asked = job[u].asked
              \/ job'[u].pc \notin {"store", "records"} /\ job'[u].asked \in {0, job[u].asked}
    PROVE  ParamInv'
<1>1. ASSUME NEW u \in Workers PROVE Follows(job[u])'
  BY DEF Types, JobType, ParamInv, Follows
<1> QED BY <1>1 DEF ParamInv

LEMMA ParamNext == ASSUME Types, Types', ParamInv, [Next]_vars PROVE ParamInv'
<1> USE DEF Types, JobType
<1>1. ASSUME NEW w \in Workers, ReadParams(w) \/ ReadParamsFails(w) PROVE ParamInv'
  <2>1. ASSUME NEW u \in Workers PROVE Follows(job[u])'
    BY <1>1, ReadParamsStep DEF ParamInv, Follows, Only
  <2> QED BY <1>1, <2>1, ReadParamsStep DEF ParamInv
<1>2. ASSUME NEW w \in Workers, StoreParams(w) PROVE ParamInv'
  <2>1. ASSUME NEW u \in Workers PROVE Follows(job[u])'
    BY <1>2, StoreParamsStep DEF ParamInv, Follows, Only
  <2>2. /\ cache'.expireAt <= now + TTL
        /\ cache'.expireAt > changed + TTL => cache'.params = conf
    BY <1>2, StoreParamsStep DEF ParamInv, Follows
  <2> QED BY <1>2, <2>1, <2>2, StoreParamsStep DEF ParamInv
<1>3. ASSUME NEW w \in Workers, FetchRecords(w) \/ Upsert(w) \/ Average(w) PROVE ParamInv'
  BY <1>3, ParamIdle, FetchRecordsStep, UpsertStep, AverageStep DEF Only
<1>4. ASSUME NEW w \in Workers, UpdateNode(w) \/ StatementFails(w) PROVE ParamInv'
  <2>1. Continue(w) /\ UNCHANGED <<now, conf, cache, changed>>
    BY <1>4 DEF UpdateNode, StatementFails, history
  <2>2. job'[w].asked \in {0, job[w].asked}
    BY <2>1 DEF Continue, Nobody, Fields
  <2> QED BY <2>1, <2>2, ContinueStep, ParamIdle DEF Only, AtRest
<1>5. ASSUME NEW w \in Workers, LoadParams(w) PROVE ParamInv'
  <2>1. /\ job'[w].pc \in {"records", "read"} /\ job'[w].asked = now
        /\ job'[w].pc = "records" => now < cache.expireAt /\ job'[w].params = cache.params
        /\ \A u \in Workers \ {w} :
             /\ job'[u].pc = job[u].pc
             /\ job'[u].params = job[u].params /\ job'[u].asked = job[u].asked
        /\ UNCHANGED <<now, conf, cache, changed>>
    BY <1>5, LoadParamsStep
  <2>2. ASSUME NEW u \in Workers PROVE Follows(job[u])'
    BY <2>1 DEF ParamInv, Follows
  <2> QED BY <2>1, <2>2 DEF ParamInv
<1>6. ASSUME NEW w \in Workers, Submit(w) PROVE ParamInv'
  <2>1. PICK S \in SUBSET Nodes :
             /\ job'[w].pc = "decide"
             /\ \A u \in Workers \ {w} : job'[u] = Disturb(job, S, job[w].tag)[u]
             /\ UNCHANGED <<now, conf, cache, changed>>
    BY <1>6, SubmitStep
  <2>2. job'[w].asked = job[w].asked
    <3>1. PICK Q \in (SUBSET Nodes) \ {{}} :
            job' = [Disturb(job, Q, job[w].tag) EXCEPT ![w].pc = "decide", ![w].todo = Q]
      BY <1>6 DEF Submit
    <3> DEFINE J == Disturb(job, Q, job[w].tag)
    <3>2. DOMAIN J = Workers /\ J[w].asked = job[w].asked /\ DOMAIN J[w] = Fields
      BY DisturbStep DEF Disturb
    <3>3. job' = [J EXCEPT ![w].pc = "decide", ![w].todo = Q]
      BY <3>1
    <3> HIDE DEF J
    <3> QED BY <3>2, <3>3 DEF Fields
  <2>3. \A u \in Workers \ {w} : /\ job'[u].pc = job[u].pc /\ job'[u].params = job[u].params
                                 /\ job'[u].asked = job[u].asked
    BY <2>1, DisturbStep
  <2> QED BY <2>1, <2>2, <2>3, ParamIdle
<1>7. ASSUME NEW n \in Nodes, NEW t \in Tags, Expire(n, t) PROVE ParamInv'
  <2>1. ASSUME NEW u \in Workers
        PROVE  /\ job'[u].pc = job[u].pc /\ job'[u].params = job[u].params
               /\ job'[u].asked = job[u].asked
    <3> HIDE DEF Types, JobType
    <3>1. job'[u] = Disturb(job, {n}, t)[u]
      BY <1>7, ExpireStep
    <3> QED BY <3>1, DisturbStep
  <2>2. UNCHANGED <<now, conf, cache, changed>>
    BY <1>7, ExpireStep
  <2> QED BY <2>1, <2>2, ParamIdle
<1>12. ASSUME NEW n \in Nodes, PurgeChecks(n) \/ PurgeScores(n) PROVE ParamInv'
  <2> HIDE DEF Types, JobType
  <2>1. UNCHANGED <<now, conf, cache, changed>>
    BY <1>12, PurgeChecksStep, PurgeScoresStep
  <2>2. \A u \in Workers : /\ job'[u].pc = job[u].pc /\ job'[u].params = job[u].params
                           /\ job'[u].asked = job[u].asked
    BY <1>12, PurgeJobs
  <2> QED BY <2>1, <2>2, ParamIdle
<1>8. ASSUME NEW w \in Workers, Spawn(w) PROVE ParamInv'
  <2>1. /\ UNCHANGED <<now, conf, cache, changed>>
        /\ job'[w].pc = "next" /\ job'[w].asked = job[w].asked
        /\ \A u \in Workers \ {w} : job'[u] = job[u]
    BY <1>8 DEF Spawn, history, Fields
  <2> QED BY <2>1, ParamIdle
<1>9. CASE Configure
  <2>1. ASSUME NEW u \in Workers PROVE Follows(job[u])'
    BY <1>9 DEF Configure, ParamInv, Follows
  <2> QED BY <1>9, <2>1 DEF Configure, ParamInv
<1>10. CASE Tick
  <2>1. ASSUME NEW u \in Workers PROVE Follows(job[u])'
    BY <1>10 DEF Tick, history, ParamInv, Follows
  <2> QED BY <1>10, <2>1 DEF Tick, history, ParamInv
<1>11. CASE UNCHANGED vars
  BY <1>11, ParamIdle DEF vars, history
<1> HIDE DEF Types, JobType
<1> QED BY <1>1, <1>2, <1>3, <1>4, <1>5, <1>6, <1>7, <1>8, <1>9, <1>10, <1>11, <1>12
        DEF Next, Score

LEMMA TypesAlways == Spec => []Types
<1>1. Types /\ [Next]_vars => Types'
  BY TypesNext
<1> QED BY TypesInit, <1>1, PTL DEF Spec

(* A scoring that begins a time to live after the last change of the        *)
(* configuration works with the changed one, however long the goroutines    *)
(* before it took (scoring.go:43, 200-255).                                 *)
THEOREM ParametersFollow == Spec => []ParamsFollow
<1>1. Init => ParamInv
  <2> SUFFICES ASSUME Init PROVE ParamInv
    OBVIOUS
  <2>1. ASSUME NEW w \in Workers PROVE Follows(job[w])
    <3>1. PICK t \in Tags : job[w] = Nobody(t)
      BY DEF Init
    <3> QED BY <3>1 DEF Init, Nobody, Follows
  <2> QED BY <2>1 DEF Init, ParamInv
<1>2. Types /\ Types' /\ ParamInv /\ [Next]_vars => ParamInv'
  BY ParamNext
<1>3. Types /\ ParamInv => ParamsFollow
  BY DEF Types, JobType, ParamInv, Follows, ParamsFollow
<1> QED BY TypesAlways, <1>1, <1>2, <1>3, PTL DEF Spec

-----------------------------------------------------------------------------
(* The score of a node *)

(* While a node is being scored its score may be off; a scoring that is     *)
(* alone with its node has the mean in hand before it writes it.            *)
NodeInv ==
    /\ averaged \subseteq Nodes
    /\ \A w \in Busy : job[w].node \notin averaged
    /\ \A w \in Busy : job[w].nodeAlone =>
          \A u \in Busy \ {w} : job[u].node # job[w].node
    /\ \A w \in Busy : job[w].pc = "update" /\ job[w].nodeAlone =>
          job[w].avg = Mean(tagScore[job[w].node])
    /\ NodeScoreIsMean

(* A step of one busy worker that stays busy and writes no score.           *)
LEMMA NodeStep ==
    ASSUME Types, Types', NodeInv, NEW w \in Workers, Only(w), Same(w),
           job[w].pc \in AtWork, job'[w].pc \in AtWork,
           job'[w].pc = "update" => job'[w].avg = Mean(tagScore[job[w].node]),
           UNCHANGED <<score, tagScore, averaged>>
    PROVE  NodeInv'
<1>1. Busy = {u \in Workers : job[u].pc \in AtWork}
  BY BusyIs
<1>2. Busy' = {u \in Workers : job'[u].pc \in AtWork}
  BY DEF Types, JobType, Busy, AtRest, AtWork
<1>3. Busy' = Busy
  BY <1>1, <1>2 DEF Only
<1>4. \A u \in Busy : /\ job'[u].node = job[u].node /\ job'[u].nodeAlone = job[u].nodeAlone
                      /\ u # w => job'[u] = job[u]
  BY <1>1 DEF Only, Same
<1>5. NodeScoreIsMean'
  BY DEF NodeInv, NodeScoreIsMean
<1>6. \A u \in Busy' : job'[u].pc = "update" /\ job'[u].nodeAlone =>
          job'[u].avg = Mean(tagScore'[job'[u].node])
  BY <1>3, <1>4 DEF NodeInv
<1> QED BY <1>3, <1>4, <1>5, <1>6 DEF NodeInv

(* A worker starts on a node, or leaves it, or only its checks change.      *)
LEMMA NodeQuiet ==
    ASSUME Types, Types', NodeInv, Busy' = Busy,
           \A u \in Busy : /\ job'[u].node = job[u].node /\ job'[u].pc = job[u].pc
                           /\ job'[u].avg = job[u].avg
                           /\ job'[u].nodeAlone => job[u].nodeAlone,
           UNCHANGED <<score, tagScore, averaged>>
    PROVE  NodeInv'
BY DEF NodeInv, NodeScoreIsMean

LEMMA NodeLeave ==
    ASSUME Types, NodeInv, NEW w \in Workers, UpdateNode(w) \/ StatementFails(w)
    PROVE  NodeInv'
<1>1. Busy = {u \in Workers : job[u].pc \in AtWork} /\ w \in Busy
  BY BusyIs DEF UpdateNode, StatementFails, AtWork
<1>2. Continue(w) /\ UNCHANGED tagScore
  BY DEF UpdateNode, StatementFails
<1>3. Only(w) /\ job'[w].pc \in AtRest
  BY <1>2, ContinueStep
<1>4. Busy' = Busy \ {w} /\ \A u \in Busy' : job'[u] = job[u]
  <2>1. Busy' = {u \in Workers : job'[u].pc \notin AtRest}
    BY DEF Busy, AtRest
  <2>2. Busy = {u \in Workers : job[u].pc \notin AtRest}
    BY DEF Busy, AtRest
  <2> QED BY <1>3, <2>1, <2>2 DEF Only
<1>5. CASE StatementFails(w)
  <2>1. UNCHANGED <<score, averaged>>
    BY <1>5 DEF StatementFails, history
  <2> QED BY <1>2, <1>4, <2>1 DEF NodeInv, NodeScoreIsMean
<1>6. CASE UpdateNode(w)
  <2> DEFINE n == job[w].node
  <2>1. /\ job[w].pc = "update"
        /\ score' = [score EXCEPT ![n] = job[w].avg]
        /\ averaged' = IF job[w].nodeAlone THEN averaged \cup {n} ELSE averaged
    BY <1>6 DEF UpdateNode
  <2>2. n \in Nodes /\ n \notin averaged
    BY <1>1, <2>1 DEF NodeInv, Types, JobType, AtWork
  <2>3. score'[n] = job[w].avg /\ \A m \in Nodes \ {n} : score'[m] = score[m]
    BY <2>1, <2>2 DEF Types
  <2>4. job[w].nodeAlone =>
          /\ job[w].avg = Mean(tagScore[n])
          /\ \A u \in Busy \ {w} : job[u].node # n
    BY <1>1, <2>1 DEF NodeInv
  <2>5. \A u \in Busy' : job'[u].node \notin averaged'
    BY <1>4, <2>1, <2>4 DEF NodeInv
  <2>6. NodeScoreIsMean'
    <3> SUFFICES ASSUME NEW m \in averaged'
                 PROVE  score'[m] = Mean(tagScore'[m])
      BY DEF NodeScoreIsMean
    <3>1. CASE m = n
      <4>1. job[w].nodeAlone
        BY <2>1, <2>2, <3>1
      <4> QED BY <1>2, <2>3, <2>4, <3>1, <4>1
    <3>2. CASE m # n
      <4>1. m \in averaged /\ m \in Nodes
        BY <2>1, <3>2 DEF NodeInv
      <4> QED BY <1>2, <2>3, <3>2, <4>1 DEF NodeInv, NodeScoreIsMean
    <3> QED BY <3>1, <3>2
  <2>7. averaged' \subseteq Nodes
    BY <2>1, <2>2 DEF NodeInv
  <2> QED BY <1>2, <1>4, <2>5, <2>6, <2>7 DEF NodeInv
<1> QED BY <1>5, <1>6

LEMMA NodeBegin ==
    ASSUME Types, Types', NodeInv, NEW w \in Workers, LoadParams(w)
    PROVE  NodeInv'
<1>1. PICK n \in Nodes :
             /\ DOMAIN job' = Workers
             /\ job[w].pc = "next"
             /\ job'[w].pc \in {"records", "read"} /\ job'[w].node = n
             /\ job'[w].nodeAlone => \A u \in Busy \ {w} : job[u].node # n
             /\ \A u \in Workers \ {w} :
                  /\ job'[u].pc = job[u].pc /\ job'[u].node = job[u].node
                  /\ job'[u].avg = job[u].avg
                  /\ job'[u].nodeAlone => job[u].nodeAlone /\ ~(u \in Busy /\ job[u].node = n)
             /\ averaged' = averaged \ {n}
             /\ UNCHANGED <<tagScore, score>>
  BY LoadParamsStep
<1>2. w \notin Busy
  BY <1>1 DEF Busy
<1>3. Busy' = Busy \cup {w}
  <2>1. Busy' = {u \in Workers : job'[u].pc \notin AtRest}
    BY DEF Busy, AtRest
  <2>2. Busy = {u \in Workers : job[u].pc \notin AtRest}
    BY DEF Busy, AtRest
  <2>3. job'[w].pc \notin AtRest
    BY <1>1 DEF AtRest
  <2> QED BY <1>1, <2>1, <2>2, <2>3
<1>4. \A u \in Busy : /\ u # w /\ u \in Workers
                      /\ job'[u].node = job[u].node /\ job'[u].pc = job[u].pc
                      /\ job'[u].avg = job[u].avg
                      /\ job'[u].nodeAlone => job[u].nodeAlone /\ job[u].node # n
  BY <1>1, <1>2 DEF Busy
<1>5. \A u \in Busy' : job'[u].node \notin averaged'
  BY <1>1, <1>3, <1>4 DEF NodeInv
<1>6. \A v \in Busy' : job'[v].nodeAlone => \A u \in Busy' \ {v} : job'[u].node # job'[v].node
  <2>1. ASSUME NEW v \in Busy', job'[v].nodeAlone, NEW u \in Busy' \ {v}
        PROVE  job'[u].node # job'[v].node
    <3>1. CASE v = w
      BY <1>1, <1>3, <1>4, <2>1, <3>1
    <3>2. CASE u = w
      BY <1>1, <1>3, <1>4, <2>1, <3>2
    <3>3. CASE v # w /\ u # w
      BY <1>3, <1>4, <2>1, <3>3 DEF NodeInv
    <3> QED BY <3>1, <3>2, <3>3
  <2> QED BY <2>1
<1>7. \A u \in Busy' : job'[u].pc = "update" /\ job'[u].nodeAlone =>
          job'[u].avg = Mean(tagScore'[job'[u].node])
  BY <1>1, <1>3, <1>4 DEF NodeInv
<1>8. NodeScoreIsMean' /\ averaged' \subseteq Nodes
  BY <1>1 DEF NodeInv, NodeScoreIsMean
<1> QED BY <1>5, <1>6, <1>7, <1>8 DEF NodeInv

(* The score of a tag changes: its node is not in averaged, and no scoring  *)
(* that is alone with the node is under way but this one.                   *)
LEMMA NodeUpsert ==
    ASSUME Types, Types', NodeInv, NEW w \in Workers, Upsert(w)
    PROVE  NodeInv'
<1> DEFINE n == job[w].node
           new == job[w].score
<1>1. /\ Only(w) /\ Same(w) /\ job[w].pc = "upsert" /\ job'[w].pc = "avg"
      /\ tagScore' = [tagScore EXCEPT ![n][job[w].tag] = new]
      /\ UNCHANGED <<score, averaged>>
  BY UpsertStep
<1>2. w \in Busy /\ Busy' = Busy
  <2>1. Busy' = {u \in Workers : job'[u].pc \notin AtRest}
    BY DEF Busy, AtRest
  <2>2. Busy = {u \in Workers : job[u].pc \notin AtRest}
    BY DEF Busy, AtRest
  <2>3. job[w].pc \notin AtRest /\ job'[w].pc \notin AtRest
    BY <1>1 DEF AtRest
  <2> QED BY <1>1, <2>1, <2>2, <2>3 DEF Only
<1> HIDE DEF new
<1>3. \A m \in Nodes \ {n} : tagScore'[m] = tagScore[m]
  BY <1>1 DEF Types
<1>4. n \in Nodes /\ n \notin averaged
  BY <1>1, <1>2 DEF NodeInv, Types, JobType, AtWork
<1>5. \A u \in Busy : /\ u \in Workers
                      /\ job'[u].node = job[u].node /\ job'[u].nodeAlone = job[u].nodeAlone
                      /\ u # w => job'[u] = job[u]
  BY <1>1 DEF Only, Same, Busy
<1>6. ASSUME NEW u \in Busy', job'[u].pc = "update", job'[u].nodeAlone
      PROVE  job'[u].avg = Mean(tagScore'[job'[u].node])
  <2>1. u # w /\ u \in Busy /\ job'[u] = job[u]
    BY <1>1, <1>2, <1>5, <1>6
  <2>2. job[u].node # n
    BY <1>2, <1>6, <2>1 DEF NodeInv
  <2>3. job[u].node \in Nodes
    BY <1>6, <2>1 DEF Types, JobType, Busy, AtWork
  <2> QED BY <1>3, <1>6, <2>1, <2>2, <2>3 DEF NodeInv
<1>7. NodeScoreIsMean'
  BY <1>1, <1>3, <1>4 DEF NodeInv, NodeScoreIsMean
<1>8. /\ \A u \in Busy' : job'[u].node \notin averaged'
      /\ \A v \in Busy' : job'[v].nodeAlone => \A u \in Busy' \ {v} : job'[u].node # job'[v].node
  BY <1>1, <1>2, <1>5 DEF NodeInv
<1> QED BY <1>1, <1>6, <1>7, <1>8 DEF NodeInv

(* No worker enters or leaves a scoring, no score changes.                  *)
LEMMA NodeElsewhere ==
    ASSUME Types, Types', NodeInv, UNCHANGED <<score, tagScore, averaged>>,
           \A u \in Workers :
              \/ /\ job'[u].pc = job[u].pc /\ job'[u].node = job[u].node
                 /\ job'[u].avg = job[u].avg
                 /\ job'[u].nodeAlone => job[u].nodeAlone
              \/ job[u].pc \in AtRest /\ job'[u].pc \in AtRest
    PROVE  NodeInv'
<1>1. Busy = {u \in Workers : job[u].pc \notin AtRest}
  BY DEF Busy, AtRest
<1>2. Busy' = {u \in Workers : job'[u].pc \notin AtRest}
  BY DEF Busy, AtRest
<1>3. Busy' = Busy
  BY <1>1, <1>2
<1>4. \A u \in Busy : /\ job'[u].node = job[u].node /\ job'[u].pc = job[u].pc
                      /\ job'[u].avg = job[u].avg
                      /\ job'[u].nodeAlone => job[u].nodeAlone
  BY <1>1
<1> HIDE DEF Types, NodeInv
<1> QED BY ONLY Types, Types', NodeInv, UNCHANGED <<score, tagScore, averaged>>,
                <1>3, <1>4, NodeQuiet

(* The jobs of others when checks come or go.                               *)
LEMMA SubmitJobs ==
    ASSUME Types, NEW w \in Workers, Submit(w)
    PROVE  /\ UNCHANGED <<score, tagScore, averaged>>
           /\ job[w].pc \in AtRest /\ job'[w].pc \in AtRest
           /\ \A u \in Workers \ {w} :
                /\ job'[u].pc = job[u].pc /\ job'[u].node = job[u].node
                /\ job'[u].nodeAlone = job[u].nodeAlone /\ job'[u].avg = job[u].avg
<1>1. PICK S \in SUBSET Nodes :
             /\ job[w].pc = "idle" /\ job'[w].pc = "decide"
             /\ \A u \in Workers \ {w} : job'[u] = Disturb(job, S, job[w].tag)[u]
             /\ UNCHANGED <<score, tagScore, averaged>>
  BY SubmitStep
<1>2. ASSUME NEW u \in Workers \ {w}
      PROVE  /\ job'[u].pc = job[u].pc /\ job'[u].node = job[u].node
             /\ job'[u].nodeAlone = job[u].nodeAlone /\ job'[u].avg = job[u].avg
  BY <1>1, DisturbStep
<1> QED BY <1>1, <1>2 DEF AtRest

LEMMA ExpireJobs ==
    ASSUME Types, NEW n \in Nodes, NEW t \in Tags, Expire(n, t)
    PROVE  /\ UNCHANGED <<score, tagScore, averaged>>
           /\ \A u \in Workers :
                /\ job'[u].pc = job[u].pc /\ job'[u].node = job[u].node
                /\ job'[u].nodeAlone = job[u].nodeAlone /\ job'[u].avg = job[u].avg
<1>1. ASSUME NEW u \in Workers
      PROVE  /\ job'[u].pc = job[u].pc /\ job'[u].node = job[u].node
             /\ job'[u].nodeAlone = job[u].nodeAlone /\ job'[u].avg = job[u].avg
  <2>1. job'[u] = Disturb(job, {n}, t)[u]
    BY ExpireStep
  <2> QED BY <2>1, DisturbStep
<1> QED BY <1>1, ExpireStep

(* The scores of a node go: it leaves averaged, and its scorings are no     *)
(* longer alone.                                                            *)
LEMMA NodePurge ==
    ASSUME Types, Types', NodeInv, NEW n \in Nodes, PurgeScores(n)
    PROVE  NodeInv'
<1>1. /\ averaged' = averaged \ {n} /\ UNCHANGED score
      /\ \A m \in Nodes : m # n => tagScore'[m] = tagScore[m]
  BY PurgeScoresStep
<1>2. \A u \in Workers : /\ job'[u].pc = job[u].pc /\ job'[u].node = job[u].node
                         /\ job'[u].avg = job[u].avg
                         /\ job'[u].nodeAlone =>
                              job[u].nodeAlone /\ ~(u \in Busy /\ job[u].node = n)
  BY PurgeScoresStep, SpoilStep
<1>3. Busy' = Busy
  <2>1. Busy = {u \in Workers : job[u].pc \notin AtRest}
    BY DEF Busy, AtRest
  <2>2. Busy' = {u \in Workers : job'[u].pc \notin AtRest}
    BY DEF Busy, AtRest
  <2> QED BY <1>2, <2>1, <2>2
<1>4. \A u \in Busy : /\ u \in Workers /\ job[u].node \in Nodes
                      /\ job'[u].pc = job[u].pc /\ job'[u].node = job[u].node
                      /\ job'[u].avg = job[u].avg
                      /\ job'[u].nodeAlone => job[u].nodeAlone /\ job[u].node # n
  BY <1>2, BusyIs DEF Types, JobType
<1>5. ASSUME NEW u \in Busy', job'[u].pc = "update", job'[u].nodeAlone
      PROVE  job'[u].avg = Mean(tagScore'[job'[u].node])
  BY <1>1, <1>3, <1>4, <1>5 DEF NodeInv
<1>6. NodeScoreIsMean' /\ averaged' \subseteq Nodes
  BY <1>1 DEF NodeInv, NodeScoreIsMean
<1>7. /\ \A u \in Busy' : job'[u].node \notin averaged'
      /\ \A v \in Busy' : job'[v].nodeAlone => \A u \in Busy' \ {v} : job'[u].node # job'[v].node
  BY <1>1, <1>3, <1>4 DEF NodeInv
<1> QED BY <1>5, <1>6, <1>7 DEF NodeInv

LEMMA NodeNext == ASSUME Types, Types', NodeInv, [Next]_vars PROVE NodeInv'
<1>1. ASSUME NEW w \in Workers, ReadParams(w) \/ ReadParamsFails(w) PROVE NodeInv'
  BY <1>1, ReadParamsStep, NodeStep DEF AtWork
<1>2. ASSUME NEW w \in Workers, StoreParams(w) PROVE NodeInv'
  BY <1>2, StoreParamsStep, NodeStep DEF AtWork
<1>3. ASSUME NEW w \in Workers, FetchRecords(w) PROVE NodeInv'
  BY <1>3, FetchRecordsStep, NodeStep DEF AtWork
<1>4. ASSUME NEW w \in Workers, Average(w) PROVE NodeInv'
  BY <1>4, AverageStep, NodeStep DEF AtWork
<1>5. ASSUME NEW w \in Workers, Spawn(w) PROVE NodeInv'
  <2>1. /\ job[w].pc \in AtRest /\ job'[w].pc \in AtRest
        /\ \A u \in Workers \ {w} : job'[u] = job[u]
        /\ UNCHANGED <<score, tagScore, averaged>>
    BY <1>5 DEF Spawn, history, Types, JobType, Fields, AtRest
  <2> QED BY <2>1, NodeElsewhere
<1>6. ASSUME NEW w \in Workers, Submit(w) PROVE NodeInv'
  BY <1>6, SubmitJobs, NodeElsewhere
<1>7. ASSUME NEW n \in Nodes, NEW t \in Tags, Expire(n, t) PROVE NodeInv'
  BY <1>7, ExpireJobs, NodeElsewhere
<1>8. CASE Configure \/ Tick \/ UNCHANGED vars
  <2>1. UNCHANGED <<score, tagScore, averaged, job>>
    BY <1>8 DEF Configure, Tick, vars, history
  <2> QED BY <2>1, NodeElsewhere
<1>9. ASSUME NEW n \in Nodes, PurgeChecks(n) PROVE NodeInv'
  <2>1. UNCHANGED <<score, tagScore, averaged>>
    BY <1>9, PurgeChecksStep
  <2>2. \A u \in Workers : /\ job'[u].pc = job[u].pc /\ job'[u].node = job[u].node
                           /\ job'[u].avg = job[u].avg
                           /\ job'[u].nodeAlone => job[u].nodeAlone
    BY <1>9, PurgeJobs
  <2> QED BY <2>1, <2>2, NodeElsewhere
<1> QED BY <1>1, <1>2, <1>3, <1>4, <1>5, <1>6, <1>7, <1>8, <1>9,
            NodeBegin, NodeUpsert, NodeLeave, NodePurge
        DEF Next, Score

(* Scorings that nothing overlaps leave a node with the mean of the         *)
(* positive scores of its tags, whichever tags are scored in between and    *)
(* wherever the others fail (docs/scoring.md:9).                            *)
THEOREM NodeScores == Spec => []NodeScoreIsMean
<1>1. Init => NodeInv
  <2> SUFFICES ASSUME Init PROVE NodeInv
    OBVIOUS
  <2>1. \A w \in Workers : job[w].pc = "idle"
    BY TypesInit, NobodyType DEF Init
  <2>2. Busy = {}
    BY <2>1 DEF Busy
  <2>3. NodeScoreIsMean
    <3> SUFFICES ASSUME NEW n \in Nodes PROVE score[n] = Mean(tagScore[n])
      BY DEF Init, NodeScoreIsMean
    <3> DEFINE row == tagScore[n]
               counted == {t \in Tags : row[t] > 0}
    <3>1. counted = {} /\ [t \in counted |-> row[t]] = [t \in {} |-> 0]
      BY DEF Init
    <3>2. Mean(row) = [sum |-> 0, count |-> 0]
      BY <3>1, NoSum, FS_EmptySet DEF Mean
    <3> QED BY <3>2 DEF Init
  <2> QED BY <2>2, <2>3 DEF Init, NodeInv
<1>2. Types /\ Types' /\ NodeInv /\ [Next]_vars => NodeInv'
  BY NodeNext
<1>3. NodeInv => NodeScoreIsMean
  BY DEF NodeInv
<1> QED BY TypesAlways, <1>1, <1>2, <1>3, PTL DEF Spec

-----------------------------------------------------------------------------
(* The score of a tag *)

(* The score of node and tag takes all recent checks into account.          *)
Right(s, n, t) ==
    \/ checks[n][t] = <<>>
    \/ \E p \in Params : s = computeScore(p, Recent(checks[n][t]))

(* While node and tag are being scored the score may be off; a scoring that *)
(* is alone with them, whose checks stay as they are, computes and writes   *)
(* the right one.                                                           *)
TagInv ==
    /\ scored \subseteq Nodes \X Tags
    /\ \A w \in Busy : <<job[w].node, job[w].tag>> \notin scored
    /\ \A w \in Busy : job[w].tagAlone =>
          \A u \in Busy \ {w} : ~(job[u].node = job[w].node /\ job[u].tag = job[w].tag)
    /\ \A w \in Busy : job[w].pc = "upsert" /\ job[w].tagAlone =>
          Right(job[w].score, job[w].node, job[w].tag)
    /\ \A w \in Busy : job[w].pc \in {"avg", "update"} /\ job[w].tagAlone =>
          Right(tagScore[job[w].node][job[w].tag], job[w].node, job[w].tag)
    /\ \A k \in scored : Right(tagScore[k[1]][k[2]], k[1], k[2])

LEMMA BusyBoth ==
    /\ Busy = {u \in Workers : job[u].pc \notin AtRest}
    /\ Busy' = {u \in Workers : job'[u].pc \notin AtRest}
BY DEF Busy, AtRest

LEMMA BusyOnes == ASSUME Types, NEW u \in Busy
                  PROVE  u \in Workers /\ job[u].node \in Nodes /\ job[u].tag \in Tags
BY BusyIs DEF Types, JobType

(* A step of one busy worker that stays busy and writes no score.           *)
LEMMA TagStep ==
    ASSUME Types, TagInv, NEW w \in Workers, Only(w), Same(w),
           job[w].pc \in AtWork, job'[w].pc \in AtWork,
           job'[w].pc = "upsert" /\ job[w].tagAlone =>
               Right(job'[w].score, job[w].node, job[w].tag),
           job'[w].pc \in {"avg", "update"} => job[w].pc \in {"avg", "update"},
           UNCHANGED <<checks, tagScore, scored>>
    PROVE  TagInv'
<1>1. Busy' = Busy /\ w \in Busy
  BY BusyBoth DEF Only, AtWork, AtRest
<1>2. \A u \in Busy : /\ job'[u].node = job[u].node /\ job'[u].tag = job[u].tag
                      /\ job'[u].tagAlone = job[u].tagAlone
                      /\ u # w => job'[u] = job[u]
  BY BusyBoth DEF Only, Same
<1>3. \A s, n, t : Right(s, n, t) =>
        (checks'[n][t] = <<>> \/ \E p \in Params : s = computeScore(p, Recent(checks'[n][t])))
  BY DEF Right
<1>4. \A u \in Busy' : job'[u].pc = "upsert" /\ job'[u].tagAlone =>
          \/ checks'[job'[u].node][job'[u].tag] = <<>>
          \/ \E p \in Params :
               job'[u].score = computeScore(p, Recent(checks'[job'[u].node][job'[u].tag]))
  BY <1>1, <1>2, <1>3 DEF TagInv
<1>5. \A u \in Busy' : job'[u].pc \in {"avg", "update"} /\ job'[u].tagAlone =>
          \/ checks'[job'[u].node][job'[u].tag] = <<>>
          \/ \E p \in Params : tagScore'[job'[u].node][job'[u].tag]
                                 = computeScore(p, Recent(checks'[job'[u].node][job'[u].tag]))
  BY <1>1, <1>2, <1>3 DEF TagInv
<1>6. \A k \in scored' :
          \/ checks'[k[1]][k[2]] = <<>>
          \/ \E p \in Params : tagScore'[k[1]][k[2]] = computeScore(p, Recent(checks'[k[1]][k[2]]))
  BY <1>3 DEF TagInv
<1>7. /\ scored' \subseteq Nodes \X Tags
      /\ \A u \in Busy' : <<job'[u].node, job'[u].tag>> \notin scored'
      /\ \A v \in Busy' : job'[v].tagAlone =>
            \A u \in Busy' \ {v} : ~(job'[u].node = job'[v].node /\ job'[u].tag = job'[v].tag)
  BY <1>1, <1>2 DEF TagInv
<1> QED BY <1>4, <1>5, <1>6, <1>7 DEF TagInv, Right

(* Checks of the nodes S under t come or go.                                *)
ChecksMove(S, t) ==
    /\ Busy' = Busy
    /\ \A u \in Busy : /\ job'[u].pc = job[u].pc /\ job'[u].node = job[u].node
                       /\ job'[u].tag = job[u].tag /\ job'[u].score = job[u].score
                       /\ job'[u].tagAlone =>
                            job[u].tagAlone /\ ~(job[u].node \in S /\ job[u].tag = t)
    /\ \A m \in Nodes : \A r \in Tags :
          ~(m \in S /\ r = t) => checks'[m][r] = checks[m][r]
    /\ scored' = scored \ (S \X {t})
    /\ UNCHANGED tagScore

LEMMA TagChecks ==
    ASSUME Types, Types', TagInv, NEW S \in SUBSET Nodes, NEW t, ChecksMove(S, t)
    PROVE  TagInv'
<1> USE DEF ChecksMove
<1>1. \A s : \A n \in Nodes : \A r \in Tags : ~(n \in S /\ r = t) /\ Right(s, n, r) =>
        (checks'[n][r] = <<>> \/ \E p \in Params : s = computeScore(p, Recent(checks'[n][r])))
  BY DEF Right
<1>2. \A u \in Busy : job[u].node \in Nodes /\ job[u].tag \in Tags
  BY BusyOnes
<1>3. \A u \in Busy' : job'[u].pc = "upsert" /\ job'[u].tagAlone =>
          \/ checks'[job'[u].node][job'[u].tag] = <<>>
          \/ \E p \in Params :
               job'[u].score = computeScore(p, Recent(checks'[job'[u].node][job'[u].tag]))
  BY <1>1, <1>2 DEF TagInv
<1>4. \A u \in Busy' : job'[u].pc \in {"avg", "update"} /\ job'[u].tagAlone =>
          \/ checks'[job'[u].node][job'[u].tag] = <<>>
          \/ \E p \in Params : tagScore'[job'[u].node][job'[u].tag]
                                 = computeScore(p, Recent(checks'[job'[u].node][job'[u].tag]))
  BY <1>1, <1>2 DEF TagInv
<1>5. ASSUME NEW k \in scored'
      PROVE  \/ checks'[k[1]][k[2]] = <<>>
             \/ \E p \in Params : tagScore'[k[1]][k[2]] = computeScore(p, Recent(checks'[k[1]][k[2]]))
  <2>1. k \in scored /\ k \notin S \X {t} /\ k \in Nodes \X Tags
    BY DEF TagInv
  <2>2. k[1] \in Nodes /\ k[2] \in Tags /\ ~(k[1] \in S /\ k[2] = t)
    BY <2>1
  <2> QED BY <1>1, <2>1, <2>2 DEF TagInv
<1>6. /\ scored' \subseteq Nodes \X Tags
      /\ \A u \in Busy' : <<job'[u].node, job'[u].tag>> \notin scored'
      /\ \A v \in Busy' : job'[v].tagAlone =>
            \A u \in Busy' \ {v} : ~(job'[u].node = job'[v].node /\ job'[u].tag = job'[v].tag)
  BY DEF TagInv
<1> QED BY <1>3, <1>4, <1>5, <1>6 DEF TagInv, Right

LEMMA TagLeave ==
    ASSUME Types, TagInv, NEW w \in Workers, UpdateNode(w) \/ StatementFails(w)
    PROVE  TagInv'
<1>1. Continue(w) /\ UNCHANGED <<checks, tagScore>>
  BY DEF UpdateNode, StatementFails
<1>2. Only(w) /\ job'[w].pc \in AtRest
  BY <1>1, ContinueStep
<1>3. w \in Busy /\ Busy' = Busy \ {w} /\ \A u \in Busy' : job'[u] = job[u]
  <2>1. job[w].pc \notin AtRest
    BY DEF UpdateNode, StatementFails, AtRest
  <2> QED BY <1>2, <2>1, BusyBoth DEF Only
<1> DEFINE k == <<job[w].node, job[w].tag>>
<1>4. \/ scored' = scored
      \/ /\ scored' = scored \cup {k}
         /\ job[w].pc = "update" /\ job[w].tagAlone
  BY DEF UpdateNode, StatementFails, history
<1>5. k \in Nodes \X Tags /\ k[1] = job[w].node /\ k[2] = job[w].tag
  BY <1>3, BusyOnes
<1>6. /\ scored' \subseteq Nodes \X Tags
      /\ \A j \in scored' : Right(tagScore[j[1]][j[2]], j[1], j[2])
  <2>1. CASE scored' = scored
    BY <2>1 DEF TagInv
  <2>2. CASE scored' = scored \cup {k} /\ job[w].pc = "update" /\ job[w].tagAlone
    <3>1. Right(tagScore[k[1]][k[2]], k[1], k[2])
      BY <1>3, <1>5, <2>2 DEF TagInv
    <3> HIDE DEF k
    <3> QED BY <1>5, <2>2, <3>1 DEF TagInv
  <2> QED BY <1>4, <2>1, <2>2
<1>7. \A u \in Busy' : <<job'[u].node, job'[u].tag>> \notin scored'
  BY <1>3, <1>4 DEF TagInv
<1>8. \A v \in Busy' : job'[v].tagAlone =>
         \A u \in Busy' \ {v} : ~(job'[u].node = job'[v].node /\ job'[u].tag = job'[v].tag)
  BY <1>3 DEF TagInv
<1> QED BY <1>1, <1>3, <1>6, <1>7, <1>8 DEF TagInv, Right

LEMMA TagUpsert ==
    ASSUME Types, TagInv, NEW w \in Workers, Upsert(w)
    PROVE  TagInv'
<1> DEFINE n == job[w].node
           t == job[w].tag
           new == job[w].score
<1>1. /\ Only(w) /\ Same(w) /\ job[w].pc = "upsert" /\ job'[w].pc = "avg"
      /\ tagScore' = [tagScore EXCEPT ![n][t] = new]
      /\ UNCHANGED <<checks, scored>>
  BY UpsertStep
<1>2. w \in Busy /\ Busy' = Busy
  <2>1. job[w].pc \notin AtRest /\ job'[w].pc \notin AtRest
    BY <1>1 DEF AtRest
  <2> QED BY <1>1, <2>1, BusyBoth DEF Only
<1>3. \A u \in Busy : /\ u \in Workers /\ job[u].node \in Nodes /\ job[u].tag \in Tags
                      /\ job'[u].node = job[u].node /\ job'[u].tag = job[u].tag
                      /\ job'[u].tagAlone = job[u].tagAlone
                      /\ u # w => job'[u] = job[u]
  BY <1>1, BusyOnes DEF Only, Same
<1> HIDE DEF new
<1>4. /\ tagScore'[n][t] = new
      /\ \A m \in Nodes, r \in Tags : ~(m = n /\ r = t) => tagScore'[m][r] = tagScore[m][r]
  BY <1>1, <1>2, <1>3 DEF Types
<1>5. \A s, m, r : Right(s, m, r)' <=> Right(s, m, r)
  BY <1>1 DEF Right
<1>6. ASSUME NEW u \in Busy', job'[u].pc \in {"avg", "update"}, job'[u].tagAlone
      PROVE  Right(tagScore'[job'[u].node][job'[u].tag], job'[u].node, job'[u].tag)
  <2>1. CASE u = w
    BY <1>1, <1>2, <1>3, <1>4, <1>6, <2>1 DEF TagInv, new
  <2>2. CASE u # w
    <3>1. ~(job[u].node = n /\ job[u].tag = t)
      BY <1>2, <1>3, <1>6, <2>2 DEF TagInv
    <3> QED BY <1>2, <1>3, <1>4, <1>6, <2>2, <3>1 DEF TagInv
  <2> QED BY <2>1, <2>2
<1>7. \A u \in Busy' : job'[u].pc = "upsert" /\ job'[u].tagAlone =>
          Right(job'[u].score, job'[u].node, job'[u].tag)
  BY <1>1, <1>2, <1>3 DEF TagInv
<1>8. ASSUME NEW k \in scored PROVE Right(tagScore'[k[1]][k[2]], k[1], k[2])
  <2>1. k \in Nodes \X Tags /\ k # <<n, t>>
    BY <1>2 DEF TagInv
  <2>2. k[1] \in Nodes /\ k[2] \in Tags /\ ~(k[1] = n /\ k[2] = t)
    BY <2>1
  <2> QED BY <1>4, <2>2 DEF TagInv
<1>9. /\ scored' \subseteq Nodes \X Tags
      /\ \A u \in Busy' : <<job'[u].node, job'[u].tag>> \notin scored'
      /\ \A v \in Busy' : job'[v].tagAlone =>
            \A u \in Busy' \ {v} : ~(job'[u].node = job'[v].node /\ job'[u].tag = job'[v].tag)
  BY <1>1, <1>2, <1>3 DEF TagInv
<1> QED BY <1>1, <1>6, <1>7, <1>8, <1>9 DEF TagInv, Right

LEMMA TagBegin ==
    ASSUME Types, TagInv, NEW w \in Workers, LoadParams(w)
    PROVE  TagInv'
<1>1. PICK n \in Nodes :
             /\ DOMAIN job' = Workers
             /\ job[w].pc = "next"
             /\ job'[w].pc \in {"records", "read"}
             /\ job'[w].tag = job[w].tag /\ job'[w].node = n
             /\ job'[w].tagAlone =>
                  \A u \in Busy \ {w} : ~(job[u].node = n /\ job[u].tag = job[w].tag)
             /\ \A u \in Workers \ {w} :
                  /\ job'[u].pc = job[u].pc /\ job'[u].tag = job[u].tag
                  /\ job'[u].node = job[u].node /\ job'[u].score = job[u].score
                  /\ job'[u].tagAlone =>
                       /\ job[u].tagAlone
                       /\ ~(u \in Busy /\ job[u].node = n /\ job[u].tag = job[w].tag)
             /\ scored' = scored \ {<<n, job[w].tag>>}
             /\ UNCHANGED <<checks, tagScore>>
  BY LoadParamsStep
<1>2. w \notin Busy /\ Busy' = Busy \cup {w}
  <2>1. job[w].pc \in AtRest /\ job'[w].pc \notin AtRest
    BY <1>1 DEF AtRest
  <2> QED BY <1>1, <2>1, BusyBoth
<1>3. \A u \in Busy : /\ u # w /\ u \in Workers
                      /\ job'[u].pc = job[u].pc /\ job'[u].tag = job[u].tag
                      /\ job'[u].node = job[u].node /\ job'[u].score = job[u].score
                      /\ job'[u].tagAlone =>
                           job[u].tagAlone /\ ~(job[u].node = n /\ job[u].tag = job[w].tag)
  BY <1>1, <1>2, BusyOnes
<1>4. \A u \in Busy' : <<job'[u].node, job'[u].tag>> \notin scored'
  BY <1>1, <1>2, <1>3 DEF TagInv
<1>5. ASSUME NEW v \in Busy', job'[v].tagAlone, NEW u \in Busy' \ {v}
      PROVE  ~(job'[u].node = job'[v].node /\ job'[u].tag = job'[v].tag)
  <2>1. CASE v = w
    BY <1>1, <1>2, <1>3, <1>5, <2>1
  <2>2. CASE u = w
    BY <1>1, <1>2, <1>3, <1>5, <2>2
  <2>3. CASE v # w /\ u # w
    BY <1>2, <1>3, <1>5, <2>3 DEF TagInv
  <2> QED BY <2>1, <2>2, <2>3
<1>6. \A s, m, r : Right(s, m, r)' <=> Right(s, m, r)
  BY <1>1 DEF Right
<1>7. /\ \A u \in Busy' : job'[u].pc = "upsert" /\ job'[u].tagAlone =>
           Right(job'[u].score, job'[u].node, job'[u].tag)
      /\ \A u \in Busy' : job'[u].pc \in {"avg", "update"} /\ job'[u].tagAlone =>
           Right(tagScore'[job'[u].node][job'[u].tag], job'[u].node, job'[u].tag)
  BY <1>1, <1>2, <1>3 DEF TagInv
<1>8. /\ scored' \subseteq Nodes \X Tags
      /\ \A k \in scored' : Right(tagScore'[k[1]][k[2]], k[1], k[2])
  BY <1>1 DEF TagInv
<1> QED BY <1>1, <1>4, <1>5, <1>7, <1>8 DEF TagInv, Right

(* Nothing that matters to the scores of tags changes.                      *)
LEMMA TagElsewhere ==
    ASSUME Types, Types', TagInv, UNCHANGED <<checks, tagScore, scored>>,
           \A u \in Workers : job'[u] = job[u] \/ (job[u].pc \in AtRest /\ job'[u].pc \in AtRest)
    PROVE  TagInv'
<1>1. Busy' = Busy /\ \A u \in Busy : job'[u] = job[u]
  BY BusyBoth
<1>2. scored' = scored \ ({} \X {{}})
  OBVIOUS
<1>3. ChecksMove({}, {})
  BY <1>1, <1>2 DEF ChecksMove
<1> QED BY <1>3, TagChecks

LEMMA TagSubmit == ASSUME Types, Types', TagInv, NEW w \in Workers, Submit(w) PROVE TagInv'
<1>1. PICK S \in SUBSET Nodes :
             /\ job[w].pc = "idle" /\ job'[w].pc = "decide"
             /\ \A u \in Workers \ {w} : job'[u] = Disturb(job, S, job[w].tag)[u]
             /\ \A n \in Nodes : n \notin S => checks'[n] = checks[n]
             /\ \A n \in Nodes : \A t \in Tags \ {job[w].tag} : checks'[n][t] = checks[n][t]
             /\ scored' = scored \ (S \X {job[w].tag})
             /\ UNCHANGED tagScore
  BY SubmitStep
<1>2. ASSUME NEW u \in Workers \ {w}
      PROVE  /\ job'[u].pc = job[u].pc /\ job'[u].node = job[u].node
             /\ job'[u].tag = job[u].tag /\ job'[u].score = job[u].score
             /\ job'[u].tagAlone =>
                  /\ job[u].tagAlone
                  /\ ~(u \in Busy /\ job[u].node \in S /\ job[u].tag = job[w].tag)
  BY <1>1, DisturbStep
<1>3. w \notin Busy /\ Busy' = Busy
  <2>1. job[w].pc \in AtRest /\ job'[w].pc \in AtRest
    BY <1>1 DEF AtRest
  <2> QED BY <1>2, <2>1, BusyBoth
<1>4. \A u \in Busy : u \in Workers \ {w}
  BY <1>3, BusyOnes
<1>5. \A u \in Busy : /\ job'[u].pc = job[u].pc /\ job'[u].node = job[u].node
                      /\ job'[u].tag = job[u].tag /\ job'[u].score = job[u].score
                      /\ job'[u].tagAlone =>
                           job[u].tagAlone /\ ~(job[u].node \in S /\ job[u].tag = job[w].tag)
  BY <1>2, <1>4
<1>6. \A m \in Nodes : \A r \in Tags :
          ~(m \in S /\ r = job[w].tag) => checks'[m][r] = checks[m][r]
  BY <1>1
<1>7. ChecksMove(S, job[w].tag)
  BY <1>1, <1>3, <1>5, <1>6 DEF ChecksMove
<1> QED BY <1>7, TagChecks

LEMMA TagExpire ==
    ASSUME Types, Types', TagInv, NEW n \in Nodes, NEW t \in Tags, Expire(n, t)
    PROVE  TagInv'
<1> DEFINE S == {n}
<1>1. /\ \A u \in Workers : job'[u] = Disturb(job, S, t)[u]
      /\ \A m \in Nodes : m # n => checks'[m] = checks[m]
      /\ \A m \in Nodes : \A r \in Tags \ {t} : checks'[m][r] = checks[m][r]
      /\ scored' = scored \ {<<n, t>>}
      /\ UNCHANGED tagScore
  BY ExpireStep
<1>2. /\ S \in SUBSET Nodes /\ scored' = scored \ (S \X {t})
      /\ \A m \in Nodes : \A r \in Tags : ~(m \in S /\ r = t) => checks'[m][r] = checks[m][r]
  BY <1>1
<1> HIDE DEF S
<1>3. ASSUME NEW u \in Workers
      PROVE  /\ job'[u].pc = job[u].pc /\ job'[u].node = job[u].node
             /\ job'[u].tag = job[u].tag /\ job'[u].score = job[u].score
             /\ job'[u].tagAlone =>
                  job[u].tagAlone /\ ~(u \in Busy /\ job[u].node \in S /\ job[u].tag = t)
  BY <1>1, DisturbStep
<1>4. Busy' = Busy
  BY <1>3, BusyBoth
<1>5. \A u \in Busy : u \in Workers
  BY BusyOnes
<1>6. ChecksMove(S, t)
  BY <1>1, <1>2, <1>3, <1>4, <1>5 DEF ChecksMove
<1> QED BY <1>2, <1>6, TagChecks

(* Checks or scores of a node go: its tags leave scored, and its scorings   *)
(* are no longer alone.                                                     *)
LEMMA TagPurge ==
    ASSUME Types, TagInv, NEW n \in Nodes, PurgeChecks(n) \/ PurgeScores(n)
    PROVE  TagInv'
<1>1. /\ scored' = scored \ ({n} \X Tags)
      /\ \A m \in Nodes : m # n => checks'[m] = checks[m] /\ tagScore'[m] = tagScore[m]
      /\ \A u \in Workers :
           /\ job'[u].pc = job[u].pc /\ job'[u].node = job[u].node
           /\ job'[u].tag = job[u].tag /\ job'[u].score = job[u].score
           /\ job'[u].tagAlone => job[u].tagAlone /\ ~(u \in Busy /\ job[u].node = n)
  <2>1. /\ scored' = scored \ ({n} \X Tags)
        /\ \A m \in Nodes : m # n => checks'[m] = checks[m] /\ tagScore'[m] = tagScore[m]
    BY PurgeChecksStep, PurgeScoresStep
  <2> QED BY <2>1, PurgeJobs
<1>2. Busy' = Busy
  BY <1>1, BusyBoth
<1>3. \A u \in Busy : /\ u \in Workers /\ job[u].node \in Nodes
                      /\ job'[u].pc = job[u].pc /\ job'[u].node = job[u].node
                      /\ job'[u].tag = job[u].tag /\ job'[u].score = job[u].score
                      /\ job'[u].tagAlone => job[u].tagAlone /\ job[u].node # n
  BY <1>1, BusyOnes
<1>4. \A m \in Nodes : m # n => \A s, r : Right(s, m, r) =>
        (checks'[m][r] = <<>> \/ \E p \in Params : s = computeScore(p, Recent(checks'[m][r])))
  BY <1>1 DEF Right
<1>5. ASSUME NEW k \in scored'
      PROVE  \/ checks'[k[1]][k[2]] = <<>>
             \/ \E p \in Params : tagScore'[k[1]][k[2]] = computeScore(p, Recent(checks'[k[1]][k[2]]))
  <2>1. k \in scored /\ k \in Nodes \X Tags /\ k \notin {n} \X Tags
    BY <1>1 DEF TagInv
  <2>2. k[1] \in Nodes /\ k[1] # n
    BY <2>1
  <2>3. tagScore'[k[1]] = tagScore[k[1]] /\ Right(tagScore[k[1]][k[2]], k[1], k[2])
    BY <1>1, <2>1, <2>2 DEF TagInv
  <2> QED BY <1>4, <2>2, <2>3
<1>6. ASSUME NEW u \in Busy', job'[u].pc = "upsert", job'[u].tagAlone
      PROVE  \/ checks'[job'[u].node][job'[u].tag] = <<>>
             \/ \E p \in Params :
                  job'[u].score = computeScore(p, Recent(checks'[job'[u].node][job'[u].tag]))
  <2>1. Right(job[u].score, job[u].node, job[u].tag) /\ job[u].node \in Nodes /\ job[u].node # n
    BY <1>2, <1>3, <1>6 DEF TagInv
  <2> QED BY <1>2, <1>3, <1>4, <2>1
<1>7. ASSUME NEW u \in Busy', job'[u].pc \in {"avg", "update"}, job'[u].tagAlone
      PROVE  \/ checks'[job'[u].node][job'[u].tag] = <<>>
             \/ \E p \in Params : tagScore'[job'[u].node][job'[u].tag]
                                    = computeScore(p, Recent(checks'[job'[u].node][job'[u].tag]))
  <2>1. /\ Right(tagScore[job[u].node][job[u].tag], job[u].node, job[u].tag)
        /\ job[u].node \in Nodes /\ job[u].node # n
    BY <1>2, <1>3, <1>7 DEF TagInv
  <2>2. tagScore'[job[u].node] = tagScore[job[u].node]
    BY <1>1, <2>1
  <2> QED BY <1>2, <1>3, <1>4, <2>1, <2>2
<1>8. /\ scored' \subseteq Nodes \X Tags
      /\ \A u \in Busy' : <<job'[u].node, job'[u].tag>> \notin scored'
      /\ \A v \in Busy' : job'[v].tagAlone =>
            \A u \in Busy' \ {v} : ~(job'[u].node = job'[v].node /\ job'[u].tag = job'[v].tag)
  BY <1>1, <1>2, <1>3 DEF TagInv
<1> QED BY <1>5, <1>6, <1>7, <1>8 DEF TagInv, Right

LEMMA TagNext == ASSUME Types, Types', TagInv, [Next]_vars PROVE TagInv'
<1>1. ASSUME NEW w \in Workers, ReadParams(w) \/ ReadParamsFails(w) PROVE TagInv'
  BY <1>1, ReadParamsStep, TagStep DEF AtWork
<1>2. ASSUME NEW w \in Workers, StoreParams(w) PROVE TagInv'
  BY <1>2, StoreParamsStep, TagStep DEF AtWork
<1>3. ASSUME NEW w \in Workers, FetchRecords(w) PROVE TagInv'
  <2>1. /\ job[w].pc = "records" /\ job'[w].pc = "upsert" /\ Only(w) /\ Same(w)
        /\ job'[w].score = computeScore(job[w].params, Recent(ChecksOf(w)))
        /\ UNCHANGED <<checks, tagScore, scored>>
    BY <1>3, FetchRecordsStep
  <2>2. Right(job'[w].score, job[w].node, job[w].tag)
    BY <2>1 DEF Right, ChecksOf, Types, JobType
  <2> QED BY <2>1, <2>2, TagStep DEF AtWork
<1>4. ASSUME NEW w \in Workers, Average(w) PROVE TagInv'
  BY <1>4, AverageStep, TagStep DEF AtWork
<1>5. ASSUME NEW w \in Workers, Spawn(w) PROVE TagInv'
  <2>1. /\ job[w].pc \in AtRest /\ job'[w].pc \in AtRest
        /\ \A u \in Workers \ {w} : job'[u] = job[u]
        /\ UNCHANGED <<checks, tagScore, scored>>
    BY <1>5 DEF Spawn, history, Types, JobType, Fields, AtRest
  <2> QED BY <2>1, TagElsewhere
<1>6. CASE Configure \/ Tick \/ UNCHANGED vars
  <2>1. UNCHANGED <<checks, tagScore, scored, job>>
    BY <1>6 DEF Configure, Tick, vars, history
  <2> QED BY <2>1, TagElsewhere
<1> QED BY <1>1, <1>2, <1>3, <1>4, <1>5, <1>6, TagBegin, TagUpsert, TagLeave, TagSubmit, TagExpire,
            TagPurge
        DEF Next, Score

(* Unless scorings of a node under one tag overlap, are cut short or are    *)
(* overtaken by the cleanup, the score of the tag takes all the recent      *)
(* checks into account: no report is left out because two goroutines ran    *)
(* out of order (checker/handler.go:166-179, scoring.go:60-94).             *)
THEOREM TagScores == Spec => []TagScoreCurrent
<1>1. Init => TagInv
  <2> SUFFICES ASSUME Init PROVE TagInv
    OBVIOUS
  <2>1. \A w \in Workers : job[w].pc = "idle"
    BY TypesInit, NobodyType DEF Init
  <2>2. Busy = {}
    BY <2>1 DEF Busy
  <2>3. ASSUME NEW k \in scored PROVE Right(tagScore[k[1]][k[2]], k[1], k[2])
    <3>1. k[1] \in Nodes /\ k[2] \in Tags
      BY <2>3 DEF Init
    <3>2. checks[k[1]][k[2]] = <<>>
      BY <3>1 DEF Init
    <3> QED BY <3>2 DEF Right
  <2> QED BY <2>2, <2>3 DEF Init, TagInv
<1>2. Types /\ Types' /\ TagInv /\ [Next]_vars => TagInv'
  BY TagNext
<1>3. TagInv => TagScoreCurrent
  BY DEF TagInv, TagScoreCurrent, Right
<1> QED BY TypesAlways, <1>1, <1>2, <1>3, PTL DEF Spec
-----------------------------------------------------------------------------
(* Types and ranges *)

Jobs == [pc : {"idle", "decide", "next", "read", "store", "records", "upsert", "avg", "update"},
         tag : Tags, node : Nodes, todo : SUBSET Nodes, params : Params,
         asked : 0..MaxTime, score : 0..Scale, avg : Averages,
         nodeAlone : BOOLEAN, tagAlone : BOOLEAN]

LEMMA RecentType == ASSUME NEW s \in Seq(Records) PROVE Recent(s) \in Seq(Records)
BY DEF Recent

LEMMA FrontType ==
    ASSUME NEW s \in Seq(Records), s # <<>>
    PROVE  Front(s) \in Seq(Records)
BY DEF Front

LEMMA MeanType == ASSUME NEW row \in [Tags -> 0..Scale] PROVE Mean(row) \in Averages
<1> DEFINE counted == {t \in Tags : row[t] > 0}
           g == [t \in counted |-> row[t]]
<1>1. IsFiniteSet(counted) /\ Cardinality(counted) \in Nat
  <2>1. counted \subseteq Tags
    OBVIOUS
  <2> QED BY <2>1, NodesAssumption, FS_Subset, FS_CardinalityType
<1>2. DOMAIN g = counted /\ \A t \in DOMAIN g : g[t] \in Nat
  OBVIOUS
<1>3. SumFunction(g) \in Nat
  <2> HIDE DEF g, counted
  <2>1. Nat \in {Int, Nat}
    OBVIOUS
  <2> QED BY <1>1, <1>2, <2>1, SumFact
<1>4. Mean(row) = [sum |-> SumFunction(g), count |-> Cardinality(counted)]
  BY DEF Mean
<1> HIDE DEF g, counted
<1> QED BY <1>1, <1>3, <1>4 DEF Averages

LEMMA NobodyTyped == ASSUME NEW t \in Tags PROVE Nobody(t) \in Jobs
<1>1. (CHOOSE n \in Nodes : TRUE) \in Nodes
  BY NodesAssumption
<1> QED BY <1>1 DEF Nobody, Jobs, Averages

(* A step that changes the job of one worker.                               *)
LEMMA OneJob ==
    ASSUME job \in [Workers -> Jobs], NEW w \in Workers, NEW j \in Jobs,
           job' = [job EXCEPT ![w] = j]
    PROVE  job' \in [Workers -> Jobs]
OBVIOUS

LEMMA ContinueTyped ==
    ASSUME job \in [Workers -> Jobs], NEW w \in Workers, Continue(w)
    PROVE  job' \in [Workers -> Jobs]
<1> DEFINE j == IF job[w].todo = {} THEN Nobody(job[w].tag) ELSE [job[w] EXCEPT !.pc = "next"]
<1>1. job' = [job EXCEPT ![w] = j]
  BY DEF Continue
<1>2. job[w].tag \in Tags /\ [job[w] EXCEPT !.pc = "next"] \in Jobs
  BY DEF Jobs
<1>3. j \in Jobs
  BY <1>2, NobodyTyped
<1> HIDE DEF j
<1> QED BY <1>1, <1>3, OneJob

LEMMA DisturbTyped ==
    ASSUME job \in [Workers -> Jobs], NEW S, NEW t
    PROVE  Disturb(job, S, t) \in [Workers -> Jobs]
<1>1. ASSUME NEW w \in Workers PROVE [job[w] EXCEPT !.tagAlone = FALSE] \in Jobs
  BY DEF Jobs
<1> QED BY <1>1 DEF Disturb

LEMMA SubmitTyped == ASSUME TypeOK, NEW w \in Workers, Submit(w) PROVE TypeOK'
<1> PICK S \in (SUBSET Nodes) \ {{}} : \E result \in [S -> Results] :
         /\ checks' = [n \in Nodes |-> IF n \in S
                 THEN [checks[n] EXCEPT ![job[w].tag] = <<Row(result[n])>> \o @] ELSE checks[n]]
         /\ job' = [Disturb(job, S, job[w].tag) EXCEPT ![w].pc = "decide", ![w].todo = S]
         /\ scored' = scored \ (S \X {job[w].tag})
  BY DEF Submit
<1> PICK result \in [S -> Results] :
         /\ checks' = [n \in Nodes |-> IF n \in S
                 THEN [checks[n] EXCEPT ![job[w].tag] = <<Row(result[n])>> \o @] ELSE checks[n]]
         /\ job' = [Disturb(job, S, job[w].tag) EXCEPT ![w].pc = "decide", ![w].todo = S]
         /\ scored' = scored \ (S \X {job[w].tag})
  OBVIOUS
<1>1. checks \in [Nodes -> [Tags -> Seq(Records)]] /\ job \in [Workers -> Jobs]
  BY DEF TypeOK, Records, Jobs
<1>2. checks' \in [Nodes -> [Tags -> Seq(Records)]]
  <2> DEFINE new(n) == <<Row(result[n])>> \o checks[n][job[w].tag]
             here(n) == [checks[n] EXCEPT ![job[w].tag] = new(n)]
  <2>1. job[w].tag \in Tags
    BY <1>1 DEF Jobs
  <2>2. ASSUME NEW n \in S PROVE new(n) \in Seq(Records)
    <3>1. Row(result[n]) \in Records /\ n \in Nodes
      BY DEF Records
    <3>2. checks[n][job[w].tag] \in Seq(Records)
      BY <1>1, <2>1, <3>1
    <3> QED BY <3>1, <3>2
  <2>3. checks' = [n \in Nodes |-> IF n \in S THEN here(n) ELSE checks[n]]
    OBVIOUS
  <2> HIDE DEF new
  <2>4. ASSUME NEW n \in S PROVE here(n) \in [Tags -> Seq(Records)]
    BY <1>1, <2>1, <2>2
  <2> HIDE DEF here
  <2>5. ASSUME NEW n \in Nodes
        PROVE  (IF n \in S THEN here(n) ELSE checks[n]) \in [Tags -> Seq(Records)]
    BY <1>1, <2>4
  <2> QED BY <2>3, <2>5
<1>3. job' \in [Workers -> Jobs]
  <2> DEFINE J == Disturb(job, S, job[w].tag)
  <2>1. J \in [Workers -> Jobs] /\ job' = [J EXCEPT ![w].pc = "decide", ![w].todo = S]
    BY <1>1, DisturbTyped
  <2> HIDE DEF J
  <2>2. J[w] \in Jobs /\ S \in SUBSET Nodes
    BY <2>1
  <2>3. [J[w] EXCEPT !.pc = "decide", !.todo = S] \in Jobs
    BY <2>2 DEF Jobs
  <2>4. job' = [J EXCEPT ![w] = [J[w] EXCEPT !.pc = "decide", !.todo = S]]
    BY <2>1
  <2> QED BY <2>1, <2>3, <2>4
<1>4. scored' \in SUBSET (Nodes \X Tags)
  BY DEF TypeOK
<1>5. UNCHANGED <<now, conf, cache, tagScore, score, changed, averaged>>
  BY DEF Submit
<1> QED BY <1>2, <1>3, <1>4, <1>5 DEF TypeOK, Records, Jobs

LEMMA ExpireTyped ==
    ASSUME TypeOK, NEW n \in Nodes, NEW t \in Tags, Expire(n, t)
    PROVE  TypeOK'
<1> DEFINE rest == Front(checks[n][t])
<1>1. checks \in [Nodes -> [Tags -> Seq(Records)]] /\ job \in [Workers -> Jobs]
  BY DEF TypeOK, Records, Jobs
<1>2. rest \in Seq(Records)
  <2>1. checks[n][t] \in Seq(Records) /\ checks[n][t] # <<>>
    BY <1>1 DEF Expire
  <2> QED BY <2>1, FrontType
<1>3. /\ checks' = [checks EXCEPT ![n][t] = rest]
      /\ job' = Disturb(job, {n}, t)
      /\ scored' = scored \ {<<n, t>>}
      /\ UNCHANGED <<now, conf, cache, tagScore, score, changed, averaged>>
  BY DEF Expire
<1> HIDE DEF rest
<1>4. checks' \in [Nodes -> [Tags -> Seq(Records)]]
  BY <1>1, <1>2, <1>3
<1>5. job' \in [Workers -> Jobs]
  BY <1>1, <1>3, DisturbTyped
<1> QED BY <1>3, <1>4, <1>5 DEF TypeOK, Records, Jobs

LEMMA SpoilTyped ==
    ASSUME TypeOK, NEW n \in Nodes, NEW scores \in BOOLEAN, Spoil(n, scores)
    PROVE  /\ job' \in [Workers -> Jobs]
           /\ scored' \in SUBSET (Nodes \X Tags) /\ averaged' \in SUBSET Nodes
<1>1. job \in [Workers -> Jobs]
  BY DEF TypeOK, Jobs
<1>2. ASSUME NEW w \in Workers
      PROVE  [job[w] EXCEPT !.tagAlone = FALSE, !.nodeAlone = @ /\ ~scores] \in Jobs
  <2> DEFINE alone == job[w].nodeAlone /\ ~scores
  <2>1. alone \in BOOLEAN
    OBVIOUS
  <2> HIDE DEF alone
  <2>2. [job[w] EXCEPT !.tagAlone = FALSE, !.nodeAlone = alone] \in Jobs
    BY <1>1, <2>1 DEF Jobs
  <2> QED BY <2>2 DEF alone
<1>3. job' \in [Workers -> Jobs]
  BY <1>1, <1>2 DEF Spoil
<1>4. scored' \in SUBSET (Nodes \X Tags) /\ averaged' \in SUBSET Nodes
  BY DEF Spoil, TypeOK
<1> QED BY <1>3, <1>4

LEMMA PurgeTyped ==
    ASSUME TypeOK, NEW n \in Nodes, PurgeChecks(n) \/ PurgeScores(n)
    PROVE  TypeOK'
<1>1. CASE PurgeChecks(n)
  <2>1. checks' \in [Nodes -> [Tags -> Seq(Records)]]
    <3>1. checks \in [Nodes -> [Tags -> Seq(Records)]] /\ <<>> \in Seq(Records)
      BY DEF TypeOK, Records
    <3>2. checks' = [checks EXCEPT ![n] = [t \in Tags |-> <<>>]]
      BY <1>1 DEF PurgeChecks
    <3> HIDE DEF TypeOK
    <3> QED BY <3>1, <3>2
  <2> QED BY <1>1, <2>1, SpoilTyped DEF PurgeChecks, TypeOK, Records, Jobs
<1>2. CASE PurgeScores(n)
  <2>1. tagScore' \in [Nodes -> [Tags -> 0..Scale]]
    BY <1>2, NatAssumption DEF PurgeScores, TypeOK
  <2> QED BY <1>2, <2>1, SpoilTyped DEF PurgeScores, TypeOK, Jobs
<1> QED BY <1>1, <1>2

(* A step that may change the job of every worker.                          *)
LEMMA EachJob ==
    ASSUME NEW J, J = [u \in Workers |-> J[u]], \A u \in Workers : J[u] \in Jobs
    PROVE  J \in [Workers -> Jobs]
OBVIOUS

LEMMA LoadTyped ==
    ASSUME job \in [Workers -> Jobs], now \in 0..MaxTime, cache.params \in Params,
           NEW w \in Workers, LoadParams(w)
    PROVE  job' \in [Workers -> Jobs] /\ averaged' \subseteq averaged /\ scored' \subseteq scored
<1>p. PICK n \in job[w].todo :
      LET others == {u \in Busy \ {w} : job[u].node = n}
          same   == {u \in others : job[u].tag = job[w].tag}
          cached == now < cache.expireAt
      IN  /\ job' = [u \in Workers |->
               IF u = w
               THEN [job[w] EXCEPT
                       !.pc = IF cached THEN "records" ELSE "read",
                       !.params = IF cached THEN cache.params ELSE @,
                       !.node = n, !.todo = @ \ {n}, !.asked = now,
                       !.nodeAlone = others = {}, !.tagAlone = same = {}]
               ELSE [job[u] EXCEPT !.nodeAlone = @ /\ u \notin others,
                                   !.tagAlone = @ /\ u \notin same]]
          /\ averaged' = averaged \ {n}
          /\ scored' = scored \ {<<n, job[w].tag>>}
  BY DEF LoadParams
<1>0. averaged' \subseteq averaged /\ scored' \subseteq scored
  <2>1. averaged' = averaged \ {n} /\ scored' = scored \ {<<n, job[w].tag>>}
    BY <1>p, Zenon
  <2> QED BY <2>1
<1> DEFINE others == {u \in Busy \ {w} : job[u].node = n}
           same   == {u \in others : job[u].tag = job[w].tag}
           cached == now < cache.expireAt
           noOthers == others = {}
           noSame == same = {}
           pc == IF cached THEN "records" ELSE "read"
           params == IF cached THEN cache.params ELSE job[w].params
           mine == [job[w] EXCEPT !.pc = pc, !.params = params, !.node = n,
                                  !.todo = job[w].todo \ {n}, !.asked = now,
                                  !.nodeAlone = noOthers, !.tagAlone = noSame]
           a(u) == job[u].nodeAlone /\ u \notin others
           b(u) == job[u].tagAlone /\ u \notin same
           theirs(u) == [job[u] EXCEPT !.nodeAlone = a(u), !.tagAlone = b(u)]
<1>1. job' = [u \in Workers |-> IF u = w THEN mine ELSE theirs(u)]
  BY <1>p
<1>2. /\ pc \in {"records", "read"} /\ params \in Params
      /\ noOthers \in BOOLEAN /\ noSame \in BOOLEAN
  BY DEF Jobs
<1>3. \A u \in Workers : a(u) \in BOOLEAN /\ b(u) \in BOOLEAN
  OBVIOUS
<1> HIDE DEF others, same, noOthers, noSame, pc, params, a, b
<1>4. mine \in Jobs
  BY <1>2 DEF Jobs
<1>5. \A u \in Workers : theirs(u) \in Jobs
  BY <1>3 DEF Jobs
<1> DEFINE next(u) == IF u = w THEN mine ELSE theirs(u)
<1> HIDE DEF mine, theirs
<1>6. \A u \in Workers : next(u) \in Jobs
  BY <1>4, <1>5
<1>7. job' = [u \in Workers |-> next(u)]
  BY <1>1
<1> HIDE DEF next
<1>8. job' = [u \in Workers |-> job'[u]] /\ \A u \in Workers : job'[u] \in Jobs
  BY <1>6, <1>7
<1>9. job' \in [Workers -> Jobs]
  BY <1>8, EachJob
<1> QED BY <1>0, <1>9

LEMMA ScoreTyped ==
    ASSUME TypeOK, NEW w \in Workers, Spawn(w) \/ Score(w) \/ StatementFails(w)
    PROVE  TypeOK'
<1>0. /\ job \in [Workers -> Jobs] /\ job[w] \in Jobs
      /\ now \in 0..MaxTime /\ conf \in Params
      /\ checks \in [Nodes -> [Tags -> Seq(Records)]]
      /\ tagScore \in [Nodes -> [Tags -> 0..Scale]]
      /\ cache.params \in Params
  BY DEF TypeOK, Records, Jobs
<1>1. CASE Spawn(w)
  <2>1. [job[w] EXCEPT !.pc = "next"] \in Jobs
    BY <1>0 DEF Jobs
  <2>2. job' \in [Workers -> Jobs]
    BY <1>0, <1>1, <2>1, OneJob DEF Spawn
  <2> QED BY <1>1, <2>2 DEF Spawn, history, TypeOK, Jobs
<1>2. CASE LoadParams(w)
  <2>1. job' \in [Workers -> Jobs] /\ averaged' \subseteq averaged /\ scored' \subseteq scored
    BY <1>0, <1>2, LoadTyped
  <2> QED BY <1>2, <2>1 DEF LoadParams, TypeOK, Jobs
<1>3. CASE ReadParams(w) \/ ReadParamsFails(w)
  <2>1. PICK params \in Params : job' = [job EXCEPT ![w].pc = "store", ![w].params = params]
    BY <1>0, <1>3, DefaultsAssumption DEF ReadParams, ReadParamsFails
  <2>2. [job[w] EXCEPT !.pc = "store", !.params = params] \in Jobs
    BY <1>0 DEF Jobs
  <2>3. job' \in [Workers -> Jobs]
    BY <1>0, <2>1, <2>2
  <2>4. changed' \in {changed, now}
        /\ UNCHANGED <<now, conf, cache, checks, tagScore, score, averaged, scored>>
    BY <1>3 DEF ReadParams, ReadParamsFails, history
  <2> QED BY <2>3, <2>4 DEF TypeOK, Jobs
<1>4. CASE StoreParams(w)
  <2>1. [job[w] EXCEPT !.pc = "records"] \in Jobs
    BY <1>0 DEF Jobs
  <2>2. job' \in [Workers -> Jobs]
    BY <1>0, <1>4, <2>1, OneJob DEF StoreParams
  <2>3. cache' \in [params : Params, expireAt : 0..MaxTime + TTL]
    <3>1. job[w].params \in Params /\ job[w].asked + TTL \in 0..MaxTime + TTL
      BY <1>0 DEF Jobs
    <3> QED BY <1>4, <3>1 DEF StoreParams
  <2> QED BY <1>4, <2>2, <2>3 DEF StoreParams, history, TypeOK, Jobs
<1>5. CASE FetchRecords(w)
  <2> DEFINE s == computeScore(job[w].params, Recent(ChecksOf(w)))
             j == [job[w] EXCEPT !.pc = "upsert", !.params = Defaults, !.asked = 0, !.score = s]
  <2>1. s \in 0..Scale
    <3>1. job[w].params \in Params /\ ChecksOf(w) \in Seq(Records)
      BY <1>0 DEF Jobs, ChecksOf
    <3> QED BY <3>1, RecentType, ScoreRange
  <2>2. job' = [job EXCEPT ![w] = j]
    BY <1>0, <1>5 DEF FetchRecords
  <2> HIDE DEF s
  <2>3. j \in Jobs
    <3>1. 0 \in 0..MaxTime
      BY NatAssumption
    <3> QED BY <1>0, <2>1, <3>1, DefaultsAssumption DEF Jobs
  <2> HIDE DEF j
  <2>4. job' \in [Workers -> Jobs]
    BY <1>0, <2>2, <2>3, OneJob
  <2> QED BY <1>5, <2>4 DEF FetchRecords, history, TypeOK, Jobs
<1>6. CASE Upsert(w)
  <2> DEFINE j == [job[w] EXCEPT !.pc = "avg", !.score = 0]
  <2>1. j \in Jobs
    <3>1. 0 \in 0..Scale
      BY NatAssumption
    <3> QED BY <1>0, <3>1 DEF Jobs
  <2>2. job' \in [Workers -> Jobs]
    <3>1. job' = [job EXCEPT ![w] = j]
      BY <1>0, <1>6 DEF Upsert
    <3> HIDE DEF j
    <3> QED BY <1>0, <2>1, <3>1, OneJob
  <2>3. tagScore' \in [Nodes -> [Tags -> 0..Scale]]
    <3>1. job[w].score \in 0..Scale /\ job[w].node \in Nodes /\ job[w].tag \in Tags
      BY <1>0 DEF Jobs
    <3> QED BY <1>0, <1>6, <3>1 DEF Upsert
  <2> QED BY <1>6, <2>2, <2>3 DEF Upsert, history, TypeOK, Jobs
<1>7. CASE Average(w)
  <2> DEFINE a == Mean(tagScore[job[w].node])
             j == [job[w] EXCEPT !.pc = "update", !.avg = a]
  <2>1. a \in Averages
    <3>1. tagScore[job[w].node] \in [Tags -> 0..Scale]
      BY <1>0 DEF Jobs
    <3> QED BY <3>1, MeanType
  <2>2. job' = [job EXCEPT ![w] = j]
    BY <1>0, <1>7 DEF Average
  <2> HIDE DEF a
  <2>3. j \in Jobs
    BY <1>0, <2>1 DEF Jobs
  <2> HIDE DEF j
  <2>4. job' \in [Workers -> Jobs]
    BY <1>0, <2>2, <2>3, OneJob
  <2> QED BY <1>7, <2>4 DEF Average, history, TypeOK, Jobs
<1>8. CASE UpdateNode(w)
  <2>1. job' \in [Workers -> Jobs]
    BY <1>0, <1>8, ContinueTyped DEF UpdateNode
  <2>2. job[w].avg \in Averages /\ job[w].node \in Nodes /\ job[w].tag \in Tags
    BY <1>0 DEF Jobs
  <2>3. score' \in [Nodes -> Averages]
    BY <1>8, <2>2 DEF UpdateNode, TypeOK
  <2>4. averaged' \in SUBSET Nodes /\ scored' \in SUBSET (Nodes \X Tags)
    BY <1>8, <2>2 DEF UpdateNode, TypeOK
  <2> QED BY <1>8, <2>1, <2>3, <2>4 DEF UpdateNode, TypeOK, Jobs
<1>9. CASE StatementFails(w)
  <2>1. job' \in [Workers -> Jobs]
    BY <1>0, <1>9, ContinueTyped DEF StatementFails
  <2> QED BY <1>9, <2>1 DEF StatementFails, history, TypeOK, Jobs
<1> QED BY <1>1, <1>2, <1>3, <1>4, <1>5, <1>6, <1>7, <1>8, <1>9 DEF Score

(* Every score is in range, whatever is configured for decay and weights,   *)
(* whatever a checker reports, unreachable and missing values included, and *)
(* however scorings overlap (scoring.go:112-198).                           *)
THEOREM TypeCorrect == Spec => []TypeOK
<1>1. Init => TypeOK
  <2> SUFFICES ASSUME Init PROVE TypeOK
    OBVIOUS
  <2>1. job \in [Workers -> Jobs]
    BY NobodyTyped DEF Init
  <2>2. /\ checks \in [Nodes -> [Tags -> Seq({Row(r) : r \in Results})]]
        /\ tagScore \in [Nodes -> [Tags -> 0..Scale]]
        /\ score \in [Nodes -> Averages]
    BY DEF Init, Averages
  <2>3. /\ cache \in [params : Params, expireAt : 0..MaxTime + TTL]
        /\ now \in 0..MaxTime /\ changed \in 0..MaxTime /\ conf \in Params
        /\ averaged \in SUBSET Nodes /\ scored \in SUBSET (Nodes \X Tags)
    BY DefaultsAssumption DEF Init
  <2> QED BY <2>1, <2>2, <2>3 DEF TypeOK, Jobs
<1>2. TypeOK /\ [Next]_vars => TypeOK'
  <2> SUFFICES ASSUME TypeOK, [Next]_vars PROVE TypeOK'
    OBVIOUS
  <2>1. CASE \E w \in Workers : Submit(w) \/ Spawn(w) \/ Score(w) \/ StatementFails(w)
    BY <2>1, SubmitTyped, ScoreTyped
  <2>2. CASE \E n \in Nodes, t \in Tags : Expire(n, t)
    BY <2>2, ExpireTyped
  <2>6. CASE \E n \in Nodes : PurgeChecks(n) \/ PurgeScores(n)
    BY <2>6, PurgeTyped
  <2>3. CASE Configure
    BY <2>3 DEF Configure, TypeOK
  <2>4. CASE Tick
    BY <2>4 DEF Tick, history, TypeOK
  <2>5. CASE UNCHANGED vars
    BY <2>5 DEF vars, history, TypeOK
  <2> QED BY <2>1, <2>2, <2>3, <2>4, <2>5, <2>6 DEF Next
<1> QED BY <1>1, <1>2, PTL DEF Spec

=============================================================================
