------------------------------ MODULE Scoring -------------------------------
(***************************************************************************)
(* Scoring (scoring/scoring.go): a submission of check results leaves its  *)
(* deep checks in the database and starts a goroutine that scores the      *)
(* nodes it was about, one after the other: load the parameters, from a    *)
(* cache with a time to live, read the last checks of node and tag, upsert *)
(* the tag's score, average the tags, update the node.  There is no        *)
(* transaction, and the mutex of the tag does not cover the goroutine:     *)
(* scorings of the same node overlap.  The cleanup and the pool's purges   *)
(* delete checks and scores under them.                                    *)
(*                                                                         *)
(* Scores are integers up to Scale (the code rounds to six decimals), the  *)
(* curves that turn a mean into a score are given as functions, and an     *)
(* average is a sum and a count.                                           *)
(***************************************************************************)
EXTENDS Integers, Sequences, FiniteSetsExt, SequencesExt

CONSTANTS
    Nodes, Tags,
    Workers,        \* submissions in flight
    Params,         \* settings of the score_* keys
    Defaults,       \* the setting hard-coded in loadParams
    Decay,          \* score_decay_alpha of a setting, as a fraction
    Weights,        \* the weights of a setting, in percent
    LatencyCurve, StabilityCurve, SpeedCurve,
    maxLatencyMs, maxJitterMs, maxSpeedKbps,
    Results,        \* deep results a checker may report
    Missing,        \* no speed in a report
    Window,         \* checks that count: 20
    TTL,            \* scoreParamsTTL in ticks
    Scale,          \* the best score
    MaxTime,        \* bound: the last tick
    MaxChecks       \* bound: deep checks of a node at a time

ASSUME DefaultsAssumption == Defaults \in Params
ASSUME NatAssumption ==
    /\ TTL \in Nat \ {0} /\ Window \in Nat \ {0} /\ Scale \in Nat
    /\ MaxTime \in Nat /\ MaxChecks \in Nat
ASSUME NodesAssumption == Nodes # {} /\ IsFiniteSet(Tags)
ASSUME ResultsAssumption ==
    Results \subseteq [latency : Int, jitter : Int, speed : Int \cup {Missing}]

(* Any number may be configured for a decay or a weight.                    *)
ASSUME SettingsAssumption ==
    /\ Decay \in [Params -> Int \X Int]
    /\ Weights \in [Params -> [latency : Int, stability : Int, speed : Int]]
ASSUME CurvesAssumption ==
    /\ maxLatencyMs \in Nat /\ maxJitterMs \in Nat /\ maxSpeedKbps \in Nat
    /\ LatencyCurve \in [Params -> [0..maxLatencyMs -> 0..Scale]]
    /\ StabilityCurve \in [Params -> [0..maxJitterMs -> 0..Scale]]
    /\ SpeedCurve \in [0..maxSpeedKbps -> 0..Scale]

VARIABLES
    now,
    conf,           \* the setting in the configs table
    cache,          \* params and paramsExpireAt
    checks,         \* node_deep_checks of each node and tag, newest first
    tagScore,       \* node_tag_scores, 0 where there is no row
    score,          \* nodes.score
    job,            \* the goroutines
    changed,        \* history: when conf last changed or could not be read
    averaged,       \* history: nodes, and nodes with a tag, with which nothing
    scored          \*   interfered in their latest scoring or since
history == <<changed, averaged, scored>>
vars == <<now, conf, cache, checks, tagScore, score, job, history>>

-----------------------------------------------------------------------------
(* computeScore *)

Clamp(v, top) == IF v < 0 THEN 0 ELSE IF v > top THEN top ELSE v

(* alpha falls back to 0.7.                                                 *)
Alpha(p) == IF Decay[p][1] > 0 /\ Decay[p][1] <= Decay[p][2] THEN Decay[p] ELSE <<7, 10>>

Latency(r) == IF r.latency = -1 THEN maxLatencyMs ELSE r.latency
Jitter(r)  == IF r.jitter = -1 THEN maxJitterMs ELSE r.jitter

Power(a, k) == LET power[i \in 0..k] == IF i = 0 THEN 1 ELSE a * power[i - 1] IN power[k]

(* alpha^i, over a common denominator.                                      *)
DecayOf(p, i, n) == Power(Alpha(p)[1], i - 1) * Power(Alpha(p)[2], n - i)

WeightedMean(p, f) ==
    LET w == [i \in DOMAIN f |-> DecayOf(p, i, Len(f))]
    IN  SumFunction([i \in DOMAIN f |-> w[i] * f[i]]) \div SumFunction(w)

(* Mutant of Weight: no clamp01.                                            *)
AnyWeight(p, k) == Weights[p][k]

Weight(p, k) == Clamp(Weights[p][k], 100)

Blend(a, u, b, v) == (a * u + b * v) \div (u + v)

quality(p, R) ==
    LET l == LatencyCurve[p][Clamp(WeightedMean(p, [i \in DOMAIN R |-> Latency(R[i])]), maxLatencyMs)]
        s == StabilityCurve[p][Clamp(WeightedMean(p, [i \in DOMAIN R |-> Jitter(R[i])]), maxJitterMs)]
    IN  IF Weight(p, "latency") + Weight(p, "stability") > 0
        THEN Blend(l, Weight(p, "latency"), s, Weight(p, "stability"))
        ELSE Blend(l, 70, s, 30)

(* The speed of the newest check is blended in unless it is negative.       *)
computeScore(p, R) ==
    IF R = <<>> THEN 0
    ELSE IF R[1].speed < 0 THEN quality(p, R)
    ELSE Blend(quality(p, R), 100 - Weight(p, "speed"),
               SpeedCurve[Clamp(R[1].speed, maxSpeedKbps)], Weight(p, "speed"))

Recent(s) == SubSeq(s, 1, IF Len(s) < Window THEN Len(s) ELSE Window)

(* AVG(score) WHERE score > 0, or 0.                                        *)
Mean(row) ==
    LET counted == {t \in Tags : row[t] > 0}
    IN  [sum |-> SumFunction([t \in counted |-> row[t]]), count |-> Cardinality(counted)]

-----------------------------------------------------------------------------
(* todo: the nodes of a submission still to score; asked: when loadParams   *)
(* looked at the clock; tagAlone and nodeAlone are histories: no other      *)
(* scoring of the node ran at the same time, no check of node and tag came  *)
(* or went, no purge took the node's scores.  Values are reset once they    *)
(* have been used.                                                          *)
Nobody(t) == [pc |-> "idle", tag |-> t, node |-> CHOOSE n \in Nodes : TRUE, todo |-> {},
              params |-> Defaults, asked |-> 0, score |-> 0,
              avg |-> [sum |-> 0, count |-> 0], nodeAlone |-> FALSE, tagAlone |-> FALSE]

Init ==
    /\ now = 0
    /\ conf \in Params
    /\ cache = [params |-> Defaults, expireAt |-> 0]
    /\ checks = [n \in Nodes |-> [t \in Tags |-> <<>>]]
    /\ tagScore = [n \in Nodes |-> [t \in Tags |-> 0]]
    /\ score = [n \in Nodes |-> [sum |-> 0, count |-> 0]]
    /\ job \in [Workers -> {Nobody(t) : t \in Tags}]
    /\ changed = 0
    /\ averaged = Nodes
    /\ scored = Nodes \X Tags

Busy == {w \in Workers : job[w].pc \notin {"idle", "decide", "next"}}

(* A check of n under t came or went.                                       *)
Disturb(J, S, t) ==
    [w \in Workers |-> IF w \in Busy /\ J[w].node \in S /\ J[w].tag = t
                       THEN [J[w] EXCEPT !.tagAlone = FALSE] ELSE J[w]]

-----------------------------------------------------------------------------
(* PostResults as far as scores go *)

Stored(n) == MapThenSumSet(LAMBDA t : Len(checks[n][t]), Tags)

(* The row of a result: a missing speed is stored as 0.                     *)
Row(r) == [r EXCEPT !.speed = IF @ = Missing THEN 0 ELSE @]

(* The transaction of a submission, under the mutex of its tag: checks of   *)
(* several nodes, one result each.                                          *)
Submit(w) ==
    /\ job[w].pc = "idle"
    /\ \A u \in Workers : job[u].pc = "decide" => job[u].tag # job[w].tag
    /\ \E S \in (SUBSET Nodes) \ {{}} : \E result \in [S -> Results] :
         /\ checks' = [n \in Nodes |-> IF n \in S
                 THEN [checks[n] EXCEPT ![job[w].tag] = <<Row(result[n])>> \o @] ELSE checks[n]]
         /\ \A n \in S : Stored(n) < MaxChecks
         /\ job' = [Disturb(job, S, job[w].tag) EXCEPT ![w].pc = "decide", ![w].todo = S]
         /\ scored' = scored \ (S \X {job[w].tag})
    /\ UNCHANGED <<now, conf, cache, tagScore, score, changed, averaged>>

(* The alive decision is over and the goroutine starts (go func).           *)
Spawn(w) ==
    /\ job[w].pc = "decide"
    /\ job' = [job EXCEPT ![w].pc = "next"]
    /\ UNCHANGED <<now, conf, cache, checks, tagScore, score, history>>

(* The cleanup deletes the oldest check of a node.                          *)
Expire(n, t) ==
    /\ checks[n][t] # <<>>
    /\ checks' = [checks EXCEPT ![n][t] = Front(@)]
    /\ job' = Disturb(job, {n}, t)
    /\ scored' = scored \ {<<n, t>>}
    /\ UNCHANGED <<now, conf, cache, tagScore, score, changed, averaged>>

-----------------------------------------------------------------------------
(* The purges of the pool and of the node API: the checks of a node and its *)
(* tag scores go in two statements.  The guarded delete of the node itself  *)
(* comes later and may find a new mapping, so that the node stays.          *)

(* Rows of n are gone from under its scorings.                              *)
Spoil(n, scores) ==
    /\ job' = [w \in Workers |-> IF w \in Busy /\ job[w].node = n
                THEN [job[w] EXCEPT !.tagAlone = FALSE, !.nodeAlone = @ /\ ~scores]
                ELSE job[w]]
    /\ scored' = scored \ ({n} \X Tags)
    /\ averaged' = IF scores THEN averaged \ {n} ELSE averaged

PurgeChecks(n) ==
    /\ \E t \in Tags : checks[n][t] # <<>>
    /\ checks' = [checks EXCEPT ![n] = [t \in Tags |-> <<>>]]
    /\ Spoil(n, FALSE)
    /\ UNCHANGED <<now, conf, cache, tagScore, score, changed>>

PurgeScores(n) ==
    /\ \E t \in Tags : tagScore[n][t] # 0
    /\ tagScore' = [tagScore EXCEPT ![n] = [t \in Tags |-> 0]]
    /\ Spoil(n, TRUE)
    /\ UNCHANGED <<now, conf, cache, checks, score, changed>>

-----------------------------------------------------------------------------
(* ComputeAndUpdateTagScore *)

(* loadParams: a cache that has not expired answers at once.                *)
LoadParams(w) ==
    /\ job[w].pc = "next"
    /\ \E n \in job[w].todo :
         LET others == {u \in Busy \ {w} : job[u].node = n}
             same   == {u \in others : job[u].tag = job[w].tag}
             cached == now < cache.expireAt
         IN  /\ job' = [u \in Workers |->
                  IF u = w
                  THEN [job[w] EXCEPT
                          !.pc = IF cached THEN "records" ELSE "read",
                          !.params = IF cached THEN cache.params ELSE @,
                          !.node = n, !.todo = @ \ {n}, !.asked = now,
                          !.nodeAlone = others = {}, !.tagAlone = same = {}]
                  ELSE [job[u] EXCEPT !.nodeAlone = @ /\ u \notin others,
                                      !.tagAlone = @ /\ u \notin same]]
             /\ averaged' = averaged \ {n}
             /\ scored' = scored \ {<<n, job[w].tag>>}
    /\ UNCHANGED <<now, conf, cache, checks, tagScore, score, changed>>

ReadParams(w) ==
    /\ job[w].pc = "read"
    /\ job' = [job EXCEPT ![w].pc = "store", ![w].params = conf]
    /\ UNCHANGED <<now, conf, cache, checks, tagScore, score, history>>

(* A query that fails leaves the defaults, and they are cached as well.     *)
ReadParamsFails(w) ==
    /\ job[w].pc = "read"
    /\ job' = [job EXCEPT ![w].pc = "store", ![w].params = Defaults]
    /\ changed' = now
    /\ UNCHANGED <<now, conf, cache, checks, tagScore, score, averaged, scored>>

(* Mutant of StoreParams: the time to live starts at the write.             *)
StoreParamsLate(w) ==
    /\ job[w].pc = "store"
    /\ cache' = [params |-> job[w].params, expireAt |-> now + TTL]
    /\ job' = [job EXCEPT ![w].pc = "records"]
    /\ UNCHANGED <<now, conf, checks, tagScore, score, history>>

StoreParams(w) ==
    /\ job[w].pc = "store"
    /\ cache' = [params |-> job[w].params, expireAt |-> job[w].asked + TTL]
    /\ job' = [job EXCEPT ![w].pc = "records"]
    /\ UNCHANGED <<now, conf, checks, tagScore, score, history>>

ChecksOf(w) == checks[job[w].node][job[w].tag]

(* Mutant of FetchRecords: the checks come oldest first.                    *)
FetchOldest(w) ==
    /\ job[w].pc = "records"
    /\ job' = [job EXCEPT ![w].pc = "upsert", ![w].params = Defaults, ![w].asked = 0,
                   ![w].score = computeScore(job[w].params, Recent(Reverse(ChecksOf(w))))]
    /\ UNCHANGED <<now, conf, cache, checks, tagScore, score, history>>

FetchRecords(w) ==
    /\ job[w].pc = "records"
    /\ job' = [job EXCEPT ![w].pc = "upsert", ![w].params = Defaults, ![w].asked = 0,
                   ![w].score = computeScore(job[w].params, Recent(ChecksOf(w)))]
    /\ UNCHANGED <<now, conf, cache, checks, tagScore, score, history>>

Upsert(w) ==
    /\ job[w].pc = "upsert"
    /\ tagScore' = [tagScore EXCEPT ![job[w].node][job[w].tag] = job[w].score]
    /\ job' = [job EXCEPT ![w].pc = "avg", ![w].score = 0]
    /\ UNCHANGED <<now, conf, cache, checks, score, history>>

(* Mutant of Average: the score of the tag stands for all.                  *)
AverageOwn(w) ==
    /\ job[w].pc = "avg"
    /\ job' = [job EXCEPT ![w].pc = "update",
                   ![w].avg = [sum |-> tagScore[job[w].node][job[w].tag], count |-> 1]]
    /\ UNCHANGED <<now, conf, cache, checks, tagScore, score, history>>

Average(w) ==
    /\ job[w].pc = "avg"
    /\ job' = [job EXCEPT ![w].pc = "update", ![w].avg = Mean(tagScore[job[w].node])]
    /\ UNCHANGED <<now, conf, cache, checks, tagScore, score, history>>

(* The loop of the goroutine goes on to the next node.                      *)
Continue(w) == job' = [job EXCEPT ![w] =
    IF @.todo = {} THEN Nobody(@.tag) ELSE [@ EXCEPT !.pc = "next"]]

UpdateNode(w) ==
    /\ job[w].pc = "update"
    /\ score' = [score EXCEPT ![job[w].node] = job[w].avg]
    /\ averaged' = IF job[w].nodeAlone THEN averaged \cup {job[w].node} ELSE averaged
    /\ scored' = IF job[w].tagAlone THEN scored \cup {<<job[w].node, job[w].tag>>} ELSE scored
    /\ Continue(w)
    /\ UNCHANGED <<now, conf, cache, checks, tagScore, changed>>

(* A statement fails: this node keeps what has been written of it.          *)
StatementFails(w) ==
    /\ job[w].pc \in {"records", "upsert", "avg", "update"}
    /\ Continue(w)
    /\ UNCHANGED <<now, conf, cache, checks, tagScore, score, history>>

-----------------------------------------------------------------------------
(* PUT /api/v1/config and the clock *)

Configure ==
    /\ conf' \in Params \ {conf}
    /\ changed' = now
    /\ UNCHANGED <<now, cache, checks, tagScore, score, job, averaged, scored>>

Tick ==
    /\ now < MaxTime
    /\ now' = now + 1
    /\ UNCHANGED <<conf, cache, checks, tagScore, score, job, history>>

Score(w) ==
    \/ LoadParams(w) \/ ReadParams(w) \/ ReadParamsFails(w) \/ StoreParams(w)
    \/ FetchRecords(w) \/ Upsert(w) \/ Average(w) \/ UpdateNode(w)

Next ==
    \/ \E w \in Workers : Submit(w) \/ Spawn(w) \/ Score(w) \/ StatementFails(w)
    \/ \E n \in Nodes, t \in Tags : Expire(n, t)
    \/ \E n \in Nodes : PurgeChecks(n) \/ PurgeScores(n)
    \/ Configure \/ Tick

Spec == Init /\ [][Next]_vars

-----------------------------------------------------------------------------
(* Properties *)

Averages == [sum : Nat, count : Nat]

(* Every variable keeps its type, and every score its range.                *)
TypeOK ==
    /\ now \in 0..MaxTime
    /\ conf \in Params
    /\ cache \in [params : Params, expireAt : 0..MaxTime + TTL]
    /\ checks \in [Nodes -> [Tags -> Seq({Row(r) : r \in Results})]]
    /\ tagScore \in [Nodes -> [Tags -> 0..Scale]]
    /\ score \in [Nodes -> Averages]
    /\ job \in [Workers ->
           [pc : {"idle", "decide", "next", "read", "store", "records", "upsert", "avg", "update"},
            tag : Tags, node : Nodes, todo : SUBSET Nodes, params : Params,
            asked : 0..MaxTime, score : 0..Scale, avg : Averages,
            nodeAlone : BOOLEAN, tagAlone : BOOLEAN]]
    /\ changed \in 0..MaxTime
    /\ averaged \in SUBSET Nodes
    /\ scored \in SUBSET (Nodes \X Tags)

(* Unless scorings of a node overlapped, one was cut short or a purge has   *)
(* taken its scores since, its score is the mean of the positive scores of  *)
(* its tags, whichever tag was scored last (docs/scoring.md:9).             *)
NodeScoreIsMean == \A n \in averaged : score[n] = Mean(tagScore[n])

(* Unless scorings of a node under a tag overlapped, the score of the tag   *)
(* takes all its recent checks into account: none is left over between two  *)
(* goroutines.                                                              *)
TagScoreCurrent ==
    \A k \in scored : \/ checks[k[1]][k[2]] = <<>>
                       \/ \E p \in Params :
                            tagScore[k[1]][k[2]] = computeScore(p, Recent(checks[k[1]][k[2]]))

(* A change of the configuration reaches every scoring that begins a time   *)
(* to live later, though a slow goroutine may write an old setting over a   *)
(* newer one in the cache; so does the end of a failure.                    *)
ParamsFollow ==
    \A w \in Workers :
        /\ job[w].pc \in {"store", "records"}
        /\ job[w].asked >= changed + TTL
        => job[w].params = conf
=============================================================================
