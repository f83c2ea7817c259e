----------------------------- MODULE AliveCache -----------------------------
(***************************************************************************)
(* The in-memory cache of alive nodes (cache/cache.go, cache/rebuild.go)   *)
(* and what makes it stale.  The checker submissions (checker/handler.go,  *)
(* phases 1 to 4) announce what they change: they end with a trigger.      *)
(* Deletions of node rows (node/upsert.go, node/service.go), pruned check  *)
(* rows (cleanup/cleanup.go), scores (scoring/scoring.go) and a new        *)
(* distribution filter or anything else it looks at (handler/config.go)    *)
(* are silent.  Submissions of one tag run one after the other under the   *)
(* tag's mutex; all else interleaves with the one rebuild loop.            *)
(*                                                                         *)
(* TriggerRebuild sends on a channel of capacity one and gives up when the *)
(* channel is full: triggered says whether it is.  Time is not modelled:   *)
(* the debounce timer may fire at any moment after it was set.             *)
(***************************************************************************)

CONSTANTS
    Nodes,        \* node ids
    Tags,         \* checker tags
    Scores,       \* values of node_tag_scores.score
    NoScore,      \* no row there, or a node was cached without a score
    Absent,       \* the entry of a node that is not cached
    Deep,         \* tags whose checkers report deep checks
    Faults        \* a query of the rebuild may fail

ASSUME FaultsAssumption == Faults \in BOOLEAN
ASSUME NoScoreAssumption == NoScore \notin Scores
ASSUME AbsentAssumption == Absent \notin Scores \cup {NoScore}
ASSUME DeepAssumption == Deep \subseteq Tags

(* A node counts per tag, so most tables are sets of pairs or functions on  *)
(* them.                                                                    *)
Pairs == Tags \X Nodes
Entries == Scores \cup {NoScore, Absent}
Views == [Pairs -> Entries]

VARIABLES
    gone,         \* nodes whose row was deleted
    alive,        \* nodes with a row and nodes.alive = TRUE
    latest,       \* pairs whose node is reachable in the tag's latest run
    excluded,     \* pairs that node_distribute_filter says TRUE of
    score,        \* per pair, its node_tag_scores
    phase,        \* per tag, how far the submission holding its mutex is
    scoring,      \* per tag, a scoring goroutine has not ended
    triggered,    \* rebuildCh holds a value
    loop,         \* where rebuildLoop and Rebuild are
    found,        \* what the queries of Rebuild have left to publish so far
    failed,       \* history: the last rebuild lost a query to an error
    cache,        \* AliveCache.tags: per pair, the cached score if cached
    unseen        \* history: pairs touched silently with no rebuild owed

dbVars   == <<gone, alive, latest, excluded, score>>
loopVars == <<triggered, loop, found, failed, cache>>
vars == <<dbVars, phase, scoring, loopVars, unseen>>

Empty == [p \in Pairs |-> Absent]

(* What the tables say, read at one moment (phase B): a tag's sub-cache     *)
(* holds the alive nodes that were reachable in the latest run of the tag,  *)
(* without those that the filter excludes, and their scores.  The global    *)
(* view is the union over the tags.                                         *)
View == [p \in Pairs |-> IF p[2] \in alive /\ p \in latest \ excluded
                         THEN score[p] ELSE Absent]

Unscored(pairs) == [p \in Pairs |-> IF p \in pairs THEN NoScore ELSE Absent]

(* A rebuild that has not started reading is still to come.                 *)
Owed == \/ triggered
        \/ loop \in {"debounce", "readAlive"}
        \/ \E t \in Tags : phase[t] # "idle"

(* A silent change: a rebuild that is owed will see it, one that is already *)
(* reading may or may not.                                                  *)
Silently(touched) ==
    unseen' = IF Owed THEN unseen ELSE unseen \cup touched

(* The server starts over the database it left behind, with an empty cache, *)
(* and triggers the first rebuild itself.                                   *)
Init ==
    /\ gone \in SUBSET Nodes
    /\ alive \in SUBSET (Nodes \ gone)
    /\ latest \in SUBSET Pairs
    /\ excluded \in SUBSET Pairs
    /\ score \in [Pairs -> Scores \cup {NoScore}]
    /\ \A p \in Pairs : p[1] \notin Deep => score[p] = NoScore
    /\ phase = [t \in Tags |-> "idle"]
    /\ scoring = [t \in Tags |-> FALSE]
    /\ triggered = TRUE
    /\ loop = "wait"
    /\ found = Empty /\ failed = FALSE
    /\ cache = Empty
    /\ unseen = {}

-----------------------------------------------------------------------------
(* A checker submission *)

(* Phase 1, the transaction: the tag has a new latest run.                  *)
RecordRun(t) ==
    /\ phase[t] = "idle"
    /\ \E reachable \in SUBSET Nodes :
         latest' = {p \in latest : p[1] # t} \cup ({t} \X reachable)
    /\ phase' = [phase EXCEPT ![t] = "recorded"]
    /\ unseen' = {}
    /\ UNCHANGED <<gone, alive, excluded, score, scoring, loopVars>>

(* Mutant of MarkAlive: saves the node instead of updating it, which brings *)
(* a deleted row back.                                                      *)
MarkAliveSaves(t) ==
    /\ phase[t] = "recorded"
    /\ \E named \in SUBSET Nodes : alive' = alive \cup named
    /\ phase' = [phase EXCEPT ![t] = "aliveMarked"]
    /\ UNCHANGED <<gone, latest, excluded, score, scoring, loopVars, unseen>>

(* Phase 2 is two statements, one for the alive nodes and one for the dead. *)
(* Which nodes they name depends on every tag's history: any may be named.  *)
MarkAlive(t) ==
    /\ phase[t] = "recorded"
    /\ \E named \in SUBSET (Nodes \ gone) : alive' = alive \cup named
    /\ phase' = [phase EXCEPT ![t] = "aliveMarked"]
    /\ UNCHANGED <<gone, latest, excluded, score, scoring, loopVars, unseen>>

(* Phase 3 starts the scoring goroutine if the results had deep checks; one *)
(* that is still running from the tag's previous submission keeps running.  *)
MarkDead(t) ==
    /\ phase[t] = "aliveMarked"
    /\ \E named \in SUBSET Nodes : alive' = alive \ named
    /\ \E deep \in {FALSE, (t \in Deep)} : scoring' = [scoring EXCEPT ![t] = @ \/ deep]
    /\ phase' = [phase EXCEPT ![t] = "deadMarked"]
    /\ UNCHANGED <<gone, latest, excluded, score, loopVars, unseen>>

(* Mutant of TriggerRebuild: gives up while the loop is busy.               *)
TriggerIfIdle(t) ==
    /\ phase[t] = "deadMarked"
    /\ triggered' = (triggered \/ loop = "wait")
    /\ phase' = [phase EXCEPT ![t] = "idle"]
    /\ UNCHANGED <<dbVars, scoring, loop, found, failed, cache, unseen>>

(* Phase 4 ends with TriggerRebuild: a full channel discards the trigger.   *)
TriggerRebuild(t) ==
    /\ phase[t] = "deadMarked"
    /\ triggered' = TRUE
    /\ phase' = [phase EXCEPT ![t] = "idle"]
    /\ UNCHANGED <<dbVars, scoring, loop, found, failed, cache, unseen>>

-----------------------------------------------------------------------------
(* Silent changes *)

(* The filter gives another answer for some pairs: PUT /config stored       *)
(* another expression, or what it looks at has changed, such as the node's  *)
(* raw configuration, its sources or its last deep check.                   *)
Refilter ==
    /\ \E touched \in SUBSET Pairs : \E out \in SUBSET touched :
         /\ touched # {}
         /\ excluded' = (excluded \ touched) \cup out
         /\ Silently(touched)
    /\ UNCHANGED <<gone, alive, latest, score, phase, scoring, loopVars>>

(* A scoring goroutine writes the score of one of its nodes, which the      *)
(* filter may look at, and goes on with the next, if there is one; another  *)
(* goroutine of the tag may be running too.  No trigger.                    *)
WriteScore(t) ==
    /\ scoring[t]
    /\ \E n \in Nodes, v \in Scores : \E out \in SUBSET {<<t, n>>} :
         /\ score' = [score EXCEPT ![<<t, n>>] = v]
         /\ excluded' = (excluded \ {<<t, n>>}) \cup out
         /\ Silently({<<t, n>>})
    /\ \E more \in BOOLEAN : scoring' = [scoring EXCEPT ![t] = more]
    /\ UNCHANGED <<gone, alive, latest, phase, loopVars>>

(* A row of the tag's latest run is deleted: the cleanup prunes it, or its  *)
(* whole run, by age, or a purge of the node takes it.  Runs are pruned the *)
(* oldest first, so no older run becomes the latest.                        *)
Prune(p) ==
    /\ p \in latest
    /\ latest' = latest \ {p}
    /\ Silently({p})
    /\ UNCHANGED <<gone, alive, excluded, score, phase, scoring, loopVars>>

(* A node row is deleted by a fetch report, a source cleanup or an          *)
(* administrator.                                                           *)
DeleteNode(n) ==
    /\ n \notin gone
    /\ gone' = gone \cup {n}
    /\ alive' = alive \ {n}
    /\ Silently(Tags \X {n})
    /\ UNCHANGED <<latest, excluded, score, phase, scoring, loopVars>>

-----------------------------------------------------------------------------
(* rebuildLoop *)

Receive ==
    /\ loop = "wait" /\ triggered
    /\ triggered' = FALSE
    /\ loop' = "debounce"
    /\ UNCHANGED <<dbVars, phase, scoring, found, failed, cache, unseen>>

(* A trigger during the debounce restarts the timer, fired or not.          *)
Postpone ==
    /\ loop = "debounce" /\ triggered
    /\ triggered' = FALSE
    /\ UNCHANGED <<dbVars, phase, scoring, loop, found, failed, cache, unseen>>

TimerFires ==
    /\ loop = "debounce"
    /\ loop' = "readAlive"
    /\ UNCHANGED <<dbVars, phase, scoring, triggered, found, failed, cache, unseen>>

(* Mutant of ReadAlive: no alive node is taken for nothing to do.           *)
ReadAliveReturns ==
    /\ loop = "readAlive"
    /\ IF alive = {}
       THEN loop' = "wait" /\ UNCHANGED found
       ELSE found' = Unscored(Tags \X alive) /\ loop' = "readRuns"
    /\ failed' = FALSE
    /\ UNCHANGED <<dbVars, phase, scoring, triggered, cache, unseen>>

(* Rebuild, A1: no alive node publishes an empty cache at once; an error    *)
(* ends the rebuild without publishing.                                     *)
ReadAlive ==
    /\ loop = "readAlive"
    /\ \/ /\ alive # {}
          /\ found' = Unscored(Tags \X alive)
          /\ loop' = "readRuns"
          /\ failed' = FALSE
          /\ UNCHANGED cache
       \/ /\ alive = {}
          /\ cache' = Empty
          /\ loop' = "wait"
          /\ failed' = FALSE
          /\ UNCHANGED found
       \/ /\ Faults
          /\ loop' = "wait"
          /\ failed' = TRUE
          /\ UNCHANGED <<found, cache>>
    /\ UNCHANGED <<dbVars, phase, scoring, triggered, unseen>>

(* A2 and A3 are two queries, but the second selects the rows of the runs   *)
(* the first named, and those were committed with the run; if some tag had  *)
(* a later run in between a rebuild is owed.  An error of either leaves the *)
(* maps empty and the rebuild goes on.                                      *)
ReadRuns ==
    /\ loop = "readRuns"
    /\ \/ /\ found' = [p \in Pairs |-> IF p \in latest THEN found[p] ELSE Absent]
          /\ UNCHANGED failed
       \/ Faults /\ found' = Empty /\ failed' = TRUE
    /\ loop' = "readFilter"
    /\ UNCHANGED <<dbVars, phase, scoring, triggered, cache, unseen>>

(* A pair's score and the filter's answer.  The filter is evaluated on what *)
(* several queries, from A1 on, have read: of a pair that was touched since *)
(* then it may say anything.                                                *)
Filtered(p) ==
    IF p \in unseen THEN {Absent, score[p]}
    ELSE IF p \in excluded THEN {Absent} ELSE {score[p]}

(* A lost query leaves scores out (A4), changes what the filter sees (A5,   *)
(* A6) or drops the filter (A7).                                            *)
FilteredWithout(p) == {Absent, NoScore, score[p]}

Published(Entry(_)) ==
    {view \in Views : \A p \in Pairs :
        IF found[p] = Absent THEN view[p] = Absent ELSE view[p] \in Entry(p)}

(* A4 to A8 and phase B; A4, A5 and A6 go on without a batch whose query    *)
(* failed, A7 without a filter.                                             *)
ReadFilter ==
    /\ loop = "readFilter"
    /\ \/ found' \in Published(Filtered) /\ UNCHANGED failed
       \/ Faults /\ found' \in Published(FilteredWithout) /\ failed' = TRUE
    /\ loop' = "swap"
    /\ UNCHANGED <<dbVars, phase, scoring, triggered, cache, unseen>>

(* Mutant of Swap: adds to the sub-caches instead of replacing them.        *)
SwapMerges ==
    /\ loop = "swap"
    /\ cache' = [p \in Pairs |-> IF found[p] = Absent THEN cache[p] ELSE found[p]]
    /\ found' = Empty
    /\ loop' = "wait"
    /\ UNCHANGED <<dbVars, phase, scoring, triggered, failed, unseen>>

(* Phases C and D.  Rebuild returns, and what it has read is forgotten.     *)
Swap ==
    /\ loop = "swap"
    /\ cache' = found
    /\ found' = Empty
    /\ loop' = "wait"
    /\ UNCHANGED <<dbVars, phase, scoring, triggered, failed, unseen>>

-----------------------------------------------------------------------------
(* The process stops and starts again: handlers, the loop, the channel and  *)
(* the cache are gone, the database stays, and main triggers a rebuild.     *)
Restart ==
    /\ phase' = [t \in Tags |-> "idle"]
    /\ scoring' = [t \in Tags |-> FALSE]
    /\ triggered' = TRUE
    /\ loop' = "wait"
    /\ found' = Empty /\ failed' = FALSE
    /\ cache' = Empty
    /\ unseen' = {}
    /\ UNCHANGED dbVars

Submission(t) == MarkAlive(t) \/ MarkDead(t) \/ TriggerRebuild(t)
Rebuilding == ReadAlive \/ ReadRuns \/ ReadFilter \/ Swap
Loop == Receive \/ Postpone \/ TimerFires \/ Rebuilding

Next ==
    \/ \E t \in Tags : RecordRun(t) \/ Submission(t) \/ WriteScore(t)
    \/ Refilter
    \/ \E p \in Pairs : Prune(p)
    \/ \E n \in Nodes : DeleteNode(n)
    \/ Loop
    \/ Restart

Spec == Init /\ [][Next]_vars

(* A started submission and the loop run on; the loop either takes a        *)
(* trigger or lets the timer fire.  Nobody has to submit, score, delete,    *)
(* prune, configure or restart.                                             *)
FairSpec ==
    /\ Spec
    /\ \A t \in Tags : WF_vars(Submission(t))
    /\ WF_vars(Loop)

-----------------------------------------------------------------------------
(* Properties *)

(* Every variable keeps its type, and a deleted row is not alive.           *)
TypeOK ==
    /\ gone \in SUBSET Nodes
    /\ alive \in SUBSET (Nodes \ gone)
    /\ latest \in SUBSET Pairs
    /\ excluded \in SUBSET Pairs
    /\ score \in [Pairs -> Scores \cup {NoScore}]
    /\ phase \in [Tags -> {"idle", "recorded", "aliveMarked", "deadMarked"}]
    /\ scoring \in [Tags -> BOOLEAN]
    /\ triggered \in BOOLEAN
    /\ loop \in {"wait", "debounce", "readAlive", "readRuns", "readFilter", "swap"}
    /\ found \in Views
    /\ failed \in BOOLEAN
    /\ cache \in Views
    /\ unseen \in SUBSET Pairs

(* Every submission has ended, no trigger is waiting, no rebuild is running *)
(* and the last one lost no query.                                          *)
AtRest == ~Owed /\ loop = "wait" /\ ~failed

(* Off the pairs that were touched silently, the cache is what the tables   *)
(* say.                                                                     *)
Fresh == \A p \in Pairs \ unseen : cache[p] = View[p]

(* Once every submission has ended, no trigger is waiting and the loop is   *)
(* at rest, each sub-cache shows exactly the tag's alive nodes that the     *)
(* filter does not exclude, with their stored scores, unless a query of the *)
(* last rebuild failed and up to the nodes that were deleted, pruned,       *)
(* scored or filtered otherwise when no rebuild was owed any more.  No      *)
(* trigger is lost, though a full channel discards it and it may come at    *)
(* any point of a running rebuild (cache.go:74-104), and the next           *)
(* submission, of whatever tag, makes up for every silent change.           *)
FreshAtRest == AtRest => Fresh

(* The argument for it: while no further rebuild is owed, what the running  *)
(* one has found is still what the tables hold of the pairs not touched.    *)
FoundCurrent ==
    ~Owed /\ ~failed => \A p \in Pairs \ unseen :
        /\ loop = "readRuns" => (found[p] # Absent <=> p[2] \in alive)
        /\ loop = "readFilter" => (found[p] # Absent <=> p[2] \in alive /\ p \in latest)
        /\ loop = "swap" => found[p] = View[p]

(* A rebuild that lost a query leaves the cache dirty.                      *)
Dirty == Owed \/ loop # "wait" \/ failed
Contract == INSTANCE ViewContract
              WITH Keys <- Pairs, Values <- Entries,
                   truth <- View, shown <- cache, dirty <- Dirty, behind <- unseen

(* The cache implements what the distribution side may expect of it: not    *)
(* dirty means current but for the silent changes, only a submission or a   *)
(* restart makes it dirty, and only they end a lag (cache.go:71-111).       *)
Implements == Contract!Spec

Submits == \E t \in Tags : RecordRun(t)

(* If from some point on nothing is submitted and the process keeps         *)
(* running, the owed rebuilds end, and unless the last one lost a query     *)
(* every sub-cache becomes what the tables hold, and stays so but for the   *)
(* silent changes since (docs/distribution.md:15).                          *)
EventuallyFresh ==
    <>[][~Submits /\ ~Restart]_vars => <>[](~Owed /\ (failed \/ Fresh))
=============================================================================
