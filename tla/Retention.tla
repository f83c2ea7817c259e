----------------------------- MODULE Retention ------------------------------
(***************************************************************************)
(* The two dead verdicts (source/dead.go, source/dead_node.go), the        *)
(* cleanup that prunes the history they read (cleanup/cleanup.go), and the *)
(* windows both take from the configs table, which requests change         *)
(* meanwhile (ConfigUpdate).                                               *)
(*                                                                         *)
(* A verdict is four to seven statements without a transaction; reports,   *)
(* the cleanup and config updates run between them.  The fetch verdict     *)
(* reads source_fetch_histories, the node verdict node_initial_checks;     *)
(* they share neither rows nor windows, so a behaviour is about one of     *)
(* them (kind) and one source.  What follows a verdict (MarkDeadAndClean)   *)
(* is in NodePool.                                                         *)
(***************************************************************************)
EXTENDS Integers, FiniteSets

CONSTANTS
    Nodes,        \* nodes the source maps or shares with other sources
    Workers,      \* verdicts in flight
    Created,      \* when the source may have been created
    Requested,    \* values a config request may ask for, sensible or not
    None,         \* no node
    DefaultHistory, \* the windows a failed read of the configs table is
    DefaultDead,  \*   replaced by
    Day,          \* ticks of the clock in a day
    MaxTime,      \* bound: the last tick
    MaxRows       \* bound: history rows at a time

ASSUME NoneAssumption == None \notin Nodes \cup Int
ASSUME DayAssumption == Day \in Nat /\ Day > 1
ASSUME BoundsAssumption == MaxTime \in Nat /\ MaxRows \in Nat
ASSUME CreatedAssumption == Created \subseteq Nat
ASSUME RequestedAssumption == Requested \subseteq Int
ASSUME DefaultsAssumption == DefaultHistory \in Nat \ {0} /\ DefaultDead \in Nat \ {0}

VARIABLES
    kind,         \* which verdict and history table: "fetch" or "node"
    now,          \* the clock
    created,      \* sources.created_at
    mapped,       \* node_sources of the source
    doomed,       \* nodes that were unmapped and whose checks will be deleted
    rows,         \* the history table
    cfg,          \* the two windows of the kind in the configs table
    job,          \* goroutines of reports and submissions
    cleaner       \* the cleanup goroutine

tables == <<created, mapped, doomed, rows, cfg>>
vars == <<kind, now, tables, job, cleaner>>

-----------------------------------------------------------------------------
Times   == 0..MaxTime
Kinds   == {"fetch", "node"}
Windows == {"history", "dead"}   \* *_history_*_days, *_dead_window_days
Rows    == [node : Nodes \cup {None}, at : Times, ok : BOOLEAN]

(* The rows the verdict of the source is about.  Fetch records belong to    *)
(* the source and name no node.                                             *)
About(R, ns) == {r \in R : kind = "fetch" \/ r.node \in ns}

(* Path A: the history reaches back beyond the window, there are records in *)
(* the window, and all of them are failures.                                *)
Covered(R, start)   == \E r \in R : r.at < start
InWindow(R, start)  == {r \in R : r.at >= start}

(* Mutant of AllFailed: one failure in the window is enough.                *)
SomeFailed(R, start) == \E r \in InWindow(R, start) : ~r.ok

AllFailed(R, start) == InWindow(R, start) # {} /\ \A r \in InWindow(R, start) : ~r.ok

(* Path B: an old source without a record after the start of the window.    *)
Silent(R, start) == created <= start /\ \A r \in R : r.at <= start

Dead(R, start) == (Covered(R, start) /\ AllFailed(R, start)) \/ Silent(R, start)

(* down: the nodes a submission did not reach; days, start: the window;     *)
(* seen: a history variable, the successes the verdict must not overlook.   *)
NoJob == [pc |-> "idle", since |-> 0, down |-> {}, days |-> 0, start |-> 0,
          seen |-> {}, nodes |-> {}, covered |-> FALSE, silent |-> FALSE,
          dead |-> FALSE]

(* since: when the run began; history, dead: the windows it read.           *)
Asleep == [pc |-> "sleep", since |-> 0, history |-> 0, dead |-> 0, cutoff |-> 0]

(* Any source, and the windows that requests have left.                     *)
Init ==
    /\ kind \in Kinds
    /\ now = 0
    /\ created \in Created
    /\ mapped \in IF kind = "node" THEN SUBSET Nodes ELSE {{}}
    /\ doomed = {} /\ rows = {}
    /\ cfg \in [Windows -> {n \in Requested : n > 0}]
    /\ job = [w \in Workers |-> NoJob]
    /\ cleaner = Asleep

-----------------------------------------------------------------------------
(* Reports and submissions *)

Goto(w, pc) == job' = [job EXCEPT ![w].pc = pc]
End(w)      == job' = [job EXCEPT ![w] = NoJob]

(* AddFetchHistory, or the insert of a submission's initial checks, both    *)
(* stamped with the current time.  The goroutine goes on to the verdict; if *)
(* no worker is free, or the source is not evaluated for some other reason, *)
(* the rows are all there is to it, since a verdict writes nothing.         *)
Record(new) ==
    /\ Cardinality(rows \cup new) <= MaxRows
    /\ rows' = rows \cup new
    /\ \/ UNCHANGED job
       \/ \E w \in Workers :
            /\ job[w].pc = "idle"
            /\ job' = [job EXCEPT ![w] =
                 [NoJob EXCEPT !.since = now, !.seen = {r \in new : r.ok},
                               !.down = {n \in Nodes : \E r \in new : r.node = n /\ ~r.ok},
                               !.pc = IF kind = "node" THEN "recorded" ELSE "source"]]
    /\ UNCHANGED <<kind, now, created, mapped, doomed, cfg, cleaner>>

(* A fetch record, or checks of several nodes.                              *)
Report ==
    \/ kind = "fetch" /\ \E ok \in BOOLEAN :
            Record({[node |-> None, at |-> now, ok |-> ok]})
    \/ kind = "node" /\ \E up \in SUBSET Nodes : \E down \in SUBSET (Nodes \ up) :
            /\ up \cup down # {}
            /\ Record([node : up, at : {now}, ok : {TRUE}]
                        \cup [node : down, at : {now}, ok : {FALSE}])

(* A failed insert of a fetch record is only logged and the source is       *)
(* evaluated without it; a failed transaction of checks ends the submission.*)
RecordFails(w) ==
    /\ kind = "fetch" /\ job[w].pc = "idle"
    /\ job' = [job EXCEPT ![w] = [NoJob EXCEPT !.since = now, !.pc = "source"]]
    /\ UNCHANGED <<kind, now, tables, cleaner>>

(* handleDeadNodes evaluates the source if it maps a node of the            *)
(* submission that was found dead, which takes all tags (CheckResults).     *)
FindAffected(w) ==
    /\ job[w].pc = "recorded"
    /\ \/ /\ job[w].down \cap mapped # {}
          /\ job' = [job EXCEPT ![w].pc = "source", ![w].down = {}]
       \/ End(w)
    /\ UNCHANGED <<kind, now, tables, cleaner>>

(* readConfigInt of a window: the stored value, or the default if the read  *)
(* fails.                                                                   *)
ReadConfigInt(k) == {cfg[k], IF k = "dead" THEN DefaultDead ELSE DefaultHistory}

Successes(start) == {r \in rows : r.ok /\ r.at > start}

(* First(&src), where a missing, dead or spared source ends the verdict     *)
(* (which and since when is NodePool's), then readConfigInt of the dead     *)
(* window, and windowStart.                                                 *)
ReadWindow(w) ==
    /\ job[w].pc = "source"
    /\ \/ /\ created <= now
          /\ \E days \in ReadConfigInt("dead") :
               job' = [job EXCEPT ![w].pc = IF kind = "node" THEN "mappings" ELSE "oldest",
                                  ![w].days = days,
                                  ![w].start = now - days * Day,
                                  ![w].seen = @ \cup Successes(now - days * Day)]
       \/ End(w)
    /\ UNCHANGED <<kind, now, tables, cleaner>>

(* The node verdict's list of mapped nodes; if it is empty, the age of the  *)
(* source alone decides, by a second reading of the clock.                  *)
ReadMappings(w) ==
    /\ job[w].pc = "mappings"
    /\ job' = [job EXCEPT ![w].nodes = mapped,
                          ![w].pc = IF mapped = {} THEN "verdict" ELSE "oldest",
                          ![w].dead = mapped = {} /\ created <= now - job[w].days * Day]
    /\ UNCHANGED <<kind, now, tables, cleaner>>

(* The oldest record, for the coverage of the window.                       *)
ReadOldest(w) ==
    /\ job[w].pc = "oldest"
    /\ job' = [job EXCEPT ![w].pc = "latest",
                          ![w].covered = Covered(About(rows, job[w].nodes), job[w].start)]
    /\ UNCHANGED <<kind, now, tables, cleaner>>

(* The latest record, for path B.                                           *)
ReadLatest(w) ==
    LET silent == Silent(About(rows, job[w].nodes), job[w].start) IN
    /\ job[w].pc = "latest"
    /\ job' = [job EXCEPT ![w].pc = IF job[w].covered THEN "rows" ELSE "verdict",
                          ![w].silent = job[w].covered /\ silent,
                          ![w].dead = ~job[w].covered /\ silent]
    /\ UNCHANGED <<kind, now, tables, cleaner>>

(* The records in the window, if it is covered; path B otherwise.           *)
ReadRows(w) ==
    /\ job[w].pc = "rows" /\ kind = "fetch"
    /\ job' = [job EXCEPT ![w].pc = "verdict",
                          ![w].dead = AllFailed(rows, job[w].start) \/ job[w].silent]
    /\ UNCHANGED <<kind, now, tables, cleaner>>

(* The node verdict counts the records of the window first ...              *)
Count(w) ==
    /\ job[w].pc = "rows" /\ kind = "node"
    /\ IF InWindow(About(rows, job[w].nodes), job[w].start) # {}
         THEN Goto(w, "reachable")
         ELSE job' = [job EXCEPT ![w].pc = "verdict", ![w].dead = job[w].silent]
    /\ UNCHANGED <<kind, now, tables, cleaner>>

(* ... and then looks for a reachable one among them.                       *)
TakeReachable(w) ==
    /\ job[w].pc = "reachable"
    /\ job' = [job EXCEPT ![w].pc = "verdict",
            ![w].dead = \/ \A r \in InWindow(About(rows, job[w].nodes), job[w].start) : ~r.ok
                        \/ job[w].silent]
    /\ UNCHANGED <<kind, now, tables, cleaner>>

(* MarkDeadAndClean for a source found dead: see NodePool.                  *)
Conclude(w) ==
    /\ job[w].pc = "verdict"
    /\ End(w)
    /\ UNCHANGED <<kind, now, tables, cleaner>>

(* A statement of a verdict fails: it is logged and the source left alone.  *)
VerdictFails(w) ==
    /\ job[w].pc \notin {"idle", "verdict"}
    /\ End(w)
    /\ UNCHANGED <<kind, now, tables, cleaner>>

-----------------------------------------------------------------------------
(* The cleanup goroutine: run and doCleanup *)

Wake ==
    /\ cleaner.pc = "sleep"
    /\ \E days \in ReadConfigInt("history") :
         cleaner' = [Asleep EXCEPT !.pc = "dead", !.since = now, !.history = days]
    /\ UNCHANGED <<kind, now, tables, job>>

Longer(a, b) == IF a > b THEN a ELSE b    \* maxInt

(* Mutants of ReadDead: the day is taken off, or not added.                 *)
ReadDeadDayShort ==
    /\ cleaner.pc = "dead"
    /\ \E days \in ReadConfigInt("dead") :
         cleaner' = [cleaner EXCEPT !.pc = "prune", !.dead = days, !.history = 0,
            !.cutoff = cleaner.since - (Longer(cleaner.history, days) - 1) * Day]
    /\ UNCHANGED <<kind, now, tables, job>>

ReadDeadNoBuffer ==
    /\ cleaner.pc = "dead"
    /\ \E days \in ReadConfigInt("dead") :
         cleaner' = [cleaner EXCEPT !.pc = "prune", !.dead = days, !.history = 0,
            !.cutoff = cleaner.since - Longer(cleaner.history, days) * Day]
    /\ UNCHANGED <<kind, now, tables, job>>

ReadDead ==
    /\ cleaner.pc = "dead"
    /\ \E days \in ReadConfigInt("dead") :
         cleaner' = [cleaner EXCEPT !.pc = "prune", !.dead = days, !.history = 0,
            !.cutoff = cleaner.since - (Longer(cleaner.history, days) + 1) * Day]
    /\ UNCHANGED <<kind, now, tables, job>>

Expired == {r \in rows : r.at < cleaner.cutoff}

(* One batch: the ids come in order of insertion, so the oldest rows go     *)
(* first.  A short batch is the last.  seen forgets what was deleted on the *)
(* word of a shorter window than the one the verdict has read since.        *)
Prune ==
    /\ cleaner.pc = "prune"
    /\ \E batch \in SUBSET Expired :
         /\ \A r \in batch : \A q \in Expired \ batch : r.at <= q.at
         /\ batch = {} => Expired = {}
         /\ rows' = rows \ batch
         /\ cleaner' = IF batch = Expired THEN Asleep ELSE cleaner
         /\ job' = [w \in Workers |->
              IF cleaner.dead < job[w].days THEN [job[w] EXCEPT !.seen = @ \ batch]
                                            ELSE job[w]]
    /\ UNCHANGED <<kind, now, created, mapped, doomed, cfg>>

(* A delete fails: the run is over until the next tick of the timer.        *)
PruneFails ==
    /\ cleaner.pc = "prune"
    /\ cleaner' = Asleep
    /\ UNCHANGED <<kind, now, tables, job>>

-----------------------------------------------------------------------------
(* Surroundings *)

(* Mutant of Configure: nobody has checked the value.                       *)
ConfigureAny ==
    /\ \E k \in Windows, n \in Requested : cfg' = [cfg EXCEPT ![k] = n]
    /\ UNCHANGED <<kind, now, created, mapped, doomed, rows, job, cleaner>>

(* A config request saves one of its windows.  Which of the two and what    *)
(* about the other is open: requests overlap and fail half way, and one     *)
(* that could not read the other window was not compared with it            *)
(* (ConfigUpdate).                                                          *)
Configure ==
    /\ \E k \in Windows, n \in Requested :
         n > 0 /\ cfg' = [cfg EXCEPT ![k] = n]
    /\ UNCHANGED <<kind, now, created, mapped, doomed, rows, job, cleaner>>

(* NodePool's upserts and cleanups make and remove mappings.                *)
Remap ==
    /\ kind = "node" /\ mapped' \in (SUBSET Nodes) \ {mapped}
    /\ UNCHANGED <<kind, now, created, doomed, rows, cfg, job, cleaner>>

(* A node was found without mappings by the pool's cleanup, or has lost     *)
(* them to an administrator who deletes it: its checks are deleted next,    *)
(* whether or not it has been mapped again by then.                         *)
Doom(n) ==
    /\ kind = "node" /\ n \notin mapped \cup doomed
    /\ doomed' = doomed \cup {n}
    /\ UNCHANGED <<kind, now, created, mapped, rows, cfg, job, cleaner>>

(* No verdict counts on what was deleted with its node or its source.       *)
Delete(lost) ==
    /\ rows' = rows \ lost
    /\ job' = [w \in Workers |-> [job[w] EXCEPT !.seen = @ \ lost]]
    /\ UNCHANGED <<kind, now, created, mapped, cfg, cleaner>>

PurgeChecks(n) ==
    /\ n \in doomed
    /\ doomed' = doomed \ {n}
    /\ Delete({r \in rows : r.node = n})

(* An administrator deletes the source, the fetch history first.            *)
DeleteHistory ==
    /\ kind = "fetch" /\ rows # {}
    /\ Delete(rows)
    /\ UNCHANGED doomed

(* A goroutine has minutes (context.WithTimeout) and a pass of the cleanup  *)
(* takes about as long: the clock ticks at most once while it runs.         *)
Tick ==
    /\ now < MaxTime
    /\ \A w \in Workers : job[w].pc # "idle" => job[w].since = now
    /\ cleaner.pc # "sleep" => cleaner.since = now
    /\ now' = now + 1
    /\ UNCHANGED <<kind, tables, job, cleaner>>

Evaluate(w) ==
    \/ FindAffected(w) \/ ReadWindow(w) \/ ReadMappings(w)
    \/ ReadOldest(w) \/ ReadLatest(w) \/ ReadRows(w) \/ Count(w)
    \/ TakeReachable(w) \/ Conclude(w)

CleanupStep == Wake \/ ReadDead \/ Prune

Next ==
    \/ Report
    \/ \E w \in Workers : RecordFails(w) \/ Evaluate(w) \/ VerdictFails(w)
    \/ CleanupStep \/ PruneFails
    \/ Configure \/ Remap \/ Tick
    \/ \E n \in Nodes : Doom(n) \/ PurgeChecks(n)
    \/ DeleteHistory

Spec == Init /\ [][Next]_vars

-----------------------------------------------------------------------------
(* Properties *)

(* Every variable keeps its type.                                           *)
TypeOK ==
    /\ kind \in Kinds
    /\ now \in Times /\ created \in Created
    /\ mapped \in SUBSET Nodes /\ doomed \in SUBSET Nodes
    /\ rows \in SUBSET Rows
    /\ cfg \in [Windows -> {n \in Requested : n > 0}]
    /\ job \in [Workers ->
           [pc : {"idle", "recorded", "source", "mappings", "oldest",
                  "latest", "rows", "reachable", "verdict"},
            since : Times, down : SUBSET Nodes, days : Int, start : Int,
            seen : SUBSET Rows, nodes : SUBSET Nodes, covered : BOOLEAN,
            silent : BOOLEAN, dead : BOOLEAN]]
    /\ cleaner \in [pc : {"sleep", "dead", "prune"}, since : Times,
                    history : Int, cutoff : Int, dead : Int]

(* The cleanup deletes rows.                                                *)
Pruning == Prune /\ rows' # rows

(* What the cleanup deletes never makes a source look dead that did not     *)
(* before, whatever window not longer than the one it read is asked about   *)
(* (cleanup.go:58-60: the evaluator must not be misled by missing history). *)
CleanupCondemnsNobody ==
    [][Pruning => \A d \in 1..cleaner.dead : \A ns \in SUBSET Nodes :
           Dead(About(rows', ns), now - d * Day) => Dead(About(rows, ns), now - d * Day)]_vars

(* As long as some record of the day between cutoff and window is there,    *)
(* the cleanup does not change the verdict at all: the extra day is the     *)
(* safety buffer it claims to be (cleanup.go:60).                           *)
BufferedVerdictKept ==
    [][Pruning => \A ns \in SUBSET Nodes :
          LET start == now - cleaner.dead * Day IN
          (\E r \in About(rows, ns) : r.at >= cleaner.since - (cleaner.dead + 1) * Day /\ r.at < start)
             => (Dead(About(rows', ns), start) <=> Dead(About(rows, ns), start))]_vars

(* A source is not found dead if it has a success in the window that the    *)
(* goroutine recorded itself or that was there when the verdict began,      *)
(* whatever is inserted, pruned, remapped and configured in between; but a  *)
(* window that was raised does not bring back what the shorter one let go,  *)
(* nor does a node count whose checks were deleted with it                  *)
(* (source-management.md:39-42).                                            *)
SuccessProtects ==
    \A w \in Workers :
        job[w].pc = "verdict" /\ job[w].dead => About(job[w].seen, job[w].nodes) = {}
=============================================================================
