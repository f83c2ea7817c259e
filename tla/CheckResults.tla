---------------------------- MODULE CheckResults ----------------------------
(***************************************************************************)
(* Checker submissions and the alive flag (checker/handler.go).  Each POST *)
(* is answered at once and processed by a goroutine of its own: it waits   *)
(* for the mutex of its tag, records its checks in one transaction, reads  *)
(* the latest checks of all tags, and writes nodes.alive in two updates.   *)
(* The mutex keeps submissions of one tag apart; nothing keeps those of    *)
(* different tags apart, and they decide on the same nodes.                *)
(*                                                                         *)
(* The dead-source evaluation that follows is part of NodePool, the cache  *)
(* rebuild part of AliveCache, and scoring touches neither checks nor the  *)
(* alive flag.                                                             *)
(***************************************************************************)

CONSTANTS
    Nodes,        \* nodes with a row throughout
    Tags,         \* checker tags
    Workers,      \* submissions in flight: the bound on concurrency
    None,         \* no tag, no holder
    Faults        \* statements may fail, contexts expire, the process stop

ASSUME FaultsAssumption == Faults \in BOOLEAN
ASSUME NoneAssumption == None \notin Tags /\ None \notin Workers

VARIABLES
    last,         \* per node and tag, the verdict of the latest initial check
    fresh,        \* node and tag pairs whose latest check is in the window
    alive,        \* nodes.alive
    holder,       \* who holds each tag's mutex
    phase,        \* where each submission's goroutine is
    work,         \* its local variables
    unsettled     \* history: nodes whose last decision overlapped that of
                  \* another tag or was not carried through

dbVars == <<last, fresh, alive>>
vars   == <<last, fresh, alive, holder, phase, work, unsettled>>

Verdicts == {"none", "up", "down"}
Deciding == {"decided", "markDead"}
Locked   == {"record", "decide", "finish"} \cup Deciding

(* up and down: the nodes the submission found reachable or not; aliveIDs   *)
(* and deadIDs: what batchAliveDecision made of them.                       *)
Works == [tag : Tags \cup {None}, up : SUBSET Nodes, down : SUBSET Nodes,
          aliveIDs : SUBSET Nodes, deadIDs : SUBSET Nodes]

NoWork == [tag |-> None, up |-> {}, down |-> {}, aliveIDs |-> {}, deadIDs |-> {}]

nodeIDs(w) == work[w].up \cup work[w].down

(* node-pool.md: alive if the latest check of some tag is a success.        *)
ReachableFrom(t) == {n \in Nodes : <<n, t>> \in fresh /\ last[n][t] = "up"}
Reachable == {n \in Nodes : \E t \in Tags : n \in ReachableFrom(t)}

(* The database the previous process left behind, decisions made or not.    *)
Init ==
    /\ last \in [Nodes -> [Tags -> Verdicts]]
    /\ fresh = {}
    /\ alive \in SUBSET Nodes
    /\ holder = [t \in Tags |-> None]
    /\ phase = [w \in Workers |-> "idle"]
    /\ work = [w \in Workers |-> NoWork]
    /\ unsettled = Nodes

Goto(w, label) == phase' = [phase EXCEPT ![w] = label]

(* Deferred: the mutex is released however the goroutine ends.              *)
Release(w) ==
    /\ holder' = [holder EXCEPT ![work[w].tag] = None]
    /\ work' = [work EXCEPT ![w] = NoWork]
    /\ Goto(w, "idle")

-----------------------------------------------------------------------------
(* PostResults; an empty submission is answered without a goroutine.        *)
Post(w) ==
    /\ phase[w] = "idle"
    /\ \E t \in Tags, up \in SUBSET Nodes : \E down \in SUBSET (Nodes \ up) :
         /\ up \cup down # {}
         /\ work' = [work EXCEPT ![w] = [NoWork EXCEPT !.tag = t, !.up = up, !.down = down]]
    /\ Goto(w, "lock")
    /\ UNCHANGED <<dbVars, holder, unsettled>>

Lock(w) ==
    /\ phase[w] = "lock"
    /\ holder[work[w].tag] = None
    /\ holder' = [holder EXCEPT ![work[w].tag] = w]
    /\ Goto(w, "record")
    /\ UNCHANGED <<dbVars, work, unsettled>>

(* Mutant of Record: the fresh checks are filed without their tag.          *)
RecordUntagged(w) ==
    /\ phase[w] = "record"
    /\ last' = last
    /\ fresh' = fresh \cup nodeIDs(w)
    /\ Goto(w, "decide")
    /\ UNCHANGED <<alive, holder, work, unsettled>>

(* Phase 1: the transaction inserts one check per node; it is the latest of *)
(* its tag, because the time is taken under the tag's mutex.                *)
Record(w) ==
    /\ phase[w] = "record"
    /\ LET t == work[w].tag IN
         /\ last' = [n \in Nodes |->
                       IF n \in nodeIDs(w)
                       THEN [last[n] EXCEPT ![t] = IF n \in work[w].up THEN "up" ELSE "down"]
                       ELSE last[n]]
         /\ fresh' = fresh \cup (nodeIDs(w) \X {t})
    /\ Goto(w, "decide")
    /\ UNCHANGED <<alive, holder, work, unsettled>>

(* Mutant of RecordFails: returns without releasing the mutex.              *)
RecordFailsLocked(w) ==
    /\ Faults
    /\ phase[w] = "record"
    /\ work' = [work EXCEPT ![w] = NoWork]
    /\ Goto(w, "idle")
    /\ UNCHANGED <<dbVars, holder, unsettled>>

RecordFails(w) ==
    /\ Faults
    /\ phase[w] = "record"
    /\ Release(w)
    /\ UNCHANGED <<dbVars, unsettled>>

Contested(w) ==
    {n \in nodeIDs(w) :
       \E v \in Workers : /\ phase[v] \in Deciding
                          /\ work[v].tag # work[w].tag
                          /\ n \in nodeIDs(v)}

(* Mutant of Decide: looks at the checks of its own tag only.               *)
DecideOwnTag(w) ==
    /\ phase[w] = "decide"
    /\ work' = [work EXCEPT ![w].aliveIDs = nodeIDs(w) \cap ReachableFrom(work[w].tag),
                            ![w].deadIDs = nodeIDs(w) \ ReachableFrom(work[w].tag)]
    /\ unsettled' = (unsettled \ nodeIDs(w)) \cup Contested(w)
    /\ Goto(w, "decided")
    /\ UNCHANGED <<dbVars, holder>>

(* Phase 2, batchAliveDecision: the query over all tags, split into those   *)
(* with a success and the rest.                                             *)
Decide(w) ==
    /\ phase[w] = "decide"
    /\ work' = [work EXCEPT ![w].aliveIDs = nodeIDs(w) \cap Reachable,
                            ![w].deadIDs = nodeIDs(w) \ Reachable]
    /\ unsettled' = (unsettled \ nodeIDs(w)) \cup Contested(w)
    /\ Goto(w, "decided")
    /\ UNCHANGED <<dbVars, holder>>

(* A failed query decides nothing and reports no dead node.                 *)
DecideFails(w) ==
    /\ Faults
    /\ phase[w] = "decide"
    /\ unsettled' = unsettled \cup nodeIDs(w)
    /\ Goto(w, "finish")
    /\ UNCHANGED <<dbVars, holder, work>>

MarkAlive(w) ==
    /\ phase[w] = "decided"
    /\ alive' = alive \cup work[w].aliveIDs
    /\ Goto(w, "markDead")
    /\ UNCHANGED <<last, fresh, holder, work, unsettled>>

MarkDead(w) ==
    /\ phase[w] = "markDead"
    /\ alive' = alive \ work[w].deadIDs
    /\ Goto(w, "finish")
    /\ UNCHANGED <<last, fresh, holder, work, unsettled>>

(* A failed update is logged, the other one still runs.                     *)
MarkFails(w) ==
    /\ Faults
    /\ \/ phase[w] = "decided" /\ Goto(w, "markDead")
       \/ phase[w] = "markDead" /\ Goto(w, "finish")
    /\ unsettled' = unsettled \cup nodeIDs(w)
    /\ UNCHANGED <<dbVars, holder, work>>

(* Phases 3 and 4, and the deferred release.                                *)
Finish(w) ==
    /\ phase[w] = "finish"
    /\ Release(w)
    /\ UNCHANGED <<dbVars, unsettled>>

(* Time passes: the latest check of t on n leaves the window.               *)
Expire(n, t) ==
    /\ fresh' = fresh \ {<<n, t>>}
    /\ UNCHANGED <<last, alive, holder, phase, work, unsettled>>

(* The process stops and starts again.  Nobody takes up the submissions     *)
(* that were recorded but not decided.                                      *)
Recorded == UNION {nodeIDs(w) : w \in {v \in Workers : phase[v] \in {"decide"} \cup Deciding}}

Restart ==
    /\ Faults
    /\ holder' = [t \in Tags |-> None]
    /\ phase' = [w \in Workers |-> "idle"]
    /\ work' = [w \in Workers |-> NoWork]
    /\ unsettled' = unsettled \cup Recorded
    /\ UNCHANGED dbVars

Step(w) ==
    \/ Record(w) \/ RecordFails(w) \/ Decide(w) \/ DecideFails(w)
    \/ MarkAlive(w) \/ MarkDead(w) \/ MarkFails(w) \/ Finish(w)

Next ==
    \/ \E w \in Workers : Post(w) \/ Lock(w) \/ Step(w)
    \/ \E n \in Nodes, t \in Tags : Expire(n, t)
    \/ Restart

Spec == Init /\ [][Next]_vars

(* A goroutine that runs goes on, and Go's mutex is handed to a waiter that *)
(* has waited long enough: whoever waits while it is free again and again   *)
(* gets it.                                                                 *)
FairSpec ==
    Spec /\ \A w \in Workers : WF_vars(Step(w)) /\ SF_vars(Lock(w))

-----------------------------------------------------------------------------
(* Properties *)

(* Every variable keeps its type, and only held mutexes have submissions    *)
(* between lock and release.                                                *)
TypeOK ==
    /\ last \in [Nodes -> [Tags -> Verdicts]]
    /\ fresh \in SUBSET (Nodes \X Tags)
    /\ alive \in SUBSET Nodes
    /\ holder \in [Tags -> Workers \cup {None}]
    /\ phase \in [Workers -> {"idle", "lock"} \cup Locked]
    /\ work \in [Workers -> Works]
    /\ unsettled \in SUBSET Nodes

(* The submissions of one tag are processed one after the other             *)
(* (checker/handler.go:51-56, 119-121).                                     *)
TagsSerialised ==
    \A v, w \in Workers :
        phase[v] \in Locked /\ phase[w] \in Locked /\ work[v].tag = work[w].tag => v = w

(* No submission is between its transaction and its last update.            *)
Undecided == {n \in Nodes : \E w \in Workers :
                phase[w] \in {"decide"} \cup Deciding /\ n \in nodeIDs(w)}

(* A node some tag has just reached is alive, and an alive node was reached *)
(* by the latest check of some tag, in the window or not, once its          *)
(* submissions are through and unless the last decision overlapped one of   *)
(* another tag or failed (docs/node-pool.md:52-55).                         *)
AliveAgrees ==
    \A n \in Nodes \ (Undecided \cup unsettled) :
        /\ n \in Reachable => n \in alive
        /\ n \in alive => \E t \in Tags : last[n][t] = "up"

(* A node that the latest check of some tag in the window reached is alive  *)
(* once its submissions are through (docs/node-pool.md:54).                 *)
ReachableIsAlive == \A n \in Reachable \ Undecided : n \in alive

(* Every accepted submission ends, whoever else wants the tag's mutex       *)
(* (checker/handler.go:118-121).                                            *)
SubmissionsEnd == \A w \in Workers : phase[w] = "lock" ~> phase[w] = "idle"
=============================================================================
