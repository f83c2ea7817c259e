------------------------------ MODULE NodePool ------------------------------
(***************************************************************************)
(* The node pool of paily-core and the life of a source: the fetch-result  *)
(* handler (fetcher/handler.go), the checker's dead-source evaluation      *)
(* (checker/handler.go), the administrative deletes (source/service.go,    *)
(* node/service.go) and the upsert and cleanup they share (node/upsert.go).*)
(*                                                                         *)
(* A worker is one handler goroutine.  It holds no lock: what it knows of  *)
(* the database is what its last statement returned, so every statement    *)
(* is a step of its own and any other worker may run between two of them.  *)
(* The one exception is the transaction around "find by hash, insert, map" *)
(* which is a single step when the pool has a single connection            *)
(* (SingleConn: the SQLite default, or max_open_conns = 1) and two steps   *)
(* under PostgreSQL's READ COMMITTED with several connections.             *)
(***************************************************************************)
EXTENDS Naturals, FiniteSets, FiniteSetsExt

CONSTANTS
    Sources,      \* source row ids, never reused
    Hashes,       \* values of nodes.hash
    NodeIds,      \* node row ids
    Workers,      \* handler goroutines in flight: the bound on concurrency
    None,         \* no source, no hash, no row
    SingleConn,   \* the database pool has one connection
    NodeDeletes,  \* an administrator may delete single nodes
    Flagged,      \* sources whose ignore_dead an administrator may set
    Faults        \* workers whose statements may fail, contexts expire, process stop

ASSUME NoneAssumption ==
    None \notin Sources /\ None \notin Hashes /\ None \notin NodeIds

ASSUME FlagAssumption ==
    /\ SingleConn \in BOOLEAN
    /\ NodeDeletes \in BOOLEAN /\ Flagged \subseteq Sources
    /\ Faults \subseteq Workers

VARIABLES
    status,       \* sources.status, "none" before the row and "deleted" after
    ignoreDead,   \* sources.ignore_dead
    hashOf,       \* nodes.hash, None where the nodes table has no such row
    mapping,      \* node_sources: pairs of a node id and a source id
    checks,       \* ids with rows in the check history or tag score tables
    pc,           \* the statement each worker runs next
    job,          \* the worker's local variables
    leaked,       \* history: rows without mappings that no handler will delete
    spoiled       \* history: dead sources that a report or a failed cleanup
                  \*   may leave mappings

db   == <<status, ignoreDead, hashOf, mapping, checks>>
history == <<leaked, spoiled>>
vars == <<status, ignoreDead, hashOf, mapping, checks, pc, job, history>>

nodes  == {n \in NodeIds : hashOf[n] # None}
Known  == {s \in Sources : status[s] # "none"}
Orphan(n)   == \A s \in Sources : <<n, s>> \notin mapping
MappedTo(s) == {n \in NodeIds : <<n, s>> \in mapping}

CleanLabels == {"load", "unmap", "count", "purge", "drop"}
Labels == {"idle", "guard", "old", "upsert", "finish", "stale", "staleDrop",
           "eval", "mark", "affected", "next", "delRow",
           "nodeUnmap", "nodePurge", "nodeDrop"} \cup CleanLabels

(* src: the source worked on; report: the hashes the fetcher reported and   *)
(* todo those not yet stored; cur: the hash in the open transaction; row:   *)
(* the node row in hand; old: the mappings read from the database; kept:    *)
(* newNodeIDs; queue: sources still to evaluate; ret: where the shared      *)
(* cleanup returns to.                                                      *)
Jobs == [src : Sources \cup {None}, report : SUBSET Hashes,
         todo : SUBSET Hashes, cur : Hashes \cup {None},
         row : NodeIds \cup {None}, old : SUBSET NodeIds,
         kept : SUBSET NodeIds, queue : SUBSET Sources,
         ret : {"eval", "next", "delRow"}]

NoJob == [src |-> None, report |-> {}, todo |-> {}, cur |-> None,
          row |-> None, old |-> {}, kept |-> {}, queue |-> {},
          ret |-> "next"]

Init ==
    /\ status \in [Sources -> {"none", "active"}]
    /\ ignoreDead = [s \in Sources |-> FALSE]
    /\ hashOf = [n \in NodeIds |-> None]
    /\ mapping = {}
    /\ checks = {}
    /\ pc = [w \in Workers |-> "idle"]
    /\ job = [w \in Workers |-> NoJob]
    /\ leaked = {} /\ spoiled = {}

Goto(w, label, j) == pc' = [pc EXCEPT ![w] = label] /\ job' = [job EXCEPT ![w] = j]

(* Rows the worker has unmapped, or found unmapped, and deletes next.       *)
Loose(w) ==
    {n \in NodeIds :
        \/ pc[w] \in {"staleDrop", "nodePurge", "nodeDrop"} /\ n = job[w].row
        \/ pc[w] \in {"count", "purge", "drop"} /\ n \in job[w].old}

(* A report of the source is past its guard and may still map nodes.        *)
Reporting(s) == \E w \in Workers : pc[w] \in {"old", "upsert", "finish"} /\ job[w].src = s

(* The cleanup of a condemned source that has not yet removed its mappings. *)
Uncleaned(w) == IF pc[w] \in {"load", "unmap"} /\ job[w].ret = "next"
                  THEN {job[w].src} ELSE {}

(* Row ids nothing refers to: uuid.New() draws one of these.  An id that    *)
(* nobody remembers is as good as a new one, which keeps the ids finite.    *)
Fresh ==
    {n \in NodeIds : /\ hashOf[n] = None
                     /\ Orphan(n)
                     /\ n \notin checks
                     /\ \A w \in Workers :
                          n # job[w].row /\ n \notin job[w].old \cup job[w].kept}

(* Bound: a request that may need a row id is taken only while enough ids   *)
(* are left for it and for every report in progress.                        *)
Pending == SumFunction([w \in Workers |-> Cardinality(job[w].todo)])
Room(k) == Cardinality(Fresh) >= k + Pending

-----------------------------------------------------------------------------
(* UpsertFromFetchResult *)

(* One result of a POST /fetch/results body; a source id the fetcher got    *)
(* earlier may have died or been deleted since.                             *)
FetchResult(w) ==
    /\ pc[w] = "idle"
    /\ \E s \in Known :
         \/ Goto(w, "eval", [NoJob EXCEPT !.src = s])
         \/ \E H \in SUBSET Hashes :
              /\ H # {} => Room(Cardinality(H))
              /\ Goto(w, "guard",
                      [NoJob EXCEPT !.src = s, !.report = H, !.todo = H])
    /\ UNCHANGED <<db, history>>

(* Mutant of Guard: a dead source's report is taken like any other.         *)
GuardIgnoresDead(w) ==
    /\ pc[w] = "guard"
    /\ Goto(w, "old", job[w])
    /\ UNCHANGED <<db, history>>

(* A missing source row passes the guard, and so does any source when the   *)
(* query fails.  An empty report is an empty node list, which clears the    *)
(* source, or a list with no parseable node, which goes on.                 *)
Guard(w) ==
    /\ pc[w] = "guard"
    /\ \/ /\ status[job[w].src] = "dead"
          /\ Goto(w, "eval", [NoJob EXCEPT !.src = job[w].src])
          /\ UNCHANGED history
       \/ /\ w \in Faults \/ status[job[w].src] # "dead"
          /\ \/ /\ job[w].report = {}
                /\ Goto(w, "load", [job[w] EXCEPT !.ret = "eval"])
             \/ Goto(w, "old", job[w])
          /\ spoiled' = spoiled \cup {s \in {job[w].src} : status[s] = "dead"}
          /\ UNCHANGED leaked
    /\ UNCHANGED db

Upserting(todo) == IF todo = {} THEN "stale" ELSE "upsert"

LoadOld(w) ==
    /\ pc[w] = "old"
    /\ Goto(w, Upserting(job[w].todo),
            [job[w] EXCEPT !.old = MappedTo(job[w].src)])
    /\ UNCHANGED <<db, history>>

RowsOf(h) == {n \in NodeIds : hashOf[n] = h}

(* Mutant of Stored: the row is not added to newNodeIDs.                    *)
StoredNotKept(w, h, n) ==
    /\ mapping' = mapping \cup {<<n, job[w].src>>} /\ leaked' = leaked \ {n}
    /\ Goto(w, Upserting(job[w].todo \ {h}),
            [job[w] EXCEPT !.todo = @ \ {h}, !.cur = None, !.row = None])

(* The transaction committed for hash h with row n.  A failed insert of the *)
(* mapping is ignored; only PostgreSQL then refuses to commit.              *)
Stored(w, h, n) ==
    /\ \/ mapping' = mapping \cup {<<n, job[w].src>>} /\ leaked' = leaked \ {n}
       \/ /\ w \in Faults /\ SingleConn /\ UNCHANGED mapping
          /\ leaked' = leaked \cup ({n} \ nodes)
    /\ Goto(w, Upserting(job[w].todo \ {h}),
            [job[w] EXCEPT !.todo = @ \ {h}, !.kept = @ \cup {n},
                           !.cur = None, !.row = None])

(* Mutant of UseRow: only a new row gets its mapping.                       *)
UseRowUnmapped(w, h, n) ==
    /\ Goto(w, Upserting(job[w].todo \ {h}),
            [job[w] EXCEPT !.todo = @ \ {h}, !.kept = @ \cup {n},
                           !.cur = None, !.row = None])
    /\ UNCHANGED <<db, history>>

UseRow(w, h, n) ==
    /\ Stored(w, h, n)
    /\ UNCHANGED <<status, ignoreDead, hashOf, checks, spoiled>>

InsertRow(w, h) ==
    /\ RowsOf(h) = {}
    /\ \E n \in Fresh :
         /\ hashOf' = [hashOf EXCEPT ![n] = h]
         /\ Stored(w, h, n)
    /\ UNCHANGED <<status, ignoreDead, checks, spoiled>>

(* The transaction rolled back: the node is logged, skipped and not in      *)
(* newNodeIDs.                                                              *)
SkipNode(w, h) ==
    /\ Goto(w, Upserting(job[w].todo \ {h}),
            [job[w] EXCEPT !.todo = @ \ {h}, !.cur = None, !.row = None])
    /\ UNCHANGED <<db, history>>

UpsertSerial(w) ==
    /\ SingleConn
    /\ pc[w] = "upsert"
    /\ \E h \in job[w].todo :
         \/ \E n \in RowsOf(h) : UseRow(w, h, n)
         \/ InsertRow(w, h)
         \/ w \in Faults /\ SkipNode(w, h)

(* READ COMMITTED: the SELECT sees the committed rows of its own moment.    *)
TxFind(w) ==
    /\ ~SingleConn
    /\ pc[w] = "upsert"
    /\ \E h \in job[w].todo :
         \E n \in (IF RowsOf(h) = {} THEN {None} ELSE RowsOf(h)) :
           Goto(w, "finish", [job[w] EXCEPT !.cur = h, !.row = n])
    /\ UNCHANGED <<db, history>>

(* Updating a row that is gone touches no row and is no error; inserting a  *)
(* hash that somebody else committed violates the unique index.             *)
TxFinish(w) ==
    /\ pc[w] = "finish"
    /\ \/ job[w].row # None /\ UseRow(w, job[w].cur, job[w].row)
       \/ job[w].row = None /\ InsertRow(w, job[w].cur)
       \/ /\ w \in Faults \/ (job[w].row = None /\ RowsOf(job[w].cur) # {})
          /\ SkipNode(w, job[w].cur)

Stale(w) ==
    /\ pc[w] = "stale"
    /\ \E n \in job[w].old \ job[w].kept :
         /\ mapping' = mapping \ {<<n, job[w].src>>}
         /\ Goto(w, "staleDrop", [job[w] EXCEPT !.row = n])
    /\ UNCHANGED <<status, ignoreDead, hashOf, checks, history>>

(* Mutant of DropIfOrphan: the NOT EXISTS is missing.                       *)
DropAlways(n) == hashOf' = [hashOf EXCEPT ![n] = None] /\ leaked' = leaked \ {n}

(* DELETE FROM nodes WHERE id = n AND NOT EXISTS a mapping of n.            *)
DropIfOrphan(n) ==
    IF Orphan(n) THEN hashOf' = [hashOf EXCEPT ![n] = None] /\ leaked' = leaked \ {n}
                 ELSE UNCHANGED <<hashOf, leaked>>

(* Mutants of StaleDrop: the node stays, or the loop does not advance.      *)
StaleUnmapsOnly(w) ==
    /\ pc[w] = "staleDrop"
    /\ Goto(w, "stale", [job[w] EXCEPT !.old = @ \ {job[w].row}, !.row = None])
    /\ UNCHANGED <<db, history>>
StaleRepeats(w) ==
    /\ pc[w] = "staleDrop"
    /\ DropIfOrphan(job[w].row)
    /\ Goto(w, "stale", [job[w] EXCEPT !.row = None])
    /\ UNCHANGED <<status, ignoreDead, mapping, checks, spoiled>>

StaleDrop(w) ==
    /\ pc[w] = "staleDrop"
    /\ DropIfOrphan(job[w].row)
    /\ Goto(w, "stale", [job[w] EXCEPT !.old = @ \ {job[w].row}, !.row = None])
    /\ UNCHANGED <<status, ignoreDead, mapping, checks, spoiled>>

EndStale(w) ==
    /\ pc[w] = "stale"
    /\ job[w].old \subseteq job[w].kept
    /\ Goto(w, "eval", [NoJob EXCEPT !.src = job[w].src])
    /\ UNCHANGED <<db, history>>

-----------------------------------------------------------------------------
(* CheckFetchDead, CheckNodeDead and MarkDeadAndClean *)

(* The source row is read first; the histories and mappings the verdict     *)
(* rests on are read afterwards, and the verdict is any of the two.         *)
Eval(w) ==
    /\ pc[w] = "eval"
    /\ \/ Goto(w, "next", job[w])
       \/ /\ status[job[w].src] = "active"
          /\ ~ignoreDead[job[w].src]
          /\ Goto(w, "mark", job[w])
    /\ UNCHANGED <<db, history>>

(* Mutant of MarkDead: everyone who finds the source dead cleans it.        *)
MarkDeadAgain(w) ==
    /\ pc[w] = "mark"
    /\ status' = [status EXCEPT ![job[w].src] = IF @ = "active" THEN "dead" ELSE @]
    /\ Goto(w, "load", [job[w] EXCEPT !.ret = "next"])
    /\ UNCHANGED <<ignoreDead, hashOf, mapping, checks, history>>

(* UPDATE sources SET status = 'dead' WHERE id = s AND status != 'dead':    *)
(* only the caller that changed a row goes on to the cleanup.               *)
MarkDead(w) ==
    /\ pc[w] = "mark"
    /\ LET s == job[w].src IN
         IF status[s] = "active"
         THEN /\ status' = [status EXCEPT ![s] = "dead"]
              /\ spoiled' = spoiled \cup {t \in {s} : Reporting(t)}
              /\ Goto(w, "load", [job[w] EXCEPT !.ret = "next"])
         ELSE /\ Goto(w, "next", job[w])
              /\ UNCHANGED <<status, spoiled>>
    /\ UNCHANGED <<ignoreDead, hashOf, mapping, checks, leaked>>

-----------------------------------------------------------------------------
(* removeSourceMappings *)

LoadMappings(w) ==
    /\ pc[w] = "load"
    /\ LET found == MappedTo(job[w].src) IN
         Goto(w, IF found = {} THEN job[w].ret ELSE "unmap",
              [job[w] EXCEPT !.old = found])
    /\ UNCHANGED <<db, history>>

(* Mutant of UnmapAll: deletes by the node ids it loaded.                   *)
UnmapLoaded(w) ==
    /\ pc[w] = "unmap"
    /\ mapping' = {m \in mapping : m[1] \notin job[w].old}
    /\ Goto(w, "count", job[w])
    /\ UNCHANGED <<status, ignoreDead, hashOf, checks, history>>

(* DELETE FROM node_sources WHERE source_id = s: whatever is there now, not *)
(* only what was loaded.                                                    *)
UnmapAll(w) ==
    /\ pc[w] = "unmap"
    /\ mapping' = {m \in mapping : m[2] # job[w].src}
    /\ leaked' = leaked \cup {n \in MappedTo(job[w].src) \ job[w].old : Orphan(n)'}
    /\ Goto(w, "count", job[w])
    /\ UNCHANGED <<status, ignoreDead, hashOf, checks, spoiled>>

Count(w) ==
    /\ pc[w] = "count"
    /\ \E n \in job[w].old :
         IF Orphan(n)
         THEN Goto(w, "purge", [job[w] EXCEPT !.row = n])
         ELSE Goto(w, "count", [job[w] EXCEPT !.old = @ \ {n}])
    /\ UNCHANGED <<db, history>>

(* The three DELETEs on the history and tag score tables.                   *)
Purge(w) ==
    /\ pc[w] = "purge"
    /\ checks' = checks \ {job[w].row}
    /\ Goto(w, "drop", job[w])
    /\ UNCHANGED <<status, ignoreDead, hashOf, mapping, history>>

Drop(w) ==
    /\ pc[w] = "drop"
    /\ DropIfOrphan(job[w].row)
    /\ Goto(w, "count", [job[w] EXCEPT !.old = @ \ {job[w].row}, !.row = None])
    /\ UNCHANGED <<status, ignoreDead, mapping, checks, spoiled>>

EndClean(w) ==
    /\ pc[w] = "count"
    /\ job[w].old = {}
    /\ Goto(w, job[w].ret, job[w])
    /\ UNCHANGED <<db, history>>

-----------------------------------------------------------------------------
(* The checker's goroutine, as far as it touches the pool *)

(* Check rows are inserted for whatever ids the checker sent; the rows carry *)
(* no foreign key.  dead is what batchAliveDecision returns.                *)
CheckResults(w) ==
    /\ pc[w] = "idle"
    /\ \E ids \in (SUBSET NodeIds) \ {{}} : \E dead \in SUBSET ids :
         /\ Room(Cardinality(ids \cap Fresh))
         /\ checks' = checks \cup ids
         /\ Goto(w, IF dead = {} THEN "idle" ELSE "affected",
                 [NoJob EXCEPT !.old = dead])
    /\ UNCHANGED <<status, ignoreDead, hashOf, mapping, history>>

(* Mutant of Affected: collects the node ids of the mappings.               *)
AffectedNodes(w) ==
    /\ pc[w] = "affected"
    /\ Goto(w, "next",
            [NoJob EXCEPT !.queue = {m[1] : m \in {x \in mapping : x[1] \in job[w].old}}])
    /\ UNCHANGED <<db, history>>

Affected(w) ==
    /\ pc[w] = "affected"
    /\ LET srcs == {s \in Sources : \E n \in job[w].old : <<n, s>> \in mapping}
       IN  Goto(w, "next", [NoJob EXCEPT !.queue = srcs])
    /\ UNCHANGED <<db, history>>

(* The next affected source, or the end of the handler.                     *)
NextSource(w) ==
    /\ pc[w] = "next"
    /\ \/ \E s \in job[w].queue :
            Goto(w, "eval", [NoJob EXCEPT !.src = s, !.queue = job[w].queue \ {s}])
       \/ job[w].queue = {} /\ Goto(w, "idle", NoJob)
    /\ UNCHANGED <<db, history>>

-----------------------------------------------------------------------------
(* Administration *)

CreateSource(s) ==
    /\ status[s] = "none"
    /\ status' = [status EXCEPT ![s] = "active"]
    /\ UNCHANGED <<ignoreDead, hashOf, mapping, checks, pc, job, history>>

SetIgnoreDead(s, flag) ==
    /\ s \in Flagged /\ status[s] \in {"active", "dead"}
    /\ ignoreDead' = [ignoreDead EXCEPT ![s] = flag]
    /\ UNCHANGED <<status, hashOf, mapping, checks, pc, job, history>>

DeleteSource(w) ==
    /\ pc[w] = "idle"
    /\ \E s \in Sources :
         /\ status[s] \in {"active", "dead"}
         /\ Goto(w, "load", [NoJob EXCEPT !.src = s, !.ret = "delRow"])
    /\ UNCHANGED <<db, history>>

DeleteRow(w) ==
    /\ pc[w] = "delRow"
    /\ status' = [status EXCEPT ![job[w].src] = "deleted"]
    /\ spoiled' = spoiled \ {job[w].src}
    /\ Goto(w, "idle", NoJob)
    /\ UNCHANGED <<ignoreDead, hashOf, mapping, checks, leaked>>

DeleteNode(w) ==
    /\ NodeDeletes
    /\ pc[w] = "idle"
    /\ \E n \in nodes : Goto(w, "nodeUnmap", [NoJob EXCEPT !.row = n])
    /\ UNCHANGED <<db, history>>

NodeUnmap(w) ==
    /\ pc[w] = "nodeUnmap"
    /\ mapping' = {m \in mapping : m[1] # job[w].row}
    /\ Goto(w, "nodePurge", job[w])
    /\ UNCHANGED <<status, ignoreDead, hashOf, checks, history>>

NodePurge(w) ==
    /\ pc[w] = "nodePurge"
    /\ checks' = checks \ {job[w].row}
    /\ Goto(w, "nodeDrop", job[w])
    /\ UNCHANGED <<status, ignoreDead, hashOf, mapping, history>>

NodeDrop(w) ==
    /\ pc[w] = "nodeDrop"
    /\ hashOf' = [hashOf EXCEPT ![job[w].row] = None]
    /\ leaked' = leaked \ {job[w].row}
    /\ Goto(w, "idle", NoJob)
    /\ UNCHANGED <<status, ignoreDead, mapping, checks, spoiled>>

(* doCleanup: every history row of n has passed its retention.              *)
ExpireChecks(n) ==
    /\ n \in checks
    /\ checks' = checks \ {n}
    /\ UNCHANGED <<status, ignoreDead, hashOf, mapping, pc, job, history>>

(* A statement fails and changes nothing.  The errors of the deletes and of *)
(* the count are ignored, so those handlers go on; a failed count is zero.  *)
(* The others return, to a caller that logs the error and goes on.          *)
StatementFails(w) ==
    /\ w \in Faults
    /\ \/ /\ pc[w] = "old"
          /\ Goto(w, "eval", [NoJob EXCEPT !.src = job[w].src])
       \/ /\ pc[w] = "stale"
          /\ \E n \in job[w].old \ job[w].kept :
               Goto(w, "staleDrop", [job[w] EXCEPT !.row = n])
       \/ /\ pc[w] = "staleDrop"
          /\ Goto(w, "stale", [job[w] EXCEPT !.old = @ \ {job[w].row}, !.row = None])
       \/ /\ pc[w] = "mark"
          /\ Goto(w, "next", job[w])
       \/ /\ pc[w] \in {"load", "unmap"}
          /\ Goto(w, job[w].ret, [job[w] EXCEPT !.old = {}])
       \/ /\ pc[w] = "count"
          /\ \E n \in job[w].old : Goto(w, "purge", [job[w] EXCEPT !.row = n])
       \/ /\ pc[w] = "purge"
          /\ Goto(w, "drop", job[w])
       \/ /\ pc[w] = "drop"
          /\ Goto(w, "count", [job[w] EXCEPT !.old = @ \ {job[w].row}, !.row = None])
       \/ /\ pc[w] = "nodeUnmap"
          /\ Goto(w, "nodePurge", job[w])
       \/ /\ pc[w] = "nodePurge"
          /\ Goto(w, "nodeDrop", job[w])
       \/ /\ pc[w] \in {"affected", "delRow", "nodeDrop"}
          /\ Goto(w, "idle", NoJob)
    /\ leaked' = IF pc[w] \in {"staleDrop", "drop", "nodeDrop"}
                    THEN leaked \cup {n \in Loose(w) : n = job[w].row /\ Orphan(n)}
                    ELSE leaked
    /\ spoiled' = spoiled \cup Uncleaned(w)
    /\ UNCHANGED db

(* The context expires or is cancelled, or the process stops: no further    *)
(* statement of the handler takes effect.  Nothing resumes it.              *)
Abandon(w) ==
    /\ w \in Faults
    /\ pc[w] # "idle"
    /\ leaked' = leaked \cup {n \in Loose(w) : Orphan(n)}
    /\ spoiled' = spoiled \cup Uncleaned(w)
    /\ Goto(w, "idle", NoJob)
    /\ UNCHANGED db

-----------------------------------------------------------------------------
Request(w) == FetchResult(w) \/ CheckResults(w) \/ DeleteSource(w) \/ DeleteNode(w)

Step(w) ==
    \/ Guard(w) \/ LoadOld(w) \/ UpsertSerial(w) \/ TxFind(w) \/ TxFinish(w)
    \/ Stale(w) \/ StaleDrop(w) \/ EndStale(w)
    \/ Eval(w) \/ MarkDead(w)
    \/ LoadMappings(w) \/ UnmapAll(w) \/ Count(w) \/ Purge(w) \/ Drop(w) \/ EndClean(w)
    \/ Affected(w) \/ NextSource(w)
    \/ DeleteRow(w) \/ NodeUnmap(w) \/ NodePurge(w) \/ NodeDrop(w)

Next ==
    \/ \E w \in Workers : Request(w) \/ Step(w) \/ StatementFails(w) \/ Abandon(w)
    \/ \E s \in Sources : CreateSource(s) \/ \E flag \in BOOLEAN : SetIgnoreDead(s, flag)
    \/ \E n \in NodeIds : ExpireChecks(n)

Spec == Init /\ [][Next]_vars

(* The Go scheduler and the database run every started handler to its end.  *)
FairSpec == Spec /\ \A w \in Workers : WF_vars(Step(w))

-----------------------------------------------------------------------------
(* Properties *)

(* Every variable keeps its type: the rows, mappings and histories name     *)
(* known ids and every worker is at a statement of its handler.             *)
TypeOK ==
    /\ status \in [Sources -> {"none", "active", "dead", "deleted"}]
    /\ ignoreDead \in [Sources -> BOOLEAN]
    /\ hashOf \in [NodeIds -> Hashes \cup {None}]
    /\ mapping \in SUBSET (NodeIds \X Sources)
    /\ checks \in SUBSET NodeIds
    /\ pc \in [Workers -> Labels]
    /\ job \in [Workers -> Jobs]
    /\ leaked \in SUBSET NodeIds /\ spoiled \in SUBSET Sources

(* Deduplication: two rows never hold the same node, whoever inserts it     *)
(* (nodeHash with the unique index on nodes.hash).                          *)
UniqueHash == \A m, n \in nodes : hashOf[m] = hashOf[n] => m = n

(* Every mapping points at a node row, though no foreign key says so: the   *)
(* upsert maps a row it has just seen and the cleanups delete a row only    *)
(* while nothing maps it (upsert.go:104-161).                               *)
MappingsHaveNodes == \A m \in mapping : m[1] \in nodes

(* A worker running removeSourceMappings because it condemned s.            *)
Condemning(w, s) ==
    pc[w] \in CleanLabels /\ job[w].ret = "next" /\ job[w].src = s

(* However many fetchers and checkers condemn a source at once, one of them *)
(* runs the cleanup, and only after the source stopped being active         *)
(* (MarkDeadAndClean, source/service.go:178-194).                           *)
OneCleaner ==
    \A s \in Sources : \A v, w \in Workers :
        Condemning(v, s) => /\ status[s] \in {"dead", "deleted"}
                            /\ Condemning(w, s) => v = w

(* A reported node is never lost: when the upsert is done with a hash, and  *)
(* its own statements did not fail, a row has that hash and the source maps *)
(* it, whatever other handlers do or where they stop (upsert.go:99-145).    *)
EveryReportedNodeMapped ==
    [][\A w \in Workers \ Faults : \A h \in job[w].todo \ job'[w].todo :
         pc[w] \in {"upsert", "finish"} =>
           \E n \in NodeIds : hashOf'[n] = h /\ <<n, job[w].src>> \in mapping']_vars

StalePassSpares ==
    \A w \in Workers \ Faults :
       pc[w] = "stale" /\ pc'[w] = "staleDrop" =>
         hashOf[job'[w].row] \notin job[w].report

(* The stale pass of a report unmaps no node that this report contains,     *)
(* whatever other handlers do or where they stop (upsert.go:147-153).       *)
ReportedStayMapped == [][StalePassSpares]_vars

(* A step takes node n from source s, and a step of a handler that works on *)
(* s itself or deletes n.                                                   *)
Loses(n, s) == <<n, s>> \in mapping /\ ~(<<n, s>> \in mapping' /\ n \in nodes')

OwnStep(n, s) ==
    \E w \in Workers :
       /\ pc'[w] # pc[w]
       /\ \/ pc[w] \in {"stale", "unmap"} /\ job[w].src = s
          \/ pc[w] \in {"nodeUnmap", "nodeDrop"} /\ job[w].row = n

StepKeepsOthers == \A n \in nodes, s \in Sources : Loses(n, s) => OwnStep(n, s)

(* What a handler does for one source takes nothing from another: a node    *)
(* leaves a source only by the stale pass or the cleanup of that source, or *)
(* because an administrator deletes the node.                               *)
OtherSourcesKeep == [][StepKeepsOthers]_vars

AtRest == \A w \in Workers : pc[w] = "idle"

(* Once no handler runs, every node row is referenced by a mapping: what    *)
(* lost its last source is gone (docs/node-pool.md:12), however the passes, *)
(* cleanups and reports that took and gave it its mappings overlapped.  The *)
(* exceptions: a mapping that a cleanup removed without having loaded it,   *)
(* and a row whose delete or mapping failed or was never reached.           *)
NoOrphansAtRest == AtRest => \A n \in nodes : Orphan(n) => n \in leaked

(* Once no handler runs, a dead source maps no node (upsert.go:35-37),      *)
(* unless one of its reports had passed the guard when it died, or a failed *)
(* read let one pass later, or its cleanup failed or stopped before it      *)
(* removed the mappings.                                                    *)
DeadSourcesStayEmpty ==
    AtRest => \A s \in Sources : status[s] = "dead" => MappedTo(s) = {} \/ s \in spoiled

(* Every handler that started ends, whatever the others do to the rows it   *)
(* works on: no loop waits for something another worker may undo.           *)
HandlersFinish == \A w \in Workers : pc[w] # "idle" ~> pc[w] = "idle"
=============================================================================
