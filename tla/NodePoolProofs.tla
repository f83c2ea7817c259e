--------------------------- MODULE NodePoolProofs ---------------------------
(***************************************************************************)
(* Proofs about NodePool, for every set of sources, hashes, row ids and    *)
(* workers.  The last two sections are about what overlapping and failing   *)
(* handlers may leave behind: the history variables name every exception.  *)
(***************************************************************************)
EXTENDS NodePool, TLAPS

(* TypeOK is not inductive: an upsert writes the mapping <<row, job.src>>,  *)
(* so the induction needs to know where src and cur hold a source and a     *)
(* hash and not None.                                                       *)
SourceLabels == {"guard", "old", "upsert", "finish", "stale", "staleDrop",
                 "eval", "mark", "delRow"} \cup CleanLabels

WorkerOK(w) ==
    /\ pc[w] \in SourceLabels => job[w].src \in Sources
    /\ pc[w] = "finish" => job[w].cur \in Hashes

WorkersOK ==
    /\ pc \in [Workers -> Labels]
    /\ job \in [Workers -> Jobs]
    /\ \A w \in Workers : WorkerOK(w)

DbOK ==
    /\ status \in [Sources -> {"none", "active", "dead", "deleted"}]
    /\ ignoreDead \in [Sources -> BOOLEAN]
    /\ hashOf \in [NodeIds -> Hashes \cup {None}]
    /\ mapping \in SUBSET (NodeIds \X Sources)
    /\ checks \in SUBSET NodeIds

TypeInv == DbOK /\ WorkersOK

(* A worker that moves to a statement with the locals this statement needs  *)
(* keeps every worker well formed.                                          *)
LEMMA GotoOK ==
    ASSUME WorkersOK, NEW w \in Workers, NEW label \in Labels, NEW j \in Jobs,
           label \in SourceLabels => j.src \in Sources,
           label = "finish" => j.cur \in Hashes,
           Goto(w, label, j)
    PROVE  WorkersOK'
<1>1. pc' \in [Workers -> Labels] /\ job' \in [Workers -> Jobs]
  BY DEF Goto, WorkersOK
<1>2. ASSUME NEW v \in Workers PROVE WorkerOK(v)'
  <2>1. CASE v = w
    BY <2>1 DEF Goto, WorkersOK, WorkerOK
  <2>2. CASE v # w
    BY <2>2 DEF Goto, WorkersOK, WorkerOK
  <2> QED BY <2>1, <2>2
<1> QED BY <1>1, <1>2 DEF WorkersOK

(* Statements of the handlers that move on without writing.                 *)
LEMMA ReadsOK ==
    ASSUME TypeInv, NEW w \in Workers,
           \/ FetchResult(w) \/ Guard(w) \/ LoadOld(w) \/ TxFind(w) \/ EndStale(w)
           \/ Eval(w) \/ LoadMappings(w) \/ Count(w) \/ EndClean(w)
           \/ Affected(w) \/ NextSource(w) \/ DeleteSource(w) \/ DeleteNode(w)
           \/ Abandon(w)
    PROVE  TypeInv'
<1> USE DEF TypeInv
<1>0. UNCHANGED db => DbOK'
  BY DEF DbOK, db
<1>1. job[w] \in Jobs /\ WorkerOK(w)
  BY DEF WorkersOK
<1>2. NoJob \in Jobs
  BY DEF NoJob, Jobs
<1>3. CASE FetchResult(w)
  <2>1. PICK s \in Sources :
          \/ Goto(w, "eval", [NoJob EXCEPT !.src = s])
          \/ \E H \in SUBSET Hashes :
               Goto(w, "guard", [NoJob EXCEPT !.src = s, !.report = H, !.todo = H])
    BY <1>3 DEF FetchResult, Known
  <2>2. CASE Goto(w, "eval", [NoJob EXCEPT !.src = s])
    BY <2>2, <1>0, <1>2, <1>3, GotoOK DEF FetchResult, Labels, Jobs, NoJob
  <2>3. ASSUME NEW H \in SUBSET Hashes,
               Goto(w, "guard", [NoJob EXCEPT !.src = s, !.report = H, !.todo = H])
        PROVE  TypeInv'
    BY <2>3, <1>0, <1>2, <1>3, GotoOK DEF FetchResult, Labels, Jobs, NoJob
  <2> QED BY <2>1, <2>2, <2>3
<1>4. CASE Guard(w)
  BY <1>4, <1>0, <1>1, <1>2, GotoOK DEF Guard, Labels, CleanLabels, Jobs, WorkerOK, SourceLabels, NoJob
<1>5. CASE LoadOld(w)
  BY <1>5, <1>0, <1>1, GotoOK DEF LoadOld, Upserting, MappedTo, Labels, Jobs, WorkerOK, SourceLabels
<1>6. CASE TxFind(w)
  BY <1>6, <1>0, <1>1, GotoOK DEF TxFind, RowsOf, Labels, Jobs, WorkerOK, SourceLabels
<1>7. CASE EndStale(w)
  BY <1>7, <1>0, <1>1, <1>2, GotoOK DEF EndStale, Labels, Jobs, WorkerOK, SourceLabels, NoJob
<1>8. CASE Eval(w)
  BY <1>8, <1>0, <1>1, GotoOK DEF Eval, Labels, Jobs, WorkerOK, SourceLabels
<1>9. CASE LoadMappings(w)
  BY <1>9, <1>0, <1>1, GotoOK DEF LoadMappings, MappedTo, Labels, CleanLabels, Jobs, WorkerOK, SourceLabels
<1>10. CASE Count(w)
  BY <1>10, <1>0, <1>1, GotoOK DEF Count, Labels, CleanLabels, Jobs, WorkerOK, SourceLabels
<1>11. CASE EndClean(w)
  BY <1>11, <1>0, <1>1, GotoOK DEF EndClean, Labels, CleanLabels, Jobs, WorkerOK, SourceLabels
<1>12. CASE Affected(w)
  BY <1>12, <1>0, <1>1, <1>2, GotoOK DEF Affected, Labels, Jobs, SourceLabels, CleanLabels, NoJob
<1>13. CASE NextSource(w)
  BY <1>13, <1>0, <1>1, <1>2, GotoOK DEF NextSource, Labels, Jobs, SourceLabels, CleanLabels, NoJob
<1>14. CASE DeleteSource(w)
  BY <1>14, <1>0, <1>1, <1>2, GotoOK DEF DeleteSource, Labels, Jobs, SourceLabels, CleanLabels, NoJob
<1>15. CASE DeleteNode(w)
  BY <1>15, <1>0, <1>1, <1>2, GotoOK DEF DeleteNode, nodes, Labels, Jobs, SourceLabels, CleanLabels, NoJob
<1>16. CASE Abandon(w)
  BY <1>16, <1>0, <1>1, <1>2, GotoOK DEF Abandon, Labels, Jobs, SourceLabels, CleanLabels, NoJob
<1> QED
  BY <1>3, <1>4, <1>5, <1>6, <1>7, <1>8, <1>9, <1>10, <1>11, <1>12, <1>13,
     <1>14, <1>15, <1>16

(* The statements that write.                                               *)
LEMMA WritesOK ==
    ASSUME TypeInv, NEW w \in Workers,
           \/ UpsertSerial(w) \/ TxFinish(w) \/ Stale(w) \/ StaleDrop(w)
           \/ MarkDead(w) \/ UnmapAll(w) \/ Purge(w) \/ Drop(w)
           \/ CheckResults(w) \/ DeleteRow(w)
           \/ NodeUnmap(w) \/ NodePurge(w) \/ NodeDrop(w)
    PROVE  TypeInv'
<1> USE DEF TypeInv, DbOK
<1>1. job[w] \in Jobs /\ WorkerOK(w)
  BY DEF WorkersOK
<1>2. NoJob \in Jobs
  BY DEF NoJob, Jobs
<1>3. ASSUME NEW h \in Hashes, NEW n \in NodeIds, job[w].src \in Sources, Stored(w, h, n)
      PROVE  WorkersOK' /\ mapping' \in SUBSET (NodeIds \X Sources)
  <2> DEFINE label == Upserting(job[w].todo \ {h})
             j == [job[w] EXCEPT !.todo = @ \ {h}, !.kept = @ \cup {n},
                                 !.cur = None, !.row = None]
  <2>1. j \in Jobs /\ j.src = job[w].src
    BY <1>1 DEF Jobs
  <2>2. label \in {"stale", "upsert"}
    BY DEF Upserting
  <2>3. Goto(w, label, j)
    BY <1>3 DEF Stored
  <2>4. WorkersOK'
    BY <1>3, <2>1, <2>2, <2>3, GotoOK DEF Labels
  <2> QED BY <1>3, <2>4 DEF Stored
<1>4. ASSUME NEW h \in Hashes, job[w].src \in Sources, InsertRow(w, h)
      PROVE  TypeInv'
  <2>1. PICK n \in NodeIds : hashOf' = [hashOf EXCEPT ![n] = h] /\ Stored(w, h, n)
    BY <1>4 DEF InsertRow, Fresh
  <2> QED BY <2>1, <1>3, <1>4 DEF InsertRow
<1>5. ASSUME NEW h \in Hashes, NEW n \in NodeIds, job[w].src \in Sources, UseRow(w, h, n)
      PROVE  TypeInv'
  BY <1>3, <1>5 DEF UseRow
<1>6. ASSUME NEW h \in Hashes, job[w].src \in Sources, SkipNode(w, h)
      PROVE  TypeInv'
  BY <1>6, <1>1, GotoOK DEF SkipNode, db, Upserting, Labels, Jobs, SourceLabels
<1>7. CASE UpsertSerial(w)
  BY <1>7, <1>1, <1>4, <1>5, <1>6 DEF UpsertSerial, RowsOf, WorkerOK, SourceLabels, Jobs
<1>8. CASE TxFinish(w)
  BY <1>8, <1>1, <1>4, <1>5, <1>6 DEF TxFinish, WorkerOK, SourceLabels, Jobs
<1>9. CASE Stale(w)
  BY <1>9, <1>1, GotoOK DEF Stale, WorkerOK, SourceLabels, Labels, Jobs
<1>10. CASE StaleDrop(w)
  <2>1. DbOK'
    BY <1>10 DEF StaleDrop, DropIfOrphan
  <2> DEFINE j == [job[w] EXCEPT !.old = @ \ {job[w].row}, !.row = None]
  <2>2. j \in Jobs /\ j.src = job[w].src
    BY <1>1 DEF Jobs
  <2>3. Goto(w, "stale", j) /\ job[w].src \in Sources
    BY <1>10, <1>1 DEF StaleDrop, WorkerOK, SourceLabels, CleanLabels
  <2> HIDE DEF j
  <2>4. WorkersOK'
    BY <2>2, <2>3, GotoOK DEF Labels, CleanLabels
  <2> QED BY <2>1, <2>4
<1>11. CASE MarkDead(w)
  BY <1>11, <1>1, GotoOK DEF MarkDead, WorkerOK, SourceLabels, CleanLabels, Labels, Jobs
<1>12. CASE UnmapAll(w)
  BY <1>12, <1>1, GotoOK DEF UnmapAll, WorkerOK, SourceLabels, CleanLabels, Labels, Jobs
<1>13. CASE Purge(w)
  BY <1>13, <1>1, GotoOK DEF Purge, WorkerOK, SourceLabels, CleanLabels, Labels, Jobs
<1>14. CASE Drop(w)
  <2>1. DbOK'
    BY <1>14 DEF Drop, DropIfOrphan
  <2> DEFINE j == [job[w] EXCEPT !.old = @ \ {job[w].row}, !.row = None]
  <2>2. j \in Jobs /\ j.src = job[w].src
    BY <1>1 DEF Jobs
  <2>3. Goto(w, "count", j) /\ job[w].src \in Sources
    BY <1>14, <1>1 DEF Drop, WorkerOK, SourceLabels, CleanLabels
  <2> HIDE DEF j
  <2>4. WorkersOK'
    BY <2>2, <2>3, GotoOK DEF Labels, CleanLabels
  <2> QED BY <2>1, <2>4
<1>15. CASE CheckResults(w)
  BY <1>15, <1>2, GotoOK DEF CheckResults, SourceLabels, CleanLabels, Labels, Jobs, NoJob
<1>16. CASE DeleteRow(w)
  BY <1>16, <1>1, <1>2, GotoOK DEF DeleteRow, SourceLabels, CleanLabels, Labels, Jobs, NoJob
<1>17. CASE NodeUnmap(w)
  BY <1>17, <1>1, GotoOK DEF NodeUnmap, SourceLabels, CleanLabels, Labels, Jobs
<1>18. CASE NodePurge(w)
  BY <1>18, <1>1, GotoOK DEF NodePurge, SourceLabels, CleanLabels, Labels, Jobs
<1>19. CASE NodeDrop(w)
  BY <1>19, <1>1, <1>2, GotoOK DEF NodeDrop, SourceLabels, CleanLabels, Labels, Jobs, NoJob
<1> QED
  BY <1>7, <1>8, <1>9, <1>10, <1>11, <1>12, <1>13, <1>14, <1>15, <1>16, <1>17,
     <1>18, <1>19

(* A statement that fails moves on and writes nothing.                      *)
LEMMA FailuresOK ==
    ASSUME TypeInv, NEW w \in Workers, StatementFails(w)
    PROVE  TypeInv'
<1> USE DEF TypeInv
<1>1. DbOK'
  BY DEF StatementFails, DbOK, db
<1>2. job[w] \in Jobs /\ WorkerOK(w)
  BY DEF WorkersOK
<1>3. NoJob \in Jobs
  BY DEF NoJob, Jobs
<1>4. CASE pc[w] = "old" /\ Goto(w, "eval", [NoJob EXCEPT !.src = job[w].src])
  BY <1>1, <1>2, <1>3, <1>4, GotoOK DEF Labels, Jobs, WorkerOK, SourceLabels, NoJob
<1>5. CASE /\ pc[w] = "stale"
           /\ \E n \in job[w].old \ job[w].kept :
                Goto(w, "staleDrop", [job[w] EXCEPT !.row = n])
  BY <1>1, <1>2, <1>5, GotoOK DEF Labels, Jobs, WorkerOK, SourceLabels
<1>6. CASE /\ pc[w] = "staleDrop"
           /\ Goto(w, "stale", [job[w] EXCEPT !.old = @ \ {job[w].row}, !.row = None])
  BY <1>1, <1>2, <1>6, GotoOK DEF Labels, Jobs, WorkerOK, SourceLabels
<1>7. CASE pc[w] = "mark" /\ Goto(w, "next", job[w])
  BY <1>1, <1>2, <1>7, GotoOK DEF Labels, CleanLabels, SourceLabels
<1>8. CASE /\ pc[w] \in {"load", "unmap"}
           /\ Goto(w, job[w].ret, [job[w] EXCEPT !.old = {}])
  BY <1>1, <1>2, <1>8, GotoOK DEF Labels, CleanLabels, Jobs, WorkerOK, SourceLabels
<1>9. CASE /\ pc[w] = "count"
           /\ \E n \in job[w].old : Goto(w, "purge", [job[w] EXCEPT !.row = n])
  BY <1>1, <1>2, <1>9, GotoOK DEF Labels, CleanLabels, Jobs, WorkerOK, SourceLabels
<1>10. CASE pc[w] = "purge" /\ Goto(w, "drop", job[w])
  BY <1>1, <1>2, <1>10, GotoOK DEF Labels, CleanLabels, WorkerOK, SourceLabels
<1>11. CASE /\ pc[w] = "drop"
            /\ Goto(w, "count", [job[w] EXCEPT !.old = @ \ {job[w].row}, !.row = None])
  BY <1>1, <1>2, <1>11, GotoOK DEF Labels, CleanLabels, Jobs, WorkerOK, SourceLabels
<1>12. CASE \/ Goto(w, "nodePurge", job[w])
            \/ Goto(w, "nodeDrop", job[w])
            \/ Goto(w, "idle", NoJob)
  BY <1>1, <1>2, <1>3, <1>12, GotoOK DEF Labels, CleanLabels, SourceLabels
<1> QED
  BY <1>4, <1>5, <1>6, <1>7, <1>8, <1>9, <1>10, <1>11, <1>12 DEF StatementFails

LEMMA TypeInvInductive == TypeInv /\ [Next]_vars => TypeInv'
<1> SUFFICES ASSUME TypeInv, [Next]_vars PROVE TypeInv'
  OBVIOUS
<1>1. ASSUME NEW w \in Workers, Request(w) \/ Step(w) \/ StatementFails(w) \/ Abandon(w)
      PROVE  TypeInv'
  BY <1>1, ReadsOK, WritesOK, FailuresOK DEF Request, Step
<1>2. ASSUME NEW s \in Sources,
             CreateSource(s) \/ \E flag \in BOOLEAN : SetIgnoreDead(s, flag)
      PROVE  TypeInv'
  BY <1>2 DEF CreateSource, SetIgnoreDead, TypeInv, DbOK, WorkersOK, WorkerOK
<1>3. ASSUME NEW n \in NodeIds, ExpireChecks(n)
      PROVE  TypeInv'
  BY <1>3 DEF ExpireChecks, TypeInv, DbOK, WorkersOK, WorkerOK
<1>4. CASE UNCHANGED vars
  BY <1>4 DEF vars, TypeInv, DbOK, WorkersOK, WorkerOK
<1> QED
  BY <1>1, <1>2, <1>3, <1>4 DEF Next

HistoryOK == leaked \in SUBSET NodeIds /\ spoiled \in SUBSET Sources

LEMMA HistoryInductive == TypeInv /\ HistoryOK /\ [Next]_vars => HistoryOK'
<1> SUFFICES ASSUME TypeInv, HistoryOK, [Next]_vars PROVE HistoryOK'
  OBVIOUS
<1> USE DEF HistoryOK
<1>1. UNCHANGED history => HistoryOK'
  BY DEF history
<1>2. ASSUME NEW w \in Workers, Step(w) PROVE HistoryOK'
  <2>1. job[w] \in Jobs /\ WorkerOK(w)
    BY DEF TypeInv, WorkersOK
  <2>2. CASE UpsertSerial(w) \/ TxFinish(w)
    <3>1. ASSUME NEW h, NEW n \in NodeIds, Stored(w, h, n), spoiled' = spoiled PROVE HistoryOK'
      BY <3>1 DEF Stored
    <3>2. ASSUME NEW h, InsertRow(w, h) PROVE HistoryOK'
      <4>1. PICK n \in NodeIds : Stored(w, h, n)
        BY <3>2 DEF InsertRow, Fresh
      <4> QED BY <3>1, <3>2, <4>1 DEF InsertRow
    <3>3. ASSUME NEW h, NEW n \in NodeIds, UseRow(w, h, n) PROVE HistoryOK'
      BY <3>1, <3>3 DEF UseRow
    <3>4. ASSUME NEW h, SkipNode(w, h) PROVE HistoryOK'
      BY <1>1, <3>4 DEF SkipNode
    <3> QED BY <2>1, <2>2, <3>2, <3>3, <3>4 DEF UpsertSerial, TxFinish, RowsOf, Jobs
  <2>3. CASE Guard(w)
    <3>1. job[w].src \in Sources
      BY <2>1, <2>3 DEF Guard, WorkerOK, SourceLabels
    <3> QED BY <1>1, <2>3, <3>1 DEF Guard, history
  <2>4. CASE MarkDead(w)
    <3>1. job[w].src \in Sources
      BY <2>1, <2>4 DEF MarkDead, WorkerOK, SourceLabels
    <3> QED BY <2>4, <3>1 DEF MarkDead
  <2>5. CASE UnmapAll(w)
    BY <2>5 DEF UnmapAll, MappedTo
  <2>6. CASE StaleDrop(w) \/ Drop(w) \/ NodeDrop(w) \/ DeleteRow(w)
    BY <2>6 DEF StaleDrop, Drop, NodeDrop, DeleteRow, DropIfOrphan
  <2> QED
    BY <1>1, <1>2, <2>2, <2>3, <2>4, <2>5, <2>6 DEF Step, LoadOld, TxFind, Stale, EndStale, Eval,
       LoadMappings, Count, Purge, EndClean, Affected, NextSource, NodeUnmap, NodePurge
<1>3. ASSUME NEW w \in Workers, StatementFails(w) \/ Abandon(w) PROVE HistoryOK'
  <2>1. job[w] \in Jobs /\ WorkerOK(w) /\ pc[w] \in Labels
    BY DEF TypeInv, WorkersOK
  <2>2. Uncleaned(w) \in SUBSET Sources
    BY <2>1 DEF Uncleaned, WorkerOK, SourceLabels, CleanLabels
  <2>3. CASE Abandon(w)
    BY <2>2, <2>3 DEF Abandon, Loose
  <2>4. CASE StatementFails(w)
    BY <2>2, <2>4 DEF StatementFails, Loose
  <2> QED BY <1>3, <2>3, <2>4
<1>4. ASSUME NEW w \in Workers, Request(w) PROVE HistoryOK'
  BY <1>1, <1>4 DEF Request, FetchResult, CheckResults, DeleteSource, DeleteNode
<1>5. ASSUME NEW s \in Sources, CreateSource(s) \/ \E flag \in BOOLEAN : SetIgnoreDead(s, flag)
      PROVE  HistoryOK'
  BY <1>1, <1>5 DEF CreateSource, SetIgnoreDead
<1>6. ASSUME NEW n \in NodeIds, ExpireChecks(n) PROVE HistoryOK'
  BY <1>1, <1>6 DEF ExpireChecks
<1>7. CASE UNCHANGED vars
  BY <1>1, <1>7 DEF vars
<1> QED BY <1>2, <1>3, <1>4, <1>5, <1>6, <1>7 DEF Next

(* Whatever the workers interleave, every variable keeps its type.          *)
THEOREM TypeCorrect == Spec => []TypeOK
<1>1. Init => TypeInv /\ HistoryOK
  BY DEF Init, TypeInv, DbOK, WorkersOK, WorkerOK, Labels, Jobs, NoJob, SourceLabels, CleanLabels,
     HistoryOK
<1>2. TypeInv /\ HistoryOK => TypeOK
  BY DEF TypeInv, HistoryOK, DbOK, WorkersOK, TypeOK
<1> QED
  BY <1>1, <1>2, TypeInvInductive, HistoryInductive, PTL DEF Spec

-----------------------------------------------------------------------------
(* Only an insert gives a row a hash, and it takes a row id nobody refers   *)
(* to and a hash no row holds.                                              *)
LEMMA HashChanges ==
    ASSUME TypeInv, [Next]_vars
    PROVE  \/ \A n \in NodeIds : hashOf'[n] \in {hashOf[n], None}
           \/ \E n \in Fresh, h \in Hashes :
                RowsOf(h) = {} /\ hashOf' = [hashOf EXCEPT ![n] = h]
<1> USE DEF TypeInv, DbOK
<1> DEFINE Kept == \A n \in NodeIds : hashOf'[n] \in {hashOf[n], None}
           Inserted == \E n \in Fresh, h \in Hashes :
                         RowsOf(h) = {} /\ hashOf' = [hashOf EXCEPT ![n] = h]
<1>0. UNCHANGED hashOf => Kept
  OBVIOUS
<1>1. ASSUME NEW w \in Workers, Request(w) \/ StatementFails(w) \/ Abandon(w) PROVE Kept
  BY <1>1, <1>0 DEF Request, StatementFails, Abandon, FetchResult, CheckResults, DeleteSource, DeleteNode, db
<1>2. ASSUME NEW w \in Workers, UpsertSerial(w) \/ TxFinish(w) PROVE Kept \/ Inserted
  <2>1. ASSUME NEW h \in Hashes, NEW n, UseRow(w, h, n) PROVE Kept
    BY <2>1, <1>0 DEF UseRow
  <2>2. ASSUME NEW h \in Hashes, SkipNode(w, h) PROVE Kept
    BY <2>2, <1>0 DEF SkipNode, db
  <2>3. ASSUME NEW h \in Hashes, InsertRow(w, h) PROVE Inserted
    BY <2>3 DEF InsertRow
  <2>4. job[w] \in Jobs /\ WorkerOK(w)
    BY DEF WorkersOK
  <2>5. CASE UpsertSerial(w)
    BY <2>1, <2>2, <2>3, <2>4, <2>5 DEF UpsertSerial, Jobs
  <2>6. CASE TxFinish(w)
    BY <2>1, <2>2, <2>3, <2>4, <2>6 DEF TxFinish, WorkerOK
  <2> QED BY <1>2, <2>5, <2>6
<1>3. ASSUME NEW w \in Workers, StaleDrop(w) \/ Drop(w) \/ NodeDrop(w) PROVE Kept
  BY <1>3 DEF StaleDrop, Drop, NodeDrop, DropIfOrphan
<1>4. ASSUME NEW w \in Workers,
             \/ Guard(w) \/ LoadOld(w) \/ TxFind(w) \/ Stale(w) \/ EndStale(w)
             \/ Eval(w) \/ MarkDead(w) \/ LoadMappings(w) \/ UnmapAll(w)
             \/ Count(w) \/ Purge(w) \/ EndClean(w) \/ Affected(w)
             \/ NextSource(w) \/ DeleteRow(w) \/ NodeUnmap(w) \/ NodePurge(w)
      PROVE  Kept
  BY <1>4, <1>0 DEF Guard, LoadOld, TxFind, Stale, EndStale, Eval, MarkDead,
     LoadMappings, UnmapAll, Count, Purge, EndClean, Affected, NextSource,
     DeleteRow, NodeUnmap, NodePurge, db
<1>5. ASSUME NEW s \in Sources,
             CreateSource(s) \/ \E flag \in BOOLEAN : SetIgnoreDead(s, flag)
      PROVE  Kept
  BY <1>5, <1>0 DEF CreateSource, SetIgnoreDead
<1>6. ASSUME NEW n \in NodeIds, ExpireChecks(n) PROVE Kept
  BY <1>6, <1>0 DEF ExpireChecks
<1>7. CASE UNCHANGED vars
  BY <1>7, <1>0 DEF vars
<1> QED
  BY <1>1, <1>2, <1>3, <1>4, <1>5, <1>6, <1>7 DEF Next, Step

LEMMA UniqueHashStep ==
    ASSUME TypeInv, UniqueHash, [Next]_vars
    PROVE  UniqueHash'
<1>1. CASE \A n \in NodeIds : hashOf'[n] \in {hashOf[n], None}
  BY <1>1 DEF UniqueHash, nodes
<1>2. ASSUME NEW n \in Fresh, NEW h \in Hashes, RowsOf(h) = {},
             hashOf' = [hashOf EXCEPT ![n] = h]
      PROVE  UniqueHash'
  BY <1>2 DEF UniqueHash, nodes, RowsOf, Fresh, TypeInv, DbOK
<1> QED BY <1>1, <1>2, HashChanges

(* No interleaving of the inserts makes two rows of one node.               *)
THEOREM NodesAreUnique == Spec => []UniqueHash
<1>1. Init => TypeInv /\ UniqueHash
  BY DEF Init, TypeInv, DbOK, WorkersOK, WorkerOK, Labels, Jobs, NoJob,
         SourceLabels, CleanLabels, UniqueHash, nodes
<1>2. TypeInv /\ UniqueHash /\ [Next]_vars => UniqueHash'
  BY UniqueHashStep
<1> QED
  BY <1>1, <1>2, TypeInvInductive, PTL DEF Spec

-----------------------------------------------------------------------------
(* A step that is not the conditional UPDATE of MarkDead starts nobody's    *)
(* cleanup of a condemned source and revives no source.                     *)
LEMMA NoNewCleaner ==
    ASSUME TypeInv, [Next]_vars, NEW s \in Sources,
           \A w \in Workers : ~MarkDead(w)
    PROVE  /\ \A v \in Workers : Condemning(v, s)' => Condemning(v, s)
           /\ status[s] \in {"dead", "deleted"} => status'[s] \in {"dead", "deleted"}
<1> DEFINE Same == /\ \A v \in Workers : Condemning(v, s)' => Condemning(v, s)
                   /\ status[s] \in {"dead", "deleted"} => status'[s] \in {"dead", "deleted"}
<1> USE DEF TypeInv, DbOK, WorkersOK
<1>0. ASSUME NEW w \in Workers, NEW label, NEW j, Goto(w, label, j),
             UNCHANGED status \/ status' = [status EXCEPT ![job[w].src] = "deleted"],
             \/ label \notin CleanLabels
             \/ j.ret # "next"
             \/ pc[w] \in CleanLabels /\ j.ret = job[w].ret /\ j.src = job[w].src
      PROVE  Same
  BY <1>0 DEF Goto, Condemning
<1>1. ASSUME NEW w \in Workers, Request(w) \/ Abandon(w) PROVE Same
  BY <1>1, <1>0 DEF Request, Abandon, FetchResult, CheckResults, DeleteSource, DeleteNode,
     db, CleanLabels, NoJob
<1>8. ASSUME NEW w \in Workers, StatementFails(w) PROVE Same
  <2>1. UNCHANGED status
    BY <1>8 DEF StatementFails, db
  <2>2. CASE /\ pc[w] \in {"load", "unmap"}
             /\ Goto(w, job[w].ret, [job[w] EXCEPT !.old = {}])
    <3>1. job[w].ret \notin CleanLabels
      BY DEF Jobs, CleanLabels
    <3> QED BY <1>0, <2>1, <2>2, <3>1
  <2>3. CASE /\ pc[w] = "count"
             /\ \E n \in job[w].old : Goto(w, "purge", [job[w] EXCEPT !.row = n])
    <3>1. PICK n \in job[w].old : Goto(w, "purge", [job[w] EXCEPT !.row = n])
      BY <2>3
    <3> DEFINE j == [job[w] EXCEPT !.row = n]
    <3>2. j.ret = job[w].ret /\ j.src = job[w].src
      BY DEF Jobs
    <3> QED BY <1>0, <2>1, <2>3, <3>1, <3>2 DEF CleanLabels
  <2>4. CASE pc[w] = "purge" /\ Goto(w, "drop", job[w])
    BY <1>0, <2>1, <2>4 DEF CleanLabels
  <2>5. CASE /\ pc[w] = "drop"
             /\ Goto(w, "count", [job[w] EXCEPT !.old = @ \ {job[w].row}, !.row = None])
    <3> DEFINE j == [job[w] EXCEPT !.old = @ \ {job[w].row}, !.row = None]
    <3>1. j.ret = job[w].ret /\ j.src = job[w].src
      BY DEF Jobs
    <3> QED BY <1>0, <2>1, <2>5, <3>1 DEF CleanLabels
  <2>6. ASSUME NEW label, NEW j, Goto(w, label, j), label \notin CleanLabels
        PROVE  Same
    BY <1>0, <2>1, <2>6
  <2>7. CASE \E label \in {"eval", "staleDrop", "stale", "next", "nodePurge", "nodeDrop", "idle"} :
               \E j : Goto(w, label, j)
    BY <2>6, <2>7 DEF CleanLabels
  <2> QED
    BY <1>8, <2>2, <2>3, <2>4, <2>5, <2>7 DEF StatementFails
<1>2. ASSUME NEW w \in Workers, UpsertSerial(w) \/ TxFind(w) \/ TxFinish(w) PROVE Same
  <2>1. ASSUME NEW h, NEW n, Stored(w, h, n), UNCHANGED status PROVE Same
    BY <2>1, <1>0 DEF Stored, Upserting, CleanLabels
  <2>2. ASSUME NEW h, SkipNode(w, h) PROVE Same
    BY <2>2, <1>0 DEF SkipNode, Upserting, CleanLabels, db
  <2>3. CASE TxFind(w)
    BY <2>3, <1>0 DEF TxFind, CleanLabels, db
  <2> QED BY <1>2, <2>1, <2>2, <2>3 DEF UpsertSerial, TxFinish, UseRow, InsertRow
<1>3. ASSUME NEW w \in Workers,
             \/ Guard(w) \/ LoadOld(w) \/ Stale(w) \/ StaleDrop(w) \/ EndStale(w)
             \/ Eval(w) \/ Affected(w) \/ NextSource(w) \/ DeleteRow(w)
             \/ NodeUnmap(w) \/ NodePurge(w) \/ NodeDrop(w)
      PROVE  Same
  BY <1>3, <1>0 DEF Guard, LoadOld, Stale, StaleDrop, EndStale, Eval, Affected,
     NextSource, DeleteRow, NodeUnmap, NodePurge, NodeDrop, Upserting, CleanLabels,
     Jobs, db
<1>4. ASSUME NEW w \in Workers,
             LoadMappings(w) \/ UnmapAll(w) \/ Count(w) \/ Purge(w) \/ Drop(w) \/ EndClean(w)
      PROVE  Same
  BY <1>4, <1>0 DEF LoadMappings, UnmapAll, Count, Purge, Drop, EndClean, CleanLabels,
     Jobs, db
<1>5. ASSUME NEW t \in Sources,
             CreateSource(t) \/ \E flag \in BOOLEAN : SetIgnoreDead(t, flag)
      PROVE  Same
  BY <1>5 DEF CreateSource, SetIgnoreDead, Condemning
<1>6. ASSUME NEW n \in NodeIds, ExpireChecks(n) PROVE Same
  BY <1>6 DEF ExpireChecks, Condemning
<1>7. CASE UNCHANGED vars
  BY <1>7 DEF vars, Condemning
<1> QED
  BY <1>1, <1>2, <1>3, <1>4, <1>5, <1>6, <1>7, <1>8 DEF Next, Step

(* A condemned source is cleaned by the one worker whose UPDATE changed its *)
(* row, whoever else condemned it meanwhile.                                *)
THEOREM OneCleanerAtATime == Spec => []OneCleaner
<1>1. Init => TypeInv /\ OneCleaner
  BY DEF Init, TypeInv, DbOK, WorkersOK, WorkerOK, Labels, Jobs, NoJob,
         SourceLabels, CleanLabels, OneCleaner, Condemning
<1>2. ASSUME TypeInv, OneCleaner, [Next]_vars PROVE OneCleaner'
  <2>1. CASE \A w \in Workers : ~MarkDead(w)
    BY <1>2, <2>1, NoNewCleaner DEF OneCleaner
  <2>2. ASSUME NEW w \in Workers, MarkDead(w) PROVE OneCleaner'
    <3>1. CASE status[job[w].src] = "active"
      BY <1>2, <2>2, <3>1 DEF MarkDead, Goto, OneCleaner, Condemning, CleanLabels,
         TypeInv, DbOK, WorkersOK, Jobs
    <3>2. CASE status[job[w].src] # "active"
      BY <1>2, <2>2, <3>2 DEF MarkDead, Goto, OneCleaner, Condemning, CleanLabels,
         TypeInv, DbOK, WorkersOK
    <3> QED BY <3>1, <3>2
  <2> QED BY <2>1, <2>2
<1> QED
  BY <1>1, <1>2, TypeInvInductive, PTL DEF Spec

-----------------------------------------------------------------------------
(* With one connection no transaction is ever half done, and without node   *)
(* deletes no handler is between the statements of one.                     *)
SerialPC ==
    \A w \in Workers : pc[w] \notin {"finish", "nodeUnmap", "nodePurge", "nodeDrop"}

(* With one connection, every mapping written is to a row of the same step, *)
(* and a row is deleted only while nothing maps it.                         *)
THEOREM MappedNodesExist ==
    SingleConn /\ ~NodeDeletes => (Spec => []MappingsHaveNodes)
<1> SUFFICES ASSUME SingleConn, ~NodeDeletes PROVE Spec => []MappingsHaveNodes
  OBVIOUS
<1> DEFINE Inv == SerialPC /\ MappingsHaveNodes
<1>1. Init => TypeInv /\ Inv
  BY DEF Init, TypeInv, DbOK, WorkersOK, WorkerOK, Labels, Jobs, NoJob,
         SourceLabels, CleanLabels, SerialPC, MappingsHaveNodes
<1>2. ASSUME TypeInv, Inv, [Next]_vars PROVE Inv'
  <2> USE <1>2 DEF TypeInv, DbOK, WorkersOK
  <2>0. ASSUME NEW w \in Workers, NEW label, NEW j, Goto(w, label, j),
               label \notin {"finish", "nodeUnmap", "nodePurge", "nodeDrop"}
        PROVE  SerialPC'
    BY <2>0 DEF Goto, SerialPC
  <2>1. ASSUME mapping' \subseteq mapping,
               \A n \in NodeIds : hashOf'[n] = hashOf[n] \/ Orphan(n)
        PROVE  MappingsHaveNodes'
    BY <2>1 DEF MappingsHaveNodes, nodes, Orphan
  <2>11. UNCHANGED <<hashOf, mapping>> => MappingsHaveNodes'
    BY DEF MappingsHaveNodes, nodes
  <2>2. ASSUME NEW w \in Workers, Request(w) \/ Abandon(w) PROVE Inv'
    <3>1. SerialPC'
      BY <2>2 DEF Request, Abandon, FetchResult, CheckResults, DeleteSource,
         DeleteNode, Goto, SerialPC
    <3>2. UNCHANGED <<hashOf, mapping>>
      BY <2>2 DEF Request, Abandon, FetchResult, CheckResults, DeleteSource,
         DeleteNode, db
    <3> QED BY <3>1, <3>2, <2>11
  <2>12. ASSUME NEW w \in Workers, StatementFails(w) PROVE Inv'
    <3>1. SerialPC'
      BY <2>12 DEF StatementFails, Goto, SerialPC, Jobs
    <3>2. UNCHANGED <<hashOf, mapping>>
      BY <2>12 DEF StatementFails, db
    <3> QED BY <3>1, <3>2, <2>11
  <2>3. ASSUME NEW w \in Workers, UpsertSerial(w) PROVE Inv'
    <3>1. PICK h \in job[w].todo : \/ \E n \in RowsOf(h) : UseRow(w, h, n)
                                   \/ InsertRow(w, h)
                                   \/ SkipNode(w, h)
      BY <2>3 DEF UpsertSerial
    <3>2. h \in Hashes /\ Upserting(job[w].todo \ {h}) \in {"stale", "upsert"}
      BY DEF Jobs, Upserting
    <3>3. ASSUME NEW n \in RowsOf(h), UseRow(w, h, n) PROVE Inv'
      BY <2>0, <3>2, <3>3, NoneAssumption
         DEF UseRow, Stored, RowsOf, MappingsHaveNodes, nodes
    <3>4. ASSUME NEW n \in Fresh, hashOf' = [hashOf EXCEPT ![n] = h], Stored(w, h, n)
          PROVE  Inv'
      BY <2>0, <3>2, <3>4, NoneAssumption
         DEF Stored, Fresh, MappingsHaveNodes, nodes
    <3>5. CASE SkipNode(w, h)
      BY <2>0, <2>1, <3>2, <3>5 DEF SkipNode, db
    <3> QED BY <3>1, <3>3, <3>4, <3>5 DEF InsertRow
  <2>4. ASSUME NEW w \in Workers,
               \/ Guard(w) \/ LoadOld(w) \/ EndStale(w) \/ Eval(w) \/ MarkDead(w)
               \/ LoadMappings(w) \/ Count(w) \/ Purge(w) \/ EndClean(w)
               \/ Affected(w) \/ NextSource(w) \/ DeleteRow(w)
        PROVE  Inv'
    <3>1. SerialPC'
      BY <2>4 DEF Guard, LoadOld, EndStale, Eval, MarkDead, LoadMappings,
         Count, Purge, EndClean, Affected, NextSource, DeleteRow, Upserting, Jobs,
         Goto, SerialPC
    <3>2. UNCHANGED <<hashOf, mapping>>
      BY <2>4 DEF Guard, LoadOld, EndStale, Eval, MarkDead, LoadMappings,
         Count, Purge, EndClean, Affected, NextSource, DeleteRow, db
    <3> QED BY <3>1, <3>2, <2>11
  <2>5. ASSUME NEW w \in Workers, Stale(w) \/ UnmapAll(w) PROVE Inv'
    <3>1. SerialPC'
      BY <2>5 DEF Stale, UnmapAll, Goto, SerialPC
    <3>2. mapping' \subseteq mapping /\ hashOf' = hashOf
      BY <2>5 DEF Stale, UnmapAll
    <3> QED BY <3>1, <3>2, <2>1
  <2>6. ASSUME NEW w \in Workers, StaleDrop(w) \/ Drop(w) PROVE Inv'
    BY <2>0, <2>1, <2>6 DEF StaleDrop, Drop, DropIfOrphan
  <2>7. ASSUME NEW w \in Workers,
               TxFind(w) \/ TxFinish(w) \/ NodeUnmap(w) \/ NodePurge(w) \/ NodeDrop(w)
        PROVE  FALSE
    BY <2>7 DEF TxFind, TxFinish, NodeUnmap, NodePurge, NodeDrop, SerialPC
  <2>8. ASSUME NEW s \in Sources,
               CreateSource(s) \/ \E flag \in BOOLEAN : SetIgnoreDead(s, flag)
        PROVE  Inv'
    BY <2>8 DEF CreateSource, SetIgnoreDead, SerialPC, MappingsHaveNodes, nodes
  <2>9. ASSUME NEW n \in NodeIds, ExpireChecks(n) PROVE Inv'
    BY <2>9 DEF ExpireChecks, SerialPC, MappingsHaveNodes, nodes
  <2>10. CASE UNCHANGED vars
    BY <2>10 DEF vars, SerialPC, MappingsHaveNodes, nodes
  <2> QED
    BY <2>2, <2>3, <2>4, <2>5, <2>6, <2>7, <2>8, <2>9, <2>10, <2>12 DEF Next, Step
<1> QED
  BY <1>1, <1>2, TypeInvInductive, PTL DEF Spec

-----------------------------------------------------------------------------
(* A node leaves a source only by that source's own stale pass or cleanup,  *)
(* or by an administrator's delete: the conditional DELETE of a node row    *)
(* never takes it from another source, whatever ran in between.             *)
THEOREM SourcesAreIsolated == Spec => OtherSourcesKeep
<1>1. ASSUME TypeInv, [Next]_vars PROVE StepKeepsOthers
  <2> USE <1>1 DEF TypeInv, DbOK, WorkersOK
  <2>1. ASSUME mapping \subseteq mapping',
               \A n \in NodeIds : hashOf'[n] = hashOf[n] \/ Orphan(n) \/ hashOf'[n] # None
        PROVE  StepKeepsOthers
    BY <2>1 DEF nodes, Orphan, StepKeepsOthers, Loses
  <2>2. UNCHANGED <<hashOf, mapping>> => StepKeepsOthers
    BY <2>1
  <2>3. ASSUME NEW w \in Workers, Request(w) \/ StatementFails(w) \/ Abandon(w)
        PROVE  StepKeepsOthers
    BY <2>2, <2>3 DEF Request, StatementFails, Abandon, FetchResult, CheckResults, DeleteSource,
       DeleteNode, db
  <2>4. ASSUME NEW w \in Workers, UpsertSerial(w) \/ TxFinish(w) PROVE StepKeepsOthers
    <3>1. ASSUME NEW h, NEW n, UseRow(w, h, n) PROVE StepKeepsOthers
      BY <2>1, <3>1 DEF UseRow, Stored
    <3>2. ASSUME NEW h \in Hashes, InsertRow(w, h) PROVE StepKeepsOthers
      BY <2>1, <3>2, NoneAssumption DEF InsertRow, Stored, Fresh
    <3>3. ASSUME NEW h, SkipNode(w, h) PROVE StepKeepsOthers
      BY <2>2, <3>3 DEF SkipNode, db
    <3>4. job[w] \in Jobs /\ WorkerOK(w)
      OBVIOUS
    <3>5. CASE UpsertSerial(w)
      BY <3>1, <3>2, <3>3, <3>4, <3>5 DEF UpsertSerial, Jobs
    <3>6. CASE TxFinish(w)
      BY <3>1, <3>2, <3>3, <3>4, <3>6 DEF TxFinish, WorkerOK
    <3> QED BY <2>4, <3>5, <3>6
  <2>5. ASSUME NEW w \in Workers,
               \/ Guard(w) \/ LoadOld(w) \/ TxFind(w) \/ EndStale(w) \/ Eval(w)
               \/ MarkDead(w) \/ LoadMappings(w) \/ Count(w) \/ Purge(w)
               \/ EndClean(w) \/ Affected(w) \/ NextSource(w) \/ DeleteRow(w)
               \/ NodePurge(w)
        PROVE  StepKeepsOthers
    BY <2>2, <2>5 DEF Guard, LoadOld, TxFind, EndStale, Eval, MarkDead,
       LoadMappings, Count, Purge, EndClean, Affected, NextSource, DeleteRow,
       NodePurge, db
  <2>6. ASSUME NEW w \in Workers, StaleDrop(w) \/ Drop(w) PROVE StepKeepsOthers
    BY <2>1, <2>6 DEF StaleDrop, Drop, DropIfOrphan
  <2>7. ASSUME NEW w \in Workers, Stale(w) PROVE StepKeepsOthers
    <3>1. pc'[w] = "staleDrop"
      BY <2>7 DEF Stale, Goto
    <3>2. \A n \in nodes, s \in Sources : Loses(n, s) => s = job[w].src
      BY <2>7 DEF Stale, nodes, Loses
    <3> QED BY <2>7, <3>1, <3>2 DEF Stale, StepKeepsOthers, OwnStep
  <2>8. ASSUME NEW w \in Workers, UnmapAll(w) PROVE StepKeepsOthers
    <3>1. pc'[w] = "count"
      BY <2>8 DEF UnmapAll, Goto
    <3>2. \A n \in nodes, s \in Sources : Loses(n, s) => s = job[w].src
      BY <2>8 DEF UnmapAll, nodes, Loses
    <3> QED BY <2>8, <3>1, <3>2 DEF UnmapAll, StepKeepsOthers, OwnStep
  <2>9. ASSUME NEW w \in Workers, NodeUnmap(w) PROVE StepKeepsOthers
    <3>1. pc'[w] = "nodePurge"
      BY <2>9 DEF NodeUnmap, Goto
    <3>2. \A n \in nodes, s \in Sources : Loses(n, s) => n = job[w].row
      BY <2>9 DEF NodeUnmap, nodes, Loses
    <3> QED BY <2>9, <3>1, <3>2 DEF NodeUnmap, StepKeepsOthers, OwnStep
  <2>10. ASSUME NEW w \in Workers, NodeDrop(w) PROVE StepKeepsOthers
    <3>1. pc'[w] = "idle"
      BY <2>10 DEF NodeDrop, Goto
    <3>2. \A n \in nodes, s \in Sources : Loses(n, s) => n = job[w].row
      BY <2>10 DEF NodeDrop, nodes, Loses
    <3> QED BY <2>10, <3>1, <3>2 DEF NodeDrop, StepKeepsOthers, OwnStep
  <2>11. ASSUME NEW s \in Sources,
               CreateSource(s) \/ \E flag \in BOOLEAN : SetIgnoreDead(s, flag)
        PROVE  StepKeepsOthers
    BY <2>2, <2>11 DEF CreateSource, SetIgnoreDead
  <2>12. ASSUME NEW n \in NodeIds, ExpireChecks(n) PROVE StepKeepsOthers
    BY <2>2, <2>12 DEF ExpireChecks
  <2>13. CASE UNCHANGED vars
    BY <2>2, <2>13 DEF vars
  <2> QED
    BY <2>3, <2>4, <2>5, <2>6, <2>7, <2>8, <2>9, <2>10, <2>11, <2>12, <2>13
       DEF Next, Step
<1>2. Init => TypeInv
  BY DEF Init, TypeInv, DbOK, WorkersOK, WorkerOK, Labels, Jobs, NoJob,
         SourceLabels, CleanLabels
<1>3. TypeInv /\ [Next]_vars => [StepKeepsOthers]_vars
  BY <1>1
<1> QED
  BY <1>2, <1>3, TypeInvInductive, PTL DEF Spec, OtherSourcesKeep

-----------------------------------------------------------------------------
(* What a worker in an upsert may still believe of the mappings it loaded:  *)
(* those that hold a hash already stored are in kept, and while a           *)
(* transaction is open, those that hold its hash are the row it found.      *)
ReportOK(w) ==
    /\ pc[w] \in {"guard", "old"} => job[w].todo = job[w].report
    /\ pc[w] \in {"stale", "staleDrop"} => job[w].todo = {}
    /\ pc[w] \in {"upsert", "finish", "stale", "staleDrop"} =>
         \A n \in job[w].old :
           hashOf[n] \in job[w].report \ job[w].todo => n \in job[w].kept
    /\ pc[w] = "finish" =>
         \A n \in job[w].old : hashOf[n] = job[w].cur => n = job[w].row

(* What other workers do meanwhile cannot change that: they never give a    *)
(* hash to a row id this worker remembers.                                  *)
LEMMA OthersKeepReport ==
    ASSUME TypeInv, [Next]_vars, NEW v \in Workers, ReportOK(v),
           pc'[v] = pc[v], job'[v] = job[v]
    PROVE  ReportOK(v)'
<1> USE DEF TypeInv, DbOK, WorkersOK
<1>1. job[v].old \subseteq NodeIds /\ job[v].report \subseteq Hashes
  BY DEF Jobs
<1>2. pc[v] = "finish" => job[v].cur \in Hashes
  BY DEF WorkerOK
<1>3. CASE \A n \in NodeIds : hashOf'[n] \in {hashOf[n], None}
  BY <1>1, <1>2, <1>3, NoneAssumption DEF ReportOK
<1>4. ASSUME NEW m \in Fresh, NEW h \in Hashes, hashOf' = [hashOf EXCEPT ![m] = h]
      PROVE  ReportOK(v)'
  <2>1. m \notin job[v].old
    BY DEF Fresh
  <2> QED BY <1>1, <1>4, <2>1 DEF ReportOK
<1> QED BY <1>3, <1>4, HashChanges

(* Storing hash h in row n leaves a worker well informed, if no mapping it  *)
(* loaded holds h in another row.                                           *)
LEMMA StoredKeepsReport ==
    ASSUME TypeInv, NEW w \in Workers, NEW h \in Hashes, NEW n \in NodeIds,
           ReportOK(w), pc[w] \in {"upsert", "finish"},
           \A m \in job[w].old : hashOf[m] = h => m = n,
           \A m \in job[w].old : hashOf'[m] = hashOf[m],
           Stored(w, h, n)
    PROVE  ReportOK(w)'
<1>1. job[w] \in Jobs /\ job'[w] = [job[w] EXCEPT !.todo = @ \ {h}, !.kept = @ \cup {n},
                                                  !.cur = None, !.row = None]
  BY DEF Stored, Goto, TypeInv, WorkersOK
<1>2. pc'[w] = Upserting(job[w].todo \ {h})
  BY DEF Stored, Goto, TypeInv, WorkersOK
<1>3. /\ job'[w].old = job[w].old
      /\ job'[w].report = job[w].report
      /\ job'[w].todo = job[w].todo \ {h}
      /\ job'[w].kept = job[w].kept \cup {n}
  BY <1>1 DEF Jobs
<1> QED BY <1>2, <1>3 DEF ReportOK, Upserting

(* A worker's own step keeps it informed, if its transactions do not fail.  *)
LEMMA OwnKeepsReport ==
    ASSUME TypeInv, UniqueHash, NEW w \in Workers \ Faults, ReportOK(w),
           Request(w) \/ Step(w)
    PROVE  ReportOK(w)'
<1> USE DEF TypeInv, DbOK, WorkersOK
<1>1. job[w] \in Jobs /\ job[w].old \subseteq NodeIds /\ job[w].todo \subseteq Hashes
  BY DEF Jobs
<1>2. ASSUME NEW label, NEW j, Goto(w, label, j) PROVE pc'[w] = label /\ job'[w] = j
  BY <1>2 DEF Goto
<1>3. ASSUME pc'[w] \notin {"guard", "old", "upsert", "finish", "stale", "staleDrop"}
      PROVE  ReportOK(w)'
  BY <1>3 DEF ReportOK
<1>4. CASE FetchResult(w)
  <2>1. PICK s \in Sources :
          \/ Goto(w, "eval", [NoJob EXCEPT !.src = s])
          \/ \E H \in SUBSET Hashes :
               Goto(w, "guard", [NoJob EXCEPT !.src = s, !.report = H, !.todo = H])
    BY <1>4 DEF FetchResult, Known
  <2>2. CASE Goto(w, "eval", [NoJob EXCEPT !.src = s])
    BY <2>2, <1>2, <1>3
  <2>3. ASSUME NEW H \in SUBSET Hashes,
               Goto(w, "guard", [NoJob EXCEPT !.src = s, !.report = H, !.todo = H])
        PROVE  ReportOK(w)'
    <3>1. pc'[w] = "guard"
      BY <1>2, <2>3
    <3>2. job'[w] = [NoJob EXCEPT !.src = s, !.report = H, !.todo = H]
      BY <1>2, <2>3
    <3>3. job'[w].todo = H /\ job'[w].report = H
      BY <3>2 DEF NoJob
    <3> QED BY <3>1, <3>3 DEF ReportOK
  <2> QED BY <2>1, <2>2, <2>3
<1>5. CASE Guard(w)
  <2>1. CASE Goto(w, "old", job[w])
    <3>1. pc'[w] = "old" /\ job'[w] = job[w]
      BY <1>2, <2>1
    <3> QED BY <1>5, <3>1 DEF Guard, ReportOK
  <2>2. CASE \E label \in {"eval", "load"} : pc'[w] = label
    BY <2>2, <1>3
  <2> QED BY <1>5, <1>2, <2>1, <2>2 DEF Guard
<1>6. CASE LoadOld(w)
  BY <1>6, <1>1, <1>2 DEF LoadOld, ReportOK, Upserting, Jobs
<1>7. CASE UpsertSerial(w)
  <2>1. PICK h \in job[w].todo : (\E n \in RowsOf(h) : UseRow(w, h, n)) \/ InsertRow(w, h)
    BY <1>7 DEF UpsertSerial
  <2>2. ASSUME NEW n \in RowsOf(h), UseRow(w, h, n) PROVE ReportOK(w)'
    <3>1. \A m \in job[w].old : hashOf[m] = h => m = n
      BY <1>1, NoneAssumption DEF UniqueHash, nodes, RowsOf
    <3> QED BY <1>1, <1>7, <2>2, <3>1, StoredKeepsReport DEF UseRow, UpsertSerial, RowsOf
  <2>3. CASE InsertRow(w, h)
    <3>1. PICK n \in Fresh : hashOf' = [hashOf EXCEPT ![n] = h] /\ Stored(w, h, n)
      BY <2>3 DEF InsertRow
    <3>2. \A m \in job[w].old : hashOf[m] # h
      BY <1>1, <2>3 DEF InsertRow, RowsOf
    <3>3. n \in NodeIds /\ n \notin job[w].old
      BY DEF Fresh
    <3> QED BY <1>1, <1>7, <3>1, <3>2, <3>3, StoredKeepsReport DEF UpsertSerial
  <2> QED BY <2>1, <2>2, <2>3
<1>8. CASE TxFind(w)
  <2>1. PICK h \in job[w].todo :
          \E n \in (IF RowsOf(h) = {} THEN {None} ELSE RowsOf(h)) :
            Goto(w, "finish", [job[w] EXCEPT !.cur = h, !.row = n])
    BY <1>8 DEF TxFind
  <2>5. PICK n \in (IF RowsOf(h) = {} THEN {None} ELSE RowsOf(h)) :
          Goto(w, "finish", [job[w] EXCEPT !.cur = h, !.row = n])
    BY <2>1
  <2>2. \A m \in job[w].old : hashOf[m] = h => m = n
    BY <1>1, <2>5, NoneAssumption DEF UniqueHash, nodes, RowsOf
  <2>6. pc'[w] = "finish" /\ job'[w] = [job[w] EXCEPT !.cur = h, !.row = n]
    BY <1>2, <2>5
  <2>3. /\ pc'[w] = "finish"
        /\ job'[w].cur = h /\ job'[w].row = n
        /\ job'[w].old = job[w].old /\ job'[w].report = job[w].report
        /\ job'[w].todo = job[w].todo /\ job'[w].kept = job[w].kept
    BY <1>1, <2>6 DEF Jobs
  <2>4. hashOf' = hashOf /\ pc[w] = "upsert"
    BY <1>8 DEF TxFind, db
  <2> QED BY <2>2, <2>3, <2>4 DEF ReportOK
<1>9. CASE TxFinish(w)
  <2> DEFINE h == job[w].cur
  <2>1. h \in Hashes /\ \A m \in job[w].old : hashOf[m] = h => m = job[w].row
    <3>1. pc[w] = "finish" /\ WorkerOK(w)
      BY <1>9 DEF TxFinish
    <3> QED BY <3>1 DEF ReportOK, WorkerOK
  <2>2. CASE job[w].row # None /\ UseRow(w, h, job[w].row)
    <3>1. job[w].row \in NodeIds
      BY <1>1, <2>2 DEF Jobs
    <3> HIDE DEF h
    <3> QED BY <1>9, <2>1, <2>2, <3>1, StoredKeepsReport DEF UseRow, TxFinish
  <2>3. CASE job[w].row = None /\ InsertRow(w, h)
    <3>1. PICK n \in Fresh : hashOf' = [hashOf EXCEPT ![n] = h] /\ Stored(w, h, n)
      BY <2>3 DEF InsertRow
    <3>2. \A m \in job[w].old : hashOf[m] # h
      BY <1>1, <2>3, <2>1, NoneAssumption
    <3>3. n \in NodeIds /\ n \notin job[w].old
      BY DEF Fresh
    <3> HIDE DEF h
    <3> QED BY <1>1, <1>9, <2>1, <3>1, <3>2, <3>3, StoredKeepsReport DEF TxFinish
  <2>4. CASE job[w].row = None /\ SkipNode(w, h)
    <3>1. \A m \in job[w].old : hashOf[m] # h
      BY <1>1, <2>4, <2>1, NoneAssumption
    <3>2. /\ pc'[w] = Upserting(job[w].todo \ {h})
          /\ job'[w].old = job[w].old /\ job'[w].report = job[w].report
          /\ job'[w].todo = job[w].todo \ {h} /\ job'[w].kept = job[w].kept
      <4>1. /\ pc'[w] = Upserting(job[w].todo \ {h})
            /\ job'[w] = [job[w] EXCEPT !.todo = @ \ {h}, !.cur = None, !.row = None]
        BY <1>2, <2>4 DEF SkipNode
      <4> QED BY <1>1, <4>1 DEF Jobs
    <3>3. hashOf' = hashOf /\ pc[w] = "finish"
      BY <1>9, <2>4 DEF SkipNode, TxFinish, db
    <3> HIDE DEF h
    <3> QED BY <3>1, <3>2, <3>3 DEF ReportOK, Upserting
  <2> QED BY <1>9, <2>2, <2>3, <2>4 DEF TxFinish
<1>10. CASE Stale(w)
  BY <1>10, <1>1, <1>2 DEF Stale, ReportOK, Jobs
<1>11. CASE StaleDrop(w)
  <2>1. /\ pc'[w] = "stale"
        /\ job'[w].old \subseteq job[w].old /\ job'[w].report = job[w].report
        /\ job'[w].todo = job[w].todo /\ job'[w].kept = job[w].kept
    <3>1. /\ pc'[w] = "stale"
          /\ job'[w] = [job[w] EXCEPT !.old = @ \ {job[w].row}, !.row = None]
      BY <1>2, <1>11 DEF StaleDrop
    <3> QED BY <1>1, <3>1 DEF Jobs
  <2>2. \A n \in job[w].old : hashOf'[n] \in {hashOf[n], None}
    BY <1>1, <1>11 DEF StaleDrop, DropIfOrphan
  <2>3. None \notin job[w].report
    BY <1>1, NoneAssumption DEF Jobs
  <2> QED BY <1>11, <2>1, <2>2, <2>3 DEF StaleDrop, ReportOK
<1>12. CASE \/ CheckResults(w) \/ DeleteSource(w) \/ DeleteNode(w) \/ EndStale(w)
            \/ Eval(w) \/ MarkDead(w) \/ LoadMappings(w) \/ UnmapAll(w) \/ Count(w)
            \/ Purge(w) \/ Drop(w) \/ EndClean(w) \/ Affected(w) \/ NextSource(w)
            \/ DeleteRow(w) \/ NodeUnmap(w) \/ NodePurge(w) \/ NodeDrop(w)
  <2>1. pc'[w] \in {"idle", "eval", "mark", "load", "unmap", "count", "purge", "drop",
                    "affected", "next", "delRow", "nodeUnmap", "nodePurge", "nodeDrop"}
    BY <1>12, <1>1, <1>2 DEF CheckResults, DeleteSource, DeleteNode, EndStale, Eval,
       MarkDead, LoadMappings, UnmapAll, Count, Purge, Drop, EndClean, Affected,
       NextSource, DeleteRow, NodeUnmap, NodePurge, NodeDrop, Jobs
  <2> QED BY <2>1, <1>3
<1> QED
  BY <1>4, <1>5, <1>6, <1>7, <1>8, <1>9, <1>10, <1>11, <1>12 DEF Request, Step

(* Every request and statement of a worker ends in a move of this worker.   *)
LEMMA StepsMove ==
    ASSUME NEW w \in Workers, Request(w) \/ Step(w)
    PROVE  \E label, j : Goto(w, label, j)
<1>1. CASE Request(w)
  BY <1>1 DEF Request, FetchResult, CheckResults, DeleteSource, DeleteNode
<1>2. CASE UpsertSerial(w) \/ TxFind(w) \/ TxFinish(w)
  BY <1>2 DEF UpsertSerial, TxFind, TxFinish, UseRow, InsertRow, SkipNode, Stored
<1>3. CASE \/ Guard(w) \/ LoadOld(w) \/ Stale(w) \/ StaleDrop(w) \/ EndStale(w)
           \/ Eval(w) \/ MarkDead(w)
  BY <1>3 DEF Guard, LoadOld, Stale, StaleDrop, EndStale, Eval, MarkDead
<1>4. CASE \/ LoadMappings(w) \/ UnmapAll(w) \/ Count(w) \/ Purge(w) \/ Drop(w)
           \/ EndClean(w) \/ Affected(w) \/ NextSource(w) \/ DeleteRow(w)
           \/ NodeUnmap(w) \/ NodePurge(w) \/ NodeDrop(w)
  BY <1>4 DEF LoadMappings, UnmapAll, Count, Purge, Drop, EndClean, Affected,
     NextSource, DeleteRow, NodeUnmap, NodePurge, NodeDrop
<1> QED BY <1>1, <1>2, <1>3, <1>4 DEF Step

(* The one step from "stale" to "staleDrop" is Stale.                       *)
LEMMA OnlyStaleUnmaps ==
    ASSUME TypeInv, [Next]_vars, NEW w \in Workers \ Faults,
           pc[w] = "stale", pc'[w] = "staleDrop"
    PROVE  Stale(w)
<1> USE DEF TypeInv, WorkersOK
<1>1. ASSUME NEW v \in Workers, Request(v) \/ Step(v) PROVE v = w
  BY <1>1, StepsMove DEF Goto
<1>2. ASSUME Request(w) \/ (Step(w) /\ ~Stale(w)) PROVE FALSE
  BY <1>2 DEF Request, FetchResult, CheckResults, DeleteSource, DeleteNode,
     Step, Guard, LoadOld, UpsertSerial, TxFind, TxFinish, StaleDrop, EndStale,
     Eval, MarkDead, LoadMappings, UnmapAll, Count, Purge, Drop, EndClean,
     Affected, NextSource, DeleteRow, NodeUnmap, NodePurge, NodeDrop, Goto
<1> QED
  BY <1>1, <1>2 DEF Next, StatementFails, Abandon, CreateSource, SetIgnoreDead, ExpireChecks, vars, Goto

(* While its own transactions do not fail, a stale pass never unmaps a node *)
(* of the report at hand, even if other workers delete and re-insert its    *)
(* rows in between, fail or stop.                                           *)
THEOREM ReportedNodesStay == Spec => ReportedStayMapped
<1> DEFINE Inv == TypeInv /\ UniqueHash /\ \A w \in Workers \ Faults : ReportOK(w)
<1>1. Init => Inv
  BY DEF Init, TypeInv, DbOK, WorkersOK, WorkerOK, Labels, Jobs, NoJob,
         SourceLabels, CleanLabels, UniqueHash, nodes, ReportOK
<1>2. ASSUME Inv, [Next]_vars PROVE Inv'
  <2>1. TypeInv'
    BY <1>2, TypeInvInductive
  <2>2. UniqueHash'
    BY <1>2, UniqueHashStep
  <2>3. ASSUME NEW v \in Workers \ Faults PROVE ReportOK(v)'
    <3>1. CASE pc'[v] = pc[v] /\ job'[v] = job[v]
      BY <1>2, <3>1, OthersKeepReport
    <3>2. CASE Request(v) \/ Step(v)
      BY <1>2, <3>2, OwnKeepsReport
    <3>3. ASSUME NEW w \in Workers, w # v,
                 Request(w) \/ Step(w) \/ StatementFails(w) \/ Abandon(w)
          PROVE  pc'[v] = pc[v] /\ job'[v] = job[v]
      <4>1. \E label, j : Goto(w, label, j)
        BY <3>3, StepsMove DEF StatementFails, Abandon
      <4> QED BY <1>2, <3>3, <4>1 DEF Goto, TypeInv, WorkersOK
    <3> QED
      BY <1>2, <3>1, <3>2, <3>3 DEF Next, StatementFails, Abandon, CreateSource, SetIgnoreDead,
         ExpireChecks, vars
  <2> QED BY <2>1, <2>2, <2>3
<1>3. ASSUME Inv, [Next]_vars PROVE [StalePassSpares]_vars
  <2>1. ASSUME NEW w \in Workers \ Faults, pc[w] = "stale", pc'[w] = "staleDrop"
        PROVE  hashOf[job'[w].row] \notin job[w].report
    <3>1. Stale(w)
      BY <1>3, <2>1, OnlyStaleUnmaps
    <3>2. PICK n \in job[w].old \ job[w].kept :
            Goto(w, "staleDrop", [job[w] EXCEPT !.row = n])
      BY <3>1 DEF Stale
    <3>3. job[w] \in Jobs
      BY <1>3 DEF TypeInv, WorkersOK
    <3>4. job'[w].row = n
      BY <1>3, <3>2, <3>3 DEF Goto, Jobs, TypeInv, WorkersOK
    <3> QED BY <1>3, <2>1, <3>2, <3>4 DEF ReportOK
  <2> QED BY <2>1 DEF StalePassSpares
<1> QED
  BY <1>1, <1>2, <1>3, PTL DEF Spec, ReportedStayMapped
-----------------------------------------------------------------------------
(* Only a worker without faults moves on by its own requests and statements.*)
LEMMA MovedByItself ==
    ASSUME TypeInv, [Next]_vars, NEW w \in Workers \ Faults,
           pc'[w] # pc[w] \/ job'[w] # job[w]
    PROVE  Request(w) \/ Step(w)
<1>1. ASSUME NEW v \in Workers, v # w, \E label, j : Goto(v, label, j)
      PROVE  pc'[w] = pc[w] /\ job'[w] = job[w]
  BY <1>1 DEF Goto, TypeInv, WorkersOK
<1>2. ASSUME NEW v \in Workers, Request(v) \/ Step(v) \/ StatementFails(v) \/ Abandon(v)
      PROVE  \E label, j : Goto(v, label, j)
  BY <1>2, StepsMove DEF StatementFails, Abandon
<1> QED
  BY <1>1, <1>2 DEF Next, StatementFails, Abandon, CreateSource, SetIgnoreDead, ExpireChecks, vars

(* With one connection, whatever other handlers do and wherever they stop,  *)
(* a reported hash is done with only when a row holds it and the source     *)
(* maps that row (upsert.go:104-141).                                       *)
THEOREM ReportsAreStored == SingleConn => (Spec => EveryReportedNodeMapped)
<1> SUFFICES ASSUME SingleConn PROVE Spec => EveryReportedNodeMapped
  OBVIOUS
<1> DEFINE NoOpenTx == \A w \in Workers : pc[w] # "finish"
           Maps == \A w \in Workers \ Faults : \A h \in job[w].todo \ job'[w].todo :
                     pc[w] \in {"upsert", "finish"} =>
                       \E n \in NodeIds : hashOf'[n] = h /\ <<n, job[w].src>> \in mapping'
<1>1. Init => TypeInv /\ NoOpenTx
  BY DEF Init, TypeInv, DbOK, WorkersOK, WorkerOK, Labels, Jobs, NoJob,
         SourceLabels, CleanLabels
<1>2. ASSUME TypeInv, NoOpenTx, [Next]_vars PROVE NoOpenTx'
  <2> USE <1>2 DEF TypeInv, WorkersOK
  <2>1. ASSUME NEW w \in Workers, NEW label, NEW j, Goto(w, label, j), label # "finish"
        PROVE  NoOpenTx'
    BY <2>1 DEF Goto
  <2>2. ASSUME NEW w \in Workers, Request(w) \/ Abandon(w) \/ StatementFails(w) PROVE NoOpenTx'
    BY <2>1, <2>2 DEF Request, Abandon, FetchResult, CheckResults, DeleteSource,
       DeleteNode, StatementFails, Jobs
  <2>3. ASSUME NEW w \in Workers, UpsertSerial(w) PROVE NoOpenTx'
    BY <2>1, <2>3 DEF UpsertSerial, UseRow, InsertRow, SkipNode, Stored, Upserting
  <2>4. ASSUME NEW w \in Workers,
               \/ Guard(w) \/ LoadOld(w) \/ Stale(w) \/ StaleDrop(w) \/ EndStale(w)
               \/ Eval(w) \/ MarkDead(w) \/ LoadMappings(w) \/ UnmapAll(w) \/ Count(w)
               \/ Purge(w) \/ Drop(w) \/ EndClean(w) \/ Affected(w) \/ NextSource(w)
               \/ DeleteRow(w) \/ NodeUnmap(w) \/ NodePurge(w) \/ NodeDrop(w)
        PROVE  NoOpenTx'
    BY <2>1, <2>4 DEF Guard, LoadOld, Stale, StaleDrop, EndStale, Eval, MarkDead,
       LoadMappings, UnmapAll, Count, Purge, Drop, EndClean, Affected, NextSource,
       DeleteRow, NodeUnmap, NodePurge, NodeDrop, Upserting, Jobs
  <2>5. ASSUME NEW w \in Workers, TxFind(w) \/ TxFinish(w) PROVE NoOpenTx'
    BY <2>5 DEF TxFind, TxFinish
  <2> QED
    BY <2>2, <2>3, <2>4, <2>5 DEF Next, Step, CreateSource, SetIgnoreDead, ExpireChecks, vars
<1>3. ASSUME TypeInv, NoOpenTx, [Next]_vars PROVE Maps
  <2> SUFFICES ASSUME NEW w \in Workers \ Faults, NEW h \in job[w].todo \ job'[w].todo,
                      pc[w] = "upsert"
               PROVE  \E n \in NodeIds : hashOf'[n] = h /\ <<n, job[w].src>> \in mapping'
    BY <1>3
  <2>1. job[w] \in Jobs /\ job'[w] # job[w]
    BY <1>3 DEF TypeInv, WorkersOK
  <2>2. Request(w) \/ Step(w)
    BY <1>3, <2>1, MovedByItself
  <2>3. UpsertSerial(w)
    BY <2>2 DEF Request, FetchResult, CheckResults, DeleteSource, DeleteNode,
       Step, Guard, LoadOld, TxFind, TxFinish, Stale, StaleDrop, EndStale,
       Eval, MarkDead, LoadMappings, UnmapAll, Count, Purge, Drop, EndClean,
       Affected, NextSource, DeleteRow, NodeUnmap, NodePurge, NodeDrop
  <2>4. PICK g \in job[w].todo : (\E n \in RowsOf(g) : UseRow(w, g, n)) \/ InsertRow(w, g)
    BY <2>3 DEF UpsertSerial
  <2>5. ASSUME NEW n \in NodeIds, Stored(w, g, n)
        PROVE  h = g /\ <<n, job[w].src>> \in mapping'
    <3>1. job'[w] = [job[w] EXCEPT !.todo = @ \ {g}, !.kept = @ \cup {n},
                                   !.cur = None, !.row = None]
      BY <1>3, <2>5 DEF Stored, Goto, TypeInv, WorkersOK
    <3>2. job'[w].todo = job[w].todo \ {g}
      BY <2>1, <3>1 DEF Jobs
    <3> QED BY <2>5, <3>2 DEF Stored
  <2>6. ASSUME NEW n \in RowsOf(g), UseRow(w, g, n)
        PROVE  n \in NodeIds /\ hashOf'[n] = g /\ Stored(w, g, n)
    BY <2>6 DEF UseRow, RowsOf
  <2>7. ASSUME InsertRow(w, g)
        PROVE  \E n \in NodeIds : hashOf'[n] = g /\ Stored(w, g, n)
    BY <1>3, <2>7 DEF InsertRow, Fresh, TypeInv, DbOK
  <2> QED BY <2>4, <2>5, <2>6, <2>7
<1>4. ASSUME TypeInv, NoOpenTx, [Next]_vars PROVE [Maps]_vars
  BY <1>3, <1>4
<1> HIDE DEF NoOpenTx
<1> QED BY <1>1, <1>2, <1>4, TypeInvInductive, PTL DEF Spec, EveryReportedNodeMapped

-----------------------------------------------------------------------------
(* What overlapping and failing handlers leave in the nodes table           *)

(* Somebody still looks after every row without a mapping, or the history   *)
(* variable says who let it go.                                             *)
Tended == \A n \in nodes : Orphan(n) => n \in leaked \/ \E w \in Workers : n \in Loose(w)

(* A step of one worker; the rows the others hold are still theirs.         *)
LEMMA TendedStep ==
    ASSUME TypeInv, Tended, NEW w \in Workers, NEW label, NEW j, Goto(w, label, j),
           \A n \in nodes' : Orphan(n)' =>
              \/ n \in leaked' \/ n \in Loose(w)'
              \/ n \in nodes /\ Orphan(n) /\ n \notin leaked /\ n \notin Loose(w)
    PROVE  Tended'
<1>1. \A v \in Workers \ {w} : pc'[v] = pc[v] /\ job'[v] = job[v]
  BY DEF Goto, TypeInv, WorkersOK
<1>2. \A v \in Workers \ {w} : Loose(v)' = Loose(v)
  BY <1>1 DEF Loose
<1>3. ASSUME NEW n \in nodes', Orphan(n)' PROVE n \in leaked' \/ \E v \in Workers : n \in Loose(v)'
  <2>1. CASE n \in leaked' \/ n \in Loose(w)'
    BY <2>1
  <2>2. CASE n \in nodes /\ Orphan(n) /\ n \notin leaked /\ n \notin Loose(w)
    <3>1. PICK v \in Workers \ {w} : n \in Loose(v)
      BY <2>2 DEF Tended
    <3> QED BY <1>2, <3>1
  <2> QED BY <1>3, <2>1, <2>2
<1> QED BY <1>3 DEF Tended

(* Statements that change neither rows nor mappings.                        *)
LEMMA TendedRead ==
    ASSUME TypeInv, Tended, NEW w \in Workers, NEW label, NEW j, Goto(w, label, j),
           UNCHANGED <<hashOf, mapping>>, leaked \subseteq leaked',
           \A n \in Loose(w) : Orphan(n) => n \in Loose(w)' \/ n \in leaked'
    PROVE  Tended'
<1>1. nodes' = nodes /\ \A n : Orphan(n)' <=> Orphan(n)
  BY DEF nodes, Orphan
<1> QED BY <1>1, TendedStep

LEMMA TendedReads ==
    ASSUME TypeInv, Tended, NEW w \in Workers,
           \/ FetchResult(w) \/ CheckResults(w) \/ DeleteSource(w) \/ DeleteNode(w)
           \/ Guard(w) \/ LoadOld(w) \/ TxFind(w) \/ EndStale(w) \/ Eval(w) \/ MarkDead(w)
           \/ LoadMappings(w) \/ Affected(w) \/ NextSource(w) \/ DeleteRow(w) \/ EndClean(w)
    PROVE  Tended'
<1>1. UNCHANGED <<hashOf, mapping, leaked>> /\ \E label, j : Goto(w, label, j)
  BY DEF FetchResult, CheckResults, DeleteSource, DeleteNode, Guard, LoadOld, TxFind,
         EndStale, Eval, MarkDead, LoadMappings, Affected, NextSource, DeleteRow, EndClean, db, history
<1>2. Loose(w) = {}
  BY DEF FetchResult, CheckResults, DeleteSource, DeleteNode, Guard, LoadOld, TxFind,
         EndStale, Eval, MarkDead, LoadMappings, Affected, NextSource, DeleteRow, EndClean, Loose
<1> QED BY <1>1, <1>2, TendedRead

(* The count and the deletes of the history keep hold of the row.           *)
LEMMA TendedCounts ==
    ASSUME TypeInv, Tended, NEW w \in Workers, Count(w) \/ Purge(w) \/ NodePurge(w)
    PROVE  Tended'
<1>0. job[w] \in Jobs
  BY DEF TypeInv, WorkersOK
<1>1. UNCHANGED <<hashOf, mapping, leaked>>
  BY DEF Count, Purge, NodePurge, db, history
<1>2. ASSUME NEW label, NEW j, Goto(w, label, j) PROVE pc'[w] = label /\ job'[w] = j
  BY <1>2 DEF Goto, TypeInv, WorkersOK
<1>3. CASE Count(w)
  <2>1. pc[w] = "count"
    BY <1>3 DEF Count
  <2>2. PICK n \in job[w].old :
          IF Orphan(n) THEN Goto(w, "purge", [job[w] EXCEPT !.row = n])
                       ELSE Goto(w, "count", [job[w] EXCEPT !.old = @ \ {n}])
    BY <1>3 DEF Count
  <2>3. CASE Orphan(n)
    <3> DEFINE j == [job[w] EXCEPT !.row = n]
    <3>1. Goto(w, "purge", j) /\ j.old = job[w].old
      BY <1>0, <2>2, <2>3 DEF Jobs
    <3> HIDE DEF j
    <3>2. Loose(w)' = Loose(w)
      BY <1>2, <2>1, <3>1 DEF Loose
    <3> QED BY <1>1, <3>1, <3>2, TendedRead
  <2>4. CASE ~Orphan(n)
    <3> DEFINE j == [job[w] EXCEPT !.old = @ \ {n}]
    <3>1. Goto(w, "count", j) /\ j.old = job[w].old \ {n}
      BY <1>0, <2>2, <2>4 DEF Jobs
    <3> HIDE DEF j
    <3>2. \A m \in Loose(w) : Orphan(m) => m \in Loose(w)'
      BY <1>2, <2>1, <2>4, <3>1 DEF Loose
    <3> QED BY <1>1, <3>1, <3>2, TendedRead
  <2> QED BY <2>3, <2>4
<1>4. CASE Purge(w) \/ NodePurge(w)
  <2>1. PICK label \in {"drop", "nodeDrop"} :
          /\ Goto(w, label, job[w])
          /\ label = "drop" => pc[w] = "purge"
          /\ label = "nodeDrop" => pc[w] = "nodePurge"
    BY <1>4 DEF Purge, NodePurge
  <2>2. Loose(w)' = Loose(w)
    BY <1>2, <2>1 DEF Loose
  <2> QED BY <1>1, <2>1, <2>2, TendedRead
<1> QED BY <1>3, <1>4

(* A row gets its mapping in the step that inserts or finds it.             *)
LEMMA TendedStored ==
    ASSUME TypeInv, Tended, NEW w \in Workers, pc[w] \in {"upsert", "finish"},
           NEW h, NEW n \in NodeIds, Stored(w, h, n),
           \A m \in nodes' : m \in nodes \/ m = n
    PROVE  Tended'
<1>0. job[w].src \in Sources /\ Loose(w) = {}
  BY DEF TypeInv, WorkersOK, WorkerOK, SourceLabels, Loose
<1>1. CASE mapping' = mapping \cup {<<n, job[w].src>>} /\ leaked' = leaked \ {n}
  <2>1. ~Orphan(n)' /\ \A m : Orphan(m)' => Orphan(m)
    BY <1>0, <1>1 DEF Orphan
  <2> QED BY <1>0, <1>1, <2>1, TendedStep DEF Stored
<1>2. CASE UNCHANGED mapping /\ leaked' = leaked \cup ({n} \ nodes)
  <2>1. \A m : Orphan(m)' => Orphan(m)
    BY <1>2 DEF Orphan
  <2>2. \A m \in nodes' : m \in leaked' \/ m \in nodes
    BY <1>2
  <2> QED BY <1>0, <1>2, <2>1, <2>2, TendedStep DEF Stored
<1> QED BY <1>1, <1>2 DEF Stored

LEMMA TendedUpserts ==
    ASSUME TypeInv, Tended, NEW w \in Workers, UpsertSerial(w) \/ TxFinish(w)
    PROVE  Tended'
<1>0. pc[w] \in {"upsert", "finish"} /\ job[w] \in Jobs
  BY DEF UpsertSerial, TxFinish, TypeInv, WorkersOK
<1>1. ASSUME NEW h, NEW n \in NodeIds, UseRow(w, h, n) PROVE Tended'
  BY <1>0, <1>1, TendedStored DEF UseRow, nodes
<1>2. ASSUME NEW h, InsertRow(w, h) PROVE Tended'
  <2>1. PICK n \in NodeIds : hashOf' = [hashOf EXCEPT ![n] = h] /\ Stored(w, h, n)
    BY <1>2 DEF InsertRow, Fresh
  <2>2. \A m \in nodes' : m \in nodes \/ m = n
    BY <2>1 DEF nodes, TypeInv, DbOK
  <2> QED BY <1>0, <2>1, <2>2, TendedStored
<1>3. ASSUME NEW h, SkipNode(w, h) PROVE Tended'
  <2>1. Loose(w) = {} /\ UNCHANGED <<hashOf, mapping, leaked>> /\ \E label, j : Goto(w, label, j)
    BY <1>0, <1>3 DEF SkipNode, Loose, db, history
  <2> QED BY <2>1, TendedRead
<1> QED BY <1>0, <1>1, <1>2, <1>3 DEF UpsertSerial, TxFinish, RowsOf, Jobs

(* Whoever removes a mapping deletes the row next, or the row is leaked.    *)
LEMMA TendedUnmaps ==
    ASSUME TypeInv, Tended, NEW w \in Workers, Stale(w) \/ UnmapAll(w) \/ NodeUnmap(w)
    PROVE  Tended'
<1>0. job[w] \in Jobs /\ WorkerOK(w)
  BY DEF TypeInv, WorkersOK
<1>1. nodes' = nodes /\ Loose(w) = {}
  BY DEF Stale, UnmapAll, NodeUnmap, nodes, Loose
<1>2. ASSUME NEW label, NEW j, Goto(w, label, j) PROVE pc'[w] = label /\ job'[w] = j
  BY <1>2 DEF Goto, TypeInv, WorkersOK
<1>3. CASE Stale(w)
  <2>1. PICK n \in job[w].old \ job[w].kept :
          mapping' = mapping \ {<<n, job[w].src>>} /\ Goto(w, "staleDrop", [job[w] EXCEPT !.row = n])
    BY <1>3 DEF Stale
  <2> DEFINE j == [job[w] EXCEPT !.row = n]
  <2>2. j.row = n /\ n \in NodeIds /\ Goto(w, "staleDrop", j)
    BY <1>0, <2>1 DEF Jobs
  <2> HIDE DEF j
  <2>3. n \in Loose(w)' /\ leaked' = leaked
    BY <1>2, <1>3, <2>2 DEF Loose, Stale, history
  <2>4. \A m : Orphan(m)' => Orphan(m) \/ m = n
    BY <2>1 DEF Orphan
  <2> QED BY <1>1, <2>2, <2>3, <2>4, TendedStep
<1>4. CASE UnmapAll(w)
  <2>1. /\ mapping' = {m \in mapping : m[2] # job[w].src}
        /\ Goto(w, "count", job[w]) /\ pc[w] = "unmap"
        /\ leaked' = leaked \cup {n \in MappedTo(job[w].src) \ job[w].old : Orphan(n)'}
    BY <1>4 DEF UnmapAll
  <2>2. Loose(w)' = {n \in NodeIds : n \in job[w].old}
    BY <1>2, <2>1 DEF Loose
  <2>3. \A n \in NodeIds : Orphan(n)' => Orphan(n) \/ n \in MappedTo(job[w].src)
    BY <2>1 DEF Orphan, MappedTo
  <2>4. nodes \subseteq NodeIds
    BY DEF nodes
  <2> QED BY <1>1, <2>1, <2>2, <2>3, <2>4, TendedStep
<1>5. CASE NodeUnmap(w)
  <2>1. /\ mapping' = {m \in mapping : m[1] # job[w].row} /\ leaked' = leaked
        /\ Goto(w, "nodePurge", job[w])
    BY <1>5 DEF NodeUnmap, history
  <2>2. \A n \in NodeIds : n = job[w].row => n \in Loose(w)'
    BY <1>2, <2>1 DEF Loose
  <2>3. \A n : Orphan(n)' => Orphan(n) \/ n = job[w].row
    BY <2>1 DEF Orphan
  <2>4. nodes \subseteq NodeIds
    BY DEF nodes
  <2> QED BY <1>1, <2>1, <2>2, <2>3, <2>4, TendedStep
<1> QED BY <1>3, <1>4, <1>5

(* After its delete a row is gone or mapped.                                *)
LEMMA TendedDrops ==
    ASSUME TypeInv, Tended, NEW w \in Workers, StaleDrop(w) \/ Drop(w) \/ NodeDrop(w)
    PROVE  Tended'
<1>0. job[w] \in Jobs
  BY DEF TypeInv, WorkersOK
<1>1. ASSUME NEW label, NEW j, Goto(w, label, j) PROVE pc'[w] = label /\ job'[w] = j
  BY <1>1 DEF Goto, TypeInv, WorkersOK
<1>2. /\ mapping' = mapping
      /\ \A n \in nodes' : /\ n \in nodes /\ (Orphan(n) => n # job[w].row)
                           /\ (n \in leaked => n \in leaked' \/ n = job[w].row)
  <2>1. mapping' = mapping
    BY DEF StaleDrop, Drop, NodeDrop
  <2>2. CASE DropIfOrphan(job[w].row)
    BY <2>1, <2>2 DEF DropIfOrphan, nodes, TypeInv, DbOK
  <2>3. CASE NodeDrop(w)
    BY <2>1, <2>3 DEF NodeDrop, nodes, TypeInv, DbOK
  <2> QED BY <2>1, <2>2, <2>3 DEF StaleDrop, Drop
<1>3. \A n : Orphan(n)' <=> Orphan(n)
  BY <1>2 DEF Orphan
<1>4. CASE StaleDrop(w) \/ NodeDrop(w)
  <2>1. pc[w] \in {"staleDrop", "nodeDrop"} /\ \E label, j : Goto(w, label, j)
    BY <1>4 DEF StaleDrop, NodeDrop
  <2>2. \A n \in Loose(w) : n = job[w].row
    BY <2>1 DEF Loose
  <2> QED BY <1>2, <1>3, <2>1, <2>2, TendedStep
<1>5. CASE Drop(w)
  <2> DEFINE j == [job[w] EXCEPT !.old = @ \ {job[w].row}, !.row = None]
  <2>1. pc[w] = "drop" /\ Goto(w, "count", j)
    BY <1>5 DEF Drop
  <2>2. j.old = job[w].old \ {job[w].row}
    BY <1>0 DEF Jobs
  <2> HIDE DEF j
  <2>3. \A n \in Loose(w) : n = job[w].row \/ n \in Loose(w)'
    BY <1>1, <2>1, <2>2 DEF Loose
  <2> QED BY <1>2, <1>3, <2>1, <2>3, TendedStep
<1> QED BY <1>4, <1>5

(* A failure lets go of the rows it was about to delete, and says so.       *)
LEMMA TendedFailures ==
    ASSUME TypeInv, Tended, NEW w \in Workers, StatementFails(w) \/ Abandon(w)
    PROVE  Tended'
<1>0. job[w] \in Jobs
  BY DEF TypeInv, WorkersOK
<1>1. UNCHANGED <<hashOf, mapping>> /\ leaked \subseteq leaked'
  BY DEF StatementFails, Abandon, db
<1>2. ASSUME NEW label, NEW j, Goto(w, label, j) PROVE pc'[w] = label /\ job'[w] = j
  BY <1>2 DEF Goto, TypeInv, WorkersOK
<1>3. CASE Abandon(w)
  <2>1. \E label, j : Goto(w, label, j)
    BY <1>3 DEF Abandon
  <2>2. \A n \in Loose(w) : Orphan(n) => n \in leaked'
    BY <1>3 DEF Abandon
  <2> QED BY <1>1, <2>1, <2>2, TendedRead
<1>4. ASSUME NEW label, NEW j, Goto(w, label, j),
             \A n \in Loose(w) : Orphan(n) => n \in Loose(w)' \/ n \in leaked'
      PROVE  Tended'
  BY <1>1, <1>4, TendedRead
<1>5. CASE StatementFails(w) /\ pc[w] \in {"old", "stale", "mark", "load", "unmap", "nodeUnmap", "affected", "delRow"}
  <2>1. Loose(w) = {} /\ \E label, j : Goto(w, label, j)
    BY <1>5 DEF Loose, StatementFails
  <2> QED BY <1>4, <2>1
<1>6. CASE StatementFails(w) /\ pc[w] \in {"staleDrop", "nodeDrop"}
  <2>1. (\E label, j : Goto(w, label, j)) /\ \A n \in Loose(w) : n = job[w].row
    BY <1>6 DEF Loose, StatementFails
  <2>2. leaked' = leaked \cup {n \in Loose(w) : n = job[w].row /\ Orphan(n)}
    BY <1>6 DEF StatementFails
  <2> QED BY <1>4, <2>1, <2>2
<1>7. CASE StatementFails(w) /\ pc[w] = "drop"
  <2> DEFINE j == [job[w] EXCEPT !.old = @ \ {job[w].row}, !.row = None]
  <2>1. Goto(w, "count", j)
    BY <1>7 DEF StatementFails
  <2>2. j.old = job[w].old \ {job[w].row}
    BY <1>0 DEF Jobs
  <2> HIDE DEF j
  <2>3. leaked' = leaked \cup {n \in Loose(w) : n = job[w].row /\ Orphan(n)}
    BY <1>7 DEF StatementFails
  <2>4. \A n \in Loose(w) : n = job[w].row \/ n \in Loose(w)'
    BY <1>2, <1>7, <2>1, <2>2 DEF Loose
  <2> QED BY <1>4, <2>1, <2>3, <2>4
<1>8. CASE StatementFails(w) /\ pc[w] = "count"
  <2>1. PICK n \in job[w].old : Goto(w, "purge", [job[w] EXCEPT !.row = n])
    BY <1>8 DEF StatementFails
  <2> DEFINE j == [job[w] EXCEPT !.row = n]
  <2>2. Goto(w, "purge", j) /\ j.old = job[w].old
    BY <1>0, <2>1 DEF Jobs
  <2> HIDE DEF j
  <2>3. Loose(w)' = Loose(w)
    BY <1>2, <1>8, <2>2 DEF Loose
  <2> QED BY <1>4, <2>2, <2>3
<1>9. CASE StatementFails(w) /\ pc[w] \in {"purge", "nodePurge"}
  <2>1. PICK label \in {"drop", "nodeDrop"} :
          /\ Goto(w, label, job[w])
          /\ label = "drop" => pc[w] = "purge"
          /\ label = "nodeDrop" => pc[w] = "nodePurge"
    BY <1>9 DEF StatementFails
  <2>2. Loose(w)' = Loose(w)
    BY <1>2, <2>1 DEF Loose
  <2> QED BY <1>4, <2>1, <2>2
<1> QED BY <1>3, <1>5, <1>6, <1>7, <1>8, <1>9 DEF StatementFails

LEMMA TendedNext == TypeInv /\ Tended /\ [Next]_vars => Tended'
<1> SUFFICES ASSUME TypeInv, Tended, [Next]_vars PROVE Tended'
  OBVIOUS
<1>1. ASSUME NEW w \in Workers, Request(w) \/ Step(w) \/ StatementFails(w) \/ Abandon(w) PROVE Tended'
  BY <1>1, TendedReads, TendedCounts, TendedUpserts, TendedUnmaps, TendedDrops, TendedFailures
     DEF Request, Step
<1>2. CASE \/ \E s \in Sources : CreateSource(s) \/ \E flag \in BOOLEAN : SetIgnoreDead(s, flag)
           \/ \E n \in NodeIds : ExpireChecks(n)
           \/ UNCHANGED vars
  <2>1. UNCHANGED <<hashOf, mapping, leaked, pc, job>>
    BY <1>2 DEF CreateSource, SetIgnoreDead, ExpireChecks, vars, history
  <2> QED BY <2>1 DEF Tended, nodes, Orphan, Loose
<1> QED BY <1>1, <1>2 DEF Next

(* Whatever overlaps, fails or stops, a row that nothing maps is left       *)
(* behind only by a cleanup that removed a mapping made after it loaded     *)
(* them, or by a delete or mapping insert that failed or was never reached  *)
(* (docs/node-pool.md:12, upsert.go:99-198).                                *)
THEOREM OnlyLeakedOrphans == Spec => []NoOrphansAtRest
<1>1. Init => TypeInv /\ Tended
  BY DEF Init, TypeInv, DbOK, WorkersOK, WorkerOK, Labels, Jobs, NoJob,
         SourceLabels, CleanLabels, Tended, nodes
<1>2. TypeInv /\ Tended => NoOrphansAtRest
  BY DEF Tended, NoOrphansAtRest, AtRest, Loose
<1> QED BY <1>1, <1>2, TypeInvInductive, TendedNext, PTL DEF Spec

-----------------------------------------------------------------------------
(* What overlapping and failing handlers leave to a dead source             *)

ReportLabels == {"old", "upsert", "finish"}

(* A source that died without a report past its guard gets none, and it     *)
(* maps nothing or its cleanup is still to remove its mappings.             *)
Closed(s) ==
    /\ ~Reporting(s)
    /\ MappedTo(s) = {} \/ \E w \in Workers : s \in Uncleaned(w)

DeadClosed == \A s \in Sources : status[s] = "dead" => s \in spoiled \/ Closed(s)

(* A step of one worker that neither maps nodes to s nor reports for it.    *)
LEMMA ClosedStep ==
    ASSUME TypeInv, NEW s \in Sources, Closed(s), NEW w \in Workers, NEW label, NEW j,
           Goto(w, label, j), label \in ReportLabels => j.src # s,
           MappedTo(s)' \subseteq MappedTo(s),
           s \in Uncleaned(w) => s \in Uncleaned(w)' \/ MappedTo(s)' = {}
    PROVE  Closed(s)'
<1>1. /\ \A v \in Workers \ {w} : pc'[v] = pc[v] /\ job'[v] = job[v]
      /\ pc'[w] = label /\ job'[w] = j
  BY DEF Goto, TypeInv, WorkersOK
<1>2. ~Reporting(s)'
  BY <1>1 DEF Closed, Reporting, ReportLabels
<1>3. \A v \in Workers \ {w} : Uncleaned(v)' = Uncleaned(v)
  BY <1>1 DEF Uncleaned
<1> QED BY <1>2, <1>3 DEF Closed

(* Who reports for a closed source does not exist.                          *)
LEMMA NoReporter ==
    ASSUME NEW s, Closed(s), NEW w \in Workers, pc[w] \in ReportLabels
    PROVE  job[w].src # s
BY DEF Closed, Reporting, ReportLabels

(* Steps outside the cleanup that add no mapping and report for nobody.     *)
LEMMA ClosedQuiet ==
    ASSUME TypeInv, NEW s \in Sources, Closed(s), NEW w \in Workers, NEW label, NEW j,
           Goto(w, label, j), pc'[w] \notin ReportLabels,
           mapping' \subseteq mapping, pc[w] \notin {"load", "unmap"}
    PROVE  Closed(s)'
<1>1. MappedTo(s)' \subseteq MappedTo(s) /\ Uncleaned(w) = {}
  BY DEF MappedTo, Uncleaned
<1>2. pc'[w] = label
  BY DEF Goto, TypeInv, WorkersOK
<1> QED BY <1>1, <1>2, ClosedStep

LEMMA ClosedUpserts ==
    ASSUME TypeInv, NEW s \in Sources, Closed(s), NEW w \in Workers, pc[w] \in ReportLabels
    PROVE  LoadOld(w) \/ TxFind(w) \/ UpsertSerial(w) \/ TxFinish(w) => Closed(s)'
<1>0. job[w] \in Jobs /\ Uncleaned(w) = {}
  BY DEF ReportLabels, TypeInv, WorkersOK, Uncleaned
<1>1. job[w].src # s
  BY NoReporter
<1>2. ASSUME NEW label, NEW j, Goto(w, label, j), j.src = job[w].src, MappedTo(s)' \subseteq MappedTo(s)
      PROVE  Closed(s)'
  BY <1>0, <1>1, <1>2, ClosedStep
<1>3. CASE LoadOld(w)
  <2> DEFINE j == [job[w] EXCEPT !.old = MappedTo(job[w].src)]
  <2>1. Goto(w, Upserting(job[w].todo), j) /\ mapping' = mapping
    BY <1>3 DEF LoadOld, db
  <2>2. j.src = job[w].src /\ MappedTo(s)' \subseteq MappedTo(s)
    BY <1>0, <2>1 DEF Jobs, MappedTo
  <2> HIDE DEF j
  <2> QED BY <1>2, <2>1, <2>2
<1>4. CASE TxFind(w)
  <2>1. PICK h \in job[w].todo :
          \E n \in (IF RowsOf(h) = {} THEN {None} ELSE RowsOf(h)) :
            Goto(w, "finish", [job[w] EXCEPT !.cur = h, !.row = n])
    BY <1>4 DEF TxFind
  <2>2. PICK n \in (IF RowsOf(h) = {} THEN {None} ELSE RowsOf(h)) :
          Goto(w, "finish", [job[w] EXCEPT !.cur = h, !.row = n])
    BY <2>1
  <2> DEFINE j == [job[w] EXCEPT !.cur = h, !.row = n]
  <2>0. mapping' = mapping
    BY <1>4 DEF TxFind, db
  <2>3. j.src = job[w].src /\ MappedTo(s)' \subseteq MappedTo(s)
    BY <1>0, <2>0 DEF Jobs, MappedTo
  <2>4. Goto(w, "finish", j)
    BY <2>2
  <2> HIDE DEF j
  <2> QED BY <1>2, <2>3, <2>4
<1>5. ASSUME NEW h, SkipNode(w, h) PROVE Closed(s)'
  <2> DEFINE j == [job[w] EXCEPT !.todo = @ \ {h}, !.cur = None, !.row = None]
  <2>1. Goto(w, Upserting(job[w].todo \ {h}), j) /\ mapping' = mapping
    BY <1>5 DEF SkipNode, db
  <2>2. j.src = job[w].src /\ MappedTo(s)' \subseteq MappedTo(s)
    BY <1>0, <2>1 DEF Jobs, MappedTo
  <2> HIDE DEF j
  <2> QED BY <1>2, <2>1, <2>2
<1>6. ASSUME NEW h, NEW n, Stored(w, h, n) PROVE Closed(s)'
  <2> DEFINE j == [job[w] EXCEPT !.todo = @ \ {h}, !.kept = @ \cup {n},
                                 !.cur = None, !.row = None]
  <2>1. Goto(w, Upserting(job[w].todo \ {h}), j)
    BY <1>6 DEF Stored
  <2>2. mapping' = mapping \/ mapping' = mapping \cup {<<n, job[w].src>>}
    BY <1>6 DEF Stored
  <2>3. j.src = job[w].src
    BY <1>0 DEF Jobs
  <2>4. MappedTo(s)' \subseteq MappedTo(s)
    BY <1>1, <2>2 DEF MappedTo
  <2> HIDE DEF j
  <2> QED BY <1>2, <2>1, <2>3, <2>4
<1>7. CASE UpsertSerial(w)
  BY <1>5, <1>6, <1>7 DEF UpsertSerial, UseRow, InsertRow
<1>8. CASE TxFinish(w)
  BY <1>5, <1>6, <1>8 DEF TxFinish, UseRow, InsertRow
<1> QED BY <1>3, <1>4, <1>7, <1>8

(* The cleanup: the source maps nothing when it leaves these statements.    *)
LEMMA ClosedCleans ==
    ASSUME TypeInv, NEW s \in Sources, Closed(s), NEW w \in Workers,
           LoadMappings(w) \/ UnmapAll(w)
    PROVE  Closed(s)'
<1>0. job[w] \in Jobs /\ job[w].ret \notin ReportLabels
  BY DEF TypeInv, WorkersOK, Jobs, ReportLabels
<1>1. CASE LoadMappings(w)
  <2> DEFINE j == [job[w] EXCEPT !.old = MappedTo(job[w].src)]
             label == IF MappedTo(job[w].src) = {} THEN job[w].ret ELSE "unmap"
  <2>1. Goto(w, label, j) /\ mapping' = mapping /\ pc[w] = "load"
    BY <1>1 DEF LoadMappings, db
  <2>2. j.src = job[w].src /\ j.ret = job[w].ret /\ label \notin ReportLabels
    BY <1>0 DEF Jobs, ReportLabels
  <2>3. MappedTo(s)' = MappedTo(s)
    BY <2>1 DEF MappedTo
  <2>4. MappedTo(job[w].src) # {} => label = "unmap"
    OBVIOUS
  <2> HIDE DEF j, label
  <2>5. pc'[w] = label /\ job'[w] = j
    BY <2>1 DEF Goto, TypeInv, WorkersOK
  <2>6. s \in Uncleaned(w) => s \in Uncleaned(w)' \/ MappedTo(s)' = {}
    BY <2>1, <2>2, <2>3, <2>4, <2>5 DEF Uncleaned
  <2> QED BY <2>1, <2>2, <2>3, <2>6, ClosedStep
<1>2. CASE UnmapAll(w)
  <2>1. Goto(w, "count", job[w]) /\ mapping' = {m \in mapping : m[2] # job[w].src}
    BY <1>2 DEF UnmapAll
  <2>2. MappedTo(s)' \subseteq MappedTo(s) /\ (s = job[w].src => MappedTo(s)' = {})
    BY <2>1 DEF MappedTo
  <2>3. s \in Uncleaned(w) => s = job[w].src
    BY DEF Uncleaned
  <2> QED BY <2>1, <2>2, <2>3, ClosedStep DEF ReportLabels
<1> QED BY <1>1, <1>2

(* The other steps of the handlers of source and node.                      *)
LEMMA ClosedOthers ==
    ASSUME TypeInv, NEW s \in Sources, Closed(s), NEW w \in Workers
    PROVE  \/ Request(w)
           \/ Stale(w) \/ StaleDrop(w) \/ EndStale(w) \/ Eval(w)
           \/ Count(w) \/ Purge(w) \/ Drop(w) \/ EndClean(w) \/ Affected(w) \/ NextSource(w)
           \/ DeleteRow(w) \/ NodeUnmap(w) \/ NodePurge(w) \/ NodeDrop(w)
           => Closed(s)'
<1>0. job[w].ret \notin ReportLabels /\ pc \in [Workers -> Labels]
  BY DEF TypeInv, WorkersOK, Jobs, ReportLabels
<1>1. ASSUME Request(w) \/ Step(w), pc'[w] \notin ReportLabels,
             mapping' \subseteq mapping, pc[w] \notin {"load", "unmap"}
      PROVE  Closed(s)'
  BY <1>1, StepsMove, ClosedQuiet
<1>2. CASE Request(w)
  <2>1. CASE FetchResult(w)
    BY <1>0, <1>1, <2>1 DEF FetchResult, ReportLabels, Goto, db, Request
  <2>2. CASE CheckResults(w)
    BY <1>0, <1>1, <2>2 DEF CheckResults, ReportLabels, Goto, Request
  <2>3. CASE DeleteSource(w) \/ DeleteNode(w)
    BY <1>0, <1>1, <2>3 DEF DeleteSource, DeleteNode, ReportLabels, Goto, db, Request
  <2> QED BY <1>2, <2>1, <2>2, <2>3 DEF Request
<1>3. CASE Stale(w) \/ StaleDrop(w) \/ EndStale(w) \/ Eval(w) \/ Count(w) \/ Purge(w) \/ Drop(w)
  <2>1. pc[w] \notin {"load", "unmap"} /\ mapping' \subseteq mapping
    BY <1>3 DEF Stale, StaleDrop, EndStale, Eval, Count, Purge, Drop, db
  <2>2. pc'[w] \notin ReportLabels
    BY <1>0, <1>3 DEF Stale, StaleDrop, EndStale, Eval, Count, Purge, Drop, ReportLabels, Goto
  <2> QED BY <1>1, <1>3, <2>1, <2>2 DEF Step
<1>4. CASE EndClean(w) \/ Affected(w) \/ NextSource(w)
  BY <1>0, <1>1, <1>4 DEF EndClean, Affected, NextSource, ReportLabels, Goto, db, Step
<1>5. CASE DeleteRow(w)
  BY <1>0, <1>1, <1>5 DEF DeleteRow, ReportLabels, Goto, Step
<1>6. CASE NodeUnmap(w) \/ NodePurge(w) \/ NodeDrop(w)
  <2>1. pc[w] \notin {"load", "unmap"} /\ pc'[w] \notin ReportLabels
    BY <1>0, <1>6 DEF NodeUnmap, NodePurge, NodeDrop, ReportLabels, Goto
  <2>2. mapping' \subseteq mapping
    BY <1>6 DEF NodeUnmap, NodePurge, NodeDrop
  <2> QED BY <1>1, <1>6, <2>1, <2>2 DEF Step
<1> QED BY <1>2, <1>3, <1>4, <1>5, <1>6

(* A failure keeps the source closed unless it let go of its mappings.      *)
LEMMA ClosedFailures ==
    ASSUME TypeInv, NEW s \in Sources, Closed(s), NEW w \in Workers,
           StatementFails(w) \/ Abandon(w), s \notin spoiled'
    PROVE  Closed(s)'
<1>0. job[w].ret \notin ReportLabels
  BY DEF TypeInv, WorkersOK, Jobs, ReportLabels
<1>1. s \notin Uncleaned(w) /\ mapping' = mapping
  BY DEF StatementFails, Abandon, db
<1>2. \E label, j : Goto(w, label, j)
  BY DEF StatementFails, Abandon
<1>3. pc'[w] \notin ReportLabels
  BY <1>0 DEF StatementFails, Abandon, ReportLabels, Goto, TypeInv, WorkersOK
<1>4. MappedTo(s)' \subseteq MappedTo(s)
  BY <1>1 DEF MappedTo
<1>5. ASSUME NEW label, NEW j, Goto(w, label, j) PROVE label = pc'[w]
  BY <1>5 DEF Goto, TypeInv, WorkersOK
<1> QED BY <1>1, <1>2, <1>3, <1>4, <1>5, ClosedStep

LEMMA DeadClosedNext == TypeInv /\ DeadClosed /\ [Next]_vars => DeadClosed'
<1> SUFFICES ASSUME TypeInv, DeadClosed, [Next]_vars, NEW s \in Sources,
                    status'[s] = "dead", s \notin spoiled'
             PROVE  Closed(s)'
  BY DEF DeadClosed
<1>1. ASSUME status[s] = "dead", s \notin spoiled PROVE Closed(s)
  BY <1>1 DEF DeadClosed
<1>2. ASSUME NEW w \in Workers, Guard(w) PROVE Closed(s)'
  <2>1. status' = status /\ spoiled \subseteq spoiled' /\ mapping' = mapping /\ pc[w] = "guard"
    BY <1>2 DEF Guard, db, history
  <2>2. Closed(s)
    BY <1>1, <2>1
  <2>3. ASSUME NEW label, NEW j, Goto(w, label, j) PROVE label = pc'[w]
    BY <2>3 DEF Goto, TypeInv, WorkersOK
  <2>4. CASE job[w].src = s
    <3>1. spoiled' # spoiled \cup {t \in {job[w].src} : status[t] = "dead"}
      BY <1>1, <2>1, <2>4
    <3>2. Goto(w, "eval", [NoJob EXCEPT !.src = job[w].src])
      BY <1>2, <3>1 DEF Guard
    <3> QED BY <2>1, <2>2, <2>3, <3>2, ClosedQuiet DEF ReportLabels
  <2>5. CASE job[w].src # s
    <3>1. CASE Goto(w, "old", job[w])
      <4>1. MappedTo(s)' \subseteq MappedTo(s) /\ Uncleaned(w) = {}
        BY <2>1 DEF MappedTo, Uncleaned
      <4> QED BY <2>2, <2>5, <3>1, <4>1, ClosedStep
    <3>2. CASE \E label, j : Goto(w, label, j) /\ label \notin ReportLabels
      BY <2>1, <2>2, <2>3, <3>2, ClosedQuiet
    <3> QED BY <1>2, <3>1, <3>2 DEF Guard, ReportLabels
  <2> QED BY <2>4, <2>5
<1>3. ASSUME NEW w \in Workers, MarkDead(w) PROVE Closed(s)'
  <2>0. pc[w] = "mark" /\ mapping' = mapping /\ job[w] \in Jobs /\ spoiled \subseteq spoiled'
    BY <1>3 DEF MarkDead, TypeInv, WorkersOK
  <2>1. CASE status[s] = "dead"
    <3>1. (\E label, j : Goto(w, label, j)) /\ pc'[w] \notin ReportLabels
      BY <1>3 DEF MarkDead, ReportLabels, Goto, TypeInv, WorkersOK
    <3> QED BY <1>1, <2>0, <2>1, <3>1, ClosedQuiet
  <2>2. CASE status[s] # "dead"
    <3> DEFINE j == [job[w] EXCEPT !.ret = "next"]
    <3>1. /\ s = job[w].src /\ Goto(w, "load", j)
          /\ spoiled' = spoiled \cup {t \in {s} : Reporting(t)}
      BY <1>3, <2>2 DEF MarkDead, TypeInv, DbOK
    <3>2. j.src = s /\ j.ret = "next"
      BY <2>0, <3>1 DEF Jobs
    <3> HIDE DEF j
    <3>3. pc'[w] = "load" /\ job'[w] = j /\ \A v \in Workers \ {w} : pc'[v] = pc[v] /\ job'[v] = job[v]
      BY <3>1 DEF Goto, TypeInv, WorkersOK
    <3>4. s \in Uncleaned(w)'
      BY <3>2, <3>3 DEF Uncleaned
    <3>5. ~Reporting(s)'
      BY <3>1, <3>3 DEF Reporting
    <3> QED BY <3>4, <3>5 DEF Closed
  <2> QED BY <2>1, <2>2
<1>4. ASSUME NEW w \in Workers, DeleteRow(w) PROVE Closed(s)'
  <2>1. status[s] = "dead" /\ s # job[w].src /\ spoiled' = spoiled \ {job[w].src}
    BY <1>4 DEF DeleteRow, TypeInv, DbOK
  <2> QED BY <1>1, <1>4, <2>1, ClosedOthers
<1>5. ASSUME NEW w \in Workers, StatementFails(w) \/ Abandon(w) PROVE Closed(s)'
  <2>1. status' = status /\ spoiled \subseteq spoiled'
    BY <1>5 DEF StatementFails, Abandon, db
  <2> QED BY <1>1, <1>5, <2>1, ClosedFailures
<1>6. ASSUME NEW w \in Workers, LoadOld(w) \/ TxFind(w) \/ UpsertSerial(w) \/ TxFinish(w)
      PROVE  Closed(s)'
  <2>1. status' = status /\ spoiled' = spoiled
    <3>1. CASE LoadOld(w) \/ TxFind(w)
      BY <3>1 DEF LoadOld, TxFind, db, history
    <3>2. CASE UpsertSerial(w)
      BY <3>2 DEF UpsertSerial, UseRow, InsertRow, SkipNode, db, history
    <3>3. CASE TxFinish(w)
      BY <3>3 DEF TxFinish, UseRow, InsertRow, SkipNode, db, history
    <3> QED BY <1>6, <3>1, <3>2, <3>3
  <2>2. pc[w] \in ReportLabels
    <3>1. CASE LoadOld(w) \/ TxFind(w)
      BY <3>1 DEF LoadOld, TxFind, ReportLabels
    <3>2. CASE UpsertSerial(w) \/ TxFinish(w)
      BY <3>2 DEF UpsertSerial, TxFinish, ReportLabels
    <3> QED BY <1>6, <3>1, <3>2
  <2> QED BY <1>1, <1>6, <2>1, <2>2, ClosedUpserts
<1>7. ASSUME NEW w \in Workers, LoadMappings(w) \/ UnmapAll(w) PROVE Closed(s)'
  <2>1. status' = status /\ spoiled' = spoiled
    BY <1>7 DEF LoadMappings, UnmapAll, db, history
  <2> QED BY <1>1, <1>7, <2>1, ClosedCleans
<1>8. ASSUME NEW w \in Workers,
             \/ Request(w)
             \/ Stale(w) \/ StaleDrop(w) \/ EndStale(w) \/ Eval(w)
             \/ Count(w) \/ Purge(w) \/ Drop(w) \/ EndClean(w) \/ Affected(w) \/ NextSource(w)
             \/ NodeUnmap(w) \/ NodePurge(w) \/ NodeDrop(w)
      PROVE  Closed(s)'
  <2>1. status' = status /\ spoiled' = spoiled
    <3>1. CASE Request(w)
      BY <3>1 DEF Request, FetchResult, CheckResults, DeleteSource, DeleteNode, db, history
    <3>2. CASE Stale(w) \/ StaleDrop(w) \/ EndStale(w) \/ Eval(w) \/ Count(w) \/ Purge(w) \/ Drop(w)
      BY <3>2 DEF Stale, StaleDrop, EndStale, Eval, Count, Purge, Drop, db, history
    <3>3. CASE EndClean(w) \/ Affected(w) \/ NextSource(w) \/ NodeUnmap(w) \/ NodePurge(w) \/ NodeDrop(w)
      BY <3>3 DEF EndClean, Affected, NextSource, NodeUnmap, NodePurge, NodeDrop, db, history
    <3> QED BY <1>8, <3>1, <3>2, <3>3
  <2> QED BY <1>1, <1>8, <2>1, ClosedOthers
<1>9. CASE \/ \E t \in Sources : CreateSource(t) \/ \E flag \in BOOLEAN : SetIgnoreDead(t, flag)
           \/ \E n \in NodeIds : ExpireChecks(n)
           \/ UNCHANGED vars
  <2>1. UNCHANGED <<mapping, spoiled, pc, job>> /\ status[s] = "dead"
    BY <1>9 DEF CreateSource, SetIgnoreDead, ExpireChecks, vars, history, TypeInv, DbOK
  <2> QED BY <1>1, <2>1 DEF Closed, Reporting, MappedTo, Uncleaned
<1> QED BY <1>2, <1>3, <1>4, <1>5, <1>6, <1>7, <1>8, <1>9 DEF Next, Step

(* A dead source stays without nodes whatever overlaps, fails or stops,     *)
(* unless a report of it had passed the guard, or its cleanup failed before *)
(* it removed the mappings (upsert.go:35-37, source/service.go:178-194).    *)
THEOREM OnlySpoiledSourcesFill == Spec => []DeadSourcesStayEmpty
<1>1. Init => TypeInv /\ DeadClosed
  BY DEF Init, TypeInv, DbOK, WorkersOK, WorkerOK, Labels, Jobs, NoJob,
         SourceLabels, CleanLabels, DeadClosed
<1>2. TypeInv /\ DeadClosed => DeadSourcesStayEmpty
  BY DEF DeadClosed, Closed, DeadSourcesStayEmpty, AtRest, Uncleaned
<1> QED BY <1>1, <1>2, TypeInvInductive, DeadClosedNext, PTL DEF Spec
=============================================================================
