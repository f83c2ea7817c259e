-------------------------- MODULE AliveCacheProofs --------------------------
(***************************************************************************)
(* AliveCache for any number of nodes, tags and scores: its types, that no *)
(* rebuild trigger is lost, so that only silent changes make the cache lag *)
(* behind the tables, and that it implements ViewContract, whether or not  *)
(* queries fail: a rebuild that lost one leaves the cache dirty.           *)
(***************************************************************************)
EXTENDS AliveCache, TLAPS

(* A submission announces what it changes, so nothing is left unseen.       *)
OwedSeesAll == Owed => unseen = {}

(* The inductive invariant: what a running rebuild has found is current     *)
(* while no further one is owed, and so is what the last one published.     *)
CacheInv == TypeOK /\ OwedSeesAll /\ FoundCurrent /\ FreshAtRest

LEMMA ViewType == ASSUME TypeOK PROVE View \in Views
BY DEF TypeOK, View, Views, Entries

LEMMA EmptyType == Empty \in Views
BY DEF Empty, Views, Entries

LEMMA UnscoredType == ASSUME NEW pairs PROVE Unscored(pairs) \in Views
BY DEF Unscored, Views, Entries

LEMMA SilentType ==
    ASSUME TypeOK, NEW touched \in SUBSET Pairs, Silently(touched)
    PROVE  unseen' \in SUBSET Pairs
BY DEF TypeOK, Silently

(* Each action keeps the types.                                             *)
LEMMA TypeStep ==
    ASSUME TypeOK, [Next]_vars
    PROVE  TypeOK'
<1> USE DEF TypeOK, dbVars, loopVars
<1>1. ASSUME NEW t \in Tags, RecordRun(t)
      PROVE  TypeOK'
  <2>1. latest' \in SUBSET Pairs
    BY <1>1 DEF RecordRun, Pairs
  <2> QED BY <1>1, <2>1 DEF RecordRun
<1>2. ASSUME NEW t \in Tags, MarkAlive(t)
      PROVE  TypeOK'
  BY <1>2 DEF MarkAlive
<1>3. ASSUME NEW t \in Tags, MarkDead(t)
      PROVE  TypeOK'
  BY <1>3 DEF MarkDead
<1>4. ASSUME NEW t \in Tags, TriggerRebuild(t)
      PROVE  TypeOK'
  BY <1>4 DEF TriggerRebuild
<1>5. ASSUME NEW t \in Tags, WriteScore(t)
      PROVE  TypeOK'
  <2>0. PICK n \in Nodes, v \in Scores : \E out \in SUBSET {<<t, n>>} :
          /\ score' = [score EXCEPT ![<<t, n>>] = v]
          /\ excluded' = (excluded \ {<<t, n>>}) \cup out
          /\ Silently({<<t, n>>})
    BY <1>5 DEF WriteScore
  <2>1. PICK out \in SUBSET {<<t, n>>} :
          /\ score' = [score EXCEPT ![<<t, n>>] = v]
          /\ excluded' = (excluded \ {<<t, n>>}) \cup out
          /\ Silently({<<t, n>>})
    BY <2>0
  <2>2. {<<t, n>>} \in SUBSET Pairs
    BY DEF Pairs
  <2>3. unseen' \in SUBSET Pairs /\ excluded' \in SUBSET Pairs
    BY <2>1, <2>2, SilentType
  <2>4. score' \in [Pairs -> Scores \cup {NoScore}]
    BY <2>1
  <2> QED BY <1>5, <2>3, <2>4 DEF WriteScore
<1>6. ASSUME NEW n \in Nodes, DeleteNode(n)
      PROVE  TypeOK'
  <2>1. Tags \X {n} \in SUBSET Pairs
    BY DEF Pairs
  <2>2. unseen' \in SUBSET Pairs
    BY <1>6, <2>1, SilentType DEF DeleteNode
  <2> QED BY <1>6, <2>2 DEF DeleteNode
<1>7. CASE Refilter
  <2>1. unseen' \in SUBSET Pairs /\ excluded' \in SUBSET Pairs
    BY <1>7, SilentType DEF Refilter
  <2> QED BY <1>7, <2>1 DEF Refilter
<1>8. ASSUME NEW p \in Pairs, Prune(p)
      PROVE  TypeOK'
  <2>1. unseen' \in SUBSET Pairs
    BY <1>8, SilentType DEF Prune
  <2> QED BY <1>8, <2>1 DEF Prune
<1>9. CASE Receive \/ Postpone \/ TimerFires
  BY <1>9 DEF Receive, Postpone, TimerFires
<1>10. CASE ReadAlive
  BY <1>10, UnscoredType, EmptyType DEF ReadAlive
<1>11. CASE ReadRuns
  <2>1. [p \in Pairs |-> IF p \in latest THEN found[p] ELSE Absent] \in Views
    BY DEF Views, Entries
  <2> QED BY <1>11, <2>1, EmptyType DEF ReadRuns
<1>12. CASE ReadFilter
  BY <1>12 DEF ReadFilter, Published
<1>13. CASE Swap
  BY <1>13, EmptyType DEF Swap
<1>14. CASE Restart
  BY <1>14, EmptyType DEF Restart
<1>15. CASE UNCHANGED vars
  BY <1>15 DEF vars
<1> QED
  BY <1>1, <1>2, <1>3, <1>4, <1>5, <1>6, <1>7, <1>8, <1>9, <1>10, <1>11, <1>12, <1>13,
     <1>14, <1>15
     DEF Next, Submission, Loop, Rebuilding

LEMMA TypeInit == Init => TypeOK
BY EmptyType DEF Init, TypeOK

(* Every variable keeps its type in every reachable state, with or without  *)
(* failing queries, restarts and deletions.                                 *)
THEOREM TypeCorrect == Spec => []TypeOK
BY TypeInit, TypeStep, PTL DEF Spec

-----------------------------------------------------------------------------
(* The owed rebuild *)

LEMMA InvInit == Init => CacheInv
<1> SUFFICES ASSUME Init PROVE CacheInv
  OBVIOUS
<1>1. Owed /\ unseen = {}
  BY DEF Init, Owed
<1> QED BY <1>1, TypeInit DEF CacheInv, OwedSeesAll, FoundCurrent, FreshAtRest, AtRest

(* A submission owes a rebuild until its trigger has been received.         *)
LEMMA SubmissionOwes ==
    ASSUME TypeOK, OwedSeesAll, NEW t \in Tags,
           RecordRun(t) \/ Submission(t)
    PROVE  Owed' /\ unseen' = {}
<1>1. CASE RecordRun(t)
  BY <1>1 DEF RecordRun, Owed, TypeOK
<1>2. CASE MarkAlive(t) \/ MarkDead(t)
  <2>1. Owed
    BY <1>2 DEF MarkAlive, MarkDead, Owed
  <2> QED BY <1>2, <2>1 DEF MarkAlive, MarkDead, Owed, OwedSeesAll, TypeOK
<1>3. CASE TriggerRebuild(t)
  <2>1. Owed
    BY <1>3 DEF TriggerRebuild, Owed
  <2> QED BY <1>3, <2>1 DEF TriggerRebuild, Owed, OwedSeesAll
<1> QED BY <1>1, <1>2, <1>3 DEF Submission

(* What a silent change of the tables preserves: whatever it touches is     *)
(* taken off the pairs the invariant speaks of, or a rebuild is owed.       *)
LEMMA SilentStep ==
    ASSUME CacheInv, NEW touched \in SUBSET Pairs, Silently(touched),
           UNCHANGED <<phase, loopVars>>,
           \A p \in Pairs \ touched :
               /\ (p[2] \in alive)' <=> p[2] \in alive
               /\ (p \in latest)' <=> p \in latest
               /\ View'[p] = View[p]
    PROVE  OwedSeesAll' /\ FoundCurrent' /\ FreshAtRest'
<1>1. (Owed' <=> Owed) /\ UNCHANGED <<triggered, loop, found, failed, cache>>
  BY DEF Owed, loopVars
<1>2. CASE Owed
  BY <1>1, <1>2
     DEF Silently, CacheInv, OwedSeesAll, FoundCurrent, FreshAtRest, AtRest
<1>3. CASE ~Owed
  <2>1. unseen' = unseen \cup touched
    BY <1>3 DEF Silently
  <2>2. FoundCurrent'
    BY <1>1, <1>3, <2>1 DEF CacheInv, FoundCurrent
  <2>3. FreshAtRest'
    BY <1>1, <1>3, <2>1 DEF CacheInv, FreshAtRest, AtRest, Fresh
  <2> QED BY <1>1, <1>3, <2>2, <2>3 DEF OwedSeesAll
<1> QED BY <1>2, <1>3

(* The silent changes touch what they say and nothing else.                 *)
LEMMA SilentTouches ==
    ASSUME TypeOK, TypeOK',
           \/ Refilter
           \/ \E t \in Tags : WriteScore(t)
           \/ \E p \in Pairs : Prune(p)
           \/ \E n \in Nodes : DeleteNode(n)
    PROVE  /\ UNCHANGED <<phase, loopVars>>
           /\ \E touched \in SUBSET Pairs :
                /\ Silently(touched)
                /\ \A p \in Pairs \ touched :
                      /\ (p[2] \in alive)' <=> p[2] \in alive
                      /\ (p \in latest)' <=> p \in latest
                      /\ View'[p] = View[p]
<1>1. CASE Refilter
  <2>0. PICK touched \in SUBSET Pairs : \E out \in SUBSET touched :
          excluded' = (excluded \ touched) \cup out /\ Silently(touched)
    BY <1>1 DEF Refilter
  <2>1. PICK out \in SUBSET touched :
          excluded' = (excluded \ touched) \cup out /\ Silently(touched)
    BY <2>0
  <2>2. UNCHANGED <<alive, latest, score, phase, loopVars>>
    BY <1>1 DEF Refilter
  <2> QED BY <2>1, <2>2 DEF View
<1>2. ASSUME NEW t \in Tags, WriteScore(t)
      PROVE  /\ UNCHANGED <<phase, loopVars>>
             /\ \E touched \in SUBSET Pairs :
                  /\ Silently(touched)
                  /\ \A p \in Pairs \ touched :
                        /\ (p[2] \in alive)' <=> p[2] \in alive
                        /\ (p \in latest)' <=> p \in latest
                        /\ View'[p] = View[p]
  <2>0. PICK n \in Nodes, v \in Scores : \E out \in SUBSET {<<t, n>>} :
          /\ score' = [score EXCEPT ![<<t, n>>] = v]
          /\ excluded' = (excluded \ {<<t, n>>}) \cup out
          /\ Silently({<<t, n>>})
    BY <1>2 DEF WriteScore
  <2>1. PICK out \in SUBSET {<<t, n>>} :
          /\ score' = [score EXCEPT ![<<t, n>>] = v]
          /\ excluded' = (excluded \ {<<t, n>>}) \cup out
          /\ Silently({<<t, n>>})
    BY <2>0
  <2>2. UNCHANGED <<alive, latest, phase, loopVars>>
    BY <1>2 DEF WriteScore
  <2>3. {<<t, n>>} \in SUBSET Pairs
    BY DEF Pairs
  <2>4. ASSUME NEW p \in Pairs \ {<<t, n>>}
        PROVE  View'[p] = View[p]
    <3>1. score'[p] = score[p] /\ (p \in excluded' <=> p \in excluded)
      BY <2>1 DEF TypeOK
    <3> QED BY <2>2, <3>1 DEF View
  <2> QED BY <2>1, <2>2, <2>3, <2>4
<1>3. ASSUME NEW q \in Pairs, Prune(q)
      PROVE  /\ UNCHANGED <<phase, loopVars>>
             /\ \E touched \in SUBSET Pairs :
                  /\ Silently(touched)
                  /\ \A p \in Pairs \ touched :
                        /\ (p[2] \in alive)' <=> p[2] \in alive
                        /\ (p \in latest)' <=> p \in latest
                        /\ View'[p] = View[p]
  BY <1>3 DEF Prune, View
<1>4. ASSUME NEW n \in Nodes, DeleteNode(n)
      PROVE  /\ UNCHANGED <<phase, loopVars>>
             /\ \E touched \in SUBSET Pairs :
                  /\ Silently(touched)
                  /\ \A p \in Pairs \ touched :
                        /\ (p[2] \in alive)' <=> p[2] \in alive
                        /\ (p \in latest)' <=> p \in latest
                        /\ View'[p] = View[p]
  <2>1. Tags \X {n} \in SUBSET Pairs
    BY DEF Pairs
  <2>2. \A p \in Pairs \ (Tags \X {n}) : p[2] \in alive' <=> p[2] \in alive
    BY <1>4 DEF DeleteNode, Pairs
  <2> QED BY <1>4, <2>1, <2>2 DEF DeleteNode, View
<1> QED BY <1>1, <1>2, <1>3, <1>4

LEMMA InvStep ==
    ASSUME CacheInv, [Next]_vars
    PROVE  CacheInv'
<1>t. TypeOK /\ TypeOK'
  BY TypeStep DEF CacheInv
<1>i. OwedSeesAll /\ FoundCurrent /\ FreshAtRest
  BY DEF CacheInv
<1>g. SUFFICES OwedSeesAll' /\ FoundCurrent' /\ FreshAtRest'
  BY <1>t DEF CacheInv
<1>o. ASSUME Owed', unseen' = {}
      PROVE  OwedSeesAll' /\ FoundCurrent' /\ FreshAtRest'
  BY <1>o DEF OwedSeesAll, FoundCurrent, FreshAtRest, AtRest
<1>1. ASSUME NEW t \in Tags, RecordRun(t) \/ Submission(t)
      PROVE  OwedSeesAll' /\ FoundCurrent' /\ FreshAtRest'
  BY <1>1, <1>t, <1>i, <1>o, SubmissionOwes
<1>2. CASE \/ Refilter
           \/ \E t \in Tags : WriteScore(t)
           \/ \E p \in Pairs : Prune(p)
           \/ \E n \in Nodes : DeleteNode(n)
  BY <1>2, <1>t, SilentTouches, SilentStep
<1>3. CASE Receive \/ Postpone \/ TimerFires
  BY <1>3, <1>i, <1>o DEF Receive, Postpone, TimerFires, Owed, OwedSeesAll
<1>4. CASE ReadAlive
  <2>1. Owed /\ unseen = {} /\ unseen' = {} /\ UNCHANGED <<alive, View>>
    BY <1>4, <1>i DEF ReadAlive, Owed, OwedSeesAll, dbVars, View
  <2>2. CASE found' = Unscored(Tags \X alive) /\ loop' = "readRuns"
    <3>1. ASSUME NEW p \in Pairs
          PROVE  found'[p] # Absent <=> p[2] \in alive
      BY <2>2, AbsentAssumption DEF Unscored, Pairs
    <3> QED BY <2>1, <2>2, <3>1 DEF OwedSeesAll, FoundCurrent, FreshAtRest, AtRest
  <2>3. CASE alive = {} /\ cache' = Empty /\ loop' = "wait"
    <3>1. \A p \in Pairs : cache'[p] = View[p]
      BY <2>3 DEF Empty, View
    <3> QED BY <2>1, <2>3, <3>1 DEF OwedSeesAll, FoundCurrent, FreshAtRest, AtRest, Fresh
  <2>4. CASE failed'
    BY <2>1, <2>4 DEF OwedSeesAll, FoundCurrent, FreshAtRest, AtRest
  <2> QED BY <1>4, <2>2, <2>3, <2>4 DEF ReadAlive
<1>5. CASE ReadRuns
  <2>1. (Owed' <=> Owed) /\ loop' = "readFilter" /\ UNCHANGED <<unseen, alive, latest>>
    BY <1>5 DEF ReadRuns, Owed, dbVars
  <2>2. OwedSeesAll' /\ FreshAtRest'
    BY <2>1, <1>i DEF OwedSeesAll, FreshAtRest, AtRest
  <2>3. CASE failed'
    BY <2>2, <2>3 DEF FoundCurrent
  <2>4. CASE /\ found' = [p \in Pairs |-> IF p \in latest THEN found[p] ELSE Absent]
             /\ UNCHANGED failed
    BY <1>5, <1>i, <2>1, <2>2, <2>4 DEF ReadRuns, FoundCurrent
  <2> QED BY <1>5, <2>3, <2>4 DEF ReadRuns
<1>6. CASE ReadFilter
  <2>1. (Owed' <=> Owed) /\ loop' = "swap" /\ UNCHANGED <<unseen, View>>
    BY <1>6 DEF ReadFilter, Owed, dbVars, View
  <2>2. OwedSeesAll' /\ FreshAtRest'
    BY <2>1, <1>i DEF OwedSeesAll, FreshAtRest, AtRest
  <2>3. CASE failed'
    BY <2>2, <2>3 DEF FoundCurrent
  <2>4. CASE found' \in Published(Filtered) /\ UNCHANGED failed
    <3>1. ASSUME NEW p \in Pairs \ unseen, ~Owed, ~failed
          PROVE  found'[p] = View[p]
      <4>1. found[p] # Absent <=> p[2] \in alive /\ p \in latest
        BY <1>6, <1>i, <3>1 DEF ReadFilter, FoundCurrent
      <4>2. IF found[p] = Absent THEN found'[p] = Absent ELSE found'[p] \in Filtered(p)
        BY <2>4 DEF Published
      <4> QED BY <4>1, <4>2 DEF Filtered, View
    <3> QED BY <2>1, <2>2, <2>4, <3>1 DEF FoundCurrent
  <2> QED BY <1>6, <2>3, <2>4 DEF ReadFilter
<1>7. CASE Swap
  <2>1. (Owed' <=> Owed) /\ loop' = "wait" /\ UNCHANGED <<unseen, failed, View>>
    BY <1>7 DEF Swap, Owed, dbVars, View
  <2>2. OwedSeesAll' /\ FoundCurrent'
    BY <2>1, <1>i DEF OwedSeesAll, FoundCurrent
  <2>3. FreshAtRest'
    BY <1>7, <1>i, <2>1 DEF Swap, FoundCurrent, FreshAtRest, AtRest, Fresh
  <2> QED BY <2>2, <2>3
<1>8. CASE Restart
  BY <1>8, <1>o DEF Restart, Owed
<1>9. CASE UNCHANGED vars
  BY <1>9, <1>i
     DEF vars, OwedSeesAll, FoundCurrent, FreshAtRest, AtRest, Fresh, Owed, View, dbVars, loopVars
<1> QED
  BY <1>1, <1>2, <1>3, <1>4, <1>5, <1>6, <1>7, <1>8, <1>9 DEF Next, Loop, Rebuilding

LEMMA CacheInvariant == Spec => []CacheInv
<1>1. CacheInv /\ [Next]_vars => CacheInv'
  BY InvStep
<1> QED BY InvInit, <1>1, PTL DEF Spec

(* Whenever every submission has ended and the loop is at rest, the cache   *)
(* is what the tables and the filter say, unless the last rebuild lost a    *)
(* query and but for the pairs that changed silently when no rebuild was    *)
(* owed: no trigger is lost, and each one makes up for every silent change  *)
(* before it.                                                               *)
THEOREM CacheIsFreshAtRest == Spec => []FreshAtRest
<1>1. CacheInv => FreshAtRest
  BY DEF CacheInv
<1> QED BY <1>1, CacheInvariant, PTL

-----------------------------------------------------------------------------
(* Refinement *)

LEMMA ContractInit == Init => Contract!Init
<1> SUFFICES ASSUME Init PROVE Contract!Init
  OBVIOUS
<1>1. View \in Contract!Views /\ cache \in Contract!Views
  BY TypeInit, ViewType DEF TypeOK, Views, Contract!Views
<1>2. Dirty = TRUE /\ unseen = {}
  BY DEF Init, Dirty, Owed
<1> QED BY <1>1, <1>2 DEF Contract!Init

LEMMA ContractStep ==
    ASSUME CacheInv, CacheInv', [Next]_vars
    PROVE  [Contract!Next]_(Contract!vars)
<1>t. TypeOK /\ TypeOK' /\ OwedSeesAll /\ FreshAtRest'
  BY DEF CacheInv
<1>v. View' \in Contract!Views /\ cache' \in Contract!Views
  <2>1. View' \in Views'
    BY <1>t DEF TypeOK, View, Views, Entries
  <2> QED BY <2>1, <1>t DEF TypeOK, Views, Entries, Pairs, Contract!Views
<1>1. ASSUME NEW t \in Tags, RecordRun(t) \/ Submission(t)
      PROVE  Contract!Write
  <2>1. Dirty' = TRUE /\ unseen' = {}
    BY <1>1, <1>t, SubmissionOwes DEF Dirty
  <2>2. UNCHANGED cache
    BY <1>1 DEF RecordRun, Submission, MarkAlive, MarkDead, TriggerRebuild, loopVars
  <2> QED BY <2>1, <2>2, <1>v DEF Contract!Write
<1>2. CASE \/ Refilter
           \/ \E t \in Tags : WriteScore(t)
           \/ \E p \in Pairs : Prune(p)
           \/ \E n \in Nodes : DeleteNode(n)
  <2>1. UNCHANGED <<phase, loopVars>>
    BY <1>2, <1>t, SilentTouches
  <2>2. PICK touched \in SUBSET Pairs :
          Silently(touched) /\ \A p \in Pairs \ touched : View'[p] = View[p]
    BY <1>2, <1>t, SilentTouches
  <2>3. UNCHANGED <<cache, Dirty>>
    BY <2>1 DEF loopVars, Dirty, Owed
  <2>4. unseen' = unseen \cup touched \/ (Dirty /\ unseen' = unseen)
    BY <2>2 DEF Silently, Dirty
  <2> QED BY <2>2, <2>3, <2>4, <1>v DEF Contract!Drift, Contract!Next
<1>3. CASE Loop
  <2>1. Dirty /\ UNCHANGED <<View, unseen>>
    BY <1>3
       DEF Loop, Receive, Postpone, TimerFires, Rebuilding, ReadAlive, ReadRuns, ReadFilter,
           Swap, Dirty, Owed, View, dbVars
  <2>2. Dirty' \in BOOLEAN
    BY <1>t DEF Dirty, Owed, TypeOK
  <2>3. ~Dirty' => \A p \in Pairs \ unseen : cache'[p] = View[p]
    BY <1>t, <2>1 DEF FreshAtRest, AtRest, Fresh, Dirty
  <2> QED BY <1>v, <2>1, <2>2, <2>3 DEF Contract!Refresh, Contract!Next
<1>4. CASE Restart
  <2>1. Dirty' = TRUE /\ unseen' = {} /\ UNCHANGED View
    BY <1>4 DEF Restart, Dirty, Owed, View, dbVars
  <2> QED BY <2>1, <1>v DEF Contract!Restart, Contract!Next
<1>5. CASE UNCHANGED vars
  BY <1>5 DEF vars, Dirty, Owed, View, dbVars, loopVars, Contract!vars
<1> QED
  BY <1>1, <1>2, <1>3, <1>4, <1>5 DEF Next, Contract!Next

(* The cache with its trigger channel and rebuild loop implements the       *)
(* contract: not dirty means current but for the silent changes, and only a *)
(* submission or a restart makes it dirty or ends such a lag.               *)
THEOREM CacheImplementsContract == Spec => Implements
<1>1. CacheInv /\ CacheInv' /\ [Next]_vars => [Contract!Next]_(Contract!vars)
  BY ContractStep
<1> QED BY ContractInit, <1>1, CacheInvariant, PTL DEF Spec, Implements, Contract!Spec
=============================================================================
