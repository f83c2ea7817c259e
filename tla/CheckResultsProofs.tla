------------------------- MODULE CheckResultsProofs -------------------------
(***************************************************************************)
(* CheckResults for any number of nodes, tags and submissions, with every  *)
(* failure: its types, the serialisation of a tag's submissions, and that  *)
(* the alive flag agrees with the latest checks of every settled node.     *)
(***************************************************************************)
EXTENDS CheckResults, TLAPS

-----------------------------------------------------------------------------
(* The mutex *)

(* A submission knows its tag, and between lock and release the tag's mutex *)
(* is its own.                                                              *)
Held ==
    \A w \in Workers :
        /\ phase[w] # "idle" => work[w].tag \in Tags
        /\ phase[w] \in Locked => holder[work[w].tag] = w

LockInv == TypeOK /\ Held

LEMMA LockInit == Init => LockInv
BY DEF Init, LockInv, Held, TypeOK, NoWork, Works, Verdicts, Locked, Deciding

LEMMA WorkTypes ==
    ASSUME TypeOK, NEW w \in Workers
    PROVE  /\ work[w] \in Works
           /\ nodeIDs(w) \in SUBSET Nodes
           /\ Contested(w) \in SUBSET Nodes
BY DEF TypeOK, Works, nodeIDs, Contested

LEMMA NoWorkType == NoWork \in Works
BY DEF NoWork, Works

LEMMA ReleaseStep ==
    ASSUME LockInv, NEW w \in Workers, Release(w), phase[w] \in Locked,
           UNCHANGED <<dbVars, unsettled>>
    PROVE  LockInv'
BY NoneAssumption, NoWorkType
   DEF LockInv, Held, TypeOK, Release, Goto, Locked, Deciding, dbVars, NoWork

LEMMA PostWork ==
    ASSUME NEW t \in Tags, NEW up \in SUBSET Nodes, NEW down \in SUBSET Nodes
    PROVE  LET new == [NoWork EXCEPT !.tag = t, !.up = up, !.down = down]
           IN  new \in Works /\ new.tag = t
BY DEF NoWork, Works

(* What batchAliveDecision puts into the local variables.                   *)
LEMMA DecideWork ==
    ASSUME TypeOK, NEW w \in Workers, Decide(w)
    PROVE  /\ work' \in [Workers -> Works]
           /\ \A v \in Workers \ {w} : work'[v] = work[v]
           /\ work'[w].tag = work[w].tag
           /\ work'[w].up = work[w].up
           /\ work'[w].down = work[w].down
           /\ work'[w].aliveIDs = nodeIDs(w) \cap Reachable
           /\ work'[w].deadIDs = nodeIDs(w) \ Reachable
<1> DEFINE new == [work[w] EXCEPT !.aliveIDs = nodeIDs(w) \cap Reachable,
                                  !.deadIDs = nodeIDs(w) \ Reachable]
<1>1. work[w] \in Works /\ nodeIDs(w) \in SUBSET Nodes
  BY WorkTypes
<1>2. /\ new \in Works
      /\ new.tag = work[w].tag /\ new.up = work[w].up /\ new.down = work[w].down
      /\ new.aliveIDs = nodeIDs(w) \cap Reachable
      /\ new.deadIDs = nodeIDs(w) \ Reachable
  <2> HIDE DEF Reachable, nodeIDs
  <2> QED BY <1>1 DEF Works
<1>3. work \in [Workers -> Works]
  BY DEF TypeOK
<1>4. work' = [work EXCEPT ![w] = new]
  BY <1>3 DEF Decide
<1> HIDE DEF new
<1> QED BY <1>2, <1>3, <1>4

LEMMA LockStep ==
    ASSUME LockInv, [Next]_vars
    PROVE  LockInv'
<1> USE DEF LockInv, Held, TypeOK, Locked, Deciding, Goto, dbVars
<1>1. ASSUME NEW w \in Workers, Post(w)
      PROVE  LockInv'
  <2>1. PICK t \in Tags, up \in SUBSET Nodes :
          \E down \in SUBSET (Nodes \ up) :
            /\ up \cup down # {}
            /\ work' = [work EXCEPT ![w] = [NoWork EXCEPT !.tag = t, !.up = up, !.down = down]]
    BY <1>1, Zenon DEF Post
  <2>2. PICK down \in SUBSET (Nodes \ up) :
          work' = [work EXCEPT ![w] = [NoWork EXCEPT !.tag = t, !.up = up, !.down = down]]
    BY <2>1
  <2> DEFINE new == [NoWork EXCEPT !.tag = t, !.up = up, !.down = down]
  <2>3. new \in Works /\ new.tag = t
    BY PostWork
  <2>4. work' = [work EXCEPT ![w] = new]
    BY <2>2
  <2> HIDE DEF new
  <2> QED BY <1>1, <2>3, <2>4 DEF Post
<1>2. ASSUME NEW w \in Workers, Lock(w)
      PROVE  LockInv'
  BY <1>2, NoneAssumption DEF Lock
<1>3. ASSUME NEW w \in Workers, Record(w)
      PROVE  LockInv'
  <2>1. last' \in [Nodes -> [Tags -> Verdicts]]
    BY <1>3 DEF Record, Verdicts
  <2>2. fresh' \in SUBSET (Nodes \X Tags)
    BY <1>3, WorkTypes DEF Record
  <2> QED BY <1>3, <2>1, <2>2 DEF Record
<1>4. ASSUME NEW w \in Workers, Decide(w)
      PROVE  LockInv'
  <2>1. unsettled' \in SUBSET Nodes
    BY <1>4, WorkTypes DEF Decide
  <2> QED BY <1>4, <2>1, DecideWork DEF Decide
<1>5. ASSUME NEW w \in Workers, MarkAlive(w) \/ MarkDead(w)
      PROVE  LockInv'
  <2>1. alive' \in SUBSET Nodes
    BY <1>5, WorkTypes DEF MarkAlive, MarkDead, Works
  <2> QED BY <1>5, <2>1 DEF MarkAlive, MarkDead
<1>6. ASSUME NEW w \in Workers, DecideFails(w) \/ MarkFails(w)
      PROVE  LockInv'
  BY <1>6, WorkTypes DEF DecideFails, MarkFails
<1>7. ASSUME NEW w \in Workers, RecordFails(w) \/ Finish(w)
      PROVE  LockInv'
  BY <1>7, ReleaseStep DEF RecordFails, Finish
<1>8. ASSUME NEW n \in Nodes, NEW t \in Tags, Expire(n, t)
      PROVE  LockInv'
  BY <1>8 DEF Expire
<1>9. CASE Restart
  <2>1. unsettled' \in SUBSET Nodes
    BY <1>9, WorkTypes DEF Restart, Recorded
  <2> QED BY <1>9, <2>1, NoWorkType, NoneAssumption DEF Restart
<1>10. CASE UNCHANGED vars
  BY <1>10 DEF vars
<1> QED
  BY <1>1, <1>2, <1>3, <1>4, <1>5, <1>6, <1>7, <1>8, <1>9, <1>10 DEF Next, Step

LEMMA LockInvariant == Spec => []LockInv
BY LockInit, LockStep, PTL DEF Spec

(* Every variable keeps its type, through failures and restarts.            *)
THEOREM TypeCorrect == Spec => []TypeOK
<1>1. LockInv => TypeOK
  BY DEF LockInv
<1> QED BY LockInvariant, <1>1, PTL

(* Two submissions of one tag are never both between lock and release.      *)
THEOREM TagsAreSerialised == Spec => []TagsSerialised
<1>1. LockInv => TagsSerialised
  BY DEF LockInv, Held, TagsSerialised
<1> QED BY LockInvariant, <1>1, PTL

-----------------------------------------------------------------------------
(* The alive flag *)

LastUp(n) == \E t \in Tags : last[n][t] = "up"

(* Submission v is about to decide on n: its check is already recorded.     *)
Awaits(v, n) == phase[v] = "decide" /\ n \in nodeIDs(v)

Decides(v, n) == phase[v] \in Deciding /\ n \in nodeIDs(v)

(* What a decision in progress knows of a settled node: it is the only one, *)
(* and unless a newer check waits to be decided on, its verdict is right.   *)
Claim(w, n) ==
    /\ n \in work[w].aliveIDs <=> n \notin work[w].deadIDs
    /\ n \notin unsettled =>
         /\ \A v \in Workers : Decides(v, n) => v = w
         /\ phase[w] = "markDead" /\ n \in work[w].aliveIDs => n \in alive
         /\ (\A v \in Workers : ~Awaits(v, n)) =>
              /\ n \in work[w].aliveIDs => LastUp(n)
              /\ n \in work[w].deadIDs => n \notin Reachable

(* Once nobody works on a settled node, the flag agrees with the checks.    *)
Agrees(n) ==
    n \notin unsettled /\ (\A v \in Workers : ~Awaits(v, n) /\ ~Decides(v, n)) =>
        /\ n \in Reachable => n \in alive
        /\ n \in alive => LastUp(n)

(* A decision names only nodes of its own submission.                       *)
OwnNodes(w) ==
    phase[w] \in Deciding =>
        work[w].aliveIDs \subseteq nodeIDs(w) /\ work[w].deadIDs \subseteq nodeIDs(w)

AliveInv ==
    /\ LockInv
    /\ \A w \in Workers : OwnNodes(w)
    /\ \A w \in Workers, n \in Nodes : Decides(w, n) => Claim(w, n)
    /\ \A n \in Nodes : Agrees(n)

LEMMA AliveInit == Init => AliveInv
BY LockInit DEF AliveInv, Init, OwnNodes, Decides, Deciding, Agrees

(* A step of w that changes neither the checks nor the flag nor the set of  *)
(* unsettled nodes, and in which w neither awaits nor makes a decision      *)
(* before or after.                                                         *)
LEMMA QuietStep ==
    ASSUME AliveInv, LockInv', NEW w \in Workers,
           phase[w] \notin {"decide"} \cup Deciding, phase'[w] \notin {"decide"} \cup Deciding,
           \A v \in Workers \ {w} : phase'[v] = phase[v] /\ work'[v] = work[v],
           UNCHANGED <<dbVars, unsettled>>
    PROVE  AliveInv'
<1>1. \A v \in Workers, n \in Nodes :
        /\ Awaits(v, n)' <=> Awaits(v, n)
        /\ Decides(v, n)' <=> Decides(v, n)
  BY DEF Awaits, Decides, Deciding, nodeIDs
<1>2. \A n \in Nodes : (LastUp(n)' <=> LastUp(n)) /\ (n \in Reachable' <=> n \in Reachable)
  BY DEF LastUp, Reachable, ReachableFrom, dbVars
<1>3. \A v \in Workers : OwnNodes(v)'
  BY DEF AliveInv, OwnNodes, nodeIDs, Deciding
<1>4. ASSUME NEW v \in Workers, NEW n \in Nodes, Decides(v, n)'
      PROVE  Claim(v, n)'
  <2>1. v # w /\ Claim(v, n)
    BY <1>1, <1>4 DEF AliveInv, Decides, Deciding
  <2> QED BY <1>1, <1>2, <2>1 DEF Claim, dbVars
<1>5. \A n \in Nodes : Agrees(n)'
  BY <1>1, <1>2 DEF AliveInv, Agrees, dbVars
<1> QED BY <1>3, <1>4, <1>5 DEF AliveInv

(* The other submissions and the checks of other nodes stay as they are.    *)
LEMMA RecordKeeps ==
    ASSUME AliveInv, LockInv', NEW w \in Workers, Record(w)
    PROVE  AliveInv'
<1>w. phase[w] = "record" /\ phase'[w] = "decide" /\ nodeIDs(w) \in SUBSET Nodes
  BY WorkTypes DEF AliveInv, LockInv, TypeOK, Record, Goto
<1>o. /\ \A v \in Workers \ {w} : phase'[v] = phase[v]
      /\ UNCHANGED <<work, alive, unsettled>>
  BY DEF AliveInv, LockInv, TypeOK, Record, Goto
<1>1. ASSUME NEW n \in Nodes, n \notin nodeIDs(w)
      PROVE  (LastUp(n)' <=> LastUp(n)) /\ (n \in Reachable' <=> n \in Reachable)
  <2>1. last'[n] = last[n]
    BY <1>1 DEF Record
  <2>2. \A t \in Tags : <<n, t>> \in fresh' <=> <<n, t>> \in fresh
    BY <1>1 DEF Record
  <2> QED BY <2>1, <2>2 DEF LastUp, Reachable, ReachableFrom
<1>2. \A v \in Workers, n \in Nodes :
        /\ Awaits(v, n)' <=> (Awaits(v, n) \/ (v = w /\ n \in nodeIDs(w)))
        /\ Decides(v, n)' <=> Decides(v, n)
  BY <1>w, <1>o DEF Awaits, Decides, Deciding, nodeIDs
<1>3. \A v \in Workers : OwnNodes(v)'
  BY <1>w, <1>o DEF AliveInv, OwnNodes, nodeIDs, Deciding
<1>4. ASSUME NEW v \in Workers, NEW n \in Nodes, Decides(v, n)'
      PROVE  Claim(v, n)'
  <2>1. v # w /\ Claim(v, n)
    BY <1>2, <1>4, <1>w DEF AliveInv, Decides, Deciding
  <2>2. CASE n \in nodeIDs(w)
    BY <1>2, <1>o, <2>1, <2>2 DEF Claim
  <2>3. CASE n \notin nodeIDs(w)
    BY <1>1, <1>2, <1>o, <2>1, <2>3 DEF Claim
  <2> QED BY <2>2, <2>3
<1>5. ASSUME NEW n \in Nodes
      PROVE  Agrees(n)'
  <2>1. CASE n \in nodeIDs(w)
    BY <1>2, <2>1 DEF Agrees
  <2>2. CASE n \notin nodeIDs(w)
    BY <1>1, <1>2, <1>o, <2>2 DEF AliveInv, Agrees
  <2> QED BY <2>1, <2>2
<1> QED BY <1>3, <1>4, <1>5 DEF AliveInv

(* The decision sees every recorded check; nobody else of its tag is at it, *)
(* and a node somebody of another tag is deciding on becomes unsettled.     *)
LEMMA DecideKeeps ==
    ASSUME AliveInv, LockInv', NEW w \in Workers, Decide(w)
    PROVE  AliveInv'
<1>t. TypeOK
  BY DEF AliveInv, LockInv
<1>w. phase[w] = "decide" /\ phase'[w] = "decided"
  BY <1>t DEF TypeOK, Decide, Goto
<1>o. /\ \A v \in Workers \ {w} : phase'[v] = phase[v] /\ work'[v] = work[v]
      /\ \A v \in Workers : nodeIDs(v)' = nodeIDs(v)
      /\ UNCHANGED dbVars
  <2>1. \A v \in Workers \ {w} : phase'[v] = phase[v] /\ work'[v] = work[v]
    BY <1>t, DecideWork DEF TypeOK, Decide, Goto
  <2>2. work'[w].up = work[w].up /\ work'[w].down = work[w].down
    BY <1>t, DecideWork
  <2> QED BY <2>1, <2>2 DEF nodeIDs, Decide
<1>d. /\ work'[w].aliveIDs = nodeIDs(w) \cap Reachable
      /\ work'[w].deadIDs = nodeIDs(w) \ Reachable
  BY <1>t, DecideWork
<1>u. unsettled' = (unsettled \ nodeIDs(w)) \cup Contested(w)
  BY DEF Decide
<1>1. \A n \in Nodes : (LastUp(n)' <=> LastUp(n)) /\ (n \in Reachable' <=> n \in Reachable)
  BY <1>o DEF LastUp, Reachable, ReachableFrom, dbVars
<1>2. \A v \in Workers, n \in Nodes :
        /\ Awaits(v, n)' <=> (v # w /\ Awaits(v, n))
        /\ Decides(v, n)' <=> (Decides(v, n) \/ (v = w /\ n \in nodeIDs(w)))
  BY <1>w, <1>o DEF Awaits, Decides, Deciding
<1>3. \A v \in Workers : OwnNodes(v)'
  BY <1>w, <1>o, <1>d DEF AliveInv, OwnNodes, Deciding
<1>c. ASSUME NEW v \in Workers, NEW n \in Nodes, v # w, Decides(v, n), n \in nodeIDs(w)
      PROVE  n \in unsettled'
  <2>1. work[v].tag # work[w].tag
    BY <1>c, <1>w DEF AliveInv, LockInv, Held, Decides, Deciding, Locked
  <2> QED BY <1>c, <1>u, <2>1 DEF Contested, Decides
<1>r. \A n \in Reachable : LastUp(n)
  BY DEF Reachable, ReachableFrom, LastUp
<1>4. ASSUME NEW v \in Workers, NEW n \in Nodes, Decides(v, n)'
      PROVE  Claim(v, n)'
  <2>1. CASE v = w
    <3>1. n \in nodeIDs(w)
      BY <1>2, <1>4, <1>w, <2>1 DEF Decides, Deciding
    <3>2. n \in work'[w].aliveIDs <=> n \notin work'[w].deadIDs
      BY <3>1, <1>d
    <3>3. n \notin unsettled' => \A x \in Workers : Decides(x, n)' => x = w
      BY <3>1, <1>2, <1>c
    <3>4. /\ n \in work'[w].aliveIDs => LastUp(n)
          /\ n \in work'[w].deadIDs => n \notin Reachable
      BY <1>d, <1>r
    <3> QED BY <2>1, <1>1, <1>w, <3>2, <3>3, <3>4 DEF Claim
  <2>2. CASE v # w /\ n \in nodeIDs(w)
    BY <2>2, <1>2, <1>4, <1>c, <1>o DEF AliveInv, Claim
  <2>3. CASE v # w /\ n \notin nodeIDs(w)
    <3>1. (n \in unsettled' <=> n \in unsettled) /\ Claim(v, n) /\ ~Awaits(w, n)
      BY <2>3, <1>2, <1>4, <1>u DEF AliveInv, Contested, Awaits
    <3> QED BY <2>3, <1>1, <1>2, <1>o, <3>1 DEF Claim, dbVars
  <2> QED BY <2>1, <2>2, <2>3
<1>5. ASSUME NEW n \in Nodes
      PROVE  Agrees(n)'
  <2>1. CASE n \in nodeIDs(w)
    BY <1>2, <2>1 DEF Agrees
  <2>2. CASE n \notin nodeIDs(w)
    <3>1. (n \in unsettled' <=> n \in unsettled) /\ ~Awaits(w, n)
      BY <2>2, <1>u DEF Contested, Awaits
    <3> QED BY <1>1, <1>2, <1>o, <3>1 DEF AliveInv, Agrees, dbVars
  <2> QED BY <2>1, <2>2
<1> QED BY <1>3, <1>4, <1>5 DEF AliveInv

(* A step of w from one place of its decision to the next, which leaves the *)
(* checks and the local variables alone.                                    *)
LEMMA MarkFrame ==
    ASSUME AliveInv, NEW w \in Workers,
           MarkAlive(w) \/ MarkDead(w) \/ MarkFails(w) \/ DecideFails(w)
    PROVE  /\ \A v \in Workers \ {w} : phase'[v] = phase[v]
           /\ UNCHANGED <<work, last, fresh>>
           /\ \A n \in Nodes : /\ LastUp(n)' <=> LastUp(n)
                               /\ n \in Reachable' <=> n \in Reachable
           /\ \A v \in Workers, n \in Nodes :
                v # w => /\ Awaits(v, n)' <=> Awaits(v, n)
                         /\ Decides(v, n)' <=> Decides(v, n)
<1>1. /\ \A v \in Workers \ {w} : phase'[v] = phase[v]
      /\ UNCHANGED <<work, last, fresh>>
  BY DEF AliveInv, LockInv, TypeOK, MarkAlive, MarkDead, MarkFails, DecideFails, Goto, dbVars
<1> QED BY <1>1 DEF LastUp, Reachable, ReachableFrom, Awaits, Decides, nodeIDs

LEMMA MarkAliveKeeps ==
    ASSUME AliveInv, LockInv', NEW w \in Workers, MarkAlive(w)
    PROVE  AliveInv'
<1>w. /\ phase[w] = "decided" /\ phase'[w] = "markDead"
      /\ alive' = alive \cup work[w].aliveIDs
      /\ UNCHANGED unsettled
  BY DEF AliveInv, LockInv, TypeOK, MarkAlive, Goto
<1>2. \A n \in Nodes : /\ ~Awaits(w, n) /\ ~Awaits(w, n)'
                       /\ Decides(w, n)' <=> Decides(w, n)
                       /\ Decides(w, n) <=> n \in nodeIDs(w)
  BY <1>w, MarkFrame DEF Awaits, Decides, Deciding, nodeIDs
<1>3. \A v \in Workers : OwnNodes(v)'
  BY <1>w, MarkFrame DEF AliveInv, OwnNodes, nodeIDs, Deciding
<1>4. ASSUME NEW v \in Workers, NEW n \in Nodes, Decides(v, n)'
      PROVE  Claim(v, n)'
  <2>1. Decides(v, n) /\ Claim(v, n)
    BY <1>2, <1>4, MarkFrame DEF AliveInv
  <2>2. phase'[v] = "markDead" /\ n \in work[v].aliveIDs /\ n \notin unsettled => n \in alive'
    BY <1>w, <2>1, MarkFrame DEF Claim
  <2>3. /\ \A x \in Workers : Awaits(x, n)' <=> Awaits(x, n)
        /\ \A x \in Workers : Decides(x, n)' <=> Decides(x, n)
    BY <1>2, MarkFrame
  <2> QED BY <1>w, <2>1, <2>2, <2>3, MarkFrame DEF Claim
<1>5. ASSUME NEW n \in Nodes
      PROVE  Agrees(n)'
  <2>1. CASE n \in nodeIDs(w)
    BY <1>2, <2>1 DEF Agrees
  <2>2. CASE n \notin nodeIDs(w)
    <3>1. n \in alive' <=> n \in alive
      BY <1>w, <2>2 DEF AliveInv, OwnNodes, Deciding
    <3> QED BY <1>w, <1>2, <3>1, MarkFrame DEF AliveInv, Agrees
  <2> QED BY <2>1, <2>2
<1> QED BY <1>3, <1>4, <1>5 DEF AliveInv

(* The end of a decision: its verdict is what the flag now says.            *)
LEMMA MarkDeadKeeps ==
    ASSUME AliveInv, LockInv', NEW w \in Workers, MarkDead(w)
    PROVE  AliveInv'
<1>w. /\ phase[w] = "markDead" /\ phase'[w] = "finish"
      /\ alive' = alive \ work[w].deadIDs
      /\ UNCHANGED unsettled
  BY DEF AliveInv, LockInv, TypeOK, MarkDead, Goto
<1>2. \A n \in Nodes : /\ ~Awaits(w, n) /\ ~Awaits(w, n)'
                       /\ ~Decides(w, n)'
                       /\ Decides(w, n) <=> n \in nodeIDs(w)
  BY <1>w, MarkFrame DEF Awaits, Decides, Deciding, nodeIDs
<1>3. \A v \in Workers : OwnNodes(v)'
  BY <1>w, MarkFrame DEF AliveInv, OwnNodes, nodeIDs, Deciding
<1>k. ASSUME NEW n \in Nodes, n \notin nodeIDs(w)
      PROVE  n \in alive' <=> n \in alive
  BY <1>w, <1>k DEF AliveInv, OwnNodes, Deciding
<1>4. ASSUME NEW v \in Workers, NEW n \in Nodes, Decides(v, n)'
      PROVE  Claim(v, n)'
  <2>1. v # w /\ Decides(v, n) /\ Claim(v, n)
    BY <1>2, <1>4, MarkFrame DEF AliveInv
  <2>2. n \notin unsettled => n \notin nodeIDs(w)
    BY <1>2, <2>1 DEF Claim
  <2>3. phase'[v] = "markDead" /\ n \in work[v].aliveIDs /\ n \notin unsettled => n \in alive'
    BY <1>k, <2>1, <2>2, MarkFrame DEF Claim
  <2>4. /\ \A x \in Workers : Awaits(x, n)' <=> Awaits(x, n)
        /\ \A x \in Workers : Decides(x, n)' => Decides(x, n)
    BY <1>2, MarkFrame
  <2> QED BY <1>w, <2>1, <2>3, <2>4, MarkFrame DEF Claim
<1>5. ASSUME NEW n \in Nodes
      PROVE  Agrees(n)'
  <2>1. CASE n \in nodeIDs(w)
    <3>1. SUFFICES ASSUME n \notin unsettled, \A v \in Workers : ~Awaits(v, n)'
                   PROVE  /\ n \in Reachable => n \in alive'
                          /\ n \in alive' => LastUp(n)
      BY <1>w, MarkFrame DEF Agrees
    <3>2. \A v \in Workers : ~Awaits(v, n)
      BY <1>2, <3>1, MarkFrame
    <3>3. /\ n \in work[w].aliveIDs <=> n \notin work[w].deadIDs
          /\ n \in work[w].aliveIDs => n \in alive /\ LastUp(n)
          /\ n \in work[w].deadIDs => n \notin Reachable
      BY <1>w, <1>2, <2>1, <3>1, <3>2 DEF AliveInv, Claim
    <3> QED BY <1>w, <3>3
  <2>2. CASE n \notin nodeIDs(w)
    BY <1>w, <1>2, <1>k, <2>2, MarkFrame DEF AliveInv, Agrees
  <2> QED BY <2>1, <2>2
<1> QED BY <1>3, <1>4, <1>5 DEF AliveInv

(* What was not carried through is unsettled.                               *)
LEMMA FailureKeeps ==
    ASSUME AliveInv, LockInv', NEW w \in Workers, DecideFails(w) \/ MarkFails(w)
    PROVE  AliveInv'
<1>w. /\ phase[w] \in {"decide"} \cup Deciding
      /\ phase'[w] \in Deciding => phase[w] \in Deciding
      /\ phase'[w] # "decide"
      /\ unsettled' = unsettled \cup nodeIDs(w)
      /\ UNCHANGED alive
  BY DEF AliveInv, LockInv, TypeOK, DecideFails, MarkFails, Goto, Deciding, dbVars
<1>2. \A v \in Workers, n \in Nodes :
        /\ Awaits(v, n)' => Awaits(v, n)
        /\ Decides(v, n)' => Decides(v, n)
        /\ n \notin nodeIDs(w) => /\ Awaits(v, n)' <=> Awaits(v, n)
                                  /\ Decides(v, n)' <=> Decides(v, n)
  BY <1>w, MarkFrame DEF Awaits, Decides, nodeIDs
<1>3. \A v \in Workers : OwnNodes(v)'
  BY <1>w, MarkFrame DEF AliveInv, OwnNodes, nodeIDs
<1>4. ASSUME NEW v \in Workers, NEW n \in Nodes, Decides(v, n)'
      PROVE  Claim(v, n)'
  <2>1. Claim(v, n)
    BY <1>2, <1>4 DEF AliveInv
  <2>2. CASE n \in nodeIDs(w)
    BY <1>w, <2>1, <2>2, MarkFrame DEF Claim
  <2>3. CASE n \notin nodeIDs(w)
    <3>1. v # w
      BY <1>2, <1>4, <2>3 DEF Decides
    <3> QED BY <1>w, <1>2, <2>1, <2>3, <3>1, MarkFrame DEF Claim
  <2> QED BY <2>2, <2>3
<1>5. \A n \in Nodes : Agrees(n)'
  BY <1>w, <1>2, MarkFrame DEF AliveInv, Agrees
<1> QED BY <1>3, <1>4, <1>5 DEF AliveInv

LEMMA ExpireKeeps ==
    ASSUME AliveInv, LockInv', NEW m \in Nodes, NEW t \in Tags, Expire(m, t)
    PROVE  AliveInv'
<1>1. Reachable' \subseteq Reachable /\ \A n \in Nodes : LastUp(n)' <=> LastUp(n)
  BY DEF Expire, Reachable, ReachableFrom, LastUp
<1>2. /\ UNCHANGED <<alive, phase, work, unsettled>>
      /\ \A v \in Workers, n \in Nodes : /\ Awaits(v, n)' <=> Awaits(v, n)
                                         /\ Decides(v, n)' <=> Decides(v, n)
  BY DEF Expire, Awaits, Decides, nodeIDs
<1>3. \A v \in Workers : OwnNodes(v)'
  BY <1>2 DEF AliveInv, OwnNodes, nodeIDs
<1>4. \A v \in Workers, n \in Nodes : Decides(v, n)' => Claim(v, n)'
  BY <1>1, <1>2 DEF AliveInv, Claim
<1>5. \A n \in Nodes : Agrees(n)'
  BY <1>1, <1>2 DEF AliveInv, Agrees
<1> QED BY <1>3, <1>4, <1>5 DEF AliveInv

LEMMA RestartKeeps ==
    ASSUME AliveInv, LockInv', Restart
    PROVE  AliveInv'
<1>1. \A v \in Workers : phase'[v] = "idle"
  BY DEF Restart
<1>2. \A n \in Nodes : (LastUp(n)' <=> LastUp(n)) /\ (n \in Reachable' <=> n \in Reachable)
  BY DEF Restart, LastUp, Reachable, ReachableFrom, dbVars
<1>3. ASSUME NEW n \in Nodes, n \notin unsettled'
      PROVE  n \notin unsettled /\ \A v \in Workers : ~Awaits(v, n) /\ ~Decides(v, n)
  BY <1>3 DEF Restart, Recorded, Awaits, Decides
<1>4. \A n \in Nodes : Agrees(n)'
  BY <1>2, <1>3 DEF AliveInv, Agrees, Restart, dbVars
<1> QED BY <1>1, <1>4 DEF AliveInv, OwnNodes, Decides, Deciding

LEMMA AliveStep ==
    ASSUME AliveInv, [Next]_vars
    PROVE  AliveInv'
<1>l. LockInv'
  BY LockStep DEF AliveInv
<1>1. ASSUME NEW w \in Workers, Post(w) \/ Lock(w) \/ RecordFails(w) \/ Finish(w)
      PROVE  AliveInv'
  <2>1. /\ phase[w] \notin {"decide"} \cup Deciding
        /\ phase'[w] \notin {"decide"} \cup Deciding
        /\ UNCHANGED <<dbVars, unsettled>>
    BY <1>1
       DEF AliveInv, LockInv, TypeOK, Post, Lock, RecordFails, Finish, Release, Goto, Deciding
  <2>2. \A v \in Workers \ {w} : phase'[v] = phase[v] /\ work'[v] = work[v]
    BY <1>1
       DEF AliveInv, LockInv, TypeOK, Post, Lock, RecordFails, Finish, Release, Goto
  <2> QED BY <1>l, <2>1, <2>2, QuietStep
<1>2. ASSUME NEW w \in Workers, Step(w)
      PROVE  AliveInv'
  BY <1>l, <1>1, <1>2, RecordKeeps, DecideKeeps, MarkAliveKeeps, MarkDeadKeeps, FailureKeeps
     DEF Step
<1>3. ASSUME NEW n \in Nodes, NEW t \in Tags, Expire(n, t)
      PROVE  AliveInv'
  BY <1>l, <1>3, ExpireKeeps
<1>4. CASE Restart
  BY <1>l, <1>4, RestartKeeps
<1>5. CASE UNCHANGED vars
  <2>1. /\ UNCHANGED <<alive, phase, work, unsettled>>
        /\ \A v \in Workers, n \in Nodes : /\ Awaits(v, n)' <=> Awaits(v, n)
                                           /\ Decides(v, n)' <=> Decides(v, n)
        /\ \A n \in Nodes : (LastUp(n)' <=> LastUp(n)) /\ (n \in Reachable' <=> n \in Reachable)
    BY <1>5 DEF vars, Awaits, Decides, nodeIDs, LastUp, Reachable, ReachableFrom
  <2>2. \A v \in Workers : OwnNodes(v)'
    BY <2>1, <1>5 DEF AliveInv, OwnNodes, nodeIDs, vars
  <2>3. \A v \in Workers, n \in Nodes : Decides(v, n)' => Claim(v, n)'
    BY <2>1 DEF AliveInv, Claim
  <2>4. \A n \in Nodes : Agrees(n)'
    BY <2>1 DEF AliveInv, Agrees
  <2> QED BY <1>l, <2>2, <2>3, <2>4 DEF AliveInv
<1> QED BY <1>1, <1>2, <1>3, <1>4, <1>5 DEF Next

(* The alive flag of a settled node nobody is deciding on agrees with the   *)
(* latest checks: reached in the window by some tag means alive, and alive  *)
(* means that some tag's latest check reached it.                           *)
THEOREM AliveFlagAgrees == Spec => []AliveAgrees
<1>1. AliveInv => AliveAgrees
  BY DEF AliveInv, AliveAgrees, Agrees, Undecided, Awaits, Decides, LastUp
<1> QED BY AliveInit, AliveStep, <1>1, PTL DEF Spec
=============================================================================
