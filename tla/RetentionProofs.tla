-------------------------- MODULE RetentionProofs --------------------------
(***************************************************************************)
(* Theorems about Retention, for any nodes, workers, windows and length of *)
(* the day.  The argument is one of distances: the cutoff of the cleanup   *)
(* lies a day before every window it has to leave alone, and a goroutine,  *)
(* which the clock overtakes by one tick at most, is within that day.  The *)
(* last section has the types.                                             *)
(***************************************************************************)
EXTENDS Retention, TLAPS

USE DayAssumption, BoundsAssumption, RequestedAssumption, CreatedAssumption

LEMMA DaysMonotone ==
    ASSUME NEW a \in Int, NEW b \in Int, a <= b
    PROVE  a * Day <= b * Day /\ a * Day \in Int /\ b * Day \in Int
OBVIOUS

LEMMA NextDay == ASSUME NEW a \in Int PROVE (a + 1) * Day = a * Day + Day /\ a * Day \in Int
OBVIOUS

-----------------------------------------------------------------------------
(* Windows *)

(* The requests that change the two windows, which Retention reads.         *)
CONSTANT Admins
VARIABLES update, lone
Requests == INSTANCE ConfigUpdate

Configured == cfg \in [Windows -> {n \in Requested : n > 0}]

RequestsInv ==
    /\ Configured
    /\ update \in [Admins -> UNION {[K -> Requested] : K \in SUBSET Windows}]
    /\ \A a \in Admins : \A k \in DOMAIN update[a] : update[a][k] > 0

LEMMA SomeWindows ==
    ASSUME NEW f
    PROVE  f \in UNION {[K -> Requested] : K \in SUBSET Windows}
             <=> DOMAIN f \subseteq Windows /\ f \in [DOMAIN f -> Requested]
OBVIOUS

LEMMA SameWindows == Requests!Windows = Windows /\ Windows = {"history", "dead"}
BY DEF Requests!Windows, Windows

LEMMA NothingToSave ==
    /\ DOMAIN Requests!NoUpdate = {}
    /\ Requests!NoUpdate \in UNION {[K -> Requested] : K \in SUBSET Windows}
<1>1. /\ DOMAIN Requests!NoUpdate = {}
      /\ Requests!NoUpdate \in [DOMAIN Requests!NoUpdate -> Requested]
  BY DEF Requests!NoUpdate
<1> QED BY <1>1, SomeWindows

LEMMA RequestsInit == Requests!Init => RequestsInv
BY NothingToSave, SameWindows DEF Requests!Init, RequestsInv, Configured

LEMMA RequestsUpdate == ASSUME RequestsInv, NEW a \in Admins, Requests!Update(a) PROVE RequestsInv'
<1>1. PICK keys \in (SUBSET Windows) \ {{}} : \E req \in [keys -> Requested] :
       \E unread \in SUBSET (Windows \ keys) :
         Requests!Valid(req, unread) /\ update' = [update EXCEPT ![a] = req]
  BY SameWindows DEF Requests!Update
<1>2. PICK req \in [keys -> Requested] : \E unread \in SUBSET (Windows \ keys) :
         Requests!Valid(req, unread) /\ update' = [update EXCEPT ![a] = req]
  BY <1>1
<1>3. req \in UNION {[K -> Requested] : K \in SUBSET Windows}
  BY <1>2, SomeWindows
<1>4. \A k \in DOMAIN req : req[k] > 0
  BY <1>2 DEF Requests!Valid
<1>5. cfg' = cfg
  BY DEF Requests!Update
<1> QED BY <1>2, <1>3, <1>4, <1>5 DEF RequestsInv, Configured

LEMMA RequestsSave ==
    ASSUME RequestsInv, NEW a \in Admins, Requests!Save(a)
    PROVE  RequestsInv' /\ \E k \in Windows, n \in Requested : n > 0 /\ cfg' = [cfg EXCEPT ![k] = n]
<1>1. PICK k \in DOMAIN update[a] :
         /\ cfg' = [cfg EXCEPT ![k] = update[a][k]]
         /\ update' = [update EXCEPT ![a] = [j \in DOMAIN update[a] \ {k} |-> update[a][j]]]
  BY DEF Requests!Save
<1>2. /\ DOMAIN update[a] \subseteq Windows
      /\ update[a] \in [DOMAIN update[a] -> Requested]
      /\ \A j \in DOMAIN update[a] : update[a][j] > 0
  BY SomeWindows DEF RequestsInv
<1>3. Configured'
  BY <1>1, <1>2 DEF RequestsInv, Configured
<1> DEFINE rest == [j \in DOMAIN update[a] \ {k} |-> update[a][j]]
<1>4. rest \in UNION {[K -> Requested] : K \in SUBSET Windows} /\ \A j \in DOMAIN rest : rest[j] > 0
  <2>1. DOMAIN rest \subseteq Windows /\ rest \in [DOMAIN rest -> Requested]
    BY <1>2
  <2>2. \A j \in DOMAIN rest : rest[j] > 0
    BY <1>2
  <2> HIDE DEF rest
  <2> QED BY <2>1, <2>2, SomeWindows
<1>5. update' = [update EXCEPT ![a] = rest]
  BY <1>1
<1>6. k \in Windows /\ update[a][k] \in Requested /\ update[a][k] > 0
  BY <1>2
<1> HIDE DEF rest
<1> QED BY <1>1, <1>3, <1>4, <1>5, <1>6 DEF RequestsInv

LEMMA RequestsSaveFails ==
    ASSUME RequestsInv, NEW a \in Admins, Requests!SaveFails(a)
    PROVE  RequestsInv'
<1>1. update' = [update EXCEPT ![a] = Requests!NoUpdate] /\ cfg' = cfg
  BY DEF Requests!SaveFails
<1> QED BY <1>1, NothingToSave DEF RequestsInv, Configured

LEMMA RequestsNext == RequestsInv /\ [Requests!Next]_Requests!vars => RequestsInv'
<1> SUFFICES ASSUME RequestsInv, [Requests!Next]_Requests!vars PROVE RequestsInv'
  OBVIOUS
<1>1. CASE UNCHANGED Requests!vars
  BY <1>1 DEF Requests!vars, RequestsInv, Configured
<1> QED BY <1>1, RequestsUpdate, RequestsSave, RequestsSaveFails DEF Requests!Next

(* Requests change the windows as Retention has them changed, one at a time *)
(* to a value that is positive, however they overlap and wherever they fail *)
(* (api/handler/config.go:52-105).                                          *)
THEOREM RequestsConfigure ==
    Requests!Spec => [][\E k \in Windows, n \in Requested :
                            n > 0 /\ cfg' = [cfg EXCEPT ![k] = n]]_cfg
<1>1. RequestsInv /\ [Requests!Next]_Requests!vars
        => [\E k \in Windows, n \in Requested : n > 0 /\ cfg' = [cfg EXCEPT ![k] = n]]_cfg
  BY RequestsSave
     DEF Requests!Next, Requests!vars, Requests!Update, Requests!SaveFails
<1> QED BY <1>1, RequestsInit, RequestsNext, PTL DEF Requests!Spec

(* A request that overlapped none is alone still, and what it has yet to    *)
(* save leads to windows in order.                                          *)
LoneInv ==
    /\ lone \in SUBSET Admins
    /\ \A a \in lone :
        /\ ~Requests!Idle(a) /\ \A b \in Admins \ {a} : Requests!Idle(b)
        /\ Requests!Effective(update[a])["history"] >= Requests!Effective(update[a])["dead"]

LEMMA LoneUpdate ==
    ASSUME RequestsInv, LoneInv, NEW a \in Admins, Requests!Update(a)
    PROVE  LoneInv'
<1>1. PICK keys \in (SUBSET Windows) \ {{}} : \E req \in [keys -> Requested] :
       \E unread \in SUBSET (Windows \ keys) :
         /\ Requests!Valid(req, unread)
         /\ update' = [update EXCEPT ![a] = req]
         /\ lone' = IF unread = {} /\ \A b \in Admins : Requests!Idle(b) THEN {a} ELSE {}
  BY SameWindows DEF Requests!Update
<1>2. PICK req \in [keys -> Requested] : \E unread \in SUBSET (Windows \ keys) :
         /\ Requests!Valid(req, unread)
         /\ update' = [update EXCEPT ![a] = req]
         /\ lone' = IF unread = {} /\ \A b \in Admins : Requests!Idle(b) THEN {a} ELSE {}
  BY <1>1
<1>3. PICK unread \in SUBSET (Windows \ keys) :
         /\ Requests!Valid(req, unread)
         /\ update' = [update EXCEPT ![a] = req]
         /\ lone' = IF unread = {} /\ \A b \in Admins : Requests!Idle(b) THEN {a} ELSE {}
  BY <1>2
<1>4. cfg' = cfg /\ update'[a] = req /\ \A b \in Admins \ {a} : update'[b] = update[b]
  BY <1>3 DEF Requests!Update, RequestsInv
<1>5. req # Requests!NoUpdate
  BY <1>1, <1>2, NothingToSave
<1>6. ASSUME unread = {}, \A b \in Admins : Requests!Idle(b) PROVE LoneInv'
  <2>1. Requests!Effective(req)["history"] >= Requests!Effective(req)["dead"]
    BY <1>3, <1>6 DEF Requests!Valid
  <2>2. lone' = {a}
    BY <1>3, <1>6
  <2> QED BY <1>4, <1>5, <1>6, <2>1, <2>2 DEF LoneInv, Requests!Idle, Requests!Effective
<1>7. CASE ~(unread = {} /\ \A b \in Admins : Requests!Idle(b))
  BY <1>3, <1>7 DEF LoneInv
<1> QED BY <1>6, <1>7

(* A key that is saved moves from the request to the table.                 *)
LEMMA LoneSave ==
    ASSUME RequestsInv, LoneInv, NEW a \in Admins, Requests!Save(a)
    PROVE  /\ LoneInv'
           /\ a \in lone /\ update'[a] = Requests!NoUpdate => cfg'["history"] >= cfg'["dead"]
<1>1. PICK k \in DOMAIN update[a] :
         /\ cfg' = [cfg EXCEPT ![k] = update[a][k]]
         /\ update' = [update EXCEPT ![a] = [j \in DOMAIN update[a] \ {k} |-> update[a][j]]]
         /\ lone' = IF DOMAIN update[a] = {k} THEN lone \ {a} ELSE lone
  BY DEF Requests!Save
<1>2. /\ update'[a] = [j \in DOMAIN update[a] \ {k} |-> update[a][j]]
      /\ \A b \in Admins \ {a} : update'[b] = update[b]
  BY <1>1 DEF RequestsInv
<1>3. DOMAIN update[a] \subseteq Windows /\ ~Requests!Idle(a)
  BY <1>1, SomeWindows, NothingToSave DEF RequestsInv, Requests!Idle
<1>4. \A j \in Windows :
        (IF j \in DOMAIN update'[a] THEN update'[a][j] ELSE cfg'[j])
          = (IF j \in DOMAIN update[a] THEN update[a][j] ELSE cfg[j])
  BY <1>1, <1>2, <1>3 DEF RequestsInv, Configured
<1>5. ASSUME a \in lone
      PROVE  /\ (IF "history" \in DOMAIN update'[a] THEN update'[a]["history"] ELSE cfg'["history"])
                  >= (IF "dead" \in DOMAIN update'[a] THEN update'[a]["dead"] ELSE cfg'["dead"])
  <2>1. Requests!Effective(update[a])["history"] >= Requests!Effective(update[a])["dead"]
    BY <1>5 DEF LoneInv
  <2> QED BY <1>4, <2>1, SameWindows DEF Requests!Effective
<1>6. ASSUME NEW b \in lone' PROVE b = a /\ ~Requests!Idle(a)'
  <2>1. b \in lone /\ b \in Admins
    BY <1>1, <1>6 DEF LoneInv
  <2>2. b = a
    BY <1>3, <2>1 DEF LoneInv
  <2>3. PICK j \in DOMAIN update[a] : j # k
    BY <1>1, <1>6, <2>2
  <2>4. j \in DOMAIN update'[a]
    BY <1>2, <2>3
  <2> QED BY <2>2, <2>4, NothingToSave DEF Requests!Idle
<1>7. LoneInv'
  <2>1. lone' \in SUBSET Admins
    BY <1>1 DEF LoneInv
  <2>2. ASSUME NEW b \in lone'
        PROVE  /\ ~Requests!Idle(b)' /\ \A c \in Admins \ {b} : Requests!Idle(c)'
               /\ Requests!Effective(update[b])'["history"] >= Requests!Effective(update[b])'["dead"]
    <3>1. b = a /\ a \in lone /\ ~Requests!Idle(a)'
      BY <1>1, <1>6, <2>2
    <3>2. \A c \in Admins \ {a} : Requests!Idle(c)'
      BY <1>2, <3>1 DEF LoneInv, Requests!Idle
    <3>3. Requests!Effective(update[a])'["history"] >= Requests!Effective(update[a])'["dead"]
      BY <1>5, <3>1, SameWindows DEF Requests!Effective
    <3> QED BY <3>1, <3>2, <3>3
  <2> QED BY <2>1, <2>2 DEF LoneInv
<1>8. ASSUME a \in lone, update'[a] = Requests!NoUpdate PROVE cfg'["history"] >= cfg'["dead"]
  <2>1. DOMAIN update'[a] = {}
    BY <1>8, NothingToSave
  <2> QED BY <1>5, <1>8, <2>1
<1> QED BY <1>7, <1>8

LEMMA LoneSaveFails ==
    ASSUME RequestsInv, LoneInv, NEW a \in Admins, Requests!SaveFails(a)
    PROVE  LoneInv'
<1>1. /\ update' = [update EXCEPT ![a] = Requests!NoUpdate]
      /\ cfg' = cfg /\ lone' = lone \ {a} /\ ~Requests!Idle(a)
  BY DEF Requests!SaveFails
<1>2. lone' = {}
  BY <1>1 DEF LoneInv
<1> QED BY <1>2 DEF LoneInv

(* A request that overlapped no other and could read what it left out has   *)
(* the windows in order when it is done, for any number of administrators   *)
(* and whatever requests that overlapped or failed half way left before it  *)
(* (api/handler/config.go:16-18, 52-105).                                   *)
THEOREM LoneRequestsOrder == Requests!Spec => Requests!WindowsOrdered
<1>1. Requests!Init => LoneInv
  BY DEF Requests!Init, LoneInv
<1>2. RequestsInv /\ LoneInv /\ [Requests!Next]_Requests!vars
        => /\ LoneInv'
           /\ [\A a \in lone : Requests!Save(a) /\ update'[a] = Requests!NoUpdate
                  => cfg'["history"] >= cfg'["dead"]]_Requests!vars
  <2> SUFFICES ASSUME RequestsInv, LoneInv, [Requests!Next]_Requests!vars
               PROVE  /\ LoneInv'
                      /\ \A a \in lone : Requests!Save(a) /\ update'[a] = Requests!NoUpdate
                            => cfg'["history"] >= cfg'["dead"]
    OBVIOUS
  <2>1. LoneInv'
    <3>1. CASE UNCHANGED Requests!vars
      BY <3>1 DEF Requests!vars, LoneInv, Requests!Idle, Requests!Effective
    <3> QED BY <3>1, LoneUpdate, LoneSave, LoneSaveFails DEF Requests!Next
  <2>2. \A a \in lone : a \in Admins
    BY DEF LoneInv
  <2> QED BY <2>1, <2>2, LoneSave
<1> QED BY <1>1, <1>2, RequestsInit, RequestsNext, PTL DEF Requests!Spec, Requests!WindowsOrdered

LEMMA RequestsTyped == Requests!Spec => []Requests!TypeOK
<1>1. Requests!Init => LoneInv
  BY DEF Requests!Init, LoneInv
<1>2. RequestsInv /\ LoneInv /\ [Requests!Next]_Requests!vars => LoneInv'
  <2>1. CASE UNCHANGED Requests!vars
    BY <2>1 DEF Requests!vars, LoneInv, Requests!Idle, Requests!Effective
  <2> QED BY <2>1, LoneUpdate, LoneSave, LoneSaveFails DEF Requests!Next
<1>3. RequestsInv /\ LoneInv => Requests!TypeOK
  BY SameWindows DEF RequestsInv, Configured, LoneInv, Requests!TypeOK
<1> QED BY <1>1, <1>2, <1>3, RequestsInit, RequestsNext, PTL DEF Requests!Spec

(* What a reader of the windows gets: a stored one or a default.            *)
LEMMA WindowValues ==
    ASSUME Configured, NEW k \in Windows, NEW days \in ReadConfigInt(k)
    PROVE  days \in Int /\ days >= 1
<1>1. CASE days = cfg[k]
  <2>1. cfg[k] \in Requested /\ cfg[k] > 0
    BY DEF Configured
  <2>2. days \in Int /\ days > 0
    BY <1>1, <2>1
  <2> QED BY <2>2
<1>2. CASE days \in {DefaultHistory, DefaultDead}
  BY <1>2, DefaultsAssumption
<1> QED BY <1>1, <1>2 DEF ReadConfigInt

LEMMA ConfiguredNext == Configured /\ [Next]_vars => Configured'
<1> SUFFICES ASSUME Configured, [Next]_vars PROVE Configured'
  OBVIOUS
<1>1. CASE Configure
  BY <1>1 DEF Configure, Configured
<1>2. CASE ~Configure
  <2>1. cfg' = cfg
    BY <1>2 DEF Next, Report, Record, RecordFails, Evaluate, VerdictFails, CleanupStep,
       PruneFails, Remap, Doom, PurgeChecks, DeleteHistory, Delete, Tick, vars, tables,
       FindAffected, ReadWindow, ReadMappings, ReadOldest, ReadLatest, ReadRows, Count,
       TakeReachable, Conclude, Wake, ReadDead, Prune
  <2> QED BY <2>1 DEF Configured
<1> QED BY <1>1, <1>2

-----------------------------------------------------------------------------
(* The cleanup *)

CleanerTypes == [pc : {"sleep", "dead", "prune"}, since : Int,
                 history : Int, cutoff : Int, dead : Int]

(* Once it prunes, the cutoff lies a day before the dead window, counted    *)
(* from when the run began.                                                 *)
CutoffInv ==
    /\ now \in Int
    /\ rows \in SUBSET Rows
    /\ cleaner \in CleanerTypes
    /\ cleaner.pc # "sleep" => cleaner.since <= now
    /\ cleaner.pc = "prune" => /\ cleaner.dead >= 1
                               /\ cleaner.cutoff <= cleaner.since - (cleaner.dead + 1) * Day

LEMMA CutoffInit == Init => CutoffInv
BY DEF Init, CutoffInv, CleanerTypes, Asleep, Rows

LEMMA RecordAdds == ASSUME NEW new, Record(new) PROVE rows' = rows \cup new
BY DEF Record

(* Only records of the current time come in.                                *)
LEMMA ReportRows == ASSUME Report, now \in Times, rows \in SUBSET Rows PROVE rows' \in SUBSET Rows
<1>1. CASE kind = "fetch" /\ \E ok \in BOOLEAN : Record({[node |-> None, at |-> now, ok |-> ok]})
  <2>1. PICK ok \in BOOLEAN : Record({[node |-> None, at |-> now, ok |-> ok]})
    BY <1>1
  <2>2. {[node |-> None, at |-> now, ok |-> ok]} \subseteq Rows
    BY DEF Rows
  <2> QED BY <2>1, <2>2, RecordAdds
<1>2. CASE kind = "node" /\ \E up \in SUBSET Nodes : \E down \in SUBSET (Nodes \ up) :
              Record([node : up, at : {now}, ok : {TRUE}] \cup [node : down, at : {now}, ok : {FALSE}])
  <2>1. PICK up \in SUBSET Nodes, down \in SUBSET Nodes :
           Record([node : up, at : {now}, ok : {TRUE}] \cup [node : down, at : {now}, ok : {FALSE}])
    BY <1>2
  <2> DEFINE good == [node : up, at : {now}, ok : {TRUE}]
             bad == [node : down, at : {now}, ok : {FALSE}]
  <2>2. good \subseteq Rows /\ bad \subseteq Rows
    BY DEF Rows
  <2>3. Record(good \cup bad)
    BY <2>1
  <2> HIDE DEF good, bad
  <2>4. rows' = rows \cup (good \cup bad)
    BY <2>3, RecordAdds
  <2> QED BY <2>2, <2>4
<1> QED BY <1>1, <1>2 DEF Report

LEMMA ReportsOnly == Report => UNCHANGED <<kind, now, created, mapped, doomed, cfg, cleaner>>
BY DEF Report, Record

LEMMA CutoffReadDead == ASSUME Configured, CutoffInv, ReadDead PROVE CutoffInv'
<1> PICK days \in ReadConfigInt("dead") :
        cleaner' = [cleaner EXCEPT !.pc = "prune", !.dead = days, !.history = 0,
            !.cutoff = cleaner.since - (Longer(cleaner.history, days) + 1) * Day]
  BY DEF ReadDead
<1>1. now' = now /\ rows' = rows /\ cleaner.pc = "dead"
  BY DEF ReadDead, tables
<1>2. days \in Int /\ days >= 1 /\ cleaner.history \in Int /\ cleaner.since \in Int
  BY WindowValues DEF CutoffInv, CleanerTypes, Windows
<1> DEFINE longer == Longer(cleaner.history, days)
<1>3. longer \in Int /\ longer >= days
  BY <1>2 DEF Longer
<1> HIDE DEF longer
<1>4. (days + 1) * Day <= (longer + 1) * Day /\ (longer + 1) * Day \in Int
      /\ (days + 1) * Day \in Int
  <2>1. days + 1 \in Int /\ longer + 1 \in Int /\ days + 1 <= longer + 1
    BY <1>2, <1>3
  <2> QED BY <2>1, DaysMonotone
<1>5. /\ cleaner' \in CleanerTypes
      /\ cleaner'.since = cleaner.since /\ cleaner'.dead = days /\ cleaner'.pc = "prune"
      /\ cleaner'.cutoff = cleaner.since - (longer + 1) * Day
  <2>1. (longer + 1) * Day \in Int
    BY <1>4
  <2>2. /\ cleaner' = [cleaner EXCEPT !.pc = "prune", !.dead = days, !.history = 0,
                       !.cutoff = cleaner.since - (longer + 1) * Day]
        /\ cleaner \in CleanerTypes
    BY <1>1 DEF longer, CutoffInv
  <2> DEFINE cut == cleaner.since - (longer + 1) * Day
  <2>3. cut \in Int
    BY <1>2, <2>1
  <2>4. cleaner' = [cleaner EXCEPT !.pc = "prune", !.dead = days, !.history = 0,
                                   !.cutoff = cut]
    BY <2>2
  <2>5. cleaner'.cutoff = cut /\ cleaner'.since = cleaner.since
        /\ cleaner'.dead = days /\ cleaner'.pc = "prune"
    <3> HIDE DEF cut
    <3> QED BY <2>2, <2>4 DEF CleanerTypes
  <2>6. cleaner' \in CleanerTypes
    <3> HIDE DEF cut
    <3>1. cleaner' = [pc |-> "prune", since |-> cleaner.since, history |-> 0,
                      cutoff |-> cut, dead |-> days]
      BY <2>2, <2>4 DEF CleanerTypes
    <3> QED BY <1>2, <2>3, <3>1 DEF CleanerTypes
  <2> QED BY <2>5, <2>6
<1> QED BY <1>1, <1>2, <1>4, <1>5 DEF CutoffInv

LEMMA CutoffPrune == ASSUME CutoffInv, Prune PROVE CutoffInv' /\ rows' \subseteq rows
BY DEF Prune, CutoffInv, CleanerTypes, Asleep, Expired

LEMMA CutoffNext == ASSUME Configured, CutoffInv, now \in Times, [Next]_vars PROVE CutoffInv'
<1>1. CASE Report
  BY <1>1, ReportRows, ReportsOnly DEF CutoffInv
<1>2. CASE \E w \in Workers : RecordFails(w) \/ Evaluate(w) \/ VerdictFails(w)
  <2>1. UNCHANGED <<now, rows, cleaner>>
    BY <1>2 DEF RecordFails, Evaluate, VerdictFails, FindAffected, ReadWindow, ReadMappings,
                ReadOldest, ReadLatest, ReadRows, Count, TakeReachable, Conclude, tables
  <2> QED BY <2>1 DEF CutoffInv
<1>3. CASE Wake
  <2> PICK days \in ReadConfigInt("history") :
          cleaner' = [Asleep EXCEPT !.pc = "dead", !.since = now, !.history = days]
    BY <1>3 DEF Wake
  <2>1. cleaner' = [pc |-> "dead", since |-> now, history |-> days, dead |-> 0, cutoff |-> 0]
    BY DEF Asleep
  <2>2. now' = now /\ rows' = rows
    BY <1>3 DEF Wake, tables
  <2> QED BY <2>1, <2>2, WindowValues DEF CutoffInv, CleanerTypes, Windows
<1>4. CASE ReadDead
  BY <1>4, CutoffReadDead
<1>5. CASE Prune
  BY <1>5, CutoffPrune
<1>6. CASE PruneFails
  BY <1>6 DEF PruneFails, tables, CutoffInv, CleanerTypes, Asleep
<1>7. CASE Configure \/ Remap \/ \E n \in Nodes : Doom(n)
  BY <1>7 DEF Configure, Remap, Doom, CutoffInv
<1>8. CASE DeleteHistory \/ \E n \in Nodes : PurgeChecks(n)
  BY <1>8 DEF DeleteHistory, PurgeChecks, Delete, CutoffInv
<1>9. CASE Tick
  BY <1>9 DEF Tick, tables, CutoffInv, CleanerTypes
<1>10. CASE UNCHANGED vars
  BY <1>10 DEF vars, tables, CutoffInv
<1> QED BY <1>1, <1>2, <1>3, <1>4, <1>5, <1>6, <1>7, <1>8, <1>9, <1>10 DEF Next, CleanupStep

(* The clock: one tick at most while a goroutine or the cleanup runs.       *)
ClockInv == now \in Times

LEMMA ClockNext == ClockInv /\ [Next]_vars => ClockInv'
<1> SUFFICES ASSUME ClockInv, [Next]_vars PROVE ClockInv'
  OBVIOUS
<1>1. CASE Tick
  BY <1>1 DEF Tick, ClockInv, Times
<1>2. CASE ~Tick
  <2>1. now' = now
    BY <1>2 DEF Next, CleanupStep, Report, Record, RecordFails, Evaluate, VerdictFails,
       PruneFails, Configure, Remap, Doom, PurgeChecks, DeleteHistory, Delete, vars,
       FindAffected, ReadWindow, ReadMappings, ReadOldest, ReadLatest, ReadRows, Count, TakeReachable,
       Conclude, Wake, ReadDead, Prune
  <2> QED BY <2>1 DEF ClockInv
<1> QED BY <1>1, <1>2

(* Whatever rows a step of the cleanup deletes, they are at least a day     *)
(* older than the window of the length it read.                             *)
LEMMA PrunedAreOld ==
    ASSUME CutoffInv, Pruning, now \in Times
    PROVE  /\ cleaner.pc = "prune" /\ rows' \subseteq rows
           /\ \A r \in rows \ rows' : r.at < cleaner.since - (cleaner.dead + 1) * Day
<1>1. /\ cleaner.pc = "prune" /\ rows' \subseteq rows
      /\ \A r \in rows \ rows' : r.at < cleaner.cutoff
  BY DEF Pruning, Prune, Expired
<1>2. /\ cleaner.cutoff \in Int /\ cleaner.since \in Int /\ (cleaner.dead + 1) * Day \in Int
      /\ cleaner.cutoff <= cleaner.since - (cleaner.dead + 1) * Day
      /\ \A r \in rows : r.at \in Int
  <2>1. cleaner.dead + 1 \in Int
    BY DEF CutoffInv, CleanerTypes
  <2> QED BY <1>1, <2>1, DaysMonotone DEF CutoffInv, CleanerTypes, Rows, Times
<1> QED BY <1>1, <1>2

LEMMA RetentionInv == Spec => [](Configured /\ ClockInv /\ CutoffInv)
<1>1. Init => Configured /\ ClockInv /\ CutoffInv
  BY CutoffInit DEF Init, Configured, ClockInv, Times
<1>2. Configured /\ ClockInv /\ CutoffInv /\ [Next]_vars => (Configured /\ ClockInv /\ CutoffInv)'
  BY ConfiguredNext, ClockNext, CutoffNext DEF ClockInv
<1> QED BY <1>1, <1>2, PTL DEF Spec

(* The arithmetic of both theorems: a row the cleanup deletes is a day      *)
(* older than the start of any window not longer than the one it read.      *)
LEMMA PrunedBeforeWindow ==
    ASSUME CutoffInv, Pruning, now \in Times,
           NEW d \in 1..cleaner.dead, NEW r \in rows \ rows'
    PROVE  r.at < now - d * Day /\ r.at \in Int /\ d * Day \in Int
<1>1. /\ cleaner.since \in Int /\ cleaner.dead \in Int /\ cleaner.since <= now
      /\ now \in Int /\ r.at \in Int /\ d \in Int /\ d <= cleaner.dead
  BY PrunedAreOld DEF CutoffInv, CleanerTypes, Rows, Times
<1>2. r.at < cleaner.since - (cleaner.dead + 1) * Day
  BY PrunedAreOld
<1>3. /\ d * Day <= cleaner.dead * Day /\ d * Day \in Int /\ cleaner.dead * Day \in Int
      /\ (cleaner.dead + 1) * Day = cleaner.dead * Day + Day
  BY <1>1, DaysMonotone, NextDay
<1> QED BY <1>1, <1>2, <1>3

(* Deleting rows older than the window cannot turn a verdict to dead: the   *)
(* window is covered by less, its records are the same, and what is silent  *)
(* after was silent before.                                                 *)
LEMMA FewerRowsCondemnNobody ==
    ASSUME NEW R, NEW S \in SUBSET R, NEW start \in Int,
           \A r \in R : r.at \in Int,
           \A r \in R \ S : r.at < start,
           Dead(S, start)
    PROVE  Dead(R, start)
<1>1. InWindow(S, start) = InWindow(R, start)
  BY DEF InWindow
<1>2. Covered(S, start) => Covered(R, start)
  BY DEF Covered
<1>3. Silent(S, start) => Silent(R, start)
  BY DEF Silent
<1>4. AllFailed(S, start) => AllFailed(R, start)
  BY <1>1 DEF AllFailed
<1> QED BY <1>2, <1>3, <1>4 DEF Dead

(* No deletion of the cleanup makes a source look dead (cleanup.go:58-60),  *)
(* for any windows, however they change while the cleanup runs.             *)
THEOREM CleanupIsSafe == Spec => CleanupCondemnsNobody
<1>1. Configured /\ ClockInv /\ CutoffInv /\ [Next]_vars
        => [Pruning => \A d \in 1..cleaner.dead : \A ns \in SUBSET Nodes :
              Dead(About(rows', ns), now - d * Day) => Dead(About(rows, ns), now - d * Day)]_vars
  <2> SUFFICES ASSUME CutoffInv, now \in Times, Pruning,
                      NEW d \in 1..cleaner.dead, NEW ns \in SUBSET Nodes,
                      Dead(About(rows', ns), now - d * Day)
               PROVE  Dead(About(rows, ns), now - d * Day)
    BY DEF ClockInv
  <2>1. /\ now - d * Day \in Int
        /\ \A r \in rows \ rows' : r.at < now - d * Day
    <3>1. d \in Int
      BY DEF CutoffInv, CleanerTypes
    <3>2. d * Day \in Int
      BY <3>1, DaysMonotone
    <3> QED BY <3>2, PrunedBeforeWindow DEF Times
  <2>2. \A r \in About(rows, ns) : r.at \in Int
    BY DEF About, CutoffInv, Rows, Times
  <2>3. /\ About(rows', ns) \in SUBSET About(rows, ns)
        /\ \A r \in About(rows, ns) \ About(rows', ns) : r.at < now - d * Day
    BY <2>1, PrunedAreOld DEF About
  <2> DEFINE start == now - d * Day
  <2> HIDE DEF start
  <2> QED BY <2>1, <2>2, <2>3, FewerRowsCondemnNobody DEF start
<1> QED BY <1>1, RetentionInv, PTL DEF CleanupCondemnsNobody, Spec

(* The extra day is enough of a buffer: while a record of that day is       *)
(* there, the cleanup does not change the verdict (cleanup.go:60).          *)
THEOREM BufferIsEnough == Spec => BufferedVerdictKept
<1>1. Configured /\ ClockInv /\ CutoffInv /\ [Next]_vars
        => [Pruning => \A ns \in SUBSET Nodes :
              LET start == now - cleaner.dead * Day IN
              (\E r \in About(rows, ns) :
                  r.at >= cleaner.since - (cleaner.dead + 1) * Day /\ r.at < start)
                 => (Dead(About(rows', ns), start) <=> Dead(About(rows, ns), start))]_vars
  <2> DEFINE start == now - cleaner.dead * Day
             reach == cleaner.since - (cleaner.dead + 1) * Day
  <2> SUFFICES ASSUME CutoffInv, now \in Times, Pruning, NEW ns \in SUBSET Nodes,
                      NEW q \in About(rows, ns), q.at >= reach /\ q.at < start
               PROVE  Dead(About(rows', ns), start) <=> Dead(About(rows, ns), start)
    BY DEF ClockInv
  <2> DEFINE R == About(rows, ns)
             S == About(rows', ns)
  <2>1. cleaner.dead \in 1..cleaner.dead
    BY PrunedAreOld DEF CutoffInv, CleanerTypes
  <2>2. /\ start \in Int /\ reach \in Int
        /\ \A r \in rows \ rows' : r.at < start /\ r.at < reach
    <3>1. cleaner.dead \in Int /\ cleaner.dead + 1 \in Int /\ cleaner.since \in Int
      BY DEF CutoffInv, CleanerTypes
    <3>2. cleaner.dead * Day \in Int /\ (cleaner.dead + 1) * Day \in Int
      BY <3>1, DaysMonotone
    <3>3. \A r \in rows \ rows' : r.at < now - cleaner.dead * Day
      BY <2>1, PrunedBeforeWindow
    <3>4. \A r \in rows \ rows' : r.at < cleaner.since - (cleaner.dead + 1) * Day
      BY PrunedAreOld
    <3> QED BY <3>1, <3>2, <3>3, <3>4 DEF Times
  <2>3. \A r \in R : r.at \in Int
    BY DEF About, CutoffInv, Rows, Times
  <2> HIDE DEF start, reach
  <2>4. S \in SUBSET R /\ \A r \in R \ S : r.at < start /\ r.at < reach
    BY <2>2, PrunedAreOld DEF About
  <2> HIDE DEF R, S
  <2>5. Dead(S, start) => Dead(R, start)
    BY <2>2, <2>3, <2>4, FewerRowsCondemnNobody
  <2>6. q \in S
    <3>1. q \in R
      BY DEF R
    <3> QED BY <3>1, <2>2, <2>3, <2>4
  <2>7. Covered(S, start)
    BY <2>6 DEF Covered
  <2>8. InWindow(S, start) = InWindow(R, start)
    BY <2>2, <2>3, <2>4 DEF InWindow
  <2>9. Silent(R, start) => Silent(S, start)
    BY <2>4 DEF Silent
  <2>10. Dead(R, start) => Dead(S, start)
    BY <2>7, <2>8, <2>9 DEF Dead, AllFailed
  <2> QED BY <2>5, <2>10 DEF R, S
<1> QED BY <1>1, RetentionInv, PTL DEF BufferedVerdictKept, Spec

-----------------------------------------------------------------------------
(* The verdicts *)

Fields  == {"pc", "since", "down", "days", "start", "seen", "nodes",
            "covered", "silent", "dead"}
Begun   == {"recorded", "source"}
Reading == {"mappings", "oldest", "latest", "rows", "reachable", "verdict"}

(* A verdict in flight knows successes that are still there, later than the *)
(* start of its window; nothing it has concluded contradicts them.          *)
JobOK(j) ==
    /\ DOMAIN j = Fields
    /\ j.pc \in {"idle"} \cup Begun \cup Reading
    /\ j.since \in Int /\ j.days \in Int /\ j.start \in Int
    /\ j.pc # "idle" => /\ j.seen \subseteq rows
                        /\ \A r \in j.seen : r.ok = TRUE
                        /\ j.since <= now /\ now <= j.since + 1
    /\ j.pc \in Begun => j.days = 0 /\ \A r \in j.seen : r.at = j.since
    /\ j.pc \in Reading => /\ j.days >= 1 /\ j.start >= j.since - j.days * Day
                           /\ \A r \in j.seen : r.at > j.start
    /\ j.pc = "mappings" => kind = "node"
    /\ j.pc \in {"rows", "reachable"} /\ j.silent => About(j.seen, j.nodes) = {}
    /\ j.pc = "verdict" /\ j.dead => About(j.seen, j.nodes) = {}

JobsOK ==
    /\ DOMAIN job = Workers
    /\ \A w \in Workers : JobOK(job[w])

LEMMA NoJobFields == /\ DOMAIN NoJob = Fields
                     /\ NoJob.days = 0 /\ NoJob.start = 0 /\ NoJob.seen = {}
BY DEF NoJob, Fields

LEMMA NoJobOK == JobOK(NoJob)
BY DEF JobOK, NoJob, Fields, Begun, Reading

(* A success in the window refutes path B, and path A.                      *)
LEMMA SuccessRefutes ==
    ASSUME NEW j, JobOK(j), j.pc \in Reading, rows \in SUBSET Rows,
           NEW r \in About(j.seen, j.nodes)
    PROVE  /\ ~Silent(About(rows, j.nodes), j.start)
           /\ r \in InWindow(About(rows, j.nodes), j.start) /\ r.ok = TRUE
<1>1. r \in j.seen /\ r \in About(rows, j.nodes) /\ r.ok = TRUE /\ r.at > j.start
  BY DEF JobOK, About, Reading
<1>2. r.at \in Int /\ j.start \in Int
  BY <1>1 DEF About, Rows, Times, JobOK
<1>3. ~(r.at <= j.start) /\ r.at >= j.start
  BY <1>1, <1>2
<1>4. ~Silent(About(rows, j.nodes), j.start)
  BY <1>1, <1>3 DEF Silent
<1> QED BY <1>1, <1>3, <1>4 DEF InWindow

(* The steps of one worker, which change neither rows nor the clock.        *)
LEMMA OneJob ==
    ASSUME JobsOK, NEW w \in Workers, NEW j, JobOK(j),
           job' = [job EXCEPT ![w] = j], UNCHANGED <<kind, now, rows>>
    PROVE  JobsOK'
<1>1. \A v \in Workers : job'[v] = IF v = w THEN j ELSE job[v]
  BY DEF JobsOK
<1>2. \A v \in Workers : JobOK(job'[v])
  BY <1>1 DEF JobsOK
<1>3. \A v \in Workers : JobOK(job[v])'
  BY <1>2 DEF JobOK, About
<1>4. DOMAIN job' = Workers
  BY DEF JobsOK
<1> QED BY <1>3, <1>4 DEF JobsOK

LEMMA JobEnds == ASSUME JobsOK, NEW w \in Workers, End(w), UNCHANGED <<kind, now, rows>> PROVE JobsOK'
BY OneJob, NoJobOK DEF End

LEMMA JobFindAffected == ASSUME JobsOK, NEW w \in Workers, FindAffected(w) PROVE JobsOK'
<1>1. UNCHANGED <<kind, now, rows>> /\ job[w].pc = "recorded"
  BY DEF FindAffected, tables
<1>2. CASE End(w)
  BY <1>1, <1>2, JobEnds
<1>3. CASE job' = [job EXCEPT ![w].pc = "source", ![w].down = {}]
  <2> DEFINE j == [job[w] EXCEPT !.pc = "source", !.down = {}]
  <2>1. job' = [job EXCEPT ![w] = j]
    BY <1>3 DEF JobsOK
  <2>2. JobOK(j)
    BY <1>1 DEF JobsOK, JobOK, Fields, Begun, Reading
  <2> HIDE DEF j
  <2> QED BY <1>1, <2>1, <2>2, OneJob
<1> QED BY <1>2, <1>3 DEF FindAffected

LEMMA JobReadWindow ==
    ASSUME JobsOK, Configured, now \in Times, rows \in SUBSET Rows,
           NEW w \in Workers, ReadWindow(w)
    PROVE  JobsOK'
<1>1. UNCHANGED <<kind, now, rows>> /\ job[w].pc = "source"
  BY DEF ReadWindow, tables
<1>2. CASE End(w)
  BY <1>1, <1>2, JobEnds
<1>3. CASE ~End(w)
  <2> PICK days \in ReadConfigInt("dead") :
        job' = [job EXCEPT ![w].pc = IF kind = "node" THEN "mappings" ELSE "oldest",
                           ![w].days = days,
                           ![w].start = now - days * Day,
                           ![w].seen = @ \cup Successes(now - days * Day)]
    BY <1>3 DEF ReadWindow
  <2> DEFINE next == IF kind = "node" THEN "mappings" ELSE "oldest"
             start == now - days * Day
             known == job[w].seen \cup Successes(start)
             j == [job[w] EXCEPT !.pc = next, !.days = days, !.start = start, !.seen = known]
  <2>1. job' = [job EXCEPT ![w] = j]
    BY DEF JobsOK
  <2>2. /\ days \in Int /\ days >= 1 /\ days * Day \in Int /\ days * Day >= Day
        /\ now \in Int /\ job[w].since \in Int /\ job[w].since <= now /\ now <= job[w].since + 1
        /\ next \in {"mappings", "oldest"} /\ (next = "mappings" => kind = "node")
    <3>1. days \in Int /\ days >= 1
      BY WindowValues DEF Windows
    <3>2. 1 * Day <= days * Day /\ days * Day \in Int
      BY <3>1, DaysMonotone
    <3> QED BY <1>1, <3>1, <3>2 DEF JobsOK, JobOK, Times
  <2>3. /\ start \in Int /\ start >= job[w].since - days * Day
        /\ job[w].since > start
    <3> QED BY <2>2
  <2>4. /\ known \subseteq rows
        /\ \A r \in known : r.ok = TRUE /\ r.at > start
    <3> HIDE DEF start
    <3>1. /\ job[w].seen \subseteq rows
          /\ \A r \in job[w].seen : r.ok = TRUE /\ r.at = job[w].since
      BY <1>1 DEF JobsOK, JobOK, Begun
    <3>2. /\ Successes(start) \subseteq rows
          /\ \A r \in Successes(start) : r.ok = TRUE /\ r.at > start
      BY DEF Successes, Rows
    <3> QED BY <2>3, <3>1, <3>2
  <2> HIDE DEF next, start, known
  <2>5. /\ DOMAIN j = Fields /\ j.pc = next /\ j.days = days /\ j.start = start
        /\ j.seen = known /\ j.since = job[w].since
    BY DEF JobsOK, JobOK, Fields
  <2> HIDE DEF j
  <2>6. JobOK(j)
    BY <2>2, <2>3, <2>4, <2>5 DEF JobOK, Begun, Reading
  <2> QED BY <1>1, <2>1, <2>6, OneJob
<1> QED BY <1>2, <1>3

(* A verdict reads on: what it knows stays, and what it concludes is sound. *)
LEMMA ReadOn ==
    ASSUME JobsOK, NEW w \in Workers, job[w].pc \in Reading,
           NEW j, DOMAIN j = Fields, j.pc \in Reading \ {"mappings"},
           j.since = job[w].since, j.days = job[w].days, j.start = job[w].start,
           j.seen = job[w].seen,
           j.pc \in {"rows", "reachable"} /\ j.silent => About(j.seen, j.nodes) = {},
           j.pc = "verdict" /\ j.dead => About(j.seen, j.nodes) = {},
           job' = [job EXCEPT ![w] = j], UNCHANGED <<kind, now, rows>>
    PROVE  JobsOK'
<1>1. JobOK(j)
  BY DEF JobsOK, JobOK, Begun, Reading
<1> QED BY <1>1, OneJob

LEMMA JobReadMappings == ASSUME JobsOK, NEW w \in Workers, ReadMappings(w) PROVE JobsOK'
<1> DEFINE next == IF mapped = {} THEN "verdict" ELSE "oldest"
           dead == mapped = {} /\ created <= now - job[w].days * Day
           j == [job[w] EXCEPT !.nodes = mapped, !.pc = next, !.dead = dead]
<1>1. /\ UNCHANGED <<kind, now, rows>> /\ job[w].pc = "mappings"
      /\ job' = [job EXCEPT ![w] = j]
  BY DEF ReadMappings, tables, JobsOK
<1>2. dead => mapped = {}
  OBVIOUS
<1>3. next \in {"verdict", "oldest"} /\ (next = "verdict" => mapped = {})
  OBVIOUS
<1> HIDE DEF next, dead
<1>4. /\ DOMAIN j = Fields /\ j.pc = next /\ j.nodes = mapped
      /\ j.since = job[w].since /\ j.days = job[w].days /\ j.start = job[w].start
      /\ j.seen = job[w].seen
  BY DEF JobsOK, JobOK, Fields
<1> HIDE DEF j
<1>5. next = "verdict" => \A r \in rows : ~(r.node \in mapped)
  BY <1>3
<1>6. CASE next = "oldest"
  BY <1>1, <1>3, <1>4, <1>6, ReadOn DEF Reading
<1>7. CASE next = "verdict"
  <2>1. kind = "node"
    BY <1>1 DEF JobsOK, JobOK
  <2> QED BY <1>1, <1>3, <1>4, <1>7, <2>1, ReadOn DEF Reading, About
<1> QED BY <1>3, <1>6, <1>7

LEMMA JobReadOldest == ASSUME JobsOK, NEW w \in Workers, ReadOldest(w) PROVE JobsOK'
<1> DEFINE covered == Covered(About(rows, job[w].nodes), job[w].start)
           j == [job[w] EXCEPT !.pc = "latest", !.covered = covered]
<1>1. /\ UNCHANGED <<kind, now, rows>> /\ job[w].pc = "oldest"
      /\ job' = [job EXCEPT ![w] = j]
  BY DEF ReadOldest, tables, JobsOK
<1> HIDE DEF covered
<1>2. /\ DOMAIN j = Fields /\ j.pc = "latest"
      /\ j.since = job[w].since /\ j.days = job[w].days /\ j.start = job[w].start
      /\ j.seen = job[w].seen
  BY DEF JobsOK, JobOK, Fields
<1> HIDE DEF j
<1> QED BY <1>1, <1>2, ReadOn DEF Reading

LEMMA JobReadLatest ==
    ASSUME JobsOK, rows \in SUBSET Rows, NEW w \in Workers, ReadLatest(w)
    PROVE  JobsOK'
<1> DEFINE quiet == Silent(About(rows, job[w].nodes), job[w].start)
           next == IF job[w].covered THEN "rows" ELSE "verdict"
           silent == job[w].covered /\ quiet
           dead == ~job[w].covered /\ quiet
           j == [job[w] EXCEPT !.pc = next, !.silent = silent, !.dead = dead]
<1>1. /\ UNCHANGED <<kind, now, rows>> /\ job[w].pc = "latest"
      /\ job' = [job EXCEPT ![w] = j]
  BY DEF ReadLatest, tables, JobsOK
<1>2. quiet => About(job[w].seen, job[w].nodes) = {}
  <2>1. JobOK(job[w]) /\ job[w].pc \in Reading
    BY <1>1 DEF JobsOK, Reading
  <2> QED BY <2>1, SuccessRefutes
<1>3. (silent => quiet) /\ (dead => quiet) /\ next \in {"rows", "verdict"}
  OBVIOUS
<1> HIDE DEF quiet, silent, dead, next
<1>4. /\ DOMAIN j = Fields /\ j.pc = next /\ j.silent = silent /\ j.dead = dead
      /\ j.since = job[w].since /\ j.days = job[w].days /\ j.start = job[w].start
      /\ j.seen = job[w].seen /\ j.nodes = job[w].nodes
  BY DEF JobsOK, JobOK, Fields
<1> HIDE DEF j
<1> QED BY <1>1, <1>2, <1>3, <1>4, ReadOn DEF Reading

LEMMA JobReadRows ==
    ASSUME JobsOK, rows \in SUBSET Rows, NEW w \in Workers, ReadRows(w)
    PROVE  JobsOK'
<1> DEFINE dead == AllFailed(rows, job[w].start) \/ job[w].silent
           j == [job[w] EXCEPT !.pc = "verdict", !.dead = dead]
<1>1. /\ UNCHANGED <<kind, now, rows>> /\ job[w].pc = "rows" /\ kind = "fetch"
      /\ job' = [job EXCEPT ![w] = j]
  BY DEF ReadRows, tables, JobsOK
<1>2. JobOK(job[w]) /\ job[w].pc \in Reading
  BY <1>1 DEF JobsOK, Reading
<1>3. AllFailed(rows, job[w].start) => About(job[w].seen, job[w].nodes) = {}
  <2>1. About(rows, job[w].nodes) = rows
    BY <1>1 DEF About
  <2> QED BY <1>2, <2>1, SuccessRefutes DEF AllFailed
<1>4. job[w].silent => About(job[w].seen, job[w].nodes) = {}
  BY <1>1, <1>2 DEF JobOK
<1>5. dead => About(job[w].seen, job[w].nodes) = {}
  BY <1>3, <1>4
<1> HIDE DEF dead
<1>6. /\ DOMAIN j = Fields /\ j.pc = "verdict" /\ j.dead = dead
      /\ j.since = job[w].since /\ j.days = job[w].days /\ j.start = job[w].start
      /\ j.seen = job[w].seen /\ j.nodes = job[w].nodes
  BY DEF JobsOK, JobOK, Fields
<1> HIDE DEF j
<1> QED BY <1>1, <1>2, <1>5, <1>6, ReadOn DEF Reading

LEMMA JobCount == ASSUME JobsOK, NEW w \in Workers, Count(w) PROVE JobsOK'
<1>1. /\ UNCHANGED <<kind, now, rows>> /\ job[w].pc = "rows"
      /\ JobOK(job[w]) /\ job[w].pc \in Reading
  BY DEF Count, tables, JobsOK, Reading
<1>2. job[w].silent => About(job[w].seen, job[w].nodes) = {}
  BY <1>1 DEF JobOK
<1>3. CASE job' = [job EXCEPT ![w].pc = "reachable"]
  <2> DEFINE j == [job[w] EXCEPT !.pc = "reachable"]
  <2>1. job' = [job EXCEPT ![w] = j]
    BY <1>3 DEF JobsOK
  <2>2. /\ DOMAIN j = Fields /\ j.pc = "reachable" /\ j.silent = job[w].silent
        /\ j.since = job[w].since /\ j.days = job[w].days /\ j.start = job[w].start
        /\ j.seen = job[w].seen /\ j.nodes = job[w].nodes
    BY DEF JobsOK, JobOK, Fields
  <2> HIDE DEF j
  <2> QED BY <1>1, <1>2, <2>1, <2>2, ReadOn DEF Reading
<1>4. CASE job' = [job EXCEPT ![w].pc = "verdict", ![w].dead = job[w].silent]
  <2> DEFINE j == [job[w] EXCEPT !.pc = "verdict", !.dead = job[w].silent]
  <2>1. job' = [job EXCEPT ![w] = j]
    BY <1>4 DEF JobsOK
  <2>2. /\ DOMAIN j = Fields /\ j.pc = "verdict" /\ j.dead = job[w].silent
        /\ j.since = job[w].since /\ j.days = job[w].days /\ j.start = job[w].start
        /\ j.seen = job[w].seen /\ j.nodes = job[w].nodes
    BY DEF JobsOK, JobOK, Fields
  <2> HIDE DEF j
  <2> QED BY <1>1, <1>2, <2>1, <2>2, ReadOn DEF Reading
<1> QED BY <1>3, <1>4 DEF Count, Goto

LEMMA JobTakeReachable ==
    ASSUME JobsOK, rows \in SUBSET Rows, NEW w \in Workers, TakeReachable(w)
    PROVE  JobsOK'
<1> DEFINE none == \A r \in InWindow(About(rows, job[w].nodes), job[w].start) : ~r.ok
           dead == none \/ job[w].silent
           j == [job[w] EXCEPT !.pc = "verdict", !.dead = dead]
<1>1. /\ UNCHANGED <<kind, now, rows>> /\ job[w].pc = "reachable"
      /\ job' = [job EXCEPT ![w] = j]
  BY DEF TakeReachable, tables, JobsOK
<1>2. JobOK(job[w]) /\ job[w].pc \in Reading
  BY <1>1 DEF JobsOK, Reading
<1>3. none => About(job[w].seen, job[w].nodes) = {}
  BY <1>2, SuccessRefutes
<1>4. job[w].silent => About(job[w].seen, job[w].nodes) = {}
  BY <1>1, <1>2 DEF JobOK
<1>5. dead => About(job[w].seen, job[w].nodes) = {}
  BY <1>3, <1>4
<1> HIDE DEF dead
<1>6. /\ DOMAIN j = Fields /\ j.pc = "verdict" /\ j.dead = dead
      /\ j.since = job[w].since /\ j.days = job[w].days /\ j.start = job[w].start
      /\ j.seen = job[w].seen /\ j.nodes = job[w].nodes
  BY DEF JobsOK, JobOK, Fields
<1> HIDE DEF j
<1> QED BY <1>1, <1>2, <1>5, <1>6, ReadOn DEF Reading

LEMMA JobEvaluate ==
    ASSUME JobsOK, Configured, now \in Times, rows \in SUBSET Rows,
           NEW w \in Workers, Evaluate(w) \/ RecordFails(w) \/ VerdictFails(w)
    PROVE  JobsOK'
<1>1. CASE Conclude(w)
  BY <1>1, JobEnds DEF Conclude, tables
<1>2. CASE VerdictFails(w)
  BY <1>2, JobEnds DEF VerdictFails, tables
<1>3. CASE RecordFails(w)
  <2> DEFINE j == [NoJob EXCEPT !.since = now, !.pc = "source"]
  <2>1. job' = [job EXCEPT ![w] = j] /\ UNCHANGED <<kind, now, rows>>
    BY <1>3 DEF RecordFails, tables
  <2>2. /\ DOMAIN j = Fields /\ j.pc = "source" /\ j.since = now
        /\ j.days = 0 /\ j.start = 0 /\ j.seen = {}
    BY NoJobFields DEF Fields
  <2> HIDE DEF j
  <2>3. JobOK(j)
    BY <2>2 DEF JobOK, Begun, Reading, Times
  <2> QED BY <2>1, <2>3, OneJob
<1> QED BY <1>1, <1>2, <1>3, JobFindAffected, JobReadWindow, JobReadMappings, JobReadOldest,
           JobReadLatest, JobReadRows, JobCount, JobTakeReachable DEF Evaluate

(* Rows come in: what the other verdicts know is still there.               *)
LEMMA JobKept ==
    ASSUME JobsOK, rows \subseteq rows', UNCHANGED <<kind, now>>,
           NEW w \in Workers, job'[w] = job[w]
    PROVE  JobOK(job[w])'
BY DEF JobsOK, JobOK, About

LEMMA JobsKept ==
    ASSUME JobsOK, rows \subseteq rows', UNCHANGED <<kind, now, job>>
    PROVE  JobsOK'
<1>1. ASSUME NEW w \in Workers PROVE JobOK(job[w])'
  BY JobKept
<1> QED BY <1>1 DEF JobsOK

LEMMA JobsRecord ==
    ASSUME JobsOK, now \in Times, rows \in SUBSET Rows, NEW new, Record(new),
           \A r \in new : r \in Rows /\ r.at = now
    PROVE  JobsOK'
<1>1. UNCHANGED <<kind, now>> /\ rows' = rows \cup new
  BY DEF Record
<1>2. CASE UNCHANGED job
  BY <1>1, <1>2, JobsKept
<1>3. ASSUME NEW w \in Workers,
             job' = [job EXCEPT ![w] =
                 [NoJob EXCEPT !.since = now, !.seen = {r \in new : r.ok},
                               !.down = {n \in Nodes : \E r \in new : r.node = n /\ ~r.ok},
                               !.pc = IF kind = "node" THEN "recorded" ELSE "source"]]
      PROVE  JobsOK'
  <2> DEFINE seen == {r \in new : r.ok}
             down == {n \in Nodes : \E r \in new : r.node = n /\ ~r.ok}
             pc == IF kind = "node" THEN "recorded" ELSE "source"
             j == [NoJob EXCEPT !.since = now, !.seen = seen, !.down = down, !.pc = pc]
  <2>1. job' = [job EXCEPT ![w] = j]
    BY <1>3
  <2>2. pc \in {"recorded", "source"} /\ \A r \in seen : r \in new /\ r.ok = TRUE
    BY DEF Rows
  <2> HIDE DEF seen, down, pc
  <2>3. /\ DOMAIN j = Fields /\ j.pc = pc /\ j.since = now
        /\ j.days = 0 /\ j.start = 0 /\ j.seen = seen
    BY NoJobFields DEF Fields
  <2>7. job'[w] = j
    BY <2>1 DEF JobsOK
  <2>8. /\ DOMAIN job'[w] = Fields /\ job'[w].pc = pc /\ job'[w].since = now
        /\ job'[w].days = 0 /\ job'[w].start = 0 /\ job'[w].seen = seen
    BY <2>3, <2>7
  <2> HIDE DEF j
  <2>4. JobOK(job[w])'
    BY <1>1, <2>2, <2>8 DEF JobOK, Begun, Reading, Times
  <2>5. ASSUME NEW v \in Workers PROVE JobOK(job[v])'
    <3>1. CASE v = w
      BY <2>4, <3>1
    <3>2. CASE v # w
      <4>1. job'[v] = job[v]
        BY <2>1, <3>2 DEF JobsOK
      <4> QED BY <1>1, <4>1, JobKept
    <3> QED BY <3>1, <3>2
  <2>6. DOMAIN job' = Workers
    BY <2>1 DEF JobsOK
  <2> QED BY <2>5, <2>6 DEF JobsOK
<1>4. \/ UNCHANGED job
      \/ \E w \in Workers : job' = [job EXCEPT ![w] =
                 [NoJob EXCEPT !.since = now, !.seen = {r \in new : r.ok},
                               !.down = {n \in Nodes : \E r \in new : r.node = n /\ ~r.ok},
                               !.pc = IF kind = "node" THEN "recorded" ELSE "source"]]
  BY DEF Record
<1> QED BY <1>2, <1>3, <1>4

LEMMA JobsReport ==
    ASSUME JobsOK, now \in Times, rows \in SUBSET Rows, Report
    PROVE  JobsOK'
<1>1. CASE kind = "fetch" /\ \E ok \in BOOLEAN : Record({[node |-> None, at |-> now, ok |-> ok]})
  <2>1. PICK ok \in BOOLEAN : Record({[node |-> None, at |-> now, ok |-> ok]})
    BY <1>1
  <2>2. \A r \in {[node |-> None, at |-> now, ok |-> ok]} : r \in Rows /\ r.at = now
    BY DEF Rows
  <2> QED BY <2>1, <2>2, JobsRecord
<1>2. CASE kind = "node" /\ \E up \in SUBSET Nodes : \E down \in SUBSET (Nodes \ up) :
              /\ up \cup down # {}
              /\ Record([node : up, at : {now}, ok : {TRUE}] \cup [node : down, at : {now}, ok : {FALSE}])
  <2>1. PICK up \in SUBSET Nodes, down \in SUBSET Nodes :
           Record([node : up, at : {now}, ok : {TRUE}] \cup [node : down, at : {now}, ok : {FALSE}])
    BY <1>2
  <2> DEFINE good == [node : up, at : {now}, ok : {TRUE}]
             bad == [node : down, at : {now}, ok : {FALSE}]
  <2>2. /\ \A r \in good : r \in Rows /\ r.at = now
        /\ \A r \in bad : r \in Rows /\ r.at = now
    BY DEF Rows
  <2>3. Record(good \cup bad)
    BY <2>1
  <2> HIDE DEF good, bad
  <2>4. \A r \in good \cup bad : r \in Rows /\ r.at = now
    BY <2>2
  <2> QED BY <2>3, <2>4, JobsRecord
<1> QED BY <1>1, <1>2 DEF Report

(* What the cleanup deletes is older than anything a verdict knows, unless  *)
(* the verdict has read a longer window than the cleanup.                   *)
LEMMA PruneSparesSeen ==
    ASSUME JobsOK, CutoffInv, now \in Times, Prune, NEW w \in Workers, job[w].pc # "idle",
           ~(cleaner.dead < job[w].days), NEW r \in job[w].seen
    PROVE  r \in rows'
<1>1. /\ r \in rows /\ r.at \in Int /\ job[w].since \in Int /\ job[w].days \in Int
      /\ job[w].start \in Int /\ job[w].since <= now /\ now <= job[w].since + 1 /\ now \in Int
  BY DEF JobsOK, JobOK, CutoffInv, Rows, Times
<1>2. /\ cleaner.since \in Int /\ cleaner.dead \in Int /\ cleaner.dead >= 1
      /\ cleaner.cutoff \in Int /\ cleaner.since <= now
      /\ cleaner.cutoff <= cleaner.since - (cleaner.dead + 1) * Day
  BY DEF CutoffInv, CleanerTypes, Prune
<1>3. /\ (cleaner.dead + 1) * Day = cleaner.dead * Day + Day /\ cleaner.dead * Day \in Int
      /\ job[w].days * Day <= cleaner.dead * Day /\ job[w].days * Day \in Int
      /\ Day <= cleaner.dead * Day
  <2>1. job[w].days <= cleaner.dead
    BY <1>1, <1>2
  <2>2. 1 * Day <= cleaner.dead * Day
    BY <1>2, DaysMonotone
  <2> QED BY <1>1, <1>2, <2>1, <2>2, DaysMonotone, NextDay
<1>4. r.at >= cleaner.cutoff
  <2>1. CASE job[w].pc \in Begun
    <3>1. r.at = job[w].since
      BY <2>1 DEF JobsOK, JobOK
    <3> QED BY <1>1, <1>2, <1>3, <3>1
  <2>2. CASE job[w].pc \in Reading
    <3>1. r.at > job[w].start /\ job[w].start >= job[w].since - job[w].days * Day
      BY <2>2 DEF JobsOK, JobOK
    <3> QED BY <1>1, <1>2, <1>3, <3>1
  <2> QED BY <2>1, <2>2 DEF JobsOK, JobOK
<1>5. ~(r.at < cleaner.cutoff)
  BY <1>1, <1>2, <1>4
<1> QED BY <1>1, <1>5 DEF Prune, Expired

LEMMA JobsPrune == ASSUME JobsOK, CutoffInv, now \in Times, Prune PROVE JobsOK'
<1>1. PICK batch \in SUBSET Expired :
        /\ rows' = rows \ batch
        /\ job' = [w \in Workers |->
             IF cleaner.dead < job[w].days THEN [job[w] EXCEPT !.seen = job[w].seen \ batch]
                                           ELSE job[w]]
  BY DEF Prune
<1>2. UNCHANGED <<kind, now>> /\ DOMAIN job' = Workers
  BY <1>1 DEF Prune
<1>3. ASSUME NEW w \in Workers PROVE JobOK(job[w])'
  <2>1. JobOK(job[w])
    BY DEF JobsOK
  <2>2. CASE cleaner.dead < job[w].days
    <3>1. job'[w] = [job[w] EXCEPT !.seen = job[w].seen \ batch]
      BY <1>1, <2>2
    <3>2. /\ DOMAIN job'[w] = Fields
          /\ job'[w].pc = job[w].pc /\ job'[w].since = job[w].since
          /\ job'[w].days = job[w].days /\ job'[w].start = job[w].start
          /\ job'[w].nodes = job[w].nodes
          /\ job'[w].silent = job[w].silent /\ job'[w].dead = job[w].dead
          /\ job'[w].seen = job[w].seen \ batch
      BY <2>1, <3>1 DEF JobOK, Fields
    <3>3. About(job'[w].seen, job'[w].nodes) \subseteq About(job[w].seen, job[w].nodes)
      BY <3>2 DEF About
    <3>4. job[w].pc # "idle" => job'[w].seen \subseteq rows'
      BY <1>1, <2>1, <3>2 DEF JobOK
    <3>5. \A r \in job'[w].seen : r \in job[w].seen
      BY <3>2
    <3> QED BY <1>2, <2>1, <3>2, <3>3, <3>4, <3>5 DEF JobOK, About
  <2>3. CASE ~(cleaner.dead < job[w].days)
    <3>1. job'[w] = job[w]
      BY <1>1, <2>3
    <3>2. job[w].pc # "idle" => job[w].seen \subseteq rows'
      BY <2>3, PruneSparesSeen
    <3> QED BY <1>2, <2>1, <3>1, <3>2 DEF JobOK, About
  <2> QED BY <2>2, <2>3
<1> QED BY <1>2, <1>3 DEF JobsOK

(* What goes with its node or its source is forgotten by every verdict.     *)
LEMMA JobsDelete == ASSUME JobsOK, NEW lost, Delete(lost) PROVE JobsOK'
<1>1. /\ UNCHANGED <<kind, now>> /\ rows' = rows \ lost
      /\ job' = [w \in Workers |-> [job[w] EXCEPT !.seen = job[w].seen \ lost]]
  BY DEF Delete
<1>2. ASSUME NEW w \in Workers PROVE JobOK(job[w])'
  <2>1. JobOK(job[w])
    BY DEF JobsOK
  <2>2. job'[w] = [job[w] EXCEPT !.seen = job[w].seen \ lost]
    BY <1>1
  <2>3. /\ DOMAIN job'[w] = Fields
        /\ job'[w].pc = job[w].pc /\ job'[w].since = job[w].since
        /\ job'[w].days = job[w].days /\ job'[w].start = job[w].start
        /\ job'[w].nodes = job[w].nodes
        /\ job'[w].silent = job[w].silent /\ job'[w].dead = job[w].dead
        /\ job'[w].seen = job[w].seen \ lost
    BY <2>1, <2>2 DEF JobOK, Fields
  <2>4. About(job'[w].seen, job'[w].nodes) \subseteq About(job[w].seen, job[w].nodes)
    BY <2>3 DEF About
  <2>5. job[w].pc # "idle" => job'[w].seen \subseteq rows'
    BY <1>1, <2>1, <2>3 DEF JobOK
  <2>6. \A r \in job'[w].seen : r \in job[w].seen
    BY <2>3
  <2> QED BY <1>1, <2>1, <2>3, <2>4, <2>5, <2>6 DEF JobOK, About
<1> QED BY <1>1, <1>2 DEF JobsOK

LEMMA JobsTick == ASSUME JobsOK, now \in Times, Tick PROVE JobsOK'
<1>1. /\ UNCHANGED <<kind, rows, job>> /\ now' = now + 1
      /\ \A w \in Workers : job[w].pc # "idle" => job[w].since = now
  BY DEF Tick, tables
<1>2. ASSUME NEW w \in Workers PROVE JobOK(job[w])'
  BY <1>1 DEF JobsOK, JobOK, About, Times
<1> QED BY <1>1, <1>2 DEF JobsOK

LEMMA JobsNext ==
    ASSUME JobsOK, Configured, ClockInv, CutoffInv, [Next]_vars
    PROVE  JobsOK'
<1>1. now \in Times /\ rows \in SUBSET Rows
  BY DEF ClockInv, CutoffInv
<1>2. CASE Report
  BY <1>1, <1>2, JobsReport
<1>3. CASE \E w \in Workers : RecordFails(w) \/ Evaluate(w) \/ VerdictFails(w)
  BY <1>1, <1>3, JobEvaluate
<1>4. CASE Prune
  BY <1>1, <1>4, JobsPrune
<1>5. CASE Tick
  BY <1>1, <1>5, JobsTick
<1>6. CASE \/ Wake \/ ReadDead \/ PruneFails \/ Configure \/ Remap \/ UNCHANGED vars
           \/ \E n \in Nodes : Doom(n)
  <2>1. UNCHANGED <<kind, now, rows, job>>
    BY <1>6 DEF Wake, ReadDead, PruneFails, Configure, Remap, Doom, vars, tables
  <2> QED BY <2>1, JobsKept
<1>7. CASE DeleteHistory \/ \E n \in Nodes : PurgeChecks(n)
  <2>1. \E lost : Delete(lost)
    BY <1>7 DEF DeleteHistory, PurgeChecks
  <2> QED BY <2>1, JobsDelete
<1> QED BY <1>2, <1>3, <1>4, <1>5, <1>6, <1>7 DEF Next, CleanupStep

(* A success that was in the window, or that the goroutine recorded itself, *)
(* saves its source, whatever is inserted, pruned, remapped, configured or  *)
(* fails while the verdict runs, if it is not deleted itself (docs/source-management.md:39-42,                 *)
(* dead.go:41-104, dead_node.go:32-163, cleanup.go:85-109).                 *)
THEOREM SuccessSaves == Spec => []SuccessProtects
<1>1. Init => JobsOK
  <2> SUFFICES ASSUME Init PROVE JobsOK
    OBVIOUS
  <2>1. job = [w \in Workers |-> NoJob]
    BY DEF Init
  <2> QED BY <2>1, NoJobOK DEF JobsOK
<1>2. JobsOK /\ (Configured /\ ClockInv /\ CutoffInv) /\ [Next]_vars => JobsOK'
  BY JobsNext
<1>3. JobsOK => SuccessProtects
  BY DEF JobsOK, JobOK, SuccessProtects
<1> QED BY <1>1, <1>2, <1>3, RetentionInv, PTL DEF Spec
-----------------------------------------------------------------------------
(* Types *)

Jobs == [pc : {"idle", "recorded", "source", "mappings", "oldest",
               "latest", "rows", "reachable", "verdict"},
         since : Times, down : SUBSET Nodes, days : Int, start : Int,
         seen : SUBSET Rows, nodes : SUBSET Nodes, covered : BOOLEAN,
         silent : BOOLEAN, dead : BOOLEAN]

(* What the other invariants leave open.                                    *)
TypesInv ==
    /\ kind \in Kinds /\ created \in Created
    /\ mapped \in SUBSET Nodes /\ doomed \in SUBSET Nodes
    /\ cleaner.since \in Times
    /\ job \in [Workers -> Jobs]

LEMMA NoJobTyped == NoJob \in Jobs
BY DEF NoJob, Jobs, Times

LEMMA EndTyped ==
    ASSUME job \in [Workers -> Jobs], NEW w \in Workers, End(w)
    PROVE  job' \in [Workers -> Jobs]
BY NoJobTyped DEF End

LEMMA ReportTyped ==
    ASSUME job \in [Workers -> Jobs], now \in Times, rows \in SUBSET Rows, Report
    PROVE  job' \in [Workers -> Jobs]
<1>1. PICK new : Record(new)
  BY DEF Report
<1>2. new \in SUBSET Rows
  <2>1. rows' \in SUBSET Rows /\ rows' = rows \cup new
    BY <1>1, ReportRows DEF Record
  <2> QED BY <2>1
<1> DEFINE seen == {r \in new : r.ok}
           down == {n \in Nodes : \E r \in new : r.node = n /\ ~r.ok}
           pc == IF kind = "node" THEN "recorded" ELSE "source"
           j == [NoJob EXCEPT !.since = now, !.seen = seen, !.down = down, !.pc = pc]
<1>3. UNCHANGED job \/ \E w \in Workers : job' = [job EXCEPT ![w] = j]
  BY <1>1 DEF Record
<1>4. seen \in SUBSET Rows /\ down \in SUBSET Nodes /\ pc \in {"recorded", "source"}
  BY <1>2
<1> HIDE DEF seen, down, pc
<1>5. j \in Jobs
  BY <1>4, NoJobTyped DEF Jobs
<1> HIDE DEF j
<1> QED BY <1>3, <1>5

LEMMA EvaluateTyped ==
    ASSUME job \in [Workers -> Jobs], mapped \in SUBSET Nodes, now \in Times,
           rows \in SUBSET Rows, Configured,
           NEW w \in Workers, RecordFails(w) \/ Evaluate(w) \/ VerdictFails(w)
    PROVE  job' \in [Workers -> Jobs]
<1>1. CASE RecordFails(w)
  BY <1>1, NoJobTyped DEF RecordFails, Jobs
<1>2. CASE FindAffected(w)
  BY <1>2, EndTyped DEF FindAffected, Jobs
<1>3. CASE End(w)
  BY <1>3, EndTyped
<1>11. CASE ReadWindow(w) /\ ~End(w)
  <2> PICK days \in ReadConfigInt("dead") :
        job' = [job EXCEPT ![w].pc = IF kind = "node" THEN "mappings" ELSE "oldest",
                           ![w].days = days,
                           ![w].start = now - days * Day,
                           ![w].seen = @ \cup Successes(now - days * Day)]
    BY <1>11 DEF ReadWindow
  <2> DEFINE next == IF kind = "node" THEN "mappings" ELSE "oldest"
             start == now - days * Day
             known == job[w].seen \cup Successes(start)
             j == [job[w] EXCEPT !.pc = next, !.days = days, !.start = start, !.seen = known]
  <2>1. job' = [job EXCEPT ![w] = j]
    OBVIOUS
  <2>2. days \in Int
    BY WindowValues DEF Windows
  <2>3. start \in Int
    <3>1. days * Day \in Int
      BY <2>2, DaysMonotone
    <3> QED BY <3>1 DEF Times
  <2>4. known \in SUBSET Rows
    BY DEF Successes, Jobs
  <2>5. next \in {"mappings", "oldest"}
    OBVIOUS
  <2> HIDE DEF next, start, known
  <2>6. j \in Jobs
    BY <2>2, <2>3, <2>4, <2>5 DEF Jobs
  <2> HIDE DEF j
  <2> QED BY <2>1, <2>6
<1>4. CASE ReadMappings(w)
  <2> DEFINE next == IF mapped = {} THEN "verdict" ELSE "oldest"
             dead == mapped = {} /\ created <= now - job[w].days * Day
             j == [job[w] EXCEPT !.nodes = mapped, !.pc = next, !.dead = dead]
  <2>1. job' = [job EXCEPT ![w] = j]
    BY <1>4 DEF ReadMappings
  <2>2. next \in {"verdict", "oldest"} /\ dead \in BOOLEAN
    OBVIOUS
  <2> HIDE DEF next, dead
  <2>3. j \in Jobs
    BY <2>2 DEF Jobs
  <2> HIDE DEF j
  <2> QED BY <2>1, <2>3
<1>5. CASE ReadOldest(w)
  <2> DEFINE covered == Covered(About(rows, job[w].nodes), job[w].start)
             j == [job[w] EXCEPT !.pc = "latest", !.covered = covered]
  <2>1. job' = [job EXCEPT ![w] = j]
    BY <1>5 DEF ReadOldest
  <2>2. covered \in BOOLEAN
    BY DEF Covered
  <2> HIDE DEF covered
  <2>3. j \in Jobs
    BY <2>2 DEF Jobs
  <2> HIDE DEF j
  <2> QED BY <2>1, <2>3
<1>6. CASE ReadLatest(w)
  <2> DEFINE quiet == Silent(About(rows, job[w].nodes), job[w].start)
             next == IF job[w].covered THEN "rows" ELSE "verdict"
             silent == job[w].covered /\ quiet
             dead == ~job[w].covered /\ quiet
             j == [job[w] EXCEPT !.pc = next, !.silent = silent, !.dead = dead]
  <2>1. job' = [job EXCEPT ![w] = j]
    BY <1>6 DEF ReadLatest
  <2>2. next \in {"rows", "verdict"} /\ silent \in BOOLEAN /\ dead \in BOOLEAN
    OBVIOUS
  <2> HIDE DEF next, silent, dead
  <2>3. j \in Jobs
    BY <2>2 DEF Jobs
  <2> HIDE DEF j
  <2> QED BY <2>1, <2>3
<1>7. CASE ReadRows(w)
  <2> DEFINE dead == AllFailed(rows, job[w].start) \/ job[w].silent
             j == [job[w] EXCEPT !.pc = "verdict", !.dead = dead]
  <2>1. job' = [job EXCEPT ![w] = j]
    BY <1>7 DEF ReadRows
  <2>2. dead \in BOOLEAN
    OBVIOUS
  <2> HIDE DEF dead
  <2>3. j \in Jobs
    BY <2>2 DEF Jobs
  <2> HIDE DEF j
  <2> QED BY <2>1, <2>3
<1>8. CASE Count(w)
  BY <1>8 DEF Count, Goto, Jobs
<1>9. CASE TakeReachable(w)
  <2> DEFINE dead == \/ \A r \in InWindow(About(rows, job[w].nodes), job[w].start) : ~r.ok
                     \/ job[w].silent
             j == [job[w] EXCEPT !.pc = "verdict", !.dead = dead]
  <2>1. job' = [job EXCEPT ![w] = j]
    BY <1>9 DEF TakeReachable
  <2>2. dead \in BOOLEAN
    OBVIOUS
  <2> HIDE DEF dead
  <2>3. j \in Jobs
    BY <2>2 DEF Jobs
  <2> HIDE DEF j
  <2> QED BY <2>1, <2>3
<1>10. CASE Conclude(w) \/ VerdictFails(w)
  BY <1>10, EndTyped DEF Conclude, VerdictFails
<1> QED BY <1>1, <1>2, <1>3, <1>4, <1>5, <1>6, <1>7, <1>8, <1>9, <1>10, <1>11 DEF Evaluate

LEMMA PruneTyped ==
    ASSUME job \in [Workers -> Jobs], Prune
    PROVE  job' \in [Workers -> Jobs]
<1>1. PICK batch \in SUBSET Expired :
        job' = [w \in Workers |->
              IF cleaner.dead < job[w].days THEN [job[w] EXCEPT !.seen = @ \ batch]
                                            ELSE job[w]]
  BY DEF Prune
<1>2. ASSUME NEW w \in Workers PROVE [job[w] EXCEPT !.seen = @ \ batch] \in Jobs
  BY DEF Jobs
<1> QED BY <1>1, <1>2

LEMMA TypesNext ==
    ASSUME TypesInv, Configured, ClockInv, CutoffInv, [Next]_vars
    PROVE  TypesInv'
<1> USE DEF TypesInv
<1>1. now \in Times /\ rows \in SUBSET Rows
  BY DEF ClockInv, CutoffInv
<1>2. CASE Report
  BY <1>1, <1>2, ReportTyped, ReportsOnly
<1>3. ASSUME NEW w \in Workers, RecordFails(w) \/ Evaluate(w) \/ VerdictFails(w)
      PROVE  TypesInv'
  <2>1. UNCHANGED <<kind, created, mapped, doomed, cleaner>>
    BY <1>3 DEF RecordFails, Evaluate, VerdictFails, FindAffected, ReadWindow, ReadMappings,
                ReadOldest, ReadLatest, ReadRows, Count, TakeReachable, Conclude, tables
  <2> QED BY <1>1, <1>3, <2>1, EvaluateTyped
<1>4. CASE Wake \/ PruneFails
  <2>1. UNCHANGED <<kind, created, mapped, doomed, job>>
    BY <1>4 DEF Wake, PruneFails, tables
  <2>2. CASE Wake
    <3>1. \E days : cleaner' = [Asleep EXCEPT !.pc = "dead", !.since = now, !.history = days]
      BY <2>2 DEF Wake
    <3>2. cleaner'.since = now
      BY <3>1 DEF Asleep
    <3> QED BY <1>1, <2>1, <3>2
  <2>3. CASE PruneFails
    BY <2>1, <2>3 DEF PruneFails, Asleep, Times
  <2> QED BY <1>4, <2>2, <2>3
<1>5. CASE ReadDead
  <2>1. /\ \E days, cut : cleaner' = [cleaner EXCEPT !.pc = "prune", !.dead = days,
                                                    !.history = 0, !.cutoff = cut]
        /\ UNCHANGED <<kind, created, mapped, doomed, job>>
    BY <1>5 DEF ReadDead, tables
  <2>2. cleaner'.since = cleaner.since
    BY <2>1 DEF CutoffInv, CleanerTypes
  <2> QED BY <2>1, <2>2
<1>6. CASE Prune
  <2>1. UNCHANGED <<kind, created, mapped, doomed>> /\ cleaner' \in {Asleep, cleaner}
    BY <1>6 DEF Prune
  <2> QED BY <1>6, <2>1, PruneTyped DEF Asleep, Times
<1>7. CASE DeleteHistory \/ \E n \in Nodes : PurgeChecks(n)
  <2>1. PICK lost : Delete(lost)
    BY <1>7 DEF DeleteHistory, PurgeChecks
  <2>2. UNCHANGED <<kind, created, mapped, cleaner>> /\ doomed' \in SUBSET Nodes
    BY <1>7, <2>1 DEF DeleteHistory, PurgeChecks, Delete
  <2>3. \A w \in Workers : [job[w] EXCEPT !.seen = job[w].seen \ lost] \in Jobs
    BY DEF Jobs
  <2> QED BY <2>1, <2>2, <2>3 DEF Delete
<1>8. CASE Configure \/ Remap \/ Tick \/ UNCHANGED vars \/ \E n \in Nodes : Doom(n)
  BY <1>8 DEF Configure, Remap, Tick, Doom, vars, tables
<1> QED BY <1>2, <1>3, <1>4, <1>5, <1>6, <1>7, <1>8 DEF Next, CleanupStep

(* Clock, tables, goroutines and cleanup keep their types: no window is     *)
(* ever zero or less and no record later than the clock's range (dead.go,   *)
(* dead_node.go, cleanup.go).                                               *)
THEOREM TypeCorrect == Spec => []TypeOK
<1>1. Init => TypesInv
  BY NoJobTyped DEF Init, TypesInv, Asleep, Times
<1>2. TypesInv /\ (Configured /\ ClockInv /\ CutoffInv) /\ [Next]_vars => TypesInv'
  BY TypesNext
<1>3. TypesInv /\ Configured /\ ClockInv /\ CutoffInv => TypeOK
  BY DEF TypesInv, Configured, ClockInv, CutoffInv, CleanerTypes, TypeOK, Jobs
<1> QED BY <1>1, <1>2, <1>3, RetentionInv, PTL DEF Spec

=============================================================================
