------------------------------ MODULE AdminApi ------------------------------
(***************************************************************************)
(* The lists of the admin API.  A client walks the pages of one list while *)
(* others insert, change and delete rows of its table.  A page is not one  *)
(* statement: most lists count first and find afterwards, some resolve a   *)
(* filter to ids even before that, the searches load the whole table and   *)
(* put every row to an expression whose compiled program all requests      *)
(* share (filter/filter.go).  Any statement may fail; the errors of two    *)
(* are dropped, and their page answers as if they had found nothing.       *)
(*                                                                         *)
(* The table is a sequence of sets in the order of the list: the rows of   *)
(* one set tie, and a query may return them in any order.                  *)
(***************************************************************************)
EXTENDS Integers, FiniteSets, Sequences, SequencesExt, FiniteSetsExt

CONSTANTS
    Ids,            \* row ids
    None,           \* no content, no program
    Contents,       \* of sources (with their type)
    Admins,         \* requests that create sources
    Requested,      \* limits a client asks for
    DefaultLimit,   \* 20
    MaxLimit,       \* 200
    MaxPreview,     \* 100
    EnvFields,      \* the fields of NodeFilterEnv and SourceFilterEnv, in order
    Tested,         \* the field an expression on each table tests
    MaxRows         \* bound: rows of each table

Envs == {"node", "source"}
Expressions == {Tested[env] : env \in Envs}

ASSUME NoneAssumption == None \notin Contents /\ None \notin Envs
ASSUME LimitsAssumption ==
    /\ Requested \subseteq Int
    /\ DefaultLimit \in Nat \ {0} /\ MaxLimit \in Nat \ {0} /\ MaxPreview \in Nat \ {0}

(* No field of one environment is a field of the other (filter/env.go), so  *)
(* no expression that tests one compiles for both.                          *)
ASSUME FieldsAssumption ==
    /\ EnvFields \in [Envs -> Seq(Expressions \cup {"another"})]
    /\ \A env \in Envs : {e \in Envs : Tested[env] \in Range(EnvFields[e])} = {env}

VARIABLES
    query,      \* the list that is walked
    table,      \* its rows
    attr,       \* the rows its filter selects: alive nodes, active sources
    content,    \* sources.content
    programs,   \* caches: the environment each program was compiled for
    compiled,   \* programs other requests have compiled and not yet stored
    create,     \* requests between their lookup and their insert
    excused,    \* history: rows Create is not to blame for
    walk        \* the walk and its request
data == <<table, attr, content, create, excused>>
vars == <<query, data, programs, compiled, walk>>

-----------------------------------------------------------------------------
(* The lists *)

FetchList == [table |-> "log", sorts |-> {"time"}, wheres |-> {"all", "attr"}, how |-> "sql"]
CheckList == FetchList
GetInitialChecks == FetchList
GetDeepChecks == FetchList

SponsorList == [table |-> "sponsor", sorts |-> {"key"}, wheres |-> {"all"}, how |-> "sql"]

(* By creation or by node count, filtered by columns.                       *)
SourceList == [table |-> "source", sorts |-> {"time", "key"},
               wheres |-> {"all", "attr"}, how |-> "sql"]

(* By creation, region or score, filtered by columns or by has_streaming.   *)
NodeList == [table |-> "node", sorts |-> {"time", "key"},
             wheres |-> {"all", "attr", "ids"}, how |-> "sql"]

SourceGetNodes == [table |-> "node", sorts |-> {"none"}, wheres |-> {"attr"}, how |-> "sql"]

NodeSearch == [table |-> "node", sorts |-> {"none"},
               wheres |-> {"all"} \cup Expressions, how |-> "memory"]
SourceSearch == [table |-> "source", sorts |-> {"none"},
                 wheres |-> {"all"} \cup Expressions, how |-> "memory"]

previewNodes == [table |-> "node", sorts |-> {"none"},
                 wheres |-> Expressions, how |-> "preview"]
previewSources == [table |-> "source", sorts |-> {"none"},
                   wheres |-> Expressions, how |-> "preview"]

Lists == {FetchList, CheckList, GetInitialChecks, GetDeepChecks, SponsorList,
          SourceList, NodeList, SourceGetNodes, NodeSearch, SourceSearch,
          previewNodes, previewSources}

Queries == UNION {[table : {l.table}, sort : l.sorts, where : l.wheres, how : {l.how}] :
                  l \in Lists}

InSQL == query.how = "sql"

-----------------------------------------------------------------------------
(* Rows and their order *)

Rows(T) == UNION Range(T)
Place(T, i) == CHOOSE j \in DOMAIN T : i \in T[j]
Without(T, i) ==
    LET j == Place(T, i)
    IN  IF T[j] = {i} THEN RemoveAt(T, j) ELSE [T EXCEPT ![j] = @ \ {i}]

(* The checks of one submission bear one time (checker/handler.go:127,      *)
(* 211-216), the youngest or the one before it.                             *)
Batches(T) == IF query.table = "log" THEN {1, 2} \cap DOMAIN T ELSE {}

(* Where a row may come in: a key is any, taken or not.  The time of its    *)
(* batch is new, but one stamped before it may be inserted after it.        *)
With(T, i) ==
    CASE query.sort = "none" -> {<<{i} \cup Rows(T)>>}
      [] query.sort = "time" -> {InsertAt(T, j, {i}) : j \in {1, 2} \cap (1..Len(T) + 1)}
                           \cup {[T EXCEPT ![j] = @ \cup {i}] : j \in Batches(T)}
      [] query.sort = "key" -> {InsertAt(T, j, {i}) : j \in 1..Len(T) + 1}
                          \cup {[T EXCEPT ![j] = @ \cup {i}] : j \in DOMAIN T}

Visible(T, A) == IF query.where = "all" THEN Rows(T) ELSE Rows(T) \cap A

Below(T, A, i) ==
    IF i \in Visible(T, A) THEN {k \in Visible(T, A) : Place(T, i) < Place(T, k)} ELSE {}

Ties(T, A, i) ==
    {i} \cup (IF i \in Visible(T, A) THEN T[Place(T, i)] \cap Visible(T, A) ELSE {})

(* The rows whose place in the list is certain.                             *)
Steady(T, A) ==
    IF query.sort = "none" THEN {} ELSE {i \in Visible(T, A) : Ties(T, A, i) = {i}}

(* Mutant of Orders: no ORDER BY.                                           *)
OrdersAny(S) ==
    {s \in [1..Cardinality(S) -> S] : \A j, k \in DOMAIN s : j # k => s[j] # s[k]}

(* The orders a query may return.                                           *)
Orders(S) ==
    {s \in [1..Cardinality(S) -> S] :
        \A j, k \in DOMAIN s : j < k => /\ s[j] # s[k]
                                        /\ Place(table, s[j]) <= Place(table, s[k])}

-----------------------------------------------------------------------------
(* normalise and totalPages *)

NormalPage(page) == IF page < 1 THEN 1 ELSE page

(* Mutant of NormalLimit: no maximum.                                       *)
NormalLimitUncapped(limit) == IF limit < 1 THEN DefaultLimit ELSE limit

NormalLimit(limit) ==
    IF limit < 1 THEN DefaultLimit ELSE IF limit > MaxLimit THEN MaxLimit ELSE limit

(* Mutant of TotalPages: the remainder gets no page.                        *)
TotalPagesFloor(total, limit) == total \div limit

TotalPages(total, limit) == (total + limit - 1) \div limit

(* Mutant of Slice: pages overlap by a row.                                 *)
SliceOverlap(n, page, limit) ==
    (IF page = 1 THEN 1 ELSE (page - 1) * limit)..(IF page * limit < n THEN page * limit ELSE n)

(* Offset and Limit, or the slice of a search, of n rows.                   *)
Slice(n, page, limit) ==
    ((page - 1) * limit + 1)..(IF page * limit < n THEN page * limit ELSE n)

-----------------------------------------------------------------------------
(* due: rows that were there from the start and have not been moved up      *)
(* since; calm: rows not moved down; grown: a row appeared between the      *)
(* count and the page; misled: a statement failed and its error was dropped;*)
(* got: the rows of the page.                                               *)
NoWalk == [pc |-> "idle", page |-> 1, limit |-> DefaultLimit, total |-> 0,
           ids |-> {}, matching |-> {}, got |-> {}, seen |-> {}, twice |-> {},
           due |-> {}, calm |-> {}, grown |-> FALSE, misled |-> FALSE]

(* unsure: what the look-up told is not known to hold.                      *)
NoCreate == [content |-> None, unsure |-> FALSE]

Init ==
    /\ query \in Queries
    /\ table = <<>> /\ attr = {}
    /\ content = [i \in Ids |-> None]
    /\ programs = [e \in Expressions |-> None]
    /\ compiled = {}
    /\ create = [a \in Admins |-> NoCreate]
    /\ excused = {}
    /\ walk = NoWalk

-----------------------------------------------------------------------------
(* Rows come, change and go *)

Fresh == Ids \ (Rows(table) \cup walk.ids \cup walk.seen)

(* What the change of row i means for the walk: which rows it moved up,     *)
(* moved down or made uncertain.  Ids once resolved stay in the list.       *)
Watch(i) ==
    LET resolved == IF query.where = "ids" THEN walk.ids ELSE {}
        before == Below(table, attr \cup resolved, i)
        after  == Below(table', attr' \cup resolved, i)
        ties   == Ties(table', attr' \cup resolved, i)
    IN  walk' = IF walk.pc = "idle" THEN walk ELSE
            [walk EXCEPT !.due = @ \ ((before \ after) \cup ties),
                         !.calm = @ \ ((after \ before) \cup ties),
                         !.grown = @ \/ /\ walk.pc = "find"
                                        /\ i \in Visible(table', attr') \ Visible(table, attr)]

(* A node is inserted dead, a log or check may be of another node, source   *)
(* or tag than the list's.                                                  *)
Insert(i) ==
    /\ query.table # "source"
    /\ i \in Fresh /\ Cardinality(Rows(table)) < MaxRows[query.table]
    /\ table' \in With(table, i)
    /\ \/ UNCHANGED attr
       \/ query.table = "log" /\ attr' = attr \cup {i}
    /\ Watch(i)
    /\ UNCHANGED <<query, content, create, excused, programs, compiled>>

(* The verdicts of the checker: a source dies, a node dies or comes alive;  *)
(* its streaming services and its mappings change likewise.  A list of all  *)
(* rows does not ask.                                                       *)
Toggle(i) ==
    /\ query.table \in {"node", "source"} /\ query.where # "all"
    /\ i \in Rows(table)
    /\ \/ attr' = attr \ {i}
       \/ query.table = "node" /\ attr' = attr \cup {i}
    /\ UNCHANGED <<table, content, create, excused, query, programs, compiled>>
    /\ Watch(i)

(* A score, a node count or a priority changes.                             *)
Move(i) ==
    /\ query.sort = "key"
    /\ i \in Rows(table)
    /\ table' \in With(Without(table, i), i)
    /\ UNCHANGED <<attr, content, create, excused, query, programs, compiled>>
    /\ Watch(i)

(* Rows go one by one, logs and checks too: a purged node or a deleted      *)
(* source takes its own with it, wherever they are.                         *)
Delete(i) ==
    /\ i \in Rows(table)
    /\ table' = Without(table, i)
    /\ attr' = attr \ {i}
    /\ content' = [content EXCEPT ![i] = None]
    /\ excused' = excused \ {i}
    /\ UNCHANGED <<create, query, programs, compiled>>
    /\ Watch(i)

-----------------------------------------------------------------------------
(* source.Service: Create and Update *)

(* Others that are creating a source with this content now race.            *)
Raced(J, c) == [a \in Admins |-> IF J[a].content = c THEN [J[a] EXCEPT !.unsure = TRUE] ELSE J[a]]

(* Mutant of Lookup: no look for an existing source.                        *)
LookupNothing(a) ==
    /\ query.table = "source"
    /\ create[a] = NoCreate
    /\ \E c \in Contents : create' = [create EXCEPT ![a].content = c]
    /\ UNCHANGED <<query, table, attr, content, excused, programs, compiled, walk>>

(* A source with this content answers the request.  Any error is taken for  *)
(* none found, that of a failed look-up too.                                *)
Lookup(a) ==
    /\ query.table = "source"
    /\ create[a] = NoCreate
    /\ \E c \in Contents :
         \/ /\ \A i \in Rows(table) : content[i] # c
            /\ create' = [create EXCEPT ![a] = [content |-> c, unsure |-> FALSE]]
         \/ create' = [create EXCEPT ![a] = [content |-> c, unsure |-> TRUE]]
    /\ UNCHANGED <<query, table, attr, content, excused, programs, compiled, walk>>

Create(a, i) ==
    /\ create[a] # NoCreate
    /\ i \in Fresh /\ Cardinality(Rows(table)) < MaxRows[query.table]
    /\ table' \in With(table, i)
    /\ attr' = attr \cup {i}
    /\ content' = [content EXCEPT ![i] = create[a].content]
    /\ create' = Raced([create EXCEPT ![a] = NoCreate], create[a].content)
    /\ excused' = IF create[a].unsure THEN excused \cup {i} ELSE excused
    /\ Watch(i)
    /\ UNCHANGED <<query, programs, compiled>>

(* Update does not look for another source with the new content.            *)
Update(i) ==
    /\ query.table = "source" /\ i \in Rows(table)
    /\ \E c \in Contents :
         /\ content' = [content EXCEPT ![i] = c]
         /\ create' = Raced(create, c)
    /\ excused' = excused \cup {i}
    /\ UNCHANGED <<query, table, attr, programs, compiled, walk>>

-----------------------------------------------------------------------------
(* The pages of a list *)

First ==
    IF ~InSQL THEN "load" ELSE IF query.where = "ids" THEN "ids" ELSE "count"

Quiet == <<query, data, programs, compiled>>

(* The first request; no page is page 1.  A preview has one page.           *)
Start ==
    /\ walk.pc = "idle"
    /\ \E limit \in Requested :
         walk' = [NoWalk EXCEPT
             !.pc = First,
             !.page = NormalPage(0),
             !.limit = IF query.how = "preview" THEN MaxPreview ELSE NormalLimit(limit),
             !.due = Steady(table, attr), !.calm = Steady(table, attr)]
    /\ UNCHANGED Quiet

(* The response has the rows S; the client asks for the next page as long   *)
(* as the total promises one.                                               *)
Respond(S, total) ==
    walk' = [walk EXCEPT
        !.total = total,
        !.got = S,
        !.twice = @ \cup (S \cap walk.seen),
        !.seen = @ \cup S,
        !.pc = IF walk.page < TotalPages(total, walk.limit) /\ query.how # "preview"
               THEN "more" ELSE "done"]

More ==
    /\ walk.pc = "more"
    /\ walk' = [walk EXCEPT !.pc = First, !.page = @ + 1, !.total = 0,
                            !.matching = {}, !.got = {}, !.grown = FALSE]
    /\ UNCHANGED Quiet

(* streamingNodeIDs; without any the answer is empty, and the error of its  *)
(* query is dropped.                                                        *)
ResolveIds ==
    /\ walk.pc = "ids"
    /\ LET found == Rows(table) \cap attr
           gone  == (Rows(table) \cap walk.ids) \ found
       IN  \/ found = {} /\ Respond({}, 0)
           \/ /\ found # {}
              /\ walk' = [walk EXCEPT
                  !.ids = found, !.pc = "count",
                  !.due = @ \ UNION {Below(table, attr \cup walk.ids, i) : i \in gone}]
           \/ walk' = [walk EXCEPT !.pc = "done", !.misled = TRUE]
    /\ UNCHANGED Quiet

Listed == IF query.where = "ids" THEN Rows(table) \cap walk.ids ELSE Visible(table, attr)

(* The nodes of a source are the one list that asks for an attribute of     *)
(* nodes without an order.  It drops the error of its count.                *)
DropsCountError == query.table = "node" /\ query.sort = "none"

Count ==
    /\ walk.pc = "count"
    /\ \/ walk' = [walk EXCEPT !.pc = "find", !.total = Cardinality(Listed)]
       \/ DropsCountError /\ walk' = [walk EXCEPT !.pc = "find", !.misled = TRUE]
    /\ UNCHANGED Quiet

Find ==
    /\ walk.pc = "find"
    /\ \E rows \in Orders(Listed) :
         Respond({rows[j] : j \in Slice(Len(rows), walk.page, walk.limit)}, walk.total)
    /\ UNCHANGED Quiet

-----------------------------------------------------------------------------
(* Searches and previews *)

(* All rows are loaded; only if there are any is the expression looked at.  *)
Load ==
    /\ walk.pc = "load"
    /\ walk' = [walk EXCEPT
          !.ids = Rows(table),
          !.matching = IF query.where = "all" THEN Rows(table) ELSE Rows(table) \cap attr,
          !.pc = IF query.where = "all" \/ table = <<>> THEN "page" ELSE "eval"]
    /\ UNCHANGED Quiet

Compiles(e, env) == e \in Range(EnvFields[env])

(* compiled(): the cache is asked by expression alone; a program that fails *)
(* to compile is an error, and is not cached.                               *)
Eval ==
    /\ walk.pc = "eval"
    /\ walk' = [walk EXCEPT !.pc =
          IF programs[query.where] # None THEN "run"
          ELSE IF Compiles(query.where, query.table) THEN "store" ELSE "failed"]
    /\ UNCHANGED Quiet

Store ==
    /\ walk.pc = "store"
    /\ programs' = [programs EXCEPT ![query.where] = query.table]
    /\ walk' = [walk EXCEPT !.pc = "run"]
    /\ UNCHANGED <<query, data, compiled>>

(* A program reads the fields of its environment by their index; past the   *)
(* end of another environment that is an error.                             *)
IndexIn(env, e) == CHOOSE j \in DOMAIN EnvFields[env] : EnvFields[env][j] = e

(* EvalBool on every row.  A field other than the one the expression names  *)
(* does not have the value it asks for.                                     *)
Run ==
    /\ walk.pc = "run"
    /\ LET fields == EnvFields[query.table]
           j      == IndexIn(programs[query.where], query.where)
       IN  walk' =
             IF j \notin DOMAIN fields THEN [walk EXCEPT !.pc = "failed"]
             ELSE [walk EXCEPT !.pc = "page",
                               !.matching = IF fields[j] = Tested[query.table] THEN @ ELSE {}]
    /\ UNCHANGED Quiet

(* The page is cut from what matched; nothing was counted before.  A        *)
(* preview stops at its limit.                                              *)
Page ==
    /\ walk.pc = "page"
    /\ LET total == Cardinality(walk.matching) IN
         \E S \in kSubset(Cardinality(Slice(total, walk.page, walk.limit)), walk.matching) :
           Respond(S, total)
    /\ UNCHANGED Quiet

(* The other errors are answered, and end the walk.                         *)
QueryFails ==
    /\ walk.pc \in {"find", "load"} \/ (walk.pc = "count" /\ ~DropsCountError)
    /\ walk' = NoWalk
    /\ UNCHANGED Quiet

End ==
    /\ walk.pc \in {"done", "failed"}
    /\ walk' = NoWalk
    /\ UNCHANGED Quiet

(* Other requests with the expression of this one: searches and previews of *)
(* either table, sponsor and distribution filters on nodes.                 *)
CompileElsewhere(e, env) ==
    /\ query.where = e
    /\ programs[e] = None
    /\ Compiles(e, env)
    /\ compiled' = compiled \cup {<<e, env>>}
    /\ UNCHANGED <<query, data, programs, walk>>

StoreElsewhere(e, env) ==
    /\ <<e, env>> \in compiled
    /\ compiled' = compiled \ {<<e, env>>}
    /\ programs' = [programs EXCEPT ![e] = env]
    /\ UNCHANGED <<query, data, walk>>

-----------------------------------------------------------------------------
Walk ==
    \/ Start \/ More \/ ResolveIds \/ Count \/ Find \/ QueryFails
    \/ Load \/ Eval \/ Store \/ Run \/ Page \/ End

Next ==
    \/ Walk
    \/ \E i \in Ids : Insert(i) \/ Toggle(i) \/ Move(i) \/ Delete(i) \/ Update(i)
    \/ \E a \in Admins : Lookup(a) \/ \E i \in Ids : Create(a, i)
    \/ \E e \in Expressions, env \in Envs : CompileElsewhere(e, env) \/ StoreElsewhere(e, env)

Spec == Init /\ [][Next]_vars

-----------------------------------------------------------------------------
(* Properties *)

(* Every variable keeps its type, and the rows of the table are in one      *)
(* place each.                                                              *)
TypeOK ==
    /\ query \in Queries
    /\ table \in Seq((SUBSET Ids) \ {{}})
    /\ \A j, k \in DOMAIN table : table[j] \cap table[k] # {} => j = k
    /\ attr \in SUBSET Ids
    /\ content \in [Ids -> Contents \cup {None}]
    /\ programs \in [Expressions -> Envs \cup {None}]
    /\ compiled \in SUBSET (Expressions \X Envs)
    /\ create \in [Admins -> [content : Contents \cup {None}, unsure : BOOLEAN]]
    /\ excused \in SUBSET Ids
    /\ walk \in [pc : {"idle", "ids", "count", "find", "load", "eval", "store", "run",
                       "page", "more", "done", "failed"},
                 page : Nat, limit : 1..Max({DefaultLimit, MaxLimit, MaxPreview}),
                 total : Nat, ids : SUBSET Ids, matching : SUBSET Ids, got : SUBSET Ids,
                 seen : SUBSET Ids, twice : SUBSET Ids, due : SUBSET Ids,
                 calm : SUBSET Ids, grown : BOOLEAN, misled : BOOLEAN]

(* A client that stops at the last page the total promises has seen every   *)
(* row that was there from start to end, though rows come, go and move all  *)
(* the while: a row is missed only if another leaves the pages before it,   *)
(* if it ever shares its key or time, if the list grew between count and    *)
(* page, or if the last page hides a failed query                           *)
(* (node/service.go:92-114,233-236, source/service.go:82-109).              *)
NothingMissed ==
    walk.pc = "done" /\ InSQL /\ ~walk.grown /\ ~walk.misled => walk.due \subseteq walk.seen

(* No row is on two pages unless another came in above it or ever shares    *)
(* its key or time (api/handler/logs.go:65-80, sponsor/sponsor.go:66-76).   *)
NothingTwice == walk.twice \cap walk.calm = {}

Announced == LET rest == walk.total - (walk.page - 1) * walk.limit
             IN  Min({walk.limit, Max({rest, 0})})

(* A page holds as many rows as total, page and limit of the response say:  *)
(* exactly in a search, and in a list no more unless it grew meanwhile or   *)
(* its count failed unseen (sponsor.go:132-138, search.go:192-205).         *)
PageAsAnnounced ==
    walk.pc \in {"more", "done"} =>
        /\ ~InSQL => Cardinality(walk.got) = Announced
        /\ Cardinality(walk.got) <= Announced \/ walk.grown \/ walk.misled

(* No two sources have the same type and content unless an update said so,  *)
(* two requests created them at the same time or the look-up of the later   *)
(* one failed (docs/source-management.md:13, source/service.go:29-33).      *)
DuplicatesExcused ==
    \A i, j \in Rows(table) \ excused :
        i # j /\ content[i] # None => content[i] # content[j]
=============================================================================
