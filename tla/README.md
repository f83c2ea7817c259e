# Verification of paily-core

paily-core collects proxy nodes from subscription sources, has them checked
from several vantage points and distributes the good ones as subscriptions.
This directory keeps TLA+ models of its core logic beside the code, the TLC
configurations that check them on small instances, and TLAPS proofs of their
main properties for every value of the constants.

Source paths below are relative to `src/internal/` unless they start with
`src/`.

## 1. The system

One process, one SQL database (SQLite with a single connection by default,
PostgreSQL with several), one in-memory cache. Handlers answer a request and
then work on in goroutines of their own; the periodic cleanup and the cache's
rebuild loop run beside them. The components share the database, and almost
nothing else orders them: the checker endpoint has a mutex per checker tag, the
cache a channel of capacity one, the upsert one transaction per node. Every
other sequence of statements may be interleaved with, or cut short by, anything.

| Component | Code | State | Operations |
| --- | --- | --- | --- |
| Node pool | `node/upsert.go`, `node/service.go` | `nodes`, `node_sources`, check history, tag scores | upsert of a fetch report, stale pass, shared cleanup, node delete |
| Source lifecycle | `source/service.go`, `source/dead.go`, `source/dead_node.go` | `sources`, fetch history | create, update, delete, ignore_dead, fetch verdict, node verdict, mark dead and clean |
| Fetcher endpoint | `fetcher/handler.go` | none of its own | hand out active sources; take reports, one after the other per request body |
| Checker endpoint | `checker/handler.go` | one mutex per tag | hand out nodes; take check results: record, decide alive, start scoring, evaluate sources, trigger the cache |
| Scoring | `scoring/scoring.go` | `node_tag_scores`, `nodes.score`, cached parameters | score of a node and tag, mean over the tags |
| Alive cache | `cache/cache.go`, `cache/rebuild.go` | trigger channel, per-tag sub-caches | trigger, debounce, rebuild, swap, read |
| Distribution | `distribution/selector.go`, `distribution/handler.go` | none | candidates by tag and unlock filter, presets, quotas per region, sampling, numbering |
| Cleanup | `cleanup/cleanup.go` | none | prune histories older than their retention |
| Runtime configuration | `api/handler/config.go`, `db/db.go` | `configs` | seed, validate and update interdependent windows |
| Sponsor and filter engine | `sponsor/sponsor.go`, `filter/` | `sponsors`, cache of compiled programs | match, compile, evaluate |
| Naming and templates | `naming/naming.go`, `templates/` | none | grade, flag, region name, render |
| Authentication | `auth/`, `api/middleware/` | none | tokens and passwords |
| Admin API | `api/handler/` | none | lists page by page, searches and previews by expression, CRUD around the services |

How they interact:

- fetcher endpoint → node pool (upsert) → source lifecycle (fetch history, fetch
  verdict, mark dead) → node pool (shared cleanup `removeSourceMappings`);
- checker endpoint → check history and `nodes.alive` → scoring goroutine →
  source lifecycle (node verdict, mark dead) → node pool (the same cleanup) →
  alive cache (trigger);
- alive cache ← database (rebuild) → distribution (reads);
- cleanup removes the history rows the two verdicts, the scores and the cache
  rest on.

What is hard about each, and what makes it correct:

- *Node pool.* Reports, cleanups and deletes work on the same rows statement by
  statement. Correct: a node is stored once; a mapping points at a row; a
  reported node is mapped when its report is through; what one source's handling
  does takes nothing from another; a row without mappings goes, with its
  history; handlers end.
- *Source lifecycle.* Two endpoints condemn concurrently, on verdicts made of
  rows that others change. Correct: one of them cleans, a dead source maps
  nothing, a source is condemned only for what the documentation names.
- *Checker endpoint.* Submissions of one tag queue on a mutex, those of other
  tags decide on the same nodes. Correct: the alive flag agrees with the latest
  checks; no submission blocks its tag.
- *Alive cache.* Triggers are dropped when the channel is full, and arrive in
  the middle of a rebuild whose queries share no transaction; some changes
  trigger nothing at all. Correct: no trigger is lost; at rest the cache shows
  the tables but for the silent changes since; it gets there.
- *Scoring.* Goroutines of several tags, and of several submissions of one tag,
  read, average and write the same node. Correct: at rest the node's score is
  the mean of its tag scores, each computed from the latest records.
- *Distribution.* Rounded quotas must add up. Correct: never more than the
  maximum, all there is when there is less, no node twice, UN last.
- *Cleanup.* Correct: it condemns nobody, and changes no verdict that its buffer
  day covers.
- *Runtime configuration.* Interdependent windows are validated against values
  another update may change, and saved key by key; a value that cannot be read
  is not compared, and its readers fall back to defaults. Correct: a request
  that overlaps no other leaves the windows in order, whatever others have left;
  with any windows the cleanup spares what the verdict needs.
- *Admin API.* A page is several statements and a walk several requests, while
  rows come, change place and go, and the errors of two statements are dropped.
  Correct: a row that stays where it is is neither missed nor shown twice; a
  page holds what its total announces; a source is created once.
- *Filter engine.* All requests share one cache of compiled programs. No
  property is stated of it: what it may get wrong needs an expression that two
  types share, see section 6.

## 2. Plan

| # | Modules | Subject | State |
| --- | --- | --- | --- |
| 1 | `NodePool`, `NodePoolProofs` | pool and source lifecycle | done |
| 2 | `AliveCache`, `ViewContract`, `AliveCacheProofs` | cache and its contract | done |
| 3 | `CheckResults`, `CheckResultsProofs` | the alive decision | done |
| 4 | `Selector`, `Sampling`, `Distribution`, `SelectorProofs`, `DistributionProofs` | presets and quotas, the weighted sample, filter and names | done |
| 5 | `Retention`, `ConfigUpdate`, `RetentionProofs` | the two dead verdicts over time-stamped records, the cleanup that prunes them, the config requests that set their windows | done |
| 6 | `Scoring`, `ScoringProofs` | the scoring goroutines over `node_tag_scores` and `nodes.score`, and the parameter cache | done |
| 7 | `AdminApi`, `AdminApiProofs` | the lists and searches of the admin API, creation of sources, the program cache | done |

How the modules compose. `Distribution` extends `Selector` and `Sampling` and is
checked with them. `AliveCache` implements `ViewContract`. `RetentionProofs`
instantiates `ConfigUpdate` and proves that each of its steps is a
`Retention.Configure` or changes no window. The others meet at one action each,
which the coarser module leaves open and the finer one decides: `Retention`
gives the verdict of `NodePool.Eval`, `CheckResults` the nodes that
`AliveCache.MarkAlive` and `MarkDead` name, `Scoring` the value that
`AliveCache.WriteScore` writes. In each case the coarser action allows every
result of the finer one, so that its properties hold whatever the finer module
does, and the finer module allows everything the other may do to the rows it
reads: of the pool, `Retention.Remap` its mappings, `Doom`, `PurgeChecks` and
`DeleteHistory` the histories it deletes, `AliveCache.DeleteNode` and `Prune`
the nodes and their checks, `Scoring.PurgeChecks` and `PurgeScores` the rest; of
the checker endpoint `Scoring.Submit`, of the cleanup `Scoring.Expire` and
`AliveCache.Prune`.

## 3. The modules

Each component has its module; the module whose name starts with `MC` adds what
TLC needs, and the one that ends in `Proofs` the theorems. Loops of the code
whose result matters are recursive functions, which the proof system can reason
about; there are no recursive operators.

### NodePool

`node/upsert.go`, and what runs it: `fetcher/handler.go`, the dead-source part
of `checker/handler.go`, `source/service.go`, `node/service.go`.

| Variable | Code |
| --- | --- |
| `status`, `ignoreDead` | `sources.status`, `sources.ignore_dead`; "none" before the row exists, "deleted" after |
| `hashOf` | `nodes.hash` by row id; `None` where there is no row |
| `mapping` | `node_sources` |
| `checks` | which ids have rows in the history or tag score tables |
| `pc`, `job` | the next statement of each handler goroutine, and its local variables |
| `leaked` | history: rows without mappings that no handler has left to delete |
| `spoiled` | history: dead sources that may keep mappings, and why they may |

One action is one SQL statement, because the code opens no transaction around
more than one statement except "find by hash, insert, map". That transaction is
one action with a single connection (`SingleConn`, the SQLite default and
`max_open_conns = 1`) and two under READ COMMITTED, where the SELECT does not
keep another transaction from inserting. Handlers are `Workers`; their number
bounds the concurrency, nothing else distinguishes them.

- A report (`FetchResult`) goes through `Guard` (dead sources are refused, a
  missing row is not), `LoadOld`, `UpsertSerial` or `TxFind`/`TxFinish` per
  node, then `Stale`/`StaleDrop` for the mappings that are no longer reported.
  An empty node list goes to the shared cleanup instead. A node without
  parseable content counts as not reported.
- The verdict (`Eval`) is nondeterministic: the code reads the source row first
  and then histories that change meanwhile, so either answer is possible for an
  active source without `ignore_dead`. `MarkDead` is the conditional UPDATE.
- The cleanup (`LoadMappings`, `UnmapAll`, `Count`, `Purge`, `Drop`) is
  `removeSourceMappings`; who called it is `job.ret`.
- `CheckResults` is the checker's goroutine as far as it touches the pool:
  history rows for any ids, a set of dead nodes, their sources one by one.
- Of the workers in `Faults` any statement may fail with the consequence the
  code gives it (`StatementFails`: most errors of deletes are dropped, a failed
  count reads as zero), and their handlers may end for good (`Abandon`: context
  timeout, crash). A property about a report holds for the workers that meet no
  failure themselves, next to others that fail anywhere.
- A row gets into `leaked` when the delete of a row without mappings fails or is
  not reached, when a report inserts a row and cannot map it, and when a cleanup
  removes a mapping it has not loaded; a new mapping or a delete takes it out. A
  source gets into `spoiled` when it dies while a report of it is past the
  guard, when a failed read lets a report of a dead one pass, and when its
  cleanup fails or stops before the mappings are gone. Anything else that leaves
  an orphan or a dead source with nodes violates a property.
- Row ids are drawn from `Fresh`, ids that nothing refers to. An id that nobody
  remembers is as good as a new UUID, so finitely many ids suffice; `Room` keeps
  a request out when fewer ids are left than it may need.

### AliveCache and ViewContract

`cache/cache.go`, `cache/rebuild.go`, the submissions that trigger them, and the
changes that trigger nothing.

| Variable | Code |
| --- | --- |
| `gone`, `alive` | deleted rows of `nodes`; rows with `nodes.alive` |
| `latest` | per tag, the reachable nodes of its latest run in `node_initial_checks` |
| `excluded` | per tag, the nodes that `node_distribute_filter` says true of |
| `score` | `node_tag_scores`, read by the queries like streaming results and regions |
| `phase`, `scoring` | how far the submission of each tag is; a scoring goroutine runs |
| `triggered`, `loop` | whether the channel of capacity one is full; where `rebuildLoop` and `Rebuild` are |
| `found`, `cache` | what the running rebuild has left to publish; the published sub-caches with their scores |
| `failed`, `unseen` | histories: the last rebuild lost a query; what was touched silently with no rebuild owed |

`View` is what one moment's tables give: per tag the alive nodes of its latest
run that the filter does not exclude. A submission is `RecordRun`, `MarkAlive`,
`MarkDead`, `TriggerRebuild`, one at a time per tag as the tag's mutex has it;
which nodes the two updates name is left open here and decided in
`CheckResults`. A rebuild is `ReadAlive`, `ReadRuns`, `ReadFilter` (queries A4
to A8, and phase B) and `Swap`; in each of them a query may fail, and what the
code then publishes is an empty or incomplete view, or one without the filter.
The debounce timer may fire at any time after it was set.

Four kinds of change trigger no rebuild: a scoring goroutine writes
(`WriteScore`), the filter or what it looks at changes (`Refilter`: `PUT
/api/v1/config`, but also the raw configuration or the sources of a node), the
cleanup or a purge takes rows of a latest run (`Prune`), and a node is deleted
(`DeleteNode`). A rebuild that is still owed sees them; otherwise the pairs they
touch are `unseen` until the next submission or restart.

`ViewContract` says what the distribution side may expect of any cached view:
if it is not dirty it shows the truth, except for the keys it is `behind` on
because their truth drifted unannounced (`Drift`); only a write or a restart
makes it dirty, and only they end its being behind. `AliveCache` implements it
with `truth` the `View`, `shown` the cache, `behind` the `unseen` pairs, and
`dirty` "a rebuild is owed, running, or failed".

### CheckResults

`checker/handler.go`: the goroutine of one POST, from the mutex to the last
update. `last` is the verdict of the latest initial check per node and tag,
`fresh` whether that check is still inside the window, `holder` the mutexes,
`phase` and `work` the goroutines. `Decide` is the query of `batchAliveDecision`
over all tags, as PostgreSQL answers it; on SQLite the query's DISTINCT ON is an
error and every decision is a `DecideFails`. `MarkAlive` and `MarkDead` are its
two updates. `Expire` is time passing. `unsettled` is a history variable: the
nodes whose last decision overlapped one of another tag, failed, or was cut off.

### Selector, Sampling and Distribution

`Selector` is `distribution/selector.go` with the candidates and limits of
`distribution/handler.go`. A request serves the regions in naming order
(`Serve`, with the quota of `collectCommon` or `computeQuotas`), then
`FillDeficit`, `FillOther`, `FillUN`. Sets stand for slices; `length` counts
what was appended, so that a duplicate would show. `AnyOf` is a random or
weighted sample (any subset of the size), `BestOf` a selection by score (any way
to break ties). `proportional` is `math.Round` in integers. `CommonMode` is
preset "common" with at least one common candidate; without one the code falls
back to "all". Requests share nothing but the cache, which each reads once, so
one at a time stands for all.

`Sampling` is `weightedSample` with its heap, over entries whose keys are drawn
in any order, ties included; the one place where the order of ties is fixed is
the sort of the full heap (`ByKey`), and no property tells them apart.
`Distribution` adds what surrounds the selection:
which candidates the unlock filter admits, the order and the numbers within a
region, the flags, grades and region names, and the name that the default
template makes of them, as a record. Of `flags.json` it is assumed, as the file
has it, that each code has an emoji and a name and that no emoji comes twice.
Output formats and headers are left out.

### Retention

`Retention` is `source/dead.go`, `source/dead_node.go` and `cleanup/cleanup.go`;
`ConfigUpdate` is `api/handler/config.go` as far as the windows go. The two
verdicts read different histories under different windows and share nothing, so
`kind` says which of them a behaviour is about.

| Variable | Code |
| --- | --- |
| `now`, `created` | the clock in ticks, `Day` of them to a day; `sources.created_at` |
| `rows` | `source_fetch_histories`, or `node_initial_checks` |
| `mapped` | `node_sources` of the source |
| `doomed` | nodes found or left without mappings, whose checks are deleted next |
| `cfg` | the pair of windows in `configs` |
| `job` | the goroutines of reports and submissions, with the local variables of a verdict |
| `cleaner` | the cleanup goroutine, with the windows and the cutoff it has read |

`Report` inserts records and starts a verdict; the verdict is its statements in
order (`ReadWindow`, `ReadMappings`, `ReadOldest`, `ReadLatest`, then `ReadRows`
for fetches, `Count` and `TakeReachable` for nodes); `Wake`, `ReadDead` and
`Prune` are a pass of the cleanup, which deletes in batches from the oldest row
on. A read of a window that fails yields the default (`ReadConfigInt`); any
other failure ends the verdict or the pass. Between the statements the pool
remaps nodes (`Remap`) and deletes the checks of nodes that it found without
mappings or that an administrator deletes (`Doom`, then `PurgeChecks`, whatever
was mapped meanwhile), a source is deleted with its fetch history
(`DeleteHistory`), and windows change (`Configure`). The clock overtakes a
goroutine or a pass of the cleanup by one tick at most, since their contexts end
after minutes. `seen` is a history variable: the successes a verdict must not
overlook; those that were deleted with their node or source are taken out.

In `ConfigUpdate` a request validates (`Update`) against the table it reads, and
does not compare a window it could not read; then it saves each key on its own
(`Save`), and may fail in the middle (`SaveFails`). Any number of requests
overlap. `lone` is a history variable: the request, if there is one, that could
read all it compared and overlapped no other. What requests do to the windows is
any `Retention.Configure`: one window gets any positive value, so `Retention`
relies on no order between the two.

### Scoring

`scoring/scoring.go`, started by a submission of `checker/handler.go`. A
submission leaves deep checks under the mutex of its tag (`Submit`), and a
goroutine scores its nodes one by one: `LoadParams` from the cache, or
`ReadParams` and `StoreParams`; `FetchRecords` with `computeScore`; `Upsert` of
the tag's score; `Average` over the tags; `UpdateNode`. `StatementFails` and
`ReadParamsFails` are the error paths, `Expire` is the cleanup, `Configure` the
config handler. `PurgeChecks` and `PurgeScores` are the deletes of the pool and
of the node API, which take a node's checks and then its scores, statement by
statement beside the scorings; the row itself may survive them when the guarded
delete finds a new mapping. Scores are integers up to `Scale`; the curves
(exponential and logarithmic in the code) are functions given as constants with
values in that range, the decay a fraction with its powers, a mean is kept as
sum and count. Floats that are no number (a configured NaN, or `latency_curve_k`
so small that its curve divides zero by zero) are not modelled. Settings may be
out of range, as the admin may type anything: `Alpha` and `Weight` bring them
back.

`nodeAlone`, `tagAlone`, `averaged` and `scored` are histories: which scoring
shared its node, or its node and tag, with no other while it ran, and whose
result therefore has to be right. A purge ends that claim for what it took.

### AdminApi

The handlers of `api/handler/` that list, search and preview, the services
behind them, `filter/filter.go` and creation of sources. Each list of the API is
a record (`FetchList`, `NodeList`, ... : its table, its orders, its filters, and
whether SQL or the process makes the page); a behaviour is about one of them. A
client walks from the first page to the last that the total promises: `Start`,
then `ResolveIds` where a filter is resolved to ids first, `Count`, `Find`,
`More`; or `Load`, `Eval`, `Store`, `Run`, `Page` for a search. Meanwhile rows
are inserted, moved by their sort key, change state and are deleted, wherever
they are, also between the count and the page. The table is a sequence of sets:
rows of equal key tie, and a query may return them in any order each time. The
logs tie as well, since all rows of one submission bear one time (`Batches`).

A statement that fails is an error to the client and ends the walk
(`QueryFails`), with two exceptions: `streamingNodeIDs` (`ResolveIds`) and the
count of `SourceGetNodes` (`Count`) drop theirs, and the page answers as if they
had found nothing; the walk is then `misled`. `Toggle` is the verdict of the
checker on a row that the list's filter asks about. The number of rows is
bounded per table (`MaxRows`).

`Lookup`, `Create` and `Update` are `source.Service`; `Lookup` takes any error
for "not found", as the code does. `programs` is the cache of the filter engine;
its key is the expression alone, and other requests with that expression compile
and store at any time (`CompileElsewhere`, `StoreElsewhere`). It takes part in
the searches, but no property is about it: as long as no field of one type is a
field of the other (`FieldsAssumption`, true of `filter/env.go`), an expression
that tests a field has one program only. `due`, `calm`, `twice`, `grown` and
`misled` are histories of the walk, `excused` and `unsure` of the creations.

## 4. The runs

| Run | Instance | Question and answer |
| --- | --- | --- |
| `NodePoolCrash` | 2 sources, 1 hash, 2 ids, 2 handlers, one connection, one handler failing and crashing anywhere | Do mappings have rows, do other sources keep their nodes, is every node the unharmed handler reports mapped and spared, are orphans and nodes of dead sources at rest only those that a named cause left? Yes. |
| `NodePoolPostgres` | 1 source, 1 hash, 2 ids, 2 handlers, two-step transactions, node deletes, fair | One cleanup per condemned source, no orphan at rest without a named cause, every handler ends. Yes. |
| `NodePoolLostMapping` | 2 sources, 1 hash, 2 ids, 2 handlers, two-step transactions | Is every reported node mapped? No: the loser of the insert race is skipped. |
| `AliveCacheRebuild` | 1 node, 2 tags, one with a score, failures, restarts, all silent changes, fair | No trigger lost, at rest the cache shows what the tables and the filter say but for silent changes, contract implemented, eventually fresh. Yes. |
| `CheckResultsPair` | 1 node, 2 tags, 2 submissions, failures, restarts, fair | Alive flag agrees for settled nodes, submissions end. Yes. |
| `CheckResultsRace` | the same without failures | Is a reachable node alive once decided? No: an older decision of another tag is written last. |
| `SelectorPresets` | 10 candidates in 5 regions and none, every subset, limits 0 to 10, 3 presets; 2 services; pools of up to 6 for the weighted sample | No node twice; "common" exact, in order, even; everything when few; rounding bounded; names differ and tell; samples keep the largest keys. Yes. |
| `SelectorTooMany` | the same | Never more than the limit? No: rounded quotas of "all" may exceed it. |
| `RetentionVerdicts` | 1 node, 1 verdict, windows of 1 and 2 days, defaults of 1 and 2, a day of 2 ticks, 8 ticks, 2 records at a time | Does a success protect, does the cleanup condemn nobody and keep verdicts within its buffer? Yes. |
| `ConfigRequests` | 3 requests, values 0 to 3 | Is no window ever zero, does a request that overlaps no other leave them in order? Yes. |
| `ScoringOverlap` | 1 node, 2 tags, 2 submissions, 2 settings, 2 checks at a time, 2 of them counting, purges, time to live 1 tick | Are scores of nodes and tags right unless scorings overlapped, do settings reach the scorings? Yes. |
| `AdminWalks` | 12 lists, 4 ids, up to 3 rows (2 sources), limits asked 0 and 9, given 1 and 2, 2 creating admins, failing statements | Is a row that stays missed or shown twice, do pages hold what they announce, are duplicates excused? As they should. |

A run whose answer is no is a disagreement between the code and a sentence of
its documentation or comments, quoted in `PROJECT.json`.

Why the bounds are enough to meet the interesting cases.

- *Pool.* Every race is between two handlers over one node, so two workers and
  one hash show it, the second id being the row another handler re-inserts; two
  sources are what shared nodes need. Two nodes of one report need two hashes
  and are not met in the runs; the theorems are about any number of them.
- *Cache.* The views of nodes are independent of each other, so one node will
  do; two tags are needed for a submission that ends during the rebuild another
  one triggered. A score that is there or not tells an old one from a new one.
  The alive decision treats nodes one by one as well, and its race needs two
  tags.
- *Selector.* The quotas come out uneven, negative and too large with regions of
  2, 2, 2 and 1; the instance has every subset of a set that contains this. Two
  regions with one full name are there for the names. A heap of three levels,
  with a root replaced more than once, needs pools of six.
- *Retention.* Path A needs a record before the window and one in it: two
  records, windows of one day, and time for the first to leave the window, which
  two ticks per day give. At eight ticks the cutoff of a window of two days and
  its buffer has passed the first day, and that of one day the second. Two sizes
  of window, and defaults that differ from them, let a request or a failed read
  swap, raise and lower them.
  A verdict writes nothing that another one reads, so one at a time is enough;
  the theorems have any number.
- *Config requests.* Two overlap and leave the windows out of order, the third
  comes after them; three values and zero give every order of two windows.
- *Scoring.* Two submissions overlap under one tag or two; two checks under a
  window of two tell newest first from oldest first, and the mutated order is
  found out. With one tick of time to live and one tick of the clock a cached
  setting is used, expires, and is written late.
- *Admin API.* Walks of three rows with one or two to a page have a first, a
  middle and a last page; the fourth id is the row that comes in while one is
  remembered as seen. A batch of three ties across a page boundary. Two sources
  are what a duplicate takes.

Beyond the bounds stand the theorems of section 5.

Symmetry is used in the runs without liveness properties only, over sets whose
members nothing distinguishes (the `MC` modules say which). Deadlock is
checked in every run.

Fairness. `NodePool.FairSpec`: weak fairness of each handler's next statement;
the Go scheduler runs every goroutine and the database ends every statement. No
request and no failure is fair. `AliveCache.FairSpec`: weak fairness of the
steps of a started submission and of the loop, which either takes a trigger or
lets the timer fire; a steady stream of triggers may postpone a rebuild for ever
in the code, and `EventuallyFresh` asks for nothing until submissions stop.
`CheckResults.FairSpec`: weak fairness of a running goroutine, and strong
fairness of taking the mutex, which Go's starvation mode provides: a waiter of
more than a millisecond is handed the mutex next.

## 5. The theorems

For all values of the constants, from the assumptions named in the modules and
nothing else: `None` is no id and flags are booleans; the nodes of `Selector`,
the tags of `Scoring` and the unlock services are finite sets, nodes and tags of
any number; the naming order is strict and `flags.json` unambiguous; check
results, decays and weights are integers, or integers over integers, of any
size, and the curves of a score stay in range.

The library's induction theorems take an operator and cannot be used here, so
`ScoringProofs` and `DistributionProofs` derive induction over numbers for sets
(`Induct`) from the fact that a set of numbers has a least element, and what a
recursive function computes is proved with it.

- `NodePoolProofs`. `TypeCorrect` rests on `TypeInv`, which adds to `TypeOK`
  that a handler at a statement has the source or row that statement needs.
  `NodesAreUnique`: only `InsertRow` gives a row a hash, and only if no row has
  it. `OneCleanerAtATime`: only the UPDATE that turned "active" into "dead"
  starts a condemning cleanup, and no status returns to "active".
  `MappedNodesExist`, for single-connection pools without administrative node
  deletes: a mapping is inserted in the transaction that saw or inserted the
  row, and rows go only while nothing maps them; `SerialPC` says that no
  two-step transaction is open. `SourcesAreIsolated`: by cases over the actions,
  on top of that. `ReportedNodesStay`, without failures: a report's hashes not
  yet stored are the ones missing from `kept`, stated over rows that other
  handlers may delete in between. `ReportsAreStored`, for the single connection:
  the transaction that looks for the hash is the one that stores it, so no
  insert can lose a race; this is what the run `NodePoolLostMapping` refutes
  without that hypothesis. `OnlyLeakedOrphans`, for any number of handlers,
  failures and connections, from `Tended`: a row without a mapping is in
  `leaked` or one that some handler has still to look at (`Loose`), since a
  handler that takes a row's last mapping has the row in hand.
  `OnlySpoiledSourcesFill`, as general, from `DeadClosed`: a dead source that is
  not in `spoiled` has no report past its guard, and it maps nothing or the
  cleanup of its mappings is under way.
- `AliveCacheProofs`. The invariant `CacheInv` is `TypeOK`, `OwedSeesAll`
  (nothing is unseen while a rebuild is owed), `FoundCurrent` and `FreshAtRest`.
  `FoundCurrent`: while no further rebuild is owed, what the running one has
  found is, off the `unseen` pairs, what the tables hold, so its swap publishes
  the truth of them. Only a submission changes what is read without putting it
  among the unseen, and a submission owes a rebuild until it has triggered one.
  `CacheIsFreshAtRest` is its last part, `CacheImplementsContract` the step
  simulation from it.
- `CheckResultsProofs`. `TagsAreSerialised` from "who is between lock and
  release holds the tag's mutex". `AliveFlagAgrees` from `AliveInv`: at most one
  uncontested decision is pending per settled node; before its updates its lists
  agree with the latest checks and belong to its own nodes, after them the flag
  agrees.
- `SelectorProofs`. `NoNodeTwice`: what is taken lies in regions already served,
  what is kept for the deficit is disjoint from it, and the later pools are
  disjoint from both. `CommonIsExact`: while regions are served, taken plus
  missing is the sum of the quotas, and the quotas leave the last region a
  remainder that is not negative; so the deficit is covered by the nodes left
  over, and each fill reaches the limit or uses up its pool. `CommonComesFirst`
  from the same. `CommonSharesEvenly`: no quota is below the share.
  Its last section is about presets "all" and "other". `RoundingIsBounded` from
  `QuotaInv`: while regions are served, what was given is within half a node per
  served region of their share (`Near`, stated without division), and nothing is
  kept back or missing; the last region takes what is left of the target, as far
  as it can, and inherits the error of the others. `FewAreAllTaken` from the
  same invariant, as the rounding is exact when the target is everything there
  is, and for "common" from the invariant of `CommonIsExact`.
- `DistributionProofs`. `NamesAreDistinct`: flag and full name together tell a
  region from every other, whether `flags.json` knows it or not (`RegionsTold`),
  and the place tells two nodes of one region apart; the marks of a name are the
  services the request asked for that the node unlocks. `SamplesKeepLargest`,
  for pools and samples of every size and every draw of keys: `HeapBut` is the
  heap order with one item excused; a turn of `siftDownHeap` moves the excuse
  one level down (`TurnKeeps`), so after as many turns as there are items it is
  gone (`SiftDown`); the sort makes a heap (`SortedHeap`), its root is the least
  (`RootLeast`), and the loop keeps that nothing left out has a larger key
  than what is held (`Kept`).
- `RetentionProofs`, for any nodes, goroutines, windows and length of the day.
  `CleanupIsSafe` and `BufferIsEnough` from `CutoffInv`: when the cleanup
  prunes, its cutoff lies a whole day before the dead window it has read,
  counted from the start of its pass, and the clock is at most a tick further.
  Fewer rows before the window can only take the coverage away, never make a
  source dead (`FewerRowsCondemnNobody`). The windows in these two are the ones
  the cleanup read, so they hold however the configuration changes meanwhile.
  `SuccessSaves` from `JobsOK`: from its first read on, the successes in `seen`
  are still in the table and after the start of the window, and refute each path
  when it is looked at; mappings, windows, the cleanup and the deletes of others
  may change at any statement, and only the last two take rows, which `seen`
  then gives up if they were deleted with their node or source, or under a
  shorter window than the verdict's. `RequestsConfigure`, for any number of
  overlapping requests, from `RequestsInv`: what is left to save is positive, so
  each save is a step that `Retention` allows for, and no order of the windows
  is needed there. `LoneRequestsOrder` from `LoneInv`: while a request overlaps
  no other, what it has still to save leads to windows in order, whatever
  earlier ones have left, as it was compared with the table they left.
  `TypeCorrect` on top of `Configured`, `ClockInv` and `CutoffInv`, which bound
  what the goroutines and the cleanup have read.
- `ScoringProofs`, for any settings, curves and results. `NodeScores` from
  `NodeInv`: nodes whose score is vouched for are not being scored, and a
  scoring that has its node to itself holds the mean it is about to write.
  `TagScores` from `TagInv`, the same for node and tag, with the score right
  before and after the upsert. A purge of checks unsettles the tags of its node,
  one of scores the mean as well, and a scoring of that node is no longer
  vouched for. `ParametersFollow` from `ParamInv`: the cache expires at most a
  time to live after the clock was read, and if it expires later than one after
  the last change it holds the setting. `TypeCorrect`, whose substance is
  `ScoreRange`: whatever is configured and reported, a score lies between 0 and
  `Scale`. The decay is a fraction in (0, 1] after `Alpha`, so its powers and
  their sum are positive and no mean divides by zero; the weights lie between 0
  and 100 percent after `Weight`, so what is blended stays between what goes in;
  sums over finite sets are taken apart by induction over their size.
- `AdminApiProofs`. `DuplicatesNeedACause` from `DupInv`: a request that has
  looked in vain, whose look-up did not fail and that was not overtaken, still
  finds no such row. `WalksMissNothing`, `WalksRepeatNothing` and
  `PagesAsAnnounced` from `WalkInv`, for tables, pages and walks of any size.
  `Certain`: a row that is to be shown (`due`), or to be shown once at most
  (`calm`), is in the list with no other in its place. `StillAhead`: a due row
  that was not seen yet has at least the rows of all passed pages before it, so
  a page cannot have passed it by. `LeftBehind`: a calm row that was seen has
  fewer than those before it, so no later page shows it. `Counted`: unless a row
  came in between, the list is no longer than the total that was announced. Rows
  coming, moving and going change how many lie before another, and `due` and
  `calm` give up exactly the rows that a change has moved up or down, or that
  came to tie; a failed statement leaves the table alone. `TypeCorrect` adds the
  creations and the program cache.

Only model-checked are the liveness properties `HandlersFinish`,
`EventuallyFresh` and `SubmissionsEnd`: they rest on fairness, and ENABLED is
out of the proof system's reach. Every safety property of a passing run is a
theorem or, for the types of `ConfigUpdate`, a lemma (`RequestsTyped`).

## 6. Other disagreements met while modelling

These follow from the models or from reading, and have no run of their own:

- Under several connections an upsert may map a row that the stale pass or the
  cleanup of another source deletes between its two steps (`upsert.go:157`); the
  mapping then points at no row.
- A cleanup deletes all mappings of its source but looks only at the rows it has
  loaded before (`upsert.go:177`): a row that an overlapping report has mapped
  in between stays without a mapping, against `docs/node-pool.md:12`.
  `NoOrphansAtRest` names such rows in `leaked`.
- A source deleted after a fetcher got its id passes the guard, which only
  refuses a row that says "dead" (`upsert.go:53`), and its nodes are mapped to
  an id without a source.
- The transaction of a node that fails for a passing reason leaves the node out
  of `newNodeIDs`, and the stale pass of the same report then removes it
  (`upsert.go:141`).
- The stale pass deletes a node row but not its history (`upsert.go:154`),
  unlike the other deletes; `docs/node-pool.md:29` promises both.
- A mapping committed between the orphan count and the history deletes does not
  stop them (`upsert.go:188`): the node stays and its history is gone, although
  `upsert.go:181` speaks of a node that has become truly orphaned. No property
  claims otherwise, and `SuccessProtects` does not count the rows that a verdict
  loses this way.
- A failed orphan count reads as zero and the history of a shared node is purged
  (`upsert.go:183`).
- The UPDATE of `MarkDeadAndClean` does not test `ignore_dead` again
  (`service.go:183`): the flag set between verdict and UPDATE does not protect.
- A rebuild whose latest-runs query fails publishes an empty cache
  (`rebuild.go:58`), although one whose first query fails keeps the old one.
- A new `node_distribute_filter`, the pruning of a latest run by the cleanup and
  the delete of a node trigger no rebuild (`config.go:98-105`,
  `cleanup.go:66-82`, `node/service.go:139`): the cache shows the old state
  until the next submission.
- On SQLite the alive decision's DISTINCT ON fails, and no node changes its flag
  (`checker/handler.go:327`).
- The proportional deficit is never made up (`selector.go:217`): `remaining` is
  filled only from regions that ran out, so it is always empty. Regions of 4, 4,
  4 and 1 with a limit of 8 give 7 nodes, and UN nodes take the open place
  although others are left, against `docs/distribution.md:77`.
- A report that passed its guard before the source was condemned maps its nodes
  after the cleanup is through (`upsert.go:53`), against `upsert.go:35-37`;
  `DeadSourcesStayEmpty` names such sources in `spoiled`.
- The scoring goroutine triggers no rebuild, and may end after the one its
  submission triggered (`checker/handler.go:168` and `:183`): cached scores can
  stay old until the next submission, against `docs/distribution.md:15`.
- Overlapping scorings of one node under two tags may leave `nodes.score` at a
  mean that lacks the newer tag score (`scoring.go:109`), against
  `docs/scoring.md:9`; the next scoring repairs it.
- A report without a speed is stored with speed 0 and then counts as a measured
  speed of 0 (`checker/handler.go:238`, `scoring.go:181-185`), against
  `docs/scoring.md:62`.
- A read of the parameters that fails caches the defaults for the time to live
  (`scoring.go:210-228`).
- A score setting of "NaN" parses as a number and passes the range checks, which
  compare with `<` and `>` (`scoring.go:120`, `:190`); the model has no such
  value.
- A scoring that ends after the delete of its node inserts a tag score for a
  node that is gone.
- Where no record lies in the buffer day, a deletion of the cleanup takes the
  coverage from a verdict and a dead source is found alive (`cleanup.go:58-60`
  promises complete history). `BufferedVerdictKept` says what is left.
- Two config requests at once, or the second key of one that fails to be saved,
  leave a history window shorter than the dead window (`config.go:16-18`), and
  so does one whose read of the other window fails, as it is then not compared
  (`config.go:43`). The cleanup takes the longer of the two and is not misled.
- A read of a window that fails is replaced by the default (`dead.go:108-112`,
  `cleanup.go:144-149`): with configured windows longer than the defaults, a
  pass of the cleanup that can read neither deletes history that the verdict's
  window still reaches.
- The insert of a fetch record that fails is only logged
  (`fetcher/handler.go:88`), and the verdict that follows may condemn the source
  by the age of its last record although it was just fetched.
- A source whose mapping was replaced by nodes that were never checked, or a new
  source that shares a node dead for long, is condemned at once by the node
  verdict: it looks at the records of the nodes, not at those of the source's
  time with them (`dead_node.go:65-163`).
- The key of the program cache is the expression alone (`filter.go:35`),
  although `filter.go:14` has it contain the type. An expression cached by a
  search of sources answers a search of nodes from whatever field has the same
  index instead of failing to compile (`AdminApi.Run`).
- Uniqueness of sources by type and content (`docs/source-management.md:13`) is
  left to a lookup before the insert; two requests at once, an update, or a
  lookup that fails for any other reason make duplicates
  (`source/service.go:25-51`, `:29`, `:121`).
- The query for nodes with a streaming service drops its error
  (`node/service.go:233-236`) and the list answers an empty page as if there
  were none; the count of a source's nodes drops its error
  (`api/handler/search.go:192`) and a full page comes with the total 0;
  `NothingMissed` and `PageAsAnnounced` leave out the walks that this misled.
- Searches have no order, and lists by score, region, node count, priority or
  time of check have no final key that would tell rows of equal key apart; all
  checks of a submission share their time (`checker/handler.go:127`,
  `api/handler/logs.go:65`). Rows that tie may be missed or shown twice although
  nothing changed. A row inserted between count and page may push the last one
  off the last page announced (`node/service.go:92-115`).
- `LatestFetchNodeCounts` takes the latest record by id, the order of the list
  by `fetched_at`; the four counts of the statistics are not of one moment.

## 7. Not modelled

- Authentication (`auth/`, `api/middleware/`): comparisons of credentials and
  tokens, without state.
- The generated server (`api/generated/server.gen.go`), nearly a quarter of all
  lines: types and routing.
- Configuration file, migration and the seeding of `configs` (`config/`,
  `migrate/`, `db/db.go`): start-up I/O, before anything runs concurrently.
- Of the admin API the reads of single rows, the statistics, the format
  configurations, and the conversions to response types: one statement each, or
  none.
- Output formats of the distribution, templates other than the default one, and
  the choice of the sponsor whose text is inserted (`sponsor.Match` evaluates
  filters in order of priority; the order is a list of `AdminApi`).
- `nodeHash` and `nodeAuth`, which decide when two nodes are the same: models of
  the pool take nodes as equal or not. Region updates of a submission, which the
  cache treats like a score.
- The values of the score curves: their functions are constants, so that what
  the theorems say holds for any.
