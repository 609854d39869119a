# Sentient-Cache in TLA+

A formal model of the edge memory cache of this repository: what its
components keep, how they interleave, what TLC checks of them on small
instances, and what TLAPS proves for every size.

Paths below are those of the repository (`src/...` is the backend,
`web/...` the console, `tests/...` the tests).

## 1. Inventory

| Component | State | Operations | Hard behaviour |
|---|---|---|---|
| **SemanticCache** `src/cache/SemanticCache.ts`, `eviction.ts` | SQLite table `memories`; `totalBytes`, `currentGoal`, `closed`; two timers | `set` `get` `search` `delete` `list` `compact` `setGoal` `close`, tier-1 prune, tier-2 compression, dirty poll, `readDirtyMemories`, `markSynced`, `refreshAhead` | byte counter kept by hand next to the table; prefetches that land between calls; `close()` in two halves; crash and restart; limits on every scan |
| **Write-behind** `src/sync/WriteBehindQueue.ts`, `SyncWorker.ts` | BullMQ jobs in Redis, four handler slots | enqueue, handle, retry, redeliver | handlers await the transaction between reading and marking rows; duplicated jobs |
| **RemoteStore** `src/sync/RemoteStore.ts` | central `memories` table | `fetchTopK`, `writeBatch` | all-or-nothing batches, failure after COMMIT |
| **Ingestor** `src/ingestor/app.ts`, `refreshAhead.ts` | none of its own; a hook record per request | middleware chain and three routes | requests interleave at every await; prefetches nobody awaits |
| **SessionRegistry** `src/controller/SessionRegistry.ts` | task per session | `setTask` | read and written by hook and route of the same request |
| **ResourceSentinel** `src/security/ResourceSentinel.ts` | `pendingBytes`, `consecutiveRejections` | `admit`, `release` | release on every path |
| **OPA policy** `src/security/Opa*.ts`, `opaMiddleware.ts` | none | `allow` with a timeout | external, may never answer |
| **SemanticController** `src/controller/SemanticController.ts` | policy timer, `compacting` | `ingest`, `search`, `prefetchForTask`, `compact` | second eviction policy over the same cache: a share of the count, from a pool of the oldest rows |
| **HashEmbedder** `src/embeddings/HashEmbedder.ts` | none | `embed` | a loop bounded by what it appends to |
| **Wiring** `src/ingestor/server.ts`, `src/worker.ts` | two processes on one SQLite file, each with a cache object, a counter and a budget | start, shutdown, the timers of both | two counters for one table; each loop of DELETEs is interleaved with the other process |
| **HUD console** `web/components/HudConsole.tsx`, `SearchBar.tsx`, `SyncStatusPanel.tsx`, `MemoryGalaxy.tsx`, `web/lib/useKeyboardShortcuts.ts` | memories, jobs, write in flight, query, debounce timer, highlights, hover, drag, selection | submit, settle, drop a job, refetch, type, debounced search, pointer events, keys | timers, promises and passive effects over copies of one list |
| **HUD rendering** the rest of `web/` | buffers, frames | drawing | - |
| Encryptor, PathGuard, mTLS, TransformersEmbedder | none | pure functions or start-up I/O | - |

How they interact: the ingestor calls the controller, which embeds and calls
the cache synchronously; the cache's poll timer puts dirty ids on the queue;
the worker's handlers read rows from the cache's file, write the central table
and mark the rows; a task change makes the controller set the cache's goal,
which fetches central rows and inserts those that are absent.

What makes each part correct, in one line each:

- cache: the counter is the table's size; a call ends above the budget only where
  the limit on a prune stops it, also on a file that a crash has left above it;
  eviction order; tier 2 recovers; clients see a table of memories that only
  forgets;
- write-behind: synced means stored (and current); the central table goes back
  only where handlers or prefetches overtake each other; dirty rows are flushed;
- ingestor: pending bytes are what is in flight; no effect without
  authorization; the goal follows the last task change; requests drain;
- two processes: no counter falls below the file, and none drifts without
  cause; the policy spares unique memories and comes to its threshold;
- console: jobs and memories agree; what is highlighted answers what is typed;
  a tooltip can always be taken down; search catches up;
- embedder: every text has an embedding.

## 2. Modules

| Module | Models |
|---|---|
| `ByteSum` | the sum of sizes, as the cardinality of a set of byte cells |
| `Eviction` | the SQL orders, the utility ranking, the victims of both tiers, the rows `search` sees: operators only |
| `SemanticCache` | one cache object on its file: one action per public method and timer |
| `MemoryTable` | the abstract promise of the table: write, prefetch if absent, acknowledge, forget |
| `WriteBehind` | cache, queue, handlers and central table with versions for contents |
| `SemanticController` | one pass of the policy: candidates, density, ranking, victims: operators only |
| `EdgeNode` | server and worker on one file: writes, both tiers, the policy, one DELETE per step, starts and stops |
| `HudConsole` | the state of the console and the events, timers and effects that change it |
| `Ingestor` | sentinel, policy, hook, routes and prefetches for interleaved requests |
| `HashEmbedder` | the tokenizer loop, by lengths of tokens |
| `MC*` | constants for TLC, symmetry, one check of `ByteSum` against a fold |
| `*Proofs` | theorems and lemmas |

Both `SemanticCache` and `WriteBehind` implement `MemoryTable`
(`ImplementsTable` in each, with `mem` as the refinement mapping): the first
adds sizes, clocks and eviction, the second adds the queue and the central
store. What `WriteBehind` may forget in a step is therefore what `SemanticCache`
may evict, without repeating how it chooses.

### SemanticCache

`table` is the SQLite table, `totalBytes` and `goal` the fields of that name,
`fetches` the number of `refreshAhead` calls that wait, `phase` the life of
the object: *open*, *closing* (`closed` set, queue closing, file still open),
*closed*, *down*. Every public method of the class runs to its end without an
await, so it is one action, its trailing prune included; `refreshAhead` is two
(`SetGoal` and `RefreshAhead`), `close()` is two (`Close`, `CloseDb`).

No call sees another one half done, but the next process may: each statement
commits on its own. `CrashInSet` is the end of the process between the insert
(`SemanticCache.ts:201`) and the prune (213), or in the loop of the prune;
`CrashInLanding` its end in `refreshAhead` (366-382), before the last inserted
row is marked or in the prune; `CrashInCompress` its end in the loop of tier 2.
`BegunTier1` and `BegunTier2` are the rows deleted by then. What is left may be
above `maxBytes`, and `Reopen` sums it without pruning, as the constructor does
(162-163): a budget that no state exceeds is therefore no promise of this code.
`OvershootSpendsBatch` says what the calls do promise.

`at` is `last_accessed_at` in seconds, the floor under the age in
`utilityScore`. SQL and `Array.sort` order equal keys as they like or as the
scan left them, so orders are sets of pairs and `FirstRows`, `Drained` return
every outcome a linear extension gives. `Drained` is the loop of both tiers:
delete in order until the total has come down to `Target`.

`Similarity` stands for `(cosine + 1) / 2` in hundredths; embeddings, contents
and sizes are one value, `Contents`, with `SizeOf` its size. `partition`,
`importance` and `created_at` are read by none of these operations.

### WriteBehind

Every write gets the next number as its content, so *current* and *older* are
comparisons. `older` holds the pairs of rows of which the first was accessed
before the second, the order that `sDirtyIds` reads; `Oldest` is its LIMIT. A handler is
`Begin` (take a job, read its rows), `Commit` or `WriteFails` (the transaction),
`Mark` (`markSynced`): the two awaits are the gaps. `WriteFails` includes a
COMMIT that reached the server although the client saw an error. `WorkerCrash`
returns the job to the queue, as BullMQ does with stalled jobs; `Requeued`
gives a job up after `MaxAttempts`. A prefetch is `StartFetch` (the central rows
are read) and `FinishFetch` (those whose id is absent are inserted).
`CrashLanding` is the process dying in the middle of that loop: each row takes
two statements, the first of which inserts it dirty, so the last row may be
left to be written back. `stale` is a history variable: the versions that a
fetch has inserted when newer ones had been, or were being, stored. `crossed[w]`
is another: the rows that handler `w` has read and another handler has stored
since (for a handler past its commit: since it stored them itself). `Poison` ids
are rows the central table rejects each time. Backoff is asynchrony: a requeued job may wait.

### SemanticController and EdgeNode

`SemanticController` translates one pass of `compact()`: `Pools` is
`list(poolSize)` (the oldest rows), `Density` the number of near-duplicates in
the pool, `PolicyOrder` the ranking by Recency * Importance / (1 + Density),
compared crosswise to stay within integers, `PolicyVictims` the first
`TargetEvict` of them. It shares `FirstRows` and the table of `Eviction`.

`EdgeNode` composes it with both tiers, twice: the worker's cache is an
instance of `Eviction` with another budget. `table` is the file, `counter[p]`
the `totalBytes` of a process, and `plan[p]` the rows its current loop has still
to delete, with the sizes of its scan. Within a process everything is
synchronous, so a process with a plan does nothing else; between two DELETEs the
other process may do anything. `Freed` holds the difference that matters:
the loops of the tiers subtract the scanned size, whatever the DELETE found;
`delete()`, which the policy uses, looks first and subtracts what is there.
The rows of a plan go in any order. `Stop` is SIGTERM or a crash in the middle
of a loop, `Start` the constructor that sums `size_bytes`. `meddled` is a
history variable: the worker has deleted a row since the server's start.
Central store and queue are left to `WriteBehind`: no mark changes a size.

Once the worker has deleted rows, nothing lowers the server's counter before a
restart. `NeverUndercounts` says this errs on the safe side for the budget; it
also means that the server's tiers and policy go on evicting from a file that
is below its limits.

### HudConsole

`memories`, `jobs`, `highlighted`, `goal`, `selected` and `helpOpen` are the
states of `HudConsole.tsx` (`highlighted` and `goal` are set together by
`handleSearchResults`), `flight` is `inFlightIdRef` of the panel, `panel` what
its query last saw, `query` and `timer` the search bar, `drawn` the ids in the
geometry of the galaxy, `lastHovered` and `drag` its pointer refs. React renders
a new list at once and runs the passive effects later: `due` says that they are
outstanding, `Effects` runs them (a new geometry, a restarted debounce). A
click or a key flushes them in React; `Type`, whose own effect follows, shows
that case. `drops` are the timers that remove finished jobs. `selected` is the
memory as it was when clicked. A picked star is found in `drawn` and read in
`memories`, as `pickAt` does.

### Ingestor

A request is in stage *policy*, *hook*, *route* or *embed*; `Middleware` is the
order in which `createIngestorApp` installs them, and each stage is an action
because an await (body, policy call, embedder) lies between them. `SetTask` is
`SessionRegistry.setTask` with the start of a prefetch. `prefetches` holds the
tasks whose embedding is awaited; `Land` sets the goal. `changed` is a history
variable: the session whose task changed last. A denied request, a request
without agent id and a policy timeout end in the same way (`Deny`).
The sentinel and the policy are optional in the code; the model has both, and
a policy that allows all requests with a limit nobody reaches stands for their
absence. `InOrder` says that the embedder settles its calls in order, true of
`HashEmbedder`; `TaskNamesSession` that task calls may name a session in their
query or body as well.

### HashEmbedder

Tokens are represented by their lengths, `Push` is one iteration, and a string
above `MaxString` throws, as a JavaScript engine does past its own limit (the
lengths grow exponentially, so a small bound shows the same).

## 3. Runs

| Run | Checks | Bounds and why |
|---|---|---|
| `cache_safety` | `TypeOK`, `ByteAccounting`, `OvershootSpendsBatch`, `DominatedGoFirst`, `ImplementsTable` | 3 ids, sizes 3 and 11, budget 10 (target 8), 3 instants, TTL 1, prune batch and scan of 2 rows: a set may expire, prune or both, each statement sees part of a full table, and two crashes in a row leave a file that one prune cannot bring within the budget. Symmetric ids. |
| `cache_recovery` | `BudgetRecovered`, `PassesRecede` | as above with a prune batch of 1, so that one prune cannot make room for the large row, 2 instants; tier 2 scans 2 of 3 rows and must recover. |
| `cache_search` (violation) | `SearchSeesClosest` | `SearchRows` 2 of 3 rows |
| `writebehind_pass` | `TypeOK`, `SyncedIsStored`, `ImplementsTable`, `LossNeedsOverlap`, `RegressNeedsOvertaking`, `DirtyIsFlushed` | 2 ids, 2 handlers, batch of 1 (so the second row waits), 1 waiting job beside the running ones, 2 writes, 1 failure, 1 crash, fetch of 1 row: enough for two handlers at one row, for a fetch to be overtaken by a commit and for a redelivered job to send its row back. Larger batches are in the two runs below and, for the four safety properties, in the theorems. |
| `writebehind_reorder` (violation) | `AcknowledgedStays` | 2 handlers, 2 waiting jobs, batch of 2, 2 writes, no failure, crash or fetch |
| `writebehind_lost_update` (violation) | `SyncedIsCurrent` | 1 handler, 2 writes, no failure, no crash |
| `writebehind_starvation` (violation) | `DirtyIsFlushed` | one poison id, batch of 2, fair handlers and timer |
| `ingestor_pass` | `TypeOK`, `PendingIsInFlight`, `EffectsAreAuthorized`, `GoalFollowsTask`, `DrainsToIdle` | 2 requests of any of 48 kinds, 2 sessions, 2 tasks, sizes 1 and 2 against a limit of 3, 1 rejected embedding |
| `ingestor_goal` (violation) | `GoalFollowsTask` | as above, with task calls that name a session |
| `node_shared` | `TypeOK`, `NeverUndercounts`, `DriftNeedsWorker`, `UniqueOutlivesStale`, `PolicyRecovers` | 3 ids, sizes 3 and 5; the server may hold 12 (target 10) and compacts from 8, two thirds as in `server.ts`; the budget of the worker is 6 (its target 5); 3 instants, 4 writes, 1 stop: each of the three evictions happens with several rows, during one of the other process, and with a crash inside it |
| `hud_console` | `TypeOK`, `JobsAgree`, `HighlightsAreCurrent`, `HoverAgrees`, `QueryIsSearched` | 1 seed, 2 new memories, a list of 2 (so the oldest falls out, with its job still there), 1 query that ranks them apart, 1 highlight |
| `embedder_bigrams` (violation) | `EmbedResolves` | texts of up to 3 words, strings of up to 500 |

Deadlock is checked in the passing cache runs, `node_shared` and
`hud_console`. The other models end: their
clients have made their last write or request, or the tokenizer has returned.

### Fairness

- `Tier2Tick`: `setInterval` fires until `close()` clears it
  (`SemanticCache.ts:324-334`). Nothing else of the cache is fair: no client
  has to call, no fetch has to land.
- `Poll`, `Restart` and the steps of handlers: the poll timer, an operator or
  supervisor that restarts a process, BullMQ's worker loop. A handler's step
  includes `WriteFails`: fairness does not say that the transaction succeeds,
  only that it ends. Failures without cause are bounded, poisoned rows are not.
- `PolicyTick` and `ServerRemoves`: `setInterval` of `startPolicyLoop`
  (`SemanticController.ts:159-169`), and a loop of synchronous statements that
  nothing but the end of its process interrupts. The worker need do nothing.
- `Effects`, `Debounced`: React's passive effects and the timer of the search
  bar. Each new list restarts that timer (`SearchBar.tsx:27-46`); lists change at
  the pace of a person and of single writes, the timer takes 150 ms, so it fires.
  No user has to act and no write has to settle. `Refetch` is not fair: TanStack
  Query pauses while the browser is offline or the page hidden.
- `Step` of a request, not `Allow`: the policy service need not answer, and the
  timer of `HttpOpaEvaluator` then denies; bodies arrive or their connection
  times out; the embedder settles its promises.

### What the violations show

- **`cache_search`**: `search()` reads `ORDER BY last_accessed_at ASC LIMIT
  4096`, the *oldest* rows. README.md:115 describes cosine over the in-memory
  embeddings. Above 4096 rows, the hot end of the table is not searched.
- **`writebehind_lost_update`**: set, poll, read, *set again*, commit, mark. The
  row counts as synced with a content the central store never gets.
  `LossNeedsOverlap` shows that this overlap, and that of two handlers at the
  row, are the only ways.
- **`writebehind_reorder`**: set, poll, poll, a handler reads version 1, *set
  again*, a second handler reads version 2, stores and marks it, the first stores
  version 1. The shipped worker runs four handlers (`SyncWorker.ts:30`). The row
  counts as synced with version 2, no poll sends it again, and the central table
  keeps version 1. `RegressNeedsOvertaking` shows that this, and a prefetch that
  comes too late, are the only ways back.
- **`writebehind_starvation`**: one row the central table rejects (for instance
  an embedding of another dimension) rolls back its batch each time, and the
  poll keeps selecting the same oldest rows.
- **`ingestor_goal`**: `hook.fired` suppresses the prefetch of the task route,
  but the two may speak of different changes: with session and task in the
  query string the hook fires before the body is read, another request changes
  the session's task meanwhile, and the route changes it back unnoticed.
- **`embedder_bigrams`**: the loop's bound is `tokens.length`, and the loop
  pushes to `tokens`. Each text of two or more words makes `embed` reject.

## 4. Proofs

Each theorem below holds for every value of the constants that the modules'
assumptions admit, where no further hypothesis is named.

`ByteSumProofs` and `EvictionProofs` hold the lemmas on operators. `Bytes` is a
natural number, additive over disjoint sets of rows, dependent on sizes only;
victims of either tier are rows of the table; what a LIMIT or a loop takes of an
order comes first in it (`FirstRowsComeFirst`, `DrainedComeFirst`), so that tier 1
keeps no row older than one it deletes (`Tier1TakesOlderFirst`); a product of
factors none of which is smaller is not smaller (`ProductGrows`).

### SemanticCacheProofs

- `TypeCorrect`, `AccountingCorrect`, `CacheIsATable`. The inductive invariant is
  the conjunction of `TypeOK` and `ByteAccounting`. Every action that changes the
  table is either an upsert (`UpsertCounts`), a landed prefetch, or an `Evict`
  (`EvictCounts`), which is why the actions share that operator; the end of the
  process only has to leave rows that are well typed (`DeathKeepsIInv`), since
  `Reopen` computes the counter from them. `EvictForgets` shows that what a call
  evicts is, through the mapping `View`, a forgetting in the same step of
  `MemoryTable`.
- `OvershootCorrect`: `OvershootSpendsBatch`, for the shipped batch of 256 as for
  any other. `Tier1SpendsBatch` is the argument: the loop ends by reaching the
  target, by deleting all rows, or with the last row its LIMIT lets it see. That
  the rows counted are gone from the table is `SetCounts` and `LandingCounts`.
- `BetterRowsOutliveWorse`: `DominatedGoFirst`. It needs the invariant `Past` (no row was
  accessed in the future): the floor under the age in `utilityScore` would
  otherwise make a tie of an older and a newer row. `DominatedRanksFirst` then
  compares the three factors of the score, `Tier1TakesOlderFirst` deals with the
  tier that looks at ages only, and a call that runs both is their composition.
- `PassesGiveBytesBack`: `PassesRecede`, the ranking argument of the
  liveness property `BudgetRecovered`. A pass of tier 2 above the target lowers
  the counter, and stops short of the target only when it has deleted the
  `ScanRows` rows it may see (`FewerRowsSeen`: a LIMIT shows fewer only if there
  are fewer). It is here that sizes have to be positive: a row holds an
  embedding. The property is an invariant about the victims, since an action
  property ignores a pass that deletes nothing.

### WriteBehindProofs

- `TypeCorrect`. The part that is not bookkeeping is `Ranks`: `older` remains a
  strict total order of the rows in the table, whatever is accessed
  (`TouchedRanks`), forgotten, or lands.
- `JobsAreBatches`: each job, queued, in a handler or redelivered, has
  between 1 and `BatchSize` rows. Its lemma `OldestHasSize` is about the LIMIT:
  of ranked rows it takes exactly as many as it says, or all if there are fewer
  (the number of older rows maps the rows one to one onto `0 .. n - 1`).
- `SyncedRowsAreStored`: `SyncedIsStored`. Alone it is not inductive: a handler
  past its commit and a fetch on its way will mark rows later, so the invariant
  adds that the rows of both are stored, and the lemma `RemoteGrows` that the
  central table loses none.
- `DirtIsLostByOverlap`, `RegressIsByOvertaking`: `LossNeedsOverlap` and
  `RegressNeedsOvertaking`, for any number of handlers. The first needs `Stored`: a
  handler past its commit has stored the versions it read, and those of its rows
  that are not in `crossed` are still there. The second needs `InOrder`: the row of
  now follows the version that a handler has read and the one in the central
  table, and the version read follows the central one unless the handler has been
  crossed at that row, where a version *follows* another if it is no older or a
  fetch inserted it too late; and `Written`: nothing holds a version of the
  future. `StoreCrosses` is the step both share: when one handler stores, it
  leaves each row of another alone or has crossed it.
- `WritePathIsATable`: `ImplementsTable`, from `TypeCorrect`. `StepTable` names,
  for each action that changes `mem`, the action of `MemoryTable` it is (a write, a
  forgetting, a prefetch with at most one row left dirty, an acknowledgement);
  the others are stutters.

### EdgeNodeProofs

- `TypeCorrect`, `ServerNeverUndercounts`, `OnlyTheWorkerDrifts`. The two
  properties are not inductive, since a plan is a debt: the worker may delete a
  row the server has planned, and the server will subtract it all the same. The
  invariant is `Covers`: the counter is at least the bytes of the table *plus* the
  bytes of the planned rows that are gone already, and a planned row that is
  there has its scanned size (the server writes nothing while it has a plan). It
  holds when a plan is made (`CoversAnew`), its owner's DELETE pays a part of the
  debt (`OwnerDeletes`), and a DELETE of the worker moves bytes from the table
  into it (`OtherDeletes`). `Exact` is the same with equality and no debt, until
  the worker meddles.
- `UniqueRowsOutliveStaleOnes`: `UniqueOutlivesStale`, from `StaleRanksFirst` and
  `Past`. Of the recency the proof uses only that it does not grow with age.
- `PassesTakeTheirShare`: a pass of `compact()` plans exactly `targetEvict` rows,
  or all if there are fewer: the pool, whose size comes from another fraction and
  a minimum, never runs short of the target (`SizesOfPass`).

### IngestorProofs

- `AdmissionCorrect`, `AuthorizationCorrect`, `TypeCorrect`. The first needs, next
  to the equation itself, that each request past *new* is on record with its
  size. The second types the registry, the prefetches and the goal with the set
  of tasks that authorized requests have named, a set that only grows
  (`AuthorityGrows`). The third follows from the other two invariants and the
  bounds of counters and histories.
- `GoalIsTheLastTask`: `GoalFollowsTask`, under `InOrder` and
  `~TaskNamesSession`; `ingestor_goal` shows that it fails without the second.
  `GInv` says where the goal is heading: the last prefetch in flight, or the
  goal if there is none, is the registered task of the session that changed
  last, unless an embedding was rejected. A hook that suppresses the route's
  prefetch is only on record for requests without a session in their path.

### HudConsoleProofs

`TypeCorrect`, `JobsCorrect`, `HighlightsCorrect`, `HoverCorrect`. `JobsAgree` and
`HoverAgrees` are inductive (given the types); `HighlightsAreCurrent` needs
`TimerIsCurrent`: a search on its way is for the text in the bar and, unless
effects are due, over the list as it is.

### HashEmbedderProofs

`OnlyPairlessTextsResolve`: `Chase` says that the array is always as many tokens
longer than the loop's index as the text has words; with a pair of words, then,
the loop does not end but is thrown out of, whatever the longest string.
`embedder_bigrams` shows one such text, the theorem which texts they are.

### Assumptions

The named `ASSUME`s of the modules, evaluated by TLC in each run: finite sets of
ids and requests; sizes and limits are numbers, those of rows positive;
`Similarity` is a natural number (`(cosine + 1) / 2`); `Recency` does not grow
with age (`exp(-age / halfLife)`). Nothing bounds the number of rows, handlers,
requests, writes or crashes.

### Only model-checked

The five liveness properties (`BudgetRecovered`, `DirtyIsFlushed`, `DrainsToIdle`,
`PolicyRecovers`, `QueryIsSearched`), which the prover cannot reach. Every
invariant and every action property of the passing runs is a theorem, one of
them under a hypothesis: `GoalFollowsTask`, as in `ingestor_pass`.

## 5. Not modelled

- The loss of a dirty row to eviction: neither tier looks at `synced`
  (`SemanticCache.ts:141-153, 298-322`), so a write may be gone before it was
  enqueued. The models have these steps, but there is no promise to check:
  `DirtyIsFlushed` takes eviction as an end of dirt.
- Losing committed transactions when the machine, not the process, crashes
  (WAL with `synchronous = NORMAL`), a clock that goes backwards, running out
  of disk.
- In `EdgeNode`: the statements that a call runs before its first DELETE are
  one step, so the worker does not come between the upsert of `set()` and its
  TTL statement; `last_accessed_at` does not change by reads; `synced`, jobs and
  the central store (see `WriteBehind`).
- In `HudConsole`: latency samples, keyboard focus (any key may come at any
  time), the draft of the ingest field, WebGL, failures of the embedder in the
  browser.
- Encryption, TLS, file paths, the wrapped Transformers model: pure functions
  or I/O at start-up.
- `search` and `list` as answers: only which rows they can see.
- The capability table: any decision may come from the policy.
- Rendering of the HUD.

The shipped server (`src/ingestor/server.ts`) builds its cache with neither
queue nor remote store; `WriteBehind` describes a process that wires both, as
the library allows and the tests do.

## 6. Plan

1. Done: the cache, write-behind with crashes inside a landing prefetch, the
   ingestor, the controller and the two processes on one file, the console, the
   embedder's loop.
2. `EdgeNode` with the statements before the first DELETE apart, and with
   `synced`, so that marks of the worker's handlers and evictions of the server
   meet on one table.
3. Proofs: ranking lemmas for `PolicyRecovers` and `DrainsToIdle`, as `PassesGiveBytesBack` is one
   for `BudgetRecovered`; the invariant of the finer `EdgeNode`.
