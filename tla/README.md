# Free Proxy Manager: a TLA+ verification

Free Proxy Manager (a FastAPI process over SQLite) collects public proxies from
web sources, checks them in the background, scores them and serves the working
ones over an HTTP API. One process runs one asyncio event loop; database work
runs in threads; everything that outlives the process is in the tables
`proxies`, `proxy_source_links` and `sources`.

This directory holds TLA+ modules of the parts in which tasks, threads, the
database and the network interleave, TLC configurations that check them on
small instances, and TLAPS proofs, for every instance, of every invariant and every
action property that those runs check: of the checker job, the selection for its queue, the
checker service, the collector's transactions, the readers of the pool, the visits
to the sources, and the migration. Liveness is model-checked only.
Paths below are relative to the repository (`src/` in `PROJECT.json`).
`PROJECT.json` lists components, runs, mutants, the map from definitions to
source lines, findings, hazards and theorems.

## 1. Inventory

| Component | State it keeps | Operations | What makes it correct |
|---|---|---|---|
| Checker job (`app/jobs/checker_job.py`) | bounded `asyncio.Queue` of ids, `_reserved_ids`, worker tasks; per row status, failures, dead marks, cooldown level and end, `last_checked`, `updated_at` | `start`, `stop`, `refill_queue` (recover stuck rows, select, offer), `_worker` (take, mark, probe, revert or persist) | one check per proxy at a time; reservations end; counters and status agree; removal is earned; every check ends |
| Queue selection (same file) | four tiers, slots, provider windows | `_fetch_queue_batch_ids` and helpers | only eligible, different rows; no tier or provider is crowded out |
| Connectivity guard (`app/services/connectivity.py`) | cached `_available`, a lock, a probe loop | `start`, `stop`, `_refresh_state`, `available` | the cache follows the network; outages demote nothing |
| Scheduler and lifespan (`app/jobs/scheduler.py`, `app/main.py`) | up to six loop tasks | `start` (guard, workers, the loops, initial cycle), `stop` | loops keep running; start-up and loops do not disturb each other |
| Collector (`app/services/collector.py`, `..._helpers.py`, `proxy_identity.py`) | one session per source visit, `seen` keys, `since_commit` | `collect_all`, `_collect_from_source`, `_persist_collected` | one row per identity, a link per listing source, HTTPS preferred, one failing source does not stop the others |
| Cleanup job (`app/jobs/cleanup_job.py`) | none | delete stale DEAD rows | rows go with their links; the loop survives |
| Score job, scorer | the last id of the walk | recompute scores in batches by id | no row is passed over; an overwritten score is brought up to date again |
| Snapshot, checkpoint jobs | `pool_snapshots` | count by status, one SELECT each; WAL checkpoint | counts add up |
| Checker service (`app/services/checker.py`) | LRU pool of transports, its lock | `check_proxy`, acquire, evict, create, `close` | no transport is doubled or lost; only an aged one is closed; a verdict is earned; every check ends |
| SOCKS checker (`app/services/socks_checker.py`) | a socket, a deadline | connect, handshake, request, response, close | phases within one time budget; no late verdict |
| Pool service, API (`app/services/pool.py`, `app/api/*`) | none | list, random, best, count, health | serves usable rows only |
| Sources (`app/sources/*`) | page cursors, `seen` | `collect` | a visit that ends misses no row of a listing at rest |
| Models, database, settings | schema; SQLite's single write lock; autoflush off | | constraints hold |
| Migrations (`alembic/versions/*`) | | normalize, merge, constrain | one row for each endpoint, no link lost; order of steps against unique constraints |
| Desktop client (`test-client/*`) | thread pool, pages | wait, batch, page | no proxy lost or doubled while paging |

**How they interact.** The scheduler starts the guard (which completes one probe),
then the checker's workers, then the loops, and only then awaits the initial cycle
(synchronise the sources, collect if configured, refill): the loops run while the
initial cycle does, so two refills and two collections can overlap. Refills hand ids to workers over the
queue. Workers read the guard's cached state. Checker, collector, score and
cleanup jobs share the rows through SQLite, each from its own thread and
session: a decision made from a read is written later, in a statement or
transaction of its own. `updated_at`, which every job moves, is the clock by
which a refill recovers rows stuck in CHECKING.

**What is hard here.** Selections that are stale when offered and again when
marked; reservations across failing steps, shutdowns and overlapping refills;
database threads that outlive the tasks waiting for them; a recovery that
selects and updates in two statements; counters with four thresholds; a cached
connectivity state; sessions that do not see their own pending changes; ids that
SQLite gives out again; loops that end with their first exception; transports closed
under the requests that use them; deadlines that pass in any phase; readers that
count, walk or page through a table, or a provider's listing, that changes
between two statements. Each is a
hazard in `PROJECT.json`, at its line, with the properties aimed at it.

## 2. Modules

```
ProxyLifecycle ---+                              CheckAdmission (abstract)
ConnectivityGuard-+-> CheckerJob --INSTANCE----------^
                          |   \--> CheckerJob_proofs --> CheckerQuiet_proofs
                          +------> MCCheckerJob
QueueSelection ---------> MCQueueSelection       QueueSelection_proofs
   (implements FetchBatch of CheckerJob)
ProxyCatalog -----------> MCProxyCatalog         ProxyCatalog_proofs
CheckerService ---------> MCCheckerService       CheckerService_proofs
PoolViews ---------+                             PoolViews_proofs
SourcePaging ------+----> MCReaders              SourcePaging_proofs
IdentityMigration -+                             IdentityMigration_proofs
```

The MC modules are what TLC runs, and the `_proofs` modules what TLAPS checks.
A definition introduced with "Mutant:" is a wrong form of the definition after
it, used to show that a property can fail; no specification refers to it.

### ProxyLifecycle

One row of `proxies` as the checker writes it, as functions from row to row:
`MarkedChecking`, `Reverted`, `Recovered`, and the branches of `_apply_result`
(`Succeeded`, `RequiresAuth`, `Degraded`, `DeadMarked`, `Removes`). `Eligible` is
the disjunction of the four tier queries. Timestamps are reduced to what a
comparison with "now" can tell: cooldown none, running or over; due for a
recheck or not; older than `3 * check_timeout` or not. The ORM writes no UPDATE
for an unchanged column, so marking a row that is CHECKING already does not move
`updated_at`; the model keeps that.

### ConnectivityGuard

The network, the cached `available`, and the probe in flight. A probe that the
network changed under may fail although the network is back.

### CheckerJob

An action is what the event loop does between two suspensions, or one
transaction of a database thread.

| Code | Action |
|---|---|
| `_worker`, `_check_proxy` up to the first await | `TakeProxy`, `SkipProxy` (guard down) |
| `_mark_checking` | `MarkChecking` |
| `check_proxy` returns, guard read again | `ProbeDone` |
| `_revert_check`, `_persist_result` with the `finally` | `RevertCheck`, `PersistResult` |
| an exception in the handler | `WorkerFails` |
| `refill_queue` before / in / after its thread | `RefillStart`, `RefillNoRoom`; `RecoverSelect`, `RecoverUpdate`, `FetchBatch`; `OfferProxies` |
| an exception in that thread | `RefillFails` (the loop's task ends), `StartFails` (start-up fails) |
| `_run_initial_cycle` before its refill; the same call at the start of a collection cycle | `SyncSources`; `ResyncSources` |
| `stop`, process death, a new process | `Stop`, `Crash`, `Start` |
| collector, other jobs, time | `Collect`, `Touch`, `StuckTimeout`, `CooldownEnds`, `RecheckDue` |

`Stop` cancels tasks, but a database call that has begun in its thread runs to
its end: the worker's phase survives as an orphan, and `Start` waits until the
old process has joined its threads. `FetchBatch` chooses any non-empty set of
eligible, unreserved rows within the batch limit; `QueueSelection` shows that the
real selection is always one of these. `TimelyStep` is a worker's step other than
the return of its probe, which nothing bounds (section 4). The poison pill `None` that `_worker`
understands is never enqueued and is not modelled.

### CheckAdmission

What the job promises about admission, without queue, reservations or refills: a
proxy is free, waits, or is checked; it goes through these in order, one at a
time; a shutdown forgets who waits. `CheckerJob` implements it
(`AdmissionKept`, and the theorem `AdmissionRefinement`).

### QueueSelection

`_fetch_queue_batch_ids`, `_pick_fair_proxy_rows`, `_round_robin_proxy_rows` and
`_round_robin_state_pools`. Rows are numbered by age. `Begin` picks any
assignment of rows to tiers and sources; `Open` computes the windows and the
shuffled order, `Turn` is one provider's turn, `EndRound` drops exhausted
providers or closes the call, `Advance` goes to the next tier, the second pass
or the merge. `InOrder` lists a finite set in a given order, by rank and not by a
recursive sort, so that it can be reasoned about.

### ProxyCatalog

The tables, with SQLite's single write lock: `saved` is committed, `db` is what
the holder of the lock sees. A cycle carries its session: `updates`, `relinked`
and `adds` are pending until a flush, queries do not see them (autoflush is
off), and a flush fails as a whole on a row that is gone, a duplicate link or a
duplicate identity (`Conflict`). The visit of a source goes through `OpenSource`,
`FetchListing`, per item `SkipItem` / `FindNone` then `InsertRow` / `FindOne` /
`FindSeveral`, then `CommitBatch` and `FinishSource`; an exception inside goes through
`Fail` and `RecordError`, one outside the `try` is `CycleDies`. `FindOne` stands for
two queries, of the row and of its link: a row or link removed between them is not told
from one removed after both, which the flush meets in any case. `RemoveProxy` is the
checker's removal, `CleanupSelect` and `CleanupDelete` are the cleanup job. A new
id is the highest in use plus one, so ids return.

### CheckerService

What happens inside `ProbeDone` of CheckerJob: one probe per worker, all over one pool.
An action is what a worker's task does between two awaits, or one thing that comes
over the wire.

| Code | Action |
|---|---|
| `check_proxy` up to the pool's lock, or up to the socket | `StartCheck` |
| `acquire`: a hit; or the oldest evicted; or a transport created or refused | `Acquire` = `Hit`, `Evict`, `Create` |
| `await evicted.aclose()` returns / raises, with the lock held | `EvictionDone`, `EvictionFails` |
| `handle_async_request` raises / returns, `aread` returns / raises | `RequestFails`, `ResponseStarts`, `BodyEnds`, `BodyFails` |
| the proxy refuses a tunnel: `httpx.ProxyError`, and what its text is taken for | `TunnelRefused`, `RequiresAuth` |
| `open_connection`; the replies of the handshake; the response | `SocketOpens`, `AuthReply`, `ConnectReply`, `SocksResponse`, `SocksRest` |
| `wait_for` cancels the probe; `wait_closed` returns | `Deadline`, `SocketCloses` |
| the result is taken; shutdown, `close`, a new process | `Deliver`; `StopWorkers`, `ClosePool`, `Restart` |

The pool suspends in one place only, `aclose` of an evicted transport, and holds its
lock there; `asyncio.Lock` wakes its waiters in order (`waiting`). A request runs
outside the lock: another worker may evict its transport (`lease` becomes
"evicted", and `aged` remembers how many others were asked for since its last use). `since`,
`lease`, `aged`, `granted`, `demand` and `late` are history; no guard reads them.
A transport whose closing fails is out of the pool all the same, and the lock is
released; its connection counts as dropped.

What disables a proxy is decided by words. `checker.py:216-217` takes a refused tunnel
for a demand of credentials if the text of the exception, the status and the
reason phrase that the proxy chose, contains "407" or "authentication"; `TunnelRefused` lets any
refusal have any of these words. The proxy of an http URL answers itself, and there, as behind a
granted tunnel, a response with status 407 counts as a demand (`Judged`), whoever sent it.
The `self._client is None` branch of `check_proxy` is not modelled: workers run only
between `start` and `close`.

### PoolViews

The table `proxies` for those who read it in several statements. `walk` is
`ScoreJob.run` (`BeginWalk`, `ReadBatch`, `CommitBatch`, `WalkFails`); `reader` is a
snapshot or `GET /stats` (`BeginCounts`, `Count`), or a client that pages through
`GET /proxies` (`BeginList`, `CountMatching`, `ReadPage`). `sqlite3` opens a transaction
for a write only, so two SELECTs of one session may see different commits. The other
writers are one action each, for the columns that change together: `Mark`,
`PersistResult`, `Revert`, `RemoveProxy`, `Insert`, `Ages`, `CoolsDown`. `quality` is
what the scorer would return for the row now; `score` is the column. A row that is
gone at the commit of a batch raises `StaleDataError` and ends the score loop.

### SourcePaging

`collect()` of the seven adapters: where each loop over pages ends (`EndAt`, with `GeonodeLast`,
`NodeMavenLast`, `LitportLast`), which protocols a row yields
(`InferProtocol`, `ListedProtocols`, `LineProtocols`), de-duplication, errors
(`FetchFails`) and answers of another shape (`FetchOdd`). The provider's listing shifts
meanwhile (`Unlists`, `ListsFirst`), and it may put fewer rows on a page than it was
asked for (`served`). Each response names any subset of the `Fields` that a loop reads besides the
rows: a total that is missing counts as 0 (`geonode.py:58`, `nodemaven.py:70`) and ends
the visit after its first page, a page size that is missing as the one asked for
(`nodemaven.py:71`). A total or a size that is named is taken to be true.

### IdentityMigration

Revision 005, one action per statement, in the order of the file: `NormalizeRow`
(in id order, under the constraint that revision 001 created; `Normal` is `_normalize_host`
applied once, which need not give a host that is normal itself), `GroupRows`,
`BeginGroup`, `MergeDuplicate`, `Relabel`, `Constrain`. A statement that violates a
constraint rolls everything back (`Abort`). It runs before the process starts
(`Dockerfile`: `alembic upgrade head && uvicorn ...`), so nothing runs beside it. Groups share no
row and no link, so the order in which they are merged makes no difference.

### MCReaders

PoolViews, SourcePaging and IdentityMigration share no state. MCReaders checks the
three in one run: a behaviour is one of one module, and the variables of the other
two are asleep.

## 3. Runs

Deadlock is checked in every run. The largest run has 1.2 million distinct states;
the longest takes about three minutes.

| Run | Instance | What it shows |
|---|---|---|
| `checker_admission` | 2 proxies, 2 workers, both refills, queue of 1, batch of 2; failing steps and refills, slow probes, crash, shutdown, re-collection | `ReservationsExact`, `OneCheckPerProxy`, `QueueBounded`, `AdmissionKept` |
| `checker_rows` | 1 proxy, 1 worker, both refills, thresholds 2/3/2; every event of the environment | `TypeOK`, `RowsCoherent`, `CheckOwnsRow`, `RemovalEarned`, `InconclusiveRestores` |
| `checker_quiet` | 2 proxies, 2 workers, the loop's refill only; outages, sources switched on and off by cycles | `ServedBelowThreshold`, `CheckingHasOwner`, `DisabledStays`, `ChecksOnlyEligible` |
| `checker_liveness` | 2 proxies, 1 worker, queue of 1, the loop's refill only; outages, failing steps and refills, probes that are slow or never return, crash, shutdown, re-collection; fairness | `CheckEnds`, `ReservationEnds`, `OutageNoticed` |
| `queue_selection` | up to 5 rows, 2 tiers, 2 providers, pool size 4, every limit up to 5 | `ImplementsFetch`, `TierQuotaKept`, `ProvidersBalanced`, `SlotsReused`, `TiersInterleaved` |
| `catalog` | 1 cycle at a time, 2 sources, 2 endpoints, 3 items a listing, batch of 2; errors, crashes, removals, disabled sources; fairness | `CatalogTypeOK`, `OneRowPerEndpoint`, `LinksTruthful`, `HttpsKept`, `CycleEnds` |
| `catalog_overlap` | start-up cycle and collector loop at once, 1 source, 1 endpoint; removals, crashes, errors between visits, cleanup | `RowsLinked`, `LockOnlyInBatch` |
| `checker_service` | 2 workers, pool of 2; 4 HTTP proxies, one of them with a URL that httpx refuses, an HTTPS proxy that shares a URL, a SOCKS5 proxy; one redirect; refused tunnels, closings that fail; shutdown and restart; fairness | `ServiceTypeOK`, `TransportsAccounted`, `VictimsAged`, `VerdictEarned`, `ProbesEnd` |
| `readers`: PoolViews | 3 rows, ids up to 3, scores 0..2, batches and pages of 2, 2 writes by others; fairness | `WalkComplete`, `CountsAddUp`, `ListingDriftOnly`, `ScoreSettles`, `PagingEnds` |
| `readers`: SourcePaging | 7 adapters, listings of 0 to 5 rows, pages of 2 asked for and 1 or 2 served, totals and sizes named or not, 5 pages, 2 changes during a visit | `VisitDriftOnly` |
| `readers`: IdentityMigration | every table of 3 rows over 3 spellings of 2 endpoints, one of them normalized in two steps, 3 labels, 2 statuses, that revision 001 allows | `UpgradeMerges` |
| `stale_selection`, `poisoned_batch`, `cleanup_stops` | smallest that show it | findings, section 5 |

**Bounds and why they are enough.**

- Two proxies and two workers with a queue of one: the queue fills, a batch (2) is
  larger than the free slots, a second refill finds the queue changed under its
  selection, and both workers compete. A third proxy adds no new relation: the
  properties relate at most two workers or two places of an id. The theorems
  remove the bound.
- Thresholds 2, 3 and 2: a row passes through DEGRADED before its first mark, takes
  two marks before removal, and its level reaches the maximum. In `checker_admission`
  and `checker_liveness` the row data does not matter, so the thresholds are 1 there.
- `MaxFailures` stops the one counter that could grow without end (a 407 adds a
  failure and no mark; it is a guard of `ProbeDone`). It lies above
  `FailureThreshold`, except in the instances where failures do not matter: there it
  is 0, which leaves 407 answers out.
- `MaxListing` = 3 is more than a batch (2), so batches end inside and at the
  end of a listing. `MaxGaps` bounds the ids that are missing below the highest one:
  with 1, a removed id comes back, also with another endpoint.
- Two tiers in `queue_selection`: the code treats the four alike, slots with
  a remainder occur (odd limits), and so does a tier that cannot fill its share.
- In `checker_service` two workers are one that uses a transport and one that evicts
  it, or one that closes with the lock held and one that waits. More proxies than
  pool entries are asked for (five URLs, two entries), so that a transport is evicted, created
  again and evicted again. One redirect acquires the transport twice in a check.
  A SOCKS4 check goes through the phases of a SOCKS5 check but one, so one SOCKS proxy is enough.
- In `readers` the table has more rows than a batch or a page, so a walk and a list go
  over two batches with an end in the middle of the second; the highest row can be removed
  and its id returns. Two writes are enough for a check (mark, persist), or a
  removal with an insertion, to fall between any two statements; the third write
  would be another one of these. `MaxQuality` = 2 gives three rows
  different keys, so that `ListingDriftOnly` is not only about ties. Two changes of a provider's listing
  move a row over a page border and back; `MaxPages` = 5 is what the longest
  listing needs when one row a page is served.
- In `checker_liveness` one worker is all of them: it takes one probe that never returns to
  lose them all, while the second proxy fills the queue or is reserved behind it.
- In the migration, rows over the spellings "A" and "a" of one endpoint and "c", which is normalized
  to "A", make groups of one, two and three rows, with collisions on the label and without, and
  the row that runs into one that is still to be normalized.
- In `PoolViews` a check's outcome, its revert and its removal are taken for rows in CHECKING only;
  after a recovery they find another status. The proofs do not depend on that.
- Symmetry (proxies, workers; sources in `queue_selection`) is used in runs
  without liveness only. `OneOrder` fixes an order of sources, so there is no symmetry
  in `catalog`.

**Some properties hold only in a smaller environment, and the run says which.**

- `ChecksOnlyEligible` needs the start-up refill left out (`Initial = FALSE`); with both
  refills it is the finding `stale_selection`. Nothing else is needed: it holds
  with failing steps, crashes, slow probes and sources that cycles switch on and off, since the mark looks
  the enabled link up again.
- `DisabledStays` needs that too, and probes not slower than `3 * check_timeout`
  (`ProbesInTime`). A slower probe may end between the two statements of a recovery that has selected
  its row; the row becomes DISABLED, and the recovery turns it into DEGRADED.
- `ServedBelowThreshold` needs steps that do not fail, no restart (`StepsSucceed`) and probes in
  time: otherwise there are rows to recover, and the recovery
  turns every stuck row into DEGRADED, also one that was DEAD before its check;
  a DEGRADED row outside cooldown is served although its failures are at
  the threshold.
- `CheckingHasOwner` needs `StepsSucceed`: an exception after the mark leaves the row
  CHECKING. `CheckEnds` says what follows: a later refill recovers it.
- `OneRowPerEndpoint`, `LinksTruthful` and `CatalogTypeOK` are for one cycle at a time (`OneCycle`). When
  the start-up cycle and the collector loop overlap, both can look an endpoint
  up and find nothing; one inserts it as https and commits, the other
  inserts it as http and commits. `uq_proxy_identity` is on host, port and
  label, so both rows stay, and every later look-up raises `MultipleResultsFound`
  (`FindSeveral`). `merge_collected_protocol` is only applied to a row that
  the query found.
- `ListingDriftOnly` speaks of lists without rows of equal score and latency: the
  query gives those no order (`pool.py:117`), and two pages may show one twice or never.
- `VisitDriftOnly` speaks of two ends of a visit. One at an empty page needs only that pages
  join, which they do unless ProxyDB, which asks for offsets, is served
  smaller pages. One behind a page with rows needs that the adapter reckons with what is
  true (`CountsRight`): Geonode and Litport with the size they asked for,
  NodeMaven with that or with a response that names its size, Geonode and NodeMaven with the
  total in it. Otherwise they really miss rows of a listing at rest: NodeMaven, too, of a provider that
  serves smaller pages without saying so. Visits cut by `max_pages`, by an odd answer or by
  ProxyDB's page with nothing new owe nothing.
- `ProbesEnd` leaves out the body of an HTTP response: httpx has a timeout per read and
  none over all, so a proxy that drips its body keeps the worker. A SOCKS check
  has no such phase; its deadline is over all.
- `ScoreSettles` allows for a score loop that died, of a locked database or of a row
  removed under a batch; nothing restarts it.
- `CheckEnds` and `ReservationEnds` assume nothing of a probe, and name what the code then cannot
  give. `CheckEnds` has three exceptions: in the end every worker is in a probe that does not return and the
  queue is full, so that `refill_queue` returns before its recovery (`checker_job.py:118-120`);
  the refill loop has died; or the process is stopped and started again and again. `ReservationEnds`
  has two: the proxy's own probe never returns, or those of all workers do not. A check or a
  reservation that lasted for any other reason would violate them: a leak by a failing step,
  a recovery that does not commit, a shutdown or crash at any point, a row removed meanwhile. The loop's death does
  not keep a reservation.
- `CheckEnds` is checked without `Touch`: a job that updates a CHECKING row
  more often than every `3 * check_timeout` (a short `SCORE_INTERVAL`) would postpone
  its recovery for ever.

## 4. Fairness

`FairSpec` of `CheckerJob` assumes weak fairness of each worker's steps but the return of its probe
(`TimelyStep`), each refiller's steps, `SyncSources`, `RefillNoRoom`, `Start`, the passing of
time, and the guard's probes. The event loop runs every ready task; each thread's statement ends
because SQLite's `busy_timeout` bounds it; the loops
sleep a finite interval. A probe need not return, because the body of an HTTP response
has a timeout per read and none over all (`checker.py:87`). Nothing is assumed of the environment: outages,
errors and shutdowns may or may not happen, for ever. `WorkerFails` is not part
of the fair steps; it may always take the place of one, and a handler it ends
has ended. `CatalogFairSpec` assumes weak fairness of a cycle's steps: the wait for
the lock ends with the lock or with "database is locked".

`ServiceFairSpec` of CheckerService assumes weak fairness of `Timely(w)`: what the event
loop runs, closing a connection, the SOCKS deadline, and an HTTP request until it fails or has
the head of its response. The timeouts of a head are per read, too, but the HTTP library bounds
its size, so that it cannot be dripped for ever; a proxy that sends interim 1xx heads without end
is left out. Nothing else is assumed of what a proxy
sends, so no body and no SOCKS reply need ever come. `PoolFairness` assumes weak fairness of
the score job's steps (the loop sleeps a finite interval) and of the steps of a
reader that has begun; nobody needs to begin reading, and nobody needs to write.

## 5. Findings

| Run | What the code does |
|---|---|
| `stale_selection` | `_mark_checking` overwrites whatever status it finds. The later of two overlapping refills offers ids it selected before the first one's checks ended; a row just found HEALTHY, or DEAD in its cooldown, is checked at once. `docs/architecture.md:48-53` gives the eligibility it breaks. |
| `poisoned_batch` | An endpoint listed as HTTP and then as HTTPS, with no link to that source yet, gets its link added twice, because the look-up does not see the session's pending link. The commit fails and the batch is lost, in every cycle. |
| `cleanup_stops` | Deleting a stale row makes the ORM set `proxy_id` of its links to NULL, which the column forbids; every committed row has a link. The first stale row ends the cleanup loop. |

Other places where documents and code differ, met on the way and not modelled as
runs: `docs/architecture.md:46` promises that unused slots are redistributed, which
the second pass does only within `per_source_pool` windows (`SlotsReused` states what
does hold); `docs/api.md:97` counts HEALTHY rows in `valid_proxies`, `pool.py:194-203` also DEGRADED
ones; `total_proxies_found` is cumulative; `min_score=0` is no filter (`pool.py:67`);
the recheck batch size and the lower priority of rows that were dead, which
`docs/memory.md:22-23` names, are not in the code.

Seen in the models, and not stated as runs of their own:

- A failure is discarded only if the guard has noticed the outage (`checker_job.py:491`).
  Until its next probe, failures that the outage caused are persisted, though
  `docs/architecture.md:40` says they are not. `OutageNoticed` bounds how long: until a probe ends.
- One exception in the refill's thread (a locked database) ends the loop's task for good
  (`scheduler.py:79-81`), and rows stuck in CHECKING stay there while the process runs.
  It is one of the exceptions of `CheckEnds`; without it TLC shows the property violated.
- Proxies that drip their bodies can keep every worker (`checker.py:87`). Once the queue is full,
  `refill_queue` returns before its recovery, and nothing is checked or recovered any more (another exception of `CheckEnds`).
- A refused tunnel with any status disables the proxy if its reason phrase contains "authentication" or
  "407" (`checker.py:216-217`), and so does a 407 of the site behind a granted tunnel;
  `docs/architecture.md:65` speaks of "HTTP 407". A 407 whose body fails is a plain failure.
- The score loop ends in the same way (`scheduler.py:97-102`), also when the checker removes a row whose score is
  about to be committed. A score may go to another endpoint that was given the id meanwhile;
  the next walk sets it right (`ScoreSettles`).
- The comment at `checker.py:86` says that the pooled transport stays open. A slow
  request's transport is closed under it once as many other proxies as the pool
  holds were asked for, and the check fails; `VictimsAged` is what does hold. With 6 workers
  and a pool of 64, as in `.env.example`, that takes a check that is ten times slower than the others.
- Two workers may check the http row and the https row of one endpoint at once, over
  one transport with one connection.
- A SOCKS result that is at hand while the socket closes is lost if the deadline passes
  then (`socks_checker.py:183-190`); the failure counts against the proxy.
- A provider's answer of another shape, with status 200, counts as the end of its
  listing (Geonode, Litport, NodeMaven, ProxyDB); a page that fails discards the pages before it.
- An unknown `status` in `GET /proxies` is a `ValueError`, so the answer is a 500.
- Revision 005 fails on rows it was written for: two rows of one label whose hosts differ only in
  spelling violate the old constraint while they are normalized, before they are
  merged, and the container does not start. It also fails on rows that it would not have merged: `_normalize_host` turns
  "01.2.3.4." into "01.2.3.4", which collides with a later row of that host, although that
  one is about to become "1.2.3.4"; in the other order both go through, as two endpoints
  (`UpgradeMerges`: it goes through exactly if there are none of either). It merges
  the SOCKS and HTTP rows of an endpoint, and the row kept may have the status of one
  and the label of another.
- The desktop client's table (`proxies_tab.py:199`) starts a load without waiting for the one before:
  the rows shown and the range shown above them may belong to different pages.

## 6. Proofs

Every invariant and every action property of the passing runs is a theorem. All are proved
from the named assumptions on the constants. Where a property holds in a smaller environment
only (section 3), the theorem has that as its hypothesis: `StepsSucceed`, `ProbesInTime`,
`Initial = FALSE`, `OneCycle`. The runs `checker_quiet` and `catalog` meet these hypotheses.

**Checker job.** `CheckerJob_proofs` proves, for all sets `Proxy` and `Worker`, all queue and batch
sizes, thresholds and environments, from two assumptions only (`JobAssumption`,
`ThresholdsAssumption`: sizes and thresholds are positive naturals, as the
settings declare, and `NoProxy` is no id):

| Theorem | Statement |
|---|---|
| `TypeCorrect` | `Spec => []TypeOK` |
| `AdmissionCorrect` | reservations are exactly the ids queued or handled, no id twice, queue bounded |
| `OneCheckAlways`, `QueueAlwaysBounded` | two parts of it that `checker_admission` checks |
| `AdmissionRefinement` | `Spec => AdmissionKept`: the job implements `CheckAdmission` |
| `RowsAlwaysCoherent` | counters, cooldown, level and status of every row agree |
| `ChecksOwnRows` | from mark to outcome the row exists with the counters the mark saw |
| `RemovalAlwaysEarned` | a row goes only after `FailureThreshold + RemovalThreshold - 1` failures in a row |
| `InconclusiveAlwaysRestores` | `Spec => InconclusiveRestores`: a check that does not count leaves the row as it was before |

**Argument.** `AdmissionInv` strengthens the admission properties by `HandlerState`
(a worker holds an id exactly while it works, persists only with a result and does
not probe after shutdown) and `NothingPending` (no queue and no reservation after
shutdown). It is needed because "one check per proxy" is not inductive: a second
refill may hold an id in its stale selection, and only the fact that
reservations cover queue and workers makes `OfferProxies` pass over it. The step
proof has one lemma per group of actions, over the places an id can be in
(queued, held), so that sequences are reasoned about in three lemmas only
(`TakeHead`, `PutAll`, `OfferPlaces`). The refinement maps an id to "checking" if
held, else "waiting" if queued, else "free"; each step maps to a step or a stutter.

`InductiveInv` adds `RowsCoherent` and `CheckOwnsRow`. The second is what makes a
revert safe: it writes a status read at the mark, and that fits the row's
counters only because nobody else changes the counters of a row under check.
That again rests on `OneCheckPerProxy`. `RowCoherence` proves the row operators once,
with the arithmetic of thresholds and levels; each action then cites it.

`CheckerQuiet_proofs` goes on from `InductiveInv`, for the properties of `checker_quiet`:

| Theorem | Hypotheses | Statement |
|---|---|---|
| `CheckingAlwaysOwned` | `StepsSucceed` | every row in CHECKING is with a worker |
| `ServedAlwaysBelow` | `StepsSucceed`, `ProbesInTime` | a row that is served is below the failure threshold |
| `ChecksAlwaysEligible` | `Initial = FALSE` | a row is eligible when it is marked, whatever cycles do to its sources |
| `DisabledAlwaysStays` | `Initial = FALSE`, `ProbesInTime` | DISABLED ends with the row only |

The first needs `OwnerInv`: a check never reverts to CHECKING, because the row it marked was under
no other check, and so in no CHECKING. The second, `ServedInv`: no row is ever old
enough to be recovered, and neither a row nor the row as it was at the mark is served above the
threshold. The third is about a decision that is used three steps later, and `EligibleInv` says why it still holds: a
row selected is neither queued nor held, since the selection excluded what was when it began, and
there is no second refill to offer it meanwhile; and what nobody checks stays `Checkable`, eligible
but for its link to an enabled source, whatever time, the collector and the recovery do to it
(`EligibleKept`). A collection cycle may switch the source off; the mark looks at the link
again, so that what it marks is eligible (`MarkedEligible`). The last adds `DisabledInv`: a row under check is
CHECKING and fresh, so no recovery has selected it when it becomes DISABLED.

**Queue selection.** `QueueSelection_proofs` proves the five properties of `queue_selection` for
all rows, sources, limits and pool sizes and any list of tiers (`AlwaysFetch`, `QuotaAlwaysKept`,
`AlwaysBalanced`, `SlotsAlwaysReused`, `AlwaysInterleaved`). `Inv` has one part for each level of the nested
loops. `CallOK` is the round robin of one call: after k rounds a provider still in the order has k
rows to its credit, or k + 1 after its turn, and one that left it has its window picked.
`Quotas` says of the tiers done in the first pass that each has its quota or all that its windows
hold; `Reuse`, of those done in the second, that the batch is full or no row was left out while
its provider's share had room. `PoolsOK` keeps rows apart between tiers, and
`Merged` describes the batch as the pools' rows in turns. The ranks behind `InOrder` are counted
in three lemmas (`RankRange`, `RankRises`, `RankTaken`).

**Checker service.** `CheckerService_proofs` proves, for all sets of workers and proxies, all
pool sizes and numbers of redirects, from `ServiceAssumption`:

| Theorem | Statement |
|---|---|
| `ServiceTypeCorrect` | `ServiceSpec => []ServiceTypeOK` |
| `TransportsAlwaysAccounted` | the pool with the transport being closed is within its size, one transport a URL, none lost while the service is up |
| `VictimsAlwaysAged` | a transport is closed under a request only after `MaxSize` others were asked for |
| `VerdictsAlwaysEarned` | a success is earned, a proxy is disabled only for what the checker takes for a demand, and for each of them unless the deadline passed or the body was lost |

`ServiceInv` strengthens them by four parts. `LockInv`: the lock has at most one holder,
who is in the phase "evict", a transport is being closed exactly while it is held, and workers queue
for it once. `OrderInv`: `since` of a pooled URL holds every URL behind it in `entries`, which is
what least-recently-used order means, and the URL for which a transport is evicted is not
pooled and newer than all that are. `LeaseInv` and `ChecksInv`: a lease belongs to a request that runs, and a
check to a proxy. Neither property is inductive without them: the oldest of `MaxSize` entries has
`MaxSize - 1` others behind it, and only with the URL asked for do they make `MaxSize`; and
a worker served while another closes its victim would put one transport too many into the
pool. `HonestInv` (with `Earned`) follows what was answered through the phases, redirects and refused tunnels for
`VerdictEarned`: a demand heard before the deadline, or while a socket closes, has to be the verdict.

**Readers.** `PoolViews_proofs` proves `WalksAlwaysComplete` (`PoolSpec => []WalkComplete`), for
all tables, batch sizes and numbers of writes. The invariant `WalkInv` says that rows
behind the walk's position that nobody else wrote have their score (`Behind`), that the batch lies
ahead of the position, holds every row up to its last id, and that of each of its rows that nobody
else wrote it holds the score that is in the table and the one that its columns call for
(`BatchAhead`). Without `BatchAhead` the commit would not re-establish `Behind`.

`CountsAlwaysAddUp` (`PoolSpec => []CountsAddUp`) rests on `CountsClose`: what is counted already and what the
remaining SELECTs would count now differs from the total by at most the writes since the first.
Each write moves one row from at most one status to one other. `ListingAlwaysDriftOnly`
(`PoolSpec => []ListingDriftOnly`) rests on `ListReading`: of the rows that stayed, those that
now lie before the client's offset and were not read are at most as many as the changes
of the list (`Missing`), and so are those that lie behind it and were read (`Again`). One
change moves the rows behind it by one place, so at most one row crosses the offset in either direction.

**Catalog.** `ProxyCatalog_proofs` proves, for all sources, endpoints, listings and batch
sizes, with the two cycles overlapping as they can unless `OneCycle` is assumed, from `CatalogAssumption`
(what the sources list is finite):

| Theorem | Statement |
|---|---|
| `LockAlwaysInBatch` | `CatalogSpec => []LockOnlyInBatch` |
| `RowsAlwaysLinked` | `CatalogSpec => []RowsLinked` |
| `HttpsAlwaysKept` | `CatalogSpec => HttpsKept` |
| `OneRowAlways` | with `OneCycle`, `CatalogSpec => []OneRowPerEndpoint` |
| `LinksAlwaysTruthful` | with `OneCycle`, `CatalogSpec => []LinksTruthful` |
| `CatalogAlwaysTyped` | with `OneCycle`, `CatalogSpec => []CatalogTypeOK` |

`CatalogInv` has four parts. `ShapeInv` says what tables and sessions look like; a pending
update is "same" or "https". `LockInv`: the holder of the lock has something to commit
(`count > 0`). `LockOnlyInBatch` is not inductive without it: an item that is skipped may
end the listing, and a visit with nothing to commit goes on to the next phase without
one. `AheadInv`: what the holder sees has every committed row, and keeps the label of
those that are https; while nobody holds the lock it is what is committed. `LinkInv`: a row
that the holder sees has a link or is among its pending ones (`adds`), because the row is
flushed before its link.

For one cycle, `SingleInv` says of every view of the tables that it has both properties, of every
pending update and link that it would keep them (`PendingTrue`), and of an endpoint about to be inserted that the view
has no row for it: the look-up found none, and while the cycle waits for the lock others
only remove rows. Links stay truthful although ids are given out again because every link
pending without the lock belongs to a row with a pending update, and a flush fails if that row is gone.
`TypedInv` bounds the ids: labels are listed ones and distinct, so there are no more rows than listed
items, and at most `MaxGaps` ids below the highest are missing.

**Sources.** `SourcePaging_proofs` proves `VisitsDriftOnly` (`SiteSpec => []VisitDriftOnly`) for all
listings, page sizes and numbers of pages: of the rows listed throughout, those before the adapter's
position that it did not collect are at most as many as the changes so far (`VisitUnderway`), as
each change moves one row across that position; and where an adapter stops at an empty page, or
reckons with what is true of the provider, nothing lies beyond. The subset of fields that each
response names is arbitrary, so both sides of each fallback are proved about.

**Migration.** `IdentityMigration_proofs` proves `UpgradeAlwaysMerges` (`MigrationSpec =>
[]UpgradeMerges`) for all tables and any function `Normal`: it is not assumed that what it returns
is normal. `Normalizing` says that the rows done are
normalized once, those that wait are as they were, and no two rows have one label and one endpoint so far;
a collision is then one with a row that was done, or with the old spelling of one that waits.
`Merging` says of each endpoint how far its group is: untouched, under way or finished
(`GroupMerging`); the row that is kept is the best of the group, and what was merged so far is in its links.

**Only model-checked.** The seven liveness properties (`CheckEnds`, `ReservationEnds`,
`OutageNoticed`, `CycleEnds`, `ProbesEnd`, `ScoreSettles`, `PagingEnds`): the prover does not reason about
fairness and ENABLED. The findings are counterexamples of TLC's.

## 7. What is not modelled, and the plan

Left out for good:

- log messages, formatting, parsing of the sites' markup and of the SOCKS replies' bytes,
  geographic and other descriptive columns, latencies;
- the scorer's arithmetic: it is a function of the row, evaluated where the code does;
- `GET /proxies/random` and `/best`: one SELECT and a choice among its rows, nothing of which is
  used later; the history of snapshots, the deletion of old ones, and the count of rows in
  cooldown: one statement each, on which nothing else depends;
- the WAL checkpoint: it changes no row;
- the migrations other than 005: they add columns, tables or indexes, or widen a constraint that
  holds (008);
- the desktop client's batch runner, threads and widgets: they use the service over HTTP
  and share no state with it;
- the loader's table of adapter classes.

Next: an abstract specification of the catalog, a set of identities and sources to which a
visit adds what it listed, and a proof that `ProxyCatalog` implements it for a single cycle.

## 8. Checking it

```
tlc -workers 2 -config CheckerRows.cfg MCCheckerJob
tlc -workers 2 -config QueueSelection.cfg MCQueueSelection
tlc -workers 2 -config Catalog.cfg MCProxyCatalog
tlc -workers 2 -config CheckerService.cfg MCCheckerService
tlc -workers 2 -config Readers.cfg MCReaders
tlapm CheckerJob_proofs.tla
tlapm CheckerQuiet_proofs.tla
tlapm QueueSelection_proofs.tla
tlapm CheckerService_proofs.tla
tlapm PoolViews_proofs.tla
tlapm SourcePaging_proofs.tla
tlapm IdentityMigration_proofs.tla
tlapm ProxyCatalog_proofs.tla
```

`PROJECT.json` names the module and the configuration of every run, and for every
property of a passing run a mutant that breaks it.
