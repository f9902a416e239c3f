----------------------------- MODULE CheckerJob -----------------------------
(***************************************************************************)
(* app/jobs/checker_job.py with the refill tasks of app/jobs/scheduler.py: *)
(* refills select rows in a database thread and offer them to a bounded    *)
(* queue; workers take ids from the queue, mark the row CHECKING, probe    *)
(* the proxy and persist (or revert) the outcome, each database step in a  *)
(* thread of its own.  The event loop runs one handler at a time up to its *)
(* next suspension, so an action is what happens between two suspensions,  *)
(* or one transaction of a thread.  Process memory (queue, reservations,   *)
(* tasks) dies with the process; the rows survive.                         *)
(*                                                                         *)
(* A proxy is its id.  SQLite may give the id of a deleted row to a later  *)
(* one, so Collect may reuse an id.                                        *)
(***************************************************************************)
EXTENDS ProxyLifecycle, ConnectivityGuard, Sequences, FiniteSets

CONSTANTS
    Proxy,        \* proxy ids
    Worker,       \* the checker_concurrency worker tasks
    NoProxy,      \* a worker that holds no id
    QueueMax,     \* settings.checker_queue_max_size
    BatchMax,     \* settings.checker_enqueue_batch_size
    Initial,      \* whether the start-up cycle's own refill is part of the run
    Environment,  \* which events around the job occur, see EventName
    MaxFailures   \* bound of the model: no 407 once so many failures in a row

EventName ==
    {"outage",    \* direct connectivity comes and goes
     "error",     \* a worker's step raises (database locked, unexpected error)
     "refill_error", \* the database raises in a refill or the start-up sync
     "crash",     \* the process dies
     "stop",      \* the process is shut down (scheduler.stop)
     "slow",      \* a probe outlasts 3 * check_timeout
     "collect",   \* the collector inserts rows, also for a removed endpoint
     "touch",     \* another job updates a CHECKING row (updated_at moves)
     "resync"}    \* sources.json is edited, and a cycle takes its flags over

ASSUME JobAssumption ==
    /\ NoProxy \notin Proxy
    /\ QueueMax \in Nat \ {0}
    /\ BatchMax \in Nat \ {0}
    /\ Initial \in BOOLEAN
    /\ Environment \subseteq EventName
    /\ MaxFailures \in Nat

\* The two tasks that call refill_queue: the refill loop, and the initial
\* cycle, which start() awaits after it has created the loop's task.
Refiller == {"loop", "initial"}

VARIABLES
    running,    \* between CheckerJob.start and stop
    rows,       \* ids that have a row in the table proxies
    db,         \* the rows
    queue,      \* the asyncio.Queue of ids
    reserved,   \* self._reserved_ids
    pc,         \* what each worker is doing, or its orphaned thread
    held,       \* the id each worker took from the queue
    target,     \* the row as _mark_checking found it; the code keeps its
                \* status (previous_status), the rest is for the properties
    outcome,    \* the CheckResult a worker is about to persist
    refill      \* per refiller: phase and locals of refill_queue

memory == <<queue, reserved, pc, held, target, outcome>>
vars == <<running, rows, db, memory, refill, guardVars>>

WorkerPhase == {"idle", "mark", "probe", "revert", "persist"}

\* "sync": the initial cycle before its refill; "recover", "update", "fetch":
\* the thread _load_ids; "offer": back on the event loop; "dead": the task of the
\* loop ended with an exception.
RefillPhase ==
    {"sync", "idle", "recover", "update", "fetch", "offer", "done", "dead"}

RefillState == [phase   : RefillPhase,
                batch   : 0..BatchMax,       \* the limit of this refill
                exclude : SUBSET Proxy,      \* snapshot of the reservations
                stuck   : SUBSET Proxy,      \* ids to recover
                ids     : SUBSET Proxy]      \* the selection to offer

RefillAt(phase) ==
    [phase |-> phase, batch |-> 0, exclude |-> {}, stuck |-> {}, ids |-> {}]

Selected(ids) == [RefillAt("offer") EXCEPT !.ids = ids]

\* A refiller between two refills: the loop sleeps, the initial cycle ends.
Resting(r) == RefillAt(IF r = "loop" THEN "idle" ELSE "done")

TypeOK ==
    /\ running \in BOOLEAN
    /\ rows \subseteq Proxy
    /\ db \in [Proxy -> Row]
    /\ queue \in Seq(Proxy)
    /\ reserved \subseteq Proxy
    /\ pc \in [Worker -> WorkerPhase]
    /\ held \in [Worker -> Proxy \cup {NoProxy}]
    /\ target \in [Worker -> Row]
    /\ outcome \in [Worker -> Outcome \cup {"none"}]
    /\ refill \in [Refiller -> RefillState]
    /\ GuardTypeOK

Init ==
    /\ running = TRUE
    /\ rows \in SUBSET Proxy
    /\ db = [p \in Proxy |-> NewRow]
    /\ queue = <<>>
    /\ reserved = {}
    /\ pc = [w \in Worker |-> "idle"]
    /\ held = [w \in Worker |-> NoProxy]
    /\ target = [w \in Worker |-> NewRow]
    /\ outcome = [w \in Worker |-> "none"]
    /\ refill = [r \in Refiller |->
                    RefillAt(IF r = "initial"
                                THEN IF Initial THEN "sync" ELSE "done"
                                ELSE "idle")]
    /\ GuardInit

-----------------------------------------------------------------------------
(* Workers.                                                                *)

\* The finally clause of _worker: the reservation ends with the handler.
Release(w) ==
    /\ pc' = [pc EXCEPT ![w] = "idle"]
    /\ held' = [held EXCEPT ![w] = NoProxy]
    /\ target' = [target EXCEPT ![w] = NewRow]
    /\ outcome' = [outcome EXCEPT ![w] = "none"]
    /\ reserved' = reserved \ {held[w]}

\* Mutant: the reservation ends when the id leaves the queue.
TakeProxyUnreserving(w) ==
    /\ running
    /\ pc[w] = "idle"
    /\ queue # <<>>
    /\ available
    /\ pc' = [pc EXCEPT ![w] = "mark"]
    /\ held' = [held EXCEPT ![w] = Head(queue)]
    /\ queue' = Tail(queue)
    /\ reserved' = reserved \ {Head(queue)}
    /\ UNCHANGED <<running, rows, db, target, outcome, refill, guardVars>>

\* queue.get returns and the cached connectivity state is read, without a
\* suspension in between.
TakeProxy(w) ==
    /\ running
    /\ pc[w] = "idle"
    /\ queue # <<>>
    /\ available
    /\ pc' = [pc EXCEPT ![w] = "mark"]
    /\ held' = [held EXCEPT ![w] = Head(queue)]
    /\ queue' = Tail(queue)
    /\ UNCHANGED <<running, rows, db, reserved, target, outcome, refill,
                   guardVars>>

\* With the guard down the handler returns before its first suspension.
SkipProxy(w) ==
    /\ running
    /\ pc[w] = "idle"
    /\ queue # <<>>
    /\ ~available
    /\ reserved' = reserved \ {Head(queue)}
    /\ queue' = Tail(queue)
    /\ UNCHANGED <<running, rows, db, pc, held, target, outcome, refill,
                   guardVars>>

\* _mark_checking in its thread.  It returns None for a row that is gone or
\* has no enabled source; the status the row has is not looked at.  A thread
\* that outlived its worker marks the row and nobody waits for its result.
MarkChecking(w) ==
    LET p == held[w] IN
    /\ pc[w] = "mark"
    /\ \/ /\ p \in rows /\ db[p].linked
          /\ db' = [db EXCEPT ![p] = MarkedChecking(db[p])]
          /\ IF running
                THEN /\ pc' = [pc EXCEPT ![w] = "probe"]
                     /\ target' = [target EXCEPT ![w] = db[p]]
                     /\ UNCHANGED <<held, outcome, reserved>>
                ELSE Release(w)
       \/ /\ ~(p \in rows /\ db[p].linked)
          /\ Release(w)
          /\ UNCHANGED db
    /\ UNCHANGED <<running, rows, queue, refill, guardVars>>

\* check_proxy returns; a result other than success is discarded when the
\* guard's cached state is down.  A proxy cannot answer during an outage.
\* MaxFailures bounds the one counter that could grow without end: a 407 adds
\* a failure and no dead mark.
ProbeDone(w, result) ==
    /\ pc[w] = "probe"
    /\ result = "success" => net
    /\ result = "auth" => net /\ db[held[w]].failures < MaxFailures
    /\ pc' = [pc EXCEPT ![w] = IF result # "success" /\ ~available
                                  THEN "revert" ELSE "persist"]
    /\ outcome' = [outcome EXCEPT ![w] = result]
    /\ UNCHANGED <<running, rows, db, queue, reserved, held, target, refill,
                   guardVars>>

\* Mutant: the handler returns without the revert.
RevertCheckMissing(w) ==
    /\ pc[w] = "revert"
    /\ Release(w)
    /\ UNCHANGED <<running, rows, db, queue, refill, guardVars>>

\* _revert_check in its thread, then the end of the handler.
RevertCheck(w) ==
    LET p == held[w] IN
    /\ pc[w] = "revert"
    /\ db' = IF p \in rows
                THEN [db EXCEPT ![p] = Reverted(db[p], target[w].status)]
                ELSE db
    /\ Release(w)
    /\ UNCHANGED <<running, rows, queue, refill, guardVars>>

\* _persist_result in its thread, then the end of the handler.
PersistResult(w) ==
    LET p == held[w] IN
    /\ pc[w] = "persist"
    /\ IF p \in rows /\ Removes(db[p], outcome[w])
          THEN /\ rows' = rows \ {p}
               /\ db' = [db EXCEPT ![p] = NewRow]
          ELSE /\ rows' = rows
               /\ db' = IF p \in rows
                           THEN [db EXCEPT ![p] = Applied(db[p], outcome[w])]
                           ELSE db
    /\ Release(w)
    /\ UNCHANGED <<running, queue, refill, guardVars>>

\* Mutant: no finally clause, the id stays reserved after an exception.
WorkerFailsLeaking(w) ==
    /\ "error" \in Environment
    /\ pc[w] # "idle"
    /\ pc' = [pc EXCEPT ![w] = "idle"]
    /\ held' = [held EXCEPT ![w] = NoProxy]
    /\ target' = [target EXCEPT ![w] = NewRow]
    /\ outcome' = [outcome EXCEPT ![w] = "none"]
    /\ UNCHANGED <<running, rows, db, queue, reserved, refill, guardVars>>

\* A step of the handler raises: nothing is written, the exception is logged
\* and the finally clause runs.
WorkerFails(w) ==
    /\ "error" \in Environment
    /\ pc[w] # "idle"
    /\ Release(w)
    /\ UNCHANGED <<running, rows, db, queue, refill, guardVars>>

-----------------------------------------------------------------------------
(* Refills.                                                                *)

\* Up to the thread: slots are free, the batch size and the excluded ids are
\* read on the event loop.
RefillStart(r) ==
    LET slots == QueueMax - Len(queue) IN
    /\ running
    /\ refill[r].phase = "idle"
    /\ slots > 0
    /\ refill' = [refill EXCEPT ![r] =
                     [phase   |-> "recover",
                      batch   |-> IF slots < BatchMax THEN slots ELSE BatchMax,
                      exclude |-> reserved,
                      stuck   |-> {},
                      ids     |-> {}]]
    /\ UNCHANGED <<running, rows, db, memory, guardVars>>

\* No slot is free: refill_queue returns before the recovery.  Nothing of this
\* shows for the loop, which sleeps again.
RefillNoRoom ==
    /\ running
    /\ refill["initial"].phase = "idle"
    /\ Len(queue) >= QueueMax
    /\ refill' = [refill EXCEPT !["initial"] = Resting("initial")]
    /\ UNCHANGED <<running, rows, db, memory, guardVars>>

\* _recover_stuck_checking reads the ids first ...
RecoverSelect(r) ==
    LET stuck == {p \in rows : Stuck(db[p])} IN
    /\ refill[r].phase = "recover"
    /\ refill' = [refill EXCEPT ![r] =
                     [refill[r] EXCEPT
                        !.phase = IF stuck = {} THEN "fetch" ELSE "update",
                        !.stuck = stuck]]
    /\ UNCHANGED <<running, rows, db, memory, guardVars>>

\* Mutant: the session is closed without a commit.
RecoverUpdateUncommitted(r) ==
    /\ refill[r].phase = "update"
    /\ refill' = [refill EXCEPT ![r] =
                     [refill[r] EXCEPT !.phase = "fetch", !.stuck = {}]]
    /\ UNCHANGED <<running, rows, db, memory, guardVars>>

\* ... and then updates the rows with those ids, whatever they hold by now.
RecoverUpdate(r) ==
    /\ refill[r].phase = "update"
    /\ db' = [p \in Proxy |-> IF p \in rows \cap refill[r].stuck
                                 THEN Recovered(db[p]) ELSE db[p]]
    /\ refill' = [refill EXCEPT ![r] =
                     [refill[r] EXCEPT !.phase = "fetch", !.stuck = {}]]
    /\ UNCHANGED <<running, rows, memory, guardVars>>

\* Mutant: the rows of the HEALTHY tier are not filtered on last_checked.
FetchBatchUnfiltered(r) ==
    LET candidates == {p \in rows \ refill[r].exclude :
                          Eligible(db[p]) \/ db[p].status = "HEALTHY"} IN
    /\ refill[r].phase = "fetch"
    /\ IF running
          THEN \E ids \in SUBSET candidates :
                 /\ Cardinality(ids) <= refill[r].batch
                 /\ ids = {} => candidates = {}
                 /\ refill' = [refill EXCEPT ![r] = Selected(ids)]
          ELSE refill' = [refill EXCEPT ![r] = Resting(r)]
    /\ UNCHANGED <<running, rows, db, memory, guardVars>>

\* _fetch_queue_batch_ids: some of the eligible rows that were not reserved
\* when the refill started, at least one if there is one.  Which ones the
\* tiers, the providers and the shuffle decide.
FetchBatch(r) ==
    LET candidates == {p \in rows \ refill[r].exclude : Eligible(db[p])} IN
    /\ refill[r].phase = "fetch"
    /\ IF running
          THEN \E ids \in SUBSET candidates :
                 /\ Cardinality(ids) <= refill[r].batch
                 /\ ids = {} => candidates = {}
                 /\ refill' = [refill EXCEPT ![r] = Selected(ids)]
          ELSE refill' = [refill EXCEPT ![r] = Resting(r)]
    /\ UNCHANGED <<running, rows, db, memory, guardVars>>

\* Mutant: the reservations are not consulted again after the selection.
OfferProxiesBlindly(r) ==
    LET slots == QueueMax - Len(queue) IN
    /\ running
    /\ refill[r].phase = "offer"
    /\ \E n \in 0..slots : \E added \in [1..n -> refill[r].ids] :
         LET ids == {added[i] : i \in 1..n} IN
         /\ \A i, j \in 1..n : added[i] = added[j] => i = j
         /\ n = slots \/ ids = refill[r].ids
         /\ queue' = queue \o added
         /\ reserved' = reserved \cup ids
    /\ refill' = [refill EXCEPT ![r] = Resting(r)]
    /\ UNCHANGED <<running, rows, db, pc, held, target, outcome, guardVars>>

\* Mutant: the batch limit alone bounds what is queued.
OfferProxiesUnbounded(r) ==
    LET fresh == refill[r].ids \ reserved IN
    /\ running
    /\ refill[r].phase = "offer"
    /\ \E added \in [1..Cardinality(fresh) -> fresh] :
         /\ {added[i] : i \in 1..Cardinality(fresh)} = fresh
         /\ queue' = queue \o added
    /\ reserved' = reserved \cup fresh
    /\ refill' = [refill EXCEPT ![r] = Resting(r)]
    /\ UNCHANGED <<running, rows, db, pc, held, target, outcome, guardVars>>

\* offer_proxies, one uninterrupted loop over the selection: an id that is
\* reserved is passed over, the rest is queued until the queue is full.
OfferProxies(r) ==
    LET fresh == refill[r].ids \ reserved
        slots == QueueMax - Len(queue)
    IN
    /\ running
    /\ refill[r].phase = "offer"
    /\ \E n \in 0..slots : \E added \in [1..n -> fresh] :
         LET ids == {added[i] : i \in 1..n} IN
         /\ \A i, j \in 1..n : added[i] = added[j] => i = j
         /\ n = slots \/ ids = fresh
         /\ queue' = queue \o added
         /\ reserved' = reserved \cup ids
    /\ refill' = [refill EXCEPT ![r] = Resting(r)]
    /\ UNCHANGED <<running, rows, db, pc, held, target, outcome, guardVars>>

\* The thread raises.  Nothing on the way up to the task catches it, and
\* nothing restarts a task that ended: no refill follows until the process is
\* restarted.  After shutdown nobody waits for the thread any longer.
RefillFails ==
    /\ "refill_error" \in Environment
    /\ refill["loop"].phase \in {"recover", "update", "fetch"}
    /\ refill' = [refill EXCEPT !["loop"] =
                     RefillAt(IF running THEN "dead" ELSE "idle")]
    /\ UNCHANGED <<running, rows, db, memory, guardVars>>

-----------------------------------------------------------------------------
(* Start-up and shutdown.                                                  *)

\* sync_sources_from_config commits the flags of sources.json as it is now: the
\* rows in "enabled" are those with an enabled source afterwards.
Relinked(enabled) ==
    [p \in Proxy |-> IF p \in rows THEN WithLink(db[p], p \in enabled) ELSE db[p]]

\* First step of _run_initial_cycle; the refill loop is running already.
SyncSources ==
    /\ running
    /\ refill["initial"].phase = "sync"
    /\ \E enabled \in IF "resync" \in Environment
                         THEN SUBSET rows
                         ELSE {{p \in rows : db[p].linked}} :
         db' = Relinked(enabled)
    /\ refill' = [refill EXCEPT !["initial"] = RefillAt("idle")]
    /\ UNCHANGED <<running, rows, memory, guardVars>>

\* The tasks are cancelled, the queue and the reservations are dropped.  A
\* database call already running in its thread goes on; one still waiting for
\* a thread is dropped.
Shutdown ==
    /\ running' = FALSE
    /\ queue' = <<>>
    /\ reserved' = {}
    /\ \E orphans \in SUBSET {w \in Worker : pc[w] \notin {"idle", "probe"}} :
         /\ pc' = [w \in Worker |-> IF w \in orphans THEN pc[w] ELSE "idle"]
         /\ held' = [w \in Worker |->
                        IF w \in orphans THEN held[w] ELSE NoProxy]
         /\ target' = [w \in Worker |->
                          IF w \in orphans THEN target[w] ELSE NewRow]
         /\ outcome' = [w \in Worker |->
                           IF w \in orphans THEN outcome[w] ELSE "none"]
    /\ refill' = [r \in Refiller |->
                     IF r = "loop" /\ refill[r].phase \in {"recover", "update"}
                        THEN refill[r] ELSE Resting(r)]
    /\ probe' = "none"
    /\ UNCHANGED <<rows, db, net, available>>

\* scheduler.stop, which the application calls only after start has returned.
Stop ==
    /\ "stop" \in Environment
    /\ running
    /\ refill["initial"].phase = "done"
    /\ Shutdown

\* The initial cycle raises out of scheduler.start: the application does not
\* come up, its tasks are cancelled and its threads joined.
StartFails ==
    /\ "refill_error" \in Environment
    /\ running
    /\ refill["initial"].phase \in {"sync", "recover", "update", "fetch"}
    /\ Shutdown

\* The process dies, its threads with it; a transaction is durable or absent.
Crash ==
    /\ "crash" \in Environment
    /\ running' = FALSE
    /\ queue' = <<>>
    /\ reserved' = {}
    /\ pc' = [w \in Worker |-> "idle"]
    /\ held' = [w \in Worker |-> NoProxy]
    /\ target' = [w \in Worker |-> NewRow]
    /\ outcome' = [w \in Worker |-> "none"]
    /\ refill' = [r \in Refiller |-> Resting(r)]
    /\ probe' = "none"
    /\ UNCHANGED <<rows, db, net, available>>

\* A new process: CheckerJob.start after the guard's first probe, then the
\* loop and the initial cycle.  The old process has joined its threads.
Start ==
    /\ ~running
    /\ \A w \in Worker : pc[w] = "idle"
    /\ refill["loop"].phase = "idle"
    /\ running' = TRUE
    /\ refill' = [refill EXCEPT !["initial"] =
                     RefillAt(IF Initial THEN "sync" ELSE "done")]
    /\ available' = net
    /\ UNCHANGED <<rows, db, memory, net, probe>>

-----------------------------------------------------------------------------
(* The world around the job.                                               *)

Held == {held[w] : w \in {v \in Worker : pc[v] # "idle"}}

\* The collector commits an endpoint it found: a new row, or a link from an
\* enabled source for a row that had none.
Collect(p) ==
    /\ "collect" \in Environment
    /\ rows' = rows \cup {p}
    /\ \/ p \notin rows /\ db' = [db EXCEPT ![p] = NewRow]
       \/ /\ p \in rows /\ ~db[p].linked
          /\ db' = [db EXCEPT ![p] = WithLink(db[p], TRUE)]
    /\ UNCHANGED <<running, memory, refill, guardVars>>

\* The same call at the start of a collection cycle: at any time, and in a
\* thread that may outlive the process's shutdown.
ResyncSources ==
    /\ "resync" \in Environment
    /\ \E enabled \in SUBSET rows : db' = Relinked(enabled)
    /\ UNCHANGED <<running, rows, memory, refill, guardVars>>

\* The score job or the collector updates a row under check: updated_at moves.
Touch(p) ==
    /\ "touch" \in Environment
    /\ db[p].stale
    /\ db' = [db EXCEPT ![p] = Touched(db[p])]
    /\ UNCHANGED <<running, rows, memory, refill, guardVars>>

\* 3 * check_timeout passes over a CHECKING row.  While the check is still
\* going on this takes a probe or a transaction that is slower than that.
StuckTimeout(p) ==
    /\ p \in rows
    /\ db[p].status = "CHECKING" /\ ~db[p].stale
    /\ p \in Held => "slow" \in Environment
    /\ db' = [db EXCEPT ![p] = TimedOut(db[p])]
    /\ UNCHANGED <<running, rows, memory, refill, guardVars>>

CooldownEnds(p) ==
    /\ p \in rows /\ db[p].cooldown = "running"
    /\ db' = [db EXCEPT ![p] = CooledDown(db[p])]
    /\ UNCHANGED <<running, rows, memory, refill, guardVars>>

RecheckDue(p) ==
    /\ p \in rows /\ db[p].status = "HEALTHY" /\ ~db[p].due
    /\ db' = [db EXCEPT ![p] = BecameDue(db[p])]
    /\ UNCHANGED <<running, rows, memory, refill, guardVars>>

Connectivity ==
    /\ \/ "outage" \in Environment /\ NetChanges
       \/ running /\ GuardStep
    /\ UNCHANGED <<running, rows, db, memory, refill>>

-----------------------------------------------------------------------------
\* What the event loop and the database threads do for a worker in bounded
\* time.
TimelyStep(w) ==
    \/ TakeProxy(w) \/ SkipProxy(w)
    \/ MarkChecking(w)
    \/ RevertCheck(w) \/ PersistResult(w)

WorkerStep(w) == TimelyStep(w) \/ \E result \in Outcome : ProbeDone(w, result)

RefillStep(r) ==
    \/ RefillStart(r)
    \/ RecoverSelect(r) \/ RecoverUpdate(r) \/ FetchBatch(r)
    \/ OfferProxies(r)

Time(p) == StuckTimeout(p) \/ CooldownEnds(p) \/ RecheckDue(p)

Next ==
    \/ \E w \in Worker : WorkerStep(w) \/ WorkerFails(w)
    \/ \E r \in Refiller : RefillStep(r)
    \/ RefillNoRoom \/ RefillFails \/ SyncSources
    \/ Stop \/ StartFails \/ Crash \/ Start
    \/ \E p \in Proxy : Collect(p) \/ Touch(p) \/ Time(p)
    \/ ResyncSources
    \/ Connectivity

Spec == Init /\ [][Next]_vars

\* The event loop runs every task that can run, threads end, time passes and
\* the guard's task keeps probing.  Nothing obliges the environment to act, nor a
\* probe to return: nothing bounds how long a proxy takes over the body of an
\* HTTP response.
Fairness ==
    /\ \A w \in Worker : WF_vars(TimelyStep(w))
    /\ \A r \in Refiller : WF_vars(RefillStep(r))
    /\ WF_vars(RefillNoRoom) /\ WF_vars(SyncSources) /\ WF_vars(Start)
    /\ \A p \in Proxy : WF_vars(Time(p))
    /\ WF_vars(running /\ GuardStep /\ Connectivity)

FairSpec == Spec /\ Fairness

-----------------------------------------------------------------------------
(* Properties.                                                             *)

Queued == {queue[i] : i \in 1..Len(queue)}

\* While the job runs, an id is reserved exactly if it waits in the queue or a
\* worker is handling it: no reservation leaks, which would exclude its proxy
\* from checking for good, and none ends early (_offer_proxy, _worker,
\* _drain_queue).
ReservationsExact == running => reserved = Queued \cup Held

\* No id waits twice, none waits while it is being handled, and no two workers
\* handle the same id, although refills offer selections that are out of date
\* by the time they are offered.
OneCheckPerProxy ==
    /\ \A i, j \in 1..Len(queue) : queue[i] = queue[j] => i = j
    /\ Queued \cap Held = {}
    /\ \A v, w \in Worker : pc[v] # "idle" /\ pc[w] # "idle"
                            /\ held[v] = held[w] => v = w

\* The queue never outgrows checker_queue_max_size.
QueueBounded == Len(queue) <= QueueMax

\* Every stored row tells one story (see Coherent), through crashes, failing
\* steps, recoveries of a row whose check is going on, and rows removed and
\* collected again.
RowsCoherent == \A p \in Proxy : Coherent(db[p])

\* A row disappears only after FailureThreshold + RemovalThreshold - 1
\* consecutive failures, the last one being recorded by this step: no
\* interleaving of checks, reverts and recoveries counts a dead mark twice.
RemovalEarned ==
    [][\A p \in rows \ rows' :
         db[p].failures + 1 >= FailureThreshold + RemovalThreshold - 1]_vars

\* A check discarded for lack of connectivity leaves the row as it found it,
\* whatever recoveries, restarts and clocks did to the row in the meantime
\* (_mark_checking, _revert_check).
InconclusiveRestores ==
    [][\A w \in Worker :
         LET row == db'[held[w]] IN
         RevertCheck(w) /\ db' # db
           => /\ row.status = target[w].status
              /\ row.failures = target[w].failures
              /\ row.marks = target[w].marks
              /\ row.level = target[w].level]_vars

-----------------------------------------------------------------------------
(* The inductive strengthening of the invariants above.                    *)

\* A handler holds an id exactly while it is under way, has a result when it
\* persists, and does not probe after shutdown.
HandlerState ==
    \A w \in Worker :
        /\ pc[w] = "idle" <=> held[w] = NoProxy
        /\ pc[w] = "persist" => outcome[w] \in Outcome
        /\ pc[w] = "probe" => running

\* Shutdown leaves neither queued ids nor reservations.
NothingPending == ~running => queue = <<>> /\ reserved = {}

\* From the mark to the outcome a row is the handler's own: it is not removed
\* and its counters are those the mark saw.
CheckOwnsRow ==
    \A w \in Worker : pc[w] \in {"probe", "revert", "persist"} =>
        LET row == db[held[w]] IN
        /\ held[w] \in rows
        /\ Coherent(target[w])
        /\ row.failures = target[w].failures
        /\ row.marks = target[w].marks

AdmissionInv ==
    /\ TypeOK /\ HandlerState
    /\ NothingPending /\ ReservationsExact
    /\ OneCheckPerProxy /\ QueueBounded

InductiveInv == AdmissionInv /\ RowsCoherent /\ CheckOwnsRow

-----------------------------------------------------------------------------
(* Properties of the instances that leave out some of the environment.     *)

\* What the API may serve: pool.py's usable statuses, outside cooldown.
Usable(row) == row.status \in {"HEALTHY", "DEGRADED"} /\ OutsideCooldown(row)

\* As long as no step fails and the process is not stopped, a row is CHECKING
\* only while a worker is between marking it and writing its outcome: no path
\* through the handler returns and leaves the row behind (_check_proxy).
CheckingHasOwner ==
    \A p \in rows : db[p].status = "CHECKING" =>
        \E w \in Worker : held[w] = p /\ pc[w] \in {"probe", "revert", "persist"}

\* A proxy that asked for credentials is never checked again: DISABLED is left
\* only by removal of the row.  (True without the start-up refill and probes
\* slower than 3 * check_timeout.)
DisabledStays ==
    [][\A p \in rows \cap rows' :
         db[p].status = "DISABLED" => db'[p].status = "DISABLED"]_vars

\* A check starts only on a row that the table in docs/architecture.md
\* ("Checker queue fairness") makes eligible at that moment, although the
\* selection was made at the start of the refill and the row then waited in
\* the queue.  (True without the start-up refill, see the README.)
ChecksOnlyEligible ==
    [][\A w \in Worker :
         pc[w] = "mark" /\ pc'[w] = "probe" => Eligible(db[held[w]])]_vars

\* A proxy that failed FailureThreshold times in a row is not served: it is
\* DEAD, or CHECKING, or gone.  (True without failing steps, restarts and probes
\* slower than 3 * check_timeout, that is, with nothing to recover.)
ServedBelowThreshold ==
    \A p \in rows : Usable(db[p]) => db[p].failures < FailureThreshold

-----------------------------------------------------------------------------
(* Liveness, under FairSpec.                                               *)

Probing(p) == \E w \in Worker : pc[w] = "probe" /\ held[w] = p
AllProbing == \A w \in Worker : pc[w] = "probe"

\* No row stays CHECKING for good, also when workers keep failing, the process
\* dies or a probe never returns: its check ends, or a later refill recovers it.
\* Three things can prevent that, and no other: in the end every worker is in a
\* probe that does not return and the queue is full, so that refill_queue
\* returns before its recovery; the loop that refills has died; or the process
\* is started again and again.
CheckEnds ==
    \/ \A p \in Proxy : (p \in rows /\ db[p].status = "CHECKING")
                          ~> ~(p \in rows /\ db[p].status = "CHECKING")
    \/ <>[](AllProbing /\ Len(queue) >= QueueMax)
    \/ <>[](refill["loop"].phase = "dead")
    \/ []<>~running

\* No proxy is locked out of later refills by a reservation that stays, unless
\* its own probe never returns, or those of all workers do not, so that nobody
\* takes it from the queue.  A refill loop that died makes no difference.
ReservationEnds ==
    \A p \in Proxy : \/ p \in reserved ~> p \notin reserved
                     \/ <>[]Probing(p)
                     \/ <>[]AllProbing

\* The cached state follows the network once the network settles, with probes
\* that were in flight when it changed.
OutageNoticed == (<>[]~net => <>[]~available) /\ (<>[]net => <>[]available)

-----------------------------------------------------------------------------
(* The job implements the promise of CheckAdmission.                       *)

Admission ==
    INSTANCE CheckAdmission
    WITH phase <- [p \in Proxy |-> IF p \in Held THEN "checking"
                                   ELSE IF p \in Queued THEN "waiting"
                                   ELSE "free"]

\* Whatever refills, workers, shutdowns and crashes do, a proxy is admitted
\* only when free, checked only after waiting, and never twice at once.
AdmissionKept == Admission!AdmissionSpec
=============================================================================
