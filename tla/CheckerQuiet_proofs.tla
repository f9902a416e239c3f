------------------------ MODULE CheckerQuiet_proofs -------------------------
(***************************************************************************)
(* Proofs about CheckerJob where the environment is restricted: which      *)
(* events each property rules out, and that it then holds for every set of *)
(* proxies and workers, every size and every threshold.                    *)
(***************************************************************************)
EXTENDS CheckerJob_proofs

\* No step of a handler fails, and the process neither stops nor dies; with a
\* start-up refill, that refill does not fail either.
StepsSucceed ==
    /\ Environment \cap {"error", "crash", "stop"} = {}
    /\ Initial => "refill_error" \notin Environment

\* No probe or transaction outlasts 3 * check_timeout.
ProbesInTime == "slow" \notin Environment

\* The phases of a handler from its mark to its outcome.
Owning == {"probe", "revert", "persist"}

\* The status that each write of the checker gives a row.
LEMMA StatusWrites ==
    ASSUME NEW row \in Row
    PROVE  /\ MarkedChecking(row).status = "CHECKING"
           /\ \A s \in Status : Reverted(row, s).status = s
           /\ Recovered(row).status = "DEGRADED"
           /\ \A o \in Outcome :
                 Applied(row, o).status \in {"HEALTHY", "DEGRADED", "DEAD", "DISABLED"}
<1> USE DEF Row
<1>1. /\ RequiresAuth(row).status = "DISABLED" /\ Succeeded(row).status = "HEALTHY"
      /\ Degraded(row).status = "DEGRADED" /\ DeadMarked(row).status = "DEAD"
  BY DEF RequiresAuth, Succeeded, Degraded, DeadMarked
<1>2. \A o \in Outcome :
         Applied(row, o).status \in {"HEALTHY", "DEGRADED", "DEAD", "DISABLED"}
  BY <1>1 DEF Applied, Outcome
<1>3. QED
  BY <1>2 DEF MarkedChecking, Reverted, Recovered

\* With the refill loop alone, the start-up cycle never refills.
StartupDone == ~Initial => refill["initial"].phase = "done"

LEMMA StartupStep ==
    ASSUME TypeOK, StartupDone, [Next]_vars
    PROVE  StartupDone'
<1> SUFFICES ASSUME ~Initial PROVE refill'["initial"].phase = "done"
  BY DEF StartupDone
<1>0. /\ refill["initial"].phase = "done" /\ DOMAIN refill = Refiller
      /\ "initial" \in Refiller /\ "loop" \in Refiller
  BY DEF StartupDone, TypeOK, Refiller
<1>1. ASSUME NEW r \in Refiller, RefillStep(r)
      PROVE  refill'["initial"].phase = "done"
  <2>1. r # "initial"
    BY <1>0, <1>1 DEF RefillStep, RefillStart, RecoverSelect, RecoverUpdate, FetchBatch,
                      OfferProxies
  <2>2. refill'["initial"] = refill["initial"]
    BY <1>0, <1>1, <2>1 DEF RefillStep, RefillStart, RecoverSelect, RecoverUpdate,
                            FetchBatch, OfferProxies
  <2>3. QED
    BY <1>0, <2>2
<1>2. RefillFails => refill'["initial"].phase = "done"
  BY <1>0 DEF RefillFails
<1>3. ~RefillNoRoom /\ ~SyncSources
  BY <1>0 DEF RefillNoRoom, SyncSources
<1>4. Shutdown \/ Crash => refill'["initial"].phase = "done"
  BY <1>0 DEF Shutdown, Crash, Resting, RefillAt
<1>5. Start => refill'["initial"].phase = "done"
  BY <1>0 DEF Start, RefillAt
<1>6. ASSUME NEW w \in Worker, WorkerStep(w) \/ WorkerFails(w)
      PROVE  refill' = refill
  BY <1>6 DEF WorkerStep, TimelyStep, WorkerFails, TakeProxy, SkipProxy, MarkChecking, ProbeDone,
              RevertCheck, PersistResult
<1>7. (\E p \in Proxy : Collect(p) \/ Touch(p) \/ Time(p)) \/ ResyncSources
        \/ Connectivity \/ UNCHANGED vars => refill' = refill
  BY DEF Collect, Touch, Time, StuckTimeout, CooldownEnds, RecheckDue, ResyncSources,
         Connectivity, vars
<1>8. QED
  BY <1>0, <1>1, <1>2, <1>3, <1>4, <1>5, <1>6, <1>7 DEF Next, Stop, StartFails
-----------------------------------------------------------------------------
(* A row that is CHECKING has a check.                                     *)

\* The status a check reverts to is not CHECKING: the row it marked had no other
\* check, and without one no row is CHECKING.
OwnerInv ==
    /\ running
    /\ StartupDone
    /\ CheckingHasOwner
    /\ \A w \in Worker : pc[w] \in Owning => target[w].status # "CHECKING"

\* A worker's step leaves the checks of the others alone.
LEMMA OwnersKept ==
    ASSUME InductiveInv, OwnerInv, NEW w \in Worker,
           \A v \in Worker \ {w} :
              pc'[v] = pc[v] /\ held'[v] = held[v] /\ target'[v] = target[v],
           rows' \subseteq rows,
           \A q \in Proxy \ {held[w]} : db'[q] = db[q],
           held[w] \in rows' /\ db'[held[w]].status = "CHECKING"
              => held'[w] = held[w] /\ pc'[w] \in Owning,
           pc'[w] \in Owning => target'[w].status # "CHECKING"
    PROVE  /\ CheckingHasOwner'
           /\ \A v \in Worker : pc'[v] \in Owning => target'[v].status # "CHECKING"
<1>0. rows \subseteq Proxy
  BY DEF InductiveInv, AdmissionInv, TypeOK
<1>1. ASSUME NEW p \in rows', db'[p].status = "CHECKING"
      PROVE  \E v \in Worker : held'[v] = p /\ pc'[v] \in Owning
  <2>1. CASE p = held[w]
    BY <1>1, <2>1
  <2>2. CASE p # held[w]
    <3>1. p \in rows /\ db[p].status = "CHECKING"
      BY <1>0, <1>1, <2>2
    <3>2. PICK v \in Worker : held[v] = p /\ pc[v] \in Owning
      BY <3>1 DEF OwnerInv, CheckingHasOwner, Owning
    <3>3. QED
      BY <2>2, <3>2
  <2>3. QED
    BY <2>1, <2>2
<1>2. \A v \in Worker : pc'[v] \in Owning => target'[v].status # "CHECKING"
  BY DEF OwnerInv
<1>3. QED
  BY <1>1, <1>2 DEF CheckingHasOwner, Owning

\* What a worker's step writes: only the row it holds, and of the handlers'
\* variables only its own.
LEMMA WorkerWrites ==
    ASSUME InductiveInv, NEW w \in Worker, WorkerStep(w) \/ WorkerFails(w)
    PROVE  /\ \A v \in Worker \ {w} :
                 pc'[v] = pc[v] /\ held'[v] = held[v] /\ target'[v] = target[v]
           /\ rows' \subseteq rows
           /\ \A q \in Proxy \ {held[w]} : db'[q] = db[q] /\ (q \in rows => q \in rows')
           /\ running' = running /\ refill' = refill
<1>1. /\ pc \in [Worker -> WorkerPhase] /\ db \in [Proxy -> Row]
      /\ held \in [Worker -> Proxy \cup {NoProxy}] /\ target \in [Worker -> Row]
  BY DEF InductiveInv, AdmissionInv, TypeOK
<1>2. Release(w) => \A v \in Worker \ {w} :
                 pc'[v] = pc[v] /\ held'[v] = held[v] /\ target'[v] = target[v]
  BY <1>1 DEF Release
<1>3. CASE TakeProxy(w) \/ SkipProxy(w) \/ WorkerFails(w)
  BY <1>1, <1>2, <1>3 DEF TakeProxy, SkipProxy, WorkerFails
<1>4. CASE MarkChecking(w)
  BY <1>1, <1>2, <1>4 DEF MarkChecking
<1>5. CASE \E result \in Outcome : ProbeDone(w, result)
  BY <1>1, <1>5 DEF ProbeDone
<1>6. CASE RevertCheck(w)
  BY <1>1, <1>2, <1>6 DEF RevertCheck
<1>7. CASE PersistResult(w)
  BY <1>1, <1>2, <1>7 DEF PersistResult
<1>8. QED
  BY <1>3, <1>4, <1>5, <1>6, <1>7 DEF WorkerStep, TimelyStep

LEMMA WorkerOwners ==
    ASSUME InductiveInv, OwnerInv, StepsSucceed, NEW w \in Worker,
           WorkerStep(w) \/ WorkerFails(w)
    PROVE  /\ CheckingHasOwner'
           /\ \A v \in Worker : pc'[v] \in Owning => target'[v].status # "CHECKING"
<1> DEFINE p == held[w]
<1>1. /\ pc \in [Worker -> WorkerPhase] /\ db \in [Proxy -> Row]
      /\ held \in [Worker -> Proxy \cup {NoProxy}] /\ target \in [Worker -> Row]
      /\ rows \subseteq Proxy /\ rows' \subseteq rows /\ NoProxy \notin Proxy
  BY WorkerWrites, JobAssumption DEF InductiveInv, AdmissionInv, TypeOK
<1>2. /\ p \in rows' /\ db'[p].status = "CHECKING" => held'[w] = p /\ pc'[w] \in Owning
      /\ pc'[w] \in Owning => target'[w].status # "CHECKING"
  <2>1. CASE TakeProxy(w) \/ SkipProxy(w)
    <3>1. pc[w] = "idle" /\ p = NoProxy
      BY <2>1 DEF TakeProxy, SkipProxy, InductiveInv, AdmissionInv, HandlerState
    <3>2. pc'[w] \notin Owning
      BY <1>1, <2>1, <3>1 DEF TakeProxy, SkipProxy, Owning
    <3>3. QED
      BY <1>1, <3>1, <3>2
  <2>2. CASE MarkChecking(w)
    <3>1. CASE p \in rows /\ db[p].linked
      <4>1. /\ pc'[w] = "probe" /\ target'[w] = db[p] /\ held'[w] = p
        BY <1>1, <2>2, <3>1 DEF MarkChecking, OwnerInv
      <4>2. db[p].status # "CHECKING"
        BY <1>1, <2>2, <3>1 DEF OwnerInv, CheckingHasOwner, MarkChecking, InductiveInv,
                                AdmissionInv, OneCheckPerProxy
      <4>3. QED
        BY <4>1, <4>2 DEF Owning
    <3>2. CASE ~(p \in rows /\ db[p].linked)
      <4>1. rows' = rows /\ db' = db /\ pc'[w] = "idle"
        BY <1>1, <2>2, <3>2 DEF MarkChecking, Release
      <4>2. p \in rows => db[p].status # "CHECKING"
        BY <1>1, <2>2, <3>2 DEF OwnerInv, CheckingHasOwner, MarkChecking, InductiveInv,
                                AdmissionInv, OneCheckPerProxy
      <4>3. QED
        BY <4>1, <4>2 DEF Owning
    <3>3. QED
      BY <3>1, <3>2
  <2>3. ASSUME NEW result \in Outcome, ProbeDone(w, result)
        PROVE  /\ held'[w] = p /\ pc'[w] \in Owning
               /\ target'[w].status # "CHECKING"
    BY <1>1, <2>3 DEF ProbeDone, OwnerInv, Owning
  <2>4. CASE RevertCheck(w)
    <3>1. /\ pc'[w] = "idle" /\ target[w].status # "CHECKING" /\ target[w].status \in Status
          /\ p \in rows /\ db[p] \in Row
      BY <1>1, <2>4 DEF RevertCheck, Release, OwnerInv, Owning, InductiveInv, CheckOwnsRow, Row
    <3>2. db'[p] = Reverted(db[p], target[w].status)
      BY <1>1, <2>4, <3>1 DEF RevertCheck
    <3>3. QED
      BY <3>1, <3>2, StatusWrites DEF Owning
  <2>5. CASE PersistResult(w)
    <3>1. /\ pc'[w] = "idle" /\ p \in rows /\ db[p] \in Row /\ outcome[w] \in Outcome
      BY <1>1, <2>5 DEF PersistResult, Release, InductiveInv, CheckOwnsRow, AdmissionInv,
                        HandlerState
    <3>2. CASE Removes(db[p], outcome[w])
      BY <2>5, <3>1, <3>2 DEF PersistResult, Owning
    <3>3. CASE ~Removes(db[p], outcome[w])
      <4>1. db'[p] = Applied(db[p], outcome[w])
        BY <1>1, <2>5, <3>1, <3>3 DEF PersistResult
      <4>2. QED
        BY <3>1, <4>1, StatusWrites DEF Owning
    <3>4. QED
      BY <3>2, <3>3
  <2>6. ~WorkerFails(w)
    BY DEF WorkerFails, StepsSucceed
  <2>7. QED
    BY <2>1, <2>2, <2>3, <2>4, <2>5, <2>6 DEF WorkerStep, TimelyStep
<1>3. QED
  BY <1>1, <1>2, OwnersKept, WorkerWrites

\* Nobody but the handlers marks a row.
LEMMA OthersMarkNothing ==
    ASSUME InductiveInv,
           \/ \E r \in Refiller : RefillStep(r)
           \/ RefillNoRoom \/ RefillFails \/ SyncSources \/ ResyncSources
           \/ \E p \in Proxy : Collect(p) \/ Touch(p) \/ Time(p)
           \/ Connectivity \/ UNCHANGED vars
    PROVE  /\ UNCHANGED <<running, pc, held, target>>
           /\ rows \subseteq rows' /\ rows' \subseteq Proxy
           /\ \A q \in Proxy :
                 \/ db'[q] = db[q] /\ (q \in rows' => q \in rows)
                 \/ db'[q] = Touched(db[q]) /\ (q \in rows' => q \in rows)
                 \/ q \notin rows /\ db'[q] = NewRow
                 \/ q \in rows /\ db'[q] \in
                       {BecameDue(db[q]), CooledDown(db[q]),
                        WithLink(db[q], TRUE), WithLink(db[q], FALSE)}
                 \/ /\ q \in rows /\ db'[q] = TimedOut(db[q])
                    /\ db[q].status = "CHECKING" /\ (q \in Held => ~ProbesInTime)
                 \/ /\ q \in rows /\ db'[q] = Recovered(db[q])
                    /\ \E r \in Refiller : RecoverUpdate(r) /\ q \in refill[r].stuck
<1>0. db \in [Proxy -> Row] /\ rows \subseteq Proxy
  BY DEF InductiveInv, AdmissionInv, TypeOK
<1>1. ASSUME NEW r \in Refiller, RecoverUpdate(r)
      PROVE  /\ UNCHANGED <<running, pc, held, target, rows>>
             /\ \A q \in Proxy : db'[q] = IF q \in rows \cap refill[r].stuck
                                            THEN Recovered(db[q]) ELSE db[q]
  BY <1>1 DEF RecoverUpdate, memory
<1>2. ASSUME NEW r \in Refiller, RefillStep(r), ~RecoverUpdate(r)
      PROVE  UNCHANGED <<running, pc, held, target, rows, db>>
  BY <1>2 DEF RefillStep, RefillStart, RecoverSelect, FetchBatch, OfferProxies, memory
<1>3. RefillNoRoom \/ RefillFails \/ Connectivity \/ UNCHANGED vars
        => UNCHANGED <<running, pc, held, target, rows, db>>
  BY DEF RefillNoRoom, RefillFails, Connectivity, vars, memory
<1>4. CASE SyncSources \/ ResyncSources
  <2>1. UNCHANGED <<running, pc, held, target, rows>>
    BY <1>4 DEF SyncSources, ResyncSources, memory
  <2>2. PICK enabled : db' = Relinked(enabled)
    BY <1>4, SyncWrites, Zenon
  <2>3. ASSUME NEW q \in Proxy
        PROVE  \/ q \notin rows /\ db'[q] = db[q]
               \/ q \in rows /\ db'[q] \in {WithLink(db[q], TRUE), WithLink(db[q], FALSE)}
    <3>1. db'[q] = IF q \in rows THEN WithLink(db[q], q \in enabled) ELSE db[q]
      BY <2>2 DEF Relinked
    <3>2. CASE q \in enabled
      <4>1. (q \in enabled) = TRUE
        BY <3>2
      <4>2. QED
        BY <3>1, <4>1, Zenon
    <3>3. CASE q \notin enabled
      <4>1. (q \in enabled) = FALSE
        BY <3>3
      <4>2. QED
        BY <3>1, <4>1, Zenon
    <3>4. QED
      BY <3>2, <3>3
  <2>4. QED
    BY <1>0, <2>1, <2>3
<1>5. ASSUME NEW p \in Proxy, Collect(p) \/ Touch(p) \/ Time(p)
      PROVE  /\ UNCHANGED <<running, pc, held, target>>
             /\ rows \subseteq rows' /\ rows' \subseteq Proxy
             /\ \A q \in Proxy \ {p} : db'[q] = db[q] /\ (q \in rows' => q \in rows)
             /\ \/ p \notin rows /\ db'[p] = NewRow
                \/ db'[p] = Touched(db[p]) /\ rows' = rows
                \/ p \in rows /\ db'[p] \in {BecameDue(db[p]), CooledDown(db[p]),
                                             WithLink(db[p], TRUE)}
                \/ /\ p \in rows /\ db'[p] = TimedOut(db[p])
                   /\ db[p].status = "CHECKING" /\ (p \in Held => ~ProbesInTime)
  BY <1>0, <1>5 DEF Collect, Touch, Time, StuckTimeout, CooldownEnds, RecheckDue, memory,
                    ProbesInTime
<1>6. QED
  BY <1>0, <1>1, <1>2, <1>3, <1>4, <1>5

LEMMA OwnerInit == Init => OwnerInv
BY DEF Init, OwnerInv, StartupDone, RefillAt, CheckingHasOwner, NewRow, Owning, Refiller

LEMMA OwnerStep ==
    ASSUME InductiveInv, OwnerInv, StepsSucceed, [Next]_vars
    PROVE  OwnerInv'
<1>1. StartupDone'
  BY StartupStep DEF InductiveInv, AdmissionInv, OwnerInv
<1>2. ASSUME NEW w \in Worker, WorkerStep(w) \/ WorkerFails(w)
      PROVE  OwnerInv'
  BY <1>1, <1>2, WorkerOwners, WorkerWrites DEF OwnerInv
<1>3. ASSUME \/ \E r \in Refiller : RefillStep(r)
             \/ RefillNoRoom \/ RefillFails \/ SyncSources \/ ResyncSources
             \/ \E p \in Proxy : Collect(p) \/ Touch(p) \/ Time(p)
             \/ Connectivity \/ UNCHANGED vars
      PROVE  OwnerInv'
  <2>1. db \in [Proxy -> Row]
    BY DEF InductiveInv, AdmissionInv, TypeOK
  <2>2. UNCHANGED <<running, pc, held, target>> /\ rows' \subseteq Proxy
    BY <1>3, OthersMarkNothing
  <2>3. ASSUME NEW q \in rows', db'[q].status = "CHECKING"
        PROVE  q \in rows /\ db[q].status = "CHECKING"
    <3>1. q \in Proxy /\ db[q] \in Row
      BY <2>1, <2>2
    <3>2. NewRow.status # "CHECKING" /\ Recovered(db[q]).status # "CHECKING"
      BY <3>1, StatusWrites DEF NewRow
    <3>3. \A row \in {Touched(db[q]), BecameDue(db[q]), CooledDown(db[q]), TimedOut(db[q]),
                      WithLink(db[q], TRUE), WithLink(db[q], FALSE)} :
             row.status = db[q].status
      BY <3>1 DEF Row, Touched, BecameDue, CooledDown, TimedOut, WithLink
    <3>4. QED
      BY <1>3, <2>3, <3>1, <3>2, <3>3, OthersMarkNothing
  <2>4. CheckingHasOwner'
    BY <2>2, <2>3 DEF OwnerInv, CheckingHasOwner
  <2>5. QED
    BY <1>1, <2>2, <2>4 DEF OwnerInv
<1>4. ~Start /\ ~Stop /\ ~Crash
  BY DEF OwnerInv, Start, Stop, Crash, StepsSucceed
<1>5. ~StartFails
  BY DEF OwnerInv, StartupDone, StartFails, StepsSucceed
<1>6. QED
  BY <1>2, <1>3, <1>4, <1>5 DEF Next

\* As long as no step fails and the process neither stops nor dies, every row
\* that is CHECKING has a worker that will write its outcome: no path through
\* _check_proxy leaves a row behind, with two refills, slow probes, outages and
\* collections.
THEOREM CheckingAlwaysOwned ==
    ASSUME StepsSucceed
    PROVE  Spec => []CheckingHasOwner
<1>1. InductiveInv /\ OwnerInv /\ [Next]_vars => InductiveInv' /\ OwnerInv'
  BY RowsStep, OwnerStep
<1>2. OwnerInv => CheckingHasOwner
  BY DEF OwnerInv
<1>3. QED
  BY <1>1, <1>2, InitRows, OwnerInit, PTL DEF Spec

-----------------------------------------------------------------------------
(* A proxy that keeps failing is not served.                               *)

\* Without a recovery no row is served at or above the threshold.
Below(row) == row.status \in {"HEALTHY", "DEGRADED"} => row.failures < FailureThreshold

ServedInv ==
    /\ \A p \in Proxy : ~db[p].stale /\ Below(db[p])
    /\ \A w \in Worker : pc[w] \in Owning => Below(target[w])
    /\ \A r \in Refiller : refill[r].stuck = {}

\* A write keeps a row below the threshold, and lets no age show.
LEMMA BelowKept ==
    ASSUME NEW row \in Row, ~row.stale, Below(row), Coherent(row)
    PROVE  /\ Below(MarkedChecking(row)) /\ ~MarkedChecking(row).stale
           /\ \A s \in Status : ~Reverted(row, s).stale
           /\ \A o \in Outcome : ~Applied(row, o).stale /\ Below(Applied(row, o))
           /\ \A other \in {Touched(row), CooledDown(row), BecameDue(row),
                            WithLink(row, TRUE), WithLink(row, FALSE)} :
                 ~other.stale /\ Below(other)
           /\ ~NewRow.stale /\ Below(NewRow)
<1> USE ThresholdsAssumption DEF Row, Below
<1>1. Below(MarkedChecking(row)) /\ ~MarkedChecking(row).stale
  BY DEF MarkedChecking
<1>2. \A s \in Status : ~Reverted(row, s).stale
  BY DEF Reverted, Stuck
<1>3. /\ ~RequiresAuth(row).stale /\ Below(RequiresAuth(row))
      /\ ~Succeeded(row).stale /\ Below(Succeeded(row))
      /\ ~DeadMarked(row).stale /\ Below(DeadMarked(row))
      /\ ~Degraded(row).stale /\ (~ReachesDeadMark(row) => Below(Degraded(row)))
  BY DEF RequiresAuth, Succeeded, DeadMarked, Degraded, ReachesDeadMark
<1>4. \A o \in Outcome : ~Applied(row, o).stale /\ Below(Applied(row, o))
  BY <1>3 DEF Applied, Outcome
<1>5. \A other \in {Touched(row), CooledDown(row), BecameDue(row),
                    WithLink(row, TRUE), WithLink(row, FALSE)} :
         ~other.stale /\ Below(other)
  BY DEF Touched, CooledDown, BecameDue, WithLink
<1>6. ~NewRow.stale /\ Below(NewRow)
  BY DEF NewRow
<1>7. QED
  BY <1>1, <1>2, <1>4, <1>5, <1>6

\* A revert gives the row the status it had, with the counters it had.
LEMMA BelowReverted ==
    ASSUME NEW row \in Row, NEW was \in Row, Below(was), row.failures = was.failures
    PROVE  Below(Reverted(row, was.status))
BY DEF Row, Below, Reverted

LEMMA WorkerServes ==
    ASSUME InductiveInv, ServedInv, NEW w \in Worker, WorkerStep(w)
    PROVE  /\ \A p \in Proxy : ~db'[p].stale /\ Below(db'[p])
           /\ \A v \in Worker : pc'[v] \in Owning => Below(target'[v])
<1> DEFINE p == held[w]
<1>1. /\ pc \in [Worker -> WorkerPhase] /\ db \in [Proxy -> Row]
      /\ held \in [Worker -> Proxy \cup {NoProxy}] /\ target \in [Worker -> Row]
      /\ rows \subseteq Proxy /\ NoProxy \notin Proxy
      /\ \A q \in Proxy : Coherent(db[q])
  BY JobAssumption DEF InductiveInv, AdmissionInv, TypeOK, RowsCoherent
<1>2. /\ \A v \in Worker \ {w} : pc'[v] = pc[v] /\ target'[v] = target[v]
      /\ \A q \in Proxy \ {p} : db'[q] = db[q]
  BY WorkerWrites
<1>3. /\ p \in Proxy => ~db'[p].stale /\ Below(db'[p])
      /\ pc'[w] \in Owning => Below(target'[w])
  <2>1. CASE TakeProxy(w) \/ SkipProxy(w)
    <3>1. p = NoProxy /\ pc'[w] \notin Owning
      BY <1>1, <2>1 DEF TakeProxy, SkipProxy, InductiveInv, AdmissionInv, HandlerState, Owning
    <3>2. QED
      BY <1>1, <3>1
  <2>2. CASE MarkChecking(w)
    <3>1. CASE p \in rows /\ db[p].linked
      <4>1. db'[p] = MarkedChecking(db[p]) /\ (pc'[w] \in Owning => target'[w] = db[p])
        BY <1>1, <2>2, <3>1 DEF MarkChecking, Release, Owning
      <4>2. QED
        BY <1>1, <3>1, <4>1, BelowKept DEF ServedInv
    <3>2. CASE ~(p \in rows /\ db[p].linked)
      <4>1. db' = db /\ pc'[w] = "idle"
        BY <1>1, <2>2, <3>2 DEF MarkChecking, Release
      <4>2. QED
        BY <4>1 DEF ServedInv, Owning
    <3>3. QED
      BY <3>1, <3>2
  <2>3. CASE \E result \in Outcome : ProbeDone(w, result)
    BY <1>1, <2>3 DEF ProbeDone, ServedInv, Owning
  <2>4. CASE RevertCheck(w)
    <3>1. /\ pc'[w] = "idle" /\ p \in rows
          /\ target[w] \in Row /\ Below(target[w]) /\ target[w].status \in Status
          /\ db[p] \in Row /\ db[p].failures = target[w].failures
      BY <1>1, <2>4 DEF RevertCheck, Release, Owning, InductiveInv, CheckOwnsRow, ServedInv, Row
    <3>2. db'[p] = Reverted(db[p], target[w].status)
      BY <1>1, <2>4, <3>1 DEF RevertCheck
    <3>3. ~db'[p].stale
      BY <1>1, <3>1, <3>2, BelowKept DEF ServedInv
    <3>4. Below(db'[p])
      BY <3>1, <3>2, BelowReverted
    <3>5. QED
      BY <3>1, <3>3, <3>4 DEF Owning
  <2>5. CASE PersistResult(w)
    <3>1. /\ pc'[w] = "idle" /\ p \in rows /\ p \in Proxy /\ outcome[w] \in Outcome
      BY <1>1, <2>5 DEF PersistResult, Release, InductiveInv, CheckOwnsRow, AdmissionInv,
                        HandlerState
    <3>2. db'[p] \in {NewRow, Applied(db[p], outcome[w])}
      BY <1>1, <2>5, <3>1 DEF PersistResult
    <3>a. db[p] \in Row /\ ~db[p].stale /\ Below(db[p]) /\ Coherent(db[p])
      BY <1>1, <3>1 DEF ServedInv
    <3>3. ~db'[p].stale /\ Below(db'[p])
      BY <3>a, <3>1, <3>2, BelowKept
    <3>4. QED
      BY <3>1, <3>3 DEF Owning
  <2>6. QED
    BY <2>1, <2>2, <2>3, <2>4, <2>5 DEF WorkerStep, TimelyStep
<1>4. QED
  BY <1>1, <1>2, <1>3 DEF ServedInv

\* Without a row to recover, a refill recovers none.
LEMMA NothingStuck ==
    ASSUME InductiveInv, ServedInv, [Next]_vars
    PROVE  \A r \in Refiller : refill'[r].stuck = {}
<1>1. /\ refill \in [Refiller -> RefillState] /\ rows \subseteq Proxy
      /\ "initial" \in Refiller /\ "loop" \in Refiller
  BY DEF InductiveInv, AdmissionInv, TypeOK, Refiller
<1>2. ASSUME NEW r \in Refiller, RefillStep(r)
      PROVE  refill'[r].stuck = {} /\ \A s \in Refiller \ {r} : refill'[s] = refill[s]
  <2>1. CASE RecoverSelect(r)
    <3>1. {p \in rows : Stuck(db[p])} = {}
      BY <1>1 DEF ServedInv, Stuck
    <3>2. QED
      BY <1>1, <2>1, <3>1 DEF RecoverSelect, RefillState
  <2>2. CASE RefillStart(r)
    BY <1>1, <2>2 DEF RefillStart
  <2>a. CASE RecoverUpdate(r)
    BY <1>1, <2>a DEF RecoverUpdate, RefillState
  <2>3. CASE FetchBatch(r) \/ OfferProxies(r)
    BY <1>1, <2>3 DEF FetchBatch, OfferProxies, Selected, Resting, RefillAt
  <2>4. QED
    BY <1>2, <2>1, <2>2, <2>a, <2>3 DEF RefillStep
<1>3. CASE RefillNoRoom \/ RefillFails \/ SyncSources \/ ResyncSources \/ Shutdown \/ Crash \/ Start
  BY <1>1, <1>3 DEF RefillNoRoom, RefillFails, SyncSources, ResyncSources, Shutdown, Crash, Start,
                    Resting, RefillAt, ServedInv
<1>4. ASSUME NEW w \in Worker, WorkerStep(w) \/ WorkerFails(w)
      PROVE  refill' = refill
  BY <1>4, WorkerWrites
<1>5. (\E p \in Proxy : Collect(p) \/ Touch(p) \/ Time(p)) \/ Connectivity
        \/ UNCHANGED vars => refill' = refill
  BY DEF Collect, Touch, Time, StuckTimeout, CooldownEnds, RecheckDue, Connectivity, vars
<1>6. QED
  BY <1>2, <1>3, <1>4, <1>5 DEF Next, Stop, StartFails, ServedInv

LEMMA ServedStep ==
    ASSUME InductiveInv, OwnerInv, ServedInv, StepsSucceed, ProbesInTime, [Next]_vars
    PROVE  ServedInv'
<1>1. \A r \in Refiller : refill'[r].stuck = {}
  BY NothingStuck
<1>2. ASSUME NEW w \in Worker, WorkerStep(w) \/ WorkerFails(w)
      PROVE  ServedInv'
  <2>1. WorkerStep(w)
    BY <1>2 DEF WorkerFails, StepsSucceed
  <2>2. QED
    BY <1>1, <2>1, WorkerServes DEF ServedInv
<1>3. ASSUME \/ \E r \in Refiller : RefillStep(r)
             \/ RefillNoRoom \/ RefillFails \/ SyncSources \/ ResyncSources
             \/ \E p \in Proxy : Collect(p) \/ Touch(p) \/ Time(p)
             \/ Connectivity \/ UNCHANGED vars
      PROVE  ServedInv'
  <2>1. db \in [Proxy -> Row] /\ \A q \in Proxy : Coherent(db[q])
    BY DEF InductiveInv, AdmissionInv, TypeOK, RowsCoherent
  <2>2. UNCHANGED <<pc, held, target>>
    BY <1>3, OthersMarkNothing
  <2>3. ASSUME NEW q \in Proxy
        PROVE  ~db'[q].stale /\ Below(db'[q])
    <3>1. q \in rows /\ db[q].status = "CHECKING" => q \in Held
      BY DEF OwnerInv, CheckingHasOwner, Held
    <3>2. db'[q] \in {db[q], NewRow, Touched(db[q]), BecameDue(db[q]), CooledDown(db[q]),
                      WithLink(db[q], TRUE), WithLink(db[q], FALSE)}
      BY <1>3, <3>1, OthersMarkNothing DEF ServedInv
    <3>3. QED
      BY <2>1, <3>2, BelowKept DEF ServedInv
  <2>4. QED
    BY <1>1, <2>2, <2>3 DEF ServedInv
<1>4. ~Start /\ ~Stop /\ ~Crash
  BY DEF OwnerInv, Start, Stop, Crash, StepsSucceed
<1>5. ~StartFails
  BY DEF OwnerInv, StartupDone, StartFails, StepsSucceed
<1>6. QED
  BY <1>2, <1>3, <1>4, <1>5 DEF Next

\* A proxy that failed FailureThreshold times in a row is not served, with two
\* refills, outages and collections, as long as no step fails, the process
\* neither stops nor dies, and probes are faster than 3 * check_timeout: then no
\* row is recovered, and a recovery is what makes a DEAD row DEGRADED.
THEOREM ServedAlwaysBelow ==
    ASSUME StepsSucceed, ProbesInTime
    PROVE  Spec => []ServedBelowThreshold
<1>1. InductiveInv /\ OwnerInv /\ ServedInv /\ [Next]_vars
        => InductiveInv' /\ OwnerInv' /\ ServedInv'
  BY RowsStep, OwnerStep, ServedStep
<1>2. Init => ServedInv
  BY ThresholdsAssumption
  DEF Init, ServedInv, NewRow, Below, Owning, RefillAt
<1>3. InductiveInv /\ ServedInv => ServedBelowThreshold
  BY DEF InductiveInv, AdmissionInv, TypeOK, ServedInv, ServedBelowThreshold, Usable, Below
<1>4. QED
  BY <1>1, <1>2, <1>3, InitRows, OwnerInit, PTL DEF Spec

-----------------------------------------------------------------------------
(* A check starts on an eligible row.                                      *)

\* Eligible but for its links, which _mark_checking looks at once more.
Checkable(row) == Eligible(WithLink(row, TRUE))

\* A row that stays so until somebody handles it.
Open(p) == p \in rows /\ Checkable(db[p])

Marking == {held[w] : w \in {v \in Worker : pc[v] = "mark"}}

\* What the one refill has selected is free until it is offered, because it
\* excluded every id that was queued or handled when it began, and nobody else
\* offers any.
EligibleInv ==
    /\ refill["initial"].phase = "done"
    /\ \A p \in Queued \cup Marking : Open(p)
    /\ refill["loop"].phase = "offer" =>
          /\ running
          /\ \A p \in refill["loop"].ids : Open(p) /\ p \notin Queued \cup Held
    /\ running /\ refill["loop"].phase \in {"recover", "update", "fetch"} =>
          Queued \cup Held \subseteq refill["loop"].exclude

\* Time, the collector and a recovery keep a checkable row checkable.
LEMMA EligibleKept ==
    ASSUME NEW row \in Row
    PROVE  /\ Eligible(row) => Checkable(row)
           /\ Checkable(row) =>
                 /\ row.status # "CHECKING" /\ row.status # "DISABLED"
                 /\ row.linked => Eligible(row)
                 /\ \A other \in {Touched(row), BecameDue(row), CooledDown(row),
                                  WithLink(row, TRUE), WithLink(row, FALSE),
                                  Recovered(row)} : Checkable(other)
BY DEF Row, Checkable, Eligible, OutsideCooldown, Touched, BecameDue, CooledDown, WithLink,
       Recovered

LEMMA OthersKeepOpen ==
    ASSUME InductiveInv, EligibleInv, NEW p \in Proxy, Open(p),
           \/ \E r \in Refiller : RefillStep(r)
           \/ RefillNoRoom \/ RefillFails
           \/ \E q \in Proxy : Collect(q) \/ Touch(q) \/ Time(q)
           \/ ResyncSources \/ Connectivity \/ UNCHANGED vars
    PROVE  Open(p)'
<1>1. db \in [Proxy -> Row] /\ rows \subseteq rows'
  BY OthersMarkNothing DEF InductiveInv, AdmissionInv, TypeOK
<1>2. db[p] \in Row /\ Checkable(db[p]) /\ p \in rows
  BY <1>1 DEF Open
<1>3. db[p].status # "CHECKING"
  BY <1>2, EligibleKept
<1>4. db'[p] \in {db[p], Touched(db[p]), BecameDue(db[p]), CooledDown(db[p]),
                  WithLink(db[p], TRUE), WithLink(db[p], FALSE), Recovered(db[p])}
  BY <1>2, <1>3, OthersMarkNothing
<1>5. QED
  BY <1>1, <1>2, <1>4, EligibleKept DEF Open

\* A worker writes the row it holds, and no other.
LEMMA WorkerKeepsOpen ==
    ASSUME InductiveInv, NEW w \in Worker, WorkerStep(w) \/ WorkerFails(w),
           NEW p \in Proxy, Open(p), p # held[w]
    PROVE  Open(p)'
BY WorkerWrites DEF Open

\* The ids that wait, or are held up to their mark, become no more by a worker's
\* step, and none of them is the id whose row it writes.
LEMMA WorkerWaiting ==
    ASSUME InductiveInv, NEW w \in Worker, WorkerStep(w) \/ WorkerFails(w)
    PROVE  /\ Queued' \cup Marking' \subseteq Queued \cup Marking
           /\ held[w] \notin Queued' \cup Marking'
           /\ Queued' \cup Held' \subseteq Queued \cup Held
<1>1. /\ TypeOK /\ Places /\ Places'
      /\ pc \in [Worker -> WorkerPhase] /\ held \in [Worker -> Proxy \cup {NoProxy}]
      /\ Queued \subseteq Proxy /\ NoProxy \notin Proxy
  BY WorkerPlaces, JobAssumption, HeldAndQueued
  DEF InductiveInv, AdmissionInv, Places, TypeOK
<1>2. Queued' \subseteq Queued /\ Queued' \cup Held' \subseteq Queued \cup Held
  BY <1>1, WorkerPlaces
<1>3. \A v \in Worker \ {w} : pc'[v] = pc[v] /\ held'[v] = held[v]
  BY WorkerWrites
<1>4. Marking' \subseteq (Marking \ {held[w]}) \cup IF pc'[w] = "mark" THEN {held'[w]} ELSE {}
  <2> SUFFICES ASSUME NEW v \in Worker, pc'[v] = "mark", v # w
               PROVE  held'[v] \in Marking /\ held'[v] # held[w]
    BY DEF Marking
  <2>1. pc[v] = "mark" /\ held'[v] = held[v]
    BY <1>3
  <2>2. held[v] # NoProxy /\ (pc[w] = "idle" => held[w] = NoProxy)
    BY <1>1, <2>1 DEF Places, HandlerState
  <2>3. pc[w] # "idle" => held[v] # held[w]
    BY <1>1, <2>1 DEF Places, OneCheckPerProxy
  <2>4. QED
    BY <2>1, <2>2, <2>3 DEF Marking
<1>5. pc'[w] = "mark" => held'[w] \in Queued /\ held'[w] # held[w]
  <2>1. ASSUME TakeProxy(w)
        PROVE  held'[w] \in Queued /\ held'[w] # held[w]
    <3>1. pc[w] = "idle" /\ held'[w] = Head(queue) /\ Head(queue) \in Queued
      BY <1>1, <2>1, TakePlaces DEF TakeProxy
    <3>2. held[w] = NoProxy
      BY <1>1, <3>1 DEF Places, HandlerState
    <3>3. QED
      BY <1>1, <3>1, <3>2
  <2>2. SkipProxy(w) => pc'[w] = "idle"
    BY DEF SkipProxy
  <2>3. MarkChecking(w) => pc'[w] \in {"probe", "idle"}
    BY <1>1 DEF MarkChecking, Release
  <2>4. ASSUME NEW result \in Outcome, ProbeDone(w, result)
        PROVE  pc'[w] \in {"revert", "persist"}
    BY <1>1, <2>4 DEF ProbeDone
  <2>5. RevertCheck(w) \/ PersistResult(w) \/ WorkerFails(w) => pc'[w] = "idle"
    BY <1>1 DEF RevertCheck, PersistResult, WorkerFails, Release
  <2>6. QED
    BY <2>1, <2>2, <2>3, <2>4, <2>5 DEF WorkerStep, TimelyStep
<1>6. held[w] \notin Queued
  BY <1>1 DEF Places, HandlerState, OneCheckPerProxy, Held
<1>7. QED
  BY <1>2, <1>4, <1>5, <1>6

\* The worker's step keeps EligibleInv.
LEMMA WorkerEligible ==
    ASSUME InductiveInv, EligibleInv, NEW w \in Worker, WorkerStep(w) \/ WorkerFails(w)
    PROVE  EligibleInv'
<1>1. /\ Queued' \cup Marking' \subseteq Queued \cup Marking
      /\ held[w] \notin Queued' \cup Marking'
      /\ Queued' \cup Held' \subseteq Queued \cup Held
      /\ running' = running /\ refill' = refill
  BY WorkerWaiting, WorkerWrites
<1>2. /\ rows \subseteq Proxy /\ NoProxy \notin Proxy
      /\ held[w] \in Held \cup {NoProxy}
  BY JobAssumption DEF InductiveInv, AdmissionInv, HandlerState, TypeOK, Held
<1>3. ASSUME NEW p \in Queued' \cup Marking'
      PROVE  Open(p)'
  BY <1>1, <1>2, <1>3, WorkerKeepsOpen DEF EligibleInv, Open
<1>4. ASSUME refill["loop"].phase = "offer", NEW p \in refill["loop"].ids
      PROVE  Open(p)' /\ p \notin Queued' \cup Held'
  <2>1. Open(p) /\ p \notin Queued \cup Held /\ p \in Proxy
    BY <1>2, <1>4 DEF EligibleInv, Open
  <2>2. p # held[w]
    BY <1>2, <2>1
  <2>3. QED
    BY <1>1, <2>1, <2>2, WorkerKeepsOpen
<1>5. QED
  BY <1>1, <1>3, <1>4 DEF EligibleInv

\* The refill excludes what is queued or handled when it begins, selects from the
\* rest and offers what it selected.
LEMMA RefillEligible ==
    ASSUME InductiveInv, EligibleInv, NEW r \in Refiller, RefillStep(r)
    PROVE  EligibleInv'
<1>1. /\ refill \in [Refiller -> RefillState] /\ rows \subseteq Proxy
      /\ "initial" \in Refiller /\ "loop" \in Refiller
  BY DEF InductiveInv, AdmissionInv, TypeOK, Refiller
<1>2. r = "loop"
  BY DEF EligibleInv, RefillStep, RefillStart, RecoverSelect, RecoverUpdate, FetchBatch,
         OfferProxies, Refiller
<1>3. refill'["initial"] = refill["initial"] /\ running' = running
  BY <1>1, <1>2 DEF RefillStep, RefillStart, RecoverSelect, RecoverUpdate, FetchBatch,
         OfferProxies
<1>4. \A p \in Proxy : Open(p) => Open(p)'
  BY OthersKeepOpen
<1>5. ~OfferProxies(r) => UNCHANGED <<Queued, Held, Marking>>
  BY DEF RefillStep, RefillStart, RecoverSelect, RecoverUpdate, FetchBatch, memory, Queued,
         Held, Marking
<1>6. CASE RefillStart(r)
  <2>1. /\ running /\ refill'["loop"].phase = "recover"
        /\ refill'["loop"].exclude = reserved
    BY <1>1, <1>2, <1>6 DEF RefillStart
  <2>2. reserved = Queued \cup Held
    BY <2>1 DEF InductiveInv, AdmissionInv, ReservationsExact
  <2>3. ~OfferProxies(r)
    BY <1>6 DEF RefillStart, OfferProxies
  <2>4. QED
    BY <1>1, <1>3, <1>4, <1>5, <2>1, <2>2, <2>3 DEF EligibleInv, Open
<1>7. CASE RecoverSelect(r) \/ RecoverUpdate(r)
  <2>1. /\ refill["loop"].phase \in {"recover", "update"}
        /\ refill'["loop"].phase \in {"fetch", "update"}
        /\ refill'["loop"].exclude = refill["loop"].exclude
    <3>1. CASE RecoverSelect(r)
      BY <1>1, <1>2, <3>1 DEF RecoverSelect, RefillState
    <3>2. CASE RecoverUpdate(r)
      BY <1>1, <1>2, <3>2 DEF RecoverUpdate, RefillState
    <3>3. QED
      BY <1>7, <3>1, <3>2
  <2>2. ~OfferProxies(r)
    BY <1>2, <2>1 DEF OfferProxies
  <2>3. QED
    BY <1>1, <1>3, <1>4, <1>5, <2>1, <2>2 DEF EligibleInv, Open
<1>8. CASE FetchBatch(r)
  <2>1. refill["loop"].phase = "fetch" /\ ~OfferProxies(r)
    BY <1>2, <1>8 DEF FetchBatch, OfferProxies
  <2>2. CASE running
    <3>a. /\ refill'["loop"].phase = "offer"
          /\ \A p \in refill'["loop"].ids : /\ p \in rows /\ Eligible(db[p])
                                           /\ p \notin refill["loop"].exclude
      BY <1>1, <1>2, <1>8, <2>2 DEF FetchBatch, Selected, RefillAt
    <3>b. \A p \in rows : db[p] \in Row
      BY <1>1 DEF InductiveInv, AdmissionInv, TypeOK
    <3>1. /\ refill'["loop"].phase = "offer"
          /\ \A p \in refill'["loop"].ids : Open(p) /\ p \notin refill["loop"].exclude
      BY <3>a, <3>b, EligibleKept DEF Open
    <3>2. \A p \in refill'["loop"].ids : Open(p)' /\ p \notin Queued \cup Held
      BY <1>1, <1>4, <2>1, <2>2, <3>1 DEF EligibleInv, Open
    <3>3. QED
      BY <1>1, <1>3, <1>4, <1>5, <2>1, <2>2, <3>1, <3>2 DEF EligibleInv, Open
  <2>3. CASE ~running
    <3>1. refill'["loop"].phase = "idle"
      BY <1>1, <1>2, <1>8, <2>3 DEF FetchBatch, Resting, RefillAt
    <3>2. QED
      BY <1>1, <1>3, <1>4, <1>5, <2>1, <3>1 DEF EligibleInv, Open
  <2>4. QED
    BY <2>2, <2>3
<1>9. CASE OfferProxies(r)
  <2>1. refill["loop"].phase = "offer" /\ refill'["loop"].phase = "idle"
    BY <1>1, <1>2, <1>9 DEF OfferProxies, Resting, RefillAt
  <2>2. TypeOK /\ Places
    BY DEF InductiveInv, AdmissionInv, Places
  <2>3. Queued' \subseteq Queued \cup refill["loop"].ids
    BY <1>2, <1>9, <2>2, OfferPlaces
  <2>4. Marking' = Marking
    BY <1>9 DEF OfferProxies, Marking
  <2>5. \A p \in Queued' \cup Marking' : Open(p)'
    BY <1>1, <1>4, <2>1, <2>3, <2>4 DEF EligibleInv, Open
  <2>6. QED
    BY <1>3, <2>1, <2>5 DEF EligibleInv
<1>10. QED
  BY <1>6, <1>7, <1>8, <1>9 DEF RefillStep

\* A shutdown or a crash, and the start after it.
LEMMA RestartEligible ==
    ASSUME InductiveInv, EligibleInv, StartupDone', Initial = FALSE,
           Shutdown \/ Crash \/ Start
    PROVE  EligibleInv'
<1>1. TypeOK /\ Places /\ refill'["initial"].phase = "done" /\ "loop" \in Refiller
  BY DEF InductiveInv, AdmissionInv, Places, StartupDone, Refiller
<1>2. rows' = rows /\ db' = db
  BY DEF Shutdown, Crash, Start
<1>3. CASE Shutdown \/ Crash
  <2>1. Queued' = {} /\ running' = FALSE
    BY <1>1, <1>3, StopPlaces DEF Shutdown, Crash
  <2>2. Marking' \subseteq Marking
    <3>1. CASE Shutdown
      BY <3>1 DEF Shutdown, Marking
    <3>2. CASE Crash
      BY <3>2 DEF Crash, Marking
    <3>3. QED
      BY <1>3, <3>1, <3>2
  <2>3. refill'["loop"].phase # "offer"
    BY <1>1, <1>3 DEF Shutdown, Crash, Resting, RefillAt
  <2>4. QED
    BY <1>1, <1>2, <2>1, <2>2, <2>3 DEF EligibleInv, Open
<1>4. CASE Start
  <2>1. UNCHANGED memory /\ refill'["loop"].phase = "idle"
    BY <1>1, <1>4 DEF Start, TypeOK
  <2>2. UNCHANGED <<Queued, Marking>>
    BY <2>1 DEF memory, Queued, Marking
  <2>3. QED
    BY <1>1, <1>2, <2>1, <2>2 DEF EligibleInv, Open
<1>5. QED
  BY <1>3, <1>4

LEMMA EligibleStep ==
    ASSUME InductiveInv, EligibleInv, Initial = FALSE, [Next]_vars
    PROVE  EligibleInv'
<1>1. StartupDone'
  BY StartupStep DEF EligibleInv, StartupDone, InductiveInv, AdmissionInv
<1>2. ASSUME NEW w \in Worker, WorkerStep(w) \/ WorkerFails(w)
      PROVE  EligibleInv'
  BY <1>2, WorkerEligible
<1>3. ASSUME NEW r \in Refiller, RefillStep(r)
      PROVE  EligibleInv'
  BY <1>3, RefillEligible
<1>4. CASE Shutdown \/ Crash \/ Start
  BY <1>1, <1>4, RestartEligible
<1>5. CASE \/ RefillNoRoom \/ RefillFails
           \/ \E p \in Proxy : Collect(p) \/ Touch(p) \/ Time(p)
           \/ ResyncSources \/ Connectivity \/ UNCHANGED vars
  <2>1. UNCHANGED <<memory, running>>
    BY <1>5 DEF ResyncSources, RefillNoRoom, RefillFails, Collect, Touch, Time, StuckTimeout, CooldownEnds,
                RecheckDue, Connectivity, vars
  <2>2. UNCHANGED <<Queued, Held, Marking>>
    BY <2>1 DEF memory, Queued, Held, Marking
  <2>3. \A p \in Proxy : Open(p) => Open(p)'
    BY <1>5, OthersKeepOpen
  <2>4. \/ refill' = refill
        \/ refill'["loop"].phase \in {"dead", "idle"} /\ refill'["initial"].phase = "done"
    <3>1. RefillFails => /\ refill'["loop"].phase \in {"dead", "idle"}
                         /\ refill'["initial"].phase = "done"
      BY DEF RefillFails, EligibleInv, RefillAt, InductiveInv, AdmissionInv, TypeOK, Refiller
    <3>2. ~RefillNoRoom
      BY DEF RefillNoRoom, EligibleInv
    <3>3. QED
      BY <1>5, <3>1, <3>2 DEF ResyncSources, Collect, Touch, Time, StuckTimeout, CooldownEnds, RecheckDue,
                              Connectivity, vars
  <2>5. rows \subseteq Proxy
    BY DEF InductiveInv, AdmissionInv, TypeOK
  <2>6. QED
    BY <2>1, <2>2, <2>3, <2>4, <2>5 DEF EligibleInv, Open
<1>6. ~SyncSources
  BY DEF SyncSources, EligibleInv
<1>7. QED
  BY <1>2, <1>3, <1>4, <1>5, <1>6 DEF Next, Stop, StartFails

LEMMA EligibleInit == Init /\ Initial = FALSE => EligibleInv
<1> SUFFICES ASSUME Init, Initial = FALSE PROVE EligibleInv
  OBVIOUS
<1>1. Queued = {} /\ Marking = {}
  BY DEF Init, Queued, Marking
<1>2. QED
  BY <1>1 DEF Init, EligibleInv, RefillAt, Refiller

\* The row is checkable since it was selected, and _mark_checking finds it linked.
LEMMA MarkedEligible ==
    ASSUME InductiveInv, EligibleInv, [Next]_vars,
           NEW w \in Worker, pc[w] = "mark", pc'[w] = "probe"
    PROVE  Eligible(db[held[w]])
<1>1. pc \in [Worker -> WorkerPhase] /\ db \in [Proxy -> Row] /\ rows \subseteq Proxy
  BY DEF InductiveInv, AdmissionInv, TypeOK
<1>2. PICK v \in Worker : WorkerStep(v) \/ WorkerFails(v)
  <2>1. ~(Shutdown \/ Crash \/ Start)
    BY <1>1 DEF Shutdown, Crash, Start, memory
  <2>2. pc' # pc
    OBVIOUS
  <2>3. QED
    BY <2>1, <2>2, OthersMarkNothing DEF Next, Stop, StartFails
<1>3. v = w
  BY <1>1, <1>2, WorkerWrites
<1>4. MarkChecking(w)
  BY <1>1, <1>2, <1>3 DEF WorkerStep, TimelyStep, WorkerFails, TakeProxy, SkipProxy, ProbeDone,
                          RevertCheck, PersistResult, Release
<1>5. held[w] \in rows /\ db[held[w]].linked
  BY <1>1, <1>4 DEF MarkChecking, Release
<1>6. Checkable(db[held[w]])
  BY DEF EligibleInv, Marking, Open
<1>7. QED
  BY <1>1, <1>5, <1>6, EligibleKept

\* A check starts on an eligible row only, although the row waited in the queue
\* since it was selected: with one refiller nobody but the check changes the
\* columns that make it eligible, whatever fails, stops or restarts, and however
\* slow the probes are; its link to an enabled source, which every collection
\* cycle may switch off, is looked up again by the mark.
THEOREM ChecksAlwaysEligible ==
    ASSUME Initial = FALSE
    PROVE  Spec => ChecksOnlyEligible
<1>1. InductiveInv /\ EligibleInv /\ [Next]_vars => InductiveInv' /\ EligibleInv'
  BY RowsStep, EligibleStep
<1>2. InductiveInv /\ EligibleInv /\ [Next]_vars =>
        [\A w \in Worker :
           pc[w] = "mark" /\ pc'[w] = "probe" => Eligible(db[held[w]])]_vars
  BY MarkedEligible
<1>3. QED
  BY <1>1, <1>2, InitRows, EligibleInit, PTL DEF Spec, ChecksOnlyEligible

-----------------------------------------------------------------------------
(* DISABLED is final.                                                      *)

\* A row under check is CHECKING and fresh, so a recovery that selects the stale
\* rows and updates them later meets no row that waits or is handled, and none
\* that became DISABLED in between.
DisabledInv ==
    /\ \A w \in Worker : pc[w] \in Owning =>
          db[held[w]].status = "CHECKING" /\ ~db[held[w]].stale
    /\ refill["loop"].phase = "update" =>
          \A p \in refill["loop"].stuck :
             /\ p \notin Queued \cup Held
             /\ p \in rows => db[p].status # "DISABLED"

\* A worker's step writes DISABLED over a row under check only, and finds the row
\* it marks eligible.
LEMMA WorkerMarks ==
    ASSUME InductiveInv, EligibleInv, DisabledInv, NEW w \in Worker,
           WorkerStep(w) \/ WorkerFails(w)
    PROVE  /\ pc'[w] \in Owning =>
                 db'[held'[w]].status = "CHECKING" /\ ~db'[held'[w]].stale
           /\ held[w] \in rows /\ db[held[w]].status = "DISABLED" =>
                 db'[held[w]] = db[held[w]]
<1> DEFINE p == held[w]
<1>1. /\ pc \in [Worker -> WorkerPhase] /\ db \in [Proxy -> Row] /\ rows \subseteq Proxy
      /\ held \in [Worker -> Proxy \cup {NoProxy}] /\ NoProxy \notin Proxy
      /\ \A q \in Proxy : Coherent(db[q])
  BY JobAssumption DEF InductiveInv, AdmissionInv, TypeOK, RowsCoherent
<1>2. CASE TakeProxy(w) \/ SkipProxy(w) \/ WorkerFails(w)
  <2>1. db' = db /\ pc'[w] \notin Owning
    BY <1>1, <1>2 DEF TakeProxy, SkipProxy, WorkerFails, Release, Owning
  <2>2. QED
    BY <2>1
<1>3. CASE MarkChecking(w)
  <2>1. p \in Marking /\ Open(p)
    BY <1>3 DEF MarkChecking, Marking, EligibleInv
  <2>2. /\ db[p] \in Row /\ db[p].status # "CHECKING" /\ db[p].status # "DISABLED"
        /\ p \in rows
    BY <1>1, <2>1, EligibleKept DEF Open
  <2>3. CASE db[p].linked
    <3>1. /\ db'[p] = MarkedChecking(db[p]) /\ (pc'[w] \in Owning => held'[w] = p)
      BY <1>1, <1>3, <2>2, <2>3 DEF MarkChecking, Release, Owning
    <3>2. db'[p].status = "CHECKING" /\ ~db'[p].stale
      BY <2>2, <3>1 DEF MarkedChecking, Row
    <3>3. QED
      BY <2>2, <3>1, <3>2
  <2>4. CASE ~db[p].linked
    <3>1. db' = db /\ pc'[w] = "idle"
      BY <1>1, <1>3, <2>4 DEF MarkChecking, Release
    <3>2. QED
      BY <3>1 DEF Owning
  <2>5. QED
    BY <2>3, <2>4
<1>4. ASSUME NEW result \in Outcome, ProbeDone(w, result)
      PROVE  pc[w] \in Owning /\ db' = db /\ held' = held
  BY <1>4 DEF ProbeDone, Owning
<1>5. CASE RevertCheck(w) \/ PersistResult(w)
  <2>1. pc[w] \in Owning /\ pc'[w] = "idle"
    BY <1>1, <1>5 DEF RevertCheck, PersistResult, Release, Owning
  <2>2. QED
    BY <2>1 DEF DisabledInv, Owning
<1>6. QED
  BY <1>2, <1>3, <1>4, <1>5 DEF WorkerStep, TimelyStep, DisabledInv

LEMMA WorkerDisables ==
    ASSUME InductiveInv, EligibleInv, DisabledInv, NEW w \in Worker,
           WorkerStep(w) \/ WorkerFails(w)
    PROVE  DisabledInv'
<1>1. /\ \A v \in Worker \ {w} : pc'[v] = pc[v] /\ held'[v] = held[v]
      /\ rows' \subseteq rows /\ rows \subseteq Proxy /\ NoProxy \notin Proxy
      /\ \A q \in Proxy \ {held[w]} : db'[q] = db[q]
      /\ refill' = refill
      /\ Queued' \cup Held' \subseteq Queued \cup Held
  BY WorkerWrites, WorkerWaiting, JobAssumption DEF InductiveInv, AdmissionInv, TypeOK
<1>2. ASSUME NEW v \in Worker, pc'[v] \in Owning
      PROVE  db'[held'[v]].status = "CHECKING" /\ ~db'[held'[v]].stale
  <2>1. CASE v = w
    BY <1>2, <2>1, WorkerMarks
  <2>2. CASE v # w
    <3>1. pc[v] \in Owning /\ held'[v] = held[v] /\ held[v] \in rows
      BY <1>1, <1>2, <2>2 DEF InductiveInv, CheckOwnsRow, Owning
    <3>2. held[v] # held[w]
      <4>1. CASE pc[w] = "idle"
        BY <1>1, <3>1, <4>1 DEF InductiveInv, AdmissionInv, HandlerState
      <4>2. CASE pc[w] # "idle"
        BY <2>2, <3>1, <4>2 DEF InductiveInv, AdmissionInv, OneCheckPerProxy, Owning
      <4>3. QED
        BY <4>1, <4>2
    <3>3. QED
      BY <1>1, <3>1, <3>2 DEF DisabledInv
  <2>3. QED
    BY <2>1, <2>2
<1>3. ASSUME refill["loop"].phase = "update", NEW p \in refill["loop"].stuck
      PROVE  p \notin Queued' \cup Held' /\ (p \in rows' => db'[p].status # "DISABLED")
  <2>1. p \notin Queued \cup Held /\ (p \in rows => db[p].status # "DISABLED")
    BY <1>3 DEF DisabledInv
  <2>2. held[w] \in Held \cup {NoProxy}
    BY DEF InductiveInv, AdmissionInv, HandlerState, Held
  <2>3. QED
    BY <1>1, <2>1, <2>2
<1>4. QED
  BY <1>1, <1>2, <1>3 DEF DisabledInv

\* What is not a handler's step keeps the rows under check as they are.
LEMMA OthersKeepChecks ==
    ASSUME InductiveInv, EligibleInv, DisabledInv, ProbesInTime,
           \/ \E r \in Refiller : RefillStep(r)
           \/ RefillNoRoom \/ RefillFails
           \/ \E p \in Proxy : Collect(p) \/ Touch(p) \/ Time(p)
           \/ ResyncSources \/ Connectivity \/ UNCHANGED vars
    PROVE  /\ \A w \in Worker : pc'[w] \in Owning =>
                 db'[held'[w]].status = "CHECKING" /\ ~db'[held'[w]].stale
           /\ \A q \in rows' :
                 db'[q].status = "DISABLED" <=> q \in rows /\ db[q].status = "DISABLED"
<1>1. /\ db \in [Proxy -> Row] /\ rows \subseteq Proxy /\ rows' \subseteq Proxy
      /\ rows \subseteq rows' /\ UNCHANGED <<pc, held>>
  BY OthersMarkNothing DEF InductiveInv, AdmissionInv, TypeOK
<1>2. ASSUME NEW r \in Refiller, RecoverUpdate(r), NEW q \in refill[r].stuck
      PROVE  q \notin Held /\ (q \in rows => db[q].status # "DISABLED")
  BY <1>2 DEF RecoverUpdate, DisabledInv, EligibleInv, Refiller
<1>3. \A q \in Proxy :
         /\ NewRow.status = "NEW" /\ Recovered(db[q]).status = "DEGRADED"
         /\ ~Touched(db[q]).stale
         /\ \A row \in {Touched(db[q]), BecameDue(db[q]), CooledDown(db[q]), TimedOut(db[q]),
                        WithLink(db[q], TRUE), WithLink(db[q], FALSE)} :
               row.status = db[q].status
         /\ \A row \in {BecameDue(db[q]), CooledDown(db[q]),
                        WithLink(db[q], TRUE), WithLink(db[q], FALSE)} :
               row.stale = db[q].stale
  BY <1>1 DEF Row, NewRow, Recovered, Touched, BecameDue, CooledDown, TimedOut, WithLink
<1>4. ASSUME NEW w \in Worker, pc[w] \in Owning
      PROVE  db'[held[w]].status = "CHECKING" /\ ~db'[held[w]].stale
  <2> DEFINE q == held[w]
  <2>1. /\ q \in rows /\ q \in Held /\ q \in Proxy
        /\ db[q].status = "CHECKING" /\ ~db[q].stale
    BY <1>1, <1>4 DEF InductiveInv, CheckOwnsRow, Owning, Held, DisabledInv
  <2>2. db'[q] \in {db[q], Touched(db[q]), BecameDue(db[q]), CooledDown(db[q]),
                    WithLink(db[q], TRUE), WithLink(db[q], FALSE)}
    BY <1>2, <2>1, OthersMarkNothing
  <2>3. QED
    BY <1>3, <2>1, <2>2
<1>5. ASSUME NEW q \in rows'
      PROVE  db'[q].status = "DISABLED" <=> q \in rows /\ db[q].status = "DISABLED"
  <2>1. q \in Proxy
    BY <1>1
  <2>2. CASE q \notin rows
    BY <1>3, <2>1, <2>2, OthersMarkNothing
  <2>3. CASE q \in rows
    BY <1>2, <1>3, <2>1, <2>3, OthersMarkNothing
  <2>4. QED
    BY <2>2, <2>3
<1>6. QED
  BY <1>1, <1>4, <1>5

\* The refill that recovers: it selects rows that are stale, so neither eligible
\* nor under check, and until it updates them nobody admits an id.
LEMMA OthersDisable ==
    ASSUME InductiveInv, EligibleInv, DisabledInv, ProbesInTime,
           \/ \E r \in Refiller : RefillStep(r)
           \/ RefillNoRoom \/ RefillFails
           \/ \E p \in Proxy : Collect(p) \/ Touch(p) \/ Time(p)
           \/ ResyncSources \/ Connectivity \/ UNCHANGED vars
    PROVE  DisabledInv'
<1>1. /\ refill \in [Refiller -> RefillState] /\ rows \subseteq Proxy
      /\ "initial" \in Refiller /\ "loop" \in Refiller
  BY DEF InductiveInv, AdmissionInv, TypeOK, Refiller
<1>2. ASSUME refill'["loop"].phase = "update", NEW p \in refill'["loop"].stuck
      PROVE  p \notin Queued' \cup Held' /\ (p \in rows' => db'[p].status # "DISABLED")
  <2>1. CASE RecoverSelect("loop")
    <3>1. UNCHANGED <<rows, db, queue, pc, held>>
      BY <2>1 DEF RecoverSelect, memory
    <3>2. Queued' = Queued /\ Held' = Held
      BY <3>1 DEF Queued, Held
    <3>3. p \in rows /\ Stuck(db[p])
      BY <1>1, <1>2, <2>1 DEF RecoverSelect, RefillState
    <3>4. db[p].status = "CHECKING" /\ db[p].stale
      BY <3>3 DEF Stuck
    <3>5. p \notin Queued \cup Marking
      <4>1. db[p] \in Row
        BY <1>1, <3>3 DEF InductiveInv, AdmissionInv, TypeOK
      <4>2. QED
        BY <3>4, <4>1, EligibleKept DEF EligibleInv, Open
    <3>6. p \notin Held
      <4> SUFFICES ASSUME NEW w \in Worker, pc[w] # "idle", held[w] = p
                   PROVE  FALSE
        BY DEF Held
      <4>1. pc[w] \in Owning \/ pc[w] = "mark"
        BY DEF Owning, InductiveInv, AdmissionInv, TypeOK, WorkerPhase
      <4>2. QED
        BY <3>4, <3>5, <4>1 DEF DisabledInv, Marking
    <3>7. QED
      BY <3>1, <3>2, <3>4, <3>5, <3>6
  <2>2. CASE ~RecoverSelect("loop")
    <3>1. refill["loop"] = refill'["loop"] /\ UNCHANGED memory
      <4>1. ASSUME NEW r \in Refiller, RefillStep(r)
            PROVE  refill["loop"] = refill'["loop"] /\ UNCHANGED memory
        <5>1. r = "loop"
          BY <4>1 DEF EligibleInv, RefillStep, RefillStart, RecoverSelect, RecoverUpdate,
                      FetchBatch, OfferProxies, Refiller
        <5>2. RefillStart("loop") => refill'["loop"].phase = "recover"
          BY <1>1 DEF RefillStart
        <5>3. RecoverUpdate("loop") => refill'["loop"].phase = "fetch"
          BY <1>1 DEF RecoverUpdate, RefillState
        <5>4. FetchBatch("loop") => refill'["loop"].phase \in {"offer", "idle"}
          BY <1>1 DEF FetchBatch, Selected, Resting, RefillAt
        <5>5. OfferProxies("loop") => refill'["loop"].phase = "idle"
          BY <1>1 DEF OfferProxies, Resting, RefillAt
        <5>6. QED
          BY <1>2, <2>2, <4>1, <5>1, <5>2, <5>3, <5>4, <5>5 DEF RefillStep
      <4>2. ~RefillFails
        BY <1>1, <1>2 DEF RefillFails, RefillAt
      <4>3. ~RefillNoRoom
        BY DEF RefillNoRoom, EligibleInv
      <4>4. (\E q \in Proxy : Collect(q) \/ Touch(q) \/ Time(q)) \/ ResyncSources
              \/ Connectivity \/ UNCHANGED vars => UNCHANGED <<refill, memory>>
        BY DEF ResyncSources, Collect, Touch, Time, StuckTimeout, CooldownEnds, RecheckDue, Connectivity, vars
      <4>5. QED
        BY <4>1, <4>2, <4>3, <4>4
    <3>2. Queued' = Queued /\ Held' = Held
      BY <3>1 DEF memory, Queued, Held
    <3>3. p \notin Queued \cup Held /\ (p \in rows => db[p].status # "DISABLED")
      BY <1>2, <3>1 DEF DisabledInv
    <3>4. QED
      BY <3>2, <3>3, OthersKeepChecks
  <2>3. QED
    BY <2>1, <2>2
<1>3. QED
  BY <1>2, OthersKeepChecks DEF DisabledInv

\* After a shutdown the thread of a recovery may go on, and so may those of the
\* handlers; a start waits for them.
LEMMA RestartDisables ==
    ASSUME InductiveInv, DisabledInv, Shutdown \/ Crash \/ Start
    PROVE  DisabledInv'
<1>1. TypeOK /\ Places /\ "loop" \in Refiller /\ rows' = rows /\ db' = db
  BY DEF InductiveInv, AdmissionInv, Places, Refiller, Shutdown, Crash, Start
<1>2. CASE Shutdown \/ Crash
  <2>1. Queued' = {} /\ \A w \in Worker : pc'[w] # "idle" => pc'[w] = pc[w] /\ held'[w] = held[w]
    BY <1>1, <1>2, StopPlaces DEF Shutdown, Crash
  <2>2. Held' \subseteq Held
    BY <2>1 DEF Held
  <2>3. refill'["loop"].phase = "update" => refill'["loop"] = refill["loop"]
    BY <1>1, <1>2 DEF Shutdown, Crash, Resting, RefillAt
  <2>4. \A w \in Worker : pc'[w] \in Owning => pc[w] \in Owning /\ held'[w] = held[w]
    BY <2>1 DEF Owning
  <2>5. QED
    BY <1>1, <2>1, <2>2, <2>3, <2>4 DEF DisabledInv
<1>3. CASE Start
  <2>1. UNCHANGED memory /\ refill'["loop"].phase = "idle"
    BY <1>1, <1>3 DEF Start, TypeOK
  <2>2. QED
    BY <1>1, <2>1 DEF DisabledInv, memory
<1>4. QED
  BY <1>2, <1>3

LEMMA DisabledStep ==
    ASSUME InductiveInv, EligibleInv, DisabledInv, ProbesInTime, [Next]_vars
    PROVE  /\ DisabledInv'
           /\ \A p \in rows \cap rows' :
                 db[p].status = "DISABLED" => db'[p].status = "DISABLED"
<1>1. rows \subseteq Proxy
  BY DEF InductiveInv, AdmissionInv, TypeOK
<1>2. ASSUME NEW w \in Worker, WorkerStep(w) \/ WorkerFails(w)
      PROVE  /\ DisabledInv'
             /\ \A p \in rows \cap rows' :
                   db[p].status = "DISABLED" => db'[p].status = "DISABLED"
  BY <1>1, <1>2, WorkerDisables, WorkerMarks, WorkerWrites
<1>3. ASSUME \/ \E r \in Refiller : RefillStep(r)
             \/ RefillNoRoom \/ RefillFails
             \/ \E p \in Proxy : Collect(p) \/ Touch(p) \/ Time(p)
             \/ ResyncSources \/ Connectivity \/ UNCHANGED vars
      PROVE  /\ DisabledInv'
             /\ \A p \in rows \cap rows' :
                   db[p].status = "DISABLED" => db'[p].status = "DISABLED"
  BY <1>3, OthersDisable, OthersKeepChecks
<1>4. ASSUME Shutdown \/ Crash \/ Start
      PROVE  DisabledInv' /\ db' = db
  BY <1>4, RestartDisables DEF Shutdown, Crash, Start
<1>5. ~SyncSources
  BY DEF SyncSources, EligibleInv
<1>6. QED
  BY <1>2, <1>3, <1>4, <1>5 DEF Next, Stop, StartFails

\* DISABLED is left only by the removal of the row, with the refill loop as the
\* only refiller and no probe slower than 3 * check_timeout, whatever fails,
\* stops or restarts: a recovery cannot catch up with a check that ended.
THEOREM DisabledAlwaysStays ==
    ASSUME Initial = FALSE, ProbesInTime
    PROVE  Spec => DisabledStays
<1>1. InductiveInv /\ EligibleInv /\ DisabledInv /\ [Next]_vars
        => InductiveInv' /\ EligibleInv' /\ DisabledInv'
  BY RowsStep, EligibleStep, DisabledStep
<1>2. Init => DisabledInv
  BY DEF Init, DisabledInv, Owning, RefillAt, Refiller
<1>3. InductiveInv /\ EligibleInv /\ DisabledInv /\ [Next]_vars =>
        [\A p \in rows \cap rows' :
           db[p].status = "DISABLED" => db'[p].status = "DISABLED"]_vars
  BY DisabledStep
<1>4. QED
  BY <1>1, <1>2, <1>3, InitRows, EligibleInit, PTL DEF Spec, DisabledStays
=============================================================================
