------------------------- MODULE CheckerJob_proofs --------------------------
(***************************************************************************)
(* Proofs about CheckerJob, for every set of proxies and workers, every    *)
(* queue and batch size, every threshold and every environment.            *)
(***************************************************************************)
EXTENDS CheckerJob, TLAPS

-----------------------------------------------------------------------------
(* The row operators.                                                      *)

\* Every write of the checker turns a row into a row: all counters stay
\* natural numbers and all fields stay in their ranges.
LEMMA RowOperators ==
    ASSUME NEW row \in Row
    PROVE  /\ NewRow \in Row
           /\ MarkedChecking(row) \in Row
           /\ \A s \in Status : Reverted(row, s) \in Row
           /\ Recovered(row) \in Row
           /\ \A o \in Outcome : Applied(row, o) \in Row
           /\ TimedOut(row) \in Row /\ Touched(row) \in Row
           /\ CooledDown(row) \in Row /\ BecameDue(row) \in Row
           /\ \A b \in BOOLEAN : WithLink(row, b) \in Row
<1> USE DEF Row, Status
<1>1. NewRow \in Row
  BY DEF NewRow
<1>2. MarkedChecking(row) \in Row
  BY DEF MarkedChecking
<1>3. \A s \in Status : Reverted(row, s) \in Row
  BY DEF Reverted, Stuck
<1>4. Recovered(row) \in Row
  BY DEF Recovered
<1>5. row.failures + 1 \in Nat /\ row.marks + 1 \in Nat /\ NextLevel(row.level) \in Nat
  BY ThresholdsAssumption DEF NextLevel
<1>6. RequiresAuth(row) \in Row /\ Degraded(row) \in Row /\ DeadMarked(row) \in Row
  <2>1. ASSUME NEW n \in Nat
        PROVE  /\ [row EXCEPT !.status = "DISABLED", !.failures = n,
                              !.due = FALSE, !.stale = FALSE] \in Row
               /\ [row EXCEPT !.status = "DEGRADED", !.failures = n,
                              !.due = FALSE, !.stale = FALSE] \in Row
    OBVIOUS
  <2>2. ASSUME NEW n \in Nat, NEW m \in Nat, NEW l \in Nat
        PROVE  [row EXCEPT !.status = "DEAD", !.failures = n, !.marks = m,
                           !.level = l, !.cooldown = "running",
                           !.due = FALSE, !.stale = FALSE] \in Row
    OBVIOUS
  <2> HIDE DEF Row, Status
  <2>3. RequiresAuth(row) \in Row
    BY <1>5, <2>1 DEF RequiresAuth
  <2>4. Degraded(row) \in Row
    BY <1>5, <2>1 DEF Degraded
  <2>5. DeadMarked(row) \in Row
    BY <1>5, <2>2 DEF DeadMarked
  <2>6. QED
    BY <2>3, <2>4, <2>5
<1>7. Succeeded(row) \in Row
  BY DEF Succeeded
<1>8. \A o \in Outcome : Applied(row, o) \in Row
  BY <1>6, <1>7 DEF Applied, Outcome
<1>9. /\ TimedOut(row) \in Row /\ Touched(row) \in Row
      /\ CooledDown(row) \in Row /\ BecameDue(row) \in Row
      /\ \A b \in BOOLEAN : WithLink(row, b) \in Row
  BY DEF TimedOut, Touched, CooledDown, BecameDue, WithLink
<1>10. QED
  BY <1>1, <1>2, <1>3, <1>4, <1>8, <1>9

\* A row that tells one story still does after every write of the checker: the
\* outcome of a check that does not remove the row, the mark, the recovery, and
\* a revert to a status that fits the counters.
LEMMA RowCoherence ==
    ASSUME NEW row \in Row, Coherent(row)
    PROVE  /\ Coherent(MarkedChecking(row))
           /\ Coherent(Recovered(row))
           /\ \A s \in Status :
                 /\ s \in {"HEALTHY", "NEW"} => row.failures = 0
                 /\ s = "DEAD" => row.marks > 0
                 => Coherent(Reverted(row, s))
           /\ \A o \in Outcome : ~Removes(row, o) => Coherent(Applied(row, o))
<1> USE ThresholdsAssumption DEF Coherent, Row
<1>1. Coherent(MarkedChecking(row))
  BY DEF MarkedChecking
<1>2. Coherent(Recovered(row))
  BY DEF Recovered
<1>3. ASSUME NEW s \in Status,
             s \in {"HEALTHY", "NEW"} => row.failures = 0,
             s = "DEAD" => row.marks > 0
      PROVE  Coherent(Reverted(row, s))
  BY <1>3 DEF Reverted, Stuck
<1>4. Coherent(RequiresAuth(row))
  BY DEF RequiresAuth
<1>5. Coherent(Succeeded(row))
  BY DEF Succeeded
<1>6. ~ReachesDeadMark(row) => Coherent(Degraded(row))
  BY DEF ReachesDeadMark, Degraded
<1>7. ReachesDeadMark(row) /\ row.marks + 1 < RemovalThreshold
        => Coherent(DeadMarked(row))
  BY DEF ReachesDeadMark, DeadMarked, NextLevel
<1>8. ASSUME NEW o \in Outcome, ~Removes(row, o)
      PROVE  Coherent(Applied(row, o))
  <2> HIDE DEF Coherent
  <2>1. CASE o = "failure"
    BY <2>1, <1>6, <1>7, <1>8 DEF Applied, Removes
  <2>2. CASE o # "failure"
    BY <2>2, <1>4, <1>5 DEF Applied, Outcome
  <2>3. QED
    BY <2>1, <2>2
<1>9. QED
  BY <1>1, <1>2, <1>3, <1>8

-----------------------------------------------------------------------------
(* Type correctness.                                                       *)

LEMMA InitTypeOK == Init => TypeOK
<1> SUFFICES ASSUME Init PROVE TypeOK
  OBVIOUS
<1>1. NewRow \in Row
  BY DEF NewRow, Row, Status
<1>2. \A ph \in RefillPhase : RefillAt(ph) \in RefillState
  BY JobAssumption DEF RefillAt, RefillState
<1>3. refill \in [Refiller -> RefillState]
  BY <1>2 DEF Init, RefillPhase
<1>4. QED
  BY <1>1, <1>3, JobAssumption
  DEF Init, TypeOK, GuardInit, GuardTypeOK, WorkerPhase

\* What the finally clause leaves is well typed.
LEMMA ReleaseTypeOK ==
    ASSUME TypeOK, NEW w \in Worker, Release(w)
    PROVE  /\ reserved' \subseteq Proxy
           /\ pc' \in [Worker -> WorkerPhase]
           /\ held' \in [Worker -> Proxy \cup {NoProxy}]
           /\ target' \in [Worker -> Row]
           /\ outcome' \in [Worker -> Outcome \cup {"none"}]
<1>1. NewRow \in Row
  BY DEF NewRow, Row, Status
<1>2. QED
  BY <1>1 DEF TypeOK, Release, WorkerPhase

LEMMA WorkerTypeOK ==
    ASSUME TypeOK, HandlerState, NEW w \in Worker, WorkerStep(w) \/ WorkerFails(w)
    PROVE  TypeOK'
<1> USE DEF TypeOK
<1>h. held[w] \in Proxy \cup {NoProxy} /\ target[w] \in Row
  OBVIOUS
<1>1. CASE TakeProxy(w)
  BY <1>1 DEF TakeProxy, WorkerPhase, guardVars, GuardTypeOK
<1>2. CASE SkipProxy(w)
  BY <1>2 DEF SkipProxy, guardVars, GuardTypeOK
<1>3. CASE MarkChecking(w)
  <2>1. db' \in [Proxy -> Row]
    BY <1>3, RowOperators DEF MarkChecking
  <2>2. CASE Release(w)
    BY <1>3, <2>1, <2>2, ReleaseTypeOK DEF MarkChecking, guardVars, GuardTypeOK
  <2>3. CASE ~Release(w)
    BY <1>3, <2>1, <2>3 DEF MarkChecking, WorkerPhase, guardVars, GuardTypeOK
  <2>4. QED
    BY <2>2, <2>3
<1>4. ASSUME NEW result \in Outcome, ProbeDone(w, result)
      PROVE  TypeOK'
  BY <1>4 DEF ProbeDone, WorkerPhase, guardVars, GuardTypeOK
<1>5. CASE RevertCheck(w)
  <2>1. target[w].status \in Status
    BY DEF Row
  <2>2. db' \in [Proxy -> Row]
    BY <1>5, <2>1, RowOperators DEF RevertCheck
  <2>3. QED
    BY <1>5, <2>2, ReleaseTypeOK DEF RevertCheck, guardVars, GuardTypeOK
<1>6. CASE PersistResult(w)
  <2>1. outcome[w] \in Outcome
    BY <1>6 DEF PersistResult, HandlerState
  <2>2. NewRow \in Row
    BY DEF NewRow, Row, Status
  <2>a. held[w] \in rows => Applied(db[held[w]], outcome[w]) \in Row
    BY <2>1, RowOperators
  <2>3. db' \in [Proxy -> Row]
    BY <1>6, <2>a, <2>2 DEF PersistResult
  <2>4. rows' \subseteq Proxy
    BY <1>6 DEF PersistResult
  <2>5. QED
    BY <1>6, <2>3, <2>4, ReleaseTypeOK DEF PersistResult, guardVars, GuardTypeOK
<1>7. CASE WorkerFails(w)
  BY <1>7, ReleaseTypeOK DEF WorkerFails, guardVars, GuardTypeOK
<1>8. QED
  BY <1>1, <1>2, <1>3, <1>4, <1>5, <1>6, <1>7 DEF WorkerStep, TimelyStep

\* Both calls of sync_sources_from_config write flags only.
LEMMA SyncWrites ==
    ASSUME SyncSources \/ ResyncSources
    PROVE  \E enabled : db' = Relinked(enabled)
<1>1. CASE SyncSources
  BY <1>1, Zenon DEF SyncSources
<1>2. CASE ResyncSources
  BY <1>2, Zenon DEF ResyncSources
<1>3. QED
  BY <1>1, <1>2

LEMMA RefillTypeOK ==
    ASSUME TypeOK,
           \/ \E r \in Refiller : RefillStep(r)
           \/ RefillNoRoom \/ RefillFails
           \/ SyncSources \/ ResyncSources
    PROVE  TypeOK'
<1> USE DEF TypeOK, memory, guardVars, GuardTypeOK
<1>0. \A ph \in RefillPhase : RefillAt(ph) \in RefillState
  BY JobAssumption DEF RefillAt, RefillState
<1>1. \A r \in Refiller : Resting(r) \in RefillState
  BY <1>0 DEF Resting, RefillPhase
<1>2. ASSUME NEW r \in Refiller, RefillStart(r)
      PROVE  TypeOK'
  <2> DEFINE slots == QueueMax - Len(queue)
             batch == IF slots < BatchMax THEN slots ELSE BatchMax
  <2>1. batch \in 0..BatchMax
    BY <1>2, JobAssumption DEF RefillStart
  <2>2. refill'[r] \in RefillState
    BY <1>2, <2>1 DEF RefillStart, RefillState, RefillPhase
  <2>3. refill' \in [Refiller -> RefillState]
    BY <1>2, <2>2 DEF RefillStart
  <2>4. QED
    BY <1>2, <2>3 DEF RefillStart
<1>3. ASSUME NEW r \in Refiller, RecoverSelect(r)
      PROVE  TypeOK'
  <2>1. ASSUME NEW st \in RefillState, NEW S \in SUBSET Proxy,
               NEW ph \in RefillPhase
        PROVE  [st EXCEPT !.phase = ph, !.stuck = S] \in RefillState
    BY DEF RefillState
  <2>2. refill' \in [Refiller -> RefillState]
    BY <1>3, <2>1 DEF RecoverSelect, RefillPhase
  <2>3. QED
    BY <1>3, <2>2 DEF RecoverSelect
<1>4. ASSUME NEW r \in Refiller, RecoverUpdate(r)
      PROVE  TypeOK'
  <2>1. ASSUME NEW st \in RefillState
        PROVE  [st EXCEPT !.phase = "fetch", !.stuck = {}] \in RefillState
    BY DEF RefillState, RefillPhase
  <2>2. refill' \in [Refiller -> RefillState]
    BY <1>4, <2>1 DEF RecoverUpdate
  <2>3. \A p \in Proxy : Recovered(db[p]) \in Row
    BY RowOperators
  <2>4. db' \in [Proxy -> Row]
    BY <1>4, <2>3 DEF RecoverUpdate
  <2>5. QED
    BY <1>4, <2>2, <2>4 DEF RecoverUpdate
<1>5. ASSUME NEW r \in Refiller, FetchBatch(r)
      PROVE  TypeOK'
  <2>1. ASSUME NEW S \in SUBSET Proxy
        PROVE  Selected(S) \in RefillState
    BY JobAssumption DEF Selected, RefillAt, RefillState, RefillPhase
  <2>2. refill' \in [Refiller -> RefillState]
    BY <1>1, <1>5, <2>1 DEF FetchBatch
  <2>3. QED
    BY <1>5, <2>2 DEF FetchBatch
<1>6. ASSUME NEW r \in Refiller, OfferProxies(r)
      PROVE  TypeOK'
  <2> DEFINE slots == QueueMax - Len(queue)
             fresh == refill[r].ids \ reserved
  <2>1. refill[r].ids \subseteq Proxy
    BY DEF RefillState
  <2>a. PICK n \in 0..slots : \E added \in [1..n -> fresh] :
           /\ queue' = queue \o added
           /\ reserved' = reserved \cup {added[i] : i \in 1..n}
    BY <1>6 DEF OfferProxies
  <2>2. PICK added \in [1..n -> fresh] :
           /\ queue' = queue \o added
           /\ reserved' = reserved \cup {added[i] : i \in 1..n}
    BY <2>a
  <2>3. n \in Nat
    BY JobAssumption
  <2>4. added \in Seq(Proxy)
    BY <2>1, <2>3
  <2>5. queue' \in Seq(Proxy) /\ reserved' \subseteq Proxy
    BY <2>1, <2>2, <2>4
  <2>6. refill' \in [Refiller -> RefillState]
    BY <1>1, <1>6 DEF OfferProxies
  <2>7. QED
    BY <1>6, <2>5, <2>6 DEF OfferProxies
<1>7. CASE RefillNoRoom \/ RefillFails
  BY <1>7, <1>0, <1>1 DEF RefillNoRoom, RefillFails, Refiller, RefillPhase
<1>8. CASE SyncSources \/ ResyncSources
  <2>1. \A row \in Row : \A b \in BOOLEAN : WithLink(row, b) \in Row
    BY RowOperators
  <2>a. PICK enabled : db' = Relinked(enabled)
    BY <1>8, SyncWrites, Zenon
  <2>b. \A p \in Proxy : WithLink(db[p], p \in enabled) \in Row
    <3> TAKE p \in Proxy
    <3>1. (p \in enabled) \in BOOLEAN
      OBVIOUS
    <3>2. db[p] \in Row
      OBVIOUS
    <3>3. QED
      BY <2>1, <3>1, <3>2, Zenon
  <2>2. db' \in [Proxy -> Row]
    BY <2>a, <2>b DEF Relinked
  <2>3. QED
    BY <1>0, <1>8, <2>2 DEF SyncSources, ResyncSources, Refiller, RefillPhase
<1>9. QED
  BY <1>2, <1>3, <1>4, <1>5, <1>6, <1>7, <1>8 DEF RefillStep

LEMMA LifecycleTypeOK ==
    ASSUME TypeOK, Shutdown \/ Crash \/ Start
    PROVE  TypeOK'
<1> USE DEF TypeOK, memory, guardVars, GuardTypeOK
<1>0. <<>> \in Seq(Proxy)
  OBVIOUS
<1>1. NewRow \in Row
  BY DEF NewRow, Row, Status
<1>2. \A ph \in RefillPhase : RefillAt(ph) \in RefillState
  BY JobAssumption DEF RefillAt, RefillState
<1>3. \A r \in Refiller : Resting(r) \in RefillState
  BY <1>2 DEF Resting, RefillPhase
<1>4. CASE Shutdown
  <2>1. /\ pc' \in [Worker -> WorkerPhase]
        /\ held' \in [Worker -> Proxy \cup {NoProxy}]
        /\ target' \in [Worker -> Row]
        /\ outcome' \in [Worker -> Outcome \cup {"none"}]
    BY <1>4, <1>1 DEF Shutdown, WorkerPhase
  <2>2. refill' \in [Refiller -> RefillState]
    BY <1>4, <1>3 DEF Shutdown, Refiller
  <2>3. QED
    BY <1>0, <1>4, <2>1, <2>2 DEF Shutdown
<1>5. CASE Crash
  <2>1. /\ pc' \in [Worker -> WorkerPhase]
        /\ held' \in [Worker -> Proxy \cup {NoProxy}]
        /\ target' \in [Worker -> Row]
        /\ outcome' \in [Worker -> Outcome \cup {"none"}]
    BY <1>5, <1>1 DEF Crash, WorkerPhase
  <2>2. refill' \in [Refiller -> RefillState]
    BY <1>5, <1>3 DEF Crash
  <2>3. QED
    BY <1>0, <1>5, <2>1, <2>2 DEF Crash
<1>6. CASE Start
  BY <1>6, <1>2 DEF Start, RefillPhase, Refiller
<1>7. QED
  BY <1>4, <1>5, <1>6

LEMMA WorldTypeOK ==
    ASSUME TypeOK,
           \/ \E p \in Proxy : Collect(p) \/ Touch(p) \/ Time(p)
           \/ Connectivity
    PROVE  TypeOK'
<1> USE DEF TypeOK, memory, guardVars, GuardTypeOK
<1>1. NewRow \in Row
  BY DEF NewRow, Row, Status
<1>2. ASSUME NEW p \in Proxy
      PROVE  /\ TimedOut(db[p]) \in Row /\ Touched(db[p]) \in Row
             /\ CooledDown(db[p]) \in Row /\ BecameDue(db[p]) \in Row
             /\ WithLink(db[p], TRUE) \in Row
  BY RowOperators
<1>3. ASSUME NEW p \in Proxy, Collect(p)
      PROVE  TypeOK'
  BY <1>3, <1>1, <1>2 DEF Collect
<1>4. ASSUME NEW p \in Proxy, Touch(p)
      PROVE  TypeOK'
  BY <1>4, <1>2 DEF Touch
<1>5. ASSUME NEW p \in Proxy, Time(p)
      PROVE  TypeOK'
  BY <1>5, <1>2 DEF Time, StuckTimeout, CooldownEnds, RecheckDue
<1>6. CASE Connectivity
  BY <1>6 DEF Connectivity, NetChanges, GuardStep, ProbeStart, ProbeEnd
<1>7. QED
  BY <1>3, <1>4, <1>5, <1>6

-----------------------------------------------------------------------------
(* Two facts about queues of distinct ids.                                 *)

Ids(s) == {s[i] : i \in 1..Len(s)}
Distinct(s) == \A i, j \in 1..Len(s) : s[i] = s[j] => i = j

\* queue.get: the head leaves, the others stay, still each once.
LEMMA TakeHead ==
    ASSUME NEW S, NEW s \in Seq(S), s # <<>>, Distinct(s)
    PROVE  /\ Head(s) \in Ids(s)
           /\ Ids(Tail(s)) = Ids(s) \ {Head(s)}
           /\ Distinct(Tail(s))
           /\ Len(Tail(s)) = Len(s) - 1
<1>1. Len(s) \in Nat /\ Len(s) >= 1 /\ Head(s) = s[1]
  OBVIOUS
<1>2. Tail(s) \in Seq(S) /\ Len(Tail(s)) = Len(s) - 1
  OBVIOUS
<1>3. \A i \in 1..Len(s) - 1 : Tail(s)[i] = s[i + 1]
  BY <1>1
<1>4. Ids(Tail(s)) = Ids(s) \ {Head(s)}
  <2>1. ASSUME NEW x \in Ids(Tail(s))
        PROVE  x \in Ids(s) \ {Head(s)}
    BY <1>1, <1>2, <1>3 DEF Ids, Distinct
  <2>2. ASSUME NEW x \in Ids(s) \ {Head(s)}
        PROVE  x \in Ids(Tail(s))
    <3>1. PICK i \in 1..Len(s) : x = s[i]
      BY DEF Ids
    <3>2. i - 1 \in 1..Len(s) - 1 /\ Tail(s)[i - 1] = x
      BY <1>1, <1>3, <3>1
    <3>3. QED
      BY <1>2, <3>2 DEF Ids
  <2>3. QED
    BY <2>1, <2>2
<1>5. Distinct(Tail(s))
  BY <1>1, <1>2, <1>3 DEF Distinct
<1>6. QED
  BY <1>1, <1>2, <1>4, <1>5 DEF Ids

\* put_nowait, n times: the ids added are the new ones, and if they are
\* distinct and were not queued the queue still holds each id once.
LEMMA PutAll ==
    ASSUME NEW S, NEW s \in Seq(S), Distinct(s),
           NEW n \in Nat, NEW added \in [1..n -> S],
           \A i, j \in 1..n : added[i] = added[j] => i = j,
           \A i \in 1..n : added[i] \notin Ids(s)
    PROVE  /\ Ids(s \o added) = Ids(s) \cup {added[i] : i \in 1..n}
           /\ Distinct(s \o added)
           /\ Len(s \o added) = Len(s) + n
<1> DEFINE t == s \o added
<1>1. added \in Seq(S) /\ Len(added) = n /\ Len(s) \in Nat
  OBVIOUS
<1>2. t \in Seq(S) /\ Len(t) = Len(s) + n
  BY <1>1
<1>3. \A i \in 1..Len(s) : t[i] = s[i]
  BY <1>1
<1>4. \A i \in 1..n : t[Len(s) + i] = added[i]
  BY <1>1
<1>5. \A i \in 1..Len(t) :
        \/ i \in 1..Len(s)
        \/ i - Len(s) \in 1..n /\ t[i] = added[i - Len(s)]
  <2> TAKE i \in 1..Len(t)
  <2>1. i \notin 1..Len(s) => i - Len(s) \in 1..n
    BY <1>1, <1>2
  <2>2. i - Len(s) \in 1..n => t[Len(s) + (i - Len(s))] = added[i - Len(s)]
    BY <1>4
  <2>3. Len(s) + (i - Len(s)) = i
    BY <1>1
  <2>4. QED
    BY <2>1, <2>2, <2>3
<1> HIDE DEF t
<1>6. Ids(t) = Ids(s) \cup {added[i] : i \in 1..n}
  <2>1. ASSUME NEW x \in Ids(t)
        PROVE  x \in Ids(s) \cup {added[i] : i \in 1..n}
    BY <1>3, <1>5 DEF Ids
  <2>2. ASSUME NEW x \in Ids(s)
        PROVE  x \in Ids(t)
    BY <1>1, <1>2, <1>3 DEF Ids
  <2>3. ASSUME NEW i \in 1..n
        PROVE  added[i] \in Ids(t)
    <3>1. Len(s) + i \in 1..Len(t)
      BY <1>1, <1>2
    <3>2. QED
      BY <3>1, <1>4 DEF Ids
  <2>4. QED
    BY <2>1, <2>2, <2>3
<1>7. Distinct(t)
  <2> SUFFICES ASSUME NEW i \in 1..Len(t), NEW j \in 1..Len(t), t[i] = t[j]
               PROVE  i = j
    BY DEF Distinct
  <2>1. CASE i \in 1..Len(s) /\ j \in 1..Len(s)
    BY <2>1, <1>3 DEF Distinct
  <2>2. CASE i \in 1..Len(s) /\ j \notin 1..Len(s)
    BY <2>2, <1>3, <1>5 DEF Ids
  <2>3. CASE i \notin 1..Len(s) /\ j \in 1..Len(s)
    BY <2>3, <1>3, <1>5 DEF Ids
  <2>4. CASE i \notin 1..Len(s) /\ j \notin 1..Len(s)
    <3>1. /\ i - Len(s) \in 1..n /\ t[i] = added[i - Len(s)]
          /\ j - Len(s) \in 1..n /\ t[j] = added[j - Len(s)]
      BY <2>4, <1>5
    <3>2. i - Len(s) = j - Len(s)
      BY <3>1
    <3>3. QED
      BY <3>2, <1>1
  <2>5. QED
    BY <2>1, <2>2, <2>3, <2>4
<1>8. QED
  BY <1>2, <1>6, <1>7 DEF t

-----------------------------------------------------------------------------
(* Admission: reservations, queue and handlers agree.                      *)

Places ==
    /\ HandlerState /\ NothingPending /\ ReservationsExact
    /\ OneCheckPerProxy /\ QueueBounded

\* Refills up to the offer, clocks, the collector and the network touch none
\* of the variables Places is about.
LEMMA PlacesUnchanged ==
    ASSUME Places, UNCHANGED <<running, memory>>
    PROVE  Places'
BY DEF Places, memory, HandlerState, NothingPending, ReservationsExact,
       OneCheckPerProxy, QueueBounded, Queued, Held

LEMMA TakePlaces ==
    ASSUME TypeOK, Places, NEW w \in Worker, TakeProxy(w)
    PROVE  /\ Places'
           /\ Head(queue) \in Queued
           /\ Queued' = Queued \ {Head(queue)}
           /\ Held' = Held \cup {Head(queue)}
<1> DEFINE id == Head(queue)
<1>1. /\ id \in Ids(queue) /\ Ids(Tail(queue)) = Ids(queue) \ {id}
      /\ Distinct(Tail(queue)) /\ Len(Tail(queue)) = Len(queue) - 1
  BY TakeHead DEF TypeOK, Places, OneCheckPerProxy, TakeProxy, Distinct
<1>2. id \in Proxy /\ id # NoProxy /\ Len(queue) \in Nat
  BY JobAssumption DEF TypeOK, TakeProxy
<1> HIDE DEF id
<1>3. /\ running /\ running' = running /\ reserved' = reserved
      /\ queue' = Tail(queue) /\ outcome' = outcome
      /\ pc[w] = "idle"
      /\ pc' = [pc EXCEPT ![w] = "mark"]
      /\ held' = [held EXCEPT ![w] = id]
  BY DEF TakeProxy, id
<1>4. pc \in [Worker -> WorkerPhase] /\ held \in [Worker -> Proxy \cup {NoProxy}]
  BY DEF TypeOK
<1>5. /\ \A v \in Worker : v # w => pc'[v] = pc[v] /\ held'[v] = held[v]
      /\ pc'[w] = "mark" /\ held'[w] = id
  BY <1>3, <1>4
<1>6. Queued = Ids(queue) /\ Queued' = Ids(Tail(queue))
  BY <1>3 DEF Queued, Ids
<1>7. Held' = Held \cup {id}
  BY <1>3, <1>5 DEF Held
<1>8. HandlerState'
  BY <1>2, <1>3, <1>5 DEF Places, HandlerState
<1>9. ReservationsExact' /\ NothingPending' /\ QueueBounded'
  BY <1>1, <1>2, <1>3, <1>6, <1>7, JobAssumption
  DEF Places, ReservationsExact, NothingPending, QueueBounded
<1>10. OneCheckPerProxy'
  <2>1. \A v \in Worker : pc[v] # "idle" => held[v] # id
    BY <1>1, <1>6 DEF Places, OneCheckPerProxy, Held
  <2>2. \A u, v \in Worker : pc'[u] # "idle" /\ pc'[v] # "idle"
                               /\ held'[u] = held'[v] => u = v
    BY <1>5, <2>1 DEF Places, OneCheckPerProxy
  <2>3. Queued' \cap Held' = {}
    BY <1>1, <1>6, <1>7 DEF Places, OneCheckPerProxy
  <2>4. \A i, j \in 1..Len(queue') : queue'[i] = queue'[j] => i = j
    BY <1>1, <1>3 DEF Distinct
  <2>5. QED
    BY <2>2, <2>3, <2>4 DEF OneCheckPerProxy
<1>11. QED
  BY <1>1, <1>6, <1>7, <1>8, <1>9, <1>10 DEF Places, id

LEMMA SkipPlaces ==
    ASSUME TypeOK, Places, NEW w \in Worker, SkipProxy(w)
    PROVE  /\ Places'
           /\ Head(queue) \in Queued
           /\ Queued' = Queued \ {Head(queue)}
           /\ Held' = Held
<1> DEFINE id == Head(queue)
<1>1. /\ id \in Ids(queue) /\ Ids(Tail(queue)) = Ids(queue) \ {id}
      /\ Distinct(Tail(queue)) /\ Len(Tail(queue)) = Len(queue) - 1
  BY TakeHead DEF TypeOK, Places, OneCheckPerProxy, SkipProxy, Distinct
<1>2. Len(queue) \in Nat
  BY DEF TypeOK
<1>3. /\ running /\ running' = running /\ reserved' = reserved \ {id}
      /\ queue' = Tail(queue) /\ outcome' = outcome
      /\ pc' = pc /\ held' = held
  BY DEF SkipProxy
<1> HIDE DEF id
<1>4. Queued = Ids(queue) /\ Queued' = Ids(Tail(queue)) /\ Held' = Held
  BY <1>3 DEF Queued, Ids, Held
<1>5. HandlerState' /\ NothingPending' /\ QueueBounded'
  BY <1>1, <1>2, <1>3, JobAssumption
  DEF Places, HandlerState, NothingPending, QueueBounded
<1>6. ReservationsExact'
  BY <1>1, <1>3, <1>4 DEF Places, ReservationsExact, OneCheckPerProxy
<1>7. OneCheckPerProxy'
  BY <1>1, <1>3, <1>4 DEF Places, OneCheckPerProxy, Distinct
<1>8. QED
  BY <1>1, <1>4, <1>5, <1>6, <1>7 DEF Places, id

\* The end of a handler frees its own id and no other.
LEMMA ReleasePlaces ==
    ASSUME TypeOK, Places, NEW w \in Worker, pc[w] # "idle", Release(w),
           UNCHANGED <<running, queue>>
    PROVE  /\ Places'
           /\ Held' = Held \ {held[w]}
           /\ Queued' = Queued
<1>1. /\ \A v \in Worker : v # w => /\ pc'[v] = pc[v] /\ held'[v] = held[v]
                                    /\ outcome'[v] = outcome[v]
      /\ pc'[w] = "idle" /\ held'[w] = NoProxy
      /\ reserved' = reserved \ {held[w]}
  BY DEF Release, TypeOK
<1>2. held[w] \in Held
  BY DEF Held
<1>3. Held' = Held \ {held[w]}
  BY <1>1 DEF Held, Places, OneCheckPerProxy
<1>4. Queued' = Queued
  BY DEF Queued
<1>5. HandlerState' /\ NothingPending' /\ QueueBounded'
  BY <1>1 DEF Places, HandlerState, NothingPending, QueueBounded
<1>6. ReservationsExact'
  BY <1>1, <1>2, <1>3, <1>4 DEF Places, ReservationsExact, OneCheckPerProxy
<1>7. OneCheckPerProxy'
  BY <1>1, <1>3, <1>4 DEF Places, OneCheckPerProxy
<1>8. QED
  BY <1>3, <1>4, <1>5, <1>6, <1>7 DEF Places

\* A step within the handler that keeps the id.
LEMMA HandlerPlaces ==
    ASSUME TypeOK, Places, NEW w \in Worker, pc[w] # "idle",
           NEW phase \in WorkerPhase \ {"idle"}, pc' = [pc EXCEPT ![w] = phase],
           phase = "probe" => running,
           phase = "persist" => outcome'[w] \in Outcome,
           \A v \in Worker : v # w => outcome'[v] = outcome[v],
           UNCHANGED <<running, queue, reserved, held>>
    PROVE  Places' /\ Held' = Held /\ Queued' = Queued
<1>1. \A v \in Worker : v # w => pc'[v] = pc[v]
  BY DEF TypeOK
<1>2. pc'[w] = phase /\ phase # "idle"
  BY DEF TypeOK
<1>3. Held' = Held
  BY <1>1, <1>2 DEF Held
<1>4. Queued' = Queued
  BY DEF Queued
<1>5. HandlerState'
  BY <1>1, <1>2 DEF Places, HandlerState
<1>6. OneCheckPerProxy'
  BY <1>1, <1>2, <1>3, <1>4 DEF Places, OneCheckPerProxy
<1>7. QED
  BY <1>3, <1>4, <1>5, <1>6
  DEF Places, NothingPending, ReservationsExact, QueueBounded

\* Offering an old selection is harmless: what is reserved by now is passed
\* over, and everything queued or handled is reserved.
LEMMA OfferPlaces ==
    ASSUME TypeOK, Places, NEW r \in Refiller, OfferProxies(r)
    PROVE  /\ Places'
           /\ Held' = Held
           /\ \E ids \in SUBSET ((Proxy \cap refill[r].ids) \ (Queued \cup Held)) :
                 Queued' = Queued \cup ids
<1> DEFINE slots == QueueMax - Len(queue)
           fresh == refill[r].ids \ reserved
<1>1. PICK n \in 0..slots : \E added \in [1..n -> fresh] :
         /\ \A i, j \in 1..n : added[i] = added[j] => i = j
         /\ queue' = queue \o added
         /\ reserved' = reserved \cup {added[i] : i \in 1..n}
  BY DEF OfferProxies
<1>2. PICK added \in [1..n -> fresh] :
         /\ \A i, j \in 1..n : added[i] = added[j] => i = j
         /\ queue' = queue \o added
         /\ reserved' = reserved \cup {added[i] : i \in 1..n}
  BY <1>1
<1> DEFINE ids == {added[i] : i \in 1..n}
<1>3. running /\ UNCHANGED <<running, pc, held, outcome>>
  BY DEF OfferProxies
<1>4. reserved = Queued \cup Held /\ Queued = Ids(queue)
  BY <1>3 DEF Places, ReservationsExact, Queued, Ids
<1>5. refill[r].ids \subseteq Proxy
  BY DEF TypeOK, RefillState
<1>6. ids \subseteq (Proxy \cap refill[r].ids) \ (Queued \cup Held)
  BY <1>4, <1>5
<1>7. n \in Nat /\ n <= QueueMax - Len(queue) /\ Len(queue) \in Nat
  BY JobAssumption DEF TypeOK
<1>8. added \in [1..n -> Proxy] /\ \A i \in 1..n : added[i] \notin Ids(queue)
  BY <1>4, <1>5
<1>9. Distinct(queue) /\ queue \in Seq(Proxy)
  BY DEF TypeOK, Places, OneCheckPerProxy, Distinct
<1>10. /\ Ids(queue') = Ids(queue) \cup ids
       /\ Distinct(queue')
       /\ Len(queue') = Len(queue) + n
  <2>1. \A i, j \in 1..n : added[i] = added[j] => i = j
    BY <1>2
  <2>2. /\ Ids(queue \o added) = Ids(queue) \cup ids
        /\ Distinct(queue \o added)
        /\ Len(queue \o added) = Len(queue) + n
    <3> HIDE DEF slots, fresh, ids
    <3>1. n \in Nat /\ added \in [1..n -> Proxy]
      BY <1>7, <1>8
    <3>2. \A i \in 1..n : added[i] \notin Ids(queue)
      BY <1>8
    <3>3. /\ Ids(queue \o added) = Ids(queue) \cup {added[i] : i \in 1..n}
          /\ Distinct(queue \o added)
          /\ Len(queue \o added) = Len(queue) + n
      BY <1>9, <2>1, <3>1, <3>2, PutAll
    <3>4. QED
      BY <3>3 DEF ids
  <2>3. QED
    BY <1>2, <2>2
<1>11. Queued' = Queued \cup ids
  BY <1>4, <1>10 DEF Queued, Ids
<1>12. Held' = Held
  BY <1>3 DEF Held
<1>13. HandlerState' /\ NothingPending'
  BY <1>3 DEF Places, HandlerState, NothingPending
<1>14. QueueBounded'
  BY <1>7, <1>10, JobAssumption DEF QueueBounded
<1>15. ReservationsExact'
  BY <1>2, <1>4, <1>11, <1>12 DEF ReservationsExact
<1>16. OneCheckPerProxy'
  BY <1>3, <1>6, <1>10, <1>11, <1>12 DEF Places, OneCheckPerProxy, Distinct
<1>17. QED
  BY <1>6, <1>11, <1>12, <1>13, <1>14, <1>15, <1>16 DEF Places

\* A shutdown or a crash leaves nothing pending, and the threads that outlive
\* a shutdown keep the ids they had.
LEMMA StopPlaces ==
    ASSUME TypeOK, Places, Shutdown \/ Crash
    PROVE  Places' /\ Queued' = {} /\ Held' \subseteq Held
<1>1. /\ running' = FALSE /\ queue' = <<>> /\ reserved' = {}
      /\ \A v \in Worker : \/ pc'[v] = "idle" /\ held'[v] = NoProxy
                           \/ /\ pc'[v] = pc[v] /\ held'[v] = held[v]
                              /\ outcome'[v] = outcome[v]
                              /\ pc[v] # "probe"
  <2>1. CASE Shutdown
    BY <2>1 DEF Shutdown
  <2>2. CASE Crash
    BY <2>2 DEF Crash
  <2>3. QED
    BY <2>1, <2>2
<1>2. Len(queue') = 0
  BY <1>1
<1>3. Queued' = {}
  BY <1>2 DEF Queued
<1>4. Held' \subseteq Held
  BY <1>1 DEF Held
<1>5. HandlerState'
  BY <1>1 DEF Places, HandlerState
<1>6. OneCheckPerProxy'
  BY <1>1, <1>2, <1>3 DEF Places, OneCheckPerProxy
<1>7. QED
  BY <1>1, <1>2, <1>3, <1>4, <1>5, <1>6, JobAssumption
  DEF Places, NothingPending, ReservationsExact, QueueBounded

LEMMA StartPlaces ==
    ASSUME TypeOK, Places, Start
    PROVE  Places'
<1>1. /\ running' = TRUE /\ ~running
      /\ \A v \in Worker : pc[v] = "idle"
      /\ UNCHANGED memory
  BY DEF Start
<1>2. Held = {} /\ Queued = {} /\ reserved = {}
  BY <1>1 DEF Held, Queued, Places, NothingPending
<1>3. Held' = Held /\ Queued' = Queued
  BY <1>1 DEF memory, Held, Queued
<1>4. QED
  BY <1>1, <1>2, <1>3
  DEF memory, Places, HandlerState, NothingPending, ReservationsExact,
      OneCheckPerProxy, QueueBounded

\* The phases of a handler, seen from the places: taking an id, passing it
\* over, moving on with it, giving it back.
LEMMA WorkerPlaces ==
    ASSUME TypeOK, Places, NEW w \in Worker, WorkerStep(w) \/ WorkerFails(w)
    PROVE  /\ Places'
           /\ \/ /\ Head(queue) \in Queued
                 /\ Queued' = Queued \ {Head(queue)}
                 /\ Held' \in {Held, Held \cup {Head(queue)}}
              \/ Queued' = Queued /\ Held' = Held
              \/ Queued' = Queued /\ \E id \in Held : Held' = Held \ {id}
<1>1. CASE TakeProxy(w)
  BY <1>1, TakePlaces
<1>2. CASE SkipProxy(w)
  BY <1>2, SkipPlaces
<1>3. CASE MarkChecking(w)
  <2>1. pc[w] # "idle" /\ UNCHANGED <<running, queue>>
    BY <1>3 DEF MarkChecking
  <2>0. held[w] \in Held
    BY <2>1 DEF Held
  <2>2. CASE Release(w)
    BY <2>0, <2>1, <2>2, ReleasePlaces
  <2>3. CASE ~Release(w)
    BY <1>3, <2>1, <2>3, HandlerPlaces DEF MarkChecking, WorkerPhase
  <2>4. QED
    BY <2>2, <2>3
<1>4. ASSUME NEW result \in Outcome, ProbeDone(w, result)
      PROVE  Places' /\ Queued' = Queued /\ Held' = Held
  <2> DEFINE phase == IF result # "success" /\ ~available THEN "revert" ELSE "persist"
  <2>1. outcome'[w] = result /\ \A v \in Worker : v # w => outcome'[v] = outcome[v]
    BY <1>4 DEF ProbeDone, TypeOK
  <2>2. phase \in WorkerPhase \ {"idle"} /\ phase # "probe"
    BY DEF WorkerPhase
  <2>3. pc[w] # "idle" /\ pc' = [pc EXCEPT ![w] = phase]
        /\ UNCHANGED <<running, queue, reserved, held>>
    BY <1>4 DEF ProbeDone
  <2>4. QED
    BY <2>1, <2>2, <2>3, HandlerPlaces
<1>5. CASE RevertCheck(w) \/ PersistResult(w) \/ WorkerFails(w)
  <2>1. pc[w] # "idle" /\ Release(w) /\ UNCHANGED <<running, queue>>
    BY <1>5 DEF RevertCheck, PersistResult, WorkerFails
  <2>2. held[w] \in Held
    BY <2>1 DEF Held
  <2>3. QED
    BY <2>1, <2>2, ReleasePlaces
<1>6. QED
  BY <1>1, <1>2, <1>3, <1>4, <1>5 DEF WorkerStep, TimelyStep

LEMMA InitAdmission == Init => AdmissionInv
<1> SUFFICES ASSUME Init PROVE AdmissionInv
  OBVIOUS
<1>1. TypeOK
  BY InitTypeOK
<1>2. Len(queue) = 0
  BY DEF Init
<1>3. Held = {} /\ Queued = {}
  BY <1>2 DEF Init, Held, Queued
<1>4. QED
  BY <1>1, <1>2, <1>3, JobAssumption
  DEF Init, AdmissionInv, HandlerState, NothingPending, ReservationsExact,
      OneCheckPerProxy, QueueBounded

LEMMA AdmissionStep == AdmissionInv /\ [Next]_vars => AdmissionInv'
<1> SUFFICES ASSUME AdmissionInv, [Next]_vars
             PROVE  TypeOK' /\ Places'
  BY DEF AdmissionInv, Places
<1> USE DEF AdmissionInv, Places
<1>p. TypeOK /\ HandlerState /\ Places
  OBVIOUS
<1> HIDE DEF AdmissionInv, Places
<1>1. ASSUME NEW w \in Worker, WorkerStep(w) \/ WorkerFails(w)
      PROVE  TypeOK' /\ Places'
  BY <1>p, <1>1, WorkerTypeOK, WorkerPlaces
<1>2. ASSUME NEW r \in Refiller, RefillStep(r)
      PROVE  TypeOK' /\ Places'
  <2>1. CASE OfferProxies(r)
    BY <1>p, <1>2, <2>1, RefillTypeOK, OfferPlaces
  <2>2. CASE ~OfferProxies(r)
    <3>1. UNCHANGED <<running, memory>>
      BY <1>2, <2>2
      DEF RefillStep, RefillStart, RecoverSelect, RecoverUpdate, FetchBatch
    <3>2. QED
      BY <1>p, <1>2, <3>1, RefillTypeOK, PlacesUnchanged
  <2>3. QED
    BY <2>1, <2>2
<1>3. CASE RefillNoRoom \/ RefillFails \/ SyncSources \/ ResyncSources
  <2>1. UNCHANGED <<running, memory>>
    BY <1>3 DEF RefillNoRoom, RefillFails, SyncSources, ResyncSources
  <2>2. QED
    BY <1>p, <1>3, <2>1, RefillTypeOK, PlacesUnchanged
<1>4. CASE Shutdown \/ Crash
  BY <1>p, <1>4, LifecycleTypeOK, StopPlaces
<1>5. CASE Start
  BY <1>p, <1>5, LifecycleTypeOK, StartPlaces
<1>6. CASE (\E p \in Proxy : Collect(p) \/ Touch(p) \/ Time(p)) \/ Connectivity
  <2>1. UNCHANGED <<running, memory>>
    BY <1>6 DEF Collect, Touch, Time, StuckTimeout, CooldownEnds, RecheckDue,
                Connectivity
  <2>2. QED
    BY <1>p, <1>6, <2>1, WorldTypeOK, PlacesUnchanged
<1>7. CASE UNCHANGED vars
  <2>1. UNCHANGED <<running, memory>>
    BY <1>7 DEF vars
  <2>2. TypeOK'
    BY <1>p, <1>7 DEF vars, memory, guardVars, TypeOK, GuardTypeOK
  <2>3. QED
    BY <1>p, <2>1, <2>2, PlacesUnchanged
<1>8. QED
  BY <1>1, <1>2, <1>3, <1>4, <1>5, <1>6, <1>7 DEF Next, Stop, StartFails

\* The variables keep their types (the checker's memory, the rows it writes,
\* the refills' locals), together with what makes this inductive.
THEOREM TypeCorrect == Spec => []TypeOK
<1>1. AdmissionInv => TypeOK
  BY DEF AdmissionInv
<1>2. QED
  BY <1>1, InitAdmission, AdmissionStep, PTL DEF Spec

\* Reservations are exact and every proxy is queued or checked at most once at
\* any time, in a queue that respects its bound, for any number of workers and
\* whatever the two refills, shutdowns, crashes and failing steps interleave.
THEOREM AdmissionCorrect ==
    Spec => [](ReservationsExact /\ OneCheckPerProxy /\ QueueBounded)
<1>1. AdmissionInv => ReservationsExact /\ OneCheckPerProxy /\ QueueBounded
  BY DEF AdmissionInv
<1>2. QED
  BY <1>1, InitAdmission, AdmissionStep, PTL DEF Spec

\* One check per proxy: no id waits twice in the queue, none is handled by two
\* workers, and none waits while it is handled.
THEOREM OneCheckAlways == Spec => []OneCheckPerProxy
<1>1. AdmissionInv => OneCheckPerProxy
  BY DEF AdmissionInv
<1>2. QED
  BY <1>1, InitAdmission, AdmissionStep, PTL DEF Spec

\* The queue respects its bound, although a refill counts the free slots before
\* it waits for its thread and offers its batch afterwards.
THEOREM QueueAlwaysBounded == Spec => []QueueBounded
<1>1. AdmissionInv => QueueBounded
  BY DEF AdmissionInv
<1>2. QED
  BY <1>1, InitAdmission, AdmissionStep, PTL DEF Spec

-----------------------------------------------------------------------------
(* The job implements CheckAdmission.                                      *)

Phase == [p \in Proxy |-> IF p \in Held THEN "checking"
                          ELSE IF p \in Queued THEN "waiting"
                          ELSE "free"]

LEMMA HeldAndQueued ==
    ASSUME TypeOK, Places
    PROVE  Queued \subseteq Proxy /\ Held \subseteq Proxy /\ Queued \cap Held = {}
<1>1. Queued \subseteq Proxy
  BY DEF TypeOK, Queued
<1>2. Held \subseteq Proxy
  BY DEF TypeOK, Places, HandlerState, Held
<1>3. QED
  BY <1>1, <1>2 DEF Places, OneCheckPerProxy

LEMMA InitAdmitted == Init => Phase = [p \in Proxy |-> "free"]
<1> SUFFICES ASSUME Init PROVE Phase = [p \in Proxy |-> "free"]
  OBVIOUS
<1>1. Len(queue) = 0
  BY DEF Init
<1>2. Held = {} /\ Queued = {}
  BY <1>1 DEF Init, Held, Queued
<1>3. QED
  BY <1>2 DEF Phase

\* A step that leaves both sets alone is a stuttering step of CheckAdmission.
LEMMA PhaseUnchanged ==
    ASSUME Queued' = Queued, Held' = Held
    PROVE  Phase' = Phase
BY DEF Phase

LEMMA WorkerAdmitted ==
    ASSUME TypeOK, Places, NEW w \in Worker, WorkerStep(w) \/ WorkerFails(w)
    PROVE  Admission!PhaseNext \/ Phase' = Phase
<1>1. Queued \subseteq Proxy /\ Held \subseteq Proxy /\ Queued \cap Held = {}
  BY HeldAndQueued
<1>2. CASE /\ Head(queue) \in Queued
           /\ Queued' = Queued \ {Head(queue)}
           /\ Held' = Held \cup {Head(queue)}
  <2>1. PICK id \in Proxy : id = Head(queue)
    BY <1>1, <1>2
  <2>2. Admission!Begin(id)
    BY <1>1, <1>2, <2>1 DEF Admission!Begin
  <2>3. QED
    BY <2>2 DEF Admission!PhaseNext
<1>3. CASE /\ Head(queue) \in Queued
           /\ Queued' = Queued \ {Head(queue)}
           /\ Held' = Held
  <2>1. PICK id \in Proxy : id = Head(queue)
    BY <1>1, <1>3
  <2>2. Admission!Skip(id)
    BY <1>1, <1>3, <2>1 DEF Admission!Skip
  <2>3. QED
    BY <2>2 DEF Admission!PhaseNext
<1>4. CASE Queued' = Queued /\ Held' = Held
  BY <1>4, PhaseUnchanged
<1>5. ASSUME NEW id \in Held, Queued' = Queued, Held' = Held \ {id}
      PROVE  Admission!PhaseNext
  <2>1. Admission!End(id)
    BY <1>1, <1>5 DEF Admission!End
  <2>2. QED
    BY <1>1, <2>1 DEF Admission!PhaseNext
<1>6. QED
  BY <1>2, <1>3, <1>4, <1>5, WorkerPlaces

LEMMA OfferAdmitted ==
    ASSUME TypeOK, Places, NEW r \in Refiller, OfferProxies(r)
    PROVE  Admission!PhaseNext
<1>1. PICK ids \in SUBSET (Proxy \ (Queued \cup Held)) :
         Queued' = Queued \cup ids /\ Held' = Held
  BY OfferPlaces
<1>2. Admission!Admit(ids)
  BY <1>1 DEF Admission!Admit
<1>3. QED
  BY <1>2 DEF Admission!PhaseNext

LEMMA StopAdmitted ==
    ASSUME TypeOK, Places, Shutdown \/ Crash
    PROVE  Admission!PhaseNext
<1>1. Queued' = {} /\ Held' \subseteq Held
  BY StopPlaces
<1>2. PICK going \in SUBSET Held : going = Held'
  BY <1>1
<1>3. going \subseteq Proxy
  BY HeldAndQueued
<1>4. Admission!Abandon(going)
  BY <1>1, <1>2, <1>3 DEF Admission!Abandon
<1>5. QED
  BY <1>3, <1>4 DEF Admission!PhaseNext

LEMMA AdmittedStep ==
    AdmissionInv /\ [Next]_vars => Admission!PhaseNext \/ Phase' = Phase
<1> SUFFICES ASSUME AdmissionInv, [Next]_vars
             PROVE  Admission!PhaseNext \/ Phase' = Phase
  OBVIOUS
<1>p. TypeOK /\ Places
  BY DEF AdmissionInv, Places
<1>1. ASSUME NEW w \in Worker, WorkerStep(w) \/ WorkerFails(w)
      PROVE  Admission!PhaseNext \/ Phase' = Phase
  BY <1>p, <1>1, WorkerAdmitted
<1>2. ASSUME NEW r \in Refiller, OfferProxies(r)
      PROVE  Admission!PhaseNext
  BY <1>p, <1>2, OfferAdmitted
<1>3. CASE Shutdown \/ Crash
  BY <1>p, <1>3, StopAdmitted
<1>4. CASE UNCHANGED memory
  BY <1>4, PhaseUnchanged DEF memory, Held, Queued
<1>5. ASSUME NEW r \in Refiller, RefillStep(r)
      PROVE  OfferProxies(r) \/ UNCHANGED memory
  BY <1>5 DEF RefillStep, RefillStart, RecoverSelect, RecoverUpdate, FetchBatch
<1>6. RefillNoRoom \/ RefillFails \/ SyncSources \/ ResyncSources \/ Start => UNCHANGED memory
  BY DEF RefillNoRoom, RefillFails, SyncSources, ResyncSources, Start
<1>7. (\E p \in Proxy : Collect(p) \/ Touch(p) \/ Time(p)) \/ Connectivity
        => UNCHANGED memory
  BY DEF Collect, Touch, Time, StuckTimeout, CooldownEnds, RecheckDue, Connectivity
<1>8. UNCHANGED vars => UNCHANGED memory
  BY DEF vars
<1>9. QED
  BY <1>1, <1>2, <1>3, <1>4, <1>5, <1>6, <1>7, <1>8 DEF Next, Stop, StartFails

\* The job keeps the promise of CheckAdmission: with a proxy's phase read off
\* the queue and the workers, every step admits free proxies, begins, skips or
\* ends one check, abandons the waiting ones, or leaves all phases alone.
THEOREM AdmissionRefinement == Spec => AdmissionKept
<1>1. Init => Admission!PhaseInit
  BY InitAdmitted DEF Admission!PhaseInit, Phase
<1>2. AdmissionInv /\ [Next]_vars =>
        [Admission!PhaseNext]_[p \in Proxy |-> IF p \in Held THEN "checking"
                                               ELSE IF p \in Queued THEN "waiting"
                                               ELSE "free"]
  BY AdmittedStep DEF Phase
<1>3. QED
  BY <1>1, <1>2, InitAdmission, AdmissionStep, PTL
  DEF Spec, AdmissionKept, Admission!AdmissionSpec

-----------------------------------------------------------------------------
(* The rows stay coherent, and are removed only when that is earned.       *)

SameCounters(row, other) ==
    row.failures = other.failures /\ row.marks = other.marks

\* Everything but a persisted outcome leaves the counters alone.
LEMMA CountersKept ==
    ASSUME NEW row \in Row, Coherent(row)
    PROVE  /\ Coherent(MarkedChecking(row)) /\ SameCounters(MarkedChecking(row), row)
           /\ Coherent(Recovered(row)) /\ SameCounters(Recovered(row), row)
           /\ Coherent(Touched(row)) /\ SameCounters(Touched(row), row)
           /\ Coherent(BecameDue(row)) /\ SameCounters(BecameDue(row), row)
           /\ \A b \in BOOLEAN :
                 Coherent(WithLink(row, b)) /\ SameCounters(WithLink(row, b), row)
           /\ row.cooldown = "running" =>
                 Coherent(CooledDown(row)) /\ SameCounters(CooledDown(row), row)
           /\ row.status = "CHECKING" =>
                 Coherent(TimedOut(row)) /\ SameCounters(TimedOut(row), row)
<1> USE DEF Row, SameCounters
<1>1. Coherent(MarkedChecking(row)) /\ Coherent(Recovered(row))
  BY RowCoherence
<1>2. SameCounters(MarkedChecking(row), row) /\ SameCounters(Recovered(row), row)
  BY DEF MarkedChecking, Recovered
<1>3. Coherent(Touched(row)) /\ SameCounters(Touched(row), row)
  BY DEF Touched, Coherent
<1>4. Coherent(BecameDue(row)) /\ SameCounters(BecameDue(row), row)
  BY DEF BecameDue, Coherent
<1>5. ASSUME NEW b \in BOOLEAN
      PROVE  Coherent(WithLink(row, b)) /\ SameCounters(WithLink(row, b), row)
  BY DEF WithLink, Coherent
<1>6. row.cooldown = "running" =>
        Coherent(CooledDown(row)) /\ SameCounters(CooledDown(row), row)
  BY DEF CooledDown, Coherent
<1>7. row.status = "CHECKING" =>
        Coherent(TimedOut(row)) /\ SameCounters(TimedOut(row), row)
  BY DEF TimedOut, Coherent
<1>8. QED
  BY <1>1, <1>2, <1>3, <1>4, <1>5, <1>6, <1>7

LEMMA NewRowCoherent == NewRow \in Row /\ Coherent(NewRow)
BY ThresholdsAssumption DEF NewRow, Row, Status, Coherent

\* A step outside the handlers that keeps the counters of every row there was.
LEMMA RowsKept ==
    ASSUME InductiveInv, UNCHANGED <<pc, held, target>>, rows \subseteq rows',
           \A p \in Proxy : Coherent(db'[p]),
           \A p \in rows : SameCounters(db'[p], db[p])
    PROVE  RowsCoherent' /\ CheckOwnsRow'
BY DEF InductiveInv, RowsCoherent, CheckOwnsRow, SameCounters

LEMMA WorldRows ==
    ASSUME InductiveInv,
           \E p \in Proxy : Collect(p) \/ Touch(p) \/ Time(p)
    PROVE  RowsCoherent' /\ CheckOwnsRow'
<1>1. PICK p \in Proxy : Collect(p) \/ Touch(p) \/ Time(p)
  OBVIOUS
<1>2. db \in [Proxy -> Row] /\ \A q \in Proxy : Coherent(db[q])
  BY DEF InductiveInv, AdmissionInv, TypeOK, RowsCoherent
<1>3. db[p] \in Row /\ Coherent(db[p])
  BY <1>2
<1>4. UNCHANGED <<pc, held, target>> /\ rows \subseteq rows'
  BY <1>1 DEF Collect, Touch, Time, StuckTimeout, CooldownEnds, RecheckDue, memory
<1>5. /\ \A q \in Proxy : q # p => db'[q] = db[q]
      /\ \/ p \notin rows /\ db'[p] = NewRow
         \/ db'[p] \in {WithLink(db[p], TRUE), Touched(db[p]), BecameDue(db[p])}
         \/ db[p].status = "CHECKING" /\ db'[p] = TimedOut(db[p])
         \/ db[p].cooldown = "running" /\ db'[p] = CooledDown(db[p])
  BY <1>1, <1>2 DEF Collect, Touch, Time, StuckTimeout, CooldownEnds, RecheckDue
<1>6. Coherent(db'[p]) /\ (p \in rows => SameCounters(db'[p], db[p]))
  BY <1>3, <1>5, CountersKept, NewRowCoherent
<1>7. \A q \in Proxy : Coherent(db'[q])
  BY <1>2, <1>5, <1>6
<1>8. rows \subseteq Proxy
  BY DEF InductiveInv, AdmissionInv, TypeOK
<1>9. \A q \in rows : SameCounters(db'[q], db[q])
  BY <1>5, <1>6, <1>8 DEF SameCounters
<1>10. QED
  BY <1>4, <1>7, <1>9, RowsKept

LEMMA RefillRows ==
    ASSUME InductiveInv,
           \/ \E r \in Refiller : RefillStep(r)
           \/ RefillNoRoom \/ RefillFails \/ SyncSources \/ ResyncSources
    PROVE  RowsCoherent' /\ CheckOwnsRow'
<1>1. /\ db \in [Proxy -> Row] /\ \A q \in Proxy : Coherent(db[q])
      /\ rows \subseteq Proxy
  BY DEF InductiveInv, AdmissionInv, TypeOK, RowsCoherent
<1>2. UNCHANGED <<pc, held, target, rows>>
  BY DEF RefillStep, RefillStart, RecoverSelect, RecoverUpdate, FetchBatch,
         OfferProxies, RefillNoRoom, RefillFails, SyncSources, ResyncSources, memory
<1>3. \A q \in Proxy : db'[q] \in {db[q], Recovered(db[q]),
                                  WithLink(db[q], TRUE), WithLink(db[q], FALSE)}
  <2>1. ASSUME NEW r \in Refiller, RecoverUpdate(r)
        PROVE  \A q \in Proxy : db'[q] \in {db[q], Recovered(db[q])}
    BY <2>1 DEF RecoverUpdate
  <2>2. CASE SyncSources \/ ResyncSources
    <3>1. PICK enabled : db' = Relinked(enabled)
      BY <2>2, SyncWrites, Zenon
    <3>2. ASSUME NEW q \in Proxy
          PROVE  db'[q] \in {db[q], WithLink(db[q], TRUE), WithLink(db[q], FALSE)}
      <4>1. db'[q] = IF q \in rows THEN WithLink(db[q], q \in enabled) ELSE db[q]
        BY <3>1 DEF Relinked
      <4>2. CASE q \in enabled
        <5>1. (q \in enabled) = TRUE
          BY <4>2
        <5>2. QED
          BY <4>1, <5>1, Zenon
      <4>3. CASE q \notin enabled
        <5>1. (q \in enabled) = FALSE
          BY <4>3
        <5>2. QED
          BY <4>1, <5>1, Zenon
      <4>4. QED
        BY <4>2, <4>3
    <3>3. QED
      BY <3>2
  <2>3. ASSUME NEW r \in Refiller, RefillStep(r), ~RecoverUpdate(r)
        PROVE  db' = db
    BY <2>3 DEF RefillStep, RefillStart, RecoverSelect, FetchBatch, OfferProxies
  <2>4. RefillNoRoom \/ RefillFails => db' = db
    BY DEF RefillNoRoom, RefillFails
  <2>5. QED
    BY <2>1, <2>2, <2>3, <2>4
<1>4. \A q \in Proxy : Coherent(db'[q]) /\ SameCounters(db'[q], db[q])
  <2> TAKE q \in Proxy
  <2>1. SameCounters(db[q], db[q])
    BY DEF SameCounters
  <2>2. QED
    BY <1>1, <1>3, <2>1, CountersKept
<1>5. QED
  BY <1>1, <1>2, <1>4, RowsKept

\* A handler that ends wrote at most its own row, which no other handler is
\* checking, and left it coherent or removed it.
LEMMA ReleaseRows ==
    ASSUME InductiveInv, NEW w \in Worker, pc[w] # "idle", Release(w),
           held[w] \in Proxy => Coherent(db'[held[w]]),
           \A q \in Proxy : q # held[w] => db'[q] = db[q],
           \A q \in rows : q # held[w] => q \in rows'
    PROVE  RowsCoherent' /\ CheckOwnsRow'
<1>1. /\ \A v \in Worker : v # w => /\ pc'[v] = pc[v] /\ held'[v] = held[v]
                                    /\ target'[v] = target[v]
      /\ pc'[w] = "idle"
  BY DEF InductiveInv, AdmissionInv, TypeOK, Release
<1>2. RowsCoherent'
  BY DEF InductiveInv, RowsCoherent
<1>3. ASSUME NEW v \in Worker, pc'[v] \in {"probe", "revert", "persist"}
      PROVE  /\ held'[v] \in rows'
             /\ Coherent(target'[v])
             /\ db'[held'[v]].failures = target'[v].failures
             /\ db'[held'[v]].marks = target'[v].marks
  <2>1. v # w /\ pc[v] \in {"probe", "revert", "persist"}
    BY <1>1, <1>3
  <2>2. /\ held[v] \in rows /\ Coherent(target[v])
        /\ db[held[v]].failures = target[v].failures
        /\ db[held[v]].marks = target[v].marks
    BY <2>1 DEF InductiveInv, CheckOwnsRow
  <2>3. held[v] # held[w]
    BY <2>1 DEF InductiveInv, AdmissionInv, OneCheckPerProxy
  <2>4. held[v] \in Proxy
    BY <2>2 DEF InductiveInv, AdmissionInv, TypeOK
  <2>5. held'[v] = held[v] /\ target'[v] = target[v]
    BY <1>1, <2>1
  <2>6. db'[held[v]] = db[held[v]] /\ held[v] \in rows'
    BY <2>2, <2>3, <2>4
  <2>7. QED
    BY <2>2, <2>5, <2>6
<1>4. QED
  BY <1>2, <1>3 DEF CheckOwnsRow

LEMMA WorkerRows ==
    ASSUME InductiveInv, NEW w \in Worker, WorkerStep(w) \/ WorkerFails(w)
    PROVE  RowsCoherent' /\ CheckOwnsRow'
<1> DEFINE p == held[w]
<1>1. /\ db \in [Proxy -> Row] /\ \A q \in Proxy : Coherent(db[q])
      /\ rows \subseteq Proxy /\ target \in [Worker -> Row]
      /\ pc \in [Worker -> WorkerPhase] /\ held \in [Worker -> Proxy \cup {NoProxy}]
  BY DEF InductiveInv, AdmissionInv, TypeOK, RowsCoherent
<1>2. pc[w] # "idle" => p \in Proxy
  BY <1>1 DEF InductiveInv, AdmissionInv, HandlerState
<1>3. CASE TakeProxy(w)
  BY <1>1, <1>3 DEF TakeProxy, InductiveInv, RowsCoherent, CheckOwnsRow
<1>4. CASE SkipProxy(w)
  BY <1>4 DEF SkipProxy, InductiveInv, RowsCoherent, CheckOwnsRow
<1>5. CASE MarkChecking(w)
  <2>1. pc[w] = "mark" /\ rows' = rows /\ p \in Proxy
    BY <1>2, <1>5 DEF MarkChecking
  <2>2. db[p] \in Row /\ Coherent(db[p])
    BY <1>1, <2>1
  <2>3. /\ db'[p] \in {db[p], MarkedChecking(db[p])}
        /\ \A q \in Proxy : q # p => db'[q] = db[q]
    BY <1>1, <1>5, <2>1 DEF MarkChecking
  <2>4. Coherent(db'[p])
    BY <2>2, <2>3, CountersKept
  <2>5. CASE Release(w)
    BY <2>1, <2>3, <2>4, <2>5, ReleaseRows
  <2>6. CASE ~Release(w)
    <3>1. /\ p \in rows /\ db'[p] = MarkedChecking(db[p])
          /\ pc' = [pc EXCEPT ![w] = "probe"]
          /\ target' = [target EXCEPT ![w] = db[p]]
          /\ held' = held
      BY <1>1, <1>5, <2>1, <2>6 DEF MarkChecking
    <3>2. db'[p].failures = db[p].failures /\ db'[p].marks = db[p].marks
      BY <2>2, <3>1, CountersKept DEF SameCounters
    <3>3. RowsCoherent'
      BY <1>1, <2>3, <2>4 DEF RowsCoherent
    <3>4. ASSUME NEW v \in Worker, pc'[v] \in {"probe", "revert", "persist"}
          PROVE  /\ held'[v] \in rows'
                 /\ Coherent(target'[v])
                 /\ db'[held'[v]].failures = target'[v].failures
                 /\ db'[held'[v]].marks = target'[v].marks
      <4>1. CASE v = w
        BY <1>1, <2>1, <2>2, <3>1, <3>2, <4>1
      <4>2. CASE v # w
        <5>1. pc'[v] = pc[v] /\ target'[v] = target[v] /\ held'[v] = held[v]
          BY <1>1, <3>1, <4>2
        <5>2. /\ held[v] \in rows /\ Coherent(target[v])
              /\ db[held[v]].failures = target[v].failures
              /\ db[held[v]].marks = target[v].marks
          BY <3>4, <5>1 DEF InductiveInv, CheckOwnsRow
        <5>3. held[v] # p
          BY <2>1, <3>4, <4>2, <5>1
          DEF InductiveInv, AdmissionInv, OneCheckPerProxy
        <5>4. db'[held[v]] = db[held[v]]
          BY <1>1, <2>3, <5>2, <5>3
        <5>5. QED
          BY <2>1, <5>1, <5>2, <5>4
      <4>3. QED
        BY <4>1, <4>2
    <3>5. QED
      BY <3>3, <3>4 DEF CheckOwnsRow
  <2>7. QED
    BY <2>5, <2>6
<1>6. ASSUME NEW result \in Outcome, ProbeDone(w, result)
      PROVE  RowsCoherent' /\ CheckOwnsRow'
  BY <1>1, <1>6 DEF ProbeDone, InductiveInv, RowsCoherent, CheckOwnsRow
<1>7. CASE RevertCheck(w)
  <2>1. /\ pc[w] = "revert" /\ rows' = rows /\ p \in Proxy /\ Release(w)
        /\ db' = [db EXCEPT ![p] = Reverted(db[p], target[w].status)]
    BY <1>2, <1>7 DEF RevertCheck, InductiveInv, CheckOwnsRow
  <2>2. /\ Coherent(target[w]) /\ target[w] \in Row
        /\ db[p].failures = target[w].failures
        /\ db[p].marks = target[w].marks
        /\ db[p] \in Row /\ Coherent(db[p])
    BY <1>1, <2>1 DEF InductiveInv, CheckOwnsRow
  <2>3. /\ target[w].status \in Status
        /\ target[w].status \in {"HEALTHY", "NEW"} => db[p].failures = 0
        /\ target[w].status = "DEAD" => db[p].marks > 0
    BY <2>2 DEF Coherent, Row
  <2>4. Coherent(Reverted(db[p], target[w].status))
    BY <2>2, <2>3, RowCoherence
  <2>5. QED
    BY <1>1, <2>1, <2>4, ReleaseRows
<1>8. CASE PersistResult(w)
  <2>1. /\ pc[w] = "persist" /\ p \in Proxy /\ Release(w)
        /\ outcome[w] \in Outcome /\ p \in rows
    BY <1>2, <1>8
    DEF PersistResult, InductiveInv, AdmissionInv, HandlerState, CheckOwnsRow
  <2>2. db[p] \in Row /\ Coherent(db[p])
    BY <1>1, <2>1
  <2>3. CASE Removes(db[p], outcome[w])
    <3>1. rows' = rows \ {p} /\ db' = [db EXCEPT ![p] = NewRow]
      BY <1>8, <2>1, <2>3 DEF PersistResult
    <3>2. QED
      BY <1>1, <2>1, <3>1, NewRowCoherent, ReleaseRows
  <2>4. CASE ~Removes(db[p], outcome[w])
    <3>1. rows' = rows /\ db' = [db EXCEPT ![p] = Applied(db[p], outcome[w])]
      BY <1>8, <2>1, <2>4 DEF PersistResult
    <3>2. Coherent(Applied(db[p], outcome[w]))
      BY <2>1, <2>2, <2>4, RowCoherence
    <3>3. QED
      BY <1>1, <2>1, <3>1, <3>2, ReleaseRows
  <2>5. QED
    BY <2>3, <2>4
<1>9. CASE WorkerFails(w)
  BY <1>1, <1>2, <1>9, ReleaseRows DEF WorkerFails
<1>10. QED
  BY <1>3, <1>4, <1>5, <1>6, <1>7, <1>8, <1>9 DEF WorkerStep, TimelyStep

LEMMA InitRows == Init => InductiveInv
BY InitAdmission, NewRowCoherent
DEF Init, InductiveInv, RowsCoherent, CheckOwnsRow

LEMMA RowsStep == InductiveInv /\ [Next]_vars => InductiveInv'
<1> SUFFICES ASSUME InductiveInv, [Next]_vars
             PROVE  RowsCoherent' /\ CheckOwnsRow'
  BY AdmissionStep DEF InductiveInv
<1>1. ASSUME NEW w \in Worker, WorkerStep(w) \/ WorkerFails(w)
      PROVE  RowsCoherent' /\ CheckOwnsRow'
  BY <1>1, WorkerRows
<1>2. CASE \/ \E r \in Refiller : RefillStep(r)
          \/ RefillNoRoom \/ RefillFails \/ SyncSources \/ ResyncSources
  BY <1>2, RefillRows
<1>3. CASE Shutdown \/ Crash \/ Start
  <2>1. /\ rows' = rows /\ db' = db
        /\ \A w \in Worker :
             \/ pc'[w] = "idle"
             \/ /\ pc'[w] = pc[w] /\ held'[w] = held[w]
                /\ target'[w] = target[w]
    <3>1. CASE Shutdown
      BY <3>1 DEF Shutdown
    <3>2. CASE Crash
      BY <3>2 DEF Crash
    <3>3. CASE Start
      BY <3>3 DEF Start, memory
    <3>4. QED
      BY <1>3, <3>1, <3>2, <3>3
  <2>2. QED
    BY <2>1 DEF InductiveInv, RowsCoherent, CheckOwnsRow
<1>4. CASE \E p \in Proxy : Collect(p) \/ Touch(p) \/ Time(p)
  BY <1>4, WorldRows
<1>5. CASE Connectivity \/ UNCHANGED vars
  <2>1. UNCHANGED <<rows, db, pc, held, target>>
    BY <1>5 DEF Connectivity, vars, memory
  <2>2. QED
    BY <2>1 DEF InductiveInv, RowsCoherent, CheckOwnsRow
<1>6. Stop \/ StartFails => Shutdown
  BY DEF Stop, StartFails
<1>7. QED
  BY <1>1, <1>2, <1>3, <1>4, <1>5, <1>6 DEF Next

\* Whatever order checks, reverts and recoveries write a row in, and wherever
\* a crash or a failing step cuts them, its status, counters and cooldown
\* agree, for every threshold and number of levels.
THEOREM RowsAlwaysCoherent == Spec => []RowsCoherent
<1>1. InductiveInv => RowsCoherent
  BY DEF InductiveInv
<1>2. QED
  BY <1>1, InitRows, RowsStep, PTL DEF Spec

\* From its mark to its outcome a check owns its row: the row is there and its
\* counters are those the mark saw, whatever refills, recoveries, other workers
\* and shutdowns do meanwhile (_check_proxy, _persist_result).
THEOREM ChecksOwnRows == Spec => []CheckOwnsRow
<1>1. InductiveInv => CheckOwnsRow
  BY DEF InductiveInv
<1>2. QED
  BY <1>1, InitRows, RowsStep, PTL DEF Spec

LEMMA RemovalStep ==
    ASSUME InductiveInv, [Next]_vars, NEW p \in rows \ rows'
    PROVE  db[p].failures + 1 >= FailureThreshold + RemovalThreshold - 1
<1>1. PICK w \in Worker : PersistResult(w) /\ Removes(db[p], outcome[w])
  <2>1. \A w \in Worker :
          \/ TakeProxy(w) \/ SkipProxy(w) \/ MarkChecking(w) \/ RevertCheck(w)
          \/ \E result \in Outcome : ProbeDone(w, result)
          => rows' = rows
    BY DEF TakeProxy, SkipProxy, MarkChecking, RevertCheck, ProbeDone
  <2>2. \A w \in Worker : WorkerFails(w) => rows' = rows
    BY DEF WorkerFails
  <2>3. \A r \in Refiller : RefillStep(r) => rows' = rows
    BY DEF RefillStep, RefillStart, RecoverSelect, RecoverUpdate, FetchBatch,
           OfferProxies
  <2>4. RefillNoRoom \/ RefillFails \/ SyncSources \/ ResyncSources \/ Stop \/ StartFails \/ Crash \/ Start
          \/ Connectivity
          => rows' = rows
    BY DEF RefillNoRoom, RefillFails, SyncSources, ResyncSources, Stop, StartFails, Shutdown,
           Crash, Start, Connectivity
  <2>5. \A q \in Proxy : Collect(q) \/ Touch(q) \/ Time(q) => rows \subseteq rows'
    BY DEF Collect, Touch, Time, StuckTimeout, CooldownEnds, RecheckDue
  <2>6. UNCHANGED vars => rows' = rows
    BY DEF vars
  <2>7. PICK w \in Worker : PersistResult(w)
    BY <2>1, <2>2, <2>3, <2>4, <2>5, <2>6 DEF Next, WorkerStep, TimelyStep
  <2>8. Removes(db[p], outcome[w])
    BY <2>7 DEF PersistResult
  <2>9. QED
    BY <2>7, <2>8
<1>2. p \in Proxy /\ db[p] \in Row /\ Coherent(db[p])
  BY DEF InductiveInv, AdmissionInv, TypeOK, RowsCoherent
<1>3. QED
  BY <1>1, <1>2, ThresholdsAssumption DEF Removes, ReachesDeadMark, Coherent, Row

\* A row is deleted by the FailureThreshold + RemovalThreshold - 1st failure in
\* a row at the earliest ("DEAD seven times in a row", docs/architecture.md).
THEOREM RemovalAlwaysEarned == Spec => RemovalEarned
<1>1. InductiveInv /\ [Next]_vars =>
        [\A p \in rows \ rows' :
           db[p].failures + 1 >= FailureThreshold + RemovalThreshold - 1]_vars
  BY RemovalStep
<1>2. QED
  BY <1>1, InitRows, RowsStep, PTL DEF Spec, RemovalEarned

-----------------------------------------------------------------------------
(* A check without an answer leaves no trace.                              *)

\* A revert restores the whole row: its counters are those of the mark, because
\* nobody else counts, and the level follows from the marks.
THEOREM InconclusiveAlwaysRestores == Spec => InconclusiveRestores
<1>1. ASSUME InductiveInv, NEW w \in Worker, RevertCheck(w)
      PROVE  LET row == db'[held[w]] IN
             /\ row.status = target[w].status
             /\ row.failures = target[w].failures
             /\ row.marks = target[w].marks
             /\ row.level = target[w].level
  <2>1. /\ held[w] \in rows /\ held[w] \in Proxy /\ db \in [Proxy -> Row]
        /\ db[held[w]] \in Row /\ target[w] \in Row
        /\ Coherent(target[w]) /\ Coherent(db[held[w]])
        /\ db[held[w]].failures = target[w].failures
        /\ db[held[w]].marks = target[w].marks
    BY <1>1 DEF RevertCheck, InductiveInv, AdmissionInv, TypeOK, RowsCoherent, CheckOwnsRow
  <2>2. db[held[w]].level = target[w].level
    BY <2>1 DEF Coherent
  <2>3. db'[held[w]] = Reverted(db[held[w]], target[w].status)
    BY <1>1, <2>1 DEF RevertCheck
  <2>4. QED
    BY <2>1, <2>2, <2>3 DEF Reverted, Row
<1>2. InductiveInv =>
        [\A w \in Worker :
           LET row == db'[held[w]] IN
           RevertCheck(w) /\ db' # db
             => /\ row.status = target[w].status
                /\ row.failures = target[w].failures
                /\ row.marks = target[w].marks
                /\ row.level = target[w].level]_vars
  BY <1>1
<1>3. QED
  BY <1>2, InitRows, RowsStep, PTL DEF Spec, InconclusiveRestores
=============================================================================
