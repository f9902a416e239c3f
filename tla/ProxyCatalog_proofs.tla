------------------------ MODULE ProxyCatalog_proofs ------------------------
(***************************************************************************)
(* Proofs about ProxyCatalog, for every set of sources and endpoints, every *)
(* batch size, and cycles that overlap.                                    *)
(***************************************************************************)
EXTENDS ProxyCatalog, FiniteSetTheorems, TLAPS

-----------------------------------------------------------------------------
(* The inductive invariant.                                                *)

\* What the lock and the rows need to know of a view of the tables; there are
\* finitely many rows.
RowShaped(row) == DOMAIN row = {"endpoint", "protocol", "stale"}

ViewShaped(view) ==
    /\ view = [rows |-> view.rows, links |-> view.links]
    /\ view.rows = [id \in DOMAIN view.rows |-> view.rows[id]]
    /\ \A id \in DOMAIN view.rows : RowShaped(view.rows[id])
    /\ \E n \in Nat : DOMAIN view.rows \subseteq 1..n

\* A pending update keeps a row's label or makes it https.
SessionShaped(session) ==
    /\ DOMAIN session = {"phase", "left", "listing", "at", "seen", "updates",
                         "relinked", "adds", "count"}
    /\ session.phase \in CyclePhase
    /\ session.left \in Seq(Source)
    /\ session.phase \in {"fetch", "item", "insert", "commit", "total", "record"}
          => session.left # <<>>
    /\ session.adds \in Seq(Nat)
    /\ session.count \in Nat
    /\ \A id \in DOMAIN session.updates : session.updates[id] \in {"same", "https"}

ShapeInv ==
    /\ ViewShaped(saved) /\ ViewShaped(db)
    /\ cycle = [c \in Collector |-> cycle[c]]
    /\ \A c \in Collector : SessionShaped(cycle[c])
    /\ writer \in Collector \cup {NoOne}

\* Something is to be committed as long as the lock is held.
LockInv ==
    \A c \in Collector :
        writer = c => /\ cycle[c].phase \in {"item", "insert", "commit"}
                      /\ cycle[c].count > 0

\* The holder of the lock has removed no row, and made no https row http.
KeepsHttps(old, new) ==
    \A id \in DOMAIN old.rows \cap DOMAIN new.rows :
        old.rows[id].protocol = "https" => new.rows[id].protocol = "https"

AheadInv ==
    /\ writer = NoOne => db = saved
    /\ DOMAIN saved.rows \subseteq DOMAIN db.rows
    /\ KeepsHttps(saved, db)

\* A row that a session sees has a link, or gets one at its commit.
Linked(view, id) == \E s \in Source : <<id, s>> \in view.links

Added(session, id) == \E i \in 1..Len(session.adds) : session.adds[i] = id

LinkInv ==
    /\ RowsLinked
    /\ \A c \in Collector :
          writer = c => \A id \in DOMAIN db.rows : Linked(db, id) \/ Added(cycle[c], id)

CatalogInv ==
    /\ ShapeInv
    /\ LockInv
    /\ AheadInv
    /\ LinkInv

-----------------------------------------------------------------------------
(* Facts about the definitions.                                            *)

LEMMA NoOneElse == NoOne \notin Collector
BY CatalogAssumption DEF NoOne, CollectorName

\* Some ids have a highest one, and it is 0 if there are none.
LEMMA HighestId ==
    ASSUME NEW ids, NEW bound \in Nat, ids \subseteq 1..bound
    PROVE  /\ Max(ids \cup {0}) \in ids \cup {0} /\ Max(ids \cup {0}) \in Nat
           /\ \A id \in ids : Max(ids \cup {0}) >= id
<1> DEFINE S == ids \cup {0}
<1> DEFINE T == {n \in Nat : \E id \in S : n = bound - id}
           less == OpToRel(<, Nat)
<1>2. S \subseteq 0..bound
  OBVIOUS
<1>3. T \subseteq Nat /\ T # {}
  <2>1. bound = bound - 0 /\ 0 \in S
    OBVIOUS
  <2>2. bound \in T
    BY <2>1
  <2>3. QED
    BY <2>2
<1>4. \E n \in T : \A m \in T : <<m, n>> \notin less
  <2>1. IsWellFoundedOn(less, Nat)
    BY NatLessThanWellFounded
  <2> HIDE DEF T, less
  <2>2. QED
    BY <1>3, <2>1, WFMin
<1>5. PICK n \in T : \A m \in T : <<m, n>> \notin less
  BY <1>4
<1>6. \A m \in T : ~(m < n)
  BY <1>3, <1>5 DEF OpToRel
<1>7. PICK id \in S : n = bound - id
  OBVIOUS
<1>8. \A other \in S : id >= other
  <2> SUFFICES ASSUME NEW other \in S PROVE id >= other
    OBVIOUS
  <2>1. id \in Int /\ other \in Int /\ bound - other \in Nat
    BY <1>2
  <2>2. bound - other \in T
    BY <2>1
  <2>3. ~(bound - other < bound - id)
    BY <1>6, <1>7, <2>2
  <2>4. QED
    BY <2>1, <2>3
<1>9. Max(S) \in S /\ \A other \in S : Max(S) >= other
  BY <1>8 DEF Max
<1> HIDE DEF T, less
<1>10. Max(ids \cup {0}) \in 0..bound
  BY <1>2, <1>9
<1>11. QED
  BY <1>9, <1>10

\* The next id is above those in use.
LEMMA NextIdFresh ==
    ASSUME NEW view, ViewShaped(view)
    PROVE  NextId(view) \in Nat \ {0} /\ \A id \in DOMAIN view.rows : id < NextId(view)
<1>1. PICK bound \in Nat : DOMAIN view.rows \subseteq 1..bound
  BY DEF ViewShaped
<1>2. /\ Max(DOMAIN view.rows \cup {0}) \in Nat
      /\ \A id \in DOMAIN view.rows : Max(DOMAIN view.rows \cup {0}) >= id
  BY <1>1, HighestId
<1>3. QED
  BY <1>1, <1>2 DEF NextId

LEMMA RowWrites ==
    ASSUME NEW row, RowShaped(row)
    PROVE  /\ \A label : LET new == [row EXCEPT !.stale = FALSE, !.protocol = label]
                        IN  RowShaped(new) /\ new.protocol = label
           /\ LET new == [row EXCEPT !.stale = TRUE]
              IN  RowShaped(new) /\ new.protocol = row.protocol
BY DEF RowShaped

\* A flush keeps every row, its link and its https label, and links what was
\* added.
LEMMA FlushKeeps ==
    ASSUME NEW view, ViewShaped(view),
           NEW session, SessionShaped(session), session.left # <<>>
    PROVE  /\ ViewShaped(Flushed(view, session))
           /\ DOMAIN Flushed(view, session).rows = DOMAIN view.rows
           /\ KeepsHttps(view, Flushed(view, session))
           /\ \A id \in DOMAIN view.rows :
                 Linked(view, id) \/ Added(session, id)
                    => Linked(Flushed(view, session), id)
<1> DEFINE flushed == Flushed(view, session)
           written(id) == [view.rows[id] EXCEPT
                             !.stale = FALSE,
                             !.protocol = LabelIn(session, view, id)]
<1>1. flushed.rows = [id \in DOMAIN view.rows |->
                        IF id \in DOMAIN session.updates THEN written(id)
                        ELSE view.rows[id]]
  BY DEF Flushed
<1>2. flushed = [rows |-> flushed.rows, links |-> flushed.links]
  BY DEF Flushed
<1>3. DOMAIN flushed.rows = DOMAIN view.rows
  BY <1>1
<1>4. \A id \in DOMAIN view.rows :
         RowShaped(written(id)) /\ written(id).protocol = LabelIn(session, view, id)
  <2>1. \A id \in DOMAIN view.rows : RowShaped(view.rows[id])
    BY DEF ViewShaped
  <2>2. QED
    BY <2>1, RowWrites
<1>5. ASSUME NEW id \in DOMAIN view.rows
      PROVE  /\ RowShaped(flushed.rows[id])
             /\ view.rows[id].protocol = "https" => flushed.rows[id].protocol = "https"
  <2>1. CASE id \in DOMAIN session.updates
    <3>1. flushed.rows[id] = written(id)
      BY <1>1, <2>1
    <3>2. view.rows[id].protocol = "https" => LabelIn(session, view, id) = "https"
      BY <2>1 DEF LabelIn, SessionShaped
    <3>3. QED
      BY <1>4, <3>1, <3>2
  <2>2. CASE id \notin DOMAIN session.updates
    BY <1>1, <2>2 DEF ViewShaped
  <2>3. QED
    BY <2>1, <2>2
<1>6. ASSUME NEW id \in DOMAIN view.rows, Linked(view, id) \/ Added(session, id)
      PROVE  Linked(flushed, id)
  <2>1. flushed.links = view.links \cup
           {<<session.adds[i], Head(session.left)>> : i \in 1..Len(session.adds)}
    BY DEF Flushed
  <2>2. CASE Linked(view, id)
    BY <2>1, <2>2 DEF Linked
  <2>3. CASE Added(session, id)
    <3>1. Head(session.left) \in Source
      BY DEF SessionShaped
    <3>2. <<id, Head(session.left)>> \in flushed.links
      BY <2>1, <2>3 DEF Added
    <3>3. QED
      BY <3>1, <3>2 DEF Linked
  <2>4. QED
    BY <1>6, <2>2, <2>3
<1> HIDE DEF flushed, written
<1>7. flushed.rows = [id \in DOMAIN flushed.rows |-> flushed.rows[id]]
  BY <1>1, <1>3
<1>8. ViewShaped(flushed)
  BY <1>2, <1>3, <1>5, <1>7 DEF ViewShaped
<1>9. QED
  BY <1>3, <1>5, <1>6, <1>8 DEF KeepsHttps, flushed

-----------------------------------------------------------------------------
(* The steps of a cycle.                                                   *)

\* A session that goes from one phase to the next keeps its shape.
LEMMA OnwardKeeps ==
    ASSUME NEW session, SessionShaped(session), session.left # <<>>
    PROVE  /\ SessionShaped(Onward(session))
           /\ Onward(session).phase \in {"item", "commit", "total"}
           /\ session.count > 0 => Onward(session).phase \in {"item", "commit"}
           /\ Onward(session).left = session.left
           /\ Onward(session).adds = session.adds
           /\ Onward(session).count = session.count
<1> DEFINE next == IF session.count >= BatchSize THEN "commit"
                   ELSE IF session.at <= Len(session.listing) THEN "item"
                   ELSE IF session.count > 0 THEN "commit" ELSE "total"
<1>1. next \in {"item", "commit", "total"}
  OBVIOUS
<1>2. session.count > 0 => next \in {"item", "commit"}
  OBVIOUS
<1>3. Onward(session) = [session EXCEPT !.phase = next]
  BY DEF Onward
<1> HIDE DEF next
<1>4. /\ DOMAIN Onward(session) = DOMAIN session
      /\ Onward(session).phase = next /\ Onward(session).left = session.left
      /\ Onward(session).updates = session.updates
      /\ Onward(session).adds = session.adds /\ Onward(session).count = session.count
  BY <1>3 DEF SessionShaped
<1>5. QED
  BY <1>1, <1>2, <1>4 DEF SessionShaped, CyclePhase

\* The session of a cycle c becomes s, and the tables stay as they are.
SessionStep(c, s) ==
    /\ cycle' = [cycle EXCEPT ![c] = s]
    /\ UNCHANGED <<saved, db, writer, cleanup>>

\* Such a step keeps the invariant if s keeps the lock only with something to
\* commit, and forgets no link.
LEMMA SessionStepInv ==
    ASSUME CatalogInv, NEW c \in Collector, NEW s, SessionStep(c, s),
           SessionShaped(s),
           writer = c => /\ s.phase \in {"item", "insert", "commit"}
                         /\ s.count > 0
                         /\ \A id : Added(cycle[c], id) => Added(s, id)
    PROVE  CatalogInv'
<1> USE DEF CatalogInv
<1>1. /\ cycle' = [d \in Collector |-> cycle'[d]]
      /\ cycle'[c] = s
      /\ \A d \in Collector \ {c} : cycle'[d] = cycle[d]
  BY DEF SessionStep, ShapeInv
<1>2. saved' = saved /\ db' = db /\ writer' = writer
  BY DEF SessionStep
<1>3. ShapeInv'
  <2>1. \A d \in Collector : SessionShaped(cycle'[d])
    BY <1>1 DEF ShapeInv
  <2>2. QED
    BY <1>1, <1>2, <2>1 DEF ShapeInv
<1>4. LockInv'
  BY <1>1, <1>2 DEF LockInv
<1>5. AheadInv'
  BY <1>2 DEF AheadInv
<1>6. LinkInv'
  <2>1. RowsLinked'
    BY <1>2 DEF LinkInv, RowsLinked
  <2>2. ASSUME NEW d \in Collector, writer' = d, NEW id \in DOMAIN db'.rows
        PROVE  Linked(db', id) \/ Added(cycle'[d], id)
    <3>1. Linked(db, id) \/ Added(cycle[d], id)
      BY <1>2, <2>2 DEF LinkInv
    <3>2. QED
      BY <1>1, <1>2, <2>2, <3>1
  <2>3. QED
    BY <2>1, <2>2 DEF LinkInv
<1>7. QED
  BY <1>3, <1>4, <1>5, <1>6

\* A session that starts anew.
LEMMA CycleAtShaped ==
    ASSUME NEW phase \in CyclePhase, NEW left \in Seq(Source), NEW listing,
           phase \in {"fetch", "item", "insert", "commit", "total", "record"}
              => left # <<>>
    PROVE  /\ SessionShaped(CycleAt(phase, left, listing))
           /\ CycleAt(phase, left, listing).phase = phase
           /\ CycleAt(phase, left, listing).left = left
           /\ CycleAt(phase, left, listing).count = 0
<1>1. CycleAt(phase, left, listing) =
        [phase |-> phase, left |-> left, listing |-> listing, at |-> 1,
         seen |-> {}, updates |-> NoUpdate, relinked |-> {}, adds |-> <<>>,
         count |-> 0]
  BY DEF CycleAt
<1>2. DOMAIN NoUpdate = {}
  BY DEF NoUpdate
<1>3. <<>> \in Seq(Nat)
  OBVIOUS
<1>4. QED
  BY <1>1, <1>2, <1>3 DEF SessionShaped

\* A collector that rests, or whose task has died.
LEMMA AtRestShaped ==
    ASSUME NEW phase \in {"rest", "dead"}
    PROVE  SessionShaped(CycleAt(phase, <<>>, <<>>))
<1>1. <<>> \in Seq(Source)
  OBVIOUS
<1>2. phase \in CyclePhase
  BY DEF CyclePhase
<1>3. phase \notin {"fetch", "item", "insert", "commit", "total", "record"}
  OBVIOUS
<1>4. QED
  BY <1>1, <1>2, <1>3, CycleAtShaped

\* What a cycle's own step may do to its session.
LEMMA QuietSteps ==
    ASSUME CatalogInv, NEW c \in Collector,
           \/ BeginCycle(c) \/ EndCycle(c) \/ SkipDisabled(c) \/ OpenSource(c)
           \/ FinishSource(c) \/ RecordError(c)
    PROVE  CatalogInv'
<1> USE DEF CatalogInv
<1>1. SessionShaped(cycle[c]) /\ writer # c
  BY NoOneElse DEF ShapeInv, LockInv, BeginCycle, EndCycle, SkipDisabled, OpenSource,
                   FinishSource, RecordError
<1>2. PICK phase \in CyclePhase, left \in Seq(Source),
           listing \in {<<>>, cycle[c].listing} :
         /\ SessionStep(c, CycleAt(phase, left, listing))
         /\ phase \in {"fetch", "item", "insert", "commit", "total", "record"} => left # <<>>
  <2>1. cycle[c].left \in Seq(Source)
    BY <1>1 DEF SessionShaped
  <2>2. cycle[c].left # <<>> => Tail(cycle[c].left) \in Seq(Source)
    BY <2>1
  <2>3. CASE BeginCycle(c)
    BY <2>3, CatalogAssumption DEF BeginCycle, SessionStep, CyclePhase
  <2>4. CASE EndCycle(c)
    <3>1. <<>> \in Seq(Source)
      OBVIOUS
    <3>2. QED
      BY <2>4, <3>1 DEF EndCycle, AtRest, SessionStep, CyclePhase
  <2>5. CASE SkipDisabled(c)
    BY <2>2, <2>5 DEF SkipDisabled, SessionStep, CyclePhase
  <2>6. CASE OpenSource(c)
    BY <2>1, <2>6 DEF OpenSource, SessionStep, CyclePhase
  <2>7. CASE FinishSource(c)
    <3>1. cycle[c].left # <<>>
      BY <1>1, <2>7 DEF FinishSource, SessionShaped
    <3>2. QED
      BY <2>2, <2>7, <3>1 DEF FinishSource, SessionStep, CyclePhase
  <2>8. CASE RecordError(c)
    <3>1. cycle[c].left # <<>>
      BY <1>1, <2>8 DEF RecordError, SessionShaped
    <3>2. QED
      BY <2>2, <2>8, <3>1 DEF RecordError, SessionStep, CyclePhase
  <2>9. QED
    BY <2>3, <2>4, <2>5, <2>6, <2>7, <2>8
<1>3. QED
  BY <1>1, <1>2, CycleAtShaped, SessionStepInv

LEMMA FetchListingStep ==
    ASSUME CatalogInv, NEW c \in Collector, FetchListing(c)
    PROVE  CatalogInv'
<1> USE DEF CatalogInv
<1>1. /\ SessionShaped(cycle[c]) /\ cycle[c].phase = "fetch" /\ writer # c
      /\ cycle[c].left # <<>> /\ cycle[c].left \in Seq(Source)
  BY DEF FetchListing, ShapeInv, LockInv, SessionShaped
<1>2. PICK listing : SessionStep(c, Onward(CycleAt("item", cycle[c].left, listing)))
  BY DEF FetchListing, SessionStep
<1>3. /\ SessionShaped(CycleAt("item", cycle[c].left, listing))
      /\ CycleAt("item", cycle[c].left, listing).left # <<>>
  BY <1>1, CycleAtShaped DEF CyclePhase
<1>4. QED
  BY <1>1, <1>2, <1>3, OnwardKeeps, SessionStepInv

LEMMA ItemSteps ==
    ASSUME CatalogInv, NEW c \in Collector, SkipItem(c) \/ FindNone(c)
    PROVE  CatalogInv'
<1> USE DEF CatalogInv
<1> DEFINE session == cycle[c]
<1>1. /\ SessionShaped(session) /\ session.phase = "item" /\ session.left # <<>>
      /\ writer = c => session.count > 0
  BY DEF SkipItem, FindNone, ShapeInv, LockInv, SessionShaped
<1>2. CASE SkipItem(c)
  <2> DEFINE next == [session EXCEPT !.at = @ + 1]
  <2>1. SessionStep(c, Onward(next))
    BY <1>2 DEF SkipItem, SessionStep
  <2>2. /\ SessionShaped(next) /\ next.left = session.left
        /\ next.adds = session.adds /\ next.count = session.count
    BY <1>1 DEF SessionShaped
  <2> HIDE DEF next
  <2>3. \A id : Added(session, id) => Added(Onward(next), id)
    BY <1>1, <2>2, OnwardKeeps DEF Added
  <2>4. QED
    BY <1>1, <2>1, <2>2, <2>3, OnwardKeeps, SessionStepInv
<1>3. CASE FindNone(c)
  <2> DEFINE seen == session.seen \cup {KeyOf(ItemOf(session))}
             next == [session EXCEPT !.phase = "insert", !.seen = seen]
  <2>1. cycle' = [cycle EXCEPT ![c] = next]
    BY <1>3 DEF FindNone, ShapeInv
  <2>2. SessionStep(c, next)
    BY <1>3, <2>1 DEF FindNone, SessionStep
  <2>3. /\ SessionShaped(next) /\ next.phase = "insert"
        /\ next.adds = session.adds /\ next.count = session.count
    <3> HIDE DEF seen
    <3>1. /\ DOMAIN next = DOMAIN session
          /\ next.phase = "insert" /\ next.left = session.left
          /\ next.updates = session.updates
          /\ next.adds = session.adds /\ next.count = session.count
      BY <1>1 DEF SessionShaped
    <3>2. QED
      BY <1>1, <3>1 DEF SessionShaped, CyclePhase
  <2> HIDE DEF next
  <2>4. \A id : Added(session, id) => Added(next, id)
    BY <2>3 DEF Added
  <2>5. QED
    BY <1>1, <2>2, <2>3, <2>4, SessionStepInv
<1>4. QED
  BY <1>2, <1>3

\* An item that is done with leaves something to commit.
LEMMA CountedKeeps ==
    ASSUME NEW session, SessionShaped(session), session.left # <<>>
    PROVE  /\ SessionShaped(Counted(session))
           /\ Counted(session).phase \in {"item", "commit"}
           /\ Counted(session).adds = session.adds
           /\ Counted(session).count > 0
<1> DEFINE next == [session EXCEPT !.at = @ + 1, !.count = @ + 1]
<1>1. Counted(session) = Onward(next)
  BY DEF Counted
<1>2. /\ DOMAIN next = DOMAIN session
      /\ next.phase = session.phase /\ next.left = session.left
      /\ next.updates = session.updates
      /\ next.adds = session.adds /\ next.count = session.count + 1
  BY DEF SessionShaped
<1> HIDE DEF next
<1>3. SessionShaped(next) /\ next.left # <<>> /\ next.count > 0
  BY <1>2 DEF SessionShaped
<1>4. QED
  BY <1>1, <1>2, <1>3, OnwardKeeps

\* What a session that may write finds: the committed rows, as they are
\* labelled, and a link of each row or one that it adds.
LEMMA ViewFacts ==
    ASSUME CatalogInv, NEW c \in Collector
    PROVE  /\ ViewShaped(View(c))
           /\ DOMAIN saved.rows \subseteq DOMAIN View(c).rows
           /\ KeepsHttps(saved, View(c))
           /\ \A id \in DOMAIN View(c).rows :
                 Linked(View(c), id) \/ Added(cycle[c], id)
<1> USE DEF CatalogInv
<1>1. CASE writer = c
  BY <1>1 DEF View, ShapeInv, AheadInv, LinkInv
<1>2. CASE writer # c
  <2>1. View(c) = saved
    BY <1>2 DEF View
  <2>2. \A id \in DOMAIN saved.rows : Linked(saved, id)
    BY DEF LinkInv, RowsLinked, Linked
  <2>3. QED
    BY <2>1, <2>2 DEF ShapeInv, KeepsHttps
<1>3. QED
  BY <1>1, <1>2

LEMMA FindOneStep ==
    ASSUME CatalogInv, NEW c \in Collector, FindOne(c)
    PROVE  CatalogInv'
<1> USE DEF CatalogInv
<1> DEFINE session == cycle[c]
<1>1. /\ SessionShaped(session) /\ session.phase = "item" /\ session.left # <<>>
  BY DEF FindOne, ShapeInv, SessionShaped
<1>2. PICK id \in Existing(c) :
        LET label == LabelIn(session, View(c), id)
            merged == MergedLabel(label, ItemOf(session).protocol)
            written == IF merged # label THEN merged
                       ELSE IF id \in DOMAIN session.updates
                               THEN session.updates[id] ELSE "same"
            linked == <<id, Head(session.left)>> \in View(c).links
        IN  cycle' = [cycle EXCEPT ![c] = Counted([session EXCEPT
                !.seen = @ \cup {KeyOf(ItemOf(session))},
                !.updates = [i \in DOMAIN @ \cup {id} |->
                                IF i = id THEN written ELSE @[i]],
                !.relinked = IF linked THEN @ \cup {id} ELSE @,
                !.adds = IF linked THEN @ ELSE Append(@, id)])]
  BY DEF FindOne
<1> DEFINE label == LabelIn(session, View(c), id)
           merged == MergedLabel(label, ItemOf(session).protocol)
           written == IF merged # label THEN merged
                      ELSE IF id \in DOMAIN session.updates
                              THEN session.updates[id] ELSE "same"
           linked == <<id, Head(session.left)>> \in View(c).links
           seen == session.seen \cup {KeyOf(ItemOf(session))}
           updates == [i \in DOMAIN session.updates \cup {id} |->
                          IF i = id THEN written ELSE session.updates[i]]
           relinked == IF linked THEN session.relinked \cup {id} ELSE session.relinked
           adds == IF linked THEN session.adds ELSE Append(session.adds, id)
           next == [session EXCEPT !.seen = seen, !.updates = updates,
                                   !.relinked = relinked, !.adds = adds]
<1>3. cycle' = [cycle EXCEPT ![c] = Counted(next)]
  BY <1>2
<1>4. id \in Nat
  <2>1. id \in DOMAIN View(c).rows
    BY DEF Existing
  <2>2. ViewShaped(View(c))
    BY ViewFacts
  <2>3. PICK n \in Nat : DOMAIN View(c).rows \subseteq 1..n
    BY <2>2 DEF ViewShaped
  <2>4. QED
    BY <2>1, <2>3
<1>5. written \in {"same", "https"}
  <2>1. merged # label => merged = "https"
    BY DEF MergedLabel
  <2>2. id \in DOMAIN session.updates => session.updates[id] \in {"same", "https"}
    BY <1>1 DEF SessionShaped
  <2>3. QED
    BY <2>1, <2>2
<1>6. \A i \in DOMAIN updates : updates[i] \in {"same", "https"}
  <2> HIDE DEF written
  <2>1. QED
    BY <1>1, <1>5 DEF SessionShaped
<1>7. adds \in Seq(Nat) /\ \A i : Added(session, i) => \E j \in 1..Len(adds) : adds[j] = i
  <2> HIDE DEF linked
  <2>1. session.adds \in Seq(Nat)
    BY <1>1 DEF SessionShaped
  <2>2. CASE linked
    BY <2>1, <2>2 DEF Added
  <2>3. CASE ~linked
    <3>1. /\ Append(session.adds, id) \in Seq(Nat)
          /\ Len(Append(session.adds, id)) = Len(session.adds) + 1
          /\ \A i \in 1..Len(session.adds) : Append(session.adds, id)[i] = session.adds[i]
      BY <1>4, <2>1
    <3>2. \A i \in 1..Len(session.adds) : i \in 1..Len(session.adds) + 1
      BY <2>1
    <3>3. QED
      BY <2>3, <3>1, <3>2 DEF Added
  <2>4. QED
    BY <2>2, <2>3
<1> HIDE DEF label, merged, written, linked, seen, updates, relinked, adds
<1>8. /\ DOMAIN next = DOMAIN session
      /\ next.phase = session.phase /\ next.left = session.left
      /\ next.updates = updates /\ next.adds = adds /\ next.count = session.count
  BY <1>1 DEF SessionShaped
<1> HIDE DEF next
<1>9. SessionShaped(next) /\ next.left # <<>>
  BY <1>1, <1>6, <1>7, <1>8 DEF SessionShaped
<1>10. \A i : Added(session, i) => Added(Counted(next), i)
  <2>1. Counted(next).adds = adds
    BY <1>8, <1>9, CountedKeeps
  <2>2. QED
    BY <1>7, <2>1 DEF Added
<1>11. SessionStep(c, Counted(next))
  BY <1>3 DEF FindOne, SessionStep
<1>12. QED
  BY <1>9, <1>10, <1>11, CountedKeeps, SessionStepInv

\* An exception in a visit takes the lock and everything pending with it.
LEMMA FailStep ==
    ASSUME CatalogInv, NEW c \in Collector, Fail(c), cycle[c].left # <<>>
    PROVE  CatalogInv'
<1> USE DEF CatalogInv
<1> DEFINE s == CycleAt("record", cycle[c].left, cycle[c].listing)
<1>1. SessionShaped(s)
  BY CycleAtShaped DEF ShapeInv, SessionShaped, CyclePhase
<1> HIDE DEF s
<1>2. cycle' = [cycle EXCEPT ![c] = s] /\ saved' = saved
  BY DEF Fail, s
<1>3. CASE writer # c
  BY <1>1, <1>2, <1>3, SessionStepInv DEF Fail, SessionStep
<1>4. CASE writer = c
  <2>1. writer' = NoOne /\ db' = saved
    BY <1>4 DEF Fail
  <2>2. cycle' = [d \in Collector |-> cycle'[d]] /\ \A d \in Collector : SessionShaped(cycle'[d])
    BY <1>1, <1>2 DEF ShapeInv
  <2>3. ShapeInv' /\ LockInv' /\ AheadInv'
    BY <1>2, <2>1, <2>2, NoOneElse DEF ShapeInv, LockInv, AheadInv, KeepsHttps
  <2>4. LinkInv'
    BY <1>2, <2>1, NoOneElse DEF LinkInv, RowsLinked
  <2>5. QED
    BY <2>3, <2>4
<1>5. QED
  BY <1>3, <1>4

LEMMA InsertRowStep ==
    ASSUME CatalogInv, NEW c \in Collector, InsertRow(c)
    PROVE  CatalogInv'
<1> USE DEF CatalogInv
<1> DEFINE view == View(c)
           session == cycle[c]
           id == NextId(view)
           flushed == Flushed(view, session)
           next == [FlushedSession(session) EXCEPT !.adds = <<id>>]
<1>1. SessionShaped(session) /\ session.left # <<>>
  BY DEF InsertRow, ShapeInv, SessionShaped
<1>2. CASE Fail(c)
  BY <1>1, <1>2, FailStep
<1>3. CASE ~Fail(c)
  <2>1. /\ db' = Inserted(view, session, id)
        /\ writer' = c /\ saved' = saved
        /\ cycle' = [cycle EXCEPT ![c] = Counted(next)]
    BY <1>3 DEF InsertRow
  <2>2. /\ ViewShaped(view)
        /\ DOMAIN saved.rows \subseteq DOMAIN view.rows
        /\ KeepsHttps(saved, view)
        /\ \A i \in DOMAIN view.rows : Linked(view, i) \/ Added(session, i)
    BY ViewFacts
  <2>3. /\ ViewShaped(flushed)
        /\ DOMAIN flushed.rows = DOMAIN view.rows
        /\ KeepsHttps(view, flushed)
        /\ \A i \in DOMAIN view.rows : Linked(flushed, i)
    BY <1>1, <2>2, FlushKeeps
  <2>4. id \in Nat \ {0} /\ id \notin DOMAIN view.rows
    BY <2>2, NextIdFresh
  <2>5. /\ db'.links = flushed.links
        /\ db'.rows = [i \in DOMAIN view.rows \cup {id} |->
                          IF i = id THEN NewRow(ItemOf(session)) ELSE flushed.rows[i]]
        /\ db' = [rows |-> db'.rows, links |-> db'.links]
    BY <2>1, <2>3 DEF Inserted, ViewShaped
  <2>6. /\ DOMAIN next = DOMAIN session
        /\ next.phase = session.phase /\ next.left = session.left
        /\ next.updates = NoUpdate
        /\ next.adds = <<id>> /\ next.count = session.count
    BY <1>1 DEF FlushedSession, SessionShaped
  <2> HIDE DEF next, id, flushed, view, session
  <2>7. SessionShaped(next) /\ next.left # <<>>
    BY <1>1, <2>4, <2>6 DEF SessionShaped, NoUpdate
  <2>8. /\ SessionShaped(Counted(next)) /\ Counted(next).adds = <<id>>
        /\ Counted(next).phase \in {"item", "commit"} /\ Counted(next).count > 0
    BY <2>6, <2>7, CountedKeeps
  <2>9. /\ cycle' = [d \in Collector |-> cycle'[d]]
        /\ cycle'[c] = Counted(next)
        /\ \A d \in Collector : SessionShaped(cycle'[d])
    BY <2>1, <2>8 DEF ShapeInv
  <2>10. ViewShaped(db')
    <3>1. DOMAIN db'.rows = DOMAIN view.rows \cup {id}
      BY <2>5
    <3>2. RowShaped(NewRow(ItemOf(session)))
      BY DEF RowShaped, NewRow
    <3>3. \A i \in DOMAIN db'.rows : RowShaped(db'.rows[i])
      BY <2>3, <2>5, <3>2 DEF ViewShaped
    <3>4. PICK n \in Nat : DOMAIN view.rows \subseteq 1..n
      BY <2>2 DEF ViewShaped
    <3>5. n + id \in Nat /\ DOMAIN db'.rows \subseteq 1..(n + id)
      BY <2>4, <3>1, <3>4
    <3>6. db'.rows = [i \in DOMAIN db'.rows |-> db'.rows[i]]
      BY <2>5
    <3>7. QED
      BY <2>5, <3>3, <3>5, <3>6 DEF ViewShaped
  <2>11. ShapeInv'
    BY <2>1, <2>9, <2>10 DEF ShapeInv
  <2>12. LockInv'
    BY <2>1, <2>8, <2>9 DEF LockInv
  <2>13. AheadInv'
    <3>1. DOMAIN saved'.rows \subseteq DOMAIN db'.rows
      BY <2>1, <2>2, <2>5
    <3>2. ASSUME NEW i \in DOMAIN saved.rows, saved.rows[i].protocol = "https"
          PROVE  db'.rows[i].protocol = "https"
      <4>1. i \in DOMAIN view.rows /\ i # id
        BY <2>2, <2>4
      <4>2. view.rows[i].protocol = "https"
        BY <2>2, <3>2, <4>1 DEF KeepsHttps
      <4>3. flushed.rows[i].protocol = "https"
        BY <2>3, <4>1, <4>2 DEF KeepsHttps
      <4>4. QED
        BY <2>5, <4>1, <4>3
    <3>3. QED
      BY <2>1, <3>1, <3>2, NoOneElse DEF AheadInv, KeepsHttps
  <2>14. LinkInv'
    <3>1. RowsLinked'
      BY <2>1 DEF LinkInv, RowsLinked
    <3>2. ASSUME NEW i \in DOMAIN db'.rows
          PROVE  Linked(db', i) \/ Added(cycle'[c], i)
      <4>1. CASE i = id
        <5>1. 1 \in 1..Len(<<id>>) /\ <<id>>[1] = id
          OBVIOUS
        <5>2. cycle'[c].adds = <<id>>
          BY <2>8, <2>9
        <5>3. Added(cycle'[c], id)
          BY <5>1, <5>2 DEF Added
        <5>4. QED
          BY <4>1, <5>3
      <4>2. CASE i # id
        BY <2>3, <2>5, <4>2 DEF Linked
      <4>3. QED
        BY <4>1, <4>2
    <3>3. QED
      BY <2>1, <3>1, <3>2 DEF LinkInv
  <2>15. QED
    BY <2>11, <2>12, <2>13, <2>14
<1>4. QED
  BY <1>2, <1>3

\* A commit keeps https rows, which the others see only now.
LEMMA CommitBatchStep ==
    ASSUME CatalogInv, NEW c \in Collector, CommitBatch(c)
    PROVE  CatalogInv' /\ KeepsHttps(saved, saved')
<1> USE DEF CatalogInv
<1> DEFINE view == View(c)
           session == cycle[c]
           flushed == Flushed(view, session)
           next == [FlushedSession(session) EXCEPT !.count = 0]
<1>1. SessionShaped(session) /\ session.left # <<>>
  BY DEF CommitBatch, ShapeInv, SessionShaped
<1>2. CASE Fail(c)
  <2>1. saved' = saved
    BY <1>2 DEF Fail
  <2>2. QED
    BY <1>1, <1>2, <2>1, FailStep DEF KeepsHttps
<1>3. CASE ~Fail(c)
  <2>1. /\ saved' = flushed /\ db' = saved' /\ writer' = NoOne
        /\ cycle' = [cycle EXCEPT ![c] = Onward(next)]
    BY <1>3 DEF CommitBatch
  <2>2. /\ ViewShaped(view)
        /\ DOMAIN saved.rows \subseteq DOMAIN view.rows
        /\ KeepsHttps(saved, view)
        /\ \A i \in DOMAIN view.rows : Linked(view, i) \/ Added(session, i)
    BY ViewFacts
  <2>3. /\ ViewShaped(flushed)
        /\ DOMAIN flushed.rows = DOMAIN view.rows
        /\ KeepsHttps(view, flushed)
        /\ \A i \in DOMAIN view.rows : Linked(flushed, i)
    BY <1>1, <2>2, FlushKeeps
  <2>4. /\ DOMAIN next = DOMAIN session
        /\ next.phase = session.phase /\ next.left = session.left
        /\ next.updates = NoUpdate
        /\ next.adds = <<>> /\ next.count = 0
    BY <1>1 DEF FlushedSession, SessionShaped
  <2> HIDE DEF next, flushed, view, session
  <2>5. SessionShaped(next) /\ next.left # <<>>
    <3>1. <<>> \in Seq(Nat)
      OBVIOUS
    <3>2. QED
      BY <1>1, <2>4, <3>1 DEF SessionShaped, NoUpdate
  <2>6. /\ cycle' = [d \in Collector |-> cycle'[d]]
        /\ \A d \in Collector : SessionShaped(cycle'[d])
    BY <2>1, <2>5, OnwardKeeps DEF ShapeInv
  <2>7. ShapeInv' /\ LockInv'
    BY <2>1, <2>3, <2>6, NoOneElse DEF ShapeInv, LockInv
  <2>8. KeepsHttps(saved, saved')
    BY <2>1, <2>2, <2>3 DEF KeepsHttps
  <2>9. AheadInv'
    BY <2>1 DEF AheadInv, KeepsHttps
  <2>10. LinkInv'
    BY <2>1, <2>3, NoOneElse DEF LinkInv, RowsLinked, Linked
  <2>11. QED
    BY <2>7, <2>8, <2>9, <2>10
<1>4. QED
  BY <1>2, <1>3

LEMMA ProcessEndsStep ==
    ASSUME CatalogInv, ProcessEnds
    PROVE  CatalogInv'
<1> USE DEF CatalogInv
<1>1. cycle' = [c \in Collector |-> AtRest] /\ writer' = NoOne /\ db' = saved /\ saved' = saved
  BY DEF ProcessEnds
<1>2. SessionShaped(AtRest)
  BY AtRestShaped DEF AtRest
<1>3. ShapeInv' /\ LockInv' /\ AheadInv'
  BY <1>1, <1>2, NoOneElse DEF ShapeInv, LockInv, AheadInv, KeepsHttps
<1>4. LinkInv'
  BY <1>1, NoOneElse DEF LinkInv, RowsLinked
<1>5. QED
  BY <1>3, <1>4

LEMMA CycleDiesStep ==
    ASSUME CatalogInv, NEW c \in Collector, CycleDies(c)
    PROVE  CatalogInv'
<1> DEFINE s == CycleAt("dead", <<>>, <<>>)
<1>1. CASE c # "loop"
  BY <1>1, ProcessEndsStep DEF CycleDies
<1>2. CASE c = "loop"
  <2>1. cycle[c].phase \in {"open", "record"}
    BY DEF CycleDies, LockTimesOut
  <2>2. writer # c
    BY <2>1 DEF CatalogInv, LockInv
  <2>3. SessionStep(c, s)
    BY <1>2 DEF CycleDies, SessionStep
  <2>4. SessionShaped(s)
    BY AtRestShaped
  <2>5. QED
    BY <2>2, <2>3, <2>4, SessionStepInv
<1>3. QED
  BY <1>1, <1>2

-----------------------------------------------------------------------------
(* The steps of the others.                                                *)

\* A transaction of somebody else, while no cycle has the lock.
LEMMA OthersCommit ==
    ASSUME CatalogInv, writer = NoOne, writer' = writer, cycle' = cycle,
           db' = saved', ViewShaped(saved'), RowsLinked'
    PROVE  CatalogInv'
BY NoOneElse DEF CatalogInv, ShapeInv, LockInv, AheadInv, LinkInv, KeepsHttps

LEMMA WithoutKeeps ==
    ASSUME CatalogInv, NEW ids, saved' = Without(saved, ids)
    PROVE  ViewShaped(saved') /\ RowsLinked' /\ KeepsHttps(saved, saved')
<1>1. /\ saved'.rows = [id \in DOMAIN saved.rows \ ids |-> saved.rows[id]]
      /\ saved'.links = {link \in saved.links : link[1] \notin ids}
      /\ saved' = [rows |-> saved'.rows, links |-> saved'.links]
  BY DEF Without
<1>2. DOMAIN saved'.rows = DOMAIN saved.rows \ ids
  BY <1>1
<1>3. /\ ViewShaped(saved)
      /\ \A id \in DOMAIN saved.rows : \E s \in Source : <<id, s>> \in saved.links
  BY DEF CatalogInv, ShapeInv, LinkInv, RowsLinked
<1>4. ViewShaped(saved')
  <2>1. PICK n \in Nat : DOMAIN saved.rows \subseteq 1..n
    BY <1>3 DEF ViewShaped
  <2>2. DOMAIN saved'.rows \subseteq 1..n
    BY <1>2, <2>1
  <2>3. \A id \in DOMAIN saved'.rows : RowShaped(saved'.rows[id])
    BY <1>1, <1>2, <1>3 DEF ViewShaped
  <2>4. saved'.rows = [id \in DOMAIN saved'.rows |-> saved'.rows[id]]
    BY <1>1
  <2>5. QED
    BY <1>1, <2>2, <2>3, <2>4 DEF ViewShaped
<1>5. ASSUME NEW id \in DOMAIN saved'.rows
      PROVE  \E s \in Source : <<id, s>> \in saved'.links
  <2>1. PICK s \in Source : <<id, s>> \in saved.links
    BY <1>2, <1>3
  <2>2. id \notin ids /\ <<id, s>>[1] = id
    BY <1>2
  <2>3. QED
    BY <1>1, <2>1, <2>2
<1>6. QED
  BY <1>1, <1>2, <1>4, <1>5 DEF RowsLinked, KeepsHttps

LEMMA OthersStep ==
    ASSUME CatalogInv,
           \/ \E id \in Id : RemoveProxy(id) \/ GrowStale(id)
           \/ CleanupSelect \/ CleanupDelete
    PROVE  CatalogInv' /\ KeepsHttps(saved, saved')
<1>1. ASSUME NEW id \in Id, RemoveProxy(id)
      PROVE  CatalogInv' /\ KeepsHttps(saved, saved')
  BY <1>1, WithoutKeeps, OthersCommit DEF RemoveProxy
<1>2. ASSUME NEW id \in Id, GrowStale(id)
      PROVE  CatalogInv' /\ KeepsHttps(saved, saved')
  <2> DEFINE aged == [saved.rows[id] EXCEPT !.stale = TRUE]
  <2>1. /\ ViewShaped(saved) /\ RowsLinked /\ id \in DOMAIN saved.rows
        /\ writer = NoOne /\ writer' = writer /\ cycle' = cycle /\ db' = saved'
    BY <1>2 DEF GrowStale, CatalogInv, ShapeInv, LinkInv
  <2>2. /\ saved'.links = saved.links
        /\ saved'.rows = [saved.rows EXCEPT ![id] = aged]
        /\ saved' = [rows |-> saved'.rows, links |-> saved'.links]
    BY <1>2, <2>1 DEF GrowStale, ViewShaped
  <2>3. RowShaped(aged) /\ aged.protocol = saved.rows[id].protocol
    BY <2>1, RowWrites DEF ViewShaped
  <2> HIDE DEF aged
  <2>4. /\ DOMAIN saved'.rows = DOMAIN saved.rows
        /\ saved'.rows = [i \in DOMAIN saved'.rows |-> saved'.rows[i]]
        /\ \A i \in DOMAIN saved.rows :
              saved'.rows[i] = IF i = id THEN aged ELSE saved.rows[i]
    BY <2>2
  <2>5. ViewShaped(saved')
    BY <2>1, <2>2, <2>3, <2>4 DEF ViewShaped
  <2>6. RowsLinked'
    BY <2>1, <2>2, <2>4 DEF RowsLinked
  <2>7. KeepsHttps(saved, saved')
    BY <2>3, <2>4 DEF KeepsHttps
  <2>8. QED
    BY <2>1, <2>5, <2>6, <2>7, OthersCommit
<1>3. CASE UNCHANGED <<saved, db, writer, cycle>>
  BY <1>3 DEF CatalogInv, ShapeInv, LockInv, AheadInv, LinkInv, RowsLinked, KeepsHttps
<1>4. CASE CleanupDelete /\ ~UNCHANGED <<saved, db, writer, cycle>>
  BY <1>4, WithoutKeeps, OthersCommit DEF CleanupDelete
<1>5. QED
  BY <1>1, <1>2, <1>3, <1>4 DEF CleanupSelect

-----------------------------------------------------------------------------
(* The theorems.                                                           *)

LEMMA CatalogInitInv == CatalogInit => CatalogInv
<1> SUFFICES ASSUME CatalogInit PROVE CatalogInv
  OBVIOUS
<1>1. /\ saved = Empty /\ db = Empty /\ writer = NoOne
      /\ cycle = [c \in Collector |-> AtRest]
  BY DEF CatalogInit
<1>2. SessionShaped(AtRest)
  BY AtRestShaped DEF AtRest
<1>3. Empty.rows = <<>> /\ DOMAIN Empty.rows = {} /\ ViewShaped(Empty)
  <2>1. Empty.rows = <<>> /\ Empty = [rows |-> Empty.rows, links |-> Empty.links]
    BY DEF Empty
  <2>2. DOMAIN Empty.rows = {} /\ Empty.rows = [id \in DOMAIN Empty.rows |-> Empty.rows[id]]
    BY <2>1
  <2>3. 0 \in Nat /\ DOMAIN Empty.rows \subseteq 1..0
    BY <2>2
  <2>4. QED
    BY <2>1, <2>2, <2>3 DEF ViewShaped
<1>4. QED
  BY <1>1, <1>2, <1>3, NoOneElse DEF CatalogInv, ShapeInv, LockInv, AheadInv, LinkInv,
                                     RowsLinked, KeepsHttps

LEMMA CatalogStep ==
    ASSUME CatalogInv, [CatalogNext]_catalogVars
    PROVE  CatalogInv' /\ KeepsHttps(saved, saved')
<1>1. CASE \E c \in Collector : CommitBatch(c)
  BY <1>1, CommitBatchStep
<1>2. CASE \/ \E id \in Id : RemoveProxy(id) \/ GrowStale(id)
           \/ CleanupSelect \/ CleanupDelete
  BY <1>2, OthersStep
<1>3. CASE Crash
  <2>1. saved' = saved
    BY <1>3 DEF Crash, ProcessEnds
  <2>2. QED
    BY <1>3, <2>1, ProcessEndsStep DEF Crash, KeepsHttps
<1>4. CASE UNCHANGED catalogVars
  BY <1>4 DEF catalogVars, CatalogInv, ShapeInv, LockInv, AheadInv, LinkInv, RowsLinked,
              KeepsHttps
<1>5. ASSUME NEW c \in Collector, CycleStep(c), ~CommitBatch(c)
      PROVE  CatalogInv' /\ KeepsHttps(saved, saved')
  <2>1. saved' = saved
    BY <1>5 DEF CycleStep, BeginCycle, EndCycle, SkipDisabled, OpenSource, FetchListing,
                SkipItem, FindNone, FindOne, FindSeveral, InsertRow, FinishSource,
                VisitFails, RecordError, CycleDies, ProcessEnds, Fail
  <2>2. \/ BeginCycle(c) \/ EndCycle(c) \/ SkipDisabled(c) \/ OpenSource(c)
        \/ FinishSource(c) \/ RecordError(c)
        => CatalogInv'
    BY QuietSteps
  <2>3. FindSeveral(c) \/ VisitFails(c) => CatalogInv'
    <3>1. FindSeveral(c) \/ VisitFails(c) => Fail(c) /\ cycle[c].left # <<>>
      BY DEF FindSeveral, VisitFails, LockTimesOut, CatalogInv, ShapeInv, SessionShaped
    <3>2. QED
      BY <3>1, FailStep
  <2>4. CatalogInv'
    BY <1>5, <2>2, <2>3, FetchListingStep, ItemSteps, FindOneStep, InsertRowStep,
       CycleDiesStep DEF CycleStep
  <2>5. QED
    BY <2>1, <2>4 DEF KeepsHttps
<1>6. QED
  BY <1>1, <1>2, <1>3, <1>4, <1>5 DEF CatalogNext

\* No cycle holds the write lock, for which the checker and every other writer
\* wait, outside a batch: neither while a source is fetched nor when a batch has
\* failed (CollectorService._persist_collected).
THEOREM LockAlwaysInBatch == CatalogSpec => []LockOnlyInBatch
<1>1. CatalogInv => LockOnlyInBatch
  BY DEF CatalogInv, LockInv, LockOnlyInBatch
<1>2. CatalogInv /\ [CatalogNext]_catalogVars => CatalogInv'
  BY CatalogStep
<1>3. QED
  BY <1>1, <1>2, CatalogInitInv, PTL DEF CatalogSpec

\* Every committed row has a link to a source, with cycles that overlap,
\* removals, crashes and rolled back batches: the row and its link come with one
\* commit although two flushes write them (CollectorService._persist_collected).
THEOREM RowsAlwaysLinked == CatalogSpec => []RowsLinked
<1>1. CatalogInv => RowsLinked
  BY DEF CatalogInv, LinkInv
<1>2. CatalogInv /\ [CatalogNext]_catalogVars => CatalogInv'
  BY CatalogStep
<1>3. QED
  BY <1>1, <1>2, CatalogInitInv, PTL DEF CatalogSpec

\* No commit makes an https row http, also when two cycles write the row from
\* what they read before (merge_collected_protocol).
THEOREM HttpsAlwaysKept == CatalogSpec => HttpsKept
<1>1. CatalogInv /\ [CatalogNext]_catalogVars => CatalogInv'
  BY CatalogStep
<1>2. CatalogInv /\ [CatalogNext]_catalogVars =>
        [\A id \in DOMAIN saved.rows \cap DOMAIN saved'.rows :
            saved.rows[id].protocol = "https" => saved'.rows[id].protocol = "https"
        ]_catalogVars
  BY CatalogStep DEF KeepsHttps
<1>3. QED
  BY <1>1, <1>2, CatalogInitInv, PTL DEF CatalogSpec, HttpsKept

-----------------------------------------------------------------------------
(* One cycle at a time.                                                    *)

\* The start-up cycle and the collector loop do not overlap.
OneCycle == \A c, d \in Collector : c = d

Lists(source, row) == \E item \in Listed[source] : SameIdentity(row, item)

\* What the two properties say of the committed tables, for any view of them.
ViewTrue(view) ==
    /\ \A a, b \in DOMAIN view.rows :
          /\ view.rows[a].endpoint = view.rows[b].endpoint
          /\ {view.rows[a].protocol, view.rows[b].protocol} \subseteq HttpLike
          => a = b
    /\ \A link \in view.links :
          link[1] \in DOMAIN view.rows /\ Lists(link[2], view.rows[link[1]])

\* What is pending fits the rows: only http rows become https, and a link is
\* added to a row that its source lists, or to one that was removed since and
\* whose own update makes the flush fail.
UpdatesTrue(view, session) ==
    \A id \in DOMAIN session.updates \cap DOMAIN view.rows :
        session.updates[id] = "https" => view.rows[id].protocol \in HttpLike

AddsTrue(view, session) ==
    \A i \in 1..Len(session.adds) :
        IF session.adds[i] \in DOMAIN view.rows
           THEN Lists(Head(session.left), view.rows[session.adds[i]])
           ELSE session.adds[i] \in DOMAIN session.updates

InListing(session) ==
    /\ session.listing \in Seq(Listed[Head(session.left)])
    /\ session.at \in Nat \ {0}

PendingTrue(view, session) ==
    /\ UpdatesTrue(view, session) /\ AddsTrue(view, session)
    /\ session.phase \in {"item", "insert", "commit"} => InListing(session)
    /\ session.phase \in {"item", "insert"} => session.at <= Len(session.listing)
    /\ session.phase = "insert" =>
          \A id \in DOMAIN view.rows : ~SameIdentity(view.rows[id], ItemOf(session))

\* Without the lock every link to add is that of a row to update.
SingleInv ==
    /\ ViewTrue(saved) /\ ViewTrue(db)
    /\ \A c \in Collector :
          /\ PendingTrue(View(c), cycle[c])
          /\ writer # c => \A i \in 1..Len(cycle[c].adds) :
                              cycle[c].adds[i] \in DOMAIN cycle[c].updates

\* A row before and after a change of its label that keeps what it is listed as.
LEMMA Relabelled ==
    ASSUME NEW old, NEW new, new.endpoint = old.endpoint,
           new.protocol = old.protocol
             \/ {new.protocol, old.protocol} \subseteq HttpLike
    PROVE  /\ new.protocol \in HttpLike <=> old.protocol \in HttpLike
           /\ \A item : SameIdentity(new, item) <=> SameIdentity(old, item)
           /\ \A source : Lists(source, new) <=> Lists(source, old)
BY DEF SameIdentity, Lists

\* A flush relabels rows only in this way.
LEMMA FlushRelabels ==
    ASSUME NEW view, ViewShaped(view), NEW session, SessionShaped(session),
           PendingTrue(view, session), NEW id \in DOMAIN view.rows
    PROVE  LET old == view.rows[id]
               new == Flushed(view, session).rows[id]
           IN  /\ new.endpoint = old.endpoint
               /\ new.protocol = old.protocol
                    \/ {new.protocol, old.protocol} \subseteq HttpLike
<1> DEFINE label == LabelIn(session, view, id)
           written == [view.rows[id] EXCEPT !.stale = FALSE, !.protocol = label]
<1>1. Flushed(view, session).rows[id] =
        IF id \in DOMAIN session.updates THEN written ELSE view.rows[id]
  BY DEF Flushed
<1>2. written.endpoint = view.rows[id].endpoint /\ written.protocol = label
  BY DEF ViewShaped, RowShaped
<1>3. label = view.rows[id].protocol \/ {label, view.rows[id].protocol} \subseteq HttpLike
  BY DEF LabelIn, PendingTrue, UpdatesTrue, SessionShaped, HttpLike
<1>4. QED
  BY <1>1, <1>2, <1>3

\* A flush that goes through keeps the tables truthful.
LEMMA FlushTrue ==
    ASSUME NEW view, ViewShaped(view), ViewTrue(view),
           NEW session, SessionShaped(session), session.left # <<>>,
           PendingTrue(view, session), ~Conflict(view, session)
    PROVE  ViewTrue(Flushed(view, session))
<1> DEFINE flushed == Flushed(view, session)
<1>1. DOMAIN flushed.rows = DOMAIN view.rows
  BY FlushKeeps
<1>2. ASSUME NEW id \in DOMAIN view.rows
      PROVE  /\ flushed.rows[id].endpoint = view.rows[id].endpoint
             /\ flushed.rows[id].protocol \in HttpLike <=> view.rows[id].protocol \in HttpLike
             /\ \A source : Lists(source, flushed.rows[id]) <=> Lists(source, view.rows[id])
  BY FlushRelabels, Relabelled
<1>3. ASSUME NEW link \in flushed.links
      PROVE  link[1] \in DOMAIN view.rows /\ Lists(link[2], view.rows[link[1]])
  <2>1. CASE link \in view.links
    BY <2>1 DEF ViewTrue
  <2>2. CASE link \notin view.links
    <3>1. PICK i \in 1..Len(session.adds) : link = <<session.adds[i], Head(session.left)>>
      BY <2>2 DEF Flushed
    <3>2. session.adds[i] \in DOMAIN view.rows
      BY DEF Conflict, PendingTrue, AddsTrue
    <3>3. QED
      BY <3>1, <3>2 DEF PendingTrue, AddsTrue
  <2>3. QED
    BY <2>1, <2>2
<1> HIDE DEF flushed
<1>4. QED
  BY <1>1, <1>2, <1>3 DEF ViewTrue, flushed

\* A session with nothing pending, outside the loop over a listing.
LEMMA FreshTrue ==
    ASSUME NEW view, NEW phase \in CyclePhase \ {"item", "insert", "commit"},
           NEW left, NEW listing
    PROVE  LET session == CycleAt(phase, left, listing) IN
           PendingTrue(view, session) /\ session.adds = <<>>
<1>1. /\ CycleAt(phase, left, listing).adds = <<>>
      /\ CycleAt(phase, left, listing).phase = phase
      /\ DOMAIN CycleAt(phase, left, listing).updates = {}
  BY DEF CycleAt, NoUpdate
<1>2. QED
  BY <1>1 DEF PendingTrue, UpdatesTrue, AddsTrue

\* Only the cycle itself changes its session, and the tables stay.
LEMMA SessionStepTrue ==
    ASSUME CatalogInv, SingleInv, OneCycle, NEW c \in Collector, NEW s,
           SessionStep(c, s), PendingTrue(View(c), s),
           writer # c => \A i \in 1..Len(s.adds) : s.adds[i] \in DOMAIN s.updates
    PROVE  SingleInv'
<1>1. cycle'[c] = s /\ \A d \in Collector : d = c
  BY DEF SessionStep, CatalogInv, ShapeInv, OneCycle
<1>2. saved' = saved /\ db' = db /\ writer' = writer /\ View(c)' = View(c)
  BY DEF SessionStep, View
<1>3. QED
  BY <1>1, <1>2 DEF SingleInv

LEMMA QuietTrue ==
    ASSUME CatalogInv, SingleInv, OneCycle, NEW c \in Collector,
           \/ BeginCycle(c) \/ EndCycle(c) \/ SkipDisabled(c) \/ OpenSource(c)
           \/ FinishSource(c) \/ RecordError(c)
    PROVE  SingleInv'
<1>1. PICK phase, left, listing :
         /\ phase \in {"open", "rest", "fetch"}
         /\ SessionStep(c, CycleAt(phase, left, listing))
  BY DEF BeginCycle, EndCycle, SkipDisabled, OpenSource, FinishSource, RecordError, AtRest,
         SessionStep
<1>2. phase \in CyclePhase \ {"item", "insert", "commit"}
  BY <1>1 DEF CyclePhase
<1>3. QED
  BY <1>1, <1>2, FreshTrue, SessionStepTrue

\* An exception, or the end of the process, drops what is pending.
LEMMA DropsTrue ==
    ASSUME CatalogInv, SingleInv, OneCycle, NEW c \in Collector,
           Fail(c) \/ CycleDies(c) \/ ProcessEnds
    PROVE  SingleInv'
<1>1. CASE ProcessEnds
  <2>1. \A d \in Collector : cycle'[d] = CycleAt("rest", <<>>, <<>>)
    BY <1>1 DEF ProcessEnds, AtRest
  <2>2. saved' = saved /\ db' = saved
    BY <1>1 DEF ProcessEnds
  <2>3. "rest" \in CyclePhase \ {"item", "insert", "commit"}
    BY DEF CyclePhase
  <2>4. QED
    BY <2>1, <2>2, <2>3, FreshTrue DEF SingleInv
<1>2. ASSUME NEW phase \in {"record", "dead"}, NEW left, NEW listing,
             cycle' = [cycle EXCEPT ![c] = CycleAt(phase, left, listing)],
             saved' = saved, db' \in {db, saved}
      PROVE  SingleInv'
  <2>1. cycle'[c] = CycleAt(phase, left, listing) /\ \A d \in Collector : d = c
    BY <1>2 DEF CatalogInv, ShapeInv, OneCycle
  <2>2. phase \in CyclePhase \ {"item", "insert", "commit"}
    BY DEF CyclePhase
  <2>3. QED
    BY <1>2, <2>1, <2>2, FreshTrue DEF SingleInv
<1>3. QED
  BY <1>1, <1>2 DEF Fail, CycleDies

\* What comes after an item is in the listing, or its end.
LEMMA OnwardTrue ==
    ASSUME NEW view, NEW session, SessionShaped(session), session.left # <<>>,
           UpdatesTrue(view, session), AddsTrue(view, session), InListing(session)
    PROVE  /\ PendingTrue(view, Onward(session))
           /\ Onward(session).adds = session.adds
           /\ Onward(session).updates = session.updates
<1> DEFINE next == IF session.count >= BatchSize THEN "commit"
                   ELSE IF session.at <= Len(session.listing) THEN "item"
                   ELSE IF session.count > 0 THEN "commit" ELSE "total"
<1>1. /\ next \in {"item", "commit", "total"}
      /\ next = "item" => session.at <= Len(session.listing)
  OBVIOUS
<1>2. Onward(session) = [session EXCEPT !.phase = next]
  BY DEF Onward
<1> HIDE DEF next
<1>3. /\ Onward(session).phase = next /\ Onward(session).left = session.left
      /\ Onward(session).listing = session.listing /\ Onward(session).at = session.at
      /\ Onward(session).updates = session.updates
      /\ Onward(session).adds = session.adds
  BY <1>2 DEF SessionShaped
<1>4. QED
  BY <1>1, <1>3 DEF PendingTrue, UpdatesTrue, AddsTrue, InListing

LEMMA CountedTrue ==
    ASSUME NEW view, NEW session, SessionShaped(session), session.left # <<>>,
           UpdatesTrue(view, session), AddsTrue(view, session), InListing(session)
    PROVE  /\ PendingTrue(view, Counted(session))
           /\ Counted(session).adds = session.adds
           /\ Counted(session).updates = session.updates
<1> DEFINE next == [session EXCEPT !.at = @ + 1, !.count = @ + 1]
<1>1. Counted(session) = Onward(next)
  BY DEF Counted
<1>2. /\ DOMAIN next = DOMAIN session
      /\ next.phase = session.phase /\ next.left = session.left
      /\ next.listing = session.listing /\ next.at = session.at + 1
      /\ next.updates = session.updates
      /\ next.adds = session.adds /\ next.count = session.count + 1
  BY DEF SessionShaped
<1> HIDE DEF next
<1>3. /\ SessionShaped(next) /\ next.left # <<>>
      /\ UpdatesTrue(view, next) /\ AddsTrue(view, next) /\ InListing(next)
  BY <1>2 DEF SessionShaped, UpdatesTrue, AddsTrue, InListing
<1>4. QED
  BY <1>1, <1>2, <1>3, OnwardTrue

LEMMA FetchListingTrue ==
    ASSUME CatalogInv, SingleInv, OneCycle, NEW c \in Collector, FetchListing(c)
    PROVE  SingleInv'
<1>1. SessionShaped(cycle[c]) /\ cycle[c].left # <<>> /\ cycle[c].left \in Seq(Source)
  BY DEF FetchListing, CatalogInv, ShapeInv, SessionShaped
<1>a. PICK n \in 0..MaxListing :
         \E listing \in [1..n -> Listed[Head(cycle[c].left)]] :
            SessionStep(c, Onward(CycleAt("item", cycle[c].left, listing)))
  BY DEF FetchListing, SessionStep
<1>2. PICK listing \in [1..n -> Listed[Head(cycle[c].left)]] :
         SessionStep(c, Onward(CycleAt("item", cycle[c].left, listing)))
  BY <1>a
<1> DEFINE s == CycleAt("item", cycle[c].left, listing)
<1>3. /\ s.adds = <<>> /\ DOMAIN s.updates = {} /\ s.listing = listing
      /\ s.left = cycle[c].left /\ s.at = 1
  BY DEF CycleAt, NoUpdate
<1>4. listing \in Seq(Listed[Head(cycle[c].left)])
  BY CatalogAssumption
<1>5. SessionShaped(s) /\ s.left # <<>>
  BY <1>1, CycleAtShaped DEF CyclePhase
<1> HIDE DEF s
<1>6. UpdatesTrue(View(c), s) /\ AddsTrue(View(c), s) /\ InListing(s)
  BY <1>3, <1>4 DEF UpdatesTrue, AddsTrue, InListing
<1>7. PendingTrue(View(c), Onward(s)) /\ Onward(s).adds = <<>>
  BY <1>3, <1>5, <1>6, OnwardTrue
<1>8. SessionStep(c, Onward(s))
  BY <1>2 DEF s
<1>9. QED
  BY <1>7, <1>8, SessionStepTrue

LEMMA ItemsTrue ==
    ASSUME CatalogInv, SingleInv, OneCycle, NEW c \in Collector, SkipItem(c) \/ FindNone(c)
    PROVE  SingleInv'
<1> DEFINE session == cycle[c]
<1>1. /\ SessionShaped(session) /\ session.phase = "item" /\ session.left # <<>>
  BY DEF SkipItem, FindNone, CatalogInv, ShapeInv, SessionShaped
<1>2. /\ UpdatesTrue(View(c), session) /\ AddsTrue(View(c), session)
      /\ InListing(session) /\ session.at <= Len(session.listing)
      /\ writer # c => \A i \in 1..Len(session.adds) :
                          session.adds[i] \in DOMAIN session.updates
  BY <1>1 DEF SingleInv, PendingTrue
<1>3. CASE SkipItem(c)
  <2> DEFINE next == [session EXCEPT !.at = @ + 1]
  <2>1. SessionStep(c, Onward(next))
    BY <1>3 DEF SkipItem, SessionStep
  <2>2. /\ SessionShaped(next) /\ next.left = session.left
        /\ next.adds = session.adds /\ next.updates = session.updates
        /\ next.listing = session.listing /\ next.at = session.at + 1
    BY <1>1 DEF SessionShaped
  <2> HIDE DEF next
  <2>3. UpdatesTrue(View(c), next) /\ AddsTrue(View(c), next) /\ InListing(next)
    BY <1>2, <2>2 DEF UpdatesTrue, AddsTrue, InListing
  <2>4. /\ PendingTrue(View(c), Onward(next))
        /\ Onward(next).adds = session.adds /\ Onward(next).updates = session.updates
    BY <1>1, <2>2, <2>3, OnwardTrue
  <2>5. QED
    BY <1>2, <2>1, <2>4, SessionStepTrue
<1>4. CASE FindNone(c)
  <2> DEFINE seen == session.seen \cup {KeyOf(ItemOf(session))}
             next == [session EXCEPT !.phase = "insert", !.seen = seen]
  <2>1. cycle' = [cycle EXCEPT ![c] = next]
    BY <1>4 DEF FindNone, CatalogInv, ShapeInv
  <2>2. SessionStep(c, next)
    BY <1>4, <2>1 DEF FindNone, SessionStep
  <2> HIDE DEF seen
  <2>3. /\ next.phase = "insert" /\ next.left = session.left
        /\ next.updates = session.updates /\ next.adds = session.adds
        /\ next.listing = session.listing /\ next.at = session.at
    BY <1>1 DEF SessionShaped
  <2> HIDE DEF next
  <2>4. ItemOf(next) = ItemOf(session)
    BY <2>3 DEF ItemOf
  <2>5. \A id \in DOMAIN View(c).rows : ~SameIdentity(View(c).rows[id], ItemOf(next))
    BY <1>4, <2>4 DEF FindNone, Existing
  <2>6. PendingTrue(View(c), next)
    BY <1>2, <2>3, <2>5 DEF PendingTrue, UpdatesTrue, AddsTrue, InListing
  <2>7. QED
    BY <1>2, <2>2, <2>3, <2>6, SessionStepTrue
<1>5. QED
  BY <1>3, <1>4

\* The item under way is one that its source lists.
LEMMA ItemListed ==
    ASSUME NEW session, InListing(session), session.at <= Len(session.listing)
    PROVE  ItemOf(session) \in Listed[Head(session.left)]
BY DEF InListing, ItemOf

LEMMA FindOneTrue ==
    ASSUME CatalogInv, SingleInv, OneCycle, NEW c \in Collector, FindOne(c)
    PROVE  SingleInv'
<1> DEFINE session == cycle[c]
           view == View(c)
<1>1. /\ SessionShaped(session) /\ session.phase = "item" /\ session.left # <<>>
  BY DEF FindOne, CatalogInv, ShapeInv, SessionShaped
<1>2. /\ UpdatesTrue(view, session) /\ AddsTrue(view, session)
      /\ InListing(session) /\ session.at <= Len(session.listing)
      /\ writer # c => \A i \in 1..Len(session.adds) :
                          session.adds[i] \in DOMAIN session.updates
  BY <1>1 DEF SingleInv, PendingTrue
<1>3. PICK id \in Existing(c) :
        LET label == LabelIn(session, view, id)
            merged == MergedLabel(label, ItemOf(session).protocol)
            written == IF merged # label THEN merged
                       ELSE IF id \in DOMAIN session.updates
                               THEN session.updates[id] ELSE "same"
            linked == <<id, Head(session.left)>> \in view.links
        IN  cycle' = [cycle EXCEPT ![c] = Counted([session EXCEPT
                !.seen = @ \cup {KeyOf(ItemOf(session))},
                !.updates = [i \in DOMAIN @ \cup {id} |->
                                IF i = id THEN written ELSE @[i]],
                !.relinked = IF linked THEN @ \cup {id} ELSE @,
                !.adds = IF linked THEN @ ELSE Append(@, id)])]
  BY DEF FindOne
<1> DEFINE label == LabelIn(session, view, id)
           merged == MergedLabel(label, ItemOf(session).protocol)
           written == IF merged # label THEN merged
                      ELSE IF id \in DOMAIN session.updates
                              THEN session.updates[id] ELSE "same"
           linked == <<id, Head(session.left)>> \in view.links
           seen == session.seen \cup {KeyOf(ItemOf(session))}
           updates == [i \in DOMAIN session.updates \cup {id} |->
                          IF i = id THEN written ELSE session.updates[i]]
           relinked == IF linked THEN session.relinked \cup {id} ELSE session.relinked
           adds == IF linked THEN session.adds ELSE Append(session.adds, id)
           next == [session EXCEPT !.seen = seen, !.updates = updates,
                                   !.relinked = relinked, !.adds = adds]
<1>4. SessionStep(c, Counted(next))
  BY <1>3 DEF FindOne, SessionStep
<1>5. /\ id \in DOMAIN view.rows
      /\ SameIdentity(view.rows[id], ItemOf(session))
      /\ ItemOf(session) \in Listed[Head(session.left)]
  BY <1>2, ItemListed DEF Existing
<1>6. written \in {"same", "https"} /\
      (written = "https" => view.rows[id].protocol \in HttpLike)
  <2>1. merged # label => merged = "https" /\ label \in HttpLike
    BY DEF MergedLabel, HttpLike
  <2>2. id \in DOMAIN session.updates => session.updates[id] \in {"same", "https"}
    BY <1>1 DEF SessionShaped
  <2>3. id \in DOMAIN session.updates /\ session.updates[id] = "https"
          => view.rows[id].protocol \in HttpLike
    BY <1>2, <1>5 DEF UpdatesTrue
  <2>4. label \in HttpLike => view.rows[id].protocol \in HttpLike
    BY <2>2, <2>3 DEF LabelIn
  <2>5. QED
    BY <2>1, <2>2, <2>3, <2>4
<1>7. /\ DOMAIN updates = DOMAIN session.updates \cup {id} /\ updates[id] = written
      /\ \A i \in DOMAIN session.updates \ {id} : updates[i] = session.updates[i]
  BY DEF updates
<1>8. /\ adds \in Seq(Nat)
      /\ \A i \in 1..Len(adds) :
            adds[i] = id \/ (i \in 1..Len(session.adds) /\ adds[i] = session.adds[i])
  <2>1. session.adds \in Seq(Nat)
    BY <1>1 DEF SessionShaped
  <2>2. id \in Nat
    <3>1. PICK n \in Nat : DOMAIN view.rows \subseteq 1..n
      BY ViewFacts DEF ViewShaped
    <3>2. QED
      BY <1>5, <3>1
  <2> HIDE DEF linked
  <2>3. CASE linked
    BY <2>1, <2>3
  <2>4. CASE ~linked
    <3> DEFINE longer == Append(session.adds, id)
    <3>1. /\ longer \in Seq(Nat) /\ Len(longer) = Len(session.adds) + 1
          /\ \A i \in 1..Len(session.adds) : longer[i] = session.adds[i]
          /\ longer[Len(session.adds) + 1] = id
      BY <2>1, <2>2
    <3>2. \A i \in 1..Len(session.adds) + 1 :
             i \in 1..Len(session.adds) \/ i = Len(session.adds) + 1
      BY <2>1
    <3>3. adds = longer
      BY <2>4
    <3> HIDE DEF longer, adds
    <3>4. QED
      BY <2>1, <3>1, <3>2, <3>3
  <2>5. QED
    BY <2>3, <2>4
<1> HIDE DEF label, merged, written, linked, seen, updates, relinked, adds
<1>9. /\ DOMAIN next = DOMAIN session
      /\ next.phase = session.phase /\ next.left = session.left
      /\ next.listing = session.listing /\ next.at = session.at
      /\ next.updates = updates /\ next.adds = adds /\ next.count = session.count
  BY <1>1 DEF SessionShaped
<1> HIDE DEF next
<1>10. SessionShaped(next) /\ next.left # <<>>
  BY <1>1, <1>6, <1>7, <1>8, <1>9 DEF SessionShaped
<1>11. UpdatesTrue(view, next)
  BY <1>2, <1>6, <1>7, <1>9 DEF UpdatesTrue
<1>12. AddsTrue(view, next)
  <2>1. Lists(Head(next.left), view.rows[id])
    BY <1>5, <1>9 DEF Lists
  <2>2. QED
    BY <1>2, <1>5, <1>7, <1>8, <1>9, <2>1 DEF AddsTrue
<1>13. InListing(next)
  BY <1>2, <1>9 DEF InListing
<1>14. /\ PendingTrue(view, Counted(next))
       /\ Counted(next).adds = adds /\ Counted(next).updates = updates
  BY <1>9, <1>10, <1>11, <1>12, <1>13, CountedTrue
<1>15. writer # c => \A i \in 1..Len(adds) : adds[i] \in DOMAIN updates
  BY <1>2, <1>7, <1>8
<1>16. QED
  BY <1>4, <1>14, <1>15, SessionStepTrue

\* What a session sees is truthful.
LEMMA ViewIsTrue ==
    ASSUME SingleInv, NEW c \in Collector
    PROVE  ViewTrue(View(c))
BY DEF SingleInv, View

LEMMA CommitBatchTrue ==
    ASSUME CatalogInv, SingleInv, OneCycle, NEW c \in Collector, CommitBatch(c)
    PROVE  SingleInv'
<1> DEFINE view == View(c)
           session == cycle[c]
           next == [FlushedSession(session) EXCEPT !.count = 0]
<1>1. /\ SessionShaped(session) /\ session.left # <<>> /\ session.phase = "commit"
      /\ ViewShaped(view) /\ ViewTrue(view) /\ PendingTrue(view, session)
  BY ViewFacts, ViewIsTrue DEF CommitBatch, CatalogInv, ShapeInv, SessionShaped, SingleInv
<1>2. CASE Fail(c)
  BY <1>2, DropsTrue
<1>3. CASE ~Fail(c)
  <2>1. /\ ~Conflict(view, session)
        /\ saved' = Flushed(view, session) /\ db' = saved'
        /\ cycle' = [cycle EXCEPT ![c] = Onward(next)]
    BY <1>3 DEF CommitBatch
  <2>2. ViewTrue(saved')
    BY <1>1, <2>1, FlushTrue
  <2>3. /\ DOMAIN next = DOMAIN session
        /\ next.phase = session.phase /\ next.left = session.left
        /\ next.listing = session.listing /\ next.at = session.at
        /\ next.updates = NoUpdate /\ next.adds = <<>> /\ next.count = 0
    BY <1>1 DEF FlushedSession, SessionShaped
  <2> HIDE DEF next
  <2>4. SessionShaped(next) /\ next.left # <<>>
    <3>1. <<>> \in Seq(Nat)
      OBVIOUS
    <3>2. QED
      BY <1>1, <2>3, <3>1 DEF SessionShaped, NoUpdate
  <2>5. UpdatesTrue(View(c)', next) /\ AddsTrue(View(c)', next) /\ InListing(next)
    BY <1>1, <2>3 DEF PendingTrue, UpdatesTrue, AddsTrue, InListing, NoUpdate
  <2>6. PendingTrue(View(c)', Onward(next)) /\ Onward(next).adds = <<>>
    BY <2>3, <2>4, <2>5, OnwardTrue
  <2>7. cycle'[c] = Onward(next) /\ \A d \in Collector : d = c
    BY <2>1 DEF CatalogInv, ShapeInv, OneCycle
  <2>8. QED
    BY <2>1, <2>2, <2>6, <2>7 DEF SingleInv
<1>4. QED
  BY <1>2, <1>3

\* The row is inserted only if no row of the view is the item's, and a flush
\* makes none the item's.
LEMMA InsertRowTrue ==
    ASSUME CatalogInv, SingleInv, OneCycle, NEW c \in Collector, InsertRow(c)
    PROVE  SingleInv'
<1> DEFINE view == View(c)
           session == cycle[c]
           item == ItemOf(session)
           id == NextId(view)
           flushed == Flushed(view, session)
           next == [FlushedSession(session) EXCEPT !.adds = <<id>>]
<1>1. /\ SessionShaped(session) /\ session.left # <<>> /\ session.phase = "insert"
      /\ ViewShaped(view) /\ ViewTrue(view) /\ PendingTrue(view, session)
  BY ViewFacts, ViewIsTrue DEF InsertRow, CatalogInv, ShapeInv, SessionShaped, SingleInv
<1>2. CASE Fail(c)
  BY <1>2, DropsTrue
<1>3. CASE ~Fail(c)
  <2>1. /\ ~Conflict(view, session)
        /\ db' = Inserted(view, session, id)
        /\ writer' = c /\ saved' = saved
        /\ cycle' = [cycle EXCEPT ![c] = Counted(next)]
    BY <1>3 DEF InsertRow
  <2>2. ViewTrue(flushed) /\ DOMAIN flushed.rows = DOMAIN view.rows /\ ViewShaped(flushed)
    BY <1>1, <2>1, FlushTrue, FlushKeeps
  <2>3. id \in Nat \ {0} /\ id \notin DOMAIN view.rows
    BY <1>1, NextIdFresh
  <2>4. /\ db'.links = flushed.links
        /\ db'.rows = [i \in DOMAIN view.rows \cup {id} |->
                          IF i = id THEN NewRow(item) ELSE flushed.rows[i]]
    BY <2>1, <2>2 DEF Inserted, ViewShaped
  <2>5. /\ DOMAIN db'.rows = DOMAIN view.rows \cup {id}
        /\ db'.rows[id] = NewRow(item)
        /\ \A i \in DOMAIN view.rows : db'.rows[i] = flushed.rows[i]
    BY <2>3, <2>4
  <2>6. \A i \in DOMAIN view.rows : ~SameIdentity(flushed.rows[i], item)
    <3>1. \A i \in DOMAIN view.rows : ~SameIdentity(view.rows[i], item)
      BY <1>1 DEF PendingTrue
    <3>2. QED
      BY <1>1, <3>1, FlushRelabels, Relabelled
  <2>7. NewRow(item).endpoint = item.endpoint /\ NewRow(item).protocol = item.protocol
    BY DEF NewRow
  <2>8. item \in Listed[Head(session.left)] /\ InListing(session)
    BY <1>1, ItemListed DEF PendingTrue
  <2> HIDE DEF item, flushed, view, id
  <2>9. ViewTrue(db')
    <3>1. ASSUME NEW a \in DOMAIN db'.rows, NEW b \in DOMAIN db'.rows,
                 db'.rows[a].endpoint = db'.rows[b].endpoint,
                 {db'.rows[a].protocol, db'.rows[b].protocol} \subseteq HttpLike,
                 a # b
          PROVE  FALSE
      <4>1. \A i \in DOMAIN view.rows : ~SameIdentity(flushed.rows[i], db'.rows[id])
        BY <2>5, <2>6, <2>7 DEF SameIdentity
      <4>2. CASE a # id /\ b # id
        BY <2>2, <2>5, <3>1, <4>2 DEF ViewTrue
      <4>3. CASE a = id
        BY <2>5, <3>1, <4>1, <4>3 DEF SameIdentity
      <4>4. CASE b = id
        BY <2>5, <3>1, <4>1, <4>4 DEF SameIdentity
      <4>5. QED
        BY <4>2, <4>3, <4>4
    <3>2. ASSUME NEW link \in db'.links
          PROVE  link[1] \in DOMAIN db'.rows /\ Lists(link[2], db'.rows[link[1]])
      BY <2>2, <2>4, <2>5, <3>2 DEF ViewTrue
    <3>3. QED
      BY <3>1, <3>2 DEF ViewTrue
  <2>10. /\ DOMAIN next = DOMAIN session
         /\ next.phase = session.phase /\ next.left = session.left
         /\ next.listing = session.listing /\ next.at = session.at
         /\ next.updates = NoUpdate /\ next.adds = <<id>> /\ next.count = session.count
    BY <1>1 DEF FlushedSession, SessionShaped
  <2> HIDE DEF next, session
  <2>11. SessionShaped(next) /\ next.left # <<>>
    BY <1>1, <2>3, <2>10 DEF SessionShaped, NoUpdate
  <2>12. View(c)' = db'
    BY <2>1 DEF View
  <2>13. UpdatesTrue(db', next) /\ InListing(next)
    BY <2>8, <2>10 DEF UpdatesTrue, NoUpdate, InListing
  <2>14. AddsTrue(db', next)
    <3>1. Lists(Head(next.left), db'.rows[id])
      BY <2>5, <2>7, <2>8, <2>10 DEF Lists, SameIdentity
    <3>2. \A i \in 1..Len(next.adds) : next.adds[i] = id
      BY <2>10
    <3>3. QED
      BY <2>5, <3>1, <3>2 DEF AddsTrue
  <2>15. PendingTrue(db', Counted(next))
    BY <2>10, <2>11, <2>13, <2>14, CountedTrue
  <2>16. cycle'[c] = Counted(next) /\ \A d \in Collector : d = c
    BY <2>1 DEF CatalogInv, ShapeInv, OneCycle
  <2>17. QED
    BY <2>1, <2>9, <2>12, <2>15, <2>16 DEF SingleInv
<1>4. QED
  BY <1>2, <1>3

\* Removals take links along, and a row that grows old stays listed.
LEMMA OthersTrue ==
    ASSUME CatalogInv, SingleInv, OneCycle,
           \/ \E id \in Id : RemoveProxy(id) \/ GrowStale(id)
           \/ CleanupSelect \/ CleanupDelete
    PROVE  SingleInv'
<1>1. ASSUME writer = NoOne, writer' = NoOne, cycle' = cycle, db' = saved',
             DOMAIN saved'.rows \subseteq DOMAIN saved.rows,
             saved'.links = {link \in saved.links : link[1] \in DOMAIN saved'.rows},
             \A id \in DOMAIN saved'.rows :
                /\ saved'.rows[id].endpoint = saved.rows[id].endpoint
                /\ saved'.rows[id].protocol = saved.rows[id].protocol
      PROVE  SingleInv'
  <2>1. \A id \in DOMAIN saved'.rows :
           /\ \A item : SameIdentity(saved'.rows[id], item) <=> SameIdentity(saved.rows[id], item)
           /\ \A source : Lists(source, saved'.rows[id]) <=> Lists(source, saved.rows[id])
    BY <1>1, Relabelled
  <2>2. ViewTrue(saved')
    <3>1. ViewTrue(saved)
      BY DEF SingleInv
    <3>2. \A link \in saved'.links :
             link[1] \in DOMAIN saved'.rows /\ Lists(link[2], saved'.rows[link[1]])
      BY <1>1, <2>1, <3>1 DEF ViewTrue
    <3>3. \A a, b \in DOMAIN saved'.rows :
             /\ saved'.rows[a].endpoint = saved'.rows[b].endpoint
             /\ {saved'.rows[a].protocol, saved'.rows[b].protocol} \subseteq HttpLike
             => a = b
      BY <1>1, <3>1 DEF ViewTrue
    <3>4. QED
      BY <3>2, <3>3 DEF ViewTrue
  <2>3. ASSUME NEW c \in Collector
        PROVE  /\ PendingTrue(saved', cycle[c])
               /\ \A i \in 1..Len(cycle[c].adds) : cycle[c].adds[i] \in DOMAIN cycle[c].updates
    <3>1. /\ PendingTrue(saved, cycle[c])
          /\ \A i \in 1..Len(cycle[c].adds) : cycle[c].adds[i] \in DOMAIN cycle[c].updates
      BY <1>1, NoOneElse DEF SingleInv, View
    <3>2. UpdatesTrue(saved', cycle[c]) /\ AddsTrue(saved', cycle[c])
      BY <1>1, <2>1, <3>1 DEF PendingTrue, UpdatesTrue, AddsTrue
    <3>3. QED
      BY <1>1, <2>1, <3>1, <3>2 DEF PendingTrue
  <2>4. \A c \in Collector : View(c)' = saved'
    BY <1>1, NoOneElse DEF View
  <2>5. QED
    BY <1>1, <2>2, <2>3, <2>4 DEF SingleInv
<1>2. ASSUME NEW ids, saved' = Without(saved, ids), writer = NoOne, writer' = NoOne,
             cycle' = cycle, db' = saved'
      PROVE  SingleInv'
  <2>1. /\ saved'.rows = [id \in DOMAIN saved.rows \ ids |-> saved.rows[id]]
        /\ saved'.links = {link \in saved.links : link[1] \notin ids}
    BY <1>2 DEF Without
  <2>2. DOMAIN saved'.rows = DOMAIN saved.rows \ ids
    BY <2>1
  <2>3. saved'.links = {link \in saved.links : link[1] \in DOMAIN saved'.rows}
    BY <2>1, <2>2 DEF SingleInv, ViewTrue
  <2>4. QED
    BY <1>1, <1>2, <2>1, <2>2, <2>3
<1>3. ASSUME NEW id \in Id, GrowStale(id)
      PROVE  SingleInv'
  <2> DEFINE aged == [saved.rows[id] EXCEPT !.stale = TRUE]
  <2>1. /\ saved' = [saved EXCEPT !.rows = [saved.rows EXCEPT ![id] = aged]]
        /\ saved = [rows |-> saved.rows, links |-> saved.links]
        /\ RowShaped(saved.rows[id])
    BY <1>3 DEF GrowStale, CatalogInv, ShapeInv, ViewShaped
  <2>2. aged.endpoint = saved.rows[id].endpoint /\ aged.protocol = saved.rows[id].protocol
    BY <2>1 DEF RowShaped
  <2> HIDE DEF aged
  <2>3. /\ saved'.links = saved.links /\ DOMAIN saved'.rows = DOMAIN saved.rows
        /\ \A i \in DOMAIN saved.rows :
              saved'.rows[i] = IF i = id THEN aged ELSE saved.rows[i]
    BY <2>1
  <2>4. saved'.links = {link \in saved.links : link[1] \in DOMAIN saved'.rows}
    BY <2>3 DEF SingleInv, ViewTrue
  <2>5. QED
    BY <1>1, <1>3, <2>2, <2>3, <2>4 DEF GrowStale
<1>4. ASSUME NEW id \in Id, RemoveProxy(id)
      PROVE  SingleInv'
  BY <1>2, <1>4 DEF RemoveProxy
<1>5. ASSUME UNCHANGED <<saved, db, writer, cycle>>
      PROVE  SingleInv'
  BY <1>5 DEF SingleInv, View
<1>6. QED
  BY <1>2, <1>3, <1>4, <1>5 DEF CleanupSelect, CleanupDelete

LEMMA SingleStep ==
    ASSUME CatalogInv, SingleInv, OneCycle, [CatalogNext]_catalogVars
    PROVE  SingleInv'
<1>1. CASE \/ \E id \in Id : RemoveProxy(id) \/ GrowStale(id)
           \/ CleanupSelect \/ CleanupDelete
  BY <1>1, OthersTrue
<1>2. ASSUME NEW c \in Collector, CycleStep(c)
      PROVE  SingleInv'
  BY <1>2, QuietTrue, FetchListingTrue, ItemsTrue, FindOneTrue, InsertRowTrue,
     CommitBatchTrue, DropsTrue
  DEF CycleStep, FindSeveral, VisitFails
<1>3. CASE Crash
  <2>1. saved' = saved /\ db' = saved /\ cycle' = [c \in Collector |-> CycleAt("rest", <<>>, <<>>)]
    BY <1>3 DEF Crash, ProcessEnds, AtRest
  <2>2. "rest" \in CyclePhase \ {"item", "insert", "commit"}
    BY DEF CyclePhase
  <2>3. \A c \in Collector :
           /\ PendingTrue(View(c)', cycle'[c])
           /\ cycle'[c].adds = <<>>
    BY <2>1, <2>2, FreshTrue
  <2>4. QED
    BY <2>1, <2>3 DEF SingleInv
<1>4. CASE UNCHANGED catalogVars
  BY <1>4 DEF catalogVars, SingleInv, View
<1>5. QED
  BY <1>1, <1>2, <1>3, <1>4 DEF CatalogNext

LEMMA SingleInit == CatalogInit => SingleInv
<1> SUFFICES ASSUME CatalogInit PROVE SingleInv
  OBVIOUS
<1>1. /\ saved = Empty /\ db = Empty
      /\ cycle = [c \in Collector |-> CycleAt("rest", <<>>, <<>>)]
  BY DEF CatalogInit, AtRest
<1>2. DOMAIN Empty.rows = {} /\ Empty.links = {}
  BY DEF Empty
<1>3. "rest" \in CyclePhase \ {"item", "insert", "commit"}
  BY DEF CyclePhase
<1>4. \A c \in Collector : PendingTrue(View(c), cycle[c]) /\ cycle[c].adds = <<>>
  BY <1>1, <1>3, FreshTrue
<1>5. QED
  BY <1>1, <1>2, <1>4 DEF SingleInv, ViewTrue

\* With one cycle at a time an endpoint has one row for http and https, whatever
\* the sources list in whatever order, and whichever batches fail or roll back
\* and rows are removed in between: the look-up and the INSERT are two
\* statements, but nobody else inserts (_find_existing_proxy).
THEOREM OneRowAlways ==
    ASSUME OneCycle
    PROVE  CatalogSpec => []OneRowPerEndpoint
<1>1. CatalogInv /\ SingleInv /\ [CatalogNext]_catalogVars => CatalogInv' /\ SingleInv'
  BY CatalogStep, SingleStep
<1>2. SingleInv => OneRowPerEndpoint
  BY DEF SingleInv, ViewTrue, OneRowPerEndpoint
<1>3. QED
  BY <1>1, <1>2, CatalogInitInv, SingleInit, PTL DEF CatalogSpec

\* With one cycle at a time every link names a source that lists the row,
\* although the checker removes rows between the look-up and the flush and their
\* ids are given out again: a link to a row that is gone comes with an update of
\* that row, at which the flush fails (StaleDataError).
THEOREM LinksAlwaysTruthful ==
    ASSUME OneCycle
    PROVE  CatalogSpec => []LinksTruthful
<1>1. CatalogInv /\ SingleInv /\ [CatalogNext]_catalogVars => CatalogInv' /\ SingleInv'
  BY CatalogStep, SingleStep
<1>2. SingleInv => LinksTruthful
  BY DEF SingleInv, ViewTrue, Lists, LinksTruthful
<1>3. QED
  BY <1>1, <1>2, CatalogInitInv, SingleInit, PTL DEF CatalogSpec

-----------------------------------------------------------------------------
(* Types: ids stay within their bound.                                     *)

\* What the sources list.
Told == UNION {Listed[s] : s \in Source}

LabelOf(row) == [endpoint |-> row.endpoint, protocol |-> row.protocol]

\* There are at most as many rows as there are listed items, for each is one of
\* them, and the highest id is above their number by the gaps.
ViewTyped(view) ==
    /\ \A id \in DOMAIN view.rows :
          view.rows[id] \in CatalogRow /\ LabelOf(view.rows[id]) \in Told
    /\ \A a, b \in DOMAIN view.rows :
          LabelOf(view.rows[a]) = LabelOf(view.rows[b]) => a = b
    /\ Gaps(view) <= MaxGaps
    /\ view.links \subseteq Id \X Source

\* A row becomes https only if its endpoint is listed as https.
UpdatesTold(view, session) ==
    \A id \in DOMAIN session.updates \cap DOMAIN view.rows :
        session.updates[id] = "https" =>
            [endpoint |-> view.rows[id].endpoint, protocol |-> "https"] \in Told

SessionTyped(session) ==
    /\ session.listing \in Seq(Item)
    /\ session.at \in 1..Len(session.listing) + 1
    /\ session.seen \subseteq Key
    /\ DOMAIN session.updates \subseteq Id
    /\ session.relinked \subseteq Id
    /\ session.adds \in Seq(Id)
    /\ session.count \in 0..BatchSize

\* There is room in the batch for the item under way.
HasRoom(session) == session.phase \in {"item", "insert"} => session.count < BatchSize

TypedInv ==
    /\ ViewTyped(saved) /\ ViewTyped(db)
    /\ \A c \in Collector : /\ SessionTyped(cycle[c]) /\ HasRoom(cycle[c])
                            /\ UpdatesTold(View(c), cycle[c])
    /\ cleanup \in [phase : {"rest", "delete", "dead"}, ids : SUBSET Id]

LEMMA MaxIs ==
    ASSUME NEW S, S \subseteq Nat, NEW x \in S, \A y \in S : x >= y
    PROVE  Max(S) = x
<1>1. \A z \in S : (\A y \in S : z >= y) => z = x
  BY SMT
<1>2. QED
  BY <1>1 DEF Max

\* Ids are below the number of listed items and the gaps.
LEMMA ViewBounded ==
    ASSUME NEW view, ViewShaped(view), ViewTyped(view)
    PROVE  /\ IsFiniteSet(DOMAIN view.rows) /\ DOMAIN view.rows \subseteq Id
           /\ NextId(view) = Cardinality(DOMAIN view.rows) + Gaps(view) + 1
           /\ Gaps(view) \in Int /\ Cardinality(DOMAIN view.rows) \in Nat
<1> DEFINE ids == DOMAIN view.rows
           label == [id \in ids |-> LabelOf(view.rows[id])]
<1>1. PICK n \in Nat : ids \subseteq 1..n
  BY DEF ViewShaped
<1>2. IsFiniteSet(Told)
  BY CatalogAssumption DEF Told
<1>3. label \in Injection(ids, Told)
  BY DEF ViewTyped, Injection, IsInjective
<1>4. /\ IsFiniteSet(ids) /\ Cardinality(ids) \in Nat /\ Cardinality(Told) \in Nat
      /\ Cardinality(ids) <= Cardinality(Told)
  BY <1>2, <1>3, FS_Injection, FS_CardinalityType
<1>5. NextId(view) \in Nat \ {0} /\ \A id \in ids : id < NextId(view)
  BY NextIdFresh
<1>6. NextId(view) = Max(ids \cup {0}) + 1 /\ Gaps(view) = Max(ids \cup {0}) - Cardinality(ids)
  BY DEF NextId, Gaps
<1>7. Max(ids \cup {0}) \in Nat
  BY <1>1, HighestId
<1>8. Gaps(view) <= MaxGaps /\ MaxGaps \in Nat
  BY CatalogAssumption DEF ViewTyped
<1>9. \A id \in ids : id \in 1..Cardinality(Told) + MaxGaps
  BY <1>1, <1>4, <1>5, <1>6, <1>7, <1>8
<1>10. QED
  BY <1>4, <1>6, <1>7, <1>9 DEF Id, Told

LEMMA SeqWidens ==
    ASSUME NEW S, NEW T, S \subseteq T, NEW s \in Seq(S)
    PROVE  s \in Seq(T)
<1>1. Len(s) \in Nat /\ s \in [1..Len(s) -> S]
  OBVIOUS
<1>2. s \in [1..Len(s) -> T]
  BY <1>1
<1>3. QED
  BY <1>1, <1>2

LEMMA ListedTyped ==
    /\ \A s \in Source : Listed[s] \subseteq Item /\ Listed[s] \subseteq Told
    /\ BatchSize \in Nat \ {0}
    /\ Id \subseteq Nat
<1>1. Cardinality(Told) \in Nat /\ MaxGaps \in Nat
  BY CatalogAssumption, FS_CardinalityType DEF Told
<1>2. Id \subseteq Nat
  BY <1>1 DEF Id, Told
<1>3. QED
  BY <1>2, CatalogAssumption DEF Told

\* A flush that goes through writes what is listed.
LEMMA FlushTyped ==
    ASSUME NEW view, ViewShaped(view), ViewTyped(view), ViewTrue(view),
           NEW session, SessionShaped(session), session.left # <<>>, SessionTyped(session),
           UpdatesTold(view, session), PendingTrue(view, session), ~Conflict(view, session)
    PROVE  ViewTyped(Flushed(view, session))
<1> DEFINE flushed == Flushed(view, session)
<1>1. DOMAIN flushed.rows = DOMAIN view.rows
  BY FlushKeeps
<1>2. ASSUME NEW id \in DOMAIN view.rows
      PROVE  /\ flushed.rows[id] \in CatalogRow /\ LabelOf(flushed.rows[id]) \in Told
             /\ flushed.rows[id].endpoint = view.rows[id].endpoint
             /\ flushed.rows[id].protocol \in HttpLike <=> view.rows[id].protocol \in HttpLike
             /\ flushed.rows[id].protocol \notin HttpLike =>
                   flushed.rows[id].protocol = view.rows[id].protocol
  <2> DEFINE label == LabelIn(session, view, id)
             written == [view.rows[id] EXCEPT !.stale = FALSE, !.protocol = label]
  <2>1. view.rows[id] \in CatalogRow /\ LabelOf(view.rows[id]) \in Told
    BY DEF ViewTyped
  <2>2. flushed.rows[id] = IF id \in DOMAIN session.updates THEN written ELSE view.rows[id]
    BY DEF Flushed
  <2>3. \/ label = view.rows[id].protocol
        \/ /\ label = "https" /\ id \in DOMAIN session.updates
           /\ session.updates[id] = "https"
    BY DEF LabelIn, SessionShaped
  <2>4. label \in Protocol
    BY <2>1, <2>3 DEF CatalogRow, Protocol, HttpLike
  <2> HIDE DEF label
  <2>5. /\ written \in CatalogRow /\ written.endpoint = view.rows[id].endpoint
        /\ written.protocol = label
    BY <2>1, <2>4 DEF CatalogRow
  <2>6. LabelOf(written) \in Told
    <3>1. LabelOf(written) = [endpoint |-> view.rows[id].endpoint, protocol |-> label]
      BY <2>5 DEF LabelOf
    <3>2. QED
      BY <2>1, <2>3, <3>1 DEF LabelOf, UpdatesTold
  <2>7. flushed.rows[id] \in CatalogRow /\ LabelOf(flushed.rows[id]) \in Told
    BY <2>1, <2>2, <2>5, <2>6
  <2>8. QED
    BY <2>7, FlushRelabels, Relabelled
<1>3. ASSUME NEW a \in DOMAIN view.rows, NEW b \in DOMAIN view.rows,
             LabelOf(flushed.rows[a]) = LabelOf(flushed.rows[b])
      PROVE  a = b
  <2>1. /\ flushed.rows[a].endpoint = flushed.rows[b].endpoint
        /\ flushed.rows[a].protocol = flushed.rows[b].protocol
    BY <1>3 DEF LabelOf
  <2>2. CASE flushed.rows[a].protocol \in HttpLike
    BY <1>2, <2>1, <2>2 DEF ViewTrue
  <2>3. CASE flushed.rows[a].protocol \notin HttpLike
    BY <1>2, <2>1, <2>3 DEF ViewTyped, LabelOf
  <2>4. QED
    BY <2>2, <2>3
<1>4. flushed.links \subseteq Id \X Source
  <2>1. flushed.links = view.links \cup
           {<<session.adds[i], Head(session.left)>> : i \in 1..Len(session.adds)}
    BY DEF Flushed
  <2>2. Head(session.left) \in Source
    BY DEF SessionShaped
  <2>3. \A i \in 1..Len(session.adds) : session.adds[i] \in Id
    BY DEF SessionTyped
  <2>4. view.links \subseteq Id \X Source
    BY DEF ViewTyped
  <2>5. QED
    BY <2>1, <2>2, <2>3, <2>4
<1>5. Gaps(flushed) <= MaxGaps
  BY <1>1 DEF ViewTyped, Gaps
<1> HIDE DEF flushed
<1>6. QED
  BY <1>1, <1>2, <1>3, <1>4, <1>5 DEF ViewTyped, flushed

\* Only the cycle itself changes its session.
LEMMA SessionIsTyped ==
    ASSUME CatalogInv, TypedInv, OneCycle, NEW c \in Collector, NEW s,
           cycle' = [cycle EXCEPT ![c] = s], cleanup' = cleanup,
           SessionTyped(s), HasRoom(s), UpdatesTold(View(c)', s),
           ViewTyped(saved'), ViewTyped(db')
    PROVE  TypedInv'
<1>1. cycle'[c] = s /\ \A d \in Collector : d = c
  BY DEF CatalogInv, ShapeInv, OneCycle
<1>2. cleanup' \in [phase : {"rest", "delete", "dead"}, ids : SUBSET Id]
  BY DEF TypedInv
<1>3. QED
  BY <1>1, <1>2 DEF TypedInv

\* A session with nothing pending.
LEMMA FreshTyped ==
    ASSUME NEW phase, NEW left, NEW listing \in Seq(Item)
    PROVE  LET session == CycleAt(phase, left, listing) IN
           /\ SessionTyped(session) /\ HasRoom(session)
           /\ \A view : UpdatesTold(view, session)
<1> DEFINE session == CycleAt(phase, left, listing)
<1>1. /\ session.listing = listing /\ session.at = 1 /\ session.seen = {}
      /\ DOMAIN session.updates = {} /\ session.relinked = {} /\ session.adds = <<>>
      /\ session.count = 0
  BY DEF CycleAt, NoUpdate
<1> HIDE DEF session
<1>2. 1 \in 1..Len(listing) + 1 /\ <<>> \in Seq(Id)
  OBVIOUS
<1>3. BatchSize \in Nat \ {0}
  BY ListedTyped
<1>4. QED
  BY <1>1, <1>2, <1>3 DEF SessionTyped, HasRoom, UpdatesTold, session

LEMMA OnwardTyped ==
    ASSUME NEW session, SessionShaped(session), SessionTyped(session)
    PROVE  /\ SessionTyped(Onward(session)) /\ HasRoom(Onward(session))
           /\ Onward(session).updates = session.updates
<1> DEFINE next == IF session.count >= BatchSize THEN "commit"
                   ELSE IF session.at <= Len(session.listing) THEN "item"
                   ELSE IF session.count > 0 THEN "commit" ELSE "total"
<1>1. next \in {"item", "commit", "total"} /\ (next = "item" => ~(session.count >= BatchSize))
  OBVIOUS
<1>2. Onward(session) = [session EXCEPT !.phase = next]
  BY DEF Onward
<1> HIDE DEF next
<1>3. /\ Onward(session).phase = next /\ Onward(session).listing = session.listing
      /\ Onward(session).at = session.at /\ Onward(session).seen = session.seen
      /\ Onward(session).updates = session.updates
      /\ Onward(session).relinked = session.relinked
      /\ Onward(session).adds = session.adds /\ Onward(session).count = session.count
  BY <1>2 DEF SessionShaped
<1>4. BatchSize \in Nat /\ session.count \in Nat
  BY ListedTyped DEF SessionTyped
<1>5. QED
  BY <1>1, <1>3, <1>4 DEF SessionTyped, HasRoom

LEMMA CountedTyped ==
    ASSUME NEW session, SessionShaped(session), SessionTyped(session),
           session.at <= Len(session.listing), session.count < BatchSize
    PROVE  /\ SessionTyped(Counted(session)) /\ HasRoom(Counted(session))
           /\ Counted(session).updates = session.updates
<1> DEFINE next == [session EXCEPT !.at = @ + 1, !.count = @ + 1]
<1>1. Counted(session) = Onward(next)
  BY DEF Counted
<1>2. /\ DOMAIN next = DOMAIN session
      /\ next.phase = session.phase /\ next.left = session.left
      /\ next.listing = session.listing /\ next.at = session.at + 1
      /\ next.seen = session.seen /\ next.updates = session.updates
      /\ next.relinked = session.relinked
      /\ next.adds = session.adds /\ next.count = session.count + 1
  BY DEF SessionShaped
<1> HIDE DEF next
<1>3. SessionShaped(next)
  BY <1>2 DEF SessionShaped
<1>4. next.at \in 1..Len(next.listing) + 1 /\ next.count \in 0..BatchSize
  BY <1>2, ListedTyped DEF SessionTyped
<1>5. SessionTyped(next)
  BY <1>2, <1>4 DEF SessionTyped
<1>6. QED
  BY <1>1, <1>2, <1>3, <1>5, OnwardTyped

\* Steps that leave the tables alone and drop what is pending.
LEMMA DropsTyped ==
    ASSUME CatalogInv, TypedInv, OneCycle, NEW c \in Collector,
           \/ BeginCycle(c) \/ EndCycle(c) \/ SkipDisabled(c) \/ OpenSource(c)
           \/ FinishSource(c) \/ RecordError(c) \/ Fail(c) \/ CycleDies(c) \/ ProcessEnds
    PROVE  TypedInv'
<1>1. <<>> \in Seq(Item) /\ cycle[c].listing \in Seq(Item)
  BY DEF TypedInv, SessionTyped
<1>2. CASE ProcessEnds
  <2>1. \A d \in Collector : cycle'[d] = CycleAt("rest", <<>>, <<>>)
    BY <1>2 DEF ProcessEnds, AtRest
  <2>2. saved' = saved /\ db' = saved /\ cleanup' = [phase |-> "rest", ids |-> {}]
    BY <1>2 DEF ProcessEnds
  <2>3. \A d \in Collector : /\ SessionTyped(cycle'[d]) /\ HasRoom(cycle'[d])
                             /\ UpdatesTold(View(d)', cycle'[d])
    BY <1>1, <2>1, FreshTyped
  <2>4. cleanup' \in [phase : {"rest", "delete", "dead"}, ids : SUBSET Id]
    BY <2>2
  <2>5. ViewTyped(saved') /\ ViewTyped(db')
    BY <2>2 DEF TypedInv
  <2>6. QED
    BY <2>3, <2>4, <2>5 DEF TypedInv
<1>3. ASSUME NEW phase, NEW left, NEW listing \in Seq(Item),
             cycle' = [cycle EXCEPT ![c] = CycleAt(phase, left, listing)],
             saved' = saved, db' \in {db, saved}, cleanup' = cleanup
      PROVE  TypedInv'
  <2>1. ViewTyped(saved') /\ ViewTyped(db')
    BY <1>3 DEF TypedInv
  <2>2. QED
    BY <1>3, <2>1, FreshTyped, SessionIsTyped
<1>4. QED
  BY <1>1, <1>2, <1>3
  DEF BeginCycle, EndCycle, SkipDisabled, OpenSource, FinishSource, RecordError, Fail,
      CycleDies, AtRest

\* The steps that only read.
LEMMA ReadsTyped ==
    ASSUME CatalogInv, SingleInv, TypedInv, OneCycle, NEW c \in Collector,
           FetchListing(c) \/ SkipItem(c) \/ FindNone(c)
    PROVE  TypedInv'
<1> DEFINE session == cycle[c]
<1>1. /\ SessionShaped(session) /\ session.left # <<>> /\ session.left \in Seq(Source)
  BY DEF FetchListing, SkipItem, FindNone, CatalogInv, ShapeInv, SessionShaped
<1>2. /\ SessionTyped(session) /\ HasRoom(session) /\ UpdatesTold(View(c), session)
      /\ ViewTyped(saved) /\ ViewTyped(db)
  BY DEF TypedInv
<1>3. saved' = saved /\ db' = db /\ writer' = writer /\ cleanup' = cleanup /\ View(c)' = View(c)
  BY DEF FetchListing, SkipItem, FindNone, View
<1>4. ASSUME NEW s, cycle' = [cycle EXCEPT ![c] = s], SessionTyped(s), HasRoom(s),
             UpdatesTold(View(c), s)
      PROVE  TypedInv'
  BY <1>2, <1>3, <1>4, SessionIsTyped
<1>5. CASE FetchListing(c)
  <2>1. PICK n \in 0..MaxListing :
           \E listing \in [1..n -> Listed[Head(session.left)]] :
              cycle' = [cycle EXCEPT ![c] = Onward(CycleAt("item", session.left, listing))]
    BY <1>5 DEF FetchListing
  <2>2. PICK listing \in [1..n -> Listed[Head(session.left)]] :
           cycle' = [cycle EXCEPT ![c] = Onward(CycleAt("item", session.left, listing))]
    BY <2>1
  <2> DEFINE s == CycleAt("item", session.left, listing)
  <2>3. listing \in Seq(Item)
    <3>1. Head(session.left) \in Source
      BY <1>1
    <3>2. Listed[Head(session.left)] \subseteq Item /\ n \in Nat
      BY <3>1, ListedTyped, CatalogAssumption
    <3>3. listing \in [1..n -> Item]
      BY <3>2
    <3>4. QED
      BY <3>2, <3>3
  <2>4. SessionShaped(s)
    BY <1>1, CycleAtShaped DEF CyclePhase
  <2>5. SessionTyped(s) /\ UpdatesTold(View(c), s)
    BY <2>3, FreshTyped
  <2> HIDE DEF s
  <2>6. SessionTyped(Onward(s)) /\ HasRoom(Onward(s)) /\ Onward(s).updates = s.updates
    BY <2>4, <2>5, OnwardTyped
  <2>7. UpdatesTold(View(c), Onward(s))
    BY <2>5, <2>6 DEF UpdatesTold
  <2>8. cycle' = [cycle EXCEPT ![c] = Onward(s)]
    BY <2>2 DEF s
  <2>9. QED
    BY <1>4, <2>6, <2>7, <2>8
<1>6. CASE SkipItem(c)
  <2> DEFINE next == [session EXCEPT !.at = @ + 1]
  <2>1. cycle' = [cycle EXCEPT ![c] = Onward(next)] /\ session.phase = "item"
    BY <1>6 DEF SkipItem
  <2>2. session.at <= Len(session.listing)
    BY <2>1 DEF SingleInv, PendingTrue
  <2>3. /\ DOMAIN next = DOMAIN session
        /\ next.phase = session.phase /\ next.left = session.left
        /\ next.listing = session.listing /\ next.at = session.at + 1
        /\ next.seen = session.seen /\ next.updates = session.updates
        /\ next.relinked = session.relinked
        /\ next.adds = session.adds /\ next.count = session.count
    BY <1>1 DEF SessionShaped
  <2> HIDE DEF next
  <2>4. next.at \in 1..Len(next.listing) + 1
    BY <1>2, <2>2, <2>3 DEF SessionTyped
  <2>5. SessionShaped(next) /\ SessionTyped(next)
    BY <1>1, <1>2, <2>3, <2>4 DEF SessionShaped, SessionTyped
  <2>6. /\ SessionTyped(Onward(next)) /\ HasRoom(Onward(next))
        /\ Onward(next).updates = session.updates
    BY <2>3, <2>5, OnwardTyped
  <2>7. UpdatesTold(View(c), Onward(next))
    BY <1>2, <2>6 DEF UpdatesTold
  <2>8. QED
    BY <1>4, <2>1, <2>6, <2>7
<1>7. CASE FindNone(c)
  <2> DEFINE seen == session.seen \cup {KeyOf(ItemOf(session))}
             next == [session EXCEPT !.phase = "insert", !.seen = seen]
  <2>1. cycle' = [cycle EXCEPT ![c] = next] /\ session.phase = "item"
    BY <1>7 DEF FindNone, CatalogInv, ShapeInv
  <2>2. seen \subseteq Key
    <3>1. ItemOf(session) \in Item
      BY <1>2, <2>1 DEF SingleInv, PendingTrue, ItemOf, SessionTyped
    <3>2. KeyOf(ItemOf(session)) \in Key
      BY <3>1 DEF KeyOf, Key, Item
    <3>3. QED
      BY <1>2, <3>2 DEF SessionTyped
  <2> HIDE DEF seen
  <2>3. /\ next.phase = "insert" /\ next.listing = session.listing /\ next.at = session.at
        /\ next.seen = seen /\ next.updates = session.updates
        /\ next.relinked = session.relinked
        /\ next.adds = session.adds /\ next.count = session.count
    BY <1>1 DEF SessionShaped
  <2> HIDE DEF next
  <2>4. SessionTyped(next) /\ HasRoom(next)
    BY <1>2, <2>1, <2>2, <2>3 DEF SessionTyped, HasRoom
  <2>5. UpdatesTold(View(c), next)
    BY <1>2, <2>3 DEF UpdatesTold
  <2>6. QED
    BY <1>4, <2>1, <2>4, <2>5
<1>8. QED
  BY <1>5, <1>6, <1>7

LEMMA ViewIsTyped ==
    ASSUME CatalogInv, TypedInv, NEW c \in Collector
    PROVE  /\ ViewTyped(View(c)) /\ DOMAIN View(c).rows \subseteq Id
           /\ ViewTyped(saved) /\ DOMAIN saved.rows \subseteq Id
BY ViewBounded DEF TypedInv, View, CatalogInv, ShapeInv

LEMMA FindOneTyped ==
    ASSUME CatalogInv, SingleInv, TypedInv, OneCycle, NEW c \in Collector, FindOne(c)
    PROVE  TypedInv'
<1> DEFINE session == cycle[c]
           view == View(c)
           item == ItemOf(session)
<1>1. /\ SessionShaped(session) /\ session.phase = "item" /\ session.left # <<>>
      /\ SessionTyped(session) /\ HasRoom(session) /\ UpdatesTold(view, session)
      /\ InListing(session) /\ session.at <= Len(session.listing)
  BY DEF FindOne, CatalogInv, ShapeInv, SessionShaped, TypedInv, SingleInv, PendingTrue
<1>2. PICK id \in Existing(c) :
        LET label == LabelIn(session, view, id)
            merged == MergedLabel(label, item.protocol)
            written == IF merged # label THEN merged
                       ELSE IF id \in DOMAIN session.updates
                               THEN session.updates[id] ELSE "same"
            linked == <<id, Head(session.left)>> \in view.links
        IN  cycle' = [cycle EXCEPT ![c] = Counted([session EXCEPT
                !.seen = @ \cup {KeyOf(item)},
                !.updates = [i \in DOMAIN @ \cup {id} |->
                                IF i = id THEN written ELSE @[i]],
                !.relinked = IF linked THEN @ \cup {id} ELSE @,
                !.adds = IF linked THEN @ ELSE Append(@, id)])]
  BY DEF FindOne
<1> DEFINE label == LabelIn(session, view, id)
           merged == MergedLabel(label, item.protocol)
           written == IF merged # label THEN merged
                      ELSE IF id \in DOMAIN session.updates
                              THEN session.updates[id] ELSE "same"
           linked == <<id, Head(session.left)>> \in view.links
           seen == session.seen \cup {KeyOf(item)}
           updates == [i \in DOMAIN session.updates \cup {id} |->
                          IF i = id THEN written ELSE session.updates[i]]
           relinked == IF linked THEN session.relinked \cup {id} ELSE session.relinked
           adds == IF linked THEN session.adds ELSE Append(session.adds, id)
           next == [session EXCEPT !.seen = seen, !.updates = updates,
                                   !.relinked = relinked, !.adds = adds]
<1>3. cycle' = [cycle EXCEPT ![c] = Counted(next)]
  BY <1>2
<1>4. /\ id \in DOMAIN view.rows /\ id \in Id /\ SameIdentity(view.rows[id], item)
  BY ViewIsTyped DEF Existing
<1>5. item \in Item /\ item \in Told
  <2>1. Head(session.left) \in Source
    BY <1>1 DEF SessionShaped
  <2>2. item \in Listed[Head(session.left)]
    BY <1>1, ItemListed
  <2>3. QED
    BY <2>1, <2>2, ListedTyped
<1>6. written = "https" /\ written # "same" =>
         [endpoint |-> view.rows[id].endpoint, protocol |-> "https"] \in Told
  <2>1. merged # label => item.protocol = "https" \/ label = "https" \/ merged # "https"
    BY DEF MergedLabel, HttpLike
  <2>2. merged # label => label # "https" \/ merged # "https"
    OBVIOUS
  <2>3. merged # label /\ merged = "https" =>
           [endpoint |-> view.rows[id].endpoint, protocol |-> "https"] = item
    BY <1>4, <1>5, <2>1, <2>2 DEF SameIdentity, Item
  <2>4. CASE merged # label
    BY <1>5, <2>3, <2>4
  <2>5. CASE merged = label
    BY <1>1, <1>4, <2>5 DEF UpdatesTold
  <2>6. QED
    BY <2>4, <2>5
<1>7. /\ DOMAIN updates = DOMAIN session.updates \cup {id} /\ updates[id] = written
      /\ \A i \in DOMAIN session.updates \ {id} : updates[i] = session.updates[i]
  BY DEF updates
<1>8. written \in {"same", "https"}
  <2>1. merged # label => merged = "https"
    BY DEF MergedLabel
  <2>2. id \in DOMAIN session.updates => session.updates[id] \in {"same", "https"}
    BY <1>1 DEF SessionShaped
  <2>3. QED
    BY <2>1, <2>2
<1>9. /\ seen \subseteq Key /\ relinked \subseteq Id /\ adds \in Seq(Id)
  <2>1. KeyOf(item) \in Key
    BY <1>5 DEF KeyOf, Key, Item
  <2>2. Append(session.adds, id) \in Seq(Id)
    BY <1>1, <1>4 DEF SessionTyped
  <2>3. QED
    BY <1>1, <1>4, <2>1, <2>2 DEF SessionTyped
<1> HIDE DEF label, merged, written, linked, seen, updates, relinked, adds
<1>10. adds \in Seq(Nat)
  BY <1>9, ListedTyped, SeqWidens
<1>11. /\ DOMAIN next = DOMAIN session
       /\ next.phase = session.phase /\ next.left = session.left
       /\ next.listing = session.listing /\ next.at = session.at /\ next.seen = seen
       /\ next.updates = updates /\ next.relinked = relinked
       /\ next.adds = adds /\ next.count = session.count
  BY <1>1 DEF SessionShaped
<1> HIDE DEF next
<1>12. SessionShaped(next) /\ SessionTyped(next)
  BY <1>1, <1>4, <1>7, <1>8, <1>9, <1>10, <1>11 DEF SessionShaped, SessionTyped
<1>13. next.at <= Len(next.listing) /\ next.count < BatchSize
  BY <1>1, <1>11 DEF HasRoom
<1>14. /\ SessionTyped(Counted(next)) /\ HasRoom(Counted(next))
       /\ Counted(next).updates = updates
  BY <1>11, <1>12, <1>13, CountedTyped
<1>15. UpdatesTold(view, Counted(next))
  BY <1>1, <1>6, <1>7, <1>14 DEF UpdatesTold
<1>16. /\ saved' = saved /\ db' = db /\ cleanup' = cleanup /\ View(c)' = view
       /\ ViewTyped(saved) /\ ViewTyped(db)
  BY DEF FindOne, View, TypedInv
<1>17. QED
  BY <1>3, <1>14, <1>15, <1>16, SessionIsTyped

LEMMA CommitBatchTyped ==
    ASSUME CatalogInv, SingleInv, TypedInv, OneCycle, NEW c \in Collector, CommitBatch(c)
    PROVE  TypedInv'
<1> DEFINE view == View(c)
           session == cycle[c]
           next == [FlushedSession(session) EXCEPT !.count = 0]
<1>1. /\ SessionShaped(session) /\ session.left # <<>> /\ session.phase = "commit"
      /\ SessionTyped(session) /\ UpdatesTold(view, session)
      /\ ViewShaped(view) /\ ViewTrue(view) /\ ViewTyped(view) /\ PendingTrue(view, session)
  BY ViewFacts, ViewIsTrue, ViewIsTyped
  DEF CommitBatch, CatalogInv, ShapeInv, SessionShaped, SingleInv, TypedInv
<1>2. CASE Fail(c)
  BY <1>2, DropsTyped
<1>3. CASE ~Fail(c)
  <2>1. /\ ~Conflict(view, session) /\ cleanup' = cleanup
        /\ saved' = Flushed(view, session) /\ db' = saved'
        /\ cycle' = [cycle EXCEPT ![c] = Onward(next)]
    BY <1>3 DEF CommitBatch
  <2>2. ViewTyped(saved') /\ ViewTyped(db')
    BY <1>1, <2>1, FlushTyped
  <2>3. /\ DOMAIN next = DOMAIN session
        /\ next.phase = session.phase /\ next.left = session.left
        /\ next.listing = session.listing /\ next.at = session.at
        /\ next.seen = session.seen /\ next.relinked = {}
        /\ next.updates = NoUpdate /\ next.adds = <<>> /\ next.count = 0
    BY <1>1 DEF FlushedSession, SessionShaped
  <2> HIDE DEF next
  <2>4. /\ <<>> \in Seq(Nat) /\ <<>> \in Seq(Id) /\ DOMAIN NoUpdate = {}
        /\ 0 \in 0..BatchSize
    BY ListedTyped DEF NoUpdate
  <2>5. SessionShaped(next) /\ SessionTyped(next)
    BY <1>1, <2>3, <2>4 DEF SessionShaped, SessionTyped
  <2>6. /\ SessionTyped(Onward(next)) /\ HasRoom(Onward(next))
        /\ Onward(next).updates = NoUpdate
    BY <2>3, <2>5, OnwardTyped
  <2>7. UpdatesTold(View(c)', Onward(next))
    BY <2>4, <2>6 DEF UpdatesTold
  <2>8. QED
    BY <2>1, <2>2, <2>6, <2>7, SessionIsTyped
<1>4. QED
  BY <1>2, <1>3

\* The new row is one that is listed, no row has its label yet, and its id is
\* as far above the number of rows as the highest id was before.
LEMMA InsertRowTyped ==
    ASSUME CatalogInv, SingleInv, TypedInv, OneCycle, NEW c \in Collector, InsertRow(c),
           CatalogInv'
    PROVE  TypedInv'
<1> DEFINE view == View(c)
           session == cycle[c]
           item == ItemOf(session)
           id == NextId(view)
           flushed == Flushed(view, session)
           next == [FlushedSession(session) EXCEPT !.adds = <<id>>]
<1>1. /\ SessionShaped(session) /\ session.left # <<>> /\ session.phase = "insert"
      /\ SessionTyped(session) /\ HasRoom(session) /\ UpdatesTold(view, session)
      /\ ViewShaped(view) /\ ViewTrue(view) /\ ViewTyped(view) /\ PendingTrue(view, session)
      /\ InListing(session) /\ session.at <= Len(session.listing)
  BY ViewFacts, ViewIsTrue, ViewIsTyped
  DEF InsertRow, CatalogInv, ShapeInv, SessionShaped, SingleInv, TypedInv, PendingTrue
<1>2. CASE Fail(c)
  BY <1>2, DropsTyped
<1>3. CASE ~Fail(c)
  <2>1. /\ ~Conflict(view, session)
        /\ \A i \in DOMAIN view.rows :
              ~(/\ flushed.rows[i].endpoint = item.endpoint
                /\ flushed.rows[i].protocol = item.protocol)
        /\ db' = Inserted(view, session, id)
        /\ saved' = saved /\ cleanup' = cleanup
        /\ cycle' = [cycle EXCEPT ![c] = Counted(next)]
    BY <1>3 DEF InsertRow
  <2>2. ViewTyped(flushed) /\ DOMAIN flushed.rows = DOMAIN view.rows /\ ViewShaped(flushed)
    BY <1>1, <2>1, FlushTyped, FlushKeeps
  <2>3. id \in Nat \ {0} /\ id \notin DOMAIN view.rows /\ \A i \in DOMAIN view.rows : i < id
    BY <1>1, NextIdFresh
  <2>4. /\ IsFiniteSet(DOMAIN view.rows) /\ DOMAIN view.rows \subseteq Id
        /\ id = Cardinality(DOMAIN view.rows) + Gaps(view) + 1
        /\ Gaps(view) \in Int /\ Cardinality(DOMAIN view.rows) \in Nat
    BY <1>1, ViewBounded
  <2>5. /\ db'.links = flushed.links
        /\ db'.rows = [i \in DOMAIN view.rows \cup {id} |->
                          IF i = id THEN NewRow(item) ELSE flushed.rows[i]]
    BY <2>1, <2>2 DEF Inserted, ViewShaped
  <2>6. /\ DOMAIN db'.rows = DOMAIN view.rows \cup {id}
        /\ db'.rows[id] = NewRow(item)
        /\ \A i \in DOMAIN view.rows : db'.rows[i] = flushed.rows[i]
    BY <2>3, <2>5
  <2>7. item \in Item /\ item \in Told
    <3>1. Head(session.left) \in Source
      BY <1>1 DEF SessionShaped
    <3>2. item \in Listed[Head(session.left)]
      BY <1>1, ItemListed
    <3>3. QED
      BY <3>1, <3>2, ListedTyped
  <2>8. NewRow(item) \in CatalogRow /\ LabelOf(NewRow(item)) = item
    BY <2>7 DEF NewRow, CatalogRow, LabelOf, Item
  <2>9. \A i \in DOMAIN view.rows : LabelOf(flushed.rows[i]) # item
    BY <2>1 DEF LabelOf
  <2> HIDE DEF item, flushed, view, id
  <2>10. Gaps(db') = Gaps(view)
    <3> DEFINE ids == DOMAIN db'.rows \cup {0}
    <3>1. ids \subseteq Nat /\ id \in ids /\ \A i \in ids : id >= i
      <4>1. ids = DOMAIN view.rows \cup {id, 0} /\ DOMAIN view.rows \subseteq Nat
        BY <2>4, <2>6, ListedTyped
      <4> HIDE DEF ids
      <4>2. QED
        BY <2>3, <4>1
    <3>2. Max(ids) = id
      BY <3>1, MaxIs
    <3>3. Cardinality(DOMAIN db'.rows) = Cardinality(DOMAIN view.rows) + 1
      <4>1. Cardinality(DOMAIN view.rows \cup {id}) = Cardinality(DOMAIN view.rows) + 1
        BY <2>3, <2>4, FS_AddElement
      <4>2. QED
        BY <2>6, <4>1
    <3> HIDE DEF ids
    <3>4. Gaps(db') = id - Cardinality(DOMAIN db'.rows)
      BY <3>2 DEF Gaps, ids
    <3>5. QED
      BY <2>3, <2>4, <3>3, <3>4
  <2>11. ViewTyped(db')
    <3>1. \A i \in DOMAIN db'.rows : db'.rows[i] \in CatalogRow /\ LabelOf(db'.rows[i]) \in Told
      BY <2>2, <2>6, <2>7, <2>8 DEF ViewTyped
    <3>2. \A a, b \in DOMAIN db'.rows : LabelOf(db'.rows[a]) = LabelOf(db'.rows[b]) => a = b
      BY <2>2, <2>6, <2>8, <2>9 DEF ViewTyped
    <3>3. QED
      BY <1>1, <2>2, <2>5, <2>10, <3>1, <3>2 DEF ViewTyped
  <2>12. id \in Id
    <3>1. ViewShaped(db')
      BY DEF CatalogInv, ShapeInv
    <3>2. QED
      BY <2>6, <2>11, <3>1, ViewBounded
  <2>13. /\ DOMAIN next = DOMAIN session
         /\ next.phase = session.phase /\ next.left = session.left
         /\ next.listing = session.listing /\ next.at = session.at
         /\ next.seen = session.seen /\ next.relinked = {}
         /\ next.updates = NoUpdate /\ next.adds = <<id>> /\ next.count = session.count
    BY <1>1 DEF FlushedSession, SessionShaped
  <2> HIDE DEF next, session
  <2>14. <<id>> \in Seq(Nat) /\ <<id>> \in Seq(Id) /\ DOMAIN NoUpdate = {}
    BY <2>3, <2>12 DEF NoUpdate
  <2>15. SessionShaped(next) /\ SessionTyped(next)
    BY <1>1, <2>13, <2>14 DEF SessionShaped, SessionTyped
  <2>16. next.at <= Len(next.listing) /\ next.count < BatchSize
    BY <1>1, <2>13 DEF HasRoom
  <2>17. /\ SessionTyped(Counted(next)) /\ HasRoom(Counted(next))
         /\ Counted(next).updates = NoUpdate
    BY <2>13, <2>15, <2>16, CountedTyped
  <2>18. UpdatesTold(View(c)', Counted(next))
    BY <2>14, <2>17 DEF UpdatesTold
  <2>19. ViewTyped(saved')
    BY <2>1 DEF TypedInv
  <2>20. QED
    BY <2>1, <2>11, <2>17, <2>18, <2>19, SessionIsTyped
<1>4. QED
  BY <1>2, <1>3

\* Removals and ageing.  The cleanup job removes no row: each has a link, and
\* with one the deletion fails.
LEMMA OthersTyped ==
    ASSUME CatalogInv, TypedInv,
           \/ \E id \in Id : RemoveProxy(id) \/ GrowStale(id)
           \/ CleanupSelect \/ CleanupDelete
    PROVE  TypedInv'
<1>1. /\ ViewShaped(saved) /\ ViewTyped(saved) /\ DOMAIN saved.rows \subseteq Id
      /\ cleanup \in [phase : {"rest", "delete", "dead"}, ids : SUBSET Id]
  BY ViewBounded DEF TypedInv, CatalogInv, ShapeInv
<1>2. ASSUME writer = NoOne, writer' = NoOne, cycle' = cycle, db' = saved', ViewTyped(saved'),
             DOMAIN saved'.rows \subseteq DOMAIN saved.rows,
             \A id \in DOMAIN saved'.rows : saved'.rows[id].endpoint = saved.rows[id].endpoint,
             cleanup' \in [phase : {"rest", "delete", "dead"}, ids : SUBSET Id]
      PROVE  TypedInv'
  <2>1. \A c \in Collector : View(c) = saved /\ View(c)' = saved'
    BY <1>2, NoOneElse DEF View
  <2>2. \A c \in Collector : UpdatesTold(View(c)', cycle'[c])
    BY <1>2, <2>1 DEF TypedInv, UpdatesTold
  <2>3. \A c \in Collector : SessionTyped(cycle'[c]) /\ HasRoom(cycle'[c])
    BY <1>2 DEF TypedInv
  <2>4. QED
    BY <1>2, <2>2, <2>3 DEF TypedInv
<1>3. ASSUME NEW id \in Id, RemoveProxy(id)
      PROVE  TypedInv'
  <2>1. /\ saved' = Without(saved, {id}) /\ db' = saved' /\ writer = NoOne
        /\ writer' = writer /\ cycle' = cycle /\ cleanup' = cleanup
        /\ Gaps(Without(saved, {id})) <= MaxGaps
    BY <1>3 DEF RemoveProxy
  <2>2. /\ saved'.rows = [i \in DOMAIN saved.rows \ {id} |-> saved.rows[i]]
        /\ saved'.links = {link \in saved.links : link[1] \notin {id}}
    BY <2>1 DEF Without
  <2>3. /\ DOMAIN saved'.rows = DOMAIN saved.rows \ {id}
        /\ \A i \in DOMAIN saved'.rows : saved'.rows[i] = saved.rows[i]
    BY <2>2
  <2>4. Gaps(saved') <= MaxGaps
    BY <2>1
  <2>5. ViewTyped(saved')
    BY <1>1, <2>2, <2>3, <2>4 DEF ViewTyped
  <2>6. QED
    BY <1>1, <1>2, <2>1, <2>3, <2>5
<1>4. ASSUME NEW id \in Id, GrowStale(id)
      PROVE  TypedInv'
  <2> DEFINE aged == [saved.rows[id] EXCEPT !.stale = TRUE]
  <2>1. /\ saved' = [saved EXCEPT !.rows = [saved.rows EXCEPT ![id] = aged]]
        /\ saved = [rows |-> saved.rows, links |-> saved.links]
        /\ id \in DOMAIN saved.rows /\ saved.rows[id] \in CatalogRow
    BY <1>1, <1>4 DEF GrowStale, ViewShaped, ViewTyped
  <2>2. /\ aged \in CatalogRow /\ aged.endpoint = saved.rows[id].endpoint
        /\ LabelOf(aged) = LabelOf(saved.rows[id])
    BY <2>1 DEF CatalogRow, LabelOf
  <2> HIDE DEF aged
  <2>3. /\ saved'.links = saved.links /\ DOMAIN saved'.rows = DOMAIN saved.rows
        /\ \A i \in DOMAIN saved.rows :
              saved'.rows[i] = IF i = id THEN aged ELSE saved.rows[i]
    BY <2>1
  <2>4. /\ \A i \in DOMAIN saved.rows :
              /\ saved'.rows[i] \in CatalogRow
              /\ LabelOf(saved'.rows[i]) = LabelOf(saved.rows[i])
              /\ saved'.rows[i].endpoint = saved.rows[i].endpoint
    BY <1>1, <2>2, <2>3 DEF ViewTyped
  <2>5. Gaps(saved') = Gaps(saved)
    BY <2>3 DEF Gaps
  <2>6. ViewTyped(saved')
    BY <1>1, <2>3, <2>4, <2>5 DEF ViewTyped
  <2>7. /\ db' = saved' /\ writer = NoOne /\ writer' = writer /\ cycle' = cycle
        /\ cleanup' = cleanup
    BY <1>4 DEF GrowStale
  <2>8. QED
    BY <1>1, <1>2, <2>3, <2>4, <2>6, <2>7
<1>5. ASSUME UNCHANGED <<saved, db, writer, cycle>>,
             cleanup' \in [phase : {"rest", "delete", "dead"}, ids : SUBSET Id]
      PROVE  TypedInv'
  BY <1>5 DEF TypedInv, View
<1>6. CASE CleanupSelect
  <2>1. cleanup' = [phase |-> "delete", ids |-> {id \in DOMAIN saved.rows : saved.rows[id].stale}]
    BY <1>6 DEF CleanupSelect
  <2>2. cleanup' \in [phase : {"rest", "delete", "dead"}, ids : SUBSET Id]
    BY <1>1, <2>1
  <2>3. QED
    BY <1>5, <1>6, <2>2 DEF CleanupSelect
<1>7. CASE CleanupDelete
  <2>1. CASE saved' # saved
    <3>1. /\ saved' = Without(saved, cleanup.ids) /\ db' = saved' /\ writer = NoOne
          /\ writer' = writer /\ cycle' = cycle
          /\ ~\E link \in saved.links : link[1] \in cleanup.ids
          /\ cleanup' = [phase |-> "rest", ids |-> {}]
      BY <1>7, <2>1 DEF CleanupDelete
    <3>2. \A id \in DOMAIN saved.rows : id \notin cleanup.ids
      <4>1. \A id \in DOMAIN saved.rows : \E s \in Source : <<id, s>> \in saved.links
        BY DEF CatalogInv, LinkInv, RowsLinked
      <4>2. QED
        BY <3>1, <4>1
    <3>3. /\ saved'.rows = [id \in DOMAIN saved.rows \ cleanup.ids |-> saved.rows[id]]
          /\ saved'.links = {link \in saved.links : link[1] \notin cleanup.ids}
      BY <3>1 DEF Without
    <3>4. /\ DOMAIN saved'.rows = DOMAIN saved.rows
          /\ \A id \in DOMAIN saved'.rows : saved'.rows[id] = saved.rows[id]
      BY <3>2, <3>3
    <3>5. Gaps(saved') = Gaps(saved)
      BY <3>4 DEF Gaps
    <3>6. ViewTyped(saved')
      BY <1>1, <3>3, <3>4, <3>5 DEF ViewTyped
    <3>7. cleanup' \in [phase : {"rest", "delete", "dead"}, ids : SUBSET Id]
      BY <3>1
    <3>8. QED
      BY <1>2, <3>1, <3>4, <3>6, <3>7
  <2>2. CASE saved' = saved
    <3>1. cleanup' \in [phase : {"rest", "delete", "dead"}, ids : SUBSET Id]
      BY <1>7 DEF CleanupDelete
    <3>2. CASE db' = db
      BY <1>5, <1>7, <2>2, <3>1, <3>2 DEF CleanupDelete
    <3>3. CASE db' # db
      <4>1. writer = NoOne /\ writer' = NoOne /\ cycle' = cycle /\ db' = saved'
        BY <1>7, <3>3 DEF CleanupDelete
      <4>2. QED
        BY <1>1, <1>2, <2>2, <3>1, <4>1
    <3>4. QED
      BY <3>2, <3>3
  <2>3. QED
    BY <2>1, <2>2
<1>8. QED
  BY <1>3, <1>4, <1>6, <1>7

LEMMA TypedInit == CatalogInit => TypedInv
<1> SUFFICES ASSUME CatalogInit PROVE TypedInv
  OBVIOUS
<1>1. /\ saved = Empty /\ db = Empty /\ cleanup = [phase |-> "rest", ids |-> {}]
      /\ cycle = [c \in Collector |-> CycleAt("rest", <<>>, <<>>)]
  BY DEF CatalogInit, AtRest
<1>2. DOMAIN Empty.rows = {} /\ Empty.links = {}
  BY DEF Empty
<1>3. Gaps(Empty) = 0
  <2>1. Max(DOMAIN Empty.rows \cup {0}) = 0
    <3>1. DOMAIN Empty.rows \cup {0} = {0}
      BY <1>2
    <3>2. {0} \subseteq Nat /\ \A y \in {0} : 0 >= y
      OBVIOUS
    <3>3. Max({0}) = 0
      BY <3>2, MaxIs
    <3>4. QED
      BY <3>1, <3>3
  <2>2. Cardinality(DOMAIN Empty.rows) = 0
    BY <1>2, FS_EmptySet
  <2>3. QED
    BY <2>1, <2>2 DEF Gaps
<1>4. ViewTyped(saved) /\ ViewTyped(db)
  BY <1>1, <1>2, <1>3, CatalogAssumption DEF ViewTyped
<1>5. <<>> \in Seq(Item)
  OBVIOUS
<1>6. \A c \in Collector : /\ SessionTyped(cycle[c]) /\ HasRoom(cycle[c])
                           /\ UpdatesTold(View(c), cycle[c])
  BY <1>1, <1>5, FreshTyped
<1>7. cleanup \in [phase : {"rest", "delete", "dead"}, ids : SUBSET Id]
  BY <1>1
<1>8. QED
  BY <1>4, <1>6, <1>7 DEF TypedInv

LEMMA TypedStep ==
    ASSUME CatalogInv, SingleInv, TypedInv, OneCycle, [CatalogNext]_catalogVars, CatalogInv'
    PROVE  TypedInv'
<1>1. CASE \/ \E id \in Id : RemoveProxy(id) \/ GrowStale(id)
           \/ CleanupSelect \/ CleanupDelete
  BY <1>1, OthersTyped
<1>2. ASSUME NEW c \in Collector, CycleStep(c)
      PROVE  TypedInv'
  BY <1>2, DropsTyped, ReadsTyped, FindOneTyped, InsertRowTyped, CommitBatchTyped
  DEF CycleStep, FindSeveral, VisitFails
<1>3. CASE Crash
  <2>1. CASE Collector = {}
    <3>1. saved' = saved /\ db' = saved /\ cleanup' = [phase |-> "rest", ids |-> {}]
      BY <1>3 DEF Crash, ProcessEnds
    <3>2. QED
      BY <2>1, <3>1 DEF TypedInv
  <2>2. CASE Collector # {}
    BY <1>3, <2>2, DropsTyped DEF Crash
  <2>3. QED
    BY <2>1, <2>2
<1>4. CASE UNCHANGED catalogVars
  BY <1>4 DEF catalogVars, TypedInv, View
<1>5. QED
  BY <1>1, <1>2, <1>3, <1>4 DEF CatalogNext

\* With one cycle at a time the tables, the session and the loops hold what they
\* should.  That ids stay within their bound takes the most: there are no more
\* rows than listed items, for a row's label is always one that is listed, and
\* the ids given out grow only with the rows.
THEOREM CatalogAlwaysTyped ==
    ASSUME OneCycle
    PROVE  CatalogSpec => []CatalogTypeOK
<1>1. /\ CatalogInv /\ SingleInv /\ TypedInv /\ [CatalogNext]_catalogVars
         => CatalogInv' /\ SingleInv' /\ TypedInv'
  BY CatalogStep, SingleStep, TypedStep
<1>2. CatalogInv /\ TypedInv => CatalogTypeOK
  <2> SUFFICES ASSUME CatalogInv, TypedInv PROVE CatalogTypeOK
    OBVIOUS
  <2>1. ASSUME NEW view, ViewShaped(view), ViewTyped(view) PROVE IsDatabase(view)
    BY <2>1, ViewBounded DEF IsDatabase, ViewTyped
  <2>2. IsDatabase(saved) /\ IsDatabase(db)
    BY <2>1 DEF CatalogInv, ShapeInv, TypedInv
  <2>3. ASSUME NEW c \in Collector PROVE IsCycle(cycle[c])
    <3>1. SessionShaped(cycle[c]) /\ SessionTyped(cycle[c])
      BY DEF CatalogInv, ShapeInv, TypedInv
    <3>2. \A id \in DOMAIN cycle[c].updates : cycle[c].updates[id] \in Protocol \cup {"same"}
      BY <3>1 DEF SessionShaped, Protocol, HttpLike
    <3>3. QED
      BY <3>1, <3>2 DEF IsCycle, SessionShaped, SessionTyped
  <2>4. QED
    BY <2>2, <2>3 DEF CatalogTypeOK, CatalogInv, ShapeInv, TypedInv
<1>3. QED
  BY <1>1, <1>2, CatalogInitInv, SingleInit, TypedInit, PTL DEF CatalogSpec

=============================================================================
