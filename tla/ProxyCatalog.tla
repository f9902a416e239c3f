---------------------------- MODULE ProxyCatalog ----------------------------
(***************************************************************************)
(* The tables proxies and proxy_source_links and the jobs that write them: *)
(* collection cycles (app/services/collector.py, run by the start-up cycle *)
(* and by the collector loop), the checker's removal of a row and the      *)
(* cleanup job.  A cycle reads and writes the database statement by        *)
(* statement from a session with autoflush off (app/database.py): changes  *)
(* stay in the session until a flush, and a flush takes SQLite's single    *)
(* write lock until the commit.  Other connections read what is committed. *)
(*                                                                         *)
(* An id is the primary key; SQLite gives a new row the highest id in use  *)
(* plus one, so an id can come back.                                       *)
(***************************************************************************)
EXTENDS Integers, Sequences, FiniteSetsExt

CONSTANTS
    Source,       \* names of the sources
    Order,        \* the sources in the order of sources.json
    Endpoint,     \* normalized host and port
    Listed,       \* per source, the items [endpoint, protocol] it may list
    MaxListing,   \* bound of the model: items in one listing
    Collector,    \* which collection cycles run, see CollectorName
    BatchSize,    \* settings.collector_persist_batch_size
    MaxGaps,      \* bound of the model: unused ids below the highest one
    Environment   \* which events around the cycles occur, see CatalogEvent

CollectorName == {"initial", "loop"}

CatalogEvent ==
    {"error",     \* a fetch or a statement of the visit of a source raises
     "open_error", \* a statement between the visits raises
     "crash",     \* the process dies
     "remove",    \* the checker removes a row
     "stale",     \* a row becomes old enough for the cleanup job
     "disabled"}  \* a source is disabled in sources.json

HttpLike == {"http", "https"}

Protocol == HttpLike \cup {"socks4", "socks5"}

Item == [endpoint : Endpoint, protocol : Protocol]

ASSUME CatalogAssumption ==
    /\ Order \in Seq(Source)
    /\ Listed \in [Source -> SUBSET Item]
    /\ IsFiniteSet(UNION {Listed[s] : s \in Source})
    /\ MaxListing \in Nat
    /\ Collector \subseteq CollectorName
    /\ BatchSize \in Nat \ {0}
    /\ MaxGaps \in Nat
    /\ Environment \subseteq CatalogEvent

Id == 1..Cardinality(UNION {Listed[s] : s \in Source}) + MaxGaps

NoOne == "none"

VARIABLES
    saved,     \* what is committed: rows by id, and links <<id, source>>
    db,        \* what the holder of the write lock sees
    writer,    \* the collector in a write transaction, or NoOne
    cycle,     \* per collector: where its cycle is, with its session
    cleanup    \* the cleanup loop

catalogVars == <<saved, db, writer, cycle, cleanup>>

\* stale: DEAD, never succeeded, and last_seen before the cleanup's cutoff.
CatalogRow == [endpoint : Endpoint, protocol : Protocol, stale : BOOLEAN]

IsDatabase(view) ==
    /\ DOMAIN view.rows \subseteq Id
    /\ \A id \in DOMAIN view.rows : view.rows[id] \in CatalogRow
    /\ view.links \subseteq Id \X Source

CyclePhase == {"rest", "open", "fetch", "item", "insert", "commit", "total",
               "record", "dead"}

Key == (Protocol \cup {"http-like"}) \X Endpoint

\* A collection cycle with its session:
\*   left      sources to visit, the current one first
\*   listing   what the current source listed
\*   at        the item under way
\*   seen      keys met in this listing
\*   updates   pending UPDATEs of rows: every one sets last_seen, some change
\*             the label
\*   relinked  rows with a pending UPDATE of their link
\*   adds      pending link INSERTs, one per object
\*   count     since_commit
IsCycle(session) ==
    /\ session.phase \in CyclePhase
    /\ session.left \in Seq(Source)
    /\ session.listing \in Seq(Item)
    /\ session.at \in 1..Len(session.listing) + 1
    /\ session.seen \subseteq Key
    /\ DOMAIN session.updates \subseteq Id
    /\ \A id \in DOMAIN session.updates :
          session.updates[id] \in Protocol \cup {"same"}
    /\ session.relinked \subseteq Id
    /\ session.adds \in Seq(Id)
    /\ session.count \in 0..BatchSize

CatalogTypeOK ==
    /\ IsDatabase(saved) /\ IsDatabase(db)
    /\ writer \in Collector \cup {NoOne}
    /\ \A c \in Collector : IsCycle(cycle[c])
    /\ cleanup \in [phase : {"rest", "delete", "dead"}, ids : SUBSET Id]

NoUpdate == [id \in {} |-> "same"]

CycleAt(phase, left, listing) ==
    [phase |-> phase, left |-> left, listing |-> listing, at |-> 1,
     seen |-> {}, updates |-> NoUpdate, relinked |-> {}, adds |-> <<>>,
     count |-> 0]

AtRest == CycleAt("rest", <<>>, <<>>)

\* No rows: the function with the empty domain.
Empty == [rows |-> <<>>, links |-> {}]

CatalogInit ==
    /\ saved = Empty
    /\ db = Empty
    /\ writer = NoOne
    /\ cycle = [c \in Collector |-> AtRest]
    /\ cleanup = [phase |-> "rest", ids |-> {}]

-----------------------------------------------------------------------------
(* The session of a cycle.                                                 *)

View(c) == IF writer = c THEN db ELSE saved

MayWrite(c) == writer \in {NoOne, c}

\* Mutant: each label has a row of its own.
SameLabel(row, item) ==
    row.endpoint = item.endpoint /\ row.protocol = item.protocol

\* http and https share one row per endpoint, SOCKS labels have their own.
SameIdentity(row, item) ==
    /\ row.endpoint = item.endpoint
    /\ \/ row.protocol = item.protocol
       \/ {row.protocol, item.protocol} \subseteq HttpLike

KeyOf(item) ==
    <<IF item.protocol \in HttpLike THEN "http-like" ELSE item.protocol,
      item.endpoint>>

\* Mutant: the label listed last wins.
LatestLabel(existing, incoming) == incoming

\* merge_collected_protocol for two labels of one row.
MergedLabel(existing, incoming) ==
    IF {existing, incoming} = HttpLike THEN "https" ELSE existing

\* The label of a row as the session has it.
LabelIn(session, view, id) ==
    IF id \in DOMAIN session.updates /\ session.updates[id] # "same"
       THEN session.updates[id] ELSE view.rows[id].protocol

\* What a flush cannot write: an UPDATE of a row or link that is gone
\* (StaleDataError), a link that exists already or comes twice
\* (uq_proxy_source_link), a label another row of the endpoint has
\* (uq_proxy_identity).
Conflict(view, session) ==
    LET source == Head(session.left)
        relabelled == {id \in DOMAIN session.updates \cap DOMAIN view.rows :
                          session.updates[id] # "same"}
    IN
    \/ ~(DOMAIN session.updates \subseteq DOMAIN view.rows)
    \/ \E id \in session.relinked : <<id, source>> \notin view.links
    \/ \E i \in 1..Len(session.adds) :
          \/ <<session.adds[i], source>> \in view.links
          \/ \E j \in 1..i - 1 : session.adds[j] = session.adds[i]
    \/ \E id \in relabelled : \E other \in DOMAIN view.rows \ {id} :
          /\ view.rows[other].endpoint = view.rows[id].endpoint
          /\ view.rows[other].protocol = session.updates[id]

Flushed(view, session) ==
    [rows |-> [id \in DOMAIN view.rows |->
                 IF id \in DOMAIN session.updates
                    THEN [view.rows[id] EXCEPT
                            !.stale = FALSE,
                            !.protocol = LabelIn(session, view, id)]
                    ELSE view.rows[id]],
     links |-> view.links \cup
        {<<session.adds[i], Head(session.left)>> : i \in 1..Len(session.adds)}]

\* Nothing is pending any more; the objects themselves stay in the session.
FlushedSession(session) ==
    [session EXCEPT !.updates = NoUpdate, !.relinked = {}, !.adds = <<>>]

\* Mutant: a batch is committed one item late.
OnwardLate(session) ==
    [session EXCEPT !.phase =
        IF session.count > BatchSize THEN "commit"
        ELSE IF session.at <= Len(session.listing) THEN "item"
        ELSE IF session.count > 0 THEN "commit" ELSE "total"]

\* What comes next: the commit of a full batch, the next item, the commit of
\* the rest, or the totals of the source.
Onward(session) ==
    [session EXCEPT !.phase =
        IF session.count >= BatchSize THEN "commit"
        ELSE IF session.at <= Len(session.listing) THEN "item"
        ELSE IF session.count > 0 THEN "commit" ELSE "total"]

\* The end of an item.
Counted(session) == Onward([session EXCEPT !.at = @ + 1, !.count = @ + 1])

\* Mutant: the session is not closed, its transaction stays open.
FailUnclosed(c) ==
    /\ cycle' = [cycle EXCEPT ![c] =
                    CycleAt("record", cycle[c].left, cycle[c].listing)]
    /\ UNCHANGED <<saved, db, writer, cleanup>>

\* An exception in the visit of a source: the session is closed, which rolls
\* its transaction back, and the error is to be recorded.
Fail(c) ==
    /\ cycle' = [cycle EXCEPT ![c] =
                    CycleAt("record", cycle[c].left, cycle[c].listing)]
    /\ IF writer = c THEN writer' = NoOne /\ db' = saved
                     ELSE UNCHANGED <<writer, db>>
    /\ UNCHANGED <<saved, cleanup>>

-----------------------------------------------------------------------------
(* A collection cycle.                                                     *)

\* collect_all begins.
BeginCycle(c) ==
    /\ cycle[c].phase = "rest"
    /\ cycle' = [cycle EXCEPT ![c] = CycleAt("open", Order, <<>>)]
    /\ UNCHANGED <<saved, db, writer, cleanup>>

EndCycle(c) ==
    /\ cycle[c].phase = "open" /\ cycle[c].left = <<>>
    /\ cycle' = [cycle EXCEPT ![c] = AtRest]
    /\ UNCHANGED <<saved, db, writer, cleanup>>

SkipDisabled(c) ==
    /\ "disabled" \in Environment
    /\ cycle[c].phase = "open" /\ cycle[c].left # <<>>
    /\ cycle' = [cycle EXCEPT ![c] = CycleAt("open", Tail(cycle[c].left), <<>>)]
    /\ UNCHANGED <<saved, db, writer, cleanup>>

\* last_run is written and committed before the visit's try block.
OpenSource(c) ==
    /\ cycle[c].phase = "open" /\ cycle[c].left # <<>>
    /\ writer = NoOne
    /\ cycle' = [cycle EXCEPT ![c] = CycleAt("fetch", cycle[c].left, <<>>)]
    /\ UNCHANGED <<saved, db, writer, cleanup>>

\* The source answers with some of what it lists, in any order; an item may
\* come twice, its host spelled differently.
FetchListing(c) ==
    /\ cycle[c].phase = "fetch"
    /\ \E n \in 0..MaxListing :
         \E listing \in [1..n -> Listed[Head(cycle[c].left)]] :
            cycle' = [cycle EXCEPT ![c] =
                         Onward(CycleAt("item", cycle[c].left, listing))]
    /\ UNCHANGED <<saved, db, writer, cleanup>>

ItemOf(session) == session.listing[session.at]

\* A key met before is passed over, but http-like keys never are.
Repeated(session) ==
    KeyOf(ItemOf(session)) \in session.seen /\ ItemOf(session).protocol \notin HttpLike

\* _find_existing_proxy: the ids of the rows the query returns.
Existing(c) ==
    {id \in DOMAIN View(c).rows :
        SameIdentity(View(c).rows[id], ItemOf(cycle[c]))}

SkipItem(c) ==
    /\ cycle[c].phase = "item"
    /\ Repeated(cycle[c])
    /\ cycle' = [cycle EXCEPT ![c] = Onward([cycle[c] EXCEPT !.at = @ + 1])]
    /\ UNCHANGED <<saved, db, writer, cleanup>>

\* No row: the INSERT is a statement of its own, others may come before it.
FindNone(c) ==
    /\ cycle[c].phase = "item"
    /\ ~Repeated(cycle[c])
    /\ Existing(c) = {}
    /\ cycle' = [cycle EXCEPT ![c].phase = "insert",
                              ![c].seen = @ \cup {KeyOf(ItemOf(cycle[c]))}]
    /\ UNCHANGED <<saved, db, writer, cleanup>>

\* The row is there: it is updated in the session, and so is its link, or a
\* link is added if the query, which does not see the session, finds none.
FindOne(c) ==
    /\ cycle[c].phase = "item"
    /\ ~Repeated(cycle[c])
    /\ \E id \in Existing(c) :
         LET session == cycle[c]
             label == LabelIn(session, View(c), id)
             merged == MergedLabel(label, ItemOf(session).protocol)
             written == IF merged # label THEN merged
                        ELSE IF id \in DOMAIN session.updates
                                THEN session.updates[id] ELSE "same"
             linked == <<id, Head(session.left)>> \in View(c).links
         IN
         /\ Existing(c) = {id}
         /\ cycle' = [cycle EXCEPT ![c] = Counted([session EXCEPT
                !.seen = @ \cup {KeyOf(ItemOf(session))},
                !.updates = [i \in DOMAIN @ \cup {id} |->
                                IF i = id THEN written ELSE @[i]],
                !.relinked = IF linked THEN @ \cup {id} ELSE @,
                !.adds = IF linked THEN @ ELSE Append(@, id)])]
    /\ UNCHANGED <<saved, db, writer, cleanup>>

\* More than one row: one_or_none raises.
FindSeveral(c) ==
    /\ cycle[c].phase = "item"
    /\ ~Repeated(cycle[c])
    /\ Cardinality(Existing(c)) > 1
    /\ Fail(c)

NewRow(item) ==
    [endpoint |-> item.endpoint, protocol |-> item.protocol, stale |-> FALSE]

\* The pending changes are flushed and the row is inserted.
Inserted(view, session, id) ==
    LET flushed == Flushed(view, session) IN
    [flushed EXCEPT !.rows =
        [i \in DOMAIN view.rows \cup {id} |->
            IF i = id THEN NewRow(ItemOf(session)) ELSE flushed.rows[i]]]

NextId(view) == Max(DOMAIN view.rows \cup {0}) + 1

\* Mutant: the new row is committed at once, its link only with the batch.
InsertRowCommitting(c) ==
    /\ cycle[c].phase = "insert"
    /\ MayWrite(c)
    /\ ~Conflict(View(c), cycle[c])
    /\ saved' = Inserted(View(c), cycle[c], NextId(View(c)))
    /\ db' = saved'
    /\ writer' = NoOne
    /\ cycle' = [cycle EXCEPT ![c] = Counted(
                    [FlushedSession(@) EXCEPT !.adds = <<NextId(View(c))>>])]
    /\ UNCHANGED cleanup

\* db.flush writes the new row with everything pending; its link is looked up
\* inside the transaction and added to the session.
InsertRow(c) ==
    LET view == View(c)
        id == NextId(view)
        taken == \E i \in DOMAIN view.rows :
                    /\ Flushed(view, cycle[c]).rows[i].endpoint
                          = ItemOf(cycle[c]).endpoint
                    /\ Flushed(view, cycle[c]).rows[i].protocol
                          = ItemOf(cycle[c]).protocol
    IN
    /\ cycle[c].phase = "insert"
    /\ MayWrite(c)
    /\ \/ Conflict(view, cycle[c]) /\ Fail(c)
       \/ ~Conflict(view, cycle[c]) /\ taken /\ Fail(c)
       \/ /\ ~Conflict(view, cycle[c]) /\ ~taken
          /\ db' = Inserted(view, cycle[c], id)
          /\ writer' = c
          /\ cycle' = [cycle EXCEPT ![c] =
                          Counted([FlushedSession(@) EXCEPT !.adds = <<id>>])]
          /\ UNCHANGED <<saved, cleanup>>

\* A batch is full, or the listing ended with something to commit.
CommitBatch(c) ==
    /\ cycle[c].phase = "commit"
    /\ MayWrite(c)
    /\ \/ Conflict(View(c), cycle[c]) /\ Fail(c)
       \/ /\ ~Conflict(View(c), cycle[c])
          /\ saved' = Flushed(View(c), cycle[c])
          /\ db' = saved'
          /\ writer' = NoOne
          /\ cycle' = [cycle EXCEPT ![c] =
                          Onward([FlushedSession(@) EXCEPT !.count = 0])]
          /\ UNCHANGED cleanup

\* The listing is persisted: the totals of the source are committed.
FinishSource(c) ==
    /\ cycle[c].phase = "total"
    /\ writer = NoOne
    /\ cycle' = [cycle EXCEPT ![c] =
                    CycleAt("open", Tail(cycle[c].left), cycle[c].listing)]
    /\ UNCHANGED <<saved, db, writer, cleanup>>

\* Waiting for the lock ends with "database is locked" after a while.
LockTimesOut(c, phases) == cycle[c].phase \in phases /\ ~MayWrite(c)

VisitFails(c) ==
    /\ \/ /\ "error" \in Environment
          /\ cycle[c].phase \in {"fetch", "item", "insert", "commit", "total"}
       \/ LockTimesOut(c, {"insert", "commit", "total"})
    /\ Fail(c)

\* Mutant: a failed source ends the cycle.
RecordErrorAndStop(c) ==
    /\ cycle[c].phase = "record"
    /\ writer = NoOne
    /\ cycle' = [cycle EXCEPT ![c].phase = "dead"]
    /\ UNCHANGED <<saved, db, writer, cleanup>>

\* last_error is committed and the cycle goes on with the next source.
RecordError(c) ==
    /\ cycle[c].phase = "record"
    /\ writer = NoOne
    /\ cycle' = [cycle EXCEPT ![c] =
                    CycleAt("open", Tail(cycle[c].left), cycle[c].listing)]
    /\ UNCHANGED <<saved, db, writer, cleanup>>

\* The process ends and a new one starts.
ProcessEnds ==
    /\ cycle' = [c \in Collector |-> AtRest]
    /\ writer' = NoOne
    /\ db' = saved
    /\ cleanup' = [phase |-> "rest", ids |-> {}]
    /\ UNCHANGED saved

\* Outside the try block nothing catches an exception: the collector loop's
\* task ends for good, the start-up cycle's ends the process.
CycleDies(c) ==
    /\ \/ /\ "open_error" \in Environment
          /\ cycle[c].phase \in {"open", "record"} /\ cycle[c].left # <<>>
       \/ cycle[c].left # <<>> /\ LockTimesOut(c, {"open", "record"})
    /\ IF c = "loop"
          THEN /\ cycle' = [cycle EXCEPT ![c] = CycleAt("dead", <<>>, <<>>)]
               /\ UNCHANGED <<saved, db, writer, cleanup>>
          ELSE ProcessEnds

Crash == "crash" \in Environment /\ ProcessEnds

-----------------------------------------------------------------------------
(* The other writers.                                                      *)

Without(view, ids) ==
    [rows  |-> [id \in DOMAIN view.rows \ ids |-> view.rows[id]],
     links |-> {link \in view.links : link[1] \notin ids}]

Gaps(view) == Max(DOMAIN view.rows \cup {0}) - Cardinality(DOMAIN view.rows)

\* Mutant: the links stay when their row goes.
RemoveProxyOnly(id) ==
    /\ "remove" \in Environment
    /\ writer = NoOne
    /\ id \in DOMAIN saved.rows
    /\ Gaps(Without(saved, {id})) <= MaxGaps
    /\ saved' = [Without(saved, {id}) EXCEPT !.links = saved.links]
    /\ db' = saved'
    /\ UNCHANGED <<writer, cycle, cleanup>>

\* _remove_proxy: the links and the row go in one transaction.
RemoveProxy(id) ==
    /\ "remove" \in Environment
    /\ writer = NoOne
    /\ id \in DOMAIN saved.rows
    /\ Gaps(Without(saved, {id})) <= MaxGaps
    /\ saved' = Without(saved, {id})
    /\ db' = saved'
    /\ UNCHANGED <<writer, cycle, cleanup>>

GrowStale(id) ==
    /\ "stale" \in Environment
    /\ writer = NoOne
    /\ id \in DOMAIN saved.rows /\ ~saved.rows[id].stale
    /\ saved' = [saved EXCEPT !.rows[id].stale = TRUE]
    /\ db' = saved'
    /\ UNCHANGED <<writer, cycle, cleanup>>

\* The cleanup job reads the stale rows ...
CleanupSelect ==
    LET stale == {id \in DOMAIN saved.rows : saved.rows[id].stale} IN
    /\ cleanup.phase = "rest"
    /\ stale # {}
    /\ cleanup' = [phase |-> "delete", ids |-> stale]
    /\ UNCHANGED <<saved, db, writer, cycle>>

\* ... and deletes those that are still there.  A link of such a row makes the
\* session set its proxy_id to NULL, which the column does not allow; neither
\* that nor a lock that does not come free is caught.
CleanupDelete ==
    /\ cleanup.phase = "delete"
    /\ IF writer # NoOne \/ \E link \in saved.links : link[1] \in cleanup.ids
          THEN /\ cleanup' = [phase |-> "dead", ids |-> {}]
               /\ UNCHANGED <<saved, db, writer, cycle>>
          ELSE /\ saved' = Without(saved, cleanup.ids)
               /\ db' = saved'
               /\ cleanup' = [phase |-> "rest", ids |-> {}]
               /\ UNCHANGED <<writer, cycle>>

-----------------------------------------------------------------------------
CycleStep(c) ==
    \/ BeginCycle(c) \/ EndCycle(c)
    \/ SkipDisabled(c) \/ OpenSource(c) \/ FetchListing(c)
    \/ SkipItem(c) \/ FindNone(c) \/ FindOne(c) \/ FindSeveral(c)
    \/ InsertRow(c) \/ CommitBatch(c) \/ FinishSource(c)
    \/ VisitFails(c) \/ RecordError(c) \/ CycleDies(c)

CatalogNext ==
    \/ \E c \in Collector : CycleStep(c)
    \/ \E id \in Id : RemoveProxy(id) \/ GrowStale(id)
    \/ CleanupSelect \/ CleanupDelete
    \/ Crash

CatalogSpec == CatalogInit /\ [][CatalogNext]_catalogVars

\* The cycles' tasks and threads run; a wait for the lock ends one way or the
\* other.
CatalogFairSpec ==
    CatalogSpec /\ \A c \in Collector : WF_catalogVars(CycleStep(c))

-----------------------------------------------------------------------------
(* Properties.                                                             *)

\* An endpoint listed as HTTP and as HTTPS, in one listing or by two sources,
\* has one row (docs/architecture.md, "Data flow").  (True as long as one
\* cycle runs at a time: the look-up and the INSERT are two statements.)
OneRowPerEndpoint ==
    \A a, b \in DOMAIN saved.rows :
        /\ saved.rows[a].endpoint = saved.rows[b].endpoint
        /\ {saved.rows[a].protocol, saved.rows[b].protocol} \subseteq HttpLike
        => a = b

\* A row that is https stays https, whichever source lists it as http later,
\* and through rolled back batches: HTTPS is preferred.
HttpsKept ==
    [][\A id \in DOMAIN saved.rows \cap DOMAIN saved'.rows :
         saved.rows[id].protocol = "https" => saved'.rows[id].protocol = "https"
      ]_catalogVars

\* A link names a source that lists the row's endpoint, although ids of
\* removed rows are given out again and the session works with ids it read
\* before.  (True as long as one cycle runs at a time.)
LinksTruthful ==
    \A link \in saved.links :
        /\ link[1] \in DOMAIN saved.rows
        /\ \E item \in Listed[link[2]] :
             SameIdentity(saved.rows[link[1]], item)

\* Every committed row has a source: a row without one would never be selected
\* for a check, nor removed (_apply_checkable_filter).
RowsLinked ==
    \A id \in DOMAIN saved.rows : \E s \in Source : <<id, s>> \in saved.links

\* A cycle visits all its sources and ends, whichever of them fail.
CycleEnds ==
    \A c \in Collector : cycle[c].phase # "rest" ~> cycle[c].phase = "rest"

\* The write lock, for which every other writer waits, is held only between
\* the first INSERT of a batch and its commit: not while a source is fetched,
\* and not by a batch that conflicted with what the other cycle or the checker
\* wrote.
LockOnlyInBatch ==
    \A c \in Collector :
        writer = c => cycle[c].phase \in {"item", "insert", "commit"}

\* An endpoint that a source lists as HTTP and as HTTPS has its one row when
\* the visit of the source is over (docs/architecture.md, "Data flow").
BothLabelsKept ==
    \A c \in Collector : cycle[c].phase = "open" =>
        \A i, j \in 1..Len(cycle[c].listing) :
            LET item == cycle[c].listing[i] IN
            /\ cycle[c].listing[j].endpoint = item.endpoint
            /\ item.protocol = "http" /\ cycle[c].listing[j].protocol = "https"
            => \E id \in DOMAIN saved.rows : SameIdentity(saved.rows[id], item)

\* The cleanup loop goes on removing dead proxies that never succeeded
\* (app/jobs/cleanup_job.py).
CleanupKeepsRunning == cleanup.phase # "dead"
=============================================================================
