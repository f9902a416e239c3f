----------------------------- MODULE PoolViews ------------------------------
(***************************************************************************)
(* What reads the table proxies in several statements while others write   *)
(* it: the score job (app/jobs/score_job.py), the counts of a snapshot and *)
(* of GET /stats (app/jobs/snapshot_job.py, app/services/pool.py), and a   *)
(* client that reads GET /proxies page by page (client_lib/api.py).        *)
(*                                                                         *)
(* A SELECT sees the latest commit: sqlite3 opens a transaction only for a *)
(* write, so nothing ties one SELECT of a session to the next.  Sessions   *)
(* and connections are as in app/database.py.                              *)
(***************************************************************************)
EXTENDS Integers, Sequences, FiniteSetsExt, SequencesExt

CONSTANTS
    MaxId,       \* bound of the model: highest id
    Tables,      \* the tables the runs start from
    MaxQuality,  \* bound of the model: best value of the scorer
    MaxWrites,   \* bound of the model: writes by others than the score job
    BatchSize,   \* settings.score_batch_size
    PageSize,    \* page_size of the client
    Filters      \* the filters of the client

ProxyStatus == {"NEW", "CHECKING", "HEALTHY", "DEGRADED", "DEAD", "DISABLED"}

Id == 1..MaxId

Quality == 0..MaxQuality

\* quality: what ScorerService.calculate would return for the row now; score:
\* the column.  It stands for the two keys the list is ordered by, score and
\* latency.  cooling: cooldown_until is in the future.
Row == [status : ProxyStatus, cooling : BOOLEAN, quality : Quality, score : Quality]

\* The parameters of a request that select rows.  The filters on columns that
\* no job changes meanwhile (protocol, country, ...) only narrow the table.
Filter == [status : ProxyStatus \cup {"usable"}, minScore : Quality]

ASSUME ViewsAssumption ==
    /\ MaxId \in Nat /\ MaxQuality \in Nat /\ MaxWrites \in Nat
    /\ BatchSize \in Nat \ {0} /\ PageSize \in Nat \ {0}
    /\ \A table \in Tables : DOMAIN table \subseteq Id /\ table \in [DOMAIN table -> Row]
    /\ Filters \subseteq Filter

VARIABLES
    rows,    \* the table: id -> row
    writes,  \* how many writes of others there were
    walk,    \* the score job
    reader   \* whoever else is reading: a snapshot, GET /stats or the client

viewVars == <<rows, writes, walk, reader>>

-----------------------------------------------------------------------------
(* Queries.                                                                *)

Usable(row) == row.status \in {"HEALTHY", "DEGRADED"} /\ ~row.cooling

Matches(row, filter) ==
    /\ IF filter.status = "usable" THEN Usable(row) ELSE row.status = filter.status
    /\ row.score >= filter.minScore

Matching(filter) == {id \in DOMAIN rows : Matches(rows[id], filter)}

\* Results of the query ordered by score, the best first: rows with the same
\* keys come in any order.
Ordered(filter) ==
    {ids \in SetToSeqs(Matching(filter)) :
        \A i, j \in DOMAIN ids : i < j => rows[ids[i]].score >= rows[ids[j]].score}

Slice(ids, offset, limit) == SubSeq(ids, offset + 1, Min({offset + limit, Len(ids)}))

CountStatus(status) == Cardinality({id \in DOMAIN rows : rows[id].status = status})

-----------------------------------------------------------------------------
(* The reader.  A snapshot counts the statuses and then the rows, GET      *)
(* /stats the rows first; the client counts and reads a page in turn.      *)

\* Mutant: the rows under check are not counted.
CountedWithoutChecking == <<"HEALTHY", "DEGRADED", "DEAD", "NEW", "DISABLED">>

Counted == <<"HEALTHY", "DEGRADED", "DEAD", "NEW", "CHECKING", "DISABLED">>

Statements(kind) ==
    CASE kind = "snapshot" -> Counted \o <<"total">>
      [] kind = "stats"    -> <<"total">> \o Counted

NoFilter == [status |-> "usable", minScore |-> 0]

\* next: the statements still to come; counted: the sum over the statuses.
\* The last three fields are history: how many rows changed, as far as the
\* reader could see it, since it began; whether two of the rows it asks for
\* ever had the same keys; which of them have not changed.
Reading(kind, filter) ==
    [kind |-> kind, filter |-> filter, next |-> <<>>, counted |-> 0, total |-> 0,
     offset |-> 0, items |-> <<>>,
     drift |-> 0, tied |-> FALSE, stable |-> {}]

NoReader == Reading("none", NoFilter)

Tied(table, filter) ==
    \E i, j \in DOMAIN table :
        /\ i # j /\ table[i].score = table[j].score
        /\ Matches(table[i], filter) /\ Matches(table[j], filter)

\* What a reader can tell of a row.
Seen(table, id) ==
    IF id \notin DOMAIN table THEN <<>>
    ELSE IF reader.kind = "list"
         THEN IF Matches(table[id], reader.filter) THEN <<table[id].score>> ELSE <<>>
         ELSE <<table[id].status>>

\* The table changes under the reader.
Notice(table) ==
    LET changed == {id \in Id : Seen(rows, id) # Seen(table, id)}
    IN  reader' =
            IF reader.kind = "none" \/ reader.next = <<>> THEN reader
            ELSE [reader EXCEPT !.drift = @ + Cardinality(changed),
                                !.tied = @ \/ (reader.kind = "list" /\ Tied(table, reader.filter)),
                                !.stable = @ \ changed]

\* SnapshotJob.run and PoolService.get_stats begin: the first count.
BeginCounts(kind) ==
    /\ reader.kind = "none"
    /\ reader' = [Reading(kind, NoFilter) EXCEPT !.next = Statements(kind)]
    /\ UNCHANGED <<rows, writes, walk>>

\* The next count of get_pool_stats, or of all rows.  The count of the rows
\* in cooldown is a statement of its own that no other number depends on.
Count ==
    /\ reader.kind \in {"snapshot", "stats"} /\ reader.next # <<>>
    /\ LET what == Head(reader.next)
       IN  reader' = IF what = "total"
                     THEN [reader EXCEPT !.next = Tail(@), !.total = Cardinality(DOMAIN rows)]
                     ELSE [reader EXCEPT !.next = Tail(@), !.counted = @ + CountStatus(what)]
    /\ UNCHANGED <<rows, writes, walk>>

\* fetch_all_proxies begins.
BeginList(filter) ==
    /\ reader.kind = "none"
    /\ reader' = [Reading("list", filter) EXCEPT
                     !.next = <<"count", "rows">>,
                     !.tied = Tied(rows, filter),
                     !.stable = Matching(filter)]
    /\ UNCHANGED <<rows, writes, walk>>

\* list_proxies: the number of matching rows, before the page is read.
CountMatching ==
    /\ reader.kind = "list" /\ reader.next # <<>> /\ Head(reader.next) = "count"
    /\ reader' = [reader EXCEPT !.next = Tail(@), !.total = Cardinality(Matching(reader.filter))]
    /\ UNCHANGED <<rows, writes, walk>>

\* The loop of fetch_all_proxies ends: an empty page, or as many items as the
\* list had rows.
ListEnds(page, items) == page = <<>> \/ Len(items) >= reader.total

\* Mutant: the next page begins one row too late.
NextOffsetLate(offset) == offset + PageSize + 1

NextOffset(offset) == offset + PageSize

\* Mutant: an empty page is asked for again.
ReadPageAgain ==
    /\ reader.kind = "list" /\ reader.next # <<>> /\ Head(reader.next) = "rows"
    /\ \E ids \in Ordered(reader.filter) :
          LET page == Slice(ids, reader.offset, PageSize)
              items == reader.items \o page
          IN  reader' = IF Len(items) >= reader.total
                        THEN [reader EXCEPT !.next = <<>>, !.items = items]
                        ELSE [reader EXCEPT !.next = <<"count", "rows">>, !.items = items,
                                            !.offset = IF page = <<>> THEN @ ELSE NextOffset(@)]
    /\ UNCHANGED <<rows, writes, walk>>

\* list_proxies: the page; then fetch_all_proxies stops or asks for the next.
ReadPage ==
    /\ reader.kind = "list" /\ reader.next # <<>> /\ Head(reader.next) = "rows"
    /\ \E ids \in Ordered(reader.filter) :
          LET page == Slice(ids, reader.offset, PageSize)
              items == reader.items \o page
          IN  reader' = IF ListEnds(page, items)
                        THEN [reader EXCEPT !.next = <<>>, !.items = items]
                        ELSE [reader EXCEPT !.next = <<"count", "rows">>, !.items = items,
                                            !.offset = NextOffset(@)]
    /\ UNCHANGED <<rows, writes, walk>>

\* An HTTP error ends the loop of the client, and what was counted or read is
\* of no use: a snapshot or a response that failed is never seen.
ReadFails ==
    /\ reader.kind # "none" /\ reader.next # <<>>
    /\ reader' = NoReader
    /\ UNCHANGED <<rows, writes, walk>>

\* The result has been used.
ReaderDone ==
    /\ reader.kind # "none" /\ reader.next = <<>>
    /\ reader' = NoReader
    /\ UNCHANGED <<rows, writes, walk>>

-----------------------------------------------------------------------------
(* The score job.                                                          *)

\* batch: of each row of the batch, the score it read and the one it computed.
\* kept is history: the rows whose score and quality nobody else has written
\* since the walk began.
NoBatch == <<>>

Resting(kept) == [phase |-> "rest", last |-> 0, batch |-> NoBatch, kept |-> kept]

\* ScoreJob.run begins, with the interval over.
BeginWalk ==
    /\ walk.phase = "rest"
    /\ walk' = [Resting(DOMAIN rows) EXCEPT !.phase = "read"]
    /\ UNCHANGED <<rows, writes, reader>>

\* Mutant: rows are taken up from the first id that was not in the batch.
AfterSkipping(last) == {id \in DOMAIN rows : id > last + 1}

After(last) == {id \in DOMAIN rows : id > last}

\* The batch of the query: the lowest ids after the last one, as many as
\* there are up to the limit.
IsBatch(ids, last) ==
    /\ \A id \in ids, other \in After(last) \ ids : id < other
    /\ \/ Cardinality(ids) = BatchSize
       \/ ids = After(last) /\ Cardinality(ids) <= BatchSize

\* One round of the loop: read a batch and score its rows, or end the walk.
ReadBatch ==
    /\ walk.phase = "read"
    /\ \E ids \in SUBSET After(walk.last) :
          /\ IsBatch(ids, walk.last)
          /\ walk' = IF ids = {} THEN Resting(walk.kept)
                     ELSE [walk EXCEPT
                              !.phase = "commit",
                              !.batch = [id \in ids |-> [old |-> rows[id].score,
                                                         new |-> rows[id].quality]]]
    /\ UNCHANGED <<rows, writes, reader>>

\* Mutant: a walk is one batch.
CommitOnlyBatch ==
    /\ walk.phase = "commit"
    /\ LET table == [id \in DOMAIN rows |->
                        IF id \in DOMAIN walk.batch
                        THEN [rows[id] EXCEPT !.score = walk.batch[id].new] ELSE rows[id]]
       IN  /\ rows' = table
           /\ walk' = Resting(walk.kept)
           /\ Notice(table)
    /\ UNCHANGED writes

\* The commit writes the scores that changed, and nothing else of a row.  A
\* row that is gone makes the ORM raise StaleDataError: the batch is rolled
\* back and the loop's task ends.
CommitBatch ==
    /\ walk.phase = "commit"
    /\ LET changed == {id \in DOMAIN walk.batch : walk.batch[id].old # walk.batch[id].new}
           table   == [id \in DOMAIN rows |->
                          IF id \in changed THEN [rows[id] EXCEPT !.score = walk.batch[id].new]
                                            ELSE rows[id]]
       IN  IF changed \subseteq DOMAIN rows
           THEN /\ rows' = table
                /\ walk' = [walk EXCEPT !.phase = "read", !.batch = NoBatch,
                                        !.last = Max(DOMAIN walk.batch)]
                /\ Notice(table)
           ELSE /\ walk' = [walk EXCEPT !.phase = "dead", !.batch = NoBatch]
                /\ UNCHANGED <<rows, reader>>
    /\ UNCHANGED writes

\* A locked database at a read or a commit: nothing catches the exception and
\* nothing restarts the loop (scheduler.py:97-102).
WalkFails ==
    /\ walk.phase \in {"read", "commit"}
    /\ walk' = [walk EXCEPT !.phase = "dead", !.batch = NoBatch]
    /\ UNCHANGED <<rows, writes, reader>>

-----------------------------------------------------------------------------
(* The others.  What they write is modelled in CheckerJob and in           *)
(* ProxyCatalog; here it is enough which columns change together.          *)

Write(table) ==
    /\ writes < MaxWrites
    /\ writes' = writes + 1
    /\ rows' = table
    /\ Notice(table)
    /\ walk' = [walk EXCEPT !.kept =
                   {id \in @ \cap DOMAIN table :
                       /\ table[id].quality = rows[id].quality
                       /\ table[id].score = rows[id].score}]

\* CheckerJob._mark_checking: whatever the status was.  The three after it, a
\* check's ends, are taken for rows in CHECKING only, to bound the model: after
\* a recovery the same columns are written, over another status.
Mark(id) == Write([rows EXCEPT ![id].status = "CHECKING"])

\* CheckerJob._persist_result: the outcome of the check, and the row's score.
PersistResult(id) ==
    /\ rows[id].status = "CHECKING"
    /\ \E status \in {"HEALTHY", "DEGRADED", "DEAD", "DISABLED"}, quality \in Quality :
          Write([rows EXCEPT ![id] =
                    [status  |-> status, quality |-> quality, score |-> quality,
                     cooling |-> status = "DEAD" \/ (status # "HEALTHY" /\ rows[id].cooling)]])

\* CheckerJob._revert_check and _recover_stuck_checking: the status only.
Revert(id) ==
    /\ rows[id].status = "CHECKING"
    /\ \E status \in ProxyStatus : Write([rows EXCEPT ![id].status = status])

\* CheckerJob._remove_proxy.
RemoveProxy(id) ==
    /\ rows[id].status = "CHECKING"
    /\ Write([other \in DOMAIN rows \ {id} |-> rows[other]])

\* The collector inserts a row: SQLite gives it the highest id plus one.
Insert ==
    LET id == Max(DOMAIN rows \cup {0}) + 1
    IN  /\ id <= MaxId
        /\ \E quality \in Quality :
              Write([other \in DOMAIN rows \cup {id} |->
                        IF other \in DOMAIN rows THEN rows[other]
                        ELSE [status |-> "NEW", cooling |-> FALSE,
                              quality |-> quality, score |-> 0]])

\* The last success gets older, or the collector adds a link or metadata.
Ages(id) ==
    \E quality \in Quality \ {rows[id].quality} :
        Write([rows EXCEPT ![id].quality = quality])

CoolsDown(id) ==
    /\ rows[id].cooling
    /\ Write([rows EXCEPT ![id].cooling = FALSE])

-----------------------------------------------------------------------------
PoolInit ==
    /\ rows \in Tables
    /\ writes = 0
    /\ walk = Resting({})
    /\ reader = NoReader

WalkStep == BeginWalk \/ ReadBatch \/ CommitBatch

ReaderStep == Count \/ CountMatching \/ ReadPage \/ ReaderDone

Begin ==
    \/ \E kind \in {"snapshot", "stats"} : BeginCounts(kind)
    \/ \E filter \in Filters : BeginList(filter)

OthersWrite ==
    \/ Insert
    \/ \E id \in DOMAIN rows :
          \/ Mark(id) \/ PersistResult(id) \/ Revert(id) \/ RemoveProxy(id)
          \/ Ages(id) \/ CoolsDown(id)

PoolNext == WalkStep \/ WalkFails \/ Begin \/ ReaderStep \/ ReadFails \/ OthersWrite

\* The event loop keeps waking the score loop, and a client or a request that
\* has begun goes on; nobody has to begin, and nobody has to write.
PoolFairness == WF_viewVars(WalkStep) /\ WF_viewVars(ReaderStep)

PoolSpec == PoolInit /\ [][PoolNext]_viewVars

PoolFairSpec == PoolSpec /\ PoolFairness

-----------------------------------------------------------------------------
(* Properties.                                                             *)

\* When a walk is over, every row that has been in the table since the walk
\* began, and whose score nobody else has touched, has the score its columns
\* call for: the walk by id skips no row and takes none back, whatever is
\* inserted, removed or marked between its batches (ScoreJob.run).
WalkComplete ==
    walk.phase = "rest" => \A id \in walk.kept : rows[id].score = rows[id].quality

\* The numbers of a snapshot, of GET /stats and of GET /health come from
\* several SELECTs: what the statuses sum up to differs from the total by at
\* most the number of rows that came, went or changed status meanwhile, so it
\* does not when nothing changed (SnapshotJob.run, get_stats).
CountsAddUp ==
    reader.kind \in {"snapshot", "stats"} /\ reader.next = <<>> =>
        /\ reader.counted - reader.total <= reader.drift
        /\ reader.total - reader.counted <= reader.drift

Lost == {id \in reader.stable : id \notin Range(reader.items)}

Repeated ==
    {id \in reader.stable : \E i, j \in DOMAIN reader.items :
        i # j /\ reader.items[i] = id /\ reader.items[j] = id}

\* A client that reads the whole list page by page misses at most as many of
\* the rows that stayed as they were as other rows entered, left or moved in
\* the list meanwhile, and gets at most as many twice: nothing is lost or
\* repeated in a list that does not move.  Rows with the same score and
\* latency have no order of their own, so the property asks for a list without
\* them (list_proxies, fetch_all_proxies).
ListingDriftOnly ==
    reader.kind = "list" /\ reader.next = <<>> /\ ~reader.tied =>
        /\ Cardinality(Lost) <= reader.drift
        /\ Cardinality(Repeated) <= reader.drift

\* Once the others stop writing, walks bring every score up to date, also one
\* that an earlier batch had overwritten with what it had read before a check;
\* unless the score loop has died (ScoreJob.run).
ScoreSettles ==
    <>[](walk.phase = "dead" \/ \A id \in DOMAIN rows : rows[id].score = rows[id].quality)

\* The client's loop over the pages ends once the list stops growing, also
\* when a row was removed between the count and the page (fetch_all_proxies).
PagingEnds == reader.kind = "list" ~> reader.kind = "none"
=============================================================================
