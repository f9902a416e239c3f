-------------------------- MODULE PoolViews_proofs --------------------------
(***************************************************************************)
(* Proofs about PoolViews, for every table, batch size and number of writes. *)
(***************************************************************************)
EXTENDS PoolViews, FiniteSetTheorems, SequenceTheorems, TLAPS

-----------------------------------------------------------------------------
(* The inductive invariant of the score job's walk by id.                  *)

Phases == {"rest", "read", "commit", "dead"}

\* The table holds rows; the walk remembers only rows that are still there.
WalkTypeOK ==
    /\ DOMAIN rows \subseteq Id /\ rows \in [DOMAIN rows -> Row]
    /\ walk = [phase |-> walk.phase, last |-> walk.last,
               batch |-> walk.batch, kept |-> walk.kept]
    /\ walk.phase \in Phases /\ walk.last \in Nat
    /\ walk.kept \subseteq DOMAIN rows

\* The rows behind the walk have their scores.
Behind ==
    walk.phase \in {"read", "commit"} =>
        \A id \in walk.kept : id <= walk.last => rows[id].score = rows[id].quality

\* A batch lies ahead of the walk, with nothing between them; and what it read
\* of a row that nobody else has written is still what the row says.
BatchAhead ==
    walk.phase = "commit" =>
        /\ DOMAIN walk.batch \subseteq Id /\ DOMAIN walk.batch # {}
        /\ \A id \in DOMAIN walk.batch :
              /\ id > walk.last
              /\ walk.batch[id] \in [old : Quality, new : Quality]
              /\ id \in walk.kept =>
                    /\ walk.batch[id].old = rows[id].score
                    /\ walk.batch[id].new = rows[id].quality
        /\ \A id \in walk.kept, other \in DOMAIN walk.batch :
              id > walk.last /\ id \notin DOMAIN walk.batch => other < id

WalkInv ==
    /\ WalkTypeOK
    /\ Behind
    /\ BatchAhead
    /\ WalkComplete

-----------------------------------------------------------------------------
(* Facts about the definitions.                                            *)

\* A set of ids that is not empty has a greatest one.
LEMMA GreatestId ==
    ASSUME NEW S, S \subseteq Id, S # {}
    PROVE  Max(S) \in S /\ \A id \in S : Max(S) >= id
<1> DEFINE T == {n \in Nat : \E id \in S : n = MaxId - id}
           less == OpToRel(<, Nat)
<1>1. T \subseteq Nat /\ T # {}
  BY ViewsAssumption DEF Id
<1>2. \E n \in T : \A m \in T : <<m, n>> \notin less
  <2>1. IsWellFoundedOn(less, Nat)
    BY NatLessThanWellFounded
  <2> HIDE DEF T, less
  <2>2. QED
    BY <1>1, <2>1, WFMin
<1>3. PICK n \in T : \A m \in T : <<m, n>> \notin less
  BY <1>2
<1>4. \A m \in T : ~(m < n)
  BY <1>1, <1>3 DEF OpToRel
<1>5. PICK id \in S : n = MaxId - id
  OBVIOUS
<1>6. \A other \in S : id >= other
  <2> SUFFICES ASSUME NEW other \in S PROVE id >= other
    OBVIOUS
  <2>1. /\ id \in Int /\ other \in Int /\ MaxId \in Int
        /\ MaxId - other \in Nat
    BY ViewsAssumption DEF Id
  <2>2. MaxId - other \in T
    BY <2>1
  <2>3. ~(MaxId - other < MaxId - id)
    BY <1>4, <1>5, <2>2
  <2>4. QED
    BY <2>1, <2>3
<1>7. QED
  BY <1>6 DEF Max

\* A row that is written keeps its shape.
LEMMA RowWrites ==
    ASSUME NEW row \in Row
    PROVE  /\ \A n \in Quality : /\ [row EXCEPT !.score = n] \in Row
                                 /\ [row EXCEPT !.score = n].score = n
                                 /\ [row EXCEPT !.score = n].quality = row.quality
           /\ \A n \in Quality : [row EXCEPT !.quality = n] \in Row
           /\ \A s \in ProxyStatus : [row EXCEPT !.status = s] \in Row
           /\ [row EXCEPT !.cooling = FALSE] \in Row
           /\ row.score \in Quality /\ row.quality \in Quality
BY DEF Row

-----------------------------------------------------------------------------
(* The others' writes.                                                     *)

\* A write of somebody else takes the rows it removes or rescores out of what
\* the walk has to answer for, and leaves the rest as it was.
LEMMA WriteStep ==
    ASSUME WalkInv, NEW table, Write(table),
           DOMAIN table \subseteq Id, table \in [DOMAIN table -> Row]
    PROVE  WalkInv'
<1> USE DEF WalkInv
<1> DEFINE kept == {id \in walk.kept \cap DOMAIN table :
                       /\ table[id].quality = rows[id].quality
                       /\ table[id].score = rows[id].score}
<1>1. rows' = table
  BY DEF Write
<1>2. walk' = [phase |-> walk.phase, last |-> walk.last,
               batch |-> walk.batch, kept |-> kept]
  BY DEF Write, WalkTypeOK
<1>3. /\ walk'.phase = walk.phase /\ walk'.last = walk.last
      /\ walk'.batch = walk.batch /\ walk'.kept = kept
  BY <1>2
<1>4. /\ kept \subseteq walk.kept /\ kept \subseteq DOMAIN table
      /\ \A id \in kept : /\ table[id].quality = rows[id].quality
                          /\ table[id].score = rows[id].score
  OBVIOUS
<1> HIDE DEF kept
<1>5. WalkTypeOK'
  BY <1>1, <1>2, <1>3, <1>4 DEF WalkTypeOK
<1>6. Behind' /\ WalkComplete'
  BY <1>1, <1>3, <1>4 DEF Behind, WalkComplete
<1>7. BatchAhead'
  BY <1>1, <1>3, <1>4 DEF BatchAhead
<1>8. QED
  BY <1>5, <1>6, <1>7

LEMMA OthersStep ==
    ASSUME WalkInv, OthersWrite
    PROVE  WalkInv'
<1> USE DEF WalkInv
<1>1. DOMAIN rows \subseteq Id /\ rows \in [DOMAIN rows -> Row]
  BY DEF WalkTypeOK
<1>2. CASE Insert
  <2> DEFINE id == Max(DOMAIN rows \cup {0}) + 1
  <2>1. PICK quality \in Quality :
           /\ id <= MaxId
           /\ Write([other \in DOMAIN rows \cup {id} |->
                        IF other \in DOMAIN rows THEN rows[other]
                        ELSE [status |-> "NEW", cooling |-> FALSE,
                              quality |-> quality, score |-> 0]])
    BY <1>2 DEF Insert
  <2> DEFINE table == [other \in DOMAIN rows \cup {id} |->
                          IF other \in DOMAIN rows THEN rows[other]
                          ELSE [status |-> "NEW", cooling |-> FALSE,
                                quality |-> quality, score |-> 0]]
  <2>2. id \in Id
    <3>1. CASE DOMAIN rows = {}
      <4>1. DOMAIN rows \cup {0} = {0}
        BY <3>1
      <4>2. Max({0}) = 0
        BY DEF Max
      <4>3. Max(DOMAIN rows \cup {0}) = 0
        BY <4>1, <4>2
      <4>4. QED
        BY <2>1, <4>3, ViewsAssumption DEF Id
    <3>2. CASE DOMAIN rows # {}
      <4>1. /\ Max(DOMAIN rows) \in DOMAIN rows
            /\ \A other \in DOMAIN rows : Max(DOMAIN rows) >= other
        BY <1>1, <3>2, GreatestId
      <4>2. \A other \in DOMAIN rows \cup {0} : Max(DOMAIN rows) >= other
        BY <1>1, <4>1 DEF Id
      <4>3. \A m \in DOMAIN rows \cup {0} :
               (\A other \in DOMAIN rows \cup {0} : m >= other) => m = Max(DOMAIN rows)
        BY <1>1, <4>1, <4>2 DEF Id
      <4>4. Max(DOMAIN rows \cup {0}) = Max(DOMAIN rows)
        <5> DEFINE top == Max(DOMAIN rows)
                   all == DOMAIN rows \cup {0}
        <5>1. top \in all /\ \A other \in all : top >= other
          BY <4>1, <4>2
        <5>2. \A m \in all : (\A other \in all : m >= other) => m = top
          BY <4>3
        <5> HIDE DEF top, all
        <5>3. Max(all) = top
          BY <5>1, <5>2 DEF Max
        <5>4. QED
          BY <5>3 DEF top, all
      <4>5. QED
        BY <1>1, <2>1, <4>1, <4>4, ViewsAssumption DEF Id
    <3>3. QED
      BY <3>1, <3>2
  <2> HIDE DEF id
  <2>3. [status |-> "NEW", cooling |-> FALSE, quality |-> quality, score |-> 0] \in Row
    BY ViewsAssumption DEF Row, ProxyStatus, Quality
  <2>4. DOMAIN table \subseteq Id /\ table \in [DOMAIN table -> Row]
    BY <1>1, <2>2, <2>3
  <2> HIDE DEF table
  <2>5. Write(table)
    BY <2>1 DEF table
  <2>6. QED
    BY <2>4, <2>5, WriteStep
<1>3. ASSUME NEW id \in DOMAIN rows, NEW row \in Row, Write([rows EXCEPT ![id] = row])
      PROVE  WalkInv'
  <2> DEFINE table == [rows EXCEPT ![id] = row]
  <2>1. DOMAIN table \subseteq Id /\ table \in [DOMAIN table -> Row]
    BY <1>1
  <2>2. Write(table)
    BY <1>3
  <2> HIDE DEF table
  <2>3. QED
    BY <2>1, <2>2, WriteStep
<1>4. ASSUME NEW id \in DOMAIN rows,
             \/ Mark(id) \/ PersistResult(id) \/ Revert(id)
             \/ Ages(id) \/ CoolsDown(id)
      PROVE  WalkInv'
  <2>1. rows[id] \in Row
    BY <1>1
  <2>2. CASE Mark(id) \/ Revert(id)
    <3>1. PICK s \in ProxyStatus : Write([rows EXCEPT ![id].status = s])
      BY <2>2 DEF Mark, Revert, ProxyStatus
    <3>2. [rows[id] EXCEPT !.status = s] \in Row
      BY <2>1, RowWrites
    <3>3. [rows EXCEPT ![id].status = s] = [rows EXCEPT ![id] = [rows[id] EXCEPT !.status = s]]
      OBVIOUS
    <3>4. QED
      BY <1>3, <3>1, <3>2, <3>3
  <2>3. CASE PersistResult(id)
    <3>1. PICK s \in ProxyStatus, q \in Quality :
             Write([rows EXCEPT ![id] =
                       [status  |-> s, quality |-> q, score |-> q,
                        cooling |-> s = "DEAD" \/ (s # "HEALTHY" /\ rows[id].cooling)]])
      BY <2>3 DEF PersistResult, ProxyStatus
    <3>2. [status  |-> s, quality |-> q, score |-> q,
           cooling |-> s = "DEAD" \/ (s # "HEALTHY" /\ rows[id].cooling)] \in Row
      BY DEF Row
    <3>3. QED
      BY <1>3, <3>1, <3>2
  <2>4. CASE Ages(id)
    <3>1. PICK q \in Quality : Write([rows EXCEPT ![id].quality = q])
      BY <2>4 DEF Ages
    <3>2. [rows[id] EXCEPT !.quality = q] \in Row
      BY <2>1, RowWrites
    <3>3. [rows EXCEPT ![id].quality = q] = [rows EXCEPT ![id] = [rows[id] EXCEPT !.quality = q]]
      OBVIOUS
    <3>4. QED
      BY <1>3, <3>1, <3>2, <3>3
  <2>5. CASE CoolsDown(id)
    <3>1. Write([rows EXCEPT ![id].cooling = FALSE])
      BY <2>5 DEF CoolsDown
    <3>2. [rows[id] EXCEPT !.cooling = FALSE] \in Row
      BY <2>1, RowWrites
    <3>3. [rows EXCEPT ![id].cooling = FALSE]
             = [rows EXCEPT ![id] = [rows[id] EXCEPT !.cooling = FALSE]]
      OBVIOUS
    <3>4. QED
      BY <1>3, <3>1, <3>2, <3>3
  <2>6. QED
    BY <1>4, <2>2, <2>3, <2>4, <2>5
<1>5. ASSUME NEW id \in DOMAIN rows, RemoveProxy(id)
      PROVE  WalkInv'
  <2> DEFINE table == [other \in DOMAIN rows \ {id} |-> rows[other]]
  <2>1. DOMAIN table \subseteq Id /\ table \in [DOMAIN table -> Row]
    BY <1>1
  <2>2. Write(table)
    BY <1>5 DEF RemoveProxy
  <2> HIDE DEF table
  <2>3. QED
    BY <2>1, <2>2, WriteStep
<1>6. QED
  BY <1>2, <1>4, <1>5 DEF OthersWrite

-----------------------------------------------------------------------------
(* The walk's own steps.                                                   *)

\* A batch takes up the rows right behind the last one, and an empty batch
\* leaves none.
LEMMA ReadBatchStep ==
    ASSUME WalkInv, ReadBatch
    PROVE  WalkInv'
<1> USE DEF WalkInv
<1>1. PICK ids \in SUBSET After(walk.last) :
         /\ IsBatch(ids, walk.last)
         /\ walk' = IF ids = {} THEN Resting(walk.kept)
                    ELSE [walk EXCEPT
                             !.phase = "commit",
                             !.batch = [id \in ids |-> [old |-> rows[id].score,
                                                        new |-> rows[id].quality]]]
  BY DEF ReadBatch
<1>2. walk.phase = "read" /\ rows' = rows
  BY DEF ReadBatch
<1>3. walk.kept \subseteq DOMAIN rows /\ DOMAIN rows \subseteq Id /\ walk.last \in Nat
      /\ \A id \in DOMAIN rows : rows[id] \in Row
  BY DEF WalkTypeOK
<1>4. CASE ids = {}
  <2>1. After(walk.last) = {}
    <3>1. Cardinality({}) # BatchSize
      BY FS_EmptySet, ViewsAssumption
    <3>2. QED
      BY <1>1, <1>4, <3>1 DEF IsBatch
  <2>2. \A id \in walk.kept : id <= walk.last
    BY <1>3, <2>1 DEF After, Id
  <2>3. \A id \in walk.kept : rows[id].score = rows[id].quality
    BY <1>2, <2>2 DEF Behind
  <2>4. walk' = [phase |-> "rest", last |-> 0, batch |-> NoBatch, kept |-> walk.kept]
    BY <1>1, <1>4 DEF Resting
  <2>5. QED
    BY <1>2, <2>3, <2>4 DEF WalkTypeOK, Behind, BatchAhead, WalkComplete, Phases
<1>5. CASE ids # {}
  <2> DEFINE batch == [id \in ids |-> [old |-> rows[id].score, new |-> rows[id].quality]]
  <2>1. walk' = [phase |-> "commit", last |-> walk.last, batch |-> batch, kept |-> walk.kept]
    BY <1>1, <1>5 DEF WalkTypeOK
  <2>2. /\ walk'.phase = "commit" /\ walk'.last = walk.last
        /\ walk'.batch = batch /\ walk'.kept = walk.kept
    BY <2>1
  <2>3. WalkTypeOK'
    BY <1>2, <2>1 DEF WalkTypeOK, Phases
  <2>4. Behind' /\ WalkComplete'
    BY <1>2, <2>2 DEF Behind, WalkComplete
  <2>5. ids \subseteq DOMAIN rows /\ \A id \in ids : id > walk.last
    BY DEF After
  <2>6. \A id \in ids : /\ batch[id].old = rows[id].score
                        /\ batch[id].new = rows[id].quality
                        /\ batch[id] \in [old : Quality, new : Quality]
    BY <1>3, <2>5, RowWrites
  <2>7. \A id \in walk.kept, other \in ids :
           id > walk.last /\ id \notin ids => other < id
    BY <1>1, <1>3 DEF IsBatch, After
  <2> HIDE DEF batch
  <2>8. DOMAIN batch = ids
    BY DEF batch
  <2>9. BatchAhead'
    BY <1>2, <1>3, <1>5, <2>2, <2>5, <2>6, <2>7, <2>8 DEF BatchAhead
  <2>10. QED
    BY <2>3, <2>4, <2>9
<1>6. QED
  BY <1>4, <1>5

\* The commit gives every row of the batch that is still its own the score it
\* calls for, and moves the walk behind them.
LEMMA CommitBatchStep ==
    ASSUME WalkInv, CommitBatch
    PROVE  WalkInv'
<1> USE DEF WalkInv
<1> DEFINE batch == walk.batch
           changed == {id \in DOMAIN walk.batch : walk.batch[id].old # walk.batch[id].new}
           table == [id \in DOMAIN rows |->
                        IF id \in changed THEN [rows[id] EXCEPT !.score = walk.batch[id].new]
                                          ELSE rows[id]]
<1>1. walk.phase = "commit"
  BY DEF CommitBatch
<1>2. /\ DOMAIN rows \subseteq Id /\ walk.kept \subseteq DOMAIN rows /\ walk.last \in Nat
      /\ \A id \in DOMAIN rows : rows[id] \in Row
  BY DEF WalkTypeOK
<1>3. /\ DOMAIN batch \subseteq Id /\ DOMAIN batch # {}
      /\ \A id \in DOMAIN batch : id > walk.last /\ batch[id].new \in Quality
      /\ \A id \in DOMAIN batch \cap walk.kept :
            batch[id].old = rows[id].score /\ batch[id].new = rows[id].quality
      /\ \A id \in walk.kept, other \in DOMAIN batch :
            id > walk.last /\ id \notin DOMAIN batch => other < id
  BY <1>1 DEF BatchAhead
<1>4. CASE changed \subseteq DOMAIN rows
  <2> DEFINE last == Max(DOMAIN batch)
  <2>1. last \in DOMAIN batch /\ \A id \in DOMAIN batch : last >= id
    BY <1>3, GreatestId
  <2>2. rows' = table
    BY <1>4 DEF CommitBatch
  <2>3. walk' = [phase |-> "read", last |-> last, batch |-> NoBatch, kept |-> walk.kept]
    <3>1. walk' = [walk EXCEPT !.phase = "read", !.batch = NoBatch, !.last = last]
      BY <1>4 DEF CommitBatch
    <3> HIDE DEF last
    <3>2. QED
      BY <3>1 DEF WalkTypeOK
  <2> HIDE DEF last
  <2>4. \A id \in DOMAIN rows :
           /\ table[id] \in Row
           /\ table[id].quality = rows[id].quality
           /\ table[id].score = IF id \in changed THEN batch[id].new ELSE rows[id].score
    <3> SUFFICES ASSUME NEW id \in DOMAIN rows
                 PROVE  /\ table[id] \in Row
                        /\ table[id].quality = rows[id].quality
                        /\ table[id].score =
                              IF id \in changed THEN batch[id].new ELSE rows[id].score
      OBVIOUS
    <3>1. CASE id \in changed
      <4> DEFINE n == batch[id].new
      <4>1. n \in Quality /\ table[id] = [rows[id] EXCEPT !.score = n]
        BY <1>3, <3>1
      <4> HIDE DEF n, table
      <4>2. rows[id] \in Row
        BY <1>2
      <4>3. /\ [rows[id] EXCEPT !.score = n] \in Row
            /\ [rows[id] EXCEPT !.score = n].score = n
            /\ [rows[id] EXCEPT !.score = n].quality = rows[id].quality
        BY <4>1, <4>2, RowWrites
      <4>4. QED
        BY <3>1, <4>1, <4>3 DEF n
    <3>2. CASE id \notin changed
      BY <1>2, <3>2
    <3>3. QED
      BY <3>1, <3>2
  <2>5. DOMAIN table = DOMAIN rows /\ table \in [DOMAIN rows -> Row]
    BY <2>4
  <2> HIDE DEF table
  <2>6. last \in Nat
    BY <1>3, <2>1 DEF Id
  <2>7. WalkTypeOK'
    BY <1>2, <2>2, <2>3, <2>5, <2>6 DEF WalkTypeOK, Phases
  <2>8. \A id \in walk.kept : id <= last => table[id].score = table[id].quality
    <3> SUFFICES ASSUME NEW id \in walk.kept, id <= last
                 PROVE  table[id].score = table[id].quality
      OBVIOUS
    <3>1. id \in DOMAIN rows /\ id \in Nat
      BY <1>2 DEF Id
    <3>2. CASE id <= walk.last
      <4>1. id \notin changed
        BY <1>2, <1>3, <3>1, <3>2 DEF Id
      <4>2. QED
        BY <1>1, <2>4, <3>1, <3>2, <4>1 DEF Behind
    <3>3. CASE id \in DOMAIN batch
      BY <1>3, <2>4, <3>1, <3>3
    <3>4. CASE id > walk.last /\ id \notin DOMAIN batch
      <4>1. last < id
        BY <1>3, <2>1, <3>4
      <4>2. QED
        BY <2>6, <3>1, <4>1
    <3>5. QED
      BY <1>2, <3>1, <3>2, <3>3, <3>4
  <2>9. Behind' /\ BatchAhead' /\ WalkComplete'
    BY <2>2, <2>3, <2>8 DEF Behind, BatchAhead, WalkComplete
  <2>10. QED
    BY <2>7, <2>9
<1>5. CASE ~(changed \subseteq DOMAIN rows)
  <2>1. walk' = [phase |-> "dead", last |-> walk.last, batch |-> NoBatch, kept |-> walk.kept]
    <3>1. walk' = [walk EXCEPT !.phase = "dead", !.batch = NoBatch]
      BY <1>5 DEF CommitBatch
    <3>2. QED
      BY <3>1 DEF WalkTypeOK
  <2>2. rows' = rows
    BY <1>5 DEF CommitBatch
  <2>3. QED
    BY <2>1, <2>2 DEF WalkTypeOK, Behind, BatchAhead, WalkComplete, Phases
<1>6. QED
  BY <1>4, <1>5

LEMMA WalkStepInv ==
    WalkInv /\ [PoolNext]_viewVars => WalkInv'
<1> SUFFICES ASSUME WalkInv, [PoolNext]_viewVars PROVE WalkInv'
  OBVIOUS
<1> USE DEF WalkInv
<1>1. CASE BeginWalk
  <2>1. rows' = rows
        /\ walk' = [phase |-> "read", last |-> 0, batch |-> NoBatch, kept |-> DOMAIN rows]
    BY <1>1 DEF BeginWalk, Resting
  <2>2. \A id \in DOMAIN rows : ~(id <= 0)
    BY DEF WalkTypeOK, Id
  <2>3. QED
    BY <2>1, <2>2 DEF WalkTypeOK, Behind, BatchAhead, WalkComplete, Phases
<1>2. CASE WalkFails
  <2>1. rows' = rows
        /\ walk' = [phase |-> "dead", last |-> walk.last, batch |-> NoBatch, kept |-> walk.kept]
    BY <1>2 DEF WalkFails, WalkTypeOK
  <2>2. QED
    BY <2>1 DEF WalkTypeOK, Behind, BatchAhead, WalkComplete, Phases
<1>3. CASE Begin \/ ReaderStep \/ ReadFails \/ UNCHANGED viewVars
  <2>1. rows' = rows /\ walk' = walk
    BY <1>3 DEF Begin, BeginCounts, BeginList, ReaderStep, Count, CountMatching,
                ReadPage, ReaderDone, ReadFails, viewVars
  <2>2. QED
    BY <2>1 DEF WalkTypeOK, Behind, BatchAhead, WalkComplete
<1>4. QED
  BY <1>1, <1>2, <1>3, ReadBatchStep, CommitBatchStep, OthersStep DEF PoolNext, WalkStep

LEMMA WalkInit == PoolInit => WalkInv
<1> SUFFICES ASSUME PoolInit PROVE WalkInv
  OBVIOUS
<1>1. DOMAIN rows \subseteq Id /\ rows \in [DOMAIN rows -> Row]
  BY ViewsAssumption DEF PoolInit
<1>2. walk = [phase |-> "rest", last |-> 0, batch |-> NoBatch, kept |-> {}]
  BY DEF PoolInit, Resting
<1>3. QED
  BY <1>1, <1>2 DEF WalkInv, WalkTypeOK, Behind, BatchAhead, WalkComplete, Phases

-----------------------------------------------------------------------------
(* The theorem.                                                            *)

\* For every table, batch size and interleaving of checks, collections and
\* removals, a walk that ends has brought every row it had to answer for up to
\* date (ScoreJob.run): the keyset pagination by id loses no row.
THEOREM WalksAlwaysComplete == PoolSpec => []WalkComplete
<1>1. WalkInv => WalkComplete
  BY DEF WalkInv
<1>2. QED
  BY <1>1, WalkInit, WalkStepInv, PTL DEF PoolSpec

-----------------------------------------------------------------------------
(* The counts of a snapshot and of GET /stats.                             *)

Labels == ProxyStatus \cup {"total"}

\* The rows in one of some statuses.
InStatus(table, statuses) == {id \in DOMAIN table : table[id].status \in statuses}

\* What is still to be counted.
Uncounted == Range(reader.next) \ {"total"}

Close(m, n, gap) == m - n <= gap /\ n - m <= gap

\* The statements are different ones, whichever come first.
CountsTyped ==
    /\ reader.next \in Seq(Labels)
    /\ \A i, j \in DOMAIN reader.next : i # j => reader.next[i] # reader.next[j]
    /\ reader.counted \in Nat /\ reader.total \in Nat /\ reader.drift \in Nat

\* Before the rows are counted, the sum is about the number of rows in the
\* statuses that have been; after it, the sum and the rows in the statuses
\* that have not are about the total.
CountsClose ==
    IF "total" \in Range(reader.next)
    THEN Close(reader.counted, Cardinality(InStatus(rows, ProxyStatus \ Uncounted)), reader.drift)
    ELSE Close(reader.counted + Cardinality(InStatus(rows, Uncounted)), reader.total, reader.drift)

CountsInv ==
    reader.kind \in {"snapshot", "stats"} =>
        /\ reader = [kind |-> reader.kind, filter |-> reader.filter, next |-> reader.next,
                     counted |-> reader.counted, total |-> reader.total,
                     offset |-> reader.offset, items |-> reader.items,
                     drift |-> reader.drift, tied |-> reader.tied, stable |-> reader.stable]
        /\ CountsTyped
        /\ CountsClose

LEMMA IdFinite == IsFiniteSet(Id)
<1>1. 1 \in Int /\ MaxId \in Int
  BY ViewsAssumption
<1>2. IsFiniteSet(1..MaxId)
  BY <1>1, FS_Interval
<1>3. QED
  BY <1>2 DEF Id

\* A part of a table is finite.
LEMMA PartFinite ==
    ASSUME NEW table, DOMAIN table \subseteq Id, NEW S, S \subseteq DOMAIN table
    PROVE  IsFiniteSet(S) /\ Cardinality(S) \in Nat
<1>1. IsFiniteSet(S)
  BY IdFinite, FS_Subset
<1>2. QED
  BY <1>1, FS_CardinalityType

\* A table in which some rows changed status has at most so many rows more in
\* any of the statuses.
LEMMA PartDrifts ==
    ASSUME NEW one, DOMAIN one \subseteq Id, NEW two, DOMAIN two \subseteq Id,
           NEW changed, changed \subseteq Id, NEW D,
           \A id \in Id \ changed :
              /\ id \in DOMAIN one <=> id \in DOMAIN two
              /\ id \in DOMAIN one => one[id].status = two[id].status
    PROVE  /\ Cardinality(changed) \in Nat
           /\ Cardinality(InStatus(one, D)) \in Nat /\ Cardinality(InStatus(two, D)) \in Nat
           /\ Close(Cardinality(InStatus(one, D)), Cardinality(InStatus(two, D)),
                    Cardinality(changed))
<1> DEFINE A == InStatus(one, D)
           B == InStatus(two, D)
<1>1. IsFiniteSet(changed)
  BY IdFinite, FS_Subset
<1>2. /\ IsFiniteSet(A) /\ Cardinality(A) \in Nat
      /\ IsFiniteSet(B) /\ Cardinality(B) \in Nat
  BY PartFinite DEF InStatus
<1>3. A \subseteq B \cup changed /\ B \subseteq A \cup changed
  BY DEF InStatus
<1>4. Cardinality(changed) \in Nat
  BY <1>1, FS_CardinalityType
<1> HIDE DEF A, B
<1>5. ASSUME NEW S, NEW T, IsFiniteSet(S), IsFiniteSet(T), S \subseteq T \cup changed
      PROVE  Cardinality(S) - Cardinality(T) <= Cardinality(changed)
  <2>1. /\ IsFiniteSet(T \cup changed)
        /\ Cardinality(T \cup changed)
              = Cardinality(T) + Cardinality(changed) - Cardinality(T \cap changed)
    BY <1>1, <1>5, FS_Union
  <2>2. Cardinality(S) <= Cardinality(T \cup changed)
    BY <1>5, <2>1, FS_Subset
  <2>3. /\ Cardinality(T \cap changed) \in Nat /\ Cardinality(S) \in Nat
        /\ Cardinality(T) \in Nat
    BY <1>1, <1>5, FS_Intersection, FS_CardinalityType
  <2>4. QED
    BY <1>4, <2>1, <2>2, <2>3
<1>6. QED
  BY <1>2, <1>3, <1>4, <1>5 DEF A, B, Close

\* Statuses that exclude each other count separately.
LEMMA PartsAdd ==
    ASSUME NEW table, DOMAIN table \subseteq Id, NEW D, NEW E, D \cap E = {}
    PROVE  Cardinality(InStatus(table, D \cup E))
              = Cardinality(InStatus(table, D)) + Cardinality(InStatus(table, E))
<1> DEFINE A == InStatus(table, D)
           B == InStatus(table, E)
<1>1. /\ IsFiniteSet(A) /\ Cardinality(A) \in Nat
      /\ IsFiniteSet(B) /\ Cardinality(B) \in Nat
  BY PartFinite DEF InStatus
<1>2. InStatus(table, D \cup E) = A \cup B /\ A \cap B = {}
  BY DEF InStatus
<1> HIDE DEF A, B
<1>3. Cardinality(A \cap B) = 0
  BY <1>2, FS_EmptySet
<1>4. Cardinality(A \cup B) = Cardinality(A) + Cardinality(B) - Cardinality(A \cap B)
  BY <1>1, FS_Union
<1>5. Cardinality(A \cup B) = Cardinality(A) + Cardinality(B)
  BY <1>1, <1>3, <1>4
<1>6. Cardinality(InStatus(table, D \cup E)) = Cardinality(A) + Cardinality(B)
  BY <1>2, <1>5
<1>7. QED
  BY <1>6 DEF A, B

\* What is behind the first of different entries.
LEMMA TailEntries ==
    ASSUME NEW S, NEW seq \in Seq(S), seq # <<>>,
           \A i, j \in DOMAIN seq : i # j => seq[i] # seq[j]
    PROVE  /\ Head(seq) \in S /\ Head(seq) \in Range(seq)
           /\ Tail(seq) \in Seq(S)
           /\ \A i, j \in DOMAIN Tail(seq) : i # j => Tail(seq)[i] # Tail(seq)[j]
           /\ Range(Tail(seq)) = Range(seq) \ {Head(seq)}
<1>1. /\ Len(seq) \in Nat /\ Len(seq) >= 1 /\ DOMAIN seq = 1..Len(seq)
      /\ Head(seq) = seq[1]
  OBVIOUS
<1>2. /\ Tail(seq) \in Seq(S) /\ Len(Tail(seq)) = Len(seq) - 1
      /\ DOMAIN Tail(seq) = 1..(Len(seq) - 1)
      /\ \A i \in 1..(Len(seq) - 1) : Tail(seq)[i] = seq[i + 1]
  <2>1. Tail(seq) \in Seq(S) /\ Len(Tail(seq)) = Len(seq) - 1
    OBVIOUS
  <2>2. \A i \in 1..(Len(seq) - 1) : Tail(seq)[i] = seq[i + 1]
    BY <1>1
  <2>3. QED
    BY <1>1, <2>1, <2>2
<1>3. \A i, j \in DOMAIN Tail(seq) : i # j => Tail(seq)[i] # Tail(seq)[j]
  <2> SUFFICES ASSUME NEW i \in 1..(Len(seq) - 1), NEW j \in 1..(Len(seq) - 1), i # j
               PROVE  seq[i + 1] # seq[j + 1]
    BY <1>2
  <2>1. i + 1 \in 1..Len(seq) /\ j + 1 \in 1..Len(seq) /\ i + 1 # j + 1
    BY <1>1
  <2>2. QED
    BY <1>1, <2>1
<1>4. ASSUME NEW x PROVE x \in Range(Tail(seq)) <=> x \in Range(seq) /\ x # Head(seq)
  <2>1. ASSUME x \in Range(Tail(seq)) PROVE x \in Range(seq) /\ x # Head(seq)
    <3>1. PICK i \in 1..(Len(seq) - 1) : x = seq[i + 1]
      BY <1>2, <2>1 DEF Range
    <3>2. i + 1 \in 1..Len(seq) /\ 1 \in 1..Len(seq) /\ i + 1 # 1
      BY <1>1
    <3>3. QED
      BY <1>1, <3>1, <3>2 DEF Range
  <2>2. ASSUME x \in Range(seq), x # Head(seq) PROVE x \in Range(Tail(seq))
    <3>1. PICK i \in 1..Len(seq) : x = seq[i]
      BY <1>1, <2>2 DEF Range
    <3>2. i # 1 /\ i - 1 \in 1..(Len(seq) - 1) /\ (i - 1) + 1 = i
      BY <1>1, <2>2, <3>1
    <3>3. QED
      BY <1>2, <3>1, <3>2 DEF Range
  <2>3. QED
    BY <2>1, <2>2
<1>5. Head(seq) \in S /\ Head(seq) \in Range(seq)
  <2>1. 1 \in DOMAIN seq
    BY <1>1
  <2>2. QED
    BY <1>1, <2>1 DEF Range
<1>6. Range(Tail(seq)) = Range(seq) \ {Head(seq)}
  BY <1>4
<1>7. QED
  BY <1>2, <1>3, <1>5, <1>6

\* Whoever writes the table, the reader's history takes notice of it.
LEMMA TableNoticed ==
    ASSUME OthersWrite \/ CommitBatch
    PROVE  Notice(rows') \/ (rows' = rows /\ reader' = reader)
<1>1. ASSUME NEW table, rows' = table, Notice(table) PROVE Notice(rows')
  BY <1>1 DEF Notice
<1>2. CASE CommitBatch
  <2> DEFINE changed == {id \in DOMAIN walk.batch : walk.batch[id].old # walk.batch[id].new}
             table == [id \in DOMAIN rows |->
                         IF id \in changed THEN [rows[id] EXCEPT !.score = walk.batch[id].new]
                                           ELSE rows[id]]
  <2>1. (rows' = table /\ Notice(table)) \/ (rows' = rows /\ reader' = reader)
    BY <1>2 DEF CommitBatch
  <2> HIDE DEF table
  <2>2. QED
    BY <1>1, <2>1
<1>3. CASE OthersWrite
  <2>1. \E table : Write(table)
    BY <1>3 DEF OthersWrite, Insert, Mark, PersistResult, Revert, RemoveProxy, Ages, CoolsDown
  <2>2. QED
    BY <1>1, <2>1 DEF Write
<1>4. QED
  BY <1>2, <1>3

\* Rows that change status move a count by at most one each.
LEMMA CountsNotice ==
    ASSUME WalkTypeOK, WalkTypeOK', CountsInv, Notice(rows')
    PROVE  CountsInv'
<1> SUFFICES ASSUME reader'.kind \in {"snapshot", "stats"} PROVE CountsInv'
  BY DEF CountsInv
<1> DEFINE changed == {id \in Id : Seen(rows, id) # Seen(rows', id)}
<1>1. CASE reader.kind = "none" \/ reader.next = <<>>
  <2>1. reader' = reader
    BY <1>1 DEF Notice
  <2>2. reader.kind \in {"snapshot", "stats"} /\ reader.next = <<>>
    BY <1>1, <2>1
  <2>3. Range(reader.next) = {} /\ Uncounted = {}
    BY <2>2 DEF Range, Uncounted
  <2>4. InStatus(rows, Uncounted) = {} /\ InStatus(rows', Uncounted) = {}
    BY <2>3 DEF InStatus
  <2>5. CountsTyped' /\ CountsClose'
    BY <2>1, <2>2, <2>3, <2>4 DEF CountsInv, CountsTyped, CountsClose, Uncounted
  <2>6. QED
    BY <2>1, <2>5 DEF CountsInv
<1>2. CASE ~(reader.kind = "none" \/ reader.next = <<>>)
  <2>1. reader' = [reader EXCEPT
                      !.drift = @ + Cardinality(changed),
                      !.tied = @ \/ (reader.kind = "list" /\ Tied(rows', reader.filter)),
                      !.stable = @ \ changed]
    BY <1>2 DEF Notice
  <2> HIDE DEF changed
  <2>2. /\ reader'.kind = reader.kind /\ reader'.next = reader.next
        /\ reader'.counted = reader.counted /\ reader'.total = reader.total
    BY <2>1
  <2>3. CountsInv
    OBVIOUS
  <2>4. reader.kind \in {"snapshot", "stats"}
    BY <2>2
  <2>5. /\ CountsTyped /\ CountsClose
        /\ reader = [kind |-> reader.kind, filter |-> reader.filter, next |-> reader.next,
                     counted |-> reader.counted, total |-> reader.total,
                     offset |-> reader.offset, items |-> reader.items,
                     drift |-> reader.drift, tied |-> reader.tied, stable |-> reader.stable]
    BY <2>3, <2>4 DEF CountsInv
  <2>6. reader' = [kind |-> reader.kind, filter |-> reader.filter, next |-> reader.next,
                   counted |-> reader.counted, total |-> reader.total,
                   offset |-> reader.offset, items |-> reader.items,
                   drift |-> reader.drift + Cardinality(changed),
                   tied |-> reader.tied \/ (reader.kind = "list" /\ Tied(rows', reader.filter)),
                   stable |-> reader.stable \ changed]
    BY <2>1, <2>5
  <2>7. reader'.drift = reader.drift + Cardinality(changed)
    BY <2>6
  <2>8. /\ DOMAIN rows \subseteq Id /\ DOMAIN rows' \subseteq Id /\ changed \subseteq Id
        /\ \A id \in Id \ changed :
              /\ id \in DOMAIN rows <=> id \in DOMAIN rows'
              /\ id \in DOMAIN rows => rows[id].status = rows'[id].status
    BY <2>4 DEF WalkTypeOK, changed, Seen
  <2>9. ASSUME NEW D
        PROVE  /\ Cardinality(changed) \in Nat
               /\ Cardinality(InStatus(rows, D)) \in Nat /\ Cardinality(InStatus(rows', D)) \in Nat
               /\ Close(Cardinality(InStatus(rows, D)), Cardinality(InStatus(rows', D)),
                        Cardinality(changed))
    BY <2>8, PartDrifts
  <2>10. Cardinality(changed) \in Nat
    BY <2>9
  <2>11. CountsTyped'
    BY <2>2, <2>5, <2>7, <2>10 DEF CountsTyped
  <2>12. Uncounted' = Uncounted
    BY <2>2 DEF Uncounted
  <2>13. CountsClose'
    <3>1. CASE "total" \in Range(reader.next)
      <4> DEFINE D == ProxyStatus \ Uncounted
                 m == Cardinality(InStatus(rows, D))
                 n == Cardinality(InStatus(rows', D))
                 c == Cardinality(changed)
      <4>1. m \in Nat /\ n \in Nat /\ c \in Nat /\ Close(m, n, c)
        BY <2>9
      <4>2. Close(reader.counted, m, reader.drift)
        BY <2>5, <3>1 DEF CountsClose
      <4> HIDE DEF m, n, c
      <4>3. Close(reader.counted, n, reader.drift + c)
        BY <2>5, <4>1, <4>2 DEF Close, CountsTyped
      <4>4. QED
        BY <2>2, <2>7, <2>12, <3>1, <4>3 DEF CountsClose, n, c
    <3>2. CASE "total" \notin Range(reader.next)
      <4> DEFINE m == Cardinality(InStatus(rows, Uncounted))
                 n == Cardinality(InStatus(rows', Uncounted))
                 c == Cardinality(changed)
      <4>1. m \in Nat /\ n \in Nat /\ c \in Nat /\ Close(m, n, c)
        BY <2>9
      <4>2. Close(reader.counted + m, reader.total, reader.drift)
        BY <2>5, <3>2 DEF CountsClose
      <4> HIDE DEF m, n, c
      <4>3. Close(reader.counted + n, reader.total, reader.drift + c)
        BY <2>5, <4>1, <4>2 DEF Close, CountsTyped
      <4>4. QED
        BY <2>2, <2>7, <2>12, <3>2, <4>3 DEF CountsClose, n, c
    <3>3. QED
      BY <3>1, <3>2
  <2>14. QED
    BY <2>2, <2>6, <2>11, <2>13 DEF CountsInv
<1>3. QED
  BY <1>1, <1>2

\* A count takes its statuses, or the rows, off what is still to be counted.
LEMMA CountStep ==
    ASSUME WalkTypeOK, CountsInv, Count
    PROVE  CountsInv'
<1> DEFINE what == Head(reader.next)
<1>1. reader.kind \in {"snapshot", "stats"} /\ reader.next # <<>> /\ rows' = rows
  BY DEF Count
<1>2. /\ CountsTyped /\ CountsClose
      /\ reader = [kind |-> reader.kind, filter |-> reader.filter, next |-> reader.next,
                   counted |-> reader.counted, total |-> reader.total,
                   offset |-> reader.offset, items |-> reader.items,
                   drift |-> reader.drift, tied |-> reader.tied, stable |-> reader.stable]
  BY <1>1 DEF CountsInv
<1>3. /\ what \in Labels /\ what \in Range(reader.next)
      /\ Tail(reader.next) \in Seq(Labels)
      /\ \A i, j \in DOMAIN Tail(reader.next) :
            i # j => Tail(reader.next)[i] # Tail(reader.next)[j]
      /\ Range(Tail(reader.next)) = Range(reader.next) \ {what}
  BY <1>1, <1>2, TailEntries DEF CountsTyped
<1>4. DOMAIN rows \subseteq Id /\ \A id \in DOMAIN rows : rows[id].status \in ProxyStatus
  BY DEF WalkTypeOK, Row
<1>5. Uncounted \subseteq ProxyStatus /\ "total" \notin ProxyStatus
  <2>1. \A i \in DOMAIN reader.next : reader.next[i] \in Labels
    BY <1>2 DEF CountsTyped
  <2>2. QED
    BY <2>1 DEF Uncounted, Labels, Range, ProxyStatus
<1>6. ASSUME NEW D PROVE Cardinality(InStatus(rows, D)) \in Nat
  BY <1>4, PartFinite DEF InStatus
<1> DEFINE left == Cardinality(InStatus(rows, Uncounted))
           done == Cardinality(InStatus(rows, ProxyStatus \ Uncounted))
<1>7. left \in Nat /\ done \in Nat
  BY <1>6
<1>8. CASE what = "total"
  <2>1. reader' = [reader EXCEPT !.next = Tail(@), !.total = Cardinality(DOMAIN rows)]
    BY <1>8 DEF Count
  <2>2. Cardinality(DOMAIN rows) = done + left
    <3>1. DOMAIN rows = InStatus(rows, (ProxyStatus \ Uncounted) \cup Uncounted)
      BY <1>4, <1>5 DEF InStatus
    <3>2. QED
      BY <1>4, <3>1, PartsAdd
  <2> HIDE DEF left, done
  <2>3. reader' = [kind |-> reader.kind, filter |-> reader.filter, next |-> Tail(reader.next),
                   counted |-> reader.counted, total |-> done + left,
                   offset |-> reader.offset, items |-> reader.items,
                   drift |-> reader.drift, tied |-> reader.tied, stable |-> reader.stable]
    BY <1>2, <2>1, <2>2
  <2>4. /\ reader'.next = Tail(reader.next) /\ reader'.counted = reader.counted
        /\ reader'.total = done + left /\ reader'.drift = reader.drift
    BY <2>3
  <2>5. /\ "total" \notin Range(reader'.next) /\ "total" \in Range(reader.next)
        /\ Uncounted' = Uncounted
    BY <1>3, <1>8, <2>4 DEF Uncounted
  <2>6. CountsTyped'
    BY <1>2, <1>3, <1>7, <2>4 DEF CountsTyped
  <2>7. Close(reader.counted, done, reader.drift)
    BY <1>2, <2>5 DEF CountsClose, done
  <2>8. Close(reader.counted + left, done + left, reader.drift)
    BY <1>2, <1>7, <2>7 DEF Close, CountsTyped
  <2>9. CountsClose'
    BY <1>1, <2>4, <2>5, <2>8 DEF CountsClose, left
  <2>10. QED
    BY <2>3, <2>6, <2>9 DEF CountsInv
<1>9. CASE what # "total"
  <2> DEFINE here == Cardinality(InStatus(rows, {what}))
  <2>1. CountStatus(what) = here
    <3>1. {id \in DOMAIN rows : rows[id].status = what} = InStatus(rows, {what})
      BY DEF InStatus
    <3>2. QED
      BY <3>1 DEF CountStatus
  <2>2. reader' = [reader EXCEPT !.next = Tail(@), !.counted = @ + CountStatus(what)]
    BY <1>9 DEF Count
  <2>3. here \in Nat
    BY <1>6
  <2>4. /\ what \in Uncounted /\ Uncounted' = Uncounted \ {what}
        /\ "total" \in Range(reader'.next) <=> "total" \in Range(reader.next)
    <3>1. reader'.next = Tail(reader.next)
      BY <1>2, <2>2
    <3>2. QED
      BY <1>3, <1>9, <3>1 DEF Uncounted
  <2> DEFINE left1 == Cardinality(InStatus(rows, Uncounted \ {what}))
             done1 == Cardinality(InStatus(rows, ProxyStatus \ (Uncounted \ {what})))
  <2>5. left = left1 + here
    <3>1. Uncounted = (Uncounted \ {what}) \cup {what} /\ (Uncounted \ {what}) \cap {what} = {}
      BY <2>4
    <3>2. QED
      BY <1>4, <3>1, PartsAdd
  <2>6. done1 = done + here
    <3>1. /\ ProxyStatus \ (Uncounted \ {what}) = (ProxyStatus \ Uncounted) \cup {what}
          /\ (ProxyStatus \ Uncounted) \cap {what} = {}
      BY <1>5, <2>4
    <3>2. QED
      BY <1>4, <3>1, PartsAdd
  <2>7. left1 \in Nat /\ done1 \in Nat
    BY <1>6
  <2> HIDE DEF left, done, left1, done1, here
  <2>8. reader' = [kind |-> reader.kind, filter |-> reader.filter, next |-> Tail(reader.next),
                   counted |-> reader.counted + here, total |-> reader.total,
                   offset |-> reader.offset, items |-> reader.items,
                   drift |-> reader.drift, tied |-> reader.tied, stable |-> reader.stable]
    BY <1>2, <2>1, <2>2
  <2>9. /\ reader'.next = Tail(reader.next) /\ reader'.counted = reader.counted + here
        /\ reader'.total = reader.total /\ reader'.drift = reader.drift
    BY <2>8
  <2>10. CountsTyped'
    BY <1>2, <1>3, <2>3, <2>9 DEF CountsTyped
  <2>11. CountsClose'
    <3>1. CASE "total" \in Range(reader.next)
      <4>1. Close(reader.counted, done, reader.drift)
        BY <1>2, <3>1 DEF CountsClose, done
      <4>2. Close(reader.counted + here, done1, reader.drift)
        BY <1>2, <1>7, <2>3, <2>6, <4>1 DEF Close, CountsTyped
      <4>3. QED
        BY <1>1, <2>4, <2>9, <3>1, <4>2 DEF CountsClose, done1
    <3>2. CASE "total" \notin Range(reader.next)
      <4>1. Close(reader.counted + left, reader.total, reader.drift)
        BY <1>2, <3>2 DEF CountsClose, left
      <4>2. Close((reader.counted + here) + left1, reader.total, reader.drift)
        BY <1>2, <2>3, <2>5, <2>7, <4>1 DEF Close, CountsTyped
      <4>3. QED
        BY <1>1, <2>4, <2>9, <3>2, <4>2 DEF CountsClose, left1
    <3>3. QED
      BY <3>1, <3>2
  <2>12. QED
    BY <2>8, <2>10, <2>11 DEF CountsInv
<1>10. QED
  BY <1>8, <1>9

\* An entry that a list has twice.
Twice(seq, x) == \E i, j \in DOMAIN seq : i # j /\ seq[i] = x /\ seq[j] = x

\* One list behind another that has no entry twice.
LEMMA JoinedLists ==
    ASSUME NEW S, NEW s \in Seq(S), NEW t \in Seq(S), \A x : ~Twice(t, x)
    PROVE  /\ s \o t \in Seq(S) /\ Len(s \o t) = Len(s) + Len(t)
           /\ Range(s \o t) = Range(s) \cup Range(t)
           /\ \A x : Twice(s \o t, x) =>
                       Twice(s, x) \/ (x \in Range(s) /\ x \in Range(t))
<1>1. /\ s \o t \in Seq(S) /\ DOMAIN (s \o t) = 1..(Len(s) + Len(t))
      /\ Len(s \o t) = Len(s) + Len(t)
      /\ Len(s) \in Nat /\ DOMAIN s = 1..Len(s) /\ Len(t) \in Nat /\ DOMAIN t = 1..Len(t)
  OBVIOUS
<1>2. \A i \in 1..(Len(s) + Len(t)) :
         (s \o t)[i] = IF i <= Len(s) THEN s[i] ELSE t[i - Len(s)]
  OBVIOUS
<1> DEFINE both == s \o t
<1>3. /\ \A i \in 1..Len(s) : i \in DOMAIN both /\ both[i] = s[i] /\ s[i] \in Range(s)
      /\ \A i \in 1..Len(t) : Len(s) + i \in DOMAIN both /\ both[Len(s) + i] = t[i]
      /\ \A i \in (DOMAIN both) \ (1..Len(s)) :
            i - Len(s) \in 1..Len(t) /\ both[i] = t[i - Len(s)] /\ both[i] \in Range(t)
      /\ DOMAIN both \subseteq Int /\ Len(s) \in Nat
  BY <1>1, <1>2 DEF Range
<1> HIDE DEF both
<1>4. Range(both) = Range(s) \cup Range(t)
  <2>1. \A i \in DOMAIN both : both[i] \in Range(s) \cup Range(t)
    BY <1>1, <1>3
  <2>2. \A i \in 1..Len(s) : s[i] \in Range(both)
    BY <1>3 DEF Range
  <2>3. \A i \in 1..Len(t) : t[i] \in Range(both)
    BY <1>3 DEF Range
  <2>4. Range(both) \subseteq Range(s) \cup Range(t)
    BY <2>1 DEF Range
  <2>5. Range(s) \subseteq Range(both) /\ Range(t) \subseteq Range(both)
    BY <1>1, <2>2, <2>3 DEF Range
  <2>6. QED
    BY <2>4, <2>5
<1>5. ASSUME NEW i \in DOMAIN both, NEW j \in DOMAIN both, i # j, both[i] = both[j]
      PROVE  Twice(s, both[i]) \/ (both[i] \in Range(s) /\ both[i] \in Range(t))
  <2>1. CASE i \in 1..Len(s) /\ j \in 1..Len(s)
    BY <1>1, <1>3, <1>5, <2>1 DEF Twice
  <2>2. CASE i \notin 1..Len(s) /\ j \notin 1..Len(s)
    <3>1. /\ i - Len(s) \in DOMAIN t /\ j - Len(s) \in DOMAIN t
          /\ both[i] = t[i - Len(s)] /\ both[j] = t[j - Len(s)]
      BY <1>1, <1>3, <2>2
    <3>2. i - Len(s) # j - Len(s)
      BY <1>3, <1>5
    <3>3. Twice(t, both[i])
      BY <1>5, <3>1, <3>2 DEF Twice
    <3>4. QED
      BY <3>3
  <2>3. CASE \/ i \in 1..Len(s) /\ j \notin 1..Len(s)
             \/ i \notin 1..Len(s) /\ j \in 1..Len(s)
    BY <1>3, <1>5, <2>3
  <2>4. QED
    BY <2>1, <2>2, <2>3
<1>6. \A x : Twice(both, x) => Twice(s, x) \/ (x \in Range(s) /\ x \in Range(t))
  <2> SUFFICES ASSUME NEW x, Twice(both, x)
               PROVE  Twice(s, x) \/ (x \in Range(s) /\ x \in Range(t))
    OBVIOUS
  <2>1. PICK i \in DOMAIN both, j \in DOMAIN both : i # j /\ both[i] = x /\ both[j] = x
    BY DEF Twice
  <2>2. QED
    BY <1>5, <2>1
<1>7. QED
  BY <1>1, <1>4, <1>6 DEF both

LEMMA JoinedEntries ==
    ASSUME NEW S, NEW s \in Seq(S), NEW t \in Seq(S), Range(s) \cap Range(t) = {},
           \A i, j \in DOMAIN s : i # j => s[i] # s[j],
           \A i, j \in DOMAIN t : i # j => t[i] # t[j]
    PROVE  /\ s \o t \in Seq(S)
           /\ \A i, j \in DOMAIN (s \o t) : i # j => (s \o t)[i] # (s \o t)[j]
           /\ Range(s \o t) = Range(s) \cup Range(t)
<1> DEFINE both == s \o t
<1>1. (\A x : ~Twice(s, x)) /\ (\A x : ~Twice(t, x))
  BY DEF Twice
<1>2. /\ both \in Seq(S) /\ Range(both) = Range(s) \cup Range(t)
      /\ \A x : Twice(both, x) => Twice(s, x) \/ (x \in Range(s) /\ x \in Range(t))
  BY <1>1, JoinedLists
<1> HIDE DEF both
<1>3. \A x : ~Twice(both, x)
  BY <1>1, <1>2
<1>4. \A i, j \in DOMAIN both : i # j => both[i] # both[j]
  BY <1>3 DEF Twice
<1>5. QED
  BY <1>2, <1>4 DEF both

\* The statements of a snapshot and of GET /stats count each status once.
LEMMA StatementsCount ==
    ASSUME NEW kind \in {"snapshot", "stats"}
    PROVE  /\ Statements(kind) \in Seq(Labels)
           /\ \A i, j \in DOMAIN Statements(kind) :
                 i # j => Statements(kind)[i] # Statements(kind)[j]
           /\ Range(Statements(kind)) = Labels
<1> DEFINE rest == <<"total">>
<1>1. /\ Counted \in Seq(Labels) /\ Range(Counted) = ProxyStatus
      /\ \A i, j \in DOMAIN Counted : i # j => Counted[i] # Counted[j]
  BY DEF Counted, Labels, ProxyStatus, Range
<1>2. /\ rest \in Seq(Labels) /\ Range(rest) = {"total"}
      /\ \A i, j \in DOMAIN rest : i # j => rest[i] # rest[j]
  BY DEF Labels, Range
<1>3. ProxyStatus \cap {"total"} = {} /\ Labels = ProxyStatus \cup {"total"}
  BY DEF ProxyStatus, Labels
<1> HIDE DEF rest
<1>4. Statements(kind) = Counted \o rest \/ Statements(kind) = rest \o Counted
  BY DEF Statements, rest
<1>5. /\ Range(Counted) \cap Range(rest) = {} /\ Range(rest) \cap Range(Counted) = {}
      /\ Range(Counted) \cup Range(rest) = Labels /\ Range(rest) \cup Range(Counted) = Labels
  BY <1>1, <1>2, <1>3
<1>6. CASE Statements(kind) = Counted \o rest
  <2> DEFINE both == Counted \o rest
  <2>1. /\ both \in Seq(Labels) /\ Range(both) = Range(Counted) \cup Range(rest)
        /\ \A i, j \in DOMAIN both : i # j => both[i] # both[j]
    BY <1>1, <1>2, <1>5, JoinedEntries
  <2> HIDE DEF both
  <2>2. QED
    BY <1>5, <1>6, <2>1 DEF both
<1>7. CASE Statements(kind) = rest \o Counted
  <2> DEFINE both == rest \o Counted
  <2>1. /\ both \in Seq(Labels) /\ Range(both) = Range(rest) \cup Range(Counted)
        /\ \A i, j \in DOMAIN both : i # j => both[i] # both[j]
    BY <1>1, <1>2, <1>5, JoinedEntries
  <2> HIDE DEF both
  <2>2. QED
    BY <1>5, <1>7, <2>1 DEF both
<1>8. QED
  BY <1>4, <1>6, <1>7

LEMMA BeginCountsStep ==
    ASSUME NEW kind \in {"snapshot", "stats"}, BeginCounts(kind)
    PROVE  CountsInv'
<1>1. /\ reader' = [Reading(kind, NoFilter) EXCEPT !.next = Statements(kind)]
      /\ rows' = rows
  BY DEF BeginCounts
<1>2. reader' = [kind |-> kind, filter |-> NoFilter, next |-> Statements(kind),
                 counted |-> 0, total |-> 0, offset |-> 0, items |-> <<>>,
                 drift |-> 0, tied |-> FALSE, stable |-> {}]
  BY <1>1 DEF Reading
<1>3. /\ reader'.next = Statements(kind) /\ reader'.counted = 0 /\ reader'.drift = 0
      /\ reader'.total = 0
  BY <1>2
<1>4. CountsTyped'
  BY <1>3, StatementsCount DEF CountsTyped
<1>5. "total" \in Range(reader'.next) /\ Uncounted' = ProxyStatus
  BY <1>3, StatementsCount DEF Uncounted, Labels, ProxyStatus
<1>6. InStatus(rows', ProxyStatus \ Uncounted') = {}
  BY <1>5 DEF InStatus
<1>7. CountsClose'
  BY <1>3, <1>5, <1>6, FS_EmptySet DEF CountsClose, Close
<1>8. QED
  BY <1>2, <1>4, <1>7 DEF CountsInv

LEMMA CountsStep ==
    WalkInv /\ WalkInv' /\ CountsInv /\ [PoolNext]_viewVars => CountsInv'
<1> SUFFICES ASSUME WalkInv, WalkInv', CountsInv, [PoolNext]_viewVars PROVE CountsInv'
  OBVIOUS
<1>1. WalkTypeOK /\ WalkTypeOK'
  BY DEF WalkInv
<1>2. ASSUME rows' = rows, reader' = reader PROVE CountsInv'
  BY <1>2 DEF CountsInv, CountsTyped, CountsClose, Uncounted
<1>3. CASE BeginWalk \/ ReadBatch \/ WalkFails \/ UNCHANGED viewVars
  BY <1>2, <1>3 DEF BeginWalk, ReadBatch, WalkFails, viewVars
<1>4. CASE OthersWrite \/ CommitBatch
  BY <1>1, <1>2, <1>4, TableNoticed, CountsNotice
<1>5. CASE \E kind \in {"snapshot", "stats"} : BeginCounts(kind)
  BY <1>5, BeginCountsStep
<1>6. CASE Count
  BY <1>1, <1>6, CountStep
<1>7. CASE \/ \E filter \in Filters : BeginList(filter)
           \/ CountMatching \/ ReadPage \/ ReaderDone \/ ReadFails
  <2>1. reader'.kind \notin {"snapshot", "stats"}
    <3>1. CASE \E filter \in Filters : BeginList(filter)
      BY <3>1 DEF BeginList, Reading
    <3>2. CASE CountMatching
      <4>1. reader.kind = "list"
            /\ reader' = [reader EXCEPT !.next = Tail(@),
                                        !.total = Cardinality(Matching(reader.filter))]
        BY <3>2 DEF CountMatching
      <4>2. reader'.kind = reader.kind
        BY <4>1
      <4>3. QED
        BY <4>1, <4>2
    <3>3. CASE ReadPage
      <4>1. reader.kind = "list" /\ reader'.kind = reader.kind
        BY <3>3 DEF ReadPage
      <4>2. QED
        BY <4>1
    <3>4. CASE ReaderDone \/ ReadFails
      BY <3>4 DEF ReaderDone, ReadFails, NoReader, Reading
    <3>5. QED
      BY <1>7, <3>1, <3>2, <3>3, <3>4
  <2>2. QED
    BY <2>1 DEF CountsInv
<1>8. QED
  BY <1>3, <1>4, <1>5, <1>6, <1>7 DEF PoolNext, WalkStep, ReaderStep, Begin

\* For every table, every statement order and every interleaving with the jobs,
\* the statuses of a snapshot or of GET /stats sum up to its total but for the
\* rows that came, went or changed status while it was counting
\* (SnapshotJob.run, get_stats, get_pool_stats).
THEOREM CountsAlwaysAddUp == PoolSpec => []CountsAddUp
<1>1. PoolInit => CountsInv
  BY DEF PoolInit, NoReader, Reading, CountsInv
<1>2. CountsInv => CountsAddUp
  <2> SUFFICES ASSUME CountsInv, reader.kind \in {"snapshot", "stats"}, reader.next = <<>>
               PROVE  Close(reader.counted, reader.total, reader.drift)
    BY DEF CountsAddUp, Close
  <2>1. Range(reader.next) = {} /\ Uncounted = {}
    BY DEF Range, Uncounted
  <2>2. InStatus(rows, Uncounted) = {}
    BY <2>1 DEF InStatus
  <2>3. Cardinality(InStatus(rows, Uncounted)) = 0
    BY <2>2, FS_EmptySet
  <2>4. CountsTyped /\ CountsClose
    BY DEF CountsInv
  <2>5. QED
    BY <2>1, <2>3, <2>4 DEF CountsClose, CountsTyped
<1>3. QED
  BY <1>1, <1>2, WalkInit, WalkStepInv, CountsStep, PTL DEF PoolSpec

-----------------------------------------------------------------------------
(* The list a client reads page by page.  In a list without equal keys the *)
(* pages before an offset hold the rows that fewer than so many others     *)
(* come before.                                                            *)

\* An order of rows by score, without equals.
Untied(M, s) ==
    /\ IsFiniteSet(M)
    /\ \A x \in M : s[x] \in Nat
    /\ \A x, y \in M : x # y => s[x] # s[y]

Above(M, s, x) == {y \in M : s[y] > s[x]}

Top(M, s, n) == {x \in M : Cardinality(Above(M, s, x)) < n}

\* Fewer rows are above one that is higher up.
LEMMA AboveFewer ==
    ASSUME NEW M, NEW s, Untied(M, s), NEW x \in M, NEW y \in M, s[y] > s[x]
    PROVE  /\ IsFiniteSet(Above(M, s, x))
           /\ Cardinality(Above(M, s, x)) \in Nat /\ Cardinality(Above(M, s, y)) \in Nat
           /\ Cardinality(Above(M, s, y)) < Cardinality(Above(M, s, x))
<1>1. IsFiniteSet(Above(M, s, x)) /\ IsFiniteSet(Above(M, s, y))
  <2>1. Above(M, s, x) \in SUBSET M /\ Above(M, s, y) \in SUBSET M /\ IsFiniteSet(M)
    BY DEF Above, Untied
  <2>2. QED
    BY <2>1, FS_Subset
<1>2. Cardinality(Above(M, s, x)) \in Nat /\ Cardinality(Above(M, s, y)) \in Nat
  BY <1>1, FS_CardinalityType
<1>3. Above(M, s, y) \in SUBSET Above(M, s, x)
  BY DEF Above, Untied
<1>4. y \in Above(M, s, x) /\ y \notin Above(M, s, y)
  BY DEF Above, Untied
<1>5. /\ Cardinality(Above(M, s, y)) <= Cardinality(Above(M, s, x))
      /\ Cardinality(Above(M, s, x)) # Cardinality(Above(M, s, y))
  BY <1>1, <1>3, <1>4, FS_Subset
<1>6. QED
  BY <1>1, <1>2, <1>5

LEMMA AboveTyped ==
    ASSUME NEW M, NEW s, Untied(M, s), NEW x \in M
    PROVE  IsFiniteSet(Above(M, s, x)) /\ Cardinality(Above(M, s, x)) \in Nat
<1>1. Above(M, s, x) \in SUBSET M /\ IsFiniteSet(M)
  BY DEF Above, Untied
<1>2. QED
  BY <1>1, FS_Subset, FS_CardinalityType

\* The top is closed upwards, and the longer the greater.
LEMMA TopClosed ==
    ASSUME NEW M, NEW s, Untied(M, s), NEW n \in Nat
    PROVE  /\ Top(M, s, n) \subseteq M
           /\ \A x \in Top(M, s, n), y \in M : s[y] > s[x] => y \in Top(M, s, n)
           /\ \A m \in Nat : n <= m => Top(M, s, n) \subseteq Top(M, s, m)
<1>1. ASSUME NEW x \in Top(M, s, n), NEW y \in M, s[y] > s[x]
      PROVE  y \in Top(M, s, n)
  <2>1. x \in M /\ Cardinality(Above(M, s, x)) < n
    BY DEF Top
  <2>2. /\ Cardinality(Above(M, s, x)) \in Nat /\ Cardinality(Above(M, s, y)) \in Nat
        /\ Cardinality(Above(M, s, y)) < Cardinality(Above(M, s, x))
    BY <1>1, <2>1, AboveFewer
  <2>3. QED
    BY <2>1, <2>2 DEF Top
<1>2. ASSUME NEW m \in Nat, n <= m PROVE Top(M, s, n) \subseteq Top(M, s, m)
  BY <1>2, AboveTyped DEF Top
<1>3. QED
  BY <1>1, <1>2 DEF Top

\* The top has as many rows as it is long, or it has all.
LEMMA TopSize ==
    ASSUME NEW M, NEW s, Untied(M, s), NEW n \in Nat
    PROVE  /\ IsFiniteSet(Top(M, s, n)) /\ Cardinality(Top(M, s, n)) \in Nat
           /\ Cardinality(Top(M, s, n)) <= n
           /\ Top(M, s, n) # M => Cardinality(Top(M, s, n)) = n
<1> DEFINE T == Top(M, s, n)
           rank == [x \in M |-> Cardinality(Above(M, s, x))]
<1>1. IsFiniteSet(T) /\ T \subseteq M
  <2>1. T \in SUBSET M /\ IsFiniteSet(M)
    BY DEF Top, Untied
  <2>2. QED
    BY <2>1, FS_Subset
<1>2. Cardinality(T) \in Nat
  BY <1>1, FS_CardinalityType
<1>3. \A x \in M : rank[x] \in Nat
  BY AboveTyped
<1>4. \A x, y \in M : s[y] > s[x] => rank[y] < rank[x]
  BY AboveFewer
<1>5. T = {x \in M : rank[x] < n}
  BY DEF Top
<1>6. DOMAIN rank = M
  OBVIOUS
<1>7. \A x \in M : rank[x] = Cardinality(Above(M, s, x))
  OBVIOUS
<1> HIDE DEF rank, T
<1>8. \A x, y \in M : x # y => rank[x] # rank[y]
  <2> SUFFICES ASSUME NEW x \in M, NEW y \in M, x # y PROVE rank[x] # rank[y]
    OBVIOUS
  <2>1. s[x] \in Nat /\ s[y] \in Nat /\ s[x] # s[y]
    BY DEF Untied
  <2>2. rank[y] < rank[x] \/ rank[x] < rank[y]
    BY <1>4, <2>1
  <2>3. QED
    BY <1>3, <2>2
<1>9. Cardinality(T) <= n
  <2> DEFINE f == [x \in T |-> rank[x]]
  <2>1. f \in Injection(T, 0..(n - 1))
    <3>1. f \in [T -> 0..(n - 1)]
      BY <1>1, <1>3, <1>5
    <3>2. \A x, y \in T : f[x] = f[y] => x = y
      BY <1>1, <1>8
    <3> HIDE DEF f
    <3>3. QED
      BY <3>1, <3>2 DEF Injection, IsInjective
  <2>2. IsFiniteSet(0..(n - 1)) /\ Cardinality(0..(n - 1)) = n
    <3>1. 0 \in Int /\ n - 1 \in Int
      OBVIOUS
    <3>2. IsFiniteSet(0..(n - 1))
          /\ Cardinality(0..(n - 1)) = IF 0 > n - 1 THEN 0 ELSE (n - 1) - 0 + 1
      BY <3>1, FS_Interval
    <3>3. QED
      BY <3>2
  <2> HIDE DEF f
  <2>3. QED
    BY <2>1, <2>2, FS_Injection
<1>10. ASSUME T # M PROVE Cardinality(T) >= n
  <2> DEFINE late == {k \in Nat : \E x \in M \ T : rank[x] = k}
             less == OpToRel(<, Nat)
  <2>1. late \subseteq Nat /\ late # {}
    BY <1>1, <1>3, <1>10
  <2>2. IsWellFoundedOn(less, Nat)
    BY NatLessThanWellFounded
  <2>3. \E k \in late : \A m \in late : <<m, k>> \notin less
    <3> HIDE DEF late, less
    <3>1. QED
      BY <2>1, <2>2, WFMin
  <2>4. PICK k \in late : \A m \in late : <<m, k>> \notin less
    BY <2>3
  <2>5. \A m \in late : ~(m < k)
    BY <2>1, <2>4 DEF OpToRel
  <2>6. PICK x \in M \ T : rank[x] = k
    OBVIOUS
  <2>7. Above(M, s, x) \in SUBSET T
    <3> SUFFICES ASSUME NEW y \in M, s[y] > s[x], y \notin T PROVE FALSE
      BY DEF Above
    <3>1. rank[y] < k
      BY <1>4, <2>6
    <3>2. rank[y] \in late
      BY <1>3
    <3>3. QED
      BY <2>5, <3>1, <3>2
  <2>8. Cardinality(Above(M, s, x)) <= Cardinality(T)
    BY <1>1, <2>7, FS_Subset
  <2>9. ~(rank[x] < n)
    BY <1>5, <2>6
  <2>10. QED
    BY <1>2, <1>3, <1>7, <2>6, <2>8, <2>9
<1>11. QED
  BY <1>1, <1>2, <1>9, <1>10 DEF T

\* Some rows change.  The others that come into the top replace changed rows
\* that were in it.
LEMMA TopEntered ==
    ASSUME NEW M, NEW s, Untied(M, s), NEW N, NEW t, Untied(N, t),
           NEW C, IsFiniteSet(C),
           \A x : x \notin C => /\ x \in M <=> x \in N
                                /\ x \in M => s[x] = t[x],
           NEW n \in Nat
    PROVE  LET entered == (Top(N, t, n) \ Top(M, s, n)) \ C
           IN  /\ IsFiniteSet(entered) /\ Cardinality(entered) \in Nat
               /\ Cardinality(Top(M, s, n) \cap C) \in Nat
               /\ Cardinality(Top(N, t, n) \cap C) \in Nat
               /\ \/ Cardinality(entered) = 0
                  \/ Cardinality(entered) <= Cardinality(Top(M, s, n) \cap C)
                                                - Cardinality(Top(N, t, n) \cap C)
<1> DEFINE A == Top(M, s, n)
           B == Top(N, t, n)
           D == (B \ A) \ C
<1>1. /\ IsFiniteSet(A) /\ Cardinality(A) \in Nat /\ Cardinality(A) <= n
      /\ A # M => Cardinality(A) = n
  BY TopSize
<1>2. IsFiniteSet(B) /\ Cardinality(B) \in Nat /\ Cardinality(B) <= n
  BY TopSize
<1>3. /\ A \subseteq M /\ B \subseteq N
      /\ \A x \in A, y \in M : s[y] > s[x] => y \in A
      /\ \A x \in B, y \in N : t[y] > t[x] => y \in B
  BY TopClosed
<1>4. /\ \A x \in M : s[x] \in Nat
      /\ \A x, y \in M : x # y => s[x] # s[y]
  BY DEF Untied
<1> HIDE DEF A, B
<1>5. IsFiniteSet(D) /\ Cardinality(D) \in Nat
  <2>1. D \in SUBSET B
    OBVIOUS
  <2>2. IsFiniteSet(D)
    BY <1>2, <2>1, FS_Subset
  <2>3. QED
    BY <2>2, FS_CardinalityType
<1>6. Cardinality(A \cap C) \in Nat /\ Cardinality(B \cap C) \in Nat
  <2>1. IsFiniteSet(A \cap C) /\ IsFiniteSet(B \cap C)
    BY <1>1, <1>2, FS_Intersection
  <2>2. QED
    BY <2>1, FS_CardinalityType
<1>7. ASSUME D # {} PROVE Cardinality(D) <= Cardinality(A \cap C) - Cardinality(B \cap C)
  <2>1. PICK d : d \in B /\ d \notin A /\ d \notin C
    BY <1>7
  <2>2. d \in M /\ d \in N /\ s[d] = t[d] /\ A # M
    BY <1>3, <2>1
  <2>3. Cardinality(A) = n
    BY <1>1, <2>2
  <2>4. A \ C \subseteq B
    <3> SUFFICES ASSUME NEW x \in A, x \notin C PROVE x \in B
      OBVIOUS
    <3>1. x \in M /\ x \in N /\ s[x] = t[x] /\ x # d
      BY <1>3, <2>1
    <3>2. ~(s[d] > s[x])
      BY <1>3, <2>1, <2>2
    <3>3. s[x] \in Nat /\ s[d] \in Nat /\ s[x] # s[d]
      BY <1>4, <2>2, <3>1
    <3>4. s[x] > s[d]
      BY <3>2, <3>3
    <3>5. t[x] > t[d]
      BY <2>2, <3>1, <3>4
    <3>6. QED
      BY <1>3, <2>1, <3>1, <3>5
  <2>5. /\ IsFiniteSet(A \ C) /\ Cardinality(A \ C) = Cardinality(A) - Cardinality(A \cap C)
        /\ IsFiniteSet(B \ C) /\ Cardinality(B \ C) = Cardinality(B) - Cardinality(B \cap C)
    BY <1>1, <1>2, FS_Difference
  <2>6. (A \ C) \cup D \in SUBSET (B \ C) /\ (A \ C) \cap D = {}
    BY <2>4
  <2>7. Cardinality((A \ C) \cup D) = Cardinality(A \ C) + Cardinality(D)
    <3>1. Cardinality((A \ C) \cup D)
             = Cardinality(A \ C) + Cardinality(D) - Cardinality((A \ C) \cap D)
      BY <1>5, <2>5, FS_Union
    <3>2. Cardinality((A \ C) \cap D) = 0
      BY <2>6, FS_EmptySet
    <3>3. Cardinality(A \ C) \in Nat
      BY <2>5, FS_CardinalityType
    <3> HIDE DEF D
    <3>4. QED
      BY <1>5, <3>1, <3>2, <3>3
  <2>8. Cardinality((A \ C) \cup D) <= Cardinality(B \ C)
    BY <2>5, <2>6, FS_Subset
  <2>9. Cardinality(A \ C) \in Nat /\ Cardinality(B \ C) \in Nat
    BY <2>5, FS_CardinalityType
  <2> HIDE DEF D
  <2>10. QED
    BY <1>1, <1>2, <1>5, <1>6, <2>3, <2>5, <2>7, <2>8, <2>9
<1>8. D = {} => Cardinality(D) = 0
  BY FS_EmptySet
<1>9. QED
  BY <1>5, <1>6, <1>7, <1>8 DEF A, B, D

\* Of the rows that did not change, only so many come into one top or leave a
\* longer one as others changed.
LEMMA TopsDrift ==
    ASSUME NEW M, NEW s, Untied(M, s), NEW N, NEW t, Untied(N, t),
           NEW C, IsFiniteSet(C),
           \A x : x \notin C => /\ x \in M <=> x \in N
                                /\ x \in M => s[x] = t[x],
           NEW m \in Nat, NEW n \in Nat, m <= n
    PROVE  LET entered == (Top(N, t, m) \ Top(M, s, m)) \ C
               left    == (Top(M, s, n) \ Top(N, t, n)) \ C
           IN  /\ IsFiniteSet(entered) /\ Cardinality(entered) \in Nat
               /\ IsFiniteSet(left) /\ Cardinality(left) \in Nat
               /\ Cardinality(C) \in Nat
               /\ Cardinality(entered) + Cardinality(left) <= Cardinality(C)
<1> DEFINE D == (Top(N, t, m) \ Top(M, s, m)) \ C
           F == (Top(M, s, n) \ Top(N, t, n)) \ C
           a == Cardinality(Top(M, s, m) \cap C)
           b == Cardinality(Top(M, s, n) \cap C)
           c == Cardinality(Top(N, t, m) \cap C)
           e == Cardinality(Top(N, t, n) \cap C)
<1>1. /\ IsFiniteSet(D) /\ Cardinality(D) \in Nat /\ a \in Nat /\ c \in Nat
      /\ Cardinality(D) = 0 \/ Cardinality(D) <= a - c
  BY TopEntered
<1>2. \A x : x \notin C => /\ x \in N <=> x \in M
                           /\ x \in N => t[x] = s[x]
  OBVIOUS
<1>3. /\ IsFiniteSet(F) /\ Cardinality(F) \in Nat /\ e \in Nat /\ b \in Nat
      /\ Cardinality(F) = 0 \/ Cardinality(F) <= e - b
  BY <1>2, TopEntered
<1>4. Cardinality(C) \in Nat
  BY FS_CardinalityType
<1>5. a <= b
  <2>1. Top(M, s, m) \cap C \in SUBSET (Top(M, s, n) \cap C)
    BY TopClosed
  <2>2. IsFiniteSet(Top(M, s, n) \cap C)
    BY FS_Intersection
  <2>3. QED
    BY <2>1, <2>2, FS_Subset
<1>6. a <= Cardinality(C) /\ e <= Cardinality(C)
  BY FS_Intersection
<1> HIDE DEF D, F, a, b, c, e
<1>7. Cardinality(D) + Cardinality(F) <= Cardinality(C)
  BY <1>1, <1>3, <1>4, <1>5, <1>6
<1>8. QED
  BY <1>1, <1>3, <1>4, <1>7 DEF D, F

\* A row's place in a list that is ordered by score.
LEMMA PlaceInOrder ==
    ASSUME NEW M, NEW s, Untied(M, s), NEW ids \in SetToSeqs(M),
           \A i, j \in DOMAIN ids : i < j => s[ids[i]] >= s[ids[j]]
    PROVE  /\ Cardinality(M) \in Nat /\ ids \in Seq(M) /\ Len(ids) = Cardinality(M)
           /\ \A i, j \in 1..Len(ids) : i # j => ids[i] # ids[j]
           /\ \A x \in M : \E i \in 1..Len(ids) : x = ids[i]
           /\ \A i \in 1..Len(ids), n \in Nat : ids[i] \in Top(M, s, n) <=> i <= n
<1> DEFINE size == Cardinality(M)
<1>1. IsFiniteSet(M) /\ size \in Nat
  BY FS_CardinalityType DEF Untied
<1>2. /\ ids \in [1..size -> M]
      /\ \A i, j \in 1..size : i # j => ids[i] # ids[j]
  BY DEF SetToSeqs
<1>3. DOMAIN ids = 1..size
  BY <1>2
<1>4. IsFiniteSet(1..size) /\ Cardinality(1..size) = size
  <2>1. 1 \in Int /\ size \in Int
    BY <1>1
  <2>2. IsFiniteSet(1..size) /\ Cardinality(1..size) = IF 1 > size THEN 0 ELSE size - 1 + 1
    BY <2>1, FS_Interval
  <2>3. QED
    BY <1>1, <2>2
<1> HIDE DEF size
<1>5. ids \in Seq(M) /\ Len(ids) = size
  BY <1>1, <1>2
<1>6. ids \in Injection(1..size, M)
  BY <1>2, <1>3 DEF Injection, IsInjective
<1>7. ids \in Surjection(1..size, M)
  <2>1. Cardinality(1..size) = Cardinality(M)
    BY <1>4 DEF size
  <2>2. QED
    BY <1>1, <1>6, <2>1, FS_Injection
<1>8. \A x \in M : \E i \in 1..size : x = ids[i]
  BY <1>7 DEF Surjection
<1>9. ASSUME NEW i \in 1..size
      PROVE  Cardinality(Above(M, s, ids[i])) = i - 1
  <2> DEFINE A == Above(M, s, ids[i])
             f == [j \in 1..(i - 1) |-> ids[j]]
  <2>1. i \in Nat /\ \A j \in 1..(i - 1) : j \in 1..size /\ j < i
    BY <1>1
  <2>2. ASSUME NEW j \in 1..size PROVE s[ids[j]] > s[ids[i]] <=> j < i
    <3>1. /\ i \in Nat /\ j \in Nat
          /\ ids[i] \in M /\ ids[j] \in M /\ s[ids[i]] \in Nat /\ s[ids[j]] \in Nat
      BY <1>1, <1>2 DEF Untied
    <3>2. CASE j < i
      <4>1. ids[j] # ids[i]
        BY <1>2, <3>1, <3>2
      <4>2. s[ids[j]] # s[ids[i]]
        BY <3>1, <4>1 DEF Untied
      <4>3. s[ids[j]] >= s[ids[i]]
        BY <1>3, <3>2
      <4>4. QED
        BY <3>1, <3>2, <4>2, <4>3
    <3>3. CASE j = i
      BY <3>1, <3>3
    <3>4. CASE i < j
      <4>1. s[ids[i]] >= s[ids[j]]
        BY <1>3, <3>4
      <4>2. QED
        BY <3>1, <3>4, <4>1
    <3>5. QED
      BY <3>1, <3>2, <3>3, <3>4
  <2>3. \A j \in 1..(i - 1) : f[j] \in A
    BY <1>2, <2>1, <2>2 DEF Above
  <2>4. \A y \in A : \E j \in 1..(i - 1) : f[j] = y
    <3> SUFFICES ASSUME NEW y \in A PROVE \E j \in 1..(i - 1) : f[j] = y
      OBVIOUS
    <3>1. y \in M /\ s[y] > s[ids[i]]
      BY DEF Above
    <3>2. PICK j \in 1..size : y = ids[j]
      BY <1>8, <3>1
    <3>3. j < i /\ j \in Nat
      BY <1>1, <2>2, <3>1, <3>2
    <3>4. j \in 1..(i - 1)
      BY <2>1, <3>2, <3>3
    <3>5. QED
      BY <3>2, <3>4
  <2>5. \A j, k \in 1..(i - 1) : f[j] = f[k] => j = k
    BY <1>2, <2>1
  <2>6. DOMAIN f = 1..(i - 1)
    OBVIOUS
  <2>7. IsFiniteSet(1..(i - 1)) /\ Cardinality(1..(i - 1)) = i - 1
    <3>1. 1 \in Int /\ i - 1 \in Int
      BY <2>1
    <3>2. /\ IsFiniteSet(1..(i - 1))
          /\ Cardinality(1..(i - 1)) = IF 1 > i - 1 THEN 0 ELSE (i - 1) - 1 + 1
      BY <3>1, FS_Interval
    <3>3. QED
      BY <2>1, <3>2
  <2>8. f \in [1..(i - 1) -> A]
    BY <2>3
  <2> HIDE DEF f, A
  <2>9. f \in Surjection(1..(i - 1), A) /\ f \in Injection(1..(i - 1), A)
    BY <2>4, <2>5, <2>6, <2>8 DEF Surjection, Injection, IsInjective
  <2>10. Cardinality(A) = Cardinality(1..(i - 1))
    BY <2>7, <2>9, FS_Surjection
  <2>11. QED
    BY <2>7, <2>10 DEF A
<1>10. ASSUME NEW i \in 1..size, NEW n \in Nat
       PROVE  ids[i] \in Top(M, s, n) <=> i <= n
  <2>1. ids[i] \in M /\ i \in Nat
    BY <1>1, <1>2
  <2>2. ids[i] \in Top(M, s, n) <=> i - 1 < n
    BY <1>9, <2>1 DEF Top
  <2>3. QED
    BY <2>1, <2>2
<1>11. QED
  BY <1>1, <1>2, <1>5, <1>8, <1>10 DEF size

LEMMA LeastOfTwo ==
    ASSUME NEW m \in Nat, NEW n \in Nat
    PROVE  Min({m, n}) = IF m <= n THEN m ELSE n
<1> DEFINE S == {m, n}
           least == IF m <= n THEN m ELSE n
<1>1. least \in S /\ \A k \in S : least <= k
  OBVIOUS
<1>2. \A k \in S : (\A l \in S : k <= l) => k = least
  OBVIOUS
<1> HIDE DEF S, least
<1>3. Min(S) = least
  BY <1>1, <1>2 DEF Min
<1>4. QED
  BY <1>3 DEF S, least

\* A page holds the rows between two tops, each of them once.
LEMMA PageBetween ==
    ASSUME NEW M, NEW s, Untied(M, s), NEW ids \in SetToSeqs(M),
           \A i, j \in DOMAIN ids : i < j => s[ids[i]] >= s[ids[j]],
           NEW offset \in Nat, NEW limit \in Nat
    PROVE  LET page == Slice(ids, offset, limit)
           IN  /\ page \in Seq(M) /\ Len(page) <= limit
               /\ \A i, j \in DOMAIN page : i # j => page[i] # page[j]
               /\ Range(page) = Top(M, s, offset + limit) \ Top(M, s, offset)
<1> DEFINE end == Min({offset + limit, Len(ids)})
           page == Slice(ids, offset, limit)
           size == Len(ids)
           length == IF end > offset THEN end - offset ELSE 0
<1>1. /\ ids \in Seq(M) /\ size \in Nat
      /\ \A i, j \in 1..size : i # j => ids[i] # ids[j]
      /\ \A x \in M : \E i \in 1..size : x = ids[i]
      /\ \A i \in 1..size, n \in Nat : ids[i] \in Top(M, s, n) <=> i <= n
  BY PlaceInOrder
<1>2. end = IF offset + limit <= size THEN offset + limit ELSE size
  BY <1>1, LeastOfTwo
<1> HIDE DEF size, end
<1>3. /\ end \in Nat /\ end <= size /\ end <= offset + limit /\ length \in Nat
      /\ \A i \in 1..length : offset + i \in 1..size /\ offset + i <= end
      /\ \A i \in 1..size : i > offset /\ i <= offset + limit
                               => i - offset \in 1..length /\ offset + (i - offset) = i
  BY <1>1, <1>2
<1>4. \A i \in 1..size : ids[i] \in M
  BY <1>1 DEF size
<1>5. /\ page \in Seq(M) /\ Len(page) = length
      /\ \A i \in 1..length : page[i] = ids[offset + i]
  <2>0. end \in Nat /\ end <= size /\ size \in Nat
    BY <1>1, <1>3
  <2>1. offset + 1 \in Int /\ end \in Int /\ \A i \in (offset + 1)..end : ids[i] \in M
    <3>1. ASSUME NEW i \in (offset + 1)..end
          PROVE  i \in 1..size
      BY <2>0
    <3> QED BY <1>4, <2>0, <3>1
  <2>2. page = SubSeq(ids, offset + 1, end)
    BY DEF Slice, end
  <2> HIDE DEF page
  <2>3. /\ page \in Seq(M)
        /\ Len(page) = IF offset + 1 <= end THEN end - (offset + 1) + 1 ELSE 0
        /\ \A i \in 1..(end - (offset + 1) + 1) : page[i] = ids[(offset + 1) + i - 1]
    BY <2>1, <2>2, SubSeqProperties
  <2>4. \A i \in 1..length : /\ i \in 1..(end - (offset + 1) + 1)
                             /\ (offset + 1) + i - 1 = offset + i
    BY <1>3
  <2>5. Len(page) = length
    BY <1>3, <2>3
  <2> HIDE DEF length
  <2>6. QED
    BY <2>3, <2>4, <2>5
<1> HIDE DEF page, length
<1>6. DOMAIN page = 1..length
  BY <1>5
<1>7. page \in Seq(M) /\ Len(page) = length /\ DOMAIN page = 1..length
  BY <1>5, <1>6
<1>8. length <= limit
  BY <1>2, <1>3 DEF length
<1>9. ASSUME NEW i \in 1..length, NEW j \in 1..length, i # j PROVE page[i] # page[j]
  <2>1. offset + i # offset + j /\ offset + i \in 1..size /\ offset + j \in 1..size
    BY <1>3, <1>9
  <2>2. page[i] = ids[offset + i] /\ page[j] = ids[offset + j]
    BY <1>5
  <2>3. QED
    BY <1>1, <2>1, <2>2
<1>10. ASSUME NEW x \in Range(page)
       PROVE  x \in Top(M, s, offset + limit) \ Top(M, s, offset)
  <2>1. PICK i \in 1..length : x = ids[offset + i]
    BY <1>5, <1>7 DEF Range
  <2>2. /\ offset + i \in 1..size /\ offset + i <= offset + limit /\ ~(offset + i <= offset)
        /\ offset + limit \in Nat
    BY <1>3
  <2>3. QED
    BY <1>1, <2>1, <2>2
<1>11. ASSUME NEW x \in Top(M, s, offset + limit), x \notin Top(M, s, offset)
       PROVE  x \in Range(page)
  <2>1. x \in M
    BY DEF Top
  <2>2. PICK i \in 1..size : x = ids[i]
    BY <1>1, <2>1
  <2>3. i <= offset + limit /\ ~(i <= offset)
    BY <1>1, <1>11, <2>2
  <2>4. i - offset \in 1..length /\ offset + (i - offset) = i
    BY <1>3, <2>3
  <2>5. page[i - offset] = x
    BY <1>5, <2>2, <2>4
  <2>6. QED
    BY <1>7, <2>4, <2>5 DEF Range
<1>12. QED
  BY <1>7, <1>8, <1>9, <1>10, <1>11 DEF page

-----------------------------------------------------------------------------
(* The inductive invariant of the client's loop over the pages.            *)

Scores(table) == [id \in DOMAIN table |-> table[id].score]

Wanted(table, filter) == {id \in DOMAIN table : Matches(table[id], filter)}

\* The rows before an offset, as the list is now.
FirstRows(n) == Top(Wanted(rows, reader.filter), Scores(rows), n)

\* How far the client would have to read to see all it was told of.
Reach == IF reader.offset >= reader.total THEN reader.offset ELSE reader.total

\* Rows that the client has not got and will not get, unless the list moves:
\* those that slipped before the offset, and those beyond what it was told of.
Missing ==
    {id \in reader.stable :
        /\ id \notin Range(reader.items)
        /\ \/ id \in FirstRows(reader.offset)
           \/ reader.next = <<"rows">> /\ id \notin FirstRows(Reach)}

\* Rows that it has got twice, or will get again.
Again ==
    Repeated \cup {id \in reader.stable :
                      id \in Range(reader.items) /\ id \notin FirstRows(reader.offset)}

ListTyped ==
    /\ reader = [kind |-> reader.kind, filter |-> reader.filter, next |-> reader.next,
                 counted |-> reader.counted, total |-> reader.total,
                 offset |-> reader.offset, items |-> reader.items,
                 drift |-> reader.drift, tied |-> reader.tied, stable |-> reader.stable]
    /\ reader.next \in {<<>>, <<"rows">>, <<"count", "rows">>}
    /\ reader.total \in Nat /\ reader.offset \in Nat /\ reader.drift \in Nat
    /\ reader.stable \subseteq Id /\ reader.tied \in BOOLEAN

ListReading ==
    /\ reader.stable \subseteq Wanted(rows, reader.filter)
    /\ ~reader.tied => /\ ~Tied(rows, reader.filter)
                       /\ reader.items \in Seq(Id) /\ Len(reader.items) <= reader.offset
                       /\ Cardinality(Missing) <= reader.drift
                       /\ Cardinality(Again) <= reader.drift

ListInv ==
    reader.kind = "list" =>
        /\ ListTyped
        /\ reader.next # <<>> => ListReading
        /\ ListingDriftOnly

\* A list without equal keys is ordered.
LEMMA UntiedList ==
    ASSUME NEW table, DOMAIN table \subseteq Id, table \in [DOMAIN table -> Row],
           NEW filter, ~Tied(table, filter)
    PROVE  Untied(Wanted(table, filter), Scores(table))
<1>1. IsFiniteSet(Wanted(table, filter))
  BY PartFinite DEF Wanted
<1>2. \A id \in DOMAIN table : Scores(table)[id] = table[id].score /\ table[id].score \in Nat
  BY DEF Scores, Row, Quality
<1>3. QED
  BY <1>1, <1>2 DEF Untied, Wanted, Tied

\* What the client could see of a row is what places it in the list.
LEMMA SeenPlaces ==
    ASSUME reader.kind = "list", NEW one, NEW two, NEW id, Seen(one, id) = Seen(two, id)
    PROVE  /\ id \in Wanted(one, reader.filter) <=> id \in Wanted(two, reader.filter)
           /\ id \in Wanted(one, reader.filter) => Scores(one)[id] = Scores(two)[id]
<1>1. ASSUME NEW table
      PROVE  /\ id \in Wanted(table, reader.filter) => Seen(table, id) = <<Scores(table)[id]>>
             /\ id \notin Wanted(table, reader.filter) => Seen(table, id) = <<>>
  BY DEF Seen, Wanted, Scores
<1>2. \A a, b : <<a>> # <<>> /\ (<<a>> = <<b>> => a = b)
  OBVIOUS
<1>3. QED
  BY <1>1, <1>2

\* Only so many rows that stay as they are get out of step with the pages as
\* others enter, leave or move.
LEMMA ListNotice ==
    ASSUME WalkTypeOK, WalkTypeOK', ListInv, Notice(rows')
    PROVE  ListInv'
<1> SUFFICES ASSUME reader'.kind = "list" PROVE ListInv'
  BY DEF ListInv
<1> DEFINE changed == {id \in Id : Seen(rows, id) # Seen(rows', id)}
<1>1. CASE reader.kind = "none" \/ reader.next = <<>>
  <2>1. reader' = reader
    BY <1>1 DEF Notice
  <2>2. reader.kind = "list" /\ reader.next = <<>>
    BY <1>1, <2>1
  <2>3. ListTyped /\ ListingDriftOnly
    BY <2>2 DEF ListInv
  <2>4. ListTyped' /\ ListingDriftOnly'
    BY <2>1, <2>3 DEF ListTyped, ListingDriftOnly, Lost, Repeated
  <2>5. QED
    BY <2>1, <2>2, <2>4 DEF ListInv
<1>2. CASE ~(reader.kind = "none" \/ reader.next = <<>>)
  <2>1. reader' = [reader EXCEPT
                      !.drift = @ + Cardinality(changed),
                      !.tied = @ \/ (reader.kind = "list" /\ Tied(rows', reader.filter)),
                      !.stable = @ \ changed]
    BY <1>2 DEF Notice
  <2>2. changed \subseteq Id
    OBVIOUS
  <2>3. \A id \in Id \ changed : Seen(rows, id) = Seen(rows', id)
    OBVIOUS
  <2> HIDE DEF changed
  <2>4. reader.kind = "list"
    BY <2>1
  <2>5. ListTyped /\ ListReading
    BY <1>2, <2>4 DEF ListInv
  <2>6. reader' = [kind |-> reader.kind, filter |-> reader.filter, next |-> reader.next,
                   counted |-> reader.counted, total |-> reader.total,
                   offset |-> reader.offset, items |-> reader.items,
                   drift |-> reader.drift + Cardinality(changed),
                   tied |-> reader.tied \/ (reader.kind = "list" /\ Tied(rows', reader.filter)),
                   stable |-> reader.stable \ changed]
    BY <2>1, <2>5 DEF ListTyped
  <2>7. /\ reader'.filter = reader.filter /\ reader'.next = reader.next
        /\ reader'.total = reader.total /\ reader'.offset = reader.offset
        /\ reader'.items = reader.items
        /\ reader'.drift = reader.drift + Cardinality(changed)
        /\ reader'.tied = (reader.tied \/ Tied(rows', reader.filter))
        /\ reader'.stable = reader.stable \ changed
    BY <2>4, <2>6
  <2>8. IsFiniteSet(changed) /\ Cardinality(changed) \in Nat
    BY <2>2, IdFinite, FS_Subset, FS_CardinalityType
  <2>9. ListTyped'
    <3>1. reader' = [kind |-> reader'.kind, filter |-> reader'.filter, next |-> reader'.next,
                     counted |-> reader'.counted, total |-> reader'.total,
                     offset |-> reader'.offset, items |-> reader'.items,
                     drift |-> reader'.drift, tied |-> reader'.tied,
                     stable |-> reader'.stable]
      BY <2>6
    <3>2. reader'.tied \in BOOLEAN
      BY <2>5, <2>7 DEF ListTyped, Tied
    <3>3. reader'.stable \subseteq Id /\ reader'.drift \in Nat
      BY <2>5, <2>7, <2>8 DEF ListTyped
    <3>4. QED
      BY <2>5, <2>7, <3>1, <3>2, <3>3 DEF ListTyped
  <2>10. DOMAIN rows \subseteq Id /\ DOMAIN rows' \subseteq Id
    BY DEF WalkTypeOK
  <2> DEFINE M == Wanted(rows, reader.filter)
             N == Wanted(rows', reader.filter)
             s == Scores(rows)
             t == Scores(rows')
  <2>11. \A id : id \notin changed => /\ id \in M <=> id \in N
                                      /\ id \in M => s[id] = t[id]
    <3> SUFFICES ASSUME NEW id, id \notin changed
                 PROVE  /\ id \in M <=> id \in N
                        /\ id \in M => s[id] = t[id]
      OBVIOUS
    <3>1. CASE id \in Id
      BY <2>3, <2>4, <3>1, SeenPlaces
    <3>2. CASE id \notin Id
      BY <2>10, <3>2 DEF Wanted
    <3>3. QED
      BY <3>1, <3>2
  <2>12. reader'.stable \subseteq Wanted(rows', reader'.filter)
    BY <2>5, <2>7, <2>11 DEF ListReading
  <2>13. ASSUME ~reader'.tied
         PROVE  /\ ~Tied(rows', reader'.filter)
                /\ Cardinality(Missing') <= reader'.drift
                /\ Cardinality(Again') <= reader'.drift
    <3>1. /\ ~reader.tied /\ ~Tied(rows', reader.filter) /\ ~Tied(rows, reader.filter)
          /\ Cardinality(Missing) <= reader.drift /\ Cardinality(Again) <= reader.drift
      BY <2>5, <2>7, <2>13 DEF ListReading
    <3>2. Untied(M, s) /\ Untied(N, t)
      BY <3>1, UntiedList DEF WalkTypeOK
    <3>3. IsFiniteSet(Missing) /\ IsFiniteSet(Again)
      <4>1. Missing \in SUBSET Id /\ Again \in SUBSET Id
        BY <2>5 DEF Missing, Again, Repeated, ListTyped
      <4>2. QED
        BY <4>1, IdFinite, FS_Subset
    <3> DEFINE o == reader.offset
               r == Reach
    <3>4. o \in Nat /\ r \in Nat /\ o <= r /\ 0 \in Nat /\ 0 <= o
      BY <2>5 DEF ListTyped, Reach
    <3>5. ASSUME NEW S, NEW T, NEW U, IsFiniteSet(S), IsFiniteSet(T), IsFiniteSet(U),
                 NEW R, R \subseteq (S \cup T) \cup U,
                 Cardinality(S) <= reader.drift,
                 Cardinality(T) + Cardinality(U) <= Cardinality(changed)
          PROVE  Cardinality(R) <= reader.drift + Cardinality(changed)
      <4>1. /\ IsFiniteSet(S \cup T)
            /\ Cardinality(S \cup T)
                  = Cardinality(S) + Cardinality(T) - Cardinality(S \cap T)
        BY <3>5, FS_Union
      <4>2. /\ IsFiniteSet((S \cup T) \cup U)
            /\ Cardinality((S \cup T) \cup U)
                  = Cardinality(S \cup T) + Cardinality(U) - Cardinality((S \cup T) \cap U)
        BY <3>5, <4>1, FS_Union
      <4>3. IsFiniteSet(S \cap T) /\ IsFiniteSet((S \cup T) \cap U)
        BY <3>5, <4>1, FS_Intersection
      <4>4. R \in SUBSET ((S \cup T) \cup U)
        BY <3>5
      <4>5. IsFiniteSet(R) /\ Cardinality(R) <= Cardinality((S \cup T) \cup U)
        BY <4>2, <4>4, FS_Subset
      <4>6. /\ Cardinality(S) \in Nat /\ Cardinality(T) \in Nat /\ Cardinality(U) \in Nat
            /\ Cardinality(S \cup T) \in Nat /\ Cardinality((S \cup T) \cup U) \in Nat
            /\ Cardinality(S \cap T) \in Nat /\ Cardinality((S \cup T) \cap U) \in Nat
            /\ Cardinality(R) \in Nat
        BY <3>5, <4>1, <4>2, <4>3, <4>5, FS_CardinalityType
      <4>7. reader.drift \in Nat
        BY <2>5 DEF ListTyped
      <4>8. QED
        BY <2>8, <3>5, <4>1, <4>2, <4>5, <4>6, <4>7
    <3>6. Reach' = Reach
      BY <2>7 DEF Reach
    <3>7. \A n : FirstRows(n) = Top(M, s, n)
      BY DEF FirstRows
    <3>8. \A n : FirstRows(n)' = Top(N, t, n)
      BY <2>7 DEF FirstRows
    <3>9. Cardinality(Missing') <= reader'.drift
      <4> DEFINE T == (Top(N, t, o) \ Top(M, s, o)) \ changed
                 U == (Top(M, s, r) \ Top(N, t, r)) \ changed
      <4>1. /\ IsFiniteSet(T) /\ IsFiniteSet(U)
            /\ Cardinality(T) + Cardinality(U) <= Cardinality(changed)
        BY <2>8, <2>11, <3>2, <3>4, TopsDrift
      <4>2. Missing' \subseteq (Missing \cup T) \cup U
        BY <2>7, <3>6, <3>7, <3>8 DEF Missing, FirstRows
      <4> HIDE DEF T, U
      <4>3. QED
        BY <2>7, <3>1, <3>3, <3>5, <4>1, <4>2
    <3>10. Cardinality(Again') <= reader'.drift
      <4> DEFINE T == (Top(N, t, 0) \ Top(M, s, 0)) \ changed
                 U == (Top(M, s, o) \ Top(N, t, o)) \ changed
      <4>1. /\ IsFiniteSet(T) /\ IsFiniteSet(U)
            /\ Cardinality(T) + Cardinality(U) <= Cardinality(changed)
        BY <2>8, <2>11, <3>2, <3>4, TopsDrift
      <4>2. Repeated' \subseteq Repeated
        BY <2>7 DEF Repeated
      <4>3. Again' \subseteq (Again \cup T) \cup U
        BY <2>7, <3>7, <4>2 DEF Again, FirstRows
      <4> HIDE DEF T, U
      <4>4. QED
        BY <2>7, <3>1, <3>3, <3>5, <4>1, <4>3
    <3>11. QED
      BY <2>7, <3>1, <3>9, <3>10
  <2>14. ListReading'
    BY <2>5, <2>7, <2>12, <2>13 DEF ListReading
  <2>15. ListingDriftOnly'
    BY <1>2, <2>7 DEF ListingDriftOnly
  <2>16. QED
    BY <2>9, <2>14, <2>15 DEF ListInv
<1>3. QED
  BY <1>1, <1>2

\* fetch_all_proxies begins with nothing read.
LEMMA BeginListStep ==
    ASSUME WalkTypeOK, NEW filter, BeginList(filter)
    PROVE  ListInv'
<1>1. /\ reader' = [Reading("list", filter) EXCEPT
                       !.next = <<"count", "rows">>,
                       !.tied = Tied(rows, filter),
                       !.stable = Matching(filter)]
      /\ rows' = rows
  BY DEF BeginList
<1>2. reader' = [kind |-> "list", filter |-> filter, next |-> <<"count", "rows">>,
                 counted |-> 0, total |-> 0, offset |-> 0, items |-> <<>>,
                 drift |-> 0, tied |-> Tied(rows, filter), stable |-> Matching(filter)]
  BY <1>1 DEF Reading
<1>3. /\ reader'.kind = "list" /\ reader'.filter = filter /\ reader'.next = <<"count", "rows">>
      /\ reader'.total = 0 /\ reader'.offset = 0 /\ reader'.items = <<>> /\ reader'.drift = 0
      /\ reader'.tied = Tied(rows, filter) /\ reader'.stable = Matching(filter)
  BY <1>2
<1>4. Matching(filter) = Wanted(rows, filter) /\ Wanted(rows, filter) \subseteq Id
  BY DEF Matching, Wanted, WalkTypeOK
<1>5. Tied(rows, filter) \in BOOLEAN
  BY DEF Tied
<1>6. ListTyped'
  <2>1. reader' = [kind |-> reader'.kind, filter |-> reader'.filter, next |-> reader'.next,
                   counted |-> reader'.counted, total |-> reader'.total,
                   offset |-> reader'.offset, items |-> reader'.items,
                   drift |-> reader'.drift, tied |-> reader'.tied, stable |-> reader'.stable]
    BY <1>2
  <2>2. QED
    BY <1>3, <1>4, <1>5, <2>1 DEF ListTyped
<1>7. ASSUME ~reader'.tied
      PROVE  Missing' = {} /\ Again' = {}
  <2>1. Untied(Wanted(rows, filter), Scores(rows))
    BY <1>3, <1>7, UntiedList DEF WalkTypeOK
  <2>2. Top(Wanted(rows, filter), Scores(rows), 0) = {}
    <3>1. \A x \in Wanted(rows, filter) :
             ~(Cardinality(Above(Wanted(rows, filter), Scores(rows), x)) < 0)
      BY <2>1, AboveTyped
    <3>2. QED
      BY <3>1 DEF Top
  <2>3. Range(<<>>) = {} /\ DOMAIN <<>> = {}
    BY DEF Range
  <2>4. Missing' = {}
    BY <1>1, <1>3, <2>2 DEF Missing, FirstRows
  <2>5. Again' = {}
    BY <1>3, <2>3 DEF Again, Repeated
  <2>6. QED
    BY <2>4, <2>5
<1>8. ListReading'
  <2>1. <<>> \in Seq(Id) /\ Len(<<>>) = 0
    OBVIOUS
  <2>2. Cardinality({}) = 0
    BY FS_EmptySet
  <2>3. ~reader'.tied => /\ ~Tied(rows, filter)
                         /\ Cardinality(Missing') = 0 /\ Cardinality(Again') = 0
    BY <1>3, <1>7, <2>2
  <2>4. Tied(rows', reader'.filter) = Tied(rows, filter)
    BY <1>1, <1>3
  <2>5. reader'.stable \subseteq Wanted(rows', reader'.filter)
    BY <1>1, <1>3, <1>4
  <2>6. QED
    BY <1>3, <2>1, <2>3, <2>4, <2>5 DEF ListReading
<1>9. ListingDriftOnly'
  <2>1. Len(<<"count", "rows">>) = 2 /\ Len(<<>>) = 0
    OBVIOUS
  <2>2. reader'.next # <<>>
    BY <1>3, <2>1
  <2>3. QED
    BY <2>2 DEF ListingDriftOnly
<1>10. QED
  BY <1>6, <1>8, <1>9 DEF ListInv

\* A count tells the client of every row there is.
LEMMA CountMatchingStep ==
    ASSUME WalkTypeOK, ListInv, CountMatching
    PROVE  ListInv'
<1>1. /\ reader.kind = "list" /\ reader.next # <<>> /\ Head(reader.next) = "count"
      /\ reader' = [reader EXCEPT !.next = Tail(@),
                                  !.total = Cardinality(Matching(reader.filter))]
      /\ rows' = rows
  BY DEF CountMatching
<1>2. ListTyped /\ ListReading
  BY <1>1 DEF ListInv
<1>3. reader.next = <<"count", "rows">>
  <2>1. Head(<<"rows">>) = "rows"
    OBVIOUS
  <2>2. QED
    BY <1>1, <1>2, <2>1 DEF ListTyped
<1>4. Tail(reader.next) = <<"rows">>
  BY <1>3
<1> DEFINE M == Wanted(rows, reader.filter)
           s == Scores(rows)
           size == Cardinality(M)
<1>5. Matching(reader.filter) = M /\ IsFiniteSet(M) /\ size \in Nat
  <2>1. Matching(reader.filter) = M /\ M \subseteq DOMAIN rows
    BY DEF Matching, Wanted
  <2>2. QED
    BY <2>1, PartFinite DEF WalkTypeOK
<1> HIDE DEF size
<1>6. reader' = [kind |-> reader.kind, filter |-> reader.filter, next |-> <<"rows">>,
                 counted |-> reader.counted, total |-> size,
                 offset |-> reader.offset, items |-> reader.items,
                 drift |-> reader.drift, tied |-> reader.tied, stable |-> reader.stable]
  BY <1>1, <1>2, <1>4, <1>5 DEF ListTyped, size
<1>7. /\ reader'.kind = "list" /\ reader'.filter = reader.filter /\ reader'.next = <<"rows">>
      /\ reader'.total = size /\ reader'.offset = reader.offset /\ reader'.items = reader.items
      /\ reader'.drift = reader.drift /\ reader'.tied = reader.tied
      /\ reader'.stable = reader.stable
  <2>1. reader.kind = "list"
    BY <1>1
  <2>2. QED
    BY <1>6, <2>1
<1>8. ListTyped'
  <2>1. reader' = [kind |-> reader'.kind, filter |-> reader'.filter, next |-> reader'.next,
                   counted |-> reader'.counted, total |-> reader'.total,
                   offset |-> reader'.offset, items |-> reader'.items,
                   drift |-> reader'.drift, tied |-> reader'.tied, stable |-> reader'.stable]
    BY <1>6
  <2>2. QED
    BY <1>2, <1>5, <1>7, <2>1 DEF ListTyped
<1>9. \A n : FirstRows(n) = Top(M, s, n) /\ FirstRows(n)' = Top(M, s, n)
  BY <1>1, <1>7 DEF FirstRows
<1>10. ASSUME ~reader.tied PROVE Missing' \subseteq Missing /\ Again' = Again
  <2>1. Untied(M, s)
    BY <1>2, <1>10, UntiedList DEF WalkTypeOK, ListReading
  <2>2. Reach' \in Nat /\ Reach' >= size
    BY <1>2, <1>5, <1>7 DEF Reach, ListTyped
  <2>3. Top(M, s, Reach') = M
    <3> DEFINE T == Top(M, s, Reach')
    <3>1. /\ IsFiniteSet(T) /\ Cardinality(T) \in Nat
          /\ T # M => Cardinality(T) = Reach'
      BY <2>1, <2>2, TopSize
    <3>2. T \in SUBSET M
      BY DEF Top
    <3>3. Cardinality(T) <= Cardinality(M) /\ (Cardinality(M) = Cardinality(T) => M = T)
      BY <1>5, <3>2, FS_Subset
    <3> HIDE DEF T
    <3>4. QED
      BY <1>5, <2>2, <3>1, <3>3 DEF size, T
  <2>4. reader.stable \subseteq M
    BY <1>2 DEF ListReading
  <2>5. Missing' \subseteq Missing
    <3> SUFFICES ASSUME NEW id \in Missing' PROVE id \in Missing
      OBVIOUS
    <3>1. /\ id \in reader.stable /\ id \notin Range(reader.items)
          /\ id \in FirstRows(reader.offset)' \/ id \notin FirstRows(Reach)'
      BY <1>7 DEF Missing, FirstRows
    <3>2. FirstRows(Reach)' = Top(M, s, Reach')
      BY <1>1, <1>7 DEF FirstRows
    <3>3. FirstRows(reader.offset)' = Top(M, s, reader.offset)
      BY <1>1, <1>7 DEF FirstRows
    <3>4. id \in FirstRows(reader.offset)
      BY <1>9, <2>3, <2>4, <3>1, <3>2, <3>3
    <3>5. QED
      BY <3>1, <3>4 DEF Missing
  <2>6. Again' = Again
    BY <1>1, <1>7 DEF Again, Repeated, FirstRows
  <2>7. QED
    BY <2>5, <2>6
<1>11. ListReading'
  <2>1. ASSUME ~reader.tied
        PROVE  Cardinality(Missing') <= reader.drift /\ Cardinality(Again') <= reader.drift
    <3>1. Cardinality(Missing) <= reader.drift /\ Cardinality(Again) <= reader.drift
      BY <1>2, <2>1 DEF ListReading
    <3>2. Missing' \in SUBSET Missing /\ Again' = Again
      BY <1>10, <2>1
    <3>3. Missing \in SUBSET Id
      BY <1>2 DEF Missing, ListTyped
    <3>4. IsFiniteSet(Missing)
      BY <3>3, IdFinite, FS_Subset
    <3>5. IsFiniteSet(Missing') /\ Cardinality(Missing') <= Cardinality(Missing)
      BY <3>2, <3>4, FS_Subset
    <3>6. Cardinality(Missing') \in Nat /\ Cardinality(Missing) \in Nat /\ reader.drift \in Nat
      BY <1>2, <3>4, <3>5, FS_CardinalityType DEF ListTyped
    <3>7. QED
      BY <3>1, <3>2, <3>5, <3>6
  <2>2. QED
    BY <1>1, <1>2, <1>7, <2>1 DEF ListReading
<1>12. ListingDriftOnly'
  <2>1. Len(<<"rows">>) = 1 /\ Len(<<>>) = 0
    OBVIOUS
  <2>2. reader'.next # <<>>
    BY <1>7, <2>1
  <2>3. QED
    BY <2>2 DEF ListingDriftOnly
<1>13. QED
  BY <1>8, <1>11, <1>12 DEF ListInv

\* A page brings what is between two offsets: nothing more is missing, and
\* nothing comes twice that was not bound to.
LEMMA ReadPageStep ==
    ASSUME WalkTypeOK, ListInv, ReadPage
    PROVE  ListInv'
<1> DEFINE M == Wanted(rows, reader.filter)
           s == Scores(rows)
<1>1. PICK ids \in Ordered(reader.filter) :
         LET page == Slice(ids, reader.offset, PageSize)
             items == reader.items \o page
         IN  reader' = IF ListEnds(page, items)
                       THEN [reader EXCEPT !.next = <<>>, !.items = items]
                       ELSE [reader EXCEPT !.next = <<"count", "rows">>, !.items = items,
                                           !.offset = NextOffset(@)]
  BY DEF ReadPage
<1> DEFINE page == Slice(ids, reader.offset, PageSize)
           items == reader.items \o page
           ends == ListEnds(page, items)
<1>2. /\ reader' = IF ends THEN [reader EXCEPT !.next = <<>>, !.items = items]
                   ELSE [reader EXCEPT !.next = <<"count", "rows">>, !.items = items,
                                       !.offset = NextOffset(@)]
      /\ rows' = rows
      /\ reader.kind = "list" /\ reader.next # <<>> /\ Head(reader.next) = "rows"
  BY <1>1 DEF ReadPage
<1>3. ListTyped /\ ListReading
  BY <1>2 DEF ListInv
<1>4. reader.next = <<"rows">>
  <2>1. Head(<<"count", "rows">>) = "count"
    OBVIOUS
  <2>2. QED
    BY <1>2, <1>3, <2>1 DEF ListTyped
<1>5. reader.offset \in Nat /\ PageSize \in Nat /\ PageSize > 0
      /\ reader.offset + PageSize \in Nat
  BY <1>3, ViewsAssumption DEF ListTyped
<1>6. ends <=> page = <<>> \/ Len(items) >= reader.total
  BY DEF ListEnds
<1> HIDE DEF page, ends
<1>7. reader' = [kind |-> reader.kind, filter |-> reader.filter,
                 next |-> IF ends THEN <<>> ELSE <<"count", "rows">>,
                 counted |-> reader.counted, total |-> reader.total,
                 offset |-> IF ends THEN reader.offset ELSE reader.offset + PageSize,
                 items |-> items,
                 drift |-> reader.drift, tied |-> reader.tied, stable |-> reader.stable]
  <2> HIDE DEF items
  <2>1. QED
    BY <1>2, <1>3 DEF ListTyped, NextOffset
<1> HIDE DEF items
<1>8. /\ reader'.kind = "list" /\ reader'.filter = reader.filter
      /\ reader'.next = (IF ends THEN <<>> ELSE <<"count", "rows">>)
      /\ reader'.total = reader.total
      /\ reader'.offset = (IF ends THEN reader.offset ELSE reader.offset + PageSize)
      /\ reader'.items = items
      /\ reader'.drift = reader.drift /\ reader'.tied = reader.tied
      /\ reader'.stable = reader.stable
  <2>1. reader.kind = "list"
    BY <1>2
  <2>2. QED
    BY <1>7, <2>1
<1>9. ListTyped'
  <2>1. reader' = [kind |-> reader'.kind, filter |-> reader'.filter, next |-> reader'.next,
                   counted |-> reader'.counted, total |-> reader'.total,
                   offset |-> reader'.offset, items |-> reader'.items,
                   drift |-> reader'.drift, tied |-> reader'.tied, stable |-> reader'.stable]
    BY <1>7
  <2>2. QED
    BY <1>3, <1>5, <1>8, <2>1 DEF ListTyped
<1>10. <<"count", "rows">> # <<>> /\ <<"count", "rows">> # <<"rows">>
  <2>1. Len(<<"count", "rows">>) = 2 /\ Len(<<>>) = 0 /\ Len(<<"rows">>) = 1
    OBVIOUS
  <2>2. QED
    BY <2>1
<1>11. CASE reader.tied
  BY <1>2, <1>3, <1>8, <1>9, <1>11 DEF ListInv, ListReading, ListingDriftOnly
<1>12. CASE ~reader.tied
  <2> DEFINE here == Top(M, s, reader.offset)
             there == Top(M, s, reader.offset + PageSize)
  <2>1. /\ ~Tied(rows, reader.filter) /\ reader.items \in Seq(Id)
        /\ Len(reader.items) <= reader.offset
        /\ Cardinality(Missing) <= reader.drift /\ Cardinality(Again) <= reader.drift
        /\ reader.stable \subseteq M
    BY <1>3, <1>12 DEF ListReading
  <2>2. Untied(M, s)
    BY <2>1, UntiedList DEF WalkTypeOK
  <2>3. /\ page \in Seq(M) /\ Len(page) <= PageSize
        /\ \A i, j \in DOMAIN page : i # j => page[i] # page[j]
        /\ Range(page) = there \ here
    <3>1. Matching(reader.filter) = M
      BY DEF Matching, Wanted
    <3>2. ids \in SetToSeqs(M)
      BY <3>1 DEF Ordered
    <3>3. \A i \in DOMAIN ids : ids[i] \in DOMAIN rows
      BY <3>2 DEF SetToSeqs, Wanted
    <3>4. \A i, j \in DOMAIN ids : i < j => s[ids[i]] >= s[ids[j]]
      BY <3>3 DEF Ordered, Scores
    <3> HIDE DEF M, s
    <3>5. QED
      BY <1>5, <2>2, <3>2, <3>4, PageBetween DEF page
  <2>4. page \in Seq(Id)
    <3>1. M \subseteq Id
      BY DEF Wanted, WalkTypeOK
    <3>2. \A i \in 1..Len(page) : page[i] \in Id
      BY <2>3, <3>1
    <3>3. QED
      BY <2>3, <3>2
  <2>5. /\ items \in Seq(Id) /\ Len(items) = Len(reader.items) + Len(page)
        /\ Range(items) = Range(reader.items) \cup Range(page)
        /\ \A x : Twice(items, x) =>
                    Twice(reader.items, x) \/ (x \in Range(reader.items) /\ x \in Range(page))
    <3>1. items = reader.items \o page
      BY DEF items
    <3>2. reader.items \in Seq(Id)
      BY <2>1
    <3>3. \A x : ~Twice(page, x)
      BY <2>3 DEF Twice
    <3>4. QED
      BY <2>4, <3>1, <3>2, <3>3, JoinedLists
  <2>6. here = FirstRows(reader.offset) /\ here \subseteq there
    <3>1. reader.offset <= reader.offset + PageSize
      BY <1>5
    <3>2. here \subseteq there
      BY <1>5, <2>2, <3>1, TopClosed
    <3>3. QED
      BY <3>2 DEF FirstRows
  <2> HIDE DEF here, there
  <2>7. Repeated' \subseteq Again
    <3> SUFFICES ASSUME NEW id \in Repeated' PROVE id \in Again
      OBVIOUS
    <3>1. id \in reader.stable /\ Twice(items, id)
      BY <1>8 DEF Repeated, Twice
    <3>2. CASE id \in Range(reader.items) /\ id \in Range(page)
      <4>1. id \notin FirstRows(reader.offset)
        BY <2>3, <2>6, <3>2
      <4>2. QED
        BY <3>1, <3>2, <4>1 DEF Again
    <3>3. CASE Twice(reader.items, id)
      BY <3>1, <3>3 DEF Again, Repeated, Twice
    <3>4. QED
      BY <2>5, <3>1, <3>2, <3>3
  <2>8. ASSUME NEW R, R \subseteq Missing \/ R \subseteq Again
        PROVE  Cardinality(R) <= reader.drift
    <3>1. Missing \in SUBSET Id /\ Again \in SUBSET Id
      BY <1>3 DEF Missing, Again, Repeated, ListTyped
    <3>2. IsFiniteSet(Missing) /\ IsFiniteSet(Again)
      BY <3>1, IdFinite, FS_Subset
    <3>3. ASSUME NEW T, IsFiniteSet(T), Cardinality(T) <= reader.drift, R \subseteq T
          PROVE  Cardinality(R) <= reader.drift
      <4>1. R \in SUBSET T
        BY <3>3
      <4>2. IsFiniteSet(R) /\ Cardinality(R) <= Cardinality(T)
        BY <3>3, <4>1, FS_Subset
      <4>3. Cardinality(R) \in Nat /\ Cardinality(T) \in Nat /\ reader.drift \in Nat
        BY <1>3, <3>3, <4>2, FS_CardinalityType DEF ListTyped
      <4>4. QED
        BY <3>3, <4>2, <4>3
    <3>4. QED
      BY <2>1, <2>8, <3>2, <3>3
  <2>9. CASE ~ends
    <3>1. FirstRows(reader.offset)' = there
      BY <1>2, <1>8, <2>9 DEF FirstRows, there
    <3>2. reader'.next = <<"count", "rows">>
      BY <1>8, <2>9
    <3>3. Missing' \subseteq Missing
      <4> SUFFICES ASSUME NEW id \in Missing' PROVE id \in Missing
        OBVIOUS
      <4>1. id \in reader.stable /\ id \notin Range(items) /\ id \in there
        BY <1>8, <1>10, <3>1, <3>2 DEF Missing
      <4>2. id \in here /\ id \notin Range(reader.items)
        BY <2>3, <2>5, <4>1
      <4>3. QED
        BY <2>6, <4>1, <4>2 DEF Missing
    <3>4. Again' \subseteq Again
      <4> SUFFICES ASSUME NEW id \in Again', id \notin Repeated' PROVE id \in Again
        BY <2>7
      <4>1. id \in reader.stable /\ id \in Range(items) /\ id \notin there
        BY <1>8, <3>1 DEF Again
      <4>2. id \in Range(reader.items) /\ id \notin here
        BY <2>3, <2>5, <2>6, <4>1
      <4>3. QED
        BY <2>6, <4>1, <4>2 DEF Again
    <3>5. Cardinality(Missing') <= reader.drift /\ Cardinality(Again') <= reader.drift
      BY <2>8, <3>3, <3>4
    <3>6. Len(items) <= reader.offset + PageSize
      BY <1>5, <2>1, <2>3, <2>5
    <3>7. reader'.offset = reader.offset + PageSize
      BY <1>8, <2>9
    <3>8. ListReading'
      BY <1>2, <1>3, <1>8, <2>1, <2>5, <3>5, <3>6, <3>7 DEF ListReading
    <3>9. ListingDriftOnly'
      BY <1>10, <3>2 DEF ListingDriftOnly
    <3>10. QED
      BY <1>9, <3>8, <3>9 DEF ListInv
  <2>10. CASE ends
    <3>1. reader'.next = <<>>
      BY <1>8, <2>10
    <3>2. Lost' \subseteq Missing
      <4> SUFFICES ASSUME NEW id \in Lost', id \notin here PROVE id \in Missing
        <5>1. ASSUME NEW id \in Lost', id \in here PROVE id \in Missing
          <6>1. id \in reader.stable /\ id \notin Range(items)
            BY <1>8 DEF Lost
          <6>2. QED
            BY <2>5, <2>6, <5>1, <6>1 DEF Missing
        <5>2. QED
          BY <5>1
      <4>1. id \in reader.stable /\ id \notin Range(items)
        BY <1>8 DEF Lost
      <4>2. id \in M /\ id \notin Range(reader.items) /\ id \notin there
        BY <2>1, <2>3, <2>5, <4>1
      <4>3. ASSUME page = <<>> PROVE FALSE
        <5>1. Range(page) = {}
          BY <4>3 DEF Range
        <5>2. here = there
          BY <2>3, <2>6, <5>1
        <5>3. /\ Cardinality(here) = reader.offset
              /\ Cardinality(there) = reader.offset + PageSize
          BY <1>5, <2>2, <4>2, TopSize DEF here, there
        <5>4. QED
          BY <1>5, <5>2, <5>3
      <4>4. Len(items) >= reader.total
        BY <1>6, <2>10, <4>3
      <4>5. reader.offset + PageSize >= reader.total
        <5>1. Len(reader.items) \in Nat /\ Len(page) \in Nat /\ reader.total \in Nat
          BY <1>3, <2>1, <2>3 DEF ListTyped
        <5>2. QED
          BY <1>5, <2>1, <2>3, <2>5, <4>4, <5>1
      <4>6. Reach \in Nat /\ Reach <= reader.offset + PageSize
        BY <1>3, <1>5, <4>5 DEF Reach, ListTyped
      <4>7. FirstRows(Reach) \subseteq there
        BY <1>5, <2>2, <4>6, TopClosed DEF FirstRows, there
      <4>8. QED
        BY <1>4, <4>1, <4>2, <4>7 DEF Missing
    <3>3. Cardinality(Lost') <= reader.drift /\ Cardinality(Repeated') <= reader.drift
      BY <2>7, <2>8, <3>2
    <3>4. ListingDriftOnly'
      BY <1>8, <3>3 DEF ListingDriftOnly
    <3>5. QED
      BY <1>9, <3>1, <3>4 DEF ListInv
  <2>11. QED
    BY <2>9, <2>10
<1>13. QED
  BY <1>11, <1>12

LEMMA ListStep ==
    WalkInv /\ WalkInv' /\ ListInv /\ [PoolNext]_viewVars => ListInv'
<1> SUFFICES ASSUME WalkInv, WalkInv', ListInv, [PoolNext]_viewVars PROVE ListInv'
  OBVIOUS
<1>1. WalkTypeOK /\ WalkTypeOK'
  BY DEF WalkInv
<1>2. ASSUME rows' = rows, reader' = reader PROVE ListInv'
  BY <1>2 DEF ListInv, ListTyped, ListReading, ListingDriftOnly, Lost, Repeated, Missing,
              Again, FirstRows, Reach
<1>3. CASE BeginWalk \/ ReadBatch \/ WalkFails \/ UNCHANGED viewVars
  BY <1>2, <1>3 DEF BeginWalk, ReadBatch, WalkFails, viewVars
<1>4. CASE OthersWrite \/ CommitBatch
  BY <1>1, <1>2, <1>4, TableNoticed, ListNotice
<1>5. CASE \E filter \in Filters : BeginList(filter)
  BY <1>1, <1>5, BeginListStep
<1>6. CASE CountMatching
  BY <1>1, <1>6, CountMatchingStep
<1>7. CASE ReadPage
  BY <1>1, <1>7, ReadPageStep
<1>8. CASE \/ \E kind \in {"snapshot", "stats"} : BeginCounts(kind)
           \/ Count \/ ReaderDone \/ ReadFails
  <2>1. reader'.kind # "list"
    <3>1. CASE \E kind \in {"snapshot", "stats"} : BeginCounts(kind)
      <4>1. PICK kind \in {"snapshot", "stats"} : BeginCounts(kind)
        BY <3>1
      <4>2. reader' = [Reading(kind, NoFilter) EXCEPT !.next = Statements(kind)]
        BY <4>1 DEF BeginCounts
      <4>3. reader'.kind = kind
        BY <4>2 DEF Reading
      <4>4. QED
        BY <4>3
    <3>2. CASE Count
      <4>1. reader.kind \in {"snapshot", "stats"} /\ reader'.kind = reader.kind
        BY <3>2 DEF Count
      <4>2. QED
        BY <4>1
    <3>3. CASE ReaderDone \/ ReadFails
      BY <3>3 DEF ReaderDone, ReadFails, NoReader, Reading
    <3>4. QED
      BY <1>8, <3>1, <3>2, <3>3
  <2>2. QED
    BY <2>1 DEF ListInv
<1>9. QED
  BY <1>3, <1>4, <1>5, <1>6, <1>7, <1>8 DEF PoolNext, WalkStep, ReaderStep, Begin

\* For every table, filter, page size and interleaving, a client that reads the
\* list page by page misses, and gets twice, at most as many of the rows that
\* stayed as they were as others entered, left or moved meanwhile
\* (list_proxies, fetch_all_proxies).
THEOREM ListingAlwaysDriftOnly == PoolSpec => []ListingDriftOnly
<1>1. PoolInit => ListInv
  BY DEF PoolInit, NoReader, Reading, ListInv
<1>2. ListInv => ListingDriftOnly
  BY DEF ListInv, ListingDriftOnly
<1>3. QED
  BY <1>1, <1>2, WalkInit, WalkStepInv, ListStep, PTL DEF PoolSpec

=============================================================================
