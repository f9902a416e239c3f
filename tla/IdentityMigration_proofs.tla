---------------------- MODULE IdentityMigration_proofs ----------------------
(***************************************************************************)
(* Proofs about IdentityMigration, for every table the upgrade may find.   *)
(***************************************************************************)
EXTENDS IdentityMigration, FiniteSetTheorems, WellFoundedInduction, TLAPS

-----------------------------------------------------------------------------
(* The inductive invariant.                                                *)

Found == old.proxies

\* The endpoints there are once the hosts are normalized.
Endpoints == {Normal[Found[id].endpoint] : id \in DOMAIN Found}

\* The order of the rows, as they were found.
Better(i, j) ==
    \/ StatusRank[Found[i].status] > StatusRank[Found[j].status]
    \/ /\ Found[i].status = Found[j].status
       /\ \/ Found[i].success > Found[j].success
          \/ Found[i].success = Found[j].success /\ i < j

\* The row of an endpoint that stays.
IsBest(i, ids) == i \in ids /\ \A j \in ids \ {i} : Better(i, j)

Best(e) == CHOOSE i \in Origins(e) : IsBest(i, Origins(e))

\* The rows that the best one stands for by now.
Absorbed(e) == (Origins(e) \ Members(e)) \cup {Best(e)}

Current(e) == group # NoGroup /\ group.endpoint = e

\* A row keeps what the order of a group looks at.
RowKept(id) ==
    /\ id \in DOMAIN Found /\ proxies[id] \in OldRow
    /\ proxies[id].status = Found[id].status /\ proxies[id].success = Found[id].success

Normalizing ==
    /\ group = NoGroup /\ groups = {} /\ links = old.links
    /\ pending \subseteq DOMAIN Found /\ DOMAIN proxies = DOMAIN Found
    /\ \A id \in DOMAIN Found :
          /\ RowKept(id)
          /\ proxies[id].protocol = Found[id].protocol
          /\ proxies[id].endpoint = IF id \in pending THEN Found[id].endpoint
                                    ELSE Normal[Found[id].endpoint]
    /\ proxies \in [DOMAIN Found -> OldRow]
    /\ IdentityKept(proxies)
    /\ \A i \in DOMAIN Found \ pending, j \in pending : i < j
    /\ \A i \in DOMAIN Found \ pending, j \in DOMAIN Found :
          i < j /\ Found[i].protocol = Found[j].protocol
             => Found[j].endpoint # Normal[Found[i].endpoint]

GroupMerging(e) ==
    /\ Best(e) \in Members(e)
    /\ \A id \in Members(e) \ {Best(e)}, s \in Source :
          <<id, s>> \in links <=> <<id, s>> \in old.links
    /\ \A s \in Source :
          <<Best(e), s>> \in links <=> \E id \in Absorbed(e) : <<id, s>> \in old.links
    /\ e \in groups => Members(e) = Origins(e)
    /\ e \in groups \/ Current(e) =>
          \A id \in Members(e) : proxies[id].protocol = Found[id].protocol
    /\ Current(e) =>
          (group.label = "https" <=> \E id \in Absorbed(e) : Found[id].protocol = "https")
    /\ ~(e \in groups \/ Current(e)) =>
          /\ Members(e) = {Best(e)}
          /\ proxies[Best(e)].protocol = "https"
                <=> \E id \in Origins(e) : Found[id].protocol = "https"

Merging ==
    /\ ~Collided
    /\ proxies \in [DOMAIN proxies -> OldRow]
    /\ \A id \in DOMAIN proxies :
          RowKept(id) /\ proxies[id].endpoint = Normal[Found[id].endpoint]
    /\ links \subseteq (DOMAIN Found) \X Source
    /\ groups \subseteq Endpoints
    /\ group # NoGroup =>
          /\ group = [endpoint |-> group.endpoint, label |-> group.label]
          /\ group.endpoint \in Endpoints \ groups /\ group.label \in Label
    /\ \A e \in Endpoints : GroupMerging(e)

MigrationInv ==
    /\ old \in OldTables
    /\ phase \in {"normalize", "merge", "done", "aborted"}
    /\ phase = "normalize" => Normalizing
    /\ phase = "merge" => Merging
    /\ phase # "merge" => group = NoGroup
    /\ UpgradeMerges

-----------------------------------------------------------------------------
(* Facts about the order of a group.                                       *)

LEMMA OldTyped ==
    ASSUME old \in OldTables
    PROVE  /\ IsFiniteSet(DOMAIN Found) /\ DOMAIN Found \subseteq Nat
           /\ Found \in [DOMAIN Found -> OldRow] /\ IdentityKept(Found)
           /\ old.links \subseteq (DOMAIN Found) \X Source
           /\ \A id \in DOMAIN Found : /\ Found[id] \in OldRow
                                       /\ Normal[Found[id].endpoint] \in Endpoint
<1>1. /\ IsFiniteSet(DOMAIN Found) /\ DOMAIN Found \subseteq Nat
      /\ Found \in [DOMAIN Found -> OldRow] /\ IdentityKept(Found)
      /\ old.links \subseteq (DOMAIN Found) \X Source
  BY MigrationAssumption DEF Found
<1>2. \A id \in DOMAIN Found : Found[id] \in OldRow /\ Found[id].endpoint \in Endpoint
  BY <1>1 DEF OldRow
<1>3. Normal \in [Endpoint -> Endpoint]
  BY MigrationAssumption
<1>4. QED
  BY <1>1, <1>2, <1>3

\* Different statuses have different ranks.
LEMMA RankTyped ==
    ASSUME NEW status \in DOMAIN StatusRank
    PROVE  /\ StatusRank[status] \in 1..6
           /\ Ranked[StatusRank[status]] = status
<1>1. DOMAIN Ranked = 1..6
  BY DEF Ranked
<1>2. DOMAIN StatusRank = {Ranked[n] : n \in 1..6}
  BY <1>1 DEF StatusRank
<1>3. \E n \in 1..6 : Ranked[n] = status
  BY <1>2
<1>4. StatusRank[status] = CHOOSE n \in 1..6 : Ranked[n] = status
  BY <1>1, <1>2 DEF StatusRank
<1>5. QED
  BY <1>3, <1>4

\* The order is one, and strict.
LEMMA BetterOrder ==
    ASSUME old \in OldTables, NEW i \in DOMAIN Found, NEW j \in DOMAIN Found
    PROVE  /\ ~(Better(i, j) /\ Better(j, i))
           /\ i # j => Better(i, j) \/ Better(j, i)
           /\ \A k \in DOMAIN Found : Better(i, j) /\ Better(j, k) => Better(i, k)
           /\ Better(i, j) => StatusRank[Found[j].status] <= StatusRank[Found[i].status]
<1> DEFINE rank(k) == StatusRank[Found[k].status]
           success(k) == Found[k].success
<1>1. \A k \in DOMAIN Found : Found[k] \in OldRow /\ k \in Nat
  BY OldTyped
<1>2. \A k \in DOMAIN Found : Found[k].status \in DOMAIN StatusRank /\ success(k) \in Nat
  BY <1>1 DEF OldRow
<1>3. \A k \in DOMAIN Found : rank(k) \in 1..6 /\ Ranked[rank(k)] = Found[k].status
  BY <1>2, RankTyped
<1>4. \A k, l \in DOMAIN Found : Found[k].status = Found[l].status <=> rank(k) = rank(l)
  BY <1>3
<1>5. \A k, l \in DOMAIN Found :
         Better(k, l) <=> \/ rank(k) > rank(l)
                          \/ /\ rank(k) = rank(l)
                             /\ success(k) > success(l) \/ (success(k) = success(l) /\ k < l)
  BY <1>4 DEF Better
<1>6. \A k \in DOMAIN Found : rank(k) \in Nat /\ success(k) \in Nat /\ k \in Nat
  BY <1>1, <1>2, <1>3
<1> HIDE DEF rank, success
<1>7. /\ ~(Better(i, j) /\ Better(j, i))
      /\ i # j => Better(i, j) \/ Better(j, i)
      /\ Better(i, j) => rank(j) <= rank(i)
  BY <1>5, <1>6
<1>8. \A k \in DOMAIN Found : Better(i, j) /\ Better(j, k) => Better(i, k)
  BY <1>5, <1>6
<1>9. QED
  BY <1>7, <1>8 DEF rank

\* Of some rows one is the best, and only one.
LEMMA BestExists ==
    ASSUME old \in OldTables, NEW ids, ids \subseteq DOMAIN Found, ids # {}
    PROVE  \E i \in ids : IsBest(i, ids)
<1> DEFINE ahead(i) == {j \in ids : Better(j, i)}
           count == [i \in ids |-> Cardinality(ahead(i))]
           counts == {n \in Nat : \E i \in ids : count[i] = n}
           less == OpToRel(<, Nat)
<1>1. IsFiniteSet(ids)
  <2>1. ids \in SUBSET DOMAIN Found
    OBVIOUS
  <2>2. QED
    BY <2>1, OldTyped, FS_Subset
<1>2. \A i \in ids : IsFiniteSet(ahead(i)) /\ Cardinality(ahead(i)) \in Nat
  <2> SUFFICES ASSUME NEW i \in ids
               PROVE  IsFiniteSet(ahead(i)) /\ Cardinality(ahead(i)) \in Nat
    OBVIOUS
  <2>1. ahead(i) \in SUBSET ids
    OBVIOUS
  <2>2. IsFiniteSet(ahead(i))
    BY <1>1, <2>1, FS_Subset
  <2>3. QED
    BY <2>2, FS_CardinalityType
<1>3. \A i, j \in ids : Better(j, i) => count[j] < count[i]
  <2> SUFFICES ASSUME NEW i \in ids, NEW j \in ids, Better(j, i)
               PROVE  Cardinality(ahead(j)) < Cardinality(ahead(i))
    OBVIOUS
  <2>1. ahead(j) \in SUBSET ahead(i)
    BY BetterOrder
  <2>2. j \in ahead(i) /\ j \notin ahead(j)
    BY BetterOrder
  <2>3. /\ Cardinality(ahead(j)) <= Cardinality(ahead(i))
        /\ Cardinality(ahead(i)) # Cardinality(ahead(j))
    BY <1>2, <2>1, <2>2, FS_Subset
  <2>4. QED
    BY <1>2, <2>3
<1>4. counts \subseteq Nat /\ counts # {}
  BY <1>2
<1>5. \E n \in counts : \A m \in counts : <<m, n>> \notin less
  <2> HIDE DEF counts, less
  <2>1. IsWellFoundedOn(less, Nat)
    BY NatLessThanWellFounded DEF less
  <2>2. QED
    BY <1>4, <2>1, WFMin
<1>6. PICK n \in counts : \A m \in counts : <<m, n>> \notin less
  BY <1>5
<1>7. \A m \in counts : ~(m < n)
  BY <1>4, <1>6 DEF OpToRel
<1>8. PICK i \in ids : count[i] = n
  OBVIOUS
<1>9. \A j \in ids : count[j] \in counts
  BY <1>2
<1> HIDE DEF count, counts
<1>10. \A j \in ids : ~Better(j, i)
  BY <1>3, <1>7, <1>8, <1>9
<1>11. \A j \in ids \ {i} : Better(i, j)
  BY <1>10, BetterOrder
<1>12. QED
  BY <1>11 DEF IsBest

LEMMA BestUnique ==
    ASSUME old \in OldTables, NEW ids, ids \subseteq DOMAIN Found,
           NEW i, IsBest(i, ids), NEW j, IsBest(j, ids)
    PROVE  i = j
BY BetterOrder DEF IsBest

\* The best of an endpoint's rows stays the best of those that are left, and
\* is the one the upgrade takes for the keeper.
LEMMA FirstIsBest ==
    ASSUME old \in OldTables, NEW ids, ids \subseteq DOMAIN proxies,
           \A id \in DOMAIN proxies : RowKept(id),
           NEW i, IsBest(i, ids)
    PROVE  First(ids) = i
<1>1. ids \subseteq DOMAIN Found
  BY DEF RowKept
<1>2. \A k, l \in ids : Ahead(k, l) <=> Better(k, l)
  BY DEF Ahead, Better, RowKept
<1>3. i \in ids /\ \A j \in ids \ {i} : Ahead(i, j)
  BY <1>2 DEF IsBest
<1>4. \A k \in ids : (\A j \in ids \ {k} : Ahead(k, j)) => k = i
  <2> SUFFICES ASSUME NEW k \in ids, \A j \in ids \ {k} : Ahead(k, j) PROVE k = i
    OBVIOUS
  <2>1. IsBest(k, ids)
    BY <1>2 DEF IsBest
  <2>2. QED
    BY <1>1, <2>1, BestUnique
<1>5. QED
  BY <1>3, <1>4 DEF First

LEMMA BestOf ==
    ASSUME old \in OldTables, NEW e \in Endpoints
    PROVE  IsBest(Best(e), Origins(e)) /\ Origins(e) \subseteq DOMAIN Found
<1>1. Origins(e) \subseteq DOMAIN Found /\ Origins(e) # {}
  BY DEF Origins, Endpoints, Found
<1>2. \E i \in Origins(e) : IsBest(i, Origins(e))
  BY <1>1, BestExists
<1>3. QED
  BY <1>1, <1>2 DEF Best

-----------------------------------------------------------------------------
(* The steps keep the invariant.                                           *)

\* What was found is history.
LEMMA Unmoved ==
    ASSUME old' = old
    PROVE  /\ Found' = Found /\ Endpoints' = Endpoints /\ Collided' = Collided
           /\ \A e : Origins(e)' = Origins(e) /\ Best(e)' = Best(e)
<1>1. Found' = Found
  BY DEF Found
<1>2. Endpoints' = Endpoints /\ Collided' = Collided
  BY <1>1 DEF Endpoints, Collided
<1>3. \A e : Origins(e)' = Origins(e)
  BY DEF Origins
<1>4. \A e : Best(e)' = Best(e)
  BY <1>1, <1>3 DEF Best, IsBest, Better
<1>5. QED
  BY <1>1, <1>2, <1>3, <1>4

LEMMA GroupsAreRecords ==
    ASSUME NEW e, NEW l
    PROVE  [endpoint |-> e, label |-> l] # NoGroup
<1>1. DOMAIN [endpoint |-> e, label |-> l] = {"endpoint", "label"}
  OBVIOUS
<1>2. DOMAIN NoGroup = {}
  BY DEF NoGroup
<1>3. QED
  BY <1>1, <1>2

LEMMA InitKeeps ==
    ASSUME MigrationInit
    PROVE  MigrationInv
<1>1. /\ old \in OldTables /\ proxies = Found /\ links = old.links
      /\ phase = "normalize" /\ pending = DOMAIN Found
      /\ groups = {} /\ group = NoGroup
  BY DEF MigrationInit, Found
<1>2. /\ Found \in [DOMAIN Found -> OldRow] /\ IdentityKept(Found)
      /\ \A id \in DOMAIN Found : Found[id] \in OldRow
  BY <1>1, OldTyped
<1>3. Normalizing
  BY <1>1, <1>2 DEF Normalizing, RowKept
<1>4. UpgradeMerges
  BY <1>1 DEF UpgradeMerges
<1>5. QED
  BY <1>1, <1>3, <1>4 DEF MigrationInv

\* A statement that fails leaves what was found, and happens only to colliding
\* rows.
LEMMA AbortKeeps ==
    ASSUME MigrationInv, Abort, old' = old, Collided
    PROVE  MigrationInv'
<1>1. phase' = "aborted" /\ group' = NoGroup
  BY DEF Abort
<1>2. Collided' = Collided
  BY Unmoved
<1>3. UpgradeMerges'
  BY <1>1, <1>2 DEF UpgradeMerges
<1>4. QED
  BY <1>1, <1>3 DEF MigrationInv

LEMMA NormalizeKeeps ==
    ASSUME MigrationInv, NEW id \in pending, NormalizeRow(id)
    PROVE  MigrationInv'
<1> DEFINE table == [proxies EXCEPT ![id].endpoint = Normal[@]]
<1>1. /\ phase = "normalize" /\ Normalizing /\ old \in OldTables /\ old' = old
      /\ group = NoGroup
  BY DEF MigrationInv, NormalizeRow
<1>2. /\ proxies \in [DOMAIN Found -> OldRow] /\ pending \subseteq DOMAIN Found
      /\ id \in DOMAIN Found
  BY <1>1 DEF Normalizing
<1>3. table \in [DOMAIN Found -> OldRow]
  <2>1. proxies[id] \in OldRow
    BY <1>2
  <2>2. Normal[proxies[id].endpoint] \in Endpoint
    BY <2>1, MigrationAssumption DEF OldRow
  <2>3. [proxies[id] EXCEPT !.endpoint = Normal[@]] \in OldRow
    BY <2>1, <2>2 DEF OldRow
  <2>4. QED
    BY <1>2, <2>3
<1>4. \A k \in DOMAIN Found :
         /\ table[k].status = proxies[k].status /\ table[k].success = proxies[k].success
         /\ table[k].protocol = proxies[k].protocol
         /\ table[k].endpoint = IF k = id THEN Normal[proxies[k].endpoint]
                                ELSE proxies[k].endpoint
  <2>1. \A k \in DOMAIN Found : proxies[k] \in OldRow
    BY <1>2
  <2>2. QED
    BY <1>2, <2>1 DEF OldRow
<1>5. \A k \in DOMAIN Found :
         /\ RowKept(k) /\ proxies[k].protocol = Found[k].protocol
         /\ proxies[k].endpoint = IF k \in pending THEN Found[k].endpoint
                                  ELSE Normal[Found[k].endpoint]
  BY <1>1 DEF Normalizing
<1> HIDE DEF table
<1>6. CASE IdentityKept(table)
  <2>1. /\ proxies' = table /\ pending' = pending \ {id}
        /\ links' = links /\ phase' = phase /\ groups' = groups /\ group' = group
    BY <1>6 DEF NormalizeRow, table
  <2>2. Found' = Found
    BY <1>1, Unmoved
  <2>3. DOMAIN table = DOMAIN Found
    BY <1>3
  <2>4. \A k \in DOMAIN Found :
           /\ RowKept(k)'
           /\ table[k].protocol = Found[k].protocol
           /\ table[k].endpoint = IF k \in pending \ {id} THEN Found[k].endpoint
                                  ELSE Normal[Found[k].endpoint]
    BY <1>2, <1>3, <1>4, <1>5, <2>1, <2>2 DEF RowKept
  <2>5. IdentityKept(proxies)'
    BY <1>6, <2>1 DEF IdentityKept
  <2>6. \A k \in DOMAIN Found : k \in Nat
    BY <1>1, OldTyped
  <2>7. \A i \in DOMAIN Found \ pending', j \in pending' : i < j
    <3> SUFFICES ASSUME NEW i \in DOMAIN Found \ pending', NEW j \in pending' PROVE i < j
      OBVIOUS
    <3>1. j \in pending /\ j # id /\ id <= j /\ id \in Nat /\ j \in Nat
      BY <1>2, <2>1, <2>6 DEF NormalizeRow
    <3>2. CASE i = id
      BY <3>1, <3>2
    <3>3. CASE i # id
      BY <1>1, <2>1, <3>1, <3>3 DEF Normalizing
    <3>4. QED
      BY <3>2, <3>3
  <2>8. ASSUME NEW i \in DOMAIN Found \ pending', NEW j \in DOMAIN Found, i < j,
               Found[i].protocol = Found[j].protocol
        PROVE  Found[j].endpoint # Normal[Found[i].endpoint]
    <3>1. CASE i # id
      BY <1>1, <2>1, <2>8, <3>1 DEF Normalizing
    <3>2. CASE i = id
      <4>1. j # id /\ i # j
        BY <2>6, <2>8, <3>2
      <4>2. j \in pending
        <5>1. ~(j < id)
          BY <1>2, <2>6, <2>8, <3>2
        <5>2. QED
          BY <1>1, <5>1 DEF Normalizing
      <4>3. table[j].endpoint = Found[j].endpoint /\ table[i].endpoint = Normal[Found[i].endpoint]
        BY <1>2, <1>4, <1>5, <3>2, <4>1, <4>2
      <4>4. table[i].protocol = table[j].protocol
        BY <1>4, <1>5, <2>8
      <4>5. QED
        BY <1>6, <2>3, <4>1, <4>3, <4>4 DEF IdentityKept
    <3>3. QED
      BY <3>1, <3>2
  <2>9. Normalizing'
    BY <1>1, <1>2, <1>3, <2>1, <2>2, <2>3, <2>4, <2>5, <2>7, <2>8 DEF Normalizing
  <2>10. UpgradeMerges'
    BY <1>1, <2>1 DEF UpgradeMerges
  <2>11. QED
    BY <1>1, <2>1, <2>9, <2>10 DEF MigrationInv
<1>7. CASE ~IdentityKept(table)
  <2>1. PICK i \in DOMAIN table, j \in DOMAIN table :
           /\ i # j /\ table[i].endpoint = table[j].endpoint
           /\ table[i].protocol = table[j].protocol
    BY <1>7 DEF IdentityKept
  <2>2. i \in DOMAIN Found /\ j \in DOMAIN Found
    BY <1>3, <2>1
  <2>3. PICK k \in DOMAIN Found : /\ k # id /\ table[k].endpoint = table[id].endpoint
                                  /\ table[k].protocol = table[id].protocol
    <3>1. i = id \/ j = id
      <4> SUFFICES ASSUME i # id, j # id PROVE FALSE
        OBVIOUS
      <4>1. proxies[i].endpoint = proxies[j].endpoint /\ proxies[i].protocol = proxies[j].protocol
        BY <1>4, <2>1, <2>2
      <4>2. IdentityKept(proxies) /\ DOMAIN proxies = DOMAIN Found
        BY <1>1 DEF Normalizing
      <4>3. QED
        BY <2>1, <2>2, <4>1, <4>2 DEF IdentityKept
    <3>2. QED
      BY <2>1, <2>2, <3>1
  <2>4. /\ Found[k].protocol = Found[id].protocol
        /\ table[id].endpoint = Normal[Found[id].endpoint]
        /\ table[k].endpoint = IF k \in pending THEN Found[k].endpoint
                               ELSE Normal[Found[k].endpoint]
        /\ k \in Nat /\ id \in Nat
    BY <1>1, <1>2, <1>4, <1>5, <2>3, OldTyped
  <2>5. Collided
    <3>1. CASE k \in pending
      <4>1. id < k
        BY <2>3, <2>4, <3>1 DEF NormalizeRow
      <4>2. QED
        BY <1>2, <2>3, <2>4, <3>1, <4>1 DEF Collided, Found
    <3>2. CASE k \notin pending
      <4>1. k < id
        BY <1>1, <3>2 DEF Normalizing
      <4>2. QED
        BY <1>2, <2>3, <2>4, <3>2, <4>1 DEF Collided, Found
    <3>3. QED
      BY <3>1, <3>2
  <2>6. Abort
    BY <1>7 DEF NormalizeRow, table
  <2>7. QED
    BY <1>1, <2>5, <2>6, AbortKeeps
<1>8. QED
  BY <1>6, <1>7

LEMMA GroupKeeps ==
    ASSUME MigrationInv, GroupRows
    PROVE  MigrationInv'
<1>1. /\ phase = "normalize" /\ pending = {} /\ Normalizing /\ old \in OldTables
      /\ group = NoGroup
  BY DEF MigrationInv, GroupRows
<1>2. /\ phase' = "merge" /\ old' = old /\ proxies' = proxies /\ links' = links
      /\ group' = group /\ groups' = {proxies[id].endpoint : id \in DOMAIN proxies}
  BY DEF GroupRows
<1>3. /\ DOMAIN proxies = DOMAIN Found /\ IdentityKept(proxies) /\ links = old.links
      /\ proxies \in [DOMAIN Found -> OldRow]
      /\ \A id \in DOMAIN Found :
            /\ RowKept(id) /\ proxies[id].protocol = Found[id].protocol
            /\ proxies[id].endpoint = Normal[Found[id].endpoint]
  BY <1>1 DEF Normalizing
<1>4. /\ Found' = Found /\ Endpoints' = Endpoints /\ Collided' = Collided
      /\ \A e : Origins(e)' = Origins(e) /\ Best(e)' = Best(e)
  BY <1>2, Unmoved
<1>5. ~Collided
  <2> SUFFICES ASSUME NEW i \in DOMAIN Found, NEW j \in DOMAIN Found, i < j,
                      Found[i].protocol = Found[j].protocol,
                      Normal[Found[i].endpoint]
                         \in {Found[j].endpoint, Normal[Found[j].endpoint]}
               PROVE  FALSE
    BY DEF Collided, Found
  <2>1. i # j
    BY <1>1, OldTyped
  <2>2. Found[j].endpoint # Normal[Found[i].endpoint]
    BY <1>1 DEF Normalizing
  <2>3. proxies[i].endpoint # proxies[j].endpoint
    BY <1>3, <2>1 DEF IdentityKept
  <2>4. QED
    BY <1>3, <2>2, <2>3
<1>6. groups' = Endpoints
  BY <1>2, <1>3 DEF Endpoints
<1>7. \A e : Members(e)' = Origins(e)
  BY <1>2, <1>3 DEF Members, Origins, Found
<1>8. \A e \in Endpoints : GroupMerging(e)'
  <2> SUFFICES ASSUME NEW e \in Endpoints PROVE GroupMerging(e)'
    OBVIOUS
  <2>1. Best(e) \in Origins(e) /\ Origins(e) \subseteq DOMAIN Found
    BY <1>1, BestOf DEF IsBest
  <2>2. Absorbed(e)' = {Best(e)}
    BY <1>4, <1>7 DEF Absorbed
  <2>3. ~Current(e)'
    BY <1>1, <1>2 DEF Current, NoGroup
  <2>4. e \in groups'
    BY <1>6
  <2>5. QED
    BY <1>2, <1>3, <1>4, <1>7, <2>1, <2>2, <2>3, <2>4 DEF GroupMerging
<1>9. Merging'
  <2>1. links' \subseteq (DOMAIN Found) \X Source
    BY <1>1, <1>2, <1>3, OldTyped
  <2>2. \A id \in DOMAIN proxies' :
           RowKept(id)' /\ proxies'[id].endpoint = Normal[Found[id].endpoint]
    BY <1>2, <1>3, <1>4 DEF RowKept
  <2>3. group' = NoGroup'
    BY <1>1, <1>2 DEF NoGroup
  <2>4. QED
    BY <1>2, <1>3, <1>4, <1>5, <1>6, <1>8, <2>1, <2>2, <2>3 DEF Merging
<1>10. UpgradeMerges'
  BY <1>2 DEF UpgradeMerges
<1>11. QED
  BY <1>1, <1>2, <1>9, <1>10 DEF MigrationInv

\* Where the groups stand while the rows are merged.
LEMMA MergingFacts ==
    ASSUME old \in OldTables, Merging
    PROVE  /\ DOMAIN proxies \subseteq DOMAIN Found
           /\ \A id \in DOMAIN proxies : RowKept(id)
           /\ \A e \in Endpoints :
                 /\ Members(e) \subseteq Origins(e) /\ Members(e) \subseteq DOMAIN proxies
                 /\ IsBest(Best(e), Members(e)) /\ First(Members(e)) = Best(e)
<1>1. /\ DOMAIN proxies \subseteq DOMAIN Found
      /\ \A id \in DOMAIN proxies : RowKept(id)
  BY DEF Merging, RowKept
<1>2. SUFFICES ASSUME NEW e \in Endpoints
               PROVE  /\ Members(e) \subseteq Origins(e) /\ Members(e) \subseteq DOMAIN proxies
                      /\ IsBest(Best(e), Members(e)) /\ First(Members(e)) = Best(e)
  BY <1>1
<1>3. Members(e) \subseteq Origins(e) /\ Members(e) \subseteq DOMAIN proxies
  BY <1>1 DEF Merging, Members, Origins, Found
<1>4. Best(e) \in Members(e)
  BY DEF Merging, GroupMerging
<1>5. IsBest(Best(e), Members(e))
  BY <1>3, <1>4, BestOf DEF IsBest
<1>6. QED
  BY <1>1, <1>3, <1>5, FirstIsBest

LEMMA BeginKeeps ==
    ASSUME MigrationInv, NEW endpoint \in groups, BeginGroup(endpoint)
    PROVE  MigrationInv'
<1>1. /\ phase = "merge" /\ Merging /\ old \in OldTables /\ group = NoGroup
  BY DEF MigrationInv, BeginGroup
<1>2. /\ old' = old /\ proxies' = proxies /\ links' = links /\ phase' = phase
      /\ groups' = groups \ {endpoint}
  BY DEF BeginGroup
<1>3. /\ Found' = Found /\ Endpoints' = Endpoints /\ Collided' = Collided
      /\ \A e : Origins(e)' = Origins(e) /\ Best(e)' = Best(e)
  BY <1>2, Unmoved
<1>4. \A e : Members(e)' = Members(e) /\ Absorbed(e)' = Absorbed(e)
  BY <1>2, <1>3 DEF Members, Absorbed
<1>5. endpoint \in Endpoints
  BY <1>1 DEF Merging
<1>6. group' = [endpoint |-> endpoint, label |-> proxies[Best(endpoint)].protocol]
  BY <1>1, <1>5, MergingFacts DEF BeginGroup
<1>7. group' # NoGroup /\ group'.endpoint = endpoint
  BY <1>6, GroupsAreRecords
<1>8. Best(endpoint) \in DOMAIN proxies /\ proxies[Best(endpoint)] \in OldRow
  BY <1>1, <1>5, MergingFacts DEF IsBest, RowKept
<1>9. \A e : Current(e)' <=> e = endpoint
  BY <1>7 DEF Current, NoGroup
<1>10. \A e : ~Current(e)
  BY <1>1 DEF Current
<1>11. \A e \in Endpoints : GroupMerging(e)'
  <2> SUFFICES ASSUME NEW e \in Endpoints PROVE GroupMerging(e)'
    OBVIOUS
  <2>1. GroupMerging(e)
    BY <1>1 DEF Merging
  <2>2. CASE e = endpoint
    <3>1. /\ Best(e) \in Members(e) /\ Members(e) = Origins(e) /\ e \in groups
          /\ \A id \in Members(e) : proxies[id].protocol = Found[id].protocol
      BY <2>1, <2>2 DEF GroupMerging
    <3>2. Absorbed(e) = {Best(e)}
      BY <3>1 DEF Absorbed
    <3>3. group'.label = Found[Best(e)].protocol
      BY <1>6, <2>2, <3>1
    <3>4. e \notin groups' /\ Current(e)'
      BY <1>2, <1>9, <2>2
    <3>5. QED
      BY <1>2, <1>3, <1>4, <2>1, <3>1, <3>2, <3>3, <3>4 DEF GroupMerging
  <2>3. CASE e # endpoint
    <3>1. (e \in groups' <=> e \in groups) /\ ~Current(e)' /\ ~Current(e)
      BY <1>2, <1>9, <1>10, <2>3
    <3>2. QED
      BY <1>2, <1>3, <1>4, <2>1, <3>1 DEF GroupMerging
  <2>4. QED
    BY <2>2, <2>3
<1>12. Merging'
  <2>1. \A id \in DOMAIN proxies : RowKept(id)'
    BY <1>1, <1>2, <1>3 DEF Merging, RowKept
  <2>2. group'.label \in Label
    BY <1>6, <1>8 DEF OldRow
  <2>3. group' = [endpoint |-> group'.endpoint, label |-> group'.label]
    BY <1>6
  <2>4. QED
    BY <1>1, <1>2, <1>3, <1>5, <1>7, <1>11, <2>1, <2>2, <2>3 DEF Merging
<1>13. UpgradeMerges'
  BY <1>1, <1>2 DEF UpgradeMerges
<1>14. QED
  BY <1>1, <1>2, <1>12, <1>13 DEF MigrationInv

\* https is preferred to every other label.
LEMMA HttpsPreferred ==
    ASSUME NEW a \in Label, NEW b \in Label
    PROVE  /\ Prefer(a, b) \in Label
           /\ Prefer(a, b) = "https" <=> a = "https" \/ b = "https"
BY DEF Prefer, Label

LEMMA MergeKeeps ==
    ASSUME MigrationInv, MergeDuplicate
    PROVE  MigrationInv'
<1> SUFFICES ASSUME NEW e, e = group.endpoint,
                    NEW duplicate, duplicate = First(Members(e) \ {Best(e)})
             PROVE  MigrationInv'
  OBVIOUS
<1>1. /\ phase = "merge" /\ Merging /\ old \in OldTables /\ group # NoGroup
      /\ e \in Endpoints \ groups /\ group.label \in Label
      /\ group = [endpoint |-> e, label |-> group.label]
  BY DEF MigrationInv, MergeDuplicate, Merging
<1>2. /\ DOMAIN proxies \subseteq DOMAIN Found
      /\ \A id \in DOMAIN proxies : RowKept(id)
      /\ \A f \in Endpoints :
            /\ Members(f) \subseteq Origins(f) /\ Members(f) \subseteq DOMAIN proxies
            /\ IsBest(Best(f), Members(f)) /\ First(Members(f)) = Best(f)
  BY <1>1, MergingFacts
<1>3. /\ Cardinality(Members(e)) > 1
      /\ links' = {link \in links : link[1] # duplicate}
                    \cup {<<Best(e), s>> : s \in {s \in Source : <<duplicate, s>> \in links}}
      /\ proxies' = [id \in (DOMAIN proxies) \ {duplicate} |-> proxies[id]]
      /\ group' = [group EXCEPT !.label = Prefer(@, proxies[duplicate].protocol)]
      /\ old' = old /\ phase' = phase /\ groups' = groups
  BY <1>1, <1>2 DEF MergeDuplicate
<1>4. duplicate \in Members(e) \ {Best(e)}
  <2>1. Members(e) \ {Best(e)} # {}
    <3>1. SUFFICES ASSUME Members(e) \ {Best(e)} = {} PROVE FALSE
      OBVIOUS
    <3>2. Members(e) = {Best(e)}
      BY <1>1, <1>2, <3>1 DEF IsBest
    <3>3. Cardinality(Members(e)) = 1
      BY <3>2, FS_Singleton
    <3>4. QED
      BY <1>3, <3>3
  <2>2. Members(e) \ {Best(e)} \subseteq DOMAIN Found
    BY <1>1, <1>2
  <2>3. PICK d \in Members(e) \ {Best(e)} : IsBest(d, Members(e) \ {Best(e)})
    BY <1>1, <2>1, <2>2, BestExists
  <2>4. Members(e) \ {Best(e)} \subseteq DOMAIN proxies
    BY <1>1, <1>2
  <2>5. First(Members(e) \ {Best(e)}) = d
    BY <1>1, <1>2, <2>3, <2>4, FirstIsBest
  <2>6. QED
    BY <2>3, <2>5
<1>5. /\ Found' = Found /\ Endpoints' = Endpoints /\ Collided' = Collided
      /\ \A f : Origins(f)' = Origins(f) /\ Best(f)' = Best(f)
  BY <1>3, Unmoved
<1>6. /\ duplicate \in DOMAIN proxies /\ proxies[duplicate].endpoint = e
      /\ Best(e) \in Members(e) /\ Best(e) # duplicate
      /\ proxies[duplicate] \in OldRow /\ duplicate \in Origins(e)
  BY <1>1, <1>2, <1>4 DEF Members, IsBest, RowKept
<1>7. /\ DOMAIN proxies' = (DOMAIN proxies) \ {duplicate}
      /\ \A id \in DOMAIN proxies' : proxies'[id] = proxies[id]
  BY <1>3
<1>8. \A f : Members(f)' = Members(f) \ {duplicate}
  BY <1>7 DEF Members
<1>9. \A f : f # e => duplicate \notin Members(f) /\ Best(e) \notin Members(f)
  BY <1>6 DEF Members
<1>10. GroupMerging(e) /\ Current(e)
  BY <1>1 DEF Merging, Current
<1>11. proxies[duplicate].protocol = Found[duplicate].protocol
  BY <1>4, <1>10 DEF GroupMerging
<1>12. /\ group' = [endpoint |-> e, label |-> group'.label]
       /\ group'.endpoint = e
       /\ group'.label = Prefer(group.label, Found[duplicate].protocol)
  BY <1>1, <1>3, <1>11
<1>13. /\ group'.label \in Label
       /\ group'.label = "https" <=> group.label = "https" \/ Found[duplicate].protocol = "https"
  <2>1. Found[duplicate].protocol \in Label
    BY <1>6, <1>11 DEF OldRow
  <2>2. QED
    BY <1>1, <1>12, <2>1, HttpsPreferred
<1>14. group' # NoGroup /\ \A f : Current(f)' <=> f = e
  <2>1. group' # NoGroup
    BY <1>12, GroupsAreRecords
  <2>2. QED
    BY <1>12, <2>1 DEF Current, NoGroup
<1>15. /\ links' \subseteq (DOMAIN Found) \X Source
       /\ \A id, s : id # duplicate /\ id # Best(e) => (<<id, s>> \in links' <=> <<id, s>> \in links)
       /\ \A s \in Source : <<Best(e), s>> \in links'
                            <=> <<Best(e), s>> \in links \/ <<duplicate, s>> \in links
  <2>1. links \subseteq (DOMAIN Found) \X Source
    BY <1>1 DEF Merging
  <2>2. Best(e) \in DOMAIN Found
    BY <1>1, <1>2, <1>6
  <2>3. links' \subseteq (DOMAIN Found) \X Source
    <3>1. SUFFICES ASSUME NEW link \in links' PROVE link \in (DOMAIN Found) \X Source
      OBVIOUS
    <3>2. \/ link \in links
          \/ \E s \in Source : link = <<Best(e), s>>
      BY <1>3
    <3>3. QED
      BY <2>1, <2>2, <3>2
  <2>4. \A id, s : /\ <<id, s>>[1] = id
                   /\ <<id, s>> \in links' <=>
                        \/ <<id, s>> \in links /\ id # duplicate
                        \/ id = Best(e) /\ s \in Source /\ <<duplicate, s>> \in links
    BY <1>3
  <2>5. QED
    BY <1>6, <2>3, <2>4
<1>16. \A f \in Endpoints : GroupMerging(f)'
  <2> SUFFICES ASSUME NEW f \in Endpoints PROVE GroupMerging(f)'
    OBVIOUS
  <2>1. GroupMerging(f)
    BY <1>1 DEF Merging
  <2>2. CASE f = e
    <3>1. Absorbed(e)' = Absorbed(e) \cup {duplicate}
      BY <1>4, <1>5, <1>6, <1>8 DEF Absorbed
    <3>2. \A s \in Source : <<duplicate, s>> \in links <=> <<duplicate, s>> \in old.links
      BY <1>4, <1>10 DEF GroupMerging
    <3>3. Best(e)' \in Members(e)'
      BY <1>5, <1>6, <1>8
    <3>4. \A id \in Members(e)' \ {Best(e)}, s \in Source :
             <<id, s>> \in links' <=> <<id, s>> \in old.links
      BY <1>8, <1>10, <1>15 DEF GroupMerging
    <3>5. \A s \in Source :
             <<Best(e), s>> \in links' <=> \E id \in Absorbed(e)' : <<id, s>> \in old.links
      BY <1>10, <1>15, <3>1, <3>2 DEF GroupMerging
    <3>6. \A id \in Members(e)' : proxies'[id].protocol = Found[id].protocol
      BY <1>7, <1>8, <1>10 DEF GroupMerging, Members
    <3>7. group'.label = "https" <=> \E id \in Absorbed(e)' : Found[id].protocol = "https"
      BY <1>10, <1>13, <3>1 DEF GroupMerging
    <3>8. e \notin groups' /\ Current(e)'
      BY <1>1, <1>3, <1>14
    <3>9. GroupMerging(e)'
      BY <1>3, <1>5, <3>3, <3>4, <3>5, <3>6, <3>7, <3>8 DEF GroupMerging
    <3>10. QED
      BY <2>2, <3>9
  <2>3. CASE f # e
    <3>1. Members(f)' = Members(f) /\ Absorbed(f)' = Absorbed(f)
      BY <1>5, <1>8, <1>9, <2>3 DEF Absorbed
    <3>2. (f \in groups' <=> f \in groups) /\ ~Current(f)' /\ ~Current(f)
      BY <1>3, <1>14, <2>3 DEF Current
    <3>3. \A s : \A id \in Members(f) : <<id, s>> \in links' <=> <<id, s>> \in links
      BY <1>9, <1>15, <2>3
    <3>4. \A id \in Members(f) : proxies'[id] = proxies[id]
      BY <1>7, <1>9, <2>3 DEF Members
    <3>5. QED
      BY <1>3, <1>5, <2>1, <3>1, <3>2, <3>3, <3>4 DEF GroupMerging
  <2>4. QED
    BY <2>2, <2>3
<1>17. Merging'
  <2>1. \A id \in DOMAIN proxies' :
           RowKept(id)' /\ proxies'[id].endpoint = Normal[Found[id].endpoint]
    BY <1>1, <1>2, <1>5, <1>7 DEF Merging, RowKept
  <2>2. proxies' \in [DOMAIN proxies' -> OldRow]
    BY <1>3, <2>1 DEF RowKept
  <2>3. ~Collided /\ groups \subseteq Endpoints
    BY <1>1 DEF Merging
  <2>4. QED
    BY <1>1, <1>3, <1>5, <1>12, <1>13, <1>15, <1>16, <2>1, <2>2, <2>3 DEF Merging
<1>18. UpgradeMerges'
  BY <1>1, <1>3 DEF UpgradeMerges
<1>19. QED
  BY <1>1, <1>3, <1>17, <1>18 DEF MigrationInv

LEMMA RelabelKeeps ==
    ASSUME MigrationInv, Relabel
    PROVE  MigrationInv'
<1> SUFFICES ASSUME NEW e, e = group.endpoint
             PROVE  MigrationInv'
  OBVIOUS
<1>1. /\ phase = "merge" /\ Merging /\ old \in OldTables /\ group # NoGroup
      /\ e \in Endpoints \ groups /\ group.label \in Label
  BY DEF MigrationInv, Relabel, Merging
<1>2. PICK keeper \in DOMAIN proxies :
         /\ Members(e) = {keeper}
         /\ proxies' = [proxies EXCEPT ![keeper].protocol = group.label]
  BY DEF Relabel
<1>3. /\ group' = NoGroup /\ old' = old /\ links' = links /\ phase' = phase
      /\ groups' = groups
  BY DEF Relabel
<1>4. /\ DOMAIN proxies \subseteq DOMAIN Found
      /\ \A id \in DOMAIN proxies : RowKept(id)
      /\ \A f \in Endpoints : Members(f) \subseteq DOMAIN proxies
      /\ Best(e) \in Members(e)
  BY <1>1, MergingFacts DEF IsBest
<1>5. keeper = Best(e)
  BY <1>2, <1>4
<1>6. /\ Found' = Found /\ Endpoints' = Endpoints /\ Collided' = Collided
      /\ \A f : Origins(f)' = Origins(f) /\ Best(f)' = Best(f)
  BY <1>3, Unmoved
<1>7. /\ proxies \in [DOMAIN proxies -> OldRow] /\ proxies[keeper] \in OldRow
      /\ proxies[keeper].endpoint = e
  BY <1>1, <1>2 DEF Merging, Members
<1>8. /\ DOMAIN proxies' = DOMAIN proxies
      /\ \A id \in DOMAIN proxies : id # keeper => proxies'[id] = proxies[id]
      /\ proxies'[keeper] = [proxies[keeper] EXCEPT !.protocol = group.label]
  BY <1>2, <1>7
<1>9. /\ proxies'[keeper] \in OldRow
      /\ proxies'[keeper].endpoint = proxies[keeper].endpoint
      /\ proxies'[keeper].status = proxies[keeper].status
      /\ proxies'[keeper].success = proxies[keeper].success
      /\ proxies'[keeper].protocol = group.label
  BY <1>1, <1>7, <1>8 DEF OldRow
<1>10. /\ \A id \in DOMAIN proxies : proxies'[id].endpoint = proxies[id].endpoint
       /\ \A id \in DOMAIN proxies : RowKept(id)'
  BY <1>4, <1>6, <1>8, <1>9 DEF RowKept
<1>11. \A f : Members(f)' = Members(f) /\ Absorbed(f)' = Absorbed(f)
  BY <1>6, <1>8, <1>10 DEF Members, Absorbed
<1>12. \A f : ~Current(f)'
  BY <1>3 DEF Current, NoGroup
<1>13. GroupMerging(e) /\ Current(e)
  BY <1>1 DEF Merging, Current
<1>14. \A f \in Endpoints : GroupMerging(f)'
  <2> SUFFICES ASSUME NEW f \in Endpoints PROVE GroupMerging(f)'
    OBVIOUS
  <2>1. GroupMerging(f)
    BY <1>1 DEF Merging
  <2>2. CASE f = e
    <3>1. Absorbed(e) = Origins(e)
      <4>1. Best(e) \in Origins(e)
        BY <1>1, BestOf DEF IsBest
      <4>2. QED
        BY <1>2, <1>5, <4>1 DEF Absorbed
    <3>2. proxies'[Best(e)].protocol = "https"
             <=> \E id \in Origins(e) : Found[id].protocol = "https"
      BY <1>5, <1>9, <1>13, <3>1 DEF GroupMerging
    <3>3. e \notin groups' /\ ~Current(e)'
      BY <1>1, <1>3, <1>12
    <3>4. Members(e)' = {Best(e)} /\ Absorbed(e)' = Absorbed(e)
      BY <1>2, <1>5, <1>11
    <3>5. GroupMerging(e)'
      BY <1>3, <1>6, <1>13, <3>2, <3>3, <3>4 DEF GroupMerging
    <3>6. QED
      BY <2>2, <3>5
  <2>3. CASE f # e
    <3>1. keeper \notin Members(f)
      BY <1>7, <2>3 DEF Members
    <3>2. \A id \in Members(f) : proxies'[id] = proxies[id]
      BY <1>4, <1>8, <3>1
    <3>3. ~Current(f)
      BY <2>3 DEF Current
    <3>4. QED
      BY <1>3, <1>6, <1>11, <1>12, <2>1, <3>2, <3>3 DEF GroupMerging
  <2>4. QED
    BY <2>2, <2>3
<1>15. Merging'
  <2>1. \A id \in DOMAIN proxies' :
           RowKept(id)' /\ proxies'[id].endpoint = Normal[Found[id].endpoint]
    BY <1>1, <1>8, <1>10 DEF Merging
  <2>2. proxies' \in [DOMAIN proxies' -> OldRow]
    BY <1>2, <1>7, <1>8, <1>9
  <2>3. group' = NoGroup'
    BY <1>3 DEF NoGroup
  <2>4. ~Collided /\ groups \subseteq Endpoints /\ links \subseteq (DOMAIN Found) \X Source
    BY <1>1 DEF Merging
  <2>5. QED
    BY <1>3, <1>6, <1>14, <2>1, <2>2, <2>3, <2>4 DEF Merging
<1>16. UpgradeMerges'
  BY <1>1, <1>3 DEF UpgradeMerges
<1>17. QED
  BY <1>1, <1>3, <1>15, <1>16 DEF MigrationInv

\* When every group is merged, its best row stands for the whole group.
LEMMA ConstrainKeeps ==
    ASSUME MigrationInv, Constrain
    PROVE  MigrationInv'
<1>1. /\ phase = "merge" /\ Merging /\ old \in OldTables /\ groups = {}
      /\ group = NoGroup /\ old' = old
  BY DEF MigrationInv, Constrain
<1>2. \A e \in Endpoints :
         /\ GroupMerging(e) /\ ~Current(e)
         /\ Members(e) = {Best(e)} /\ IsBest(Best(e), Origins(e))
  BY <1>1, BestOf DEF Merging, GroupMerging, Current
<1>3. \A e \in Endpoints : Absorbed(e) = Origins(e)
  BY <1>2 DEF Absorbed, IsBest
<1>4. \A id \in DOMAIN proxies :
         /\ id \in DOMAIN Found /\ proxies[id].endpoint = Normal[Found[id].endpoint]
         /\ proxies[id].status = Found[id].status
  BY <1>1 DEF Merging, RowKept
<1>5. \A id \in DOMAIN proxies :
         /\ proxies[id].endpoint \in Endpoints
         /\ id = Best(proxies[id].endpoint)
  <2> SUFFICES ASSUME NEW id \in DOMAIN proxies
               PROVE  /\ proxies[id].endpoint \in Endpoints
                      /\ id = Best(proxies[id].endpoint)
    OBVIOUS
  <2>1. proxies[id].endpoint \in Endpoints
    BY <1>4 DEF Endpoints
  <2>2. id \in Members(proxies[id].endpoint)
    BY DEF Members
  <2>3. QED
    BY <1>2, <2>1, <2>2
<1>6. EndpointKept(proxies)
  BY <1>5 DEF EndpointKept
<1>7. /\ phase' = "done" /\ proxies' = proxies /\ links' = links /\ group' = group
  BY <1>6 DEF Constrain
<1>8. \A id \in DOMAIN old.proxies :
         \E kept \in DOMAIN proxies : id \in Origins(proxies[kept].endpoint)
  <2> SUFFICES ASSUME NEW id \in DOMAIN old.proxies, NEW e, e = Normal[Found[id].endpoint]
               PROVE  \E kept \in DOMAIN proxies : id \in Origins(proxies[kept].endpoint)
    OBVIOUS
  <2>1. e \in Endpoints
    BY DEF Endpoints, Found
  <2>2. Best(e) \in DOMAIN proxies /\ proxies[Best(e)].endpoint = e
    BY <1>2, <2>1 DEF Members
  <2>3. id \in Origins(e)
    BY DEF Origins, Found
  <2>4. QED
    BY <2>2, <2>3
<1>9. ASSUME NEW kept \in DOMAIN proxies, NEW e, e = proxies[kept].endpoint
      PROVE  /\ kept \in Origins(e)
             /\ \A id \in Origins(e) : StatusRank[old.proxies[id].status]
                                          <= StatusRank[proxies[kept].status]
             /\ \A s \in Source : <<kept, s>> \in links
                   <=> \E id \in Origins(e) : <<id, s>> \in old.links
             /\ proxies[kept].protocol = "https"
                   <=> \E id \in Origins(e) : old.proxies[id].protocol = "https"
  <2>1. e \in Endpoints /\ kept = Best(e)
    BY <1>5, <1>9
  <2>2. IsBest(kept, Origins(e)) /\ Origins(e) \subseteq DOMAIN Found
    BY <1>1, <2>1, BestOf
  <2>3. \A id \in Origins(e) : StatusRank[Found[id].status] <= StatusRank[Found[kept].status]
    <3> SUFFICES ASSUME NEW id \in Origins(e)
                 PROVE  StatusRank[Found[id].status] <= StatusRank[Found[kept].status]
      OBVIOUS
    <3>1. CASE id = kept
      <4>1. Found[kept].status \in DOMAIN StatusRank
        BY <1>1, <1>4, OldTyped DEF OldRow
      <4>2. QED
        BY <3>1, <4>1, RankTyped
    <3>2. CASE id # kept
      <4>1. Better(kept, id)
        BY <2>2, <3>2 DEF IsBest
      <4>2. QED
        BY <1>1, <2>2, <4>1, BetterOrder DEF IsBest
    <3>3. QED
      BY <3>1, <3>2
  <2>4. /\ \A s \in Source : <<kept, s>> \in links
              <=> \E id \in Origins(e) : <<id, s>> \in old.links
        /\ proxies[kept].protocol = "https"
              <=> \E id \in Origins(e) : Found[id].protocol = "https"
    BY <1>1, <1>2, <1>3, <2>1 DEF GroupMerging
  <2>5. QED
    BY <1>4, <2>2, <2>3, <2>4 DEF IsBest, Found
<1>10. ~Collided /\ Collided' = Collided
  BY <1>1, Unmoved DEF Merging
<1>11. UpgradeMerges'
  <2> DEFINE merged ==
         /\ EndpointKept(proxies)
         /\ \A id \in DOMAIN old.proxies :
               \E kept \in DOMAIN proxies : id \in Origins(proxies[kept].endpoint)
         /\ \A kept \in DOMAIN proxies :
               LET origins == Origins(proxies[kept].endpoint)
               IN  /\ kept \in origins
                   /\ \A id \in origins : StatusRank[old.proxies[id].status]
                                            <= StatusRank[proxies[kept].status]
                   /\ \A s \in Source : <<kept, s>> \in links
                         <=> \E id \in origins : <<id, s>> \in old.links
                   /\ proxies[kept].protocol = "https"
                         <=> \E id \in origins : old.proxies[id].protocol = "https"
  <2>1. merged
    BY <1>6, <1>8, <1>9
  <2>2. /\ old' = old /\ proxies' = proxies /\ links' = links
        /\ EndpointKept(proxies)' = EndpointKept(proxies)
        /\ \A e : Origins(e)' = Origins(e)
    BY <1>1, <1>7, Unmoved DEF EndpointKept
  <2>3. merged'
    BY <2>1, <2>2
  <2>4. QED
    BY <1>7, <1>10, <2>3 DEF UpgradeMerges
<1>12. QED
  BY <1>1, <1>7, <1>11 DEF MigrationInv

LEMMA NothingKeeps ==
    ASSUME MigrationInv, UNCHANGED migrationVars
    PROVE  MigrationInv'
<1>1. /\ old' = old /\ proxies' = proxies /\ links' = links /\ phase' = phase
      /\ pending' = pending /\ groups' = groups /\ group' = group
  BY DEF migrationVars
<1>2. /\ Found' = Found /\ Endpoints' = Endpoints /\ Collided' = Collided
      /\ \A e : Origins(e)' = Origins(e) /\ Best(e)' = Best(e)
  BY <1>1, Unmoved
<1>3. \A e : /\ Members(e)' = Members(e) /\ Absorbed(e)' = Absorbed(e)
             /\ Current(e)' = Current(e)
  BY <1>1, <1>2 DEF Members, Absorbed, Current, NoGroup
<1>4. \A id : RowKept(id)' = RowKept(id)
  BY <1>1, <1>2 DEF RowKept
<1>5. Normalizing => Normalizing'
  BY <1>1, <1>2, <1>4 DEF Normalizing, IdentityKept, NoGroup
<1>6. \A e : GroupMerging(e) => GroupMerging(e)'
  BY <1>1, <1>2, <1>3 DEF GroupMerging
<1>7. Merging => Merging'
  BY <1>1, <1>2, <1>4, <1>6 DEF Merging, NoGroup
<1>8. UpgradeMerges => UpgradeMerges'
  BY <1>1, <1>2 DEF UpgradeMerges, EndpointKept
<1>9. QED
  BY <1>1, <1>5, <1>7, <1>8 DEF MigrationInv, NoGroup

-----------------------------------------------------------------------------
\* Whatever the tables and however hosts are normalized, the upgrade leaves one
\* row for each endpoint: one of those that named it, with a status as good as
\* any of theirs, with the links of all of them and no other, and https if one
\* of them was; and it fails exactly if two rows with one label become equal
\* when they are normalized in the order of their ids, be it for good or until
\* the second is normalized too (upgrade).
THEOREM UpgradeAlwaysMerges == MigrationSpec => []UpgradeMerges
<1>1. MigrationInit => MigrationInv
  BY InitKeeps
<1>2. MigrationInv /\ [MigrationNext]_migrationVars => MigrationInv'
  <2> SUFFICES ASSUME MigrationInv, [MigrationNext]_migrationVars PROVE MigrationInv'
    OBVIOUS
  <2>1. CASE \E id \in pending : NormalizeRow(id)
    BY <2>1, NormalizeKeeps
  <2>2. CASE GroupRows
    BY <2>2, GroupKeeps
  <2>3. CASE \E endpoint \in groups : BeginGroup(endpoint)
    BY <2>3, BeginKeeps
  <2>4. CASE MergeDuplicate
    BY <2>4, MergeKeeps
  <2>5. CASE Relabel
    BY <2>5, RelabelKeeps
  <2>6. CASE Constrain
    BY <2>6, ConstrainKeeps
  <2>7. CASE UNCHANGED migrationVars
    BY <2>7, NothingKeeps
  <2>8. QED
    BY <2>1, <2>2, <2>3, <2>4, <2>5, <2>6, <2>7 DEF MigrationNext, Upgraded
<1>3. MigrationInv => UpgradeMerges
  BY DEF MigrationInv
<1>4. QED
  BY <1>1, <1>2, <1>3, PTL DEF MigrationSpec

=============================================================================
