------------------------ MODULE QueueSelection_proofs ------------------------
(***************************************************************************)
(* Proofs about QueueSelection, for any number of rows, tiers and sources, *)
(* any pool size and any batch: the batch is one that CheckerJob's         *)
(* FetchBatch may choose, tiers keep their quota, providers stay balanced, *)
(* slots left over are reused and the tiers alternate in the queue.        *)
(***************************************************************************)
EXTENDS QueueSelection, FiniteSetTheorems, TLAPS

-----------------------------------------------------------------------------
(* Ranks: a finite set in a linear order.                                  *)

Linear(S, R) ==
    /\ \A a \in S : <<a, a>> \notin R
    /\ \A a, b, c \in S : <<a, b>> \in R /\ <<b, c>> \in R => <<a, c>> \in R
    /\ \A a, b \in S : a # b => <<a, b>> \in R \/ <<b, a>> \in R

Lower(S, R, c) == {d \in S : <<d, c>> \in R}

\* The rank of an element is a number below the size of the set.
LEMMA RankRange ==
    ASSUME NEW S, NEW R, IsFiniteSet(S), Linear(S, R), NEW c \in S
    PROVE  /\ IsFiniteSet(Lower(S, R, c))
           /\ Cardinality(Lower(S, R, c)) \in 0..(Cardinality(S) - 1)
<1>1. Lower(S, R, c) \in SUBSET S /\ c \notin Lower(S, R, c)
  BY DEF Lower, Linear
<1>2. IsFiniteSet(Lower(S, R, c)) /\ Cardinality(Lower(S, R, c)) <= Cardinality(S)
  BY <1>1, FS_Subset
<1>3. Cardinality(S) # Cardinality(Lower(S, R, c))
  BY <1>1, FS_Subset
<1>4. Cardinality(S) \in Nat /\ Cardinality(Lower(S, R, c)) \in Nat
  BY <1>2, FS_CardinalityType
<1> QED BY <1>2, <1>3, <1>4

\* Of two elements the lower one has the lower rank.
LEMMA RankRises ==
    ASSUME NEW S, NEW R, IsFiniteSet(S), Linear(S, R),
           NEW a \in S, NEW b \in S, <<a, b>> \in R
    PROVE  Cardinality(Lower(S, R, a)) < Cardinality(Lower(S, R, b))
<1>1. Lower(S, R, a) \in SUBSET Lower(S, R, b)
  BY DEF Lower, Linear
<1>2. a \in Lower(S, R, b) /\ a \notin Lower(S, R, a)
  BY DEF Lower, Linear
<1>3. /\ IsFiniteSet(Lower(S, R, b))
      /\ Cardinality(Lower(S, R, a)) \in Nat /\ Cardinality(Lower(S, R, b)) \in Nat
  BY RankRange
<1>4. Cardinality(Lower(S, R, a)) <= Cardinality(Lower(S, R, b))
  BY <1>1, <1>3, FS_Subset
<1>5. Cardinality(Lower(S, R, b)) # Cardinality(Lower(S, R, a))
  BY <1>1, <1>2, <1>3, FS_Subset
<1> QED BY <1>3, <1>4, <1>5

\* Every number below the size is the rank of an element.
LEMMA RankTaken ==
    ASSUME NEW S, NEW R, IsFiniteSet(S), Linear(S, R),
           NEW k \in 0..(Cardinality(S) - 1)
    PROVE  \E c \in S : Cardinality(Lower(S, R, c)) = k
<1> DEFINE n == Cardinality(S)
           rank == [c \in S |-> Cardinality(Lower(S, R, c))]
<1>1. n \in Nat
  BY FS_CardinalityType
<1>2. rank \in [S -> 0..(n - 1)]
  BY RankRange
<1>3. ASSUME NEW a \in S, NEW b \in S, rank[a] = rank[b]
      PROVE  a = b
  <2>1. rank[a] \in Nat /\ rank[b] \in Nat
    BY <1>2
  <2>2. <<a, b>> \notin R
    BY <1>3, <2>1, RankRises
  <2>3. <<b, a>> \notin R
    BY <1>3, <2>1, RankRises
  <2> QED BY <2>2, <2>3 DEF Linear
<1>4. rank \in Injection(S, 0..(n - 1))
  BY <1>2, <1>3 DEF Injection, IsInjective
<1>5. IsFiniteSet(0..(n - 1)) /\ Cardinality(0..(n - 1)) = n
  BY <1>1, FS_Interval
<1>6. rank \in Surjection(S, 0..(n - 1))
  BY <1>4, <1>5, FS_Injection
<1> QED BY <1>6 DEF Surjection

\* InOrder lists each element once, the lower ones first.
LEMMA InOrderSorts ==
    ASSUME NEW S, NEW R, IsFiniteSet(S), Linear(S, R)
    PROVE  LET n == Cardinality(S)
               q == InOrder(S, R)
           IN /\ n \in Nat
              /\ q \in [1..n -> S]
              /\ \A i \in 1..n : Cardinality(Lower(S, R, q[i])) = i - 1
              /\ \A c \in S : \E i \in 1..n : q[i] = c
              /\ \A i, j \in 1..n : <<q[i], q[j]>> \in R => i < j
              /\ \A i, j \in 1..n : i < j => <<q[i], q[j]>> \in R
<1> DEFINE n == Cardinality(S)
           q == InOrder(S, R)
<1>1. n \in Nat
  BY FS_CardinalityType
<1>2. ASSUME NEW i \in 1..n
      PROVE  q[i] \in S /\ Cardinality(Lower(S, R, q[i])) = i - 1
  <2>1. i - 1 \in 0..(n - 1)
    BY <1>1
  <2>2. \E c \in S : Cardinality(Lower(S, R, c)) = i - 1
    BY <2>1, RankTaken
  <2>3. q[i] = CHOOSE c \in S : Cardinality(Lower(S, R, c)) = i - 1
    BY DEF InOrder, Lower
  <2> QED BY <2>2, <2>3
<1>3. q \in [1..n -> S]
  BY <1>2 DEF InOrder
<1>4. ASSUME NEW i \in 1..n, NEW j \in 1..n, <<q[i], q[j]>> \in R
      PROVE  i < j
  BY <1>1, <1>2, <1>4, RankRises
<1>5. ASSUME NEW i \in 1..n, NEW j \in 1..n, i < j
      PROVE  <<q[i], q[j]>> \in R
  <2>1. q[i] # q[j]
    BY <1>1, <1>2, <1>5
  <2>2. <<q[j], q[i]>> \notin R
    BY <1>1, <1>4, <1>5
  <2> QED BY <1>2, <2>1, <2>2 DEF Linear
<1>6. ASSUME NEW c \in S
      PROVE  \E i \in 1..n : q[i] = c
  <2> DEFINE i == Cardinality(Lower(S, R, c)) + 1
  <2>1. i \in 1..n
    BY <1>1, RankRange
  <2>2. Cardinality(Lower(S, R, q[i])) = Cardinality(Lower(S, R, c))
    BY <1>1, <1>2, <2>1, RankRange
  <2>3. q[i] = c
    <3>1. /\ Cardinality(Lower(S, R, q[i])) \in Nat
          /\ Cardinality(Lower(S, R, c)) \in Nat
      BY <1>2, <2>1, RankRange
    <3>2. q[i] \in S
      BY <1>2, <2>1
    <3>3. <<q[i], c>> \notin R
      BY <2>2, <3>1, <3>2, RankRises
    <3>4. <<c, q[i]>> \notin R
      BY <2>2, <3>1, <3>2, RankRises
    <3> QED BY <3>2, <3>3, <3>4 DEF Linear
  <2> QED BY <2>1, <2>3
<1> QED BY <1>1, <1>2, <1>3, <1>4, <1>5, <1>6

LEMMA NumbersInOrder ==
    ASSUME NEW S \in SUBSET Nat
    PROVE  Linear(S, Less)
BY DEF Linear, Less

-----------------------------------------------------------------------------
(* Sequences and finite sets.                                              *)

LEMMA IntervalSize ==
    ASSUME NEW n \in Nat
    PROVE  IsFiniteSet(1..n) /\ Cardinality(1..n) = n
BY FS_Interval

LEMMA ListOf ==
    ASSUME NEW S, NEW n \in Nat, NEW f \in [1..n -> S]
    PROVE  f \in Seq(S) /\ Len(f) = n
OBVIOUS

LEMMA InjectiveLength ==
    ASSUME NEW S, IsFiniteSet(S), NEW p \in Seq(S), IsInjective(p)
    PROVE  /\ IsFiniteSet(ToSet(p))
           /\ Cardinality(ToSet(p)) = Len(p)
<1>1. p \in [1..Len(p) -> S] /\ Len(p) \in Nat /\ DOMAIN p = 1..Len(p)
  OBVIOUS
<1>2. p \in Injection(1..Len(p), ToSet(p))
  BY <1>1 DEF Injection, IsInjective, ToSet
<1>3. p \in Surjection(1..Len(p), ToSet(p))
  BY <1>1 DEF Surjection, ToSet
<1>4. IsFiniteSet(1..Len(p)) /\ Cardinality(1..Len(p)) = Len(p)
  BY <1>1, IntervalSize, Zenon
<1> QED BY <1>1, <1>2, <1>3, <1>4, FS_Surjection

\* What Append and \o do to the elements.
LEMMA OneMore ==
    ASSUME NEW S, NEW p \in Seq(S), IsInjective(p), NEW e \in S, e \notin ToSet(p)
    PROVE  /\ Append(p, e) \in Seq(S)
           /\ IsInjective(Append(p, e))
           /\ ToSet(Append(p, e)) = ToSet(p) \cup {e}
<1> DEFINE a == Append(p, e)
<1>1. /\ a \in Seq(S) /\ Len(a) = Len(p) + 1 /\ Len(p) \in Nat
      /\ DOMAIN p = 1..Len(p) /\ DOMAIN a = 1..(Len(p) + 1)
  OBVIOUS
<1>2. /\ \A i \in 1..Len(p) : a[i] = p[i]
      /\ a[Len(p) + 1] = e
  OBVIOUS
<1>3. \A i \in 1..Len(p) : p[i] # e
  BY <1>1 DEF ToSet
<1>4. IsInjective(a)
  BY <1>1, <1>2, <1>3 DEF IsInjective
<1>5. ToSet(a) = ToSet(p) \cup {e}
  <2>1. ToSet(a) \subseteq ToSet(p) \cup {e}
    BY <1>1, <1>2 DEF ToSet
  <2>2. ToSet(p) \subseteq ToSet(a)
    BY <1>1, <1>2 DEF ToSet
  <2>3. e \in ToSet(a)
    <3>1. Len(p) + 1 \in DOMAIN a
      BY <1>1
    <3> QED BY <1>2, <3>1 DEF ToSet
  <2> QED BY <2>1, <2>2, <2>3
<1> QED BY <1>1, <1>4, <1>5

LEMMA JoinedLists ==
    ASSUME NEW S, NEW p \in Seq(S), NEW q \in Seq(S), IsInjective(p), IsInjective(q),
           ToSet(p) \cap ToSet(q) = {}
    PROVE  /\ p \o q \in Seq(S)
           /\ IsInjective(p \o q)
           /\ ToSet(p \o q) = ToSet(p) \cup ToSet(q)
           /\ Len(p \o q) = Len(p) + Len(q)
<1> DEFINE a == p \o q
<1>1. /\ a \in Seq(S) /\ Len(a) = Len(p) + Len(q) /\ Len(p) \in Nat /\ Len(q) \in Nat
      /\ DOMAIN p = 1..Len(p) /\ DOMAIN q = 1..Len(q) /\ DOMAIN a = 1..(Len(p) + Len(q))
  OBVIOUS
<1>2. /\ \A i \in 1..Len(p) : a[i] = p[i]
      /\ \A i \in 1..(Len(p) + Len(q)) : i > Len(p) => a[i] = q[i - Len(p)]
      /\ \A i \in 1..Len(q) : a[Len(p) + i] = q[i]
  OBVIOUS
<1>3. \A i \in 1..Len(p), j \in 1..Len(q) : p[i] # q[j]
  BY <1>1 DEF ToSet
<1>4. IsInjective(a)
  <2> SUFFICES ASSUME NEW i \in 1..(Len(p) + Len(q)), NEW j \in 1..(Len(p) + Len(q)),
                      a[i] = a[j]
               PROVE  i = j
    BY <1>1 DEF IsInjective
  <2>1. CASE i <= Len(p) /\ j <= Len(p)
    BY <1>1, <1>2, <2>1 DEF IsInjective
  <2>2. CASE i > Len(p) /\ j > Len(p)
    <3>1. i - Len(p) \in 1..Len(q) /\ j - Len(p) \in 1..Len(q)
      BY <1>1, <2>2
    <3>2. q[i - Len(p)] = q[j - Len(p)]
      BY <1>1, <1>2, <2>2
    <3>3. i - Len(p) = j - Len(p)
      BY <1>1, <3>1, <3>2 DEF IsInjective
    <3> QED BY <1>1, <3>3
  <2>3. CASE i <= Len(p) /\ j > Len(p)
    <3>1. j - Len(p) \in 1..Len(q) /\ i \in 1..Len(p)
      BY <1>1, <2>3
    <3> QED BY <1>1, <1>2, <1>3, <2>3, <3>1
  <2>4. CASE i > Len(p) /\ j <= Len(p)
    <3>1. i - Len(p) \in 1..Len(q) /\ j \in 1..Len(p)
      BY <1>1, <2>4
    <3> QED BY <1>1, <1>2, <1>3, <2>4, <3>1
  <2> QED BY <1>1, <2>1, <2>2, <2>3, <2>4
<1>5. ToSet(a) = ToSet(p) \cup ToSet(q)
  <2>1. ASSUME NEW i \in 1..(Len(p) + Len(q))
        PROVE  a[i] \in ToSet(p) \cup ToSet(q)
    <3>1. CASE i <= Len(p)
      BY <1>1, <1>2, <3>1 DEF ToSet
    <3>2. CASE i > Len(p)
      <4>1. i - Len(p) \in 1..Len(q)
        BY <1>1, <3>2
      <4> QED BY <1>1, <1>2, <3>2, <4>1 DEF ToSet
    <3> QED BY <1>1, <3>1, <3>2
  <2>2. ASSUME NEW i \in 1..Len(p)
        PROVE  p[i] \in ToSet(a)
    <3>1. i \in DOMAIN a
      BY <1>1
    <3> QED BY <1>2, <3>1 DEF ToSet
  <2>3. ASSUME NEW i \in 1..Len(q)
        PROVE  q[i] \in ToSet(a)
    <3>1. Len(p) + i \in DOMAIN a
      BY <1>1
    <3> QED BY <1>2, <3>1 DEF ToSet
  <2>4. ToSet(a) \subseteq ToSet(p) \cup ToSet(q)
    BY <1>1, <2>1 DEF ToSet
  <2>5. ToSet(p) \cup ToSet(q) \subseteq ToSet(a)
    BY <1>1, <2>2, <2>3 DEF ToSet
  <2> QED BY <2>4, <2>5
<1> QED BY <1>1, <1>4, <1>5

LEMMA DivTyped ==
    ASSUME NEW a \in Nat, NEW c \in Nat \ {0}
    PROVE  a \div c \in Nat /\ a % c \in Nat
OBVIOUS

LEMMA DivRises ==
    ASSUME NEW a \in Nat, NEW b \in Nat, NEW c \in Nat \ {0}, a <= b
    PROVE  /\ a \div c \in Nat /\ b \div c \in Nat
           /\ a \div c <= b \div c
OBVIOUS

-----------------------------------------------------------------------------
(* The constants, windows and shares.                                      *)

LEMMA TierNames ==
    /\ Len(Tiers) \in Nat \ {0}
    /\ \A i \in 1..Len(Tiers) : Tiers[i] \in Tier
    /\ \A t \in Tier : \E i \in 1..Len(Tiers) : Tiers[i] = t
    /\ \A i, j \in 1..Len(Tiers) : Tiers[i] = Tiers[j] => i = j
<1>1. /\ Tiers \in Seq(STRING) /\ Len(Tiers) > 0 /\ IsInjective(Tiers)
      /\ Len(Tiers) \in Nat /\ DOMAIN Tiers = 1..Len(Tiers)
  BY SelectionAssumption
<1>2. Len(Tiers) \in Nat \ {0}
  BY <1>1
<1> QED BY <1>1, <1>2 DEF Tier, ToSet, IsInjective

LEMMA RowsFinite ==
    /\ Row \in SUBSET Nat
    /\ IsFiniteSet(Row)
    /\ Cardinality(Row) = Rows
    /\ \A S \in SUBSET Row : IsFiniteSet(S) /\ Cardinality(S) \in Nat
<1>1. Row \in SUBSET Nat
  BY SelectionAssumption DEF Row
<1>2. IsFiniteSet(Row) /\ Cardinality(Row) = Rows
  BY SelectionAssumption, IntervalSize DEF Row
<1>3. ASSUME NEW S \in SUBSET Row
      PROVE  IsFiniteSet(S) /\ Cardinality(S) \in Nat
  BY <1>2, FS_Subset, FS_CardinalityType
<1> QED BY <1>1, <1>2, <1>3

\* A larger call looks at no fewer rows of a provider, and at one at least.
LEMMA SharesRise ==
    ASSUME NEW m \in Nat, NEW n \in Nat, m <= n, NEW s \in Source
    PROVE  /\ PerSource(m) \in Nat \ {0}
           /\ PerSource(n) \in Nat \ {0}
           /\ PerSource(m) <= PerSource(n)
<1> DEFINE Size(k) == IF k > PoolSize THEN k ELSE PoolSize
<1>1. Cardinality(Source) \in Nat \ {0}
  BY SelectionAssumption, FS_CardinalityType, FS_EmptySet
<1>2. Size(m) \in Nat /\ Size(n) \in Nat /\ Size(m) <= Size(n)
  BY SelectionAssumption
<1>3. /\ Size(m) \div Cardinality(Source) \in Nat
      /\ Size(n) \div Cardinality(Source) \in Nat
      /\ Size(m) \div Cardinality(Source) <= Size(n) \div Cardinality(Source)
  <2> HIDE DEF Size
  <2> QED BY <1>1, <1>2, DivRises
<1> QED BY <1>3 DEF PerSource

\* A row of a provider outside its window has the whole share ahead of it.
LEMMA WindowFull ==
    ASSUME NEW t, NEW s \in Source, NEW n \in Nat,
           NEW r \in Candidates(t), s \in links[r], r \notin Window(t, s, n)
    PROVE  /\ \A q \in Window(t, s, n) : q \in Candidates(t) /\ s \in links[q] /\ q < r
           /\ Cardinality(Window(t, s, n)) >= PerSource(n)
<1> DEFINE rows == {q \in Candidates(t) : s \in links[q]}
           share == PerSource(n)
           queue == InOrder(rows, Less)
           window == Window(t, s, n)
<1>1. rows \in SUBSET Row /\ r \in rows
  BY DEF Candidates
<1>2. rows \in SUBSET Nat /\ IsFiniteSet(rows) /\ Linear(rows, Less)
  BY <1>1, RowsFinite, NumbersInOrder
<1>3. share \in Nat \ {0}
  BY SharesRise
<1>4. ASSUME NEW q \in rows
      PROVE  Lower(rows, Less, q) = {p \in rows : p < q}
  BY <1>2 DEF Lower, Less
<1>5. window = {q \in rows : Cardinality(Lower(rows, Less, q)) < share}
  BY <1>4 DEF Window
<1>6. Cardinality(Lower(rows, Less, r)) \in Nat /\ Cardinality(Lower(rows, Less, r)) >= share
  BY <1>1, <1>2, <1>3, <1>5, RankRange
<1>7. ASSUME NEW q \in window
      PROVE  q \in rows /\ q < r
  <2>1. q \in rows /\ q # r /\ q \in Nat /\ r \in Nat
    BY <1>1, <1>2, <1>5
  <2>2. ASSUME r < q
        PROVE  FALSE
    <3>1. <<r, q>> \in Less
      BY <2>1, <2>2 DEF Less
    <3>2. Cardinality(Lower(rows, Less, r)) < Cardinality(Lower(rows, Less, q))
      BY <1>1, <1>2, <2>1, <3>1, RankRises
    <3>3. Cardinality(Lower(rows, Less, q)) \in Nat
      BY <1>2, <2>1, RankRange
    <3>4. Cardinality(Lower(rows, Less, q)) < share
      BY <1>5
    <3> QED BY <1>3, <1>6, <3>2, <3>3, <3>4
  <2> QED BY <2>1, <2>2
<1>8. Cardinality(window) >= share
  <2> DEFINE first == [i \in 1..share |-> queue[i]]
  <2>1. /\ Cardinality(rows) \in Nat
        /\ queue \in [1..Cardinality(rows) -> rows]
        /\ \A i \in 1..Cardinality(rows) : Cardinality(Lower(rows, Less, queue[i])) = i - 1
    BY <1>2, InOrderSorts
  <2>2. share <= Cardinality(rows)
    BY <1>1, <1>2, <1>3, <1>6, <2>1, RankRange
  <2>3. ASSUME NEW i \in 1..share
        PROVE  queue[i] \in window /\ Cardinality(Lower(rows, Less, queue[i])) = i - 1
    BY <1>3, <1>5, <2>1, <2>2
  <2>4. ASSUME NEW i \in 1..share, NEW j \in 1..share, queue[i] = queue[j]
        PROVE  i = j
    BY <2>3, <2>4
  <2>5. first \in Injection(1..share, window)
    BY <2>3, <2>4 DEF Injection, IsInjective
  <2>6. window \in SUBSET Row
    BY <1>1, <1>5
  <2>7. IsFiniteSet(window)
    BY <2>6, RowsFinite
  <2>8. Cardinality(1..share) = share
    BY <1>3, IntervalSize
  <2>9. Cardinality(1..share) <= Cardinality(window)
    BY <2>5, <2>7, FS_Injection
  <2> QED BY <1>3, <2>6, <2>8, <2>9, RowsFinite
<1> QED BY <1>7, <1>8

-----------------------------------------------------------------------------
(* The inductive invariant.                                                *)

TypeOK ==
    /\ tier \in [Row -> Tier \cup {"none"}]
    /\ links \in [Row -> SUBSET Source]
    /\ limit \in Nat
    /\ pass \in {"idle", "quota", "extra", "done"}
    /\ pass # "idle" => limit # 0
    /\ stage \in 1..Len(Tiers)
    /\ pass \in {"idle", "done"} => stage = 1 /\ call = NoCall
    /\ pools \in [Tier -> Seq(Row)]

\* A pool holds different rows, each checkable in its tier.
PoolsOK ==
    \A t \in Tier : IsInjective(pools[t]) /\ ToSet(pools[t]) \subseteq Checkable(t)

\* The tiers whose turn is still to come in the first pass.
Untouched ==
    /\ pass = "idle" => \A t \in Tier : pools[t] = <<>>
    /\ pass = "quota" => \A i \in stage..Len(Tiers) : pools[Tiers[i]] = <<>>

QuotaMet(t) ==
    \/ Len(pools[t]) >= Quota
    \/ Len(pools[t]) >= Cardinality(Reach(t))

Quotas ==
    /\ pass = "quota" => \A i \in 1..(stage - 1) : QuotaMet(Tiers[i])
    /\ pass \in {"extra", "done"} => \A t \in Tier : QuotaMet(t)

\* No row of the tier was left out while its provider's share had room.
Reused(t) ==
    \A r \in Checkable(t) \ ToSet(pools[t]) : \A s \in links[r] :
        Cardinality(Ahead(t, s, r)) >= PerSource(1)

Reuse ==
    /\ pass = "extra" => \/ Cardinality(Picked) >= limit
                         \/ \A i \in 1..(stage - 1) : Reused(Tiers[i])
    /\ pass = "done" => \/ Cardinality(Picked) >= limit
                        \/ \A t \in Tier : Reused(t)

Merged == pass = "done" => batch = Interleaved(pools, limit)

\* In round k + 1 a provider has k rows before its turn; after it, it has one
\* more, or its window is used up.
Round(k) ==
    /\ \A i \in 1..Len(call.order) :
         LET s == call.order[i] IN
         \/ i >= call.turn /\ s \notin call.exhausted /\ call.credit[s] = k
         \/ i < call.turn /\ s \notin call.exhausted /\ call.credit[s] = k + 1
         \/ /\ i < call.turn /\ s \in call.exhausted /\ call.credit[s] = k
            /\ call.window[s] \subseteq ToSet(call.picked)
    /\ \A s \in Source :
         /\ call.credit[s] <= k + 1
         /\ \/ s \in ToSet(call.order)
            \/ call.window[s] \subseteq ToSet(call.picked)

CallType ==
    /\ pass \in {"quota", "extra"}
    /\ DOMAIN call = {"open", "wanted", "window", "order", "turn", "picked",
                      "credit", "progress", "exhausted"}
    /\ call.wanted = Wanted /\ Wanted > 0
    /\ call.window = [s \in Source |-> Window(Tiers[stage], s, Wanted)]
    /\ call.order \in Seq(Source) /\ IsInjective(call.order)
    /\ call.turn \in 1..(Len(call.order) + 1)
    /\ call.picked \in Seq(Row) /\ IsInjective(call.picked)
    /\ ToSet(call.picked) \subseteq Candidates(Tiers[stage])
    /\ call.credit \in [Source -> Nat]
    /\ call.exhausted \subseteq Source
    /\ call.progress \in BOOLEAN

CallOK ==
    \/ call = NoCall
    \/ /\ call.open
       /\ CallType
       /\ \E k \in Nat : Round(k)
       /\ \/ call.progress
          \/ \A i \in 1..(call.turn - 1) : call.order[i] \in call.exhausted

Inv ==
    /\ TypeOK /\ PoolsOK /\ Untouched /\ Quotas /\ Reuse /\ Merged /\ CallOK

-----------------------------------------------------------------------------
(* What a finished call contributes.                                       *)

\* The call of the stage may return p: as many rows as it was asked for, or
\* all the rows of the windows.
Ended(p) ==
    /\ p \in Seq(Row) /\ IsInjective(p)
    /\ ToSet(p) \subseteq Candidates(Tiers[stage])
    /\ \/ Len(p) >= Wanted
       \/ \A s \in Source : Window(Tiers[stage], s, Wanted) \subseteq ToSet(p)

Joined(p) == [pools EXCEPT ![Tiers[stage]] = @ \o p]

RowsOf(ps) == UNION {ToSet(ps[t]) : t \in Tier}

LEMMA PoolsGrow ==
    ASSUME TypeOK, PoolsOK, NEW p, Ended(p), NEW ps, ps = Joined(p)
    PROVE  /\ ps \in [Tier -> Seq(Row)]
           /\ Tiers[stage] \in Tier
           /\ ps[Tiers[stage]] = pools[Tiers[stage]] \o p
           /\ \A u \in Tier : u # Tiers[stage] => ps[u] = pools[u]
           /\ \A u \in Tier :
                /\ IsInjective(ps[u]) /\ ToSet(ps[u]) \subseteq Checkable(u)
                /\ ToSet(pools[u]) \subseteq ToSet(ps[u])
                /\ Len(ps[u]) >= Len(pools[u])
           /\ RowsOf(ps) = Picked \cup ToSet(p)
           /\ Picked \cap ToSet(p) = {}
           /\ ToSet(ps[Tiers[stage]]) = ToSet(pools[Tiers[stage]]) \cup ToSet(p)
           /\ Len(ps[Tiers[stage]]) = Len(pools[Tiers[stage]]) + Len(p)
<1> DEFINE t == Tiers[stage]
<1>1. t \in Tier /\ pools \in [Tier -> Seq(Row)] /\ p \in Seq(Row)
  BY TierNames DEF TypeOK, Ended
<1>2. ps[t] = pools[t] \o p /\ \A u \in Tier : u # t => ps[u] = pools[u]
  BY <1>1 DEF Joined
<1>3. Picked \cap ToSet(p) = {} /\ ToSet(p) \subseteq Checkable(t)
  BY DEF Ended, Candidates, Checkable
<1>4. ToSet(pools[t]) \subseteq Picked
  BY <1>1 DEF Picked
<1>5. /\ ps[t] \in Seq(Row) /\ IsInjective(ps[t])
      /\ ToSet(ps[t]) = ToSet(pools[t]) \cup ToSet(p)
      /\ Len(ps[t]) = Len(pools[t]) + Len(p)
  <2>1. IsInjective(pools[t]) /\ IsInjective(p) /\ ToSet(pools[t]) \cap ToSet(p) = {}
    BY <1>1, <1>3, <1>4 DEF PoolsOK, Ended
  <2>2. pools[t] \in Seq(Row)
    BY <1>1
  <2>3. p \in Seq(Row) /\ IsInjective(pools[t]) /\ IsInjective(p)
    BY <1>1, <2>1
  <2> DEFINE own == pools[t]
  <2>4. own \in Seq(Row) /\ IsInjective(own) /\ ToSet(own) \cap ToSet(p) = {}
    BY <2>1, <2>2
  <2>5. /\ ps[t] = own \o p
        /\ ToSet(own) = ToSet(pools[t]) /\ Len(own) = Len(pools[t])
    BY <1>2
  <2> HIDE DEF own
  <2>6. /\ own \o p \in Seq(Row) /\ IsInjective(own \o p)
        /\ ToSet(own \o p) = ToSet(own) \cup ToSet(p)
        /\ Len(own \o p) = Len(own) + Len(p)
    BY <2>3, <2>4, JoinedLists
  <2> QED BY <2>5, <2>6
<1>6. ps \in [Tier -> Seq(Row)]
  BY <1>1, <1>2, <1>5 DEF Joined
<1>7. ASSUME NEW u \in Tier
      PROVE  /\ IsInjective(ps[u]) /\ ToSet(ps[u]) \subseteq Checkable(u)
             /\ ToSet(pools[u]) \subseteq ToSet(ps[u])
             /\ Len(ps[u]) >= Len(pools[u])
  <2>1. Len(pools[u]) \in Nat /\ Len(p) \in Nat
    BY <1>1
  <2>2. CASE u = t
    BY <1>3, <1>5, <2>1, <2>2 DEF PoolsOK
  <2>3. CASE u # t
    BY <1>2, <2>1, <2>3 DEF PoolsOK
  <2> QED BY <2>2, <2>3
<1>8. RowsOf(ps) = Picked \cup ToSet(p)
  <2>1. RowsOf(ps) \subseteq Picked \cup ToSet(p)
    BY <1>1, <1>2, <1>5 DEF RowsOf, Picked
  <2>2. Picked \subseteq RowsOf(ps)
    BY <1>7 DEF RowsOf, Picked
  <2>3. ToSet(p) \subseteq RowsOf(ps)
    BY <1>1, <1>5 DEF RowsOf
  <2> QED BY <2>1, <2>2, <2>3
<1> QED BY <1>1, <1>2, <1>3, <1>5, <1>6, <1>7, <1>8

\* In the first pass the tier of the call meets its quota.
LEMMA QuotaReached ==
    ASSUME TypeOK, PoolsOK, Untouched, pass = "quota", NEW p, Ended(p)
    PROVE  \/ Len(p) >= Quota
           \/ Len(p) >= Cardinality(Reach(Tiers[stage]))
<1> DEFINE t == Tiers[stage]
<1>1. t \in Tier /\ pools[t] = <<>> /\ Len(Tiers) \in Nat \ {0} /\ stage \in 1..Len(Tiers)
  BY TierNames DEF TypeOK, Untouched
<1>2. Quota \in Nat /\ limit % Len(Tiers) \in Nat /\ limit \in Nat
  <2>1. limit \in Nat
    BY DEF TypeOK
  <2>2. limit \div Len(Tiers) \in Nat /\ limit % Len(Tiers) \in Nat
    BY <1>1, <2>1, DivTyped, Zenon
  <2> QED BY <2>1, <2>2 DEF Quota
<1>3. Wanted \in Nat /\ Wanted >= Quota
  BY <1>1, <1>2 DEF Wanted, Slot, Quota
<1>4. p \in Seq(Row) /\ IsInjective(p) /\ Len(p) \in Nat
  BY DEF Ended
<1>5. CASE Len(p) >= Wanted
  BY <1>2, <1>3, <1>4, <1>5
<1>6. CASE \A s \in Source : Window(t, s, Wanted) \subseteq ToSet(p)
  <2>1. Candidates(t) = Checkable(t)
    <3>1. ASSUME NEW r \in Checkable(t), r \in Picked
          PROVE  FALSE
      <4>1. PICK u \in Tier : r \in ToSet(pools[u])
        BY <3>1 DEF Picked
      <4>2. u = t
        BY <3>1, <4>1 DEF PoolsOK, Checkable
      <4> QED BY <1>1, <4>1, <4>2 DEF ToSet
    <3> QED BY <3>1 DEF Candidates, Checkable
  <2>2. ASSUME NEW s \in Source, NEW r \in Oldest(t, s)
        PROVE  r \in ToSet(p)
    <3> DEFINE rows == {q \in Checkable(t) : s \in links[q]}
               older == {q \in rows : q < r}
    <3>1. r \in rows /\ Cardinality(older) < PerSource(Quota)
      BY DEF Oldest
    <3>2. older \in SUBSET Row
      BY DEF Checkable
    <3>3. Cardinality(older) \in Nat
      BY <3>2, RowsFinite
    <3>4. /\ PerSource(Quota) \in Nat /\ PerSource(Wanted) \in Nat
          /\ PerSource(Quota) <= PerSource(Wanted)
      BY <1>2, <1>3, SharesRise
    <3>5. Cardinality(older) < PerSource(Wanted)
      BY <3>1, <3>3, <3>4
    <3>6. r \in Window(t, s, Wanted)
      BY <2>1, <3>1, <3>5 DEF Window
    <3> QED BY <1>6, <3>6
  <2>3. Reach(t) \in SUBSET ToSet(p)
    BY <2>2 DEF Reach
  <2>4. IsFiniteSet(ToSet(p)) /\ Cardinality(ToSet(p)) = Len(p)
    BY <1>4, RowsFinite, InjectiveLength
  <2>5. Cardinality(Reach(t)) <= Cardinality(ToSet(p)) /\ IsFiniteSet(Reach(t))
    BY <2>3, <2>4, FS_Subset
  <2> QED BY <1>4, <2>4, <2>5, FS_CardinalityType
<1> QED BY <1>5, <1>6 DEF Ended

\* In the second pass the tier of the call is used up within the windows, or
\* the batch is full.
LEMMA SlotsReached ==
    ASSUME TypeOK, PoolsOK, pass = "extra", NEW p, Ended(p), NEW ps, ps = Joined(p),
           Cardinality(RowsOf(ps)) < limit
    PROVE  \A r \in Checkable(Tiers[stage]) \ ToSet(ps[Tiers[stage]]) : \A s \in links[r] :
             Cardinality({q \in ToSet(ps[Tiers[stage]]) : s \in links[q] /\ q < r})
                 >= PerSource(1)
<1> DEFINE t == Tiers[stage]
           picked == ToSet(ps[t])
<1>1. /\ t \in Tier /\ RowsOf(ps) = Picked \cup ToSet(p) /\ Picked \cap ToSet(p) = {}
      /\ picked = ToSet(pools[t]) \cup ToSet(p)
      /\ picked \subseteq Checkable(t)
  BY PoolsGrow
<1>2. Picked \in SUBSET Row /\ ToSet(p) \in SUBSET Row
  BY DEF PoolsOK, Picked, Checkable, Ended, Candidates
<1>3. /\ IsFiniteSet(Picked) /\ Cardinality(Picked) \in Nat
      /\ IsFiniteSet(ToSet(p)) /\ Cardinality(ToSet(p)) \in Nat
  BY <1>2, RowsFinite
<1>4. Cardinality(ToSet(p)) = Len(p) /\ Len(p) \in Nat
  BY RowsFinite, InjectiveLength DEF Ended
<1>5. Cardinality(RowsOf(ps)) = Cardinality(Picked) + Len(p)
  <2>1. Cardinality(Picked \cup ToSet(p))
          = Cardinality(Picked) + Cardinality(ToSet(p)) - Cardinality(Picked \cap ToSet(p))
    BY <1>3, FS_Union
  <2>2. Cardinality(Picked \cap ToSet(p)) = 0
    BY <1>1, FS_EmptySet
  <2> QED BY <1>1, <1>3, <1>4, <2>1, <2>2
<1>6. Wanted = limit - Cardinality(Picked) /\ limit \in Nat
  BY DEF Wanted, Shortfall, TypeOK
<1>7. Wanted \in Nat \ {0} /\ Len(p) < Wanted
  BY <1>3, <1>4, <1>5, <1>6
<1>8. \A s \in Source : Window(t, s, Wanted) \subseteq ToSet(p)
  BY <1>4, <1>7 DEF Ended
<1>9. ASSUME NEW r \in Checkable(t) \ picked, NEW s \in links[r]
      PROVE  Cardinality({q \in picked : s \in links[q] /\ q < r}) >= PerSource(1)
  <2> DEFINE ahead == {q \in picked : s \in links[q] /\ q < r}
             window == Window(t, s, Wanted)
  <2>1. s \in Source /\ r \in Row
    BY DEF TypeOK, Checkable
  <2>2. r \notin Picked
    <3>1. ASSUME NEW u \in Tier, r \in ToSet(pools[u])
          PROVE  u = t
      BY <3>1 DEF PoolsOK, Checkable
    <3> QED BY <1>1, <3>1 DEF Picked
  <2>3. r \in Candidates(t)
    BY <2>2 DEF Candidates, Checkable
  <2>4. window \subseteq ToSet(p) /\ r \notin window
    BY <1>1, <1>8, <2>1
  <2>5. /\ \A q \in window : q \in Candidates(t) /\ s \in links[q] /\ q < r
        /\ Cardinality(window) >= PerSource(Wanted)
    BY <1>7, <2>1, <2>3, <2>4, WindowFull
  <2>6. window \in SUBSET ahead /\ ahead \in SUBSET Row /\ window \in SUBSET Row
    BY <1>1, <2>4, <2>5 DEF Checkable
  <2>7. /\ IsFiniteSet(ahead) /\ Cardinality(ahead) \in Nat /\ Cardinality(window) \in Nat
        /\ Cardinality(window) <= Cardinality(ahead)
    <3>1. IsFiniteSet(ahead) /\ Cardinality(ahead) \in Nat /\ Cardinality(window) \in Nat
      BY <2>6, RowsFinite
    <3>2. Cardinality(window) <= Cardinality(ahead)
      BY <2>6, <3>1, FS_Subset
    <3> QED BY <3>1, <3>2
  <2>8. /\ PerSource(1) \in Nat /\ PerSource(Wanted) \in Nat
        /\ PerSource(1) <= PerSource(Wanted)
    BY <1>7, <2>1, SharesRise
  <2> QED BY <2>5, <2>7, <2>8
<1> QED BY <1>9

-----------------------------------------------------------------------------
(* Every step keeps the invariant.                                         *)

\* The rows a batch is drawn from do not change while it is selected.
LEMMA SameRows ==
    ASSUME UNCHANGED <<tier, links, limit>>
    PROVE  /\ \A t : Checkable(t)' = Checkable(t)
           /\ \A t : Reach(t)' = Reach(t)
           /\ Quota' = Quota
<1>1. Quota' = Quota
  BY DEF Quota
<1>2. ASSUME NEW t
      PROVE  Checkable(t)' = Checkable(t)
  BY DEF Checkable
<1>3. ASSUME NEW t
      PROVE  Reach(t)' = Reach(t)
  <2>1. ASSUME NEW s
        PROVE  Oldest(t, s)' = Oldest(t, s)
    BY <1>1, <1>2 DEF Oldest
  <2> QED BY <2>1 DEF Reach
<1> QED BY <1>1, <1>2, <1>3

LEMMA InitInv == Init => Inv
<1> SUFFICES ASSUME Init
             PROVE  Inv
  OBVIOUS
<1>1. TypeOK
  BY TierNames DEF Init, TypeOK
<1>2. PoolsOK
  BY DEF Init, PoolsOK, IsInjective, ToSet
<1>3. Untouched /\ Quotas /\ Reuse /\ Merged /\ CallOK
  BY DEF Init, Untouched, Quotas, Reuse, Merged, CallOK
<1> QED BY <1>1, <1>2, <1>3 DEF Inv

LEMMA BeginStep ==
    ASSUME Inv, Begin
    PROVE  Inv'
<1> USE DEF Begin
<1>1. TypeOK /\ pools' = pools /\ pass' = "quota" /\ stage' = stage /\ stage = 1
      /\ (\A t \in Tier : pools[t] = <<>>) /\ call' = call /\ call = NoCall
  BY DEF Inv, TypeOK, Untouched
<1>2. TypeOK'
  <2>1. PICK n \in 0..Rows :
          /\ \E f \in [1..n -> Tier] :
               tier' = [r \in Row |-> IF r <= n THEN f[r] ELSE "none"]
          /\ \E f \in [1..n -> SUBSET Source \ {{}}] :
               links' = [r \in Row |-> IF r <= n THEN f[r] ELSE {}]
    OBVIOUS
  <2>2. \A r \in Row : r \in Nat /\ r >= 1
    BY SelectionAssumption DEF Row
  <2>3. tier' \in [Row -> Tier \cup {"none"}]
    BY <2>1, <2>2
  <2>4. links' \in [Row -> SUBSET Source]
    BY <2>1, <2>2
  <2>5. limit' \in Nat /\ limit' # 0
    BY SelectionAssumption
  <2> QED BY <1>1, <2>3, <2>4, <2>5 DEF TypeOK
<1>3. PoolsOK'
  BY <1>1 DEF PoolsOK, IsInjective, ToSet
<1>4. Untouched'
  BY <1>1, TierNames DEF Untouched
<1>5. Quotas' /\ Reuse' /\ Merged' /\ CallOK'
  BY <1>1 DEF Quotas, Reuse, Merged, CallOK
<1> QED BY <1>2, <1>3, <1>4, <1>5 DEF Inv

LEMMA ReturnStep ==
    ASSUME Inv, Return
    PROVE  Inv'
<1> USE DEF Return
<1>1. TypeOK /\ stage = 1 /\ call = NoCall
  BY DEF Inv, TypeOK
<1>2. TypeOK'
  BY <1>1 DEF TypeOK
<1>3. PoolsOK'
  BY DEF PoolsOK, IsInjective, ToSet
<1>4. Untouched' /\ Quotas' /\ Reuse' /\ Merged' /\ CallOK'
  BY <1>1 DEF Untouched, Quotas, Reuse, Merged, CallOK
<1> QED BY <1>2, <1>3, <1>4 DEF Inv

\* A call ends and the selection moves on.
LEMMA AdvanceStep ==
    ASSUME Inv, pass \in {"quota", "extra"}, NEW p, Ended(p),
           NEW ps, ps = Joined(p), Advance(ps)
    PROVE  Inv'
<1> DEFINE here == Tiers[stage]
           n == Len(Tiers)
<1>1. /\ UNCHANGED <<tier, links, limit>> /\ pools' = ps /\ call' = NoCall
      /\ TypeOK /\ PoolsOK /\ Untouched /\ Quotas /\ Reuse
  BY DEF Inv, Advance
<1>2. /\ ps \in [Tier -> Seq(Row)] /\ here \in Tier
      /\ \A u \in Tier : u # here => ps[u] = pools[u]
      /\ \A u \in Tier :
           /\ IsInjective(ps[u]) /\ ToSet(ps[u]) \subseteq Checkable(u)
           /\ ToSet(pools[u]) \subseteq ToSet(ps[u])
           /\ Len(ps[u]) >= Len(pools[u])
      /\ RowsOf(ps) = Picked \cup ToSet(p)
      /\ Len(ps[here]) = Len(pools[here]) + Len(p)
  BY <1>1, PoolsGrow
<1>3. /\ n \in Nat \ {0} /\ stage \in 1..n /\ limit \in Nat /\ limit # 0
      /\ Cardinality(RowsOf(ps)) \in Nat
  <2>1. RowsOf(ps) \in SUBSET Row
    BY <1>2 DEF RowsOf, Checkable
  <2>2. Cardinality(RowsOf(ps)) \in Nat
    BY <2>1, RowsFinite
  <2> QED BY <1>1, <2>2, TierNames DEF TypeOK
<1>4. /\ \A t : Checkable(t)' = Checkable(t)
      /\ \A t : Reach(t)' = Reach(t)
      /\ Quota' = Quota
      /\ Picked' = RowsOf(ps)
  <2>1. Picked' = RowsOf(ps)
    BY <1>1 DEF Picked, RowsOf
  <2> QED BY <1>1, <2>1, SameRows
\* The three ways on.
<1>5. \/ /\ pass' = pass /\ stage < n /\ stage' = stage + 1
         /\ pass = "extra" => Cardinality(RowsOf(ps)) < limit
      \/ pass = "quota" /\ pass' = "extra" /\ stage = n /\ stage' = 1
      \/ /\ pass' = "done" /\ stage' = 1 /\ batch' = Interleaved(ps, limit)
         /\ stage = n \/ Cardinality(RowsOf(ps)) >= limit
         /\ pass = "quota" => stage = n /\ Cardinality(RowsOf(ps)) >= limit
  BY <1>1, <1>3 DEF Advance, RowsOf
<1>6. TypeOK'
  BY <1>1, <1>2, <1>3, <1>5 DEF TypeOK
<1>7. PoolsOK'
  BY <1>1, <1>2, <1>4 DEF PoolsOK
<1>8. Untouched'
  <2> SUFFICES ASSUME pass' = "quota", NEW i \in (stage')..n
               PROVE  ps[Tiers[i]] = <<>>
    BY <1>1, <1>5 DEF Untouched
  <2>1. pass = "quota" /\ i \in stage..n /\ i # stage /\ i \in 1..n
    BY <1>3, <1>5
  <2>2. Tiers[i] \in Tier /\ Tiers[i] # here
    BY <1>3, <2>1, TierNames
  <2> QED BY <1>1, <1>2, <2>1, <2>2 DEF Untouched
<1>9. Quotas'
  <2>1. ASSUME NEW t \in Tier, QuotaMet(t)
        PROVE  QuotaMet(t)'
    <3>1. Len(ps[t]) >= Len(pools[t]) /\ Len(ps[t]) \in Nat /\ Len(pools[t]) \in Nat
      BY <1>1, <1>2 DEF TypeOK
    <3>2. Quota \in Nat
      BY <1>3, DivTyped DEF Quota
    <3>3. Cardinality(Reach(t)) \in Nat
      <4>1. Reach(t) \in SUBSET Row
        BY DEF Reach, Oldest, Checkable
      <4> QED BY <4>1, RowsFinite
    <3>4. Len(ps[t]) >= Quota \/ Len(ps[t]) >= Cardinality(Reach(t))
      BY <2>1, <3>1, <3>2, <3>3 DEF QuotaMet
    <3> QED BY <1>1, <1>4, <3>4 DEF QuotaMet
  <2>2. ASSUME pass = "quota", NEW t \in Tier, t = here
        PROVE  QuotaMet(t)'
    <3>1. Len(p) >= Quota \/ Len(p) >= Cardinality(Reach(here))
      BY <1>1, <2>2, QuotaReached
    <3>2. pools[here] = <<>>
      BY <1>1, <1>3, <2>2 DEF Untouched
    <3>3. Len(ps[here]) = Len(p)
      BY <1>2, <3>2 DEF Ended
    <3> QED BY <1>1, <1>4, <2>2, <3>1, <3>3 DEF QuotaMet
  <2>3. ASSUME pass = "quota", NEW i \in 1..stage
        PROVE  QuotaMet(Tiers[i])'
    <3>1. CASE i = stage
      BY <1>2, <2>2, <2>3, <3>1
    <3>2. CASE i # stage
      <4>1. i \in 1..(stage - 1) /\ i \in 1..n
        BY <1>3, <3>2
      <4>2. QuotaMet(Tiers[i]) /\ Tiers[i] \in Tier
        BY <1>1, <2>3, <4>1, TierNames DEF Quotas
      <4> QED BY <2>1, <4>2
    <3> QED BY <3>1, <3>2
  <2>4. ASSUME pass = "quota", stage = n, NEW t \in Tier
        PROVE  QuotaMet(t)'
    <3>1. PICK i \in 1..n : Tiers[i] = t
      BY TierNames
    <3> QED BY <2>3, <2>4, <3>1
  <2>5. ASSUME pass = "extra", NEW t \in Tier
        PROVE  QuotaMet(t)'
    BY <1>1, <2>1, <2>5 DEF Quotas
  <2>6. pass' \in {"extra", "done"} => \A t \in Tier : QuotaMet(t)'
    BY <1>5, <2>4, <2>5
  <2>7. ASSUME pass' = "quota"
        PROVE  \A i \in 1..(stage' - 1) : QuotaMet(Tiers[i])'
    <3>1. pass = "quota" /\ stage' - 1 = stage
      BY <1>3, <1>5, <2>7
    <3> QED BY <2>3, <3>1
  <2> QED BY <2>6, <2>7 DEF Quotas
<1>10. Reuse'
  <2> DEFINE left == Cardinality(RowsOf(ps)) < limit
  <2>1. ASSUME left
        PROVE  Cardinality(Picked) < limit
    <3>1. RowsOf(ps) \in SUBSET Row /\ Picked \in SUBSET RowsOf(ps)
      BY <1>2 DEF RowsOf, Checkable
    <3>2. IsFiniteSet(RowsOf(ps)) /\ Cardinality(Picked) \in Nat
      BY <3>1, RowsFinite
    <3>3. Cardinality(Picked) <= Cardinality(RowsOf(ps))
      BY <3>1, <3>2, FS_Subset
    <3> QED BY <1>3, <2>1, <3>2, <3>3
  <2>2. ASSUME pass = "extra", left, NEW t \in Tier, t = here
        PROVE  Reused(t)'
    <3>1. \A r \in Checkable(here) \ ToSet(ps[here]) : \A s \in links[r] :
            Cardinality({q \in ToSet(ps[here]) : s \in links[q] /\ q < r}) >= PerSource(1)
      BY <1>1, <2>2, SlotsReached
    <3> QED BY <1>1, <1>4, <2>2, <3>1 DEF Reused, Ahead
  <2>3. ASSUME NEW t \in Tier, t # here, Reused(t)
        PROVE  Reused(t)'
    <3>1. pools[t] = ps[t]
      BY <1>2, <2>3
    <3> QED BY <1>1, <1>4, <2>3, <3>1 DEF Reused, Ahead
  <2>4. ASSUME pass = "extra", left, NEW i \in 1..stage
        PROVE  Reused(Tiers[i])'
    <3>1. CASE i = stage
      BY <1>2, <2>2, <2>4, <3>1
    <3>2. CASE i # stage
      <4>1. i \in 1..(stage - 1) /\ i \in 1..n
        BY <1>3, <3>2
      <4>2. Reused(Tiers[i]) /\ Tiers[i] \in Tier /\ Tiers[i] # here
        <5>1. Cardinality(Picked) \in Nat
          <6>1. Picked \in SUBSET Row
            BY <1>1 DEF Picked, PoolsOK, Checkable
          <6> QED BY <6>1, RowsFinite
        <5>2. ~(Cardinality(Picked) >= limit)
          BY <1>3, <2>1, <2>4, <5>1
        <5> QED BY <1>1, <1>3, <2>4, <3>2, <4>1, <5>2, TierNames DEF Reuse
      <4> QED BY <2>3, <4>2
    <3> QED BY <3>1, <3>2
  <2>5. ASSUME pass' = "extra"
        PROVE  \/ Cardinality(RowsOf(ps)) >= limit
               \/ \A i \in 1..(stage' - 1) : Reused(Tiers[i])'
    <3>1. CASE pass = "quota"
      <4>1. stage' = 1
        BY <1>5, <2>5, <3>1
      <4> QED BY <4>1
    <3>2. CASE pass = "extra"
      <4>1. stage' - 1 = stage /\ left
        BY <1>3, <1>5, <2>5, <3>2
      <4> QED BY <2>4, <3>2, <4>1
    <3> QED BY <3>1, <3>2
  <2>6. ASSUME pass' = "done"
        PROVE  \/ Cardinality(RowsOf(ps)) >= limit
               \/ \A t \in Tier : Reused(t)'
    <3>1. CASE pass = "quota"
      BY <1>5, <2>6, <3>1
    <3>2. CASE pass = "extra" /\ left
      <4>1. stage = n
        BY <1>3, <1>5, <2>6, <3>2
      <4> QED BY <2>4, <3>2, <4>1, TierNames
    <3>3. CASE ~left
      BY <1>3, <3>3
    <3> QED BY <3>1, <3>2, <3>3
  <2> QED BY <1>1, <1>4, <2>5, <2>6 DEF Reuse
<1>11. Merged' /\ CallOK'
  BY <1>1, <1>5 DEF Merged, CallOK
<1> QED BY <1>6, <1>7, <1>8, <1>9, <1>10, <1>11 DEF Inv


\* What a call looks at does not change during the call.
LEMMA SameCall ==
    ASSUME UNCHANGED <<tier, links, limit, pass, stage, pools>>
    PROVE  /\ Picked' = Picked
           /\ Wanted' = Wanted
           /\ \A t : Candidates(t)' = Candidates(t)
           /\ \A t, s, n : Window(t, s, n)' = Window(t, s, n)
<1>1. Picked' = Picked
  BY DEF Picked
<1>2. Wanted' = Wanted
  BY <1>1 DEF Wanted, Shortfall, Slot
<1>3. ASSUME NEW t
      PROVE  Candidates(t)' = Candidates(t)
  BY <1>1 DEF Candidates
<1>4. ASSUME NEW t, NEW s, NEW n
      PROVE  Window(t, s, n)' = Window(t, s, n)
  BY <1>3 DEF Window
<1> QED BY <1>1, <1>2, <1>3, <1>4

LEMMA CallStep ==
    ASSUME Inv, pass \in {"quota", "extra"},
           UNCHANGED <<tier, links, limit, pass, stage, pools, batch>>, CallOK'
    PROVE  Inv'
<1>1. TypeOK'
  BY DEF Inv, TypeOK
<1>2. PoolsOK'
  BY SameRows DEF Inv, PoolsOK
<1>3. Untouched'
  BY DEF Inv, Untouched
<1>4. ASSUME NEW t, QuotaMet(t)
      PROVE  QuotaMet(t)'
  BY <1>4, SameRows DEF QuotaMet
<1>5. ASSUME NEW t, Reused(t)
      PROVE  Reused(t)'
  BY <1>5, SameRows DEF Reused, Ahead
<1>6. Quotas'
  BY <1>4 DEF Inv, Quotas
<1>7. Reuse'
  BY <1>5, SameCall DEF Inv, Reuse
<1>8. Merged'
  BY DEF Merged
<1> QED BY <1>1, <1>2, <1>3, <1>6, <1>7, <1>8 DEF Inv

LEMMA WantedTyped ==
    ASSUME TypeOK, PoolsOK
    PROVE  Wanted \in Int
<1>1. limit \in Nat /\ Len(Tiers) \in Nat \ {0}
  BY TierNames DEF TypeOK
<1>2. limit \div Len(Tiers) \in Nat
  BY <1>1, DivTyped, Zenon
<1>3. Picked \in SUBSET Row
  BY DEF PoolsOK, Picked, Checkable
<1>4. Cardinality(Picked) \in Nat
  BY <1>3, RowsFinite
<1> QED BY <1>1, <1>2, <1>4 DEF Wanted, Slot, Shortfall

LEMMA OpenStep ==
    ASSUME Inv, Open
    PROVE  Inv'
<1> DEFINE t == Tiers[stage]
           window == [s \in Source |-> Window(t, s, Wanted)]
           providers == {s \in Source : window[s] # {}}
<1>1. TypeOK /\ PoolsOK /\ pass \in {"quota", "extra"}
  BY DEF Inv, Open
<1>2. t \in Tier /\ pools \in [Tier -> Seq(Row)]
  BY <1>1, TierNames DEF TypeOK
<1>3. CASE Wanted <= 0 \/ providers = {}
  <2> DEFINE none == <<>>
  <2>1. Advance(pools)
    BY <1>3 DEF Open
  <2>2. none \in Seq(Row) /\ IsInjective(none) /\ ToSet(none) = {} /\ Len(none) = 0
    BY DEF IsInjective, ToSet
  <2>3. Len(none) >= Wanted \/ \A s \in Source : Window(t, s, Wanted) \subseteq ToSet(none)
    BY <1>1, <1>3, <2>2, WantedTyped
  <2>4. Ended(none)
    BY <2>2, <2>3 DEF Ended
  <2>5. pools[t] \o none = pools[t]
    BY <1>2
  <2>6. pools = Joined(none)
    BY <1>2, <2>5 DEF Joined
  <2> QED BY <1>1, <2>1, <2>4, <2>6, AdvanceStep
<1>4. CASE ~(Wanted <= 0 \/ providers = {})
  <2>1. PICK order \in SetToSeqs(providers) :
          call' = [open |-> TRUE, wanted |-> Wanted,
                   window |-> window, order |-> order, turn |-> 1,
                   picked |-> <<>>, credit |-> [s \in Source |-> 0],
                   progress |-> FALSE, exhausted |-> {}]
    BY <1>4 DEF Open
  <2>2. UNCHANGED <<tier, links, limit, pass, stage, pools, batch>>
    BY <1>4 DEF Open
  <2>3. Wanted \in Int /\ Wanted > 0
    BY <1>1, <1>4, WantedTyped
  <2>4. /\ Cardinality(providers) \in Nat /\ IsFiniteSet(providers)
        /\ order \in Injection(1..Cardinality(providers), providers)
    <3>1. IsFiniteSet(providers)
      BY SelectionAssumption, FS_Subset
    <3>2. Cardinality(providers) \in Nat
      BY <3>1, FS_CardinalityType
    <3>3. /\ order \in [1..Cardinality(providers) -> providers]
          /\ \A i, j \in 1..Cardinality(providers) : i # j => order[i] # order[j]
      BY DEF SetToSeqs
    <3>4. IsInjective(order)
      BY <3>3 DEF IsInjective
    <3> QED BY <3>1, <3>2, <3>3, <3>4 DEF Injection
  <2>5. order \in Surjection(1..Cardinality(providers), providers)
    <3>1. Cardinality(1..Cardinality(providers)) = Cardinality(providers)
      BY <2>4, IntervalSize
    <3> QED BY <2>4, <3>1, FS_Injection
  <2>6. /\ order \in Seq(Source) /\ IsInjective(order)
        /\ Len(order) = Cardinality(providers)
        /\ ToSet(order) = providers
    <3>1. order \in [1..Cardinality(providers) -> Source] /\ IsInjective(order)
      BY <2>4 DEF Injection
    <3>2. order \in Seq(Source) /\ Len(order) = Cardinality(providers)
      BY <2>4, <3>1, ListOf, Zenon
    <3>3. ToSet(order) \subseteq providers
      BY <2>4 DEF Injection, ToSet
    <3>4. providers \subseteq ToSet(order)
      BY <2>5 DEF Surjection, ToSet
    <3> QED BY <3>1, <3>2, <3>3, <3>4
  <2>7. /\ Wanted' = Wanted
        /\ \A u : Candidates(u)' = Candidates(u)
        /\ \A u, s, n : Window(u, s, n)' = Window(u, s, n)
    BY <2>2, SameCall
  <2>8. CallType'
    <3>1. window = [s \in Source |-> Window(Tiers[stage], s, Wanted)]'
      BY <2>2, <2>7
    <3>2. <<>> \in Seq(Row) /\ IsInjective(<<>>) /\ ToSet(<<>>) = {}
      BY DEF IsInjective, ToSet
    <3>3. 1 \in 1..(Len(order) + 1)
      BY <2>4, <2>6
    <3> HIDE DEF window
    <3>4. call'.window = [s \in Source |-> Window(Tiers[stage], s, Wanted)]'
      BY <2>1, <3>1
    <3> QED BY <1>1, <2>1, <2>2, <2>3, <2>6, <2>7, <3>2, <3>3, <3>4 DEF CallType
  <2>9. Round(0)'
    <3>1. ASSUME NEW s \in Source
          PROVE  s \in ToSet(order) \/ window[s] \subseteq {}
      BY <2>6
    <3>2. ToSet(<<>>) = {}
      BY DEF ToSet
    <3>3. ASSUME NEW i \in 1..Len(order)
          PROVE  i >= 1 /\ order[i] \in Source
      BY <2>6
    <3> HIDE DEF window, providers
    <3> QED BY <2>1, <3>1, <3>2, <3>3 DEF Round
  <2>10. CallOK'
    BY <2>1, <2>8, <2>9 DEF CallOK
  <2> QED BY <1>1, <2>2, <2>10, CallStep
<1> QED BY <1>3, <1>4


\* The parts of CallOK in an open call.
LEMMA OpenCall ==
    ASSUME Inv, call.open
    PROVE  /\ CallType
           /\ \E k \in Nat : Round(k)
           /\ \/ call.progress
              \/ \A i \in 1..(call.turn - 1) : call.order[i] \in call.exhausted
           /\ TypeOK /\ PoolsOK
           /\ call.order \in [1..Len(call.order) -> Source]
           /\ Len(call.order) \in Nat
           /\ \A i, j \in 1..Len(call.order) : call.order[i] = call.order[j] => i = j
           /\ \A s \in Source : call.window[s] = Window(Tiers[stage], s, Wanted)
           /\ \A s \in Source : call.window[s] \subseteq Candidates(Tiers[stage])
<1>1. call # NoCall
  BY DEF NoCall
<1>2. /\ CallType
      /\ \E k \in Nat : Round(k)
      /\ \/ call.progress
         \/ \A i \in 1..(call.turn - 1) : call.order[i] \in call.exhausted
  BY <1>1 DEF Inv, CallOK
<1>3. /\ call.order \in [1..Len(call.order) -> Source]
      /\ Len(call.order) \in Nat
      /\ DOMAIN call.order = 1..Len(call.order)
  BY <1>2 DEF CallType
<1>4. \A i, j \in 1..Len(call.order) : call.order[i] = call.order[j] => i = j
  BY <1>2, <1>3 DEF CallType, IsInjective
<1>5. \A s \in Source : call.window[s] = Window(Tiers[stage], s, Wanted)
  BY <1>2 DEF CallType
<1>6. \A s \in Source : call.window[s] \subseteq Candidates(Tiers[stage])
  BY <1>5 DEF Window
<1> QED BY <1>2, <1>3, <1>4, <1>5, <1>6 DEF Inv

LEMMA TurnStep ==
    ASSUME Inv, Turn
    PROVE  Inv'
<1> DEFINE s == call.order[call.turn]
           unseen == call.window[s] \ ToSet(call.picked)
           len == Len(call.order)
<1>1. /\ call.open /\ ~Full /\ call.turn <= len
      /\ UNCHANGED <<tier, links, limit, pass, stage, pools, batch>>
  BY DEF Turn
<1>2. /\ CallType /\ TypeOK /\ PoolsOK /\ len \in Nat
      /\ call.order \in [1..len -> Source]
      /\ \A i, j \in 1..len : call.order[i] = call.order[j] => i = j
      /\ \A u \in Source : call.window[u] \subseteq Candidates(Tiers[stage])
      /\ \/ call.progress
         \/ \A i \in 1..(call.turn - 1) : call.order[i] \in call.exhausted
  BY <1>1, OpenCall
<1>3. PICK k \in Nat : Round(k)
  BY <1>1, OpenCall
<1>4. call.turn \in 1..len /\ call.turn \in Nat /\ s \in Source
  BY <1>1, <1>2 DEF CallType
<1>5. s \notin call.exhausted /\ call.credit[s] = k
  BY <1>3, <1>4 DEF Round
<1>6. /\ Wanted' = Wanted
      /\ \A u : Candidates(u)' = Candidates(u)
      /\ \A u, v, n : Window(u, v, n)' = Window(u, v, n)
  BY <1>1, SameCall
<1>7. [v \in Source |-> Window(Tiers[stage], v, Wanted)]'
        = [v \in Source |-> Window(Tiers[stage], v, Wanted)]
  BY <1>1, <1>6
<1>8. CASE unseen = {}
  <2>1. call' = [call EXCEPT !.turn = @ + 1, !.exhausted = @ \cup {s}]
    BY <1>8 DEF Turn
  <2>2. /\ call'.turn = call.turn + 1 /\ call'.exhausted = call.exhausted \cup {s}
        /\ call'.open = call.open /\ call'.wanted = call.wanted
        /\ call'.window = call.window /\ call'.order = call.order
        /\ call'.picked = call.picked /\ call'.credit = call.credit
        /\ call'.progress = call.progress
        /\ DOMAIN call' = DOMAIN call
    BY <1>2, <2>1 DEF CallType
  <2>3. CallType'
    BY <1>1, <1>2, <1>4, <1>6, <1>7, <2>2 DEF CallType
  <2>4. Round(k)'
    <3>1. ASSUME NEW i \in 1..len
          PROVE  LET v == call.order[i] IN
                 \/ i >= call.turn + 1 /\ v \notin call'.exhausted /\ call.credit[v] = k
                 \/ i < call.turn + 1 /\ v \notin call'.exhausted /\ call.credit[v] = k + 1
                 \/ /\ i < call.turn + 1 /\ v \in call'.exhausted /\ call.credit[v] = k
                    /\ call.window[v] \subseteq ToSet(call.picked)
      <4>1. CASE i = call.turn
        BY <1>4, <1>5, <1>8, <2>2, <4>1
      <4>2. CASE i # call.turn
        <5>1. call.order[i] # s
          BY <1>2, <1>4, <4>2
        <5>2. call.order[i] \in call'.exhausted <=> call.order[i] \in call.exhausted
          BY <2>2, <5>1
        <5>3. i >= call.turn + 1 <=> i >= call.turn
          BY <1>4, <4>2
        <5>4. i < call.turn + 1 <=> i < call.turn
          BY <1>4, <4>2
        <5> QED BY <1>3, <5>2, <5>3, <5>4 DEF Round
      <4> QED BY <4>1, <4>2
    <3>2. \A v \in Source :
            /\ call.credit[v] <= k + 1
            /\ v \in ToSet(call.order) \/ call.window[v] \subseteq ToSet(call.picked)
      BY <1>3 DEF Round
    <3> QED BY <2>2, <3>1, <3>2 DEF Round
  <2>5. \/ call'.progress
        \/ \A i \in 1..(call'.turn - 1) : call'.order[i] \in call'.exhausted
    <3>1. ASSUME ~call.progress, NEW i \in 1..call.turn
          PROVE  call.order[i] \in call'.exhausted
      <4>1. CASE i = call.turn
        BY <2>2, <4>1
      <4>2. CASE i # call.turn
        <5>1. i \in 1..(call.turn - 1)
          BY <1>4, <4>2
        <5> QED BY <1>2, <2>2, <3>1, <5>1
      <4> QED BY <4>1, <4>2
    <3>2. call'.turn - 1 = call.turn
      BY <1>4, <2>2
    <3> QED BY <2>2, <3>1, <3>2
  <2>6. CallOK'
    BY <1>1, <2>2, <2>3, <2>4, <2>5 DEF CallOK
  <2> QED BY <1>1, <1>2, <2>6, CallStep DEF CallType
<1>9. ASSUME NEW r \in unseen,
             call' = [call EXCEPT !.turn = @ + 1, !.picked = Append(@, r),
                                  !.credit[s] = @ + 1, !.progress = TRUE]
      PROVE  Inv'
  <2>1. /\ call'.turn = call.turn + 1 /\ call'.exhausted = call.exhausted
        /\ call'.open = call.open /\ call'.wanted = call.wanted
        /\ call'.window = call.window /\ call'.order = call.order
        /\ call'.picked = Append(call.picked, r)
        /\ call'.credit = [call.credit EXCEPT ![s] = @ + 1]
        /\ call'.progress = TRUE
        /\ DOMAIN call' = DOMAIN call
    BY <1>2, <1>9 DEF CallType
  <2>2. r \in Candidates(Tiers[stage]) /\ r \in Row /\ r \notin ToSet(call.picked)
    BY <1>2, <1>4 DEF Candidates
  <2>3. /\ call'.picked \in Seq(Row)
        /\ IsInjective(call'.picked)
        /\ ToSet(call'.picked) = ToSet(call.picked) \cup {r}
    <3>1. call.picked \in Seq(Row) /\ IsInjective(call.picked)
      BY <1>2 DEF CallType
    <3>2. /\ Append(call.picked, r) \in Seq(Row)
          /\ IsInjective(Append(call.picked, r))
          /\ ToSet(Append(call.picked, r)) = ToSet(call.picked) \cup {r}
      <4>1. r \in Row /\ r \notin ToSet(call.picked)
        BY <2>2
      <4> QED BY <3>1, <4>1, OneMore
    <3> QED BY <2>1, <3>2
  <2>4. call'.credit \in [Source -> Nat]
    BY <1>2, <1>4, <2>1 DEF CallType
  <2>5. CallType'
    <3>1. call'.turn \in 1..(Len(call'.order) + 1)
      BY <1>2, <1>4, <2>1
    <3>2. ToSet(call'.picked) \subseteq Candidates(Tiers[stage])
      BY <1>2, <2>2, <2>3 DEF CallType
    <3> QED BY <1>1, <1>2, <1>6, <1>7, <2>1, <2>3, <2>4, <3>1, <3>2 DEF CallType
  <2>6. Round(k)'
    <3>1. call.credit \in [Source -> Nat]
      BY <1>2 DEF CallType
    <3>2. call'.credit[s] = k + 1 /\ \A v \in Source : v # s => call'.credit[v] = call.credit[v]
      BY <1>4, <1>5, <2>1, <3>1
    <3>3. ASSUME NEW i \in 1..len
          PROVE  LET v == call.order[i] IN
                 \/ i >= call.turn + 1 /\ v \notin call.exhausted /\ call'.credit[v] = k
                 \/ i < call.turn + 1 /\ v \notin call.exhausted /\ call'.credit[v] = k + 1
                 \/ /\ i < call.turn + 1 /\ v \in call.exhausted /\ call'.credit[v] = k
                    /\ call.window[v] \subseteq ToSet(call'.picked)
      <4>1. CASE i = call.turn
        BY <1>4, <1>5, <3>2, <4>1
      <4>2. CASE i # call.turn
        <5>1. call.order[i] # s /\ call.order[i] \in Source
          BY <1>2, <1>4, <4>2
        <5>2. call'.credit[call.order[i]] = call.credit[call.order[i]]
          BY <3>2, <5>1
        <5>3. i >= call.turn + 1 <=> i >= call.turn
          BY <1>4, <4>2
        <5>4. i < call.turn + 1 <=> i < call.turn
          BY <1>4, <4>2
        <5> QED BY <1>3, <2>3, <5>2, <5>3, <5>4 DEF Round
      <4> QED BY <4>1, <4>2
    <3>4. ASSUME NEW v \in Source
          PROVE  /\ call'.credit[v] <= k + 1
                 /\ v \in ToSet(call.order) \/ call.window[v] \subseteq ToSet(call'.picked)
      <4>1. /\ call.credit[v] <= k + 1
            /\ v \in ToSet(call.order) \/ call.window[v] \subseteq ToSet(call.picked)
        BY <1>3 DEF Round
      <4>2. call'.credit[v] <= k + 1
        BY <3>2, <4>1
      <4> QED BY <2>3, <4>1, <4>2
    <3> QED BY <2>1, <3>3, <3>4 DEF Round
  <2>7. CallOK'
    BY <1>1, <2>1, <2>5, <2>6 DEF CallOK
  <2> QED BY <1>1, <1>2, <2>7, CallStep DEF CallType
<1> QED BY <1>8, <1>9 DEF Turn


LEMMA EndRoundStep ==
    ASSUME Inv, EndRound
    PROVE  Inv'
<1> DEFINE len == Len(call.order)
           kept == {i \in 1..len : call.order[i] \notin call.exhausted}
           size == Cardinality(kept)
           at == InOrder(kept, Less)
           rest == [i \in 1..size |-> call.order[at[i]]]
<1>1. /\ call.open
      /\ Full \/ call.turn > len
  BY DEF EndRound
<1>2. /\ CallType /\ TypeOK /\ PoolsOK /\ len \in Nat
      /\ call.order \in [1..len -> Source]
      /\ \A i, j \in 1..len : call.order[i] = call.order[j] => i = j
      /\ \A s \in Source : call.window[s] = Window(Tiers[stage], s, Wanted)
      /\ \/ call.progress
         \/ \A i \in 1..(call.turn - 1) : call.order[i] \in call.exhausted
  BY <1>1, OpenCall
<1>3. PICK k \in Nat : Round(k)
  BY <1>1, OpenCall
<1>4. /\ size \in Nat
      /\ at \in [1..size -> kept]
      /\ \A i \in kept : \E j \in 1..size : at[j] = i
      /\ \A i, j \in 1..size : i < j => <<at[i], at[j]>> \in Less
  <2>1. kept \in SUBSET (1..len) /\ kept \in SUBSET Nat
    BY <1>2
  <2>2. IsFiniteSet(1..len)
    BY <1>2, IntervalSize
  <2>3. IsFiniteSet(kept)
    BY <2>1, <2>2, FS_Subset
  <2>4. Linear(kept, Less)
    BY <2>1, NumbersInOrder
  <2> HIDE DEF kept
  <2> QED BY <2>3, <2>4, InOrderSorts
<1>5. CASE Full \/ rest = <<>> \/ ~call.progress
  <2> DEFINE p == call.picked
  <2>1. Advance(Joined(p))
    BY <1>5 DEF EndRound, Joined
  <2>2. ASSUME ~Full
        PROVE  \A s \in Source : Window(Tiers[stage], s, Wanted) \subseteq ToSet(p)
    <3>1. call.turn = len + 1
      BY <1>1, <1>2, <2>2 DEF CallType
    <3>2. ASSUME NEW i \in 1..len
          PROVE  call.order[i] \in call.exhausted
      <4>1. CASE rest = <<>>
        <5>1. size = 0
          BY <1>4, <4>1
        <5>2. i \notin kept
          BY <1>4, <5>1
        <5> QED BY <5>2
      <4>2. CASE ~call.progress
        BY <1>2, <3>1, <4>2
      <4> QED BY <1>5, <2>2, <4>1, <4>2
    <3>3. ASSUME NEW s \in Source
          PROVE  call.window[s] \subseteq ToSet(p)
      <4>1. CASE s \in ToSet(call.order)
        <5>1. PICK i \in 1..len : call.order[i] = s
          BY <1>2, <4>1 DEF ToSet
        <5> QED BY <1>3, <3>2, <5>1 DEF Round
      <4>2. CASE s \notin ToSet(call.order)
        BY <1>3, <4>2 DEF Round
      <4> QED BY <4>1, <4>2
    <3> QED BY <1>2, <3>3
  <2>3. Ended(p)
    BY <1>2, <2>2 DEF Ended, CallType, Full
  <2>4. pass \in {"quota", "extra"}
    BY <1>2 DEF CallType
  <2> QED BY <2>1, <2>3, <2>4, AdvanceStep
<1>6. CASE ~(Full \/ rest = <<>> \/ ~call.progress)
  <2>1. /\ call' = [call EXCEPT !.order = rest, !.turn = 1,
                                !.progress = FALSE, !.exhausted = {}]
        /\ UNCHANGED <<tier, links, limit, pass, stage, pools, batch>>
    BY <1>6 DEF EndRound
  <2>2. /\ call'.turn = 1 /\ call'.exhausted = {} /\ call'.progress = FALSE
        /\ call'.order = rest
        /\ call'.open = call.open /\ call'.wanted = call.wanted
        /\ call'.window = call.window /\ call'.picked = call.picked
        /\ call'.credit = call.credit
        /\ DOMAIN call' = DOMAIN call
    BY <1>2, <2>1 DEF CallType
  <2>3. call.turn = len + 1
    BY <1>1, <1>2, <1>6 DEF CallType
  <2>4. ASSUME NEW i \in 1..size
        PROVE  at[i] \in 1..len /\ rest[i] = call.order[at[i]] /\ rest[i] \in Source
               /\ rest[i] \notin call.exhausted
    BY <1>2, <1>4
  <2>5. rest \in Seq(Source) /\ Len(rest) = size /\ DOMAIN rest = 1..size
    <3>1. rest \in [1..size -> Source]
      BY <2>4
    <3> HIDE DEF rest
    <3> QED BY <1>4, <3>1, ListOf, Zenon
  <2>6. IsInjective(rest)
    <3> SUFFICES ASSUME NEW i \in 1..size, NEW j \in 1..size, rest[i] = rest[j]
                 PROVE  i = j
      BY <2>5 DEF IsInjective
    <3> HIDE DEF at, size, rest
    <3>1. at[i] = at[j] /\ at[i] \in Nat
      BY <1>2, <2>4
    <3>2. <<at[i], at[i]>> \notin Less
      BY <3>1 DEF Less
    <3>3. ~(i < j)
      BY <1>4, <3>1, <3>2
    <3>4. ~(j < i)
      BY <1>4, <3>1, <3>2
    <3> QED BY <1>4, <3>3, <3>4
  <2>7. CallType'
    <3>1. /\ Wanted' = Wanted
          /\ \A u : Candidates(u)' = Candidates(u)
          /\ \A u, v, n : Window(u, v, n)' = Window(u, v, n)
      BY <2>1, SameCall
    <3>2. [v \in Source |-> Window(Tiers[stage], v, Wanted)]'
            = [v \in Source |-> Window(Tiers[stage], v, Wanted)]
      BY <2>1, <3>1
    <3>3. call'.turn \in 1..(Len(call'.order) + 1)
      BY <1>4, <2>2, <2>5
    <3> HIDE DEF rest
    <3> QED BY <1>2, <2>1, <2>2, <2>5, <2>6, <3>1, <3>2, <3>3 DEF CallType
  <2>8. Round(k + 1)'
    <3>1. ASSUME NEW i \in 1..size
          PROVE  i >= 1 /\ call.credit[rest[i]] = k + 1
      <4> HIDE DEF at, size, rest
      <4>1. at[i] < call.turn /\ at[i] \in 1..len
        BY <1>2, <2>3, <2>4
      <4>2. rest[i] = call.order[at[i]] /\ rest[i] \notin call.exhausted
        BY <2>4
      <4>3. i >= 1
        BY <1>4
      <4>4. LET s == call.order[at[i]] IN
            \/ at[i] >= call.turn
            \/ s \in call.exhausted
            \/ call.credit[s] = k + 1
        BY <1>3, <4>1 DEF Round
      <4>5. ~(at[i] >= call.turn)
        BY <1>2, <2>3, <4>1
      <4> QED BY <4>2, <4>3, <4>4, <4>5
    <3>2. ASSUME NEW s \in Source
          PROVE  /\ call.credit[s] <= k + 2
                 /\ s \in ToSet(rest) \/ call.window[s] \subseteq ToSet(call.picked)
      <4>1. call.credit[s] <= k + 1 /\ call.credit[s] \in Nat
        BY <1>2, <1>3 DEF Round, CallType
      <4>2. CASE s \in ToSet(call.order)
        <5>1. PICK i \in 1..len : call.order[i] = s
          BY <1>2, <4>2 DEF ToSet
        <5>2. CASE s \in call.exhausted
          BY <1>3, <4>1, <5>1, <5>2 DEF Round
        <5>3. CASE s \notin call.exhausted
          <6>1. i \in kept
            BY <5>1, <5>3
          <6> HIDE DEF kept, size, at
          <6>2. PICK j \in 1..size : at[j] = i
            BY <1>4, <6>1
          <6>3. rest[j] = s
            BY <5>1, <6>2
          <6> QED BY <2>5, <4>1, <6>3 DEF ToSet
        <5> QED BY <5>2, <5>3
      <4>3. CASE s \notin ToSet(call.order)
        BY <1>3, <4>1, <4>3 DEF Round
      <4> QED BY <4>2, <4>3
    <3> HIDE DEF rest, size
    <3>3. ASSUME NEW i \in 1..Len(call'.order)
          PROVE  LET s == call'.order[i] IN
                 i >= call'.turn /\ s \notin call'.exhausted /\ call'.credit[s] = k + 1
      BY <2>2, <2>5, <3>1
    <3>4. \A s \in Source :
            /\ call'.credit[s] <= (k + 1) + 1
            /\ s \in ToSet(call'.order) \/ call'.window[s] \subseteq ToSet(call'.picked)
      BY <2>2, <3>2
    <3> QED BY <3>3, <3>4 DEF Round
  <2>9. CallOK'
    <3>1. \A i \in 1..(call'.turn - 1) : call'.order[i] \in call'.exhausted
      BY <2>2
    <3> QED BY <1>1, <2>2, <2>7, <2>8, <3>1 DEF CallOK
  <2> QED BY <1>2, <2>1, <2>9, CallStep DEF CallType
<1> QED BY <1>5, <1>6

LEMMA SpecInv == Spec => []Inv
<1>1. ASSUME Inv, [Next]_vars
      PROVE  Inv'
  <2>1. CASE UNCHANGED vars
    <3>1. CASE pass \in {"quota", "extra"}
      <4>1. CallOK'
        <5>1. /\ Wanted' = Wanted
              /\ \A u : Candidates(u)' = Candidates(u)
              /\ \A u, v, n : Window(u, v, n)' = Window(u, v, n)
          BY <2>1, SameCall DEF vars
        <5>2. CallType => CallType'
          BY <2>1, <5>1 DEF vars, CallType
        <5>3. \A k : Round(k) => Round(k)'
          BY <2>1 DEF vars, Round
        <5> QED BY <1>1, <2>1, <5>2, <5>3 DEF Inv, vars, CallOK
      <4> QED BY <1>1, <2>1, <3>1, <4>1, CallStep DEF vars
    <3>2. CASE pass \notin {"quota", "extra"}
      <4>1. call' = NoCall /\ TypeOK'
        BY <1>1, <2>1, <3>2 DEF vars, Inv, TypeOK
      <4>2. PoolsOK'
        BY <1>1, <2>1, SameRows DEF vars, Inv, PoolsOK
      <4>3. Untouched' /\ Merged'
        BY <1>1, <2>1 DEF vars, Inv, Untouched, Merged
      <4>4. Quotas' /\ Reuse'
        <5>1. \A t : QuotaMet(t)' = QuotaMet(t)
          BY <2>1, SameRows DEF vars, QuotaMet
        <5>2. \A t : Reused(t) => Reused(t)'
          BY <2>1, SameRows DEF vars, Reused, Ahead
        <5> QED BY <1>1, <2>1, <5>1, <5>2, SameCall DEF vars, Inv, Quotas, Reuse
      <4> QED BY <4>1, <4>2, <4>3, <4>4 DEF Inv, CallOK
    <3> QED BY <3>1, <3>2
  <2>2. CASE Begin
    BY <1>1, <2>2, BeginStep
  <2>3. CASE Open
    BY <1>1, <2>3, OpenStep
  <2>4. CASE Turn
    BY <1>1, <2>4, TurnStep
  <2>5. CASE EndRound
    BY <1>1, <2>5, EndRoundStep
  <2>6. CASE Return
    BY <1>1, <2>6, ReturnStep
  <2> QED BY <1>1, <2>1, <2>2, <2>3, <2>4, <2>5, <2>6 DEF Next
<1> QED BY InitInv, <1>1, PTL DEF Spec


\* No provider gets two rows ahead of one whose window still has a row to
\* give, at any moment of any call (_round_robin_proxy_rows).
THEOREM AlwaysBalanced == Spec => []ProvidersBalanced
<1>1. Inv => ProvidersBalanced
  <2> SUFFICES ASSUME Inv, call.open, NEW s \in Source, NEW u \in Source
               PROVE  \/ call.credit[s] <= call.credit[u] + 1
                      \/ call.window[u] \subseteq ToSet(call.picked)
    BY DEF ProvidersBalanced
  <2>1. PICK k \in Nat : Round(k)
    BY OpenCall
  <2>2. call.credit \in [Source -> Nat] /\ DOMAIN call.order = 1..Len(call.order)
    BY OpenCall DEF CallType
  <2>3. call.credit[s] <= k + 1 /\ call.credit[s] \in Nat /\ call.credit[u] \in Nat
    BY <2>1, <2>2 DEF Round
  <2>4. CASE u \in ToSet(call.order)
    <3>1. PICK i \in 1..Len(call.order) : call.order[i] = u
      BY <2>2, <2>4 DEF ToSet
    <3>2. call.credit[u] >= k
      BY <2>1, <2>3, <3>1 DEF Round
    <3> QED BY <2>3, <3>2
  <2>5. CASE u \notin ToSet(call.order)
    BY <2>1, <2>5 DEF Round
  <2> QED BY <2>4, <2>5
<1> QED BY <1>1, SpecInv, PTL

\* Every tier gets its quarter of a batch, or all that the windows of its
\* providers hold (_fetch_queue_batch_ids, _allocate_state_slots).
THEOREM QuotaAlwaysKept == Spec => []TierQuotaKept
<1>1. Inv => TierQuotaKept
  BY DEF Inv, Quotas, QuotaMet, TierQuotaKept
<1> QED BY <1>1, SpecInv, PTL

-----------------------------------------------------------------------------
(* The merge.                                                              *)

Cells == {c \in Cell : c[1] <= Len(pools[Tiers[c[2]]])}

Queue == InOrder(Cells, Before)

LEMMA CellsInOrder ==
    ASSUME NEW S \in SUBSET Cell
    PROVE  Linear(S, Before)
<1>1. \A c \in S : c \in Cell /\ c[1] \in Nat /\ c[2] \in Nat /\ c = <<c[1], c[2]>>
  <2>1. Row \in SUBSET Nat /\ 1..Len(Tiers) \in SUBSET Nat
    BY RowsFinite, TierNames
  <2>2. \A c \in Cell : c[1] \in Row /\ c[2] \in 1..Len(Tiers) /\ c = <<c[1], c[2]>>
    BY DEF Cell
  <2> QED BY <2>1, <2>2
<1>2. \A c, d \in S : <<c, d>> \in Before
          <=> (c[1] < d[1] \/ (c[1] = d[1] /\ c[2] < d[2]))
  BY <1>1 DEF Before
<1>3. \A a \in S : <<a, a>> \notin Before
  BY <1>1, <1>2
<1>4. \A a, b, c \in S : <<a, b>> \in Before /\ <<b, c>> \in Before => <<a, c>> \in Before
  BY <1>1, <1>2
<1>5. ASSUME NEW a \in S, NEW b \in S, a # b
      PROVE  <<a, b>> \in Before \/ <<b, a>> \in Before
  <2>1. a[1] # b[1] \/ a[2] # b[2]
    BY <1>1, <1>5
  <2> QED BY <1>1, <1>2, <2>1
<1> QED BY <1>3, <1>4, <1>5 DEF Linear

\* The batch lists the first cells of the pools in the order of the rounds.
LEMMA BatchOf ==
    ASSUME Inv, pass = "done"
    PROVE  /\ Cardinality(Cells) \in Nat /\ IsFiniteSet(Cells)
           /\ Len(batch) \in Nat /\ Len(batch) <= limit /\ Len(batch) <= Cardinality(Cells)
           /\ Len(batch) = limit \/ Len(batch) = Cardinality(Cells)
           /\ batch \in Seq(Row)
           /\ \A i \in 1..Cardinality(Cells) :
                /\ Queue[i] \in Cells
                /\ Queue[i][1] \in Row /\ Queue[i][2] \in 1..Len(Tiers)
                /\ Queue[i] = <<Queue[i][1], Queue[i][2]>>
           /\ \A c \in Cells : \E i \in 1..Cardinality(Cells) : Queue[i] = c
           /\ \A i, j \in 1..Cardinality(Cells) :
                /\ i < j => <<Queue[i], Queue[j]>> \in Before
                /\ <<Queue[i], Queue[j]>> \in Before => i < j
                /\ Queue[i] = Queue[j] => i = j
           /\ \A i \in 1..Len(batch) :
                LET t == Tiers[Queue[i][2]] IN
                /\ batch[i] = pools[t][Queue[i][1]]
                /\ t \in Tier /\ Queue[i][1] \in 1..Len(pools[t])
                /\ tier[batch[i]] = t /\ batch[i] \in Checkable(t)
<1> DEFINE n == Cardinality(Cells)
           size == IF n < limit THEN n ELSE limit
<1>1. Cells \in SUBSET Cell /\ IsFiniteSet(Cells)
  <2>1. IsFiniteSet(1..Len(Tiers))
    BY TierNames, IntervalSize
  <2>2. IsFiniteSet(Cell)
    BY <2>1, RowsFinite, FS_Product DEF Cell
  <2>3. Cells \in SUBSET Cell
    BY DEF Cells
  <2> QED BY <2>2, <2>3, FS_Subset
<1>2. /\ n \in Nat
      /\ Queue \in [1..n -> Cells]
      /\ \A c \in Cells : \E i \in 1..n : Queue[i] = c
      /\ \A i, j \in 1..n : <<Queue[i], Queue[j]>> \in Before => i < j
      /\ \A i, j \in 1..n : i < j => <<Queue[i], Queue[j]>> \in Before
  <2>1. Linear(Cells, Before)
    BY <1>1, CellsInOrder
  <2> QED BY <1>1, <2>1, InOrderSorts DEF Queue
<1>3. \A i, j \in 1..n : Queue[i] = Queue[j] => i = j
  <2>1. Linear(Cells, Before)
    BY <1>1, CellsInOrder
  <2> SUFFICES ASSUME NEW i \in 1..n, NEW j \in 1..n, Queue[i] = Queue[j]
               PROVE  i = j
    OBVIOUS
  <2>2. <<Queue[i], Queue[i]>> \notin Before
    BY <1>2, <2>1 DEF Linear
  <2>3. ~(i < j) /\ ~(j < i)
    BY <1>2, <2>2
  <2> QED BY <1>2, <2>3
<1>4. ASSUME NEW i \in 1..n
      PROVE  /\ Queue[i] \in Cells
             /\ Queue[i][1] \in Row /\ Queue[i][2] \in 1..Len(Tiers)
             /\ Queue[i] = <<Queue[i][1], Queue[i][2]>>
             /\ Queue[i][1] <= Len(pools[Tiers[Queue[i][2]]])
  <2>1. Queue[i] \in Cells
    BY <1>2
  <2> QED BY <2>1 DEF Cells, Cell
<1>5. limit \in Nat /\ pools \in [Tier -> Seq(Row)]
  BY DEF Inv, TypeOK
<1>6. size \in Nat /\ size <= limit /\ size <= n /\ (size = limit \/ size = n)
  BY <1>2, <1>5
<1>7. batch = [i \in 1..size |-> pools[Tiers[Queue[i][2]]][Queue[i][1]]]
  BY DEF Inv, Merged, Interleaved, Queue, Cells
<1>8. ASSUME NEW i \in 1..size
      PROVE  LET t == Tiers[Queue[i][2]] IN
             /\ batch[i] = pools[t][Queue[i][1]]
             /\ t \in Tier /\ Queue[i][1] \in 1..Len(pools[t])
             /\ tier[batch[i]] = t /\ batch[i] \in Checkable(t) /\ batch[i] \in Row
  <2> DEFINE t == Tiers[Queue[i][2]]
             m == Queue[i][1]
  <2>1. i \in 1..n
    BY <1>2, <1>6
  <2>2. batch[i] = pools[t][m]
    BY <1>7
  <2>3. t \in Tier /\ m \in Nat \ {0} /\ m <= Len(pools[t])
    BY <1>4, <2>1, TierNames, SelectionAssumption DEF Row
  <2> HIDE DEF t, m
  <2>4. m \in 1..Len(pools[t]) /\ pools[t] \in Seq(Row)
    BY <1>5, <2>3
  <2>5. pools[t][m] \in ToSet(pools[t]) /\ pools[t][m] \in Row
    BY <2>4 DEF ToSet
  <2>6. batch[i] \in Checkable(t) /\ tier[batch[i]] = t
    BY <2>2, <2>3, <2>5 DEF Inv, PoolsOK, Checkable
  <2>7. batch[i] \in Row
    BY <2>2, <2>5
  <2> QED BY <2>2, <2>3, <2>4, <2>6, <2>7 DEF t, m
<1>9. batch \in Seq(Row) /\ Len(batch) = size
  <2>1. batch \in [1..size -> Row]
    <3>1. \A i \in 1..size : batch[i] \in Row
      BY <1>8
    <3>2. batch = [i \in 1..size |-> batch[i]]
      BY <1>7
    <3> HIDE DEF size
    <3> QED BY <3>1, <3>2
  <2> HIDE DEF size
  <2> QED BY <1>6, <2>1, ListOf, Zenon
<1> HIDE DEF size
<1> QED BY <1>1, <1>2, <1>3, <1>4, <1>6, <1>8, <1>9


\* Rows that are in no place of the batch are in no pool, if it is short.
LEMMA ShortBatch ==
    ASSUME Inv, pass = "done", Len(batch) # limit, NEW t \in Tier, NEW r \in ToSet(pools[t])
    PROVE  r \in ToSet(batch)
<1>1. pools[t] \in Seq(Row) /\ IsInjective(pools[t])
  BY DEF Inv, TypeOK, PoolsOK
<1>2. PICK m \in 1..Len(pools[t]) : pools[t][m] = r
  BY <1>1 DEF ToSet
<1>3. PICK j \in 1..Len(Tiers) : Tiers[j] = t
  BY TierNames
<1>4. Len(pools[t]) <= Rows
  <2>1. IsFiniteSet(ToSet(pools[t])) /\ Cardinality(ToSet(pools[t])) = Len(pools[t])
    BY <1>1, RowsFinite, InjectiveLength
  <2>2. ToSet(pools[t]) \in SUBSET Row
    BY <1>1 DEF ToSet
  <2>3. Cardinality(ToSet(pools[t])) <= Cardinality(Row)
    BY <2>2, RowsFinite, FS_Subset
  <2> QED BY <2>1, <2>3, RowsFinite
<1>5. m \in Row
  BY <1>1, <1>2, <1>4, SelectionAssumption DEF Row
<1>6. <<m, j>> \in Cells
  BY <1>1, <1>2, <1>3, <1>5 DEF Cells, Cell
<1>7. PICK i \in 1..Cardinality(Cells) : Queue[i] = <<m, j>>
  BY <1>6, BatchOf
<1>8. i \in 1..Len(batch) /\ batch \in Seq(Row)
  BY BatchOf
<1>9. batch[i] = r
  BY <1>2, <1>3, <1>7, <1>8, BatchOf
<1> QED BY <1>8, <1>9 DEF ToSet

LEMMA BatchDistinct ==
    ASSUME Inv, pass = "done"
    PROVE  IsInjective(batch)
<1>1. batch \in Seq(Row) /\ DOMAIN batch = 1..Len(batch) /\ Len(batch) \in Nat
  BY BatchOf
<1> SUFFICES ASSUME NEW i \in 1..Len(batch), NEW j \in 1..Len(batch), batch[i] = batch[j]
             PROVE  i = j
  BY <1>1 DEF IsInjective
<1> DEFINE t == Tiers[Queue[i][2]]
<1>2. i \in 1..Cardinality(Cells) /\ j \in 1..Cardinality(Cells)
  BY BatchOf
<1>3. /\ t \in Tier /\ Tiers[Queue[j][2]] = t
      /\ Queue[i][1] \in 1..Len(pools[t]) /\ Queue[j][1] \in 1..Len(pools[t])
      /\ pools[t][Queue[i][1]] = pools[t][Queue[j][1]]
  <2>1. /\ batch[i] = pools[t][Queue[i][1]] /\ tier[batch[i]] = t
        /\ t \in Tier /\ Queue[i][1] \in 1..Len(pools[t])
    BY BatchOf
  <2>2. LET u == Tiers[Queue[j][2]] IN
        /\ batch[j] = pools[u][Queue[j][1]] /\ tier[batch[j]] = u
        /\ Queue[j][1] \in 1..Len(pools[u])
    BY BatchOf
  <2>3. Tiers[Queue[j][2]] = t
    BY <2>1, <2>2
  <2> HIDE DEF t
  <2> QED BY <2>1, <2>2, <2>3
<1>4. Queue[i][2] = Queue[j][2]
  <2>1. Queue[i][2] \in 1..Len(Tiers) /\ Queue[j][2] \in 1..Len(Tiers)
    BY <1>2, BatchOf
  <2>2. Tiers[Queue[i][2]] = Tiers[Queue[j][2]]
    BY <1>3
  <2>3. \A k, l \in 1..Len(Tiers) : Tiers[k] = Tiers[l] => k = l
    BY TierNames
  <2> QED BY <2>1, <2>2, <2>3, Zenon
<1>5. Queue[i][1] = Queue[j][1]
  <2>1. IsInjective(pools[t]) /\ pools[t] \in Seq(Row)
    BY <1>3 DEF Inv, TypeOK, PoolsOK
  <2>2. DOMAIN pools[t] = 1..Len(pools[t])
    BY <2>1
  <2> HIDE DEF t
  <2> QED BY <1>3, <2>1, <2>2 DEF IsInjective
<1>6. Queue[i] = Queue[j]
  <2>1. Queue[i] = <<Queue[i][1], Queue[i][2]>> /\ Queue[j] = <<Queue[j][1], Queue[j][2]>>
    BY <1>2, BatchOf
  <2> QED BY <1>4, <1>5, <2>1
<1> QED BY <1>2, <1>6, BatchOf

LEMMA ShortReuse ==
    ASSUME Inv, pass = "done", Len(batch) < limit, NEW t \in Tier
    PROVE  Reused(t)
<1>1. Picked \in SUBSET ToSet(batch)
  <2>1. Len(batch) # limit
    BY BatchOf DEF Inv, TypeOK
  <2> QED BY <2>1, ShortBatch DEF Picked
<1>2. IsFiniteSet(ToSet(batch)) /\ Cardinality(ToSet(batch)) = Len(batch)
  BY BatchOf, BatchDistinct, RowsFinite, InjectiveLength
<1>3. Cardinality(Picked) <= Len(batch) /\ Cardinality(Picked) \in Nat
  BY <1>1, <1>2, FS_Subset, FS_CardinalityType
<1>4. ~(Cardinality(Picked) >= limit)
  BY <1>3, BatchOf DEF Inv, TypeOK
<1> QED BY <1>4 DEF Inv, Reuse

\* A batch is short only if every row left out has its provider's whole share
\* of older rows ahead of it (the second pass of _fetch_queue_batch_ids).
THEOREM SlotsAlwaysReused == Spec => []SlotsReused
<1>1. Inv => SlotsReused
  <2> SUFFICES ASSUME Inv, pass = "done", Len(batch) < limit,
                      NEW t \in Tier, NEW r \in Checkable(t) \ ToSet(batch), NEW s \in links[r]
               PROVE  Cardinality(Ahead(t, s, r)) >= PerSource(1)
    BY DEF SlotsReused
  <2>1. Len(batch) # limit
    BY BatchOf DEF Inv, TypeOK
  <2>2. r \notin ToSet(pools[t])
    BY <2>1, ShortBatch
  <2> QED BY <2>2, ShortReuse DEF Reused
<1> QED BY <1>1, SpecInv, PTL

\* A batch is one that CheckerJob's FetchBatch may choose: different rows, all
\* checkable, no more than the limit, none only if there are none
\* (_fetch_queue_batch_ids).
THEOREM AlwaysFetch == Spec => []ImplementsFetch
<1>1. Inv => ImplementsFetch
  <2> SUFFICES ASSUME Inv, pass = "done"
               PROVE  LET candidates == UNION {Checkable(t) : t \in Tier} IN
                      /\ IsInjective(batch)
                      /\ ToSet(batch) \subseteq candidates
                      /\ Len(batch) <= limit
                      /\ batch = <<>> => candidates = {}
    BY DEF ImplementsFetch
  <2>1. ToSet(batch) \subseteq UNION {Checkable(t) : t \in Tier}
    <3>1. DOMAIN batch = 1..Len(batch)
      BY BatchOf
    <3> QED BY <3>1, BatchOf DEF ToSet
  <2>2. ASSUME batch = <<>>, NEW t \in Tier, NEW r \in Checkable(t)
        PROVE  FALSE
    <3>1. limit \in Nat /\ limit # 0 /\ links \in [Row -> SUBSET Source]
      BY DEF Inv, TypeOK
    <3>2. Len(batch) = 0 /\ ToSet(batch) = {} /\ Len(batch) < limit /\ Len(batch) # limit
      BY <2>2, <3>1 DEF ToSet
    <3>3. ToSet(pools[t]) = {}
      BY <3>2, ShortBatch
    <3>4. PICK s \in links[r] : TRUE
      BY DEF Checkable
    <3>5. Cardinality(Ahead(t, s, r)) >= PerSource(1)
      BY <3>2, <3>3, ShortReuse DEF Reused
    <3>6. Ahead(t, s, r) = {}
      BY <3>3 DEF Ahead
    <3>7. s \in Source
      BY <3>1, <3>4 DEF Checkable
    <3>8. PerSource(1) \in Nat \ {0}
      BY <3>7, SharesRise
    <3> QED BY <3>5, <3>6, <3>8, FS_EmptySet
  <2> QED BY <2>1, <2>2, BatchOf, BatchDistinct
<1> QED BY <1>1, SpecInv, PTL

LEMMA Least ==
    ASSUME NEW S \in SUBSET Nat, IsFiniteSet(S), S # {}
    PROVE  \E a \in S : \A b \in S : a <= b
<1>1. Linear(S, Less)
  BY NumbersInOrder
<1>2. Cardinality(S) \in Nat /\ Cardinality(S) # 0
  BY FS_CardinalityType, FS_EmptySet
<1>3. PICK a \in S : Cardinality(Lower(S, Less, a)) = 0
  <2>1. 0 \in 0..(Cardinality(S) - 1)
    BY <1>2
  <2> QED BY <1>1, <2>1, RankTaken
<1>4. Lower(S, Less, a) = {}
  BY <1>1, <1>3, RankRange, FS_EmptySet
<1>5. \A b \in S : ~(b < a)
  BY <1>4 DEF Lower, Less
<1> QED BY <1>5

\* The row of a tier in round m comes after the row of every tier in an
\* earlier round and before those in a later one, so no tier is two rows ahead
\* of one with rows to come (_round_robin_state_pools).
THEOREM AlwaysInterleaved == Spec => []TiersInterleaved
<1>1. Inv => TiersInterleaved
  <2> SUFFICES ASSUME Inv, pass = "done", NEW k \in 1..Len(batch),
                      NEW t \in Tier, NEW u \in Tier,
                      {i \in (k + 1)..Len(batch) : tier[batch[i]] = u} # {}
               PROVE  Cardinality({i \in 1..k : tier[batch[i]] = t})
                        <= Cardinality({i \in 1..k : tier[batch[i]] = u}) + 1
    BY DEF TiersInterleaved
  <2> DEFINE len == Len(batch)
             n == Cardinality(Cells)
             mine == {i \in 1..k : tier[batch[i]] = t}
             theirs == {i \in 1..k : tier[batch[i]] = u}
             later == {i \in (k + 1)..len : tier[batch[i]] = u}
  <2>1. /\ len \in Nat /\ n \in Nat /\ len <= n
        /\ IsFiniteSet(mine) /\ Cardinality(mine) \in Nat
        /\ IsFiniteSet(theirs) /\ Cardinality(theirs) \in Nat
    <3>1. len \in Nat /\ n \in Nat /\ len <= n
      BY BatchOf
    <3>2. IsFiniteSet(1..k)
      BY <3>1, IntervalSize
    <3>3. mine \in SUBSET (1..k) /\ theirs \in SUBSET (1..k)
      OBVIOUS
    <3> QED BY <3>1, <3>2, <3>3, FS_Subset, FS_CardinalityType
  <2>2. PICK j \in later : \A i \in later : j <= i
    <3>1. later \in SUBSET Nat /\ later \in SUBSET (1..len) /\ later # {}
      BY <2>1
    <3>2. IsFiniteSet(later)
      BY <2>1, <3>1, IntervalSize, FS_Subset
    <3> HIDE DEF later
    <3> QED BY <3>1, <3>2, Least
  <2>3. j \in 1..len /\ j \in 1..n /\ k < j /\ j \in Nat /\ k \in Nat /\ tier[batch[j]] = u
    BY <2>1, <2>2
  <2> DEFINE m == Queue[j][1]
             b == Queue[j][2]
  <2>4. /\ Queue[j] = <<m, b>> /\ m \in Row /\ b \in 1..Len(Tiers)
        /\ m \in Nat \ {0}
        /\ Tiers[b] = u /\ m \in 1..Len(pools[u])
    <3>1. Queue[j] = <<m, b>> /\ m \in Row /\ b \in 1..Len(Tiers)
      BY <2>3, BatchOf
    <3>2. Tiers[b] = u /\ m \in 1..Len(pools[u])
      BY <2>3, BatchOf
    <3>3. m \in Nat \ {0}
      BY <3>1, SelectionAssumption DEF Row
    <3> QED BY <3>1, <3>2, <3>3
  <2>5. \A c, d \in Cell : <<c, d>> \in Before
            <=> (c[1] < d[1] \/ (c[1] = d[1] /\ c[2] < d[2]))
    BY DEF Before
  <2>6. Cardinality(mine) <= m
    <3> DEFINE f == [i \in mine |-> Queue[i][1]]
    <3>1. ASSUME NEW i \in mine
          PROVE  /\ i \in 1..n /\ i \in 1..len
                 /\ Queue[i][1] \in 1..m /\ Tiers[Queue[i][2]] = t
                 /\ Queue[i][2] \in 1..Len(Tiers)
                 /\ Queue[i] = <<Queue[i][1], Queue[i][2]>>
      <4>1. i \in 1..n /\ i \in 1..len /\ i < j /\ tier[batch[i]] = t
        BY <2>1, <2>3
      <4>2. /\ Queue[i][1] \in Row /\ Queue[i][2] \in 1..Len(Tiers)
            /\ Queue[i] = <<Queue[i][1], Queue[i][2]>>
            /\ Queue[i] \in Cell /\ Queue[j] \in Cell
            /\ <<Queue[i], Queue[j]>> \in Before
        BY <2>3, <4>1, BatchOf DEF Cells
      <4>3. Tiers[Queue[i][2]] = t
        BY <4>1, BatchOf
      <4>4. Queue[i][1] \in Nat \ {0}
        BY <4>2, SelectionAssumption DEF Row
      <4>5. Queue[i][1] <= m
        BY <2>4, <2>5, <4>2, <4>4
      <4> QED BY <2>4, <4>1, <4>2, <4>3, <4>4, <4>5
    <3>2. ASSUME NEW i \in mine, NEW h \in mine, f[i] = f[h]
          PROVE  i = h
      <4>1. Queue[i][2] = Queue[h][2]
        <5>1. /\ Queue[i][2] \in 1..Len(Tiers) /\ Queue[h][2] \in 1..Len(Tiers)
              /\ Tiers[Queue[i][2]] = Tiers[Queue[h][2]]
          BY <3>1
        <5>2. \A v, w \in 1..Len(Tiers) : Tiers[v] = Tiers[w] => v = w
          BY TierNames
        <5> HIDE DEF mine
        <5> QED BY <5>1, <5>2
      <4>2. Queue[i] = Queue[h]
        BY <3>1, <3>2, <4>1
      <4>3. i \in 1..n /\ h \in 1..n
        BY <3>1
      <4> QED BY <4>2, <4>3, BatchOf
    <3>3. f \in [mine -> 1..m]
      BY <3>1
    <3>4. f \in Injection(mine, 1..m)
      BY <3>2, <3>3 DEF Injection, IsInjective
    <3>5. IsFiniteSet(1..m) /\ Cardinality(1..m) = m
      BY <2>4, IntervalSize
    <3> HIDE DEF mine, f, m
    <3> QED BY <3>4, <3>5, FS_Injection
  <2>7. m - 1 <= Cardinality(theirs)
    <3> DEFINE g == [x \in 1..(m - 1) |-> CHOOSE i \in theirs : Queue[i] = <<x, b>>]
    <3>1. ASSUME NEW x \in 1..(m - 1)
          PROVE  \E i \in theirs : Queue[i] = <<x, b>>
      <4>1. x \in Row /\ x \in Nat /\ x < m /\ x <= Len(pools[u])
        <5>1. Len(pools[u]) \in Nat /\ Rows \in Nat /\ Row = 1..Rows
          BY SelectionAssumption DEF Inv, TypeOK, Row
        <5>2. m \in 1..Rows /\ m \in 1..Len(pools[u])
          BY <2>4, <5>1
        <5> HIDE DEF m
        <5> QED BY <5>1, <5>2
      <4>2. <<x, b>> \in Cells
        BY <2>4, <4>1 DEF Cells, Cell
      <4>3. PICK i \in 1..n : Queue[i] = <<x, b>>
        BY <4>2, BatchOf
      <4>4. <<Queue[i], Queue[j]>> \in Before
        <5>1. Queue[i] \in Cell /\ Queue[j] \in Cell
          BY <2>3, <4>3, BatchOf DEF Cells
        <5> QED BY <2>4, <2>5, <4>1, <4>3, <5>1
      <4>5. i < j
        BY <2>3, <4>4, BatchOf
      <4>6. i \in 1..len
        BY <2>1, <2>3, <4>5
      <4>7. tier[batch[i]] = u
        <5>1. tier[batch[i]] = Tiers[Queue[i][2]]
          BY <4>6, BatchOf
        <5>2. Queue[i][2] = b
          BY <4>3
        <5> QED BY <2>4, <5>1, <5>2
      <4>8. i <= k
        <5>1. ASSUME i > k
              PROVE  FALSE
          <6>1. i \in later
            BY <2>3, <4>6, <4>7, <5>1
          <6>2. j <= i
            BY <2>2, <6>1
          <6> QED BY <2>3, <4>5, <4>6, <6>2
        <5> QED BY <2>3, <4>6, <5>1
      <4>9. i \in theirs
        BY <2>3, <4>6, <4>7, <4>8
      <4> QED BY <4>3, <4>9
    <3>2. \A x \in 1..(m - 1) : g[x] \in theirs /\ Queue[g[x]] = <<x, b>>
      <4> HIDE DEF theirs, m, b
      <4> QED BY <3>1
    <3>3. ASSUME NEW x \in 1..(m - 1), NEW y \in 1..(m - 1), g[x] = g[y]
          PROVE  x = y
      <4> HIDE DEF g, m, b, theirs
      <4>1. <<x, b>> = <<y, b>>
        BY <3>2, <3>3
      <4> QED BY <4>1
    <3>4. g \in Injection(1..(m - 1), theirs)
      <4>1. g \in [1..(m - 1) -> theirs]
        BY <3>2
      <4> HIDE DEF theirs, m, b, g
      <4>2. DOMAIN g = 1..(m - 1)
        BY <4>1
      <4> QED BY <3>3, <4>1, <4>2 DEF Injection, IsInjective
    <3>5. m - 1 \in Nat
      BY <2>4
    <3>6. Cardinality(1..(m - 1)) = m - 1
      BY <3>5, IntervalSize
    <3> HIDE DEF theirs, m, b, g
    <3> QED BY <2>1, <3>4, <3>6, FS_Injection
  <2> HIDE DEF mine, theirs, m
  <2>8. Cardinality(mine) <= Cardinality(theirs) + 1
    BY <2>1, <2>4, <2>6, <2>7
  <2> QED BY <2>8 DEF mine, theirs
<1> QED BY <1>1, SpecInv, PTL

=============================================================================
