------------------------- MODULE SourcePaging_proofs -------------------------
(***************************************************************************)
(* Proofs about SourcePaging, for every listing, every way it changes      *)
(* during a visit, and any size of its pages.                              *)
(***************************************************************************)
EXTENDS SourcePaging, FiniteSetTheorems, SequenceTheorems, TLAPS

-----------------------------------------------------------------------------
(* The inductive invariant.                                                *)

\* The first rows of the listing, as it is now.
FirstListed(n) == {listing[i] : i \in {j \in DOMAIN listing : j <= n}}

\* Where the next page begins.
Offset == (visit.page - 1) * served

\* Rows that stayed where they were, slipped before the next page, and were
\* not on one that was read.
Skipped == {item \in unmoved \cap FirstListed(Offset) : ~ Parsed(item) \subseteq visit.collected}

VisitTyped ==
    /\ served \in Nat \ {0} /\ listing \in Seq(Item) /\ changes \in Nat
    /\ unmoved \subseteq Range(listing)
    /\ visit = [phase |-> visit.phase, page |-> visit.page,
                collected |-> visit.collected,
                named |-> visit.named, end |-> visit.end]
    /\ visit.page \in Nat \ {0}

VisitUnderway ==
    /\ visit.end = "none"
    /\ adapter \notin Paged => visit.page = 1
    /\ visit.phase = "nonce" => visit.page = 1
    /\ PagesJoin => Cardinality(Skipped) <= changes

VisitInv ==
    /\ VisitTyped
    /\ visit.phase # "over" => VisitUnderway
    /\ VisitDriftOnly

-----------------------------------------------------------------------------
(* Facts about listings and pages.                                         *)

LEMMA LeastOfTwo ==
    ASSUME NEW m \in Nat, NEW n \in Nat
    PROVE  Min({m, n}) = IF m <= n THEN m ELSE n
<1> DEFINE S == {m, n}
           least == IF m <= n THEN m ELSE n
<1>1. least \in S /\ \A k \in S : least <= k
  OBVIOUS
<1>2. \A k \in S : (\A l \in S : k <= l) => k = least
  OBVIOUS
<1> HIDE DEF S, least
<1>3. Min(S) = least
  BY <1>1, <1>2 DEF Min
<1>4. QED
  BY <1>3 DEF S, least

\* One list behind another.
LEMMA Joined ==
    ASSUME NEW S, NEW s \in Seq(S), NEW t \in Seq(S)
    PROVE  /\ s \o t \in Seq(S) /\ DOMAIN (s \o t) = 1..(Len(s) + Len(t))
           /\ \A i \in 1..(Len(s) + Len(t)) :
                 (s \o t)[i] = IF i <= Len(s) THEN s[i] ELSE t[i - Len(s)]
<1>1. s \o t \in Seq(S) /\ DOMAIN (s \o t) = 1..(Len(s) + Len(t))
  OBVIOUS
<1>2. \A i \in 1..(Len(s) + Len(t)) :
         (s \o t)[i] = IF i <= Len(s) THEN s[i] ELSE t[i - Len(s)]
  OBVIOUS
<1>3. QED
  BY <1>1, <1>2

\* A listing has finitely many rows.
LEMMA ListingFinite ==
    ASSUME VisitTyped, NEW S, S \subseteq Range(listing)
    PROVE  IsFiniteSet(S) /\ Cardinality(S) \in Nat
<1> DEFINE size == Len(listing)
           f == [i \in 1..size |-> listing[i]]
<1>1. size \in Nat /\ DOMAIN listing = 1..size
  BY DEF VisitTyped
<1>2. IsFiniteSet(1..size)
  <2>1. 1 \in Int /\ size \in Int
    BY <1>1
  <2>2. QED
    BY <2>1, FS_Interval
<1>3. f \in Surjection(1..size, Range(listing))
  BY <1>1 DEF Surjection, Range
<1>4. IsFiniteSet(Range(listing))
  BY <1>2, <1>3, FS_Surjection
<1>5. S \in SUBSET Range(listing)
  OBVIOUS
<1>6. IsFiniteSet(S)
  BY <1>4, <1>5, FS_Subset
<1>7. QED
  BY <1>6, FS_CardinalityType

\* Sets of rows that grow by at most one.
LEMMA OneMore ==
    ASSUME VisitTyped, NEW S, S \subseteq Range(listing), NEW x, NEW T, T \subseteq S \cup {x}
    PROVE  Cardinality(S) \in Nat /\ Cardinality(T) \in Nat
           /\ Cardinality(T) <= Cardinality(S) + 1
<1>1. IsFiniteSet(S) /\ Cardinality(S) \in Nat
  BY ListingFinite
<1>2. /\ IsFiniteSet(S \cup {x})
      /\ Cardinality(S \cup {x}) = IF x \in S THEN Cardinality(S) ELSE Cardinality(S) + 1
  BY <1>1, FS_AddElement
<1>3. T \in SUBSET (S \cup {x})
  OBVIOUS
<1>4. IsFiniteSet(T) /\ Cardinality(T) <= Cardinality(S \cup {x})
  BY <1>2, <1>3, FS_Subset
<1>5. Cardinality(T) \in Nat
  BY <1>4, FS_CardinalityType
<1>6. QED
  BY <1>1, <1>2, <1>4, <1>5

LEMMA NoMore ==
    ASSUME VisitTyped, NEW S, S \subseteq Range(listing), NEW T, T \subseteq S
    PROVE  Cardinality(S) \in Nat /\ Cardinality(T) \in Nat
           /\ Cardinality(T) <= Cardinality(S)
<1>1. IsFiniteSet(S) /\ Cardinality(S) \in Nat
  BY ListingFinite
<1>2. T \in SUBSET S
  OBVIOUS
<1>3. IsFiniteSet(T) /\ Cardinality(T) <= Cardinality(S)
  BY <1>1, <1>2, FS_Subset
<1>4. QED
  BY <1>1, <1>3, FS_CardinalityType

\* The next page begins where this one ends.
LEMMA NextPage ==
    ASSUME NEW page \in Nat \ {0}, NEW rows \in Nat \ {0}
    PROVE  /\ (page - 1) * rows \in Nat /\ page * rows \in Nat
           /\ page * rows = (page - 1) * rows + rows
           /\ ((page + 1) - 1) * rows = page * rows
<1>1. (page - 1) * rows \in Nat /\ page * rows \in Nat
  OBVIOUS
<1>2. page * rows = (page - 1) * rows + rows
  OBVIOUS
<1>3. (page + 1) - 1 = page
  OBVIOUS
<1>4. QED
  BY <1>1, <1>2, <1>3

\* A page of a paged provider holds the rows from its offset on, as many as
\* the provider serves, if there are so many.
LEMMA PageHolds ==
    ASSUME VisitTyped, adapter \in Paged, PagesJoin
    PROVE  LET rows == PageOf(visit.page)
           IN  /\ Offset \in Nat /\ Len(rows) \in Nat
               /\ \A i \in DOMAIN listing :
                     i > Offset /\ i <= Offset + served => listing[i] \in Range(rows)
               /\ Len(rows) < served => Len(listing) < Offset + served
               /\ rows = <<>> => Len(listing) <= Offset
<1> DEFINE rows == PageOf(visit.page)
           size == Len(listing)
           end == Min({Offset + served, size})
           length == IF end > Offset THEN end - Offset ELSE 0
<1>1. /\ size \in Nat /\ DOMAIN listing = 1..size /\ served \in Nat /\ served > 0
      /\ \A i \in 1..size : listing[i] \in Item
  BY DEF VisitTyped
<1>2. Offset \in Nat
  BY NextPage DEF Offset, VisitTyped
<1>3. rows = SubSeq(listing, Offset + 1, end)
  BY DEF PageOf, Offset, PagesJoin, Paged
<1>4. end = IF Offset + served <= size THEN Offset + served ELSE size
  BY <1>1, <1>2, LeastOfTwo
<1> HIDE DEF size, end, rows
<1>5. /\ end \in Nat /\ end <= size /\ end <= Offset + served /\ length \in Nat
      /\ \A i \in 1..size : i > Offset /\ i <= Offset + served
            => /\ i - Offset \in 1..length /\ i - Offset \in 1..(end - (Offset + 1) + 1)
               /\ (Offset + 1) + (i - Offset) - 1 = i
  BY <1>1, <1>2, <1>4
<1>6. /\ rows \in Seq(Item)
      /\ Len(rows) = IF Offset + 1 <= end THEN end - (Offset + 1) + 1 ELSE 0
      /\ \A i \in 1..(end - (Offset + 1) + 1) : rows[i] = listing[(Offset + 1) + i - 1]
  <2>1. Offset + 1 \in Int /\ end \in Int
    BY <1>2, <1>5
  <2>2. \A i \in (Offset + 1)..end : listing[i] \in Item
    BY <1>1, <1>2, <1>5
  <2>3. QED
    BY <1>3, <2>1, <2>2, SubSeqProperties
<1>7. Len(rows) = length /\ DOMAIN rows = 1..length
  BY <1>2, <1>5, <1>6
<1>8. ASSUME NEW i \in 1..size, i > Offset, i <= Offset + served
      PROVE  listing[i] \in Range(rows)
  <2>1. i - Offset \in 1..length /\ rows[i - Offset] = listing[i]
    BY <1>5, <1>6, <1>8
  <2>2. QED
    BY <1>7, <2>1 DEF Range
<1>9. length < served => size < Offset + served
  BY <1>1, <1>2, <1>4, <1>5
<1>10. length = 0 => size <= Offset
  BY <1>1, <1>2, <1>4, <1>5
<1>11. rows = <<>> => length = 0
  BY <1>7
<1>12. QED
  BY <1>1, <1>2, <1>5, <1>7, <1>8, <1>9, <1>10, <1>11 DEF rows, size

-----------------------------------------------------------------------------
(* The steps.                                                              *)

\* Where a loop ends, nothing is listed behind the page.
LEMMA LastIsLast ==
    ASSUME VisitTyped, adapter \in Paged, NEW new, NEW named,
           LET end == EndAt(PageOf(visit.page), new, named)
           IN  \/ end = "empty" /\ PagesJoin
               \/ /\ end = "listed"
                  /\ adapter \in {"geonode", "litport"} => served = PageRows
                  /\ adapter = "nodemaven" => served = PerPage(named)
                  /\ adapter \in {"geonode", "nodemaven"} => "total" \in named
    PROVE  PagesJoin /\ Len(listing) <= Offset + served
<1> DEFINE rows == PageOf(visit.page)
           end == EndAt(rows, new, named)
<1>1. end = "empty" => PagesJoin /\ rows = <<>>
  BY DEF EndAt
<1>2. end = "listed" => LastPage(rows, named) /\ adapter # "proxydb"
  BY DEF EndAt, LastPage
<1>3. PagesJoin
  BY <1>1, <1>2 DEF PagesJoin
<1>4. /\ Offset \in Nat /\ served \in Nat /\ Len(listing) \in Nat
      /\ Len(rows) < served => Len(listing) < Offset + served
      /\ rows = <<>> => Len(listing) <= Offset
  BY <1>3, PageHolds DEF VisitTyped
<1>5. visit.page * served = Offset + served
  BY NextPage DEF VisitTyped, Offset
<1> HIDE DEF rows
<1>6. CASE end = "empty"
  BY <1>1, <1>3, <1>4, <1>6
<1>7. CASE end = "listed" /\ adapter \in {"geonode", "nodemaven"}
  <2>1. Total(named) = Len(listing)
    BY <1>7 DEF Total, rows
  <2>2. visit.page * served >= Total(named)
    <3>1. LastPage(rows, named)
      BY <1>2, <1>7
    <3>2. CASE adapter = "geonode"
      BY <1>7, <3>1, <3>2 DEF LastPage, GeonodeLast, rows
    <3>3. CASE adapter = "nodemaven"
      BY <1>7, <3>1, <3>3 DEF LastPage, NodeMavenLast, rows
    <3>4. QED
      BY <1>7, <3>2, <3>3
  <2>3. QED
    BY <1>3, <1>4, <1>5, <2>1, <2>2
<1>8. CASE end = "listed" /\ adapter = "litport"
  <2>1. served = PageRows /\ Len(rows) < PageRows
    BY <1>2, <1>8 DEF LastPage, LitportLast, rows
  <2>2. QED
    BY <1>3, <1>4, <2>1
<1>9. QED
  BY <1>2, <1>6, <1>7, <1>8 DEF Paged, rows

\* Every row of a page brings its proxies, unless the visit had them.
LEMMA NewsBrought ==
    ASSUME NEW rows, NEW row \in Range(rows)
    PROVE  Parsed(row) \subseteq visit.collected \cup News(rows)
BY DEF News

LEMMA FetchPageStep ==
    ASSUME VisitInv, FetchPage
    PROVE  VisitInv'
<1> DEFINE rows == PageOf(visit.page)
           new == News(rows)
<1>1. /\ VisitTyped /\ VisitUnderway /\ visit.phase = "page"
      /\ adapter' = adapter /\ served' = served /\ listing' = listing
      /\ changes' = changes /\ unmoved' = unmoved
  BY DEF VisitInv, FetchPage
<1>2. PICK named \in SUBSET Fields :
         LET end == EndAt(rows, new, named)
         IN  visit' = [phase     |-> IF end = "none" THEN "page" ELSE "over",
                       page      |-> visit.page + IF end = "none" THEN 1 ELSE 0,
                       collected |-> visit.collected \cup new,
                       named     |-> named,
                       end       |-> end]
  BY DEF FetchPage
<1> DEFINE end == EndAt(rows, new, named)
           joined == /\ adapter \in {"geonode", "litport"} => served = PageRows
                     /\ adapter = "nodemaven" => served = PerPage(named)
                     /\ adapter \in {"geonode", "nodemaven"} => "total" \in named
           counted == \/ end = "empty" /\ PagesJoin
                      \/ end = "listed" /\ joined
<1>3. \A item \in Range(rows) : Parsed(item) \subseteq visit.collected \cup new
  BY NewsBrought
<1>4. adapter \notin Paged => end # "none" /\ rows = listing
  BY DEF EndAt, LastPage, Paged, PageOf
<1>5. counted /\ adapter \in Paged => PagesJoin /\ Len(listing) <= Offset + served
  BY <1>1, LastIsLast
<1>6. PagesJoin /\ adapter \in Paged =>
         \A i \in DOMAIN listing : i > Offset /\ i <= Offset + served => listing[i] \in Range(rows)
  BY <1>1, PageHolds
<1> HIDE DEF rows, new, end
<1>7. /\ visit' = [phase |-> IF end = "none" THEN "page" ELSE "over",
                   page |-> visit.page + IF end = "none" THEN 1 ELSE 0,
                   collected |-> visit.collected \cup new,
                   named |-> named, end |-> end]
      /\ visit.page \in Nat \ {0}
  BY <1>1, <1>2 DEF VisitTyped, end
<1>8. /\ visit'.phase = (IF end = "none" THEN "page" ELSE "over")
      /\ visit'.page = (IF end = "none" THEN visit.page + 1 ELSE visit.page)
      /\ visit'.collected = visit.collected \cup new /\ visit'.named = named
      /\ visit'.end = end
  BY <1>7
<1>9. VisitTyped'
  <2>1. visit'.page \in Nat \ {0}
    BY <1>1, <1>8 DEF VisitTyped
  <2>2. visit' = [phase |-> visit'.phase, page |-> visit'.page,
                  collected |-> visit'.collected,
                  named |-> visit'.named, end |-> visit'.end]
    BY <1>7, <1>8
  <2>3. QED
    BY <1>1, <2>1, <2>2 DEF VisitTyped
<1>10. \A item : Parsed(item)' = Parsed(item)
  BY <1>1 DEF Parsed
<1>11. Offset \in Nat /\ served \in Nat
       /\ visit.page * served = Offset + served /\ ((visit.page + 1) - 1) * served = Offset + served
  <2>1. visit.page \in Nat \ {0} /\ served \in Nat \ {0}
    BY <1>1 DEF VisitTyped
  <2>2. QED
    BY <2>1, NextPage DEF Offset
<1>12. ASSUME NEW item \in unmoved, ~ Parsed(item) \subseteq visit.collected \cup new
       PROVE  /\ item \notin Range(rows) /\ ~ Parsed(item) \subseteq visit.collected
              /\ \E i \in DOMAIN listing : item = listing[i]
  BY <1>1, <1>3, <1>12 DEF VisitTyped, Range
<1>13. CASE end = "none"
  <2>1. adapter \in Paged
    BY <1>4, <1>13
  <2>2. Offset' = Offset + served
    BY <1>1, <1>8, <1>11, <1>13 DEF Offset
  <2>3. PagesJoin => Skipped' \subseteq Skipped
    <3> SUFFICES ASSUME PagesJoin, NEW item \in Skipped' PROVE item \in Skipped
      OBVIOUS
    <3>1. /\ item \in unmoved /\ ~ Parsed(item) \subseteq visit.collected \cup new
          /\ item \in FirstListed(Offset)'
      BY <1>1, <1>8, <1>10 DEF Skipped
    <3>2. PICK i \in DOMAIN listing : i <= Offset + served /\ item = listing[i]
      BY <1>1, <2>2, <3>1 DEF FirstListed
    <3>3. item \notin Range(rows) /\ ~ Parsed(item) \subseteq visit.collected
      BY <1>12, <3>1
    <3>4. ~(i > Offset)
      BY <1>6, <2>1, <3>2, <3>3
    <3>5. i <= Offset
      BY <1>1, <1>11, <3>4 DEF VisitTyped
    <3>6. QED
      BY <3>1, <3>2, <3>3, <3>5 DEF Skipped, FirstListed
  <2>4. PagesJoin => Cardinality(Skipped') <= changes
    <3> SUFFICES ASSUME PagesJoin PROVE Cardinality(Skipped') <= changes
      OBVIOUS
    <3>1. Skipped \subseteq Range(listing)
      BY <1>1 DEF Skipped, VisitTyped
    <3>2. /\ Cardinality(Skipped) \in Nat /\ Cardinality(Skipped') \in Nat
          /\ Cardinality(Skipped') <= Cardinality(Skipped)
      BY <1>1, <2>3, <3>1, NoMore
    <3>3. Cardinality(Skipped) <= changes /\ changes \in Nat
      BY <1>1 DEF VisitUnderway, VisitTyped
    <3>4. QED
      BY <3>2, <3>3
  <2>5. VisitUnderway'
    BY <1>1, <1>8, <1>13, <2>1, <2>4 DEF VisitUnderway, PagesJoin
  <2>6. VisitDriftOnly'
    BY <1>8, <1>13 DEF VisitDriftOnly
  <2>7. QED
    BY <1>9, <2>5, <2>6 DEF VisitInv
<1>14. CASE end # "none"
  <2>1. visit'.phase = "over"
    BY <1>8, <1>14
  <2>2. ASSUME counted
        PROVE  Cardinality(Missed') <= changes
    <3>1. PagesJoin
      <4>1. end = "listed" => adapter # "proxydb"
        BY DEF end, EndAt, LastPage
      <4>2. QED
        BY <2>2, <4>1 DEF PagesJoin
    <3>2. Missed' \subseteq Skipped
      <4> SUFFICES ASSUME NEW item \in Missed' PROVE item \in Skipped
        OBVIOUS
      <4>1. item \in unmoved /\ ~ Parsed(item) \subseteq visit.collected \cup new
        BY <1>1, <1>8, <1>10 DEF Missed
      <4>2. item \notin Range(rows) /\ ~ Parsed(item) \subseteq visit.collected
        BY <1>12, <4>1
      <4>3. PICK i \in DOMAIN listing : item = listing[i]
        BY <1>12, <4>1
      <4>4. adapter \in Paged
        BY <1>4, <4>2, <4>3 DEF Range
      <4>5. i <= Len(listing) /\ i \in Nat /\ Len(listing) \in Nat
        BY <1>1 DEF VisitTyped
      <4>6. i <= Offset + served
        BY <1>5, <1>11, <2>2, <4>4, <4>5
      <4>7. i <= Offset
        BY <1>6, <1>11, <3>1, <4>2, <4>3, <4>4, <4>5, <4>6
      <4>8. QED
        BY <4>1, <4>2, <4>3, <4>7 DEF Skipped, FirstListed
    <3>3. Skipped \subseteq Range(listing)
      BY <1>1 DEF Skipped, VisitTyped
    <3>4. /\ Cardinality(Skipped) \in Nat /\ Cardinality(Missed') \in Nat
          /\ Cardinality(Missed') <= Cardinality(Skipped)
      BY <1>1, <3>2, <3>3, NoMore
    <3>5. Cardinality(Skipped) <= changes /\ changes \in Nat
      BY <1>1, <3>1 DEF VisitUnderway, VisitTyped
    <3>6. QED
      BY <3>4, <3>5
  <2>3. VisitDriftOnly'
    <3>1. PerPage(named)' = PerPage(named)
      BY <1>1 DEF PerPage
    <3>2. (PagesJoin' => PagesJoin) /\ (CountsRight' => joined)
      BY <1>1, <1>8, <3>1 DEF CountsRight, PagesJoin, PerPage
    <3>3. visit'.end = end /\ changes' = changes
      BY <1>1, <1>8
    <3> HIDE DEF joined
    <3>4. QED
      BY <2>2, <3>2, <3>3 DEF VisitDriftOnly
  <2>4. QED
    BY <1>9, <2>1, <2>3 DEF VisitInv
<1>15. QED
  BY <1>13, <1>14

\* A row that the provider takes off the list draws up those behind it: one of
\* them slips before the next page.
LEMMA UnlistsStep ==
    ASSUME VisitInv, Unlists
    PROVE  VisitInv'
<1>1. PICK i \in DOMAIN listing :
         /\ SiteChanges(RemoveAt(listing, i))
         /\ unmoved' = unmoved \ {listing[i]}
  BY DEF Unlists
<1>2. /\ VisitTyped /\ visit.phase # "over" /\ VisitUnderway
      /\ changes' = changes + 1 /\ listing' = RemoveAt(listing, i)
      /\ adapter' = adapter /\ served' = served /\ visit' = visit
  BY <1>1 DEF SiteChanges, VisitInv
<1> DEFINE size == Len(listing)
<1>3. /\ size \in Nat /\ DOMAIN listing = 1..size /\ i \in 1..size
      /\ \A j \in 1..size : listing[j] \in Item
  BY <1>2 DEF VisitTyped
<1>4. /\ listing' \in Seq(Item) /\ DOMAIN listing' = 1..(size - 1)
      /\ \A j \in 1..(size - 1) : listing'[j] = IF j < i THEN listing[j] ELSE listing[j + 1]
  <2> DEFINE s == SubSeq(listing, 1, i - 1)
             t == SubSeq(listing, i + 1, size)
  <2>1. /\ 1 \in Int /\ i - 1 \in Int /\ i + 1 \in Int /\ size \in Int
        /\ \A j \in 1..(i - 1) : listing[j] \in Item
        /\ \A j \in (i + 1)..size : listing[j] \in Item
    BY <1>3
  <2>2. /\ s \in Seq(Item) /\ Len(s) = IF 1 <= i - 1 THEN (i - 1) - 1 + 1 ELSE 0
        /\ \A j \in 1..((i - 1) - 1 + 1) : s[j] = listing[1 + j - 1]
    BY <2>1, SubSeqProperties
  <2>3. /\ t \in Seq(Item) /\ Len(t) = IF i + 1 <= size THEN size - (i + 1) + 1 ELSE 0
        /\ \A j \in 1..(size - (i + 1) + 1) : t[j] = listing[(i + 1) + j - 1]
    <3> DEFINE m == i + 1
    <3>1. m \in Int /\ size \in Int /\ \A j \in m..size : listing[j] \in Item
      BY <2>1
    <3>2. t = SubSeq(listing, m, size)
      OBVIOUS
    <3> HIDE DEF m, size, t
    <3>3. /\ t \in Seq(Item) /\ Len(t) = IF m <= size THEN size - m + 1 ELSE 0
          /\ \A j \in 1..(size - m + 1) : t[j] = listing[m + j - 1]
      BY <3>1, <3>2, SubSeqProperties
    <3>4. QED
      BY <3>3 DEF m
  <2>4. listing' = s \o t
    BY <1>2 DEF RemoveAt
  <2> HIDE DEF s, t, size
  <2>5. Len(s) = i - 1 /\ Len(t) = size - i
    BY <1>3, <2>2, <2>3
  <2>6. /\ listing' \in Seq(Item) /\ DOMAIN listing' = 1..(Len(s) + Len(t))
        /\ \A j \in 1..(Len(s) + Len(t)) :
              listing'[j] = IF j <= Len(s) THEN s[j] ELSE t[j - Len(s)]
    BY <2>2, <2>3, <2>4, Joined
  <2>7. ASSUME NEW j \in 1..(size - 1)
        PROVE  listing'[j] = IF j < i THEN listing[j] ELSE listing[j + 1]
    <3>1. CASE j < i
      <4>1. j <= i - 1 /\ j \in 1..((i - 1) - 1 + 1) /\ j \in 1..(Len(s) + Len(t)) /\ 1 + j - 1 = j
        BY <1>3, <2>5, <3>1
      <4>2. QED
        BY <2>2, <2>5, <2>6, <3>1, <4>1
    <3>2. CASE ~(j < i)
      <4>1. /\ ~(j <= i - 1) /\ j \in 1..(Len(s) + Len(t))
            /\ j - (i - 1) \in 1..(size - (i + 1) + 1)
            /\ (i + 1) + (j - (i - 1)) - 1 = j + 1
        BY <1>3, <2>5, <3>2
      <4>2. listing'[j] = t[j - (i - 1)]
        BY <2>5, <2>6, <4>1
      <4>3. QED
        BY <2>3, <3>2, <4>1, <4>2
    <3>3. QED
      BY <3>1, <3>2
  <2>8. Len(s) + Len(t) = size - 1
    BY <1>3, <2>5
  <2>9. QED
    BY <2>6, <2>7, <2>8
<1> HIDE DEF size
<1>5. unmoved' \subseteq Range(listing')
  <2> SUFFICES ASSUME NEW item \in unmoved, item # listing[i] PROVE item \in Range(listing')
    BY <1>1
  <2>1. PICK j \in 1..size : item = listing[j]
    BY <1>2, <1>3 DEF VisitTyped, Range
  <2>2. j # i
    BY <2>1
  <2>3. CASE j < i
    <3>1. j \in 1..(size - 1) /\ listing'[j] = item
      BY <1>3, <1>4, <2>1, <2>3
    <3>2. QED
      BY <1>4, <3>1 DEF Range
  <2>4. CASE j > i
    <3>1. /\ j - 1 \in 1..(size - 1) /\ ~(j - 1 < i) /\ (j - 1) + 1 = j
      BY <1>3, <2>4
    <3>2. listing'[j - 1] = item
      BY <1>4, <2>1, <3>1
    <3>3. QED
      BY <1>4, <3>1, <3>2 DEF Range
  <2>5. QED
    BY <1>3, <2>2, <2>3, <2>4
<1>6. VisitTyped'
  BY <1>2, <1>4, <1>5 DEF VisitTyped
<1>7. Offset' = Offset /\ Offset \in Nat /\ \A item : Parsed(item)' = Parsed(item)
  <2>1. Offset \in Nat
    BY <1>2, NextPage DEF VisitTyped, Offset
  <2>2. QED
    BY <1>2, <2>1 DEF Offset, Parsed
<1>8. Skipped' \subseteq Skipped \cup {listing[Offset + 1]}
  <2> SUFFICES ASSUME NEW item \in Skipped' PROVE item \in Skipped \cup {listing[Offset + 1]}
    OBVIOUS
  <2>1. /\ item \in unmoved /\ ~ Parsed(item) \subseteq visit.collected
        /\ item \in FirstListed(Offset)'
    BY <1>1, <1>2, <1>7 DEF Skipped
  <2>2. PICK j \in 1..(size - 1) : j <= Offset /\ item = listing'[j]
    BY <1>4, <1>7, <2>1 DEF FirstListed
  <2>3. CASE j < i \/ j + 1 <= Offset
    <3>1. \E k \in 1..size : k <= Offset /\ item = listing[k]
      <4>1. j \in 1..size /\ j + 1 \in 1..size
        BY <1>3
      <4>2. QED
        BY <1>4, <2>2, <2>3, <4>1
    <3>2. item \in FirstListed(Offset)
      BY <1>3, <3>1 DEF FirstListed
    <3>3. QED
      BY <2>1, <3>2 DEF Skipped
  <2>4. CASE ~(j < i) /\ ~(j + 1 <= Offset)
    <3>1. j = Offset
      BY <1>7, <2>2, <2>4
    <3>2. QED
      BY <1>4, <2>2, <2>4, <3>1
  <2>5. QED
    BY <2>3, <2>4
<1>9. PagesJoin => Cardinality(Skipped') <= changes'
  <2> SUFFICES ASSUME PagesJoin PROVE Cardinality(Skipped') <= changes + 1
    BY <1>2
  <2>1. Skipped \subseteq Range(listing)
    BY <1>2 DEF Skipped, VisitTyped
  <2>2. /\ Cardinality(Skipped) \in Nat /\ Cardinality(Skipped') \in Nat
        /\ Cardinality(Skipped') <= Cardinality(Skipped) + 1
    BY <1>2, <1>8, <2>1, OneMore
  <2>3. Cardinality(Skipped) <= changes /\ changes \in Nat
    BY <1>2 DEF VisitUnderway, VisitTyped
  <2>4. QED
    BY <2>2, <2>3
<1>10. VisitUnderway'
  BY <1>2, <1>9 DEF VisitUnderway, PagesJoin
<1>11. VisitDriftOnly'
  BY <1>2 DEF VisitDriftOnly, VisitUnderway
<1>12. QED
  BY <1>2, <1>6, <1>10, <1>11 DEF VisitInv

\* A new row in front pushes the others on: pages may repeat, and none is
\* skipped.
LEMMA ListsFirstStep ==
    ASSUME VisitInv, ListsFirst
    PROVE  VisitInv'
<1>1. PICK item \in Item \ Range(listing) :
         SiteChanges(<<item>> \o listing) /\ unmoved' = unmoved
  BY DEF ListsFirst
<1>2. /\ VisitTyped /\ visit.phase # "over" /\ VisitUnderway
      /\ changes' = changes + 1 /\ listing' = <<item>> \o listing
      /\ adapter' = adapter /\ served' = served /\ visit' = visit
  BY <1>1 DEF SiteChanges, VisitInv
<1> DEFINE size == Len(listing)
<1>3. /\ size \in Nat /\ DOMAIN listing = 1..size
      /\ listing \in Seq(Item)
  BY <1>2 DEF VisitTyped
<1>4. /\ listing' \in Seq(Item) /\ DOMAIN listing' = 1..(size + 1)
      /\ listing'[1] = item /\ \A j \in 1..size : listing'[j + 1] = listing[j]
  <2> DEFINE one == <<item>>
  <2>1. one \in Seq(Item) /\ Len(one) = 1 /\ one[1] = item
    OBVIOUS
  <2>2. listing' = one \o listing
    BY <1>2
  <2> HIDE DEF one
  <2>3. /\ listing' \in Seq(Item) /\ DOMAIN listing' = 1..(1 + size)
        /\ \A j \in 1..(1 + size) :
              listing'[j] = IF j <= 1 THEN one[j] ELSE listing[j - 1]
    <3>1. /\ one \o listing \in Seq(Item) /\ DOMAIN (one \o listing) = 1..(Len(one) + size)
          /\ \A j \in 1..(Len(one) + size) :
                (one \o listing)[j] = IF j <= Len(one) THEN one[j] ELSE listing[j - Len(one)]
      BY <1>3, <2>1, Joined
    <3>2. QED
      BY <2>1, <2>2, <3>1
  <2>4. 1 + size = size + 1 /\ 1 \in 1..(1 + size)
    BY <1>3
  <2>5. \A j \in 1..size : j + 1 \in 1..(1 + size) /\ ~(j + 1 <= 1) /\ (j + 1) - 1 = j
    BY <1>3
  <2> HIDE DEF size
  <2>6. QED
    BY <2>1, <2>3, <2>4, <2>5
<1> HIDE DEF size
<1>5. unmoved' \subseteq Range(listing')
  <2> SUFFICES ASSUME NEW row \in unmoved PROVE row \in Range(listing')
    BY <1>1
  <2>1. PICK j \in 1..size : row = listing[j]
    BY <1>2, <1>3 DEF VisitTyped, Range
  <2>2. j + 1 \in 1..(size + 1) /\ listing'[j + 1] = row
    BY <1>3, <1>4, <2>1
  <2>3. QED
    BY <1>4, <2>2 DEF Range
<1>6. VisitTyped'
  BY <1>2, <1>4, <1>5 DEF VisitTyped
<1>7. Offset' = Offset /\ Offset \in Nat /\ \A row : Parsed(row)' = Parsed(row)
  <2>1. Offset \in Nat
    BY <1>2, NextPage DEF VisitTyped, Offset
  <2>2. QED
    BY <1>2, <2>1 DEF Offset, Parsed
<1>8. Skipped' \subseteq Skipped
  <2> SUFFICES ASSUME NEW row \in Skipped' PROVE row \in Skipped
    OBVIOUS
  <2>1. /\ row \in unmoved /\ ~ Parsed(row) \subseteq visit.collected
        /\ row \in FirstListed(Offset)'
    BY <1>1, <1>2, <1>7 DEF Skipped
  <2>2. PICK j \in 1..(size + 1) : j <= Offset /\ row = listing'[j]
    BY <1>4, <1>7, <2>1 DEF FirstListed
  <2>3. row # item
    BY <1>1, <1>2, <2>1 DEF VisitTyped
  <2>4. j # 1
    BY <1>4, <2>2, <2>3
  <2>5. j - 1 \in 1..size /\ j - 1 <= Offset /\ (j - 1) + 1 = j
    BY <1>3, <1>7, <2>2, <2>4
  <2>6. row = listing[j - 1]
    BY <1>4, <2>2, <2>5
  <2>7. row \in FirstListed(Offset)
    BY <1>3, <2>5, <2>6 DEF FirstListed
  <2>8. QED
    BY <2>1, <2>7 DEF Skipped
<1>9. PagesJoin => Cardinality(Skipped') <= changes'
  <2> SUFFICES ASSUME PagesJoin PROVE Cardinality(Skipped') <= changes + 1
    BY <1>2
  <2>1. Skipped \subseteq Range(listing)
    BY <1>2 DEF Skipped, VisitTyped
  <2>2. /\ Cardinality(Skipped) \in Nat /\ Cardinality(Skipped') \in Nat
        /\ Cardinality(Skipped') <= Cardinality(Skipped)
    BY <1>2, <1>8, <2>1, NoMore
  <2>3. Cardinality(Skipped) <= changes /\ changes \in Nat
    BY <1>2 DEF VisitUnderway, VisitTyped
  <2>4. QED
    BY <2>2, <2>3
<1>10. VisitUnderway'
  BY <1>2, <1>9 DEF VisitUnderway, PagesJoin
<1>11. VisitDriftOnly'
  BY <1>2 DEF VisitDriftOnly, VisitUnderway
<1>12. QED
  BY <1>2, <1>6, <1>10, <1>11 DEF VisitInv

\* A visit begins with nothing behind it.
LEMMA NothingSkipped ==
    ASSUME VisitTyped, visit.page = 1
    PROVE  Cardinality(Skipped) = 0
<1>1. Offset = 0
  BY DEF Offset, VisitTyped
<1>2. \A i \in DOMAIN listing : ~(i <= 0)
  BY DEF VisitTyped
<1>3. Skipped = {}
  BY <1>1, <1>2 DEF Skipped, FirstListed
<1>4. QED
  BY <1>3, FS_EmptySet

LEMMA VisitStep ==
    VisitInv /\ [SiteNext]_siteVars => VisitInv'
<1> SUFFICES ASSUME VisitInv, [SiteNext]_siteVars PROVE VisitInv'
  OBVIOUS
<1>1. VisitTyped /\ VisitDriftOnly /\ (visit.phase # "over" => VisitUnderway)
  BY DEF VisitInv
<1>2. CASE FetchNonce
  <2>1. /\ visit.phase = "nonce" /\ VisitUnderway
        /\ visit' = [visit EXCEPT !.phase = "page"]
        /\ UNCHANGED <<adapter, served, listing, changes, unmoved>>
    BY <1>1, <1>2 DEF FetchNonce
  <2>2. visit' = [phase |-> "page", page |-> visit.page,
                  collected |-> visit.collected,
                  named |-> visit.named, end |-> visit.end]
    BY <1>1, <2>1 DEF VisitTyped
  <2>3. /\ visit'.phase = "page" /\ visit'.page = visit.page
        /\ visit'.collected = visit.collected /\ visit'.end = visit.end
    BY <2>2
  <2>4. VisitTyped'
    BY <1>1, <2>1, <2>2, <2>3 DEF VisitTyped
  <2>5. Skipped' = Skipped
    BY <2>1, <2>3 DEF Skipped, Offset, FirstListed, Parsed
  <2>6. VisitUnderway'
    BY <2>1, <2>3, <2>5 DEF VisitUnderway, PagesJoin
  <2>7. VisitDriftOnly'
    BY <2>1, <2>3 DEF VisitDriftOnly, VisitUnderway
  <2>8. QED
    BY <2>4, <2>6, <2>7 DEF VisitInv
<1>3. CASE FetchPage
  BY <1>3, FetchPageStep
<1>4. CASE FetchOdd \/ FetchFails
  <2>1. /\ visit' = [phase |-> "over", page |-> visit.page,
                     collected |-> visit'.collected,
                     named |-> visit'.named, end |-> visit'.end]
        /\ visit'.end \notin {"empty", "listed"}
        /\ UNCHANGED <<adapter, served, listing, changes, unmoved>>
    <3>1. CASE FetchOdd
      <4>1. visit' = [phase |-> "over", page |-> visit.page,
                      collected |-> visit.collected,
                      named |-> visit.named, end |-> "odd"]
        BY <1>1, <3>1 DEF FetchOdd, Ended, VisitTyped
      <4>2. QED
        BY <3>1, <4>1 DEF FetchOdd
    <3>2. CASE FetchFails
      <4>1. Ended("failed") = [phase |-> "over", page |-> visit.page,
                               collected |-> visit.collected,
                               named |-> visit.named, end |-> "failed"]
        <5>1. ASSUME NEW over, over = Ended("failed")
              PROVE  over = [phase |-> "over", page |-> visit.page,
                             collected |-> visit.collected,
                             named |-> visit.named, end |-> "failed"]
          BY <1>1, <5>1 DEF Ended, VisitTyped
        <5>2. QED
          BY <5>1
      <4>2. visit' = [Ended("failed") EXCEPT !.collected = {}]
        BY <3>2 DEF FetchFails
      <4>3. visit' = [phase |-> "over", page |-> visit.page, collected |-> {},
                    named |-> visit.named, end |-> "failed"]
        BY <4>1, <4>2
      <4>4. QED
        BY <3>2, <4>3 DEF FetchFails
    <3>3. QED
      BY <1>4, <3>1, <3>2
  <2>2. visit'.phase = "over" /\ visit'.page = visit.page
    BY <2>1
  <2>3. VisitTyped'
    BY <1>1, <2>1, <2>2 DEF VisitTyped
  <2>4. VisitDriftOnly'
    BY <2>1 DEF VisitDriftOnly
  <2>5. QED
    BY <2>2, <2>3, <2>4 DEF VisitInv
<1>5. CASE VisitAgain
  <2>1. /\ visit' = Start /\ changes' = 0 /\ unmoved' = Range(listing)
        /\ UNCHANGED <<adapter, served, listing>>
    BY <1>5 DEF VisitAgain
  <2>2. visit'.page = 1 /\ visit'.end = "none"
        /\ visit' = [phase |-> visit'.phase, page |-> visit'.page,
                     collected |-> visit'.collected,
                     named |-> visit'.named, end |-> visit'.end]
    BY <2>1 DEF Start
  <2>3. VisitTyped'
    BY <1>1, <2>1, <2>2 DEF VisitTyped
  <2>4. Cardinality(Skipped') = 0
    <3>1. Offset' = 0
      BY <2>2, <2>3 DEF Offset, VisitTyped
    <3>2. \A i \in DOMAIN listing' : ~(i <= 0)
      BY <2>3 DEF VisitTyped
    <3>3. Skipped' = {}
      BY <3>1, <3>2 DEF Skipped, FirstListed
    <3>4. QED
      BY <3>3, FS_EmptySet
  <2>5. VisitUnderway' /\ VisitDriftOnly'
    BY <2>1, <2>2, <2>4 DEF VisitUnderway, VisitDriftOnly
  <2>6. QED
    BY <2>3, <2>5 DEF VisitInv
<1>6. CASE Unlists
  BY <1>6, UnlistsStep
<1>7. CASE ListsFirst
  BY <1>7, ListsFirstStep
<1>8. CASE UNCHANGED siteVars
  BY <1>1, <1>8 DEF siteVars, VisitInv, VisitTyped, VisitUnderway, VisitDriftOnly, Missed,
                    Skipped, Offset, FirstListed, Parsed, CountsRight, PagesJoin, PerPage
<1>9. QED
  BY <1>2, <1>3, <1>4, <1>5, <1>6, <1>7, <1>8 DEF SiteNext

LEMMA VisitInit == SiteInit => VisitInv
<1> SUFFICES ASSUME SiteInit PROVE VisitInv
  OBVIOUS
<1>1. /\ visit = Start /\ changes = 0 /\ unmoved = Range(listing)
      /\ served \in Nat \ {0} /\ listing \in Seq(Item)
  BY SourcesAssumption DEF SiteInit
<1>2. visit.page = 1 /\ visit.end = "none"
      /\ visit = [phase |-> visit.phase, page |-> visit.page,
                  collected |-> visit.collected,
                  named |-> visit.named, end |-> visit.end]
  BY <1>1 DEF Start
<1>3. VisitTyped
  BY <1>1, <1>2 DEF VisitTyped
<1>4. Cardinality(Skipped) = 0
  BY <1>2, <1>3, NothingSkipped
<1>5. QED
  BY <1>1, <1>2, <1>3, <1>4 DEF VisitInv, VisitUnderway, VisitDriftOnly

-----------------------------------------------------------------------------
(* The theorem.                                                            *)

\* Whatever a provider lists and however the listing changes while it is read,
\* a visit that reads on to the adapter's idea of the end misses at most as
\* many of the rows that stayed as there were changes (collect of geonode,
\* litport, nodemaven and proxydb): each rule of where to stop is right under
\* its condition.
THEOREM VisitsDriftOnly == SiteSpec => []VisitDriftOnly
<1>1. VisitInv => VisitDriftOnly
  BY DEF VisitInv
<1>2. QED
  BY <1>1, VisitInit, VisitStep, PTL DEF SiteSpec
=============================================================================
