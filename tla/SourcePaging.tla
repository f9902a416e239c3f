---------------------------- MODULE SourcePaging ----------------------------
(***************************************************************************)
(* collect() of the source adapters (app/sources/): one visit to a         *)
(* provider whose listing changes while the adapter reads it.  Four of     *)
(* them read it page by page, each with a stopping rule of its own; the    *)
(* others with one request, ProxyCompass after one for a nonce.            *)
(*                                                                         *)
(* The provider is external: what it lists, in which order, how many rows  *)
(* it puts on a page, and which answers it gives is taken from how the     *)
(* adapters use it.                                                        *)
(***************************************************************************)
EXTENDS Integers, Sequences, FiniteSetsExt, SequencesExt

CONSTANTS
    Adapter,       \* the adapters, by their module
    Item,          \* the rows a provider may list
    SiteListings,  \* listings a visit may find
    PageRows,      \* page_size of the adapter's configuration
    RowsServed,    \* how many rows the provider may put on a page
    MaxPages,      \* max_pages of the adapter's configuration
    MaxChanges,    \* bound of the model: changes of a listing during a visit
    Supported,     \* settings.supported_protocols
    ListProtocol   \* the protocol of a text list's configuration

\* sound: host and port pass the adapter's tests; tls: the port is one of
\* HTTPS_PORTS.  Only Geonode lists an endpoint with several protocols.
ASSUME SourcesAssumption ==
    /\ Adapter \subseteq {"geonode", "litport", "nodemaven", "proxydb",
                          "proxyscrape", "proxycompass", "text_list"}
    /\ \A item \in Item :
          /\ DOMAIN item = {"endpoint", "protocols", "sound", "tls"}
          /\ item.sound \in BOOLEAN /\ item.tls \in BOOLEAN
    /\ SiteListings \subseteq Seq(Item)
    /\ PageRows \in Nat \ {0} /\ MaxPages \in Nat \ {0} /\ MaxChanges \in Nat
    /\ RowsServed \subseteq 1..PageRows

VARIABLES
    adapter,    \* who is collecting
    served,     \* rows on a page of this provider
    listing,    \* what the provider lists now
    visit,      \* the adapter's progress
    changes,    \* history: changes of the listing since the visit began
    unmoved     \* history: rows that have stayed where they were listed

siteVars == <<adapter, served, listing, visit, changes, unmoved>>

-----------------------------------------------------------------------------
\* ProxyCompassSource._infer_protocol: a protocol that is named, or else the
\* one its port suggests.
InferProtocol(item) ==
    LET named == item.protocols \cap Supported
    IN  IF named # {} THEN {CHOOSE protocol \in named : TRUE}
        ELSE IF "https" \in Supported /\ (item.tls \/ "http" \notin Supported)
             THEN {"https"}
             ELSE {"http"} \cap Supported

\* The protocols a row names.
ListedProtocols(item) == item.protocols \cap Supported

\* A line of a text list has the protocol of the list's configuration.
LineProtocols == {ListProtocol}

\* What an adapter makes of a row: one proxy for each protocol.
Parsed(item) ==
    LET protocols == CASE adapter = "text_list"    -> LineProtocols
                       [] adapter = "proxycompass" -> InferProtocol(item)
                       [] OTHER                    -> ListedProtocols(item)
    IN  IF item.sound THEN {<<protocol, item.endpoint>> : protocol \in protocols} ELSE {}

Paged == {"geonode", "litport", "nodemaven", "proxydb"}

\* The rows of the page that is asked for.  ProxyDB is asked for an offset,
\* the others for a page, which they count in pages of their own size.
PageOf(page) ==
    LET offset == (page - 1) * (IF adapter = "proxydb" THEN PageRows ELSE served)
    IN  IF adapter \in Paged
        THEN SubSeq(listing, offset + 1, Min({offset + served, Len(listing)}))
        ELSE listing

\* What a loop reads of a response besides its rows.
Fields == CASE adapter = "geonode"   -> {"total"}
            [] adapter = "nodemaven" -> {"total", "per_page"}
            [] OTHER                 -> {}

\* The total of a response; a missing one counts as 0.
Total(named) == IF "total" \in named THEN Len(listing) ELSE 0

\* The size of the response's pages; a missing one counts as the one asked for.
PerPage(named) == IF "per_page" \in named THEN served ELSE PageRows

\* Where a loop ends behind a page with rows.  Geonode reckons with the total
\* and the size it asked for.
GeonodeLast(named) == visit.page * PageRows >= Total(named)

\* Mutant: NodeMaven, too, counts in the size that was asked for.
NodeMavenLastAsAsked(named) == visit.page * PageRows >= Total(named)

\* NodeMaven reckons with the size that the response names.
NodeMavenLast(named) == visit.page * PerPage(named) >= Total(named)

\* Litport takes a short page for the last.
LitportLast(rows) == Len(rows) < PageRows

LastPage(rows, named) ==
    CASE adapter = "geonode"   -> GeonodeLast(named)
      [] adapter = "nodemaven" -> NodeMavenLast(named)
      [] adapter = "litport"   -> LitportLast(rows)
      [] adapter = "proxydb"   -> FALSE
      [] OTHER                 -> TRUE

-----------------------------------------------------------------------------
\* collected: the result list, and with it the set seen.  named: the fields that
\* the last response had.  end: why the visit is over; "barren": ProxyDB's
\* stopping rule met a page that was not empty.
Start == [phase |-> IF adapter = "proxycompass" THEN "nonce" ELSE "page",
          page |-> 1, collected |-> {}, named |-> {}, end |-> "none"]

Ended(end) == [visit EXCEPT !.phase = "over", !.end = end]

\* ProxyCompassSource._fetch_nonce.
FetchNonce ==
    /\ visit.phase = "nonce"
    /\ visit' = [visit EXCEPT !.phase = "page"]
    /\ UNCHANGED <<adapter, served, listing, changes, unmoved>>

\* The proxies of a page that the visit has not seen.
News(rows) == (UNION {Parsed(item) : item \in Range(rows)}) \ visit.collected

\* Why the loop ends with this page, or "none".  ProxyDB stops at a page that
\* brings nothing new.
EndAt(rows, new, named) ==
    CASE adapter \in Paged /\ rows = <<>>    -> "empty"
      [] adapter = "proxydb" /\ rows # <<>> /\ new = {} -> "barren"
      [] OTHER -> IF LastPage(rows, named) THEN "listed"
                  ELSE IF visit.page = MaxPages THEN "max_pages" ELSE "none"

\* One request, and what the loop does with its page.
FetchPage ==
    /\ visit.phase = "page"
    /\ \E named \in SUBSET Fields :
          LET rows == PageOf(visit.page)
              new  == News(rows)
              end  == EndAt(rows, new, named)
          IN  visit' = [phase     |-> IF end = "none" THEN "page" ELSE "over",
                        page      |-> visit.page + IF end = "none" THEN 1 ELSE 0,
                        collected |-> visit.collected \cup new,
                        named     |-> named,
                        end       |-> end]
    /\ UNCHANGED <<adapter, served, listing, changes, unmoved>>

\* An answer of another shape, with status 200.  The paged adapters take it
\* for the end of the listing, and so does one that finds no line or row in
\* a text; the others raise.
FetchOdd ==
    /\ visit.phase = "page"
    /\ adapter \in Paged \cup {"text_list"}
    /\ visit' = Ended("odd")
    /\ UNCHANGED <<adapter, served, listing, changes, unmoved>>

\* An HTTP error, a time-out, an answer that cannot be decoded: collect()
\* raises, and the pages it has read are lost with the coroutine.
FetchFails ==
    /\ visit.phase \in {"nonce", "page"}
    /\ visit' = [Ended("failed") EXCEPT !.collected = {}]
    /\ UNCHANGED <<adapter, served, listing, changes, unmoved>>

\* The next cycle of the collector visits the source again.
VisitAgain ==
    /\ visit.phase = "over"
    /\ visit' = Start
    /\ changes' = 0
    /\ unmoved' = Range(listing)
    /\ UNCHANGED <<adapter, served, listing>>

-----------------------------------------------------------------------------
(* The provider.                                                           *)

SiteChanges(now) ==
    /\ visit.phase # "over"
    /\ changes < MaxChanges
    /\ changes' = changes + 1
    /\ listing' = now
    /\ UNCHANGED <<adapter, served, visit>>

Unlists == \E i \in DOMAIN listing :
    /\ SiteChanges(RemoveAt(listing, i))
    /\ unmoved' = unmoved \ {listing[i]}

\* Rows that were just checked come first.
ListsFirst == \E item \in Item \ Range(listing) :
    /\ SiteChanges(<<item>> \o listing)
    /\ UNCHANGED unmoved

-----------------------------------------------------------------------------
SiteInit ==
    /\ adapter \in Adapter
    /\ served \in RowsServed
    /\ listing \in SiteListings
    /\ visit = Start
    /\ changes = 0
    /\ unmoved = Range(listing)

SiteNext ==
    \/ FetchNonce \/ FetchPage \/ FetchOdd \/ FetchFails \/ VisitAgain
    \/ Unlists \/ ListsFirst

SiteSpec == SiteInit /\ [][SiteNext]_siteVars

-----------------------------------------------------------------------------
(* Properties.                                                             *)

Missed == {item \in unmoved : ~ Parsed(item) \subseteq visit.collected}

\* The provider's pages join: only ProxyDB asks for an offset of its own.
PagesJoin == adapter = "proxydb" => served = PageRows

\* The sum that ended the loop was made of what is true of the provider.
CountsRight ==
    /\ adapter \in {"geonode", "litport"} => served = PageRows
    /\ adapter = "nodemaven" => served = PerPage(visit.named)
    /\ adapter \in {"geonode", "nodemaven"} => "total" \in visit.named

\* A visit that reads on to the adapter's idea of the end misses at most as
\* many of the rows listed throughout as the listing changed meanwhile; of a
\* listing at rest it misses none.  A visit that ends at an empty page needs for
\* it that the pages join; one that ends behind a page with rows, that the
\* adapter counts right: Geonode and Litport with pages of the size they asked
\* for, NodeMaven with those or with a response that names their size, and
\* Geonode and NodeMaven with the total in it (collect).
VisitDriftOnly ==
    \/ visit.end = "empty" /\ PagesJoin
    \/ visit.end = "listed" /\ CountsRight
    => Cardinality(Missed) <= changes
=============================================================================
