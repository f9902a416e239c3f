--------------------------- MODULE MCProxyCatalog ---------------------------
(* Small instances of ProxyCatalog for TLC.                                *)
EXTENDS ProxyCatalog

Labelled(endpoints, protocols) ==
    [endpoint : endpoints, protocol : protocols]

\* Two sources, the first with both labels of an endpoint and a SOCKS entry,
\* the second with one label of it and an endpoint of its own.
OneOrder == <<"s1", "s2">>

CatalogListed ==
    [s \in {"s1", "s2"} |->
        IF s = "s1" THEN Labelled({"e1"}, {"http", "https", "socks5"})
                    ELSE {[endpoint |-> "e1", protocol |-> "http"],
                          [endpoint |-> "e2", protocol |-> "https"]}]

\* One source for two cycles that overlap.
SingleOrder == <<"s1">>

OverlapListed == [s \in {"s1"} |-> Labelled({"e1"}, {"http", "https"})]
=============================================================================
