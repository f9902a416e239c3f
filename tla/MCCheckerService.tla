-------------------------- MODULE MCCheckerService --------------------------
(* A small instance of CheckerService for TLC.                             *)
EXTENDS CheckerService

\* Two rows of one endpoint, http and https, that share a URL (overlapping
\* collections can leave such rows); three more HTTP proxies, one with a
\* URL that httpx refuses; a SOCKS5 proxy, whose phases are those of SOCKS4
\* and one more.
MCProtocolOf ==
    [p \in Proxy |->
        CASE p \in {"a", "b", "c", "m"} -> "http"
          [] p = "as" -> "https"
          [] p = "s5" -> "socks5"]

MCUrlOf == [p \in Proxy |-> IF p = "as" THEN "a" ELSE p]
=============================================================================
