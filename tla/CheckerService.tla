--------------------------- MODULE CheckerService ---------------------------
(***************************************************************************)
(* One probe of a proxy, many at a time: app/services/checker.py (HTTP and *)
(* HTTPS proxies, over an LRU pool of httpx transports that all workers    *)
(* share) and app/services/socks_checker.py (SOCKS proxies, over a socket  *)
(* and one deadline of their own).  An action is what a worker's task does *)
(* between two awaits; what comes over the wire is chosen by the proxy.    *)
(*                                                                         *)
(* The pool suspends only while it closes an evicted transport, with its   *)
(* lock held.  A request runs outside the lock, on a transport that other  *)
(* workers may evict meanwhile.                                            *)
(***************************************************************************)
EXTENDS Integers, Sequences, FiniteSets

CONSTANTS
    Worker,        \* tasks of the checker job that call check_proxy
    Proxy,         \* proxies to check
    NoProxy,       \* a worker without a check
    ProtocolOf,    \* the protocol of each proxy
    UrlOf,         \* proxy_connect_url of each: https is mapped to http
    NoUrl,         \* no URL
    Malformed,     \* URLs that httpx refuses with a ValueError
    MaxSize,       \* settings.checker_transport_pool_size
    MaxRedirects,  \* redirects that httpx follows in one check
    Status,        \* HTTP status codes that occur
    SuccessStatus  \* check_success_status_min..check_success_status_max

Socks == {"socks4", "socks5"}

NoStatus == 0

ASSUME ServiceAssumption ==
    /\ IsFiniteSet(Proxy)
    /\ NoProxy \notin Proxy
    /\ ProtocolOf \in [Proxy -> {"http", "https"} \cup Socks]
    /\ \A p \in Proxy : UrlOf[p] # NoUrl
    /\ MaxSize \in Nat \ {0}
    /\ MaxRedirects \in Nat
    /\ Status \subseteq Nat \ {NoStatus}

Url == {UrlOf[p] : p \in Proxy}

VARIABLES
    scheme,    \* of settings.check_url
    up,        \* between CheckerJob.start and stop
    entries,   \* _entries: URLs with a pooled transport, oldest use first
    holder,    \* {} or the worker that holds the pool's lock over an await
    waiting,   \* workers that wait for the lock, in order
    closing,   \* the evicted URL whose transport is being closed, or NoUrl
    lost,      \* URLs of open transports that nobody will close
    since,     \* per pooled URL, the others asked for since its last use
    check      \* what each worker's check is doing

poolVars == <<entries, holder, waiting, closing, lost, since>>
serviceVars == <<scheme, up, poolVars, check>>

HttpPhase == {"lock", "evict", "request", "body"}

SocksPhase == {"open", "socks4_reply", "auth_reply", "connect_reply",
               "response", "rest", "close", "expired"}

Verdict == {"none", "success", "failure", "auth", "raised"}

\* A check.  lease: its request runs on a pooled transport, or on one that was
\* evicted under it; aged: how many were in since of the URL at that moment.
\* granted, demand, status and late are what happened on the wire: the tunnel was
\* granted (an HTTP proxy answered), the last answer demands credentials as far
\* as the checker can tell, the last status line, and the SOCKS deadline passed.
Check ==
    [proxy     : Proxy \cup {NoProxy},
     phase     : HttpPhase \cup SocksPhase \cup {"idle", "done"},
     lease     : {"none", "pooled", "evicted"},
     aged      : Nat,
     redirects : 0..MaxRedirects,
     verdict   : Verdict,
     granted   : BOOLEAN,
     demand    : BOOLEAN,
     status    : Status \cup {NoStatus},
     late      : BOOLEAN]

ServiceTypeOK ==
    /\ scheme \in {"http", "https"}
    /\ up \in BOOLEAN
    /\ entries \in Seq(Url)
    /\ holder \in SUBSET Worker
    /\ waiting \in Seq(Worker)
    /\ closing \in Url \cup {NoUrl}
    /\ lost \in SUBSET Url
    /\ since \in [Url -> SUBSET Url]
    /\ check \in [Worker -> Check]

NewCheck(p, phase) ==
    [proxy |-> p, phase |-> phase, lease |-> "none", aged |-> 0,
     redirects |-> 0, verdict |-> "none", granted |-> FALSE, demand |-> FALSE,
     status |-> NoStatus, late |-> FALSE]

Idle == NewCheck(NoProxy, "idle")

NeverUsed == [u \in Url |-> {}]

ServiceInit ==
    /\ scheme \in {"http", "https"}
    /\ up = TRUE
    /\ entries = <<>> /\ holder = {} /\ waiting = <<>>
    /\ closing = NoUrl /\ lost = {} /\ since = NeverUsed
    /\ check = [w \in Worker |-> Idle]

-----------------------------------------------------------------------------
(* The pool of transports.                                                 *)

Pooled == {entries[i] : i \in DOMAIN entries}

\* Mutant: the pool's key is the proxy's own URL, https or http.
UrlOfCheckAsListed(w) == check[w].proxy

UrlOfCheck(w) == UrlOf[check[w].proxy]

\* since, now that u is asked for.
Asked(u) ==
    [v \in Url |-> IF v \in Pooled \ {u} THEN since[v] \cup {u} ELSE {}]

\* The entry at i moved to the most recent end.
Touched(i) ==
    [j \in DOMAIN entries |->
        IF j < i THEN entries[j]
        ELSE IF j < Len(entries) THEN entries[j + 1] ELSE entries[i]]

\* A check that is over, with its result.
Ended(c, verdict) ==
    [c EXCEPT !.phase = "done", !.lease = "none", !.aged = 0,
              !.redirects = 0, !.verdict = verdict]

\* Mutant: a hit leaves the entry where it is.
HitInPlace(w, i) ==
    /\ since' = Asked(entries[i])
    /\ check' = [check EXCEPT ![w].phase = "request", ![w].lease = "pooled"]
    /\ UNCHANGED <<entries, holder, closing, lost>>

Hit(w, i) ==
    /\ entries' = Touched(i)
    /\ since' = Asked(entries[i])
    /\ check' = [check EXCEPT ![w].phase = "request", ![w].lease = "pooled"]
    /\ UNCHANGED <<holder, closing, lost>>

\* popitem(last=False), then the await of its aclose.  Requests that run on
\* the transport lose it.
Evict(w, asked) ==
    LET victim == Head(entries)
    IN  /\ entries' = Tail(entries)
        /\ closing' = victim
        /\ holder' = {w}
        /\ since' = [asked EXCEPT ![victim] = {}]
        /\ check' =
              [x \in Worker |->
                  IF x = w THEN [check[w] EXCEPT !.phase = "evict"]
                  ELSE IF check[x].lease = "pooled" /\ UrlOfCheck(x) = victim
                  THEN [check[x] EXCEPT !.lease = "evicted",
                                        !.aged = Cardinality(asked[victim])]
                  ELSE check[x]]
        /\ UNCHANGED lost

\* Mutant: the lock is not released when httpx refuses the URL.
CreateHoldingOn(w, asked) ==
    /\ closing' = NoUrl
    /\ since' = asked
    /\ IF UrlOfCheck(w) \in Malformed
       THEN /\ check' = [check EXCEPT ![w] = Ended(@, "failure")]
            /\ holder' = {w}
            /\ UNCHANGED <<entries, lost>>
       ELSE /\ entries' = Append(entries, UrlOfCheck(w))
            /\ check' = [check EXCEPT ![w].phase = "request",
                                      ![w].lease = "pooled"]
            /\ holder' = {}
            /\ UNCHANGED lost

\* The new transport replaces an entry of the same URL, if there is one, whose
\* transport then stays open.
Create(w, asked) ==
    /\ closing' = NoUrl
    /\ holder' = {}
    /\ since' = asked
    /\ IF UrlOfCheck(w) \in Malformed
       THEN /\ check' = [check EXCEPT ![w] = Ended(@, "failure")]
            /\ UNCHANGED <<entries, lost>>
       ELSE /\ check' = [check EXCEPT ![w].phase = "request",
                                      ![w].lease = "pooled"]
            /\ IF UrlOfCheck(w) \in Pooled
               THEN /\ lost' = lost \cup {UrlOfCheck(w)}
                    /\ UNCHANGED entries
               ELSE /\ entries' = Append(entries, UrlOfCheck(w))
                    /\ UNCHANGED lost

\* The loop that evicts until there is room, then the new transport.
MakeRoom(w, asked) ==
    IF Len(entries) >= MaxSize THEN Evict(w, asked) ELSE Create(w, asked)

\* Mutant: the lock is not held over the closing of a transport.
AcquireUnlocked(w) ==
    /\ waiting # <<>> /\ Head(waiting) = w
    /\ waiting' = Tail(waiting)
    /\ \/ \E i \in DOMAIN entries :
             /\ entries[i] = UrlOfCheck(w)
             /\ Hit(w, i)
       \/ /\ UrlOfCheck(w) \notin Pooled
          /\ MakeRoom(w, Asked(UrlOfCheck(w)))
    /\ UNCHANGED <<scheme, up>>

Acquire(w) ==
    /\ holder = {}
    /\ waiting # <<>> /\ Head(waiting) = w
    /\ waiting' = Tail(waiting)
    /\ \/ \E i \in DOMAIN entries :
             /\ entries[i] = UrlOfCheck(w)
             /\ Hit(w, i)
       \/ /\ UrlOfCheck(w) \notin Pooled
          /\ MakeRoom(w, Asked(UrlOfCheck(w)))
    /\ UNCHANGED <<scheme, up>>

\* aclose returns.
EvictionDone(w) ==
    /\ check[w].phase = "evict"
    /\ MakeRoom(w, since)
    /\ UNCHANGED <<scheme, up, waiting>>

\* aclose raises: the lock is released, the evicted transport is out of the pool
\* (its connection is dropped where closing it fails) and none is created.  A
\* ValueError is a result, anything else that httpx does not map goes up.
EvictionFails(w) ==
    /\ check[w].phase = "evict"
    /\ holder' = {} /\ closing' = NoUrl
    /\ \E v \in {"failure", "raised"} : check' = [check EXCEPT ![w] = Ended(@, v)]
    /\ UNCHANGED <<scheme, up, entries, waiting, lost, since>>

-----------------------------------------------------------------------------
(* A check over HTTP.                                                      *)

\* check_proxy.  The checker job hands a proxy to one worker at a time
\* (OneCheckPerProxy of CheckerJob).  A SOCKS check of an https URL fails
\* before it connects.
StartCheck(w, p) ==
    /\ up
    /\ check[w] = Idle
    /\ \A x \in Worker : check[x].proxy # p
    /\ IF ProtocolOf[p] \notin Socks
       THEN /\ check' = [check EXCEPT ![w] = NewCheck(p, "lock")]
            /\ waiting' = Append(waiting, w)
       ELSE /\ check' =
                  [check EXCEPT ![w] =
                      IF scheme = "https"
                      THEN Ended(NewCheck(p, "open"), "failure")
                      ELSE NewCheck(p, "open")]
            /\ UNCHANGED waiting
    /\ UNCHANGED <<scheme, up, entries, holder, closing, lost, since>>

\* _perform_check on a response.
Judged(c) ==
    IF c.status = 407 THEN "auth"
    ELSE IF c.status \in SuccessStatus THEN "success" ELSE "failure"

\* The request fails: refused, reset (also because its transport was evicted),
\* or one of the timeouts of httpx, which are per phase of a request; or httpx
\* raises something that is not mapped.
RequestFails(w) ==
    /\ check[w].phase = "request"
    /\ \E v \in {"failure", "raised"} : check' = [check EXCEPT ![w] = Ended(@, v)]
    /\ UNCHANGED <<scheme, up, poolVars>>

\* The substrings that _perform_check looks for in the text of a ProxyError.
RequiresAuth(text) == "407" \in text \/ "authentication" \in text

\* The proxy refuses to open a tunnel, which an https URL needs, that of the
\* settings or that of a redirect.  The text of httpx.ProxyError is the status
\* and the reason phrase, in which the proxy writes what it likes.
TunnelRefused(w) ==
    /\ check[w].phase = "request"
    /\ scheme = "https" \/ check[w].redirects > 0
    /\ \E s \in Status \ 200..299, reason \in SUBSET {"407", "authentication"} :
          LET text == reason \cup (IF s = 407 THEN {"407"} ELSE {})
              demand == RequiresAuth(text)
          IN  check' = [check EXCEPT ![w] =
                           Ended([@ EXCEPT !.status = s, !.demand = demand],
                                 IF demand THEN "auth" ELSE "failure")]
    /\ UNCHANGED <<scheme, up, poolVars>>

ResponseStarts(w) ==
    /\ check[w].phase = "request"
    /\ \E s \in Status :
          check' = [check EXCEPT ![w] =
                       [@ EXCEPT !.phase = "body", !.granted = TRUE,
                                 !.status = s, !.demand = (s = 407)]]
    /\ UNCHANGED <<scheme, up, poolVars>>

\* httpx may follow a response: it is a redirect, and there were not too many.
Redirects(c) == c.status \in 300..399 /\ c.redirects < MaxRedirects

\* aread returns.  A redirect that names a location is followed, if the
\* settings say so, with a new request, for which the transport is acquired
\* again.
BodyEnds(w) ==
    /\ check[w].phase = "body"
    /\ \/ /\ Redirects(check[w])
          /\ check' = [check EXCEPT ![w] =
                           [NewCheck(@.proxy, "lock") EXCEPT
                               !.redirects = check[w].redirects + 1]]
          /\ waiting' = Append(waiting, w)
       \/ /\ check' = [check EXCEPT ![w] = Ended(@, Judged(@))]
          /\ UNCHANGED waiting
    /\ UNCHANGED <<scheme, up, entries, holder, closing, lost, since>>

\* A read error, a read timeout, or too many redirects.
BodyFails(w) ==
    /\ check[w].phase = "body"
    /\ check' = [check EXCEPT ![w] = Ended(@, "failure")]
    /\ UNCHANGED <<scheme, up, poolVars>>

-----------------------------------------------------------------------------
(* A check over SOCKS.                                                     *)

\* The phase of w's SOCKS check becomes phase.
SocksStep(w, phase) == [check EXCEPT ![w].phase = phase]

\* The probe returns verdict; its finally clause closes the socket.
SocksReturn(w, verdict) ==
    [check EXCEPT ![w].phase = "close", ![w].verdict = verdict]

\* open_connection returns, or raises: then there is no socket to close.
SocketOpens(w) ==
    /\ check[w].phase = "open"
    /\ \/ check' = SocksStep(w, IF ProtocolOf[check[w].proxy] = "socks4"
                                THEN "socks4_reply" ELSE "auth_reply")
       \/ check' = [check EXCEPT ![w] = Ended(@, "failure")]
    /\ UNCHANGED <<scheme, up, poolVars>>

\* The answer to the authentication methods offered: none is needed, user name
\* and password, or anything else (end of file, a short or invalid reply, no
\* acceptable method, an unknown method, a reset).
AuthReply(w) ==
    /\ check[w].phase = "auth_reply"
    /\ \/ check' = SocksStep(w, "connect_reply")
       \/ check' = [SocksReturn(w, "auth") EXCEPT ![w].demand = TRUE]
       \/ check' = SocksReturn(w, "failure")
    /\ UNCHANGED <<scheme, up, poolVars>>

\* The answer to the connect request: granted, or anything else.
ConnectReply(w) ==
    /\ check[w].phase \in {"socks4_reply", "connect_reply"}
    /\ \/ check' = [SocksStep(w, "response") EXCEPT ![w].granted = TRUE]
       \/ check' = SocksReturn(w, "failure")
    /\ UNCHANGED <<scheme, up, poolVars>>

\* The first bytes of a response, with a status line or not; or none.
SocksResponse(w) ==
    /\ check[w].phase = "response"
    /\ \/ \E s \in Status \cup {NoStatus} :
             check' = [SocksStep(w, "rest") EXCEPT ![w].status = s]
       \/ check' = SocksReturn(w, "failure")
    /\ UNCHANGED <<scheme, up, poolVars>>

\* End of file or more than 64 KiB: the response is judged; or a reset.
SocksRest(w) ==
    /\ check[w].phase = "rest"
    /\ \/ check' = SocksReturn(w, IF check[w].status \in SuccessStatus
                                  THEN "success" ELSE "failure")
       \/ check' = SocksReturn(w, "failure")
    /\ UNCHANGED <<scheme, up, poolVars>>

\* wait_closed returns.
SocketCloses(w) ==
    /\ check[w].phase \in {"close", "expired"}
    /\ check' = [check EXCEPT ![w] = Ended(@, check[w].verdict)]
    /\ UNCHANGED <<scheme, up, poolVars>>

\* Mutant: a result that is ready outlives the deadline.
DeadlineTooLate(w) ==
    /\ check[w].phase \in SocksPhase \ {"expired"}
    /\ check' = [check EXCEPT ![w] =
                    IF check[w].phase = "close"
                    THEN [@ EXCEPT !.phase = "expired", !.late = TRUE]
                    ELSE [@ EXCEPT !.phase = "expired", !.late = TRUE,
                                   !.verdict = "failure"]]
    /\ UNCHANGED <<scheme, up, poolVars>>

\* wait_for cancels the probe, also while it closes its socket with a result
\* at hand, which is lost; the finally clause still closes the socket.
Deadline(w) ==
    /\ check[w].phase \in SocksPhase \ {"expired"}
    /\ check' = [check EXCEPT ![w] =
                    IF check[w].phase = "open"
                    THEN Ended([@ EXCEPT !.late = TRUE], "failure")
                    ELSE [@ EXCEPT !.phase = "expired", !.late = TRUE,
                                   !.verdict = "failure"]]
    /\ UNCHANGED <<scheme, up, poolVars>>

-----------------------------------------------------------------------------
(* The worker takes the result; shutdown and restart.                      *)

Deliver(w) ==
    /\ check[w].phase = "done"
    /\ check' = [check EXCEPT ![w] = Idle]
    /\ UNCHANGED <<scheme, up, poolVars>>

\* CheckerJob.stop cancels the workers.  If one of them was closing a
\* transport, this one may stay open.
StopWorkers ==
    /\ up
    /\ up' = FALSE
    /\ check' = [w \in Worker |-> Idle]
    /\ holder' = {} /\ waiting' = <<>> /\ closing' = NoUrl
    /\ \/ UNCHANGED lost
       \/ /\ closing # NoUrl
          /\ lost' = lost \cup {closing}
    /\ UNCHANGED <<scheme, entries, since>>

\* CheckerService.close, then ProxyTransportPool.close.
ClosePool ==
    /\ ~up /\ entries # <<>>
    /\ entries' = <<>> /\ since' = NeverUsed
    /\ UNCHANGED <<scheme, up, holder, waiting, closing, lost, check>>

\* A new process, possibly with other settings.
Restart ==
    /\ ~up /\ entries = <<>>
    /\ scheme' \in {"http", "https"}
    /\ up' = TRUE
    /\ lost' = {}
    /\ since' = NeverUsed
    /\ UNCHANGED <<entries, holder, waiting, closing, check>>

HttpStep(w) ==
    \/ Acquire(w) \/ EvictionDone(w) \/ EvictionFails(w)
    \/ RequestFails(w) \/ TunnelRefused(w) \/ ResponseStarts(w)
    \/ BodyEnds(w) \/ BodyFails(w)

ProxyAnswers(w) ==
    \/ SocketOpens(w) \/ AuthReply(w) \/ ConnectReply(w)
    \/ SocksResponse(w) \/ SocksRest(w)

CheckStep(w) ==
    \/ \E p \in Proxy : StartCheck(w, p)
    \/ HttpStep(w)
    \/ ProxyAnswers(w)
    \/ Deadline(w) \/ SocketCloses(w)
    \/ Deliver(w)

ServiceNext ==
    \/ \E w \in Worker : CheckStep(w)
    \/ StopWorkers \/ ClosePool \/ Restart

ServiceSpec == ServiceInit /\ [][ServiceNext]_serviceVars

\* What does not wait for the proxy: the event loop runs its tasks, closing a
\* connection ends, the SOCKS deadline passes, and an HTTP request gets the
\* head of its response or fails, since its timeouts are per read and the HTTP
\* library bounds the size of a head (interim 1xx heads without end excepted).
Timely(w) ==
    \/ Acquire(w) \/ EvictionDone(w) \/ EvictionFails(w)
    \/ RequestFails(w) \/ TunnelRefused(w) \/ ResponseStarts(w)
    \/ Deadline(w) \/ SocketCloses(w)
    \/ Deliver(w)

\* Nothing is assumed of what a proxy sends: a body of which a piece arrives
\* before every read timeout need not end.
ServiceFairSpec ==
    ServiceSpec /\ \A w \in Worker : WF_serviceVars(Timely(w))

-----------------------------------------------------------------------------
(* Properties.                                                             *)

\* The pool never has more open transports than its size, the one being closed
\* included, nor two for a URL; every open transport is pooled or being closed,
\* so that none is left open for ever; and a request that was not told
\* otherwise runs on the pooled transport of its own proxy.
TransportsAccounted ==
    /\ Len(entries) + Cardinality({closing} \ {NoUrl}) <= MaxSize
    /\ \A i, j \in DOMAIN entries : entries[i] = entries[j] => i = j
    /\ up => lost = {}
    /\ \A w \in Worker :
          check[w].lease = "pooled" => UrlOfCheck(w) \in Pooled

\* A transport is closed under a running request only after the pool's whole
\* size in other proxies was asked for since it was last handed out: evictions
\* follow the last use, whatever hits, redirects and refused URLs come between.
VictimsAged ==
    \A w \in Worker :
        check[w].lease = "evicted" => check[w].aged >= MaxSize

\* A check succeeds only with a status in the range of the settings that came
\* through a granted tunnel before the deadline, from an answer that was not a
\* demand of credentials; a check past its deadline fails, whatever was answered;
\* and a demand disables the proxy unless the deadline passed or the body of the
\* 407 did not arrive.  A demand is what the checker takes for one, a word in a
\* reason phrase included: see TunnelRefused.
VerdictEarned ==
    \A w \in Worker :
        LET c == check[w]
        IN  c.phase = "done" =>
               /\ c.verdict = "success" =>
                     /\ c.granted /\ ~c.demand
                     /\ c.status \in SuccessStatus
               /\ c.late => c.verdict = "failure"
               /\ c.verdict = "auth" => c.demand
               /\ c.demand => \/ c.verdict = "auth"
                              \/ c.late
                              \/ c.granted /\ c.status = 407

\* No check hangs: neither an eviction that other workers wait for, nor a
\* silent proxy, keeps it.  A SOCKS check, which has no phase "body", ends
\* whatever the proxy sends; an HTTP check ends or is receiving a body, for which
\* httpx has no overall deadline.
ProbesEnd ==
    \A w \in Worker :
        check[w].phase \notin {"idle", "body"} ~>
            check[w].phase \in {"idle", "body"}
=============================================================================
