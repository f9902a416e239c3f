----------------------- MODULE CheckerService_proofs -----------------------
(***************************************************************************)
(* Proofs about CheckerService, for every set of workers and proxies, every *)
(* pool size, every number of redirects and every range of status codes.    *)
(***************************************************************************)
EXTENDS CheckerService, FiniteSetTheorems, TLAPS

-----------------------------------------------------------------------------
(* The inductive invariant.                                                *)

\* A check is a check of a proxy unless its worker is idle, and there are none
\* after a stop.
ChecksInv ==
    /\ \A w \in Worker : check[w].phase # "idle" => check[w].proxy \in Proxy
    /\ ~up => \A w \in Worker : check[w] = Idle

\* The lock is held by the worker that evicts, and by no other; workers queue
\* for it once.
LockInv ==
    /\ \A v, w \in holder : v = w
    /\ holder = {} <=> closing = NoUrl
    /\ \A w \in Worker : check[w].phase = "evict" <=> w \in holder
    /\ \A i, j \in DOMAIN waiting : waiting[i] = waiting[j] => i = j
    /\ \A i \in DOMAIN waiting : check[waiting[i]].phase = "lock"
    /\ ~up => waiting = <<>>

\* The pool is in the order of the last use; and the URL for which a transport
\* is evicted is not pooled, and newer than all that are.
OrderInv ==
    /\ \A i, j \in DOMAIN entries :
          i < j => entries[j] \in since[entries[i]]
    /\ \A w \in holder : \A v \in Pooled :
          v # UrlOfCheck(w) /\ UrlOfCheck(w) \in since[v]

LeaseInv ==
    \A w \in Worker :
        check[w].lease # "none" => check[w].phase \in {"request", "body"}

ServiceInv ==
    /\ ServiceTypeOK
    /\ ChecksInv
    /\ LockInv
    /\ OrderInv
    /\ LeaseInv
    /\ TransportsAccounted
    /\ VictimsAged

-----------------------------------------------------------------------------
(* Facts about the definitions.                                            *)

LEMMA UrlsFinite == IsFiniteSet(Url)
<1> DEFINE f == [p \in Proxy |-> UrlOf[p]]
<1>1. f \in Surjection(Proxy, Url)
  BY DEF Url, Surjection
<1>2. QED
  BY <1>1, FS_Surjection, ServiceAssumption

\* New and ended checks are checks.
LEMMA Checks ==
    /\ \A p \in Proxy \cup {NoProxy} :
         \A f \in HttpPhase \cup SocksPhase \cup {"idle", "done"} :
            NewCheck(p, f) \in Check
    /\ Idle \in Check
    /\ \A c \in Check, v \in Verdict : Ended(c, v) \in Check
    /\ \A c \in Check, v \in Verdict :
          /\ Ended(c, v).phase = "done" /\ Ended(c, v).lease = "none"
          /\ Ended(c, v).proxy = c.proxy /\ Ended(c, v).verdict = v
          /\ Ended(c, v).granted = c.granted /\ Ended(c, v).demand = c.demand
          /\ Ended(c, v).status = c.status /\ Ended(c, v).late = c.late
<1>1. 0 \in 0..MaxRedirects
  BY ServiceAssumption
<1>2. \A p \in Proxy \cup {NoProxy} :
         \A f \in HttpPhase \cup SocksPhase \cup {"idle", "done"} :
            NewCheck(p, f) \in Check
  BY <1>1 DEF NewCheck, Check, Verdict
<1>3. Idle \in Check
  BY <1>2 DEF Idle
<1>4. \A c \in Check, v \in Verdict : Ended(c, v) \in Check
  BY <1>1 DEF Ended, Check
<1>5. QED
  BY <1>2, <1>3, <1>4 DEF Ended, Check

\* A worker whose check is not idle works for a service that is up.
LEMMA Busy ==
    ASSUME ServiceInv, NEW w \in Worker, check[w].phase # "idle"
    PROVE  up /\ check[w] \in Check /\ check[w].proxy \in Proxy
BY DEF ServiceInv, ServiceTypeOK, ChecksInv, Idle, NewCheck

-----------------------------------------------------------------------------
(* Steps that do not touch the pool.                                       *)

\* A step of w's own: neither before nor after it does w wait for the lock or
\* hold it, and the lease, if there is one afterwards, is the one before it.
LEMMA OwnStep ==
    ASSUME ServiceInv, UNCHANGED <<scheme, up, poolVars>>,
           NEW w \in Worker, NEW c \in Check,
           check' = [check EXCEPT ![w] = c],
           check[w].phase \notin {"lock", "evict", "idle"},
           c.phase \notin {"lock", "evict"},
           c.phase # "idle" => c.proxy \in Proxy,
           \/ c.lease = "none"
           \/ /\ c.lease = check[w].lease /\ c.aged = check[w].aged
              /\ c.proxy = check[w].proxy
              /\ c.phase \in {"request", "body"}
    PROVE  ServiceInv'
<1>1. up
  BY Busy
<1> USE DEF ServiceInv, poolVars
<1>2. ServiceTypeOK'
  BY DEF ServiceTypeOK
<1>3. \A x \in Worker : check'[x] = IF x = w THEN c ELSE check[x]
  BY DEF ServiceTypeOK
<1>4. ChecksInv'
  BY <1>1, <1>3 DEF ChecksInv
<1>5. LockInv'
  BY <1>1, <1>3 DEF LockInv, ServiceTypeOK
<1>6. OrderInv'
  <2>1. w \notin holder
    BY DEF LockInv, ServiceTypeOK
  <2>2. \A x \in holder : UrlOfCheck(x)' = UrlOfCheck(x)
    BY <1>3, <2>1 DEF UrlOfCheck, ServiceTypeOK
  <2>3. QED
    BY <2>2 DEF OrderInv, Pooled
<1>7. LeaseInv'
  BY <1>3 DEF LeaseInv
<1>8. TransportsAccounted'
  BY <1>3 DEF TransportsAccounted, UrlOfCheck, Pooled
<1>9. VictimsAged'
  BY <1>3 DEF VictimsAged
<1>10. QED
  BY <1>2, <1>4, <1>5, <1>6, <1>7, <1>8, <1>9

\* w starts to wait for the lock.
LEMMA QueueStep ==
    ASSUME ServiceInv, UNCHANGED <<scheme, up, entries, holder, closing, lost, since>>,
           up, NEW w \in Worker, NEW c \in Check,
           check' = [check EXCEPT ![w] = c],
           check[w].phase \notin {"lock", "evict"},
           c.phase = "lock", c.lease = "none", c.proxy \in Proxy,
           waiting' = Append(waiting, w)
    PROVE  ServiceInv'
<1> USE DEF ServiceInv
<1>1. ServiceTypeOK'
  BY DEF ServiceTypeOK
<1>2. \A x \in Worker : check'[x] = IF x = w THEN c ELSE check[x]
  BY DEF ServiceTypeOK
<1>3. ChecksInv'
  BY <1>2 DEF ChecksInv
<1>4. LockInv'
  <2>1. waiting \in Seq(Worker) /\ \A i \in DOMAIN waiting : waiting[i] # w
    BY DEF LockInv, ServiceTypeOK
  <2>2. QED
    BY <1>2, <2>1 DEF LockInv, ServiceTypeOK
<1>5. OrderInv'
  <2>1. w \notin holder
    BY DEF LockInv, ServiceTypeOK
  <2>2. \A x \in holder : UrlOfCheck(x)' = UrlOfCheck(x)
    BY <1>2, <2>1 DEF UrlOfCheck, ServiceTypeOK
  <2>3. QED
    BY <2>2 DEF OrderInv, Pooled
<1>6. LeaseInv' /\ VictimsAged'
  BY <1>2 DEF LeaseInv, VictimsAged
<1>7. TransportsAccounted'
  BY <1>2 DEF TransportsAccounted, UrlOfCheck, Pooled
<1>8. QED
  BY <1>1, <1>3, <1>4, <1>5, <1>6, <1>7

-----------------------------------------------------------------------------
(* Steps of the pool, by the head of the queue or by the lock's holder.    *)

\* A request for u ages every other pooled URL, and none loses what it had.
LEMMA AskedAges ==
    ASSUME ServiceTypeOK, NEW u \in Url
    PROVE  /\ Asked(u) \in [Url -> SUBSET Url]
           /\ \A v \in Pooled \ {u} : Asked(u)[v] = since[v] \cup {u}
BY DEF ServiceTypeOK, Asked, Pooled

\* The head of the queue leaves it; the others keep their places.
LEMMA QueueHead ==
    ASSUME ServiceInv, waiting # <<>>, waiting' = Tail(waiting)
    PROVE  /\ waiting' \in Seq(Worker)
           /\ \A i, j \in DOMAIN waiting' : waiting'[i] = waiting'[j] => i = j
           /\ \A i \in DOMAIN waiting' :
                 check[waiting'[i]].phase = "lock" /\ waiting'[i] # Head(waiting)
BY DEF ServiceInv, ServiceTypeOK, LockInv

\* w's URL is pooled: it becomes the most recent, newer than all others.
LEMMA HitStep ==
    ASSUME ServiceInv, NEW w \in Worker, Acquire(w),
           NEW i \in DOMAIN entries, entries[i] = UrlOfCheck(w), Hit(w, i)
    PROVE  ServiceInv'
<1> USE DEF ServiceInv
<1> DEFINE u == UrlOfCheck(w)
           n == Len(entries)
<1>1. check[w].phase = "lock"
  BY DEF Acquire, LockInv, ServiceTypeOK
<1>2. up /\ check[w] \in Check /\ check[w].proxy \in Proxy
  BY <1>1, Busy
<1>3. /\ n \in Nat /\ DOMAIN entries = 1..n /\ i \in 1..n
      /\ \A j \in 1..n : entries[j] \in Url
  BY DEF ServiceTypeOK
<1>4. u \in Url
  BY <1>3
<1>5. entries' = Touched(i) /\ since' = Asked(u)
  BY DEF Hit
<1>6. /\ entries' \in Seq(Url) /\ Len(entries') = n /\ DOMAIN entries' = 1..n
      /\ \A j \in 1..n : entries'[j] = IF j < i THEN entries[j]
                                       ELSE IF j < n THEN entries[j + 1] ELSE u
  <2>1. entries' = [j \in 1..n |-> IF j < i THEN entries[j]
                                   ELSE IF j < n THEN entries[j + 1] ELSE u]
    BY <1>3, <1>5 DEF Touched
  <2>2. \A j \in 1..n : j < n => j + 1 \in 1..n
    BY <1>3
  <2>3. \A j \in 1..n : entries'[j] \in Url
    BY <1>3, <1>4, <2>1, <2>2
  <2>4. entries' \in [1..n -> Url]
    BY <2>1, <2>3
  <2>5. QED
    BY <1>3, <2>1, <2>4
<1>7. \A a, b \in 1..n : entries[a] = entries[b] => a = b
  BY <1>3 DEF TransportsAccounted
<1>8. \A v \in Url : v \in Pooled' <=> v \in Pooled
  <2>1. \A v \in Pooled' : v \in Pooled
    <3> SUFFICES ASSUME NEW a \in 1..n PROVE entries'[a] \in Pooled
      BY <1>6 DEF Pooled
    <3>1. a < n => a + 1 \in 1..n
      BY <1>3
    <3>2. QED
      BY <1>3, <1>6, <3>1 DEF Pooled
  <2>2. \A v \in Pooled : v \in Pooled'
    <3> SUFFICES ASSUME NEW a \in 1..n
                 PROVE  \E b \in 1..n : entries'[b] = entries[a]
      BY <1>3, <1>6 DEF Pooled
    <3>1. CASE a < i
      BY <1>6, <3>1
    <3>2. CASE a = i
      BY <1>3, <1>6, <3>2
    <3>3. CASE a > i
      <4>1. a - 1 \in 1..n /\ ~(a - 1 < i) /\ a - 1 < n /\ (a - 1) + 1 = a
        BY <1>3, <3>3
      <4>2. QED
        BY <1>6, <4>1
    <3>4. QED
      BY <1>3, <3>1, <3>2, <3>3
  <2>3. QED
    BY <2>1, <2>2
<1>9. \A x \in Worker :
         /\ check'[x].proxy = check[x].proxy
         /\ check'[x].phase = IF x = w THEN "request" ELSE check[x].phase
         /\ check'[x].lease = IF x = w THEN "pooled" ELSE check[x].lease
         /\ check'[x].aged = check[x].aged
         /\ x # w => check'[x] = check[x]
  BY <1>2 DEF Hit, ServiceTypeOK, Check
<1>10. ServiceTypeOK'
  <2>1. check' \in [Worker -> Check]
    BY <1>2 DEF Hit, ServiceTypeOK, Check, HttpPhase
  <2>2. QED
    BY <1>4, <1>5, <1>6, <2>1, AskedAges, QueueHead DEF ServiceTypeOK, Acquire, Hit
<1>11. ChecksInv'
  BY <1>2, <1>9 DEF ChecksInv, Acquire
<1>12. LockInv'
  <2>1. waiting # <<>> /\ waiting' = Tail(waiting) /\ Head(waiting) = w
    BY DEF Acquire
  <2>2. \A a \in DOMAIN waiting' : waiting'[a] \in Worker
    BY <2>1, QueueHead
  <2>3. /\ \A a, b \in DOMAIN waiting' : waiting'[a] = waiting'[b] => a = b
        /\ \A a \in DOMAIN waiting' :
              check[waiting'[a]].phase = "lock" /\ waiting'[a] # w
    BY <2>1, QueueHead
  <2>4. \A a \in DOMAIN waiting' : check'[waiting'[a]].phase = "lock"
    BY <1>9, <2>2, <2>3
  <2>5. holder' = {} /\ holder = {} /\ closing' = closing /\ up'
    BY <1>2 DEF Acquire, Hit
  <2>6. \A x \in Worker : check'[x].phase # "evict"
    BY <1>1, <1>9, <2>5 DEF LockInv
  <2>7. QED
    BY <2>3, <2>4, <2>5, <2>6 DEF LockInv
<1>13. OrderInv'
  <2>1. holder' = {}
    BY DEF Acquire, Hit
  <2>2. ASSUME NEW a \in 1..n, NEW b \in 1..n, a < b
        PROVE  entries'[b] \in since'[entries'[a]]
    <3>1. entries'[a] # u /\ entries'[a] \in Pooled
      <4>1. a < n => a + 1 \in 1..n
        BY <1>3
      <4>2. \/ entries'[a] = entries[a] /\ a # i
            \/ entries'[a] = entries[a + 1] /\ a + 1 # i /\ a + 1 \in 1..n
        BY <1>3, <1>6, <2>2, <4>1
      <4>3. QED
        BY <1>3, <1>7, <4>2 DEF Pooled
    <3>2. since'[entries'[a]] = since[entries'[a]] \cup {u}
      BY <1>4, <1>5, <3>1, AskedAges
    <3>3. CASE ~(b < n)
      <4>1. ~(b < i)
        BY <1>3, <3>3
      <4>2. QED
        BY <1>6, <3>2, <3>3, <4>1
    <3>4. CASE b < n
      <4>1. b + 1 \in 1..n /\ a + 1 \in 1..n
        BY <1>3, <2>2, <3>4
      <4>2. \A c, d \in 1..n : c < d => entries[d] \in since[entries[c]]
        BY <1>3 DEF OrderInv
      <4>3. entries'[b] \in since[entries'[a]]
        <5>1. CASE b < i
          BY <1>6, <2>2, <4>2, <5>1
        <5>2. CASE a < i /\ ~(b < i)
          <6>1. entries'[a] = entries[a] /\ entries'[b] = entries[b + 1] /\ a < b + 1
            BY <1>6, <2>2, <3>4, <5>2
          <6>2. QED
            BY <4>1, <4>2, <6>1
        <5>3. CASE ~(a < i)
          <6>1. /\ entries'[a] = entries[a + 1] /\ entries'[b] = entries[b + 1]
                /\ a + 1 < b + 1
            BY <1>3, <1>6, <2>2, <3>4, <5>3
          <6>2. QED
            BY <4>1, <4>2, <6>1
        <5>4. QED
          BY <1>3, <2>2, <5>1, <5>2, <5>3
      <4>4. QED
        BY <3>2, <4>3
    <3>5. QED
      BY <3>3, <3>4
  <2>3. QED
    BY <1>6, <2>1, <2>2 DEF OrderInv
<1>14. LeaseInv'
  BY <1>9 DEF LeaseInv
<1>15. TransportsAccounted'
  <2>1. \A a, b \in 1..n : entries'[a] = entries'[b] => a = b
    <3> SUFFICES ASSUME NEW a \in 1..n, NEW b \in 1..n, entries'[a] = entries'[b],
                        a < b
                 PROVE  FALSE
      BY <1>3
    <3>1. a < n /\ a + 1 \in 1..n /\ (b < n => b + 1 \in 1..n)
      BY <1>3
    <3>2. QED
      BY <1>3, <1>6, <1>7, <3>1
  <2>2. \A x \in Worker : check[x].lease = "pooled" => UrlOfCheck(x) \in Pooled
    BY DEF TransportsAccounted
  <2>3. \A x \in Worker : UrlOfCheck(x)' = UrlOfCheck(x)
    BY <1>9 DEF UrlOfCheck
  <2>4. \A x \in Worker : check'[x].lease = "pooled" => UrlOfCheck(x)' \in Pooled'
    <3>1. u \in Pooled
      BY DEF Pooled
    <3>2. \A v \in Pooled : v \in Url
      BY <1>3 DEF Pooled
    <3>3. QED
      BY <1>8, <1>9, <2>2, <2>3, <3>1, <3>2
  <2>5. closing' = closing /\ (up' => lost' = {})
    BY DEF Hit, Acquire, TransportsAccounted
  <2>6. QED
    BY <1>6, <2>1, <2>4, <2>5 DEF TransportsAccounted
<1>16. VictimsAged'
  BY <1>9 DEF VictimsAged
<1>17. QED
  BY <1>10, <1>11, <1>12, <1>13, <1>14, <1>15, <1>16

\* When a full pool is asked for a URL it does not have, its oldest entry was
\* last used before every other entry and before this request: as many URLs as
\* the pool's size.
LEMMA VictimIsOldest ==
    ASSUME ServiceInv, NEW u \in Url \ Pooled, Len(entries) >= MaxSize
    PROVE  Cardinality(Asked(u)[entries[1]]) >= MaxSize
<1> USE DEF ServiceInv
<1> DEFINE T == Asked(u)[entries[1]]
           f == [k \in 1..MaxSize |-> IF k = 1 THEN u ELSE entries[k]]
<1>1. /\ MaxSize \in Nat \ {0}
      /\ 1..MaxSize \subseteq DOMAIN entries /\ 1 \in 1..MaxSize
      /\ \A k \in 1..MaxSize : entries[k] \in Pooled /\ entries[k] \in Url
  BY ServiceAssumption DEF ServiceTypeOK, Pooled
<1>2. T = since[entries[1]] \cup {u} /\ T \subseteq Url
  BY <1>1, AskedAges
<1>3. \A k \in 1..MaxSize : f[k] \in T
  <2> SUFFICES ASSUME NEW k \in 1..MaxSize, k # 1 PROVE entries[k] \in T
    BY <1>2
  <2>1. 1 < k
    BY <1>1
  <2>2. QED
    BY <1>1, <1>2, <2>1 DEF OrderInv
<1>4. \A a, b \in 1..MaxSize : f[a] = f[b] => a = b
  <2>1. \A a, b \in 1..MaxSize : entries[a] = entries[b] => a = b
    BY <1>1 DEF TransportsAccounted
  <2>2. QED
    BY <1>1, <2>1
<1>5. f \in Injection(1..MaxSize, T)
  BY <1>3, <1>4 DEF Injection, IsInjective
<1>6. IsFiniteSet(T)
  BY <1>2, UrlsFinite, FS_Subset
<1>7. Cardinality(1..MaxSize) = MaxSize
  BY <1>1, FS_Interval
<1>8. Cardinality(1..MaxSize) <= Cardinality(T)
  <2> HIDE DEF T, f
  <2> QED
    BY <1>5, <1>6, FS_Injection
<1>9. Cardinality(T) \in Nat
  BY <1>6, FS_CardinalityType
<1>10. QED
  BY <1>1, <1>7, <1>8, <1>9

\* The pool is full: the oldest transport is evicted, and closed with the lock
\* held.
LEMMA EvictStep ==
    ASSUME ServiceInv, NEW w \in Worker, Acquire(w),
           UrlOfCheck(w) \notin Pooled, Len(entries) >= MaxSize,
           Evict(w, Asked(UrlOfCheck(w)))
    PROVE  ServiceInv'
<1> USE DEF ServiceInv
<1> DEFINE u == UrlOfCheck(w)
           n == Len(entries)
           victim == entries[1]
<1>1. check[w].phase = "lock"
  BY DEF Acquire, LockInv, ServiceTypeOK
<1>2. up /\ check[w] \in Check /\ check[w].proxy \in Proxy /\ u \in Url \ Pooled
  BY <1>1, Busy DEF Url, UrlOfCheck
<1>3. /\ n \in Nat \ {0} /\ DOMAIN entries = 1..n /\ 1 \in 1..n
      /\ \A j \in 1..n : entries[j] \in Url /\ entries[j] \in Pooled
      /\ \A v \in Pooled : v \in Url
      /\ Head(entries) = victim
  BY ServiceAssumption DEF ServiceTypeOK, Pooled
<1>4. /\ entries' \in Seq(Url) /\ Len(entries') = n - 1 /\ DOMAIN entries' = 1..(n - 1)
      /\ \A j \in 1..(n - 1) : entries'[j] = entries[j + 1] /\ j + 1 \in 1..n
  <2>1. entries' = Tail(entries)
    BY DEF Evict
  <2>2. entries \in Seq(Url)
    BY DEF ServiceTypeOK
  <2>3. entries # <<>>
    BY <1>3
  <2>4. QED
    BY <1>3, <2>1, <2>2, <2>3
<1>5. \A a, b \in 1..n : entries[a] = entries[b] => a = b
  BY <1>3 DEF TransportsAccounted
<1>6. Pooled' = Pooled \ {victim}
  <2>1. \A v \in Pooled' : v \in Pooled \ {victim}
    <3> SUFFICES ASSUME NEW a \in 1..(n - 1) PROVE entries'[a] \in Pooled \ {victim}
      BY <1>4 DEF Pooled
    <3>1. a + 1 # 1
      BY <1>3
    <3>2. QED
      BY <1>3, <1>4, <1>5, <3>1
  <2>2. \A v \in Pooled \ {victim} : v \in Pooled'
    <3> SUFFICES ASSUME NEW v \in Pooled, v # victim PROVE v \in Pooled'
      OBVIOUS
    <3>1. PICK a \in 1..n : v = entries[a]
      BY <1>3 DEF Pooled
    <3>2. a - 1 \in 1..(n - 1) /\ (a - 1) + 1 = a
      BY <1>3, <3>1
    <3>3. v = entries'[a - 1]
      BY <1>4, <3>1, <3>2
    <3>4. QED
      BY <1>4, <3>2, <3>3 DEF Pooled
  <2>3. QED
    BY <2>1, <2>2
<1>7. /\ since' = [Asked(u) EXCEPT ![victim] = {}]
      /\ since' \in [Url -> SUBSET Url]
      /\ \A v \in Pooled' : since'[v] = since[v] \cup {u}
  <2>1. since' = [Asked(u) EXCEPT ![victim] = {}] /\ victim \in Url
    BY <1>3 DEF Evict
  <2>2. \A v \in Pooled' : v \in Pooled \ {u} /\ v # victim /\ v \in Url
    BY <1>2, <1>3, <1>6
  <2>3. QED
    BY <1>2, <2>1, <2>2, AskedAges
<1>8. \A x \in Worker :
         /\ check'[x].proxy = check[x].proxy
         /\ check'[x].phase = IF x = w THEN "evict" ELSE check[x].phase
         /\ \/ check'[x].lease = check[x].lease /\ check'[x].aged = check[x].aged
            \/ /\ check[x].lease = "pooled" /\ check'[x].lease = "evicted"
               /\ check'[x].aged = Cardinality(Asked(u)[victim])
         /\ check'[x].lease = "pooled" => x = w \/ UrlOfCheck(x) # victim
         /\ x # w /\ check[x].phase = "idle" => check'[x] = check[x]
         /\ check'[x] \in Check
  <2> SUFFICES ASSUME NEW x \in Worker
               PROVE  /\ check'[x].proxy = check[x].proxy
                      /\ check'[x].phase = IF x = w THEN "evict" ELSE check[x].phase
                      /\ \/ check'[x].lease = check[x].lease /\ check'[x].aged = check[x].aged
                         \/ /\ check[x].lease = "pooled" /\ check'[x].lease = "evicted"
                            /\ check'[x].aged = Cardinality(Asked(u)[victim])
                      /\ check'[x].lease = "pooled" => x = w \/ UrlOfCheck(x) # victim
                      /\ x # w /\ check[x].phase = "idle" => check'[x] = check[x]
                      /\ check'[x] \in Check
    OBVIOUS
  <2>1. check[x] \in Check /\ Cardinality(Asked(u)[victim]) \in Nat
    <3>1. Asked(u)[victim] \in SUBSET Url
      BY <1>2, <1>3, AskedAges
    <3>2. IsFiniteSet(Asked(u)[victim])
      BY <3>1, UrlsFinite, FS_Subset
    <3>3. QED
      BY <3>2, FS_CardinalityType DEF ServiceTypeOK
  <2>2. check'[x] =
           IF x = w THEN [check[w] EXCEPT !.phase = "evict"]
           ELSE IF check[x].lease = "pooled" /\ UrlOfCheck(x) = victim
           THEN [check[x] EXCEPT !.lease = "evicted", !.aged = Cardinality(Asked(u)[victim])]
           ELSE check[x]
    BY <1>3 DEF Evict
  <2>3. CASE x = w
    BY <1>2, <2>2, <2>3 DEF Check, HttpPhase
  <2>4. CASE x # w /\ check[x].lease = "pooled" /\ UrlOfCheck(x) = victim
    <3>1. check'[x] = [check[x] EXCEPT !.lease = "evicted", !.aged = Cardinality(Asked(u)[victim])]
      BY <2>2, <2>4
    <3>2. check[x].phase # "idle"
      BY <2>4 DEF LeaseInv
    <3>3. QED
      BY <2>1, <2>4, <3>1, <3>2 DEF Check
  <2>5. CASE x # w /\ ~(check[x].lease = "pooled" /\ UrlOfCheck(x) = victim)
    BY <2>1, <2>2, <2>5
  <2>6. QED
    BY <2>3, <2>4, <2>5
<1>9. /\ holder = {} /\ holder' = {w} /\ closing = NoUrl /\ closing' = victim
      /\ victim # NoUrl /\ lost' = lost /\ up' = up /\ scheme' = scheme
  <2>1. holder = {} /\ closing = NoUrl
    BY DEF Acquire, LockInv
  <2>2. victim # NoUrl
    BY <1>3, ServiceAssumption DEF Url
  <2>3. QED
    BY <1>3, <2>1, <2>2 DEF Evict, Acquire
<1>10. ServiceTypeOK'
  <2>1. check' \in [Worker -> Check]
    <3>1. check' = [x \in Worker |-> check'[x]]
      BY <1>3 DEF Evict
    <3>2. QED
      BY <1>8, <3>1
  <2>2. waiting' \in Seq(Worker)
    BY QueueHead DEF Acquire
  <2>3. QED
    BY <1>3, <1>4, <1>7, <1>9, <2>1, <2>2 DEF ServiceTypeOK
<1>11. ChecksInv'
  BY <1>2, <1>8, <1>9 DEF ChecksInv
<1>12. LockInv'
  <2>1. waiting # <<>> /\ waiting' = Tail(waiting) /\ Head(waiting) = w
    BY DEF Acquire
  <2>2. \A a \in DOMAIN waiting' : waiting'[a] \in Worker
    BY <2>1, QueueHead
  <2>3. /\ \A a, b \in DOMAIN waiting' : waiting'[a] = waiting'[b] => a = b
        /\ \A a \in DOMAIN waiting' :
              check[waiting'[a]].phase = "lock" /\ waiting'[a] # w
    BY <2>1, QueueHead
  <2>4. \A a \in DOMAIN waiting' : check'[waiting'[a]].phase = "lock"
    BY <1>8, <2>2, <2>3
  <2>5. \A x \in Worker : check'[x].phase = "evict" <=> x \in holder'
    BY <1>8, <1>9 DEF LockInv
  <2>6. QED
    BY <1>2, <1>9, <2>3, <2>4, <2>5 DEF LockInv
<1>13. OrderInv'
  <2>1. \A a, b \in 1..(n - 1) : a < b => entries'[b] \in since'[entries'[a]]
    <3> SUFFICES ASSUME NEW a \in 1..(n - 1), NEW b \in 1..(n - 1), a < b
                 PROVE  entries'[b] \in since'[entries'[a]]
      OBVIOUS
    <3>1. a + 1 \in 1..n /\ b + 1 \in 1..n /\ a + 1 < b + 1
      BY <1>3
    <3>2. entries[b + 1] \in since[entries[a + 1]]
      BY <1>3, <3>1 DEF OrderInv
    <3>3. entries'[a] \in Pooled'
      BY <1>4 DEF Pooled
    <3>4. QED
      BY <1>4, <1>7, <3>2, <3>3
  <2>2. UrlOfCheck(w)' = u
    BY <1>8 DEF UrlOfCheck
  <2>3. \A v \in Pooled' : v # u /\ u \in since'[v]
    BY <1>2, <1>6, <1>7
  <2>4. \A x \in holder' : \A v \in Pooled' :
           v # UrlOfCheck(x)' /\ UrlOfCheck(x)' \in since'[v]
    BY <1>9, <2>2, <2>3
  <2>5. QED
    BY <1>4, <2>1, <2>4 DEF OrderInv
<1>14. LeaseInv'
  BY <1>1, <1>8 DEF LeaseInv
<1>15. TransportsAccounted'
  <2>1. Cardinality({closing} \ {NoUrl}) = 0
    <3>1. {closing} \ {NoUrl} = {}
      BY <1>9
    <3>2. QED
      BY <3>1, FS_EmptySet
  <2>2. n <= MaxSize
    BY <1>3, <2>1, ServiceAssumption DEF TransportsAccounted
  <2>3. Cardinality({closing'} \ {NoUrl}) = 1
    <3>1. {closing'} \ {NoUrl} = {victim}
      BY <1>9
    <3>2. QED
      BY <3>1, FS_Singleton
  <2>4. Len(entries') + Cardinality({closing'} \ {NoUrl}) <= MaxSize
    BY <1>3, <1>4, <2>2, <2>3, ServiceAssumption
  <2>5. \A a, b \in 1..(n - 1) : entries'[a] = entries'[b] => a = b
    <3> SUFFICES ASSUME NEW a \in 1..(n - 1), NEW b \in 1..(n - 1),
                        entries'[a] = entries'[b]
                 PROVE  a = b
      OBVIOUS
    <3>1. a + 1 = b + 1
      BY <1>4, <1>5
    <3>2. QED
      BY <1>3, <3>1
  <2>6. \A x \in Worker : check'[x].lease = "pooled" => UrlOfCheck(x)' \in Pooled'
    <3> SUFFICES ASSUME NEW x \in Worker, check'[x].lease = "pooled"
                 PROVE  UrlOfCheck(x)' \in Pooled'
      OBVIOUS
    <3>1. check[x].lease = "pooled" /\ x # w
      BY <1>1, <1>8 DEF LeaseInv
    <3>2. UrlOfCheck(x)' = UrlOfCheck(x) /\ UrlOfCheck(x) # victim
      BY <1>8, <3>1 DEF UrlOfCheck
    <3>3. QED
      BY <1>6, <3>1, <3>2 DEF TransportsAccounted
  <2>7. QED
    BY <1>4, <1>9, <2>4, <2>5, <2>6 DEF TransportsAccounted
<1>16. VictimsAged'
  <2>1. Cardinality(Asked(u)[victim]) >= MaxSize
    BY <1>2, VictimIsOldest
  <2>2. QED
    BY <1>8, <2>1 DEF VictimsAged
<1>17. QED
  BY <1>10, <1>11, <1>12, <1>13, <1>14, <1>15, <1>16

\* There is room: a transport of w's own is created and the lock is free again,
\* both when w just got the lock and when it comes from closing another.
LEMMA CreateStep ==
    ASSUME ServiceInv, NEW w \in Worker, NEW asked \in [Url -> SUBSET Url],
           check[w].phase \in {"lock", "evict"},
           holder = {} \/ holder = {w},
           UrlOfCheck(w) \notin Pooled, Len(entries) < MaxSize,
           \A v \in Pooled : /\ UrlOfCheck(w) \in asked[v]
                             /\ since[v] \subseteq asked[v],
           Create(w, asked), UNCHANGED <<scheme, up>>,
           waiting' \in Seq(Worker),
           \A i, j \in DOMAIN waiting' : waiting'[i] = waiting'[j] => i = j,
           \A i \in DOMAIN waiting' :
              check[waiting'[i]].phase = "lock" /\ waiting'[i] # w
    PROVE  ServiceInv'
<1> USE DEF ServiceInv
<1> DEFINE u == UrlOfCheck(w)
           n == Len(entries)
<1>1. up /\ check[w] \in Check /\ check[w].proxy \in Proxy /\ u \in Url
  BY Busy DEF Url, UrlOfCheck
<1>2. /\ entries \in Seq(Url) /\ n \in Nat /\ DOMAIN entries = 1..n
      /\ \A a, b \in 1..n : entries[a] = entries[b] => a = b
      /\ \A a \in 1..n : entries[a] \in Pooled
  BY DEF ServiceTypeOK, TransportsAccounted, Pooled
<1>3. closing' = NoUrl /\ holder' = {} /\ since' = asked
  BY DEF Create
<1>4. PICK c \in Check :
         /\ check' = [check EXCEPT ![w] = c]
         /\ c.proxy = check[w].proxy /\ c.phase \in {"request", "done"}
         /\ \/ /\ c.lease = "none" /\ entries' = entries /\ lost' = lost
            \/ /\ c.phase = "request" /\ c.lease = "pooled"
               /\ entries' = Append(entries, u) /\ lost' = lost
  <2>1. CASE UrlOfCheck(w) \in Malformed
    <3> DEFINE c == Ended(check[w], "failure")
    <3>1. /\ c \in Check /\ c.phase = "done" /\ c.lease = "none"
          /\ c.proxy = check[w].proxy
      BY <1>1, Checks DEF Verdict
    <3>2. check' = [check EXCEPT ![w] = c] /\ entries' = entries /\ lost' = lost
      BY <2>1 DEF Create
    <3> HIDE DEF c
    <3>3. QED
      BY <3>1, <3>2
  <2>2. CASE UrlOfCheck(w) \notin Malformed
    <3> DEFINE c == [check[w] EXCEPT !.phase = "request", !.lease = "pooled"]
    <3>1. /\ c \in Check /\ c.phase = "request" /\ c.lease = "pooled"
          /\ c.proxy = check[w].proxy
      BY <1>1 DEF Check, HttpPhase
    <3>2. entries' = Append(entries, u) /\ lost' = lost
      BY <2>2 DEF Create
    <3>3. check' = [check EXCEPT ![w].phase = "request", ![w].lease = "pooled"]
      BY <2>2 DEF Create
    <3>4. check' = [check EXCEPT ![w] = c]
      BY <1>1, <3>3 DEF ServiceTypeOK, Check
    <3> HIDE DEF c
    <3>5. QED
      BY <3>1, <3>2, <3>4
  <2>3. QED
    BY <2>1, <2>2
<1>5. \A x \in Worker : check'[x] = IF x = w THEN c ELSE check[x]
  BY <1>4 DEF ServiceTypeOK
<1>6. ServiceTypeOK'
  <2>1. entries' \in Seq(Url)
    BY <1>1, <1>2, <1>4
  <2>2. check' \in [Worker -> Check] /\ lost' = lost
    BY <1>4 DEF ServiceTypeOK
  <2>3. QED
    BY <1>3, <2>1, <2>2 DEF ServiceTypeOK
<1>7. ChecksInv'
  BY <1>1, <1>4, <1>5 DEF ChecksInv
<1>8. LockInv'
  <2>1. \A a \in DOMAIN waiting' : check'[waiting'[a]].phase = "lock"
    BY <1>5
  <2>2. \A x \in Worker : check'[x].phase # "evict"
    BY <1>4, <1>5 DEF LockInv
  <2>3. QED
    BY <1>1, <1>3, <2>1, <2>2 DEF LockInv
<1>9. /\ \A a, b \in DOMAIN entries' : a < b => entries'[b] \in since'[entries'[a]]
      /\ \A a, b \in DOMAIN entries' : entries'[a] = entries'[b] => a = b
      /\ Len(entries') <= MaxSize
      /\ \A v \in Pooled : v \in Pooled'
      /\ c.lease = "pooled" => u \in Pooled'
  <2>1. \A a, b \in 1..n : a < b => entries[b] \in asked[entries[a]]
    BY <1>2 DEF OrderInv
  <2>2. CASE entries' = entries /\ c.lease = "none"
    BY <1>2, <1>3, <2>1, <2>2, ServiceAssumption DEF Pooled
  <2>3. CASE entries' = Append(entries, u)
    <3>1. /\ DOMAIN entries' = 1..(n + 1) /\ Len(entries') = n + 1
          /\ \A a \in 1..n : entries'[a] = entries[a]
          /\ entries'[n + 1] = u
      BY <1>2, <2>3
    <3>2. ASSUME NEW a \in 1..(n + 1), NEW b \in 1..(n + 1), a < b
          PROVE  entries'[b] \in asked[entries'[a]] /\ entries'[b] # entries'[a]
      <4>1. a \in 1..n
        BY <1>2, <3>2
      <4>2. CASE b \in 1..n
        BY <1>2, <2>1, <3>1, <3>2, <4>1, <4>2
      <4>3. CASE b \notin 1..n
        <5>1. b = n + 1
          BY <1>2, <3>2, <4>3
        <5>2. QED
          BY <1>2, <3>1, <4>1, <5>1
      <4>4. QED
        BY <4>2, <4>3
    <3>3. \A a, b \in 1..(n + 1) : entries'[a] = entries'[b] => a = b
      <4> SUFFICES ASSUME NEW a \in 1..(n + 1), NEW b \in 1..(n + 1), a # b
                   PROVE  entries'[a] # entries'[b]
        OBVIOUS
      <4>1. a < b \/ b < a
        BY <1>2
      <4>2. QED
        BY <3>2, <4>1
    <3>4. Pooled' = {entries'[a] : a \in 1..(n + 1)} /\ Pooled = {entries[a] : a \in 1..n}
      BY <1>2, <3>1 DEF Pooled
    <3>5. \A v \in Pooled : v \in Pooled'
      BY <1>2, <3>1, <3>4
    <3>6. u \in Pooled'
      BY <1>2, <3>1, <3>4
    <3>7. QED
      BY <1>2, <1>3, <3>1, <3>2, <3>3, <3>5, <3>6, ServiceAssumption
  <2>4. QED
    BY <1>4, <2>2, <2>3
<1>10. OrderInv'
  BY <1>3, <1>9 DEF OrderInv
<1>11. LeaseInv'
  BY <1>4, <1>5 DEF LeaseInv
<1>12. TransportsAccounted'
  <2>1. Cardinality({closing'} \ {NoUrl}) = 0
    <3>1. {closing'} \ {NoUrl} = {}
      BY <1>3
    <3>2. QED
      BY <3>1, FS_EmptySet
  <2>2. Len(entries') + Cardinality({closing'} \ {NoUrl}) <= MaxSize
    BY <1>6, <1>9, <2>1 DEF ServiceTypeOK
  <2>3. \A x \in Worker : UrlOfCheck(x)' = UrlOfCheck(x)
    BY <1>4, <1>5 DEF UrlOfCheck
  <2>4. \A x \in Worker : check'[x].lease = "pooled" => UrlOfCheck(x)' \in Pooled'
    BY <1>5, <1>9, <2>3 DEF TransportsAccounted
  <2>5. up' => lost' = {}
    BY <1>4 DEF TransportsAccounted
  <2>6. QED
    BY <1>9, <2>2, <2>4, <2>5 DEF TransportsAccounted
<1>13. VictimsAged'
  <2>1. c.lease # "evicted"
    BY <1>4
  <2>2. QED
    BY <1>5, <2>1 DEF VictimsAged
<1>14. QED
  BY <1>6, <1>7, <1>8, <1>10, <1>11, <1>12, <1>13

-----------------------------------------------------------------------------
(* Every step keeps the invariant.                                         *)

LEMMA ServiceInvInit == ServiceInit => ServiceInv
<1> SUFFICES ASSUME ServiceInit PROVE ServiceInv
  OBVIOUS
<1> USE DEF ServiceInit
<1>1. \A w \in Worker : /\ check[w] = Idle /\ Idle \in Check
                        /\ check[w].phase = "idle" /\ check[w].lease = "none"
  BY Checks DEF Idle, NewCheck
<1>2. Pooled = {}
  BY DEF Pooled
<1>3. {closing} \ {NoUrl} = {}
  OBVIOUS
<1>4. Cardinality({closing} \ {NoUrl}) = 0
  BY <1>3, FS_EmptySet
<1>5. ServiceTypeOK
  BY <1>1 DEF ServiceTypeOK, NeverUsed
<1>6. ChecksInv /\ LockInv /\ OrderInv /\ LeaseInv
  BY <1>1, <1>2 DEF ChecksInv, LockInv, OrderInv, LeaseInv
<1>7. TransportsAccounted
  BY <1>1, <1>4, ServiceAssumption DEF TransportsAccounted
<1>8. VictimsAged
  BY <1>1 DEF VictimsAged
<1>9. QED
  BY <1>5, <1>6, <1>7, <1>8 DEF ServiceInv

\* The lock's next holder hits, evicts, or creates.
LEMMA AcquireStep ==
    ASSUME ServiceInv, NEW w \in Worker, Acquire(w)
    PROVE  ServiceInv'
<1>1. CASE \E i \in DOMAIN entries : entries[i] = UrlOfCheck(w) /\ Hit(w, i)
  BY <1>1, HitStep
<1>2. CASE UrlOfCheck(w) \notin Pooled /\ MakeRoom(w, Asked(UrlOfCheck(w)))
  <2>1. CASE Len(entries) >= MaxSize
    BY <1>2, <2>1, EvictStep DEF MakeRoom
  <2>2. CASE ~(Len(entries) >= MaxSize)
    <3>1. check[w].phase = "lock" /\ holder = {} /\ UNCHANGED <<scheme, up>>
      BY DEF Acquire, ServiceInv, LockInv, ServiceTypeOK
    <3>2. UrlOfCheck(w) \in Url
      BY <3>1, Busy DEF Url, UrlOfCheck
    <3>3. /\ Asked(UrlOfCheck(w)) \in [Url -> SUBSET Url]
          /\ \A v \in Pooled : Asked(UrlOfCheck(w))[v] = since[v] \cup {UrlOfCheck(w)}
      BY <1>2, <3>2, AskedAges DEF ServiceInv
    <3>4. Create(w, Asked(UrlOfCheck(w))) /\ Len(entries) < MaxSize
      BY <1>2, <2>2, ServiceAssumption DEF MakeRoom, ServiceInv, ServiceTypeOK
    <3>5. waiting # <<>> /\ waiting' = Tail(waiting) /\ Head(waiting) = w
      BY DEF Acquire
    <3>6. /\ waiting' \in Seq(Worker)
          /\ \A i, j \in DOMAIN waiting' : waiting'[i] = waiting'[j] => i = j
          /\ \A i \in DOMAIN waiting' :
                check[waiting'[i]].phase = "lock" /\ waiting'[i] # w
      BY <3>5, QueueHead
    <3>7. \A v \in Pooled : /\ UrlOfCheck(w) \in Asked(UrlOfCheck(w))[v]
                            /\ since[v] \subseteq Asked(UrlOfCheck(w))[v]
      BY <3>3
    <3>8. QED
      BY <1>2, <3>1, <3>3, <3>4, <3>6, <3>7, CreateStep
  <2>3. QED
    BY <2>1, <2>2
<1>3. QED
  BY <1>1, <1>2 DEF Acquire

\* After its eviction the holder finds room.
LEMMA EvictionDoneStep ==
    ASSUME ServiceInv, NEW w \in Worker, EvictionDone(w)
    PROVE  ServiceInv'
<1> USE DEF ServiceInv
<1>1. holder = {w} /\ closing # NoUrl /\ closing \in Url \cup {NoUrl}
  BY DEF EvictionDone, LockInv, ServiceTypeOK
<1>2. Cardinality({closing} \ {NoUrl}) = 1
  <2>1. {closing} \ {NoUrl} = {closing}
    BY <1>1
  <2>2. QED
    BY <2>1, FS_Singleton
<1>3. Len(entries) < MaxSize
  BY <1>2, ServiceAssumption DEF TransportsAccounted, ServiceTypeOK
<1>4. Create(w, since) /\ UNCHANGED <<scheme, up, waiting>>
  BY <1>3, ServiceAssumption DEF EvictionDone, MakeRoom, ServiceTypeOK
<1>5. \A v \in Pooled : v # UrlOfCheck(w) /\ UrlOfCheck(w) \in since[v]
  BY <1>1 DEF OrderInv
<1>6. since \in [Url -> SUBSET Url] /\ waiting \in Seq(Worker)
  BY DEF ServiceTypeOK
<1>7. /\ check[w].phase = "evict"
      /\ \A i, j \in DOMAIN waiting' : waiting'[i] = waiting'[j] => i = j
      /\ \A i \in DOMAIN waiting' :
            check[waiting'[i]].phase = "lock" /\ waiting'[i] # w
  BY <1>4 DEF EvictionDone, LockInv
<1>8. UrlOfCheck(w) \notin Pooled
  BY <1>5
<1>9. QED
  BY <1>1, <1>3, <1>4, <1>5, <1>6, <1>7, <1>8, CreateStep

\* A failed eviction gives the lock back and the evicted transport up.
LEMMA EvictionFailsStep ==
    ASSUME ServiceInv, NEW w \in Worker, EvictionFails(w)
    PROVE  ServiceInv'
<1> USE DEF ServiceInv
<1>1. check[w].phase = "evict" /\ holder = {w}
  BY DEF EvictionFails, LockInv, ServiceTypeOK
<1>2. up /\ check[w] \in Check /\ check[w].proxy \in Proxy
  BY <1>1, Busy
<1>3. /\ closing' = NoUrl /\ holder' = {}
      /\ UNCHANGED <<scheme, up, entries, waiting, lost, since>>
  BY DEF EvictionFails
<1>4. PICK c \in Check : /\ check' = [check EXCEPT ![w] = c]
                         /\ c.proxy = check[w].proxy
                         /\ c.phase = "done" /\ c.lease = "none"
  <2>1. PICK v \in {"failure", "raised"} :
           check' = [check EXCEPT ![w] = Ended(check[w], v)]
    BY DEF EvictionFails
  <2>2. v \in Verdict
    BY DEF Verdict
  <2>3. QED
    BY <1>2, <2>1, <2>2, Checks
<1>5. \A x \in Worker : check'[x] = IF x = w THEN c ELSE check[x]
  BY <1>4 DEF ServiceTypeOK
<1>6. ServiceTypeOK'
  BY <1>3, <1>4 DEF ServiceTypeOK
<1>7. ChecksInv' /\ LeaseInv' /\ VictimsAged'
  BY <1>2, <1>3, <1>4, <1>5 DEF ChecksInv, LeaseInv, VictimsAged
<1>8. LockInv'
  <2>1. \A i \in DOMAIN waiting : waiting[i] # w /\ check'[waiting[i]].phase = "lock"
    BY <1>1, <1>5 DEF LockInv, ServiceTypeOK
  <2>2. QED
    BY <1>1, <1>3, <1>4, <1>5, <2>1 DEF LockInv
<1>9. OrderInv'
  BY <1>3 DEF OrderInv
<1>10. TransportsAccounted'
  <2>1. Cardinality({closing'} \ {NoUrl}) = 0
    <3>1. {closing'} \ {NoUrl} = {}
      BY <1>3
    <3>2. QED
      BY <3>1, FS_EmptySet
  <2>2. Cardinality({closing} \ {NoUrl}) \in Nat
    <3>1. IsFiniteSet({closing})
      BY FS_Singleton
    <3>2. QED
      BY <3>1, FS_Difference, FS_CardinalityType
  <2>3. Len(entries') + Cardinality({closing'} \ {NoUrl}) <= MaxSize
    BY <1>3, <2>1, <2>2, ServiceAssumption DEF TransportsAccounted, ServiceTypeOK
  <2>4. \A x \in Worker : check'[x].lease = "pooled" => UrlOfCheck(x)' \in Pooled'
    BY <1>3, <1>4, <1>5 DEF TransportsAccounted, UrlOfCheck, Pooled
  <2>5. QED
    BY <1>3, <2>3, <2>4 DEF TransportsAccounted
<1>11. QED
  BY <1>6, <1>7, <1>8, <1>9, <1>10

LEMMA StartCheckStep ==
    ASSUME ServiceInv, NEW w \in Worker, NEW p \in Proxy, StartCheck(w, p)
    PROVE  ServiceInv'
<1> USE DEF ServiceInv
<1>1. up /\ check[w] = Idle /\ check[w].phase = "idle"
  BY DEF StartCheck, Idle, NewCheck
<1>2. CASE ProtocolOf[p] \notin Socks
  <2> DEFINE c == NewCheck(p, "lock")
  <2>1. /\ c \in Check /\ c.phase = "lock" /\ c.lease = "none" /\ c.proxy = p
    BY Checks DEF NewCheck, HttpPhase
  <2>2. /\ check' = [check EXCEPT ![w] = c] /\ waiting' = Append(waiting, w)
        /\ UNCHANGED <<scheme, up, entries, holder, closing, lost, since>>
    BY <1>2 DEF StartCheck
  <2> HIDE DEF c
  <2>3. QED
    BY <1>1, <2>1, <2>2, QueueStep
<1>3. CASE ProtocolOf[p] \in Socks
  <2>1. PICK c \in Check :
           /\ check' = [check EXCEPT ![w] = c]
           /\ c.phase \in {"open", "done"} /\ c.lease = "none" /\ c.proxy = p
    <3> DEFINE a == NewCheck(p, "open")
               b == Ended(a, "failure")
    <3>1. /\ a \in Check /\ b \in Check
          /\ a.phase = "open" /\ a.lease = "none" /\ a.proxy = p
          /\ b.phase = "done" /\ b.lease = "none" /\ b.proxy = p
      <4>1. a \in Check /\ a.phase = "open" /\ a.lease = "none" /\ a.proxy = p
        BY Checks DEF NewCheck, SocksPhase
      <4> HIDE DEF a
      <4>2. "failure" \in Verdict
        BY DEF Verdict
      <4>3. QED
        BY <4>1, <4>2, Checks
    <3>2. check' = [check EXCEPT ![w] = IF scheme = "https" THEN b ELSE a]
      BY <1>3 DEF StartCheck
    <3> HIDE DEF a, b
    <3>3. QED
      BY <3>1, <3>2
  <2>2. UNCHANGED <<scheme, up, poolVars>>
    BY <1>3 DEF StartCheck, poolVars
  <2>3. \A x \in Worker : check'[x] = IF x = w THEN c ELSE check[x]
    BY <2>1 DEF ServiceTypeOK
  <2>4. w \notin holder
    BY <1>1 DEF LockInv
  <2>5. ServiceTypeOK'
    BY <2>1, <2>2 DEF ServiceTypeOK, poolVars
  <2>6. ChecksInv' /\ LeaseInv' /\ VictimsAged'
    BY <1>1, <2>1, <2>2, <2>3 DEF ChecksInv, LeaseInv, VictimsAged, poolVars
  <2>7. LockInv'
    BY <1>1, <2>1, <2>2, <2>3 DEF LockInv, poolVars, ServiceTypeOK
  <2>8. OrderInv'
    <3>1. \A x \in holder : UrlOfCheck(x)' = UrlOfCheck(x)
      BY <2>3, <2>4 DEF UrlOfCheck, ServiceTypeOK
    <3>2. QED
      BY <2>2, <3>1 DEF OrderInv, Pooled, poolVars
  <2>9. TransportsAccounted'
    BY <2>1, <2>2, <2>3 DEF TransportsAccounted, UrlOfCheck, Pooled, poolVars
  <2>10. QED
    BY <2>5, <2>6, <2>7, <2>8, <2>9
<1>4. QED
  BY <1>2, <1>3

-----------------------------------------------------------------------------
(* What a check knows at each phase, which makes its verdict an earned one. *)

Earned(b, v) ==
    /\ v = "success" => b.granted /\ ~b.demand /\ b.status \in SuccessStatus
    /\ b.late => v = "failure"
    /\ v = "auth" => b.demand
    /\ b.demand => v = "auth" \/ b.late \/ (b.granted /\ b.status = 407)

Honest(c) ==
    /\ c.late => c.phase \in {"expired", "done"}
    /\ c.demand => c.phase \in {"body", "close", "expired", "done"}
    /\ c.phase = "body" => c.granted /\ (c.demand <=> c.status = 407)
    /\ c.phase \in {"response", "rest"} => c.granted
    /\ c.phase = "expired" => c.verdict = "failure" /\ c.late
    /\ c.phase \in {"close", "done"} => Earned(c, c.verdict)

HonestInv == \A w \in Worker : Honest(check[w])

\* c may follow w's check in a step of w's own (see OwnStep).
Follows(w, c) ==
    /\ check' = [check EXCEPT ![w] = c]
    /\ check[w].phase \notin {"lock", "evict", "idle"}
    /\ c.phase \notin {"lock", "evict"}
    /\ c.phase # "idle" => c.proxy \in Proxy
    /\ \/ c.lease = "none"
       \/ /\ c.lease = check[w].lease /\ c.aged = check[w].aged
          /\ c.proxy = check[w].proxy
          /\ c.phase \in {"request", "body"}

\* An ended check is an honest one when its verdict is.
LEMMA EndedFollows ==
    ASSUME ServiceInv, NEW w \in Worker, NEW b \in Check, NEW v \in Verdict,
           check[w].phase \notin {"lock", "evict", "idle"},
           b.proxy = check[w].proxy,
           check' = [check EXCEPT ![w] = Ended(b, v)],
           Earned(b, v)
    PROVE  \E c \in Check : Follows(w, c) /\ Honest(c)
<1> DEFINE c == Ended(b, v)
<1>1. /\ c \in Check /\ c.phase = "done" /\ c.lease = "none"
      /\ c.proxy = b.proxy /\ c.verdict = v
      /\ c.granted = b.granted /\ c.demand = b.demand
      /\ c.status = b.status /\ c.late = b.late
  BY Checks
<1>2. check[w].proxy \in Proxy
  BY Busy
<1> HIDE DEF c
<1>3. check' = [check EXCEPT ![w] = c]
  BY DEF c
<1>4. Follows(w, c) /\ Honest(c)
  BY <1>1, <1>2, <1>3 DEF Follows, Honest, Earned
<1>5. QED
  BY <1>1, <1>4

\* The steps of an HTTP check that do not touch the pool.
LEMMA HttpFollows ==
    ASSUME ServiceInv, HonestInv, NEW w \in Worker,
           \/ RequestFails(w) \/ TunnelRefused(w) \/ ResponseStarts(w)
           \/ BodyFails(w)
           \/ BodyEnds(w) /\ UNCHANGED waiting
    PROVE  \E c \in Check : Follows(w, c) /\ Honest(c)
<1> DEFINE b == check[w]
<1>1. check[w].phase \in {"request", "body"}
  BY DEF RequestFails, TunnelRefused, ResponseStarts, BodyFails, BodyEnds
<1>2. b \in Check /\ b.proxy \in Proxy /\ Honest(b)
  BY <1>1, Busy DEF HonestInv
<1>3. {"failure", "auth", "raised", "success"} \subseteq Verdict
  BY DEF Verdict
<1>4. CASE RequestFails(w) \/ TunnelRefused(w)
  <2>1. b.phase = "request" /\ ~b.late /\ ~b.demand
    BY <1>2, <1>4 DEF RequestFails, TunnelRefused, Honest
  <2>2. CASE RequestFails(w)
    <3>1. PICK v \in {"failure", "raised"} : check' = [check EXCEPT ![w] = Ended(b, v)]
      BY <2>2 DEF RequestFails
    <3>2. Earned(b, v)
      BY <2>1 DEF Earned
    <3>3. QED
      BY <1>1, <1>2, <1>3, <3>1, <3>2, EndedFollows
  <2>3. CASE TunnelRefused(w)
    <3>1. PICK s \in Status, demand \in BOOLEAN :
             check' = [check EXCEPT ![w] =
                          Ended([@ EXCEPT !.status = s, !.demand = demand],
                                IF demand THEN "auth" ELSE "failure")]
      BY <2>3 DEF TunnelRefused, RequiresAuth
    <3> DEFINE a == [b EXCEPT !.status = s, !.demand = demand]
               v == IF demand THEN "auth" ELSE "failure"
    <3>2. /\ a \in Check /\ a.proxy = b.proxy /\ a.late = b.late
          /\ a.demand = demand
      BY <1>2 DEF Check
    <3>3. check' = [check EXCEPT ![w] = Ended(a, v)] /\ v \in Verdict
      BY <1>3, <3>1
    <3>4. Earned(a, v)
      BY <2>1, <3>2 DEF Earned
    <3> HIDE DEF a, v
    <3>5. QED
      BY <1>1, <3>2, <3>3, <3>4, EndedFollows
  <2>4. QED
    BY <1>4, <2>2, <2>3
<1>5. CASE ResponseStarts(w)
  <2>1. PICK s \in Status :
          check' = [check EXCEPT ![w] =
                       [@ EXCEPT !.phase = "body", !.granted = TRUE,
                                 !.status = s, !.demand = (s = 407)]]
    BY <1>5 DEF ResponseStarts
  <2> DEFINE c == [b EXCEPT !.phase = "body", !.granted = TRUE,
                            !.status = s, !.demand = (s = 407)]
  <2>2. /\ c \in Check /\ c.phase = "body" /\ c.granted /\ c.status = s
        /\ c.demand <=> s = 407
        /\ c.late = b.late /\ c.lease = b.lease /\ c.aged = b.aged
        /\ c.proxy = b.proxy
    <3>1. (s = 407) \in BOOLEAN /\ s \in Status \cup {NoStatus}
      OBVIOUS
    <3>2. c \in Check
      BY <1>2, <3>1 DEF Check, HttpPhase
    <3>3. c.demand <=> s = 407
      BY <1>2, <3>1 DEF Check
    <3>4. QED
      BY <1>2, <3>2, <3>3 DEF Check
  <2>3. check' = [check EXCEPT ![w] = c]
    BY <2>1 DEF ServiceInv, ServiceTypeOK
  <2> HIDE DEF c
  <2>4. ~b.late
    BY <1>1, <1>2 DEF Honest
  <2>5. Follows(w, c) /\ Honest(c)
    BY <1>1, <1>2, <2>2, <2>3, <2>4 DEF Follows, Honest
  <2>6. QED
    BY <2>2, <2>5
<1>6. CASE BodyFails(w)
  <2>1. check' = [check EXCEPT ![w] = Ended(b, "failure")]
    BY <1>6 DEF BodyFails, ServiceInv, ServiceTypeOK
  <2>2. Earned(b, "failure")
    BY <1>2, <1>6 DEF BodyFails, Honest, Earned
  <2>3. QED
    BY <1>1, <1>2, <1>3, <2>1, <2>2, EndedFollows
<1>7. CASE BodyEnds(w) /\ UNCHANGED waiting
  <2>1. check' = [check EXCEPT ![w] = Ended(b, Judged(b))]
    <3>1. waiting' # Append(waiting, w)
      BY <1>7 DEF ServiceInv, ServiceTypeOK
    <3>2. QED
      BY <1>7, <3>1 DEF BodyEnds, ServiceInv, ServiceTypeOK
  <2>2. b.granted /\ (b.demand <=> b.status = 407) /\ ~b.late
    BY <1>2, <1>7 DEF BodyEnds, Honest
  <2>3. /\ Judged(b) \in Verdict
        /\ Judged(b) = "auth" <=> b.status = 407
        /\ Judged(b) = "success" => b.status # 407 /\ b.status \in SuccessStatus
    BY DEF Judged, Verdict
  <2> DEFINE v == Judged(b)
  <2> HIDE DEF v
  <2>4. v \in Verdict /\ check' = [check EXCEPT ![w] = Ended(b, v)]
    BY <2>1, <2>3 DEF v
  <2>5. Earned(b, v)
    BY <2>2, <2>3 DEF v, Earned
  <2>6. QED
    BY <1>1, <1>2, <2>4, <2>5, EndedFollows
<1>8. QED
  BY <1>4, <1>5, <1>6, <1>7

\* A SOCKS check goes on to phase f, with a verdict or without one.
LEMMA SocksFollows ==
    ASSUME ServiceInv, HonestInv, NEW w \in Worker,
           check[w].phase \in SocksPhase, check[w].lease = "none",
           NEW c \in Check, check' = [check EXCEPT ![w] = c],
           c.phase \in SocksPhase, c.lease = "none", c.proxy = check[w].proxy,
           Honest(c)
    PROVE  \E d \in Check : Follows(w, d) /\ Honest(d)
<1>1. check[w].proxy \in Proxy
  BY Busy DEF SocksPhase
<1>2. Follows(w, c)
  BY <1>1 DEF Follows, SocksPhase
<1>3. QED
  BY <1>2

\* The steps of a SOCKS check.
LEMMA SocksSteps ==
    ASSUME ServiceInv, HonestInv, NEW w \in Worker,
           ProxyAnswers(w) \/ SocketCloses(w) \/ Deadline(w)
    PROVE  \E c \in Check : Follows(w, c) /\ Honest(c)
<1> DEFINE b == check[w]
<1>1. b.phase \in SocksPhase /\ b.lease = "none"
  <2>1. b.phase \in SocksPhase
    BY DEF ProxyAnswers, SocketOpens, AuthReply, ConnectReply, SocksResponse,
           SocksRest, SocketCloses, Deadline, SocksPhase
  <2>2. b.phase \notin {"request", "body"}
    BY <2>1 DEF SocksPhase
  <2>3. QED
    BY <2>1, <2>2 DEF ServiceInv, LeaseInv
<1>2. /\ b \in Check /\ b.proxy \in Proxy /\ Honest(b)
      /\ b.phase \notin {"lock", "evict", "idle"}
  BY <1>1, Busy DEF HonestInv, SocksPhase
<1>3. {"failure", "auth", "success"} \subseteq Verdict
  BY DEF Verdict
<1>4. check \in [Worker -> Check]
  BY DEF ServiceInv, ServiceTypeOK
<1>5. ASSUME NEW f \in SocksPhase
      PROVE  LET c == [b EXCEPT !.phase = f]
             IN  /\ c \in Check /\ c.phase = f /\ c.lease = "none"
                 /\ c.proxy = b.proxy /\ c.verdict = b.verdict
                 /\ c.granted = b.granted /\ c.demand = b.demand
                 /\ c.status = b.status /\ c.late = b.late
                 /\ SocksStep(w, f) = [check EXCEPT ![w] = c]
  BY <1>1, <1>2, <1>4 DEF SocksStep, Check
<1>6. ASSUME NEW v \in Verdict
      PROVE  LET c == [b EXCEPT !.phase = "close", !.verdict = v]
             IN  /\ c \in Check /\ c.phase = "close" /\ c.lease = "none"
                 /\ c.proxy = b.proxy /\ c.verdict = v
                 /\ c.granted = b.granted /\ c.demand = b.demand
                 /\ c.status = b.status /\ c.late = b.late
                 /\ SocksReturn(w, v) = [check EXCEPT ![w] = c]
  BY <1>1, <1>2, <1>4 DEF SocksReturn, Check, SocksPhase
<1>7. ASSUME b.phase \in SocksPhase \ {"close", "expired"},
             check' = SocksReturn(w, "failure")
      PROVE  \E d \in Check : Follows(w, d) /\ Honest(d)
  <2> DEFINE c == [b EXCEPT !.phase = "close", !.verdict = "failure"]
  <2>1. /\ c \in Check /\ c.phase = "close" /\ c.lease = "none"
        /\ c.proxy = b.proxy /\ c.verdict = "failure" /\ c.late = b.late
        /\ c.demand = b.demand
        /\ check' = [check EXCEPT ![w] = c]
    BY <1>3, <1>6, <1>7
  <2> HIDE DEF c
  <2>2. c.phase \in SocksPhase /\ Honest(c)
    BY <1>2, <1>7, <2>1 DEF Honest, Earned, SocksPhase
  <2>3. QED
    BY <1>1, <2>1, <2>2, SocksFollows
<1>8. CASE SocketOpens(w)
  <2>1. CASE check' = [check EXCEPT ![w] = Ended(@, "failure")]
    <3>1. Earned(b, "failure")
      BY <1>2, <1>8 DEF SocketOpens, Honest, Earned
    <3>2. QED
      BY <1>2, <1>3, <1>4, <2>1, <3>1, EndedFollows
  <2>2. ASSUME NEW f \in {"socks4_reply", "auth_reply"}, check' = SocksStep(w, f)
        PROVE  \E d \in Check : Follows(w, d) /\ Honest(d)
    <3> DEFINE c == [b EXCEPT !.phase = f]
    <3>1. f \in SocksPhase
      BY DEF SocksPhase
    <3>2. /\ c \in Check /\ c.phase = f /\ c.lease = "none"
          /\ c.proxy = b.proxy /\ c.demand = b.demand /\ c.late = b.late
          /\ check' = [check EXCEPT ![w] = c]
      BY <1>5, <2>2, <3>1
    <3> HIDE DEF c
    <3>3. Honest(c)
      BY <1>2, <1>8, <3>2 DEF Honest, SocketOpens
    <3>4. QED
      BY <1>1, <3>1, <3>2, <3>3, SocksFollows
  <2>3. QED
    BY <1>8, <2>1, <2>2 DEF SocketOpens
<1>9. CASE AuthReply(w)
  <2>1. CASE check' = SocksStep(w, "connect_reply")
    <3> DEFINE c == [b EXCEPT !.phase = "connect_reply"]
    <3>1. "connect_reply" \in SocksPhase
      BY DEF SocksPhase
    <3>2. /\ c \in Check /\ c.phase = "connect_reply" /\ c.lease = "none"
          /\ c.proxy = b.proxy /\ c.demand = b.demand /\ c.late = b.late
          /\ check' = [check EXCEPT ![w] = c]
      BY <1>5, <2>1, <3>1
    <3> HIDE DEF c
    <3>3. Honest(c)
      BY <1>2, <1>9, <3>2 DEF Honest, AuthReply
    <3>4. QED
      BY <1>1, <3>1, <3>2, <3>3, SocksFollows
  <2>2. CASE check' = [SocksReturn(w, "auth") EXCEPT ![w].demand = TRUE]
    <3> DEFINE c == [b EXCEPT !.phase = "close", !.verdict = "auth", !.demand = TRUE]
    <3>1. /\ c \in Check /\ c.phase = "close" /\ c.lease = "none"
          /\ c.proxy = b.proxy /\ c.verdict = "auth" /\ c.demand /\ c.late = b.late
      BY <1>1, <1>2 DEF Check, SocksPhase, Verdict
    <3>2. check' = [check EXCEPT ![w] = c]
      BY <1>2, <1>4, <2>2 DEF SocksReturn, Check
    <3> HIDE DEF c
    <3>3. c.phase \in SocksPhase /\ Honest(c)
      BY <1>2, <1>9, <3>1 DEF Honest, Earned, AuthReply, SocksPhase
    <3>4. QED
      BY <1>1, <3>1, <3>2, <3>3, SocksFollows
  <2>3. CASE check' = SocksReturn(w, "failure")
    BY <1>7, <1>9, <2>3 DEF AuthReply, SocksPhase
  <2>4. QED
    BY <1>9, <2>1, <2>2, <2>3 DEF AuthReply
<1>10. CASE ConnectReply(w)
  <2>1. CASE check' = [SocksStep(w, "response") EXCEPT ![w].granted = TRUE]
    <3> DEFINE c == [b EXCEPT !.phase = "response", !.granted = TRUE]
    <3>1. /\ c \in Check /\ c.phase = "response" /\ c.lease = "none"
          /\ c.proxy = b.proxy /\ c.granted /\ c.demand = b.demand /\ c.late = b.late
      BY <1>1, <1>2 DEF Check, SocksPhase
    <3>2. check' = [check EXCEPT ![w] = c]
      BY <1>2, <1>4, <2>1 DEF SocksStep, Check
    <3> HIDE DEF c
    <3>3. c.phase \in SocksPhase /\ Honest(c)
      BY <1>2, <1>10, <3>1 DEF Honest, ConnectReply, SocksPhase
    <3>4. QED
      BY <1>1, <3>1, <3>2, <3>3, SocksFollows
  <2>2. CASE check' = SocksReturn(w, "failure")
    BY <1>7, <1>10, <2>2 DEF ConnectReply, SocksPhase
  <2>3. QED
    BY <1>10, <2>1, <2>2 DEF ConnectReply
<1>11. CASE SocksResponse(w)
  <2>1. ASSUME NEW s \in Status \cup {NoStatus},
               check' = [SocksStep(w, "rest") EXCEPT ![w].status = s]
        PROVE  \E d \in Check : Follows(w, d) /\ Honest(d)
    <3> DEFINE c == [b EXCEPT !.phase = "rest", !.status = s]
    <3>1. /\ c \in Check /\ c.phase = "rest" /\ c.lease = "none"
          /\ c.proxy = b.proxy /\ c.granted = b.granted
          /\ c.demand = b.demand /\ c.late = b.late
      BY <1>1, <1>2 DEF Check, SocksPhase
    <3>2. check' = [check EXCEPT ![w] = c]
      BY <1>2, <1>4, <2>1 DEF SocksStep, Check
    <3> HIDE DEF c
    <3>3. c.phase \in SocksPhase /\ Honest(c)
      BY <1>2, <1>11, <3>1 DEF Honest, SocksResponse, SocksPhase
    <3>4. QED
      BY <1>1, <3>1, <3>2, <3>3, SocksFollows
  <2>2. CASE check' = SocksReturn(w, "failure")
    BY <1>7, <1>11, <2>2 DEF SocksResponse, SocksPhase
  <2>3. QED
    BY <1>11, <2>1, <2>2 DEF SocksResponse
<1>12. CASE SocksRest(w)
  <2>1. CASE check' = SocksReturn(w, "success") /\ b.status \in SuccessStatus
    <3> DEFINE c == [b EXCEPT !.phase = "close", !.verdict = "success"]
    <3>1. /\ c \in Check /\ c.phase = "close" /\ c.lease = "none"
          /\ c.proxy = b.proxy /\ c.verdict = "success" /\ c.granted = b.granted
          /\ c.demand = b.demand /\ c.late = b.late /\ c.status = b.status
          /\ check' = [check EXCEPT ![w] = c]
      BY <1>3, <1>6, <2>1
    <3> HIDE DEF c
    <3>2. c.phase \in SocksPhase /\ Honest(c)
      BY <1>2, <1>12, <2>1, <3>1 DEF Honest, Earned, SocksRest, SocksPhase
    <3>3. QED
      BY <1>1, <3>1, <3>2, SocksFollows
  <2>2. CASE check' = SocksReturn(w, "failure")
    BY <1>7, <1>12, <2>2 DEF SocksRest, SocksPhase
  <2>3. QED
    BY <1>12, <2>1, <2>2 DEF SocksRest
<1>13. CASE SocketCloses(w)
  <2>1. b.verdict \in Verdict /\ check' = [check EXCEPT ![w] = Ended(b, b.verdict)]
    BY <1>2, <1>4, <1>13 DEF SocketCloses, Check
  <2>2. Earned(b, b.verdict)
    BY <1>2, <1>13 DEF SocketCloses, Honest, Earned
  <2>3. b \in Check /\ b.proxy = check[w].proxy
    BY <1>2
  <2> DEFINE v == b.verdict
  <2>4. v \in Verdict /\ check' = [check EXCEPT ![w] = Ended(b, v)] /\ Earned(b, v)
    BY <2>1, <2>2
  <2>5. check[w].phase \notin {"lock", "evict", "idle"}
    BY <1>2
  <2> HIDE DEF v, b
  <2>6. QED
    BY <2>3, <2>4, <2>5, EndedFollows
<1>14. CASE Deadline(w)
  <2>1. CASE b.phase = "open"
    <3> DEFINE a == [b EXCEPT !.late = TRUE]
    <3>1. a \in Check /\ a.proxy = check[w].proxy /\ a.late
      BY <1>2 DEF Check
    <3>2. check' = [check EXCEPT ![w] = Ended(a, "failure")]
      BY <1>2, <1>4, <1>14, <2>1 DEF Deadline
    <3>3. Earned(a, "failure")
      BY <3>1 DEF Earned
    <3> HIDE DEF a
    <3>4. QED
      BY <1>2, <1>3, <3>1, <3>2, <3>3, EndedFollows
  <2>2. CASE b.phase # "open"
    <3> DEFINE c == [b EXCEPT !.phase = "expired", !.late = TRUE, !.verdict = "failure"]
    <3>1. /\ c \in Check /\ c.phase = "expired" /\ c.lease = "none"
          /\ c.proxy = b.proxy /\ c.verdict = "failure" /\ c.late
      BY <1>1, <1>2, <1>3 DEF Check, SocksPhase
    <3>2. check' = [check EXCEPT ![w] = c]
      BY <1>2, <1>4, <1>14, <2>2 DEF Deadline
    <3> HIDE DEF c
    <3>3. c.phase \in SocksPhase /\ Honest(c)
      BY <3>1 DEF Honest, Earned, SocksPhase
    <3>4. QED
      BY <1>1, <3>1, <3>2, <3>3, SocksFollows
  <2>3. QED
    BY <2>1, <2>2
<1>15. QED
  BY <1>8, <1>9, <1>10, <1>11, <1>12, <1>13, <1>14 DEF ProxyAnswers

\* A step of w's own keeps both invariants.
LEMMA FollowsStep ==
    ASSUME ServiceInv, HonestInv, UNCHANGED <<scheme, up, poolVars>>,
           NEW w \in Worker, \E c \in Check : Follows(w, c) /\ Honest(c)
    PROVE  ServiceInv' /\ HonestInv'
<1>1. PICK c \in Check : Follows(w, c) /\ Honest(c)
  OBVIOUS
<1>2. ServiceInv'
  BY <1>1, OwnStep DEF Follows
<1>3. \A x \in Worker : check'[x] = IF x = w THEN c ELSE check[x]
  BY <1>1 DEF Follows, ServiceInv, ServiceTypeOK
<1>4. HonestInv'
  BY <1>1, <1>3 DEF HonestInv
<1>5. QED
  BY <1>2, <1>4

\* Taking the lock, creating and evicting leave every check as honest as it was.
LEMMA PoolHonest ==
    ASSUME ServiceInv, HonestInv, NEW w \in Worker,
           Acquire(w) \/ EvictionDone(w) \/ EvictionFails(w)
    PROVE  HonestInv'
<1> USE DEF ServiceInv
<1> DEFINE b == check[w]
<1>1. b.phase \in {"lock", "evict"}
  BY DEF Acquire, EvictionDone, EvictionFails, LockInv, ServiceTypeOK
<1>2. b \in Check /\ Honest(b) /\ ~b.late /\ ~b.demand
  BY <1>1, Busy DEF HonestInv, Honest
<1>3. check \in [Worker -> Check]
  BY DEF ServiceTypeOK
<1>4. \/ check' = [check EXCEPT ![w].phase = "request", ![w].lease = "pooled"]
      \/ \E v \in {"failure", "raised"} : check' = [check EXCEPT ![w] = Ended(@, v)]
      \/ \E asked \in {Asked(UrlOfCheck(w)), since} :
            check' =
              [x \in Worker |->
                  IF x = w THEN [check[w] EXCEPT !.phase = "evict"]
                  ELSE IF check[x].lease = "pooled" /\ UrlOfCheck(x) = Head(entries)
                  THEN [check[x] EXCEPT !.lease = "evicted",
                                        !.aged = Cardinality(asked[Head(entries)])]
                  ELSE check[x]]
  BY DEF Acquire, EvictionDone, EvictionFails, Hit, MakeRoom, Create, Evict
<1>5. CASE check' = [check EXCEPT ![w].phase = "request", ![w].lease = "pooled"]
  <2> DEFINE c == [b EXCEPT !.phase = "request", !.lease = "pooled"]
  <2>1. c.phase = "request" /\ c.late = b.late /\ c.demand = b.demand
    BY <1>2 DEF Check
  <2>2. check' = [check EXCEPT ![w] = c]
    BY <1>2, <1>3, <1>5 DEF Check
  <2> HIDE DEF c
  <2>3. Honest(c)
    BY <1>2, <2>1 DEF Honest
  <2>4. QED
    BY <1>3, <2>2, <2>3 DEF HonestInv
<1>6. ASSUME NEW v \in {"failure", "raised"}, check' = [check EXCEPT ![w] = Ended(@, v)]
      PROVE  HonestInv'
  <2> DEFINE c == Ended(b, v)
  <2>1. /\ c.phase = "done" /\ c.verdict = v
        /\ c.late = b.late /\ c.demand = b.demand
    <3>1. v \in Verdict
      BY DEF Verdict
    <3>2. QED
      BY <1>2, <3>1, Checks
  <2>2. check' = [check EXCEPT ![w] = c]
    BY <1>3, <1>6
  <2> HIDE DEF c
  <2>3. Honest(c)
    BY <1>2, <2>1 DEF Honest, Earned
  <2>4. QED
    BY <1>3, <2>2, <2>3 DEF HonestInv
<1>7. ASSUME NEW asked,
             check' =
              [x \in Worker |->
                  IF x = w THEN [check[w] EXCEPT !.phase = "evict"]
                  ELSE IF check[x].lease = "pooled" /\ UrlOfCheck(x) = Head(entries)
                  THEN [check[x] EXCEPT !.lease = "evicted",
                                        !.aged = Cardinality(asked[Head(entries)])]
                  ELSE check[x]]
      PROVE  HonestInv'
  <2> SUFFICES ASSUME NEW x \in Worker PROVE Honest(check'[x])
    BY DEF HonestInv
  <2>1. check[x] \in Check /\ Honest(check[x])
    BY <1>3 DEF HonestInv
  <2>2. CASE x = w
    <3>1. check'[x] = [b EXCEPT !.phase = "evict"]
      BY <1>7, <2>2
    <3>2. check'[x].phase = "evict" /\ ~check'[x].late /\ ~check'[x].demand
      BY <1>2, <3>1 DEF Check
    <3>3. QED
      BY <3>2 DEF Honest
  <2>3. CASE x # w
    <3>1. /\ check'[x].phase = check[x].phase /\ check'[x].late = check[x].late
          /\ check'[x].demand = check[x].demand /\ check'[x].status = check[x].status
          /\ check'[x].granted = check[x].granted
          /\ check'[x].verdict = check[x].verdict
      BY <1>7, <2>1, <2>3 DEF Check
    <3>2. QED
      BY <2>1, <3>1 DEF Honest, Earned
  <2>4. QED
    BY <2>2, <2>3
<1>8. QED
  BY <1>4, <1>5, <1>6, <1>7

\* Shutdown, restart and the return of a result.
LEMMA ServiceStops ==
    ASSUME ServiceInv, HonestInv, StopWorkers \/ ClosePool \/ Restart
    PROVE  ServiceInv' /\ HonestInv'
<1> USE DEF ServiceInv
<1>1. /\ Idle \in Check /\ Idle.phase = "idle" /\ Idle.lease = "none"
      /\ Honest(Idle)
  BY Checks DEF Idle, NewCheck, Honest
<1>2. NeverUsed \in [Url -> SUBSET Url]
  BY DEF NeverUsed
<1>3. Cardinality({NoUrl} \ {NoUrl}) = 0 /\ Cardinality({closing} \ {NoUrl}) \in Nat
  <2>1. {NoUrl} \ {NoUrl} = {} /\ IsFiniteSet({closing})
    BY FS_Singleton
  <2>2. QED
    BY <2>1, FS_EmptySet, FS_Difference, FS_CardinalityType
<1>4. CASE StopWorkers
  <2>1. \A w \in Worker : check'[w] = Idle
    BY <1>4 DEF StopWorkers
  <2>2. /\ up' = FALSE /\ holder' = {} /\ waiting' = <<>> /\ closing' = NoUrl
        /\ UNCHANGED <<scheme, entries, since>>
        /\ \/ lost' = lost
           \/ lost' = lost \cup {closing} /\ closing # NoUrl
    BY <1>4 DEF StopWorkers
  <2>3. ServiceTypeOK'
    <3>1. check' \in [Worker -> Check]
      BY <1>1, <1>4 DEF StopWorkers
    <3>2. lost' \subseteq Url
      BY <2>2 DEF ServiceTypeOK
    <3>3. waiting' \in Seq(Worker)
      <4>1. <<>> \in Seq(Worker)
        OBVIOUS
      <4>2. QED
        BY <2>2, <4>1
    <3>4. QED
      BY <2>2, <3>1, <3>2, <3>3 DEF ServiceTypeOK
  <2>4. ChecksInv' /\ LockInv' /\ LeaseInv' /\ VictimsAged'
    BY <1>1, <2>1, <2>2 DEF ChecksInv, LockInv, LeaseInv, VictimsAged
  <2>5. OrderInv'
    BY <2>2 DEF OrderInv
  <2>6. Len(entries') + Cardinality({closing'} \ {NoUrl}) <= MaxSize
    BY <1>3, <2>2, ServiceAssumption DEF TransportsAccounted, ServiceTypeOK
  <2>7. TransportsAccounted'
    BY <1>1, <2>1, <2>2, <2>6 DEF TransportsAccounted
  <2>8. HonestInv'
    BY <1>1, <2>1 DEF HonestInv
  <2>9. QED
    BY <2>3, <2>4, <2>5, <2>7, <2>8
<1>5. CASE ClosePool
  <2>1. ~up /\ \A w \in Worker : check[w] = Idle
    BY <1>5 DEF ClosePool, ChecksInv
  <2>2. /\ entries' = <<>> /\ since' = NeverUsed
        /\ UNCHANGED <<scheme, up, holder, waiting, closing, lost, check>>
    BY <1>5 DEF ClosePool
  <2>3. holder = {}
    BY <1>1, <2>1 DEF LockInv, ServiceTypeOK
  <2>4. ServiceTypeOK'
    BY <1>2, <2>2 DEF ServiceTypeOK
  <2>5. ChecksInv' /\ LockInv' /\ LeaseInv' /\ VictimsAged' /\ HonestInv'
    BY <2>2 DEF ChecksInv, LockInv, LeaseInv, VictimsAged, HonestInv
  <2>6. OrderInv'
    BY <2>2, <2>3 DEF OrderInv
  <2>7. closing = NoUrl
    BY <2>3 DEF LockInv
  <2>8. Len(entries') + Cardinality({closing'} \ {NoUrl}) <= MaxSize
    BY <1>3, <2>2, <2>7, ServiceAssumption
  <2>9. TransportsAccounted'
    BY <1>1, <2>1, <2>2, <2>8 DEF TransportsAccounted
  <2>10. QED
    BY <2>4, <2>5, <2>6, <2>9
<1>6. CASE Restart
  <2>1. ~up /\ \A w \in Worker : check[w] = Idle
    BY <1>6 DEF Restart, ChecksInv
  <2>2. /\ scheme' \in {"http", "https"} /\ up' = TRUE /\ lost' = {}
        /\ since' = NeverUsed /\ entries = <<>>
        /\ UNCHANGED <<entries, holder, waiting, closing, check>>
    BY <1>6 DEF Restart
  <2>3. holder = {} /\ waiting = <<>>
    BY <1>1, <2>1 DEF LockInv, ServiceTypeOK
  <2>4. ServiceTypeOK'
    BY <1>2, <2>2 DEF ServiceTypeOK
  <2>5. ChecksInv' /\ LockInv' /\ LeaseInv' /\ VictimsAged' /\ HonestInv'
    BY <1>1, <2>1, <2>2 DEF ChecksInv, LockInv, LeaseInv, VictimsAged, HonestInv
  <2>6. OrderInv'
    BY <2>2, <2>3 DEF OrderInv
  <2>7. TransportsAccounted'
    BY <1>1, <2>1, <2>2 DEF TransportsAccounted
  <2>8. QED
    BY <2>4, <2>5, <2>6, <2>7
<1>7. QED
  BY <1>4, <1>5, <1>6

LEMMA ServiceStep ==
    ServiceInv /\ HonestInv /\ [ServiceNext]_serviceVars => (ServiceInv /\ HonestInv)'
<1> SUFFICES ASSUME ServiceInv, HonestInv, [ServiceNext]_serviceVars
             PROVE  ServiceInv' /\ HonestInv'
  OBVIOUS
<1>1. ASSUME NEW w \in Worker, CheckStep(w)
      PROVE  ServiceInv' /\ HonestInv'
  <2>1. CASE \E p \in Proxy : StartCheck(w, p)
    <3>1. PICK p \in Proxy : StartCheck(w, p)
      BY <2>1
    <3>2. ServiceInv'
      BY <3>1, StartCheckStep
    <3>3. \A x \in Worker : x # w => check'[x] = check[x]
      BY <3>1 DEF StartCheck, ServiceInv, ServiceTypeOK
    <3>4. Honest(check'[w])
      <4>1. \/ check'[w] = NewCheck(p, "lock") \/ check'[w] = NewCheck(p, "open")
            \/ check'[w] = Ended(NewCheck(p, "open"), "failure")
        BY <3>1 DEF StartCheck, ServiceInv, ServiceTypeOK
      <4>2. Honest(NewCheck(p, "lock")) /\ Honest(NewCheck(p, "open"))
        BY DEF NewCheck, Honest
      <4>3. NewCheck(p, "open") \in Check /\ "failure" \in Verdict
        BY Checks DEF SocksPhase, Verdict
      <4>4. Honest(Ended(NewCheck(p, "open"), "failure"))
        <5> DEFINE o == NewCheck(p, "open")
                   e == Ended(o, "failure")
        <5>1. ~o.demand
          BY DEF NewCheck
        <5>2. e.phase = "done" /\ e.verdict = "failure" /\ ~e.demand
          BY <4>3, <5>1, Checks
        <5> HIDE DEF e
        <5>3. Honest(e)
          BY <5>2 DEF Honest, Earned
        <5>4. QED
          BY <5>3 DEF e
      <4>5. QED
        BY <4>1, <4>2, <4>4
    <3>5. HonestInv'
      BY <3>3, <3>4 DEF HonestInv
    <3>6. QED
      BY <3>2, <3>5
  <2>2. CASE Acquire(w) \/ EvictionDone(w) \/ EvictionFails(w)
    BY <2>2, AcquireStep, EvictionDoneStep, EvictionFailsStep, PoolHonest
  <2>3. CASE \/ RequestFails(w) \/ TunnelRefused(w) \/ ResponseStarts(w)
             \/ BodyFails(w)
             \/ BodyEnds(w) /\ UNCHANGED waiting
    <3>1. UNCHANGED <<scheme, up, poolVars>>
      BY <2>3 DEF RequestFails, TunnelRefused, ResponseStarts, BodyFails, BodyEnds,
                  poolVars
    <3>2. QED
      BY <2>3, <3>1, HttpFollows, FollowsStep
  <2>4. CASE BodyEnds(w) /\ waiting' # waiting
    <3> DEFINE b == check[w]
               n == NewCheck(b.proxy, "lock")
               c == [n EXCEPT !.redirects = b.redirects + 1]
    <3>1. b.phase = "body"
      BY <2>4 DEF BodyEnds
    <3>2. up /\ b \in Check /\ b.proxy \in Proxy
      BY <3>1, Busy
    <3>3. /\ Redirects(b) /\ waiting' = Append(waiting, w)
          /\ UNCHANGED <<scheme, up, entries, holder, closing, lost, since>>
      BY <2>4 DEF BodyEnds
    <3>4. check' = [check EXCEPT ![w] = c]
      <4>1. check' = [check EXCEPT ![w] =
                         [NewCheck(@.proxy, "lock") EXCEPT
                             !.redirects = check[w].redirects + 1]]
        BY <2>4 DEF BodyEnds
      <4>2. check \in [Worker -> Check]
        BY DEF ServiceInv, ServiceTypeOK
      <4>3. QED
        BY <4>1, <4>2
    <3>5. b.redirects + 1 \in 0..MaxRedirects
      <4>1. b.redirects < MaxRedirects
        BY <3>3 DEF Redirects
      <4>2. b.redirects \in 0..MaxRedirects
        BY <3>2 DEF Check
      <4>3. QED
        BY <4>1, <4>2, ServiceAssumption
    <3>6. /\ c \in Check /\ c.phase = "lock" /\ c.lease = "none" /\ c.proxy = b.proxy
          /\ ~c.late /\ ~c.demand
      <4> DEFINE r == b.redirects + 1
      <4>1. r \in 0..MaxRedirects
        BY <3>5
      <4> HIDE DEF r
      <4>2. /\ n \in Check /\ n.phase = "lock" /\ n.lease = "none"
            /\ n.proxy = b.proxy /\ ~n.late /\ ~n.demand
        BY <3>2, Checks DEF NewCheck, HttpPhase
      <4> HIDE DEF n
      <4>3. /\ [n EXCEPT !.redirects = r] \in Check
            /\ [n EXCEPT !.redirects = r].phase = "lock"
            /\ [n EXCEPT !.redirects = r].lease = "none"
            /\ [n EXCEPT !.redirects = r].proxy = b.proxy
            /\ ~[n EXCEPT !.redirects = r].late
            /\ ~[n EXCEPT !.redirects = r].demand
        BY <4>1, <4>2 DEF Check
      <4>4. QED
        BY <4>3 DEF r
    <3> HIDE DEF c
    <3>7. Honest(c)
      BY <3>6 DEF Honest
    <3>8. ServiceInv'
      BY <3>1, <3>2, <3>3, <3>4, <3>6, QueueStep
    <3>9. HonestInv'
      BY <3>4, <3>7 DEF HonestInv, ServiceInv, ServiceTypeOK
    <3>10. QED
      BY <3>8, <3>9
  <2>5. CASE ProxyAnswers(w) \/ SocketCloses(w) \/ Deadline(w)
    <3>1. UNCHANGED <<scheme, up, poolVars>>
      BY <2>5 DEF ProxyAnswers, SocketOpens, AuthReply, ConnectReply, SocksResponse,
                  SocksRest, SocketCloses, Deadline
    <3>2. QED
      BY <2>5, <3>1, SocksSteps, FollowsStep
  <2>6. CASE Deliver(w)
    <3>1. /\ Idle \in Check /\ Idle.phase = "idle" /\ Idle.lease = "none"
          /\ Honest(Idle)
      BY Checks DEF Idle, NewCheck, Honest
    <3>2. Follows(w, Idle) /\ UNCHANGED <<scheme, up, poolVars>>
      BY <2>6, <3>1 DEF Deliver, Follows
    <3>3. QED
      BY <3>1, <3>2, FollowsStep
  <2>7. QED
    BY <1>1, <2>1, <2>2, <2>3, <2>4, <2>5, <2>6 DEF CheckStep, HttpStep
<1>2. CASE StopWorkers \/ ClosePool \/ Restart
  BY <1>2, ServiceStops
<1>3. CASE UNCHANGED serviceVars
  BY <1>3 DEF ServiceInv, HonestInv, serviceVars, poolVars, ServiceTypeOK, ChecksInv,
              LockInv, OrderInv, LeaseInv, TransportsAccounted, VictimsAged,
              Pooled, UrlOfCheck
<1>4. QED
  BY <1>1, <1>2, <1>3 DEF ServiceNext

LEMMA HonestInit == ServiceInit => HonestInv
BY DEF ServiceInit, HonestInv, Honest, Idle, NewCheck

-----------------------------------------------------------------------------
(* The theorems.                                                           *)

\* Every record and sequence of the probes and of their pool keeps its type, for
\* every pool size, number of redirects and set of proxies.
THEOREM ServiceTypeCorrect == ServiceSpec => []ServiceTypeOK
<1>1. ServiceInv => ServiceTypeOK
  BY DEF ServiceInv
<1>2. QED
  BY <1>1, ServiceInvInit, HonestInit, ServiceStep, PTL DEF ServiceSpec

\* However hits, evictions, refused URLs, redirects and shutdowns interleave,
\* the pool never holds more transports than its size, with the one being closed,
\* never two of a URL, and every one is pooled or being closed
\* (ProxyTransportPool.acquire).
THEOREM TransportsAlwaysAccounted == ServiceSpec => []TransportsAccounted
<1>1. ServiceInv => TransportsAccounted
  BY DEF ServiceInv
<1>2. QED
  BY <1>1, ServiceInvInit, HonestInit, ServiceStep, PTL DEF ServiceSpec

\* A running request loses its transport only after as many other URLs as the
\* pool's size were asked for since its own was.
THEOREM VictimsAlwaysAged == ServiceSpec => []VictimsAged
<1>1. ServiceInv => VictimsAged
  BY DEF ServiceInv
<1>2. QED
  BY <1>1, ServiceInvInit, HonestInit, ServiceStep, PTL DEF ServiceSpec

\* Whatever a proxy sends and whenever the deadline of a SOCKS check passes, a
\* success was answered through a granted tunnel in time and with an accepted
\* status; a check past its deadline fails; and what the checker takes for a
\* demand of credentials disables the proxy, unless the deadline passed or the
\* body of the 407 did not arrive.
THEOREM VerdictsAlwaysEarned == ServiceSpec => []VerdictEarned
<1>1. HonestInv => VerdictEarned
  BY DEF HonestInv, Honest, Earned, VerdictEarned
<1>2. QED
  BY <1>1, ServiceInvInit, HonestInit, ServiceStep, PTL DEF ServiceSpec
=============================================================================
