--------------------------- MODULE QueueSelection ---------------------------
(***************************************************************************)
(* Which rows a refill selects: _fetch_queue_batch_ids of checker_job.py   *)
(* and the helpers it calls, one turn of the provider round-robin per      *)
(* step.  It runs in one database thread on one set of rows.               *)
(*                                                                         *)
(* Rows are numbered in the order of the queries, by last_checked (never   *)
(* checked first) and id: row 1 is the oldest.  The shuffles make the      *)
(* order of the providers, and of the rows inside a provider's window, a   *)
(* choice.  CheckerJob keeps only the outcome of all this (FetchBatch).    *)
(***************************************************************************)
EXTENDS Integers, Sequences, FiniteSets, Functions, SequencesExt

CONSTANTS
    Rows,       \* the number of rows
    Tiers,      \* QUEUE_STATE_ORDER, four tiers in the code
    Source,     \* the enabled sources
    PoolSize,   \* settings.checker_selection_pool_size
    MaxLimit    \* bound on the limit of a batch

ASSUME SelectionAssumption ==
    /\ Rows \in Nat
    /\ Tiers \in Seq(STRING) /\ Len(Tiers) > 0 /\ IsInjective(Tiers)
    /\ IsFiniteSet(Source)
    /\ PoolSize \in Nat \ {0}
    /\ MaxLimit \in Nat \ {0}

Row == 1..Rows      \* oldest first

Tier == ToSet(Tiers)

VARIABLES
    tier,       \* the tier a row is eligible in, "none" if it is not eligible
                \* or was excluded (reserved)
    links,      \* the enabled sources a row is linked to
    limit,      \* the size of the batch
    pass,       \* "idle", "quota" (one call per tier), "extra", "done"
    stage,      \* the tier of the current call, an index into Tiers
    call,       \* the current call of _pick_fair_proxy_rows
    pools,      \* per tier, the rows picked so far, in order
    batch       \* the result

vars == <<tier, links, limit, pass, stage, call, pools, batch>>

-----------------------------------------------------------------------------
(* Slots, windows and the final interleaving.                              *)

\* _allocate_state_slots: nearly equal shares, the first tiers get the rest.
Slot(n, i) == (n \div Len(Tiers)) + (IF i <= n % Len(Tiers) THEN 1 ELSE 0)

Picked == UNION {ToSet(pools[t]) : t \in Tier}

\* Mutant: rows picked by an earlier call are not filtered out.
CandidatesUnfiltered(t) == {r \in Row : tier[r] = t /\ links[r] # {}}

\* The query of a tier: eligible, linked to an enabled source, not yet seen.
Candidates(t) == {r \in Row : tier[r] = t /\ links[r] # {}} \ Picked

\* per_source_pool: how many rows of a provider a call may look at.
PerSource(n) ==
    LET size == IF n > PoolSize THEN n ELSE PoolSize
        share == size \div Cardinality(Source)
    IN IF share > 1 THEN share ELSE 1

\* The oldest candidates of one provider.
Window(t, s, n) ==
    LET rows == {r \in Candidates(t) : s \in links[r]} IN
    {r \in rows : Cardinality({q \in rows : q < r}) < PerSource(n)}

Shortfall == limit - Cardinality(Picked)

\* Mutant: the tiers are queued one after the other.
Concatenated(ps, n) ==
    FlattenSeq([i \in 1..Len(Tiers) |-> ps[Tiers[i]]])

\* The elements of a finite set S in the linear order R, a set of pairs.
InOrder(S, R) ==
    [i \in 1..Cardinality(S) |->
        CHOOSE c \in S : Cardinality({d \in S : <<d, c>> \in R}) = i - 1]

Less == {p \in Nat \X Nat : p[1] < p[2]}

\* The places of the pools: <<i, j>> is the i-th row of the j-th tier.
Cell == Row \X (1..Len(Tiers))

Before == {p \in Cell \X Cell :
              \/ p[1][1] < p[2][1]
              \/ p[1][1] = p[2][1] /\ p[1][2] < p[2][2]}

\* _round_robin_state_pools: first the first row of every tier, then the
\* second of every tier that has one, and so on.
Interleaved(ps, n) ==
    LET cells == {c \in Cell : c[1] <= Len(ps[Tiers[c[2]]])}
        queue == InOrder(cells, Before)
        size == IF Cardinality(cells) < n THEN Cardinality(cells) ELSE n
    IN [i \in 1..size |-> ps[Tiers[queue[i][2]]][queue[i][1]]]

-----------------------------------------------------------------------------
NoCall == [open |-> FALSE]

Init ==
    /\ tier = [r \in Row |-> "none"]
    /\ links = [r \in Row |-> {}]
    /\ limit = 0
    /\ pass = "idle"
    /\ stage = 1
    /\ call = NoCall
    /\ pools = [t \in Tier |-> <<>>]
    /\ batch = <<>>

\* A refill: the rows and the free slots are whatever they are.  A row that is
\* not eligible or has no enabled source is in no window, so it makes no
\* difference which numbers such rows have: they are the last ones.
Begin ==
    /\ pass = "idle"
    /\ \E n \in 0..Rows :
         /\ \E f \in [1..n -> Tier] :
              tier' = [r \in Row |-> IF r <= n THEN f[r] ELSE "none"]
         /\ \E f \in [1..n -> SUBSET Source \ {{}}] :
              links' = [r \in Row |-> IF r <= n THEN f[r] ELSE {}]
    /\ limit' \in 1..MaxLimit
    /\ pass' = "quota"
    /\ UNCHANGED <<stage, call, pools, batch>>

\* Mutant: a tier may take all the slots that are left.
WantedGreedy == Shortfall

\* How many rows the call for the current stage asks for.
Wanted == IF pass = "quota" THEN Slot(limit, stage) ELSE Shortfall

\* Mutant: no second pass, the slots a tier left over stay empty.
AdvanceOnce(ps) ==
    /\ pools' = ps
    /\ call' = NoCall
    /\ stage' = IF stage < Len(Tiers) THEN stage + 1 ELSE 1
    /\ pass' = IF stage < Len(Tiers) THEN pass ELSE "done"
    /\ batch' = IF stage < Len(Tiers)
                   THEN batch
                   ELSE Interleaved(ps, limit)
    /\ UNCHANGED <<tier, links, limit>>

\* After the last tier: a second pass if slots are left, the merge otherwise.
Advance(ps) ==
    LET left == limit - Cardinality(UNION {ToSet(ps[t]) : t \in Tier})
        more == stage < Len(Tiers) /\ (pass = "extra" => left > 0)
        again == pass = "quota" /\ left > 0
    IN
    /\ pools' = ps
    /\ call' = NoCall
    /\ stage' = IF more THEN stage + 1 ELSE 1
    /\ pass' = IF more THEN pass ELSE IF again THEN "extra" ELSE "done"
    /\ batch' = IF more \/ again
                   THEN batch
                   ELSE Interleaved(ps, limit)
    /\ UNCHANGED <<tier, links, limit>>

\* _pick_fair_proxy_rows: the windows of the providers, in a shuffled order.
Open ==
    LET t == Tiers[stage]
        window == [s \in Source |-> Window(t, s, Wanted)]
        providers == {s \in Source : window[s] # {}}
    IN
    /\ pass \in {"quota", "extra"}
    /\ ~call.open
    /\ IF Wanted <= 0 \/ providers = {}
          THEN Advance(pools)
          ELSE /\ \E order \in SetToSeqs(providers) :
                    call' = [open |-> TRUE, wanted |-> Wanted,
                             window |-> window, order |-> order, turn |-> 1,
                             picked |-> <<>>, credit |-> [s \in Source |-> 0],
                             progress |-> FALSE, exhausted |-> {}]
               /\ UNCHANGED <<tier, links, limit, pass, stage, pools, batch>>

Full == Len(call.picked) >= call.wanted

\* Mutant: a provider keeps its turn as long as it has rows.
TurnGreedy ==
    LET s == call.order[call.turn]
        unseen == call.window[s] \ ToSet(call.picked)
    IN
    /\ call.open /\ ~Full /\ call.turn <= Len(call.order)
    /\ \/ \E r \in unseen :
            call' = [call EXCEPT !.picked = Append(@, r),
                                 !.credit[s] = @ + 1, !.progress = TRUE]
       \/ /\ unseen = {}
          /\ call' = [call EXCEPT !.turn = @ + 1, !.exhausted = @ \cup {s}]
    /\ UNCHANGED <<tier, links, limit, pass, stage, pools, batch>>

\* One provider's turn: a row of its window that no provider picked before in
\* this call, if there is one.
Turn ==
    LET s == call.order[call.turn]
        unseen == call.window[s] \ ToSet(call.picked)
    IN
    /\ call.open /\ ~Full /\ call.turn <= Len(call.order)
    /\ \/ \E r \in unseen :
            call' = [call EXCEPT !.turn = @ + 1, !.picked = Append(@, r),
                                 !.credit[s] = @ + 1, !.progress = TRUE]
       \/ /\ unseen = {}
          /\ call' = [call EXCEPT !.turn = @ + 1, !.exhausted = @ \cup {s}]
    /\ UNCHANGED <<tier, links, limit, pass, stage, pools, batch>>

\* The end of a round: exhausted providers leave the order; the call ends when
\* it has its rows, nobody is left or nobody could pick.
EndRound ==
    LET kept == {i \in 1..Len(call.order) : call.order[i] \notin call.exhausted}
        rest == [i \in 1..Cardinality(kept) |-> call.order[InOrder(kept, Less)[i]]]
        t == Tiers[stage]
    IN
    /\ call.open
    /\ Full \/ call.turn > Len(call.order)
    /\ IF Full \/ rest = <<>> \/ ~call.progress
          THEN Advance([pools EXCEPT ![t] = @ \o call.picked])
          ELSE /\ call' = [call EXCEPT !.order = rest, !.turn = 1,
                                       !.progress = FALSE, !.exhausted = {}]
               /\ UNCHANGED <<tier, links, limit, pass, stage, pools, batch>>

\* The refill takes the batch; by the next one the rows have changed.
Return ==
    /\ pass = "done"
    /\ tier' = [r \in Row |-> "none"]
    /\ links' = [r \in Row |-> {}]
    /\ limit' = 0
    /\ pass' = "idle"
    /\ pools' = [t \in Tier |-> <<>>]
    /\ batch' = <<>>
    /\ UNCHANGED <<stage, call>>

Next == Begin \/ Open \/ Turn \/ EndRound \/ Return

Spec == Init /\ [][Next]_vars

-----------------------------------------------------------------------------
(* Properties.                                                             *)

Checkable(t) == {r \in Row : tier[r] = t /\ links[r] # {}}

\* The batch is one that CheckerJob's FetchBatch may choose: different rows,
\* all of them eligible, no more than the limit, and at least one if any row
\* is eligible, however the rows are spread over tiers and providers
\* (_fetch_queue_batch_ids).
ImplementsFetch ==
    pass = "done" =>
        LET candidates == UNION {Checkable(t) : t \in Tier} IN
        /\ IsInjective(batch)
        /\ ToSet(batch) \subseteq candidates
        /\ Len(batch) <= limit
        /\ batch = <<>> => candidates = {}

Quota == limit \div Len(Tiers)

\* The rows a tier has within a provider's window, and within all of them.
Oldest(t, s) ==
    LET rows == {r \in Checkable(t) : s \in links[r]} IN
    {r \in rows : Cardinality({q \in rows : q < r}) < PerSource(Quota)}

Reach(t) == UNION {Oldest(t, s) : s \in Source}

\* No tier crowds out another: each gets its quarter of the batch if the
\* windows of its providers hold so many rows (docs/architecture.md, "Checker
\* queue fairness").
TierQuotaKept ==
    pass = "done" => \A t \in Tier :
        \/ Len(pools[t]) >= Quota
        \/ Len(pools[t]) >= Cardinality(Reach(t))

\* Within a call no provider gets two rows ahead of one whose window still has
\* a row to give, also when they list the same rows, nor of one that left the
\* order for good (_round_robin_proxy_rows).
ProvidersBalanced ==
    call.open => \A s, u \in Source :
        \/ call.credit[s] <= call.credit[u] + 1
        \/ call.window[u] \subseteq ToSet(call.picked)

\* The rows of a provider picked for a tier that are older than row r.
Ahead(t, s, r) == {q \in ToSet(pools[t]) : s \in links[q] /\ q < r}

\* Slots that a tier leaves over go to the others: a batch is short only if
\* every row left out has its provider's whole share of older rows ahead of it
\* (the second pass of _fetch_queue_batch_ids).  The documentation promises
\* more, see the README.
SlotsReused ==
    pass = "done" /\ Len(batch) < limit =>
        \A t \in Tier : \A r \in Checkable(t) \ ToSet(batch) : \A s \in links[r] :
            Cardinality(Ahead(t, s, r)) >= PerSource(1)

\* In the order of the queue a tier is never two rows ahead of one that has
\* rows later in the batch (_round_robin_state_pools).
TiersInterleaved ==
    pass = "done" => \A k \in 1..Len(batch) : \A t, u \in Tier :
        LET Count(v) == Cardinality({i \in 1..k : tier[batch[i]] = v})
            later == {i \in (k + 1)..Len(batch) : tier[batch[i]] = u}
        IN later # {} => Count(t) <= Count(u) + 1
=============================================================================
