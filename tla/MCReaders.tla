----------------------------- MODULE MCReaders ------------------------------
(***************************************************************************)
(* Small instances of PoolViews, SourcePaging and IdentityMigration for    *)
(* TLC.  They share no state: a behaviour is one of one of them, and the   *)
(* variables of the modules that sleep never change.                       *)
(***************************************************************************)
EXTENDS PoolViews, SourcePaging, IdentityMigration

Starting(status, score) ==
    [status |-> status, cooling |-> FALSE, quality |-> score, score |-> score]

\* The last row may be removed, and its id returns with the next insertion.
MCTables ==
    {<<Starting("HEALTHY", 1), Starting("HEALTHY", 0), Starting("CHECKING", 2)>>}

MCFilters == {NoFilter}

\* A provider's rows: with two protocols, with a TLS port, with a protocol
\* that is not supported, with a port out of range.
MCRow(endpoint, protocols, sound, tls) ==
    [endpoint |-> endpoint, protocols |-> protocols, sound |-> sound, tls |-> tls]

MCRows ==
    <<MCRow(1, {"http", "socks5"}, TRUE, FALSE),
      MCRow(2, {"https"}, TRUE, TRUE),
      MCRow(3, {"ftp"}, TRUE, FALSE),
      MCRow(4, {"http"}, FALSE, FALSE),
      MCRow(5, {"socks4"}, TRUE, FALSE)>>

MCItem == Range(MCRows)

MCListings == {SubSeq(MCRows, 1, n) : n \in 0..5}

\* Three rows of an endpoint spelled in two ways and of another one, which is
\* normalized to one of these ways: as the host 01.2.3.4. with its final dot,
\* which becomes 01.2.3.4, which itself becomes 1.2.3.4.
MCNormal == [a |-> "a", A |-> "a", c |-> "A"]

MCOldRow(endpoint, protocol, status, success) ==
    [endpoint |-> endpoint, protocol |-> protocol, status |-> status, success |-> success]

MCOldTables ==
    {found \in [proxies : [1..3 -> {MCOldRow(e, l, st, 0) : e \in {"A", "a", "c"},
                                      l \in {"http", "https", "socks5"},
                                      st \in {"HEALTHY", "DEAD"}}
                                   \cup {MCOldRow("a", "https", "DEAD", 1)}],
                links : {{<<1, 1>>, <<2, 1>>, <<3, 2>>}}] :
        IdentityKept(found.proxies)}

-----------------------------------------------------------------------------
SiteSleeps ==
    /\ adapter = "none" /\ served = 1 /\ listing = <<>>
    /\ visit = Start /\ changes = 0 /\ unmoved = {}

PoolSleeps ==
    /\ rows = <<>> /\ writes = 0 /\ reader = NoReader
    /\ walk = [Resting({}) EXCEPT !.phase = "asleep"]

MigrationSleeps ==
    /\ old = <<>> /\ proxies = <<>> /\ links = {} /\ phase = "asleep"
    /\ pending = {} /\ groups = {} /\ group = NoGroup

ReadersInit ==
    \/ PoolInit /\ SiteSleeps /\ MigrationSleeps
    \/ SiteInit /\ PoolSleeps /\ MigrationSleeps
    \/ MigrationInit /\ PoolSleeps /\ SiteSleeps

ReadersNext ==
    \/ walk.phase # "asleep" /\ PoolNext /\ UNCHANGED <<siteVars, migrationVars>>
    \/ adapter # "none" /\ SiteNext /\ UNCHANGED <<viewVars, migrationVars>>
    \/ phase # "asleep" /\ MigrationNext /\ UNCHANGED <<viewVars, siteVars>>

ReadersFairSpec ==
    /\ ReadersInit
    /\ [][ReadersNext]_<<viewVars, siteVars, migrationVars>>
    /\ PoolFairness
=============================================================================
