------------------------- MODULE IdentityMigration --------------------------
(***************************************************************************)
(* Revision 005 of the database (alembic/versions/                         *)
(* 005_proxy_host_port_dedup.py): hosts are normalized row by row, rows    *)
(* that then name one endpoint are merged, and the identity becomes host   *)
(* and port.  It runs in one transaction before the process starts         *)
(* (Dockerfile), so nobody else is at the table; what matters is the order *)
(* of its statements against the constraints of the table.                 *)
(***************************************************************************)
EXTENDS Integers, Sequences, FiniteSets

CONSTANTS
    Endpoint,   \* host and port, as rows may spell them
    Normal,     \* _normalize_host of each, applied once: not always a fixed point
    Source,     \* ids of sources
    OldTables   \* the tables an upgrade may find: rows and links

Label == {"http", "https", "socks4", "socks5"}

Ranked == <<"DISABLED", "DEAD", "CHECKING", "NEW", "DEGRADED", "HEALTHY">>

StatusRank ==
    [status \in {Ranked[n] : n \in DOMAIN Ranked} |-> CHOOSE n \in 1..6 : Ranked[n] = status]

OldRow == [endpoint : Endpoint, protocol : Label, status : DOMAIN StatusRank, success : Nat]

\* uq_proxy_identity, as revision 001 created it.
IdentityKept(table) ==
    \A i, j \in DOMAIN table :
        i # j => \/ table[i].endpoint # table[j].endpoint
                 \/ table[i].protocol # table[j].protocol

\* uq_proxy_identity, as this revision creates it.
EndpointKept(table) ==
    \A i, j \in DOMAIN table : i # j => table[i].endpoint # table[j].endpoint

ASSUME MigrationAssumption ==
    /\ Normal \in [Endpoint -> Endpoint]
    /\ \A old \in OldTables :
          /\ IsFiniteSet(DOMAIN old.proxies) /\ DOMAIN old.proxies \subseteq Nat
          /\ old.proxies \in [DOMAIN old.proxies -> OldRow]
          /\ IdentityKept(old.proxies)
          /\ old.links \subseteq (DOMAIN old.proxies) \X Source

VARIABLES
    old,      \* history: the tables that the upgrade found
    proxies,  \* the table: id -> row
    links,    \* proxy_source_links: the row's id and the source's
    phase,    \* "normalize", "merge", "done" or "aborted"
    pending,  \* ids of rows whose host is still to be normalized
    groups,   \* endpoints whose rows are still to be merged
    group     \* the endpoint being merged, with its keeper_protocol

migrationVars == <<old, proxies, links, phase, pending, groups, group>>

NoGroup == <<>>

-----------------------------------------------------------------------------
\* _prefer_protocol.
Prefer(existing, incoming) ==
    LET Rank(label) == CASE label = "https" -> 2 [] label = "http" -> 1 [] OTHER -> 0
    IN  IF Rank(incoming) > Rank(existing) THEN incoming ELSE existing

\* The order of the members of a group.
Ahead(i, j) ==
    LET a == proxies[i]
        b == proxies[j]
    IN  \/ StatusRank[a.status] > StatusRank[b.status]
        \/ /\ a.status = b.status
           /\ a.success > b.success \/ (a.success = b.success /\ i < j)

Members(endpoint) == {id \in DOMAIN proxies : proxies[id].endpoint = endpoint}

First(ids) == CHOOSE i \in ids : \A j \in ids \ {i} : Ahead(i, j)

\* A statement violates a constraint: the transaction is rolled back, and the
\* process is not started.
Abort ==
    /\ phase' = "aborted"
    /\ proxies' = old.proxies /\ links' = old.links
    /\ pending' = {} /\ groups' = {} /\ group' = NoGroup

\* The UPDATE of the next row's host.
NormalizeRow(id) ==
    /\ phase = "normalize"
    /\ id \in pending /\ \A other \in pending : id <= other
    /\ LET table == [proxies EXCEPT ![id].endpoint = Normal[@]]
       IN  IF IdentityKept(table)
           THEN /\ proxies' = table
                /\ pending' = pending \ {id}
                /\ UNCHANGED <<links, phase, groups, group>>
           ELSE Abort
    /\ UNCHANGED old

\* The rows are grouped by endpoint.
GroupRows ==
    /\ phase = "normalize" /\ pending = {}
    /\ phase' = "merge"
    /\ groups' = {proxies[id].endpoint : id \in DOMAIN proxies}
    /\ UNCHANGED <<old, proxies, links, pending, group>>

\* The loop takes up a group; in which order it does so makes no difference.
BeginGroup(endpoint) ==
    /\ phase = "merge" /\ group = NoGroup
    /\ endpoint \in groups
    /\ groups' = groups \ {endpoint}
    /\ group' = [endpoint |-> endpoint,
                 label    |-> proxies[First(Members(endpoint))].protocol]
    /\ UNCHANGED <<old, proxies, links, phase, pending>>

\* Mutant: the links of a duplicate go with it.
MergeDroppingLinks ==
    /\ group # NoGroup
    /\ LET members   == Members(group.endpoint)
           duplicate == First(members \ {First(members)})
       IN  /\ Cardinality(members) > 1
           /\ links' = {link \in links : link[1] # duplicate}
           /\ proxies' = [id \in (DOMAIN proxies) \ {duplicate} |-> proxies[id]]
           /\ group' = [group EXCEPT !.label = Prefer(@, proxies[duplicate].protocol)]
    /\ UNCHANGED <<old, phase, pending, groups>>

\* The next duplicate: the keeper takes over its links, unless it has one to
\* the same source, and the duplicate is deleted.
MergeDuplicate ==
    /\ group # NoGroup
    /\ LET members   == Members(group.endpoint)
           keeper    == First(members)
           duplicate == First(members \ {keeper})
       IN  /\ Cardinality(members) > 1
           /\ links' = {link \in links : link[1] # duplicate}
                         \cup {<<keeper, s>> : s \in {s \in Source : <<duplicate, s>> \in links}}
           /\ proxies' = [id \in (DOMAIN proxies) \ {duplicate} |-> proxies[id]]
           /\ group' = [group EXCEPT !.label = Prefer(@, proxies[duplicate].protocol)]
    /\ UNCHANGED <<old, phase, pending, groups>>

\* The keeper is alone, and gets the preferred protocol of its group.
Relabel ==
    /\ group # NoGroup
    /\ \E keeper \in DOMAIN proxies :
          /\ Members(group.endpoint) = {keeper}
          /\ proxies' = [proxies EXCEPT ![keeper].protocol = group.label]
    /\ group' = NoGroup
    /\ UNCHANGED <<old, links, phase, pending, groups>>

\* The new constraint.
Constrain ==
    /\ phase = "merge" /\ groups = {} /\ group = NoGroup
    /\ IF EndpointKept(proxies)
       THEN /\ phase' = "done"
            /\ UNCHANGED <<proxies, links, pending, groups, group>>
       ELSE Abort
    /\ UNCHANGED old

-----------------------------------------------------------------------------
MigrationInit ==
    /\ old \in OldTables
    /\ proxies = old.proxies /\ links = old.links
    /\ phase = "normalize"
    /\ pending = DOMAIN proxies
    /\ groups = {} /\ group = NoGroup

Upgraded == phase \in {"done", "aborted"} /\ UNCHANGED migrationVars

MigrationNext ==
    \/ \E id \in pending : NormalizeRow(id)
    \/ GroupRows
    \/ \E endpoint \in groups : BeginGroup(endpoint)
    \/ MergeDuplicate \/ Relabel \/ Constrain
    \/ Upgraded

MigrationSpec == MigrationInit /\ [][MigrationNext]_migrationVars

-----------------------------------------------------------------------------
(* Properties.                                                             *)

\* The rows that named an endpoint before the upgrade.
Origins(endpoint) ==
    {id \in DOMAIN old.proxies : Normal[old.proxies[id].endpoint] = endpoint}

\* Two rows had the same label and spelled one endpoint differently; or the
\* second was spelled as the first one, which is normalized before it, is then.
Collided ==
    \E i, j \in DOMAIN old.proxies :
        /\ i < j
        /\ old.proxies[i].protocol = old.proxies[j].protocol
        /\ Normal[old.proxies[i].endpoint]
              \in {old.proxies[j].endpoint, Normal[old.proxies[j].endpoint]}

\* After the upgrade there is one row for each endpoint there was.  It is one
\* of the rows that named it, none of them had a better status, it has the
\* links of all of them and no other, and it is https if one of them was.
\* The upgrade goes through exactly if no two rows with one label become equal
\* when they are normalized in their order: those it does not merge but fails
\* on, also when the second would have become another endpoint (upgrade).
UpgradeMerges ==
    /\ phase = "done" =>
          /\ EndpointKept(proxies)
          /\ \A id \in DOMAIN old.proxies :
                \E kept \in DOMAIN proxies : id \in Origins(proxies[kept].endpoint)
          /\ \A kept \in DOMAIN proxies :
                LET origins == Origins(proxies[kept].endpoint)
                IN  /\ kept \in origins
                    /\ \A id \in origins : StatusRank[old.proxies[id].status]
                                             <= StatusRank[proxies[kept].status]
                    /\ \A s \in Source : <<kept, s>> \in links
                          <=> \E id \in origins : <<id, s>> \in old.links
                    /\ proxies[kept].protocol = "https"
                          <=> \E id \in origins : old.proxies[id].protocol = "https"
    /\ phase = "done" => ~Collided
    /\ phase = "aborted" => Collided
=============================================================================
