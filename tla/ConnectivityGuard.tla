------------------------- MODULE ConnectivityGuard --------------------------
(***************************************************************************)
(* app/services/connectivity.py: a background task probes the check URL    *)
(* without a proxy every connectivity_check_interval seconds and caches    *)
(* the outcome; the checker workers read the cached value only.  The lock  *)
(* of _refresh_state admits one probe at a time.  The guard is modelled    *)
(* enabled (CONNECTIVITY_CHECK_ENABLED): with it disabled, available stays *)
(* TRUE and nothing here takes a step.                                     *)
(***************************************************************************)

VARIABLES
    net,        \* whether the check URL can be reached directly (environment)
    available,  \* self._available, the cached state
    probe       \* the probe in flight: what the network did since it started

guardVars == <<net, available, probe>>

GuardTypeOK ==
    /\ net \in BOOLEAN
    /\ available \in BOOLEAN
    /\ probe \in {"none", "clean", "disturbed"}

\* start() completes one probe before the checker workers exist.
GuardInit ==
    /\ net \in BOOLEAN
    /\ available = net
    /\ probe = "none"

-----------------------------------------------------------------------------
\* Environment: direct connectivity is lost or comes back at any time, also
\* while a probe is in flight.
NetChanges ==
    /\ net' = ~net
    /\ probe' = IF probe = "none" THEN "none" ELSE "disturbed"
    /\ UNCHANGED available

\* _probe_loop wakes up, takes the lock and sends the request.
ProbeStart ==
    /\ probe = "none"
    /\ probe' = "clean"
    /\ UNCHANGED <<net, available>>

\* Mutant: a failed probe does not take the cached state down.
ProbeEndSticky ==
    /\ probe # "none"
    /\ available' = (available \/ net)
    /\ probe' = "none"
    /\ UNCHANGED net

\* The request completes: with the network up or down throughout, the outcome
\* is the state of the network; one that changed in between may have cost the
\* request its answer even if it is back by now.
ProbeEnd ==
    /\ probe # "none"
    /\ \/ available' = net
       \/ probe = "disturbed" /\ available' = FALSE
    /\ probe' = "none"
    /\ UNCHANGED net

GuardStep == ProbeStart \/ ProbeEnd

=============================================================================
