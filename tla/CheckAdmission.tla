--------------------------- MODULE CheckAdmission ---------------------------
(***************************************************************************)
(* What the checker job promises about admission, without its queue,       *)
(* reservations, workers and refills: a proxy is free, waits for a check   *)
(* or is being checked, it is in one of these once, and it passes through  *)
(* them in this order.  A shutdown or a crash forgets who waits and may    *)
(* cut checks short.                                                       *)
(***************************************************************************)
CONSTANT Proxy

VARIABLE phase

PhaseTypeOK == phase \in [Proxy -> {"free", "waiting", "checking"}]

PhaseInit == phase = [p \in Proxy |-> "free"]

\* A refill admits free proxies, any number of them at once.
Admit(ids) ==
    /\ \A p \in ids : phase[p] = "free"
    /\ phase' = [p \in Proxy |-> IF p \in ids THEN "waiting" ELSE phase[p]]

Begin(p) ==
    /\ phase[p] = "waiting"
    /\ phase' = [phase EXCEPT ![p] = "checking"]

\* Skipped: direct connectivity is down.
Skip(p) ==
    /\ phase[p] = "waiting"
    /\ phase' = [phase EXCEPT ![p] = "free"]

End(p) ==
    /\ phase[p] = "checking"
    /\ phase' = [phase EXCEPT ![p] = "free"]

\* The process stops: nobody waits any longer, the checks in going on last.
Abandon(going) ==
    /\ \A p \in going : phase[p] = "checking"
    /\ phase' = [p \in Proxy |-> IF p \in going THEN "checking" ELSE "free"]

PhaseNext ==
    \/ \E ids \in SUBSET Proxy : Admit(ids) \/ Abandon(ids)
    \/ \E p \in Proxy : Begin(p) \/ Skip(p) \/ End(p)

AdmissionSpec == PhaseInit /\ [][PhaseNext]_phase
=============================================================================
