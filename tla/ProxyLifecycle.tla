--------------------------- MODULE ProxyLifecycle ---------------------------
(***************************************************************************)
(* The life of one row of the table "proxies" under checking: the counters *)
(* and the status that app/jobs/checker_job.py writes, as functions from   *)
(* row to row.  Wall-clock columns are reduced to what a comparison with   *)
(* the current time can tell: cooldown_until to {none, running, over},     *)
(* last_checked to "due for a recheck or not" (only a HEALTHY row is       *)
(* filtered on it) and updated_at to "older than 3 * check_timeout or not" *)
(* (only a CHECKING row is filtered on it).                                *)
(*                                                                         *)
(* A definition marked "Mutant" is a deliberately wrong form of the        *)
(* definition it precedes; no specification uses it.                       *)
(***************************************************************************)
EXTENDS Integers

CONSTANTS
    FailureThreshold,   \* settings.failure_threshold
    RemovalThreshold,   \* settings.dead_mark_removal_threshold
    MaxLevel            \* settings.cooldown_max_level

\* app/config.py declares the three with ge=1.
ASSUME ThresholdsAssumption ==
    /\ FailureThreshold \in Nat \ {0}
    /\ RemovalThreshold \in Nat \ {0}
    /\ MaxLevel \in Nat \ {0}

Status == {"NEW", "CHECKING", "HEALTHY", "DEGRADED", "DEAD", "DISABLED"}

Outcome == {"success", "failure", "auth"}

Row == [status   : Status,
        failures : Nat,         \* consecutive_failures
        marks    : Nat,         \* consecutive_dead_marks
        level    : Nat,         \* cooldown_level
        cooldown : {"none", "running", "over"},
        due      : BOOLEAN,     \* last_checked at least recheck_interval ago
        stale    : BOOLEAN,     \* updated_at more than 3 * check_timeout ago
        linked   : BOOLEAN]     \* linked to at least one enabled source

NewRow == [status |-> "NEW", failures |-> 0, marks |-> 0, level |-> 0,
           cooldown |-> "none", due |-> FALSE, stale |-> FALSE,
           linked |-> TRUE]

-----------------------------------------------------------------------------
(* What a refill selects: the four tiers.                                  *)

OutsideCooldown(row) == row.cooldown # "running"

\* Mutant: the tier of degraded rows is "not HEALTHY and not DEAD".
EligibleByExclusion(row) ==
    /\ row.linked
    /\ row.status # "CHECKING"
    /\ row.status \in {"HEALTHY", "DEAD"} => OutsideCooldown(row)
    /\ row.status = "HEALTHY" => row.due

Eligible(row) ==
    /\ row.linked
    /\ \/ row.status = "HEALTHY" /\ row.due /\ OutsideCooldown(row)
       \/ row.status \in {"NEW", "DEGRADED"}
       \/ row.status = "DEAD" /\ OutsideCooldown(row)

Stuck(row) == row.status = "CHECKING" /\ row.stale

-----------------------------------------------------------------------------
(* What passing time and the other jobs do to a row.                       *)

TimedOut(row) == [row EXCEPT !.stale = TRUE]
Touched(row) == [row EXCEPT !.stale = FALSE]
CooledDown(row) == [row EXCEPT !.cooldown = "over"]
BecameDue(row) == [row EXCEPT !.due = TRUE]
WithLink(row, linked) == [row EXCEPT !.linked = linked]

-----------------------------------------------------------------------------
(* What the checker writes.                                                *)

\* The ORM emits no UPDATE when the status is CHECKING already, so updated_at
\* keeps its age then.
MarkedChecking(row) ==
    [row EXCEPT !.status = "CHECKING",
                !.stale = row.status = "CHECKING" /\ row.stale]

\* Mutant: every discarded check ends in DEGRADED.
RevertedToDegraded(row, previousStatus) ==
    [row EXCEPT !.status = "DEGRADED", !.stale = FALSE]

\* Only the status of the target is restored, again without an UPDATE when it
\* is the status the row already has.
Reverted(row, previousStatus) ==
    [row EXCEPT !.status = previousStatus,
                !.stale = Stuck(row) /\ previousStatus = "CHECKING"]

\* Mutant: a recovered row starts again without failures.
RecoveredAfresh(row) ==
    [row EXCEPT !.status = "DEGRADED", !.failures = 0, !.stale = FALSE]

Recovered(row) == [row EXCEPT !.status = "DEGRADED", !.stale = FALSE]

RequiresAuth(row) ==
    [row EXCEPT !.status = "DISABLED", !.failures = row.failures + 1,
                !.due = FALSE, !.stale = FALSE]

\* Mutant: the dead marks outlive a success.
SucceededKeepingMarks(row) ==
    [row EXCEPT !.status = "HEALTHY", !.failures = 0,
                !.level = 0, !.cooldown = "none",
                !.due = FALSE, !.stale = FALSE]

Succeeded(row) ==
    [row EXCEPT !.status = "HEALTHY", !.failures = 0, !.marks = 0,
                !.level = 0, !.cooldown = "none",
                !.due = FALSE, !.stale = FALSE]

\* Mutant: the threshold is compared with the count before this failure.
ReachesDeadMarkLate(row) == row.failures >= FailureThreshold

ReachesDeadMark(row) == row.failures + 1 >= FailureThreshold

\* Mutant: the counter runs the wrong way.
DegradedCountingDown(row) ==
    [row EXCEPT !.status = "DEGRADED", !.failures = row.failures - 1,
                !.due = FALSE, !.stale = FALSE]

Degraded(row) ==
    [row EXCEPT !.status = "DEGRADED", !.failures = row.failures + 1,
                !.due = FALSE, !.stale = FALSE]

NextLevel(level) == IF level + 1 <= MaxLevel THEN level + 1 ELSE MaxLevel

DeadMarked(row) ==
    [row EXCEPT !.status = "DEAD", !.failures = row.failures + 1, !.marks = row.marks + 1,
                !.level = NextLevel(row.level), !.cooldown = "running",
                !.due = FALSE, !.stale = FALSE]

\* Mutant: removed one mark early.
RemovesEarly(row, outcome) ==
    /\ outcome = "failure"
    /\ ReachesDeadMark(row)
    /\ row.marks + 2 >= RemovalThreshold

\* _apply_result returns True: the row and its source links are deleted.
Removes(row, outcome) ==
    /\ outcome = "failure"
    /\ ReachesDeadMark(row)
    /\ row.marks + 1 >= RemovalThreshold

\* The row _apply_result leaves when it does not remove it.
Applied(row, outcome) ==
    CASE outcome = "auth"    -> RequiresAuth(row)
      [] outcome = "success" -> Succeeded(row)
      [] outcome = "failure" -> IF ReachesDeadMark(row) THEN DeadMarked(row)
                                                        ELSE Degraded(row)

-----------------------------------------------------------------------------
(* Properties of one row.                                                  *)

\* The counters of a row tell one story, whatever the order in which checks,
\* reverts and recoveries wrote it: a row in cooldown has dead marks and a
\* level that grows with them up to the maximum, each mark was paid for by a
\* failure at or above the threshold, a HEALTHY row carries nothing over from
\* earlier failures, and a DEAD row has at least one mark and fewer than the
\* number that removes it (_apply_result, _revert_check,
\* _recover_stuck_checking).
Coherent(row) ==
    /\ row.cooldown = "none" <=> row.marks = 0
    /\ row.level = (IF row.marks <= MaxLevel THEN row.marks ELSE MaxLevel)
    /\ row.marks < RemovalThreshold
    /\ row.marks > 0 => row.failures >= FailureThreshold + row.marks - 1
    /\ row.status \in {"HEALTHY", "NEW"} => row.failures = 0
    /\ row.status = "DEAD" => row.marks > 0
    /\ row.stale => row.status = "CHECKING"
=============================================================================
