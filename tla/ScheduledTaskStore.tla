------------------------- MODULE ScheduledTaskStore -------------------------
(***************************************************************************)
(* The scheduled_task table of the durable scheduler, as the statements of *)
(* ScheduledTaskRepository read and write it.  A row is one occurrence of  *)
(* a scheduled job.  Every statement here is a single guarded UPDATE, so   *)
(* each is one atomic change of `row`.  The insert of new occurrences and  *)
(* the new deadlines of a job's pending ones are in Materializer.          *)
(*                                                                         *)
(* Instants are abstracted to what the statements ask of them on the       *)
(* database clock: `lease` says whether leaseExpiresAt has passed, `due`   *)
(* whether runAt is within the claim's lookahead, `overdue` whether        *)
(* missedAfter has passed, and startedAt, dispatchedAt whether they are    *)
(* set.  The clock steps at the end of the module let each of them pass at *)
(* any moment, which covers every relation between lease length,           *)
(* lookahead, backoff and grace.                                           *)
(***************************************************************************)
EXTENDS Naturals

CONSTANTS
  Hosts,        \* the main instances, by host id
  Tasks,        \* occurrences recorded in the table
  None,         \* SQL NULL in claimedBy
  MaxAttempts   \* scheduled_task.maxAttempts

ASSUME NoneIsNoHost == None \notin Hosts
ASSUME MaxAttemptsIsPositive == MaxAttempts \in Nat \ {0}

VARIABLE row

\* No statement writes "cancelled"; retention would age such a row out.
Terminal == {"succeeded", "failed", "missed", "cancelled"}

\* "gone" stands for a row that a cascade or a purge deleted.
Statuses == {"pending", "running", "gone"} \cup Terminal

Columns == [status : Statuses,
            claimedBy : Hosts \cup {None},
            lease : {"none", "live", "lapsed"},
            leaseEpoch : Nat,
            attempts : Nat,
            startedAt : BOOLEAN,
            dispatchedAt : BOOLEAN,
            due : BOOLEAN,
            overdue : BOOLEAN]

\* CHK_scheduled_task_running_lease: a running row has a lease to expire.
Rows == {r \in Columns : r.status = "running" => r.lease # "none"}

\* A freshly materialized occurrence.
NewRow == [status |-> "pending", claimedBy |-> None, lease |-> "none",
           leaseEpoch |-> 0, attempts |-> 0, startedAt |-> FALSE,
           dispatchedAt |-> FALSE, due |-> FALSE, overdue |-> FALSE]

StoreInit == row = [t \in Tasks |-> NewRow]

-----------------------------------------------------------------------------
\* What each statement makes of the row it matches.

ClaimedRow(r, h) ==
  [r EXCEPT !.status = "running", !.claimedBy = h, !.lease = "live",
            !.leaseEpoch = @ + 1]

BegunRow(r) == [r EXCEPT !.startedAt = TRUE, !.lease = "live"]

DispatchedRow(r) == [r EXCEPT !.dispatchedAt = TRUE]

\* The row keeps its owner, its lease and its markers.
SucceededRow(r) == [r EXCEPT !.status = "succeeded"]

FailedRow(r) == [r EXCEPT !.status = "failed", !.attempts = @ + 1]

ReleasedRow(r) ==
  [r EXCEPT !.status = "pending", !.claimedBy = None, !.lease = "none",
            !.startedAt = FALSE, !.dispatchedAt = FALSE]

\* A failed attempt with attempts left: the attempt is counted and runAt is
\* pushed out by the backoff, so the row is not due.
RescheduledRow(r) ==
  [ReleasedRow(r) EXCEPT !.attempts = @ + 1, !.due = FALSE]

ReclaimedRow(r) == [RescheduledRow(r) EXCEPT !.leaseEpoch = @ + 1]

-----------------------------------------------------------------------------
\* The guards of the statements.

\* Seeded fault: the deadline is enforced on a row awaiting a retry as well.
ClaimableIgnoringAttempts(r) == r.status = "pending" /\ r.due /\ ~r.overdue

\* Seeded fault: a claim takes expired leases over by itself.
ClaimableTakingExpired(r) ==
  \/ r.status = "pending" /\ r.due
  \/ r.status = "running" /\ r.lease = "lapsed"

\* A row past its deadline is claimed only if it has been attempted.
Claimable(r) ==
  /\ r.status = "pending"
  /\ r.due
  /\ ~r.overdue \/ r.attempts > 0

\* Seeded fault: the lease epoch is left out of the guard.
OwnedIgnoringEpoch(c) ==
  row[c.id].status = "running" /\ row[c.id].claimedBy = c.host

\* Seeded fault: the guard does not ask for a running row.
OwnedIgnoringStatus(c) ==
  row[c.id].claimedBy = c.host /\ row[c.id].leaseEpoch = c.epoch

\* The claim `c` (host, id, epoch) still owns its row.
Owned(c) ==
  /\ row[c.id].status = "running"
  /\ row[c.id].claimedBy = c.host
  /\ row[c.id].leaseEpoch = c.epoch

\* The pre-dispatch mutex is free for the claim `c`.
MutexFree(c) == Owned(c) /\ ~row[c.id].startedAt

\* runGuardedUpdate: write `r` over the row the claim owns; no row is benign.
GuardedUpdate(c, r) ==
  row' = IF Owned(c) THEN [row EXCEPT ![c.id] = r] ELSE row

\* Seeded fault: the outcome is not fenced on the effect boundary.
ReapableIgnoringMarker(ref, dispatched) ==
  /\ row[ref.id].status = "running"
  /\ row[ref.id].leaseEpoch = ref.epoch
  /\ row[ref.id].lease = "lapsed"

\* runReaperUpdate's guard: the row is still running under the epoch of the
\* sweep, still lease-expired, and on the expected side of the effect boundary.
Reapable(ref, dispatched) ==
  /\ row[ref.id].status = "running"
  /\ row[ref.id].leaseEpoch = ref.epoch
  /\ row[ref.id].lease = "lapsed"
  /\ row[ref.id].dispatchedAt = dispatched

ReaperUpdate(ref, dispatched, r) ==
  row' = IF Reapable(ref, dispatched) THEN [row EXCEPT ![ref.id] = r] ELSE row

-----------------------------------------------------------------------------
\* Statements issued by the other passes: the materializer's catch-up run, the
\* provisioner and retention.

\* Seeded fault: a claimed occurrence is superseded as well.
SupersedableWhileRunning(r) == r.status \in {"pending", "running"}

Supersedable(r) == r.status = "pending"

\* updateToMissed: a catch-up run supersedes the older pending occurrences.
UpdateToMissed(t) ==
  /\ Supersedable(row[t])
  /\ row' = [row EXCEPT ![t].status = "missed"]

\* deletePendingByJobIds: an edited job withdraws its pending occurrences.
DeletePending(t) ==
  /\ row[t].status = "pending"
  /\ row' = [row EXCEPT ![t].status = "gone"]

\* Deleting a job cascades to its occurrences, whatever their status.
DeleteJob(t) ==
  /\ row[t].status # "gone"
  /\ row' = [row EXCEPT ![t].status = "gone"]

\* deleteFinishedOlderThan: only finished rows age out.
DeleteFinished(t) ==
  /\ row[t].status \in Terminal
  /\ row' = [row EXCEPT ![t].status = "gone"]

\* retireMissedPending: past its deadline and never attempted.
RetireMissedPending(t) ==
  /\ row[t].status = "pending"
  /\ row[t].overdue
  /\ row[t].attempts = 0
  /\ row' = [row EXCEPT ![t].status = "missed"]

-----------------------------------------------------------------------------
\* The database clock reaches the instants a row carries.

BecomesDue(t) ==
  /\ row[t].status = "pending"
  /\ ~row[t].due
  /\ row' = [row EXCEPT ![t].due = TRUE]

\* missedAfter is never before runAt; a retry's runAt may be past it.
DeadlinePasses(t) ==
  /\ row[t].status \in {"pending", "running"}
  /\ row[t].due
  /\ ~row[t].overdue
  /\ row' = [row EXCEPT ![t].overdue = TRUE]

LeaseLapses(t) ==
  /\ row[t].status = "running"
  /\ row[t].lease = "live"
  /\ row' = [row EXCEPT ![t].lease = "lapsed"]
=============================================================================
