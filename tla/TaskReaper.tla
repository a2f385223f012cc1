----------------------------- MODULE TaskReaper -----------------------------
(***************************************************************************)
(* The reaper: on every main, a sweep reads the running rows whose lease   *)
(* expired (without locking them) and then decides row by row, so a row    *)
(* may change hands between the sweep's read and its write.                *)
(***************************************************************************)
EXTENDS TaskExecutor

VARIABLE sweep  \* per host: what the sweep in progress read and has not decided

Swept == [id : Tasks, epoch : Nat, attempts : Nat, dispatched : BOOLEAN]

ReaperInit == sweep = [h \in Hosts |-> {}]

Expired == {t \in Tasks : row[t].status = "running" /\ row[t].lease = "lapsed"}

FindExpiredLeases(h) ==
  /\ mode[h] = "up"
  /\ sweep[h] = {}
  /\ Expired # {}
  /\ sweep' = [sweep EXCEPT ![h] =
       {[id |-> t, epoch |-> row[t].leaseEpoch, attempts |-> row[t].attempts,
         dispatched |-> row[t].dispatchedAt] : t \in Expired}]
  /\ UNCHANGED <<row, executorVars, disruptions>>

\* The effect boundary comes first: a dispatched occurrence is completed,
\* another is reclaimed, or dead-lettered on its last attempt.
ReapOutcome(ref) ==
  IF ref.dispatched THEN SucceededRow(row[ref.id])
  ELSE IF LastAttempt(ref.attempts) THEN FailedRow(row[ref.id])
  ELSE ReclaimedRow(row[ref.id])

ReapRow(h, ref) ==
  /\ sweep' = [sweep EXCEPT ![h] = @ \ {ref}]
  /\ ReaperUpdate(ref, ref.dispatched, ReapOutcome(ref))
  /\ UNCHANGED <<executorVars, disruptions>>

\* The row's write throws; the sweep goes on with the next row.
SkipRow(h, ref) ==
  /\ Disturb
  /\ sweep' = [sweep EXCEPT ![h] = @ \ {ref}]
  /\ UNCHANGED <<row, executorVars>>

\* The pass timed out; the rows left are not touched.
AbortSweep(h) ==
  /\ sweep[h] # {}
  /\ Disturb
  /\ sweep' = [sweep EXCEPT ![h] = {}]
  /\ UNCHANGED <<row, executorVars>>

ReaperNext(h) ==
  \/ FindExpiredLeases(h)
  \/ \E ref \in sweep[h] : ReapRow(h, ref) \/ SkipRow(h, ref)
  \/ AbortSweep(h)
=============================================================================
