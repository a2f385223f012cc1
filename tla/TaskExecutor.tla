---------------------------- MODULE TaskExecutor ----------------------------
(***************************************************************************)
(* The executor: claims due occurrences, arms a timer for each, takes the  *)
(* pre-dispatch mutex when the timer fires, runs the handler and records   *)
(* the outcome.  Runs on every main.                                       *)
(*                                                                         *)
(* A fire is one claimed task's passage through the executor of one        *)
(* process.  JavaScript runs to completion between awaits, so one action   *)
(* is the code between two awaits together with the statement that the     *)
(* later one commits.  The handler is ScheduleTriggerTaskHandler: it       *)
(* creates a workflow execution under the occurrence's deduplication key   *)
(* and reports the dispatch.                                               *)
(***************************************************************************)
EXTENDS ScheduledTaskStore

CONSTANT MaxDisruptions  \* bound on the disturbances counted by `disruptions`

ASSUME MaxDisruptionsIsNat == MaxDisruptions \in Nat

VARIABLES
  fires,        \* the executors' passages in progress, over all hosts
  tracked,      \* claimedTaskById: the epoch of the entry, 0 for no entry
  mode,         \* "up", "draining" (loops stopped), "stopped"
  executed,     \* an execution exists under the occurrence's deduplication key
  runs,         \* history: how often a handler was started on the occurrence
  disruptions   \* disturbances so far, see Disturb

(***************************************************************************)
(* claimed    the claim committed, its result has not resumed the tick     *)
(* armed      in claimedTaskById, with a pending timer                     *)
(* firing     the timer fired, the compare-and-set is in flight            *)
(* executing  the handler runs and has created nothing                     *)
(* created    the execution is committed, the handler has not resumed      *)
(* duplicate  the key was taken, the handler is about to return            *)
(* reported   the handler called report.dispatched()                       *)
(* returned   the handler returned, the outcome is not recorded            *)
(* threw      the handler threw, the outcome is not recorded               *)
(* releasing  a releaseClaim is in flight                                  *)
(***************************************************************************)
PreDispatch == {"claimed", "armed", "firing", "releasing"}
Handling == {"executing", "created", "duplicate", "reported"}
PostDispatch == Handling \cup {"returned", "threw"}

\* dispatchMark: not kicked off, kicked off, settled.
Marks == {"none", "inflight", "settled"}

Fires == [host : Hosts, id : Tasks, epoch : Nat, attempts : Nat,
          phase : PreDispatch \cup PostDispatch, mark : Marks]

executorVars == <<fires, tracked, mode, executed, runs>>

ExecutorInit ==
  /\ fires = {}
  /\ tracked = [h \in Hosts |-> [t \in Tasks |-> 0]]
  /\ mode = [h \in Hosts |-> "up"]
  /\ executed = [t \in Tasks |-> FALSE]
  /\ runs = [t \in Tasks |-> 0]
  /\ disruptions = 0

-----------------------------------------------------------------------------
Step(f, g) == fires' = (fires \ {f}) \cup {g}
End(f) == fires' = fires \ {f}
To(f, p) == [f EXCEPT !.phase = p]
FiresOf(h) == {f \in fires : f.host = h}
Forget(h) == tracked' = [tracked EXCEPT ![h] = [t \in Tasks |-> 0]]

\* Only so many steps may send a claim back without counting an attempt or
\* interrupt a process.
Disturb ==
  /\ disruptions < MaxDisruptions
  /\ disruptions' = disruptions + 1

-----------------------------------------------------------------------------
\* claimAndSchedule up to its await.  A batch is a series of such claims: rows
\* are independent of each other.
ClaimDueTasks(h, t) ==
  /\ mode[h] = "up"
  /\ Claimable(row[t])
  /\ row' = [row EXCEPT ![t] = ClaimedRow(row[t], h)]
  /\ fires' = fires \cup
       {[host |-> h, id |-> t, epoch |-> row[t].leaseEpoch + 1,
         attempts |-> row[t].attempts, phase |-> "claimed", mark |-> "none"]}
  /\ UNCHANGED <<tracked, mode, executed, runs, disruptions>>

ScheduleClaimed(f) ==
  /\ f.phase = "claimed"
  /\ mode[f.host] = "up"
  /\ tracked' = [tracked EXCEPT ![f.host][f.id] = f.epoch]
  /\ Step(f, To(f, "armed"))
  /\ UNCHANGED <<row, mode, executed, runs, disruptions>>

\* The tick was aborted: by shutdown, or by its timeout while the host is up.
HandBackClaim(f) ==
  /\ f.phase = "claimed"
  /\ IF mode[f.host] = "up" THEN Disturb ELSE UNCHANGED disruptions
  /\ Step(f, To(f, "releasing"))
  /\ UNCHANGED <<row, tracked, mode, executed, runs>>

ReleaseClaim(f) ==
  /\ f.phase = "releasing"
  /\ GuardedUpdate(f, ReleasedRow(row[f.id]))
  /\ End(f)
  /\ UNCHANGED <<tracked, mode, executed, runs, disruptions>>

\* The timer's callback drops the map's entry for the task id, whichever claim
\* put it there, and starts the fire.
TimerFires(f) ==
  /\ f.phase = "armed"
  /\ tracked' = [tracked EXCEPT ![f.host][f.id] = 0]
  /\ Step(f, To(f, "firing"))
  /\ UNCHANGED <<row, mode, executed, runs, disruptions>>

\* The task's type lost its handler: the claim is released, uncounted.
MissingHandler(f) ==
  /\ f.phase = "firing"
  /\ Disturb
  /\ Step(f, To(f, "releasing"))
  /\ UNCHANGED <<row, tracked, mode, executed, runs>>

BeginDispatch(f) ==
  /\ f.phase = "firing"
  /\ IF MutexFree(f)
       THEN /\ row' = [row EXCEPT ![f.id] = BegunRow(row[f.id])]
            /\ runs' = [runs EXCEPT ![f.id] = @ + 1]
            /\ Step(f, To(f, "executing"))
       ELSE End(f) /\ UNCHANGED <<row, runs>>
  /\ UNCHANGED <<tracked, mode, executed, disruptions>>

-----------------------------------------------------------------------------
\* The schedule trigger's handler.

\* Seeded fault: the dispatch is reported before the execution is created.
RunWorkflowReportingEarly(f) ==
  /\ f.phase = "executing"
  /\ Step(f, [f EXCEPT !.phase = "reported", !.mark = "inflight"])
  /\ UNCHANGED <<row, tracked, mode, executed, runs, disruptions>>

\* runWorkflow inserts the execution; the unique deduplication key refuses a
\* second one for the same occurrence, unless the first is still `new`: create
\* deletes that one and inserts its replacement.
RunWorkflow(f) ==
  /\ f.phase = "executing"
  /\ executed' = [executed EXCEPT ![f.id] = TRUE]
  /\ \/ Step(f, To(f, "created"))
     \/ executed[f.id] /\ Step(f, To(f, "duplicate"))
  /\ UNCHANGED <<row, tracked, mode, runs, disruptions>>

\* report.dispatched() kicks off the marker write; execute goes on.
ReportDispatched(f) ==
  /\ f.phase = "created"
  /\ Step(f, [f EXCEPT !.phase = "reported", !.mark = "inflight"])
  /\ UNCHANGED <<row, tracked, mode, executed, runs, disruptions>>

\* A clean return stamps the marker if the handler did not.
HandlerReturns(f) ==
  /\ f.phase \in {"duplicate", "reported"}
  /\ Step(f, [f EXCEPT !.phase = "returned",
                       !.mark = IF @ = "none" THEN "inflight" ELSE @])
  /\ UNCHANGED <<row, tracked, mode, executed, runs, disruptions>>

HandlerThrows(f) ==
  /\ f.phase \in Handling
  /\ Step(f, To(f, "threw"))
  /\ UNCHANGED <<row, tracked, mode, executed, runs, disruptions>>

-----------------------------------------------------------------------------
\* Recording the outcome.

MarkDispatched(f) ==
  /\ f.mark = "inflight"
  /\ GuardedUpdate(f, DispatchedRow(row[f.id]))
  /\ Step(f, [f EXCEPT !.mark = "settled"])
  /\ UNCHANGED <<tracked, mode, executed, runs, disruptions>>

\* A failed marker write is reported and swallowed.
MarkDispatchedRejects(f) ==
  /\ f.mark = "inflight"
  /\ Step(f, [f EXCEPT !.mark = "settled"])
  /\ UNCHANGED <<row, tracked, mode, executed, runs, disruptions>>

CompleteTask(f) ==
  /\ f.phase = "returned"
  /\ f.mark = "settled"
  /\ GuardedUpdate(f, SucceededRow(row[f.id]))
  /\ End(f)
  /\ UNCHANGED <<tracked, mode, executed, runs, disruptions>>

\* Seeded fault: the attempt that just failed is not counted.
LastAttemptOffByOne(attempts) == attempts >= MaxAttempts

LastAttempt(attempts) == attempts + 1 >= MaxAttempts

\* With attempts left the occurrence is retried; on the last one it is
\* completed if the handler had dispatched, and dead-lettered otherwise.
FailureOutcome(f) ==
  IF LastAttempt(f.attempts)
    THEN IF f.mark # "none" THEN SucceededRow(row[f.id]) ELSE FailedRow(row[f.id])
    ELSE RescheduledRow(row[f.id])

RecordFailure(f) ==
  /\ f.phase = "threw"
  /\ f.mark # "inflight"
  /\ GuardedUpdate(f, FailureOutcome(f))
  /\ End(f)
  /\ UNCHANGED <<tracked, mode, executed, runs, disruptions>>

\* A statement is refused and the fire ends there; the row is the reaper's.
StoreRejects(f) ==
  /\ \/ f.phase \in {"claimed", "releasing", "firing"}
     \/ f.phase \in {"returned", "threw"} /\ f.mark # "inflight"
  /\ End(f)
  /\ UNCHANGED <<row, tracked, mode, executed, runs, disruptions>>

\* The compare-and-set commits but its answer is lost, so no handler runs.
BeginDispatchUnanswered(f) ==
  /\ f.phase = "firing"
  /\ MutexFree(f)
  /\ row' = [row EXCEPT ![f.id] = BegunRow(row[f.id])]
  /\ End(f)
  /\ UNCHANGED <<tracked, mode, executed, runs, disruptions>>

-----------------------------------------------------------------------------
\* Shutdown.

\* stop(): every timer is cancelled and every tracked claim released.
StopExecutor(h) ==
  LET armed == {f \in FiresOf(h) : f.phase = "armed"}
      held == {f \in armed : tracked[h][f.id] = f.epoch}
  IN  /\ mode[h] = "draining"
      /\ mode' = [mode EXCEPT ![h] = "stopped"]
      /\ fires' = (fires \ armed) \cup {To(f, "releasing") : f \in held}
      /\ Forget(h)
      /\ UNCHANGED <<row, executed, runs, disruptions>>

ExecutorNext(f) ==
  \/ ScheduleClaimed(f) \/ HandBackClaim(f) \/ ReleaseClaim(f)
  \/ TimerFires(f) \/ MissingHandler(f) \/ BeginDispatch(f)
  \/ RunWorkflow(f) \/ ReportDispatched(f) \/ HandlerReturns(f)
  \/ HandlerThrows(f) \/ MarkDispatched(f) \/ MarkDispatchedRejects(f)
  \/ CompleteTask(f) \/ RecordFailure(f) \/ StoreRejects(f)
  \/ BeginDispatchUnanswered(f)
=============================================================================
