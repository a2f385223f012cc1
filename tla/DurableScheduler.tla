-------------------------- MODULE DurableScheduler --------------------------
(***************************************************************************)
(* The durable scheduler of a multi-main deployment: executors and reapers *)
(* of all hosts over one task table, with processes that stop, restart and *)
(* crash, and the other passes that write the table.                       *)
(***************************************************************************)
EXTENDS TaskReaper

vars == <<row, fires, tracked, mode, executed, runs, disruptions, sweep>>

Init == StoreInit /\ ExecutorInit /\ ReaperInit

-----------------------------------------------------------------------------
\* Processes.

\* Scheduler.stop(): the loops stop first and abort their passes.
StopLoops(h) ==
  /\ mode[h] = "up"
  /\ Disturb
  /\ mode' = [mode EXCEPT ![h] = "draining"]
  /\ sweep' = [sweep EXCEPT ![h] = {}]
  /\ UNCHANGED <<row, fires, tracked, executed, runs>>

\* A new process takes over the host id; the old one's memory is gone.
NewProcess(h) ==
  /\ mode' = [mode EXCEPT ![h] = "up"]
  /\ fires' = fires \ FiresOf(h)
  /\ Forget(h)
  /\ sweep' = [sweep EXCEPT ![h] = {}]
  /\ UNCHANGED <<row, executed, runs>>

Restart(h) == mode[h] = "stopped" /\ NewProcess(h) /\ UNCHANGED disruptions

Crash(h) == Disturb /\ NewProcess(h)

-----------------------------------------------------------------------------
\* The passes that only write the table, and its clock.
RetireStale(t) ==
  /\ \E h \in Hosts : mode[h] = "up"
  /\ RetireMissedPending(t)

\* A statement on the table that no process remembers.
TableOnly(A) == A /\ UNCHANGED <<executorVars, disruptions, sweep>>

TableNext(t) ==
  TableOnly(\/ RetireStale(t)
            \/ UpdateToMissed(t) \/ DeletePending(t)
            \/ DeleteJob(t) \/ DeleteFinished(t)
            \/ BecomesDue(t) \/ DeadlinePasses(t) \/ LeaseLapses(t))

Next ==
  \/ \E h \in Hosts, t \in Tasks : ClaimDueTasks(h, t) /\ UNCHANGED sweep
  \/ \E f \in fires : ExecutorNext(f) /\ UNCHANGED sweep
  \/ \E h \in Hosts : StopExecutor(h) /\ UNCHANGED sweep
  \/ \E h \in Hosts : ReaperNext(h)
  \/ \E h \in Hosts : StopLoops(h) \/ Restart(h) \/ Crash(h)
  \/ \E t \in Tasks : TableNext(t)

Spec == Init /\ [][Next]_vars

-----------------------------------------------------------------------------
\* Fairness: the clock advances, the driver loops keep ticking on a host that
\* is up, and a stopped process is replaced.  Nothing is assumed of handlers,
\* timers or outcome writes.
Fairness ==
  /\ \A t \in Tasks :
       /\ WF_vars(TableOnly(BecomesDue(t)))
       /\ WF_vars(TableOnly(LeaseLapses(t)))
       /\ WF_vars(TableOnly(RetireStale(t)))
       /\ WF_vars(\E h \in Hosts : ClaimDueTasks(h, t) /\ UNCHANGED sweep)
  /\ \A h \in Hosts :
       /\ WF_vars(FindExpiredLeases(h))
       /\ WF_vars(\E ref \in sweep[h] : ReapRow(h, ref))
       /\ WF_vars(StopExecutor(h) /\ UNCHANGED sweep)
       /\ WF_vars(Restart(h))

FairSpec == Spec /\ Fairness

-----------------------------------------------------------------------------
TypeOK ==
  /\ row \in [Tasks -> Rows]
  /\ fires \subseteq Fires
  /\ tracked \in [Hosts -> [Tasks -> Nat]]
  /\ mode \in [Hosts -> {"up", "draining", "stopped"}]
  /\ executed \in [Tasks -> BOOLEAN]
  /\ runs \in [Tasks -> Nat]
  /\ disruptions \in 0..MaxDisruptions
  /\ sweep \in [Hosts -> SUBSET Swept]

\* The inductive invariant, part by part.  A pending row is clean and, like a
\* running one, has attempts left; every handler start but the current lease's
\* has been counted; a set marker means the execution exists.
RowsConsistent ==
  \A t \in Tasks :
    /\ runs[t] <= MaxAttempts
    /\ row[t].status = "pending" => ~row[t].startedAt /\ ~row[t].dispatchedAt
    /\ row[t].status \in {"pending", "running"} =>
         /\ row[t].attempts < MaxAttempts
         /\ runs[t] <= row[t].attempts + (IF row[t].startedAt THEN 1 ELSE 0)
    /\ row[t].dispatchedAt \/ row[t].status = "succeeded" => executed[t]
    /\ row[t].status = "failed" =>
         row[t].attempts = MaxAttempts /\ ~row[t].dispatchedAt

\* While a claim owns its row, what its fire remembers agrees with the row:
\* the attempts it decides the outcome from, and the marker it may have sent.
OwnerSeesTheRow ==
  \A f \in fires : Owned(f) =>
    /\ f.attempts = row[f.id].attempts
    /\ row[f.id].startedAt <=> f.phase \in PostDispatch
    /\ row[f.id].dispatchedAt => f.mark # "none"

FiresConsistent ==
  \A f \in fires :
    /\ f.epoch <= row[f.id].leaseEpoch
    /\ f.mark # "none" => f.phase \in PostDispatch
    /\ f.phase \in PostDispatch => runs[f.id] > 0
    /\ f.phase \in {"reported", "returned"} => f.mark # "none"
    /\ f.mark # "none" \/ f.phase \in {"created", "duplicate"} => executed[f.id]

\* A claim bumps the epoch, so the task and the epoch identify the fire.
ClaimsUnique ==
  \A f, g \in fires : f.id = g.id /\ f.epoch = g.epoch => f = g

\* What a sweep read is old news only if the epoch has moved on.
SweepsConsistent ==
  \A h \in Hosts : \A ref \in sweep[h] :
    /\ ref.epoch <= row[ref.id].leaseEpoch
    /\ row[ref.id].status = "running" /\ row[ref.id].leaseEpoch = ref.epoch =>
         row[ref.id].attempts = ref.attempts

IInv == /\ TypeOK
        /\ RowsConsistent
        /\ OwnerSeesTheRow
        /\ FiresConsistent
        /\ ClaimsUnique
        /\ SweepsConsistent

\* Every start of a handler uses up an attempt, so no interleaving of late
\* fires, lapsed leases, retries, reclaims, crashes and restarts starts the
\* handler of one occurrence more than maxAttempts times.
RunsWithinAttempts == \A t \in Tasks : runs[t] <= MaxAttempts

\* Outcomes are truthful.  A dead-lettered occurrence used all its attempts and
\* was never marked dispatched: neither a late marker write nor a reaper acting
\* on what it read before the marker landed records work that happened as a
\* failure.  One recorded as succeeded has an execution, whoever recorded it: the
\* fire that ran the handler, a later redelivery, or the reaper.
HonestOutcomes ==
  \A t \in Tasks :
    /\ row[t].status = "failed" =>
         row[t].attempts = MaxAttempts /\ ~row[t].dispatchedAt
    /\ row[t].status = "succeeded" => executed[t]

\* A finished occurrence is never reopened or re-recorded: no stale fire,
\* reaper or late catch-up run changes an outcome, only retention removes it.
OutcomesAreFinal ==
  [][\A t \in Tasks : row[t].status \in Terminal =>
       row'[t] = row[t] \/ row'[t].status = "gone"]_row

\* The fencing token never goes back, and a row under a lease only changes
\* hands through pending: no owner is replaced while it owns the row.
OwnersAreFenced ==
  [][\A t \in Tasks :
       /\ row'[t].leaseEpoch >= row[t].leaseEpoch
       /\ row[t].status = "running" /\ row'[t].status = "running" =>
            /\ row'[t].claimedBy = row[t].claimedBy
            /\ row'[t].leaseEpoch = row[t].leaseEpoch]_row

\* A live lease protects the run: until it lapses, only the fire that owns it
\* ends it, or the deletion of its job.  No stale fire of the same host, hasty
\* reaper or catch-up run takes a row from under a handler.
LiveLeasesAreRespected ==
  [][\A t \in Tasks :
       row[t].status = "running" /\ row[t].lease = "live"
         /\ row'[t].status \notin {"running", "gone"} =>
       \E f \in fires \ fires' :
         f.id = t /\ f.host = row[t].claimedBy /\ f.epoch = row[t].leaseEpoch]_vars

\* Every occurrence is eventually settled, whatever the handlers and the
\* processes do: leases lapse, the reaper hands the row on or gives it up.
EventuallySettled ==
  \A t \in Tasks : <>(row[t].status \in Terminal \cup {"gone"})

-----------------------------------------------------------------------------
\* What the scheduler promises of an occurrence: the abstract outcome is open
\* while the row is pending or running, under any lease.
Lifecycle == INSTANCE OccurrenceLifecycle WITH
  Occurrences <- Tasks,
  MaxTries <- MaxAttempts,
  outcome <- [t \in Tasks |-> IF row[t].status \in {"pending", "running"}
                                THEN "open" ELSE row[t].status],
  tries <- [t \in Tasks |-> row[t].attempts],
  starts <- runs,
  done <- executed

\* The scheduler with all its hosts implements the occurrence's lifecycle:
\* claims, leases, fences, handovers and processes that come and go are
\* invisible, and what is visible happens only in the order promised.
ImplementsLifecycle == Lifecycle!Spec
=============================================================================
