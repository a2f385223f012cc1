----------------------------- MODULE MultiMain -----------------------------
(***************************************************************************)
(* Several mains in queue mode: the leader tracks waiting executions and   *)
(* recovers the queue, take-overs and step-downs start and stop both, and  *)
(* any main resumes an execution on a request.                             *)
(***************************************************************************)
EXTENDS QueuedExecutions

VARIABLES
  polls,      \* intervals of a main's wait tracker; one it lost sight of is "leaked"
  entries,    \* waitingExecutions of a main
  armed,      \* those whose timer is set
  recovers,   \* mains whose queue recovery timer is set
  saw,        \* rows in progress that a recovery under way has read
  unheard     \* history: leaders that nobody told to track or recover

trackerVars == <<polls, entries, armed>>
recoveryVars == <<recovers, saw>>
vars == <<electionVars, queueVars, trackerVars, recoveryVars, unheard>>

Init ==
  /\ ElectionInit /\ QueueInit
  /\ polls = [m \in Mains |-> IF m = First THEN {"own"} ELSE {}]
  /\ entries = [m \in Mains |-> {}] /\ armed = [m \in Mains |-> {}]
  /\ recovers = {} /\ saw = [m \in Mains |-> {}]
  /\ unheard = {}

-----------------------------------------------------------------------------
\* What leadership changes start and stop in a main.

\* startTracking: a new interval, and a query at once.
StartTracking(m) ==
  /\ polls' = [polls EXCEPT ![m] = {"own"} \cup (IF "own" \in @ THEN {"leaked"} ELSE @)]
  /\ UNCHANGED <<entries, armed>>

\* stopTracking: the last interval and the timers are cleared, the entries stay.
StopTracking(m) ==
  /\ polls' = [polls EXCEPT ![m] = @ \ {"own"}]
  /\ armed' = [armed EXCEPT ![m] = {}]
  /\ UNCHANGED entries

\* The handlers of its events are registered, requests and triggers reach it.
Serves(m) == phase[m] \notin {"down", "started"}

\* Handlers run within the event, if they are registered.
Hear(m) ==
  IF Serves(m) /\ m \in leads' /\ m \notin leads
    THEN StartTracking(m) /\ recovers' = recovers \cup {m} /\ unheard' = unheard \ {m}
  ELSE IF Serves(m) /\ m \in leads /\ m \notin leads'
    THEN StopTracking(m) /\ recovers' = recovers \ {m} /\ unheard' = unheard \ {m}
  ELSE /\ unheard' = IF m \in leads' THEN unheard \cup ({m} \ leads) ELSE unheard \ {m}
       /\ UNCHANGED <<trackerVars, recovers>>

Elect(m) == (Check(m) \/ Try(m)) /\ Hear(m) /\ UNCHANGED <<queueVars, saw>>

ElectFails(m) == TryFails(m) /\ Hear(m) /\ UNCHANGED <<queueVars, saw>>

\* MultiMainSetup.init, then WaitTracker.init, which looks at the role.
StartUp(m) ==
  /\ Boot(m) \/ BootFails(m)
  /\ IF m \in leads' THEN StartTracking(m) ELSE UNCHANGED trackerVars
  /\ UNCHANGED <<queueVars, recoveryVars, unheard>>

\* registerEventHandlers, and setupQueue, which recovers at once if it leads.
Serve(m) ==
  /\ Advance(m, "started", "up")
  /\ recovers' = IF m \in leads THEN recovers \cup {m} ELSE recovers
  /\ UNCHANGED <<key, leads, trying, lapsed, faults, queueVars, trackerVars, saw, unheard>>

\* ScalingService.stop and WaitTracker.stopTracking; what a recovery's cycle or a
\* check does later may start either again.
BeginToStop(m) ==
  /\ GetSignal(m)
  /\ StopTracking(m) /\ recovers' = recovers \ {m}
  /\ UNCHANGED <<queueVars, saw, unheard>>

Resign(m) == Shutdown(m) /\ Hear(m) /\ UNCHANGED <<queueVars, saw>>

\* Ended or crashed: it waited for its executions, or its time was over.
Die(m) ==
  /\ Exit(m) \/ Crash(m)
  /\ Abandon(m)
  /\ polls' = [polls EXCEPT ![m] = {}]
  /\ entries' = [entries EXCEPT ![m] = {}] /\ armed' = [armed EXCEPT ![m] = {}]
  /\ recovers' = recovers \ {m} /\ saw' = [saw EXCEPT ![m] = {}]
  /\ unheard' = unheard \ {m}

Vanish == Expire /\ UNCHANGED <<queueVars, trackerVars, recoveryVars, unheard>>

Lapse == MissRenewals /\ UNCHANGED <<queueVars, trackerVars, recoveryVars, unheard>>

-----------------------------------------------------------------------------
\* The wait tracker and the recovery of a main.

\* getWaitingExecutions: a timer for each waiting row that has no entry.
Track(m) ==
  LET found == {e \in Execs \ entries[m] : row[e] = "waiting"}
  IN  /\ polls[m] # {}
      /\ entries' = [entries EXCEPT ![m] = @ \cup found]
      /\ armed' = [armed EXCEPT ![m] = @ \cup found]
      /\ UNCHANGED <<electionVars, queueVars, polls, recoveryVars, unheard>>

\* startExecution: an attempt that does not get the row is dropped.
Fire(m, e) ==
  /\ e \in armed[m]
  /\ armed' = [armed EXCEPT ![m] = @ \ {e}]
  /\ entries' = [entries EXCEPT ![m] = @ \ {e}]
  /\ \/ \E a \in Attempts : Exec(a) = e /\ Resume(m, a)
     \/ row[e] # "waiting" /\ UNCHANGED queueVars
  /\ UNCHANGED <<electionVars, polls, recoveryVars, unheard>>

\* recoverFromQueue reads the rows in progress; a cycle without any ends there.
ReadRows(m) ==
  /\ m \in recovers /\ saw[m] = {}
  /\ saw' = [saw EXCEPT ![m] = {e \in Execs : row[e] \in InProgress}]
  /\ UNCHANGED <<electionVars, queueVars, trackerVars, recovers, unheard>>

\* Seeded fault: the timer is not set again.
MarkDanglingOnce(m) ==
  /\ saw[m] # {}
  /\ MarkAsCrashed(saw[m] \ Queued)
  /\ saw' = [saw EXCEPT ![m] = {}]
  /\ recovers' = recovers \ {m}
  /\ UNCHANGED <<electionVars, jobVars, trackerVars, unheard>>

\* Then the jobs, and marks the rows without one; the timer is set again, whether
\* or not m still leads.
MarkDangling(m) ==
  /\ saw[m] # {}
  /\ MarkAsCrashed(saw[m] \ Queued)
  /\ saw' = [saw EXCEPT ![m] = {}]
  /\ recovers' = recovers \cup {m}
  /\ UNCHANGED <<electionVars, jobVars, trackerVars, unheard>>

-----------------------------------------------------------------------------
\* A trigger starts an execution; a request to its resume URL may reach any main.
Arrive(m, a) ==
  /\ Serves(m)
  /\ Create(m, a) \/ Resume(m, a)
  /\ UNCHANGED <<electionVars, trackerVars, recoveryVars, unheard>>

Carry(a) ==
  /\ \/ AddJob(a) \/ TakeJob(a) \/ SetRunning(a) \/ Save(a) \/ GiveUp(a)
     \/ JobFinished(a) \/ SaveError(a)
  /\ UNCHANGED <<key, leads, trying, phase, lapsed, trackerVars, recoveryVars, unheard>>

Break(a) ==
  /\ AddJobFails(a) \/ Stall(a) \/ WorkerCrash(a)
  /\ UNCHANGED <<key, leads, trying, phase, lapsed, trackerVars, recoveryVars, unheard>>

Recover(m) == ReadRows(m) \/ MarkDangling(m)

Next ==
  \/ \E m \in Mains :
       \/ StartUp(m) \/ Elect(m) \/ ElectFails(m) \/ Serve(m)
       \/ BeginToStop(m) \/ Resign(m) \/ Die(m)
       \/ Track(m) \/ Recover(m)
       \/ \E e \in Execs : Fire(m, e)
       \/ \E a \in Attempts : Arrive(m, a)
  \/ \E a \in Attempts : Carry(a) \/ Break(a)
  \/ Lapse \/ Vanish

Spec == Init /\ [][Next]_vars

\* What goes on by itself, except for a recovery's cycles.
Onward ==
  \/ \E m \in Mains :
       \/ StartUp(m) \/ Elect(m) \/ Serve(m) \/ Track(m) \/ \E e \in Execs : Fire(m, e)
       \/ Resign(m) \/ (phase[m] \in {"stopping", "resigned"} /\ Die(m))
  \/ \E a \in Attempts : Carry(a)
  \/ Vanish

\* Mains are restarted, checks and timers recur, workers take jobs, Bull looks for
\* stalled ones, the key of a holder that is gone expires, and a shutdown ends.
Fairness == WF_vars(Onward) /\ WF_vars(\E m \in Mains : Recover(m))

FairSpec == Spec /\ Fairness

-----------------------------------------------------------------------------
TrackersTypeOK ==
  /\ polls \in [Mains -> SUBSET {"own", "leaked"}]
  /\ entries \in [Mains -> SUBSET Execs] /\ armed \in [Mains -> SUBSET Execs]
  /\ \A m \in Mains : armed[m] \subseteq entries[m]
  /\ recovers \subseteq Mains /\ saw \in [Mains -> SUBSET Execs] /\ unheard \subseteq leads

TypeOK == ElectionTypeOK /\ QueueTypeOK /\ TrackersTypeOK

\* What every step keeps.
IInv == ElectionInv /\ QueueInv /\ TrackersTypeOK

\* A main that had read the row of a failed job before may still overwrite it; no
\* recovery, late failure or second run does.
SuccessIsFinal ==
  [][\A e \in Execs : row[e] = "success" /\ row'[e] # "success" =>
       \E a \in Attempts : Exec(a) = e /\ stage[a] = "judged" /\ stage'[a] = "over"]_vars

\* Entries that a step-down left behind without a timer, and leaders that took over
\* between WaitTracker.init and the registration of handlers.
Stuck(m, e) == e \in entries[m] \ armed[m] \/ (m \in unheard /\ polls[m] = {})

\* Whatever main, worker or job is gone, an execution does not stay new or running,
\* and the next leader resumes it when it waits, unless it is stuck in one of these
\* two ways.
EveryExecutionEnds ==
  \A e \in Execs :
    row[e] # "absent" ~> \/ row[e] \in {"success", "error", "crashed"}
                         \/ row[e] = "waiting" /\ \E m \in leads : Stuck(m, e)
=============================================================================
