------------------------- MODULE RegularExecutions -------------------------
(***************************************************************************)
(* The life of executions in regular mode: WorkflowRunner.run with the     *)
(* save hook, stop and delete requests, the wait tracker, shutdown, crash  *)
(* and the two recoveries of a start, which run beside the first requests, *)
(* around the rows they share.                                             *)
(*                                                                         *)
(* One action is the code between two awaits, or one statement of the      *)
(* database.                                                               *)
(***************************************************************************)
EXTENDS ActiveExecutions

VARIABLES
  row,        \* status of an execution's row
  at,         \* where an attempt's run stands
  timed,      \* attempts whose timeout timer is set
  giveUp,     \* recoveries that threw and will mark the row crashed
  timers,     \* executions the wait tracker has a timer for
  stopping,   \* a stop request in progress, and what it found
  stopped,    \* history: what a confirmed stop had found
  deleting,   \* a delete request in progress
  phase,      \* of the process
  startup,    \* where the recoveries of this start stand
  unfinished, \* executions crash recovery found and did not look at yet
  amending,   \* what it is about to write for the one it looked at
  amended,    \* the one it wrote for, whose hooks are still to run
  leftovers,  \* rows the recovery query found and did not start yet
  slept,      \* history: executions put to wait in this process
  torn,       \* history: those a recovery took up beside an attempt of this process
  events      \* what MaxEvents bounds, so far

history == <<slept, torn>>
runVars == <<row, at, timed, giveUp, history>>
requestVars == <<stopping, stopped, deleting>>
startVars == <<startup, unfinished, amending, amended, leftovers>>
processVars == <<timers, phase, startVars>>
vars == <<queueVars, entryVars, runVars, requestVars, processVars, events>>

Statuses == {"absent", "new", "running", "waiting", "success", "error", "canceled", "crashed"}

(***************************************************************************)
(* idle        not called                                                  *)
(* created     the row exists; about to ask for a slot                     *)
(* queued      awaiting the slot                                           *)
(* taken       a recovery that claimed its row                             *)
(* claimed     the row is running                                          *)
(* registered  entered in the map; credentials and static data are read    *)
(* launching   setRunning returned; the workflow is about to start         *)
(* executing   nodes run                                                   *)
(* waiting     a node put the execution to wait                            *)
(* saved       the save hook is over                                       *)
(* failing     threw before the workflow started; the row is still to save *)
(* done        returned, or ended with its process                         *)
(***************************************************************************)
Places == {"idle", "created", "queued", "taken", "claimed", "registered", "launching",
           "executing", "waiting", "saved", "failing", "done"}

Init ==
  /\ QueueInit /\ NoEntries
  /\ row = [e \in Execs |-> "absent"]
  /\ at = [a \in Attempts |-> "idle"]
  /\ timed = {} /\ giveUp = {} /\ slept = {} /\ torn = {}
  /\ timers = {} /\ phase = "up" /\ startup = "unread"
  /\ unfinished = {} /\ amending = [e \in Execs |-> "no"] /\ amended = {} /\ leftovers = {}
  /\ stopping = [e \in Execs |-> "no"]
  /\ stopped = [e \in Execs |-> "no"]
  /\ deleting = [e \in Execs |-> "no"]
  /\ events = 0

\* The wait tracker, the webhook routes and the schedulers are up before the two
\* recoveries of a start are over.
Serving == phase = "up"
Spend == events < MaxEvents /\ events' = events + 1
Go(a, p) == at' = [at EXCEPT ![a] = p]
Step(a, from, to) == at[a] = from /\ Go(a, to)

\* Attempts of a kind are used in turn.
InTurn(a) ==
  \A b \in Attempts : Exec(b) = Exec(a) /\ Kind(b) = Kind(a) /\ b[3] < a[3] => at[b] # "idle"

OnTheirWay == {a \in Attempts : at[a] \notin {"idle", "done"}}

\* Workflows whose promise is pending: only these can be cancelled.
Pending == {a \in Attempts : at[a] \in {"executing", "waiting", "saved"}}

\* Attempts whose claim or work is under way.
Working(e) ==
  {a \in Attempts : Exec(a) = e /\ at[a] \notin {"idle", "created", "queued", "saved", "done"}}

\* An update by id alone touches whatever status the row has.
SetRow(e, s) == row' = [row EXCEPT ![e] = IF @ = "absent" THEN @ ELSE s]

-----------------------------------------------------------------------------
\* WorkflowRunner.run and ActiveExecutions.add.

Create(a) ==
  /\ Kind(a) = "fresh" /\ Serving
  /\ IF startup = "over" THEN UNCHANGED events ELSE Exec(a) \in Watched /\ Spend
  /\ Step(a, "idle", "created")
  /\ row' = [row EXCEPT ![Exec(a)] = "new"]
  /\ UNCHANGED <<queueVars, entryVars, timed, giveUp, history, requestVars, processVars>>

\* A timer of the wait tracker fires; a missing or finished row is refused.
ResumeByTimer(a) ==
  LET e == Exec(a)
  IN  /\ Kind(a) = "resume" /\ at[a] = "idle" /\ Serving /\ e \in timers
      /\ Spend
      /\ timers' = timers \ {e}
      /\ IF row[e] \in {"absent", "success"} THEN UNCHANGED at ELSE Go(a, "created")
      /\ UNCHANGED <<queueVars, entryVars, row, timed, giveUp, history, requestVars, phase,
                     startVars>>

\* A request to the execution's resume URL.
ResumeByWebhook(a) ==
  /\ Kind(a) = "resume" /\ Serving /\ row[Exec(a)] = "waiting"
  /\ Spend
  /\ Step(a, "idle", "created")
  /\ UNCHANGED <<queueVars, entryVars, row, timed, giveUp, history, requestVars, processVars>>

Reserve(a) ==
  /\ Step(a, "created", "queued")
  /\ Throttle(a)
  /\ UNCHANGED <<entryVars, row, timed, giveUp, history, requestVars, processVars, events>>

Expected(a) == IF Kind(a) = "resume" THEN "waiting" ELSE "new"
Started(a) == IF Kind(a) = "recover" THEN "taken" ELSE "claimed"

\* A recovery that claims what its first attempt still waits for, and any claim of
\* what crash recovery is about to write.
Tears(a) ==
  \/ Kind(a) = "recover" /\ at[Fresh(Exec(a))] \in {"created", "queued"}
  \/ amending[Exec(a)] # "no"

\* Seeded fault: an existing row is claimed whatever its status.
ClaimAnyStatus(a) ==
  /\ a \in granted /\ Step(a, "queued", Started(a))
  /\ SetRow(Exec(a), "running")
  /\ reserved' = reserved \cup {a}
  /\ torn' = IF Tears(a) THEN torn \cup {Exec(a)} ELSE torn
  /\ UNCHANGED <<queueVars, enabled, active, cancelled, hooking>>
  /\ UNCHANGED <<timed, giveUp, slept, requestVars, processVars, events>>

\* The slot is there.  A new row is set running; an existing one is claimed if it
\* still has the expected status, and otherwise the slot is given back.
Claim(a) ==
  /\ a \in granted
  /\ \/ /\ Kind(a) = "fresh" \/ row[Exec(a)] = Expected(a)
        /\ Step(a, "queued", Started(a))
        /\ SetRow(Exec(a), "running")
        /\ reserved' = reserved \cup {a}
        /\ torn' = IF Tears(a) THEN torn \cup {Exec(a)} ELSE torn
        /\ UNCHANGED queueVars
     \/ /\ Kind(a) # "fresh" /\ row[Exec(a)] # Expected(a)
        /\ Step(a, "queued", "done")
        /\ GiveBack
        /\ UNCHANGED <<reserved, row, torn>>
  /\ UNCHANGED <<enabled, active, cancelled, hooking>>
  /\ UNCHANGED <<timed, giveUp, slept, requestVars, processVars, events>>

\* setRunning, by id alone: a recovery calls it once more, and every attempt does
\* before its workflow starts.
SetRunning(a) ==
  /\ Step(a, "taken", "claimed") \/ Step(a, "registered", "launching")
  /\ SetRow(Exec(a), "running")
  /\ UNCHANGED <<queueVars, entryVars, timed, giveUp, history, requestVars, processVars, events>>

Enter(a) ==
  /\ Step(a, "claimed", "registered")
  /\ Register(a)
  /\ UNCHANGED <<row, timed, giveUp, history, requestVars, processVars, events>>

\* attachResponsePromise finds no entry: the run ends before the workflow starts.
NoEntryToRespond(a) ==
  /\ Kind(a) # "recover" /\ ~Attached(Exec(a))
  /\ Step(a, "registered", "done")
  /\ UNCHANGED <<queueVars, entryVars, row, timed, giveUp, history, requestVars, processVars,
                 events>>

\* The save hook: the row takes the outcome unless it is canceled, or goes when
\* the workflow's settings do not keep such executions.
SaveRow(e, s) ==
  \/ row' = [row EXCEPT ![e] = IF @ \in {"absent", "canceled"} THEN @ ELSE s]
  \/ s # "waiting" /\ row' = [row EXCEPT ![e] = "absent"]

\* failExecution: credentials are refused, or the workflow has issues.
FailCheck(a) ==
  /\ Step(a, "registered", "saved") \/ Step(a, "launching", "saved")
  /\ SaveRow(Exec(a), "error")
  /\ UNCHANGED <<queueVars, entryVars, timed, giveUp, history, requestVars, processVars, events>>

GivesUp(a) == giveUp' = giveUp \cup (IF Kind(a) = "recover" THEN {a} ELSE {})

\* The workflow runs before it is attached: without an entry, attaching throws
\* and leaves it running.
Launch(a) ==
  LET e == Exec(a)
  IN  /\ Step(a, "launching", "executing")
      /\ IF Attached(e)
           THEN /\ active' = [active EXCEPT ![e].wf = a]
                /\ timed' = IF e \in Watched THEN timed \cup {a} ELSE timed
                /\ UNCHANGED giveUp
           ELSE GivesUp(a) /\ UNCHANGED <<active, timed>>
      /\ UNCHANGED <<queueVars, enabled, reserved, cancelled, hooking>>
      /\ UNCHANGED <<row, history, requestVars, processVars, events>>

\* processError, when preparing the workflow throws: finalized first, then saved.
LaunchFails(a) ==
  /\ Step(a, "launching", "failing")
  /\ Finalize(Exec(a))
  /\ GivesUp(a)
  /\ UNCHANGED <<row, timed, history, requestVars, processVars, events>>

SaveFailure(a) ==
  /\ Step(a, "failing", "done")
  /\ SaveRow(Exec(a), "error")
  /\ UNCHANGED <<queueVars, entryVars, timed, giveUp, history, requestVars, processVars, events>>

-----------------------------------------------------------------------------
\* The engine and its hooks.

\* putExecutionToWait marks the id's entry; without one the node throws.
PutToWait(a) ==
  LET e == Exec(a)
  IN  /\ e \in Watched /\ Attached(e)
      /\ Step(a, "executing", "waiting")
      /\ active' = [active EXCEPT ![e].status = "waiting"]
      /\ slept' = slept \cup {e}
      /\ UNCHANGED <<queueVars, enabled, reserved, cancelled, hooking>>
      /\ UNCHANGED <<row, timed, giveUp, torn, requestVars, processVars, events>>

\* Seeded fault: the save does not ask whether the workflow or the row was canceled.
SaveOverCanceled(a) ==
  /\ \/ Step(a, "executing", "saved") /\ \E s \in {"success", "error"} : SetRow(Exec(a), s)
     \/ Step(a, "waiting", "saved") /\ SetRow(Exec(a), "waiting")
  /\ UNCHANGED <<queueVars, entryVars, timed, giveUp, history, requestVars, processVars, events>>

\* The nodes are done and the hook saves; a cancelled workflow does not save again.
Save(a) ==
  /\ \/ /\ Step(a, "executing", "saved")
        /\ a \notin cancelled
        /\ \E s \in {"success", "error"} : SaveRow(Exec(a), s)
     \/ /\ Step(a, "waiting", "saved")
        /\ a \notin cancelled
        /\ SaveRow(Exec(a), "waiting")
     \/ /\ Step(a, "executing", "saved") \/ Step(a, "waiting", "saved")
        /\ a \in cancelled
        /\ UNCHANGED row
  /\ UNCHANGED <<queueVars, entryVars, timed, giveUp, history, requestVars, processVars, events>>

\* The hook that the cancellation called.
SaveCanceled(a) ==
  /\ a \in hooking
  /\ hooking' = hooking \ {a}
  /\ SaveRow(Exec(a), "canceled")
  /\ UNCHANGED <<queueVars, enabled, reserved, active, cancelled>>
  /\ UNCHANGED <<at, timed, giveUp, history, requestVars, processVars, events>>

\* The workflow's promise settles: the timer is cleared, the entry finalized.
End(a) ==
  /\ Step(a, "saved", "done")
  /\ timed' = timed \ {a}
  /\ Finalize(Exec(a))
  /\ UNCHANGED <<row, giveUp, history, requestVars, processVars, events>>

TimeOut(a) ==
  /\ a \in timed
  /\ timed' = timed \ {a}
  /\ StopEntry(Exec(a), Pending)
  /\ UNCHANGED <<row, at, giveUp, history, requestVars, processVars, events>>

\* Seeded fault: the row is marked crashed whatever it says.
MarkUnstartableAlways(a) ==
  /\ a \in giveUp
  /\ giveUp' = giveUp \ {a}
  /\ SetRow(Exec(a), "crashed")
  /\ UNCHANGED <<queueVars, entryVars, at, timed, history, requestVars, processVars, events>>

\* crashUnstartableExecution, after the recovery's run() rejected.
MarkUnstartable(a) ==
  /\ a \in giveUp
  /\ giveUp' = giveUp \ {a}
  /\ row' = [row EXCEPT ![Exec(a)] = IF @ \in {"new", "running"} THEN "crashed" ELSE @]
  /\ UNCHANGED <<queueVars, entryVars, at, timed, history, requestVars, processVars, events>>

-----------------------------------------------------------------------------
\* ExecutionService: stop and delete.

StopRequest(e) ==
  /\ Serving /\ stopping[e] = "no" /\ row[e] \in {"new", "waiting", "running"}
  /\ Spend
  /\ stopping' = [stopping EXCEPT ![e] = "read"]
  /\ UNCHANGED <<queueVars, entryVars, runVars, stopped, deleting, processVars>>

\* The execution's attempts on their way.
InFlight(e) == {a \in OnTheirWay : Exec(a) = e}

\* The stop reaches the execution's only attempt: in the queue and never started, or
\* running with its workflow attached; and no recovery has taken it up or may do so.
Hits(e) ==
  /\ Cardinality(InFlight(e)) = 1
  /\ IF IsQueued(e) THEN row[e] = "new" ELSE ToCancel(e, Pending) # {}
  /\ startup = "over" /\ e \notin leftovers \cup torn

\* What the stop finds once its read has returned: the id queued, an entry to
\* stop, a timer, or nothing.
StopInMemory(e) ==
  /\ stopping[e] = "read"
  /\ IF IsQueued(e)
       THEN Unqueue(e) /\ UNCHANGED <<entryVars, timers>>
       ELSE StopEntry(e, Pending) /\ timers' = timers \ {e}
  /\ stopping' = [stopping EXCEPT ![e] = IF Hits(e) THEN "caught" ELSE "missed"]
  /\ UNCHANGED <<runVars, stopped, deleting, phase, startVars, events>>

\* stopBeforeRun, stopDuringRun: the row is canceled whatever it says by now.
StopInRow(e) ==
  /\ stopping[e] \in {"caught", "missed"}
  /\ SetRow(e, "canceled")
  /\ stopped' = [stopped EXCEPT ![e] = IF row[e] = "absent" THEN @ ELSE stopping[e]]
  /\ stopping' = [stopping EXCEPT ![e] = "no"]
  /\ UNCHANGED <<queueVars, entryVars, at, timed, giveUp, history, deleting, processVars, events>>

DeleteRequest(e) ==
  /\ Serving /\ deleting[e] = "no" /\ row[e] \notin {"absent", "running"}
  /\ Spend
  /\ deleting' = [deleting EXCEPT ![e] = IF row[e] = "new" THEN "queued" ELSE "row"]
  /\ UNCHANGED <<queueVars, entryVars, runVars, stopping, stopped, processVars>>

DeleteFromQueue(e) ==
  /\ deleting[e] = "queued"
  /\ Unqueue(e)
  /\ deleting' = [deleting EXCEPT ![e] = "row"]
  /\ UNCHANGED <<entryVars, runVars, stopping, stopped, processVars, events>>

DeleteRow(e) ==
  /\ deleting[e] = "row"
  /\ row' = [row EXCEPT ![e] = "absent"]
  /\ deleting' = [deleting EXCEPT ![e] = "no"]
  /\ UNCHANGED <<queueVars, entryVars, at, timed, giveUp, history, stopping, stopped, processVars,
                 events>>

-----------------------------------------------------------------------------
\* The process.

\* getWaitingExecutions: a timer for a waiting row that has none.
Track(e) ==
  /\ Serving /\ row[e] = "waiting" /\ e \notin timers
  /\ timers' = timers \cup {e}
  /\ UNCHANGED <<queueVars, entryVars, runVars, requestVars, phase, startVars, events>>

\* stopProcess: tracking stops and ActiveExecutions shuts down.
Stop ==
  /\ Serving /\ Spend
  /\ phase' = "stopping"
  /\ ShutDown
  /\ UNCHANGED <<runVars, requestVars, timers, startVars>>

\* The process ends: by a crash at any moment, or after the shutdown.
Crash ==
  /\ phase # "down"
  /\ IF phase = "stopping" THEN UNCHANGED events ELSE Spend
  /\ Forget
  /\ at' = [a \in Attempts |-> IF at[a] = "idle" THEN "idle" ELSE "done"]
  /\ timed' = {} /\ giveUp' = {} /\ slept' = {} /\ torn' = {} /\ timers' = {}
  /\ startup' = "unread" /\ unfinished' = {} /\ amended' = {} /\ leftovers' = {}
  /\ amending' = [e \in Execs |-> "no"]
  /\ stopping' = [e \in Execs |-> "no"] /\ deleting' = [e \in Execs |-> "no"]
  /\ phase' = "down"
  /\ UNCHANGED <<row, stopped>>

Restart ==
  /\ phase = "down"
  /\ phase' = "up"
  /\ UNCHANGED <<queueVars, entryVars, runVars, requestVars, timers, startVars, events>>

-----------------------------------------------------------------------------
(* A start recovers what crashed and then what was never started, while timers,  *)
(* requests and triggers arrive; a shutdown does not interrupt it.               *)

\* performStartupRecovery looks for rows that run, and in the event log for
\* executions that did not end, as one that waits does not.
CollectUnfinished ==
  /\ phase # "down" /\ startup = "unread"
  /\ startup' = "recovering"
  /\ \E logged \in SUBSET {e \in Execs : row[e] = "waiting"} :
       unfinished' = {e \in Execs : row[e] = "running"} \cup logged
  /\ UNCHANGED <<queueVars, entryVars, runVars, requestVars, timers, phase, amending, amended,
                 leftovers, events>>

\* One execution after the other.  One that the log names without a node, that has
\* ended or is gone is left as it is; one that the log does not name is marked
\* crashed, and that is all in simple mode; one whose nodes the log names is read.
RecoverCrashed(e) ==
  /\ e \in unfinished /\ \A x \in Execs : amending[x] = "no"
  /\ unfinished' = unfinished \ {e}
  /\ \/ UNCHANGED <<row, amending, torn>>
     \/ /\ row' = [row EXCEPT ![e] = IF @ = "running" THEN "crashed" ELSE @]
        /\ \E a \in {"no", "marked"} : amending' = [amending EXCEPT ![e] = a]
        /\ torn' = IF Working(e) # {} THEN torn \cup {e} ELSE torn
     \/ /\ row[e] \in {"running", "crashed", "waiting"}
        /\ amending' = [amending EXCEPT ![e] = IF row[e] = "waiting" THEN "waited" ELSE "crashed"]
        /\ torn' = IF Working(e) # {} THEN torn \cup {e} ELSE torn
        /\ UNCHANGED row
  /\ UNCHANGED <<queueVars, entryVars, at, timed, giveUp, slept, requestVars, timers, phase,
                 startup, amended, leftovers, events>>

\* amendWithoutLogs: what was marked is read back.
ReadMarked(e) ==
  /\ amending[e] = "marked"
  /\ amending' = [amending EXCEPT ![e] = IF row[e] = "absent" THEN "no" ELSE row[e]]
  /\ UNCHANGED <<queueVars, entryVars, runVars, requestVars, timers, phase, startup, unfinished,
                 amended, leftovers, events>>

\* What is written for an execution that waited, too.
Amended(e) == IF amending[e] = "waited" THEN "crashed" ELSE amending[e]

\* What was read is written back by id, whatever the row says by now.
Amend(e) ==
  /\ amending[e] \notin {"no", "marked"} /\ e \notin amended
  /\ SetRow(e, Amended(e))
  /\ amended' = amended \cup {e}
  /\ UNCHANGED <<queueVars, entryVars, at, timed, giveUp, history, requestVars, timers, phase,
                 startup, unfinished, amending, leftovers, events>>

\* The save hook follows; it does not delete what waited.
RunHooks(e) ==
  /\ e \in amended
  /\ amended' = amended \ {e}
  /\ SaveRow(e, Amended(e))
  /\ amending[e] = "waited" /\ row[e] # "absent" => row'[e] # "absent"
  /\ amending' = [amending EXCEPT ![e] = "no"]
  /\ UNCHANGED <<queueVars, entryVars, at, timed, giveUp, history, requestVars, timers, phase,
                 startup, unfinished, leftovers, events>>

\* recoverEnqueuedExecutions reads the rows that were not started, whoever made them.
FindLeftovers ==
  /\ startup = "recovering" /\ unfinished = {} /\ \A e \in Execs : amending[e] = "no"
  /\ startup' = "over"
  /\ leftovers' = {e \in Execs : row[e] = "new"}
  /\ UNCHANGED <<queueVars, entryVars, runVars, requestVars, timers, phase, unfinished, amending,
                 amended, events>>

Recover(a) ==
  /\ Kind(a) = "recover" /\ Exec(a) \in leftovers
  /\ Step(a, "idle", "created")
  /\ leftovers' = leftovers \ {Exec(a)}
  /\ UNCHANGED <<queueVars, entryVars, row, timed, giveUp, history, requestVars, timers, phase,
                 startup, unfinished, amending, amended, events>>

-----------------------------------------------------------------------------
Prepare(a) ==
  \/ Reserve(a) \/ Claim(a) \/ SetRunning(a) \/ Enter(a) \/ Launch(a) \/ FailCheck(a)
  \/ LaunchFails(a) \/ SaveFailure(a) \/ NoEntryToRespond(a) \/ Save(a) \/ End(a)

Afterwards(a) == SaveCanceled(a) \/ MarkUnstartable(a)

Arrive(a) == Create(a) \/ ResumeByTimer(a) \/ ResumeByWebhook(a) \/ Recover(a)

CarryOut(e) == StopInMemory(e) \/ StopInRow(e) \/ DeleteFromQueue(e) \/ DeleteRow(e)

Repair(e) == RecoverCrashed(e) \/ ReadMarked(e) \/ Amend(e) \/ RunHooks(e)

StartUp == CollectUnfinished \/ (\E e \in Execs : Repair(e)) \/ FindLeftovers

Next ==
  \/ \E a \in {b \in Attempts : at[b] = "idle"} : InTurn(a) /\ Arrive(a)
  \/ \E a \in OnTheirWay : Prepare(a) \/ PutToWait(a)
  \/ \E a \in timed : TimeOut(a)
  \/ \E a \in hooking \cup giveUp : Afterwards(a)
  \/ \E e \in Watched : StopRequest(e) \/ DeleteRequest(e) \/ CarryOut(e) \/ Track(e)
  \/ Stop \/ Crash \/ Restart \/ StartUp

Spec == Init /\ [][Next]_vars

Onward ==
  \/ \E a \in OnTheirWay : Prepare(a)
  \/ \E a \in hooking \cup giveUp : Afterwards(a)
  \/ \E a \in Attempts : InTurn(a) /\ Recover(a)
  \/ \E e \in Watched : CarryOut(e)
  \/ Restart \/ StartUp \/ (phase = "stopping" /\ Crash)

\* The event loop runs continuations, the database answers, nodes end, and a main
\* that is shutting down or went down is started again.
Fairness == WF_vars(Onward)

FairSpec == Spec /\ Fairness

-----------------------------------------------------------------------------
TypeOK ==
  /\ capacity \in Int /\ capacity <= Limit /\ queue \in Seq(Attempts) /\ granted \subseteq Attempts
  /\ enabled \in BOOLEAN /\ reserved \subseteq Attempts
  /\ active \in [Execs -> Entry \cup {None}]
  /\ cancelled \subseteq Attempts /\ hooking \subseteq Attempts
  /\ row \in [Execs -> Statuses] /\ at \in [Attempts -> Places]
  /\ timed \subseteq Attempts /\ giveUp \subseteq Attempts
  /\ slept \subseteq Execs /\ torn \subseteq Execs
  /\ stopping \in [Execs -> {"no", "read", "caught", "missed"}]
  /\ stopped \in [Execs -> {"no", "caught", "missed"}]
  /\ deleting \in [Execs -> {"no", "queued", "row"}]
  /\ timers \subseteq Execs /\ phase \in {"up", "stopping", "down"}
  /\ startup \in {"unread", "recovering", "over"} /\ unfinished \subseteq Execs
  /\ amending \in [Execs -> {"no", "marked", "waited"} \cup (Statuses \ {"absent", "new"})]
  /\ amended \subseteq Execs /\ leftovers \subseteq Execs /\ events \in 0..MaxEvents

\* Slots in use: of attempts that were granted one and did not give it back.
InUse == reserved \cup {a \in granted : at[a] = "queued"}

\* Every slot is either free or in use by one attempt that asked for it: the
\* stops, deletes, failed claims and finalizations of any attempt never give a
\* slot back twice.
SlotsAccounted == enabled => capacity + Len(queue) + Cardinality(InUse) = Limit

\* An attempt that is over keeps its slot only if its entry went with the promise
\* open: of an execution that was put to wait, by a stop, a timeout, a shutdown or a
\* resume; or of one that a recovery of the start took up beside an attempt of this
\* process, whose entry the second attempt replaces (active-executions.ts:161).
\* Otherwise, whatever overtakes it, the slot comes back.
SlotsComeBack ==
  \A a \in reserved : at[a] = "done" =>
    /\ Exec(a) \in slept \cup torn
    /\ Attached(Exec(a)) => active[Exec(a)].by # a

\* Timers, resume requests, recoveries and stops never make two attempts work on
\* one execution at once: each wait is resumed by one claim, and a recovery's claim
\* keeps off what an attempt has started.  Excepted are executions the recoveries of
\* the start took up beside an attempt of this process: the routes, schedulers and
\* timers are up before (start.ts:268,403,409,415), and there two attempts do work.
OneAttemptWorks == \A e \in Execs \ torn : Cardinality(Working(e)) <= 1

\* A stop that reached the only attempt, in the queue or with its workflow attached,
\* holds: whatever that workflow, its hooks, later resumes and a later start write
\* afterwards, the row stays canceled.  A stop during the recoveries of a start is
\* not among them: what they read before it, they write back after it.
CaughtStopsHold ==
  \A e \in Execs : stopped[e] = "caught" => row[e] \in {"canceled", "absent"}

\* A row that says success or error is never taken up again, nor marked crashed, but
\* by a crash recovery that had read it before, beside an attempt of this process.  (One
\* that says canceled is: see StoppedStaysStopped.)
EndedStaysEnded ==
  [][\A e \in Execs : row[e] \in {"success", "error"} /\ e \notin torn' =>
       row'[e] \in {"success", "error", "canceled", "absent"}]_vars

\* No execution sits in the queue forever: whoever is enqueued is started, removed
\* or, after the end of the process, recovered, unless a slot was lost (SlotsComeBack
\* says to what).  An execution is created once, so that the queue is seen empty of
\* new ones again and again.
NeverLeftNew ==
  []<>(\A e \in Execs : row[e] = "new" => \E a \in reserved : at[a] = "done")

-----------------------------------------------------------------------------
\* What every step keeps.

\* The queue holds attempts that await a slot; one is granted a slot after it asked.
QueueConsistent ==
  /\ IsInjective(queue)
  /\ \A a \in ToSet(queue) : at[a] = "queued" /\ a \notin granted
  /\ \A a \in granted : at[a] \notin {"idle", "created"}

Registered(a) == Attached(Exec(a)) /\ active[Exec(a)].by = a

\* A slot reserved is traced to the entry that gives it back, or to a wait or a
\* recovery: only these let a second attempt reserve one beside it.
SlotsTraced ==
  /\ \A a \in Attempts : at[a] \in {"taken", "claimed"} => a \in reserved
  /\ \A a \in reserved :
       /\ at[a] \notin {"idle", "created", "queued"}
       /\ at[a] \notin {"taken", "claimed"} => Registered(a) \/ Exec(a) \in slept \cup torn
       /\ at[a] \in {"failing", "done"} => ~Registered(a)
       /\ row[Exec(a)] # "new"
       /\ row[Exec(a)] = "waiting" => Exec(a) \in slept \cup torn
       /\ \A b \in reserved : Exec(b) = Exec(a) /\ b # a => Exec(a) \in slept \cup torn

\* An entry's promise is open as long as its attempt has the slot; one that does not
\* wait is open, of an execution at work.
EntriesConsistent ==
  /\ \A e \in Execs : Attached(e) =>
       /\ Exec(active[e].by) = e
       /\ at[active[e].by] \notin {"idle", "created", "queued", "taken", "claimed"}
       /\ active[e].wf # None => Exec(active[e].wf) = e
       /\ active[e].open <=> active[e].by \in reserved
       /\ IF Waits(e) THEN e \in slept
                      ELSE active[e].open /\ (e \in torn \/ row[e] # "waiting")
  /\ \A a \in Attempts : at[a] = "waiting" =>
       Exec(a) \in slept /\ (Attached(Exec(a)) => Waits(Exec(a)) \/ Exec(a) \in torn)

\* An execution at work has one attempt at it, and a row that no other can claim.
WorkersAlone ==
  \A e \in Execs \ torn : \A a \in Working(e) :
    /\ \A b \in Working(e) : a = b
    /\ row[e] \notin {"new", "waiting", "success", "error"}

\* Nothing knows of an execution before it is created.
NothingBefore ==
  \A e \in Execs : at[Fresh(e)] = "idle" =>
    /\ row[e] = "absent" /\ stopping[e] = "no" /\ stopped[e] = "no" /\ e \notin timers
    /\ e \notin leftovers
    /\ \A a \in Attempts : Exec(a) = e => at[a] = "idle" /\ a \notin giveUp

\* Until one of its attempts claims it, an execution has only its first and recoveries.
Unclaimed(e) ==
  /\ e \notin timers
  /\ \A a \in Attempts : Exec(a) = e =>
       /\ at[a] \in {"idle", "created", "queued", "done"} /\ a \notin reserved
       /\ Kind(a) = "resume" => at[a] = "idle"

FreshFirst ==
  /\ NothingBefore
  /\ \A e \in Execs :
       /\ row[e] = "new" => Unclaimed(e)
       /\ at[Fresh(e)] \in {"created", "queued"} /\ e \notin torn =>
            Unclaimed(e) /\ row[e] \in {"new", "canceled", "absent"}
  /\ \A a \in giveUp : at[Fresh(Exec(a))] \in {"created", "queued"} => Exec(a) \in torn
  /\ phase = "down" =>
       OnTheirWay = {} /\ giveUp = {} /\ startup = "unread" /\ \A e \in Execs : stopping[e] = "no"

\* What crash recovery is about to write for an execution it took up alone is no news.
AmendsApart ==
  /\ startup = "unread" =>
       torn = {} /\ leftovers = {} /\ \A a \in OnTheirWay : Kind(a) # "recover"
  /\ startup # "recovering" => unfinished = {} /\ \A e \in Execs : amending[e] = "no"
  /\ \A e \in Execs :
       /\ e \in unfinished \/ amending[e] # "no" =>
            at[Fresh(e)] \notin {"idle", "created", "queued"} /\ row[e] # "new"
       /\ e \in amended => amending[e] \notin {"no", "marked"}
  /\ \A e \in Execs \ torn : amending[e] # "no" =>
       /\ Working(e) = {}
       /\ row[e] \in {"success", "error"} => amending[e] \in {"marked", row[e]}
       /\ amending[e] = "waiting" =>
            /\ Attached(e) => Waits(e)
            /\ \A a \in reserved : Exec(a) = e => e \in slept

\* An attempt that was removed from the queue awaits its slot for good.
Dropped(a) == at[a] = "queued" /\ a \notin granted \cup ToSet(queue)

\* Once a stop has caught an execution, no attempt can write its row but to save what
\* a cancelled workflow saves, and no recovery takes it up.
CaughtForGood ==
  \A e \in Execs :
    /\ "caught" \in {stopping[e], stopped[e]} =>
         /\ e \notin unfinished /\ amending[e] = "no"
         /\ \A a \in Attempts : Exec(a) = e =>
              /\ at[a] \notin {"taken", "claimed", "registered", "launching"}
              /\ at[a] \in {"executing", "waiting"} => a \in cancelled
              /\ a = Fresh(e) /\ at[a] \in {"created", "queued"} => Dropped(a)
    /\ stopping[e] = "caught" =>
         /\ startup = "over" /\ row[e] # "waiting" /\ e \notin leftovers
         /\ row[e] = "new" => \A a \in Attempts :
              Exec(a) = e /\ at[a] \in {"created", "queued"} => Dropped(a)

IInv ==
  /\ TypeOK /\ QueueConsistent /\ SlotsTraced /\ EntriesConsistent /\ SlotsAccounted
  /\ WorkersAlone /\ FreshFirst /\ AmendsApart /\ CaughtForGood /\ CaughtStopsHold

-----------------------------------------------------------------------------
\* What a comment of the code says and the code does not do.

\* execution-lifecycle-hooks.ts: a completed run must never overwrite a status the
\* user already canceled.
StoppedStaysStopped ==
  \A e \in Execs : stopped[e] # "no" => row[e] # "success"
=============================================================================
