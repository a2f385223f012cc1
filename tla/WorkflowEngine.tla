--------------------------- MODULE WorkflowEngine ---------------------------
(***************************************************************************)
(* The v2 workflow engine in one process: requests that start executions,  *)
(* the orchestration worker (ExecutionStartHandler, StepCompletedHandler)  *)
(* and the step worker (StepReadyHandler), each fed by an in-memory queue  *)
(* that dispatches one message at a time.  One action is the code between  *)
(* two awaits with the statement the later one commits.                    *)
(*                                                                         *)
(* The process may crash, which loses both queues and the handlers in      *)
(* progress; a statement may be refused, which ends its handler (the queue *)
(* logs it and goes on).  A queue adapter may deliver a message again: the *)
(* in-memory one never does, the handlers are written for one that does.   *)
(***************************************************************************)
EXTENDS EngineStore

CONSTANTS
  Executors,       \* step types the host supplies an executor for
  MaxFaults,       \* bound on crashes and refused statements
  MaxRedeliveries  \* bound on messages delivered again

ASSUME MaxFaultsIsNat == MaxFaults \in Nat
ASSUME MaxRedeliveriesIsNat == MaxRedeliveries \in Nat

VARIABLES
  orchestrationQueue, stepQueue,  \* InMemoryWorkQueue.pending
  planner,      \* the orchestration worker's handler
  runner,       \* the step worker's handler
  unannounced,  \* requests between the insert and the publish
  sent,         \* history: every message published
  runs,         \* history: how often the executor was called for a step
  faults, redeliveries

vars == <<graph, execution, step, orchestrationQueue, stepQueue, planner, runner,
          unannounced, sent, runs, faults, redeliveries>>

queueVars == <<orchestrationQueue, stepQueue, sent>>
boundVars == <<faults, redeliveries>>

\* Messages carry ids only; `node` stands for the step's id.
ExecutionEnqueued(e) == [type |-> "execution:enqueued", exec |-> e, node |-> None]
StepCompleted(e, n) == [type |-> "step:completed", exec |-> e, node |-> n]
StepReady(e, n) == [type |-> "step:ready", exec |-> e, node |-> n]

OrchestrationMessages ==
  {ExecutionEnqueued(e) : e \in Execs} \cup {StepCompleted(e, n) : e \in Execs, n \in Nodes}
StepMessages == {StepReady(e, n) : e \in Execs, n \in Nodes}

(***************************************************************************)
(* A handler: what it is about to do, for which message.                   *)
(*   planner  claim, trigger, announce trigger (on execution:enqueued);    *)
(*            read, plan, announce, check, judge, finish, fail, cancel     *)
(*            (on step:completed); `todo` the steps created and not yet    *)
(*            published, `outcome` the verdict about to be recorded        *)
(*   runner   claim, load, execute, report                                 *)
(***************************************************************************)
Idle == [at |-> "idle", msg |-> None, todo |-> {}, outcome |-> "none"]

PlannerPlaces == {"claim", "trigger", "announceTrigger", "read", "plan", "announce",
                  "check", "judge", "finish", "fail", "cancel"}
RunnerPlaces == {"claim", "load", "execute", "report"}

Init ==
  /\ StoreInit
  /\ orchestrationQueue = <<>> /\ stepQueue = <<>>
  /\ planner = Idle /\ runner = Idle
  /\ unannounced = {} /\ sent = {}
  /\ runs = [e \in Execs |-> [n \in Nodes |-> 0]]
  /\ faults = 0 /\ redeliveries = 0

-----------------------------------------------------------------------------
PublishOrchestration(m) ==
  /\ orchestrationQueue' = Append(orchestrationQueue, m)
  /\ sent' = sent \cup {m}
  /\ UNCHANGED stepQueue

PublishStep(m) ==
  /\ stepQueue' = Append(stepQueue, m)
  /\ sent' = sent \cup {m}
  /\ UNCHANGED orchestrationQueue

PlannerAt(place) == planner.at = place /\ UNCHANGED <<runner, unannounced, runs, boundVars>>
PlannerTo(place) == planner' = [planner EXCEPT !.at = place]
PlannerDone == planner' = Idle

RunnerAt(place) == runner.at = place /\ UNCHANGED <<planner, unannounced, boundVars>>
RunnerTo(place) == runner' = [runner EXCEPT !.at = place]
RunnerDone == runner' = Idle

-----------------------------------------------------------------------------
\* StartExecutionService.start: the graph is validated, the row inserted and,
\* when the insert has answered, announced.
StartExecution(e) ==
  /\ \E g \in Graphs : Executable(g) /\ CreateExecution(e, g)
  /\ unannounced' = unannounced \cup {e}
  /\ UNCHANGED <<queueVars, planner, runner, runs, boundVars>>

AnnounceExecution(e) ==
  /\ e \in unannounced
  /\ unannounced' = unannounced \ {e}
  /\ PublishOrchestration(ExecutionEnqueued(e))
  /\ UNCHANGED <<storeVars, planner, runner, runs, boundVars>>

-----------------------------------------------------------------------------
\* The orchestration worker.
TakeOrchestration ==
  /\ PlannerAt("idle")
  /\ orchestrationQueue # <<>>
  /\ LET m == Head(orchestrationQueue)
     IN  planner' = [Idle EXCEPT !.msg = m,
                       !.at = IF m.type = "execution:enqueued" THEN "claim" ELSE "read"]
  /\ orchestrationQueue' = Tail(orchestrationQueue)
  /\ UNCHANGED <<storeVars, stepQueue, sent>>

\* A duplicate finds the execution claimed.
ClaimExecution ==
  LET e == planner.msg.exec
  IN  /\ PlannerAt("claim")
      /\ IF execution[e] = "queued"
           THEN SetExecution(e, "running") /\ PlannerTo("trigger")
           ELSE UNCHANGED storeVars /\ PlannerDone
      /\ UNCHANGED queueVars

RecordTrigger ==
  LET e == planner.msg.exec
  IN  /\ PlannerAt("trigger")
      /\ CreateSteps(e, Triggers(graph[e]), "completed")
      /\ planner' = [planner EXCEPT !.at = "announceTrigger",
                       !.todo = Insertable(e, Triggers(graph[e]))]
      /\ UNCHANGED queueVars

AnnounceTrigger ==
  /\ PlannerAt("announceTrigger")
  /\ \E n \in planner.todo : PublishOrchestration(StepCompleted(planner.msg.exec, n))
  /\ PlannerDone
  /\ UNCHANGED storeVars

\* Seeded fault: a failed step is treated like a completed one.
AfterReadIgnoringFailure(e, n) ==
  IF execution[e] # "running" THEN "idle" ELSE "plan"

\* What the step's and the execution's rows decide: a failed step ends the
\* execution, a finished execution plans nothing more.
AfterRead(e, n) ==
  IF step[e][n] = "failed" THEN "fail"
  ELSE IF execution[e] # "running" THEN "idle"
  ELSE IF step[e][n] = "completed" THEN "plan"
  ELSE "check"

ReadOutcome ==
  LET place == AfterRead(planner.msg.exec, planner.msg.node)
  IN  /\ PlannerAt("read")
      /\ IF place = "idle" THEN PlannerDone ELSE PlannerTo(place)
      /\ UNCHANGED <<storeVars, queueVars>>

\* Seeded fault: the completion that is being handled does not count.
ReadyOthers(e, n) ==
  {m \in Successors(graph[e], n) :
     \A p \in Predecessors(graph[e], m) : p # n /\ step[e][p] = "completed"}

\* readySuccessorNodeIds: every predecessor of theirs has completed.
Ready(e, n) ==
  {m \in Successors(graph[e], n) :
     \A p \in Predecessors(graph[e], m) : p = n \/ step[e][p] = "completed"}

\* Seeded fault: the steps found ready are counted, not those created.
PlanSuccessorsByReadiness ==
  LET e == planner.msg.exec
      ready == Ready(e, planner.msg.node)
      created == Insertable(e, ready)
  IN  /\ PlannerAt("plan")
      /\ CreateSteps(e, ready, "queued")
      /\ planner' = IF ready # {} /\ created = {} THEN Idle
                    ELSE [planner EXCEPT !.todo = created,
                            !.at = IF ready = {} THEN "check" ELSE "announce"]
      /\ UNCHANGED queueVars

\* planSuccessors, up to its publishes; with no step created, the execution may
\* be done.
PlanSuccessors ==
  LET e == planner.msg.exec
      ready == Ready(e, planner.msg.node)
      created == Insertable(e, ready)
  IN  /\ PlannerAt("plan")
      /\ CreateSteps(e, ready, "queued")
      /\ planner' = [planner EXCEPT !.todo = created,
                       !.at = IF created = {} THEN "check" ELSE "announce"]
      /\ UNCHANGED queueVars

AnnounceStep ==
  /\ PlannerAt("announce")
  /\ \E n \in planner.todo :
       /\ PublishStep(StepReady(planner.msg.exec, n))
       /\ IF planner.todo = {n} THEN PlannerDone
                                ELSE planner' = [planner EXCEPT !.todo = @ \ {n}]
  /\ UNCHANGED storeVars

\* finishExecutionIfDone.
CheckActive ==
  /\ PlannerAt("check")
  /\ IF HasActiveSteps(planner.msg.exec) THEN PlannerDone ELSE PlannerTo("judge")
  /\ UNCHANGED <<storeVars, queueVars>>

\* Seeded fault: the steps are not asked whether one failed.
JudgeCompleted ==
  /\ PlannerAt("judge")
  /\ planner' = [planner EXCEPT !.at = "finish", !.outcome = "completed"]
  /\ UNCHANGED <<storeVars, queueVars>>

Judge ==
  /\ PlannerAt("judge")
  /\ planner' = [planner EXCEPT !.at = "finish",
       !.outcome = IF HasFailedSteps(planner.msg.exec) THEN "failed" ELSE "completed"]
  /\ UNCHANGED <<storeVars, queueVars>>

Finish ==
  /\ PlannerAt("finish")
  /\ FinishExecution(planner.msg.exec, planner.outcome)
  /\ PlannerDone
  /\ UNCHANGED queueVars

FailExecution ==
  /\ PlannerAt("fail")
  /\ FinishExecution(planner.msg.exec, "failed")
  /\ PlannerTo("cancel")
  /\ UNCHANGED queueVars

CancelSteps ==
  /\ PlannerAt("cancel")
  /\ CancelQueuedSteps(planner.msg.exec)
  /\ PlannerDone
  /\ UNCHANGED queueVars

-----------------------------------------------------------------------------
\* The step worker.
TakeStep ==
  /\ RunnerAt("idle")
  /\ stepQueue # <<>>
  /\ runner' = [Idle EXCEPT !.at = "claim", !.msg = Head(stepQueue)]
  /\ stepQueue' = Tail(stepQueue)
  /\ UNCHANGED <<storeVars, orchestrationQueue, sent, runs>>

ClaimStep ==
  LET e == runner.msg.exec
      n == runner.msg.node
  IN  /\ RunnerAt("claim")
      /\ IF ClaimableStep(e, n)
           THEN SetSteps(e, {n}, "running") /\ RunnerTo("load")
           ELSE UNCHANGED storeVars /\ RunnerDone
      /\ UNCHANGED <<queueVars, runs>>

\* The node is in the graph and its type has an executor.
Supported(g, n) == n \in DOMAIN g.types /\ g.types[n] \in Executors

\* The handler throws, or returns because the execution is over; in both cases
\* the step is left running.
Runnable(e, n) ==
  /\ Supported(graph[e], n)
  /\ execution[e] = "running"
  /\ \A p \in Predecessors(graph[e], n) : step[e][p] = "completed"

LoadStep ==
  LET e == runner.msg.exec
      n == runner.msg.node
  IN  /\ RunnerAt("load")
      /\ IF Runnable(e, n)
           THEN RunnerTo("execute") /\ runs' = [runs EXCEPT ![e][n] = @ + 1]
           ELSE RunnerDone /\ UNCHANGED runs
      /\ UNCHANGED <<storeVars, queueVars>>

\* The executor answers or throws; completeStep or failStep is a
\* compare-and-set on running, and a lost one is not announced.
RecordStep ==
  LET e == runner.msg.exec
      n == runner.msg.node
  IN  /\ RunnerAt("execute")
      /\ IF step[e][n] = "running"
           THEN /\ \E status \in {"completed", "failed"} : SetSteps(e, {n}, status)
                /\ RunnerTo("report")
           ELSE UNCHANGED storeVars /\ RunnerDone
      /\ UNCHANGED <<queueVars, runs>>

ReportStep ==
  /\ RunnerAt("report")
  /\ PublishOrchestration(StepCompleted(runner.msg.exec, runner.msg.node))
  /\ RunnerDone
  /\ UNCHANGED <<storeVars, runs>>

-----------------------------------------------------------------------------
\* Faults.
Fault == faults < MaxFaults /\ faults' = faults + 1 /\ UNCHANGED redeliveries

\* The process dies or is shut down: what its queues hold is gone.
Crash ==
  /\ Fault
  /\ orchestrationQueue' = <<>> /\ stepQueue' = <<>>
  /\ planner' = Idle /\ runner' = Idle
  /\ unannounced' = {}
  /\ UNCHANGED <<storeVars, sent, runs>>

\* A statement is refused, or its answer lost, and the handler throws.
PlannerThrows ==
  /\ planner # Idle
  /\ Fault
  /\ PlannerDone
  /\ UNCHANGED <<storeVars, queueVars, runner, unannounced, runs>>

RunnerThrows ==
  /\ runner # Idle
  /\ Fault
  /\ RunnerDone
  /\ UNCHANGED <<storeVars, queueVars, planner, unannounced, runs>>

Redeliver(m) ==
  /\ redeliveries < MaxRedeliveries
  /\ redeliveries' = redeliveries + 1
  /\ IF m.type = "step:ready" THEN PublishStep(m) ELSE PublishOrchestration(m)
  /\ UNCHANGED <<storeVars, planner, runner, unannounced, runs, faults>>

-----------------------------------------------------------------------------
OrchestrationWorker ==
  \/ TakeOrchestration \/ ClaimExecution \/ RecordTrigger \/ AnnounceTrigger
  \/ ReadOutcome \/ PlanSuccessors \/ AnnounceStep \/ CheckActive \/ Judge
  \/ Finish \/ FailExecution \/ CancelSteps

StepWorker == TakeStep \/ ClaimStep \/ LoadStep \/ RecordStep \/ ReportStep

Next ==
  \/ \E e \in Execs : StartExecution(e) \/ AnnounceExecution(e)
  \/ OrchestrationWorker
  \/ StepWorker
  \/ Crash \/ PlannerThrows \/ RunnerThrows
  \/ \E m \in sent : Redeliver(m)

Spec == Init /\ [][Next]_vars

\* The event loop runs every continuation, statements answer and executors
\* return.
Fairness ==
  /\ \A e \in Execs : WF_vars(AnnounceExecution(e))
  /\ WF_vars(OrchestrationWorker)
  /\ WF_vars(StepWorker)

FairSpec == Spec /\ Fairness

-----------------------------------------------------------------------------
PlannerStates == [at : PlannerPlaces, msg : OrchestrationMessages, todo : SUBSET Nodes,
                  outcome : {"none", "completed", "failed"}]
RunnerStates == [at : RunnerPlaces, msg : StepMessages, todo : {{}}, outcome : {"none"}]

Messages == OrchestrationMessages \cup StepMessages

TypeOK ==
  /\ graph \in [Execs -> Graphs \cup {None}]
  /\ execution \in [Execs -> ExecutionStatuses \cup {"absent"}]
  /\ step \in [Execs -> [Nodes -> StepStatuses \cup {"absent"}]]
  /\ orchestrationQueue \in Seq(OrchestrationMessages)
  /\ stepQueue \in Seq(StepMessages)
  /\ planner = Idle \/ planner \in PlannerStates
  /\ runner = Idle \/ runner \in RunnerStates
  /\ unannounced \subseteq Execs
  /\ sent \subseteq Messages
  /\ runs \in [Execs -> [Nodes -> Nat]]
  /\ faults \in 0..MaxFaults
  /\ redeliveries \in 0..MaxRedeliveries

\* The executor is called at most once for a step, whatever messages come twice
\* and wherever a process died: n8n nodes have effects that must not repeat.
StepsRunOnce == \A e \in Execs, n \in Nodes : runs[e][n] <= 1

\* A step exists, runs and ends only after every predecessor completed: nothing
\* runs on inputs that are not there, nothing runs after a failed step.
InputsAvailable ==
  \A e \in Execs, n \in Nodes :
    step[e][n] # "absent" /\ n \notin Triggers(graph[e]) =>
      \A p \in Predecessors(graph[e], n) : step[e][p] = "completed"

\* What the engine guarantees of each call of an executor.
StepsRunSoundly == StepsRunOnce /\ InputsAvailable

\* An execution is not reported completed over a step that failed or that is
\* still to run, although the verdict is read by two queries.
CompletedIsClean ==
  \A e \in Execs : execution[e] = "completed" =>
    \A n \in Nodes : step[e][n] \notin {"queued", "running", "failed"}

\* The inductive invariant, part by part.  Rows of the two tables agree.
RowsAgree ==
  \A e \in Execs :
    /\ execution[e] # "absent" => graph[e] \in Graphs
    /\ execution[e] # "cancelled"
    /\ execution[e] \in {"absent", "queued"} => \A n \in Nodes : step[e][n] = "absent"
    /\ \A n \in Nodes :
         /\ step[e][n] = "failed" => execution[e] \in {"running", "failed"}
         /\ step[e][n] \in {"absent", "queued"} => runs[e][n] = 0

\* Queues hold only what was published, and a completion is published after its
\* outcome is written.
MessagesConsistent ==
  /\ \A i \in DOMAIN orchestrationQueue : orchestrationQueue[i] \in sent
  /\ \A i \in DOMAIN stepQueue : stepQueue[i] \in sent
  /\ \A m \in sent :
       m.type = "step:completed" => step[m.exec][m.node] \in {"completed", "failed"}

\* What the orchestration worker read still holds where it acts on it.
PlannerConsistent ==
  LET e == planner.msg.exec
      n == planner.msg.node
  IN  planner # Idle =>
        /\ planner.msg \in sent
        /\ planner.msg.type = "execution:enqueued" <=>
             planner.at \in {"claim", "trigger", "announceTrigger"}
        /\ planner.at = "trigger" =>
             execution[e] = "running" /\ \A x \in Nodes : step[e][x] = "absent"
        /\ planner.at = "announceTrigger" => \A x \in planner.todo : step[e][x] = "completed"
        /\ planner.at \in {"plan", "check", "judge", "finish"} => execution[e] = "running"
        /\ planner.at = "plan" => step[e][n] = "completed"
        /\ planner.at \in {"judge", "finish"} => ~HasActiveSteps(e)
        /\ planner.at = "finish" =>
             planner.outcome = IF HasFailedSteps(e) THEN "failed" ELSE "completed"
        /\ planner.at = "fail" => step[e][n] = "failed"
        /\ planner.at = "cancel" => execution[e] = "failed"

RunnerConsistent ==
  LET e == runner.msg.exec
      n == runner.msg.node
  IN  runner # Idle =>
        /\ runner.msg \in sent
        /\ runner.at \in {"load", "execute"} => step[e][n] = "running"
        /\ runner.at = "load" => runs[e][n] = 0
        /\ runner.at = "report" => step[e][n] \in {"completed", "failed"}

IInv ==
  /\ TypeOK
  /\ RowsAgree
  /\ MessagesConsistent
  /\ PlannerConsistent
  /\ RunnerConsistent
  /\ StepsRunOnce
  /\ InputsAvailable
  /\ CompletedIsClean

\* Every step that completed has had its successors planned.
PlannedThrough(e) ==
  \A n \in Nodes : step[e][n] = "completed" =>
    \A m \in Successors(graph[e], n) : step[e][m] # "absent"

FansOut(g) == \E n \in Nodes : \E m, x \in Successors(g, n) : m # x

\* On a graph without branches, and as long as no message came twice, completed means
\* that everything ran.  With a step:completed that is delivered again it does not: if
\* the successor is completed by then but not reported yet, the handler plans nothing,
\* finds nothing active and ends the chain there (step-completed-handler.ts:43-50, 65).
ChainsRunThrough ==
  \A e \in Execs :
    execution[e] = "completed" /\ ~FansOut(graph[e]) /\ redeliveries = 0 => PlannedThrough(e)

\* Something in the process will still act on the execution.
Driven(e) ==
  \/ e \in unannounced
  \/ \E i \in DOMAIN orchestrationQueue : orchestrationQueue[i].exec = e
  \/ \E i \in DOMAIN stepQueue : stepQueue[i].exec = e
  \/ planner # Idle /\ planner.msg.exec = e
  \/ runner # Idle /\ runner.msg.exec = e

FullySupported(g) ==
  \A i \in DOMAIN g.edges : Supported(g, g.edges[i].to) \/ g.edges[i].to \in Triggers(g)

\* While no fault occurs, an execution in progress is never left behind: some
\* queue or handler still carries it on, so no hand-over between the request,
\* the two queues and the two workers drops it.
NeverStranded ==
  \A e \in Execs :
    faults = 0 /\ execution[e] \in {"queued", "running"} /\ FullySupported(graph[e]) => Driven(e)

\* Every execution of supported steps ends, if no fault occurs.
Ends ==
  \A e \in Execs :
    execution[e] = "queued" /\ FullySupported(graph[e]) ~>
      execution[e] \in {"completed", "failed"} \/ faults > 0

\* The engine implements the lifecycle its rows promise: queues, handlers,
\* redeliveries, crashes and refused statements are invisible in the tables.
Lifecycle == INSTANCE EngineLifecycle
ImplementsLifecycle == Lifecycle!Spec
=============================================================================
