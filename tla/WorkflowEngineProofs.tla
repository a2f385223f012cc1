------------------------ MODULE WorkflowEngineProofs ------------------------
(***************************************************************************)
(* The v2 engine's inductive invariant, its safety properties and the      *)
(* refinement of EngineLifecycle, for any executions, graphs, executors,   *)
(* faults and redeliveries.                                                *)
(***************************************************************************)
EXTENDS WorkflowEngine, TLAPS

-----------------------------------------------------------------------------
\* Setting steps changes exactly the named ones.
LEMMA SettingSteps ==
  ASSUME TypeOK, NEW e \in Execs, NEW ns, NEW s \in StepStatuses, SetSteps(e, ns, s)
  PROVE  /\ step' \in [Execs -> [Nodes -> StepStatuses \cup {"absent"}]]
         /\ \A n \in Nodes : n \in ns => step'[e][n] = s
         /\ \A n \in Nodes : n \notin ns => step'[e][n] = step[e][n]
         /\ \A x \in Execs : x # e => step'[x] = step[x]
         /\ graph' = graph /\ execution' = execution
BY DEF TypeOK, SetSteps

\* Setting an execution's status changes nothing else.
LEMMA SettingExecution ==
  ASSUME TypeOK, NEW e \in Execs, NEW s \in ExecutionStatuses, SetExecution(e, s)
  PROVE  /\ execution' \in [Execs -> ExecutionStatuses \cup {"absent"}]
         /\ execution'[e] = s
         /\ \A x \in Execs : x # e => execution'[x] = execution[x]
         /\ graph' = graph /\ step' = step
BY DEF TypeOK, SetExecution

\* Successors and triggers of an execution's graph are nodes.
LEMMA GraphNodes ==
  ASSUME NEW g \in Graphs, NEW n
  PROVE  /\ Successors(g, n) \subseteq Nodes
         /\ Predecessors(g, n) \subseteq Nodes
         /\ Triggers(g) \subseteq Nodes
BY GraphsOverNodes DEF Successors, Predecessors, Triggers

\* The planner's message, by the place it stands at.
LEMMA PlannerTyped ==
  ASSUME TypeOK, planner # Idle
  PROVE  /\ planner.at \in PlannerPlaces
         /\ planner.msg \in OrchestrationMessages
         /\ planner.msg.exec \in Execs
         /\ planner.msg.type = "step:completed" => planner.msg.node \in Nodes
         /\ planner.msg.type \in {"step:completed", "execution:enqueued"}
         /\ planner.todo \subseteq Nodes
         /\ planner = [at |-> planner.at, msg |-> planner.msg, todo |-> planner.todo,
                       outcome |-> planner.outcome]
         /\ planner.outcome \in {"none", "completed", "failed"}
BY DEF TypeOK, PlannerStates, OrchestrationMessages, ExecutionEnqueued, StepCompleted

\* The runner's message.
LEMMA RunnerTyped ==
  ASSUME TypeOK, runner # Idle
  PROVE  /\ runner.at \in RunnerPlaces
         /\ runner.msg \in StepMessages
         /\ runner.msg.exec \in Execs /\ runner.msg.node \in Nodes
         /\ runner.todo = {} /\ runner.outcome = "none"
         /\ runner = [at |-> runner.at, msg |-> runner.msg, todo |-> {}, outcome |-> "none"]
BY DEF TypeOK, RunnerStates, StepMessages, StepReady

\* A worker that stands somewhere is not idle, and an idle one stands nowhere.
LEMMA Places ==
  ASSUME TypeOK
  PROVE  /\ planner.at = "idle" <=> planner = Idle
         /\ runner.at = "idle" <=> runner = Idle
BY DEF TypeOK, Idle, PlannerStates, RunnerStates, PlannerPlaces, RunnerPlaces

\* What a published completion is about.
LEMMA CompletionTyped ==
  ASSUME TypeOK, NEW m \in sent, m.type = "step:completed"
  PROVE  m.exec \in Execs /\ m.node \in Nodes
BY DEF TypeOK, Messages, OrchestrationMessages, StepMessages, ExecutionEnqueued,
       StepCompleted, StepReady

-----------------------------------------------------------------------------
\* A step of a worker that leaves the tables alone.
LEMMA Quiet ==
  ASSUME IInv, UNCHANGED <<storeVars, runs>>,
         TypeOK', MessagesConsistent', PlannerConsistent', RunnerConsistent'
  PROVE  IInv'
BY DEF IInv, RowsAgree, StepsRunOnce, InputsAvailable, CompletedIsClean, storeVars

\* A worker goes on or comes back without touching the tables or the queues.
LEMMA SettledMessages ==
  ASSUME IInv, UNCHANGED <<step, queueVars>>
  PROVE  MessagesConsistent'
BY DEF IInv, MessagesConsistent, queueVars

\* What setting the status of steps keeps: it does not reopen a step that ended,
\* creates one only on completed predecessors, and leaves completed executions.
LEMMA StepsMove ==
  ASSUME IInv, NEW e \in Execs, NEW ns \in SUBSET Nodes, NEW s \in StepStatuses,
         SetSteps(e, ns, s), UNCHANGED <<queueVars, runs>>,
         ns # {} => execution[e] \in {"running", "failed"},
         \A n \in ns : step[e][n] \notin {"completed", "failed"},
         \A n \in ns : s = "queued" => step[e][n] = "absent",
         \A n \in ns : step[e][n] = "absent" /\ n \notin Triggers(graph[e]) =>
           \A p \in Predecessors(graph[e], n) : step[e][p] = "completed"
  PROVE  /\ RowsAgree' /\ MessagesConsistent' /\ StepsRunOnce'
         /\ InputsAvailable' /\ CompletedIsClean'
<1>0. TypeOK
  BY DEF IInv
<1>1. /\ step' \in [Execs -> [Nodes -> StepStatuses \cup {"absent"}]]
      /\ \A n \in Nodes : n \in ns => step'[e][n] = s
      /\ \A n \in Nodes : n \notin ns => step'[e][n] = step[e][n]
      /\ \A x \in Execs : x # e => step'[x] = step[x]
      /\ graph' = graph /\ execution' = execution /\ runs' = runs
      /\ UNCHANGED <<orchestrationQueue, stepQueue, sent>>
  BY <1>0, SettingSteps DEF queueVars
<1>2. \A x \in Execs, n \in Nodes :
        step[x][n] \in {"completed", "failed"} => step'[x][n] = step[x][n]
  BY <1>1
<1>3. ns = {} => \A x \in Execs, n \in Nodes : step'[x][n] = step[x][n]
  BY <1>1
<1>4. RowsAgree'
  BY <1>1, <1>3 DEF IInv, RowsAgree, StepStatuses
<1>5. MessagesConsistent'
  <2>1. ASSUME NEW m \in sent, m.type = "step:completed"
        PROVE  step'[m.exec][m.node] \in {"completed", "failed"}
    BY <2>1, <1>0, <1>2, CompletionTyped DEF IInv, MessagesConsistent
  <2> QED
    BY <1>1, <2>1 DEF IInv, MessagesConsistent
<1>6. StepsRunOnce'
  BY <1>1 DEF IInv, StepsRunOnce
<1>7. InputsAvailable'
  <2> SUFFICES ASSUME NEW x \in Execs, NEW n \in Nodes, step'[x][n] # "absent",
                      n \notin Triggers(graph[x]), NEW p \in Predecessors(graph[x], n)
               PROVE  step'[x][p] = "completed"
    BY <1>1 DEF InputsAvailable
  <2>1. execution[x] # "absent" /\ graph[x] \in Graphs
    BY <1>1, <1>3 DEF IInv, RowsAgree
  <2>2. p \in Nodes
    BY <2>1, GraphNodes
  <2>3. step[x][p] = "completed"
    <3>1. CASE x = e /\ n \in ns /\ step[e][n] = "absent"
      BY <3>1
    <3>2. CASE step[x][n] # "absent"
      BY <3>2 DEF IInv, InputsAvailable
    <3> QED
      BY <3>1, <3>2, <1>1
  <2> QED
    BY <2>2, <2>3, <1>2
<1>8. CompletedIsClean'
  BY <1>1, <1>3 DEF IInv, CompletedIsClean
<1> QED
  BY <1>4, <1>5, <1>6, <1>7, <1>8

\* What setting an execution's status keeps.
LEMMA ExecutionMoves ==
  ASSUME IInv, NEW e \in Execs, NEW s \in {"running", "completed", "failed"},
         SetExecution(e, s), UNCHANGED <<queueVars, runs>>,
         execution[e] \in {"queued", "running"},
         s = "completed" => ~HasActiveSteps(e) /\ ~HasFailedSteps(e)
  PROVE  /\ RowsAgree' /\ MessagesConsistent' /\ StepsRunOnce'
         /\ InputsAvailable' /\ CompletedIsClean'
<1>0. TypeOK /\ s \in ExecutionStatuses
  BY DEF IInv, ExecutionStatuses
<1>1. /\ execution'[e] = s
      /\ \A x \in Execs : x # e => execution'[x] = execution[x]
      /\ graph' = graph /\ step' = step /\ runs' = runs
      /\ UNCHANGED <<orchestrationQueue, stepQueue, sent>>
  BY <1>0, SettingExecution DEF queueVars
<1>2. RowsAgree'
  BY <1>1 DEF IInv, RowsAgree, HasFailedSteps
<1>3. MessagesConsistent' /\ StepsRunOnce' /\ InputsAvailable'
  BY <1>1 DEF IInv, MessagesConsistent, StepsRunOnce, InputsAvailable
<1>4. CompletedIsClean'
  BY <1>1 DEF IInv, CompletedIsClean, HasActiveSteps, HasFailedSteps
<1> QED
  BY <1>2, <1>3, <1>4

\* The planner's statements never touch a step that runs or has ended.
LEMMA RunnerKept ==
  ASSUME IInv, UNCHANGED <<runner, runs>>, sent \subseteq sent',
         \A x \in Execs, n \in Nodes :
           step[x][n] \in {"running", "completed", "failed"} => step'[x][n] = step[x][n]
  PROVE  RunnerConsistent'
<1>1. CASE runner = Idle
  BY <1>1 DEF RunnerConsistent
<1>2. CASE runner # Idle
  <2>1. runner.msg.exec \in Execs /\ runner.msg.node \in Nodes
    BY <1>2, RunnerTyped DEF IInv
  <2> QED
    BY <2>1, <1>2 DEF IInv, RunnerConsistent
<1> QED
  BY <1>1, <1>2

\* The runner's statements move one step that was queued or running, which the
\* planner does not rely on.
LEMMA PlannerKept ==
  ASSUME IInv, UNCHANGED <<planner, execution>>, sent \subseteq sent',
         NEW e \in Execs, NEW n \in Nodes, step[e][n] \in {"queued", "running"},
         \A x \in Execs, y \in Nodes : x # e \/ y # n => step'[x][y] = step[x][y]
  PROVE  PlannerConsistent'
<1>1. CASE planner = Idle
  BY <1>1 DEF PlannerConsistent
<1>2. CASE planner # Idle
  <2> DEFINE pe == planner.msg.exec
             pn == planner.msg.node
  <2>1. /\ pe \in Execs /\ planner.todo \subseteq Nodes
        /\ planner.msg.type = "step:completed" => pn \in Nodes
        /\ planner.msg.type \in {"step:completed", "execution:enqueued"}
    BY <1>2, PlannerTyped DEF IInv
  <2>2. /\ planner.msg \in sent
        /\ planner.msg.type = "execution:enqueued" <=>
             planner.at \in {"claim", "trigger", "announceTrigger"}
        /\ planner.at = "trigger" =>
             execution[pe] = "running" /\ \A x \in Nodes : step[pe][x] = "absent"
        /\ planner.at = "announceTrigger" => \A x \in planner.todo : step[pe][x] = "completed"
        /\ planner.at \in {"plan", "check", "judge", "finish"} => execution[pe] = "running"
        /\ planner.at = "plan" => step[pe][pn] = "completed"
        /\ planner.at \in {"judge", "finish"} => ~HasActiveSteps(pe)
        /\ planner.at = "finish" =>
             planner.outcome = IF HasFailedSteps(pe) THEN "failed" ELSE "completed"
        /\ planner.at = "fail" => step[pe][pn] = "failed"
        /\ planner.at = "cancel" => execution[pe] = "failed"
    BY <1>2 DEF IInv, PlannerConsistent
  <2>3. planner.at = "trigger" => \A x \in Nodes : step'[pe][x] = "absent"
    BY <2>1, <2>2
  <2>4. planner.at = "announceTrigger" => \A x \in planner.todo : step'[pe][x] = "completed"
    BY <2>1, <2>2
  <2>5. planner.at = "plan" => step'[pe][pn] = "completed"
    BY <2>1, <2>2
  <2>6. planner.at = "fail" => step'[pe][pn] = "failed"
    BY <2>1, <2>2
  <2>7. planner.at \in {"judge", "finish"} =>
          /\ HasActiveSteps(pe) <=> HasActiveSteps(pe)'
          /\ HasFailedSteps(pe) <=> HasFailedSteps(pe)'
    <3> SUFFICES ASSUME planner.at \in {"judge", "finish"}
                 PROVE  /\ HasActiveSteps(pe) <=> HasActiveSteps(pe)'
                        /\ HasFailedSteps(pe) <=> HasFailedSteps(pe)'
      OBVIOUS
    <3>1. pe # e
      BY <2>1, <2>2 DEF HasActiveSteps
    <3>2. \A y \in Nodes : step'[pe][y] = step[pe][y]
      BY <2>1, <3>1
    <3> QED
      BY <3>2 DEF HasActiveSteps, HasFailedSteps
  <2> QED
    BY <1>2, <2>2, <2>3, <2>4, <2>5, <2>6, <2>7 DEF PlannerConsistent
<1> QED
  BY <1>1, <1>2

\* With the tables unchanged, a worker keeps what it holds.
LEMMA PlannerUnmoved ==
  ASSUME IInv, UNCHANGED <<planner, execution, step>>, sent \subseteq sent'
  PROVE  PlannerConsistent'
BY DEF IInv, PlannerConsistent, HasActiveSteps, HasFailedSteps

-----------------------------------------------------------------------------
\* Publishing a message that says what is so.
LEMMA Publishing ==
  ASSUME IInv, NEW m \in Messages, UNCHANGED step,
         \/ m \in OrchestrationMessages /\ PublishOrchestration(m)
         \/ m \in StepMessages /\ PublishStep(m),
         m.type = "step:completed" => step[m.exec][m.node] \in {"completed", "failed"}
  PROVE  /\ MessagesConsistent'
         /\ sent' = sent \cup {m}
         /\ orchestrationQueue' \in Seq(OrchestrationMessages)
         /\ stepQueue' \in Seq(StepMessages)
         /\ sent' \subseteq Messages
<1>1. /\ orchestrationQueue \in Seq(OrchestrationMessages)
      /\ stepQueue \in Seq(StepMessages)
      /\ sent \subseteq Messages
  BY DEF IInv, TypeOK
<1>2. sent' = sent \cup {m}
  BY DEF PublishOrchestration, PublishStep
<1>3. ASSUME NEW S, NEW q \in Seq(S), NEW x \in S
      PROVE  /\ Append(q, x) \in Seq(S)
             /\ \A i \in DOMAIN Append(q, x) :
                  \/ i \in DOMAIN q /\ Append(q, x)[i] = q[i]
                  \/ Append(q, x)[i] = x
  OBVIOUS
<1>4. /\ orchestrationQueue' \in Seq(OrchestrationMessages)
      /\ \A i \in DOMAIN orchestrationQueue' : orchestrationQueue'[i] \in sent'
  <2>1. CASE m \in OrchestrationMessages /\ PublishOrchestration(m)
    BY <2>1, <1>1, <1>2, <1>3 DEF IInv, MessagesConsistent, PublishOrchestration
  <2>2. CASE PublishStep(m)
    BY <2>2, <1>1, <1>2 DEF IInv, MessagesConsistent, PublishStep
  <2> QED
    BY <2>1, <2>2
<1>5. /\ stepQueue' \in Seq(StepMessages)
      /\ \A i \in DOMAIN stepQueue' : stepQueue'[i] \in sent'
  <2>1. CASE m \in StepMessages /\ PublishStep(m)
    BY <2>1, <1>1, <1>2, <1>3 DEF IInv, MessagesConsistent, PublishStep
  <2>2. CASE PublishOrchestration(m)
    BY <2>2, <1>1, <1>2 DEF IInv, MessagesConsistent, PublishOrchestration
  <2> QED
    BY <2>1, <2>2
<1>6. MessagesConsistent'
  BY <1>2, <1>4, <1>5 DEF IInv, MessagesConsistent
<1> QED
  BY <1>1, <1>2, <1>4, <1>5, <1>6

\* Taking the head of a queue.
LEMMA Taking ==
  ASSUME NEW S, NEW q \in Seq(S), q # <<>>
  PROVE  /\ Head(q) \in S /\ Tail(q) \in Seq(S)
         /\ 1 \in DOMAIN q /\ Head(q) = q[1]
         /\ \A i \in DOMAIN Tail(q) : i + 1 \in DOMAIN q /\ Tail(q)[i] = q[i + 1]
OBVIOUS

-----------------------------------------------------------------------------
\* One lemma per action.
LEMMA StartKeepsIInv ==
  ASSUME IInv, NEW e \in Execs, StartExecution(e)
  PROVE  IInv'
<1>1. PICK g \in Graphs : Executable(g) /\ CreateExecution(e, g)
  BY DEF StartExecution
<1>2. /\ execution[e] = "absent"
      /\ execution' = [execution EXCEPT ![e] = "queued"]
      /\ graph' = [graph EXCEPT ![e] = g]
      /\ step' = step
      /\ unannounced' = unannounced \cup {e}
      /\ UNCHANGED <<orchestrationQueue, stepQueue, sent, planner, runner, runs, faults,
                     redeliveries>>
  BY <1>1 DEF CreateExecution, StartExecution, queueVars, boundVars
<1>3. TypeOK'
  BY <1>2 DEF IInv, TypeOK, ExecutionStatuses
<1>4. \A n \in Nodes : step[e][n] = "absent"
  BY <1>2 DEF IInv, RowsAgree
<1>5. RowsAgree'
  BY <1>2, <1>4 DEF IInv, TypeOK, RowsAgree
<1>6. MessagesConsistent' /\ StepsRunOnce'
  BY <1>2 DEF IInv, MessagesConsistent, StepsRunOnce
<1>7. InputsAvailable'
  BY <1>2, <1>4 DEF IInv, TypeOK, InputsAvailable
<1>8. CompletedIsClean'
  BY <1>2, <1>4 DEF IInv, TypeOK, CompletedIsClean
<1>9. RunnerConsistent'
  BY <1>2, RunnerKept
<1>10. PlannerConsistent'
  <2>1. CASE planner = Idle
    BY <2>1, <1>2 DEF PlannerConsistent
  <2>2. CASE planner # Idle
    <3>1. planner.msg.exec \in Execs
      BY <2>2, PlannerTyped DEF IInv
    <3>2. execution[planner.msg.exec] \in {"running", "failed"} =>
            execution'[planner.msg.exec] = execution[planner.msg.exec]
      BY <1>2, <3>1 DEF IInv, TypeOK
    <3> QED
      BY <2>2, <1>2, <3>2 DEF IInv, PlannerConsistent, HasActiveSteps, HasFailedSteps
  <2> QED
    BY <2>1, <2>2
<1> QED
  BY <1>3, <1>5, <1>6, <1>7, <1>8, <1>9, <1>10 DEF IInv

LEMMA AnnounceKeepsIInv ==
  ASSUME IInv, NEW e \in Execs, AnnounceExecution(e)
  PROVE  IInv'
<1>1. ExecutionEnqueued(e) \in OrchestrationMessages /\ ExecutionEnqueued(e) \in Messages
  BY DEF Messages, OrchestrationMessages
<1>2. /\ UNCHANGED <<storeVars, planner, runner, runs, boundVars>>
      /\ unannounced' = unannounced \ {e}
      /\ PublishOrchestration(ExecutionEnqueued(e))
  BY DEF AnnounceExecution
<1>3. ExecutionEnqueued(e).type # "step:completed"
  BY DEF ExecutionEnqueued
<1>4. /\ MessagesConsistent' /\ sent \subseteq sent' /\ sent' \subseteq Messages
      /\ orchestrationQueue' \in Seq(OrchestrationMessages) /\ stepQueue' \in Seq(StepMessages)
  BY <1>1, <1>2, <1>3, Publishing DEF storeVars
<1>5. TypeOK'
  BY <1>2, <1>4 DEF IInv, TypeOK, storeVars, boundVars
<1>6. PlannerConsistent' /\ RunnerConsistent'
  BY <1>2, <1>4, PlannerUnmoved, RunnerKept DEF storeVars
<1> QED
  BY <1>2, <1>4, <1>5, <1>6, Quiet

\* What holds while the planner is at work.
LEMMA PlannerFacts ==
  ASSUME IInv, planner # Idle
  PROVE  LET e == planner.msg.exec
             n == planner.msg.node
         IN  /\ planner.msg \in sent
             /\ planner.msg.type = "execution:enqueued" <=>
                  planner.at \in {"claim", "trigger", "announceTrigger"}
             /\ planner.at = "trigger" =>
                  execution[e] = "running" /\ \A x \in Nodes : step[e][x] = "absent"
             /\ planner.at = "announceTrigger" => \A x \in planner.todo : step[e][x] = "completed"
             /\ planner.at \in {"plan", "check", "judge", "finish"} => execution[e] = "running"
             /\ planner.at = "plan" => step[e][n] = "completed"
             /\ planner.at \in {"judge", "finish"} => ~HasActiveSteps(e)
             /\ planner.at = "finish" =>
                  planner.outcome = IF HasFailedSteps(e) THEN "failed" ELSE "completed"
             /\ planner.at = "fail" => step[e][n] = "failed"
             /\ planner.at = "cancel" => execution[e] = "failed"
BY DEF IInv, PlannerConsistent

LEMMA TakeKeepsIInv ==
  ASSUME IInv, TakeOrchestration
  PROVE  IInv'
<1> DEFINE m == Head(orchestrationQueue)
<1>1. /\ planner = Idle /\ orchestrationQueue # <<>>
      /\ planner' = [Idle EXCEPT !.msg = m,
                       !.at = IF m.type = "execution:enqueued" THEN "claim" ELSE "read"]
      /\ orchestrationQueue' = Tail(orchestrationQueue)
      /\ UNCHANGED <<storeVars, stepQueue, sent, runner, unannounced, runs, boundVars>>
  BY Places DEF TakeOrchestration, PlannerAt, IInv
<1>2. /\ m \in OrchestrationMessages
      /\ m \in sent
      /\ orchestrationQueue' \in Seq(OrchestrationMessages)
      /\ \A i \in DOMAIN orchestrationQueue' : orchestrationQueue'[i] \in sent
  <2>1. orchestrationQueue \in Seq(OrchestrationMessages)
    BY DEF IInv, TypeOK
  <2> QED
    BY <2>1, <1>1, Taking DEF IInv, MessagesConsistent
<1>3. planner' = [at |-> IF m.type = "execution:enqueued" THEN "claim" ELSE "read",
                  msg |-> m, todo |-> {}, outcome |-> "none"]
  BY <1>1 DEF Idle
<1>4. m.type \in {"execution:enqueued", "step:completed"}
  BY <1>2 DEF OrchestrationMessages, ExecutionEnqueued, StepCompleted
<1>5. TypeOK'
  <2>1. planner' \in PlannerStates
    BY <1>2, <1>3 DEF PlannerStates, PlannerPlaces
  <2> QED
    BY <2>1, <1>1, <1>2 DEF IInv, TypeOK, storeVars, boundVars
<1>6. MessagesConsistent'
  BY <1>1, <1>2 DEF IInv, MessagesConsistent, storeVars
<1>7. PlannerConsistent'
  BY <1>1, <1>2, <1>3, <1>4 DEF PlannerConsistent
<1>8. RunnerConsistent'
  BY <1>1, RunnerKept DEF storeVars
<1> QED
  BY <1>1, <1>5, <1>6, <1>7, <1>8, Quiet

\* The planner thinks: only its own state changes.
LEMMA PlannerThinks ==
  ASSUME IInv, UNCHANGED <<storeVars, queueVars, runner, unannounced, runs, boundVars>>,
         planner' = Idle \/ planner' \in PlannerStates, PlannerConsistent'
  PROVE  IInv'
<1>1. TypeOK'
  BY DEF IInv, TypeOK, storeVars, queueVars, boundVars
<1>2. MessagesConsistent'
  BY SettledMessages DEF storeVars
<1>3. RunnerConsistent'
  BY RunnerKept DEF storeVars, queueVars
<1> QED
  BY <1>1, <1>2, <1>3, Quiet DEF storeVars

LEMMA ReadKeepsIInv ==
  ASSUME IInv, ReadOutcome
  PROVE  IInv'
<1> DEFINE e == planner.msg.exec
           n == planner.msg.node
           place == AfterRead(e, n)
<1>1. /\ planner.at = "read" /\ planner # Idle
      /\ planner' = IF place = "idle" THEN Idle ELSE [planner EXCEPT !.at = place]
      /\ UNCHANGED <<storeVars, queueVars, runner, unannounced, runs, boundVars>>
  BY DEF ReadOutcome, PlannerAt, PlannerDone, PlannerTo, Idle
<1>2. /\ planner.msg \in sent /\ planner.msg.type = "step:completed"
      /\ planner.msg \in OrchestrationMessages /\ planner.todo \subseteq Nodes
      /\ planner.outcome \in {"none", "completed", "failed"}
      /\ planner = [at |-> planner.at, msg |-> planner.msg, todo |-> planner.todo,
                    outcome |-> planner.outcome]
  BY <1>1, PlannerTyped, PlannerFacts DEF IInv
<1>3. /\ place \in {"idle", "fail", "plan", "check"}
      /\ place = "fail" => step[e][n] = "failed"
      /\ place = "plan" => execution[e] = "running" /\ step[e][n] = "completed"
      /\ place = "check" => execution[e] = "running"
  BY DEF AfterRead
<1> HIDE DEF place
<1>4. CASE place = "idle"
  <2>1. planner' = Idle
    BY <1>1, <1>4
  <2>2. PlannerConsistent'
    BY <2>1 DEF PlannerConsistent
  <2> QED
    BY <1>1, <2>1, <2>2, PlannerThinks
<1>5. CASE place # "idle"
  <2>1. planner' = [at |-> place, msg |-> planner.msg, todo |-> planner.todo,
                    outcome |-> planner.outcome]
    BY <1>1, <1>2, <1>5
  <2>2. planner' \in PlannerStates
    BY <1>2, <1>3, <1>5, <2>1 DEF PlannerStates, PlannerPlaces
  <2>3. PlannerConsistent'
    BY <1>1, <1>2, <1>3, <1>5, <2>1 DEF PlannerConsistent, storeVars, queueVars
  <2> QED
    BY <1>1, <2>2, <2>3, PlannerThinks
<1> QED
  BY <1>4, <1>5

LEMMA CheckKeepsIInv ==
  ASSUME IInv, CheckActive \/ Judge
  PROVE  IInv'
<1> DEFINE e == planner.msg.exec
<1>1. /\ planner.at \in {"check", "judge"} /\ planner # Idle
      /\ UNCHANGED <<storeVars, queueVars, runner, unannounced, runs, boundVars>>
  BY DEF CheckActive, Judge, PlannerAt, Idle
<1>2. /\ planner.msg \in sent /\ planner.msg.type = "step:completed"
      /\ planner.msg \in OrchestrationMessages /\ planner.todo \subseteq Nodes
      /\ planner.outcome \in {"none", "completed", "failed"}
      /\ planner = [at |-> planner.at, msg |-> planner.msg, todo |-> planner.todo,
                    outcome |-> planner.outcome]
      /\ execution[e] = "running"
      /\ planner.at = "judge" => ~HasActiveSteps(e)
  BY <1>1, PlannerTyped, PlannerFacts DEF IInv
<1>3. CASE CheckActive /\ HasActiveSteps(e)
  <2>1. planner' = Idle
    BY <1>3 DEF CheckActive, PlannerDone
  <2>2. PlannerConsistent'
    BY <2>1 DEF PlannerConsistent
  <2> QED
    BY <1>1, <2>1, <2>2, PlannerThinks
<1>4. CASE CheckActive /\ ~HasActiveSteps(e)
  <2>1. planner' = [at |-> "judge", msg |-> planner.msg, todo |-> planner.todo,
                    outcome |-> planner.outcome]
    BY <1>2, <1>4 DEF CheckActive, PlannerTo
  <2>2. planner' \in PlannerStates
    BY <1>2, <2>1 DEF PlannerStates, PlannerPlaces
  <2>3. PlannerConsistent'
    BY <1>1, <1>2, <1>4, <2>1 DEF PlannerConsistent, HasActiveSteps, storeVars, queueVars
  <2> QED
    BY <1>1, <2>2, <2>3, PlannerThinks
<1>5. CASE Judge
  <2> DEFINE verdict == IF HasFailedSteps(e) THEN "failed" ELSE "completed"
  <2>1. planner' = [at |-> "finish", msg |-> planner.msg, todo |-> planner.todo,
                    outcome |-> verdict]
    BY <1>2, <1>5 DEF Judge
  <2>2. planner' \in PlannerStates
    BY <1>2, <2>1 DEF PlannerStates, PlannerPlaces
  <2>3. ~HasActiveSteps(e) /\ verdict = IF HasFailedSteps(e) THEN "failed" ELSE "completed"
    BY <1>2, <1>5 DEF Judge, PlannerAt
  <2> HIDE DEF verdict
  <2>4. PlannerConsistent'
    BY <1>1, <1>2, <2>1, <2>3
       DEF PlannerConsistent, HasActiveSteps, HasFailedSteps, storeVars, queueVars
  <2> QED
    BY <1>1, <2>2, <2>4, PlannerThinks
<1> QED
  BY <1>3, <1>4, <1>5 DEF CheckActive

LEMMA AnnouncingKeepsIInv ==
  ASSUME IInv, AnnounceTrigger \/ AnnounceStep
  PROVE  IInv'
<1> DEFINE e == planner.msg.exec
<1>1. /\ planner.at \in {"announceTrigger", "announce"} /\ planner # Idle
      /\ UNCHANGED <<storeVars, runner, unannounced, runs, boundVars>>
  BY DEF AnnounceTrigger, AnnounceStep, PlannerAt, Idle
<1>2. /\ planner.msg \in sent
      /\ planner.msg \in OrchestrationMessages /\ e \in Execs /\ planner.todo \subseteq Nodes
      /\ planner.outcome \in {"none", "completed", "failed"}
      /\ planner = [at |-> planner.at, msg |-> planner.msg, todo |-> planner.todo,
                    outcome |-> planner.outcome]
      /\ planner.at = "announceTrigger" => \A x \in planner.todo : step[e][x] = "completed"
      /\ planner.at = "announce" => planner.msg.type # "execution:enqueued"
  BY <1>1, PlannerTyped, PlannerFacts DEF IInv
<1>3. PICK n \in planner.todo :
        \/ /\ planner.at = "announceTrigger"
           /\ PublishOrchestration(StepCompleted(e, n))
           /\ planner' = Idle
        \/ /\ planner.at = "announce"
           /\ PublishStep(StepReady(e, n))
           /\ planner' = Idle \/ planner' = [planner EXCEPT !.todo = @ \ {n}]
  BY DEF AnnounceTrigger, AnnounceStep, PlannerAt, PlannerDone
<1>4. n \in Nodes
  BY <1>2
<1>5. /\ StepCompleted(e, n) \in OrchestrationMessages \cap Messages
      /\ StepReady(e, n) \in StepMessages \cap Messages
      /\ StepReady(e, n).type = "step:ready"
      /\ StepCompleted(e, n).exec = e /\ StepCompleted(e, n).node = n
  BY <1>2, <1>4 DEF Messages, OrchestrationMessages, StepMessages, StepCompleted, StepReady
<1>6. /\ MessagesConsistent' /\ sent \subseteq sent' /\ sent' \subseteq Messages
      /\ orchestrationQueue' \in Seq(OrchestrationMessages) /\ stepQueue' \in Seq(StepMessages)
  BY <1>1, <1>2, <1>3, <1>5, Publishing DEF storeVars
<1>7. /\ planner' = Idle \/ planner' \in PlannerStates
      /\ PlannerConsistent'
  <2>1. CASE planner' = Idle
    BY <2>1 DEF PlannerConsistent
  <2>2. CASE planner.at = "announce" /\ planner' = [planner EXCEPT !.todo = @ \ {n}]
    <3>1. planner' = [at |-> "announce", msg |-> planner.msg, todo |-> planner.todo \ {n},
                      outcome |-> planner.outcome]
      BY <1>2, <2>2
    <3>2. planner' \in PlannerStates
      BY <1>2, <3>1 DEF PlannerStates, PlannerPlaces
    <3>3. PlannerConsistent'
      BY <1>2, <1>6, <2>2, <3>1 DEF PlannerConsistent
    <3> QED
      BY <3>2, <3>3
  <2> QED
    BY <1>3, <2>1, <2>2
<1>8. TypeOK'
  BY <1>1, <1>6, <1>7 DEF IInv, TypeOK, storeVars, boundVars
<1>9. RunnerConsistent'
  BY <1>1, <1>6, RunnerKept DEF storeVars
<1> QED
  BY <1>1, <1>6, <1>7, <1>8, <1>9, Quiet

\* The planner writes: the tables change as the lemmas above allow, and only its
\* own state beside them.
LEMMA PlannerWrites ==
  ASSUME IInv, UNCHANGED <<queueVars, runner, unannounced, runs, boundVars, graph>>,
         execution' \in [Execs -> ExecutionStatuses \cup {"absent"}],
         step' \in [Execs -> [Nodes -> StepStatuses \cup {"absent"}]],
         \A x \in Execs, y \in Nodes :
           step[x][y] \in {"running", "completed", "failed"} => step'[x][y] = step[x][y],
         planner' = Idle \/ planner' \in PlannerStates, PlannerConsistent',
         RowsAgree', MessagesConsistent', StepsRunOnce', InputsAvailable', CompletedIsClean'
  PROVE  IInv'
<1>1. TypeOK'
  BY DEF IInv, TypeOK, queueVars, boundVars
<1>2. RunnerConsistent'
  BY RunnerKept DEF queueVars
<1> QED
  BY <1>1, <1>2 DEF IInv

LEMMA ClaimExecutionKeepsIInv ==
  ASSUME IInv, ClaimExecution
  PROVE  IInv'
<1> DEFINE e == planner.msg.exec
<1>1. /\ planner.at = "claim" /\ planner # Idle
      /\ UNCHANGED <<queueVars, runner, unannounced, runs, boundVars>>
  BY DEF ClaimExecution, PlannerAt, Idle
<1>2. /\ planner.msg \in sent /\ planner.msg.type = "execution:enqueued"
      /\ planner.msg \in OrchestrationMessages /\ planner.todo \subseteq Nodes /\ e \in Execs
      /\ planner.outcome \in {"none", "completed", "failed"}
      /\ planner = [at |-> planner.at, msg |-> planner.msg, todo |-> planner.todo,
                    outcome |-> planner.outcome]
  BY <1>1, PlannerTyped, PlannerFacts DEF IInv
<1>3. CASE execution[e] # "queued"
  <2>1. planner' = Idle /\ UNCHANGED storeVars
    BY <1>3 DEF ClaimExecution, PlannerDone
  <2>2. PlannerConsistent'
    BY <2>1 DEF PlannerConsistent
  <2> QED
    BY <1>1, <2>1, <2>2, PlannerThinks
<1>4. CASE execution[e] = "queued"
  <2>1. SetExecution(e, "running") /\ PlannerTo("trigger")
    BY <1>4 DEF ClaimExecution
  <2>2. planner' = [at |-> "trigger", msg |-> planner.msg, todo |-> planner.todo,
                    outcome |-> planner.outcome]
    BY <1>2, <2>1 DEF PlannerTo
  <2>3. /\ execution' \in [Execs -> ExecutionStatuses \cup {"absent"}]
        /\ execution'[e] = "running" /\ graph' = graph /\ step' = step
    BY <1>2, <2>1, SettingExecution DEF IInv, ExecutionStatuses
  <2>4. RowsAgree' /\ MessagesConsistent' /\ StepsRunOnce' /\ InputsAvailable' /\ CompletedIsClean'
    BY <1>1, <1>2, <1>4, <2>1, ExecutionMoves
  <2>5. planner' \in PlannerStates
    BY <1>2, <2>2 DEF PlannerStates, PlannerPlaces
  <2>6. \A x \in Nodes : step'[e][x] = "absent"
    BY <1>2, <1>4, <2>3 DEF IInv, RowsAgree
  <2>7. PlannerConsistent'
    BY <1>1, <1>2, <2>2, <2>3, <2>6 DEF PlannerConsistent, queueVars
  <2> QED
    BY <1>1, <2>3, <2>4, <2>5, <2>7, PlannerWrites DEF IInv, TypeOK
<1> QED
  BY <1>3, <1>4

LEMMA RecordTriggerKeepsIInv ==
  ASSUME IInv, RecordTrigger
  PROVE  IInv'
<1> DEFINE e == planner.msg.exec
           ns == Insertable(e, Triggers(graph[e]))
<1>1. /\ planner.at = "trigger" /\ planner # Idle
      /\ SetSteps(e, ns, "completed")
      /\ planner' = [planner EXCEPT !.at = "announceTrigger", !.todo = ns]
      /\ UNCHANGED <<queueVars, runner, unannounced, runs, boundVars>>
  BY DEF RecordTrigger, PlannerAt, Idle, CreateSteps
<1>2. /\ planner.msg \in sent /\ planner.msg.type = "execution:enqueued"
      /\ planner.msg \in OrchestrationMessages /\ e \in Execs
      /\ planner.outcome \in {"none", "completed", "failed"}
      /\ planner = [at |-> planner.at, msg |-> planner.msg, todo |-> planner.todo,
                    outcome |-> planner.outcome]
      /\ execution[e] = "running" /\ \A x \in Nodes : step[e][x] = "absent"
  BY <1>1, PlannerTyped, PlannerFacts DEF IInv
<1>3. graph[e] \in Graphs
  BY <1>2 DEF IInv, RowsAgree
<1>4. ns \subseteq Nodes /\ ns \subseteq Triggers(graph[e])
  BY <1>3, GraphNodes DEF Insertable
<1> HIDE DEF ns
<1>5. planner' = [at |-> "announceTrigger", msg |-> planner.msg, todo |-> ns,
                  outcome |-> planner.outcome]
  BY <1>1, <1>2
<1>6. /\ step' \in [Execs -> [Nodes -> StepStatuses \cup {"absent"}]]
      /\ \A n \in ns : step'[e][n] = "completed"
      /\ graph' = graph /\ execution' = execution
      /\ \A x \in Execs, y \in Nodes : step[x][y] # "absent" => step'[x][y] = step[x][y]
  BY <1>1, <1>2, <1>4, SettingSteps DEF IInv, StepStatuses
<1>7. RowsAgree' /\ MessagesConsistent' /\ StepsRunOnce' /\ InputsAvailable' /\ CompletedIsClean'
  <2>1. \A n \in ns : step[e][n] = "absent"
    BY <1>2, <1>4
  <2> QED
    BY <1>1, <1>2, <1>4, <2>1, StepsMove DEF StepStatuses
<1>8. planner' \in PlannerStates
  BY <1>2, <1>4, <1>5 DEF PlannerStates, PlannerPlaces
<1>9. PlannerConsistent'
  BY <1>1, <1>2, <1>5, <1>6 DEF PlannerConsistent, queueVars
<1> QED
  BY <1>1, <1>6, <1>7, <1>8, <1>9, PlannerWrites DEF IInv, TypeOK

LEMMA PlanKeepsIInv ==
  ASSUME IInv, PlanSuccessors
  PROVE  IInv'
<1> DEFINE e == planner.msg.exec
           n == planner.msg.node
           ready == Ready(e, n)
           ns == Insertable(e, ready)
           place == IF ns = {} THEN "check" ELSE "announce"
<1>1. /\ planner.at = "plan" /\ planner # Idle
      /\ SetSteps(e, ns, "queued")
      /\ planner' = [planner EXCEPT !.todo = ns, !.at = place]
      /\ UNCHANGED <<queueVars, runner, unannounced, runs, boundVars>>
  BY DEF PlanSuccessors, PlannerAt, Idle, CreateSteps
<1>2. /\ planner.msg \in sent /\ planner.msg.type = "step:completed"
      /\ planner.msg \in OrchestrationMessages /\ e \in Execs /\ n \in Nodes
      /\ planner.outcome \in {"none", "completed", "failed"}
      /\ planner = [at |-> planner.at, msg |-> planner.msg, todo |-> planner.todo,
                    outcome |-> planner.outcome]
      /\ execution[e] = "running" /\ step[e][n] = "completed"
  BY <1>1, PlannerTyped, PlannerFacts DEF IInv
<1>3. graph[e] \in Graphs
  BY <1>2 DEF IInv, RowsAgree
<1>4. /\ ns \subseteq Nodes
      /\ \A m \in ns : step[e][m] = "absent"
      /\ \A m \in ns : \A p \in Predecessors(graph[e], m) : step[e][p] = "completed"
  BY <1>2, <1>3, GraphNodes DEF Insertable, Ready
<1>5. place \in {"check", "announce"}
  OBVIOUS
<1> HIDE DEF ns, ready, place
<1>6. planner' = [at |-> place, msg |-> planner.msg, todo |-> ns, outcome |-> planner.outcome]
  BY <1>1, <1>2
<1>7. /\ step' \in [Execs -> [Nodes -> StepStatuses \cup {"absent"}]]
      /\ graph' = graph /\ execution' = execution
      /\ \A x \in Execs, y \in Nodes : step[x][y] # "absent" => step'[x][y] = step[x][y]
  BY <1>1, <1>2, <1>4, SettingSteps DEF IInv, StepStatuses
<1>8. RowsAgree' /\ MessagesConsistent' /\ StepsRunOnce' /\ InputsAvailable' /\ CompletedIsClean'
  BY <1>1, <1>2, <1>4, StepsMove DEF StepStatuses
<1>9. planner' \in PlannerStates
  BY <1>2, <1>4, <1>5, <1>6 DEF PlannerStates, PlannerPlaces
<1>10. PlannerConsistent'
  BY <1>1, <1>2, <1>5, <1>6, <1>7 DEF PlannerConsistent, queueVars
<1> QED
  BY <1>1, <1>7, <1>8, <1>9, <1>10, PlannerWrites DEF IInv, TypeOK

LEMMA FinishKeepsIInv ==
  ASSUME IInv, Finish
  PROVE  IInv'
<1> DEFINE e == planner.msg.exec
<1>1. /\ planner.at = "finish" /\ planner # Idle
      /\ FinishExecution(e, planner.outcome)
      /\ planner' = Idle
      /\ UNCHANGED <<queueVars, runner, unannounced, runs, boundVars>>
  BY DEF Finish, PlannerAt, PlannerDone, Idle
<1>2. /\ e \in Execs /\ execution[e] = "running" /\ ~HasActiveSteps(e)
      /\ planner.outcome \in {"failed", "completed"}
      /\ planner.outcome = "completed" => ~HasFailedSteps(e)
  BY <1>1, PlannerTyped, PlannerFacts DEF IInv
<1>3. SetExecution(e, planner.outcome)
  BY <1>1, <1>2 DEF FinishExecution
<1>4. /\ execution' \in [Execs -> ExecutionStatuses \cup {"absent"}]
      /\ graph' = graph /\ step' = step
  BY <1>2, <1>3, SettingExecution DEF IInv, ExecutionStatuses
<1>5. RowsAgree' /\ MessagesConsistent' /\ StepsRunOnce' /\ InputsAvailable' /\ CompletedIsClean'
  BY <1>1, <1>2, <1>3, ExecutionMoves
<1>6. PlannerConsistent'
  BY <1>1 DEF PlannerConsistent
<1> QED
  BY <1>1, <1>4, <1>5, <1>6, PlannerWrites DEF IInv, TypeOK

LEMMA FailKeepsIInv ==
  ASSUME IInv, FailExecution
  PROVE  IInv'
<1> DEFINE e == planner.msg.exec
           n == planner.msg.node
<1>1. /\ planner.at = "fail" /\ planner # Idle
      /\ FinishExecution(e, "failed")
      /\ planner' = [planner EXCEPT !.at = "cancel"]
      /\ UNCHANGED <<queueVars, runner, unannounced, runs, boundVars>>
  BY DEF FailExecution, PlannerAt, PlannerTo, Idle
<1>2. /\ planner.msg \in sent /\ planner.msg.type = "step:completed"
      /\ planner.msg \in OrchestrationMessages /\ e \in Execs /\ n \in Nodes
      /\ planner.todo \subseteq Nodes
      /\ planner.outcome \in {"none", "completed", "failed"}
      /\ planner = [at |-> planner.at, msg |-> planner.msg, todo |-> planner.todo,
                    outcome |-> planner.outcome]
      /\ step[e][n] = "failed"
  BY <1>1, PlannerTyped, PlannerFacts DEF IInv
<1>3. execution[e] \in {"running", "failed"}
  BY <1>2 DEF IInv, RowsAgree
<1>4. planner' = [at |-> "cancel", msg |-> planner.msg, todo |-> planner.todo,
                  outcome |-> planner.outcome]
  BY <1>1, <1>2
<1>5. planner' \in PlannerStates
  BY <1>2, <1>4 DEF PlannerStates, PlannerPlaces
<1>6. CASE execution[e] = "running"
  <2>1. SetExecution(e, "failed")
    BY <1>1, <1>6 DEF FinishExecution
  <2>2. /\ execution' \in [Execs -> ExecutionStatuses \cup {"absent"}]
        /\ execution'[e] = "failed" /\ graph' = graph /\ step' = step
    BY <1>2, <2>1, SettingExecution DEF IInv, ExecutionStatuses
  <2>3. RowsAgree' /\ MessagesConsistent' /\ StepsRunOnce' /\ InputsAvailable' /\ CompletedIsClean'
    BY <1>1, <1>2, <1>6, <2>1, ExecutionMoves
  <2>4. PlannerConsistent'
    BY <1>1, <1>2, <1>4, <2>2 DEF PlannerConsistent, queueVars
  <2> QED
    BY <1>1, <1>5, <2>2, <2>3, <2>4, PlannerWrites DEF IInv, TypeOK
<1>7. CASE execution[e] = "failed"
  <2>1. UNCHANGED storeVars
    BY <1>1, <1>7 DEF FinishExecution
  <2>2. PlannerConsistent'
    BY <1>1, <1>2, <1>4, <1>7, <2>1 DEF PlannerConsistent, queueVars, storeVars
  <2> QED
    BY <1>1, <1>5, <2>1, <2>2, PlannerThinks
<1> QED
  BY <1>3, <1>6, <1>7

LEMMA CancelKeepsIInv ==
  ASSUME IInv, CancelSteps
  PROVE  IInv'
<1> DEFINE e == planner.msg.exec
           ns == {n \in Nodes : step[e][n] = "queued"}
<1>1. /\ planner.at = "cancel" /\ planner # Idle
      /\ SetSteps(e, ns, "cancelled")
      /\ planner' = Idle
      /\ UNCHANGED <<queueVars, runner, unannounced, runs, boundVars>>
  BY DEF CancelSteps, CancelQueuedSteps, PlannerAt, PlannerDone, Idle
<1>2. e \in Execs /\ execution[e] = "failed"
  BY <1>1, PlannerTyped, PlannerFacts DEF IInv
<1>3. ns \subseteq Nodes /\ \A n \in ns : step[e][n] = "queued"
  OBVIOUS
<1> HIDE DEF ns
<1>4. /\ step' \in [Execs -> [Nodes -> StepStatuses \cup {"absent"}]]
      /\ graph' = graph /\ execution' = execution
      /\ \A x \in Execs, y \in Nodes : step[x][y] # "queued" => step'[x][y] = step[x][y]
  BY <1>1, <1>2, <1>3, SettingSteps DEF IInv, StepStatuses
<1>5. RowsAgree' /\ MessagesConsistent' /\ StepsRunOnce' /\ InputsAvailable' /\ CompletedIsClean'
  BY <1>1, <1>2, <1>3, StepsMove DEF StepStatuses
<1>6. PlannerConsistent'
  BY <1>1 DEF PlannerConsistent
<1> QED
  BY <1>1, <1>4, <1>5, <1>6, PlannerWrites DEF IInv, TypeOK

\* The runner comes to a new place; its statement, if any, moved a step as the
\* lemmas above allow.
LEMMA RunnerWrites ==
  ASSUME IInv, UNCHANGED <<queueVars, planner, unannounced, runs, boundVars, graph, execution>>,
         step' \in [Execs -> [Nodes -> StepStatuses \cup {"absent"}]],
         runner' = Idle \/ runner' \in RunnerStates, RunnerConsistent', PlannerConsistent',
         RowsAgree', MessagesConsistent', StepsRunOnce', InputsAvailable', CompletedIsClean'
  PROVE  IInv'
<1>1. TypeOK'
  BY DEF IInv, TypeOK, queueVars, boundVars
<1> QED
  BY <1>1 DEF IInv

\* What the runner's place says, and its message.
LEMMA RunnerFacts ==
  ASSUME IInv, runner # Idle
  PROVE  /\ runner.msg \in sent
         /\ runner.msg \in StepMessages
         /\ runner.msg.exec \in Execs /\ runner.msg.node \in Nodes
         /\ runner = [at |-> runner.at, msg |-> runner.msg, todo |-> {}, outcome |-> "none"]
         /\ runner.at \in {"load", "execute"} => step[runner.msg.exec][runner.msg.node] = "running"
         /\ runner.at = "load" => runs[runner.msg.exec][runner.msg.node] = 0
         /\ runner.at = "report" =>
              step[runner.msg.exec][runner.msg.node] \in {"completed", "failed"}
BY RunnerTyped DEF IInv, RunnerConsistent

LEMMA TakeStepKeepsIInv ==
  ASSUME IInv, TakeStep
  PROVE  IInv'
<1> DEFINE m == Head(stepQueue)
<1>1. /\ stepQueue # <<>>
      /\ runner' = [Idle EXCEPT !.at = "claim", !.msg = m]
      /\ stepQueue' = Tail(stepQueue)
      /\ UNCHANGED <<storeVars, orchestrationQueue, sent, runs, planner, unannounced, boundVars>>
  BY DEF TakeStep, RunnerAt
<1>2. /\ m \in StepMessages /\ m \in sent
      /\ stepQueue' \in Seq(StepMessages)
      /\ \A i \in DOMAIN stepQueue' : stepQueue'[i] \in sent
  <2>1. stepQueue \in Seq(StepMessages)
    BY DEF IInv, TypeOK
  <2> QED
    BY <2>1, <1>1, Taking DEF IInv, MessagesConsistent
<1>3. runner' = [at |-> "claim", msg |-> m, todo |-> {}, outcome |-> "none"]
  BY <1>1 DEF Idle
<1>4. TypeOK'
  <2>1. runner' \in RunnerStates
    BY <1>2, <1>3 DEF RunnerStates, RunnerPlaces
  <2> QED
    BY <2>1, <1>1, <1>2 DEF IInv, TypeOK, storeVars, boundVars
<1>5. MessagesConsistent'
  BY <1>1, <1>2 DEF IInv, MessagesConsistent, storeVars
<1>6. RunnerConsistent'
  BY <1>1, <1>2, <1>3 DEF RunnerConsistent
<1>7. PlannerConsistent'
  BY <1>1, PlannerUnmoved DEF storeVars
<1> QED
  BY <1>1, <1>4, <1>5, <1>6, <1>7, Quiet

\* The runner comes back without having changed anything.
LEMMA RunnerThinks ==
  ASSUME IInv, UNCHANGED <<storeVars, queueVars, planner, unannounced, runs, boundVars>>,
         runner' = Idle
  PROVE  IInv'
<1>1. TypeOK'
  BY DEF IInv, TypeOK, storeVars, queueVars, boundVars
<1>2. MessagesConsistent'
  BY SettledMessages DEF storeVars
<1>3. PlannerConsistent'
  BY PlannerUnmoved DEF storeVars, queueVars
<1>4. RunnerConsistent'
  BY DEF RunnerConsistent
<1> QED
  BY <1>1, <1>2, <1>3, <1>4, Quiet DEF storeVars

LEMMA ClaimStepKeepsIInv ==
  ASSUME IInv, ClaimStep
  PROVE  IInv'
<1> DEFINE e == runner.msg.exec
           n == runner.msg.node
<1>1. /\ runner.at = "claim" /\ runner # Idle
      /\ UNCHANGED <<queueVars, runs, planner, unannounced, boundVars>>
  BY DEF ClaimStep, RunnerAt, Idle
<1>2. /\ runner.msg \in sent /\ runner.msg \in StepMessages /\ e \in Execs /\ n \in Nodes
      /\ runner = [at |-> runner.at, msg |-> runner.msg, todo |-> {}, outcome |-> "none"]
  BY <1>1, RunnerFacts
<1>3. CASE step[e][n] # "queued"
  <2>1. runner' = Idle /\ UNCHANGED storeVars
    BY <1>3 DEF ClaimStep, ClaimableStep, RunnerDone
  <2> QED
    BY <1>1, <2>1, RunnerThinks
<1>4. CASE step[e][n] = "queued"
  <2>1. SetSteps(e, {n}, "running") /\ RunnerTo("load")
    BY <1>4 DEF ClaimStep, ClaimableStep
  <2>2. runner' = [at |-> "load", msg |-> runner.msg, todo |-> {}, outcome |-> "none"]
    BY <1>2, <2>1 DEF RunnerTo
  <2>3. /\ step' \in [Execs -> [Nodes -> StepStatuses \cup {"absent"}]]
        /\ step'[e][n] = "running"
        /\ graph' = graph /\ execution' = execution
        /\ \A x \in Execs, y \in Nodes : x # e \/ y # n => step'[x][y] = step[x][y]
    BY <1>2, <2>1, SettingSteps DEF IInv, StepStatuses
  <2>4. execution[e] \in {"running", "completed", "failed"} /\ runs[e][n] = 0
    <3>1. execution[e] \in ExecutionStatuses \cup {"absent"}
      BY <1>2 DEF IInv, TypeOK
    <3> QED
      BY <1>2, <1>4, <3>1 DEF IInv, RowsAgree, ExecutionStatuses
  <2>5. execution[e] # "completed"
    BY <1>2, <1>4 DEF IInv, CompletedIsClean
  <2>6. RowsAgree' /\ MessagesConsistent' /\ StepsRunOnce' /\ InputsAvailable' /\ CompletedIsClean'
    BY <1>1, <1>2, <1>4, <2>1, <2>4, <2>5, StepsMove DEF StepStatuses
  <2>7. runner' \in RunnerStates
    BY <1>2, <2>2 DEF RunnerStates, RunnerPlaces
  <2>8. RunnerConsistent'
    BY <1>1, <1>2, <2>2, <2>3, <2>4 DEF RunnerConsistent, queueVars
  <2>9. PlannerConsistent'
    BY <1>1, <1>2, <1>4, <2>3, PlannerKept DEF queueVars
  <2> QED
    BY <1>1, <2>3, <2>6, <2>7, <2>8, <2>9, RunnerWrites
<1> QED
  BY <1>3, <1>4

LEMMA LoadKeepsIInv ==
  ASSUME IInv, LoadStep
  PROVE  IInv'
<1> DEFINE e == runner.msg.exec
           n == runner.msg.node
<1>1. /\ runner.at = "load" /\ runner # Idle
      /\ UNCHANGED <<storeVars, queueVars, planner, unannounced, boundVars>>
  BY DEF LoadStep, RunnerAt, Idle
<1>2. /\ runner.msg \in sent /\ runner.msg \in StepMessages /\ e \in Execs /\ n \in Nodes
      /\ runner = [at |-> runner.at, msg |-> runner.msg, todo |-> {}, outcome |-> "none"]
      /\ step[e][n] = "running" /\ runs[e][n] = 0
  BY <1>1, RunnerFacts
<1>3. CASE ~Runnable(e, n)
  <2>1. runner' = Idle /\ UNCHANGED runs
    BY <1>3 DEF LoadStep, RunnerDone
  <2> QED
    BY <1>1, <2>1, RunnerThinks
<1>4. CASE Runnable(e, n)
  <2>1. /\ runner' = [at |-> "execute", msg |-> runner.msg, todo |-> {}, outcome |-> "none"]
        /\ runs' = [runs EXCEPT ![e][n] = @ + 1]
    BY <1>2, <1>4 DEF LoadStep, RunnerTo
  <2>2. runner' \in RunnerStates
    BY <1>2, <2>1 DEF RunnerStates, RunnerPlaces
  <2>3. /\ runs' \in [Execs -> [Nodes -> Nat]]
        /\ runs'[e][n] = 1
        /\ \A x \in Execs, y \in Nodes : x # e \/ y # n => runs'[x][y] = runs[x][y]
    <3>1. runs \in [Execs -> [Nodes -> Nat]]
      BY DEF IInv, TypeOK
    <3> QED
      BY <1>2, <2>1, <3>1
  <2>4. TypeOK'
    BY <1>1, <2>2, <2>3 DEF IInv, TypeOK, storeVars, queueVars, boundVars
  <2>5. StepsRunOnce'
    BY <2>3 DEF IInv, StepsRunOnce
  <2>6. RowsAgree'
    BY <1>1, <1>2, <2>3 DEF IInv, RowsAgree, storeVars
  <2>7. MessagesConsistent' /\ PlannerConsistent'
    BY <1>1, SettledMessages, PlannerUnmoved DEF storeVars, queueVars
  <2>8. RunnerConsistent'
    BY <1>1, <1>2, <2>1 DEF RunnerConsistent, storeVars, queueVars
  <2>9. InputsAvailable' /\ CompletedIsClean'
    BY <1>1 DEF IInv, InputsAvailable, CompletedIsClean, storeVars
  <2> QED
    BY <2>4, <2>5, <2>6, <2>7, <2>8, <2>9 DEF IInv
<1> QED
  BY <1>3, <1>4

LEMMA RecordStepKeepsIInv ==
  ASSUME IInv, RecordStep
  PROVE  IInv'
<1> DEFINE e == runner.msg.exec
           n == runner.msg.node
<1>1. /\ runner.at = "execute" /\ runner # Idle
      /\ UNCHANGED <<queueVars, runs, planner, unannounced, boundVars>>
  BY DEF RecordStep, RunnerAt, Idle
<1>2. /\ runner.msg \in sent /\ runner.msg \in StepMessages /\ e \in Execs /\ n \in Nodes
      /\ runner = [at |-> runner.at, msg |-> runner.msg, todo |-> {}, outcome |-> "none"]
      /\ step[e][n] = "running"
  BY <1>1, RunnerFacts
<1>3. PICK s \in {"completed", "failed"} : SetSteps(e, {n}, s)
  BY <1>2 DEF RecordStep
<1>4. runner' = [at |-> "report", msg |-> runner.msg, todo |-> {}, outcome |-> "none"]
  BY <1>2 DEF RecordStep, RunnerTo
<1>5. /\ step' \in [Execs -> [Nodes -> StepStatuses \cup {"absent"}]]
      /\ step'[e][n] = s
      /\ graph' = graph /\ execution' = execution
      /\ \A x \in Execs, y \in Nodes : x # e \/ y # n => step'[x][y] = step[x][y]
  BY <1>2, <1>3, SettingSteps DEF IInv, StepStatuses
<1>6. execution[e] \in {"running", "failed"}
  <2>1. execution[e] \in ExecutionStatuses \cup {"absent"}
    BY <1>2 DEF IInv, TypeOK
  <2>2. execution[e] # "completed"
    BY <1>2 DEF IInv, CompletedIsClean
  <2> QED
    BY <1>2, <2>1, <2>2 DEF IInv, RowsAgree, ExecutionStatuses
<1>7. RowsAgree' /\ MessagesConsistent' /\ StepsRunOnce' /\ InputsAvailable' /\ CompletedIsClean'
  BY <1>1, <1>2, <1>3, <1>6, StepsMove DEF StepStatuses
<1>8. runner' \in RunnerStates
  BY <1>2, <1>4 DEF RunnerStates, RunnerPlaces
<1>9. RunnerConsistent'
  BY <1>1, <1>2, <1>4, <1>5 DEF RunnerConsistent, queueVars
<1>10. PlannerConsistent'
  BY <1>1, <1>2, <1>5, PlannerKept DEF queueVars
<1> QED
  BY <1>1, <1>5, <1>7, <1>8, <1>9, <1>10, RunnerWrites

LEMMA ReportKeepsIInv ==
  ASSUME IInv, ReportStep
  PROVE  IInv'
<1> DEFINE e == runner.msg.exec
           n == runner.msg.node
           m == StepCompleted(e, n)
<1>1. /\ runner.at = "report" /\ runner # Idle /\ runner' = Idle
      /\ PublishOrchestration(m)
      /\ UNCHANGED <<storeVars, runs, planner, unannounced, boundVars>>
  BY DEF ReportStep, RunnerAt, RunnerDone, Idle
<1>2. e \in Execs /\ n \in Nodes /\ step[e][n] \in {"completed", "failed"}
  BY <1>1, RunnerFacts
<1>3. /\ m \in OrchestrationMessages /\ m \in Messages
      /\ m.exec = e /\ m.node = n
  BY <1>2 DEF Messages, OrchestrationMessages, StepCompleted
<1> HIDE DEF m
<1>4. /\ MessagesConsistent' /\ sent \subseteq sent' /\ sent' \subseteq Messages
      /\ orchestrationQueue' \in Seq(OrchestrationMessages) /\ stepQueue' \in Seq(StepMessages)
  BY <1>1, <1>2, <1>3, Publishing DEF storeVars
<1>5. TypeOK'
  BY <1>1, <1>4 DEF IInv, TypeOK, storeVars, boundVars
<1>6. PlannerConsistent' /\ RunnerConsistent'
  BY <1>1, <1>4, PlannerUnmoved DEF storeVars, RunnerConsistent
<1> QED
  BY <1>1, <1>4, <1>5, <1>6, Quiet

-----------------------------------------------------------------------------
\* Faults.
LEMMA FaultsCounted ==
  ASSUME TypeOK, Fault
  PROVE  faults' \in 0..MaxFaults /\ redeliveries' \in 0..MaxRedeliveries
BY MaxFaultsIsNat, MaxRedeliveriesIsNat DEF TypeOK, Fault

LEMMA CrashKeepsIInv ==
  ASSUME IInv, Crash
  PROVE  IInv'
<1>1. /\ orchestrationQueue' = <<>> /\ stepQueue' = <<>>
      /\ planner' = Idle /\ runner' = Idle /\ unannounced' = {}
      /\ UNCHANGED <<storeVars, sent, runs>>
      /\ faults' \in 0..MaxFaults /\ redeliveries' \in 0..MaxRedeliveries
  BY FaultsCounted DEF Crash, IInv
<1>2. TypeOK'
  BY <1>1 DEF IInv, TypeOK, storeVars
<1>3. MessagesConsistent'
  BY <1>1 DEF IInv, MessagesConsistent, storeVars
<1>4. PlannerConsistent' /\ RunnerConsistent'
  BY <1>1 DEF PlannerConsistent, RunnerConsistent
<1> QED
  BY <1>1, <1>2, <1>3, <1>4, Quiet

LEMMA ThrowsKeepsIInv ==
  ASSUME IInv, PlannerThrows \/ RunnerThrows
  PROVE  IInv'
<1>1. /\ UNCHANGED <<storeVars, queueVars, unannounced, runs>>
      /\ faults' \in 0..MaxFaults /\ redeliveries' \in 0..MaxRedeliveries
      /\ \/ planner' = Idle /\ UNCHANGED runner
         \/ runner' = Idle /\ UNCHANGED planner
  BY FaultsCounted DEF PlannerThrows, RunnerThrows, PlannerDone, RunnerDone, IInv
<1>2. TypeOK'
  BY <1>1 DEF IInv, TypeOK, storeVars, queueVars
<1>3. MessagesConsistent'
  BY <1>1, SettledMessages DEF storeVars
<1>4. PlannerConsistent'
  BY <1>1, PlannerUnmoved DEF PlannerConsistent, storeVars, queueVars
<1>5. RunnerConsistent'
  BY <1>1, RunnerKept DEF RunnerConsistent, storeVars, queueVars
<1> QED
  BY <1>1, <1>2, <1>3, <1>4, <1>5, Quiet

LEMMA RedeliverKeepsIInv ==
  ASSUME IInv, NEW m \in sent, Redeliver(m)
  PROVE  IInv'
<1>1. /\ UNCHANGED <<storeVars, planner, runner, unannounced, runs, faults>>
      /\ redeliveries' \in 0..MaxRedeliveries
      /\ IF m.type = "step:ready" THEN PublishStep(m) ELSE PublishOrchestration(m)
  BY MaxRedeliveriesIsNat DEF Redeliver, IInv, TypeOK
<1>2. /\ m \in Messages
      /\ m.type = "step:ready" => m \in StepMessages
      /\ m.type # "step:ready" => m \in OrchestrationMessages
  BY DEF IInv, TypeOK, Messages, OrchestrationMessages, StepMessages, ExecutionEnqueued,
         StepCompleted, StepReady
<1>3. m.type = "step:completed" => step[m.exec][m.node] \in {"completed", "failed"}
  BY DEF IInv, MessagesConsistent
<1>4. /\ MessagesConsistent' /\ sent \subseteq sent' /\ sent' \subseteq Messages
      /\ orchestrationQueue' \in Seq(OrchestrationMessages) /\ stepQueue' \in Seq(StepMessages)
  BY <1>1, <1>2, <1>3, Publishing DEF storeVars
<1>5. TypeOK'
  BY <1>1, <1>4 DEF IInv, TypeOK, storeVars
<1>6. PlannerConsistent' /\ RunnerConsistent'
  BY <1>1, <1>4, PlannerUnmoved, RunnerKept DEF storeVars
<1> QED
  BY <1>1, <1>4, <1>5, <1>6, Quiet

-----------------------------------------------------------------------------
LEMMA InitIInv ==
  ASSUME Init
  PROVE  IInv
<1> USE DEF Init, StoreInit
<1>1. TypeOK
  BY MaxFaultsIsNat, MaxRedeliveriesIsNat DEF TypeOK, ExecutionStatuses, StepStatuses
<1>2. RowsAgree /\ StepsRunOnce /\ InputsAvailable /\ CompletedIsClean
  BY DEF RowsAgree, StepsRunOnce, InputsAvailable, CompletedIsClean
<1>3. MessagesConsistent /\ PlannerConsistent /\ RunnerConsistent
  BY DEF MessagesConsistent, PlannerConsistent, RunnerConsistent
<1> QED
  BY <1>1, <1>2, <1>3 DEF IInv

LEMMA NextKeepsIInv ==
  ASSUME IInv, [Next]_vars
  PROVE  IInv'
<1>1. CASE UNCHANGED vars
  <2>1. TypeOK' /\ MessagesConsistent' /\ PlannerConsistent' /\ RunnerConsistent'
    BY <1>1, SettledMessages, PlannerUnmoved, RunnerKept
       DEF vars, queueVars, IInv, TypeOK
  <2> QED
    BY <1>1, <2>1, Quiet DEF vars, storeVars
<1>2. CASE \E e \in Execs : StartExecution(e) \/ AnnounceExecution(e)
  BY <1>2, StartKeepsIInv, AnnounceKeepsIInv
<1>3. CASE OrchestrationWorker
  BY <1>3, TakeKeepsIInv, ClaimExecutionKeepsIInv, RecordTriggerKeepsIInv, AnnouncingKeepsIInv,
     ReadKeepsIInv, PlanKeepsIInv, CheckKeepsIInv, FinishKeepsIInv, FailKeepsIInv,
     CancelKeepsIInv DEF OrchestrationWorker
<1>4. CASE StepWorker
  BY <1>4, TakeStepKeepsIInv, ClaimStepKeepsIInv, LoadKeepsIInv, RecordStepKeepsIInv,
     ReportKeepsIInv DEF StepWorker
<1>5. CASE Crash \/ PlannerThrows \/ RunnerThrows
  BY <1>5, CrashKeepsIInv, ThrowsKeepsIInv
<1>6. CASE \E m \in sent : Redeliver(m)
  BY <1>6, RedeliverKeepsIInv
<1> QED
  BY <1>1, <1>2, <1>3, <1>4, <1>5, <1>6 DEF Next

\* The engine keeps its inductive invariant.
THEOREM EngineInvariance == Spec => []IInv
<1>1. Init => IInv
  BY InitIInv
<1>2. IInv /\ [Next]_vars => IInv'
  BY NextKeepsIInv
<1> QED
  BY <1>1, <1>2, PTL DEF Spec

\* No executor is called twice for a step, and a step exists only on predecessors
\* that completed, for any graphs, crashes and redeliveries.
THEOREM StepsAreSound == Spec => []StepsRunSoundly
<1>1. IInv => StepsRunSoundly
  BY DEF IInv, StepsRunSoundly
<1> QED
  BY <1>1, EngineInvariance, PTL

\* No execution is reported completed over a failed or unfinished step.
THEOREM CompletedStaysClean == Spec => []CompletedIsClean
<1>1. IInv => CompletedIsClean
  BY DEF IInv
<1> QED
  BY <1>1, EngineInvariance, PTL

\* Type correctness.
THEOREM EngineTypeCorrect == Spec => []TypeOK
<1>1. IInv => TypeOK
  BY DEF IInv
<1> QED
  BY <1>1, EngineInvariance, PTL

-----------------------------------------------------------------------------
\* The planner's steps, seen in the tables.
LEMMA PlannerImplements ==
  ASSUME IInv, OrchestrationWorker
  PROVE  [Lifecycle!Next]_storeVars
<1> DEFINE e == planner.msg.exec
           n == planner.msg.node
<1> SUFFICES ASSUME ~UNCHANGED storeVars
             PROVE  Lifecycle!Next
  OBVIOUS
<1>1. planner # Idle
  BY Places DEF OrchestrationWorker, TakeOrchestration, ClaimExecution, RecordTrigger,
     AnnounceTrigger, ReadOutcome, PlanSuccessors, AnnounceStep, CheckActive, Judge, Finish,
     FailExecution, CancelSteps, PlannerAt, Idle
<1>2. e \in Execs
  BY <1>1, PlannerTyped DEF IInv
<1>3. CASE ClaimExecution
  <2>1. execution[e] = "queued" /\ SetExecution(e, "running")
    BY <1>3 DEF ClaimExecution
  <2>2. Lifecycle!Begin(e)
    BY <2>1 DEF Lifecycle!Begin, Lifecycle!SetExecution, SetExecution
  <2> QED
    BY <1>2, <2>2 DEF Lifecycle!Next
<1>4. CASE RecordTrigger
  <2>1. execution[e] = "running" /\ \A x \in Nodes : step[e][x] = "absent"
    BY <1>1, <1>4, PlannerFacts DEF RecordTrigger, PlannerAt
  <2>2. SetSteps(e, Insertable(e, Triggers(graph[e])), "completed")
    BY <1>4 DEF RecordTrigger, CreateSteps
  <2>3. Lifecycle!RecordTrigger(e)
    BY <2>1, <2>2 DEF Lifecycle!RecordTrigger, Lifecycle!CreateSteps, Lifecycle!Insertable,
       Lifecycle!Triggers, Lifecycle!SetSteps, SetSteps, Insertable, Triggers
  <2> QED
    BY <1>2, <2>3 DEF Lifecycle!Next
<1>5. CASE PlanSuccessors
  <2>1. /\ execution[e] = "running" /\ step[e][n] = "completed"
        /\ planner.msg.type = "step:completed"
    BY <1>1, <1>5, PlannerTyped, PlannerFacts DEF PlanSuccessors, PlannerAt, IInv
  <2>2. n \in Nodes
    BY <1>1, <2>1, PlannerTyped DEF IInv
  <2>3. SetSteps(e, Insertable(e, Ready(e, n)), "queued")
    BY <1>5 DEF PlanSuccessors, CreateSteps
  <2>4. Ready(e, n) \in SUBSET Lifecycle!Successors(graph[e], n)
    BY DEF Ready, Lifecycle!Successors, Successors
  <2>5. Lifecycle!CreateSteps(e, Ready(e, n), "queued")
    BY <2>3 DEF Lifecycle!CreateSteps, Lifecycle!Insertable, Lifecycle!SetSteps, SetSteps,
       Insertable
  <2>6. Lifecycle!Plan(e)
    BY <2>1, <2>2, <2>4, <2>5 DEF Lifecycle!Plan
  <2> QED
    BY <1>2, <2>6 DEF Lifecycle!Next
<1>6. CASE Finish
  <2>1. /\ execution[e] = "running" /\ ~HasActiveSteps(e)
        /\ planner.outcome = IF HasFailedSteps(e) THEN "failed" ELSE "completed"
    BY <1>1, <1>6, PlannerFacts DEF Finish, PlannerAt
  <2>2. SetExecution(e, planner.outcome)
    BY <1>6, <2>1 DEF Finish, FinishExecution
  <2>3. Lifecycle!Complete(e) \/ Lifecycle!Fail(e)
    BY <2>1, <2>2 DEF Lifecycle!Complete, Lifecycle!Fail, Lifecycle!SetExecution,
       Lifecycle!HasActiveSteps, Lifecycle!HasFailedSteps, SetExecution, HasActiveSteps,
       HasFailedSteps
  <2> QED
    BY <1>2, <2>3 DEF Lifecycle!Next
<1>7. CASE FailExecution
  <2>1. step[e][n] = "failed" /\ n \in Nodes
    <3>1. planner.at = "fail" /\ planner.msg.type # "execution:enqueued"
      BY <1>1, <1>7, PlannerFacts DEF FailExecution, PlannerAt
    <3> QED
      BY <1>1, <3>1, PlannerFacts, PlannerTyped DEF IInv
  <2>2. execution[e] = "running" /\ SetExecution(e, "failed")
    BY <1>7 DEF FailExecution, FinishExecution
  <2>3. Lifecycle!Fail(e)
    BY <2>1, <2>2 DEF Lifecycle!Fail, Lifecycle!SetExecution, Lifecycle!HasFailedSteps,
       SetExecution
  <2> QED
    BY <1>2, <2>3 DEF Lifecycle!Next
<1>8. CASE CancelSteps
  <2>1. execution[e] = "failed"
    BY <1>1, <1>8, PlannerFacts DEF CancelSteps, PlannerAt
  <2>2. Lifecycle!Withdraw(e)
    BY <1>8, <2>1 DEF CancelSteps, Lifecycle!Withdraw, Lifecycle!CancelQueuedSteps,
       Lifecycle!SetSteps, CancelQueuedSteps, SetSteps
  <2> QED
    BY <1>2, <2>2 DEF Lifecycle!Next
<1> QED
  BY <1>3, <1>4, <1>5, <1>6, <1>7, <1>8
     DEF OrchestrationWorker, TakeOrchestration, AnnounceTrigger, ReadOutcome, AnnounceStep,
         CheckActive, Judge

\* The runner's steps, seen in the tables.
LEMMA RunnerImplements ==
  ASSUME IInv, StepWorker
  PROVE  [Lifecycle!Next]_storeVars
<1> DEFINE e == runner.msg.exec
           n == runner.msg.node
<1> SUFFICES ASSUME ~UNCHANGED storeVars
             PROVE  Lifecycle!Next
  OBVIOUS
<1>1. CASE ClaimStep
  <2>1. e \in Execs /\ n \in Nodes
    BY <1>1, RunnerFacts DEF ClaimStep, RunnerAt, Idle
  <2>2. step[e][n] = "queued" /\ SetSteps(e, {n}, "running")
    BY <1>1 DEF ClaimStep, ClaimableStep
  <2>3. Lifecycle!StepMoves(e, n, "queued", "running")
    BY <2>2 DEF Lifecycle!StepMoves, Lifecycle!SetSteps, SetSteps
  <2> QED
    BY <2>1, <2>3 DEF Lifecycle!Next
<1>2. CASE RecordStep
  <2>1. e \in Execs /\ n \in Nodes
    BY <1>2, RunnerFacts DEF RecordStep, RunnerAt, Idle
  <2>2. /\ step[e][n] = "running"
        /\ SetSteps(e, {n}, "completed") \/ SetSteps(e, {n}, "failed")
    BY <1>2 DEF RecordStep
  <2>3. \/ Lifecycle!StepMoves(e, n, "running", "completed")
        \/ Lifecycle!StepMoves(e, n, "running", "failed")
    BY <2>2 DEF Lifecycle!StepMoves, Lifecycle!SetSteps, SetSteps
  <2> QED
    BY <2>1, <2>3 DEF Lifecycle!Next
<1> QED
  BY <1>1, <1>2 DEF StepWorker, TakeStep, LoadStep, ReportStep

\* Whatever the queues, the workers and the faults do, the two tables go through
\* the lifecycle they promise.
THEOREM EngineImplementsLifecycle == Spec => ImplementsLifecycle
<1>1. Init => Lifecycle!Init
  BY DEF Init, StoreInit, Lifecycle!Init, Lifecycle!StoreInit
<1>2. IInv /\ [Next]_vars => [Lifecycle!Next]_(Lifecycle!storeVars)
  <2> SUFFICES ASSUME IInv, [Next]_vars
               PROVE  [Lifecycle!Next]_storeVars
    BY DEF storeVars, Lifecycle!storeVars
  <2>1. ASSUME NEW e \in Execs, StartExecution(e)
        PROVE  Lifecycle!Next
    <3>1. PICK g \in Graphs : Executable(g) /\ CreateExecution(e, g)
      BY <2>1 DEF StartExecution
    <3>2. Lifecycle!Executable(g)
      BY <3>1 DEF Executable, Lifecycle!Executable, Triggers, Lifecycle!Triggers,
         IsInjective, Lifecycle!IsInjective
    <3>3. Lifecycle!CreateExecution(e, g)
      BY <3>1 DEF CreateExecution, Lifecycle!CreateExecution
    <3> QED
      BY <3>2, <3>3 DEF Lifecycle!Next, Lifecycle!Accept
  <2>2. CASE UNCHANGED storeVars
    BY <2>2
  <2>3. CASE UNCHANGED vars
    BY <2>3 DEF vars, storeVars
  <2> QED
    BY <2>1, <2>2, <2>3, PlannerImplements, RunnerImplements
       DEF Next, AnnounceExecution, Crash, PlannerThrows, RunnerThrows, Redeliver
<1> QED
  BY <1>1, <1>2, EngineInvariance, PTL DEF Spec, ImplementsLifecycle, Lifecycle!Spec

-----------------------------------------------------------------------------
(* Progress.  The invariant above says what is never done twice or too early; the parts *)
(* below say that nothing is dropped or skipped.                                         *)

Posted(q, m) == \E i \in DOMAIN q : q[i] = m
PlannerOn(e) == planner # Idle /\ planner.msg.exec = e

\* A graph is stored when it is executable: one trigger, one edge into a node.  The
\* trigger's step is the first, and the steps that wait or run are successors.
GraphsExecutable ==
  \A e \in Execs :
    /\ execution[e] # "absent" => Executable(graph[e])
    /\ \A n \in Nodes : step[e][n] # "absent" =>
         \A t \in Triggers(graph[e]) : step[e][t] # "absent"
    /\ \A n \in Nodes : step[e][n] \in {"queued", "running"} =>
         /\ n \notin Triggers(graph[e])
         /\ \E p \in Nodes : n \in Successors(graph[e], p)

\* A step is announced once, after it was created and before it is claimed.
StepsAnnounced ==
  /\ \A e \in Execs, n \in Nodes : StepReady(e, n) \in sent => step[e][n] # "absent"
  /\ planner.at = "announce" => \A n \in planner.todo :
       /\ step[planner.msg.exec][n] = "queued"
       /\ StepReady(planner.msg.exec, n) \notin sent

\* Something is about to act on the steps of e.
OutcomeOnItsWay(e) ==
  \/ \E n \in Nodes : Posted(orchestrationQueue, StepCompleted(e, n))
  \/ PlannerOn(e) /\ planner.at # "claim"
  \/ runner.at = "report" /\ runner.msg.exec = e

QueuedCarried(e) ==
  execution[e] = "queued" =>
    \/ e \in unannounced
    \/ Posted(orchestrationQueue, ExecutionEnqueued(e))
    \/ planner.at = "claim" /\ planner.msg.exec = e

StepCarried(e, n) ==
  /\ step[e][n] = "queued" =>
       \/ Posted(stepQueue, StepReady(e, n))
       \/ runner.at = "claim" /\ runner.msg = StepReady(e, n)
       \/ PlannerOn(e) /\ planner.at = "announce" /\ n \in planner.todo
  /\ step[e][n] = "running" =>
       runner.at \in {"load", "execute"} /\ runner.msg = StepReady(e, n)

RunningCarried(e) ==
  execution[e] = "running" /\ FullySupported(graph[e]) =>
    /\ \A n \in Nodes : StepCarried(e, n)
    /\ HasActiveSteps(e) \/ OutcomeOnItsWay(e)

\* Without a fault, whatever is to be done for an execution is in a queue or a hand.
Carried == faults = 0 => \A e \in Execs : QueuedCarried(e) /\ RunningCarried(e)

\* The steps that may still lead on: none of their successors has a step.
Tip(e, n) ==
  step[e][n] # "absent"
  /\ \A m \in Successors(graph[e], n) \ Triggers(graph[e]) : step[e][m] = "absent"

OneTip ==
  \A e \in Execs : execution[e] # "absent" /\ ~FansOut(graph[e]) =>
    \A n, x \in Nodes : Tip(e, n) /\ Tip(e, x) => n = x

\* An outcome is in the queue once.
OnceIn(q) == \A i, j \in DOMAIN q : q[i] = q[j] /\ q[i].type = "step:completed" => i = j

\* Unless a message is redelivered: an outcome is announced once, and as long as it is
\* on its way its step is at the tip.
OutcomesOnce ==
  redeliveries = 0 =>
    /\ OnceIn(orchestrationQueue)
    /\ \A e \in Execs, n \in Nodes :
         Posted(orchestrationQueue, StepCompleted(e, n)) => Tip(e, n)
    /\ planner.at \in {"read", "plan"} =>
         /\ ~Posted(orchestrationQueue, planner.msg)
         /\ Tip(planner.msg.exec, planner.msg.node)
    /\ planner.at = "announceTrigger" => \A n \in planner.todo :
         /\ StepCompleted(planner.msg.exec, n) \notin sent
         /\ Tip(planner.msg.exec, n)
         /\ n \in Triggers(graph[planner.msg.exec])
    /\ runner.at = "report" =>
         /\ StepCompleted(runner.msg.exec, runner.msg.node) \notin sent
         /\ Tip(runner.msg.exec, runner.msg.node)
         /\ runner.msg.node \notin Triggers(graph[runner.msg.exec])

\* Every step has had its successors created.
LedOn(e) ==
  \A n \in Nodes : step[e][n] # "absent" =>
    \A m \in Successors(graph[e], n) : step[e][m] # "absent"

\* On a chain, the verdict is reached, and the execution completes, at its end.
ChainsLedOn ==
  redeliveries = 0 =>
    \A e \in Execs : execution[e] # "absent" /\ ~FansOut(graph[e]) =>
      /\ execution[e] = "completed" => LedOn(e)
      /\ PlannerOn(e) /\ planner.at \in {"check", "judge", "finish"} => LedOn(e)

PInv == GraphsExecutable /\ StepsAnnounced /\ Carried /\ OneTip /\ OutcomesOnce /\ ChainsLedOn

\* What is in a queue after a message is put there.
LEMMA PostedAppend ==
  ASSUME NEW S, NEW q \in Seq(S), NEW x \in S
  PROVE  /\ \A m : Posted(Append(q, x), m) <=> Posted(q, m) \/ m = x
         /\ OnceIn(q) /\ ~Posted(q, x) => OnceIn(Append(q, x))
         /\ OnceIn(q) /\ x.type # "step:completed" => OnceIn(Append(q, x))
<1>1. /\ DOMAIN q = 1..Len(q) /\ Len(q) \in Nat
      /\ DOMAIN Append(q, x) = 1..(Len(q) + 1)
      /\ \A i \in 1..Len(q) : Append(q, x)[i] = q[i]
      /\ Append(q, x)[Len(q) + 1] = x
  OBVIOUS
<1>2. \A i \in 1..(Len(q) + 1) : i \in 1..Len(q) \/ i = Len(q) + 1
  BY <1>1
<1>3. \A i \in 1..Len(q) : i \in 1..(Len(q) + 1)
  BY <1>1
<1>4. Len(q) + 1 \in 1..(Len(q) + 1)
  BY <1>1
<1> DEFINE k == Len(q) + 1
<1> HIDE DEF k
<1>5. /\ \A i \in DOMAIN q : i \in DOMAIN Append(q, x) /\ Append(q, x)[i] = q[i]
      /\ k \in DOMAIN Append(q, x) /\ Append(q, x)[k] = x
      /\ \A i \in DOMAIN Append(q, x) : i \in DOMAIN q \/ i = k
  BY <1>1, <1>2, <1>3, <1>4 DEF k
<1> QED BY <1>5 DEF Posted, OnceIn

\* What is left in a queue after its first message is taken.
LEMMA PostedTail ==
  ASSUME NEW S, NEW q \in Seq(S), q # <<>>
  PROVE  /\ \A m : Posted(q, m) <=> m = Head(q) \/ Posted(Tail(q), m)
         /\ OnceIn(q) => OnceIn(Tail(q))
         /\ OnceIn(q) /\ Head(q).type = "step:completed" => ~Posted(Tail(q), Head(q))
<1>1. /\ DOMAIN q = 1..Len(q) /\ Len(q) \in Nat /\ Len(q) > 0
      /\ DOMAIN Tail(q) = 1..(Len(q) - 1) /\ Head(q) = q[1]
      /\ \A i \in 1..(Len(q) - 1) : Tail(q)[i] = q[i + 1]
  OBVIOUS
<1>2. /\ 1 \in 1..Len(q)
      /\ \A i \in 1..(Len(q) - 1) : i + 1 \in 1..Len(q) /\ i + 1 # 1
      /\ \A i, j \in 1..(Len(q) - 1) : i + 1 = j + 1 => i = j
      /\ \A i \in 1..Len(q) : i # 1 => i - 1 \in 1..(Len(q) - 1) /\ (i - 1) + 1 = i
  BY <1>1
<1>3. ASSUME NEW m, Posted(q, m), m # Head(q) PROVE Posted(Tail(q), m)
  <2>1. PICK i \in 1..Len(q) : q[i] = m
    BY <1>1, <1>3 DEF Posted
  <2>2. i # 1
    BY <1>1, <1>3, <2>1
  <2>3. i - 1 \in DOMAIN Tail(q) /\ Tail(q)[i - 1] = m
    BY <1>1, <1>2, <2>1, <2>2
  <2> QED BY <2>3 DEF Posted
<1>4. ASSUME OnceIn(q), NEW i \in 1..(Len(q) - 1), NEW j \in 1..(Len(q) - 1),
             Tail(q)[i] = Tail(q)[j], Tail(q)[i].type = "step:completed"
      PROVE  i = j
  BY <1>1, <1>2, <1>4 DEF OnceIn
<1>5. ASSUME OnceIn(q), q[1].type = "step:completed", NEW i \in 1..(Len(q) - 1),
             Tail(q)[i] = q[1]
      PROVE  FALSE
  BY <1>1, <1>2, <1>5 DEF OnceIn
<1>6. ASSUME NEW m, Posted(Tail(q), m) PROVE Posted(q, m)
  <2>1. PICK i \in 1..(Len(q) - 1) : Tail(q)[i] = m
    BY <1>1, <1>6 DEF Posted
  <2>2. i + 1 \in DOMAIN q /\ q[i + 1] = m
    BY <1>1, <1>2, <2>1
  <2> QED BY <2>2 DEF Posted
<1>7. Posted(q, Head(q))
  BY <1>1, <1>2 DEF Posted
<1>8. OnceIn(q) => OnceIn(Tail(q))
  BY <1>1, <1>4 DEF OnceIn
<1>9. OnceIn(q) /\ Head(q).type = "step:completed" => ~Posted(Tail(q), Head(q))
  BY <1>1, <1>5 DEF Posted
<1> QED BY <1>3, <1>6, <1>7, <1>8, <1>9

\* What messages say.
LEMMA MessagesSay ==
  /\ \A e, n : /\ ExecutionEnqueued(e).type = "execution:enqueued"
               /\ ExecutionEnqueued(e).exec = e
               /\ StepCompleted(e, n).type = "step:completed" /\ StepCompleted(e, n).exec = e
               /\ StepCompleted(e, n).node = n
               /\ StepReady(e, n).type = "step:ready" /\ StepReady(e, n).exec = e
               /\ StepReady(e, n).node = n
  /\ \A e \in Execs : ExecutionEnqueued(e) \in OrchestrationMessages
  /\ \A e \in Execs, n \in Nodes : /\ StepCompleted(e, n) \in OrchestrationMessages
                                   /\ StepReady(e, n) \in StepMessages
  /\ \A m \in OrchestrationMessages :
       /\ m.exec \in Execs /\ m.type \in {"execution:enqueued", "step:completed"}
       /\ m.type = "execution:enqueued" => m = ExecutionEnqueued(m.exec)
       /\ m.type = "step:completed" => m.node \in Nodes /\ m = StepCompleted(m.exec, m.node)
  /\ \A m \in StepMessages : /\ m.exec \in Execs /\ m.node \in Nodes /\ m.type = "step:ready"
                             /\ m = StepReady(m.exec, m.node)
<1> DEFINE Says(e, n) ==
             /\ ExecutionEnqueued(e).type = "execution:enqueued"
             /\ ExecutionEnqueued(e).exec = e
             /\ StepCompleted(e, n).type = "step:completed" /\ StepCompleted(e, n).exec = e
             /\ StepCompleted(e, n).node = n
             /\ StepReady(e, n).type = "step:ready" /\ StepReady(e, n).exec = e
             /\ StepReady(e, n).node = n
<1>1. \A e, n : Says(e, n)
  BY DEF ExecutionEnqueued, StepCompleted, StepReady
<1>2. /\ \A e \in Execs : ExecutionEnqueued(e) \in OrchestrationMessages
      /\ \A e \in Execs, n \in Nodes : /\ StepCompleted(e, n) \in OrchestrationMessages
                                       /\ StepReady(e, n) \in StepMessages
  BY DEF OrchestrationMessages, StepMessages
<1>3. ASSUME NEW m \in OrchestrationMessages
      PROVE  /\ m.exec \in Execs /\ m.type \in {"execution:enqueued", "step:completed"}
             /\ m.type = "execution:enqueued" => m = ExecutionEnqueued(m.exec)
             /\ m.type = "step:completed" =>
                  m.node \in Nodes /\ m = StepCompleted(m.exec, m.node)
  <2>1. CASE \E e \in Execs : m = ExecutionEnqueued(e)
    BY <1>1, <2>1
  <2>2. CASE \E e \in Execs, n \in Nodes : m = StepCompleted(e, n)
    BY <1>1, <2>2
  <2> QED BY <2>1, <2>2 DEF OrchestrationMessages
<1>4. ASSUME NEW m \in StepMessages
      PROVE  /\ m.exec \in Execs /\ m.node \in Nodes /\ m.type = "step:ready"
             /\ m = StepReady(m.exec, m.node)
  BY <1>1 DEF StepMessages
<1> QED BY <1>1, <1>2, <1>3, <1>4

\* A queue holds what was sent.
LEMMA PostedIsSent ==
  ASSUME IInv, NEW m
  PROVE  /\ Posted(orchestrationQueue, m) => m \in sent
         /\ Posted(stepQueue, m) => m \in sent
BY DEF Posted, IInv, MessagesConsistent

-----------------------------------------------------------------------------
(* The tables. *)

\* Where a graph that is executed leads: a node is the successor of one node.
LEMMA OneEdgeIn ==
  ASSUME NEW g \in Graphs, Executable(g), NEW m, NEW n, NEW x,
         m \in Successors(g, n), m \in Successors(g, x)
  PROVE  n = x
<1>1. PICK i \in DOMAIN g.edges : g.edges[i].from = n /\ g.edges[i].to = m
  BY DEF Successors
<1>2. PICK j \in DOMAIN g.edges : g.edges[j].from = x /\ g.edges[j].to = m
  BY DEF Successors
<1>3. g.edges[i].in = 0 /\ g.edges[j].in = 0
  BY DEF Executable
<1> DEFINE f == [k \in DOMAIN g.edges |-> <<g.edges[k].to, g.edges[k].in>>]
<1>4. f[i] = f[j] /\ i \in DOMAIN f /\ j \in DOMAIN f
  BY <1>1, <1>2, <1>3
<1>5. i = j
  BY <1>4 DEF Executable, IsInjective
<1> QED BY <1>1, <1>2, <1>5

\* A step that creates no step: what is at the tip stays there.
LEMMA NothingCreated ==
  ASSUME GraphsExecutable, OneTip, graph' = graph,
         \A e \in Execs : execution'[e] = "absent" <=> execution[e] = "absent",
         \A e \in Execs, n \in Nodes : step'[e][n] = "absent" <=> step[e][n] = "absent",
         \A e \in Execs, n \in Nodes :
           step'[e][n] \in {"queued", "running"} => step[e][n] \in {"queued", "running"},
         IInv
  PROVE  /\ GraphsExecutable' /\ OneTip'
         /\ \A e \in Execs, n \in Nodes : execution[e] # "absent" => (Tip(e, n)' <=> Tip(e, n))
         /\ \A e \in Execs : execution[e] # "absent" => (LedOn(e)' <=> LedOn(e))
<1>1. ASSUME NEW e \in Execs, execution[e] # "absent"
      PROVE  /\ graph[e] \in Graphs
             /\ \A n \in Nodes : Successors(graph[e], n) \subseteq Nodes
             /\ Triggers(graph[e]) \subseteq Nodes
  BY <1>1, GraphNodes DEF IInv, RowsAgree
<1>2. ASSUME NEW e \in Execs, NEW n \in Nodes, execution[e] # "absent"
      PROVE  Tip(e, n)' <=> Tip(e, n)
  BY <1>1, <1>2 DEF Tip
<1>3. ASSUME NEW e \in Execs, execution[e] # "absent" PROVE LedOn(e)' <=> LedOn(e)
  BY <1>1, <1>3 DEF LedOn
<1>4. GraphsExecutable'
  <2>1. ASSUME NEW e \in Execs, NEW n \in Nodes, step'[e][n] # "absent",
               NEW t \in Triggers(graph[e])
        PROVE  step'[e][t] # "absent"
    <3>1. execution[e] # "absent" /\ step[e][n] # "absent"
      BY <2>1 DEF IInv, RowsAgree
    <3> QED BY <1>1, <2>1, <3>1 DEF GraphsExecutable
  <2> QED BY <2>1 DEF GraphsExecutable
<1>5. OneTip'
  BY <1>2 DEF OneTip
<1> QED BY <1>2, <1>3, <1>4, <1>5

-----------------------------------------------------------------------------
(* One lemma per action. *)

\* Which messages are posted in the next state.
LEMMA PostedNext ==
  /\ \A m : Posted(orchestrationQueue, m)' <=> Posted(orchestrationQueue', m)
  /\ \A m : Posted(stepQueue, m)' <=> Posted(stepQueue', m)
BY DEF Posted

\* What is said of outcomes goes on while no step is created, no outcome is sent and
\* no worker takes one up.
LEMMA OutcomesKept ==
  ASSUME IInv, PInv, redeliveries' = redeliveries,
         \A e \in Execs : execution[e] # "absent" => graph'[e] = graph[e],
         \A e \in Execs, n \in Nodes : Tip(e, n) => Tip(e, n)',
         \A m \in sent' : m \in sent \/ m.type # "step:completed",
         OnceIn(orchestrationQueue) => OnceIn(orchestrationQueue'),
         \A e \in Execs, n \in Nodes : Posted(orchestrationQueue', StepCompleted(e, n)) =>
                                        Posted(orchestrationQueue, StepCompleted(e, n)),
         planner'.at \in {"read", "plan"} =>
           planner.at \in {"read", "plan"} /\ planner'.msg = planner.msg,
         planner'.at = "announceTrigger" => planner' = planner,
         runner'.at = "report" => runner' = runner
  PROVE  OutcomesOnce'
<1> SUFFICES ASSUME redeliveries = 0 PROVE OutcomesOnce'
  BY DEF OutcomesOnce
<1>1. OutcomesOnce
  BY DEF PInv
<1>2. OnceIn(orchestrationQueue)'
  BY <1>1 DEF OutcomesOnce, OnceIn
<1>3. ASSUME NEW e \in Execs, NEW n \in Nodes, Posted(orchestrationQueue, StepCompleted(e, n))'
      PROVE  Tip(e, n)'
  BY <1>1, <1>3, PostedNext DEF OutcomesOnce
<1>4. ASSUME planner'.at \in {"read", "plan"}
      PROVE  ~Posted(orchestrationQueue, planner.msg)' /\ Tip(planner.msg.exec, planner.msg.node)'
  <2>1. planner # Idle
    BY <1>4 DEF Idle
  <2>2. planner.msg.type = "step:completed"
    BY <1>4, <2>1, PlannerFacts, PlannerTyped DEF IInv
  <2>3. /\ planner.msg.exec \in Execs /\ planner.msg.node \in Nodes
        /\ planner.msg = StepCompleted(planner.msg.exec, planner.msg.node)
    BY <2>1, <2>2, PlannerTyped, MessagesSay DEF IInv
  <2>4. ~Posted(orchestrationQueue', planner.msg)
    BY <1>1, <1>4, <2>3 DEF OutcomesOnce
  <2>5. Tip(planner.msg.exec, planner.msg.node)
    BY <1>1, <1>4 DEF OutcomesOnce
  <2> DEFINE e == planner.msg.exec
             n == planner.msg.node
  <2>6. planner'.msg = planner.msg
    BY <1>4
  <2> QED BY <2>3, <2>4, <2>5, <2>6, PostedNext DEF Tip
<1>5. ASSUME planner'.at = "announceTrigger", NEW n \in planner'.todo
      PROVE  /\ StepCompleted(planner.msg.exec, n)' \notin sent' /\ Tip(planner.msg.exec, n)'
             /\ n \in Triggers(graph[planner.msg.exec])'
  <2>1. planner # Idle /\ planner' = planner
    BY <1>5 DEF Idle
  <2>2. planner.msg.exec \in Execs /\ n \in Nodes
    BY <1>5, <2>1, PlannerTyped DEF IInv
  <2> DEFINE e == planner.msg.exec
             m == StepCompleted(e, n)
  <2>3. m \notin sent /\ Tip(e, n) /\ n \in Triggers(graph[e])
    BY <1>1, <1>5, <2>1 DEF OutcomesOnce
  <2>4. m \notin sent'
    BY <2>3, MessagesSay
  <2>5. planner'.msg = planner.msg
    BY <2>1
  <2>6. graph'[e] = graph[e]
    BY <2>2, <2>3 DEF Tip, IInv, RowsAgree
  <2> QED BY <2>2, <2>3, <2>4, <2>5, <2>6 DEF Tip, StepCompleted, Triggers
<1>6. ASSUME runner'.at = "report"
      PROVE  /\ StepCompleted(runner.msg.exec, runner.msg.node)' \notin sent'
             /\ Tip(runner.msg.exec, runner.msg.node)'
             /\ runner'.msg.node \notin Triggers(graph[runner.msg.exec])'
  <2>1. runner # Idle /\ runner' = runner
    BY <1>6 DEF Idle
  <2>2. runner.msg.exec \in Execs /\ runner.msg.node \in Nodes
    BY <2>1, RunnerFacts
  <2> DEFINE e == runner.msg.exec
             n == runner.msg.node
             m == StepCompleted(e, n)
  <2>3. m \notin sent /\ Tip(e, n) /\ n \notin Triggers(graph[e])
    BY <1>1, <1>6, <2>1 DEF OutcomesOnce
  <2>4. m \notin sent'
    BY <2>3, MessagesSay
  <2>5. runner'.msg = runner.msg
    BY <2>1
  <2>6. graph'[e] = graph[e]
    BY <2>2, <2>3 DEF Tip, IInv, RowsAgree
  <2> QED BY <2>2, <2>3, <2>4, <2>5, <2>6 DEF Tip, StepCompleted, Triggers
<1> QED BY <1>2, <1>3, <1>4, <1>5, <1>6 DEF OutcomesOnce

\* What is said of chains goes on while no step is created and no verdict is reached.
LEMMA ChainsKept ==
  ASSUME IInv, PInv, redeliveries' = redeliveries,
         \A e \in Execs : execution'[e] # "absent" /\ execution[e] # "absent" =>
                          graph'[e] = graph[e],
         \A e \in Execs : execution[e] # "absent" /\ LedOn(e) =>
           \/ LedOn(e)'
           \/ execution[e] # "completed" /\ planner'.at \notin {"check", "judge", "finish"},
         \A e \in Execs : execution'[e] = "completed" => execution[e] = "completed",
         planner'.at \in {"check", "judge", "finish"} =>
           planner.at \in {"check", "judge", "finish"} /\ planner'.msg = planner.msg
  PROVE  ChainsLedOn'
<1> SUFFICES ASSUME redeliveries = 0, NEW e \in Execs, execution'[e] # "absent",
                    ~FansOut(graph'[e])
             PROVE  /\ execution'[e] = "completed" => LedOn(e)'
                    /\ PlannerOn(e)' /\ planner'.at \in {"check", "judge", "finish"} => LedOn(e)'
  BY DEF ChainsLedOn, FansOut, Successors
<1>1. execution[e] # "absent" /\ ~FansOut(graph[e]) =>
        /\ execution[e] = "completed" => LedOn(e)
        /\ PlannerOn(e) /\ planner.at \in {"check", "judge", "finish"} => LedOn(e)
  BY DEF PInv, ChainsLedOn
<1>2. ASSUME PlannerOn(e)', planner'.at \in {"check", "judge", "finish"}
      PROVE  execution[e] # "absent" /\ PlannerOn(e)
  <2>1. planner # Idle /\ planner.msg.exec = e
    BY <1>2 DEF PlannerOn, Idle
  <2>2. execution[e] = "running"
    BY <1>2, <2>1, PlannerFacts
  <2> QED BY <2>1, <2>2 DEF PlannerOn
<1> QED BY <1>1, <1>2

LEMMA StartKeepsPInv ==
  ASSUME IInv, PInv, NEW e \in Execs, StartExecution(e)
  PROVE  PInv'
<1>1. PICK g \in Graphs : Executable(g) /\ CreateExecution(e, g)
  BY DEF StartExecution
<1>2. /\ execution[e] = "absent"
      /\ execution' \in [Execs -> ExecutionStatuses \cup {"absent"}]
      /\ execution'[e] = "queued" /\ graph'[e] = g
      /\ \A x \in Execs : x # e => execution'[x] = execution[x] /\ graph'[x] = graph[x]
      /\ step' = step /\ unannounced' = unannounced \cup {e}
      /\ orchestrationQueue' = orchestrationQueue /\ stepQueue' = stepQueue /\ sent' = sent
      /\ planner' = planner /\ runner' = runner
      /\ faults' = faults /\ redeliveries' = redeliveries
  BY <1>1 DEF CreateExecution, StartExecution, queueVars, boundVars, IInv, TypeOK,
              ExecutionStatuses
<1>3. \A n \in Nodes : step[e][n] = "absent"
  BY <1>2 DEF IInv, RowsAgree
<1>4. GraphsExecutable'
  BY <1>1, <1>2, <1>3 DEF PInv, GraphsExecutable
<1>5. StepsAnnounced'
  BY <1>2 DEF PInv, StepsAnnounced
<1>6. ASSUME NEW x \in Execs, NEW n \in Nodes, x # e
      PROVE  Tip(x, n)' <=> Tip(x, n)
  BY <1>2, <1>6 DEF Tip
<1>7. ASSUME NEW n \in Nodes
      PROVE  ~Tip(e, n)'
  BY <1>2, <1>3 DEF Tip
<1>8. OneTip'
  BY <1>2, <1>6, <1>7 DEF PInv, OneTip
<1>9. Carried'
  <2> SUFFICES ASSUME faults = 0, NEW x \in Execs
               PROVE  QueuedCarried(x)' /\ RunningCarried(x)'
    BY <1>2 DEF Carried
  <2>1. QueuedCarried(x) /\ RunningCarried(x)
    BY DEF PInv, Carried
  <2>2. CASE x = e
    BY <1>2, <2>2 DEF QueuedCarried, RunningCarried
  <2>3. CASE x # e
    BY <1>2, <2>1, <2>3, PostedNext
       DEF QueuedCarried, RunningCarried, StepCarried, OutcomeOnItsWay, HasActiveSteps,
           PlannerOn
  <2> QED BY <2>2, <2>3
<1>10. OutcomesOnce'
  <2>1. ASSUME NEW x \in Execs, NEW n \in Nodes, Tip(x, n)
        PROVE  Tip(x, n)'
    BY <1>3, <1>6, <2>1 DEF Tip
  <2> QED BY <1>2, <2>1, OutcomesKept
<1>11. ChainsLedOn'
  <2>1. ASSUME NEW x \in Execs, execution[x] # "absent", LedOn(x)
        PROVE  LedOn(x)'
    BY <1>2, <2>1 DEF LedOn
  <2> QED BY <1>2, <2>1, ChainsKept
<1> QED BY <1>4, <1>5, <1>8, <1>9, <1>10, <1>11 DEF PInv

LEMMA AnnounceKeepsPInv ==
  ASSUME IInv, PInv, NEW e \in Execs, AnnounceExecution(e)
  PROVE  PInv'
<1>1. /\ orchestrationQueue' = Append(orchestrationQueue, ExecutionEnqueued(e))
      /\ stepQueue' = stepQueue /\ sent' = sent \cup {ExecutionEnqueued(e)}
      /\ unannounced' = unannounced \ {e}
      /\ graph' = graph /\ execution' = execution /\ step' = step
      /\ planner' = planner /\ runner' = runner
      /\ faults' = faults /\ redeliveries' = redeliveries
  BY DEF AnnounceExecution, PublishOrchestration, storeVars, boundVars
<1>2. /\ \A m : Posted(orchestrationQueue', m) <=>
             Posted(orchestrationQueue, m) \/ m = ExecutionEnqueued(e)
      /\ OnceIn(orchestrationQueue) => OnceIn(orchestrationQueue')
  <2>1. ExecutionEnqueued(e).type # "step:completed"
    BY MessagesSay
  <2> QED BY <1>1, <2>1, MessagesSay, PostedAppend DEF IInv, TypeOK
<1>3. /\ GraphsExecutable' /\ OneTip'
      /\ \A x \in Execs, n \in Nodes : execution[x] # "absent" => (Tip(x, n)' <=> Tip(x, n))
      /\ \A x \in Execs : execution[x] # "absent" => (LedOn(x)' <=> LedOn(x))
  BY <1>1, NothingCreated DEF PInv
<1>4. StepsAnnounced'
  <2>1. \A x \in Execs, n \in Nodes : StepReady(x, n) # ExecutionEnqueued(e)
    BY MessagesSay
  <2> QED BY <1>1, <2>1 DEF PInv, StepsAnnounced, StepReady, ExecutionEnqueued
<1>5. Carried'
  <2> SUFFICES ASSUME faults = 0, NEW x \in Execs
               PROVE  QueuedCarried(x)' /\ RunningCarried(x)'
    BY <1>1 DEF Carried
  <2>1. QueuedCarried(x) /\ RunningCarried(x)
    BY DEF PInv, Carried
  <2>2. QueuedCarried(x)'
    BY <1>1, <1>2, <2>1, PostedNext DEF QueuedCarried
  <2>3. RunningCarried(x)'
    BY <1>1, <1>2, <2>1, PostedNext
       DEF RunningCarried, StepCarried, OutcomeOnItsWay, HasActiveSteps, PlannerOn
  <2> QED BY <2>2, <2>3
<1>6. OutcomesOnce'
  <2>1. ASSUME NEW x \in Execs, NEW n \in Nodes, Tip(x, n)
        PROVE  Tip(x, n)'
    BY <1>1, <2>1 DEF Tip
  <2>2. ExecutionEnqueued(e).type # "step:completed"
        /\ \A x, n : StepCompleted(x, n) # ExecutionEnqueued(e)
    BY MessagesSay
  <2> QED BY <1>1, <1>2, <2>1, <2>2, OutcomesKept
<1>7. ChainsLedOn'
  BY <1>1, <1>3, ChainsKept
<1> QED BY <1>3, <1>4, <1>5, <1>6, <1>7 DEF PInv


-----------------------------------------------------------------------------
(* The orchestration worker. *)

\* The tables unchanged: what was at the tip is there still.
LEMMA TablesUnchanged ==
  ASSUME IInv, PInv, UNCHANGED <<graph, execution, step>>
  PROVE  /\ GraphsExecutable' /\ OneTip'
         /\ \A e \in Execs, n \in Nodes : Tip(e, n) => Tip(e, n)'
         /\ \A e \in Execs : LedOn(e) => LedOn(e)'
<1>1. ASSUME NEW e \in Execs, NEW n \in Nodes, Tip(e, n) PROVE Tip(e, n)'
  BY <1>1 DEF Tip
<1>2. ASSUME NEW e \in Execs, LedOn(e) PROVE LedOn(e)'
  BY <1>2 DEF LedOn
<1> QED BY <1>1, <1>2, NothingCreated DEF PInv

LEMMA TakeKeepsPInv ==
  ASSUME IInv, PInv, TakeOrchestration
  PROVE  PInv'
<1> DEFINE m == Head(orchestrationQueue)
<1>1. /\ planner = Idle /\ orchestrationQueue # <<>>
      /\ planner' = [Idle EXCEPT !.msg = m,
                       !.at = IF m.type = "execution:enqueued" THEN "claim" ELSE "read"]
      /\ orchestrationQueue' = Tail(orchestrationQueue)
      /\ stepQueue' = stepQueue /\ sent' = sent /\ unannounced' = unannounced
      /\ graph' = graph /\ execution' = execution /\ step' = step /\ runner' = runner
      /\ faults' = faults /\ redeliveries' = redeliveries
  BY Places DEF TakeOrchestration, PlannerAt, IInv, storeVars, boundVars
<1>2. /\ \A x : Posted(orchestrationQueue, x) <=> x = m \/ Posted(orchestrationQueue', x)
      /\ OnceIn(orchestrationQueue) => OnceIn(orchestrationQueue')
      /\ OnceIn(orchestrationQueue) /\ m.type = "step:completed" => ~Posted(orchestrationQueue', m)
      /\ m \in OrchestrationMessages
  BY <1>1, PostedTail, Taking DEF IInv, TypeOK
<1>3. planner' = [at |-> IF m.type = "execution:enqueued" THEN "claim" ELSE "read",
                  msg |-> m, todo |-> {}, outcome |-> "none"]
  BY <1>1 DEF Idle
<1>4. /\ m.exec \in Execs /\ m.type \in {"execution:enqueued", "step:completed"}
      /\ m.type = "execution:enqueued" => m = ExecutionEnqueued(m.exec)
      /\ m.type = "step:completed" => m.node \in Nodes /\ m = StepCompleted(m.exec, m.node)
  BY <1>2, MessagesSay
<1> HIDE DEF m
<1>5. /\ planner' # Idle /\ planner'.msg = m
      /\ m.type = "execution:enqueued" => planner'.at = "claim"
      /\ m.type = "step:completed" => planner'.at = "read"
      /\ planner'.at \in {"claim", "read"}
  BY <1>3, <1>4 DEF Idle
<1>6. /\ GraphsExecutable' /\ OneTip'
      /\ \A e \in Execs, n \in Nodes : Tip(e, n) => Tip(e, n)'
      /\ \A e \in Execs : LedOn(e) => LedOn(e)'
  BY <1>1, TablesUnchanged
<1>7. StepsAnnounced'
  BY <1>1, <1>5 DEF PInv, StepsAnnounced
<1>8. Carried'
  <2> SUFFICES ASSUME faults = 0, NEW x \in Execs
               PROVE  QueuedCarried(x)' /\ RunningCarried(x)'
    BY <1>1 DEF Carried
  <2>1. QueuedCarried(x) /\ RunningCarried(x) /\ ~PlannerOn(x) /\ planner.at = "idle"
    BY <1>1 DEF PInv, Carried, PlannerOn, Idle
  <2>2. QueuedCarried(x)'
    <3>1. ExecutionEnqueued(x) = m => planner'.at = "claim" /\ planner'.msg.exec = x
      BY <1>5, MessagesSay
    <3> QED BY <1>1, <1>2, <2>1, <3>1, PostedNext DEF QueuedCarried
  <2>3. ASSUME execution[x] = "running", FullySupported(graph[x]), NEW n \in Nodes
        PROVE  StepCarried(x, n)'
    BY <1>1, <2>1, <2>3, PostedNext DEF RunningCarried, StepCarried
  <2>4. ASSUME OutcomeOnItsWay(x)
        PROVE  OutcomeOnItsWay(x)'
    <3>1. CASE runner.at = "report" /\ runner.msg.exec = x
      BY <1>1, <3>1 DEF OutcomeOnItsWay
    <3>2. ASSUME NEW n \in Nodes, Posted(orchestrationQueue, StepCompleted(x, n))
          PROVE  OutcomeOnItsWay(x)'
      <4>1. CASE Posted(orchestrationQueue', StepCompleted(x, n))
        BY <4>1, PostedNext DEF OutcomeOnItsWay
      <4>2. CASE StepCompleted(x, n) = m
        <5>1. planner'.at = "read" /\ planner'.msg.exec = x
          BY <1>5, <4>2, MessagesSay
        <5> QED BY <1>5, <5>1 DEF OutcomeOnItsWay, PlannerOn, Idle
      <4> QED BY <1>2, <3>2, <4>1, <4>2
    <3> QED BY <2>1, <2>4, <3>1, <3>2 DEF OutcomeOnItsWay
  <2>5. HasActiveSteps(x)' <=> HasActiveSteps(x)
    BY <1>1 DEF HasActiveSteps
  <2>6. RunningCarried(x)'
    BY <1>1, <2>1, <2>3, <2>4, <2>5 DEF RunningCarried, FullySupported, Supported, Triggers
  <2> QED BY <2>2, <2>6
<1>9. OutcomesOnce'
  <2> SUFFICES ASSUME redeliveries = 0 PROVE OutcomesOnce'
    BY <1>1 DEF OutcomesOnce
  <2>1. OutcomesOnce
    BY DEF PInv
  <2>2. OnceIn(orchestrationQueue) /\ OnceIn(orchestrationQueue)'
    BY <1>2, <2>1 DEF OutcomesOnce, OnceIn
  <2>3. ASSUME NEW x \in Execs, NEW n \in Nodes, Posted(orchestrationQueue, StepCompleted(x, n))'
        PROVE  Tip(x, n)'
    BY <1>2, <1>6, <2>1, <2>3, PostedNext DEF OutcomesOnce
  <2>4. ASSUME planner'.at \in {"read", "plan"}
        PROVE  /\ ~Posted(orchestrationQueue, planner.msg)'
               /\ Tip(planner.msg.exec, planner.msg.node)'
    <3>1. m.type = "step:completed"
      BY <1>4, <1>5, <2>4
    <3> DEFINE x == m.exec
               n == m.node
    <3>2. x \in Execs /\ n \in Nodes /\ m = StepCompleted(x, n)
      BY <1>4, <3>1
    <3>3. Tip(x, n)
      BY <1>2, <2>1, <3>2 DEF OutcomesOnce
    <3>4. ~Posted(orchestrationQueue', m)
      BY <1>2, <2>2, <3>1
    <3> QED BY <1>1, <1>5, <1>6, <3>2, <3>3, <3>4, PostedNext DEF Tip
  <2>5. runner'.at = "report" =>
          /\ StepCompleted(runner.msg.exec, runner.msg.node)' \notin sent'
          /\ Tip(runner.msg.exec, runner.msg.node)'
          /\ runner'.msg.node \notin Triggers(graph[runner.msg.exec])'
    BY <1>1, <2>1 DEF OutcomesOnce, Tip, StepCompleted, Triggers
  <2> QED BY <1>5, <2>2, <2>3, <2>4, <2>5 DEF OutcomesOnce
<1>10. ChainsLedOn'
  BY <1>1, <1>5, <1>6, ChainsKept
<1> QED BY <1>6, <1>7, <1>8, <1>9, <1>10 DEF PInv

LEMMA ClaimExecutionKeepsPInv ==
  ASSUME IInv, PInv, ClaimExecution
  PROVE  PInv'
<1> DEFINE e == planner.msg.exec
<1>1. /\ planner.at = "claim" /\ planner # Idle /\ e \in Execs
      /\ orchestrationQueue' = orchestrationQueue /\ stepQueue' = stepQueue /\ sent' = sent
      /\ runner' = runner /\ unannounced' = unannounced
      /\ faults' = faults /\ redeliveries' = redeliveries
  BY PlannerTyped DEF ClaimExecution, PlannerAt, Idle, queueVars, boundVars, IInv
<1>2. /\ graph' = graph /\ step' = step
      /\ \A x \in Execs : x # e => execution'[x] = execution[x]
      /\ \/ /\ execution[e] = "queued" /\ execution'[e] = "running"
            /\ planner' = [planner EXCEPT !.at = "trigger"]
         \/ execution[e] # "queued" /\ execution' = execution /\ planner' = Idle
  BY <1>1, SettingExecution DEF ClaimExecution, PlannerTo, PlannerDone, storeVars, IInv,
     ExecutionStatuses
<1>3. /\ \/ planner' = Idle
         \/ planner'.at = "trigger" /\ planner'.msg = planner.msg /\ planner' # Idle
      /\ execution[e] = "queued" => planner'.at = "trigger"
  BY <1>1, <1>2, PlannerTyped DEF IInv, Idle
<1>4. /\ GraphsExecutable' /\ OneTip'
      /\ \A x \in Execs : execution[x] # "absent" => (LedOn(x)' <=> LedOn(x))
  BY <1>2, NothingCreated DEF PInv
<1>5. planner'.at \in {"idle", "trigger"}
  BY <1>3 DEF Idle
<1>6. StepsAnnounced'
  BY <1>1, <1>2, <1>5 DEF PInv, StepsAnnounced
<1>7. Carried'
  <2> SUFFICES ASSUME faults = 0, NEW x \in Execs
               PROVE  QueuedCarried(x)' /\ RunningCarried(x)'
    BY <1>1 DEF Carried
  <2>1. QueuedCarried(x) /\ RunningCarried(x)
    BY DEF PInv, Carried
  <2>2. CASE x = e /\ execution[e] = "queued"
    <3>1. /\ \A n \in Nodes : step[x][n] = "absent"
          /\ planner'.at = "trigger" /\ planner' # Idle /\ planner'.msg.exec = x
      BY <1>3, <2>2 DEF IInv, RowsAgree, Idle
    <3> QED BY <1>2, <2>2, <3>1
            DEF QueuedCarried, RunningCarried, StepCarried, OutcomeOnItsWay, PlannerOn
  <2>3. CASE x # e \/ execution[e] # "queued"
    <3>1. execution'[x] = execution[x]
      BY <1>2, <2>3
    <3>2. QueuedCarried(x)'
      BY <1>1, <2>1, <2>3, <3>1, PostedNext DEF QueuedCarried
    <3>3. RunningCarried(x)'
      BY <1>1, <1>2, <2>1, <3>1, PostedNext
         DEF RunningCarried, StepCarried, OutcomeOnItsWay, HasActiveSteps, PlannerOn
    <3> QED BY <3>2, <3>3
  <2> QED BY <2>2, <2>3
<1>8. OutcomesOnce'
  <2>1. ASSUME NEW x \in Execs, NEW n \in Nodes, Tip(x, n)
        PROVE  Tip(x, n)'
    BY <1>2, <2>1 DEF Tip
  <2> QED BY <1>1, <1>2, <1>5, <2>1, OutcomesKept
<1>9. ChainsLedOn'
  BY <1>1, <1>2, <1>4, <1>5, ChainsKept
<1> QED BY <1>4, <1>6, <1>7, <1>8, <1>9 DEF PInv

LEMMA RecordTriggerKeepsPInv ==
  ASSUME IInv, PInv, RecordTrigger
  PROVE  PInv'
<1> DEFINE e == planner.msg.exec
           ns == Insertable(e, Triggers(graph[e]))
<1>1. /\ planner.at = "trigger" /\ planner # Idle /\ e \in Execs
      /\ SetSteps(e, ns, "completed")
      /\ planner' = [planner EXCEPT !.at = "announceTrigger", !.todo = ns]
      /\ orchestrationQueue' = orchestrationQueue /\ stepQueue' = stepQueue /\ sent' = sent
      /\ runner' = runner /\ unannounced' = unannounced
      /\ faults' = faults /\ redeliveries' = redeliveries
  BY PlannerTyped
     DEF RecordTrigger, PlannerAt, Idle, CreateSteps, queueVars, boundVars, IInv
<1>2. execution[e] = "running" /\ \A x \in Nodes : step[e][x] = "absent"
  BY <1>1, PlannerFacts
<1>3. graph[e] \in Graphs /\ Executable(graph[e])
  BY <1>1, <1>2 DEF IInv, RowsAgree, PInv, GraphsExecutable
<1>4. PICK t \in Nodes : Triggers(graph[e]) = {t}
  BY <1>3 DEF Executable
<1>5. ns = {t}
  BY <1>2, <1>4 DEF Insertable
<1> HIDE DEF ns
<1>6. /\ graph' = graph /\ execution' = execution
      /\ step'[e][t] = "completed"
      /\ \A n \in Nodes : n # t => step'[e][n] = "absent"
      /\ \A x \in Execs : x # e => step'[x] = step[x]
  BY <1>1, <1>2, <1>5, SettingSteps DEF IInv, StepStatuses
<1>7. /\ planner'.at = "announceTrigger" /\ planner'.msg = planner.msg
      /\ planner'.todo = {t} /\ planner' # Idle
  BY <1>1, <1>5, PlannerTyped DEF IInv, Idle
<1>8. GraphsExecutable'
  <2>1. ASSUME NEW x \in Execs, x = e, NEW n \in Nodes, step'[x][n] # "absent"
        PROVE  \A i \in Triggers(graph[x]) : step'[x][i] # "absent"
    BY <1>4, <1>6, <2>1
  <2>2. ASSUME NEW x \in Execs, NEW n \in Nodes, step'[x][n] \in {"queued", "running"}
        PROVE  x # e
    BY <1>6, <2>2
  <2> QED BY <1>6, <2>1, <2>2 DEF PInv, GraphsExecutable
<1>9. ASSUME NEW x \in Execs, NEW n \in Nodes, x # e
      PROVE  Tip(x, n)' <=> Tip(x, n)
  BY <1>6, <1>9 DEF Tip
<1>10. ASSUME NEW n \in Nodes
       PROVE  ~Tip(e, n) /\ (Tip(e, n)' => n = t)
  BY <1>1, <1>2, <1>6, <1>7 DEF Tip
<1>11. Tip(e, t)'
  <2>1. ASSUME NEW m \in Successors(graph[e], t) \ Triggers(graph[e])
        PROVE  step'[e][m] = "absent"
    <3>1. m \in Nodes /\ m # t
      BY <1>3, <1>4, <2>1, GraphNodes
    <3> QED BY <1>6, <3>1
  <2> QED BY <1>6, <1>7, <2>1 DEF Tip
<1>12. OneTip'
  BY <1>6, <1>7, <1>9, <1>10 DEF PInv, OneTip
<1>13. StepsAnnounced'
  <2>1. ASSUME NEW x \in Execs, NEW n \in Nodes, StepReady(x, n) \in sent
        PROVE  step'[x][n] # "absent"
    <3>1. step[x][n] # "absent"
      BY <2>1 DEF PInv, StepsAnnounced
    <3> QED BY <1>2, <1>6, <3>1
  <2> QED BY <1>1, <1>7, <2>1 DEF StepsAnnounced
<1>14. Carried'
  <2> SUFFICES ASSUME faults = 0, NEW x \in Execs
               PROVE  QueuedCarried(x)' /\ RunningCarried(x)'
    BY <1>1 DEF Carried
  <2>1. QueuedCarried(x) /\ RunningCarried(x)
    BY DEF PInv, Carried
  <2>2. QueuedCarried(x)'
    BY <1>1, <1>2, <1>6, <2>1, PostedNext DEF QueuedCarried
  <2>3. CASE x = e
    <3>1. \A n \in Nodes : step'[x][n] \notin {"queued", "running"}
      BY <1>6, <2>3
    <3>2. planner' # Idle /\ planner'.msg.exec = x /\ planner'.at # "claim"
      BY <1>7, <2>3
    <3>3. (\A n \in Nodes : StepCarried(x, n))' /\ OutcomeOnItsWay(x)'
      BY <3>1, <3>2 DEF StepCarried, OutcomeOnItsWay, PlannerOn, Idle
    <3> QED BY <2>2, <3>3 DEF RunningCarried
  <2>4. CASE x # e
    BY <1>1, <1>6, <2>1, <2>2, <2>4, PostedNext
       DEF RunningCarried, StepCarried, OutcomeOnItsWay, HasActiveSteps, PlannerOn
  <2> QED BY <2>2, <2>3, <2>4
<1>15. OutcomesOnce'
  <2> SUFFICES ASSUME redeliveries = 0 PROVE OutcomesOnce'
    BY <1>1 DEF OutcomesOnce
  <2>1. OutcomesOnce
    BY DEF PInv
  <2>2. OnceIn(orchestrationQueue)'
    BY <1>1, <2>1 DEF OutcomesOnce, OnceIn
  <2>3. ASSUME NEW x \in Execs, NEW n \in Nodes, Posted(orchestrationQueue, StepCompleted(x, n))'
        PROVE  Tip(x, n)'
    <3>1. Tip(x, n)
      BY <1>1, <2>1, <2>3, PostedNext DEF OutcomesOnce
    <3> QED BY <1>9, <1>10, <3>1
  <2>4. StepCompleted(e, t) \notin sent
    <3>1. step[e][t] = "absent"
      BY <1>2
    <3>2. \A m \in sent : m.type = "step:completed" =>
                           step[m.exec][m.node] \in {"completed", "failed"}
      BY DEF IInv, MessagesConsistent
    <3> QED BY <3>1, <3>2, MessagesSay
  <2>5. ASSUME NEW n \in planner'.todo
        PROVE  /\ StepCompleted(planner.msg.exec, n)' \notin sent' /\ Tip(planner.msg.exec, n)'
               /\ n \in Triggers(graph[planner.msg.exec])'
    <3>1. n = t
      BY <1>7, <2>5
    <3> QED BY <1>1, <1>4, <1>6, <1>7, <1>11, <2>4, <3>1 DEF Tip, StepCompleted, Triggers
  <2>6. ASSUME runner'.at = "report"
        PROVE  /\ StepCompleted(runner.msg.exec, runner.msg.node)' \notin sent'
               /\ Tip(runner.msg.exec, runner.msg.node)'
               /\ runner'.msg.node \notin Triggers(graph[runner.msg.exec])'
    <3>1. runner # Idle
      BY <1>1, <2>6 DEF Idle
    <3>2. runner.msg.exec \in Execs /\ runner.msg.node \in Nodes
      BY <3>1, RunnerFacts
    <3>3. /\ StepCompleted(runner.msg.exec, runner.msg.node) \notin sent
          /\ Tip(runner.msg.exec, runner.msg.node)
          /\ runner.msg.node \notin Triggers(graph[runner.msg.exec])
      BY <1>1, <2>1, <2>6 DEF OutcomesOnce
    <3>4. runner.msg.exec # e
      BY <1>10, <3>2, <3>3
    <3> QED BY <1>1, <1>6, <3>2, <3>3, <3>4 DEF Tip, StepCompleted, Triggers
  <2> QED BY <1>7, <2>2, <2>3, <2>5, <2>6 DEF OutcomesOnce
<1>16. ChainsLedOn'
  <2>1. ASSUME NEW x \in Execs, execution[x] = "completed", LedOn(x)
        PROVE  LedOn(x)'
    BY <1>2, <1>6, <2>1 DEF LedOn
  <2> QED BY <1>1, <1>6, <1>7, <2>1, ChainsKept
<1> QED BY <1>8, <1>12, <1>13, <1>14, <1>15, <1>16 DEF PInv

LEMMA ReadKeepsPInv ==
  ASSUME IInv, PInv, ReadOutcome
  PROVE  PInv'
<1> DEFINE e == planner.msg.exec
           n == planner.msg.node
           place == AfterRead(e, n)
<1>1. /\ planner.at = "read" /\ planner # Idle /\ e \in Execs
      /\ planner' = IF place = "idle" THEN Idle ELSE [planner EXCEPT !.at = place]
      /\ graph' = graph /\ execution' = execution /\ step' = step
      /\ orchestrationQueue' = orchestrationQueue /\ stepQueue' = stepQueue /\ sent' = sent
      /\ runner' = runner /\ unannounced' = unannounced
      /\ faults' = faults /\ redeliveries' = redeliveries
  BY PlannerTyped DEF ReadOutcome, PlannerAt, PlannerDone, PlannerTo, Idle, storeVars,
     queueVars, boundVars, IInv
\* A completion is published after its outcome is written.
<1>2. step[e][n] \in {"completed", "failed"}
  <2>1. planner.msg \in sent /\ planner.msg.type = "step:completed"
    BY <1>1, PlannerTyped, PlannerFacts DEF IInv
  <2> QED BY <2>1 DEF IInv, MessagesConsistent
<1>3. /\ place \in {"idle", "fail", "plan"}
      /\ place = "idle" => execution[e] # "running"
  BY <1>2 DEF AfterRead
<1> HIDE DEF place
<1>4. /\ place = "idle" => planner' = Idle /\ planner'.at = "idle"
      /\ place # "idle" =>
           planner' # Idle /\ planner'.at = place /\ planner'.msg = planner.msg
  BY <1>1, <1>3, PlannerTyped DEF IInv, Idle
<1>5. /\ GraphsExecutable' /\ OneTip'
      /\ \A x \in Execs, y \in Nodes : Tip(x, y) => Tip(x, y)'
      /\ \A x \in Execs : LedOn(x) => LedOn(x)'
  BY <1>1, TablesUnchanged
<1>6. planner'.at \in {"idle", "fail", "plan"}
  BY <1>3, <1>4
<1>7. StepsAnnounced'
  BY <1>1, <1>6 DEF PInv, StepsAnnounced
<1>8. Carried'
  <2> SUFFICES ASSUME faults = 0, NEW x \in Execs
               PROVE  QueuedCarried(x)' /\ RunningCarried(x)'
    BY <1>1 DEF Carried
  <2>1. QueuedCarried(x) /\ RunningCarried(x)
    BY DEF PInv, Carried
  <2>2. QueuedCarried(x)'
    BY <1>1, <2>1, PostedNext DEF QueuedCarried
  <2>3. CASE x = e /\ place = "idle"
    BY <1>1, <1>3, <2>2, <2>3 DEF RunningCarried
  <2>4. CASE x # e \/ place # "idle"
    <3>1. PlannerOn(x) /\ planner.at # "claim" => PlannerOn(x)' /\ planner'.at # "claim"
      BY <1>3, <1>4, <2>4 DEF PlannerOn
    <3> QED BY <1>1, <2>1, <2>2, <3>1, PostedNext
            DEF RunningCarried, StepCarried, OutcomeOnItsWay, HasActiveSteps
  <2> QED BY <2>2, <2>3, <2>4
<1>9. OutcomesOnce'
  BY <1>1, <1>4, <1>5, <1>6, OutcomesKept
<1>10. ChainsLedOn'
  BY <1>1, <1>5, <1>6, ChainsKept
<1> QED BY <1>5, <1>7, <1>8, <1>9, <1>10 DEF PInv

LEMMA CheckKeepsPInv ==
  ASSUME IInv, PInv, CheckActive \/ Judge
  PROVE  PInv'
<1> DEFINE e == planner.msg.exec
<1>1. /\ planner.at \in {"check", "judge"} /\ planner # Idle /\ e \in Execs
      /\ graph' = graph /\ execution' = execution /\ step' = step
      /\ orchestrationQueue' = orchestrationQueue /\ stepQueue' = stepQueue /\ sent' = sent
      /\ runner' = runner /\ unannounced' = unannounced
      /\ faults' = faults /\ redeliveries' = redeliveries
  BY PlannerTyped
     DEF CheckActive, Judge, PlannerAt, Idle, storeVars, queueVars, boundVars, IInv
<1>2. \/ HasActiveSteps(e) /\ planner' = Idle
      \/ planner' # Idle /\ planner'.msg = planner.msg /\ planner'.at \in {"judge", "finish"}
  <2>1. planner = [at |-> planner.at, msg |-> planner.msg, todo |-> planner.todo,
                   outcome |-> planner.outcome]
    BY <1>1, PlannerTyped DEF IInv
  <2>2. CASE CheckActive
    BY <2>1, <2>2 DEF CheckActive, PlannerDone, PlannerTo, Idle
  <2>3. CASE Judge
    BY <2>1, <2>3 DEF Judge, Idle
  <2> QED BY <2>2, <2>3
<1>3. planner'.at \in {"idle", "judge", "finish"}
  BY <1>2 DEF Idle
<1>4. /\ GraphsExecutable' /\ OneTip'
      /\ \A x \in Execs, y \in Nodes : Tip(x, y) => Tip(x, y)'
      /\ \A x \in Execs : LedOn(x) => LedOn(x)'
  BY <1>1, TablesUnchanged
<1>5. StepsAnnounced'
  BY <1>1, <1>3 DEF PInv, StepsAnnounced
<1>6. Carried'
  <2> SUFFICES ASSUME faults = 0, NEW x \in Execs
               PROVE  QueuedCarried(x)' /\ RunningCarried(x)'
    BY <1>1 DEF Carried
  <2>1. QueuedCarried(x) /\ RunningCarried(x)
    BY DEF PInv, Carried
  <2>2. QueuedCarried(x)'
    BY <1>1, <2>1, PostedNext DEF QueuedCarried
  <2>3. HasActiveSteps(x)' <=> HasActiveSteps(x)
    BY <1>1 DEF HasActiveSteps
  <2>4. HasActiveSteps(x) \/ (OutcomeOnItsWay(x) => OutcomeOnItsWay(x)')
    BY <1>1, <1>2, PostedNext DEF OutcomeOnItsWay, PlannerOn
  <2>5. ASSUME NEW n \in Nodes, StepCarried(x, n) PROVE StepCarried(x, n)'
    BY <1>1, <2>5, PostedNext DEF StepCarried
  <2>6. RunningCarried(x)'
    BY <1>1, <2>1, <2>3, <2>4, <2>5 DEF RunningCarried, FullySupported, Supported, Triggers
  <2> QED BY <2>2, <2>6
<1>7. OutcomesOnce'
  BY <1>1, <1>3, <1>4, OutcomesKept
<1>8. ChainsLedOn'
  <2>1. planner'.at \in {"judge", "finish"} => planner'.msg = planner.msg
    BY <1>2 DEF Idle
  <2> QED BY <1>1, <1>3, <1>4, <2>1, ChainsKept
<1> QED BY <1>4, <1>5, <1>6, <1>7, <1>8 DEF PInv

LEMMA AnnounceTriggerKeepsPInv ==
  ASSUME IInv, PInv, AnnounceTrigger
  PROVE  PInv'
<1> DEFINE e == planner.msg.exec
<1>1. PICK t \in planner.todo : PublishOrchestration(StepCompleted(e, t))
  BY DEF AnnounceTrigger
<1> DEFINE m == StepCompleted(e, t)
<1>2. /\ planner.at = "announceTrigger" /\ planner # Idle /\ e \in Execs /\ t \in Nodes
      /\ orchestrationQueue' = Append(orchestrationQueue, m)
      /\ sent' = sent \cup {m} /\ stepQueue' = stepQueue
      /\ graph' = graph /\ execution' = execution /\ step' = step
      /\ planner' = Idle /\ runner' = runner /\ unannounced' = unannounced
      /\ faults' = faults /\ redeliveries' = redeliveries
  BY <1>1, PlannerTyped DEF AnnounceTrigger, PublishOrchestration, PlannerAt, PlannerDone,
     Idle, storeVars, boundVars, IInv
<1>3. m \in OrchestrationMessages /\ m.type = "step:completed" /\ m.exec = e /\ m.node = t
  BY <1>2, MessagesSay
<1> HIDE DEF m
<1>4. /\ \A x : Posted(orchestrationQueue', x) <=> Posted(orchestrationQueue, x) \/ x = m
      /\ OnceIn(orchestrationQueue) /\ ~Posted(orchestrationQueue, m) =>
           OnceIn(orchestrationQueue')
  BY <1>2, <1>3, PostedAppend DEF IInv, TypeOK
<1>5. planner'.at = "idle"
  BY <1>2 DEF Idle
<1>6. /\ GraphsExecutable' /\ OneTip'
      /\ \A x \in Execs, y \in Nodes : Tip(x, y) => Tip(x, y)'
      /\ \A x \in Execs : LedOn(x) => LedOn(x)'
  BY <1>2, TablesUnchanged
<1>7. StepsAnnounced'
  <2>1. \A x \in Execs, n \in Nodes : StepReady(x, n) # m
    BY <1>3, MessagesSay
  <2> QED BY <1>2, <1>5, <2>1 DEF PInv, StepsAnnounced
<1>8. Carried'
  <2> SUFFICES ASSUME faults = 0, NEW x \in Execs
               PROVE  QueuedCarried(x)' /\ RunningCarried(x)'
    BY <1>2 DEF Carried
  <2>1. QueuedCarried(x) /\ RunningCarried(x)
    BY DEF PInv, Carried
  <2>2. QueuedCarried(x)'
    BY <1>2, <1>4, <2>1, PostedNext DEF QueuedCarried
  <2>3. ASSUME NEW n \in Nodes, StepCarried(x, n) PROVE StepCarried(x, n)'
    BY <1>2, <2>3, PostedNext DEF StepCarried
  <2>4. HasActiveSteps(x)' <=> HasActiveSteps(x)
    BY <1>2 DEF HasActiveSteps
  <2>5. CASE x = e
    <3>1. Posted(orchestrationQueue, StepCompleted(x, t))'
      BY <1>4, <2>5, PostedNext DEF m
    <3>2. OutcomeOnItsWay(x)'
      BY <1>2, <3>1 DEF OutcomeOnItsWay
    <3> QED BY <1>2, <2>1, <2>2, <2>3, <3>2
            DEF RunningCarried, FullySupported, Supported, Triggers
  <2>6. CASE x # e
    <3>1. OutcomeOnItsWay(x) => OutcomeOnItsWay(x)'
      BY <1>2, <1>4, <2>6, PostedNext DEF OutcomeOnItsWay, PlannerOn
    <3> QED BY <1>2, <2>1, <2>2, <2>3, <2>4, <3>1
            DEF RunningCarried, FullySupported, Supported, Triggers
  <2> QED BY <2>5, <2>6
<1>9. OutcomesOnce'
  <2> SUFFICES ASSUME redeliveries = 0 PROVE OutcomesOnce'
    BY <1>2 DEF OutcomesOnce
  <2>1. OutcomesOnce
    BY DEF PInv
  <2>2. m \notin sent /\ Tip(e, t) /\ ~Posted(orchestrationQueue, m)
    BY <1>1, <1>2, <2>1, PostedIsSent DEF OutcomesOnce, m
  <2>3. OnceIn(orchestrationQueue)'
    BY <1>4, <2>1, <2>2 DEF OutcomesOnce, OnceIn
  <2>4. ASSUME NEW x \in Execs, NEW n \in Nodes, Posted(orchestrationQueue, StepCompleted(x, n))'
        PROVE  Tip(x, n)'
    <3>1. CASE Posted(orchestrationQueue, StepCompleted(x, n))
      BY <1>6, <2>1, <3>1 DEF OutcomesOnce
    <3>2. CASE StepCompleted(x, n) = m
      <4>1. x = e /\ n = t
        BY <1>3, <3>2, MessagesSay
      <4> QED BY <1>2, <1>6, <2>2, <4>1 DEF Tip
    <3> QED BY <1>4, <2>4, <3>1, <3>2, PostedNext
  <2>5. ASSUME runner'.at = "report"
        PROVE  /\ StepCompleted(runner.msg.exec, runner.msg.node)' \notin sent'
               /\ Tip(runner.msg.exec, runner.msg.node)'
               /\ runner'.msg.node \notin Triggers(graph[runner.msg.exec])'
    <3> DEFINE x == runner.msg.exec
               n == runner.msg.node
    <3>1. StepCompleted(x, n) \notin sent /\ Tip(x, n) /\ n \notin Triggers(graph[x])
      BY <1>2, <2>1, <2>5 DEF OutcomesOnce
    <3>2. runner # Idle /\ x \in Execs /\ n \in Nodes
      BY <1>2, <2>5, RunnerFacts DEF Idle
\* The trigger's step is not one the runner ran.
    <3>3. StepCompleted(x, n) # m
      <4>1. t \in Triggers(graph[e])
        BY <1>1, <1>2, <2>1 DEF OutcomesOnce
      <4> QED BY <1>3, <3>1, <4>1, MessagesSay
    <3> QED BY <1>2, <1>6, <3>1, <3>2, <3>3 DEF Tip, StepCompleted, Triggers
  <2> QED BY <1>5, <2>3, <2>4, <2>5 DEF OutcomesOnce
<1>10. ChainsLedOn'
  BY <1>2, <1>5, <1>6, ChainsKept
<1> QED BY <1>6, <1>7, <1>8, <1>9, <1>10 DEF PInv

\* On an executable graph all successors are ready, and those that have no step get one:
\* on a chain the tip moves on by one, and where nothing is created the chain is at its end.
LEMMA PlanKeepsPInv ==
  ASSUME IInv, PInv, PlanSuccessors
  PROVE  PInv'
<1> DEFINE e == planner.msg.exec
           n == planner.msg.node
           g == graph[e]
           ns == Insertable(e, Ready(e, n))
           place == IF ns = {} THEN "check" ELSE "announce"
<1>1. /\ planner.at = "plan" /\ planner # Idle /\ e \in Execs /\ n \in Nodes
      /\ planner.msg.type = "step:completed" /\ planner.msg \in OrchestrationMessages
      /\ SetSteps(e, ns, "queued")
      /\ planner' = [planner EXCEPT !.todo = ns, !.at = place]
      /\ orchestrationQueue' = orchestrationQueue /\ stepQueue' = stepQueue /\ sent' = sent
      /\ runner' = runner /\ unannounced' = unannounced
      /\ faults' = faults /\ redeliveries' = redeliveries
  <2>1. planner.at = "plan" /\ planner # Idle
    BY DEF PlanSuccessors, PlannerAt, Idle
  <2>2. planner.msg.type = "step:completed"
    BY <2>1, PlannerFacts, PlannerTyped DEF IInv
  <2> QED BY <2>1, <2>2, PlannerTyped
          DEF PlanSuccessors, PlannerAt, CreateSteps, queueVars, boundVars, IInv
<1>2. execution[e] = "running" /\ step[e][n] = "completed"
  BY <1>1, PlannerFacts
<1>3. /\ g \in Graphs /\ Executable(g)
      /\ \A t \in Triggers(g) : step[e][t] # "absent"
  BY <1>1, <1>2 DEF IInv, RowsAgree, PInv, GraphsExecutable
<1>4. \A x : \A m \in Successors(g, n) : m \in Successors(g, x) => x = n
  BY <1>3, OneEdgeIn
<1>5. Ready(e, n) = Successors(g, n)
  <2>1. ASSUME NEW m \in Successors(g, n), NEW p \in Predecessors(g, m)
        PROVE  p = n
    <3>1. m \in Successors(g, p)
      BY <2>1 DEF Successors, Predecessors
    <3> QED BY <1>4, <3>1
  <2> QED BY <2>1 DEF Ready
<1>6. /\ ns = {m \in Successors(g, n) : step[e][m] = "absent"}
      /\ ns \subseteq Nodes /\ ns \cap Triggers(g) = {}
      /\ Successors(g, n) \subseteq Nodes /\ Triggers(g) \subseteq Nodes
  BY <1>3, <1>5, GraphNodes DEF Insertable
<1> HIDE DEF ns
<1>7. /\ graph' = graph /\ execution' = execution
      /\ \A m \in ns : step'[e][m] = "queued"
      /\ \A m \in Nodes : m \notin ns => step'[e][m] = step[e][m]
      /\ \A x \in Execs : x # e => step'[x] = step[x]
  BY <1>1, <1>6, SettingSteps DEF IInv, StepStatuses
<1>8. /\ planner'.at = place /\ planner'.msg = planner.msg /\ planner'.todo = ns
      /\ planner' # Idle
  <2>1. planner = [at |-> planner.at, msg |-> planner.msg, todo |-> planner.todo,
                   outcome |-> planner.outcome]
    BY <1>1, PlannerTyped DEF IInv
  <2>2. planner' = [at |-> place, msg |-> planner.msg, todo |-> ns, outcome |-> planner.outcome]
    BY <1>1, <2>1
  <2> QED BY <2>2 DEF Idle
<1>9. place \in {"check", "announce"} /\ (place = "check" <=> ns = {})
  OBVIOUS
<1> HIDE DEF place
<1>10. \A x \in Execs, y \in Nodes : step[x][y] # "absent" => step'[x][y] = step[x][y]
  BY <1>1, <1>6, <1>7
<1>11. GraphsExecutable'
  <2>1. ASSUME NEW x \in Execs, NEW y \in Nodes, step'[x][y] # "absent",
               NEW t \in Triggers(graph[x])
        PROVE  step'[x][t] # "absent"
    <3>1. CASE x = e
      BY <1>1, <1>3, <1>6, <1>10, <2>1, <3>1
    <3>2. CASE x # e
      BY <1>7, <2>1, <3>2 DEF PInv, GraphsExecutable
    <3> QED BY <3>1, <3>2
  <2>2. ASSUME NEW x \in Execs, NEW y \in Nodes, step'[x][y] \in {"queued", "running"}
        PROVE  y \notin Triggers(graph[x]) /\ \E p \in Nodes : y \in Successors(graph[x], p)
    <3>1. CASE x = e /\ y \in ns
      BY <1>1, <1>6, <3>1
    <3>2. CASE x # e \/ y \notin ns
      <4>1. step[x][y] \in {"queued", "running"}
        BY <1>1, <1>7, <2>2, <3>2
      <4> QED BY <4>1 DEF PInv, GraphsExecutable
    <3> QED BY <3>1, <3>2
  <2> QED BY <1>7, <2>1, <2>2 DEF PInv, GraphsExecutable
<1>12. ASSUME NEW x \in Execs, NEW y \in Nodes, x # e
       PROVE  Tip(x, y)' <=> Tip(x, y)
  BY <1>7, <1>12 DEF Tip
<1> DEFINE TipNow(y) == /\ step'[e][y] # "absent"
                        /\ \A m \in Successors(g, y) \ Triggers(g) : step'[e][m] = "absent"
<1>13. ASSUME NEW y \in Nodes
       PROVE  Tip(e, y)' <=> TipNow(y)
  BY <1>1, <1>7, <1>8 DEF Tip
<1>14. ASSUME NEW y \in Nodes, TipNow(y), y \notin ns
       PROVE  Tip(e, y)
  <2>1. step[e][y] # "absent"
    BY <1>1, <1>7, <1>14
  <2>2. ASSUME NEW m \in Successors(g, y) \ Triggers(g)
        PROVE  step[e][m] = "absent"
    <3>1. m \in Nodes /\ step'[e][m] = "absent"
      BY <1>3, <1>14, <2>2, GraphNodes
    <3> QED BY <1>1, <1>10, <3>1
  <2> QED BY <2>1, <2>2 DEF Tip
<1>15. ASSUME NEW y \in Nodes, Tip(e, y), y # n
       PROVE  TipNow(y)
  <2>1. step'[e][y] # "absent"
    BY <1>1, <1>10, <1>15 DEF Tip
  <2>2. ASSUME NEW m \in Successors(g, y) \ Triggers(g)
        PROVE  step'[e][m] = "absent"
    <3>1. m \in Nodes /\ step[e][m] = "absent"
      BY <1>3, <1>15, <2>2, GraphNodes DEF Tip
    <3>2. m \notin ns
      BY <1>4, <1>6, <1>15, <2>2
    <3> QED BY <1>7, <3>1, <3>2
  <2> QED BY <2>1, <2>2
<1>16. ns # {} => ~TipNow(n)
  BY <1>6, <1>7
<1> HIDE DEF TipNow
<1>17. OneTip'
  <2>1. ASSUME ~FansOut(g), NEW y \in Nodes, NEW z \in Nodes, TipNow(y), TipNow(z), y # z
        PROVE  FALSE
    <3>1. ASSUME NEW p \in ns, NEW q \in ns PROVE p = q
      BY <1>1, <1>6, <2>1 DEF FansOut
    <3>2. ns # {} => Tip(e, n)
      <4>1. ASSUME NEW p \in ns, NEW m \in Successors(g, n) PROVE step[e][m] = "absent"
        BY <1>1, <1>6, <2>1, <4>1 DEF FansOut
      <4> QED BY <1>2, <4>1 DEF Tip
    <3>3. ASSUME NEW p \in Nodes, NEW q \in Nodes, Tip(e, p), Tip(e, q) PROVE p = q
      BY <1>1, <1>2, <2>1, <3>3 DEF PInv, OneTip
    <3>4. ASSUME NEW p \in Nodes, TipNow(p), p \notin ns PROVE ns = {}
      <4>1. Tip(e, p)
        BY <1>14, <3>4
      <4>2. CASE ns # {}
        BY <1>1, <1>16, <3>2, <3>3, <3>4, <4>1, <4>2
      <4> QED BY <4>2
    <3>5. CASE ns = {}
      BY <1>14, <2>1, <3>3, <3>5
    <3>6. CASE ns # {}
      BY <2>1, <3>1, <3>4, <3>6
    <3> QED BY <3>5, <3>6
  <2>2. ASSUME NEW x \in Execs, execution[x] # "absent", ~FansOut(graph[x]),
               NEW y \in Nodes, NEW z \in Nodes, Tip(x, y)', Tip(x, z)'
        PROVE  y = z
    <3>1. CASE x = e
      BY <1>13, <2>1, <2>2, <3>1, <1>8 DEF Tip
    <3>2. CASE x # e
      BY <1>12, <2>2, <3>2 DEF PInv, OneTip
    <3> QED BY <3>1, <3>2
  <2>3. \A x \in Execs : FansOut(graph[x])' <=> FansOut(graph[x])
    BY <1>7 DEF FansOut, Successors
  <2> QED BY <1>7, <2>2, <2>3 DEF OneTip
<1>18. StepsAnnounced'
  <2>1. ASSUME NEW x \in Execs, NEW y \in Nodes, StepReady(x, y) \in sent
        PROVE  step'[x][y] # "absent"
    BY <1>10, <2>1 DEF PInv, StepsAnnounced
  <2>2. ASSUME NEW m \in ns
        PROVE  StepReady(e, m) \notin sent
    BY <1>1, <1>6 DEF PInv, StepsAnnounced
  <2>3. ASSUME NEW m \in planner'.todo
        PROVE  step'[e][m] = "queued" /\ StepReady(e, m) \notin sent
    BY <1>7, <1>8, <2>2
  <2>4. planner'.msg.exec = e
    BY <1>8
  <2> QED BY <1>1, <2>1, <2>3, <2>4 DEF StepsAnnounced, StepReady
<1>19. Carried'
  <2> SUFFICES ASSUME faults = 0, NEW x \in Execs
               PROVE  QueuedCarried(x)' /\ RunningCarried(x)'
    BY <1>1 DEF Carried
  <2>1. QueuedCarried(x) /\ RunningCarried(x)
    BY DEF PInv, Carried
  <2>2. QueuedCarried(x)'
    BY <1>1, <1>7, <2>1, PostedNext DEF QueuedCarried
  <2>3. CASE x # e
    <3>1. \A y \in Nodes : step'[x][y] = step[x][y]
      BY <1>7, <2>3
    <3> QED BY <1>1, <1>7, <1>8, <2>1, <2>2, <2>3, <3>1, PostedNext
            DEF RunningCarried, StepCarried, OutcomeOnItsWay, HasActiveSteps, PlannerOn
  <2>4. CASE x = e
    <3>1. PlannerOn(x)' /\ planner'.at # "claim"
      BY <1>8, <1>9, <2>4 DEF PlannerOn, Idle
    <3>2. OutcomeOnItsWay(x)'
      BY <3>1 DEF OutcomeOnItsWay
    <3>3. ASSUME NEW y \in Nodes, y \in ns
          PROVE  StepCarried(x, y)'
      BY <1>7, <1>8, <1>9, <2>4, <3>1, <3>3 DEF StepCarried, PlannerOn
    <3>4. ASSUME NEW y \in Nodes, y \notin ns, StepCarried(x, y)
          PROVE  StepCarried(x, y)'
      BY <1>1, <1>7, <2>4, <3>4, PostedNext DEF StepCarried, PlannerOn
    <3>5. (\A y \in Nodes : StepCarried(x, y)') \/ ~FullySupported(graph[x])
      BY <1>2, <2>1, <2>4, <3>3, <3>4 DEF RunningCarried
    <3>6. FullySupported(graph[x])' <=> FullySupported(graph[x])
      BY <1>7 DEF FullySupported, Supported, Triggers
    <3>7. RunningCarried(x)'
      BY <3>2, <3>5, <3>6 DEF RunningCarried
    <3> QED BY <2>2, <3>7
  <2> QED BY <2>3, <2>4
<1>20. OutcomesOnce'
  <2> SUFFICES ASSUME redeliveries = 0 PROVE OutcomesOnce'
    BY <1>1 DEF OutcomesOnce
  <2>1. OutcomesOnce
    BY DEF PInv
  <2>2. OnceIn(orchestrationQueue)'
    BY <1>1, <2>1 DEF OutcomesOnce, OnceIn
  <2>3. ~Posted(orchestrationQueue, planner.msg) /\ planner.msg = StepCompleted(e, n)
    BY <1>1, <2>1, MessagesSay DEF OutcomesOnce
  <2>4. ASSUME NEW x \in Execs, NEW y \in Nodes, Tip(x, y), x # e \/ y # n
        PROVE  Tip(x, y)'
    <3>1. CASE x # e
      BY <1>12, <2>4, <3>1
    <3>2. CASE x = e
      <4>1. Tip(e, y)'
        BY <1>13, <1>15, <2>4, <3>2
      <4> QED BY <1>8, <3>2, <4>1 DEF Tip
    <3> QED BY <3>1, <3>2
  <2>5. ASSUME NEW x \in Execs, NEW y \in Nodes, Posted(orchestrationQueue, StepCompleted(x, y))'
        PROVE  Tip(x, y)'
    <3>1. Posted(orchestrationQueue, StepCompleted(x, y))
      BY <1>1, <2>5, PostedNext
    <3>2. Tip(x, y) /\ (x # e \/ y # n)
      BY <2>1, <2>3, <3>1 DEF OutcomesOnce
    <3> QED BY <2>4, <3>2
  <2>6. ASSUME runner'.at = "report"
        PROVE  /\ StepCompleted(runner.msg.exec, runner.msg.node)' \notin sent'
               /\ Tip(runner.msg.exec, runner.msg.node)'
               /\ runner'.msg.node \notin Triggers(graph[runner.msg.exec])'
    <3> DEFINE x == runner.msg.exec
               y == runner.msg.node
    <3>1. runner # Idle /\ x \in Execs /\ y \in Nodes
      BY <1>1, <2>6, RunnerFacts DEF Idle
    <3>2. StepCompleted(x, y) \notin sent /\ Tip(x, y) /\ y \notin Triggers(graph[x])
      BY <1>1, <2>1, <2>6 DEF OutcomesOnce
    <3>3. planner.msg \in sent
      BY <1>1, PlannerFacts
    <3>4. x # e \/ y # n
      BY <2>3, <3>2, <3>3
    <3>5. Tip(x, y)'
      BY <1>1, <2>4, <3>1, <3>2, <3>4 DEF Tip
    <3> QED BY <1>1, <1>7, <3>2, <3>5 DEF Tip, StepCompleted, Triggers
  <2> QED BY <1>8, <1>9, <2>2, <2>5, <2>6 DEF OutcomesOnce
\* Where nothing is created, every step has led on: one that has not would be a tip
\* beside the one whose outcome is handled.
<1>21. ChainsLedOn'
  <2>1. ASSUME redeliveries = 0, ns = {}, ~FansOut(g), NEW y \in Nodes, step[e][y] # "absent",
               NEW m \in Successors(g, y), step[e][m] = "absent"
        PROVE  FALSE
    <3>1. Tip(e, n)
      BY <1>1, <2>1 DEF PInv, OutcomesOnce
    <3>2. m \in Nodes /\ m \notin Triggers(g)
      BY <1>1, <1>3, <2>1, GraphNodes
    <3>3. \A z \in Successors(g, y) : z = m
      BY <2>1 DEF FansOut
    <3>4. Tip(e, y)
      BY <2>1, <3>3 DEF Tip
    <3>5. y = n
      BY <1>1, <1>2, <2>1, <3>1, <3>4 DEF PInv, OneTip
    <3> QED BY <1>6, <2>1, <3>5
  <2>2. ASSUME redeliveries = 0, ns = {}, ~FansOut(g)
        PROVE  LedOn(e)'
    <3>1. \A y \in Nodes : step'[e][y] = step[e][y]
      BY <1>7, <2>2
    <3>2. \A y \in Nodes : Successors(g, y) \subseteq Nodes
      BY <1>3, GraphNodes
    <3>3. \A y \in Nodes : step[e][y] # "absent" =>
            \A m \in Successors(g, y) : step[e][m] # "absent"
      BY <2>1, <2>2
    <3> QED BY <1>1, <1>7, <1>8, <3>1, <3>2, <3>3 DEF LedOn
  <2>3. ASSUME redeliveries = 0, NEW x \in Execs, execution[x] = "completed", ~FansOut(graph[x])
        PROVE  LedOn(x)'
    <3>1. x # e /\ LedOn(x)
      BY <1>2, <2>3 DEF PInv, ChainsLedOn
    <3> QED BY <1>7, <3>1 DEF LedOn
  <2>4. ASSUME redeliveries = 0, NEW x \in Execs, PlannerOn(x)', ~FansOut(graph[x]),
               planner'.at \in {"check", "judge", "finish"}
        PROVE  LedOn(x)'
    <3>1. x = e /\ ns = {}
      BY <1>8, <1>9, <2>4 DEF PlannerOn
    <3> QED BY <1>8, <2>2, <2>4, <3>1 DEF LedOn
  <2>5. \A x \in Execs : FansOut(graph[x])' <=> FansOut(graph[x])
    BY <1>7 DEF FansOut, Successors
  <2> QED BY <1>1, <1>7, <2>3, <2>4, <2>5 DEF ChainsLedOn
<1> QED BY <1>11, <1>17, <1>18, <1>19, <1>20, <1>21 DEF PInv

LEMMA AnnounceStepKeepsPInv ==
  ASSUME IInv, PInv, AnnounceStep
  PROVE  PInv'
<1> DEFINE e == planner.msg.exec
<1>1. PICK n \in planner.todo :
        /\ PublishStep(StepReady(e, n))
        /\ IF planner.todo = {n} THEN PlannerDone
                                 ELSE planner' = [planner EXCEPT !.todo = @ \ {n}]
  BY DEF AnnounceStep
<1> DEFINE m == StepReady(e, n)
<1>2. /\ planner.at = "announce" /\ planner # Idle /\ e \in Execs /\ n \in Nodes
      /\ planner.todo \subseteq Nodes
      /\ stepQueue' = Append(stepQueue, m)
      /\ sent' = sent \cup {m} /\ orchestrationQueue' = orchestrationQueue
      /\ graph' = graph /\ execution' = execution /\ step' = step
      /\ runner' = runner /\ unannounced' = unannounced
      /\ faults' = faults /\ redeliveries' = redeliveries
  BY <1>1, PlannerTyped DEF AnnounceStep, PublishStep, PlannerAt, Idle, storeVars, boundVars,
     IInv
<1>3. \/ planner.todo = {n} /\ planner' = Idle /\ planner'.at = "idle"
      \/ /\ planner' # Idle /\ planner'.at = "announce" /\ planner'.msg = planner.msg
         /\ planner'.todo = planner.todo \ {n}
  <2>1. planner = [at |-> planner.at, msg |-> planner.msg, todo |-> planner.todo,
                   outcome |-> planner.outcome]
    BY <1>2, PlannerTyped DEF IInv
  <2>2. CASE planner.todo = {n}
    BY <1>1, <2>2 DEF PlannerDone, Idle
  <2>3. CASE planner.todo # {n}
    <3>1. planner' = [at |-> "announce", msg |-> planner.msg, todo |-> planner.todo \ {n},
                      outcome |-> planner.outcome]
      BY <1>1, <1>2, <2>1, <2>3
    <3> QED BY <3>1 DEF Idle
  <2> QED BY <2>2, <2>3
<1>4. m \in StepMessages /\ m.type = "step:ready" /\ m.exec = e /\ m.node = n
  BY <1>2, MessagesSay
<1> HIDE DEF m
<1>5. \A x : Posted(stepQueue', x) <=> Posted(stepQueue, x) \/ x = m
  BY <1>2, <1>4, PostedAppend DEF IInv, TypeOK
<1>6. step[e][n] = "queued" /\ \A x \in planner.todo : step[e][x] = "queued"
  BY <1>1, <1>2 DEF PInv, StepsAnnounced
<1>7. /\ GraphsExecutable' /\ OneTip'
      /\ \A x \in Execs, y \in Nodes : Tip(x, y) => Tip(x, y)'
      /\ \A x \in Execs : LedOn(x) => LedOn(x)'
  BY <1>2, TablesUnchanged
<1>8. StepsAnnounced'
  <2>1. ASSUME NEW x \in Execs, NEW y \in Nodes, StepReady(x, y) \in sent'
        PROVE  step[x][y] # "absent"
    <3>1. CASE StepReady(x, y) \in sent
      BY <3>1 DEF PInv, StepsAnnounced
    <3>2. CASE StepReady(x, y) = m
      BY <1>4, <1>6, <3>2, MessagesSay
    <3> QED BY <1>2, <2>1, <3>1, <3>2
  <2>2. ASSUME planner'.at = "announce", NEW y \in planner'.todo
        PROVE  step[e][y] = "queued" /\ StepReady(e, y) \notin sent' /\ planner'.msg = planner.msg
    <3>1. y \in planner.todo /\ y # n /\ planner'.msg = planner.msg
      BY <1>3, <2>2
    <3>2. StepReady(e, y) \notin sent
      BY <1>2, <3>1 DEF PInv, StepsAnnounced
    <3>3. StepReady(e, y) # m
      BY <1>4, <3>1, MessagesSay
    <3> QED BY <1>2, <1>6, <3>1, <3>2, <3>3
  <2> QED BY <1>2, <2>1, <2>2 DEF StepsAnnounced, StepReady
<1>9. Carried'
  <2> SUFFICES ASSUME faults = 0, NEW x \in Execs
               PROVE  QueuedCarried(x)' /\ RunningCarried(x)'
    BY <1>2 DEF Carried
  <2>1. QueuedCarried(x) /\ RunningCarried(x)
    BY DEF PInv, Carried
  <2>2. QueuedCarried(x)'
    BY <1>2, <2>1, PostedNext DEF QueuedCarried
  <2>3. ASSUME NEW y \in Nodes, StepCarried(x, y) PROVE StepCarried(x, y)'
    <3>1. CASE x = e /\ y = n
      <4>1. Posted(stepQueue, StepReady(x, y))'
        BY <1>5, <3>1, PostedNext DEF m
      <4>2. step'[x][y] # "running"
        BY <1>2, <1>6, <3>1
      <4> QED BY <4>1, <4>2 DEF StepCarried
    <3>2. CASE x # e \/ y # n
      <4>1. PlannerOn(x) /\ planner.at = "announce" /\ y \in planner.todo =>
              PlannerOn(x)' /\ planner'.at = "announce" /\ y \in planner'.todo
        BY <1>3, <3>2 DEF PlannerOn
      <4> QED BY <1>2, <1>5, <2>3, <4>1, PostedNext DEF StepCarried
    <3> QED BY <3>1, <3>2
  <2>4. x # e => (OutcomeOnItsWay(x) => OutcomeOnItsWay(x)')
    BY <1>2, PostedNext DEF OutcomeOnItsWay, PlannerOn
  <2>5. HasActiveSteps(x)' <=> HasActiveSteps(x)
    BY <1>2 DEF HasActiveSteps
  <2>6. HasActiveSteps(e)
    BY <1>2, <1>6 DEF HasActiveSteps
  <2>7. FullySupported(graph[x])' <=> FullySupported(graph[x])
    BY <1>2 DEF FullySupported, Supported, Triggers
  <2>8. RunningCarried(x)'
    BY <1>2, <2>1, <2>3, <2>4, <2>5, <2>6, <2>7 DEF RunningCarried
  <2> QED BY <2>2, <2>8
<1>10. planner'.at \in {"idle", "announce"}
  BY <1>3
<1>11. OutcomesOnce'
  BY <1>2, <1>4, <1>7, <1>10, OutcomesKept
<1>12. ChainsLedOn'
  BY <1>2, <1>7, <1>10, ChainsKept
<1> QED BY <1>7, <1>8, <1>9, <1>11, <1>12 DEF PInv

\* On a chain, what is reported completed has led on to its end.
LEMMA FinishKeepsPInv ==
  ASSUME IInv, PInv, Finish
  PROVE  PInv'
<1> DEFINE e == planner.msg.exec
<1>1. /\ planner.at = "finish" /\ planner # Idle /\ e \in Execs /\ planner' = Idle
      /\ FinishExecution(e, planner.outcome)
      /\ orchestrationQueue' = orchestrationQueue /\ stepQueue' = stepQueue /\ sent' = sent
      /\ runner' = runner /\ unannounced' = unannounced
      /\ faults' = faults /\ redeliveries' = redeliveries
  BY PlannerTyped DEF Finish, PlannerAt, PlannerDone, Idle, queueVars, boundVars, IInv
<1>2. execution[e] = "running" /\ planner.outcome \in {"failed", "completed"}
  BY <1>1, PlannerFacts
<1>3. /\ graph' = graph /\ step' = step
      /\ execution'[e] \in {"failed", "completed"}
      /\ \A x \in Execs : x # e => execution'[x] = execution[x]
  BY <1>1, <1>2, SettingExecution DEF FinishExecution, IInv, ExecutionStatuses
<1>4. /\ GraphsExecutable' /\ OneTip'
      /\ \A x \in Execs : execution[x] # "absent" => (LedOn(x)' <=> LedOn(x))
  BY <1>2, <1>3, NothingCreated DEF PInv
<1>5. planner'.at = "idle"
  BY <1>1 DEF Idle
<1>6. StepsAnnounced'
  BY <1>1, <1>3, <1>5 DEF PInv, StepsAnnounced
<1>7. Carried'
  <2> SUFFICES ASSUME faults = 0, NEW x \in Execs
               PROVE  QueuedCarried(x)' /\ RunningCarried(x)'
    BY <1>1 DEF Carried
  <2>1. QueuedCarried(x) /\ RunningCarried(x)
    BY DEF PInv, Carried
  <2>2. CASE x = e
    BY <1>3, <2>2 DEF QueuedCarried, RunningCarried
  <2>3. CASE x # e
    BY <1>1, <1>3, <1>5, <2>1, <2>3, PostedNext
       DEF QueuedCarried, RunningCarried, StepCarried, OutcomeOnItsWay, HasActiveSteps,
           PlannerOn
  <2> QED BY <2>2, <2>3
<1>8. OutcomesOnce'
  <2>1. ASSUME NEW x \in Execs, NEW n \in Nodes, Tip(x, n)
        PROVE  Tip(x, n)'
    BY <1>3, <2>1 DEF Tip
  <2> QED BY <1>1, <1>3, <1>5, <2>1, OutcomesKept
<1>9. ChainsLedOn'
  <2>1. ASSUME redeliveries = 0, NEW x \in Execs, execution'[x] = "completed", ~FansOut(graph[x])
        PROVE  LedOn(x)'
    <3>1. CASE x = e
      <4>1. LedOn(e)
        BY <1>1, <1>2, <2>1, <3>1 DEF PInv, ChainsLedOn, PlannerOn
      <4> QED BY <1>2, <1>4, <2>1, <3>1, <4>1 DEF LedOn
    <3>2. CASE x # e
      <4>1. execution[x] = "completed" /\ LedOn(x)
        BY <1>3, <2>1, <3>2 DEF PInv, ChainsLedOn
      <4> QED BY <1>4, <4>1
    <3> QED BY <3>1, <3>2
  <2>2. \A x \in Execs : FansOut(graph[x])' <=> FansOut(graph[x])
    BY <1>3 DEF FansOut, Successors
  <2> QED BY <1>1, <1>5, <2>1, <2>2 DEF ChainsLedOn
<1> QED BY <1>4, <1>6, <1>7, <1>8, <1>9 DEF PInv

LEMMA FailKeepsPInv ==
  ASSUME IInv, PInv, FailExecution
  PROVE  PInv'
<1> DEFINE e == planner.msg.exec
<1>1. /\ planner.at = "fail" /\ planner # Idle /\ e \in Execs
      /\ FinishExecution(e, "failed") /\ planner' = [planner EXCEPT !.at = "cancel"]
      /\ orchestrationQueue' = orchestrationQueue /\ stepQueue' = stepQueue /\ sent' = sent
      /\ runner' = runner /\ unannounced' = unannounced
      /\ faults' = faults /\ redeliveries' = redeliveries
  BY PlannerTyped DEF FailExecution, PlannerAt, PlannerTo, Idle, queueVars, boundVars, IInv
<1>2. execution[e] \in {"running", "failed"}
  <2>1. step[e][planner.msg.node] = "failed" /\ planner.msg.type # "execution:enqueued"
    BY <1>1, PlannerFacts
  <2>2. planner.msg.node \in Nodes
    BY <1>1, <2>1, PlannerTyped DEF IInv
  <2> QED BY <1>1, <2>1, <2>2 DEF IInv, RowsAgree
<1>3. /\ graph' = graph /\ step' = step /\ execution'[e] = "failed"
      /\ \A x \in Execs : x # e => execution'[x] = execution[x]
  BY <1>1, <1>2, SettingExecution DEF FinishExecution, IInv, ExecutionStatuses, storeVars
<1>4. /\ GraphsExecutable' /\ OneTip'
      /\ \A x \in Execs : execution[x] # "absent" => (LedOn(x)' <=> LedOn(x))
  BY <1>2, <1>3, NothingCreated DEF PInv
<1>5. planner'.at = "cancel"
  BY <1>1, PlannerTyped DEF IInv
<1>6. StepsAnnounced'
  BY <1>1, <1>3, <1>5 DEF PInv, StepsAnnounced
<1>7. Carried'
  <2> SUFFICES ASSUME faults = 0, NEW x \in Execs
               PROVE  QueuedCarried(x)' /\ RunningCarried(x)'
    BY <1>1 DEF Carried
  <2>1. QueuedCarried(x) /\ RunningCarried(x)
    BY DEF PInv, Carried
  <2>2. CASE x = e
    BY <1>3, <2>2 DEF QueuedCarried, RunningCarried
  <2>3. CASE x # e
    BY <1>1, <1>3, <1>5, <2>1, <2>3, PostedNext
       DEF QueuedCarried, RunningCarried, StepCarried, OutcomeOnItsWay, HasActiveSteps,
           PlannerOn
  <2> QED BY <2>2, <2>3
<1>8. OutcomesOnce'
  <2>1. ASSUME NEW x \in Execs, NEW n \in Nodes, Tip(x, n)
        PROVE  Tip(x, n)'
    BY <1>3, <2>1 DEF Tip
  <2> QED BY <1>1, <1>3, <1>5, <2>1, OutcomesKept
<1>9. ChainsLedOn'
  <2>1. ASSUME NEW x \in Execs, execution'[x] = "completed"
        PROVE  execution[x] = "completed"
    BY <1>3, <2>1
  <2> QED BY <1>1, <1>3, <1>4, <1>5, <2>1, ChainsKept
<1> QED BY <1>4, <1>6, <1>7, <1>8, <1>9 DEF PInv

LEMMA CancelKeepsPInv ==
  ASSUME IInv, PInv, CancelSteps
  PROVE  PInv'
<1> DEFINE e == planner.msg.exec
           ns == {n \in Nodes : step[e][n] = "queued"}
<1>1. /\ planner.at = "cancel" /\ planner # Idle /\ e \in Execs /\ planner' = Idle
      /\ SetSteps(e, ns, "cancelled")
      /\ orchestrationQueue' = orchestrationQueue /\ stepQueue' = stepQueue /\ sent' = sent
      /\ runner' = runner /\ unannounced' = unannounced
      /\ faults' = faults /\ redeliveries' = redeliveries
  BY PlannerTyped DEF CancelSteps, CancelQueuedSteps, PlannerAt, PlannerDone, Idle, queueVars,
     boundVars, IInv
<1>2. execution[e] = "failed"
  BY <1>1, PlannerFacts
<1>3. /\ ns \subseteq Nodes
      /\ \A n \in ns : step[e][n] = "queued"
  OBVIOUS
<1> HIDE DEF ns
<1>4. /\ graph' = graph /\ execution' = execution
      /\ \A n \in Nodes : step'[e][n] = IF n \in ns THEN "cancelled" ELSE step[e][n]
      /\ \A x \in Execs : x # e => step'[x] = step[x]
  BY <1>1, SettingSteps DEF IInv, StepStatuses
<1>5. /\ \A x \in Execs, n \in Nodes : step'[x][n] = "absent" <=> step[x][n] = "absent"
      /\ \A x \in Execs, n \in Nodes :
           step'[x][n] \in {"queued", "running"} => step[x][n] \in {"queued", "running"}
  BY <1>1, <1>3, <1>4
<1>6. /\ GraphsExecutable' /\ OneTip'
      /\ \A x \in Execs, n \in Nodes : execution[x] # "absent" => (Tip(x, n)' <=> Tip(x, n))
      /\ \A x \in Execs : execution[x] # "absent" => (LedOn(x)' <=> LedOn(x))
  BY <1>4, <1>5, NothingCreated DEF PInv
<1>7. planner'.at = "idle"
  BY <1>1 DEF Idle
<1>8. StepsAnnounced'
  BY <1>1, <1>5, <1>7 DEF PInv, StepsAnnounced
<1>9. Carried'
  <2> SUFFICES ASSUME faults = 0, NEW x \in Execs
               PROVE  QueuedCarried(x)' /\ RunningCarried(x)'
    BY <1>1 DEF Carried
  <2>1. QueuedCarried(x) /\ RunningCarried(x)
    BY DEF PInv, Carried
  <2>2. CASE x = e
    BY <1>2, <1>4, <2>2 DEF QueuedCarried, RunningCarried
  <2>3. CASE x # e
    BY <1>1, <1>4, <1>7, <2>1, <2>3, PostedNext
       DEF QueuedCarried, RunningCarried, StepCarried, OutcomeOnItsWay, HasActiveSteps,
           PlannerOn
  <2> QED BY <2>2, <2>3
<1>10. OutcomesOnce'
  <2>1. ASSUME NEW x \in Execs, NEW n \in Nodes, Tip(x, n)
        PROVE  Tip(x, n)'
    BY <1>6, <2>1 DEF Tip, IInv, RowsAgree
  <2> QED BY <1>1, <1>4, <1>7, <2>1, OutcomesKept
<1>11. ChainsLedOn'
  BY <1>1, <1>4, <1>6, <1>7, ChainsKept
<1> QED BY <1>6, <1>8, <1>9, <1>10, <1>11 DEF PInv

-----------------------------------------------------------------------------
(* The step worker. *)

LEMMA TakeStepKeepsPInv ==
  ASSUME IInv, PInv, TakeStep
  PROVE  PInv'
<1> DEFINE m == Head(stepQueue)
<1>1. /\ runner.at = "idle" /\ stepQueue # <<>>
      /\ runner' = [Idle EXCEPT !.at = "claim", !.msg = m]
      /\ stepQueue' = Tail(stepQueue)
      /\ graph' = graph /\ execution' = execution /\ step' = step
      /\ orchestrationQueue' = orchestrationQueue /\ sent' = sent
      /\ planner' = planner /\ unannounced' = unannounced
      /\ faults' = faults /\ redeliveries' = redeliveries
  BY DEF TakeStep, RunnerAt, storeVars, boundVars
<1>2. \A x : Posted(stepQueue, x) <=> x = m \/ Posted(stepQueue', x)
  BY <1>1, PostedTail DEF IInv, TypeOK
<1> HIDE DEF m
<1>3. runner'.at = "claim" /\ runner'.msg = m
  BY <1>1 DEF Idle
<1>4. /\ GraphsExecutable' /\ OneTip'
      /\ \A x \in Execs, n \in Nodes : Tip(x, n) => Tip(x, n)'
      /\ \A x \in Execs : LedOn(x) => LedOn(x)'
  BY <1>1, TablesUnchanged
<1>5. StepsAnnounced'
  BY <1>1 DEF PInv, StepsAnnounced
<1>6. Carried'
  <2> SUFFICES ASSUME faults = 0, NEW x \in Execs
               PROVE  QueuedCarried(x)' /\ RunningCarried(x)'
    BY <1>1 DEF Carried
  <2>1. QueuedCarried(x) /\ RunningCarried(x)
    BY DEF PInv, Carried
  <2>2. QueuedCarried(x)'
    BY <1>1, <2>1, PostedNext DEF QueuedCarried
  <2>3. ASSUME NEW n \in Nodes, StepCarried(x, n) PROVE StepCarried(x, n)'
    BY <1>1, <1>2, <1>3, <2>3, PostedNext DEF StepCarried, PlannerOn, StepReady
  <2>4. OutcomeOnItsWay(x) => OutcomeOnItsWay(x)'
    BY <1>1, PostedNext DEF OutcomeOnItsWay, PlannerOn
  <2>5. HasActiveSteps(x)' <=> HasActiveSteps(x)
    BY <1>1 DEF HasActiveSteps
  <2>6. FullySupported(graph[x])' <=> FullySupported(graph[x])
    BY <1>1 DEF FullySupported, Supported, Triggers
  <2>7. RunningCarried(x)'
    BY <1>1, <2>1, <2>3, <2>4, <2>5, <2>6 DEF RunningCarried
  <2> QED BY <2>2, <2>7
<1>7. OutcomesOnce'
  BY <1>1, <1>3, <1>4, OutcomesKept
<1>8. ChainsLedOn'
  BY <1>1, <1>4, ChainsKept
<1> QED BY <1>4, <1>5, <1>6, <1>7, <1>8 DEF PInv

LEMMA ClaimStepKeepsPInv ==
  ASSUME IInv, PInv, ClaimStep
  PROVE  PInv'
<1> DEFINE e == runner.msg.exec
           n == runner.msg.node
<1>1. /\ runner.at = "claim" /\ runner # Idle /\ e \in Execs /\ n \in Nodes
      /\ runner.msg \in sent /\ runner.msg = StepReady(e, n)
      /\ orchestrationQueue' = orchestrationQueue /\ stepQueue' = stepQueue /\ sent' = sent
      /\ planner' = planner /\ unannounced' = unannounced
      /\ faults' = faults /\ redeliveries' = redeliveries
  <2>1. runner.at = "claim" /\ runner # Idle
    BY DEF ClaimStep, RunnerAt, Idle
  <2> QED BY <2>1, RunnerFacts, MessagesSay DEF ClaimStep, RunnerAt, queueVars, boundVars
<1>2. /\ graph' = graph /\ execution' = execution
      /\ \A x \in Execs, y \in Nodes : x # e \/ y # n => step'[x][y] = step[x][y]
      /\ \/ /\ step[e][n] = "queued" /\ step'[e][n] = "running"
            /\ runner'.at = "load" /\ runner'.msg = runner.msg
         \/ step[e][n] # "queued" /\ step'[e][n] = step[e][n] /\ runner'.at = "idle"
  <2>1. CASE ClaimableStep(e, n)
    <3>1. SetSteps(e, {n}, "running") /\ runner' = [runner EXCEPT !.at = "load"]
      BY <2>1 DEF ClaimStep, RunnerTo
    <3>2. runner'.at = "load" /\ runner'.msg = runner.msg
      BY <1>1, <3>1, RunnerFacts
    <3> QED BY <1>1, <2>1, <3>1, <3>2, SettingSteps DEF ClaimableStep, IInv, StepStatuses
  <2>2. CASE ~ClaimableStep(e, n)
    BY <2>2 DEF ClaimStep, ClaimableStep, RunnerDone, Idle, storeVars
  <2> QED BY <2>1, <2>2
<1>3. /\ \A x \in Execs, y \in Nodes : step'[x][y] = "absent" <=> step[x][y] = "absent"
      /\ \A x \in Execs, y \in Nodes :
           step'[x][y] \in {"queued", "running"} => step[x][y] \in {"queued", "running"}
  BY <1>2
<1>4. /\ GraphsExecutable' /\ OneTip'
      /\ \A x \in Execs, y \in Nodes : execution[x] # "absent" => (Tip(x, y)' <=> Tip(x, y))
      /\ \A x \in Execs : execution[x] # "absent" => (LedOn(x)' <=> LedOn(x))
  BY <1>2, <1>3, NothingCreated DEF PInv
\* The step claimed was announced: it is none the planner still has to announce.
<1>5. StepsAnnounced'
  <2>1. ASSUME planner.at = "announce", NEW y \in planner.todo
        PROVE  /\ step'[planner.msg.exec][y] = "queued"
               /\ StepReady(planner.msg.exec, y) \notin sent
    <3>1. planner.msg.exec \in Execs /\ y \in Nodes
      BY <2>1, PlannerTyped DEF IInv, Idle
    <3>2. /\ step[planner.msg.exec][y] = "queued"
          /\ StepReady(planner.msg.exec, y) \notin sent
      BY <2>1 DEF PInv, StepsAnnounced
    <3>3. planner.msg.exec # e \/ y # n
      BY <1>1, <3>2
    <3> QED BY <1>2, <3>1, <3>2, <3>3
  <2>2. ASSUME NEW x \in Execs, NEW y \in Nodes, StepReady(x, y) \in sent
        PROVE  step'[x][y] # "absent"
    BY <1>3, <2>2 DEF PInv, StepsAnnounced
  <2> QED BY <1>1, <2>1, <2>2 DEF StepsAnnounced, StepReady
<1>6. Carried'
  <2> SUFFICES ASSUME faults = 0, NEW x \in Execs
               PROVE  QueuedCarried(x)' /\ RunningCarried(x)'
    BY <1>1 DEF Carried
  <2>1. QueuedCarried(x) /\ RunningCarried(x)
    BY DEF PInv, Carried
  <2>2. QueuedCarried(x)'
    BY <1>1, <1>2, <2>1, PostedNext DEF QueuedCarried
  <2>3. ASSUME NEW y \in Nodes, StepCarried(x, y) PROVE StepCarried(x, y)'
    <3>1. CASE x = e /\ y = n
      BY <1>1, <1>2, <2>3, <3>1, PostedNext DEF StepCarried, StepReady, PlannerOn
    <3>2. CASE x # e \/ y # n
      <4>1. runner.msg # StepReady(x, y)
        BY <1>1, <3>2, MessagesSay
      <4> QED BY <1>1, <1>2, <2>3, <3>2, <4>1, PostedNext DEF StepCarried, PlannerOn
    <3> QED BY <3>1, <3>2
  <2>4. OutcomeOnItsWay(x) => OutcomeOnItsWay(x)'
    BY <1>1, PostedNext DEF OutcomeOnItsWay, PlannerOn
  <2>5. HasActiveSteps(x) => HasActiveSteps(x)'
    BY <1>2 DEF HasActiveSteps
  <2>6. FullySupported(graph[x])' <=> FullySupported(graph[x])
    BY <1>2 DEF FullySupported, Supported, Triggers
  <2>7. RunningCarried(x)'
    BY <1>2, <2>1, <2>3, <2>4, <2>5, <2>6 DEF RunningCarried
  <2> QED BY <2>2, <2>7
<1>7. OutcomesOnce'
  <2>1. ASSUME NEW x \in Execs, NEW y \in Nodes, Tip(x, y)
        PROVE  Tip(x, y)'
    BY <1>4, <2>1 DEF Tip, IInv, RowsAgree
  <2> QED BY <1>1, <1>2, <2>1, OutcomesKept
<1>8. ChainsLedOn'
  BY <1>1, <1>2, <1>4, ChainsKept
<1> QED BY <1>4, <1>5, <1>6, <1>7, <1>8 DEF PInv

\* A step that runs is a successor with completed predecessors, so in an execution that
\* goes on, of supported steps, the runner does not give it up.
LEMMA LoadKeepsPInv ==
  ASSUME IInv, PInv, LoadStep
  PROVE  PInv'
<1> DEFINE e == runner.msg.exec
           n == runner.msg.node
<1>1. /\ runner.at = "load" /\ runner # Idle /\ e \in Execs /\ n \in Nodes
      /\ runner.msg = StepReady(e, n) /\ step[e][n] = "running"
      /\ graph' = graph /\ execution' = execution /\ step' = step
      /\ orchestrationQueue' = orchestrationQueue /\ stepQueue' = stepQueue /\ sent' = sent
      /\ planner' = planner /\ unannounced' = unannounced
      /\ faults' = faults /\ redeliveries' = redeliveries
  <2>1. runner.at = "load" /\ runner # Idle
    BY DEF LoadStep, RunnerAt, Idle
  <2> QED BY <2>1, RunnerFacts, MessagesSay
          DEF LoadStep, RunnerAt, storeVars, queueVars, boundVars
<1>2. \/ Runnable(e, n) /\ runner'.at = "execute" /\ runner'.msg = runner.msg
      \/ ~Runnable(e, n) /\ runner'.at = "idle"
  <2>1. runner = [at |-> runner.at, msg |-> runner.msg, todo |-> {}, outcome |-> "none"]
    BY <1>1, RunnerFacts
  <2> QED BY <2>1 DEF LoadStep, RunnerTo, RunnerDone, Idle
<1>3. execution[e] = "running" /\ FullySupported(graph[e]) => Runnable(e, n)
  <2> SUFFICES ASSUME execution[e] = "running", FullySupported(graph[e])
               PROVE  Runnable(e, n)
    OBVIOUS
  <2>1. n \notin Triggers(graph[e]) /\ \E p \in Nodes : n \in Successors(graph[e], p)
    BY <1>1 DEF PInv, GraphsExecutable
  <2>2. Supported(graph[e], n)
    BY <2>1 DEF FullySupported, Successors
  <2>3. \A p \in Predecessors(graph[e], n) : step[e][p] = "completed"
    BY <1>1, <2>1 DEF IInv, InputsAvailable
  <2> QED BY <2>2, <2>3 DEF Runnable
<1>4. /\ GraphsExecutable' /\ OneTip'
      /\ \A x \in Execs, y \in Nodes : Tip(x, y) => Tip(x, y)'
      /\ \A x \in Execs : LedOn(x) => LedOn(x)'
  BY <1>1, TablesUnchanged
<1>5. StepsAnnounced'
  BY <1>1 DEF PInv, StepsAnnounced
<1>6. Carried'
  <2> SUFFICES ASSUME faults = 0, NEW x \in Execs
               PROVE  QueuedCarried(x)' /\ RunningCarried(x)'
    BY <1>1 DEF Carried
  <2>1. QueuedCarried(x) /\ RunningCarried(x)
    BY DEF PInv, Carried
  <2>2. QueuedCarried(x)'
    BY <1>1, <2>1, PostedNext DEF QueuedCarried
  <2>3. ASSUME NEW y \in Nodes, StepCarried(x, y), x = e => Runnable(e, n)
        PROVE  StepCarried(x, y)'
    <3>1. CASE Runnable(e, n)
      BY <1>1, <1>2, <2>3, <3>1, PostedNext DEF StepCarried, PlannerOn, StepReady
    <3>2. CASE x # e
      <4>1. runner.msg # StepReady(x, y)
        BY <1>1, <3>2, MessagesSay
      <4> QED BY <1>1, <2>3, <4>1, PostedNext DEF StepCarried, PlannerOn
    <3> QED BY <2>3, <3>1, <3>2
  <2>4. OutcomeOnItsWay(x) => OutcomeOnItsWay(x)'
    BY <1>1, PostedNext DEF OutcomeOnItsWay, PlannerOn
  <2>5. HasActiveSteps(x)' <=> HasActiveSteps(x)
    BY <1>1 DEF HasActiveSteps
  <2>6. FullySupported(graph[x])' <=> FullySupported(graph[x])
    BY <1>1 DEF FullySupported, Supported, Triggers
  <2>7. RunningCarried(x)'
    BY <1>1, <1>3, <2>1, <2>3, <2>4, <2>5, <2>6 DEF RunningCarried
  <2> QED BY <2>2, <2>7
<1>7. OutcomesOnce'
  BY <1>1, <1>2, <1>4, OutcomesKept
<1>8. ChainsLedOn'
  BY <1>1, <1>4, ChainsKept
<1> QED BY <1>4, <1>5, <1>6, <1>7, <1>8 DEF PInv

\* The outcome of a step that ran was not announced yet, and nothing follows it.
LEMMA RecordStepKeepsPInv ==
  ASSUME IInv, PInv, RecordStep
  PROVE  PInv'
<1> DEFINE e == runner.msg.exec
           n == runner.msg.node
<1>1. /\ runner.at = "execute" /\ runner # Idle /\ e \in Execs /\ n \in Nodes
      /\ runner.msg = StepReady(e, n) /\ step[e][n] = "running" /\ runner.msg \in sent
      /\ orchestrationQueue' = orchestrationQueue /\ stepQueue' = stepQueue /\ sent' = sent
      /\ planner' = planner /\ unannounced' = unannounced
      /\ faults' = faults /\ redeliveries' = redeliveries
  <2>1. runner.at = "execute" /\ runner # Idle
    BY DEF RecordStep, RunnerAt, Idle
  <2> QED BY <2>1, RunnerFacts, MessagesSay DEF RecordStep, RunnerAt, queueVars, boundVars
<1>2. PICK s \in {"completed", "failed"} :
        SetSteps(e, {n}, s) /\ runner' = [runner EXCEPT !.at = "report"]
  BY <1>1 DEF RecordStep, RunnerTo
<1>3. /\ graph' = graph /\ execution' = execution
      /\ \A x \in Execs, y \in Nodes : x # e \/ y # n => step'[x][y] = step[x][y]
      /\ step'[e][n] = s
      /\ runner'.at = "report" /\ runner'.msg = runner.msg
  <2>1. runner'.at = "report" /\ runner'.msg = runner.msg
    BY <1>1, <1>2, RunnerFacts
  <2> QED BY <1>1, <1>2, <2>1, SettingSteps DEF IInv, StepStatuses
<1>4. /\ \A x \in Execs, y \in Nodes : step'[x][y] = "absent" <=> step[x][y] = "absent"
      /\ \A x \in Execs, y \in Nodes :
           step'[x][y] \in {"queued", "running"} => step[x][y] \in {"queued", "running"}
  BY <1>1, <1>3
<1>5. /\ GraphsExecutable' /\ OneTip'
      /\ \A x \in Execs, y \in Nodes : execution[x] # "absent" => (Tip(x, y)' <=> Tip(x, y))
      /\ \A x \in Execs : execution[x] # "absent" => (LedOn(x)' <=> LedOn(x))
  BY <1>3, <1>4, NothingCreated DEF PInv
<1>6. StepsAnnounced'
  <2>1. ASSUME planner.at = "announce", NEW y \in planner.todo
        PROVE  /\ step'[planner.msg.exec][y] = "queued"
               /\ StepReady(planner.msg.exec, y) \notin sent
    <3>1. planner.msg.exec \in Execs /\ y \in Nodes
      BY <2>1, PlannerTyped DEF IInv, Idle
    <3>2. /\ step[planner.msg.exec][y] = "queued"
          /\ StepReady(planner.msg.exec, y) \notin sent
      BY <2>1 DEF PInv, StepsAnnounced
    <3>3. planner.msg.exec # e \/ y # n
      BY <1>1, <3>2
    <3> QED BY <1>3, <3>1, <3>2, <3>3
  <2>2. ASSUME NEW x \in Execs, NEW y \in Nodes, StepReady(x, y) \in sent
        PROVE  step'[x][y] # "absent"
    BY <1>4, <2>2 DEF PInv, StepsAnnounced
  <2> QED BY <1>1, <2>1, <2>2 DEF StepsAnnounced, StepReady
<1>7. Carried'
  <2> SUFFICES ASSUME faults = 0, NEW x \in Execs
               PROVE  QueuedCarried(x)' /\ RunningCarried(x)'
    BY <1>1 DEF Carried
  <2>1. QueuedCarried(x) /\ RunningCarried(x)
    BY DEF PInv, Carried
  <2>2. QueuedCarried(x)'
    BY <1>1, <1>3, <2>1, PostedNext DEF QueuedCarried
  <2>3. ASSUME NEW y \in Nodes, StepCarried(x, y) PROVE StepCarried(x, y)'
    <3>1. CASE x = e /\ y = n
      BY <1>3, <3>1 DEF StepCarried
    <3>2. CASE x # e \/ y # n
      <4>1. runner.msg # StepReady(x, y)
        BY <1>1, <3>2, MessagesSay
      <4> QED BY <1>1, <1>3, <2>3, <3>2, <4>1, PostedNext DEF StepCarried, PlannerOn
    <3> QED BY <3>1, <3>2
  <2>4. OutcomeOnItsWay(x) => OutcomeOnItsWay(x)'
    BY <1>1, PostedNext DEF OutcomeOnItsWay, PlannerOn
  <2>5. x # e => (HasActiveSteps(x) => HasActiveSteps(x)')
    BY <1>3 DEF HasActiveSteps
  <2>6. x = e => OutcomeOnItsWay(x)'
    BY <1>3 DEF OutcomeOnItsWay
  <2>7. FullySupported(graph[x])' <=> FullySupported(graph[x])
    BY <1>3 DEF FullySupported, Supported, Triggers
  <2>8. RunningCarried(x)'
    BY <1>3, <2>1, <2>3, <2>4, <2>5, <2>6, <2>7 DEF RunningCarried
  <2> QED BY <2>2, <2>8
<1>8. OutcomesOnce'
  <2> SUFFICES ASSUME redeliveries = 0 PROVE OutcomesOnce'
    BY <1>1 DEF OutcomesOnce
  <2>1. OutcomesOnce
    BY DEF PInv
  <2>2. OnceIn(orchestrationQueue)'
    BY <1>1, <2>1 DEF OutcomesOnce, OnceIn
  <2>3. ASSUME NEW x \in Execs, NEW y \in Nodes, Tip(x, y)
        PROVE  Tip(x, y)'
    BY <1>5, <2>3 DEF Tip, IInv, RowsAgree
  <2>4. ASSUME NEW x \in Execs, NEW y \in Nodes, Posted(orchestrationQueue, StepCompleted(x, y))'
        PROVE  Tip(x, y)'
    BY <1>1, <2>1, <2>3, <2>4, PostedNext DEF OutcomesOnce
  <2>5. ASSUME planner'.at \in {"read", "plan"}
        PROVE  /\ ~Posted(orchestrationQueue, planner.msg)'
               /\ Tip(planner.msg.exec, planner.msg.node)'
    <3>1. planner # Idle
      BY <1>1, <2>5 DEF Idle
    <3>2. planner.msg.type = "step:completed"
      BY <1>1, <2>5, <3>1, PlannerFacts, PlannerTyped DEF IInv
    <3> DEFINE x == planner.msg.exec
               y == planner.msg.node
    <3>3. x \in Execs /\ y \in Nodes
      BY <3>1, <3>2, PlannerTyped DEF IInv
    <3>4. ~Posted(orchestrationQueue, planner.msg) /\ Tip(x, y)
      BY <1>1, <2>1, <2>5 DEF OutcomesOnce
    <3>5. ~Posted(orchestrationQueue, planner.msg)'
      BY <1>1, <3>4 DEF Posted
    <3> QED BY <1>1, <2>3, <3>3, <3>4, <3>5 DEF Tip
  <2>6. ASSUME planner'.at = "announceTrigger", NEW y \in planner'.todo
        PROVE  /\ StepCompleted(planner.msg.exec, y)' \notin sent' /\ Tip(planner.msg.exec, y)'
               /\ y \in Triggers(graph[planner.msg.exec])'
    <3> DEFINE x == planner.msg.exec
    <3>1. x \in Execs /\ y \in Nodes
      BY <1>1, <2>6, PlannerTyped DEF IInv, Idle
    <3>2. StepCompleted(x, y) \notin sent /\ Tip(x, y) /\ y \in Triggers(graph[x])
      BY <1>1, <2>1, <2>6 DEF OutcomesOnce
    <3> QED BY <1>1, <1>3, <2>3, <3>1, <3>2 DEF Tip, StepCompleted, Triggers
  <2>7. StepCompleted(e, n) \notin sent
    <3>1. \A m \in sent : m.type = "step:completed" =>
                           step[m.exec][m.node] \in {"completed", "failed"}
      BY DEF IInv, MessagesConsistent
    <3> QED BY <1>1, <3>1, MessagesSay
  <2>8. n \notin Triggers(graph[e])
    BY <1>1 DEF PInv, GraphsExecutable
  <2>9. Tip(e, n)
    <3>1. graph[e] \in Graphs
      BY <1>1 DEF IInv, RowsAgree
    <3>2. ASSUME NEW m \in Successors(graph[e], n) \ Triggers(graph[e])
          PROVE  step[e][m] = "absent"
      <4>1. m \in Nodes /\ n \in Predecessors(graph[e], m)
        BY <3>1, <3>2, GraphNodes DEF Successors, Predecessors
      <4> QED BY <1>1, <3>2, <4>1 DEF IInv, InputsAvailable
    <3> QED BY <1>1, <3>2 DEF Tip
  <2>10. /\ StepCompleted(runner.msg.exec, runner.msg.node)' \notin sent'
         /\ Tip(runner.msg.exec, runner.msg.node)'
         /\ runner'.msg.node \notin Triggers(graph[runner.msg.exec])'
    BY <1>1, <1>3, <2>3, <2>7, <2>8, <2>9 DEF Tip, StepCompleted, Triggers
  <2> QED BY <2>2, <2>4, <2>5, <2>6, <2>10 DEF OutcomesOnce
<1>9. ChainsLedOn'
  BY <1>1, <1>3, <1>5, ChainsKept
<1> QED BY <1>5, <1>6, <1>7, <1>8, <1>9 DEF PInv

LEMMA ReportKeepsPInv ==
  ASSUME IInv, PInv, ReportStep
  PROVE  PInv'
<1> DEFINE e == runner.msg.exec
           n == runner.msg.node
           m == StepCompleted(e, n)
<1>1. /\ runner.at = "report" /\ runner # Idle /\ e \in Execs /\ n \in Nodes
      /\ orchestrationQueue' = Append(orchestrationQueue, m)
      /\ sent' = sent \cup {m} /\ stepQueue' = stepQueue
      /\ graph' = graph /\ execution' = execution /\ step' = step
      /\ planner' = planner /\ runner' = Idle /\ unannounced' = unannounced
      /\ faults' = faults /\ redeliveries' = redeliveries
  <2>1. runner.at = "report" /\ runner # Idle
    BY DEF ReportStep, RunnerAt, Idle
  <2> QED BY <2>1, RunnerFacts
          DEF ReportStep, PublishOrchestration, RunnerAt, RunnerDone, storeVars, boundVars
<1>2. m \in OrchestrationMessages /\ m.type = "step:completed" /\ m.exec = e /\ m.node = n
  BY <1>1, MessagesSay
<1> HIDE DEF m
<1>3. /\ \A x : Posted(orchestrationQueue', x) <=> Posted(orchestrationQueue, x) \/ x = m
      /\ OnceIn(orchestrationQueue) /\ ~Posted(orchestrationQueue, m) =>
           OnceIn(orchestrationQueue')
  BY <1>1, <1>2, PostedAppend DEF IInv, TypeOK
<1>4. runner'.at = "idle"
  BY <1>1 DEF Idle
<1>5. /\ GraphsExecutable' /\ OneTip'
      /\ \A x \in Execs, y \in Nodes : Tip(x, y) => Tip(x, y)'
      /\ \A x \in Execs : LedOn(x) => LedOn(x)'
  BY <1>1, TablesUnchanged
<1>6. StepsAnnounced'
  <2>1. \A x, y : StepReady(x, y) # m
    BY <1>2, MessagesSay
  <2>2. ASSUME planner.at = "announce", NEW y \in planner.todo
        PROVE  /\ step[planner.msg.exec][y] = "queued"
               /\ StepReady(planner.msg.exec, y) \notin sent'
    BY <1>1, <2>1, <2>2 DEF PInv, StepsAnnounced
  <2>3. ASSUME NEW x \in Execs, NEW y \in Nodes, StepReady(x, y) \in sent'
        PROVE  step[x][y] # "absent"
    BY <1>1, <2>1, <2>3 DEF PInv, StepsAnnounced
  <2> QED BY <1>1, <2>2, <2>3 DEF StepsAnnounced, StepReady
<1>7. Carried'
  <2> SUFFICES ASSUME faults = 0, NEW x \in Execs
               PROVE  QueuedCarried(x)' /\ RunningCarried(x)'
    BY <1>1 DEF Carried
  <2>1. QueuedCarried(x) /\ RunningCarried(x)
    BY DEF PInv, Carried
  <2>2. QueuedCarried(x)'
    BY <1>1, <1>3, <2>1, PostedNext DEF QueuedCarried
  <2>3. ASSUME NEW y \in Nodes, StepCarried(x, y) PROVE StepCarried(x, y)'
    BY <1>1, <2>3, PostedNext DEF StepCarried, PlannerOn
  <2>4. HasActiveSteps(x)' <=> HasActiveSteps(x)
    BY <1>1 DEF HasActiveSteps
  <2>5. FullySupported(graph[x])' <=> FullySupported(graph[x])
    BY <1>1 DEF FullySupported, Supported, Triggers
  <2>6. x # e => (OutcomeOnItsWay(x) => OutcomeOnItsWay(x)')
    BY <1>1, <1>3, PostedNext DEF OutcomeOnItsWay, PlannerOn
  <2>7. x = e => OutcomeOnItsWay(x)'
    <3>1. x = e => \E y \in Nodes : Posted(orchestrationQueue', StepCompleted(x, y))
      BY <1>1, <1>3 DEF m
    <3> QED BY <3>1, PostedNext DEF OutcomeOnItsWay
  <2>8. RunningCarried(x)'
    BY <1>1, <2>1, <2>3, <2>4, <2>5, <2>6, <2>7 DEF RunningCarried
  <2> QED BY <2>2, <2>8
<1>8. OutcomesOnce'
  <2> SUFFICES ASSUME redeliveries = 0 PROVE OutcomesOnce'
    BY <1>1 DEF OutcomesOnce
  <2>1. OutcomesOnce
    BY DEF PInv
  <2>2. /\ m \notin sent /\ Tip(e, n) /\ ~Posted(orchestrationQueue, m)
        /\ n \notin Triggers(graph[e])
    BY <1>1, <2>1, PostedIsSent DEF OutcomesOnce, m
  <2>3. OnceIn(orchestrationQueue)'
    BY <1>3, <2>1, <2>2 DEF OutcomesOnce, OnceIn
  <2>4. ASSUME NEW x \in Execs, NEW y \in Nodes, Posted(orchestrationQueue, StepCompleted(x, y))'
        PROVE  Tip(x, y)'
    <3>1. CASE Posted(orchestrationQueue, StepCompleted(x, y))
      BY <1>5, <2>1, <3>1 DEF OutcomesOnce
    <3>2. CASE StepCompleted(x, y) = m
      <4>1. x = e /\ y = n
        BY <1>2, <3>2, MessagesSay
      <4> QED BY <1>1, <1>5, <2>2, <4>1 DEF Tip
    <3> QED BY <1>3, <2>4, <3>1, <3>2, PostedNext
  <2>5. ASSUME planner'.at \in {"read", "plan"}
        PROVE  /\ ~Posted(orchestrationQueue, planner.msg)'
               /\ Tip(planner.msg.exec, planner.msg.node)'
    <3>1. planner # Idle
      BY <1>1, <2>5 DEF Idle
    <3>2. planner.msg.type = "step:completed" /\ planner.msg \in sent
      BY <1>1, <2>5, <3>1, PlannerFacts, PlannerTyped DEF IInv
    <3> DEFINE x == planner.msg.exec
               y == planner.msg.node
    <3>3. x \in Execs /\ y \in Nodes
      BY <3>1, <3>2, PlannerTyped DEF IInv
    <3>4. ~Posted(orchestrationQueue, planner.msg) /\ Tip(x, y)
      BY <1>1, <2>1, <2>5 DEF OutcomesOnce
    <3>5. ~Posted(orchestrationQueue', planner.msg)
      BY <1>3, <2>2, <3>2, <3>4
    <3>6. ~Posted(orchestrationQueue, planner.msg)'
      BY <1>1, <3>5 DEF Posted
    <3> QED BY <1>1, <1>5, <3>3, <3>4, <3>6 DEF Tip
  <2>6. ASSUME planner'.at = "announceTrigger", NEW y \in planner'.todo
        PROVE  /\ StepCompleted(planner.msg.exec, y)' \notin sent' /\ Tip(planner.msg.exec, y)'
               /\ y \in Triggers(graph[planner.msg.exec])'
    <3> DEFINE x == planner.msg.exec
    <3>1. x \in Execs /\ y \in Nodes
      BY <1>1, <2>6, PlannerTyped DEF IInv, Idle
    <3>2. StepCompleted(x, y) \notin sent /\ Tip(x, y) /\ y \in Triggers(graph[x])
      BY <1>1, <2>1, <2>6 DEF OutcomesOnce
    <3>3. StepCompleted(x, y) # m
      BY <1>2, <2>2, <3>2, MessagesSay
    <3> QED BY <1>1, <1>5, <3>1, <3>2, <3>3 DEF Tip, StepCompleted, Triggers
  <2> QED BY <1>4, <2>3, <2>4, <2>5, <2>6 DEF OutcomesOnce
<1>9. ChainsLedOn'
  BY <1>1, <1>5, ChainsKept
<1> QED BY <1>5, <1>6, <1>7, <1>8, <1>9 DEF PInv

-----------------------------------------------------------------------------
(* Faults and redeliveries. *)

LEMMA FaultKeepsPInv ==
  ASSUME IInv, PInv, Crash \/ PlannerThrows \/ RunnerThrows
  PROVE  PInv'
<1>1. /\ graph' = graph /\ execution' = execution /\ step' = step /\ sent' = sent
      /\ orchestrationQueue' = orchestrationQueue \/ orchestrationQueue' = <<>>
      /\ planner' = planner \/ planner' = Idle
      /\ runner' = runner \/ runner' = Idle
      /\ redeliveries' = redeliveries
  BY DEF Crash, PlannerThrows, RunnerThrows, PlannerDone, RunnerDone, Fault, storeVars, queueVars
<1>2. faults' # 0
  <2>1. faults' = faults + 1
    BY DEF Crash, PlannerThrows, RunnerThrows, Fault
  <2>2. faults \in Nat
    BY MaxFaultsIsNat DEF IInv, TypeOK
  <2> QED BY <2>1, <2>2
<1>3. /\ GraphsExecutable' /\ OneTip'
      /\ \A x \in Execs, n \in Nodes : Tip(x, n) => Tip(x, n)'
      /\ \A x \in Execs : LedOn(x) => LedOn(x)'
  BY <1>1, TablesUnchanged
<1>4. /\ \A m : Posted(orchestrationQueue', m) => Posted(orchestrationQueue, m)
      /\ OnceIn(orchestrationQueue) => OnceIn(orchestrationQueue')
  <2>1. (\A m : ~Posted(<<>>, m)) /\ OnceIn(<<>>)
    BY DEF Posted, OnceIn
  <2> QED BY <1>1, <2>1
<1>5. Idle.at = "idle"
  BY DEF Idle
<1>6. StepsAnnounced'
  BY <1>1, <1>5 DEF PInv, StepsAnnounced
<1>7. Carried'
  BY <1>2 DEF Carried
<1>8. OutcomesOnce'
  BY <1>1, <1>3, <1>4, <1>5, OutcomesKept
<1>9. ChainsLedOn'
  BY <1>1, <1>3, <1>5, ChainsKept
<1> QED BY <1>3, <1>6, <1>7, <1>8, <1>9 DEF PInv

LEMMA RedeliverKeepsPInv ==
  ASSUME IInv, PInv, NEW m \in sent, Redeliver(m)
  PROVE  PInv'
<1>1. /\ graph' = graph /\ execution' = execution /\ step' = step
      /\ planner' = planner /\ runner' = runner /\ unannounced' = unannounced
      /\ faults' = faults /\ redeliveries' = redeliveries + 1
      /\ sent' = sent
      /\ \/ /\ orchestrationQueue' = orchestrationQueue
            /\ stepQueue' = Append(stepQueue, m) /\ m.type = "step:ready"
         \/ /\ stepQueue' = stepQueue
            /\ orchestrationQueue' = Append(orchestrationQueue, m) /\ m.type # "step:ready"
  BY DEF Redeliver, PublishStep, PublishOrchestration, storeVars
<1>2. redeliveries' # 0
  <2>1. redeliveries \in Nat
    BY MaxRedeliveriesIsNat DEF IInv, TypeOK
  <2> QED BY <1>1, <2>1
<1>3. /\ GraphsExecutable' /\ OneTip'
      /\ \A x \in Execs, n \in Nodes : Tip(x, n) => Tip(x, n)'
      /\ \A x \in Execs : LedOn(x) => LedOn(x)'
  BY <1>1, TablesUnchanged
<1>4. /\ \A x : Posted(orchestrationQueue, x) => Posted(orchestrationQueue', x)
      /\ \A x : Posted(stepQueue, x) => Posted(stepQueue', x)
  <2>1. /\ m \in OrchestrationMessages \/ m \in StepMessages
        /\ m.type = "step:ready" => m \in StepMessages
        /\ m.type # "step:ready" => m \in OrchestrationMessages
    BY MessagesSay DEF IInv, TypeOK, Messages
  <2>2. CASE m.type = "step:ready"
    <3>1. \A x : Posted(Append(stepQueue, m), x) <=> Posted(stepQueue, x) \/ x = m
      BY <2>1, <2>2, PostedAppend DEF IInv, TypeOK
    <3> QED BY <1>1, <2>2, <3>1
  <2>3. CASE m.type # "step:ready"
    <3>1. \A x : Posted(Append(orchestrationQueue, m), x) <=>
                 Posted(orchestrationQueue, x) \/ x = m
      BY <2>1, <2>3, PostedAppend DEF IInv, TypeOK
    <3> QED BY <1>1, <2>3, <3>1
  <2> QED BY <2>2, <2>3
<1>5. StepsAnnounced'
  BY <1>1 DEF PInv, StepsAnnounced
<1>6. Carried'
  <2> SUFFICES ASSUME faults = 0, NEW x \in Execs
               PROVE  QueuedCarried(x)' /\ RunningCarried(x)'
    BY <1>1 DEF Carried
  <2>1. QueuedCarried(x) /\ RunningCarried(x)
    BY DEF PInv, Carried
  <2>2. QueuedCarried(x)'
    BY <1>1, <1>4, <2>1, PostedNext DEF QueuedCarried
  <2>3. ASSUME NEW n \in Nodes, StepCarried(x, n) PROVE StepCarried(x, n)'
    BY <1>1, <1>4, <2>3, PostedNext DEF StepCarried, PlannerOn
  <2>4. OutcomeOnItsWay(x) => OutcomeOnItsWay(x)'
    BY <1>1, <1>4, PostedNext DEF OutcomeOnItsWay, PlannerOn
  <2>5. HasActiveSteps(x)' <=> HasActiveSteps(x)
    BY <1>1 DEF HasActiveSteps
  <2>6. FullySupported(graph[x])' <=> FullySupported(graph[x])
    BY <1>1 DEF FullySupported, Supported, Triggers
  <2>7. RunningCarried(x)'
    BY <1>1, <2>1, <2>3, <2>4, <2>5, <2>6 DEF RunningCarried
  <2> QED BY <2>2, <2>7
<1>7. OutcomesOnce' /\ ChainsLedOn'
  BY <1>2 DEF OutcomesOnce, ChainsLedOn
<1> QED BY <1>3, <1>5, <1>6, <1>7 DEF PInv

LEMMA StutterKeepsPInv ==
  ASSUME IInv, PInv, UNCHANGED vars
  PROVE  PInv'
<1> USE DEF vars
<1>1. /\ GraphsExecutable' /\ OneTip'
      /\ \A x \in Execs, n \in Nodes : Tip(x, n) => Tip(x, n)'
      /\ \A x \in Execs : LedOn(x) => LedOn(x)'
  BY TablesUnchanged
<1>2. StepsAnnounced'
  BY DEF PInv, StepsAnnounced
<1>3. Carried'
  BY PostedNext DEF PInv, Carried, QueuedCarried, RunningCarried, StepCarried, OutcomeOnItsWay,
     HasActiveSteps, PlannerOn, FullySupported, Supported, Triggers
<1>4. OutcomesOnce'
  BY <1>1, OutcomesKept
<1>5. ChainsLedOn'
  BY <1>1, ChainsKept
<1> QED BY <1>1, <1>2, <1>3, <1>4, <1>5 DEF PInv

-----------------------------------------------------------------------------
LEMMA InitPInv ==
  ASSUME Init
  PROVE  PInv
<1> USE DEF Init, StoreInit
<1>1. \A e \in Execs, n \in Nodes : ~Tip(e, n)
  BY DEF Tip
<1>2. GraphsExecutable /\ OneTip
  BY <1>1 DEF GraphsExecutable, OneTip
<1>3. StepsAnnounced
  BY DEF StepsAnnounced, Idle
<1>4. Carried
  BY DEF Carried, QueuedCarried, RunningCarried
<1>5. \A m : ~Posted(<<>>, m)
  BY DEF Posted
<1>6. OutcomesOnce
  BY <1>5 DEF OutcomesOnce, OnceIn, Idle
<1>7. ChainsLedOn
  BY DEF ChainsLedOn
<1> QED BY <1>2, <1>3, <1>4, <1>6, <1>7 DEF PInv

LEMMA NextKeepsPInv ==
  ASSUME IInv, PInv, [Next]_vars
  PROVE  PInv'
<1>1. CASE UNCHANGED vars
  BY <1>1, StutterKeepsPInv
<1>2. CASE \E e \in Execs : StartExecution(e) \/ AnnounceExecution(e)
  BY <1>2, StartKeepsPInv, AnnounceKeepsPInv
<1>3. CASE OrchestrationWorker
  BY <1>3, TakeKeepsPInv, ClaimExecutionKeepsPInv, RecordTriggerKeepsPInv,
     AnnounceTriggerKeepsPInv, ReadKeepsPInv, PlanKeepsPInv, AnnounceStepKeepsPInv,
     CheckKeepsPInv, FinishKeepsPInv, FailKeepsPInv, CancelKeepsPInv DEF OrchestrationWorker
<1>4. CASE StepWorker
  BY <1>4, TakeStepKeepsPInv, ClaimStepKeepsPInv, LoadKeepsPInv, RecordStepKeepsPInv,
     ReportKeepsPInv DEF StepWorker
<1>5. CASE Crash \/ PlannerThrows \/ RunnerThrows
  BY <1>5, FaultKeepsPInv
<1>6. CASE \E m \in sent : Redeliver(m)
  BY <1>6, RedeliverKeepsPInv
<1> QED
  BY <1>1, <1>2, <1>3, <1>4, <1>5, <1>6 DEF Next

\* The engine keeps its hand-overs whole and its chains in order.
THEOREM ProgressInvariance == Spec => []PInv
<1>1. Init => PInv
  BY InitPInv
<1>2. IInv /\ PInv /\ [Next]_vars => PInv'
  BY NextKeepsPInv
<1> QED
  BY <1>1, <1>2, EngineInvariance, PTL DEF Spec

\* While no fault occurs, whatever is redelivered, an execution in progress whose steps
\* are supported is in some queue's or handler's hands.
THEOREM NothingStranded == Spec => []NeverStranded
<1>1. ASSUME IInv, PInv PROVE NeverStranded
  <2> SUFFICES ASSUME NEW e \in Execs, faults = 0, execution[e] \in {"queued", "running"},
                      FullySupported(graph[e])
               PROVE  Driven(e)
    BY DEF NeverStranded
  <2>1. QueuedCarried(e) /\ RunningCarried(e)
    BY <1>1 DEF PInv, Carried
  <2>2. ASSUME NEW m, m.exec = e, Posted(orchestrationQueue, m) \/ Posted(stepQueue, m)
        PROVE  Driven(e)
    BY <2>2 DEF Posted, Driven
  <2>3. CASE execution[e] = "queued"
    <3>1. planner.at = "claim" => planner # Idle
      BY DEF Idle
    <3> QED BY <2>1, <2>2, <2>3, <3>1, MessagesSay DEF QueuedCarried, Driven
  <2>4. CASE execution[e] = "running" /\ HasActiveSteps(e)
    <3>1. PICK n \in Nodes : step[e][n] \in {"queued", "running"}
      BY <2>4 DEF HasActiveSteps
    <3>2. StepCarried(e, n)
      BY <2>1, <2>4 DEF RunningCarried
    <3>3. \/ Posted(stepQueue, StepReady(e, n))
          \/ runner.at # "idle" /\ runner.msg = StepReady(e, n)
          \/ PlannerOn(e)
      BY <3>1, <3>2 DEF StepCarried
    <3> QED BY <1>1, <2>2, <3>3, MessagesSay, Places DEF PlannerOn, Driven, IInv
  <2>5. CASE execution[e] = "running" /\ ~HasActiveSteps(e)
    <3>1. OutcomeOnItsWay(e)
      BY <2>1, <2>5 DEF RunningCarried
    <3>2. runner.at = "report" => runner # Idle
      BY DEF Idle
    <3> QED BY <2>2, <3>1, <3>2, MessagesSay DEF OutcomeOnItsWay, PlannerOn, Driven
  <2> QED BY <2>3, <2>4, <2>5
<1> QED BY <1>1, EngineInvariance, ProgressInvariance, PTL

\* Unless a message came twice, an execution of a chain that is reported completed has
\* run to the chain's end, whatever crashed or was refused on the way.
THEOREM ChainsComplete == Spec => []ChainsRunThrough
<1>1. IInv /\ PInv => ChainsRunThrough
  BY DEF PInv, ChainsLedOn, LedOn, ChainsRunThrough, PlannedThrough
<1> QED BY <1>1, EngineInvariance, ProgressInvariance, PTL
=============================================================================
