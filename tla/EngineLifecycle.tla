-------------------------- MODULE EngineLifecycle --------------------------
(***************************************************************************)
(* What the v2 engine promises of its executions and steps, whatever its   *)
(* queues deliver and its workers do: a step is planned after its          *)
(* predecessor completed, runs once, and an execution is finished at most  *)
(* once, with an outcome its steps agree with.                             *)
(***************************************************************************)
EXTENDS EngineStore

Init == StoreInit

Accept(e) ==
  \E g \in Graphs : Executable(g) /\ CreateExecution(e, g)

Begin(e) == execution[e] = "queued" /\ SetExecution(e, "running")

\* The trigger's output was captured when the execution was accepted.
RecordTrigger(e) ==
  /\ execution[e] = "running"
  /\ \A n \in Nodes : step[e][n] = "absent"
  /\ CreateSteps(e, Triggers(graph[e]), "completed")

Plan(e) ==
  /\ execution[e] = "running"
  /\ \E n \in Nodes :
       /\ step[e][n] = "completed"
       /\ \E ns \in SUBSET Successors(graph[e], n) : CreateSteps(e, ns, "queued")

StepMoves(e, n, from, to) == step[e][n] = from /\ SetSteps(e, {n}, to)

\* Steps are withdrawn only from an execution that failed.
Withdraw(e) == execution[e] = "failed" /\ CancelQueuedSteps(e)

Complete(e) ==
  /\ ~HasActiveSteps(e)
  /\ ~HasFailedSteps(e)
  /\ execution[e] = "running"
  /\ SetExecution(e, "completed")

Fail(e) ==
  /\ HasFailedSteps(e)
  /\ execution[e] = "running"
  /\ SetExecution(e, "failed")

Next ==
  \E e \in Execs :
    \/ Accept(e) \/ Begin(e) \/ RecordTrigger(e) \/ Plan(e)
    \/ \E n \in Nodes :
         \/ StepMoves(e, n, "queued", "running")
         \/ StepMoves(e, n, "running", "completed")
         \/ StepMoves(e, n, "running", "failed")
    \/ Withdraw(e) \/ Complete(e) \/ Fail(e)

Spec == Init /\ [][Next]_storeVars
=============================================================================
