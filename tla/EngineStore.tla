---------------------------- MODULE EngineStore ----------------------------
(***************************************************************************)
(* The two tables of the v2 workflow engine and the statements of its      *)
(* stores.  Each statement is one compare-and-set or one insert, so each   *)
(* is one atomic change.  A step is identified by its execution and its    *)
(* node: the table's unique key.  Outputs and errors are left out; their   *)
(* columns are written together with the status.                           *)
(***************************************************************************)
EXTENDS Integers, SequencesExt

CONSTANTS
  Execs,   \* execution ids
  Nodes,   \* node ids
  Graphs,  \* graphs a request may carry: [types : node -> step type, edges : Seq(Edge)]
  None     \* no graph

ASSUME NoneIsNoGraph == None \notin Graphs
ASSUME GraphsOverNodes ==
  \A g \in Graphs :
    /\ DOMAIN g.types \subseteq Nodes
    /\ \A i \in DOMAIN g.edges : g.edges[i].from \in Nodes /\ g.edges[i].to \in Nodes

VARIABLES
  graph,      \* workflow_execution.graph
  execution,  \* workflow_execution.status, "absent" for no row
  step        \* workflow_step_execution.status, "absent" for no row

storeVars == <<graph, execution, step>>

ExecutionStatuses == {"queued", "running", "completed", "failed", "cancelled"}
StepStatuses == {"queued", "running", "completed", "failed", "cancelled"}

StoreInit ==
  /\ graph = [e \in Execs |-> None]
  /\ execution = [e \in Execs |-> "absent"]
  /\ step = [e \in Execs |-> [n \in Nodes |-> "absent"]]

-----------------------------------------------------------------------------
\* Graphs.
Triggers(g) == {n \in DOMAIN g.types : g.types[n] = "trigger"}

Successors(g, n) == {g.edges[i].to : i \in {j \in DOMAIN g.edges : g.edges[j].from = n}}

Predecessors(g, n) == {g.edges[i].from : i \in {j \in DOMAIN g.edges : g.edges[j].to = n}}

\* validateExecutableGraph: one trigger, no loop, slot 0 only, one edge a slot.
Executable(g) ==
  /\ \E t \in Nodes : Triggers(g) = {t}
  /\ \A i \in DOMAIN g.edges : ~g.edges[i].back /\ g.edges[i].out = 0 /\ g.edges[i].in = 0
  /\ IsInjective([i \in DOMAIN g.edges |-> <<g.edges[i].to, g.edges[i].in>>])

-----------------------------------------------------------------------------
\* Executions.
CreateExecution(e, g) ==
  /\ execution[e] = "absent"
  /\ execution' = [execution EXCEPT ![e] = "queued"]
  /\ graph' = [graph EXCEPT ![e] = g]
  /\ UNCHANGED step

SetExecution(e, status) ==
  /\ execution' = [execution EXCEPT ![e] = status]
  /\ UNCHANGED <<graph, step>>

\* A compare-and-set on running.
FinishExecution(e, status) ==
  IF execution[e] = "running" THEN SetExecution(e, status) ELSE UNCHANGED storeVars

-----------------------------------------------------------------------------
\* Steps.
SetSteps(e, ns, status) ==
  /\ step' = [step EXCEPT ![e] = [n \in Nodes |-> IF n \in ns THEN status ELSE @[n]]]
  /\ UNCHANGED <<graph, execution>>

\* createSteps skips, and does not return, the nodes that have a step.
Insertable(e, ns) == {n \in ns : step[e][n] = "absent"}
CreateSteps(e, ns, status) == SetSteps(e, Insertable(e, ns), status)

\* Seeded fault: a redelivered event claims a step that runs or is over.
ClaimableAgain(e, n) == step[e][n] # "absent"

ClaimableStep(e, n) == step[e][n] = "queued"

CancelQueuedSteps(e) ==
  SetSteps(e, {n \in Nodes : step[e][n] = "queued"}, "cancelled")

\* Seeded fault: a running step does not count.
HasQueuedSteps(e) == \E n \in Nodes : step[e][n] = "queued"

HasActiveSteps(e) == \E n \in Nodes : step[e][n] \in {"queued", "running"}

HasFailedSteps(e) == \E n \in Nodes : step[e][n] = "failed"
=============================================================================
