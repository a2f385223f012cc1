-------------------------- MODULE MCWorkflowEngine --------------------------
(***************************************************************************)
(* Instances of WorkflowEngine for TLC: requests with graphs of up to      *)
(* three steps behind the trigger.                                         *)
(***************************************************************************)
EXTENDS WorkflowEngine

Edge(a, b) == [from |-> a, to |-> b, out |-> 0, in |-> 0, back |-> FALSE]

Typed(types, edges) == [types |-> types, edges |-> edges]
Steps(ns, t) == [n \in ns \cup {"t"} |-> IF n = "t" THEN "trigger" ELSE t]
Graph(ns, edges) == Typed(Steps(ns, "v1-node"), edges)

Chain == Graph({"a", "b"}, <<Edge("t", "a"), Edge("a", "b")>>)
Fork == Graph({"a", "b", "c"}, <<Edge("t", "a"), Edge("t", "b"), Edge("b", "c")>>)
Late == Graph({"a", "b", "c"}, <<Edge("t", "a"), Edge("a", "b"), Edge("a", "c")>>)
Alone == Graph({}, <<>>)
BackToTrigger == Graph({"a"}, <<Edge("t", "a"), Edge("a", "t")>>)
Waiting == Typed(Steps({"a"}, "wait"), <<Edge("t", "a")>>)
Dangling == Graph({"a"}, <<Edge("t", "a"), Edge("t", "b")>>)

\* Refused: two triggers, none, a loop, another slot, two edges into a slot.
TwoTriggers == Typed([n \in {"t", "a"} |-> "trigger"], <<>>)
NoTrigger == Typed([n \in {"a"} |-> "v1-node"], <<>>)
Loop == Graph({"a"}, <<[Edge("t", "a") EXCEPT !.back = TRUE]>>)
OtherSlot == Graph({"a"}, <<[Edge("t", "a") EXCEPT !.out = 1]>>)
Merge == Graph({"a", "b"}, <<Edge("t", "a"), Edge("t", "b"), Edge("a", "b")>>)
Refused == {TwoTriggers, NoTrigger, Loop, OtherSlot, Merge}

\* validateExecutableGraph leaves one edge at most into any node.
ASSUME RefusedAreRefused ==
  \A g \in Graphs : Executable(g) <=> g \notin Refused

AllGraphs == {Chain, Fork, Late, Alone, BackToTrigger, Waiting, Dangling} \cup Refused
=============================================================================
