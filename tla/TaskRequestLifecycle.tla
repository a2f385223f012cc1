------------------------ MODULE TaskRequestLifecycle ------------------------
(***************************************************************************)
(* What a requester may rely on: a task request is answered once and for   *)
(* good, and its code is started at most once, and only after a runner has *)
(* taken the request over.                                                 *)
(***************************************************************************)
EXTENDS Integers

CONSTANT Requests

VARIABLES
  request,  \* the requester's view of a request
  ran       \* how often its code was started

vars == <<request, ran>>

Init ==
  /\ request = [r \in Requests |-> "new"]
  /\ ran = [r \in Requests |-> 0]

\* The requests R, all in one of the statuses `from`, move on together: the
\* loss of a runner answers all it had.
Move(R, from, to) ==
  /\ \A r \in R : request[r] \in from
  /\ request' = [r \in Requests |-> IF r \in R THEN to ELSE request[r]]
  /\ UNCHANGED ran

Ask(r) == Move({r}, {"new"}, "waiting")
Expire(r) == Move({r}, {"new", "waiting"}, "expired")
TakeOver(r) == Move({r}, {"waiting"}, "running")
AnswerAll(R) == Move(R, {"waiting", "running"}, "answered")
Cancel(r) == Move({r}, {"running"}, "cancelled")

\* The code may start after the request was answered or cancelled: the settings
\* were on their way.
Run(r) ==
  /\ request[r] \in {"running", "answered", "cancelled"}
  /\ ran[r] = 0
  /\ ran' = [ran EXCEPT ![r] = 1]
  /\ UNCHANGED request

Next ==
  \/ \E r \in Requests : Ask(r) \/ Expire(r) \/ TakeOver(r) \/ Cancel(r) \/ Run(r)
  \/ \E R \in SUBSET Requests : AnswerAll(R)

Spec == Init /\ [][Next]_vars
=============================================================================
