-------------------------- MODULE EvaluationFanOut --------------------------
(***************************************************************************)
(* Evaluation cases sharing the instance-wide evaluation queue: the        *)
(* fan-out of the test runner, and the agent evaluation runner.  A run     *)
(* starts its cases through pLimit; a case asks the queue for a slot and   *)
(* races the answer against the abort of its run.                          *)
(*                                                                         *)
(* One action is the code between two awaits.  A grant and an abort reach  *)
(* the case's continuation through chains of microtasks of different       *)
(* length, so between a promise's resolution and the step that reads it    *)
(* any other step may happen.                                              *)
(***************************************************************************)
EXTENDS ConcurrencyQueue

CONSTANTS
  TestRuns,   \* runs of the test runner
  AgentRuns,  \* runs of the agent evaluation runner
  Size        \* cases of a run

ASSUME RunsAreDisjoint == TestRuns \cap AgentRuns = {}
ASSUME RunsAreFinite == IsFiniteSet(TestRuns) /\ IsFiniteSet(AgentRuns)
ASSUME SizeIsNat == Size \in Nat

VARIABLES
  phase,      \* where the case's function stands
  listening,  \* cases whose abort listener can still be called
  race,       \* what won Promise.race([acquire, abort])
  noticed,    \* cases whose acquire.then callback has run
  aborted     \* runs whose AbortController has fired

vars == <<capacity, queue, granted, phase, listening, race, noticed, aborted>>

Runs == TestRuns \cup AgentRuns

\* A case is enqueued under its run's id and its index.
Cases == Runs \X (1..Size)

(***************************************************************************)
(* idle       not taken up by pLimit                                       *)
(* checked    past the first abort check, awaiting the database            *)
(* racing     asked for a slot, awaiting the race                          *)
(* running    holds a slot                                                 *)
(* abandoned  given up while granted; its acquire.then releases the slot   *)
(* done       the function returned                                        *)
(* swallowed  done, evicted with a slot it did not give back               *)
(***************************************************************************)
Phases == {"idle", "checked", "racing", "running", "abandoned", "done", "swallowed"}

Init ==
  /\ QueueInit
  /\ phase = [c \in Cases |-> "idle"]
  /\ listening = {}
  /\ race = [c \in Cases |-> "open"]
  /\ noticed = {}
  /\ aborted = {}

Go(c, p) == phase' = [phase EXCEPT ![c] = p]
Aborted(c) == c[1] \in aborted
OfTestRun(c) == c[1] \in TestRuns

\* Cases of the run that pLimit counts as started and not finished.
InFlight(r) == {c \in Cases : c[1] = r /\ phase[c] \in {"checked", "racing", "running"}}

-----------------------------------------------------------------------------
\* A case is taken up; a run's concurrency is capped at the queue's limit.
TakeUp(c) ==
  /\ phase[c] = "idle"
  /\ Cardinality(InFlight(c[1])) < Limit
  /\ Go(c, IF Aborted(c) THEN "done" ELSE "checked")
  /\ UNCHANGED <<queueVars, listening, race, noticed, aborted>>

\* The row was cancelled before the case started, or the run's flag was read.
Skip(c) ==
  /\ phase[c] = "checked"
  /\ Go(c, "done")
  /\ UNCHANGED <<queueVars, listening, race, noticed, aborted>>

\* throttle().  An abort listener added after the abort is never called.  The
\* agent runner looks at the signal again first, the test runner does not.
Throttle(c) ==
  /\ phase[c] = "checked"
  /\ OfTestRun(c) \/ ~Aborted(c)
  /\ Enqueue(c)
  /\ listening' = IF Aborted(c) THEN listening ELSE listening \cup {c}
  /\ Go(c, "racing")
  /\ UNCHANGED <<race, noticed, aborted>>

\* abort() calls the listeners of a run's cases at once; cancelling a collection
\* aborts several runs in one go.
Abort(rs) ==
  /\ aborted' = aborted \cup rs
  /\ race' = [c \in Cases |-> IF c[1] \in rs /\ c \in listening /\ race[c] = "open"
                                THEN "aborted" ELSE race[c]]
  /\ UNCHANGED <<queueVars, phase, listening, noticed>>

\* The acquire.then callback: sets throttleAcquired and enters the race.
Notice(c) ==
  /\ phase[c] = "racing"
  /\ c \in granted \ noticed
  /\ noticed' = noticed \cup {c}
  /\ race' = [race EXCEPT ![c] = IF @ = "open" THEN "acquired" ELSE @]
  /\ UNCHANGED <<queueVars, phase, listening, aborted>>

Resume(c, outcome) == phase[c] = "racing" /\ race[c] = outcome

\* The test runner looks at the signal once more and gives the slot back.
RunOrBail(c) ==
  /\ Resume(c, "acquired")
  /\ IF OfTestRun(c) /\ Aborted(c)
       THEN Dequeue /\ Go(c, "done")
       ELSE UNCHANGED queueVars /\ Go(c, "running")
  /\ UNCHANGED <<listening, race, noticed, aborted>>

\* The test runner's eviction: by the flag that its own callback sets.
EvictTestCase(c) ==
  /\ OfTestRun(c)
  /\ Resume(c, "aborted")
  /\ IF c \in noticed THEN Dequeue ELSE RemoveQueued(c)
  /\ Go(c, IF c \in noticed \/ Contains(queue, c) THEN "done" ELSE "swallowed")
  /\ UNCHANGED <<listening, race, noticed, aborted>>

\* Seeded fault: a grant that beat the eviction is not given back.
EvictAgentCaseOnly(c) ==
  /\ ~OfTestRun(c)
  /\ Resume(c, "aborted")
  /\ RemoveQueued(c)
  /\ Go(c, "done")
  /\ UNCHANGED <<listening, race, noticed, aborted>>

\* The agent runner's eviction: remove, and release if the grant came first.
EvictAgentCase(c) ==
  /\ ~OfTestRun(c)
  /\ Resume(c, "aborted")
  /\ RemoveQueued(c)
  /\ Go(c, IF Contains(queue, c) THEN "done" ELSE "abandoned")
  /\ UNCHANGED <<listening, race, noticed, aborted>>

ReleaseLate(c) ==
  /\ phase[c] = "abandoned"
  /\ c \in granted
  /\ Dequeue
  /\ Go(c, "done")
  /\ UNCHANGED <<listening, race, noticed, aborted>>

\* The case ran, failed or was stopped: the finally releases the slot.
Finish(c) ==
  /\ phase[c] = "running"
  /\ Dequeue
  /\ Go(c, "done")
  /\ UNCHANGED <<listening, race, noticed, aborted>>

-----------------------------------------------------------------------------
Microtask(c) ==
  \/ Notice(c) \/ RunOrBail(c) \/ EvictTestCase(c) \/ EvictAgentCase(c)
  \/ ReleaseLate(c)

\* A request, a timer or an answer of the database.
External ==
  \/ \E c \in Cases : TakeUp(c) \/ Skip(c) \/ Throttle(c) \/ Finish(c)
  \/ \E rs \in SUBSET (Runs \ aborted) : rs # {} /\ Abort(rs)

Next == External \/ \E c \in Cases : Microtask(c)

Spec == Init /\ [][Next]_vars

\* Microtasks run, and a case that holds a slot ends.
FairSpec == Spec /\ \A c \in Cases : WF_vars(Microtask(c) \/ Finish(c))

\* The behaviours in which every external event finds the microtasks drained,
\* as it does when each one is a callback of the event loop of its own.
Drained ==
  \A c \in Cases :
    /\ phase[c] # "abandoned"
    /\ phase[c] = "racing" => race[c] = "open" /\ c \notin granted

TurnSpec == Init /\ [][Next /\ (Drained \/ \E c \in Cases : Microtask(c))]_vars

-----------------------------------------------------------------------------
\* Cases that have taken a unit of capacity and not given it back.
Outstanding == {c \in Cases : phase[c] \in {"racing", "running", "abandoned", "swallowed"}}

\* Those of them that are past the queue.
Holders == Outstanding \cap granted

TypeOK ==
  /\ capacity \in Int
  /\ queue \in Seq(Cases)
  /\ granted \subseteq Cases
  /\ phase \in [Cases -> Phases]
  /\ listening \subseteq Cases
  /\ race \in [Cases -> {"open", "acquired", "aborted"}]
  /\ noticed \subseteq granted
  /\ aborted \subseteq Runs

\* The queue holds every case that waits, once each, and no other; no case has a
\* grant before it asked, and none runs, gives up late or is swallowed without one.
QueueConsistent ==
  /\ IsInjective(queue)
  /\ ToSet(queue) = {c \in Cases : phase[c] = "racing" /\ c \notin granted}
  /\ \A c \in Cases : phase[c] \in {"idle", "checked"} => c \notin granted
  /\ \A c \in Cases :
       race[c] = "acquired" \/ phase[c] \in {"running", "abandoned", "swallowed"} => c \in granted

\* Every enqueue is balanced exactly once, but for the swallowed: no interleaving
\* of grants, evictions, late releases and finallys gives a slot back twice or
\* loses one in another way.
SlotsBalanced == capacity + Cardinality(Outstanding) = Limit

\* No case waits while a slot is idle: whoever queues, queues behind a full
\* house, through evictions that race with grants.
NoIdleSlot == queue # <<>> => Cardinality(Holders) >= Limit

\* A test case whose slot was granted in the turn that aborted it never gives it
\* back.
Swallowing == \E c \in Cases : phase[c] = "swallowed"

\* A case that asked for a slot gets it or is evicted, as long as holders end and
\* none was swallowed.
Answered == \A c \in Cases : phase[c] = "racing" ~> phase[c] # "racing" \/ Swallowing

IInv == TypeOK /\ QueueConsistent /\ SlotsBalanced /\ NoIdleSlot

\* What the runner's comment says and its code does not do: "if Stop is clicked while
\* queued, evict ourselves so the slot frees".
EvictionFreesTheSlot == ~Swallowing
=============================================================================
