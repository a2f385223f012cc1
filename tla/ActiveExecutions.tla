-------------------------- MODULE ActiveExecutions --------------------------
(***************************************************************************)
(* ActiveExecutions: the executions of one main process in regular mode,   *)
(* each an entry that a call of `add` registered under the execution's id, *)
(* with a post-execute promise, a status and the workflow attached to it.  *)
(* The slot that the call reserved is given back when that promise         *)
(* settles.  A call is an attempt; several attempts of one execution may   *)
(* follow, and overtake, one another under the same id.                    *)
(***************************************************************************)
EXTENDS ConcurrencyQueue

CONSTANTS
  Execs,      \* execution ids
  Watched,    \* bound: those that wait, time out and get requests, or are created
              \* while the recoveries of a start are under way; the others run
  MaxEvents,  \* bound: resumes, stop and delete requests, ends of the process, and
              \* executions created while the recoveries of a start are under way
  None        \* no attempt, no entry

ASSUME ExecsAreFinite == IsFiniteSet(Execs)
ASSUME WatchedAreExecs == Watched \subseteq Execs
ASSUME MaxEventsIsNat == MaxEvents \in Nat

\* An execution is added once, resumed, and recovered at most once per start; there is
\* one start more than there are ends of the process.
Attempts ==
  (Execs \X {"fresh"} \X {1}) \cup (Watched \X {"resume"} \X (1..MaxEvents))
    \cup (Execs \X {"recover"} \X (1..MaxEvents + 1))

Exec(a) == a[1]
Kind(a) == a[2]

\* The attempt that creates an execution.
Fresh(e) == <<e, "fresh", 1>>

\* by: the attempt that registered the entry; wf: the workflow attached to it,
\* named by its attempt; open: the post-execute promise is not settled.
Entry == [by : Attempts, wf : Attempts \cup {None}, status : {"running", "waiting"},
          open : BOOLEAN]

ASSUME NoneIsNoEntry == None \notin Attempts \cup Entry

VARIABLES
  enabled,    \* concurrency control, until a shutdown disables it
  reserved,   \* attempts whose reservation holds a slot
  active,     \* the entry registered under an id
  cancelled,  \* attempts whose workflow was cancelled
  hooking     \* those whose cancel hook has not written the row yet

entryVars == <<enabled, reserved, active, cancelled, hooking>>

NoEntries ==
  /\ enabled = TRUE /\ reserved = {} /\ active = [e \in Execs |-> None]
  /\ cancelled = {} /\ hooking = {}

\* The process is gone, and with it everything it kept in memory.
Forget ==
  /\ capacity' = Limit /\ queue' = <<>> /\ granted' = {}
  /\ enabled' = TRUE /\ reserved' = {} /\ active' = [e \in Execs |-> None]
  /\ cancelled' = {} /\ hooking' = {}

\* throttle: waits for a slot, unless the control is disabled.
Throttle(a) ==
  IF enabled THEN Enqueue(a)
             ELSE granted' = granted \cup {a} /\ UNCHANGED <<capacity, queue>>

IsQueued(e) == enabled /\ \E i \in DOMAIN queue : Exec(queue[i]) = e

FirstOf(e, i) == Exec(queue[i]) = e /\ \A j \in 1..i - 1 : Exec(queue[j]) # e

\* Seeded fault: a slot is given back for an id that is not queued.
UnqueueUnchecked(e) ==
  IF IsQueued(e)
    THEN \E i \in DOMAIN queue : FirstOf(e, i) /\ RemoveQueued(queue[i])
    ELSE Dequeue

\* remove, by id: the first entry of that id.
Unqueue(e) ==
  IF IsQueued(e)
    THEN \E i \in DOMAIN queue : FirstOf(e, i) /\ RemoveQueued(queue[i])
    ELSE UNCHANGED queueVars

\* A slot goes back to the queue; after `disable` it goes nowhere.
GiveBack == IF enabled THEN Dequeue ELSE UNCHANGED queueVars

\* The entry replaces whatever the id had.
Register(a) ==
  /\ active' = [active EXCEPT ![Exec(a)] =
                  [by |-> a, wf |-> None, status |-> "running", open |-> TRUE]]
  /\ UNCHANGED <<queueVars, enabled, reserved, cancelled, hooking>>

Attached(e) == active[e] # None

\* Seeded fault: the slot stays with an entry that was put to wait.
SettleKeepingSlot(e) ==
  LET b == active[e]
  IN  IF b.status = "waiting"
        THEN /\ active' = [active EXCEPT ![e] = [b EXCEPT !.wf = None, !.open = FALSE]]
             /\ UNCHANGED <<queueVars, reserved>>
        ELSE /\ active' = [active EXCEPT ![e] = None]
             /\ reserved' = reserved \ {b.by} /\ GiveBack

\* What follows the settling of the id's post-execute promise: the slot is released;
\* a waiting entry lets go of its workflow, any other is deleted by its id.
Settle(e) ==
  LET b == active[e]
  IN  /\ active' = [active EXCEPT ![e] =
                      IF b.status = "waiting" THEN [b EXCEPT !.wf = None, !.open = FALSE]
                                              ELSE None]
      /\ reserved' = reserved \ {b.by}
      /\ GiveBack

\* finalizeExecution: resolves the promise of the entry the id has now.
Finalize(e) ==
  /\ IF Attached(e) /\ active[e].open THEN Settle(e) ELSE UNCHANGED <<queueVars, reserved, active>>
  /\ UNCHANGED <<enabled, cancelled, hooking>>

Waits(e) == Attached(e) /\ active[e].status = "waiting"

\* The workflow that a stop of the id would cancel, if its promise is still pending.
ToCancel(e, pending) == IF Attached(e) /\ ~Waits(e) THEN {active[e].wf} \cap pending ELSE {}

\* stopExecution: an entry that waits is dropped; for any other the workflow is
\* cancelled, if one is attached yet, and the promise rejected.
StopEntry(e, pending) ==
  /\ IF Attached(e) /\ ~Waits(e)
       THEN Settle(e)
       ELSE active' = [active EXCEPT ![e] = None] /\ UNCHANGED <<queueVars, reserved>>
  /\ cancelled' = cancelled \cup ToCancel(e, pending)
  /\ hooking' = hooking \cup (ToCancel(e, pending) \ cancelled)
  /\ UNCHANGED enabled

\* shutdown: no more slots are passed on, and waiting entries are dropped.
ShutDown ==
  /\ enabled' = FALSE
  /\ active' = [e \in Execs |-> IF Waits(e) THEN None ELSE active[e]]
  /\ UNCHANGED <<queueVars, reserved, cancelled, hooking>>
=============================================================================
