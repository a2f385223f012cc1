-------------------------- MODULE ConcurrencyQueue --------------------------
(***************************************************************************)
(* The in-process queue of ConcurrencyControlService: `enqueue` takes a    *)
(* unit of capacity and returns a promise, resolved at once while capacity *)
(* lasts and later by `dequeue` or `remove` otherwise.  An id is granted   *)
(* once its promise is resolved; the code that awaits the promise runs in  *)
(* a later microtask.                                                      *)
(***************************************************************************)
EXTENDS Integers, SequencesExt

CONSTANT Limit  \* the concurrency limit the queue was built with

ASSUME LimitIsPositive == Limit \in Nat \ {0}

VARIABLES
  capacity,  \* the queue's counter; negative while ids are queued
  queue,     \* the queued ids
  granted    \* ids whose promise has been resolved

queueVars == <<capacity, queue, granted>>

QueueInit == capacity = Limit /\ queue = <<>> /\ granted = {}

\* Seeded fault: the last unit of capacity is never handed out.
EnqueueOffByOne(c) ==
  /\ capacity' = capacity - 1
  /\ IF capacity - 1 <= 0
       THEN queue' = Append(queue, c) /\ UNCHANGED granted
       ELSE granted' = granted \cup {c} /\ UNCHANGED queue

Enqueue(c) ==
  /\ capacity' = capacity - 1
  /\ IF capacity - 1 < 0
       THEN queue' = Append(queue, c) /\ UNCHANGED granted
       ELSE granted' = granted \cup {c} /\ UNCHANGED queue

\* resolveNext, on what is left of the queue.
ResolveNext(q) ==
  /\ queue' = IF q = <<>> THEN q ELSE Tail(q)
  /\ granted' = IF q = <<>> THEN granted ELSE granted \cup {Head(q)}

\* Seeded fault: a released slot is not passed on.
DequeueWithoutNext == capacity' = capacity + 1 /\ UNCHANGED <<queue, granted>>

Dequeue == capacity' = capacity + 1 /\ ResolveNext(queue)

Position(c) == CHOOSE i \in DOMAIN queue : queue[i] = c

\* A queued id gives its unit back, and the queue moves on by one.
RemoveQueued(c) ==
  IF Contains(queue, c)
    THEN capacity' = capacity + 1 /\ ResolveNext(RemoveAt(queue, Position(c)))
    ELSE UNCHANGED queueVars
=============================================================================
