------------------------ MODULE OccurrenceLifecycle ------------------------
(***************************************************************************)
(* What the durable scheduler promises of one occurrence, whatever hosts,  *)
(* leases and processes do: at-least-once work with bounded redelivery and *)
(* one final, truthful outcome.                                            *)
(***************************************************************************)
EXTENDS Naturals

CONSTANTS Occurrences, MaxTries

VARIABLES
  outcome,  \* "open" until it is settled, "gone" once its record is removed
  tries,    \* attempts counted against the occurrence
  starts,   \* how often its handler was started
  done      \* its work has happened

vars == <<outcome, tries, starts, done>>

Init ==
  /\ outcome = [o \in Occurrences |-> "open"]
  /\ tries = [o \in Occurrences |-> 0]
  /\ starts = [o \in Occurrences |-> 0]
  /\ done = [o \in Occurrences |-> FALSE]

\* Every start but the last one has been paid for with a counted attempt.
Start(o) ==
  /\ outcome[o] = "open"
  /\ starts[o] <= tries[o]
  /\ tries[o] < MaxTries
  /\ starts' = [starts EXCEPT ![o] = @ + 1]
  /\ UNCHANGED <<outcome, tries, done>>

\* A handler that was started does the work, however late.
Work(o) ==
  /\ starts[o] > 0
  /\ done' = [done EXCEPT ![o] = TRUE]
  /\ UNCHANGED <<outcome, tries, starts>>

Retry(o) ==
  /\ outcome[o] = "open"
  /\ tries[o] + 1 < MaxTries
  /\ tries' = [tries EXCEPT ![o] = @ + 1]
  /\ UNCHANGED <<outcome, starts, done>>

Succeed(o) ==
  /\ outcome[o] = "open"
  /\ done[o]
  /\ outcome' = [outcome EXCEPT ![o] = "succeeded"]
  /\ UNCHANGED <<tries, starts, done>>

\* Giving up takes the last attempt.
Fail(o) ==
  /\ outcome[o] = "open"
  /\ tries[o] + 1 = MaxTries
  /\ outcome' = [outcome EXCEPT ![o] = "failed"]
  /\ tries' = [tries EXCEPT ![o] = @ + 1]
  /\ UNCHANGED <<starts, done>>

\* Superseded by a newer occurrence, or past its deadline.
Miss(o) ==
  /\ outcome[o] = "open"
  /\ outcome' = [outcome EXCEPT ![o] = "missed"]
  /\ UNCHANGED <<tries, starts, done>>

Remove(o) ==
  /\ outcome[o] # "gone"
  /\ outcome' = [outcome EXCEPT ![o] = "gone"]
  /\ UNCHANGED <<tries, starts, done>>

Next ==
  \E o \in Occurrences :
    \/ Start(o) \/ Work(o) \/ Retry(o) \/ Succeed(o)
    \/ Fail(o) \/ Miss(o) \/ Remove(o)

Spec == Init /\ [][Next]_vars
=============================================================================
