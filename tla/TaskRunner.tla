----------------------------- MODULE TaskRunner -----------------------------
(***************************************************************************)
(* A task runner process: it offers its free slots to the broker, takes    *)
(* tasks on the offers the broker accepts and runs user code once a task's *)
(* settings arrive.  A process opens one connection and exits with it, so  *)
(* a process also names its connection.                                    *)
(*                                                                         *)
(* One action is one turn of the process: a message, a timer or the end of *)
(* the user code.  Every acceptance uses up one offer, so a task is named  *)
(* by the offer it was matched with.                                       *)
(***************************************************************************)
EXTENDS Integers, SequencesExt

CONSTANTS
  Processes,       \* runner processes that may be started
  Requests,        \* task requests of the main instance
  None,            \* no process, no request
  MaxConcurrency,  \* slots of a runner
  MaxOffers        \* bound on the offers a process makes

ASSUME ProcessesAreFinite == IsFiniteSet(Processes)
ASSUME NoneIsNothing == None \notin Processes \cup Requests
ASSUME SlotsArePositive == MaxConcurrency \in Nat \ {0} /\ MaxOffers \in Nat

VARIABLES
  life,        \* "unborn", "up", "gone"
  offering,    \* canSendOffers
  draining,    \* isDraining, or stop() has begun to drain
  openOffers,  \* the offers in the processes' openOffers maps
  made,        \* how many offers a process has made
  work,        \* the status of a task in its runner's runningTasks
  toRunner, toBroker,  \* the frames on their way, per connection
  taskFor,     \* history: the request an offer was matched with
  ran          \* history: how often user code was started for a request

processVars == <<life, offering, draining, openOffers, made, work>>

Offers == Processes \X (1..MaxOffers)
Owner(o) == o[1]

TaskStatuses == {"none", "waiting", "running", "cancelled", "timedOut"}

\* taskdone and taskerror are one "finished": the broker treats them alike.
ToRunner == [type : {"registered", "drain"}] \cup
            [type : {"accept", "cancel", "settings"}, task : Offers]
ToBroker == [type : {"info"}] \cup
            [type : {"offer", "accepted", "rejected", "deferred", "finished"}, task : Offers]

Msg(type, o) == [type |-> type, task |-> o]

RunnerInit ==
  /\ life = [p \in Processes |-> "unborn"]
  /\ offering = [p \in Processes |-> FALSE]
  /\ draining = [p \in Processes |-> FALSE]
  /\ openOffers = {}
  /\ made = [p \in Processes |-> 0]
  /\ work = [o \in Offers |-> "none"]
  /\ toRunner = [p \in Processes |-> <<>>]
  /\ toBroker = [p \in Processes |-> <<>>]
  /\ taskFor = [o \in Offers |-> None]
  /\ ran = [r \in Requests |-> 0]

-----------------------------------------------------------------------------
Busy(p) == {o \in Offers : Owner(o) = p /\ work[o] # "none"}
OpenOffersOf(p) == {o \in openOffers : Owner(o) = p}

Say(p, ms) == toBroker' = [toBroker EXCEPT ![p] = @ \o ms]
SetWork(o, status) == work' = [work EXCEPT ![o] = status]

\* sendOffers, with `busy` tasks running, after the messages `ms`: whatever
\* offers are stale by now are replaced.
SendOffers(p, busy, ms) ==
  \E stale \in SUBSET OpenOffersOf(p) :
    LET free == MaxConcurrency - Cardinality(OpenOffersOf(p) \ stale) - busy
        n == IF ~offering[p] THEN 0 ELSE Min({Max({free, 0}), MaxOffers - made[p]})
        new == [i \in 1..n |-> <<p, made[p] + i>>]
    IN  /\ openOffers' = (openOffers \ stale) \cup ToSet(new)
        /\ made' = [made EXCEPT ![p] = @ + n]
        /\ Say(p, ms \o [i \in 1..n |-> Msg("offer", new[i])])

\* finishTask, after the messages `ms`.
FinishTask(o, ms) ==
  /\ SetWork(o, "none")
  /\ SendOffers(Owner(o), Cardinality(Busy(Owner(o)) \ {o}), ms)

-----------------------------------------------------------------------------
\* The broker asks a new connection for its info.
Start(p) ==
  /\ life[p] = "unborn"
  /\ life' = [life EXCEPT ![p] = "up"]
  /\ Say(p, <<[type |-> "info"]>>)
  /\ UNCHANGED <<offering, draining, openOffers, made, work, toRunner, taskFor, ran>>

\* The interval timer.
OfferTick(p) ==
  /\ life[p] = "up" /\ offering[p]
  /\ SendOffers(p, Cardinality(Busy(p)), <<>>)
  /\ UNCHANGED <<life, offering, draining, work, toRunner, taskFor, ran>>

Registered(p) ==
  /\ offering' = [offering EXCEPT ![p] = TRUE]
  /\ UNCHANGED <<draining, openOffers, made, work, toBroker, ran>>

OnBrokerDrain(p) ==
  /\ draining' = [draining EXCEPT ![p] = TRUE]
  /\ offering' = [offering EXCEPT ![p] = FALSE]
  /\ UNCHANGED <<openOffers, made, work, toBroker, ran>>

\* offerAccepted: refused while draining, without a free slot, or for an offer
\* that is not open any more.  A launcher (external), which offers in the place
\* of runners it is yet to start, defers the task.
OfferAccepted(p, o) ==
  LET fits == ~draining[p] /\ Cardinality(Busy(p)) < MaxConcurrency /\ o \in OpenOffersOf(p)
  IN  /\ openOffers' = openOffers \ {x \in OpenOffersOf(p) : x = o /\ ~draining[p]}
      /\ \/ fits /\ SetWork(o, "waiting") /\ Say(p, <<Msg("accepted", o)>>)
         \/ fits /\ UNCHANGED work /\ Say(p, <<Msg("deferred", o)>>)
         \/ ~fits /\ UNCHANGED work /\ Say(p, <<Msg("rejected", o)>>)
      /\ UNCHANGED <<offering, draining, made, ran>>

\* The status of the task in the runningTasks of p; another process of the same
\* id may have it.
Status(p, o) == IF Owner(o) = p THEN work[o] ELSE "none"

\* Seeded fault: a task that still waits for its settings is not given up.
TaskCancelledIfRunning(p, o) ==
  /\ work' = IF Status(p, o) = "running" THEN [work EXCEPT ![o] = "cancelled"] ELSE work
  /\ UNCHANGED <<offering, draining, openOffers, made, toBroker, ran>>

TaskCancelled(p, o) ==
  \/ /\ Status(p, o) = "waiting"
     /\ FinishTask(o, <<>>)
     /\ UNCHANGED <<offering, draining, ran>>
  \/ /\ Status(p, o) # "waiting"
     /\ work' = IF Status(p, o) = "running" THEN [work EXCEPT ![o] = "cancelled"] ELSE work
     /\ UNCHANGED <<offering, draining, openOffers, made, toBroker, ran>>

\* Settings of a task that is gone are ignored; a task has them only once, so
\* any other status is an assertion failure of the runner.
ReceivedSettings(p, o) ==
  /\ IF Status(p, o) = "waiting"
       THEN SetWork(o, "running") /\ ran' = [ran EXCEPT ![taskFor[o]] = @ + 1]
       ELSE UNCHANGED <<work, ran>>
  /\ UNCHANGED <<offering, draining, openOffers, made, toBroker>>

\* onMessage.
RunnerReceives(p) ==
  /\ life[p] = "up"
  /\ toRunner[p] # <<>>
  /\ LET m == Head(toRunner[p])
     IN  \/ m.type = "registered" /\ Registered(p)
         \/ m.type = "drain" /\ OnBrokerDrain(p)
         \/ m.type = "accept" /\ OfferAccepted(p, m.task)
         \/ m.type = "cancel" /\ TaskCancelled(p, m.task)
         \/ m.type = "settings" /\ ReceivedSettings(p, m.task)
  /\ toRunner' = [toRunner EXCEPT ![p] = Tail(@)]
  /\ UNCHANGED <<life, taskFor>>

\* The user code ends; a cancelled task says nothing.
TaskEnds(o) ==
  /\ work[o] \in {"running", "cancelled", "timedOut"}
  /\ FinishTask(o, IF work[o] = "cancelled" THEN <<>> ELSE <<Msg("finished", o)>>)
  /\ UNCHANGED <<life, offering, draining, toRunner, taskFor, ran>>

\* The runner's own timer: settings that never came, or code that takes long.
TaskTimedOut(o) ==
  \/ /\ work[o] = "waiting"
     /\ FinishTask(o, <<Msg("finished", o)>>)
     /\ UNCHANGED <<life, offering, draining, toRunner, taskFor, ran>>
  \/ /\ work[o] = "running"
     /\ SetWork(o, "timedOut")
     /\ UNCHANGED <<life, offering, draining, openOffers, made, toRunner, toBroker, taskFor, ran>>

\* stop(), once it drains: no more offers, and tasks in progress may end until
\* the grace period does.
StopRunner(p) ==
  /\ life[p] = "up" /\ ~draining[p]
  /\ draining' = [draining EXCEPT ![p] = TRUE]
  /\ offering' = [offering EXCEPT ![p] = FALSE]
  /\ openOffers' = openOffers \ OpenOffersOf(p)
  /\ UNCHANGED <<life, made, work, toRunner, toBroker, taskFor, ran>>

\* The process ends: it exits, crashes or is killed.  What it sent is still on
\* its way.
Vanish(p) ==
  /\ life' = [life EXCEPT ![p] = "gone"]
  /\ offering' = [offering EXCEPT ![p] = FALSE]
  /\ openOffers' = openOffers \ OpenOffersOf(p)
  /\ work' = [o \in Offers |-> IF Owner(o) = p THEN "none" ELSE work[o]]
  /\ UNCHANGED <<draining, made>>

RunnerNext(p) ==
  \/ OfferTick(p) \/ RunnerReceives(p)
  \/ \E o \in Offers : Owner(o) = p /\ (TaskEnds(o) \/ TaskTimedOut(o))
=============================================================================
