----------------------------- MODULE TaskBroker -----------------------------
(***************************************************************************)
(* The task broker of a main instance: TaskBroker, the WebSocket server in *)
(* front of it and the in-process requester, with the runners of           *)
(* TaskRunner at the other ends of the connections.                        *)
(*                                                                         *)
(* The broker's awaits are on messages it sends and on promises its own    *)
(* handlers resolve, so one action is one turn of the event loop with the  *)
(* microtasks it leaves behind: a request, a frame, a timer, a close.  The *)
(* one real wait, for the analysis of a disconnection, splits a removal.   *)
(***************************************************************************)
EXTENDS TaskRunner

CONSTANTS
  Ids,                 \* runner ids
  AcceptTimeoutLimit,  \* MAX_CONSECUTIVE_ACCEPT_TIMEOUTS
  Internal,            \* runners are child processes of the main
  MaxFaults            \* bound on runner stops, deaths and lost connections

ASSUME LimitIsPositive == AcceptTimeoutLimit \in Nat \ {0}
ASSUME InternalIsBoolean == Internal \in BOOLEAN
ASSUME FaultsIsNat == MaxFaults \in Nat

VARIABLES
  ident,      \* the id a process identifies by; chosen once
  socket,     \* readyState of a connection at the broker
  current,    \* runnerConnections: id -> connection
  known,      \* knownRunners: id -> connection its reachability asks about
  removals,   \* removeConnection calls awaiting the disconnect analysis
  pool,       \* pendingTaskOffers
  pending,    \* pendingTaskRequests
  accepting,  \* runnerAcceptRejects, oldest first
  missed,     \* consecutiveAcceptTimeouts
  tasks,      \* tasks the broker tracks
  closing,    \* "no", "draining", "stopped"
  killed,     \* child processes sent a SIGKILL
  request,    \* the requester's view of a request
  deferred,   \* history: requests deferred since the last settleTasks
  replaced,   \* history: connections replaced by a registration that came late
  faults

routeVars == <<ident, socket, current, known, removals, replaced>>
matchVars == <<pool, pending, accepting, deferred, taskFor>>
brokerVars == <<missed, tasks, closing, killed, request, faults>>
vars == <<processVars, toRunner, toBroker, ran, routeVars, matchVars, brokerVars>>

Init ==
  /\ RunnerInit
  /\ ident \in [Processes -> Ids]
  /\ Internal => IsInjective(ident)
  /\ socket = [p \in Processes |-> "none"]
  /\ current = [i \in Ids |-> None]
  /\ known = [i \in Ids |-> None]
  /\ removals = {} /\ replaced = {}
  /\ pool = <<>> /\ pending = <<>> /\ accepting = <<>>
  /\ missed = [i \in Ids |-> 0]
  /\ tasks = {}
  /\ closing = "no" /\ killed = {}
  /\ request = [r \in Requests |-> "new"]
  /\ deferred = {}
  /\ faults = 0

-----------------------------------------------------------------------------
\* What is left of s when only members of S are kept.
Only(s, S) ==
  LET upTo[k \in 0..Len(s)] ==
        IF k = 0 THEN <<>>
        ELSE IF s[k] \in S THEN Append(upTo[k - 1], s[k]) ELSE upTo[k - 1]
  IN  upTo[Len(s)]

Without(s, e) == Only(s, ToSet(s) \ {e})

IdOf(o) == ident[Owner(o)]
TasksOf(i) == {o \in tasks : IdOf(o) = i}
OffersNotOf(i) == Only(pool, {o \in Offers : IdOf(o) # i})
Fault == faults < MaxFaults /\ faults' = faults + 1

\* isRunnerReachable, as the registration of the id asks it.
Reachable(i) == known[i] # None /\ current[i] = known[i] /\ socket[known[i]] = "open"

\* sendMessage goes to the connection the id has now; it is lost unless that is
\* open and its process alive.
Delivers(i, p) == current[i] = p /\ socket[p] = "open" /\ life[p] = "up"
ToId(i, m) == [p \in Processes |-> IF Delivers(i, p) THEN <<m>> ELSE <<>>]
Nothing == [p \in Processes |-> <<>>]
Send(out) == toRunner' = [p \in Processes |-> toRunner[p] \o out[p]]

\* The requests of the tasks `os` get the answer `a`.
Answer(os, a) ==
  request' = [r \in Requests |-> IF \E o \in os : taskFor[o] = r THEN a ELSE request[r]]

\* untrackTask.
Untrack(os, a) == tasks' = tasks \ os /\ Answer(os, a)

-----------------------------------------------------------------------------
(* What settleTasks works on, and the messages sent so far in this turn.   *)
Matching == [pool |-> pool, pending |-> pending, accepting |-> accepting,
             taskFor |-> taskFor, out |-> Nothing]

Become(m) ==
  /\ pool' = m.pool /\ pending' = m.pending /\ accepting' = m.accepting
  /\ taskFor' = m.taskFor
  /\ Send(m.out)

AcceptInProgress(m, r) == \E k \in DOMAIN m.accepting : m.taskFor[m.accepting[k]] = r

\* settleTasks: offers of unreachable runners go; requests that are not being
\* accepted are served in order, each with the oldest offer left.
Settle(m) ==
  LET good == Only(m.pool, {o \in Offers : known[IdOf(o)] = None \/ Reachable(IdOf(o))})
      idle == Only(m.pending, {r \in Requests : ~AcceptInProgress(m, r)})
      n == Min({Len(good), Len(idle)})
      taken == SubSeq(good, 1, n)
      RequestOf(o) == idle[CHOOSE k \in 1..n : taken[k] = o]
      Accepts(p) == LET os == Only(taken, {o \in Offers : Delivers(IdOf(o), p)})
                    IN  [k \in DOMAIN os |-> Msg("accept", os[k])]
  IN  [pool |-> SubSeq(good, n + 1, Len(good)),
       pending |-> m.pending,
       accepting |-> m.accepting \o taken,
       taskFor |-> [o \in Offers |-> IF o \in ToSet(taken) THEN RequestOf(o) ELSE m.taskFor[o]],
       out |-> [p \in Processes |-> m.out[p] \o Accepts(p)]]

Settled(m) == Become(Settle(m)) /\ deferred' = {}

\* Seeded fault: a rejection is taken without another round of matching.
RejectQuietly(m, o) == [m EXCEPT !.accepting = Without(@, o)]

\* handleRunnerReject: the request is up for matching again.
Reject(m, o) == Settle([m EXCEPT !.accepting = Without(@, o)])

\* Several acceptances are given up, one after the other.
RejectAll(m, os) ==
  LET after[k \in 0..Len(os)] == IF k = 0 THEN m ELSE Reject(after[k - 1], os[k])
  IN  after[Len(os)]

-----------------------------------------------------------------------------
(* The requester.                                                          *)

RequestTask(r) ==
  /\ request[r] = "new"
  /\ \/ /\ closing = "no"
        /\ request' = [request EXCEPT ![r] = "waiting"]
        /\ Settled([Matching EXCEPT !.pending = Append(@, r)])
     \/ /\ closing # "no"
        /\ request' = [request EXCEPT ![r] = "expired"]
        /\ UNCHANGED <<matchVars, toRunner>>
  /\ UNCHANGED <<processVars, toBroker, ran, routeVars, missed, tasks, closing, killed, faults>>

\* cancelTasks of an execution: only a request that has its task is cancelled.
CancelExecution(r) ==
  /\ \E o \in tasks :
       /\ taskFor[o] = r
       /\ Untrack({o}, "cancelled")
       /\ Send(ToId(IdOf(o), Msg("cancel", o)))
  /\ UNCHANGED <<processVars, toBroker, ran, routeVars, matchVars, missed, closing, killed, faults>>

-----------------------------------------------------------------------------
(* Connections.                                                            *)

\* removeConnection(i), up to the analysis; `next` is the connection whose
\* registration waits for it.
Removal(i, next) == [id |-> i, conn |-> current[i], tasks |-> TasksOf(i), next |-> next]

RemovalRecords ==
  [id : Ids, conn : Processes, tasks : SUBSET Offers, next : Processes \cup {None}]

Disconnect(is, next) ==
  /\ removals' = removals \cup {Removal(i, next) : i \in is}
  /\ current' = [i \in Ids |-> IF i \in is THEN None ELSE current[i]]
  /\ socket' = [p \in Processes |->
                  IF socket[p] = "open" /\ \E i \in is : current[i] = p
                    THEN "closing" ELSE socket[p]]

Kill(is) ==
  killed' = killed \cup
    {p \in Processes : Internal /\ closing = "no" /\ life[p] = "up" /\ ident[p] \in is}

\* runner:unresponsive; nobody listens to it once the server stops.
ReportUnresponsive(is) ==
  /\ Disconnect({i \in is : current[i] # None /\ closing = "no"}, None)
  /\ Kill(is)
  /\ UNCHANGED <<ident, known, replaced>>

\* The registration of connection p, with the messages sent before it.  It may
\* find another connection registered that came while it waited for a removal.
Join(p, out) ==
  /\ replaced' = replaced \cup ({current[ident[p]]} \ {None})
  /\ current' = [current EXCEPT ![ident[p]] = p]
  /\ known' = [known EXCEPT ![ident[p]] = p]
  /\ Send([out EXCEPT ![p] = @ \o IF socket[p] = "open" /\ life[p] = "up"
                                  THEN <<[type |-> "registered"]>> ELSE <<>>])

RunnerInfo(p) ==
  \/ /\ current[ident[p]] = None
     /\ Join(p, Nothing)
     /\ UNCHANGED <<ident, socket, removals>>
  \/ /\ current[ident[p]] # None
     /\ Disconnect({ident[p]}, p)
     /\ UNCHANGED <<ident, known, replaced, toRunner>>

\* A runner connects; the server of a main that stops takes no connection.
Connect(p) ==
  /\ closing = "no"
  /\ Start(p)
  /\ socket' = [socket EXCEPT ![p] = "open"]
  /\ UNCHANGED <<ident, current, known, removals, replaced, pool, pending, accepting, deferred,
                 brokerVars>>

\* Seeded fault: the tasks of the old connection are left alone.
ReconnectedKeepsTasks(d) ==
  /\ current[d.id] # None
  /\ UNCHANGED <<tasks, request, matchVars, missed>>

\* The rest of removeConnection: a runner that has reconnected keeps its
\* registration and loses the tasks of its old connection.
Reconnected(d) ==
  /\ current[d.id] # None
  /\ Untrack(d.tasks \cap tasks, "answered")
  /\ UNCHANGED <<matchVars, missed>>

\* Seeded fault: a runner that is deregistered keeps its tasks.
FailNoTasks(i) == UNCHANGED <<tasks, request>>

FailTasksOf(i) == Untrack(TasksOf(i), "answered")

\* deregisterRunner.
Deregister(d) ==
  /\ current[d.id] = None
  /\ missed' = [missed EXCEPT ![d.id] = 0]
  /\ FailTasksOf(d.id)
  /\ LET lost == Only(accepting, {o \in Offers : IdOf(o) = d.id})
         m == RejectAll([Matching EXCEPT !.pool = OffersNotOf(d.id)], lost)
     IN  /\ pool' = m.pool /\ pending' = m.pending /\ accepting' = m.accepting
         /\ taskFor' = m.taskFor
         /\ deferred' = IF lost = <<>> THEN deferred ELSE {}
         /\ \/ d.next # None /\ Join(d.next, m.out)
            \/ /\ d.next = None /\ Send(m.out)
               /\ known' = [known EXCEPT ![d.id] = None]
               /\ UNCHANGED <<current, replaced>>

FinishRemoval(d) ==
  /\ d \in removals
  /\ removals' = removals \ {d}
  /\ \/ Deregister(d)
     \/ /\ Reconnected(d)
        /\ \/ d.next # None /\ Join(d.next, Nothing)
           \/ d.next = None /\ UNCHANGED <<current, known, replaced, toRunner>>
  /\ UNCHANGED <<processVars, toBroker, ran, ident, socket, closing, killed, faults>>

\* The process is gone, or its connection breaks; the broker's socket leaves
\* OPEN before it reports the close.
SocketDrops(p) ==
  /\ socket[p] = "open"
  /\ \/ life[p] = "gone" /\ UNCHANGED faults
     \/ life[p] = "up" /\ Fault
  /\ socket' = [socket EXCEPT ![p] = "closing"]
  /\ UNCHANGED <<processVars, toRunner, toBroker, ran, ident, current, known, removals, replaced,
                 matchVars, missed, tasks, closing, killed, request>>

\* The close event: frames still unread are lost.
CloseEvent(p) ==
  /\ socket[p] = "closing"
  /\ toBroker' = [toBroker EXCEPT ![p] = <<>>]
  /\ LET is == {i \in Ids : current[i] = p}
     IN  /\ removals' = removals \cup {Removal(i, None) : i \in is}
         /\ current' = [i \in Ids |-> IF i \in is THEN None ELSE current[i]]
         /\ socket' = [socket EXCEPT ![p] = "closed"]
  /\ UNCHANGED <<processVars, toRunner, ran, ident, known, replaced, matchVars,
                 missed, tasks, closing, killed, request, faults>>

\* checkConnectionLiveness finds a connection that answered no ping: its
\* process is gone, or too busy.
HeartbeatFails(i) ==
  /\ closing = "no"
  /\ current[i] # None
  /\ \/ life[current[i]] = "gone" /\ UNCHANGED faults
     \/ life[current[i]] = "up" /\ Fault
  /\ Disconnect({i}, None)
  /\ Kill({i})
  /\ UNCHANGED <<processVars, toRunner, toBroker, ran, ident, known, replaced, matchVars,
                 missed, tasks, closing, request>>

\* onConnectionClose of the runner: the process exits.
ConnectionLost(p) ==
  /\ life[p] = "up"
  /\ socket[p] \in {"closing", "closed"}
  /\ Vanish(p)
  /\ toRunner' = [toRunner EXCEPT ![p] = <<>>]
  /\ UNCHANGED <<toBroker, ran, routeVars, matchVars, brokerVars>>

\* The process exits after draining, is killed or crashes.
Dies(p) ==
  /\ life[p] = "up"
  /\ \/ (draining[p] \/ p \in killed) /\ UNCHANGED faults
     \/ ~draining[p] /\ p \notin killed /\ Fault
  /\ Vanish(p)
  /\ toRunner' = [toRunner EXCEPT ![p] = <<>>]
  /\ UNCHANGED <<toBroker, ran, routeVars, matchVars, missed, tasks, closing, killed, request>>

-----------------------------------------------------------------------------
(* Frames of a registered connection.                                      *)

Offered(o) ==
  /\ Settled([Matching EXCEPT !.pool = Append(@, o)])
  /\ UNCHANGED <<missed, tasks, request>>

\* Any answer to an acceptance that is still awaited clears the count.
Answered(o) ==
  /\ o \in ToSet(accepting)
  /\ missed' = [missed EXCEPT ![IdOf(o)] = 0]

\* Seeded fault: a request that has its task stays up for matching.
StillPending(r) == pending

Matched(r) == Without(pending, r)

\* The rest of acceptOffer: a request that expired meanwhile cancels the task;
\* otherwise the requester is told, sends the settings in the same turn, and
\* they go to the runner, unless that became unreachable.
Accepted(o) ==
  LET r == taskFor[o]
      p == Owner(o)
  IN  /\ Answered(o)
      /\ accepting' = Without(accepting, o)
      /\ pending' = Matched(r)
      /\ \/ /\ r \notin ToSet(pending)
            /\ Send(ToId(IdOf(o), Msg("cancel", o)))
            /\ UNCHANGED <<tasks, request>>
         \/ /\ r \in ToSet(pending) /\ Reachable(IdOf(o))
            /\ tasks' = tasks \cup {o}
            /\ request' = [request EXCEPT ![r] = "running"]
            /\ Send(ToId(IdOf(o), Msg("settings", o)))
         \/ /\ r \in ToSet(pending) /\ ~Reachable(IdOf(o))
            /\ request' = [request EXCEPT ![r] = "answered"]
            /\ UNCHANGED <<tasks, toRunner>>
      /\ UNCHANGED <<pool, deferred, taskFor>>

Rejected(o) ==
  /\ Answered(o)
  /\ Become(Reject(Matching, o)) /\ deferred' = {}
  /\ UNCHANGED <<tasks, request>>

\* A deferred request waits for the next settleTasks.
Deferred(o) ==
  /\ Answered(o)
  /\ accepting' = Without(accepting, o)
  /\ deferred' = deferred \cup {taskFor[o]}
  /\ UNCHANGED <<pool, pending, taskFor, toRunner, tasks, request>>

\* taskDoneHandler, taskErrorHandler.
Finished(o) ==
  /\ o \in tasks
  /\ Untrack({o}, "answered")
  /\ UNCHANGED <<matchVars, toRunner, missed>>

Unexpected(m) ==
  \/ m.type \in {"accepted", "rejected", "deferred"} /\ m.task \notin ToSet(accepting)
  \/ m.type = "finished" /\ m.task \notin tasks

\* onRunnerMessage.
OnRunnerMessage(m) ==
  \/ m.type = "offer" /\ Offered(m.task)
  \/ m.type = "accepted" /\ Accepted(m.task)
  \/ m.type = "rejected" /\ Rejected(m.task)
  \/ m.type = "deferred" /\ Deferred(m.task)
  \/ m.type = "finished" /\ Finished(m.task)
  \/ Unexpected(m) /\ UNCHANGED <<matchVars, toRunner, missed, tasks, request>>

\* onMessage of a connection; one that is not the id's any more is not heard.
BrokerReceives(p) ==
  /\ toBroker[p] # <<>>
  /\ socket[p] \in {"open", "closing"}
  /\ toBroker' = [toBroker EXCEPT ![p] = Tail(@)]
  /\ LET m == Head(toBroker[p])
     IN  \/ /\ m.type = "info"
            /\ RunnerInfo(p)
            /\ UNCHANGED <<matchVars, missed, tasks, request>>
         \/ /\ m.type # "info" /\ current[ident[p]] = p
            /\ OnRunnerMessage(m)
            /\ UNCHANGED routeVars
         \/ /\ m.type # "info" /\ current[ident[p]] # p
            /\ UNCHANGED <<routeVars, matchVars, toRunner, missed, tasks, request>>
  /\ UNCHANGED <<processVars, ran, closing, killed, faults>>

-----------------------------------------------------------------------------
(* Timers.                                                                 *)

\* isSilent.
Silent(i) ==
  /\ \A k \in DOMAIN pool : IdOf(pool[k]) # i
  /\ TasksOf(i) = {}
  /\ \A k \in DOMAIN accepting : IdOf(accepting[k]) # i

\* handleRequestTimeout, with flagSilentRunners.
RequestExpires(r) ==
  /\ r \in ToSet(pending)
  /\ ReportUnresponsive({i \in Ids : Reachable(i) /\ Silent(i)})
  /\ pending' = Without(pending, r)
  /\ request' = [request EXCEPT ![r] = "expired"]
  /\ UNCHANGED <<processVars, toRunner, toBroker, ran, pool, accepting, deferred, taskFor,
                 missed, tasks, closing, faults>>

\* expireTasks, one offer at a time: no one looks at the pool before it ran.
OfferLapses(o) ==
  /\ o \in ToSet(pool)
  /\ pool' = Without(pool, o)
  /\ UNCHANGED <<processVars, toRunner, toBroker, ran, routeVars, pending, accepting,
                 deferred, taskFor, brokerVars>>

\* Seeded fault: one time-out more than the limit.
PastLimit(i) == missed[i] + 1 > AcceptTimeoutLimit

\* flagRunnerIfUnresponsive.
AtLimit(i) == missed[i] + 1 >= AcceptTimeoutLimit

\* The acknowledgement window elapsed: the runner gives the task up, none of its
\* offers is trusted, and at the limit it is reported.
AcceptTimesOut(o) ==
  LET i == IdOf(o)
      out == ToId(i, Msg("cancel", o))
  IN  /\ o \in ToSet(accepting)
      /\ missed' = [missed EXCEPT ![i] = IF AtLimit(i) THEN 0 ELSE @ + 1]
      /\ ReportUnresponsive(IF AtLimit(i) THEN {i} ELSE {})
      /\ Become(Reject([Matching EXCEPT !.pool = OffersNotOf(i), !.out = out], o))
      /\ deferred' = {}
      /\ UNCHANGED <<processVars, toBroker, ran, tasks, closing, request, faults>>

\* handleTaskTimeout.
TaskTimesOut(o) ==
  /\ o \in tasks
  /\ Untrack({o}, "answered")
  /\ \/ Internal /\ Kill({IdOf(o)}) /\ UNCHANGED toRunner
     \/ ~Internal /\ Send(ToId(IdOf(o), Msg("cancel", o))) /\ UNCHANGED killed
  /\ UNCHANGED <<processVars, toBroker, ran, routeVars, matchVars, missed, closing, faults>>

\* A response of the requester that finds the runner unreachable fails the task.
RelayFails(o) ==
  /\ o \in tasks
  /\ ~Reachable(IdOf(o))
  /\ Untrack({o}, "answered")
  /\ UNCHANGED <<processVars, toRunner, toBroker, ran, routeVars, matchVars,
                 missed, closing, killed, faults>>

-----------------------------------------------------------------------------
(* Shutdown of the main.                                                   *)

\* stop, up to the wait for active tasks.
StartDraining ==
  /\ closing = "no"
  /\ Fault
  /\ closing' = "draining"
  /\ Send([p \in Processes |-> IF Delivers(ident[p], p) THEN <<[type |-> "drain"]>> ELSE <<>>])
  /\ UNCHANGED <<processVars, toBroker, ran, routeVars, matchVars, missed, tasks, killed, request>>

\* The wait is over, or timed out: stopConnectedRunners.
StopConnections ==
  /\ closing = "draining"
  /\ closing' = "stopped"
  /\ Disconnect({i \in Ids : current[i] # None}, None)
  /\ UNCHANGED <<processVars, toRunner, toBroker, ran, ident, known, replaced, matchVars,
                 missed, tasks, killed, request, faults>>

-----------------------------------------------------------------------------
\* A runner process by itself; stopping one is a fault.
RunnerStep(p) ==
  /\ \/ RunnerNext(p) /\ UNCHANGED faults
     \/ StopRunner(p) /\ Fault
  /\ UNCHANGED <<routeVars, pool, pending, accepting, deferred,
                 missed, tasks, closing, killed, request>>

Next ==
  \/ \E r \in Requests : RequestTask(r) \/ RequestExpires(r) \/ CancelExecution(r)
  \/ \E p \in Processes :
       \/ RunnerStep(p) \/ Connect(p) \/ BrokerReceives(p)
       \/ SocketDrops(p) \/ CloseEvent(p) \/ ConnectionLost(p) \/ Dies(p)
  \/ \E i \in Ids : HeartbeatFails(i)
  \/ \E d \in removals : FinishRemoval(d)
  \/ \E o \in Offers : OfferLapses(o) \/ AcceptTimesOut(o) \/ TaskTimesOut(o) \/ RelayFails(o)
  \/ StartDraining \/ StopConnections

Spec == Init /\ [][Next]_vars

\* What the main does by itself about runners that are gone: heartbeats, the
\* analysis of disconnections, and a shutdown that does not wait for ever.
Housekeeping ==
  \/ \E i \in Ids : HeartbeatFails(i) /\ UNCHANGED faults
  \/ \E d \in removals : FinishRemoval(d)
  \/ StopConnections

\* Nothing is assumed of the runners, of the network's close events, nor of the
\* timers of requests and tasks.
Fairness == WF_vars(Housekeeping)

FairSpec == Spec /\ Fairness

-----------------------------------------------------------------------------
TypeOK ==
  /\ ident \in [Processes -> Ids]
  /\ socket \in [Processes -> {"none", "open", "closing", "closed"}]
  /\ current \in [Ids -> Processes \cup {None}]
  /\ known \in [Ids -> Processes \cup {None}]
  /\ removals \subseteq RemovalRecords /\ replaced \subseteq Processes
  /\ pool \in Seq(Offers) /\ pending \in Seq(Requests) /\ accepting \in Seq(Offers)
  /\ missed \in [Ids -> 0..(AcceptTimeoutLimit - 1)]
  /\ tasks \subseteq Offers
  /\ closing \in {"no", "draining", "stopped"}
  /\ killed \subseteq Processes
  /\ request \in [Requests -> {"new", "waiting", "running", "answered", "expired", "cancelled"}]
  /\ deferred \subseteq Requests
  /\ faults \in 0..MaxFaults
  /\ life \in [Processes -> {"unborn", "up", "gone"}]
  /\ offering \in [Processes -> BOOLEAN]
  /\ draining \in [Processes -> BOOLEAN]
  /\ openOffers \subseteq Offers
  /\ made \in [Processes -> 0..MaxOffers]
  /\ work \in [Offers -> TaskStatuses]
  /\ taskFor \in [Offers -> Requests \cup {None}]
  /\ ran \in [Requests -> Nat]
  /\ toRunner \in [Processes -> Seq(ToRunner)]
  /\ toBroker \in [Processes -> Seq(ToBroker)]

\* The broker never loses a request: one that still waits for its answer is
\* either up for matching or has exactly one task, and the broker's tasks are
\* those of running requests, whatever acceptances, time-outs and removals raced.
NoForgottenRequest ==
  /\ ToSet(pending) = {r \in Requests : request[r] = "waiting"}
  /\ IsInjective(pending)
  /\ \A r \in Requests :
       Cardinality({o \in tasks : taskFor[o] = r}) = (IF request[r] = "running" THEN 1 ELSE 0)

\* A runner that can be talked to holds no slot for a task the broker has
\* forgotten: the broker tracks it or awaits its acceptance, the message that
\* gives it up is on its way, or the process is about to be killed.
NoOrphans ==
  \A o \in Offers :
    LET p == Owner(o)
    IN  (work[o] \in {"waiting", "running"} /\ Delivers(ident[p], p) /\ p \notin killed)
          => \/ o \in tasks \/ o \in ToSet(accepting)
             \/ Msg("cancel", o) \in ToSet(toRunner[p])
             \/ Internal /\ closing # "no"

\* No request waits beside an offer it could have, except one that a runner
\* deferred since requests and offers were last matched.
NoIdleMatch ==
  \A r \in ToSet(pending) \ deferred :
    AcceptInProgress(Matching, r) \/ \A k \in DOMAIN pool : ~Reachable(IdOf(pool[k]))

\* A task whose runner is not the id's connection any more is in the hands of a
\* removal, which fails it, also if the runner has reconnected by then; except
\* the task of a connection that a late registration replaced.
NoLostTask ==
  \A o \in tasks :
    \/ current[IdOf(o)] = Owner(o) \/ Owner(o) \in replaced
    \/ \E d \in removals : o \in d.tasks

\* What requesters may rely on.
Promise == INSTANCE TaskRequestLifecycle
KeepsPromise == Promise!Spec

\* The tasks of a process that is gone are answered without their own timers,
\* even if the network never reports the close of its connection.
LostTasksFail ==
  \A p \in Processes :
    LET Lost == life[p] = "gone" /\ p \notin replaced /\ \E o \in tasks : Owner(o) = p
    IN  Lost ~> (~Lost \/ closing = "stopped")
=============================================================================
