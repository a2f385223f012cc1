-------------------------- MODULE QueuedExecutions --------------------------
(***************************************************************************)
(* Executions in queue mode: a main creates or claims the row, adds a job  *)
(* to the Bull queue and awaits its end; a worker takes the job, runs the  *)
(* workflow and saves the row; queue recovery marks rows whose job is gone *)
(* as crashed.  Each run of an execution, the first and one after each     *)
(* wait, is an attempt with a job of its own.  The mains are those of      *)
(* LeaderElection, whose bound on faults is shared.                        *)
(***************************************************************************)
EXTENDS LeaderElection

CONSTANTS
  Execs,     \* execution ids
  MaxWaits   \* bound: times an execution is put to wait

ASSUME ExecsAreFinite == IsFiniteSet(Execs)
ASSUME MaxWaitsIsNat == MaxWaits \in Nat

Attempts == Execs \X (1..MaxWaits + 1)
Exec(a) == a[1]

VARIABLES
  row,    \* status of an execution's row
  owner,  \* the main that started an attempt
  stage,  \* where that main stands
  job,    \* the attempt's job, as Bull has it
  work    \* where the worker stands that took the job

jobVars == <<owner, stage, job, work>>
queueVars == <<row, jobVars>>

\* enqueuing: the row is created or claimed; judged: the job failed, the row was read
\* and is not a success; over: nobody awaits.
Stages == {"idle", "enqueuing", "awaiting", "judged", "over"}
Jobs == {"none", "waiting", "active", "completed", "failed"}
Works == {"none", "read", "running"}
InProgress == {"new", "running"}
Statuses == InProgress \cup {"absent", "waiting", "success", "error", "crashed"}

QueueInit ==
  /\ row = [e \in Execs |-> "absent"]
  /\ owner = [a \in Attempts |-> None]
  /\ stage = [a \in Attempts |-> "idle"]
  /\ job = [a \in Attempts |-> "none"]
  /\ work = [a \in Attempts |-> "none"]

SetRow(e, s) == row' = [row EXCEPT ![e] = s]

\* A main that is over with an attempt forgets it.
Stage(a, from, to) ==
  /\ stage[a] = from /\ stage' = [stage EXCEPT ![a] = to]
  /\ owner' = IF to = "over" THEN [owner EXCEPT ![a] = None] ELSE owner

SetJob(a, s) == job' = [job EXCEPT ![a] = s]

\* A job that ends is removed; its outcome is kept for a main that awaits it.
EndJob(a, s) == SetJob(a, IF owner[a] = None THEN "none" ELSE s)

Work(a, from, to) == work[a] = from /\ work' = [work EXCEPT ![a] = to]

\* Attempts of an execution are numbered in turn.
InTurn(a) == \A n \in 1..a[2] - 1 : stage[<<Exec(a), n>>] # "idle"

Start(m, a) ==
  /\ InTurn(a)
  /\ stage[a] = "idle" /\ stage' = [stage EXCEPT ![a] = "enqueuing"]
  /\ owner' = [owner EXCEPT ![a] = m]
  /\ UNCHANGED <<job, work>>

\* run, for a new execution.
Create(m, a) ==
  /\ row[Exec(a)] = "absent" /\ SetRow(Exec(a), "new")
  /\ Start(m, a)

\* Seeded fault: the row is claimed whatever its status.
ResumeAnyStatus(m, a) ==
  /\ row[Exec(a)] # "absent" /\ SetRow(Exec(a), "running")
  /\ Start(m, a)

\* run, for an execution that waits: the claim is one update on that condition.
Resume(m, a) ==
  /\ row[Exec(a)] = "waiting" /\ SetRow(Exec(a), "running")
  /\ Start(m, a)

AddJob(a) ==
  /\ Stage(a, "enqueuing", "awaiting")
  /\ SetJob(a, "waiting")
  /\ UNCHANGED <<row, work, faults>>

\* processError reads the row first: the job of a success may fail as well.
Fails(a, from) == Stage(a, from, IF row[Exec(a)] = "success" THEN "over" ELSE "judged")

AddJobFails(a) ==
  /\ Fault
  /\ Fails(a, "enqueuing")
  /\ UNCHANGED <<row, job, work>>

\* processJob: the job of a crashed execution is refused.
TakeJob(a) ==
  /\ job[a] = "waiting"
  /\ IF row[Exec(a)] = "crashed"
       THEN EndJob(a, "completed") /\ UNCHANGED work
       ELSE SetJob(a, "active") /\ Work(a, "none", "read")
  /\ UNCHANGED <<row, owner, stage, faults>>

\* setRunning, by id alone.
SetRunning(a) ==
  /\ Work(a, "read", "running")
  /\ SetRow(Exec(a), "running")
  /\ UNCHANGED <<owner, stage, job, faults>>

\* The nodes are done, or one put the execution to wait; the hook saves the row and
\* the worker returns.  A job that Bull gave up on stays failed.
Save(a) ==
  /\ Work(a, "running", "none")
  /\ \E s \in {"success", "error"} \cup (IF a[2] <= MaxWaits THEN {"waiting"} ELSE {}) :
       SetRow(Exec(a), s)
  /\ IF job[a] = "active" THEN EndJob(a, "completed") ELSE UNCHANGED job
  /\ UNCHANGED <<owner, stage, faults>>

\* The worker's lock expires while it works on: with maxStalledCount 0 the job fails.
Stall(a) ==
  /\ job[a] = "active" /\ work[a] # "none" /\ Fault
  /\ EndJob(a, "failed")
  /\ UNCHANGED <<row, owner, stage, work>>

WorkerCrash(a) ==
  /\ work[a] # "none" /\ Fault
  /\ work' = [work EXCEPT ![a] = "none"]
  /\ UNCHANGED <<row, owner, stage, job>>

\* Bull finds an active job whose worker is gone.
GiveUp(a) ==
  /\ job[a] = "active" /\ work[a] = "none"
  /\ EndJob(a, "failed")
  /\ UNCHANGED <<row, owner, stage, work, faults>>

\* job.finished() settles at the main.
JobFinished(a) ==
  /\ \/ job[a] = "completed" /\ Stage(a, "awaiting", "over")
     \/ job[a] = "failed" /\ Fails(a, "awaiting")
  /\ SetJob(a, "none")
  /\ UNCHANGED <<row, work, faults>>

SaveError(a) ==
  /\ Stage(a, "judged", "over")
  /\ SetRow(Exec(a), "error")
  /\ UNCHANGED <<job, work, faults>>

\* The main is gone with what it awaited.
Abandon(m) ==
  /\ stage' = [a \in Attempts |-> IF owner[a] = m THEN "over" ELSE stage[a]]
  /\ owner' = [a \in Attempts |-> IF owner[a] = m THEN None ELSE owner[a]]
  /\ job' = [a \in Attempts |->
               IF owner[a] = m /\ job[a] \in {"completed", "failed"} THEN "none" ELSE job[a]]
  /\ UNCHANGED <<row, work>>

\* Executions with a job that waits or is active.
Queued == {Exec(a) : a \in {b \in Attempts : job[b] \in {"waiting", "active"}}}

\* Seeded fault: rows are marked whatever they say by now.
MarkAsCrashedAlways(es) ==
  row' = [e \in Execs |-> IF e \in es THEN "crashed" ELSE row[e]]

MarkAsCrashed(es) ==
  row' = [e \in Execs |-> IF e \in es /\ row[e] \in InProgress THEN "crashed" ELSE row[e]]

-----------------------------------------------------------------------------
QueueTypeOK ==
  /\ row \in [Execs -> Statuses] /\ owner \in [Attempts -> Mains \cup {None}]
  /\ stage \in [Attempts -> Stages] /\ job \in [Attempts -> Jobs] /\ work \in [Attempts -> Works]

\* A job comes after its row and a worker after its job; nobody owns what did not start.
AttemptsConsistent ==
  \A a \in Attempts :
    /\ stage[a] \in {"idle", "enqueuing"} => job[a] = "none" /\ work[a] = "none"
    /\ stage[a] = "idle" => owner[a] = None
    /\ job[a] = "waiting" => work[a] = "none"

\* Attempts whose run can still write the row's outcome.
Unsaved(a) == stage[a] = "enqueuing" \/ job[a] = "waiting" \/ work[a] \in {"read", "running"}

\* A row to be created or claimed, or that tells of a success, has no such attempt.
UnsavedHoldTheRow ==
  \A a \in Attempts : Unsaved(a) => row[Exec(a)] \notin {"absent", "waiting", "success"}

UnsavedAlone ==
  \A a, b \in Attempts : Exec(a) = Exec(b) /\ Unsaved(a) /\ Unsaved(b) => a = b

QueueInv == QueueTypeOK /\ AttemptsConsistent /\ UnsavedHoldTheRow /\ UnsavedAlone

\* Timers of two mains, resume requests, stalled jobs and recoveries never make two
\* runs of one execution go on at once.
OneRunAtATime == \A e \in Execs : Cardinality({a \in Attempts : Exec(a) = e /\ Unsaved(a)}) <= 1
=============================================================================
