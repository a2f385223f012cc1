---------------------------- MODULE Materializer ----------------------------
(***************************************************************************)
(* How a schedule's fires become rows of the task table: the               *)
(* materialization passes of several mains (materialize.ts, plan.ts,       *)
(* misfire.ts) and the provisioning of one trigger node's jobs             *)
(* (provision.ts, durable-job-provisioner.ts) over the scheduled_job and   *)
(* scheduled_task tables, in Postgres' READ COMMITTED transactions.        *)
(*                                                                         *)
(* A node has one rule; a job's name is its rule, so a changed rule is     *)
(* another name.  A transaction's writes become visible at its commit and  *)
(* are one step; what it read before, and the locks it holds since, are    *)
(* kept in txn.                                                            *)
(***************************************************************************)
EXTENDS Naturals, FiniteSets, FiniteSetsExt

CONSTANTS Mains,        \* processes that share the database
          Schedules,    \* the rules a version of the node may have
          Fires,        \* [Schedules -> sets of instants]
          Cyclic,       \* the schedules that never run out
          Window,       \* windowSeconds
          Lookahead,    \* lookaheadSeconds
          Grace,        \* misfireGraceSeconds
          MaxPerJob,    \* maxPerJob
          PlanRetry,    \* planRetrySeconds
          Backoff,      \* what an executor or the reaper puts a retry off by
          MaxTime,      \* bound: where the clock stops
          MaxJobs,      \* bound: job rows inserted
          MaxProvisions, MaxAborts, MaxErrors, MaxReturns   \* bounds on disturbances

Never == MaxTime + Window + PlanRetry + 2   \* nextRunAt IS NULL
Instants == 0..(Never - 1)
Policies == {"coalesce", "skip"}
NoJob == [id |-> 0, nextRunAt |-> Never, policy |-> "coalesce"]
Idle == [phase |-> "idle"]

\* A recurring rule has a fire past whatever a run looks at; a one-off has one.
ASSUME FiresAssumption ==
    /\ Fires \in [Schedules -> SUBSET Instants]
    /\ Cyclic \subseteq Schedules
    /\ \A s \in Cyclic : Never - 1 \in Fires[s]
    /\ \A s \in Schedules \ Cyclic : \E f \in Instants : Fires[s] = {f}

\* A plan is retried in an hour; the lookahead is a poll interval and a few seconds.
ASSUME OptionsAssumption ==
    /\ {Window, Lookahead, Grace, PlanRetry, Backoff} \subseteq Nat
    /\ MaxPerJob \in Nat \ {0} /\ Lookahead < PlanRetry

ASSUME BoundsAssumption ==
    {MaxTime, MaxJobs, MaxProvisions, MaxAborts, MaxErrors, MaxReturns} \subseteq Nat

VARIABLES
    now,        \* the database clock
    jobs,       \* scheduled_job rows of the node, by name
    tasks,      \* scheduled_task rows
    txn,        \* the transaction each main has open
    since,      \* history: the clock each job was last (re)started from
    discarded,  \* history: what a misfire policy discarded, by name
    overtaken,  \* history: ids of the jobs a seed wrote over what it had not read
    spared,     \* history: runs claimed when a catch-up of their backlog was recorded
    inserted, provisions, aborts, errors, returns   \* counters behind the bounds

history == <<since, discarded, overtaken, spared>>
bounds == <<inserted, provisions, aborts, errors, returns>>
vars == <<now, jobs, tasks, txn, history, bounds>>

Stored(s) == jobs[s].id # 0
Locked(s) == \E m \in Mains : txn[m].phase # "idle" /\ s \in txn[m].locks
Due(row, at) == row.nextRunAt # Never /\ row.nextRunAt <= at + Lookahead

-----------------------------------------------------------------------------
(* The plan of one job: what a pass that reads the clock at `at` records.  *)

\* The walk starts at the job's clock, whatever put the clock there.
Remaining(s, from) ==
    IF from = Never THEN {}
    ELSE {from} \cup (IF s \in Cyclic THEN {f \in Fires[s] : f > from} ELSE {})

\* The cap takes the oldest MaxPerJob of them.
Capped(fires) == {f \in fires : Cardinality({g \in fires : g < f}) < MaxPerJob}

CoalesceKeepingOldest(behind, ahead, truncated) ==
    IF truncated /\ ahead = {} THEN {} ELSE {Min(behind)}

\* The instant that stands for the backlog; when the cap ends the walk within
\* the backlog, it is left to a later pass.
Coalesce(behind, ahead, truncated) ==
    IF truncated /\ ahead = {} THEN {} ELSE {Max(behind)}

\* Once one instant is past its grace the whole backlog goes.
ApplyMisfirePolicy(due, at, policy, truncated) ==
    LET behind == {f \in due : f <= at}
        ahead == due \ behind
        catchUp == IF policy = "coalesce" THEN Coalesce(behind, ahead, truncated) ELSE {}
    IN IF \E f \in behind : f + Grace <= at
       THEN [kept |-> catchUp \cup ahead, catchUp |-> catchUp]
       ELSE [kept |-> due, catchUp |-> {}]

NextFirePastWindow(fires, due, at) ==
    LET rest == {f \in fires : f > at + Window} IN IF rest = {} THEN Never ELSE Min(rest)

NextFire(fires, due, at) ==
    LET rest == fires \ due IN IF rest = {} THEN Never ELSE Min(rest)

\* What a pass that reads the clock at `at` does about the job: the occurrences
\* it inserts, the instant that supersedes older ones, what it discards, and the
\* job's next clock.  That a run is a catch-up is history: its row does not say.
Plan(s, row, at) ==
    LET fires == Remaining(s, row.nextRunAt)
        inWindow == {f \in fires : f <= at + Window}
        due == Capped(inWindow)
        misfire == ApplyMisfirePolicy(due, at, row.policy, due # inWindow)
        Occurrence(f) ==
            LET runAt == IF f \in misfire.catchUp THEN at ELSE f
            IN [id |-> row.id, at |-> f, runAt |-> runAt,
                missedAfter |-> Max({runAt, at}) + Grace, status |-> "pending",
                retried |-> FALSE, catchUp |-> f \in misfire.catchUp]
    IN [occurrences |-> {Occurrence(f) : f \in misfire.kept},
        superseded |-> {[id |-> row.id, before |-> c] : c \in misfire.catchUp},
        discards |-> {[at |-> f, policy |-> row.policy] : f \in due \ misfire.kept},
        next |-> NextFire(fires, due, at)]

-----------------------------------------------------------------------------
(* The statements of a pass on the task table. *)

InsertIgnoringDuplicates(ts, new) ==
    ts \cup {n \in new : ~\E t \in ts : t.id = n.id /\ t.at = n.at}

RetireNothing(ts, superseded) == ts

\* superseded pairs a job with the instant of its catch-up run.
Older(t, superseded) == \E c \in superseded : c.id = t.id /\ t.at < c.before

\* updateToMissed: only what is pending; what an executor has claimed is left to it.
UpdateToMissed(ts, superseded) ==
    {IF t.status = "pending" /\ Older(t, superseded)
     THEN [t EXCEPT !.status = "missed"] ELSE t : t \in ts}

\* The task table after the plans of one pass.
Recorded(ts, plans) ==
    UpdateToMissed(InsertIgnoringDuplicates(ts, UNION {p.occurrences : p \in plans}),
                   UNION {p.superseded : p \in plans})

Run(t) == [id |-> t.id, at |-> t.at]
Spared(ts, plans) ==
    {Run(t) : t \in {u \in ts : /\ u.status = "claimed"
                                /\ Older(u, UNION {p.superseded : p \in plans})}}

-----------------------------------------------------------------------------
(* Materialization passes. *)

Begin(m, t) == txn' = [txn EXCEPT ![m] = t]
Finish(m) == txn' = [txn EXCEPT ![m] = Idle]

ClaimableUnlocked(s) == Due(jobs[s], now)

\* FOR UPDATE SKIP LOCKED: the jobs another transaction holds are left to it.
Claimable(s) == Due(jobs[s], now) /\ ~Locked(s)

ClaimDueJobs(m) ==
    /\ txn[m] = Idle
    /\ \E s \in Schedules : Claimable(s)
    /\ Begin(m, [phase |-> "materializing", at |-> now, rows |-> jobs,
                 locks |-> {s \in Schedules : Claimable(s)}])
    /\ UNCHANGED <<now, jobs, tasks, history, bounds>>

\* The pass records, retires and advances, and commits.  The clock of a job
\* that cannot be planned (bad) is pushed out instead, recording nothing.
Materialize(m) ==
    /\ txn[m].phase = "materializing"
    /\ \E bad \in SUBSET txn[m].locks :
        LET at == txn[m].at
            good == txn[m].locks \ bad
            plan == [s \in good |-> Plan(s, txn[m].rows[s], at)]
        IN /\ errors + Cardinality(bad) <= MaxErrors
           /\ bad # {} => at + PlanRetry <= MaxTime   \* bound: the retry comes in time
           /\ errors' = errors + Cardinality(bad)
           /\ tasks' = Recorded(tasks, {plan[s] : s \in good})
           /\ jobs' = [s \in Schedules |->
                 IF s \in good THEN [jobs[s] EXCEPT !.nextRunAt = plan[s].next]
                 ELSE IF s \in bad THEN [jobs[s] EXCEPT !.nextRunAt = at + PlanRetry]
                 ELSE jobs[s]]
           /\ discarded' = [s \in Schedules |->
                 discarded[s] \cup IF s \in good THEN plan[s].discards ELSE {}]
           /\ since' = [s \in Schedules |-> IF s \in bad THEN at + PlanRetry ELSE since[s]]
           /\ spared' = spared \cup Spared(tasks, {plan[s] : s \in good})
    /\ Finish(m)
    /\ UNCHANGED <<now, overtaken, inserted, provisions, aborts, returns>>

\* A pass that sees its signal aborted, any statement that fails, or a crash:
\* the transaction rolls back.
Abort(m) ==
    /\ txn[m] # Idle /\ aborts < MaxAborts
    /\ aborts' = aborts + 1
    /\ Finish(m)
    /\ UNCHANGED <<now, jobs, tasks, history, inserted, provisions, errors, returns>>

-----------------------------------------------------------------------------
(* Provisioning: the node's jobs are made to match one desired rule. *)

\* The registrar computes the first run, then the transaction reads the jobs.
FirstRunAt(s) ==
    LET rest == {f \in Fires[s] : f > now} IN IF rest = {} THEN Never ELSE Min(rest)

FindExisting(m) ==
    /\ txn[m] = Idle /\ provisions < MaxProvisions
    /\ provisions' = provisions + 1
    /\ \E s \in Schedules, p \in Policies :
        Begin(m, [phase |-> "provisioning", want |-> s, policy |-> p,
                  first |-> FirstRunAt(s), rows |-> jobs, locks |-> {}])
    /\ UNCHANGED <<now, jobs, tasks, history, inserted, aborts, errors, returns>>

HoldsDefinition(t) ==
    (t.rows[t.want].nextRunAt # Never) = (t.first # Never)

\* Deletes by id: a row that was replaced since is not the one read.
Removed(t) == {s \in Schedules \ {t.want} : t.rows[s].id # 0 /\ jobs[s].id = t.rows[s].id}
IdsOf(S) == {jobs[s].id : s \in S}
WithoutTasksOf(S) == {t \in tasks : t.id \notin IdsOf(S)}
Clear(f, S, v) == [s \in Schedules |-> IF s \in S THEN v ELSE f[s]]

\* Writes row as the job s, drops the rows of the jobs gone, and seeds the first
\* window of s over the tasks left: a pass without the claim, at the time now.
SeedInitialOccurrences(s, row, gone, left) ==
    LET plan == Plan(s, row, now) IN
    /\ jobs' = [Clear(jobs, gone, NoJob) EXCEPT ![s] = [row EXCEPT !.nextRunAt = plan.next]]
    /\ tasks' = Recorded(left, {plan})
    /\ spared' = spared \cup Spared(left, {plan})
    /\ discarded' = [Clear(discarded, gone, {}) EXCEPT ![s] = plan.discards]
    /\ since' = [Clear(since, gone, Never) EXCEPT ![s] = row.nextRunAt]

\* No stored match when the jobs were read, and none since.
Insert(m) ==
    LET t == txn[m] IN
    /\ t.phase = "provisioning" /\ t.rows[t.want].id = 0
    /\ ~Stored(t.want) /\ inserted < MaxJobs
    /\ \A s \in Removed(t) : ~Locked(s)
    /\ inserted' = inserted + 1
    /\ SeedInitialOccurrences(t.want,
           [id |-> inserted + 1, nextRunAt |-> t.first, policy |-> t.policy],
           Removed(t), WithoutTasksOf(Removed(t)))
    /\ Finish(m)
    /\ UNCHANGED <<now, overtaken, provisions, aborts, errors, returns>>

\* Another main inserted the name meanwhile: the insert is ignored, and the row
\* is read back to seed a first window for it, without a lock on it.
InsertIgnored(m) ==
    LET t == txn[m] IN
    /\ t.phase = "provisioning" /\ t.rows[t.want].id = 0 /\ Stored(t.want)
    /\ \A s \in Removed(t) : ~Locked(s)
    /\ Begin(m, [phase |-> "seeding", want |-> t.want, at |-> now,
                 row |-> jobs[t.want], locks |-> Removed(t)])
    /\ UNCHANGED <<now, jobs, tasks, history, bounds>>

\* The seed commits what it planned from the row it read; the advance waits for
\* whoever holds the row.  A row deleted since fails the insert's foreign key.
SeedExisting(m) ==
    LET t == txn[m]
        gone == t.locks
        plan == Plan(t.want, t.row, t.at)
    IN
    /\ t.phase = "seeding" /\ ~Locked(t.want)
    /\ jobs[t.want].id = t.row.id
    /\ jobs' = [Clear(jobs, gone, NoJob) EXCEPT ![t.want].nextRunAt =
                    IF t.row.nextRunAt = Never THEN @ ELSE plan.next]
    /\ tasks' = Recorded(WithoutTasksOf(gone), {plan})
    /\ spared' = spared \cup Spared(WithoutTasksOf(gone), {plan})
    /\ discarded' = [Clear(discarded, gone, {}) EXCEPT ![t.want] = @ \cup plan.discards]
    /\ since' = Clear(since, gone, Never)
    /\ overtaken' = overtaken \cup (IF jobs[t.want] # t.row THEN {t.row.id} ELSE {})
    /\ Finish(m)
    /\ UNCHANGED <<now, bounds>>

SeedFails(m) ==
    /\ txn[m].phase = "seeding" /\ ~Locked(txn[m].want)
    /\ jobs[txn[m].want].id # txn[m].row.id
    /\ Finish(m)
    /\ UNCHANGED <<now, jobs, tasks, history, bounds>>

\* The match differs: its clock restarts and its pending tasks are withdrawn.
Redefine(m) ==
    LET t == txn[m]
        row == [jobs[t.want] EXCEPT !.nextRunAt = t.first, !.policy = t.policy]
    IN
    /\ t.phase = "provisioning" /\ t.rows[t.want].id # 0 /\ ~HoldsDefinition(t)
    /\ jobs[t.want].id = t.rows[t.want].id
    /\ \A s \in Removed(t) \cup {t.want} : ~Locked(s)
    /\ SeedInitialOccurrences(t.want, row, Removed(t),
           {x \in WithoutTasksOf(Removed(t)) : ~(x.id = row.id /\ x.status = "pending")})
    /\ Finish(m)
    /\ UNCHANGED <<now, overtaken, bounds>>

\* The match holds the definition: at most its policy changes, and with it the
\* deadline of what it has queued.
LeaveUnchanged(m) ==
    LET t == txn[m]
        gone == Removed(t)
        stale == t.rows[t.want].policy # t.policy
        mine(x) == stale /\ x.id = t.rows[t.want].id /\ x.status = "pending"
    IN
    /\ t.phase = "provisioning" /\ t.rows[t.want].id # 0 /\ HoldsDefinition(t)
    /\ jobs[t.want].id = t.rows[t.want].id
    /\ \A s \in gone : ~Locked(s)
    /\ stale => ~Locked(t.want)
    /\ jobs' = [Clear(jobs, gone, NoJob) EXCEPT ![t.want].policy = IF stale THEN t.policy ELSE @]
    /\ tasks' = {IF mine(x) THEN [x EXCEPT !.missedAfter = Max({x.runAt, now}) + Grace] ELSE x :
                    x \in WithoutTasksOf(gone)}
    /\ since' = Clear(since, gone, Never)
    /\ discarded' = Clear(discarded, gone, {})
    /\ Finish(m)
    /\ UNCHANGED <<now, overtaken, spared, bounds>>

\* The match was deleted meanwhile: its update reaches no row.
MatchIsGone(m) ==
    LET t == txn[m]
        gone == Removed(t)
    IN
    /\ t.phase = "provisioning" /\ t.rows[t.want].id # 0
    /\ jobs[t.want].id # t.rows[t.want].id
    /\ \A s \in gone : ~Locked(s)
    /\ jobs' = Clear(jobs, gone, NoJob)
    /\ tasks' = WithoutTasksOf(gone)
    /\ since' = Clear(since, gone, Never)
    /\ discarded' = Clear(discarded, gone, {})
    /\ Finish(m)
    /\ UNCHANGED <<now, overtaken, spared, bounds>>

\* The node is deactivated: its jobs go and their tasks cascade.
Deprovision ==
    /\ \E s \in Schedules : Stored(s)
    /\ \A s \in Schedules : ~Locked(s)
    /\ jobs' = [s \in Schedules |-> NoJob]
    /\ tasks' = WithoutTasksOf({s \in Schedules : Stored(s)})
    /\ since' = [s \in Schedules |-> Never]
    /\ discarded' = [s \in Schedules |-> {}]
    /\ UNCHANGED <<now, txn, overtaken, spared, bounds>>

-----------------------------------------------------------------------------
(* The rest of the scheduler, as the task table sees it, and time. *)

\* An executor claims a task that is due and, unless it was tried before, not past
\* its deadline.  It is claimed from here on, running or over.
ClaimTask ==
    /\ \E t \in tasks :
        /\ t.status = "pending" /\ t.runAt <= now
        /\ now < t.missedAfter \/ t.retried
        /\ tasks' = (tasks \ {t}) \cup {[t EXCEPT !.status = "claimed"]}
    /\ UNCHANGED <<now, jobs, txn, history, bounds>>

\* releaseClaim: an executor that has no handler for a task gives it back as it was.
ReleaseClaim ==
    /\ returns < MaxReturns
    /\ returns' = returns + 1
    /\ \E t \in tasks :
        /\ t.status = "claimed"
        /\ tasks' = (tasks \ {t}) \cup {[t EXCEPT !.status = "pending"]}
    /\ UNCHANGED <<now, jobs, txn, history, inserted, provisions, aborts, errors>>

\* rescheduleTask and reclaimExpired: a run that failed or lost its lease is put off,
\* to be tried again whatever its deadline.
Retry ==
    /\ returns < MaxReturns
    /\ returns' = returns + 1
    /\ \E t \in tasks :
        /\ t.status = "claimed"
        /\ tasks' = (tasks \ {t}) \cup
               {[t EXCEPT !.status = "pending", !.runAt = now + Backoff, !.retried = TRUE]}
    /\ UNCHANGED <<now, jobs, txn, history, inserted, provisions, aborts, errors>>

RetireMissedPending ==
    /\ \E t \in tasks :
        /\ t.status = "pending" /\ t.missedAfter <= now /\ ~t.retried
        /\ tasks' = (tasks \ {t}) \cup {[t EXCEPT !.status = "missed"]}
    /\ UNCHANGED <<now, jobs, txn, history, bounds>>

Tick ==
    /\ now < MaxTime
    /\ now' = now + 1
    /\ UNCHANGED <<jobs, tasks, txn, history, bounds>>

-----------------------------------------------------------------------------

Init ==
    /\ now = 0
    /\ jobs = [s \in Schedules |-> NoJob]
    /\ tasks = {}
    /\ txn = [m \in Mains |-> Idle]
    /\ since = [s \in Schedules |-> Never]
    /\ discarded = [s \in Schedules |-> {}]
    /\ overtaken = {} /\ spared = {}
    /\ inserted = 0 /\ provisions = 0 /\ aborts = 0 /\ errors = 0 /\ returns = 0

CommitProvision(m) ==
    \/ Insert(m) \/ InsertIgnored(m) \/ Redefine(m) \/ LeaveUnchanged(m) \/ MatchIsGone(m)
    \/ SeedExisting(m) \/ SeedFails(m)

MainNext(m) ==
    ClaimDueJobs(m) \/ Materialize(m) \/ Abort(m) \/ FindExisting(m) \/ CommitProvision(m)

Next ==
    \/ \E m \in Mains : MainNext(m)
    \/ Deprovision \/ ClaimTask \/ ReleaseClaim \/ Retry \/ RetireMissedPending \/ Tick

Spec == Init /\ [][Next]_vars

-----------------------------------------------------------------------------
(* Properties. *)

Rows == [id : 0..MaxJobs, nextRunAt : 0..Never, policy : Policies]
Task == [id : 1..MaxJobs, at : Instants, runAt : Nat, missedAfter : Nat,
         status : {"pending", "claimed", "missed"}, retried : BOOLEAN, catchUp : BOOLEAN]
Materializing == [phase : {"materializing"}, at : 0..MaxTime, rows : [Schedules -> Rows],
                  locks : SUBSET Schedules]
Provisioning == [phase : {"provisioning"}, want : Schedules, policy : Policies,
                 first : 0..Never, rows : [Schedules -> Rows], locks : {{}}]
Seeding == [phase : {"seeding"}, want : Schedules, at : 0..MaxTime, row : Rows,
            locks : SUBSET Schedules]

\* The tables hold what their columns allow, and a transaction what it read.
TypeOK ==
    /\ now \in 0..MaxTime
    /\ jobs \in [Schedules -> Rows]
    /\ tasks \subseteq Task
    /\ txn \in [Mains -> {Idle} \cup Materializing \cup Provisioning \cup Seeding]
    /\ since \in [Schedules -> 0..Never]
    /\ discarded \in [Schedules -> SUBSET [at : Instants, policy : Policies]]
    /\ overtaken \subseteq 1..MaxJobs /\ spared \subseteq [id : 1..MaxJobs, at : Instants]
    /\ inserted \in 0..MaxJobs

\* No fire is lost, skipped or recorded twice: an instant the clock of a job has
\* moved past since it was (re)started has its one row, or a misfire policy discarded
\* it (materialize.ts:78-81, plan.ts:77-85), whatever overlaps, aborts or re-registers.
Accounted ==
    /\ \A t, u \in tasks : t.id = u.id /\ t.at = u.at => t = u
    /\ \A s \in Schedules : Stored(s) =>
        \A f \in Fires[s] : since[s] <= f /\ f < jobs[s].nextRunAt =>
            \/ \E t \in tasks : t.id = jobs[s].id /\ t.at = f
            \/ \E d \in discarded[s] : d.at = f

\* A catch-up run is the only run of its backlog: nothing older of its job is
\* pending beside it (misfire.ts:17-19, scheduled-task.repository.ts:216-223), now or
\* after a retry, but what an executor had claimed when the catch-up was recorded; and
\* unless the seed of an activation whose insert was ignored wrote over a pass.
CatchUpStandsAlone ==
    \A t, u \in tasks :
        /\ t.id = u.id /\ t.id \notin overtaken
        /\ t.catchUp /\ u.at < t.at
        => u.status # "pending" \/ Run(u) \in spared

\* Passes on a job are serialised by its row: its clock never moves back
\* (scheduled-job.repository.ts:81-83), except when it is redefined or overtaken.
ClockMovesOn ==
    [][\A s \in Schedules : Stored(s) /\ jobs'[s].id = jobs[s].id =>
          \/ jobs[s].nextRunAt <= jobs'[s].nextRunAt
          \/ jobs[s].id \in overtaken'
          \/ \E m \in Mains : Redefine(m)]_vars

Answered(s, d) ==
    \/ \E t \in tasks : t.id = jobs[s].id /\ t.at >= d.at
    \/ \E x \in discarded[s] : x.policy = "skip" /\ x.at > d.at

\* coalesce never forgets a backlog: what it discards has a newer run of the job recorded
\* in its place (constants/src/scheduler.ts:53, misfire.ts:21-22), or, where the cap cut
\* the backlog, the clock of the job still stands within a window or a retry of now, so
\* that the next pass goes on with it.  Passes that the cap always cuts do so for ever:
\* that is what durable-scheduler.ts:143-161 warns of.
BacklogGoesOn ==
    \A s \in Schedules : \A d \in discarded[s] :
        Stored(s) /\ jobs[s].id \notin overtaken /\ d.policy = "coalesce"
        => \/ Answered(s, d)
           \/ jobs[s].nextRunAt <= now + Max({Window, PlanRetry})

\* Every occurrence of a recurring rule is one of its fires (next-run.ts:83-86:
\* the walk begins with "a real fire, not an arbitrary lower bound").
OnSchedule ==
    \A t \in tasks, s \in Cyclic : jobs[s].id = t.id => t.at \in Fires[s]
=============================================================================
