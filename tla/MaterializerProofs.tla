------------------------- MODULE MaterializerProofs -------------------------
(***************************************************************************)
(* The task table under overlapping passes, seeds and re-registrations,    *)
(* for any schedules, mains, windows and caps: every fire the clock of a   *)
(* job has passed is recorded once or discarded by its policy, a catch-up  *)
(* run is the only run of its backlog, and clocks move on.                 *)
(***************************************************************************)
EXTENDS Materializer, FiniteSetTheorems, WellFoundedInduction, TLAPS

(* The inductive invariant. *)

\* Ids are given once, and a task has its job.
RowsConsistent ==
  /\ \A s \in Schedules : ~Stored(s) => jobs[s] = NoJob
  /\ \A s \in Schedules : jobs[s].id <= inserted
  /\ \A s, x \in Schedules : Stored(s) /\ jobs[x].id = jobs[s].id => x = s
  /\ \A t \in tasks : \E s \in Schedules : jobs[s].id = t.id
  /\ \A m \in Mains, s \in Schedules :
       txn[m].phase \in {"materializing", "provisioning"} => txn[m].rows[s].id <= inserted
  /\ \A m \in Mains :
       txn[m].phase = "seeding" => txn[m].row.id <= inserted /\ txn[m].row.id # 0

\* What a transaction locks is its own, and a pass plans from the rows as they are.
LocksHeld ==
  /\ \A m, o \in Mains : m # o /\ txn[m] # Idle /\ txn[o] # Idle
        => txn[m].locks \cap txn[o].locks = {}
  /\ \A m \in Mains : txn[m].phase \in {"materializing", "seeding"} => txn[m].at <= now
  /\ \A m \in Mains : txn[m].phase = "materializing" =>
       \A s \in txn[m].locks :
         /\ txn[m].rows[s] = jobs[s] /\ Stored(s) /\ Due(jobs[s], txn[m].at)
         /\ s \in Cyclic => since[s] <= txn[m].at + PlanRetry
  /\ \A m \in Mains : txn[m].phase = "seeding" => \A s \in txn[m].locks : Stored(s)

\* A recurring job always has a next fire.
CyclesGoOn ==
  /\ \A s \in Cyclic : Stored(s) => jobs[s].nextRunAt # Never
  /\ \A m \in Mains :
       /\ txn[m].phase = "provisioning" =>
            /\ \A s \in Cyclic : txn[m].rows[s].id # 0 => txn[m].rows[s].nextRunAt # Never
            /\ txn[m].want \in Cyclic => txn[m].first # Never
       /\ txn[m].phase = "seeding" /\ txn[m].want \in Cyclic => txn[m].row.nextRunAt # Never

\* The clock of a one-off stays at its fire or past it until the fire is within the
\* window of a pass.
Waits(s, at) == \A f \in Fires[s] : f <= at
OneOffsWait ==
  \A s \in Schedules \ Cyclic :
    /\ Waits(s, jobs[s].nextRunAt)
    /\ Stored(s) /\ jobs[s].nextRunAt = Never => Waits(s, now + Window)
    /\ \A m \in Mains :
         /\ txn[m].phase = "provisioning" =>
              /\ txn[m].rows[s].id # 0 /\ txn[m].rows[s].nextRunAt = Never
                   => Waits(s, now + Window)
              /\ txn[m].want = s /\ txn[m].first # Never => \A f \in Fires[s] : f = txn[m].first
              /\ txn[m].want = s /\ txn[m].first = Never => Waits(s, now)
         /\ txn[m].phase = "seeding" /\ txn[m].want = s => Waits(s, txn[m].row.nextRunAt)

\* A recurring job is accounted for from its clock or from a retry of its plan on.
SinceBounded ==
  /\ \A s \in Cyclic : Stored(s) => since[s] <= jobs[s].nextRunAt \/ since[s] <= now + PlanRetry
  /\ \A m \in Mains : txn[m].phase = "seeding" /\ txn[m].want \in Cyclic
       /\ jobs[txn[m].want].id = txn[m].row.id =>
         \/ since[txn[m].want] <= txn[m].row.nextRunAt
         \/ since[txn[m].want] <= now + PlanRetry

Told(s, f) ==
  \/ \E t \in tasks : t.id = jobs[s].id /\ t.at = f
  \/ \E d \in discarded[s] : d.at = f

\* So is the row an open seed plans from, when it advances the clock.
SeedsAccounted ==
  \A m \in Mains :
    txn[m].phase = "seeding" /\ jobs[txn[m].want].id = txn[m].row.id
    /\ txn[m].row.nextRunAt # Never =>
      \A f \in Fires[txn[m].want] :
        since[txn[m].want] <= f /\ f < txn[m].row.nextRunAt => Told(txn[m].want, f)

CatchUp(t) == t.catchUp

\* Catch-up runs are behind the clock of their job, and of a redefinition of it.
CatchUpsBehind ==
  /\ \A t \in tasks : CatchUp(t) => t.at <= now
  /\ \A s \in Schedules, t \in tasks :
       t.id = jobs[s].id /\ CatchUp(t) /\ t.id \notin overtaken => t.at < jobs[s].nextRunAt
  /\ \A m \in Mains :
       txn[m].phase = "provisioning" /\ txn[m].rows[txn[m].want].id # 0
       /\ txn[m].rows[txn[m].want].id = jobs[txn[m].want].id
       /\ jobs[txn[m].want].id \notin overtaken
       /\ txn[m].rows[txn[m].want].nextRunAt = Never /\ txn[m].first # Never
       => /\ jobs[txn[m].want].nextRunAt = Never
          /\ \A t \in tasks : t.id = jobs[txn[m].want].id /\ CatchUp(t) => t.at <= txn[m].first

\* What was discarded is behind the clock of its job.
DiscardsBehind ==
  \A s \in Schedules : Stored(s) /\ jobs[s].id \notin overtaken =>
    \A d \in discarded[s] : d.at < jobs[s].nextRunAt

\* Beside a catch-up run, what is older of its job is missed for good or was spared.
Alone(ts, over, sp) ==
  \A t, u \in ts : t.id = u.id /\ t.id \notin over /\ CatchUp(t) /\ u.at < t.at
    => u.status = "missed" \/ Run(u) \in sp
BacklogsRetired == Alone(tasks, overtaken, spared)

IInv ==
  /\ TypeOK /\ RowsConsistent /\ LocksHeld /\ CyclesGoOn /\ OneOffsWait /\ SinceBounded
  /\ Accounted /\ SeedsAccounted /\ BacklogsRetired /\ CatchUpsBehind
  /\ DiscardsBehind /\ BacklogGoesOn

-----------------------------------------------------------------------------
(* Instants. *)

\* The options and bounds are numbers, and Never is past every instant.
LEMMA Numbers ==
  /\ Window \in Nat /\ Lookahead \in Nat /\ Grace \in Nat /\ PlanRetry \in Nat /\ MaxTime \in Nat
  /\ MaxPerJob \in Nat \ {0} /\ Lookahead < PlanRetry /\ MaxJobs \in Nat
  /\ Never \in Nat /\ Never = MaxTime + Window + PlanRetry + 2
  /\ Instants = 0..(Never - 1) /\ Instants \subseteq Nat /\ 0..MaxTime \subseteq Instants
BY OptionsAssumption, BoundsAssumption DEF Never, Instants

\* An instant is a number below Never.
LEMMA InstantsAre ==
  /\ Never \in Nat /\ Never - 1 \in Nat /\ Instants = 0..(Never - 1)
  /\ \A f \in Instants : f \in Nat /\ f < Never /\ f # Never /\ f <= Never - 1
  /\ \A f \in 0..Never : f # Never => f \in Instants
<1>1. Never \in Nat /\ Never > 0
  BY Numbers
<1> QED BY <1>1, Numbers

\* A set of numbers has a least member.
LEMMA MinOf ==
  ASSUME NEW S, S \subseteq Nat, S # {}
  PROVE  Min(S) \in S /\ \A y \in S : Min(S) <= y
<1> DEFINE less == OpToRel(<, Nat)
<1>1. IsWellFoundedOn(less, Nat) /\ less = {p \in Nat \X Nat : p[1] < p[2]}
  BY NatLessThanWellFounded, Zenon DEF OpToRel
<1> HIDE DEF less
<1>2. PICK x \in S : \A y \in S : ~ (<<y, x>> \in less)
  BY <1>1, WFMin
<1>3. ASSUME NEW y \in S PROVE x <= y
  <2>1. x \in Nat /\ y \in Nat /\ <<y, x>> \notin less
    BY <1>2
  <2>2. ~(y < x)
    BY <1>1, <2>1
  <2> QED BY <2>1, <2>2
<1> QED BY <1>2, <1>3 DEF Min

\* A bounded one has a greatest.
LEMMA MaxOf ==
  ASSUME NEW k \in Nat, NEW S, S \subseteq 0..k, S # {}
  PROVE  Max(S) \in S /\ \A y \in S : Max(S) >= y
<1> DEFINE above == {b \in 0..k : \A y \in S : y <= b}
<1>1. k \in above /\ above \subseteq Nat
  OBVIOUS
<1>2. PICK b \in above : \A c \in above : b <= c
  BY <1>1, MinOf
<1>3. b \in S
  <2>1. SUFFICES ASSUME b \notin S PROVE FALSE
    OBVIOUS
  <2>2. \A y \in S : y \in Nat /\ y <= b /\ y # b
    BY <1>2, <2>1
  <2>3. b \in Nat /\ b > 0 /\ \A y \in S : y <= b - 1
    <3>1. b \in Nat /\ b <= k
      BY <1>2
    <3>2. PICK y \in S : TRUE
      BY S # {}
    <3>3. y \in Nat /\ y <= b /\ y # b
      BY <2>2
    <3> QED BY <2>2, <3>1, <3>3
  <2>4. b - 1 \in above
    BY <1>1, <1>2, <2>3
  <2> QED BY <1>2, <2>3, <2>4
<1> QED BY <1>2, <1>3 DEF Max

\* The later of two instants.
LEMMA MaxOfTwo ==
  ASSUME NEW a \in Nat, NEW b \in Nat
  PROVE  Max({a, b}) \in Nat
<1>1. \E x \in {a, b} : \A y \in {a, b} : x >= y
  OBVIOUS
<1> QED BY <1>1 DEF Max

\* How far past now the clock of a job stands after a pass that the cap cut or put off.
Reach == Max({Window, PlanRetry})

\* It is the longer of the two.
LEMMA ReachIs == Reach \in Nat /\ Window <= Reach /\ PlanRetry <= Reach
<1>1. /\ Window + PlanRetry \in Nat /\ {Window, PlanRetry} # {}
      /\ {Window, PlanRetry} \subseteq 0..(Window + PlanRetry)
  BY Numbers
<1>2. Reach \in {Window, PlanRetry} /\ \A y \in {Window, PlanRetry} : Reach >= y
  BY <1>1, MaxOf, Zenon DEF Reach
<1> QED BY <1>2, Numbers

-----------------------------------------------------------------------------
(* The plan of a job. *)

\* The fires a walk reaches are instants, from the job's clock on.
LEMMA RemainingFires ==
  ASSUME NEW s \in Schedules, NEW from \in Instants
  PROVE  /\ Remaining(s, from) \subseteq Instants /\ from \in Remaining(s, from)
         /\ \A f \in Remaining(s, from) : f >= from
         /\ s \notin Cyclic => Remaining(s, from) = {from}
         /\ s \in Cyclic => /\ \A f \in Fires[s] : f >= from => f \in Remaining(s, from)
                            /\ Never - 1 \in Remaining(s, from)
<1>1. from # Never /\ from \in Nat /\ from <= Never - 1 /\ Fires[s] \subseteq Instants
  BY InstantsAre, FiresAssumption
<1>2. \A f \in Instants : f >= from => f > from \/ f = from
  BY InstantsAre
<1>3. Remaining(s, from) = {from} \cup (IF s \in Cyclic THEN {f \in Fires[s] : f > from} ELSE {})
  BY <1>1 DEF Remaining
<1>4. ASSUME NEW f \in Remaining(s, from) PROVE f >= from
  <2>1. f = from \/ (f \in Instants /\ f > from)
    BY <1>1, <1>3
  <2> QED BY <1>1, <2>1, InstantsAre
<1>5. ASSUME s \in Cyclic
      PROVE  /\ \A f \in Fires[s] : f >= from => f \in Remaining(s, from)
             /\ Never - 1 \in Remaining(s, from)
  <2>1. Never - 1 \in Fires[s] /\ Never - 1 \in Nat
    BY <1>5, FiresAssumption, InstantsAre
  <2>2. \A f \in Fires[s] : f >= from => f \in Remaining(s, from)
    BY <1>1, <1>2, <1>3, <1>5
  <2> QED BY <1>1, <2>1, <2>2
<1> QED BY <1>1, <1>3, <1>4, <1>5

\* The cap takes the oldest: what it leaves is later than all it takes.
LEMMA CappedIsOldest ==
  ASSUME NEW fires \in SUBSET Instants, NEW f \in Capped(fires), NEW g \in fires \ Capped(fires)
  PROVE  f < g
<1>1. f \in Nat /\ g \in Nat /\ f # g
  BY Numbers DEF Capped
<1>2. SUFFICES ASSUME g < f PROVE FALSE
  BY <1>1
<1> DEFINE before(x) == {h \in fires : h < x}
<1>3. IsFiniteSet(before(f))
  <2>1. IsFiniteSet(Instants)
    BY FS_Interval, InstantsAre
  <2> QED BY <2>1, FS_Subset
<1>4. before(g) \subseteq before(f)
  <2>1. \A h \in fires : h < g => h < f
    BY <1>1, <1>2, InstantsAre
  <2> QED BY <2>1
<1>5. Cardinality(before(g)) <= Cardinality(before(f)) /\ Cardinality(before(f)) \in Nat
      /\ Cardinality(before(g)) \in Nat
  BY <1>3, <1>4, FS_Subset, FS_CardinalityType
<1>6. Cardinality(before(f)) < MaxPerJob /\ ~(Cardinality(before(g)) < MaxPerJob)
  BY DEF Capped
<1> HIDE DEF before
<1> QED BY <1>5, <1>6, Numbers

\* The fires a plan takes, and the ones it goes through.
Taken(fires, at) == Capped({f \in fires : f <= at + Window})
From(s, from, f) == IF s \in Cyclic THEN from <= f ELSE from = f

\* The next clock is the first fire left: no earlier than the job's clock, past what
\* the plan takes, and no fire in between is left.
LEMMA NextFireIsNext ==
  ASSUME NEW fires \in SUBSET Instants, NEW at \in Nat,
         NEW due, due = Taken(fires, at),
         NEW next, next = NextFire(fires, due, at)
  PROVE  /\ next \in 0..Never /\ (next # Never => next \in fires \ due)
         /\ \A f \in due : f < next
         /\ \A f \in fires : f < next => f \in due
         /\ next = Never => fires = due
         /\ due \subseteq fires
<1> DEFINE rest == fires \ due
<1>1. due \subseteq {f \in fires : f <= at + Window}
  BY DEF Capped, Taken
<1>2. CASE rest = {}
  <2>1. next = Never
    BY <1>2 DEF NextFire
  <2>2. Never \in 0..Never /\ \A f \in fires : f < Never
    BY InstantsAre
  <2>3. fires = due
    BY <1>1, <1>2
  <2> QED BY <2>1, <2>2, <2>3
<1>3. CASE rest # {}
  <2>1. next = Min(rest) /\ rest \subseteq Nat
    BY <1>3, Numbers DEF NextFire
  <2>2. next \in rest /\ \A g \in rest : next <= g
    BY <1>3, <2>1, MinOf
  <2>3. next # Never /\ next \in 0..Never /\ next \in Nat
    BY <2>2, Numbers
  <2>4. ASSUME NEW f \in due PROVE f < next
    <3>1. f \in Nat /\ f <= at + Window
      BY <1>1, Numbers
    <3>2. CASE next <= at + Window
      BY <2>2, <3>2, CappedIsOldest DEF Taken
    <3>3. CASE ~(next <= at + Window)
      BY <2>3, <3>1, <3>3, Numbers
    <3> QED BY <3>2, <3>3
  <2>5. ASSUME NEW f \in fires, f < next PROVE f \in due
    BY <2>2, <2>3, <2>5, InstantsAre
  <2> QED BY <1>1, <2>2, <2>3, <2>4, <2>5
<1> QED BY <1>2, <1>3

\* The cap takes at least the first of what the window holds.
LEMMA CappedTakesFirst ==
  ASSUME NEW fires \in SUBSET Instants, NEW f \in fires, \A g \in fires : f <= g
  PROVE  f \in Capped(fires)
<1>1. {g \in fires : g < f} = {}
  <2>1. \A g \in fires : g \in Nat /\ f \in Nat /\ f <= g
    BY InstantsAre
  <2> QED BY <2>1
<1> QED BY <1>1, FS_EmptySet, Numbers DEF Capped

\* A misfire policy keeps fires that are due, and catches up with one that is past.
LEMMA MisfireKeeps ==
  ASSUME NEW due \in SUBSET Instants, NEW at \in Nat, NEW policy, NEW truncated,
         NEW misfire, misfire = ApplyMisfirePolicy(due, at, policy, truncated)
  PROVE  /\ misfire.kept \subseteq due /\ misfire.catchUp \subseteq due
         /\ \A c \in misfire.catchUp : c <= at
<1> DEFINE behind == {f \in due : f <= at}
           ahead == due \ behind
           catchUp == IF policy = "coalesce" THEN Coalesce(behind, ahead, truncated) ELSE {}
<1>1. CASE \E f \in behind : f + Grace <= at
  <2>1. misfire = [kept |-> catchUp \cup ahead, catchUp |-> catchUp]
    BY <1>1 DEF ApplyMisfirePolicy
  <2>2. Max(behind) \in behind
    <3>1. Never - 1 \in Nat /\ behind \subseteq 0..(Never - 1)
      BY InstantsAre
    <3>2. behind # {}
      BY <1>1
    <3> QED BY <3>1, <3>2, MaxOf
  <2>3. catchUp \subseteq behind
    BY <2>2 DEF Coalesce
  <2> QED BY <2>1, <2>3
<1>2. CASE ~\E f \in behind : f + Grace <= at
  <2>1. misfire = [kept |-> due, catchUp |-> {}]
    BY <1>2 DEF ApplyMisfirePolicy
  <2> QED BY <2>1
<1> QED BY <1>1, <1>2

\* What a plan holds, by the parts the proofs use.
Planned(p, s, row, at) ==
  /\ p.next \in 0..Never /\ row.nextRunAt <= p.next
  /\ \A o \in p.occurrences :
       /\ o \in [id : {row.id}, at : Instants, runAt : Instants, missedAfter : Nat,
                 status : {"pending"}, retried : {FALSE}, catchUp : BOOLEAN]
       /\ row.nextRunAt <= o.at /\ o.at < p.next
       /\ CatchUp(o) => o.at <= at /\ [id |-> row.id, before |-> o.at] \in p.superseded
       /\ s \notin Cyclic => o.at = row.nextRunAt
  /\ \A o, q \in p.occurrences : o.at = q.at => o = q
  /\ p.discards \subseteq [at : Instants, policy : Policies]
  /\ \A f \in Fires[s] :
       f < p.next /\ From(s, row.nextRunAt, f) =>
         \/ \E o \in p.occurrences : o.at = f
         \/ \E d \in p.discards : d.at = f
  /\ s \in Cyclic /\ row.nextRunAt # Never => p.next # Never
  /\ s \notin Cyclic => p.next \in {row.nextRunAt, Never}
  /\ s \notin Cyclic /\ row.nextRunAt # Never =>
       (p.next = Never <=> row.nextRunAt <= at + Window)

\* The plan of a job with a next fire.
LEMMA PlanFromFire ==
  ASSUME NEW s \in Schedules, NEW row \in Rows, NEW at \in 0..MaxTime,
         row.nextRunAt # Never
  PROVE  Planned(Plan(s, row, at), s, row, at)
<1> DEFINE from == row.nextRunAt
           fires == Remaining(s, from)
           inWindow == {f \in fires : f <= at + Window}
           due == Capped(inWindow)
           misfire == ApplyMisfirePolicy(due, at, row.policy, due # inWindow)
           RunAt(f) == IF f \in misfire.catchUp THEN at ELSE f
           Occurrence(f) == [id |-> row.id, at |-> f, runAt |-> RunAt(f),
                             missedAfter |-> Max({RunAt(f), at}) + Grace, status |-> "pending",
                             retried |-> FALSE, catchUp |-> f \in misfire.catchUp]
           p == Plan(s, row, at)
           next == NextFire(fires, due, at)
<1>1. p = [occurrences |-> {Occurrence(f) : f \in misfire.kept},
           superseded |-> {[id |-> row.id, before |-> c] : c \in misfire.catchUp},
           discards |-> {[at |-> f, policy |-> row.policy] : f \in due \ misfire.kept},
           next |-> next]
  BY DEF Plan
<1>2. /\ from \in Instants /\ row.policy \in Policies /\ at \in Nat /\ at \in Instants
      /\ at <= MaxTime
  BY Numbers, InstantsAre DEF Rows
<1>3. /\ fires \subseteq Instants /\ from \in fires /\ (\A f \in fires : f >= from)
      /\ s \notin Cyclic => fires = {from}
      /\ s \in Cyclic => /\ \A f \in Fires[s] : f >= from => f \in fires
                         /\ Never - 1 \in fires
  BY <1>2, RemainingFires
<1>4. /\ next \in 0..Never /\ (next # Never => next \in fires \ due)
      /\ \A f \in due : f < next
      /\ \A f \in fires : f < next => f \in due
      /\ next = Never => fires = due
      /\ due \subseteq fires
  <2>1. due = Taken(fires, at) /\ next = NextFire(fires, due, at)
    BY DEF Taken
  <2>2. fires \in SUBSET Instants /\ at \in Nat
    BY <1>2, <1>3
  <2> HIDE DEF fires, inWindow, due, next
  <2> QED BY <2>1, <2>2, NextFireIsNext
<1>5. /\ misfire.kept \subseteq due /\ misfire.catchUp \subseteq due
      /\ \A c \in misfire.catchUp : c <= at
  <2> HIDE DEF fires, inWindow
  <2>1. due \in SUBSET Instants
    BY <1>3, <1>4
  <2> HIDE DEF due
  <2> QED BY <1>2, <2>1, MisfireKeeps
<1>6. \A f \in due : f <= at + Window
  BY DEF Capped
<1> HIDE DEF fires, inWindow, due, misfire, next, p
<1>7. p.next \in 0..Never /\ from <= p.next
  BY <1>1, <1>2, <1>3, <1>4, InstantsAre
<1>8. ASSUME NEW f \in misfire.kept
      PROVE  /\ Occurrence(f) \in [id : {row.id}, at : Instants, runAt : Instants,
                                   missedAfter : Nat, status : {"pending"},
                                   retried : {FALSE}, catchUp : BOOLEAN]
             /\ from <= f /\ f < p.next
             /\ CatchUp(Occurrence(f)) =>
                  f <= at /\ [id |-> row.id, before |-> f] \in p.superseded
             /\ s \notin Cyclic => f = from
  <2>1. f \in due /\ f \in fires /\ f \in Instants
    BY <1>3, <1>4, <1>5
  <2>2. RunAt(f) \in Instants /\ RunAt(f) \in Nat
    BY <1>2, <2>1, InstantsAre
  <2>3. Max({RunAt(f), at}) + Grace \in Nat
    BY <1>2, <2>2, MaxOfTwo, Numbers
  <2> DEFINE deadline == Max({RunAt(f), at}) + Grace
  <2>4. Occurrence(f) \in [id : {row.id}, at : Instants, runAt : Instants,
                           missedAfter : Nat, status : {"pending"},
                           retried : {FALSE}, catchUp : BOOLEAN]
    <3> HIDE DEF deadline, RunAt
    <3> QED BY <2>1, <2>2, <2>3 DEF deadline
  <2>5. from <= f /\ f < p.next
    BY <1>1, <1>2, <1>3, <1>4, <2>1, InstantsAre
  <2>6. ASSUME CatchUp(Occurrence(f))
        PROVE  f <= at /\ [id |-> row.id, before |-> f] \in p.superseded
    <3>1. f \in misfire.catchUp
      BY <2>6 DEF CatchUp
    <3> QED BY <1>1, <1>5, <3>1
  <2>7. s \notin Cyclic => f = from
    BY <1>3, <2>1
  <2> QED BY <2>4, <2>5, <2>6, <2>7
<1>9. \A f \in misfire.kept : Occurrence(f).at = f
  OBVIOUS
<1>10. p.occurrences = {Occurrence(f) : f \in misfire.kept}
  <2> HIDE DEF Occurrence
  <2> QED BY <1>1
<1>11. p.discards \subseteq [at : Instants, policy : Policies]
  BY <1>1, <1>2, <1>3, <1>4
<1>12. ASSUME NEW f \in Fires[s], f < p.next,
              From(s, from, f)
       PROVE  \/ \E o \in p.occurrences : o.at = f
              \/ \E d \in p.discards : d.at = f
  <2>1. f \in fires
    <3>1. f \in Instants
      BY FiresAssumption
    <3> QED BY <1>2, <1>3, <1>12, <3>1, InstantsAre DEF From
  <2>2. f \in due
    BY <1>1, <1>4, <1>12, <2>1
  <2>3. CASE f \in misfire.kept
    <3> HIDE DEF Occurrence
    <3> QED BY <1>9, <1>10, <2>3
  <2>4. CASE f \notin misfire.kept
    <3>1. [at |-> f, policy |-> row.policy] \in p.discards
      BY <1>1, <2>2, <2>4
    <3> QED BY <3>1
  <2> QED BY <2>3, <2>4
<1>13. s \in Cyclic => p.next # Never
  <2>1. SUFFICES ASSUME s \in Cyclic, p.next = Never PROVE FALSE
    OBVIOUS
  <2>2. Never - 1 \in due
    BY <1>1, <1>3, <1>4, <2>1
  <2>3. Never - 1 <= at + Window
    BY <1>6, <2>2
  <2> QED BY <1>2, <2>3, Numbers
<1>14. s \notin Cyclic => (p.next = Never <=> from <= at + Window)
  <2>1. SUFFICES ASSUME s \notin Cyclic PROVE p.next = Never <=> from <= at + Window
    OBVIOUS
  <2>2. p.next = Never => from <= at + Window
    BY <1>1, <1>3, <1>4, <1>6, <2>1
  <2>3. ASSUME from <= at + Window PROVE p.next = Never
    <3>1. inWindow = {from} /\ from <= from
      BY <1>2, <1>3, <2>1, <2>3, InstantsAre DEF inWindow
    <3>2. from \in due
      BY <1>2, <3>1, CappedTakesFirst DEF due
    <3> QED BY <1>1, <1>3, <1>4, <2>1, <3>2
  <2> QED BY <2>2, <2>3
<1>15. s \notin Cyclic => p.next \in {from, Never}
  BY <1>1, <1>3, <1>4
<1>16. \A o \in p.occurrences :
         /\ o \in [id : {row.id}, at : Instants, runAt : Instants, missedAfter : Nat,
                   status : {"pending"}, retried : {FALSE}, catchUp : BOOLEAN]
         /\ from <= o.at /\ o.at < p.next
         /\ CatchUp(o) => o.at <= at /\ [id |-> row.id, before |-> o.at] \in p.superseded
         /\ s \notin Cyclic => o.at = from
  <2> DEFINE Kind == [id : {row.id}, at : Instants, runAt : Instants, missedAfter : Nat,
                      status : {"pending"}, retried : {FALSE}, catchUp : BOOLEAN]
  <2>1. SUFFICES ASSUME NEW o \in p.occurrences
                 PROVE  /\ o \in Kind
                        /\ from <= o.at /\ o.at < p.next
                        /\ CatchUp(o) =>
                             o.at <= at /\ [id |-> row.id, before |-> o.at] \in p.superseded
                        /\ s \notin Cyclic => o.at = from
    OBVIOUS
  <2>2. \A f \in misfire.kept : Occurrence(f) \in Kind
    BY <1>8
  <2> HIDE DEF Occurrence, Kind
  <2>3. PICK f \in misfire.kept : o = Occurrence(f)
    BY <1>10, <2>1
  <2>4. o \in Kind /\ o.at = f
    BY <1>9, <2>2, <2>3
  <2>5. /\ from <= f /\ f < p.next
        /\ CatchUp(o) => f <= at /\ [id |-> row.id, before |-> f] \in p.superseded
        /\ s \notin Cyclic => f = from
    BY <1>8, <2>3
  <2> QED BY <2>4, <2>5
<1>17. \A o, q \in p.occurrences : o.at = q.at => o = q
  <2> HIDE DEF Occurrence
  <2> QED BY <1>9, <1>10
<1>18. Planned(p, s, row, at)
  <2> HIDE DEF from
  <2>1. from = row.nextRunAt
    BY DEF from
  <2> QED BY <1>7, <1>11, <1>12, <1>13, <1>14, <1>15, <1>16, <1>17, <2>1 DEF Planned
<1> QED BY <1>18 DEF p

\* The plan of a job without one is empty.
LEMMA PlanIsEmpty ==
  ASSUME NEW s \in Schedules, NEW row \in Rows, NEW at \in 0..MaxTime,
         row.nextRunAt = Never
  PROVE  Plan(s, row, at) = [occurrences |-> {}, superseded |-> {}, discards |-> {},
                             next |-> Never]
<1>1. Remaining(s, row.nextRunAt) = {}
  BY DEF Remaining
<1> DEFINE none == {f \in {} : f <= at + Window}
           misfire == ApplyMisfirePolicy(Capped(none), at, row.policy, Capped(none) # none)
<1>2. none = {} /\ Capped(none) = {}
  BY DEF Capped
<1>3. misfire.kept = {} /\ misfire.catchUp = {}
  BY <1>2 DEF ApplyMisfirePolicy
<1>4. NextFire({}, Capped(none), at) = Never
  BY DEF NextFire
<1> QED BY <1>1, <1>2, <1>3, <1>4 DEF Plan

\* What a plan holds, for every job.
LEMMA PlanIsPlanned ==
  ASSUME NEW s \in Schedules, NEW row \in Rows, NEW at \in 0..MaxTime
  PROVE  Planned(Plan(s, row, at), s, row, at)
<1>1. CASE row.nextRunAt # Never
  BY <1>1, PlanFromFire
<1>2. CASE row.nextRunAt = Never
  <2> DEFINE p == Plan(s, row, at)
  <2>1. p.occurrences = {} /\ p.superseded = {} /\ p.discards = {} /\ p.next = Never
    BY <1>2, PlanIsEmpty
  <2> HIDE DEF p
  <2>2. Never \in 0..Never /\ Never <= Never
    BY InstantsAre
  <2>3. \A f \in Fires[s] : f < Never => ~From(s, Never, f)
    BY InstantsAre, FiresAssumption DEF From
  <2>4. Planned(p, s, row, at)
    BY <1>2, <2>1, <2>2, <2>3 DEF Planned
  <2> QED BY <2>4 DEF p
<1> QED BY <1>1, <1>2

\* What a plan leaves of the backlog: the clock within a window, nothing at all, an
\* occurrence past the backlog, or a skip past the clock.
Leaves(p, row, at) ==
  \/ p.next <= at + Window
  \/ p.next = row.nextRunAt /\ p.discards = {}
  \/ \E o \in p.occurrences : row.nextRunAt <= o.at /\ \A d \in p.discards : d.at <= o.at
  \/ row.policy = "skip" /\ \E d \in p.discards : row.nextRunAt <= d.at

Behind(p, row) == \A d \in p.discards : d.policy = row.policy /\ d.at < p.next

\* When the cap does not cut the walk, a misfire policy keeps an instant past all it
\* drops, unless it skips.
LEMMA MisfireLeaves ==
  ASSUME NEW due \in SUBSET Instants, due # {}, NEW at \in Nat, NEW policy \in Policies,
         NEW misfire, misfire = ApplyMisfirePolicy(due, at, policy, FALSE)
  PROVE  \/ \E k \in misfire.kept : \A d \in due \ misfire.kept : d <= k
         \/ policy = "skip" /\ due \ misfire.kept # {}
<1> DEFINE behind == {f \in due : f <= at}
           ahead == due \ behind
           catchUp == IF policy = "coalesce" THEN Coalesce(behind, ahead, FALSE) ELSE {}
<1>1. CASE ~\E f \in behind : f + Grace <= at
  <2>1. misfire.kept = due
    BY <1>1 DEF ApplyMisfirePolicy
  <2> QED BY <2>1
<1>2. CASE \E f \in behind : f + Grace <= at
  <2>1. misfire.kept = catchUp \cup ahead
    BY <1>2 DEF ApplyMisfirePolicy
  <2>2. CASE policy = "coalesce"
    <3>1. catchUp = {Max(behind)}
      BY <2>2 DEF Coalesce
    <3>2. Max(behind) \in behind /\ \A y \in behind : Max(behind) >= y
      <4>1. Never - 1 \in Nat /\ behind \subseteq 0..(Never - 1) /\ behind # {}
        BY <1>2, InstantsAre
      <4> QED BY <4>1, MaxOf
    <3>3. ASSUME NEW d \in due \ misfire.kept PROVE d <= Max(behind)
      <4>1. d \in behind /\ d \in Nat /\ Max(behind) \in Nat
        BY <2>1, <3>2, InstantsAre
      <4> QED BY <3>2, <4>1
    <3> QED BY <2>1, <3>1, <3>3
  <2>3. CASE policy = "skip"
    <3>1. catchUp = {}
      BY <2>3
    <3>2. \E d \in due : d \notin misfire.kept
      BY <1>2, <2>1, <3>1
    <3> QED BY <2>3, <3>2
  <2> QED BY <2>2, <2>3 DEF Policies
<1> QED BY <1>1, <1>2

\* What the cap cuts off is within the window, and so is the next clock.
LEMMA CutLeaves ==
  ASSUME NEW fires \in SUBSET Instants, NEW at \in Nat,
         NEW inWindow, inWindow = {f \in fires : f <= at + Window},
         NEW due, due = Capped(inWindow), due # inWindow
  PROVE  NextFire(fires, due, at) <= at + Window
<1>1. PICK g \in inWindow : g \notin due
  BY DEF Capped
<1> DEFINE rest == fires \ due
<1>2. g \in rest /\ rest # {} /\ rest \subseteq Nat
  BY <1>1, InstantsAre
<1>3. Min(rest) \in rest /\ \A y \in rest : Min(rest) <= y
  BY <1>2, MinOf
<1>4. NextFire(fires, due, at) = Min(rest)
  BY <1>2 DEF NextFire
<1>5. Min(rest) <= g /\ g <= at + Window /\ Min(rest) \in Nat /\ g \in Nat /\ at + Window \in Nat
  BY <1>1, <1>2, <1>3, Numbers
<1> HIDE DEF rest
<1> QED BY <1>4, <1>5

\* What a plan discards is behind its next clock, and answered as BacklogGoesOn says.
LEMMA PlanAnswers ==
  ASSUME NEW s \in Schedules, NEW row \in Rows, NEW at \in 0..MaxTime,
         NEW p, p = Plan(s, row, at)
  PROVE  Leaves(p, row, at) /\ Behind(p, row)
<1>1. CASE row.nextRunAt = Never
  <2>1. p.discards = {} /\ p.next = Never
    BY <1>1, PlanIsEmpty
  <2> QED BY <1>1, <2>1 DEF Leaves, Behind
<1>2. CASE row.nextRunAt # Never
  <2> DEFINE from == row.nextRunAt
             fires == Remaining(s, from)
             inWindow == {f \in fires : f <= at + Window}
             due == Capped(inWindow)
             misfire == ApplyMisfirePolicy(due, at, row.policy, due # inWindow)
             RunAt(f) == IF f \in misfire.catchUp THEN at ELSE f
             Occurrence(f) == [id |-> row.id, at |-> f, runAt |-> RunAt(f),
                               missedAfter |-> Max({RunAt(f), at}) + Grace,
                               status |-> "pending", retried |-> FALSE,
                               catchUp |-> f \in misfire.catchUp]
             next == NextFire(fires, due, at)
  <2>1. p = [occurrences |-> {Occurrence(f) : f \in misfire.kept},
             superseded |-> {[id |-> row.id, before |-> c] : c \in misfire.catchUp},
             discards |-> {[at |-> f, policy |-> row.policy] : f \in due \ misfire.kept},
             next |-> next]
    BY DEF Plan
  <2>2. /\ from \in Instants /\ row.policy \in Policies /\ at \in Nat
    BY <1>2, Numbers, InstantsAre DEF Rows
  <2>3. /\ fires \subseteq Instants /\ from \in fires /\ (\A f \in fires : f >= from)
    BY <2>2, RemainingFires
  <2>4. \A f \in misfire.kept : Occurrence(f).at = f
    OBVIOUS
  <2> HIDE DEF Occurrence
  <2>5. p.occurrences = {Occurrence(f) : f \in misfire.kept} /\ p.next = next
        /\ p.discards = {[at |-> f, policy |-> row.policy] : f \in due \ misfire.kept}
    BY <2>1
  <2>6. /\ fires \in SUBSET Instants /\ due = Taken(fires, at)
        /\ inWindow = {f \in fires : f <= at + Window} /\ due = Capped(inWindow)
        /\ next = NextFire(fires, due, at)
    BY <2>3 DEF Taken
  <2> HIDE DEF fires, inWindow, due, next, misfire
  <2>7. /\ next \in 0..Never /\ (next # Never => next \in fires \ due)
        /\ \A f \in due : f < next
        /\ \A f \in fires : f < next => f \in due
        /\ next = Never => fires = due
        /\ due \subseteq fires
    <3>1. fires \in SUBSET Instants /\ at \in Nat
      BY <2>2, <2>3
    <3>2. due = Taken(fires, at) /\ next = NextFire(fires, due, at)
      BY <2>6
    <3> QED BY <3>1, <3>2, NextFireIsNext
  <2>8. due \subseteq fires
    BY <2>7
  <2>9. Behind(p, row)
    BY <2>5, <2>7 DEF Behind
  <2>10. CASE due # inWindow
    <3>1. next <= at + Window
      BY <2>2, <2>6, <2>10, CutLeaves
    <3> QED BY <2>5, <2>9, <3>1 DEF Leaves
  <2>11. CASE due = inWindow /\ due = {}
    <3>1. next \in fires /\ ~(from < next) /\ next >= from
      BY <2>3, <2>7, <2>11
    <3>4. next = from
      BY <2>2, <2>3, <3>1, InstantsAre
    <3>5. p.discards = {}
      BY <2>5, <2>11
    <3> QED BY <2>5, <2>9, <3>4, <3>5 DEF Leaves
  <2>12. CASE due = inWindow /\ due # {}
    <3>1. \/ \E k \in misfire.kept : \A d \in due \ misfire.kept : d <= k
          \/ row.policy = "skip" /\ due \ misfire.kept # {}
      <4>1. due \in SUBSET Instants
        BY <2>3, <2>8
      <4>2. misfire = ApplyMisfirePolicy(due, at, row.policy, FALSE)
        BY <2>12 DEF misfire
      <4>3. due # {} /\ at \in Nat /\ row.policy \in Policies
        BY <2>2, <2>12
      <4> HIDE DEF misfire, due, inWindow
      <4> QED BY <4>1, <4>2, <4>3, MisfireLeaves
    <3>2. misfire.kept \subseteq due
      <4>1. due \in SUBSET Instants
        BY <2>3, <2>8
      <4> QED BY <2>2, <4>1, MisfireKeeps DEF misfire
    <3>3. \A f \in due : from <= f
      BY <2>2, <2>3, <2>8, InstantsAre
    <3>4. CASE \E k \in misfire.kept : \A d \in due \ misfire.kept : d <= k
      <4>1. PICK k \in misfire.kept : \A d \in due \ misfire.kept : d <= k
        BY <3>4
      <4>2. Occurrence(k) \in p.occurrences /\ Occurrence(k).at = k /\ from <= k
        BY <2>4, <2>5, <3>2, <3>3
      <4>3. \A d \in p.discards : d.at <= k
        BY <2>5, <4>1
      <4> QED BY <2>9, <4>2, <4>3 DEF Leaves
    <3>5. CASE row.policy = "skip" /\ due \ misfire.kept # {}
      <4>1. PICK f \in due : f \notin misfire.kept
        BY <3>5
      <4>2. [at |-> f, policy |-> row.policy] \in p.discards
        BY <2>5, <4>1
      <4> QED BY <2>9, <3>3, <3>5, <4>2 DEF Leaves
    <3> QED BY <3>1, <3>4, <3>5
  <2> QED BY <2>10, <2>11, <2>12
<1> QED BY <1>1, <1>2

-----------------------------------------------------------------------------
(* The task table after the statements of a pass. *)

\* The same run of the same occurrence, which stays missed once it is.
SameRun(u, t) ==
  /\ u.id = t.id /\ u.at = t.at /\ u.catchUp = t.catchUp
  /\ t.status = "missed" => u.status = "missed"

Unique(ts) == \A t, u \in ts : t.id = u.id /\ t.at = u.at => t = u
Holds(ts, id, f) == \E t \in ts : t.id = id /\ t.at = f

\* An insert adds the occurrences that are not there, and only those.
LEMMA Inserted ==
  ASSUME NEW ts, NEW new, Unique(ts), Unique(new),
         NEW all, all = InsertIgnoringDuplicates(ts, new)
  PROVE  /\ ts \subseteq all /\ all \subseteq ts \cup new /\ Unique(all)
         /\ \A n \in new : Holds(all, n.id, n.at)
BY DEF InsertIgnoringDuplicates, Unique, Holds

\* A retirement changes what is pending and superseded to missed, and nothing else.
LEMMA Retired ==
  ASSUME NEW ts \in SUBSET Task, NEW superseded, NEW all, all = UpdateToMissed(ts, superseded)
  PROVE  /\ all \subseteq Task
         /\ \A t \in ts : Holds(all, t.id, t.at)
         /\ \A u \in all : \E t \in ts : SameRun(u, t)
         /\ \A u \in all : Older(u, superseded) =>
              \/ u.status = "missed"
              \/ u \in ts /\ u.status = "claimed"
         /\ Unique(ts) => Unique(all)
<1> DEFINE Hit(t) == t.status = "pending" /\ Older(t, superseded)
           Missed(t) == [t EXCEPT !.status = "missed"]
           Now(t) == IF Hit(t) THEN Missed(t) ELSE t
<1>1. all = {Now(t) : t \in ts}
  BY DEF UpdateToMissed
<1>2. ASSUME NEW t \in Task
      PROVE  /\ Missed(t) \in Task /\ Missed(t).id = t.id /\ Missed(t).at = t.at
             /\ Missed(t).catchUp = t.catchUp /\ Missed(t).status = "missed"
             /\ t.status \in {"pending", "claimed", "missed"}
  BY DEF Task
<1> HIDE DEF Missed
<1>3. ASSUME NEW t \in ts
      PROVE  /\ Now(t) \in Task /\ SameRun(Now(t), t)
             /\ Older(Now(t), superseded) =>
                  Now(t).status = "missed" \/ (Now(t) = t /\ t.status = "claimed")
  <2>1. t \in Task
    OBVIOUS
  <2>2. CASE Hit(t)
    BY <1>2, <2>1, <2>2 DEF SameRun
  <2>3. CASE ~Hit(t)
    BY <1>2, <2>1, <2>3 DEF SameRun
  <2> QED BY <2>2, <2>3
<1> HIDE DEF Now
<1>4. \A t, u \in ts : Now(t).id = Now(u).id /\ Now(t).at = Now(u).at => t.id = u.id /\ t.at = u.at
  BY <1>3 DEF SameRun
<1> QED BY <1>1, <1>3, <1>4 DEF SameRun, Holds, Unique

\* What the plans of a pass insert, and what they supersede.
New(plans) == UNION {p.occurrences : p \in plans}
Superseded(plans) == UNION {p.superseded : p \in plans}

\* What a pass spares is a set of runs.
LEMMA SparedAre ==
  ASSUME NEW ts \in SUBSET Task, NEW plans
  PROVE  Spared(ts, plans) \subseteq [id : 1..MaxJobs, at : Instants]
<1>1. \A t \in Task : Run(t) \in [id : 1..MaxJobs, at : Instants]
  BY DEF Run, Task
<1>2. \A r \in Spared(ts, plans) : \E t \in ts : r = Run(t)
  BY DEF Spared
<1> QED BY <1>1, <1>2

\* A pass on the table: it keeps what was there, adds the plans' occurrences once,
\* and what a catch-up run supersedes is missed, or spared as an executor's.
LEMMA RecordedKeeps ==
  ASSUME NEW ts \in SUBSET Task, NEW plans, New(plans) \subseteq Task,
         Unique(ts), Unique(New(plans)), \A n \in New(plans) : n.status = "pending",
         NEW all, all = Recorded(ts, plans)
  PROVE  /\ all \subseteq Task /\ Unique(all)
         /\ \A t \in ts : Holds(all, t.id, t.at)
         /\ \A o \in New(plans) : Holds(all, o.id, o.at)
         /\ \A u \in all : \E t \in ts \cup New(plans) : SameRun(u, t)
         /\ \A u \in all : Older(u, Superseded(plans)) =>
              u.status = "missed" \/ Run(u) \in Spared(ts, plans)
<1> DEFINE new == New(plans)
           mid == InsertIgnoringDuplicates(ts, new)
<1>1. /\ ts \subseteq mid /\ mid \subseteq ts \cup new /\ Unique(mid)
      /\ \A n \in new : Holds(mid, n.id, n.at)
  BY Inserted
<1>2. mid \in SUBSET Task /\ all = UpdateToMissed(mid, Superseded(plans))
  BY <1>1 DEF Recorded, New, Superseded
<1> HIDE DEF mid, new
<1>3. /\ all \subseteq Task
      /\ \A t \in mid : Holds(all, t.id, t.at)
      /\ \A u \in all : \E t \in mid : SameRun(u, t)
      /\ \A u \in all : Older(u, Superseded(plans)) =>
           u.status = "missed" \/ (u \in mid /\ u.status = "claimed")
      /\ Unique(all)
  BY <1>1, <1>2, Retired
<1>4. \A n \in new : Holds(all, n.id, n.at)
  BY <1>1, <1>3 DEF Holds
<1>5. ASSUME NEW u \in all, Older(u, Superseded(plans)), u.status # "missed"
      PROVE  Run(u) \in Spared(ts, plans)
  <2>1. u \in ts /\ u.status = "claimed"
    BY <1>1, <1>3, <1>5 DEF new
  <2> QED BY <1>5, <2>1 DEF Spared, Superseded
<1> QED BY <1>1, <1>3, <1>4, <1>5 DEF new

\* A run that a pass adds for the job s, planned from row at the time at.
FreshRun(u, s, row, at) ==
  /\ u.id = row.id /\ row.nextRunAt <= u.at /\ u.at < Plan(s, row, at).next
  /\ u.at \in Instants
  /\ CatchUp(u) => u.at <= at
  /\ s \notin Cyclic => u.at = row.nextRunAt

\* A pass over the jobs of G of a table ts, planned from their rows at the time at:
\* each job has a row of its own, and catch-up runs are behind the rows.
PassesOn(ts, G, row, at, over, sp) ==
  /\ ts \in SUBSET Task /\ Unique(ts) /\ Alone(ts, over, sp)
  /\ G \in SUBSET Schedules /\ row \in [Schedules -> Rows] /\ at \in 0..MaxTime
  /\ \A s \in G : row[s].id # 0
  /\ \A s, x \in G : row[s].id = row[x].id => s = x
  /\ \A s \in G, t \in ts :
       t.id = row[s].id /\ t.id \notin over /\ CatchUp(t) => t.at <= row[s].nextRunAt

\* The table after it holds what it held and the fires the plans go through, once
\* each, and its catch-up runs stand alone.
PassedOn(all, ts, G, row, at, over, sp) ==
  /\ all \subseteq Task /\ Unique(all) /\ Alone(all, over, sp)
  /\ \A t \in ts : Holds(all, t.id, t.at)
  /\ \A s \in G : \A o \in Plan(s, row[s], at).occurrences : Holds(all, row[s].id, o.at)
  /\ \A s \in G : \A f \in Fires[s] :
       From(s, row[s].nextRunAt, f) /\ f < Plan(s, row[s], at).next =>
         \/ Holds(all, row[s].id, f)
         \/ \E d \in Plan(s, row[s], at).discards : d.at = f
  /\ \A u \in all : \/ \E t \in ts : SameRun(u, t)
                    \/ \E s \in G : FreshRun(u, s, row[s], at)

\* What a pass does to the task table.
LEMMA PassOn ==
  ASSUME NEW ts, NEW G, NEW row, NEW at, NEW over, NEW sp,
         PassesOn(ts, G, row, at, over, sp),
         NEW plans, plans = {Plan(s, row[s], at) : s \in G},
         NEW all, all = Recorded(ts, plans)
  PROVE  PassedOn(all, ts, G, row, at, over, sp \cup Spared(ts, plans))
<1> SUFFICES
      ASSUME ts \in SUBSET Task, Unique(ts), Alone(ts, over, sp),
             G \in SUBSET Schedules, row \in [Schedules -> Rows], at \in 0..MaxTime,
             \A s \in G : row[s].id # 0,
             \A s, x \in G : row[s].id = row[x].id => s = x,
             \A s \in G, t \in ts :
               t.id = row[s].id /\ t.id \notin over /\ CatchUp(t) => t.at <= row[s].nextRunAt
      PROVE  PassedOn(all, ts, G, row, at, over, sp \cup Spared(ts, plans))
  BY DEF PassesOn
<1> DEFINE P(s) == Plan(s, row[s], at)
           sup(s, c) == [id |-> row[s].id, before |-> c]
<1>1. \A s \in G : Planned(P(s), s, row[s], at) /\ row[s] \in Rows
  BY PlanIsPlanned
<1>2. plans = {P(s) : s \in G}
  OBVIOUS
<1> HIDE DEF P
<1>3. \A o \in New(plans) : \E s \in G : o \in P(s).occurrences
  BY <1>2 DEF New
<1>4. \A s \in G : /\ P(s).occurrences \subseteq New(plans)
                   /\ P(s).superseded \subseteq Superseded(plans)
  BY <1>2 DEF New, Superseded
<1>5. ASSUME NEW s \in G, NEW o \in P(s).occurrences
      PROVE  /\ o \in Task /\ o.id = row[s].id /\ FreshRun(o, s, row[s], at)
             /\ CatchUp(o) => sup(s, o.at) \in P(s).superseded
             /\ o.status = "pending"
  <2>1. /\ o \in [id : {row[s].id}, at : Instants, runAt : Instants, missedAfter : Nat,
                  status : {"pending"}, retried : {FALSE}, catchUp : BOOLEAN]
        /\ row[s].nextRunAt <= o.at /\ o.at < P(s).next
        /\ CatchUp(o) => o.at <= at /\ sup(s, o.at) \in P(s).superseded
        /\ s \notin Cyclic => o.at = row[s].nextRunAt
    BY <1>1 DEF Planned
  <2>2. row[s].id \in 1..MaxJobs /\ Instants \subseteq Nat
    BY <1>1, Numbers DEF Rows
  <2> HIDE DEF sup
  <2> QED BY <2>1, <2>2 DEF Task, FreshRun, P
<1>6. Unique(New(plans))
  <2>1. SUFFICES ASSUME NEW o \in New(plans), NEW q \in New(plans), o.id = q.id, o.at = q.at
                 PROVE  o = q
    BY DEF Unique
  <2>2. PICK s \in G : o \in P(s).occurrences
    BY <1>3
  <2>3. PICK x \in G : q \in P(x).occurrences
    BY <1>3
  <2>4. s = x
    <3>1. o.id = row[s].id /\ q.id = row[x].id
      BY <1>5, <2>2, <2>3
    <3> QED BY <2>1, <3>1
  <2> QED BY <1>1, <2>1, <2>2, <2>3, <2>4 DEF Planned
<1>7. New(plans) \subseteq Task /\ \A n \in New(plans) : n.status = "pending"
  BY <1>3, <1>5
<1>8. /\ all \subseteq Task /\ Unique(all)
      /\ \A t \in ts : Holds(all, t.id, t.at)
      /\ \A o \in New(plans) : Holds(all, o.id, o.at)
      /\ \A u \in all : \E t \in ts \cup New(plans) : SameRun(u, t)
      /\ \A u \in all : Older(u, Superseded(plans)) =>
           u.status = "missed" \/ Run(u) \in Spared(ts, plans)
  BY <1>6, <1>7, RecordedKeeps
<1>9. ASSUME NEW u \in all
      PROVE  \/ \E t \in ts : SameRun(u, t)
             \/ \E s \in G : /\ FreshRun(u, s, row[s], at)
                             /\ CatchUp(u) => sup(s, u.at) \in Superseded(plans)
  <2>1. PICK t \in ts \cup New(plans) : SameRun(u, t)
    BY <1>8
  <2>2. CASE t \in New(plans)
    <3>1. PICK s \in G : t \in P(s).occurrences
      BY <1>3, <2>2
    <3>2. FreshRun(t, s, row[s], at) /\ (CatchUp(t) => sup(s, t.at) \in Superseded(plans))
      BY <1>4, <1>5, <3>1
    <3> HIDE DEF sup
    <3> QED BY <2>1, <3>2 DEF SameRun, FreshRun, CatchUp
  <2> QED BY <2>1, <2>2
<1>10. ASSUME NEW s \in G, NEW f \in Fires[s],
              From(s, row[s].nextRunAt, f), f < P(s).next
       PROVE  Holds(all, row[s].id, f) \/ \E d \in P(s).discards : d.at = f
  <2>1. \/ \E o \in P(s).occurrences : o.at = f
        \/ \E d \in P(s).discards : d.at = f
    BY <1>1, <1>10 DEF Planned
  <2>2. ASSUME NEW o \in P(s).occurrences, o.at = f PROVE Holds(all, row[s].id, f)
    BY <1>4, <1>5, <1>8, <2>2
  <2> QED BY <2>1, <2>2
<1>11. Alone(all, over, sp \cup Spared(ts, plans))
  <2>1. SUFFICES ASSUME NEW t \in all, NEW u \in all, t.id = u.id, t.id \notin over,
                        CatchUp(t), u.at < t.at
                 PROVE  u.status = "missed" \/ Run(u) \in sp \cup Spared(ts, plans)
    BY DEF Alone
  <2>2. CASE \E s \in G : /\ FreshRun(t, s, row[s], at)
                          /\ CatchUp(t) => sup(s, t.at) \in Superseded(plans)
    <3>1. PICK s \in G : t.id = row[s].id /\ sup(s, t.at) \in Superseded(plans)
      BY <2>1, <2>2 DEF FreshRun
    <3>2. sup(s, t.at).id = u.id /\ sup(s, t.at).before = t.at
      BY <2>1, <3>1
    <3> HIDE DEF sup
    <3>3. Older(u, Superseded(plans))
      BY <2>1, <3>1, <3>2 DEF Older
    <3> QED BY <1>8, <3>3
  <2>3. CASE \E x \in ts : SameRun(t, x)
    <3>1. PICK x \in ts : SameRun(t, x)
      BY <2>3
    <3>2. x.id = t.id /\ CatchUp(x) /\ x.at = t.at /\ x.at \in Nat
      BY <2>1, <3>1, InstantsAre DEF SameRun, CatchUp, Task
    <3>3. CASE \E y \in ts : SameRun(u, y)
      <4>1. PICK y \in ts : SameRun(u, y)
        BY <3>3
      <4>2. y.status = "missed" \/ Run(y) \in sp
        BY <2>1, <3>2, <4>1 DEF SameRun, Alone
      <4> QED BY <4>1, <4>2 DEF SameRun, Run
    <3>4. CASE \E s \in G : FreshRun(u, s, row[s], at)
      <4>1. PICK s \in G : u.id = row[s].id /\ row[s].nextRunAt <= u.at /\ u.at \in Nat
        BY <3>4, InstantsAre DEF FreshRun
      <4>2. x.at <= row[s].nextRunAt /\ row[s].nextRunAt \in Nat
        BY <1>1, <2>1, <3>2, <4>1, Numbers DEF Rows
      <4> QED BY <2>1, <3>2, <4>1, <4>2
    <3> QED BY <1>9, <3>3, <3>4
  <2> QED BY <1>9, <2>2, <2>3
<1>12. \A s \in G : \A o \in P(s).occurrences : Holds(all, row[s].id, o.at)
  BY <1>4, <1>5, <1>8
<1> QED BY <1>8, <1>9, <1>10, <1>11, <1>12 DEF P, PassedOn

-----------------------------------------------------------------------------
(* What a step on the tables does to a job. *)

\* Its row keeps its id and what it is accounted for.
Held(s) ==
  /\ jobs'[s].id = jobs[s].id
  /\ discarded[s] \subseteq discarded'[s]
  /\ \A t \in tasks : t.id = jobs[s].id => Holds(tasks', t.id, t.at)

Covered(s, n) == \A f \in Fires[s] : since[s] <= f /\ f < n => Told(s, f)
CoversPlan(s, row, at) ==
  \A f \in Fires[s] :
    From(s, row.nextRunAt, f) /\ f < Plan(s, row, at).next => Told(s, f)'

\* The occurrences of a plan of the row are recorded.
RecordsPlan(s, row, at) ==
  \A o \in Plan(s, row, at).occurrences : Holds(tasks', row.id, o.at)

Keeps(s) ==
  /\ Held(s) /\ jobs'[s].nextRunAt = jobs[s].nextRunAt /\ since'[s] = since[s]
  /\ discarded'[s] = discarded[s]
  /\ Stored(s) \/ jobs'[s] = jobs[s]
Drops(s) == jobs'[s] = NoJob

\* It advances to what is next in the plan of the row that was read.
Advances(s, row, at) ==
  /\ Held(s) /\ Stored(s) /\ row.id = jobs[s].id /\ since'[s] = since[s]
  /\ row.nextRunAt # Never /\ jobs'[s].nextRunAt = Plan(s, row, at).next
  /\ row.nextRunAt = jobs[s].nextRunAt \/ jobs[s].id \in overtaken'
  /\ discarded'[s] = discarded[s] \cup Plan(s, row, at).discards /\ RecordsPlan(s, row, at)
  /\ CoversPlan(s, row, at) /\ Covered(s, row.nextRunAt)
  /\ IF s \in Cyclic THEN since[s] <= row.nextRunAt \/ since[s] <= now + PlanRetry
     ELSE Waits(s, row.nextRunAt)

\* Its plan is put off.
PutsOff(s, at) ==
  /\ Held(s) /\ Stored(s) /\ Due(jobs[s], at) /\ discarded'[s] = discarded[s]
  /\ at + PlanRetry <= MaxTime
  /\ jobs'[s].nextRunAt = at + PlanRetry /\ since'[s] = at + PlanRetry
  /\ s \in Cyclic => since[s] <= at + PlanRetry

\* It starts from a first run: a new row, or a one-off that has run and runs again.
Starts(s, row, at) ==
  /\ jobs'[s].id = row.id /\ row.id # 0 /\ since'[s] = row.nextRunAt
  /\ jobs'[s].nextRunAt = Plan(s, row, at).next
  /\ discarded'[s] = Plan(s, row, at).discards /\ RecordsPlan(s, row, at)
  /\ CoversPlan(s, row, at)
  /\ IF s \in Cyclic THEN row.nextRunAt # Never
     ELSE IF row.nextRunAt = Never THEN Waits(s, now + Window)
     ELSE \A f \in Fires[s] : f = row.nextRunAt
  /\ \/ ~Stored(s) /\ row.id = inserted + 1
     \/ /\ Stored(s) /\ s \notin Cyclic /\ row.id = jobs[s].id
        /\ row.nextRunAt # Never => row.nextRunAt <= at + Window
        /\ \E m \in Mains : Redefine(m)

Changes(s, row, at) ==
  Keeps(s) \/ Drops(s) \/ Advances(s, row, at) \/ PutsOff(s, at) \/ Starts(s, row, at)

\* A step on the tables: transactions stay or end, locked rows are left alone, each
\* job changes in one of these ways, and the task table follows.
TableStep(row, at) ==
  /\ now' = now /\ at \in 0..now /\ row \in [Schedules -> Rows] /\ TypeOK'
  /\ inserted <= inserted' /\ overtaken \subseteq overtaken'
  /\ \A m \in Mains : txn'[m] \in {Idle, txn[m]}
  /\ \A m \in Mains : txn'[m] # Idle =>
       \A s \in txn[m].locks : jobs'[s] = jobs[s] /\ since'[s] = since[s]
  /\ \A s \in Schedules : jobs'[s].id <= inserted' /\ Changes(s, row[s], at)
  /\ \A s, x \in Schedules : jobs'[s].id # 0 /\ jobs'[x].id = jobs'[s].id => x = s
  /\ Unique(tasks') /\ BacklogsRetired'
  /\ \A u \in tasks' :
       /\ \E s \in Schedules : jobs'[s].id = u.id
       /\ \/ \E t \in tasks : SameRun(u, t)
          \/ \E s \in Schedules :
               /\ FreshRun(u, s, row[s], at)
               /\ Advances(s, row[s], at) \/ Starts(s, row[s], at)

\* What a transaction holds, by its phase.
LEMMA TxnTypes ==
  ASSUME TypeOK, NEW m \in Mains
  PROVE  /\ txn[m].phase \in {"idle", "materializing", "provisioning", "seeding"}
         /\ txn[m].phase = "idle" <=> txn[m] = Idle
         /\ txn[m].phase = "materializing" => txn[m] \in Materializing
         /\ txn[m].phase = "provisioning" => txn[m] \in Provisioning
         /\ txn[m].phase = "seeding" => txn[m] \in Seeding
<1>1. txn[m] \in {Idle} \cup Materializing \cup Provisioning \cup Seeding
  BY DEF TypeOK
<1>2. /\ Idle.phase = "idle"
      /\ \A t \in Materializing : t.phase = "materializing"
      /\ \A t \in Provisioning : t.phase = "provisioning"
      /\ \A t \in Seeding : t.phase = "seeding"
  BY DEF Idle, Materializing, Provisioning, Seeding
<1> QED BY <1>1, <1>2

\* A transaction that a step on the tables leaves open is as it was.
LEMMA OpenStays ==
  ASSUME TypeOK, NEW m \in Mains, txn'[m] \in {Idle, txn[m]}
  PROVE  txn'[m].phase # "idle" => txn'[m] = txn[m] /\ txn'[m] # Idle
BY DEF Idle

\* The types of a job's row and clock.
LEMMA JobTypes ==
  ASSUME TypeOK, NEW s \in Schedules
  PROVE  /\ jobs[s] \in Rows /\ jobs[s].id \in Nat /\ jobs[s].id \in 0..MaxJobs
         /\ jobs[s].nextRunAt \in Nat /\ jobs[s].nextRunAt <= Never
         /\ since[s] \in Nat /\ now \in Nat /\ inserted \in Nat /\ inserted <= MaxJobs
         /\ now <= MaxTime
         /\ NoJob \in Rows /\ NoJob.id = 0 /\ NoJob.nextRunAt = Never
<1>1. jobs[s] \in Rows /\ since[s] \in 0..Never
  BY DEF TypeOK
<1>2. NoJob \in Rows /\ NoJob.id = 0 /\ NoJob.nextRunAt = Never
  BY Numbers DEF NoJob, Rows, Policies
<1> QED BY <1>1, <1>2, Numbers DEF Rows, TypeOK

\* Each part of the invariant survives a step on the tables.  Ids: a job that starts
\* anew has the next one, and every other job keeps its own.
LEMMA RowsStayConsistent ==
  ASSUME IInv, NEW row, NEW at, TableStep(row, at)
  PROVE  RowsConsistent'
<1> USE DEF IInv
<1>1. ASSUME NEW s \in Schedules PROVE ~Stored(s)' => jobs'[s] = NoJob
  <2>1. ~Stored(s) => jobs[s] = NoJob
    BY DEF RowsConsistent
  <2>2. CASE Keeps(s)
    BY <2>1, <2>2 DEF Keeps, Held, Stored
  <2>3. CASE Drops(s)
    BY <2>3 DEF Drops
  <2>4. CASE Advances(s, row[s], at)
    BY <2>4 DEF Advances, Held, Stored
  <2>5. CASE PutsOff(s, at)
    BY <2>5 DEF PutsOff, Held, Stored
  <2>6. CASE Starts(s, row[s], at)
    BY <2>6 DEF Starts, Stored
  <2> QED BY <2>2, <2>3, <2>4, <2>5, <2>6 DEF TableStep, Changes
<1>2. ASSUME NEW m \in Mains
      PROVE  /\ \A s \in Schedules :
                  txn'[m].phase \in {"materializing", "provisioning"} =>
                    txn'[m].rows[s].id <= inserted'
             /\ txn'[m].phase = "seeding" => txn'[m].row.id <= inserted' /\ txn'[m].row.id # 0
  <2>1. txn'[m].phase # "idle" => txn'[m] = txn[m]
    BY OpenStays DEF TableStep
  <2>2. inserted \in Nat /\ inserted' \in Nat /\ inserted <= inserted'
    BY Numbers DEF TypeOK, TableStep
  <2>3. ASSUME NEW s \in Schedules, txn[m].phase \in {"materializing", "provisioning"}
        PROVE  txn[m].rows[s].id \in Nat /\ txn[m].rows[s].id <= inserted
    <3>1. txn[m] \in Materializing \/ txn[m] \in Provisioning
      BY <2>3, TxnTypes
    <3>2. txn[m].rows \in [Schedules -> Rows]
      BY <3>1 DEF Materializing, Provisioning
    <3>3. txn[m].rows[s].id \in Nat
      BY <3>2, Numbers DEF Rows
    <3> QED BY <2>3, <3>3 DEF RowsConsistent
  <2>4. txn[m].phase = "seeding" =>
          txn[m].row.id \in Nat /\ txn[m].row.id <= inserted /\ txn[m].row.id # 0
    BY TxnTypes, Numbers DEF RowsConsistent, Seeding, Rows
  <2> QED BY <2>1, <2>2, <2>3, <2>4
<1>3. /\ \A s \in Schedules : jobs'[s].id <= inserted'
      /\ \A s, x \in Schedules : Stored(s)' /\ jobs'[x].id = jobs'[s].id => x = s
      /\ \A t \in tasks' : \E s \in Schedules : jobs'[s].id = t.id
  BY DEF TableStep, Stored
<1> QED BY <1>1, <1>2, <1>3 DEF RowsConsistent

\* Locks: a step on the tables opens no transaction and leaves locked rows alone.
LEMMA LocksStayHeld ==
  ASSUME IInv, NEW row, NEW at, TableStep(row, at)
  PROVE  LocksHeld'
<1> USE DEF IInv
<1>1. \A m \in Mains : txn'[m] \in {Idle, txn[m]} /\ Idle.phase = "idle"
  BY DEF TableStep, Idle
<1>2. now' = now
  BY DEF TableStep
<1>3. \A m \in Mains : txn'[m] # Idle =>
        \A s \in txn[m].locks : jobs'[s] = jobs[s] /\ since'[s] = since[s]
  BY DEF TableStep
<1> QED BY <1>1, <1>2, <1>3 DEF LocksHeld, Stored

\* What a plan's next clock is, by the kind of its job.
LEMMA PlanNext ==
  ASSUME NEW s \in Schedules, NEW row \in Rows, NEW at \in 0..MaxTime,
         NEW next, next = Plan(s, row, at).next
  PROVE  /\ next \in Nat /\ next <= Never /\ row.nextRunAt <= next
         /\ row.nextRunAt \in Nat /\ row.nextRunAt <= Never
         /\ s \in Cyclic /\ row.nextRunAt # Never => next # Never
         /\ s \notin Cyclic => next \in {row.nextRunAt, Never}
         /\ s \notin Cyclic /\ row.nextRunAt # Never =>
              (next = Never <=> row.nextRunAt <= at + Window)
<1>1. Planned(Plan(s, row, at), s, row, at)
  BY PlanIsPlanned
<1> QED BY <1>1, Numbers DEF Planned, Rows

\* The types of what a step on the tables is about.
LEMMA StepTypes ==
  ASSUME IInv, NEW row, NEW at, TableStep(row, at)
  PROVE  /\ TypeOK /\ TypeOK' /\ now' = now
         /\ at \in 0..MaxTime /\ at \in Nat /\ at <= now /\ now \in Nat
         /\ \A s \in Schedules : row[s] \in Rows /\ Changes(s, row[s], at)
         /\ \A m \in Mains : txn'[m].phase # "idle" => txn'[m] = txn[m] /\ txn'[m] # Idle
BY OpenStays, Numbers DEF IInv, TableStep, TypeOK

\* Recurring jobs: their plans have a next fire, and a retry is an instant.
LEMMA CyclesStayGoingOn ==
  ASSUME IInv, NEW row, NEW at, TableStep(row, at)
  PROVE  CyclesGoOn'
<1> USE DEF IInv
<1>1. ASSUME NEW s \in Cyclic, Stored(s)' PROVE jobs'[s].nextRunAt # Never
  <2>1. s \in Schedules
    BY FiresAssumption
  <2>2. CASE Keeps(s)
    BY <1>1, <2>2 DEF Keeps, Held, Stored, CyclesGoOn
  <2>3. CASE Drops(s)
    BY <1>1, <2>3 DEF Drops, Stored, NoJob
  <2>4. CASE Advances(s, row[s], at)
    BY <2>1, <2>4, PlanNext, StepTypes DEF Advances
  <2>5. CASE PutsOff(s, at)
    <3>1. at + PlanRetry <= MaxTime /\ jobs'[s].nextRunAt = at + PlanRetry
      BY <2>5 DEF PutsOff
    <3> QED BY <3>1, StepTypes, Numbers
  <2>6. CASE Starts(s, row[s], at)
    BY <2>1, <2>6, PlanNext, StepTypes DEF Starts
  <2> QED BY <2>1, <2>2, <2>3, <2>4, <2>5, <2>6, StepTypes DEF Changes
<1>2. \A m \in Mains : txn'[m].phase # "idle" => txn'[m] = txn[m]
  BY StepTypes
<1> QED BY <1>1, <1>2 DEF CyclesGoOn

\* One-offs: a plan leaves the clock at the fire, or empty when the window reaches it.
LEMMA OneOffsStayWaiting ==
  ASSUME IInv, NEW row, NEW at, TableStep(row, at)
  PROVE  OneOffsWait'
<1> USE DEF IInv
<1>1. ASSUME NEW s \in Schedules \ Cyclic
      PROVE  /\ Waits(s, jobs'[s].nextRunAt)
             /\ Stored(s)' /\ jobs'[s].nextRunAt = Never => Waits(s, now + Window)
  <2>1. /\ Waits(s, jobs[s].nextRunAt)
        /\ Stored(s) /\ jobs[s].nextRunAt = Never => Waits(s, now + Window)
    BY DEF OneOffsWait
  <2>2. /\ \A f \in Fires[s] : f \in Nat /\ f <= Never
        /\ at \in Nat /\ now \in Nat /\ at <= now /\ at + Window <= now + Window
        /\ at + Window \in Nat /\ now + Window \in Nat
    <3>1. at \in Nat /\ now \in Nat /\ at <= now /\ Window \in Nat
      BY StepTypes, Numbers
    <3>2. \A f \in Fires[s] : f \in Nat /\ f <= Never
      BY InstantsAre, FiresAssumption, Numbers
    <3> QED BY <3>1, <3>2
  <2>3. CASE Keeps(s)
    BY <2>1, <2>3 DEF Keeps, Held, Stored
  <2>4. CASE Drops(s)
    BY <2>2, <2>4 DEF Drops, Stored, NoJob, Waits
  <2>5. CASE Advances(s, row[s], at)
    <3>1. Waits(s, row[s].nextRunAt) /\ row[s].nextRunAt # Never
      BY <2>5 DEF Advances
    <3>2. jobs'[s].nextRunAt \in {row[s].nextRunAt, Never}
      BY <2>5, PlanNext, StepTypes DEF Advances
    <3>3. jobs'[s].nextRunAt = Never => row[s].nextRunAt <= at + Window
      BY <2>5, <3>1, PlanNext, StepTypes DEF Advances
    <3>4. row[s].nextRunAt \in Nat
      BY PlanNext, StepTypes
    <3> QED BY <2>2, <3>1, <3>2, <3>3, <3>4 DEF Waits
  <2>6. CASE PutsOff(s, at)
    <3>1. jobs[s].nextRunAt <= at + Lookahead /\ jobs'[s].nextRunAt = at + PlanRetry
          /\ at + PlanRetry <= MaxTime
      BY <2>6 DEF PutsOff, Due
    <3>2. jobs[s].nextRunAt \in Nat
      BY JobTypes
    <3>3. jobs[s].nextRunAt <= at + PlanRetry /\ at + PlanRetry \in Nat /\ at + PlanRetry # Never
      <4> DEFINE from == jobs[s].nextRunAt
      <4>1. /\ from <= at + Lookahead /\ at + PlanRetry <= MaxTime
            /\ from \in Nat /\ at \in Nat
        BY <2>2, <3>1, <3>2
      <4>2. /\ Lookahead \in Nat /\ PlanRetry \in Nat /\ Lookahead < PlanRetry
            /\ MaxTime \in Nat /\ MaxTime < Never /\ Never \in Nat
        BY Numbers
      <4> HIDE DEF from
      <4>3. from <= at + PlanRetry /\ at + PlanRetry \in Nat /\ at + PlanRetry # Never
        BY <4>1, <4>2
      <4> QED BY <4>3 DEF from
    <3> QED BY <2>1, <2>2, <3>1, <3>2, <3>3 DEF Waits
  <2>7. CASE Starts(s, row[s], at)
    <3>1. jobs'[s].nextRunAt \in {row[s].nextRunAt, Never} /\ row[s].nextRunAt \in Nat
      BY <2>7, PlanNext, StepTypes DEF Starts
    <3>2. CASE row[s].nextRunAt = Never
      BY <2>2, <2>7, <3>1, <3>2 DEF Starts, Waits
    <3>3. CASE row[s].nextRunAt # Never
      <4>1. \A f \in Fires[s] : f = row[s].nextRunAt
        BY <2>7, <3>3 DEF Starts
      <4>2. jobs'[s].nextRunAt = Never => row[s].nextRunAt <= at + Window
        BY <2>7, <3>3, PlanNext, StepTypes DEF Starts
      <4> QED BY <2>2, <3>1, <4>1, <4>2 DEF Waits
    <3> QED BY <3>2, <3>3
  <2> QED BY <2>3, <2>4, <2>5, <2>6, <2>7, StepTypes DEF Changes
<1>2. \A m \in Mains : txn'[m].phase # "idle" => txn'[m] = txn[m]
  BY StepTypes
<1>3. now' = now
  BY StepTypes
<1> QED BY <1>1, <1>2, <1>3 DEF OneOffsWait, Waits

\* A job is accounted for from its clock on, or from the retry of its plan.
LEMMA SinceStaysBounded ==
  ASSUME IInv, NEW row, NEW at, TableStep(row, at)
  PROVE  SinceBounded'
<1> USE DEF IInv
<1>0. /\ at \in Nat /\ at <= now /\ now \in Nat /\ now' = now /\ PlanRetry \in Nat
      /\ Cyclic \subseteq Schedules
  BY StepTypes, Numbers, FiresAssumption
<1>1. ASSUME NEW s \in Cyclic, Stored(s)'
      PROVE  since'[s] <= jobs'[s].nextRunAt \/ since'[s] <= now + PlanRetry
  <2>1. s \in Schedules
    BY FiresAssumption
  <2>2. CASE Keeps(s)
    BY <1>1, <2>2 DEF Keeps, Held, Stored, SinceBounded
  <2>3. CASE Drops(s)
    BY <1>1, <2>3 DEF Drops, Stored, NoJob
  <2>4. CASE Advances(s, row[s], at)
    <3>1. since'[s] <= row[s].nextRunAt \/ since'[s] <= now + PlanRetry
      BY <2>4 DEF Advances
    <3>2. since'[s] \in Nat
      BY <2>1, <2>4, JobTypes DEF Advances
    <3>3. row[s].nextRunAt <= jobs'[s].nextRunAt /\ row[s].nextRunAt \in Nat
          /\ jobs'[s].nextRunAt \in Nat
      BY <2>1, <2>4, PlanNext, StepTypes DEF Advances
    <3> QED BY <3>1, <3>2, <3>3
  <2>5. CASE PutsOff(s, at)
    <3>1. since'[s] = at + PlanRetry
      BY <2>5 DEF PutsOff
    <3> QED BY <1>0, <3>1
  <2>6. CASE Starts(s, row[s], at)
    BY <2>1, <2>6, PlanNext, StepTypes DEF Starts
  <2> QED BY <2>1, <2>2, <2>3, <2>4, <2>5, <2>6, StepTypes DEF Changes
<1>2. ASSUME NEW m \in Mains, txn'[m].phase = "seeding", txn'[m].want \in Cyclic,
             jobs'[txn'[m].want].id = txn'[m].row.id
      PROVE  \/ since'[txn'[m].want] <= txn'[m].row.nextRunAt
             \/ since'[txn'[m].want] <= now + PlanRetry
  <2> DEFINE s == txn[m].want
  <2>1. txn'[m] = txn[m] /\ txn[m].phase = "seeding" /\ s \in Cyclic /\ s \in Schedules
    BY <1>0, <1>2, StepTypes
  <2>2. txn[m].row.id # 0 /\ txn[m].row.id <= inserted /\ txn[m].row.id \in Nat
        /\ inserted \in Nat
    BY <2>1, TxnTypes, JobTypes, Numbers DEF RowsConsistent, Seeding, Rows
  <2>3. jobs[s].id = txn[m].row.id =>
          since[s] <= txn[m].row.nextRunAt \/ since[s] <= now + PlanRetry
    BY <2>1 DEF SinceBounded
  <2>4. jobs'[s].id = txn[m].row.id
    BY <1>2, <2>1
  <2> HIDE DEF s
  <2>5. CASE Keeps(s) \/ Advances(s, row[s], at)
    BY <2>3, <2>4, <2>5, <2>1 DEF Keeps, Advances, Held, s
  <2>6. CASE Drops(s)
    BY <2>2, <2>4, <2>6 DEF Drops, NoJob
  <2>7. CASE PutsOff(s, at)
    <3>1. since'[s] = at + PlanRetry
      BY <2>7 DEF PutsOff
    <3> QED BY <1>0, <2>1, <3>1 DEF s
  <2>8. CASE Starts(s, row[s], at)
    BY <2>1, <2>2, <2>4, <2>8 DEF Starts
  <2> QED BY <2>1, <2>5, <2>6, <2>7, <2>8, StepTypes DEF Changes
<1> QED BY <1>0, <1>1, <1>2 DEF SinceBounded

\* A fire told stays told while the row keeps its id.
LEMMA ToldStays ==
  ASSUME NEW s, Held(s), NEW f, Told(s, f)
  PROVE  Told(s, f)'
<1>1. CASE \E t \in tasks : t.id = jobs[s].id /\ t.at = f
  BY <1>1 DEF Held, Told, Holds
<1>2. CASE \E d \in discarded[s] : d.at = f
  BY <1>2 DEF Held, Told
<1> QED BY <1>1, <1>2 DEF Told

\* Accounted for: what the clock moves past is what the plan records or discards.
LEMMA StaysAccounted ==
  ASSUME IInv, NEW row, NEW at, TableStep(row, at)
  PROVE  Accounted'
<1> USE DEF IInv
<1>1. \A t, u \in tasks' : t.id = u.id /\ t.at = u.at => t = u
  BY DEF TableStep, Unique
<1>2. ASSUME NEW s \in Schedules, Stored(s)',
             NEW f \in Fires[s], since'[s] <= f, f < jobs'[s].nextRunAt
      PROVE  Told(s, f)'
  <2>1. f \in Nat /\ f \in Instants /\ at \in Nat /\ PlanRetry \in Nat /\ since[s] \in Nat
    BY FiresAssumption, InstantsAre, StepTypes, JobTypes, Numbers
  <2>2. CASE Keeps(s)
    <3>1. Told(s, f)
      BY <1>2, <2>2 DEF Keeps, Held, Stored, Accounted, Told
    <3> QED BY <2>2, <3>1, ToldStays DEF Keeps
  <2>3. CASE Drops(s)
    BY <1>2, <2>3 DEF Drops, Stored, NoJob
  <2>4. CASE Advances(s, row[s], at)
    <3>1. row[s].nextRunAt \in Nat
      BY PlanNext, StepTypes
    <3>2. CASE f < row[s].nextRunAt
      <4>1. Told(s, f)
        BY <1>2, <2>4, <3>2 DEF Advances, Covered
      <4> QED BY <2>4, <4>1, ToldStays DEF Advances
    <3>3. CASE row[s].nextRunAt <= f
      <4>1. From(s, row[s].nextRunAt, f)
        BY <2>1, <2>4, <3>1, <3>3 DEF Advances, From, Waits
      <4> QED BY <1>2, <2>4, <4>1 DEF Advances, CoversPlan
    <3> QED BY <2>1, <3>1, <3>2, <3>3
  <2>5. CASE PutsOff(s, at)
    BY <1>2, <2>1, <2>5 DEF PutsOff
  <2>6. CASE Starts(s, row[s], at)
    <3>1. row[s].nextRunAt \in Nat /\ row[s].nextRunAt <= f /\ f # Never
          /\ f < Plan(s, row[s], at).next /\ Plan(s, row[s], at).next <= Never
      BY <1>2, <2>1, <2>6, PlanNext, StepTypes, InstantsAre DEF Starts
    <3>2. row[s].nextRunAt # Never
      BY <2>1, <3>1, InstantsAre
    <3>3. From(s, row[s].nextRunAt, f)
      BY <2>6, <3>1, <3>2 DEF Starts, From
    <3> QED BY <2>6, <3>1, <3>3 DEF Starts, CoversPlan
  <2> QED BY <2>2, <2>3, <2>4, <2>5, <2>6, StepTypes DEF Changes
<1> QED BY <1>1, <1>2 DEF Accounted, Told, Stored

\* The rows that open seeds have read stay accounted for: what is told stays told.
LEMMA SeedsStayAccounted ==
  ASSUME IInv, NEW row, NEW at, TableStep(row, at)
  PROVE  SeedsAccounted'
<1> USE DEF IInv
<1>0. ASSUME NEW m \in Mains, txn'[m].phase = "seeding"
      PROVE  /\ txn'[m] = txn[m] /\ txn[m].phase = "seeding" /\ txn[m].want \in Schedules
             /\ txn[m].row \in Rows
  BY <1>0, StepTypes, TxnTypes DEF Seeding
<1>1. ASSUME NEW m \in Mains, NEW s \in Schedules, NEW read \in Rows,
             txn'[m].phase = "seeding", s = txn[m].want, read = txn[m].row,
             jobs'[s].id = read.id, read.nextRunAt # Never,
             NEW f \in Fires[s], since'[s] <= f, f < read.nextRunAt
      PROVE  Told(s, f)'
  <2>0. txn'[m] = txn[m] /\ txn[m].phase = "seeding"
    BY <1>0, <1>1
  <2>1. s = txn[m].want /\ read = txn[m].row
    BY <1>1
  <2>2. /\ jobs'[s].id = read.id /\ read.nextRunAt # Never
        /\ f \in Fires[s] /\ since'[s] <= f /\ f < read.nextRunAt
    BY <1>1, <2>0, <2>1
  <2>3. read.id # 0 /\ read.id <= inserted
    BY <2>0, <2>1 DEF RowsConsistent
  <2>4. jobs[s].id = read.id /\ since[s] <= f => Told(s, f)
    BY <2>0, <2>1, <2>2 DEF SeedsAccounted
  <2>5. read.id \in Nat /\ inserted \in Nat /\ read.nextRunAt \in Nat /\ read.nextRunAt <= Never
    <3>1. read.id \in 0..MaxJobs /\ read.nextRunAt \in 0..Never
      BY <2>1 DEF Rows
    <3> QED BY <3>1, JobTypes, Numbers
  <2>6. /\ f \in Nat /\ f < Never /\ at \in Nat /\ PlanRetry \in Nat /\ Lookahead \in Nat
        /\ Lookahead < PlanRetry /\ since[s] \in Nat
    BY <2>1, <2>2, FiresAssumption, InstantsAre, StepTypes, JobTypes, Numbers
  <2>7. CASE Keeps(s) \/ Advances(s, row[s], at)
    <3>1. Held(s) /\ since'[s] = since[s]
      BY <2>7 DEF Keeps, Advances
    <3>2. jobs[s].id = read.id
      BY <2>2, <3>1 DEF Held
    <3> QED BY <2>2, <2>4, <3>1, <3>2, ToldStays
  <2>8. CASE Drops(s)
    BY <2>2, <2>3, <2>8 DEF Drops, NoJob
  <2>9. CASE PutsOff(s, at)
    <3>1. Held(s) /\ jobs[s].id = read.id /\ at + PlanRetry <= f
      BY <2>2, <2>9 DEF PutsOff, Held
    <3>2. s \in Cyclic
      <4>1. SUFFICES ASSUME s \notin Cyclic PROVE FALSE
        OBVIOUS
      <4>2. f <= jobs[s].nextRunAt /\ jobs[s].nextRunAt <= at + Lookahead
            /\ jobs[s].nextRunAt \in Nat
        BY <2>1, <2>2, <2>9, <4>1, JobTypes DEF PutsOff, Due, OneOffsWait, Waits
      <4> QED BY <2>6, <3>1, <4>2
    <3>3. since[s] <= f
      BY <2>6, <2>9, <3>1, <3>2 DEF PutsOff
    <3> QED BY <2>4, <3>1, <3>3, ToldStays
  <2>10. CASE Starts(s, row[s], at)
    <3>1. ~(~Stored(s) /\ row[s].id = inserted + 1)
      BY <2>2, <2>3, <2>5, <2>10 DEF Starts
    <3>2. /\ s \notin Cyclic
          /\ row[s].nextRunAt # Never => row[s].nextRunAt <= at + Window
          /\ row[s].nextRunAt <= f
      BY <2>2, <2>10, <3>1 DEF Starts
    <3>3. row[s].nextRunAt \in Nat /\ row[s].nextRunAt # Never
      BY <2>1, <2>6, <3>2, PlanNext, StepTypes, InstantsAre
    <3>4. f = row[s].nextRunAt
      BY <2>2, <2>10, <3>2, <3>3 DEF Starts
    <3>5. Plan(s, row[s], at).next = Never
      BY <2>1, <3>2, <3>3, PlanNext, StepTypes
    <3>6. From(s, row[s].nextRunAt, f)
      BY <3>2, <3>4 DEF From
    <3> QED BY <2>2, <2>6, <2>10, <3>5, <3>6 DEF Starts, CoversPlan
  <2> QED BY <2>1, <2>7, <2>8, <2>9, <2>10, StepTypes DEF Changes
<1>2. \A m \in Mains :
        txn'[m].phase = "seeding" /\ jobs'[txn'[m].want].id = txn'[m].row.id
        /\ txn'[m].row.nextRunAt # Never =>
          \A s \in {txn'[m].want}, f \in Fires[txn'[m].want] :
            since'[s] <= f /\ f < txn'[m].row.nextRunAt => Told(s, f)'
  BY <1>0, <1>1
<1> QED BY <1>2 DEF SeedsAccounted

\* A restarted one-off has its fire at once: its clock has run out.
LEMMA RestartsRunOut ==
  ASSUME IInv, NEW row, NEW at, TableStep(row, at), NEW s \in Schedules,
         Starts(s, row[s], at), Stored(s) \/ row[s].id # inserted + 1
  PROVE  s \notin Cyclic /\ jobs'[s].nextRunAt = Never /\ jobs[s].id = jobs'[s].id
<1>1. /\ s \notin Cyclic /\ row[s].id = jobs[s].id
      /\ row[s].nextRunAt # Never => row[s].nextRunAt <= at + Window
      /\ jobs'[s].nextRunAt = Plan(s, row[s], at).next /\ jobs'[s].id = row[s].id
  BY DEF Starts
<1>2. row[s].nextRunAt = Never => jobs'[s].nextRunAt = Never
  BY <1>1, PlanNext, StepTypes, InstantsAre
<1>3. row[s].nextRunAt # Never => jobs'[s].nextRunAt = Never
  BY <1>1, PlanNext, StepTypes
<1> QED BY <1>1, <1>2, <1>3

\* Catch-up runs: a plan advances the clock past those it adds.
LEMMA CatchUpsStayBehind ==
  ASSUME IInv, NEW row, NEW at, TableStep(row, at)
  PROVE  CatchUpsBehind'
<1> USE DEF IInv
<1>0. /\ at \in Nat /\ now \in Nat /\ at <= now /\ now' = now /\ inserted \in Nat
      /\ overtaken \subseteq overtaken'
      /\ \A s, x \in Schedules : jobs'[s].id # 0 /\ jobs'[x].id = jobs'[s].id => x = s
  BY StepTypes, Numbers DEF TableStep, TypeOK
<1>1. ASSUME NEW u \in tasks'
      PROVE  /\ u \in Task /\ u.id \in Nat /\ u.id # 0 /\ u.at \in Nat /\ u.at < Never
             /\ \/ \E t \in tasks : SameRun(u, t)
                \/ \E s \in Schedules :
                     /\ FreshRun(u, s, row[s], at) /\ jobs'[s].id = u.id
                     /\ Advances(s, row[s], at) \/ Starts(s, row[s], at)
  <2>1. u \in Task
    BY StepTypes DEF TypeOK
  <2>2. u.id \in Nat /\ u.id # 0 /\ u.at \in Nat /\ u.at < Never
    BY <2>1, Numbers, InstantsAre DEF Task
  <2>3. ASSUME NEW s \in Schedules, FreshRun(u, s, row[s], at),
               Advances(s, row[s], at) \/ Starts(s, row[s], at)
        PROVE  jobs'[s].id = u.id
    BY <2>3 DEF FreshRun, Advances, Starts, Held
  <2>4. \/ \E t \in tasks : SameRun(u, t)
        \/ \E s \in Schedules :
             /\ FreshRun(u, s, row[s], at)
             /\ Advances(s, row[s], at) \/ Starts(s, row[s], at)
    BY DEF TableStep
  <2> QED BY <2>1, <2>2, <2>3, <2>4
<1>2. ASSUME NEW t \in tasks PROVE t.id <= inserted /\ t.id \in Nat /\ t.at \in Nat /\ t.id # 0
  <2>1. t \in Task /\ t.id \in Nat /\ t.id # 0
    BY Numbers DEF TypeOK, Task
  <2>2. t.at \in Nat
    BY <2>1, InstantsAre DEF Task
  <2>3. \E s \in Schedules : jobs[s].id = t.id /\ jobs[s].id <= inserted
    BY DEF RowsConsistent
  <2> QED BY <2>1, <2>2, <2>3
<1>3. ASSUME NEW u \in tasks', CatchUp(u) PROVE u.at <= now
  <2>1. CASE \E t \in tasks : SameRun(u, t)
    BY <1>3, <2>1 DEF SameRun, CatchUp, CatchUpsBehind
  <2>2. CASE \E s \in Schedules : FreshRun(u, s, row[s], at)
    BY <1>0, <1>1, <1>3, <2>2 DEF FreshRun
  <2> QED BY <1>1, <2>1, <2>2
<1>4. ASSUME NEW s \in Schedules, NEW u \in tasks',
             u.id = jobs'[s].id, CatchUp(u), u.id \notin overtaken'
      PROVE  u.at < jobs'[s].nextRunAt
  <2>1. CASE \E x \in Schedules :
               /\ FreshRun(u, x, row[x], at) /\ jobs'[x].id = u.id
               /\ Advances(x, row[x], at) \/ Starts(x, row[x], at)
    <3>1. FreshRun(u, s, row[s], at) /\ (Advances(s, row[s], at) \/ Starts(s, row[s], at))
      BY <1>0, <1>1, <1>4, <2>1
    <3> QED BY <3>1 DEF FreshRun, Advances, Starts
  <2>2. CASE \E t \in tasks : SameRun(u, t)
    <3>1. PICK t \in tasks : SameRun(u, t)
      BY <2>2
    <3>2. t.id = u.id /\ t.at = u.at /\ CatchUp(t) /\ t.id \notin overtaken
      BY <1>0, <1>4, <3>1 DEF SameRun, CatchUp
    <3>3. t.id = jobs[s].id => u.at < jobs[s].nextRunAt
      BY <3>2 DEF CatchUpsBehind
    <3>4. CASE Keeps(s)
      BY <1>4, <3>2, <3>3, <3>4 DEF Keeps, Held
    <3>5. CASE Drops(s)
      BY <1>1, <1>4, <3>5 DEF Drops, NoJob
    <3>6. CASE Advances(s, row[s], at)
      <4>1. u.at < row[s].nextRunAt
        BY <1>4, <3>2, <3>3, <3>6 DEF Advances, Held
      <4> QED BY <1>1, <3>6, <4>1, PlanNext, StepTypes DEF Advances
    <3>7. CASE PutsOff(s, at)
      <4>1. u.at < jobs[s].nextRunAt /\ jobs[s].nextRunAt <= at + Lookahead
            /\ jobs[s].nextRunAt \in Nat /\ jobs'[s].nextRunAt = at + PlanRetry
        BY <1>4, <3>2, <3>3, <3>7, JobTypes DEF PutsOff, Held, Due
      <4>2. u.at \in Nat /\ at + Lookahead \in Nat /\ at + Lookahead < at + PlanRetry
            /\ at + PlanRetry \in Nat
        BY <1>0, <1>1, Numbers
      <4>3. u.at < at + Lookahead
        BY <4>1, <4>2
      <4> QED BY <4>1, <4>2, <4>3
    <3>8. CASE Starts(s, row[s], at)
      <4>1. row[s].id = u.id /\ u.id <= inserted
        BY <1>2, <1>4, <3>2, <3>8 DEF Starts
      <4>2. row[s].id # inserted + 1
        BY <1>0, <1>1, <4>1
      <4> QED BY <1>1, <3>8, <4>2, RestartsRunOut
    <3> QED BY <3>4, <3>5, <3>6, <3>7, <3>8, StepTypes DEF Changes
  <2> QED BY <1>1, <2>1, <2>2
<1>5. ASSUME NEW m \in Mains, txn'[m].phase = "provisioning",
             txn'[m].rows[txn'[m].want].id # 0,
             txn'[m].rows[txn'[m].want].id = jobs'[txn'[m].want].id,
             jobs'[txn'[m].want].id \notin overtaken',
             txn'[m].rows[txn'[m].want].nextRunAt = Never, txn'[m].first # Never
      PROVE  /\ jobs'[txn'[m].want].nextRunAt = Never
             /\ \A u \in tasks' : u.id = jobs'[txn'[m].want].id /\ CatchUp(u)
                                    => u.at <= txn'[m].first
  <2> DEFINE s == txn[m].want
             read == txn[m].rows[s]
             first == txn[m].first
  <2>1. txn'[m] = txn[m] /\ txn[m].phase = "provisioning" /\ s \in Schedules /\ read \in Rows
        /\ first \in 0..Never
    BY <1>5, StepTypes, TxnTypes DEF Provisioning
  <2>2. /\ read.id # 0 /\ read.id = jobs'[s].id /\ jobs'[s].id \notin overtaken'
        /\ read.nextRunAt = Never /\ first # Never
    BY <1>5, <2>1
  <2>3. read.id <= inserted /\ read.id \in Nat
    BY <2>1, Numbers DEF RowsConsistent, Rows
  <2>4. jobs[s].id = read.id =>
          /\ jobs[s].nextRunAt = Never
          /\ \A t \in tasks : t.id = jobs[s].id /\ CatchUp(t) => t.at <= first
    BY <1>0, <2>1, <2>2 DEF CatchUpsBehind
  <2>5. s \notin Cyclic => \A f \in Fires[s] : f = first
    BY <2>1, <2>2 DEF OneOffsWait
  <2> HIDE DEF s, read, first
  <2>6. \/ Keeps(s)
        \/ Starts(s, row[s], at) /\ s \notin Cyclic /\ jobs'[s].nextRunAt = Never
           /\ jobs[s].id = jobs'[s].id
    <3>1. ~Drops(s)
      BY <2>2 DEF Drops, NoJob
    <3>2. ~Advances(s, row[s], at)
      BY <2>2, <2>4 DEF Advances, Held
    <3>3. ~PutsOff(s, at)
      BY <2>2, <2>4 DEF PutsOff, Held, Due
    <3>4. CASE Starts(s, row[s], at)
      <4>1. row[s].id # inserted + 1
        BY <1>0, <2>2, <2>3, <3>4 DEF Starts
      <4> QED BY <2>1, <3>4, <4>1, RestartsRunOut
    <3> QED BY <2>1, <3>1, <3>2, <3>3, <3>4, StepTypes DEF Changes
  <2>7. jobs[s].id = read.id /\ jobs'[s].nextRunAt = Never
    BY <2>2, <2>4, <2>6 DEF Keeps, Held
  <2>8. ASSUME NEW u \in tasks', u.id = jobs'[s].id, CatchUp(u) PROVE u.at <= first
    <3>1. CASE \E t \in tasks : SameRun(u, t)
      BY <2>2, <2>4, <2>7, <2>8, <3>1 DEF SameRun, CatchUp
    <3>2. CASE \E x \in Schedules :
                 /\ FreshRun(u, x, row[x], at) /\ jobs'[x].id = u.id
                 /\ Advances(x, row[x], at) \/ Starts(x, row[x], at)
      <4>1. FreshRun(u, s, row[s], at) /\ (Advances(s, row[s], at) \/ Starts(s, row[s], at))
        BY <1>0, <1>1, <2>1, <2>8, <3>2
      <4>2. ~Advances(s, row[s], at)
        BY <2>4, <2>7, <2>2 DEF Advances, Held
      <4>3. Starts(s, row[s], at)
        BY <4>1, <4>2
      <4>4. ~(~Stored(s) /\ row[s].id = inserted + 1)
        BY <1>0, <2>2, <2>3, <4>3 DEF Starts
      <4>5. s \notin Cyclic /\ u.at = row[s].nextRunAt
        BY <4>1, <4>3, <4>4 DEF Starts, FreshRun
      <4>6. row[s].nextRunAt # Never
        BY <1>1, <4>5, InstantsAre
      <4>7. PICK f \in Fires[s] : f = row[s].nextRunAt
        BY <2>1, <4>3, <4>5, <4>6, FiresAssumption DEF Starts
      <4> QED BY <1>1, <2>5, <4>5, <4>7
    <3> QED BY <1>1, <3>1, <3>2
  <2> QED BY <2>1, <2>7, <2>8 DEF s, first
<1> QED BY <1>0, <1>3, <1>4, <1>5 DEF CatchUpsBehind, CatchUp

\* What is discarded is behind the clock that follows.
LEMMA DiscardsStayBehind ==
  ASSUME IInv, NEW row, NEW at, TableStep(row, at)
  PROVE  DiscardsBehind'
<1> USE DEF IInv
<1> SUFFICES ASSUME NEW s \in Schedules, Stored(s)', jobs'[s].id \notin overtaken',
                    NEW d \in discarded'[s]
             PROVE  d.at < jobs'[s].nextRunAt
  BY DEF DiscardsBehind
<1>1. /\ row[s] \in Rows /\ at \in 0..MaxTime /\ at \in Nat /\ overtaken \subseteq overtaken'
      /\ jobs[s].nextRunAt \in Nat /\ jobs'[s].nextRunAt \in Nat /\ d.at \in Nat
  <2>1. TypeOK'
    BY StepTypes
  <2>2. d \in [at : Instants, policy : Policies] /\ jobs'[s] \in Rows
    BY <2>1 DEF TypeOK
  <2> QED BY <2>2, StepTypes, JobTypes, Numbers DEF TableStep, Rows
<1>2. Stored(s) /\ jobs[s].id \notin overtaken' /\ d \in discarded[s] => d.at < jobs[s].nextRunAt
  BY <1>1 DEF DiscardsBehind
<1>3. Behind(Plan(s, row[s], at), row[s]) /\ row[s].nextRunAt <= Plan(s, row[s], at).next
  BY <1>1, PlanAnswers, PlanNext
<1>4. CASE Keeps(s)
  BY <1>2, <1>4 DEF Keeps, Held, Stored
<1>5. CASE Drops(s)
  BY <1>5 DEF Drops, Stored, NoJob
<1>6. CASE Advances(s, row[s], at)
  <2>1. jobs'[s].nextRunAt = Plan(s, row[s], at).next /\ row[s].nextRunAt = jobs[s].nextRunAt
        /\ Stored(s) /\ jobs[s].id \notin overtaken'
    BY <1>6 DEF Advances, Held
  <2>2. CASE d \in discarded[s]
    <3>1. d.at < jobs[s].nextRunAt /\ jobs[s].nextRunAt <= jobs'[s].nextRunAt
      BY <1>2, <1>3, <2>1, <2>2
    <3> QED BY <1>1, <3>1
  <2>3. CASE d \in Plan(s, row[s], at).discards
    BY <1>3, <2>1, <2>3 DEF Behind
  <2> QED BY <1>6, <2>2, <2>3 DEF Advances
<1>7. CASE PutsOff(s, at)
  <2>1. /\ d \in discarded[s] /\ Stored(s) /\ jobs[s].id \notin overtaken'
        /\ jobs[s].nextRunAt <= at + Lookahead /\ jobs'[s].nextRunAt = at + PlanRetry
    BY <1>7 DEF PutsOff, Held, Due
  <2>2. d.at < jobs[s].nextRunAt
    BY <1>2, <2>1
  <2>3. at + Lookahead < at + PlanRetry /\ at + Lookahead \in Nat /\ at + PlanRetry \in Nat
    BY <1>1, Numbers
  <2> QED BY <1>1, <2>1, <2>2, <2>3
<1>8. CASE Starts(s, row[s], at)
  BY <1>3, <1>8 DEF Starts, Behind
<1> QED BY <1>4, <1>5, <1>6, <1>7, <1>8, StepTypes DEF Changes

\* A plan's discards and what was discarded before it are answered, or the clock is near.
LEMMA PlansAnswer ==
  ASSUME IInv, NEW row, NEW at, TableStep(row, at), NEW s \in Schedules,
         Stored(s)', jobs'[s].id \notin overtaken',
         NEW d \in discarded'[s], d.policy = "coalesce",
         Advances(s, row[s], at) \/ Starts(s, row[s], at)
  PROVE  \/ Answered(s, d)'
         \/ jobs'[s].nextRunAt <= now' + Reach
<1> USE DEF IInv
<1> DEFINE p == Plan(s, row[s], at)
<1>1. /\ row[s] \in Rows /\ at \in 0..MaxTime /\ at \in Nat /\ at <= now /\ now' = now
      /\ overtaken \subseteq overtaken' /\ now \in Nat
      /\ row[s].nextRunAt \in Nat /\ jobs'[s].nextRunAt \in Nat /\ d.at \in Nat
      /\ \A x \in p.discards : x.at \in Nat
      /\ \A o \in p.occurrences : o.at \in Nat
      /\ Reach \in Nat /\ Window <= Reach /\ Window \in Nat
  <2>1. TypeOK' /\ row[s] \in Rows /\ at \in 0..MaxTime
    BY StepTypes
  <2>2. d \in [at : Instants, policy : Policies] /\ jobs'[s] \in Rows
    BY <2>1 DEF TypeOK
  <2>3. Planned(p, s, row[s], at)
    BY <2>1, PlanIsPlanned
  <2>4. \A x \in p.discards : x.at \in Instants
    BY <2>3 DEF Planned
  <2>5. \A o \in p.occurrences : o.at \in Instants
    BY <2>3 DEF Planned
  <2>6. overtaken \subseteq overtaken'
    BY DEF TableStep
  <2>7. row[s].nextRunAt \in 0..Never /\ jobs'[s].nextRunAt \in 0..Never /\ d.at \in Instants
    BY <2>1, <2>2 DEF Rows
  <2>8. 0..Never \subseteq Nat /\ Instants \subseteq Nat
    BY Numbers
  <2> HIDE DEF p
  <2> QED BY <2>1, <2>4, <2>5, <2>6, <2>7, <2>8, StepTypes, ReachIs, Numbers
<1>2. Leaves(p, row[s], at) /\ Behind(p, row[s]) /\ row[s].nextRunAt <= p.next
  BY <1>1, PlanAnswers, PlanNext
<1>3. /\ jobs'[s].nextRunAt = p.next /\ jobs'[s].id = row[s].id
      /\ p.discards \subseteq discarded'[s]
      /\ \A o \in p.occurrences : Holds(tasks', row[s].id, o.at)
  BY DEF Advances, Starts, RecordsPlan, Held
<1>4. d \in p.discards \/ (d.at < row[s].nextRunAt /\ Advances(s, row[s], at) /\ d \in discarded[s])
  <2>1. CASE Starts(s, row[s], at)
    BY <2>1 DEF Starts
  <2>2. CASE Advances(s, row[s], at)
    <3>1. /\ Stored(s) /\ jobs[s].id \notin overtaken /\ jobs[s].id \notin overtaken'
          /\ row[s].nextRunAt = jobs[s].nextRunAt
          /\ d \in discarded[s] \cup p.discards
      BY <1>1, <2>2 DEF Advances, Held
    <3> QED BY <2>2, <3>1 DEF DiscardsBehind
  <2> QED BY <2>1, <2>2
<1> HIDE DEF p
<1>5. CASE p.next <= at + Window
  <2>1. p.next <= now + Reach
    BY <1>1, <1>3, <1>5
  <2> QED BY <1>1, <1>3, <2>1
<1>6. CASE p.next = row[s].nextRunAt /\ p.discards = {}
  <2>1. /\ Advances(s, row[s], at) /\ d \in discarded[s]
    BY <1>4, <1>6
  <2>2. /\ Stored(s) /\ jobs[s].id \notin overtaken /\ Held(s)
        /\ row[s].nextRunAt = jobs[s].nextRunAt
    BY <1>1, <2>1 DEF Advances, Held
  <2>3. Answered(s, d) \/ jobs[s].nextRunAt <= now + Reach
    BY <2>1, <2>2 DEF BacklogGoesOn, Reach
  <2>4. Answered(s, d) => Answered(s, d)'
    BY <2>2 DEF Answered, Held, Holds
  <2> QED BY <1>1, <1>3, <1>6, <2>2, <2>3, <2>4
<1>7. CASE \E o \in p.occurrences :
             row[s].nextRunAt <= o.at /\ \A x \in p.discards : x.at <= o.at
  <2>1. PICK o \in p.occurrences :
          row[s].nextRunAt <= o.at /\ \A x \in p.discards : x.at <= o.at
    BY <1>7
  <2>2. d.at <= o.at
    BY <1>1, <1>4, <2>1
  <2>3. Holds(tasks', jobs'[s].id, o.at)
    BY <1>3
  <2> QED BY <1>1, <2>2, <2>3 DEF Answered, Holds
<1>8. CASE row[s].policy = "skip" /\ \E x \in p.discards : row[s].nextRunAt <= x.at
  <2>1. PICK x \in p.discards : row[s].nextRunAt <= x.at
    BY <1>8
  <2>2. x.policy = "skip" /\ x \in discarded'[s] /\ d \notin p.discards
    BY <1>2, <1>3, <1>8, <2>1 DEF Behind
  <2>3. x.at > d.at
    BY <1>1, <1>4, <2>1, <2>2
  <2> QED BY <2>2, <2>3 DEF Answered
<1> QED BY <1>2, <1>5, <1>6, <1>7, <1>8 DEF Leaves

\* So a backlog that was discarded goes on.
LEMMA BacklogsStayGoingOn ==
  ASSUME IInv, NEW row, NEW at, TableStep(row, at)
  PROVE  BacklogGoesOn'
<1> USE DEF IInv
<1> SUFFICES ASSUME NEW s \in Schedules, NEW d \in discarded'[s],
                    Stored(s)', jobs'[s].id \notin overtaken', d.policy = "coalesce"
             PROVE  \/ Answered(s, d)'
                    \/ jobs'[s].nextRunAt <= now' + Reach
  BY DEF BacklogGoesOn, Reach
<1>1. /\ at \in Nat /\ at <= now /\ now' = now /\ overtaken \subseteq overtaken' /\ now \in Nat
      /\ Reach \in Nat /\ PlanRetry <= Reach /\ PlanRetry \in Nat
  BY StepTypes, ReachIs, Numbers DEF TableStep
<1>2. CASE Keeps(s)
  <2>1. /\ Stored(s) /\ jobs[s].id \notin overtaken /\ d \in discarded[s] /\ Held(s)
        /\ jobs'[s].nextRunAt = jobs[s].nextRunAt
    BY <1>1, <1>2 DEF Keeps, Held, Stored
  <2>2. Answered(s, d) \/ jobs[s].nextRunAt <= now + Reach
    BY <2>1 DEF BacklogGoesOn, Reach
  <2>3. Answered(s, d) => Answered(s, d)'
    BY <2>1 DEF Answered, Held, Holds
  <2> QED BY <1>1, <2>1, <2>2, <2>3
<1>3. CASE Drops(s)
  BY <1>3 DEF Drops, Stored, NoJob
<1>4. CASE PutsOff(s, at)
  <2>1. jobs'[s].nextRunAt = at + PlanRetry
    BY <1>4 DEF PutsOff
  <2> QED BY <1>1, <2>1
<1>5. CASE Advances(s, row[s], at) \/ Starts(s, row[s], at)
  BY <1>5, PlansAnswer
<1> QED BY <1>2, <1>3, <1>4, <1>5, StepTypes DEF Changes

\* What ClockMovesOn says of a step.
ClocksMove ==
  \A s \in Schedules : Stored(s) /\ jobs'[s].id = jobs[s].id =>
    \/ jobs[s].nextRunAt <= jobs'[s].nextRunAt
    \/ jobs[s].id \in overtaken'
    \/ \E m \in Mains : Redefine(m)

\* A step on the tables does not move a clock back, but for what ClocksMove names.
LEMMA ClocksMoveForward ==
  ASSUME IInv, NEW row, NEW at, TableStep(row, at)
  PROVE  ClocksMove
<1>1. SUFFICES ASSUME NEW s \in Schedules, Stored(s), jobs'[s].id = jobs[s].id
               PROVE  \/ jobs[s].nextRunAt <= jobs'[s].nextRunAt
                      \/ jobs[s].id \in overtaken'
                      \/ \E m \in Mains : Redefine(m)
  BY DEF ClocksMove
<1>2. jobs[s].nextRunAt \in Nat /\ at \in Nat /\ row[s] \in Rows /\ at \in 0..MaxTime
  BY JobTypes, StepTypes DEF IInv
<1>3. CASE Keeps(s)
  BY <1>2, <1>3 DEF Keeps
<1>4. CASE Drops(s)
  BY <1>1, <1>4 DEF Drops, Stored, NoJob
<1>5. CASE Advances(s, row[s], at)
  <2>1. jobs'[s].nextRunAt = Plan(s, row[s], at).next
    BY <1>5 DEF Advances
  <2>2. row[s].nextRunAt <= jobs'[s].nextRunAt
    BY <1>2, <2>1, PlanNext
  <2> QED BY <1>5, <2>2 DEF Advances
<1>6. CASE PutsOff(s, at)
  <2>1. jobs'[s].nextRunAt = at + PlanRetry /\ jobs[s].nextRunAt <= at + Lookahead
    BY <1>6 DEF PutsOff, Due
  <2>2. at + Lookahead <= at + PlanRetry /\ at + Lookahead \in Nat /\ at + PlanRetry \in Nat
    BY <1>2, Numbers
  <2> QED BY <1>2, <2>1, <2>2
<1>7. CASE Starts(s, row[s], at)
  BY <1>1, <1>7 DEF Starts
<1> QED BY <1>3, <1>4, <1>5, <1>6, <1>7, StepTypes DEF Changes

\* Together: a step on the tables keeps the invariant and moves clocks on.
LEMMA TableStepKeeps ==
  ASSUME IInv, NEW row, NEW at, TableStep(row, at)
  PROVE  IInv' /\ ClocksMove
BY RowsStayConsistent, LocksStayHeld, CyclesStayGoingOn, OneOffsStayWaiting, SinceStaysBounded,
   StaysAccounted, SeedsStayAccounted, CatchUpsStayBehind, DiscardsStayBehind, BacklogsStayGoingOn,
   ClocksMoveForward DEF IInv, TableStep

-----------------------------------------------------------------------------
(* The steps that plan nothing. *)

\* What the invariant says of the task table, in the terms of the lemmas.
LEMMA TasksAre ==
  ASSUME IInv
  PROVE  /\ tasks \in SUBSET Task /\ Unique(tasks) /\ Alone(tasks, overtaken, spared)
         /\ \A t \in tasks : /\ t.id # 0 /\ t.id \in Nat /\ t.id <= inserted
                             /\ \E s \in Schedules : jobs[s].id = t.id
<1>1. tasks \in SUBSET Task /\ Unique(tasks) /\ Alone(tasks, overtaken, spared)
  BY DEF IInv, TypeOK, Accounted, Unique, BacklogsRetired
<1>2. ASSUME NEW t \in tasks
      PROVE  /\ t.id # 0 /\ t.id \in Nat /\ t.id <= inserted
             /\ \E s \in Schedules : jobs[s].id = t.id
  <2>1. t.id # 0 /\ t.id \in Nat
    BY <1>1, Numbers DEF Task
  <2> QED BY <2>1 DEF IInv, RowsConsistent
<1> QED BY <1>1, <1>2

\* Rewriting the columns no run is told apart by leaves catch-up runs alone.
LEMMA RewrittenAlone ==
  ASSUME NEW ts, NEW over, NEW sp, Alone(ts, over, sp),
         NEW all, \A u \in all : \E t \in ts : SameRun(u, t)
  PROVE  Alone(all, over, sp)
<1>1. SUFFICES ASSUME NEW t \in all, NEW u \in all, t.id = u.id, t.id \notin over,
                      CatchUp(t), u.at < t.at
               PROVE  u.status = "missed" \/ Run(u) \in sp
  BY DEF Alone
<1>2. PICK x \in ts : SameRun(t, x)
  OBVIOUS
<1>3. PICK y \in ts : SameRun(u, y)
  OBVIOUS
<1>4. y.status = "missed" \/ Run(y) \in sp
  BY <1>1, <1>2, <1>3 DEF SameRun, Alone, CatchUp
<1> QED BY <1>3, <1>4 DEF SameRun, Run

\* Dropping the jobs of gone and their tasks leaves the tasks of every other job.
LEMMA RemovalKeeps ==
  ASSUME IInv, NEW gone \in SUBSET Schedules, NEW left, left = WithoutTasksOf(gone)
  PROVE  /\ left \subseteq tasks /\ Unique(left) /\ Alone(left, overtaken, spared)
         /\ \A s \in Schedules \ gone, t \in tasks : t.id = jobs[s].id => t \in left
         /\ \A t \in left : \E s \in Schedules \ gone : jobs[s].id = t.id
<1>1. left \subseteq tasks /\ \A t \in left : \A s \in gone : jobs[s].id # t.id
  BY DEF WithoutTasksOf, IdsOf
<1>2. ASSUME NEW s \in Schedules \ gone, NEW t \in tasks, t.id = jobs[s].id PROVE t \in left
  <2>1. \A x \in gone : jobs[x].id # t.id
    BY <1>2, TasksAre DEF IInv, RowsConsistent, Stored
  <2> QED BY <2>1 DEF WithoutTasksOf, IdsOf
<1>3. \A t \in left : \E s \in Schedules \ gone : jobs[s].id = t.id
  BY <1>1, TasksAre
<1> QED BY <1>1, <1>2, <1>3, TasksAre DEF Unique, Alone

\* A step that leaves the jobs alone and at most rewrites tasks or ends a transaction.
LEMMA JobsLeftAlone ==
  ASSUME IInv, TypeOK', UNCHANGED <<now, jobs, since, discarded, overtaken, spared, inserted>>,
         \A m \in Mains : txn'[m] \in {Idle, txn[m]},
         Unique(tasks'),
         \A t \in tasks : Holds(tasks', t.id, t.at),
         \A u \in tasks' : \E t \in tasks : SameRun(u, t)
  PROVE  IInv'
<1>1. /\ now' = now /\ jobs' = jobs /\ since' = since /\ discarded' = discarded
      /\ overtaken' = overtaken /\ spared' = spared /\ inserted' = inserted
  OBVIOUS
<1>2. \A s \in Schedules : Keeps(s)
  BY <1>1 DEF Keeps, Held
<1>3. BacklogsRetired'
  BY <1>1, TasksAre, RewrittenAlone DEF BacklogsRetired
<1>4. \A u \in tasks' : \E s \in Schedules : jobs'[s].id = u.id
  BY <1>1, TasksAre DEF SameRun
<1>5. \A m \in Mains : txn'[m] # Idle =>
        \A s \in txn[m].locks : jobs'[s] = jobs[s] /\ since'[s] = since[s]
  BY <1>1
<1>6. /\ now \in 0..now /\ jobs \in [Schedules -> Rows] /\ inserted <= inserted
  BY JobTypes, Numbers DEF IInv, TypeOK
<1>7. TableStep(jobs, now)
  BY <1>1, <1>2, <1>3, <1>4, <1>5, <1>6 DEF TableStep, Changes, IInv, RowsConsistent, Stored
<1> QED BY <1>7, TableStepKeeps

\* One task rewritten in the table.
LEMMA OneTaskRewritten ==
  ASSUME NEW ts \in SUBSET Task, Unique(ts), NEW t \in ts, NEW v \in Task, SameRun(v, t),
         NEW all, all = (ts \ {t}) \cup {v}
  PROVE  /\ all \subseteq Task /\ Unique(all)
         /\ \A x \in ts : Holds(all, x.id, x.at)
         /\ \A u \in all : \E x \in ts : SameRun(u, x)
<1>1. all \subseteq Task
  OBVIOUS
<1>2. Unique(all)
  BY DEF Unique, SameRun
<1>3. \A x \in ts : Holds(all, x.id, x.at)
  BY DEF Holds, SameRun
<1>4. \A u \in all : \E x \in ts : SameRun(u, x)
  BY DEF SameRun
<1> QED BY <1>1, <1>2, <1>3, <1>4

\* Executors and the sweep for missed tasks rewrite a task, and none that is missed.
LEMMA TasksMoveOn ==
  ASSUME IInv, ClaimTask \/ ReleaseClaim \/ Retry \/ RetireMissedPending
  PROVE  IInv'
<1>1. /\ UNCHANGED <<now, jobs, since, discarded, overtaken, spared, inserted>>
      /\ txn' = txn
  <2>1. CASE ClaimTask
    BY <2>1 DEF ClaimTask, history, bounds
  <2>2. CASE ReleaseClaim
    BY <2>2 DEF ReleaseClaim, history
  <2>3. CASE Retry
    BY <2>3, Zenon DEF Retry, history
  <2>4. CASE RetireMissedPending
    BY <2>4 DEF RetireMissedPending, history, bounds
  <2> QED BY <2>1, <2>2, <2>3, <2>4
<1>2. now + Backoff \in Nat
  <2>1. Backoff \in Nat /\ now \in Nat
    BY OptionsAssumption, Numbers DEF IInv, TypeOK
  <2> QED BY <2>1
<1>3. \E t \in tasks : \E v \in Task : SameRun(v, t) /\ tasks' = (tasks \ {t}) \cup {v}
  <2>1. CASE ClaimTask
    <3>1. PICK t \in tasks : /\ t.status = "pending"
                             /\ tasks' = (tasks \ {t}) \cup {[t EXCEPT !.status = "claimed"]}
      BY <2>1 DEF ClaimTask
    <3>2. [t EXCEPT !.status = "claimed"] \in Task /\ SameRun([t EXCEPT !.status = "claimed"], t)
      BY <3>1, TasksAre DEF Task, SameRun
    <3> QED BY <3>1, <3>2
  <2>2. CASE ReleaseClaim
    <3>1. PICK t \in tasks : /\ t.status = "claimed"
                             /\ tasks' = (tasks \ {t}) \cup {[t EXCEPT !.status = "pending"]}
      BY <2>2 DEF ReleaseClaim
    <3>2. [t EXCEPT !.status = "pending"] \in Task /\ SameRun([t EXCEPT !.status = "pending"], t)
      BY <3>1, TasksAre DEF Task, SameRun
    <3> QED BY <3>1, <3>2
  <2>3. CASE Retry
    <3> DEFINE Again(t) == [t EXCEPT !.status = "pending", !.runAt = now + Backoff,
                                     !.retried = TRUE]
    <3>1. PICK t \in tasks : /\ t.status = "claimed"
                             /\ tasks' = (tasks \ {t}) \cup {Again(t)}
      BY <2>3, Zenon DEF Retry
    <3> DEFINE v == Again(t)
    <3>2. v \in Task /\ SameRun(v, t)
      BY <1>2, <3>1, TasksAre DEF Task, SameRun
    <3> QED BY <3>1, <3>2
  <2>4. CASE RetireMissedPending
    <3>1. PICK t \in tasks : tasks' = (tasks \ {t}) \cup {[t EXCEPT !.status = "missed"]}
      BY <2>4 DEF RetireMissedPending
    <3>2. [t EXCEPT !.status = "missed"] \in Task /\ SameRun([t EXCEPT !.status = "missed"], t)
      BY <3>1, TasksAre DEF Task, SameRun
    <3> QED BY <3>1, <3>2
  <2> QED BY <2>1, <2>2, <2>3, <2>4
<1>4. PICK t \in tasks, v \in Task : SameRun(v, t) /\ tasks' = (tasks \ {t}) \cup {v}
  BY <1>3
<1>5. /\ tasks' \subseteq Task /\ Unique(tasks')
      /\ \A x \in tasks : Holds(tasks', x.id, x.at)
      /\ \A u \in tasks' : \E x \in tasks : SameRun(u, x)
  BY <1>4, TasksAre, OneTaskRewritten
<1>6. TypeOK'
  BY <1>1, <1>5 DEF IInv, TypeOK
<1> QED BY <1>1, <1>5, <1>6, JobsLeftAlone

\* A transaction that rolls back leaves the tables as they are.
LEMMA TransactionsRollBack ==
  ASSUME IInv, NEW m \in Mains, Abort(m) \/ SeedFails(m)
  PROVE  IInv'
<1>1. /\ UNCHANGED <<now, jobs, since, discarded, overtaken, spared, inserted>>
      /\ tasks' = tasks
      /\ txn' = [txn EXCEPT ![m] = Idle]
  BY DEF Abort, SeedFails, history, bounds, Finish
<1>2. TypeOK'
  BY <1>1 DEF IInv, TypeOK
<1>3. \A o \in Mains : txn'[o] \in {Idle, txn[o]}
  BY <1>1 DEF IInv, TypeOK
<1>4. /\ \A t \in tasks : Holds(tasks', t.id, t.at)
      /\ \A u \in tasks' : \E t \in tasks : SameRun(u, t)
  BY <1>1 DEF Holds, SameRun
<1>5. Unique(tasks')
  BY <1>1, TasksAre
<1> QED BY <1>1, <1>2, <1>3, <1>4, <1>5, JobsLeftAlone

-----------------------------------------------------------------------------
(* The steps that open a transaction, and time. *)

\* The clauses of the invariant about one transaction.
TxnFits(t) ==
  /\ t.phase \in {"materializing", "provisioning"} =>
       \A s \in Schedules : t.rows[s].id <= inserted
  /\ t.phase = "seeding" => t.row.id <= inserted /\ t.row.id # 0
  /\ t.phase \in {"materializing", "seeding"} => t.at <= now
  /\ t.phase = "materializing" =>
       \A s \in t.locks : /\ t.rows[s] = jobs[s] /\ Stored(s) /\ Due(jobs[s], t.at)
                          /\ s \in Cyclic => since[s] <= t.at + PlanRetry
  /\ t.phase = "seeding" => \A s \in t.locks : Stored(s)
  /\ t.phase = "provisioning" =>
       /\ \A s \in Cyclic : t.rows[s].id # 0 => t.rows[s].nextRunAt # Never
       /\ t.want \in Cyclic => t.first # Never
       /\ \A s \in Schedules \ Cyclic :
            /\ t.rows[s].id # 0 /\ t.rows[s].nextRunAt = Never => Waits(s, now + Window)
            /\ t.want = s /\ t.first # Never => \A f \in Fires[s] : f = t.first
            /\ t.want = s /\ t.first = Never => Waits(s, now)
       /\ t.rows[t.want].id # 0 /\ t.rows[t.want].id = jobs[t.want].id
          /\ jobs[t.want].id \notin overtaken
          /\ t.rows[t.want].nextRunAt = Never /\ t.first # Never
          => /\ jobs[t.want].nextRunAt = Never
             /\ \A x \in tasks : x.id = jobs[t.want].id /\ CatchUp(x) => x.at <= t.first
  /\ t.phase = "seeding" =>
       /\ t.want \in Cyclic => t.row.nextRunAt # Never
       /\ t.want \in Schedules \ Cyclic => Waits(t.want, t.row.nextRunAt)
       /\ jobs[t.want].id = t.row.id =>
            /\ t.want \in Cyclic =>
                 since[t.want] <= t.row.nextRunAt \/ since[t.want] <= now + PlanRetry
            /\ t.row.nextRunAt # Never => Covered(t.want, t.row.nextRunAt)

\* A transaction that fits opens over locks nobody holds.
LEMMA OpeningKeeps ==
  ASSUME IInv, NEW m \in Mains, NEW t, txn' = [txn EXCEPT ![m] = t], TxnFits(t),
         t \in Materializing \cup Provisioning \cup Seeding,
         UNCHANGED <<now, jobs, tasks, since, discarded, overtaken, spared, inserted>>,
         \A s \in t.locks : ~Locked(s)
  PROVE  IInv'
<1> USE DEF IInv
<1>0. /\ now' = now /\ jobs' = jobs /\ tasks' = tasks /\ since' = since
      /\ discarded' = discarded /\ overtaken' = overtaken /\ spared' = spared
      /\ inserted' = inserted
  OBVIOUS
<1>1. TypeOK'
  BY <1>0 DEF TypeOK
<1>2. /\ txn'[m] = t /\ \A o \in Mains \ {m} : txn'[o] = txn[o]
      /\ t # Idle /\ t.phase # "idle"
  BY DEF TypeOK, Idle, Materializing, Provisioning, Seeding
<1>3. RowsConsistent'
  BY <1>0, <1>2 DEF RowsConsistent, TxnFits, Stored
<1>4. LocksHeld'
  <2>1. \A o \in Mains \ {m} : txn[o] # Idle => txn[o].locks \cap t.locks = {}
    BY TxnTypes DEF Locked
  <2>2. ASSUME NEW a \in Mains, NEW o \in Mains, a # o, txn'[a] # Idle, txn'[o] # Idle
        PROVE  txn'[a].locks \cap txn'[o].locks = {}
    BY <1>2, <2>1, <2>2 DEF LocksHeld
  <2> QED BY <1>0, <1>2, <2>2 DEF LocksHeld, TxnFits, Stored, Due
<1>5. CyclesGoOn'
  BY <1>0, <1>2 DEF CyclesGoOn, TxnFits, Stored
<1>6. OneOffsWait'
  BY <1>0, <1>2 DEF OneOffsWait, TxnFits, Stored, Waits
<1>7. SinceBounded'
  BY <1>0, <1>2 DEF SinceBounded, TxnFits, Stored
<1>8. Accounted' /\ BacklogsRetired'
  BY <1>0 DEF Accounted, BacklogsRetired, Alone, CatchUp, Stored
<1>9. SeedsAccounted'
  BY <1>0, <1>2 DEF SeedsAccounted, TxnFits, Covered, Told
<1>10. CatchUpsBehind'
  BY <1>0, <1>2 DEF CatchUpsBehind, TxnFits, CatchUp
<1>11. DiscardsBehind' /\ BacklogGoesOn'
  BY <1>0 DEF DiscardsBehind, BacklogGoesOn, Answered, Stored
<1> QED BY <1>1, <1>3, <1>4, <1>5, <1>6, <1>7, <1>8, <1>9, <1>10, <1>11

\* A pass opens over due rows that nobody holds, read as they are.
LEMMA ClaimsKeep ==
  ASSUME IInv, NEW m \in Mains, ClaimDueJobs(m)
  PROVE  IInv'
<1> DEFINE due == {s \in Schedules : Claimable(s)}
           t == [phase |-> "materializing", at |-> now, rows |-> jobs, locks |-> due]
<1>1. t \in Materializing
  BY DEF IInv, TypeOK, Materializing
<1>2. t.phase = "materializing" /\ t.at = now /\ t.rows = jobs /\ t.locks = due
  OBVIOUS
<1>3. ASSUME NEW s \in due
      PROVE  /\ Stored(s) /\ Due(jobs[s], now) /\ ~Locked(s) /\ s \in Schedules
             /\ s \in Cyclic => since[s] <= now + PlanRetry
  <2>1. s \in Schedules /\ Due(jobs[s], now) /\ ~Locked(s)
    BY DEF Claimable
  <2>2. Stored(s)
    BY <2>1 DEF IInv, RowsConsistent, NoJob, Due
  <2>3. jobs[s].nextRunAt <= now + Lookahead /\ Lookahead < PlanRetry /\ now \in Nat
        /\ Lookahead \in Nat /\ PlanRetry \in Nat /\ since[s] \in Nat /\ jobs[s].nextRunAt \in Nat
    BY <2>1, JobTypes, Numbers DEF Due, IInv
  <2>4. jobs[s].nextRunAt <= now + PlanRetry
    BY <2>3
  <2>5. s \in Cyclic => since[s] <= jobs[s].nextRunAt \/ since[s] <= now + PlanRetry
    BY <2>2 DEF IInv, SinceBounded
  <2>6. now + PlanRetry \in Nat
    BY <2>3
  <2>7. s \in Cyclic => since[s] <= now + PlanRetry
    BY <2>3, <2>4, <2>5, <2>6
  <2> QED BY <2>1, <2>2, <2>7
<1>4. \A s \in Schedules : jobs[s].id <= inserted
  BY DEF IInv, RowsConsistent
<1>5. now <= now
  BY JobTypes DEF IInv, TypeOK
<1>6. txn' = [txn EXCEPT ![m] = t]
      /\ UNCHANGED <<now, jobs, tasks, since, discarded, overtaken, spared, inserted>>
  BY DEF ClaimDueJobs, Begin, history, bounds
<1> HIDE DEF t, due
<1>7. TxnFits(t)
  BY <1>2, <1>3, <1>4, <1>5 DEF TxnFits
<1> QED BY <1>1, <1>2, <1>3, <1>6, <1>7, OpeningKeeps

\* The registrar's first run is the next fire, or none when a one-off has passed.
LEMMA FirstRuns ==
  ASSUME TypeOK, NEW s \in Schedules, NEW first, first = FirstRunAt(s)
  PROVE  /\ first \in 0..Never
         /\ first # Never => first \in Fires[s] /\ first > now
         /\ first = Never => s \notin Cyclic /\ \A f \in Fires[s] : f <= now
<1> DEFINE rest == {f \in Fires[s] : f > now}
<1>1. now \in Nat /\ now <= MaxTime /\ Fires[s] \subseteq Instants
  BY FiresAssumption, Numbers DEF TypeOK
<1>2. CASE rest = {}
  <2>1. first = Never
    BY <1>2 DEF FirstRunAt
  <2>2. \A f \in Fires[s] : f <= now
    BY <1>1, <1>2, InstantsAre
  <2>3. s \notin Cyclic
    <3>1. s \in Cyclic => Never - 1 <= now
      BY <2>2, FiresAssumption
    <3> QED BY <1>1, <3>1, Numbers
  <2> QED BY <2>1, <2>2, <2>3, InstantsAre
<1>3. CASE rest # {}
  <2>1. first = Min(rest) /\ rest \subseteq Nat
    BY <1>1, <1>3, InstantsAre DEF FirstRunAt
  <2>2. first \in rest
    BY <1>3, <2>1, MinOf
  <2> QED BY <1>1, <2>2, InstantsAre
<1> QED BY <1>2, <1>3

\* A provisioning transaction opens with the rows as they are and a first run after now.
LEMMA FindsKeep ==
  ASSUME IInv, NEW m \in Mains, FindExisting(m)
  PROVE  IInv'
<1> USE DEF IInv
<1>1. PICK s \in Schedules, p \in Policies :
        Begin(m, [phase |-> "provisioning", want |-> s, policy |-> p,
                  first |-> FirstRunAt(s), rows |-> jobs, locks |-> {}])
  BY DEF FindExisting
<1> DEFINE t == [phase |-> "provisioning", want |-> s, policy |-> p,
                 first |-> FirstRunAt(s), rows |-> jobs, locks |-> {}]
<1>2. /\ FirstRunAt(s) \in 0..Never
      /\ FirstRunAt(s) # Never => FirstRunAt(s) \in Fires[s] /\ FirstRunAt(s) > now
      /\ FirstRunAt(s) = Never => s \notin Cyclic /\ \A f \in Fires[s] : f <= now
  BY FirstRuns
<1>3. t \in Provisioning
  BY <1>2 DEF TypeOK, Provisioning
<1>4. /\ t.phase = "provisioning" /\ t.want = s /\ t.first = FirstRunAt(s) /\ t.rows = jobs
      /\ t.locks = {}
  OBVIOUS
<1>5. txn' = [txn EXCEPT ![m] = t]
      /\ UNCHANGED <<now, jobs, tasks, since, discarded, overtaken, spared, inserted>>
  BY <1>1 DEF FindExisting, Begin, history, bounds
<1>6. s \notin Cyclic /\ FirstRunAt(s) # Never => \A f \in Fires[s] : f = FirstRunAt(s)
  BY <1>2, FiresAssumption
<1>7. \A x \in tasks : CatchUp(x) /\ FirstRunAt(s) # Never => x.at <= FirstRunAt(s)
  <2>1. now \in Nat /\ FirstRunAt(s) \in Nat /\ \A x \in tasks : x.at \in Nat
    BY <1>2, JobTypes, TasksAre, Numbers, InstantsAre DEF Task
  <2> QED BY <1>2, <2>1 DEF CatchUpsBehind
<1>8. \A x \in Cyclic : jobs[x].id # 0 => jobs[x].nextRunAt # Never
  BY DEF CyclesGoOn, Stored
<1>9. /\ \A x \in Schedules : jobs[x].id <= inserted
      /\ \A x \in Schedules \ Cyclic :
           jobs[x].id # 0 /\ jobs[x].nextRunAt = Never => Waits(x, now + Window)
  BY DEF RowsConsistent, OneOffsWait, Stored
<1> HIDE DEF t
<1>10. TxnFits(t)
  BY <1>2, <1>4, <1>6, <1>7, <1>8, <1>9 DEF TxnFits, Waits
<1> QED BY <1>3, <1>4, <1>5, <1>10, OpeningKeeps

\* A seed opens with the row that another main inserted.
LEMMA IgnoredInsertsKeep ==
  ASSUME IInv, NEW m \in Mains, InsertIgnored(m)
  PROVE  IInv'
<1> USE DEF IInv
<1> DEFINE s == txn[m].want
           gone == Removed(txn[m])
           t == [phase |-> "seeding", want |-> s, at |-> now, row |-> jobs[s], locks |-> gone]
<1>1. /\ s \in Schedules /\ Stored(s) /\ gone \subseteq Schedules
      /\ \A x \in gone : ~Locked(x) /\ Stored(x)
      /\ txn' = [txn EXCEPT ![m] = t]
      /\ UNCHANGED <<now, jobs, tasks, since, discarded, overtaken, spared, inserted>>
  BY TxnTypes DEF InsertIgnored, Begin, history, bounds, Removed, Provisioning, Stored
<1>2. t \in Seeding
  BY <1>1, JobTypes DEF TypeOK, Seeding
<1>3. t.phase = "seeding" /\ t.want = s /\ t.at = now /\ t.row = jobs[s] /\ t.locks = gone
  OBVIOUS
<1>4. now <= now /\ jobs[s].id # 0 /\ jobs[s].id <= inserted
  BY <1>1, JobTypes DEF Stored, RowsConsistent
<1>5. /\ s \in Cyclic => /\ jobs[s].nextRunAt # Never
                         /\ since[s] <= jobs[s].nextRunAt \/ since[s] <= now + PlanRetry
      /\ s \in Schedules \ Cyclic => Waits(s, jobs[s].nextRunAt)
      /\ Covered(s, jobs[s].nextRunAt)
  BY <1>1 DEF CyclesGoOn, SinceBounded, OneOffsWait, Accounted, Covered, Told
<1> HIDE DEF t, s, gone
<1>6. TxnFits(t)
  BY <1>1, <1>3, <1>4, <1>5 DEF TxnFits
<1> QED BY <1>1, <1>2, <1>3, <1>6, OpeningKeeps

\* Time only widens what is due.
LEMMA TicksKeep ==
  ASSUME IInv, Tick
  PROVE  IInv'
<1> USE DEF IInv
<1>1. /\ now' = now + 1 /\ now < MaxTime
      /\ jobs' = jobs /\ tasks' = tasks /\ txn' = txn /\ since' = since
      /\ discarded' = discarded /\ overtaken' = overtaken /\ spared' = spared
      /\ inserted' = inserted
  BY DEF Tick, history, bounds
<1>2. now \in Nat /\ MaxTime \in Nat /\ Window \in Nat /\ PlanRetry \in Nat
  BY Numbers DEF TypeOK
<1>3. TypeOK'
  BY <1>1, <1>2 DEF TypeOK
<1>4. /\ RowsConsistent' /\ CyclesGoOn' /\ Accounted' /\ SeedsAccounted' /\ BacklogsRetired'
      /\ DiscardsBehind'
  BY <1>1 DEF RowsConsistent, CyclesGoOn, Accounted, SeedsAccounted, BacklogsRetired, Alone,
              CatchUp, DiscardsBehind, Told, Stored
<1>5. LocksHeld'
  <2>1. ASSUME NEW m \in Mains, txn[m].phase \in {"materializing", "seeding"}
        PROVE  txn[m].at <= now'
    <3>1. txn[m].at \in Nat /\ txn[m].at <= now
      BY <2>1, TxnTypes, Numbers DEF LocksHeld, Materializing, Seeding
    <3> QED BY <1>1, <1>2, <3>1
  <2> QED BY <1>1, <2>1 DEF LocksHeld, Stored, Due
<1>6. OneOffsWait'
  <2>1. ASSUME NEW s \in Schedules, NEW f \in Fires[s]
        PROVE  /\ f <= now + Window => f <= now' + Window
               /\ f <= now => f <= now'
    BY <1>1, <1>2, FiresAssumption, InstantsAre
  <2>2. \A s \in Schedules : /\ Waits(s, now + Window) => Waits(s, now' + Window)
                             /\ Waits(s, now) => Waits(s, now')
    BY <2>1 DEF Waits
  <2> QED BY <1>1, <2>2 DEF OneOffsWait, Stored, Waits
<1>7. SinceBounded'
  <2>1. \A s \in Schedules : since[s] <= now + PlanRetry => since[s] <= now' + PlanRetry
    BY <1>1, <1>2, JobTypes
  <2>2. \A m \in Mains : txn[m].phase = "seeding" => txn[m].want \in Schedules
    BY TxnTypes DEF Seeding
  <2> QED BY <1>1, <2>1, <2>2, FiresAssumption DEF SinceBounded, Stored
<1>8. CatchUpsBehind'
  <2>1. \A t \in tasks : t.at <= now => t.at <= now'
    BY <1>1, <1>2, TasksAre, InstantsAre DEF Task
  <2> QED BY <1>1, <2>1 DEF CatchUpsBehind, CatchUp
<1>9. BacklogGoesOn'
  <2>1. Reach \in Nat
    BY ReachIs
  <2>2. \A s \in Schedules : jobs[s].nextRunAt <= now + Reach => jobs[s].nextRunAt <= now' + Reach
    BY <1>1, <1>2, <2>1, JobTypes
  <2> QED BY <1>1, <2>2 DEF BacklogGoesOn, Answered, Stored, Reach
<1> QED BY <1>3, <1>4, <1>5, <1>6, <1>7, <1>8, <1>9

\* Nothing happens.
LEMMA StuttersKeep ==
  ASSUME IInv, UNCHANGED vars
  PROVE  IInv'
<1>1. /\ now' = now /\ jobs' = jobs /\ tasks' = tasks /\ txn' = txn /\ since' = since
      /\ discarded' = discarded /\ overtaken' = overtaken /\ spared' = spared
      /\ inserted' = inserted
  BY DEF vars, history, bounds
<1>2. /\ TypeOK' /\ RowsConsistent' /\ LocksHeld' /\ CyclesGoOn' /\ OneOffsWait'
      /\ SinceBounded' /\ Accounted' /\ SeedsAccounted'
  BY <1>1 DEF IInv, TypeOK, RowsConsistent, LocksHeld, CyclesGoOn, OneOffsWait,
              SinceBounded, Accounted, SeedsAccounted, Stored, Due, Waits, Told
<1>3. BacklogsRetired' /\ CatchUpsBehind' /\ DiscardsBehind' /\ BacklogGoesOn'
  BY <1>1 DEF IInv, BacklogsRetired, CatchUpsBehind, DiscardsBehind, BacklogGoesOn, Answered,
              Alone, Stored, CatchUp
<1> QED BY <1>2, <1>3 DEF IInv

-----------------------------------------------------------------------------
(* The steps that drop jobs. *)

\* Clear changes the jobs it is given, and no other.
LEMMA ClearedAre ==
  ASSUME NEW f, NEW S, NEW v, NEW g, g = Clear(f, S, v), NEW s \in Schedules
  PROVE  g[s] = IF s \in S THEN v ELSE f[s]
BY DEF Clear

\* A lock on a job that stays unlocked is no open transaction's.
LEMMA UnlockedIsFree ==
  ASSUME IInv, NEW m \in Mains, txn' = [txn EXCEPT ![m] = Idle]
  PROVE  /\ \A o \in Mains : txn'[o] \in {Idle, txn[o]}
         /\ \A o \in Mains : txn'[o] # Idle =>
              /\ o # m /\ txn[o] # Idle
              /\ \A s \in txn[o].locks : s \in Schedules /\ Locked(s)
              /\ txn[m] # Idle => txn[o].locks \cap txn[m].locks = {}
<1>1. /\ txn'[m] = Idle /\ \A o \in Mains \ {m} : txn'[o] = txn[o]
  BY DEF IInv, TypeOK
<1>2. ASSUME NEW o \in Mains, txn[o] # Idle
      PROVE  \A s \in txn[o].locks : s \in Schedules /\ Locked(s)
  <2>1. txn[o].phase # "idle" /\ txn[o].locks \subseteq Schedules
    BY <1>2, TxnTypes DEF IInv, Materializing, Provisioning, Seeding
  <2> QED BY <2>1 DEF Locked
<1> QED BY <1>1, <1>2 DEF IInv, LocksHeld

\* Jobs are dropped with their tasks; those of the others are at most rewritten.
LEMMA RemovalStep ==
  ASSUME IInv, TypeOK', NEW gone \in SUBSET Schedules,
         UNCHANGED <<now, overtaken, spared, inserted>>,
         \A m \in Mains : txn'[m] \in {Idle, txn[m]},
         \A m \in Mains : txn'[m] # Idle =>
           \A s \in txn[m].locks : jobs'[s] = jobs[s] /\ s \notin gone,
         \A s \in gone : jobs'[s] = NoJob,
         \A s \in Schedules \ gone :
           /\ jobs'[s].id = jobs[s].id /\ jobs'[s].nextRunAt = jobs[s].nextRunAt
           /\ Stored(s) \/ jobs'[s] = jobs[s]
           /\ since'[s] = since[s] /\ discarded'[s] = discarded[s],
         Unique(tasks'),
         \A t \in WithoutTasksOf(gone) : Holds(tasks', t.id, t.at),
         \A u \in tasks' : \E t \in WithoutTasksOf(gone) : SameRun(u, t)
  PROVE  IInv' /\ ClocksMove
<1> DEFINE left == WithoutTasksOf(gone)
<1>1. /\ left \subseteq tasks /\ Alone(left, overtaken, spared)
      /\ \A s \in Schedules \ gone, t \in tasks : t.id = jobs[s].id => t \in left
      /\ \A t \in left : \E s \in Schedules \ gone : jobs[s].id = t.id
  BY RemovalKeeps
<1>2. \A s \in Schedules : Keeps(s) \/ Drops(s)
  <2>1. \A s \in gone : Drops(s)
    BY DEF Drops
  <2>2. \A s \in Schedules \ gone : Keeps(s)
    BY <1>1 DEF Keeps, Held
  <2> QED BY <2>1, <2>2
<1>3. BacklogsRetired'
  BY <1>1, RewrittenAlone DEF BacklogsRetired
<1>4. \A u \in tasks' : (\E s \in Schedules : jobs'[s].id = u.id)
                        /\ (\E t \in tasks : SameRun(u, t))
  BY <1>1 DEF SameRun
<1>5. /\ now' = now /\ overtaken' = overtaken /\ inserted' = inserted
      /\ now \in 0..now /\ jobs \in [Schedules -> Rows] /\ inserted <= inserted /\ inserted \in Nat
  BY Numbers DEF IInv, TypeOK
<1>6. ASSUME NEW s \in Schedules
      PROVE  /\ jobs'[s].id <= inserted
             /\ jobs'[s].id # 0 => jobs'[s].id = jobs[s].id /\ Stored(s)
  BY <1>5 DEF IInv, RowsConsistent, NoJob, Stored
<1>7. \A s, x \in Schedules : jobs'[s].id # 0 /\ jobs'[x].id = jobs'[s].id => x = s
  <2>1. \A s, x \in Schedules : Stored(s) /\ jobs[x].id = jobs[s].id => x = s
    BY DEF IInv, RowsConsistent
  <2> QED BY <1>6, <2>1
<1>8. \A m \in Mains : txn'[m] # Idle =>
        \A s \in txn[m].locks : jobs'[s] = jobs[s] /\ since'[s] = since[s]
  <2>1. ASSUME NEW m \in Mains, txn'[m] # Idle, NEW s \in txn[m].locks
        PROVE  s \in Schedules \ gone
    <3>1. txn[m] # Idle
      BY <2>1
    <3>2. txn[m].locks \subseteq Schedules
      BY <3>1, TxnTypes DEF IInv, Materializing, Provisioning, Seeding
    <3> QED BY <2>1, <3>2
  <2> QED BY <2>1
<1>9. TableStep(jobs, now)
  BY <1>2, <1>3, <1>4, <1>5, <1>6, <1>7, <1>8 DEF TableStep, Changes
<1> QED BY <1>9, TableStepKeeps

\* What is left of the table when it is not rewritten.
LEMMA LeftAsItWas ==
  ASSUME IInv, NEW gone \in SUBSET Schedules, NEW left, left = WithoutTasksOf(gone)
  PROVE  /\ left \subseteq Task /\ Unique(left)
         /\ \A t \in left : Holds(left, t.id, t.at)
         /\ \A u \in left : \E t \in left : SameRun(u, t)
BY RemovalKeeps, TasksAre DEF Holds, SameRun

\* A provisioning whose match is gone drops the jobs it removes.
LEMMA GoneMatchesKeep ==
  ASSUME IInv, NEW m \in Mains, MatchIsGone(m)
  PROVE  IInv' /\ ClocksMove
<1> USE DEF IInv
<1> DEFINE gone == Removed(txn[m])
<1>1. /\ \A s \in gone : ~Locked(s)
      /\ jobs' = Clear(jobs, gone, NoJob) /\ tasks' = WithoutTasksOf(gone)
      /\ since' = Clear(since, gone, Never) /\ discarded' = Clear(discarded, gone, {})
      /\ txn' = [txn EXCEPT ![m] = Idle]
      /\ now' = now /\ overtaken' = overtaken /\ spared' = spared /\ inserted' = inserted
  BY DEF MatchIsGone, Finish, bounds
<1>2. gone \in SUBSET Schedules
  BY DEF Removed
<1> HIDE DEF gone
<1>3. TypeOK'
  <2>1. jobs' \in [Schedules -> Rows]
    BY <1>1, JobTypes DEF Clear, TypeOK
  <2>2. since' \in [Schedules -> 0..Never]
    BY <1>1, InstantsAre DEF Clear, TypeOK
  <2>3. tasks' \subseteq Task
    BY <1>1, <1>2, LeftAsItWas
  <2>4. discarded' \in [Schedules -> SUBSET [at : Instants, policy : Policies]]
    BY <1>1 DEF Clear, TypeOK
  <2>5. txn' \in [Mains -> {Idle} \cup Materializing \cup Provisioning \cup Seeding]
    BY <1>1 DEF TypeOK
  <2> QED BY <1>1, <2>1, <2>2, <2>3, <2>4, <2>5 DEF TypeOK
<1>4. /\ \A s \in gone : jobs'[s] = NoJob
      /\ \A s \in Schedules \ gone :
           jobs'[s] = jobs[s] /\ since'[s] = since[s] /\ discarded'[s] = discarded[s]
  BY <1>1, <1>2, ClearedAre
<1>5. /\ \A o \in Mains : txn'[o] \in {Idle, txn[o]}
      /\ \A o \in Mains : txn'[o] # Idle =>
           \A s \in txn[o].locks : jobs'[s] = jobs[s] /\ s \notin gone
  BY <1>1, <1>4, UnlockedIsFree
<1>6. /\ Unique(tasks')
      /\ \A t \in WithoutTasksOf(gone) : Holds(tasks', t.id, t.at)
      /\ \A u \in tasks' : \E t \in WithoutTasksOf(gone) : SameRun(u, t)
  BY <1>1, <1>2, LeftAsItWas
<1> QED BY <1>1, <1>2, <1>3, <1>4, <1>5, <1>6, RemovalStep

\* A deactivation drops every job, and finds no lock on any.
LEMMA DeprovisionKeeps ==
  ASSUME IInv, Deprovision
  PROVE  IInv' /\ ClocksMove
<1> USE DEF IInv
<1> DEFINE stored == {s \in Schedules : Stored(s)}
<1>1. /\ \A s \in Schedules : ~Locked(s)
      /\ jobs' = [s \in Schedules |-> NoJob] /\ tasks' = WithoutTasksOf(stored)
      /\ since' = [s \in Schedules |-> Never] /\ discarded' = [s \in Schedules |-> {}]
      /\ now' = now /\ txn' = txn /\ overtaken' = overtaken /\ spared' = spared
      /\ inserted' = inserted
  BY DEF Deprovision, bounds
<1>2. tasks' = {}
  <2>1. \A t \in tasks' : \E s \in Schedules \ stored : jobs[s].id = t.id
    BY <1>1, RemovalKeeps
  <2>2. \A t \in tasks' : t \in tasks
    BY <1>1, RemovalKeeps
  <2> QED BY <2>1, <2>2, TasksAre DEF Stored
<1>3. WithoutTasksOf(Schedules) = {}
  BY RemovalKeeps
<1>4. TypeOK'
  BY <1>1, <1>2, JobTypes, InstantsAre DEF TypeOK
<1>5. \A o \in Mains : txn'[o] # Idle => txn[o].locks = {}
  <2>1. ASSUME NEW o \in Mains, txn[o] # Idle PROVE txn[o].locks = {}
    <3>1. txn[o].phase # "idle" /\ txn[o].locks \subseteq Schedules
      BY <2>1, TxnTypes DEF Materializing, Provisioning, Seeding
    <3> QED BY <1>1, <3>1 DEF Locked
  <2> QED BY <1>1, <2>1
<1>6. \A s \in Schedules : jobs'[s] = NoJob
  BY <1>1
<1>7. /\ Unique(tasks')
      /\ \A t \in WithoutTasksOf(Schedules) : Holds(tasks', t.id, t.at)
      /\ \A u \in tasks' : \E t \in WithoutTasksOf(Schedules) : SameRun(u, t)
  BY <1>2, <1>3 DEF Unique
<1>8. /\ Schedules \in SUBSET Schedules /\ Schedules \ Schedules = {}
      /\ UNCHANGED <<now, overtaken, spared, inserted>>
      /\ \A o \in Mains : txn'[o] \in {Idle, txn[o]}
      /\ \A o \in Mains : txn'[o] # Idle =>
           \A s \in txn[o].locks : jobs'[s] = jobs[s] /\ s \notin Schedules
  BY <1>1, <1>5
<1> DEFINE all == Schedules
<1>9. /\ all \in SUBSET Schedules /\ Schedules \ all = {}
      /\ \A s \in all : jobs'[s] = NoJob
      /\ \A o \in Mains : txn'[o] # Idle =>
           \A s \in txn[o].locks : jobs'[s] = jobs[s] /\ s \notin all
  BY <1>6, <1>8
<1>10. /\ Unique(tasks')
       /\ \A t \in WithoutTasksOf(all) : Holds(tasks', t.id, t.at)
       /\ \A u \in tasks' : \E t \in WithoutTasksOf(all) : SameRun(u, t)
  BY <1>7
<1> HIDE DEF all
<1> QED BY <1>4, <1>8, <1>9, <1>10, RemovalStep

\* A match that holds its definition keeps its clock and its tasks, whose deadlines move
\* with its policy.
LEMMA UnchangedMatchesKeep ==
  ASSUME IInv, NEW m \in Mains, LeaveUnchanged(m)
  PROVE  IInv' /\ ClocksMove
<1> USE DEF IInv
<1> DEFINE t == txn[m]
           w == t.want
           gone == Removed(t)
           left == WithoutTasksOf(gone)
           stale == t.rows[t.want].policy # t.policy
           mine(x) == stale /\ x.id = t.rows[t.want].id /\ x.status = "pending"
           later(x) == [x EXCEPT !.missedAfter = Max({x.runAt, now}) + Grace]
           next(x) == IF mine(x) THEN later(x) ELSE x
<1>1. /\ t.phase = "provisioning" /\ t.rows[t.want].id # 0 /\ jobs[w].id = t.rows[w].id
      /\ \A s \in gone : ~Locked(s)
      /\ stale => ~Locked(w)
      /\ jobs' = [Clear(jobs, gone, NoJob) EXCEPT ![w].policy = IF stale THEN t.policy ELSE @]
      /\ tasks' = {next(x) : x \in left}
      /\ since' = Clear(since, gone, Never) /\ discarded' = Clear(discarded, gone, {})
      /\ txn' = [txn EXCEPT ![m] = Idle]
      /\ now' = now /\ overtaken' = overtaken /\ spared' = spared /\ inserted' = inserted
  BY DEF LeaveUnchanged, Finish, bounds
<1>2. gone \in SUBSET Schedules /\ w \notin gone /\ w \in Schedules /\ t.policy \in Policies
  BY <1>1, TxnTypes DEF Removed, Provisioning
<1>3. left \in SUBSET Task /\ Unique(left)
  BY <1>2, LeftAsItWas
<1>4. ASSUME NEW x \in Task PROVE later(x) \in Task /\ SameRun(later(x), x)
  <2>1. Max({x.runAt, now}) + Grace \in Nat
    <3>1. x.runAt \in Nat /\ now \in Nat /\ Grace \in Nat
      BY Numbers, InstantsAre DEF Task, TypeOK
    <3>2. Max({x.runAt, now}) \in Nat
      BY <3>1, MaxOfTwo
    <3> QED BY <3>1, <3>2
  <2> QED BY <2>1 DEF Task, SameRun
<1> HIDE DEF later
<1>5. \A x \in left : next(x) \in Task /\ SameRun(next(x), x)
  BY <1>3, <1>4 DEF SameRun
<1> HIDE DEF next, left
<1>6. /\ tasks' \subseteq Task /\ Unique(tasks')
      /\ \A x \in left : Holds(tasks', x.id, x.at)
      /\ \A u \in tasks' : \E x \in left : SameRun(u, x)
  BY <1>1, <1>3, <1>5 DEF Unique, Holds, SameRun
<1> HIDE DEF gone, stale, w
<1>7. Clear(jobs, gone, NoJob) \in [Schedules -> Rows]
  BY JobTypes DEF Clear, TypeOK
<1>8. /\ jobs' \in [Schedules -> Rows]
      /\ \A s \in gone : jobs'[s] = NoJob
      /\ \A s \in Schedules \ gone :
           /\ jobs'[s].id = jobs[s].id /\ jobs'[s].nextRunAt = jobs[s].nextRunAt
           /\ s # w \/ ~stale => jobs'[s] = jobs[s]
  <2> DEFINE cleared == Clear(jobs, gone, NoJob)
             policy == IF stale THEN t.policy ELSE cleared[w].policy
             row == [cleared[w] EXCEPT !.policy = policy]
  <2>1. \A s \in Schedules : cleared[s] = IF s \in gone THEN NoJob ELSE jobs[s]
    BY ClearedAre
  <2>2. jobs' = [cleared EXCEPT ![w] = row]
    BY <1>1
  <2>3. /\ cleared[w] \in Rows /\ cleared[w] = jobs[w] /\ policy \in Policies
        /\ ~stale => policy = cleared[w].policy
    BY <1>2, <1>7, <2>1 DEF Rows
  <2> HIDE DEF cleared, policy
  <2>4. /\ row \in Rows /\ row.id = jobs[w].id /\ row.nextRunAt = jobs[w].nextRunAt
        /\ ~stale => row = jobs[w]
    BY <2>3 DEF Rows
  <2> HIDE DEF row
  <2>5. /\ jobs' \in [Schedules -> Rows] /\ jobs'[w] = row
        /\ \A s \in Schedules \ {w} : jobs'[s] = cleared[s]
    BY <1>2, <1>7, <2>2, <2>4 DEF cleared
  <2> QED BY <1>2, <2>1, <2>4, <2>5
<1>9. TypeOK'
  <2>1. since' \in [Schedules -> 0..Never]
    BY <1>1, InstantsAre DEF Clear, TypeOK
  <2>2. discarded' \in [Schedules -> SUBSET [at : Instants, policy : Policies]]
    BY <1>1 DEF Clear, TypeOK
  <2>3. txn' \in [Mains -> {Idle} \cup Materializing \cup Provisioning \cup Seeding]
    BY <1>1 DEF TypeOK
  <2> QED BY <1>1, <1>6, <1>8, <2>1, <2>2, <2>3 DEF TypeOK
<1>10. \A s \in Schedules \ gone : since'[s] = since[s] /\ discarded'[s] = discarded[s]
  BY <1>1, <1>2, ClearedAre
<1>11. \A s \in Schedules \ gone : Stored(s) \/ jobs'[s] = jobs[s]
  BY <1>1, <1>8 DEF Stored, w
<1>12. /\ \A o \in Mains : txn'[o] \in {Idle, txn[o]}
       /\ \A o \in Mains : txn'[o] # Idle =>
            \A s \in txn[o].locks : jobs'[s] = jobs[s] /\ s \notin gone
  <2>1. \A s \in Schedules : Locked(s) => s \notin gone /\ jobs'[s] = jobs[s]
    BY <1>1, <1>8 DEF w, stale
  <2>2. /\ \A o \in Mains : txn'[o] \in {Idle, txn[o]}
        /\ \A o \in Mains : txn'[o] # Idle =>
             \A s \in txn[o].locks : s \in Schedules /\ Locked(s)
    BY <1>1, UnlockedIsFree
  <2> QED BY <2>1, <2>2
<1> QED BY <1>1, <1>2, <1>6, <1>8, <1>9, <1>10, <1>11, <1>12, RemovalStep DEF left

-----------------------------------------------------------------------------
(* The steps that plan. *)

\* A run that is added is of a job that has a next fire.
LEMMA FreshHasFire ==
  ASSUME NEW u, NEW s \in Schedules, NEW row \in Rows, NEW at \in 0..MaxTime,
         FreshRun(u, s, row, at)
  PROVE  row.nextRunAt # Never
<1>1. u.at \in Nat /\ u.at < Never /\ row.nextRunAt <= u.at
  BY InstantsAre DEF FreshRun
<1> QED BY <1>1, InstantsAre

\* What a plan discards is of the types of the history.
LEMMA DiscardsAre ==
  ASSUME NEW s \in Schedules, NEW row \in Rows, NEW at \in 0..MaxTime
  PROVE  /\ Plan(s, row, at).discards \subseteq [at : Instants, policy : Policies]
         /\ Plan(s, row, at).next \in 0..Never
BY PlanIsPlanned DEF Planned

\* What a pass has locked: due rows, as they are, accounted for up to their clocks.
LEMMA LockedRows ==
  ASSUME IInv, NEW m \in Mains, txn[m].phase = "materializing"
  PROVE  /\ txn[m].at \in 0..MaxTime /\ txn[m].at \in 0..now
         /\ txn[m].rows \in [Schedules -> Rows] /\ txn[m].locks \subseteq Schedules
         /\ txn[m] # Idle
         /\ \A s \in txn[m].locks :
              /\ txn[m].rows[s] = jobs[s] /\ Stored(s) /\ Due(jobs[s], txn[m].at)
              /\ jobs[s].nextRunAt # Never
              /\ s \in Cyclic => since[s] <= txn[m].at + PlanRetry
              /\ Covered(s, jobs[s].nextRunAt)
              /\ IF s \in Cyclic
                 THEN since[s] <= jobs[s].nextRunAt \/ since[s] <= now + PlanRetry
                 ELSE Waits(s, jobs[s].nextRunAt)
<1> USE DEF IInv
<1>1. txn[m] \in Materializing /\ txn[m] # Idle
  BY TxnTypes DEF Idle
<1>2. txn[m].at \in 0..MaxTime /\ txn[m].rows \in [Schedules -> Rows]
      /\ txn[m].locks \subseteq Schedules
  BY <1>1 DEF Materializing
<1>3. txn[m].at \in 0..now
  BY <1>2, Numbers DEF LocksHeld, TypeOK
<1>4. ASSUME NEW s \in txn[m].locks
      PROVE  /\ txn[m].rows[s] = jobs[s] /\ Stored(s) /\ Due(jobs[s], txn[m].at)
             /\ s \in Cyclic => since[s] <= txn[m].at + PlanRetry
  BY DEF LocksHeld
<1>5. \A s \in Schedules : Stored(s) => Covered(s, jobs[s].nextRunAt)
  BY DEF Accounted, Covered, Told
<1>6. \A s \in Schedules : Stored(s) =>
        IF s \in Cyclic THEN since[s] <= jobs[s].nextRunAt \/ since[s] <= now + PlanRetry
        ELSE Waits(s, jobs[s].nextRunAt)
  BY DEF SinceBounded, OneOffsWait
<1> QED BY <1>1, <1>2, <1>3, <1>4, <1>5, <1>6 DEF Due

\* A pass is a step on the tables: its good jobs advance, its bad ones are put off.
LEMMA PassStep ==
  ASSUME IInv, NEW m \in Mains, Materialize(m)
  PROVE  TableStep(txn[m].rows, txn[m].at)
<1> USE DEF IInv
<1>1. PICK bad \in SUBSET txn[m].locks :
        LET at == txn[m].at
            good == txn[m].locks \ bad
            plan == [s \in good |-> Plan(s, txn[m].rows[s], at)]
        IN /\ bad # {} => at + PlanRetry <= MaxTime
           /\ tasks' = Recorded(tasks, {plan[s] : s \in good})
           /\ jobs' = [s \in Schedules |->
                 IF s \in good THEN [jobs[s] EXCEPT !.nextRunAt = plan[s].next]
                 ELSE IF s \in bad THEN [jobs[s] EXCEPT !.nextRunAt = at + PlanRetry]
                 ELSE jobs[s]]
           /\ discarded' = [s \in Schedules |->
                 discarded[s] \cup IF s \in good THEN plan[s].discards ELSE {}]
           /\ since' = [s \in Schedules |-> IF s \in bad THEN at + PlanRetry ELSE since[s]]
           /\ spared' = spared \cup Spared(tasks, {plan[s] : s \in good})
  BY DEF Materialize
<1> DEFINE at == txn[m].at
           rows == txn[m].rows
           good == txn[m].locks \ bad
           P(s) == Plan(s, rows[s], at)
<1>2. /\ txn[m].phase = "materializing" /\ txn' = [txn EXCEPT ![m] = Idle]
      /\ now' = now /\ overtaken' = overtaken /\ inserted' = inserted
  BY DEF Materialize, Finish
<1>3. /\ at \in 0..MaxTime /\ at \in 0..now /\ at \in Nat /\ rows \in [Schedules -> Rows]
      /\ good \subseteq Schedules /\ bad \subseteq Schedules /\ good \cap bad = {}
      /\ txn[m].locks = good \cup bad
  BY <1>2, LockedRows, Numbers
<1>4. \A s \in good \cup bad :
        /\ rows[s] = jobs[s] /\ Stored(s) /\ Due(jobs[s], at) /\ jobs[s].nextRunAt # Never
        /\ s \in Cyclic => since[s] <= at + PlanRetry
        /\ Covered(s, jobs[s].nextRunAt)
        /\ IF s \in Cyclic
           THEN since[s] <= jobs[s].nextRunAt \/ since[s] <= now + PlanRetry
           ELSE Waits(s, jobs[s].nextRunAt)
  BY <1>2, LockedRows
<1>5. /\ tasks' = Recorded(tasks, {P(s) : s \in good})
      /\ spared' = spared \cup Spared(tasks, {P(s) : s \in good})
  <2>1. {P(s) : s \in good} =
          {[t \in good |-> Plan(t, txn[m].rows[t], txn[m].at)][s] : s \in good}
    OBVIOUS
  <2> QED BY <1>1, <2>1
<1>6. ASSUME NEW s \in Schedules
      PROVE  /\ jobs'[s] = IF s \in good THEN [jobs[s] EXCEPT !.nextRunAt = P(s).next]
                           ELSE IF s \in bad THEN [jobs[s] EXCEPT !.nextRunAt = at + PlanRetry]
                           ELSE jobs[s]
             /\ discarded'[s] = discarded[s] \cup IF s \in good THEN P(s).discards ELSE {}
             /\ s \notin good => discarded'[s] = discarded[s]
             /\ since'[s] = IF s \in bad THEN at + PlanRetry ELSE since[s]
  BY <1>1
<1>7. /\ DOMAIN jobs' = Schedules /\ DOMAIN since' = Schedules /\ DOMAIN discarded' = Schedules
      /\ jobs' = [s \in Schedules |-> jobs'[s]] /\ since' = [s \in Schedules |-> since'[s]]
      /\ discarded' = [s \in Schedules |-> discarded'[s]]
  BY <1>1
<1>8. bad # {} => at + PlanRetry <= MaxTime /\ at + PlanRetry \in 0..Never
  <2>1. bad # {} => at + PlanRetry <= MaxTime
    BY <1>1
  <2> HIDE DEF at
  <2>2. at + PlanRetry \in Nat /\ (at + PlanRetry <= MaxTime => at + PlanRetry <= Never)
    BY <1>3, Numbers
  <2> QED BY <2>1, <2>2, InstantsAre
<1> HIDE DEF at, rows, good
<1>9. \A s \in Schedules : P(s).discards \subseteq [at : Instants, policy : Policies]
                           /\ P(s).next \in 0..Never
  BY <1>3, DiscardsAre
<1> HIDE DEF P
<1>10. ASSUME NEW s \in Schedules
       PROVE  /\ jobs'[s] \in Rows /\ jobs'[s].id = jobs[s].id
              /\ s \in good => jobs'[s].nextRunAt = P(s).next
              /\ s \in bad => jobs'[s].nextRunAt = at + PlanRetry
              /\ s \notin good \cup bad => jobs'[s] = jobs[s] /\ since'[s] = since[s]
              /\ s \in good => since'[s] = since[s]
  <2>1. jobs[s] \in Rows
    BY JobTypes
  <2>2. CASE s \in good
    BY <1>3, <1>6, <1>9, <2>1, <2>2 DEF Rows
  <2>3. CASE s \in bad
    BY <1>3, <1>6, <1>8, <2>1, <2>3 DEF Rows
  <2>4. CASE s \notin good \cup bad
    BY <1>6, <2>1, <2>4
  <2> QED BY <2>2, <2>3, <2>4
<1>11. /\ tasks' \subseteq Task /\ Unique(tasks') /\ Alone(tasks', overtaken, spared')
       /\ \A t \in tasks : Holds(tasks', t.id, t.at)
       /\ \A s \in good : \A o \in P(s).occurrences : Holds(tasks', rows[s].id, o.at)
       /\ \A s \in good : \A f \in Fires[s] :
            From(s, rows[s].nextRunAt, f) /\ f < P(s).next =>
              Holds(tasks', rows[s].id, f) \/ \E d \in P(s).discards : d.at = f
       /\ \A u \in tasks' : \/ \E t \in tasks : SameRun(u, t)
                            \/ \E s \in good : FreshRun(u, s, rows[s], at)
  <2>1. \A s \in good : rows[s].id # 0
    BY <1>3, <1>4 DEF Stored
  <2>2. \A s, x \in good : rows[s].id = rows[x].id => s = x
    BY <1>3, <1>4 DEF RowsConsistent
  <2>3. ASSUME NEW s \in good, NEW t \in tasks,
               t.id = rows[s].id, t.id \notin overtaken, CatchUp(t)
        PROVE  t.at <= rows[s].nextRunAt
    <3>1. t.at < rows[s].nextRunAt
      BY <1>3, <1>4, <2>3 DEF CatchUpsBehind
    <3>2. t.at \in Nat /\ rows[s].nextRunAt \in Nat
      BY <1>3, <1>4, TasksAre, JobTypes, InstantsAre DEF Task
    <3> QED BY <3>1, <3>2
  <2>4. tasks \in SUBSET Task /\ Unique(tasks) /\ Alone(tasks, overtaken, spared)
    BY TasksAre
  <2>5. PassesOn(tasks, good, rows, at, overtaken, spared)
    BY <1>3, <2>1, <2>2, <2>3, <2>4 DEF PassesOn
  <2>6. /\ tasks' = Recorded(tasks, {Plan(s, rows[s], at) : s \in good})
        /\ spared' = spared \cup Spared(tasks, {Plan(s, rows[s], at) : s \in good})
    BY <1>5 DEF P
  <2>7. PassedOn(tasks', tasks, good, rows, at, overtaken, spared')
    BY <2>5, <2>6, PassOn
  <2> QED BY <2>7 DEF PassedOn, P
<1>12. TypeOK'
  <2>1. jobs' \in [Schedules -> Rows]
    BY <1>7, <1>10
  <2>2. \A s \in Schedules : since'[s] \in 0..Never
    BY <1>6, <1>8 DEF TypeOK
  <2>3. since' \in [Schedules -> 0..Never]
    BY <1>7, <2>2
  <2>4. \A s \in Schedules : discarded'[s] \subseteq [at : Instants, policy : Policies]
    BY <1>6, <1>9 DEF TypeOK
  <2>5. discarded' \in [Schedules -> SUBSET [at : Instants, policy : Policies]]
    BY <1>7, <2>4
  <2>6. txn' \in [Mains -> {Idle} \cup Materializing \cup Provisioning \cup Seeding]
    BY <1>2 DEF TypeOK
  <2>7. spared' \subseteq [id : 1..MaxJobs, at : Instants]
    BY <1>5, TasksAre, SparedAre DEF TypeOK
  <2> QED BY <1>2, <1>11, <2>1, <2>3, <2>5, <2>6, <2>7 DEF TypeOK
<1>13. \A s \in Schedules : Held(s)
  BY <1>6, <1>10, <1>11 DEF Held
<1>14. ASSUME NEW s \in good PROVE Advances(s, rows[s], at)
  <2>1. s \in Schedules /\ rows[s] = jobs[s]
    BY <1>3, <1>4
  <2>2. CoversPlan(s, rows[s], at)
    <3>1. SUFFICES ASSUME NEW f \in Fires[s], From(s, rows[s].nextRunAt, f), f < P(s).next
                   PROVE  Told(s, f)'
      BY DEF CoversPlan, P
    <3>2. Holds(tasks', rows[s].id, f) \/ \E d \in P(s).discards : d.at = f
      BY <1>11, <3>1
    <3>3. P(s).discards \subseteq discarded'[s] /\ jobs'[s].id = rows[s].id
      BY <1>6, <1>10, <2>1
    <3> QED BY <3>2, <3>3 DEF Told, Holds
  <2>3. discarded'[s] = discarded[s] \cup P(s).discards /\ RecordsPlan(s, rows[s], at)
    BY <1>6, <1>11, <2>1 DEF RecordsPlan, P
  <2> QED BY <1>4, <1>10, <1>13, <2>1, <2>2, <2>3 DEF Advances, P
<1>15. ASSUME NEW s \in bad PROVE PutsOff(s, at)
  BY <1>3, <1>4, <1>6, <1>8, <1>10, <1>13, <1>15 DEF PutsOff
<1>16. ASSUME NEW s \in Schedules \ (good \cup bad) PROVE Keeps(s)
  BY <1>6, <1>10, <1>13 DEF Keeps
<1>17. \A s \in Schedules : Changes(s, rows[s], at)
  BY <1>3, <1>14, <1>15, <1>16 DEF Changes
<1>18. \A o \in Mains : /\ txn'[o] \in {Idle, txn[o]}
                        /\ txn'[o] # Idle =>
                             \A s \in txn[o].locks : jobs'[s] = jobs[s] /\ since'[s] = since[s]
  <2>1. txn[m] # Idle
    BY <1>2, LockedRows
  <2>2. ASSUME NEW o \in Mains, txn'[o] # Idle, NEW s \in txn[o].locks
        PROVE  jobs'[s] = jobs[s] /\ since'[s] = since[s]
    <3>1. s \in Schedules /\ s \notin good \cup bad
      BY <1>2, <1>3, <2>1, <2>2, UnlockedIsFree
    <3> QED BY <1>10, <3>1
  <2> QED BY <1>2, <2>2, UnlockedIsFree
<1>19. \A s \in Schedules : jobs'[s].id = jobs[s].id /\ jobs[s].id <= inserted
  BY <1>10 DEF RowsConsistent
<1>20. \A s, x \in Schedules : jobs'[s].id # 0 /\ jobs'[x].id = jobs'[s].id => x = s
  BY <1>19 DEF RowsConsistent, Stored
<1>21. \A u \in tasks' : \E s \in Schedules : jobs'[s].id = u.id
  <2>1. ASSUME NEW u \in tasks' PROVE \E s \in Schedules : jobs'[s].id = u.id
    <3>1. CASE \E t \in tasks : SameRun(u, t)
      BY <1>19, <3>1, TasksAre DEF SameRun
    <3>2. CASE \E s \in good : FreshRun(u, s, rows[s], at)
      BY <1>3, <1>4, <1>19, <3>2 DEF FreshRun
    <3> QED BY <1>11, <3>1, <3>2
  <2> QED BY <2>1
<1>22. \A u \in tasks' :
         \/ \E t \in tasks : SameRun(u, t)
         \/ \E s \in Schedules : /\ FreshRun(u, s, rows[s], at)
                                 /\ Advances(s, rows[s], at) \/ Starts(s, rows[s], at)
  BY <1>3, <1>11, <1>14
<1>23. BacklogsRetired' /\ inserted <= inserted' /\ overtaken \subseteq overtaken'
  BY <1>2, <1>11, JobTypes, Numbers DEF TypeOK, BacklogsRetired
<1>24. TableStep(rows, at)
  BY <1>2, <1>3, <1>11, <1>12, <1>17, <1>18, <1>19, <1>20, <1>21, <1>22, <1>23 DEF TableStep
<1> QED BY <1>24 DEF rows, at

-----------------------------------------------------------------------------
(* The steps that seed a job. *)

\* The rows as they are, but that of the job a seed is for.
RowsWith(w, row) == [x \in Schedules |-> IF x = w THEN row ELSE jobs[x]]

\* A seed of the job w from row: the jobs of gone go, and it is a pass over w on the
\* tasks left.
SeedOn(m, w, row, at, gone, left) ==
  /\ txn' = [txn EXCEPT ![m] = Idle] /\ now' = now
  /\ gone \in SUBSET (Schedules \ {w}) /\ w \in Schedules /\ row \in Rows
  /\ at \in 0..MaxTime /\ at \in 0..now
  /\ inserted <= inserted' /\ overtaken \subseteq overtaken'
  /\ \A o \in Mains : txn'[o] # Idle => \A s \in txn[o].locks : s \notin gone \cup {w}
  /\ jobs' \in [Schedules -> Rows] /\ since' \in [Schedules -> 0..Never]
  /\ \A s \in gone : jobs'[s] = NoJob
  /\ \A s \in Schedules \ (gone \cup {w}) :
       jobs'[s] = jobs[s] /\ since'[s] = since[s] /\ discarded'[s] = discarded[s]
  /\ left \subseteq WithoutTasksOf(gone)
  /\ tasks' = Recorded(left, {Plan(w, row, at)})
  /\ spared' = spared \cup Spared(left, {Plan(w, row, at)})
  /\ \A t \in WithoutTasksOf(gone) : t.id # row.id => t \in left
  /\ \A t \in left : t.id = row.id /\ t.id \notin overtaken' /\ CatchUp(t) => t.at <= row.nextRunAt
  /\ jobs'[w].id = row.id /\ row.id # 0 /\ row.id <= inserted'
  /\ Stored(w) => row.id = jobs[w].id
  /\ ~Stored(w) => row.id > inserted

\* What a seed leaves in the task table.
LEMMA SeedRecords ==
  ASSUME IInv, NEW m \in Mains, NEW w, NEW row, NEW at, NEW gone, NEW left,
         SeedOn(m, w, row, at, gone, left)
  PROVE  /\ tasks' \subseteq Task /\ Unique(tasks') /\ Alone(tasks', overtaken', spared')
         /\ spared' \subseteq [id : 1..MaxJobs, at : Instants]
         /\ \A t \in left : Holds(tasks', t.id, t.at)
         /\ \A o \in Plan(w, row, at).occurrences : Holds(tasks', row.id, o.at)
         /\ \A f \in Fires[w] :
              From(w, row.nextRunAt, f) /\ f < Plan(w, row, at).next =>
                \/ Holds(tasks', row.id, f)
                \/ \E d \in Plan(w, row, at).discards : d.at = f
         /\ \A u \in tasks' : (\E t \in left : SameRun(u, t)) \/ FreshRun(u, w, row, at)
<1> DEFINE rows == RowsWith(w, row)
           G == {w}
<1>1. rows \in [Schedules -> Rows] /\ rows[w] = row /\ G \in SUBSET Schedules
  BY JobTypes DEF RowsWith, SeedOn, IInv, TypeOK
<1>2. left \in SUBSET Task /\ Unique(left) /\ Alone(left, overtaken', spared)
  BY RemovalKeeps, TasksAre DEF SeedOn, Unique, Alone
<1>3. {Plan(w, row, at)} = {Plan(s, rows[s], at) : s \in G}
  BY <1>1
<1> HIDE DEF rows
<1>4. PassesOn(left, G, rows, at, overtaken', spared)
  BY <1>1, <1>2 DEF PassesOn, SeedOn
<1>5. /\ tasks' = Recorded(left, {Plan(w, row, at)})
      /\ spared' = spared \cup Spared(left, {Plan(w, row, at)})
  BY DEF SeedOn
<1>6. PassedOn(tasks', left, G, rows, at, overtaken', spared')
  BY <1>3, <1>4, <1>5, PassOn
<1>7. w \in G /\ \A s \in G : s = w
  OBVIOUS
<1>8. spared' \subseteq [id : 1..MaxJobs, at : Instants]
  BY <1>2, <1>5, SparedAre DEF IInv, TypeOK
<1> HIDE DEF G
<1> QED BY <1>1, <1>6, <1>7, <1>8 DEF PassedOn

\* A seed is a step on the tables when its own job keeps, advances or starts its clock.
LEMMA SeedStep ==
  ASSUME IInv, TypeOK', NEW m \in Mains, NEW w, NEW row, NEW at, NEW gone, NEW left,
         SeedOn(m, w, row, at, gone, left),
         Keeps(w) \/ Advances(w, row, at) \/ Starts(w, row, at),
         row.nextRunAt # Never => Advances(w, row, at) \/ Starts(w, row, at)
  PROVE  IInv' /\ ClocksMove
<1> DEFINE rows == RowsWith(w, row)
<1>1. /\ rows \in [Schedules -> Rows] /\ rows[w] = row /\ w \in Schedules
      /\ gone \in SUBSET Schedules /\ w \notin gone /\ row \in Rows
  BY JobTypes DEF RowsWith, SeedOn, IInv, TypeOK
<1> HIDE DEF rows
<1>2. /\ tasks' \subseteq Task /\ Unique(tasks') /\ Alone(tasks', overtaken', spared')
      /\ \A t \in left : Holds(tasks', t.id, t.at)
      /\ \A u \in tasks' : (\E t \in left : SameRun(u, t)) \/ FreshRun(u, w, row, at)
  BY SeedRecords
<1>3. /\ left \subseteq tasks
      /\ \A t \in left : \E s \in Schedules \ gone : jobs[s].id = t.id
      /\ \A s \in Schedules \ gone, t \in tasks : t.id = jobs[s].id => t \in WithoutTasksOf(gone)
  BY <1>1, RemovalKeeps DEF SeedOn
<1>4. ASSUME NEW s \in Schedules, s # w, jobs[s].id = row.id PROVE jobs[s].id = 0
  <2>1. CASE Stored(w)
    BY <1>1, <1>4, <2>1 DEF SeedOn, IInv, RowsConsistent, Stored
  <2>2. CASE ~Stored(w)
    <3>1. row.id > inserted /\ jobs[s].id <= inserted /\ inserted \in Nat /\ jobs[s].id \in Nat
      BY <2>2, JobTypes DEF SeedOn, IInv, RowsConsistent
    <3> QED BY <1>4, <3>1
  <2> QED BY <2>1, <2>2
<1>5. ASSUME NEW s \in Schedules \ (gone \cup {w}) PROVE Keeps(s)
  <2>1. jobs'[s] = jobs[s] /\ since'[s] = since[s] /\ discarded'[s] = discarded[s]
    BY DEF SeedOn
  <2>2. ASSUME NEW t \in tasks, t.id = jobs[s].id PROVE Holds(tasks', t.id, t.at)
    <3>1. t.id # row.id /\ t \in WithoutTasksOf(gone)
      BY <1>3, <1>4, <2>2, TasksAre
    <3> QED BY <1>2, <3>1 DEF SeedOn
  <2> QED BY <2>1, <2>2 DEF Keeps, Held
<1>6. \A s \in Schedules : Changes(s, rows[s], at)
  BY <1>1, <1>5 DEF SeedOn, Changes, Drops
<1>7. ASSUME NEW s \in Schedules
      PROVE  /\ jobs'[s].id \in Nat /\ jobs'[s].id <= inserted'
             /\ jobs'[s].id # 0 => s = w \/ (jobs'[s].id = jobs[s].id /\ s \notin gone)
  <2>1. jobs'[s].id \in Nat /\ inserted \in Nat /\ inserted' \in Nat /\ inserted <= inserted'
    BY Numbers DEF IInv, TypeOK, Rows, SeedOn
  <2>2. CASE s = w
    BY <2>1, <2>2 DEF SeedOn
  <2>3. CASE s \in gone
    BY <2>1, <2>3, JobTypes DEF SeedOn, IInv
  <2>4. CASE s \in Schedules \ (gone \cup {w})
    BY <2>1, <2>4, JobTypes DEF SeedOn, IInv, RowsConsistent
  <2> QED BY <2>2, <2>3, <2>4
<1>8. ASSUME NEW s \in Schedules, NEW x \in Schedules, jobs'[s].id # 0, jobs'[x].id = jobs'[s].id
      PROVE  x = s
  BY <1>4, <1>7, <1>8 DEF SeedOn, IInv, RowsConsistent, Stored
<1>9. \A u \in tasks' :
        /\ \E s \in Schedules : jobs'[s].id = u.id
        /\ \/ \E t \in tasks : SameRun(u, t)
           \/ \E s \in Schedules : /\ FreshRun(u, s, rows[s], at)
                                   /\ Advances(s, rows[s], at) \/ Starts(s, rows[s], at)
  <2>1. ASSUME NEW u \in tasks', NEW t \in left, SameRun(u, t)
        PROVE  \E s \in Schedules : jobs'[s].id = u.id
    <3>1. PICK s \in Schedules \ gone : jobs[s].id = t.id
      BY <1>3
    <3>2. t.id # 0 /\ u.id = t.id
      BY <1>3, <2>1, TasksAre DEF SameRun
    <3>3. s = w => jobs'[w].id = jobs[w].id
      BY <3>1, <3>2 DEF SeedOn, Stored
    <3>4. s # w => jobs'[s] = jobs[s]
      BY <3>1 DEF SeedOn
    <3> QED BY <3>1, <3>2, <3>3, <3>4
  <2>2. ASSUME NEW u \in tasks', FreshRun(u, w, row, at)
        PROVE  /\ jobs'[w].id = u.id
               /\ Advances(w, row, at) \/ Starts(w, row, at)
    <3>1. row.nextRunAt # Never /\ u.id = row.id
      BY <1>1, <2>2, FreshHasFire DEF SeedOn, FreshRun
    <3> QED BY <3>1 DEF SeedOn
  <2> QED BY <1>1, <1>2, <1>3, <2>1, <2>2
<1>10. \A o \in Mains : /\ txn'[o] \in {Idle, txn[o]}
                        /\ txn'[o] # Idle =>
                             \A s \in txn[o].locks : jobs'[s] = jobs[s] /\ since'[s] = since[s]
  BY UnlockedIsFree DEF SeedOn
<1>11. BacklogsRetired'
  BY <1>2 DEF BacklogsRetired
<1>12. TableStep(rows, at)
  BY <1>1, <1>2, <1>6, <1>7, <1>8, <1>9, <1>10, <1>11 DEF TableStep, SeedOn
<1> QED BY <1>12, TableStepKeeps

\* What the seed of a job that starts needs to know of the row it starts from.
StartFits(m, w, row, gone, left) ==
  /\ txn' = [txn EXCEPT ![m] = Idle] /\ now' = now /\ overtaken' = overtaken
  /\ gone \in SUBSET (Schedules \ {w}) /\ w \in Schedules /\ row \in Rows
  /\ inserted' \in 0..MaxJobs /\ inserted <= inserted'
  /\ \A o \in Mains : txn'[o] # Idle => \A s \in txn[o].locks : s \notin gone \cup {w}
  /\ left \subseteq WithoutTasksOf(gone)
  /\ \A t \in WithoutTasksOf(gone) : t.id # row.id => t \in left
  /\ \A t \in left : t.id = row.id /\ t.id \notin overtaken /\ CatchUp(t) => t.at <= row.nextRunAt
  /\ row.id # 0 /\ row.id <= inserted'
  /\ IF w \in Cyclic THEN row.nextRunAt # Never
     ELSE IF row.nextRunAt = Never THEN Waits(w, now + Window)
     ELSE \A f \in Fires[w] : f = row.nextRunAt
  /\ \/ ~Stored(w) /\ row.id = inserted + 1
     \/ /\ Stored(w) /\ w \notin Cyclic /\ row.id = jobs[w].id
        /\ row.nextRunAt # Never => row.nextRunAt <= now + Window
        /\ \E o \in Mains : Redefine(o)

\* A seed that starts a job keeps the invariant.
LEMMA StartsKeep ==
  ASSUME IInv, NEW m \in Mains, NEW w, NEW row, NEW gone, NEW left,
         SeedInitialOccurrences(w, row, gone, left), StartFits(m, w, row, gone, left)
  PROVE  IInv' /\ ClocksMove
<1> USE DEF IInv
<1> DEFINE plan == Plan(w, row, now)
           first == [row EXCEPT !.nextRunAt = plan.next]
<1>1. /\ jobs' = [Clear(jobs, gone, NoJob) EXCEPT ![w] = first]
      /\ tasks' = Recorded(left, {plan})
      /\ spared' = spared \cup Spared(left, {plan})
      /\ discarded' = [Clear(discarded, gone, {}) EXCEPT ![w] = plan.discards]
      /\ since' = [Clear(since, gone, Never) EXCEPT ![w] = row.nextRunAt]
  BY DEF SeedInitialOccurrences
<1>2. /\ w \in Schedules /\ row \in Rows /\ gone \in SUBSET Schedules /\ w \notin gone
      /\ now \in 0..MaxTime /\ now \in 0..now /\ now \in Nat
  BY Numbers DEF StartFits, TypeOK
<1>3. plan.discards \subseteq [at : Instants, policy : Policies] /\ plan.next \in 0..Never
  BY <1>2, DiscardsAre
<1> HIDE DEF plan
<1>4. first \in Rows /\ first.id = row.id /\ first.nextRunAt = plan.next
  BY <1>2, <1>3 DEF Rows
<1> HIDE DEF first
<1>5. /\ jobs' \in [Schedules -> Rows] /\ jobs'[w] = first
      /\ \A s \in Schedules \ {w} : jobs'[s] = IF s \in gone THEN NoJob ELSE jobs[s]
  BY <1>1, <1>2, <1>4, JobTypes DEF Clear, TypeOK
<1>6. /\ since' \in [Schedules -> 0..Never] /\ since'[w] = row.nextRunAt
      /\ \A s \in Schedules \ {w} : since'[s] = IF s \in gone THEN Never ELSE since[s]
  <2> DEFINE cleared == Clear(since, gone, Never)
  <2>1. Never \in 0..Never /\ row.nextRunAt \in 0..Never
    BY <1>2, InstantsAre DEF Rows
  <2>2. cleared \in [Schedules -> 0..Never]
    BY <2>1 DEF Clear, TypeOK
  <2>3. \A s \in Schedules : cleared[s] = IF s \in gone THEN Never ELSE since[s]
    BY ClearedAre
  <2>4. since' = [cleared EXCEPT ![w] = row.nextRunAt]
    BY <1>1
  <2> HIDE DEF cleared
  <2> QED BY <1>2, <2>1, <2>2, <2>3, <2>4
<1>7. /\ discarded' \in [Schedules -> SUBSET [at : Instants, policy : Policies]]
      /\ discarded'[w] = plan.discards
      /\ \A s \in Schedules \ {w} : discarded'[s] = IF s \in gone THEN {} ELSE discarded[s]
  BY <1>1, <1>2, <1>3 DEF Clear, TypeOK
<1>8. ~Stored(w) => row.id > inserted
  BY Numbers DEF StartFits, TypeOK
<1>9. SeedOn(m, w, row, now, gone, left)
  BY <1>1, <1>2, <1>4, <1>5, <1>6, <1>7, <1>8 DEF SeedOn, StartFits, plan
<1>10. /\ tasks' \subseteq Task /\ spared' \subseteq [id : 1..MaxJobs, at : Instants]
       /\ \A o \in plan.occurrences : Holds(tasks', row.id, o.at)
       /\ \A f \in Fires[w] : From(w, row.nextRunAt, f) /\ f < plan.next =>
            Holds(tasks', row.id, f) \/ \E d \in plan.discards : d.at = f
  BY <1>9, SeedRecords DEF plan
<1>11. TypeOK'
  <2>1. txn' \in [Mains -> {Idle} \cup Materializing \cup Provisioning \cup Seeding]
    BY DEF StartFits, TypeOK
  <2> QED BY <1>5, <1>6, <1>7, <1>10, <2>1 DEF StartFits, TypeOK
<1>12. CoversPlan(w, row, now)
  BY <1>4, <1>5, <1>7, <1>10 DEF CoversPlan, Told, Holds, plan
<1>13. discarded'[w] = Plan(w, row, now).discards /\ RecordsPlan(w, row, now)
  BY <1>7, <1>10 DEF RecordsPlan, plan
<1>14. Starts(w, row, now)
  BY <1>4, <1>5, <1>6, <1>12, <1>13 DEF Starts, StartFits, plan
<1> QED BY <1>9, <1>11, <1>14, SeedStep

\* What a provisioning transaction read and wants.
LEMMA ProvisionReads ==
  ASSUME IInv, NEW m \in Mains, txn[m].phase = "provisioning"
  PROVE  /\ txn[m].want \in Schedules /\ txn[m].policy \in Policies /\ txn[m].first \in 0..Never
         /\ txn[m].rows \in [Schedules -> Rows] /\ txn[m] # Idle
         /\ Removed(txn[m]) \in SUBSET (Schedules \ {txn[m].want})
         /\ txn[m].want \in Cyclic => txn[m].first # Never
         /\ txn[m].want \notin Cyclic =>
              IF txn[m].first = Never THEN Waits(txn[m].want, now)
              ELSE \A f \in Fires[txn[m].want] : f = txn[m].first
BY TxnTypes DEF IInv, Provisioning, Idle, Removed, CyclesGoOn, OneOffsWait

\* An insert starts a job under a new id, which no task has.
LEMMA InsertsKeep ==
  ASSUME IInv, NEW m \in Mains, Insert(m)
  PROVE  IInv' /\ ClocksMove
<1> USE DEF IInv
<1> DEFINE t == txn[m]
           w == t.want
           gone == Removed(t)
           row == [id |-> inserted + 1, nextRunAt |-> t.first, policy |-> t.policy]
           left == WithoutTasksOf(gone)
<1>1. /\ t.phase = "provisioning" /\ ~Stored(w) /\ inserted < MaxJobs
      /\ \A s \in gone : ~Locked(s)
      /\ inserted' = inserted + 1 /\ SeedInitialOccurrences(w, row, gone, left)
      /\ txn' = [txn EXCEPT ![m] = Idle] /\ now' = now /\ overtaken' = overtaken
  BY DEF Insert, Finish
<1>2. inserted \in Nat /\ inserted + 1 \in 0..MaxJobs /\ inserted <= inserted + 1
      /\ inserted + 1 # 0 /\ \A i \in Nat : i <= inserted => i # inserted + 1
  BY <1>1, Numbers DEF TypeOK
<1>3. row \in Rows /\ row.id = inserted + 1 /\ row.nextRunAt = t.first
  BY <1>1, <1>2, ProvisionReads DEF Rows
<1>4. gone \in SUBSET (Schedules \ {w}) /\ w \in Schedules
  BY <1>1, ProvisionReads
<1>5. \A o \in Mains : txn'[o] # Idle => \A s \in txn[o].locks : s \notin gone \cup {w}
  <2>1. ASSUME NEW o \in Mains, txn'[o] # Idle, NEW s \in txn[o].locks
        PROVE  s \notin gone \cup {w}
    <3>1. s \in Schedules /\ Locked(s) /\ txn[o] # Idle
      BY <1>1, <2>1, UnlockedIsFree
    <3>2. Stored(s)
      BY <2>1, <3>1, TxnTypes DEF LocksHeld, Provisioning
    <3> QED BY <1>1, <3>1, <3>2
  <2> QED BY <2>1
<1>6. \A x \in left : x.id # row.id
  BY <1>2, <1>3, TasksAre DEF WithoutTasksOf
<1>7. IF w \in Cyclic THEN row.nextRunAt # Never
      ELSE IF row.nextRunAt = Never THEN Waits(w, now + Window)
      ELSE \A f \in Fires[w] : f = row.nextRunAt
  <2>1. CASE w \in Cyclic
    BY <1>1, <1>3, <2>1, ProvisionReads
  <2>2. CASE w \notin Cyclic /\ row.nextRunAt # Never
    BY <1>1, <1>3, <2>2, ProvisionReads
  <2>3. CASE w \notin Cyclic /\ row.nextRunAt = Never
    <3>1. Waits(w, now)
      BY <1>1, <1>3, <2>3, ProvisionReads
    <3>2. now \in Nat /\ Window \in Nat /\ \A f \in Fires[w] : f \in Nat
      BY <1>4, Numbers, FiresAssumption DEF TypeOK
    <3>3. Waits(w, now + Window)
      BY <3>1, <3>2 DEF Waits
    <3> QED BY <2>3, <3>3
  <2> QED BY <2>1, <2>2, <2>3
<1> HIDE DEF row, gone, w
<1>8. StartFits(m, w, row, gone, left)
  BY <1>1, <1>2, <1>3, <1>4, <1>5, <1>6, <1>7 DEF StartFits
<1> HIDE DEF left
<1> QED BY <1>1, <1>8, StartsKeep

\* A redefinition restarts a one-off that had run or gained a fire; a recurring job
\* always has a next fire, so that it is never redefined this way.
LEMMA RedefinitionsKeep ==
  ASSUME IInv, NEW m \in Mains, Redefine(m)
  PROVE  IInv' /\ ClocksMove
<1> USE DEF IInv
<1> DEFINE t == txn[m]
           w == t.want
           gone == Removed(t)
           row == [jobs[w] EXCEPT !.nextRunAt = t.first, !.policy = t.policy]
           left == {x \in WithoutTasksOf(gone) : ~(x.id = row.id /\ x.status = "pending")}
<1>1. /\ t.phase = "provisioning" /\ t.rows[w].id # 0 /\ ~HoldsDefinition(t)
      /\ jobs[w].id = t.rows[w].id
      /\ \A s \in gone \cup {w} : ~Locked(s)
      /\ SeedInitialOccurrences(w, row, gone, left)
      /\ txn' = [txn EXCEPT ![m] = Idle] /\ now' = now /\ overtaken' = overtaken
      /\ inserted' = inserted
  BY DEF Redefine, Finish, bounds
<1>2. gone \in SUBSET (Schedules \ {w}) /\ w \in Schedules
  BY <1>1, ProvisionReads
<1>3. row \in Rows /\ row.id = jobs[w].id /\ row.nextRunAt = t.first
  BY <1>1, <1>2, ProvisionReads, JobTypes DEF Rows
<1>4. inserted' \in 0..MaxJobs /\ inserted <= inserted' /\ row.id <= inserted' /\ row.id # 0
      /\ Stored(w)
  BY <1>1, <1>2, <1>3, JobTypes DEF TypeOK, RowsConsistent, Stored
<1>5. w \notin Cyclic
  BY <1>1 DEF CyclesGoOn, HoldsDefinition
<1>6. \A o \in Mains : txn'[o] # Idle => \A s \in txn[o].locks : s \notin gone \cup {w}
  BY <1>1, UnlockedIsFree
<1>7. /\ left \subseteq WithoutTasksOf(gone)
      /\ \A x \in WithoutTasksOf(gone) : x.id # row.id => x \in left
  OBVIOUS
<1>8. /\ \A f \in Fires[w] : f \in Nat
      /\ now \in Nat /\ Window \in Nat /\ now <= now + Window
      /\ \E f \in Fires[w] : TRUE
  BY <1>2, <1>5, Numbers, FiresAssumption DEF TypeOK
<1>9. IF row.nextRunAt = Never THEN Waits(w, now + Window)
      ELSE \A f \in Fires[w] : f = row.nextRunAt
  <2>1. CASE row.nextRunAt = Never
    <3>1. Waits(w, now)
      BY <1>1, <1>3, <1>5, <2>1, ProvisionReads
    <3>2. Waits(w, now + Window)
      BY <1>8, <3>1 DEF Waits
    <3> QED BY <2>1, <3>2
  <2>2. CASE row.nextRunAt # Never
    BY <1>1, <1>3, <1>5, <2>2, ProvisionReads
  <2> QED BY <2>1, <2>2
<1>10. row.nextRunAt # Never => row.nextRunAt <= now + Window
  <2>1. ASSUME row.nextRunAt # Never PROVE row.nextRunAt <= now + Window
    <3>1. t.rows[w].nextRunAt = Never
      BY <1>1, <1>3, <2>1 DEF HoldsDefinition
    <3>2. Waits(w, now + Window)
      BY <1>1, <1>2, <1>5, <3>1 DEF OneOffsWait
    <3> QED BY <1>8, <1>9, <2>1, <3>2 DEF Waits
  <2> QED BY <2>1
<1>11. ASSUME NEW x \in left, x.id = row.id, x.id \notin overtaken, CatchUp(x)
       PROVE  x.at <= row.nextRunAt
  <2>1. x \in tasks
    BY DEF WithoutTasksOf
  <2>2. CASE t.first # Never
    <3>1. t.rows[w].nextRunAt = Never
      BY <1>1, <2>2 DEF HoldsDefinition
    <3> QED BY <1>1, <1>3, <1>11, <2>1, <2>2, <3>1 DEF CatchUpsBehind
  <2>3. CASE t.first = Never
    BY <1>3, <2>1, <2>3, TasksAre, InstantsAre DEF Task
  <2> QED BY <2>2, <2>3
<1>12. \E o \in Mains : Redefine(o)
  OBVIOUS
<1> HIDE DEF row, gone, w, left
<1>13. StartFits(m, w, row, gone, left)
  BY <1>1, <1>2, <1>3, <1>4, <1>5, <1>6, <1>7, <1>9, <1>10, <1>11, <1>12 DEF StartFits
<1> QED BY <1>1, <1>13, StartsKeep

\* What a seed read, and what it holds.
LEMMA SeedReads ==
  ASSUME IInv, NEW m \in Mains, txn[m].phase = "seeding",
         jobs[txn[m].want].id = txn[m].row.id
  PROVE  LET t == txn[m] IN
         /\ t # Idle /\ t.want \in Schedules /\ t.row \in Rows /\ t.locks \in SUBSET Schedules
         /\ t.at \in 0..MaxTime /\ t.at \in 0..now
         /\ t.row.id # 0 /\ t.row.id <= inserted /\ Stored(t.want)
         /\ t.want \in Cyclic => t.row.nextRunAt # Never
         /\ t.row.nextRunAt # Never => Covered(t.want, t.row.nextRunAt)
         /\ IF t.want \in Cyclic
            THEN since[t.want] <= t.row.nextRunAt \/ since[t.want] <= now + PlanRetry
            ELSE Waits(t.want, t.row.nextRunAt)
<1> USE DEF IInv
<1> DEFINE t == txn[m]
<1>1. t \in Seeding /\ t # Idle
  BY TxnTypes DEF Idle
<1>2. /\ t.want \in Schedules /\ t.row \in Rows /\ t.locks \in SUBSET Schedules
      /\ t.at \in 0..MaxTime
  BY <1>1 DEF Seeding
<1>3. t.at \in 0..now
  BY <1>2, Numbers DEF LocksHeld, TypeOK
<1>4. t.row.id # 0 /\ t.row.id <= inserted /\ Stored(t.want)
  BY DEF RowsConsistent, Stored
<1>5. /\ t.want \in Cyclic => t.row.nextRunAt # Never
      /\ t.row.nextRunAt # Never => Covered(t.want, t.row.nextRunAt)
  BY DEF CyclesGoOn, SeedsAccounted, Covered
<1>6. IF t.want \in Cyclic
      THEN since[t.want] <= t.row.nextRunAt \/ since[t.want] <= now + PlanRetry
      ELSE Waits(t.want, t.row.nextRunAt)
  BY <1>2 DEF SinceBounded, OneOffsWait
<1> QED BY <1>1, <1>2, <1>3, <1>4, <1>5, <1>6

\* The seed of an ignored insert advances the clock it read, or keeps it when there is
\* nothing to run; what it writes over is overtaken.
LEMMA SeedsKeep ==
  ASSUME IInv, NEW m \in Mains, SeedExisting(m)
  PROVE  IInv' /\ ClocksMove
<1> USE DEF IInv
<1>0. PICK w, row, gone, at :
        w = txn[m].want /\ row = txn[m].row /\ gone = txn[m].locks /\ at = txn[m].at
  OBVIOUS
<1> DEFINE left == WithoutTasksOf(gone)
           plan == Plan(w, row, at)
           next == IF row.nextRunAt = Never THEN jobs[w].nextRunAt ELSE plan.next
           first == [jobs[w] EXCEPT !.nextRunAt = next]
<1>1. /\ txn[m].phase = "seeding" /\ ~Locked(w) /\ jobs[w].id = row.id
      /\ jobs' = [Clear(jobs, gone, NoJob) EXCEPT ![w].nextRunAt =
                      IF row.nextRunAt = Never THEN @ ELSE plan.next]
      /\ tasks' = Recorded(left, {plan})
      /\ spared' = spared \cup Spared(left, {plan})
      /\ discarded' = [Clear(discarded, gone, {}) EXCEPT ![w] = @ \cup plan.discards]
      /\ since' = Clear(since, gone, Never)
      /\ overtaken' = overtaken \cup (IF jobs[w] # row THEN {row.id} ELSE {})
      /\ txn' = [txn EXCEPT ![m] = Idle] /\ now' = now /\ inserted' = inserted
  BY <1>0 DEF SeedExisting, Finish, bounds
<1>2. /\ txn[m] # Idle /\ w \in Schedules /\ row \in Rows /\ gone \in SUBSET Schedules
      /\ at \in 0..MaxTime /\ at \in 0..now
      /\ row.id # 0 /\ row.id <= inserted /\ Stored(w)
      /\ row.nextRunAt # Never => Covered(w, row.nextRunAt)
      /\ IF w \in Cyclic
         THEN since[w] <= row.nextRunAt \/ since[w] <= now + PlanRetry
         ELSE Waits(w, row.nextRunAt)
  BY <1>0, <1>1, SeedReads
<1>3. w \notin gone
  <2>1. txn[m].phase # "idle"
    BY <1>1
  <2> QED BY <1>0, <1>1, <2>1 DEF Locked
<1>4. row.id \in 1..MaxJobs /\ overtaken' \subseteq 1..MaxJobs /\ overtaken \subseteq overtaken'
  <2>1. row.id \in 0..MaxJobs /\ row.id # 0 /\ MaxJobs \in Nat
    BY <1>2, Numbers DEF Rows
  <2>2. row.id \in 1..MaxJobs
    BY <2>1
  <2> QED BY <1>1, <2>2 DEF TypeOK
<1>5. plan.discards \subseteq [at : Instants, policy : Policies] /\ plan.next \in 0..Never
  BY <1>2, DiscardsAre
<1> HIDE DEF plan
<1>6. /\ first \in Rows /\ first.id = row.id /\ first.nextRunAt = next
      /\ row.nextRunAt = Never => first = jobs[w]
  BY <1>1, <1>2, <1>5, JobTypes DEF Rows
<1>7. /\ jobs' \in [Schedules -> Rows] /\ jobs'[w] = first
      /\ \A s \in Schedules \ {w} : jobs'[s] = IF s \in gone THEN NoJob ELSE jobs[s]
  <2> DEFINE cleared == Clear(jobs, gone, NoJob)
  <2>1. cleared \in [Schedules -> Rows]
    BY JobTypes DEF Clear, TypeOK
  <2>2. \A s \in Schedules : cleared[s] = IF s \in gone THEN NoJob ELSE jobs[s]
    BY ClearedAre
  <2>3. cleared[w] = jobs[w]
    BY <1>2, <1>3, <2>2
  <2>4. jobs' = [cleared EXCEPT ![w] = first]
    BY <1>1, <2>3
  <2> HIDE DEF cleared, first
  <2> QED BY <1>2, <1>6, <2>1, <2>2, <2>4
<1> HIDE DEF first
<1>8. /\ since' \in [Schedules -> 0..Never]
      /\ \A s \in Schedules : since'[s] = IF s \in gone THEN Never ELSE since[s]
  BY <1>1, InstantsAre DEF Clear, TypeOK
<1>9. /\ discarded' \in [Schedules -> SUBSET [at : Instants, policy : Policies]]
      /\ discarded'[w] = discarded[w] \cup plan.discards
      /\ \A s \in Schedules \ {w} : discarded'[s] = IF s \in gone THEN {} ELSE discarded[s]
  <2> DEFINE cleared == Clear(discarded, gone, {})
  <2>1. cleared \in [Schedules -> SUBSET [at : Instants, policy : Policies]]
    BY DEF Clear, TypeOK
  <2>2. \A s \in Schedules : cleared[s] = IF s \in gone THEN {} ELSE discarded[s]
    BY ClearedAre
  <2>3. discarded' = [cleared EXCEPT ![w] = discarded[w] \cup plan.discards]
    BY <1>1, <1>2, <1>3, <2>2
  <2>4. discarded[w] \cup plan.discards \in SUBSET [at : Instants, policy : Policies]
    BY <1>2, <1>5 DEF TypeOK
  <2> HIDE DEF cleared
  <2> QED BY <1>2, <2>1, <2>2, <2>3, <2>4
<1>10. \A o \in Mains : txn'[o] # Idle => \A s \in txn[o].locks : s \notin gone \cup {w}
  BY <1>0, <1>1, <1>2, UnlockedIsFree
<1>11. ASSUME NEW x \in left, x.id = row.id, x.id \notin overtaken', CatchUp(x)
       PROVE  x.at <= row.nextRunAt
  <2>1. jobs[w] = row /\ x.id \notin overtaken
    BY <1>1, <1>4, <1>11
  <2>2. x \in tasks
    BY DEF WithoutTasksOf
  <2>3. x.at < row.nextRunAt
    BY <1>2, <1>11, <2>1, <2>2 DEF CatchUpsBehind
  <2>4. x.at \in Nat /\ row.nextRunAt \in Nat
    BY <1>2, <2>2, TasksAre, InstantsAre, Numbers DEF Task, Rows
  <2> QED BY <2>3, <2>4
<1>12. inserted <= inserted' /\ row.id <= inserted'
  BY <1>1, <1>2, Numbers DEF TypeOK
<1>13. SeedOn(m, w, row, at, gone, left)
  <2>1. gone \in SUBSET (Schedules \ {w})
    BY <1>2, <1>3
  <2>2. \A x \in left : x.id = row.id /\ x.id \notin overtaken' /\ CatchUp(x)
          => x.at <= row.nextRunAt
    BY <1>11
  <2>3. /\ \A s \in gone : jobs'[s] = NoJob
        /\ \A s \in Schedules \ (gone \cup {w}) :
             jobs'[s] = jobs[s] /\ since'[s] = since[s] /\ discarded'[s] = discarded[s]
    BY <1>7, <1>8, <1>9, <2>1
  <2>4. jobs'[w].id = row.id
    BY <1>6, <1>7
  <2>5. /\ tasks' = Recorded(left, {Plan(w, row, at)})
        /\ spared' = spared \cup Spared(left, {Plan(w, row, at)})
    BY <1>1 DEF plan
  <2>6. /\ left \subseteq WithoutTasksOf(gone)
        /\ \A x \in WithoutTasksOf(gone) : x.id # row.id => x \in left
    OBVIOUS
  <2>7. jobs[w].id = row.id /\ txn' = [txn EXCEPT ![m] = Idle] /\ now' = now
    BY <1>1
  <2> HIDE DEF left
  <2> QED BY <1>2, <1>4, <1>7, <1>8, <1>10, <1>12, <2>1, <2>2, <2>3, <2>4, <2>5, <2>6, <2>7
          DEF SeedOn
<1>14. /\ tasks' \subseteq Task /\ spared' \subseteq [id : 1..MaxJobs, at : Instants]
       /\ \A o \in plan.occurrences : Holds(tasks', row.id, o.at)
       /\ \A x \in left : Holds(tasks', x.id, x.at)
       /\ \A f \in Fires[w] : From(w, row.nextRunAt, f) /\ f < plan.next =>
            Holds(tasks', row.id, f) \/ \E d \in plan.discards : d.at = f
  <2> HIDE DEF left
  <2> QED BY <1>13, SeedRecords DEF plan
<1>15. TypeOK'
  <2>1. txn' \in [Mains -> {Idle} \cup Materializing \cup Provisioning \cup Seeding]
    BY <1>1 DEF TypeOK
  <2> QED BY <1>1, <1>4, <1>7, <1>8, <1>9, <1>14, <2>1 DEF TypeOK
<1>16. Held(w)
  <2>1. \A x \in tasks : x.id = jobs[w].id => x \in left
    BY <1>2, <1>3, RemovalKeeps
  <2> QED BY <1>1, <1>6, <1>7, <1>9, <1>14, <2>1 DEF Held
<1>17. since'[w] = since[w]
  BY <1>2, <1>3, <1>8
<1>18. CASE row.nextRunAt = Never
  <2>1. plan.discards = {}
    BY <1>2, <1>18, PlanIsEmpty DEF plan
  <2>2. Keeps(w)
    BY <1>2, <1>6, <1>7, <1>9, <1>16, <1>17, <1>18, <2>1 DEF Keeps
  <2> HIDE DEF left
  <2> QED BY <1>13, <1>15, <1>18, <2>2, SeedStep
<1>19. CASE row.nextRunAt # Never
  <2>1. CoversPlan(w, row, at)
    <3>1. SUFFICES ASSUME NEW f \in Fires[w], From(w, row.nextRunAt, f), f < plan.next
                   PROVE  Told(w, f)'
      BY DEF CoversPlan, plan
    <3>2. Holds(tasks', row.id, f) \/ \E d \in plan.discards : d.at = f
      BY <1>14, <3>1
    <3>3. plan.discards \subseteq discarded'[w] /\ jobs'[w].id = row.id
      BY <1>6, <1>7, <1>9
    <3> QED BY <3>2, <3>3 DEF Told, Holds
  <2>2. jobs'[w].nextRunAt = Plan(w, row, at).next
    BY <1>6, <1>7, <1>19 DEF plan
  <2>3. row.nextRunAt = jobs[w].nextRunAt \/ jobs[w].id \in overtaken'
    BY <1>1
  <2>4. discarded'[w] = discarded[w] \cup Plan(w, row, at).discards /\ RecordsPlan(w, row, at)
    BY <1>9, <1>14 DEF RecordsPlan, plan
  <2>5. Advances(w, row, at)
    BY <1>1, <1>2, <1>16, <1>17, <1>19, <2>1, <2>2, <2>3, <2>4 DEF Advances
  <2> HIDE DEF left
  <2> QED BY <1>13, <1>15, <2>5, SeedStep
<1> QED BY <1>18, <1>19

-----------------------------------------------------------------------------
(* The theorems. *)

\* The scheduler starts with no job, no task and no transaction.
LEMMA InitHolds == Init => IInv
<1> SUFFICES ASSUME Init PROVE IInv
  OBVIOUS
<1>1. /\ now = 0 /\ tasks = {} /\ overtaken = {} /\ spared = {} /\ inserted = 0
      /\ \A s \in Schedules : jobs[s] = NoJob /\ since[s] = Never /\ discarded[s] = {}
      /\ \A m \in Mains : txn[m] = Idle
  BY DEF Init
<1>2. /\ Idle.phase = "idle" /\ NoJob.id = 0 /\ NoJob.nextRunAt = Never
      /\ NoJob \in Rows /\ Never \in 0..Never
      /\ 0 \in 0..MaxTime /\ 0 \in 0..MaxJobs
  BY Numbers, InstantsAre DEF Idle, NoJob, Rows, Policies
<1>3. TypeOK
  BY <1>1, <1>2 DEF Init, TypeOK
<1>4. \A s \in Schedules : \A f \in Fires[s] : f \in Nat /\ f <= Never
  BY FiresAssumption, InstantsAre
<1>5. RowsConsistent /\ LocksHeld /\ CyclesGoOn
  BY <1>1, <1>2, FiresAssumption DEF RowsConsistent, LocksHeld, CyclesGoOn, Stored
<1>6. OneOffsWait /\ SinceBounded
  BY <1>1, <1>2, <1>4, FiresAssumption DEF OneOffsWait, SinceBounded, Waits, Stored
<1>7. /\ Accounted /\ SeedsAccounted /\ BacklogsRetired /\ CatchUpsBehind
      /\ DiscardsBehind /\ BacklogGoesOn
  BY <1>1, <1>2 DEF Accounted, SeedsAccounted, BacklogsRetired, Alone, CatchUpsBehind,
                    DiscardsBehind, BacklogGoesOn, Stored
<1> QED BY <1>3, <1>5, <1>6, <1>7 DEF IInv

\* Every step keeps the invariant.
LEMMA StepKeeps == IInv /\ [Next]_vars => IInv' /\ ClocksMove
<1> SUFFICES ASSUME IInv, [Next]_vars PROVE IInv' /\ ClocksMove
  OBVIOUS
<1>0. jobs' = jobs => ClocksMove
  <2>1. \A s \in Schedules : jobs[s].nextRunAt <= jobs[s].nextRunAt
    BY JobTypes DEF IInv
  <2> QED BY <2>1 DEF ClocksMove
<1>1. ASSUME NEW m \in Mains, ClaimDueJobs(m) PROVE IInv' /\ ClocksMove
  BY <1>0, <1>1, ClaimsKeep DEF ClaimDueJobs
<1>2. ASSUME NEW m \in Mains, Materialize(m) PROVE IInv' /\ ClocksMove
  BY <1>2, PassStep, TableStepKeeps
<1>3. ASSUME NEW m \in Mains, Abort(m) PROVE IInv' /\ ClocksMove
  BY <1>0, <1>3, TransactionsRollBack DEF Abort
<1>4. ASSUME NEW m \in Mains, FindExisting(m) PROVE IInv' /\ ClocksMove
  BY <1>0, <1>4, FindsKeep DEF FindExisting
<1>5. ASSUME NEW m \in Mains, CommitProvision(m) PROVE IInv' /\ ClocksMove
  <2>1. CASE Insert(m)
    BY <2>1, InsertsKeep
  <2>2. CASE InsertIgnored(m)
    BY <1>0, <2>2, IgnoredInsertsKeep DEF InsertIgnored
  <2>3. CASE Redefine(m)
    BY <2>3, RedefinitionsKeep
  <2>4. CASE LeaveUnchanged(m)
    BY <2>4, UnchangedMatchesKeep
  <2>5. CASE MatchIsGone(m)
    BY <2>5, GoneMatchesKeep
  <2>6. CASE SeedExisting(m)
    BY <2>6, SeedsKeep
  <2>7. CASE SeedFails(m)
    BY <1>0, <2>7, TransactionsRollBack DEF SeedFails
  <2> QED BY <1>5, <2>1, <2>2, <2>3, <2>4, <2>5, <2>6, <2>7 DEF CommitProvision
<1>6. CASE Deprovision
  BY <1>6, DeprovisionKeeps
<1>7. CASE ClaimTask \/ ReleaseClaim \/ Retry \/ RetireMissedPending
  <2>1. jobs' = jobs
    BY <1>7, Zenon DEF ClaimTask, ReleaseClaim, Retry, RetireMissedPending
  <2> QED BY <1>0, <1>7, <2>1, TasksMoveOn
<1>8. CASE Tick
  BY <1>0, <1>8, TicksKeep DEF Tick
<1>9. CASE UNCHANGED vars
  BY <1>0, <1>9, StuttersKeep DEF vars
<1> QED BY <1>1, <1>2, <1>3, <1>4, <1>5, <1>6, <1>7, <1>8, <1>9 DEF Next, MainNext

\* Whatever passes, seeds, re-registrations and crashes overlap: the parts above hold
\* in every reachable state.
THEOREM Invariance == Spec => []IInv
<1>1. Init => IInv
  BY InitHolds
<1>2. IInv /\ [Next]_vars => IInv'
  BY StepKeeps
<1> QED BY <1>1, <1>2, PTL DEF Spec

\* TypeOK: the tables hold what their columns allow, so that a job's clock and every
\* recorded instant is one a pass can compare (the columns of scheduled_job and
\* scheduled_task, and what a transaction of the store keeps of them).
THEOREM TypesAreKept == Spec => []TypeOK
<1>1. IInv => TypeOK
  BY DEF IInv
<1> QED BY <1>1, Invariance, PTL

\* Accounted: an instant the clock of a job has moved past has its one row or was
\* discarded by a misfire policy (materialize.ts:78-81, plan.ts:77-85).
THEOREM FiresAreAccounted == Spec => []Accounted
<1>1. IInv => Accounted
  BY DEF IInv
<1> QED BY <1>1, Invariance, PTL

\* CatchUpStandsAlone: nothing older of its job is pending beside a catch-up run, then or
\* after a retry, but what an executor had claimed when it was recorded; unless a seed
\* wrote over a pass (misfire.ts:17-19, scheduled-task.repository.ts:216-223).
THEOREM CatchUpsStandAlone == Spec => []CatchUpStandsAlone
<1>1. IInv => CatchUpStandsAlone
  BY DEF IInv, BacklogsRetired, Alone, CatchUp, CatchUpStandsAlone
<1> QED BY <1>1, Invariance, PTL

\* BacklogGoesOn: what coalesce discards has a newer run recorded in its place, or a newer
\* skip, or the clock of its job stands within a window or a retry of now
\* (constants/src/scheduler.ts:53, misfire.ts:21-22, durable-scheduler.ts:143-161).
THEOREM BacklogsGoOn == Spec => []BacklogGoesOn
<1>1. IInv => BacklogGoesOn
  BY DEF IInv
<1> QED BY <1>1, Invariance, PTL

\* ClockMovesOn: a job's clock never moves back, unless it is redefined or overtaken
\* (scheduled-job.repository.ts:81-83).
THEOREM ClocksMoveOn == Spec => ClockMovesOn
<1>1. IInv /\ [Next]_vars =>
        [\A s \in Schedules : Stored(s) /\ jobs'[s].id = jobs[s].id =>
           \/ jobs[s].nextRunAt <= jobs'[s].nextRunAt
           \/ jobs[s].id \in overtaken'
           \/ \E m \in Mains : Redefine(m)]_vars
  BY StepKeeps DEF ClocksMove
<1> QED BY <1>1, Invariance, PTL DEF Spec, ClockMovesOn
=============================================================================
