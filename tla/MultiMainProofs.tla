--------------------------- MODULE MultiMainProofs ---------------------------
(***************************************************************************)
(* Leadership and the runs of queued executions, for any mains, executions,*)
(* waits and faults: leaders hold the key but for a lapse or a shutdown,   *)
(* one run of an execution goes on at a time, and only a late judgement of *)
(* a failed job overwrites a success.                                      *)
(***************************************************************************)
EXTENDS MultiMain, FiniteSetTheorems, TLAPS

USE SomeMains, NoneIsNoMain, MaxFaultsIsNat, MaxWaitsIsNat

-----------------------------------------------------------------------------
\* A start-up, a check or its failure keeps the election, and changes the role of
\* its own main at most.
LEMMA ElectionSteps ==
  ASSUME ElectionInv, NEW m \in Mains,
         Boot(m) \/ BootFails(m) \/ Check(m) \/ Try(m) \/ TryFails(m)
  PROVE  ElectionInv' /\ leads \ {m} \subseteq leads' /\ leads' \subseteq leads \cup {m}
<1> USE DEF ElectionInv, ElectionTypeOK, Lead, Follow, SetIfNotExists, Fault, Checks
<1>1. CASE Boot(m) \/ BootFails(m)
  <2>1. m \notin leads /\ m \notin trying /\ UNCHANGED trying
    BY <1>1 DEF Boot, BootFails, Advance, DownIsSilent
  <2>2. ElectionTypeOK'
    BY <1>1, <2>1 DEF Boot, BootFails, Advance, Phases
  <2>3. LeadersHoldTheKey'
    BY <1>1, <2>1 DEF Boot, BootFails, Advance, LeadersHoldTheKey
  <2>4. DownIsSilent'
    BY <1>1, <2>1 DEF Boot, BootFails, Advance, DownIsSilent
  <2> QED BY <1>1, <2>2, <2>3, <2>4 DEF Boot, BootFails
<1>2. CASE Check(m)
  BY <1>2 DEF Check, LeadersHoldTheKey, DownIsSilent
<1>3. CASE Try(m) \/ TryFails(m)
  <2>1. ElectionTypeOK'
    BY <1>3 DEF Try, TryFails
  <2>2. LeadersHoldTheKey'
    BY <1>3 DEF Try, TryFails, LeadersHoldTheKey
  <2>3. DownIsSilent'
    BY <1>3 DEF Try, TryFails, DownIsSilent
  <2> QED BY <1>3, <2>1, <2>2, <2>3 DEF Try, TryFails
<1> QED BY <1>1, <1>2, <1>3

\* A signal changes no role, and a shutdown that of its own main at most: what the
\* main leads from then on is by its shutdown.
LEMMA Stopping ==
  ASSUME ElectionInv, NEW m \in Mains, GetSignal(m) \/ Shutdown(m)
  PROVE  ElectionInv' /\ leads \ {m} \subseteq leads' /\ leads' \subseteq leads
<1> USE DEF ElectionInv, ElectionTypeOK, SetIfNotExists, ClearLeader, Fault, Advance, Checks
<1>1. CASE GetSignal(m)
  BY <1>1 DEF GetSignal, Phases, LeadersHoldTheKey, DownIsSilent
<1>2. CASE Shutdown(m)
  <2>1. leads \ {m} \subseteq leads' /\ leads' \subseteq leads
    BY <1>2 DEF Shutdown
  <2>2. ElectionTypeOK'
    BY <1>2 DEF Shutdown, Phases
  <2>3. LeadersHoldTheKey'
    BY <1>2 DEF Shutdown, LeadersHoldTheKey
  <2>4. DownIsSilent'
    BY <1>2 DEF Shutdown, DownIsSilent
  <2> QED BY <2>1, <2>2, <2>3, <2>4
<1> QED BY <1>1, <1>2

\* A main that ends or crashes keeps it as well, and no longer leads.
LEMMA Deaths ==
  ASSUME ElectionInv, NEW m \in Mains, Exit(m) \/ Crash(m)
  PROVE  ElectionInv' /\ leads' = leads \ {m}
<1> USE DEF ElectionInv, ElectionTypeOK, Gone, Fault, Checks
<1>1. ElectionTypeOK'
  BY DEF Exit, Crash, Phases
<1>2. LeadersHoldTheKey'
  BY DEF Exit, Crash, LeadersHoldTheKey
<1>3. DownIsSilent'
  BY DEF Exit, Crash, DownIsSilent
<1> QED BY <1>1, <1>2, <1>3 DEF Exit, Crash

\* A key that expires does so under a holder whose checks are over, or is a lapse.
LEMMA Expiries ==
  ASSUME ElectionInv, Expire \/ MissRenewals
  PROVE  ElectionInv' /\ leads' = leads
<1> USE DEF ElectionInv, ElectionTypeOK, Fault, Checks
<1>1. ElectionTypeOK'
  BY DEF Expire, MissRenewals
<1>2. LeadersHoldTheKey'
  BY DEF Expire, MissRenewals, LeadersHoldTheKey, DownIsSilent
<1>3. DownIsSilent'
  BY DEF Expire, MissRenewals, DownIsSilent
<1> QED BY <1>1, <1>2, <1>3 DEF Expire, MissRenewals

\* The other steps leave the election alone, but for a main that begins to serve
\* and for the count of faults.
LEMMA ElectionKept ==
  ASSUME ElectionInv, UNCHANGED <<key, leads, trying, lapsed>>,
         UNCHANGED phase \/ \E m \in Mains : Advance(m, "started", "up"),
         UNCHANGED faults \/ Fault
  PROVE  ElectionInv'
BY DEF ElectionInv, ElectionTypeOK, LeadersHoldTheKey, DownIsSilent, Advance, Fault, Phases,
       Checks

-----------------------------------------------------------------------------
\* An attempt that starts finds no other of its execution unsaved.
LEMMA Starting ==
  ASSUME QueueInv, NEW m \in Mains, NEW a \in Attempts, Create(m, a) \/ Resume(m, a)
  PROVE  QueueInv'
<1> USE DEF QueueInv, QueueTypeOK
<1>1. /\ stage[a] = "idle" /\ stage' = [stage EXCEPT ![a] = "enqueuing"]
      /\ owner' = [owner EXCEPT ![a] = m] /\ UNCHANGED <<job, work>>
      /\ Exec(a) \in Execs /\ row[Exec(a)] \in {"absent", "waiting"}
      /\ row' = [row EXCEPT ![Exec(a)] = "new"] \/ row' = [row EXCEPT ![Exec(a)] = "running"]
  BY DEF Create, Resume, Start, SetRow, Attempts, Exec
<1>2. \A b \in Attempts : Exec(b) = Exec(a) => ~Unsaved(b)
  BY <1>1 DEF UnsavedHoldTheRow
<1>3. \A b \in Attempts : Unsaved(b)' <=> (b = a \/ Unsaved(b))
  BY <1>1 DEF Unsaved
<1>4. QueueTypeOK'
  BY <1>1 DEF Statuses, InProgress, Stages
<1>5. AttemptsConsistent'
  BY <1>1 DEF AttemptsConsistent
<1>6. UnsavedHoldTheRow'
  BY <1>1, <1>2, <1>3 DEF UnsavedHoldTheRow, Attempts, Exec
<1>7. UnsavedAlone'
  BY <1>2, <1>3 DEF UnsavedAlone
<1> QED BY <1>4, <1>5, <1>6, <1>7

\* A step by which no attempt becomes unsaved, and after which no row can be claimed
\* or is a success that was not so before, or was its own attempt's to write.
LEMMA NoneUnsaved ==
  ASSUME QueueInv, QueueTypeOK', AttemptsConsistent',
         \A b \in Attempts : Unsaved(b)' => Unsaved(b),
         \A b \in Attempts : Unsaved(b)' =>
            row'[Exec(b)] = row[Exec(b)] \/ row'[Exec(b)] \in {"new", "running", "error", "crashed"}
  PROVE  QueueInv'
BY DEF QueueInv, UnsavedHoldTheRow, UnsavedAlone

\* The worker's save: its attempt was the only one unsaved.
LEMMA Saving ==
  ASSUME QueueInv, NEW a \in Attempts, Save(a)
  PROVE  QueueInv'
<1> USE DEF QueueInv, QueueTypeOK
<1>1. /\ work[a] = "running" /\ work' = [work EXCEPT ![a] = "none"] /\ Exec(a) \in Execs
      /\ job[a] # "waiting" /\ stage[a] \notin {"idle", "enqueuing"}
      /\ UNCHANGED <<owner, stage>>
      /\ job' \in [Attempts -> Jobs]
      /\ job'[a] # "waiting"
      /\ \A b \in Attempts : b # a => job'[b] = job[b]
      /\ row' \in [Execs -> Statuses]
      /\ \A e \in Execs : e # Exec(a) => row'[e] = row[e]
  BY DEF Save, Work, SetRow, EndJob, SetJob, AttemptsConsistent, Attempts, Exec, Statuses, Jobs
<1>2. Unsaved(a) /\ \A b \in Attempts : Exec(b) = Exec(a) /\ Unsaved(b) => b = a
  BY <1>1 DEF Unsaved, UnsavedAlone
<1>3. \A b \in Attempts : Unsaved(b)' => b # a /\ Unsaved(b)
  BY <1>1 DEF Unsaved
<1>4. QueueTypeOK' /\ AttemptsConsistent'
  BY <1>1 DEF AttemptsConsistent, Works
<1>5. UnsavedHoldTheRow'
  BY <1>1, <1>2, <1>3 DEF UnsavedHoldTheRow, Attempts, Exec
<1>6. UnsavedAlone'
  BY <1>3 DEF UnsavedAlone
<1> QED BY <1>4, <1>5, <1>6

\* What a main and a worker do for an attempt.
LEMMA Carrying ==
  ASSUME QueueInv, NEW a \in Attempts, Carry(a)
  PROVE  QueueInv'
<1> USE DEF QueueInv, QueueTypeOK, Unsaved, Jobs, Stages, Works
<1>0. Exec(a) \in Execs
  BY DEF Attempts, Exec
<1>1. CASE AddJob(a)
  <2>1. /\ stage[a] = "enqueuing" /\ stage' = [stage EXCEPT ![a] = "awaiting"]
        /\ job' = [job EXCEPT ![a] = "waiting"] /\ UNCHANGED <<row, work, owner>>
    BY <1>1 DEF AddJob, Stage, SetJob
  <2>2. QueueTypeOK' /\ AttemptsConsistent'
    BY <2>1 DEF AttemptsConsistent
  <2>3. \A b \in Attempts : Unsaved(b)' => Unsaved(b)
    BY <2>1
  <2> QED BY <2>1, <2>2, <2>3, NoneUnsaved
<1>2. CASE TakeJob(a) \/ GiveUp(a)
  <2>1. /\ UNCHANGED <<row, owner, stage>>
        /\ job[a] \in {"waiting", "active"}
        /\ job' \in [Attempts -> Jobs] /\ job'[a] # "waiting"
        /\ work' \in [Attempts -> Works]
        /\ \A b \in Attempts : b # a => job'[b] = job[b] /\ work'[b] = work[b]
        /\ work'[a] \in {"read", "running"} => Unsaved(a)
    BY <1>2 DEF TakeJob, GiveUp, SetJob, EndJob, Work
  <2>2. QueueTypeOK' /\ AttemptsConsistent'
    BY <2>1 DEF AttemptsConsistent
  <2>3. \A b \in Attempts : Unsaved(b)' => Unsaved(b)
    BY <2>1
  <2> QED BY <2>1, <2>2, <2>3, NoneUnsaved
<1>3. CASE SetRunning(a)
  <2>1. /\ work[a] = "read" /\ work' = [work EXCEPT ![a] = "running"]
        /\ UNCHANGED <<owner, stage, job>> /\ row' = [row EXCEPT ![Exec(a)] = "running"]
    BY <1>3 DEF SetRunning, Work, SetRow
  <2>2. QueueTypeOK' /\ AttemptsConsistent'
    BY <1>0, <2>1 DEF AttemptsConsistent, Statuses, InProgress
  <2>3. \A b \in Attempts : Unsaved(b)' => Unsaved(b)
    BY <2>1
  <2> QED BY <1>0, <2>1, <2>2, <2>3, NoneUnsaved DEF Attempts, Exec
<1>4. CASE Save(a)
  BY <1>4, Saving
<1>5. CASE JobFinished(a)
  <2>1. /\ stage[a] = "awaiting" /\ job[a] \in {"completed", "failed"}
        /\ job' = [job EXCEPT ![a] = "none"] /\ UNCHANGED <<row, work>>
        /\ stage' = [stage EXCEPT ![a] = "over"] \/ stage' = [stage EXCEPT ![a] = "judged"]
        /\ owner' = [owner EXCEPT ![a] = None] \/ owner' = owner
    BY <1>5 DEF JobFinished, Fails, Stage, SetJob
  <2>2. QueueTypeOK' /\ AttemptsConsistent'
    BY <2>1 DEF AttemptsConsistent
  <2>3. \A b \in Attempts : Unsaved(b)' => Unsaved(b)
    BY <2>1
  <2> QED BY <2>1, <2>2, <2>3, NoneUnsaved
<1>6. CASE SaveError(a)
  <2>1. /\ stage[a] = "judged" /\ stage' = [stage EXCEPT ![a] = "over"]
        /\ owner' = [owner EXCEPT ![a] = None] /\ UNCHANGED <<job, work>>
        /\ row' = [row EXCEPT ![Exec(a)] = "error"]
    BY <1>6 DEF SaveError, Stage, SetRow
  <2>2. QueueTypeOK' /\ AttemptsConsistent'
    BY <1>0, <2>1 DEF AttemptsConsistent, Statuses, InProgress
  <2>3. \A b \in Attempts : Unsaved(b)' => Unsaved(b)
    BY <2>1
  <2> QED BY <1>0, <2>1, <2>2, <2>3, NoneUnsaved DEF Attempts, Exec
<1> QED BY <1>1, <1>2, <1>3, <1>4, <1>5, <1>6 DEF Carry

\* What may go wrong with it.
LEMMA Breaking ==
  ASSUME QueueInv, NEW a \in Attempts, Break(a)
  PROVE  QueueInv'
<1> USE DEF QueueInv, QueueTypeOK, Unsaved, Jobs, Stages, Works
<1>1. CASE AddJobFails(a)
  <2>1. /\ stage[a] = "enqueuing" /\ UNCHANGED <<row, job, work>>
        /\ stage' = [stage EXCEPT ![a] = "over"] \/ stage' = [stage EXCEPT ![a] = "judged"]
        /\ owner' = [owner EXCEPT ![a] = None] \/ owner' = owner
    BY <1>1 DEF AddJobFails, Fails, Stage
  <2>2. QueueTypeOK' /\ AttemptsConsistent'
    BY <2>1 DEF AttemptsConsistent
  <2>3. \A b \in Attempts : Unsaved(b)' => Unsaved(b)
    BY <2>1
  <2> QED BY <2>1, <2>2, <2>3, NoneUnsaved
<1>2. CASE Stall(a) \/ WorkerCrash(a)
  <2>1. /\ UNCHANGED <<row, owner, stage>>
        /\ job' \in [Attempts -> Jobs] /\ work' \in [Attempts -> Works]
        /\ \A b \in Attempts : b # a => job'[b] = job[b] /\ work'[b] = work[b]
        /\ work'[a] \in {"none", work[a]} /\ job'[a] \in {"none", "failed", job[a]}
        /\ job'[a] # job[a] => job[a] = "active"
    BY <1>2 DEF Stall, WorkerCrash, SetJob, EndJob
  <2>2. QueueTypeOK' /\ AttemptsConsistent'
    BY <2>1 DEF AttemptsConsistent
  <2>3. \A b \in Attempts : Unsaved(b)' => Unsaved(b)
    BY <2>1
  <2> QED BY <2>1, <2>2, <2>3, NoneUnsaved
<1> QED BY <1>1, <1>2 DEF Break

\* A main that is gone leaves its attempts to their workers.
LEMMA Abandoning ==
  ASSUME QueueInv, NEW m \in Mains, Abandon(m)
  PROVE  QueueInv'
<1> USE DEF QueueInv, QueueTypeOK, Unsaved, Jobs, Stages, Works
<1>1. QueueTypeOK'
  BY DEF Abandon
<1>2. AttemptsConsistent'
  BY DEF Abandon, AttemptsConsistent
<1>3. \A b \in Attempts : Unsaved(b)' => Unsaved(b)
  BY DEF Abandon
<1> QED BY <1>1, <1>2, <1>3, NoneUnsaved DEF Abandon, Attempts, Exec

\* Recovery marks rows in progress alone.
LEMMA Marking ==
  ASSUME QueueInv, NEW es, MarkAsCrashed(es), UNCHANGED jobVars
  PROVE  QueueInv'
<1> USE DEF QueueInv, QueueTypeOK, jobVars
<1>1. QueueTypeOK'
  BY DEF MarkAsCrashed, Statuses, InProgress
<1>2. \A b \in Attempts : Exec(b) \in Execs
  BY DEF Attempts, Exec
<1> QED BY <1>1, <1>2, NoneUnsaved DEF MarkAsCrashed, AttemptsConsistent, Unsaved

-----------------------------------------------------------------------------
\* What main m's trackers may do: the trackers of all stay well-typed.
LEMMA Hearing ==
  ASSUME TrackersTypeOK, NEW m \in Mains, Hear(m),
         leads \ {m} \subseteq leads', leads' \subseteq leads \cup {m}, UNCHANGED saw
  PROVE  TrackersTypeOK'
<1> USE DEF TrackersTypeOK
<1>1. CASE Serves(m) /\ m \in leads' /\ m \notin leads
  BY <1>1 DEF Hear, StartTracking
<1>2. CASE Serves(m) /\ m \in leads /\ m \notin leads'
  BY <1>2 DEF Hear, StopTracking
<1>3. CASE /\ ~(Serves(m) /\ m \in leads' /\ m \notin leads)
           /\ ~(Serves(m) /\ m \in leads /\ m \notin leads')
  BY <1>3 DEF Hear, trackerVars
<1> QED BY <1>1, <1>2, <1>3

\* The invariant holds at first: one leader, no execution.
LEMMA Starts == Init => IInv
<1> SUFFICES ASSUME Init PROVE IInv
  OBVIOUS
<1>1. First \in Mains
  BY DEF First
<1>2. ElectionInv
  BY <1>1 DEF Init, ElectionInit, ElectionInv, ElectionTypeOK, LeadersHoldTheKey, DownIsSilent,
             Phases
<1>3. QueueInv
  BY DEF Init, QueueInit, QueueInv, QueueTypeOK, AttemptsConsistent, UnsavedHoldTheRow,
         UnsavedAlone, Unsaved, Statuses, Stages, Jobs, Works
<1>4. TrackersTypeOK
  BY <1>1 DEF Init, TrackersTypeOK
<1> QED BY <1>2, <1>3, <1>4 DEF IInv

\* Every step keeps it.
LEMMA Keeps == IInv /\ [Next]_vars => IInv'
<1> SUFFICES ASSUME IInv, [Next]_vars PROVE IInv'
  OBVIOUS
<1>0. ElectionInv /\ QueueInv /\ TrackersTypeOK
  BY DEF IInv
<1>a. UNCHANGED queueVars => QueueInv'
  BY <1>0 DEF queueVars, jobVars, QueueInv, QueueTypeOK, AttemptsConsistent, UnsavedHoldTheRow,
              UnsavedAlone, Unsaved
<1>b. UNCHANGED <<trackerVars, recoveryVars, unheard>> /\ leads \subseteq leads'
       => TrackersTypeOK'
  BY <1>0 DEF trackerVars, recoveryVars, TrackersTypeOK
<1>c. UNCHANGED electionVars => ElectionInv'
  BY <1>0, ElectionKept DEF electionVars
<1>1. ASSUME NEW m \in Mains, StartUp(m) PROVE IInv'
  <2>1. ElectionInv' /\ leads \ {m} \subseteq leads' /\ leads' \subseteq leads \cup {m}
    BY <1>0, <1>1, ElectionSteps DEF StartUp
  <2>2. m \notin leads
    BY <1>0, <1>1 DEF StartUp, Boot, BootFails, Advance, ElectionInv, DownIsSilent
  <2>3. TrackersTypeOK'
    BY <1>0, <1>1, <2>1, <2>2 DEF StartUp, StartTracking, TrackersTypeOK, trackerVars, recoveryVars
  <2> QED BY <1>1, <1>a, <2>1, <2>3 DEF StartUp, IInv
<1>2. ASSUME NEW m \in Mains, Elect(m) \/ ElectFails(m) PROVE IInv'
  BY <1>0, <1>2, <1>a, ElectionSteps, Hearing DEF Elect, ElectFails, IInv
<1>3. ASSUME NEW m \in Mains, Serve(m) PROVE IInv'
  <2>1. ElectionInv'
    BY <1>0, <1>3, ElectionKept DEF Serve
  <2>2. TrackersTypeOK'
    BY <1>0, <1>3 DEF Serve, TrackersTypeOK, trackerVars
  <2> QED BY <1>3, <1>a, <2>1, <2>2 DEF Serve, IInv
<1>s. ASSUME NEW m \in Mains, BeginToStop(m) \/ Resign(m) PROVE IInv'
  <2>1. ElectionInv' /\ leads \ {m} \subseteq leads' /\ leads' \subseteq leads \cup {m}
    BY <1>0, <1>s, Stopping DEF BeginToStop, Resign
  <2>2. BeginToStop(m) => TrackersTypeOK'
    BY <1>0 DEF BeginToStop, GetSignal, StopTracking, TrackersTypeOK
  <2>3. Resign(m) => TrackersTypeOK'
    BY <1>0, <2>1, Hearing DEF Resign
  <2>4. QueueInv'
    BY <1>s, <1>a DEF BeginToStop, Resign
  <2> QED BY <1>s, <2>1, <2>2, <2>3, <2>4 DEF IInv
<1>4. ASSUME NEW m \in Mains, Die(m) PROVE IInv'
  <2>1. ElectionInv' /\ leads' = leads \ {m}
    BY <1>0, <1>4, Deaths DEF Die
  <2>2. QueueInv'
    BY <1>0, <1>4, Abandoning DEF Die
  <2>3. TrackersTypeOK'
    BY <1>0, <1>4, <2>1 DEF Die, TrackersTypeOK
  <2> QED BY <2>1, <2>2, <2>3 DEF IInv
<1>5. ASSUME NEW m \in Mains, Track(m) PROVE IInv'
  <2>1. TrackersTypeOK'
    BY <1>0, <1>5 DEF Track, TrackersTypeOK, electionVars, recoveryVars
  <2> QED BY <1>5, <1>a, <1>c, <2>1 DEF Track, IInv
<1>6. ASSUME NEW m \in Mains, Recover(m) PROVE IInv'
  <2>1. UNCHANGED electionVars /\ TrackersTypeOK'
    BY <1>0, <1>6 DEF Recover, ReadRows, MarkDangling, TrackersTypeOK, trackerVars, electionVars
  <2>2. QueueInv'
    BY <1>0, <1>6, <1>a, Marking DEF Recover, ReadRows, MarkDangling
  <2> QED BY <1>c, <2>1, <2>2 DEF IInv
<1>7. ASSUME NEW m \in Mains, NEW e \in Execs, Fire(m, e) PROVE IInv'
  <2>1. UNCHANGED electionVars /\ TrackersTypeOK'
    BY <1>0, <1>7 DEF Fire, TrackersTypeOK, recoveryVars, electionVars
  <2>2. QueueInv'
    BY <1>0, <1>7, <1>a, Starting DEF Fire
  <2> QED BY <1>c, <2>1, <2>2 DEF IInv
<1>8. ASSUME NEW m \in Mains, NEW a \in Attempts, Arrive(m, a) PROVE IInv'
  BY <1>0, <1>8, <1>b, <1>c, Starting DEF Arrive, IInv, electionVars
<1>9. ASSUME NEW a \in Attempts, Carry(a) \/ Break(a) PROVE IInv'
  <2>1. UNCHANGED faults \/ Fault
    BY <1>9 DEF Carry, Break, AddJob, TakeJob, SetRunning, Save, GiveUp, JobFinished, SaveError,
                AddJobFails, Stall, WorkerCrash
  <2>2. UNCHANGED <<key, leads, trying, phase, lapsed, trackerVars, recoveryVars, unheard>>
    BY <1>9 DEF Carry, Break
  <2>3. ElectionInv' /\ TrackersTypeOK'
    BY <1>0, <1>b, <2>1, <2>2, ElectionKept
  <2> QED BY <1>0, <1>9, <2>3, Carrying, Breaking DEF IInv
<1>10. ASSUME Lapse \/ Vanish PROVE IInv'
  BY <1>0, <1>10, <1>a, <1>b, Expiries DEF Lapse, Vanish, IInv
<1>11. ASSUME UNCHANGED vars PROVE IInv'
  BY <1>11, <1>a, <1>b, <1>c DEF vars, electionVars, IInv
<1> QED BY <1>1, <1>2, <1>3, <1>s, <1>4, <1>5, <1>6, <1>7, <1>8, <1>9, <1>10, <1>11 DEF Next

-----------------------------------------------------------------------------
\* The inductive invariant of elections, queue and trackers holds throughout.
THEOREM Invariance == Spec => []IInv
BY Starts, Keeps, PTL DEF Spec

\* Every variable of the mains, the queue and the workers keeps its type.
THEOREM TypesAreKept == Spec => []TypeOK
<1>1. IInv => TypeOK
  BY DEF IInv, ElectionInv, QueueInv, TypeOK
<1> QED BY <1>1, Invariance, PTL

\* checkLeader, init and shutdown: whoever acts as leader holds the key, unless the
\* key lapsed under it or it is shutting down, for any number of mains and faults.
THEOREM LeadershipIsHeld == Spec => []LeadersHoldTheKey
<1>1. IInv => LeadersHoldTheKey
  BY DEF IInv, ElectionInv
<1> QED BY <1>1, Invariance, PTL

\* Claims of the row, jobs, recoveries and stalls never let two attempts of one
\* execution go on, for any number of mains, executions and waits.
THEOREM RunsAreAlone == Spec => []OneRunAtATime
<1>1. IInv => OneRunAtATime
  <2> SUFFICES ASSUME UnsavedAlone, NEW e \in Execs
               PROVE  Cardinality({a \in Attempts : Exec(a) = e /\ Unsaved(a)}) <= 1
    BY DEF IInv, QueueInv, OneRunAtATime
  <2> DEFINE going == {a \in Attempts : Exec(a) = e /\ Unsaved(a)}
  <2>1. CASE going = {}
    BY <2>1, FS_EmptySet
  <2>2. CASE going # {}
    <3>1. PICK a \in going : TRUE
      BY <2>2
    <3>2. going = {a}
      BY <3>1 DEF UnsavedAlone
    <3> HIDE DEF going
    <3>3. Cardinality(going) = 1
      BY <3>2, FS_Singleton
    <3> QED BY <3>3 DEF going
  <2> QED BY <2>1, <2>2
<1> QED BY <1>1, Invariance, PTL

\* A success in the row is overwritten by the main that judged a failed job before,
\* never by a recovery, a second run or a late setRunning.
THEOREM SuccessesStay == Spec => SuccessIsFinal
<1> DEFINE Excused(e) == \E a \in Attempts :
                           Exec(a) = e /\ stage[a] = "judged" /\ stage'[a] = "over"
<1>1. IInv /\ [Next]_vars =>
        [\A e \in Execs : row[e] = "success" /\ row'[e] # "success" => Excused(e)]_vars
  <2> SUFFICES ASSUME IInv, Next, NEW e \in Execs, row[e] = "success", row'[e] # "success"
               PROVE  Excused(e)
    OBVIOUS
  <2>0. QueueTypeOK /\ UnsavedHoldTheRow /\ AttemptsConsistent
    BY DEF IInv, QueueInv
  <2>1. \A a \in Attempts : Exec(a) = e => ~Unsaved(a)
    BY <2>0 DEF UnsavedHoldTheRow
  <2>2. ASSUME NEW m \in Mains
        PROVE  ~\/ StartUp(m) \/ Elect(m) \/ ElectFails(m) \/ Serve(m)
                \/ BeginToStop(m) \/ Resign(m) \/ Die(m) \/ Track(m)
    BY DEF StartUp, Elect, ElectFails, Serve, BeginToStop, Resign, Die, Abandon, Track, queueVars
  <2>3. ASSUME NEW m \in Mains, NEW a \in Attempts
        PROVE  ~(Create(m, a) \/ Resume(m, a))
    BY <2>0 DEF Create, Resume, SetRow, QueueTypeOK
  <2>4. ASSUME NEW m \in Mains PROVE ~Recover(m)
    BY <2>0 DEF Recover, ReadRows, MarkDangling, MarkAsCrashed, InProgress, queueVars
  <2>5. ASSUME NEW a \in Attempts, Carry(a) PROVE Excused(e)
    <3>1. ~(SetRunning(a) \/ Save(a))
      BY <2>0, <2>1 DEF SetRunning, Save, Work, SetRow, Unsaved, QueueTypeOK
    <3>2. ~(AddJob(a) \/ TakeJob(a) \/ GiveUp(a) \/ JobFinished(a))
      BY DEF AddJob, TakeJob, GiveUp, JobFinished
    <3>3. SaveError(a)
      BY <2>5, <3>1, <3>2 DEF Carry
    <3> QED BY <2>0, <3>3 DEF SaveError, Stage, SetRow, QueueTypeOK
  <2>6. ASSUME NEW a \in Attempts PROVE ~Break(a)
    BY DEF Break, AddJobFails, Stall, WorkerCrash
  <2>7. ~(Lapse \/ Vanish)
    BY DEF Lapse, Vanish, queueVars
  <2>8. ASSUME NEW m \in Mains PROVE /\ \A f \in Execs : ~Fire(m, f)
                                     /\ \A a \in Attempts : ~Arrive(m, a)
    BY <2>3 DEF Fire, Arrive, queueVars
  <2> QED BY <2>2, <2>4, <2>5, <2>6, <2>7, <2>8 DEF Next
<1> QED BY <1>1, Invariance, PTL DEF Spec, SuccessIsFinal
=============================================================================
