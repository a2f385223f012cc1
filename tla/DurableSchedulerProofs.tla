----------------------- MODULE DurableSchedulerProofs -----------------------
(***************************************************************************)
(* Proofs about DurableScheduler for any hosts, tasks, attempt limit and   *)
(* number of disturbances: IInv is inductive, and the safety properties    *)
(* follow from it.                                                         *)
(***************************************************************************)
EXTENDS DurableScheduler, TLAPS

USE NoneIsNoHost, MaxAttemptsIsPositive, MaxDisruptionsIsNat

-----------------------------------------------------------------------------
\* The statements write well-formed rows.
LEMMA RowsClosed ==
  ASSUME NEW r \in Rows, NEW h \in Hosts
  PROVE  /\ ClaimedRow(r, h) \in Rows
         /\ BegunRow(r) \in Rows
         /\ DispatchedRow(r) \in Rows
         /\ SucceededRow(r) \in Rows
         /\ FailedRow(r) \in Rows
         /\ ReleasedRow(r) \in Rows
         /\ RescheduledRow(r) \in Rows
         /\ ReclaimedRow(r) \in Rows
<1>0. ASSUME NEW q \in Rows
      PROVE  q.leaseEpoch + 1 \in Nat /\ q.attempts + 1 \in Nat
  BY DEF Rows, Columns
<1>1. ASSUME NEW q \in Rows, NEW n \in Nat
      PROVE  /\ [q EXCEPT !.status = "running", !.claimedBy = h, !.lease = "live",
                          !.leaseEpoch = n] \in Rows
             /\ [q EXCEPT !.status = "failed", !.attempts = n] \in Rows
             /\ [q EXCEPT !.attempts = n, !.due = FALSE] \in Rows
             /\ [q EXCEPT !.leaseEpoch = n] \in Rows
  <2>1. q \in Columns /\ (q.status = "running" => q.lease # "none")
    BY DEF Rows
  <2>2. [q EXCEPT !.status = "running", !.claimedBy = h, !.lease = "live",
                  !.leaseEpoch = n] \in Rows
    BY <2>1 DEF Rows, Columns, Statuses
  <2>3. [q EXCEPT !.status = "failed", !.attempts = n] \in Rows
    BY <2>1 DEF Rows, Columns, Statuses, Terminal
  <2>4. [q EXCEPT !.attempts = n, !.due = FALSE] \in Rows
    BY <2>1 DEF Rows, Columns
  <2>5. [q EXCEPT !.leaseEpoch = n] \in Rows
    BY <2>1 DEF Rows, Columns
  <2> QED
    BY <2>2, <2>3, <2>4, <2>5
<1>2. ClaimedRow(r, h) \in Rows /\ FailedRow(r) \in Rows
  BY <1>0, <1>1 DEF ClaimedRow, FailedRow
<1>3. /\ BegunRow(r) \in Rows
      /\ DispatchedRow(r) \in Rows
      /\ SucceededRow(r) \in Rows
      /\ ReleasedRow(r) \in Rows
  BY DEF Rows, Columns, Statuses, Terminal, BegunRow, DispatchedRow, SucceededRow, ReleasedRow
<1>4. RescheduledRow(r) \in Rows
  BY <1>0, <1>1, <1>3 DEF RescheduledRow
<1>5. ReclaimedRow(r) \in Rows
  BY <1>0, <1>1, <1>4 DEF ReclaimedRow
<1> QED
  BY <1>2, <1>3, <1>4, <1>5

\* A step that drops fires and sweep entries and leaves the table alone keeps
\* the invariant.
LEMMA Shrinks ==
  ASSUME IInv,
         fires' \subseteq fires,
         sweep' \in [Hosts -> SUBSET Swept],
         \A h \in Hosts : sweep'[h] \subseteq sweep[h],
         tracked' \in [Hosts -> [Tasks -> Nat]],
         mode' \in [Hosts -> {"up", "draining", "stopped"}],
         disruptions' \in 0..MaxDisruptions,
         UNCHANGED <<row, executed, runs>>
  PROVE  IInv'
<1>1. TypeOK'
  BY DEF IInv, TypeOK
<1>2. RowsConsistent' /\ SweepsConsistent'
  BY DEF IInv, RowsConsistent, SweepsConsistent
<1>3. OwnerSeesTheRow' /\ FiresConsistent' /\ ClaimsUnique'
  BY DEF IInv, OwnerSeesTheRow, FiresConsistent, ClaimsUnique, Owned
<1> QED
  BY <1>1, <1>2, <1>3 DEF IInv

\* A step that moves one fire on, within its side of the dispatch, and leaves
\* the table alone keeps the invariant.
LEMMA FireMoves ==
  ASSUME IInv,
         NEW f \in fires, NEW g \in Fires,
         Step(f, g),
         g.host = f.host, g.id = f.id, g.epoch = f.epoch,
         g.attempts = f.attempts,
         g.phase \in PostDispatch <=> f.phase \in PostDispatch,
         f.mark # "none" => g.mark # "none",
         g.mark # "none" => g.phase \in PostDispatch,
         g.phase \in {"reported", "returned"} => g.mark # "none",
         g.mark # "none" \/ g.phase \in {"created", "duplicate"} => executed'[f.id],
         executed' \in [Tasks -> BOOLEAN],
         \A t \in Tasks : executed[t] => executed'[t],
         tracked' \in [Hosts -> [Tasks -> Nat]],
         mode' \in [Hosts -> {"up", "draining", "stopped"}],
         disruptions' \in 0..MaxDisruptions,
         UNCHANGED <<row, runs, sweep>>
  PROVE  IInv'
<1>1. f \in Fires
  BY DEF IInv, TypeOK
<1>2. fires' = (fires \ {f}) \cup {g}
  BY DEF Step
<1>3. TypeOK'
  BY <1>2 DEF IInv, TypeOK
<1>4. RowsConsistent' /\ SweepsConsistent'
  BY DEF IInv, TypeOK, RowsConsistent, SweepsConsistent
<1>5. OwnerSeesTheRow'
  BY <1>1, <1>2 DEF IInv, OwnerSeesTheRow, Owned
<1>6. FiresConsistent'
  BY <1>1, <1>2 DEF IInv, TypeOK, FiresConsistent, Fires
<1>7. ClaimsUnique'
  BY <1>1, <1>2 DEF IInv, ClaimsUnique
<1> QED
  BY <1>3, <1>4, <1>5, <1>6, <1>7 DEF IInv

\* A statement that rewrites one row, takes no row into running and changes
\* nothing an owner relies on keeps the invariant.
LEMMA RowMoves ==
  ASSUME IInv,
         NEW t \in Tasks, NEW n \in Rows,
         row' = [row EXCEPT ![t] = n],
         n.leaseEpoch >= row[t].leaseEpoch,
         n.status = "running" =>
           /\ row[t].status = "running"
           /\ n.claimedBy = row[t].claimedBy
           /\ n.leaseEpoch = row[t].leaseEpoch
           /\ n.attempts = row[t].attempts
           /\ n.startedAt = row[t].startedAt
           /\ n.dispatchedAt = row[t].dispatchedAt,
         n.status = "pending" => ~n.startedAt /\ ~n.dispatchedAt,
         n.status \in {"pending", "running"} =>
           /\ n.attempts < MaxAttempts
           /\ runs[t] <= n.attempts + (IF n.startedAt THEN 1 ELSE 0),
         n.dispatchedAt \/ n.status = "succeeded" => executed[t],
         n.status = "failed" => n.attempts = MaxAttempts /\ ~n.dispatchedAt,
         fires' \subseteq fires,
         sweep' \in [Hosts -> SUBSET Swept],
         \A h \in Hosts : sweep'[h] \subseteq sweep[h],
         UNCHANGED <<tracked, mode, executed, runs, disruptions>>
  PROVE  IInv'
<1>1. row' \in [Tasks -> Rows] /\ \A u \in Tasks : row'[u] = IF u = t THEN n ELSE row[u]
  BY DEF IInv, TypeOK
<1>2. TypeOK'
  BY <1>1 DEF IInv, TypeOK
<1>3. RowsConsistent'
  BY <1>1 DEF IInv, RowsConsistent
<1>4. fires \subseteq Fires
  BY DEF IInv, TypeOK
<1>5. OwnerSeesTheRow'
  BY <1>1, <1>4 DEF IInv, OwnerSeesTheRow, Owned, Fires
<1>6. FiresConsistent'
  BY <1>1, <1>4 DEF IInv, TypeOK, FiresConsistent, Fires, Rows, Columns
<1>7. ClaimsUnique'
  BY DEF IInv, ClaimsUnique
<1>8. SweepsConsistent'
  BY <1>1 DEF IInv, TypeOK, SweepsConsistent, Swept, Rows, Columns
<1> QED
  BY <1>2, <1>3, <1>5, <1>6, <1>7, <1>8 DEF IInv

-----------------------------------------------------------------------------
\* The steps that do more than the lemmas allow.

\* A claim: the row starts a lease under a new epoch, owned by a new fire.
LEMMA ClaimKeepsIInv ==
  ASSUME IInv, NEW h \in Hosts, NEW t \in Tasks,
         ClaimDueTasks(h, t), UNCHANGED sweep
  PROVE  IInv'
<1> DEFINE e == row[t].leaseEpoch + 1
           g == [host |-> h, id |-> t, epoch |-> e, attempts |-> row[t].attempts,
                 phase |-> "claimed", mark |-> "none"]
           n == ClaimedRow(row[t], h)
<1>1. /\ row[t] \in Rows /\ row[t].attempts \in Nat
      /\ row[t].leaseEpoch \in Nat /\ e \in Nat /\ row[t].leaseEpoch < e
  BY DEF IInv, TypeOK, Rows, Columns
<1>2. n \in Rows
  BY <1>1, RowsClosed
<1>3. /\ n.status = "running"
      /\ n.claimedBy = h
      /\ n.leaseEpoch = e
      /\ n.attempts = row[t].attempts
      /\ n.startedAt = row[t].startedAt
      /\ n.dispatchedAt = row[t].dispatchedAt
  BY <1>1 DEF Rows, Columns, ClaimedRow
<1>4. g \in Fires
  BY <1>1 DEF Fires, PreDispatch, Marks
<1> HIDE DEF n
<1>5. /\ row[t].status = "pending"
      /\ row' = [row EXCEPT ![t] = n]
      /\ fires' = fires \cup {g}
      /\ UNCHANGED <<tracked, mode, executed, runs, disruptions, sweep>>
  BY DEF ClaimDueTasks, Claimable, n
<1>6. row' \in [Tasks -> Rows] /\ \A u \in Tasks : row'[u] = IF u = t THEN n ELSE row[u]
  BY <1>2, <1>5 DEF IInv, TypeOK
<1>7. TypeOK'
  BY <1>4, <1>5, <1>6 DEF IInv, TypeOK
<1>8. RowsConsistent'
  BY <1>3, <1>5, <1>6 DEF IInv, RowsConsistent
<1>9. \A f \in fires : f \in Fires /\ (f.id = t => f.epoch # e)
  BY <1>1 DEF IInv, TypeOK, FiresConsistent, Fires
<1>10. OwnerSeesTheRow'
  <2> SUFFICES ASSUME NEW f \in fires', Owned(f)'
               PROVE  /\ f.attempts = row'[f.id].attempts
                      /\ row'[f.id].startedAt <=> f.phase \in PostDispatch
                      /\ row'[f.id].dispatchedAt => f.mark # "none"
    BY DEF OwnerSeesTheRow
  <2>1. CASE f \in fires
    <3>1. f.id # t
      BY <1>3, <1>6, <1>9, <2>1 DEF Owned
    <3> QED
      BY <1>6, <1>9, <2>1, <3>1 DEF IInv, OwnerSeesTheRow, Owned, Fires
  <2>2. CASE f = g
    BY <1>3, <1>5, <1>6, <2>2 DEF IInv, RowsConsistent, PostDispatch, Handling
  <2> QED
    BY <1>5, <2>1, <2>2
<1>11. FiresConsistent'
  <2> SUFFICES ASSUME NEW f \in fires'
               PROVE  /\ f.epoch <= row'[f.id].leaseEpoch
                      /\ f.mark # "none" => f.phase \in PostDispatch
                      /\ f.phase \in PostDispatch => runs'[f.id] > 0
                      /\ f.phase \in {"reported", "returned"} => f.mark # "none"
                      /\ f.mark # "none" \/ f.phase \in {"created", "duplicate"}
                           => executed'[f.id]
    BY DEF FiresConsistent
  <2>1. CASE f \in fires
    BY <1>1, <1>3, <1>5, <1>6, <1>9, <2>1 DEF IInv, FiresConsistent, Fires, Rows, Columns
  <2>2. CASE f = g
    BY <1>1, <1>3, <1>6, <2>2 DEF PostDispatch, Handling
  <2> QED
    BY <1>5, <2>1, <2>2
<1>12. ClaimsUnique'
  BY <1>5, <1>9 DEF IInv, ClaimsUnique
<1>13. SweepsConsistent'
  BY <1>1, <1>3, <1>5, <1>6 DEF IInv, TypeOK, SweepsConsistent, Swept, Rows, Columns
<1> QED
  BY <1>7, <1>8, <1>10, <1>11, <1>12, <1>13 DEF IInv

\* The pre-dispatch compare-and-set, with its answer or without: the start it
\* grants is the one the row's next attempt will count.
LEMMA DispatchKeepsIInv ==
  ASSUME IInv, NEW f \in fires,
         BeginDispatch(f) \/ BeginDispatchUnanswered(f), UNCHANGED sweep
  PROVE  IInv'
<1> DEFINE t == f.id
           n == BegunRow(row[t])
           g == To(f, "executing")
<1>1. f \in Fires /\ f.host \in Hosts /\ t \in Tasks /\ row[t] \in Rows
  BY DEF IInv, TypeOK, Fires
<1>2. n \in Rows
  BY <1>1, RowsClosed
<1>3. /\ n.status = row[t].status
      /\ n.claimedBy = row[t].claimedBy
      /\ n.leaseEpoch = row[t].leaseEpoch
      /\ n.attempts = row[t].attempts
      /\ n.startedAt = TRUE
      /\ n.dispatchedAt = row[t].dispatchedAt
  BY <1>1 DEF Rows, Columns, BegunRow
<1>4. /\ g \in Fires
      /\ g.host = f.host /\ g.id = t /\ g.epoch = f.epoch
      /\ g.attempts = f.attempts /\ g.phase = "executing" /\ g.mark = f.mark
  BY <1>1 DEF Fires, To, PostDispatch, Handling
<1> HIDE DEF n, g
<1>5. f.phase = "firing" /\ f.phase \notin PostDispatch /\ f.mark = "none"
  BY DEF BeginDispatch, BeginDispatchUnanswered, IInv, FiresConsistent, PostDispatch, Handling
<1>6. CASE ~MutexFree(f)
  <2>1. fires' \subseteq fires /\ UNCHANGED <<row, tracked, mode, executed, runs, disruptions>>
    BY <1>6 DEF BeginDispatch, BeginDispatchUnanswered, End
  <2> QED
    BY <2>1, Shrinks DEF IInv, TypeOK
<1>7. CASE MutexFree(f)
  <2>1. /\ Owned(f) /\ ~row[t].startedAt
        /\ row' = [row EXCEPT ![t] = n]
        /\ \/ fires' = (fires \ {f}) \cup {g} /\ runs' = [runs EXCEPT ![t] = @ + 1]
           \/ fires' = fires \ {f} /\ UNCHANGED runs
        /\ UNCHANGED <<tracked, mode, executed, disruptions, sweep>>
    BY <1>7 DEF BeginDispatch, BeginDispatchUnanswered, MutexFree, Step, End, n, g
  <2>2. row' \in [Tasks -> Rows] /\ \A u \in Tasks : row'[u] = IF u = t THEN n ELSE row[u]
    BY <1>2, <2>1 DEF IInv, TypeOK
  <2>3. /\ runs[t] \in Nat /\ runs[t] <= row[t].attempts
        /\ row[t].attempts \in Nat /\ row[t].attempts < MaxAttempts
    BY <1>1, <2>1 DEF IInv, TypeOK, RowsConsistent, Owned, Rows, Columns
  <2>4. /\ runs' \in [Tasks -> Nat]
        /\ \A u \in Tasks \ {t} : runs'[u] = runs[u]
        /\ runs'[t] <= row[t].attempts + 1
    BY <1>1, <2>1, <2>3 DEF IInv, TypeOK
  <2>5. TypeOK'
    BY <1>4, <2>1, <2>2, <2>4 DEF IInv, TypeOK
  <2>6. RowsConsistent'
    <3> SUFFICES ASSUME NEW u \in Tasks
        PROVE /\ runs'[u] <= MaxAttempts
              /\ row'[u].status = "pending" => ~row'[u].startedAt /\ ~row'[u].dispatchedAt
              /\ row'[u].status \in {"pending", "running"} =>
                   /\ row'[u].attempts < MaxAttempts
                   /\ runs'[u] <= row'[u].attempts + (IF row'[u].startedAt THEN 1 ELSE 0)
              /\ row'[u].dispatchedAt \/ row'[u].status = "succeeded" => executed'[u]
              /\ row'[u].status = "failed" =>
                   row'[u].attempts = MaxAttempts /\ ~row'[u].dispatchedAt
      BY DEF RowsConsistent
    <3>1. CASE u = t
      <4>1. row[t].status = "running"
        BY <2>1 DEF Owned
      <4>2. runs'[t] \in Nat /\ runs'[t] <= MaxAttempts
        BY <1>1, <2>3, <2>4
      <4> QED
        BY <1>1, <1>3, <2>1, <2>2, <2>3, <2>4, <3>1, <4>1, <4>2 DEF IInv, RowsConsistent
    <3>2. CASE u # t
      BY <2>1, <2>2, <2>4, <3>2 DEF IInv, RowsConsistent
    <3> QED
      BY <3>1, <3>2
  <2>7. fires \subseteq Fires /\ fires' \subseteq (fires \ {f}) \cup {g}
    BY <2>1 DEF IInv, TypeOK
  <2>8. \A x \in fires \ {f} : x.id = t => x.epoch # f.epoch
    BY DEF IInv, ClaimsUnique
  <2>9. OwnerSeesTheRow'
    <3> SUFFICES ASSUME NEW x \in fires', Owned(x)'
                 PROVE  /\ x.attempts = row'[x.id].attempts
                        /\ row'[x.id].startedAt <=> x.phase \in PostDispatch
                        /\ row'[x.id].dispatchedAt => x.mark # "none"
      BY DEF OwnerSeesTheRow
    <3>1. CASE x \in fires \ {f}
      <4>1. x.id # t
        BY <1>3, <2>1, <2>2, <2>8, <3>1 DEF Owned
      <4> QED
        BY <2>2, <2>7, <3>1, <4>1 DEF IInv, OwnerSeesTheRow, Owned, Fires
    <3>2. CASE x = g
      BY <1>1, <1>3, <1>4, <1>5, <2>1, <2>2, <3>2
         DEF IInv, OwnerSeesTheRow, PostDispatch, Handling
    <3> QED
      BY <2>7, <3>1, <3>2
  <2>10. FiresConsistent'
    <3>1. \A x \in fires : x.phase \in PostDispatch => runs'[x.id] > 0
      BY <2>1, <2>7 DEF IInv, TypeOK, FiresConsistent, Fires
    <3>2. \A x \in fires \ {f} : x.epoch <= row'[x.id].leaseEpoch
      BY <1>1, <1>3, <2>2, <2>7 DEF IInv, FiresConsistent, Fires
    <3>3. g \in fires' => runs'[t] > 0
      BY <1>1, <1>4, <2>1, <2>3, <2>8 DEF IInv, TypeOK
    <3> QED
      BY <1>1, <1>3, <1>4, <1>5, <2>1, <2>2, <2>7, <3>1, <3>2, <3>3
         DEF IInv, FiresConsistent
  <2>11. ClaimsUnique'
    BY <1>4, <2>7, <2>8 DEF IInv, ClaimsUnique
  <2>12. SweepsConsistent'
    BY <1>1, <1>3, <2>1, <2>2 DEF IInv, TypeOK, SweepsConsistent, Swept
  <2> QED
    BY <2>5, <2>6, <2>9, <2>10, <2>11, <2>12 DEF IInv
<1> QED
  BY <1>6, <1>7

\* The marker write: the row's marker and the fire's mark move together.
LEMMA MarkKeepsIInv ==
  ASSUME IInv, NEW f \in fires, MarkDispatched(f), UNCHANGED sweep
  PROVE  IInv'
<1> DEFINE t == f.id
           n == DispatchedRow(row[t])
           g == [f EXCEPT !.mark = "settled"]
<1>1. f \in Fires /\ f.host \in Hosts /\ t \in Tasks /\ row[t] \in Rows
  BY DEF IInv, TypeOK, Fires
<1>2. n \in Rows
  BY <1>1, RowsClosed
<1>3. /\ n.status = row[t].status
      /\ n.claimedBy = row[t].claimedBy
      /\ n.leaseEpoch = row[t].leaseEpoch
      /\ n.attempts = row[t].attempts
      /\ n.startedAt = row[t].startedAt
      /\ n.dispatchedAt = TRUE
  BY <1>1 DEF Rows, Columns, DispatchedRow
<1>4. /\ g \in Fires
      /\ g.host = f.host /\ g.id = t /\ g.epoch = f.epoch
      /\ g.attempts = f.attempts /\ g.phase = f.phase /\ g.mark = "settled"
  BY <1>1 DEF Fires, Marks
<1> HIDE DEF n, g
<1>5. /\ f.mark = "inflight" /\ executed[t] /\ f.phase \in PostDispatch
      /\ fires' = (fires \ {f}) \cup {g}
      /\ UNCHANGED <<tracked, mode, executed, runs, disruptions, sweep>>
  BY DEF MarkDispatched, Step, IInv, FiresConsistent, g
<1>6. CASE ~Owned(f)
  <2>1. UNCHANGED row
    BY <1>6 DEF MarkDispatched, GuardedUpdate
  <2> QED
    BY <1>1, <1>4, <1>5, <2>1, FireMoves DEF IInv, TypeOK, Step
<1>7. CASE Owned(f)
  <2>1. row' = [row EXCEPT ![t] = n]
    BY <1>7 DEF MarkDispatched, GuardedUpdate, n
  <2>2. row' \in [Tasks -> Rows] /\ \A u \in Tasks : row'[u] = IF u = t THEN n ELSE row[u]
    BY <1>2, <2>1 DEF IInv, TypeOK
  <2>3. TypeOK'
    BY <1>4, <1>5, <2>2 DEF IInv, TypeOK
  <2>4. RowsConsistent'
    BY <1>1, <1>3, <1>5, <1>7, <2>2 DEF IInv, RowsConsistent, Owned
  <2>5. fires \subseteq Fires /\ \A x \in fires \ {f} : x.id = t => x.epoch # f.epoch
    BY DEF IInv, TypeOK, ClaimsUnique
  <2>6. OwnerSeesTheRow'
    <3> SUFFICES ASSUME NEW x \in fires', Owned(x)'
                 PROVE  /\ x.attempts = row'[x.id].attempts
                        /\ row'[x.id].startedAt <=> x.phase \in PostDispatch
                        /\ row'[x.id].dispatchedAt => x.mark # "none"
      BY DEF OwnerSeesTheRow
    <3>1. CASE x \in fires \ {f}
      <4>1. x.id # t
        BY <1>1, <1>3, <1>7, <2>2, <2>5, <3>1 DEF Owned
      <4> QED
        BY <2>2, <2>5, <3>1, <4>1 DEF IInv, OwnerSeesTheRow, Owned, Fires
    <3>2. CASE x = g
      BY <1>1, <1>3, <1>4, <1>7, <2>2, <3>2 DEF IInv, OwnerSeesTheRow
    <3> QED
      BY <1>5, <3>1, <3>2
  <2>7. FiresConsistent'
    BY <1>1, <1>3, <1>4, <1>5, <2>2, <2>5 DEF IInv, FiresConsistent, Fires
  <2>8. ClaimsUnique'
    BY <1>4, <1>5, <2>5 DEF IInv, ClaimsUnique
  <2>9. SweepsConsistent'
    BY <1>1, <1>3, <2>2, <1>5 DEF IInv, TypeOK, SweepsConsistent, Swept
  <2> QED
    BY <2>3, <2>4, <2>6, <2>7, <2>8, <2>9 DEF IInv
<1> QED
  BY <1>6, <1>7

\* A fire ends by writing `n` under its guard: to pending, or to an outcome.
LEMMA FireEndsWith ==
  ASSUME IInv, NEW f \in fires, NEW n \in Rows,
         GuardedUpdate(f, n), End(f),
         Owned(f) =>
           /\ n.leaseEpoch = row[f.id].leaseEpoch
           /\ n.status # "running"
           /\ n.status = "pending" =>
                /\ ~n.startedAt /\ ~n.dispatchedAt
                /\ n.attempts < MaxAttempts
                /\ runs[f.id] <= n.attempts
           /\ n.dispatchedAt \/ n.status = "succeeded" => executed[f.id]
           /\ n.status = "failed" => n.attempts = MaxAttempts /\ ~n.dispatchedAt,
         UNCHANGED <<tracked, mode, executed, runs, disruptions, sweep>>
  PROVE  IInv'
<1>1. fires' \subseteq fires /\ f.id \in Tasks /\ row[f.id].leaseEpoch \in Nat
  BY DEF End, IInv, TypeOK, Fires, Rows, Columns
<1>2. CASE ~Owned(f)
  BY <1>1, <1>2, Shrinks DEF GuardedUpdate, IInv, TypeOK
<1>3. CASE Owned(f)
  <2>1. row' = [row EXCEPT ![f.id] = n]
    BY <1>3 DEF GuardedUpdate
  <2>2. sweep' \in [Hosts -> SUBSET Swept] /\ \A h \in Hosts : sweep'[h] \subseteq sweep[h]
    BY DEF IInv, TypeOK
  <2>3. n.attempts \in Nat
    BY DEF Rows, Columns
  <2>4. n.status = "pending" => runs[f.id] <= n.attempts + (IF n.startedAt THEN 1 ELSE 0)
    BY <1>3, <2>3
  <2>5. n.leaseEpoch >= row[f.id].leaseEpoch
    BY <1>1, <1>3
  <2> QED
    BY <1>1, <1>3, <2>1, <2>2, <2>4, <2>5, RowMoves
<1> QED
  BY <1>2, <1>3

\* Stopping: cancelled claims leave, tracked ones become releases in flight.
LEMMA StopKeepsIInv ==
  ASSUME IInv, NEW h \in Hosts, StopExecutor(h), UNCHANGED sweep
  PROVE  IInv'
<1> DEFINE armed == {f \in FiresOf(h) : f.phase = "armed"}
           held == {f \in armed : tracked[h][f.id] = f.epoch}
           From(x, f) == \/ f \notin armed /\ x = f
                         \/ f \in held /\ x = To(f, "releasing")
<1>1. \A x \in fires' : \E f \in fires : From(x, f)
  BY DEF StopExecutor, FiresOf
<1> HIDE DEF From
<1>2. ASSUME NEW x, NEW f \in fires, From(x, f)
      PROVE  /\ f \in Fires /\ x \in Fires
             /\ x.host = f.host /\ x.id = f.id /\ x.epoch = f.epoch
             /\ x.attempts = f.attempts /\ x.mark = f.mark
             /\ \/ x.phase = f.phase
                \/ f.phase = "armed" /\ x.phase = "releasing"
  <2>1. f \in Fires
    BY DEF IInv, TypeOK
  <2>2. CASE x = f
    BY <2>1, <2>2
  <2>3. CASE f.phase = "armed" /\ x = To(f, "releasing")
    BY <2>1, <2>3 DEF Fires, To, PreDispatch
  <2> QED
    BY <1>2, <2>2, <2>3 DEF From
<1>3. /\ tracked' \in [Hosts -> [Tasks -> Nat]]
      /\ mode' \in [Hosts -> {"up", "draining", "stopped"}]
      /\ UNCHANGED <<row, executed, runs, disruptions, sweep>>
  BY DEF IInv, TypeOK, StopExecutor, Forget
<1>4. TypeOK'
  BY <1>1, <1>2, <1>3 DEF IInv, TypeOK
<1>5. RowsConsistent' /\ SweepsConsistent'
  BY <1>3 DEF IInv, RowsConsistent, SweepsConsistent
<1>6. OwnerSeesTheRow'
  <2> SUFFICES ASSUME NEW x \in fires', Owned(x)'
               PROVE  /\ x.attempts = row'[x.id].attempts
                      /\ row'[x.id].startedAt <=> x.phase \in PostDispatch
                      /\ row'[x.id].dispatchedAt => x.mark # "none"
    BY DEF OwnerSeesTheRow
  <2>1. PICK f \in fires : From(x, f)
    BY <1>1
  <2> QED
    BY <1>2, <1>3, <2>1 DEF IInv, OwnerSeesTheRow, Owned, PostDispatch, Handling
<1>7. FiresConsistent'
  <2> SUFFICES ASSUME NEW x \in fires'
               PROVE  /\ x.epoch <= row'[x.id].leaseEpoch
                      /\ x.mark # "none" => x.phase \in PostDispatch
                      /\ x.phase \in PostDispatch => runs'[x.id] > 0
                      /\ x.phase \in {"reported", "returned"} => x.mark # "none"
                      /\ x.mark # "none" \/ x.phase \in {"created", "duplicate"}
                           => executed'[x.id]
    BY DEF FiresConsistent
  <2>1. PICK f \in fires : From(x, f)
    BY <1>1
  <2> QED
    BY <1>2, <1>3, <2>1 DEF IInv, FiresConsistent, PostDispatch, Handling
<1>8. ClaimsUnique'
  <2> SUFFICES ASSUME NEW x \in fires', NEW y \in fires', x.id = y.id, x.epoch = y.epoch
               PROVE  x = y
    BY DEF ClaimsUnique
  <2>1. PICK f \in fires : From(x, f)
    BY <1>1
  <2>2. PICK g \in fires : From(y, g)
    BY <1>1
  <2>3. f = g
    BY <1>2, <2>1, <2>2 DEF IInv, ClaimsUnique
  <2> QED
    BY <2>1, <2>2, <2>3 DEF From
<1> QED
  BY <1>4, <1>5, <1>6, <1>7, <1>8 DEF IInv

-----------------------------------------------------------------------------
\* What a release, a retry or an outcome makes of the row its claim owns.
LEMMA OwnedRowMoves ==
  ASSUME IInv, NEW f \in fires, Owned(f)
  PROVE  /\ f.id \in Tasks /\ f.host \in Hosts
         /\ row[f.id] \in Rows
         /\ row[f.id].attempts \in Nat /\ f.attempts \in Nat
         /\ row[f.id].status = "running"
         /\ row[f.id].attempts = f.attempts
         /\ row[f.id].attempts < MaxAttempts
         /\ row[f.id].startedAt <=> f.phase \in PostDispatch
         /\ row[f.id].dispatchedAt => f.mark # "none" /\ executed[f.id]
         /\ runs[f.id] \in Nat
         /\ runs[f.id] <= row[f.id].attempts + (IF row[f.id].startedAt THEN 1 ELSE 0)
         /\ f.mark # "none" => executed[f.id]
  BY DEF IInv, TypeOK, Fires, Rows, Columns, Owned, OwnerSeesTheRow, RowsConsistent, FiresConsistent

LEMMA ReleaseKeepsIInv ==
  ASSUME IInv, NEW f \in fires, ReleaseClaim(f), UNCHANGED sweep
  PROVE  IInv'
<1> DEFINE n == ReleasedRow(row[f.id])
<1>1. f.phase \notin PostDispatch
  BY DEF ReleaseClaim, PostDispatch, Handling
<1>2. f.id \in Tasks /\ f.host \in Hosts /\ row[f.id] \in Rows
  BY DEF IInv, TypeOK, Fires
<1>3. n \in Rows
  BY <1>2, RowsClosed
<1>4. /\ n.leaseEpoch = row[f.id].leaseEpoch
      /\ n.status = "pending"
      /\ ~n.startedAt /\ ~n.dispatchedAt
      /\ n.attempts = row[f.id].attempts
  BY <1>2 DEF Rows, Columns, ReleasedRow
<1> HIDE DEF n
<1>5. Owned(f) => runs[f.id] <= n.attempts /\ n.attempts < MaxAttempts
  BY <1>1, <1>4, OwnedRowMoves
<1>6. /\ GuardedUpdate(f, n) /\ End(f)
      /\ UNCHANGED <<tracked, mode, executed, runs, disruptions, sweep>>
  BY DEF ReleaseClaim, n
<1> QED
  BY <1>3, <1>4, <1>5, <1>6, FireEndsWith

LEMMA CompleteKeepsIInv ==
  ASSUME IInv, NEW f \in fires, CompleteTask(f), UNCHANGED sweep
  PROVE  IInv'
<1> DEFINE n == SucceededRow(row[f.id])
<1>1. f.id \in Tasks /\ f.host \in Hosts /\ row[f.id] \in Rows
  BY DEF IInv, TypeOK, Fires
<1>2. n \in Rows
  BY <1>1, RowsClosed
<1>3. n.leaseEpoch = row[f.id].leaseEpoch /\ n.status = "succeeded"
  BY <1>1 DEF Rows, Columns, SucceededRow
<1> HIDE DEF n
<1>4. executed[f.id]
  BY DEF CompleteTask, IInv, FiresConsistent
<1>5. /\ GuardedUpdate(f, n) /\ End(f)
      /\ UNCHANGED <<tracked, mode, executed, runs, disruptions, sweep>>
  BY DEF CompleteTask, n
<1> QED
  BY <1>2, <1>3, <1>4, <1>5, FireEndsWith

\* The outcome decided from the claim's snapshot fits the row, because the
\* claim that still owns its row sees the row's attempts and its marker.
LEMMA FailureKeepsIInv ==
  ASSUME IInv, NEW f \in fires, RecordFailure(f), UNCHANGED sweep
  PROVE  IInv'
<1> DEFINE n == FailureOutcome(f)
<1>1. /\ f.id \in Tasks /\ f.host \in Hosts /\ row[f.id] \in Rows
      /\ f.attempts \in Nat /\ row[f.id].attempts \in Nat
  BY DEF IInv, TypeOK, Fires, Rows, Columns
<1>2. n \in Rows
  BY <1>1, RowsClosed DEF FailureOutcome
<1>3. CASE LastAttempt(f.attempts) /\ f.mark # "none"
  <2>1. n.leaseEpoch = row[f.id].leaseEpoch /\ n.status = "succeeded"
    BY <1>1, <1>3 DEF FailureOutcome, Rows, Columns, SucceededRow
  <2> QED
    BY <2>1, OwnedRowMoves, <1>2, <1>3, FireEndsWith DEF RecordFailure
<1>4. CASE LastAttempt(f.attempts) /\ f.mark = "none"
  <2>1. /\ n.leaseEpoch = row[f.id].leaseEpoch /\ n.status = "failed"
        /\ n.attempts = row[f.id].attempts + 1
        /\ n.dispatchedAt = row[f.id].dispatchedAt
    BY <1>1, <1>4 DEF FailureOutcome, Rows, Columns, FailedRow
  <2>2. Owned(f) => n.attempts = MaxAttempts /\ ~n.dispatchedAt
    BY <1>1, <1>4, <2>1, OwnedRowMoves DEF LastAttempt
  <2> QED
    BY <2>1, <2>2, <1>2, FireEndsWith DEF RecordFailure
<1>5. CASE ~LastAttempt(f.attempts)
  <2>1. /\ n.leaseEpoch = row[f.id].leaseEpoch /\ n.status = "pending"
        /\ ~n.startedAt /\ ~n.dispatchedAt
        /\ n.attempts = row[f.id].attempts + 1
    BY <1>1, <1>5 DEF FailureOutcome, Rows, Columns, RescheduledRow, ReleasedRow
  <2>2. Owned(f) => n.attempts < MaxAttempts /\ runs[f.id] <= n.attempts
    BY <1>1, <1>5, <2>1, OwnedRowMoves DEF LastAttempt
  <2> QED
    BY <2>1, <2>2, <1>2, FireEndsWith DEF RecordFailure
<1> QED
  BY <1>3, <1>4, <1>5

-----------------------------------------------------------------------------
\* A reaper's read.
LEMMA FindKeepsIInv ==
  ASSUME IInv, NEW h \in Hosts, FindExpiredLeases(h)
  PROVE  IInv'
<1>1. UNCHANGED <<row, fires, tracked, mode, executed, runs, disruptions>>
  BY DEF FindExpiredLeases, executorVars
<1>2. ASSUME NEW t \in Tasks
      PROVE  row[t] \in Rows /\ row[t].leaseEpoch \in Nat /\ row[t].attempts \in Nat
             /\ row[t].dispatchedAt \in BOOLEAN
  BY DEF IInv, TypeOK, Rows, Columns
<1> DEFINE Ref(t) == [id |-> t, epoch |-> row[t].leaseEpoch, attempts |-> row[t].attempts,
                      dispatched |-> row[t].dispatchedAt]
<1>3. sweep' = [sweep EXCEPT ![h] = {Ref(t) : t \in Expired}]
  BY DEF FindExpiredLeases
<1>4. \A t \in Expired : t \in Tasks /\ Ref(t) \in Swept
  BY <1>2 DEF Expired, Swept
<1>5. sweep' \in [Hosts -> SUBSET Swept]
  BY <1>3, <1>4 DEF IInv, TypeOK
<1>6. TypeOK'
  BY <1>1, <1>5 DEF IInv, TypeOK
<1>7. /\ RowsConsistent' /\ FiresConsistent' /\ ClaimsUnique' /\ OwnerSeesTheRow'
  BY <1>1 DEF IInv, RowsConsistent, FiresConsistent, ClaimsUnique, OwnerSeesTheRow, Owned
<1>8. SweepsConsistent'
  <2> SUFFICES ASSUME NEW k \in Hosts, NEW ref \in sweep'[k]
               PROVE  /\ ref.epoch <= row[ref.id].leaseEpoch
                      /\ row[ref.id].status = "running" /\ row[ref.id].leaseEpoch = ref.epoch =>
                           row[ref.id].attempts = ref.attempts
    BY <1>1 DEF SweepsConsistent
  <2>1. CASE k = h
    <3>1. PICK t \in Expired : ref = Ref(t)
      BY <1>3, <2>1 DEF IInv, TypeOK
    <3> QED
      BY <1>2, <1>4, <3>1
  <2>2. CASE k # h
    BY <1>3, <2>2 DEF IInv, TypeOK, SweepsConsistent
  <2> QED
    BY <2>1, <2>2
<1> QED
  BY <1>6, <1>7, <1>8 DEF IInv

\* A reaper's decision, taken on what the sweep read.
LEMMA ReapKeepsIInv ==
  ASSUME IInv, NEW h \in Hosts, NEW ref \in sweep[h], ReapRow(h, ref)
  PROVE  IInv'
<1> DEFINE t == ref.id
           n == ReapOutcome(ref)
<1>1. /\ t \in Tasks /\ row[t] \in Rows /\ ref.attempts \in Nat
      /\ row[t].attempts \in Nat /\ row[t].leaseEpoch \in Nat /\ runs[t] \in Nat
  BY DEF IInv, TypeOK, Swept, Rows, Columns
<1>2. /\ sweep' \in [Hosts -> SUBSET Swept]
      /\ \A k \in Hosts : sweep'[k] \subseteq sweep[k]
      /\ UNCHANGED <<fires, tracked, mode, executed, runs, disruptions>>
  BY DEF ReapRow, executorVars, IInv, TypeOK
<1>3. CASE ~Reapable(ref, ref.dispatched)
  BY <1>2, <1>3, Shrinks DEF ReapRow, ReaperUpdate, IInv, TypeOK
<1>4. CASE Reapable(ref, ref.dispatched)
  <2>1. /\ row' = [row EXCEPT ![t] = n]
        /\ row[t].status = "running"
        /\ row[t].attempts = ref.attempts
        /\ row[t].attempts < MaxAttempts
        /\ runs[t] <= row[t].attempts + 1
        /\ row[t].dispatchedAt = ref.dispatched
        /\ ref.dispatched => executed[t]
    BY <1>1, <1>4
       DEF ReapRow, ReaperUpdate, Reapable, IInv, SweepsConsistent, RowsConsistent
  <2>2. n \in Rows
    BY <1>1, RowsClosed DEF ReapOutcome, IInv, TypeOK, Rows, Columns
  <2>3. \/ /\ n.leaseEpoch = row[t].leaseEpoch /\ n.status = "succeeded"
           /\ ref.dispatched
        \/ /\ n.leaseEpoch = row[t].leaseEpoch /\ n.status = "failed"
           /\ ~n.dispatchedAt /\ n.attempts = row[t].attempts + 1
           /\ LastAttempt(ref.attempts)
        \/ /\ n.leaseEpoch = row[t].leaseEpoch + 1 /\ n.status = "pending"
           /\ ~n.startedAt /\ ~n.dispatchedAt
           /\ n.attempts = row[t].attempts + 1
           /\ ~LastAttempt(ref.attempts)
    BY <1>1, <2>1
       DEF ReapOutcome, Rows, Columns, SucceededRow, FailedRow, ReclaimedRow, RescheduledRow,
           ReleasedRow
  <2> HIDE DEF n
  <2>4. /\ n.status = "failed" => n.attempts = MaxAttempts /\ ~n.dispatchedAt
        /\ n.status = "pending" =>
             /\ n.attempts < MaxAttempts
             /\ runs[t] <= n.attempts + (IF n.startedAt THEN 1 ELSE 0)
        /\ n.leaseEpoch >= row[t].leaseEpoch
    BY <1>1, <2>1, <2>3 DEF LastAttempt
  <2>5. n.dispatchedAt \/ n.status = "succeeded" => executed[t]
    BY <2>1, <2>3
  <2>6. n.status = "pending" => ~n.startedAt /\ ~n.dispatchedAt
    BY <2>3
  <2> QED
    BY <1>1, <1>2, <2>1, <2>2, <2>3, <2>4, <2>5, <2>6, RowMoves
<1> QED
  BY <1>3, <1>4

\* A statement of another pass, or the clock.
LEMMA TableKeepsIInv ==
  ASSUME IInv, NEW t \in Tasks, TableNext(t)
  PROVE  IInv'
<1>1. row[t] \in Rows /\ row[t].leaseEpoch \in Nat
  BY DEF IInv, TypeOK, Rows, Columns
<1>2. /\ UNCHANGED <<fires, tracked, mode, executed, runs, disruptions, sweep>>
      /\ sweep' \in [Hosts -> SUBSET Swept]
  BY DEF TableNext, TableOnly, executorVars, IInv, TypeOK
<1> DEFINE Marked(s) == [row[t] EXCEPT !.status = s]
           Due == [row[t] EXCEPT !.due = TRUE]
           Overdue == [row[t] EXCEPT !.overdue = TRUE]
           Lapsed == [row[t] EXCEPT !.lease = "lapsed"]
<1>3. \/ row' = [row EXCEPT ![t] = Marked("missed")]
      \/ row' = [row EXCEPT ![t] = Marked("gone")]
      \/ row' = [row EXCEPT ![t] = Due]
      \/ row' = [row EXCEPT ![t] = Overdue]
      \/ row' = [row EXCEPT ![t] = Lapsed]
  BY DEF TableNext, TableOnly, RetireStale, RetireMissedPending, UpdateToMissed,
         DeletePending, DeleteJob, DeleteFinished, BecomesDue, DeadlinePasses, LeaseLapses
<1> DEFINE Like(n) == /\ n \in Rows
                      /\ n.status \in {"missed", "gone"} \/ n.status = row[t].status
                      /\ n.claimedBy = row[t].claimedBy
                      /\ n.leaseEpoch = row[t].leaseEpoch
                      /\ n.attempts = row[t].attempts
                      /\ n.startedAt = row[t].startedAt
                      /\ n.dispatchedAt = row[t].dispatchedAt
<1>4. Like(Marked("missed")) /\ Like(Marked("gone"))
  BY <1>1 DEF Rows, Columns, Statuses, Terminal
<1>5. Like(Due) /\ Like(Overdue)
  BY <1>1 DEF Rows, Columns
<1>6. Like(Lapsed)
  BY <1>1 DEF Rows, Columns
<1> HIDE DEF Marked, Due, Overdue, Lapsed
<1>7. PICK n : Like(n) /\ row' = [row EXCEPT ![t] = n]
  BY <1>3, <1>4, <1>5, <1>6
<1>8. /\ n.status \in {"pending", "running", "failed", "succeeded"} => n.status = row[t].status
      /\ n.status \in {"pending", "running"} =>
           /\ n.attempts < MaxAttempts
           /\ runs[t] <= n.attempts + (IF n.startedAt THEN 1 ELSE 0)
      /\ n.status = "pending" => ~n.startedAt /\ ~n.dispatchedAt
      /\ n.dispatchedAt \/ n.status = "succeeded" => executed[t]
      /\ n.status = "failed" => n.attempts = MaxAttempts /\ ~n.dispatchedAt
  BY <1>7 DEF IInv, RowsConsistent
<1>9. /\ n \in Rows
      /\ n.leaseEpoch >= row[t].leaseEpoch
      /\ n.status = "running" =>
           /\ row[t].status = "running"
           /\ n.claimedBy = row[t].claimedBy
           /\ n.leaseEpoch = row[t].leaseEpoch
           /\ n.attempts = row[t].attempts
           /\ n.startedAt = row[t].startedAt
           /\ n.dispatchedAt = row[t].dispatchedAt
      /\ row' = [row EXCEPT ![t] = n]
  BY <1>1, <1>7, <1>8
<1> HIDE DEF Like
<1> QED
  BY <1>2, <1>8, <1>9, RowMoves

-----------------------------------------------------------------------------
\* The remaining steps of a fire move it on without touching the table, or
\* end it.
LEMMA FireKeepsIInv ==
  ASSUME IInv, NEW f \in fires, ExecutorNext(f), UNCHANGED sweep
  PROVE  IInv'
<1>1. /\ f \in Fires /\ f.host \in Hosts /\ f.id \in Tasks /\ f.epoch \in Nat
      /\ f.mark # "none" \/ f.phase \in {"created", "duplicate"} => executed[f.id]
      /\ f.mark # "none" => f.phase \in PostDispatch
      /\ f.phase \in {"reported", "returned"} => f.mark # "none"
  BY DEF IInv, TypeOK, Fires, FiresConsistent
<1>2. /\ disruptions \in 0..MaxDisruptions
      /\ Disturb => disruptions' \in 0..MaxDisruptions
      /\ tracked \in [Hosts -> [Tasks -> Nat]]
      /\ \A n \in Nat :
           [tracked EXCEPT ![f.host][f.id] = n] \in [Hosts -> [Tasks -> Nat]]
      /\ mode \in [Hosts -> {"up", "draining", "stopped"}]
      /\ executed \in [Tasks -> BOOLEAN]
      /\ sweep \in [Hosts -> SUBSET Swept]
  BY <1>1 DEF IInv, TypeOK, Disturb
<1>3. \A p \in PreDispatch \cup PostDispatch :
        /\ To(f, p) \in Fires
        /\ To(f, p).host = f.host /\ To(f, p).id = f.id
        /\ To(f, p).epoch = f.epoch /\ To(f, p).attempts = f.attempts
        /\ To(f, p).phase = p /\ To(f, p).mark = f.mark
  BY <1>1 DEF Fires, To
<1>4. \A p \in PostDispatch, m \in Marks :
        LET g == [f EXCEPT !.phase = p, !.mark = m] IN
        /\ g \in Fires
        /\ g.host = f.host /\ g.id = f.id
        /\ g.epoch = f.epoch /\ g.attempts = f.attempts
        /\ g.phase = p /\ g.mark = m
  BY <1>1 DEF Fires
<1>5. CASE ScheduleClaimed(f)
  BY <1>1, <1>2, <1>3, <1>5, FireMoves
     DEF ScheduleClaimed, PreDispatch, PostDispatch, Handling
<1>6. CASE HandBackClaim(f)
  BY <1>1, <1>2, <1>3, <1>6, FireMoves
     DEF HandBackClaim, PreDispatch, PostDispatch, Handling
<1>7. CASE ReleaseClaim(f)
  BY <1>7, ReleaseKeepsIInv
<1>8. CASE TimerFires(f)
  BY <1>1, <1>2, <1>3, <1>8, FireMoves
     DEF TimerFires, PreDispatch, PostDispatch, Handling
<1>9. CASE MissingHandler(f)
  BY <1>1, <1>2, <1>3, <1>9, FireMoves
     DEF MissingHandler, PreDispatch, PostDispatch, Handling
<1>10. CASE BeginDispatch(f) \/ BeginDispatchUnanswered(f)
  BY <1>10, DispatchKeepsIInv
<1>11. CASE RunWorkflow(f)
  <2>1. /\ executed' \in [Tasks -> BOOLEAN] /\ executed'[f.id]
        /\ \A t \in Tasks : executed[t] => executed'[t]
    BY <1>1, <1>2, <1>11 DEF RunWorkflow
  <2>2. PICK p \in {"created", "duplicate"} : Step(f, To(f, p))
    BY <1>11 DEF RunWorkflow
  <2>3. /\ p \in PostDispatch /\ f.phase \in PostDispatch /\ p \notin {"reported", "returned"}
        /\ UNCHANGED <<row, tracked, mode, runs, disruptions>>
    BY <1>11, <2>2 DEF RunWorkflow, PostDispatch, Handling
  <2> QED
    BY <1>1, <1>2, <1>3, <2>1, <2>2, <2>3, FireMoves
<1>12. CASE ReportDispatched(f)
  <2>1. Step(f, [f EXCEPT !.phase = "reported", !.mark = "inflight"])
        /\ f.phase = "created" /\ executed[f.id]
        /\ UNCHANGED <<row, tracked, mode, executed, runs, disruptions>>
    BY <1>1, <1>12 DEF ReportDispatched
  <2>2. {f.phase, "reported"} \subseteq PostDispatch /\ "inflight" \in Marks
    BY <2>1 DEF PostDispatch, Handling, Marks
  <2> DEFINE g == [f EXCEPT !.phase = "reported", !.mark = "inflight"]
  <2>3. /\ g \in Fires
        /\ g.host = f.host /\ g.id = f.id
        /\ g.epoch = f.epoch /\ g.attempts = f.attempts
        /\ g.phase = "reported" /\ g.mark = "inflight"
    BY <1>4, <2>2
  <2>4. Step(f, g)
    BY <2>1
  <2> HIDE DEF g
  <2> QED
    BY <1>2, <2>1, <2>2, <2>3, <2>4, FireMoves
<1>13. CASE HandlerReturns(f)
  <2> DEFINE m == IF f.mark = "none" THEN "inflight" ELSE f.mark
  <2>1. Step(f, [f EXCEPT !.phase = "returned", !.mark = m]) /\ m \in Marks /\ m # "none"
        /\ f.phase \in {"duplicate", "reported"}
        /\ UNCHANGED <<row, tracked, mode, executed, runs, disruptions>>
    BY <1>1, <1>13 DEF HandlerReturns, Marks, Fires
  <2>2. {f.phase, "returned"} \subseteq PostDispatch /\ executed[f.id]
    BY <1>1, <2>1 DEF IInv, FiresConsistent, PostDispatch, Handling
  <2> HIDE DEF m
  <2> DEFINE g == [f EXCEPT !.phase = "returned", !.mark = m]
  <2>3. /\ g \in Fires
        /\ g.host = f.host /\ g.id = f.id
        /\ g.epoch = f.epoch /\ g.attempts = f.attempts
        /\ g.phase = "returned" /\ g.mark = m
    BY <1>4, <2>1, <2>2
  <2>4. Step(f, g)
    BY <2>1
  <2> HIDE DEF g
  <2> QED
    BY <1>2, <2>1, <2>2, <2>3, <2>4, FireMoves
<1>14. CASE HandlerThrows(f)
  BY <1>1, <1>2, <1>3, <1>14, FireMoves
     DEF HandlerThrows, PostDispatch, Handling
<1>15. CASE MarkDispatched(f)
  BY <1>15, MarkKeepsIInv
<1>16. CASE MarkDispatchedRejects(f)
  <2>1. Step(f, [f EXCEPT !.phase = f.phase, !.mark = "settled"])
    BY <1>1, <1>16 DEF MarkDispatchedRejects, Fires
  <2> QED
    BY <1>1, <1>2, <1>4, <1>16, <2>1, FireMoves DEF MarkDispatchedRejects, Marks
<1>17. CASE CompleteTask(f)
  BY <1>17, CompleteKeepsIInv
<1>18. CASE RecordFailure(f)
  BY <1>18, FailureKeepsIInv
<1>19. CASE StoreRejects(f)
  BY <1>2, <1>19, Shrinks DEF StoreRejects, End
<1> QED
  BY <1>5, <1>6, <1>7, <1>8, <1>9, <1>10, <1>11, <1>12, <1>13, <1>14, <1>15, <1>16,
     <1>17, <1>18, <1>19 DEF ExecutorNext

\* Processes that stop, restart or crash, and sweeps cut short, only forget.
LEMMA ForgettingKeepsIInv ==
  ASSUME IInv, NEW h \in Hosts,
         \/ StopLoops(h) \/ Restart(h) \/ Crash(h) \/ AbortSweep(h)
         \/ \E ref \in sweep[h] : SkipRow(h, ref)
  PROVE  IInv'
<1>1. Disturb => disruptions' \in 0..MaxDisruptions
  BY DEF Disturb, IInv, TypeOK
<1>2. ASSUME NewProcess(h)
      PROVE  /\ fires' \subseteq fires
             /\ tracked' \in [Hosts -> [Tasks -> Nat]]
             /\ mode' \in [Hosts -> {"up", "draining", "stopped"}]
             /\ UNCHANGED <<row, executed, runs>>
  BY <1>2 DEF NewProcess, Forget, IInv, TypeOK
<1>3. /\ fires' \subseteq fires
      /\ tracked' \in [Hosts -> [Tasks -> Nat]]
      /\ mode' \in [Hosts -> {"up", "draining", "stopped"}]
      /\ disruptions' \in 0..MaxDisruptions
      /\ UNCHANGED <<row, executed, runs>>
  <2>1. CASE StopLoops(h)
    BY <1>1, <2>1 DEF StopLoops, IInv, TypeOK
  <2>2. CASE Restart(h) \/ Crash(h)
    BY <1>1, <1>2, <2>2 DEF Restart, Crash, IInv, TypeOK
  <2>3. CASE AbortSweep(h) \/ \E ref \in sweep[h] : SkipRow(h, ref)
    BY <1>1, <2>3 DEF AbortSweep, SkipRow, executorVars, IInv, TypeOK
  <2> QED
    BY <2>1, <2>2, <2>3
<1>4. \/ sweep' = [sweep EXCEPT ![h] = {}]
      \/ \E ref \in sweep[h] : sweep' = [sweep EXCEPT ![h] = @ \ {ref}]
  BY DEF StopLoops, Restart, Crash, NewProcess, AbortSweep, SkipRow
<1>5. sweep' \in [Hosts -> SUBSET Swept] /\ \A k \in Hosts : sweep'[k] \subseteq sweep[k]
  <2>1. PICK left \in SUBSET sweep[h] : sweep' = [sweep EXCEPT ![h] = left]
    BY <1>4
  <2>2. left \in SUBSET Swept
    BY <2>1 DEF IInv, TypeOK
  <2> QED
    BY <2>1, <2>2 DEF IInv, TypeOK
<1> QED
  BY <1>3, <1>5, Shrinks

-----------------------------------------------------------------------------
LEMMA InitIInv == Init => IInv
<1> SUFFICES ASSUME Init PROVE IInv
  OBVIOUS
<1>1. NewRow \in Rows
  BY DEF NewRow, Rows, Columns, Statuses, Terminal
<1>2. TypeOK
  BY <1>1 DEF Init, StoreInit, ExecutorInit, ReaperInit, TypeOK
<1>3. RowsConsistent
  BY DEF Init, StoreInit, ExecutorInit, NewRow, RowsConsistent
<1>4. OwnerSeesTheRow /\ FiresConsistent /\ ClaimsUnique /\ SweepsConsistent
  BY DEF Init, ExecutorInit, ReaperInit,
         OwnerSeesTheRow, FiresConsistent, ClaimsUnique, SweepsConsistent
<1> QED
  BY <1>2, <1>3, <1>4 DEF IInv

LEMMA NextIInv == IInv /\ [Next]_vars => IInv'
<1> SUFFICES ASSUME IInv, [Next]_vars PROVE IInv'
  OBVIOUS
<1>1. CASE \E h \in Hosts, t \in Tasks : ClaimDueTasks(h, t) /\ UNCHANGED sweep
  BY <1>1, ClaimKeepsIInv
<1>2. CASE \E f \in fires : ExecutorNext(f) /\ UNCHANGED sweep
  BY <1>2, FireKeepsIInv
<1>3. CASE \E h \in Hosts : StopExecutor(h) /\ UNCHANGED sweep
  BY <1>3, StopKeepsIInv
<1>4. CASE \E h \in Hosts : ReaperNext(h)
  BY <1>4, FindKeepsIInv, ReapKeepsIInv, ForgettingKeepsIInv DEF ReaperNext
<1>5. CASE \E h \in Hosts : StopLoops(h) \/ Restart(h) \/ Crash(h)
  BY <1>5, ForgettingKeepsIInv
<1>6. CASE \E t \in Tasks : TableNext(t)
  BY <1>6, TableKeepsIInv
<1>7. CASE UNCHANGED vars
  BY <1>7 DEF vars, IInv, TypeOK, RowsConsistent, OwnerSeesTheRow, Owned, FiresConsistent,
              ClaimsUnique, SweepsConsistent
<1> QED
  BY <1>1, <1>2, <1>3, <1>4, <1>5, <1>6, <1>7 DEF Next

\* The inductive invariant holds in every reachable state: what a fire and a
\* sweep remember of a row they may still write agrees with the row.
THEOREM Invariance == Spec => []IInv
BY InitIInv, NextIInv, PTL DEF Spec

\* Every variable keeps its type.
THEOREM TypeCorrectness == Spec => []TypeOK
<1>1. IInv => TypeOK
  BY DEF IInv
<1> QED
  BY <1>1, Invariance, PTL

\* The handler of one occurrence starts at most maxAttempts times, over all
\* hosts, however fires, reapers, crashes and restarts interleave.
THEOREM BoundedRedelivery == Spec => []RunsWithinAttempts
<1>1. IInv => RunsWithinAttempts
  BY DEF IInv, RowsConsistent, RunsWithinAttempts
<1> QED
  BY <1>1, Invariance, PTL

\* While a claim owns its row, the attempts and the marker its fire decides
\* from are the row's.
THEOREM FencedDecisions == Spec => []OwnerSeesTheRow
<1>1. IInv => OwnerSeesTheRow
  BY DEF IInv
<1> QED
  BY <1>1, Invariance, PTL

\* Work that was dispatched and marked is never dead-lettered, no occurrence is
\* dead-lettered with attempts left, and success is recorded only of an occurrence
\* whose execution exists.
THEOREM Honesty == Spec => []HonestOutcomes
<1>1. IInv => HonestOutcomes
  BY DEF IInv, RowsConsistent, HonestOutcomes
<1> QED
  BY <1>1, Invariance, PTL

-----------------------------------------------------------------------------
\* What one step may make of a row, seen from outside: the six ways in which
\* it moves, and the lease it moves under.
Open(r) == r.status \in {"pending", "running"}

SameLease(r, n) == n.claimedBy = r.claimedBy /\ n.leaseEpoch = r.leaseEpoch

Claims(r, n) ==
  /\ r.status = "pending" /\ n.status = "running"
  /\ n.attempts = r.attempts /\ n.leaseEpoch > r.leaseEpoch

Stays(r, n) ==
  Open(r) /\ n.status = r.status /\ SameLease(r, n) /\ n.attempts = r.attempts

HandsBack(r, n) ==
  /\ r.status = "running" /\ n.status = "pending" /\ n.leaseEpoch >= r.leaseEpoch
  /\ \/ n.attempts = r.attempts
     \/ n.attempts = r.attempts + 1 /\ n.attempts < MaxAttempts

Settles(t, n) ==
  /\ Open(row[t]) /\ n.leaseEpoch = row[t].leaseEpoch
  /\ \/ n.status = "succeeded" /\ executed[t] /\ n.attempts = row[t].attempts
     \/ n.status = "failed" /\ n.attempts = row[t].attempts + 1 /\ n.attempts = MaxAttempts
     \/ n.status = "missed" /\ n.attempts = row[t].attempts

Leaves(r, n) ==
  r.status # "gone" /\ n.status = "gone" /\ SameLease(r, n) /\ n.attempts = r.attempts

Legal(t, n) ==
  \/ Claims(row[t], n) \/ Stays(row[t], n) \/ HandsBack(row[t], n)
  \/ Settles(t, n) \/ Leaves(row[t], n)

RowStep ==
  \E t \in Tasks, n \in Rows : row' = [row EXCEPT ![t] = n] /\ Legal(t, n)

\* The compare-and-set when it answers, the handler's work, and the rest.
StartStep ==
  \E t \in Tasks, n \in Rows :
    /\ row' = [row EXCEPT ![t] = n] /\ Stays(row[t], n) /\ row[t].status = "running"
    /\ runs[t] <= row[t].attempts
    /\ runs' = [runs EXCEPT ![t] = @ + 1] /\ UNCHANGED executed

WorkStep ==
  \E t \in Tasks :
    runs[t] > 0 /\ executed' = [executed EXCEPT ![t] = TRUE] /\ UNCHANGED <<row, runs>>

RowOnly == (UNCHANGED row \/ RowStep) /\ UNCHANGED <<runs, executed>>

\* A guarded statement either finds no row or moves it legally.
LEMMA GuardedSteps ==
  ASSUME IInv, NEW f \in fires, NEW n \in Rows, GuardedUpdate(f, n),
         Owned(f) => Legal(f.id, n)
  PROVE  UNCHANGED row \/ RowStep
<1>1. f.id \in Tasks
  BY DEF IInv, TypeOK, Fires
<1> QED
  BY <1>1 DEF GuardedUpdate, RowStep

LEMMA FireSteps ==
  ASSUME IInv, NEW f \in fires, ExecutorNext(f)
  PROVE  RowOnly \/ StartStep \/ WorkStep
<1> DEFINE t == f.id
           r == row[t]
<1>1. /\ f.host \in Hosts /\ t \in Tasks /\ r \in Rows /\ f.attempts \in Nat
      /\ r.leaseEpoch \in Nat /\ r.attempts \in Nat
  BY DEF IInv, TypeOK, Fires, Rows, Columns
<1>2. CASE \/ ScheduleClaimed(f) \/ HandBackClaim(f) \/ TimerFires(f) \/ MissingHandler(f)
           \/ ReportDispatched(f) \/ HandlerReturns(f) \/ HandlerThrows(f)
           \/ MarkDispatchedRejects(f) \/ StoreRejects(f)
  BY <1>2 DEF ScheduleClaimed, HandBackClaim, TimerFires, MissingHandler, ReportDispatched,
              HandlerReturns, HandlerThrows, MarkDispatchedRejects, StoreRejects, RowOnly
<1>3. CASE ReleaseClaim(f)
  <2>1. ReleasedRow(r) \in Rows
    BY <1>1, RowsClosed
  <2>2. Owned(f) => HandsBack(r, ReleasedRow(r))
    BY <1>1, OwnedRowMoves DEF HandsBack, ReleasedRow, Rows, Columns
  <2> QED
    BY <1>3, <2>1, <2>2, GuardedSteps DEF ReleaseClaim, RowOnly, Legal
<1>4. CASE BeginDispatch(f) \/ BeginDispatchUnanswered(f)
  <2>1. /\ BegunRow(r) \in Rows
        /\ r.status = "running" => Stays(r, BegunRow(r))
    BY <1>1, RowsClosed DEF BegunRow, Stays, Open, SameLease, Rows, Columns
  <2>2. CASE ~MutexFree(f)
    BY <1>4, <2>2 DEF BeginDispatch, BeginDispatchUnanswered, RowOnly
  <2>3. CASE MutexFree(f)
    <3>1. /\ r.status = "running" /\ runs[t] <= r.attempts
          /\ row' = [row EXCEPT ![t] = BegunRow(r)]
          /\ UNCHANGED executed
          /\ runs' = [runs EXCEPT ![t] = @ + 1] \/ UNCHANGED runs
      BY <1>1, <1>4, <2>3
         DEF BeginDispatch, BeginDispatchUnanswered, MutexFree, Owned, IInv, RowsConsistent, TypeOK
    <3> QED
      BY <1>1, <2>1, <3>1 DEF StartStep, RowOnly, RowStep, Legal
  <2> QED
    BY <2>2, <2>3
<1>5. CASE RunWorkflow(f)
  <2>1. runs[t] > 0
    BY <1>5 DEF RunWorkflow, IInv, FiresConsistent, PostDispatch, Handling
  <2> QED
    BY <1>1, <1>5, <2>1 DEF RunWorkflow, WorkStep
<1>6. CASE MarkDispatched(f)
  <2>1. /\ DispatchedRow(r) \in Rows
        /\ r.status = "running" => Stays(r, DispatchedRow(r))
    BY <1>1, RowsClosed DEF DispatchedRow, Stays, Open, SameLease, Rows, Columns
  <2> QED
    BY <1>6, <2>1, GuardedSteps DEF MarkDispatched, RowOnly, Owned, Legal
<1>7. CASE CompleteTask(f)
  <2>1. SucceededRow(r) \in Rows /\ executed[t]
    BY <1>1, <1>7, RowsClosed DEF CompleteTask, IInv, FiresConsistent
  <2>2. Owned(f) => Settles(t, SucceededRow(r))
    BY <1>1, <2>1, OwnedRowMoves DEF Settles, Open, SucceededRow, Rows, Columns
  <2> QED
    BY <1>7, <2>1, <2>2, GuardedSteps DEF CompleteTask, RowOnly, Legal
<1>8. CASE RecordFailure(f)
  <2>1. FailureOutcome(f) \in Rows
    BY <1>1, RowsClosed DEF FailureOutcome
  <2>2. ASSUME Owned(f)
        PROVE  Settles(t, FailureOutcome(f)) \/ HandsBack(r, FailureOutcome(f))
    <3>1. CASE LastAttempt(f.attempts) /\ f.mark # "none"
      BY <1>1, <2>2, <3>1, OwnedRowMoves
         DEF Settles, Open, FailureOutcome, SucceededRow, Rows, Columns
    <3>2. CASE LastAttempt(f.attempts) /\ f.mark = "none"
      <4>1. /\ FailureOutcome(f).status = "failed"
            /\ FailureOutcome(f).leaseEpoch = r.leaseEpoch
            /\ FailureOutcome(f).attempts = r.attempts + 1
        BY <1>1, <3>2 DEF FailureOutcome, FailedRow, Rows, Columns
      <4>2. r.attempts + 1 = MaxAttempts /\ r.status = "running"
        BY <1>1, <2>2, <3>2, OwnedRowMoves DEF LastAttempt
      <4> QED
        BY <4>1, <4>2 DEF Settles, Open
    <3>3. CASE ~LastAttempt(f.attempts)
      <4>1. /\ FailureOutcome(f).status = "pending"
            /\ FailureOutcome(f).leaseEpoch = r.leaseEpoch
            /\ FailureOutcome(f).attempts = r.attempts + 1
        BY <1>1, <3>3 DEF FailureOutcome, RescheduledRow, ReleasedRow, Rows, Columns
      <4>2. r.attempts + 1 < MaxAttempts /\ r.status = "running"
        BY <1>1, <2>2, <3>3, OwnedRowMoves DEF LastAttempt
      <4> QED
        BY <1>1, <4>1, <4>2 DEF HandsBack
    <3> QED
      BY <3>1, <3>2, <3>3
  <2> QED
    BY <1>8, <2>1, <2>2, GuardedSteps DEF RecordFailure, RowOnly, Legal
<1> QED
  BY <1>2, <1>3, <1>4, <1>5, <1>6, <1>7, <1>8 DEF ExecutorNext

LEMMA ReapSteps ==
  ASSUME IInv, NEW h \in Hosts, NEW ref \in sweep[h], ReapRow(h, ref)
  PROVE  RowOnly
<1> DEFINE t == ref.id
           r == row[t]
           n == ReapOutcome(ref)
<1>1. /\ t \in Tasks /\ r \in Rows /\ ref.attempts \in Nat
      /\ r.leaseEpoch \in Nat /\ r.attempts \in Nat
      /\ UNCHANGED <<runs, executed>>
  BY DEF ReapRow, executorVars, IInv, TypeOK, Swept, Rows, Columns
<1>2. CASE ~Reapable(ref, ref.dispatched)
  BY <1>1, <1>2 DEF ReapRow, ReaperUpdate, RowOnly
<1>3. CASE Reapable(ref, ref.dispatched)
  <2>1. /\ row' = [row EXCEPT ![t] = n]
        /\ r.status = "running" /\ r.attempts = ref.attempts /\ r.attempts < MaxAttempts
        /\ ref.dispatched => executed[t]
    BY <1>1, <1>3 DEF ReapRow, ReaperUpdate, Reapable, IInv, SweepsConsistent, RowsConsistent
  <2>2. n \in Rows
    BY <1>1, RowsClosed DEF ReapOutcome, IInv, TypeOK
  <2>3. \/ n.status = "succeeded" /\ n.leaseEpoch = r.leaseEpoch
           /\ n.attempts = r.attempts /\ ref.dispatched
        \/ n.status = "failed" /\ n.leaseEpoch = r.leaseEpoch
           /\ n.attempts = r.attempts + 1 /\ LastAttempt(ref.attempts)
        \/ n.status = "pending" /\ n.leaseEpoch = r.leaseEpoch + 1
           /\ n.attempts = r.attempts + 1 /\ ~LastAttempt(ref.attempts)
    BY <1>1 DEF ReapOutcome, SucceededRow, FailedRow, ReclaimedRow, RescheduledRow,
                ReleasedRow, Rows, Columns
  <2> HIDE DEF n
  <2>4. Settles(t, n) \/ HandsBack(r, n)
    BY <1>1, <2>1, <2>3 DEF Settles, HandsBack, Open, LastAttempt
  <2> QED
    BY <1>1, <2>1, <2>2, <2>4 DEF RowOnly, RowStep, Legal
<1> QED
  BY <1>2, <1>3

LEMMA TableSteps ==
  ASSUME IInv, NEW t \in Tasks, TableNext(t)
  PROVE  RowOnly
<1> DEFINE r == row[t]
           Marked(s) == [row[t] EXCEPT !.status = s]
           Due == [row[t] EXCEPT !.due = TRUE]
           Overdue == [row[t] EXCEPT !.overdue = TRUE]
           Lapsed == [row[t] EXCEPT !.lease = "lapsed"]
<1>1. r \in Rows /\ r.leaseEpoch \in Nat /\ UNCHANGED <<runs, executed>>
  BY DEF TableNext, TableOnly, executorVars, IInv, TypeOK, Rows, Columns
<1>2. \/ Open(r) /\ row' = [row EXCEPT ![t] = Marked("missed")]
      \/ r.status # "gone" /\ row' = [row EXCEPT ![t] = Marked("gone")]
      \/ Open(r) /\ row' = [row EXCEPT ![t] = Due]
      \/ Open(r) /\ row' = [row EXCEPT ![t] = Overdue]
      \/ Open(r) /\ row' = [row EXCEPT ![t] = Lapsed]
  BY DEF TableNext, TableOnly, RetireStale, RetireMissedPending, UpdateToMissed, Supersedable,
         DeletePending, DeleteJob, DeleteFinished, BecomesDue, DeadlinePasses, LeaseLapses,
         Open, Terminal
<1>3. /\ Marked("missed") \in Rows /\ Marked("gone") \in Rows
      /\ Open(r) => Settles(t, Marked("missed"))
      /\ r.status # "gone" => Leaves(r, Marked("gone"))
  BY <1>1 DEF Rows, Columns, Statuses, Terminal, Settles, Leaves, SameLease
<1>4. /\ Due \in Rows /\ Overdue \in Rows
      /\ Open(r) => Stays(r, Due) /\ Stays(r, Overdue)
  BY <1>1 DEF Rows, Columns, Stays, SameLease
<1>5. Lapsed \in Rows /\ (Open(r) => Stays(r, Lapsed))
  BY <1>1 DEF Rows, Columns, Stays, SameLease
<1> HIDE DEF Marked, Due, Overdue, Lapsed
<1> QED
  BY <1>1, <1>2, <1>3, <1>4, <1>5 DEF RowOnly, RowStep, Legal

\* Seen from the table, a step of the scheduler moves one row legally, starts
\* a handler, does an occurrence's work, or does nothing.
LEMMA VisibleSteps ==
  ASSUME IInv, [Next]_vars
  PROVE  RowOnly \/ StartStep \/ WorkStep
<1>1. ASSUME NEW h \in Hosts, NEW t \in Tasks, ClaimDueTasks(h, t)
      PROVE  RowOnly
  <2>1. /\ row[t] \in Rows /\ row[t].leaseEpoch \in Nat
        /\ row[t].status = "pending"
        /\ row' = [row EXCEPT ![t] = ClaimedRow(row[t], h)]
        /\ UNCHANGED <<runs, executed>>
    BY <1>1 DEF ClaimDueTasks, Claimable, IInv, TypeOK, Rows, Columns
  <2>2. ClaimedRow(row[t], h) \in Rows
    BY <2>1, RowsClosed
  <2>3. Claims(row[t], ClaimedRow(row[t], h))
    BY <2>1 DEF Claims, ClaimedRow, Rows, Columns
  <2> QED
    BY <2>1, <2>2, <2>3 DEF RowOnly, RowStep, Legal
<1>2. CASE \E f \in fires : ExecutorNext(f) /\ UNCHANGED sweep
  BY <1>2, FireSteps
<1>3. CASE \E h \in Hosts : StopExecutor(h) /\ UNCHANGED sweep
  BY <1>3 DEF StopExecutor, RowOnly
<1>4. CASE \E h \in Hosts : ReaperNext(h)
  <2>1. \A h \in Hosts : \A ref \in sweep[h] : ReapRow(h, ref) => RowOnly
    BY ReapSteps
  <2>2. \A h \in Hosts : FindExpiredLeases(h) \/ AbortSweep(h) => RowOnly
    BY DEF FindExpiredLeases, AbortSweep, executorVars, RowOnly
  <2>3. \A h \in Hosts : \A ref \in sweep[h] : SkipRow(h, ref) => RowOnly
    BY DEF SkipRow, executorVars, RowOnly
  <2> QED
    BY <1>4, <2>1, <2>2, <2>3 DEF ReaperNext
<1>5. CASE \E h \in Hosts : StopLoops(h) \/ Restart(h) \/ Crash(h)
  BY <1>5 DEF StopLoops, Restart, Crash, NewProcess, RowOnly
<1>6. CASE \E t \in Tasks : TableNext(t)
  BY <1>6, TableSteps
<1>7. CASE UNCHANGED vars
  BY <1>7 DEF vars, RowOnly
<1> QED
  BY <1>1, <1>2, <1>3, <1>4, <1>5, <1>6, <1>7 DEF Next

-----------------------------------------------------------------------------
\* No step reopens or re-records a finished occurrence.
THEOREM FinalOutcomes == Spec => OutcomesAreFinal
<1> DEFINE Final == \A t \in Tasks : row[t].status \in Terminal =>
                      row'[t] = row[t] \/ row'[t].status = "gone"
<1>1. IInv /\ [Next]_vars => [Final]_row
  <2> SUFFICES ASSUME IInv, [Next]_vars, row' # row PROVE Final
    OBVIOUS
  <2>1. RowStep \/ StartStep
    BY VisibleSteps DEF RowOnly, WorkStep
  <2>2. PICK t \in Tasks, n \in Rows : row' = [row EXCEPT ![t] = n] /\ Legal(t, n)
    BY <2>1 DEF RowStep, StartStep, Legal
  <2>3. row[t].status \in Terminal => n.status = "gone"
    BY <2>2 DEF Legal, Claims, Stays, HandsBack, Settles, Leaves, Open, Terminal
  <2>4. \A u \in Tasks : row'[u] = IF u = t THEN n ELSE row[u]
    BY <2>2 DEF IInv, TypeOK
  <2> QED
    BY <2>3, <2>4
<1> QED
  BY <1>1, Invariance, PTL DEF Spec, OutcomesAreFinal

\* The epoch never goes back and no row changes owner under a lease.
THEOREM Fencing == Spec => OwnersAreFenced
<1> DEFINE Fenced == \A t \in Tasks :
                       /\ row'[t].leaseEpoch >= row[t].leaseEpoch
                       /\ row[t].status = "running" /\ row'[t].status = "running" =>
                            /\ row'[t].claimedBy = row[t].claimedBy
                            /\ row'[t].leaseEpoch = row[t].leaseEpoch
<1>1. IInv /\ [Next]_vars => [Fenced]_row
  <2> SUFFICES ASSUME IInv, [Next]_vars, row' # row PROVE Fenced
    OBVIOUS
  <2>1. RowStep \/ StartStep
    BY VisibleSteps DEF RowOnly, WorkStep
  <2>2. PICK t \in Tasks, n \in Rows : row' = [row EXCEPT ![t] = n] /\ Legal(t, n)
    BY <2>1 DEF RowStep, StartStep, Legal
  <2>3. \A u \in Tasks : /\ row[u].leaseEpoch \in Nat
                         /\ row'[u] = IF u = t THEN n ELSE row[u]
    BY <2>2 DEF IInv, TypeOK, Rows, Columns
  <2>4. /\ n.leaseEpoch >= row[t].leaseEpoch
        /\ row[t].status = "running" /\ n.status = "running" => SameLease(row[t], n)
    BY <2>2, <2>3 DEF Legal, Claims, Stays, HandsBack, Settles, Leaves, SameLease, Rows, Columns
  <2> QED
    BY <2>3, <2>4 DEF SameLease
<1> QED
  BY <1>1, Invariance, PTL DEF Spec, OwnersAreFenced

\* Before its lease lapses a running row is ended only by the fire that owns
\* it, or leaves with its job.
THEOREM LeaseProtection == Spec => LiveLeasesAreRespected
<1> DEFINE Ends(t) == row[t].status = "running" /\ row[t].lease = "live"
                        /\ row'[t].status \notin {"running", "gone"}
           ByOwner(t) == \E f \in fires \ fires' :
             f.id = t /\ f.host = row[t].claimedBy /\ f.epoch = row[t].leaseEpoch
           Respected == \A t \in Tasks : Ends(t) => ByOwner(t)
<1>1. ASSUME IInv, Next, NEW t \in Tasks, Ends(t)
      PROVE  ByOwner(t)
  <2>1. /\ row \in [Tasks -> Rows] /\ fires \subseteq Fires
        /\ \A h \in Hosts : \A ref \in sweep[h] : ref.id \in Tasks
    BY <1>1 DEF IInv, TypeOK, Swept
  <2>2. ASSUME NEW h \in Hosts, NEW u \in Tasks, ClaimDueTasks(h, u)
        PROVE  FALSE
    BY <1>1, <2>1, <2>2 DEF ClaimDueTasks, Claimable, ClaimedRow, Rows, Columns
  <2>3. ASSUME NEW f \in fires, ExecutorNext(f)
        PROVE  ByOwner(t)
    <3>1. f.id \in Tasks /\ row[f.id] \in Rows
      BY <2>1 DEF Fires
    <3>2. CASE ReleaseClaim(f) \/ CompleteTask(f) \/ RecordFailure(f)
      <4>1. /\ f \notin fires'
            /\ \E n : GuardedUpdate(f, n)
        BY <3>2 DEF ReleaseClaim, CompleteTask, RecordFailure, End
      <4>2. Owned(f) /\ f.id = t
        BY <1>1, <2>1, <4>1 DEF GuardedUpdate
      <4> QED
        BY <4>1, <4>2 DEF Owned
    <3>3. CASE BeginDispatch(f) \/ BeginDispatchUnanswered(f) \/ MarkDispatched(f)
      <4>1. row' = row \/ row' = [row EXCEPT ![f.id] = BegunRow(row[f.id])]
              \/ row' = [row EXCEPT ![f.id] = DispatchedRow(row[f.id])]
        BY <3>3 DEF BeginDispatch, BeginDispatchUnanswered, MarkDispatched, GuardedUpdate
      <4>2. /\ BegunRow(row[f.id]).status = row[f.id].status
            /\ DispatchedRow(row[f.id]).status = row[f.id].status
        BY <3>1 DEF BegunRow, DispatchedRow, Rows, Columns
      <4> QED
        BY <1>1, <2>1, <4>1, <4>2
    <3>4. CASE UNCHANGED row
      BY <1>1, <3>4
    <3> QED
      BY <2>3, <3>2, <3>3, <3>4
         DEF ExecutorNext, ScheduleClaimed, HandBackClaim, TimerFires, MissingHandler, RunWorkflow,
             ReportDispatched, HandlerReturns, HandlerThrows, MarkDispatchedRejects, StoreRejects
  <2>4. ASSUME NEW h \in Hosts, ReaperNext(h)
        PROVE  FALSE
    <3>1. ASSUME NEW ref \in sweep[h], ReapRow(h, ref)
          PROVE  FALSE
      BY <1>1, <2>1, <3>1 DEF ReapRow, ReaperUpdate, Reapable
    <3> QED
      BY <1>1, <2>4, <3>1 DEF ReaperNext, FindExpiredLeases, AbortSweep, SkipRow
  <2>5. ASSUME NEW u \in Tasks, TableNext(u)
        PROVE  FALSE
    <3>1. CASE DeadlinePasses(u)
      BY <1>1, <2>1, <3>1 DEF DeadlinePasses, Rows, Columns
    <3>2. CASE LeaseLapses(u)
      BY <1>1, <2>1, <3>2 DEF LeaseLapses, Rows, Columns
    <3>3. CASE DeleteJob(u)
      BY <1>1, <2>1, <3>3 DEF DeleteJob, Rows, Columns
    <3>4. CASE \/ RetireStale(u) \/ UpdateToMissed(u) \/ DeletePending(u)
               \/ DeleteFinished(u) \/ BecomesDue(u)
      <4>1. /\ row[u].status # "running"
            /\ \E n : row' = [row EXCEPT ![u] = n]
        BY <3>4 DEF RetireStale, RetireMissedPending, UpdateToMissed, Supersedable,
                    DeletePending, DeleteFinished, BecomesDue, Terminal
      <4> QED
        BY <1>1, <2>1, <4>1
    <3> QED
      BY <2>5, <3>1, <3>2, <3>3, <3>4 DEF TableNext, TableOnly
  <2> QED
    BY <1>1, <2>2, <2>3, <2>4, <2>5
       DEF Next, StopExecutor, StopLoops, Restart, Crash, NewProcess
<1>2. IInv /\ [Next]_vars => [Respected]_vars
  <2> SUFFICES ASSUME IInv, Next PROVE Respected
    OBVIOUS
  <2> QED
    BY <1>1
<1> QED
  BY <1>2, Invariance, PTL DEF Spec, LiveLeasesAreRespected

-----------------------------------------------------------------------------
\* The abstract outcome of a row.
LEMMA OutcomeOfRow ==
  ASSUME NEW t \in Tasks, NEW n, row \in [Tasks -> Rows], row' = [row EXCEPT ![t] = n]
  PROVE  /\ [u \in Tasks |-> IF row[u].status \in {"pending", "running"}
                              THEN "open" ELSE row[u].status]'
              = [[u \in Tasks |-> IF row[u].status \in {"pending", "running"}
                                  THEN "open" ELSE row[u].status]
                   EXCEPT ![t] = IF n.status \in {"pending", "running"}
                                   THEN "open" ELSE n.status]
         /\ [u \in Tasks |-> row[u].attempts]'
              = [[u \in Tasks |-> row[u].attempts] EXCEPT ![t] = n.attempts]
  OBVIOUS

\* With all its hosts, the scheduler implements the lifecycle it promises of
\* an occurrence: every step starts it, does its work, counts an attempt,
\* settles it, removes it, or is invisible.
THEOREM Implementation == Spec => ImplementsLifecycle
<1> DEFINE outcome == [t \in Tasks |-> IF row[t].status \in {"pending", "running"}
                                         THEN "open" ELSE row[t].status]
           tries == [t \in Tasks |-> row[t].attempts]
<1>1. Init => Lifecycle!Init
  BY DEF Init, StoreInit, ExecutorInit, NewRow, Lifecycle!Init
<1>2. IInv /\ [Next]_vars => [Lifecycle!Next]_(Lifecycle!vars)
  <2> SUFFICES ASSUME IInv, [Next]_vars
               PROVE  Lifecycle!Next \/ UNCHANGED Lifecycle!vars
    OBVIOUS
  <2>1. row \in [Tasks -> Rows]
    BY DEF IInv, TypeOK
  <2>2. CASE UNCHANGED <<row, runs, executed>>
    BY <2>2 DEF Lifecycle!vars
  <2>3. CASE RowStep /\ UNCHANGED <<runs, executed>>
    <3>1. PICK t \in Tasks, n \in Rows : row' = [row EXCEPT ![t] = n] /\ Legal(t, n)
      BY <2>3 DEF RowStep
    <3>2. /\ outcome' = [outcome EXCEPT ![t] = IF Open(n) THEN "open" ELSE n.status]
          /\ tries' = [tries EXCEPT ![t] = n.attempts]
      BY <2>1, <3>1, OutcomeOfRow DEF Open
    <3>3. /\ outcome[t] = IF Open(row[t]) THEN "open" ELSE row[t].status
          /\ tries[t] = row[t].attempts
          /\ n.attempts \in Nat /\ row[t].attempts \in Nat
      BY <2>1, <3>1 DEF Open, Rows, Columns
    <3>4. CASE Open(n) /\ n.attempts = row[t].attempts
      <4>1. Open(row[t])
        BY <3>1, <3>4 DEF Legal, Claims, Stays, HandsBack, Settles, Leaves, Open
      <4> QED
        BY <2>3, <3>2, <3>3, <3>4, <4>1 DEF Lifecycle!vars
    <3>5. CASE Open(n) /\ n.attempts # row[t].attempts
      <4>1. Open(row[t]) /\ n.attempts = row[t].attempts + 1 /\ n.attempts < MaxAttempts
        BY <3>1, <3>5 DEF Legal, Claims, Stays, HandsBack, Settles, Leaves, Open
      <4>2. Lifecycle!Retry(t)
        BY <2>3, <3>2, <3>3, <3>5, <4>1 DEF Lifecycle!Retry
      <4> QED
        BY <4>2 DEF Lifecycle!Next
    <3>6. CASE ~Open(n)
      <4>1. Settles(t, n) \/ Leaves(row[t], n)
        BY <3>1, <3>6 DEF Legal, Claims, Stays, HandsBack, Open
      <4>2. CASE Settles(t, n)
        <5>1. \/ Lifecycle!Succeed(t) \/ Lifecycle!Fail(t) \/ Lifecycle!Miss(t)
          BY <2>3, <3>2, <3>3, <3>6, <4>2
             DEF Settles, Lifecycle!Succeed, Lifecycle!Fail, Lifecycle!Miss
        <5> QED
          BY <5>1 DEF Lifecycle!Next
      <4>3. CASE Leaves(row[t], n)
        <5>1. Lifecycle!Remove(t)
          BY <2>3, <3>2, <3>3, <3>6, <4>3 DEF Leaves, Lifecycle!Remove
        <5> QED
          BY <5>1 DEF Lifecycle!Next
      <4> QED
        BY <4>1, <4>2, <4>3
    <3> QED
      BY <3>4, <3>5, <3>6
  <2>4. CASE StartStep
    <3>1. PICK t \in Tasks, n \in Rows :
            /\ row' = [row EXCEPT ![t] = n] /\ Stays(row[t], n) /\ row[t].status = "running"
            /\ runs[t] <= row[t].attempts
            /\ runs' = [runs EXCEPT ![t] = @ + 1] /\ UNCHANGED executed
      BY <2>4 DEF StartStep
    <3>2. outcome' = outcome /\ tries' = tries
      BY <2>1, <3>1 DEF Stays
    <3>3. outcome[t] = "open" /\ tries[t] = row[t].attempts /\ row[t].attempts < MaxAttempts
      BY <3>1 DEF IInv, RowsConsistent
    <3>4. Lifecycle!Start(t)
      BY <3>1, <3>2, <3>3 DEF Lifecycle!Start
    <3> QED
      BY <3>4 DEF Lifecycle!Next
  <2>5. CASE WorkStep
    <3>1. PICK t \in Tasks : /\ runs[t] > 0
                             /\ executed' = [executed EXCEPT ![t] = TRUE]
                             /\ UNCHANGED <<row, runs>>
      BY <2>5 DEF WorkStep
    <3>2. Lifecycle!Work(t)
      BY <3>1 DEF Lifecycle!Work
    <3> QED
      BY <3>2 DEF Lifecycle!Next
  <2> QED
    BY <2>2, <2>3, <2>4, <2>5, VisibleSteps DEF RowOnly
<1> QED
  BY <1>1, <1>2, Invariance, PTL DEF Spec, ImplementsLifecycle, Lifecycle!Spec
=============================================================================
