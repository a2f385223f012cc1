----------------------- MODULE RegularExecutionsProofs -----------------------
(***************************************************************************)
(* Proofs about RegularExecutions, for any limit, any executions and any   *)
(* number of events.  The invariant is IInv; its parts lean on one         *)
(* another, so a lemma for each action shows that the action keeps them    *)
(* all:                                                                    *)
(*                                                                         *)
(*   <1>0  what holds before the step                                      *)
(*   <1>1  what the action does, one fact per variable                     *)
(*   <1>a  what the invariant says of the attempt or execution it is about *)
(*   <1>2  the queue and its slots: QueueMoved counts the ones in use      *)
(*   <1>3 to <1>10  the types and the other parts                          *)
(***************************************************************************)
EXTENDS RegularExecutions, ConcurrencyQueueProofs, FiniteSetTheorems

-----------------------------------------------------------------------------
\* Attempts by their execution and kind.
LEMMA AttemptsByKind ==
  /\ \A a \in Attempts : Exec(a) \in Execs /\ Kind(a) \in {"fresh", "resume", "recover"}
  /\ \A a \in Attempts : Kind(a) = "fresh" => a = Fresh(Exec(a))
  /\ \A e \in Execs : Fresh(e) \in Attempts /\ Exec(Fresh(e)) = e /\ Kind(Fresh(e)) = "fresh"
BY WatchedAreExecs DEF Attempts, Exec, Kind, Fresh

\* There are finitely many attempts.
LEMMA AttemptsAreFinite == IsFiniteSet(Attempts)
<1> DEFINE Kinds == {"fresh"} \cup {"resume"} \cup {"recover"}
           Numbers == (1..MaxEvents + 1) \cup {1}
           pair == [a \in Attempts |-> <<a[1], <<a[2], a[3]>>>>]
<1>1. IsFiniteSet(Kinds)
  <2>1. IsFiniteSet({"fresh"} \cup {"resume"})
    BY FS_Singleton, FS_AddElement
  <2> QED BY <2>1, FS_AddElement
<1>2. IsFiniteSet(Numbers)
  <2>1. 1 \in Int /\ MaxEvents + 1 \in Int
    BY MaxEventsIsNat
  <2>2. IsFiniteSet(1..MaxEvents + 1)
    BY <2>1, FS_Interval
  <2> QED BY <2>2, FS_AddElement
<1>3. \A a \in Attempts :
        a[1] \in Execs /\ a[2] \in Kinds /\ a[3] \in Numbers /\ a = <<a[1], a[2], a[3]>>
  <2>1. \A n \in 1..MaxEvents : n \in Numbers
    BY MaxEventsIsNat
  <2>2. 1 \in Numbers /\ 1..MaxEvents + 1 \subseteq Numbers
    OBVIOUS
  <2> HIDE DEF Numbers
  <2> QED BY <2>1, <2>2, WatchedAreExecs DEF Attempts
<1> HIDE DEF Kinds, Numbers
<1>4. IsFiniteSet(Kinds \X Numbers)
  BY <1>1, <1>2, FS_Product
<1>5. IsFiniteSet(Execs \X (Kinds \X Numbers))
  BY <1>4, ExecsAreFinite, FS_Product
<1>6. pair \in Injection(Attempts, Execs \X (Kinds \X Numbers))
  BY <1>3 DEF Injection, IsInjective
<1> QED BY <1>5, <1>6, FS_Injection

-----------------------------------------------------------------------------
\* The queue loses `gone` and `woken`, who is granted a slot next, if anyone; `back`
\* units of capacity were given back beside theirs.
Moved(gone, back, woken) ==
  /\ woken \subseteq ToSet(queue) \ gone
  /\ capacity' \in Int /\ queue' \in Seq(Attempts) /\ IsInjective(queue')
  /\ ToSet(queue') = ToSet(queue) \ (gone \cup woken)
  /\ granted' = granted \cup woken
  /\ \/ woken = {} /\ capacity' + Len(queue') = capacity + Len(queue) + back
     \/ Single(woken) /\ capacity' + Len(queue') + 1 = capacity + Len(queue) + back
  /\ ~enabled => capacity' = capacity

QueueMoves(gone, back) == \E woken : Moved(gone, back, woken)

\* A queue that stays as it is moves, by nothing.
LEMMA NoMove ==
  ASSUME TypeOK, QueueConsistent, UNCHANGED queueVars
  PROVE  QueueMoves({}, 0)
<1>1. capacity' = capacity /\ queue' = queue /\ granted' = granted
  BY DEF queueVars
<1>2. capacity \in Int /\ queue \in Seq(Attempts) /\ IsInjective(queue) /\ Len(queue) \in Nat
  BY DEF TypeOK, QueueConsistent
<1>3. Moved({}, 0, {})
  BY <1>1, <1>2 DEF Moved
<1> QED BY <1>3 DEF QueueMoves

\* GiveBack, with concurrency control and after its disabling.
LEMMA GivingBack ==
  ASSUME TypeOK, QueueConsistent, GiveBack
  PROVE  QueueMoves({}, IF enabled THEN 1 ELSE 0)
<1>1. CASE enabled
  <2>1. PICK woken \in SUBSET ToSet(queue) :
          /\ queue' \in Seq(Attempts) /\ IsInjective(queue')
          /\ ToSet(queue') = ToSet(queue) \ woken
          /\ granted' = granted \cup woken
          /\ \/ woken = {} /\ Len(queue') = Len(queue)
             \/ Single(woken) /\ Len(queue') = Len(queue) - 1
    BY <1>1, Dequeuing DEF GiveBack, TypeOK, QueueConsistent
  <2>2. capacity' = capacity + 1
    BY <1>1 DEF GiveBack, Dequeue
  <2>3. Len(queue) \in Nat /\ Len(queue') \in Nat /\ capacity \in Int
    BY <2>1 DEF TypeOK
  <2>4. \/ woken = {} /\ capacity' + Len(queue') = capacity + Len(queue) + 1
        \/ Single(woken) /\ capacity' + Len(queue') + 1 = capacity + Len(queue) + 1
    BY <2>1, <2>2, <2>3
  <2>5. Moved({}, 1, woken)
    BY <1>1, <2>1, <2>2, <2>3, <2>4 DEF Moved
  <2> QED BY <1>1, <2>5 DEF QueueMoves
<1>2. CASE ~enabled
  BY <1>2, NoMove DEF GiveBack
<1> QED BY <1>1, <1>2

\* Unqueue takes off an attempt of the execution, or does nothing.
LEMMA Unqueuing ==
  ASSUME TypeOK, QueueConsistent, NEW e \in Execs, Unqueue(e)
  PROVE  \/ ~IsQueued(e) /\ UNCHANGED queueVars
         \/ enabled /\ \E a \in ToSet(queue) : Exec(a) = e /\ QueueMoves({a}, 0)
<1>1. CASE IsQueued(e)
  <2>1. PICK i \in DOMAIN queue : Exec(queue[i]) = e /\ RemoveQueued(queue[i])
    BY <1>1 DEF Unqueue, FirstOf
  <2> DEFINE a == queue[i]
  <2>2. PICK woken \in SUBSET (ToSet(queue) \ {a}) :
          /\ queue' \in Seq(Attempts) /\ IsInjective(queue')
          /\ ToSet(queue') = ToSet(queue) \ ({a} \cup woken)
          /\ granted' = granted \cup woken
          /\ \/ woken = {} /\ Len(queue') = Len(queue) - 1
             \/ Single(woken) /\ Len(queue') = Len(queue) - 2
    BY <2>1, Removing DEF TypeOK, QueueConsistent
  <2>3. capacity' = capacity + 1
    BY <2>1, Removing DEF TypeOK, QueueConsistent
  <2>4. Len(queue) \in Nat /\ Len(queue') \in Nat /\ capacity \in Int
    BY <2>2 DEF TypeOK
  <2>5. a \in ToSet(queue) /\ enabled
    BY <1>1, <2>1 DEF ToSet, TypeOK, IsQueued
  <2>6. \/ woken = {} /\ capacity' + Len(queue') = capacity + Len(queue) + 0
        \/ Single(woken) /\ capacity' + Len(queue') + 1 = capacity + Len(queue) + 0
    BY <2>2, <2>3, <2>4
  <2>7. Moved({a}, 0, woken)
    BY <2>2, <2>3, <2>4, <2>5, <2>6 DEF Moved
  <2> QED BY <2>1, <2>5, <2>7 DEF QueueMoves
<1>2. CASE ~IsQueued(e)
  BY <1>2 DEF Unqueue
<1> QED BY <1>1, <1>2

\* Counting a set of attempts and the same set with one more or less.
LEMMA Counting ==
  ASSUME NEW A \in SUBSET Attempts, NEW a \in Attempts
  PROVE  /\ Cardinality(A) \in Nat
         /\ a \notin A => Cardinality(A \cup {a}) = Cardinality(A) + 1
         /\ a \in A => Cardinality(A \ {a}) = Cardinality(A) - 1
<1>1. IsFiniteSet(A)
  BY AttemptsAreFinite, FS_Subset
<1> QED BY <1>1, FS_CardinalityType, FS_AddElement, FS_RemoveElement

\* Slots stay accounted for when whoever leaves the queue comes to use one and one
\* unit comes back for one that is no longer used.
LEMMA SlotsKept ==
  ASSUME IInv, NEW gone, NEW back, QueueMoves(gone, back), enabled' = enabled,
         NEW out \in SUBSET InUse, InUse' = (InUse \ out) \cup (granted' \ granted),
         \/ out = {} /\ back = 0
         \/ Single(out) /\ back = IF enabled THEN 1 ELSE 0
  PROVE  SlotsAccounted' /\ capacity' <= Limit
<1>0. TypeOK /\ SlotsAccounted /\ QueueConsistent /\ SlotsTraced /\ InUse \in SUBSET Attempts
  BY DEF IInv, TypeOK, InUse
<1>1. PICK woken : Moved(gone, back, woken)
  BY DEF QueueMoves
<1> USE DEF Moved
<1>2. CASE ~enabled
  BY <1>0, <1>1, <1>2 DEF SlotsAccounted, TypeOK
<1>3. CASE enabled
  <2>1. /\ granted' \ granted = woken /\ woken \cap InUse = {} /\ woken \in SUBSET Attempts
    BY <1>0, <1>1 DEF QueueConsistent, SlotsTraced, InUse, ToSet, TypeOK
  <2> DEFINE kept == InUse \ out
  <2>2. kept \in SUBSET Attempts /\ Cardinality(kept) = Cardinality(InUse) - back
        /\ Cardinality(InUse) \in Nat
    <3>1. CASE out = {} /\ back = 0
      BY <1>0, <3>1, AttemptsAreFinite, FS_Subset, FS_CardinalityType
    <3>2. CASE Single(out) /\ back = 1
      BY <1>0, <3>2, Counting DEF Single
    <3> QED BY <1>3, <3>1, <3>2
  <2>3. InUse' = kept \cup woken /\ kept \cap woken = {}
    BY <2>1
  <2> HIDE DEF kept
  <2>4. /\ capacity + Len(queue) + Cardinality(InUse) = Limit
        /\ Len(queue) \in Nat /\ Len(queue') \in Nat /\ capacity \in Int
        /\ capacity' \in Int /\ back \in Nat
    BY <1>0, <1>1, <1>3 DEF SlotsAccounted, TypeOK
  <2>5. capacity' + Len(queue') + Cardinality(InUse') = Limit /\ Cardinality(InUse') \in Nat
        => SlotsAccounted' /\ capacity' <= Limit
    BY <2>4, LimitIsPositive DEF SlotsAccounted
  <2>6. CASE woken = {}
    <3>1. Cardinality(InUse') = Cardinality(InUse) - back
      BY <2>2, <2>3, <2>6
    <3>2. capacity' + Len(queue') = capacity + Len(queue) + back
      BY <1>1, <2>6 DEF Single
    <3>3. Cardinality(InUse') \in Nat
      BY <2>1, <2>2, <2>3, AttemptsAreFinite, FS_Subset, FS_CardinalityType
    <3> QED BY <2>2, <2>4, <2>5, <3>1, <3>2, <3>3
  <2>7. CASE woken # {}
    <3>1. PICK w : woken = {w}
      BY <1>1, <2>7 DEF Single
    <3>2. Cardinality(InUse') = Cardinality(InUse) - back + 1
      BY <2>1, <2>2, <2>3, <3>1, Counting
    <3>3. capacity' + Len(queue') + 1 = capacity + Len(queue) + back
      BY <1>1, <2>7
    <3>4. Cardinality(InUse') \in Nat
      BY <2>1, <2>2, <2>3, AttemptsAreFinite, FS_Subset, FS_CardinalityType
    <3>5. /\ Cardinality(InUse) \in Int /\ Cardinality(InUse') \in Int /\ back \in Int
          /\ Len(queue) \in Int /\ Len(queue') \in Int /\ Limit \in Int
      BY <2>2, <2>4, <3>4, LimitIsPositive
    <3> HIDE DEF Moved
    <3>6. capacity' + Len(queue') + Cardinality(InUse') = Limit
      <4> DEFINE held == capacity + Len(queue)
                 heldNext == capacity' + Len(queue')
                 used == Cardinality(InUse)
                 usedNext == Cardinality(InUse')
      <4>1. /\ held \in Int /\ heldNext \in Int /\ used \in Int /\ usedNext \in Int
            /\ held + used = Limit /\ heldNext + 1 = held + back /\ usedNext = used - back + 1
        BY <2>4, <3>2, <3>3, <3>5
      <4> HIDE DEF held, heldNext, used, usedNext
      <4>2. heldNext + usedNext = Limit
        BY <3>5, <4>1
      <4> QED BY <4>2 DEF heldNext, usedNext
    <3> QED BY <2>5, <3>4, <3>6
  <2> QED BY <2>6, <2>7
<1> QED BY <1>2, <1>3

-----------------------------------------------------------------------------
\* The types that the steps of attempts need.
Typed ==
  /\ active \in [Execs -> Entry \cup {None}] /\ reserved \subseteq Attempts
  /\ row \in [Execs -> Statuses] /\ at \in [Attempts -> Places]
  /\ granted \subseteq Attempts /\ ToSet(queue) \subseteq Attempts
  /\ leftovers \subseteq Execs /\ timers \subseteq Execs /\ giveUp \subseteq Attempts
  /\ slept \subseteq Execs /\ torn \subseteq Execs
  /\ unfinished \subseteq Execs /\ amended \subseteq Execs
  /\ amending \in [Execs -> {"no", "marked", "waited"} \cup (Statuses \ {"absent", "new"})]
  /\ \A e \in Execs : active[e] # None =>
       /\ active[e] \in Entry
       /\ active[e].by \in Attempts /\ active[e].wf \in Attempts \cup {None}
       /\ active[e].status \in {"running", "waiting"} /\ active[e].open \in BOOLEAN

Parts ==
  /\ TypeOK /\ QueueConsistent /\ SlotsTraced /\ EntriesConsistent /\ SlotsAccounted
  /\ WorkersAlone /\ FreshFirst /\ AmendsApart /\ CaughtForGood /\ CaughtStopsHold

\* What the invariant holds, for the leaves of the proofs.
LEMMA Unfolded ==
  ASSUME IInv
  PROVE  Typed /\ Parts
BY DEF IInv, Parts, Typed, TypeOK, ToSet, Entry

\* A step that touches neither the slots nor who awaits one.
LEMMA QueueStill ==
  ASSUME IInv, UNCHANGED <<queueVars, enabled, reserved>>,
         \A a \in Attempts : at'[a] = "queued" <=> at[a] = "queued",
         \A a \in granted : at'[a] \notin {"idle", "created"}
  PROVE  QueueConsistent' /\ SlotsAccounted' /\ capacity' <= Limit
<1>1. capacity' = capacity /\ queue' = queue /\ granted' = granted /\ granted \subseteq Attempts
      /\ ToSet(queue) \subseteq Attempts
  BY DEF queueVars, IInv, TypeOK, ToSet
<1>2. InUse' = InUse
  BY <1>1 DEF InUse
<1> QED BY <1>1, <1>2 DEF IInv, QueueConsistent, SlotsAccounted, TypeOK

\* A step by which the queue moves and at most one slot comes back.
LEMMA QueueMoved ==
  ASSUME IInv, NEW gone \in SUBSET ToSet(queue), NEW back, QueueMoves(gone, back),
         enabled' = enabled, NEW out \in SUBSET InUse,
         \/ out = {} /\ back = 0
         \/ Single(out) /\ back = IF enabled THEN 1 ELSE 0,
         reserved' \cup {a \in granted : at'[a] = "queued"} = InUse \ out,
         \A a \in ToSet(queue) : at'[a] = "queued",
         \A a \in granted : at'[a] \notin {"idle", "created"}
  PROVE  /\ QueueConsistent' /\ SlotsAccounted' /\ capacity' <= Limit
         /\ capacity' \in Int /\ queue' \in Seq(Attempts)
         /\ granted \subseteq granted' /\ granted' \subseteq granted \cup ToSet(queue)
         /\ ToSet(queue') \subseteq ToSet(queue) \ gone /\ gone \cap granted' = {}
<1>0. Typed /\ Parts
  BY Unfolded
<1>1. PICK woken : Moved(gone, back, woken)
  BY DEF QueueMoves
<1>2. /\ woken \subseteq ToSet(queue) \ gone /\ granted' = granted \cup woken
      /\ ToSet(queue') = ToSet(queue) \ (gone \cup woken) /\ IsInjective(queue')
      /\ capacity' \in Int /\ queue' \in Seq(Attempts)
  BY <1>1 DEF Moved
<1>3. \A a \in ToSet(queue) : at[a] = "queued" /\ a \notin granted
  BY <1>0 DEF Parts, QueueConsistent
<1>4. QueueConsistent'
  BY <1>2, <1>3 DEF QueueConsistent
<1>5. InUse' = (InUse \ out) \cup (granted' \ granted)
  BY <1>2, <1>3 DEF InUse
<1>6. SlotsAccounted' /\ capacity' <= Limit
  BY <1>5, SlotsKept
<1> QED BY <1>2, <1>3, <1>4, <1>6

\* What becomes of the queue in a step that ends an entry or takes off an attempt.
QueueAdvances ==
  /\ QueueConsistent' /\ SlotsAccounted' /\ capacity' <= Limit
  /\ capacity' \in Int /\ queue' \in Seq(Attempts)
  /\ granted \subseteq granted' /\ granted' \subseteq granted \cup ToSet(queue)
  /\ ToSet(queue') \subseteq ToSet(queue)

\* A step after which the same attempts await a slot.
SameQueued ==
  /\ \A a \in Attempts : at'[a] = "queued" <=> at[a] = "queued"
  /\ \A a \in granted : at'[a] \notin {"idle", "created"}

\* An attempt at work finds its execution created; alone there, unless a recovery tore
\* the execution, it works alone, and no crash recovery is about to write.
LEMMA Underway ==
  ASSUME IInv, NEW a \in Attempts, at[a] \notin {"idle", "created", "queued", "done"}
  PROVE  /\ Exec(a) \in Execs /\ at[Fresh(Exec(a))] # "idle"
         /\ at[Fresh(Exec(a))] \in {"created", "queued"} => Exec(a) \in torn
         /\ row[Exec(a)] # "new" /\ phase # "down"
         /\ at[a] # "saved" /\ Exec(a) \notin torn =>
              /\ Working(Exec(a)) = {a} /\ amending[Exec(a)] = "no"
              /\ row[Exec(a)] \notin {"new", "waiting", "success", "error"}
<1>0. Typed /\ Parts
  BY Unfolded
<1>1. Exec(a) \in Execs /\ at[Fresh(Exec(a))] # "idle" /\ phase # "down"
  BY <1>0, AttemptsByKind DEF Parts, FreshFirst, NothingBefore, OnTheirWay
<1>2. /\ at[Fresh(Exec(a))] \in {"created", "queued"} => Exec(a) \in torn
      /\ row[Exec(a)] # "new"
  BY <1>0, <1>1 DEF Parts, FreshFirst, Unclaimed
<1>3. ASSUME at[a] # "saved", Exec(a) \notin torn
      PROVE  /\ Working(Exec(a)) = {a} /\ amending[Exec(a)] = "no"
             /\ row[Exec(a)] \notin {"new", "waiting", "success", "error"}
  <2>1. a \in Working(Exec(a)) /\ Exec(a) \in Execs \ torn
    BY <1>1, <1>3 DEF Working
  <2> QED BY <1>0, <2>1 DEF Parts, WorkersAlone, AmendsApart
<1> QED BY <1>1, <1>2, <1>3

\* What crash recovery is about to write stays apart in a step about another execution,
\* or about one that is torn by then.
LEMMA AmendsElsewhere ==
  ASSUME IInv, NEW f \in Execs, amending[f] = "no" \/ f \in torn',
         UNCHANGED <<startup, unfinished, amending, amended, leftovers>>,
         slept \subseteq slept', torn \subseteq torn', startup = "unread" => torn' = {},
         \A b \in Attempts : at[b] \in {"idle", "done"} => at'[b] = at[b] \/ Kind(b) = "fresh",
         at[Fresh(f)] \notin {"idle", "created", "queued"} =>
           /\ at'[Fresh(f)] \notin {"idle", "created", "queued"}
           /\ row[f] # "new" => row'[f] # "new",
         reserved' \subseteq Attempts,
         \A e \in Execs : e # f => row'[e] = row[e] /\ active'[e] = active[e],
         \A b \in Attempts : Exec(b) # f => at'[b] = at[b] /\ (b \in reserved' => b \in reserved)
  PROVE  AmendsApart'
<1>0. Typed /\ Parts
  BY Unfolded
<1>1. startup' # "recovering" => unfinished' = {} /\ \A e \in Execs : amending'[e] = "no"
  BY <1>0 DEF Parts, AmendsApart
<1>2. ASSUME NEW e \in Execs
      PROVE  /\ e \in unfinished' \/ amending'[e] # "no" =>
                  at'[Fresh(e)] \notin {"idle", "created", "queued"} /\ row'[e] # "new"
             /\ e \in amended' => amending'[e] \notin {"no", "marked"}
  BY <1>0, AttemptsByKind DEF Parts, AmendsApart
<1>3. ASSUME NEW e \in Execs \ torn', amending'[e] # "no"
      PROVE  /\ Working(e)' = {}
             /\ row'[e] \in {"success", "error"} => amending'[e] \in {"marked", row'[e]}
             /\ amending'[e] = "waiting" =>
                  /\ Attached(e)' => Waits(e)'
                  /\ \A b \in reserved' : Exec(b) = e => e \in slept'
  <2>1. e # f /\ e \in Execs \ torn /\ amending[e] # "no"
    BY <1>3
  <2>2. /\ Working(e) = {}
        /\ row[e] \in {"success", "error"} => amending[e] \in {"marked", row[e]}
        /\ amending[e] = "waiting" =>
             /\ Attached(e) => Waits(e)
             /\ \A b \in reserved : Exec(b) = e => e \in slept
    BY <1>0, <2>1 DEF Parts, AmendsApart
  <2>3. Working(e)' = {}
    BY <2>1, <2>2 DEF Working
  <2> QED BY <2>1, <2>2, <2>3 DEF Attached, Waits
<1>4. startup' = "unread" =>
        torn' = {} /\ leftovers' = {} /\ \A b \in OnTheirWay' : Kind(b) # "recover"
  BY <1>0 DEF Parts, AmendsApart, OnTheirWay
<1> QED BY <1>1, <1>2, <1>3, <1>4 DEF AmendsApart

\* So it does in a step by which nothing begins to work, no slot is reserved, and a row
\* changes to no outcome.
LEMMA AmendsStay ==
  ASSUME IInv, UNCHANGED <<startup, unfinished, amending, amended, torn, slept>>,
         reserved' \subseteq reserved, leftovers' \subseteq leftovers,
         \A b \in Attempts : at[b] = "idle" /\ Kind(b) = "recover" /\ startup = "unread" =>
           at'[b] = "idle",
         \A e \in Execs : row'[e] = row[e] \/ row'[e] \notin {"new", "success", "error"},
         \A e \in Execs : active'[e] # None =>
           active[e] # None /\ active'[e].status = active[e].status,
         \A b \in Attempts : \/ at'[b] \in {at[b], "done"}
                              \/ {at[b], at'[b]} \subseteq {"idle", "created", "queued"}
  PROVE  AmendsApart'
<1>0. Typed /\ Parts
  BY Unfolded
<1>1. /\ startup' = "unread" =>
           torn' = {} /\ leftovers' = {} /\ \A b \in OnTheirWay' : Kind(b) # "recover"
      /\ startup' # "recovering" => unfinished' = {} /\ \A e \in Execs : amending'[e] = "no"
  BY <1>0 DEF Parts, AmendsApart, OnTheirWay
<1>2. ASSUME NEW e \in Execs
      PROVE  /\ e \in unfinished' \/ amending'[e] # "no" =>
                  at'[Fresh(e)] \notin {"idle", "created", "queued"} /\ row'[e] # "new"
             /\ e \in amended' => amending'[e] \notin {"no", "marked"}
  BY <1>0, AttemptsByKind DEF Parts, AmendsApart
<1>3. ASSUME NEW e \in Execs \ torn', amending'[e] # "no"
      PROVE  /\ Working(e)' = {}
             /\ row'[e] \in {"success", "error"} => amending'[e] \in {"marked", row'[e]}
             /\ amending'[e] = "waiting" =>
                  /\ Attached(e)' => Waits(e)'
                  /\ \A b \in reserved' : Exec(b) = e => e \in slept'
  <2>1. /\ Working(e) = {}
        /\ row[e] \in {"success", "error"} => amending[e] \in {"marked", row[e]}
        /\ amending[e] = "waiting" =>
             /\ Attached(e) => Waits(e)
             /\ \A b \in reserved : Exec(b) = e => e \in slept
    BY <1>0, <1>3 DEF Parts, AmendsApart
  <2>2. Working(e)' = {}
    BY <2>1 DEF Working
  <2> QED BY <2>1, <2>2 DEF Attached, Waits
<1> QED BY <1>1, <1>2, <1>3 DEF AmendsApart

\* A step that leaves the slots and the queue alone.
LEMMA QueueRests ==
  ASSUME IInv, UNCHANGED <<capacity, queue, granted, enabled, reserved>>, SameQueued
  PROVE  QueueAdvances
BY Unfolded, QueueStill DEF SameQueued, QueueAdvances, queueVars, IInv, TypeOK

\* Settling the open promise of an entry gives its slot back.
LEMMA Settling ==
  ASSUME IInv, NEW e \in Execs, Attached(e), active[e].open, Settle(e), enabled' = enabled,
         SameQueued
  PROVE  QueueAdvances
<1>0. Typed /\ Parts
  BY Unfolded
<1> DEFINE b == active[e].by
<1>1. b \in reserved /\ at[b] # "queued" /\ reserved' = reserved \ {b} /\ GiveBack
  BY <1>0 DEF Parts, EntriesConsistent, Attached, Settle
<1>2. QueueMoves({}, IF enabled THEN 1 ELSE 0) /\ {} \in SUBSET ToSet(queue)
  BY <1>0, <1>1, GivingBack DEF Parts
<1>3. {b} \in SUBSET InUse /\ Single({b})
  BY <1>1 DEF InUse, Single
<1>4. reserved' \cup {a \in granted : at'[a] = "queued"} = InUse \ {b}
  BY <1>0, <1>1 DEF InUse, Typed, SameQueued
<1>5. \A a \in ToSet(queue) : at'[a] = "queued"
  BY <1>0 DEF Parts, Typed, QueueConsistent, SameQueued
<1>6. \A a \in granted : at'[a] \notin {"idle", "created"}
  BY DEF SameQueued
<1> HIDE DEF b
<1>7. /\ QueueConsistent' /\ SlotsAccounted' /\ capacity' <= Limit
      /\ capacity' \in Int /\ queue' \in Seq(Attempts)
      /\ granted \subseteq granted' /\ granted' \subseteq granted \cup ToSet(queue)
      /\ ToSet(queue') \subseteq ToSet(queue) \ {}
  BY <1>2, <1>3, <1>4, <1>5, <1>6, QueueMoved
<1> QED BY <1>7 DEF QueueAdvances

\* finalizeExecution settles the promise of the entry, or finds nothing to settle.
LEMMA Finalizing ==
  ASSUME IInv, NEW e \in Execs, Finalize(e), SameQueued
  PROVE  /\ QueueAdvances
         /\ UNCHANGED <<enabled, cancelled, hooking>>
         /\ active' \in [Execs -> Entry \cup {None}]
         /\ \A f \in Execs : f # e => active'[f] = active[f]
         /\ \/ /\ active'[e] = active[e] /\ reserved' = reserved
               /\ active[e] # None => ~active[e].open
            \/ /\ active[e] # None /\ active[e].open
               /\ reserved' = reserved \ {active[e].by}
               /\ \/ active[e].status # "waiting" /\ active'[e] = None
                  \/ /\ active[e].status = "waiting" /\ active'[e] # None
                     /\ active'[e].by = active[e].by /\ active'[e].wf = None
                     /\ active'[e].status = "waiting" /\ active'[e].open = FALSE
<1>0. Typed /\ Parts
  BY Unfolded
<1>1. CASE Attached(e) /\ active[e].open
  <2> DEFINE left == [active[e] EXCEPT !.wf = None, !.open = FALSE]
  <2>1. Settle(e) /\ UNCHANGED <<enabled, cancelled, hooking>>
    BY <1>1 DEF Finalize
  <2>2. QueueAdvances
    BY <1>1, <2>1, Settling
  <2>3. left \in Entry /\ left.by = active[e].by /\ left.wf = None
        /\ left.status = active[e].status
        /\ left.open = FALSE
    BY <1>0, <1>1 DEF Typed, Entry, Attached
  <2> HIDE DEF left
  <2>4. /\ active' = [active EXCEPT ![e] = IF active[e].status = "waiting" THEN left ELSE None]
        /\ reserved' = reserved \ {active[e].by}
    BY <2>1 DEF Settle, left
  <2>5. active' \in [Execs -> Entry \cup {None}]
        /\ active'[e] = (IF active[e].status = "waiting" THEN left ELSE None)
        /\ \A f \in Execs : f # e => active'[f] = active[f]
    BY <1>0, <2>3, <2>4 DEF Typed
  <2> QED BY <1>0, <1>1, <2>1, <2>2, <2>3, <2>4, <2>5, NoneIsNoEntry DEF Attached, Typed
<1>2. CASE ~(Attached(e) /\ active[e].open)
  <2>1. UNCHANGED <<capacity, queue, granted, reserved, active, enabled, cancelled, hooking>>
    BY <1>2 DEF Finalize, queueVars
  <2> QED BY <1>0, <1>2, <2>1, QueueRests DEF Attached, Typed
<1> QED BY <1>1, <1>2

\* stopExecution takes the entry out of the map; one that waited keeps its slot.
LEMMA StoppingTheEntry ==
  ASSUME IInv, NEW e \in Execs, StopEntry(e, Pending), SameQueued
  PROVE  /\ QueueAdvances
         /\ enabled' = enabled
         /\ active' \in [Execs -> Entry \cup {None}]
         /\ active'[e] = None /\ \A f \in Execs : f # e => active'[f] = active[f]
         /\ \/ /\ active[e] # None => active[e].status = "waiting"
               /\ reserved' = reserved
            \/ active[e] # None /\ reserved' = reserved \ {active[e].by}
         /\ cancelled' = cancelled \cup ToCancel(e, Pending)
         /\ cancelled' \subseteq Attempts /\ hooking' \subseteq Attempts
<1>0. Typed /\ Parts
  BY Unfolded
<1>1. /\ enabled' = enabled /\ cancelled' = cancelled \cup ToCancel(e, Pending)
      /\ cancelled' \subseteq Attempts /\ hooking' \subseteq Attempts
  BY <1>0 DEF StopEntry, ToCancel, Pending, Parts, TypeOK
<1>2. CASE Attached(e) /\ ~Waits(e)
  <2>1. Settle(e) /\ active[e].open
    BY <1>0, <1>2 DEF StopEntry, Parts, EntriesConsistent
  <2>2. QueueAdvances
    BY <1>1, <1>2, <2>1, Settling
  <2>3. active' = [active EXCEPT ![e] = None] /\ reserved' = reserved \ {active[e].by}
    BY <1>2, <2>1 DEF Settle, Waits
  <2>4. active' \in [Execs -> Entry \cup {None}] /\ active'[e] = None
        /\ \A f \in Execs : f # e => active'[f] = active[f]
    BY <1>0, <2>3 DEF Typed
  <2> QED BY <1>1, <1>2, <2>2, <2>3, <2>4 DEF Attached
<1>3. CASE ~(Attached(e) /\ ~Waits(e))
  <2>1. /\ active' = [active EXCEPT ![e] = None]
        /\ UNCHANGED <<capacity, queue, granted, reserved, enabled>>
    BY <1>1, <1>3 DEF StopEntry, queueVars
  <2>2. active' \in [Execs -> Entry \cup {None}] /\ active'[e] = None
        /\ \A f \in Execs : f # e => active'[f] = active[f]
    BY <1>0, <2>1 DEF Typed
  <2> QED BY <1>1, <1>3, <2>1, <2>2, QueueRests DEF Attached, Waits
<1> QED BY <1>2, <1>3

\* Unqueue takes an attempt off that will not be granted a slot, if one is queued.
LEMMA TakingOff ==
  ASSUME IInv, NEW e \in Execs, Unqueue(e), UNCHANGED <<enabled, reserved, at>>
  PROVE  /\ QueueAdvances
         /\ IsQueued(e) => \E x \in ToSet(queue) :
              Exec(x) = e /\ x \notin granted' \cup ToSet(queue')
<1>0. Typed /\ Parts
  BY Unfolded
<1>1. SameQueued
  BY <1>0 DEF SameQueued, Parts, QueueConsistent
<1>2. CASE ~IsQueued(e) /\ UNCHANGED queueVars
  BY <1>1, <1>2, QueueRests DEF queueVars
<1>3. ASSUME NEW x \in ToSet(queue), Exec(x) = e, QueueMoves({x}, 0)
      PROVE  QueueAdvances /\ x \notin granted' \cup ToSet(queue')
  <2>1. {x} \in SUBSET ToSet(queue) /\ {} \in SUBSET InUse
    OBVIOUS
  <2>2. reserved' \cup {a \in granted : at'[a] = "queued"} = InUse \ {}
    BY DEF InUse
  <2>3. /\ \A a \in ToSet(queue) : at'[a] = "queued"
        /\ \A a \in granted : at'[a] \notin {"idle", "created"}
    BY <1>0 DEF Parts, QueueConsistent
  <2>4. /\ QueueConsistent' /\ SlotsAccounted' /\ capacity' <= Limit
        /\ capacity' \in Int /\ queue' \in Seq(Attempts)
        /\ granted \subseteq granted' /\ granted' \subseteq granted \cup ToSet(queue)
        /\ ToSet(queue') \subseteq ToSet(queue) \ {x} /\ {x} \cap granted' = {}
    BY <1>3, <2>1, <2>2, <2>3, QueueMoved
  <2> QED BY <2>4 DEF QueueAdvances
<1> QED BY <1>0, <1>2, <1>3, Unqueuing DEF Parts

-----------------------------------------------------------------------------
\* The steps, one by one.
\* A trigger creates an execution.
LEMMA Creating ==
  ASSUME IInv, NEW a \in Attempts, Create(a)
  PROVE  IInv'
<1>0. Typed /\ Parts
  BY Unfolded
<1>1. /\ Kind(a) = "fresh" /\ phase = "up"
      /\ at[a] = "idle"
      /\ at' \in [Attempts -> Places] /\ at'[a] = "created"
      /\ \A b \in Attempts : b # a => at'[b] = at[b]
      /\ row' \in [Execs -> Statuses] /\ row'[Exec(a)] = "new"
      /\ \A e \in Execs : e # Exec(a) => row'[e] = row[e]
      /\ UNCHANGED <<capacity, queue, granted, enabled, reserved, active, cancelled, hooking,
                     timed, giveUp, slept, torn, stopping, stopped, deleting, timers, phase,
                     startup, unfinished, amending, amended, leftovers>>
      /\ events' \in 0..MaxEvents
  BY <1>0, AttemptsByKind, MaxEventsIsNat DEF Typed, Parts, TypeOK, Create, Serving, Step, Go,
     Statuses, Places, Spend, queueVars, entryVars, runVars, requestVars, processVars, history,
     startVars
<1>a. /\ \A b \in Attempts : Exec(b) = Exec(a) => at[b] = "idle" /\ b \notin reserved
      /\ a = Fresh(Exec(a)) /\ Exec(a) \in Execs /\ Exec(a) \notin timers \cup leftovers
      /\ row[Exec(a)] = "absent" /\ stopping[Exec(a)] = "no" /\ stopped[Exec(a)] = "no"
      /\ active[Exec(a)] = None
      /\ Exec(a) \notin unfinished /\ amending[Exec(a)] = "no"
  <2>1. a = Fresh(Exec(a)) /\ Exec(a) \in Execs
    BY <1>1, AttemptsByKind
  <2>2. /\ \A b \in Attempts : Exec(b) = Exec(a) => at[b] = "idle"
        /\ Exec(a) \notin timers \cup leftovers
        /\ row[Exec(a)] = "absent" /\ stopping[Exec(a)] = "no" /\ stopped[Exec(a)] = "no"
    BY <1>0, <1>1, <2>1 DEF Parts, FreshFirst, NothingBefore
  <2>3. \A b \in Attempts : Exec(b) = Exec(a) => b \notin reserved
    BY <1>0, <2>2 DEF Parts, SlotsTraced
  <2>4. active[Exec(a)] = None
    BY <1>0, <2>1, <2>2 DEF Typed, Parts, EntriesConsistent, Attached
  <2>5. Exec(a) \notin unfinished /\ amending[Exec(a)] = "no"
    BY <1>0, <1>1, <2>1 DEF Parts, AmendsApart
  <2> QED BY <2>1, <2>2, <2>3, <2>4, <2>5
<1>2. QueueConsistent' /\ SlotsAccounted' /\ capacity' <= Limit
  BY <1>0, <1>1, QueueStill DEF Typed, Parts, QueueConsistent, queueVars
<1>3. TypeOK'
  BY <1>0, <1>1, <1>a, AttemptsByKind, <1>2, MaxEventsIsNat
     DEF Typed, Parts, TypeOK, Statuses, Places
<1>4. SlotsTraced'
  BY <1>0, <1>1, <1>a, AttemptsByKind DEF Typed, Parts, SlotsTraced, Registered, Attached
<1>5. EntriesConsistent'
  BY <1>0, <1>1, <1>a, AttemptsByKind DEF Typed, Parts, EntriesConsistent, Attached, Waits
<1>6. WorkersAlone'
  BY <1>0, <1>1, <1>a, AttemptsByKind DEF Typed, Parts, WorkersAlone, Working
<1>7. FreshFirst'
  <2>1. NothingBefore'
    BY <1>0, <1>1, <1>a, AttemptsByKind DEF Typed, Parts, FreshFirst, NothingBefore
  <2>2. Unclaimed(Exec(a))'
    BY <1>1, <1>a, AttemptsByKind DEF Unclaimed
  <2>3. \A e \in Execs : e # Exec(a) /\ Unclaimed(e) => Unclaimed(e)'
    BY <1>1 DEF Unclaimed
  <2>4. \A e \in Execs :
          /\ row'[e] = "new" => Unclaimed(e)'
          /\ at'[Fresh(e)] \in {"created", "queued"} /\ e \notin torn' =>
               Unclaimed(e)' /\ row'[e] \in {"new", "canceled", "absent"}
    BY <1>0, <1>1, <1>a, <2>2, <2>3, AttemptsByKind DEF Parts, FreshFirst
  <2>5. \A b \in giveUp' : at'[Fresh(Exec(b))] \in {"created", "queued"} => Exec(b) \in torn'
    <3>1. \A b \in giveUp : b \in Attempts /\ Exec(b) # Exec(a)
      BY <1>0, <1>1, <1>a DEF Typed, Parts, FreshFirst, NothingBefore
    <3> QED BY <1>0, <1>1, <1>a, <3>1, AttemptsByKind DEF Parts, FreshFirst
  <2> QED BY <1>1, <2>1, <2>4, <2>5 DEF FreshFirst
<1>8. CaughtForGood'
  BY <1>0, <1>1, <1>a, AttemptsByKind DEF Typed, Parts, CaughtForGood, Dropped
<1>9. CaughtStopsHold'
  BY <1>0, <1>1, <1>a, AttemptsByKind DEF Typed, Parts, CaughtStopsHold
<1>10. AmendsApart'
  <2>1. startup = "unread" => torn' = {}
    BY <1>0, <1>1 DEF Parts, AmendsApart
  <2> QED BY <1>0, <1>1, <1>a, <2>1, AttemptsByKind, AmendsElsewhere DEF Typed
<1> QED BY <1>2, <1>3, <1>4, <1>5, <1>6, <1>7, <1>8, <1>9, <1>10 DEF IInv

\* A timer of the wait tracker resumes an execution, or finds it gone.
LEMMA ResumingByTimer ==
  ASSUME IInv, NEW a \in Attempts, ResumeByTimer(a)
  PROVE  IInv'
<1>0. Typed /\ Parts
  BY Unfolded
<1>1. /\ Kind(a) = "resume" /\ phase = "up" /\ at[a] = "idle" /\ Exec(a) \in timers
      /\ at' \in [Attempts -> Places] /\ at'[a] \in {"idle", "created"}
      /\ \A b \in Attempts : b # a => at'[b] = at[b]
      /\ timers' = timers \ {Exec(a)} /\ events' \in 0..MaxEvents
      /\ UNCHANGED <<capacity, queue, granted, enabled, reserved, active, cancelled, hooking, row,
                     timed, giveUp, slept, torn, stopping, stopped, deleting, phase, startup,
                     unfinished, amending, amended, leftovers>>
  BY <1>0, AttemptsByKind, MaxEventsIsNat DEF Typed, ResumeByTimer, TypeOK, Parts, Serving, Step,
     Go, Statuses, Places, Spend, queueVars, entryVars, runVars, requestVars, processVars,
     history, startVars
<1>a. /\ a # Fresh(Exec(a)) /\ Exec(a) \in Execs /\ at[Fresh(Exec(a))] # "idle"
      /\ at[Fresh(Exec(a))] \in {"created", "queued"} => Exec(a) \in torn
      /\ row[Exec(a)] # "new"
  <2>1. a # Fresh(Exec(a)) /\ Exec(a) \in Execs
    BY <1>1, AttemptsByKind
  <2>2. at[Fresh(Exec(a))] # "idle"
    BY <1>0, <1>1, <2>1 DEF Parts, FreshFirst, NothingBefore
  <2> QED BY <1>0, <1>1, <2>1, <2>2 DEF Parts, FreshFirst, Unclaimed
<1>2. QueueConsistent' /\ SlotsAccounted' /\ capacity' <= Limit
  BY <1>0, <1>1, QueueStill DEF Typed, Parts, QueueConsistent, queueVars
<1>3. TypeOK'
  BY <1>0, <1>1, <1>a, AttemptsByKind, <1>2, MaxEventsIsNat
     DEF Typed, Parts, TypeOK, Statuses, Places
<1>4. SlotsTraced'
  BY <1>0, <1>1, <1>a, AttemptsByKind DEF Typed, Parts, SlotsTraced, Registered, Attached
<1>5. EntriesConsistent'
  BY <1>0, <1>1, <1>a, AttemptsByKind DEF Typed, Parts, EntriesConsistent, Attached, Waits
<1>6. WorkersAlone'
  BY <1>0, <1>1, <1>a, AttemptsByKind DEF Typed, Parts, WorkersAlone, Working
<1>7. FreshFirst'
  BY <1>0, <1>1, <1>a, AttemptsByKind
     DEF Typed, Parts, FreshFirst, NothingBefore, Unclaimed, OnTheirWay
<1>8. CaughtForGood'
  BY <1>0, <1>1, <1>a, AttemptsByKind DEF Typed, Parts, CaughtForGood, Dropped
<1>9. CaughtStopsHold'
  BY <1>0, <1>1, <1>a, AttemptsByKind DEF Typed, Parts, CaughtStopsHold
<1>10. AmendsApart'
  BY <1>0, <1>1, <1>a, AttemptsByKind, AmendsStay DEF Typed, Waits, Attached
<1> QED BY <1>2, <1>3, <1>4, <1>5, <1>6, <1>7, <1>8, <1>9, <1>10 DEF IInv

\* A request resumes an execution that waits.
LEMMA ResumingByWebhook ==
  ASSUME IInv, NEW a \in Attempts, ResumeByWebhook(a)
  PROVE  IInv'
<1>0. Typed /\ Parts
  BY Unfolded
<1>1. /\ Kind(a) = "resume" /\ phase = "up" /\ row[Exec(a)] = "waiting"
      /\ at[a] = "idle"
      /\ at' \in [Attempts -> Places] /\ at'[a] = "created"
      /\ \A b \in Attempts : b # a => at'[b] = at[b]
      /\ events' \in 0..MaxEvents
      /\ UNCHANGED <<capacity, queue, granted, enabled, reserved, active, cancelled, hooking, row,
                     timed, giveUp, slept, torn, stopping, stopped, deleting, timers, phase,
                     startup, unfinished, amending, amended, leftovers>>
  BY <1>0, AttemptsByKind, MaxEventsIsNat DEF Typed, ResumeByWebhook, TypeOK, Parts, Serving,
     Step, Go, Statuses, Places, Spend, queueVars, entryVars, runVars, requestVars, processVars,
     history, startVars
<1>a. /\ a # Fresh(Exec(a)) /\ Exec(a) \in Execs /\ at[Fresh(Exec(a))] # "idle"
      /\ at[Fresh(Exec(a))] \in {"created", "queued"} => Exec(a) \in torn
  <2>1. a # Fresh(Exec(a)) /\ Exec(a) \in Execs
    BY <1>1, AttemptsByKind
  <2>2. at[Fresh(Exec(a))] # "idle"
    BY <1>0, <1>1, <2>1 DEF Parts, FreshFirst, NothingBefore
  <2> QED BY <1>0, <1>1, <2>1, <2>2 DEF Parts, FreshFirst
<1>2. QueueConsistent' /\ SlotsAccounted' /\ capacity' <= Limit
  BY <1>0, <1>1, QueueStill DEF Typed, Parts, QueueConsistent, queueVars
<1>3. TypeOK'
  BY <1>0, <1>1, <1>a, AttemptsByKind, <1>2, MaxEventsIsNat
     DEF Typed, Parts, TypeOK, Statuses, Places
<1>4. SlotsTraced'
  BY <1>0, <1>1, <1>a, AttemptsByKind DEF Typed, Parts, SlotsTraced, Registered, Attached
<1>5. EntriesConsistent'
  BY <1>0, <1>1, <1>a, AttemptsByKind DEF Typed, Parts, EntriesConsistent, Attached, Waits
<1>6. WorkersAlone'
  BY <1>0, <1>1, <1>a, AttemptsByKind DEF Typed, Parts, WorkersAlone, Working
<1>7. FreshFirst'
  BY <1>0, <1>1, <1>a, AttemptsByKind
     DEF Typed, Parts, FreshFirst, NothingBefore, Unclaimed, OnTheirWay
<1>8. CaughtForGood'
  BY <1>0, <1>1, <1>a, AttemptsByKind DEF Typed, Parts, CaughtForGood, Dropped
<1>9. CaughtStopsHold'
  BY <1>0, <1>1, <1>a, AttemptsByKind DEF Typed, Parts, CaughtStopsHold
<1>10. AmendsApart'
  BY <1>0, <1>1, <1>a, AttemptsByKind, AmendsStay DEF Typed, Waits, Attached
<1> QED BY <1>2, <1>3, <1>4, <1>5, <1>6, <1>7, <1>8, <1>9, <1>10 DEF IInv

\* The recovery of an execution that was never started.
LEMMA Recovering ==
  ASSUME IInv, NEW a \in Attempts, Recover(a)
  PROVE  IInv'
<1>0. Typed /\ Parts
  BY Unfolded
<1>1. /\ Kind(a) = "recover" /\ Exec(a) \in leftovers
      /\ at[a] = "idle"
      /\ at' \in [Attempts -> Places] /\ at'[a] = "created"
      /\ \A b \in Attempts : b # a => at'[b] = at[b]
      /\ leftovers' = leftovers \ {Exec(a)}
      /\ UNCHANGED <<capacity, queue, granted, enabled, reserved, active, cancelled, hooking, row,
                     timed, giveUp, slept, torn, stopping, stopped, deleting, timers, phase,
                     startup, unfinished, amending, amended, events>>
  BY <1>0, AttemptsByKind, MaxEventsIsNat DEF Typed, Recover, Serving, Step, Go, Statuses, Places,
     Spend, queueVars, entryVars, runVars, requestVars, processVars, history, startVars
<1>a. /\ at[Fresh(Exec(a))] # "idle" /\ a # Fresh(Exec(a)) /\ Exec(a) \in Execs
      /\ stopping[Exec(a)] # "caught" /\ startup # "unread" /\ phase # "down"
  BY <1>0, <1>1, AttemptsByKind
     DEF Parts, FreshFirst, NothingBefore, AmendsApart, CaughtForGood, Typed
<1>2. QueueConsistent' /\ SlotsAccounted' /\ capacity' <= Limit
  BY <1>0, <1>1, QueueStill DEF Typed, Parts, QueueConsistent, queueVars
<1>3. TypeOK'
  BY <1>0, <1>1, <1>a, AttemptsByKind, <1>2, MaxEventsIsNat
     DEF Typed, Parts, TypeOK, Statuses, Places
<1>4. SlotsTraced'
  BY <1>0, <1>1, <1>a, AttemptsByKind DEF Typed, Parts, SlotsTraced, Registered, Attached
<1>5. EntriesConsistent'
  BY <1>0, <1>1, <1>a, AttemptsByKind DEF Typed, Parts, EntriesConsistent, Attached, Waits
<1>6. WorkersAlone'
  BY <1>0, <1>1, <1>a, AttemptsByKind DEF Typed, Parts, WorkersAlone, Working
<1>7. FreshFirst'
  BY <1>0, <1>1, <1>a, AttemptsByKind
     DEF Typed, Parts, FreshFirst, NothingBefore, Unclaimed, OnTheirWay
<1>8. CaughtForGood'
  BY <1>0, <1>1, <1>a, AttemptsByKind DEF Typed, Parts, CaughtForGood, Dropped
<1>9. CaughtStopsHold'
  BY <1>0, <1>1, <1>a, AttemptsByKind DEF Typed, Parts, CaughtStopsHold
<1>10. AmendsApart'
  BY <1>0, <1>1, <1>a, AttemptsByKind, AmendsStay DEF Typed, Waits, Attached
<1> QED BY <1>2, <1>3, <1>4, <1>5, <1>6, <1>7, <1>8, <1>9, <1>10 DEF IInv

\* An attempt asks for a slot.
LEMMA Reserving ==
  ASSUME IInv, NEW a \in Attempts, Reserve(a)
  PROVE  IInv'
<1>0. Typed /\ Parts
  BY Unfolded
<1>1. /\ at[a] = "created"
      /\ at' \in [Attempts -> Places] /\ at'[a] = "queued"
      /\ \A b \in Attempts : b # a => at'[b] = at[b]
      /\ Throttle(a) /\ enabled' = enabled /\ reserved' = reserved
      /\ UNCHANGED <<active, cancelled, hooking, row, timed, giveUp, slept, torn, stopping,
                     stopped, deleting, timers, phase, startup, unfinished, amending, amended,
                     leftovers, events>>
  BY <1>0, AttemptsByKind, MaxEventsIsNat DEF Typed, Reserve, entryVars, Serving, Step, Go,
     Statuses, Places, Spend, queueVars, runVars, requestVars, processVars, history, startVars
<1>a. /\ a \notin granted \cup ToSet(queue) \cup reserved
      /\ IsInjective(queue) /\ queue \in Seq(Attempts) /\ capacity \in Int
  BY <1>0, <1>1 DEF Parts, QueueConsistent, SlotsTraced, TypeOK
<1>b. /\ queue' \in Seq(Attempts) /\ IsInjective(queue') /\ capacity' \in Int
      /\ capacity' <= Limit
      /\ enabled => capacity' = capacity - 1
      /\ \/ granted' = granted \cup {a} /\ queue' = queue
         \/ /\ granted' = granted /\ ToSet(queue') = ToSet(queue) \cup {a}
            /\ Len(queue') = Len(queue) + 1
  <2>1. CASE enabled
    <3>1. /\ capacity' = capacity - 1 /\ queue' \in Seq(Attempts) /\ IsInjective(queue')
          /\ \/ /\ capacity > 0 /\ queue' = queue /\ granted' = granted \cup {a}
             \/ /\ capacity <= 0 /\ granted' = granted
                /\ Len(queue') = Len(queue) + 1 /\ ToSet(queue') = ToSet(queue) \cup {a}
      BY <1>1, <1>a, <2>1, Enqueuing DEF Throttle
    <3>2. capacity - 1 \in Int /\ capacity - 1 <= Limit
      BY <1>0, LimitIsPositive DEF Parts, TypeOK
    <3> QED BY <3>1, <3>2
  <2>2. CASE ~enabled
    BY <1>0, <1>1, <1>a, <2>2 DEF Throttle, Parts, TypeOK
  <2> QED BY <2>1, <2>2
<1>2. QueueConsistent' /\ SlotsAccounted' /\ capacity' <= Limit
  <2>1. QueueConsistent'
    BY <1>0, <1>1, <1>a, <1>b DEF Parts, Typed, QueueConsistent
  <2>2. /\ InUse \in SUBSET Attempts /\ a \notin InUse /\ Len(queue) \in Nat
        /\ enabled => capacity + Len(queue) + Cardinality(InUse) = Limit
        /\ Cardinality(InUse) \in Nat /\ Cardinality(InUse \cup {a}) = Cardinality(InUse) + 1
    <3>1. InUse \in SUBSET Attempts /\ a \notin InUse
      BY <1>0, <1>a DEF Typed, InUse
    <3> QED BY <1>0, <1>a, <3>1, Counting DEF Parts, SlotsAccounted
  <2>3. CASE granted' = granted \cup {a} /\ queue' = queue
    <3>1. InUse' = InUse \cup {a}
      BY <1>0, <1>1, <1>a, <2>3 DEF InUse, Typed
    <3>2. enabled => capacity' = capacity - 1
      BY <1>a, <1>b, <2>3
    <3> QED BY <1>1, <1>a, <1>b, <2>1, <2>2, <2>3, <3>1, <3>2, LimitIsPositive DEF SlotsAccounted
  <2>4. CASE granted' = granted
    <3>1. InUse' = InUse
      BY <1>0, <1>1, <1>a, <2>4 DEF InUse, Typed
    <3>2. enabled => capacity' = capacity - 1 /\ Len(queue') = Len(queue) + 1
      BY <1>a, <1>b, <2>4
    <3> QED BY <1>1, <1>a, <1>b, <2>1, <2>2, <2>4, <3>1, <3>2, LimitIsPositive DEF SlotsAccounted
  <2> QED BY <1>b, <2>3, <2>4
<1>3. TypeOK'
  BY <1>0, <1>1, <1>b, <1>2 DEF Typed, Parts, TypeOK
<1>4. SlotsTraced'
  BY <1>0, <1>1, <1>a, AttemptsByKind DEF Typed, Parts, SlotsTraced, Registered, Attached
<1>5. EntriesConsistent'
  BY <1>0, <1>1, <1>a, AttemptsByKind DEF Typed, Parts, EntriesConsistent, Attached, Waits
<1>6. WorkersAlone'
  BY <1>0, <1>1, <1>a, AttemptsByKind DEF Typed, Parts, WorkersAlone, Working
<1>7. FreshFirst'
  BY <1>0, <1>1, <1>a, AttemptsByKind
     DEF Typed, Parts, FreshFirst, NothingBefore, Unclaimed, OnTheirWay
<1>8. CaughtForGood'
  <2>1. \A b \in Attempts : b # a /\ Dropped(b) => Dropped(b)'
    BY <1>1, <1>b DEF Dropped
  <2>2. ~Dropped(a)
    BY <1>1 DEF Dropped
  <2> QED BY <1>0, <1>1, <2>1, <2>2, AttemptsByKind DEF Typed, Parts, CaughtForGood
<1>9. CaughtStopsHold'
  BY <1>0, <1>1, <1>a, AttemptsByKind DEF Typed, Parts, CaughtStopsHold
<1>10. AmendsApart'
  BY <1>0, <1>1, <1>a, AttemptsByKind, AmendsStay DEF Typed, Waits, Attached
<1> QED BY <1>2, <1>3, <1>4, <1>5, <1>6, <1>7, <1>8, <1>9, <1>10 DEF IInv

\* An attempt with a slot takes the row.
LEMMA ClaimingFor ==
  ASSUME IInv, NEW a \in Attempts, a \in granted, at[a] = "queued", Go(a, Started(a)),
         Kind(a) = "fresh" \/ row[Exec(a)] = Expected(a), SetRow(Exec(a), "running"),
         reserved' = reserved \cup {a}, UNCHANGED queueVars,
         torn' = IF Tears(a) THEN torn \cup {Exec(a)} ELSE torn,
         UNCHANGED <<enabled, active, cancelled, hooking>>,
         UNCHANGED <<timed, giveUp, slept, requestVars, processVars, events>>
  PROVE  IInv'
<1>0. Typed /\ Parts
  BY Unfolded
<1>1. /\ at[a] = "queued" /\ a \in granted
      /\ at' \in [Attempts -> Places] /\ at'[a] \in {"taken", "claimed"}
      /\ \A b \in Attempts : b # a => at'[b] = at[b]
      /\ row' \in [Execs -> Statuses] /\ row'[Exec(a)] \in {"running", "absent"}
      /\ \A e \in Execs : e # Exec(a) => row'[e] = row[e]
      /\ row[Exec(a)] = "absent" => row'[Exec(a)] = "absent"
      /\ reserved' = reserved \cup {a}
      /\ torn \subseteq torn' /\ torn' \subseteq torn \cup {Exec(a)} /\ torn' \subseteq Execs
      /\ Tears(a) => Exec(a) \in torn'
      /\ UNCHANGED <<capacity, queue, granted, enabled, active, cancelled, hooking, timed, giveUp,
                     slept, stopping, stopped, deleting, timers, phase, startup, unfinished,
                     amending, amended, leftovers, events>>
  BY <1>0, AttemptsByKind, MaxEventsIsNat DEF Typed, SetRow, Started, Serving, Step, Go, Statuses,
     Places, Spend, queueVars, entryVars, runVars, requestVars, processVars, startVars, history
<1>a. /\ Exec(a) \in Execs /\ a \notin reserved /\ ~Registered(a)
      /\ at[Fresh(Exec(a))] # "idle" /\ phase # "down" /\ row'[Exec(a)] # "new"
  <2>1. Exec(a) \in Execs /\ a \notin reserved /\ row'[Exec(a)] # "new"
    BY <1>0, <1>1, AttemptsByKind DEF Parts, SlotsTraced
  <2>2. ~Registered(a)
    BY <1>0, <1>1, <2>1 DEF Parts, EntriesConsistent, Registered
  <2> QED BY <1>0, <1>1, <2>1, <2>2 DEF Parts, FreshFirst, NothingBefore, OnTheirWay
<1>b. Exec(a) \notin torn' =>
        /\ Working(Exec(a)) = {} /\ amending[Exec(a)] = "no"
        /\ at'[Fresh(Exec(a))] \notin {"created", "queued"}
        /\ \A b \in reserved : Exec(b) = Exec(a) => Exec(a) \in slept
  <2>1. CASE a = Fresh(Exec(a))
    <3>1. Exec(a) \notin torn' => Unclaimed(Exec(a))
      BY <1>0, <1>1, <1>a, <2>1 DEF Parts, FreshFirst
    <3> QED BY <1>0, <1>1, <1>a, <2>1, <3>1 DEF Working, Typed, Unclaimed, Tears
  <2>2. CASE a # Fresh(Exec(a))
    <3>1. Kind(a) # "fresh" /\ row[Exec(a)] \in {"waiting", "new"}
      BY <2>2, AttemptsByKind DEF Expected
    <3>2. Exec(a) \notin torn => Working(Exec(a)) = {}
      BY <1>0, <1>a, <3>1 DEF Parts, WorkersAlone
    <3>3. Exec(a) \notin torn =>
            \A b \in reserved : Exec(b) = Exec(a) => Exec(a) \in slept
      BY <1>0, <1>a, <3>1 DEF Parts, SlotsTraced
    <3>4. Exec(a) \notin torn' => at[Fresh(Exec(a))] \notin {"created", "queued"}
      <4>1. CASE Kind(a) = "recover"
        BY <1>1, <4>1 DEF Tears
      <4>2. CASE Kind(a) # "recover"
        <5>1. row[Exec(a)] = "waiting"
          BY <3>1, <4>2, AttemptsByKind DEF Expected
        <5> QED BY <1>0, <1>1, <1>a, <5>1 DEF Parts, FreshFirst
      <4> QED BY <4>1, <4>2
    <3> QED BY <1>1, <1>a, <2>2, <3>2, <3>3, <3>4, AttemptsByKind DEF Tears
  <2> QED BY <2>1, <2>2
<1>c. "caught" \notin {stopping[Exec(a)], stopped[Exec(a)]}
  <2>1. a = Fresh(Exec(a)) => ~("caught" \in {stopping[Exec(a)], stopped[Exec(a)]})
    BY <1>0, <1>1, <1>a DEF Parts, CaughtForGood, Dropped
  <2>2. Kind(a) # "fresh" => row[Exec(a)] \in {"waiting", "new"}
    BY DEF Expected
  <2> QED BY <1>0, <1>1, <1>a, <2>1, <2>2, AttemptsByKind
             DEF Parts, CaughtForGood, CaughtStopsHold, Dropped
<1>2. QueueConsistent' /\ SlotsAccounted' /\ capacity' <= Limit
  <2>1. InUse' = InUse
    BY <1>0, <1>1 DEF InUse, Typed
  <2> QED BY <1>0, <1>1, <2>1 DEF Parts, TypeOK, Typed, QueueConsistent, SlotsAccounted
<1>3. TypeOK'
  BY <1>0, <1>1, <1>a, AttemptsByKind, <1>2, MaxEventsIsNat
     DEF Typed, Parts, TypeOK, Statuses, Places
<1>4. SlotsTraced'
  BY <1>0, <1>1, <1>a, <1>b, AttemptsByKind DEF Typed, Parts, SlotsTraced, Registered, Attached
<1>5. EntriesConsistent'
  BY <1>0, <1>1, <1>a, AttemptsByKind DEF Typed, Parts, EntriesConsistent, Attached, Waits
<1>6. WorkersAlone'
  <2>1. \A e \in Execs : e # Exec(a) => Working(e)' = Working(e)
    BY <1>1 DEF Working
  <2>2. Exec(a) \notin torn' => Working(Exec(a))' = {a}
    BY <1>1, <1>b DEF Working
  <2> QED BY <1>0, <1>1, <1>a, <2>1, <2>2 DEF Parts, WorkersAlone
<1>7. FreshFirst'
  BY <1>0, <1>1, <1>a, <1>b, AttemptsByKind
     DEF Typed, Parts, FreshFirst, NothingBefore, Unclaimed, OnTheirWay
<1>8. CaughtForGood'
  BY <1>0, <1>1, <1>c DEF Typed, Parts, CaughtForGood, Dropped
<1>9. CaughtStopsHold'
  BY <1>0, <1>1, <1>c DEF Typed, Parts, CaughtStopsHold
<1>10. AmendsApart'
  <2>1. startup = "unread" => torn' = {}
    BY <1>0, <1>1, <1>a DEF Parts, AmendsApart, OnTheirWay, Tears
  <2> QED BY <1>0, <1>1, <1>a, <1>b, <2>1, AttemptsByKind, AmendsElsewhere DEF Typed
<1> QED BY <1>2, <1>3, <1>4, <1>5, <1>6, <1>7, <1>8, <1>9, <1>10 DEF IInv

\* The row was claimed by another, or it ended: the slot goes back.
LEMMA ClaimingInVain ==
  ASSUME IInv, NEW a \in Attempts, a \in granted, Step(a, "queued", "done"),
         Kind(a) # "fresh", GiveBack, UNCHANGED <<reserved, row>>,
         UNCHANGED <<enabled, active, cancelled, hooking>>,
         UNCHANGED <<timed, giveUp, slept, torn, requestVars, processVars, events>>
  PROVE  IInv'
<1>0. Typed /\ Parts
  BY Unfolded
<1>1. /\ at[a] = "queued"
      /\ at' \in [Attempts -> Places] /\ at'[a] = "done"
      /\ \A b \in Attempts : b # a => at'[b] = at[b]
      /\ a \in granted /\ a # Fresh(Exec(a)) /\ Exec(a) \in Execs /\ GiveBack
      /\ UNCHANGED <<enabled, reserved, active, cancelled, hooking, row, timed, giveUp, slept,
                     torn, stopping, stopped, deleting, timers, phase, startup, unfinished,
                     amending, amended, leftovers, events>>
  BY <1>0, AttemptsByKind, MaxEventsIsNat DEF Typed, Serving, Step, Go, Statuses, Places, Spend,
     queueVars, entryVars, runVars, requestVars, processVars, history, startVars
<1>a. at[Fresh(Exec(a))] # "idle" /\ a \notin reserved
  BY <1>0, <1>1, AttemptsByKind DEF Typed, Parts, FreshFirst, NothingBefore, SlotsTraced
<1>b. /\ QueueConsistent' /\ SlotsAccounted' /\ capacity' <= Limit
      /\ capacity' \in Int /\ queue' \in Seq(Attempts)
      /\ granted \subseteq granted' /\ granted' \subseteq granted \cup ToSet(queue)
      /\ ToSet(queue') \subseteq ToSet(queue)
  <2>1. QueueMoves({}, IF enabled THEN 1 ELSE 0) /\ {} \in SUBSET ToSet(queue)
    BY <1>0, <1>1, GivingBack DEF Parts
  <2>2. {a} \in SUBSET InUse /\ Single({a})
    BY <1>0, <1>1 DEF InUse, Typed, Single
  <2>3. reserved' \cup {b \in granted : at'[b] = "queued"} = InUse \ {a}
    BY <1>0, <1>1, <1>a DEF InUse, Typed
  <2>4. /\ \A b \in ToSet(queue) : at'[b] = "queued"
        /\ \A b \in granted : at'[b] \notin {"idle", "created"}
    BY <1>0, <1>1 DEF Typed, Parts, QueueConsistent
  <2> QED BY <1>0, <1>1, <2>1, <2>2, <2>3, <2>4, QueueMoved
<1>c. \A b \in Attempts : b # a /\ Dropped(b) => Dropped(b)'
  BY <1>1, <1>b DEF Dropped
<1>2. QueueConsistent' /\ SlotsAccounted' /\ capacity' <= Limit
  BY <1>b
<1>3. TypeOK'
  BY <1>0, <1>1, <1>b DEF Typed, Parts, TypeOK
<1>4. SlotsTraced'
  BY <1>0, <1>1, <1>a, AttemptsByKind DEF Typed, Parts, SlotsTraced, Registered, Attached
<1>5. EntriesConsistent'
  BY <1>0, <1>1, <1>a, AttemptsByKind DEF Typed, Parts, EntriesConsistent, Attached, Waits
<1>6. WorkersAlone'
  BY <1>0, <1>1, <1>a, AttemptsByKind DEF Typed, Parts, WorkersAlone, Working
<1>7. FreshFirst'
  BY <1>0, <1>1, <1>a, AttemptsByKind
     DEF Typed, Parts, FreshFirst, NothingBefore, Unclaimed, OnTheirWay
<1>8. CaughtForGood'
  BY <1>0, <1>1, <1>a, <1>c, AttemptsByKind DEF Typed, Parts, CaughtForGood
<1>9. CaughtStopsHold'
  BY <1>0, <1>1, <1>a, AttemptsByKind DEF Typed, Parts, CaughtStopsHold
<1>10. AmendsApart'
  BY <1>0, <1>1, <1>a, AttemptsByKind, AmendsStay DEF Typed, Waits, Attached
<1> QED BY <1>2, <1>3, <1>4, <1>5, <1>6, <1>7, <1>8, <1>9, <1>10 DEF IInv

\* setRunning, which asks for no status.
LEMMA BeginningToRun ==
  ASSUME IInv, NEW a \in Attempts, SetRunning(a)
  PROVE  IInv'
<1>0. Typed /\ Parts
  BY Unfolded
<1>1. /\ \/ at[a] = "taken" /\ at'[a] = "claimed"
         \/ at[a] = "registered" /\ at'[a] = "launching"
      /\ at' \in [Attempts -> Places]
      /\ \A b \in Attempts : b # a => at'[b] = at[b]
      /\ row' \in [Execs -> Statuses] /\ row'[Exec(a)] \in {"running", "absent"}
      /\ \A e \in Execs : e # Exec(a) => row'[e] = row[e]
      /\ row[Exec(a)] = "absent" => row'[Exec(a)] = "absent"
      /\ UNCHANGED <<capacity, queue, granted, enabled, reserved, active, cancelled, hooking,
                     timed, giveUp, slept, torn, stopping, stopped, deleting, timers, phase,
                     startup, unfinished, amending, amended, leftovers, events>>
  <2>1. \/ at[a] = "taken" /\ at' = [at EXCEPT ![a] = "claimed"]
        \/ at[a] = "registered" /\ at' = [at EXCEPT ![a] = "launching"]
    BY DEF SetRunning, Step, Go
  <2>2. row' = [row EXCEPT ![Exec(a)] = IF @ = "absent" THEN @ ELSE "running"]
    BY DEF SetRunning, SetRow
  <2>3. at' \in [Attempts -> Places] /\ row' \in [Execs -> Statuses]
    BY <1>0, <2>1, <2>2 DEF Typed, Places, Statuses
  <2> QED BY <1>0, <2>1, <2>2, <2>3, AttemptsByKind
          DEF Typed, SetRunning, queueVars, entryVars, requestVars, processVars, history,
            startVars
<1>a. /\ Exec(a) \in Execs /\ at[Fresh(Exec(a))] # "idle" /\ row[Exec(a)] # "new"
      /\ at[Fresh(Exec(a))] \in {"created", "queued"} => Exec(a) \in torn
      /\ Exec(a) \in torn \/ amending[Exec(a)] = "no"
      /\ "caught" \notin {stopping[Exec(a)], stopped[Exec(a)]}
      /\ phase # "down" /\ at[a] \in {"taken", "registered"}
      /\ at'[a] \in {"claimed", "launching"}
  BY <1>0, <1>1, Underway DEF Parts, CaughtForGood
<1>2. QueueConsistent' /\ SlotsAccounted' /\ capacity' <= Limit
  BY <1>0, <1>1, QueueStill DEF Typed, Parts, QueueConsistent, queueVars
<1>3. TypeOK'
  BY <1>0, <1>1, <1>a, AttemptsByKind, <1>2, MaxEventsIsNat
     DEF Typed, Parts, TypeOK, Statuses, Places
<1>4. SlotsTraced'
  BY <1>0, <1>1, <1>a, AttemptsByKind DEF Typed, Parts, SlotsTraced, Registered, Attached
<1>5. EntriesConsistent'
  BY <1>0, <1>1, <1>a, AttemptsByKind DEF Typed, Parts, EntriesConsistent, Attached, Waits
<1>6. WorkersAlone'
  <2>1. \A e \in Execs : Working(e)' = Working(e)
    BY <1>1 DEF Working
  <2>2. \A e \in Execs \ torn :
          Working(e) # {} => row'[e] \notin {"new", "waiting", "success", "error"}
    BY <1>0, <1>1 DEF Parts, WorkersAlone
  <2> QED BY <1>0, <1>1, <2>1, <2>2 DEF Parts, WorkersAlone
<1>7. FreshFirst'
  BY <1>0, <1>1, <1>a, AttemptsByKind
     DEF Typed, Parts, FreshFirst, NothingBefore, Unclaimed, OnTheirWay
<1>8. CaughtForGood'
  BY <1>0, <1>1, <1>a, AttemptsByKind DEF Typed, Parts, CaughtForGood, Dropped
<1>9. CaughtStopsHold'
  BY <1>0, <1>1, <1>a, AttemptsByKind DEF Typed, Parts, CaughtStopsHold
<1>10. AmendsApart'
  <2>1. startup = "unread" => torn' = {}
    BY <1>0, <1>1 DEF Parts, AmendsApart
  <2> QED BY <1>0, <1>1, <1>a, <2>1, AttemptsByKind, AmendsElsewhere DEF Typed
<1> QED BY <1>2, <1>3, <1>4, <1>5, <1>6, <1>7, <1>8, <1>9, <1>10 DEF IInv

\* ActiveExecutions.add replaces the entry of the id.
LEMMA Entering ==
  ASSUME IInv, NEW a \in Attempts, Enter(a)
  PROVE  IInv'
<1>0. Typed /\ Parts
  BY Unfolded
<1>1. /\ at[a] = "claimed"
      /\ at' \in [Attempts -> Places] /\ at'[a] = "registered"
      /\ \A b \in Attempts : b # a => at'[b] = at[b]
      /\ active' =
            [active EXCEPT ![Exec(a)] =
               [by |-> a, wf |-> None, status |-> "running", open |-> TRUE]]
      /\ active' \in [Execs -> Entry \cup {None}]
      /\ UNCHANGED <<capacity, queue, granted, enabled, reserved, cancelled, hooking, row, timed,
                     giveUp, slept, torn, stopping, stopped, deleting, timers, phase, startup,
                     unfinished, amending, amended, leftovers, events>>
  BY <1>0, AttemptsByKind, MaxEventsIsNat DEF Typed, Enter, Register, Entry, Serving, Step, Go,
     Statuses, Places, Spend, queueVars, entryVars, runVars, requestVars, processVars, history,
     startVars
<1>a. /\ Exec(a) \in Execs /\ at[Fresh(Exec(a))] # "idle" /\ row[Exec(a)] # "new"
      /\ at[Fresh(Exec(a))] \in {"created", "queued"} => Exec(a) \in torn
      /\ Exec(a) \in torn \/ amending[Exec(a)] = "no"
      /\ a \in reserved /\ (Exec(a) \in torn \/ row[Exec(a)] # "waiting")
      /\ "caught" \notin {stopping[Exec(a)], stopped[Exec(a)]}
      /\ Exec(a) \in torn \/ \A b \in Attempts : Exec(b) = Exec(a) => at[b] # "waiting"
  BY <1>0, <1>1, Underway DEF Parts, CaughtForGood, SlotsTraced, Working
<1>b. /\ active'[Exec(a)] # None /\ active'[Exec(a)].by = a /\ active'[Exec(a)].wf = None
      /\ active'[Exec(a)].status = "running" /\ active'[Exec(a)].open
      /\ \A e \in Execs : e # Exec(a) => active'[e] = active[e]
  <2>1. [by |-> a, wf |-> None, status |-> "running", open |-> TRUE] \in Entry
    BY DEF Entry
  <2> QED BY <1>0, <1>1, <1>a, <2>1, NoneIsNoEntry DEF Typed
<1>2. QueueConsistent' /\ SlotsAccounted' /\ capacity' <= Limit
  BY <1>0, <1>1, QueueStill DEF Typed, Parts, QueueConsistent, queueVars
<1>3. TypeOK'
  BY <1>0, <1>1, <1>a, AttemptsByKind, <1>2, MaxEventsIsNat
     DEF Typed, Parts, TypeOK, Statuses, Places
<1>4. SlotsTraced'
  BY <1>0, <1>1, <1>a, <1>b, AttemptsByKind DEF Typed, Parts, SlotsTraced, Registered, Attached
<1>5. EntriesConsistent'
  BY <1>0, <1>1, <1>a, <1>b, AttemptsByKind DEF Typed, Parts, EntriesConsistent, Attached, Waits
<1>6. WorkersAlone'
  BY <1>0, <1>1, <1>a, AttemptsByKind DEF Typed, Parts, WorkersAlone, Working
<1>7. FreshFirst'
  BY <1>0, <1>1, <1>a, AttemptsByKind
     DEF Typed, Parts, FreshFirst, NothingBefore, Unclaimed, OnTheirWay
<1>8. CaughtForGood'
  BY <1>0, <1>1, <1>a, AttemptsByKind DEF Typed, Parts, CaughtForGood, Dropped
<1>9. CaughtStopsHold'
  BY <1>0, <1>1, <1>a, AttemptsByKind DEF Typed, Parts, CaughtStopsHold
<1>10. AmendsApart'
  <2>1. startup = "unread" => torn' = {}
    BY <1>0, <1>1 DEF Parts, AmendsApart
  <2> QED BY <1>0, <1>1, <1>a, <2>1, AttemptsByKind, AmendsElsewhere DEF Typed
<1> QED BY <1>2, <1>3, <1>4, <1>5, <1>6, <1>7, <1>8, <1>9, <1>10 DEF IInv

\* attachResponsePromise throws, and the run is over.
LEMMA RespondingToNobody ==
  ASSUME IInv, NEW a \in Attempts, NoEntryToRespond(a)
  PROVE  IInv'
<1>0. Typed /\ Parts
  BY Unfolded
<1>1. /\ at[a] = "registered"
      /\ at' \in [Attempts -> Places] /\ at'[a] = "done"
      /\ \A b \in Attempts : b # a => at'[b] = at[b]
      /\ active[Exec(a)] = None
      /\ UNCHANGED <<capacity, queue, granted, enabled, reserved, active, cancelled, hooking, row,
                     timed, giveUp, slept, torn, stopping, stopped, deleting, timers, phase,
                     startup, unfinished, amending, amended, leftovers, events>>
  BY <1>0, AttemptsByKind, MaxEventsIsNat DEF Typed, NoEntryToRespond, entryVars, Attached,
     Serving, Step, Go, Statuses, Places, Spend, queueVars, runVars, requestVars, processVars,
     history, startVars
<1>a. /\ Exec(a) \in Execs /\ at[Fresh(Exec(a))] # "idle" /\ row[Exec(a)] # "new"
      /\ at[Fresh(Exec(a))] \in {"created", "queued"} => Exec(a) \in torn
      /\ Exec(a) \in torn \/ amending[Exec(a)] = "no"
  BY <1>0, <1>1, Underway
<1>2. QueueConsistent' /\ SlotsAccounted' /\ capacity' <= Limit
  BY <1>0, <1>1, QueueStill DEF Typed, Parts, QueueConsistent, queueVars
<1>3. TypeOK'
  BY <1>0, <1>1, <1>a, AttemptsByKind, <1>2, MaxEventsIsNat
     DEF Typed, Parts, TypeOK, Statuses, Places
<1>4. SlotsTraced'
  BY <1>0, <1>1, <1>a, AttemptsByKind DEF Typed, Parts, SlotsTraced, Registered, Attached
<1>5. EntriesConsistent'
  BY <1>0, <1>1, <1>a, AttemptsByKind DEF Typed, Parts, EntriesConsistent, Attached, Waits
<1>6. WorkersAlone'
  BY <1>0, <1>1, <1>a, AttemptsByKind DEF Typed, Parts, WorkersAlone, Working
<1>7. FreshFirst'
  BY <1>0, <1>1, <1>a, AttemptsByKind
     DEF Typed, Parts, FreshFirst, NothingBefore, Unclaimed, OnTheirWay
<1>8. CaughtForGood'
  BY <1>0, <1>1, <1>a, AttemptsByKind DEF Typed, Parts, CaughtForGood, Dropped
<1>9. CaughtStopsHold'
  BY <1>0, <1>1, <1>a, AttemptsByKind DEF Typed, Parts, CaughtStopsHold
<1>10. AmendsApart'
  <2>1. startup = "unread" => torn' = {}
    BY <1>0, <1>1 DEF Parts, AmendsApart
  <2> QED BY <1>0, <1>1, <1>a, <2>1, AttemptsByKind, AmendsElsewhere DEF Typed
<1> QED BY <1>2, <1>3, <1>4, <1>5, <1>6, <1>7, <1>8, <1>9, <1>10 DEF IInv

\* failExecution saves an error.
LEMMA FailingTheCheck ==
  ASSUME IInv, NEW a \in Attempts, FailCheck(a)
  PROVE  IInv'
<1>0. Typed /\ Parts
  BY Unfolded
<1>1. /\ at[a] \in {"registered", "launching"}
      /\ at' \in [Attempts -> Places] /\ at'[a] = "saved"
      /\ \A b \in Attempts : b # a => at'[b] = at[b]
      /\ row' \in [Execs -> Statuses] /\ row'[Exec(a)] \in {"error", "canceled", "absent"}
      /\ \A e \in Execs : e # Exec(a) => row'[e] = row[e]
      /\ row[Exec(a)] \in {"absent", "canceled"} => row'[Exec(a)] \in {"absent", "canceled"}
      /\ UNCHANGED <<capacity, queue, granted, enabled, reserved, active, cancelled, hooking,
                     timed, giveUp, slept, torn, stopping, stopped, deleting, timers, phase,
                     startup, unfinished, amending, amended, leftovers, events>>
  BY <1>0, AttemptsByKind, MaxEventsIsNat DEF Typed, FailCheck, SaveRow, entryVars, Serving, Step,
     Go, Statuses, Places, Spend, queueVars, runVars, requestVars, processVars, history, startVars
<1>a. /\ Exec(a) \in Execs /\ at[Fresh(Exec(a))] # "idle" /\ row[Exec(a)] # "new"
      /\ at[Fresh(Exec(a))] \in {"created", "queued"} => Exec(a) \in torn
      /\ Exec(a) \in torn \/ amending[Exec(a)] = "no"
      /\ (Exec(a) \in torn \/ Working(Exec(a)) = {a})
  BY <1>0, <1>1, Underway
<1>2. QueueConsistent' /\ SlotsAccounted' /\ capacity' <= Limit
  BY <1>0, <1>1, QueueStill DEF Typed, Parts, QueueConsistent, queueVars
<1>3. TypeOK'
  BY <1>0, <1>1, <1>a, AttemptsByKind, <1>2, MaxEventsIsNat
     DEF Typed, Parts, TypeOK, Statuses, Places
<1>4. SlotsTraced'
  BY <1>0, <1>1, <1>a, AttemptsByKind DEF Typed, Parts, SlotsTraced, Registered, Attached
<1>5. EntriesConsistent'
  BY <1>0, <1>1, <1>a, AttemptsByKind DEF Typed, Parts, EntriesConsistent, Attached, Waits
<1>6. WorkersAlone'
  <2>1. \A e \in Execs : e # Exec(a) => Working(e)' = Working(e)
    BY <1>1 DEF Working
  <2>2. Exec(a) \in torn \/ Working(Exec(a))' = {}
    BY <1>1, <1>a DEF Working
  <2> QED BY <1>0, <1>1, <1>a, <2>1, <2>2 DEF Parts, WorkersAlone
<1>7. FreshFirst'
  BY <1>0, <1>1, <1>a, AttemptsByKind
     DEF Typed, Parts, FreshFirst, NothingBefore, Unclaimed, OnTheirWay
<1>8. CaughtForGood'
  BY <1>0, <1>1, <1>a, AttemptsByKind DEF Typed, Parts, CaughtForGood, Dropped
<1>9. CaughtStopsHold'
  BY <1>0, <1>1, <1>a, AttemptsByKind DEF Typed, Parts, CaughtStopsHold
<1>10. AmendsApart'
  <2>1. startup = "unread" => torn' = {}
    BY <1>0, <1>1 DEF Parts, AmendsApart
  <2> QED BY <1>0, <1>1, <1>a, <2>1, AttemptsByKind, AmendsElsewhere DEF Typed
<1> QED BY <1>2, <1>3, <1>4, <1>5, <1>6, <1>7, <1>8, <1>9, <1>10 DEF IInv

\* The error of a run that never started is saved.
LEMMA SavingTheFailure ==
  ASSUME IInv, NEW a \in Attempts, SaveFailure(a)
  PROVE  IInv'
<1>0. Typed /\ Parts
  BY Unfolded
<1>1. /\ at[a] = "failing"
      /\ at' \in [Attempts -> Places] /\ at'[a] = "done"
      /\ \A b \in Attempts : b # a => at'[b] = at[b]
      /\ row' \in [Execs -> Statuses] /\ row'[Exec(a)] \in {"error", "canceled", "absent"}
      /\ \A e \in Execs : e # Exec(a) => row'[e] = row[e]
      /\ row[Exec(a)] \in {"absent", "canceled"} => row'[Exec(a)] \in {"absent", "canceled"}
      /\ UNCHANGED <<capacity, queue, granted, enabled, reserved, active, cancelled, hooking,
                     timed, giveUp, slept, torn, stopping, stopped, deleting, timers, phase,
                     startup, unfinished, amending, amended, leftovers, events>>
  BY <1>0, AttemptsByKind, MaxEventsIsNat DEF Typed, SaveFailure, SaveRow, entryVars, Serving,
     Step, Go, Statuses, Places, Spend, queueVars, runVars, requestVars, processVars, history,
     startVars
<1>a. /\ Exec(a) \in Execs /\ at[Fresh(Exec(a))] # "idle" /\ row[Exec(a)] # "new"
      /\ at[Fresh(Exec(a))] \in {"created", "queued"} => Exec(a) \in torn
      /\ Exec(a) \in torn \/ amending[Exec(a)] = "no"
      /\ phase # "down" /\ (Exec(a) \in torn \/ Working(Exec(a)) = {a})
  BY <1>0, <1>1, Underway, AttemptsByKind DEF Parts, WorkersAlone, Working
<1>2. QueueConsistent' /\ SlotsAccounted' /\ capacity' <= Limit
  BY <1>0, <1>1, QueueStill DEF Typed, Parts, QueueConsistent, queueVars
<1>3. TypeOK'
  BY <1>0, <1>1, <1>a, AttemptsByKind, <1>2, MaxEventsIsNat
     DEF Typed, Parts, TypeOK, Statuses, Places
<1>4. SlotsTraced'
  BY <1>0, <1>1, <1>a, AttemptsByKind DEF Typed, Parts, SlotsTraced, Registered, Attached
<1>5. EntriesConsistent'
  BY <1>0, <1>1, <1>a, AttemptsByKind DEF Typed, Parts, EntriesConsistent, Attached, Waits
<1>6. WorkersAlone'
  <2>1. \A e \in Execs : e # Exec(a) => Working(e)' = Working(e)
    BY <1>1 DEF Working
  <2>2. Exec(a) \in torn \/ Working(Exec(a))' = {}
    BY <1>1, <1>a DEF Working
  <2> QED BY <1>0, <1>1, <1>a, <2>1, <2>2 DEF Parts, WorkersAlone
<1>7. FreshFirst'
  BY <1>0, <1>1, <1>a, AttemptsByKind
     DEF Typed, Parts, FreshFirst, NothingBefore, Unclaimed, OnTheirWay
<1>8. CaughtForGood'
  BY <1>0, <1>1, <1>a, AttemptsByKind DEF Typed, Parts, CaughtForGood, Dropped
<1>9. CaughtStopsHold'
  BY <1>0, <1>1, <1>a, AttemptsByKind DEF Typed, Parts, CaughtStopsHold
<1>10. AmendsApart'
  <2>1. startup = "unread" => torn' = {}
    BY <1>0, <1>1 DEF Parts, AmendsApart
  <2> QED BY <1>0, <1>1, <1>a, <2>1, AttemptsByKind, AmendsElsewhere DEF Typed
<1> QED BY <1>2, <1>3, <1>4, <1>5, <1>6, <1>7, <1>8, <1>9, <1>10 DEF IInv

\* The workflow runs, and is attached to the entry the id has.
LEMMA Launching ==
  ASSUME IInv, NEW a \in Attempts, Launch(a)
  PROVE  IInv'
<1>0. Typed /\ Parts
  BY Unfolded
<1>1. /\ at[a] = "launching"
      /\ at' \in [Attempts -> Places] /\ at'[a] = "executing"
      /\ \A b \in Attempts : b # a => at'[b] = at[b]
      /\ active' \in [Execs -> Entry \cup {None}]
      /\ timed' \subseteq Attempts /\ giveUp' \subseteq Attempts
      /\ giveUp' \subseteq giveUp \cup {a}
      /\ \A e \in Execs : active'[e] = None <=> active[e] = None
      /\ \A e \in Execs : e # Exec(a) => active'[e] = active[e]
      /\ \A e \in Execs : active[e] # None =>
           /\ active'[e].by = active[e].by /\ active'[e].open = active[e].open
           /\ active'[e].status = active[e].status
           /\ \/ active'[e].wf = active[e].wf
              \/ active'[e].wf = a /\ e = Exec(a)
      /\ UNCHANGED <<capacity, queue, granted, enabled, reserved, cancelled, hooking, row, slept,
                     torn, stopping, stopped, deleting, timers, phase, startup, unfinished,
                     amending, amended, leftovers, events>>
  <2>1. at[a] = "launching" /\ at' = [at EXCEPT ![a] = "executing"] /\ Exec(a) \in Execs
    BY AttemptsByKind DEF Launch, Step, Go
  <2>2. /\ timed' \subseteq Attempts /\ giveUp' \subseteq Attempts
        /\ giveUp' \subseteq giveUp \cup {a}
        /\ \/ active' = active
           \/ active[Exec(a)] # None /\ active' = [active EXCEPT ![Exec(a)].wf = a]
    <3>1. timed \subseteq Attempts /\ giveUp \subseteq Attempts
      BY <1>0 DEF Parts, TypeOK
    <3>2. \/ /\ Attached(Exec(a)) /\ active' = [active EXCEPT ![Exec(a)].wf = a]
             /\ timed' \in {timed, timed \cup {a}} /\ giveUp' = giveUp
          \/ GivesUp(a) /\ active' = active /\ timed' = timed
      BY DEF Launch
    <3> QED BY <3>1, <3>2 DEF Attached, GivesUp
  <2> DEFINE rest == <<capacity, queue, granted, enabled, reserved, cancelled, hooking, row, slept,
                       torn, stopping, stopped, deleting, timers, phase, startup, unfinished,
                       amending, amended, leftovers, events>>
  <2>a. UNCHANGED rest
    BY DEF Launch, queueVars, requestVars, processVars, history, startVars
  <2>b. at' \in [Attempts -> Places] /\ at'[a] = "executing"
        /\ \A b \in Attempts : b # a => at'[b] = at[b]
    BY <1>0, <2>1 DEF Typed, Places
  <2> HIDE DEF rest
  <2>3. CASE active' = active
    <3>1. active' \in [Execs -> Entry \cup {None}]
      BY <1>0, <2>3 DEF Typed
    <3> QED BY <2>1, <2>2, <2>3, <2>a, <2>b, <3>1 DEF rest
  <2>4. CASE active[Exec(a)] # None /\ active' = [active EXCEPT ![Exec(a)].wf = a]
    <3> DEFINE new == [active[Exec(a)] EXCEPT !.wf = a]
    <3>1. /\ new \in Entry /\ new # None /\ new.by = active[Exec(a)].by /\ new.wf = a
          /\ new.status = active[Exec(a)].status /\ new.open = active[Exec(a)].open
      BY <1>0, <2>1, <2>4, NoneIsNoEntry DEF Typed, Entry
    <3>2. active' = [active EXCEPT ![Exec(a)] = new]
      BY <2>4
    <3> HIDE DEF new
    <3>3. /\ active' \in [Execs -> Entry \cup {None}] /\ active'[Exec(a)] = new
          /\ \A e \in Execs : e # Exec(a) => active'[e] = active[e]
      BY <1>0, <2>1, <3>1, <3>2 DEF Typed
    <3> QED BY <2>1, <2>2, <2>4, <2>a, <2>b, <3>1, <3>3 DEF rest
  <2> QED BY <2>2, <2>3, <2>4
<1>a. /\ Exec(a) \in Execs /\ at[Fresh(Exec(a))] # "idle" /\ row[Exec(a)] # "new"
      /\ at[Fresh(Exec(a))] \in {"created", "queued"} => Exec(a) \in torn
      /\ Exec(a) \in torn \/ amending[Exec(a)] = "no"
      /\ phase # "down"
      /\ "caught" \notin {stopping[Exec(a)], stopped[Exec(a)]}
  BY <1>0, <1>1, Underway, AttemptsByKind DEF Parts, CaughtForGood
<1>2. QueueConsistent' /\ SlotsAccounted' /\ capacity' <= Limit
  BY <1>0, <1>1, QueueStill DEF Typed, Parts, QueueConsistent, queueVars
<1>3. TypeOK'
  BY <1>0, <1>1, <1>a, AttemptsByKind, <1>2, MaxEventsIsNat
     DEF Typed, Parts, TypeOK, Statuses, Places
<1>4. SlotsTraced'
  BY <1>0, <1>1, <1>a, AttemptsByKind DEF Typed, Parts, SlotsTraced, Registered, Attached
<1>5. EntriesConsistent'
  BY <1>0, <1>1, <1>a, AttemptsByKind DEF Typed, Parts, EntriesConsistent, Attached, Waits
<1>6. WorkersAlone'
  <2>1. \A e \in Execs : Working(e)' = Working(e)
    BY <1>1 DEF Working
  <2>2. \A e \in Execs \ torn :
          Working(e) # {} => row'[e] \notin {"new", "waiting", "success", "error"}
    BY <1>0, <1>1 DEF Parts, WorkersAlone
  <2> QED BY <1>0, <1>1, <2>1, <2>2 DEF Parts, WorkersAlone
<1>7. FreshFirst'
  BY <1>0, <1>1, <1>a, AttemptsByKind
     DEF Typed, Parts, FreshFirst, NothingBefore, Unclaimed, OnTheirWay
<1>8. CaughtForGood'
  BY <1>0, <1>1, <1>a, AttemptsByKind DEF Typed, Parts, CaughtForGood, Dropped
<1>9. CaughtStopsHold'
  BY <1>0, <1>1, <1>a, AttemptsByKind DEF Typed, Parts, CaughtStopsHold
<1>10. AmendsApart'
  <2>1. startup = "unread" => torn' = {}
    BY <1>0, <1>1 DEF Parts, AmendsApart
  <2> QED BY <1>0, <1>1, <1>a, <2>1, AttemptsByKind, AmendsElsewhere DEF Typed
<1> QED BY <1>2, <1>3, <1>4, <1>5, <1>6, <1>7, <1>8, <1>9, <1>10 DEF IInv

\* A node puts its execution to wait.
LEMMA PuttingToWait ==
  ASSUME IInv, NEW a \in Attempts, PutToWait(a)
  PROVE  IInv'
<1>0. Typed /\ Parts
  BY Unfolded
<1>1. /\ at[a] = "executing"
      /\ at' \in [Attempts -> Places] /\ at'[a] = "waiting"
      /\ \A b \in Attempts : b # a => at'[b] = at[b]
      /\ active' \in [Execs -> Entry \cup {None}] /\ active'[Exec(a)] # None
      /\ slept' = slept \cup {Exec(a)} /\ slept' \subseteq Execs
      /\ \A e \in Execs : active'[e] = None <=> active[e] = None
      /\ \A e \in Execs : e # Exec(a) => active'[e] = active[e]
      /\ \A e \in Execs : active[e] # None =>
           /\ active'[e].by = active[e].by /\ active'[e].open = active[e].open
           /\ active'[e].wf = active[e].wf
           /\ active'[e].status = IF e = Exec(a) THEN "waiting" ELSE active[e].status
      /\ UNCHANGED <<capacity, queue, granted, enabled, reserved, cancelled, hooking, row, timed,
                     giveUp, torn, stopping, stopped, deleting, timers, phase, startup, unfinished,
                     amending, amended, leftovers, events>>
  <2>1. /\ at[a] = "executing" /\ at' = [at EXCEPT ![a] = "waiting"] /\ Exec(a) \in Execs
        /\ active[Exec(a)] # None /\ active' = [active EXCEPT ![Exec(a)].status = "waiting"]
    BY AttemptsByKind DEF PutToWait, Step, Go, Attached
  <2>2. slept' = slept \cup {Exec(a)} /\ slept' \subseteq Execs
    BY <1>0, <2>1 DEF PutToWait, Parts, TypeOK
  <2> DEFINE new == [active[Exec(a)] EXCEPT !.status = "waiting"]
  <2>3. /\ new \in Entry /\ new # None /\ new.by = active[Exec(a)].by
        /\ new.wf = active[Exec(a)].wf /\ new.status = "waiting"
        /\ new.open = active[Exec(a)].open
    BY <1>0, <2>1, NoneIsNoEntry DEF Typed, Entry
  <2>4. active' = [active EXCEPT ![Exec(a)] = new]
    BY <2>1
  <2> HIDE DEF new
  <2> QED BY <1>0, <2>1, <2>2, <2>3, <2>4
          DEF Typed, Places, PutToWait, queueVars, requestVars, processVars, history, startVars
<1>a. /\ Exec(a) \in Execs /\ at[Fresh(Exec(a))] # "idle" /\ row[Exec(a)] # "new"
      /\ at[Fresh(Exec(a))] \in {"created", "queued"} => Exec(a) \in torn
      /\ Exec(a) \in torn \/ amending[Exec(a)] = "no"
      /\ phase # "down"
      /\ "caught" \in {stopping[Exec(a)], stopped[Exec(a)]} => a \in cancelled
  BY <1>0, <1>1, Underway, AttemptsByKind DEF Parts, CaughtForGood
<1>2. QueueConsistent' /\ SlotsAccounted' /\ capacity' <= Limit
  BY <1>0, <1>1, QueueStill DEF Typed, Parts, QueueConsistent, queueVars
<1>3. TypeOK'
  BY <1>0, <1>1, <1>a, AttemptsByKind, <1>2, MaxEventsIsNat
     DEF Typed, Parts, TypeOK, Statuses, Places
<1>4. SlotsTraced'
  BY <1>0, <1>1, <1>a, AttemptsByKind DEF Typed, Parts, SlotsTraced, Registered, Attached
<1>5. EntriesConsistent'
  BY <1>0, <1>1, <1>a, AttemptsByKind DEF Typed, Parts, EntriesConsistent, Attached, Waits
<1>6. WorkersAlone'
  <2>1. \A e \in Execs : Working(e)' = Working(e)
    BY <1>1 DEF Working
  <2>2. \A e \in Execs \ torn :
          Working(e) # {} => row'[e] \notin {"new", "waiting", "success", "error"}
    BY <1>0, <1>1 DEF Parts, WorkersAlone
  <2> QED BY <1>0, <1>1, <2>1, <2>2 DEF Parts, WorkersAlone
<1>7. FreshFirst'
  BY <1>0, <1>1, <1>a, AttemptsByKind
     DEF Typed, Parts, FreshFirst, NothingBefore, Unclaimed, OnTheirWay
<1>8. CaughtForGood'
  BY <1>0, <1>1, <1>a, AttemptsByKind DEF Typed, Parts, CaughtForGood, Dropped
<1>9. CaughtStopsHold'
  BY <1>0, <1>1, <1>a, AttemptsByKind DEF Typed, Parts, CaughtStopsHold
<1>10. AmendsApart'
  <2>1. startup = "unread" => torn' = {}
    BY <1>0, <1>1 DEF Parts, AmendsApart
  <2> QED BY <1>0, <1>1, <1>a, <2>1, AttemptsByKind, AmendsElsewhere DEF Typed
<1> QED BY <1>2, <1>3, <1>4, <1>5, <1>6, <1>7, <1>8, <1>9, <1>10 DEF IInv

\* The save hook of a workflow that ended, or went to wait.
LEMMA Saving ==
  ASSUME IInv, NEW a \in Attempts, Save(a)
  PROVE  IInv'
<1>0. Typed /\ Parts
  BY Unfolded
<1>1. /\ at[a] \in {"executing", "waiting"}
      /\ at' \in [Attempts -> Places] /\ at'[a] = "saved"
      /\ \A b \in Attempts : b # a => at'[b] = at[b]
      /\ row' \in [Execs -> Statuses] /\ \A e \in Execs : e # Exec(a) => row'[e] = row[e]
      /\ row'[Exec(a)] \in {"success", "error", "waiting", "canceled", "absent", row[Exec(a)]}
      /\ row'[Exec(a)] = "waiting" => row[Exec(a)] = "waiting" \/ at[a] = "waiting"
      /\ row[Exec(a)] \in {"absent", "canceled"} => row'[Exec(a)] \in {"absent", "canceled"}
      /\ a \in cancelled => row' = row
      /\ UNCHANGED <<capacity, queue, granted, enabled, reserved, active, cancelled, hooking,
                     timed, giveUp, slept, torn, stopping, stopped, deleting, timers, phase,
                     startup, unfinished, amending, amended, leftovers, events>>
  <2> DEFINE e == Exec(a)
  <2>1. /\ at[a] \in {"executing", "waiting"} /\ at' = [at EXCEPT ![a] = "saved"]
        /\ a \in cancelled => row' = row
        /\ \/ row' = row
           \/ row' = [row EXCEPT ![e] = "absent"]
           \/ \E s \in {"success", "error", "waiting"} :
                /\ row' = [row EXCEPT ![e] = IF @ \in {"absent", "canceled"} THEN @ ELSE s]
                /\ s = "waiting" => at[a] = "waiting"
    BY DEF Save, SaveRow, Step, Go
  <2>2. UNCHANGED <<queueVars, entryVars, timed, giveUp, history, requestVars, processVars, events>>
    BY DEF Save
  <2>3. at' \in [Attempts -> Places] /\ e \in Execs /\ row \in [Execs -> Statuses]
    BY <1>0, <2>1, AttemptsByKind DEF Typed, Places
  <2>4. CASE row' = row \/ row' = [row EXCEPT ![e] = "absent"]
    BY <1>0, <2>1, <2>2, <2>3, <2>4
       DEF Typed, Statuses, queueVars, entryVars, requestVars, processVars, history, startVars
  <2>5. ASSUME NEW s \in {"success", "error", "waiting"},
               row' = [row EXCEPT ![e] = IF @ \in {"absent", "canceled"} THEN @ ELSE s],
               s = "waiting" => at[a] = "waiting"
        PROVE  <1>1!:
    <3>1. row' \in [Execs -> Statuses] /\ row'[e] \in {s, "absent", "canceled"}
      BY <2>3, <2>5 DEF Statuses
    <3> QED BY <1>0, <2>1, <2>2, <2>3, <2>5, <3>1
            DEF Typed, queueVars, entryVars, requestVars, processVars, history, startVars
  <2> QED BY <2>1, <2>4, <2>5
<1>a. /\ Exec(a) \in Execs /\ at[Fresh(Exec(a))] # "idle" /\ row[Exec(a)] # "new"
      /\ at[Fresh(Exec(a))] \in {"created", "queued"} => Exec(a) \in torn
      /\ Exec(a) \in torn \/ amending[Exec(a)] = "no"
      /\ phase # "down" /\ (Exec(a) \in torn \/ Working(Exec(a)) = {a})
      /\ (Exec(a) \in torn \/ row[Exec(a)] # "waiting")
      /\ "caught" \in {stopping[Exec(a)], stopped[Exec(a)]} => a \in cancelled
      /\ at[a] = "waiting" =>
           Exec(a) \in slept /\ (active[Exec(a)] # None => Waits(Exec(a)) \/ Exec(a) \in torn)
  BY <1>0, <1>1, Underway DEF Parts, CaughtForGood, EntriesConsistent, Attached
<1>2. QueueConsistent' /\ SlotsAccounted' /\ capacity' <= Limit
  BY <1>0, <1>1, QueueStill DEF Typed, Parts, QueueConsistent, queueVars
<1>3. TypeOK'
  BY <1>0, <1>1, <1>a, AttemptsByKind, <1>2, MaxEventsIsNat
     DEF Typed, Parts, TypeOK, Statuses, Places
<1>4. SlotsTraced'
  BY <1>0, <1>1, <1>a, AttemptsByKind DEF Typed, Parts, SlotsTraced, Registered, Attached
<1>5. EntriesConsistent'
  BY <1>0, <1>1, <1>a, AttemptsByKind DEF Typed, Parts, EntriesConsistent, Attached, Waits
<1>6. WorkersAlone'
  <2>1. \A e \in Execs : e # Exec(a) => Working(e)' = Working(e)
    BY <1>1 DEF Working
  <2>2. Exec(a) \in torn \/ Working(Exec(a))' = {}
    BY <1>1, <1>a DEF Working
  <2> QED BY <1>0, <1>1, <1>a, <2>1, <2>2 DEF Parts, WorkersAlone
<1>7. FreshFirst'
  BY <1>0, <1>1, <1>a, AttemptsByKind
     DEF Typed, Parts, FreshFirst, NothingBefore, Unclaimed, OnTheirWay
<1>8. CaughtForGood'
  BY <1>0, <1>1, <1>a, AttemptsByKind DEF Typed, Parts, CaughtForGood, Dropped
<1>9. CaughtStopsHold'
  BY <1>0, <1>1, <1>a, AttemptsByKind DEF Typed, Parts, CaughtStopsHold
<1>10. AmendsApart'
  <2>1. startup = "unread" => torn' = {}
    BY <1>0, <1>1 DEF Parts, AmendsApart
  <2> QED BY <1>0, <1>1, <1>a, <2>1, AttemptsByKind, AmendsElsewhere DEF Typed
<1> QED BY <1>2, <1>3, <1>4, <1>5, <1>6, <1>7, <1>8, <1>9, <1>10 DEF IInv

\* The hook that a cancellation called saves.
LEMMA SavingCanceled ==
  ASSUME IInv, NEW a \in Attempts, SaveCanceled(a)
  PROVE  IInv'
<1>0. Typed /\ Parts
  BY Unfolded
<1>1. /\ Exec(a) \in Execs
      /\ row' \in [Execs -> Statuses] /\ row'[Exec(a)] \in {"canceled", "absent"}
      /\ \A e \in Execs : e # Exec(a) => row'[e] = row[e]
      /\ row[Exec(a)] = "absent" => row'[Exec(a)] = "absent"
      /\ hooking' \subseteq Attempts
      /\ UNCHANGED <<capacity, queue, granted, enabled, reserved, active, cancelled, at, timed,
                     giveUp, slept, torn, stopping, stopped, deleting, timers, phase, startup,
                     unfinished, amending, amended, leftovers, events>>
  <2> DEFINE e == Exec(a)
  <2>1. /\ e \in Execs /\ hooking' \subseteq Attempts
        /\ \/ row' = [row EXCEPT ![e] = IF @ \in {"absent", "canceled"} THEN @ ELSE "canceled"]
           \/ row' = [row EXCEPT ![e] = "absent"]
    BY <1>0, AttemptsByKind DEF SaveCanceled, SaveRow, Parts, TypeOK
  <2>2. /\ row' \in [Execs -> Statuses] /\ row'[e] \in {"canceled", "absent"}
        /\ \A f \in Execs : f # e => row'[f] = row[f]
        /\ row[e] = "absent" => row'[e] = "absent"
    <3>1. CASE row' = [row EXCEPT ![e] = "absent"]
      BY <1>0, <2>1, <3>1 DEF Typed, Statuses
    <3>2. CASE row' = [row EXCEPT ![e] = IF @ \in {"absent", "canceled"} THEN @ ELSE "canceled"]
      BY <1>0, <2>1, <3>2 DEF Typed, Statuses
    <3> QED BY <2>1, <3>1, <3>2
  <2>3. UNCHANGED <<capacity, queue, granted, enabled, reserved, active, cancelled, at, timed,
                    giveUp, slept, torn, stopping, stopped, deleting, timers, phase, startup,
                    unfinished, amending, amended, leftovers, events>>
    BY DEF SaveCanceled, queueVars, requestVars, processVars, history, startVars
  <2> QED BY <2>1, <2>2, <2>3
<1>2. QueueConsistent' /\ SlotsAccounted' /\ capacity' <= Limit
  BY <1>0, <1>1, QueueStill DEF Typed, Parts, QueueConsistent, queueVars
<1>3. TypeOK'
  BY <1>0, <1>1, AttemptsByKind, <1>2, MaxEventsIsNat DEF Typed, Parts, TypeOK, Statuses, Places
<1>4. SlotsTraced'
  BY <1>0, <1>1, AttemptsByKind DEF Typed, Parts, SlotsTraced, Registered, Attached
<1>5. EntriesConsistent'
  BY <1>0, <1>1, AttemptsByKind DEF Typed, Parts, EntriesConsistent, Attached, Waits
<1>6. WorkersAlone'
  <2>1. \A e \in Execs : Working(e)' = Working(e)
    BY <1>1 DEF Working
  <2>2. \A e \in Execs \ torn :
          Working(e) # {} => row'[e] \notin {"new", "waiting", "success", "error"}
    BY <1>0, <1>1 DEF Parts, WorkersAlone
  <2> QED BY <1>0, <1>1, <2>1, <2>2 DEF Parts, WorkersAlone
<1>7. FreshFirst'
  BY <1>0, <1>1, AttemptsByKind DEF Typed, Parts, FreshFirst, NothingBefore, Unclaimed, OnTheirWay
<1>8. CaughtForGood'
  BY <1>0, <1>1, AttemptsByKind DEF Typed, Parts, CaughtForGood, Dropped
<1>9. CaughtStopsHold'
  BY <1>0, <1>1, AttemptsByKind DEF Typed, Parts, CaughtStopsHold
<1>10. AmendsApart'
  BY <1>0, <1>1, AttemptsByKind, AmendsStay DEF Typed, Waits, Attached
<1> QED BY <1>2, <1>3, <1>4, <1>5, <1>6, <1>7, <1>8, <1>9, <1>10 DEF IInv

\* A recovery that failed marks the row crashed.
LEMMA MarkingUnstartable ==
  ASSUME IInv, NEW a \in Attempts, MarkUnstartable(a)
  PROVE  IInv'
<1>0. Typed /\ Parts
  BY Unfolded
<1>1. /\ Exec(a) \in Execs
      /\ row' \in [Execs -> Statuses] /\ \A e \in Execs : e # Exec(a) => row'[e] = row[e]
      /\ row'[Exec(a)] \in {"crashed", row[Exec(a)]}
      /\ row'[Exec(a)] = "crashed" => row[Exec(a)] \in {"new", "running", "crashed"}
      /\ giveUp' \subseteq giveUp /\ giveUp' \subseteq Attempts
      /\ UNCHANGED <<capacity, queue, granted, enabled, reserved, active, cancelled, hooking, at,
                     timed, slept, torn, stopping, stopped, deleting, timers, phase, startup,
                     unfinished, amending, amended, leftovers, events>>
  BY <1>0, AttemptsByKind, MaxEventsIsNat DEF Typed, MarkUnstartable, Statuses, Parts, TypeOK,
     entryVars, queueVars, runVars, requestVars, processVars, history, startVars
<1>a. /\ at[Fresh(Exec(a))] # "idle"
      /\ at[Fresh(Exec(a))] \in {"created", "queued"} => Exec(a) \in torn
  BY <1>0, <1>1 DEF Parts, FreshFirst, NothingBefore, MarkUnstartable
<1>2. QueueConsistent' /\ SlotsAccounted' /\ capacity' <= Limit
  BY <1>0, <1>1, QueueStill DEF Typed, Parts, QueueConsistent, queueVars
<1>3. TypeOK'
  BY <1>0, <1>1, <1>a, AttemptsByKind, <1>2, MaxEventsIsNat
     DEF Typed, Parts, TypeOK, Statuses, Places
<1>4. SlotsTraced'
  BY <1>0, <1>1, <1>a, AttemptsByKind DEF Typed, Parts, SlotsTraced, Registered, Attached
<1>5. EntriesConsistent'
  BY <1>0, <1>1, <1>a, AttemptsByKind DEF Typed, Parts, EntriesConsistent, Attached, Waits
<1>6. WorkersAlone'
  <2>1. \A e \in Execs : Working(e)' = Working(e)
    BY <1>1 DEF Working
  <2>2. \A e \in Execs \ torn :
          Working(e) # {} => row'[e] \notin {"new", "waiting", "success", "error"}
    BY <1>0, <1>1 DEF Parts, WorkersAlone
  <2> QED BY <1>0, <1>1, <2>1, <2>2 DEF Parts, WorkersAlone
<1>7. FreshFirst'
  BY <1>0, <1>1, <1>a, AttemptsByKind
     DEF Typed, Parts, FreshFirst, NothingBefore, Unclaimed, OnTheirWay
<1>8. CaughtForGood'
  BY <1>0, <1>1, <1>a, AttemptsByKind DEF Typed, Parts, CaughtForGood, Dropped
<1>9. CaughtStopsHold'
  BY <1>0, <1>1, <1>a, AttemptsByKind DEF Typed, Parts, CaughtStopsHold
<1>10. AmendsApart'
  BY <1>0, <1>1, <1>a, AttemptsByKind, AmendsStay DEF Typed, Waits, Attached
<1> QED BY <1>2, <1>3, <1>4, <1>5, <1>6, <1>7, <1>8, <1>9, <1>10 DEF IInv

\* processError finalizes the entry the id has.
LEMMA FailingToLaunch ==
  ASSUME IInv, NEW a \in Attempts, LaunchFails(a)
  PROVE  IInv'
<1>0. Typed /\ Parts
  BY Unfolded
<1>1. /\ at[a] = "launching"
      /\ at' \in [Attempts -> Places] /\ at'[a] = "failing"
      /\ \A b \in Attempts : b # a => at'[b] = at[b]
      /\ QueueAdvances /\ Exec(a) \in Execs
      /\ active' \in [Execs -> Entry \cup {None}]
      /\ \A e \in Execs : e # Exec(a) => active'[e] = active[e]
      /\ \/ /\ active'[Exec(a)] = active[Exec(a)] /\ reserved' = reserved
            /\ active[Exec(a)] # None => ~active[Exec(a)].open
         \/ /\ active[Exec(a)] # None /\ active[Exec(a)].open
            /\ reserved' = reserved \ {active[Exec(a)].by}
            /\ \/ active[Exec(a)].status # "waiting" /\ active'[Exec(a)] = None
               \/ /\ active[Exec(a)].status = "waiting" /\ active'[Exec(a)] # None
                  /\ active'[Exec(a)].by = active[Exec(a)].by /\ active'[Exec(a)].wf = None
                  /\ active'[Exec(a)].status = "waiting" /\ active'[Exec(a)].open = FALSE
      /\ timed' = timed /\ giveUp' \subseteq Attempts /\ giveUp' \subseteq giveUp \cup {a}
      /\ UNCHANGED <<enabled, cancelled, hooking, row, slept, torn, stopping, stopped, deleting,
                     timers, phase, startup, unfinished, amending, amended, leftovers, events>>
  <2>1. at[a] = "launching" /\ at' = [at EXCEPT ![a] = "failing"] /\ Exec(a) \in Execs
        /\ Finalize(Exec(a))
    BY AttemptsByKind DEF LaunchFails, Step, Go
  <2>2. at' \in [Attempts -> Places] /\ at'[a] = "failing"
        /\ \A b \in Attempts : b # a => at'[b] = at[b]
    BY <1>0, <2>1 DEF Typed, Places
  <2>3. SameQueued
    BY <1>0, <2>1, <2>2 DEF SameQueued, Typed, Parts, QueueConsistent
  <2>4. /\ timed' = timed /\ giveUp' \subseteq Attempts /\ giveUp' \subseteq giveUp \cup {a}
        /\ UNCHANGED <<row, slept, torn, stopping, stopped, deleting, timers, phase, startup,
                       unfinished, amending, amended, leftovers, events>>
    BY <1>0 DEF LaunchFails, GivesUp, Parts, TypeOK, requestVars, processVars, history, startVars
  <2> QED BY <2>1, <2>2, <2>3, <2>4, Finalizing
<1>a. /\ Exec(a) \in Execs /\ at[Fresh(Exec(a))] # "idle" /\ row[Exec(a)] # "new"
      /\ at[Fresh(Exec(a))] \in {"created", "queued"} => Exec(a) \in torn
      /\ Exec(a) \in torn \/ amending[Exec(a)] = "no"
      /\ phase # "down"
  BY <1>0, <1>1, Underway DEF Parts
<1>2. QueueConsistent' /\ SlotsAccounted' /\ capacity' <= Limit
  BY <1>1 DEF QueueAdvances
<1>3. TypeOK'
  BY <1>0, <1>1 DEF Typed, Parts, TypeOK, QueueAdvances
<1>4. SlotsTraced'
  <2>1. \A b \in reserved' : b \in reserved /\ b \in Attempts
    BY <1>0, <1>1 DEF Typed
  <2>2. \A b \in Attempts : at[b] \in {"taken", "claimed"} /\ b \in reserved => b \in reserved'
    BY <1>0, <1>1 DEF Parts, EntriesConsistent, Attached
  <2>3. \A b \in reserved' : Registered(b) => Registered(b)' \/ Exec(b) \in slept \cup torn
    BY <1>0, <1>1, <2>1, AttemptsByKind DEF Parts, EntriesConsistent, Registered, Attached, Waits
  <2>4. \A b \in reserved' : Registered(b)' => Registered(b) /\ b # a
    BY <1>0, <1>1, <2>1, AttemptsByKind DEF Parts, EntriesConsistent, Registered, Attached, Waits
  <2> QED BY <1>0, <1>1, <2>1, <2>2, <2>3, <2>4, AttemptsByKind DEF Parts, SlotsTraced
<1>5. EntriesConsistent'
  BY <1>0, <1>1, <1>a, AttemptsByKind DEF Typed, Parts, EntriesConsistent, Attached, Waits
<1>6. WorkersAlone'
  <2>1. \A e \in Execs : Working(e)' = Working(e)
    BY <1>1 DEF Working
  <2>2. \A e \in Execs \ torn :
          Working(e) # {} => row'[e] \notin {"new", "waiting", "success", "error"}
    BY <1>0, <1>1 DEF Parts, WorkersAlone
  <2> QED BY <1>0, <1>1, <2>1, <2>2 DEF Parts, WorkersAlone
<1>7. FreshFirst'
  BY <1>0, <1>1, <1>a, AttemptsByKind
     DEF Typed, Parts, FreshFirst, NothingBefore, Unclaimed, OnTheirWay
<1>8. CaughtForGood'
  <2>1. \A b \in Attempts : b # a /\ Dropped(b) => Dropped(b)'
    BY <1>1 DEF Dropped, QueueAdvances
  <2> QED BY <1>0, <1>1, <1>a, <2>1, AttemptsByKind DEF Typed, Parts, CaughtForGood
<1>9. CaughtStopsHold'
  BY <1>0, <1>1, <1>a, AttemptsByKind DEF Typed, Parts, CaughtStopsHold
<1>10. AmendsApart'
  <2>1. startup = "unread" => torn' = {}
    BY <1>0, <1>1 DEF Parts, AmendsApart
  <2> QED BY <1>0, <1>1, <1>a, <2>1, AttemptsByKind, AmendsElsewhere DEF Typed
<1> QED BY <1>2, <1>3, <1>4, <1>5, <1>6, <1>7, <1>8, <1>9, <1>10 DEF IInv

\* The promise of a workflow settles, and the entry the id has is finalized.
LEMMA Ending ==
  ASSUME IInv, NEW a \in Attempts, End(a)
  PROVE  IInv'
<1>0. Typed /\ Parts
  BY Unfolded
<1>1. /\ at[a] = "saved"
      /\ at' \in [Attempts -> Places] /\ at'[a] = "done"
      /\ \A b \in Attempts : b # a => at'[b] = at[b]
      /\ QueueAdvances /\ Exec(a) \in Execs
      /\ active' \in [Execs -> Entry \cup {None}]
      /\ \A e \in Execs : e # Exec(a) => active'[e] = active[e]
      /\ \/ /\ active'[Exec(a)] = active[Exec(a)] /\ reserved' = reserved
            /\ active[Exec(a)] # None => ~active[Exec(a)].open
         \/ /\ active[Exec(a)] # None /\ active[Exec(a)].open
            /\ reserved' = reserved \ {active[Exec(a)].by}
            /\ \/ active[Exec(a)].status # "waiting" /\ active'[Exec(a)] = None
               \/ /\ active[Exec(a)].status = "waiting" /\ active'[Exec(a)] # None
                  /\ active'[Exec(a)].by = active[Exec(a)].by /\ active'[Exec(a)].wf = None
                  /\ active'[Exec(a)].status = "waiting" /\ active'[Exec(a)].open = FALSE
      /\ giveUp' = giveUp /\ timed' \subseteq Attempts
      /\ UNCHANGED <<enabled, cancelled, hooking, row, slept, torn, stopping, stopped, deleting,
                     timers, phase, startup, unfinished, amending, amended, leftovers, events>>
  <2>1. at[a] = "saved" /\ at' = [at EXCEPT ![a] = "done"] /\ Exec(a) \in Execs
        /\ Finalize(Exec(a))
    BY AttemptsByKind DEF End, Step, Go
  <2>2. at' \in [Attempts -> Places] /\ at'[a] = "done"
        /\ \A b \in Attempts : b # a => at'[b] = at[b]
    BY <1>0, <2>1 DEF Typed, Places
  <2>3. SameQueued
    BY <1>0, <2>1, <2>2 DEF SameQueued, Typed, Parts, QueueConsistent
  <2>4. /\ giveUp' = giveUp /\ timed' \subseteq Attempts
        /\ UNCHANGED <<row, slept, torn, stopping, stopped, deleting, timers, phase, startup,
                       unfinished, amending, amended, leftovers, events>>
    BY <1>0 DEF End, GivesUp, Parts, TypeOK, requestVars, processVars, history, startVars
  <2> QED BY <2>1, <2>2, <2>3, <2>4, Finalizing
<1>a. /\ Exec(a) \in Execs /\ at[Fresh(Exec(a))] # "idle" /\ row[Exec(a)] # "new"
      /\ at[Fresh(Exec(a))] \in {"created", "queued"} => Exec(a) \in torn
      /\ phase # "down"
  BY <1>0, <1>1, Underway
<1>2. QueueConsistent' /\ SlotsAccounted' /\ capacity' <= Limit
  BY <1>1 DEF QueueAdvances
<1>3. TypeOK'
  BY <1>0, <1>1 DEF Typed, Parts, TypeOK, QueueAdvances
<1>4. SlotsTraced'
  <2>1. \A b \in reserved' : b \in reserved /\ b \in Attempts
    BY <1>0, <1>1 DEF Typed
  <2>2. \A b \in Attempts : at[b] \in {"taken", "claimed"} /\ b \in reserved => b \in reserved'
    BY <1>0, <1>1 DEF Parts, EntriesConsistent, Attached
  <2>3. \A b \in reserved' : Registered(b) => Registered(b)' \/ Exec(b) \in slept \cup torn
    BY <1>0, <1>1, <2>1, AttemptsByKind DEF Parts, EntriesConsistent, Registered, Attached, Waits
  <2>4. \A b \in reserved' : Registered(b)' => Registered(b) /\ b # a
    BY <1>0, <1>1, <2>1, AttemptsByKind DEF Parts, EntriesConsistent, Registered, Attached, Waits
  <2> QED BY <1>0, <1>1, <2>1, <2>2, <2>3, <2>4, AttemptsByKind DEF Parts, SlotsTraced
<1>5. EntriesConsistent'
  BY <1>0, <1>1, <1>a, AttemptsByKind DEF Typed, Parts, EntriesConsistent, Attached, Waits
<1>6. WorkersAlone'
  <2>1. \A e \in Execs : Working(e)' = Working(e)
    BY <1>1 DEF Working
  <2>2. \A e \in Execs \ torn :
          Working(e) # {} => row'[e] \notin {"new", "waiting", "success", "error"}
    BY <1>0, <1>1 DEF Parts, WorkersAlone
  <2> QED BY <1>0, <1>1, <2>1, <2>2 DEF Parts, WorkersAlone
<1>7. FreshFirst'
  BY <1>0, <1>1, <1>a, AttemptsByKind
     DEF Typed, Parts, FreshFirst, NothingBefore, Unclaimed, OnTheirWay
<1>8. CaughtForGood'
  <2>1. \A b \in Attempts : b # a /\ Dropped(b) => Dropped(b)'
    BY <1>1 DEF Dropped, QueueAdvances
  <2> QED BY <1>0, <1>1, <1>a, <2>1, AttemptsByKind DEF Typed, Parts, CaughtForGood
<1>9. CaughtStopsHold'
  BY <1>0, <1>1, <1>a, AttemptsByKind DEF Typed, Parts, CaughtStopsHold
<1>10. AmendsApart'
  BY <1>0, <1>1, <1>a, AttemptsByKind, AmendsStay DEF Typed, Waits, Attached
<1> QED BY <1>2, <1>3, <1>4, <1>5, <1>6, <1>7, <1>8, <1>9, <1>10 DEF IInv

\* A timeout stops the entry the id has.
LEMMA TimingOut ==
  ASSUME IInv, NEW a \in timed, TimeOut(a)
  PROVE  IInv'
<1>0. Typed /\ Parts
  BY Unfolded
<1>1. /\ QueueAdvances /\ Exec(a) \in Execs
      /\ active' \in [Execs -> Entry \cup {None}]
      /\ \A e \in Execs : e # Exec(a) => active'[e] = active[e]
      /\ active'[Exec(a)] = None
      /\ \/ (active[Exec(a)] # None => active[Exec(a)].status = "waiting") /\ reserved' = reserved
         \/ active[Exec(a)] # None /\ reserved' = reserved \ {active[Exec(a)].by}
      /\ cancelled \subseteq cancelled' /\ cancelled' \subseteq Attempts
      /\ hooking' \subseteq Attempts
      /\ timed' \subseteq Attempts
      /\ UNCHANGED <<enabled, row, at, giveUp, slept, torn, stopping, stopped, deleting, timers,
                     phase, startup, unfinished, amending, amended, leftovers, events>>
  <2>1. /\ a \in Attempts /\ Exec(a) \in Execs /\ StopEntry(Exec(a), Pending)
        /\ timed' \subseteq Attempts
        /\ UNCHANGED <<row, at, giveUp, slept, torn, requestVars, processVars, events>>
    BY <1>0, AttemptsByKind DEF TimeOut, Parts, TypeOK, history
  <2>2. SameQueued
    BY <1>0, <2>1 DEF SameQueued, Parts, Typed, QueueConsistent
  <2> QED BY <2>1, <2>2, StoppingTheEntry DEF requestVars, processVars, history, startVars
<1>2. QueueConsistent' /\ SlotsAccounted' /\ capacity' <= Limit
  BY <1>1 DEF QueueAdvances
<1>3. TypeOK'
  BY <1>0, <1>1 DEF Typed, Parts, TypeOK, QueueAdvances
<1>4. SlotsTraced'
  <2>1. \A b \in reserved' : b \in reserved /\ b \in Attempts
    BY <1>0, <1>1 DEF Typed
  <2>2. \A b \in Attempts : at[b] \in {"taken", "claimed"} /\ b \in reserved => b \in reserved'
    BY <1>0, <1>1 DEF Parts, EntriesConsistent, Attached
  <2>3. \A b \in reserved' : Registered(b) => Registered(b)' \/ Exec(b) \in slept \cup torn
    BY <1>0, <1>1, <2>1, AttemptsByKind DEF Parts, EntriesConsistent, Registered, Attached, Waits
  <2>4. \A b \in reserved' : Registered(b)' => Registered(b)
    BY <1>0, <1>1, <2>1, AttemptsByKind DEF Parts, EntriesConsistent, Registered, Attached, Waits
  <2> QED BY <1>0, <1>1, <2>1, <2>2, <2>3, <2>4, AttemptsByKind DEF Parts, SlotsTraced
<1>5. EntriesConsistent'
  BY <1>0, <1>1, AttemptsByKind DEF Typed, Parts, EntriesConsistent, Attached, Waits
<1>6. WorkersAlone'
  <2>1. \A e \in Execs : Working(e)' = Working(e)
    BY <1>1 DEF Working
  <2>2. \A e \in Execs \ torn :
          Working(e) # {} => row'[e] \notin {"new", "waiting", "success", "error"}
    BY <1>0, <1>1 DEF Parts, WorkersAlone
  <2> QED BY <1>0, <1>1, <2>1, <2>2 DEF Parts, WorkersAlone
<1>7. FreshFirst'
  BY <1>0, <1>1, AttemptsByKind DEF Typed, Parts, FreshFirst, NothingBefore, Unclaimed, OnTheirWay
<1>8. CaughtForGood'
  <2>1. \A b \in Attempts : Dropped(b) => Dropped(b)'
    BY <1>1 DEF Dropped, QueueAdvances
  <2> QED BY <1>0, <1>1, <2>1, AttemptsByKind DEF Typed, Parts, CaughtForGood
<1>9. CaughtStopsHold'
  BY <1>0, <1>1, AttemptsByKind DEF Typed, Parts, CaughtStopsHold
<1>10. AmendsApart'
  BY <1>0, <1>1, AttemptsByKind, AmendsStay DEF Typed, Waits, Attached
<1> QED BY <1>2, <1>3, <1>4, <1>5, <1>6, <1>7, <1>8, <1>9, <1>10 DEF IInv

\* A stop request reads the row.
LEMMA AskingToStop ==
  ASSUME IInv, NEW e \in Execs, StopRequest(e)
  PROVE  IInv'
<1>0. Typed /\ Parts
  BY Unfolded
<1>1. /\ phase = "up" /\ row[e] \in {"new", "waiting", "running"}
      /\ stopping' \in [Execs -> {"no", "read", "caught", "missed"}] /\ stopping'[e] = "read"
      /\ \A f \in Execs : f # e => stopping'[f] = stopping[f]
      /\ events' \in 0..MaxEvents
      /\ UNCHANGED <<capacity, queue, granted, enabled, reserved, active, cancelled, hooking, row,
                     at, timed, giveUp, slept, torn, stopped, deleting, timers, phase, startup,
                     unfinished, amending, amended, leftovers>>
  BY <1>0, AttemptsByKind, MaxEventsIsNat DEF Typed, StopRequest, queueVars, entryVars, runVars,
     requestVars, processVars, Parts, TypeOK, Spend, Serving, history, startVars
<1>2. QueueConsistent' /\ SlotsAccounted' /\ capacity' <= Limit
  BY <1>0, <1>1, QueueStill DEF Typed, Parts, QueueConsistent, queueVars
<1>3. TypeOK'
  BY <1>0, <1>1, AttemptsByKind, <1>2, MaxEventsIsNat DEF Typed, Parts, TypeOK, Statuses, Places
<1>4. SlotsTraced'
  BY <1>0, <1>1, AttemptsByKind DEF Typed, Parts, SlotsTraced, Registered, Attached
<1>5. EntriesConsistent'
  BY <1>0, <1>1, AttemptsByKind DEF Typed, Parts, EntriesConsistent, Attached, Waits
<1>6. WorkersAlone'
  <2>1. \A f \in Execs : Working(f)' = Working(f)
    BY <1>1 DEF Working
  <2> QED BY <1>0, <1>1, <2>1 DEF Parts, WorkersAlone
<1>7. FreshFirst'
  BY <1>0, <1>1, AttemptsByKind DEF Typed, Parts, FreshFirst, NothingBefore, Unclaimed, OnTheirWay
<1>8. CaughtForGood'
  BY <1>0, <1>1, AttemptsByKind DEF Typed, Parts, CaughtForGood, Dropped
<1>9. CaughtStopsHold'
  BY <1>0, <1>1, AttemptsByKind DEF Typed, Parts, CaughtStopsHold
<1>10. AmendsApart'
  BY <1>0, <1>1, AttemptsByKind, AmendsStay DEF Typed, Waits, Attached
<1> QED BY <1>2, <1>3, <1>4, <1>5, <1>6, <1>7, <1>8, <1>9, <1>10 DEF IInv

\* A delete request reads the row.
LEMMA AskingToDelete ==
  ASSUME IInv, NEW e \in Execs, DeleteRequest(e)
  PROVE  IInv'
<1>0. Typed /\ Parts
  BY Unfolded
<1>1. /\ deleting' \in [Execs -> {"no", "queued", "row"}]
      /\ events' \in 0..MaxEvents
      /\ UNCHANGED <<capacity, queue, granted, enabled, reserved, active, cancelled, hooking, row,
                     at, timed, giveUp, slept, torn, stopping, stopped, timers, phase, startup,
                     unfinished, amending, amended, leftovers>>
  BY <1>0, AttemptsByKind, MaxEventsIsNat DEF Typed, DeleteRequest, queueVars, entryVars, runVars,
     requestVars, processVars, history, startVars, Parts, TypeOK, Spend, Serving
<1>2. QueueConsistent' /\ SlotsAccounted' /\ capacity' <= Limit
  BY <1>0, <1>1, QueueStill DEF Typed, Parts, QueueConsistent, queueVars
<1>3. TypeOK'
  BY <1>0, <1>1, AttemptsByKind, <1>2, MaxEventsIsNat DEF Typed, Parts, TypeOK, Statuses, Places
<1>4. SlotsTraced'
  BY <1>0, <1>1, AttemptsByKind DEF Typed, Parts, SlotsTraced, Registered, Attached
<1>5. EntriesConsistent'
  BY <1>0, <1>1, AttemptsByKind DEF Typed, Parts, EntriesConsistent, Attached, Waits
<1>6. WorkersAlone'
  <2>1. \A f \in Execs : Working(f)' = Working(f)
    BY <1>1 DEF Working
  <2> QED BY <1>0, <1>1, <2>1 DEF Parts, WorkersAlone
<1>7. FreshFirst'
  BY <1>0, <1>1, AttemptsByKind DEF Typed, Parts, FreshFirst, NothingBefore, Unclaimed, OnTheirWay
<1>8. CaughtForGood'
  BY <1>0, <1>1, AttemptsByKind DEF Typed, Parts, CaughtForGood, Dropped
<1>9. CaughtStopsHold'
  BY <1>0, <1>1, AttemptsByKind DEF Typed, Parts, CaughtStopsHold
<1>10. AmendsApart'
  BY <1>0, <1>1, AttemptsByKind, AmendsStay DEF Typed, Waits, Attached
<1> QED BY <1>2, <1>3, <1>4, <1>5, <1>6, <1>7, <1>8, <1>9, <1>10 DEF IInv

\* The row is canceled whatever it says.
LEMMA StoppingInTheRow ==
  ASSUME IInv, NEW e \in Execs, StopInRow(e)
  PROVE  IInv'
<1>0. Typed /\ Parts
  BY Unfolded
<1>1. /\ stopping[e] \in {"caught", "missed"}
      /\ row' \in [Execs -> Statuses] /\ row'[e] \in {"canceled", "absent"}
      /\ \A f \in Execs : f # e => row'[f] = row[f]
      /\ row[e] = "absent" => row'[e] = "absent"
      /\ stopping' \in [Execs -> {"no", "read", "caught", "missed"}] /\ stopping'[e] = "no"
      /\ \A f \in Execs : f # e => stopping'[f] = stopping[f]
      /\ stopped' \in [Execs -> {"no", "caught", "missed"}]
      /\ stopped'[e] \in {stopped[e], stopping[e]}
      /\ \A f \in Execs : f # e => stopped'[f] = stopped[f]
      /\ UNCHANGED <<capacity, queue, granted, enabled, reserved, active, cancelled, hooking, at,
                     timed, giveUp, slept, torn, deleting, timers, phase, startup, unfinished,
                     amending, amended, leftovers, events>>
  BY <1>0, AttemptsByKind, MaxEventsIsNat DEF Typed, StopInRow, SetRow, entryVars, Statuses,
     queueVars, runVars, requestVars, processVars, history, startVars, Parts, TypeOK, Spend,
     Serving
<1>2. QueueConsistent' /\ SlotsAccounted' /\ capacity' <= Limit
  BY <1>0, <1>1, QueueStill DEF Typed, Parts, QueueConsistent, queueVars
<1>3. TypeOK'
  BY <1>0, <1>1, AttemptsByKind, <1>2, MaxEventsIsNat DEF Typed, Parts, TypeOK, Statuses, Places
<1>4. SlotsTraced'
  BY <1>0, <1>1, AttemptsByKind DEF Typed, Parts, SlotsTraced, Registered, Attached
<1>5. EntriesConsistent'
  BY <1>0, <1>1, AttemptsByKind DEF Typed, Parts, EntriesConsistent, Attached, Waits
<1>6. WorkersAlone'
  <2>1. \A f \in Execs : Working(f)' = Working(f)
    BY <1>1 DEF Working
  <2>2. \A f \in Execs \ torn :
          Working(f) # {} => row'[f] \notin {"new", "waiting", "success", "error"}
    BY <1>0, <1>1 DEF Parts, WorkersAlone
  <2> QED BY <1>0, <1>1, <2>1, <2>2 DEF Parts, WorkersAlone
<1>7. FreshFirst'
  BY <1>0, <1>1, AttemptsByKind DEF Typed, Parts, FreshFirst, NothingBefore, Unclaimed, OnTheirWay
<1>8. CaughtForGood'
  BY <1>0, <1>1, AttemptsByKind DEF Typed, Parts, CaughtForGood, Dropped
<1>9. CaughtStopsHold'
  BY <1>0, <1>1, AttemptsByKind DEF Typed, Parts, CaughtStopsHold
<1>10. AmendsApart'
  BY <1>0, <1>1, AttemptsByKind, AmendsStay DEF Typed, Waits, Attached
<1> QED BY <1>2, <1>3, <1>4, <1>5, <1>6, <1>7, <1>8, <1>9, <1>10 DEF IInv

\* The row goes.
LEMMA DeletingTheRow ==
  ASSUME IInv, NEW e \in Execs, DeleteRow(e)
  PROVE  IInv'
<1>0. Typed /\ Parts
  BY Unfolded
<1>1. /\ row' \in [Execs -> Statuses] /\ row'[e] = "absent"
      /\ \A f \in Execs : f # e => row'[f] = row[f]
      /\ deleting' \in [Execs -> {"no", "queued", "row"}]
      /\ UNCHANGED <<capacity, queue, granted, enabled, reserved, active, cancelled, hooking, at,
                     timed, giveUp, slept, torn, stopping, stopped, timers, phase, startup,
                     unfinished, amending, amended, leftovers, events>>
  BY <1>0, AttemptsByKind, MaxEventsIsNat DEF Typed, DeleteRow, entryVars, Statuses, queueVars,
     runVars, requestVars, processVars, history, startVars, Parts, TypeOK, Spend, Serving
<1>2. QueueConsistent' /\ SlotsAccounted' /\ capacity' <= Limit
  BY <1>0, <1>1, QueueStill DEF Typed, Parts, QueueConsistent, queueVars
<1>3. TypeOK'
  BY <1>0, <1>1, AttemptsByKind, <1>2, MaxEventsIsNat DEF Typed, Parts, TypeOK, Statuses, Places
<1>4. SlotsTraced'
  BY <1>0, <1>1, AttemptsByKind DEF Typed, Parts, SlotsTraced, Registered, Attached
<1>5. EntriesConsistent'
  BY <1>0, <1>1, AttemptsByKind DEF Typed, Parts, EntriesConsistent, Attached, Waits
<1>6. WorkersAlone'
  <2>1. \A f \in Execs : Working(f)' = Working(f)
    BY <1>1 DEF Working
  <2>2. \A f \in Execs \ torn :
          Working(f) # {} => row'[f] \notin {"new", "waiting", "success", "error"}
    BY <1>0, <1>1 DEF Parts, WorkersAlone
  <2> QED BY <1>0, <1>1, <2>1, <2>2 DEF Parts, WorkersAlone
<1>7. FreshFirst'
  BY <1>0, <1>1, AttemptsByKind DEF Typed, Parts, FreshFirst, NothingBefore, Unclaimed, OnTheirWay
<1>8. CaughtForGood'
  BY <1>0, <1>1, AttemptsByKind DEF Typed, Parts, CaughtForGood, Dropped
<1>9. CaughtStopsHold'
  BY <1>0, <1>1, AttemptsByKind DEF Typed, Parts, CaughtStopsHold
<1>10. AmendsApart'
  BY <1>0, <1>1, AttemptsByKind, AmendsStay DEF Typed, Waits, Attached
<1> QED BY <1>2, <1>3, <1>4, <1>5, <1>6, <1>7, <1>8, <1>9, <1>10 DEF IInv

\* The wait tracker sets a timer.
LEMMA Tracking ==
  ASSUME IInv, NEW e \in Execs, Track(e)
  PROVE  IInv'
<1>0. Typed /\ Parts
  BY Unfolded
<1>1. /\ row[e] = "waiting" /\ timers' = timers \cup {e}
      /\ UNCHANGED <<capacity, queue, granted, enabled, reserved, active, cancelled, hooking, row,
                     at, timed, giveUp, slept, torn, stopping, stopped, deleting, phase, startup,
                     unfinished, amending, amended, leftovers, events>>
  BY <1>0, AttemptsByKind, MaxEventsIsNat DEF Typed, Track, queueVars, entryVars, runVars,
     requestVars, processVars, Parts, TypeOK, Spend, Serving, history, startVars
<1>2. QueueConsistent' /\ SlotsAccounted' /\ capacity' <= Limit
  BY <1>0, <1>1, QueueStill DEF Typed, Parts, QueueConsistent, queueVars
<1>3. TypeOK'
  BY <1>0, <1>1, AttemptsByKind, <1>2, MaxEventsIsNat DEF Typed, Parts, TypeOK, Statuses, Places
<1>4. SlotsTraced'
  BY <1>0, <1>1, AttemptsByKind DEF Typed, Parts, SlotsTraced, Registered, Attached
<1>5. EntriesConsistent'
  BY <1>0, <1>1, AttemptsByKind DEF Typed, Parts, EntriesConsistent, Attached, Waits
<1>6. WorkersAlone'
  <2>1. \A f \in Execs : Working(f)' = Working(f)
    BY <1>1 DEF Working
  <2> QED BY <1>0, <1>1, <2>1 DEF Parts, WorkersAlone
<1>7. FreshFirst'
  BY <1>0, <1>1, AttemptsByKind DEF Typed, Parts, FreshFirst, NothingBefore, Unclaimed, OnTheirWay
<1>8. CaughtForGood'
  BY <1>0, <1>1, AttemptsByKind DEF Typed, Parts, CaughtForGood, Dropped
<1>9. CaughtStopsHold'
  BY <1>0, <1>1, AttemptsByKind DEF Typed, Parts, CaughtStopsHold
<1>10. AmendsApart'
  BY <1>0, <1>1, AttemptsByKind, AmendsStay DEF Typed, Waits, Attached
<1> QED BY <1>2, <1>3, <1>4, <1>5, <1>6, <1>7, <1>8, <1>9, <1>10 DEF IInv

\* Start-up looks for executions that run, or that the log says did not end.
LEMMA Collecting ==
  ASSUME IInv, CollectUnfinished
  PROVE  IInv'
<1>0. Typed /\ Parts
  BY Unfolded
<1>1. /\ startup = "unread" /\ startup' = "recovering" /\ phase # "down"
      /\ unfinished' \subseteq {e \in Execs : row[e] \in {"running", "waiting"}}
      /\ UNCHANGED <<capacity, queue, granted, enabled, reserved, active, cancelled, hooking, row,
                     at, timed, giveUp, slept, torn, stopping, stopped, deleting, timers, phase,
                     amending, amended, leftovers, events>>
  BY DEF CollectUnfinished, queueVars, entryVars, runVars, requestVars, history
<1>a. /\ \A e \in Execs : stopping[e] # "caught" /\ amending[e] = "no"
      /\ torn = {} /\ amended = {}
      /\ \A e \in unfinished' :
           at[Fresh(e)] \notin {"idle", "created", "queued"} /\ stopped[e] # "caught"
  BY <1>0, <1>1 DEF Typed, Parts, FreshFirst, NothingBefore, CaughtForGood, CaughtStopsHold,
     AmendsApart
<1>2. QueueConsistent' /\ SlotsAccounted' /\ capacity' <= Limit
  BY <1>0, <1>1, QueueStill DEF Typed, Parts, QueueConsistent, queueVars
<1>3. TypeOK'
  BY <1>0, <1>1, <1>a, AttemptsByKind, <1>2, MaxEventsIsNat
     DEF Typed, Parts, TypeOK, Statuses, Places
<1>4. SlotsTraced'
  BY <1>0, <1>1, <1>a, AttemptsByKind DEF Typed, Parts, SlotsTraced, Registered, Attached
<1>5. EntriesConsistent'
  BY <1>0, <1>1, <1>a, AttemptsByKind DEF Typed, Parts, EntriesConsistent, Attached, Waits
<1>6. WorkersAlone'
  <2>1. \A f \in Execs : Working(f)' = Working(f)
    BY <1>1 DEF Working
  <2> QED BY <1>0, <1>1, <1>a, <2>1 DEF Parts, WorkersAlone
<1>7. FreshFirst'
  BY <1>0, <1>1, <1>a, AttemptsByKind
     DEF Typed, Parts, FreshFirst, NothingBefore, Unclaimed, OnTheirWay
<1>8. CaughtForGood'
  BY <1>0, <1>1, <1>a, AttemptsByKind DEF Typed, Parts, CaughtForGood, Dropped
<1>9. CaughtStopsHold'
  BY <1>0, <1>1, <1>a, AttemptsByKind DEF Typed, Parts, CaughtStopsHold
<1>10. AmendsApart'
  <2>1. \A f \in Execs : Working(f)' = Working(f)
    BY <1>1 DEF Working
  <2> QED BY <1>0, <1>1, <1>a, <2>1 DEF Parts, AmendsApart, Attached, Waits
<1> QED BY <1>2, <1>3, <1>4, <1>5, <1>6, <1>7, <1>8, <1>9, <1>10 DEF IInv

\* Crash recovery takes up one of them: leaves it, marks its row crashed, or reads it.
LEMMA RecoveringCrashed ==
  ASSUME IInv, NEW e \in Execs, RecoverCrashed(e)
  PROVE  IInv'
<1>0. Typed /\ Parts
  BY Unfolded
<1>1. /\ e \in unfinished /\ unfinished' = unfinished \ {e}
      /\ \A f \in Execs : amending[f] = "no"
      /\ row' \in [Execs -> Statuses] /\ \A f \in Execs : f # e => row'[f] = row[f]
      /\ row'[e] = row[e] \/ (row[e] = "running" /\ row'[e] = "crashed")
      /\ amending' \in [Execs -> {"no", "marked", "waited", "crashed"}]
      /\ \A f \in Execs : f # e => amending'[f] = "no"
      /\ amending'[e] \in {"no", "marked"} \/ row'[e] \in {"running", "crashed", "waiting"}
      /\ torn \subseteq torn' /\ torn' \subseteq torn \cup {e}
      /\ row'[e] # row[e] \/ amending'[e] # "no" => Working(e) = {} \/ e \in torn'
      /\ UNCHANGED <<capacity, queue, granted, enabled, reserved, active, cancelled, hooking, at,
                     timed, giveUp, slept, stopping, stopped, deleting, timers, phase, startup,
                     amended, leftovers, events>>
  <2>1. /\ e \in unfinished /\ unfinished' = unfinished \ {e}
        /\ \A f \in Execs : amending[f] = "no"
        /\ UNCHANGED <<capacity, queue, granted, enabled, reserved, active, cancelled, hooking,
                       at, timed, giveUp, slept, stopping, stopped, deleting, timers, phase,
                       startup, amended, leftovers, events>>
    BY DEF RecoverCrashed, queueVars, entryVars, requestVars
  <2> DEFINE Amendings == {"no", "marked", "waited", "crashed"}
  <2>2. row \in [Execs -> Statuses] /\ amending \in [Execs -> Amendings] /\ e \in Execs
    BY <1>0, <2>1 DEF Typed
  <2>3. CASE UNCHANGED <<row, amending, torn>>
    <3>1. row' = row /\ amending' = amending /\ torn' = torn
      BY <2>3
    <3>2. amending'[e] = "no"
      BY <2>1, <3>1
    <3> QED BY <2>1, <2>2, <3>1, <3>2
  <2> DEFINE Reads == row[e] \in {"running", "crashed", "waiting"} /\ row' = row
  <2>4. ASSUME NEW a \in Amendings, amending' = [amending EXCEPT ![e] = a],
               \/ Reads
               \/ /\ a \in {"no", "marked"}
                  /\ row' = [row EXCEPT ![e] = IF @ = "running" THEN "crashed" ELSE @],
               torn' = IF Working(e) # {} THEN torn \cup {e} ELSE torn
        PROVE  <1>1!:
    <3>1. /\ row' \in [Execs -> Statuses] /\ \A f \in Execs : f # e => row'[f] = row[f]
          /\ row'[e] = row[e] \/ (row[e] = "running" /\ row'[e] = "crashed")
      <4>1. CASE Reads
        BY <2>2, <4>1
      <4>2. CASE row' = [row EXCEPT ![e] = IF @ = "running" THEN "crashed" ELSE @]
        BY <2>2, <4>2 DEF Statuses
      <4> QED BY <2>4, <4>1, <4>2
    <3>2. /\ amending' \in [Execs -> Amendings] /\ amending'[e] = a
          /\ \A f \in Execs : f # e => amending'[f] = "no"
      BY <2>1, <2>2, <2>4
    <3>3. amending'[e] \in {"no", "marked"} \/ row'[e] \in {"running", "crashed", "waiting"}
      BY <2>4, <3>2
    <3>4. /\ torn \subseteq torn' /\ torn' \subseteq torn \cup {e}
          /\ Working(e) = {} \/ e \in torn'
      BY <2>4
    <3> HIDE DEF Reads
    <3> QED BY <2>1, <3>1, <3>2, <3>3, <3>4
  <2>5. CASE /\ row' = [row EXCEPT ![e] = IF @ = "running" THEN "crashed" ELSE @]
             /\ \E a \in {"no", "marked"} : amending' = [amending EXCEPT ![e] = a]
             /\ torn' = IF Working(e) # {} THEN torn \cup {e} ELSE torn
    <3>1. PICK a \in {"no", "marked"} : amending' = [amending EXCEPT ![e] = a]
      BY <2>5
    <3>2. a \in Amendings
      OBVIOUS
    <3> QED BY <2>4, <2>5, <3>1, <3>2
  <2>6. CASE /\ row[e] \in {"running", "crashed", "waiting"}
             /\ amending' = [amending EXCEPT
                              ![e] = IF row[e] = "waiting" THEN "waited" ELSE "crashed"]
             /\ torn' = IF Working(e) # {} THEN torn \cup {e} ELSE torn
             /\ UNCHANGED row
    <3> DEFINE a == IF row[e] = "waiting" THEN "waited" ELSE "crashed"
    <3>1. a \in Amendings /\ amending' = [amending EXCEPT ![e] = a] /\ Reads
      BY <2>6
    <3> HIDE DEF a, Reads
    <3> QED BY <2>4, <2>6, <3>1
  <2> QED BY <2>3, <2>5, <2>6 DEF RecoverCrashed
<1>a. /\ at[Fresh(e)] \notin {"idle", "created", "queued"} /\ row[e] # "new"
      /\ "caught" \notin {stopping[e], stopped[e]} /\ startup = "recovering" /\ amended = {}
  BY <1>0, <1>1 DEF Typed, Parts, CaughtForGood, AmendsApart
<1>2. QueueConsistent' /\ SlotsAccounted' /\ capacity' <= Limit
  BY <1>0, <1>1, QueueStill DEF Typed, Parts, QueueConsistent, queueVars
<1>3. TypeOK'
  <2>1. /\ amending' \in [Execs -> {"no", "marked", "waited"} \cup (Statuses \ {"absent", "new"})]
        /\ torn' \subseteq Execs /\ unfinished' \subseteq Execs
    BY <1>0, <1>1 DEF Typed, Statuses
  <2> QED BY <1>0, <1>1, <1>2, <2>1 DEF Parts, TypeOK
<1>4. SlotsTraced'
  BY <1>0, <1>1, <1>a, AttemptsByKind DEF Typed, Parts, SlotsTraced, Registered, Attached
<1>5. EntriesConsistent'
  BY <1>0, <1>1, <1>a, AttemptsByKind DEF Typed, Parts, EntriesConsistent, Attached, Waits
<1>6. WorkersAlone'
  <2>1. \A f \in Execs : Working(f)' = Working(f)
    BY <1>1 DEF Working
  <2> QED BY <1>0, <1>1, <1>a, <2>1 DEF Parts, WorkersAlone
<1>7. FreshFirst'
  BY <1>0, <1>1, <1>a, AttemptsByKind
     DEF Typed, Parts, FreshFirst, NothingBefore, Unclaimed, OnTheirWay
<1>8. CaughtForGood'
  BY <1>0, <1>1, <1>a, AttemptsByKind DEF Typed, Parts, CaughtForGood, Dropped
<1>9. CaughtStopsHold'
  BY <1>0, <1>1, <1>a, AttemptsByKind DEF Typed, Parts, CaughtStopsHold
<1>10. AmendsApart'
  <2>1. \A f \in Execs : Working(f)' = Working(f)
    BY <1>1 DEF Working
  <2> QED BY <1>0, <1>1, <1>a, <2>1 DEF Parts, AmendsApart, Attached, Waits
<1> QED BY <1>2, <1>3, <1>4, <1>5, <1>6, <1>7, <1>8, <1>9, <1>10 DEF IInv

\* What was marked crashed is read back, and is what is written later.
LEMMA ReadingMarked ==
  ASSUME IInv, NEW e \in Execs, ReadMarked(e)
  PROVE  IInv'
<1>0. Typed /\ Parts
  BY Unfolded
<1>1. /\ amending[e] = "marked"
      /\ amending' \in [Execs -> {"no", "marked", "waited"} \cup (Statuses \ {"absent", "new"})]
      /\ amending'[e] \in {"no", row[e]} /\ \A f \in Execs : f # e => amending'[f] = amending[f]
      /\ UNCHANGED <<capacity, queue, granted, enabled, reserved, active, cancelled, hooking, row,
                     at, timed, giveUp, slept, torn, stopping, stopped, deleting, timers, phase,
                     startup, unfinished, amended, leftovers, events>>
  <2>1. amending[e] = "marked" /\ row[e] \in Statuses /\ row[e] # "new"
    BY <1>0 DEF ReadMarked, Typed, Parts, AmendsApart
  <2>2. UNCHANGED <<capacity, queue, granted, enabled, reserved, active, cancelled, hooking, row,
                    at, timed, giveUp, slept, torn, stopping, stopped, deleting, timers, phase,
                    startup, unfinished, amended, leftovers, events>>
    BY DEF ReadMarked, queueVars, entryVars, runVars, requestVars, history
  <2> QED BY <1>0, <2>1, <2>2 DEF ReadMarked, Typed
<1>a. /\ at[Fresh(e)] \notin {"idle", "created", "queued"} /\ row[e] # "new" /\ e \notin amended
      /\ "caught" \notin {stopping[e], stopped[e]} /\ startup = "recovering"
      /\ e \notin torn => Working(e) = {}
      /\ row[e] = "waiting" /\ e \notin torn =>
           /\ Attached(e) => Waits(e)
           /\ \A b \in reserved : Exec(b) = e => e \in slept
  BY <1>0, <1>1 DEF Typed, Parts, CaughtForGood, AmendsApart, EntriesConsistent, SlotsTraced
<1>2. QueueConsistent' /\ SlotsAccounted' /\ capacity' <= Limit
  BY <1>0, <1>1, QueueStill DEF Typed, Parts, QueueConsistent, queueVars
<1>3. TypeOK'
  BY <1>0, <1>1, <1>a, AttemptsByKind, <1>2, MaxEventsIsNat
     DEF Typed, Parts, TypeOK, Statuses, Places
<1>4. SlotsTraced'
  BY <1>0, <1>1, <1>a, AttemptsByKind DEF Typed, Parts, SlotsTraced, Registered, Attached
<1>5. EntriesConsistent'
  BY <1>0, <1>1, <1>a, AttemptsByKind DEF Typed, Parts, EntriesConsistent, Attached, Waits
<1>6. WorkersAlone'
  <2>1. \A f \in Execs : Working(f)' = Working(f)
    BY <1>1 DEF Working
  <2> QED BY <1>0, <1>1, <1>a, <2>1 DEF Parts, WorkersAlone
<1>7. FreshFirst'
  BY <1>0, <1>1, <1>a, AttemptsByKind
     DEF Typed, Parts, FreshFirst, NothingBefore, Unclaimed, OnTheirWay
<1>8. CaughtForGood'
  BY <1>0, <1>1, <1>a, AttemptsByKind DEF Typed, Parts, CaughtForGood, Dropped
<1>9. CaughtStopsHold'
  BY <1>0, <1>1, <1>a, AttemptsByKind DEF Typed, Parts, CaughtStopsHold
<1>10. AmendsApart'
  <2>1. \A f \in Execs : Working(f)' = Working(f)
    BY <1>1 DEF Working
  <2> QED BY <1>0, <1>1, <1>a, <2>1 DEF Parts, AmendsApart, Attached, Waits
<1> QED BY <1>2, <1>3, <1>4, <1>5, <1>6, <1>7, <1>8, <1>9, <1>10 DEF IInv

\* Both writes of crash recovery: the status it read, by id, and what the save hook adds.
LEMMA WritingBack ==
  ASSUME IInv, NEW e \in Execs, amending[e] \notin {"no", "marked"},
         row' \in [Execs -> Statuses], \A f \in Execs : f # e => row'[f] = row[f],
         row'[e] \in {row[e], "absent", IF amending[e] = "waited" THEN "crashed" ELSE amending[e]},
         amending' \in [Execs -> {"no", "marked", "waited"} \cup (Statuses \ {"absent", "new"})],
         amending'[e] \in {"no", amending[e]}, \A f \in Execs : f # e => amending'[f] = amending[f],
         amended' \subseteq Execs, \A f \in Execs : f # e => (f \in amended' <=> f \in amended),
         e \in amended' => amending'[e] # "no",
         UNCHANGED <<capacity, queue, granted, enabled, reserved, active, cancelled, hooking, at,
                     timed, giveUp, slept, torn, stopping, stopped, deleting, timers, phase,
                     startup, unfinished, leftovers, events>>
  PROVE  IInv'
<1>0. Typed /\ Parts
  BY Unfolded
<1>1. /\ row' \in [Execs -> Statuses] /\ \A f \in Execs : f # e => row'[f] = row[f]
      /\ row'[e] \in {row[e], "absent", "crashed", amending[e]} /\ row'[e] # "waited"
      /\ amending' \in [Execs -> {"no", "marked", "waited"} \cup (Statuses \ {"absent", "new"})]
      /\ amending'[e] \in {"no", amending[e]}
      /\ \A f \in Execs : f # e => amending'[f] = amending[f]
      /\ amended' \subseteq Execs /\ \A f \in Execs : f # e => (f \in amended' <=> f \in amended)
      /\ e \in amended' => amending'[e] # "no"
      /\ UNCHANGED <<capacity, queue, granted, enabled, reserved, active, cancelled, hooking, at,
                     timed, giveUp, slept, torn, stopping, stopped, deleting, timers, phase,
                     startup, unfinished, leftovers, events>>
  BY <1>0 DEF Typed, Statuses
<1>a. /\ at[Fresh(e)] \notin {"idle", "created", "queued"} /\ row'[e] # "new"
      /\ amending[e] \notin {"no", "marked", "new"}
      /\ "caught" \notin {stopping[e], stopped[e]} /\ startup = "recovering"
      /\ e \notin torn => Working(e) = {}
      /\ e \notin torn /\ row'[e] \in {"success", "error"} => amending[e] = row'[e]
      /\ amending[e] = "waiting" \/ row'[e] = "waiting" =>
           /\ Attached(e) => Waits(e) \/ e \in torn
           /\ \A b \in reserved : Exec(b) = e => e \in slept \cup torn
  BY <1>0, <1>1 DEF Typed, Parts, CaughtForGood, AmendsApart, EntriesConsistent, SlotsTraced
<1>2. QueueConsistent' /\ SlotsAccounted' /\ capacity' <= Limit
  BY <1>0, <1>1, QueueStill DEF Typed, Parts, QueueConsistent, queueVars
<1>3. TypeOK'
  BY <1>0, <1>1, <1>a, AttemptsByKind, <1>2, MaxEventsIsNat
     DEF Typed, Parts, TypeOK, Statuses, Places
<1>4. SlotsTraced'
  BY <1>0, <1>1, <1>a, AttemptsByKind DEF Typed, Parts, SlotsTraced, Registered, Attached
<1>5. EntriesConsistent'
  BY <1>0, <1>1, <1>a, AttemptsByKind DEF Typed, Parts, EntriesConsistent, Attached, Waits
<1>6. WorkersAlone'
  <2>1. \A f \in Execs : Working(f)' = Working(f)
    BY <1>1 DEF Working
  <2> QED BY <1>0, <1>1, <1>a, <2>1 DEF Parts, WorkersAlone
<1>7. FreshFirst'
  BY <1>0, <1>1, <1>a, AttemptsByKind
     DEF Typed, Parts, FreshFirst, NothingBefore, Unclaimed, OnTheirWay
<1>8. CaughtForGood'
  BY <1>0, <1>1, <1>a, AttemptsByKind DEF Typed, Parts, CaughtForGood, Dropped
<1>9. CaughtStopsHold'
  BY <1>0, <1>1, <1>a, AttemptsByKind DEF Typed, Parts, CaughtStopsHold
<1>10. AmendsApart'
  <2>1. \A f \in Execs : Working(f)' = Working(f)
    BY <1>1 DEF Working
  <2> QED BY <1>0, <1>1, <1>a, <2>1 DEF Parts, AmendsApart, Attached, Waits
<1> QED BY <1>2, <1>3, <1>4, <1>5, <1>6, <1>7, <1>8, <1>9, <1>10 DEF IInv

\* The status that was read is written.
LEMMA Amending ==
  ASSUME IInv, NEW e \in Execs, Amend(e)
  PROVE  IInv'
<1>0. Typed /\ Parts
  BY Unfolded
<1> DEFINE s == IF amending[e] = "waited" THEN "crashed" ELSE amending[e]
<1>1. /\ amending[e] \notin {"no", "marked"}
      /\ row' = [row EXCEPT ![e] = IF @ = "absent" THEN @ ELSE s]
      /\ amended' = amended \cup {e} /\ amending' = amending
      /\ UNCHANGED <<capacity, queue, granted, enabled, reserved, active, cancelled, hooking, at,
                     timed, giveUp, slept, torn, stopping, stopped, deleting, timers, phase,
                     startup, unfinished, leftovers, events>>
  BY DEF Amend, Amended, SetRow, queueVars, entryVars, requestVars, history
<1>2. s \in Statuses
  BY <1>0, <1>1 DEF Typed, Statuses
<1>3. /\ row' \in [Execs -> Statuses] /\ \A f \in Execs : f # e => row'[f] = row[f]
      /\ row'[e] \in {row[e], "absent", s}
  BY <1>0, <1>1, <1>2 DEF Typed
<1>4. /\ amending' \in [Execs -> {"no", "marked", "waited"} \cup (Statuses \ {"absent", "new"})]
      /\ amended' \subseteq Execs
  BY <1>0, <1>1 DEF Typed
<1> QED BY <1>1, <1>3, <1>4, WritingBack

\* The save hook follows.
LEMMA RunningHooks ==
  ASSUME IInv, NEW e \in Execs, RunHooks(e)
  PROVE  IInv'
<1>0. Typed /\ Parts
  BY Unfolded
<1> DEFINE s == IF amending[e] = "waited" THEN "crashed" ELSE amending[e]
<1>1. /\ amended' = amended \ {e} /\ amending' = [amending EXCEPT ![e] = "no"] /\ e \in amended
      /\ \/ row' = [row EXCEPT ![e] = IF @ \in {"absent", "canceled"} THEN @ ELSE s]
         \/ row' = [row EXCEPT ![e] = "absent"]
      /\ UNCHANGED <<capacity, queue, granted, enabled, reserved, active, cancelled, hooking, at,
                     timed, giveUp, slept, torn, stopping, stopped, deleting, timers, phase,
                     startup, unfinished, leftovers, events>>
  BY DEF RunHooks, Amended, SaveRow, queueVars, entryVars, requestVars, history
<1>2. s \in Statuses /\ amending[e] \notin {"no", "marked"}
  BY <1>0, <1>1 DEF Typed, Parts, AmendsApart, Statuses
<1>3. /\ row' \in [Execs -> Statuses] /\ \A f \in Execs : f # e => row'[f] = row[f]
      /\ row'[e] \in {row[e], "absent", s}
  <2>1. CASE row' = [row EXCEPT ![e] = IF @ \in {"absent", "canceled"} THEN @ ELSE s]
    BY <1>0, <1>2, <2>1 DEF Typed
  <2>2. CASE row' = [row EXCEPT ![e] = "absent"]
    BY <1>0, <2>2 DEF Typed, Statuses
  <2> QED BY <1>1, <2>1, <2>2
<1>4. /\ amending' \in [Execs -> {"no", "marked", "waited"} \cup (Statuses \ {"absent", "new"})]
      /\ amended' \subseteq Execs /\ amending'[e] = "no"
      /\ \A f \in Execs : f # e => amending'[f] = amending[f]
  BY <1>0, <1>1 DEF Typed
<1> QED BY <1>1, <1>2, <1>3, <1>4, WritingBack

\* Start-up reads the rows that were never started.
LEMMA FindingLeftovers ==
  ASSUME IInv, FindLeftovers
  PROVE  IInv'
<1>0. Typed /\ Parts
  BY Unfolded
<1>1. /\ startup = "recovering" /\ startup' = "over"
      /\ unfinished = {} /\ \A e \in Execs : amending[e] = "no"
      /\ leftovers' = {e \in Execs : row[e] = "new"}
      /\ UNCHANGED <<capacity, queue, granted, enabled, reserved, active, cancelled, hooking, row,
                     at, timed, giveUp, slept, torn, stopping, stopped, deleting, timers, phase,
                     unfinished, amending, amended, events>>
  BY DEF FindLeftovers, queueVars, entryVars, runVars, requestVars, history
<1>a. /\ \A e \in Execs : stopping[e] # "caught"
      /\ phase # "down" /\ amended = {}
  BY <1>0, <1>1 DEF Typed, Parts, FreshFirst, CaughtForGood, AmendsApart
<1>2. QueueConsistent' /\ SlotsAccounted' /\ capacity' <= Limit
  BY <1>0, <1>1, QueueStill DEF Typed, Parts, QueueConsistent, queueVars
<1>3. TypeOK'
  BY <1>0, <1>1, <1>a, AttemptsByKind, <1>2, MaxEventsIsNat
     DEF Typed, Parts, TypeOK, Statuses, Places
<1>4. SlotsTraced'
  BY <1>0, <1>1, <1>a, AttemptsByKind DEF Typed, Parts, SlotsTraced, Registered, Attached
<1>5. EntriesConsistent'
  BY <1>0, <1>1, <1>a, AttemptsByKind DEF Typed, Parts, EntriesConsistent, Attached, Waits
<1>6. WorkersAlone'
  <2>1. \A f \in Execs : Working(f)' = Working(f)
    BY <1>1 DEF Working
  <2> QED BY <1>0, <1>1, <2>1 DEF Parts, WorkersAlone
<1>7. FreshFirst'
  BY <1>0, <1>1, <1>a, AttemptsByKind
     DEF Typed, Parts, FreshFirst, NothingBefore, Unclaimed, OnTheirWay
<1>8. CaughtForGood'
  BY <1>0, <1>1, <1>a, AttemptsByKind DEF Typed, Parts, CaughtForGood, Dropped
<1>9. CaughtStopsHold'
  BY <1>0, <1>1, <1>a, AttemptsByKind DEF Typed, Parts, CaughtStopsHold
<1>10. AmendsApart'
  BY <1>0, <1>1, <1>a DEF AmendsApart
<1> QED BY <1>2, <1>3, <1>4, <1>5, <1>6, <1>7, <1>8, <1>9, <1>10 DEF IInv

\* The process is up again.
LEMMA Restarting ==
  ASSUME IInv, Restart
  PROVE  IInv'
<1>0. Typed /\ Parts
  BY Unfolded
<1>1. /\ phase = "down" /\ phase' = "up"
      /\ UNCHANGED <<capacity, queue, granted, enabled, reserved, active, cancelled, hooking, row,
                     at, timed, giveUp, slept, torn, stopping, stopped, deleting, timers, startup,
                     unfinished, amending, amended, leftovers, events>>
  BY DEF Restart, queueVars, entryVars, runVars, requestVars, history, startVars
<1>2. QueueConsistent' /\ SlotsAccounted' /\ capacity' <= Limit
  BY <1>0, <1>1, QueueStill DEF Typed, Parts, QueueConsistent, queueVars
<1>3. TypeOK'
  BY <1>0, <1>1, AttemptsByKind, <1>2, MaxEventsIsNat DEF Typed, Parts, TypeOK, Statuses, Places
<1>4. SlotsTraced'
  BY <1>0, <1>1, AttemptsByKind DEF Typed, Parts, SlotsTraced, Registered, Attached
<1>5. EntriesConsistent'
  BY <1>0, <1>1, AttemptsByKind DEF Typed, Parts, EntriesConsistent, Attached, Waits
<1>6. WorkersAlone'
  <2>1. \A e \in Execs : Working(e)' = Working(e)
    BY <1>1 DEF Working
  <2> QED BY <1>0, <1>1, <2>1 DEF Parts, WorkersAlone
<1>7. FreshFirst'
  BY <1>0, <1>1, AttemptsByKind DEF Typed, Parts, FreshFirst, NothingBefore, Unclaimed, OnTheirWay
<1>8. CaughtForGood'
  BY <1>0, <1>1, AttemptsByKind DEF Typed, Parts, CaughtForGood, Dropped
<1>9. CaughtStopsHold'
  BY <1>0, <1>1, AttemptsByKind DEF Typed, Parts, CaughtStopsHold
<1>10. AmendsApart'
  BY <1>0, <1>1, AttemptsByKind, AmendsStay DEF Typed, Waits, Attached
<1> QED BY <1>2, <1>3, <1>4, <1>5, <1>6, <1>7, <1>8, <1>9, <1>10 DEF IInv

\* The shutdown disables the queue and drops the entries that wait.
LEMMA Stopping ==
  ASSUME IInv, Stop
  PROVE  IInv'
<1>0. Typed /\ Parts
  BY Unfolded
<1>1. /\ phase = "up" /\ phase' = "stopping" /\ enabled' = FALSE /\ events' \in 0..MaxEvents
      /\ active' \in [Execs -> Entry \cup {None}]
      /\ \A e \in Execs : active'[e] = IF Waits(e) THEN None ELSE active[e]
      /\ UNCHANGED <<capacity, queue, granted, reserved, cancelled, hooking, row, at, timed,
                     giveUp, slept, torn, stopping, stopped, deleting, timers, startup, unfinished,
                     amending, amended, leftovers>>
  BY <1>0, AttemptsByKind, MaxEventsIsNat DEF Typed, Stop, ShutDown, queueVars, runVars,
     requestVars, processVars, Parts, TypeOK, Spend, Serving, history, startVars
<1>2. QueueConsistent' /\ SlotsAccounted' /\ capacity' <= Limit
  BY <1>0, <1>1 DEF Parts, TypeOK, QueueConsistent, SlotsAccounted
<1>3. TypeOK'
  BY <1>0, <1>1, AttemptsByKind, <1>2, MaxEventsIsNat DEF Typed, Parts, TypeOK, Statuses, Places
<1>4. SlotsTraced'
  BY <1>0, <1>1, AttemptsByKind
     DEF Typed, Parts, SlotsTraced, EntriesConsistent, Registered, Attached, Waits
<1>5. EntriesConsistent'
  BY <1>0, <1>1, AttemptsByKind DEF Typed, Parts, EntriesConsistent, Attached, Waits
<1>6. WorkersAlone'
  <2>1. \A f \in Execs : Working(f)' = Working(f)
    BY <1>1 DEF Working
  <2> QED BY <1>0, <1>1, <2>1 DEF Parts, WorkersAlone
<1>7. FreshFirst'
  BY <1>0, <1>1, AttemptsByKind DEF Typed, Parts, FreshFirst, NothingBefore, Unclaimed, OnTheirWay
<1>8. CaughtForGood'
  BY <1>0, <1>1, AttemptsByKind DEF Typed, Parts, CaughtForGood, Dropped
<1>9. CaughtStopsHold'
  BY <1>0, <1>1, AttemptsByKind DEF Typed, Parts, CaughtStopsHold
<1>10. AmendsApart'
  BY <1>0, <1>1, AttemptsByKind, AmendsStay DEF Typed, Waits, Attached
<1> QED BY <1>2, <1>3, <1>4, <1>5, <1>6, <1>7, <1>8, <1>9, <1>10 DEF IInv

\* Nothing happens.
LEMMA Stuttering ==
  ASSUME IInv, UNCHANGED vars
  PROVE  IInv'
<1>0. Typed /\ Parts
  BY Unfolded
<1>1. /\ TRUE
      /\ UNCHANGED <<capacity, queue, granted, enabled, reserved, active, cancelled, hooking, row,
                     at, timed, giveUp, slept, torn, stopping, stopped, deleting, timers, phase,
                     startup, unfinished, amending, amended, leftovers, events>>
  BY <1>0, AttemptsByKind, MaxEventsIsNat
     DEF Typed, vars, queueVars, entryVars, runVars, requestVars, processVars, history, startVars
<1>2. QueueConsistent' /\ SlotsAccounted' /\ capacity' <= Limit
  BY <1>0, <1>1, QueueStill DEF Typed, Parts, QueueConsistent, queueVars
<1>3. TypeOK'
  BY <1>0, <1>1, AttemptsByKind, <1>2, MaxEventsIsNat DEF Typed, Parts, TypeOK, Statuses, Places
<1>4. SlotsTraced'
  BY <1>0, <1>1, AttemptsByKind DEF Typed, Parts, SlotsTraced, Registered, Attached
<1>5. EntriesConsistent'
  BY <1>0, <1>1, AttemptsByKind DEF Typed, Parts, EntriesConsistent, Attached, Waits
<1>6. WorkersAlone'
  <2>1. \A f \in Execs : Working(f)' = Working(f)
    BY <1>1 DEF Working
  <2> QED BY <1>0, <1>1, <2>1 DEF Parts, WorkersAlone
<1>7. FreshFirst'
  BY <1>0, <1>1, AttemptsByKind DEF Typed, Parts, FreshFirst, NothingBefore, Unclaimed, OnTheirWay
<1>8. CaughtForGood'
  BY <1>0, <1>1, AttemptsByKind DEF Typed, Parts, CaughtForGood, Dropped
<1>9. CaughtStopsHold'
  BY <1>0, <1>1, AttemptsByKind DEF Typed, Parts, CaughtStopsHold
<1>10. AmendsApart'
  BY <1>0, <1>1, AttemptsByKind, AmendsStay DEF Typed, Waits, Attached
<1> QED BY <1>2, <1>3, <1>4, <1>5, <1>6, <1>7, <1>8, <1>9, <1>10 DEF IInv

\* The process is gone, and the attempts with it.
LEMMA Crashing ==
  ASSUME IInv, Crash
  PROVE  IInv'
<1>0. Typed /\ Parts
  BY Unfolded
<1>1. /\ capacity' = Limit /\ queue' = <<>> /\ granted' = {} /\ enabled' = TRUE /\ reserved' = {}
      /\ active' \in [Execs -> Entry \cup {None}] /\ \A e \in Execs : active'[e] = None
      /\ cancelled' = {} /\ hooking' = {} /\ timed' = {} /\ giveUp' = {} /\ slept' = {}
      /\ torn' = {} /\ timers' = {} /\ startup' = "unread" /\ unfinished' = {} /\ amended' = {}
      /\ amending' \in [Execs -> {"no"}] /\ leftovers' = {}
      /\ phase' = "down" /\ events' \in 0..MaxEvents
      /\ at' \in [Attempts -> Places]
      /\ \A a \in Attempts : at'[a] \in {"idle", "done"} /\ (at'[a] = "idle" <=> at[a] = "idle")
      /\ stopping' \in [Execs -> {"no", "read", "caught", "missed"}]
      /\ \A e \in Execs : stopping'[e] = "no"
      /\ deleting' \in [Execs -> {"no", "queued", "row"}]
      /\ UNCHANGED <<row, stopped>>
  BY <1>0, AttemptsByKind, MaxEventsIsNat DEF Typed, Crash, Forget, Places, Parts, TypeOK, Spend
<1>2. QueueConsistent' /\ SlotsAccounted' /\ capacity' <= Limit
  <2>1. InUse' = {} /\ Cardinality({}) = 0 /\ Len(queue') = 0 /\ ToSet(queue') = {}
    BY <1>1, FS_EmptySet DEF InUse, ToSet
  <2>2. Limit \in Int /\ IsInjective(queue')
    BY <1>1, LimitIsPositive DEF IsInjective
  <2> QED BY <1>1, <2>1, <2>2 DEF QueueConsistent, SlotsAccounted
<1>3. TypeOK'
  <2>1. capacity' \in Int /\ queue' \in Seq(Attempts) /\ granted' \subseteq Attempts
    BY <1>1, LimitIsPositive
  <2>2. /\ enabled' \in BOOLEAN /\ reserved' \subseteq Attempts /\ cancelled' \subseteq Attempts
        /\ hooking' \subseteq Attempts /\ timed' \subseteq Attempts /\ giveUp' \subseteq Attempts
        /\ slept' \subseteq Execs /\ timers' \subseteq Execs /\ leftovers' \subseteq Execs
        /\ phase' \in {"up", "stopping", "down"} /\ row' \in [Execs -> Statuses]
        /\ stopped' \in [Execs -> {"no", "caught", "missed"}]
        /\ startup' \in {"unread", "recovering", "over"} /\ unfinished' \subseteq Execs
        /\ torn' \subseteq Execs /\ amended' \subseteq Execs
    BY <1>0, <1>1 DEF Parts, TypeOK
  <2>3. amending' \in [Execs -> {"no", "marked", "waited"} \cup (Statuses \ {"absent", "new"})]
    BY <1>1
  <2> QED BY <1>1, <1>2, <2>1, <2>2, <2>3 DEF TypeOK
<1>4. SlotsTraced'
  BY <1>0, <1>1, AttemptsByKind DEF Typed, Parts, SlotsTraced, Registered, Attached
<1>5. EntriesConsistent'
  BY <1>0, <1>1, AttemptsByKind DEF Typed, Parts, EntriesConsistent, Attached, Waits
<1>6. WorkersAlone'
  <2>1. \A e \in Execs : Working(e)' = {}
    BY <1>1 DEF Working
  <2> QED BY <2>1 DEF WorkersAlone
<1>7. FreshFirst'
  BY <1>0, <1>1, AttemptsByKind DEF Typed, Parts, FreshFirst, NothingBefore, Unclaimed, OnTheirWay
<1>8. CaughtForGood'
  BY <1>0, <1>1, AttemptsByKind DEF Typed, Parts, CaughtForGood, Dropped
<1>9. CaughtStopsHold'
  BY <1>0, <1>1, AttemptsByKind DEF Typed, Parts, CaughtStopsHold
<1>10. AmendsApart'
  BY <1>1, AttemptsByKind DEF AmendsApart, OnTheirWay
<1> QED BY <1>2, <1>3, <1>4, <1>5, <1>6, <1>7, <1>8, <1>9, <1>10 DEF IInv

\* A delete request takes the execution off the queue.
LEMMA DeletingFromTheQueue ==
  ASSUME IInv, NEW e \in Execs, DeleteFromQueue(e)
  PROVE  IInv'
<1>0. Typed /\ Parts
  BY Unfolded
<1>1. /\ QueueAdvances
      /\ deleting' \in [Execs -> {"no", "queued", "row"}]
      /\ UNCHANGED <<enabled, reserved, active, cancelled, hooking, row, at, timed, giveUp, slept,
                     torn, stopping, stopped, timers, phase, startup, unfinished, amending,
                     amended, leftovers, events>>
  <2>1. /\ Unqueue(e) /\ deleting' \in [Execs -> {"no", "queued", "row"}]
        /\ UNCHANGED <<enabled, reserved, active, cancelled, hooking, row, at, timed, giveUp,
                       slept, torn, stopping, stopped, timers, phase, startup, unfinished,
                       amending, amended, leftovers, events>>
    BY <1>0 DEF DeleteFromQueue, Parts, TypeOK, entryVars, runVars, processVars, history,
       startVars
  <2> QED BY <2>1, TakingOff
<1>2. QueueConsistent' /\ SlotsAccounted' /\ capacity' <= Limit
  BY <1>1 DEF QueueAdvances
<1>3. TypeOK'
  BY <1>0, <1>1 DEF Typed, Parts, TypeOK, QueueAdvances
<1>4. SlotsTraced'
  BY <1>0, <1>1, AttemptsByKind DEF Typed, Parts, SlotsTraced, Registered, Attached
<1>5. EntriesConsistent'
  BY <1>0, <1>1, AttemptsByKind DEF Typed, Parts, EntriesConsistent, Attached, Waits
<1>6. WorkersAlone'
  <2>1. \A f \in Execs : Working(f)' = Working(f)
    BY <1>1 DEF Working
  <2> QED BY <1>0, <1>1, <2>1 DEF Parts, WorkersAlone
<1>7. FreshFirst'
  BY <1>0, <1>1, AttemptsByKind DEF Typed, Parts, FreshFirst, NothingBefore, Unclaimed, OnTheirWay
<1>8. CaughtForGood'
  <2>1. \A b \in Attempts : Dropped(b) => Dropped(b)'
    BY <1>1 DEF Dropped, QueueAdvances
  <2> QED BY <1>0, <1>1, <2>1, AttemptsByKind DEF Typed, Parts, CaughtForGood
<1>9. CaughtStopsHold'
  BY <1>0, <1>1, AttemptsByKind DEF Typed, Parts, CaughtStopsHold
<1>10. AmendsApart'
  BY <1>0, <1>1, AttemptsByKind, AmendsStay DEF Typed, Waits, Attached
<1> QED BY <1>2, <1>3, <1>4, <1>5, <1>6, <1>7, <1>8, <1>9, <1>10 DEF IInv

\* A stop takes the execution off the queue, or stops its entry.
LEMMA StoppingInMemory ==
  ASSUME IInv, NEW e \in Execs, StopInMemory(e)
  PROVE  IInv'
<1>0. Typed /\ Parts
  BY Unfolded
<1>1. /\ QueueAdvances /\ stopping[e] = "read"
      /\ stopping' \in [Execs -> {"no", "read", "caught", "missed"}]
      /\ stopping'[e] \in {"caught", "missed"}
      /\ \A f \in Execs : f # e => stopping'[f] = stopping[f]
      /\ active' \in [Execs -> Entry \cup {None}]
      /\ \A f \in Execs : f # e => active'[f] = active[f]
      /\ \/ active' = active /\ reserved' = reserved
         \/ /\ active'[e] = None
            /\ \/ (active[e] # None => active[e].status = "waiting") /\ reserved' = reserved
               \/ active[e] # None /\ reserved' = reserved \ {active[e].by}
      /\ cancelled \subseteq cancelled' /\ cancelled' \subseteq Attempts
      /\ hooking' \subseteq Attempts
      /\ timers' \subseteq timers
      /\ stopping'[e] = "caught" => startup = "over" /\ e \notin leftovers \cup torn
      /\ stopping'[e] = "caught" => \E x \in Attempts :
           /\ Exec(x) = e
           /\ \A b \in Attempts : Exec(b) = e /\ b # x => at[b] \in {"idle", "done"}
           /\ \/ at[x] = "queued" /\ x \notin granted' \cup ToSet(queue') /\ row[e] = "new"
              \/ /\ at[x] \in {"executing", "waiting", "saved"} /\ x \in cancelled'
                 /\ row[e] \notin {"new", "waiting"}
      /\ UNCHANGED <<enabled, row, at, timed, giveUp, slept, torn, stopped, deleting, phase,
                     startup, unfinished, amending, amended, leftovers, events>>
  <2>1. /\ stopping[e] = "read"
        /\ stopping' = [stopping EXCEPT ![e] = IF Hits(e) THEN "caught" ELSE "missed"]
        /\ UNCHANGED <<at, timed, giveUp, slept, torn, row, stopped, deleting, phase, startup,
                       unfinished, amending, amended, leftovers, events>>
    BY DEF StopInMemory, runVars, history, startVars
  <2>2. /\ stopping' \in [Execs -> {"no", "read", "caught", "missed"}]
        /\ stopping'[e] = (IF Hits(e) THEN "caught" ELSE "missed")
        /\ \A f \in Execs : f # e => stopping'[f] = stopping[f]
        /\ stopping'[e] = "caught" => startup = "over" /\ e \notin leftovers \cup torn
    BY <1>0, <2>1 DEF Parts, TypeOK, Hits
  <2>3. SameQueued
    BY <1>0, <2>1 DEF SameQueued, Parts, QueueConsistent
  <2>4. ASSUME Hits(e), NEW x \in InFlight(e)
        PROVE  \A b \in Attempts : Exec(b) = e /\ b # x => at[b] \in {"idle", "done"}
    <3>1. InFlight(e) \in SUBSET Attempts
      BY DEF InFlight, OnTheirWay
    <3>2. IsFiniteSet(InFlight(e)) /\ Cardinality(InFlight(e)) = 1
      BY <2>4, <3>1, AttemptsAreFinite, FS_Subset DEF Hits
    <3>3. PICK y : InFlight(e) = {y}
      BY <3>2, FS_Singleton
    <3> QED BY <2>4, <3>3 DEF InFlight, OnTheirWay
  <2>5. CASE IsQueued(e)
    <3>1. /\ Unqueue(e)
          /\ UNCHANGED <<enabled, reserved, active, cancelled, hooking, timers>>
      BY <2>5 DEF StopInMemory, entryVars
    <3>2. PICK x \in ToSet(queue) : Exec(x) = e /\ x \notin granted' \cup ToSet(queue')
      BY <2>1, <2>5, <3>1, TakingOff
    <3>3. QueueAdvances
      BY <2>1, <3>1, TakingOff
    <3>4. x \in Attempts /\ at[x] = "queued" /\ x \in InFlight(e)
      BY <1>0, <3>2 DEF Typed, Parts, QueueConsistent, InFlight, OnTheirWay
    <3>5. Hits(e) => row[e] = "new"
      BY <2>5 DEF Hits
    <3>6. active' \in [Execs -> Entry \cup {None}] /\ cancelled' \subseteq Attempts
          /\ hooking' \subseteq Attempts
      BY <1>0, <3>1 DEF Parts, TypeOK
    <3> QED BY <2>1, <2>2, <2>4, <3>1, <3>2, <3>3, <3>4, <3>5, <3>6
  <2>6. CASE ~IsQueued(e)
    <3>1. StopEntry(e, Pending) /\ timers' = timers \ {e}
      BY <2>6 DEF StopInMemory
    <3>2. ASSUME Hits(e)
          PROVE  \E x \in Attempts :
                   /\ x \in InFlight(e) /\ Exec(x) = e /\ x \in ToCancel(e, Pending)
                   /\ at[x] \in {"executing", "waiting", "saved"}
                   /\ row[e] \notin {"new", "waiting"}
      <4>1. PICK x : x \in ToCancel(e, Pending)
        BY <2>6, <3>2 DEF Hits
      <4>2. /\ Attached(e) /\ ~Waits(e) /\ x = active[e].wf /\ x \in Attempts
            /\ at[x] \in {"executing", "waiting", "saved"}
        BY <4>1 DEF ToCancel, Pending
      <4>3. Exec(x) = e /\ e \notin torn
        BY <1>0, <3>2, <4>2, NoneIsNoEntry DEF Parts, EntriesConsistent, Hits
      <4>4. row[e] \notin {"new", "waiting"}
        BY <1>0, <4>2, <4>3, Underway DEF Parts, EntriesConsistent
      <4> QED BY <4>1, <4>2, <4>3, <4>4 DEF InFlight, OnTheirWay
    <3>3. /\ QueueAdvances /\ active' \in [Execs -> Entry \cup {None}] /\ enabled' = enabled
          /\ active'[e] = None /\ \A f \in Execs : f # e => active'[f] = active[f]
          /\ \/ (active[e] # None => active[e].status = "waiting") /\ reserved' = reserved
             \/ active[e] # None /\ reserved' = reserved \ {active[e].by}
          /\ cancelled' = cancelled \cup ToCancel(e, Pending)
          /\ cancelled' \subseteq Attempts /\ hooking' \subseteq Attempts
      BY <2>3, <3>1, StoppingTheEntry
    <3>4. Hits(e) => \E x \in Attempts :
            /\ Exec(x) = e
            /\ \A b \in Attempts : Exec(b) = e /\ b # x => at[b] \in {"idle", "done"}
            /\ at[x] \in {"executing", "waiting", "saved"} /\ x \in cancelled'
            /\ row[e] \notin {"new", "waiting"}
      BY <2>4, <3>2, <3>3
    <3> QED BY <2>1, <2>2, <3>1, <3>3, <3>4
  <2> QED BY <2>5, <2>6
<1>2. QueueConsistent' /\ SlotsAccounted' /\ capacity' <= Limit
  BY <1>1 DEF QueueAdvances
<1>3. TypeOK'
  BY <1>0, <1>1 DEF Typed, Parts, TypeOK, QueueAdvances
<1>4. SlotsTraced'
  <2>1. \A b \in reserved' : b \in reserved /\ b \in Attempts
    BY <1>0, <1>1 DEF Typed
  <2>2. \A b \in Attempts : at[b] \in {"taken", "claimed"} /\ b \in reserved => b \in reserved'
    BY <1>0, <1>1 DEF Parts, EntriesConsistent, Attached
  <2>3. \A b \in reserved' : Registered(b) => Registered(b)' \/ Exec(b) \in slept \cup torn
    BY <1>0, <1>1, <2>1, AttemptsByKind DEF Parts, EntriesConsistent, Registered, Attached, Waits
  <2>4. \A b \in reserved' : Registered(b)' => Registered(b)
    BY <1>0, <1>1, <2>1, AttemptsByKind DEF Parts, EntriesConsistent, Registered, Attached, Waits
  <2> QED BY <1>0, <1>1, <2>1, <2>2, <2>3, <2>4, AttemptsByKind DEF Parts, SlotsTraced
<1>5. EntriesConsistent'
  BY <1>0, <1>1, AttemptsByKind DEF Typed, Parts, EntriesConsistent, Attached, Waits
<1>6. WorkersAlone'
  <2>1. \A f \in Execs : Working(f)' = Working(f)
    BY <1>1 DEF Working
  <2> QED BY <1>0, <1>1, <2>1 DEF Parts, WorkersAlone
<1>7. FreshFirst'
  BY <1>0, <1>1, AttemptsByKind DEF Typed, Parts, FreshFirst, NothingBefore, Unclaimed, OnTheirWay
<1>8. CaughtForGood'
  <2>1. \A b \in Attempts : Dropped(b) => Dropped(b)'
    BY <1>1 DEF Dropped, QueueAdvances
  <2>2. CASE stopping'[e] = "missed"
    BY <1>0, <1>1, <2>1, <2>2, AttemptsByKind DEF Typed, Parts, CaughtForGood
  <2>3. CASE stopping'[e] = "caught"
    <3>1. PICK x \in Attempts :
            /\ Exec(x) = e
            /\ \A b \in Attempts : Exec(b) = e /\ b # x => at[b] \in {"idle", "done"}
            /\ \/ at[x] = "queued" /\ x \notin granted' \cup ToSet(queue') /\ row[e] = "new"
               \/ /\ at[x] \in {"executing", "waiting", "saved"} /\ x \in cancelled'
                  /\ row[e] \notin {"new", "waiting"}
      BY <1>1, <2>3
    <3>2. /\ startup = "over" /\ e \notin leftovers \cup unfinished /\ amending[e] = "no"
          /\ row[e] # "waiting"
      BY <1>0, <1>1, <2>3, <3>1 DEF Parts, AmendsApart
    <3>3. at[x] = "queued" => Dropped(x)'
      BY <1>1, <3>1 DEF Dropped
    <3>4. \A f \in Execs : f # e => stopping'[f] = stopping[f]
      BY <1>1
    <3>5. \A a \in Attempts : Exec(a) = e =>
            /\ at[a] \notin {"taken", "claimed", "registered", "launching"}
            /\ at[a] \in {"executing", "waiting"} => a \in cancelled'
            /\ at[a] \in {"created", "queued"} => Dropped(a)'
      BY <3>1, <3>3
    <3> QED BY <1>0, <1>1, <2>1, <3>2, <3>4, <3>5 DEF Parts, CaughtForGood
  <2> QED BY <1>1, <2>2, <2>3
<1>9. CaughtStopsHold'
  BY <1>0, <1>1, AttemptsByKind DEF Typed, Parts, CaughtStopsHold
<1>10. AmendsApart'
  BY <1>0, <1>1, AttemptsByKind, AmendsStay DEF Typed, Waits, Attached
<1> QED BY <1>2, <1>3, <1>4, <1>5, <1>6, <1>7, <1>8, <1>9, <1>10 DEF IInv

\* A slot was granted: the attempt claims the row, or gives the slot back.
LEMMA Claiming ==
  ASSUME IInv, NEW a \in Attempts, Claim(a)
  PROVE  IInv'
<1>1. CASE Kind(a) = "fresh" \/ row[Exec(a)] = Expected(a)
  <2>1. /\ a \in granted /\ at[a] = "queued" /\ Go(a, Started(a)) /\ SetRow(Exec(a), "running")
        /\ reserved' = reserved \cup {a} /\ UNCHANGED queueVars
        /\ UNCHANGED <<enabled, active, cancelled, hooking>>
        /\ torn' = IF Tears(a) THEN torn \cup {Exec(a)} ELSE torn
        /\ UNCHANGED <<timed, giveUp, slept, requestVars, processVars, events>>
    BY <1>1 DEF Claim, Step
  <2> QED BY <1>1, <2>1, ClaimingFor
<1>2. CASE Kind(a) # "fresh" /\ row[Exec(a)] # Expected(a)
  <2>1. /\ a \in granted /\ Step(a, "queued", "done") /\ Kind(a) # "fresh" /\ GiveBack
        /\ UNCHANGED <<reserved, row>> /\ UNCHANGED <<enabled, active, cancelled, hooking>>
        /\ UNCHANGED <<timed, giveUp, slept, torn, requestVars, processVars, events>>
    BY <1>2 DEF Claim
  <2> QED BY <2>1, ClaimingInVain
<1> QED BY <1>1, <1>2

\* Nothing has happened yet.
LEMMA Starting ==
  ASSUME Init
  PROVE  IInv
<1> USE DEF Init, QueueInit, NoEntries
<1>1. TypeOK
  BY LimitIsPositive, MaxEventsIsNat DEF TypeOK, Statuses, Places
<1>2. InUse = {} /\ Len(queue) = 0 /\ ToSet(queue) = {} /\ Cardinality({}) = 0
  BY FS_EmptySet DEF InUse, ToSet
<1>3. QueueConsistent /\ SlotsAccounted
  <2>1. IsInjective(queue) /\ Limit \in Int
    BY LimitIsPositive DEF IsInjective
  <2> QED BY <1>2, <2>1 DEF QueueConsistent, SlotsAccounted
<1>4. SlotsTraced /\ EntriesConsistent /\ WorkersAlone
  BY DEF SlotsTraced, EntriesConsistent, Attached, WorkersAlone, Working
<1>5. FreshFirst /\ AmendsApart /\ CaughtForGood /\ CaughtStopsHold
  BY AttemptsByKind DEF FreshFirst, NothingBefore, AmendsApart, OnTheirWay, CaughtForGood,
     CaughtStopsHold
<1> QED BY <1>1, <1>3, <1>4, <1>5 DEF IInv

\* Every step keeps the invariant.
LEMMA Stepping ==
  ASSUME IInv, [Next]_vars
  PROVE  IInv'
<1>1. CASE UNCHANGED vars
  BY <1>1, Stuttering
<1>2. ASSUME NEW a \in Attempts, Arrive(a)
      PROVE  IInv'
  BY <1>2, Creating, ResumingByTimer, ResumingByWebhook, Recovering DEF Arrive
<1>3. ASSUME NEW a \in OnTheirWay, Prepare(a) \/ PutToWait(a)
      PROVE  IInv'
  <2>1. a \in Attempts
    BY DEF OnTheirWay
  <2> QED BY <1>3, <2>1, Reserving, Claiming, BeginningToRun, Entering, Launching, FailingTheCheck,
             FailingToLaunch, SavingTheFailure, RespondingToNobody, Saving, Ending, PuttingToWait
          DEF Prepare
<1>4. ASSUME NEW a \in timed, TimeOut(a)
      PROVE  IInv'
  BY <1>4, TimingOut
<1>5. ASSUME NEW a \in hooking \cup giveUp, Afterwards(a)
      PROVE  IInv'
  <2>1. a \in Attempts
    BY DEF IInv, TypeOK
  <2> QED BY <1>5, <2>1, SavingCanceled, MarkingUnstartable DEF Afterwards
<1>6. ASSUME NEW e \in Watched,
             StopRequest(e) \/ DeleteRequest(e) \/ CarryOut(e) \/ Track(e)
      PROVE  IInv'
  <2>1. e \in Execs
    BY WatchedAreExecs
  <2> QED BY <1>6, <2>1, AskingToStop, AskingToDelete, StoppingInMemory, StoppingInTheRow,
             DeletingFromTheQueue, DeletingTheRow, Tracking DEF CarryOut
<1>7. CASE Stop \/ Crash \/ Restart
  BY <1>7, Stopping, Crashing, Restarting
<1>8. CASE StartUp
  BY <1>8, Collecting, RecoveringCrashed, ReadingMarked, Amending, RunningHooks, FindingLeftovers
     DEF StartUp, Repair
<1> QED BY <1>1, <1>2, <1>3, <1>4, <1>5, <1>6, <1>7, <1>8 DEF Next

-----------------------------------------------------------------------------
\* Queue, slots, entries and rows stay consistent, whatever overtakes what.
THEOREM Invariance == Spec => []IInv
<1>1. Init => IInv
  BY Starting
<1>2. IInv /\ [Next]_vars => IInv'
  BY Stepping
<1> QED BY <1>1, <1>2, PTL DEF Spec

\* The variables keep their types.
THEOREM TypesAreKept == Spec => []TypeOK
<1>1. IInv => TypeOK
  BY DEF IInv
<1> QED BY <1>1, Invariance, PTL

\* ConcurrencyQueue with ActiveExecutions: every slot is free or in use by one attempt,
\* for any limit, any number of executions and any order of what happens to them.
THEOREM SlotsAreAccounted == Spec => []SlotsAccounted
<1>1. IInv => SlotsAccounted
  BY DEF IInv
<1> QED BY <1>1, Invariance, PTL

\* A slot is lost only to an execution that was put to wait, or that a recovery of the
\* start took up beside an attempt of this process.
THEOREM SlotsReturn == Spec => []SlotsComeBack
<1>1. IInv => SlotsComeBack
  BY DEF IInv, SlotsTraced, SlotsComeBack, Registered
<1> QED BY <1>1, Invariance, PTL

\* No two attempts work on one execution, but for one that a recovery of the start took
\* up beside an attempt of this process.
THEOREM AttemptsWorkAlone == Spec => []OneAttemptWorks
<1>1. ASSUME IInv, NEW e \in Execs \ torn
      PROVE  Cardinality(Working(e)) <= 1
  <2>1. CASE Working(e) = {}
    BY <2>1, FS_EmptySet
  <2>2. ASSUME NEW a \in Working(e)
        PROVE  Cardinality(Working(e)) <= 1
    <3>1. Working(e) = {a}
      BY <1>1 DEF IInv, WorkersAlone
    <3> QED BY <3>1, FS_Singleton
  <2> QED BY <2>1, <2>2
<1>2. IInv => OneAttemptWorks
  BY <1>1 DEF OneAttemptWorks
<1> QED BY <1>2, Invariance, PTL

\* A stop that caught the only attempt of an execution holds.
THEOREM StopsHold == Spec => []CaughtStopsHold
<1>1. IInv => CaughtStopsHold
  BY DEF IInv
<1> QED BY <1>1, Invariance, PTL

-----------------------------------------------------------------------------
\* The steps that write a row leave one that ended as it is, or canceled, or absent.
LEMMA EndedRowsStay ==
  ASSUME IInv, [Next]_vars, NEW e \in Execs, row[e] \in {"success", "error"}, e \notin torn'
  PROVE  row'[e] \in {"success", "error", "canceled", "absent"}
<1> DEFINE Ended(r) == r[e] \in {"success", "error", "canceled", "absent"}
<1>0. Typed /\ Parts
  BY Unfolded
<1>1. CASE row' = row
  BY <1>1
<1>2. ASSUME NEW f \in Execs, NEW s, SetRow(f, s), e = f => s \in {"success", "error", "canceled"}
      PROVE  Ended(row')
  BY <1>0, <1>2 DEF SetRow, Typed
<1>3. ASSUME NEW f \in Execs, NEW s, SaveRow(f, s), e = f => s \in {"success", "error", "canceled"}
      PROVE  Ended(row')
  BY <1>0, <1>3 DEF SaveRow, Typed
<1>4. ASSUME NEW a \in Attempts, a \in Working(e), e \notin torn
      PROVE  FALSE
  BY <1>0, <1>4 DEF Parts, WorkersAlone
<1>5. ASSUME NEW a \in Attempts, Arrive(a)
      PROVE  Ended(row')
  <2>1. CASE Create(a)
    <3>1. Exec(a) # e
      BY <1>0, <2>1, AttemptsByKind DEF Create, Step, Parts, FreshFirst, NothingBefore
    <3> QED BY <1>0, <2>1, <3>1 DEF Create, Typed
  <2> QED BY <1>1, <1>5, <2>1 DEF Arrive, ResumeByTimer, ResumeByWebhook, Recover
<1>6. ASSUME NEW a \in Attempts, Prepare(a) \/ PutToWait(a)
      PROVE  Ended(row')
  <2>1. Exec(a) \in Execs
    BY AttemptsByKind
  <2>a. torn \subseteq torn'
    BY <1>6 DEF Prepare, Reserve, Claim, SetRunning, Enter, Launch, FailCheck, LaunchFails,
       SaveFailure, NoEntryToRespond, Save, End, PutToWait, history
  <2>2. CASE Claim(a)
    <3>1. CASE UNCHANGED row
      BY <1>1, <3>1
    <3>2. CASE SetRow(Exec(a), "running") /\ (Kind(a) = "fresh" \/ row[Exec(a)] = Expected(a))
      <4>1. Exec(a) # e
        BY <1>0, <2>a, <2>2, <3>2, AttemptsByKind
           DEF Claim, Step, Expected, Parts, FreshFirst
      <4> QED BY <1>2, <2>1, <3>2, <4>1
    <3> QED BY <2>2, <3>1, <3>2 DEF Claim
  <2>3. CASE SetRunning(a)
    <3>1. Exec(a) # e
      BY <1>4, <2>a, <2>3 DEF SetRunning, Step, Working
    <3> QED BY <1>2, <2>1, <2>3, <3>1 DEF SetRunning
  <2>4. CASE FailCheck(a) \/ SaveFailure(a)
    BY <1>3, <2>1, <2>4 DEF FailCheck, SaveFailure
  <2>5. CASE Save(a)
    <3>1. CASE Step(a, "waiting", "saved")
      <4>1. Exec(a) # e
        BY <1>4, <2>a, <3>1 DEF Step, Working
      <4> QED BY <1>1, <1>3, <2>1, <2>5, <4>1 DEF Save
    <3>2. CASE Step(a, "executing", "saved")
      BY <1>1, <1>3, <2>1, <2>5, <3>2 DEF Save, Step
    <3> QED BY <2>5, <3>1, <3>2 DEF Save
  <2>6. CASE \/ Reserve(a) \/ Enter(a) \/ Launch(a) \/ LaunchFails(a) \/ NoEntryToRespond(a)
             \/ End(a) \/ PutToWait(a)
    BY <1>1, <2>6 DEF Reserve, Enter, Launch, LaunchFails, NoEntryToRespond, End, PutToWait
  <2> QED BY <1>6, <2>2, <2>3, <2>4, <2>5, <2>6 DEF Prepare
<1>7. ASSUME NEW a \in Attempts, TimeOut(a) \/ Afterwards(a)
      PROVE  Ended(row')
  <2>1. CASE TimeOut(a)
    BY <1>1, <2>1 DEF TimeOut
  <2>2. CASE SaveCanceled(a)
    BY <1>3, <2>2, AttemptsByKind DEF SaveCanceled
  <2>3. CASE MarkUnstartable(a)
    BY <1>0, <2>3 DEF MarkUnstartable, Typed
  <2> QED BY <1>7, <2>1, <2>2, <2>3 DEF Afterwards
<1>8. ASSUME NEW f \in Execs, StopRequest(f) \/ DeleteRequest(f) \/ CarryOut(f) \/ Track(f)
      PROVE  Ended(row')
  <2>1. CASE StopInRow(f)
    BY <1>2, <2>1 DEF StopInRow
  <2>2. CASE DeleteRow(f)
    BY <1>0, <2>2 DEF DeleteRow, Typed
  <2>3. CASE StopRequest(f) \/ DeleteRequest(f) \/ StopInMemory(f) \/ DeleteFromQueue(f) \/ Track(f)
    BY <1>1, <2>3 DEF StopRequest, DeleteRequest, StopInMemory, DeleteFromQueue, Track, runVars
  <2> QED BY <1>8, <2>1, <2>2, <2>3 DEF CarryOut
<1>9. CASE Stop \/ Crash \/ Restart
  BY <1>1, <1>9 DEF Stop, Crash, Restart, runVars
<1>12. CASE StartUp
  <2>1. CASE CollectUnfinished \/ FindLeftovers
    BY <1>1, <2>1 DEF CollectUnfinished, FindLeftovers, runVars
  <2>2. ASSUME NEW f \in Execs, Repair(f)
        PROVE  Ended(row')
    <3>1. CASE RecoverCrashed(f)
      BY <1>0, <3>1 DEF RecoverCrashed, Typed
    <3>2. CASE ReadMarked(f)
      BY <1>1, <3>2 DEF ReadMarked, runVars
    <3>3. ASSUME f = e, amending[f] \notin {"no", "marked"}, torn' = torn
          PROVE  Amended(f) \in {"success", "error"}
      BY <1>0, <3>3 DEF Parts, AmendsApart, Amended
    <3>4. CASE Amend(f)
      BY <1>2, <3>3, <3>4 DEF Amend, history
    <3>5. CASE RunHooks(f)
      <4>1. amending[f] \notin {"no", "marked"} /\ torn' = torn /\ SaveRow(f, Amended(f))
        BY <1>0, <3>5 DEF RunHooks, Parts, AmendsApart, history
      <4> QED BY <1>3, <3>3, <4>1
    <3> QED BY <2>2, <3>1, <3>2, <3>4, <3>5 DEF Repair
  <2> QED BY <1>12, <2>1, <2>2 DEF StartUp
<1>10. OnTheirWay \subseteq Attempts /\ timed \subseteq Attempts
       /\ hooking \cup giveUp \subseteq Attempts
  BY <1>0 DEF Parts, TypeOK, OnTheirWay
<1>11. CASE UNCHANGED vars
  BY <1>1, <1>11 DEF vars, runVars
<1> QED BY <1>5, <1>6, <1>7, <1>8, <1>9, <1>10, <1>11, <1>12, WatchedAreExecs DEF Next

\* No claim, retry, recovery or late save of another attempt takes back a success or an
\* error, but for an execution that a recovery of the start took up beside an attempt of
\* this process.
THEOREM EndedForGood == Spec => EndedStaysEnded
<1>1. IInv /\ [Next]_vars =>
        [\A e \in Execs : row[e] \in {"success", "error"} /\ e \notin torn' =>
           row'[e] \in {"success", "error", "canceled", "absent"}]_vars
  BY EndedRowsStay
<1> QED BY <1>1, Invariance, PTL DEF Spec, EndedStaysEnded
=============================================================================
