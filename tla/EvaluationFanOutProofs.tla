----------------------- MODULE EvaluationFanOutProofs -----------------------
(***************************************************************************)
(* Slots of the evaluation queue are balanced, for any limit, runs and     *)
(* sizes.  Every step of a case either takes a unit of capacity and makes  *)
(* the case outstanding, or gives one back and ends it; a case that the    *)
(* test runner's eviction ends without giving back stays outstanding.      *)
(***************************************************************************)
EXTENDS EvaluationFanOut, ConcurrencyQueueProofs, FiniteSetTheorems

-----------------------------------------------------------------------------
USE LimitIsPositive

LEMMA CasesAreFinite == IsFiniteSet(Cases)
<1>1. IsFiniteSet(Runs)
  BY RunsAreFinite, FS_Union DEF Runs
<1>2. IsFiniteSet(1..Size)
  BY SizeIsNat, FS_Interval
<1> QED BY <1>1, <1>2, FS_Product DEF Cases

\* Counting a set of cases and the same set with a case more or less.
LEMMA Counting ==
  ASSUME NEW A \in SUBSET Cases, NEW c \in Cases
  PROVE  /\ Cardinality(A) \in Nat
         /\ c \notin A => Cardinality(A \cup {c}) = Cardinality(A) + 1
         /\ c \in A => Cardinality(A \ {c}) = Cardinality(A) - 1
<1>1. IsFiniteSet(A)
  BY CasesAreFinite, FS_Subset
<1> QED BY <1>1, FS_CardinalityType, FS_AddElement, FS_RemoveElement

\* Cases woken up in place of one that left the holders.
LEMMA Replacing ==
  ASSUME NEW A \in SUBSET Cases, NEW c \in A,
         NEW woken \in SUBSET Cases, woken \cap A = {}, woken # {}
  PROVE  Cardinality((A \ {c}) \cup woken) >= Cardinality(A)
<1>1. PICK w \in woken : TRUE
  OBVIOUS
<1> DEFINE B == A \ {c}
<1>2. B \in SUBSET Cases /\ B \cup {w} \in SUBSET Cases /\ w \notin B /\ w \in Cases
  BY <1>1
<1>3. Cardinality(B) = Cardinality(A) - 1 /\ Cardinality(A) \in Nat
  BY Counting
<1>4. Cardinality(B \cup {w}) = Cardinality(B) + 1
  BY <1>2, Counting
<1>5. Cardinality(B \cup {w}) <= Cardinality(B \cup woken)
  <2>1. IsFiniteSet(B \cup woken)
    BY CasesAreFinite, FS_Subset
  <2> QED BY <1>1, <2>1, FS_Subset
<1>6. Cardinality(B \cup woken) \in Nat
  BY <1>2, Counting
<1> QED BY <1>3, <1>4, <1>5, <1>6

\* A case more among the holders does not make them fewer.
LEMMA Growing ==
  ASSUME NEW A \in SUBSET Cases, NEW B \in SUBSET Cases, A \subseteq B
  PROVE  Cardinality(A) <= Cardinality(B) /\ Cardinality(A) \in Nat /\ Cardinality(B) \in Nat
<1>1. IsFiniteSet(B)
  BY CasesAreFinite, FS_Subset
<1> QED BY <1>1, CasesAreFinite, FS_Subset, FS_CardinalityType

\* A granted case that ends with a dequeue.
LEMMA GivingBack ==
  ASSUME IInv, NEW c \in Cases, phase[c] \in {"racing", "running", "abandoned"},
         c \in granted, Dequeue, Go(c, "done"),
         UNCHANGED <<listening, race, noticed, aborted>>
  PROVE  IInv'
<1>0. TypeOK /\ QueueConsistent /\ SlotsBalanced /\ NoIdleSlot
  BY DEF IInv
<1>1. capacity' = capacity + 1
  BY DEF Dequeue
<1>2. PICK woken \in SUBSET ToSet(queue) :
        /\ queue' \in Seq(Cases) /\ IsInjective(queue')
        /\ ToSet(queue') = ToSet(queue) \ woken
        /\ granted' = granted \cup woken
        /\ queue' # <<>> => woken # {}
  BY <1>0, Resolving DEF Dequeue, TypeOK, QueueConsistent
<1>3. woken \subseteq {d \in Cases : phase[d] = "racing" /\ d \notin granted}
  BY <1>0, <1>2 DEF QueueConsistent
<1>4. phase' = [phase EXCEPT ![c] = "done"]
  BY DEF Go
<1>5. TypeOK'
  BY <1>0, <1>1, <1>2, <1>3, <1>4 DEF TypeOK, Phases
<1>6. QueueConsistent'
  BY <1>0, <1>2, <1>3, <1>4 DEF QueueConsistent, TypeOK
<1>7. /\ Outstanding' = Outstanding \ {c} /\ c \in Outstanding
      /\ Outstanding \in SUBSET Cases
  BY <1>0, <1>4 DEF Outstanding, TypeOK
<1>8. Cardinality(Outstanding') = Cardinality(Outstanding) - 1 /\ Cardinality(Outstanding) \in Nat
  BY <1>7, Counting
<1>9. SlotsBalanced'
  BY <1>0, <1>1, <1>8 DEF SlotsBalanced, TypeOK
<1>10. NoIdleSlot'
  <2> SUFFICES ASSUME queue' # <<>> PROVE Cardinality(Holders') >= Limit
    BY DEF NoIdleSlot
  <2>1. woken # {} /\ queue # <<>>
    BY <1>0, <1>2 DEF ToSet
  <2>2. Holders' = (Holders \ {c}) \cup woken
    BY <1>2, <1>3, <1>7 DEF Holders, Outstanding
  <2>3. Cardinality(Holders') >= Cardinality(Holders)
    BY <1>3, <1>7, <2>1, <2>2, Replacing DEF Holders
  <2>4. Cardinality(Holders) \in Nat /\ Cardinality(Holders') \in Nat
    BY <1>3, <1>7, <2>2, Counting DEF Holders
  <2> QED BY <1>0, <2>1, <2>3, <2>4 DEF NoIdleSlot
<1> QED BY <1>5, <1>6, <1>9, <1>10 DEF IInv

\* A queued case that ends with its removal.
LEMMA Evicting ==
  ASSUME IInv, NEW c \in Cases, phase[c] = "racing", race[c] = "aborted",
         Contains(queue, c), RemoveQueued(c), Go(c, "done"),
         UNCHANGED <<listening, race, noticed, aborted>>
  PROVE  IInv'
<1>0. TypeOK /\ QueueConsistent /\ SlotsBalanced /\ NoIdleSlot
  BY DEF IInv
<1> DEFINE i == Position(c)
           rest == RemoveAt(queue, i)
<1>a. i \in DOMAIN queue /\ queue[i] = c
  <2>1. \E j \in DOMAIN queue : queue[j] = c
    BY <1>0 DEF Contains, TypeOK
  <2> QED BY <2>1 DEF Position
<1>b. /\ rest \in Seq(Cases) /\ IsInjective(rest)
      /\ ToSet(rest) = ToSet(queue) \ {c}
  BY <1>0, <1>a, RemovingOne DEF TypeOK, QueueConsistent
<1>1. capacity' = capacity + 1 /\ ResolveNext(rest)
  BY DEF RemoveQueued
<1> HIDE DEF i, rest
<1>2. PICK woken \in SUBSET ToSet(rest) :
        /\ queue' \in Seq(Cases) /\ IsInjective(queue')
        /\ ToSet(queue') = ToSet(rest) \ woken
        /\ granted' = granted \cup woken
        /\ queue' # <<>> => woken # {}
  BY <1>b, <1>1, Resolving
<1>3. /\ woken \subseteq {d \in Cases : phase[d] = "racing" /\ d \notin granted}
      /\ c \notin woken /\ c \notin granted /\ queue # <<>>
  <2>1. c \in ToSet(queue) /\ queue # <<>>
    BY <1>0, <1>a DEF ToSet, TypeOK
  <2> QED BY <1>0, <1>2, <1>b, <2>1 DEF QueueConsistent
<1>4. phase' = [phase EXCEPT ![c] = "done"]
  BY DEF Go
<1>5. TypeOK'
  BY <1>0, <1>1, <1>2, <1>3, <1>4 DEF TypeOK, Phases
<1>6. QueueConsistent'
  BY <1>0, <1>b, <1>2, <1>3, <1>4 DEF QueueConsistent, TypeOK
<1>7. /\ Outstanding' = Outstanding \ {c} /\ c \in Outstanding
      /\ Outstanding \in SUBSET Cases
  BY <1>0, <1>4 DEF Outstanding, TypeOK
<1>8. Cardinality(Outstanding') = Cardinality(Outstanding) - 1 /\ Cardinality(Outstanding) \in Nat
  BY <1>7, Counting
<1>9. SlotsBalanced'
  BY <1>0, <1>1, <1>8 DEF SlotsBalanced, TypeOK
<1>10. NoIdleSlot'
  <2>1. Holders' = Holders \cup woken
    BY <1>2, <1>3, <1>7 DEF Holders, Outstanding
  <2>2. /\ Cardinality(Holders') >= Cardinality(Holders)
        /\ Cardinality(Holders) \in Nat /\ Cardinality(Holders') \in Nat
    BY <1>3, <1>7, <2>1, Growing DEF Holders
  <2> QED BY <1>0, <1>3, <2>2 DEF NoIdleSlot
<1> QED BY <1>5, <1>6, <1>9, <1>10 DEF IInv

\* A case that asks for a slot.
LEMMA Asking ==
  ASSUME IInv, NEW c \in Cases, Throttle(c)
  PROVE  IInv'
<1>0. TypeOK /\ QueueConsistent /\ SlotsBalanced /\ NoIdleSlot
  BY DEF IInv
<1>1. /\ phase[c] = "checked" /\ c \notin granted /\ c \notin ToSet(queue)
      /\ phase' = [phase EXCEPT ![c] = "racing"] /\ capacity' = capacity - 1
  BY <1>0 DEF Throttle, Go, Enqueue, QueueConsistent
<1>2. /\ Append(queue, c) \in Seq(Cases) /\ IsInjective(Append(queue, c))
      /\ ToSet(Append(queue, c)) = ToSet(queue) \cup {c}
  BY <1>0, <1>1, JoiningQueue DEF TypeOK, QueueConsistent
<1>3. \/ capacity <= 0 /\ queue' = Append(queue, c) /\ granted' = granted
      \/ capacity > 0 /\ queue' = queue /\ granted' = granted \cup {c}
  BY <1>0 DEF Throttle, Enqueue, TypeOK
<1>4. /\ UNCHANGED <<race, noticed, aborted>>
      /\ listening' = listening \/ listening' = listening \cup {c}
  BY DEF Throttle
<1>5. TypeOK'
  <2>1. queue' \in Seq(Cases) /\ granted \subseteq granted' /\ granted' \subseteq Cases
    BY <1>0, <1>2, <1>3 DEF TypeOK
  <2>2. capacity' \in Int /\ phase' \in [Cases -> Phases]
    BY <1>0, <1>1 DEF TypeOK, Phases
  <2>3. listening' \subseteq Cases
    BY <1>0, <1>4 DEF TypeOK
  <2> QED BY <1>0, <1>4, <2>1, <2>2, <2>3 DEF TypeOK
<1>6. QueueConsistent'
  <2>1. CASE queue' = Append(queue, c) /\ granted' = granted
    BY <1>0, <1>1, <1>2, <1>4, <2>1 DEF QueueConsistent, TypeOK
  <2>2. CASE queue' = queue /\ granted' = granted \cup {c}
    BY <1>0, <1>1, <1>4, <2>2 DEF QueueConsistent, TypeOK
  <2> QED BY <1>3, <2>1, <2>2
<1>7. /\ Outstanding' = Outstanding \cup {c} /\ c \notin Outstanding
      /\ Outstanding \in SUBSET Cases
  BY <1>0, <1>1 DEF Outstanding, TypeOK
<1>8. Cardinality(Outstanding') = Cardinality(Outstanding) + 1 /\ Cardinality(Outstanding) \in Nat
  BY <1>7, Counting
<1>9. SlotsBalanced'
  BY <1>0, <1>1, <1>8 DEF SlotsBalanced, TypeOK
<1>10. NoIdleSlot'
  <2>1. Holders \subseteq Holders' /\ Holders \in SUBSET Cases /\ Holders' \in SUBSET Cases
    BY <1>3, <1>7 DEF Holders
  <2>2. Cardinality(Holders') >= Cardinality(Holders)
        /\ Cardinality(Holders) \in Nat /\ Cardinality(Holders') \in Nat
    BY <2>1, Growing
  <2>3. CASE queue # <<>>
    BY <1>0, <2>2, <2>3 DEF NoIdleSlot
  <2>4. CASE queue = <<>> /\ capacity <= 0
    <3>1. ToSet(queue) = {}
      BY <2>4 DEF ToSet
    <3>2. Holders = Outstanding
      BY <1>0, <3>1 DEF Holders, Outstanding, QueueConsistent
    <3>3. Cardinality(Holders) >= Limit
      BY <1>0, <1>8, <2>4, <3>2 DEF SlotsBalanced, TypeOK
    <3> QED BY <2>2, <3>3 DEF NoIdleSlot
  <2>5. CASE queue = <<>> /\ capacity > 0
    BY <1>0, <1>3, <2>5 DEF NoIdleSlot, TypeOK
  <2> QED BY <1>0, <2>3, <2>4, <2>5 DEF TypeOK
<1> QED BY <1>5, <1>6, <1>9, <1>10 DEF IInv

\* Steps that touch neither the queue nor the set of outstanding cases.
LEMMA Counted ==
  ASSUME TypeOK', QueueConsistent', IInv, UNCHANGED <<capacity, queue, granted>>,
         Outstanding' = Outstanding
  PROVE  IInv'
BY DEF IInv, SlotsBalanced, NoIdleSlot, Holders

-----------------------------------------------------------------------------
\* IInv holds in every reachable state: the queue holds who waits, nobody gives
\* a slot back twice or loses one unless it is swallowed, and none stays idle.
THEOREM Invariance == Spec => []IInv
<1>1. Init => IInv
  <2> SUFFICES ASSUME Init PROVE IInv
    OBVIOUS
  <2>1. TypeOK /\ Outstanding = {}
    BY DEF Init, QueueInit, TypeOK, Phases, Outstanding
  <2>2. QueueConsistent
    BY DEF Init, QueueInit, QueueConsistent, ToSet, IsInjective
  <2>3. Cardinality(Outstanding) = 0
    BY <2>1, FS_EmptySet
  <2> QED BY <2>1, <2>2, <2>3
          DEF Init, QueueInit, IInv, SlotsBalanced, NoIdleSlot
<1>2. IInv /\ [Next]_vars => IInv'
  <2> SUFFICES ASSUME IInv, [Next]_vars PROVE IInv'
    OBVIOUS
  <2>0. TypeOK /\ QueueConsistent
    BY DEF IInv
  <2>1. ASSUME NEW c \in Cases, TakeUp(c) \/ Skip(c) PROVE IInv'
    <3>1. /\ phase[c] \in {"idle", "checked"} /\ UNCHANGED <<capacity, queue, granted>>
          /\ UNCHANGED <<listening, race, noticed, aborted>>
          /\ phase' = [phase EXCEPT ![c] = "done"] \/ phase' = [phase EXCEPT ![c] = "checked"]
      BY <2>1 DEF TakeUp, Skip, Go, queueVars
    <3>2. TypeOK' /\ QueueConsistent' /\ Outstanding' = Outstanding
      BY <2>0, <3>1 DEF TypeOK, Phases, QueueConsistent, Outstanding
    <3> QED BY <3>1, <3>2, Counted
  <2>2. ASSUME NEW c \in Cases, Throttle(c) PROVE IInv'
    BY <2>2, Asking
  <2>3. ASSUME NEW rs \in SUBSET (Runs \ aborted), Abort(rs) PROVE IInv'
    <3>1. /\ UNCHANGED <<capacity, queue, granted>> /\ UNCHANGED <<phase, listening, noticed>>
          /\ aborted' = aborted \cup rs
          /\ race' \in [Cases -> {"open", "acquired", "aborted"}]
          /\ \A c \in Cases : race'[c] = "acquired" => race[c] = "acquired"
      BY <2>0, <2>3 DEF Abort, queueVars, TypeOK
    <3>2. TypeOK' /\ QueueConsistent' /\ Outstanding' = Outstanding
      BY <2>0, <3>1 DEF TypeOK, QueueConsistent, Outstanding
    <3> QED BY <3>1, <3>2, Counted
  <2>4. ASSUME NEW c \in Cases, Notice(c) PROVE IInv'
    <3>1. /\ UNCHANGED <<capacity, queue, granted>> /\ UNCHANGED <<phase, listening, aborted>>
          /\ noticed' = noticed \cup {c} /\ c \in granted
          /\ race' = [race EXCEPT ![c] = "acquired"] \/ race' = race
      BY <2>0, <2>4 DEF Notice, queueVars, TypeOK
    <3>2. TypeOK' /\ QueueConsistent' /\ Outstanding' = Outstanding
      BY <2>0, <3>1 DEF TypeOK, QueueConsistent, Outstanding
    <3> QED BY <3>1, <3>2, Counted
  <2>5. ASSUME NEW c \in Cases, RunOrBail(c) PROVE IInv'
    <3>1. phase[c] = "racing" /\ c \in granted
      BY <2>0, <2>5 DEF RunOrBail, Resume, QueueConsistent
    <3>2. CASE OfTestRun(c) /\ Aborted(c)
      BY <2>5, <3>1, <3>2, GivingBack DEF RunOrBail
    <3>3. CASE ~(OfTestRun(c) /\ Aborted(c))
      <4>1. /\ UNCHANGED <<capacity, queue, granted>>
            /\ UNCHANGED <<listening, race, noticed, aborted>>
            /\ phase' = [phase EXCEPT ![c] = "running"]
        BY <2>5, <3>3 DEF RunOrBail, Go, queueVars
      <4>2. TypeOK' /\ QueueConsistent' /\ Outstanding' = Outstanding
        BY <2>0, <3>1, <4>1 DEF TypeOK, Phases, QueueConsistent, Outstanding
      <4> QED BY <4>1, <4>2, Counted
    <3> QED BY <3>2, <3>3
  <2>6. ASSUME NEW c \in Cases, EvictTestCase(c) PROVE IInv'
    <3>1. /\ phase[c] = "racing" /\ race[c] = "aborted"
          /\ UNCHANGED <<listening, race, noticed, aborted>>
      BY <2>6 DEF EvictTestCase, Resume
    <3>2. CASE c \in noticed
      BY <2>0, <2>6, <3>1, <3>2, GivingBack DEF EvictTestCase, TypeOK
    <3>3. CASE c \notin noticed /\ Contains(queue, c)
      BY <2>6, <3>1, <3>3, Evicting DEF EvictTestCase
    <3>4. CASE c \notin noticed /\ ~Contains(queue, c)
      <4>1. UNCHANGED <<capacity, queue, granted>>
        BY <2>6, <3>4 DEF EvictTestCase, RemoveQueued, queueVars
      <4>2. c \notin ToSet(queue)
        BY <2>0, <3>4 DEF Contains, ToSet, TypeOK
      <4>3. phase' = [phase EXCEPT ![c] = "swallowed"]
        BY <2>6, <3>4 DEF EvictTestCase, Go
      <4>4. TypeOK' /\ QueueConsistent' /\ Outstanding' = Outstanding
        BY <2>0, <3>1, <4>1, <4>2, <4>3 DEF TypeOK, Phases, QueueConsistent, Outstanding
      <4> QED BY <4>1, <4>4, Counted
    <3> QED BY <3>2, <3>3, <3>4
  <2>7. ASSUME NEW c \in Cases, EvictAgentCase(c) PROVE IInv'
    <3>1. /\ phase[c] = "racing" /\ race[c] = "aborted" /\ RemoveQueued(c)
          /\ UNCHANGED <<listening, race, noticed, aborted>>
          /\ Go(c, IF Contains(queue, c) THEN "done" ELSE "abandoned")
      BY <2>7 DEF EvictAgentCase, Resume
    <3>2. CASE Contains(queue, c)
      BY <3>1, <3>2, Evicting
    <3>3. CASE ~Contains(queue, c)
      <4>1. UNCHANGED <<capacity, queue, granted>>
        BY <3>1, <3>3 DEF RemoveQueued, queueVars
      <4>2. c \notin ToSet(queue)
        BY <2>0, <3>3 DEF Contains, ToSet, TypeOK
      <4>3. phase' = [phase EXCEPT ![c] = "abandoned"]
        BY <3>1, <3>3 DEF Go
      <4>4. TypeOK' /\ QueueConsistent' /\ Outstanding' = Outstanding
        BY <2>0, <3>1, <4>1, <4>2, <4>3 DEF TypeOK, Phases, QueueConsistent, Outstanding
      <4> QED BY <4>1, <4>4, Counted
    <3> QED BY <3>2, <3>3
  <2>8. ASSUME NEW c \in Cases, ReleaseLate(c) \/ Finish(c) PROVE IInv'
    <3>1. /\ phase[c] \in {"running", "abandoned"} /\ Dequeue /\ Go(c, "done")
          /\ UNCHANGED <<listening, race, noticed, aborted>>
      BY <2>8 DEF ReleaseLate, Finish
    <3>2. c \in granted
      BY <2>0, <3>1 DEF QueueConsistent
    <3> QED BY <3>1, <3>2, GivingBack
  <2>9. ASSUME UNCHANGED vars PROVE IInv'
    BY <2>9 DEF vars, IInv, TypeOK, QueueConsistent, SlotsBalanced,
                NoIdleSlot, Outstanding, Holders
  <2> QED BY <2>1, <2>2, <2>3, <2>4, <2>5, <2>6, <2>7, <2>8, <2>9 DEF Next, External, Microtask
<1> QED BY <1>1, <1>2, PTL DEF Spec

\* Every unit of evaluation capacity is given back at most once, and exactly once
\* unless an eviction swallowed it, whatever runs share the queue.
THEOREM SlotsAreBalanced == Spec => []SlotsBalanced
<1>1. IInv => SlotsBalanced
  BY DEF IInv
<1> QED BY <1>1, Invariance, PTL

\* No case stays queued beside an idle slot, whatever runs share the queue.
THEOREM SlotsAreUsed == Spec => []NoIdleSlot
<1>1. IInv => NoIdleSlot
  BY DEF IInv
<1> QED BY <1>1, Invariance, PTL
=============================================================================
