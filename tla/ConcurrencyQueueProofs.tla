----------------------- MODULE ConcurrencyQueueProofs -----------------------
(***************************************************************************)
(* What the operations of the concurrency queue do to it, for any ids: its *)
(* users take it from here that an id is queued once, that a unit of       *)
(* capacity goes to who asked or to the head of the queue, and which ids   *)
(* are left.                                                               *)
(***************************************************************************)
EXTENDS ConcurrencyQueue, SequenceTheorems, TLAPS

\* The queue without one of its ids.
LEMMA RemovingOne ==
  ASSUME NEW S, NEW q \in Seq(S), IsInjective(q), NEW i \in DOMAIN q
  PROVE  /\ RemoveAt(q, i) \in Seq(S)
         /\ Len(RemoveAt(q, i)) = Len(q) - 1
         /\ IsInjective(RemoveAt(q, i))
         /\ ToSet(RemoveAt(q, i)) = ToSet(q) \ {q[i]}
<1> DEFINE r == RemoveAt(q, i)
<1>1. i \in 1..Len(q) /\ Len(q) \in Nat
  OBVIOUS
<1> DEFINE before == SubSeq(q, 1, i - 1)
           after == SubSeq(q, i + 1, Len(q))
<1>a. /\ before \in Seq(S) /\ Len(before) = i - 1
      /\ \A j \in 1..(i - 1) : before[j] = q[j]
  BY <1>1
<1>b. /\ after \in Seq(S) /\ Len(after) = Len(q) - i
      /\ \A j \in 1..(Len(q) - i) : after[j] = q[i + j]
  BY <1>1
<1>c. r = before \o after
  BY DEF RemoveAt
<1> HIDE DEF before, after, r
<1>d. \A j \in 1..Len(before) + Len(after) :
        r[j] = IF j <= Len(before) THEN before[j] ELSE after[j - Len(before)]
  BY <1>a, <1>b, <1>c, ConcatProperties
<1>2. r \in Seq(S) /\ Len(r) = Len(q) - 1
  BY <1>1, <1>a, <1>b, <1>c
<1>3. \A j \in 1..Len(r) : (j < i => r[j] = q[j]) /\ (j >= i => r[j] = q[j + 1])
  <2> SUFFICES ASSUME NEW j \in 1..Len(r)
               PROVE  (j < i => r[j] = q[j]) /\ (j >= i => r[j] = q[j + 1])
    OBVIOUS
  <2>1. /\ i \in Int /\ j \in Int /\ 1 <= j /\ j <= Len(q) - 1
        /\ j \in 1..Len(before) + Len(after)
    BY <1>1, <1>2, <1>a, <1>b
  <2>a. r[j] = IF j <= Len(before) THEN before[j] ELSE after[j - Len(before)]
    BY <1>d, <2>1
  <2>2. ASSUME j < i PROVE r[j] = q[j]
    <3>1. j <= Len(before) /\ j \in 1..(i - 1)
      BY <1>a, <2>1, <2>2
    <3>2. before[j] = q[j]
      BY <1>a, <3>1
    <3> QED BY <2>a, <3>1, <3>2
  <2>3. ASSUME j >= i PROVE r[j] = q[j + 1]
    <3>1. r[j] = after[j - (i - 1)]
      BY <1>a, <2>1, <2>3, <2>a
    <3>2. j - (i - 1) \in 1..(Len(q) - i) /\ i + (j - (i - 1)) = j + 1
      BY <1>1, <2>1, <2>3
    <3> QED BY <1>1, <1>b, <2>1, <2>3, <3>1, <3>2
  <2> QED BY <2>2, <2>3
<1> DEFINE from(j) == IF j < i THEN j ELSE j + 1
<1>e. \A j \in 1..Len(r) : from(j) \in 1..Len(q) /\ from(j) # i /\ r[j] = q[from(j)]
  BY <1>1, <1>2, <1>3
<1>f. \A j, k \in 1..Len(r) : from(j) = from(k) => j = k
  BY <1>1, <1>2
<1> HIDE DEF from
<1>4. IsInjective(r)
  BY <1>1, <1>2, <1>e, <1>f DEF IsInjective
<1>5. ToSet(r) = ToSet(q) \ {q[i]}
  <2>1. ASSUME NEW e \in ToSet(r) PROVE e \in ToSet(q) \ {q[i]}
    <3>1. PICK j \in 1..Len(r) : r[j] = e
      BY <1>2 DEF ToSet
    <3> QED BY <1>1, <1>e, <3>1 DEF ToSet, IsInjective
  <2>2. ASSUME NEW e \in ToSet(q) \ {q[i]} PROVE e \in ToSet(r)
    <3>1. PICK k \in 1..Len(q) : q[k] = e
      BY <1>1 DEF ToSet
    <3>2. CASE k < i
      BY <1>1, <1>2, <1>3, <3>1, <3>2 DEF ToSet
    <3>3. CASE k > i
      <4>1. k - 1 \in 1..Len(r) /\ r[k - 1] = q[k]
        BY <1>1, <1>2, <1>3, <3>1, <3>3
      <4> QED BY <1>2, <3>1, <4>1 DEF ToSet
    <3> QED BY <1>1, <3>1, <3>2, <3>3
  <2> QED BY <2>1, <2>2
<1> QED BY <1>2, <1>4, <1>5 DEF r

\* The queue after its head was resolved.
LEMMA TailOfQueue ==
  ASSUME NEW S, NEW q \in Seq(S), q # <<>>, IsInjective(q)
  PROVE  /\ Tail(q) \in Seq(S) /\ Len(Tail(q)) = Len(q) - 1
         /\ IsInjective(Tail(q))
         /\ Head(q) \in ToSet(q)
         /\ ToSet(Tail(q)) = ToSet(q) \ {Head(q)}
<1>1. Len(q) \in Nat /\ Len(q) > 0 /\ Head(q) = q[1] /\ 1 \in DOMAIN q
  OBVIOUS
<1>2. Tail(q) \in Seq(S) /\ Len(Tail(q)) = Len(q) - 1
  BY <1>1
<1>3. \A j \in 1..Len(Tail(q)) : Tail(q)[j] = q[j + 1]
  BY <1>1, <1>2
<1>4. IsInjective(Tail(q))
  BY <1>1, <1>2, <1>3 DEF IsInjective
<1>5. ToSet(Tail(q)) = ToSet(q) \ {Head(q)}
  <2>1. ASSUME NEW e \in ToSet(Tail(q)) PROVE e \in ToSet(q) \ {q[1]}
    <3>1. PICK j \in 1..Len(Tail(q)) : Tail(q)[j] = e
      BY <1>2 DEF ToSet
    <3>2. q[j + 1] = e /\ j + 1 \in DOMAIN q /\ j + 1 # 1
      BY <1>1, <1>2, <1>3, <3>1
    <3> QED BY <1>1, <3>2 DEF ToSet, IsInjective
  <2>2. ASSUME NEW e \in ToSet(q) \ {q[1]} PROVE e \in ToSet(Tail(q))
    <3>1. PICK k \in 1..Len(q) : q[k] = e /\ k # 1
      BY <1>1 DEF ToSet
    <3>2. k - 1 \in DOMAIN Tail(q) /\ Tail(q)[k - 1] = e
      BY <1>1, <1>2, <1>3, <3>1
    <3> HIDE <1>2
    <3> QED BY <3>2 DEF ToSet
  <2> QED BY <1>1, <2>1, <2>2
<1> QED BY <1>1, <1>2, <1>4, <1>5 DEF ToSet

\* The queue after an id joined it.
LEMMA JoiningQueue ==
  ASSUME NEW S, NEW q \in Seq(S), IsInjective(q), NEW e \in S, e \notin ToSet(q)
  PROVE  /\ Append(q, e) \in Seq(S) /\ Len(Append(q, e)) = Len(q) + 1
         /\ IsInjective(Append(q, e))
         /\ ToSet(Append(q, e)) = ToSet(q) \cup {e}
<1>1. /\ Append(q, e) \in Seq(S) /\ Len(q) \in Nat /\ Len(Append(q, e)) = Len(q) + 1
      /\ \A j \in 1..Len(q) : Append(q, e)[j] = q[j]
      /\ Append(q, e)[Len(q) + 1] = e
  OBVIOUS
<1>2. IsInjective(Append(q, e))
  BY <1>1 DEF IsInjective, ToSet
<1>3. ToSet(Append(q, e)) = ToSet(q) \cup {e}
  <2>1. ASSUME NEW x \in ToSet(Append(q, e)) PROVE x \in ToSet(q) \cup {e}
    BY <1>1, <2>1 DEF ToSet
  <2>2. ASSUME NEW x \in ToSet(q) \cup {e} PROVE x \in ToSet(Append(q, e))
    BY <1>1, <2>2 DEF ToSet
  <2> QED BY <2>1, <2>2
<1> QED BY <1>1, <1>2, <1>3

Single(S) == \E w : S = {w}

\* resolveNext grants the one id it takes off the queue, and none only if none is left.
LEMMA Resolving ==
  ASSUME NEW S, NEW q \in Seq(S), IsInjective(q), ResolveNext(q)
  PROVE  \E woken \in SUBSET ToSet(q) :
           /\ queue' \in Seq(S) /\ IsInjective(queue')
           /\ ToSet(queue') = ToSet(q) \ woken
           /\ granted' = granted \cup woken
           /\ queue' # <<>> => woken # {}
           /\ \/ woken = {} /\ Len(queue') = Len(q)
              \/ Single(woken) /\ Len(queue') = Len(q) - 1
<1>1. CASE q = <<>>
  <2>1. queue' = q /\ granted' = granted
    BY <1>1 DEF ResolveNext
  <2> WITNESS {} \in SUBSET ToSet(q)
  <2> QED BY <1>1, <2>1
<1>2. CASE q # <<>>
  <2>1. queue' = Tail(q) /\ granted' = granted \cup {Head(q)}
    BY <1>2 DEF ResolveNext
  <2>2. {Head(q)} \in SUBSET ToSet(q)
    BY <1>2, TailOfQueue
  <2> QED BY <1>2, <2>1, <2>2, TailOfQueue DEF Single
<1> QED BY <1>1, <1>2

\* enqueue: the id takes a unit of capacity and is granted, or is queued last.
LEMMA Enqueuing ==
  ASSUME NEW S, queue \in Seq(S), IsInjective(queue), capacity \in Int,
         NEW c \in S, c \notin ToSet(queue), Enqueue(c)
  PROVE  /\ capacity' = capacity - 1 /\ queue' \in Seq(S) /\ IsInjective(queue')
         /\ \/ /\ capacity > 0 /\ queue' = queue /\ granted' = granted \cup {c}
            \/ /\ capacity <= 0 /\ granted' = granted
               /\ Len(queue') = Len(queue) + 1 /\ ToSet(queue') = ToSet(queue) \cup {c}
<1>1. CASE capacity - 1 < 0
  <2>1. /\ Append(queue, c) \in Seq(S) /\ Len(Append(queue, c)) = Len(queue) + 1
        /\ IsInjective(Append(queue, c))
        /\ ToSet(Append(queue, c)) = ToSet(queue) \cup {c}
    BY JoiningQueue
  <2>2. queue' = Append(queue, c) /\ granted' = granted /\ capacity' = capacity - 1
    BY <1>1 DEF Enqueue
  <2> QED BY <1>1, <2>1, <2>2
<1>2. CASE ~(capacity - 1 < 0)
  BY <1>2 DEF Enqueue
<1> QED BY <1>1, <1>2

\* dequeue: the unit goes to the head of the queue, or is free again.
LEMMA Dequeuing ==
  ASSUME NEW S, queue \in Seq(S), IsInjective(queue), capacity \in Int, Dequeue
  PROVE  /\ capacity' = capacity + 1
         /\ \E woken \in SUBSET ToSet(queue) :
              /\ queue' \in Seq(S) /\ IsInjective(queue')
              /\ ToSet(queue') = ToSet(queue) \ woken
              /\ granted' = granted \cup woken
              /\ \/ woken = {} /\ Len(queue') = Len(queue)
                 \/ Single(woken) /\ Len(queue') = Len(queue) - 1
BY Resolving DEF Dequeue

\* remove, of a queued id: it is neither queued nor granted afterwards.
LEMMA Removing ==
  ASSUME NEW S, queue \in Seq(S), IsInjective(queue), capacity \in Int,
         NEW i \in DOMAIN queue, RemoveQueued(queue[i])
  PROVE  /\ capacity' = capacity + 1
         /\ \E woken \in SUBSET (ToSet(queue) \ {queue[i]}) :
              /\ queue' \in Seq(S) /\ IsInjective(queue')
              /\ ToSet(queue') = ToSet(queue) \ ({queue[i]} \cup woken)
              /\ granted' = granted \cup woken
              /\ \/ woken = {} /\ Len(queue') = Len(queue) - 1
                 \/ Single(woken) /\ Len(queue') = Len(queue) - 2
<1> DEFINE c == queue[i]
           k == Position(c)
           rest == RemoveAt(queue, k)
<1>1. k \in DOMAIN queue /\ queue[k] = c
  BY DEF Position
<1>2. Contains(queue, c)
  BY DEF Contains
<1>3. capacity' = capacity + 1 /\ ResolveNext(rest)
  BY <1>2 DEF RemoveQueued
<1>4. /\ rest \in Seq(S) /\ IsInjective(rest) /\ Len(rest) = Len(queue) - 1
      /\ ToSet(rest) = ToSet(queue) \ {c}
  BY <1>1, RemovingOne
<1> HIDE DEF c, k, rest
<1>5. PICK woken \in SUBSET ToSet(rest) :
        /\ queue' \in Seq(S) /\ IsInjective(queue')
        /\ ToSet(queue') = ToSet(rest) \ woken
        /\ granted' = granted \cup woken
        /\ \/ woken = {} /\ Len(queue') = Len(rest)
           \/ Single(woken) /\ Len(queue') = Len(rest) - 1
  BY <1>3, <1>4, Resolving
<1>6. woken \in SUBSET (ToSet(queue) \ {c}) /\ ToSet(queue') = ToSet(queue) \ ({c} \cup woken)
  BY <1>4, <1>5
<1>7. Len(queue) \in Nat
  OBVIOUS
<1>8. \/ woken = {} /\ Len(queue') = Len(queue) - 1
      \/ Single(woken) /\ Len(queue') = Len(queue) - 2
  BY <1>4, <1>5, <1>7
<1> QED BY <1>3, <1>5, <1>6, <1>8 DEF c
=============================================================================
