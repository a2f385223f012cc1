-------------------------- MODULE TaskBrokerProofs --------------------------
(***************************************************************************)
(* What holds of the task broker for any requests, runners, slots, ids and *)
(* faults: no request is forgotten, no slot is held for a task nobody      *)
(* tracks, no request waits beside an offer it could have, no task is lost *)
(* with its runner, and requesters get what TaskRequestLifecycle promises. *)
(*                                                                         *)
(* The properties are not inductive.  They depend on how often an offer is *)
(* matched and accepted, what the frames on their way stand for, and which *)
(* connections an id may still get: the invariant IInv says that of all    *)
(* places a frame, an offer or a task may be in.                           *)
(***************************************************************************)
EXTENDS TaskBroker, FiniteSetTheorems, SequenceTheorems, WellFoundedInduction, TLAPS

Made(o) == o[2] <= made[Owner(o)]

\* m is at most once in s.
Once(s, m) == \A j, k \in DOMAIN s : s[j] = m /\ s[k] = m => j = k

\* A later c in s follows every a.
Covered(s, a, c) == \A k \in DOMAIN s : s[k] = a => \E l \in DOMAIN s : k < l /\ s[l] = c

\* An offer is matched once: in the pool it has no request, later it has one
\* for good.
OffersOnce ==
  /\ IsInjective(pool) /\ IsInjective(accepting)
  /\ \A o \in ToSet(pool) : taskFor[o] = None /\ Made(o)
  /\ \A o \in ToSet(accepting) : taskFor[o] # None
  /\ \A o \in Offers : taskFor[o] # None => Made(o)

\* What a request waits for, and which task it runs as.
RequestsKept ==
  /\ IsInjective(pending)
  /\ ToSet(pending) = {r \in Requests : request[r] = "waiting"}
  /\ \A o \in tasks : taskFor[o] # None /\ request[taskFor[o]] = "running"
  /\ \A o, x \in tasks : taskFor[o] = taskFor[x] => o = x
  /\ \A r \in Requests : request[r] = "running" => \E o \in tasks : taskFor[o] = r

\* Whoever is not served waits beside an empty pool.
Served ==
  \A r \in ToSet(pending) \ deferred : AcceptInProgress(Matching, r) \/ pool = <<>>

\* The two maps of the broker and of the server agree on a connection; what a
\* removal is to fail belongs to connections its id will not get again.
RoutesAgree ==
  /\ \A i \in Ids : current[i] # None => ident[current[i]] = i /\ known[i] = current[i]
  /\ \A d \in removals : \A o \in d.tasks :
       IdOf(o) = d.id /\ Made(o) /\ Owner(o) # current[d.id]
  /\ \A o \in tasks :
       \/ current[IdOf(o)] = Owner(o) \/ Owner(o) \in replaced
       \/ \E d \in removals : o \in d.tasks

InfoFrame == [type |-> "info"]

\* A connection that is still to be registered.
Newcomer(p) ==
  \/ life[p] = "unborn"
  \/ InfoFrame \in ToSet(toBroker[p])
  \/ \E d \in removals : d.next = p

\* It is registered once, and has done nothing before.
NewcomersAreFresh ==
  /\ \A p \in Processes : Newcomer(p) =>
       /\ made[p] = 0 /\ ~offering[p] /\ toRunner[p] = <<>>
       /\ \A i \in Ids : current[i] # p
       /\ toBroker[p] = <<>> \/ toBroker[p] = <<InfoFrame>>
  /\ \A p \in Processes : life[p] = "unborn" => toBroker[p] = <<>>
  /\ \A d \in removals : d.next # None =>
       life[d.next] # "unborn" /\ toBroker[d.next] = <<>> /\ ident[d.next] = d.id
  /\ \A d, e \in removals : d.next # None /\ d.next = e.next => d = e

TaskTypes == {"accept", "cancel", "settings"}
Answers == {"accepted", "rejected", "deferred", "finished"}

\* What is on its way, offered or worked on stands for an offer of the same id
\* that was made, and but for offers, for one that was matched.
FramesMatched ==
  /\ \A o \in openOffers : Made(o)
  /\ \A o \in Offers : work[o] # "none" => taskFor[o] # None
  /\ \A p \in Processes : \A m \in ToSet(toRunner[p]) :
       m.type \in TaskTypes => taskFor[m.task] # None /\ IdOf(m.task) = ident[p]
  /\ \A p \in Processes : \A m \in ToSet(toBroker[p]) :
       /\ m.type \in Answers => taskFor[m.task] # None /\ IdOf(m.task) = ident[p]
       /\ m.type \in Answers \ {"rejected"} => Owner(m.task) = p
       /\ m.type = "offer" =>
            /\ Owner(m.task) = p /\ Made(m.task) /\ taskFor[m.task] = None
            /\ m.task \notin ToSet(pool)
            /\ Once(toBroker[p], m)

\* A runner hears of an acceptance once, and says once what becomes of it.
AcceptedOnce ==
  \A o \in Offers :
    LET p == Owner(o)
    IN  /\ Msg("accept", o) \in ToSet(toRunner[p]) =>
             /\ Once(toRunner[p], Msg("accept", o))
             /\ work[o] = "none"
             /\ \A t \in Answers : Msg(t, o) \notin ToSet(toBroker[p])
        /\ \A t \in Answers \ {"accepted"} :
             Msg(t, o) \in ToSet(toBroker[p]) => work[o] = "none"

\* A runner that can be talked to and is not about to be killed.
Attended(p) == Delivers(ident[p], p) /\ p \notin killed /\ ~(Internal /\ closing # "no")

\* An acceptance such a runner has not heard of yet is awaited, or given up
\* behind it; a slot it holds is for a task the broker knows of, or given up.
SlotsWatched ==
  \A o \in Offers :
    LET p == Owner(o)
    IN  Attended(p) =>
          /\ \/ o \in ToSet(accepting)
             \/ Covered(toRunner[p], Msg("accept", o), Msg("cancel", o))
          /\ work[o] \in {"waiting", "running"} =>
               \/ o \in tasks \/ o \in ToSet(accepting)
               \/ Msg("cancel", o) \in ToSet(toRunner[p])

Begun == {"running", "answered", "cancelled"}

\* Settings go to one runner, once, and only for a request that was taken over.
SettingsOnce ==
  /\ \A p \in Processes : \A k \in DOMAIN toRunner[p] :
       toRunner[p][k].type = "settings" =>
         LET r == taskFor[toRunner[p][k].task]
         IN  request[r] \in Begun /\ ran[r] = 0
  /\ \A p, q \in Processes : \A k \in DOMAIN toRunner[p] : \A l \in DOMAIN toRunner[q] :
       /\ toRunner[p][k].type = "settings" /\ toRunner[q][l].type = "settings"
       /\ taskFor[toRunner[p][k].task] = taskFor[toRunner[q][l].task]
       => p = q /\ k = l
  /\ \A r \in Requests : ran[r] # 0 => request[r] \in Begun

IInv ==
  /\ TypeOK
  /\ OffersOnce
  /\ RequestsKept
  /\ Served
  /\ RoutesAgree
  /\ NewcomersAreFresh
  /\ FramesMatched
  /\ AcceptedOnce
  /\ SlotsWatched
  /\ SettingsOnce

-----------------------------------------------------------------------------
(* Numbers, and induction with a set in the place of the predicate.         *)

LEMMA InductiveSet ==
  ASSUME NEW T, 0 \in T, \A n \in Nat : n \in T => n + 1 \in T
  PROVE  Nat \subseteq T
<1> DEFINE C == Nat \ T
<1> SUFFICES ASSUME C # {} PROVE FALSE
  OBVIOUS
<1>1. PICK x \in C : \A y \in C : ~(<<y, x>> \in OpToRel(<, Nat))
  BY NatLessThanWellFounded, WFMin
<1>2. x \in Nat /\ x # 0 /\ x - 1 \in Nat /\ x - 1 < x /\ (x - 1) + 1 = x
  OBVIOUS
<1>3. x - 1 \in T
  BY <1>1, <1>2 DEF OpToRel
<1> QED BY <1>2, <1>3

LEMMA MinOfTwo ==
  ASSUME NEW a \in Int, NEW b \in Int
  PROVE  Min({a, b}) = IF a <= b THEN a ELSE b
<1>1. CASE a <= b
  <2>1. \A y \in {a, b} : a =< y
    BY <1>1
  <2> QED BY <1>1, <2>1 DEF Min
<1>2. CASE ~(a <= b)
  <2>1. \A y \in {a, b} : b =< y
    BY <1>2
  <2> QED BY <1>2, <2>1 DEF Min
<1> QED BY <1>1, <1>2

LEMMA MaxOfTwo ==
  ASSUME NEW a \in Int, NEW b \in Int
  PROVE  Max({a, b}) = IF a >= b THEN a ELSE b
<1>1. CASE a >= b
  <2>1. \A y \in {a, b} : a >= y
    BY <1>1
  <2> QED BY <1>1, <2>1 DEF Max
<1>2. CASE ~(a >= b)
  <2>1. \A y \in {a, b} : b >= y
    BY <1>2
  <2> QED BY <1>2, <2>1 DEF Max
<1> QED BY <1>1, <1>2

-----------------------------------------------------------------------------
(* Sequences: members, and members that occur once.                        *)

LEMMA ToSetMembers ==
  ASSUME NEW T, NEW s \in Seq(T)
  PROVE  /\ ToSet(s) \subseteq T
         /\ Len(s) \in Nat /\ DOMAIN s = 1..Len(s)
         /\ \A e : e \in ToSet(s) <=> \E k \in 1..Len(s) : s[k] = e
         /\ \A k \in 1..Len(s) : s[k] \in T /\ s[k] \in ToSet(s)
         /\ s = <<>> <=> ToSet(s) = {}
<1>1. Len(s) \in Nat /\ DOMAIN s = 1..Len(s) /\ \A k \in 1..Len(s) : s[k] \in T
  OBVIOUS
<1>2. \A e : e \in ToSet(s) <=> \E k \in 1..Len(s) : s[k] = e
  BY <1>1 DEF ToSet
<1>3. CASE Len(s) = 0
  <2>1. s = <<>> /\ 1..Len(s) = {}
    BY <1>3
  <2>2. ToSet(s) = {}
    BY <1>2, <2>1
  <2> QED BY <1>1, <1>2, <2>1, <2>2
<1>4. CASE Len(s) # 0
  <2>1. s # <<>> /\ 1 \in 1..Len(s)
    BY <1>1, <1>4
  <2>2. s[1] \in ToSet(s)
    BY <1>2, <2>1
  <2> QED BY <1>1, <1>2, <2>1, <2>2
<1> QED BY <1>3, <1>4

LEMMA EmptyToSet == ToSet(<<>>) = {} /\ IsInjective(<<>>)
  BY DEF ToSet, IsInjective

LEMMA JoinedAtEnd ==
  ASSUME NEW T, NEW s \in Seq(T), NEW e \in T
  PROVE  /\ Append(s, e) \in Seq(T) /\ Len(Append(s, e)) = Len(s) + 1
         /\ ToSet(Append(s, e)) = ToSet(s) \cup {e}
         /\ IsInjective(s) /\ e \notin ToSet(s) => IsInjective(Append(s, e))
<1>1. /\ Append(s, e) \in Seq(T) /\ Len(s) \in Nat /\ Len(Append(s, e)) = Len(s) + 1
      /\ \A j \in 1..Len(s) : Append(s, e)[j] = s[j]
      /\ Append(s, e)[Len(s) + 1] = e
  OBVIOUS
<1>2. IsInjective(s) /\ e \notin ToSet(s) => IsInjective(Append(s, e))
  BY <1>1 DEF IsInjective, ToSet
<1>3. ToSet(Append(s, e)) = ToSet(s) \cup {e}
  <2>1. ASSUME NEW x \in ToSet(Append(s, e)) PROVE x \in ToSet(s) \cup {e}
    BY <1>1, <2>1 DEF ToSet
  <2>2. ASSUME NEW x \in ToSet(s) \cup {e} PROVE x \in ToSet(Append(s, e))
    BY <1>1, <2>2 DEF ToSet
  <2> QED BY <2>1, <2>2
<1> QED BY <1>1, <1>2, <1>3

LEMMA Concatenated ==
  ASSUME NEW T, NEW s \in Seq(T), NEW t \in Seq(T)
  PROVE  /\ s \o t \in Seq(T) /\ Len(s \o t) = Len(s) + Len(t)
         /\ \A k \in 1..Len(s) : (s \o t)[k] = s[k]
         /\ \A k \in 1..Len(t) : (s \o t)[Len(s) + k] = t[k]
         /\ \A k \in 1..Len(s \o t) :
              k \in 1..Len(s) \/ (k - Len(s) \in 1..Len(t) /\ (s \o t)[k] = t[k - Len(s)])
         /\ ToSet(s \o t) = ToSet(s) \cup ToSet(t)
<1>1. /\ s \o t \in Seq(T) /\ Len(s) \in Nat /\ Len(t) \in Nat
      /\ Len(s \o t) = Len(s) + Len(t)
      /\ \A k \in 1..Len(s) + Len(t) :
           (s \o t)[k] = IF k <= Len(s) THEN s[k] ELSE t[k - Len(s)]
  BY ConcatProperties
<1>2. \A k \in 1..Len(s) : (s \o t)[k] = s[k]
  BY <1>1
<1>3. \A k \in 1..Len(t) : (s \o t)[Len(s) + k] = t[k]
  BY <1>1
<1>4. \A k \in 1..Len(s \o t) :
        k \in 1..Len(s) \/ (k - Len(s) \in 1..Len(t) /\ (s \o t)[k] = t[k - Len(s)])
  BY <1>1
<1>5. ASSUME NEW e \in ToSet(s \o t) PROVE e \in ToSet(s) \cup ToSet(t)
  <2>1. PICK k \in 1..Len(s \o t) : (s \o t)[k] = e
    BY <1>1 DEF ToSet
  <2>2. CASE k \in 1..Len(s)
    BY <1>1, <1>2, <2>1, <2>2 DEF ToSet
  <2>3. CASE k - Len(s) \in 1..Len(t) /\ (s \o t)[k] = t[k - Len(s)]
    BY <1>1, <2>1, <2>3 DEF ToSet
  <2> QED BY <1>4, <2>2, <2>3
<1>6. ASSUME NEW e \in ToSet(s) PROVE e \in ToSet(s \o t)
  <2>1. PICK k \in 1..Len(s) : s[k] = e
    BY <1>1 DEF ToSet
  <2>2. k \in 1..Len(s \o t)
    BY <1>1
  <2> QED BY <1>1, <1>2, <2>1, <2>2 DEF ToSet
<1>7. ASSUME NEW e \in ToSet(t) PROVE e \in ToSet(s \o t)
  <2>1. PICK k \in 1..Len(t) : t[k] = e
    BY <1>1 DEF ToSet
  <2>2. Len(s) + k \in 1..Len(s \o t)
    BY <1>1
  <2> QED BY <1>1, <1>3, <2>1, <2>2 DEF ToSet
<1> QED BY <1>1, <1>2, <1>3, <1>4, <1>5, <1>6, <1>7

LEMMA PlaceInConcat ==
  ASSUME NEW T, NEW s \in Seq(T), NEW t \in Seq(T), NEW c, c = s \o t, NEW k \in DOMAIN c
  PROVE  \/ k \in DOMAIN s /\ c[k] = s[k]
         \/ /\ k \notin DOMAIN s /\ k - Len(s) \in DOMAIN t
            /\ c[k] = t[k - Len(s)] /\ c[k] \in ToSet(t)
<1>1. /\ Len(s) \in Nat /\ Len(t) \in Nat /\ DOMAIN c = 1..Len(c) /\ Len(c) = Len(s) + Len(t)
      /\ DOMAIN s = 1..Len(s) /\ DOMAIN t = 1..Len(t)
      /\ \A j \in 1..Len(t) : t[j] \in ToSet(t)
  BY Concatenated, ToSetMembers
<1>2. \/ k \in 1..Len(s) /\ c[k] = s[k]
      \/ k - Len(s) \in 1..Len(t) /\ c[k] = t[k - Len(s)]
  BY <1>1, Concatenated
<1> QED BY <1>1, <1>2

LEMMA InjectiveConcat ==
  ASSUME NEW T, NEW s \in Seq(T), NEW t \in Seq(T), IsInjective(s), IsInjective(t),
         ToSet(s) \cap ToSet(t) = {}
  PROVE  IsInjective(s \o t)
<1> DEFINE c == s \o t
<1>1. /\ Len(s) \in Nat /\ Len(t) \in Nat /\ DOMAIN c = 1..Len(c)
      /\ \A k \in 1..Len(s) : s[k] \in ToSet(s)
      /\ \A k \in 1..Len(t) : t[k] \in ToSet(t)
  BY Concatenated, ToSetMembers
<1>2. \A k \in 1..Len(c) :
        \/ k \in 1..Len(s) /\ c[k] = s[k]
        \/ k - Len(s) \in 1..Len(t) /\ c[k] = t[k - Len(s)]
  BY Concatenated
<1>3. \A j, k \in 1..Len(s) : s[j] = s[k] => j = k
  BY DEF IsInjective
<1>4. \A j, k \in 1..Len(t) : t[j] = t[k] => j = k
  BY DEF IsInjective
<1> HIDE DEF c
<1>5. ASSUME NEW j \in 1..Len(c), NEW k \in 1..Len(c), c[j] = c[k] PROVE j = k
  <2>1. CASE j \in 1..Len(s) /\ c[j] = s[j] /\ k \in 1..Len(s) /\ c[k] = s[k]
    BY <1>3, <1>5, <2>1
  <2>2. CASE /\ j - Len(s) \in 1..Len(t) /\ c[j] = t[j - Len(s)]
             /\ k - Len(s) \in 1..Len(t) /\ c[k] = t[k - Len(s)]
    <3>1. j - Len(s) = k - Len(s)
      BY <1>4, <1>5, <2>2
    <3> QED BY <1>1, <1>5, <3>1
  <2>3. CASE c[j] \in ToSet(s) /\ c[k] \in ToSet(t)
    BY <1>5, <2>3
  <2>4. CASE c[j] \in ToSet(t) /\ c[k] \in ToSet(s)
    BY <1>5, <2>4
  <2> QED BY <1>1, <1>2, <2>1, <2>2, <2>3, <2>4
<1>6. IsInjective(c)
  BY <1>1, <1>5 DEF IsInjective
<1> QED BY <1>6 DEF c

\* A sequence is cut in two.
LEMMA CutInTwo ==
  ASSUME NEW T, NEW s \in Seq(T), IsInjective(s), NEW n \in 0..Len(s)
  PROVE  LET a == SubSeq(s, 1, n)
             b == SubSeq(s, n + 1, Len(s))
         IN  /\ a \in Seq(T) /\ b \in Seq(T) /\ Len(a) = n /\ Len(b) = Len(s) - n
             /\ IsInjective(a) /\ IsInjective(b)
             /\ \A k \in 1..n : a[k] = s[k]
             /\ ToSet(a) \cap ToSet(b) = {}
             /\ ToSet(a) \cup ToSet(b) = ToSet(s)
<1> DEFINE a == SubSeq(s, 1, n)
           b == SubSeq(s, n + 1, Len(s))
<1>1. Len(s) \in Nat /\ n \in Nat /\ n <= Len(s) /\ DOMAIN s = 1..Len(s)
  OBVIOUS
<1>2. a \in Seq(T) /\ Len(a) = n /\ \A k \in 1..n : a[k] = s[k]
  BY <1>1
<1>3. /\ b \in Seq(T) /\ Len(b) = Len(s) - n
      /\ \A k \in 1..(Len(s) - n) : b[k] = s[n + k]
  <2>1. n + 1 \in Int /\ Len(s) \in Int /\ \A k \in (n + 1)..Len(s) : s[k] \in T
    BY <1>1
  <2>2. /\ b \in Seq(T)
        /\ Len(b) = IF n + 1 <= Len(s) THEN Len(s) - (n + 1) + 1 ELSE 0
        /\ \A k \in 1..(Len(s) - (n + 1) + 1) : b[k] = s[n + 1 + k - 1]
    BY <1>1, <2>1, SubSeqProperties
  <2> HIDE DEF b
  <2>3. PICK l \in Nat : l = Len(s) /\ n \in 0..l
    BY <1>1
  <2>4. /\ (IF n + 1 <= l THEN l - (n + 1) + 1 ELSE 0) = l - n
        /\ l - (n + 1) + 1 = l - n
        /\ \A k \in 1..(l - n) : n + 1 + k - 1 = n + k
    BY <2>3
  <2>5. Len(b) = Len(s) - n
    BY <2>2, <2>3, <2>4
  <2>6. \A k \in 1..(Len(s) - n) : b[k] = s[n + k]
    BY <2>2, <2>3, <2>4
  <2> QED BY <2>2, <2>5, <2>6
<1> HIDE DEF a, b
<1>4. DOMAIN a = 1..n /\ DOMAIN b = 1..(Len(s) - n)
  BY <1>1, <1>2, <1>3
<1>5. \A j, k \in 1..Len(s) : s[j] = s[k] => j = k
  BY DEF IsInjective
<1>6. IsInjective(a)
  BY <1>1, <1>2, <1>4, <1>5 DEF IsInjective
<1>7. IsInjective(b)
  <2> SUFFICES ASSUME NEW j \in 1..(Len(s) - n), NEW k \in 1..(Len(s) - n), b[j] = b[k]
               PROVE  j = k
    BY <1>4 DEF IsInjective
  <2>1. n + j \in 1..Len(s) /\ n + k \in 1..Len(s) /\ s[n + j] = s[n + k]
    BY <1>1, <1>3
  <2>2. n + j = n + k
    BY <1>5, <2>1
  <2> QED BY <1>1, <2>2
<1>8. ToSet(a) = {s[k] : k \in 1..n}
  BY <1>2, <1>4 DEF ToSet
<1>9. ToSet(b) = {s[k] : k \in (n + 1)..Len(s)}
  <2>1. ASSUME NEW e \in ToSet(b) PROVE e \in {s[k] : k \in (n + 1)..Len(s)}
    <3>1. PICK j \in 1..(Len(s) - n) : b[j] = e
      BY <1>4 DEF ToSet
    <3>2. n + j \in (n + 1)..Len(s) /\ s[n + j] = e
      BY <1>1, <1>3, <3>1
    <3> QED BY <3>2
  <2>2. ASSUME NEW k \in (n + 1)..Len(s) PROVE s[k] \in ToSet(b)
    <3>1. k - n \in 1..(Len(s) - n) /\ n + (k - n) = k
      BY <1>1
    <3>2. b[k - n] = s[n + (k - n)]
      BY <1>3, <3>1
    <3> QED BY <1>4, <3>1, <3>2 DEF ToSet
  <2> QED BY <2>1, <2>2
<1>10. ToSet(a) \cap ToSet(b) = {}
  <2> SUFFICES ASSUME NEW j \in 1..n, NEW k \in (n + 1)..Len(s) PROVE s[j] # s[k]
    BY <1>8, <1>9
  <2>1. j \in 1..Len(s) /\ k \in 1..Len(s) /\ j # k
    BY <1>1
  <2> QED BY <1>5, <2>1
<1>11. ToSet(a) \cup ToSet(b) = ToSet(s)
  <2>1. 1..Len(s) = (1..n) \cup ((n + 1)..Len(s))
    BY <1>1
  <2> QED BY <1>1, <1>8, <1>9, <2>1 DEF ToSet
<1>12. /\ a \in Seq(T) /\ b \in Seq(T) /\ Len(a) = n /\ Len(b) = Len(s) - n
       /\ IsInjective(a) /\ IsInjective(b)
       /\ \A k \in 1..n : a[k] = s[k]
       /\ ToSet(a) \cap ToSet(b) = {}
       /\ ToSet(a) \cup ToSet(b) = ToSet(s)
  BY <1>2, <1>3, <1>6, <1>7, <1>10, <1>11
<1> QED BY <1>12 DEF a, b

\* The head of a sequence, and what is left.
LEMMA HeadAndTail ==
  ASSUME NEW T, NEW s \in Seq(T), s # <<>>
  PROVE  /\ Tail(s) \in Seq(T) /\ Len(s) \in Nat \ {0} /\ Len(Tail(s)) = Len(s) - 1
         /\ Head(s) \in T /\ Head(s) = s[1] /\ Head(s) \in ToSet(s)
         /\ \A k \in 1..Len(Tail(s)) : Tail(s)[k] = s[k + 1]
         /\ ToSet(s) = ToSet(Tail(s)) \cup {Head(s)}
<1>1. /\ Tail(s) \in Seq(T) /\ Len(s) \in Nat \ {0} /\ Len(Tail(s)) = Len(s) - 1
      /\ Head(s) = s[1] /\ Head(s) \in T
      /\ \A k \in 1..(Len(s) - 1) : Tail(s)[k] = s[k + 1]
  OBVIOUS
<1>2. Head(s) \in ToSet(s)
  BY <1>1 DEF ToSet
<1>3. ASSUME NEW e \in ToSet(Tail(s)) PROVE e \in ToSet(s)
  <2>1. PICK k \in 1..(Len(s) - 1) : Tail(s)[k] = e
    BY <1>1 DEF ToSet
  <2>2. k + 1 \in DOMAIN s /\ s[k + 1] = e
    BY <1>1, <2>1
  <2> QED BY <2>2 DEF ToSet
<1>4. ASSUME NEW e \in ToSet(s), e # Head(s) PROVE e \in ToSet(Tail(s))
  <2>1. PICK k \in 1..Len(s) : s[k] = e
    BY <1>1 DEF ToSet
  <2>2. k - 1 \in DOMAIN Tail(s) /\ Tail(s)[k - 1] = e
    BY <1>1, <1>4, <2>1
  <2> QED BY <2>2 DEF ToSet
<1> QED BY <1>1, <1>2, <1>3, <1>4

-----------------------------------------------------------------------------
(* Selecting the members of a set, and dropping one element.               *)

\* The recursion of Only is one of a function that exists.
LEMMA OnlyUnfolds ==
  ASSUME NEW T, NEW s \in Seq(T), NEW S
  PROVE  \E g : /\ g = [k \in 0..Len(s) |->
                          IF k = 0 THEN <<>>
                          ELSE IF s[k] \in S THEN Append(g[k - 1], s[k]) ELSE g[k - 1]]
                /\ Only(s, S) = g[Len(s)]
<1> DEFINE To(g, k) == IF k = 0 THEN <<>>
                       ELSE IF s[k] \in S THEN Append(g[k - 1], s[k]) ELSE g[k - 1]
           Up(n) == \E g : g = [k \in 0..n |-> To(g, k)]
           N == {n \in Nat : Up(n)}
<1>1. 0 \in N
  <2> DEFINE g == [k \in 0..0 |-> <<>>]
  <2>1. g = [k \in 0..0 |-> To(g, k)]
    OBVIOUS
  <2>2. Up(0)
    BY <2>1
  <2> QED BY <2>2
<1>2. ASSUME NEW n \in Nat, n \in N PROVE n + 1 \in N
  <2>1. PICK g : g = [k \in 0..n |-> To(g, k)]
    BY <1>2
  <2> DEFINE h == [k \in 0..(n + 1) |-> IF k = n + 1 THEN To(g, n + 1) ELSE g[k]]
  <2> HIDE DEF To
  <2>2. ASSUME NEW k \in 0..(n + 1) PROVE h[k] = To(h, k)
    <3>1. CASE k = 0
      BY <2>1, <3>1 DEF To
    <3>2. CASE k # 0 /\ k # n + 1
      <4>1. k \in 0..n /\ k - 1 \in 0..n /\ k - 1 # n + 1 /\ k - 1 \in 0..(n + 1)
        BY <3>2
      <4>2. g[k] = To(g, k)
        BY <2>1, <4>1
      <4>3. h[k] = g[k] /\ h[k - 1] = g[k - 1]
        BY <3>2, <4>1
      <4> HIDE DEF h
      <4> QED BY <3>2, <4>2, <4>3 DEF To
    <3>3. CASE k = n + 1
      <4>1. k - 1 \in 0..n /\ k - 1 # n + 1
        BY <3>3
      <4>2. h[k] = To(g, k) /\ h[k - 1] = g[k - 1]
        BY <2>1, <3>3, <4>1
      <4> QED BY <3>3, <4>2 DEF To
    <3> QED BY <3>1, <3>2, <3>3
  <2>3. h = [k \in 0..(n + 1) |-> To(h, k)]
    BY <2>2
  <2> HIDE DEF h
  <2>4. Up(n + 1)
    BY <2>3
  <2> QED BY <2>4
<1>3. Nat \subseteq N
  BY <1>1, <1>2, InductiveSet
<1>4. Up(Len(s))
  BY <1>3
<1> QED BY <1>4 DEF Only

LEMMA OnlyMembers ==
  ASSUME NEW T, NEW s \in Seq(T), NEW S, IsInjective(s)
  PROVE  /\ Only(s, S) \in Seq(T)
         /\ IsInjective(Only(s, S))
         /\ ToSet(Only(s, S)) = ToSet(s) \cap S
<1>1. PICK g : /\ g = [k \in 0..Len(s) |->
                         IF k = 0 THEN <<>>
                         ELSE IF s[k] \in S THEN Append(g[k - 1], s[k]) ELSE g[k - 1]]
               /\ Only(s, S) = g[Len(s)]
  BY OnlyUnfolds
<1> DEFINE Good(k) == /\ g[k] \in Seq(T) /\ IsInjective(g[k])
                      /\ ToSet(g[k]) = {s[j] : j \in 1..k} \cap S
           N == {k \in Nat : k <= Len(s) => Good(k)}
<1>2. Len(s) \in Nat /\ \A j \in 1..Len(s) : s[j] \in T
  BY ToSetMembers
<1>3. 0 \in N
  <2>1. g[0] = <<>> /\ 1..0 = {}
    BY <1>1, <1>2
  <2>2. g[0] \in Seq(T) /\ {s[j] : j \in 1..0} = {}
    BY <2>1
  <2> QED BY <2>1, <2>2, EmptyToSet
<1>4. ASSUME NEW n \in Nat, n \in N PROVE n + 1 \in N
  <2> SUFFICES ASSUME n + 1 <= Len(s) PROVE Good(n + 1)
    OBVIOUS
  <2>1. n + 1 \in 1..Len(s) /\ n \in 0..Len(s) /\ n + 1 \in 0..Len(s) /\ n + 1 # 0
        /\ (n + 1) - 1 = n
    BY <1>2
  <2>2. Good(n)
    BY <1>2, <1>4, <2>1
  <2>3. g[n + 1] = IF s[n + 1] \in S THEN Append(g[n], s[n + 1]) ELSE g[n]
    BY <1>1, <2>1
  <2>4. {s[j] : j \in 1..(n + 1)} = {s[j] : j \in 1..n} \cup {s[n + 1]}
    <3>1. 1..(n + 1) = (1..n) \cup {n + 1}
      OBVIOUS
    <3> QED BY <3>1
  <2>5. CASE s[n + 1] \in S
    <3>1. s[n + 1] \in T /\ g[n + 1] = Append(g[n], s[n + 1])
      BY <1>2, <2>1, <2>3, <2>5
    <3>2. s[n + 1] \notin ToSet(g[n])
      <4>1. \A j \in 1..n : j \in DOMAIN s /\ n + 1 \in DOMAIN s /\ j # n + 1
        BY <2>1
      <4>2. \A j \in 1..n : s[j] # s[n + 1]
        BY <4>1 DEF IsInjective
      <4> QED BY <2>2, <4>2
    <3>3. /\ g[n + 1] \in Seq(T) /\ IsInjective(g[n + 1])
          /\ ToSet(g[n + 1]) = ToSet(g[n]) \cup {s[n + 1]}
      BY <2>2, <3>1, <3>2, JoinedAtEnd
    <3> QED BY <2>2, <2>4, <2>5, <3>3
  <2>6. CASE s[n + 1] \notin S
    <3>1. g[n + 1] = g[n]
      BY <2>3, <2>6
    <3>2. {s[j] : j \in 1..(n + 1)} \cap S = {s[j] : j \in 1..n} \cap S
      BY <2>4, <2>6
    <3> QED BY <2>2, <3>1, <3>2
  <2> QED BY <2>5, <2>6
<1>5. Nat \subseteq N
  <2> HIDE DEF N
  <2> QED BY <1>3, <1>4, InductiveSet
<1>6. Good(Len(s))
  <2> HIDE DEF Good
  <2>1. Len(s) <= Len(s)
    BY <1>2
  <2> QED BY <1>2, <1>5, <2>1
<1>7. ToSet(s) = {s[j] : j \in 1..Len(s)}
  BY <1>2 DEF ToSet
<1> QED BY <1>1, <1>6, <1>7

LEMMA WithoutOne ==
  ASSUME NEW T, NEW s \in Seq(T), NEW e, IsInjective(s)
  PROVE  /\ Without(s, e) \in Seq(T)
         /\ IsInjective(Without(s, e))
         /\ ToSet(Without(s, e)) = ToSet(s) \ {e}
<1>1. /\ Without(s, e) \in Seq(T)
      /\ IsInjective(Without(s, e))
      /\ ToSet(Without(s, e)) = ToSet(s) \cap (ToSet(s) \ {e})
  BY OnlyMembers DEF Without
<1> QED BY <1>1

-----------------------------------------------------------------------------
(* Frames on their way: what is there once, and what follows what.         *)

LEMMA OnceInTail ==
  ASSUME NEW T, NEW s \in Seq(T), s # <<>>, NEW m, Once(s, m)
  PROVE  Once(Tail(s), m) /\ (Head(s) = m => m \notin ToSet(Tail(s)))
<1>1. /\ Tail(s) \in Seq(T) /\ Len(s) \in Nat \ {0} /\ Len(Tail(s)) = Len(s) - 1
      /\ Head(s) = s[1]
      /\ \A k \in 1..Len(Tail(s)) : Tail(s)[k] = s[k + 1]
  BY HeadAndTail
<1>2. DOMAIN s = 1..Len(s) /\ DOMAIN Tail(s) = 1..Len(Tail(s))
  BY <1>1, ToSetMembers
<1> DEFINE t == Tail(s)
<1>3. \A k \in 1..Len(t) : k + 1 \in 1..Len(s) /\ t[k] = s[k + 1]
  BY <1>1
<1> HIDE DEF t
<1>4. ASSUME NEW j \in 1..Len(t), NEW k \in 1..Len(t), t[j] = m, t[k] = m PROVE j = k
  <2>1. j + 1 = k + 1
    BY <1>2, <1>3, <1>4 DEF Once
  <2> QED BY <2>1
<1>5. Once(t, m)
  BY <1>2, <1>4 DEF Once, t
<1>6. ASSUME s[1] = m, m \in ToSet(t) PROVE FALSE
  <2>1. PICK k \in 1..Len(t) : t[k] = m
    BY <1>2, <1>6 DEF ToSet, t
  <2>2. k + 1 \in DOMAIN s /\ 1 \in DOMAIN s /\ s[k + 1] = m /\ k + 1 # 1
    BY <1>1, <1>2, <1>3, <2>1
  <2> QED BY <1>6, <2>2 DEF Once
<1> QED BY <1>1, <1>5, <1>6 DEF t

LEMMA OnceInBoth ==
  ASSUME NEW T, NEW s \in Seq(T), NEW t \in Seq(T), NEW m,
         \/ Once(s, m) /\ m \notin ToSet(t)
         \/ Once(t, m) /\ m \notin ToSet(s)
  PROVE  Once(s \o t, m)
<1> DEFINE c == s \o t
<1>1. /\ Len(s) \in Nat /\ Len(t) \in Nat /\ DOMAIN c = 1..Len(c)
      /\ DOMAIN s = 1..Len(s) /\ DOMAIN t = 1..Len(t)
      /\ \A k \in 1..Len(s) : s[k] \in ToSet(s)
      /\ \A k \in 1..Len(t) : t[k] \in ToSet(t)
  BY Concatenated, ToSetMembers
<1>2. \A k \in 1..Len(c) :
        \/ k \in 1..Len(s) /\ c[k] = s[k]
        \/ k - Len(s) \in 1..Len(t) /\ c[k] = t[k - Len(s)]
  BY Concatenated
<1> HIDE DEF c
<1>3. ASSUME NEW j \in 1..Len(c), NEW k \in 1..Len(c), c[j] = m, c[k] = m PROVE j = k
  <2>1. CASE Once(s, m) /\ m \notin ToSet(t)
    BY <1>1, <1>2, <1>3, <2>1 DEF Once
  <2>2. CASE Once(t, m) /\ m \notin ToSet(s)
    <3>1. /\ j - Len(s) \in 1..Len(t) /\ t[j - Len(s)] = m
          /\ k - Len(s) \in 1..Len(t) /\ t[k - Len(s)] = m
      BY <1>1, <1>2, <1>3, <2>2
    <3>2. j - Len(s) = k - Len(s)
      BY <1>1, <2>2, <3>1 DEF Once
    <3> QED BY <1>1, <1>3, <3>2
  <2> QED BY <2>1, <2>2
<1>4. Once(c, m)
  BY <1>1, <1>3 DEF Once
<1> QED BY <1>4 DEF c

LEMMA CoveredInTail ==
  ASSUME NEW T, NEW s \in Seq(T), s # <<>>, NEW a, NEW b, Covered(s, a, b)
  PROVE  Covered(Tail(s), a, b) /\ (Head(s) = a => b \in ToSet(Tail(s)))
<1> DEFINE t == Tail(s)
<1>1. /\ t \in Seq(T) /\ Len(s) \in Nat \ {0} /\ Len(t) = Len(s) - 1
      /\ Head(s) = s[1]
      /\ \A k \in 1..Len(t) : t[k] = s[k + 1]
  BY HeadAndTail
<1>2. DOMAIN s = 1..Len(s) /\ DOMAIN t = 1..Len(t)
  BY <1>1, ToSetMembers
<1> HIDE DEF t
<1>3. ASSUME NEW k \in 1..Len(s), s[k] = a
      PROVE  \E l \in 1..Len(t) : k < l + 1 /\ t[l] = b
  <2>1. PICK l \in 1..Len(s) : k < l /\ s[l] = b
    BY <1>2, <1>3 DEF Covered
  <2>2. l - 1 \in 1..Len(t) /\ (l - 1) + 1 = l
    BY <1>1, <2>1
  <2>3. t[l - 1] = b /\ k < (l - 1) + 1
    BY <1>1, <2>1, <2>2
  <2> QED BY <2>2, <2>3
<1>4. ASSUME NEW k \in 1..Len(t), t[k] = a
      PROVE  \E l \in 1..Len(t) : k < l /\ t[l] = b
  <2>1. k + 1 \in 1..Len(s) /\ s[k + 1] = a
    BY <1>1, <1>4
  <2>2. PICK l \in 1..Len(t) : k + 1 < l + 1 /\ t[l] = b
    BY <1>3, <2>1
  <2> QED BY <2>2
<1>5. Covered(t, a, b)
  BY <1>2, <1>4 DEF Covered
<1>6. ASSUME s[1] = a PROVE b \in ToSet(t)
  <2>1. 1 \in 1..Len(s)
    BY <1>1
  <2>2. PICK l \in 1..Len(t) : t[l] = b
    BY <1>3, <1>6, <2>1
  <2> QED BY <1>2, <2>2 DEF ToSet
<1> QED BY <1>1, <1>5, <1>6 DEF t

LEMMA CoveredInBoth ==
  ASSUME NEW T, NEW s \in Seq(T), NEW t \in Seq(T), NEW a, NEW b, a \notin ToSet(t),
         Covered(s, a, b) \/ b \in ToSet(t)
  PROVE  Covered(s \o t, a, b)
<1> DEFINE c == s \o t
<1>1. /\ Len(s) \in Nat /\ Len(t) \in Nat /\ DOMAIN c = 1..Len(c)
      /\ DOMAIN s = 1..Len(s) /\ DOMAIN t = 1..Len(t)
      /\ \A k \in 1..Len(t) : t[k] \in ToSet(t)
      /\ Len(c) = Len(s) + Len(t)
  BY Concatenated, ToSetMembers
<1>2. /\ \A k \in 1..Len(c) :
           \/ k \in 1..Len(s) /\ c[k] = s[k]
           \/ k - Len(s) \in 1..Len(t) /\ c[k] = t[k - Len(s)]
      /\ \A k \in 1..Len(s) : c[k] = s[k]
      /\ \A k \in 1..Len(t) : c[Len(s) + k] = t[k]
  BY Concatenated
<1> HIDE DEF c
<1>3. ASSUME NEW k \in 1..Len(c), c[k] = a PROVE \E l \in 1..Len(c) : k < l /\ c[l] = b
  <2>1. k \in 1..Len(s) /\ s[k] = a
    BY <1>1, <1>2, <1>3
  <2>2. CASE Covered(s, a, b)
    <3>1. PICK l \in 1..Len(s) : k < l /\ s[l] = b
      BY <1>1, <2>1, <2>2 DEF Covered
    <3>2. l \in 1..Len(c) /\ c[l] = b
      BY <1>1, <1>2, <3>1
    <3> QED BY <3>1, <3>2
  <2>3. CASE b \in ToSet(t)
    <3>1. PICK l \in 1..Len(t) : t[l] = b
      BY <1>1, <2>3 DEF ToSet
    <3>2. Len(s) + l \in 1..Len(c) /\ k < Len(s) + l /\ c[Len(s) + l] = b
      BY <1>1, <1>2, <2>1, <3>1
    <3> QED BY <3>2
  <2> QED BY <2>2, <2>3
<1>4. Covered(c, a, b)
  BY <1>1, <1>3 DEF Covered
<1> QED BY <1>4 DEF c

-----------------------------------------------------------------------------
(* Rounds of matching.                                                     *)

MatchingRecords ==
  [pool : Seq(Offers), pending : Seq(Requests), accepting : Seq(Offers),
   taskFor : [Offers -> Requests \cup {None}], out : [Processes -> Seq(ToRunner)]]

\* Offers are matched at most once in m.
Sound(m) ==
  /\ m \in MatchingRecords
  /\ IsInjective(m.pool) /\ IsInjective(m.pending) /\ IsInjective(m.accepting)
  /\ \A o \in ToSet(m.pool) : m.taskFor[o] = None
  /\ \A o \in ToSet(m.accepting) : m.taskFor[o] # None

\* The messages that `a` adds to those of `b` are acceptances of the offers `os`.
TellsOnly(a, b, os) ==
  \E more \in [Processes -> Seq(ToRunner)] :
    \A p \in Processes :
      /\ b[p] = a[p] \o more[p]
      /\ \A x \in ToSet(more[p]) :
           /\ Once(more[p], x)
           /\ \E o \in os : x = Msg("accept", o) /\ Delivers(IdOf(o), p)

\* From m to n the acceptances `gone` end, those of the offers `new` begin.
Rematched(m, n, gone, new) ==
  /\ n.pending = m.pending
  /\ new \subseteq ToSet(m.pool)
  /\ ToSet(n.pool) \subseteq ToSet(m.pool) \ new
  /\ ToSet(n.accepting) = (ToSet(m.accepting) \ gone) \cup new
  /\ \A o \in new : n.taskFor[o] \in Requests
  /\ \A o \in Offers \ new : n.taskFor[o] = m.taskFor[o]
  /\ TellsOnly(m.out, n.out, new)

AllServed(m) == \A r \in ToSet(m.pending) : AcceptInProgress(m, r) \/ m.pool = <<>>

LEMMA InProgress ==
  ASSUME NEW m, m.accepting \in Seq(Offers), NEW r
  PROVE  AcceptInProgress(m, r) <=> \E o \in ToSet(m.accepting) : m.taskFor[o] = r
<1>1. DOMAIN m.accepting = 1..Len(m.accepting)
  OBVIOUS
<1> QED BY <1>1 DEF AcceptInProgress, ToSet

LEMMA OffersAre ==
  /\ \A o \in Offers : Owner(o) \in Processes /\ o[2] \in 1..MaxOffers /\ o = <<Owner(o), o[2]>>
  /\ \A o \in Offers, t \in TaskTypes : Msg(t, o) \in ToRunner
  /\ \A o \in Offers, t \in Answers \cup {"offer"} : Msg(t, o) \in ToBroker
  /\ \A o, x, t, u : Msg(t, o) = Msg(u, x) => t = u /\ o = x
  /\ \A o, t : Msg(t, o).type = t /\ Msg(t, o).task = o
  BY DEF Offers, Owner, Msg, ToRunner, ToBroker, TaskTypes, Answers

LEMMA Unmatched == None \notin Requests /\ None \notin Processes
  BY NoneIsNothing

\* One round of matching.
LEMMA Settling ==
  ASSUME NEW m, Sound(m)
  PROVE  /\ Sound(Settle(m)) /\ AllServed(Settle(m))
         /\ \E new \in SUBSET Offers : Rematched(m, Settle(m), {}, new)
<1> DEFINE good == Only(m.pool, {o \in Offers : known[IdOf(o)] = None \/ Reachable(IdOf(o))})
           idle == Only(m.pending, {r \in Requests : ~AcceptInProgress(m, r)})
           n == Min({Len(good), Len(idle)})
           taken == SubSeq(good, 1, n)
           rest == SubSeq(good, n + 1, Len(good))
           RequestOf(o) == idle[CHOOSE k \in 1..n : taken[k] = o]
           os(p) == Only(taken, {o \in Offers : Delivers(IdOf(o), p)})
           says(p) == [k \in DOMAIN os(p) |-> Msg("accept", os(p)[k])]
           s == Settle(m)
<1>1. /\ s.pool = rest /\ s.pending = m.pending /\ s.accepting = m.accepting \o taken
      /\ s.taskFor = [o \in Offers |-> IF o \in ToSet(taken) THEN RequestOf(o) ELSE m.taskFor[o]]
      /\ s.out = [p \in Processes |-> m.out[p] \o says(p)]
      /\ s = [pool |-> s.pool, pending |-> s.pending, accepting |-> s.accepting,
              taskFor |-> s.taskFor, out |-> s.out]
  BY DEF Settle
<1>2. /\ m.pool \in Seq(Offers) /\ m.pending \in Seq(Requests) /\ m.accepting \in Seq(Offers)
      /\ m.taskFor \in [Offers -> Requests \cup {None}]
      /\ m.out \in [Processes -> Seq(ToRunner)]
      /\ IsInjective(m.pool) /\ IsInjective(m.pending) /\ IsInjective(m.accepting)
      /\ \A o \in ToSet(m.pool) : m.taskFor[o] = None
      /\ \A o \in ToSet(m.accepting) : m.taskFor[o] # None
  BY DEF Sound, MatchingRecords
<1>3. /\ good \in Seq(Offers) /\ IsInjective(good) /\ ToSet(good) \subseteq ToSet(m.pool)
  BY <1>2, OnlyMembers
<1>4. /\ idle \in Seq(Requests) /\ IsInjective(idle)
      /\ ToSet(idle) = ToSet(m.pending) \cap {r \in Requests : ~AcceptInProgress(m, r)}
  BY <1>2, OnlyMembers
<1>5. /\ n \in 0..Len(good) /\ n \in 0..Len(idle) /\ n \in Nat
      /\ n = Len(good) \/ n = Len(idle)
  <2>1. Len(good) \in Nat /\ Len(idle) \in Nat
    BY <1>3, <1>4
  <2>2. n = IF Len(good) <= Len(idle) THEN Len(good) ELSE Len(idle)
    BY <2>1, MinOfTwo
  <2> QED BY <2>1, <2>2
<1> HIDE DEF good, idle, n
<1>6. /\ taken \in Seq(Offers) /\ rest \in Seq(Offers) /\ Len(taken) = n
      /\ Len(rest) = Len(good) - n
      /\ IsInjective(taken) /\ IsInjective(rest)
      /\ ToSet(taken) \cap ToSet(rest) = {} /\ ToSet(taken) \cup ToSet(rest) = ToSet(good)
  BY <1>3, <1>5, CutInTwo
<1> HIDE DEF taken, rest
<1>7. \A k \in 1..n : RequestOf(taken[k]) = idle[k] /\ idle[k] \in Requests
  <2> SUFFICES ASSUME NEW k \in 1..n
               PROVE  RequestOf(taken[k]) = idle[k] /\ idle[k] \in Requests
    OBVIOUS
  <2>1. DOMAIN taken = 1..n
    BY <1>6
  <2>2. \A j \in 1..n : taken[j] = taken[k] => j = k
    BY <1>6, <2>1 DEF IsInjective
  <2>3. (CHOOSE j \in 1..n : taken[j] = taken[k]) = k
    BY <2>2
  <2>4. k \in 1..Len(idle)
    BY <1>4, <1>5
  <2>5. idle[k] \in Requests
    BY <1>4, <2>4
  <2>6. RequestOf(taken[k]) = idle[k]
    BY <2>3
  <2> QED BY <2>5, <2>6
<1>8. \A o \in ToSet(taken) : \E k \in 1..n : taken[k] = o
  BY <1>6, ToSetMembers
<1>9. \A o \in ToSet(taken) : o \in Offers /\ RequestOf(o) \in Requests
  BY <1>6, <1>7, <1>8, ToSetMembers
<1> HIDE DEF RequestOf
<1>10. ASSUME NEW p \in Processes
       PROVE  /\ says(p) \in Seq(ToRunner)
              /\ \A x \in ToSet(says(p)) :
                   /\ Once(says(p), x)
                   /\ \E o \in ToSet(taken) : x = Msg("accept", o) /\ Delivers(IdOf(o), p)
  <2>1. /\ os(p) \in Seq(Offers) /\ IsInjective(os(p))
        /\ ToSet(os(p)) = ToSet(taken) \cap {o \in Offers : Delivers(IdOf(o), p)}
    BY <1>6, OnlyMembers
  <2> HIDE DEF os
  <2>2. /\ DOMAIN os(p) = 1..Len(os(p)) /\ Len(os(p)) \in Nat
        /\ \A k \in 1..Len(os(p)) : os(p)[k] \in Offers /\ os(p)[k] \in ToSet(os(p))
    BY <2>1, ToSetMembers
  <2>3. DOMAIN says(p) = 1..Len(os(p)) /\ \A k \in 1..Len(os(p)) : says(p)[k] \in ToRunner
    BY <2>2, OffersAre DEF TaskTypes
  <2>4. says(p) \in Seq(ToRunner)
    BY <2>2, <2>3
  <2>5. \A k \in 1..Len(os(p)) : says(p)[k] = Msg("accept", os(p)[k])
    BY <2>2
  <2> HIDE DEF says
  <2>6. ASSUME NEW x \in ToSet(says(p))
        PROVE  /\ Once(says(p), x)
               /\ \E o \in ToSet(taken) : x = Msg("accept", o) /\ Delivers(IdOf(o), p)
    <3>1. PICK k \in 1..Len(os(p)) : x = Msg("accept", os(p)[k])
      BY <2>3, <2>5 DEF ToSet
    <3>2. \A j \in 1..Len(os(p)) : says(p)[j] = x => os(p)[j] = os(p)[k]
      BY <2>5, <3>1, OffersAre
    <3>3. \A j \in 1..Len(os(p)) : says(p)[j] = x => j = k
      BY <2>1, <2>2, <3>2 DEF IsInjective
    <3>4. Once(says(p), x)
      BY <2>3, <3>3 DEF Once
    <3> QED BY <2>1, <2>2, <3>1, <3>4
  <2> QED BY <2>4, <2>6
<1> HIDE DEF says, s
<1>11. ToSet(taken) \cap ToSet(m.accepting) = {}
  BY <1>2, <1>3, <1>6
<1>12. /\ s.accepting \in Seq(Offers) /\ IsInjective(s.accepting)
       /\ ToSet(s.accepting) = ToSet(m.accepting) \cup ToSet(taken)
  BY <1>1, <1>2, <1>6, <1>11, InjectiveConcat, Concatenated
<1>13. s.taskFor \in [Offers -> Requests \cup {None}]
  BY <1>1, <1>2, <1>9
<1>14. s.out \in [Processes -> Seq(ToRunner)]
  BY <1>1, <1>2, <1>10
<1>15. /\ \A o \in ToSet(taken) : s.taskFor[o] \in Requests
       /\ \A o \in Offers \ ToSet(taken) : s.taskFor[o] = m.taskFor[o]
  BY <1>1, <1>9
<1>16. Sound(s)
  <2>1. s \in MatchingRecords
    BY <1>1, <1>2, <1>6, <1>12, <1>13, <1>14 DEF MatchingRecords
  <2>2. \A o \in ToSet(s.pool) : s.taskFor[o] = None
    BY <1>1, <1>2, <1>3, <1>6, <1>15, ToSetMembers
  <2>3. \A o \in ToSet(s.accepting) : s.taskFor[o] # None
    BY <1>2, <1>11, <1>12, <1>15, Unmatched, ToSetMembers
  <2> QED BY <1>1, <1>2, <1>6, <1>12, <2>1, <2>2, <2>3 DEF Sound
<1>17. AllServed(s)
  <2> SUFFICES ASSUME NEW r \in ToSet(s.pending), s.pool # <<>>
               PROVE  \E o \in ToSet(s.accepting) : s.taskFor[o] = r
    BY <1>12, InProgress DEF AllServed
  <2>1. CASE AcceptInProgress(m, r)
    <3>1. PICK o \in ToSet(m.accepting) : m.taskFor[o] = r
      BY <1>2, <2>1, InProgress
    <3>2. o \in Offers \ ToSet(taken)
      BY <1>2, <1>11, <3>1, ToSetMembers
    <3> QED BY <1>12, <1>15, <3>1, <3>2
  <2>2. CASE ~AcceptInProgress(m, r)
    <3>1. r \in ToSet(idle)
      BY <1>1, <1>2, <1>4, <2>2, ToSetMembers
    <3>2. n = Len(idle)
      <4>1. SUFFICES ASSUME n = Len(good) PROVE FALSE
        BY <1>5
      <4>2. Len(rest) = 0
        BY <1>3, <1>6, <4>1
      <4>3. rest = <<>>
        BY <1>6, <4>2
      <4> QED BY <1>1, <4>3
    <3>3. PICK k \in 1..n : idle[k] = r
      BY <1>4, <3>1, <3>2, ToSetMembers
    <3>4. taken[k] \in ToSet(taken) /\ taken[k] \in Offers
      BY <1>6, <3>3, ToSetMembers
    <3>5. s.taskFor[taken[k]] = r
      BY <1>1, <1>7, <3>3, <3>4
    <3> QED BY <1>12, <3>4, <3>5
  <2> QED BY <2>1, <2>2
<1>18. TellsOnly(m.out, s.out, ToSet(taken))
  <2> DEFINE more == [p \in Processes |-> says(p)]
  <2>1. more \in [Processes -> Seq(ToRunner)]
    BY <1>10
  <2>2. \A p \in Processes : more[p] = says(p) /\ s.out[p] = m.out[p] \o more[p]
    BY <1>1
  <2> HIDE DEF more
  <2>3. \A p \in Processes : \A x \in ToSet(more[p]) :
          /\ Once(more[p], x)
          /\ \E o \in ToSet(taken) : x = Msg("accept", o) /\ Delivers(IdOf(o), p)
    BY <1>10, <2>2
  <2> QED BY <2>1, <2>2, <2>3 DEF TellsOnly
<1>19. ToSet(taken) \in SUBSET Offers /\ Rematched(m, s, {}, ToSet(taken))
  BY <1>1, <1>3, <1>6, <1>9, <1>12, <1>15, <1>18 DEF Rematched
<1> QED BY <1>16, <1>17, <1>19 DEF s

LEMMA Telling ==
  ASSUME NEW a, NEW b, NEW c, NEW S \in SUBSET Offers, NEW T \in SUBSET Offers,
         a \in [Processes -> Seq(ToRunner)],
         TellsOnly(a, b, S), TellsOnly(b, c, T), S \cap T = {}
  PROVE  TellsOnly(a, c, S \cup T)
<1>1. PICK u \in [Processes -> Seq(ToRunner)] :
        \A p \in Processes :
          /\ b[p] = a[p] \o u[p]
          /\ \A x \in ToSet(u[p]) :
               /\ Once(u[p], x)
               /\ \E o \in S : x = Msg("accept", o) /\ Delivers(IdOf(o), p)
  BY DEF TellsOnly
<1>2. PICK v \in [Processes -> Seq(ToRunner)] :
        \A p \in Processes :
          /\ c[p] = b[p] \o v[p]
          /\ \A x \in ToSet(v[p]) :
               /\ Once(v[p], x)
               /\ \E o \in T : x = Msg("accept", o) /\ Delivers(IdOf(o), p)
  BY DEF TellsOnly
<1> DEFINE w == [p \in Processes |-> u[p] \o v[p]]
<1>3. w \in [Processes -> Seq(ToRunner)]
  BY Concatenated
<1>4. \A p \in Processes : w[p] = u[p] \o v[p] /\ u[p] \in Seq(ToRunner) /\ v[p] \in Seq(ToRunner)
  OBVIOUS
<1> HIDE DEF w
<1>5. ASSUME NEW p \in Processes PROVE c[p] = a[p] \o w[p]
  <2>1. a[p] \in Seq(ToRunner) /\ c[p] = (a[p] \o u[p]) \o v[p]
    BY <1>1, <1>2
  <2>2. (a[p] \o u[p]) \o v[p] = a[p] \o (u[p] \o v[p])
    BY <1>4, <2>1, ConcatAssociative
  <2> QED BY <1>4, <2>1, <2>2
<1>6. ASSUME NEW p \in Processes, NEW x \in ToSet(w[p])
      PROVE  /\ Once(w[p], x)
             /\ \E o \in S \cup T : x = Msg("accept", o) /\ Delivers(IdOf(o), p)
  <2>a. /\ w[p] = u[p] \o v[p] /\ u[p] \in Seq(ToRunner) /\ v[p] \in Seq(ToRunner)
        /\ ToSet(u[p] \o v[p]) = ToSet(u[p]) \cup ToSet(v[p])
    BY <1>4, Concatenated
  <2>1. x \in ToSet(u[p]) \/ x \in ToSet(v[p])
    BY <1>6, <2>a
  <2>2. ~(x \in ToSet(u[p]) /\ x \in ToSet(v[p]))
    <3> SUFFICES ASSUME x \in ToSet(u[p]), x \in ToSet(v[p]) PROVE FALSE
      OBVIOUS
    <3>1. PICK o \in S : x = Msg("accept", o)
      BY <1>1
    <3>2. PICK z \in T : x = Msg("accept", z)
      BY <1>2
    <3> QED BY <3>1, <3>2, OffersAre
  <2>3. Once(w[p], x)
    <3>1. CASE x \in ToSet(u[p])
      <4>1. Once(u[p], x) /\ x \notin ToSet(v[p])
        BY <1>1, <2>2, <3>1
      <4> QED BY <2>a, <4>1, OnceInBoth
    <3>2. CASE x \in ToSet(v[p])
      <4>1. Once(v[p], x) /\ x \notin ToSet(u[p])
        BY <1>2, <2>2, <3>2
      <4> QED BY <2>a, <4>1, OnceInBoth
    <3> QED BY <2>1, <3>1, <3>2
  <2> QED BY <1>1, <1>2, <2>1, <2>3
<1> QED BY <1>3, <1>5, <1>6 DEF TellsOnly

LEMMA Rematching ==
  ASSUME NEW a, NEW b, NEW c, NEW G, NEW H, NEW S \in SUBSET Offers, NEW T \in SUBSET Offers,
         Sound(a), Rematched(a, b, G, S), Rematched(b, c, H, T),
         H \cap S = {}
  PROVE  Rematched(a, c, G \cup H, S \cup T)
<1>1. a.out \in [Processes -> Seq(ToRunner)]
  BY DEF Sound, MatchingRecords
<1>2. S \cap T = {}
  BY DEF Rematched
<1>3. TellsOnly(a.out, c.out, S \cup T)
  BY <1>1, <1>2, Telling DEF Rematched
<1>4. ToSet(c.accepting) = (ToSet(a.accepting) \ (G \cup H)) \cup S \cup T
  BY DEF Rematched
<1>5. \A o \in S : c.taskFor[o] = b.taskFor[o] /\ b.taskFor[o] \in Requests
  BY <1>2 DEF Rematched
<1>6. \A o \in T : c.taskFor[o] \in Requests
  BY DEF Rematched
<1>7. \A o \in Offers \ (S \cup T) : c.taskFor[o] = a.taskFor[o]
  BY DEF Rematched
<1>8. /\ c.pending = a.pending /\ S \cup T \subseteq ToSet(a.pool)
      /\ ToSet(c.pool) \subseteq ToSet(a.pool) \ (S \cup T)
  BY DEF Rematched
<1> QED BY <1>3, <1>4, <1>5, <1>6, <1>7, <1>8 DEF Rematched

\* An acceptance that ends, and the round of matching it calls for.
LEMMA Rejecting ==
  ASSUME NEW m, Sound(m), NEW o
  PROVE  /\ Sound(Reject(m, o)) /\ AllServed(Reject(m, o))
         /\ \E new \in SUBSET Offers : Rematched(m, Reject(m, o), {o}, new)
<1> DEFINE w == [m EXCEPT !.accepting = Without(@, o)]
<1>1. /\ m \in MatchingRecords /\ m.accepting \in Seq(Offers) /\ IsInjective(m.accepting)
  BY DEF Sound, MatchingRecords
<1>2. /\ Without(m.accepting, o) \in Seq(Offers) /\ IsInjective(Without(m.accepting, o))
      /\ ToSet(Without(m.accepting, o)) = ToSet(m.accepting) \ {o}
  BY <1>1, WithoutOne
<1>3. /\ w \in MatchingRecords /\ w.accepting = Without(m.accepting, o)
      /\ w.pool = m.pool /\ w.pending = m.pending /\ w.taskFor = m.taskFor /\ w.out = m.out
  BY <1>1, <1>2 DEF MatchingRecords
<1>4. Reject(m, o) = Settle(w)
  BY DEF Reject
<1> HIDE DEF w
<1>5. Sound(w)
  BY <1>2, <1>3 DEF Sound
<1>6. /\ Sound(Settle(w)) /\ AllServed(Settle(w))
      /\ \E new \in SUBSET Offers : Rematched(w, Settle(w), {}, new)
  BY <1>5, Settling
<1>7. PICK new \in SUBSET Offers : Rematched(w, Settle(w), {}, new)
  BY <1>6
<1>8. Rematched(m, Settle(w), {o}, new)
  BY <1>2, <1>3, <1>7 DEF Rematched
<1> QED BY <1>4, <1>6, <1>8

\* The loop over several acceptances is the recursion of a function that exists.
LEMMA RejectAllUnfolds ==
  ASSUME NEW m, NEW s \in Seq(Offers)
  PROVE  \E g : /\ g = [k \in 0..Len(s) |-> IF k = 0 THEN m ELSE Reject(g[k - 1], s[k])]
                /\ RejectAll(m, s) = g[Len(s)]
<1> DEFINE To(g, k) == IF k = 0 THEN m ELSE Reject(g[k - 1], s[k])
           Up(n) == \E g : g = [k \in 0..n |-> To(g, k)]
           N == {n \in Nat : Up(n)}
<1>1. 0 \in N
  <2> DEFINE g == [k \in 0..0 |-> m]
  <2>1. g = [k \in 0..0 |-> To(g, k)]
    OBVIOUS
  <2>2. Up(0)
    BY <2>1
  <2> QED BY <2>2
<1>2. ASSUME NEW n \in Nat, n \in N PROVE n + 1 \in N
  <2>1. PICK g : g = [k \in 0..n |-> To(g, k)]
    BY <1>2
  <2> DEFINE h == [k \in 0..(n + 1) |-> IF k = n + 1 THEN To(g, n + 1) ELSE g[k]]
  <2> HIDE DEF To
  <2>2. ASSUME NEW k \in 0..(n + 1) PROVE h[k] = To(h, k)
    <3>1. CASE k = 0
      BY <2>1, <3>1 DEF To
    <3>2. CASE k # 0 /\ k # n + 1
      <4>1. k \in 0..n /\ k - 1 \in 0..n /\ k - 1 # n + 1 /\ k - 1 \in 0..(n + 1)
        BY <3>2
      <4>2. g[k] = To(g, k)
        BY <2>1, <4>1
      <4>3. h[k] = g[k] /\ h[k - 1] = g[k - 1]
        BY <3>2, <4>1
      <4> HIDE DEF h
      <4> QED BY <3>2, <4>2, <4>3 DEF To
    <3>3. CASE k = n + 1
      <4>1. k - 1 \in 0..n /\ k - 1 # n + 1
        BY <3>3
      <4>2. h[k] = To(g, k) /\ h[k - 1] = g[k - 1]
        BY <2>1, <3>3, <4>1
      <4> HIDE DEF h
      <4> QED BY <3>3, <4>2 DEF To
    <3> QED BY <3>1, <3>2, <3>3
  <2>3. h = [k \in 0..(n + 1) |-> To(h, k)]
    BY <2>2
  <2> HIDE DEF h
  <2>4. Up(n + 1)
    BY <2>3
  <2> QED BY <2>4
<1>3. Nat \subseteq N
  BY <1>1, <1>2, InductiveSet
<1>4. Up(Len(s))
  BY <1>3
<1> QED BY <1>4 DEF RejectAll

LEMMA RejectingAll ==
  ASSUME NEW m, Sound(m), NEW s \in Seq(Offers), ToSet(s) \subseteq ToSet(m.accepting)
  PROVE  /\ Sound(RejectAll(m, s))
         /\ s # <<>> => AllServed(RejectAll(m, s))
         /\ s = <<>> => RejectAll(m, s) = m
         /\ \E new \in SUBSET Offers : Rematched(m, RejectAll(m, s), ToSet(s), new)
<1>1. PICK g : /\ g = [k \in 0..Len(s) |-> IF k = 0 THEN m ELSE Reject(g[k - 1], s[k])]
               /\ RejectAll(m, s) = g[Len(s)]
  BY RejectAllUnfolds
<1>2. Len(s) \in Nat /\ \A k \in 1..Len(s) : s[k] \in Offers /\ s[k] \in ToSet(m.accepting)
  BY ToSetMembers
<1> DEFINE Gone(k) == {s[j] : j \in 1..k}
           Good(k) == /\ Sound(g[k])
                      /\ k # 0 => AllServed(g[k])
                      /\ \E new \in SUBSET Offers : Rematched(m, g[k], Gone(k), new)
           N == {k \in Nat : k <= Len(s) => Good(k)}
<1>3. g[0] = m
  BY <1>1, <1>2
<1>4. 0 \in N
  <2>1. Gone(0) = {}
    OBVIOUS
  <2>2. TellsOnly(m.out, m.out, {})
    <3> DEFINE more == [p \in Processes |-> <<>>]
    <3>1. more \in [Processes -> Seq(ToRunner)]
      OBVIOUS
    <3>2. \A p \in Processes : more[p] = <<>> /\ ToSet(more[p]) = {}
      BY EmptyToSet
    <3>3. \A p \in Processes : m.out[p] = m.out[p] \o more[p]
      <4>1. \A p \in Processes : m.out[p] \in Seq(ToRunner)
        BY DEF Sound, MatchingRecords
      <4> QED BY <3>2, <4>1
    <3> HIDE DEF more
    <3> QED BY <3>1, <3>2, <3>3 DEF TellsOnly
  <2>3. Rematched(m, m, {}, {})
    BY <2>2 DEF Rematched
  <2> QED BY <1>3, <2>1, <2>3
<1>5. ASSUME NEW k \in Nat, k \in N PROVE k + 1 \in N
  <2> HIDE DEF Good
  <2> SUFFICES ASSUME k + 1 <= Len(s) PROVE Good(k + 1)
    OBVIOUS
  <2> USE DEF Good
  <2>1. k + 1 \in 1..Len(s) /\ k + 1 \in 0..Len(s) /\ k + 1 # 0 /\ (k + 1) - 1 = k /\ k <= Len(s)
    BY <1>2
  <2>2. Good(k)
    BY <1>5, <2>1
  <2>3. g[k + 1] = Reject(g[k], s[k + 1])
    BY <1>1, <2>1
  <2>4. /\ Sound(g[k + 1]) /\ AllServed(g[k + 1])
        /\ \E new \in SUBSET Offers : Rematched(g[k], g[k + 1], {s[k + 1]}, new)
    BY <2>2, <2>3, Rejecting
  <2>5. PICK S \in SUBSET Offers : Rematched(m, g[k], Gone(k), S)
    BY <2>2
  <2>6. PICK T \in SUBSET Offers : Rematched(g[k], g[k + 1], {s[k + 1]}, T)
    BY <2>4
  <2>7. {s[k + 1]} \cap S = {}
    <3>1. m.taskFor[s[k + 1]] # None /\ \A o \in S : m.taskFor[o] = None
      BY <1>2, <2>1, <2>5 DEF Sound, Rematched
    <3> QED BY <3>1
  <2>8. Gone(k + 1) = Gone(k) \cup {s[k + 1]}
    <3>1. 1..(k + 1) = (1..k) \cup {k + 1}
      OBVIOUS
    <3> QED BY <3>1
  <2> HIDE DEF Gone
  <2>9. Rematched(m, g[k + 1], Gone(k) \cup {s[k + 1]}, S \cup T)
    BY <2>5, <2>6, <2>7, Rematching
  <2> QED BY <2>4, <2>8, <2>9
<1>6. Nat \subseteq N
  <2> HIDE DEF N
  <2> QED BY <1>4, <1>5, InductiveSet
<1>7. Good(Len(s))
  <2> HIDE DEF Good
  <2>1. Len(s) <= Len(s)
    BY <1>2
  <2> QED BY <1>2, <1>6, <2>1
<1>8. Gone(Len(s)) = ToSet(s)
  BY <1>2 DEF ToSet
<1>9. (s # <<>> => Len(s) # 0) /\ (s = <<>> => Len(s) = 0)
  OBVIOUS
<1> HIDE DEF Gone
<1> QED BY <1>1, <1>3, <1>7, <1>8, <1>9

-----------------------------------------------------------------------------
(* Turns of the broker, which leave the runners' own state alone.          *)

LEMMA MessagesAre ==
  /\ \A m \in ToRunner : /\ m.type \in {"registered", "drain"} \cup TaskTypes
                         /\ m.type \in TaskTypes => m.task \in Offers /\ m = Msg(m.type, m.task)
  /\ \A m \in ToBroker : /\ m.type \in {"info", "offer"} \cup Answers
                         /\ m.type # "info" => m.task \in Offers /\ m = Msg(m.type, m.task)
                         /\ m.type = "info" => m = InfoFrame
  BY DEF ToRunner, ToBroker, Msg, TaskTypes, Answers, InfoFrame

\* Frames to the broker are read or lost.
InboxShrinks ==
  \A p \in Processes :
    /\ toBroker'[p] \in Seq(ToBroker)
    /\ ToSet(toBroker'[p]) \subseteq ToSet(toBroker[p])
    /\ \A m : Once(toBroker[p], m) => Once(toBroker'[p], m)

\* The offers `new` are matched; what is in the pool is not on its way any more.
Matches(new) ==
  /\ new \subseteq Offers
  /\ taskFor' \in [Offers -> Requests \cup {None}]
  /\ \A o \in new :
       /\ taskFor[o] = None /\ Made(o) /\ taskFor'[o] \in Requests
       /\ \A p \in Processes : Msg("offer", o) \notin ToSet(toBroker'[p])
  /\ \A o \in Offers \ new : taskFor'[o] = taskFor[o]
  /\ \A o \in ToSet(pool') : \A p \in Processes : Msg("offer", o) \notin ToSet(toBroker'[p])

\* The messages `out` are of matched offers, acceptances among them of `new` ones.
Fits(out, new) ==
  /\ out \in [Processes -> Seq(ToRunner)]
  /\ \A p \in Processes : \A x \in ToSet(out[p]) :
       /\ x.type \in TaskTypes => taskFor'[x.task] # None /\ IdOf(x.task) = ident[p]
       /\ x.type = "accept" => x.task \in new /\ Once(out[p], x)

Sends(out, new) == Fits(out, new) /\ Send(out)

RunnersRest == UNCHANGED <<ident, offering, draining, openOffers, made, work>>

LEMMA ChannelTypes ==
  ASSUME TypeOK
  PROVE  /\ \A p \in Processes : toRunner[p] \in Seq(ToRunner) /\ toBroker[p] \in Seq(ToBroker)
         /\ \A p \in Processes : ToSet(toRunner[p]) \subseteq ToRunner
         /\ \A p \in Processes : ToSet(toBroker[p]) \subseteq ToBroker
<1>1. \A p \in Processes : toRunner[p] \in Seq(ToRunner) /\ toBroker[p] \in Seq(ToBroker)
  BY DEF TypeOK
<1> QED BY <1>1, ToSetMembers

LEMMA Sent ==
  ASSUME TypeOK, NEW out, NEW new, Sends(out, new)
  PROVE  /\ toRunner' \in [Processes -> Seq(ToRunner)]
         /\ \A p \in Processes :
              /\ out[p] \in Seq(ToRunner) /\ toRunner'[p] = toRunner[p] \o out[p]
              /\ ToSet(toRunner'[p]) = ToSet(toRunner[p]) \cup ToSet(out[p])
              /\ ToSet(out[p]) \subseteq ToRunner
<1>1. \A p \in Processes :
        /\ toRunner[p] \in Seq(ToRunner) /\ out[p] \in Seq(ToRunner)
        /\ toRunner'[p] = toRunner[p] \o out[p]
  BY ChannelTypes DEF Sends, Fits, Send
<1>2. \A p \in Processes :
        /\ toRunner'[p] \in Seq(ToRunner)
        /\ ToSet(toRunner'[p]) = ToSet(toRunner[p]) \cup ToSet(out[p])
        /\ ToSet(out[p]) \subseteq ToRunner
  <2> SUFFICES ASSUME NEW p \in Processes
               PROVE  /\ toRunner[p] \o out[p] \in Seq(ToRunner)
                      /\ ToSet(toRunner[p] \o out[p]) = ToSet(toRunner[p]) \cup ToSet(out[p])
                      /\ ToSet(out[p]) \subseteq ToRunner
    BY <1>1
  <2>1. toRunner[p] \in Seq(ToRunner) /\ out[p] \in Seq(ToRunner)
    BY <1>1
  <2>2. ToSet(out[p]) \subseteq ToRunner
    BY <2>1, ToSetMembers
  <2> QED BY <2>1, <2>2, Concatenated
<1>3. toRunner' \in [Processes -> Seq(ToRunner)]
  BY <1>1, <1>2 DEF Sends, Fits, Send
<1> QED BY <1>1, <1>2, <1>3

\* The frames still stand for offers that were made and matched.
LEMMA FramesKept ==
  ASSUME IInv, NEW new, NEW out, RunnersRest, InboxShrinks, Matches(new), Sends(out, new)
  PROVE  FramesMatched'
<1>1. /\ \A p \in Processes :
           /\ ToSet(toRunner'[p]) = ToSet(toRunner[p]) \cup ToSet(out[p])
           /\ ToSet(toRunner[p]) \subseteq ToRunner /\ ToSet(out[p]) \subseteq ToRunner
           /\ ToSet(toBroker[p]) \subseteq ToBroker
           /\ ToSet(toBroker'[p]) \subseteq ToSet(toBroker[p])
  BY Sent, ChannelTypes DEF IInv, InboxShrinks
<1>2. /\ \A o \in Offers : taskFor[o] # None => taskFor'[o] # None
      /\ \A o \in new : taskFor[o] = None
      /\ \A o \in Offers \ new : taskFor'[o] = taskFor[o]
      /\ openOffers' = openOffers /\ made' = made /\ work' = work
      /\ ident' = ident /\ \A o : IdOf(o)' = IdOf(o)
  BY DEF IdOf, Matches, RunnersRest
<1>3. \A o \in openOffers' : Made(o)'
  BY <1>2 DEF IInv, FramesMatched, Made
<1>4. \A o \in Offers : work'[o] # "none" => taskFor'[o] # None
  BY <1>2 DEF IInv, FramesMatched
<1>5. ASSUME NEW p \in Processes, NEW m \in ToSet(toRunner'[p]), m.type \in TaskTypes
      PROVE  taskFor'[m.task] # None /\ IdOf(m.task)' = ident'[p]
  <2>1. CASE m \in ToSet(out[p])
    BY <1>2, <1>5, <2>1 DEF Sends, Fits, Send
  <2>2. CASE m \in ToSet(toRunner[p])
    <3>1. m.task \in Offers
      BY <1>1, <1>5, <2>2, MessagesAre
    <3>2. taskFor[m.task] # None /\ IdOf(m.task) = ident[p]
      BY <1>5, <2>2 DEF IInv, FramesMatched
    <3> QED BY <1>2, <3>1, <3>2
  <2> QED BY <1>1, <2>1, <2>2
<1>6. ASSUME NEW p \in Processes, NEW m \in ToSet(toBroker'[p])
      PROVE  /\ m.type \in Answers => taskFor'[m.task] # None /\ IdOf(m.task)' = ident'[p]
             /\ m.type \in Answers \ {"rejected"} => Owner(m.task) = p
             /\ m.type = "offer" =>
                  /\ Owner(m.task) = p /\ Made(m.task)' /\ taskFor'[m.task] = None
                  /\ m.task \notin ToSet(pool')
                  /\ Once(toBroker'[p], m)
  <2>1. /\ m \in ToSet(toBroker[p]) /\ m \in ToBroker
        /\ m.type # "info" => m.task \in Offers /\ m = Msg(m.type, m.task)
    BY <1>1, <1>6, MessagesAre
  <2>2. /\ m.type \in Answers => taskFor[m.task] # None /\ IdOf(m.task) = ident[p]
        /\ m.type \in Answers \ {"rejected"} => Owner(m.task) = p
        /\ m.type = "offer" =>
             /\ Owner(m.task) = p /\ Made(m.task) /\ taskFor[m.task] = None
             /\ Once(toBroker[p], m)
    BY <2>1 DEF IInv, FramesMatched
  <2>3. m.type \in Answers => m.type # "info"
    BY DEF Answers
  <2>4. m.type \in Answers => taskFor'[m.task] # None /\ IdOf(m.task)' = ident'[p]
    BY <1>2, <2>1, <2>2, <2>3
  <2>5. ASSUME m.type = "offer"
        PROVE  /\ Made(m.task)' /\ taskFor'[m.task] = None
               /\ m.task \notin ToSet(pool') /\ Once(toBroker'[p], m)
    <3>1. m.task \notin new /\ m.task \notin ToSet(pool')
      BY <1>6, <2>1, <2>5 DEF Matches
    <3>2. taskFor'[m.task] = None
      BY <1>2, <2>1, <2>2, <2>5, <3>1
    <3>3. Made(m.task)'
      BY <1>2, <2>2, <2>5 DEF Made
    <3> QED BY <2>2, <2>5, <3>1, <3>2, <3>3 DEF InboxShrinks
  <2> QED BY <2>2, <2>4, <2>5
<1> QED BY <1>3, <1>4, <1>5, <1>6 DEF FramesMatched

\* An offer without a request has no frames but its own.
LEMMA NoFramesYet ==
  ASSUME IInv, NEW o \in Offers, taskFor[o] = None, NEW p \in Processes
  PROVE  /\ \A t \in TaskTypes : Msg(t, o) \notin ToSet(toRunner[p])
         /\ \A t \in Answers : Msg(t, o) \notin ToSet(toBroker[p])
         /\ work[o] = "none"
  BY OffersAre DEF IInv, FramesMatched

LEMMA AcceptedOnceKept ==
  ASSUME IInv, NEW new, NEW out, RunnersRest, InboxShrinks, Matches(new), Sends(out, new)
  PROVE  AcceptedOnce'
<1> SUFFICES ASSUME NEW o \in Offers, NEW p \in Processes, p = Owner(o)
             PROVE  /\ Msg("accept", o) \in ToSet(toRunner'[p]) =>
                         /\ Once(toRunner'[p], Msg("accept", o))
                         /\ work'[o] = "none"
                         /\ \A t \in Answers : Msg(t, o) \notin ToSet(toBroker'[p])
                    /\ \A t \in Answers \ {"accepted"} :
                         Msg(t, o) \in ToSet(toBroker'[p]) => work'[o] = "none"
  BY OffersAre DEF AcceptedOnce
<1>1. /\ toRunner[p] \in Seq(ToRunner) /\ out[p] \in Seq(ToRunner)
      /\ toRunner'[p] = toRunner[p] \o out[p]
      /\ ToSet(toRunner'[p]) = ToSet(toRunner[p]) \cup ToSet(out[p])
      /\ ToSet(toBroker'[p]) \subseteq ToSet(toBroker[p])
      /\ work' = work
  BY Sent, ChannelTypes DEF IInv, InboxShrinks, RunnersRest
<1>2. /\ Msg("accept", o) \in ToSet(toRunner[p]) =>
           /\ Once(toRunner[p], Msg("accept", o))
           /\ work[o] = "none"
           /\ \A t \in Answers : Msg(t, o) \notin ToSet(toBroker[p])
      /\ \A t \in Answers \ {"accepted"} :
           Msg(t, o) \in ToSet(toBroker[p]) => work[o] = "none"
  BY DEF IInv, AcceptedOnce
<1>3. Msg("accept", o) \in ToSet(out[p]) => o \in new /\ Once(out[p], Msg("accept", o))
  BY OffersAre DEF Sends, Fits, Send
<1>4. o \in new =>
        /\ Msg("accept", o) \notin ToSet(toRunner[p]) /\ work[o] = "none"
        /\ \A t \in Answers : Msg(t, o) \notin ToSet(toBroker[p])
  BY NoFramesYet DEF Matches, TaskTypes
<1>5. Msg("accept", o) \in ToSet(toRunner'[p]) => Once(toRunner'[p], Msg("accept", o))
  <2>1. CASE Msg("accept", o) \in ToSet(out[p])
    BY <1>1, <1>3, <1>4, <2>1, OnceInBoth
  <2>2. CASE Msg("accept", o) \in ToSet(toRunner[p]) /\ Msg("accept", o) \notin ToSet(out[p])
    BY <1>1, <1>2, <2>2, OnceInBoth
  <2> QED BY <1>1, <2>1, <2>2
<1> QED BY <1>1, <1>2, <1>3, <1>4, <1>5

\* A request that was taken over once keeps its one frame with settings.
LEMMA SettingsKept ==
  ASSUME IInv, NEW new, NEW out, InboxShrinks, Matches(new), Sends(out, new),
         \A p \in Processes : \A x \in ToSet(out[p]) : x.type # "settings",
         \A r \in Requests : request[r] \in Begun => request'[r] \in Begun, ran' = ran
  PROVE  SettingsOnce'
<1>1. ASSUME NEW p \in Processes, NEW k \in DOMAIN toRunner'[p],
             toRunner'[p][k].type = "settings"
      PROVE  /\ k \in DOMAIN toRunner[p] /\ toRunner'[p][k] = toRunner[p][k]
             /\ taskFor'[toRunner[p][k].task] = taskFor[toRunner[p][k].task]
             /\ taskFor[toRunner[p][k].task] \in Requests
  <2>1. /\ toRunner[p] \in Seq(ToRunner) /\ out[p] \in Seq(ToRunner)
        /\ toRunner'[p] = toRunner[p] \o out[p]
    BY Sent, ChannelTypes DEF IInv
  <2>2. toRunner'[p][k] \notin ToSet(out[p])
    BY <1>1
  <2>3. k \in DOMAIN toRunner[p] /\ toRunner'[p][k] = toRunner[p][k]
    BY <2>1, <2>2, PlaceInConcat
  <2>4. /\ toRunner[p][k] \in ToSet(toRunner[p]) /\ toRunner[p][k] \in ToRunner
    BY <2>1, <2>3, ToSetMembers
  <2> DEFINE o == toRunner[p][k].task
  <2>6. o \in Offers /\ taskFor[o] # None
    BY <1>1, <2>3, <2>4, MessagesAre DEF IInv, FramesMatched, TaskTypes
  <2>7. taskFor'[o] = taskFor[o] /\ taskFor[o] \in Requests
    BY <2>6 DEF Matches, IInv, TypeOK
  <2> QED BY <2>3, <2>7
<1>2. ASSUME NEW p \in Processes, NEW k \in DOMAIN toRunner'[p],
             toRunner'[p][k].type = "settings"
      PROVE  /\ request'[taskFor'[toRunner'[p][k].task]] \in Begun
             /\ ran'[taskFor'[toRunner'[p][k].task]] = 0
  BY <1>1, <1>2 DEF IInv, SettingsOnce
<1>3. ASSUME NEW p \in Processes, NEW q \in Processes,
             NEW k \in DOMAIN toRunner'[p], NEW l \in DOMAIN toRunner'[q],
             toRunner'[p][k].type = "settings", toRunner'[q][l].type = "settings",
             taskFor'[toRunner'[p][k].task] = taskFor'[toRunner'[q][l].task]
      PROVE  p = q /\ k = l
  BY <1>1, <1>3 DEF IInv, SettingsOnce
<1>4. \A r \in Requests : ran'[r] # 0 => request'[r] \in Begun
  BY DEF IInv, SettingsOnce
<1> QED BY <1>2, <1>3, <1>4 DEF SettingsOnce

\* A turn of the broker that opens no connection, and registers newcomers only.
Steady ==
  /\ UNCHANGED <<ident, life>>
  /\ killed \subseteq killed' /\ (closing' = "no" => closing = "no")
  /\ \A p \in Processes : socket'[p] = "open" => socket[p] = "open"
  /\ \A i \in Ids : \A p \in Processes :
       current'[i] = p => current[i] = p \/ Newcomer(p)

\* What must be seen to of every attended runner in a turn of the broker.
SlotsSeenTo(out) ==
  \A o \in Offers :
    LET p == Owner(o)
    IN  Attended(p) /\ Attended(p)' =>
          /\ o \in ToSet(accepting) \ ToSet(accepting') =>
               \/ Msg("cancel", o) \in ToSet(out[p])
               \/ /\ Msg("accept", o) \notin ToSet(toRunner[p])
                  /\ work[o] \in {"waiting", "running"} => o \in tasks'
          /\ o \in tasks \ tasks' =>
               (work[o] \in {"waiting", "running"} => Msg("cancel", o) \in ToSet(out[p]))
          /\ Msg("accept", o) \in ToSet(out[p]) => o \in ToSet(accepting')

\* Who is attended after such a turn was so before it, or is registered in it.
LEMMA AttendedBefore ==
  ASSUME IInv, Steady, NEW p \in Processes, Attended(p)', ~Attended(p)
  PROVE  made[p] = 0
<1>1. ident[p] \in Ids /\ current'[ident[p]] = p
  BY DEF IInv, TypeOK, Attended, Delivers, Steady
<1>2. Newcomer(p)
  BY <1>1 DEF Attended, Delivers, Steady
<1> QED BY <1>2 DEF IInv, NewcomersAreFresh

LEMMA SlotsKept ==
  ASSUME IInv, NEW new, NEW out, RunnersRest, Matches(new), Sends(out, new), Steady,
         SlotsSeenTo(out)
  PROVE  SlotsWatched'
<1> SUFFICES ASSUME NEW o \in Offers, NEW p \in Processes, p = Owner(o), Attended(p)'
             PROVE  /\ \/ o \in ToSet(accepting')
                       \/ Covered(toRunner'[p], Msg("accept", o), Msg("cancel", o))
                    /\ work'[o] \in {"waiting", "running"} =>
                         \/ o \in tasks' \/ o \in ToSet(accepting')
                         \/ Msg("cancel", o) \in ToSet(toRunner'[p])
  BY OffersAre DEF SlotsWatched
<1>1. /\ toRunner[p] \in Seq(ToRunner) /\ out[p] \in Seq(ToRunner)
      /\ toRunner'[p] = toRunner[p] \o out[p]
      /\ ToSet(toRunner'[p]) = ToSet(toRunner[p]) \cup ToSet(out[p])
      /\ work' = work
  BY Sent, ChannelTypes DEF IInv, RunnersRest
<1> DEFINE a == Msg("accept", o)
           c == Msg("cancel", o)
<1>2. CASE made[p] = 0
  <2>1. ~Made(o)
    BY <1>2, OffersAre DEF Made
  <2>2. taskFor[o] = None /\ o \notin new
    BY <2>1 DEF IInv, OffersOnce, Matches
  <2>3. a \notin ToSet(toRunner[p]) /\ work[o] = "none"
    BY <2>2, NoFramesYet DEF TaskTypes
  <2>4. a \notin ToSet(out[p])
    BY <2>2, OffersAre DEF Sends, Fits, Send
  <2>5. \A k \in DOMAIN toRunner'[p] : toRunner'[p][k] # a
    BY <1>1, <2>3, <2>4 DEF ToSet
  <2>6. Covered(toRunner'[p], a, c)
    BY <2>5 DEF Covered
  <2> QED BY <1>1, <2>3, <2>6
<1>3. CASE made[p] # 0
  <2>0. Attended(p)
    BY <1>3, OffersAre, AttendedBefore
  <2>1. /\ o \in ToSet(accepting) \ ToSet(accepting') =>
             \/ c \in ToSet(out[p])
             \/ /\ a \notin ToSet(toRunner[p])
                /\ work[o] \in {"waiting", "running"} => o \in tasks'
        /\ o \in tasks \ tasks' => (work[o] \in {"waiting", "running"} => c \in ToSet(out[p]))
        /\ a \in ToSet(out[p]) => o \in ToSet(accepting')
    BY <2>0 DEF SlotsSeenTo
  <2>2. /\ o \in ToSet(accepting) \/ Covered(toRunner[p], a, c)
        /\ work[o] \in {"waiting", "running"} =>
             o \in tasks \/ o \in ToSet(accepting) \/ c \in ToSet(toRunner[p])
    BY <2>0 DEF IInv, SlotsWatched
  <2>3. a \notin ToSet(toRunner[p]) => Covered(toRunner[p], a, c)
    BY DEF Covered, ToSet
  <2>4. o \in ToSet(accepting') \/ Covered(toRunner'[p], a, c)
    <3> SUFFICES ASSUME o \notin ToSet(accepting') PROVE Covered(toRunner'[p], a, c)
      OBVIOUS
    <3>1. a \notin ToSet(out[p])
      BY <2>1
    <3>2. Covered(toRunner[p], a, c) \/ c \in ToSet(out[p])
      BY <2>1, <2>2, <2>3
    <3> HIDE DEF a, c
    <3> QED BY <1>1, <3>1, <3>2, CoveredInBoth
  <2>5. work[o] \in {"waiting", "running"} =>
          o \in tasks' \/ o \in ToSet(accepting') \/ c \in ToSet(toRunner'[p])
    BY <1>1, <2>1, <2>2
  <2> QED BY <1>1, <2>4, <2>5
<1> QED BY <1>2, <1>3

-----------------------------------------------------------------------------
(* Offers and requests.                                                    *)

LEMMA NowSound ==
  ASSUME IInv
  PROVE  /\ Sound(Matching)
         /\ Matching.pool = pool /\ Matching.pending = pending
         /\ Matching.accepting = accepting /\ Matching.taskFor = taskFor
         /\ Matching.out = [p \in Processes |-> <<>>]
  BY DEF IInv, TypeOK, OffersOnce, RequestsKept, Sound, Matching, MatchingRecords, Nothing

LEMMA TasksAreMatched ==
  ASSUME IInv
  PROVE  /\ \A o \in tasks \cup ToSet(accepting) :
              o \in Offers /\ taskFor[o] \in Requests /\ Made(o)
         /\ \A o \in ToSet(pool) : o \in Offers /\ taskFor[o] = None /\ Made(o)
         /\ \A r \in ToSet(pending) : r \in Requests /\ request[r] = "waiting"
<1>1. \A o \in tasks \cup ToSet(accepting) : o \in Offers /\ taskFor[o] # None
  BY ToSetMembers DEF IInv, TypeOK, RequestsKept, OffersOnce
<1>2. \A o \in Offers : taskFor[o] # None => taskFor[o] \in Requests /\ Made(o)
  BY DEF IInv, TypeOK, OffersOnce
<1>3. \A o \in ToSet(pool) : o \in Offers
  BY ToSetMembers DEF IInv, TypeOK
<1> QED BY <1>1, <1>2, <1>3 DEF IInv, OffersOnce, RequestsKept

\* The variables after a turn in which m became n.
Becomes(n) ==
  /\ pool' = n.pool /\ pending' = n.pending /\ accepting' = n.accepting
  /\ taskFor' = n.taskFor

LEMMA OffersKept ==
  ASSUME IInv, NEW m, NEW n, NEW gone, NEW new \in SUBSET Offers,
         Rematched(m, n, gone, new), Sound(n), Becomes(n),
         m.taskFor = taskFor, \A o \in ToSet(m.pool) : Made(o), made' = made
  PROVE  OffersOnce'
<1>1. /\ IsInjective(pool') /\ IsInjective(accepting')
      /\ \A o \in ToSet(pool') : taskFor'[o] = None
      /\ \A o \in ToSet(accepting') : taskFor'[o] # None
  BY DEF Sound, Becomes
<1>2. \A o \in ToSet(pool') : Made(o)'
  BY DEF Rematched, Becomes, Made
<1>3. \A o \in Offers : taskFor'[o] # None => Made(o)'
  BY DEF Rematched, Becomes, Made, IInv, OffersOnce
<1> QED BY <1>1, <1>2, <1>3 DEF OffersOnce

LEMMA ServedKept ==
  ASSUME NEW n, AllServed(n), Becomes(n), deferred' = {}
  PROVE  Served'
<1>1. \A r \in ToSet(pending') : AcceptInProgress(n, r) \/ pool' = <<>>
  BY DEF AllServed, Becomes
<1>2. \A r : AcceptInProgress(n, r) <=> AcceptInProgress(Matching, r)'
  BY DEF AcceptInProgress, Matching, Becomes
<1> QED BY <1>1, <1>2 DEF Served

\* Tasks leave, and their requests are answered or cancelled.
LEMMA Untracking ==
  ASSUME IInv, NEW os, os \subseteq tasks, NEW a \in {"answered", "cancelled"},
         Untrack(os, a), ToSet(pending') = ToSet(pending), IsInjective(pending'),
         \A o \in tasks : taskFor'[o] = taskFor[o]
  PROVE  /\ RequestsKept'
         /\ request' \in [Requests -> {"new", "waiting", "running", "answered", "expired",
                                       "cancelled"}]
         /\ \A r \in Requests : request[r] \in Begun => request'[r] \in Begun
         /\ tasks' \subseteq tasks
<1>1. /\ tasks' = tasks \ os
      /\ request' = [r \in Requests |-> IF \E o \in os : taskFor[o] = r THEN a ELSE request[r]]
  BY DEF Untrack, Answer
<1>2. request' \in [Requests -> {"new", "waiting", "running", "answered", "expired", "cancelled"}]
  BY <1>1 DEF IInv, TypeOK
<1>3. \A r \in Requests : request[r] \in Begun => request'[r] \in Begun
  BY <1>1 DEF Begun
<1>4. \A o \in os : taskFor[o] \in Requests /\ request[taskFor[o]] = "running"
  BY TasksAreMatched DEF IInv, RequestsKept
<1>5. ToSet(pending') = {r \in Requests : request'[r] = "waiting"}
  <2>1. \A r \in Requests : request'[r] = "waiting" <=> request[r] = "waiting"
    BY <1>1, <1>4
  <2> QED BY <2>1 DEF IInv, RequestsKept
<1>6. \A o \in tasks' : taskFor'[o] # None /\ request'[taskFor'[o]] = "running"
  <2> SUFFICES ASSUME NEW o \in tasks, o \notin os
               PROVE  taskFor'[o] # None /\ request'[taskFor'[o]] = "running"
    BY <1>1
  <2>1. taskFor'[o] = taskFor[o] /\ taskFor[o] \in Requests /\ request[taskFor[o]] = "running"
    BY TasksAreMatched DEF IInv, RequestsKept
  <2>2. \A x \in os : taskFor[x] # taskFor[o]
    BY DEF IInv, RequestsKept
  <2> QED BY <1>1, <2>1, <2>2, Unmatched
<1>7. \A o, x \in tasks' : taskFor'[o] = taskFor'[x] => o = x
  BY <1>1 DEF IInv, RequestsKept
<1>8. \A r \in Requests : request'[r] = "running" => \E o \in tasks' : taskFor'[o] = r
  <2> SUFFICES ASSUME NEW r \in Requests, request'[r] = "running"
               PROVE  \E o \in tasks' : taskFor'[o] = r
    OBVIOUS
  <2>1. request[r] = "running" /\ \A o \in os : taskFor[o] # r
    BY <1>1
  <2>2. PICK o \in tasks : taskFor[o] = r
    BY <2>1 DEF IInv, RequestsKept
  <2> QED BY <1>1, <2>1, <2>2
<1> QED BY <1>1, <1>2, <1>3, <1>5, <1>6, <1>7, <1>8 DEF RequestsKept

LEMMA RequestsUntouched ==
  ASSUME IInv, request' = request, tasks' = tasks, ToSet(pending') = ToSet(pending),
         IsInjective(pending'), \A o \in tasks : taskFor'[o] = taskFor[o]
  PROVE  RequestsKept'
  BY DEF IInv, RequestsKept

-----------------------------------------------------------------------------
(* Connections.                                                            *)

\* The connections of the ids `is` leave, each with its tasks.
LEMMA RoutesCut ==
  ASSUME IInv, NEW is \in SUBSET Ids, NEW next, \A i \in is : current[i] # None,
         removals' = removals \cup {Removal(i, next) : i \in is},
         current' = [i \in Ids |-> IF i \in is THEN None ELSE current[i]],
         UNCHANGED <<ident, known, replaced, made>>, tasks' \subseteq tasks
  PROVE  RoutesAgree'
<1>1. \A i \in Ids : current'[i] # None => ident'[current'[i]] = i /\ known'[i] = current'[i]
  BY DEF IInv, RoutesAgree
<1>2. ASSUME NEW d \in removals', NEW o \in d.tasks
      PROVE  IdOf(o)' = d.id /\ Made(o)' /\ Owner(o) # current'[d.id]
  <2>1. CASE d \in removals
    <3>1. IdOf(o) = d.id /\ Made(o) /\ Owner(o) # current[d.id] /\ d.id \in Ids
          /\ o \in Offers
      BY <1>2, <2>1 DEF IInv, RoutesAgree, TypeOK, RemovalRecords
    <3>2. Owner(o) # None
      BY <3>1, OffersAre, Unmatched
    <3> QED BY <3>1, <3>2 DEF IdOf, Made
  <2>2. CASE \E i \in is : d = Removal(i, next)
    <3>1. PICK i \in is : d = Removal(i, next)
      BY <2>2
    <3>2. d.id = i /\ o \in tasks /\ IdOf(o) = i
      BY <1>2, <3>1 DEF Removal, TasksOf
    <3>3. Made(o) /\ Owner(o) # None
      BY <3>2, TasksAreMatched, OffersAre, Unmatched
    <3>4. current'[d.id] = None
      BY <3>2
    <3> QED BY <3>2, <3>3, <3>4 DEF IdOf, Made
  <2> QED BY <2>1, <2>2
<1>3. ASSUME NEW o \in tasks'
      PROVE  \/ current'[IdOf(o)'] = Owner(o) \/ Owner(o) \in replaced'
             \/ \E d \in removals' : o \in d.tasks
  <2>1. /\ o \in tasks /\ IdOf(o)' = IdOf(o)
        /\ \/ current[IdOf(o)] = Owner(o) \/ Owner(o) \in replaced
           \/ \E d \in removals : o \in d.tasks
    BY DEF IInv, RoutesAgree, IdOf
  <2>2. IdOf(o) \in Ids
    BY <2>1, TasksAreMatched, OffersAre DEF IInv, TypeOK, IdOf
  <2>3. CASE current[IdOf(o)] = Owner(o)
    <3>1. CASE IdOf(o) \in is
      <4>1. Removal(IdOf(o), next) \in removals' /\ o \in Removal(IdOf(o), next).tasks
        BY <2>1, <3>1 DEF Removal, TasksOf
      <4> QED BY <4>1
    <3>2. CASE IdOf(o) \notin is
      BY <2>1, <2>2, <2>3, <3>2
    <3> QED BY <3>1, <3>2
  <2>4. CASE Owner(o) \in replaced
    BY <2>4
  <2>5. CASE \E d \in removals : o \in d.tasks
    BY <2>5
  <2> QED BY <2>1, <2>3, <2>4, <2>5
<1> QED BY <1>1, <1>2, <1>3 DEF RoutesAgree

LEMMA RoutesUntouched ==
  ASSUME IInv, UNCHANGED <<ident, current, known, removals, replaced>>, tasks' \subseteq tasks,
         \A p \in Processes : made[p] <= made'[p], made' \in [Processes -> Nat]
  PROVE  RoutesAgree'
<1>1. \A o \in Offers : Made(o) => Made(o)'
  <2> SUFFICES ASSUME NEW o \in Offers, Made(o) PROVE Made(o)'
    OBVIOUS
  <2>1. Owner(o) \in Processes /\ o[2] \in Int
    BY OffersAre
  <2>2. made[Owner(o)] \in Int /\ made'[Owner(o)] \in Int
    BY <2>1 DEF IInv, TypeOK
  <2> QED BY <2>1, <2>2 DEF Made
<1>2. \A d \in removals : \A o \in d.tasks : o \in Offers
  BY DEF IInv, TypeOK, RemovalRecords
<1>3. \A o : IdOf(o)' = IdOf(o)
  BY DEF IdOf
<1>4. \A i \in Ids : current'[i] # None => ident'[current'[i]] = i /\ known'[i] = current'[i]
  BY DEF IInv, RoutesAgree
<1>5. \A d \in removals' : \A o \in d.tasks :
        IdOf(o)' = d.id /\ Made(o)' /\ Owner(o) # current'[d.id]
  BY <1>1, <1>2, <1>3 DEF IInv, RoutesAgree
<1>6. \A o \in tasks' :
        \/ current'[IdOf(o)'] = Owner(o) \/ Owner(o) \in replaced'
        \/ \E d \in removals' : o \in d.tasks
  BY <1>3 DEF IInv, RoutesAgree
<1> QED BY <1>4, <1>5, <1>6 DEF RoutesAgree

\* Connection p is registered, maybe in the place of another one.
LEMMA RoutesJoined ==
  ASSUME IInv, NEW p \in Processes, Newcomer(p),
         ident' = ident, made' = made,
         current' = [current EXCEPT ![ident[p]] = p],
         known' = [known EXCEPT ![ident[p]] = p],
         replaced' = replaced \cup ({current[ident[p]]} \ {None}),
         removals' \subseteq removals, tasks' \subseteq tasks,
         \A d \in removals \ removals' : d.tasks \cap tasks' = {}
  PROVE  RoutesAgree'
<1>1. made[p] = 0 /\ ident[p] \in Ids /\ p # None
  BY Unmatched DEF IInv, NewcomersAreFresh, TypeOK
<1>2. current \in [Ids -> Processes \cup {None}] /\ known \in [Ids -> Processes \cup {None}]
  BY DEF IInv, TypeOK
<1>3. \A i \in Ids : current'[i] # None => ident'[current'[i]] = i /\ known'[i] = current'[i]
  BY <1>1, <1>2 DEF IInv, RoutesAgree
<1>4. \A o \in Offers : Made(o) => Owner(o) # p
  BY <1>1, OffersAre DEF Made
<1>5. ASSUME NEW d \in removals', NEW o \in d.tasks
      PROVE  IdOf(o)' = d.id /\ Made(o)' /\ Owner(o) # current'[d.id]
  <2>1. IdOf(o) = d.id /\ Made(o) /\ Owner(o) # current[d.id] /\ d.id \in Ids /\ o \in Offers
    BY <1>5 DEF IInv, RoutesAgree, TypeOK, RemovalRecords
  <2>2. Owner(o) # p
    BY <1>4, <2>1
  <2>3. current'[d.id] = p \/ current'[d.id] = current[d.id]
    BY <1>2, <2>1
  <2> QED BY <2>1, <2>2, <2>3 DEF IdOf, Made
<1>6. ASSUME NEW o \in tasks'
      PROVE  \/ current'[IdOf(o)'] = Owner(o) \/ Owner(o) \in replaced'
             \/ \E d \in removals' : o \in d.tasks
  <2>1. /\ o \in tasks /\ IdOf(o)' = IdOf(o)
        /\ \/ current[IdOf(o)] = Owner(o) \/ Owner(o) \in replaced
           \/ \E d \in removals : o \in d.tasks
    BY DEF IInv, RoutesAgree, IdOf
  <2>2. IdOf(o) \in Ids /\ Owner(o) # None
    BY <2>1, TasksAreMatched, OffersAre, Unmatched DEF IInv, TypeOK, IdOf
  <2>3. CASE current[IdOf(o)] = Owner(o)
    <3>1. CASE IdOf(o) = ident[p]
      BY <2>2, <2>3, <3>1
    <3>2. CASE IdOf(o) # ident[p]
      BY <1>2, <2>1, <2>2, <2>3, <3>2
    <3> QED BY <3>1, <3>2
  <2>4. CASE Owner(o) \in replaced
    BY <2>4
  <2>5. CASE \E d \in removals : o \in d.tasks
    BY <2>5
  <2> QED BY <2>1, <2>3, <2>4, <2>5
<1> QED BY <1>3, <1>5, <1>6 DEF RoutesAgree

-----------------------------------------------------------------------------
(* Newcomers.                                                              *)

LEMMA NewcomersAre ==
  ASSUME IInv, NEW p \in Processes, Newcomer(p)
  PROVE  /\ made[p] = 0 /\ ~offering[p] /\ toRunner[p] = <<>>
         /\ \A i \in Ids : current[i] # p
         /\ toBroker[p] = <<>> \/ toBroker[p] = <<InfoFrame>>
         /\ \A o \in Offers : Owner(o) = p => ~Made(o) /\ taskFor[o] = None /\ work[o] = "none"
         /\ \A o \in Offers : Owner(o) = p => o \notin tasks \cup ToSet(accepting) \cup openOffers
<1>1. /\ made[p] = 0 /\ ~offering[p] /\ toRunner[p] = <<>>
      /\ \A i \in Ids : current[i] # p
      /\ toBroker[p] = <<>> \/ toBroker[p] = <<InfoFrame>>
  BY DEF IInv, NewcomersAreFresh
<1>2. \A o \in Offers : Owner(o) = p => ~Made(o)
  BY <1>1, OffersAre DEF Made
<1>3. \A o \in Offers : Owner(o) = p => taskFor[o] = None /\ work[o] = "none"
  BY <1>2 DEF IInv, OffersOnce, FramesMatched
<1>4. \A o \in Offers : Owner(o) = p => o \notin tasks \cup ToSet(accepting) \cup openOffers
  BY <1>2, TasksAreMatched DEF IInv, FramesMatched
<1> QED BY <1>1, <1>2, <1>3, <1>4

\* A channel that held nothing, or one info frame, holds no more after frames
\* are read or lost.
LEMMA ShortInbox ==
  ASSUME IInv, InboxShrinks, NEW p \in Processes
  PROVE  /\ toBroker[p] = <<>> => toBroker'[p] = <<>>
         /\ toBroker[p] = <<InfoFrame>> => toBroker'[p] = <<>> \/ toBroker'[p] = <<InfoFrame>>
<1> DEFINE s == toBroker'[p]
<1>1. s \in Seq(ToBroker) /\ toBroker[p] \in Seq(ToBroker) /\ ToSet(s) \subseteq ToSet(toBroker[p])
  BY ChannelTypes DEF IInv, InboxShrinks
<1>2. toBroker[p] = <<>> => s = <<>>
  BY <1>1, EmptyToSet, ToSetMembers
<1>3. ASSUME toBroker[p] = <<InfoFrame>>
      PROVE  s = <<>> \/ s = <<InfoFrame>>
  <2>1. ToSet(toBroker[p]) = {InfoFrame} /\ Once(toBroker[p], InfoFrame)
    BY <1>3 DEF ToSet, Once
  <2>2. Once(s, InfoFrame) /\ ToSet(s) \subseteq {InfoFrame}
    BY <1>1, <2>1 DEF InboxShrinks
  <2>3. Len(s) \in Nat /\ DOMAIN s = 1..Len(s) /\ \A k \in 1..Len(s) : s[k] \in ToSet(s)
    BY <1>1, ToSetMembers
  <2>4. \A k \in 1..Len(s) : s[k] = InfoFrame
    BY <2>2, <2>3
  <2>5. \A j, k \in 1..Len(s) : j = k
    BY <2>2, <2>3, <2>4 DEF Once
  <2> HIDE DEF s
  <2>6. Len(s) = 0 \/ Len(s) = 1
    <3>1. PICK l \in Nat : l = Len(s)
      BY <2>3
    <3>2. l > 1 => 1 \in 1..l /\ 2 \in 1..l
      BY <3>1
    <3> QED BY <2>5, <3>1, <3>2
  <2>7. Len(s) = 0 => s = <<>>
    BY <1>1
  <2>8. Len(s) = 1 => s = <<InfoFrame>>
    BY <1>1, <2>4 DEF s
  <2> QED BY <2>6, <2>7, <2>8
<1> QED BY <1>2, <1>3

LEMMA FreshKept ==
  ASSUME IInv, TypeOK', UNCHANGED <<ident, life, offering, made>>, InboxShrinks,
         \A d \in removals' \ removals : d.next = None,
         \A p \in Processes : Newcomer(p) /\ Newcomer(p)' =>
           toRunner'[p] = toRunner[p] /\ \A i \in Ids : current'[i] # p
  PROVE  NewcomersAreFresh'
<1>1. \A d \in removals : d.next # None => d.next \in Processes
  BY DEF IInv, TypeOK, RemovalRecords
<1>2. \A p \in Processes : Newcomer(p)' => Newcomer(p)
  BY Unmatched DEF InboxShrinks, Newcomer
<1>3. \A p \in Processes : Newcomer(p)' =>
        /\ made'[p] = 0 /\ ~offering'[p] /\ toRunner'[p] = <<>>
        /\ \A i \in Ids : current'[i] # p
  BY <1>2, NewcomersAre
<1>4. \A p \in Processes : Newcomer(p)' => toBroker'[p] = <<>> \/ toBroker'[p] = <<InfoFrame>>
  BY <1>2, NewcomersAre, ShortInbox
<1>5. \A p \in Processes : life'[p] = "unborn" => toBroker'[p] = <<>>
  BY ShortInbox DEF IInv, NewcomersAreFresh
<1>6. \A d \in removals' : d.next # None =>
        life'[d.next] # "unborn" /\ toBroker'[d.next] = <<>> /\ ident'[d.next] = d.id
  BY <1>1, ShortInbox DEF IInv, NewcomersAreFresh
<1>7. \A d, e \in removals' : d.next # None /\ d.next = e.next => d = e
  BY DEF IInv, NewcomersAreFresh
<1> QED BY <1>3, <1>4, <1>5, <1>6, <1>7 DEF NewcomersAreFresh

-----------------------------------------------------------------------------
(* What is sent and read in a turn.                                        *)

\* Messages go to registered connections.
ToCurrent(out) == \A p \in Processes : out[p] = <<>> \/ \E i \in Ids : current[i] = p

NoSettings(out) == \A p \in Processes : \A x \in ToSet(out[p]) : x.type # "settings"

LEMMA SentToId ==
  ASSUME IInv, NEW i \in Ids, NEW o \in Offers, NEW t \in TaskTypes
  PROVE  LET out == ToId(i, Msg(t, o))
         IN  /\ out \in [Processes -> Seq(ToRunner)] /\ ToCurrent(out)
             /\ \A p \in Processes : \A x \in ToSet(out[p]) :
                  x = Msg(t, o) /\ Delivers(i, p) /\ ident[p] = i
             /\ \A p \in Processes : Delivers(i, p) => out[p] = <<Msg(t, o)>>
             /\ \A p \in Processes : Delivers(i, p) => Msg(t, o) \in ToSet(out[p])
<1> DEFINE out == ToId(i, Msg(t, o))
<1>1. Msg(t, o) \in ToRunner
  BY OffersAre
<1>2. <<Msg(t, o)>> \in Seq(ToRunner) /\ <<>> \in Seq(ToRunner)
  BY <1>1
<1>3. ToSet(<<Msg(t, o)>>) = {Msg(t, o)} /\ ToSet(<<>>) = {}
  BY EmptyToSet DEF ToSet
<1>4. \A p \in Processes : out[p] = IF Delivers(i, p) THEN <<Msg(t, o)>> ELSE <<>>
  BY DEF ToId
<1>5. out \in [Processes -> Seq(ToRunner)]
  BY <1>2 DEF ToId
<1>6. \A p \in Processes : Delivers(i, p) => ident[p] = i
  BY Unmatched DEF Delivers, IInv, RoutesAgree
<1>7. ToCurrent(out)
  BY <1>4 DEF ToCurrent, Delivers
<1> HIDE DEF out
<1>8. \A p \in Processes : \A x \in ToSet(out[p]) :
        x = Msg(t, o) /\ Delivers(i, p) /\ ident[p] = i
  BY <1>3, <1>4, <1>6
<1>9. \A p \in Processes : Delivers(i, p) => Msg(t, o) \in ToSet(out[p])
  BY <1>3, <1>4
<1> QED BY <1>4, <1>5, <1>7, <1>8, <1>9 DEF out

\* One message about an offer that is matched.
LEMMA SendsToId ==
  ASSUME IInv, NEW o \in Offers, taskFor'[o] # None, NEW t \in TaskTypes \ {"accept"},
         Send(ToId(IdOf(o), Msg(t, o)))
  PROVE  Sends(ToId(IdOf(o), Msg(t, o)), {})
<1>1. PICK i \in Ids : i = IdOf(o)
  BY OffersAre DEF IdOf, IInv, TypeOK
<1> DEFINE out == ToId(i, Msg(t, o))
<1>0. t \in TaskTypes
  OBVIOUS
<1>2. /\ out \in [Processes -> Seq(ToRunner)]
      /\ \A p \in Processes : \A x \in ToSet(out[p]) :
           x = Msg(t, o) /\ Delivers(i, p) /\ ident[p] = i
  BY <1>0, SentToId
<1>3. out = ToId(IdOf(o), Msg(t, o))
  BY <1>1
<1> HIDE DEF out
<1>4. \A p \in Processes : \A x \in ToSet(out[p]) : x.type = t /\ x.task = o
  BY <1>2, OffersAre
<1>5. toRunner' = [p \in Processes |-> toRunner[p] \o out[p]]
  BY <1>3 DEF Send
<1> QED BY <1>1, <1>2, <1>3, <1>4, <1>5 DEF Sends, Fits, Send

LEMMA SendsNothing ==
  ASSUME TypeOK, toRunner' = toRunner
  PROVE  Sends(Nothing, {}) /\ ToCurrent(Nothing) /\ NoSettings(Nothing)
<1>1. \A p \in Processes : toRunner[p] \in Seq(ToRunner)
  BY ChannelTypes
<1>2. \A p \in Processes : toRunner[p] \o <<>> = toRunner[p]
  BY <1>1
<1>3. toRunner' = [p \in Processes |-> toRunner[p] \o Nothing[p]]
  BY <1>2 DEF Nothing, TypeOK
<1>4. \A p \in Processes : Nothing[p] = <<>> /\ ToSet(Nothing[p]) = {}
  BY EmptyToSet DEF Nothing
<1>5. Nothing \in [Processes -> Seq(ToRunner)]
  BY DEF Nothing
<1> QED BY <1>3, <1>4, <1>5 DEF Sends, Fits, Send, ToCurrent, NoSettings

LEMMA InboxRests ==
  ASSUME TypeOK, toBroker' = toBroker
  PROVE  InboxShrinks
  BY ChannelTypes DEF InboxShrinks

\* The frame m of connection p is read.
LEMMA InboxRead ==
  ASSUME IInv, NEW p \in Processes, toBroker[p] # <<>>, NEW m, m = Head(toBroker[p]),
         toBroker' = [toBroker EXCEPT ![p] = Tail(@)]
  PROVE  /\ InboxShrinks /\ toBroker' \in [Processes -> Seq(ToBroker)]
         /\ m \in ToSet(toBroker[p]) /\ m \in ToBroker
         /\ Once(toBroker[p], m) => m \notin ToSet(toBroker'[p])
         /\ toBroker[p] = <<m>> => toBroker'[p] = <<>>
<1>1. toBroker \in [Processes -> Seq(ToBroker)] /\ toBroker[p] \in Seq(ToBroker)
  BY DEF IInv, TypeOK
<1>2. /\ toBroker'[p] = Tail(toBroker[p]) /\ toBroker'[p] \in Seq(ToBroker)
      /\ m \in ToSet(toBroker[p]) /\ m \in ToBroker
      /\ ToSet(toBroker[p]) = ToSet(toBroker'[p]) \cup {m}
  BY <1>1, HeadAndTail
<1>3. \A q \in Processes : q # p => toBroker'[q] = toBroker[q]
  BY <1>1
<1>4. \A x : Once(toBroker[p], x) => Once(toBroker'[p], x)
  BY <1>1, <1>2, OnceInTail
<1>5. Once(toBroker[p], m) => m \notin ToSet(toBroker'[p])
  BY <1>1, <1>2, OnceInTail
<1>6. InboxShrinks
  <2> SUFFICES ASSUME NEW q \in Processes
               PROVE  /\ toBroker'[q] \in Seq(ToBroker)
                      /\ ToSet(toBroker'[q]) \subseteq ToSet(toBroker[q])
                      /\ \A x : Once(toBroker[q], x) => Once(toBroker'[q], x)
    BY DEF InboxShrinks
  <2>1. CASE q = p
    BY <1>2, <1>4, <2>1
  <2>2. CASE q # p
    BY <1>1, <1>3, <2>2
  <2> QED BY <2>1, <2>2
<1>7. toBroker' \in [Processes -> Seq(ToBroker)]
  BY <1>1, <1>2
<1>8. toBroker[p] = <<m>> => toBroker'[p] = <<>>
  BY <1>2
<1> QED BY <1>2, <1>5, <1>6, <1>7, <1>8

-----------------------------------------------------------------------------
(* What the parts of the invariant ask of a turn of the broker.            *)

LEMMA BrokerTurn ==
  ASSUME IInv, NEW out, NEW new, RunnersRest, Steady, InboxShrinks,
         Matches(new), Sends(out, new), SlotsSeenTo(out),
         TypeOK', OffersOnce', RequestsKept', Served', RoutesAgree', NewcomersAreFresh',
         SettingsOnce'
  PROVE  IInv'
  BY FramesKept, AcceptedOnceKept, SlotsKept DEF IInv

LEMMA NothingMatched ==
  ASSUME IInv, InboxShrinks, taskFor' = taskFor, ToSet(pool') \subseteq ToSet(pool)
  PROVE  Matches({})
<1>1. ASSUME NEW o \in ToSet(pool'), NEW p \in Processes
      PROVE  Msg("offer", o) \notin ToSet(toBroker'[p])
  BY OffersAre DEF IInv, FramesMatched, InboxShrinks
<1> QED BY <1>1 DEF Matches, IInv, TypeOK

\* The offers of the pool, when nothing is added to it.
LEMMA OffersUntouched ==
  ASSUME IInv, taskFor' = taskFor, made' = made,
         IsInjective(pool'), ToSet(pool') \subseteq ToSet(pool),
         IsInjective(accepting'), ToSet(accepting') \subseteq ToSet(accepting)
  PROVE  OffersOnce'
  BY DEF IInv, OffersOnce, Made

\* The matching is left alone.
LEMMA MatchingRests ==
  ASSUME IInv, UNCHANGED <<pool, pending, accepting, deferred, taskFor>>
  PROVE  /\ Served'
         /\ made' = made => OffersOnce'
         /\ InboxShrinks => Matches({})
         /\ pending' = pending /\ IsInjective(pending') /\ ToSet(pending') = ToSet(pending)
         /\ ToSet(accepting') = ToSet(accepting) /\ taskFor' = taskFor
<1>1. Served'
  BY DEF IInv, Served, AcceptInProgress, Matching
<1>2. IsInjective(pool) /\ IsInjective(accepting) /\ IsInjective(pending)
  BY DEF IInv, OffersOnce, RequestsKept
<1> QED BY <1>1, <1>2, OffersUntouched, NothingMatched

\* A turn in which m became n.
LEMMA RoundOfMatching ==
  ASSUME IInv, NEW m, NEW n, NEW gone, NEW new \in SUBSET Offers,
         Sound(m), Sound(n), Rematched(m, n, gone, new), Becomes(n), InboxShrinks,
         m.taskFor = taskFor, made' = made,
         \A o \in ToSet(m.pool) :
           Made(o) /\ \A p \in Processes : Msg("offer", o) \notin ToSet(toBroker'[p]),
         \A p \in Processes : \A x \in ToSet(m.out[p]) :
           /\ x.type \notin {"accept", "settings"}
           /\ x.type \in TaskTypes => taskFor[x.task] # None /\ IdOf(x.task) = ident[p],
         ToCurrent(m.out)
  PROVE  /\ Matches(new) /\ Fits(n.out, new) /\ ToCurrent(n.out) /\ NoSettings(n.out)
         /\ \A p \in Processes : ToSet(m.out[p]) \subseteq ToSet(n.out[p])
         /\ \A p \in Processes : \A o \in Offers :
              Msg("accept", o) \in ToSet(n.out[p]) => o \in ToSet(accepting')
         /\ OffersOnce'
         /\ pool' \in Seq(Offers) /\ pending' \in Seq(Requests) /\ accepting' \in Seq(Offers)
         /\ taskFor' \in [Offers -> Requests \cup {None}]
         /\ pending' = m.pending /\ IsInjective(pending')
         /\ ToSet(accepting') = (ToSet(m.accepting) \ gone) \cup new
         /\ \A o \in tasks : taskFor'[o] = taskFor[o]
<1>1. /\ new \subseteq ToSet(m.pool) /\ ToSet(n.pool) \subseteq ToSet(m.pool)
      /\ n.pending = m.pending /\ ToSet(n.accepting) = (ToSet(m.accepting) \ gone) \cup new
      /\ \A o \in new : n.taskFor[o] \in Requests
      /\ \A o \in Offers \ new : n.taskFor[o] = taskFor[o]
      /\ TellsOnly(m.out, n.out, new)
  BY DEF Rematched
<1>2. /\ pool' = n.pool /\ pending' = n.pending /\ accepting' = n.accepting
      /\ taskFor' = n.taskFor
  BY DEF Becomes
<1>3. /\ pool' \in Seq(Offers) /\ pending' \in Seq(Requests) /\ accepting' \in Seq(Offers)
      /\ taskFor' \in [Offers -> Requests \cup {None}]
      /\ IsInjective(pending') /\ n.out \in [Processes -> Seq(ToRunner)]
  BY <1>2 DEF Sound, MatchingRecords
<1>4. m.out \in [Processes -> Seq(ToRunner)] /\ \A o \in ToSet(m.pool) : taskFor[o] = None
  BY DEF Sound, MatchingRecords
<1>5. OffersOnce'
  BY OffersKept
<1>6. Matches(new)
  BY <1>1, <1>2, <1>3, <1>4 DEF Matches
<1>7. \A o \in Offers : taskFor[o] # None => taskFor'[o] = taskFor[o]
  BY <1>1, <1>2, <1>4
<1>8. \A o \in tasks : taskFor'[o] = taskFor[o]
  BY <1>7, TasksAreMatched, Unmatched
<1>9. PICK more \in [Processes -> Seq(ToRunner)] :
        \A p \in Processes :
          /\ n.out[p] = m.out[p] \o more[p]
          /\ \A x \in ToSet(more[p]) :
               /\ Once(more[p], x)
               /\ \E o \in new : x = Msg("accept", o) /\ Delivers(IdOf(o), p)
  BY <1>1 DEF TellsOnly
<1>10. \A o \in new : IdOf(o) \in Ids
  BY OffersAre DEF IdOf, IInv, TypeOK
<1>11. \A i \in Ids, p \in Processes : Delivers(i, p) => current[i] = p /\ ident[p] = i
  BY Unmatched DEF Delivers, IInv, RoutesAgree
<1>12. ASSUME NEW p \in Processes
       PROVE  /\ m.out[p] \in Seq(ToRunner) /\ more[p] \in Seq(ToRunner)
              /\ ToSet(n.out[p]) = ToSet(m.out[p]) \cup ToSet(more[p])
  <2>1. m.out[p] \in Seq(ToRunner) /\ more[p] \in Seq(ToRunner)
    BY <1>4, <1>9
  <2>2. n.out[p] = m.out[p] \o more[p]
    BY <1>9
  <2> QED BY <2>1, <2>2, Concatenated
<1>13. ASSUME NEW p \in Processes, NEW x \in ToSet(more[p])
       PROVE  /\ x.type = "accept" /\ x.task \in new /\ taskFor'[x.task] # None
              /\ IdOf(x.task) = ident[p] /\ Once(n.out[p], x) /\ \E i \in Ids : current[i] = p
              /\ x = Msg("accept", x.task)
  <2>1. PICK o \in new : x = Msg("accept", o) /\ Delivers(IdOf(o), p)
    BY <1>9
  <2>2. x.type = "accept" /\ x.task = o
    BY <2>1, OffersAre
  <2>3. taskFor'[o] # None
    BY <1>1, <1>2, Unmatched
  <2>4. current[IdOf(o)] = p /\ ident[p] = IdOf(o) /\ IdOf(o) \in Ids
    BY <1>10, <1>11, <2>1
  <2>5. x \notin ToSet(m.out[p])
    BY <2>2
  <2>6. n.out[p] = m.out[p] \o more[p] /\ Once(more[p], x)
    BY <1>9
  <2>7. Once(n.out[p], x)
    BY <1>12, <2>5, <2>6, OnceInBoth
  <2> QED BY <2>1, <2>2, <2>3, <2>4, <2>7
<1>14. Fits(n.out, new)
  <2>1. ASSUME NEW p \in Processes, NEW x \in ToSet(m.out[p])
        PROVE  x.type \in TaskTypes => taskFor'[x.task] # None /\ IdOf(x.task) = ident[p]
    <3>1. x \in ToRunner
      BY <1>12, ToSetMembers
    <3> QED BY <1>7, <3>1, MessagesAre
  <2> QED BY <1>3, <1>12, <1>13, <2>1 DEF Fits
<1>15. NoSettings(n.out)
  BY <1>12, <1>13 DEF NoSettings
<1>16. ToCurrent(n.out)
  <2> SUFFICES ASSUME NEW p \in Processes, \A i \in Ids : current[i] # p
               PROVE  n.out[p] = <<>>
    BY DEF ToCurrent
  <2>1. m.out[p] = <<>> /\ ToSet(more[p]) = {}
    BY <1>13 DEF ToCurrent
  <2>2. more[p] = <<>>
    BY <1>12, <2>1, ToSetMembers
  <2>3. n.out[p] = m.out[p] \o more[p]
    BY <1>9
  <2> QED BY <2>1, <2>2, <2>3
<1>17. \A p \in Processes : \A o \in Offers :
         Msg("accept", o) \in ToSet(n.out[p]) => o \in ToSet(accepting')
  BY <1>1, <1>2, <1>12, <1>13, OffersAre
<1> QED
  BY <1>1, <1>2, <1>3, <1>5, <1>6, <1>8, <1>12, <1>14, <1>15, <1>16, <1>17

-----------------------------------------------------------------------------
(* Turns that leave the connections alone, and turns that change them.     *)

LEMMA FreshTurn ==
  ASSUME IInv, TypeOK', UNCHANGED <<ident, life, offering, made>>, InboxShrinks,
         \A d \in removals' \ removals : d.next = None,
         \A i \in Ids, p \in Processes : current'[i] = p => current[i] = p,
         NEW out, NEW new, Sends(out, new), ToCurrent(out)
  PROVE  NewcomersAreFresh'
<1>1. ASSUME NEW p \in Processes, Newcomer(p)
      PROVE  toRunner'[p] = toRunner[p] /\ \A i \in Ids : current'[i] # p
  <2>1. toRunner[p] = <<>> /\ \A i \in Ids : current[i] # p
    BY <1>1, NewcomersAre
  <2>2. out[p] = <<>>
    BY <2>1 DEF ToCurrent
  <2>3. toRunner'[p] = toRunner[p] \o out[p]
    BY Sent DEF IInv
  <2> QED BY <2>1, <2>2, <2>3
<1> QED BY <1>1, FreshKept

LEMMA RoutesRest ==
  ASSUME IInv, TypeOK', UNCHANGED routeVars, UNCHANGED <<life, offering, made>>, InboxShrinks,
         NEW out, NEW new, Sends(out, new), ToCurrent(out),
         killed \subseteq killed', closing' = "no" => closing = "no"
  PROVE  /\ Steady /\ NewcomersAreFresh'
         /\ tasks' \subseteq tasks => RoutesAgree'
<1>1. /\ ident' = ident /\ socket' = socket /\ current' = current /\ known' = known
      /\ removals' = removals /\ replaced' = replaced
  BY DEF routeVars
<1>2. Steady
  BY <1>1 DEF Steady
<1>3. NewcomersAreFresh'
  BY <1>1, FreshTurn
<1>4. ASSUME tasks' \subseteq tasks PROVE RoutesAgree'
  <2>1. made \in [Processes -> 0..MaxOffers] /\ MaxOffers \in Nat
    BY SlotsArePositive DEF IInv, TypeOK
  <2>2. made' \in [Processes -> Nat] /\ \A p \in Processes : made[p] <= made'[p]
    BY <2>1
  <2> QED BY <1>1, <1>4, <2>2, RoutesUntouched
<1> QED BY <1>2, <1>3, <1>4

\* The connections of `is` leave.
LEMMA Disconnecting ==
  ASSUME IInv, NEW is \in SUBSET Ids, \A i \in is : current[i] # None,
         NEW next \in Processes \cup {None},
         removals' = removals \cup {Removal(i, next) : i \in is},
         current' = [i \in Ids |-> IF i \in is THEN None ELSE current[i]]
  PROVE  /\ removals' \subseteq RemovalRecords
         /\ \A d \in removals' \ removals : d.next = next
         /\ current' \in [Ids -> Processes \cup {None}]
         /\ \A i \in Ids, p \in Processes : current'[i] = p => current[i] = p /\ i \notin is
<1>1. \A i \in is : Removal(i, next) \in RemovalRecords
  BY DEF Removal, RemovalRecords, TasksOf, IInv, TypeOK
<1>2. removals' \subseteq RemovalRecords
  BY <1>1 DEF IInv, TypeOK
<1>3. \A d \in removals' \ removals : d.next = next
  BY DEF Removal
<1>4. current' \in [Ids -> Processes \cup {None}]
  BY DEF IInv, TypeOK
<1>5. \A i \in Ids, p \in Processes : current'[i] = p => current[i] = p /\ i \notin is
  BY Unmatched
<1> QED BY <1>2, <1>3, <1>4, <1>5

LEMMA Closing ==
  ASSUME TypeOK, NEW is, NEW next, Disconnect(is, next)
  PROVE  /\ removals' = removals \cup {Removal(i, next) : i \in is}
         /\ current' = [i \in Ids |-> IF i \in is THEN None ELSE current[i]]
         /\ socket' \in [Processes -> {"none", "open", "closing", "closed"}]
         /\ \A p \in Processes : socket'[p] = "open" => socket[p] = "open"
  BY DEF Disconnect, TypeOK

\* A removal is over.
LEMMA RoutesReleased ==
  ASSUME IInv, NEW d \in removals, removals' = removals \ {d},
         UNCHANGED <<ident, current, replaced, made>>,
         \/ known' = known
         \/ current[d.id] = None /\ known' = [known EXCEPT ![d.id] = None],
         tasks' \subseteq tasks, d.tasks \cap tasks' = {}
  PROVE  RoutesAgree'
<1>1. known \in [Ids -> Processes \cup {None}]
  BY DEF IInv, TypeOK
<1>2. \A i \in Ids : current'[i] # None => ident'[current'[i]] = i /\ known'[i] = current'[i]
  BY <1>1 DEF IInv, RoutesAgree
<1>3. \A e \in removals' : \A o \in e.tasks :
        IdOf(o)' = e.id /\ Made(o)' /\ Owner(o) # current'[e.id]
  BY DEF IInv, RoutesAgree, IdOf, Made
<1>4. ASSUME NEW o \in tasks'
      PROVE  \/ current'[IdOf(o)'] = Owner(o) \/ Owner(o) \in replaced'
             \/ \E e \in removals' : o \in e.tasks
  <2>1. /\ o \in tasks /\ IdOf(o)' = IdOf(o) /\ o \notin d.tasks
        /\ \/ current[IdOf(o)] = Owner(o) \/ Owner(o) \in replaced
           \/ \E e \in removals : o \in e.tasks
    BY DEF IInv, RoutesAgree, IdOf
  <2> QED BY <2>1
<1> QED BY <1>2, <1>3, <1>4 DEF RoutesAgree

\* Connection p is registered, with the messages `out` before its own.
LEMMA Joining ==
  ASSUME IInv, NEW p \in Processes, NEW out, NEW new, Fits(out, new), Join(p, out)
  PROVE  /\ current' \in [Ids -> Processes \cup {None}]
         /\ known' \in [Ids -> Processes \cup {None}] /\ replaced' \subseteq Processes
         /\ \A i \in Ids, q \in Processes : current'[i] = q => current[i] = q \/ q = p
         /\ \E more : /\ Sends(more, new)
                      /\ \A q \in Processes : q # p => more[q] = out[q]
                      /\ \A q \in Processes : ToSet(out[q]) \subseteq ToSet(more[q])
                      /\ NoSettings(out) => NoSettings(more)
                      /\ \A q \in Processes : \A x \in ToSet(more[q]) :
                           x.type \in TaskTypes => x \in ToSet(out[q])
<1>1. /\ ident[p] \in Ids /\ current \in [Ids -> Processes \cup {None}]
      /\ known \in [Ids -> Processes \cup {None}] /\ replaced \subseteq Processes
  BY DEF IInv, TypeOK
<1>2. /\ current' = [current EXCEPT ![ident[p]] = p]
      /\ known' = [known EXCEPT ![ident[p]] = p]
      /\ replaced' = replaced \cup ({current[ident[p]]} \ {None})
  BY DEF Join
<1>3. /\ current' \in [Ids -> Processes \cup {None}]
      /\ known' \in [Ids -> Processes \cup {None}] /\ replaced' \subseteq Processes
      /\ \A i \in Ids, q \in Processes : current'[i] = q => current[i] = q \/ q = p
  BY <1>1, <1>2
<1> DEFINE word == [type |-> "registered"]
           reg == IF socket[p] = "open" /\ life[p] = "up" THEN <<word>> ELSE <<>>
           more == [out EXCEPT ![p] = @ \o reg]
<1>4. Send(more)
  BY DEF Join
<1>5. word \in ToRunner /\ word.type = "registered"
  BY DEF ToRunner
<1>6. reg \in Seq(ToRunner) /\ ToSet(reg) \subseteq {word}
  BY <1>5, EmptyToSet DEF ToSet
<1> HIDE DEF word, reg
<1>7. /\ out \in [Processes -> Seq(ToRunner)]
      /\ \A q \in Processes : \A x \in ToSet(out[q]) :
           /\ x.type \in TaskTypes => taskFor'[x.task] # None /\ IdOf(x.task) = ident[q]
           /\ x.type = "accept" => x.task \in new /\ Once(out[q], x)
  BY DEF Fits
<1>8. /\ more[p] = out[p] \o reg /\ \A q \in Processes : q # p => more[q] = out[q]
      /\ DOMAIN more = Processes
      /\ more = [q \in Processes |-> more[q]]
  BY <1>7
<1>9. out[p] \in Seq(ToRunner)
  BY <1>7
<1>10. more[p] \in Seq(ToRunner) /\ ToSet(more[p]) = ToSet(out[p]) \cup ToSet(reg)
  BY <1>6, <1>8, <1>9, Concatenated
<1>11. \A x : x.type = "accept" /\ Once(out[p], x) => Once(more[p], x)
  <2> SUFFICES ASSUME NEW x, x.type = "accept", Once(out[p], x) PROVE Once(more[p], x)
    OBVIOUS
  <2>1. x \notin ToSet(reg)
    BY <1>5, <1>6
  <2> QED BY <1>6, <1>8, <1>9, <2>1, OnceInBoth
<1> HIDE DEF more
<1>12. more \in [Processes -> Seq(ToRunner)]
  <2>1. \A q \in Processes : more[q] \in Seq(ToRunner)
    BY <1>7, <1>8, <1>10
  <2> QED BY <1>8, <2>1
<1>13. ASSUME NEW q \in Processes, NEW x \in ToSet(more[q])
       PROVE  x \in ToSet(out[q]) \/ (q = p /\ x = word)
  BY <1>6, <1>8, <1>10
<1>14. \A q \in Processes : ToSet(out[q]) \subseteq ToSet(more[q])
  BY <1>8, <1>10
<1>15. Fits(more, new)
  <2>1. ASSUME NEW q \in Processes, NEW x \in ToSet(more[q])
        PROVE  /\ x.type \in TaskTypes => taskFor'[x.task] # None /\ IdOf(x.task) = ident[q]
               /\ x.type = "accept" => x.task \in new /\ Once(more[q], x)
    <3>1. CASE x \in ToSet(out[q])
      <4>1. x.type = "accept" => Once(more[q], x)
        BY <1>7, <1>8, <1>11, <3>1
      <4> QED BY <1>7, <3>1, <4>1
    <3>2. CASE q = p /\ x = word
      BY <1>5, <3>2 DEF TaskTypes
    <3> QED BY <1>13, <3>1, <3>2
  <2> QED BY <1>12, <2>1 DEF Fits
<1>16. NoSettings(out) => NoSettings(more)
  BY <1>5, <1>13 DEF NoSettings
<1>17. \A q \in Processes : \A x \in ToSet(more[q]) : x.type \in TaskTypes => x \in ToSet(out[q])
  BY <1>5, <1>13 DEF TaskTypes
<1>18. Sends(more, new)
  BY <1>4, <1>15 DEF Sends, more, reg, word
<1>19. \E x : /\ Sends(x, new)
              /\ \A q \in Processes : q # p => x[q] = out[q]
              /\ \A q \in Processes : ToSet(out[q]) \subseteq ToSet(x[q])
              /\ NoSettings(out) => NoSettings(x)
              /\ \A q \in Processes : \A y \in ToSet(x[q]) :
                   y.type \in TaskTypes => y \in ToSet(out[q])
  BY <1>8, <1>14, <1>16, <1>17, <1>18
<1> QED BY <1>3, <1>19

\* Who is registered is a newcomer no more.
LEMMA FreshJoined ==
  ASSUME IInv, TypeOK', UNCHANGED <<ident, life, offering, made>>, InboxShrinks,
         NEW p \in Processes, Newcomer(p), ~Newcomer(p)', removals' \subseteq removals,
         \A i \in Ids, q \in Processes : current'[i] = q => current[i] = q \/ q = p,
         NEW more, NEW new, Sends(more, new), NEW out, ToCurrent(out),
         \A q \in Processes : q # p => more[q] = out[q]
  PROVE  NewcomersAreFresh'
<1>1. ASSUME NEW q \in Processes, Newcomer(q), q # p
      PROVE  toRunner'[q] = toRunner[q] /\ \A i \in Ids : current'[i] # q
  <2>1. toRunner[q] = <<>> /\ \A i \in Ids : current[i] # q
    BY <1>1, NewcomersAre
  <2>2. more[q] = <<>>
    BY <1>1, <2>1 DEF ToCurrent
  <2>3. toRunner'[q] = toRunner[q] \o more[q]
    BY Sent DEF IInv
  <2> QED BY <1>1, <2>1, <2>2, <2>3
<1>2. \A d \in removals' \ removals : d.next = None
  OBVIOUS
<1> QED BY <1>1, <1>2, FreshKept

-----------------------------------------------------------------------------
(* The requester's turns, and the timers of requests and tasks.            *)

LEMMA RequestTaskKeeps ==
  ASSUME IInv, NEW r \in Requests, RequestTask(r)
  PROVE  IInv'
<1>1. /\ request[r] = "new" /\ UNCHANGED routeVars
      /\ UNCHANGED <<life, offering, draining, openOffers, made, work, toBroker, ran,
                     missed, tasks, closing, killed, faults>>
  BY DEF RequestTask, processVars
<1>2. /\ request \in [Requests -> {"new", "waiting", "running", "answered", "expired",
                                   "cancelled"}]
      /\ pending \in Seq(Requests) /\ IsInjective(pending)
      /\ ToSet(pending) = {q \in Requests : request[q] = "waiting"}
  BY DEF IInv, TypeOK, RequestsKept
<1>3. InboxShrinks /\ RunnersRest
  BY <1>1, InboxRests DEF IInv, RunnersRest, routeVars
<1>4. CASE closing = "no" /\ request' = [request EXCEPT ![r] = "waiting"]
           /\ Settled([Matching EXCEPT !.pending = Append(@, r)])
  <2> DEFINE m == [Matching EXCEPT !.pending = Append(@, r)]
             n == Settle(m)
  <2>1. /\ m.pool = pool /\ m.pending = Append(pending, r) /\ m.accepting = accepting
        /\ m.taskFor = taskFor /\ m.out = Nothing
        /\ m = [pool |-> m.pool, pending |-> m.pending, accepting |-> m.accepting,
                taskFor |-> m.taskFor, out |-> m.out]
    BY DEF Matching
  <2>2. /\ Append(pending, r) \in Seq(Requests) /\ IsInjective(Append(pending, r))
        /\ ToSet(Append(pending, r)) = ToSet(pending) \cup {r}
    BY <1>1, <1>2, JoinedAtEnd
  <2>3. Become(n) /\ deferred' = {}
    BY <1>4 DEF Settled
  <2> HIDE DEF m
  <2>4. Sound(m)
    <3>1. /\ pool \in Seq(Offers) /\ accepting \in Seq(Offers)
          /\ taskFor \in [Offers -> Requests \cup {None}]
          /\ Nothing \in [Processes -> Seq(ToRunner)]
          /\ IsInjective(pool) /\ IsInjective(accepting)
          /\ \A o \in ToSet(pool) : taskFor[o] = None
          /\ \A o \in ToSet(accepting) : taskFor[o] # None
      BY DEF IInv, TypeOK, OffersOnce, Nothing
    <3>2. m \in MatchingRecords
      BY <2>1, <2>2, <3>1 DEF MatchingRecords
    <3> QED BY <2>1, <2>2, <3>1, <3>2 DEF Sound
  <2>5. Sound(n) /\ AllServed(n)
    BY <2>4, Settling
  <2>6. PICK new \in SUBSET Offers : Rematched(m, n, {}, new)
    BY <2>4, Settling
  <2> HIDE DEF n
  <2>7. Becomes(n) /\ Send(n.out)
    BY <2>3 DEF Become, Becomes
  <2>8. Nothing \in [Processes -> Seq(ToRunner)] /\ \A p \in Processes : Nothing[p] = <<>>
    BY DEF Nothing
  <2>9. \A o \in ToSet(m.pool) :
          Made(o) /\ \A p \in Processes : Msg("offer", o) \notin ToSet(toBroker'[p])
    BY <1>1, <2>1, OffersAre DEF IInv, OffersOnce, FramesMatched
  <2>10. /\ \A p \in Processes : \A x \in ToSet(m.out[p]) :
              /\ x.type \notin {"accept", "settings"}
              /\ x.type \in TaskTypes => taskFor[x.task] # None /\ IdOf(x.task) = ident[p]
         /\ ToCurrent(m.out)
    BY <2>1, <2>8, EmptyToSet DEF ToCurrent
  <2>11. /\ Matches(new) /\ Fits(n.out, new) /\ ToCurrent(n.out) /\ NoSettings(n.out)
         /\ \A p \in Processes : \A o \in Offers :
              Msg("accept", o) \in ToSet(n.out[p]) => o \in ToSet(accepting')
         /\ OffersOnce'
         /\ pool' \in Seq(Offers) /\ pending' \in Seq(Requests) /\ accepting' \in Seq(Offers)
         /\ taskFor' \in [Offers -> Requests \cup {None}]
         /\ pending' = Append(pending, r) /\ IsInjective(pending')
         /\ ToSet(accepting') = (ToSet(accepting) \ {}) \cup new
         /\ \A o \in tasks : taskFor'[o] = taskFor[o]
    BY <1>1, <1>3, <2>1, <2>4, <2>5, <2>6, <2>7, <2>9, <2>10, RoundOfMatching
  <2>12. Sends(n.out, new) /\ toRunner' \in [Processes -> Seq(ToRunner)]
    BY <2>7, <2>11, Sent DEF Sends, IInv
  <2>13. request' \in [Requests -> {"new", "waiting", "running", "answered", "expired",
                                    "cancelled"}]
    BY <1>2, <1>4
  <2>14. TypeOK'
    BY <1>1, <2>3, <2>11, <2>12, <2>13 DEF IInv, TypeOK, routeVars
  <2>15. RequestsKept'
    <3>1. ToSet(pending') = {q \in Requests : request'[q] = "waiting"}
      BY <1>2, <1>4, <2>2, <2>11
    <3>2. \A q \in Requests : request'[q] = "running" <=> request[q] = "running"
      BY <1>1, <1>2, <1>4
    <3>3. \A o \in tasks : taskFor[o] \in Requests
      BY TasksAreMatched
    <3>4. /\ \A o \in tasks : taskFor[o] # None /\ request[taskFor[o]] = "running"
          /\ \A o, x \in tasks : taskFor[o] = taskFor[x] => o = x
          /\ \A q \in Requests : request[q] = "running" => \E o \in tasks : taskFor[o] = q
      BY DEF IInv, RequestsKept
    <3>5. \A o \in tasks : taskFor'[o] # None /\ request'[taskFor'[o]] = "running"
      BY <2>11, <3>2, <3>3, <3>4
    <3>6. \A o, x \in tasks' : taskFor'[o] = taskFor'[x] => o = x
      BY <1>1, <2>11, <3>4
    <3>7. \A q \in Requests : request'[q] = "running" => \E o \in tasks' : taskFor'[o] = q
      BY <1>1, <2>11, <3>2, <3>4
    <3> QED BY <1>1, <2>11, <3>1, <3>5, <3>6, <3>7 DEF RequestsKept
  <2>16. Served'
    BY <2>3, <2>5, <2>7, ServedKept
  <2>17. Steady /\ NewcomersAreFresh' /\ RoutesAgree'
    BY <1>1, <1>3, <2>11, <2>12, <2>14, RoutesRest
  <2>18. SettingsOnce'
    <3>1. \A q \in Requests : request[q] \in Begun => request'[q] \in Begun
      BY <1>1, <1>2, <1>4 DEF Begun
    <3> QED BY <1>1, <1>3, <2>11, <2>12, <3>1, SettingsKept DEF NoSettings
  <2>19. SlotsSeenTo(n.out)
    BY <1>1, <2>11, OffersAre DEF SlotsSeenTo
  <2> QED
    BY <1>3, <2>11, <2>12, <2>14, <2>15, <2>16, <2>17, <2>18, <2>19, BrokerTurn
<1>5. CASE request' = [request EXCEPT ![r] = "expired"] /\ UNCHANGED <<matchVars, toRunner>>
  <2>1. /\ UNCHANGED <<pool, pending, accepting, deferred, taskFor>> /\ toRunner' = toRunner
    BY <1>5 DEF matchVars
  <2>2. /\ Served' /\ OffersOnce' /\ Matches({}) /\ pending' = pending /\ IsInjective(pending')
        /\ ToSet(accepting') = ToSet(accepting) /\ taskFor' = taskFor
    BY <1>1, <1>3, <2>1, MatchingRests
  <2>3. Sends(Nothing, {}) /\ ToCurrent(Nothing) /\ NoSettings(Nothing)
    BY <2>1, SendsNothing DEF IInv
  <2>4. TypeOK'
    BY <1>1, <1>2, <1>5, <2>1 DEF IInv, TypeOK, routeVars
  <2>5. Steady /\ NewcomersAreFresh' /\ RoutesAgree'
    BY <1>1, <1>3, <2>3, <2>4, RoutesRest
  <2>6. \A q \in Requests : request'[q] \in {"waiting"} \cup Begun
                              <=> request[q] \in {"waiting"} \cup Begun
    BY <1>1, <1>2, <1>5 DEF Begun
  <2>7. \A q \in Requests : q # r => request'[q] = request[q]
    BY <1>2, <1>5
  <2>8. RequestsKept'
    <3>1. \A q \in Requests : /\ request'[q] = "waiting" <=> request[q] = "waiting"
                              /\ request'[q] = "running" <=> request[q] = "running"
      BY <1>1, <1>2, <1>5
    <3>2. \A o \in tasks : taskFor[o] \in Requests
      BY TasksAreMatched
    <3> QED BY <1>1, <2>1, <3>1, <3>2 DEF IInv, RequestsKept
  <2>9. SettingsOnce'
    <3>1. \A q \in Requests : request[q] \in Begun => request'[q] \in Begun
      BY <1>1, <2>7 DEF Begun
    <3> QED BY <1>1, <1>3, <2>2, <2>3, <3>1, SettingsKept DEF NoSettings
  <2>10. SlotsSeenTo(Nothing)
    BY <1>1, <2>2, EmptyToSet, OffersAre DEF SlotsSeenTo, Nothing
  <2> QED BY <1>3, <2>2, <2>3, <2>4, <2>5, <2>8, <2>9, <2>10, BrokerTurn
<1> QED BY <1>4, <1>5 DEF RequestTask

\* Tasks `os` leave in a turn that tells the runner or has no runner to tell.
LEMMA UntrackKeeps ==
  ASSUME IInv, NEW os, os \subseteq tasks, NEW a \in {"answered", "cancelled"}, Untrack(os, a),
         NEW out, Sends(out, {}), ToCurrent(out), NoSettings(out),
         toBroker' \in [Processes -> Seq(ToBroker)], InboxShrinks,
         UNCHANGED <<routeVars, matchVars>>,
         UNCHANGED <<life, offering, draining, openOffers, made, work, ran, closing, faults>>,
         missed' \in [Ids -> 0..(AcceptTimeoutLimit - 1)],
         killed \subseteq killed', killed' \subseteq Processes,
         \A o \in os : Attended(Owner(o)) /\ Attended(Owner(o))'
                         /\ work[o] \in {"waiting", "running"}
                       => Msg("cancel", o) \in ToSet(out[Owner(o)])
  PROVE  IInv'
<1>1. /\ UNCHANGED <<pool, pending, accepting, deferred, taskFor>>
      /\ RunnersRest /\ tasks' = tasks \ os
  BY DEF matchVars, RunnersRest, routeVars, Untrack
<1>2. /\ Served' /\ OffersOnce' /\ Matches({}) /\ IsInjective(pending')
      /\ ToSet(pending') = ToSet(pending) /\ ToSet(accepting') = ToSet(accepting)
      /\ taskFor' = taskFor
  BY <1>1, MatchingRests
<1>3. /\ RequestsKept'
      /\ request' \in [Requests -> {"new", "waiting", "running", "answered", "expired",
                                    "cancelled"}]
      /\ \A r \in Requests : request[r] \in Begun => request'[r] \in Begun
      /\ tasks' \subseteq tasks
  BY <1>2, Untracking
<1>4. toRunner' \in [Processes -> Seq(ToRunner)]
  BY Sent DEF IInv
<1>5. TypeOK'
  BY <1>1, <1>3, <1>4 DEF IInv, TypeOK, routeVars
<1>6. Steady /\ NewcomersAreFresh' /\ RoutesAgree'
  BY <1>3, <1>5, RoutesRest
<1>7. SettingsOnce'
  BY <1>2, <1>3, SettingsKept DEF NoSettings
<1>8. SlotsSeenTo(out)
  <2>1. \A o \in Offers : Msg("accept", o) \notin ToSet(out[Owner(o)])
    BY OffersAre DEF Sends, Fits
  <2> QED BY <1>1, <1>2, <2>1 DEF SlotsSeenTo
<1> QED BY <1>1, <1>2, <1>3, <1>5, <1>6, <1>7, <1>8, BrokerTurn

\* The message that gives a task up reaches an attended runner.
LEMMA CancelSent ==
  ASSUME IInv, NEW o \in Offers, taskFor'[o] # None, Send(ToId(IdOf(o), Msg("cancel", o)))
  PROVE  LET out == ToId(IdOf(o), Msg("cancel", o))
         IN  /\ Sends(out, {}) /\ ToCurrent(out) /\ NoSettings(out)
             /\ Attended(Owner(o)) => Msg("cancel", o) \in ToSet(out[Owner(o)])
<1>1. PICK i \in Ids : i = IdOf(o)
  BY OffersAre DEF IdOf, IInv, TypeOK
<1>2. "cancel" \in TaskTypes /\ "cancel" \in TaskTypes \ {"accept"}
  BY DEF TaskTypes
<1>3. Sends(ToId(i, Msg("cancel", o)), {})
  BY <1>1, <1>2, SendsToId
<1>4. /\ ToCurrent(ToId(i, Msg("cancel", o)))
      /\ \A p \in Processes : \A x \in ToSet(ToId(i, Msg("cancel", o))[p]) :
           x = Msg("cancel", o) /\ Delivers(i, p) /\ ident[p] = i
      /\ \A p \in Processes : Delivers(i, p) =>
           Msg("cancel", o) \in ToSet(ToId(i, Msg("cancel", o))[p])
  BY <1>2, SentToId
<1>5. NoSettings(ToId(i, Msg("cancel", o)))
  BY <1>4, OffersAre DEF NoSettings
<1>6. Attended(Owner(o)) => Delivers(i, Owner(o))
  BY <1>1 DEF Attended, IdOf
<1> QED BY <1>1, <1>3, <1>4, <1>5, <1>6, OffersAre

LEMMA CancelExecutionKeeps ==
  ASSUME IInv, NEW r \in Requests, CancelExecution(r)
  PROVE  IInv'
<1>1. PICK o \in tasks : /\ taskFor[o] = r /\ Untrack({o}, "cancelled")
                         /\ Send(ToId(IdOf(o), Msg("cancel", o)))
  BY DEF CancelExecution
<1>2. UNCHANGED <<processVars, toBroker, ran, routeVars, matchVars, missed, closing, killed,
                  faults>>
  BY DEF CancelExecution
<1>3. UNCHANGED <<life, offering, draining, openOffers, made, work, ran, closing, faults>>
  BY <1>2 DEF processVars
<1>4. o \in Offers /\ taskFor'[o] # None
  BY <1>2, TasksAreMatched, Unmatched DEF matchVars
<1>5. /\ Sends(ToId(IdOf(o), Msg("cancel", o)), {}) /\ ToCurrent(ToId(IdOf(o), Msg("cancel", o)))
      /\ NoSettings(ToId(IdOf(o), Msg("cancel", o)))
      /\ Attended(Owner(o)) => Msg("cancel", o) \in ToSet(ToId(IdOf(o), Msg("cancel", o))[Owner(o)])
  BY <1>1, <1>4, CancelSent
<1>6. InboxShrinks /\ toBroker' \in [Processes -> Seq(ToBroker)]
  BY <1>2, InboxRests DEF IInv, TypeOK
<1>7. missed' \in [Ids -> 0..(AcceptTimeoutLimit - 1)] /\ killed' \subseteq Processes
  BY <1>2 DEF IInv, TypeOK
<1>8. \A x \in {o} : Attended(Owner(x)) =>
        Msg("cancel", x) \in ToSet(ToId(IdOf(o), Msg("cancel", o))[Owner(x)])
  BY <1>5
<1> QED BY <1>1, <1>2, <1>3, <1>5, <1>6, <1>7, <1>8, UntrackKeeps

LEMMA TaskTimesOutKeeps ==
  ASSUME IInv, NEW o \in Offers, TaskTimesOut(o)
  PROVE  IInv'
<1>1. /\ o \in tasks /\ Untrack({o}, "answered")
      /\ UNCHANGED <<processVars, toBroker, ran, routeVars, matchVars, missed, closing, faults>>
  BY DEF TaskTimesOut
<1>2. UNCHANGED <<life, offering, draining, openOffers, made, work, ran, closing, faults>>
  BY <1>1 DEF processVars
<1>3. taskFor'[o] # None
  BY <1>1, TasksAreMatched, Unmatched DEF matchVars
<1>4. InboxShrinks /\ toBroker' \in [Processes -> Seq(ToBroker)]
  BY <1>1, InboxRests DEF IInv, TypeOK
<1>5. missed' \in [Ids -> 0..(AcceptTimeoutLimit - 1)] /\ killed \subseteq Processes
  BY <1>1 DEF IInv, TypeOK
<1>6. CASE Internal /\ Kill({IdOf(o)}) /\ toRunner' = toRunner
  <2>1. Sends(Nothing, {}) /\ ToCurrent(Nothing) /\ NoSettings(Nothing)
    BY <1>6, SendsNothing DEF IInv
  <2>2. killed \subseteq killed' /\ killed' \subseteq Processes
    BY <1>5, <1>6 DEF Kill
  <2>3. ~(Attended(Owner(o)) /\ Attended(Owner(o))')
    BY <1>6, OffersAre DEF Kill, Attended, Delivers, IdOf
  <2> QED BY <1>1, <1>2, <1>4, <1>5, <2>1, <2>2, <2>3, UntrackKeeps
<1>7. CASE ~Internal /\ Send(ToId(IdOf(o), Msg("cancel", o))) /\ killed' = killed
  <2>1. /\ Sends(ToId(IdOf(o), Msg("cancel", o)), {})
        /\ ToCurrent(ToId(IdOf(o), Msg("cancel", o)))
        /\ NoSettings(ToId(IdOf(o), Msg("cancel", o)))
        /\ Attended(Owner(o)) =>
             Msg("cancel", o) \in ToSet(ToId(IdOf(o), Msg("cancel", o))[Owner(o)])
    BY <1>3, <1>7, CancelSent
  <2>2. \A x \in {o} : Attended(Owner(x)) =>
          Msg("cancel", x) \in ToSet(ToId(IdOf(o), Msg("cancel", o))[Owner(x)])
    BY <2>1
  <2> QED BY <1>1, <1>2, <1>4, <1>5, <1>7, <2>1, <2>2, UntrackKeeps
<1> QED BY <1>6, <1>7 DEF TaskTimesOut

\* An attended runner's id is reachable.
LEMMA AttendedReachable ==
  ASSUME IInv, NEW o \in Offers, Attended(Owner(o))
  PROVE  Reachable(IdOf(o)) /\ current[IdOf(o)] = Owner(o)
<1>1. Owner(o) \in Processes /\ IdOf(o) = ident[Owner(o)] /\ Owner(o) # None
  BY OffersAre, Unmatched DEF IdOf
<1>2. IdOf(o) \in Ids
  BY <1>1 DEF IInv, TypeOK
<1>3. current[IdOf(o)] = Owner(o) /\ socket[Owner(o)] = "open"
  BY <1>1 DEF Attended, Delivers
<1>4. known[IdOf(o)] = Owner(o)
  BY <1>1, <1>2, <1>3 DEF IInv, RoutesAgree
<1> QED BY <1>1, <1>3, <1>4 DEF Reachable

LEMMA RelayFailsKeeps ==
  ASSUME IInv, NEW o \in Offers, RelayFails(o)
  PROVE  IInv'
<1>1. /\ o \in tasks /\ Untrack({o}, "answered") /\ ~Reachable(IdOf(o))
      /\ UNCHANGED <<processVars, toRunner, toBroker, ran, routeVars, matchVars, missed, closing,
                     killed, faults>>
  BY DEF RelayFails
<1>2. UNCHANGED <<life, offering, draining, openOffers, made, work, ran, closing, faults>>
  BY <1>1 DEF processVars
<1>3. InboxShrinks /\ toBroker' \in [Processes -> Seq(ToBroker)]
  BY <1>1, InboxRests DEF IInv, TypeOK
<1>4. missed' \in [Ids -> 0..(AcceptTimeoutLimit - 1)] /\ killed' \subseteq Processes
  BY <1>1 DEF IInv, TypeOK
<1>5. Sends(Nothing, {}) /\ ToCurrent(Nothing) /\ NoSettings(Nothing)
  BY <1>1, SendsNothing DEF IInv
<1>6. ~Attended(Owner(o))
  BY <1>1, AttendedReachable
<1> QED BY <1>1, <1>2, <1>3, <1>4, <1>5, <1>6, UntrackKeeps

-----------------------------------------------------------------------------
(* Connections that leave, and the shutdown.                               *)

\* Connections leave, and the offers and tasks are left alone.
LEMMA LeavingKeeps ==
  ASSUME IInv, NEW is \in SUBSET Ids, \A i \in is : current[i] # None,
         removals' = removals \cup {Removal(i, None) : i \in is},
         current' = [i \in Ids |-> IF i \in is THEN None ELSE current[i]],
         socket' \in [Processes -> {"none", "open", "closing", "closed"}],
         \A p \in Processes : socket'[p] = "open" => socket[p] = "open",
         UNCHANGED <<ident, known, replaced>>,
         UNCHANGED <<life, offering, draining, openOffers, made, work, toRunner, ran>>,
         UNCHANGED <<pool, accepting, deferred, taskFor, missed, tasks>>,
         toBroker' \in [Processes -> Seq(ToBroker)], InboxShrinks,
         killed \subseteq killed', killed' \subseteq Processes,
         closing' \in {"no", "draining", "stopped"}, closing' = "no" => closing = "no",
         faults' \in 0..MaxFaults,
         pending' \in Seq(Requests), RequestsKept', Served',
         request' \in [Requests -> {"new", "waiting", "running", "answered", "expired",
                                    "cancelled"}],
         \A r \in Requests : request[r] \in Begun => request'[r] \in Begun
  PROVE  IInv'
<1>1. /\ removals' \subseteq RemovalRecords
      /\ \A d \in removals' \ removals : d.next = None
      /\ current' \in [Ids -> Processes \cup {None}]
      /\ \A i \in Ids, p \in Processes : current'[i] = p => current[i] = p /\ i \notin is
  BY Disconnecting
<1>2. TypeOK'
  BY <1>1 DEF IInv, TypeOK
<1>3. Sends(Nothing, {}) /\ ToCurrent(Nothing) /\ NoSettings(Nothing)
  BY SendsNothing DEF IInv
<1>4. NewcomersAreFresh'
  BY <1>1, <1>2, <1>3, FreshTurn
<1>5. RoutesAgree'
  BY RoutesCut
<1>6. Steady
  BY <1>1 DEF Steady
<1>7. OffersOnce'
  BY DEF IInv, OffersOnce, Made
<1>8. Matches({})
  BY NothingMatched
<1>9. SettingsOnce'
  BY <1>3, <1>8, SettingsKept DEF NoSettings
<1>10. SlotsSeenTo(Nothing)
  BY EmptyToSet, OffersAre DEF SlotsSeenTo, Nothing
<1> QED
  BY <1>2, <1>3, <1>4, <1>5, <1>6, <1>7, <1>8, <1>9, <1>10, BrokerTurn DEF RunnersRest

\* The parts about requests and matching when nobody touches them.
LEMMA RequestsRest ==
  ASSUME IInv, UNCHANGED <<matchVars, tasks, request>>
  PROVE  /\ RequestsKept' /\ Served' /\ pending' \in Seq(Requests)
         /\ UNCHANGED <<pool, accepting, deferred, taskFor>>
         /\ request' \in [Requests -> {"new", "waiting", "running", "answered", "expired",
                                       "cancelled"}]
         /\ \A r \in Requests : request[r] \in Begun => request'[r] \in Begun
<1>1. UNCHANGED <<pool, pending, accepting, deferred, taskFor>>
  BY DEF matchVars
<1>2. Served' /\ pending' = pending /\ IsInjective(pending') /\ ToSet(pending') = ToSet(pending)
  BY <1>1, MatchingRests
<1>3. RequestsKept'
  BY <1>1, <1>2, RequestsUntouched
<1> QED BY <1>1, <1>2, <1>3 DEF IInv, TypeOK

LEMMA FaultsStay ==
  ASSUME IInv, Fault \/ faults' = faults
  PROVE  faults' \in 0..MaxFaults
  BY FaultsIsNat DEF Fault, IInv, TypeOK

LEMMA KillingMore ==
  ASSUME IInv, NEW is, Kill(is)
  PROVE  killed \subseteq killed' /\ killed' \subseteq Processes
  BY DEF Kill, IInv, TypeOK

LEMMA HeartbeatFailsKeeps ==
  ASSUME IInv, NEW i \in Ids, HeartbeatFails(i)
  PROVE  IInv'
<1> DEFINE is == {i}
<1>1. /\ current[i] # None /\ Disconnect(is, None) /\ Kill({i}) /\ (Fault \/ faults' = faults)
      /\ UNCHANGED <<processVars, toRunner, toBroker, ran, ident, known, replaced, matchVars,
                     missed, tasks, closing, request>>
  BY DEF HeartbeatFails
<1>2. /\ removals' = removals \cup {Removal(j, None) : j \in is}
      /\ current' = [j \in Ids |-> IF j \in is THEN None ELSE current[j]]
      /\ socket' \in [Processes -> {"none", "open", "closing", "closed"}]
      /\ \A p \in Processes : socket'[p] = "open" => socket[p] = "open"
  BY <1>1, Closing DEF IInv
<1>3. InboxShrinks /\ toBroker' \in [Processes -> Seq(ToBroker)]
  BY <1>1, InboxRests DEF IInv, TypeOK
<1>4. faults' \in 0..MaxFaults
  BY <1>1, FaultsStay
<1>5. killed \subseteq killed' /\ killed' \subseteq Processes
  BY <1>1, KillingMore
<1>6. /\ RequestsKept' /\ Served' /\ pending' \in Seq(Requests)
      /\ UNCHANGED <<pool, accepting, deferred, taskFor>>
      /\ request' \in [Requests -> {"new", "waiting", "running", "answered", "expired",
                                    "cancelled"}]
      /\ \A r \in Requests : request[r] \in Begun => request'[r] \in Begun
  BY <1>1, RequestsRest
<1>7. /\ UNCHANGED <<life, offering, draining, openOffers, made, work>>
      /\ closing' \in {"no", "draining", "stopped"}
  BY <1>1 DEF processVars, IInv, TypeOK
<1>8. is \in SUBSET Ids /\ \A j \in is : current[j] # None
  BY <1>1
<1> HIDE DEF is
<1> QED BY <1>1, <1>2, <1>3, <1>4, <1>5, <1>6, <1>7, <1>8, LeavingKeeps

LEMMA StopConnectionsKeeps ==
  ASSUME IInv, StopConnections
  PROVE  IInv'
<1> DEFINE is == {i \in Ids : current[i] # None}
<1>1. /\ closing = "draining" /\ closing' = "stopped" /\ Disconnect(is, None)
      /\ UNCHANGED <<processVars, toRunner, toBroker, ran, ident, known, replaced, matchVars,
                     missed, tasks, killed, request, faults>>
  BY DEF StopConnections
<1>2. is \in SUBSET Ids /\ \A i \in is : current[i] # None
  OBVIOUS
<1> HIDE DEF is
<1>3. /\ removals' = removals \cup {Removal(i, None) : i \in is}
      /\ current' = [i \in Ids |-> IF i \in is THEN None ELSE current[i]]
      /\ socket' \in [Processes -> {"none", "open", "closing", "closed"}]
      /\ \A p \in Processes : socket'[p] = "open" => socket[p] = "open"
  BY <1>1, Closing DEF IInv
<1>4. InboxShrinks /\ toBroker' \in [Processes -> Seq(ToBroker)]
  BY <1>1, InboxRests DEF IInv, TypeOK
<1>5. faults' \in 0..MaxFaults
  BY <1>1, FaultsStay
<1>6. /\ RequestsKept' /\ Served' /\ pending' \in Seq(Requests)
      /\ UNCHANGED <<pool, accepting, deferred, taskFor>>
      /\ request' \in [Requests -> {"new", "waiting", "running", "answered", "expired",
                                    "cancelled"}]
      /\ \A r \in Requests : request[r] \in Begun => request'[r] \in Begun
  BY <1>1, RequestsRest
<1>7. /\ UNCHANGED <<life, offering, draining, openOffers, made, work>>
      /\ closing' \in {"no", "draining", "stopped"} /\ (closing' = "no" => closing = "no")
      /\ killed \subseteq killed' /\ killed' \subseteq Processes
  BY <1>1 DEF processVars, IInv, TypeOK
<1> QED BY <1>1, <1>2, <1>3, <1>4, <1>5, <1>6, <1>7, LeavingKeeps

LEMMA CloseEventKeeps ==
  ASSUME IInv, NEW p \in Processes, CloseEvent(p)
  PROVE  IInv'
<1> DEFINE is == {i \in Ids : current[i] = p}
<1>1. /\ removals' = removals \cup {Removal(i, None) : i \in is}
      /\ current' = [i \in Ids |-> IF i \in is THEN None ELSE current[i]]
      /\ socket' = [socket EXCEPT ![p] = "closed"]
      /\ toBroker' = [toBroker EXCEPT ![p] = <<>>]
      /\ UNCHANGED <<processVars, toRunner, ran, ident, known, replaced, matchVars,
                     missed, tasks, closing, killed, request, faults>>
  BY DEF CloseEvent
<1>2. is \in SUBSET Ids /\ \A i \in is : current[i] # None
  BY Unmatched
<1> HIDE DEF is
<1>3. /\ socket' \in [Processes -> {"none", "open", "closing", "closed"}]
      /\ \A q \in Processes : socket'[q] = "open" => socket[q] = "open"
  BY <1>1 DEF IInv, TypeOK
<1>4. toBroker \in [Processes -> Seq(ToBroker)]
  BY DEF IInv, TypeOK
<1>5. toBroker' \in [Processes -> Seq(ToBroker)]
  BY <1>1, <1>4
<1>6. InboxShrinks
  <2>1. \A q \in Processes : toBroker'[q] = toBroker[q] \/ toBroker'[q] = <<>>
    BY <1>1, <1>4
  <2>2. \A m : Once(<<>>, m)
    BY DEF Once
  <2> QED BY <1>5, <2>1, <2>2, EmptyToSet DEF InboxShrinks
<1>7. faults' \in 0..MaxFaults
  BY <1>1, FaultsStay
<1>8. /\ RequestsKept' /\ Served' /\ pending' \in Seq(Requests)
      /\ UNCHANGED <<pool, accepting, deferred, taskFor>>
      /\ request' \in [Requests -> {"new", "waiting", "running", "answered", "expired",
                                    "cancelled"}]
      /\ \A r \in Requests : request[r] \in Begun => request'[r] \in Begun
  BY <1>1, RequestsRest
<1>9. /\ UNCHANGED <<life, offering, draining, openOffers, made, work>>
      /\ closing' \in {"no", "draining", "stopped"} /\ (closing' = "no" => closing = "no")
      /\ killed \subseteq killed' /\ killed' \subseteq Processes
  BY <1>1 DEF processVars, IInv, TypeOK
<1> QED BY <1>1, <1>2, <1>3, <1>5, <1>6, <1>7, <1>8, <1>9, LeavingKeeps

LEMMA SocketDropsKeeps ==
  ASSUME IInv, NEW p \in Processes, SocketDrops(p)
  PROVE  IInv'
<1> DEFINE is == {}
<1>1. /\ socket' = [socket EXCEPT ![p] = "closing"] /\ (Fault \/ faults' = faults)
      /\ UNCHANGED <<processVars, toRunner, toBroker, ran, ident, current, known, removals,
                     replaced, matchVars, missed, tasks, closing, killed, request>>
  BY DEF SocketDrops
<1>2. /\ removals' = removals \cup {Removal(i, None) : i \in is}
      /\ current' = [i \in Ids |-> IF i \in is THEN None ELSE current[i]]
      /\ is \in SUBSET Ids /\ \A i \in is : current[i] # None
      /\ socket' \in [Processes -> {"none", "open", "closing", "closed"}]
      /\ \A q \in Processes : socket'[q] = "open" => socket[q] = "open"
  BY <1>1 DEF IInv, TypeOK
<1> HIDE DEF is
<1>3. InboxShrinks /\ toBroker' \in [Processes -> Seq(ToBroker)]
  BY <1>1, InboxRests DEF IInv, TypeOK
<1>4. faults' \in 0..MaxFaults
  BY <1>1, FaultsStay
<1>5. /\ RequestsKept' /\ Served' /\ pending' \in Seq(Requests)
      /\ UNCHANGED <<pool, accepting, deferred, taskFor>>
      /\ request' \in [Requests -> {"new", "waiting", "running", "answered", "expired",
                                    "cancelled"}]
      /\ \A r \in Requests : request[r] \in Begun => request'[r] \in Begun
  BY <1>1, RequestsRest
<1>6. /\ UNCHANGED <<life, offering, draining, openOffers, made, work>>
      /\ closing' \in {"no", "draining", "stopped"} /\ (closing' = "no" => closing = "no")
      /\ killed \subseteq killed' /\ killed' \subseteq Processes
  BY <1>1 DEF processVars, IInv, TypeOK
<1> QED BY <1>1, <1>2, <1>3, <1>4, <1>5, <1>6, LeavingKeeps

LEMMA RequestExpiresKeeps ==
  ASSUME IInv, NEW r \in Requests, RequestExpires(r)
  PROVE  IInv'
<1> DEFINE silent == {i \in Ids : Reachable(i) /\ Silent(i)}
           is == {i \in silent : current[i] # None /\ closing = "no"}
<1>1. /\ r \in ToSet(pending) /\ ReportUnresponsive(silent)
      /\ pending' = Without(pending, r) /\ request' = [request EXCEPT ![r] = "expired"]
      /\ UNCHANGED <<processVars, toRunner, toBroker, ran, pool, accepting, deferred, taskFor,
                     missed, tasks, closing, faults>>
  BY DEF RequestExpires
<1>2. is \in SUBSET Ids /\ \A i \in is : current[i] # None
  OBVIOUS
<1>3. Disconnect(is, None) /\ Kill(silent) /\ UNCHANGED <<ident, known, replaced>>
  BY <1>1 DEF ReportUnresponsive
<1> HIDE DEF is, silent
<1>4. /\ removals' = removals \cup {Removal(i, None) : i \in is}
      /\ current' = [i \in Ids |-> IF i \in is THEN None ELSE current[i]]
      /\ socket' \in [Processes -> {"none", "open", "closing", "closed"}]
      /\ \A p \in Processes : socket'[p] = "open" => socket[p] = "open"
  BY <1>3, Closing DEF IInv
<1>5. InboxShrinks /\ toBroker' \in [Processes -> Seq(ToBroker)]
  BY <1>1, InboxRests DEF IInv, TypeOK
<1>6. killed \subseteq killed' /\ killed' \subseteq Processes
  BY <1>3, KillingMore
<1>7. /\ UNCHANGED <<life, offering, draining, openOffers, made, work>>
      /\ closing' \in {"no", "draining", "stopped"} /\ (closing' = "no" => closing = "no")
      /\ faults' \in 0..MaxFaults
  BY <1>1, FaultsStay DEF processVars, IInv, TypeOK
<1>8. /\ pending \in Seq(Requests) /\ IsInjective(pending) /\ request[r] = "waiting"
      /\ ToSet(pending) = {q \in Requests : request[q] = "waiting"}
      /\ request \in [Requests -> {"new", "waiting", "running", "answered", "expired",
                                   "cancelled"}]
  BY <1>1 DEF IInv, TypeOK, RequestsKept
<1>9. pending' \in Seq(Requests) /\ IsInjective(pending') /\ ToSet(pending') = ToSet(pending) \ {r}
  BY <1>1, <1>8, WithoutOne
<1>10. /\ request' \in [Requests -> {"new", "waiting", "running", "answered", "expired",
                                     "cancelled"}]
       /\ \A q \in Requests : request[q] \in Begun => request'[q] \in Begun
       /\ \A q \in Requests : request'[q] = "running" <=> request[q] = "running"
       /\ \A q \in Requests : request'[q] = "waiting" <=> request[q] = "waiting" /\ q # r
  BY <1>1, <1>8 DEF Begun
<1>11. RequestsKept'
  <2>1. ToSet(pending') = {q \in Requests : request'[q] = "waiting"}
    BY <1>8, <1>9, <1>10
  <2>2. \A o \in tasks : taskFor[o] \in Requests
    BY TasksAreMatched
  <2> QED BY <1>1, <1>9, <1>10, <2>1, <2>2 DEF IInv, RequestsKept
<1>12. Served'
  BY <1>1, <1>9 DEF IInv, Served, AcceptInProgress, Matching
<1> QED
  BY <1>1, <1>2, <1>3, <1>4, <1>5, <1>6, <1>7, <1>9, <1>10, <1>11, <1>12, LeavingKeeps

LEMMA OfferLapsesKeeps ==
  ASSUME IInv, NEW o \in Offers, OfferLapses(o)
  PROVE  IInv'
<1>1. /\ pool' = Without(pool, o)
      /\ UNCHANGED <<processVars, toRunner, toBroker, ran, routeVars, pending, accepting,
                     deferred, taskFor, brokerVars>>
  BY DEF OfferLapses
<1>2. /\ UNCHANGED <<life, offering, draining, openOffers, made, work>>
      /\ UNCHANGED <<missed, tasks, closing, killed, request, faults>>
      /\ ident' = ident
  BY <1>1 DEF processVars, brokerVars, routeVars
<1>3. pool \in Seq(Offers) /\ IsInjective(pool)
  BY DEF IInv, TypeOK, OffersOnce
<1>4. pool' \in Seq(Offers) /\ IsInjective(pool') /\ ToSet(pool') \subseteq ToSet(pool)
  BY <1>1, <1>3, WithoutOne
<1>5. TypeOK'
  BY <1>1, <1>2, <1>4 DEF IInv, TypeOK, routeVars
<1>6. InboxShrinks /\ RunnersRest
  BY <1>1, <1>2, InboxRests DEF IInv, RunnersRest
<1>7. Sends(Nothing, {}) /\ ToCurrent(Nothing) /\ NoSettings(Nothing)
  BY <1>1, SendsNothing DEF IInv
<1>8. Matches({})
  BY <1>1, <1>4, <1>6, NothingMatched
<1>9. OffersOnce'
  BY <1>1, <1>2, <1>4 DEF IInv, OffersOnce, Made
<1>10. RequestsKept'
  BY <1>1, <1>2, RequestsUntouched DEF IInv, RequestsKept
<1>11. Served'
  <2>1. pool = <<>> => pool' = <<>>
    BY <1>3, <1>4, ToSetMembers, EmptyToSet
  <2> QED BY <1>1, <2>1 DEF IInv, Served, AcceptInProgress, Matching
<1>12. Steady /\ NewcomersAreFresh' /\ RoutesAgree'
  BY <1>1, <1>2, <1>5, <1>6, <1>7, RoutesRest
<1>13. SettingsOnce'
  BY <1>1, <1>2, <1>6, <1>7, <1>8, SettingsKept DEF NoSettings
<1>14. SlotsSeenTo(Nothing)
  BY <1>1, <1>2, EmptyToSet, OffersAre DEF SlotsSeenTo, Nothing
<1> QED
  BY <1>5, <1>6, <1>7, <1>8, <1>9, <1>10, <1>11, <1>12, <1>13, <1>14, BrokerTurn

LEMMA StartDrainingKeeps ==
  ASSUME IInv, StartDraining
  PROVE  IInv'
<1> DEFINE word == [type |-> "drain"]
           out == [p \in Processes |-> IF Delivers(ident[p], p) THEN <<word>> ELSE <<>>]
<1>1. /\ closing = "no" /\ closing' = "draining" /\ Fault /\ Send(out)
      /\ UNCHANGED <<processVars, toBroker, ran, routeVars, matchVars, missed, tasks, killed,
                     request>>
  BY DEF StartDraining
<1>2. UNCHANGED <<life, offering, draining, openOffers, made, work, ident>>
  BY <1>1 DEF processVars, routeVars
<1>3. word \in ToRunner /\ word.type = "drain"
  BY DEF ToRunner
<1> HIDE DEF word
<1>4. <<word>> \in Seq(ToRunner) /\ ToSet(<<word>>) = {word}
  BY <1>3 DEF ToSet
<1>5. out \in [Processes -> Seq(ToRunner)] /\ \A p \in Processes : ToSet(out[p]) \subseteq {word}
  BY <1>4, EmptyToSet
<1>6. ToCurrent(out)
  <2>1. \A p \in Processes : ident[p] \in Ids
    BY DEF IInv, TypeOK
  <2> QED BY <2>1 DEF ToCurrent, Delivers
<1> HIDE DEF out
<1>7. \A p \in Processes : \A x \in ToSet(out[p]) : x.type = "drain"
  BY <1>3, <1>5
<1>8. Sends(out, {}) /\ NoSettings(out)
  BY <1>1, <1>5, <1>7 DEF Sends, Fits, NoSettings, TaskTypes
<1>9. InboxShrinks /\ RunnersRest
  BY <1>1, <1>2, InboxRests DEF IInv, RunnersRest
<1>10. /\ RequestsKept' /\ Served' /\ pending' \in Seq(Requests)
       /\ UNCHANGED <<pool, accepting, deferred, taskFor>>
       /\ request' \in [Requests -> {"new", "waiting", "running", "answered", "expired",
                                     "cancelled"}]
       /\ \A r \in Requests : request[r] \in Begun => request'[r] \in Begun
  BY <1>1, RequestsRest
<1>11. toRunner' \in [Processes -> Seq(ToRunner)] /\ faults' \in 0..MaxFaults
  BY <1>1, <1>8, Sent, FaultsStay DEF IInv
<1>12. TypeOK'
  BY <1>1, <1>2, <1>10, <1>11 DEF IInv, TypeOK, routeVars
<1>13. OffersOnce'
  BY <1>2, <1>10 DEF IInv, OffersOnce, Made
<1>14. Matches({})
  BY <1>9, <1>10, NothingMatched
<1>15. Steady /\ NewcomersAreFresh' /\ RoutesAgree'
  BY <1>1, <1>2, <1>8, <1>6, <1>9, <1>12, RoutesRest
<1>16. SettingsOnce'
  BY <1>1, <1>2, <1>8, <1>9, <1>10, <1>14, SettingsKept DEF NoSettings
<1>17. SlotsSeenTo(out)
  BY <1>1, <1>7, <1>10, OffersAre DEF SlotsSeenTo
<1> QED
  BY <1>8, <1>9, <1>10, <1>12, <1>13, <1>14, <1>15, <1>16, <1>17, BrokerTurn

-----------------------------------------------------------------------------
(* Removals that end, and acceptances that time out.                       *)

\* The pool without the offers of one id is as good a start for a round.
LEMMA Trimmed ==
  ASSUME IInv, NEW i, NEW out \in [Processes -> Seq(ToRunner)], NEW m,
         m = [pool |-> OffersNotOf(i), pending |-> pending, accepting |-> accepting,
              taskFor |-> taskFor, out |-> out]
  PROVE  /\ Sound(m) /\ ToSet(m.pool) \subseteq ToSet(pool)
         /\ m.pending = pending /\ m.accepting = accepting /\ m.taskFor = taskFor /\ m.out = out
         /\ m.pool = OffersNotOf(i)
         /\ \A o \in ToSet(m.pool) :
              Made(o) /\ \A p \in Processes : Msg("offer", o) \notin ToSet(toBroker[p])
<1>1. /\ pool \in Seq(Offers) /\ pending \in Seq(Requests) /\ accepting \in Seq(Offers)
      /\ taskFor \in [Offers -> Requests \cup {None}]
      /\ IsInjective(pool) /\ IsInjective(accepting) /\ IsInjective(pending)
      /\ \A o \in ToSet(pool) : taskFor[o] = None /\ Made(o)
      /\ \A o \in ToSet(accepting) : taskFor[o] # None
  BY DEF IInv, TypeOK, OffersOnce, RequestsKept
<1>2. /\ OffersNotOf(i) \in Seq(Offers) /\ IsInjective(OffersNotOf(i))
      /\ ToSet(OffersNotOf(i)) \subseteq ToSet(pool)
  BY <1>1, OnlyMembers DEF OffersNotOf
<1>3. m \in MatchingRecords
  BY <1>1, <1>2 DEF MatchingRecords
<1>4. Sound(m)
  BY <1>1, <1>2, <1>3 DEF Sound
<1>5. \A o \in ToSet(pool) : \A p \in Processes : Msg("offer", o) \notin ToSet(toBroker[p])
  BY OffersAre DEF IInv, FramesMatched
<1> QED BY <1>1, <1>2, <1>4, <1>5

LEMMA RemovalKeeps ==
  ASSUME IInv, NEW d \in removals, removals' = removals \ {d},
         UNCHANGED <<life, offering, draining, openOffers, made, work, toBroker, ran>>,
         UNCHANGED <<ident, socket, closing, killed, faults>>,
         NEW os, os \subseteq tasks, Untrack(os, "answered"), d.tasks \cap tasks' = {},
         NEW out, NEW new, Fits(out, new), ToCurrent(out), NoSettings(out),
         \/ d.next # None /\ Join(d.next, out)
         \/ /\ d.next = None /\ Send(out) /\ UNCHANGED <<current, replaced>>
            /\ \/ known' = known
               \/ current[d.id] = None /\ known' = [known EXCEPT ![d.id] = None],
         Matches(new), OffersOnce', Served',
         pool' \in Seq(Offers), accepting' \in Seq(Offers), deferred' \subseteq Requests,
         pending' = pending, \A o \in tasks : taskFor'[o] = taskFor[o],
         missed' \in [Ids -> 0..(AcceptTimeoutLimit - 1)],
         \A o \in Offers : Attended(Owner(o)) =>
           /\ o \in ToSet(accepting) => o \in ToSet(accepting')
           /\ o \in tasks => o \in tasks',
         \A p \in Processes : \A o \in Offers :
           Msg("accept", o) \in ToSet(out[p]) => o \in ToSet(accepting')
  PROVE  IInv'
<1>1. InboxShrinks /\ RunnersRest
  BY InboxRests DEF IInv, RunnersRest
<1>2. pending' \in Seq(Requests) /\ IsInjective(pending') /\ ToSet(pending') = ToSet(pending)
  BY DEF IInv, TypeOK, RequestsKept
<1>3. /\ RequestsKept'
      /\ request' \in [Requests -> {"new", "waiting", "running", "answered", "expired",
                                    "cancelled"}]
      /\ \A r \in Requests : request[r] \in Begun => request'[r] \in Begun
      /\ tasks' \subseteq tasks
  BY <1>2, Untracking
<1>4. /\ d \in RemovalRecords /\ d.id \in Ids
      /\ current \in [Ids -> Processes \cup {None}] /\ known \in [Ids -> Processes \cup {None}]
      /\ replaced \subseteq Processes
  BY DEF IInv, TypeOK, RemovalRecords
<1>5. taskFor' \in [Offers -> Requests \cup {None}]
  BY DEF Matches
<1>6. ASSUME current' \in [Ids -> Processes \cup {None}],
             known' \in [Ids -> Processes \cup {None}], replaced' \subseteq Processes,
             toRunner' \in [Processes -> Seq(ToRunner)]
      PROVE  TypeOK'
  BY <1>2, <1>3, <1>5, <1>6 DEF IInv, TypeOK
<1>7. CASE d.next # None /\ Join(d.next, out)
  <2>1. PICK p \in Processes : p = d.next
    BY <1>4, <1>7 DEF RemovalRecords
  <2>2. Newcomer(p)
    BY <2>1 DEF Newcomer
  <2>3. life[p] # "unborn" /\ toBroker[p] = <<>> /\ ident[p] = d.id
    BY <1>7, <2>1 DEF IInv, NewcomersAreFresh
  <2>4. Join(p, out)
    BY <1>7, <2>1
  <2>5. /\ current' \in [Ids -> Processes \cup {None}]
        /\ known' \in [Ids -> Processes \cup {None}] /\ replaced' \subseteq Processes
        /\ \A i \in Ids, q \in Processes : current'[i] = q => current[i] = q \/ q = p
    BY <2>4, Joining
  <2>6. PICK more : /\ Sends(more, new)
                    /\ \A q \in Processes : q # p => more[q] = out[q]
                    /\ \A q \in Processes : ToSet(out[q]) \subseteq ToSet(more[q])
                    /\ NoSettings(out) => NoSettings(more)
                    /\ \A q \in Processes : \A x \in ToSet(more[q]) :
                         x.type \in TaskTypes => x \in ToSet(out[q])
    BY <2>4, Joining
  <2>7. toRunner' \in [Processes -> Seq(ToRunner)]
    BY <2>6, Sent DEF IInv
  <2>8. TypeOK'
    BY <1>6, <2>5, <2>7
  <2>9. ~Newcomer(p)'
    <3>1. \A e \in removals : e.next = p => e = d
      BY <1>7, <2>1 DEF IInv, NewcomersAreFresh
    <3>2. InfoFrame \notin ToSet(toBroker[p])
      BY <2>3, EmptyToSet
    <3> QED BY <2>3, <3>1, <3>2 DEF Newcomer
  <2>10. NewcomersAreFresh'
    <3>1. removals' \subseteq removals /\ UNCHANGED <<ident, life, offering, made>>
      OBVIOUS
    <3>2. /\ Sends(more, new) /\ ToCurrent(out)
          /\ \A q \in Processes : q # p => more[q] = out[q]
      BY <2>6
    <3> QED BY <1>1, <2>2, <2>5, <2>8, <2>9, <3>1, <3>2, FreshJoined
  <2>11. RoutesAgree'
    <3>1. /\ current' = [current EXCEPT ![ident[p]] = p]
          /\ known' = [known EXCEPT ![ident[p]] = p]
          /\ replaced' = replaced \cup ({current[ident[p]]} \ {None})
      BY <2>4 DEF Join
    <3>2. removals' \subseteq removals /\ \A e \in removals \ removals' : e.tasks \cap tasks' = {}
      OBVIOUS
    <3> QED BY <1>3, <2>2, <3>1, <3>2, RoutesJoined
  <2>12. Steady
    BY <2>2, <2>5 DEF Steady
  <2>13. SettingsOnce'
    BY <1>1, <1>3, <2>6, SettingsKept DEF NoSettings
  <2>14. SlotsSeenTo(more)
    <3>1. \A o \in Offers : /\ Msg("accept", o).type \in TaskTypes /\ Owner(o) \in Processes
      BY OffersAre DEF TaskTypes
    <3>2. \A o \in Offers : Msg("accept", o) \in ToSet(more[Owner(o)]) => o \in ToSet(accepting')
      BY <2>6, <3>1
    <3> QED BY <3>2 DEF SlotsSeenTo
  <2> QED
    BY <1>1, <1>3, <2>6, <2>8, <2>10, <2>11, <2>12, <2>13, <2>14, BrokerTurn
<1>8. CASE /\ d.next = None /\ Send(out) /\ UNCHANGED <<current, replaced>>
           /\ \/ known' = known
              \/ current[d.id] = None /\ known' = [known EXCEPT ![d.id] = None]
  <2>1. Sends(out, new)
    BY <1>8 DEF Sends
  <2>2. known' \in [Ids -> Processes \cup {None}] /\ toRunner' \in [Processes -> Seq(ToRunner)]
    BY <1>4, <1>8, <2>1, Sent DEF IInv
  <2>3. TypeOK'
    BY <1>4, <1>6, <1>8, <2>2
  <2>4. NewcomersAreFresh'
    <3>1. \A e \in removals' \ removals : e.next = None
      OBVIOUS
    <3>2. \A i \in Ids, p \in Processes : current'[i] = p => current[i] = p
      BY <1>8
    <3> QED BY <1>1, <2>1, <2>3, <3>1, <3>2, FreshTurn
  <2>5. RoutesAgree'
    BY <1>3, <1>8, RoutesReleased
  <2>6. Steady
    BY <1>8 DEF Steady
  <2>7. SettingsOnce'
    BY <1>1, <1>3, <2>1, SettingsKept DEF NoSettings
  <2>8. SlotsSeenTo(out)
    BY OffersAre DEF SlotsSeenTo
  <2> QED BY <1>1, <1>3, <2>1, <2>3, <2>4, <2>5, <2>6, <2>7, <2>8, BrokerTurn
<1> QED BY <1>7, <1>8

LEMMA FinishRemovalKeeps ==
  ASSUME IInv, NEW d \in removals, FinishRemoval(d)
  PROVE  IInv'
<1>1. /\ removals' = removals \ {d}
      /\ UNCHANGED <<processVars, toBroker, ran, ident, socket, closing, killed, faults>>
  BY DEF FinishRemoval
<1>2. UNCHANGED <<life, offering, draining, openOffers, made, work, toBroker, ran>>
  BY <1>1 DEF processVars
<1>3. InboxShrinks
  BY <1>1, InboxRests DEF IInv
<1>4. /\ d.id \in Ids /\ missed \in [Ids -> 0..(AcceptTimeoutLimit - 1)]
      /\ tasks \subseteq Offers
      /\ \A o \in d.tasks : IdOf(o) = d.id /\ Owner(o) # current[d.id]
  BY DEF IInv, TypeOK, RemovalRecords, RoutesAgree
<1>5. \A o \in Offers : Attended(Owner(o)) => current[IdOf(o)] = Owner(o) /\ Owner(o) # None
  BY AttendedReachable, OffersAre, Unmatched
<1>6. /\ Nothing \in [Processes -> Seq(ToRunner)]
      /\ \A p \in Processes : Nothing[p] = <<>> /\ ToSet(Nothing[p]) = {}
  BY EmptyToSet DEF Nothing
<1>7. CASE Deregister(d)
  <2> DEFINE m == [Matching EXCEPT !.pool = OffersNotOf(d.id)]
             lost == Only(accepting, {o \in Offers : IdOf(o) = d.id})
             n == RejectAll(m, lost)
             os == TasksOf(d.id)
  <2>1. /\ current[d.id] = None /\ missed' = [missed EXCEPT ![d.id] = 0] /\ Untrack(os, "answered")
        /\ pool' = n.pool /\ pending' = n.pending /\ accepting' = n.accepting
        /\ taskFor' = n.taskFor
        /\ deferred' = (IF lost = <<>> THEN deferred ELSE {})
        /\ \/ d.next # None /\ Join(d.next, n.out)
           \/ /\ d.next = None /\ Send(n.out) /\ known' = [known EXCEPT ![d.id] = None]
              /\ UNCHANGED <<current, replaced>>
    BY <1>7 DEF Deregister, FailTasksOf
  <2>2. m = [pool |-> OffersNotOf(d.id), pending |-> pending, accepting |-> accepting,
             taskFor |-> taskFor, out |-> Nothing]
    BY DEF Matching
  <2>3. accepting \in Seq(Offers) /\ IsInjective(accepting)
    BY DEF IInv, TypeOK, OffersOnce
  <2>4. /\ lost \in Seq(Offers)
        /\ ToSet(lost) = ToSet(accepting) \cap {o \in Offers : IdOf(o) = d.id}
    BY <2>3, OnlyMembers
  <2> HIDE DEF m, lost
  <2>5. /\ Sound(m) /\ ToSet(m.pool) \subseteq ToSet(pool)
        /\ m.pending = pending /\ m.accepting = accepting /\ m.taskFor = taskFor
        /\ m.out = Nothing /\ m.pool = OffersNotOf(d.id)
        /\ \A o \in ToSet(m.pool) :
             Made(o) /\ \A p \in Processes : Msg("offer", o) \notin ToSet(toBroker[p])
    BY <1>6, <2>2, Trimmed
  <2>6. /\ Sound(n) /\ (lost # <<>> => AllServed(n)) /\ (lost = <<>> => n = m)
    BY <2>4, <2>5, RejectingAll
  <2>7. PICK new \in SUBSET Offers : Rematched(m, n, ToSet(lost), new)
    BY <2>4, <2>5, RejectingAll
  <2> HIDE DEF n
  <2>8. Becomes(n)
    BY <2>1 DEF Becomes
  <2>9. /\ \A o \in ToSet(m.pool) :
             Made(o) /\ \A p \in Processes : Msg("offer", o) \notin ToSet(toBroker'[p])
        /\ \A p \in Processes : \A x \in ToSet(m.out[p]) :
             /\ x.type \notin {"accept", "settings"}
             /\ x.type \in TaskTypes => taskFor[x.task] # None /\ IdOf(x.task) = ident[p]
        /\ ToCurrent(m.out)
    BY <1>2, <1>6, <2>5 DEF ToCurrent
  <2>10. /\ Matches(new) /\ Fits(n.out, new) /\ ToCurrent(n.out) /\ NoSettings(n.out)
         /\ \A p \in Processes : \A o \in Offers :
              Msg("accept", o) \in ToSet(n.out[p]) => o \in ToSet(accepting')
         /\ OffersOnce'
         /\ pool' \in Seq(Offers) /\ accepting' \in Seq(Offers)
         /\ pending' = pending
         /\ ToSet(accepting') = (ToSet(accepting) \ ToSet(lost)) \cup new
         /\ \A o \in tasks : taskFor'[o] = taskFor[o]
    BY <1>2, <1>3, <2>5, <2>6, <2>7, <2>8, <2>9, RoundOfMatching
  <2>11. deferred' \subseteq Requests
    BY <2>1 DEF IInv, TypeOK
  <2>12. Served'
    <3>1. CASE lost = <<>>
      <4>1. /\ pool' = OffersNotOf(d.id) /\ accepting' = accepting /\ taskFor' = taskFor
            /\ deferred' = deferred
        BY <2>1, <2>5, <2>6, <3>1
      <4>2. pool = <<>> => pool' = <<>>
        <5>1. ToSet(pool') \subseteq ToSet(pool)
          BY <2>5, <4>1
        <5> QED BY <2>10, <5>1, ToSetMembers, EmptyToSet
      <4> QED BY <2>10, <4>1, <4>2 DEF IInv, Served, AcceptInProgress, Matching
    <3>2. CASE lost # <<>>
      BY <2>1, <2>6, <2>8, <3>2, ServedKept
    <3> QED BY <3>1, <3>2
  <2>13. missed' \in [Ids -> 0..(AcceptTimeoutLimit - 1)]
    BY <1>4, <2>1, LimitIsPositive
  <2>14. os \subseteq tasks /\ \A o \in os : IdOf(o) = d.id
    BY DEF TasksOf
  <2>15. tasks' = tasks \ os /\ d.tasks \cap tasks' = {}
    BY <1>4, <2>1 DEF Untrack, TasksOf
  <2>16. \A o \in Offers : Attended(Owner(o)) => IdOf(o) # d.id
    BY <1>5, <2>1
  <2> HIDE DEF os
  <2>17. \A o \in Offers : Attended(Owner(o)) =>
           /\ o \in ToSet(accepting) => o \in ToSet(accepting')
           /\ o \in tasks => o \in tasks'
    BY <2>4, <2>10, <2>14, <2>15, <2>16
  <2> QED
    BY <1>1, <1>2, <2>1, <2>10, <2>11, <2>12, <2>13, <2>14, <2>15, <2>17, RemovalKeeps
<1>8. CASE /\ Reconnected(d)
           /\ \/ d.next # None /\ Join(d.next, Nothing)
              \/ d.next = None /\ UNCHANGED <<current, known, replaced, toRunner>>
  <2> DEFINE os == d.tasks \cap tasks
  <2>1. Untrack(os, "answered") /\ UNCHANGED <<pool, pending, accepting, deferred, taskFor, missed>>
    BY <1>8 DEF Reconnected, matchVars
  <2>2. os \subseteq tasks /\ tasks' = tasks \ os /\ d.tasks \cap tasks' = {}
    BY <2>1 DEF Untrack
  <2>3. /\ Served' /\ OffersOnce' /\ Matches({}) /\ pending' = pending
        /\ ToSet(accepting') = ToSet(accepting) /\ taskFor' = taskFor
    BY <1>2, <1>3, <2>1, MatchingRests
  <2>4. Fits(Nothing, {}) /\ ToCurrent(Nothing) /\ NoSettings(Nothing)
    BY <1>6 DEF Fits, ToCurrent, NoSettings
  <2>5. toRunner' = toRunner => Send(Nothing)
    BY SendsNothing DEF IInv, Sends
  <2>6. \A o \in Offers : Attended(Owner(o)) => o \notin os
    BY <1>4, <1>5
  <2> HIDE DEF os
  <2>7. \/ d.next # None /\ Join(d.next, Nothing)
        \/ /\ d.next = None /\ Send(Nothing) /\ UNCHANGED <<current, replaced>>
           /\ \/ known' = known
              \/ current[d.id] = None /\ known' = [known EXCEPT ![d.id] = None]
    BY <1>8, <2>5
  <2>8. /\ pool' \in Seq(Offers) /\ accepting' \in Seq(Offers) /\ deferred' \subseteq Requests
        /\ missed' \in [Ids -> 0..(AcceptTimeoutLimit - 1)]
    BY <2>1 DEF IInv, TypeOK
  <2>9. \A o \in Offers : Attended(Owner(o)) =>
          /\ o \in ToSet(accepting) => o \in ToSet(accepting')
          /\ o \in tasks => o \in tasks'
    BY <2>2, <2>3, <2>6
  <2>10. /\ \A o \in tasks : taskFor'[o] = taskFor[o]
         /\ \A p \in Processes : \A o \in Offers :
              Msg("accept", o) \in ToSet(Nothing[p]) => o \in ToSet(accepting')
    BY <1>6, <2>3
  <2> QED
    BY <1>1, <1>2, <2>1, <2>2, <2>3, <2>4, <2>7, <2>8, <2>9, <2>10, RemovalKeeps
<1> QED BY <1>7, <1>8 DEF FinishRemoval

LEMMA AcceptTimesOutKeeps ==
  ASSUME IInv, NEW o \in Offers, AcceptTimesOut(o)
  PROVE  IInv'
<1>1. PICK i \in Ids : i = IdOf(o)
  BY OffersAre DEF IdOf, IInv, TypeOK
<1> DEFINE told == ToId(i, Msg("cancel", o))
           m == [Matching EXCEPT !.pool = OffersNotOf(i), !.out = told]
           n == Reject(m, o)
           flagged == IF AtLimit(i) THEN {i} ELSE {}
           is == {j \in flagged : current[j] # None /\ closing = "no"}
<1>2. /\ o \in ToSet(accepting)
      /\ missed' = [missed EXCEPT ![i] = IF AtLimit(i) THEN 0 ELSE @ + 1]
      /\ ReportUnresponsive(flagged) /\ Become(n) /\ deferred' = {}
      /\ UNCHANGED <<processVars, toBroker, ran, tasks, closing, request, faults>>
  BY <1>1 DEF AcceptTimesOut
<1>3. Disconnect(is, None) /\ Kill(flagged) /\ UNCHANGED <<ident, known, replaced>>
  BY <1>2 DEF ReportUnresponsive
<1>4. is \in SUBSET Ids /\ \A j \in is : current[j] # None
  OBVIOUS
<1> HIDE DEF told
<1>5. m = [pool |-> OffersNotOf(i), pending |-> pending, accepting |-> accepting,
           taskFor |-> taskFor, out |-> told]
  <2> DEFINE a == [Matching EXCEPT !.pool = OffersNotOf(i)]
  <2>1. a = [pool |-> OffersNotOf(i), pending |-> pending, accepting |-> accepting,
             taskFor |-> taskFor, out |-> Nothing]
    BY DEF Matching
  <2>2. m = [a EXCEPT !.out = told]
    OBVIOUS
  <2> HIDE DEF a, m
  <2> QED BY <2>1, <2>2
<1>6. UNCHANGED <<life, offering, draining, openOffers, made, work>>
  BY <1>2 DEF processVars
<1>7. missed' \in [Ids -> 0..(AcceptTimeoutLimit - 1)]
  <2>1. missed \in [Ids -> 0..(AcceptTimeoutLimit - 1)]
    BY DEF IInv, TypeOK
  <2>2. (IF AtLimit(i) THEN 0 ELSE missed[i] + 1) \in 0..(AcceptTimeoutLimit - 1)
    BY <2>1, LimitIsPositive DEF AtLimit
  <2> QED BY <1>2, <2>1, <2>2
<1> HIDE DEF m, is, flagged
<1>8. "cancel" \in TaskTypes
  BY DEF TaskTypes
<1>9. /\ told \in [Processes -> Seq(ToRunner)] /\ ToCurrent(told)
      /\ \A p \in Processes : \A x \in ToSet(told[p]) :
           x = Msg("cancel", o) /\ Delivers(i, p) /\ ident[p] = i
      /\ \A p \in Processes : Delivers(i, p) => Msg("cancel", o) \in ToSet(told[p])
  BY <1>8, SentToId DEF told
<1>10. /\ Sound(m) /\ ToSet(m.pool) \subseteq ToSet(pool)
       /\ m.pending = pending /\ m.accepting = accepting /\ m.taskFor = taskFor
       /\ m.out = told
       /\ \A x \in ToSet(m.pool) :
            Made(x) /\ \A p \in Processes : Msg("offer", x) \notin ToSet(toBroker[p])
  BY <1>5, <1>9, Trimmed
<1>11. Sound(n) /\ AllServed(n)
  BY <1>10, Rejecting
<1> DEFINE gone == {o}
<1>12. PICK new \in SUBSET Offers : Rematched(m, n, gone, new)
  BY <1>10, Rejecting
<1> HIDE DEF n, gone
<1>13. Becomes(n) /\ Send(n.out)
  BY <1>2 DEF Become, Becomes
<1>14. InboxShrinks /\ RunnersRest
  BY <1>2, <1>3, <1>6, InboxRests DEF IInv, RunnersRest
<1>15. taskFor[o] # None
  BY <1>2 DEF IInv, OffersOnce
<1>16. /\ \A x \in ToSet(m.pool) :
            Made(x) /\ \A p \in Processes : Msg("offer", x) \notin ToSet(toBroker'[p])
       /\ \A p \in Processes : \A x \in ToSet(m.out[p]) :
            /\ x.type \notin {"accept", "settings"}
            /\ x.type \in TaskTypes => taskFor[x.task] # None /\ IdOf(x.task) = ident[p]
       /\ ToCurrent(m.out)
  BY <1>1, <1>2, <1>9, <1>10, <1>15, OffersAre
<1>17. /\ Matches(new) /\ Fits(n.out, new) /\ ToCurrent(n.out) /\ NoSettings(n.out)
       /\ \A p \in Processes : ToSet(m.out[p]) \subseteq ToSet(n.out[p])
       /\ \A p \in Processes : \A x \in Offers :
            Msg("accept", x) \in ToSet(n.out[p]) => x \in ToSet(accepting')
       /\ OffersOnce'
       /\ pool' \in Seq(Offers) /\ pending' \in Seq(Requests) /\ accepting' \in Seq(Offers)
       /\ taskFor' \in [Offers -> Requests \cup {None}]
       /\ pending' = pending /\ IsInjective(pending')
       /\ ToSet(accepting') = (ToSet(accepting) \ gone) \cup new
       /\ \A x \in tasks : taskFor'[x] = taskFor[x]
  <2>1. Rematched(m, n, gone, new) /\ Becomes(n) /\ InboxShrinks /\ made' = made
    BY <1>6, <1>12, <1>13, <1>14
  <2>2. m.taskFor = taskFor /\ m.pending = pending /\ m.accepting = accepting
    BY <1>10
  <2>3. /\ Matches(new) /\ Fits(n.out, new) /\ ToCurrent(n.out) /\ NoSettings(n.out)
        /\ \A p \in Processes : ToSet(m.out[p]) \subseteq ToSet(n.out[p])
        /\ \A p \in Processes : \A x \in Offers :
             Msg("accept", x) \in ToSet(n.out[p]) => x \in ToSet(accepting')
        /\ OffersOnce'
        /\ pool' \in Seq(Offers) /\ pending' \in Seq(Requests) /\ accepting' \in Seq(Offers)
        /\ taskFor' \in [Offers -> Requests \cup {None}]
        /\ pending' = m.pending /\ IsInjective(pending')
        /\ ToSet(accepting') = (ToSet(m.accepting) \ gone) \cup new
        /\ \A x \in tasks : taskFor'[x] = taskFor[x]
    BY <1>10, <1>11, <1>16, <2>1, <2>2, RoundOfMatching
  <2> QED BY <2>2, <2>3
<1>18. Sends(n.out, new) /\ toRunner' \in [Processes -> Seq(ToRunner)]
  BY <1>13, <1>17, Sent DEF Sends, IInv
<1>19. /\ removals' = removals \cup {Removal(j, None) : j \in is}
       /\ current' = [j \in Ids |-> IF j \in is THEN None ELSE current[j]]
       /\ socket' \in [Processes -> {"none", "open", "closing", "closed"}]
       /\ \A p \in Processes : socket'[p] = "open" => socket[p] = "open"
  BY <1>3, Closing DEF IInv
<1>20. /\ removals' \subseteq RemovalRecords
       /\ \A d \in removals' \ removals : d.next = None
       /\ current' \in [Ids -> Processes \cup {None}]
       /\ \A j \in Ids, p \in Processes : current'[j] = p => current[j] = p /\ j \notin is
  BY <1>4, <1>19, Disconnecting
<1>21. killed \subseteq killed' /\ killed' \subseteq Processes
  BY <1>3, KillingMore
<1>22. TypeOK'
  BY <1>2, <1>3, <1>6, <1>7, <1>17, <1>18, <1>19, <1>20, <1>21 DEF IInv, TypeOK
<1>23. RequestsKept'
  BY <1>2, <1>17, RequestsUntouched
<1>24. Served'
  BY <1>2, <1>11, <1>13, ServedKept
<1>25. RoutesAgree'
  BY <1>2, <1>3, <1>4, <1>6, <1>19, RoutesCut
<1>26. NewcomersAreFresh'
  BY <1>3, <1>6, <1>14, <1>17, <1>18, <1>20, <1>22, FreshTurn
<1>27. Steady
  BY <1>2, <1>3, <1>6, <1>19, <1>20, <1>21 DEF Steady
<1>28. SettingsOnce'
  BY <1>2, <1>14, <1>17, <1>18, SettingsKept DEF NoSettings
<1>29. SlotsSeenTo(n.out)
  <2> SUFFICES ASSUME NEW x \in Offers, NEW p \in Processes, p = Owner(x), Attended(p), Attended(p)'
               PROVE  /\ x \in ToSet(accepting) \ ToSet(accepting') =>
                           Msg("cancel", x) \in ToSet(n.out[p])
                      /\ Msg("accept", x) \in ToSet(n.out[p]) => x \in ToSet(accepting')
    BY <1>2, OffersAre DEF SlotsSeenTo
  <2>1. x \in ToSet(accepting) \ ToSet(accepting') => x = o
    BY <1>17 DEF gone
  <2>2. x = o => Delivers(i, p)
    BY <1>1 DEF Attended, IdOf
  <2> QED BY <1>9, <1>10, <1>17, <2>1, <2>2
<1> QED
  BY <1>14, <1>17, <1>18, <1>22, <1>23, <1>24, <1>25, <1>26, <1>27, <1>28, <1>29, BrokerTurn

-----------------------------------------------------------------------------
(* Connections that open and register.                                     *)

\* A turn that leaves requests, offers and tasks alone.
LEMMA QuietTurn ==
  ASSUME IInv, RunnersRest, UNCHANGED matchVars, UNCHANGED <<tasks, request, ran>>, InboxShrinks,
         NEW out, Sends(out, {}), NoSettings(out),
         Steady, TypeOK', RoutesAgree', NewcomersAreFresh'
  PROVE  IInv'
<1>1. UNCHANGED <<pool, pending, accepting, deferred, taskFor>> /\ made' = made
  BY DEF matchVars, RunnersRest
<1>2. Served' /\ OffersOnce' /\ Matches({})
  BY <1>1, MatchingRests
<1>3. RequestsKept' /\ \A r \in Requests : request[r] \in Begun => request'[r] \in Begun
  BY RequestsRest
<1>4. SettingsOnce'
  BY <1>2, <1>3, SettingsKept DEF NoSettings
<1>5. \A o \in Offers : Msg("accept", o) \notin ToSet(out[Owner(o)])
  BY OffersAre DEF Sends, Fits
<1>6. SlotsSeenTo(out)
  BY <1>1, <1>5 DEF SlotsSeenTo
<1> QED BY <1>2, <1>3, <1>4, <1>6, BrokerTurn

LEMMA RegistrationKeeps ==
  ASSUME IInv, NEW p \in Processes, toBroker[p] # <<>>, Head(toBroker[p]).type = "info",
         toBroker' = [toBroker EXCEPT ![p] = Tail(@)], RunnerInfo(p),
         UNCHANGED <<matchVars, missed, tasks, request>>,
         UNCHANGED <<processVars, ran, closing, killed, faults>>
  PROVE  IInv'
<1> DEFINE m == Head(toBroker[p])
<1>1. /\ InboxShrinks /\ toBroker' \in [Processes -> Seq(ToBroker)]
      /\ m \in ToSet(toBroker[p]) /\ m \in ToBroker
      /\ toBroker[p] = <<m>> => toBroker'[p] = <<>>
  BY InboxRead
<1>2. m = InfoFrame
  BY <1>1, MessagesAre
<1>3. Newcomer(p)
  BY <1>1, <1>2 DEF Newcomer
<1>4. toBroker'[p] = <<>>
  BY <1>1, <1>2, <1>3, NewcomersAre
<1>5. life[p] # "unborn" /\ \A d \in removals : d.next # p
  BY Unmatched DEF IInv, NewcomersAreFresh
<1>6. UNCHANGED <<life, offering, draining, openOffers, made, work>>
  BY DEF processVars
<1>7. UNCHANGED <<pool, pending, accepting, deferred, taskFor>>
  BY DEF matchVars
<1>8. Nothing \in [Processes -> Seq(ToRunner)] /\ \A q \in Processes : Nothing[q] = <<>>
  BY DEF Nothing
<1>9. Fits(Nothing, {}) /\ ToCurrent(Nothing) /\ NoSettings(Nothing)
  BY <1>8, EmptyToSet DEF Fits, ToCurrent, NoSettings
<1>10. /\ ident[p] \in Ids /\ current \in [Ids -> Processes \cup {None}]
       /\ known \in [Ids -> Processes \cup {None}] /\ replaced \subseteq Processes
  BY DEF IInv, TypeOK
<1>11. CASE current[ident[p]] = None /\ Join(p, Nothing) /\ UNCHANGED <<ident, socket, removals>>
  <2>1. /\ current' \in [Ids -> Processes \cup {None}]
        /\ known' \in [Ids -> Processes \cup {None}] /\ replaced' \subseteq Processes
        /\ \A i \in Ids, q \in Processes : current'[i] = q => current[i] = q \/ q = p
    BY <1>9, <1>11, Joining
  <2>2. PICK more : /\ Sends(more, {})
                    /\ \A q \in Processes : q # p => more[q] = Nothing[q]
                    /\ \A q \in Processes : ToSet(Nothing[q]) \subseteq ToSet(more[q])
                    /\ NoSettings(Nothing) => NoSettings(more)
                    /\ \A q \in Processes : \A x \in ToSet(more[q]) :
                         x.type \in TaskTypes => x \in ToSet(Nothing[q])
    BY <1>9, <1>11, Joining
  <2>3. toRunner' \in [Processes -> Seq(ToRunner)]
    BY <2>2, Sent DEF IInv
  <2>4. TypeOK'
    BY <1>1, <1>6, <1>7, <1>11, <2>1, <2>3 DEF IInv, TypeOK
  <2>5. ~Newcomer(p)'
    BY <1>4, <1>5, <1>6, <1>11, EmptyToSet DEF Newcomer
  <2>6. NewcomersAreFresh'
    <3>1. removals' \subseteq removals /\ UNCHANGED <<ident, life, offering, made>>
      BY <1>6, <1>11
    <3>2. /\ Sends(more, {}) /\ ToCurrent(Nothing)
          /\ \A q \in Processes : q # p => more[q] = Nothing[q]
      BY <1>9, <2>2
    <3> QED BY <1>1, <1>3, <2>1, <2>4, <2>5, <3>1, <3>2, FreshJoined
  <2>7. RoutesAgree'
    <3>1. /\ current' = [current EXCEPT ![ident[p]] = p]
          /\ known' = [known EXCEPT ![ident[p]] = p]
          /\ replaced' = replaced \cup ({current[ident[p]]} \ {None})
      BY <1>11 DEF Join
    <3>2. /\ removals' \subseteq removals
          /\ \A d \in removals \ removals' : d.tasks \cap tasks' = {}
          /\ tasks' \subseteq tasks /\ ident' = ident /\ made' = made
      BY <1>6, <1>11
    <3> QED BY <1>3, <3>1, <3>2, RoutesJoined
  <2>8. Steady
    BY <1>3, <1>6, <1>11, <2>1 DEF Steady
  <2>9. RunnersRest
    BY <1>6, <1>11 DEF RunnersRest
  <2>10. NoSettings(more)
    BY <1>9, <2>2
  <2> QED BY <1>1, <2>2, <2>4, <2>6, <2>7, <2>8, <2>9, <2>10, QuietTurn
<1>12. CASE /\ current[ident[p]] # None /\ Disconnect({ident[p]}, p)
            /\ UNCHANGED <<ident, known, replaced, toRunner>>
  <2> DEFINE is == {ident[p]}
  <2>1. is \in SUBSET Ids /\ \A i \in is : current[i] # None
    BY <1>10, <1>12
  <2>2. /\ removals' = removals \cup {Removal(i, p) : i \in is}
        /\ current' = [i \in Ids |-> IF i \in is THEN None ELSE current[i]]
        /\ socket' \in [Processes -> {"none", "open", "closing", "closed"}]
        /\ \A q \in Processes : socket'[q] = "open" => socket[q] = "open"
    BY <1>12, Closing DEF IInv
  <2>3. removals' = removals \cup {Removal(ident[p], p)}
    BY <2>2
  <2> HIDE DEF is
  <2>4. /\ removals' \subseteq RemovalRecords
        /\ current' \in [Ids -> Processes \cup {None}]
        /\ \A i \in Ids, q \in Processes : current'[i] = q => current[i] = q /\ i \notin is
    BY <2>1, <2>2, Disconnecting
  <2>5. TypeOK'
    BY <1>1, <1>6, <1>7, <1>12, <2>2, <2>4 DEF IInv, TypeOK
  <2>6. RoutesAgree'
    BY <1>6, <1>12, <2>1, <2>2, RoutesCut
  <2>7. NewcomersAreFresh'
    <3>1. Removal(ident[p], p).next = p /\ Removal(ident[p], p).id = ident[p]
      BY DEF Removal
    <3>2. \A q \in Processes : Newcomer(q)' => Newcomer(q)
      BY <1>3, <1>6, <2>3, <3>1 DEF InboxShrinks, Newcomer
    <3>3. \A q \in Processes : Newcomer(q)' =>
            /\ made'[q] = 0 /\ ~offering'[q] /\ toRunner'[q] = <<>>
            /\ \A i \in Ids : current'[i] # q
      BY <1>6, <1>12, <2>4, <3>2, NewcomersAre
    <3>4. \A q \in Processes : Newcomer(q)' => toBroker'[q] = <<>> \/ toBroker'[q] = <<InfoFrame>>
      BY <1>1, <3>2, NewcomersAre, ShortInbox
    <3>5. \A q \in Processes : life'[q] = "unborn" => toBroker'[q] = <<>>
      BY <1>1, <1>6, ShortInbox DEF IInv, NewcomersAreFresh
    <3>6. \A d \in removals : d.next # None => d.next \in Processes
      BY DEF IInv, TypeOK, RemovalRecords
    <3>7. ASSUME NEW d \in removals', d.next # None
          PROVE  life'[d.next] # "unborn" /\ toBroker'[d.next] = <<>> /\ ident'[d.next] = d.id
      <4>1. CASE d \in removals
        BY <1>1, <1>6, <1>12, <3>6, <3>7, <4>1, ShortInbox DEF IInv, NewcomersAreFresh
      <4>2. CASE d = Removal(ident[p], p)
        BY <1>4, <1>5, <1>6, <1>12, <3>1, <4>2
      <4> QED BY <2>3, <4>1, <4>2
    <3>8. \A d, e \in removals' : d.next # None /\ d.next = e.next => d = e
      BY <1>5, <2>3, <3>1 DEF IInv, NewcomersAreFresh
    <3> QED BY <3>3, <3>4, <3>5, <3>7, <3>8 DEF NewcomersAreFresh
  <2>8. Steady
    BY <1>6, <1>12, <2>2, <2>4 DEF Steady
  <2>9. RunnersRest
    BY <1>6, <1>12 DEF RunnersRest
  <2>10. Sends(Nothing, {})
    BY <1>12, SendsNothing DEF IInv
  <2> QED BY <1>1, <1>9, <2>5, <2>6, <2>7, <2>8, <2>9, <2>10, QuietTurn
<1> QED BY <1>11, <1>12 DEF RunnerInfo

-----------------------------------------------------------------------------
(* Frames of registered connections.                                       *)

\* The frame m of connection p is heard.
Heard(p, m) ==
  /\ toBroker[p] # <<>> /\ m = Head(toBroker[p])
  /\ toBroker' = [toBroker EXCEPT ![p] = Tail(@)]
  /\ current[ident[p]] = p
  /\ UNCHANGED <<processVars, ran, closing, killed, faults>> /\ UNCHANGED routeVars

LEMMA HeardIs ==
  ASSUME IInv, NEW p \in Processes, NEW m, Heard(p, m)
  PROVE  /\ InboxShrinks /\ toBroker' \in [Processes -> Seq(ToBroker)] /\ RunnersRest
         /\ m \in ToSet(toBroker[p]) /\ (Once(toBroker[p], m) => m \notin ToSet(toBroker'[p]))
         /\ m.type # "info" => m.task \in Offers /\ m = Msg(m.type, m.task)
         /\ UNCHANGED <<life, offering, draining, openOffers, made, work>>
         /\ UNCHANGED <<ran, closing, killed, faults>>
         /\ UNCHANGED routeVars /\ current[ident[p]] = p
<1>1. /\ InboxShrinks /\ toBroker' \in [Processes -> Seq(ToBroker)]
      /\ m \in ToSet(toBroker[p]) /\ m \in ToBroker
      /\ Once(toBroker[p], m) => m \notin ToSet(toBroker'[p])
  BY InboxRead DEF Heard
<1>2. m.type # "info" => m.task \in Offers /\ m = Msg(m.type, m.task)
  BY <1>1, MessagesAre
<1>3. /\ UNCHANGED <<life, offering, draining, openOffers, made, work>>
      /\ UNCHANGED <<ran, closing, killed, faults>>
      /\ UNCHANGED routeVars /\ ident' = ident /\ current[ident[p]] = p
  BY DEF Heard, processVars, routeVars
<1> QED BY <1>1, <1>2, <1>3 DEF RunnersRest

LEMMA FrameIgnored ==
  ASSUME IInv, NEW p \in Processes, toBroker[p] # <<>>,
         toBroker' = [toBroker EXCEPT ![p] = Tail(@)],
         UNCHANGED <<processVars, ran, closing, killed, faults>>, UNCHANGED routeVars,
         UNCHANGED <<matchVars, toRunner, missed, tasks, request>>
  PROVE  IInv'
<1>1. InboxShrinks /\ toBroker' \in [Processes -> Seq(ToBroker)]
  BY InboxRead
<1>2. /\ UNCHANGED <<life, offering, draining, openOffers, made, work>>
      /\ UNCHANGED <<pool, pending, accepting, deferred, taskFor>>
      /\ UNCHANGED <<ident, socket, current, known, removals, replaced>>
  BY DEF processVars, matchVars, routeVars
<1>3. TypeOK'
  BY <1>1, <1>2 DEF IInv, TypeOK
<1>4. Sends(Nothing, {}) /\ ToCurrent(Nothing) /\ NoSettings(Nothing)
  BY SendsNothing DEF IInv
<1>5. Steady /\ NewcomersAreFresh' /\ RoutesAgree'
  BY <1>1, <1>2, <1>3, <1>4, RoutesRest
<1>6. RunnersRest
  BY <1>2 DEF RunnersRest
<1> QED BY <1>1, <1>3, <1>4, <1>5, <1>6, QuietTurn

LEMMA OfferedKeeps ==
  ASSUME IInv, NEW p \in Processes, NEW f, Heard(p, f), f.type = "offer", Offered(f.task)
  PROVE  IInv'
<1>1. /\ InboxShrinks /\ toBroker' \in [Processes -> Seq(ToBroker)] /\ RunnersRest
      /\ f \in ToSet(toBroker[p]) /\ (Once(toBroker[p], f) => f \notin ToSet(toBroker'[p]))
      /\ f.type # "info" => f.task \in Offers /\ f = Msg(f.type, f.task)
      /\ UNCHANGED <<life, offering, draining, openOffers, made, work>>
      /\ UNCHANGED <<ran, closing, killed, faults>>
      /\ UNCHANGED routeVars
  BY HeardIs
<1>2. PICK o \in Offers : o = f.task /\ f = Msg("offer", o)
  BY <1>1
<1>3. /\ Owner(o) = p /\ Made(o) /\ taskFor[o] = None /\ o \notin ToSet(pool)
      /\ Once(toBroker[p], f)
  BY <1>1, <1>2 DEF IInv, FramesMatched
<1> DEFINE m == [Matching EXCEPT !.pool = Append(@, o)]
           n == Settle(m)
<1>4. Become(n) /\ deferred' = {} /\ UNCHANGED <<missed, tasks, request>>
  BY <1>2 DEF Offered, Settled
<1>5. m = [pool |-> Append(pool, o), pending |-> pending, accepting |-> accepting,
           taskFor |-> taskFor, out |-> Nothing]
  BY DEF Matching
<1> HIDE DEF m
<1>6. /\ m.pool = Append(pool, o) /\ m.pending = pending /\ m.accepting = accepting
      /\ m.taskFor = taskFor /\ m.out = Nothing
  BY <1>5
<1>7. /\ pool \in Seq(Offers) /\ pending \in Seq(Requests) /\ accepting \in Seq(Offers)
      /\ taskFor \in [Offers -> Requests \cup {None}]
      /\ IsInjective(pool) /\ IsInjective(accepting) /\ IsInjective(pending)
      /\ \A x \in ToSet(pool) : taskFor[x] = None /\ Made(x)
      /\ \A x \in ToSet(accepting) : taskFor[x] # None
      /\ Nothing \in [Processes -> Seq(ToRunner)]
  BY DEF IInv, TypeOK, OffersOnce, RequestsKept, Nothing
<1>8. /\ Append(pool, o) \in Seq(Offers) /\ IsInjective(Append(pool, o))
      /\ ToSet(Append(pool, o)) = ToSet(pool) \cup {o}
  BY <1>3, <1>7, JoinedAtEnd
<1>9. Sound(m)
  <2>1. m \in MatchingRecords
    BY <1>5, <1>7, <1>8 DEF MatchingRecords
  <2>2. \A x \in ToSet(m.pool) : taskFor[x] = None
    BY <1>3, <1>6, <1>7, <1>8
  <2> QED BY <1>6, <1>7, <1>8, <2>1, <2>2 DEF Sound
<1>10. Sound(n) /\ AllServed(n)
  BY <1>9, Settling
<1> DEFINE gone == {}
<1>11. PICK new \in SUBSET Offers : Rematched(m, n, gone, new)
  BY <1>9, Settling
<1> HIDE DEF n, gone
<1>12. Becomes(n) /\ Send(n.out)
  BY <1>4 DEF Become, Becomes
<1>13. \A x \in ToSet(m.pool) :
         Made(x) /\ \A q \in Processes : Msg("offer", x) \notin ToSet(toBroker'[q])
  <2>1. ASSUME NEW x \in ToSet(pool), NEW q \in Processes
        PROVE  Msg("offer", x) \notin ToSet(toBroker'[q])
    BY <1>1, OffersAre DEF IInv, FramesMatched, InboxShrinks
  <2>2. ASSUME NEW q \in Processes
        PROVE  Msg("offer", o) \notin ToSet(toBroker'[q])
    <3>1. CASE q = p
      BY <1>1, <1>2, <1>3, <3>1
    <3>2. CASE q # p
      BY <1>1, <1>3, <3>2, OffersAre DEF IInv, FramesMatched, InboxShrinks
    <3> QED BY <3>1, <3>2
  <2> QED BY <1>3, <1>6, <1>7, <1>8, <2>1, <2>2
<1>14. /\ \A q \in Processes : \A x \in ToSet(m.out[q]) :
            /\ x.type \notin {"accept", "settings"}
            /\ x.type \in TaskTypes => taskFor[x.task] # None /\ IdOf(x.task) = ident[q]
       /\ ToCurrent(m.out)
  BY <1>6, EmptyToSet DEF ToCurrent, Nothing
<1>15. /\ Matches(new) /\ Fits(n.out, new) /\ ToCurrent(n.out) /\ NoSettings(n.out)
       /\ \A q \in Processes : \A x \in Offers :
            Msg("accept", x) \in ToSet(n.out[q]) => x \in ToSet(accepting')
       /\ OffersOnce'
       /\ pool' \in Seq(Offers) /\ pending' \in Seq(Requests) /\ accepting' \in Seq(Offers)
       /\ taskFor' \in [Offers -> Requests \cup {None}]
       /\ pending' = m.pending /\ IsInjective(pending')
       /\ ToSet(accepting') = (ToSet(m.accepting) \ gone) \cup new
       /\ \A x \in tasks : taskFor'[x] = taskFor[x]
  <2>1. Rematched(m, n, gone, new) /\ Becomes(n) /\ InboxShrinks /\ made' = made
    BY <1>1, <1>11, <1>12
  <2>2. m.taskFor = taskFor
    BY <1>6
  <2> QED BY <1>9, <1>10, <1>13, <1>14, <2>1, <2>2, RoundOfMatching
<1>16. Sends(n.out, new) /\ toRunner' \in [Processes -> Seq(ToRunner)]
  BY <1>12, <1>15, Sent DEF Sends, IInv
<1>17. TypeOK'
  BY <1>1, <1>4, <1>15, <1>16 DEF IInv, TypeOK, routeVars
<1>18. RequestsKept'
  BY <1>4, <1>6, <1>15, RequestsUntouched
<1>19. Served'
  BY <1>4, <1>10, <1>12, ServedKept
<1>20. Steady /\ NewcomersAreFresh' /\ RoutesAgree'
  BY <1>1, <1>4, <1>15, <1>16, <1>17, RoutesRest
<1>21. SettingsOnce'
  BY <1>1, <1>4, <1>15, <1>16, SettingsKept DEF NoSettings
<1>22. SlotsSeenTo(n.out)
  <2>1. ToSet(accepting) \subseteq ToSet(accepting')
    BY <1>6, <1>15 DEF gone
  <2> QED BY <1>4, <1>15, <2>1, OffersAre DEF SlotsSeenTo
<1> QED
  BY <1>1, <1>15, <1>16, <1>17, <1>18, <1>19, <1>20, <1>21, <1>22, BrokerTurn

\* What an answer says of the runner it comes from.
LEMMA AnswerHeard ==
  ASSUME IInv, NEW p \in Processes, NEW f, Heard(p, f), f.type \in Answers
  PROVE  /\ f.task \in Offers /\ f = Msg(f.type, f.task)
         /\ IdOf(f.task) = ident[p] /\ current[IdOf(f.task)] = p
         /\ f.type # "rejected" => Owner(f.task) = p
         /\ Owner(f.task) = p => Msg("accept", f.task) \notin ToSet(toRunner[p])
         /\ Owner(f.task) = p /\ f.type # "accepted" => work[f.task] = "none"
         /\ Attended(Owner(f.task)) => Owner(f.task) = p
<1>1. /\ f \in ToSet(toBroker[p]) /\ current[ident[p]] = p
      /\ f.type # "info" => f.task \in Offers /\ f = Msg(f.type, f.task)
  BY HeardIs
<1>2. f.type # "info"
  BY DEF Answers
<1>3. /\ IdOf(f.task) = ident[p]
      /\ f.type # "rejected" => Owner(f.task) = p
  BY <1>1 DEF IInv, FramesMatched
<1>4. ASSUME Owner(f.task) = p
      PROVE  /\ Msg("accept", f.task) \notin ToSet(toRunner[p])
             /\ f.type # "accepted" => work[f.task] = "none"
  <2>1. PICK o \in Offers : o = f.task
    BY <1>1, <1>2
  <2>2. Msg(f.type, o) \in ToSet(toBroker[p]) /\ Owner(o) = p
    BY <1>1, <1>2, <1>4, <2>1
  <2>3. Msg("accept", o) \notin ToSet(toRunner[p])
    BY <2>2 DEF IInv, AcceptedOnce
  <2>4. f.type # "accepted" => work[o] = "none"
    BY <2>2 DEF IInv, AcceptedOnce
  <2> QED BY <2>1, <2>3, <2>4
<1>5. Attended(Owner(f.task)) => Owner(f.task) = p
  BY <1>1, <1>2, <1>3, AttendedReachable
<1> QED BY <1>1, <1>2, <1>3, <1>4, <1>5

LEMMA CountCleared ==
  ASSUME IInv, NEW o \in Offers, Answered(o)
  PROVE  missed' \in [Ids -> 0..(AcceptTimeoutLimit - 1)]
<1>1. missed \in [Ids -> 0..(AcceptTimeoutLimit - 1)]
  BY DEF IInv, TypeOK
<1>2. 0 \in 0..(AcceptTimeoutLimit - 1)
  BY LimitIsPositive
<1>3. missed' = [missed EXCEPT ![IdOf(o)] = 0]
  BY DEF Answered
<1> QED BY <1>1, <1>2, <1>3

LEMMA RejectedKeeps ==
  ASSUME IInv, NEW p \in Processes, NEW f, Heard(p, f), f.type = "rejected", Rejected(f.task)
  PROVE  IInv'
<1>1. /\ InboxShrinks /\ toBroker' \in [Processes -> Seq(ToBroker)] /\ RunnersRest
      /\ UNCHANGED <<life, offering, draining, openOffers, made, work>>
      /\ UNCHANGED <<ran, closing, killed, faults>>
      /\ UNCHANGED routeVars
  BY HeardIs
<1>2. PICK o \in Offers :
        /\ o = f.task
        /\ Owner(o) = p => Msg("accept", o) \notin ToSet(toRunner[p]) /\ work[o] = "none"
        /\ Attended(Owner(o)) => Owner(o) = p
  BY AnswerHeard DEF Answers
<1> DEFINE m == Matching
           n == Reject(m, o)
           gone == {o}
<1>3. Become(n) /\ deferred' = {} /\ UNCHANGED <<tasks, request>> /\ Answered(o)
  BY <1>2 DEF Rejected
<1>4. missed' \in [Ids -> 0..(AcceptTimeoutLimit - 1)]
  BY <1>3, CountCleared
<1>5. /\ Sound(m) /\ m.pool = pool /\ m.pending = pending /\ m.accepting = accepting
      /\ m.taskFor = taskFor /\ m.out = [q \in Processes |-> <<>>]
  BY NowSound
<1> HIDE DEF m
<1>6. Sound(n) /\ AllServed(n)
  BY <1>5, Rejecting
<1>7. PICK new \in SUBSET Offers : Rematched(m, n, gone, new)
  BY <1>5, Rejecting
<1> HIDE DEF n, gone
<1>8. Becomes(n) /\ Send(n.out)
  BY <1>3 DEF Become, Becomes
<1>9. \A x \in ToSet(m.pool) :
        Made(x) /\ \A q \in Processes : Msg("offer", x) \notin ToSet(toBroker'[q])
  <2>1. ASSUME NEW x \in ToSet(pool), NEW q \in Processes
        PROVE  Msg("offer", x) \notin ToSet(toBroker'[q])
    <3>1. ASSUME Msg("offer", x) \in ToSet(toBroker[q])
          PROVE  FALSE
      <4>1. Msg("offer", x).type = "offer" /\ Msg("offer", x).task = x
        BY OffersAre
      <4>2. Msg("offer", x).task \notin ToSet(pool)
        BY <3>1, <4>1 DEF IInv, FramesMatched
      <4> QED BY <4>1, <4>2
    <3> QED BY <1>1, <3>1 DEF InboxShrinks
  <2>2. \A x \in ToSet(pool) : Made(x)
    BY DEF IInv, OffersOnce
  <2> QED BY <1>5, <2>1, <2>2
<1>10. /\ \A q \in Processes : \A x \in ToSet(m.out[q]) :
            /\ x.type \notin {"accept", "settings"}
            /\ x.type \in TaskTypes => taskFor[x.task] # None /\ IdOf(x.task) = ident[q]
       /\ ToCurrent(m.out)
  BY <1>5, EmptyToSet DEF ToCurrent
<1>11. /\ Matches(new) /\ Fits(n.out, new) /\ ToCurrent(n.out) /\ NoSettings(n.out)
       /\ \A q \in Processes : \A x \in Offers :
            Msg("accept", x) \in ToSet(n.out[q]) => x \in ToSet(accepting')
       /\ OffersOnce'
       /\ pool' \in Seq(Offers) /\ pending' \in Seq(Requests) /\ accepting' \in Seq(Offers)
       /\ taskFor' \in [Offers -> Requests \cup {None}]
       /\ pending' = m.pending /\ IsInjective(pending')
       /\ ToSet(accepting') = (ToSet(m.accepting) \ gone) \cup new
       /\ \A x \in tasks : taskFor'[x] = taskFor[x]
  <2>1. Rematched(m, n, gone, new) /\ Becomes(n) /\ InboxShrinks /\ made' = made
    BY <1>1, <1>7, <1>8
  <2>2. m.taskFor = taskFor
    BY <1>5
  <2> QED BY <1>5, <1>6, <1>9, <1>10, <2>1, <2>2, RoundOfMatching
<1>12. Sends(n.out, new) /\ toRunner' \in [Processes -> Seq(ToRunner)]
  BY <1>8, <1>11, Sent DEF Sends, IInv
<1>13. TypeOK'
  BY <1>1, <1>3, <1>4, <1>11, <1>12 DEF IInv, TypeOK, routeVars
<1>14. RequestsKept'
  BY <1>3, <1>5, <1>11, RequestsUntouched
<1>15. Served'
  BY <1>3, <1>6, <1>8, ServedKept
<1>16. Steady /\ NewcomersAreFresh' /\ RoutesAgree'
  BY <1>1, <1>3, <1>11, <1>12, <1>13, RoutesRest
<1>17. SettingsOnce'
  BY <1>1, <1>3, <1>11, <1>12, SettingsKept DEF NoSettings
<1>18. SlotsSeenTo(n.out)
  <2>1. ToSet(accepting) \ ToSet(accepting') \subseteq {o}
    BY <1>5, <1>11 DEF gone
  <2> QED BY <1>2, <1>3, <1>11, <2>1, OffersAre DEF SlotsSeenTo
<1> QED
  BY <1>1, <1>11, <1>12, <1>13, <1>14, <1>15, <1>16, <1>17, <1>18, BrokerTurn

\* An acceptance is over, and the pool is left alone.
LEMMA AcceptanceOver ==
  ASSUME IInv, NEW o \in Offers, Answered(o), accepting' = Without(accepting, o),
         UNCHANGED <<pool, taskFor, made>>
  PROVE  /\ accepting' \in Seq(Offers) /\ ToSet(accepting') = ToSet(accepting) \ {o}
         /\ OffersOnce' /\ (InboxShrinks => Matches({}))
         /\ o \in ToSet(accepting) /\ taskFor[o] \in Requests
         /\ \A r : r # taskFor[o] => (AcceptInProgress(Matching, r)
                                        => AcceptInProgress(Matching, r)')
<1>1. accepting \in Seq(Offers) /\ IsInjective(accepting) /\ IsInjective(pool)
  BY DEF IInv, TypeOK, OffersOnce
<1>2. /\ accepting' \in Seq(Offers) /\ IsInjective(accepting')
      /\ ToSet(accepting') = ToSet(accepting) \ {o}
  BY <1>1, WithoutOne
<1>3. OffersOnce'
  BY <1>1, <1>2, OffersUntouched
<1>4. InboxShrinks => Matches({})
  BY NothingMatched
<1>5. o \in ToSet(accepting) /\ taskFor[o] \in Requests
  BY TasksAreMatched DEF Answered
<1>6. \A r : AcceptInProgress(Matching, r) <=> \E x \in ToSet(accepting) : taskFor[x] = r
  <2>1. Matching.accepting = accepting /\ Matching.taskFor = taskFor
    BY DEF Matching
  <2> QED BY <1>1, <2>1, InProgress
<1>7. \A r : AcceptInProgress(Matching, r)' <=> \E x \in ToSet(accepting') : taskFor'[x] = r
  <2>1. DOMAIN accepting' = 1..Len(accepting')
    BY <1>2
  <2> QED BY <2>1 DEF Matching, AcceptInProgress, ToSet
<1>8. \A r : r # taskFor[o] => (AcceptInProgress(Matching, r) => AcceptInProgress(Matching, r)')
  BY <1>2, <1>6, <1>7
<1> QED BY <1>2, <1>3, <1>4, <1>5, <1>8

LEMMA DeferredKeeps ==
  ASSUME IInv, NEW p \in Processes, NEW f, Heard(p, f), f.type = "deferred", Deferred(f.task)
  PROVE  IInv'
<1>1. /\ InboxShrinks /\ toBroker' \in [Processes -> Seq(ToBroker)] /\ RunnersRest
      /\ UNCHANGED <<life, offering, draining, openOffers, made, work>>
      /\ UNCHANGED <<ran, closing, killed, faults>>
      /\ UNCHANGED routeVars
  BY HeardIs
<1>2. PICK o \in Offers :
        /\ o = f.task /\ Owner(o) = p
        /\ Msg("accept", o) \notin ToSet(toRunner[p]) /\ work[o] = "none"
  BY AnswerHeard DEF Answers
<1>3. /\ Answered(o) /\ accepting' = Without(accepting, o)
      /\ deferred' = deferred \cup {taskFor[o]}
      /\ UNCHANGED <<pool, pending, taskFor, toRunner, tasks, request>>
  BY <1>2 DEF Deferred
<1>4. missed' \in [Ids -> 0..(AcceptTimeoutLimit - 1)]
  BY <1>3, CountCleared
<1>5. /\ accepting' \in Seq(Offers) /\ ToSet(accepting') = ToSet(accepting) \ {o}
      /\ OffersOnce' /\ Matches({}) /\ taskFor[o] \in Requests
      /\ \A r : r # taskFor[o] => (AcceptInProgress(Matching, r)
                                     => AcceptInProgress(Matching, r)')
  BY <1>1, <1>3, AcceptanceOver
<1>6. Sends(Nothing, {}) /\ ToCurrent(Nothing) /\ NoSettings(Nothing)
  BY <1>3, SendsNothing DEF IInv
<1>7. TypeOK'
  BY <1>1, <1>3, <1>4, <1>5 DEF IInv, TypeOK, routeVars
<1>8. IsInjective(pending') /\ ToSet(pending') = ToSet(pending)
  BY <1>3 DEF IInv, RequestsKept
<1>9. RequestsKept'
  BY <1>3, <1>8, RequestsUntouched
<1>10. Served'
  BY <1>3, <1>5 DEF IInv, Served
<1>11. Steady /\ NewcomersAreFresh' /\ RoutesAgree'
  BY <1>1, <1>3, <1>6, <1>7, RoutesRest
<1>12. SettingsOnce'
  BY <1>1, <1>3, <1>5, <1>6, SettingsKept DEF NoSettings
<1>13. SlotsSeenTo(Nothing)
  BY <1>2, <1>3, <1>5, EmptyToSet, OffersAre DEF SlotsSeenTo, Nothing
<1> QED
  BY <1>1, <1>5, <1>6, <1>7, <1>9, <1>10, <1>11, <1>12, <1>13, BrokerTurn

LEMMA FinishedKeeps ==
  ASSUME IInv, NEW p \in Processes, NEW f, Heard(p, f), f.type = "finished", Finished(f.task)
  PROVE  IInv'
<1>1. /\ InboxShrinks /\ toBroker' \in [Processes -> Seq(ToBroker)]
      /\ UNCHANGED <<life, offering, draining, openOffers, made, work>>
      /\ UNCHANGED <<ran, closing, killed, faults>>
      /\ UNCHANGED routeVars
  BY HeardIs
<1>2. PICK o \in Offers : o = f.task /\ Owner(o) = p /\ work[o] = "none"
  BY AnswerHeard DEF Answers
<1>3. /\ o \in tasks /\ Untrack({o}, "answered") /\ UNCHANGED <<matchVars, toRunner, missed>>
  BY <1>2 DEF Finished
<1>4. missed' \in [Ids -> 0..(AcceptTimeoutLimit - 1)] /\ killed' \subseteq Processes
  BY <1>1, <1>3 DEF IInv, TypeOK
<1>5. Sends(Nothing, {}) /\ ToCurrent(Nothing) /\ NoSettings(Nothing)
  BY <1>3, SendsNothing DEF IInv
<1> QED BY <1>1, <1>2, <1>3, <1>4, <1>5, UntrackKeeps

\* The settings of a request that is taken over are the only ones.
LEMMA FirstSettings ==
  ASSUME IInv, NEW o \in Offers, NEW r \in Requests, r = taskFor[o], request[r] = "waiting",
         request' = [request EXCEPT ![r] = "running"], ran' = ran, taskFor' = taskFor,
         NEW i \in Ids, Send(ToId(i, Msg("settings", o)))
  PROVE  SettingsOnce'
<1> DEFINE out == ToId(i, Msg("settings", o))
           s == Msg("settings", o)
<1>1. "settings" \in TaskTypes /\ r # None
  BY Unmatched DEF TaskTypes
<1>2. /\ out \in [Processes -> Seq(ToRunner)]
      /\ \A p \in Processes : out[p] = IF Delivers(i, p) THEN <<s>> ELSE <<>>
      /\ \A p, q \in Processes : Delivers(i, p) /\ Delivers(i, q) => p = q
  BY <1>1, SentToId DEF ToId, Delivers
<1>3. \A p \in Processes : toRunner'[p] = toRunner[p] \o out[p] /\ toRunner[p] \in Seq(ToRunner)
  BY ChannelTypes DEF IInv, Send
<1>4. s.type = "settings" /\ s.task = o
  BY OffersAre
<1> HIDE DEF out, s
<1>5. ASSUME NEW p \in Processes, NEW k \in DOMAIN toRunner'[p]
      PROVE  \/ k \in DOMAIN toRunner[p] /\ toRunner'[p][k] = toRunner[p][k]
             \/ Delivers(i, p) /\ k = Len(toRunner[p]) + 1 /\ toRunner'[p][k] = s
  <2>1. toRunner[p] \in Seq(ToRunner) /\ out[p] \in Seq(ToRunner) /\ Len(toRunner[p]) \in Nat
    BY <1>2, <1>3
  <2>2. toRunner'[p] = toRunner[p] \o out[p]
    BY <1>3
  <2>3. \/ k \in DOMAIN toRunner[p] /\ toRunner'[p][k] = toRunner[p][k]
        \/ /\ k \notin DOMAIN toRunner[p] /\ k - Len(toRunner[p]) \in DOMAIN out[p]
           /\ toRunner'[p][k] = out[p][k - Len(toRunner[p])]
           /\ toRunner'[p][k] \in ToSet(out[p])
    BY <2>1, <2>2, PlaceInConcat
  <2>4. k \in Int
    <3>1. toRunner'[p] \in Seq(ToRunner)
      BY <2>1, <2>2, Concatenated
    <3> QED BY <3>1
  <2>5. CASE Delivers(i, p)
    <3>1. out[p] = <<s>>
      BY <1>2, <2>5
    <3>2. DOMAIN out[p] = {1} /\ out[p][1] = s
      BY <3>1
    <3>3. k - Len(toRunner[p]) = 1 => k = Len(toRunner[p]) + 1
      BY <2>1, <2>4
    <3> QED BY <2>3, <2>5, <3>2, <3>3
  <2>6. CASE ~Delivers(i, p)
    <3>1. ToSet(out[p]) = {}
      BY <1>2, <2>6, EmptyToSet
    <3> QED BY <2>3, <3>1
  <2> QED BY <2>5, <2>6
<1>6. request[r] \notin Begun /\ ran[r] = 0
  BY DEF Begun, IInv, SettingsOnce
<1>7. /\ request'[r] \in Begun
      /\ \A q \in Requests : q # r => request'[q] = request[q]
      /\ \A q : request[q] \in Begun => q # r
  BY <1>6 DEF IInv, TypeOK, Begun
<1>8. ASSUME NEW p \in Processes, NEW k \in DOMAIN toRunner[p], toRunner[p][k].type = "settings"
      PROVE  /\ taskFor[toRunner[p][k].task] \in Requests /\ taskFor[toRunner[p][k].task] # r
             /\ request[taskFor[toRunner[p][k].task]] \in Begun
             /\ ran[taskFor[toRunner[p][k].task]] = 0
  <2>1. toRunner[p][k] \in ToSet(toRunner[p]) /\ toRunner[p][k] \in ToRunner
    <3>1. toRunner[p] \in Seq(ToRunner)
      BY <1>3
    <3> QED BY <3>1, ToSetMembers
  <2>2. toRunner[p][k].task \in Offers /\ taskFor[toRunner[p][k].task] # None
    BY <1>1, <1>8, <2>1, MessagesAre DEF IInv, FramesMatched
  <2>3. taskFor[toRunner[p][k].task] \in Requests
    BY <2>2 DEF IInv, TypeOK
  <2>4. /\ request[taskFor[toRunner[p][k].task]] \in Begun
        /\ ran[taskFor[toRunner[p][k].task]] = 0
    BY <1>8 DEF IInv, SettingsOnce
  <2> QED BY <1>7, <2>3, <2>4
<1>9. ASSUME NEW p \in Processes, NEW k \in DOMAIN toRunner'[p],
             toRunner'[p][k].type = "settings"
      PROVE  /\ request'[taskFor'[toRunner'[p][k].task]] \in Begun
             /\ ran'[taskFor'[toRunner'[p][k].task]] = 0
  BY <1>4, <1>5, <1>6, <1>7, <1>8, <1>9
<1>10. ASSUME NEW p \in Processes, NEW q \in Processes,
              NEW k \in DOMAIN toRunner'[p], NEW l \in DOMAIN toRunner'[q],
              toRunner'[p][k].type = "settings", toRunner'[q][l].type = "settings",
              taskFor'[toRunner'[p][k].task] = taskFor'[toRunner'[q][l].task]
       PROVE  p = q /\ k = l
  <2>1. CASE /\ k \in DOMAIN toRunner[p] /\ toRunner'[p][k] = toRunner[p][k]
             /\ l \in DOMAIN toRunner[q] /\ toRunner'[q][l] = toRunner[q][l]
    BY <1>10, <2>1 DEF IInv, SettingsOnce
  <2>2. CASE /\ Delivers(i, p) /\ k = Len(toRunner[p]) + 1
             /\ Delivers(i, q) /\ l = Len(toRunner[q]) + 1
    BY <1>2, <2>2
  <2>3. CASE /\ k \in DOMAIN toRunner[p] /\ toRunner'[p][k] = toRunner[p][k]
             /\ toRunner'[q][l] = s
    BY <1>4, <1>8, <1>10, <2>3
  <2>4. CASE /\ l \in DOMAIN toRunner[q] /\ toRunner'[q][l] = toRunner[q][l]
             /\ toRunner'[p][k] = s
    BY <1>4, <1>8, <1>10, <2>4
  <2> QED BY <1>5, <2>1, <2>2, <2>3, <2>4
<1>11. \A q \in Requests : ran'[q] # 0 => request'[q] \in Begun
  BY <1>6, <1>7 DEF IInv, SettingsOnce
<1> QED BY <1>9, <1>10, <1>11 DEF SettingsOnce

\* Before a runner's acceptance is settled: what every outcome shares.
LEMMA AcceptedIs ==
  ASSUME IInv, NEW p \in Processes, NEW f, Heard(p, f), f.type = "accepted", Accepted(f.task)
  PROVE  \E o \in Offers, r \in Requests :
           /\ o = f.task /\ Owner(o) = p /\ r = taskFor[o] /\ current[IdOf(o)] = p
           /\ Msg("accept", o) \notin ToSet(toRunner[p])
           /\ o \in ToSet(accepting) /\ OffersOnce' /\ Matches({})
           /\ accepting' \in Seq(Offers) /\ ToSet(accepting') = ToSet(accepting) \ {o}
           /\ pending' \in Seq(Requests) /\ IsInjective(pending')
           /\ ToSet(pending') = ToSet(pending) \ {r}
           /\ missed' \in [Ids -> 0..(AcceptTimeoutLimit - 1)]
           /\ UNCHANGED <<pool, deferred, taskFor>>
           /\ Served'
           /\ \/ /\ r \notin ToSet(pending)
                 /\ Send(ToId(IdOf(o), Msg("cancel", o))) /\ UNCHANGED <<tasks, request>>
              \/ /\ r \in ToSet(pending)
                 /\ tasks' = tasks \cup {o} /\ request' = [request EXCEPT ![r] = "running"]
                 /\ Send(ToId(IdOf(o), Msg("settings", o)))
              \/ /\ r \in ToSet(pending) /\ ~Reachable(IdOf(o))
                 /\ request' = [request EXCEPT ![r] = "answered"]
                 /\ UNCHANGED <<tasks, toRunner>>
<1>1. InboxShrinks /\ made' = made
  BY HeardIs
<1>2. PICK o \in Offers :
        /\ o = f.task /\ Owner(o) = p /\ current[IdOf(o)] = p
        /\ Msg("accept", o) \notin ToSet(toRunner[p])
  BY AnswerHeard DEF Answers
<1>3. /\ Answered(o) /\ accepting' = Without(accepting, o)
      /\ pending' = Without(pending, taskFor[o])
      /\ UNCHANGED <<pool, deferred, taskFor>>
      /\ \/ /\ taskFor[o] \notin ToSet(pending)
            /\ Send(ToId(IdOf(o), Msg("cancel", o))) /\ UNCHANGED <<tasks, request>>
         \/ /\ taskFor[o] \in ToSet(pending)
            /\ tasks' = tasks \cup {o} /\ request' = [request EXCEPT ![taskFor[o]] = "running"]
            /\ Send(ToId(IdOf(o), Msg("settings", o)))
         \/ /\ taskFor[o] \in ToSet(pending) /\ ~Reachable(IdOf(o))
            /\ request' = [request EXCEPT ![taskFor[o]] = "answered"]
            /\ UNCHANGED <<tasks, toRunner>>
  BY <1>2 DEF Accepted, Matched
<1>4. missed' \in [Ids -> 0..(AcceptTimeoutLimit - 1)]
  BY <1>3, CountCleared
<1>5. /\ accepting' \in Seq(Offers) /\ ToSet(accepting') = ToSet(accepting) \ {o}
      /\ OffersOnce' /\ Matches({}) /\ taskFor[o] \in Requests /\ o \in ToSet(accepting)
      /\ \A q : q # taskFor[o] => (AcceptInProgress(Matching, q)
                                     => AcceptInProgress(Matching, q)')
  BY <1>1, <1>3, AcceptanceOver
<1>6. pending \in Seq(Requests) /\ IsInjective(pending)
  BY DEF IInv, TypeOK, RequestsKept
<1>7. /\ pending' \in Seq(Requests) /\ IsInjective(pending')
      /\ ToSet(pending') = ToSet(pending) \ {taskFor[o]}
  BY <1>3, <1>6, WithoutOne
<1>8. Served'
  BY <1>3, <1>5, <1>7 DEF IInv, Served
<1>9. PICK r \in Requests : r = taskFor[o]
  BY <1>5
<1> QED BY <1>2, <1>3, <1>4, <1>5, <1>7, <1>8, <1>9

\* A request that waits is taken over as the task o, or answered for good.
LEMMA RequestMoves ==
  ASSUME IInv, NEW r \in ToSet(pending), NEW a \in {"running", "answered"},
         request' = [request EXCEPT ![r] = a], taskFor' = taskFor,
         IsInjective(pending'), ToSet(pending') = ToSet(pending) \ {r},
         \/ a = "answered" /\ tasks' = tasks
         \/ a = "running" /\ \E o \in Offers : taskFor[o] = r /\ tasks' = tasks \cup {o}
  PROVE  /\ RequestsKept'
         /\ request' \in [Requests -> {"new", "waiting", "running", "answered", "expired",
                                       "cancelled"}]
         /\ \A q \in Requests : request[q] \in Begun => request'[q] \in Begun
<1>1. r \in Requests /\ request[r] = "waiting"
  BY TasksAreMatched
<1>2. request \in [Requests -> {"new", "waiting", "running", "answered", "expired", "cancelled"}]
  BY DEF IInv, TypeOK
<1>3. request' \in [Requests -> {"new", "waiting", "running", "answered", "expired", "cancelled"}]
  BY <1>1, <1>2
<1>4. request'[r] = a /\ \A q \in Requests : q # r => request'[q] = request[q]
  BY <1>1, <1>2
<1>5. \A q \in Requests : request[q] \in Begun => request'[q] \in Begun
  BY <1>1, <1>4 DEF Begun
<1>6. ToSet(pending') = {q \in Requests : request'[q] = "waiting"}
  BY <1>1, <1>4 DEF IInv, RequestsKept
<1>7. \A x \in tasks : taskFor[x] \in Requests /\ taskFor[x] # r
                         /\ request[taskFor[x]] = "running"
  BY <1>1, TasksAreMatched DEF IInv, RequestsKept
<1>8. CASE a = "answered" /\ tasks' = tasks
  <2>1. \A x \in tasks' : taskFor'[x] # None /\ request'[taskFor'[x]] = "running"
    BY <1>4, <1>7, <1>8, Unmatched
  <2>2. \A x, y \in tasks' : taskFor'[x] = taskFor'[y] => x = y
    BY <1>8 DEF IInv, RequestsKept
  <2>3. \A q \in Requests : request'[q] = "running" => \E x \in tasks' : taskFor'[x] = q
    BY <1>4, <1>8 DEF IInv, RequestsKept
  <2> QED BY <1>3, <1>5, <1>6, <2>1, <2>2, <2>3 DEF RequestsKept
<1>9. ASSUME a = "running", NEW o \in Offers, taskFor[o] = r, tasks' = tasks \cup {o}
      PROVE  RequestsKept'
  <2>1. \A x \in tasks' : taskFor'[x] # None /\ request'[taskFor'[x]] = "running"
    BY <1>1, <1>4, <1>7, <1>9, Unmatched
  <2>2. \A x, y \in tasks' : taskFor'[x] = taskFor'[y] => x = y
    BY <1>7, <1>9 DEF IInv, RequestsKept
  <2>3. \A q \in Requests : request'[q] = "running" => \E x \in tasks' : taskFor'[x] = q
    BY <1>4, <1>9 DEF IInv, RequestsKept
  <2> QED BY <1>6, <2>1, <2>2, <2>3 DEF RequestsKept
<1> QED BY <1>3, <1>5, <1>8, <1>9

LEMMA AcceptedKeeps ==
  ASSUME IInv, NEW p \in Processes, NEW f, Heard(p, f), f.type = "accepted", Accepted(f.task)
  PROVE  IInv'
<1>1. /\ InboxShrinks /\ toBroker' \in [Processes -> Seq(ToBroker)] /\ RunnersRest
      /\ UNCHANGED <<life, offering, draining, openOffers, made, work>>
      /\ UNCHANGED <<ran, closing, killed, faults>>
      /\ UNCHANGED routeVars
  BY HeardIs
<1>2. PICK o \in Offers, r \in Requests :
        /\ o = f.task /\ Owner(o) = p /\ r = taskFor[o] /\ current[IdOf(o)] = p
        /\ Msg("accept", o) \notin ToSet(toRunner[p])
        /\ o \in ToSet(accepting) /\ OffersOnce' /\ Matches({})
        /\ accepting' \in Seq(Offers) /\ ToSet(accepting') = ToSet(accepting) \ {o}
        /\ pending' \in Seq(Requests) /\ IsInjective(pending')
        /\ ToSet(pending') = ToSet(pending) \ {r}
        /\ missed' \in [Ids -> 0..(AcceptTimeoutLimit - 1)]
        /\ UNCHANGED <<pool, deferred, taskFor>>
        /\ Served'
        /\ \/ /\ r \notin ToSet(pending)
              /\ Send(ToId(IdOf(o), Msg("cancel", o))) /\ UNCHANGED <<tasks, request>>
           \/ /\ r \in ToSet(pending)
              /\ tasks' = tasks \cup {o} /\ request' = [request EXCEPT ![r] = "running"]
              /\ Send(ToId(IdOf(o), Msg("settings", o)))
           \/ /\ r \in ToSet(pending) /\ ~Reachable(IdOf(o))
              /\ request' = [request EXCEPT ![r] = "answered"]
              /\ UNCHANGED <<tasks, toRunner>>
  BY AcceptedIs
<1>3. taskFor'[o] # None /\ IdOf(o) \in Ids
  BY <1>2, Unmatched, OffersAre DEF IInv, TypeOK, IdOf
<1>4. ASSUME NEW out, Sends(out, {}), ToCurrent(out), tasks' \subseteq Offers,
             request' \in [Requests -> {"new", "waiting", "running", "answered", "expired",
                                        "cancelled"}]
      PROVE  /\ TypeOK' /\ Steady /\ NewcomersAreFresh'
             /\ tasks' \subseteq tasks => RoutesAgree'
  <2>1. toRunner' \in [Processes -> Seq(ToRunner)]
    BY <1>4, Sent DEF IInv
  <2>2. TypeOK'
    BY <1>1, <1>2, <1>4, <2>1 DEF IInv, TypeOK, routeVars
  <2> QED BY <1>1, <1>4, <2>2, RoutesRest
<1>5. CASE /\ r \notin ToSet(pending)
           /\ Send(ToId(IdOf(o), Msg("cancel", o))) /\ UNCHANGED <<tasks, request>>
  <2> DEFINE out == ToId(IdOf(o), Msg("cancel", o))
  <2>1. /\ Sends(out, {}) /\ ToCurrent(out) /\ NoSettings(out)
        /\ Attended(Owner(o)) => Msg("cancel", o) \in ToSet(out[Owner(o)])
    BY <1>3, <1>5, CancelSent
  <2> HIDE DEF out
  <2>2. ToSet(pending') = ToSet(pending)
    BY <1>2, <1>5
  <2>3. RequestsKept'
    BY <1>2, <1>5, <2>2, RequestsUntouched
  <2>4. TypeOK' /\ Steady /\ NewcomersAreFresh' /\ RoutesAgree'
    BY <1>4, <1>5, <2>1 DEF IInv, TypeOK
  <2>5. SettingsOnce'
    BY <1>1, <1>2, <1>5, <2>1, SettingsKept DEF NoSettings
  <2>6. SlotsSeenTo(out)
    BY <1>2, <1>5, <2>1, OffersAre DEF SlotsSeenTo, Sends, Fits
  <2> QED BY <1>1, <1>2, <2>1, <2>3, <2>4, <2>5, <2>6, BrokerTurn
<1>6. CASE /\ r \in ToSet(pending)
           /\ tasks' = tasks \cup {o} /\ request' = [request EXCEPT ![r] = "running"]
           /\ Send(ToId(IdOf(o), Msg("settings", o)))
  <2> DEFINE out == ToId(IdOf(o), Msg("settings", o))
  <2>1. Sends(out, {}) /\ ToCurrent(out)
    <3>1. "settings" \in TaskTypes \ {"accept"}
      BY DEF TaskTypes
    <3>2. Sends(out, {})
      BY <1>3, <1>6, <3>1, SendsToId
    <3>3. PICK i \in Ids : i = IdOf(o)
      BY <1>3
    <3>4. ToCurrent(ToId(i, Msg("settings", o)))
      BY <3>1, SentToId
    <3> QED BY <3>2, <3>3, <3>4
  <2>2. SettingsOnce'
    <3>1. request[r] = "waiting"
      BY <1>6, TasksAreMatched
    <3>2. PICK i \in Ids : i = IdOf(o)
      BY <1>3
    <3>3. Send(ToId(i, Msg("settings", o)))
      BY <1>6, <3>2
    <3> QED BY <1>1, <1>2, <1>6, <3>1, <3>3, FirstSettings
  <2> HIDE DEF out
  <2>3. /\ RequestsKept'
        /\ request' \in [Requests -> {"new", "waiting", "running", "answered", "expired",
                                      "cancelled"}]
    BY <1>2, <1>6, RequestMoves
  <2>4. TypeOK' /\ Steady /\ NewcomersAreFresh'
    BY <1>4, <1>6, <2>1, <2>3 DEF IInv, TypeOK
  <2>5. RoutesAgree'
    <3>1. UNCHANGED <<ident, current, known, removals, replaced, made>>
      BY <1>1 DEF routeVars
    <3>2. \A d \in removals : d.id \in Ids
      BY DEF IInv, TypeOK, RemovalRecords
    <3> QED BY <1>2, <1>6, <3>1, <3>2 DEF IInv, RoutesAgree, IdOf, Made
  <2>6. SlotsSeenTo(out)
    BY <1>2, <1>6, <2>1, OffersAre DEF SlotsSeenTo, Sends, Fits
  <2> QED BY <1>1, <1>2, <2>1, <2>2, <2>3, <2>4, <2>5, <2>6, BrokerTurn
<1>7. CASE /\ r \in ToSet(pending) /\ ~Reachable(IdOf(o))
           /\ request' = [request EXCEPT ![r] = "answered"]
           /\ UNCHANGED <<tasks, toRunner>>
  <2>1. Sends(Nothing, {}) /\ ToCurrent(Nothing) /\ NoSettings(Nothing)
    BY <1>7, SendsNothing DEF IInv
  <2>2. /\ RequestsKept'
        /\ request' \in [Requests -> {"new", "waiting", "running", "answered", "expired",
                                      "cancelled"}]
        /\ \A q \in Requests : request[q] \in Begun => request'[q] \in Begun
    BY <1>2, <1>7, RequestMoves
  <2>3. TypeOK' /\ Steady /\ NewcomersAreFresh' /\ RoutesAgree'
    BY <1>4, <1>7, <2>1, <2>2 DEF IInv, TypeOK
  <2>4. SettingsOnce'
    BY <1>1, <1>2, <2>1, <2>2, SettingsKept DEF NoSettings
  <2>5. ~Attended(Owner(o))
    BY <1>7, AttendedReachable
  <2>6. SlotsSeenTo(Nothing)
    BY <1>2, <1>7, <2>1, <2>5, OffersAre DEF SlotsSeenTo, Sends, Fits
  <2> QED BY <1>1, <1>2, <2>1, <2>2, <2>3, <2>4, <2>6, BrokerTurn
<1> QED BY <1>2, <1>5, <1>6, <1>7

LEMMA BrokerReceivesKeeps ==
  ASSUME IInv, NEW p \in Processes, BrokerReceives(p)
  PROVE  IInv'
<1> DEFINE m == Head(toBroker[p])
<1>1. /\ toBroker[p] # <<>> /\ toBroker' = [toBroker EXCEPT ![p] = Tail(@)]
      /\ UNCHANGED <<processVars, ran, closing, killed, faults>>
  BY DEF BrokerReceives
<1>2. CASE /\ m.type = "info" /\ RunnerInfo(p)
           /\ UNCHANGED <<matchVars, missed, tasks, request>>
  BY <1>1, <1>2, RegistrationKeeps
<1>3. CASE /\ m.type # "info" /\ current[ident[p]] = p
           /\ OnRunnerMessage(m) /\ UNCHANGED routeVars
  <2>1. PICK f : f = m
    OBVIOUS
  <2> HIDE DEF m
  <2>2. Heard(p, f)
    BY <1>1, <1>3, <2>1 DEF Heard, m
  <2>3. \/ f.type = "offer" /\ Offered(f.task)
        \/ f.type = "accepted" /\ Accepted(f.task)
        \/ f.type = "rejected" /\ Rejected(f.task)
        \/ f.type = "deferred" /\ Deferred(f.task)
        \/ f.type = "finished" /\ Finished(f.task)
        \/ UNCHANGED <<matchVars, toRunner, missed, tasks, request>>
    BY <1>3, <2>1 DEF OnRunnerMessage
  <2>4. CASE UNCHANGED <<matchVars, toRunner, missed, tasks, request>>
    BY <1>1, <1>3, <2>4, FrameIgnored
  <2> QED
    BY <2>2, <2>3, <2>4, OfferedKeeps, AcceptedKeeps, RejectedKeeps, DeferredKeeps, FinishedKeeps
<1>4. CASE UNCHANGED <<routeVars, matchVars, toRunner, missed, tasks, request>>
  BY <1>1, <1>4, FrameIgnored
<1> QED BY <1>2, <1>3, <1>4 DEF BrokerReceives

-----------------------------------------------------------------------------
(* Processes that come and go.                                             *)

LEMMA ConnectKeeps ==
  ASSUME IInv, NEW p \in Processes, Connect(p)
  PROVE  IInv'
<1>1. /\ closing = "no" /\ life[p] = "unborn"
      /\ life' = [life EXCEPT ![p] = "up"] /\ socket' = [socket EXCEPT ![p] = "open"]
      /\ UNCHANGED <<offering, draining, openOffers, made, work, toRunner, taskFor, ran>>
      /\ UNCHANGED <<ident, current, known, removals, replaced, pool, pending, accepting, deferred>>
      /\ UNCHANGED <<missed, tasks, closing, killed, request, faults>>
  BY DEF Connect, Start, brokerVars
<1>2. /\ life \in [Processes -> {"unborn", "up", "gone"}]
      /\ socket \in [Processes -> {"none", "open", "closing", "closed"}]
      /\ toBroker \in [Processes -> Seq(ToBroker)]
  BY DEF IInv, TypeOK
<1>3. Newcomer(p) /\ toBroker[p] = <<>>
  BY <1>1 DEF Newcomer, IInv, NewcomersAreFresh
<1>4. /\ \A i \in Ids : current[i] # p
      /\ made[p] = 0 /\ ~offering[p] /\ toRunner[p] = <<>>
      /\ \A d \in removals : d.next # p
  <2>1. \A d \in removals : d.next # p
    BY <1>1, Unmatched DEF IInv, NewcomersAreFresh
  <2> QED BY <1>3, <2>1, NewcomersAre
<1>5. /\ toBroker'[p] = <<InfoFrame>> /\ \A q \in Processes : q # p => toBroker'[q] = toBroker[q]
      /\ toBroker' \in [Processes -> Seq(ToBroker)] /\ ToSet(toBroker'[p]) = {InfoFrame}
  <2>1. toBroker' = [toBroker EXCEPT ![p] = <<>> \o <<InfoFrame>>]
    BY <1>2, <1>3 DEF Connect, Start, Say, InfoFrame
  <2>2. <<>> \o <<InfoFrame>> = <<InfoFrame>> /\ InfoFrame \in ToBroker
    BY DEF InfoFrame, ToBroker
  <2>3. ToSet(<<InfoFrame>>) = {InfoFrame}
    BY DEF ToSet
  <2> QED BY <1>2, <2>1, <2>2, <2>3
<1>6. TypeOK'
  BY <1>1, <1>2, <1>5 DEF IInv, TypeOK
<1>7. OffersOnce' /\ Served'
  BY <1>1, MatchingRests
<1>8. RequestsKept'
  BY <1>1 DEF IInv, RequestsKept
<1>9. RoutesAgree'
  BY <1>1 DEF IInv, RoutesAgree, IdOf, Made
<1>10. NewcomersAreFresh'
  <2>1. \A q \in Processes : q # p => (Newcomer(q)' <=> Newcomer(q))
    BY <1>1, <1>5 DEF Newcomer
  <2>2. \A q \in Processes : Newcomer(q)' =>
          /\ made'[q] = 0 /\ ~offering'[q] /\ toRunner'[q] = <<>>
          /\ \A i \in Ids : current'[i] # q
          /\ toBroker'[q] = <<>> \/ toBroker'[q] = <<InfoFrame>>
    BY <1>1, <1>4, <1>5, <2>1 DEF IInv, NewcomersAreFresh
  <2>3. \A q \in Processes : life'[q] = "unborn" => toBroker'[q] = <<>>
    BY <1>1, <1>2, <1>5 DEF IInv, NewcomersAreFresh
  <2>4. \A d \in removals : d.next # None => d.next \in Processes /\ d.next # p
    BY <1>4 DEF IInv, TypeOK, RemovalRecords
  <2>5. \A d \in removals' : d.next # None =>
          life'[d.next] # "unborn" /\ toBroker'[d.next] = <<>> /\ ident'[d.next] = d.id
    BY <1>1, <1>5, <2>4 DEF IInv, NewcomersAreFresh
  <2>6. \A d, e \in removals' : d.next # None /\ d.next = e.next => d = e
    BY <1>1 DEF IInv, NewcomersAreFresh
  <2> QED BY <2>2, <2>3, <2>5, <2>6 DEF NewcomersAreFresh
<1>11. FramesMatched'
  <2>1. \A q \in Processes : \A m \in ToSet(toBroker'[q]) :
          m.type = "info" \/ toBroker'[q] = toBroker[q]
    <3>1. \A m \in ToSet(toBroker'[p]) : m.type = "info"
      BY <1>5 DEF InfoFrame
    <3> QED BY <1>5, <3>1
  <2>2. UNCHANGED <<openOffers, made, work, taskFor, toRunner, ident, pool>>
    BY <1>1
  <2>3. \A o \in openOffers' : Made(o)'
    BY <2>2 DEF IInv, FramesMatched, Made
  <2>4. \A o \in Offers : work'[o] # "none" => taskFor'[o] # None
    BY <2>2 DEF IInv, FramesMatched
  <2>5. \A q \in Processes : \A m \in ToSet(toRunner'[q]) :
          m.type \in TaskTypes => taskFor'[m.task] # None /\ IdOf(m.task)' = ident'[q]
    BY <2>2 DEF IInv, FramesMatched, IdOf
  <2>6. \A q \in Processes : \A m \in ToSet(toBroker'[q]) :
          /\ m.type \in Answers => taskFor'[m.task] # None /\ IdOf(m.task)' = ident'[q]
          /\ m.type \in Answers \ {"rejected"} => Owner(m.task) = q
          /\ m.type = "offer" =>
               /\ Owner(m.task) = q /\ Made(m.task)' /\ taskFor'[m.task] = None
               /\ m.task \notin ToSet(pool')
               /\ Once(toBroker'[q], m)
    <3>1. "info" \notin Answers /\ "info" # "offer"
      BY DEF Answers
    <3> QED BY <2>1, <2>2, <3>1 DEF IInv, FramesMatched, IdOf, Made
  <2> QED BY <2>3, <2>4, <2>5, <2>6 DEF FramesMatched
<1>12. AcceptedOnce'
  <2>1. \A o \in Offers, t \in Answers : Msg(t, o) # InfoFrame
    BY OffersAre DEF InfoFrame, Answers
  <2>2. \A o \in Offers, t \in Answers :
          Msg(t, o) \in ToSet(toBroker'[Owner(o)]) => Msg(t, o) \in ToSet(toBroker[Owner(o)])
    BY <1>5, <2>1, OffersAre
  <2> QED BY <1>1, <2>2 DEF IInv, AcceptedOnce
<1>13. SlotsWatched'
  <2>1. \A q \in Processes : Attended(q)' => Attended(q)
    BY <1>1, <1>2, <1>4 DEF Attended, Delivers, IInv, TypeOK
  <2> QED BY <1>1, <2>1, OffersAre DEF IInv, SlotsWatched
<1>14. SettingsOnce'
  BY <1>1 DEF IInv, SettingsOnce
<1> QED
  BY <1>6, <1>7, <1>8, <1>9, <1>10, <1>11, <1>12, <1>13, <1>14 DEF IInv

\* A process that ends leaves what it sent; what was sent to it is lost.
LEMMA VanishKeeps ==
  ASSUME IInv, NEW p \in Processes, life[p] = "up", Vanish(p),
         toRunner' = [toRunner EXCEPT ![p] = <<>>],
         UNCHANGED <<toBroker, ran>>, UNCHANGED routeVars, UNCHANGED matchVars,
         UNCHANGED <<missed, tasks, closing, killed, request>>, faults' \in 0..MaxFaults
  PROVE  IInv'
<1>1. /\ UNCHANGED <<ident, socket, current, known, removals, replaced>>
      /\ UNCHANGED <<pool, pending, accepting, deferred, taskFor>>
  BY DEF routeVars, matchVars
<1>2. /\ life' = [life EXCEPT ![p] = "gone"] /\ offering' = [offering EXCEPT ![p] = FALSE]
      /\ openOffers' \subseteq openOffers
      /\ work' = [o \in Offers |-> IF Owner(o) = p THEN "none" ELSE work[o]]
      /\ UNCHANGED <<draining, made>>
  BY DEF Vanish
<1>3. /\ life \in [Processes -> {"unborn", "up", "gone"}]
      /\ offering \in [Processes -> BOOLEAN]
      /\ toRunner \in [Processes -> Seq(ToRunner)]
      /\ work \in [Offers -> TaskStatuses] /\ openOffers \subseteq Offers
  BY DEF IInv, TypeOK
<1>4. /\ toRunner'[p] = <<>> /\ \A q \in Processes : q # p => toRunner'[q] = toRunner[q]
      /\ toRunner' \in [Processes -> Seq(ToRunner)] /\ ToSet(toRunner'[p]) = {}
  BY <1>3, EmptyToSet
<1>5. /\ work' \in [Offers -> TaskStatuses]
      /\ \A o \in Offers : work'[o] # "none" => work'[o] = work[o]
  BY <1>2, <1>3 DEF TaskStatuses
<1>6. TypeOK'
  <2>1. life' \in [Processes -> {"unborn", "up", "gone"}] /\ offering' \in [Processes -> BOOLEAN]
    BY <1>2, <1>3
  <2> QED BY <1>1, <1>2, <1>3, <1>4, <1>5, <2>1 DEF IInv, TypeOK
<1>7. OffersOnce' /\ Served'
  BY <1>1, <1>2, MatchingRests
<1>8. RequestsKept'
  BY <1>1 DEF IInv, RequestsKept
<1>9. RoutesAgree'
  BY <1>1, <1>2 DEF IInv, RoutesAgree, IdOf, Made
<1>10. NewcomersAreFresh'
  <2>1. \A q \in Processes : (life'[q] = "unborn" <=> life[q] = "unborn")
    BY <1>2, <1>3
  <2>2. \A q \in Processes : Newcomer(q)' <=> Newcomer(q)
    BY <1>1, <2>1 DEF Newcomer
  <2>3. \A q \in Processes :
          (offering'[q] => offering[q]) /\ (toRunner[q] = <<>> => toRunner'[q] = <<>>)
    BY <1>2, <1>3, <1>4
  <2>4. \A q \in Processes : Newcomer(q)' =>
          /\ made'[q] = 0 /\ ~offering'[q] /\ toRunner'[q] = <<>>
          /\ \A i \in Ids : current'[i] # q
          /\ toBroker'[q] = <<>> \/ toBroker'[q] = <<InfoFrame>>
    BY <1>1, <1>2, <2>2, <2>3 DEF IInv, NewcomersAreFresh
  <2>5. \A q \in Processes : life'[q] = "unborn" => toBroker'[q] = <<>>
    BY <2>1 DEF IInv, NewcomersAreFresh
  <2>6. \A d \in removals : d.next # None => d.next \in Processes
    BY DEF IInv, TypeOK, RemovalRecords
  <2>7. \A d \in removals' : d.next # None =>
          life'[d.next] # "unborn" /\ toBroker'[d.next] = <<>> /\ ident'[d.next] = d.id
    BY <1>1, <2>1, <2>6 DEF IInv, NewcomersAreFresh
  <2>8. \A d, e \in removals' : d.next # None /\ d.next = e.next => d = e
    BY <1>1 DEF IInv, NewcomersAreFresh
  <2> QED BY <2>4, <2>5, <2>7, <2>8 DEF NewcomersAreFresh
<1>11. FramesMatched'
  <2>1. UNCHANGED <<made, taskFor, ident, pool, toBroker>>
    BY <1>1, <1>2
  <2>2. \A o \in openOffers' : Made(o)'
    BY <1>2, <2>1 DEF IInv, FramesMatched, Made
  <2>3. \A o \in Offers : work'[o] # "none" => taskFor'[o] # None
    BY <1>5, <2>1 DEF IInv, FramesMatched
  <2>4. \A q \in Processes : \A m \in ToSet(toRunner'[q]) :
          m.type \in TaskTypes => taskFor'[m.task] # None /\ IdOf(m.task)' = ident'[q]
    BY <1>4, <2>1 DEF IInv, FramesMatched, IdOf
  <2>5. \A q \in Processes : \A m \in ToSet(toBroker'[q]) :
          /\ m.type \in Answers => taskFor'[m.task] # None /\ IdOf(m.task)' = ident'[q]
          /\ m.type \in Answers \ {"rejected"} => Owner(m.task) = q
          /\ m.type = "offer" =>
               /\ Owner(m.task) = q /\ Made(m.task)' /\ taskFor'[m.task] = None
               /\ m.task \notin ToSet(pool')
               /\ Once(toBroker'[q], m)
    BY <2>1 DEF IInv, FramesMatched, IdOf, Made
  <2> QED BY <2>2, <2>3, <2>4, <2>5 DEF FramesMatched
<1>12. AcceptedOnce'
  <2>1. \A o \in Offers : work[o] = "none" => work'[o] = "none"
    BY <1>5
  <2>2. \A o \in Offers : Msg("accept", o) \in ToSet(toRunner'[Owner(o)]) =>
          toRunner'[Owner(o)] = toRunner[Owner(o)]
    BY <1>4, OffersAre
  <2> QED BY <2>1, <2>2 DEF IInv, AcceptedOnce
<1>13. SlotsWatched'
  <2>1. \A q \in Processes : Attended(q)' => q # p /\ Attended(q)
    BY <1>1, <1>2, <1>3 DEF Attended, Delivers
  <2> QED BY <1>1, <1>2, <1>4, <2>1, OffersAre DEF IInv, SlotsWatched
<1>14. SettingsOnce'
  <2>1. \A q \in Processes : \A k \in DOMAIN toRunner'[q] : toRunner'[q] = toRunner[q]
    BY <1>4
  <2> QED BY <1>1, <2>1 DEF IInv, SettingsOnce
<1> QED
  BY <1>6, <1>7, <1>8, <1>9, <1>10, <1>11, <1>12, <1>13, <1>14 DEF IInv

LEMMA ConnectionLostKeeps ==
  ASSUME IInv, NEW p \in Processes, ConnectionLost(p)
  PROVE  IInv'
<1>1. faults' \in 0..MaxFaults
  BY DEF ConnectionLost, brokerVars, IInv, TypeOK
<1> QED BY <1>1, VanishKeeps DEF ConnectionLost, brokerVars

LEMMA DiesKeeps ==
  ASSUME IInv, NEW p \in Processes, Dies(p)
  PROVE  IInv'
<1>1. faults' \in 0..MaxFaults
  BY FaultsStay DEF Dies
<1> QED BY <1>1, VanishKeeps DEF Dies

-----------------------------------------------------------------------------
(* Turns of the runners.                                                   *)

\* Process p sends the frames `said`: some of `ms`, and offers it makes now.
Speaks(p, said, ms) ==
  /\ said \in Seq(ToBroker)
  /\ toBroker' = [toBroker EXCEPT ![p] = @ \o said]
  /\ \A x \in ToSet(said) :
       \/ x \in ms
       \/ \E o \in Offers :
            x = Msg("offer", o) /\ Owner(o) = p /\ ~Made(o) /\ Made(o)' /\ Once(said, x)
  /\ made' \in [Processes -> 0..MaxOffers]
  /\ \A q \in Processes : made[q] <= made'[q] /\ (q # p => made'[q] = made[q])
  /\ openOffers' \subseteq Offers /\ \A o \in openOffers' : Made(o)'

LEMMA OffersAreFinite ==
  /\ IsFiniteSet(Offers)
  /\ \A S : S \subseteq Offers => IsFiniteSet(S) /\ Cardinality(S) \in Nat
<1>1. IsFiniteSet(1..MaxOffers)
  BY SlotsArePositive, FS_Interval
<1>2. IsFiniteSet(Offers)
  BY <1>1, ProcessesAreFinite, FS_Product DEF Offers
<1>3. ASSUME NEW S, S \subseteq Offers
      PROVE  IsFiniteSet(S) /\ Cardinality(S) \in Nat
  BY <1>2, <1>3, FS_Subset, FS_CardinalityType
<1> QED BY <1>2, <1>3

LEMMA Offering ==
  ASSUME IInv, NEW p \in Processes, NEW busy \in Nat, NEW s \in Seq(ToBroker),
         \A x \in ToSet(s) : x.type # "offer", SendOffers(p, busy, s)
  PROVE  \E said : Speaks(p, said, ToSet(s))
<1>1. PICK stale \in SUBSET OpenOffersOf(p) :
        LET free == MaxConcurrency - Cardinality(OpenOffersOf(p) \ stale) - busy
            n == IF ~offering[p] THEN 0 ELSE Min({Max({free, 0}), MaxOffers - made[p]})
            new == [i \in 1..n |-> <<p, made[p] + i>>]
        IN  /\ openOffers' = (openOffers \ stale) \cup ToSet(new)
            /\ made' = [made EXCEPT ![p] = @ + n]
            /\ Say(p, s \o [i \in 1..n |-> Msg("offer", new[i])])
  BY DEF SendOffers
<1> DEFINE free == MaxConcurrency - Cardinality(OpenOffersOf(p) \ stale) - busy
           n == IF ~offering[p] THEN 0 ELSE Min({Max({free, 0}), MaxOffers - made[p]})
           new == [i \in 1..n |-> <<p, made[p] + i>>]
           t == [i \in 1..n |-> Msg("offer", new[i])]
           said == s \o t
<1>2. /\ openOffers' = (openOffers \ stale) \cup ToSet(new)
      /\ made' = [made EXCEPT ![p] = @ + n]
      /\ toBroker' = [toBroker EXCEPT ![p] = @ \o said]
  BY <1>1 DEF Say
<1>3. /\ made \in [Processes -> 0..MaxOffers] /\ openOffers \subseteq Offers
      /\ made[p] \in 0..MaxOffers /\ MaxOffers \in Nat
      /\ \A o \in openOffers : Made(o)
  BY SlotsArePositive DEF IInv, TypeOK, FramesMatched
<1>4. free \in Int
  <2>1. Cardinality(OpenOffersOf(p) \ stale) \in Nat
    BY <1>3, OffersAreFinite DEF OpenOffersOf
  <2> QED BY <2>1, SlotsArePositive
<1>5. n \in 0..(MaxOffers - made[p])
  <2>1. PICK f \in Int : f = free
    BY <1>4
  <2>2. PICK a \in Nat : a = Max({free, 0})
    <3>1. Max({f, 0}) = IF f >= 0 THEN f ELSE 0
      BY MaxOfTwo
    <3>2. Max({f, 0}) \in Nat
      BY <3>1
    <3> QED BY <2>1, <3>2
  <2>3. PICK b \in Nat : b = MaxOffers - made[p]
    BY <1>3
  <2>4. Min({a, b}) = IF a <= b THEN a ELSE b
    BY MinOfTwo
  <2>5. n = IF ~offering[p] THEN 0 ELSE Min({a, b})
    BY <2>2, <2>3
  <2> QED BY <2>3, <2>4, <2>5
<1> HIDE DEF free, n
<1>6. \A i \in 1..n : /\ new[i] \in Offers /\ Owner(new[i]) = p /\ new[i][2] = made[p] + i
                      /\ t[i] = Msg("offer", new[i])
  BY <1>3, <1>5 DEF Offers, Owner
<1>7. /\ made' \in [Processes -> 0..MaxOffers] /\ made'[p] = made[p] + n
      /\ \A q \in Processes : made[q] <= made'[q] /\ (q # p => made'[q] = made[q])
  BY <1>2, <1>3, <1>5
<1>8. ASSUME NEW o \in Offers, \E i \in 1..n : o = new[i]
      PROVE  ~Made(o) /\ Made(o)' /\ Owner(o) = p
  <2>1. PICK i \in 1..n : o = new[i]
    BY <1>8
  <2>2. Owner(o) = p /\ o[2] = made[p] + i
    BY <1>6, <2>1
  <2> QED BY <1>3, <1>5, <1>7, <2>2 DEF Made
<1>9. new \in Seq(Offers) /\ \A o \in ToSet(new) : o \in Offers /\ \E i \in 1..n : o = new[i]
  <2>1. DOMAIN new = 1..n /\ n \in Nat
    BY <1>3, <1>5
  <2> HIDE DEF new
  <2>2. \A o \in ToSet(new) : \E i \in 1..n : o = new[i]
    BY <2>1 DEF ToSet
  <2>3. new \in Seq(Offers)
    <3>1. new = [i \in 1..n |-> new[i]]
      BY <2>1 DEF new
    <3> QED BY <1>6, <2>1, <3>1
  <2> QED BY <1>6, <2>2, <2>3
<1>10. /\ t \in Seq(ToBroker) /\ Len(t) = n /\ DOMAIN t = 1..n
       /\ \A x \in ToSet(t) : \E i \in 1..n : x = t[i]
  <2>1. DOMAIN t = 1..n /\ n \in Nat
    BY <1>3, <1>5
  <2>2. t = [i \in 1..n |-> t[i]]
    OBVIOUS
  <2> HIDE DEF t, new
  <2>3. \A i \in 1..n : t[i] \in ToBroker
    BY <1>6, OffersAre
  <2>4. t \in Seq(ToBroker) /\ Len(t) = n
    BY <2>1, <2>2, <2>3
  <2> QED BY <2>1, <2>4 DEF ToSet
<1>11. \A i, j \in 1..n : t[i] = t[j] => i = j
  <2>1. ASSUME NEW i \in 1..n, NEW j \in 1..n, t[i] = t[j]
        PROVE  i = j
    <3>1. new[i] = new[j]
      BY <1>6, <2>1, OffersAre
    <3> QED BY <1>3, <1>5, <1>6, <3>1
  <2> QED BY <2>1
<1> HIDE DEF new, t
<1>12. said \in Seq(ToBroker) /\ ToSet(said) = ToSet(s) \cup ToSet(t)
  BY <1>10, Concatenated
<1>13. ASSUME NEW i \in 1..n
       PROVE  Once(said, t[i])
  <2>1. Once(t, t[i])
    BY <1>10, <1>11 DEF Once
  <2>2. t[i] \notin ToSet(s)
    BY <1>6, OffersAre
  <2> QED BY <1>10, <2>1, <2>2, OnceInBoth
<1> HIDE DEF said
<1>14. \A x \in ToSet(said) :
         \/ x \in ToSet(s)
         \/ \E o \in Offers :
              x = Msg("offer", o) /\ Owner(o) = p /\ ~Made(o) /\ Made(o)' /\ Once(said, x)
  <2>1. ASSUME NEW i \in 1..n
        PROVE  \E o \in Offers :
                 t[i] = Msg("offer", o) /\ Owner(o) = p /\ ~Made(o) /\ Made(o)' /\ Once(said, t[i])
    <3>1. PICK o \in Offers : o = new[i]
      BY <1>6
    <3> QED BY <1>6, <1>8, <1>13, <3>1
  <2> QED BY <1>10, <1>12, <2>1
<1>15. openOffers' \subseteq Offers /\ \A o \in openOffers' : Made(o)'
  <2>1. \A o \in openOffers : Made(o)'
    BY <1>3, <1>7, OffersAre DEF Made
  <2>2. \A o \in ToSet(new) : o \in Offers /\ Made(o)'
    BY <1>8, <1>9
  <2> QED BY <1>2, <1>3, <2>1, <2>2
<1> QED BY <1>2, <1>7, <1>12, <1>14, <1>15 DEF Speaks

LEMMA Silence ==
  ASSUME IInv, NEW p \in Processes, toBroker' = toBroker, made' = made,
         openOffers' \subseteq openOffers
  PROVE  Speaks(p, <<>>, {})
<1>1. /\ toBroker \in [Processes -> Seq(ToBroker)] /\ toBroker[p] \in Seq(ToBroker)
      /\ made \in [Processes -> 0..MaxOffers] /\ openOffers \subseteq Offers
      /\ \A o \in openOffers : Made(o)
  BY DEF IInv, TypeOK, FramesMatched
<1>2. toBroker[p] \o <<>> = toBroker[p]
  BY <1>1
<1>3. toBroker' = [toBroker EXCEPT ![p] = @ \o <<>>]
  BY <1>1, <1>2
<1>4. \A q \in Processes : made[q] <= made'[q] /\ made'[q] = made[q]
  BY <1>1, SlotsArePositive
<1>5. \A o \in openOffers' : Made(o)'
  BY <1>1 DEF Made
<1>6. <<>> \in Seq(ToBroker) /\ \A x : x \notin ToSet(<<>>)
  BY EmptyToSet
<1>7. made' \in [Processes -> 0..MaxOffers] /\ openOffers' \subseteq Offers
  BY <1>1
<1> QED BY <1>3, <1>4, <1>5, <1>6, <1>7 DEF Speaks

\* One answer.
LEMMA Answering ==
  ASSUME IInv, NEW p \in Processes, NEW x \in ToBroker, Say(p, <<x>>), made' = made,
         openOffers' \subseteq openOffers
  PROVE  Speaks(p, <<x>>, {x})
<1>1. /\ made \in [Processes -> 0..MaxOffers] /\ openOffers \subseteq Offers
      /\ \A o \in openOffers : Made(o)
  BY DEF IInv, TypeOK, FramesMatched
<1>2. ToSet(<<x>>) = {x} /\ <<x>> \in Seq(ToBroker)
  BY DEF ToSet
<1>3. \A q \in Processes : made[q] <= made'[q] /\ made'[q] = made[q]
  BY <1>1, SlotsArePositive
<1>4. \A o \in openOffers' : Made(o)'
  BY <1>1 DEF Made
<1> QED BY <1>1, <1>2, <1>3, <1>4 DEF Speaks, Say

\* Messages to the runners are read.
QueueShrinks ==
  \A q \in Processes :
    /\ toRunner'[q] \in Seq(ToRunner)
    /\ ToSet(toRunner'[q]) \subseteq ToSet(toRunner[q])
    /\ \A m : Once(toRunner[q], m) => Once(toRunner'[q], m)
    /\ \A a, b : Covered(toRunner[q], a, b) => Covered(toRunner'[q], a, b)

LEMMA QueueRests ==
  ASSUME IInv, toRunner' = toRunner
  PROVE  QueueShrinks /\ toRunner' \in [Processes -> Seq(ToRunner)]
  BY DEF IInv, TypeOK, QueueShrinks

LEMMA QueueRead ==
  ASSUME IInv, NEW p \in Processes, toRunner[p] # <<>>, NEW m, m = Head(toRunner[p]),
         toRunner' = [toRunner EXCEPT ![p] = Tail(@)]
  PROVE  /\ QueueShrinks /\ toRunner' \in [Processes -> Seq(ToRunner)]
         /\ m \in ToRunner /\ m \in ToSet(toRunner[p])
         /\ m.type \in TaskTypes => m.task \in Offers /\ m = Msg(m.type, m.task)
         /\ Once(toRunner[p], m) => m \notin ToSet(toRunner'[p])
         /\ \A b : Covered(toRunner[p], m, b) => b \in ToSet(toRunner'[p])
         /\ \A x \in ToSet(toRunner[p]) : x = m \/ x \in ToSet(toRunner'[p])
<1>1. toRunner \in [Processes -> Seq(ToRunner)]
  BY DEF IInv, TypeOK
<1>2. PICK s \in Seq(ToRunner) : s = toRunner[p] /\ s # <<>>
  BY <1>1
<1>3. /\ Tail(s) \in Seq(ToRunner) /\ Head(s) \in ToRunner /\ Head(s) \in ToSet(s)
      /\ ToSet(s) = ToSet(Tail(s)) \cup {Head(s)}
  BY <1>2, HeadAndTail
<1>4. toRunner'[p] = Tail(s) /\ \A q \in Processes : q # p => toRunner'[q] = toRunner[q]
  BY <1>1, <1>2
<1>5. \A x : Once(s, x) => Once(Tail(s), x) /\ (Head(s) = x => x \notin ToSet(Tail(s)))
  BY <1>2, OnceInTail
<1>6. \A a, b : Covered(s, a, b) => Covered(Tail(s), a, b) /\ (Head(s) = a => b \in ToSet(Tail(s)))
  BY <1>2, CoveredInTail
<1>7. toRunner' \in [Processes -> Seq(ToRunner)]
  BY <1>1, <1>2, <1>3
<1>8. QueueShrinks
  BY <1>1, <1>2, <1>3, <1>4, <1>5, <1>6 DEF QueueShrinks
<1>9. m.type \in TaskTypes => m.task \in Offers /\ m = Msg(m.type, m.task)
  BY <1>2, <1>3, MessagesAre
<1> QED BY <1>2, <1>3, <1>4, <1>5, <1>6, <1>7, <1>8, <1>9

\* What the channel of a runner holds after it spoke.
LEMMA Spoken ==
  ASSUME IInv, NEW p \in Processes, NEW said, NEW ms, Speaks(p, said, ms)
  PROVE  /\ toBroker' \in [Processes -> Seq(ToBroker)]
         /\ \A q \in Processes : q # p => toBroker'[q] = toBroker[q]
         /\ toBroker'[p] = toBroker[p] \o said
         /\ ToSet(toBroker'[p]) = ToSet(toBroker[p]) \cup ToSet(said)
         /\ \A m : Once(toBroker[p], m) /\ m \notin ToSet(said) => Once(toBroker'[p], m)
         /\ \A m : Once(said, m) /\ m \notin ToSet(toBroker[p]) => Once(toBroker'[p], m)
<1>1. toBroker \in [Processes -> Seq(ToBroker)]
  BY DEF IInv, TypeOK
<1>2. said \in Seq(ToBroker) /\ toBroker' = [toBroker EXCEPT ![p] = @ \o said]
  BY DEF Speaks
<1>3. PICK s \in Seq(ToBroker) : s = toBroker[p]
  BY <1>1
<1>4. s \o said \in Seq(ToBroker) /\ ToSet(s \o said) = ToSet(s) \cup ToSet(said)
  BY <1>2, <1>3, Concatenated
<1>5. \A m : \/ Once(s, m) /\ m \notin ToSet(said)
             \/ Once(said, m) /\ m \notin ToSet(s)
             => Once(s \o said, m)
  BY <1>2, <1>3, OnceInBoth
<1>6. toBroker'[p] = s \o said /\ \A q \in Processes : q # p => toBroker'[q] = toBroker[q]
  BY <1>1, <1>2, <1>3
<1>7. toBroker' \in [Processes -> Seq(ToBroker)]
  BY <1>1, <1>2, <1>3, <1>4
<1> QED BY <1>3, <1>4, <1>5, <1>6, <1>7

\* The broker and the other processes rest.
OthersRest ==
  /\ UNCHANGED <<life, taskFor, ident, socket, current, known, removals, replaced>>
  /\ UNCHANGED <<pool, pending, accepting, deferred>>
  /\ UNCHANGED <<missed, tasks, closing, killed, request>>

\* The answers `ms` of process p are of tasks it was told about.
Tells(p, ms) ==
  \A x \in ms :
    /\ x \in ToBroker /\ x.type \in Answers
    /\ taskFor[x.task] # None /\ IdOf(x.task) = ident[p]
    /\ x.type # "rejected" => Owner(x.task) = p

\* How the tasks of process p may move on in a turn in which it answers `ms`.
Works(p, ms) ==
  /\ work' \in [Offers -> TaskStatuses]
  /\ \A o \in Offers : Owner(o) # p => work'[o] = work[o]
  /\ \A o \in Offers : Owner(o) = p =>
       /\ work'[o] # "none" => taskFor[o] # None
       /\ Msg("accept", o) \in ToSet(toRunner'[p]) =>
            work'[o] = "none" /\ \A t \in Answers : Msg(t, o) \notin ms
       /\ \A t \in Answers \ {"accepted"} :
            Msg(t, o) \in ToSet(toBroker[p]) \cup ms => work'[o] = "none"
       /\ Attended(p) /\ work'[o] \in {"waiting", "running"} =>
            \/ o \in tasks \/ o \in ToSet(accepting)
            \/ Msg("cancel", o) \in ToSet(toRunner'[p])

LEMMA RunnerTurn ==
  ASSUME IInv, NEW p \in Processes, NEW said, NEW ms, Speaks(p, said, ms), Tells(p, ms),
         Works(p, ms), OthersRest, QueueShrinks, toRunner' \in [Processes -> Seq(ToRunner)],
         offering' \in [Processes -> BOOLEAN], draining' \in [Processes -> BOOLEAN],
         \A q \in Processes : q # p =>
           offering'[q] = offering[q] /\ toRunner'[q] = toRunner[q],
         \/ ~Newcomer(p)
         \/ made'[p] = made[p] /\ ~offering'[p] /\ toBroker' = toBroker,
         ran' \in [Requests -> Nat], faults' \in 0..MaxFaults, SettingsOnce'
  PROVE  IInv'
<1>1. /\ UNCHANGED <<life, taskFor, ident, socket, current, known, removals, replaced>>
      /\ UNCHANGED <<pool, pending, accepting, deferred>>
      /\ UNCHANGED <<missed, tasks, closing, killed, request>>
  BY DEF OthersRest
<1>2. /\ toBroker' \in [Processes -> Seq(ToBroker)]
      /\ \A q \in Processes : q # p => toBroker'[q] = toBroker[q]
      /\ ToSet(toBroker'[p]) = ToSet(toBroker[p]) \cup ToSet(said)
      /\ \A m : Once(toBroker[p], m) /\ m \notin ToSet(said) => Once(toBroker'[p], m)
      /\ \A m : Once(said, m) /\ m \notin ToSet(toBroker[p]) => Once(toBroker'[p], m)
  BY Spoken
<1>3. /\ made' \in [Processes -> 0..MaxOffers] /\ \A q \in Processes : made[q] <= made'[q]
      /\ \A q \in Processes : q # p => made'[q] = made[q]
      /\ openOffers' \subseteq Offers /\ \A o \in openOffers' : Made(o)'
  BY DEF Speaks
<1>4. \A x \in ToSet(said) :
        \/ x \in ms
        \/ \E o \in Offers :
             x = Msg("offer", o) /\ Owner(o) = p /\ ~Made(o) /\ Made(o)' /\ Once(said, x)
  BY DEF Speaks
<1>5. made \in [Processes -> 0..MaxOffers] /\ MaxOffers \in Nat
  BY SlotsArePositive DEF IInv, TypeOK
<1>6. \A o \in Offers : Made(o) => Made(o)'
  BY <1>3, <1>5, OffersAre DEF Made
<1>7. TypeOK'
  BY <1>1, <1>2, <1>3 DEF IInv, TypeOK, Works
<1>8. OffersOnce'
  <2>1. \A o \in ToSet(pool) : o \in Offers
    BY TasksAreMatched
  <2> QED BY <1>1, <1>6, <2>1 DEF IInv, OffersOnce
<1>9. RequestsKept' /\ Served'
  <2>1. Served'
    BY <1>1, MatchingRests
  <2> QED BY <1>1, <2>1 DEF IInv, RequestsKept
<1>10. RoutesAgree'
  BY <1>1, <1>3, <1>5, RoutesUntouched
<1>11. InfoFrame \notin ToSet(said)
  <2>1. \A x \in ToSet(said) : x.type \in Answers \cup {"offer"}
    BY <1>4, OffersAre DEF Tells
  <2>2. InfoFrame.type \notin Answers \cup {"offer"}
    BY DEF InfoFrame, Answers
  <2> QED BY <2>1, <2>2
<1>12. NewcomersAreFresh'
  <2>1. \A q \in Processes : Newcomer(q)' <=> Newcomer(q)
    BY <1>1, <1>2, <1>11 DEF Newcomer
  <2>2. ASSUME NEW q \in Processes, Newcomer(q)
        PROVE  made'[q] = made[q] /\ ~offering'[q] /\ toBroker'[q] = toBroker[q]
    BY <1>2, <1>3, <2>2, NewcomersAre
  <2>3. \A q \in Processes : toRunner[q] = <<>> => toRunner'[q] = <<>>
    BY ToSetMembers, EmptyToSet DEF QueueShrinks
  <2>4. \A q \in Processes : Newcomer(q)' =>
          /\ made'[q] = 0 /\ ~offering'[q] /\ toRunner'[q] = <<>>
          /\ \A i \in Ids : current'[i] # q
          /\ toBroker'[q] = <<>> \/ toBroker'[q] = <<InfoFrame>>
    BY <1>1, <2>1, <2>2, <2>3, NewcomersAre
  <2>5. \A q \in Processes : life[q] = "unborn" => Newcomer(q)
    BY DEF Newcomer
  <2>6. \A q \in Processes : life'[q] = "unborn" => toBroker'[q] = <<>>
    BY <1>1, <2>2, <2>5 DEF IInv, NewcomersAreFresh
  <2>7. \A d \in removals : d.next # None => d.next \in Processes /\ Newcomer(d.next)
    BY DEF IInv, TypeOK, RemovalRecords, Newcomer
  <2>8. \A d \in removals' : d.next # None =>
          life'[d.next] # "unborn" /\ toBroker'[d.next] = <<>> /\ ident'[d.next] = d.id
    BY <1>1, <2>2, <2>7 DEF IInv, NewcomersAreFresh
  <2>9. \A d, e \in removals' : d.next # None /\ d.next = e.next => d = e
    BY <1>1 DEF IInv, NewcomersAreFresh
  <2> QED BY <2>4, <2>6, <2>8, <2>9 DEF NewcomersAreFresh
<1>13. FramesMatched'
  <2>1. \A o \in Offers : work'[o] # "none" => taskFor'[o] # None
    BY <1>1 DEF IInv, FramesMatched, Works
  <2>2. \A q \in Processes : \A m \in ToSet(toRunner'[q]) :
          m.type \in TaskTypes => taskFor'[m.task] # None /\ IdOf(m.task)' = ident'[q]
    BY <1>1 DEF IInv, FramesMatched, IdOf, QueueShrinks
  <2>3. ASSUME NEW q \in Processes, NEW m \in ToSet(toBroker[q])
        PROVE  /\ m.type \in Answers => taskFor'[m.task] # None /\ IdOf(m.task)' = ident'[q]
               /\ m.type \in Answers \ {"rejected"} => Owner(m.task) = q
               /\ m.type = "offer" =>
                    /\ Owner(m.task) = q /\ Made(m.task)' /\ taskFor'[m.task] = None
                    /\ m.task \notin ToSet(pool')
                    /\ Once(toBroker'[q], m)
    <3>1. m \in ToBroker
      BY ChannelTypes DEF IInv
    <3>2. /\ m.type \in Answers => taskFor'[m.task] # None /\ IdOf(m.task)' = ident'[q]
          /\ m.type \in Answers \ {"rejected"} => Owner(m.task) = q
      BY <1>1 DEF IInv, FramesMatched, IdOf
    <3>3. ASSUME m.type = "offer"
          PROVE  /\ Owner(m.task) = q /\ Made(m.task) /\ taskFor[m.task] = None
                 /\ m.task \notin ToSet(pool) /\ Once(toBroker[q], m) /\ m.task \in Offers
      BY <3>1, <3>3, MessagesAre DEF IInv, FramesMatched
    <3>4. ASSUME m.type = "offer", q = p
          PROVE  m \notin ToSet(said)
      <4>1. Made(m.task) /\ "offer" \notin Answers
        BY <3>3, <3>4 DEF Answers
      <4> QED BY <1>4, <3>4, <4>1, OffersAre DEF Tells
    <3>5. m.type = "offer" => Once(toBroker'[q], m)
      BY <1>2, <3>3, <3>4
    <3> QED BY <1>1, <1>6, <3>2, <3>3, <3>5
  <2>4. ASSUME NEW m \in ToSet(said)
        PROVE  /\ m.type \in Answers => taskFor'[m.task] # None /\ IdOf(m.task)' = ident'[p]
               /\ m.type \in Answers \ {"rejected"} => Owner(m.task) = p
               /\ m.type = "offer" =>
                    /\ Owner(m.task) = p /\ Made(m.task)' /\ taskFor'[m.task] = None
                    /\ m.task \notin ToSet(pool')
                    /\ Once(toBroker'[p], m)
    <3>1. CASE m \in ms
      <4>1. "offer" \notin Answers
        BY DEF Answers
      <4> QED BY <1>1, <3>1, <4>1 DEF Tells, IdOf
    <3>2. ASSUME NEW o \in Offers, m = Msg("offer", o), Owner(o) = p, ~Made(o), Made(o)',
                 Once(said, m)
          PROVE  /\ m.type = "offer" /\ m.task = o /\ "offer" \notin Answers
                 /\ taskFor[o] = None /\ o \notin ToSet(pool) /\ Once(toBroker'[p], m)
      <4>1. m.type = "offer" /\ m.task = o /\ "offer" \notin Answers
        BY <3>2, OffersAre DEF Answers
      <4>2. taskFor[o] = None /\ o \notin ToSet(pool)
        BY <3>2 DEF IInv, OffersOnce
      <4>3. m \notin ToSet(toBroker[p])
        BY <3>2, <4>1 DEF IInv, FramesMatched
      <4> QED BY <1>2, <3>2, <4>1, <4>2, <4>3
    <3>3. CASE \E o \in Offers :
                 m = Msg("offer", o) /\ Owner(o) = p /\ ~Made(o) /\ Made(o)' /\ Once(said, m)
      <4>1. PICK o \in Offers :
                 m = Msg("offer", o) /\ Owner(o) = p /\ ~Made(o) /\ Made(o)' /\ Once(said, m)
        BY <3>3
      <4>2. /\ m.type = "offer" /\ m.task = o /\ "offer" \notin Answers
            /\ taskFor[o] = None /\ o \notin ToSet(pool) /\ Once(toBroker'[p], m)
        BY <3>2, <4>1
      <4> QED BY <1>1, <4>1, <4>2
    <3> QED BY <1>4, <3>1, <3>3
  <2>5. \A q \in Processes : \A m \in ToSet(toBroker'[q]) :
          m \in ToSet(toBroker[q]) \/ (q = p /\ m \in ToSet(said))
    <3>1. \A m \in ToSet(toBroker'[p]) : m \in ToSet(toBroker[p]) \/ m \in ToSet(said)
      BY <1>2
    <3>2. \A q \in Processes : q # p => toBroker'[q] = toBroker[q]
      BY <1>2
    <3> QED BY <3>1, <3>2
  <2> QED BY <1>3, <2>1, <2>2, <2>3, <2>4, <2>5 DEF FramesMatched
<1>14. AcceptedOnce'
  <2>1. ASSUME NEW o \in Offers, Owner(o) # p
        PROVE  /\ toBroker'[Owner(o)] = toBroker[Owner(o)] /\ work'[o] = work[o]
    BY <1>2, <2>1, OffersAre DEF Works
  <2>2. ASSUME NEW o \in Offers, NEW t \in Answers, Owner(o) = p,
               Msg(t, o) \in ToSet(toBroker'[p])
        PROVE  Msg(t, o) \in ToSet(toBroker[p]) \cup ms
    <3>1. \A x \in Offers : Msg(t, o) # Msg("offer", x)
      BY OffersAre DEF Answers
    <3> QED BY <1>2, <1>4, <2>2, <3>1
  <2>3. ASSUME NEW o \in Offers, Msg("accept", o) \in ToSet(toRunner'[Owner(o)])
        PROVE  /\ Once(toRunner'[Owner(o)], Msg("accept", o)) /\ work'[o] = "none"
               /\ \A t \in Answers : Msg(t, o) \notin ToSet(toBroker'[Owner(o)])
    <3>1. Msg("accept", o) \in ToSet(toRunner[Owner(o)]) /\ Owner(o) \in Processes
      BY <2>3, OffersAre DEF QueueShrinks
    <3>2. /\ Once(toRunner[Owner(o)], Msg("accept", o)) /\ work[o] = "none"
          /\ \A t \in Answers : Msg(t, o) \notin ToSet(toBroker[Owner(o)])
      BY <3>1 DEF IInv, AcceptedOnce
    <3>3. Once(toRunner'[Owner(o)], Msg("accept", o))
      BY <3>1, <3>2 DEF QueueShrinks
    <3>4. CASE Owner(o) # p
      BY <2>1, <3>2, <3>3, <3>4
    <3>5. CASE Owner(o) = p
      <4>1. work'[o] = "none" /\ \A t \in Answers : Msg(t, o) \notin ms
        BY <2>3, <3>5 DEF Works
      <4> QED BY <2>2, <3>2, <3>3, <3>5, <4>1
    <3> QED BY <3>4, <3>5
  <2>4. ASSUME NEW o \in Offers, NEW t \in Answers \ {"accepted"},
               Msg(t, o) \in ToSet(toBroker'[Owner(o)])
        PROVE  work'[o] = "none"
    <3>1. CASE Owner(o) # p
      BY <2>1, <2>4, <3>1 DEF IInv, AcceptedOnce
    <3>2. CASE Owner(o) = p
      BY <2>2, <2>4, <3>2 DEF Works
    <3> QED BY <3>1, <3>2
  <2> QED BY <2>3, <2>4 DEF AcceptedOnce
<1>15. SlotsWatched'
  <2>1. \A q \in Processes : Attended(q)' <=> Attended(q)
    BY <1>1 DEF Attended, Delivers
  <2>2. ASSUME NEW o \in Offers, Attended(Owner(o))
        PROVE  /\ \/ o \in ToSet(accepting)
                  \/ Covered(toRunner'[Owner(o)], Msg("accept", o), Msg("cancel", o))
               /\ work'[o] \in {"waiting", "running"} =>
                    \/ o \in tasks \/ o \in ToSet(accepting)
                    \/ Msg("cancel", o) \in ToSet(toRunner'[Owner(o)])
    <3>1. \/ o \in ToSet(accepting)
          \/ Covered(toRunner'[Owner(o)], Msg("accept", o), Msg("cancel", o))
      BY <2>2, OffersAre DEF IInv, SlotsWatched, QueueShrinks
    <3>2. CASE Owner(o) = p
      BY <2>2, <3>1, <3>2 DEF Works
    <3>3. CASE Owner(o) # p
      <4>1. toRunner'[Owner(o)] = toRunner[Owner(o)] /\ work'[o] = work[o]
        BY <3>3, OffersAre DEF Works
      <4> QED BY <2>2, <3>1, <4>1 DEF IInv, SlotsWatched
    <3> QED BY <3>1, <3>2, <3>3
  <2> QED BY <1>1, <2>1, <2>2, OffersAre DEF SlotsWatched
<1> QED
  BY <1>7, <1>8, <1>9, <1>10, <1>12, <1>13, <1>14, <1>15 DEF IInv

\* Settings that are read have not been read before, and are not read again.
LEMMA SettingsRead ==
  ASSUME IInv, NEW p \in Processes, toRunner[p] # <<>>, NEW m, m = Head(toRunner[p]),
         toRunner' = [toRunner EXCEPT ![p] = Tail(@)], UNCHANGED <<request, taskFor>>,
         \/ ran' = ran
         \/ m.type = "settings" /\ ran' = [ran EXCEPT ![taskFor[m.task]] = @ + 1]
  PROVE  SettingsOnce' /\ ran' \in [Requests -> Nat]
<1>1. toRunner \in [Processes -> Seq(ToRunner)] /\ ran \in [Requests -> Nat]
  BY DEF IInv, TypeOK
<1>2. PICK s \in Seq(ToRunner) : s = toRunner[p] /\ s # <<>>
  BY <1>1
<1>3. /\ Tail(s) \in Seq(ToRunner) /\ Len(s) \in Nat \ {0} /\ Len(Tail(s)) = Len(s) - 1
      /\ m = s[1] /\ \A k \in 1..Len(Tail(s)) : Tail(s)[k] = s[k + 1]
  BY <1>2, HeadAndTail
<1>4. toRunner'[p] = Tail(s) /\ \A q \in Processes : q # p => toRunner'[q] = toRunner[q]
  BY <1>1, <1>2
<1> DEFINE At(q, k) == IF q = p THEN k + 1 ELSE k
<1>5. ASSUME NEW q \in Processes, NEW k \in DOMAIN toRunner'[q]
      PROVE  /\ At(q, k) \in DOMAIN toRunner[q] /\ toRunner'[q][k] = toRunner[q][At(q, k)]
             /\ k \in Int /\ (q = p => At(q, k) # 1)
  <2>1. CASE q = p
    <3>1. k \in 1..Len(Tail(s))
      BY <1>3, <1>4, <1>5, <2>1
    <3>2. k + 1 \in 1..Len(s) /\ k \in Int /\ k + 1 # 1
      BY <1>3, <3>1
    <3>3. DOMAIN toRunner[q] = 1..Len(s)
      BY <1>2, <2>1
    <3>4. toRunner'[q][k] = s[k + 1]
      BY <1>3, <1>4, <2>1, <3>1
    <3>5. At(q, k) = k + 1
      BY <2>1
    <3> HIDE DEF At
    <3> QED BY <1>2, <2>1, <3>2, <3>3, <3>4, <3>5
  <2>2. CASE q # p
    <3>1. toRunner'[q] = toRunner[q] /\ toRunner[q] \in Seq(ToRunner)
      BY <1>1, <1>4, <2>2
    <3>2. DOMAIN toRunner[q] = 1..Len(toRunner[q])
      BY <3>1
    <3> QED BY <1>5, <2>2, <3>1, <3>2
  <2> QED BY <2>1, <2>2
<1>6. 1 \in DOMAIN toRunner[p] /\ toRunner[p][1] = m
  BY <1>2, <1>3
<1>7. ASSUME NEW q \in Processes, NEW k \in DOMAIN toRunner[q], toRunner[q][k].type = "settings"
      PROVE  /\ taskFor[toRunner[q][k].task] \in Requests
             /\ request[taskFor[toRunner[q][k].task]] \in Begun
             /\ ran[taskFor[toRunner[q][k].task]] = 0
  <2>1. toRunner[q] \in Seq(ToRunner)
    BY <1>1
  <2>2. toRunner[q][k] \in ToSet(toRunner[q]) /\ toRunner[q][k] \in ToRunner
    BY <2>1, ToSetMembers
  <2>3. "settings" \in TaskTypes
    BY DEF TaskTypes
  <2>4. toRunner[q][k].task \in Offers /\ taskFor[toRunner[q][k].task] # None
    BY <1>7, <2>2, <2>3, MessagesAre DEF IInv, FramesMatched
  <2>5. taskFor[toRunner[q][k].task] \in Requests
    BY <2>4 DEF IInv, TypeOK
  <2> QED BY <1>7, <2>5 DEF IInv, SettingsOnce
<1>8. ran' \in [Requests -> Nat]
  <2>1. CASE m.type = "settings" /\ ran' = [ran EXCEPT ![taskFor[m.task]] = @ + 1]
    <3>1. taskFor[m.task] \in Requests
      BY <1>6, <1>7, <2>1
    <3> QED BY <1>1, <2>1, <3>1
  <2> QED BY <1>1, <2>1
<1>9. ASSUME NEW q \in Processes, NEW k \in DOMAIN toRunner'[q],
             toRunner'[q][k].type = "settings"
      PROVE  /\ request'[taskFor'[toRunner'[q][k].task]] \in Begun
             /\ ran'[taskFor'[toRunner'[q][k].task]] = 0
  <2>1. PICK j \in DOMAIN toRunner[q] : toRunner'[q][k] = toRunner[q][j] /\ (q = p => j # 1)
    BY <1>5
  <2>2. /\ taskFor[toRunner[q][j].task] \in Requests
        /\ request[taskFor[toRunner[q][j].task]] \in Begun
        /\ ran[taskFor[toRunner[q][j].task]] = 0
    BY <1>7, <1>9, <2>1
  <2>3. CASE m.type = "settings" /\ ran' = [ran EXCEPT ![taskFor[m.task]] = @ + 1]
    <3>1. taskFor[toRunner[p][1].task] # taskFor[toRunner[q][j].task]
      BY <1>6, <1>9, <2>1, <2>3 DEF IInv, SettingsOnce
    <3> QED BY <1>1, <1>6, <2>1, <2>2, <2>3, <3>1
  <2> QED BY <2>1, <2>2, <2>3
<1>10. ASSUME NEW q \in Processes, NEW r \in Processes,
              NEW k \in DOMAIN toRunner'[q], NEW l \in DOMAIN toRunner'[r],
              toRunner'[q][k].type = "settings", toRunner'[r][l].type = "settings",
              taskFor'[toRunner'[q][k].task] = taskFor'[toRunner'[r][l].task]
       PROVE  q = r /\ k = l
  <2>1. PICK i \in DOMAIN toRunner[q] : i = At(q, k) /\ toRunner'[q][k] = toRunner[q][i]
    BY <1>5
  <2>2. PICK j \in DOMAIN toRunner[r] : j = At(r, l) /\ toRunner'[r][l] = toRunner[r][j]
    BY <1>5
  <2>3. q = r /\ i = j
    BY <1>10, <2>1, <2>2 DEF IInv, SettingsOnce
  <2>4. k \in Int /\ l \in Int
    BY <1>5
  <2> QED BY <2>1, <2>2, <2>3, <2>4
<1>11. \A r \in Requests : ran'[r] # 0 => request'[r] \in Begun
  <2>1. CASE ran' = ran
    BY <2>1 DEF IInv, SettingsOnce
  <2>2. CASE m.type = "settings" /\ ran' = [ran EXCEPT ![taskFor[m.task]] = @ + 1]
    <3>1. request[taskFor[m.task]] \in Begun
      BY <1>6, <1>7, <2>2
    <3> QED BY <1>1, <2>2, <3>1 DEF IInv, SettingsOnce
  <2> QED BY <2>1, <2>2
<1> HIDE DEF At
<1>12. SettingsOnce'
  <2>1. \A q \in Processes : \A k \in DOMAIN toRunner'[q] :
          toRunner'[q][k].type = "settings" =>
            LET r == taskFor'[toRunner'[q][k].task]
            IN  request'[r] \in Begun /\ ran'[r] = 0
    BY <1>9
  <2>2. \A q, r \in Processes : \A k \in DOMAIN toRunner'[q] : \A l \in DOMAIN toRunner'[r] :
          /\ toRunner'[q][k].type = "settings" /\ toRunner'[r][l].type = "settings"
          /\ taskFor'[toRunner'[q][k].task] = taskFor'[toRunner'[r][l].task]
          => q = r /\ k = l
    BY <1>10
  <2> QED BY <1>11, <2>1, <2>2 DEF SettingsOnce
<1> QED BY <1>8, <1>12

\* Messages that give a task up are not read in this turn, but for tasks `os`.
CancelsStay(p, os) ==
  \A o \in Offers \ os :
    Msg("cancel", o) \in ToSet(toRunner[p]) => Msg("cancel", o) \in ToSet(toRunner'[p])

\* What a runner may do to a task it leaves alone.
LEMMA TaskRests ==
  ASSUME IInv, NEW p \in Processes, QueueShrinks, NEW os, CancelsStay(p, os),
         NEW o \in Offers \ os, Owner(o) = p, work'[o] = work[o],
         NEW ms, \A x \in ms : x.task # o
  PROVE  /\ work'[o] # "none" => taskFor[o] # None
         /\ Msg("accept", o) \in ToSet(toRunner'[p]) =>
              work'[o] = "none" /\ \A t \in Answers : Msg(t, o) \notin ms
         /\ \A t \in Answers \ {"accepted"} :
              Msg(t, o) \in ToSet(toBroker[p]) \cup ms => work'[o] = "none"
         /\ Attended(p) /\ work'[o] \in {"waiting", "running"} =>
              \/ o \in tasks \/ o \in ToSet(accepting)
              \/ Msg("cancel", o) \in ToSet(toRunner'[p])
<1>1. work'[o] # "none" => taskFor[o] # None
  BY DEF IInv, FramesMatched
<1>2. \A t : Msg(t, o) \notin ms
  BY OffersAre
<1>3. Msg("accept", o) \in ToSet(toRunner'[p]) => work[o] = "none"
  BY DEF IInv, AcceptedOnce, QueueShrinks
<1>4. \A t \in Answers \ {"accepted"} : Msg(t, o) \in ToSet(toBroker[p]) => work[o] = "none"
  BY DEF IInv, AcceptedOnce
<1>5. Attended(p) /\ work[o] \in {"waiting", "running"} =>
        \/ o \in tasks \/ o \in ToSet(accepting)
        \/ Msg("cancel", o) \in ToSet(toRunner'[p])
  BY DEF IInv, SlotsWatched, CancelsStay
<1> QED BY <1>1, <1>2, <1>3, <1>4, <1>5

LEMMA WorkRests ==
  ASSUME IInv, NEW p \in Processes, work' = work, QueueShrinks, CancelsStay(p, {}),
         NEW ms, \A x \in ms : Owner(x.task) # p
  PROVE  Works(p, ms)
<1>1. work' \in [Offers -> TaskStatuses]
  BY DEF IInv, TypeOK
<1>2. ASSUME NEW o \in Offers, Owner(o) = p
      PROVE  /\ work'[o] # "none" => taskFor[o] # None
             /\ Msg("accept", o) \in ToSet(toRunner'[p]) =>
                  work'[o] = "none" /\ \A t \in Answers : Msg(t, o) \notin ms
             /\ \A t \in Answers \ {"accepted"} :
                  Msg(t, o) \in ToSet(toBroker[p]) \cup ms => work'[o] = "none"
             /\ Attended(p) /\ work'[o] \in {"waiting", "running"} =>
                  \/ o \in tasks \/ o \in ToSet(accepting)
                  \/ Msg("cancel", o) \in ToSet(toRunner'[p])
  <2>1. o \in Offers \ {} /\ work'[o] = work[o] /\ \A x \in ms : x.task # o
    BY <1>2
  <2> QED BY <1>2, <2>1, TaskRests
<1> QED BY <1>1, <1>2 DEF Works

\* The task o of process p gets the status w.
LEMMA WorkMoves ==
  ASSUME IInv, NEW p \in Processes, NEW o \in Offers, Owner(o) = p, NEW w \in TaskStatuses,
         work' = [work EXCEPT ![o] = w], QueueShrinks, CancelsStay(p, {o}),
         NEW ms, \A x \in ms : x.task = o,
         w # "none" => taskFor[o] # None,
         w # "none" \/ ms # {} => Msg("accept", o) \notin ToSet(toRunner'[p]),
         w # "none" => \A t \in Answers \ {"accepted"} :
                         Msg(t, o) \notin ToSet(toBroker[p]) \cup ms,
         Attended(p) /\ w \in {"waiting", "running"} =>
           \/ o \in tasks \/ o \in ToSet(accepting)
           \/ Msg("cancel", o) \in ToSet(toRunner'[p])
  PROVE  Works(p, ms)
<1>1. work \in [Offers -> TaskStatuses]
  BY DEF IInv, TypeOK
<1>2. /\ work' \in [Offers -> TaskStatuses] /\ work'[o] = w
      /\ \A x \in Offers : x # o => work'[x] = work[x]
  BY <1>1
<1>3. ASSUME NEW x \in Offers, Owner(x) = p
      PROVE  /\ work'[x] # "none" => taskFor[x] # None
             /\ Msg("accept", x) \in ToSet(toRunner'[p]) =>
                  work'[x] = "none" /\ \A t \in Answers : Msg(t, x) \notin ms
             /\ \A t \in Answers \ {"accepted"} :
                  Msg(t, x) \in ToSet(toBroker[p]) \cup ms => work'[x] = "none"
             /\ Attended(p) /\ work'[x] \in {"waiting", "running"} =>
                  \/ x \in tasks \/ x \in ToSet(accepting)
                  \/ Msg("cancel", x) \in ToSet(toRunner'[p])
  <2>1. CASE x = o
    BY <1>2, <2>1
  <2>2. CASE x # o
    <3>1. x \in Offers \ {o} /\ work'[x] = work[x] /\ \A y \in ms : y.task # x
      BY <1>2, <2>2
    <3> QED BY <1>3, <3>1, TaskRests
  <2> QED BY <2>1, <2>2
<1> QED BY <1>2, <1>3 DEF Works

\* A message that is read leaves the others of the other tasks.
LEMMA OthersStay ==
  ASSUME NEW p \in Processes, NEW m,
         \A x \in ToSet(toRunner[p]) : x = m \/ x \in ToSet(toRunner'[p])
  PROVE  /\ m.type # "cancel" => CancelsStay(p, {})
         /\ \A o \in Offers : m = Msg("cancel", o) => CancelsStay(p, {o})
  BY OffersAre DEF CancelsStay

LEMMA StayWider ==
  ASSUME NEW p, NEW os, CancelsStay(p, {})
  PROVE  CancelsStay(p, os)
  BY DEF CancelsStay

LEMMA OfferTickKeeps ==
  ASSUME IInv, NEW p \in Processes, OfferTick(p), OthersRest, faults' = faults
  PROVE  IInv'
<1>1. /\ offering[p] /\ SendOffers(p, Cardinality(Busy(p)), <<>>)
      /\ UNCHANGED <<offering, draining, work, toRunner, ran>>
  BY DEF OfferTick
<1>2. PICK busy \in Nat : busy = Cardinality(Busy(p))
  BY OffersAreFinite DEF Busy
<1>3. <<>> \in Seq(ToBroker) /\ \A x : x \notin ToSet(<<>>)
  BY EmptyToSet
<1>4. PICK said : Speaks(p, said, ToSet(<<>>))
  BY <1>1, <1>2, <1>3, Offering
<1> DEFINE ms == ToSet(<<>>)
<1>5. QueueShrinks /\ toRunner' \in [Processes -> Seq(ToRunner)]
  BY <1>1, QueueRests
<1>6. Tells(p, ms) /\ Works(p, ms)
  <2>1. CancelsStay(p, {})
    BY <1>1 DEF CancelsStay
  <2> QED BY <1>1, <1>3, <1>5, <2>1, WorkRests DEF Tells
<1>7. ~Newcomer(p)
  BY <1>1, NewcomersAre
<1>8. SettingsOnce' /\ ran' \in [Requests -> Nat] /\ faults' \in 0..MaxFaults
      /\ offering' \in [Processes -> BOOLEAN] /\ draining' \in [Processes -> BOOLEAN]
  <2>1. UNCHANGED <<request, taskFor>>
    BY DEF OthersRest
  <2>2. SettingsOnce'
    BY <1>1, <2>1 DEF IInv, SettingsOnce
  <2> QED BY <1>1, <2>2 DEF IInv, TypeOK
<1> HIDE DEF ms
<1>9. Speaks(p, said, ms)
  BY <1>4 DEF ms
<1> QED BY <1>1, <1>5, <1>6, <1>7, <1>8, <1>9, RunnerTurn

\* The process gives the slot of o back after the frames s.
LEMMA FinishTaskKeeps ==
  ASSUME IInv, NEW p \in Processes, NEW o \in Offers, Owner(o) = p, work[o] # "none",
         NEW s \in {<<>>, <<Msg("finished", o)>>}, FinishTask(o, s),
         OthersRest, UNCHANGED <<offering, draining, ran>>, faults' = faults,
         QueueShrinks, toRunner' \in [Processes -> Seq(ToRunner)], CancelsStay(p, {o}),
         \A q \in Processes : q # p => toRunner'[q] = toRunner[q], SettingsOnce'
  PROVE  IInv'
<1>1. SetWork(o, "none") /\ SendOffers(p, Cardinality(Busy(p) \ {o}), s)
  BY DEF FinishTask
<1>2. PICK busy \in Nat : busy = Cardinality(Busy(p) \ {o})
  BY OffersAreFinite DEF Busy
<1>3. Msg("finished", o) \in ToBroker /\ taskFor[o] # None /\ "finished" \in Answers
  BY OffersAre DEF IInv, FramesMatched, Answers
<1>4. /\ s \in Seq(ToBroker)
      /\ \A x \in ToSet(s) : x = Msg("finished", o)
  <2>1. ToSet(<<Msg("finished", o)>>) = {Msg("finished", o)}
    BY DEF ToSet
  <2>2. s = <<>> \/ s = <<Msg("finished", o)>>
    OBVIOUS
  <2>3. s \in Seq(ToBroker)
    <3>1. PICK x \in ToBroker : x = Msg("finished", o)
      BY <1>3
    <3>2. <<x>> \in Seq(ToBroker) /\ <<>> \in Seq(ToBroker)
      OBVIOUS
    <3> QED BY <2>2, <3>1, <3>2
  <2>4. \A x \in ToSet(s) : x = Msg("finished", o)
    BY <2>1, <2>2, EmptyToSet
  <2> QED BY <2>3, <2>4
<1>5. \A x \in ToSet(s) : x.type = "finished" /\ x.task = o
  BY <1>4, OffersAre
<1>6. PICK said : Speaks(p, said, ToSet(s))
  BY <1>1, <1>2, <1>4, <1>5, Offering
<1>7. PICK ms : ms = ToSet(s)
  OBVIOUS
<1>8. /\ Speaks(p, said, ms)
      /\ \A x \in ms : x = Msg("finished", o) /\ x.type = "finished" /\ x.task = o
  BY <1>4, <1>5, <1>6, <1>7
<1>9. taskFor[o] \in Requests /\ IdOf(o) = ident[p]
  BY <1>3 DEF IInv, TypeOK, IdOf
<1>10. Tells(p, ms)
  BY <1>3, <1>8, <1>9 DEF Tells
<1>11. Works(p, ms)
  <2>1. Msg("accept", o) \notin ToSet(toRunner'[p])
    BY DEF IInv, AcceptedOnce, QueueShrinks
  <2>2. "none" \in TaskStatuses /\ work' = [work EXCEPT ![o] = "none"]
    BY <1>1 DEF TaskStatuses, SetWork
  <2> QED BY <1>8, <2>1, <2>2, WorkMoves
<1>12. ~Newcomer(p)
  BY NewcomersAre
<1>13. /\ ran' \in [Requests -> Nat] /\ faults' \in 0..MaxFaults
       /\ offering' \in [Processes -> BOOLEAN] /\ draining' \in [Processes -> BOOLEAN]
  BY DEF IInv, TypeOK
<1> QED BY <1>8, <1>10, <1>11, <1>12, <1>13, RunnerTurn

\* A turn in which the process says nothing.
LEMMA SilentTurn ==
  ASSUME IInv, NEW p \in Processes, ~Newcomer(p), UNCHANGED <<made, toBroker>>,
         openOffers' \subseteq openOffers, Works(p, {}), OthersRest,
         QueueShrinks, toRunner' \in [Processes -> Seq(ToRunner)],
         \A q \in Processes : q # p => toRunner'[q] = toRunner[q] /\ offering'[q] = offering[q],
         offering' \in [Processes -> BOOLEAN], draining' \in [Processes -> BOOLEAN],
         faults' = faults, ran' \in [Requests -> Nat], SettingsOnce'
  PROVE  IInv'
<1>1. Speaks(p, <<>>, {})
  BY Silence
<1>2. PICK said : said = <<>>
  OBVIOUS
<1>3. PICK ms : ms = {}
  OBVIOUS
<1>4. Speaks(p, said, ms) /\ Works(p, ms) /\ Tells(p, ms)
  BY <1>1, <1>2, <1>3 DEF Tells
<1>5. faults' \in 0..MaxFaults
  BY DEF IInv, TypeOK
<1> QED BY <1>4, <1>5, RunnerTurn

LEMMA TaskEndsKeeps ==
  ASSUME IInv, NEW p \in Processes, NEW o \in Offers, Owner(o) = p, TaskEnds(o) \/ TaskTimedOut(o),
         OthersRest, faults' = faults
  PROVE  IInv'
<1>1. UNCHANGED <<offering, draining, ran, toRunner>>
  BY DEF TaskEnds, TaskTimedOut
<1>2. UNCHANGED <<request, taskFor>>
  BY DEF OthersRest
<1>3. SettingsOnce'
  BY <1>1, <1>2 DEF IInv, SettingsOnce
<1>4. QueueShrinks /\ toRunner' \in [Processes -> Seq(ToRunner)] /\ CancelsStay(p, {o})
  BY <1>1, QueueRests DEF CancelsStay
<1>5. ASSUME work[o] # "none", NEW s \in {<<>>, <<Msg("finished", o)>>}, FinishTask(o, s)
      PROVE  IInv'
  BY <1>1, <1>3, <1>4, <1>5, FinishTaskKeeps
<1>6. CASE TaskEnds(o)
  BY <1>5, <1>6 DEF TaskEnds
<1>7. CASE work[o] = "waiting" /\ FinishTask(o, <<Msg("finished", o)>>)
  BY <1>5, <1>7
<1>8. CASE /\ work[o] = "running" /\ SetWork(o, "timedOut")
           /\ UNCHANGED <<openOffers, made, toBroker>>
  <2>1. ~Newcomer(p)
    BY <1>8, NewcomersAre
  <2>2. Works(p, {})
    <3>1. Msg("accept", o) \notin ToSet(toRunner'[p])
      BY <1>1, <1>8 DEF IInv, AcceptedOnce
    <3>2. \A t \in Answers \ {"accepted"} : Msg(t, o) \notin ToSet(toBroker[p]) \cup {}
      BY <1>8 DEF IInv, AcceptedOnce
    <3>3. /\ "timedOut" \in TaskStatuses /\ taskFor[o] # None
          /\ work' = [work EXCEPT ![o] = "timedOut"]
      BY <1>8 DEF TaskStatuses, SetWork, IInv, FramesMatched
    <3>4. PICK w \in TaskStatuses : w = "timedOut"
      BY <3>3
    <3>5. PICK ms : ms = {}
      OBVIOUS
    <3>6. w \notin {"waiting", "running"} /\ work' = [work EXCEPT ![o] = w]
      BY <3>3, <3>4
    <3>7. \A t \in Answers \ {"accepted"} : Msg(t, o) \notin ToSet(toBroker[p]) \cup ms
      BY <3>2, <3>5
    <3>8. \A x \in ms : x.task = o
      BY <3>5
    <3>9. Works(p, ms)
      BY <1>4, <3>1, <3>3, <3>6, <3>7, <3>8, WorkMoves
    <3> QED BY <3>5, <3>9
  <2>3. /\ offering' \in [Processes -> BOOLEAN] /\ draining' \in [Processes -> BOOLEAN]
        /\ ran' \in [Requests -> Nat] /\ openOffers' \subseteq openOffers
    BY <1>1, <1>8 DEF IInv, TypeOK
  <2> QED BY <1>1, <1>3, <1>4, <1>8, <2>1, <2>2, <2>3, SilentTurn
<1> QED BY <1>6, <1>7, <1>8 DEF TaskTimedOut

LEMMA StopRunnerKeeps ==
  ASSUME IInv, NEW p \in Processes, StopRunner(p), OthersRest, Fault
  PROVE  IInv'
<1>1. /\ draining' = [draining EXCEPT ![p] = TRUE] /\ offering' = [offering EXCEPT ![p] = FALSE]
      /\ openOffers' \subseteq openOffers
      /\ UNCHANGED <<made, work, toRunner, toBroker, ran>>
  BY DEF StopRunner
<1>2. PICK said, ms : said = <<>> /\ ms = {}
  OBVIOUS
<1>3. Speaks(p, said, ms) /\ Tells(p, ms)
  BY <1>1, <1>2, Silence DEF Tells
<1>4. QueueShrinks /\ toRunner' \in [Processes -> Seq(ToRunner)]
  BY <1>1, QueueRests
<1>5. Works(p, ms)
  <2>1. CancelsStay(p, {})
    BY <1>1 DEF CancelsStay
  <2> QED BY <1>1, <1>2, <1>4, <2>1, WorkRests
<1>6. /\ offering' \in [Processes -> BOOLEAN] /\ draining' \in [Processes -> BOOLEAN]
      /\ \A q \in Processes : q # p => offering'[q] = offering[q]
      /\ ~offering'[p] /\ ran' \in [Requests -> Nat] /\ faults' \in 0..MaxFaults
  BY <1>1, FaultsStay DEF IInv, TypeOK
<1>7. SettingsOnce'
  BY <1>1 DEF IInv, SettingsOnce, OthersRest
<1> QED BY <1>1, <1>3, <1>4, <1>5, <1>6, <1>7, RunnerTurn

\* A message is read.
Reads(p, m) ==
  /\ toRunner[p] # <<>> /\ m = Head(toRunner[p])
  /\ toRunner' = [toRunner EXCEPT ![p] = Tail(@)]
  /\ OthersRest /\ faults' = faults

LEMMA ReadsIs ==
  ASSUME IInv, NEW p \in Processes, NEW m, Reads(p, m)
  PROVE  /\ QueueShrinks /\ toRunner' \in [Processes -> Seq(ToRunner)] /\ ~Newcomer(p)
         /\ \A q \in Processes : q # p => toRunner'[q] = toRunner[q]
         /\ m.type \in TaskTypes =>
              /\ m.task \in Offers /\ m = Msg(m.type, m.task)
              /\ taskFor[m.task] # None /\ IdOf(m.task) = ident[p]
         /\ Once(toRunner[p], m) => m \notin ToSet(toRunner'[p])
         /\ \A b : Covered(toRunner[p], m, b) => b \in ToSet(toRunner'[p])
         /\ m \in ToSet(toRunner[p])
         /\ m.type # "cancel" => CancelsStay(p, {})
         /\ \A o \in Offers : m = Msg("cancel", o) => CancelsStay(p, {o})
         /\ OthersRest /\ faults' = faults
         /\ (ran' = ran => SettingsOnce' /\ ran' \in [Requests -> Nat])
<1>1. toRunner \in [Processes -> Seq(ToRunner)]
  BY DEF IInv, TypeOK
<1>2. /\ QueueShrinks /\ toRunner' \in [Processes -> Seq(ToRunner)]
      /\ m \in ToSet(toRunner[p])
      /\ m.type \in TaskTypes => m.task \in Offers /\ m = Msg(m.type, m.task)
      /\ Once(toRunner[p], m) => m \notin ToSet(toRunner'[p])
      /\ \A b : Covered(toRunner[p], m, b) => b \in ToSet(toRunner'[p])
      /\ \A x \in ToSet(toRunner[p]) : x = m \/ x \in ToSet(toRunner'[p])
  BY QueueRead DEF Reads
<1>3. ~Newcomer(p)
  BY NewcomersAre DEF Reads
<1>4. \A q \in Processes : q # p => toRunner'[q] = toRunner[q]
  BY <1>1 DEF Reads
<1>5. m.type \in TaskTypes => taskFor[m.task] # None /\ IdOf(m.task) = ident[p]
  BY <1>2 DEF IInv, FramesMatched
<1>6. /\ m.type # "cancel" => CancelsStay(p, {})
      /\ \A o \in Offers : m = Msg("cancel", o) => CancelsStay(p, {o})
  BY <1>2, OthersStay
<1>7. OthersRest /\ faults' = faults
  BY DEF Reads
<1>8. ran' = ran => SettingsOnce' /\ ran' \in [Requests -> Nat]
  BY <1>7, SettingsRead DEF Reads, OthersRest
<1> QED BY <1>2, <1>3, <1>4, <1>5, <1>6, <1>7, <1>8

\* Messages about no task, and settings of a task that is gone.
LEMMA MessageNoted ==
  ASSUME IInv, NEW p \in Processes, NEW m, Reads(p, m), m.type # "cancel",
         UNCHANGED <<openOffers, made, work, toBroker, ran>>,
         \/ offering' = [offering EXCEPT ![p] = TRUE] /\ draining' = draining
         \/ offering' = [offering EXCEPT ![p] = FALSE] /\ draining' = [draining EXCEPT ![p] = TRUE]
         \/ UNCHANGED <<offering, draining>>
  PROVE  IInv'
<1>1. /\ QueueShrinks /\ toRunner' \in [Processes -> Seq(ToRunner)] /\ ~Newcomer(p)
      /\ \A q \in Processes : q # p => toRunner'[q] = toRunner[q]
      /\ CancelsStay(p, {}) /\ OthersRest /\ faults' = faults
      /\ SettingsOnce' /\ ran' \in [Requests -> Nat]
  BY ReadsIs
<1>2. Works(p, {})
  BY <1>1, WorkRests
<1>3. /\ offering' \in [Processes -> BOOLEAN] /\ draining' \in [Processes -> BOOLEAN]
      /\ \A q \in Processes : q # p => offering'[q] = offering[q]
  BY DEF IInv, TypeOK
<1> QED BY <1>1, <1>2, <1>3, SilentTurn

LEMMA ReceivedSettingsKeeps ==
  ASSUME IInv, NEW p \in Processes, NEW m, Reads(p, m), m.type = "settings",
         ReceivedSettings(p, m.task)
  PROVE  IInv'
<1>1. UNCHANGED <<offering, draining, openOffers, made, toBroker>>
  BY DEF ReceivedSettings
<1>2. CASE UNCHANGED <<work, ran>>
  BY <1>1, <1>2, MessageNoted
<1>3. CASE /\ Status(p, m.task) = "waiting" /\ SetWork(m.task, "running")
           /\ ran' = [ran EXCEPT ![taskFor[m.task]] = @ + 1]
  <2>1. "settings" \in TaskTypes
    BY DEF TaskTypes
  <2>2. PICK o \in Offers : o = m.task /\ taskFor[o] # None
    BY <2>1, ReadsIs
  <2>3. Owner(o) = p /\ work[o] = "waiting" /\ work' = [work EXCEPT ![o] = "running"]
    BY <1>3, <2>2 DEF Status, SetWork
  <2>4. /\ QueueShrinks /\ toRunner' \in [Processes -> Seq(ToRunner)] /\ ~Newcomer(p)
        /\ \A q \in Processes : q # p => toRunner'[q] = toRunner[q]
        /\ CancelsStay(p, {}) /\ OthersRest /\ faults' = faults
    BY ReadsIs
  <2>5. SettingsOnce' /\ ran' \in [Requests -> Nat]
    BY <1>3, <2>4, SettingsRead DEF Reads, OthersRest
  <2>6. PICK ms : ms = {}
    OBVIOUS
  <2>7. PICK w \in TaskStatuses : w = "running"
    BY DEF TaskStatuses
  <2>8. Works(p, ms)
    <3>1. Msg("accept", o) \notin ToSet(toRunner'[p])
      BY <2>3, <2>4 DEF IInv, AcceptedOnce, QueueShrinks
    <3>2. \A t \in Answers \ {"accepted"} : Msg(t, o) \notin ToSet(toBroker[p]) \cup ms
      BY <2>3, <2>6 DEF IInv, AcceptedOnce
    <3>3. Attended(p) => \/ o \in tasks \/ o \in ToSet(accepting)
                         \/ Msg("cancel", o) \in ToSet(toRunner'[p])
      BY <2>3, <2>4 DEF IInv, SlotsWatched, CancelsStay
    <3>4. CancelsStay(p, {o})
      BY <2>4, StayWider
    <3>5. work' = [work EXCEPT ![o] = w] /\ \A x \in ms : x.task = o
      BY <2>3, <2>6, <2>7
    <3>6. QueueShrinks /\ Owner(o) = p /\ taskFor[o] # None
      BY <2>2, <2>3, <2>4
    <3>7. /\ w # "none" \/ ms # {} => Msg("accept", o) \notin ToSet(toRunner'[p])
          /\ Attended(p) /\ w \in {"waiting", "running"} =>
               \/ o \in tasks \/ o \in ToSet(accepting)
               \/ Msg("cancel", o) \in ToSet(toRunner'[p])
      BY <3>1, <3>3
    <3> QED BY <3>2, <3>4, <3>5, <3>6, <3>7, WorkMoves
  <2>9. offering' \in [Processes -> BOOLEAN] /\ draining' \in [Processes -> BOOLEAN]
    BY <1>1 DEF IInv, TypeOK
  <2>10. Works(p, {})
    BY <2>6, <2>8
  <2> QED BY <1>1, <2>4, <2>5, <2>9, <2>10, SilentTurn
<1> QED BY <1>2, <1>3 DEF ReceivedSettings

LEMMA TaskCancelledKeeps ==
  ASSUME IInv, NEW p \in Processes, NEW m, Reads(p, m), m.type = "cancel",
         TaskCancelled(p, m.task)
  PROVE  IInv'
<1>1. "cancel" \in TaskTypes
  BY DEF TaskTypes
<1>2. PICK o \in Offers : o = m.task /\ m = Msg("cancel", o) /\ taskFor[o] # None
  BY <1>1, ReadsIs
<1>3. /\ QueueShrinks /\ toRunner' \in [Processes -> Seq(ToRunner)] /\ ~Newcomer(p)
      /\ \A q \in Processes : q # p => toRunner'[q] = toRunner[q]
      /\ CancelsStay(p, {o}) /\ OthersRest /\ faults' = faults
      /\ (ran' = ran => SettingsOnce' /\ ran' \in [Requests -> Nat])
  BY <1>2, ReadsIs
<1>4. PICK ms : ms = {}
  OBVIOUS
<1>5. CASE /\ Status(p, o) = "waiting" /\ FinishTask(o, <<>>)
           /\ UNCHANGED <<offering, draining, ran>>
  <2>1. Owner(o) = p /\ work[o] # "none"
    BY <1>5 DEF Status
  <2>2. <<>> \in {<<>>, <<Msg("finished", o)>>}
    OBVIOUS
  <2>3. PICK s \in {<<>>, <<Msg("finished", o)>>} : FinishTask(o, s)
    BY <1>5, <2>2
  <2> QED BY <1>3, <1>5, <2>1, <2>3, FinishTaskKeeps
<1>6. CASE /\ Status(p, o) # "waiting"
           /\ work' = IF Status(p, o) = "running" THEN [work EXCEPT ![o] = "cancelled"] ELSE work
           /\ UNCHANGED <<offering, draining, openOffers, made, toBroker, ran>>
  <2>1. /\ offering' \in [Processes -> BOOLEAN] /\ draining' \in [Processes -> BOOLEAN]
        /\ SettingsOnce' /\ ran' \in [Requests -> Nat]
    BY <1>3, <1>6 DEF IInv, TypeOK
  <2>2. Works(p, ms)
    <3>1. CASE Owner(o) = p /\ Status(p, o) = "running"
      <4>1. work[o] = "running"
        BY <3>1 DEF Status
      <4>2. PICK w \in TaskStatuses : w = "cancelled"
        BY DEF TaskStatuses
      <4>3. Msg("accept", o) \notin ToSet(toRunner'[p])
        BY <1>3, <3>1, <4>1 DEF IInv, AcceptedOnce, QueueShrinks
      <4>4. \A t \in Answers \ {"accepted"} : Msg(t, o) \notin ToSet(toBroker[p]) \cup ms
        BY <1>4, <3>1, <4>1 DEF IInv, AcceptedOnce
      <4>5. work' = [work EXCEPT ![o] = w] /\ \A x \in ms : x.task = o
        BY <1>4, <1>6, <3>1, <4>2
      <4>6. w \notin {"waiting", "running"}
        BY <4>2
      <4>7. QueueShrinks /\ CancelsStay(p, {o}) /\ Owner(o) = p /\ taskFor[o] # None
        BY <1>2, <1>3, <3>1
      <4> QED BY <4>3, <4>4, <4>5, <4>6, <4>7, WorkMoves
    <3>2. CASE Owner(o) = p /\ Status(p, o) # "running"
      <4>1. work' = work /\ work[o] \notin {"waiting", "running"} /\ work[o] \in TaskStatuses
        BY <1>6, <3>2 DEF Status, IInv, TypeOK
      <4>2. PICK w \in TaskStatuses : w = work[o]
        BY <4>1
      <4>3. work' = [work EXCEPT ![o] = w]
        BY <4>1, <4>2 DEF IInv, TypeOK
      <4>4. w # "none" => Msg("accept", o) \notin ToSet(toRunner'[p])
        BY <1>3, <3>2, <4>2 DEF IInv, AcceptedOnce, QueueShrinks
      <4>5. w # "none" => \A t \in Answers \ {"accepted"} :
                            Msg(t, o) \notin ToSet(toBroker[p]) \cup ms
        BY <1>4, <3>2, <4>2 DEF IInv, AcceptedOnce
      <4>6. w \notin {"waiting", "running"} /\ ms = {} /\ \A x \in ms : x.task = o
        BY <1>4, <4>1, <4>2
      <4>7. QueueShrinks /\ CancelsStay(p, {o}) /\ Owner(o) = p /\ taskFor[o] # None
        BY <1>2, <1>3, <3>2
      <4> QED BY <4>3, <4>4, <4>5, <4>6, <4>7, WorkMoves
    <3>3. CASE Owner(o) # p
      <4>1. work' = work
        BY <1>6, <3>3 DEF Status
      <4>2. \A x \in Offers : Owner(x) = p => x \in Offers \ {o}
        BY <3>3
      <4>3. work' \in [Offers -> TaskStatuses]
        BY <4>1 DEF IInv, TypeOK
      <4>4. ASSUME NEW x \in Offers, Owner(x) = p
            PROVE  /\ work'[x] # "none" => taskFor[x] # None
                   /\ Msg("accept", x) \in ToSet(toRunner'[p]) =>
                        work'[x] = "none" /\ \A t \in Answers : Msg(t, x) \notin ms
                   /\ \A t \in Answers \ {"accepted"} :
                        Msg(t, x) \in ToSet(toBroker[p]) \cup ms => work'[x] = "none"
                   /\ Attended(p) /\ work'[x] \in {"waiting", "running"} =>
                        \/ x \in tasks \/ x \in ToSet(accepting)
                        \/ Msg("cancel", x) \in ToSet(toRunner'[p])
        <5>1. x \in Offers \ {o} /\ work'[x] = work[x] /\ \A y \in ms : y.task # x
          BY <1>4, <4>1, <4>2, <4>4
        <5>2. QueueShrinks /\ CancelsStay(p, {o})
          BY <1>3
        <5>3. PICK os : os = {o}
          OBVIOUS
        <5>4. x \in Offers \ os /\ CancelsStay(p, os) /\ Owner(x) = p
          BY <4>4, <5>1, <5>2, <5>3
        <5>5. QueueShrinks /\ work'[x] = work[x] /\ \A y \in ms : y.task # x
          BY <5>1, <5>2
        <5> QED BY <5>4, <5>5, TaskRests
      <4> QED BY <4>1, <4>3, <4>4 DEF Works
    <3> QED BY <3>1, <3>2, <3>3
  <2>3. Works(p, {})
    BY <1>4, <2>2
  <2> QED BY <1>3, <1>6, <2>1, <2>3, SilentTurn
<1> QED BY <1>2, <1>5, <1>6 DEF TaskCancelled

\* The one answer a runner gives to an acceptance.
LEMMA OfferAcceptedKeeps ==
  ASSUME IInv, NEW p \in Processes, NEW m, Reads(p, m), m.type = "accept",
         OfferAccepted(p, m.task)
  PROVE  IInv'
<1>1. "accept" \in TaskTypes
  BY DEF TaskTypes
<1>2. PICK o \in Offers :
        o = m.task /\ m = Msg("accept", o) /\ taskFor[o] # None /\ IdOf(o) = ident[p]
  BY <1>1, ReadsIs
<1>3. /\ QueueShrinks /\ toRunner' \in [Processes -> Seq(ToRunner)] /\ ~Newcomer(p)
      /\ \A q \in Processes : q # p => toRunner'[q] = toRunner[q]
      /\ CancelsStay(p, {}) /\ OthersRest /\ faults' = faults
      /\ (ran' = ran => SettingsOnce' /\ ran' \in [Requests -> Nat])
      /\ Msg("accept", o) \in ToSet(toRunner[p])
      /\ Once(toRunner[p], Msg("accept", o)) => Msg("accept", o) \notin ToSet(toRunner'[p])
      /\ \A b : Covered(toRunner[p], Msg("accept", o), b) => b \in ToSet(toRunner'[p])
  BY <1>2, ReadsIs
<1>4. /\ openOffers' \subseteq openOffers /\ UNCHANGED <<offering, draining, made, ran>>
      /\ \/ /\ o \in OpenOffersOf(p) /\ SetWork(o, "waiting") /\ Say(p, <<Msg("accepted", o)>>)
         \/ /\ o \in OpenOffersOf(p) /\ UNCHANGED work /\ Say(p, <<Msg("deferred", o)>>)
         \/ UNCHANGED work /\ Say(p, <<Msg("rejected", o)>>)
  BY <1>2 DEF OfferAccepted
<1>5. PICK t \in Answers, w \in TaskStatuses :
        /\ t # "finished" /\ Say(p, <<Msg(t, o)>>)
        /\ t # "rejected" => Owner(o) = p
        /\ \/ t = "accepted" /\ w = "waiting" /\ work' = [work EXCEPT ![o] = "waiting"]
           \/ t # "accepted" /\ w = "none" /\ work' = work
  <2>1. o \in OpenOffersOf(p) => Owner(o) = p
    BY DEF OpenOffersOf
  <2>2. {"waiting", "none"} \subseteq TaskStatuses
    BY DEF TaskStatuses
  <2>3. {"accepted", "deferred", "rejected"} \subseteq Answers
    BY DEF Answers
  <2> QED BY <1>4, <2>1, <2>2, <2>3 DEF SetWork
<1>6. PICK x \in ToBroker : x = Msg(t, o) /\ x.type = t /\ x.task = o
  BY OffersAre
<1>7. PICK ms : ms = {x}
  OBVIOUS
<1>8. PICK said : said = <<x>>
  OBVIOUS
<1>9. Speaks(p, said, ms)
  BY <1>4, <1>5, <1>6, <1>7, <1>8, Answering
<1>10. Tells(p, ms)
  BY <1>2, <1>5, <1>6, <1>7 DEF Tells
<1>11. Works(p, ms)
  <2>1. CASE Owner(o) = p
    <3>1. /\ Once(toRunner[p], Msg("accept", o)) /\ work[o] = "none"
          /\ \A u \in Answers : Msg(u, o) \notin ToSet(toBroker[p])
      BY <1>3, <2>1 DEF IInv, AcceptedOnce
    <3>2. Msg("accept", o) \notin ToSet(toRunner'[p])
      BY <1>3, <3>1
    <3>3. work' = [work EXCEPT ![o] = w]
      BY <1>5, <3>1 DEF IInv, TypeOK
    <3>4. w # "none" => \A u \in Answers \ {"accepted"} :
                          Msg(u, o) \notin ToSet(toBroker[p]) \cup ms
      BY <1>5, <1>6, <1>7, <3>1, OffersAre
    <3>5. Attended(p) => o \in ToSet(accepting) \/ Msg("cancel", o) \in ToSet(toRunner'[p])
      BY <1>3, <2>1 DEF IInv, SlotsWatched
    <3>6. QueueShrinks /\ CancelsStay(p, {o}) /\ Owner(o) = p /\ taskFor[o] # None
      BY <1>2, <1>3, <2>1, StayWider
    <3>7. \A y \in ms : y.task = o
      BY <1>6, <1>7
    <3> QED BY <3>2, <3>3, <3>4, <3>5, <3>6, <3>7, WorkMoves
  <2>2. CASE Owner(o) # p
    <3>1. work' = work /\ \A y \in ms : Owner(y.task) # p
      BY <1>5, <1>6, <1>7, <2>2
    <3> QED BY <1>3, <3>1, WorkRests
  <2> QED BY <2>1, <2>2
<1>12. /\ offering' \in [Processes -> BOOLEAN] /\ draining' \in [Processes -> BOOLEAN]
       /\ \A q \in Processes : offering'[q] = offering[q]
       /\ SettingsOnce' /\ ran' \in [Requests -> Nat] /\ faults' \in 0..MaxFaults
  BY <1>3, <1>4 DEF IInv, TypeOK
<1> QED BY <1>3, <1>9, <1>10, <1>11, <1>12, RunnerTurn

LEMMA RunnerReceivesKeeps ==
  ASSUME IInv, NEW p \in Processes, RunnerReceives(p), OthersRest, faults' = faults
  PROVE  IInv'
<1>1. PICK m : /\ m = Head(toRunner[p])
               /\ \/ m.type = "registered" /\ Registered(p)
                  \/ m.type = "drain" /\ OnBrokerDrain(p)
                  \/ m.type = "accept" /\ OfferAccepted(p, m.task)
                  \/ m.type = "cancel" /\ TaskCancelled(p, m.task)
                  \/ m.type = "settings" /\ ReceivedSettings(p, m.task)
  BY DEF RunnerReceives
<1>2. Reads(p, m)
  BY <1>1 DEF RunnerReceives, Reads
<1>3. CASE m.type = "registered" /\ Registered(p)
  BY <1>2, <1>3, MessageNoted DEF Registered
<1>4. CASE m.type = "drain" /\ OnBrokerDrain(p)
  BY <1>2, <1>4, MessageNoted DEF OnBrokerDrain
<1> QED
  BY <1>1, <1>2, <1>3, <1>4, OfferAcceptedKeeps, TaskCancelledKeeps, ReceivedSettingsKeeps

LEMMA RunnerStepKeeps ==
  ASSUME IInv, NEW p \in Processes, RunnerStep(p)
  PROVE  IInv'
<1>1. /\ UNCHANGED <<ident, socket, current, known, removals, replaced>>
      /\ UNCHANGED <<pool, pending, accepting, deferred>>
      /\ UNCHANGED <<missed, tasks, closing, killed, request>>
  BY DEF RunnerStep, routeVars
<1>2. CASE StopRunner(p) /\ Fault
  BY <1>1, <1>2, StopRunnerKeeps DEF StopRunner, OthersRest
<1>3. CASE OfferTick(p) /\ faults' = faults
  BY <1>1, <1>3, OfferTickKeeps DEF OfferTick, OthersRest
<1>4. CASE RunnerReceives(p) /\ faults' = faults
  BY <1>1, <1>4, RunnerReceivesKeeps DEF RunnerReceives, OthersRest
<1>5. ASSUME NEW o \in Offers, Owner(o) = p, TaskEnds(o) \/ TaskTimedOut(o), faults' = faults
      PROVE  IInv'
  <2>1. OthersRest
    BY <1>1, <1>5 DEF TaskEnds, TaskTimedOut, OthersRest
  <2> QED BY <1>5, <2>1, TaskEndsKeeps
<1> QED BY <1>2, <1>3, <1>4, <1>5 DEF RunnerStep, RunnerNext

-----------------------------------------------------------------------------
(* The invariant, and what follows from it.                                *)

LEMMA InitIInv ==
  ASSUME Init
  PROVE  IInv
<1>1. /\ life = [p \in Processes |-> "unborn"] /\ offering = [p \in Processes |-> FALSE]
      /\ draining = [p \in Processes |-> FALSE] /\ openOffers = {}
      /\ made = [p \in Processes |-> 0] /\ work = [o \in Offers |-> "none"]
      /\ toRunner = [p \in Processes |-> <<>>] /\ toBroker = [p \in Processes |-> <<>>]
      /\ taskFor = [o \in Offers |-> None] /\ ran = [r \in Requests |-> 0]
  BY DEF Init, RunnerInit
<1>2. /\ ident \in [Processes -> Ids] /\ socket = [p \in Processes |-> "none"]
      /\ current = [i \in Ids |-> None] /\ known = [i \in Ids |-> None]
      /\ removals = {} /\ replaced = {} /\ pool = <<>> /\ pending = <<>> /\ accepting = <<>>
      /\ missed = [i \in Ids |-> 0] /\ tasks = {} /\ closing = "no" /\ killed = {}
      /\ request = [r \in Requests |-> "new"] /\ deferred = {} /\ faults = 0
  BY DEF Init
<1>3. ToSet(<<>>) = {} /\ IsInjective(<<>>)
  BY EmptyToSet
<1>4. TypeOK
  <2>1. 0 \in 0..(AcceptTimeoutLimit - 1) /\ 0 \in 0..MaxFaults /\ 0 \in 0..MaxOffers
    BY LimitIsPositive, FaultsIsNat, SlotsArePositive
  <2>2. "none" \in TaskStatuses
    BY DEF TaskStatuses
  <2> QED BY <1>1, <1>2, <2>1, <2>2 DEF TypeOK
<1>5. OffersOnce
  BY <1>1, <1>2, <1>3 DEF OffersOnce
<1>6. RequestsKept
  BY <1>2, <1>3 DEF RequestsKept
<1>7. Served
  BY <1>2, <1>3 DEF Served
<1>8. RoutesAgree
  BY <1>2 DEF RoutesAgree
<1>9. NewcomersAreFresh
  BY <1>1, <1>2, Unmatched DEF NewcomersAreFresh
<1>10. FramesMatched
  BY <1>1, <1>3 DEF FramesMatched
<1>11. AcceptedOnce
  BY <1>1, <1>3, OffersAre DEF AcceptedOnce
<1>12. SlotsWatched
  <2>1. \A p \in Processes : ~Attended(p)
    BY <1>2, Unmatched DEF Attended, Delivers
  <2> QED BY <2>1, OffersAre DEF SlotsWatched
<1>13. SettingsOnce
  <2>1. \A p \in Processes : DOMAIN toRunner[p] = {}
    BY <1>1
  <2> QED BY <1>1, <2>1 DEF SettingsOnce
<1> QED
  BY <1>4, <1>5, <1>6, <1>7, <1>8, <1>9, <1>10, <1>11, <1>12, <1>13 DEF IInv

LEMMA StutterKeeps ==
  ASSUME IInv, UNCHANGED vars
  PROVE  IInv'
<1>1. /\ UNCHANGED <<life, offering, draining, openOffers, made, work, toRunner, toBroker, ran>>
      /\ UNCHANGED <<ident, socket, current, known, removals, replaced>>
      /\ UNCHANGED <<pool, pending, accepting, deferred, taskFor>>
      /\ UNCHANGED <<missed, tasks, closing, killed, request, faults>>
  BY DEF vars, processVars, routeVars, matchVars, brokerVars
<1>2. UNCHANGED <<matchVars, toRunner, missed, tasks, request, routeVars>>
  BY <1>1 DEF matchVars, routeVars
<1>3. Sends(Nothing, {}) /\ ToCurrent(Nothing) /\ NoSettings(Nothing) /\ InboxShrinks
  BY <1>1, SendsNothing, InboxRests DEF IInv
<1>4. TypeOK'
  BY <1>1 DEF IInv, TypeOK
<1>5. RunnersRest /\ UNCHANGED matchVars
  BY <1>1 DEF RunnersRest, matchVars
<1>6. Steady /\ NewcomersAreFresh' /\ RoutesAgree'
  BY <1>1, <1>2, <1>3, <1>4, RoutesRest
<1> QED BY <1>1, <1>3, <1>4, <1>5, <1>6, QuietTurn

LEMMA NextKeeps ==
  ASSUME IInv, Next
  PROVE  IInv'
<1>1. ASSUME NEW r \in Requests, RequestTask(r) \/ RequestExpires(r) \/ CancelExecution(r)
      PROVE  IInv'
  BY <1>1, RequestTaskKeeps, RequestExpiresKeeps, CancelExecutionKeeps
<1>2. ASSUME NEW p \in Processes, RunnerStep(p) \/ Connect(p) \/ BrokerReceives(p)
      PROVE  IInv'
  BY <1>2, RunnerStepKeeps, ConnectKeeps, BrokerReceivesKeeps
<1>3. ASSUME NEW p \in Processes,
             SocketDrops(p) \/ CloseEvent(p) \/ ConnectionLost(p) \/ Dies(p)
      PROVE  IInv'
  BY <1>3, SocketDropsKeeps, CloseEventKeeps, ConnectionLostKeeps, DiesKeeps
<1>4. ASSUME NEW i \in Ids, HeartbeatFails(i)
      PROVE  IInv'
  BY <1>4, HeartbeatFailsKeeps
<1>5. ASSUME NEW d \in removals, FinishRemoval(d)
      PROVE  IInv'
  BY <1>5, FinishRemovalKeeps
<1>6. ASSUME NEW o \in Offers,
             OfferLapses(o) \/ AcceptTimesOut(o) \/ TaskTimesOut(o) \/ RelayFails(o)
      PROVE  IInv'
  BY <1>6, OfferLapsesKeeps, AcceptTimesOutKeeps, TaskTimesOutKeeps, RelayFailsKeeps
<1>7. CASE StartDraining \/ StopConnections
  BY <1>7, StartDrainingKeeps, StopConnectionsKeeps
<1> QED BY <1>1, <1>2, <1>3, <1>4, <1>5, <1>6, <1>7 DEF Next

\* Whatever requests, frames, timers, faults and removals race, the broker, the
\* server and the runners stay in step: every part of IInv holds in every state.
THEOREM Invariance == Spec => []IInv
<1>1. Init => IInv
  BY InitIInv
<1>2. IInv /\ [Next]_vars => IInv'
  BY NextKeeps, StutterKeeps
<1> QED BY <1>1, <1>2, PTL DEF Spec

\* The variables of the broker keep to their types: the count of missed
\* acceptances below its limit, and the requests to the statuses of the code.
THEOREM TypesAreKept == Spec => []TypeOK
<1>1. IInv => TypeOK
  BY DEF IInv
<1> QED BY <1>1, Invariance, PTL

\* A request that waits is up for matching exactly once, and one that runs has
\* exactly one task.
THEOREM RequestsAreKept == Spec => []NoForgottenRequest
<1>1. ASSUME IInv
      PROVE  NoForgottenRequest
  <2>1. RequestsKept
    BY <1>1 DEF IInv
  <2>2. ASSUME NEW r \in Requests
        PROVE  Cardinality({o \in tasks : taskFor[o] = r})
                 = (IF request[r] = "running" THEN 1 ELSE 0)
    <3>1. CASE request[r] = "running"
      <4>1. PICK o \in tasks : taskFor[o] = r
        BY <2>1, <3>1 DEF RequestsKept
      <4>2. {x \in tasks : taskFor[x] = r} = {o}
        BY <2>1, <4>1 DEF RequestsKept
      <4> QED BY <3>1, <4>2, FS_Singleton
    <3>2. CASE request[r] # "running"
      <4>1. {x \in tasks : taskFor[x] = r} = {}
        BY <2>1, <3>2 DEF RequestsKept
      <4> QED BY <3>2, <4>1, FS_EmptySet
    <3> QED BY <3>1, <3>2
  <2> QED BY <2>1, <2>2 DEF RequestsKept, NoForgottenRequest
<1> QED BY <1>1, Invariance, PTL

\* A runner that can be talked to holds no slot for a task nobody tracks,
\* unless the message that gives it up, or its end, is on the way.
THEOREM NothingOrphaned == Spec => []NoOrphans
<1>1. ASSUME IInv
      PROVE  NoOrphans
  <2>1. SlotsWatched
    BY <1>1 DEF IInv
  <2> QED BY <2>1 DEF SlotsWatched, NoOrphans, Attended
<1> QED BY <1>1, Invariance, PTL

\* After every turn, a request that is not being accepted and was not deferred
\* waits only because no reachable runner has an offer left.
THEOREM NothingIdle == Spec => []NoIdleMatch
<1>1. ASSUME IInv
      PROVE  NoIdleMatch
  <2>1. Served
    BY <1>1 DEF IInv
  <2>2. pool = <<>> => DOMAIN pool = {}
    OBVIOUS
  <2> QED BY <2>1, <2>2 DEF Served, NoIdleMatch
<1> QED BY <1>1, Invariance, PTL

\* A tracked task is with the connection its id has now, in the hands of a
\* removal, or of a connection that a late registration replaced.
THEOREM TasksAreHeld == Spec => []NoLostTask
<1>1. IInv => NoLostTask
  BY DEF IInv, RoutesAgree, NoLostTask
<1> QED BY <1>1, Invariance, PTL

-----------------------------------------------------------------------------
(* What requesters may rely on.                                            *)

Untouched == UNCHANGED <<request, ran>>

\* The requests of tasks that leave are answered together.
LEMMA UntrackAnswers ==
  ASSUME IInv, NEW os, os \subseteq tasks, Untrack(os, "answered"), ran' = ran
  PROVE  Promise!Next
<1> DEFINE R == {r \in Requests : \E o \in os : taskFor[o] = r}
<1>1. \A r \in R : request[r] \in {"waiting", "running"}
  BY DEF IInv, RequestsKept
<1>2. request' = [r \in Requests |-> IF r \in R THEN "answered" ELSE request[r]]
  BY DEF Untrack, Answer
<1>3. Promise!AnswerAll(R)
  BY <1>1, <1>2 DEF Promise!AnswerAll, Promise!Move
<1>4. R \in SUBSET Requests
  OBVIOUS
<1> QED BY <1>3, <1>4 DEF Promise!Next

\* A single request moves on.
LEMMA OneMoves ==
  ASSUME IInv, NEW r \in Requests, NEW a, request' = [request EXCEPT ![r] = a], ran' = ran,
         \/ request[r] = "new" /\ a \in {"waiting", "expired"}
         \/ request[r] = "waiting" /\ a \in {"expired", "running", "answered"}
         \/ request[r] = "running" /\ a = "cancelled"
  PROVE  Promise!Next
<1>1. \A from : request[r] \in from => Promise!Move({r}, from, a)
  <2>1. request' = [q \in Requests |-> IF q \in {r} THEN a ELSE request[q]]
    BY DEF IInv, TypeOK
  <2> QED BY <2>1 DEF Promise!Move
<1>2. CASE request[r] = "new" /\ a = "waiting"
  BY <1>1, <1>2 DEF Promise!Next, Promise!Ask
<1>3. CASE request[r] \in {"new", "waiting"} /\ a = "expired"
  BY <1>1, <1>3 DEF Promise!Next, Promise!Expire
<1>4. CASE request[r] = "waiting" /\ a = "running"
  BY <1>1, <1>4 DEF Promise!Next, Promise!TakeOver
<1>5. CASE request[r] = "waiting" /\ a = "answered"
  <2>1. Promise!AnswerAll({r})
    BY <1>1, <1>5 DEF Promise!AnswerAll
  <2> QED BY <2>1 DEF Promise!Next
<1>6. CASE request[r] = "running" /\ a = "cancelled"
  BY <1>1, <1>6 DEF Promise!Next, Promise!Cancel
<1> QED BY <1>2, <1>3, <1>4, <1>5, <1>6

\* A turn of a runner starts the code of one request, once, or of none.
LEMMA RunnerPromises ==
  ASSUME IInv, NEW p \in Processes, RunnerStep(p)
  PROVE  Promise!Next \/ Untouched
<1>1. request' = request
  BY DEF RunnerStep
<1>2. CASE ran' = ran
  BY <1>1, <1>2 DEF Untouched
<1>3. CASE ran' # ran
  <2>1. RunnerReceives(p)
    BY <1>3 DEF RunnerStep, RunnerNext, StopRunner, OfferTick, TaskEnds, TaskTimedOut
  <2>2. PICK m : /\ toRunner[p] # <<>> /\ m = Head(toRunner[p])
                 /\ \/ m.type = "registered" /\ Registered(p)
                    \/ m.type = "drain" /\ OnBrokerDrain(p)
                    \/ m.type = "accept" /\ OfferAccepted(p, m.task)
                    \/ m.type = "cancel" /\ TaskCancelled(p, m.task)
                    \/ m.type = "settings" /\ ReceivedSettings(p, m.task)
    BY <2>1 DEF RunnerReceives
  <2>3. m.type = "settings" /\ ran' = [ran EXCEPT ![taskFor[m.task]] = @ + 1]
    BY <1>3, <2>2
      DEF Registered, OnBrokerDrain, OfferAccepted, TaskCancelled, ReceivedSettings
  <2>4. PICK s \in Seq(ToRunner) : s = toRunner[p] /\ s # <<>>
    BY <2>2 DEF IInv, TypeOK
  <2>5. m = s[1] /\ 1 \in DOMAIN s /\ m \in ToRunner /\ m \in ToSet(s)
    BY <2>2, <2>4, HeadAndTail
  <2>6. m.task \in Offers /\ taskFor[m.task] # None
    <3>1. "settings" \in TaskTypes
      BY DEF TaskTypes
    <3> QED BY <2>3, <2>4, <2>5, <3>1, MessagesAre DEF IInv, FramesMatched
  <2>7. PICK r \in Requests : r = taskFor[m.task]
    BY <2>6 DEF IInv, TypeOK
  <2>8. request[r] \in Begun /\ ran[r] = 0
    BY <2>3, <2>4, <2>5, <2>7 DEF IInv, SettingsOnce
  <2>9. ran' = [ran EXCEPT ![r] = 1]
    BY <2>3, <2>7, <2>8
  <2>10. Promise!Run(r)
    BY <1>1, <2>8, <2>9 DEF Promise!Run, Begun
  <2> QED BY <2>10 DEF Promise!Next
<1> QED BY <1>2, <1>3

\* An acceptance takes a request over, answers it, or finds it expired.
LEMMA FramePromises ==
  ASSUME IInv, NEW p \in Processes, BrokerReceives(p)
  PROVE  Promise!Next \/ Untouched
<1>1. ran' = ran
  BY DEF BrokerReceives
<1>2. CASE request' = request
  BY <1>1, <1>2 DEF Untouched
<1>3. CASE request' # request
  <2>1. PICK m : OnRunnerMessage(m)
    BY <1>3 DEF BrokerReceives
  <2>2. \/ Accepted(m.task) \/ Finished(m.task)
    BY <1>3, <2>1 DEF OnRunnerMessage, Offered, Rejected, Deferred
  <2>3. CASE Finished(m.task)
    BY <1>1, <2>3, UntrackAnswers DEF Finished
  <2>4. CASE Accepted(m.task)
    <3>1. PICK r \in ToSet(pending), a \in {"running", "answered"} :
            request' = [request EXCEPT ![r] = a]
      BY <1>3, <2>4 DEF Accepted
    <3>2. r \in Requests /\ request[r] = "waiting"
      BY TasksAreMatched
    <3> QED BY <1>1, <3>1, <3>2, OneMoves
  <2> QED BY <2>2, <2>3, <2>4
<1> QED BY <1>2, <1>3

LEMMA StepPromises ==
  ASSUME IInv, Next
  PROVE  Promise!Next \/ Untouched
<1>1. ASSUME NEW r \in Requests, RequestTask(r)
      PROVE  Promise!Next
  BY <1>1, OneMoves DEF RequestTask
<1>2. ASSUME NEW r \in Requests, RequestExpires(r)
      PROVE  Promise!Next
  <2>1. request[r] = "waiting"
    BY <1>2, TasksAreMatched DEF RequestExpires
  <2> QED BY <1>2, <2>1, OneMoves DEF RequestExpires
<1>3. ASSUME NEW r \in Requests, CancelExecution(r)
      PROVE  Promise!Next
  <2>1. PICK o \in tasks : taskFor[o] = r /\ Untrack({o}, "cancelled") /\ ran' = ran
    BY <1>3 DEF CancelExecution
  <2>2. request[r] = "running"
    BY <2>1 DEF IInv, RequestsKept
  <2>3. request' = [request EXCEPT ![r] = "cancelled"]
    BY <2>1 DEF Untrack, Answer, IInv, TypeOK
  <2> QED BY <2>1, <2>2, <2>3, OneMoves
<1>4. ASSUME NEW p \in Processes, RunnerStep(p) \/ BrokerReceives(p)
      PROVE  Promise!Next \/ Untouched
  BY <1>4, RunnerPromises, FramePromises
<1>5. ASSUME NEW p \in Processes,
             \/ Connect(p) \/ SocketDrops(p) \/ CloseEvent(p) \/ ConnectionLost(p) \/ Dies(p)
      PROVE  Untouched
  BY <1>5 DEF Connect, Start, brokerVars, SocketDrops, CloseEvent, ConnectionLost, Dies, Untouched
<1>6. ASSUME NEW i \in Ids, HeartbeatFails(i)
      PROVE  Untouched
  BY <1>6 DEF HeartbeatFails, Untouched
<1>7. ASSUME NEW d \in removals, FinishRemoval(d)
      PROVE  Promise!Next
  <2>1. ran' = ran
    BY <1>7 DEF FinishRemoval
  <2>2. CASE Deregister(d)
    <3>1. Untrack(TasksOf(d.id), "answered") /\ TasksOf(d.id) \subseteq tasks
      BY <2>2 DEF Deregister, FailTasksOf, TasksOf
    <3> QED BY <2>1, <3>1, UntrackAnswers
  <2>3. CASE Reconnected(d)
    <3>1. Untrack(d.tasks \cap tasks, "answered") /\ d.tasks \cap tasks \subseteq tasks
      BY <2>3 DEF Reconnected
    <3> QED BY <2>1, <3>1, UntrackAnswers
  <2> QED BY <1>7, <2>2, <2>3 DEF FinishRemoval
<1>8. ASSUME NEW o \in Offers, TaskTimesOut(o) \/ RelayFails(o)
      PROVE  Promise!Next
  <2>1. o \in tasks /\ Untrack({o}, "answered") /\ ran' = ran
    BY <1>8 DEF TaskTimesOut, RelayFails
  <2>2. {o} \subseteq tasks
    BY <2>1
  <2> QED BY <2>1, <2>2, UntrackAnswers
<1>9. ASSUME NEW o \in Offers, OfferLapses(o) \/ AcceptTimesOut(o)
      PROVE  Untouched
  BY <1>9 DEF OfferLapses, AcceptTimesOut, brokerVars, Untouched
<1>10. CASE StartDraining \/ StopConnections
  BY <1>10 DEF StartDraining, StopConnections, Untouched
<1> QED
  BY <1>1, <1>2, <1>3, <1>4, <1>5, <1>6, <1>7, <1>8, <1>9, <1>10 DEF Next

\* The broker implements TaskRequestLifecycle: a request is answered once and
\* for good, and its code is started at most once, by a runner that took it over.
THEOREM Implementation == Spec => KeepsPromise
<1>1. Init => Promise!Init
  BY DEF Init, RunnerInit, Promise!Init
<1>2. IInv /\ [Next]_vars => [Promise!Next]_(Promise!vars)
  <2>1. ASSUME IInv, Next
        PROVE  [Promise!Next]_(Promise!vars)
    BY <2>1, StepPromises DEF Untouched, Promise!vars
  <2>2. ASSUME UNCHANGED vars
        PROVE  [Promise!Next]_(Promise!vars)
    BY <2>2 DEF vars, brokerVars, Promise!vars
  <2> QED BY <2>1, <2>2
<1> QED BY <1>1, <1>2, Invariance, PTL DEF Spec, KeepsPromise, Promise!Spec
=============================================================================
