----------------------------- MODULE TimerProofs -----------------------------
(***************************************************************************)
(* Proofs about Timer, for any number of alarms, any delays and any number *)
(* of calls, made by careful callers.                                      *)
(*                                                                         *)
(* What the runs check holds between the steps of the thread and of the    *)
(* interrupt only because of what each may rely on while the other is in   *)
(* the middle of its work: Underway and NotBefore say it, and make the     *)
(* invariant inductive.                                                    *)
(***************************************************************************)
EXTENDS Timer, SequencesExt, FiniteSetTheorems, WellFoundedInduction,
        TLAPS

----------------------------------------------------------------------------
(* What the operations on queues do to their elements. *)

(* fwk_list_remove unlinks one element and keeps the order of the others.  *)
LEMMA RemoveElements ==
    ASSUME NEW S, NEW q \in Seq(S), NEW k \in DOMAIN q
    PROVE  /\ RemoveAt(q, k) \in Seq(S)
           /\ Len(RemoveAt(q, k)) = Len(q) - 1
           /\ \A i \in 1..(Len(q) - 1) :
                  RemoveAt(q, k)[i] = IF i < k THEN q[i] ELSE q[i + 1]
<1> DEFINE r == RemoveAt(q, k)
           n == Len(q)
<1>1. n \in Nat /\ DOMAIN q = 1..n /\ k \in 1..n
  OBVIOUS
<1>2. /\ r \in Seq(S)
      /\ Len(r) = n - 1
      /\ \A i \in 1..(n - 1) : r[i] = IF i < k THEN q[i] ELSE q[i + 1]
  <2> DEFINE a == SubSeq(q, 1, k - 1)
             b == SubSeq(q, k + 1, n)
  <2>1. /\ a \in Seq(S) /\ Len(a) = k - 1
        /\ \A i \in 1..(k - 1) : a[i] = q[i]
    BY <1>1, SMT
  <2>2. /\ b \in Seq(S) /\ Len(b) = n - k
        /\ \A i \in 1..(n - k) : b[i] = q[k + i]
    BY <1>1, SMT
  <2>3. r = a \o b
    BY DEF RemoveAt
  <2> HIDE DEF a, b, r, n
  <2>4. /\ a \o b \in Seq(S)
        /\ DOMAIN (a \o b) = 1..(n - 1)
        /\ \A i \in 1..(n - 1) : (a \o b)[i] = IF i <= k - 1 THEN a[i]
                                               ELSE b[i - (k - 1)]
    BY <1>1, <2>1, <2>2, SMT
  <2>5. Len(r) = n - 1
    <3>1. a \in Seq(S) /\ b \in Seq(S)
      BY <2>1, <2>2
    <3>2. Len(a \o b) = Len(a) + Len(b)
      BY <3>1
    <3> QED
      BY <1>1, <2>1, <2>2, <2>3, <3>2, SMT
  <2>6. ASSUME NEW i \in 1..(n - 1)
        PROVE  r[i] = IF i < k THEN q[i] ELSE q[i + 1]
    <3>1. CASE i < k
      BY <1>1, <2>1, <2>3, <2>4, <3>1, SMT
    <3>2. CASE ~(i < k)
      <4>1. i - (k - 1) \in 1..(n - k) /\ k + (i - (k - 1)) = i + 1
        BY <1>1, <3>2, SMT
      <4>2. r[i] = b[i - (k - 1)]
        BY <1>1, <2>3, <2>4, <3>2, SMT
      <4>3. b[i - (k - 1)] = q[i + 1]
        <5> DEFINE m == i - (k - 1)
        <5>1. b[m] = q[k + m]
          BY <2>2, <4>1
        <5> QED
          BY <4>1, <5>1
      <4> QED
        BY <3>2, <4>2, <4>3
    <3> QED
      BY <3>1, <3>2
  <2> QED
    BY <2>3, <2>4, <2>5, <2>6
<1> QED
  BY <1>2

(* fwk_list_insert puts an element at a place, those behind it move by one.*)
LEMMA InsertElements ==
    ASSUME NEW S, NEW q \in Seq(S), NEW e \in S, NEW k \in 1..(Len(q) + 1)
    PROVE  /\ InsertAt(q, k, e) \in Seq(S)
           /\ Len(InsertAt(q, k, e)) = Len(q) + 1
           /\ \A i \in 1..(Len(q) + 1) :
                  InsertAt(q, k, e)[i] = IF i < k THEN q[i]
                                         ELSE IF i = k THEN e ELSE q[i - 1]
<1> DEFINE n == Len(q)
           a == SubSeq(q, 1, k - 1)
           c == Append(a, e)
           b == SubSeq(q, k, n)
<1>1. n \in Nat /\ k \in 1..(n + 1)
  OBVIOUS
<1>2. /\ a \in Seq(S) /\ Len(a) = k - 1
      /\ \A i \in 1..(k - 1) : a[i] = q[i]
  BY <1>1, SMT
<1>3. /\ b \in Seq(S) /\ Len(b) = n - k + 1
      /\ \A i \in 1..(n - k + 1) : b[i] = q[k + i - 1]
  BY <1>1, SMT
<1>4. InsertAt(q, k, e) = (a \o <<e>>) \o b /\ a \o <<e>> = c
  BY <1>2 DEF InsertAt
<1> HIDE DEF a, b, n
<1>5. /\ c \in Seq(S) /\ Len(c) = k
      /\ \A i \in 1..k : c[i] = IF i < k THEN q[i] ELSE e
  BY <1>1, <1>2, SMT
<1> HIDE DEF c
<1>6. /\ c \o b \in Seq(S) /\ Len(c \o b) = n + 1
      /\ \A i \in 1..(n + 1) : (c \o b)[i] = IF i <= k THEN c[i] ELSE b[i - k]
  BY <1>1, <1>3, <1>5, SMT
<1>7. ASSUME NEW i \in 1..(n + 1)
      PROVE  (c \o b)[i] = IF i < k THEN q[i]
                           ELSE IF i = k THEN e ELSE q[i - 1]
  <2>1. CASE i <= k
    BY <1>1, <1>5, <1>6, <2>1, SMT
  <2>2. CASE ~(i <= k)
    <3> DEFINE m == i - k
    <3>1. m \in 1..(n - k + 1) /\ k + m - 1 = i - 1
      BY <1>1, <2>2, SMT
    <3>2. b[m] = q[k + m - 1]
      BY <1>3, <3>1
    <3>3. (c \o b)[i] = b[m]
      BY <1>6, <2>2
    <3> QED
      BY <1>1, <2>2, <3>1, <3>2, <3>3, SMT
  <2> QED
    BY <2>1, <2>2
<1> QED
  BY <1>4, <1>6, <1>7 DEF n

(* A set of natural numbers has a least one. *)
LEMMA LeastNatural ==
    ASSUME NEW S, S \subseteq Nat, S # {}
    PROVE  \E x \in S : \A y \in S : x <= y
<1>1. PICK x \in S : \A y \in S : ~(<<y, x>> \in OpToRel(<, Nat))
  BY NatLessThanWellFounded, WFMin
<1>2. ASSUME NEW y \in S PROVE x <= y
  <2>1. <<y, x>> \in Nat \X Nat /\ <<y, x>>[1] = y /\ <<y, x>>[2] = x
    OBVIOUS
  <2>2. ~(y < x)
    BY <1>1, <2>1 DEF OpToRel
  <2> QED
    BY <2>2
<1> QED
  BY <1>2

(* A queue without repetition is no longer than the set it draws from. *)
LEMMA InjectiveBound ==
    ASSUME NEW S, IsFiniteSet(S), NEW q \in Seq(S), IsInjective(q)
    PROVE  Len(q) <= Cardinality(S)
<1>1. Cardinality(S) \in Nat
  BY FS_CardinalityType
<1>2. Len(q) \in Nat /\ q \in [1..Len(q) -> S] /\ DOMAIN q = 1..Len(q)
  OBVIOUS
<1>3. IsFiniteSet(1..Len(q)) /\ Cardinality(1..Len(q)) = Len(q)
  BY <1>2, FS_Interval
<1>4. ASSUME Cardinality(S) < Len(q) PROVE FALSE
  <2>1. PICK x, y \in 1..Len(q) : x # y /\ q[x] = q[y]
    BY <1>2, <1>3, <1>4, FS_PigeonHole
  <2> QED
    BY <1>2, <2>1 DEF IsInjective
<1> QED
  BY <1>1, <1>2, <1>4

----------------------------------------------------------------------------

(* The alarm in the middle of alarm_start and the one whose callback runs  *)
(* are out of the queue, and they are not the same.                        *)
Underway ==
    /\ starting # NoAlarm => started[starting] /\ ~activated[starting]
    /\ isr # NoAlarm => isr # starting /\ ~activated[isr]

(* An enabled timer is set for the head of the queue, at the earliest. *)
NotBefore ==
    enabled => alarms_active # <<>> /\ timestamp[Head(alarms_active)] <= cval

Inv == Sound /\ NotEarly /\ StoppedIsSilent /\ Underway /\ NotBefore
-----------------------------------------------------------------------------
(* The queue. *)

Queued(q, a) == \E i \in DOMAIN q : q[i] = a

Ordered(q, ts) ==
    \A i, j \in DOMAIN q : i < j => q[i] # q[j] /\ ts[q[i]] <= ts[q[j]]

(* The head of an ordered queue is due before every other alarm. *)
LEMMA HeadIsFirst ==
    ASSUME NEW ts \in [Alarms -> Int], NEW q \in Seq(Alarms), Ordered(q, ts),
           NEW a, Queued(q, a)
    PROVE  /\ q # <<>> /\ Head(q) \in Alarms /\ Queued(q, Head(q))
           /\ ts[Head(q)] <= ts[a]
<1>1. PICK i \in DOMAIN q : q[i] = a
  BY DEF Queued
<1>2. /\ Len(q) \in Nat /\ DOMAIN q = 1..Len(q) /\ i \in 1..Len(q)
      /\ \A k \in 1..Len(q) : q[k] \in Alarms
  BY <1>1
<1>3. 1 \in DOMAIN q /\ q # <<>> /\ Head(q) = q[1]
  BY <1>1, <1>2
<1>4. ts[q[1]] <= ts[q[i]]
  <2>1. CASE i = 1
    BY <1>2, <2>1
  <2>2. CASE i # 1
    <3>1. 1 < i
      BY <1>2, <2>2
    <3> QED
      BY <1>3, <3>1 DEF Ordered
  <2> QED
    BY <2>1, <2>2
<1> QED
  BY <1>1, <1>2, <1>3, <1>4 DEF Queued

(* A queue that holds an alarm once at most is no longer than the set of   *)
(* alarms.                                                                 *)
LEMMA QueueBound ==
    ASSUME NEW ts, NEW q \in Seq(Alarms), Ordered(q, ts)
    PROVE  Len(q) <= Cardinality(Alarms)
<1>1. DOMAIN q = 1..Len(q) /\ Len(q) \in Nat
  OBVIOUS
<1>2. IsInjective(q)
  BY <1>1 DEF IsInjective, Ordered
<1> QED
  BY <1>2, TimerAssumption, InjectiveBound

(* _insert_alarm_ctx_into_active_queue finds a place for the alarm. *)
LEMMA PlaceExists ==
    ASSUME NEW ts \in [Alarms -> Int], NEW q \in Seq(Alarms), NEW a \in Alarms
    PROVE  \E i \in 1..(Len(q) + 1) :
               /\ \A j \in 1..(i - 1) : ts[q[j]] < ts[a]
               /\ i <= Len(q) => ts[q[i]] >= ts[a]
<1> DEFINE n == Len(q)
           L == {i \in 1..n : ts[q[i]] >= ts[a]}
<1>1. n \in Nat /\ \A i \in 1..n : q[i] \in Alarms /\ ts[q[i]] \in Int
  OBVIOUS
<1>2. ts[a] \in Int
  OBVIOUS
<1> HIDE DEF n
<1>3. CASE L = {}
  <2>1. n + 1 \in 1..(n + 1) /\ ~(n + 1 <= n) /\ (n + 1) - 1 = n
    BY <1>1
  <2>2. \A j \in 1..n : ts[q[j]] < ts[a]
    BY <1>1, <1>2, <1>3
  <2> QED
    BY <2>1, <2>2 DEF n
<1>4. CASE L # {}
  <2>1. L \subseteq Nat
    BY <1>1
  <2>2. PICK i \in L : \A j \in L : i <= j
    BY <1>4, <2>1, LeastNatural
  <2>3. i \in 1..n /\ i \in 1..(n + 1) /\ ts[q[i]] >= ts[a]
    BY <1>1, <2>2
  <2>4. \A j \in 1..(i - 1) : ts[q[j]] < ts[a]
    BY <1>1, <1>2, <2>2, <2>3
  <2> QED
    BY <2>3, <2>4 DEF n
<1> QED
  BY <1>3, <1>4

(* _insert_alarm_ctx_into_active_queue keeps the order and adds the alarm. *)
LEMMA InsertQueue ==
    ASSUME NEW ts \in [Alarms -> Int], NEW q \in Seq(Alarms), Ordered(q, ts),
           NEW a \in Alarms, ~Queued(q, a)
    PROVE  /\ Insert(q, a, ts) \in Seq(Alarms)
           /\ Ordered(Insert(q, a, ts), ts)
           /\ \A b : Queued(Insert(q, a, ts), b) <=> b = a \/ Queued(q, b)
<1> DEFINE n == Len(q)
           At(i) == /\ \A j \in 1..(i - 1) : ts[q[j]] < ts[a]
                    /\ i <= n => ts[q[i]] >= ts[a]
           k == CHOOSE i \in 1..(n + 1) : At(i)
           r == Insert(q, a, ts)
<1>1. /\ n \in Nat /\ DOMAIN q = 1..n
      /\ \A i \in 1..n : q[i] \in Alarms /\ ts[q[i]] \in Int
  OBVIOUS
<1>2. k \in 1..(n + 1) /\ At(k)
  BY PlaceExists
<1>3. r = InsertAt(q, k, a)
  BY DEF Insert
<1> HIDE DEF k, r, At
<1>4. /\ r \in Seq(Alarms) /\ Len(r) = n + 1
      /\ \A i \in 1..(n + 1) : r[i] = IF i < k THEN q[i]
                                      ELSE IF i = k THEN a ELSE q[i - 1]
  <2>1. k \in 1..(Len(q) + 1)
    BY <1>2
  <2>2. InsertAt(q, k, a) \in Seq(Alarms)
    BY <2>1, InsertElements
  <2>3. Len(InsertAt(q, k, a)) = Len(q) + 1
    BY <2>1, InsertElements
  <2>4. ASSUME NEW i \in 1..(Len(q) + 1)
        PROVE  InsertAt(q, k, a)[i] = IF i < k THEN q[i]
                                      ELSE IF i = k THEN a ELSE q[i - 1]
    BY <2>1, InsertElements
  <2> QED
    BY <1>3, <2>2, <2>3, <2>4
<1>5. DOMAIN r = 1..(n + 1)
  BY <1>4
<1> HIDE DEF n
<1>6. \A i \in 1..n : q[i] # a
  BY <1>1 DEF Queued
<1>7. ts[a] \in Int
  OBVIOUS
<1>8. \A i \in 1..n : IF i < k THEN ts[q[i]] <= ts[a] ELSE ts[a] <= ts[q[i]]
  <2> SUFFICES ASSUME NEW i \in 1..n
               PROVE  IF i < k THEN ts[q[i]] <= ts[a] ELSE ts[a] <= ts[q[i]]
    OBVIOUS
  <2>1. CASE i < k
    <3>1. i \in 1..(k - 1)
      BY <1>1, <1>2, <2>1
    <3> QED
      BY <1>1, <1>2, <1>7, <2>1, <3>1 DEF At
  <2>2. CASE ~(i < k)
    <3>1. k <= n /\ k \in 1..n /\ ts[a] <= ts[q[k]]
      BY <1>1, <1>2, <1>7, <2>2 DEF At
    <3>2. ts[q[k]] <= ts[q[i]]
      BY <1>1, <2>2, <3>1 DEF Ordered
    <3> QED
      BY <1>1, <1>7, <2>2, <3>1, <3>2
  <2> QED
    BY <2>1, <2>2
<1>9. Ordered(r, ts)
  <2> SUFFICES ASSUME NEW i \in 1..(n + 1), NEW j \in 1..(n + 1), i < j
               PROVE  r[i] # r[j] /\ ts[r[i]] <= ts[r[j]]
    BY <1>5 DEF Ordered
  <2>1. CASE i = k
    <3>1. j - 1 \in 1..n /\ ~(j - 1 < k) /\ r[i] = a /\ r[j] = q[j - 1]
      BY <1>1, <1>2, <1>4, <2>1
    <3> QED
      BY <1>6, <1>8, <3>1
  <2>2. CASE j = k
    <3>1. i \in 1..n /\ i < k /\ r[i] = q[i] /\ r[j] = a
      BY <1>1, <1>2, <1>4, <2>2
    <3> QED
      BY <1>6, <1>8, <3>1
  <2>3. CASE i # k /\ j # k
    <3>1. PICK u \in 1..n : r[i] = q[u] /\ u = IF i < k THEN i ELSE i - 1
      BY <1>1, <1>2, <1>4, <2>3
    <3>2. PICK v \in 1..n : r[j] = q[v] /\ v = IF j < k THEN j ELSE j - 1
      BY <1>1, <1>2, <1>4, <2>3
    <3>3. u < v
      BY <1>1, <1>2, <2>3, <3>1, <3>2
    <3> QED
      BY <1>1, <3>1, <3>2, <3>3 DEF Ordered
  <2> QED
    BY <2>1, <2>2, <2>3
<1>10. ASSUME NEW b, Queued(r, b) PROVE b = a \/ Queued(q, b)
  <2>1. PICK i \in 1..(n + 1) : r[i] = b
    BY <1>5, <1>10 DEF Queued
  <2>2. b = a \/ \E u \in 1..n : q[u] = b
    <3>1. CASE i < k
      BY <1>1, <1>2, <1>4, <2>1, <3>1
    <3>2. CASE i > k
      <4>1. i - 1 \in 1..n /\ q[i - 1] = b
        BY <1>1, <1>2, <1>4, <2>1, <3>2
      <4> QED
        BY <4>1
    <3>3. CASE i = k
      BY <1>4, <1>2, <2>1, <3>3
    <3> QED
      BY <1>2, <3>1, <3>2, <3>3
  <2> QED
    BY <1>1, <2>2 DEF Queued
<1>11. Queued(r, a)
  <2>1. k \in DOMAIN r /\ r[k] = a
    BY <1>1, <1>2, <1>4, <1>5
  <2> QED
    BY <2>1 DEF Queued
<1>12. ASSUME NEW b, Queued(q, b) PROVE Queued(r, b)
  <2>1. PICK u \in 1..n : q[u] = b
    BY <1>1, <1>12 DEF Queued
  <2>2. CASE u < k
    <3>1. u \in 1..(n + 1) /\ r[u] = b
      BY <1>1, <1>2, <1>4, <2>1, <2>2
    <3> QED
      BY <1>5, <3>1 DEF Queued
  <2>3. CASE ~(u < k)
    <3>1. u + 1 \in 1..(n + 1) /\ r[u + 1] = b
      BY <1>1, <1>2, <1>4, <2>1, <2>3
    <3> QED
      BY <1>5, <3>1 DEF Queued
  <2> QED
    BY <2>2, <2>3
<1> QED
  BY <1>4, <1>9, <1>10, <1>11, <1>12 DEF r

(* fwk_list_remove of a queued alarm, as alarm_stop calls it. *)
LEMMA DequeueQueue ==
    ASSUME NEW ts \in [Alarms -> Int], NEW q \in Seq(Alarms), Ordered(q, ts),
           NEW a \in Alarms, Queued(q, a)
    PROVE  /\ Dequeue(q, a) \in Seq(Alarms)
           /\ Ordered(Dequeue(q, a), ts)
           /\ \A b : Queued(Dequeue(q, a), b) <=> b # a /\ Queued(q, b)
<1> DEFINE n == Len(q)
           k == CHOOSE i \in DOMAIN q : q[i] = a
           r == Dequeue(q, a)
<1>1. /\ n \in Nat /\ DOMAIN q = 1..n
      /\ \A i \in 1..n : q[i] \in Alarms /\ ts[q[i]] \in Int
  OBVIOUS
<1>2. k \in DOMAIN q /\ q[k] = a
  BY DEF Queued
<1>3. r = RemoveAt(q, k)
  BY DEF Dequeue
<1> HIDE DEF k, r
<1>4. /\ r \in Seq(Alarms) /\ Len(r) = n - 1
      /\ \A i \in 1..(n - 1) : r[i] = IF i < k THEN q[i] ELSE q[i + 1]
  BY <1>2, <1>3, RemoveElements
<1>5. DOMAIN r = 1..(n - 1)
  BY <1>4
<1> HIDE DEF n
<1>6. k \in 1..n
  BY <1>1, <1>2
<1>7. Ordered(r, ts)
  <2> SUFFICES ASSUME NEW i \in 1..(n - 1), NEW j \in 1..(n - 1), i < j
               PROVE  r[i] # r[j] /\ ts[r[i]] <= ts[r[j]]
    BY <1>5 DEF Ordered
  <2>1. PICK u \in 1..n : r[i] = q[u] /\ u = IF i < k THEN i ELSE i + 1
    BY <1>1, <1>4, <1>6
  <2>2. PICK v \in 1..n : r[j] = q[v] /\ v = IF j < k THEN j ELSE j + 1
    BY <1>1, <1>4, <1>6
  <2>3. u < v
    BY <1>1, <1>6, <2>1, <2>2
  <2> QED
    BY <1>1, <2>1, <2>2, <2>3 DEF Ordered
<1>8. ASSUME NEW b, Queued(r, b) PROVE b # a /\ Queued(q, b)
  <2>1. PICK i \in 1..(n - 1) : r[i] = b
    BY <1>5, <1>8 DEF Queued
  <2>2. PICK u \in 1..n : q[u] = b /\ u # k
    <3>1. CASE i < k
      BY <1>1, <1>4, <1>6, <2>1, <3>1
    <3>2. CASE ~(i < k)
      <4>1. i + 1 \in 1..n /\ i + 1 # k
        BY <1>1, <1>6, <3>2
      <4>2. q[i + 1] = b
        BY <1>4, <2>1, <3>2
      <4> QED
        BY <4>1, <4>2
    <3> QED
      BY <3>1, <3>2
  <2>3. u < k \/ k < u
    BY <1>1, <1>6, <2>2
  <2>4. q[u] # q[k]
    BY <1>1, <1>2, <2>3 DEF Ordered
  <2> QED
    BY <1>1, <1>2, <2>2, <2>4 DEF Queued
<1>9. ASSUME NEW b, Queued(q, b), b # a PROVE Queued(r, b)
  <2>1. PICK u \in 1..n : q[u] = b
    BY <1>1, <1>9 DEF Queued
  <2>2. CASE u < k
    <3>1. u \in 1..(n - 1) /\ r[u] = b
      BY <1>1, <1>4, <1>6, <2>1, <2>2
    <3> QED
      BY <1>5, <3>1 DEF Queued
  <2>3. CASE u > k
    <3>1. u - 1 \in 1..(n - 1) /\ r[u - 1] = b
      BY <1>1, <1>4, <1>6, <2>1, <2>3
    <3> QED
      BY <1>5, <3>1 DEF Queued
  <2>4. u # k
    BY <1>2, <1>9, <2>1
  <2> QED
    BY <1>1, <1>6, <2>2, <2>3, <2>4
<1> QED
  BY <1>4, <1>7, <1>8, <1>9 DEF r

(* timer_isr takes the first alarm. *)
LEMMA PopQueue ==
    ASSUME NEW ts \in [Alarms -> Int], NEW q \in Seq(Alarms), Ordered(q, ts),
           q # <<>>
    PROVE  /\ Tail(q) \in Seq(Alarms)
           /\ Ordered(Tail(q), ts)
           /\ \A b : Queued(Tail(q), b) <=> b # Head(q) /\ Queued(q, b)
<1> DEFINE n == Len(q)
           r == Tail(q)
<1>1. /\ n \in Nat /\ n >= 1 /\ DOMAIN q = 1..n /\ Head(q) = q[1]
      /\ r \in Seq(Alarms) /\ DOMAIN r = 1..(n - 1)
      /\ \A i \in 1..(n - 1) : r[i] = q[i + 1]
  OBVIOUS
<1> HIDE DEF n, r
<1>2. ASSUME NEW i \in 1..(n - 1)
      PROVE  i + 1 \in 1..n /\ 1 < i + 1 /\ r[i] = q[i + 1]
  BY <1>1
<1>3. Ordered(r, ts)
  <2> SUFFICES ASSUME NEW i \in 1..(n - 1), NEW j \in 1..(n - 1), i < j
               PROVE  r[i] # r[j] /\ ts[r[i]] <= ts[r[j]]
    BY <1>1 DEF Ordered
  <2>1. i + 1 < j + 1
    OBVIOUS
  <2>2. /\ i + 1 \in DOMAIN q /\ r[i] = q[i + 1]
        /\ j + 1 \in DOMAIN q /\ r[j] = q[j + 1]
    BY <1>1, <1>2
  <2> QED
    BY <2>1, <2>2 DEF Ordered
<1>4. ASSUME NEW b, Queued(r, b) PROVE b # Head(q) /\ Queued(q, b)
  <2>1. PICK i \in 1..(n - 1) : r[i] = b
    BY <1>1, <1>4 DEF Queued
  <2>2. i + 1 \in 1..n /\ 1 \in 1..n /\ 1 < i + 1 /\ q[i + 1] = b
    BY <1>1, <1>2, <2>1
  <2> QED
    BY <1>1, <2>2 DEF Queued, Ordered
<1>5. ASSUME NEW b, Queued(q, b), b # Head(q) PROVE Queued(r, b)
  <2>1. PICK u \in 1..n : q[u] = b
    BY <1>1, <1>5 DEF Queued
  <2>2. u - 1 \in 1..(n - 1) /\ (u - 1) + 1 = u
    BY <1>1, <1>5, <2>1
  <2>3. r[u - 1] = b
    BY <1>1, <2>1, <2>2
  <2> QED
    BY <1>1, <2>2, <2>3 DEF Queued
<1> QED
  BY <1>1, <1>3, <1>4, <1>5 DEF r

(* Only the timestamps of queued alarms matter for the order. *)
LEMMA OrderAgrees ==
    ASSUME NEW q, NEW ts, NEW tt, Ordered(q, ts),
           \A b : Queued(q, b) => tt[b] = ts[b]
    PROVE  Ordered(q, tt)
BY DEF Ordered, Queued

(* What the invariant says of the queue. *)
LEMMA QueueFacts ==
    ASSUME TypeOK, QueueSound
    PROVE  /\ Ordered(alarms_active, timestamp)
           /\ \A a \in Alarms : activated[a] <=> Queued(alarms_active, a)
           /\ alarms_active # <<>> => /\ Head(alarms_active) \in Alarms
                                      /\ activated[Head(alarms_active)]
<1>1. Ordered(alarms_active, timestamp)
  BY DEF QueueSound, Ordered
<1>2. \A a \in Alarms : activated[a] <=> Queued(alarms_active, a)
  BY DEF QueueSound, Queued
<1>3. ASSUME alarms_active # <<>>
      PROVE  Head(alarms_active) \in Alarms /\ activated[Head(alarms_active)]
  <2>1. alarms_active \in Seq(Alarms)
    BY DEF TypeOK
  <2>2. /\ 1 \in DOMAIN alarms_active /\ Head(alarms_active) = alarms_active[1]
        /\ Head(alarms_active) \in Alarms
    BY <1>3, <2>1
  <2> QED
    BY <1>2, <2>2 DEF Queued
<1> QED
  BY <1>1, <1>2, <1>3

(* And how a step establishes it. *)
LEMMA QueueSoundNext ==
    ASSUME Ordered(alarms_active', timestamp'),
           \A b \in Alarms : activated'[b] <=> Queued(alarms_active', b)
    PROVE  QueueSound'
BY DEF QueueSound, Ordered, Queued

(* _configure_timer_with_next_alarm arms the timer for the head. *)
LEMMA Configured ==
    ASSUME NEW q \in Seq(Alarms), NEW ts \in [Alarms -> Int],
           NEW on \in BOOLEAN, NEW p \in BOOLEAN, cval \in Nat,
           ConfigureTimer(q, ts, on, p), alarms_active' = q, on => q # <<>>,
           q # <<>> => timestamp'[Head(q)] = ts[Head(q)],
           p => q # <<>> /\ ts[Head(q)] <= 0
    PROVE  /\ enabled' \in BOOLEAN /\ cval' \in Nat /\ pending' \in BOOLEAN
           /\ Armed' /\ NotBefore' /\ NotEarly'
<1>1. /\ enabled' = (on \/ q # <<>>) /\ pending' = p
      /\ cval' = IF q = <<>> THEN cval ELSE Larger(MinTimestamp, ts[Head(q)])
  BY DEF ConfigureTimer, SetTimer
<1>2. MinTimestamp \in Nat
  BY TimerAssumption
<1>3. enabled' \in BOOLEAN /\ pending' \in BOOLEAN /\ NotEarly'
  BY <1>1 DEF NotEarly
<1>4. CASE q = <<>>
  BY <1>1, <1>3, <1>4 DEF Armed, NotBefore
<1>5. CASE q # <<>>
  <2>1. Head(q) \in Alarms /\ ts[Head(q)] \in Int
    BY <1>5
  <2>2. /\ cval' \in Nat /\ timestamp'[Head(q)] <= cval'
        /\ cval' <= Larger(MinTimestamp, timestamp'[Head(q)])
    BY <1>1, <1>2, <1>5, <2>1 DEF Larger
  <2> QED
    BY <1>1, <1>3, <1>5, <2>2 DEF Armed, NotBefore
<1> QED
  BY <1>4, <1>5
-----------------------------------------------------------------------------
(* The steps. *)

(* The rest of alarm_stop takes the alarm out of the queue, if it is there,*)
(* and leaves no interrupt pending for it.                                 *)
LEMMA UnqueueStep ==
    ASSUME Inv, NEW a \in Alarms, started[a], Unqueue(a),
           timestamp' \in [Alarms -> Int],
           \A b \in Alarms : b # a => timestamp'[b] = timestamp[b]
    PROVE  /\ alarms_active' \in Seq(Alarms)
           /\ Len(alarms_active') <= Cardinality(Alarms)
           /\ activated' \in [Alarms -> BOOLEAN] /\ ~activated'[a]
           /\ \A b \in Alarms : b # a => activated'[b] = activated[b]
           /\ enabled' \in BOOLEAN /\ cval' \in Nat /\ pending' \in BOOLEAN
           /\ QueueSound' /\ NotBefore' /\ NotEarly'
           /\ activated[a] => Armed'
<1>1. TypeOK /\ QueueSound /\ NotEarly
  BY DEF Inv, Sound
<1>2. /\ alarms_active \in Seq(Alarms) /\ timestamp \in [Alarms -> Int]
      /\ activated \in [Alarms -> BOOLEAN] /\ cval \in Nat
      /\ pending \in BOOLEAN
  BY <1>1 DEF TypeOK
<1>3. /\ Ordered(alarms_active, timestamp)
      /\ \A b \in Alarms : activated[b] <=> Queued(alarms_active, b)
      /\ alarms_active # <<>> => /\ Head(alarms_active) \in Alarms
                                 /\ activated[Head(alarms_active)]
  BY <1>1, QueueFacts
<1>4. CASE activated[a]
  <2> DEFINE q == Dequeue(alarms_active, a)
  <2>1. /\ alarms_active' = q
        /\ activated' = [activated EXCEPT ![a] = FALSE]
        /\ ConfigureTimer(q, timestamp, FALSE, FALSE)
    BY <1>4 DEF Unqueue
  <2>2. /\ q \in Seq(Alarms) /\ Ordered(q, timestamp)
        /\ \A b : Queued(q, b) <=> b # a /\ Queued(alarms_active, b)
    BY <1>2, <1>3, <1>4, DequeueQueue
  <2> HIDE DEF q
  <2>3. \A b : Queued(q, b) => b \in Alarms /\ timestamp'[b] = timestamp[b]
    <3>1. \A b : Queued(q, b) => b \in Alarms /\ b # a
      BY <2>2 DEF Queued
    <3> QED
      BY <3>1
  <2>4. Ordered(q, timestamp')
    BY <2>2, <2>3, OrderAgrees
  <2>5. q # <<>> => Queued(q, Head(q))
    <3> SUFFICES ASSUME q # <<>> PROVE Queued(q, Head(q))
      OBVIOUS
    <3>1. 1 \in DOMAIN q /\ Head(q) = q[1]
      BY <2>2
    <3> QED
      BY <3>1 DEF Queued
  <2>6. /\ enabled' \in BOOLEAN /\ cval' \in Nat /\ pending' \in BOOLEAN
        /\ Armed' /\ NotBefore' /\ NotEarly'
    BY <1>2, <2>1, <2>2, <2>3, <2>5, Configured
  <2>7. QueueSound'
    BY <1>2, <1>3, <2>1, <2>2, <2>4 DEF QueueSound, Ordered, Queued
  <2>8. Len(q) <= Cardinality(Alarms)
    BY <2>2, QueueBound
  <2>9. /\ activated' \in [Alarms -> BOOLEAN] /\ ~activated'[a]
        /\ \A b \in Alarms : b # a => activated'[b] = activated[b]
    BY <1>2, <2>1
  <2> QED
    BY <2>1, <2>2, <2>6, <2>7, <2>8, <2>9
<1>5. CASE ~activated[a]
  <2>1. /\ enabled' = FALSE /\ cval' = cval /\ pending' = pending
        /\ alarms_active' = alarms_active /\ activated' = activated
    BY <1>5 DEF Unqueue
  <2>2. \A b : Queued(alarms_active, b) => b \in Alarms /\ b # a
    BY <1>2, <1>3, <1>5 DEF Queued
  <2>3. Ordered(alarms_active, timestamp')
    BY <1>3, <2>2, OrderAgrees
  <2>4. QueueSound'
    BY <1>3, <2>1, <2>3 DEF QueueSound, Ordered, Queued
  <2>5. NotBefore' /\ NotEarly'
    BY <1>1, <1>3, <1>5, <2>1 DEF NotBefore, NotEarly
  <2>6. Len(alarms_active') <= Cardinality(Alarms)
    BY <1>1, <2>1 DEF TypeOK
  <2> QED
    BY <1>2, <1>5, <2>1, <2>4, <2>5, <2>6
<1> QED
  BY <1>4, <1>5

(* When the thread enables an armed timer again and the compare value has  *)
(* passed, the head of the queue is due.                                   *)
LEMMA EnableNotEarly ==
    ASSUME TypeOK, QueueSound, Armed, NotEarly, Thread, alarms_active # <<>>,
           pending' \in {pending, pending \/ cval <= 0},
           alarms_active' = alarms_active, timestamp' = timestamp
    PROVE  NotEarly'
<1>1. /\ Head(alarms_active) \in Alarms /\ cval \in Nat
      /\ timestamp[Head(alarms_active)] \in Int
      /\ timestamp[Head(alarms_active)] <= cval
  BY QueueFacts DEF TypeOK, Armed
<1>2. cval <= 0 => timestamp[Head(alarms_active)] <= 0
  BY <1>1
<1> QED
  BY <1>2 DEF NotEarly

(* alarm_stop, by the thread or by a callback. *)
LEMMA StopStep ==
    ASSUME CarefulCallers, Inv, NEW a \in Alarms, Stop(a)
    PROVE  Inv'
<1>1. /\ TypeOK /\ QueueSound /\ Armed /\ NotEarly /\ StoppedIsSilent
      /\ Underway /\ NotBefore
  BY DEF Inv, Sound
<1>2. /\ Thread \/ isr # NoAlarm
      /\ Call /\ a # starting /\ AlarmStop(a)
      /\ masked' = masked /\ starting' = starting /\ isr' = isr
  BY DEF Stop, Permitted
<1>3. /\ started' = [started EXCEPT ![a] = FALSE]
      /\ periodic' = periodic /\ delay' = delay /\ timestamp' = timestamp
  BY <1>2 DEF AlarmStop
<1>4. /\ started' \in [Alarms -> BOOLEAN] /\ ~started'[a]
      /\ \A b \in Alarms : b # a => started'[b] = started[b]
  BY <1>1, <1>3 DEF TypeOK
<1>5. calls' \in 0..MaxCalls
  BY <1>1, <1>2, TimerAssumption DEF TypeOK, Call
<1>6. CASE started[a]
  <2>1. Unqueue(a) /\ (activated[a] \/ isr # NoAlarm)
    BY <1>2, <1>6 DEF AlarmStop, Stop, Permitted
  <2>2. /\ alarms_active' \in Seq(Alarms)
        /\ Len(alarms_active') <= Cardinality(Alarms)
        /\ activated' \in [Alarms -> BOOLEAN] /\ ~activated'[a]
        /\ \A b \in Alarms : b # a => activated'[b] = activated[b]
        /\ enabled' \in BOOLEAN /\ cval' \in Nat /\ pending' \in BOOLEAN
        /\ QueueSound' /\ NotBefore' /\ NotEarly'
        /\ activated[a] => Armed'
    <3>1. timestamp' \in [Alarms -> Int]
      BY <1>1, <1>3 DEF TypeOK
    <3> QED
      BY <1>3, <1>6, <2>1, <3>1, UnqueueStep
  <2>3. Armed'
    BY <1>2, <2>1, <2>2 DEF Armed, Thread
  <2>4. TypeOK'
    BY <1>1, <1>2, <1>3, <1>4, <1>5, <2>2 DEF TypeOK
  <2>5. StoppedIsSilent'
    BY <1>1, <1>4, <2>2 DEF StoppedIsSilent
  <2>6. Underway'
    BY <1>1, <1>2, <1>4, <2>2 DEF Underway, TypeOK
  <2> QED
    BY <2>2, <2>3, <2>4, <2>5, <2>6 DEF Inv, Sound
<1>7. CASE ~started[a]
  <2>1. Thread /\ alarms_active # <<>>
    BY <1>2, <1>7 DEF Stop, Permitted
  <2>2. /\ enabled' = TRUE /\ pending' \in {pending, pending \/ cval <= 0}
        /\ alarms_active' = alarms_active /\ activated' = activated
        /\ cval' = cval
    BY <1>2, <1>7 DEF AlarmStop, Enable
  <2>3. QueueSound'
    BY <1>1, <1>3, <2>2 DEF QueueSound
  <2>4. Armed' /\ NotBefore'
    BY <1>1, <1>2, <1>3, <2>1, <2>2 DEF Armed, NotBefore, Thread
  <2>5. NotEarly'
    BY <1>1, <1>3, <2>1, <2>2, EnableNotEarly
  <2>6. TypeOK'
    BY <1>1, <1>2, <1>3, <1>4, <1>5, <2>2 DEF TypeOK
  <2>7. StoppedIsSilent'
    BY <1>1, <1>4, <1>7, <2>2 DEF StoppedIsSilent
  <2>8. Underway'
    BY <1>1, <1>2, <1>4, <2>2 DEF Underway, TypeOK
  <2> QED
    BY <2>3, <2>4, <2>5, <2>6, <2>7, <2>8 DEF Inv, Sound
<1> QED
  BY <1>6, <1>7

(* alarm_start up to disable. *)
LEMMA StartDescribeStep ==
    ASSUME Inv, NEW a \in Alarms, NEW d \in Nat, NEW p \in BOOLEAN,
           StartDescribe(a, d, p)
    PROVE  Inv'
<1>1. /\ TypeOK /\ QueueSound /\ NotEarly /\ StoppedIsSilent
      /\ Underway /\ NotBefore
  BY DEF Inv, Sound
<1>2. /\ isr = NoAlarm /\ Call /\ starting' = a /\ isr' = isr
      /\ started' = [started EXCEPT ![a] = TRUE]
      /\ periodic' = [periodic EXCEPT ![a] = p]
      /\ delay' = [delay EXCEPT ![a] = d]
      /\ timestamp' = [timestamp EXCEPT ![a] = d]
      /\ masked' = masked
  BY DEF StartDescribe, Thread
<1>3. /\ started' \in [Alarms -> BOOLEAN] /\ started'[a]
      /\ \A b \in Alarms : b # a => started'[b] = started[b]
      /\ periodic' \in [Alarms -> BOOLEAN]
  BY <1>1, <1>2 DEF TypeOK
<1>4. /\ delay' \in [Alarms -> Nat] /\ timestamp' \in [Alarms -> Int]
      /\ \A b \in Alarms : b # a => timestamp'[b] = timestamp[b]
  BY <1>1, <1>2 DEF TypeOK
<1>5. calls' \in 0..MaxCalls
  BY <1>1, <1>2, TimerAssumption DEF TypeOK, Call
<1>6. a # NoAlarm
  BY TimerAssumption
<1>7. /\ alarms_active' \in Seq(Alarms)
      /\ Len(alarms_active') <= Cardinality(Alarms)
      /\ activated' \in [Alarms -> BOOLEAN] /\ ~activated'[a]
      /\ \A b \in Alarms : b # a => activated'[b] = activated[b]
      /\ enabled' \in BOOLEAN /\ cval' \in Nat /\ pending' \in BOOLEAN
      /\ QueueSound' /\ NotBefore' /\ NotEarly'
  <2>1. CASE started[a]
    <3>1. Unqueue(a)
      BY <2>1 DEF StartDescribe
    <3> QED
      BY <1>4, <2>1, <3>1, UnqueueStep
  <2>2. CASE ~started[a]
    <3>1. /\ alarms_active' = alarms_active /\ activated' = activated
          /\ enabled' = enabled /\ cval' = cval /\ pending' = pending
      BY <2>2 DEF StartDescribe, timerVars
    <3>2. ~activated[a]
      BY <1>1, <2>2 DEF StoppedIsSilent
    <3>3. /\ Ordered(alarms_active, timestamp)
          /\ \A b \in Alarms : activated[b] <=> Queued(alarms_active, b)
          /\ alarms_active # <<>> => /\ Head(alarms_active) \in Alarms
                                     /\ activated[Head(alarms_active)]
      BY <1>1, QueueFacts
    <3>4. \A b : Queued(alarms_active, b) => b \in Alarms /\ b # a
      BY <1>1, <3>2, <3>3 DEF Queued, TypeOK
    <3>5. Ordered(alarms_active, timestamp')
      BY <1>4, <3>3, <3>4, OrderAgrees
    <3>6. QueueSound'
      BY <3>1, <3>3, <3>5 DEF QueueSound, Ordered, Queued
    <3>7. NotBefore' /\ NotEarly'
      BY <1>1, <1>4, <3>1, <3>2, <3>3 DEF NotBefore, NotEarly
    <3> QED
      BY <1>1, <3>1, <3>2, <3>6, <3>7 DEF TypeOK
  <2> QED
    BY <2>1, <2>2
<1>8. TypeOK'
  BY <1>1, <1>2, <1>3, <1>4, <1>5, <1>7 DEF TypeOK
<1>9. Armed'
  BY <1>2, <1>6 DEF Armed, Thread
<1>10. StoppedIsSilent'
  BY <1>1, <1>3, <1>7 DEF StoppedIsSilent
<1>11. Underway'
  BY <1>2, <1>3, <1>7 DEF Underway
<1> QED
  BY <1>7, <1>8, <1>9, <1>10, <1>11 DEF Inv, Sound

(* An alarm is queued and the timer configured, by alarm_start or at the   *)
(* end of timer_isr: a pending interrupt finds an alarm that is due.       *)
LEMMA QueueStep ==
    ASSUME Inv, NEW a \in Alarms, ~activated[a],
           timestamp' \in [Alarms -> Int],
           \A b \in Alarms : b # a => timestamp'[b] = timestamp[b],
           alarms_active' = Insert(alarms_active, a, timestamp'),
           activated' = [activated EXCEPT ![a] = TRUE],
           NEW on \in BOOLEAN,
           ConfigureTimer(alarms_active', timestamp', on, pending)
    PROVE  /\ alarms_active' \in Seq(Alarms)
           /\ Len(alarms_active') <= Cardinality(Alarms)
           /\ activated' \in [Alarms -> BOOLEAN] /\ activated'[a]
           /\ \A b \in Alarms : b # a => activated'[b] = activated[b]
           /\ enabled' \in BOOLEAN /\ cval' \in Nat /\ pending' \in BOOLEAN
           /\ QueueSound' /\ Armed' /\ NotBefore' /\ NotEarly'
<1> DEFINE q == Insert(alarms_active, a, timestamp')
<1>1. TypeOK /\ QueueSound /\ NotEarly
  BY DEF Inv, Sound
<1>2. /\ alarms_active \in Seq(Alarms) /\ timestamp \in [Alarms -> Int]
      /\ activated \in [Alarms -> BOOLEAN] /\ cval \in Nat
      /\ pending \in BOOLEAN
  BY <1>1 DEF TypeOK
<1>3. /\ Ordered(alarms_active, timestamp)
      /\ \A b \in Alarms : activated[b] <=> Queued(alarms_active, b)
      /\ alarms_active # <<>> => /\ Head(alarms_active) \in Alarms
                                 /\ activated[Head(alarms_active)]
  BY <1>1, QueueFacts
<1>4. \A b : Queued(alarms_active, b) => b \in Alarms /\ b # a
  BY <1>2, <1>3 DEF Queued
<1>5. Ordered(alarms_active, timestamp')
  BY <1>3, <1>4, OrderAgrees
<1>6. /\ q \in Seq(Alarms) /\ Ordered(q, timestamp')
      /\ \A b : Queued(q, b) <=> b = a \/ Queued(alarms_active, b)
  BY <1>2, <1>4, <1>5, InsertQueue
<1> HIDE DEF q
<1>7. pending => q # <<>> /\ timestamp'[Head(q)] <= 0
  <2> SUFFICES ASSUME pending
               PROVE  q # <<>> /\ timestamp'[Head(q)] <= 0
    OBVIOUS
  <2> DEFINE h == Head(alarms_active)
  <2>1. /\ h \in Alarms /\ Queued(q, h) /\ timestamp[h] <= 0
        /\ timestamp'[h] = timestamp[h]
    BY <1>1, <1>3, <1>6 DEF NotEarly
  <2>2. q # <<>> /\ Head(q) \in Alarms /\ timestamp'[Head(q)] <= timestamp'[h]
    BY <1>6, <2>1, HeadIsFirst
  <2>3. timestamp'[h] \in Int /\ timestamp'[Head(q)] \in Int
    BY <2>1, <2>2
  <2> HIDE DEF h
  <2> QED
    BY <2>1, <2>2, <2>3
<1>8. /\ enabled' \in BOOLEAN /\ cval' \in Nat /\ pending' \in BOOLEAN
      /\ Armed' /\ NotBefore' /\ NotEarly'
  <2>1. q # <<>>
    <3>1. Queued(q, a)
      BY <1>6
    <3> QED
      BY <3>1 DEF Queued
  <2> QED
    BY <1>2, <1>6, <1>7, <2>1, Configured DEF q
<1>9. /\ activated' \in [Alarms -> BOOLEAN] /\ activated'[a]
      /\ \A b \in Alarms : b # a => activated'[b] = activated[b]
  BY <1>2
<1>10. alarms_active' = q
  BY DEF q
<1>11. QueueSound'
  <2>1. ASSUME NEW b \in Alarms
        PROVE  activated'[b] <=> Queued(alarms_active', b)
    BY <1>3, <1>6, <1>9, <1>10
  <2> QED
    BY <1>6, <1>10, <2>1, QueueSoundNext
<1>12. Len(q) <= Cardinality(Alarms)
  BY <1>6, QueueBound
<1> QED
  BY <1>6, <1>8, <1>9, <1>10, <1>11, <1>12

(* alarm_start, from disable on. *)
LEMMA StartQueueStep ==
    ASSUME Inv, StartQueue
    PROVE  Inv'
<1>1. /\ TypeOK /\ StoppedIsSilent /\ Underway
  BY DEF Inv, Sound
<1>2. /\ starting # NoAlarm /\ isr = NoAlarm /\ starting' = NoAlarm
      /\ alarms_active' = Insert(alarms_active, starting, timestamp)
      /\ ConfigureTimer(alarms_active', timestamp, FALSE, pending)
      /\ activated' = [activated EXCEPT ![starting] = TRUE]
      /\ started' = started /\ periodic' = periodic /\ delay' = delay
      /\ timestamp' = timestamp /\ masked' = masked /\ isr' = isr
      /\ calls' = calls
  BY DEF StartQueue
<1>3. starting \in Alarms /\ started[starting] /\ ~activated[starting]
  BY <1>1, <1>2 DEF TypeOK, Underway
<1>4. timestamp' \in [Alarms -> Int]
  BY <1>1, <1>2 DEF TypeOK
<1>5. /\ alarms_active' \in Seq(Alarms)
      /\ Len(alarms_active') <= Cardinality(Alarms)
      /\ activated' \in [Alarms -> BOOLEAN] /\ activated'[starting]
      /\ \A b \in Alarms : b # starting => activated'[b] = activated[b]
      /\ enabled' \in BOOLEAN /\ cval' \in Nat /\ pending' \in BOOLEAN
      /\ QueueSound' /\ Armed' /\ NotBefore' /\ NotEarly'
  BY <1>2, <1>3, <1>4, QueueStep
<1>6. TypeOK'
  BY <1>1, <1>2, <1>5 DEF TypeOK
<1>7. StoppedIsSilent'
  BY <1>1, <1>2, <1>3, <1>5 DEF StoppedIsSilent
<1>8. Underway'
  BY <1>2 DEF Underway
<1> QED
  BY <1>5, <1>6, <1>7, <1>8 DEF Inv, Sound

(* get_next_alarm_remaining enables the timer again. *)
LEMMA GetNextStep ==
    ASSUME CarefulCallers, Inv, GetNextAlarmRemaining
    PROVE  Inv'
<1>1. /\ TypeOK /\ QueueSound /\ Armed /\ NotEarly /\ StoppedIsSilent
      /\ Underway /\ NotBefore
  BY DEF Inv, Sound
<1>2. /\ Thread /\ Call /\ alarms_active # <<>>
      /\ enabled' = TRUE /\ pending' \in {pending, pending \/ cval <= 0}
      /\ alarms_active' = alarms_active /\ activated' = activated
      /\ started' = started /\ periodic' = periodic /\ delay' = delay
      /\ timestamp' = timestamp /\ cval' = cval /\ masked' = masked
      /\ starting' = starting /\ isr' = isr
  BY DEF GetNextAlarmRemaining, Enable, alarmVars
<1>3. calls' \in 0..MaxCalls
  BY <1>1, <1>2, TimerAssumption DEF TypeOK, Call
<1>4. TypeOK'
  BY <1>1, <1>2, <1>3 DEF TypeOK
<1>5. NotEarly'
  BY <1>1, <1>2, EnableNotEarly
<1>6. QueueSound' /\ StoppedIsSilent' /\ Underway'
  BY <1>1, <1>2 DEF QueueSound, StoppedIsSilent, Underway
<1>7. Armed' /\ NotBefore'
  BY <1>1, <1>2 DEF Armed, NotBefore, Thread
<1> QED
  BY <1>4, <1>5, <1>6, <1>7 DEF Inv, Sound

(* timer_isr up to the callback: the head leaves the queue. *)
LEMMA IsrPopStep ==
    ASSUME Inv, IsrPop
    PROVE  Inv'
<1>1. /\ TypeOK /\ QueueSound /\ NotEarly /\ StoppedIsSilent /\ Underway
  BY DEF Inv, Sound
<1> DEFINE h == Head(alarms_active)
<1>2. alarms_active # <<>> /\ h \in Alarms /\ activated[h]
  BY <1>1, QueueFacts DEF IsrPop, NotEarly
<1>3. /\ enabled' = FALSE /\ pending' = FALSE /\ isr' = h
      /\ alarms_active' = Tail(alarms_active)
      /\ activated' = [activated EXCEPT ![h] = FALSE]
      /\ started' = started /\ periodic' = periodic /\ delay' = delay
      /\ timestamp' = timestamp /\ cval' = cval /\ masked' = masked
      /\ starting' = starting /\ calls' = calls
  BY <1>2 DEF IsrPop
<1> HIDE DEF h
<1>4. /\ alarms_active \in Seq(Alarms) /\ timestamp \in [Alarms -> Int]
      /\ activated \in [Alarms -> BOOLEAN]
  BY <1>1 DEF TypeOK
<1>5. /\ Ordered(alarms_active, timestamp)
      /\ \A b \in Alarms : activated[b] <=> Queued(alarms_active, b)
  BY <1>1, QueueFacts
<1>6. /\ alarms_active' \in Seq(Alarms) /\ Ordered(alarms_active', timestamp)
      /\ \A b : Queued(alarms_active', b) <=> b # h /\ Queued(alarms_active, b)
  BY <1>2, <1>3, <1>4, <1>5, PopQueue DEF h
<1>7. Len(alarms_active') <= Cardinality(Alarms)
  BY <1>6, QueueBound
<1>8. /\ activated' \in [Alarms -> BOOLEAN] /\ ~activated'[h]
      /\ \A b \in Alarms : b # h => activated'[b] = activated[b]
  BY <1>2, <1>3, <1>4
<1>9. QueueSound'
  <2>1. ASSUME NEW b \in Alarms
        PROVE  activated'[b] <=> Queued(alarms_active', b)
    BY <1>5, <1>6, <1>8
  <2> QED
    BY <1>3, <1>6, <2>1, QueueSoundNext
<1>10. h # NoAlarm
  BY <1>2, TimerAssumption
<1>11. Armed' /\ NotBefore' /\ NotEarly'
  BY <1>3, <1>10 DEF Armed, NotBefore, NotEarly, Thread
<1>12. TypeOK'
  BY <1>1, <1>2, <1>3, <1>6, <1>7, <1>8 DEF TypeOK
<1>13. StoppedIsSilent'
  BY <1>1, <1>3, <1>8 DEF StoppedIsSilent
<1>14. Underway'
  BY <1>1, <1>2, <1>3, <1>8 DEF Underway, TypeOK
<1> QED
  BY <1>9, <1>11, <1>12, <1>13, <1>14 DEF Inv, Sound

(* timer_isr after the callback: only an alarm that is still started is    *)
(* queued again.                                                           *)
LEMMA IsrEndStep ==
    ASSUME Inv, IsrEnd
    PROVE  Inv'
<1>1. /\ TypeOK /\ QueueSound /\ NotEarly /\ StoppedIsSilent /\ Underway
      /\ NotBefore /\ enabled \in BOOLEAN
  BY DEF Inv, Sound, TypeOK
<1>2. /\ isr # NoAlarm /\ isr' = NoAlarm
      /\ started' = started /\ periodic' = periodic /\ delay' = delay
      /\ masked' = masked /\ starting' = starting /\ calls' = calls
  BY DEF IsrEnd
<1>3. isr \in Alarms /\ isr # starting /\ ~activated[isr]
  BY <1>1, <1>2 DEF TypeOK, Underway
<1>4. CASE periodic[isr] /\ started[isr]
  <2> DEFINE ts == [timestamp EXCEPT ![isr] = @ + delay[isr]]
  <2>1. /\ timestamp' = ts
        /\ alarms_active' = Insert(alarms_active, isr, ts)
        /\ activated' = [activated EXCEPT ![isr] = TRUE]
        /\ ConfigureTimer(alarms_active', ts, enabled, pending)
    BY <1>4 DEF IsrEnd
  <2>2. /\ ts \in [Alarms -> Int]
        /\ \A b \in Alarms : b # isr => ts[b] = timestamp[b]
    BY <1>1, <1>3 DEF TypeOK
  <2> HIDE DEF ts
  <2>3. /\ alarms_active' \in Seq(Alarms)
        /\ Len(alarms_active') <= Cardinality(Alarms)
        /\ activated' \in [Alarms -> BOOLEAN] /\ activated'[isr]
        /\ \A b \in Alarms : b # isr => activated'[b] = activated[b]
        /\ enabled' \in BOOLEAN /\ cval' \in Nat /\ pending' \in BOOLEAN
        /\ QueueSound' /\ Armed' /\ NotBefore' /\ NotEarly'
    BY <1>1, <1>3, <2>1, <2>2, QueueStep
  <2>4. TypeOK'
    BY <1>1, <1>2, <2>1, <2>2, <2>3 DEF TypeOK
  <2>5. StoppedIsSilent'
    BY <1>1, <1>2, <1>4, <2>3 DEF StoppedIsSilent
  <2>6. Underway'
    BY <1>1, <1>2, <1>3, <2>3 DEF Underway, TypeOK
  <2> QED
    BY <2>3, <2>4, <2>5, <2>6 DEF Inv, Sound
<1>5. CASE ~(periodic[isr] /\ started[isr])
  <2>1. /\ ConfigureTimer(alarms_active, timestamp, enabled, pending)
        /\ timestamp' = timestamp /\ alarms_active' = alarms_active
        /\ activated' = activated
    BY <1>5 DEF IsrEnd
  <2>2. /\ alarms_active \in Seq(Alarms) /\ timestamp \in [Alarms -> Int]
        /\ pending \in BOOLEAN /\ cval \in Nat
    BY <1>1 DEF TypeOK
  <2>3. /\ enabled' \in BOOLEAN /\ cval' \in Nat /\ pending' \in BOOLEAN
        /\ Armed' /\ NotBefore' /\ NotEarly'
    <3>1. pending => /\ alarms_active # <<>>
                     /\ timestamp[Head(alarms_active)] <= 0
      BY <1>1 DEF NotEarly
    <3>2. enabled => alarms_active # <<>>
      BY <1>1 DEF NotBefore
    <3> QED
      BY <1>1, <2>1, <2>2, <3>1, <3>2, Configured
  <2>4. TypeOK'
    BY <1>1, <1>2, <2>1, <2>3 DEF TypeOK
  <2>5. QueueSound' /\ StoppedIsSilent' /\ Underway'
    BY <1>1, <1>2, <2>1 DEF QueueSound, StoppedIsSilent, Underway
  <2> QED
    BY <2>3, <2>4, <2>5 DEF Inv, Sound
<1> QED
  BY <1>4, <1>5

(* The counter advances: the order of the queue is kept, and the interrupt *)
(* is raised only for an alarm that is due by then.                        *)
LEMMA TickStep ==
    ASSUME Inv, Tick
    PROVE  Inv'
<1>1. /\ TypeOK /\ QueueSound /\ Armed /\ NotEarly /\ StoppedIsSilent
      /\ Underway /\ NotBefore
  BY DEF Inv, Sound
<1>2. /\ timestamp' = [a \in Alarms |->
             IF InUse(a) THEN Larger(-MaxPast, timestamp[a] - 1) ELSE 0]
      /\ cval' = Larger(0, cval - 1)
      /\ pending' = (pending \/ (enabled /\ cval = 1))
      /\ alarms_active' = alarms_active /\ activated' = activated
      /\ started' = started /\ periodic' = periodic /\ delay' = delay
      /\ enabled' = enabled /\ masked' = masked
      /\ starting' = starting /\ isr' = isr /\ calls' = calls
  BY DEF Tick
<1>3. /\ alarms_active \in Seq(Alarms) /\ timestamp \in [Alarms -> Int]
      /\ cval \in Nat
      /\ MaxPast \in Nat /\ MaxPast > 0
      /\ MinTimestamp \in Nat /\ MinTimestamp > 0
  BY <1>1, TimerAssumption DEF TypeOK
<1>4. timestamp' \in [Alarms -> Int] /\ cval' \in Nat
  <2>1. \A a \in Alarms : Larger(-MaxPast, timestamp[a] - 1) \in Int
    BY <1>3 DEF Larger
  <2>2. cval' \in Nat
    BY <1>2, <1>3 DEF Larger
  <2> QED
    BY <1>2, <2>1, <2>2
<1>5. \A a \in Alarms : activated[a] =>
          timestamp'[a] = Larger(-MaxPast, timestamp[a] - 1)
  BY <1>2 DEF InUse
<1>6. /\ Ordered(alarms_active, timestamp)
      /\ \A b \in Alarms : activated[b] <=> Queued(alarms_active, b)
      /\ alarms_active # <<>> => /\ Head(alarms_active) \in Alarms
                                 /\ activated[Head(alarms_active)]
  BY <1>1, QueueFacts
<1>7. QueueSound'
  <2>1. ASSUME NEW i \in DOMAIN alarms_active, NEW j \in DOMAIN alarms_active,
               i < j
        PROVE  /\ alarms_active[i] # alarms_active[j]
               /\ timestamp'[alarms_active[i]] <= timestamp'[alarms_active[j]]
    <3> DEFINE x == timestamp[alarms_active[i]]
               y == timestamp[alarms_active[j]]
    <3>1. alarms_active[i] # alarms_active[j] /\ x <= y
      BY <1>6, <2>1 DEF Ordered
    <3>2. /\ alarms_active[i] \in Alarms /\ activated[alarms_active[i]]
          /\ alarms_active[j] \in Alarms /\ activated[alarms_active[j]]
      BY <1>3, <1>6 DEF Queued
    <3>3. x \in Int /\ y \in Int
      BY <1>3, <3>2
    <3>4. /\ timestamp'[alarms_active[i]] = Larger(-MaxPast, x - 1)
          /\ timestamp'[alarms_active[j]] = Larger(-MaxPast, y - 1)
      BY <1>5, <3>2
    <3> HIDE DEF x, y
    <3>5. Larger(-MaxPast, x - 1) <= Larger(-MaxPast, y - 1)
      BY <1>3, <3>1, <3>3 DEF Larger
    <3> QED
      BY <3>1, <3>4, <3>5
  <2>2. Ordered(alarms_active', timestamp')
    BY <1>2, <2>1 DEF Ordered
  <2> QED
    BY <1>2, <1>6, <2>2, QueueSoundNext
<1>8. TypeOK'
  <2>1. pending' \in BOOLEAN
    BY <1>2
  <2> QED
    BY <1>1, <1>2, <1>4, <2>1 DEF TypeOK
<1>9. Armed' /\ NotBefore' /\ NotEarly'
  <2>1. CASE alarms_active = <<>>
    BY <1>1, <1>2, <2>1 DEF Armed, NotBefore, NotEarly, Thread
  <2>2. CASE alarms_active # <<>>
    <3> DEFINE t == timestamp[Head(alarms_active)]
               u == timestamp'[Head(alarms_active)]
    <3>1. u = Larger(-MaxPast, t - 1) /\ t \in Int
      BY <1>3, <1>5, <1>6, <2>2
    <3>2. t <= cval => u <= cval'
      BY <1>2, <1>3, <3>1 DEF Larger
    <3>3. cval <= Larger(MinTimestamp, t) => cval' <= Larger(MinTimestamp, u)
      BY <1>2, <1>3, <3>1 DEF Larger
    <3>4. t <= 0 \/ (t <= cval /\ cval = 1) => u <= 0
      BY <1>3, <3>1 DEF Larger
    <3>5. Armed'
      BY <1>1, <1>2, <2>2, <3>2, <3>3 DEF Armed, Thread
    <3>6. NotBefore'
      BY <1>1, <1>2, <3>2 DEF NotBefore
    <3>7. NotEarly'
      BY <1>1, <1>2, <2>2, <3>4 DEF NotEarly, NotBefore
    <3> QED
      BY <3>5, <3>6, <3>7
  <2> QED
    BY <2>1, <2>2
<1>10. StoppedIsSilent' /\ Underway'
  BY <1>1, <1>2 DEF StoppedIsSilent, Underway
<1> QED
  BY <1>7, <1>8, <1>9, <1>10 DEF Inv, Sound

(* Steps that leave the alarms and the timer alone. *)
LEMMA IdleStep ==
    ASSUME Inv, masked' \in BOOLEAN,
           UNCHANGED <<alarmVars, timerVars, starting, isr, calls>>
    PROVE  Inv'
BY DEF Inv, Sound, TypeOK, QueueSound, Armed, NotEarly, StoppedIsSilent,
       Underway, NotBefore, Thread, alarmVars, timerVars

(* The state after the configuration of the device. *)
LEMMA InitInv ==
    ASSUME Init
    PROVE  Inv
<1>1. TypeOK
  <2>1. Cardinality(Alarms) \in Nat
    BY TimerAssumption, FS_CardinalityType
  <2>2. <<>> \in Seq(Alarms) /\ Len(<<>>) = 0 /\ 0 \in 0..MaxCalls
    BY TimerAssumption
  <2>3. Len(alarms_active) <= Cardinality(Alarms)
    BY <2>1, <2>2 DEF Init
  <2>4. /\ started \in [Alarms -> BOOLEAN] /\ activated \in [Alarms -> BOOLEAN]
        /\ periodic \in [Alarms -> BOOLEAN]
    BY DEF Init
  <2>5. delay \in [Alarms -> Nat] /\ timestamp \in [Alarms -> Int]
    BY DEF Init
  <2> QED
    BY <2>2, <2>3, <2>4, <2>5 DEF Init, TypeOK
<1>2. DOMAIN alarms_active = {}
  BY DEF Init
<1>3. QueueSound /\ Armed
  BY <1>2 DEF Init, QueueSound, Armed
<1>4. NotEarly /\ StoppedIsSilent /\ Underway /\ NotBefore
  BY DEF Init, NotEarly, StoppedIsSilent, Underway, NotBefore
<1> QED
  BY <1>1, <1>3, <1>4 DEF Inv, Sound

(* Every step of the thread, the interrupt and the counter preserves it. *)
LEMMA StepInv ==
    ASSUME CarefulCallers, Inv, [Next]_vars
    PROVE  Inv'
<1>1. ASSUME NEW a \in Alarms, Stop(a) PROVE Inv'
  BY <1>1, StopStep
<1>2. ASSUME NEW a \in Alarms, NEW d \in Delays, StartDescribe(a, d, FALSE)
      PROVE  Inv'
  <2>1. d \in Nat
    BY TimerAssumption
  <2> QED
    BY <1>2, <2>1, StartDescribeStep
<1>3. ASSUME NEW a \in Alarms, NEW d \in Periods, StartDescribe(a, d, TRUE)
      PROVE  Inv'
  <2>1. d \in Nat
    BY TimerAssumption
  <2> QED
    BY <1>3, <2>1, StartDescribeStep
<1>4. CASE StartQueue
  BY <1>4, StartQueueStep
<1>5. CASE GetNextAlarmRemaining
  BY <1>5, GetNextStep
<1>6. CASE IsrPop
  BY <1>6, IsrPopStep
<1>7. CASE IsrEnd
  BY <1>7, IsrEndStep
<1>8. CASE Mask \/ Unmask
  BY <1>8, IdleStep DEF Mask, Unmask
<1>9. CASE Tick
  BY <1>9, TickStep
<1>10. CASE UNCHANGED vars
  <2>1. masked' \in BOOLEAN
    BY <1>10 DEF vars, Inv, Sound, TypeOK
  <2> QED
    BY <1>10, <2>1, IdleStep DEF vars
<1> QED
  BY <1>1, <1>2, <1>3, <1>4, <1>5, <1>6, <1>7, <1>8, <1>9, <1>10 DEF Next
-----------------------------------------------------------------------------
(* With careful callers the invariant holds of every reachable state: the  *)
(* thread's calls and the interrupt rely on it (mod_timer.c).              *)
THEOREM AlarmQueue ==
    ASSUME CarefulCallers
    PROVE  Spec => []Inv
<1>1. Init => Inv
  BY InitInv
<1>2. Inv /\ [Next]_vars => Inv'
  BY StepInv
<1> QED
  BY <1>1, <1>2, PTL DEF Spec

(* The queue holds each active alarm once, in the order they are due, and  *)
(* between calls the timer is armed exactly for its head.                  *)
THEOREM AlarmsSound ==
    ASSUME CarefulCallers
    PROVE  Spec => []Sound
<1>1. Inv => Sound
  BY DEF Inv
<1> QED
  BY <1>1, AlarmQueue, PTL

(* timer_isr always finds an alarm, and one that is due: fwk_unexpected is *)
(* not reached (mod_timer.c:565).                                          *)
THEOREM InterruptFindsAlarm ==
    ASSUME CarefulCallers
    PROVE  Spec => []NotEarly
<1>1. Inv => NotEarly
  BY DEF Inv
<1> QED
  BY <1>1, AlarmQueue, PTL

(* An alarm that was stopped, by the thread or by a callback that runs in  *)
(* the middle of timer_isr, is not in the queue and does not trigger.      *)
THEOREM Silent ==
    ASSUME CarefulCallers
    PROVE  Spec => []StoppedIsSilent
<1>1. Inv => StoppedIsSilent
  BY DEF Inv
<1> QED
  BY <1>1, AlarmQueue, PTL
=============================================================================
