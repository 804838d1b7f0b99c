----------------------- MODULE FwkNotificationProofs -----------------------
(***************************************************************************)
(* Proofs about FwkNotification, for any entities, notifications, number   *)
(* of subscription structures and of event structures.                     *)
(*                                                                         *)
(* That the notifier never goes on early is a fact about counts: what it   *)
(* was told to wait for bounds the events it has not heard of.  To carry   *)
(* it through a step one has to know that what is counted is asked for by  *)
(* the thread alone (Answers), that send_notifications is in the loop it   *)
(* began (Control) and walks a list of subscribers (Targets), and that     *)
(* event structures are neither lost nor made (PoolSound).                 *)
(***************************************************************************)
EXTENDS FwkNotification, SequencesExt, FiniteSetTheorems, TLAPS

----------------------------------------------------------------------------
(* What the operations on queues do to their elements. *)

(* fwk_list_push_tail adds the pushed element at the end. *)
LEMMA PushTail ==
    ASSUME NEW S, NEW q \in Seq(S), NEW x \in S
    PROVE  /\ Append(q, x) \in Seq(S)
           /\ Range(Append(q, x)) = Range(q) \cup {x}
           /\ IsInjective(q) /\ x \notin Range(q) => IsInjective(Append(q, x))
<1> DEFINE r == Append(q, x)
<1>1. /\ r \in Seq(S)
      /\ DOMAIN r = 1..(Len(q) + 1) /\ DOMAIN q = 1..Len(q)
      /\ Len(q) \in Nat
      /\ \A i \in 1..Len(q) : r[i] = q[i]
      /\ r[Len(q) + 1] = x
  OBVIOUS
<1>2. Range(r) = Range(q) \cup {x}
  BY <1>1, SMT DEF Range
<1>3. ASSUME IsInjective(q), x \notin Range(q)
      PROVE  IsInjective(r)
  BY <1>1, <1>3, SMT DEF Range, IsInjective
<1> QED
  BY <1>1, <1>2, <1>3

(* fwk_list_pop_head takes the first element. *)
LEMMA PopHead ==
    ASSUME NEW S, NEW q \in Seq(S), q # <<>>
    PROVE  /\ Head(q) \in S /\ Tail(q) \in Seq(S)
           /\ Head(q) \in Range(q)
           /\ IsInjective(q) => /\ IsInjective(Tail(q))
                                /\ Range(Tail(q)) = Range(q) \ {Head(q)}
<1> DEFINE t == Tail(q)
<1>1. /\ t \in Seq(S) /\ Head(q) \in S
      /\ Len(q) \in Nat \ {0}
      /\ DOMAIN t = 1..(Len(q) - 1) /\ DOMAIN q = 1..Len(q)
      /\ \A i \in 1..(Len(q) - 1) : t[i] = q[i + 1]
      /\ Head(q) = q[1]
  OBVIOUS
<1> HIDE DEF t
<1>2. Head(q) \in Range(q)
  BY <1>1, SMT DEF Range
<1>3. ASSUME IsInjective(q)
      PROVE  IsInjective(t) /\ Range(t) = Range(q) \ {Head(q)}
  <2>1. IsInjective(t)
    BY <1>1, <1>3, SMT DEF IsInjective
  <2>2. ASSUME NEW y \in Range(t)
        PROVE  y \in Range(q) /\ y # Head(q)
    <3>1. PICK i \in 1..(Len(q) - 1) : y = q[i + 1]
      BY <1>1, SMT DEF Range
    <3> QED
      BY <1>1, <1>3, <3>1, SMT DEF Range, IsInjective
  <2>3. ASSUME NEW y \in Range(q), y # Head(q)
        PROVE  y \in Range(t)
    <3>1. PICK i \in 1..Len(q) : y = q[i]
      BY <1>1, SMT DEF Range
    <3>2. i - 1 \in DOMAIN t /\ t[i - 1] = y
      BY <1>1, <2>3, <3>1, SMT
    <3> QED
      BY <3>2 DEF Range
  <2> QED
    BY <2>1, <2>2, <2>3
<1> QED
  BY <1>1, <1>2, <1>3 DEF t

(* fwk_list_remove unlinks one element and keeps the order of the others.  *)
LEMMA RemoveElements ==
    ASSUME NEW S, NEW q \in Seq(S), NEW k \in DOMAIN q
    PROVE  /\ RemoveAt(q, k) \in Seq(S)
           /\ Len(RemoveAt(q, k)) = Len(q) - 1
           /\ \A i \in 1..(Len(q) - 1) :
                  RemoveAt(q, k)[i] = IF i < k THEN q[i] ELSE q[i + 1]
<1> DEFINE r == RemoveAt(q, k)
           n == Len(q)
<1>1. n \in Nat /\ DOMAIN q = 1..n /\ k \in 1..n
  OBVIOUS
<1>2. /\ r \in Seq(S)
      /\ Len(r) = n - 1
      /\ \A i \in 1..(n - 1) : r[i] = IF i < k THEN q[i] ELSE q[i + 1]
  <2> DEFINE a == SubSeq(q, 1, k - 1)
             b == SubSeq(q, k + 1, n)
  <2>1. /\ a \in Seq(S) /\ Len(a) = k - 1
        /\ \A i \in 1..(k - 1) : a[i] = q[i]
    BY <1>1, SMT
  <2>2. /\ b \in Seq(S) /\ Len(b) = n - k
        /\ \A i \in 1..(n - k) : b[i] = q[k + i]
    BY <1>1, SMT
  <2>3. r = a \o b
    BY DEF RemoveAt
  <2> HIDE DEF a, b, r, n
  <2>4. /\ a \o b \in Seq(S)
        /\ DOMAIN (a \o b) = 1..(n - 1)
        /\ \A i \in 1..(n - 1) : (a \o b)[i] = IF i <= k - 1 THEN a[i]
                                               ELSE b[i - (k - 1)]
    BY <1>1, <2>1, <2>2, SMT
  <2>5. Len(r) = n - 1
    <3>1. a \in Seq(S) /\ b \in Seq(S)
      BY <2>1, <2>2
    <3>2. Len(a \o b) = Len(a) + Len(b)
      BY <3>1
    <3> QED
      BY <1>1, <2>1, <2>2, <2>3, <3>2, SMT
  <2>6. ASSUME NEW i \in 1..(n - 1)
        PROVE  r[i] = IF i < k THEN q[i] ELSE q[i + 1]
    <3>1. CASE i < k
      BY <1>1, <2>1, <2>3, <2>4, <3>1, SMT
    <3>2. CASE ~(i < k)
      <4>1. i - (k - 1) \in 1..(n - k) /\ k + (i - (k - 1)) = i + 1
        BY <1>1, <3>2, SMT
      <4>2. r[i] = b[i - (k - 1)]
        BY <1>1, <2>3, <2>4, <3>2, SMT
      <4>3. b[i - (k - 1)] = q[i + 1]
        <5> DEFINE m == i - (k - 1)
        <5>1. b[m] = q[k + m]
          BY <2>2, <4>1
        <5> QED
          BY <4>1, <5>1
      <4> QED
        BY <3>2, <4>2, <4>3
    <3> QED
      BY <3>1, <3>2
  <2> QED
    BY <2>3, <2>4, <2>5, <2>6
<1> QED
  BY <1>2

(* Removing from a queue without repetition leaves one, without that       *)
(* element.                                                                *)
LEMMA RemoveOne ==
    ASSUME NEW S, NEW q \in Seq(S), NEW k \in DOMAIN q
    PROVE  /\ RemoveAt(q, k) \in Seq(S)
           /\ IsInjective(q) => /\ IsInjective(RemoveAt(q, k))
                                /\ Range(RemoveAt(q, k)) = Range(q) \ {q[k]}
<1> DEFINE r == RemoveAt(q, k)
           n == Len(q)
<1>1. n \in Nat /\ DOMAIN q = 1..n /\ k \in 1..n
  OBVIOUS
<1>2. /\ r \in Seq(S)
      /\ DOMAIN r = 1..(n - 1)
      /\ \A i \in 1..(n - 1) : r[i] = IF i < k THEN q[i] ELSE q[i + 1]
  BY RemoveElements
<1> HIDE DEF r, n
<1>3. ASSUME IsInjective(q)
      PROVE  IsInjective(r) /\ Range(r) = Range(q) \ {q[k]}
  <2>1. IsInjective(r)
    <3> SUFFICES ASSUME NEW i \in 1..(n - 1), NEW j \in 1..(n - 1),
                        r[i] = r[j]
                 PROVE  i = j
      BY <1>2 DEF IsInjective
    <3>1. PICK u \in 1..n : r[i] = q[u] /\ u = IF i < k THEN i ELSE i + 1
      BY <1>1, <1>2, SMT
    <3>2. PICK v \in 1..n : r[j] = q[v] /\ v = IF j < k THEN j ELSE j + 1
      BY <1>1, <1>2, SMT
    <3>3. u = v
      BY <1>1, <1>3, <3>1, <3>2 DEF IsInjective
    <3> QED
      BY <1>1, <3>1, <3>2, <3>3, SMT
  <2>2. ASSUME NEW y \in Range(r)
        PROVE  y \in Range(q) /\ y # q[k]
    <3>1. PICK i \in 1..(n - 1) : y = IF i < k THEN q[i] ELSE q[i + 1]
      BY <1>2, SMT DEF Range
    <3> QED
      BY <1>1, <1>3, <3>1, SMT DEF Range, IsInjective
  <2>3. ASSUME NEW y \in Range(q), y # q[k]
        PROVE  y \in Range(r)
    <3>1. PICK i \in 1..n : y = q[i]
      BY <1>1, SMT DEF Range
    <3>2. CASE i < k
      <4>1. i \in DOMAIN r /\ r[i] = y
        BY <1>1, <1>2, <3>1, <3>2, SMT
      <4> QED
        BY <4>1 DEF Range
    <3>3. CASE i > k
      <4>1. i - 1 \in DOMAIN r /\ r[i - 1] = y
        BY <1>1, <1>2, <3>1, <3>3, SMT
      <4> QED
        BY <4>1 DEF Range
    <3> QED
      BY <1>1, <2>3, <3>1, <3>2, <3>3, SMT
  <2> QED
    BY <2>1, <2>2, <2>3
<1> QED
  BY <1>2, <1>3 DEF r

(* A queue without repetition is no longer than the set it draws from. *)
LEMMA InjectiveBound ==
    ASSUME NEW S, IsFiniteSet(S), NEW q \in Seq(S), IsInjective(q)
    PROVE  Len(q) <= Cardinality(S)
<1>1. Cardinality(S) \in Nat
  BY FS_CardinalityType
<1>2. Len(q) \in Nat /\ q \in [1..Len(q) -> S] /\ DOMAIN q = 1..Len(q)
  OBVIOUS
<1>3. IsFiniteSet(1..Len(q)) /\ Cardinality(1..Len(q)) = Len(q)
  BY <1>2, FS_Interval
<1>4. ASSUME Cardinality(S) < Len(q) PROVE FALSE
  <2>1. PICK x, y \in 1..Len(q) : x # y /\ q[x] = q[y]
    BY <1>2, <1>3, <1>4, FS_PigeonHole
  <2> QED
    BY <1>2, <2>1 DEF IsInjective
<1> QED
  BY <1>1, <1>2, <1>4

(* The places of a queue that hold an element of S, and how many there are.*)
Places(q, S) == {i \in DOMAIN q : q[i] \in S}

Occurrences(q, S) == Cardinality(Places(q, S))

(* There are finitely many. *)
LEMMA OccurrencesType ==
    ASSUME NEW T, NEW q \in Seq(T), NEW S
    PROVE  IsFiniteSet(Places(q, S)) /\ Occurrences(q, S) \in Nat
<1>1. Len(q) \in Nat /\ DOMAIN q = 1..Len(q)
  OBVIOUS
<1>2. IsFiniteSet(1..Len(q))
  BY <1>1, FS_Interval
<1>3. Places(q, S) \in SUBSET (1..Len(q))
  BY <1>1 DEF Places
<1>4. IsFiniteSet(Places(q, S))
  BY <1>2, <1>3, FS_Subset
<1> QED
  BY <1>4, FS_CardinalityType DEF Occurrences

(* None in the empty queue. *)
LEMMA OccurrencesEmpty ==
    ASSUME NEW S
    PROVE  Occurrences(<<>>, S) = 0
<1>1. Places(<<>>, S) = {}
  BY DEF Places
<1> QED
  BY <1>1, FS_EmptySet DEF Occurrences

(* Pushing an element adds it. *)
LEMMA OccurrencesPush ==
    ASSUME NEW T, NEW q \in Seq(T), NEW x \in T, NEW S
    PROVE  Occurrences(Append(q, x), S)
             = Occurrences(q, S) + (IF x \in S THEN 1 ELSE 0)
<1> DEFINE n == Len(q)
           r == Append(q, x)
           P == Places(q, S)
<1>1. /\ n \in Nat /\ DOMAIN q = 1..n /\ DOMAIN r = 1..(n + 1)
      /\ \A i \in 1..n : r[i] = q[i]
      /\ r[n + 1] = x
  OBVIOUS
<1>2. IsFiniteSet(P) /\ Cardinality(P) \in Nat
  BY OccurrencesType DEF Occurrences
<1> HIDE DEF n, r
<1>3. n + 1 \notin P
  BY <1>1 DEF Places
<1>4. CASE x \in S
  <2>1. Places(r, S) = P \cup {n + 1}
    BY <1>1, <1>4 DEF Places
  <2>2. Cardinality(P \cup {n + 1}) = Cardinality(P) + 1
    <3> HIDE DEF P
    <3> QED
      BY <1>2, <1>3, FS_AddElement
  <2> QED
    BY <1>4, <2>1, <2>2 DEF Occurrences, r
<1>5. CASE x \notin S
  <2>1. Places(r, S) = P
    BY <1>1, <1>5 DEF Places
  <2> QED
    BY <1>2, <1>5, <2>1 DEF Occurrences, r
<1> QED
  BY <1>4, <1>5

(* Popping the head takes it away. *)
LEMMA OccurrencesPop ==
    ASSUME NEW T, NEW q \in Seq(T), q # <<>>, NEW S
    PROVE  Occurrences(q, S)
             = Occurrences(Tail(q), S) + (IF Head(q) \in S THEN 1 ELSE 0)
<1> DEFINE n == Len(q)
           t == Tail(q)
           A == Places(t, S)
           B == {i \in 2..n : q[i] \in S}
           f == [i \in A |-> i + 1]
<1>1. /\ n \in Nat /\ n >= 1 /\ DOMAIN q = 1..n /\ Head(q) = q[1]
      /\ t \in Seq(T) /\ DOMAIN t = 1..(n - 1)
      /\ \A i \in 1..(n - 1) : t[i] = q[i + 1]
  OBVIOUS
<1>2. IsFiniteSet(A) /\ Cardinality(A) \in Nat
  BY <1>1, OccurrencesType DEF Occurrences
<1> HIDE DEF n, t
<1>3. ASSUME NEW i \in A PROVE i \in Int /\ i + 1 \in B
  BY <1>1 DEF Places
<1>4. ASSUME NEW j \in B PROVE j - 1 \in A /\ (j - 1) + 1 = j
  <2>1. j - 1 \in 1..(n - 1) /\ (j - 1) + 1 = j
    BY <1>1
  <2> QED
    BY <1>1, <2>1 DEF Places
<1> HIDE DEF A, B
<1>5. f \in Surjection(A, B)
  <2>1. f \in [A -> B]
    BY <1>3
  <2>2. \A j \in B : \E i \in A : f[i] = j
    BY <1>4
  <2> HIDE DEF f
  <2> QED
    BY <2>1, <2>2 DEF Surjection
<1>6. f \in Injection(A, B)
  <2>1. f \in [A -> B]
    BY <1>3
  <2>2. \A i, j \in A : f[i] = f[j] => i = j
    BY <1>3
  <2> HIDE DEF f
  <2> QED
    BY <2>1, <2>2 DEF Injection, IsInjective
<1> HIDE DEF f
<1>7. IsFiniteSet(B) /\ Cardinality(B) = Cardinality(A)
  BY <1>2, <1>5, <1>6, FS_Surjection
<1>8. 1 \notin B
  BY <1>1 DEF B
<1>9. CASE Head(q) \in S
  <2>1. Places(q, S) = B \cup {1}
    BY <1>1, <1>9 DEF Places, B
  <2>2. Cardinality(B \cup {1}) = Cardinality(B) + 1
    BY <1>7, <1>8, FS_AddElement
  <2> QED
    BY <1>7, <1>9, <2>1, <2>2 DEF Occurrences, A, t
<1>10. CASE Head(q) \notin S
  <2>1. Places(q, S) = B
    BY <1>1, <1>10 DEF Places, B
  <2> QED
    BY <1>2, <1>7, <1>10, <2>1 DEF Occurrences, A, t
<1> QED
  BY <1>9, <1>10

----------------------------------------------------------------------------

(* The locals of send_notifications and the event being handled belong to  *)
(* where the thread is.                                                    *)
Control ==
    /\ pc = "notify" <=> notifying # NoEvent
    /\ pc = "handler" => current_event # NoEvent
    /\ pc \in {"start", "loop"} => current_event = NoEvent
    /\ pc = "notify" =>
          /\ notifying.ret = "handler" <=> current_event # NoEvent
          /\ notifying.count < notifying.node
          /\ notifying.node <= Len(subscription_dlist[notifying.key]) + 1

(* A structure in a list has a subscriber. *)
Targets ==
    \A k \in Keys : \A i \in DOMAIN subscription_dlist[k] :
        target_id[subscription_dlist[k][i]] \in Entities

(* Every event structure is in the pool, in a queue or being handled. *)
PoolSound ==
    free_events + Len(event_queue) + Len(isr_event_queue)
      + (IF current_event = NoEvent THEN 0 ELSE 1) = EventCount

(* A response asks for none, and nobody waits for what an ISR puts. *)
Asks(e) == e.type = "response" => ~e.response_requested
Ignored(e) == e.type # "response" /\ ~e.response_requested

Answers ==
    /\ \A i \in DOMAIN event_queue : Asks(event_queue[i])
    /\ \A i \in DOMAIN isr_event_queue : Ignored(isr_event_queue[i])

Inv == /\ TypeOK /\ SubscriptionsSound /\ Control /\ Targets /\ PoolSound
       /\ Answers /\ NeverEarly
-----------------------------------------------------------------------------
(* Counting. *)

(* The events the notifier of k waits for, and whether the one in hand is. *)
Waiting(k) == {e \in Event : /\ e.key = k
                             /\ e.response_requested \/ e.type = "response"}

InHand(c, k) == IF c # NoEvent /\ c.key = k /\ c.response_requested
                THEN 1 ELSE 0

(* What Awaited counts. *)
LEMMA WaitingCount ==
    ASSUME NEW q \in Seq(Event), NEW k
    PROVE  Cardinality({i \in DOMAIN q :
                           q[i].key = k /\ (q[i].response_requested
                                             \/ q[i].type = "response")})
             = Occurrences(q, Waiting(k))
<1>1. \A i \in DOMAIN q : q[i] \in Event
  OBVIOUS
<1>2. {i \in DOMAIN q : q[i].key = k /\ (q[i].response_requested
                                          \/ q[i].type = "response")}
        = Places(q, Waiting(k))
  BY <1>1 DEF Places, Waiting
<1> QED
  BY <1>2 DEF Occurrences

(* Awaited, before and after a step. *)
LEMMA AwaitedCount ==
    ASSUME event_queue \in Seq(Event), event_queue' \in Seq(Event),
           NEW k \in Keys
    PROVE  /\ Awaited(k) = Occurrences(event_queue, Waiting(k))
                             + InHand(current_event, k)
           /\ Awaited(k)' = Occurrences(event_queue', Waiting(k))
                              + InHand(current_event', k)
           /\ Occurrences(event_queue, Waiting(k)) \in Nat
           /\ Occurrences(event_queue', Waiting(k)) \in Nat
<1>1. Awaited(k) = Occurrences(event_queue, Waiting(k))
                     + InHand(current_event, k)
  BY WaitingCount DEF Awaited, InHand
<1>2. Awaited(k)' = Occurrences(event_queue', Waiting(k))
                      + InHand(current_event', k)
  BY WaitingCount DEF Awaited, InHand
<1> QED
  BY <1>1, <1>2, OccurrencesType

(* Steps that leave alone what NeverEarly is about. *)
LEMMA SameCounts ==
    ASSUME NeverEarly,
           UNCHANGED <<event_queue, current_event, notifying,
                       pending_responses>>
    PROVE  NeverEarly'
BY DEF NeverEarly, Awaited, Sent

(* Steps that leave the lists of subscriptions alone. *)
LEMMA SameLists ==
    ASSUME SubscriptionsSound, Targets, UNCHANGED subs
    PROVE  SubscriptionsSound' /\ Targets'
BY DEF SubscriptionsSound, Targets, subs
-----------------------------------------------------------------------------
(* The steps. *)

(* The conjuncts of the invariant. *)
LEMMA InvParts ==
    ASSUME Inv
    PROVE  /\ TypeOK /\ SubscriptionsSound /\ Control /\ Targets
           /\ PoolSound /\ Answers /\ NeverEarly
BY DEF Inv

(* fwk_notification_subscribe takes the first free structure. *)
LEMMA SubscribeStep ==
    ASSUME Inv, NEW k \in Keys, NEW t \in Entities, Subscribe(k, t)
    PROVE  Inv'
<1> DEFINE s == Head(free_subscription_dlist)
           l == subscription_dlist[k]
<1>1. /\ TypeOK /\ SubscriptionsSound /\ Control /\ Targets
      /\ PoolSound /\ Answers /\ NeverEarly
  BY InvParts
<1>2. /\ pc \in {"start", "handler"}
      /\ ~Subscribed(k, t) /\ free_subscription_dlist # <<>>
      /\ free_subscription_dlist' = Tail(free_subscription_dlist)
      /\ target_id' = [target_id EXCEPT ![s] = t]
      /\ subscription_dlist' = [subscription_dlist EXCEPT ![k] = Append(@, s)]
      /\ free_events' = free_events /\ event_queue' = event_queue
      /\ isr_event_queue' = isr_event_queue
      /\ current_event' = current_event /\ pc' = pc /\ notifying' = notifying
      /\ pending_responses' = pending_responses /\ isrs' = isrs
  BY DEF Subscribe, ModuleCode
<1>3. /\ free_subscription_dlist \in Seq(Subscriptions)
      /\ subscription_dlist \in [Keys -> Seq(Subscriptions)]
      /\ target_id \in [Subscriptions -> Entities \cup {NoEvent}]
      /\ l \in Seq(Subscriptions)
  BY <1>1 DEF TypeOK
<1>4. /\ IsInjective(free_subscription_dlist)
      /\ \A m \in Keys : IsInjective(subscription_dlist[m])
      /\ \A x \in Subscriptions :
            x \in Range(free_subscription_dlist) <=>
                \A m \in Keys : x \notin Range(subscription_dlist[m])
      /\ \A m, n \in Keys : m # n =>
            Range(subscription_dlist[m]) \cap Range(subscription_dlist[n]) = {}
  BY <1>1 DEF SubscriptionsSound
<1>5. /\ s \in Subscriptions /\ Tail(free_subscription_dlist) \in Seq(Subscriptions)
      /\ s \in Range(free_subscription_dlist)
      /\ IsInjective(Tail(free_subscription_dlist))
      /\ Range(Tail(free_subscription_dlist))
           = Range(free_subscription_dlist) \ {s}
  BY <1>2, <1>3, <1>4, PopHead
<1>6. \A m \in Keys : s \notin Range(subscription_dlist[m])
  BY <1>4, <1>5
<1> HIDE DEF s
<1>7. /\ Append(l, s) \in Seq(Subscriptions)
      /\ Range(Append(l, s)) = Range(l) \cup {s}
      /\ IsInjective(Append(l, s))
  BY <1>3, <1>4, <1>5, <1>6, PushTail
<1> HIDE DEF l
<1>8. /\ subscription_dlist' \in [Keys -> Seq(Subscriptions)]
      /\ subscription_dlist'[k] = Append(l, s)
      /\ \A m \in Keys : m # k => subscription_dlist'[m] = subscription_dlist[m]
  BY <1>2, <1>3, <1>7 DEF l
<1>9. /\ target_id' \in [Subscriptions -> Entities \cup {NoEvent}]
      /\ target_id'[s] = t
      /\ \A x \in Subscriptions : x # s => target_id'[x] = target_id[x]
  BY <1>2, <1>3, <1>5
<1>10. \A m \in Keys : \A i \in DOMAIN subscription_dlist[m] :
           /\ subscription_dlist[m][i] \in Subscriptions
           /\ subscription_dlist[m][i] # s
  BY <1>3, <1>6 DEF Range
<1>11. /\ DOMAIN Append(l, s) = 1..(Len(l) + 1) /\ DOMAIN l = 1..Len(l)
       /\ Len(l) \in Nat
       /\ \A i \in 1..Len(l) : Append(l, s)[i] = l[i]
       /\ Append(l, s)[Len(l) + 1] = s
  BY <1>3
<1>12. TypeOK'
  BY <1>1, <1>2, <1>5, <1>8, <1>9 DEF TypeOK
<1>13. Targets'
  <2> SUFFICES ASSUME NEW m \in Keys, NEW i \in DOMAIN subscription_dlist'[m]
               PROVE  target_id'[subscription_dlist'[m][i]] \in Entities
    BY DEF Targets
  <2>1. CASE m # k
    BY <1>1, <1>8, <1>9, <1>10, <2>1 DEF Targets
  <2>2. CASE m = k
    <3>1. i = Len(l) + 1 \/ i \in DOMAIN l
      BY <1>8, <1>11, <2>2
    <3>2. CASE i = Len(l) + 1
      BY <1>8, <1>9, <1>11, <2>2, <3>2
    <3>3. CASE i \in DOMAIN l
      <4>1. subscription_dlist'[m][i] = subscription_dlist[k][i]
        BY <1>8, <1>11, <2>2, <3>3 DEF l
      <4> QED
        BY <1>1, <1>9, <1>10, <3>3, <4>1 DEF Targets, l
    <3> QED
      BY <3>1, <3>2, <3>3
  <2> QED
    BY <2>1, <2>2
<1>14. SubscriptionsSound'
  <2>1. \A m \in Keys : IsInjective(subscription_dlist'[m])
    BY <1>4, <1>7, <1>8
  <2>2. \A m \in Keys : Range(subscription_dlist'[m])
                          = Range(subscription_dlist[m])
                              \cup (IF m = k THEN {s} ELSE {})
    BY <1>7, <1>8 DEF l
  <2>3. ASSUME NEW x \in Subscriptions
        PROVE  x \in Range(free_subscription_dlist') <=>
                   \A m \in Keys : x \notin Range(subscription_dlist'[m])
    <3>1. CASE x = s
      BY <1>2, <1>5, <2>2, <3>1
    <3>2. CASE x # s
      <4>1. \A m \in Keys : x \in Range(subscription_dlist'[m]) <=>
                                x \in Range(subscription_dlist[m])
        BY <2>2, <3>2
      <4> QED
        BY <1>2, <1>4, <1>5, <3>2, <4>1
    <3> QED
      BY <3>1, <3>2
  <2>4. \A m, n \in Keys : m # n =>
            Range(subscription_dlist'[m]) \cap Range(subscription_dlist'[n]) = {}
    BY <1>4, <1>6, <2>2
  <2>5. ASSUME NEW m \in Keys, NEW i \in DOMAIN subscription_dlist'[m],
               NEW j \in DOMAIN subscription_dlist'[m],
               target_id'[subscription_dlist'[m][i]]
                 = target_id'[subscription_dlist'[m][j]]
        PROVE  i = j
    <3>1. CASE m # k
      <4>1. /\ subscription_dlist'[m] = subscription_dlist[m]
            /\ i \in DOMAIN subscription_dlist[m]
            /\ j \in DOMAIN subscription_dlist[m]
        BY <1>8, <3>1
      <4>2. target_id[subscription_dlist[m][i]]
              = target_id[subscription_dlist[m][j]]
        BY <1>9, <1>10, <2>5, <4>1
      <4> QED
        BY <1>1, <4>1, <4>2 DEF SubscriptionsSound
    <3>2. CASE m = k
      <4>1. \A u \in DOMAIN l : /\ subscription_dlist'[k][u] = l[u]
                                /\ target_id'[l[u]] = target_id[l[u]]
                                /\ target_id[l[u]] # t
        BY <1>2, <1>8, <1>9, <1>10, <1>11
           DEF l, Subscribed, SearchSubscription
      <4>2. subscription_dlist'[k][Len(l) + 1] = s
        BY <1>8, <1>11
      <4>3. i \in DOMAIN l \/ i = Len(l) + 1
        BY <1>8, <1>11, <3>2
      <4>4. j \in DOMAIN l \/ j = Len(l) + 1
        BY <1>8, <1>11, <3>2
      <4>5. CASE i \in DOMAIN l /\ j \in DOMAIN l
        BY <1>1, <2>5, <3>2, <4>1, <4>5 DEF SubscriptionsSound, l
      <4>6. CASE i = Len(l) + 1 /\ j \in DOMAIN l
        BY <1>9, <2>5, <3>2, <4>1, <4>2, <4>6
      <4>7. CASE i \in DOMAIN l /\ j = Len(l) + 1
        BY <1>9, <2>5, <3>2, <4>1, <4>2, <4>7
      <4> QED
        BY <4>3, <4>4, <4>5, <4>6, <4>7
    <3> QED
      BY <3>1, <3>2
  <2> QED
    BY <1>2, <1>5, <2>1, <2>3, <2>4, <2>5 DEF SubscriptionsSound
<1>15. NeverEarly'
  BY <1>1, <1>2, SameCounts
<1>16. Control' /\ PoolSound' /\ Answers'
  BY <1>1, <1>2 DEF Control, PoolSound, Answers
<1> QED
  BY <1>12, <1>13, <1>14, <1>15, <1>16 DEF Inv

(* fwk_notification_unsubscribe gives the structure back. *)
LEMMA UnsubscribeStep ==
    ASSUME Inv, NEW k \in Keys, NEW t \in Entities, Unsubscribe(k, t)
    PROVE  Inv'
<1> DEFINE l == subscription_dlist[k]
           free == free_subscription_dlist
<1>1. /\ TypeOK /\ SubscriptionsSound /\ Control /\ Targets
      /\ PoolSound /\ Answers /\ NeverEarly
  BY InvParts
<1>2. /\ pc \in {"start", "handler"}
      /\ target_id' = target_id
      /\ free_events' = free_events /\ event_queue' = event_queue
      /\ isr_event_queue' = isr_event_queue
      /\ current_event' = current_event /\ pc' = pc /\ notifying' = notifying
      /\ pending_responses' = pending_responses /\ isrs' = isrs
  BY DEF Unsubscribe, ModuleCode
<1>3. PICK h \in DOMAIN l :
          /\ free' = Append(free, l[h])
          /\ subscription_dlist' =
                 [subscription_dlist EXCEPT ![k] = RemoveAt(@, h)]
  BY DEF Unsubscribe
<1>4. /\ free \in Seq(Subscriptions) /\ l \in Seq(Subscriptions)
      /\ subscription_dlist \in [Keys -> Seq(Subscriptions)]
      /\ l[h] \in Subscriptions /\ l[h] \in Range(l)
  BY <1>1 DEF TypeOK, Range
<1>5. /\ IsInjective(free)
      /\ \A m \in Keys : IsInjective(subscription_dlist[m])
      /\ \A x \in Subscriptions :
            x \in Range(free) <=>
                \A m \in Keys : x \notin Range(subscription_dlist[m])
      /\ \A m, n \in Keys : m # n =>
            Range(subscription_dlist[m]) \cap Range(subscription_dlist[n]) = {}
  BY <1>1 DEF SubscriptionsSound
<1>6. l[h] \notin Range(free)
  BY <1>4, <1>5
<1>7. /\ free' \in Seq(Subscriptions) /\ IsInjective(free')
      /\ Range(free') = Range(free) \cup {l[h]}
  BY <1>3, <1>4, <1>5, <1>6, PushTail
<1>8. /\ RemoveAt(l, h) \in Seq(Subscriptions) /\ IsInjective(RemoveAt(l, h))
      /\ Range(RemoveAt(l, h)) = Range(l) \ {l[h]}
  BY <1>4, <1>5, RemoveOne
<1>9. /\ subscription_dlist' \in [Keys -> Seq(Subscriptions)]
      /\ subscription_dlist'[k] = RemoveAt(l, h)
      /\ \A m \in Keys : m # k => subscription_dlist'[m] = subscription_dlist[m]
  BY <1>3, <1>4, <1>8
<1>10. /\ Len(l) \in Nat /\ DOMAIN l = 1..Len(l) /\ h \in 1..Len(l)
       /\ Len(RemoveAt(l, h)) = Len(l) - 1
       /\ DOMAIN RemoveAt(l, h) = 1..(Len(l) - 1)
       /\ \A i \in 1..(Len(l) - 1) :
              RemoveAt(l, h)[i] = IF i < h THEN l[i] ELSE l[i + 1]
  BY <1>4, <1>8, RemoveElements
<1> DEFINE Old(i) == IF i < h THEN i ELSE i + 1
<1>11. \A i \in DOMAIN subscription_dlist'[k] :
           /\ i \in Int /\ Old(i) \in DOMAIN l
           /\ subscription_dlist'[k][i] = l[Old(i)]
  BY <1>9, <1>10
<1> HIDE DEF l, free
<1>12. TypeOK'
  BY <1>1, <1>2, <1>7, <1>9 DEF TypeOK, free
<1>13. Targets'
  <2> SUFFICES ASSUME NEW m \in Keys, NEW i \in DOMAIN subscription_dlist'[m]
               PROVE  target_id[subscription_dlist'[m][i]] \in Entities
    BY <1>2 DEF Targets
  <2>1. CASE m # k
    BY <1>1, <1>9, <2>1 DEF Targets
  <2>2. CASE m = k
    <3> HIDE DEF Old
    <3> QED
      BY <1>1, <1>11, <2>2 DEF Targets, l
  <2> QED
    BY <2>1, <2>2
<1>14. SubscriptionsSound'
  <2>1. \A m \in Keys : IsInjective(subscription_dlist'[m])
    BY <1>5, <1>8, <1>9
  <2>2. \A m \in Keys : Range(subscription_dlist'[m])
                          = Range(subscription_dlist[m])
                              \ (IF m = k THEN {l[h]} ELSE {})
    BY <1>8, <1>9 DEF l
  <2>3. \A m \in Keys : m # k => l[h] \notin Range(subscription_dlist[m])
    BY <1>4, <1>5 DEF l
  <2>4. \A x \in Subscriptions :
            x \in Range(free') <=>
                \A m \in Keys : x \notin Range(subscription_dlist'[m])
    BY <1>4, <1>5, <1>7, <2>2, <2>3
  <2>5. \A m, n \in Keys : m # n =>
            Range(subscription_dlist'[m]) \cap Range(subscription_dlist'[n]) = {}
    BY <1>5, <2>2
  <2>6. ASSUME NEW m \in Keys, NEW i \in DOMAIN subscription_dlist'[m],
               NEW j \in DOMAIN subscription_dlist'[m],
               target_id[subscription_dlist'[m][i]]
                 = target_id[subscription_dlist'[m][j]]
        PROVE  i = j
    <3>1. CASE m # k
      BY <1>1, <1>9, <2>6, <3>1 DEF SubscriptionsSound
    <3>2. CASE m = k
      <4>1. Old(i) = Old(j)
        <5> HIDE DEF Old
        <5> QED
          BY <1>1, <1>11, <2>6, <3>2 DEF SubscriptionsSound, l
      <4>2. i \in Int /\ j \in Int /\ h \in Int
        BY <1>10, <1>11, <3>2
      <4> QED
        BY <4>1, <4>2
    <3> QED
      BY <3>1, <3>2
  <2> QED
    BY <1>2, <1>7, <2>1, <2>4, <2>5, <2>6 DEF SubscriptionsSound, free
<1>15. NeverEarly'
  BY <1>1, <1>2, SameCounts
<1>16. Control' /\ PoolSound' /\ Answers'
  BY <1>1, <1>2 DEF Control, PoolSound, Answers
<1> QED
  BY <1>12, <1>13, <1>14, <1>15, <1>16 DEF Inv

(* fwk_notification_notify, up to the loop. *)
LEMMA NotifyStep ==
    ASSUME Inv, NEW k \in Keys, NEW req \in BOOLEAN, Notify(k, req)
    PROVE  Inv'
<1>1. /\ TypeOK /\ SubscriptionsSound /\ Control /\ Targets
      /\ PoolSound /\ Answers /\ NeverEarly
  BY InvParts
<1> DEFINE n == [key |-> k, req |-> req, node |-> 1, count |-> 0, ret |-> pc]
<1>2. /\ pc \in {"start", "handler"} /\ pending_responses[k] = 0
      /\ notifying' = n /\ pc' = "notify"
      /\ free_events' = free_events /\ event_queue' = event_queue
      /\ isr_event_queue' = isr_event_queue
      /\ current_event' = current_event
      /\ pending_responses' = pending_responses /\ isrs' = isrs
      /\ UNCHANGED subs
  BY DEF Notify, ModuleCode, MayNotify
<1>3. n \in Sending /\ n # NoEvent
  BY <1>2, FwkNotificationAssumption DEF Sending
<1>4. notifying = NoEvent
  BY <1>1, <1>2 DEF Control
<1>5. /\ n.key = k /\ n.req = req /\ n.count = 0 /\ n.node = 1 /\ n.ret = pc
  OBVIOUS
<1> HIDE DEF n
<1>6. TypeOK'
  BY <1>1, <1>2, <1>3 DEF TypeOK, subs
<1>7. Control'
  <2>1. Len(subscription_dlist[k]) \in Nat
    BY <1>1 DEF TypeOK
  <2>2. 0 < 1 /\ 1 <= Len(subscription_dlist[k]) + 1
    BY <2>1
  <2>3. pc = "handler" <=> current_event # NoEvent
    BY <1>1, <1>2 DEF Control
  <2>4. subscription_dlist' = subscription_dlist
    BY <1>2 DEF subs
  <2> QED
    BY <1>2, <1>3, <1>5, <2>2, <2>3, <2>4 DEF Control
<1>8. NeverEarly'
  <2> SUFFICES ASSUME NEW m \in Keys PROVE (Awaited(m) <= Sent(m))'
    BY DEF NeverEarly
  <2>1. Awaited(m)' = Awaited(m)
    BY <1>2 DEF Awaited
  <2>2. Sent(m) = pending_responses[m]
    BY <1>4 DEF Sent
  <2>3. Sent(m)' = pending_responses[m]
    BY <1>2, <1>5 DEF Sent
  <2> QED
    BY <1>1, <2>1, <2>2, <2>3 DEF NeverEarly
<1>9. PoolSound' /\ Answers'
  BY <1>1, <1>2 DEF PoolSound, Answers
<1>10. SubscriptionsSound' /\ Targets'
  BY <1>1, <1>2, SameLists
<1> QED
  BY <1>6, <1>7, <1>8, <1>9, <1>10 DEF Inv

(* An iteration of send_notifications: what it puts, it counts. *)
LEMMA SendNotificationStep ==
    ASSUME Inv, SendNotification
    PROVE  Inv'
<1>1. /\ TypeOK /\ SubscriptionsSound /\ Control /\ Targets
      /\ PoolSound /\ Answers /\ NeverEarly
  BY InvParts
<1> DEFINE k == notifying.key
           l == subscription_dlist[k]
           e == Notification(k, target_id[Node], notifying.req)
<1>2. /\ pc = "notify" /\ notifying.node \in DOMAIN l
      /\ isr_event_queue' = isr_event_queue /\ current_event' = current_event
      /\ pc' = pc /\ pending_responses' = pending_responses /\ isrs' = isrs
      /\ UNCHANGED subs
  BY DEF SendNotification
<1>3. notifying \in Sending /\ notifying # NoEvent
  BY <1>1, <1>2 DEF Control, TypeOK
<1>4. /\ k \in Keys /\ notifying.node \in Nat /\ notifying.node # 0
      /\ notifying.count \in Nat /\ notifying.req \in BOOLEAN
  BY <1>3 DEF Sending
<1>5. e \in Event
  <2>1. target_id[Node] \in Entities
    BY <1>1, <1>2, <1>4 DEF Targets, Node
  <2> QED
    BY <1>4, <2>1 DEF Notification, Event
<1>6. /\ e.type = "notification" /\ e.key = k
      /\ e.response_requested = notifying.req
  BY DEF Notification
<1> HIDE DEF e
<1>7. /\ event_queue \in Seq(Event) /\ isr_event_queue \in Seq(Event)
      /\ free_events \in 0..EventCount /\ EventCount \in Nat
      /\ Len(event_queue) \in Nat /\ Len(isr_event_queue) \in Nat
  BY <1>1, FwkNotificationAssumption DEF TypeOK
<1>8. SubscriptionsSound' /\ Targets'
  BY <1>1, <1>2, SameLists
<1>9. /\ notifying.count < notifying.node
      /\ notifying.node <= Len(l) /\ Len(l) \in Nat
      /\ notifying.ret = "handler" <=> current_event # NoEvent
  <2>1. l \in Seq(Subscriptions)
    BY <1>1, <1>4 DEF TypeOK
  <2>2. notifying.node <= Len(l) /\ Len(l) \in Nat
    BY <1>2, <2>1
  <2> QED
    BY <1>1, <1>2, <2>2 DEF Control
<1>10. CASE /\ free_events > 0 /\ free_events' = free_events - 1
            /\ event_queue' = Append(event_queue, e)
            /\ notifying' = [notifying EXCEPT !.node = @ + 1,
                                              !.count = @ + 1]
  <2>1. /\ event_queue' \in Seq(Event)
        /\ Len(event_queue') = Len(event_queue) + 1
        /\ DOMAIN event_queue' = 1..(Len(event_queue) + 1)
        /\ \A i \in 1..Len(event_queue) : event_queue'[i] = event_queue[i]
        /\ event_queue'[Len(event_queue) + 1] = e
    BY <1>5, <1>7, <1>10
  <2>2. /\ notifying' \in Sending
        /\ notifying'.key = k /\ notifying'.req = notifying.req
        /\ notifying'.node = notifying.node + 1
        /\ notifying'.count = notifying.count + 1
        /\ notifying'.ret = notifying.ret
    <3>1. notifying' = [key |-> notifying.key, req |-> notifying.req,
                        node |-> notifying.node + 1,
                        count |-> notifying.count + 1,
                        ret |-> notifying.ret]
      BY <1>3, <1>10 DEF Sending
    <3>2. notifying.ret \in {"start", "handler"}
      BY <1>3 DEF Sending
    <3> QED
      BY <1>4, <3>1, <3>2 DEF Sending
  <2>3. notifying' # NoEvent
    BY <2>2, FwkNotificationAssumption
  <2>4. TypeOK'
    <3>1. free_events' \in 0..EventCount
      BY <1>7, <1>10
    <3> QED
      BY <1>1, <1>2, <2>1, <2>2, <3>1 DEF TypeOK, subs
  <2>5. Control'
    <3>1. /\ notifying'.count < notifying'.node
          /\ notifying'.node <= Len(l) + 1
      BY <1>4, <1>9, <2>2
    <3>2. subscription_dlist' = subscription_dlist
      BY <1>2 DEF subs
    <3> QED
      BY <1>2, <1>9, <2>2, <2>3, <3>1, <3>2 DEF Control
  <2>6. PoolSound'
    <3> DEFINE c == IF current_event = NoEvent THEN 0 ELSE 1
    <3>1. /\ c \in Int
          /\ free_events + Len(event_queue) + Len(isr_event_queue) + c
               = EventCount
      BY <1>1 DEF PoolSound
    <3> HIDE DEF c
    <3>2. free_events' + Len(event_queue') + Len(isr_event_queue') + c
            = EventCount
      BY <1>2, <1>7, <1>10, <2>1, <3>1
    <3> QED
      BY <1>2, <3>2 DEF PoolSound, c
  <2>7. Answers'
    <3>1. \A i \in DOMAIN event_queue' : Asks(event_queue'[i])
      <4> SUFFICES ASSUME NEW i \in DOMAIN event_queue'
                   PROVE  Asks(event_queue'[i])
        OBVIOUS
      <4>1. i \in 1..Len(event_queue) \/ i = Len(event_queue) + 1
        BY <1>7, <2>1
      <4>2. Asks(e)
        BY <1>6 DEF Asks
      <4>3. \A j \in 1..Len(event_queue) : Asks(event_queue[j])
        BY <1>1, <1>7 DEF Answers
      <4> QED
        BY <2>1, <4>1, <4>2, <4>3
    <3> QED
      BY <1>1, <1>2, <3>1 DEF Answers
  <2>8. NeverEarly'
    <3> SUFFICES ASSUME NEW m \in Keys PROVE (Awaited(m) <= Sent(m))'
      BY DEF NeverEarly
    <3> DEFINE h == InHand(current_event, m)
               a == Occurrences(event_queue, Waiting(m))
    <3>1. /\ Awaited(m) = a + h
          /\ Awaited(m)' = Occurrences(event_queue', Waiting(m)) + h
          /\ a \in Nat /\ h \in Nat
      BY <1>2, <1>7, <2>1, AwaitedCount DEF InHand
    <3>2. Occurrences(event_queue', Waiting(m))
            = a + (IF e \in Waiting(m) THEN 1 ELSE 0)
      BY <1>5, <1>7, <1>10, OccurrencesPush
    <3>3. e \in Waiting(m) <=> m = k /\ notifying.req
      BY <1>5, <1>6 DEF Waiting
    <3>4. Awaited(m) <= Sent(m)
      BY <1>1 DEF NeverEarly
    <3> HIDE DEF a, h
    <3>5. CASE m = k /\ notifying.req
      <4>1. Sent(m) = notifying.count /\ Sent(m)' = notifying.count + 1
        BY <1>3, <2>2, <2>3, <3>5 DEF Sent
      <4> QED
        BY <1>4, <3>1, <3>2, <3>3, <3>4, <3>5, <4>1
    <3>6. CASE ~(m = k /\ notifying.req)
      <4>1. Sent(m)' = Sent(m)
        BY <1>2, <2>2, <3>6 DEF Sent
      <4>2. Awaited(m)' = Awaited(m)
        BY <3>1, <3>2, <3>3, <3>6
      <4> QED
        BY <3>4, <4>1, <4>2
    <3> QED
      BY <3>5, <3>6
  <2> QED
    BY <1>8, <2>4, <2>5, <2>6, <2>7, <2>8 DEF Inv
<1>11. CASE /\ free_events = 0 /\ free_events' = free_events
            /\ notifying' = [notifying EXCEPT !.node = @ + 1]
            /\ event_queue' = event_queue
  <2>1. /\ notifying' \in Sending
        /\ notifying'.key = k /\ notifying'.req = notifying.req
        /\ notifying'.node = notifying.node + 1
        /\ notifying'.count = notifying.count
        /\ notifying'.ret = notifying.ret
    BY <1>3, <1>4, <1>11 DEF Sending
  <2>2. notifying' # NoEvent
    BY <2>1, FwkNotificationAssumption
  <2>3. TypeOK'
    BY <1>1, <1>2, <1>11, <2>1 DEF TypeOK, subs
  <2>4. Control'
    <3>1. /\ notifying'.count < notifying'.node
          /\ notifying'.node <= Len(l) + 1
      BY <1>4, <1>9, <2>1
    <3>2. subscription_dlist' = subscription_dlist
      BY <1>2 DEF subs
    <3> QED
      BY <1>2, <1>9, <2>1, <2>2, <3>1, <3>2 DEF Control
  <2>5. PoolSound' /\ Answers'
    BY <1>1, <1>2, <1>11 DEF PoolSound, Answers
  <2>6. NeverEarly'
    <3> SUFFICES ASSUME NEW m \in Keys PROVE (Awaited(m) <= Sent(m))'
      BY DEF NeverEarly
    <3>1. Awaited(m)' = Awaited(m)
      BY <1>2, <1>11 DEF Awaited
    <3>2. Sent(m)' = Sent(m)
      BY <1>2, <1>3, <2>1, <2>2 DEF Sent
    <3> QED
      BY <1>1, <3>1, <3>2 DEF NeverEarly
  <2> QED
    BY <1>8, <2>3, <2>4, <2>5, <2>6 DEF Inv
<1> QED
  BY <1>10, <1>11 DEF SendNotification, e

(* The end of the loop: the notifier is told how many responses to expect. *)
LEMMA NotifyEndStep ==
    ASSUME Inv, NotifyEnd
    PROVE  Inv'
<1>1. /\ TypeOK /\ SubscriptionsSound /\ Control /\ Targets
      /\ PoolSound /\ Answers /\ NeverEarly
  BY InvParts
<1> DEFINE k == notifying.key
           l == subscription_dlist[k]
<1>2. /\ pc = "notify" /\ pc' = notifying.ret /\ notifying' = NoEvent
      /\ pending_responses' = IF notifying.req
             THEN [pending_responses EXCEPT ![k] = notifying.count]
             ELSE pending_responses
      /\ free_events' = free_events /\ event_queue' = event_queue
      /\ isr_event_queue' = isr_event_queue
      /\ current_event' = current_event /\ isrs' = isrs
      /\ UNCHANGED subs
  BY DEF NotifyEnd
<1>3. notifying \in Sending /\ notifying # NoEvent
  BY <1>1, <1>2 DEF Control, TypeOK
<1>4. /\ k \in Keys /\ notifying.node \in Nat /\ notifying.count \in Nat
      /\ notifying.req \in BOOLEAN /\ notifying.ret \in {"start", "handler"}
  BY <1>3 DEF Sending
<1>5. notifying.count \in 0..Cardinality(Subscriptions)
  <2>1. l \in Seq(Subscriptions) /\ IsInjective(l)
    BY <1>1, <1>4 DEF TypeOK, SubscriptionsSound
  <2>2. Len(l) \in Nat /\ Len(l) <= Cardinality(Subscriptions)
    BY <2>1, FwkNotificationAssumption, InjectiveBound
  <2>3. /\ notifying.count < notifying.node /\ notifying.node <= Len(l) + 1
    BY <1>1, <1>2 DEF Control
  <2>4. Cardinality(Subscriptions) \in Nat
    BY FwkNotificationAssumption, FS_CardinalityType
  <2> HIDE DEF l, k
  <2> QED
    BY <1>4, <2>2, <2>3, <2>4
<1>6. pending_responses' \in [Keys -> 0..Cardinality(Subscriptions)]
  BY <1>1, <1>2, <1>4, <1>5 DEF TypeOK
<1>7. TypeOK'
  <2>1. pc' \in {"start", "loop", "handler", "notify"}
    BY <1>2, <1>4
  <2> QED
    BY <1>1, <1>2, <1>6, <2>1 DEF TypeOK, subs
<1>8. Control'
  <2>1. notifying.ret = "handler" <=> current_event # NoEvent
    BY <1>1, <1>2 DEF Control
  <2> QED
    BY <1>2, <1>4, <2>1 DEF Control
<1>9. NeverEarly'
  <2> SUFFICES ASSUME NEW m \in Keys PROVE (Awaited(m) <= Sent(m))'
    BY DEF NeverEarly
  <2>1. Awaited(m)' = Awaited(m)
    BY <1>2 DEF Awaited
  <2>2. Sent(m)' = pending_responses'[m]
    BY <1>2 DEF Sent
  <2>3. Sent(m) = pending_responses'[m]
    <3>1. pending_responses \in [Keys -> 0..Cardinality(Subscriptions)]
      BY <1>1 DEF TypeOK
    <3>2. CASE m = k /\ notifying.req
      BY <1>2, <1>3, <1>4, <3>1, <3>2 DEF Sent
    <3>3. CASE ~(m = k /\ notifying.req)
      <4>1. pending_responses'[m] = pending_responses[m]
        BY <1>2, <1>4, <3>1, <3>3
      <4> QED
        BY <3>3, <4>1 DEF Sent
    <3> QED
      BY <3>2, <3>3
  <2> QED
    BY <1>1, <2>1, <2>2, <2>3 DEF NeverEarly
<1>10. PoolSound' /\ Answers'
  BY <1>1, <1>2 DEF PoolSound, Answers
<1>11. SubscriptionsSound' /\ Targets'
  BY <1>1, <1>2, SameLists
<1> QED
  BY <1>7, <1>8, <1>9, <1>10, <1>11 DEF Inv

(* process_next_event up to the handler: a response is counted, and a      *)
(* notification that asks for one is in hand.                              *)
LEMMA ProcessNextEventStep ==
    ASSUME Inv, ProcessNextEvent
    PROVE  Inv'
<1>1. /\ TypeOK /\ SubscriptionsSound /\ Control /\ Targets
      /\ PoolSound /\ Answers /\ NeverEarly
  BY InvParts
<1> DEFINE e == Head(event_queue)
<1>2. /\ pc = "loop" /\ event_queue # <<>> /\ current_event' = e
      /\ event_queue' = Tail(event_queue) /\ pc' = "handler"
      /\ pending_responses' = CountResponse(e)
      /\ free_events' = free_events /\ isr_event_queue' = isr_event_queue
      /\ notifying' = notifying /\ isrs' = isrs /\ UNCHANGED subs
  BY DEF ProcessNextEvent
<1>3. event_queue \in Seq(Event) /\ isr_event_queue \in Seq(Event)
  BY <1>1 DEF TypeOK
<1>4. /\ Len(event_queue) \in Nat /\ e = event_queue[1] /\ e \in Event
      /\ 1 \in DOMAIN event_queue
      /\ Tail(event_queue) \in Seq(Event)
      /\ Len(Tail(event_queue)) = Len(event_queue) - 1
      /\ DOMAIN Tail(event_queue) = 1..(Len(event_queue) - 1)
      /\ DOMAIN event_queue = 1..Len(event_queue)
      /\ \A i \in 1..(Len(event_queue) - 1) :
             Tail(event_queue)[i] = event_queue[i + 1]
  BY <1>2, <1>3
<1>5. e # NoEvent /\ e.key \in Keys /\ e.response_requested \in BOOLEAN
  BY <1>4, FwkNotificationAssumption DEF Event
<1>6. Asks(e)
  BY <1>1, <1>4 DEF Answers
<1>7. current_event = NoEvent /\ notifying = NoEvent
  BY <1>1, <1>2 DEF Control
<1> HIDE DEF e
<1>8. pending_responses \in [Keys -> 0..Cardinality(Subscriptions)]
  BY <1>1 DEF TypeOK
<1>9. Cardinality(Subscriptions) \in Nat
  BY FwkNotificationAssumption, FS_CardinalityType
<1>10. ASSUME NEW m \in Keys
       PROVE  /\ Awaited(m) <= pending_responses[m]
              /\ Awaited(m) = Occurrences(event_queue', Waiting(m))
                                + (IF e \in Waiting(m) THEN 1 ELSE 0)
              /\ Awaited(m)' = Occurrences(event_queue', Waiting(m))
                                 + InHand(e, m)
              /\ Occurrences(event_queue', Waiting(m)) \in Nat
  <2>1. Sent(m) = pending_responses[m]
    BY <1>7 DEF Sent
  <2>2. Awaited(m) <= pending_responses[m]
    BY <1>1, <2>1 DEF NeverEarly
  <2>3. Occurrences(event_queue, Waiting(m))
          = Occurrences(Tail(event_queue), Waiting(m))
              + (IF e \in Waiting(m) THEN 1 ELSE 0)
    BY <1>2, <1>3, OccurrencesPop DEF e
  <2>4. InHand(current_event, m) = 0
    BY <1>7 DEF InHand
  <2> QED
    BY <1>2, <1>3, <1>4, <2>2, <2>3, <2>4, AwaitedCount
<1>11. ASSUME NEW m \in Keys
       PROVE  (e \in Waiting(m)) = (m = e.key /\ (e.response_requested
                                                    \/ e.type = "response"))
  BY <1>4, <1>5 DEF Waiting
<1>12. /\ pending_responses' \in [Keys -> 0..Cardinality(Subscriptions)]
       /\ \A m \in Keys : pending_responses'[m] = pending_responses[m]
              - (IF m = e.key /\ e.type = "response" THEN 1 ELSE 0)
  <2>1. CASE e.type = "response"
    <3>1. e \in Waiting(e.key)
      BY <1>5, <1>11, <2>1
    <3>2. pending_responses[e.key] >= 1
      BY <1>5, <1>8, <1>9, <1>10, <3>1
    <3>3. pending_responses'
            = [pending_responses EXCEPT ![e.key] = @ - 1]
      BY <1>2, <2>1 DEF CountResponse
    <3> QED
      BY <1>5, <1>8, <1>9, <2>1, <3>2, <3>3
  <2>2. CASE e.type # "response"
    <3>1. pending_responses' = pending_responses
      BY <1>2, <2>2 DEF CountResponse
    <3> QED
      BY <1>8, <1>9, <2>2, <3>1
  <2> QED
    BY <2>1, <2>2
<1>13. NeverEarly'
  <2> SUFFICES ASSUME NEW m \in Keys PROVE (Awaited(m) <= Sent(m))'
    BY DEF NeverEarly
  <2>1. Sent(m)' = pending_responses'[m]
    BY <1>2, <1>7 DEF Sent
  <2>2. InHand(e, m) = (IF e \in Waiting(m) THEN 1 ELSE 0)
                         - (IF m = e.key /\ e.type = "response" THEN 1 ELSE 0)
    <3>1. CASE e.type = "response"
      BY <1>5, <1>6, <1>11, <3>1 DEF InHand, Asks
    <3>2. CASE e.type # "response"
      BY <1>5, <1>11, <3>2 DEF InHand
    <3> QED
      BY <3>1, <3>2
  <2>3. pending_responses[m] \in Int
    BY <1>8, <1>9
  <2> QED
    BY <1>10, <1>12, <2>1, <2>2, <2>3
<1>14. TypeOK'
  BY <1>1, <1>2, <1>4, <1>12 DEF TypeOK, subs
<1>15. Control'
  BY <1>2, <1>5, <1>7 DEF Control
<1>16. PoolSound'
  <2>1. free_events + Len(event_queue) + Len(isr_event_queue) + 0 = EventCount
    BY <1>1, <1>7 DEF PoolSound
  <2>2. free_events \in Int /\ Len(isr_event_queue) \in Nat
    BY <1>1, FwkNotificationAssumption DEF TypeOK
  <2>3. free_events + (Len(event_queue) - 1) + Len(isr_event_queue) + 1
          = EventCount
    BY <1>4, <2>1, <2>2
  <2> QED
    BY <1>2, <1>4, <1>5, <2>3 DEF PoolSound
<1>17. Answers'
  <2> SUFFICES ASSUME NEW i \in DOMAIN event_queue'
               PROVE  Asks(event_queue'[i])
    BY <1>1, <1>2 DEF Answers
  <2>1. i + 1 \in DOMAIN event_queue /\ event_queue'[i] = event_queue[i + 1]
    BY <1>2, <1>4
  <2> QED
    BY <1>1, <2>1 DEF Answers
<1>18. SubscriptionsSound' /\ Targets'
  BY <1>1, <1>2, SameLists
<1> QED
  BY <1>13, <1>14, <1>15, <1>16, <1>17, <1>18 DEF Inv

(* The rest of process_next_event: the response takes the place of the     *)
(* notification that asked for it.                                         *)
LEMMA HandlerReturnStep ==
    ASSUME Inv, HandlerReturn
    PROVE  Inv'
<1>1. /\ TypeOK /\ SubscriptionsSound /\ Control /\ Targets
      /\ PoolSound /\ Answers /\ NeverEarly
  BY InvParts
<1> DEFINE c == current_event
           e == [type |-> "response", key |-> c.key, target |-> c.key[2],
                 response_requested |-> FALSE]
<1>2. /\ pc = "handler" /\ current_event' = NoEvent /\ pc' = "loop"
      /\ isr_event_queue' = isr_event_queue /\ notifying' = notifying
      /\ pending_responses' = pending_responses /\ isrs' = isrs
      /\ UNCHANGED subs
  BY DEF HandlerReturn
<1>3. c # NoEvent /\ c \in Event /\ notifying = NoEvent
  BY <1>1, <1>2 DEF Control, TypeOK
<1>4. c.key \in Keys /\ c.response_requested \in BOOLEAN
  BY <1>3 DEF Event
<1>5. e \in Event
  <2>1. c.key[2] \in Entities
    BY <1>4 DEF Keys
  <2> QED
    BY <1>4, <2>1 DEF Event
<1>6. e.type = "response" /\ e.key = c.key /\ ~e.response_requested
  OBVIOUS
<1>7. \/ /\ c.response_requested /\ free_events' = free_events
         /\ event_queue' = Append(event_queue, e)
      \/ free_events' = free_events + 1 /\ event_queue' = event_queue
  BY DEF HandlerReturn, FreeEvent
<1> HIDE DEF e
<1>8. /\ event_queue \in Seq(Event) /\ Len(event_queue) \in Nat
      /\ Len(isr_event_queue) \in Nat /\ free_events \in Nat
      /\ EventCount \in Nat
      /\ free_events + Len(event_queue) + Len(isr_event_queue) + 1 = EventCount
  BY <1>1, <1>3, FwkNotificationAssumption DEF TypeOK, PoolSound
<1>9. /\ event_queue' \in Seq(Event) /\ Len(event_queue') \in Nat
      /\ free_events' + Len(event_queue') + Len(isr_event_queue') + 0
           = EventCount
      /\ free_events' \in 0..EventCount
  <2>1. CASE free_events' = free_events + 1 /\ event_queue' = event_queue
    BY <1>2, <1>8, <2>1
  <2>2. CASE free_events' = free_events /\ event_queue' = Append(event_queue, e)
    <3>1. /\ event_queue' \in Seq(Event)
          /\ Len(event_queue') = Len(event_queue) + 1
      BY <1>5, <1>8, <2>2
    <3> QED
      BY <1>2, <1>8, <2>2, <3>1
  <2> QED
    BY <1>7, <2>1, <2>2
<1>10. TypeOK'
  BY <1>1, <1>2, <1>9 DEF TypeOK, subs
<1>11. Control' /\ PoolSound'
  BY <1>2, <1>3, <1>9 DEF Control, PoolSound
<1>12. Answers'
  <2> SUFFICES ASSUME NEW i \in DOMAIN event_queue'
               PROVE  Asks(event_queue'[i])
    BY <1>1, <1>2 DEF Answers
  <2>1. CASE event_queue' = event_queue
    BY <1>1, <2>1 DEF Answers
  <2>2. CASE event_queue' = Append(event_queue, e)
    <3>1. \/ event_queue'[i] = e
          \/ i \in DOMAIN event_queue /\ event_queue'[i] = event_queue[i]
      BY <1>8, <1>5, <2>2
    <3>2. Asks(e)
      BY <1>6 DEF Asks
    <3> QED
      BY <1>1, <3>1, <3>2 DEF Answers
  <2> QED
    BY <1>7, <2>1, <2>2
<1>13. NeverEarly'
  <2> SUFFICES ASSUME NEW m \in Keys PROVE (Awaited(m) <= Sent(m))'
    BY DEF NeverEarly
  <2> DEFINE a == Occurrences(event_queue, Waiting(m))
             b == Occurrences(event_queue', Waiting(m))
             h == InHand(c, m)
  <2>1. /\ Awaited(m) = a + h
        /\ Awaited(m)' = b + InHand(NoEvent, m)
        /\ a \in Nat /\ b \in Nat
    BY <1>2, <1>8, <1>9, AwaitedCount
  <2>2. InHand(NoEvent, m) = 0 /\ h \in Nat
    BY DEF InHand
  <2>3. b <= a + h
    <3>1. CASE event_queue' = event_queue
      BY <2>1, <2>2, <3>1
    <3>2. CASE c.response_requested /\ event_queue' = Append(event_queue, e)
      <4>1. b = a + (IF e \in Waiting(m) THEN 1 ELSE 0)
        BY <1>5, <1>8, <3>2, OccurrencesPush
      <4>2. h = IF e \in Waiting(m) THEN 1 ELSE 0
        BY <1>3, <1>5, <1>6, <3>2 DEF Waiting, InHand
      <4> QED
        BY <2>1, <4>1, <4>2
    <3> QED
      BY <1>7, <3>1, <3>2
  <2>4. Sent(m)' = Sent(m) /\ Sent(m) = pending_responses[m]
    BY <1>2, <1>3 DEF Sent
  <2>5. pending_responses[m] \in Int
    <3>1. Cardinality(Subscriptions) \in Nat
      BY FwkNotificationAssumption, FS_CardinalityType
    <3> QED
      BY <1>1, <3>1 DEF TypeOK
  <2>6. Awaited(m) <= Sent(m)
    BY <1>1 DEF NeverEarly
  <2> HIDE DEF a, b, h
  <2> QED
    BY <2>1, <2>2, <2>3, <2>4, <2>5, <2>6
<1>14. SubscriptionsSound' /\ Targets'
  BY <1>1, <1>2, SameLists
<1> QED
  BY <1>10, <1>11, <1>12, <1>13, <1>14 DEF Inv

(* The first event of the ISR queue moves to the empty event queue: nobody *)
(* waits for it.                                                           *)
LEMMA ProcessIsrStep ==
    ASSUME Inv, ProcessIsr
    PROVE  Inv'
<1>1. /\ TypeOK /\ SubscriptionsSound /\ Control /\ Targets
      /\ PoolSound /\ Answers /\ NeverEarly
  BY InvParts
<1> DEFINE e == Head(isr_event_queue)
<1>2. /\ pc = "loop" /\ event_queue = <<>> /\ isr_event_queue # <<>>
      /\ event_queue' = <<e>> /\ isr_event_queue' = Tail(isr_event_queue)
      /\ free_events' = free_events /\ current_event' = current_event
      /\ pc' = pc /\ notifying' = notifying
      /\ pending_responses' = pending_responses /\ isrs' = isrs
      /\ UNCHANGED subs
  BY DEF ProcessIsr
<1>3. isr_event_queue \in Seq(Event) /\ event_queue \in Seq(Event)
  BY <1>1 DEF TypeOK
<1>4. /\ e \in Event /\ e = isr_event_queue[1] /\ 1 \in DOMAIN isr_event_queue
      /\ Len(isr_event_queue) \in Nat
      /\ Tail(isr_event_queue) \in Seq(Event)
      /\ Len(Tail(isr_event_queue)) = Len(isr_event_queue) - 1
      /\ \A i \in DOMAIN Tail(isr_event_queue) :
             /\ i + 1 \in DOMAIN isr_event_queue
             /\ Tail(isr_event_queue)[i] = isr_event_queue[i + 1]
  BY <1>2, <1>3
<1>5. Ignored(e)
  BY <1>1, <1>4 DEF Answers
<1> HIDE DEF e
<1>6. /\ event_queue' \in Seq(Event) /\ Len(event_queue') = 1
      /\ DOMAIN event_queue' = {1} /\ event_queue'[1] = e
      /\ event_queue' = Append(event_queue, e)
  BY <1>2, <1>4
<1>7. TypeOK'
  BY <1>1, <1>2, <1>4, <1>6 DEF TypeOK, subs
<1>8. Control'
  BY <1>1, <1>2 DEF Control, subs
<1>9. PoolSound'
  <2> DEFINE c == IF current_event = NoEvent THEN 0 ELSE 1
  <2>1. /\ c \in Int /\ free_events \in Int /\ Len(event_queue) = 0
        /\ free_events + Len(event_queue) + Len(isr_event_queue) + c
             = EventCount
    BY <1>1, <1>2, FwkNotificationAssumption DEF PoolSound, TypeOK
  <2> HIDE DEF c
  <2>2. free_events' + Len(event_queue') + Len(isr_event_queue') + c
          = EventCount
    BY <1>2, <1>4, <1>6, <2>1
  <2> QED
    BY <1>2, <2>2 DEF PoolSound, c
<1>10. Answers'
  <2>1. Asks(e)
    BY <1>5 DEF Ignored, Asks
  <2>2. \A i \in DOMAIN isr_event_queue' : Ignored(isr_event_queue'[i])
    BY <1>1, <1>2, <1>4 DEF Answers
  <2> QED
    BY <1>6, <2>1, <2>2 DEF Answers
<1>11. NeverEarly'
  <2> SUFFICES ASSUME NEW m \in Keys PROVE (Awaited(m) <= Sent(m))'
    BY DEF NeverEarly
  <2>1. e \notin Waiting(m)
    BY <1>5 DEF Waiting, Ignored
  <2>2. Occurrences(event_queue', Waiting(m))
          = Occurrences(event_queue, Waiting(m))
    <3>1. Occurrences(event_queue', Waiting(m))
            = Occurrences(event_queue, Waiting(m))
                + (IF e \in Waiting(m) THEN 1 ELSE 0)
      BY <1>3, <1>4, <1>6, OccurrencesPush
    <3>2. Occurrences(event_queue, Waiting(m)) \in Nat
      BY <1>3, OccurrencesType
    <3> QED
      BY <2>1, <3>1, <3>2
  <2>3. Awaited(m)' = Awaited(m)
    BY <1>2, <1>3, <1>6, <2>2, AwaitedCount
  <2>4. Sent(m)' = Sent(m)
    BY <1>2 DEF Sent
  <2> QED
    BY <1>1, <2>3, <2>4 DEF NeverEarly
<1>12. SubscriptionsSound' /\ Targets'
  BY <1>1, <1>2, SameLists
<1> QED
  BY <1>7, <1>8, <1>9, <1>10, <1>11, <1>12 DEF Inv

(* An ISR puts events nobody waits for, as many as there are structures.   *)
LEMMA IsrPutsStep ==
    ASSUME Inv, NEW puts \in Seq(Event),
           \A i \in DOMAIN puts : Ignored(puts[i]),
           isr_event_queue' = isr_event_queue \o puts,
           Len(puts) <= free_events, free_events' = free_events - Len(puts),
           isrs' \in 0..IsrBound,
           UNCHANGED <<subs, event_queue, current_event, pc, notifying,
                       pending_responses>>
    PROVE  Inv'
<1>1. /\ TypeOK /\ SubscriptionsSound /\ Control /\ Targets
      /\ PoolSound /\ Answers /\ NeverEarly
  BY InvParts
<1>2. /\ isr_event_queue \in Seq(Event) /\ Len(isr_event_queue) \in Nat
      /\ Len(puts) \in Nat
      /\ Len(event_queue) \in Nat /\ free_events \in 0..EventCount
      /\ EventCount \in Nat
  BY <1>1, FwkNotificationAssumption DEF TypeOK
<1> DEFINE n == Len(isr_event_queue)
<1>3. /\ isr_event_queue' \in Seq(Event)
      /\ Len(isr_event_queue') = n + Len(puts)
      /\ DOMAIN isr_event_queue' = 1..(n + Len(puts))
      /\ \A i \in 1..(n + Len(puts)) :
             isr_event_queue'[i] = IF i <= n THEN isr_event_queue[i]
                                   ELSE puts[i - n]
  BY <1>2
<1>4. free_events' \in 0..EventCount
  BY <1>2
<1>5. TypeOK'
  BY <1>1, <1>3, <1>4 DEF TypeOK, subs
<1>6. Control'
  BY <1>1 DEF Control, subs
<1>7. PoolSound'
  <2> DEFINE c == IF current_event = NoEvent THEN 0 ELSE 1
  <2>1. /\ c \in Int /\ n \in Nat /\ free_events \in Int
        /\ free_events + Len(event_queue) + n + c = EventCount
    BY <1>1, <1>2 DEF PoolSound
  <2> HIDE DEF c, n
  <2>2. (free_events - Len(puts)) + Len(event_queue) + (n + Len(puts)) + c
          = EventCount
    <3> DEFINE p == Len(puts)
               q == Len(event_queue)
    <3>1. p \in Int /\ q \in Int
      BY <1>2
    <3>2. free_events + q + n + c = EventCount
      BY <2>1
    <3> HIDE DEF p, q
    <3>3. (free_events - p) + q + (n + p) + c = EventCount
      BY <2>1, <3>1, <3>2
    <3> QED
      BY <3>3 DEF p, q
  <2> QED
    BY <1>3, <2>2 DEF PoolSound, c
<1>8. Answers'
  <2> SUFFICES ASSUME NEW i \in DOMAIN isr_event_queue'
               PROVE  Ignored(isr_event_queue'[i])
    BY <1>1 DEF Answers
  <2>1. CASE i <= n
    <3>1. i \in DOMAIN isr_event_queue /\ isr_event_queue'[i] = isr_event_queue[i]
      BY <1>2, <1>3, <2>1
    <3> QED
      BY <1>1, <3>1 DEF Answers
  <2>2. CASE ~(i <= n)
    <3>1. i - n \in DOMAIN puts
      BY <1>2, <1>3, <2>2
    <3>2. isr_event_queue'[i] = puts[i - n]
      BY <1>3, <2>2
    <3> QED
      BY <3>1, <3>2
  <2> QED
    BY <2>1, <2>2
<1>9. NeverEarly'
  BY <1>1, SameCounts
<1>10. SubscriptionsSound' /\ Targets'
  BY <1>1, SameLists
<1> QED
  BY <1>5, <1>6, <1>7, <1>8, <1>9, <1>10 DEF Inv

(* fwk_notification_notify by an ISR. *)
LEMMA IsrNotifyStep ==
    ASSUME Inv, NEW k \in Keys, IsrNotify(k)
    PROVE  Inv'
<1>1. TypeOK /\ Targets
  BY InvParts
<1> DEFINE l == subscription_dlist[k]
           n == IF Len(l) <= free_events THEN Len(l) ELSE free_events
           puts == [i \in 1..n |-> Notification(k, target_id[l[i]], FALSE)]
<1>2. /\ isrs + n <= IsrBound
      /\ isr_event_queue' = isr_event_queue \o puts
      /\ free_events' = free_events - n /\ isrs' = isrs + n
      /\ UNCHANGED <<subs, event_queue, current_event, pc, notifying,
                     pending_responses>>
  BY DEF IsrNotify
<1>3. /\ Len(l) \in Nat /\ DOMAIN l = 1..Len(l) /\ free_events \in Nat
      /\ isrs \in Nat /\ IsrBound \in Nat
  BY <1>1, FwkNotificationAssumption DEF TypeOK
<1>4. n \in Nat /\ n <= Len(l) /\ n <= free_events
  BY <1>3
<1> HIDE DEF n
<1>5. ASSUME NEW i \in 1..n
      PROVE  /\ Notification(k, target_id[l[i]], FALSE) \in Event
             /\ Ignored(Notification(k, target_id[l[i]], FALSE))
  <2>1. i \in DOMAIN l
    BY <1>3, <1>4
  <2>2. target_id[l[i]] \in Entities
    BY <1>1, <2>1 DEF Targets
  <2>3. Notification(k, target_id[l[i]], FALSE) \in Event
    BY <2>2 DEF Notification, Event
  <2> QED
    BY <2>3 DEF Notification, Ignored
<1> HIDE DEF l
<1>6. puts \in Seq(Event) /\ Len(puts) = n /\ DOMAIN puts = 1..n
  <2>1. puts \in [1..n -> Event] /\ DOMAIN puts = 1..n
    BY <1>5
  <2> HIDE DEF puts
  <2> QED
    BY <1>4, <2>1
<1>7. \A i \in DOMAIN puts : Ignored(puts[i])
  BY <1>5, <1>6
<1> HIDE DEF puts
<1>8. isrs' \in 0..IsrBound
  BY <1>2, <1>3, <1>4
<1> QED
  BY <1>2, <1>4, <1>6, <1>7, <1>8, IsrPutsStep

(* fwk_put_event by an ISR. *)
LEMMA IsrPutEventStep ==
    ASSUME Inv, NEW k \in Keys, NEW t \in Entities, IsrPutEvent(k, t)
    PROVE  Inv'
<1>1. TypeOK
  BY InvParts
<1> DEFINE e == [type |-> "other", key |-> k, target |-> t,
                 response_requested |-> FALSE]
           puts == <<e>>
<1>2. /\ isrs < IsrBound /\ free_events > 0
      /\ isr_event_queue' = Append(isr_event_queue, e)
      /\ free_events' = free_events - 1 /\ isrs' = isrs + 1
      /\ UNCHANGED <<subs, event_queue, current_event, pc, notifying,
                     pending_responses>>
  BY DEF IsrPutEvent
<1>3. e \in Event /\ Ignored(e)
  BY DEF Event, Ignored
<1>4. /\ free_events \in Nat /\ isrs \in Nat /\ IsrBound \in Nat
      /\ isr_event_queue \in Seq(Event)
  BY <1>1, FwkNotificationAssumption DEF TypeOK
<1> HIDE DEF e
<1>5. /\ puts \in Seq(Event) /\ Len(puts) = 1
      /\ \A i \in DOMAIN puts : Ignored(puts[i])
      /\ isr_event_queue' = isr_event_queue \o puts
  BY <1>2, <1>3, <1>4
<1>6. /\ isrs' \in 0..IsrBound /\ Len(puts) <= free_events
      /\ free_events' = free_events - Len(puts)
  BY <1>2, <1>4, <1>5
<1> HIDE DEF puts
<1> QED
  BY <1>2, <1>5, <1>6, IsrPutsStep

(* The main loop is entered. *)
LEMMA RunMainLoopStep ==
    ASSUME Inv, RunMainLoop
    PROVE  Inv'
<1>1. /\ TypeOK /\ SubscriptionsSound /\ Control /\ Targets
      /\ PoolSound /\ Answers /\ NeverEarly
  BY InvParts
<1>2. /\ pc = "start" /\ pc' = "loop" /\ UNCHANGED subs
      /\ UNCHANGED <<free_events, event_queue, isr_event_queue,
                     current_event, notifying, pending_responses, isrs>>
  BY DEF RunMainLoop
<1>3. TypeOK' /\ Control'
  BY <1>1, <1>2 DEF TypeOK, Control, subs
<1>4. PoolSound' /\ Answers'
  BY <1>1, <1>2 DEF PoolSound, Answers
<1>5. NeverEarly'
  BY <1>1, <1>2, SameCounts
<1>6. SubscriptionsSound' /\ Targets'
  BY <1>1, <1>2, SameLists
<1> QED
  BY <1>3, <1>4, <1>5, <1>6 DEF Inv

(* Nothing changes. *)
LEMMA StutterStep ==
    ASSUME Inv, UNCHANGED vars
    PROVE  Inv'
<1>1. /\ TypeOK /\ SubscriptionsSound /\ Control /\ Targets
      /\ PoolSound /\ Answers /\ NeverEarly
  BY InvParts
<1>2. TypeOK' /\ Control' /\ PoolSound' /\ Answers'
  BY <1>1 DEF TypeOK, Control, PoolSound, Answers, vars, subs
<1>3. NeverEarly'
  BY <1>1, SameCounts DEF vars
<1>4. SubscriptionsSound' /\ Targets'
  BY <1>1, SameLists DEF vars
<1> QED
  BY <1>2, <1>3, <1>4 DEF Inv

(* After fwk_notification_init every structure is free. *)
LEMMA InitInv ==
    ASSUME Init
    PROVE  Inv
<1> DEFINE n == Cardinality(Subscriptions)
           free == free_subscription_dlist
<1>1. IsFiniteSet(Subscriptions) /\ n \in Nat
  BY FwkNotificationAssumption, FS_CardinalityType
<1>2. /\ free \in [1..n -> Subscriptions] /\ IsInjective(free)
      /\ subscription_dlist = [k \in Keys |-> <<>>]
      /\ target_id = [s \in Subscriptions |-> NoEvent]
      /\ free_events = EventCount /\ event_queue = <<>>
      /\ isr_event_queue = <<>> /\ current_event = NoEvent /\ pc = "start"
      /\ notifying = NoEvent /\ pending_responses = [k \in Keys |-> 0]
      /\ isrs = 0
  BY DEF Init
<1>3. free \in Seq(Subscriptions)
  BY <1>1, <1>2
<1>4. Subscriptions \subseteq Range(free)
  <2>1. IsFiniteSet(1..n) /\ Cardinality(1..n) = n
    BY <1>1, FS_Interval
  <2>2. free \in Injection(1..n, Subscriptions)
    BY <1>2 DEF Injection
  <2> HIDE DEF free
  <2>3. free \in Surjection(1..n, Subscriptions)
    BY <1>1, <2>1, <2>2, FS_Injection
  <2> QED
    BY <2>3 DEF Surjection, Range
<1>5. TypeOK
  <2>1. /\ EventCount \in 0..EventCount /\ 0 \in 0..IsrBound
        /\ 0 \in 0..n
    BY <1>1, FwkNotificationAssumption
  <2>2. /\ subscription_dlist \in [Keys -> Seq(Subscriptions)]
        /\ target_id \in [Subscriptions -> Entities \cup {NoEvent}]
        /\ pending_responses \in [Keys -> 0..n]
    BY <1>2, <2>1
  <2> QED
    BY <1>2, <1>3, <2>1, <2>2 DEF TypeOK
<1>6. \A k \in Keys : /\ subscription_dlist[k] = <<>>
                      /\ DOMAIN subscription_dlist[k] = {}
  BY <1>2
<1>7. SubscriptionsSound /\ Targets
  <2>1. \A k \in Keys : Range(subscription_dlist[k]) = {}
    BY <1>6 DEF Range
  <2> QED
    BY <1>2, <1>4, <1>6, <2>1 DEF SubscriptionsSound, Targets, IsInjective
<1>8. Control /\ PoolSound /\ Answers
  <2>1. EventCount \in Nat /\ Len(<<>>) = 0
    BY FwkNotificationAssumption
  <2>2. Control /\ Answers
    BY <1>2 DEF Control, Answers
  <2>3. EventCount + 0 + 0 + 0 = EventCount
    BY <2>1
  <2>4. PoolSound
    BY <1>2, <2>1, <2>3 DEF PoolSound
  <2> QED
    BY <2>2, <2>4
<1>9. NeverEarly
  <2> SUFFICES ASSUME NEW k \in Keys PROVE Awaited(k) <= Sent(k)
    BY DEF NeverEarly
  <2>1. Sent(k) = 0
    BY <1>2 DEF Sent
  <2>2. event_queue \in Seq(Event) /\ Occurrences(event_queue, Waiting(k)) = 0
    BY <1>2, OccurrencesEmpty
  <2>3. Awaited(k) = Occurrences(event_queue, Waiting(k)) + 0
    BY <1>2, <2>2, WaitingCount DEF Awaited
  <2> QED
    BY <2>1, <2>2, <2>3
<1> QED
  BY <1>5, <1>7, <1>8, <1>9 DEF Inv

(* Every step of the thread and of an ISR preserves the invariant. *)
LEMMA StepInv ==
    ASSUME Inv, [Next]_vars
    PROVE  Inv'
<1>1. CASE ModuleStep
  <2>1. PICK k \in Keys :
            \/ \E t \in Entities : Subscribe(k, t) \/ Unsubscribe(k, t)
            \/ \E req \in Requests : Notify(k, req)
    BY <1>1 DEF ModuleStep
  <2>2. ASSUME NEW t \in Entities, Subscribe(k, t) PROVE Inv'
    BY <2>2, SubscribeStep
  <2>3. ASSUME NEW t \in Entities, Unsubscribe(k, t) PROVE Inv'
    BY <2>3, UnsubscribeStep
  <2>4. ASSUME NEW req \in Requests, Notify(k, req) PROVE Inv'
    <3>1. req \in BOOLEAN
      BY FwkNotificationAssumption
    <3> QED
      BY <2>4, <3>1, NotifyStep
  <2> QED
    BY <2>1, <2>2, <2>3, <2>4
<1>2. CASE LoopStep
  BY <1>2, SendNotificationStep, NotifyEndStep, RunMainLoopStep,
     ProcessNextEventStep, HandlerReturnStep, ProcessIsrStep DEF LoopStep
<1>3. CASE Isr
  BY <1>3, IsrNotifyStep, IsrPutEventStep DEF Isr
<1>4. CASE Suspend
  BY <1>4, StutterStep DEF Suspend
<1>5. CASE UNCHANGED vars
  BY <1>5, StutterStep
<1> QED
  BY <1>1, <1>2, <1>3, <1>4, <1>5 DEF Next
-----------------------------------------------------------------------------
(* The invariant holds of every reachable state (fwk_notification.c over   *)
(* the event pool and the queues of fwk_core.c).                           *)
THEOREM NotificationInvariant == Spec => []Inv
<1>1. Init => Inv
  BY InitInv
<1>2. Inv /\ [Next]_vars => Inv'
  BY StepInv
<1> QED
  BY <1>1, <1>2, PTL DEF Spec

(* The counts stay in their ranges: the pool never grows, and a notifier   *)
(* counts the responses neither below zero nor above the number of         *)
(* subscription structures.                                                *)
THEOREM CountsBounded == Spec => []TypeOK
<1>1. Inv => TypeOK
  BY DEF Inv
<1> QED
  BY <1>1, NotificationInvariant, PTL

(* No subscription structure is lost or in two lists, and nobody is        *)
(* notified twice of one notification, whatever the order of subscribe and *)
(* unsubscribe calls.                                                      *)
THEOREM ListsSound == Spec => []SubscriptionsSound
<1>1. Inv => SubscriptionsSound
  BY DEF Inv
<1> QED
  BY <1>1, NotificationInvariant, PTL

(* The notifier never goes on while a subscriber has still to act on the   *)
(* notification or its response is still to come, however ISRs drain the   *)
(* pool between the puts of send_notifications.                            *)
THEOREM WaitsForAll == Spec => []NeverEarly
<1>1. Inv => NeverEarly
  BY DEF Inv
<1> QED
  BY <1>1, NotificationInvariant, PTL
============================================================================
