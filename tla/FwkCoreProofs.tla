---------------------------- MODULE FwkCoreProofs ----------------------------
(***************************************************************************)
(* Proofs about FwkCore, for any number of entities and of slots: who owns *)
(* the event structures, that cookies identify requests, and that the      *)
(* framework implements the message service of FwkEvents.                  *)
(***************************************************************************)
EXTENDS FwkCore, SequencesExt, FiniteSetTheorems, TLAPS

----------------------------------------------------------------------------
(* What the operations on queues do to their elements. *)

(* fwk_list_push_tail adds the pushed element at the end. *)
LEMMA PushTail ==
    ASSUME NEW S, NEW q \in Seq(S), NEW x \in S
    PROVE  /\ Append(q, x) \in Seq(S)
           /\ Range(Append(q, x)) = Range(q) \cup {x}
           /\ IsInjective(q) /\ x \notin Range(q) => IsInjective(Append(q, x))
<1> DEFINE r == Append(q, x)
<1>1. /\ r \in Seq(S)
      /\ DOMAIN r = 1..(Len(q) + 1) /\ DOMAIN q = 1..Len(q)
      /\ Len(q) \in Nat
      /\ \A i \in 1..Len(q) : r[i] = q[i]
      /\ r[Len(q) + 1] = x
  OBVIOUS
<1>2. Range(r) = Range(q) \cup {x}
  BY <1>1, SMT DEF Range
<1>3. ASSUME IsInjective(q), x \notin Range(q)
      PROVE  IsInjective(r)
  BY <1>1, <1>3, SMT DEF Range, IsInjective
<1> QED
  BY <1>1, <1>2, <1>3

(* fwk_list_pop_head takes the first element. *)
LEMMA PopHead ==
    ASSUME NEW S, NEW q \in Seq(S), q # <<>>
    PROVE  /\ Head(q) \in S /\ Tail(q) \in Seq(S)
           /\ Head(q) \in Range(q)
           /\ IsInjective(q) => /\ IsInjective(Tail(q))
                                /\ Range(Tail(q)) = Range(q) \ {Head(q)}
<1> DEFINE t == Tail(q)
<1>1. /\ t \in Seq(S) /\ Head(q) \in S
      /\ Len(q) \in Nat \ {0}
      /\ DOMAIN t = 1..(Len(q) - 1) /\ DOMAIN q = 1..Len(q)
      /\ \A i \in 1..(Len(q) - 1) : t[i] = q[i + 1]
      /\ Head(q) = q[1]
  OBVIOUS
<1> HIDE DEF t
<1>2. Head(q) \in Range(q)
  BY <1>1, SMT DEF Range
<1>3. ASSUME IsInjective(q)
      PROVE  IsInjective(t) /\ Range(t) = Range(q) \ {Head(q)}
  <2>1. IsInjective(t)
    BY <1>1, <1>3, SMT DEF IsInjective
  <2>2. ASSUME NEW y \in Range(t)
        PROVE  y \in Range(q) /\ y # Head(q)
    <3>1. PICK i \in 1..(Len(q) - 1) : y = q[i + 1]
      BY <1>1, SMT DEF Range
    <3> QED
      BY <1>1, <1>3, <3>1, SMT DEF Range, IsInjective
  <2>3. ASSUME NEW y \in Range(q), y # Head(q)
        PROVE  y \in Range(t)
    <3>1. PICK i \in 1..Len(q) : y = q[i]
      BY <1>1, SMT DEF Range
    <3>2. i - 1 \in DOMAIN t /\ t[i - 1] = y
      BY <1>1, <2>3, <3>1, SMT
    <3> QED
      BY <3>2 DEF Range
  <2> QED
    BY <2>1, <2>2, <2>3
<1> QED
  BY <1>1, <1>2, <1>3 DEF t

(* fwk_list_remove unlinks one element and keeps the order of the others.  *)
LEMMA RemoveElements ==
    ASSUME NEW S, NEW q \in Seq(S), NEW k \in DOMAIN q
    PROVE  /\ RemoveAt(q, k) \in Seq(S)
           /\ Len(RemoveAt(q, k)) = Len(q) - 1
           /\ \A i \in 1..(Len(q) - 1) :
                  RemoveAt(q, k)[i] = IF i < k THEN q[i] ELSE q[i + 1]
<1> DEFINE r == RemoveAt(q, k)
           n == Len(q)
<1>1. n \in Nat /\ DOMAIN q = 1..n /\ k \in 1..n
  OBVIOUS
<1>2. /\ r \in Seq(S)
      /\ Len(r) = n - 1
      /\ \A i \in 1..(n - 1) : r[i] = IF i < k THEN q[i] ELSE q[i + 1]
  <2> DEFINE a == SubSeq(q, 1, k - 1)
             b == SubSeq(q, k + 1, n)
  <2>1. /\ a \in Seq(S) /\ Len(a) = k - 1
        /\ \A i \in 1..(k - 1) : a[i] = q[i]
    BY <1>1, SMT
  <2>2. /\ b \in Seq(S) /\ Len(b) = n - k
        /\ \A i \in 1..(n - k) : b[i] = q[k + i]
    BY <1>1, SMT
  <2>3. r = a \o b
    BY DEF RemoveAt
  <2> HIDE DEF a, b, r, n
  <2>4. /\ a \o b \in Seq(S)
        /\ DOMAIN (a \o b) = 1..(n - 1)
        /\ \A i \in 1..(n - 1) : (a \o b)[i] = IF i <= k - 1 THEN a[i]
                                               ELSE b[i - (k - 1)]
    BY <1>1, <2>1, <2>2, SMT
  <2>5. Len(r) = n - 1
    <3>1. a \in Seq(S) /\ b \in Seq(S)
      BY <2>1, <2>2
    <3>2. Len(a \o b) = Len(a) + Len(b)
      BY <3>1
    <3> QED
      BY <1>1, <2>1, <2>2, <2>3, <3>2, SMT
  <2>6. ASSUME NEW i \in 1..(n - 1)
        PROVE  r[i] = IF i < k THEN q[i] ELSE q[i + 1]
    <3>1. CASE i < k
      BY <1>1, <2>1, <2>3, <2>4, <3>1, SMT
    <3>2. CASE ~(i < k)
      <4>1. i - (k - 1) \in 1..(n - k) /\ k + (i - (k - 1)) = i + 1
        BY <1>1, <3>2, SMT
      <4>2. r[i] = b[i - (k - 1)]
        BY <1>1, <2>3, <2>4, <3>2, SMT
      <4>3. b[i - (k - 1)] = q[i + 1]
        <5> DEFINE m == i - (k - 1)
        <5>1. b[m] = q[k + m]
          BY <2>2, <4>1
        <5> QED
          BY <4>1, <5>1
      <4> QED
        BY <3>2, <4>2, <4>3
    <3> QED
      BY <3>1, <3>2
  <2> QED
    BY <2>3, <2>4, <2>5, <2>6
<1> QED
  BY <1>2

(* Removing from a queue without repetition leaves one, without that       *)
(* element.                                                                *)
LEMMA RemoveOne ==
    ASSUME NEW S, NEW q \in Seq(S), NEW k \in DOMAIN q
    PROVE  /\ RemoveAt(q, k) \in Seq(S)
           /\ IsInjective(q) => /\ IsInjective(RemoveAt(q, k))
                                /\ Range(RemoveAt(q, k)) = Range(q) \ {q[k]}
<1> DEFINE r == RemoveAt(q, k)
           n == Len(q)
<1>1. n \in Nat /\ DOMAIN q = 1..n /\ k \in 1..n
  OBVIOUS
<1>2. /\ r \in Seq(S)
      /\ DOMAIN r = 1..(n - 1)
      /\ \A i \in 1..(n - 1) : r[i] = IF i < k THEN q[i] ELSE q[i + 1]
  BY RemoveElements
<1> HIDE DEF r, n
<1>3. ASSUME IsInjective(q)
      PROVE  IsInjective(r) /\ Range(r) = Range(q) \ {q[k]}
  <2>1. IsInjective(r)
    <3> SUFFICES ASSUME NEW i \in 1..(n - 1), NEW j \in 1..(n - 1),
                        r[i] = r[j]
                 PROVE  i = j
      BY <1>2 DEF IsInjective
    <3>1. PICK u \in 1..n : r[i] = q[u] /\ u = IF i < k THEN i ELSE i + 1
      BY <1>1, <1>2, SMT
    <3>2. PICK v \in 1..n : r[j] = q[v] /\ v = IF j < k THEN j ELSE j + 1
      BY <1>1, <1>2, SMT
    <3>3. u = v
      BY <1>1, <1>3, <3>1, <3>2 DEF IsInjective
    <3> QED
      BY <1>1, <3>1, <3>2, <3>3, SMT
  <2>2. ASSUME NEW y \in Range(r)
        PROVE  y \in Range(q) /\ y # q[k]
    <3>1. PICK i \in 1..(n - 1) : y = IF i < k THEN q[i] ELSE q[i + 1]
      BY <1>2, SMT DEF Range
    <3> QED
      BY <1>1, <1>3, <3>1, SMT DEF Range, IsInjective
  <2>3. ASSUME NEW y \in Range(q), y # q[k]
        PROVE  y \in Range(r)
    <3>1. PICK i \in 1..n : y = q[i]
      BY <1>1, SMT DEF Range
    <3>2. CASE i < k
      <4>1. i \in DOMAIN r /\ r[i] = y
        BY <1>1, <1>2, <3>1, <3>2, SMT
      <4> QED
        BY <4>1 DEF Range
    <3>3. CASE i > k
      <4>1. i - 1 \in DOMAIN r /\ r[i - 1] = y
        BY <1>1, <1>2, <3>1, <3>3, SMT
      <4> QED
        BY <4>1 DEF Range
    <3> QED
      BY <1>1, <2>3, <3>1, <3>2, <3>3, SMT
  <2> QED
    BY <2>1, <2>2, <2>3
<1> QED
  BY <1>2, <1>3 DEF r

(* What a queue of addresses holds, read through a memory f. *)
Mapped(q, f) == [i \in DOMAIN q |-> f[q[i]]]

(* It is a queue, empty when the addresses are. *)
LEMMA MapType ==
    ASSUME NEW S, NEW q \in Seq(S), NEW f
    PROVE  /\ Len(Mapped(q, f)) = Len(q)
           /\ DOMAIN Mapped(q, f) = DOMAIN q
           /\ \E T : Mapped(q, f) \in Seq(T)
           /\ Mapped(q, f) = <<>> <=> q = <<>>
<1> DEFINE m == Mapped(q, f)
           T == {f[q[i]] : i \in DOMAIN q}
<1>1. Len(q) \in Nat /\ DOMAIN q = 1..Len(q)
  OBVIOUS
<1>2. m \in [1..Len(q) -> T]
  BY <1>1 DEF Mapped
<1> HIDE DEF T, m
<1>3. m \in Seq(T) /\ Len(m) = Len(q) /\ DOMAIN m = 1..Len(q)
  BY <1>1, <1>2
<1>4. m = <<>> <=> q = <<>>
  BY <1>1, <1>3
<1> QED
  BY <1>1, <1>3, <1>4 DEF m

(* Only the addresses in the queue count. *)
LEMMA MapSame ==
    ASSUME NEW S, NEW q \in Seq(S), NEW f, NEW g,
           \A s \in Range(q) : f[s] = g[s]
    PROVE  Mapped(q, f) = Mapped(q, g)
<1>1. \A i \in DOMAIN q : f[q[i]] = g[q[i]]
  BY DEF Range
<1> QED
  BY <1>1 DEF Mapped

(* Pushing an address pushes what it holds. *)
LEMMA MapPush ==
    ASSUME NEW S, NEW q \in Seq(S), NEW x \in S, NEW f
    PROVE  Mapped(Append(q, x), f) = Append(Mapped(q, f), f[x])
<1> DEFINE r == Append(q, x)
           m == Mapped(q, f)
           n == Len(q)
<1>1. /\ n \in Nat /\ DOMAIN r = 1..(n + 1) /\ DOMAIN q = 1..n
      /\ \A i \in 1..n : r[i] = q[i]
      /\ r[n + 1] = x
  OBVIOUS
<1>2. PICK T : m \in Seq(T) /\ Len(m) = n
  BY MapType
<1>3. \A i \in 1..n : m[i] = f[q[i]]
  BY <1>1 DEF Mapped
<1> HIDE DEF m, n, r
<1>4. /\ Append(m, f[x]) = [i \in 1..(n + 1) |->
                               IF i \in 1..n THEN m[i] ELSE f[x]]
  <2>1. m \in Seq(T \cup {f[x]}) /\ f[x] \in T \cup {f[x]}
    BY <1>2
  <2> QED
    BY <1>1, <1>2, <2>1
<1>5. Mapped(r, f) = [i \in 1..(n + 1) |-> f[r[i]]]
  BY <1>1 DEF Mapped
<1>6. \A i \in 1..(n + 1) : f[r[i]] = IF i \in 1..n THEN m[i] ELSE f[x]
  <2> TAKE i \in 1..(n + 1)
  <2>1. CASE i \in 1..n
    BY <1>1, <1>3, <2>1
  <2>2. CASE i \notin 1..n
    <3>1. i = n + 1
      BY <1>1, <2>2
    <3> QED
      BY <1>1, <2>2, <3>1
  <2> QED
    BY <2>1, <2>2
<1> QED
  BY <1>4, <1>5, <1>6 DEF r, m

(* Popping the first address pops what it holds. *)
LEMMA MapPop ==
    ASSUME NEW S, NEW q \in Seq(S), q # <<>>, NEW f
    PROVE  /\ Head(Mapped(q, f)) = f[Head(q)]
           /\ Tail(Mapped(q, f)) = Mapped(Tail(q), f)
<1> DEFINE t == Tail(q)
           m == Mapped(q, f)
           n == Len(q)
<1>1. /\ n \in Nat /\ n >= 1 /\ DOMAIN q = 1..n /\ Head(q) = q[1]
      /\ t \in Seq(S) /\ DOMAIN t = 1..(n - 1)
      /\ \A i \in 1..(n - 1) : t[i] = q[i + 1]
  OBVIOUS
<1>2. PICK T : m \in Seq(T) /\ Len(m) = n
  BY MapType
<1>3. \A i \in 1..n : m[i] = f[q[i]]
  BY <1>1 DEF Mapped
<1> HIDE DEF m, n, t
<1>4. /\ Head(m) = m[1]
      /\ Tail(m) = [i \in 1..(n - 1) |-> m[i + 1]]
  <2>1. m # <<>>
    BY <1>1, <1>2
  <2> DEFINE u == Tail(m)
  <2>2. /\ u \in Seq(T) /\ Head(m) = m[1] /\ Len(u) = n - 1
        /\ \A i \in 1..(n - 1) : u[i] = m[i + 1]
    BY <1>1, <1>2, <2>1
  <2> HIDE DEF u
  <2>3. u = [i \in 1..(n - 1) |-> u[i]]
    BY <1>1, <2>2
  <2> QED
    BY <2>2, <2>3 DEF u
<1>5. Mapped(t, f) = [i \in 1..(n - 1) |-> f[t[i]]]
  BY <1>1 DEF Mapped
<1>6. \A i \in 1..(n - 1) : m[i + 1] = f[t[i]]
  <2> TAKE i \in 1..(n - 1)
  <2>1. i + 1 \in 1..n
    BY <1>1
  <2> QED
    BY <1>1, <1>3, <2>1
<1>7. m[1] = f[q[1]]
  BY <1>1, <1>3
<1> QED
  BY <1>1, <1>4, <1>5, <1>6, <1>7 DEF t, m

(* Unlinking an address takes what it holds away. *)
LEMMA MapRemove ==
    ASSUME NEW S, NEW q \in Seq(S), NEW k \in DOMAIN q, NEW f
    PROVE  Mapped(RemoveAt(q, k), f) = RemoveAt(Mapped(q, f), k)
<1> DEFINE r == RemoveAt(q, k)
           m == Mapped(q, f)
           n == Len(q)
<1>1. n \in Nat /\ DOMAIN q = 1..n /\ k \in 1..n
  OBVIOUS
<1>2. PICK T : m \in Seq(T) /\ Len(m) = n /\ k \in DOMAIN m
  BY MapType
<1>3. \A i \in 1..n : m[i] = f[q[i]]
  BY <1>1 DEF Mapped
<1>4. /\ r \in Seq(S) /\ Len(r) = n - 1
      /\ \A i \in 1..(n - 1) : r[i] = IF i < k THEN q[i] ELSE q[i + 1]
  BY RemoveElements
<1> HIDE DEF m, n, r
<1>5. /\ RemoveAt(m, k) \in Seq(T) /\ Len(RemoveAt(m, k)) = n - 1
      /\ \A i \in 1..(n - 1) :
            RemoveAt(m, k)[i] = IF i < k THEN m[i] ELSE m[i + 1]
  BY <1>2, RemoveElements
<1> DEFINE u == RemoveAt(m, k)
<1> HIDE DEF u
<1>6. u = [i \in 1..(n - 1) |-> u[i]]
  BY <1>1, <1>5 DEF u
<1>7. Mapped(r, f) = [i \in 1..(n - 1) |-> f[r[i]]]
  BY <1>1, <1>4 DEF Mapped
<1>8. \A i \in 1..(n - 1) : f[r[i]] = u[i]
  <2> TAKE i \in 1..(n - 1)
  <2>1. i \in 1..n /\ i + 1 \in 1..n
    BY <1>1
  <2>2. u[i] = IF i < k THEN m[i] ELSE m[i + 1]
    BY <1>5 DEF u
  <2> QED
    BY <1>3, <1>4, <2>1, <2>2
<1> QED
  BY <1>6, <1>7, <1>8 DEF r, m, u

----------------------------------------------------------------------------

(* The ranges of the queues are sets of slots. *)
LEMMA RangesTyped ==
    ASSUME TypeOK
    PROVE  /\ Range(free_event_queue) \subseteq Slots
           /\ Range(event_queue) \subseteq Slots
           /\ Range(isr_event_queue) \subseteq Slots
           /\ \A id \in Entities : Range(delayed_response_list[id]) \subseteq Slots
<1>1. ASSUME NEW q \in Seq(Slots) PROVE Range(q) \subseteq Slots
  BY DEF Range
<1> QED
  BY <1>1 DEF TypeOK

(* The counter wraps within its type. *)
LEMMA CookieTyped ==
    ASSUME NEW n \in Nat
    PROVE  Cookie(n) \in 0..(CookieMod - 1)
BY FwkCoreAssumption DEF Cookie

(* duplicate_event: what a successful allocation does, in the terms of the *)
(* invariant.                                                              *)
LEMMA Allocation ==
    ASSUME IInv, NEW e \in EventType, DuplicateEvent(e)
    PROVE  /\ Allocated \in Slots
           /\ Allocated \in Range(free_event_queue)
           /\ free_event_queue' \in Seq(Slots)
           /\ IsInjective(free_event_queue')
           /\ Range(free_event_queue') = Range(free_event_queue) \ {Allocated}
           /\ event' \in [Slots -> EventType]
           /\ event'[Allocated] = e
           /\ \A s \in Slots : s # Allocated => event'[s] = event[s]
           /\ Allocated \notin Range(event_queue)
           /\ Allocated \notin Range(isr_event_queue)
           /\ ~Parked(Allocated)
           /\ Allocated # current_event
           /\ Allocated # put.slot
<1>1. free_event_queue \in Seq(Slots) /\ free_event_queue # <<>>
      /\ IsInjective(free_event_queue) /\ event \in [Slots -> EventType]
  BY DEF IInv, TypeOK, OneOwner, DuplicateEvent
<1>2. /\ Allocated \in Slots /\ Allocated \in Range(free_event_queue)
      /\ free_event_queue' \in Seq(Slots)
      /\ IsInjective(free_event_queue')
      /\ Range(free_event_queue') = Range(free_event_queue) \ {Allocated}
  BY <1>1, PopHead DEF Allocated, DuplicateEvent
<1>3. /\ event' \in [Slots -> EventType]
      /\ event'[Allocated] = e
      /\ \A s \in Slots : s # Allocated => event'[s] = event[s]
  BY <1>1, <1>2 DEF DuplicateEvent
<1>4. Owners(Allocated) = 1
  BY <1>2 DEF IInv, OneOwner
<1>5. /\ Allocated \notin Range(event_queue)
      /\ Allocated \notin Range(isr_event_queue)
      /\ ~Parked(Allocated)
      /\ Allocated # current_event /\ Allocated # put.slot
  BY <1>2, <1>4 DEF Owners, Count
<1> QED
  BY <1>2, <1>3, <1>5

(* The standard events that modules and ISRs put are well formed. *)
LEMMA StdEventTyped ==
    ASSUME NEW src \in Entities, NEW tgt \in Entities, NEW req \in BOOLEAN,
           NEW c \in 0..(CookieMod - 1)
    PROVE  /\ StdEvent(src, tgt, req, c) \in EventType
           /\ StdEvent(src, tgt, req, c).source_id = src
           /\ StdEvent(src, tgt, req, c).target_id = tgt
BY DEF StdEvent, EventType

(* An allocation leaves the events of the other slots alone. *)
LEMMA AllocationKeeps ==
    ASSUME IInv, NEW e \in EventType, DuplicateEvent(e),
           e.source_id \in Entities, e.target_id \in Entities
    PROVE  /\ Addressed'
           /\ UNCHANGED delayed_response_list => DelayedListsSound'
<1>1. Addressed'
  BY Allocation DEF IInv, Addressed
<1>2. ASSUME UNCHANGED delayed_response_list
      PROVE  DelayedListsSound'
  <2>1. ASSUME NEW id \in Entities, NEW s \in Range(delayed_response_list[id])
        PROVE  event'[s] = event[s]
    BY Allocation, RangesTyped DEF IInv, Parked
  <2> QED
    BY <1>2, <2>1 DEF IInv, DelayedListsSound
<1> QED
  BY <1>1, <1>2

(* put_event by the main thread up to the read of the cookie counter, for  *)
(* an event of the module that runs or for the response it returned.       *)
LEMMA PutBeginInv ==
    ASSUME IInv, NEW e \in EventType, DuplicateEvent(e),
           e.source_id \in Entities, e.target_id \in Entities,
           NEW ret, PutBegin(Allocated, ret),
           \/ pc = "start" /\ ret = "start"
           \/ pc = "handler" /\ ret \in {"handler", "free"},
           UNCHANGED <<event_queue, isr_event_queue, delayed_response_list,
                       current_event, event_cookie_counter, event_register,
                       deferred>>
    PROVE  IInv'
<1>1. /\ put' = [slot |-> Allocated, cookie |-> event_cookie_counter,
                 ret |-> ret]
      /\ pc' = "put" /\ put.slot = NoEvent
  BY DEF PutBegin, IInv, Control
<1>2. TypeOK'
  BY <1>1, Allocation DEF IInv, TypeOK, PutType
<1>3. Control'
  BY <1>1, Allocation, FwkCoreAssumption DEF IInv, Control
<1>4. OneOwner'
  <2>1. \A s \in Slots : Parked(s)' <=> Parked(s)
    BY DEF Parked
  <2>2. ASSUME NEW s \in Slots
        PROVE  Owners(s)' = 1
    <3>1. Owners(s) = 1 /\ s # NoEvent
      BY FwkCoreAssumption DEF IInv, OneOwner
    <3>2. /\ s \in Range(free_event_queue') <=>
                s \in Range(free_event_queue) /\ s # Allocated
          /\ Allocated \in Range(free_event_queue)
          /\ put'.slot = Allocated
      BY <1>1, Allocation
    <3> QED
      BY <1>1, <2>1, <3>1, <3>2 DEF Owners, Count
  <2> QED
    BY <2>2, Allocation DEF IInv, OneOwner
<1>5. Addressed' /\ DelayedListsSound'
  BY AllocationKeeps
<1> QED
  BY <1>2, <1>3, <1>4, <1>5 DEF IInv

(* fwk_put_event by the main thread. *)
LEMMA PutEventInv ==
    ASSUME IInv, NEW src \in Entities, NEW tgt \in Entities,
           NEW req \in BOOLEAN, PutEvent(src, tgt, req)
    PROVE  IInv'
<1> DEFINE e == StdEvent(src, tgt, req, 0)
<1>1. 0 \in 0..(CookieMod - 1)
  BY FwkCoreAssumption
<1>2. e \in EventType /\ e.source_id \in Entities /\ e.target_id \in Entities
  BY <1>1, StdEventTyped
<1>3. /\ DuplicateEvent(e) /\ PutBegin(Allocated, pc)
      /\ pc \in {"start", "handler"}
      /\ UNCHANGED <<event_queue, isr_event_queue, delayed_response_list,
                     current_event, event_cookie_counter, event_register,
                     deferred>>
  BY DEF PutEvent
<1> HIDE DEF e
<1> QED
  BY <1>2, <1>3, PutBeginInv

(* A light event, with the cookie and the parameters its slot had. *)
LEMMA LightEventTyped ==
    ASSUME TypeOK, NEW src \in Entities, NEW tgt \in Entities,
           NEW req \in BOOLEAN, DuplicateLightEvent(src, tgt, req)
    PROVE  \E e \in EventType : /\ DuplicateEvent(e)
                                /\ e.source_id = src /\ e.target_id = tgt
                                /\ ~e.is_response
                                /\ e.response_requested = req
<1> DEFINE e == [source_id |-> src, target_id |-> tgt,
                 cookie |-> event[Allocated].cookie,
                 is_response |-> FALSE, response_requested |-> req,
                 is_delayed_response |-> FALSE,
                 params |-> event[Allocated].params]
<1>1. DuplicateEvent(e)
  BY DEF DuplicateLightEvent
<1>2. Allocated \in Slots
  BY <1>1, PopHead DEF DuplicateEvent, TypeOK, Allocated
<1>3. event[Allocated] \in EventType
  BY <1>2 DEF TypeOK
<1>4. /\ e \in EventType /\ e.source_id = src /\ e.target_id = tgt
      /\ ~e.is_response /\ e.response_requested = req
  BY <1>3 DEF EventType
<1> QED
  BY <1>1, <1>4

(* fwk_put_event_light by the main thread. *)
LEMMA PutEventLightInv ==
    ASSUME IInv, NEW src \in Entities, NEW tgt \in Entities,
           NEW req \in BOOLEAN, PutEventLight(src, tgt, req)
    PROVE  IInv'
<1>1. PICK e \in EventType : /\ DuplicateEvent(e)
                             /\ e.source_id = src /\ e.target_id = tgt
  BY LightEventTyped DEF IInv, PutEventLight
<1>2. /\ event_queue' = Append(event_queue, Allocated)
      /\ event_queue \in Seq(Slots) /\ IsInjective(event_queue)
      /\ UNCHANGED <<isr_event_queue, delayed_response_list, current_event,
                     event_cookie_counter, pc, put, event_register, deferred>>
  BY DEF PutEventLight, IInv, TypeOK, OneOwner
<1>3. /\ event_queue' \in Seq(Slots) /\ IsInjective(event_queue')
      /\ Range(event_queue') = Range(event_queue) \cup {Allocated}
  BY <1>1, <1>2, PushTail, Allocation
<1>4. TypeOK'
  BY <1>1, <1>2, <1>3, Allocation DEF IInv, TypeOK
<1>5. Control'
  BY <1>2 DEF IInv, Control
<1>6. OneOwner'
  <2>1. \A s \in Slots : Parked(s)' <=> Parked(s)
    BY <1>2 DEF Parked
  <2>2. ASSUME NEW s \in Slots
        PROVE  Owners(s)' = 1
    <3>1. Owners(s) = 1
      BY DEF IInv, OneOwner
    <3>2. /\ s \in Range(free_event_queue') <=>
                s \in Range(free_event_queue) /\ s # Allocated
          /\ s \in Range(event_queue') <=>
                s \in Range(event_queue) \/ s = Allocated
          /\ Allocated \in Range(free_event_queue)
      BY <1>1, <1>3, Allocation
    <3> QED
      BY <1>2, <2>1, <3>1, <3>2 DEF Owners, Count
  <2> QED
    BY <1>1, <1>2, <1>3, <2>2, Allocation DEF IInv, OneOwner
<1>7. Addressed' /\ DelayedListsSound'
  BY <1>1, <1>2, AllocationKeeps
<1> QED
  BY <1>4, <1>5, <1>6, <1>7 DEF IInv

(* Writing the cookie or the params of an event leaves its other fields. *)
LEMMA CookieWrite ==
    ASSUME NEW e \in EventType, NEW c \in 0..(CookieMod - 1)
    PROVE  LET f == [e EXCEPT !.cookie = c] IN
           /\ f \in EventType
           /\ f.source_id = e.source_id /\ f.target_id = e.target_id
           /\ f.is_response = e.is_response
           /\ f.is_delayed_response = e.is_delayed_response
           /\ f.response_requested = e.response_requested
BY DEF EventType

(* The same for the write of the params by put_event. *)
LEMMA ParamsWrite ==
    ASSUME NEW e \in EventType, NEW p \in Entities
    PROVE  LET f == [e EXCEPT !.params = p] IN
           /\ f \in EventType
           /\ f.source_id = e.source_id /\ f.target_id = e.target_id
           /\ f.is_response = e.is_response
           /\ f.is_delayed_response = e.is_delayed_response
           /\ f.response_requested = e.response_requested
BY DEF EventType

(* The end of put_event: the counter is written back, the slot pushed. *)
LEMMA PutEndInv ==
    ASSUME IInv, PutEnd
    PROVE  IInv'
<1> DEFINE x == put.slot
<1>1. /\ pc = "put" /\ x \in Slots /\ x # NoEvent
      /\ put.cookie \in 0..(CookieMod - 1)
      /\ put.ret \in {"start", "handler", "free"}
      /\ event \in [Slots -> EventType] /\ event_queue \in Seq(Slots)
  BY DEF IInv, TypeOK, Control, PutEnd, PutType
<1>2. /\ event' = [event EXCEPT ![x] = [event[x] EXCEPT !.cookie = put.cookie]]
      /\ event_cookie_counter' = Cookie(put.cookie + 1)
      /\ event_queue' = Append(event_queue, x)
      /\ pc' = put.ret /\ put' = NoPut
      /\ UNCHANGED <<free_event_queue, isr_event_queue, delayed_response_list,
                     current_event, event_register, deferred>>
  BY DEF PutEnd
<1>3. /\ x \notin Range(free_event_queue) /\ x \notin Range(event_queue)
      /\ x \notin Range(isr_event_queue) /\ ~Parked(x) /\ x # current_event
  BY <1>1 DEF IInv, OneOwner, Owners, Count
<1> HIDE DEF x
<1>4. /\ event' \in [Slots -> EventType]
      /\ \A s \in Slots : s # x => event'[s] = event[s]
      /\ event'[x].source_id = event[x].source_id
      /\ event'[x].target_id = event[x].target_id
  BY <1>1, <1>2, CookieWrite
<1>5. /\ event_queue' \in Seq(Slots)
      /\ Range(event_queue') = Range(event_queue) \cup {x}
      /\ IsInjective(event_queue')
  BY <1>1, <1>2, <1>3, PushTail DEF IInv, OneOwner
<1>6. event_cookie_counter' \in 0..(CookieMod - 1)
  BY <1>1, <1>2, CookieTyped
<1>7. put' \in PutType /\ put'.slot = NoEvent
  BY <1>2, FwkCoreAssumption DEF NoPut, PutType
<1>8. TypeOK'
  BY <1>1, <1>2, <1>4, <1>5, <1>6, <1>7 DEF IInv, TypeOK
<1>9. Control'
  BY <1>1, <1>2, <1>7 DEF IInv, Control
<1>10. OneOwner'
  <2>1. \A s \in Slots : Parked(s)' <=> Parked(s)
    BY <1>2 DEF Parked
  <2>2. ASSUME NEW s \in Slots
        PROVE  Owners(s)' = 1
    <3>1. Owners(s) = 1 /\ s # NoEvent
      BY FwkCoreAssumption DEF IInv, OneOwner
    <3> QED
      BY <1>2, <1>3, <1>5, <1>7, <2>1, <3>1 DEF Owners, Count, x
  <2> QED
    BY <1>2, <1>5, <2>2 DEF IInv, OneOwner
<1>11. Addressed'
  BY <1>1, <1>2, <1>4 DEF IInv, Addressed
<1>12. DelayedListsSound'
  <2>1. ASSUME NEW id \in Entities, NEW s \in Range(delayed_response_list[id])
        PROVE  event'[s] = event[s]
    BY <1>3, <1>4, RangesTyped DEF IInv, Parked
  <2> QED
    BY <1>2, <2>1 DEF IInv, DelayedListsSound
<1> QED
  BY <1>8, <1>9, <1>10, <1>11, <1>12 DEF IInv

(* While a handler runs, the event it handles is between two entities. *)
LEMMA HandledEvent ==
    ASSUME IInv, pc = "handler"
    PROVE  /\ current_event \in Slots /\ current_event # NoEvent
           /\ put.slot = NoEvent
           /\ Me \in Entities
           /\ event[current_event] \in EventType
           /\ event[current_event].source_id \in Entities
<1>1. current_event \in Slots /\ current_event # NoEvent /\ put.slot = NoEvent
  BY DEF IInv, TypeOK, Control
<1>2. current_event \notin Range(free_event_queue)
  BY <1>1 DEF IInv, OneOwner, Owners, Count
<1> QED
  BY <1>1, <1>2 DEF IInv, TypeOK, Addressed, Me

(* put_event with is_delayed_response: the slot leaves the list of the     *)
(* entity whose handler runs.                                              *)
LEMMA PutDelayedResponseInv ==
    ASSUME IInv, pc = "handler", NEW p \in Entities,
           NEW i \in DOMAIN delayed_response_list[Me],
           PutDelayedResponse(i, p),
           deferred' \in [Entities -> SUBSET [cookie : 0..(CookieMod - 1),
                                              requester : Entities]]
    PROVE  IInv'
<1> DEFINE l == delayed_response_list[Me]
           x == l[i]
<1>1. /\ current_event \in Slots /\ current_event # NoEvent
      /\ put.slot = NoEvent
  BY HandledEvent
<1>2. Me \in Entities
  BY HandledEvent
<1>3. l \in Seq(Slots) /\ IsInjective(l) /\ event \in [Slots -> EventType]
  BY <1>2 DEF IInv, TypeOK, OneOwner
<1>4. x \in Slots /\ x \in Range(l)
  BY <1>3 DEF Range
<1>5. /\ x \notin Range(free_event_queue) /\ x \notin Range(event_queue)
      /\ x \notin Range(isr_event_queue) /\ x # current_event
  <2>1. Parked(x)
    BY <1>2, <1>4 DEF Parked
  <2> QED
    BY <1>4, <2>1 DEF IInv, OneOwner, Owners, Count
<1>6. /\ event' = [event EXCEPT ![x] = [event[x] EXCEPT !.params = p]]
      /\ delayed_response_list' =
             [delayed_response_list EXCEPT ![Me] = RemoveAt(l, i)]
      /\ put' = [slot |-> x, cookie |-> event_cookie_counter,
                 ret |-> "handler"]
      /\ pc' = "put"
      /\ UNCHANGED <<free_event_queue, event_queue, isr_event_queue,
                     current_event, event_cookie_counter, event_register>>
  BY DEF PutDelayedResponse, PutBegin
<1>7. /\ RemoveAt(l, i) \in Seq(Slots) /\ IsInjective(RemoveAt(l, i))
      /\ Range(RemoveAt(l, i)) = Range(l) \ {x}
  BY <1>3, RemoveOne
<1> DEFINE m == Me
           r == RemoveAt(l, i)
<1>8. /\ delayed_response_list' \in [Entities -> Seq(Slots)]
      /\ delayed_response_list'[m] = r
      /\ \A id \in Entities : id # m =>
            delayed_response_list'[id] = delayed_response_list[id]
  BY <1>2, <1>6, <1>7 DEF IInv, TypeOK
<1> HIDE DEF x, r, m
<1>9. /\ event' \in [Slots -> EventType]
      /\ \A s \in Slots : s # x => event'[s] = event[s]
      /\ event'[x].source_id = event[x].source_id
      /\ event'[x].target_id = event[x].target_id
  BY <1>3, <1>4, <1>6, ParamsWrite
<1>10. m \in Entities /\ Range(r) = Range(delayed_response_list[m]) \ {x}
       /\ IsInjective(r) /\ x \in Range(delayed_response_list[m])
  BY <1>2, <1>4, <1>7 DEF m, r
<1>11. \A id \in Entities : /\ IsInjective(delayed_response_list'[id])
                             /\ Range(delayed_response_list'[id]) =
                                   Range(delayed_response_list[id]) \ {x}
  <2>1. ASSUME NEW id \in Entities, id # m
        PROVE  x \notin Range(delayed_response_list[id])
    BY <1>10, <2>1 DEF IInv, OneOwner
  <2> QED
    BY <1>8, <1>10, <2>1 DEF IInv, OneOwner
<1>12. TypeOK'
  BY <1>4, <1>6, <1>8, <1>9 DEF IInv, TypeOK, PutType
<1>13. Control'
  BY <1>1, <1>4, <1>6, FwkCoreAssumption DEF IInv, Control
<1>14. OneOwner'
  <2>1. ASSUME NEW s \in Slots
        PROVE  Owners(s)' = 1
    <3>1. Owners(s) = 1 /\ s # NoEvent
      BY FwkCoreAssumption DEF IInv, OneOwner
    <3>2. Parked(s)' <=> Parked(s) /\ s # x
      BY <1>11 DEF Parked
    <3>3. Parked(x)
      BY <1>10 DEF Parked
    <3>4. put'.slot = x
      BY <1>6
    <3> QED
      BY <1>1, <1>6, <3>1, <3>2, <3>3, <3>4 DEF Owners, Count
  <2>2. \A a, b \in Entities : a # b =>
            Range(delayed_response_list[a])'
                \cap Range(delayed_response_list[b])' = {}
    BY <1>11 DEF IInv, OneOwner
  <2> QED
    BY <1>6, <1>11, <2>1, <2>2 DEF IInv, OneOwner
<1>15. Addressed'
  BY <1>4, <1>6, <1>9 DEF IInv, Addressed
<1>16. DelayedListsSound'
  <2>1. ASSUME NEW id \in Entities, NEW s \in Range(delayed_response_list'[id])
        PROVE  event'[s] = event[s] /\ s \in Range(delayed_response_list[id])
    BY <1>9, <1>11, RangesTyped DEF IInv
  <2> QED
    BY <2>1 DEF IInv, DelayedListsSound
<1> QED
  BY <1>12, <1>13, <1>14, <1>15, <1>16 DEF IInv

(* A module answers a request it deferred, the oldest or by cookie. *)
LEMMA AnswerInv ==
    ASSUME IInv, NEW id \in Entities, NEW m \in deferred[id],
           AnswerByCookie(m) \/ AnswerFirst(m)
    PROVE  IInv'
<1>1. pc = "handler"
  BY DEF AnswerByCookie, AnswerFirst
<1>2. Me \in Entities
  BY <1>1, HandledEvent
<1>3. m.requester \in Entities
  BY DEF IInv, TypeOK
<1>4. deferred' = [deferred EXCEPT ![Me] = @ \ {m}]
  BY DEF AnswerByCookie, AnswerFirst
<1>5. deferred' \in [Entities -> SUBSET [cookie : 0..(CookieMod - 1),
                                         requester : Entities]]
  BY <1>2, <1>4 DEF IInv, TypeOK
<1>6. PICK i \in DOMAIN delayed_response_list[Me] :
         PutDelayedResponse(i, m.requester)
  <2>1. CASE AnswerByCookie(m)
    BY <2>1 DEF AnswerByCookie
  <2>2. CASE AnswerFirst(m)
    <3>1. delayed_response_list[Me] \in Seq(Slots)
      BY <1>2 DEF IInv, TypeOK
    <3>2. 1 \in DOMAIN delayed_response_list[Me]
      BY <2>2, <3>1 DEF AnswerFirst
    <3> QED
      BY <2>2, <3>2 DEF AnswerFirst
  <2> QED
    BY <2>1, <2>2
<1> QED
  BY <1>1, <1>3, <1>5, <1>6, PutDelayedResponseInv

(* process_next_event takes the head of the event queue. *)
LEMMA ProcessNextEventInv ==
    ASSUME IInv, ProcessNextEvent
    PROVE  IInv'
<1> DEFINE x == Head(event_queue)
<1>1. /\ pc = "loop" /\ event_queue # <<>> /\ event_queue \in Seq(Slots)
      /\ current_event' = x /\ event_queue' = Tail(event_queue)
      /\ pc' = "handler" /\ current_event = NoEvent /\ put.slot = NoEvent
      /\ UNCHANGED <<free_event_queue, isr_event_queue, delayed_response_list,
                     event, event_cookie_counter, put, event_register,
                     deferred>>
  BY DEF ProcessNextEvent, IInv, TypeOK, Control
<1>2. /\ x \in Slots /\ x \in Range(event_queue)
      /\ event_queue' \in Seq(Slots) /\ IsInjective(event_queue')
      /\ Range(event_queue') = Range(event_queue) \ {x}
  BY <1>1, PopHead DEF IInv, OneOwner
<1> HIDE DEF x
<1>3. TypeOK'
  BY <1>1, <1>2 DEF IInv, TypeOK
<1>4. Control'
  BY <1>1, <1>2, FwkCoreAssumption DEF IInv, Control
<1>5. OneOwner'
  <2>1. \A s \in Slots : Parked(s)' <=> Parked(s)
    BY <1>1 DEF Parked
  <2>2. ASSUME NEW s \in Slots
        PROVE  Owners(s)' = 1
    <3>1. Owners(s) = 1 /\ s # NoEvent
      BY FwkCoreAssumption DEF IInv, OneOwner
    <3> QED
      BY <1>1, <1>2, <2>1, <3>1 DEF Owners, Count
  <2> QED
    BY <1>1, <1>2, <2>2 DEF IInv, OneOwner
<1>6. Addressed' /\ DelayedListsSound'
  BY <1>1 DEF IInv, Addressed, DelayedListsSound
<1> QED
  BY <1>3, <1>4, <1>5, <1>6 DEF IInv

(* The response built from the current event is well formed. *)
LEMMA AsyncResponseTyped ==
    ASSUME IInv, pc = "handler", NEW id \in Entities, NEW d \in BOOLEAN
    PROVE  /\ AsyncResponse(id, d) \in EventType
           /\ AsyncResponse(id, d).source_id = id
           /\ AsyncResponse(id, d).target_id \in Entities
           /\ AsyncResponse(id, d).is_response
           /\ ~AsyncResponse(id, d).response_requested
           /\ AsyncResponse(id, d).is_delayed_response = d
BY HandledEvent DEF AsyncResponse, EventType, Me

(* The handler returns and the response is put, or lost. *)
LEMMA ReturnResponseInv ==
    ASSUME IInv, ReturnResponse
    PROVE  IInv'
<1>1. /\ pc = "handler"
      /\ UNCHANGED <<event_queue, isr_event_queue, delayed_response_list,
                     current_event, event_cookie_counter, event_register,
                     deferred>>
  BY DEF ReturnResponse
<1>2. CASE /\ DuplicateEvent(AsyncResponse(Me, FALSE))
           /\ PutBegin(Allocated, "free")
  <2> DEFINE e == AsyncResponse(Me, FALSE)
  <2>1. /\ e \in EventType /\ e.source_id \in Entities
        /\ e.target_id \in Entities
    BY <1>1, AsyncResponseTyped, HandledEvent
  <2> HIDE DEF e
  <2>2. DuplicateEvent(e)
    BY <1>2 DEF e
  <2> QED
    BY <1>1, <1>2, <2>1, <2>2, PutBeginInv
<1>3. CASE /\ free_event_queue = <<>> /\ pc' = "free"
           /\ UNCHANGED <<free_event_queue, event, put>>
  <2>1. TypeOK' /\ Control' /\ Addressed' /\ DelayedListsSound'
    BY <1>1, <1>3
       DEF IInv, TypeOK, Control, Addressed, DelayedListsSound
  <2>2. OneOwner'
    BY <1>1, <1>3 DEF IInv, OneOwner, Owners, Parked
  <2> QED
    BY <2>1, <2>2 DEF IInv
<1> QED
  BY <1>2, <1>3 DEF ReturnResponse

(* The handler defers: the response waits in the list of its entity. *)
LEMMA ReturnDelayedResponseInv ==
    ASSUME IInv, NEW m \in Entities, ReturnDelayedResponse(m)
    PROVE  IInv'
<1> DEFINE e == AsyncResponse(m, TRUE)
           l == delayed_response_list[m]
<1>1. /\ pc = "handler" /\ pc' = "free"
      /\ UNCHANGED <<event_queue, isr_event_queue, current_event,
                     event_cookie_counter, put, event_register>>
      /\ deferred' = [deferred EXCEPT ![m] = @ \cup
                         {[cookie    |-> event[current_event].cookie,
                           requester |-> event[current_event].source_id]}]
  BY DEF ReturnDelayedResponse
<1>2. deferred' \in [Entities -> SUBSET [cookie : 0..(CookieMod - 1),
                                         requester : Entities]]
  <2>1. /\ event[current_event].cookie \in 0..(CookieMod - 1)
        /\ event[current_event].source_id \in Entities
    BY <1>1, HandledEvent DEF EventType
  <2> QED
    BY <1>1, <2>1 DEF IInv, TypeOK
<1>3. CASE /\ DuplicateEvent(e)
           /\ delayed_response_list' =
                 [delayed_response_list EXCEPT ![m] = Append(l, Allocated)]
  <2> DEFINE x == Allocated
             r == Append(l, x)
  <2>1. /\ e \in EventType /\ e.source_id = m /\ m \in Entities
        /\ e.target_id \in Entities /\ e.is_response
        /\ ~e.response_requested /\ e.is_delayed_response
    BY <1>1, AsyncResponseTyped, HandledEvent
  <2> HIDE DEF e
  <2>2. l \in Seq(Slots) /\ IsInjective(l)
    BY <2>1 DEF IInv, TypeOK, OneOwner
  <2>3. /\ x \in Slots /\ ~Parked(x) /\ event'[x] = e
        /\ \A s \in Slots : s # x => event'[s] = event[s]
    BY <1>3, <2>1, Allocation
  <2>4. /\ r \in Seq(Slots) /\ IsInjective(r)
        /\ Range(r) = Range(l) \cup {x}
    <3>1. x \notin Range(l)
      BY <2>1, <2>3 DEF Parked
    <3> QED
      BY <2>2, <2>3, <3>1, PushTail
  <2> HIDE DEF x, r
  <2>5. /\ delayed_response_list' \in [Entities -> Seq(Slots)]
        /\ delayed_response_list'[m] = r
        /\ \A id \in Entities : id # m =>
              delayed_response_list'[id] = delayed_response_list[id]
    BY <1>3, <2>1, <2>4 DEF IInv, TypeOK, x, r
  <2>6. \A id \in Entities :
           \A s : s \in Range(delayed_response_list'[id]) <=>
                    \/ s \in Range(delayed_response_list[id])
                    \/ id = m /\ s = x
    BY <2>4, <2>5
  <2>7. TypeOK'
    BY <1>1, <1>2, <1>3, <2>1, <2>5, Allocation DEF IInv, TypeOK
  <2>8. Control'
    BY <1>1 DEF IInv, Control
  <2>9. OneOwner'
    <3>1. ASSUME NEW s \in Slots
          PROVE  Owners(s)' = 1
      <4>1. Owners(s) = 1
        BY DEF IInv, OneOwner
      <4>2. Parked(s)' <=> Parked(s) \/ s = x
        BY <2>1, <2>6 DEF Parked
      <4>3. /\ s \in Range(free_event_queue') <=>
                  s \in Range(free_event_queue) /\ s # x
            /\ x \in Range(free_event_queue)
        BY <1>3, <2>1, Allocation DEF x
      <4> QED
        BY <1>1, <4>1, <4>2, <4>3 DEF Owners, Count
    <3>2. ASSUME NEW a \in Entities, NEW b \in Entities, a # b
          PROVE  Range(delayed_response_list'[a])
                    \cap Range(delayed_response_list'[b]) = {}
      BY <2>3, <2>6, <3>2 DEF IInv, OneOwner, Parked
    <3>3. \A id \in Entities : IsInjective(delayed_response_list'[id])
      BY <2>4, <2>5 DEF IInv, OneOwner
    <3> QED
      <4>1. IsInjective(free_event_queue')
        BY <1>3, <2>1, Allocation
      <4> QED
        BY <1>1, <3>1, <3>2, <3>3, <4>1 DEF IInv, OneOwner
  <2>10. Addressed'
    BY <1>3, <2>1, AllocationKeeps
  <2>11. DelayedListsSound'
    <3>1. ASSUME NEW id \in Entities, NEW s \in Range(delayed_response_list'[id])
          PROVE  \/ id = m /\ s = x
                 \/ /\ s \in Range(delayed_response_list[id])
                    /\ event'[s] = event[s]
      BY <2>3, <2>6, RangesTyped DEF IInv, Parked
    <3> QED
      BY <2>1, <2>3, <3>1 DEF IInv, DelayedListsSound
  <2> QED
    BY <2>7, <2>8, <2>9, <2>10, <2>11 DEF IInv
<1>4. CASE /\ free_event_queue = <<>>
           /\ UNCHANGED <<free_event_queue, event, delayed_response_list>>
  <2>1. TypeOK' /\ Control' /\ Addressed' /\ DelayedListsSound'
    BY <1>1, <1>2, <1>4
       DEF IInv, TypeOK, Control, Addressed, DelayedListsSound
  <2>2. OneOwner'
    BY <1>1, <1>4 DEF IInv, OneOwner, Owners, Parked
  <2> QED
    BY <2>1, <2>2 DEF IInv
<1> QED
  BY <1>3, <1>4 DEF ReturnDelayedResponse

(* The end of process_next_event gives the slot back to the pool. *)
LEMMA FreeEventInv ==
    ASSUME IInv, FreeEvent
    PROVE  IInv'
<1> DEFINE x == current_event
<1>1. /\ pc = "free" /\ x \in Slots /\ x # NoEvent /\ put.slot = NoEvent
      /\ free_event_queue \in Seq(Slots) /\ IsInjective(free_event_queue)
  BY DEF IInv, TypeOK, Control, OneOwner, FreeEvent
<1>2. /\ free_event_queue' = Append(free_event_queue, x)
      /\ current_event' = NoEvent /\ pc' = "loop"
      /\ UNCHANGED <<event_queue, isr_event_queue, delayed_response_list,
                     event, event_cookie_counter, put, event_register,
                     deferred>>
  BY DEF FreeEvent
<1>3. x \notin Range(free_event_queue)
  BY <1>1 DEF IInv, OneOwner, Owners, Count
<1>4. /\ free_event_queue' \in Seq(Slots) /\ IsInjective(free_event_queue')
      /\ Range(free_event_queue') = Range(free_event_queue) \cup {x}
  BY <1>1, <1>2, <1>3, PushTail
<1>5. TypeOK' /\ Control'
  BY <1>1, <1>2, <1>4 DEF IInv, TypeOK, Control
<1>6. OneOwner'
  <2>1. \A s \in Slots : Parked(s)' <=> Parked(s)
    BY <1>2 DEF Parked
  <2>2. ASSUME NEW s \in Slots
        PROVE  Owners(s)' = 1
    <3>1. Owners(s) = 1 /\ s # NoEvent
      BY FwkCoreAssumption DEF IInv, OneOwner
    <3> QED
      BY <1>2, <1>3, <1>4, <2>1, <3>1 DEF Owners, Count
  <2> QED
    BY <1>2, <1>4, <2>2 DEF IInv, OneOwner
<1>7. Addressed' /\ DelayedListsSound'
  BY <1>2, <1>4 DEF IInv, Addressed, DelayedListsSound
<1> QED
  BY <1>5, <1>6, <1>7 DEF IInv

(* process_isr moves the oldest ISR event to the event queue, if any. *)
LEMMA ProcessIsrInv ==
    ASSUME IInv, ProcessIsr
    PROVE  IInv'
<1> DEFINE x == Head(isr_event_queue)
<1>1. /\ pc = "loop"
      /\ isr_event_queue \in Seq(Slots) /\ IsInjective(isr_event_queue)
      /\ event_queue \in Seq(Slots) /\ IsInjective(event_queue)
      /\ UNCHANGED <<free_event_queue, delayed_response_list, event,
                     current_event, event_cookie_counter, put, event_register,
                     deferred>>
  BY DEF ProcessIsr, IInv, TypeOK, OneOwner
<1>2. CASE /\ isr_event_queue # <<>>
           /\ isr_event_queue' = Tail(isr_event_queue)
           /\ event_queue' = Append(event_queue, x)
           /\ pc' = pc
  <2>1. /\ x \in Slots /\ x \in Range(isr_event_queue)
        /\ isr_event_queue' \in Seq(Slots) /\ IsInjective(isr_event_queue')
        /\ Range(isr_event_queue') = Range(isr_event_queue) \ {x}
    BY <1>1, <1>2, PopHead
  <2>2. x \notin Range(event_queue)
    BY <2>1 DEF IInv, OneOwner, Owners, Count
  <2>3. /\ event_queue' \in Seq(Slots) /\ IsInjective(event_queue')
        /\ Range(event_queue') = Range(event_queue) \cup {x}
    BY <1>1, <1>2, <2>1, <2>2, PushTail
  <2> HIDE DEF x
  <2>4. TypeOK' /\ Control' /\ Addressed' /\ DelayedListsSound'
    BY <1>1, <1>2, <2>1, <2>3
       DEF IInv, TypeOK, Control, Addressed, DelayedListsSound
  <2>5. OneOwner'
    <3>1. \A s \in Slots : Parked(s)' <=> Parked(s)
      BY <1>1 DEF Parked
    <3>2. ASSUME NEW s \in Slots
          PROVE  Owners(s)' = 1
      <4>1. Owners(s) = 1
        BY DEF IInv, OneOwner
      <4> QED
        BY <1>1, <2>1, <2>2, <2>3, <3>1, <4>1 DEF Owners, Count
    <3> QED
      BY <1>1, <2>1, <2>3, <3>2 DEF IInv, OneOwner
  <2> QED
    BY <2>4, <2>5 DEF IInv
<1>3. CASE /\ isr_event_queue = <<>> /\ pc' = "log"
           /\ UNCHANGED <<event_queue, isr_event_queue>>
  <2>1. TypeOK' /\ Control' /\ Addressed' /\ DelayedListsSound'
    BY <1>1, <1>3
       DEF IInv, TypeOK, Control, Addressed, DelayedListsSound
  <2>2. OneOwner'
    BY <1>1, <1>3 DEF IInv, OneOwner, Owners, Parked
  <2> QED
    BY <2>1, <2>2 DEF IInv
<1> QED
  BY <1>2, <1>3 DEF ProcessIsr

(* Steps that move no event: the end of start-up and of a handler without  *)
(* response, the idle path, an ISR that puts nothing.                      *)
LEMMA QuietInv ==
    ASSUME IInv,
           RunMainLoop \/ ReturnNoResponse \/ LogUnbuffer \/ ArchSuspend
             \/ IsrReturn \/ UNCHANGED vars
    PROVE  IInv'
<1>1. UNCHANGED <<queues, event, current_event, put, event_cookie_counter,
                  deferred>>
  BY DEF RunMainLoop, ReturnNoResponse, LogUnbuffer, ArchSuspend, IsrReturn,
         vars
<1>2. /\ event_register' \in BOOLEAN
      /\ \/ pc' = pc
         \/ pc = "handler" /\ pc' = "free"
         \/ pc \in {"start", "log", "suspend"} /\ pc' \in {"loop", "suspend"}
  BY DEF RunMainLoop, ReturnNoResponse, LogUnbuffer, ArchSuspend, IsrReturn,
         vars, IInv, TypeOK
<1>3. TypeOK' /\ Control'
  BY <1>1, <1>2 DEF IInv, TypeOK, Control, queues
<1>4. OneOwner'
  BY <1>1 DEF IInv, OneOwner, Owners, Parked, queues
<1>5. Addressed' /\ DelayedListsSound'
  BY <1>1 DEF IInv, Addressed, DelayedListsSound, queues
<1> QED
  BY <1>3, <1>4, <1>5 DEF IInv

(* An ISR puts an event in the ISR queue, wherever the main thread is. *)
LEMMA IsrPutInv ==
    ASSUME IInv, NEW e \in EventType, DuplicateEvent(e),
           e.source_id \in Entities, e.target_id \in Entities,
           isr_event_queue' = Append(isr_event_queue, Allocated),
           event_cookie_counter' \in 0..(CookieMod - 1),
           event_register' = TRUE,
           UNCHANGED <<event_queue, delayed_response_list, current_event, pc,
                       put, deferred>>
    PROVE  IInv'
<1>1. /\ isr_event_queue' \in Seq(Slots) /\ IsInjective(isr_event_queue')
      /\ Range(isr_event_queue') = Range(isr_event_queue) \cup {Allocated}
  <2>1. isr_event_queue \in Seq(Slots) /\ IsInjective(isr_event_queue)
    BY DEF IInv, TypeOK, OneOwner
  <2> QED
    BY <2>1, PushTail, Allocation
<1>2. TypeOK'
  BY <1>1, Allocation DEF IInv, TypeOK
<1>3. Control'
  BY DEF IInv, Control
<1>4. OneOwner'
  <2>1. \A s \in Slots : Parked(s)' <=> Parked(s)
    BY DEF Parked
  <2>2. ASSUME NEW s \in Slots
        PROVE  Owners(s)' = 1
    <3>1. Owners(s) = 1
      BY DEF IInv, OneOwner
    <3>2. /\ s \in Range(free_event_queue') <=>
                s \in Range(free_event_queue) /\ s # Allocated
          /\ Allocated \in Range(free_event_queue)
      BY Allocation
    <3> QED
      BY <1>1, <2>1, <3>1, <3>2 DEF Owners, Count
  <2> QED
    BY <1>1, <2>2, Allocation DEF IInv, OneOwner
<1>5. Addressed' /\ DelayedListsSound'
  BY AllocationKeeps
<1> QED
  BY <1>2, <1>3, <1>4, <1>5 DEF IInv

(* Every ISR preserves the invariant. *)
LEMMA IsrInv ==
    ASSUME IInv, Isr
    PROVE  IInv'
<1>1. event_cookie_counter \in 0..(CookieMod - 1)
  BY DEF IInv, TypeOK
<1>2. ASSUME NEW src \in Entities, NEW tgt \in Entities,
             NEW req \in BOOLEAN, IsrPutEvent(src, tgt, req)
      PROVE  IInv'
  <2> DEFINE e == StdEvent(src, tgt, req, event_cookie_counter)
  <2>1. /\ e \in EventType /\ e.source_id \in Entities
        /\ e.target_id \in Entities
    BY <1>1, StdEventTyped
  <2>2. DuplicateEvent(e)
    BY <1>2 DEF IsrPutEvent
  <2> HIDE DEF e
  <2>3. event_cookie_counter' \in 0..(CookieMod - 1)
    BY <1>1, <1>2, CookieTyped DEF IsrPutEvent
  <2> QED
    BY <1>2, <2>1, <2>2, <2>3, IsrPutInv DEF IsrPutEvent
<1>3. ASSUME NEW src \in Entities, NEW tgt \in Entities,
             NEW req \in BOOLEAN, IsrPutEventLight(src, tgt, req)
      PROVE  IInv'
  <2>1. PICK e \in EventType : /\ DuplicateEvent(e)
                               /\ e.source_id = src /\ e.target_id = tgt
    BY <1>3, LightEventTyped DEF IInv, IsrPutEventLight
  <2> QED
    BY <1>1, <1>3, <2>1, IsrPutInv DEF IsrPutEventLight
<1> QED
  BY <1>2, <1>3, QuietInv, FwkCoreAssumption DEF Isr

(* __fwk_init puts every slot in the pool. *)
LEMMA InitInv ==
    ASSUME Init
    PROVE  IInv
<1>1. EventCount \in Nat /\ NoEvent \notin Slots /\ 0 \in 0..(CookieMod - 1)
  BY FwkCoreAssumption, FS_CardinalityType DEF EventCount
<1>2. free_event_queue \in Seq(Slots)
  BY <1>1 DEF Init
<1>3. ZeroEvent \in EventType
  BY <1>1 DEF ZeroEvent, EventType
<1>4. NoPut \in PutType /\ NoPut.slot = NoEvent
  BY <1>1 DEF NoPut, PutType
<1>5. TypeOK
  <2>1. /\ event_queue \in Seq(Slots) /\ isr_event_queue \in Seq(Slots)
        /\ delayed_response_list \in [Entities -> Seq(Slots)]
    BY DEF Init
  <2>2. event \in [Slots -> EventType]
    BY <1>3 DEF Init
  <2>3. deferred \in [Entities -> SUBSET [cookie : 0..(CookieMod - 1),
                                          requester : Entities]]
    BY DEF Init
  <2> QED
    BY <1>1, <1>2, <1>4, <2>1, <2>2, <2>3 DEF Init, TypeOK
<1>6. Control
  BY <1>4 DEF Init, Control
<1>7. Range(<<>>) = {} /\ IsInjective(<<>>)
  BY DEF Range, IsInjective
<1>8. OneOwner
  <2>1. ASSUME NEW s \in Slots
        PROVE  Owners(s) = 1
    <3>1. ~Parked(s)
      BY <1>7 DEF Init, Parked
    <3> QED
      BY <1>1, <1>4, <1>7, <3>1 DEF Init, Owners, Count
  <2> QED
    BY <1>7, <2>1 DEF Init, OneOwner
<1>9. Addressed
  BY DEF Init, Addressed
<1>10. DelayedListsSound
  BY <1>7 DEF Init, DelayedListsSound
<1> QED
  BY <1>5, <1>6, <1>8, <1>9, <1>10 DEF IInv

(* Every step of the main thread and of the ISRs preserves the invariant. *)
LEMMA NextInv ==
    ASSUME IInv, [Next]_vars
    PROVE  IInv'
<1>1. CASE ModuleStep
  BY <1>1, PutEventInv, PutEventLightInv, AnswerInv, FwkCoreAssumption
     DEF ModuleStep
<1>2. CASE HandlerReturn
  BY <1>2, ReturnResponseInv, ReturnDelayedResponseInv, QuietInv
     DEF HandlerReturn
<1>3. CASE LoopStep
  BY <1>3, PutEndInv, ProcessNextEventInv, FreeEventInv, ProcessIsrInv,
     QuietInv DEF LoopStep
<1>4. CASE Isr
  BY <1>4, IsrInv
<1> QED
  BY <1>1, <1>2, <1>3, <1>4, QuietInv DEF Next

(* The inductive invariant holds of every reachable state.  *)
THEOREM Invariance == Spec => []IInv
<1>1. Init => IInv
  BY InitInv
<1>2. IInv /\ [Next]_vars => IInv'
  BY NextInv
<1> QED
  BY <1>1, <1>2, PTL DEF Spec

(* The types of the state of fwk_core.c, for any table and any entities.   *)
THEOREM TypeCorrect == Spec => []TypeOK
<1>1. IInv => TypeOK
  BY DEF IInv
<1> QED
  BY <1>1, Invariance, PTL

(* No event structure leaks or is linked into two lists, whatever the      *)
(* interleaving of the ISRs with module code and the main loop.            *)
THEOREM Ownership == Spec => []OneOwner
<1>1. IInv => OneOwner
  BY DEF IInv
<1> QED
  BY <1>1, Invariance, PTL

(* The delayed response lists hold nothing but delayed responses of their  *)
(* own entity, addressed to whoever asked.                                 *)
THEOREM DelayedLists == Spec => []DelayedListsSound
<1>1. IInv => DelayedListsSound
  BY DEF IInv
<1> QED
  BY <1>1, Invariance, PTL
-----------------------------------------------------------------------------
(* The cookies.  What follows holds for callers that ask for responses     *)
(* with standard events of module code only, and until the counter wraps:  *)
(* then a request that is still pending may share its cookie with a new    *)
(* one.                                                                    *)
OnlyModulesAsk ==
    IsrRequests \subseteq {FALSE} /\ LightRequests \subseteq {FALSE}

NotWrapped == event_cookie_counter < CookieMod - 1

(* The cookie that the next put_event of the main thread writes: an ISR    *)
(* that runs in the middle of one does not change it.                      *)
NextCookie == IF pc = "put" THEN put.cookie ELSE event_cookie_counter

(* A request whose handler has yet to run or to return. *)
Asking(s) ==
    /\ event[s].response_requested
    /\ s \in Range(event_queue) \/ (s = current_event /\ InHandler)

Pending(s) == Asking(s) \/ Parked(s)

(* No cookie in use will be given out again. *)
CookiesUsed ==
    /\ pc = "put" => put.cookie <= event_cookie_counter
    /\ \A s \in Slots : Pending(s) => event[s].cookie < NextCookie
    /\ \A id \in Entities : \A m \in deferred[id] : m.cookie < NextCookie

(* One pending request per cookie. *)
CookiesDistinct ==
    \A s, t \in Slots :
        Pending(s) /\ Pending(t) /\ event[s].cookie = event[t].cookie => s = t

(* A cookie that a module kept is that of no request still to be handled,  *)
(* and what it finds in the module's list is what it was kept for.         *)
CookiesKept ==
    \A id \in Entities : \A m \in deferred[id] :
        /\ \A s \in Slots : Asking(s) => event[s].cookie # m.cookie
        /\ \A s \in Range(delayed_response_list[id]) :
              event[s].cookie = m.cookie => event[s].target_id = m.requester

(* Responses hold the result of the entity they go to, and the events of   *)
(* ISRs ask for none.                                                      *)
Answers ==
    /\ \A s \in Slots \ Range(free_event_queue) :
          event[s].is_response => event[s].params = event[s].target_id
    /\ \A s \in Range(isr_event_queue) : ~event[s].response_requested

CInv == CookiesUsed /\ CookiesDistinct /\ CookiesKept /\ Answers

(* The counter below the wrap. *)
LEMMA CookieNext ==
    ASSUME NEW n \in Nat, n < CookieMod - 1
    PROVE  Cookie(n) = n /\ Cookie(n + 1) = n + 1
BY FwkCoreAssumption DEF Cookie

(* The cookies in use are numbers. *)
LEMMA CookiesTyped ==
    ASSUME TypeOK
    PROVE  /\ \A s \in Slots : event[s].cookie \in Nat
           /\ \A id \in Entities : \A m \in deferred[id] : m.cookie \in Nat
           /\ event_cookie_counter \in Nat /\ put.cookie \in Nat
           /\ NextCookie \in Nat
<1>1. \A s \in Slots : event[s].cookie \in Nat
  BY FwkCoreAssumption DEF TypeOK, EventType
<1>2. \A id \in Entities : \A m \in deferred[id] : m.cookie \in Nat
  BY FwkCoreAssumption DEF TypeOK
<1>3. event_cookie_counter \in Nat /\ put.cookie \in Nat
  BY FwkCoreAssumption DEF TypeOK, PutType
<1> QED
  BY <1>1, <1>2, <1>3 DEF NextCookie

(* Steps that begin no request, end some and give out no cookie that is in *)
(* use keep the cookies apart.                                             *)
LEMMA CookiesPersist ==
    ASSUME TypeOK, TypeOK', CookiesUsed, CookiesDistinct, CookiesKept,
           NextCookie <= NextCookie',
           pc' = "put" => put'.cookie <= event_cookie_counter',
           \A s \in Slots : Asking(s)' =>
               Asking(s) /\ event'[s].cookie = event[s].cookie,
           \A id \in Entities : \A s \in Range(delayed_response_list'[id]) :
               /\ s \in Range(delayed_response_list[id])
               /\ event'[s].cookie = event[s].cookie
               /\ event'[s].target_id = event[s].target_id,
           \A id \in Entities : deferred'[id] \subseteq deferred[id]
    PROVE  CookiesUsed' /\ CookiesDistinct' /\ CookiesKept'
<1>0. NextCookie \in Nat /\ NextCookie' \in Nat
  BY CookiesTyped, FwkCoreAssumption DEF NextCookie, TypeOK, PutType
<1>1. ASSUME NEW s \in Slots, Pending(s)'
      PROVE  Pending(s) /\ event'[s].cookie = event[s].cookie
  BY <1>1 DEF Pending, Parked
<1>2. CookiesUsed'
  <2>1. ASSUME NEW s \in Slots, Pending(s)'
        PROVE  event'[s].cookie < NextCookie'
    <3>1. event'[s].cookie < NextCookie /\ event'[s].cookie \in Nat
      BY <1>1, <2>1, CookiesTyped DEF CookiesUsed
    <3> QED
      BY <1>0, <3>1
  <2>2. ASSUME NEW id \in Entities, NEW m \in deferred'[id]
        PROVE  m.cookie < NextCookie'
    <3>1. m.cookie < NextCookie /\ m.cookie \in Nat
      BY <2>2, CookiesTyped DEF CookiesUsed
    <3> QED
      BY <1>0, <3>1
  <2> QED
    BY <2>1, <2>2 DEF CookiesUsed
<1>3. CookiesDistinct'
  BY <1>1 DEF CookiesDistinct
<1>4. CookiesKept'
  <2>1. ASSUME NEW id \in Entities, NEW m \in deferred'[id]
        PROVE  /\ \A s \in Slots : Asking(s)' => event'[s].cookie # m.cookie
               /\ \A s \in Range(delayed_response_list'[id]) :
                     event'[s].cookie = m.cookie =>
                         event'[s].target_id = m.requester
    BY <2>1 DEF CookiesKept
  <2> QED
    BY <2>1 DEF CookiesKept
<1> QED
  BY <1>2, <1>3, <1>4

(* An allocation of an event that asks for nothing, or that is not queued  *)
(* yet, leaves the slots in use as they were.                              *)
LEMMA AllocationQuiet ==
    ASSUME IInv, Answers, NEW e \in EventType, DuplicateEvent(e),
           e.is_response => e.params = e.target_id
    PROVE  /\ \A s \in Slots : s # Allocated => event'[s] = event[s]
           /\ \A s \in Slots \ Range(free_event_queue') :
                 event'[s].is_response => event'[s].params = event'[s].target_id
           /\ \A s \in Range(event_queue) \cup Range(isr_event_queue) :
                 s # Allocated /\ event'[s] = event[s]
           /\ current_event # Allocated
           /\ current_event # NoEvent =>
                 event'[current_event] = event[current_event]
           /\ \A id \in Entities : \A s \in Range(delayed_response_list[id]) :
                 s # Allocated /\ event'[s] = event[s]
<1>1. /\ \A s \in Slots : s # Allocated => event'[s] = event[s]
      /\ Range(free_event_queue') = Range(free_event_queue) \ {Allocated}
      /\ event'[Allocated] = e
  BY Allocation
<1>2. \A s \in Slots \ Range(free_event_queue') :
         event'[s].is_response => event'[s].params = event'[s].target_id
  BY <1>1 DEF Answers
<1>3. \A s \in Range(event_queue) \cup Range(isr_event_queue) :
         s # Allocated /\ s \in Slots
  BY Allocation, RangesTyped DEF IInv
<1>4. \A id \in Entities : \A s \in Range(delayed_response_list[id]) :
         s # Allocated /\ s \in Slots
  BY Allocation, RangesTyped DEF IInv, Parked
<1>5. current_event # Allocated
      /\ (current_event # NoEvent => current_event \in Slots)
  BY Allocation DEF IInv, TypeOK
<1> QED
  BY <1>1, <1>2, <1>3, <1>4, <1>5

(* put_event of the main thread up to the read of the counter: nothing is  *)
(* queued yet.                                                             *)
LEMMA PutBeginCookies ==
    ASSUME IInv, IInv', CInv, NEW e \in EventType, DuplicateEvent(e),
           e.is_response => e.params = e.target_id,
           NEW ret, PutBegin(Allocated, ret),
           pc \in {"start", "handler"}, ret \in {pc, "free"},
           UNCHANGED <<event_queue, isr_event_queue, delayed_response_list,
                       current_event, event_cookie_counter, event_register,
                       deferred>>
    PROVE  CInv'
<1>1. /\ pc' = "put" /\ put'.cookie = event_cookie_counter
      /\ put'.ret = ret
  BY DEF PutBegin
<1>2. NextCookie' = NextCookie
  BY <1>1 DEF NextCookie
<1>3. InHandler' => InHandler /\ current_event # NoEvent
  BY <1>1 DEF InHandler, IInv, Control
<1>4. \A s \in Slots : Asking(s)' =>
          Asking(s) /\ event'[s].cookie = event[s].cookie
  BY <1>3, AllocationQuiet DEF Asking, CInv
<1>5. CookiesUsed' /\ CookiesDistinct' /\ CookiesKept'
  <2>1. \A id \in Entities : \A s \in Range(delayed_response_list[id]) :
           event'[s] = event[s]
    BY AllocationQuiet DEF CInv
  <2>2. NextCookie <= NextCookie' /\ put'.cookie <= event_cookie_counter'
    BY <1>1, <1>2, CookiesTyped DEF IInv
  <2>3. TypeOK /\ TypeOK' /\ CookiesUsed /\ CookiesDistinct /\ CookiesKept
    BY DEF IInv, CInv
  <2> QED
    BY <1>4, <2>1, <2>2, <2>3, CookiesPersist
<1>6. Answers'
  BY AllocationQuiet DEF Answers, CInv
<1> QED
  BY <1>5, <1>6 DEF CInv

(* fwk_put_event by the main thread. *)
LEMMA PutEventCookies ==
    ASSUME IInv, IInv', CInv, NEW src \in Entities, NEW tgt \in Entities,
           NEW req \in BOOLEAN, PutEvent(src, tgt, req)
    PROVE  CInv'
<1> DEFINE e == StdEvent(src, tgt, req, 0)
<1>1. 0 \in 0..(CookieMod - 1)
  BY FwkCoreAssumption
<1>2. e \in EventType /\ ~e.is_response
  BY <1>1, StdEventTyped DEF StdEvent
<1>3. /\ DuplicateEvent(e) /\ PutBegin(Allocated, pc)
      /\ pc \in {"start", "handler"}
      /\ UNCHANGED <<event_queue, isr_event_queue, delayed_response_list,
                     current_event, event_cookie_counter, event_register,
                     deferred>>
  BY DEF PutEvent
<1> HIDE DEF e
<1> QED
  BY <1>2, <1>3, PutBeginCookies

(* A light event has no cookie, and asks for no response that needs one. *)
LEMMA PutEventLightCookies ==
    ASSUME IInv, IInv', CInv, NEW src \in Entities, NEW tgt \in Entities,
           PutEventLight(src, tgt, FALSE)
    PROVE  CInv'
<1>1. PICK e \in EventType : /\ DuplicateEvent(e)
                             /\ ~e.is_response /\ ~e.response_requested
  BY LightEventTyped DEF IInv, PutEventLight
<1>2. /\ event_queue' = Append(event_queue, Allocated)
      /\ event_queue \in Seq(Slots)
      /\ UNCHANGED <<isr_event_queue, delayed_response_list, current_event,
                     event_cookie_counter, pc, put, event_register, deferred>>
  BY DEF PutEventLight, IInv, TypeOK
<1>3. /\ Range(event_queue') = Range(event_queue) \cup {Allocated}
      /\ event'[Allocated] = e
  BY <1>1, <1>2, PushTail, Allocation
<1>4. \A s \in Slots : Asking(s)' =>
          Asking(s) /\ event'[s].cookie = event[s].cookie
  <2>1. InHandler' => InHandler /\ current_event # NoEvent
    BY <1>2 DEF InHandler, IInv, Control
  <2> QED
    BY <1>1, <1>2, <1>3, <2>1, AllocationQuiet DEF Asking, CInv
<1>5. CookiesUsed' /\ CookiesDistinct' /\ CookiesKept'
  <2>1. \A id \in Entities : \A s \in Range(delayed_response_list[id]) :
           event'[s] = event[s]
    BY <1>1, AllocationQuiet DEF CInv
  <2>2. NextCookie <= NextCookie'
        /\ (pc' = "put" => put'.cookie <= event_cookie_counter')
    BY <1>2, CookiesTyped DEF IInv, NextCookie, CInv, CookiesUsed
  <2>3. TypeOK /\ TypeOK' /\ CookiesUsed /\ CookiesDistinct /\ CookiesKept
    BY DEF IInv, CInv
  <2> QED
    BY <1>2, <1>4, <2>1, <2>2, <2>3, CookiesPersist
<1>6. Answers'
  BY <1>1, <1>2, AllocationQuiet DEF Answers, CInv
<1> QED
  BY <1>5, <1>6 DEF CInv

(* The end of put_event: a request is queued under a cookie of its own. *)
LEMMA PutEndCookies ==
    ASSUME IInv, IInv', CInv, NotWrapped, PutEnd
    PROVE  CInv'
<1> DEFINE x == put.slot
           c == put.cookie
<1>1. /\ pc = "put" /\ x \in Slots /\ x # NoEvent
      /\ put.ret \in {"start", "handler", "free"}
      /\ event \in [Slots -> EventType] /\ event_queue \in Seq(Slots)
  BY DEF IInv, TypeOK, Control, PutEnd, PutType
<1>2. /\ event' = [event EXCEPT ![x] = [event[x] EXCEPT !.cookie = c]]
      /\ event_cookie_counter' = Cookie(c + 1)
      /\ event_queue' = Append(event_queue, x)
      /\ pc' = put.ret
      /\ UNCHANGED <<free_event_queue, isr_event_queue, delayed_response_list,
                     current_event, event_register, deferred>>
  BY DEF PutEnd
<1>3. c \in Nat /\ NextCookie = c /\ NextCookie' = c + 1
  <2>1. c \in Nat /\ event_cookie_counter \in Nat /\ CookieMod \in Nat
    BY CookiesTyped, FwkCoreAssumption DEF IInv
  <2>2. c < CookieMod - 1
    BY <1>1, <2>1 DEF CInv, CookiesUsed, NotWrapped
  <2>3. Cookie(c + 1) = c + 1
    BY <2>1, <2>2, CookieNext
  <2> QED
    BY <1>1, <1>2, <2>1, <2>3 DEF NextCookie
<1>4. /\ x \notin Range(free_event_queue) /\ x \notin Range(event_queue)
      /\ x \notin Range(isr_event_queue) /\ ~Parked(x) /\ x # current_event
  BY <1>1 DEF IInv, OneOwner, Owners, Count
<1> HIDE DEF x, c
<1>5. /\ \A s \in Slots : s # x => event'[s] = event[s]
      /\ event'[x].cookie = c
      /\ event'[x].is_response = event[x].is_response
      /\ event'[x].params = event[x].params
      /\ event'[x].target_id = event[x].target_id
      /\ event[x] \in EventType
  BY <1>1, <1>2 DEF EventType
<1>6. Range(event_queue') = Range(event_queue) \cup {x}
  BY <1>1, <1>2, PushTail
<1>7. InHandler' <=> InHandler
  BY <1>1, <1>2 DEF InHandler
<1>8. ASSUME NEW s \in Slots, s # x
      PROVE  /\ Asking(s)' => Asking(s)
             /\ Parked(s)' => Parked(s)
             /\ Pending(s)' => Pending(s)
             /\ event'[s] = event[s]
  BY <1>2, <1>5, <1>6, <1>7, <1>8 DEF Asking, Parked, Pending
<1>9. \A s \in Slots : event[s].cookie \in Nat
  BY CookiesTyped DEF IInv
<1>10. \A id \in Entities : \A m \in deferred[id] : m.cookie \in Nat
  BY CookiesTyped DEF IInv
<1>11. CookiesUsed'
  <2>1. ASSUME NEW s \in Slots, Pending(s)'
        PROVE  event'[s].cookie < c + 1
    <3>1. CASE s = x
      BY <1>3, <1>5, <3>1
    <3>2. CASE s # x
      <4>1. event'[s].cookie < c /\ event'[s].cookie \in Nat
        BY <1>3, <1>8, <1>9, <2>1, <3>2 DEF CInv, CookiesUsed
      <4> QED
        BY <1>3, <4>1
    <3> QED
      BY <3>1, <3>2
  <2>2. ASSUME NEW id \in Entities, NEW m \in deferred[id]
        PROVE  m.cookie < c + 1
    <3>1. m.cookie < c
      BY <1>3 DEF CInv, CookiesUsed
    <3> QED
      BY <1>3, <1>10, <3>1
  <2>3. pc' # "put"
    BY <1>1, <1>2
  <2> QED
    BY <1>2, <1>3, <2>1, <2>2, <2>3 DEF CookiesUsed
<1>12. CookiesDistinct'
  <2>1. ASSUME NEW s \in Slots, s # x, Pending(s)'
        PROVE  event'[s].cookie # c
    <3>1. event'[s].cookie < c /\ event'[s].cookie \in Nat
      BY <1>3, <1>8, <1>9, <2>1 DEF CInv, CookiesUsed
    <3> QED
      BY <1>3, <3>1
  <2> SUFFICES ASSUME NEW s \in Slots, NEW t \in Slots, Pending(s)',
                      Pending(t)', event'[s].cookie = event'[t].cookie
               PROVE  s = t
    BY DEF CookiesDistinct
  <2>2. CASE s = x \/ t = x
    BY <1>5, <2>1, <2>2
  <2>3. CASE s # x /\ t # x
    BY <1>8, <2>3 DEF CInv, CookiesDistinct
  <2> QED
    BY <2>2, <2>3
<1>13. CookiesKept'
  <2> SUFFICES ASSUME NEW id \in Entities, NEW m \in deferred[id]
               PROVE  /\ \A s \in Slots :
                            Asking(s)' => event'[s].cookie # m.cookie
                      /\ \A s \in Range(delayed_response_list[id]) :
                            event'[s].cookie = m.cookie =>
                                event'[s].target_id = m.requester
    BY <1>2 DEF CookiesKept
  <2>1. m.cookie # c
    <3>1. m.cookie < c
      BY <1>3 DEF CInv, CookiesUsed
    <3> QED
      BY <1>3, <1>10, <3>1
  <2>2. \A s \in Range(delayed_response_list[id]) : s # x /\ s \in Slots
    BY <1>4, RangesTyped DEF Parked, IInv
  <2> QED
    BY <1>5, <1>8, <2>1, <2>2 DEF CInv, CookiesKept
<1>14. Answers'
  <2>1. \A s \in Slots \ Range(free_event_queue) :
           event'[s].is_response => event'[s].params = event'[s].target_id
    BY <1>4, <1>5 DEF CInv, Answers
  <2>2. \A s \in Range(isr_event_queue) : event'[s] = event[s]
    BY <1>4, <1>5, RangesTyped DEF IInv
  <2> QED
    BY <1>2, <2>1, <2>2 DEF CInv, Answers
<1> QED
  BY <1>11, <1>12, <1>13, <1>14 DEF CInv

(* An answer takes the request its cookie was kept for out of the list. *)
LEMMA PutDelayedResponseCookies ==
    ASSUME IInv, IInv', CInv, pc = "handler", NEW p \in Entities,
           NEW i \in DOMAIN delayed_response_list[Me],
           PutDelayedResponse(i, p),
           p = event[delayed_response_list[Me][i]].target_id,
           \A id \in Entities : deferred'[id] \subseteq deferred[id]
    PROVE  CInv'
<1> DEFINE l == delayed_response_list[Me]
           x == l[i]
<1>1. /\ current_event # NoEvent /\ put.slot = NoEvent /\ Me \in Entities
  BY HandledEvent
<1>2. l \in Seq(Slots) /\ IsInjective(l) /\ event \in [Slots -> EventType]
  BY <1>1 DEF IInv, TypeOK, OneOwner
<1>3. x \in Slots /\ x \in Range(l)
  BY <1>2 DEF Range
<1>4. /\ x \notin Range(event_queue) /\ x \notin Range(isr_event_queue)
      /\ x # current_event
  <2>1. Parked(x)
    BY <1>1, <1>3 DEF Parked
  <2> QED
    BY <1>3, <2>1 DEF IInv, OneOwner, Owners, Count
<1>5. /\ event' = [event EXCEPT ![x] = [event[x] EXCEPT !.params = p]]
      /\ delayed_response_list' =
             [delayed_response_list EXCEPT ![Me] = RemoveAt(l, i)]
      /\ put'.cookie = event_cookie_counter /\ put'.ret = "handler"
      /\ pc' = "put"
      /\ UNCHANGED <<free_event_queue, event_queue, isr_event_queue,
                     current_event, event_cookie_counter, event_register>>
  BY DEF PutDelayedResponse, PutBegin
<1>6. /\ Range(RemoveAt(l, i)) = Range(l) \ {x}
  BY <1>2, RemoveOne
<1>7. \A id \in Entities :
         Range(delayed_response_list'[id]) \subseteq
             Range(delayed_response_list[id])
  BY <1>1, <1>5, <1>6 DEF IInv, TypeOK
<1>8. p = event[x].target_id
  OBVIOUS
<1> HIDE DEF x
<1>9. /\ \A s \in Slots : s # x => event'[s] = event[s]
      /\ event'[x].cookie = event[x].cookie
      /\ event'[x].target_id = event[x].target_id
      /\ event'[x].params = event[x].target_id
  BY <1>2, <1>3, <1>5, <1>8 DEF EventType
<1>10. \A s \in Slots : Asking(s)' =>
          Asking(s) /\ event'[s].cookie = event[s].cookie
  <2>1. InHandler
    BY DEF InHandler
  <2> QED
    BY <1>4, <1>5, <1>9, <2>1 DEF Asking
<1>11. CookiesUsed' /\ CookiesDistinct' /\ CookiesKept'
  <2>1. \A id \in Entities : \A s \in Range(delayed_response_list'[id]) :
           /\ s \in Range(delayed_response_list[id])
           /\ event'[s].cookie = event[s].cookie
           /\ event'[s].target_id = event[s].target_id
    BY <1>7, <1>9, RangesTyped DEF IInv
  <2>2. NextCookie <= NextCookie' /\ put'.cookie <= event_cookie_counter'
    BY <1>5, CookiesTyped DEF IInv, NextCookie
  <2>3. TypeOK /\ TypeOK' /\ CookiesUsed /\ CookiesDistinct /\ CookiesKept
    BY DEF IInv, CInv
  <2> QED
    BY <1>10, <2>1, <2>2, <2>3, CookiesPersist
<1>12. Answers'
  <2>1. \A s \in Range(isr_event_queue) : event'[s] = event[s]
    BY <1>4, <1>9, RangesTyped DEF IInv
  <2> QED
    BY <1>5, <1>9, <2>1 DEF CInv, Answers
<1> QED
  BY <1>11, <1>12 DEF CInv

(* What an answer finds, by its cookie or at the head of the list, is a    *)
(* request of the entity that the answer is for.                           *)
LEMMA AnswerFinds ==
    ASSUME IInv, CInv, NEW id \in Entities, NEW m \in deferred[id],
           AnswerByCookie(m) \/ AnswerFirst(m)
    PROVE  /\ pc = "handler" /\ m.requester \in Entities
           /\ \A k \in Entities : deferred'[k] \subseteq deferred[k]
           /\ \E i \in DOMAIN delayed_response_list[Me] :
                 /\ PutDelayedResponse(i, m.requester)
                 /\ event[delayed_response_list[Me][i]].target_id = m.requester
<1>1. /\ pc = "handler" /\ m \in deferred[Me]
      /\ deferred' = [deferred EXCEPT ![Me] = @ \ {m}]
  BY DEF AnswerByCookie, AnswerFirst
<1>2. Me \in Entities
  BY <1>1, HandledEvent
<1>3. m.requester \in Entities
  BY DEF IInv, TypeOK
<1>4. \A k \in Entities : deferred'[k] \subseteq deferred[k]
  BY <1>1, <1>2 DEF IInv, TypeOK
<1>5. CASE AnswerByCookie(m)
  <2>1. PICK i \in DOMAIN delayed_response_list[Me] :
           /\ event[delayed_response_list[Me][i]].cookie = m.cookie
           /\ PutDelayedResponse(i, m.requester)
    BY <1>5 DEF AnswerByCookie, SearchDelayedResponse
  <2>2. delayed_response_list[Me][i] \in Range(delayed_response_list[Me])
    BY DEF Range
  <2>3. event[delayed_response_list[Me][i]].target_id = m.requester
    BY <1>1, <1>2, <2>1, <2>2 DEF CInv, CookiesKept
  <2> QED
    BY <1>1, <1>3, <1>4, <2>1, <2>3
<1>6. CASE AnswerFirst(m)
  <2>1. delayed_response_list[Me] \in Seq(Slots)
    BY <1>2 DEF IInv, TypeOK
  <2>2. /\ 1 \in DOMAIN delayed_response_list[Me]
        /\ Head(delayed_response_list[Me]) = delayed_response_list[Me][1]
    BY <1>6, <2>1 DEF AnswerFirst
  <2>3. /\ PutDelayedResponse(1, m.requester)
        /\ m.requester = event[Head(delayed_response_list[Me])].target_id
    <3>1. m = [cookie |-> event[Head(delayed_response_list[Me])].cookie,
               requester |-> event[Head(delayed_response_list[Me])].target_id]
      BY <1>6 DEF AnswerFirst
    <3> QED
      BY <1>6, <3>1 DEF AnswerFirst
  <2> QED
    BY <1>1, <1>3, <1>4, <2>2, <2>3
<1> QED
  BY <1>5, <1>6

(* A module answers a request it deferred: its cookie is free again. *)
LEMMA AnswerCookies ==
    ASSUME IInv, IInv', CInv, NEW id \in Entities, NEW m \in deferred[id],
           AnswerByCookie(m) \/ AnswerFirst(m)
    PROVE  CInv'
<1>1. PICK i \in DOMAIN delayed_response_list[Me] :
         /\ PutDelayedResponse(i, m.requester)
         /\ event[delayed_response_list[Me][i]].target_id = m.requester
  BY AnswerFinds
<1> QED
  BY <1>1, AnswerFinds, PutDelayedResponseCookies

(* process_next_event, free_event and the steps that move no event. *)
LEMMA LoopCookies ==
    ASSUME IInv, IInv', CInv,
           \/ ProcessNextEvent \/ FreeEvent \/ RunMainLoop
           \/ ReturnNoResponse \/ LogUnbuffer \/ ArchSuspend \/ IsrReturn
           \/ UNCHANGED vars
    PROVE  CInv'
<1>1. /\ UNCHANGED <<isr_event_queue, delayed_response_list, event,
                     event_cookie_counter, put, deferred>>
      /\ (pc' = "put") <=> (pc = "put")
  BY DEF ProcessNextEvent, FreeEvent, RunMainLoop, ReturnNoResponse,
         LogUnbuffer, ArchSuspend, IsrReturn, vars, queues
<1>2. Range(free_event_queue) \subseteq Range(free_event_queue')
  <2>1. CASE FreeEvent
    <3>1. current_event \in Slots /\ free_event_queue \in Seq(Slots)
      BY <2>1 DEF FreeEvent, IInv, TypeOK, Control
    <3> QED
      BY <2>1, <3>1, PushTail DEF FreeEvent
  <2>2. CASE ~FreeEvent
    <3>1. free_event_queue' = free_event_queue
      BY <2>2 DEF ProcessNextEvent, RunMainLoop, ReturnNoResponse,
         LogUnbuffer, ArchSuspend, IsrReturn, vars, queues
    <3> QED
      BY <3>1
  <2> QED
    BY <2>1, <2>2
<1>3. \A s \in Slots : Asking(s)' => Asking(s)
  <2>1. CASE ProcessNextEvent
    <3>1. /\ current_event' = Head(event_queue)
          /\ Head(event_queue) \in Range(event_queue)
          /\ Range(event_queue') \subseteq Range(event_queue)
      BY <2>1, PopHead DEF ProcessNextEvent, IInv, TypeOK, OneOwner
    <3> QED
      BY <1>1, <3>1 DEF Asking
  <2>2. CASE ~ProcessNextEvent
    <3>1. /\ event_queue' = event_queue
          /\ InHandler' => InHandler /\ current_event' = current_event
      BY <2>2 DEF FreeEvent, RunMainLoop, ReturnNoResponse,
         LogUnbuffer, ArchSuspend, IsrReturn, vars, queues, InHandler
    <3> QED
      BY <1>1, <3>1 DEF Asking
  <2> QED
    BY <2>1, <2>2
<1>4. CookiesUsed' /\ CookiesDistinct' /\ CookiesKept'
  <2>1. NextCookie <= NextCookie'
        /\ (pc' = "put" => put'.cookie <= event_cookie_counter')
    BY <1>1, CookiesTyped DEF IInv, NextCookie, CInv, CookiesUsed
  <2>2. TypeOK /\ TypeOK' /\ CookiesUsed /\ CookiesDistinct /\ CookiesKept
    BY DEF IInv, CInv
  <2> QED
    BY <1>1, <1>3, <2>1, <2>2, CookiesPersist
<1>5. Answers'
  BY <1>1, <1>2 DEF CInv, Answers
<1> QED
  BY <1>4, <1>5 DEF CInv

(* process_isr: the events of ISRs ask for nothing. *)
LEMMA ProcessIsrCookies ==
    ASSUME IInv, IInv', CInv, ProcessIsr
    PROVE  CInv'
<1>1. /\ UNCHANGED <<free_event_queue, delayed_response_list, event,
                     current_event, event_cookie_counter, put, deferred>>
      /\ pc = "loop" /\ pc' \in {"loop", "log"}
      /\ isr_event_queue \in Seq(Slots) /\ IsInjective(isr_event_queue)
      /\ event_queue \in Seq(Slots)
  BY DEF ProcessIsr, IInv, TypeOK, OneOwner
<1>2. /\ Range(isr_event_queue') \subseteq Range(isr_event_queue)
      /\ Range(event_queue') \subseteq
             Range(event_queue) \cup Range(isr_event_queue)
  <2>1. CASE /\ isr_event_queue # <<>>
             /\ isr_event_queue' = Tail(isr_event_queue)
             /\ event_queue' = Append(event_queue, Head(isr_event_queue))
    BY <1>1, <2>1, PopHead, PushTail
  <2>2. CASE UNCHANGED <<event_queue, isr_event_queue>>
    BY <2>2
  <2> QED
    BY <2>1, <2>2 DEF ProcessIsr
<1>3. \A s \in Slots : Asking(s)' => Asking(s)
  BY <1>1, <1>2 DEF Asking, InHandler, CInv, Answers
<1>4. CookiesUsed' /\ CookiesDistinct' /\ CookiesKept'
  <2>1. NextCookie <= NextCookie' /\ pc' # "put"
    BY <1>1, CookiesTyped DEF IInv, NextCookie
  <2>2. TypeOK /\ TypeOK' /\ CookiesUsed /\ CookiesDistinct /\ CookiesKept
    BY DEF IInv, CInv
  <2> QED
    BY <1>1, <1>3, <2>1, <2>2, CookiesPersist
<1>5. Answers'
  BY <1>1, <1>2 DEF CInv, Answers
<1> QED
  BY <1>4, <1>5 DEF CInv

(* An ISR that asks for no response, even in the middle of a put_event. *)
LEMMA IsrPutCookies ==
    ASSUME IInv, IInv', CInv, NEW e \in EventType, DuplicateEvent(e),
           ~e.is_response, ~e.response_requested,
           isr_event_queue' = Append(isr_event_queue, Allocated),
           event_cookie_counter <= event_cookie_counter',
           UNCHANGED <<event_queue, delayed_response_list, current_event, pc,
                       put, deferred>>
    PROVE  CInv'
<1>1. /\ Range(isr_event_queue') = Range(isr_event_queue) \cup {Allocated}
      /\ event'[Allocated] = e
  <2>1. isr_event_queue \in Seq(Slots)
    BY DEF IInv, TypeOK
  <2> QED
    BY <2>1, PushTail, Allocation
<1>2. \A s \in Slots : Asking(s)' =>
          Asking(s) /\ event'[s].cookie = event[s].cookie
  <2>1. InHandler' => InHandler /\ current_event # NoEvent
    BY DEF InHandler, IInv, Control
  <2> QED
    BY <2>1, AllocationQuiet DEF Asking, CInv
<1>3. CookiesUsed' /\ CookiesDistinct' /\ CookiesKept'
  <2>1. \A id \in Entities : \A s \in Range(delayed_response_list[id]) :
           event'[s] = event[s]
    BY AllocationQuiet DEF CInv
  <2>2. /\ event_cookie_counter \in Nat /\ put.cookie \in Nat
        /\ event_cookie_counter' \in Nat
    BY CookiesTyped, FwkCoreAssumption DEF IInv, TypeOK
  <2>3. NextCookie <= NextCookie'
        /\ (pc' = "put" => put'.cookie <= event_cookie_counter')
    BY <2>2 DEF NextCookie, CInv, CookiesUsed
  <2>4. TypeOK /\ TypeOK' /\ CookiesUsed /\ CookiesDistinct /\ CookiesKept
    BY DEF IInv, CInv
  <2> QED
    BY <1>2, <2>1, <2>3, <2>4, CookiesPersist
<1>4. Answers'
  <2>1. \A s \in Range(isr_event_queue) : event'[s] = event[s]
    BY AllocationQuiet DEF CInv
  <2>2. \A s \in Slots \ Range(free_event_queue') :
           event'[s].is_response => event'[s].params = event'[s].target_id
    BY AllocationQuiet DEF CInv
  <2> QED
    BY <1>1, <2>1, <2>2 DEF Answers, CInv
<1> QED
  BY <1>3, <1>4 DEF CInv

(* The handler returns the answer: the request is over. *)
LEMMA ReturnResponseCookies ==
    ASSUME IInv, IInv', CInv, ReturnResponse
    PROVE  CInv'
<1>1. /\ pc = "handler"
      /\ UNCHANGED <<event_queue, isr_event_queue, delayed_response_list,
                     current_event, event_cookie_counter, event_register,
                     deferred>>
  BY DEF ReturnResponse
<1>2. CASE /\ DuplicateEvent(AsyncResponse(Me, FALSE))
           /\ PutBegin(Allocated, "free")
  <2> DEFINE e == AsyncResponse(Me, FALSE)
  <2>1. e \in EventType
    BY <1>1, AsyncResponseTyped, HandledEvent
  <2>2. e.params = e.target_id
    BY DEF AsyncResponse
  <2> HIDE DEF e
  <2>3. DuplicateEvent(e)
    BY <1>2 DEF e
  <2> QED
    BY <1>1, <1>2, <2>1, <2>2, <2>3, PutBeginCookies
<1>3. CASE /\ free_event_queue = <<>> /\ pc' = "free"
           /\ UNCHANGED <<free_event_queue, event, put>>
  <2>1. \A s \in Slots : Asking(s)' => Asking(s)
    BY <1>1, <1>3 DEF Asking, InHandler
  <2>2. NextCookie <= NextCookie' /\ pc' # "put"
    BY <1>1, <1>3, CookiesTyped DEF IInv, NextCookie
  <2>3. TypeOK /\ TypeOK' /\ CookiesUsed /\ CookiesDistinct /\ CookiesKept
    BY DEF IInv, CInv
  <2>4. CookiesUsed' /\ CookiesDistinct' /\ CookiesKept'
    BY <1>1, <1>3, <2>1, <2>2, <2>3, CookiesPersist
  <2> QED
    BY <1>1, <1>3, <2>4 DEF CInv, Answers
<1> QED
  BY <1>2, <1>3 DEF ReturnResponse

(* The cookie of the current request passes to its parked response, if     *)
(* there is one, and to the entity in charge.                              *)
LEMMA DeferralCookies ==
    ASSUME TypeOK, TypeOK', CookiesUsed, CookiesDistinct, CookiesKept,
           NEW r \in Slots, Asking(r), ~Parked(r), NEW x,
           NextCookie' = NextCookie, pc' # "put",
           \A s \in Slots : Asking(s)' =>
               Asking(s) /\ s # r /\ event'[s] = event[s],
           \A id \in Entities : \A s \in Range(delayed_response_list'[id]) :
               \/ s = x /\ event'[s].cookie = event[r].cookie
                  /\ event'[s].target_id = event[r].source_id
               \/ /\ s \in Range(delayed_response_list[id])
                  /\ event'[s] = event[s],
           \A id \in Entities : \A m \in deferred'[id] :
               \/ m \in deferred[id]
               \/ m = [cookie    |-> event[r].cookie,
                       requester |-> event[r].source_id]
    PROVE  CookiesUsed' /\ CookiesDistinct' /\ CookiesKept'
<1> DEFINE c == event[r].cookie
<1>1. Pending(r) /\ c < NextCookie
  BY DEF Pending, CookiesUsed
<1>2. ASSUME NEW s \in Slots, Pending(s)'
      PROVE  \/ s = x /\ event'[s].cookie = c
             \/ /\ Pending(s) /\ s # r
                /\ event'[s].cookie = event[s].cookie
                /\ event[s].cookie # c
  <2>1. CASE Asking(s)'
    BY <1>1, <2>1 DEF Pending, CookiesDistinct
  <2>2. CASE Parked(s)'
    <3>1. \/ s = x /\ event'[s].cookie = c
          \/ Parked(s) /\ event'[s] = event[s]
      BY <2>2 DEF Parked
    <3> QED
      BY <1>1, <3>1 DEF Pending, CookiesDistinct
  <2> QED
    BY <1>2, <2>1, <2>2 DEF Pending
<1>3. CookiesUsed'
  <2>1. \A s \in Slots : Pending(s)' => event'[s].cookie < NextCookie
    BY <1>1, <1>2 DEF CookiesUsed
  <2>2. \A id \in Entities : \A m \in deferred'[id] : m.cookie < NextCookie
    BY <1>1 DEF CookiesUsed
  <2> QED
    BY <2>1, <2>2 DEF CookiesUsed
<1>4. CookiesDistinct'
  BY <1>2 DEF CookiesDistinct
<1>5. CookiesKept'
  <2> SUFFICES ASSUME NEW id \in Entities, NEW m \in deferred'[id]
               PROVE  /\ \A s \in Slots :
                            Asking(s)' => event'[s].cookie # m.cookie
                      /\ \A s \in Range(delayed_response_list'[id]) :
                            event'[s].cookie = m.cookie =>
                                event'[s].target_id = m.requester
    BY DEF CookiesKept
  <2>1. ASSUME NEW s \in Range(delayed_response_list[id])
        PROVE  event[s].cookie # c
    <3>1. s \in Slots /\ Parked(s) /\ s # r
      BY RangesTyped DEF Parked
    <3> QED
      BY <1>1, <3>1 DEF Pending, CookiesDistinct
  <2>2. CASE m \in deferred[id]
    <3>1. m.cookie # c
      BY <2>2 DEF CookiesKept
    <3> QED
      BY <2>2, <3>1 DEF CookiesKept
  <2>3. CASE m = [cookie |-> c, requester |-> event[r].source_id]
    <3>1. m.cookie = c /\ m.requester = event[r].source_id
      BY <2>3
    <3>2. \A s \in Slots : Asking(s)' => event'[s].cookie # c
      BY <1>1 DEF Pending, CookiesDistinct
    <3> QED
      BY <2>1, <3>1, <3>2
  <2> QED
    BY <2>2, <2>3
<1> QED
  BY <1>3, <1>4, <1>5

(* The handler defers the answer. *)
LEMMA ReturnDelayedResponseCookies ==
    ASSUME IInv, IInv', CInv, NEW o \in Entities, ReturnDelayedResponse(o)
    PROVE  CInv'
<1> DEFINE r == current_event
           e == AsyncResponse(o, TRUE)
<1>1. /\ pc = "handler" /\ pc' = "free" /\ event[r].response_requested
      /\ UNCHANGED <<event_queue, isr_event_queue, current_event,
                     event_cookie_counter, put, event_register>>
      /\ deferred' = [deferred EXCEPT ![o] = @ \cup
                         {[cookie    |-> event[r].cookie,
                           requester |-> event[r].source_id]}]
  BY DEF ReturnDelayedResponse
<1>2. r \in Slots /\ Asking(r)
  BY <1>1, HandledEvent DEF Asking, InHandler
<1>3. ~Parked(r) /\ r \notin Range(event_queue)
  BY <1>2 DEF IInv, OneOwner, Owners, Count
<1>4. NextCookie' = NextCookie /\ pc' # "put"
  BY <1>1 DEF NextCookie
<1>5. \A id \in Entities : \A m \in deferred'[id] :
         \/ m \in deferred[id]
         \/ m = [cookie    |-> event[r].cookie,
                 requester |-> event[r].source_id]
  BY <1>1 DEF IInv, TypeOK
<1>6. TypeOK /\ TypeOK' /\ CookiesUsed /\ CookiesDistinct /\ CookiesKept
  BY DEF IInv, CInv
<1>7. CASE /\ DuplicateEvent(e)
           /\ delayed_response_list' =
                 [delayed_response_list EXCEPT ![o] = Append(@, Allocated)]
  <2>1. e \in EventType /\ ~e.response_requested
    BY <1>1, AsyncResponseTyped
  <2>2. /\ e.cookie = event[r].cookie /\ e.target_id = event[r].source_id
        /\ e.params = e.target_id
    BY DEF AsyncResponse
  <2> HIDE DEF e, r
  <2>3. Allocated \in Slots /\ event'[Allocated] = e
    BY <1>7, <2>1, Allocation
  <2>4. \A s \in Slots : Asking(s)' =>
            Asking(s) /\ s # r /\ event'[s] = event[s]
    <3>1. \A s \in Range(event_queue) : event'[s] = event[s]
      BY <1>7, <2>1, <2>2, AllocationQuiet DEF CInv
    <3> QED
      BY <1>1, <1>3, <3>1 DEF Asking, InHandler
  <2>5. \A id \in Entities : \A s \in Range(delayed_response_list'[id]) :
           \/ s = Allocated
           \/ s \in Range(delayed_response_list[id])
    <3>1. /\ delayed_response_list[o] \in Seq(Slots)
          /\ Range(Append(delayed_response_list[o], Allocated))
                 = Range(delayed_response_list[o]) \cup {Allocated}
      BY <2>3, PushTail DEF IInv, TypeOK
    <3>2. \A id \in Entities : delayed_response_list'[id] =
             IF id = o THEN Append(delayed_response_list[o], Allocated)
             ELSE delayed_response_list[id]
      BY <1>7 DEF IInv, TypeOK
    <3> QED
      BY <3>1, <3>2
  <2>6. \A id \in Entities : \A s \in Range(delayed_response_list[id]) :
           event'[s] = event[s]
    BY <1>7, <2>1, <2>2, AllocationQuiet DEF CInv
  <2>7. CookiesUsed' /\ CookiesDistinct' /\ CookiesKept'
    <3> DEFINE x == Allocated
    <3>1. \A id \in Entities : \A s \in Range(delayed_response_list'[id]) :
             \/ s = x /\ event'[s].cookie = event[r].cookie
                /\ event'[s].target_id = event[r].source_id
             \/ /\ s \in Range(delayed_response_list[id])
                /\ event'[s] = event[s]
      BY <2>2, <2>3, <2>5, <2>6
    <3> HIDE DEF x
    <3> QED
      BY <1>2, <1>3, <1>4, <1>5, <1>6, <2>4, <3>1, DeferralCookies
  <2>8. Answers'
    <3>1. \A s \in Range(isr_event_queue) : event'[s] = event[s]
      BY <1>7, <2>1, <2>2, AllocationQuiet DEF CInv
    <3>2. \A s \in Slots \ Range(free_event_queue') :
             event'[s].is_response => event'[s].params = event'[s].target_id
      BY <1>7, <2>1, <2>2, AllocationQuiet DEF CInv
    <3> QED
      BY <1>1, <3>1, <3>2 DEF Answers, CInv
  <2> QED
    BY <2>7, <2>8 DEF CInv
<1>8. CASE /\ free_event_queue = <<>>
           /\ UNCHANGED <<free_event_queue, event, delayed_response_list>>
  <2> HIDE DEF r
  <2>1. \A s \in Slots : Asking(s)' =>
            Asking(s) /\ s # r /\ event'[s] = event[s]
    BY <1>1, <1>3, <1>8 DEF Asking, InHandler
  <2>2. CookiesUsed' /\ CookiesDistinct' /\ CookiesKept'
    BY <1>2, <1>3, <1>4, <1>5, <1>6, <1>8, <2>1, DeferralCookies
  <2> QED
    BY <1>1, <1>8, <2>2 DEF CInv, Answers
<1> QED
  BY <1>7, <1>8 DEF ReturnDelayedResponse

(* Nothing is pending after __fwk_init. *)
LEMMA InitCookies ==
    ASSUME Init
    PROVE  CInv
<1>1. Range(<<>>) = {}
  BY DEF Range
<1>2. /\ pc = "start" /\ event = [s \in Slots |-> ZeroEvent]
      /\ Range(event_queue) = {} /\ Range(isr_event_queue) = {}
      /\ \A id \in Entities : Range(delayed_response_list[id]) = {}
      /\ \A id \in Entities : deferred[id] = {}
      /\ ~InHandler
  BY <1>1 DEF Init, InHandler
<1>3. \A s \in Slots : ~Pending(s)
  BY <1>2 DEF Pending, Asking, Parked
<1>4. \A s \in Slots : ~event[s].is_response
  BY <1>2 DEF ZeroEvent
<1> QED
  BY <1>2, <1>3, <1>4
     DEF CInv, CookiesUsed, CookiesDistinct, CookiesKept, Answers

(* Every step below the wrap of the counter keeps the cookies sound. *)
LEMMA NextCookies ==
    ASSUME OnlyModulesAsk, IInv, IInv', CInv, NotWrapped, [Next]_vars
    PROVE  CInv'
<1>1. CASE ModuleStep
  <2>1. CASE \E src, tgt \in Entities, req \in BOOLEAN :
                PutEvent(src, tgt, req)
    BY <2>1, PutEventCookies
  <2>2. CASE \E src, tgt \in Entities, req \in LightRequests :
                PutEventLight(src, tgt, req)
    <3>1. PICK src \in Entities, tgt \in Entities, req \in LightRequests :
             PutEventLight(src, tgt, req)
      BY <2>2
    <3>2. req = FALSE
      BY DEF OnlyModulesAsk
    <3> QED
      BY <3>1, <3>2, PutEventLightCookies
  <2>3. CASE \E id \in Entities : \E m \in deferred[id] :
                AnswerByCookie(m) \/ AnswerFirst(m)
    BY <2>3, AnswerCookies
  <2> QED
    BY <1>1, <2>1, <2>2, <2>3 DEF ModuleStep
<1>2. CASE HandlerReturn
  BY <1>2, ReturnResponseCookies, ReturnDelayedResponseCookies, LoopCookies
     DEF HandlerReturn
<1>3. CASE LoopStep
  BY <1>3, PutEndCookies, ProcessIsrCookies, LoopCookies DEF LoopStep
<1>4. CASE Isr
  <2>1. CASE \E src, tgt \in Entities, req \in IsrRequests :
                IsrPutEvent(src, tgt, req)
    <3>1. PICK src \in Entities, tgt \in Entities, req \in IsrRequests :
             IsrPutEvent(src, tgt, req)
      BY <2>1
    <3> DEFINE c == event_cookie_counter
               e == StdEvent(src, tgt, FALSE, c)
    <3>2. req = FALSE
      BY DEF OnlyModulesAsk
    <3>3. c \in 0..(CookieMod - 1) /\ c \in Nat
      BY CookiesTyped DEF IInv, TypeOK
    <3>4. e \in EventType /\ ~e.is_response /\ ~e.response_requested
      BY <3>3, StdEventTyped DEF StdEvent
    <3>5. DuplicateEvent(e)
      BY <3>1, <3>2 DEF IsrPutEvent
    <3>6. c <= event_cookie_counter'
      <4>1. event_cookie_counter' = c + 1
        BY <3>1, <3>3, CookieNext DEF IsrPutEvent, NotWrapped
      <4> QED
        BY <3>3, <4>1
    <3> HIDE DEF e
    <3> QED
      BY <3>1, <3>4, <3>5, <3>6, IsrPutCookies DEF IsrPutEvent
  <2>2. CASE \E src, tgt \in Entities, req \in LightRequests \cap IsrRequests :
                IsrPutEventLight(src, tgt, req)
    <3>1. PICK src \in Entities, tgt \in Entities,
               req \in LightRequests \cap IsrRequests :
             IsrPutEventLight(src, tgt, req)
      BY <2>2
    <3>2. req = FALSE
      BY DEF OnlyModulesAsk
    <3>3. PICK e \in EventType : /\ DuplicateEvent(e)
                                 /\ ~e.is_response /\ ~e.response_requested
      BY <3>1, <3>2, LightEventTyped DEF IInv, IsrPutEventLight
    <3>4. event_cookie_counter <= event_cookie_counter'
      BY <3>1, CookiesTyped DEF IInv, IsrPutEventLight
    <3> QED
      BY <3>1, <3>3, <3>4, IsrPutCookies DEF IsrPutEventLight
  <2> QED
    BY <1>4, <2>1, <2>2, LoopCookies DEF Isr
<1> QED
  BY <1>1, <1>2, <1>3, <1>4, LoopCookies DEF Next

(* The cookies stay sound as long as the counter has not wrapped. *)
THEOREM Cookies ==
    ASSUME OnlyModulesAsk
    PROVE  Spec /\ []NotWrapped => []CInv
<1>1. Init => CInv
  BY InitCookies
<1>2. IInv /\ IInv' /\ CInv /\ NotWrapped /\ [Next]_vars => CInv'
  BY NextCookies
<1> QED
  BY <1>1, <1>2, Invariance, PTL DEF Spec

(* Until the counter wraps, the cookie that a module kept of a request it  *)
(* deferred finds that request and no other: ISRs may run in the middle of *)
(* event_cookie_counter++ as long as they ask for no response.             *)
THEOREM CookieSound ==
    ASSUME OnlyModulesAsk
    PROVE  Spec /\ []NotWrapped => []CookieIdentifies
<1>1. IInv /\ CInv => CookieIdentifies
  <2> SUFFICES ASSUME IInv, CInv, NEW id \in Entities,
                      NEW i \in DOMAIN delayed_response_list[id],
                      NEW j \in DOMAIN delayed_response_list[id],
                      event[delayed_response_list[id][i]].cookie
                          = event[delayed_response_list[id][j]].cookie
               PROVE  i = j
    BY DEF CookieIdentifies
  <2> DEFINE s == delayed_response_list[id][i]
             t == delayed_response_list[id][j]
  <2>1. s \in Range(delayed_response_list[id])
        /\ t \in Range(delayed_response_list[id])
    BY DEF Range
  <2>2. s \in Slots /\ t \in Slots /\ Pending(s) /\ Pending(t)
    BY <2>1, RangesTyped DEF IInv, Pending, Parked
  <2>3. s = t
    <3> HIDE DEF s, t
    <3> QED
      BY <2>2 DEF CInv, CookiesDistinct, s, t
  <2> QED
    BY <2>3 DEF IInv, OneOwner, IsInjective
<1> QED
  BY <1>1, Cookies, Invariance, PTL

(* Until then, a response carries the result of the request of the entity  *)
(* it goes to, whether the responder looked the request up by its cookie   *)
(* or took the first one.                                                  *)
THEOREM AnswersSound ==
    ASSUME OnlyModulesAsk
    PROVE  Spec /\ []NotWrapped => []AnswerReachesRequester
<1>1. IInv /\ CInv => AnswerReachesRequester
  <2> SUFFICES ASSUME IInv, CInv, NEW s \in Range(event_queue)
               PROVE  event[s].is_response => event[s].params = event[s].target_id
    BY DEF AnswerReachesRequester
  <2>1. s \in Slots
    BY RangesTyped DEF IInv
  <2>2. s \notin Range(free_event_queue)
    BY <2>1 DEF IInv, OneOwner, Owners, Count
  <2> QED
    BY <2>1, <2>2 DEF CInv, Answers
<1> QED
  BY <1>1, Cookies, Invariance, PTL
-----------------------------------------------------------------------------
(* The refinement.  The contents of the slots, as a memory. *)
Content == [s \in Slots |-> Contents(s)]

(* The variables of FwkEvents, read through it. *)
LEMMA View ==
    ASSUME TypeOK
    PROVE  /\ ContentsOf(event_queue) = Mapped(event_queue, Content)
           /\ ContentsOf(isr_event_queue) = Mapped(isr_event_queue, Content)
           /\ \A id \in Entities : ContentsOf(delayed_response_list[id])
                                     = Mapped(delayed_response_list[id], Content)
<1>1. ASSUME NEW q \in Seq(Slots)
      PROVE  ContentsOf(q) = Mapped(q, Content)
  BY DEF ContentsOf, Mapped, Content
<1> QED
  BY <1>1 DEF TypeOK

(* The same after a step. *)
LEMMA ViewNext ==
    ASSUME TypeOK'
    PROVE  /\ ContentsOf(event_queue)' = Mapped(event_queue', Content')
           /\ ContentsOf(isr_event_queue)' = Mapped(isr_event_queue', Content')
           /\ \A id \in Entities :
                 ContentsOf(delayed_response_list[id])'
                     = Mapped(delayed_response_list'[id], Content')
<1> DEFINE record(e) ==
      [source_id |-> e.source_id, target_id |-> e.target_id,
       is_response |-> e.is_response,
       response_requested |-> e.response_requested,
       params |-> IF e.is_response THEN e.params ELSE NoId]
<1>1. \A s \in Slots : Content'[s] = record(event'[s])
  BY DEF Content, Contents
<1>2. /\ ContentsOf(event_queue)' =
             [i \in DOMAIN event_queue' |-> record(event'[event_queue'[i]])]
      /\ ContentsOf(isr_event_queue)' =
             [i \in DOMAIN isr_event_queue' |->
                 record(event'[isr_event_queue'[i]])]
      /\ \A id \in Entities : ContentsOf(delayed_response_list[id])' =
             [i \in DOMAIN delayed_response_list'[id] |->
                 record(event'[delayed_response_list'[id][i]])]
  BY DEF ContentsOf, Contents
<1> HIDE DEF record
<1>3. ASSUME NEW q \in Seq(Slots)
      PROVE  Mapped(q, Content') = [i \in DOMAIN q |-> record(event'[q[i]])]
  BY <1>1 DEF Mapped
<1> QED
  BY <1>2, <1>3 DEF TypeOK

(* A slot in use holds a message. *)
LEMMA InUse ==
    ASSUME IInv, NEW s \in Slots, s \notin Range(free_event_queue)
    PROVE  Contents(s) \in Events!Message /\ Contents(s) # NoId
<1>1. event[s] \in EventType /\ event[s].source_id \in Entities
      /\ event[s].target_id \in Entities
  BY DEF IInv, TypeOK, Addressed
<1>2. Contents(s) \in Events!Message
  BY <1>1 DEF Contents, Events!Message, EventType
<1> QED
  BY <1>2, NoMessage

(* The slot of the main thread and that of put_event are in use. *)
LEMMA HeldInUse ==
    ASSUME IInv
    PROVE  /\ current_event # NoEvent => /\ current_event \in Slots
                                         /\ Contents(current_event) # NoId
           /\ put.slot # NoEvent => /\ put.slot \in Slots
                                    /\ Contents(put.slot) # NoId
<1>1. ASSUME current_event # NoEvent
      PROVE  /\ current_event \in Slots
             /\ current_event \notin Range(free_event_queue)
  <2>1. current_event \in Slots
    BY <1>1 DEF IInv, TypeOK
  <2> QED
    BY <2>1 DEF IInv, OneOwner, Owners, Count
<1>2. ASSUME put.slot # NoEvent
      PROVE  put.slot \in Slots /\ put.slot \notin Range(free_event_queue)
  <2>1. put.slot \in Slots
    BY <1>2 DEF IInv, TypeOK, PutType
  <2> QED
    BY <2>1 DEF IInv, OneOwner, Owners, Count
<1> QED
  BY <1>1, <1>2, InUse

(* What the running handler and the put under way are in FwkEvents. *)
Running == IF InHandler THEN Contents(current_event) ELSE NoId

Outgoing == IF put.slot = NoEvent THEN NoId ELSE Contents(put.slot)

(* They are there when the main thread is in a handler, or in put_event. *)
LEMMA RunningNone ==
    ASSUME IInv
    PROVE  /\ Running = NoId <=> ~InHandler
           /\ Outgoing = NoId <=> pc # "put"
           /\ InHandler => current_event # NoEvent
<1>1. InHandler => current_event # NoEvent
  BY DEF IInv, Control, InHandler
<1> QED
  BY <1>1, HeldInUse DEF Running, Outgoing, IInv, Control

Main == ContentsOf(event_queue)

IsrMain == ContentsOf(isr_event_queue)

Waiting == [e \in Entities |-> ContentsOf(delayed_response_list[e])]

(* The state of FwkEvents before and after a step, as contents of memory. *)
LEMMA Views ==
    ASSUME IInv, IInv'
    PROVE  /\ Main = Mapped(event_queue, Content)
           /\ IsrMain = Mapped(isr_event_queue, Content)
           /\ Waiting = [e \in Entities |->
                            Mapped(delayed_response_list[e], Content)]
           /\ Running = IF InHandler THEN Content[current_event] ELSE NoId
           /\ Outgoing = IF pc = "put" THEN Content[put.slot] ELSE NoId
           /\ Main' = Mapped(event_queue', Content')
           /\ IsrMain' = Mapped(isr_event_queue', Content')
           /\ Waiting' = [e \in Entities |->
                             Mapped(delayed_response_list'[e], Content')]
           /\ Running' = IF InHandler' THEN Content'[current_event'] ELSE NoId
           /\ Outgoing' = IF pc' = "put" THEN Content'[put'.slot] ELSE NoId
<1>1. /\ Main = Mapped(event_queue, Content)
      /\ IsrMain = Mapped(isr_event_queue, Content)
      /\ Waiting = [e \in Entities |->
                       Mapped(delayed_response_list[e], Content)]
  BY View DEF Main, IsrMain, Waiting, IInv
<1>2. /\ Main' = Mapped(event_queue', Content')
      /\ IsrMain' = Mapped(isr_event_queue', Content')
      /\ Waiting' = [e \in Entities |->
                        Mapped(delayed_response_list'[e], Content')]
  BY ViewNext DEF Main, IsrMain, Waiting, IInv
<1>3. /\ Running = IF InHandler THEN Content[current_event] ELSE NoId
      /\ Outgoing = IF pc = "put" THEN Content[put.slot] ELSE NoId
  <2>1. InHandler => current_event \in Slots
    BY RunningNone, HeldInUse
  <2>2. pc = "put" <=> put.slot # NoEvent
    BY DEF IInv, Control
  <2>3. pc = "put" => put.slot \in Slots
    BY <2>2, HeldInUse
  <2> QED
    BY <2>1, <2>2, <2>3 DEF Running, Outgoing, Content
<1>4. /\ Running' = IF InHandler' THEN Content'[current_event'] ELSE NoId
      /\ Outgoing' = IF pc' = "put" THEN Content'[put'.slot] ELSE NoId
  <2>1. InHandler' => current_event' \in Slots
    BY DEF IInv, TypeOK, Control, InHandler
  <2>2. pc' = "put" <=> put'.slot # NoEvent
    BY DEF IInv, Control
  <2>3. pc' = "put" => put'.slot \in Slots
    BY <2>2 DEF IInv, TypeOK, PutType
  <2> QED
    BY <2>1, <2>2, <2>3 DEF Running, Outgoing, Content, Contents
<1> QED
  BY <1>1, <1>2, <1>3, <1>4

(* A step that writes to one slot at most leaves the other messages alone. *)
LEMMA OthersKept ==
    ASSUME TypeOK, NEW x,
           \A s \in Slots : s # x => event'[s] = event[s]
    PROVE  /\ \A s \in Slots : s # x => Content'[s] = Content[s]
           /\ x \notin Range(event_queue) =>
                 Mapped(event_queue, Content') = Mapped(event_queue, Content)
           /\ x \notin Range(isr_event_queue) =>
                 Mapped(isr_event_queue, Content')
                     = Mapped(isr_event_queue, Content)
           /\ \A id \in Entities : x \notin Range(delayed_response_list[id]) =>
                 Mapped(delayed_response_list[id], Content')
                     = Mapped(delayed_response_list[id], Content)
<1>1. \A s \in Slots : s # x => Content'[s] = Content[s]
  BY DEF Content, Contents
<1>2. ASSUME NEW q \in Seq(Slots), x \notin Range(q)
      PROVE  Mapped(q, Content') = Mapped(q, Content)
  <2>1. \A s \in Range(q) : s \in Slots
    BY DEF Range
  <2> DEFINE f == Content
             g == Content'
  <2>2. \A s \in Range(q) : g[s] = f[s]
    BY <1>1, <1>2, <2>1
  <2> HIDE DEF f, g
  <2>3. Mapped(q, g) = Mapped(q, f)
    BY <2>2, MapSame
  <2> QED
    BY <2>3 DEF f, g
<1> QED
  BY <1>1, <1>2 DEF TypeOK

(* A step that moves no event is a stutter of FwkEvents, when the handler  *)
(* goes on.                                                                *)
LEMMA QuietView ==
    ASSUME IInv, IInv',
           UNCHANGED <<event_queue, isr_event_queue, delayed_response_list,
                       event, put>>,
           InHandler' <=> InHandler, InHandler => current_event' = current_event
    PROVE  UNCHANGED <<Main, IsrMain, Waiting, Running, Outgoing>>
<1>1. Content' = Content
  BY DEF Content, Contents
<1>2. pc' = "put" <=> pc = "put"
  BY DEF IInv, Control
<1> QED
  BY <1>1, <1>2, Views

(* An allocation leaves all messages alone. *)
LEMMA AllocationView ==
    ASSUME IInv, IInv', NEW e \in EventType, DuplicateEvent(e)
    PROVE  /\ Mapped(event_queue, Content') = Main
           /\ Mapped(isr_event_queue, Content') = IsrMain
           /\ \A id \in Entities :
                 Mapped(delayed_response_list[id], Content') = Waiting[id]
           /\ InHandler => Content'[current_event] = Running
           /\ pc = "put" => Content'[put.slot] = Outgoing
           /\ Content'[Allocated] =
                 [source_id |-> e.source_id, target_id |-> e.target_id,
                  is_response |-> e.is_response,
                  response_requested |-> e.response_requested,
                  params |-> IF e.is_response THEN e.params ELSE NoId]
<1> DEFINE x == Allocated
<1>1. /\ x \in Slots /\ event'[x] = e
      /\ \A s \in Slots : s # x => event'[s] = event[s]
      /\ x \notin Range(event_queue) /\ x \notin Range(isr_event_queue)
      /\ \A id \in Entities : x \notin Range(delayed_response_list[id])
      /\ x # current_event /\ x # put.slot
  BY Allocation DEF Parked
<1> HIDE DEF x
<1>2. /\ \A s \in Slots : s # x => Content'[s] = Content[s]
      /\ Mapped(event_queue, Content') = Mapped(event_queue, Content)
      /\ Mapped(isr_event_queue, Content') = Mapped(isr_event_queue, Content)
      /\ \A id \in Entities : Mapped(delayed_response_list[id], Content')
                                 = Mapped(delayed_response_list[id], Content)
  BY <1>1, OthersKept DEF IInv
<1>3. InHandler => current_event \in Slots
  BY RunningNone, HeldInUse
<1>4. pc = "put" => put.slot \in Slots
  BY HeldInUse DEF IInv, Control
<1>5. Content'[x] =
         [source_id |-> e.source_id, target_id |-> e.target_id,
          is_response |-> e.is_response,
          response_requested |-> e.response_requested,
          params |-> IF e.is_response THEN e.params ELSE NoId]
  BY <1>1 DEF Content, Contents
<1> QED
  BY <1>1, <1>2, <1>3, <1>4, <1>5, Views DEF x

(* Module code sends in its own name: the source is that of the handler    *)
(* that runs.                                                              *)
LEMMA SenderView ==
    ASSUME IInv, pc \in {"start", "handler"}, NEW src \in Sources
    PROVE  Events!MaySend(src)
<1>1. Outgoing = NoId
  BY RunningNone
<1>2. Running # NoId => src = Running.target_id
  BY RunningNone DEF Running, Contents, InHandler, Sources, Me
<1> QED
  BY <1>1, <1>2 DEF Events!MaySend, Running, Outgoing

(* fwk_put_event begins: the message is composed. *)
LEMMA PutEventView ==
    ASSUME IInv, IInv', NEW src \in Entities, NEW tgt \in Entities,
           NEW req \in BOOLEAN, PutEvent(src, tgt, req)
    PROVE  Events!Compose(src, tgt, req)
<1> DEFINE e == StdEvent(src, tgt, req, 0)
<1>1. 0 \in 0..(CookieMod - 1)
  BY FwkCoreAssumption
<1>2. e \in EventType
  BY <1>1, StdEventTyped
<1>3. /\ DuplicateEvent(e) /\ pc' = "put"
      /\ put' = [slot |-> Allocated, cookie |-> event_cookie_counter,
                 ret |-> pc]
      /\ pc \in {"start", "handler"}
      /\ UNCHANGED <<event_queue, isr_event_queue, delayed_response_list,
                     current_event>>
  BY DEF PutEvent, PutBegin
<1>4. Content'[Allocated] = Events!Request(src, tgt, req)
  <2>1. /\ e.source_id = src /\ e.target_id = tgt /\ ~e.is_response
        /\ e.response_requested = req /\ e.is_response = FALSE
    BY DEF StdEvent
  <2> HIDE DEF e
  <2> QED
    BY <1>2, <1>3, <2>1, AllocationView DEF Events!Request
<1> HIDE DEF e
<1>5. Main' = Main /\ IsrMain' = IsrMain
  BY <1>2, <1>3, AllocationView, Views
<1>6. Waiting' = Waiting
  BY <1>2, <1>3, AllocationView, Views
<1>7. Running' = Running
  <2>1. InHandler' <=> InHandler
    BY <1>3 DEF InHandler
  <2> QED
    BY <1>2, <1>3, <2>1, AllocationView, Views
<1>8. Outgoing' = Events!Request(src, tgt, req)
  <2>1. put'.slot = Allocated
    BY <1>3
  <2> QED
    BY <1>3, <1>4, <2>1, Views
<1>9. Events!MaySend(src)
  BY <1>3, SenderView DEF PutEvent
<1> QED
  BY <1>5, <1>6, <1>7, <1>8, <1>9
     DEF Events!Compose, Main, IsrMain, Waiting, Running, Outgoing

(* fwk_put_event_light sends at once. *)
LEMMA PutEventLightView ==
    ASSUME IInv, IInv', NEW src \in Entities, NEW tgt \in Entities,
           NEW req \in BOOLEAN, PutEventLight(src, tgt, req)
    PROVE  Events!SendNow(src, tgt, req)
<1>1. PICK e \in EventType : /\ DuplicateEvent(e)
                             /\ e.source_id = src /\ e.target_id = tgt
                             /\ ~e.is_response /\ e.response_requested = req
  BY LightEventTyped DEF IInv, PutEventLight
<1>2. /\ event_queue' = Append(event_queue, Allocated)
      /\ event_queue \in Seq(Slots) /\ pc \in {"start", "handler"}
      /\ UNCHANGED <<isr_event_queue, delayed_response_list, current_event,
                     pc, put>>
  BY DEF PutEventLight, IInv, TypeOK
<1>3. Content'[Allocated] = Events!Request(src, tgt, req)
  <2>1. e.is_response = FALSE
    BY <1>1 DEF EventType
  <2> QED
    BY <1>1, <2>1, AllocationView DEF Events!Request
<1>4. Main' = Append(Main, Events!Request(src, tgt, req))
  <2> DEFINE x == Allocated
             f == Content'
  <2>1. x \in Slots
    BY <1>1, Allocation
  <2> HIDE DEF x, f
  <2>2. Mapped(Append(event_queue, x), f) = Append(Mapped(event_queue, f), f[x])
    BY <1>2, <2>1, MapPush
  <2> QED
    BY <1>1, <1>2, <1>3, <2>2, AllocationView, Views DEF x, f
<1>5. IsrMain' = IsrMain /\ Waiting' = Waiting
  BY <1>1, <1>2, AllocationView, Views
<1>6. Running' = Running /\ Outgoing' = Outgoing
  <2>1. InHandler' <=> InHandler
    BY <1>2 DEF InHandler
  <2> QED
    BY <1>1, <1>2, <2>1, AllocationView, Views
<1>7. Events!MaySend(src)
  BY <1>2, SenderView DEF PutEventLight
<1> QED
  BY <1>4, <1>5, <1>6, <1>7
     DEF Events!SendNow, Main, IsrMain, Waiting, Running, Outgoing

(* An ISR sends, wherever the main thread is. *)
LEMMA IsrPutView ==
    ASSUME IInv, IInv', NEW src, NEW tgt, NEW req,
           NEW e \in EventType, DuplicateEvent(e),
           e.source_id = src, e.target_id = tgt, ~e.is_response,
           e.response_requested = req,
           isr_event_queue' = Append(isr_event_queue, Allocated),
           UNCHANGED <<event_queue, delayed_response_list, current_event, pc,
                       put>>
    PROVE  Events!IsrSend(src, tgt, req)
<1>1. Content'[Allocated] = Events!Request(src, tgt, req)
  <2>1. e.is_response = FALSE
    BY DEF EventType
  <2> QED
    BY <2>1, AllocationView DEF Events!Request
<1>2. IsrMain' = Append(IsrMain, Events!Request(src, tgt, req))
  <2> DEFINE x == Allocated
             f == Content'
  <2>1. x \in Slots /\ isr_event_queue \in Seq(Slots)
    BY Allocation DEF IInv, TypeOK
  <2> HIDE DEF x, f
  <2>2. Mapped(Append(isr_event_queue, x), f)
           = Append(Mapped(isr_event_queue, f), f[x])
    BY <2>1, MapPush
  <2> QED
    BY <1>1, <2>2, AllocationView, Views DEF x, f
<1>3. Main' = Main /\ Waiting' = Waiting
  BY AllocationView, Views
<1>4. Running' = Running /\ Outgoing' = Outgoing
  <2>1. InHandler' <=> InHandler
    BY DEF InHandler
  <2> QED
    BY <2>1, AllocationView, Views
<1> QED
  BY <1>2, <1>3, <1>4
     DEF Events!IsrSend, Main, IsrMain, Waiting, Running, Outgoing

(* Every ISR sends a message or none. *)
LEMMA IsrView ==
    ASSUME IInv, IInv', Isr
    PROVE  \/ \E src, tgt \in Entities, req \in BOOLEAN :
                 Events!IsrSend(src, tgt, req)
           \/ UNCHANGED <<Main, IsrMain, Waiting, Running, Outgoing>>
<1>1. ASSUME NEW src \in Entities, NEW tgt \in Entities,
             NEW req \in BOOLEAN, IsrPutEvent(src, tgt, req)
      PROVE  Events!IsrSend(src, tgt, req)
  <2> DEFINE e == StdEvent(src, tgt, req, event_cookie_counter)
  <2>1. event_cookie_counter \in 0..(CookieMod - 1)
    BY DEF IInv, TypeOK
  <2>2. /\ e \in EventType /\ e.source_id = src /\ e.target_id = tgt
        /\ ~e.is_response /\ e.response_requested = req
    BY <2>1, StdEventTyped DEF StdEvent
  <2>3. DuplicateEvent(e)
    BY <1>1 DEF IsrPutEvent
  <2> HIDE DEF e
  <2> QED
    BY <1>1, <2>2, <2>3, IsrPutView DEF IsrPutEvent
<1>2. ASSUME NEW src \in Entities, NEW tgt \in Entities,
             NEW req \in BOOLEAN, IsrPutEventLight(src, tgt, req)
      PROVE  Events!IsrSend(src, tgt, req)
  <2>1. PICK e \in EventType : /\ DuplicateEvent(e)
                               /\ e.source_id = src /\ e.target_id = tgt
                               /\ ~e.is_response /\ e.response_requested = req
    BY <1>2, LightEventTyped DEF IInv, IsrPutEventLight
  <2> QED
    BY <1>2, <2>1, IsrPutView DEF IsrPutEventLight
<1>3. CASE IsrReturn
  <2>1. /\ UNCHANGED <<event_queue, isr_event_queue, delayed_response_list,
                       event, put, current_event>>
        /\ InHandler' = InHandler
    BY <1>3 DEF IsrReturn, queues, InHandler
  <2> QED
    BY <2>1, QuietView
<1> QED
  BY <1>1, <1>2, <1>3, FwkCoreAssumption DEF Isr

(* The end of put_event: the message is in the queue, its contents as they *)
(* were composed.                                                          *)
LEMMA PutEndView ==
    ASSUME IInv, IInv', PutEnd
    PROVE  Events!Emit
<1> DEFINE x == put.slot
           f == Content'
<1>1. /\ pc = "put" /\ x \in Slots /\ x # NoEvent
      /\ put.ret \in {"start", "handler", "free"}
      /\ event \in [Slots -> EventType] /\ event_queue \in Seq(Slots)
  BY DEF IInv, TypeOK, Control, PutEnd, PutType
<1>2. /\ event' = [event EXCEPT ![x] = [event[x] EXCEPT !.cookie = put.cookie]]
      /\ event_queue' = Append(event_queue, x) /\ pc' = put.ret
      /\ UNCHANGED <<isr_event_queue, delayed_response_list, current_event>>
  BY DEF PutEnd
<1>3. /\ x \notin Range(event_queue) /\ x \notin Range(isr_event_queue)
      /\ \A id \in Entities : x \notin Range(delayed_response_list[id])
      /\ x # current_event
  BY <1>1 DEF IInv, OneOwner, Owners, Count, Parked
<1>4. Outgoing = Content[x] /\ Outgoing # NoId
  BY <1>1, Views, RunningNone
<1> HIDE DEF x
<1>5. \A s \in Slots : s # x => event'[s] = event[s]
  BY <1>1, <1>2
<1>6. f[x] = Content[x]
  BY <1>1, <1>2 DEF Content, Contents, EventType
<1>7. /\ \A s \in Slots : s # x => f[s] = Content[s]
      /\ Mapped(event_queue, f) = Main
      /\ Mapped(isr_event_queue, f) = IsrMain
      /\ \A id \in Entities : Mapped(delayed_response_list[id], f) = Waiting[id]
  BY <1>3, <1>5, OthersKept, Views DEF IInv
<1>8. Main' = Append(Main, Outgoing)
  <2> HIDE DEF f
  <2>1. Mapped(Append(event_queue, x), f) = Append(Mapped(event_queue, f), f[x])
    BY <1>1, MapPush
  <2> QED
    BY <1>2, <1>4, <1>6, <1>7, <2>1, Views DEF f
<1>9. IsrMain' = IsrMain /\ Waiting' = Waiting
  BY <1>2, <1>7, Views
<1>10. Running' = Running /\ Outgoing' = NoId
  <2>1. InHandler' <=> InHandler
    BY <1>1, <1>2 DEF InHandler
  <2>2. InHandler => current_event \in Slots
    BY RunningNone, HeldInUse
  <2> QED
    BY <1>1, <1>2, <1>3, <1>7, <2>1, <2>2, Views
<1> QED
  BY <1>4, <1>8, <1>9, <1>10
     DEF Events!Emit, Main, IsrMain, Waiting, Running, Outgoing

(* A deferred answer is sent as it was parked: to the entity that asked. *)
LEMMA AnswerView ==
    ASSUME IInv, IInv', CInv, NEW id \in Entities, NEW m \in deferred[id],
           AnswerByCookie(m) \/ AnswerFirst(m)
    PROVE  /\ Me \in Entities
           /\ \E i \in DOMAIN Waiting[Me] : Events!AnswerParked(i)
<1>1. PICK i \in DOMAIN delayed_response_list[Me] :
         /\ PutDelayedResponse(i, m.requester)
         /\ event[delayed_response_list[Me][i]].target_id = m.requester
  BY AnswerFinds
<1> DEFINE me == Me
           l == delayed_response_list[me]
           x == l[i]
           p == m.requester
           f == Content'
<1>2. pc = "handler" /\ me \in Entities /\ p \in Entities
  BY AnswerFinds, HandledEvent
<1>3. l \in Seq(Slots) /\ IsInjective(l) /\ event \in [Slots -> EventType]
  BY <1>2 DEF IInv, TypeOK, OneOwner
<1>4. x \in Slots /\ x \in Range(l)
  BY <1>3 DEF Range
<1>5. /\ x \notin Range(free_event_queue) /\ x \notin Range(event_queue)
      /\ x \notin Range(isr_event_queue) /\ x # current_event
  <2>1. Parked(x)
    BY <1>2, <1>4 DEF Parked
  <2> QED
    BY <1>4, <2>1 DEF IInv, OneOwner, Owners, Count
<1>6. /\ event' = [event EXCEPT ![x] = [event[x] EXCEPT !.params = p]]
      /\ delayed_response_list' =
             [delayed_response_list EXCEPT ![me] = RemoveAt(l, i)]
      /\ put'.slot = x /\ put'.ret = "handler" /\ pc' = "put"
      /\ UNCHANGED <<event_queue, isr_event_queue, current_event>>
  BY <1>1 DEF PutDelayedResponse, PutBegin
<1>7. event[x].params = p /\ event[x].target_id = p
  BY <1>1, <1>2, <1>4, <1>5 DEF CInv, Answers, IInv, DelayedListsSound
<1> HIDE DEF x, p, me
<1>8. event' = event
  <2>1. event[x] \in EventType
    BY <1>3, <1>4
  <2>2. [event[x] EXCEPT !.params = p] = event[x]
    BY <1>7, <2>1 DEF EventType
  <2> QED
    BY <1>3, <1>6, <2>2
<1>9. f = Content
  BY <1>8 DEF Content, Contents
<1>10. /\ Running # NoId /\ Outgoing = NoId /\ Running.target_id = me
       /\ Running = Content[current_event] /\ InHandler /\ InHandler'
  BY <1>2, <1>6, RunningNone, Views DEF Running, Contents, InHandler, Me, me
<1>11. Main' = Main /\ IsrMain' = IsrMain
  BY <1>6, <1>9, Views
<1>12. Running' = Running
  BY <1>6, <1>9, <1>10, Views
<1>13. /\ i \in DOMAIN Waiting[me] /\ Waiting[me][i] = Content[x]
       /\ Mapped(RemoveAt(l, i), Content) = RemoveAt(Waiting[me], i)
  <2>1. i \in DOMAIN l
    BY DEF me
  <2>2. Waiting[me] = Mapped(l, Content)
    BY <1>2, Views
  <2>3. DOMAIN Mapped(l, Content) = DOMAIN l /\ Mapped(l, Content)[i] = Content[l[i]]
    BY <2>1 DEF Mapped
  <2>4. Mapped(RemoveAt(l, i), Content) = RemoveAt(Mapped(l, Content), i)
    <3> DEFINE c == Content
    <3> HIDE DEF c, l
    <3>1. Mapped(RemoveAt(l, i), c) = RemoveAt(Mapped(l, c), i)
      BY <1>3, <2>1, MapRemove
    <3> QED
      BY <3>1 DEF c
  <2> QED
    BY <2>1, <2>2, <2>3, <2>4 DEF x
<1>14. Outgoing' = Waiting[me][i]
  BY <1>6, <1>9, <1>13, Views
<1>15. Waiting' = [Waiting EXCEPT ![me] = RemoveAt(Waiting[me], i)]
  <2>1. \A k \in Entities : delayed_response_list'[k] =
           IF k = me THEN RemoveAt(l, i) ELSE delayed_response_list[k]
    BY <1>2, <1>6 DEF IInv, TypeOK
  <2>2. \A k \in Entities : Mapped(delayed_response_list'[k], Content) =
           IF k = me THEN RemoveAt(Waiting[me], i)
           ELSE Mapped(delayed_response_list[k], Content)
    BY <1>13, <2>1
  <2>3. /\ Waiting' = [k \in Entities |->
                          Mapped(delayed_response_list'[k], Content)]
        /\ Waiting = [k \in Entities |->
                         Mapped(delayed_response_list[k], Content)]
    BY <1>9, Views
  <2> QED
    BY <1>2, <2>2, <2>3
<1>16. Events!AnswerParked(i)
  <2>1. /\ Running # NoId /\ Outgoing = NoId
        /\ i \in DOMAIN Waiting[Running.target_id]
        /\ Outgoing' = Waiting[Running.target_id][i]
        /\ Waiting' = [Waiting EXCEPT ![Running.target_id] = RemoveAt(@, i)]
        /\ UNCHANGED <<Main, IsrMain, Running>>
    BY <1>10, <1>11, <1>12, <1>13, <1>14, <1>15
  <2>2. \A q : Events!RemoveAt(q, i) = RemoveAt(q, i)
    BY DEF Events!RemoveAt, RemoveAt
  <2> QED
    BY <2>1, <2>2
       DEF Events!AnswerParked, Main, IsrMain, Waiting, Running, Outgoing
<1> QED
  BY <1>2, <1>13, <1>16 DEF me

(* process_next_event delivers the oldest message. *)
LEMMA ProcessNextEventView ==
    ASSUME IInv, IInv', ProcessNextEvent
    PROVE  Events!Deliver
<1> DEFINE f == Content
<1>1. /\ pc = "loop" /\ event_queue # <<>> /\ event_queue \in Seq(Slots)
      /\ current_event' = Head(event_queue)
      /\ event_queue' = Tail(event_queue) /\ pc' = "handler"
      /\ UNCHANGED <<isr_event_queue, delayed_response_list, event, put>>
  BY DEF ProcessNextEvent, IInv, TypeOK
<1>2. Content' = f
  BY <1>1 DEF Content, Contents
<1>3. ~InHandler /\ InHandler'
  BY <1>1 DEF InHandler
<1> HIDE DEF f
<1>4. /\ Head(Mapped(event_queue, f)) = f[Head(event_queue)]
      /\ Tail(Mapped(event_queue, f)) = Mapped(Tail(event_queue), f)
      /\ Mapped(event_queue, f) # <<>>
  BY <1>1, MapPop, MapType
<1>5. /\ Main # <<>> /\ Running' = Head(Main) /\ Main' = Tail(Main)
      /\ Running = NoId /\ Outgoing = NoId /\ Outgoing' = NoId
  BY <1>1, <1>2, <1>3, <1>4, Views DEF f
<1>6. IsrMain' = IsrMain /\ Waiting' = Waiting
  BY <1>1, <1>2, Views DEF f
<1> QED
  BY <1>5, <1>6 DEF Events!Deliver, Main, IsrMain, Waiting, Running, Outgoing

(* process_isr takes the oldest message of the ISRs, or finds none. *)
LEMMA ProcessIsrView ==
    ASSUME IInv, IInv', ProcessIsr
    PROVE  \/ Events!Promote
           \/ UNCHANGED <<Main, IsrMain, Waiting, Running, Outgoing>>
<1> DEFINE f == Content
<1>1. /\ pc = "loop" /\ pc' \in {"loop", "log"} /\ event_queue = <<>>
      /\ event_queue \in Seq(Slots) /\ isr_event_queue \in Seq(Slots)
      /\ UNCHANGED <<delayed_response_list, event, current_event, put>>
  BY DEF ProcessIsr, IInv, TypeOK
<1>2. Content' = f
  BY <1>1 DEF Content, Contents
<1>3. ~InHandler /\ ~InHandler'
  BY <1>1 DEF InHandler
<1>4. CASE /\ isr_event_queue # <<>>
           /\ isr_event_queue' = Tail(isr_event_queue)
           /\ event_queue' = Append(event_queue, Head(isr_event_queue))
  <2> DEFINE x == Head(isr_event_queue)
  <2>1. x \in Slots
    BY <1>1, <1>4, PopHead
  <2> HIDE DEF f, x
  <2>2. /\ Head(Mapped(isr_event_queue, f)) = f[x]
        /\ Tail(Mapped(isr_event_queue, f)) = Mapped(Tail(isr_event_queue), f)
        /\ Mapped(isr_event_queue, f) # <<>>
    BY <1>1, <1>4, MapPop, MapType DEF x
  <2>3. /\ Mapped(event_queue, f) = <<>>
        /\ Mapped(Append(event_queue, x), f) = Append(Mapped(event_queue, f), f[x])
    BY <1>1, <2>1, MapPush, MapType
  <2>4. Append(<<>>, f[x]) = <<f[x]>>
    OBVIOUS
  <2>5. Main = <<>> /\ IsrMain # <<>> /\ Main' = <<Head(IsrMain)>>
        /\ IsrMain' = Tail(IsrMain)
    BY <1>2, <1>4, <2>2, <2>3, <2>4, Views DEF f, x
  <2>6. /\ Waiting' = Waiting /\ Running = NoId /\ Running' = NoId
        /\ Outgoing = NoId /\ Outgoing' = NoId
    BY <1>1, <1>2, <1>3, Views DEF f
  <2> QED
    BY <2>5, <2>6
       DEF Events!Promote, Main, IsrMain, Waiting, Running, Outgoing
<1>5. CASE UNCHANGED <<event_queue, isr_event_queue>>
  BY <1>1, <1>3, <1>5, QuietView
<1> QED
  BY <1>4, <1>5 DEF ProcessIsr

(* A handler that returns without a response, or whose response is lost    *)
(* because the pool is empty, has finished.                                *)
LEMMA SilentView ==
    ASSUME IInv, IInv', pc = "handler", pc' = "free",
           UNCHANGED <<event_queue, isr_event_queue, delayed_response_list,
                       event, put>>
    PROVE  Events!Finish
<1>1. Content' = Content
  BY DEF Content, Contents
<1>2. InHandler /\ ~InHandler'
  BY DEF InHandler
<1>3. /\ Running # NoId /\ Outgoing = NoId
      /\ Running' = NoId /\ Outgoing' = NoId
  BY <1>2, RunningNone, Views
<1>4. Main' = Main /\ IsrMain' = IsrMain /\ Waiting' = Waiting
  BY <1>1, Views
<1> QED
  BY <1>3, <1>4 DEF Events!Finish, Main, IsrMain, Waiting, Running, Outgoing

(* The message that answers the one whose handler runs. *)
LEMMA ResponseView ==
    ASSUME IInv, IInv', pc = "handler", NEW o \in Entities, NEW d \in BOOLEAN,
           event[current_event].response_requested,
           DuplicateEvent(AsyncResponse(o, d))
    PROVE  /\ AsyncResponse(o, d) \in EventType
           /\ Content'[Allocated] = Events!ResponseTo(Running, o)
           /\ Running # NoId /\ Outgoing = NoId
           /\ Running.response_requested
           /\ Running.target_id = Me
<1>1. InHandler
  BY DEF InHandler
<1>2. /\ Running = Contents(current_event)
      /\ Running # NoId /\ Outgoing = NoId
  BY <1>1, RunningNone DEF Running
<1>3. /\ Running.response_requested /\ Running.target_id = Me
      /\ Running.source_id = event[current_event].source_id
  BY <1>2 DEF Contents, Me
<1>4. AsyncResponse(o, d) \in EventType
  BY AsyncResponseTyped
<1> DEFINE e == AsyncResponse(o, d)
<1>5. /\ e.source_id = o /\ e.target_id = Running.source_id
      /\ e.is_response = TRUE /\ e.response_requested = FALSE
      /\ e.params = Running.source_id
  BY <1>3 DEF AsyncResponse
<1>6. e \in EventType /\ DuplicateEvent(e)
  BY <1>4
<1> HIDE DEF e
<1>7. Content'[Allocated] = Events!ResponseTo(Running, o)
  BY <1>5, <1>6, AllocationView DEF Events!ResponseTo
<1> QED
  BY <1>2, <1>3, <1>4, <1>7

(* The handler finishes with an answer, put or lost. *)
LEMMA ReturnResponseView ==
    ASSUME IInv, IInv', ReturnResponse
    PROVE  Events!Finish
<1>1. /\ pc = "handler" /\ event[current_event].response_requested
      /\ UNCHANGED <<event_queue, isr_event_queue, delayed_response_list,
                     current_event>>
  BY DEF ReturnResponse
<1>2. CASE /\ DuplicateEvent(AsyncResponse(Me, FALSE))
           /\ PutBegin(Allocated, "free")
  <2>1. Me \in Entities
    BY <1>1, HandledEvent
  <2>2. pc' = "put" /\ put'.slot = Allocated /\ put'.ret = "free"
    BY <1>2 DEF PutBegin
  <2>3. ~InHandler'
    BY <2>2 DEF InHandler
  <2>4. /\ AsyncResponse(Me, FALSE) \in EventType
        /\ Content'[Allocated] = Events!ResponseTo(Running, Running.target_id)
        /\ Running # NoId /\ Outgoing = NoId /\ Running.response_requested
    BY <1>1, <1>2, <2>1, ResponseView
  <2>5. /\ Running' = NoId
        /\ Outgoing' = Events!ResponseTo(Running, Running.target_id)
    BY <2>2, <2>3, <2>4, Views
  <2>6. Main' = Main /\ IsrMain' = IsrMain /\ Waiting' = Waiting
    BY <1>1, <1>2, <2>4, AllocationView, Views
  <2> QED
    BY <2>4, <2>5, <2>6
       DEF Events!Finish, Main, IsrMain, Waiting, Running, Outgoing
<1>3. CASE pc' = "free" /\ UNCHANGED <<event, put>>
  BY <1>1, <1>3, SilentView
<1> QED
  BY <1>2, <1>3 DEF ReturnResponse

(* The handler finishes and leaves the answer for later. *)
LEMMA ReturnDelayedResponseView ==
    ASSUME IInv, IInv', NEW o \in Entities, ReturnDelayedResponse(o)
    PROVE  Events!Finish
<1>1. /\ pc = "handler" /\ event[current_event].response_requested
      /\ pc' = "free"
      /\ UNCHANGED <<event_queue, isr_event_queue, current_event, put>>
  BY DEF ReturnDelayedResponse
<1>2. CASE /\ DuplicateEvent(AsyncResponse(o, TRUE))
           /\ delayed_response_list' =
                 [delayed_response_list EXCEPT ![o] = Append(@, Allocated)]
  <2> DEFINE x == Allocated
             f == Content'
             l == delayed_response_list[o]
             answer == Events!ResponseTo(Running, o)
  <2>1. /\ AsyncResponse(o, TRUE) \in EventType
        /\ f[x] = answer
        /\ Running # NoId /\ Outgoing = NoId /\ Running.response_requested
    BY <1>1, <1>2, ResponseView
  <2>2. ~InHandler'
    BY <1>1 DEF InHandler
  <2>3. Running' = NoId /\ Outgoing' = NoId
    BY <1>1, <2>2, Views
  <2>4. /\ Main' = Main /\ IsrMain' = IsrMain
        /\ \A id \in Entities : Mapped(delayed_response_list[id], f) = Waiting[id]
    BY <1>1, <1>2, <2>1, AllocationView, Views
  <2>5. x \in Slots /\ l \in Seq(Slots)
    BY <1>2, <2>1, Allocation DEF IInv, TypeOK
  <2>6. \A id \in Entities : delayed_response_list'[id] =
           IF id = o THEN Append(l, x) ELSE delayed_response_list[id]
    BY <1>2 DEF IInv, TypeOK
  <2>7. Waiting' = [id \in Entities |-> Mapped(delayed_response_list'[id], f)]
        /\ DOMAIN Waiting = Entities
    BY Views
  <2> HIDE DEF x, f, l, answer
  <2>8. Mapped(Append(l, x), f) = Append(Mapped(l, f), f[x])
    BY <2>5, MapPush
  <2>9. Mapped(l, f) = Waiting[o]
    BY <2>4 DEF l
  <2>10. \A id \in Entities : Mapped(delayed_response_list'[id], f) =
            IF id = o THEN Append(Waiting[o], answer) ELSE Waiting[id]
    BY <2>1, <2>4, <2>6, <2>8, <2>9
  <2>11. Waiting = [id \in Entities |-> Waiting[id]]
    BY DEF Waiting
  <2>12. Waiting' = [Waiting EXCEPT ![o] = Append(@, answer)]
    BY <2>7, <2>10, <2>11
  <2> QED
    BY <2>1, <2>3, <2>4, <2>12
       DEF Events!Finish, Main, IsrMain, Waiting, Running, Outgoing, answer
<1>3. CASE UNCHANGED <<event, delayed_response_list>>
  BY <1>1, <1>3, SilentView
<1> QED
  BY <1>2, <1>3 DEF ReturnDelayedResponse

(* The end of process_next_event, of start-up and the idle path. *)
LEMMA LoopView ==
    ASSUME IInv, IInv',
           FreeEvent \/ RunMainLoop \/ LogUnbuffer \/ ArchSuspend
             \/ UNCHANGED vars
    PROVE  UNCHANGED <<Main, IsrMain, Waiting, Running, Outgoing>>
<1>1. /\ UNCHANGED <<event_queue, isr_event_queue, delayed_response_list,
                     event, put>>
      /\ InHandler' <=> InHandler
      /\ InHandler => current_event' = current_event
  BY DEF FreeEvent, RunMainLoop, LogUnbuffer, ArchSuspend, vars, queues,
     InHandler
<1> QED
  BY <1>1, QuietView

(* No message after __fwk_init. *)
LEMMA InitView ==
    ASSUME Init
    PROVE  Events!EventsInit
<1>1. /\ event_queue = <<>> /\ isr_event_queue = <<>>
      /\ delayed_response_list = [id \in Entities |-> <<>>]
      /\ ~InHandler /\ put.slot = NoEvent
  BY DEF Init, InHandler, NoPut
<1>2. ContentsOf(<<>>) = <<>>
  BY DEF ContentsOf
<1>3. ContentsOf(event_queue) = <<>> /\ ContentsOf(isr_event_queue) = <<>>
  BY <1>1, <1>2
<1>4. [e \in Entities |-> ContentsOf(delayed_response_list[e])]
         = [e \in Entities |-> <<>>]
  BY <1>1, <1>2
<1> QED
  BY <1>1, <1>3, <1>4 DEF Events!EventsInit

(* A step of the framework is a step of FwkEvents, or a stutter. *)
LEMMA NextView ==
    ASSUME IInv, IInv', CInv, [Next]_vars
    PROVE  [Events!EventsNext]_(Events!eventVars)
<1>1. UNCHANGED <<Main, IsrMain, Waiting, Running, Outgoing>>
        => UNCHANGED Events!eventVars
  BY DEF Events!eventVars, Main, IsrMain, Waiting, Running, Outgoing
<1>2. CASE ModuleStep
  <2>1. CASE \E src, tgt \in Entities, req \in BOOLEAN :
                PutEvent(src, tgt, req)
    BY <2>1, PutEventView DEF Events!EventsNext
  <2>2. CASE \E src, tgt \in Entities, req \in LightRequests :
                PutEventLight(src, tgt, req)
    BY <2>2, PutEventLightView, FwkCoreAssumption DEF Events!EventsNext
  <2>3. CASE \E id \in Entities : \E m \in deferred[id] :
                AnswerByCookie(m) \/ AnswerFirst(m)
    <3>1. \E e \in Entities : \E i \in DOMAIN Waiting[e] :
             Events!AnswerParked(i)
      BY <2>3, AnswerView
    <3> QED
      BY <3>1 DEF Events!EventsNext, Waiting
  <2> QED
    BY <1>2, <2>1, <2>2, <2>3 DEF ModuleStep
<1>3. CASE HandlerReturn
  <2>1. CASE ReturnNoResponse
    <3>1. Events!Finish
      BY <2>1, SilentView DEF ReturnNoResponse, queues
    <3> QED
      BY <3>1 DEF Events!EventsNext
  <2>2. CASE ReturnResponse \/ \E o \in Entities : ReturnDelayedResponse(o)
    BY <2>2, ReturnResponseView, ReturnDelayedResponseView
       DEF Events!EventsNext
  <2> QED
    BY <1>3, <2>1, <2>2 DEF HandlerReturn
<1>4. CASE LoopStep
  BY <1>1, <1>4, PutEndView, ProcessNextEventView, ProcessIsrView, LoopView
     DEF LoopStep, Events!EventsNext
<1>5. CASE Isr
  BY <1>1, <1>5, IsrView DEF Events!EventsNext
<1> QED
  BY <1>1, <1>2, <1>3, <1>4, <1>5, LoopView DEF Next

(* The event framework implements FwkEvents until the counter wraps: the   *)
(* slots, the two steps of put_event and the ISRs in between are invisible *)
(* to the modules, who see messages in order, unchanged on the way, and    *)
(* answers that go to whoever asked.                                       *)
THEOREM EventsRefinement ==
    ASSUME OnlyModulesAsk
    PROVE  Spec /\ []NotWrapped => ImplementsEvents
<1>1. Init => Events!EventsInit
  BY InitView
<1>2. IInv /\ IInv' /\ CInv /\ [Next]_vars
        => [Events!EventsNext]_(Events!eventVars)
  BY NextView
<1> QED
  BY <1>1, <1>2, Invariance, Cookies, PTL
     DEF Spec, ImplementsEvents, Events!EventsSpec
=============================================================================
