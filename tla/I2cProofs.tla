------------------------------ MODULE I2cProofs ------------------------------
(***************************************************************************)
(* Proofs about I2c, for any number of requests, any driver and whether or *)
(* not events can be lost.                                                 *)
(*                                                                         *)
(* The HAL keeps no record of whom a completed transfer belongs to: it is  *)
(* the head of a list in the framework, and the status an answer carries   *)
(* is the one of the last completion.  Both are right because the requests *)
(* stand in one line, from those answered to those not begun (Line), and   *)
(* nothing has touched the bus for those behind the first one (Begun).     *)
(* Once an event is lost only the types are kept.                          *)
(***************************************************************************)
EXTENDS I2c, SequencesExt, FiniteSetTheorems, TLAPS

----------------------------------------------------------------------------
(* What the operations on queues do to their elements. *)

(* fwk_list_pop_head takes the first element. *)
LEMMA PopHead ==
    ASSUME NEW S, NEW q \in Seq(S), q # <<>>
    PROVE  /\ Head(q) \in S /\ Tail(q) \in Seq(S)
           /\ Head(q) \in Range(q)
           /\ IsInjective(q) => /\ IsInjective(Tail(q))
                                /\ Range(Tail(q)) = Range(q) \ {Head(q)}
<1> DEFINE t == Tail(q)
<1>1. /\ t \in Seq(S) /\ Head(q) \in S
      /\ Len(q) \in Nat \ {0}
      /\ DOMAIN t = 1..(Len(q) - 1) /\ DOMAIN q = 1..Len(q)
      /\ \A i \in 1..(Len(q) - 1) : t[i] = q[i + 1]
      /\ Head(q) = q[1]
  OBVIOUS
<1> HIDE DEF t
<1>2. Head(q) \in Range(q)
  BY <1>1, SMT DEF Range
<1>3. ASSUME IsInjective(q)
      PROVE  IsInjective(t) /\ Range(t) = Range(q) \ {Head(q)}
  <2>1. IsInjective(t)
    BY <1>1, <1>3, SMT DEF IsInjective
  <2>2. ASSUME NEW y \in Range(t)
        PROVE  y \in Range(q) /\ y # Head(q)
    <3>1. PICK i \in 1..(Len(q) - 1) : y = q[i + 1]
      BY <1>1, SMT DEF Range
    <3> QED
      BY <1>1, <1>3, <3>1, SMT DEF Range, IsInjective
  <2>3. ASSUME NEW y \in Range(q), y # Head(q)
        PROVE  y \in Range(t)
    <3>1. PICK i \in 1..Len(q) : y = q[i]
      BY <1>1, SMT DEF Range
    <3>2. i - 1 \in DOMAIN t /\ t[i - 1] = y
      BY <1>1, <2>3, <3>1, SMT
    <3> QED
      BY <3>2 DEF Range
  <2> QED
    BY <2>1, <2>2, <2>3
<1> QED
  BY <1>1, <1>2, <1>3 DEF t

(* The places of a queue that hold an element of S, and how many there are.*)
Places(q, S) == {i \in DOMAIN q : q[i] \in S}

Occurrences(q, S) == Cardinality(Places(q, S))

(* There are finitely many. *)
LEMMA OccurrencesType ==
    ASSUME NEW T, NEW q \in Seq(T), NEW S
    PROVE  IsFiniteSet(Places(q, S)) /\ Occurrences(q, S) \in Nat
<1>1. Len(q) \in Nat /\ DOMAIN q = 1..Len(q)
  OBVIOUS
<1>2. IsFiniteSet(1..Len(q))
  BY <1>1, FS_Interval
<1>3. Places(q, S) \in SUBSET (1..Len(q))
  BY <1>1 DEF Places
<1>4. IsFiniteSet(Places(q, S))
  BY <1>2, <1>3, FS_Subset
<1> QED
  BY <1>4, FS_CardinalityType DEF Occurrences

(* None in the empty queue. *)
LEMMA OccurrencesEmpty ==
    ASSUME NEW S
    PROVE  Occurrences(<<>>, S) = 0
<1>1. Places(<<>>, S) = {}
  BY DEF Places
<1> QED
  BY <1>1, FS_EmptySet DEF Occurrences

(* A queue with some has an element of the kind, and the other way round. *)
LEMMA OccurrencesSome ==
    ASSUME NEW T, NEW q \in Seq(T), NEW S
    PROVE  Occurrences(q, S) # 0 <=> \E i \in DOMAIN q : q[i] \in S
<1>1. Occurrences(q, S) = 0 <=> Places(q, S) = {}
  BY OccurrencesType, FS_EmptySet DEF Occurrences
<1> QED
  BY <1>1 DEF Places

(* Pushing an element adds it. *)
LEMMA OccurrencesPush ==
    ASSUME NEW T, NEW q \in Seq(T), NEW x \in T, NEW S
    PROVE  Occurrences(Append(q, x), S)
             = Occurrences(q, S) + (IF x \in S THEN 1 ELSE 0)
<1> DEFINE n == Len(q)
           r == Append(q, x)
           P == Places(q, S)
<1>1. /\ n \in Nat /\ DOMAIN q = 1..n /\ DOMAIN r = 1..(n + 1)
      /\ \A i \in 1..n : r[i] = q[i]
      /\ r[n + 1] = x
  OBVIOUS
<1>2. IsFiniteSet(P) /\ Cardinality(P) \in Nat
  BY OccurrencesType DEF Occurrences
<1> HIDE DEF n, r
<1>3. n + 1 \notin P
  BY <1>1 DEF Places
<1>4. CASE x \in S
  <2>1. Places(r, S) = P \cup {n + 1}
    BY <1>1, <1>4 DEF Places
  <2>2. Cardinality(P \cup {n + 1}) = Cardinality(P) + 1
    <3> HIDE DEF P
    <3> QED
      BY <1>2, <1>3, FS_AddElement
  <2> QED
    BY <1>4, <2>1, <2>2 DEF Occurrences, r
<1>5. CASE x \notin S
  <2>1. Places(r, S) = P
    BY <1>1, <1>5 DEF Places
  <2> QED
    BY <1>2, <1>5, <2>1 DEF Occurrences, r
<1> QED
  BY <1>4, <1>5

(* Popping the head takes it away. *)
LEMMA OccurrencesPop ==
    ASSUME NEW T, NEW q \in Seq(T), q # <<>>, NEW S
    PROVE  Occurrences(q, S)
             = Occurrences(Tail(q), S) + (IF Head(q) \in S THEN 1 ELSE 0)
<1> DEFINE n == Len(q)
           t == Tail(q)
           A == Places(t, S)
           B == {i \in 2..n : q[i] \in S}
           f == [i \in A |-> i + 1]
<1>1. /\ n \in Nat /\ n >= 1 /\ DOMAIN q = 1..n /\ Head(q) = q[1]
      /\ t \in Seq(T) /\ DOMAIN t = 1..(n - 1)
      /\ \A i \in 1..(n - 1) : t[i] = q[i + 1]
  OBVIOUS
<1>2. IsFiniteSet(A) /\ Cardinality(A) \in Nat
  BY <1>1, OccurrencesType DEF Occurrences
<1> HIDE DEF n, t
<1>3. ASSUME NEW i \in A PROVE i \in Int /\ i + 1 \in B
  BY <1>1 DEF Places
<1>4. ASSUME NEW j \in B PROVE j - 1 \in A /\ (j - 1) + 1 = j
  <2>1. j - 1 \in 1..(n - 1) /\ (j - 1) + 1 = j
    BY <1>1
  <2> QED
    BY <1>1, <2>1 DEF Places
<1> HIDE DEF A, B
<1>5. f \in Surjection(A, B)
  <2>1. f \in [A -> B]
    BY <1>3
  <2>2. \A j \in B : \E i \in A : f[i] = j
    BY <1>4
  <2> HIDE DEF f
  <2> QED
    BY <2>1, <2>2 DEF Surjection
<1>6. f \in Injection(A, B)
  <2>1. f \in [A -> B]
    BY <1>3
  <2>2. \A i, j \in A : f[i] = f[j] => i = j
    BY <1>3
  <2> HIDE DEF f
  <2> QED
    BY <2>1, <2>2 DEF Injection, IsInjective
<1> HIDE DEF f
<1>7. IsFiniteSet(B) /\ Cardinality(B) = Cardinality(A)
  BY <1>2, <1>5, <1>6, FS_Surjection
<1>8. 1 \notin B
  BY <1>1 DEF B
<1>9. CASE Head(q) \in S
  <2>1. Places(q, S) = B \cup {1}
    BY <1>1, <1>9 DEF Places, B
  <2>2. Cardinality(B \cup {1}) = Cardinality(B) + 1
    BY <1>7, <1>8, FS_AddElement
  <2> QED
    BY <1>7, <1>9, <2>1, <2>2 DEF Occurrences, A, t
<1>10. CASE Head(q) \notin S
  <2>1. Places(q, S) = B
    BY <1>1, <1>10 DEF Places, B
  <2> QED
    BY <1>2, <1>7, <1>10, <2>1 DEF Occurrences, A, t
<1> QED
  BY <1>9, <1>10

----------------------------------------------------------------------------

Busy == {"TX", "RX", "TX_RX"}

(* An event with the fields its type has. *)
Good == {e \in EventType :
            /\ e.type \in {"request", "response"} => e.req \in Requests
            /\ e.type = "response" => e.status # "none"
            /\ e.type = "completed" => e.status \in Statuses}

Completed == {e \in Good : e.type = "completed"}
Reloads == {e \in Good : e.type = "reload"}

Typed ==
    /\ TypeOK
    /\ event_queue \in Seq(Good)
    /\ state \in Busy => request \in Requests
    /\ dev.op # "none" => dev.req \in Requests

(* The events of type t in q are those for the requests lo + 1 to hi, in   *)
(* their order.                                                            *)
Run(q, t, lo, hi) ==
    /\ \A i \in DOMAIN q : q[i].type = t => lo < q[i].req /\ q[i].req <= hi
    /\ \A r \in (lo + 1)..hi :
           \E i \in DOMAIN q : q[i].type = t /\ q[i].req = r
    /\ \A i, j \in DOMAIN q :
           i < j /\ q[i].type = t /\ q[j].type = t => q[i].req < q[j].req

(* The n requests made: x have been answered, those up to y are being      *)
(* answered, those up to z are parked, the others are in the queue.        *)
Line(q, p, a, n, x, y, z) ==
    /\ x <= y /\ y <= z /\ z <= n
    /\ \A r \in Requests : a[r] # "none" <=> r <= x
    /\ Run(q, "response", x, y)
    /\ Len(p) = z - y /\ \A i \in DOMAIN p : p[i] = y + i
    /\ Run(q, "request", z, n)

(* Status s is what the transfers of request r ended with. *)
Truthful(r, s, k, ended) ==
    s = "ok" <=> \A op \in Transfers(k[r]) : <<r, op, "ok">> \in ended

(* The requests answered and being answered are told the truth. *)
Told(q, a, k, ended) ==
    /\ \A r \in Requests : a[r] # "none" => Truthful(r, a[r], k, ended)
    /\ \A i \in DOMAIN q :
           q[i].type = "response" => Truthful(q[i].req, q[i].status, k, ended)

(* The bus has seen the first y requests, and those in X. *)
Begun(ended, y, X) == \A t \in ended : t[1] <= y \/ t[1] \in X

Books(q, p, a, k, ended, X) ==
    \E x, y, z \in Nat :
        /\ Line(q, p, a, Len(k), x, y, z)
        /\ Told(q, a, k, ended)
        /\ Begun(ended, y, X)

(* What the device waits for. *)
Flight ==
    /\ Occurrences(event_queue, Completed) + Len(isr_event_queue)
         + (IF dev.op = "none" THEN 0 ELSE 1)
       = IF state \in Busy THEN 1 ELSE 0
    /\ Occurrences(event_queue, Reloads) = IF state = "RELOAD" THEN 1 ELSE 0
    /\ state = "IDLE" <=> parked = <<>>
    /\ state \in Busy => Head(parked) = request
    /\ dev.op # "none" => dev.req = request
    /\ state # "PANIC"

(* The transfer a state stands for. *)
Op(st) == IF st = "RX" THEN "rx" ELSE "tx"

(* State st is one of a request of kind k, and what the bus has seen of    *)
(* request r before the transfer under way is in ended.                    *)
Stage(st, r, k, ended) ==
    /\ st = "TX" => k[r] = "tx"
    /\ st = "TX_RX" => /\ k[r] = "tx_rx"
                       /\ \A s \in Statuses : <<r, "rx", s>> \notin ended
    /\ st = "RX" => \/ k[r] = "rx"
                    \/ k[r] = "tx_rx" /\ <<r, "tx", "ok">> \in ended

(* The transfer under way, and how its completion was reported. *)
InFlight ==
    state \in Busy =>
        /\ Stage(state, request, kind, dev.ended)
        /\ dev.op # "none" =>
               /\ dev.op = Op(state)
               /\ \A s \in Statuses : <<request, Op(state), s>> \notin dev.ended
        /\ \A i \in DOMAIN event_queue : event_queue[i].type = "completed" =>
               \A s \in Statuses : <<request, Op(state), s>> \in dev.ended
                                      <=> s = event_queue[i].status
        /\ \A i \in DOMAIN isr_event_queue :
               \A s \in Statuses : <<request, Op(state), s>> \in dev.ended
                                      <=> s = isr_event_queue[i].status

Begin == IF state \in Busy THEN {request} ELSE {}

Tracked == /\ Flight /\ InFlight
           /\ Books(event_queue, parked, answer, kind, dev.ended, Begin)

Inv == Typed /\ (~lost => Tracked)
-----------------------------------------------------------------------------
(* The line of requests. *)

(* The next event of a run is pushed. *)
LEMMA RunPush ==
    ASSUME NEW q \in Seq(Good), NEW t, NEW lo \in Nat, NEW hi \in Nat,
           Run(q, t, lo, hi), lo <= hi,
           NEW e \in Good, e.type = t => e.req = hi + 1
    PROVE  Run(Append(q, e), t, lo, IF e.type = t THEN hi + 1 ELSE hi)
<1> DEFINE n == Len(q)
           w == Append(q, e)
           h == IF e.type = t THEN hi + 1 ELSE hi
<1>1. /\ n \in Nat /\ DOMAIN q = 1..n /\ DOMAIN w = 1..(n + 1)
      /\ \A i \in 1..n : w[i] = q[i]
      /\ w[n + 1] = e
  OBVIOUS
<1>2. \A i \in 1..n : q[i] \in Good /\ q[i].req \in Int
  <2>1. \A i \in 1..n : q[i] \in Good
    OBVIOUS
  <2> QED
    BY <2>1, I2cAssumption DEF Good, EventType
<1>3. h \in Int /\ h >= hi
  OBVIOUS
<1> HIDE DEF n, w
<1>4. ASSUME NEW i \in DOMAIN w, w[i].type = t
      PROVE  lo < w[i].req /\ w[i].req <= h
  BY <1>1, <1>2, <1>4 DEF Run
<1>5. ASSUME NEW r \in (lo + 1)..h
      PROVE  \E i \in DOMAIN w : w[i].type = t /\ w[i].req = r
  <2>1. CASE r <= hi
    <3>1. PICK i \in DOMAIN q : q[i].type = t /\ q[i].req = r
      BY <2>1 DEF Run
    <3> QED
      BY <1>1, <3>1
  <2>2. CASE r > hi
    <3>1. e.type = t /\ r = hi + 1
      BY <2>2
    <3> QED
      BY <1>1, <3>1
  <2> QED
    BY <2>1, <2>2
<1>6. ASSUME NEW i \in DOMAIN w, NEW j \in DOMAIN w,
             i < j, w[i].type = t, w[j].type = t
      PROVE  w[i].req < w[j].req
  <2>1. i \in 1..n
    BY <1>1, <1>6
  <2>2. CASE j \in 1..n
    BY <1>1, <1>6, <2>1, <2>2 DEF Run
  <2>3. CASE j = n + 1
    <3>1. q[i].req <= hi
      BY <1>1, <1>6, <2>1 DEF Run
    <3> QED
      BY <1>1, <1>2, <1>6, <2>1, <2>3, <3>1
  <2> QED
    BY <1>1, <2>2, <2>3
<1> HIDE DEF h
<1>7. Run(w, t, lo, h)
  BY <1>4, <1>5, <1>6 DEF Run
<1> QED
  BY <1>7 DEF w, h

(* The first event of a run is popped. *)
LEMMA RunPop ==
    ASSUME NEW q \in Seq(Good), q # <<>>, NEW t, NEW lo \in Nat, NEW hi \in Nat,
           Run(q, t, lo, hi), lo <= hi
    PROVE  /\ Head(q).type # t => Run(Tail(q), t, lo, hi)
           /\ Head(q).type = t => /\ Head(q).req = lo + 1 /\ lo + 1 <= hi
                                  /\ Run(Tail(q), t, lo + 1, hi)
<1> DEFINE n == Len(q)
           w == Tail(q)
<1>1. /\ n \in Nat /\ n >= 1 /\ DOMAIN q = 1..n /\ DOMAIN w = 1..(n - 1)
      /\ \A i \in 1..(n - 1) : w[i] = q[i + 1]
      /\ Head(q) = q[1]
  OBVIOUS
<1>2. \A i \in 1..n : q[i] \in Good /\ q[i].req \in Int
  <2>1. \A i \in 1..n : q[i] \in Good
    OBVIOUS
  <2> QED
    BY <2>1, I2cAssumption DEF Good, EventType
<1> HIDE DEF n, w
<1>3. ASSUME NEW i \in DOMAIN q, i # 1
      PROVE  i - 1 \in DOMAIN w /\ w[i - 1] = q[i]
  BY <1>1, <1>3
<1>4. ASSUME NEW i \in DOMAIN w
      PROVE  i \in Int /\ i + 1 \in DOMAIN q /\ w[i] = q[i + 1] /\ 1 \in DOMAIN q
  BY <1>1
<1>5. ASSUME NEW i \in DOMAIN w, NEW j \in DOMAIN w,
             i < j, w[i].type = t, w[j].type = t
      PROVE  w[i].req < w[j].req
  <2>1. i + 1 < j + 1
    BY <1>4, <1>5
  <2> QED
    BY <1>4, <1>5, <2>1 DEF Run
<1>6. CASE q[1].type # t
  <2>1. \A i \in DOMAIN w : w[i].type = t => lo < w[i].req /\ w[i].req <= hi
    BY <1>4 DEF Run
  <2>2. ASSUME NEW r \in (lo + 1)..hi
        PROVE  \E i \in DOMAIN w : w[i].type = t /\ w[i].req = r
    <3>1. PICK i \in DOMAIN q : q[i].type = t /\ q[i].req = r
      BY DEF Run
    <3> QED
      BY <1>3, <1>6, <3>1
  <2>3. Run(w, t, lo, hi)
    BY <1>5, <2>1, <2>2 DEF Run
  <2> QED
    BY <1>1, <1>6, <2>3 DEF w
<1>7. CASE q[1].type = t
  <2>1. 1 \in DOMAIN q /\ lo < q[1].req /\ q[1].req <= hi /\ q[1].req \in Int
    BY <1>1, <1>2, <1>7 DEF Run
  <2>2. PICK i \in DOMAIN q : q[i].type = t /\ q[i].req = lo + 1
    <3>1. lo + 1 \in (lo + 1)..hi
      BY <2>1
    <3> QED
      BY <3>1 DEF Run
  <2>3. q[1].req = lo + 1
    <3>1. i = 1 \/ 1 < i
      BY <1>1
    <3>2. ASSUME 1 < i PROVE q[1].req < q[i].req
      BY <1>7, <2>1, <2>2, <3>2 DEF Run
    <3> QED
      BY <2>1, <2>2, <3>1, <3>2
  <2>4. ASSUME NEW j \in DOMAIN w, w[j].type = t
        PROVE  lo + 1 < w[j].req /\ w[j].req <= hi
    <3>1. 1 < j + 1 /\ j + 1 \in DOMAIN q /\ w[j] = q[j + 1]
      BY <1>1, <1>4
    <3>2. q[1].req < q[j + 1].req
      BY <1>7, <2>1, <2>4, <3>1 DEF Run
    <3>3. q[j + 1].req <= hi
      BY <2>4, <3>1 DEF Run
    <3> QED
      BY <2>3, <3>1, <3>2, <3>3
  <2>5. ASSUME NEW r \in (lo + 1 + 1)..hi
        PROVE  \E j \in DOMAIN w : w[j].type = t /\ w[j].req = r
    <3>1. PICK j \in DOMAIN q : q[j].type = t /\ q[j].req = r
      BY DEF Run
    <3>2. j # 1
      BY <2>3, <3>1
    <3> QED
      BY <1>3, <3>1, <3>2
  <2>6. Run(w, t, lo + 1, hi)
    BY <1>5, <2>4, <2>5 DEF Run
  <2> QED
    BY <1>1, <1>7, <2>1, <2>3, <2>6 DEF w
<1> QED
  BY <1>6, <1>7
-----------------------------------------------------------------------------
(* The books. *)

Answers == [Requests -> {"none", "ok", "fail", "panic"}]
Endings == Requests \X {"tx", "rx"} \X Statuses

(* Where the elements of a queue come from after a push. *)
LEMMA Pushed ==
    ASSUME NEW T, NEW q \in Seq(T), NEW e \in T
    PROVE  \A i \in DOMAIN Append(q, e) :
               \/ Append(q, e)[i] = e
               \/ \E j \in DOMAIN q : Append(q, e)[i] = q[j]
  OBVIOUS

(* And after a pop. *)
LEMMA Popped ==
    ASSUME NEW T, NEW q \in Seq(T), q # <<>>
    PROVE  /\ \A i \in DOMAIN Tail(q) : \E j \in DOMAIN q : Tail(q)[i] = q[j]
           /\ 1 \in DOMAIN q /\ Head(q) = q[1]
<1>1. /\ Len(q) \in Nat /\ Len(q) >= 1 /\ DOMAIN q = 1..Len(q)
      /\ DOMAIN Tail(q) = 1..(Len(q) - 1)
      /\ \A i \in 1..(Len(q) - 1) : Tail(q)[i] = q[i + 1]
      /\ Head(q) = q[1]
  OBVIOUS
<1> QED
  BY <1>1

(* An event that is neither a request nor a response is put. *)
LEMMA BooksPush ==
    ASSUME NEW q \in Seq(Good), NEW p \in Seq(Requests), NEW a \in Answers,
           NEW k \in Seq(Kinds), NEW ended \in SUBSET Endings, NEW X,
           Books(q, p, a, k, ended, X),
           NEW e \in Good, e.type \notin {"request", "response"}
    PROVE  Books(Append(q, e), p, a, k, ended, X)
<1>1. PICK x \in Nat, y \in Nat, z \in Nat :
          /\ Line(q, p, a, Len(k), x, y, z)
          /\ Told(q, a, k, ended) /\ Begun(ended, y, X)
  BY DEF Books
<1>2. Len(k) \in Nat
  OBVIOUS
<1>3. /\ Run(Append(q, e), "response", x, y)
      /\ Run(Append(q, e), "request", z, Len(k))
  BY <1>1, <1>2, RunPush DEF Line
<1>4. Line(Append(q, e), p, a, Len(k), x, y, z)
  BY <1>1, <1>3 DEF Line
<1>5. Told(Append(q, e), a, k, ended)
  BY <1>1, Pushed DEF Told
<1> QED
  BY <1>1, <1>4, <1>5 DEF Books

(* Such an event is handled. *)
LEMMA BooksPop ==
    ASSUME NEW q \in Seq(Good), NEW p \in Seq(Requests), NEW a \in Answers,
           NEW k \in Seq(Kinds), NEW ended \in SUBSET Endings, NEW X,
           Books(q, p, a, k, ended, X),
           q # <<>>, Head(q).type \notin {"request", "response"}
    PROVE  Books(Tail(q), p, a, k, ended, X)
<1>1. PICK x \in Nat, y \in Nat, z \in Nat :
          /\ Line(q, p, a, Len(k), x, y, z)
          /\ Told(q, a, k, ended) /\ Begun(ended, y, X)
  BY DEF Books
<1>2. Len(k) \in Nat
  OBVIOUS
<1>3. /\ Run(Tail(q), "response", x, y)
      /\ Run(Tail(q), "request", z, Len(k))
  BY <1>1, <1>2, RunPop DEF Line
<1>4. Line(Tail(q), p, a, Len(k), x, y, z)
  BY <1>1, <1>3 DEF Line
<1>5. Told(Tail(q), a, k, ended)
  BY <1>1, Popped DEF Told
<1> QED
  BY <1>1, <1>4, <1>5 DEF Books

(* The caller gets its answer. *)
LEMMA BooksAnswer ==
    ASSUME NEW q \in Seq(Good), NEW p \in Seq(Requests), NEW a \in Answers,
           NEW k \in Seq(Kinds), NEW ended \in SUBSET Endings, NEW X,
           Books(q, p, a, k, ended, X),
           q # <<>>, Head(q).type = "response"
    PROVE  Books(Tail(q), p, [a EXCEPT ![Head(q).req] = Head(q).status],
                 k, ended, X)
<1> DEFINE h == Head(q)
           b == [a EXCEPT ![h.req] = h.status]
<1>1. PICK x \in Nat, y \in Nat, z \in Nat :
          /\ Line(q, p, a, Len(k), x, y, z)
          /\ Told(q, a, k, ended) /\ Begun(ended, y, X)
  BY DEF Books
<1>2. Len(k) \in Nat
  OBVIOUS
<1>3. /\ Run(Tail(q), "response", x + 1, y) /\ h.req = x + 1 /\ x + 1 <= y
      /\ Run(Tail(q), "request", z, Len(k))
  BY <1>1, <1>2, RunPop DEF Line
<1>4. h \in Good /\ h.req \in Requests /\ h.status # "none"
  <2>1. h \in Good
    BY PopHead
  <2> QED
    BY <2>1 DEF Good
<1>5. Truthful(h.req, h.status, k, ended)
  BY <1>1, Popped DEF Told
<1> HIDE DEF h
<1>6. \A r \in Requests : b[r] = IF r = x + 1 THEN h.status ELSE a[r]
  BY <1>3, <1>4 DEF Answers
<1> HIDE DEF b
<1>7. \A r \in Requests : b[r] # "none" <=> r <= x + 1
  <2>1. \A r \in Requests : a[r] # "none" <=> r <= x
    BY <1>1 DEF Line
  <2>2. \A r \in Requests : r \in Int
    BY I2cAssumption DEF Requests
  <2> QED
    BY <1>4, <1>6, <2>1, <2>2
<1>8. Line(Tail(q), p, b, Len(k), x + 1, y, z)
  BY <1>1, <1>3, <1>7 DEF Line
<1>9. Told(Tail(q), b, k, ended)
  <2>1. \A r \in Requests : b[r] # "none" => Truthful(r, b[r], k, ended)
    BY <1>1, <1>3, <1>5, <1>6 DEF Told
  <2> QED
    BY <1>1, <2>1, Popped DEF Told
<1>10. x + 1 \in Nat
  OBVIOUS
<1>11. Books(Tail(q), p, b, k, ended, X)
  BY <1>1, <1>8, <1>9, <1>10 DEF Books
<1> QED
  BY <1>11 DEF b, h

(* The first request in the list is answered, with status s. *)
LEMMA BooksRespond ==
    ASSUME NEW q \in Seq(Good), NEW p \in Seq(Requests), NEW a \in Answers,
           NEW k \in Seq(Kinds), NEW ended \in SUBSET Endings, NEW X,
           Books(q, p, a, k, ended, X),
           p # <<>>, X \subseteq {Head(p)}, NEW s \in Statuses,
           Truthful(Head(p), s, k, ended)
    PROVE  Books(Append(q, Event("response", Head(p), s)), Tail(p), a, k,
                 ended, {})
<1> DEFINE e == Event("response", Head(p), s)
<1>1. PICK x \in Nat, y \in Nat, z \in Nat :
          /\ Line(q, p, a, Len(k), x, y, z)
          /\ Told(q, a, k, ended) /\ Begun(ended, y, X)
  BY DEF Books
<1>2. Len(k) \in Nat
  OBVIOUS
<1>3. /\ Len(p) \in Nat /\ Len(p) >= 1 /\ DOMAIN p = 1..Len(p)
      /\ DOMAIN Tail(p) = 1..(Len(p) - 1) /\ Len(Tail(p)) = Len(p) - 1
      /\ \A i \in 1..(Len(p) - 1) : Tail(p)[i] = p[i + 1]
      /\ Head(p) = p[1] /\ Head(p) \in Requests
  OBVIOUS
<1>4. Head(p) = y + 1 /\ y + 1 <= z
  BY <1>1, <1>3 DEF Line
<1>5. /\ e \in Good /\ e.type = "response" /\ e.req = y + 1 /\ e.status = s
  BY <1>3, <1>4, I2cAssumption DEF Event, Good, EventType, Requests, Statuses
<1> HIDE DEF e
<1>6. Run(Append(q, e), "response", x, y + 1)
  BY <1>1, <1>5, RunPush DEF Line
<1>7. Run(Append(q, e), "request", z, Len(k))
  BY <1>1, <1>2, <1>5, RunPush DEF Line
<1>8. Len(Tail(p)) = z - (y + 1)
  BY <1>1, <1>3 DEF Line
<1>9. ASSUME NEW i \in DOMAIN Tail(p) PROVE Tail(p)[i] = (y + 1) + i
  <2>1. i + 1 \in DOMAIN p /\ Tail(p)[i] = p[i + 1]
    BY <1>3
  <2>2. p[i + 1] = y + (i + 1)
    BY <1>1, <2>1 DEF Line
  <2> QED
    BY <1>3, <2>1, <2>2
<1>10. Line(Append(q, e), Tail(p), a, Len(k), x, y + 1, z)
  BY <1>1, <1>4, <1>6, <1>7, <1>8, <1>9 DEF Line
<1>11. Told(Append(q, e), a, k, ended)
  BY <1>1, <1>4, <1>5, Pushed DEF Told
<1>12. Begun(ended, y + 1, {})
  <2>1. \A t \in ended : t[1] \in Int
    BY I2cAssumption DEF Endings, Requests
  <2> QED
    BY <1>1, <1>4, <2>1 DEF Begun
<1>13. y + 1 \in Nat
  OBVIOUS
<1> QED
  BY <1>1, <1>10, <1>11, <1>12, <1>13 DEF Books, e

(* The next request in the queue is parked. *)
LEMMA BooksPark ==
    ASSUME NEW q \in Seq(Good), NEW p \in Seq(Requests), NEW a \in Answers,
           NEW k \in Seq(Kinds), NEW ended \in SUBSET Endings, NEW X,
           Books(q, p, a, k, ended, X),
           q # <<>>, Head(q).type = "request"
    PROVE  Books(Tail(q), Append(p, Head(q).req), a, k, ended, X)
<1> DEFINE r == Head(q).req
           w == Append(p, r)
<1>1. PICK x \in Nat, y \in Nat, z \in Nat :
          /\ Line(q, p, a, Len(k), x, y, z)
          /\ Told(q, a, k, ended) /\ Begun(ended, y, X)
  BY DEF Books
<1>2. Len(k) \in Nat
  OBVIOUS
<1>3. /\ Run(Tail(q), "request", z + 1, Len(k)) /\ r = z + 1 /\ z + 1 <= Len(k)
      /\ Run(Tail(q), "response", x, y)
  BY <1>1, <1>2, RunPop DEF Line
<1>4. r \in Requests
  <2>1. Head(q) \in Good
    BY PopHead
  <2> QED
    BY <2>1 DEF Good
<1>5. /\ Len(p) \in Nat /\ DOMAIN p = 1..Len(p)
      /\ Len(w) = Len(p) + 1 /\ DOMAIN w = 1..(Len(p) + 1)
      /\ \A i \in 1..Len(p) : w[i] = p[i]
      /\ w[Len(p) + 1] = r
  BY <1>4
<1> HIDE DEF r, w
<1>6. Len(w) = (z + 1) - y /\ \A i \in DOMAIN w : w[i] = y + i
  <2>1. Len(p) = z - y /\ \A i \in 1..Len(p) : p[i] = y + i
    BY <1>1, <1>5 DEF Line
  <2>2. Len(w) = (z + 1) - y
    BY <1>5, <2>1
  <2>3. ASSUME NEW i \in 1..(Len(p) + 1) PROVE w[i] = y + i
    <3>1. CASE i \in 1..Len(p)
      BY <1>5, <2>1, <3>1
    <3>2. CASE i = Len(p) + 1
      <4>1. w[i] = z + 1 /\ y + i = z + 1
        BY <1>3, <1>5, <2>1, <3>2
      <4> QED
        BY <4>1
    <3> QED
      BY <1>5, <3>1, <3>2
  <2> QED
    BY <1>5, <2>2, <2>3
<1>7. Line(Tail(q), w, a, Len(k), x, y, z + 1)
  BY <1>1, <1>3, <1>6 DEF Line
<1>8. Told(Tail(q), a, k, ended)
  BY <1>1, Popped DEF Told
<1>9. z + 1 \in Nat
  OBVIOUS
<1> QED
  BY <1>1, <1>7, <1>8, <1>9 DEF Books, r, w

(* A request is made. *)
LEMMA BooksMake ==
    ASSUME NEW q \in Seq(Good), NEW p \in Seq(Requests), NEW a \in Answers,
           NEW k \in Seq(Kinds), NEW ended \in SUBSET Endings, NEW X,
           Books(q, p, a, k, ended, X),
           NEW c \in Kinds, Len(k) < MaxRequests
    PROVE  Books(Append(q, Event("request", Len(k) + 1, "none")), p, a,
                 Append(k, c), ended, X)
<1> DEFINE e == Event("request", Len(k) + 1, "none")
           w == Append(k, c)
<1>1. PICK x \in Nat, y \in Nat, z \in Nat :
          /\ Line(q, p, a, Len(k), x, y, z)
          /\ Told(q, a, k, ended) /\ Begun(ended, y, X)
  BY DEF Books
<1>2. /\ Len(k) \in Nat /\ Len(w) = Len(k) + 1
      /\ \A i \in 1..Len(k) : w[i] = k[i]
  OBVIOUS
<1>3. /\ e \in Good /\ e.type = "request" /\ e.req = Len(k) + 1
  BY <1>2, I2cAssumption DEF Event, Good, EventType, Requests, Statuses
<1> HIDE DEF e, w
<1>4. /\ Run(Append(q, e), "request", z, Len(k) + 1)
      /\ Run(Append(q, e), "response", x, y)
  BY <1>1, <1>2, <1>3, RunPush DEF Line
<1>5. Line(Append(q, e), p, a, Len(w), x, y, z)
  BY <1>1, <1>2, <1>4 DEF Line
<1>6. ASSUME NEW r \in Requests, r <= y PROVE w[r] = k[r]
  <2>1. r \in 1..Len(k)
    BY <1>1, <1>2, <1>6, I2cAssumption DEF Line, Requests
  <2> QED
    BY <1>2, <2>1
<1>7. ASSUME NEW r \in Requests, a[r] # "none"
      PROVE  Truthful(r, a[r], w, ended)
  <2>1. r <= y
    BY <1>1, <1>7, I2cAssumption DEF Line, Requests
  <2>2. Truthful(r, a[r], k, ended)
    BY <1>1, <1>7 DEF Told
  <2> QED
    BY <1>6, <2>1, <2>2 DEF Truthful
<1>8. ASSUME NEW i \in DOMAIN q, q[i].type = "response"
      PROVE  Truthful(q[i].req, q[i].status, w, ended)
  <2>1. q[i].req <= y
    BY <1>1, <1>8 DEF Line, Run
  <2>2. q[i].req \in Requests
    BY <1>8 DEF Good
  <2>3. Truthful(q[i].req, q[i].status, k, ended)
    BY <1>1, <1>8 DEF Told
  <2> QED
    BY <1>6, <2>1, <2>2, <2>3 DEF Truthful
<1>9. Told(Append(q, e), a, w, ended)
  BY <1>3, <1>7, <1>8, Pushed DEF Told
<1> QED
  BY <1>1, <1>5, <1>9 DEF Books, e, w

(* The bus sees more of the first request in the list. *)
LEMMA BooksTransfer ==
    ASSUME NEW q \in Seq(Good), NEW p \in Seq(Requests), NEW a \in Answers,
           NEW k \in Seq(Kinds), NEW ended \in SUBSET Endings, NEW X,
           Books(q, p, a, k, ended, X),
           p # <<>>, X \subseteq {Head(p)},
           NEW more \in SUBSET Endings, ended \subseteq more,
           \A t \in more : t \in ended \/ t[1] = Head(p)
    PROVE  Books(q, p, a, k, more, {Head(p)})
<1>1. PICK x \in Nat, y \in Nat, z \in Nat :
          /\ Line(q, p, a, Len(k), x, y, z)
          /\ Told(q, a, k, ended) /\ Begun(ended, y, X)
  BY DEF Books
<1>2. Head(p) = y + 1
  <2>1. 1 \in DOMAIN p /\ Head(p) = p[1]
    BY Popped
  <2> QED
    BY <1>1, <2>1 DEF Line
<1>3. ASSUME NEW r \in Requests, NEW s, r <= y, Truthful(r, s, k, ended)
      PROVE  Truthful(r, s, k, more)
  <2>1. r # Head(p)
    BY <1>2, <1>3, I2cAssumption DEF Requests
  <2>2. ASSUME NEW op PROVE <<r, op, "ok">> \in ended <=> <<r, op, "ok">> \in more
    BY <2>1
  <2> QED
    BY <1>3, <2>2 DEF Truthful
<1>4. ASSUME NEW r \in Requests, a[r] # "none"
      PROVE  Truthful(r, a[r], k, more)
  <2>1. r <= y
    BY <1>1, <1>4, I2cAssumption DEF Line, Requests
  <2> QED
    BY <1>1, <1>3, <1>4, <2>1 DEF Told
<1>5. ASSUME NEW i \in DOMAIN q, q[i].type = "response"
      PROVE  Truthful(q[i].req, q[i].status, k, more)
  <2>1. q[i].req <= y
    BY <1>1, <1>5 DEF Line, Run
  <2>2. q[i].req \in Requests
    BY <1>5 DEF Good
  <2> QED
    BY <1>1, <1>3, <1>5, <2>1, <2>2 DEF Told
<1>6. Told(q, a, k, more)
  BY <1>4, <1>5 DEF Told
<1>7. Begun(more, y, {Head(p)})
  BY <1>1 DEF Begun
<1> QED
  BY <1>1, <1>6, <1>7 DEF Books

(* The requests in the list have been made. *)
LEMMA BooksMade ==
    ASSUME NEW q, NEW p \in Seq(Requests), NEW a, NEW k \in Seq(Kinds),
           NEW ended, NEW X, Books(q, p, a, k, ended, X), p # <<>>
    PROVE  Head(p) \in 1..Len(k)
<1>1. PICK x \in Nat, y \in Nat, z \in Nat : Line(q, p, a, Len(k), x, y, z)
  BY DEF Books
<1>2. 1 \in DOMAIN p /\ Head(p) = p[1] /\ Len(k) \in Nat /\ Len(p) >= 1
  BY Popped
<1> QED
  BY <1>1, <1>2 DEF Line

(* The bus has seen nothing of a request that was not begun. *)
LEMMA BooksFresh ==
    ASSUME NEW q \in Seq(Good), NEW p \in Seq(Requests), NEW a \in Answers,
           NEW k \in Seq(Kinds), NEW ended \in SUBSET Endings, NEW X,
           Books(q, p, a, k, ended, X),
           p # <<>>, X = {}
    PROVE  /\ k[Head(p)] \in Kinds
           /\ \A op, s : <<Head(p), op, s>> \notin ended
<1>1. PICK x \in Nat, y \in Nat, z \in Nat :
          /\ Line(q, p, a, Len(k), x, y, z) /\ Begun(ended, y, X)
  BY DEF Books
<1>2. Head(p) = y + 1 /\ Head(p) \in 1..Len(k)
  <2>1. 1 \in DOMAIN p /\ Head(p) = p[1] /\ Len(k) \in Nat /\ Len(p) >= 1
    BY Popped
  <2> QED
    BY <1>1, <2>1 DEF Line
<1>3. ASSUME NEW op, NEW s, <<Head(p), op, s>> \in ended PROVE FALSE
  <2>1. <<Head(p), op, s>>[1] = y + 1
    BY <1>2
  <2>2. <<Head(p), op, s>>[1] <= y
    BY <1>1, <1>3 DEF Begun
  <2> QED
    BY <2>1, <2>2
<1> QED
  BY <1>2, <1>3
-----------------------------------------------------------------------------
(* The driver. *)

(* A transfer ends. *)
LEMMA EndedFacts ==
    ASSUME NEW d \in DeviceType, NEW r \in Requests, NEW op \in {"tx", "rx"},
           NEW s \in Statuses
    PROVE  /\ Ended(d, r, op, s) \in DeviceType
           /\ Ended(d, r, op, s).op = "none"
           /\ Ended(d, r, op, s).ended = d.ended \cup {<<r, op, s>>}
<1>1. 0 \in 0..MaxRequests
  BY I2cAssumption
<1>2. <<r, op, s>> \in Endings
  BY DEF Endings
<1> QED
  BY <1>1, <1>2 DEF DeviceType, Ended, Endings

(* A transfer begins, with or without read_on_going. *)
LEMMA DeviceTyped ==
    ASSUME NEW d \in DeviceType, NEW r \in Requests, NEW op \in {"tx", "rx"}
    PROVE  /\ [d EXCEPT !.op = op, !.req = r] \in DeviceType
           /\ [d EXCEPT !.reading = r] \in DeviceType
           /\ [d EXCEPT !.reading = 0] \in DeviceType
           /\ d.ended \in SUBSET Endings
<1>1. r \in 0..MaxRequests /\ 0 \in 0..MaxRequests
  BY I2cAssumption DEF Requests
<1> QED
  BY <1>1 DEF DeviceType, Endings

(* What a call of the driver for a transfer leaves. *)
Called(o, op, r, d) ==
    /\ o.ret \in Statuses \cup {"pending"} /\ o.dev \in DeviceType
    /\ o.ret = "pending" => /\ o.dev.op = op /\ o.dev.req = r
                            /\ o.dev.ended = d.ended
    /\ o.ret # "pending" => /\ o.dev.op = "none"
                            /\ o.dev.ended = d.ended \cup {<<r, op, o.ret>>}

(* transmit_as_controller and receive_as_controller of the driver. *)
LEMMA CallOutcome ==
    ASSUME NEW d \in DeviceType, NEW r \in Requests, NEW op \in {"tx", "rx"},
           NEW o \in CallDriver(op, r, d)
    PROVE  Called(o, op, r, d)
<1> DEFINE armed == IF op = "rx" THEN [d EXCEPT !.reading = r] ELSE d
<1>1. armed \in DeviceType /\ armed.ended = d.ended
  <2>1. [d EXCEPT !.reading = r] \in DeviceType
    BY DeviceTyped
  <2> QED
    BY <2>1 DEF DeviceType
<1>2. \/ o = [ret |-> "pending", dev |-> [armed EXCEPT !.op = op, !.req = r]]
      \/ o = [ret |-> "ok",   dev |-> Ended(d, r, op, "ok")]
      \/ o = [ret |-> "fail", dev |-> Ended(d, r, op, "fail")]
      \/ o = [ret |-> "fail", dev |-> Ended(armed, r, op, "fail")]
  BY DEF CallDriver
<1> HIDE DEF armed
<1>3. CASE o = [ret |-> "pending", dev |-> [armed EXCEPT !.op = op, !.req = r]]
  <2>1. [armed EXCEPT !.op = op, !.req = r] \in DeviceType
    BY <1>1, DeviceTyped
  <2>2. /\ o.dev.op = op /\ o.dev.req = r /\ o.dev.ended = armed.ended
        /\ o.ret = "pending"
    BY <1>1, <1>3 DEF DeviceType
  <2> QED
    BY <1>1, <1>3, <2>1, <2>2 DEF Called
<1>4. ASSUME NEW s \in Statuses, NEW c \in {d, armed},
             o = [ret |-> s, dev |-> Ended(c, r, op, s)]
      PROVE  Called(o, op, r, d)
  <2>1. c \in DeviceType /\ c.ended = d.ended
    BY <1>1
  <2>2. o.ret = s /\ o.dev = Ended(c, r, op, s) /\ s # "pending"
    BY <1>4 DEF Statuses
  <2>3. /\ Ended(c, r, op, s) \in DeviceType
        /\ Ended(c, r, op, s).op = "none"
        /\ Ended(c, r, op, s).ended = c.ended \cup {<<r, op, s>>}
    BY <2>1, EndedFacts
  <2> QED
    BY <2>1, <2>2, <2>3 DEF Called
<1> QED
  BY <1>2, <1>3, <1>4 DEF Statuses

(* How process_request begins request r. *)
Started(o, r, d) ==
    /\ o.ret \in Statuses \cup {"pending"} /\ o.dev \in DeviceType
    /\ o.state \in Busy
    /\ d.ended \subseteq o.dev.ended
    /\ \A t \in o.dev.ended : t \in d.ended \/ t[1] = r
    /\ o.ret = "pending" => o.dev.op = Op(o.state) /\ o.dev.req = r
    /\ o.ret # "pending" => o.dev.op = "none"

(* A request of which the bus has seen nothing. *)
Fresh(r, d) == kind[r] \in Kinds /\ \A op, s : <<r, op, s>> \notin d.ended

(* process_request: the transfer under way is the one the state stands     *)
(* for, or the status returned is that of the transfers.                   *)
LEMMA ProcessOutcome ==
    ASSUME NEW d \in DeviceType, NEW r \in Requests,
           NEW o \in ProcessRequest(r, d)
    PROVE  /\ Started(o, r, d)
           /\ Fresh(r, d) /\ o.ret = "pending" =>
                  /\ Stage(o.state, r, kind, o.dev.ended)
                  /\ \A s \in Statuses : <<r, Op(o.state), s>> \notin o.dev.ended
           /\ Fresh(r, d) /\ o.ret # "pending" =>
                  Truthful(r, o.ret, kind, o.dev.ended)
<1> DEFINE tx == CallDriver("tx", r, d)
<1>1. ASSUME NEW c \in CallDriver("tx", r, d) PROVE Called(c, "tx", r, d)
  BY CallOutcome
<1>2. ASSUME NEW f \in DeviceType, NEW c \in CallDriver("rx", r, f)
      PROVE  Called(c, "rx", r, f)
  BY CallOutcome
<1>3. \/ /\ kind[r] = "tx"
         /\ \E c \in tx : o = [ret |-> c.ret, dev |-> c.dev, state |-> "TX"]
      \/ /\ kind[r] = "rx"
         /\ \E c \in CallDriver("rx", r, d) :
               o = [ret |-> c.ret, dev |-> c.dev, state |-> "RX"]
      \/ /\ kind[r] \notin {"tx", "rx"}
         /\ \E c \in tx : /\ c.ret # "ok"
                          /\ o = [ret |-> c.ret, dev |-> c.dev, state |-> "TX_RX"]
      \/ /\ kind[r] \notin {"tx", "rx"}
         /\ \E b \in tx : \E c \in CallDriver("rx", r, b.dev) :
                /\ b.ret = "ok"
                /\ o = [ret |-> c.ret, dev |-> c.dev, state |-> "RX"]
  BY DEF ProcessRequest
<1>4. CASE /\ kind[r] = "tx"
           /\ \E c \in tx : o = [ret |-> c.ret, dev |-> c.dev, state |-> "TX"]
  <2>1. PICK c \in tx : o = [ret |-> c.ret, dev |-> c.dev, state |-> "TX"]
    BY <1>4
  <2>2. o.ret = c.ret /\ o.dev = c.dev /\ o.state = "TX" /\ Called(c, "tx", r, d)
    BY <1>1, <2>1
  <2>3. Started(o, r, d)
    BY <2>2 DEF Called, Started, Busy, Op, Statuses
  <2>4. ASSUME Fresh(r, d), o.ret = "pending"
        PROVE  /\ Stage(o.state, r, kind, o.dev.ended)
               /\ \A s \in Statuses : <<r, Op(o.state), s>> \notin o.dev.ended
    BY <1>4, <2>2, <2>4 DEF Called, Stage, Op, Fresh
  <2>5. ASSUME Fresh(r, d), o.ret # "pending"
        PROVE  Truthful(r, o.ret, kind, o.dev.ended)
    <3>1. <<r, "tx", "ok">> \in o.dev.ended <=> o.ret = "ok"
      BY <2>2, <2>5 DEF Called, Fresh
    <3> QED
      BY <1>4, <3>1 DEF Truthful, Transfers
  <2> QED
    BY <2>3, <2>4, <2>5
<1>5. CASE /\ kind[r] = "rx"
           /\ \E c \in CallDriver("rx", r, d) :
                 o = [ret |-> c.ret, dev |-> c.dev, state |-> "RX"]
  <2>1. PICK c \in CallDriver("rx", r, d) :
             o = [ret |-> c.ret, dev |-> c.dev, state |-> "RX"]
    BY <1>5
  <2>2. o.ret = c.ret /\ o.dev = c.dev /\ o.state = "RX" /\ Called(c, "rx", r, d)
    BY <1>2, <2>1
  <2>3. Started(o, r, d)
    BY <2>2 DEF Called, Started, Busy, Op, Statuses
  <2>4. ASSUME Fresh(r, d), o.ret = "pending"
        PROVE  /\ Stage(o.state, r, kind, o.dev.ended)
               /\ \A s \in Statuses : <<r, Op(o.state), s>> \notin o.dev.ended
    BY <1>5, <2>2, <2>4 DEF Called, Stage, Op, Fresh
  <2>5. ASSUME Fresh(r, d), o.ret # "pending"
        PROVE  Truthful(r, o.ret, kind, o.dev.ended)
    <3>1. <<r, "rx", "ok">> \in o.dev.ended <=> o.ret = "ok"
      BY <2>2, <2>5 DEF Called, Fresh
    <3> QED
      BY <1>5, <3>1 DEF Truthful, Transfers
  <2> QED
    BY <2>3, <2>4, <2>5
<1>6. CASE /\ kind[r] \notin {"tx", "rx"}
           /\ \E c \in tx : /\ c.ret # "ok"
                            /\ o = [ret |-> c.ret, dev |-> c.dev, state |-> "TX_RX"]
  <2>1. PICK c \in tx : /\ c.ret # "ok"
                        /\ o = [ret |-> c.ret, dev |-> c.dev, state |-> "TX_RX"]
    BY <1>6
  <2>2. /\ o.ret = c.ret /\ o.dev = c.dev /\ o.state = "TX_RX"
        /\ Called(c, "tx", r, d)
    BY <1>1, <2>1
  <2>3. Started(o, r, d)
    BY <2>2 DEF Called, Started, Busy, Op, Statuses
  <2>4. ASSUME Fresh(r, d), o.ret = "pending"
        PROVE  /\ Stage(o.state, r, kind, o.dev.ended)
               /\ \A s \in Statuses : <<r, Op(o.state), s>> \notin o.dev.ended
    BY <1>6, <2>2, <2>4 DEF Called, Stage, Op, Fresh, Kinds
  <2>5. ASSUME Fresh(r, d), o.ret # "pending"
        PROVE  Truthful(r, o.ret, kind, o.dev.ended)
    <3>1. <<r, "tx", "ok">> \notin o.dev.ended
      BY <2>1, <2>2, <2>5 DEF Called, Fresh
    <3> QED
      BY <1>6, <2>1, <2>2, <3>1 DEF Truthful, Transfers
  <2> QED
    BY <2>3, <2>4, <2>5
<1>7. CASE /\ kind[r] \notin {"tx", "rx"}
           /\ \E b \in tx : \E c \in CallDriver("rx", r, b.dev) :
                /\ b.ret = "ok"
                /\ o = [ret |-> c.ret, dev |-> c.dev, state |-> "RX"]
  <2>1. PICK b \in tx : \E c \in CallDriver("rx", r, b.dev) :
                /\ b.ret = "ok"
                /\ o = [ret |-> c.ret, dev |-> c.dev, state |-> "RX"]
    BY <1>7
  <2>2. PICK c \in CallDriver("rx", r, b.dev) :
            /\ b.ret = "ok"
            /\ o = [ret |-> c.ret, dev |-> c.dev, state |-> "RX"]
    BY <2>1
  <2>3. Called(b, "tx", r, d)
    BY <1>1
  <2>4. b.dev \in DeviceType /\ b.dev.ended = d.ended \cup {<<r, "tx", "ok">>}
    BY <2>2, <2>3 DEF Called
  <2>5. o.ret = c.ret /\ o.dev = c.dev /\ o.state = "RX" /\ Called(c, "rx", r, b.dev)
    BY <1>2, <2>2, <2>4
  <2>6. Started(o, r, d)
    BY <2>4, <2>5 DEF Called, Started, Busy, Op, Statuses
  <2>7. ASSUME Fresh(r, d), o.ret = "pending"
        PROVE  /\ Stage(o.state, r, kind, o.dev.ended)
               /\ \A s \in Statuses : <<r, Op(o.state), s>> \notin o.dev.ended
    BY <1>7, <2>4, <2>5, <2>7 DEF Called, Stage, Op, Fresh, Kinds
  <2>8. ASSUME Fresh(r, d), o.ret # "pending"
        PROVE  Truthful(r, o.ret, kind, o.dev.ended)
    <3>1. /\ <<r, "tx", "ok">> \in o.dev.ended
          /\ <<r, "rx", "ok">> \in o.dev.ended <=> o.ret = "ok"
      BY <2>4, <2>5, <2>8 DEF Called, Fresh
    <3> QED
      BY <1>7, <3>1 DEF Truthful, Transfers
  <2> QED
    BY <2>6, <2>7, <2>8
<1> QED
  BY <1>3, <1>4, <1>5, <1>6, <1>7
-----------------------------------------------------------------------------
(* The steps of the HAL. *)

(* What the code puts in the queue. *)
LEMMA EventsGood ==
    /\ \A r \in Requests, s \in Statuses \cup {"panic"} :
           Event("response", r, s) \in Good
    /\ \A r \in Requests : Event("request", r, "none") \in Good
    /\ Event("reload", 0, "none") \in Good
    /\ \A s \in Statuses : Event("completed", 0, s) \in Good
    /\ \A t, r, s : LET e == Event(t, r, s)
                    IN  e.type = t /\ e.req = r /\ e.status = s
<1>1. 0 \in 0..MaxRequests /\ Requests \subseteq 0..MaxRequests
  BY I2cAssumption DEF Requests
<1> QED
  BY <1>1 DEF Event, Good, EventType, Statuses

(* How many completions and reloads a queue holds after a push. *)
LEMMA CountPush ==
    ASSUME NEW q \in Seq(Good), NEW e \in Good
    PROVE  /\ Occurrences(q, Completed) \in Nat /\ Occurrences(q, Reloads) \in Nat
           /\ Occurrences(Append(q, e), Completed)
                = Occurrences(q, Completed) + (IF e.type = "completed" THEN 1 ELSE 0)
           /\ Occurrences(Append(q, e), Reloads)
                = Occurrences(q, Reloads) + (IF e.type = "reload" THEN 1 ELSE 0)
<1>1. /\ e \in Completed <=> e.type = "completed"
      /\ e \in Reloads <=> e.type = "reload"
  BY DEF Completed, Reloads
<1>2. Occurrences(q, Completed) \in Nat /\ Occurrences(q, Reloads) \in Nat
  BY OccurrencesType
<1>3. Occurrences(Append(q, e), Completed)
        = Occurrences(q, Completed) + (IF e \in Completed THEN 1 ELSE 0)
  BY OccurrencesPush
<1>4. Occurrences(Append(q, e), Reloads)
        = Occurrences(q, Reloads) + (IF e \in Reloads THEN 1 ELSE 0)
  BY OccurrencesPush
<1> QED
  BY <1>1, <1>2, <1>3, <1>4

(* After a pop. *)
LEMMA CountPop ==
    ASSUME NEW q \in Seq(Good), q # <<>>
    PROVE  /\ Tail(q) \in Seq(Good) /\ Head(q) \in Good
           /\ Occurrences(Tail(q), Completed) \in Nat
           /\ Occurrences(Tail(q), Reloads) \in Nat
           /\ Occurrences(q, Completed) = Occurrences(Tail(q), Completed)
                + (IF Head(q).type = "completed" THEN 1 ELSE 0)
           /\ Occurrences(q, Reloads) = Occurrences(Tail(q), Reloads)
                + (IF Head(q).type = "reload" THEN 1 ELSE 0)
<1>1. Tail(q) \in Seq(Good) /\ Head(q) \in Good
  BY PopHead
<1>2. /\ Head(q) \in Completed <=> Head(q).type = "completed"
      /\ Head(q) \in Reloads <=> Head(q).type = "reload"
  BY <1>1 DEF Completed, Reloads
<1>3. /\ Occurrences(Tail(q), Completed) \in Nat
      /\ Occurrences(Tail(q), Reloads) \in Nat
  BY <1>1, OccurrencesType
<1>4. Occurrences(q, Completed) = Occurrences(Tail(q), Completed)
        + (IF Head(q) \in Completed THEN 1 ELSE 0)
  BY OccurrencesPop
<1>5. Occurrences(q, Reloads) = Occurrences(Tail(q), Reloads)
        + (IF Head(q) \in Reloads THEN 1 ELSE 0)
  BY OccurrencesPop
<1> QED
  BY <1>1, <1>2, <1>3, <1>4, <1>5

(* A queue that is counted to hold no completion holds none. *)
LEMMA CountNone ==
    ASSUME NEW q \in Seq(Good), Occurrences(q, Completed) = 0
    PROVE  \A i \in DOMAIN q : q[i].type # "completed"
<1>1. \A i \in DOMAIN q : q[i] \in Good /\ q[i] \notin Completed
  BY OccurrencesSome
<1> QED
  BY <1>1 DEF Completed

(* Once the completion of the transfer is in hand, and while none is       *)
(* awaited, the bus is free and no other completion is on the way.         *)
LEMMA Quiet ==
    ASSUME Typed, Flight,
           state \notin Busy \/ Occurrences(event_queue, Completed) >= 1
    PROVE  /\ dev.op = "none" /\ isr_event_queue = <<>>
           /\ Occurrences(event_queue, Completed)
                = IF state \in Busy THEN 1 ELSE 0
<1>1. isr_event_queue \in Seq([type : {"completed"}, req : {0}, status : Statuses])
  BY DEF Typed, TypeOK
<1>2. Len(isr_event_queue) \in Nat /\ Occurrences(event_queue, Completed) \in Nat
  BY <1>1, OccurrencesType DEF Typed
<1>3. dev.op = "none" /\ Len(isr_event_queue) = 0
  BY <1>2 DEF Flight
<1> QED
  BY <1>1, <1>2, <1>3 DEF Flight

(* process_next_request keeps the types. *)
LEMMA NextTyped ==
    ASSUME Typed, NEW q \in Seq(Good), NEW p \in Seq(Requests),
           NEW d \in DeviceType, d.op # "none" => d.req \in Requests,
           ProcessNextRequest(q, p, d),
           UNCHANGED <<isr_event_queue, kind, answer, late, misread>>
    PROVE  Typed'
<1>1. CASE p = <<>>
  <2>1. /\ state' = "IDLE" /\ event_queue' = q /\ parked' = p /\ dev' = d
        /\ UNCHANGED <<request, lost>>
    BY <1>1 DEF ProcessNextRequest
  <2>2. q \in Seq(EventType)
    BY DEF Good
  <2> QED
    BY <2>1, <2>2 DEF Typed, TypeOK, Busy
<1>2. CASE p # <<>>
  <2>1. PICK o \in ProcessRequest(Head(p), d) :
            /\ dev' = o.dev
            /\ IF o.ret = "pending"
                 THEN /\ state' = o.state /\ event_queue' = q /\ parked' = p
                      /\ UNCHANGED lost
                 ELSE /\ parked' = Tail(p)
                      /\ Reload(Append(q, Event("response", Head(p), o.ret)),
                                Tail(p))
    BY <1>2 DEF ProcessNextRequest
  <2>2. request' = Head(p) /\ Head(p) \in Requests /\ Tail(p) \in Seq(Requests)
    BY <1>2, PopHead DEF ProcessNextRequest
  <2>3. Started(o, Head(p), d)
    BY <2>2, ProcessOutcome
  <2>4. /\ dev' \in DeviceType /\ request' \in Requests
        /\ request' \in 0..MaxRequests
        /\ dev'.op # "none" => dev'.req \in Requests
    BY <2>1, <2>2, <2>3, I2cAssumption DEF Started, Requests
  <2>5. /\ event_queue' \in Seq(Good) /\ parked' \in Seq(Requests)
        /\ state' \in {"IDLE", "TX", "RX", "TX_RX", "RELOAD", "PANIC"}
        /\ lost' \in BOOLEAN
    <3>1. CASE o.ret = "pending"
      BY <2>1, <2>3, <3>1 DEF Started, Busy, Typed, TypeOK
    <3>2. CASE o.ret # "pending"
      <4>1. /\ Event("response", Head(p), o.ret) \in Good
            /\ Event("reload", 0, "none") \in Good
        BY <2>2, <2>3, <3>2, EventsGood DEF Started
      <4> DEFINE w == Append(q, Event("response", Head(p), o.ret))
                 f == Event("reload", 0, "none")
      <4>2. w \in Seq(Good) /\ Append(w, f) \in Seq(Good)
        BY <4>1
      <4> HIDE DEF w, f
      <4>3. Reload(w, Tail(p)) /\ parked' = Tail(p)
        BY <2>1, <3>2 DEF w
      <4>4. /\ event_queue' \in {w, Append(w, f)}
            /\ state' \in {"IDLE", "RELOAD", "PANIC"}
            /\ lost' = lost \/ lost' = TRUE
        BY <4>3 DEF Reload, f
      <4>5. lost' \in BOOLEAN
        BY <4>4 DEF Typed, TypeOK
      <4> QED
        BY <2>2, <4>2, <4>3, <4>4, <4>5
    <3> QED
      BY <3>1, <3>2
  <2>6. event_queue' \in Seq(EventType)
    BY <2>5 DEF Good
  <2> QED
    BY <2>4, <2>5, <2>6 DEF Typed, TypeOK
<1> QED
  BY <1>1, <1>2

(* process_next_request, with nothing under way. *)
LEMMA NextTracked ==
    ASSUME Typed, NEW q \in Seq(Good), NEW p \in Seq(Requests),
           NEW d \in DeviceType, d.op = "none", isr_event_queue = <<>>,
           Occurrences(q, Completed) = 0, Occurrences(q, Reloads) = 0,
           Books(q, p, answer, kind, d.ended, {}),
           ProcessNextRequest(q, p, d), ~lost',
           UNCHANGED <<isr_event_queue, kind, answer>>
    PROVE  Tracked'
<1>1. /\ answer \in Answers /\ kind \in Seq(Kinds) /\ Len(isr_event_queue) = 0
      /\ d.ended \in SUBSET Endings /\ DOMAIN isr_event_queue = {}
  BY DEF Typed, TypeOK, Answers, DeviceType, Endings
<1>2. CASE p = <<>>
  <2>1. state' = "IDLE" /\ event_queue' = q /\ parked' = p /\ dev' = d
    BY <1>2 DEF ProcessNextRequest
  <2>2. Flight'
    BY <1>1, <1>2, <2>1 DEF Flight, Busy
  <2>3. InFlight' /\ Begin' = {}
    BY <2>1 DEF InFlight, Busy, Begin
  <2> QED
    BY <2>1, <2>2, <2>3 DEF Tracked
<1>3. CASE p # <<>>
  <2> DEFINE r == Head(p)
  <2>1. PICK o \in ProcessRequest(r, d) :
            /\ dev' = o.dev
            /\ IF o.ret = "pending"
                 THEN /\ state' = o.state /\ event_queue' = q /\ parked' = p
                      /\ UNCHANGED lost
                 ELSE /\ parked' = Tail(p)
                      /\ Reload(Append(q, Event("response", r, o.ret)),
                                Tail(p))
    BY <1>3 DEF ProcessNextRequest
  <2>2. request' = r /\ r \in Requests /\ Tail(p) \in Seq(Requests)
    BY <1>3, PopHead DEF ProcessNextRequest
  <2>3. Fresh(r, d)
    BY <1>1, <1>3, BooksFresh DEF Fresh
  <2>4. /\ Started(o, r, d)
        /\ o.ret = "pending" =>
              /\ Stage(o.state, r, kind, o.dev.ended)
              /\ \A s \in Statuses : <<r, Op(o.state), s>> \notin o.dev.ended
        /\ o.ret # "pending" => Truthful(r, o.ret, kind, o.dev.ended)
    BY <2>2, <2>3, ProcessOutcome
  <2>5. o.dev.ended \in SUBSET Endings
    BY <2>4 DEF Started, DeviceType, Endings
  <2>6. Books(q, p, answer, kind, o.dev.ended, {r})
    BY <1>1, <1>3, <2>4, <2>5, BooksTransfer DEF Started
  <2> HIDE DEF r
  <2>7. CASE o.ret = "pending"
    <3>1. /\ state' = o.state /\ event_queue' = q /\ parked' = p /\ dev' = o.dev
          /\ o.state \in Busy /\ o.dev.op = Op(o.state) /\ o.dev.req = r
      BY <2>1, <2>4, <2>7 DEF Started
    <3>2. Flight'
      BY <1>1, <1>3, <2>2, <3>1 DEF Flight, Busy, Op, r
    <3>3. InFlight'
      <4>1. \A i \in DOMAIN q : q[i].type # "completed"
        BY CountNone
      <4> QED
        BY <1>1, <2>2, <2>4, <2>7, <3>1, <4>1 DEF InFlight
    <3>4. Begin' = {r}
      BY <2>2, <3>1 DEF Begin
    <3> QED
      BY <2>6, <3>1, <3>2, <3>3, <3>4 DEF Tracked
  <2>8. CASE o.ret # "pending"
    <3> DEFINE e == Event("response", r, o.ret)
               w == Append(q, e)
               f == Event("reload", 0, "none")
    <3>1. /\ parked' = Tail(p) /\ dev' = o.dev /\ Reload(w, Tail(p))
          /\ o.dev.op = "none" /\ o.ret \in Statuses
      BY <2>1, <2>4, <2>8 DEF Started
    <3>2. Books(w, Tail(p), answer, kind, o.dev.ended, {})
      BY <1>1, <1>3, <2>4, <2>5, <2>6, <2>8, <3>1, BooksRespond DEF r
    <3>3. /\ e \in Good /\ e.type = "response" /\ f \in Good /\ f.type = "reload"
      BY <2>2, <3>1, EventsGood
    <3>4. /\ w \in Seq(Good) /\ Occurrences(w, Completed) = 0
          /\ Occurrences(w, Reloads) = 0
      BY <3>3, CountPush
    <3> HIDE DEF e, w, f
    <3>5. CASE Tail(p) = <<>>
      <4>1. state' = "IDLE" /\ event_queue' = w
        BY <3>1, <3>5 DEF Reload
      <4>2. Flight'
        BY <1>1, <3>1, <3>4, <3>5, <4>1 DEF Flight, Busy
      <4>3. InFlight' /\ Begin' = {}
        BY <4>1 DEF InFlight, Busy, Begin
      <4> QED
        BY <3>1, <3>2, <4>1, <4>2, <4>3 DEF Tracked
    <3>6. CASE Tail(p) # <<>>
      <4>1. state' = "RELOAD" /\ event_queue' = Append(w, f)
        BY <3>1, <3>6 DEF Reload, f
      <4>2. /\ Occurrences(Append(w, f), Completed) = 0
            /\ Occurrences(Append(w, f), Reloads) = 1
        BY <3>3, <3>4, CountPush
      <4>3. Flight'
        BY <1>1, <3>1, <3>6, <4>1, <4>2 DEF Flight, Busy
      <4>4. InFlight' /\ Begin' = {}
        BY <4>1 DEF InFlight, Busy, Begin
      <4>5. Books(Append(w, f), Tail(p), answer, kind, o.dev.ended, {})
        BY <1>1, <2>2, <2>5, <3>2, <3>3, <3>4, BooksPush
      <4> QED
        BY <3>1, <4>1, <4>3, <4>4, <4>5 DEF Tracked
    <3> QED
      BY <3>5, <3>6
  <2> QED
    BY <2>7, <2>8
<1> QED
  BY <1>2, <1>3

(* Steps after which the device is in PANIC. *)
LEMMA PanicTyped ==
    ASSUME Typed, NEW q \in Seq(Good), NEW d \in DeviceType,
           d.op # "none" => d.req \in Requests, Panic(q, d),
           UNCHANGED <<isr_event_queue, kind, answer, late, misread>>
    PROVE  Typed'
<1>1. q \in Seq(EventType)
  BY DEF Good
<1> QED
  BY <1>1 DEF Panic, Typed, TypeOK, Busy

(* respond_to_caller and process_next_request keep the types. *)
LEMMA RespondTyped ==
    ASSUME Typed, NEW q \in Seq(Good), NEW d \in DeviceType, NEW s \in Statuses,
           d.op # "none" => d.req \in Requests, RespondToCaller(s, q, d),
           UNCHANGED <<isr_event_queue, kind, answer, late, misread>>
    PROVE  Typed'
<1>1. CASE parked = <<>>
  BY <1>1, PanicTyped DEF RespondToCaller
<1>2. CASE parked # <<>>
  <2> DEFINE w == Append(q, Event("response", Head(parked), s))
  <2>1. parked \in Seq(Requests)
    BY DEF Typed, TypeOK
  <2>2. Head(parked) \in Requests /\ Tail(parked) \in Seq(Requests)
    BY <1>2, <2>1, PopHead
  <2>3. Event("response", Head(parked), s) \in Good
    BY <2>2, EventsGood
  <2>4. w \in Seq(Good)
    BY <2>3
  <2>5. ProcessNextRequest(w, Tail(parked), d)
    BY <1>2 DEF RespondToCaller
  <2> HIDE DEF w
  <2> QED
    BY <2>2, <2>4, <2>5, NextTyped
<1> QED
  BY <1>1, <1>2

(* The request at the head of the list is answered with the status of its  *)
(* transfers.                                                              *)
LEMMA RespondTracked ==
    ASSUME Typed, Flight, state \in Busy,
           NEW q \in Seq(Good), NEW d \in DeviceType, NEW s \in Statuses,
           d.op = "none", isr_event_queue = <<>>,
           Occurrences(q, Completed) = 0, Occurrences(q, Reloads) = 0,
           Books(q, parked, answer, kind, d.ended, {request}),
           Truthful(request, s, kind, d.ended),
           RespondToCaller(s, q, d), ~lost',
           UNCHANGED <<isr_event_queue, kind, answer>>
    PROVE  Tracked'
<1> DEFINE e == Event("response", request, s)
           w == Append(q, e)
<1>1. parked # <<>> /\ Head(parked) = request
  BY DEF Flight, Busy
<1>2. /\ parked \in Seq(Requests) /\ answer \in Answers /\ kind \in Seq(Kinds)
      /\ d.ended \in SUBSET Endings
  BY DEF Typed, TypeOK, Answers, DeviceType, Endings
<1>3. Tail(parked) \in Seq(Requests) /\ request \in Requests
  BY <1>1, <1>2, PopHead
<1>4. Books(w, Tail(parked), answer, kind, d.ended, {})
  BY <1>1, <1>2, BooksRespond
<1>5. e \in Good /\ e.type = "response"
  BY <1>3, EventsGood
<1>6. ProcessNextRequest(w, Tail(parked), d)
  BY <1>1 DEF RespondToCaller
<1> HIDE DEF e
<1>7. /\ w \in Seq(Good) /\ Occurrences(w, Completed) = 0
      /\ Occurrences(w, Reloads) = 0
  BY <1>5, CountPush
<1> HIDE DEF w
<1> QED
  BY <1>3, <1>4, <1>6, <1>7, NextTracked

(* The completion of the transfer under way. *)
LEMMA CompletedStep == Inv /\ HandleCompleted => Inv'
<1> SUFFICES ASSUME Inv, HandleCompleted PROVE Inv'
  OBVIOUS
<1> DEFINE h == Head(event_queue)
           q == Tail(event_queue)
           s == h.status
<1>1. /\ Typed /\ event_queue \in Seq(Good) /\ event_queue # <<>>
      /\ h.type = "completed" /\ dev \in DeviceType
      /\ dev.op # "none" => dev.req \in Requests
      /\ ProcessCompleted(s, q)
      /\ UNCHANGED <<isr_event_queue, kind, answer, late, misread>>
  BY DEF Inv, Typed, TypeOK, HandleCompleted, Begins
<1>2. /\ q \in Seq(Good) /\ h \in Good /\ s \in Statuses
      /\ Occurrences(q, Completed) \in Nat /\ Occurrences(q, Reloads) \in Nat
      /\ Occurrences(event_queue, Completed) = Occurrences(q, Completed) + 1
      /\ Occurrences(event_queue, Reloads) = Occurrences(q, Reloads)
  <2>1. h \in Good /\ q \in Seq(Good)
    BY <1>1, CountPop
  <2>2. s \in Statuses
    BY <1>1, <2>1 DEF Good
  <2> QED
    BY <1>1, <2>1, <2>2, CountPop
<1>3. h = event_queue[1] /\ 1 \in DOMAIN event_queue
  BY <1>1, Popped
<1> HIDE DEF h, q
<1>4. lost => lost'
  BY <1>1 DEF ProcessCompleted, RespondToCaller, ProcessNextRequest, Reload, Panic
<1> HIDE DEF s
<1>5. CASE state \in {"TX", "RX"} \/ (state = "TX_RX" /\ s = "fail")
  <2>1. RespondToCaller(s, q, dev)
    BY <1>1, <1>5 DEF ProcessCompleted
  <2>2. Typed'
    BY <1>1, <1>2, <2>1, RespondTyped
  <2>3. ASSUME ~lost' PROVE Tracked'
    <3>1. Flight /\ InFlight /\ state \in Busy
          /\ Books(event_queue, parked, answer, kind, dev.ended, {request})
      BY <1>4, <1>5, <2>3 DEF Inv, Tracked, Busy, Begin
    <3>2. /\ dev.op = "none" /\ isr_event_queue = <<>>
          /\ Occurrences(q, Completed) = 0 /\ Occurrences(q, Reloads) = 0
      <4>1. Occurrences(q, Reloads) = 0
        BY <1>2, <3>1 DEF Flight, Busy
      <4> QED
        BY <1>1, <1>2, <3>1, <4>1, Quiet
    <3>3. Books(q, parked, answer, kind, dev.ended, {request})
      <4>1. /\ parked \in Seq(Requests) /\ answer \in Answers /\ kind \in Seq(Kinds)
            /\ dev.ended \in SUBSET Endings
        BY <1>1 DEF Typed, TypeOK, Answers, DeviceType, Endings
      <4> QED
        BY <1>1, <3>1, <4>1, BooksPop DEF q, h
    <3>4. Truthful(request, s, kind, dev.ended)
      <4>1. /\ Stage(state, request, kind, dev.ended)
            /\ <<request, Op(state), "ok">> \in dev.ended <=> s = "ok"
        BY <1>1, <1>3, <3>1 DEF InFlight, Statuses, s
      <4> QED
        BY <1>5, <4>1 DEF Stage, Truthful, Transfers, Op
    <3> QED
      BY <1>1, <1>2, <2>1, <2>3, <3>1, <3>2, <3>3, <3>4, RespondTracked
  <2> QED
    BY <2>2, <2>3 DEF Inv
<1>6. CASE state = "TX_RX" /\ s = "ok"
  <2>1. PICK o \in CallDriver("rx", request, dev) :
            IF o.ret = "pending"
              THEN /\ state' = "RX" /\ event_queue' = q /\ dev' = o.dev
                   /\ UNCHANGED <<request, parked, lost>>
              ELSE RespondToCaller(o.ret, q, o.dev)
    BY <1>1, <1>6 DEF ProcessCompleted
  <2>2. request \in Requests /\ request \in 0..MaxRequests
    BY <1>1, <1>6 DEF Typed, TypeOK, Busy
  <2>3. Called(o, "rx", request, dev)
    BY <1>1, <2>2, CallOutcome
  <2>4. /\ o.dev \in DeviceType /\ (o.dev.op # "none" => o.dev.req \in Requests)
        /\ o.ret # "pending" => o.ret \in Statuses
    BY <2>2, <2>3 DEF Called
  <2>5. Typed'
    <3>1. CASE o.ret = "pending"
      <4>1. q \in Seq(EventType)
        BY <1>2 DEF Good
      <4>2. /\ state' = "RX" /\ event_queue' = q /\ dev' = o.dev
            /\ UNCHANGED <<request, parked, lost>>
        BY <2>1, <3>1
      <4> QED
        BY <1>1, <1>2, <2>2, <2>4, <4>1, <4>2 DEF Typed, TypeOK
    <3>2. CASE o.ret # "pending"
      BY <1>1, <1>2, <2>1, <2>4, <3>2, RespondTyped
    <3> QED
      BY <3>1, <3>2
  <2>6. ASSUME ~lost' PROVE Tracked'
    <3>1. Flight /\ InFlight /\ state \in Busy
          /\ Books(event_queue, parked, answer, kind, dev.ended, {request})
      BY <1>4, <1>6, <2>6 DEF Inv, Tracked, Busy, Begin
    <3>2. /\ dev.op = "none" /\ isr_event_queue = <<>>
          /\ Occurrences(q, Completed) = 0 /\ Occurrences(q, Reloads) = 0
      <4>1. Occurrences(q, Reloads) = 0
        BY <1>2, <3>1 DEF Flight, Busy
      <4> QED
        BY <1>1, <1>2, <3>1, <4>1, Quiet
    <3>3. /\ parked \in Seq(Requests) /\ answer \in Answers /\ kind \in Seq(Kinds)
          /\ dev.ended \in SUBSET Endings /\ o.dev.ended \in SUBSET Endings
      BY <1>1, <2>4 DEF Typed, TypeOK, Answers, DeviceType, Endings
    <3>4. Books(q, parked, answer, kind, dev.ended, {request})
      BY <1>1, <3>1, <3>3, BooksPop DEF q, h
    <3>5. parked # <<>> /\ Head(parked) = request
      BY <3>1, <1>6 DEF Flight
    <3>6. Books(q, parked, answer, kind, o.dev.ended, {request})
      <4>1. /\ dev.ended \subseteq o.dev.ended
            /\ \A t \in o.dev.ended : t \in dev.ended \/ t[1] = request
        BY <2>3 DEF Called
      <4> QED
        BY <1>2, <3>3, <3>4, <3>5, <4>1, BooksTransfer
    <3>7. /\ kind[request] = "tx_rx"
          /\ <<request, "tx", "ok">> \in dev.ended
          /\ \A c \in Statuses : <<request, "rx", c>> \notin dev.ended
      BY <1>1, <1>3, <1>6, <3>1 DEF InFlight, Stage, Op, Statuses, s
    <3>8. CASE o.ret = "pending"
      <4>1. /\ state' = "RX" /\ event_queue' = q /\ dev' = o.dev
            /\ UNCHANGED <<request, parked, lost>>
        BY <2>1, <3>8
      <4>2. /\ o.dev.op = "rx" /\ o.dev.req = request /\ o.dev.ended = dev.ended
        BY <2>3, <3>8 DEF Called
      <4>3. Flight'
        BY <1>1, <3>2, <3>5, <4>1, <4>2 DEF Flight, Busy
      <4>4. InFlight'
        <5>1. \A i \in DOMAIN q : q[i].type # "completed"
          BY <1>2, <3>2, CountNone
        <5>2. DOMAIN isr_event_queue' = {}
          BY <1>1, <3>2
        <5>3. Stage("RX", request, kind, dev.ended)
          BY <3>7 DEF Stage
        <5> QED
          BY <1>1, <3>7, <4>1, <4>2, <5>1, <5>2, <5>3 DEF InFlight, Op
      <4>5. Begin' = {request}
        BY <4>1 DEF Begin, Busy
      <4> QED
        BY <1>1, <3>6, <4>1, <4>3, <4>4, <4>5 DEF Tracked
    <3>9. CASE o.ret # "pending"
      <4>1. /\ o.dev.op = "none"
            /\ o.dev.ended = dev.ended \cup {<<request, "rx", o.ret>>}
        BY <2>3, <3>9 DEF Called
      <4>2. Truthful(request, o.ret, kind, o.dev.ended)
        <5>1. /\ <<request, "tx", "ok">> \in o.dev.ended
              /\ <<request, "rx", "ok">> \in o.dev.ended <=> o.ret = "ok"
          BY <3>7, <4>1 DEF Statuses
        <5> QED
          BY <3>7, <5>1 DEF Truthful, Transfers
      <4>3. RespondToCaller(o.ret, q, o.dev)
        BY <2>1, <3>9
      <4> QED
        BY <1>1, <1>2, <2>4, <2>6, <3>1, <3>2, <3>6, <3>9, <4>1, <4>2, <4>3,
           RespondTracked
    <3> QED
      BY <3>8, <3>9
  <2> QED
    BY <2>5, <2>6 DEF Inv
<1>7. CASE state \notin Busy
  <2>1. Panic(q, dev)
    BY <1>1, <1>7 DEF ProcessCompleted, Busy
  <2>2. Typed'
    BY <1>1, <1>2, <2>1, PanicTyped
  <2>3. lost
    <3>1. ASSUME ~lost PROVE FALSE
      <4>1. Flight
        BY <3>1 DEF Inv, Tracked
      <4> QED
        BY <1>1, <1>2, <1>7, <4>1, Quiet
    <3> QED
      BY <3>1
  <2> QED
    BY <1>4, <2>2, <2>3 DEF Inv
<1> QED
  BY <1>2, <1>5, <1>6, <1>7 DEF Busy, Statuses

(* A step that keeps what the types are about. *)
LEMMA QueueTyped ==
    ASSUME Typed, event_queue' \in Seq(Good), parked' \in Seq(Requests),
           lost' \in {lost, TRUE},
           UNCHANGED <<state, request, isr_event_queue, kind, answer, dev, late,
                     misread>>
    PROVE  Typed'
<1>1. event_queue' \in Seq(EventType)
  BY DEF Good
<1>2. lost' \in BOOLEAN
  BY DEF Typed, TypeOK
<1> QED
  BY <1>1, <1>2 DEF Typed, TypeOK

(* A handler's answer and the parking of its response. *)
LEMMA RespondOrPark ==
    ASSUME Typed, event_queue # <<>>, NEW r \in Requests
    PROVE  /\ \A s \in Statuses \cup {"panic"} : RespondNow(r, s) =>
                  event_queue' \in Seq(Good) /\ lost' \in {lost, TRUE}
           /\ Park(r) => /\ event_queue' \in Seq(Good) /\ lost' \in {lost, TRUE}
                         /\ parked' \in Seq(Requests)
<1>1. event_queue \in Seq(Good) /\ parked \in Seq(Requests)
  BY DEF Typed, TypeOK
<1>2. Tail(event_queue) \in Seq(Good)
  BY <1>1, PopHead
<1>3. ASSUME NEW s \in Statuses \cup {"panic"}, RespondNow(r, s)
      PROVE  event_queue' \in Seq(Good) /\ lost' \in {lost, TRUE}
  <2>1. Append(Tail(event_queue), Event("response", r, s)) \in Seq(Good)
    BY <1>2, EventsGood
  <2> QED
    BY <1>2, <1>3, <2>1 DEF RespondNow
<1>4. ASSUME Park(r)
      PROVE  /\ event_queue' \in Seq(Good) /\ lost' \in {lost, TRUE}
             /\ parked' \in Seq(Requests)
  <2>1. Append(parked, r) \in Seq(Requests)
    BY <1>1
  <2>2. event_queue' = Tail(event_queue) /\ lost' \in {lost, TRUE}
    BY <1>4 DEF Park
  <2>3. parked' \in {parked, Append(parked, r)}
    BY <1>4 DEF Park
  <2> QED
    BY <1>1, <1>2, <2>1, <2>2, <2>3
<1> QED
  BY <1>3, <1>4

(* A request is begun, parked or refused. *)
LEMMA RequestStep == Inv /\ HandleRequest => Inv'
<1> SUFFICES ASSUME Inv, HandleRequest PROVE Inv'
  OBVIOUS
<1> DEFINE h == Head(event_queue)
           q == Tail(event_queue)
           r == h.req
<1>1. /\ Typed /\ event_queue \in Seq(Good) /\ event_queue # <<>>
      /\ h.type = "request" /\ dev \in DeviceType
      /\ ProcessRequestEvent(r)
      /\ UNCHANGED <<isr_event_queue, kind, answer, late, misread>>
  BY DEF Inv, Typed, TypeOK, HandleRequest, Begins
<1>2. /\ q \in Seq(Good) /\ h \in Good
      /\ Occurrences(event_queue, Completed) = Occurrences(q, Completed)
      /\ Occurrences(event_queue, Reloads) = Occurrences(q, Reloads)
  BY <1>1, CountPop
<1>3. r \in Requests /\ r \in 0..MaxRequests
  BY <1>1, <1>2 DEF Good, EventType
<1>4. /\ parked \in Seq(Requests) /\ answer \in Answers /\ kind \in Seq(Kinds)
      /\ dev.ended \in SUBSET Endings
  BY <1>1 DEF Typed, TypeOK, Answers, DeviceType, Endings
<1>5. ASSUME NEW X, Books(event_queue, parked, answer, kind, dev.ended, X)
      PROVE  Books(q, Append(parked, r), answer, kind, dev.ended, X)
  BY <1>1, <1>4, <1>5, BooksPark
<1>6. ASSUME NEW i \in DOMAIN q
      PROVE  \E j \in DOMAIN event_queue : q[i] = event_queue[j]
  BY <1>1, Popped
<1> HIDE DEF h, r
<1>7. CASE state = "PANIC"
  <2>1. /\ RespondNow(r, "panic")
        /\ UNCHANGED <<state, request, parked, dev>>
    BY <1>1, <1>7 DEF ProcessRequestEvent
  <2>2. lost
    BY <1>7 DEF Inv, Tracked, Flight
  <2>3. event_queue' \in Seq(Good) /\ lost' \in {lost, TRUE}
    BY <1>1, <1>3, <2>1, RespondOrPark
  <2>4. Typed'
    BY <1>1, <1>4, <2>1, <2>3, QueueTyped
  <2> QED
    BY <2>2, <2>3, <2>4 DEF Inv
<1>8. CASE state = "IDLE"
  <2>1. PICK o \in ProcessRequest(r, dev) :
            /\ request' = r
            /\ dev' = o.dev
            /\ IF o.ret = "pending"
                 THEN state' = o.state /\ Park(r)
                 ELSE state' = "IDLE" /\ RespondNow(r, o.ret)
                      /\ UNCHANGED parked
    BY <1>1, <1>8 DEF ProcessRequestEvent
  <2>2. Started(o, r, dev)
    BY <1>1, <1>3, ProcessOutcome
  <2>3. Typed' /\ lost' \in {lost, TRUE}
    <3>1. /\ dev' \in DeviceType /\ request' \in Requests
          /\ request' \in 0..MaxRequests
          /\ dev'.op # "none" => dev'.req \in Requests
      BY <1>3, <2>1, <2>2 DEF Started
    <3>2. /\ event_queue' \in Seq(Good) /\ lost' \in {lost, TRUE}
          /\ parked' \in Seq(Requests)
          /\ state' \in {"IDLE", "TX", "RX", "TX_RX", "RELOAD", "PANIC"}
      <4>1. CASE o.ret = "pending"
        BY <1>1, <1>3, <2>1, <2>2, <4>1, RespondOrPark DEF Started, Busy
      <4>2. CASE o.ret # "pending"
        <5>1. o.ret \in Statuses
          BY <2>2, <4>2 DEF Started
        <5> QED
          BY <1>1, <1>3, <1>4, <2>1, <4>2, <5>1, RespondOrPark
      <4> QED
        BY <4>1, <4>2
    <3>3. event_queue' \in Seq(EventType)
      BY <3>2 DEF Good
    <3>4. lost' \in BOOLEAN
      BY <1>1, <3>2 DEF Typed, TypeOK
    <3> QED
      BY <1>1, <3>1, <3>2, <3>3, <3>4 DEF Typed, TypeOK
  <2>4. ASSUME ~lost' PROVE Tracked'
    <3>1. Tracked
      <4>1. lost' = lost \/ lost'
        BY <2>3
      <4> QED
        BY <2>4, <4>1 DEF Inv
    <3>2. parked = <<>>
      BY <1>8, <3>1 DEF Tracked, Flight
    <3>3. /\ Append(parked, r) = <<r>> /\ <<r>> \in Seq(Requests) /\ <<r>> # <<>>
          /\ Head(<<r>>) = r /\ Tail(<<r>>) = <<>>
      BY <1>3, <3>2
    <3>4. Books(q, <<r>>, answer, kind, dev.ended, {})
      BY <1>5, <1>8, <3>1, <3>3 DEF Tracked, Begin, Busy
    <3>5. /\ dev.op = "none" /\ isr_event_queue = <<>>
          /\ Occurrences(q, Completed) = 0 /\ Occurrences(q, Reloads) = 0
      <4>1. Flight /\ state \notin Busy
        BY <1>8, <3>1 DEF Tracked, Busy
      <4>2. Occurrences(q, Reloads) = 0
        BY <1>2, <1>8, <4>1 DEF Flight
      <4> QED
        BY <1>1, <1>2, <4>1, <4>2, Quiet
    <3>6. ProcessNextRequest(q, <<r>>, dev)
      <4>1. CASE o.ret = "pending"
        <5>1. event_queue' = q /\ parked' = <<r>> /\ lost' = lost
          BY <2>1, <2>4, <3>3, <4>1 DEF Park
        <5> QED
          BY <2>1, <3>3, <4>1, <5>1 DEF ProcessNextRequest
      <4>2. CASE o.ret # "pending"
        <5>1. /\ event_queue' = Append(q, Event("response", r, o.ret))
              /\ lost' = lost /\ parked' = <<>> /\ state' = "IDLE"
          BY <2>1, <2>4, <3>2, <4>2 DEF RespondNow
        <5>2. Reload(Append(q, Event("response", r, o.ret)), <<>>)
          BY <5>1 DEF Reload
        <5> QED
          BY <2>1, <3>3, <4>2, <5>1, <5>2 DEF ProcessNextRequest
      <4> QED
        BY <4>1, <4>2
    <3> HIDE DEF q
    <3> QED
      BY <1>1, <1>2, <2>4, <3>3, <3>4, <3>5, <3>6, NextTracked
  <2> QED
    BY <2>3, <2>4 DEF Inv
<1>9. CASE state \notin {"PANIC", "IDLE"}
  <2>1. Park(r) /\ UNCHANGED <<state, request, dev>>
    BY <1>1, <1>9 DEF ProcessRequestEvent
  <2>2. /\ event_queue' \in Seq(Good) /\ lost' \in {lost, TRUE}
        /\ parked' \in Seq(Requests)
    BY <1>1, <1>3, <2>1, RespondOrPark
  <2>3. Typed'
    BY <1>1, <2>1, <2>2, QueueTyped
  <2>4. ASSUME ~lost' PROVE Tracked'
    <3>1. Tracked /\ event_queue' = q /\ parked' = Append(parked, r)
      BY <2>1, <2>2, <2>4 DEF Inv, Park
    <3>2. parked # <<>>
      BY <1>9, <3>1 DEF Tracked, Flight
    <3>3. Head(Append(parked, r)) = Head(parked) /\ Append(parked, r) # <<>>
      BY <1>3, <1>4, <3>2
    <3>4. Flight'
      BY <1>1, <1>2, <1>9, <2>1, <3>1, <3>3 DEF Tracked, Flight
    <3>5. InFlight'
      <4>1. InFlight
        BY <3>1 DEF Tracked
      <4> QED
        BY <1>1, <1>6, <2>1, <3>1, <4>1 DEF InFlight
    <3>6. Begin' = Begin
      BY <2>1 DEF Begin
    <3> QED
      BY <1>1, <1>5, <2>1, <3>1, <3>4, <3>5, <3>6 DEF Tracked
  <2> QED
    BY <2>3, <2>4 DEF Inv
<1> QED
  BY <1>7, <1>8, <1>9

(* The next request is begun. *)
LEMMA ReloadStep == Inv /\ HandleReload => Inv'
<1> SUFFICES ASSUME Inv, HandleReload PROVE Inv'
  OBVIOUS
<1> DEFINE h == Head(event_queue)
           q == Tail(event_queue)
<1>1. /\ Typed /\ event_queue \in Seq(Good) /\ event_queue # <<>>
      /\ h.type = "reload" /\ dev \in DeviceType
      /\ dev.op # "none" => dev.req \in Requests
      /\ parked \in Seq(Requests)
      /\ ProcessNextRequest(q, parked, dev)
      /\ UNCHANGED <<isr_event_queue, kind, answer, late, misread>>
  BY DEF Inv, Typed, TypeOK, HandleReload, Begins
<1>2. /\ q \in Seq(Good)
      /\ Occurrences(q, Completed) \in Nat /\ Occurrences(q, Reloads) \in Nat
      /\ Occurrences(event_queue, Completed) = Occurrences(q, Completed)
      /\ Occurrences(event_queue, Reloads) = Occurrences(q, Reloads) + 1
  BY <1>1, CountPop
<1>3. Typed'
  BY <1>1, <1>2, NextTyped
<1>4. ASSUME ~lost' PROVE Tracked'
  <2>1. ~lost /\ Tracked
    BY <1>1, <1>4 DEF Inv, ProcessNextRequest, Reload
  <2>2. state = "RELOAD" /\ Occurrences(q, Reloads) = 0
    BY <1>2, <2>1 DEF Tracked, Flight
  <2>3. /\ dev.op = "none" /\ isr_event_queue = <<>>
        /\ Occurrences(q, Completed) = 0
    <3>1. Flight /\ state \notin Busy
      BY <2>1, <2>2 DEF Tracked, Busy
    <3> QED
      BY <1>1, <1>2, <3>1, Quiet
  <2>4. Books(q, parked, answer, kind, dev.ended, {})
    <3>1. answer \in Answers /\ kind \in Seq(Kinds) /\ dev.ended \in SUBSET Endings
      BY <1>1 DEF Typed, TypeOK, Answers, DeviceType, Endings
    <3>2. Books(event_queue, parked, answer, kind, dev.ended, {})
      BY <2>1, <2>2 DEF Tracked, Begin, Busy
    <3> QED
      BY <1>1, <3>1, <3>2, BooksPop
  <2> QED
    BY <1>1, <1>2, <1>4, <2>2, <2>3, <2>4, NextTracked
<1> QED
  BY <1>3, <1>4 DEF Inv

(* A caller is told. *)
LEMMA ResponseStep == Inv /\ HandleResponse => Inv'
<1> SUFFICES ASSUME Inv, HandleResponse PROVE Inv'
  OBVIOUS
<1> DEFINE h == Head(event_queue)
           q == Tail(event_queue)
<1>1. /\ Typed /\ event_queue \in Seq(Good) /\ event_queue # <<>>
      /\ h.type = "response"
      /\ answer' = [answer EXCEPT ![h.req] = h.status] /\ event_queue' = q
      /\ UNCHANGED <<state, request, isr_event_queue, parked, kind, dev, late,
                     misread, lost>>
  BY DEF Inv, Typed, TypeOK, HandleResponse, Begins
<1>2. /\ q \in Seq(Good) /\ h \in Good
      /\ Occurrences(event_queue, Completed) = Occurrences(q, Completed)
      /\ Occurrences(event_queue, Reloads) = Occurrences(q, Reloads)
  BY <1>1, CountPop
<1>3. ASSUME NEW i \in DOMAIN q
      PROVE  \E j \in DOMAIN event_queue : q[i] = event_queue[j]
  BY <1>1, Popped
<1>4. Typed'
  <2>1. q \in Seq(EventType) /\ h \in EventType
    BY <1>2 DEF Good
  <2>2. answer' \in [Requests -> {"none", "ok", "fail", "panic"}]
    BY <1>1, <2>1 DEF Typed, TypeOK, EventType
  <2> QED
    BY <1>1, <1>2, <2>1, <2>2 DEF Typed, TypeOK
<1>5. ASSUME ~lost' PROVE Tracked'
  <2>1. Tracked
    BY <1>1, <1>5 DEF Inv
  <2>2. Flight'
    BY <1>1, <1>2, <2>1 DEF Tracked, Flight
  <2>3. InFlight'
    <3>1. InFlight
      BY <2>1 DEF Tracked
    <3> QED
      BY <1>1, <1>3, <3>1 DEF InFlight
  <2>4. Begin' = Begin
    BY <1>1 DEF Begin
  <2>5. Books(q, parked, [answer EXCEPT ![h.req] = h.status], kind, dev.ended,
              Begin)
    <3>1. /\ parked \in Seq(Requests) /\ answer \in Answers
          /\ kind \in Seq(Kinds) /\ dev.ended \in SUBSET Endings
      BY <1>1 DEF Typed, TypeOK, Answers, DeviceType, Endings
    <3> QED
      BY <1>1, <2>1, <3>1, BooksAnswer DEF Tracked
  <2> QED
    BY <1>1, <2>2, <2>3, <2>4, <2>5 DEF Tracked
<1> QED
  BY <1>4, <1>5 DEF Inv
-----------------------------------------------------------------------------
(* The other steps. *)

(* The framework takes a completion from the ISR queue. *)
LEMMA IsrStep == Inv /\ ProcessIsr => Inv'
<1> SUFFICES ASSUME Inv, ProcessIsr PROVE Inv'
  OBVIOUS
<1> DEFINE T == [type : {"completed"}, req : {0}, status : Statuses]
           h == Head(isr_event_queue)
           w == Tail(isr_event_queue)
<1>1. /\ Typed /\ isr_event_queue \in Seq(T) /\ isr_event_queue # <<>>
      /\ event_queue = <<>> /\ event_queue' = <<h>> /\ isr_event_queue' = w
      /\ UNCHANGED <<state, request, parked, kind, answer, dev, late,
                     misread, lost>>
  BY DEF Inv, Typed, TypeOK, ProcessIsr
<1> HIDE DEF T
<1>2. /\ h \in T /\ w \in Seq(T) /\ Len(isr_event_queue) \in Nat
      /\ Len(w) = Len(isr_event_queue) - 1
      /\ DOMAIN isr_event_queue = 1..Len(isr_event_queue)
      /\ DOMAIN w = 1..(Len(isr_event_queue) - 1)
      /\ \A i \in 1..(Len(isr_event_queue) - 1) : w[i] = isr_event_queue[i + 1]
      /\ h = isr_event_queue[1] /\ Len(isr_event_queue) >= 1
  BY <1>1
<1>3. h \in Good /\ h.type = "completed" /\ h.status \in Statuses
  <2>1. 0 \in 0..MaxRequests
    BY I2cAssumption
  <2> QED
    BY <1>2, <2>1 DEF Good, EventType, Statuses, T
<1> HIDE DEF h, w
<1>4. /\ <<h>> = Append(<<>>, h) /\ <<>> \in Seq(Good) /\ <<h>> \in Seq(Good)
      /\ DOMAIN <<h>> = {1} /\ <<h>>[1] = h
  BY <1>3
<1>5. Typed'
  <2>1. <<h>> \in Seq(EventType)
    BY <1>3 DEF Good
  <2> QED
    BY <1>1, <1>2, <1>4, <2>1 DEF Typed, TypeOK, T
<1>6. ASSUME ~lost' PROVE Tracked'
  <2>1. Tracked
    BY <1>1, <1>6 DEF Inv
  <2>2. /\ Occurrences(<<>>, Completed) = 0 /\ Occurrences(<<>>, Reloads) = 0
        /\ Occurrences(<<h>>, Completed) = 1 /\ Occurrences(<<h>>, Reloads) = 0
    <3>1. Occurrences(<<>>, Completed) = 0 /\ Occurrences(<<>>, Reloads) = 0
      BY OccurrencesEmpty
    <3>2. /\ Occurrences(Append(<<>>, h), Completed)
               = Occurrences(<<>>, Completed) + 1
          /\ Occurrences(Append(<<>>, h), Reloads) = Occurrences(<<>>, Reloads) + 0
      BY <1>3, <1>4, CountPush
    <3> QED
      BY <1>4, <3>1, <3>2
  <2>3. Flight'
    BY <1>1, <1>2, <2>1, <2>2 DEF Tracked, Flight
  <2>4. InFlight'
    <3>1. InFlight
      BY <2>1 DEF Tracked
    <3>2. 1 \in DOMAIN isr_event_queue
      BY <1>2
    <3>3. \A i \in DOMAIN w :
              \E j \in DOMAIN isr_event_queue : w[i] = isr_event_queue[j]
      BY <1>2
    <3> QED
      BY <1>1, <1>2, <1>4, <3>1, <3>2, <3>3 DEF InFlight
  <2>5. Begin' = Begin
    BY <1>1 DEF Begin
  <2>6. Books(<<h>>, parked, answer, kind, dev.ended, Begin)
    <3>1. /\ parked \in Seq(Requests) /\ answer \in Answers
          /\ kind \in Seq(Kinds) /\ dev.ended \in SUBSET Endings
      BY <1>1 DEF Typed, TypeOK, Answers, DeviceType, Endings
    <3>2. Books(<<>>, parked, answer, kind, dev.ended, Begin)
      BY <1>1, <2>1 DEF Tracked
    <3> QED
      BY <1>3, <1>4, <3>1, <3>2, BooksPush
  <2> QED
    BY <1>1, <2>3, <2>4, <2>5, <2>6 DEF Tracked
<1> QED
  BY <1>5, <1>6 DEF Inv

(* The transfer on the bus ends. *)
LEMMA I2cIsrStep == ASSUME NEW s \in Statuses PROVE Inv /\ I2cIsr(s) => Inv'
<1> SUFFICES ASSUME Inv, I2cIsr(s) PROVE Inv'
  OBVIOUS
<1> DEFINE T == [type : {"completed"}, req : {0}, status : Statuses]
           e == Event("completed", 0, s)
           f == Ended(dev, dev.req, dev.op, s)
           rd == IF s = "ok" THEN 0 ELSE f.reading
           g == [f EXCEPT !.reading = rd]
<1>1. /\ Typed /\ isr_event_queue \in Seq(T) /\ dev \in DeviceType
      /\ dev.op \in {"tx", "rx"} /\ dev.req \in Requests
      /\ UNCHANGED <<state, request, event_queue, parked, kind, answer>>
      /\ \/ isr_event_queue' = Append(isr_event_queue, e) /\ lost' = lost
         \/ isr_event_queue' = isr_event_queue /\ lost' = TRUE
  BY DEF Inv, Typed, TypeOK, I2cIsr, DeviceType
<1>2. dev' = g
  BY DEF I2cIsr
<1>3. late' \in BOOLEAN /\ misread' \subseteq Requests
  BY <1>1 DEF I2cIsr, Typed, TypeOK
<1>4. /\ f \in DeviceType /\ f.op = "none"
      /\ f.ended = dev.ended \cup {<<dev.req, dev.op, s>>}
  BY <1>1, EndedFacts
<1> HIDE DEF f
<1>5. g \in DeviceType /\ g.op = "none" /\ g.ended = f.ended
  <2>1. rd \in 0..MaxRequests
    BY <1>4, I2cAssumption DEF DeviceType
  <2> HIDE DEF rd
  <2> QED
    BY <1>4, <2>1 DEF DeviceType
<1>6. e \in T /\ e.status = s
  BY DEF Event
<1> HIDE DEF g, e
<1>7. Append(isr_event_queue, e) \in Seq(T)
  BY <1>1, <1>6
<1>8. Typed'
  <2>1. isr_event_queue' \in Seq(T)
    BY <1>1, <1>7
  <2>2. lost' \in BOOLEAN
    BY <1>1 DEF Typed, TypeOK
  <2> QED
    BY <1>1, <1>2, <1>3, <1>5, <2>1, <2>2 DEF Typed, TypeOK
<1>9. ASSUME ~lost' PROVE Tracked'
  <2>1. Tracked /\ isr_event_queue' = Append(isr_event_queue, e)
    BY <1>1, <1>9 DEF Inv
  <2>2. Len(isr_event_queue) \in Nat /\ Occurrences(event_queue, Completed) \in Nat
    BY <1>1, OccurrencesType DEF Typed
  <2>3. /\ state \in Busy /\ Len(isr_event_queue) = 0
        /\ Occurrences(event_queue, Completed) = 0
    BY <1>1, <2>1, <2>2 DEF Tracked, Flight
  <2>4. /\ isr_event_queue' = <<e>>
        /\ Len(<<e>>) = 1 /\ DOMAIN <<e>> = {1} /\ <<e>>[1] = e
    <3>1. isr_event_queue = <<>>
      BY <1>1, <2>3
    <3> QED
      BY <2>1, <3>1
  <2>5. dev.req = request /\ parked # <<>> /\ Head(parked) = request
    BY <1>1, <2>1, <2>3 DEF Tracked, Flight, Busy
  <2>6. Flight'
    BY <1>1, <1>2, <1>5, <2>1, <2>3, <2>4 DEF Tracked, Flight
  <2>7. /\ dev.op = Op(state) /\ Stage(state, request, kind, dev.ended)
        /\ \A c \in Statuses : <<request, Op(state), c>> \notin dev.ended
    BY <1>1, <2>1, <2>3 DEF Tracked, InFlight
  <2>8. g.ended = dev.ended \cup {<<request, Op(state), s>>}
    BY <1>4, <1>5, <2>5, <2>7
  <2>9. InFlight'
    <3>1. Stage(state, request, kind, g.ended)
      BY <2>7, <2>8 DEF Stage, Op
    <3>2. \A c \in Statuses : <<request, Op(state), c>> \in g.ended <=> c = s
      BY <2>7, <2>8
    <3>3. \A i \in DOMAIN event_queue : event_queue[i].type # "completed"
      BY <1>1, <2>3, CountNone DEF Typed
    <3> QED
      BY <1>1, <1>2, <1>5, <1>6, <2>4, <3>1, <3>2, <3>3 DEF InFlight
  <2>10. Begin = {request} /\ Begin' = {request}
    BY <1>1, <2>3 DEF Begin
  <2>11. Books(event_queue, parked, answer, kind, g.ended, {request})
    <3>1. /\ parked \in Seq(Requests) /\ answer \in Answers
          /\ kind \in Seq(Kinds) /\ dev.ended \in SUBSET Endings
          /\ g.ended \in SUBSET Endings /\ event_queue \in Seq(Good)
      BY <1>1, <1>5 DEF Typed, TypeOK, Answers, DeviceType, Endings
    <3>2. Books(event_queue, parked, answer, kind, dev.ended, {request})
      BY <2>1, <2>10 DEF Tracked
    <3>3. /\ dev.ended \subseteq g.ended
          /\ \A t \in g.ended : t \in dev.ended \/ t[1] = request
      BY <2>8
    <3> QED
      BY <2>5, <3>1, <3>2, <3>3, BooksTransfer
  <2> QED
    BY <1>1, <1>2, <2>6, <2>9, <2>10, <2>11 DEF Tracked
<1> QED
  BY <1>8, <1>9 DEF Inv

(* A request is made. *)
LEMMA CreateStep ==
    ASSUME NEW k \in Kinds PROVE Inv /\ CreateI2cRequest(k) => Inv'
<1> SUFFICES ASSUME Inv, CreateI2cRequest(k) PROVE Inv'
  OBVIOUS
<1> DEFINE n == Len(kind) + 1
           e == Event("request", n, "none")
           w == Append(kind, k)
<1>1. /\ Typed /\ Len(kind) < MaxRequests /\ kind \in Seq(Kinds)
      /\ event_queue \in Seq(Good) /\ kind' = w
      /\ event_queue' = Append(event_queue, Event("request", Len(kind'), "none"))
      /\ UNCHANGED <<state, request, isr_event_queue, parked, answer, dev, late,
                     misread, lost>>
  BY DEF Inv, Typed, TypeOK, CreateI2cRequest
<1>2. /\ Len(kind) \in Nat /\ w \in Seq(Kinds) /\ Len(w) = n
      /\ \A i \in 1..Len(kind) : w[i] = kind[i]
  BY <1>1
<1>3. n \in Requests /\ n <= MaxRequests
  BY <1>1, <1>2, I2cAssumption DEF Requests
<1>4. e \in Good /\ e.type = "request"
  BY <1>3, EventsGood
<1>5. event_queue' = Append(event_queue, e)
  BY <1>1, <1>2
<1>6. Typed'
  <2>1. Append(event_queue, e) \in Seq(Good)
    BY <1>1, <1>4
  <2>2. Append(event_queue, e) \in Seq(EventType)
    BY <2>1 DEF Good
  <2> HIDE DEF e, w, n
  <2> QED
    BY <1>1, <1>2, <1>3, <1>5, <2>1, <2>2 DEF Typed, TypeOK
<1>7. ASSUME ~lost' PROVE Tracked'
  <2>1. Tracked
    BY <1>1, <1>7 DEF Inv
  <2>2. Books(Append(event_queue, e), parked, answer, w, dev.ended, Begin)
    <3>1. /\ parked \in Seq(Requests) /\ answer \in Answers
          /\ dev.ended \in SUBSET Endings
      BY <1>1 DEF Typed, TypeOK, Answers, DeviceType, Endings
    <3> QED
      BY <1>1, <2>1, <3>1, BooksMake DEF Tracked
  <2> HIDE DEF e, w, n
  <2>3. /\ Occurrences(event_queue', Completed) = Occurrences(event_queue, Completed)
        /\ Occurrences(event_queue', Reloads) = Occurrences(event_queue, Reloads)
    BY <1>1, <1>4, <1>5, CountPush
  <2>4. Flight'
    BY <1>1, <2>1, <2>3 DEF Tracked, Flight
  <2>5. InFlight'
    <3>1. SUFFICES ASSUME state \in Busy PROVE InFlight'
      BY <1>1 DEF InFlight
    <3>2. parked # <<>> /\ Head(parked) = request /\ InFlight
      BY <2>1, <3>1 DEF Tracked, Flight, Busy
    <3>3. request \in 1..Len(kind)
      <4>1. parked \in Seq(Requests)
        BY <1>1 DEF Typed, TypeOK
      <4> QED
        BY <1>1, <2>1, <3>2, <4>1, BooksMade DEF Tracked
    <3>4. Stage(state, request, w, dev.ended)
      BY <1>2, <3>1, <3>2, <3>3 DEF InFlight, Stage
    <3>5. \A i \in DOMAIN event_queue' : event_queue'[i] = e
             \/ \E j \in DOMAIN event_queue : event_queue'[i] = event_queue[j]
      BY <1>1, <1>4, <1>5, Pushed
    <3> QED
      BY <1>1, <1>4, <3>1, <3>2, <3>4, <3>5 DEF InFlight
  <2>6. Begin' = Begin
    BY <1>1 DEF Begin
  <2> QED
    BY <1>1, <1>5, <2>2, <2>4, <2>5, <2>6 DEF Tracked
<1> QED
  BY <1>6, <1>7 DEF Inv

(* Nothing has been asked for. *)
LEMMA InitInv == Init => Inv
<1> SUFFICES ASSUME Init PROVE Inv
  OBVIOUS
<1>1. /\ 0 \in 0..MaxRequests /\ MaxRequests \in Nat
      /\ \A r \in Requests : r \in Nat /\ ~(r <= 0)
  BY I2cAssumption DEF Requests
<1>2. Typed
  <2>1. event_queue = <<>> /\ <<>> \in Seq(Good) /\ <<>> \in Seq(EventType)
    BY DEF Init
  <2>2. dev \in DeviceType /\ dev.op = "none"
    BY <1>1 DEF Init, DeviceType
  <2>3. /\ isr_event_queue
               \in Seq([type : {"completed"}, req : {0}, status : Statuses])
        /\ parked \in Seq(Requests) /\ kind \in Seq(Kinds) /\ Len(kind) = 0
    BY DEF Init
  <2>4. answer \in [Requests -> {"none", "ok", "fail", "panic"}]
    BY DEF Init
  <2>5. late \in BOOLEAN /\ misread \subseteq Requests /\ lost \in BOOLEAN
    BY DEF Init
  <2>6. state = "IDLE" /\ request \in 0..MaxRequests
    BY <1>1 DEF Init
  <2> QED
    BY <1>1, <2>1, <2>2, <2>3, <2>4, <2>5, <2>6 DEF Typed, TypeOK, Busy
<1>3. Flight
  <2>1. Occurrences(<<>>, Completed) = 0 /\ Occurrences(<<>>, Reloads) = 0
    BY OccurrencesEmpty
  <2> QED
    BY <2>1 DEF Init, Flight, Busy
<1>4. InFlight /\ Begin = {}
  BY DEF Init, InFlight, Busy, Begin
<1>5. Books(<<>>, <<>>, answer, <<>>, {}, {})
  <2>1. Run(<<>>, "response", 0, 0) /\ Run(<<>>, "request", 0, 0)
    BY DEF Run
  <2>2. \A r \in Requests : answer[r] = "none"
    BY DEF Init
  <2>3. Line(<<>>, <<>>, answer, Len(<<>>), 0, 0, 0)
    BY <1>1, <2>1, <2>2 DEF Line
  <2>4. Told(<<>>, answer, <<>>, {}) /\ Begun({}, 0, {})
    BY <2>2 DEF Told, Begun
  <2> QED
    BY <2>3, <2>4 DEF Books
<1>6. /\ event_queue = <<>> /\ parked = <<>> /\ kind = <<>> /\ dev.ended = {}
  BY DEF Init
<1> QED
  BY <1>2, <1>3, <1>4, <1>5, <1>6 DEF Inv, Tracked

(* Every step keeps the invariant. *)
LEMMA NextInv == Inv /\ [Next]_vars => Inv'
<1> SUFFICES ASSUME Inv, [Next]_vars PROVE Inv'
  OBVIOUS
<1>1. CASE UNCHANGED vars
  BY <1>1 DEF vars, Inv, Typed, TypeOK, Tracked, Flight, InFlight, Begin
<1>2. CASE MainLoop
  BY <1>2, RequestStep, CompletedStep, ReloadStep, ResponseStep, IsrStep
     DEF MainLoop
<1>3. CASE \E s \in Statuses : I2cIsr(s)
  BY <1>3, I2cIsrStep
<1>4. CASE \E k \in Kinds : CreateI2cRequest(k)
  BY <1>4, CreateStep
<1> QED
  BY <1>1, <1>2, <1>3, <1>4 DEF Next
-----------------------------------------------------------------------------
(* The requests of the device stand in one line, and the books of the HAL  *)
(* agree with the bus, whatever the driver does and however requests, the  *)
(* interrupt and the events interleave.                                    *)
THEOREM Device == Spec => []Inv
<1>1. Inv /\ [Next]_vars => Inv'
  BY NextInv
<1> QED
  BY <1>1, InitInv, PTL DEF Spec

(* The HAL waits for a transfer exactly when one is on the bus or has      *)
(* ended unheard, and the first response in the device's list is the one   *)
(* it belongs to (respond_to_caller).                                      *)
THEOREM DeviceSound == Spec => []Sound
<1>1. Inv => Sound
  <2> SUFFICES ASSUME Inv PROVE Sound
    OBVIOUS
  <2>1. TypeOK /\ event_queue \in Seq(Good)
    BY DEF Inv, Typed
  <2>2. Completions = Len(isr_event_queue) + Occurrences(event_queue, Completed)
    <3>1. \A i \in DOMAIN event_queue : event_queue[i] \in Good
      BY <2>1
    <3>2. {i \in DOMAIN event_queue : event_queue[i].type = "completed"}
            = Places(event_queue, Completed)
      BY <3>1 DEF Places, Completed
    <3> QED
      BY <3>2 DEF Completions, Occurrences
  <2>3. Len(isr_event_queue) \in Nat /\ Occurrences(event_queue, Completed) \in Nat
    BY <2>1, OccurrencesType DEF TypeOK
  <2>4. ASSUME ~lost PROVE InFlightIsFirst
    <3>1. Flight
      BY <2>4 DEF Inv, Tracked
    <3>2. Completions + (IF dev.op = "none" THEN 0 ELSE 1)
            = IF state \in Busy THEN 1 ELSE 0
      BY <2>2, <2>3, <3>1 DEF Flight
    <3> HIDE DEF Completions
    <3> QED
      BY <3>1, <3>2 DEF Flight, InFlightIsFirst, Busy
  <2>5. InFlightIsFirst
    BY <2>4 DEF InFlightIsFirst
  <2> QED
    BY <2>1, <2>5 DEF Sound
<1> QED
  BY <1>1, Device, PTL

(* An interrupt that stands for an aborted transfer says so. *)
NoneMisread == misread = {}

LEMMA ReadRight ==
    ASSUME ~AbortsStop
    PROVE  Spec => []NoneMisread
<1>1. Init => NoneMisread
  BY DEF Init, NoneMisread
<1>2. NoneMisread /\ [Next]_vars => NoneMisread'
  <2> SUFFICES ASSUME NoneMisread, [Next]_vars PROVE misread' = misread
    BY DEF NoneMisread
  <2>1. CASE MainLoop
    BY <2>1 DEF MainLoop, HandleRequest, HandleCompleted, HandleReload,
                HandleResponse, ProcessIsr
  <2>2. CASE \E s \in Statuses : I2cIsr(s)
    BY <2>2 DEF I2cIsr
  <2>3. CASE \E k \in Kinds : CreateI2cRequest(k)
    BY <2>3 DEF CreateI2cRequest
  <2>4. CASE UNCHANGED vars
    BY <2>4 DEF vars
  <2> QED
    BY <2>1, <2>2, <2>3, <2>4 DEF Next
<1> QED
  BY <1>1, <1>2, PTL DEF Spec

(* A caller is told success exactly when all transfers of its request were *)
(* completed and none aborted, and callers are answered in the order they  *)
(* asked, on a controller that does not report the stop condition of an    *)
(* aborted transfer: i2c_isr would take it for a success.                  *)
THEOREM Answered ==
    ASSUME ~AbortsStop
    PROVE  Spec => []AnswerTruthful
<1>1. Inv /\ NoneMisread => AnswerTruthful
  <2> SUFFICES ASSUME Inv, NoneMisread, ~lost, NEW r \in Requests,
                      answer[r] # "none"
               PROVE  /\ answer[r] = "ok" <=>
                           \A op \in Transfers(kind[r]) :
                               <<r, op, "ok">> \in dev.ended
                      /\ \A q \in 1..(r - 1) : answer[q] # "none"
    BY DEF AnswerTruthful, NoneMisread
  <2>1. PICK x \in Nat, y \in Nat, z \in Nat :
            /\ Line(event_queue, parked, answer, Len(kind), x, y, z)
            /\ Told(event_queue, answer, kind, dev.ended)
    BY DEF Inv, Tracked, Books
  <2>2. Truthful(r, answer[r], kind, dev.ended)
    BY <2>1 DEF Told
  <2>3. ASSUME NEW q \in 1..(r - 1) PROVE answer[q] # "none"
    <3>1. r <= x
      BY <2>1 DEF Line
    <3>2. q \in Requests /\ q <= x
      BY <3>1, I2cAssumption DEF Requests
    <3> QED
      BY <2>1, <3>2 DEF Line
  <2> QED
    BY <2>2, <2>3 DEF Truthful
<1> QED
  BY <1>1, Device, ReadRight, PTL
=============================================================================
