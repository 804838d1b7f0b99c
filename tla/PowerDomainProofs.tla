-------------------------- MODULE PowerDomainProofs --------------------------
(***************************************************************************)
(* Safety of the power domain HAL, for any tree, any tables of allowed     *)
(* states that the hypotheses admit, and any number of requests.           *)
(*                                                                         *)
(* First what the handlers do, from the inside out: a call of the driver,  *)
(* a level of a walk, the walk, a report, the actions.  Then the theorems. *)
(* RequestedTree alone is not inductive: a report asks for the state that  *)
(* the driver was given, which Flight says is the one asked for.           *)
(* HardwareTree needs that all states two neighbours may be in before      *)
(* anyone looks again are compatible (Hard).                               *)
(***************************************************************************)
EXTENDS PowerDomain, FiniteSetTheorems, WellFoundedInduction, TLAPS

(* A set of natural numbers has a least one. *)
LEMMA LeastNatural ==
    ASSUME NEW S, S \subseteq Nat, S # {}
    PROVE  \E x \in S : \A y \in S : x <= y
<1>1. PICK x \in S : \A y \in S : ~(<<y, x>> \in OpToRel(<, Nat))
  BY NatLessThanWellFounded, WFMin
<1>2. ASSUME NEW y \in S PROVE x <= y
  <2>1. <<y, x>> \in Nat \X Nat /\ <<y, x>>[1] = y /\ <<y, x>>[2] = x
    OBVIOUS
  <2>2. ~(y < x)
    BY <1>1, <2>1 DEF OpToRel
  <2> QED
    BY <2>2
<1> QED
  BY <1>2

(* f has the results of the n rounds F of a loop that starts with a0, each *)
(* in A.                                                                   *)
IsLoop(f, n, A, a0, F) ==
    /\ DOMAIN f = 0..n /\ f = [i \in 0..n |-> f[i]]
    /\ f[0] = a0
    /\ \A i \in 1..n : f[i] = F[i][f[i - 1]]
    /\ \A i \in 0..n : f[i] \in A[i]

(* A loop of n rounds is well defined, and what each round makes of the    *)
(* states A[i - 1] before it is among the states A[i] after it.            *)
LEMMA LoopDefined ==
    ASSUME NEW n \in Nat, NEW A, NEW a0 \in A[0], NEW F,
           \A i \in 1..n : \A a \in A[i - 1] : F[i][a] \in A[i]
    PROVE  \E f : IsLoop(f, n, A, a0, F)
<1> DEFINE Loop(f, k) == /\ f = [i \in 0..k |-> IF i = 0 THEN a0
                                                ELSE F[i][f[i - 1]]]
                         /\ \A i \in 0..k : f[i] \in A[i]
           Bad == {k \in 0..n : ~ \E f : Loop(f, k)}
<1>1. ASSUME Bad # {} PROVE FALSE
  <2>1. PICK k \in Bad : \A j \in Bad : k <= j
    <3>1. Bad \subseteq Nat
      OBVIOUS
    <3> HIDE DEF Bad
    <3> QED
      BY <1>1, <3>1, LeastNatural
  <2>2. CASE k = 0
    <3> DEFINE g == [i \in 0..0 |-> a0]
    <3>1. g = [i \in 0..0 |-> IF i = 0 THEN a0 ELSE F[i][g[i - 1]]]
      OBVIOUS
    <3>2. \A i \in 0..0 : g[i] \in A[i]
      OBVIOUS
    <3> QED
      BY <2>1, <2>2, <3>1, <3>2
  <2>3. CASE k # 0
    <3>1. k - 1 \in 0..n /\ k - 1 \notin Bad /\ k \in 1..n
      BY <2>1, <2>3
    <3>2. PICK g : Loop(g, k - 1)
      BY <3>1
    <3> DEFINE h == [i \in 0..k |-> IF i = k THEN F[k][g[k - 1]] ELSE g[i]]
    <3>3. \A i \in 0..(k - 1) : h[i] = g[i]
      BY <3>1
    <3>4. h[k] = F[k][g[k - 1]] /\ h[k] \in A[k]
      BY <3>1, <3>2
    <3>5. ASSUME NEW i \in 0..k
          PROVE  /\ h[i] = IF i = 0 THEN a0 ELSE F[i][h[i - 1]]
                 /\ h[i] \in A[i]
      <4>1. CASE i = k
        BY <2>3, <3>1, <3>3, <3>4, <4>1
      <4>2. CASE i # k
        <5>1. i \in 0..(k - 1) /\ (i # 0 => i - 1 \in 0..(k - 1))
          BY <3>1, <4>2
        <5>2. g[i] = IF i = 0 THEN a0 ELSE F[i][g[i - 1]]
          BY <3>2, <5>1
        <5> QED
          BY <3>2, <3>3, <5>1, <5>2
      <4> QED
        BY <4>1, <4>2
    <3>6. h = [i \in 0..k |-> h[i]]
      OBVIOUS
    <3> HIDE DEF h
    <3>7. Loop(h, k)
      BY <3>5, <3>6
    <3> QED
      BY <2>1, <3>7
  <2> QED
    BY <2>2, <2>3
<1>2. PICK f : Loop(f, n)
  BY <1>1
<1> DEFINE g == [i \in 0..n |-> IF i = 0 THEN a0 ELSE F[i][f[i - 1]]]
<1>3. DOMAIN g = 0..n /\ g = [i \in 0..n |-> g[i]] /\ g[0] = a0
      /\ \A i \in 1..n : g[i] = F[i][f[i - 1]]
  OBVIOUS
<1>4. f = g /\ \A i \in 0..n : f[i] \in A[i]
  BY <1>2
<1> HIDE DEF g
<1> QED
  BY <1>3, <1>4 DEF IsLoop

(* What holds before the first round of a loop, and after a round when it  *)
(* held before, holds after each one.                                      *)
LEMMA LoopInvariant ==
    ASSUME NEW n \in Nat, NEW A, NEW f, f[0] \in A[0],
           \A i \in 1..n : f[i - 1] \in A[i - 1] => f[i] \in A[i]
    PROVE  \A i \in 0..n : f[i] \in A[i]
<1> DEFINE Bad == {k \in 0..n : f[k] \notin A[k]}
<1>1. ASSUME Bad # {} PROVE FALSE
  <2>1. PICK k \in Bad : \A j \in Bad : k <= j
    <3>1. Bad \subseteq Nat
      OBVIOUS
    <3> HIDE DEF Bad
    <3> QED
      BY <1>1, <3>1, LeastNatural
  <2>2. k # 0
    BY <2>1
  <2>3. k - 1 \in 0..n /\ k - 1 \notin Bad /\ k \in 1..n
    BY <2>1, <2>2
  <2> QED
    BY <2>1, <2>3
<1> QED
  BY <1>1

----------------------------------------------------------------------------
(* The tree. *)

(* PathUp is well defined: a parent comes after its children. *)
LEMMA PathUpDefined ==
    \A p \in PDs : PathUp[p] = IF Parent[p] = NoPd THEN <<p>>
                               ELSE <<p>> \o PathUp[Parent[p]]
<1> DEFINE Eq(g, p) == g[p] = IF Parent[p] = NoPd THEN <<p>>
                              ELSE <<p>> \o g[Parent[p]]
           Top(i) == (PdCount - i + 1)..PdCount
           A == [i \in 0..PdCount |-> {g \in [Top(i) -> Seq(PDs)] :
                                         \A p \in Top(i) : Eq(g, p)}]
           More(i, g) == [p \in Top(i) |->
                             IF p # PdCount - i + 1 THEN g[p]
                             ELSE IF Parent[p] = NoPd THEN <<p>>
                             ELSE <<p>> \o g[Parent[p]]]
           F == [i \in 1..PdCount |-> [g \in A[i - 1] |-> More(i, g)]]
           Path(g) == g = [p \in PDs |-> IF Parent[p] = NoPd THEN <<p>>
                                         ELSE <<p>> \o g[Parent[p]]]
<1>1. PdCount \in Nat /\ PdCount >= 1
  BY PowerDomainAssumption
<1>2. [p \in Top(0) |-> <<>>] \in A[0]
  BY <1>1
<1>3. ASSUME NEW i \in 1..PdCount, NEW g \in A[i - 1]
      PROVE  F[i][g] \in A[i]
  <2> DEFINE q == PdCount - i + 1
             h == More(i, g)
  <2>1. F[i][g] = h
    OBVIOUS
  <2>2. /\ i - 1 \in 0..PdCount /\ i \in 0..PdCount /\ q \in PDs
        /\ Top(i) = Top(i - 1) \cup {q} /\ q \notin Top(i - 1)
        /\ \A p \in Top(i) : p \in PDs
    BY <1>1 DEF PDs
  <2>3. /\ g \in [Top(i - 1) -> Seq(PDs)]
        /\ \A p \in Top(i - 1) : Eq(g, p)
    BY <2>2
  <2>4. ASSUME NEW p \in Top(i), Parent[p] # NoPd
        PROVE  Parent[p] \in Top(i - 1) /\ h[Parent[p]] = g[Parent[p]]
    <3>1. Parent[p] > p /\ Parent[p] \in 0..PdCount /\ p \in PDs
      BY <2>2, <2>4, PowerDomainAssumption
    <3> QED
      BY <1>1, <2>2, <3>1 DEF PDs, NoPd
  <2>5. ASSUME NEW p \in Top(i)
        PROVE  h[p] \in Seq(PDs) /\ Eq(h, p)
    <3>1. CASE p # q
      BY <2>2, <2>3, <2>4, <3>1
    <3>2. CASE p = q /\ Parent[p] = NoPd
      <4>1. <<p>> \in Seq(PDs)
        BY <2>2, <3>2
      <4> QED
        BY <3>2, <4>1
    <3>3. CASE p = q /\ Parent[p] # NoPd
      <4>1. h[p] = <<p>> \o g[Parent[p]]
        BY <3>3
      <4>2. g[Parent[p]] \in Seq(PDs) /\ <<p>> \in Seq(PDs)
        <5>1. Parent[p] \in Top(i - 1) /\ p \in PDs
          BY <2>2, <2>4, <3>3
        <5> HIDE DEF Top
        <5>2. g[Parent[p]] \in Seq(PDs)
          BY <2>3, <5>1
        <5> QED
          BY <5>1, <5>2
      <4>3. <<p>> \o g[Parent[p]] \in Seq(PDs)
        BY <4>2
      <4> QED
        BY <2>4, <3>3, <4>1, <4>3
    <3> QED
      BY <3>1, <3>2, <3>3
  <2>6. h = [p \in Top(i) |-> h[p]]
    OBVIOUS
  <2> HIDE DEF h
  <2>7. h \in [Top(i) -> Seq(PDs)]
    BY <2>5, <2>6
  <2> QED
    BY <2>1, <2>2, <2>5, <2>7
<1>4. \E g : Path(g)
  <2> HIDE DEF A, F
  <2> DEFINE a0 == [p \in Top(0) |-> <<>>]
  <2>7. a0 \in A[0]
    BY <1>2
  <2> HIDE DEF a0
  <2>6. PICK f : IsLoop(f, PdCount, A, a0, F)
    BY <1>1, <1>3, <2>7, LoopDefined
  <2>1. \A i \in 0..PdCount : f[i] \in A[i]
    BY <2>6 DEF IsLoop
  <2>2. f[PdCount] \in A[PdCount]
    BY <1>1, <2>1
  <2>3. Top(PdCount) = PDs /\ PdCount \in 0..PdCount
    BY <1>1 DEF PDs
  <2>4. f[PdCount] \in [PDs -> Seq(PDs)] /\ \A p \in PDs : Eq(f[PdCount], p)
    BY <2>2, <2>3 DEF A
  <2>5. Path(f[PdCount])
    BY <2>4
  <2> QED
    BY <2>5
<1>5. PathUp = CHOOSE g : Path(g)
  BY DEF PathUp
<1>6. Path(PathUp)
  <2> HIDE DEF Path
  <2> QED
    BY <1>4, <1>5
<1> QED
  BY <1>6

(* A path starts with its domain and goes up: no domain is there twice. *)
LEMMA PathUpGoesUp ==
    ASSUME NEW p \in PDs
    PROVE  /\ PathUp[p] \in Seq(PDs) /\ Len(PathUp[p]) >= 1
           /\ PathUp[p][1] = p
           /\ \A l, m \in 1..Len(PathUp[p]) :
                  l < m => PathUp[p][l] < PathUp[p][m]
<1> DEFINE Good(q) == /\ PathUp[q] \in Seq(PDs) /\ Len(PathUp[q]) >= 1
                      /\ PathUp[q][1] = q
                      /\ \A l, m \in 1..Len(PathUp[q]) :
                             l < m => PathUp[q][l] < PathUp[q][m]
           Bad == {k \in 0..PdCount : PdCount - k \in PDs /\ ~Good(PdCount - k)}
<1>1. PdCount \in Nat /\ PdCount >= 1
  BY PowerDomainAssumption
<1>2. ASSUME Bad # {} PROVE FALSE
  <2>1. PICK k \in Bad : \A j \in Bad : k <= j
    <3>1. Bad \subseteq Nat
      OBVIOUS
    <3> HIDE DEF Bad
    <3> QED
      BY <1>2, <3>1, LeastNatural
  <2> DEFINE q == PdCount - k
             r == Parent[q]
  <2>2. q \in PDs /\ ~Good(q) /\ q \in Nat
    BY <2>1 DEF PDs
  <2>3. CASE r = NoPd
    <3>1. PathUp[q] = <<q>>
      BY <2>2, <2>3, PathUpDefined
    <3> HIDE DEF q
    <3>2. <<q>> \in Seq(PDs) /\ Len(<<q>>) = 1 /\ <<q>>[1] = q
      BY <2>2
    <3>3. Good(q)
      BY <3>1, <3>2
    <3> QED
      BY <2>2, <3>3
  <2>4. CASE r # NoPd
    <3> DEFINE t == PathUp[r]
    <3>1. r > q /\ r \in PDs
      BY <2>2, <2>4, PowerDomainAssumption DEF PDs, NoPd
    <3>2. PdCount - r \in 0..PdCount /\ PdCount - r < k
          /\ PdCount - (PdCount - r) = r
      BY <1>1, <2>1, <3>1 DEF PDs
    <3>3. Good(r)
      <4>1. PdCount - r \notin Bad
        <5>1. k \in Nat /\ PdCount - r \in Nat
          BY <2>1, <3>2
        <5> HIDE DEF Bad, r
        <5> QED
          BY <2>1, <3>2, <5>1
      <4> QED
        BY <3>1, <3>2, <4>1
    <3>4. PathUp[q] = <<q>> \o t
      BY <2>2, <2>4, PathUpDefined
    <3> HIDE DEF q, r
    <3>5. t \in Seq(PDs) /\ Len(t) >= 1 /\ t[1] = r
      BY <3>3
    <3>6. \A l, m \in 1..Len(t) : l < m => t[l] < t[m]
      BY <3>3
    <3> HIDE DEF t
    <3> DEFINE s == <<q>> \o t
    <3>7. /\ s \in Seq(PDs) /\ Len(s) = Len(t) + 1 /\ s[1] = q
          /\ Len(t) \in Nat /\ \A l \in 2..Len(s) : s[l] = t[l - 1]
      BY <2>2, <3>5
    <3> HIDE DEF s
    <3>8. \A l \in 1..Len(t) : t[l] \in Nat /\ r <= t[l]
      <4> TAKE l \in 1..Len(t)
      <4>1. t[l] \in PDs /\ r \in Nat
        <5>1. t[l] \in PDs
          BY <3>5
        <5> QED
          BY <3>1, <5>1 DEF PDs
      <4>2. t[l] \in Nat
        BY <4>1 DEF PDs
      <4>3. CASE l = 1
        BY <3>5, <4>1, <4>2, <4>3
      <4>4. CASE l # 1
        <5>1. t[1] < t[l]
          BY <3>5, <3>6, <3>7, <4>4
        <5> QED
          BY <3>5, <4>1, <4>2, <5>1
      <4> QED
        BY <4>3, <4>4
    <3>9. ASSUME NEW l \in 1..Len(s), NEW m \in 1..Len(s), l < m
          PROVE  s[l] < s[m]
      <4>1. m \in 2..Len(s) /\ m - 1 \in 1..Len(t) /\ s[m] = t[m - 1]
        BY <3>7, <3>9
      <4>2. CASE l = 1
        <5>1. r <= t[m - 1] /\ t[m - 1] \in Nat
          BY <3>8, <4>1
        <5>2. r \in Nat /\ q \in Nat /\ r > q
          BY <2>2, <3>1 DEF PDs
        <5> QED
          BY <3>7, <4>1, <4>2, <5>1, <5>2
      <4>3. CASE l # 1
        <5>1. l \in 2..Len(s) /\ l - 1 \in 1..Len(t) /\ l - 1 < m - 1
          BY <3>7, <3>9, <4>3
        <5>2. t[l - 1] < t[m - 1]
          BY <3>6, <4>1, <5>1
        <5>3. s[l] = t[l - 1]
          BY <3>7, <5>1
        <5> QED
          BY <4>1, <5>2, <5>3
      <4> QED
        BY <4>2, <4>3
    <3>10. Good(q)
      BY <3>4, <3>5, <3>7, <3>9 DEF s
    <3> QED
      BY <2>2, <3>10 DEF q
  <2> QED
    BY <2>3, <2>4
<1>3. PdCount - p \in 0..PdCount /\ PdCount - (PdCount - p) = p
  BY <1>1 DEF PDs
<1>4. PdCount - p \notin Bad
  BY <1>2
<1> QED
  BY <1>3, <1>4

----------------------------------------------------------------------------
(* What the handlers do to a world. *)

Worlds == [pd : [PDs -> PdContexts], target : [PDs -> States \cup {NoState}],
           hw : [PDs -> States], reports : Seq(Reports), answers : Seq(Answers),
           suspend : SuspendContexts]

(* No driver was asked for anything. *)
Kept(w, v) ==
    v.target = w.target /\ v.hw = w.hw /\ v.reports = w.reports

(* The driver of p was asked for s: it will do it, or it did and reported. *)
Driven(w, v, p, s) ==
    \/ /\ v.target = [w.target EXCEPT ![p] = s]
       /\ v.hw = w.hw /\ v.reports = w.reports
    \/ /\ v.target = w.target /\ v.hw = [w.hw EXCEPT ![p] = s]
       /\ v.reports = Append(w.reports, [pd |-> p, state |-> s])

(* The transition of p was announced, started, both or neither. *)
Begun(w, v, p) ==
    LET c == w.pd[p]
        d == v.pd[p]
    IN  /\ v \in Worlds
        /\ v.answers = w.answers /\ v.suspend = w.suspend
        /\ \A q \in PDs : q # p => v.pd[q] = w.pd[q]
        /\ d.requested = c.requested /\ d.current = c.current
        /\ d.response = c.response /\ d.post = c.post
        /\ \/ Kept(w, v) /\ d.toDriver = c.toDriver
           \/ /\ Driven(w, v, p, Mapped[p][c.requested])
              /\ d.toDriver = c.requested

(* The tables have states for states. *)
LEMMA Tables ==
    /\ \A p \in PDs, s \in States : Mapped[p][s] \in States
    /\ \A p \in PDs : PreSubscribers[p] \in Nat /\ PostSubscribers[p] \in Nat
    /\ \A p \in PDs : Parent[p] # NoPd => Parent[p] \in PDs
    /\ PdCount \in PDs /\ PdCount \in Nat /\ NoPd \notin PDs
<1>1. \A p \in PDs : Parent[p] # NoPd => Parent[p] \in PDs
  BY PowerDomainAssumption DEF PDs, NoPd
<1> QED
  BY <1>1, PowerDomainAssumption DEF PDs, NoPd

(* The fields of a world. *)
LEMMA WorldFields ==
    ASSUME NEW w \in Worlds
    PROVE  /\ w.pd \in [PDs -> PdContexts]
           /\ w.target \in [PDs -> States \cup {NoState}]
           /\ w.hw \in [PDs -> States] /\ w.reports \in Seq(Reports)
           /\ w.answers \in Seq(Answers) /\ w.suspend \in SuspendContexts
BY DEF Worlds

(* The fields of a domain. *)
LEMMA PdFields ==
    ASSUME NEW w \in Worlds, NEW p \in PDs
    PROVE  LET c == w.pd[p]
           IN  /\ c \in PdContexts
               /\ c.requested \in States /\ c.toDriver \in States
               /\ c.current \in States /\ c.driver \in States
               /\ c.response \in 0..MaxRequests
               /\ c.pre \in PreContexts /\ c.pre.pending \in Nat
               /\ c.pre.valid \in BOOLEAN /\ c.pre.ok \in BOOLEAN
               /\ c.pre.state \in States
               /\ c.post \in PostContexts /\ c.post.pending \in Nat
               /\ c.post.state \in States /\ c.post.previous \in States
<1> DEFINE c == w.pd[p]
<1>1. c \in PdContexts
  BY WorldFields
<1> HIDE DEF c
<1>2. /\ c.requested \in States /\ c.toDriver \in States
      /\ c.current \in States /\ c.driver \in States
      /\ c.response \in 0..MaxRequests
      /\ c.pre \in PreContexts /\ c.post \in PostContexts
  BY <1>1 DEF PdContexts
<1>3. /\ c.pre.pending \in Nat /\ c.pre.valid \in BOOLEAN
      /\ c.pre.ok \in BOOLEAN /\ c.pre.state \in States
  BY <1>2 DEF PreContexts
<1>4. /\ c.post.pending \in Nat
      /\ c.post.state \in States /\ c.post.previous \in States
  BY <1>2 DEF PostContexts
<1> QED
  BY <1>1, <1>2, <1>3, <1>4 DEF c

(* Changing one domain changes nothing else. *)
LEMMA ChangePd ==
    ASSUME NEW w \in Worlds, NEW p \in PDs, NEW c \in PdContexts
    PROVE  LET v == [w EXCEPT !.pd = [w.pd EXCEPT ![p] = c]]
           IN  /\ v \in Worlds /\ Kept(w, v)
               /\ v.answers = w.answers /\ v.suspend = w.suspend
               /\ v.pd = [w.pd EXCEPT ![p] = c]
               /\ v.pd[p] = c
               /\ \A q \in PDs : q # p => v.pd[q] = w.pd[q]
<1> DEFINE f == [w.pd EXCEPT ![p] = c]
           v == [w EXCEPT !.pd = f]
<1>1. f \in [PDs -> PdContexts] /\ f[p] = c
      /\ \A q \in PDs : q # p => f[q] = w.pd[q]
  BY WorldFields
<1> HIDE DEF f
<1>2. v \in Worlds /\ v.pd = f /\ v.target = w.target /\ v.hw = w.hw
      /\ v.reports = w.reports /\ v.answers = w.answers
      /\ v.suspend = w.suspend
  BY <1>1 DEF Worlds
<1> QED
  BY <1>1, <1>2 DEF f, Kept

(* DriverSetState: an asynchronous driver will report, another one has. *)
LEMMA DriverOutcome ==
    ASSUME NEW w \in Worlds, NEW p \in PDs, NEW s \in States
    PROVE  LET v == DriverSetState(w, p, s)
           IN  /\ v \in Worlds /\ v.pd = w.pd
               /\ v.answers = w.answers /\ v.suspend = w.suspend
               /\ Driven(w, v, p, s)
<1> DEFINE v == DriverSetState(w, p, s)
<1>1. CASE p \in Async
  <2> DEFINE f == [w.target EXCEPT ![p] = s]
  <2>1. f \in [PDs -> States \cup {NoState}]
    BY WorldFields
  <2>2. v = [w EXCEPT !.target = f]
    BY <1>1 DEF DriverSetState
  <2> HIDE DEF f, v
  <2>3. /\ v \in Worlds /\ v.pd = w.pd /\ v.target = f /\ v.hw = w.hw
        /\ v.reports = w.reports /\ v.answers = w.answers
        /\ v.suspend = w.suspend
    BY <2>1, <2>2 DEF Worlds
  <2> QED
    BY <2>3 DEF v, f, Driven
<1>2. CASE p \notin Async
  <2> DEFINE f == [w.hw EXCEPT ![p] = s]
             r == [pd |-> p, state |-> s]
             q == Append(w.reports, r)
  <2>1. f \in [PDs -> States]
    BY WorldFields
  <2>2. r \in Reports
    BY DEF Reports
  <2>3. q \in Seq(Reports)
    <3> HIDE DEF r
    <3> QED
      BY <2>2, WorldFields
  <2>4. v = [w EXCEPT !.hw = f, !.reports = q]
    BY <1>2 DEF DriverSetState
  <2> HIDE DEF f, q, v
  <2>5. /\ v \in Worlds /\ v.pd = w.pd /\ v.target = w.target /\ v.hw = f
        /\ v.reports = q /\ v.answers = w.answers /\ v.suspend = w.suspend
    BY <2>1, <2>3, <2>4 DEF Worlds
  <2> QED
    BY <2>5 DEF v, f, q, Driven
<1> QED
  BY <1>1, <1>2

(* InitiateTransition: a driver that refuses changes nothing. *)
LEMMA InitiateOutcome ==
    ASSUME NEW w \in Worlds, NEW p \in PDs, NEW refuse
    PROVE  LET v == InitiateTransition(w, p, refuse)
           IN  /\ Begun(w, v, p)
               /\ v.pd[p].pre = w.pd[p].pre
               /\ p \in refuse => v = w
               /\ p \notin refuse =>
                      /\ Driven(w, v, p, Mapped[p][w.pd[p].requested])
                      /\ v.pd[p].toDriver = w.pd[p].requested
<1> DEFINE v == InitiateTransition(w, p, refuse)
           c == w.pd[p]
           m == Mapped[p][c.requested]
           u == DriverSetState(w, p, m)
           d == [c EXCEPT !.driver = m, !.toDriver = c.requested]
<1>1. c \in PdContexts /\ c.requested \in States /\ m \in States
  BY PdFields, Tables
<1>2. CASE p \in refuse
  <2>1. v = w
    BY <1>2 DEF InitiateTransition
  <2> QED
    BY <1>2, <2>1 DEF Begun, Kept
<1>3. CASE p \notin refuse
  <2>1. d \in PdContexts
    BY <1>1 DEF PdContexts
  <2>2. /\ d.requested = c.requested /\ d.toDriver = c.requested
        /\ d.current = c.current /\ d.response = c.response
        /\ d.pre = c.pre /\ d.post = c.post
    BY <1>1 DEF PdContexts
  <2>3. /\ u \in Worlds /\ u.pd = w.pd
        /\ u.answers = w.answers /\ u.suspend = w.suspend
        /\ Driven(w, u, p, m)
    BY <1>1, DriverOutcome
  <2>4. v = [u EXCEPT !.pd = [u.pd EXCEPT ![p] = d]]
    <3>1. u.pd[p] = c
      BY <2>3
    <3> HIDE DEF u
    <3>2. v = [u EXCEPT !.pd[p].driver = m, !.pd[p].toDriver = c.requested]
      BY <1>3 DEF InitiateTransition, u
    <3>3. u.pd \in [PDs -> PdContexts]
      BY <2>3, WorldFields
    <3>4. v = [u EXCEPT !.pd = [[u.pd EXCEPT ![p] =
                  [u.pd[p] EXCEPT !.driver = m]] EXCEPT ![p] =
                     [[u.pd EXCEPT ![p] = [u.pd[p] EXCEPT !.driver = m]][p]
                         EXCEPT !.toDriver = c.requested]]]
      BY <2>3, <3>2, <3>3 DEF Worlds
    <3> QED
      BY <3>1, <3>3, <3>4
  <2> HIDE DEF u, v, d, m, c
  <2>5. /\ v \in Worlds /\ Kept(u, v)
        /\ v.answers = u.answers /\ v.suspend = u.suspend
        /\ v.pd[p] = d
        /\ \A q \in PDs : q # p => v.pd[q] = u.pd[q]
    BY <2>1, <2>3, <2>4, ChangePd
  <2>6. Driven(w, v, p, m)
    BY <2>3, <2>5 DEF Driven, Kept
  <2> QED
    BY <1>3, <2>2, <2>3, <2>5, <2>6 DEF Begun, c, m, v
<1> QED
  BY <1>2, <1>3

(* PreTransition: an announcement of the state asked for, unless there is  *)
(* one that nobody objected to or one that is not answered yet.            *)
LEMMA PreOutcome ==
    ASSUME NEW w \in Worlds, NEW p \in PDs
    PROVE  LET n == PreTransition(w, p)
               v == n.w
               c == w.pd[p]
               d == v.pd[p]
           IN  /\ Begun(w, v, p) /\ Kept(w, v)
               /\ d.toDriver = c.toDriver
               /\ n.wait \in BOOLEAN
               /\ \/ v = w /\ n.wait /\ MustNotify(c) /\ c.pre.pending # 0
                  \/ v = w /\ ~n.wait /\ ~MustNotify(c)
                  \/ /\ d.pre.pending = PreSubscribers[p]
                     /\ d.pre.state = c.requested /\ d.pre.ok /\ d.pre.valid
                     /\ n.wait <=> (PreSubscribers[p] # 0)
                     /\ MustNotify(c) /\ c.pre.pending = 0
<1> DEFINE n == PreTransition(w, p)
           v == n.w
           c == w.pd[p]
           x == [pending |-> PreSubscribers[p], state |-> c.requested,
                 ok |-> TRUE, valid |-> TRUE]
           d == [c EXCEPT !.pre = x]
<1>1. c \in PdContexts /\ c.requested \in States
  BY PdFields
<1>2. Begun(w, w, p) /\ Kept(w, w)
  BY DEF Begun, Kept
<1>3. CASE ~MustNotify(c)
  <2>1. n = [w |-> w, wait |-> FALSE]
    BY <1>3 DEF PreTransition
  <2> HIDE DEF n
  <2>2. n.w = w /\ n.wait = FALSE
    BY <2>1
  <2> QED
    BY <1>2, <1>3, <2>2 DEF n
<1>4. CASE MustNotify(c) /\ c.pre.pending # 0
  <2>1. n = [w |-> w, wait |-> TRUE]
    BY <1>4 DEF PreTransition
  <2> HIDE DEF n
  <2>2. n.w = w /\ n.wait = TRUE
    BY <2>1
  <2> QED
    BY <1>2, <1>4, <2>2 DEF n
<1>5. CASE MustNotify(c) /\ c.pre.pending = 0
  <2> DEFINE u == [w EXCEPT !.pd = [w.pd EXCEPT ![p] = d]]
  <2>1. x \in PreContexts
    BY <1>1, Tables DEF PreContexts
  <2>2. /\ d \in PdContexts /\ d.requested = c.requested
        /\ d.toDriver = c.toDriver /\ d.current = c.current
        /\ d.response = c.response /\ d.pre = x /\ d.post = c.post
    <3> HIDE DEF x
    <3> QED
      BY <1>1, <2>1 DEF PdContexts
  <2>3. n.w = u /\ n.wait = (PreSubscribers[p] # 0)
    <3>1. n = [w |-> [w EXCEPT !.pd[p].pre = x], wait |-> PreSubscribers[p] # 0]
      BY <1>5 DEF PreTransition
    <3> HIDE DEF n, x
    <3>2. n.w = [w EXCEPT !.pd[p].pre = x]
      BY <3>1
    <3> QED
      BY <3>1, <3>2
  <2> HIDE DEF n, d, c
  <2>4. /\ u \in Worlds /\ Kept(w, u)
        /\ u.answers = w.answers /\ u.suspend = w.suspend
        /\ u.pd[p] = d
        /\ \A q \in PDs : q # p => u.pd[q] = w.pd[q]
    BY <2>2, ChangePd
  <2> HIDE DEF u
  <2>5. Begun(w, u, p)
    BY <2>2, <2>4 DEF Begun, c
  <2>6. /\ u.pd[p].pre.pending = PreSubscribers[p]
        /\ u.pd[p].pre.state = c.requested
        /\ u.pd[p].pre.ok /\ u.pd[p].pre.valid
    BY <2>2, <2>4
  <2>7. n.wait \in BOOLEAN
    BY <2>3
  <2> QED
    BY <1>5, <2>2, <2>3, <2>4, <2>5, <2>6, <2>7 DEF n, c
<1>6. MustNotify(c) \in BOOLEAN
  BY DEF MustNotify
<1> QED
  BY <1>3, <1>4, <1>5, <1>6

(* Begin: one of both or both. *)
LEMMA BeginOutcome ==
    ASSUME NEW w \in Worlds, NEW p \in PDs, NEW refuse
    PROVE  Begun(w, Begin(w, p, refuse), p)
<1> DEFINE n == PreTransition(w, p)
           v == InitiateTransition(n.w, p, refuse)
<1>1. Begun(w, n.w, p) /\ Kept(w, n.w) /\ n.wait \in BOOLEAN
      /\ n.w.pd[p].toDriver = w.pd[p].toDriver
  BY PreOutcome
<1>2. CASE n.wait
  BY <1>1, <1>2 DEF Begin
<1>3. CASE ~n.wait
  <2>1. Begin(w, p, refuse) = v
    BY <1>3 DEF Begin
  <2> HIDE DEF n
  <2>2. n.w \in Worlds
    BY <1>1 DEF Begun
  <2>3. Begun(n.w, v, p)
    BY <2>2, InitiateOutcome
  <2> HIDE DEF v
  <2>4. n.w.pd[p].requested = w.pd[p].requested
    BY <1>1 DEF Begun
  <2>5. Begun(w, v, p)
    BY <1>1, <2>3, <2>4 DEF Begun, Kept, Driven
  <2> QED
    BY <2>1, <2>5
<1> QED
  BY <1>1, <1>2, <1>3

(* The answers after a response of p, which only p can send, was sent. *)
Sent(w, me, p, status) ==
    LET k == w.pd[p].response
    IN  IF k = 0 THEN w.answers
        ELSE [w.answers EXCEPT ![k] =
                 [w.answers[k] EXCEPT !.status =
                     IF me = p THEN status ELSE w.answers[k].status]]

(* SendDelayedResponse: the domain has no response to send any more, and   *)
(* one that me may send is sent.                                           *)
LEMMA SendOutcome ==
    ASSUME NEW w \in Worlds, NEW p \in PDs, NEW me, NEW status \in Statuses
    PROVE  LET v == SendDelayedResponse(w, me, p, status)
               c == w.pd[p]
           IN  /\ v \in Worlds /\ Kept(w, v) /\ v.suspend = w.suspend
               /\ v.pd[p] = [c EXCEPT !.response = 0]
               /\ \A q \in PDs : q # p => v.pd[q] = w.pd[q]
               /\ v.answers = Sent(w, me, p, status)
               /\ Len(v.answers) = Len(w.answers)
<1> DEFINE v == SendDelayedResponse(w, me, p, status)
           c == w.pd[p]
           k == c.response
           d == [c EXCEPT !.response = 0]
<1>1. c \in PdContexts /\ k \in 0..MaxRequests
  BY PdFields
<1>2. d \in PdContexts
  <2>1. 0 \in 0..MaxRequests
    BY PowerDomainAssumption
  <2> HIDE DEF c
  <2> QED
    BY <1>1, <2>1 DEF PdContexts
<1>3. CASE k = 0
  <2>1. v = w
    BY <1>3 DEF SendDelayedResponse
  <2>2. d = c
    BY <1>1, <1>3 DEF PdContexts
  <2> QED
    BY <1>3, <2>1, <2>2 DEF Kept, Sent
<1>4. CASE k # 0
  <2> DEFINE x == [w.answers[k] EXCEPT !.status = IF me = p THEN status ELSE @]
             s == [w.answers EXCEPT ![k] = x]
             u == [w EXCEPT !.answers = s]
  <2>1. s \in Seq(Answers) /\ Len(s) = Len(w.answers)
    <3>1. w.answers \in Seq(Answers)
      BY WorldFields
    <3>2. k \in DOMAIN w.answers => x \in Answers
      <4> SUFFICES ASSUME k \in DOMAIN w.answers PROVE x \in Answers
        OBVIOUS
      <4>1. w.answers[k] \in Answers
        BY <3>1
      <4> QED
        BY <4>1 DEF Answers
    <3> DEFINE n == Len(w.answers)
    <3>3. n \in Nat /\ w.answers \in [1..n -> Answers]
      BY <3>1
    <3> HIDE DEF x, n
    <3>4. s \in [1..n -> Answers]
      BY <3>2, <3>3
    <3> HIDE DEF s
    <3> QED
      BY <3>3, <3>4 DEF n
  <2>9. s = Sent(w, me, p, status)
    BY <1>4 DEF Sent
  <2>2. v = [u EXCEPT !.pd = [u.pd EXCEPT ![p] = d]]
    <3>1. v = [w EXCEPT !.answers[k].status = IF me = p THEN status ELSE @,
                        !.pd[p].response = 0]
      BY <1>4 DEF SendDelayedResponse
    <3>2. v = [w EXCEPT !.answers = s, !.pd = [w.pd EXCEPT ![p] = d]]
      BY <3>1
    <3> HIDE DEF s, d, v
    <3> QED
      BY <3>2 DEF Worlds
  <2> HIDE DEF s
  <2>3. /\ u \in Worlds /\ Kept(w, u) /\ u.suspend = w.suspend
        /\ u.answers = s /\ u.pd = w.pd
    BY <2>1 DEF Worlds, Kept
  <2> HIDE DEF u, d, v
  <2>4. /\ v \in Worlds /\ Kept(u, v)
        /\ v.answers = u.answers /\ v.suspend = u.suspend
        /\ v.pd[p] = d
        /\ \A q \in PDs : q # p => v.pd[q] = u.pd[q]
    BY <1>2, <2>2, <2>3, ChangePd
  <2>5. Kept(w, v)
    BY <2>3, <2>4 DEF Kept
  <2> QED
    BY <1>4, <2>1, <2>3, <2>4, <2>5, <2>9 DEF v, d
<1> QED
  BY <1>3, <1>4

(* What a walk hands from level to level. *)
Accs == [w : Worlds, charge : PDs \cup {NoPd}, status : Statuses,
         initiated : BOOLEAN, stop : BOOLEAN]

(* The states asked of the parent and the children of p allow s. *)
Fits(w, p, s) ==
    /\ Parent[p] # NoPd =>
           IsAllowedByChild(p, w.pd[Parent[p]].requested, s)
    /\ IsAllowedByChildren(w, p, s)

(* The level of p was skipped, refused by the driver, or asked for s. *)
Asked(w, v, p, s) ==
    LET c == w.pd[p]
        d == v.pd[p]
    IN  /\ v \in Worlds /\ v.suspend = w.suspend
        /\ \A q \in PDs : q # p => v.pd[q] = w.pd[q]
        /\ d.current = c.current /\ d.post = c.post
        /\ \/ v = w
           \/ /\ d.requested = c.requested /\ d.toDriver = c.toDriver
              /\ Kept(w, v) /\ d.pre.pending = 0
           \/ /\ d.requested = s /\ Fits(w, p, s)
              /\ \/ /\ Kept(w, v) /\ d.toDriver = c.toDriver
                    /\ \/ ~d.pre.valid
                       \/ IsAllowedByParentAndChildren(w, p, s)
                 \/ /\ Driven(w, v, p, Mapped[p][s]) /\ d.toDriver = s
                    /\ IsAllowedByParentAndChildren(w, p, s)

(* The first half of a level: the new state is recorded and who waited for *)
(* the old one hears of it.                                                *)
Overwrite(w, me, p, s) ==
    SendDelayedResponse(
        [w EXCEPT !.pd[p] = [w.pd[p] EXCEPT !.requested = s,
                                            !.pre.valid = FALSE]],
        me, p, "OVERWRITTEN")

(* It changes no driver and no other domain. *)
LEMMA OverwriteOutcome ==
    ASSUME NEW w \in Worlds, NEW p \in PDs, NEW me, NEW s \in States
    PROVE  LET v == Overwrite(w, me, p, s)
               c == w.pd[p]
               d == v.pd[p]
           IN  /\ v \in Worlds /\ Kept(w, v) /\ v.suspend = w.suspend
               /\ \A q \in PDs : q # p => v.pd[q] = w.pd[q]
               /\ d.requested = s /\ d.toDriver = c.toDriver
               /\ d.current = c.current /\ d.post = c.post
               /\ d.response = 0
               /\ d.pre.pending = c.pre.pending /\ ~d.pre.valid
               /\ v.answers = Sent(w, me, p, "OVERWRITTEN")
               /\ Len(v.answers) = Len(w.answers)
<1> DEFINE c == w.pd[p]
           x == [c.pre EXCEPT !.valid = FALSE]
           d == [c EXCEPT !.requested = s, !.pre = x]
           u == [w EXCEPT !.pd = [w.pd EXCEPT ![p] = d]]
           v == SendDelayedResponse(u, me, p, "OVERWRITTEN")
<1>1. c \in PdContexts /\ c.pre \in PreContexts
  BY PdFields
<1>2. x \in PreContexts /\ x.pending = c.pre.pending /\ x.valid = FALSE
  BY <1>1 DEF PreContexts
<1> HIDE DEF x
<1>3. /\ d \in PdContexts /\ d.requested = s /\ d.toDriver = c.toDriver
      /\ d.current = c.current /\ d.post = c.post /\ d.pre = x
      /\ d.response = c.response
  BY <1>1, <1>2 DEF PdContexts
<1>4. Overwrite(w, me, p, s) = v
  <2>1. d = [c EXCEPT !.requested = s, !.pre.valid = FALSE]
    BY <1>1 DEF x, PdContexts
  <2> QED
    BY <2>1 DEF Overwrite
<1> HIDE DEF d
<1>5. /\ u \in Worlds /\ Kept(w, u)
      /\ u.answers = w.answers /\ u.suspend = w.suspend
      /\ u.pd[p] = d
      /\ \A q \in PDs : q # p => u.pd[q] = w.pd[q]
  BY <1>3, ChangePd
<1> HIDE DEF u
<1>6. "OVERWRITTEN" \in Statuses
  BY DEF Statuses
<1>7. /\ v \in Worlds /\ Kept(u, v) /\ v.suspend = u.suspend
      /\ v.pd[p] = [d EXCEPT !.response = 0]
      /\ \A q \in PDs : q # p => v.pd[q] = u.pd[q]
      /\ v.answers = Sent(u, me, p, "OVERWRITTEN")
      /\ Len(v.answers) = Len(u.answers)
  BY <1>5, <1>6, SendOutcome
<1> HIDE DEF v
<1>8. /\ v.pd[p].requested = s /\ v.pd[p].toDriver = c.toDriver
      /\ v.pd[p].current = c.current /\ v.pd[p].post = c.post
      /\ v.pd[p].response = 0 /\ v.pd[p].pre = x
  BY <1>3, <1>7 DEF PdContexts
<1>9. Kept(w, v)
  BY <1>5, <1>7 DEF Kept
<1>10. v.answers = Sent(w, me, p, "OVERWRITTEN")
  BY <1>3, <1>5, <1>7 DEF Sent
<1> HIDE DEF c
<1> QED
  BY <1>2, <1>4, <1>5, <1>7, <1>8, <1>9, <1>10 DEF c

(* Whether the neighbours of p allow s depends on their current states.    *)
LEMMA AllowedSame ==
    ASSUME NEW w \in Worlds, NEW v \in Worlds, NEW p \in PDs, NEW s,
           \A q \in PDs : v.pd[q].current = w.pd[q].current
    PROVE  IsAllowedByParentAndChildren(v, p, s) <=>
           IsAllowedByParentAndChildren(w, p, s)
<1>1. Parent[p] # NoPd => Parent[p] \in PDs
  BY Tables
<1> QED
  BY <1>1 DEF IsAllowedByParentAndChildren, Children

(* Restoring the state asked of p before changes nothing else. *)
LEMMA RestoreOutcome ==
    ASSUME NEW w \in Worlds, NEW p \in PDs, NEW s \in States
    PROVE  LET v == [w EXCEPT !.pd[p].requested = s]
               c == w.pd[p]
               d == v.pd[p]
           IN  /\ v \in Worlds /\ Kept(w, v) /\ v.suspend = w.suspend
               /\ v.answers = w.answers
               /\ \A q \in PDs : q # p => v.pd[q] = w.pd[q]
               /\ d.requested = s /\ d.toDriver = c.toDriver
               /\ d.current = c.current /\ d.driver = c.driver
               /\ d.response = c.response
               /\ d.pre = c.pre /\ d.post = c.post
<1> DEFINE c == w.pd[p]
           d == [c EXCEPT !.requested = s]
<1>1. c \in PdContexts
  BY PdFields
<1>2. /\ d \in PdContexts /\ d.requested = s /\ d.toDriver = c.toDriver
      /\ d.current = c.current /\ d.driver = c.driver
      /\ d.response = c.response /\ d.pre = c.pre /\ d.post = c.post
  BY <1>1 DEF PdContexts
<1>3. [w EXCEPT !.pd[p].requested = s] = [w EXCEPT !.pd = [w.pd EXCEPT ![p] = d]]
  OBVIOUS
<1> HIDE DEF c, d
<1> QED
  BY <1>2, <1>3, ChangePd DEF c

(* Who waited for p was answered, as far as me can do it. *)
Answered(w, v, me, p) ==
    /\ v.pd[p].response = 0
    /\ v.answers = Sent(w, me, p, "OVERWRITTEN")
    /\ Len(v.answers) = Len(w.answers)

(* SetStateLevel: the new state is recorded only if the states asked of    *)
(* the neighbours allow it, the driver is called only if their current     *)
(* states do.                                                              *)
LEMMA LevelOutcome ==
    ASSUME NEW a \in Accs, NEW p \in PDs, NEW me, NEW s \in States, NEW refuse
    PROVE  LET b == SetStateLevel(a, me, p, s, refuse)
           IN  /\ b \in Accs /\ Asked(a.w, b.w, p, s)
               /\ \/ b.w = a.w /\ b.charge = a.charge
                  \/ /\ Answered(a.w, b.w, me, p)
                     /\ b.charge \in {a.charge, p, NoPd}
<1> DEFINE b == SetStateLevel(a, me, p, s, refuse)
           w == a.w
           c == w.pd[p]
           u == Overwrite(w, me, p, s)
           n == PreTransition(u, p)
           x == [n.w EXCEPT !.pd[p].requested = c.requested]
           y == InitiateTransition(n.w, p, refuse)
           Deny == /\ Parent[p] # NoPd
                   /\ ~IsAllowedByChild(p, w.pd[Parent[p]].requested, s)
           Late == a.initiated \/ ~IsAllowedByParentAndChildren(u, p, s)
<1>1. /\ w \in Worlds /\ a.charge \in PDs \cup {NoPd}
      /\ a.initiated \in BOOLEAN /\ a.stop \in BOOLEAN /\ a.status \in Statuses
  BY DEF Accs
<1>2. /\ u \in Worlds /\ Kept(w, u) /\ u.suspend = w.suspend
      /\ \A q \in PDs : q # p => u.pd[q] = w.pd[q]
      /\ u.pd[p].requested = s /\ u.pd[p].toDriver = c.toDriver
      /\ u.pd[p].current = c.current /\ u.pd[p].post = c.post
      /\ u.pd[p].response = 0 /\ ~u.pd[p].pre.valid
      /\ u.answers = Sent(w, me, p, "OVERWRITTEN")
      /\ Len(u.answers) = Len(w.answers)
  <2> HIDE DEF w
  <2> QED
    BY <1>1, OverwriteOutcome
<1>3. b = IF a.stop \/ s = c.requested THEN a
          ELSE IF Deny THEN [a EXCEPT !.status = "PWRSTATE", !.stop = TRUE]
          ELSE IF ~IsAllowedByChildren(w, p, s) THEN a
          ELSE IF c.toDriver = s THEN [a EXCEPT !.w = u]
          ELSE IF Late THEN [a EXCEPT !.w = u, !.charge = p]
          ELSE IF n.wait THEN [a EXCEPT !.w = n.w, !.charge = p]
          ELSE IF p \in refuse
          THEN [a EXCEPT !.w = x, !.charge = NoPd, !.status = "DEVICE",
                         !.stop = TRUE]
          ELSE [a EXCEPT !.w = y, !.charge = p, !.initiated = TRUE]
  BY DEF SetStateLevel, Overwrite
<1>4. /\ Begun(u, n.w, p) /\ Kept(u, n.w)
      /\ n.w.pd[p].toDriver = u.pd[p].toDriver
      /\ n.wait \in BOOLEAN
      /\ \/ n.w = u /\ n.wait
         \/ /\ n.w.pd[p].pre.pending = PreSubscribers[p]
            /\ n.wait <=> (PreSubscribers[p] # 0)
  <2>1. MustNotify(u.pd[p])
    BY <1>2 DEF MustNotify
  <2> HIDE DEF u
  <2> QED
    BY <1>2, <2>1, PreOutcome
<1>5. IsAllowedByParentAndChildren(u, p, s) <=>
      IsAllowedByParentAndChildren(w, p, s)
  <2> HIDE DEF u, w
  <2>1. \A q \in PDs : u.pd[q].current = w.pd[q].current
    BY <1>2 DEF c
  <2> QED
    BY <1>1, <1>2, <2>1, AllowedSame
<1>6. {"PWRSTATE", "DEVICE"} \subseteq Statuses
  BY DEF Statuses
<1> HIDE DEF b, u, n, Deny, Late, x, y, w
<1>7. CASE b = a \/ b = [a EXCEPT !.status = "PWRSTATE", !.stop = TRUE]
  <2>1. b \in Accs /\ b.w = w /\ b.charge = a.charge
    BY <1>1, <1>6, <1>7 DEF Accs, w
  <2>2. Asked(w, w, p, s)
    BY <1>1 DEF Asked
  <2> QED
    BY <2>1, <2>2 DEF b, w
<1>8. ASSUME NEW v \in Worlds, NEW z, NEW t \in Statuses,
             NEW i \in BOOLEAN, NEW h \in BOOLEAN, z \in PDs \cup {NoPd},
             z \in {a.charge, p, NoPd},
             b = [a EXCEPT !.w = v, !.charge = z, !.status = t,
                           !.initiated = i, !.stop = h],
             Asked(w, v, p, s), v.pd[p].response = 0, v.answers = u.answers
      PROVE  /\ b \in Accs /\ Asked(w, b.w, p, s)
             /\ Answered(w, b.w, me, p)
             /\ b.charge \in {a.charge, p, NoPd}
  <2>1. b \in Accs /\ b.w = v /\ b.charge = z
    BY <1>8 DEF Accs
  <2> QED
    BY <1>2, <1>8, <2>1 DEF Answered
<1>9. ASSUME ~(a.stop \/ s = c.requested), ~Deny,
             IsAllowedByChildren(w, p, s)
      PROVE  /\ b \in Accs /\ Asked(w, b.w, p, s)
             /\ Answered(w, b.w, me, p)
             /\ b.charge \in {a.charge, p, NoPd}
  <2>1. Fits(w, p, s)
    BY <1>9 DEF Fits, Deny
  <2>2. Asked(w, u, p, s)
    BY <1>2, <2>1 DEF Asked, c
  <2>3. CASE c.toDriver = s
    <3>1. b = [a EXCEPT !.w = u, !.charge = a.charge, !.status = a.status,
                        !.initiated = a.initiated, !.stop = a.stop]
      BY <1>3, <1>9, <2>3 DEF Accs
    <3> QED
      BY <1>1, <1>2, <1>8, <2>2, <3>1
  <2>4. CASE c.toDriver # s /\ Late
    <3>1. b = [a EXCEPT !.w = u, !.charge = p, !.status = a.status,
                        !.initiated = a.initiated, !.stop = a.stop]
      BY <1>3, <1>9, <2>4 DEF Accs
    <3> QED
      BY <1>1, <1>2, <1>8, <2>2, <3>1
  <2>5. ASSUME c.toDriver # s, ~Late
        PROVE  IsAllowedByParentAndChildren(w, p, s)
    BY <1>5, <2>5 DEF Late
  <2>6. /\ n.w \in Worlds /\ n.w.answers = u.answers
        /\ n.w.pd[p].response = 0
        /\ n.w.pd[p].requested = s
    BY <1>2, <1>4 DEF Begun
  <2>7. CASE c.toDriver # s /\ ~Late /\ n.wait
    <3>1. b = [a EXCEPT !.w = n.w, !.charge = p, !.status = a.status,
                        !.initiated = a.initiated, !.stop = a.stop]
      BY <1>3, <1>9, <2>7 DEF Accs
    <3>2. Asked(w, n.w, p, s)
      BY <1>2, <1>4, <2>1, <2>5, <2>7 DEF Asked, Begun, Kept, c
    <3> QED
      BY <1>1, <1>8, <2>6, <3>1, <3>2
  <2>8. CASE c.toDriver # s /\ ~Late /\ ~n.wait /\ p \in refuse
    <3>1. b = [a EXCEPT !.w = x, !.charge = NoPd, !.status = "DEVICE",
                        !.initiated = a.initiated, !.stop = TRUE]
      BY <1>3, <1>9, <2>8 DEF Accs
    <3>2. c.requested \in States
      BY <1>1, PdFields DEF c
    <3>3. /\ x \in Worlds /\ Kept(n.w, x) /\ x.suspend = n.w.suspend
          /\ x.answers = n.w.answers
          /\ \A q \in PDs : q # p => x.pd[q] = n.w.pd[q]
          /\ x.pd[p].requested = c.requested
          /\ x.pd[p].toDriver = n.w.pd[p].toDriver
          /\ x.pd[p].current = n.w.pd[p].current
          /\ x.pd[p].response = n.w.pd[p].response
          /\ x.pd[p].pre = n.w.pd[p].pre /\ x.pd[p].post = n.w.pd[p].post
      BY <2>6, <3>2, RestoreOutcome DEF x
    <3>4. x.pd[p].pre.pending = 0
      BY <1>4, <2>8, <3>3
    <3>5. Asked(w, x, p, s)
      BY <1>2, <1>4, <3>3, <3>4 DEF Asked, Begun, Kept, c
    <3> QED
      BY <1>1, <1>6, <1>8, <2>6, <3>1, <3>3, <3>5
  <2>9. CASE c.toDriver # s /\ ~Late /\ ~n.wait /\ p \notin refuse
    <3>1. b = [a EXCEPT !.w = y, !.charge = p, !.status = a.status,
                        !.initiated = TRUE, !.stop = a.stop]
      BY <1>3, <1>9, <2>9 DEF Accs
    <3>2. /\ Begun(n.w, y, p)
          /\ Driven(n.w, y, p, Mapped[p][s]) /\ y.pd[p].toDriver = s
      BY <2>6, <2>9, InitiateOutcome DEF y
    <3>3. y \in Worlds /\ y.answers = u.answers /\ y.pd[p].response = 0
      BY <2>6, <3>2 DEF Begun
    <3>4. Driven(w, y, p, Mapped[p][s])
      BY <1>2, <1>4, <3>2 DEF Driven, Kept
    <3>5. Asked(w, y, p, s)
      BY <1>2, <1>4, <2>1, <2>5, <2>9, <3>2, <3>4 DEF Asked, Begun, c
    <3> QED
      BY <1>1, <1>8, <3>1, <3>3, <3>5
  <2> QED
    BY <1>4, <2>3, <2>4, <2>7, <2>8, <2>9
<1>10. \/ ~(a.stop \/ s = c.requested) /\ ~Deny /\ IsAllowedByChildren(w, p, s)
       \/ b = a \/ b = [a EXCEPT !.status = "PWRSTATE", !.stop = TRUE]
  BY <1>1, <1>3
<1> QED
  BY <1>7, <1>9, <1>10 DEF b, w

----------------------------------------------------------------------------
(* The walk of a set state request over the levels of a path. *)

Composites(p) == {cs \in Seq(States) : Len(cs) \in 1..Len(PathUp[p])}

(* The level of the i-th round, its domain and its state. *)
Level(w, p, cs, i) == IF IsUpwards(w, p, cs) THEN i ELSE Len(cs) + 1 - i
LevelPd(w, p, cs, i) == PathUp[p][Level(w, p, cs, i)]
LevelState(w, p, cs, i) == cs[Level(w, p, cs, i)]

(* Each round has a domain of its own. *)
LEMMA LevelsDiffer ==
    ASSUME NEW w, NEW p \in PDs, NEW cs \in Composites(p)
    PROVE  /\ Len(cs) \in Nat /\ Len(cs) >= 1
           /\ \A i \in 1..Len(cs) :
                 /\ Level(w, p, cs, i) \in 1..Len(PathUp[p])
                 /\ LevelPd(w, p, cs, i) \in PDs
                 /\ LevelState(w, p, cs, i) \in States
           /\ \A i, j \in 1..Len(cs) :
                 i # j => LevelPd(w, p, cs, i) # LevelPd(w, p, cs, j)
<1> DEFINE n == Len(cs)
           path == PathUp[p]
           L(i) == Level(w, p, cs, i)
<1>1. n \in Nat /\ n >= 1 /\ cs \in [1..n -> States] /\ n <= Len(path)
  BY DEF Composites
<1>2. /\ path \in Seq(PDs) /\ Len(path) \in Nat
      /\ path \in [1..Len(path) -> PDs]
      /\ \A l, m \in 1..Len(path) : l < m => path[l] < path[m]
  BY PathUpGoesUp
<1>3. \A i \in 1..n : L(i) \in 1..n
  BY <1>1 DEF Level
<1>4. \A i, j \in 1..n : i # j => L(i) # L(j)
  BY <1>1 DEF Level
<1> HIDE DEF n, path, L
<1>5. \A i \in 1..n : L(i) \in 1..Len(path) /\ path[L(i)] \in PDs
                      /\ cs[L(i)] \in States
  <2> SUFFICES ASSUME NEW i \in 1..n
               PROVE  /\ L(i) \in 1..Len(path) /\ path[L(i)] \in PDs
                      /\ cs[L(i)] \in States
    OBVIOUS
  <2>1. L(i) \in 1..n
    BY <1>3
  <2>2. L(i) \in 1..Len(path)
    BY <1>1, <1>2, <2>1
  <2> QED
    BY <1>1, <1>2, <2>1, <2>2
<1>6. ASSUME NEW i \in 1..n, NEW j \in 1..n, i # j
      PROVE  path[L(i)] # path[L(j)]
  <2>1. L(i) # L(j) /\ L(i) \in 1..Len(path) /\ L(j) \in 1..Len(path)
    BY <1>4, <1>5, <1>6
  <2>2. path[L(i)] \in Nat /\ path[L(j)] \in Nat
    BY <1>5 DEF PDs
  <2>3. L(i) < L(j) \/ L(j) < L(i)
    BY <1>2, <2>1
  <2>4. path[L(i)] < path[L(j)] \/ path[L(j)] < path[L(i)]
    BY <1>2, <2>1, <2>3
  <2> QED
    BY <2>2, <2>4
<1> QED
  BY <1>1, <1>5, <1>6 DEF n, path, L, LevelPd, LevelState

(* What the first round starts from. *)
Start(w) ==
    [w |-> [w EXCEPT !.suspend.lastCoreOff = FALSE], charge |-> NoPd,
     status |-> "SUCCESS", initiated |-> FALSE, stop |-> FALSE]

(* The request cancels the completion of a suspend and nothing else yet. *)
LEMMA StartOutcome ==
    ASSUME NEW w \in Worlds
    PROVE  LET a == Start(w)
           IN  /\ a \in Accs /\ a.charge = NoPd
               /\ a.w.pd = w.pd /\ Kept(w, a.w) /\ a.w.answers = w.answers
               /\ a.w.suspend = [w.suspend EXCEPT !.lastCoreOff = FALSE]
<1> DEFINE x == [w.suspend EXCEPT !.lastCoreOff = FALSE]
           v == [w EXCEPT !.suspend = x]
<1>1. x \in SuspendContexts
  BY WorldFields DEF SuspendContexts
<1>2. Start(w) = [w |-> v, charge |-> NoPd, status |-> "SUCCESS",
                  initiated |-> FALSE, stop |-> FALSE]
  BY DEF Start
<1> HIDE DEF x
<1>3. /\ v \in Worlds /\ v.pd = w.pd /\ Kept(w, v) /\ v.answers = w.answers
      /\ v.suspend = x
  BY <1>1 DEF Worlds, Kept
<1> HIDE DEF v
<1>4. "SUCCESS" \in Statuses
  BY DEF Statuses
<1>5. Start(w) \in Accs /\ Start(w).w = v /\ Start(w).charge = NoPd
  BY <1>2, <1>3, <1>4 DEF Accs
<1> QED
  BY <1>3, <1>5 DEF x

(* f has the results of the rounds of a walk. *)
IsWalk(f, w, me, p, cs, refuse) ==
    /\ f[0] = Start(w)
    /\ \A i \in 1..Len(cs) :
          f[i] = SetStateLevel(f[i - 1], me, LevelPd(w, p, cs, i),
                               LevelState(w, p, cs, i), refuse)
    /\ \A i \in 0..Len(cs) : f[i] \in Accs
    /\ Walk(w, me, p, cs, refuse) = f[Len(cs)]

(* Every walk has rounds. *)
LEMMA WalkDefined ==
    ASSUME NEW w \in Worlds, NEW me, NEW p \in PDs, NEW cs \in Composites(p),
           NEW refuse
    PROVE  \E f : IsWalk(f, w, me, p, cs, refuse)
<1> DEFINE n == Len(cs)
           Step(a, i) == SetStateLevel(a, me, LevelPd(w, p, cs, i),
                                       LevelState(w, p, cs, i), refuse)
           A == [i \in 0..n |-> Accs]
           F == [i \in 1..n |-> [a \in Accs |-> Step(a, i)]]
           Rounds(f) == f = [i \in 0..n |-> IF i = 0 THEN Start(w)
                                            ELSE Step(f[i - 1], i)]
           f == CHOOSE g : Rounds(g)
<1>1. /\ n \in Nat /\ n >= 1
      /\ \A i \in 1..n : /\ LevelPd(w, p, cs, i) \in PDs
                         /\ LevelState(w, p, cs, i) \in States
  BY LevelsDiffer
<1>2. Start(w) \in Accs
  BY StartOutcome
<1>3. \A i \in 1..n : \A a \in Accs : Step(a, i) \in Accs
  BY <1>1, LevelOutcome
<1>4. \E g : Rounds(g)
  <2> HIDE DEF Step
  <2>1. \A i \in 1..n : \A a \in A[i - 1] : F[i][a] \in A[i]
    BY <1>1, <1>3
  <2>2. Start(w) \in A[0]
    BY <1>1, <1>2
  <2>3. \A i \in 1..n : \A a \in Accs : F[i][a] = Step(a, i)
    OBVIOUS
  <2>4. \A i \in 0..n : A[i] = Accs
    OBVIOUS
  <2> HIDE DEF A, F
  <2> HIDE DEF n
  <2>9. PICK g : IsLoop(g, n, A, Start(w), F)
    BY <1>1, <2>1, <2>2, LoopDefined
  <2>5. /\ g = [i \in 0..n |-> g[i]] /\ g[0] = Start(w)
        /\ \A i \in 1..n : g[i] = F[i][g[i - 1]]
        /\ \A i \in 0..n : g[i] \in A[i]
    BY <2>9 DEF IsLoop
  <2>6. \A i \in 0..n : i # 0 => i \in 1..n /\ i - 1 \in 0..n
    BY <1>1
  <2>7. \A i \in 0..n : g[i] = IF i = 0 THEN Start(w) ELSE Step(g[i - 1], i)
    BY <2>3, <2>4, <2>5, <2>6
  <2>8. Rounds(g)
    BY <2>5, <2>7
  <2> QED
    BY <2>8
<1>5. Rounds(f)
  <2> HIDE DEF Rounds
  <2> QED
    BY <1>4
<1>6. Walk(w, me, p, cs, refuse) = f[n]
  BY DEF Walk, Level, LevelPd, LevelState, Start
<1> HIDE DEF f, Step
<1>7. f[0] = Start(w) /\ \A i \in 1..n : f[i] = Step(f[i - 1], i)
  BY <1>1, <1>5
<1>8. \A i \in 0..n : f[i] \in Accs
  <2>1. \A i \in 0..n : A[i] = Accs
    OBVIOUS
  <2>2. f[0] \in A[0] /\ \A i \in 1..n : f[i - 1] \in A[i - 1] => f[i] \in A[i]
    BY <1>1, <1>2, <1>3, <1>7
  <2> HIDE DEF A
  <2>3. \A i \in 0..n : f[i] \in A[i]
    BY <1>1, <2>2, LoopInvariant
  <2> QED
    BY <2>1, <2>3
<1>9. IsWalk(f, w, me, p, cs, refuse)
  BY <1>6, <1>7, <1>8 DEF IsWalk, Step
<1> QED
  BY <1>9

----------------------------------------------------------------------------
(* What the handlers preserve. *)

(* The states asked of a domain and of its parent are compatible. *)
Tree(w) ==
    \A p \in PDs : Parent[p] # NoPd =>
        IsAllowedByChild(p, w.pd[Parent[p]].requested, w.pd[p].requested)

Reported(w, p) == \E i \in DOMAIN w.reports : w.reports[i].pd = p
InFlight(w, p) == w.target[p] # NoState \/ Reported(w, p)

(* The domains of S that are in transition go to the state asked of them.  *)
Flight(w, S) ==
    \A p \in S : InFlight(w, p) => w.pd[p].requested = w.pd[p].toDriver

(* p may go to the state asked of it without another look at its           *)
(* neighbours.                                                             *)
Moving(w, p) ==
    w.target[p] # NoState \/ (w.pd[p].pre.pending # 0 /\ w.pd[p].pre.valid)

(* The hardware of p is, or will be, in state x. *)
May(w, p, x) ==
    x = w.hw[p] \/ (Moving(w, p) /\ x = w.pd[p].requested)

(* All that the neighbours of p may be in is compatible with s at p. *)
Compatible(w, p, s) ==
    /\ Parent[p] # NoPd =>
           \A y \in States : May(w, Parent[p], y) => IsAllowedByChild(p, y, s)
    /\ \A c \in Children(p) :
           \A x \in States : May(w, c, x) => IsAllowedByChild(c, s, x)

(* Whatever is reported is asked for and reached. *)
TrueReports(w) ==
    \A i \in DOMAIN w.reports :
        LET r == w.reports[i]
        IN  r.state = w.pd[r.pd].requested /\ w.hw[r.pd] = w.pd[r.pd].requested

Hard(w) ==
    /\ TrueReports(w)
    /\ \A p \in PDs : w.target[p] # NoState => w.target[p] = w.pd[p].requested
    /\ \A p \in PDs : w.hw[p] # w.pd[p].current => Reported(w, p)
    /\ \A p \in PDs : Parent[p] # NoPd =>
           \A x, y \in States : May(w, p, x) /\ May(w, Parent[p], y) =>
               IsAllowedByChild(p, y, x)

(* What a call of the driver of p does to the others, and to p. *)
LEMMA DrivenFacts ==
    ASSUME NEW w \in Worlds, NEW v \in Worlds, NEW p \in PDs, NEW s \in States,
           Driven(w, v, p, s)
    PROVE  /\ \A q \in PDs : q # p => /\ v.target[q] = w.target[q]
                                      /\ v.hw[q] = w.hw[q]
           /\ \A q \in PDs : q # p => (Reported(v, q) <=> Reported(w, q))
           /\ Reported(w, p) => Reported(v, p)
           /\ v.target[p] = w.target[p] \/ v.target[p] = s
           /\ \/ v.hw[p] = w.hw[p] /\ v.target[p] = s /\ v.reports = w.reports
              \/ v.hw[p] = s /\ Reported(v, p)
           /\ \A i \in DOMAIN v.reports :
                 \/ i \in DOMAIN w.reports /\ v.reports[i] = w.reports[i]
                 \/ v.reports[i].pd = p /\ v.reports[i].state = s /\ v.hw[p] = s
           /\ InFlight(v, p)
           /\ v.hw[p] # w.hw[p] => v.hw[p] = s
<1>1. /\ w.target \in [PDs -> States \cup {NoState}] /\ w.hw \in [PDs -> States]
      /\ w.reports \in Seq(Reports)
  BY WorldFields
<1>2. NoState \notin States
  BY DEF NoState, States, Off, On, Sleep
<1>3. CASE /\ v.target = [w.target EXCEPT ![p] = s]
           /\ v.hw = w.hw /\ v.reports = w.reports
  <2>1. v.target[p] = s /\ \A q \in PDs : q # p => v.target[q] = w.target[q]
    BY <1>1, <1>3
  <2>2. \A q : Reported(v, q) <=> Reported(w, q)
    BY <1>3 DEF Reported
  <2> QED
    BY <1>2, <1>3, <2>1, <2>2 DEF InFlight
<1>4. CASE /\ v.target = w.target /\ v.hw = [w.hw EXCEPT ![p] = s]
           /\ v.reports = Append(w.reports, [pd |-> p, state |-> s])
  <2> DEFINE r == [pd |-> p, state |-> s]
             n == Len(w.reports)
  <2>1. v.hw[p] = s /\ \A q \in PDs : q # p => v.hw[q] = w.hw[q]
    BY <1>1, <1>4
  <2>2. r \in Reports /\ r.pd = p /\ r.state = s
    BY DEF Reports
  <2>3. v.reports = Append(w.reports, r)
    BY <1>4
  <2> HIDE DEF r
  <2>4. /\ n \in Nat /\ DOMAIN w.reports = 1..n /\ DOMAIN v.reports = 1..(n + 1)
        /\ \A i \in 1..n : v.reports[i] = w.reports[i]
        /\ v.reports[n + 1] = r
    BY <1>1, <2>2, <2>3
  <2> HIDE DEF n
  <2>5. \A i \in DOMAIN v.reports : i \in DOMAIN w.reports \/ i = n + 1
    BY <2>4
  <2>6. \A i \in DOMAIN v.reports :
           \/ i \in DOMAIN w.reports /\ v.reports[i] = w.reports[i]
           \/ v.reports[i].pd = p /\ v.reports[i].state = s /\ v.hw[p] = s
    BY <2>1, <2>2, <2>4, <2>5
  <2>7. n + 1 \in DOMAIN v.reports /\ DOMAIN w.reports \subseteq DOMAIN v.reports
    BY <2>4
  <2>8. Reported(v, p)
    BY <2>2, <2>4, <2>7 DEF Reported
  <2>9. \A q \in PDs : q # p => (Reported(v, q) <=> Reported(w, q))
    BY <2>4, <2>6, <2>7 DEF Reported
  <2> QED
    BY <1>4, <2>1, <2>6, <2>8, <2>9 DEF InFlight
<1> QED
  BY <1>3, <1>4 DEF Driven

(* Nor does it change anything when no driver is called. *)
LEMMA KeptFacts ==
    ASSUME NEW w, NEW v, Kept(w, v)
    PROVE  /\ \A q : v.target[q] = w.target[q] /\ v.hw[q] = w.hw[q]
           /\ \A q : Reported(v, q) <=> Reported(w, q)
           /\ \A q : InFlight(v, q) <=> InFlight(w, q)
BY DEF Kept, Reported, InFlight

(* The hardware is, or will be, in the current state or the one asked for. *)
LEMMA MayBe ==
    ASSUME NEW w \in Worlds, Hard(w), NEW q \in PDs, NEW y, May(w, q, y)
    PROVE  y = w.pd[q].current \/ y = w.pd[q].requested
<1>1. CASE w.hw[q] # w.pd[q].current
  <2>1. PICK i \in DOMAIN w.reports : w.reports[i].pd = q
    BY <1>1 DEF Hard, Reported
  <2>2. w.hw[q] = w.pd[q].requested
    BY <2>1 DEF Hard, TrueReports
  <2> QED
    BY <2>2 DEF May
<1>2. CASE w.hw[q] = w.pd[q].current
  BY <1>2 DEF May
<1> QED
  BY <1>1, <1>2

(* So a state that the requests of the neighbours allow and their current  *)
(* states allow is compatible with all that they may be in.                *)
LEMMA CompatibleIf ==
    ASSUME NEW w \in Worlds, Hard(w), NEW p \in PDs, NEW s \in States,
           Fits(w, p, s), IsAllowedByParentAndChildren(w, p, s)
    PROVE  Compatible(w, p, s)
<1>1. ASSUME Parent[p] # NoPd, NEW y \in States, May(w, Parent[p], y)
      PROVE  IsAllowedByChild(p, y, s)
  <2>1. Parent[p] \in PDs
    BY <1>1, Tables
  <2>2. y = w.pd[Parent[p]].current \/ y = w.pd[Parent[p]].requested
    BY <1>1, <2>1, MayBe
  <2> QED
    BY <1>1, <2>2 DEF Fits, IsAllowedByParentAndChildren
<1>2. ASSUME NEW c \in Children(p), NEW x \in States, May(w, c, x)
      PROVE  IsAllowedByChild(c, s, x)
  <2>1. c \in PDs
    BY DEF Children
  <2>2. x = w.pd[c].current \/ x = w.pd[c].requested
    BY <1>2, <2>1, MayBe
  <2> QED
    BY <2>2 DEF Fits, IsAllowedByParentAndChildren, IsAllowedByChildren
<1> QED
  BY <1>1, <1>2 DEF Compatible

(* A domain that is moving has been looked at. *)
LEMMA CompatibleMoving ==
    ASSUME NEW w \in Worlds, Hard(w), NEW p \in PDs, Moving(w, p)
    PROVE  Compatible(w, p, w.pd[p].requested)
<1> DEFINE s == w.pd[p].requested
<1>1. s \in States /\ May(w, p, s)
  BY PdFields DEF May
<1> HIDE DEF s
<1>2. ASSUME Parent[p] # NoPd, NEW y \in States, May(w, Parent[p], y)
      PROVE  IsAllowedByChild(p, y, s)
  BY <1>1, <1>2 DEF Hard
<1>3. ASSUME NEW c \in Children(p), NEW x \in States, May(w, c, x)
      PROVE  IsAllowedByChild(c, s, x)
  <2>1. c \in PDs /\ Parent[c] = p /\ p # NoPd
    BY Tables DEF Children
  <2> QED
    BY <1>1, <1>3, <2>1 DEF Hard
<1> QED
  BY <1>2, <1>3 DEF Compatible, s

(* In a tree of compatible requests the state asked of a domain fits. *)
LEMMA RequestedFits ==
    ASSUME NEW w \in Worlds, Tree(w), NEW p \in PDs
    PROVE  Fits(w, p, w.pd[p].requested)
<1>1. \A c \in Children(p) : c \in PDs /\ Parent[c] = p /\ p # NoPd
  BY Tables DEF Children
<1> QED
  BY <1>1 DEF Fits, Tree, IsAllowedByChildren

(* Hard is preserved by a step at p that leaves its current state alone,   *)
(* changes what is asked of it only when nothing is under way, and has its *)
(* driver called, or announced, only for a state compatible with all that  *)
(* the neighbours may be in.                                               *)
LEMMA HardStep ==
    ASSUME NEW w \in Worlds, NEW v \in Worlds, NEW p \in PDs, Hard(w),
           \A q \in PDs : q # p => v.pd[q] = w.pd[q],
           v.pd[p].current = w.pd[p].current,
           v.pd[p].requested = w.pd[p].requested \/ ~InFlight(w, p),
           Kept(w, v) \/ Driven(w, v, p, v.pd[p].requested),
           \/ Kept(w, v) /\ ~Moving(v, p)
           \/ Compatible(w, p, v.pd[p].requested)
    PROVE  Hard(v)
<1> DEFINE s == v.pd[p].requested
<1>1. s \in States
  BY PdFields
<1>2. /\ \A q \in PDs : q # p => v.target[q] = w.target[q] /\ v.hw[q] = w.hw[q]
      /\ \A q \in PDs : q # p => (Reported(v, q) <=> Reported(w, q))
      /\ Reported(w, p) => Reported(v, p)
      /\ v.target[p] = w.target[p] \/ v.target[p] = s
      /\ v.hw[p] = w.hw[p] \/ (v.hw[p] = s /\ Reported(v, p))
      /\ \A i \in DOMAIN v.reports :
            \/ i \in DOMAIN w.reports /\ v.reports[i] = w.reports[i]
            \/ v.reports[i].pd = p /\ v.reports[i].state = s /\ v.hw[p] = s
  <2> HIDE DEF s
  <2>1. CASE Kept(w, v)
    <3>1. /\ \A q : v.target[q] = w.target[q] /\ v.hw[q] = w.hw[q]
          /\ \A q : Reported(v, q) <=> Reported(w, q)
      BY <2>1, KeptFacts
    <3>2. v.reports = w.reports
      BY <2>1 DEF Kept
    <3> QED
      BY <3>1, <3>2
  <2>2. CASE Driven(w, v, p, s)
    <3>1. /\ \A q \in PDs : q # p => /\ v.target[q] = w.target[q]
                                     /\ v.hw[q] = w.hw[q]
          /\ \A q \in PDs : q # p => (Reported(v, q) <=> Reported(w, q))
          /\ Reported(w, p) => Reported(v, p)
          /\ v.target[p] = w.target[p] \/ v.target[p] = s
          /\ \A i \in DOMAIN v.reports :
                \/ i \in DOMAIN w.reports /\ v.reports[i] = w.reports[i]
                \/ v.reports[i].pd = p /\ v.reports[i].state = s /\ v.hw[p] = s
      BY <1>1, <2>2, DrivenFacts
    <3>2. \/ v.hw[p] = w.hw[p] /\ v.target[p] = s /\ v.reports = w.reports
          \/ v.hw[p] = s /\ Reported(v, p)
      BY <1>1, <2>2, DrivenFacts
    <3> QED
      BY <3>1, <3>2
  <2> QED
    BY <2>1, <2>2 DEF s
<1>3. Reported(w, p) \/ w.target[p] # NoState => w.pd[p].requested = s
  BY DEF InFlight
<1>4. TrueReports(v)
  <2> SUFFICES ASSUME NEW i \in DOMAIN v.reports
               PROVE  LET r == v.reports[i]
                      IN  /\ r.state = v.pd[r.pd].requested
                          /\ v.hw[r.pd] = v.pd[r.pd].requested
    BY DEF TrueReports
  <2> DEFINE r == v.reports[i]
  <2>1. CASE r.pd = p /\ r.state = s /\ v.hw[p] = s
    BY <2>1
  <2>2. CASE i \in DOMAIN w.reports /\ r = w.reports[i]
    <3>1. r.state = w.pd[r.pd].requested /\ w.hw[r.pd] = w.pd[r.pd].requested
      BY <2>2 DEF Hard, TrueReports
    <3>2. r.pd \in PDs
      <4>1. w.reports \in Seq(Reports)
        BY WorldFields
      <4>2. r \in Reports
        BY <2>2, <4>1
      <4> QED
        BY <4>2 DEF Reports
    <3>3. CASE r.pd = p
      <4>1. Reported(w, p)
        BY <2>2, <3>3 DEF Reported
      <4> QED
        BY <1>2, <1>3, <3>1, <3>3, <4>1
    <3>4. CASE r.pd # p
      BY <1>2, <3>1, <3>2, <3>4
    <3> QED
      BY <3>3, <3>4
  <2> QED
    BY <1>2, <2>1, <2>2
<1>5. ASSUME NEW q \in PDs, v.target[q] # NoState
      PROVE  v.target[q] = v.pd[q].requested
  BY <1>2, <1>3, <1>5 DEF Hard
<1>6. ASSUME NEW q \in PDs, v.hw[q] # v.pd[q].current
      PROVE  Reported(v, q)
  <2>1. CASE q # p
    BY <1>2, <1>6, <2>1 DEF Hard
  <2>2. CASE q = p
    BY <1>2, <1>6, <2>2 DEF Hard
  <2> QED
    BY <2>1, <2>2
<1>7. ASSUME NEW q \in PDs, q # p, NEW x PROVE May(v, q, x) <=> May(w, q, x)
  BY <1>2, <1>7 DEF May, Moving
<1>8. ASSUME NEW x, May(v, p, x)
      PROVE  May(w, p, x) \/ (x = s /\ Compatible(w, p, s))
  <2>1. CASE x = w.hw[p]
    BY <2>1 DEF May
  <2>2. CASE x # w.hw[p]
    <3>1. x = s
      BY <1>2, <1>8, <2>2 DEF May
    <3>2. ~(Kept(w, v) /\ ~Moving(v, p))
      BY <1>8, <2>2 DEF May, Kept
    <3> QED
      BY <3>1, <3>2
  <2> QED
    BY <2>1, <2>2
<1>9. ASSUME NEW q \in PDs, Parent[q] # NoPd, NEW x \in States,
             NEW y \in States, May(v, q, x), May(v, Parent[q], y)
      PROVE  IsAllowedByChild(q, y, x)
  <2>1. Parent[q] \in PDs /\ Parent[q] # q
    <3>1. Parent[q] \in PDs /\ Parent[q] > q
      BY <1>9, Tables, PowerDomainAssumption
    <3> QED
      BY <3>1 DEF PDs
  <2>2. CASE q = p
    <3>1. May(w, Parent[q], y)
      BY <1>7, <1>9, <2>1, <2>2
    <3> QED
      BY <1>8, <1>9, <2>2, <3>1 DEF Hard, Compatible
  <2>3. CASE Parent[q] = p
    <3>1. May(w, q, x) /\ q \in Children(p)
      BY <1>7, <1>9, <2>1, <2>3 DEF Children
    <3> QED
      BY <1>8, <1>9, <2>3, <3>1 DEF Hard, Compatible
  <2>4. CASE q # p /\ Parent[q] # p
    BY <1>7, <1>9, <2>1, <2>4 DEF Hard
  <2> QED
    BY <2>2, <2>3, <2>4
<1> QED
  BY <1>4, <1>5, <1>6, <1>9 DEF Hard

(* No driver has a state of its own for a state of the HAL. *)
NotMapped == \A p \in PDs, s \in States : Mapped[p][s] = s

(* A level keeps the requests compatible. *)
LEMMA AskedTree ==
    ASSUME NEW w \in Worlds, NEW v, NEW p \in PDs, NEW s, Tree(w),
           Asked(w, v, p, s)
    PROVE  Tree(v)
<1>1. \/ v.pd[p].requested = w.pd[p].requested
      \/ v.pd[p].requested = s /\ Fits(w, p, s)
  BY DEF Asked
<1>2. \A q \in PDs : q # p => v.pd[q] = w.pd[q]
  BY DEF Asked
<1> SUFFICES ASSUME NEW q \in PDs, Parent[q] # NoPd
             PROVE  IsAllowedByChild(q, v.pd[Parent[q]].requested,
                                     v.pd[q].requested)
  BY DEF Tree
<1>3. Parent[q] \in PDs /\ Parent[q] # q
  <2>1. Parent[q] \in PDs /\ Parent[q] > q
    BY Tables, PowerDomainAssumption
  <2> QED
    BY <2>1 DEF PDs
<1>4. CASE q = p
  BY <1>1, <1>2, <1>3, <1>4 DEF Tree, Fits
<1>5. CASE Parent[q] = p
  BY <1>1, <1>2, <1>3, <1>5 DEF Tree, Fits, IsAllowedByChildren, Children
<1>6. CASE q # p /\ Parent[q] # p
  BY <1>2, <1>3, <1>6 DEF Tree
<1> QED
  BY <1>4, <1>5, <1>6

(* It starts no other transition. *)
LEMMA AskedInFlight ==
    ASSUME NEW w \in Worlds, NEW v, NEW p \in PDs, NEW s \in States,
           Asked(w, v, p, s)
    PROVE  \A q \in PDs : q # p => (InFlight(v, q) <=> InFlight(w, q))
<1>1. v \in Worlds /\ (Kept(w, v) \/ Driven(w, v, p, Mapped[p][s]))
  BY DEF Asked, Kept
<1>2. CASE Kept(w, v)
  BY <1>2, KeptFacts
<1>3. CASE Driven(w, v, p, Mapped[p][s])
  <2>1. Mapped[p][s] \in States
    BY Tables
  <2> QED
    BY <1>1, <1>3, <2>1, DrivenFacts DEF InFlight
<1> QED
  BY <1>1, <1>2, <1>3

(* What it starts goes to the state asked for. *)
LEMMA AskedFlight ==
    ASSUME NEW w \in Worlds, NEW v, NEW p \in PDs, NEW s \in States,
           Asked(w, v, p, s), NEW S \in SUBSET PDs, Flight(w, S),
           p \notin S \/ ~InFlight(w, p)
    PROVE  Flight(v, S)
<1> SUFFICES ASSUME NEW q \in S, InFlight(v, q)
             PROVE  v.pd[q].requested = v.pd[q].toDriver
  BY DEF Flight
<1>1. CASE q # p
  <2>1. InFlight(w, q) /\ v.pd[q] = w.pd[q]
    BY <1>1, AskedInFlight DEF Asked
  <2> QED
    BY <2>1 DEF Flight
<1>2. CASE q = p
  <2>1. ~Kept(w, v)
    BY <1>2, KeptFacts
  <2> QED
    BY <1>2, <2>1 DEF Asked, Kept
<1> QED
  BY <1>1, <1>2

(* It keeps the hardware right. *)
LEMMA AskedHard ==
    ASSUME NEW w \in Worlds, NEW v, NEW p \in PDs, NEW s \in States,
           NotMapped, Hard(w), Asked(w, v, p, s), ~InFlight(w, p)
    PROVE  Hard(v)
<1>1. /\ v \in Worlds /\ v.pd[p].current = w.pd[p].current
      /\ \A q \in PDs : q # p => v.pd[q] = w.pd[q]
  BY DEF Asked
<1>2. ASSUME Kept(w, v), ~(v.pd[p].pre.pending # 0 /\ v.pd[p].pre.valid)
      PROVE  Hard(v)
  <2>1. ~Moving(v, p)
    BY <1>2, KeptFacts DEF Moving, InFlight
  <2> QED
    BY <1>1, <1>2, <2>1, HardStep
<1>3. ASSUME v.pd[p].requested = s, Fits(w, p, s),
             IsAllowedByParentAndChildren(w, p, s),
             Kept(w, v) \/ Driven(w, v, p, s)
      PROVE  Hard(v)
  <2>1. Compatible(w, p, s)
    BY <1>3, CompatibleIf
  <2> QED
    BY <1>1, <1>3, <2>1, HardStep
<1>4. Mapped[p][s] = s
  BY DEF NotMapped
<1> QED
  BY <1>2, <1>3, <1>4 DEF Asked

----------------------------------------------------------------------------
(* The transitions that a report makes possible. *)

(* Transitions were announced or started, each for the state asked for and *)
(* when the neighbours allowed it.                                         *)
Reached(w, v) ==
    /\ v \in Worlds /\ v.answers = w.answers /\ v.suspend = w.suspend
    /\ \A q \in PDs : /\ v.pd[q].requested = w.pd[q].requested
                      /\ v.pd[q].current = w.pd[q].current
                      /\ v.pd[q].response = w.pd[q].response
                      /\ v.pd[q].post = w.pd[q].post
    /\ \A S \in SUBSET PDs : Flight(w, S) => Flight(v, S)
    /\ NotMapped /\ Tree(w) /\ Hard(w) => Hard(v)

(* Nothing happened. *)
LEMMA ReachedSelf ==
    ASSUME NEW w \in Worlds
    PROVE  Reached(w, w)
BY DEF Reached

(* Tree depends on the states asked for only. *)
LEMMA TreeSame ==
    ASSUME NEW w, NEW v,
           \A q \in PDs : v.pd[q].requested = w.pd[q].requested, Tree(w)
    PROVE  Tree(v)
<1> SUFFICES ASSUME NEW q \in PDs, Parent[q] # NoPd
             PROVE  IsAllowedByChild(q, v.pd[Parent[q]].requested,
                                     v.pd[q].requested)
  BY DEF Tree
<1>1. Parent[q] \in PDs
  BY Tables
<1> QED
  BY <1>1 DEF Tree

(* One after the other. *)
LEMMA ReachedTwice ==
    ASSUME NEW w, NEW u, NEW v, Reached(w, u), Reached(u, v)
    PROVE  Reached(w, v)
<1>1. Tree(w) => Tree(u)
  BY TreeSame DEF Reached
<1>2. \A S \in SUBSET PDs : Flight(w, S) => Flight(v, S)
  BY DEF Reached
<1>3. NotMapped /\ Tree(w) /\ Hard(w) => Hard(v)
  BY <1>1 DEF Reached
<1> QED
  BY <1>2, <1>3 DEF Reached

(* One domain begins. *)
LEMMA BegunReached ==
    ASSUME NEW w \in Worlds, NEW v, NEW p \in PDs, Begun(w, v, p),
           Tree(w) /\ Hard(w) => \/ Compatible(w, p, w.pd[p].requested)
                                 \/ Kept(w, v) /\ ~Moving(v, p)
    PROVE  Reached(w, v)
<1> DEFINE s == w.pd[p].requested
           m == Mapped[p][s]
<1>1. s \in States /\ m \in States /\ v \in Worlds
  BY PdFields, Tables DEF Begun
<1>2. \A q \in PDs : q # p => v.pd[q] = w.pd[q]
  BY DEF Begun
<1>3. v.pd[p].requested = s /\ v.pd[p].current = w.pd[p].current
  BY DEF Begun
<1>4. \/ Kept(w, v) /\ v.pd[p].toDriver = w.pd[p].toDriver
      \/ Driven(w, v, p, m) /\ v.pd[p].toDriver = s
  BY DEF Begun
<1>5. ASSUME NEW S \in SUBSET PDs, Flight(w, S) PROVE Flight(v, S)
  <2> SUFFICES ASSUME NEW q \in S, InFlight(v, q)
               PROVE  v.pd[q].requested = v.pd[q].toDriver
    BY DEF Flight
  <2> HIDE DEF s, m
  <2>1. CASE Kept(w, v) /\ v.pd[p].toDriver = w.pd[p].toDriver
    <3>1. InFlight(w, q)
      BY <2>1, KeptFacts
    <3> QED
      BY <1>2, <1>3, <1>5, <2>1, <3>1 DEF Flight, s
  <2>2. CASE Driven(w, v, p, m) /\ v.pd[p].toDriver = s
    <3>1. CASE q = p
      BY <1>3, <2>2, <3>1
    <3>2. CASE q # p
      <4>1. InFlight(w, q)
        BY <1>1, <2>2, <3>2, DrivenFacts DEF InFlight
      <4> QED
        BY <1>2, <1>5, <3>2, <4>1 DEF Flight
    <3> QED
      BY <3>1, <3>2
  <2> QED
    BY <1>4, <2>1, <2>2
<1>6. ASSUME NotMapped, Tree(w), Hard(w) PROVE Hard(v)
  <2>1. m = s
    BY <1>1, <1>6 DEF NotMapped
  <2>2. Compatible(w, p, s) \/ (Kept(w, v) /\ ~Moving(v, p))
    BY <1>6
  <2> HIDE DEF s, m
  <2>3. Kept(w, v) \/ Driven(w, v, p, v.pd[p].requested)
    BY <1>3, <1>4, <2>1
  <2> QED
    BY <1>1, <1>2, <1>3, <1>6, <2>2, <2>3, HardStep DEF s
<1>7. \A q \in PDs : /\ v.pd[q].requested = w.pd[q].requested
                     /\ v.pd[q].current = w.pd[q].current
                     /\ v.pd[q].response = w.pd[q].response
                     /\ v.pd[q].post = w.pd[q].post
  BY DEF Begun
<1>8. v.answers = w.answers /\ v.suspend = w.suspend
  BY DEF Begun
<1> QED
  BY <1>1, <1>5, <1>6, <1>7, <1>8 DEF Reached

(* Begin, when the neighbours allow it. *)
LEMMA BeginReached ==
    ASSUME NEW w \in Worlds, NEW p \in PDs, NEW refuse,
           IsAllowedByParentAndChildren(w, p, w.pd[p].requested)
    PROVE  Reached(w, Begin(w, p, refuse))
<1>1. Begun(w, Begin(w, p, refuse), p)
  BY BeginOutcome
<1>2. Tree(w) /\ Hard(w) => Compatible(w, p, w.pd[p].requested)
  <2>1. w.pd[p].requested \in States
    BY PdFields
  <2> QED
    BY <2>1, RequestedFits, CompatibleIf
<1> QED
  BY <1>1, <1>2, BegunReached

(* ReportDeeper: the parent may begin. *)
LEMMA DeeperReached ==
    ASSUME NEW w \in Worlds, NEW p \in PDs, NEW refuse
    PROVE  Reached(w, ReportDeeper(w, p, refuse))
<1> DEFINE q == Parent[p]
<1>1. CASE \/ q = NoPd
           \/ w.pd[q].toDriver = w.pd[q].requested
           \/ ~IsAllowedByParentAndChildren(w, q, w.pd[q].requested)
  BY <1>1, ReachedSelf DEF ReportDeeper
<1>2. CASE ~(\/ q = NoPd
             \/ w.pd[q].toDriver = w.pd[q].requested
             \/ ~IsAllowedByParentAndChildren(w, q, w.pd[q].requested))
  <2>1. ReportDeeper(w, p, refuse) = Begin(w, q, refuse)
    BY <1>2 DEF ReportDeeper
  <2>2. q \in PDs
    BY <1>2, Tables
  <2> HIDE DEF q
  <2> QED
    BY <1>2, <2>1, <2>2, BeginReached
<1> QED
  BY <1>1, <1>2

(* What the loop over the children hands on. *)
Hands(w) == {a \in [w : Worlds, stop : BOOLEAN] : Reached(w, a.w)}

(* ReportToChild: the child may begin. *)
LEMMA ChildReached ==
    ASSUME NEW w \in Worlds, NEW a \in Hands(w), NEW c \in PDs, NEW refuse
    PROVE  ReportToChild(a, c, refuse) \in Hands(w)
<1> DEFINE b == ReportToChild(a, c, refuse)
           s == a.w.pd[c].requested
           v == Begin(a.w, c, refuse)
<1>1. a.w \in Worlds /\ a.stop \in BOOLEAN /\ Reached(w, a.w)
      /\ a \in [w : Worlds, stop : BOOLEAN]
  BY DEF Hands
<1>2. b = a \/ b = [a EXCEPT !.stop = TRUE]
      \/ (b = [a EXCEPT !.w = v] /\ IsAllowedByParentAndChildren(a.w, c, s))
  BY DEF ReportToChild
<1>3. CASE b = a
  BY <1>3
<1>4. CASE b = [a EXCEPT !.stop = TRUE]
  <2> HIDE DEF b
  <2>1. b \in [w : Worlds, stop : BOOLEAN] /\ b.w = a.w
    BY <1>1, <1>4
  <2> QED
    BY <1>1, <2>1 DEF Hands, b
<1>5. CASE b = [a EXCEPT !.w = v] /\ IsAllowedByParentAndChildren(a.w, c, s)
  <2>1. Reached(a.w, v)
    BY <1>1, <1>5, BeginReached
  <2>2. Reached(w, v)
    BY <1>1, <2>1, ReachedTwice
  <2> HIDE DEF b, v
  <2>3. v \in Worlds
    BY <2>1 DEF Reached
  <2>4. b \in [w : Worlds, stop : BOOLEAN] /\ b.w = v
    BY <1>1, <1>5, <2>3
  <2> QED
    BY <2>2, <2>4 DEF Hands, b
<1> QED
  BY <1>2, <1>3, <1>4, <1>5

(* ReportShallower: the children may begin. *)
LEMMA ShallowerReached ==
    ASSUME NEW w \in Worlds, NEW p \in PDs, NEW refuse
    PROVE  Reached(w, ReportShallower(w, p, refuse))
<1> DEFINE n == PdCount
           a0 == [w |-> w, stop |-> FALSE]
           Step(a, c) == IF c \notin Children(p) THEN a
                         ELSE ReportToChild(a, c, refuse)
           A == [i \in 0..n |-> Hands(w)]
           F == [i \in 1..n |-> [a \in Hands(w) |-> Step(a, i)]]
           Rounds(f) == f = [c \in 0..n |->
                                IF c = 0 THEN [w |-> w, stop |-> FALSE]
                                ELSE IF c \notin Children(p) THEN f[c - 1]
                                ELSE ReportToChild(f[c - 1], c, refuse)]
           f == CHOOSE g : Rounds(g)
<1>1. n \in Nat /\ \A i \in 1..n : i \in PDs
  BY Tables DEF PDs
<1>2. a0 \in Hands(w)
  <2>1. a0.w = w /\ a0 \in [w : Worlds, stop : BOOLEAN]
    OBVIOUS
  <2> HIDE DEF a0
  <2> QED
    BY <2>1, ReachedSelf DEF Hands
<1>3. \A i \in 1..n : \A a \in Hands(w) : Step(a, i) \in Hands(w)
  BY <1>1, ChildReached
<1>4. \E g : Rounds(g)
  <2>0. \A g : (g = [i \in 0..n |-> IF i = 0 THEN a0 ELSE Step(g[i - 1], i)])
               => Rounds(g)
    OBVIOUS
  <2> HIDE DEF Step, a0, Rounds
  <2>1. \A i \in 1..n : \A a \in A[i - 1] : F[i][a] \in A[i]
    BY <1>1, <1>3
  <2>2. a0 \in A[0]
    BY <1>1, <1>2
  <2>3. \A i \in 1..n : \A a \in Hands(w) : F[i][a] = Step(a, i)
    OBVIOUS
  <2>4. \A i \in 0..n : A[i] = Hands(w)
    OBVIOUS
  <2> HIDE DEF A, F, n
  <2>9. PICK g : IsLoop(g, n, A, a0, F)
    BY <1>1, <2>1, <2>2, LoopDefined
  <2>5. /\ g = [i \in 0..n |-> g[i]] /\ g[0] = a0
        /\ \A i \in 1..n : g[i] = F[i][g[i - 1]]
        /\ \A i \in 0..n : g[i] \in A[i]
    BY <2>9 DEF IsLoop
  <2>6. \A i \in 0..n : i # 0 => i \in 1..n /\ i - 1 \in 0..n
    BY <1>1
  <2>7. \A i \in 0..n : g[i] = IF i = 0 THEN a0 ELSE Step(g[i - 1], i)
    BY <2>3, <2>4, <2>5, <2>6
  <2>8. g = [i \in 0..n |-> IF i = 0 THEN a0 ELSE Step(g[i - 1], i)]
    BY <2>5, <2>7
  <2> QED
    BY <2>0, <2>8
<1>5. Rounds(f)
  <2> HIDE DEF Rounds
  <2> QED
    BY <1>4
<1>6. ReportShallower(w, p, refuse) = f[n].w
  BY DEF ReportShallower
<1>7. f[0] = a0 /\ \A i \in 1..n : f[i] = Step(f[i - 1], i)
  <2> HIDE DEF f
  <2>1. f = [i \in 0..n |-> IF i = 0 THEN a0 ELSE Step(f[i - 1], i)]
    BY <1>5
  <2> HIDE DEF Step, a0, Rounds
  <2> QED
    BY <1>1, <2>1
<1> HIDE DEF f, Step, a0
<1>8. f[n] \in Hands(w)
  <2>1. \A i \in 0..n : A[i] = Hands(w)
    OBVIOUS
  <2>2. f[0] \in A[0] /\ \A i \in 1..n : f[i - 1] \in A[i - 1] => f[i] \in A[i]
    BY <1>1, <1>2, <1>3, <1>7
  <2> HIDE DEF A, n
  <2>3. \A i \in 0..n : f[i] \in A[i]
    BY <1>1, <2>2, LoopInvariant
  <2> QED
    BY <1>1, <2>1, <2>3
<1> QED
  BY <1>6, <1>8 DEF Hands

(* Propagate: either, or nothing. *)
LEMMA PropagateReached ==
    ASSUME NEW w \in Worlds, NEW p \in PDs, NEW new, NEW old, NEW refuse
    PROVE  Reached(w, Propagate(w, p, new, old, refuse))
BY DeeperReached, ShallowerReached, ReachedSelf DEF Propagate

----------------------------------------------------------------------------
(* Small changes to one domain. *)

(* Only the record of p changed, and no more of it than the state asked    *)
(* for, the current state and the counts of responses.                     *)
Touched(w, v, p) ==
    /\ v \in Worlds /\ Kept(w, v)
    /\ v.suspend = w.suspend /\ v.answers = w.answers
    /\ \A q \in PDs : q # p => v.pd[q] = w.pd[q]
    /\ v.pd[p].toDriver = w.pd[p].toDriver
    /\ v.pd[p].response = w.pd[p].response

(* A state asked for. *)
LEMMA SetRequested ==
    ASSUME NEW w \in Worlds, NEW p \in PDs, NEW s \in States
    PROVE  LET v == [w EXCEPT !.pd[p].requested = s]
           IN  /\ Touched(w, v, p)
               /\ v.pd[p].requested = s /\ v.pd[p].current = w.pd[p].current
               /\ v.pd[p].pre = w.pd[p].pre /\ v.pd[p].post = w.pd[p].post
BY RestoreOutcome DEF Touched

(* A current state. *)
LEMMA SetCurrent ==
    ASSUME NEW w \in Worlds, NEW p \in PDs, NEW s \in States
    PROVE  LET v == [w EXCEPT !.pd[p].current = s]
               c == w.pd[p]
               d == v.pd[p]
           IN  /\ Touched(w, v, p)
               /\ d.current = s /\ d.requested = c.requested
               /\ d.pre = c.pre /\ d.post = c.post
<1> DEFINE c == w.pd[p]
           d == [c EXCEPT !.current = s]
<1>1. c \in PdContexts
  BY PdFields
<1>2. /\ d \in PdContexts /\ d.requested = c.requested
      /\ d.toDriver = c.toDriver /\ d.current = s
      /\ d.response = c.response /\ d.pre = c.pre /\ d.post = c.post
  BY <1>1 DEF PdContexts
<1>3. [w EXCEPT !.pd[p].current = s] = [w EXCEPT !.pd = [w.pd EXCEPT ![p] = d]]
  OBVIOUS
<1> HIDE DEF c, d
<1> QED
  BY <1>2, <1>3, ChangePd DEF c, Touched

(* The responses to the notification before a transition. *)
LEMMA SetPre ==
    ASSUME NEW w \in Worlds, NEW p \in PDs, NEW x \in PreContexts
    PROVE  LET v == [w EXCEPT !.pd[p].pre = x]
               c == w.pd[p]
               d == v.pd[p]
           IN  /\ Touched(w, v, p)
               /\ d.current = c.current /\ d.requested = c.requested
               /\ d.pre = x /\ d.post = c.post
<1> DEFINE c == w.pd[p]
           d == [c EXCEPT !.pre = x]
<1>1. c \in PdContexts
  BY PdFields
<1>2. /\ d \in PdContexts /\ d.requested = c.requested
      /\ d.toDriver = c.toDriver /\ d.current = c.current
      /\ d.response = c.response /\ d.pre = x /\ d.post = c.post
  BY <1>1 DEF PdContexts
<1>3. [w EXCEPT !.pd[p].pre = x] = [w EXCEPT !.pd = [w.pd EXCEPT ![p] = d]]
  OBVIOUS
<1> HIDE DEF c, d
<1> QED
  BY <1>2, <1>3, ChangePd DEF c, Touched

(* The responses to the notification after it. *)
LEMMA SetPost ==
    ASSUME NEW w \in Worlds, NEW p \in PDs, NEW x \in PostContexts
    PROVE  LET v == [w EXCEPT !.pd[p].post = x]
               c == w.pd[p]
               d == v.pd[p]
           IN  /\ Touched(w, v, p)
               /\ d.current = c.current /\ d.requested = c.requested
               /\ d.pre = c.pre /\ d.post = x
<1> DEFINE c == w.pd[p]
           d == [c EXCEPT !.post = x]
<1>1. c \in PdContexts
  BY PdFields
<1>2. /\ d \in PdContexts /\ d.requested = c.requested
      /\ d.toDriver = c.toDriver /\ d.current = c.current
      /\ d.response = c.response /\ d.pre = c.pre /\ d.post = x
  BY <1>1 DEF PdContexts
<1>3. [w EXCEPT !.pd[p].post = x] = [w EXCEPT !.pd = [w.pd EXCEPT ![p] = d]]
  OBVIOUS
<1> HIDE DEF c, d
<1> QED
  BY <1>2, <1>3, ChangePd DEF c, Touched

(* The state before the transition that is notified. *)
LEMMA SetPrevious ==
    ASSUME NEW w \in Worlds, NEW p \in PDs, NEW s \in States
    PROVE  LET v == [w EXCEPT !.pd[p].post.previous = s]
               c == w.pd[p]
               d == v.pd[p]
           IN  /\ Touched(w, v, p)
               /\ d.current = c.current /\ d.requested = c.requested
               /\ d.pre = c.pre
<1> DEFINE x == [w.pd[p].post EXCEPT !.previous = s]
<1>1. x \in PostContexts
  BY PdFields DEF PostContexts
<1>2. [w EXCEPT !.pd[p].post.previous = s] = [w EXCEPT !.pd[p].post = x]
  OBVIOUS
<1> HIDE DEF x
<1> QED
  BY <1>1, <1>2, SetPost

(* A change of the suspend request changes nothing else. *)
LEMMA SetSuspend ==
    ASSUME NEW w \in Worlds, NEW x \in SuspendContexts
    PROVE  LET v == [w EXCEPT !.suspend = x]
           IN  /\ v \in Worlds /\ Kept(w, v) /\ v.pd = w.pd
               /\ v.answers = w.answers /\ v.suspend = x
BY DEF Worlds, Kept

----------------------------------------------------------------------------
(* The report of a transition. *)

(* p is in state s, who waited for it was answered or not, and the suspend *)
(* that was to follow is under way or not.                                 *)
Arrived(w, v, p, s) ==
    LET c == w.pd[p]
        d == v.pd[p]
    IN  /\ v \in Worlds /\ Kept(w, v)
        /\ \A q \in PDs : q # p => v.pd[q] = w.pd[q]
        /\ d.requested = c.requested \/ d.requested = c.toDriver
        /\ d.toDriver = c.toDriver /\ d.pre = c.pre /\ d.current = s
        /\ \/ d.response = c.response /\ v.answers = w.answers
           \/ d.response = 0 /\ v.answers = Sent(w, p, p, "SUCCESS")
        /\ Len(v.answers) = Len(w.answers)
        /\ v.suspend.count = w.suspend.count
        /\ v.suspend.queued = w.suspend.queued
        /\ v.suspend.lastCoreOff => w.suspend.lastCoreOff

(* ReportArrives: the state is recorded and the subscribers are told. *)
LEMMA ArrivesOutcome ==
    ASSUME NEW w \in Worlds, NEW p \in PDs, NEW s \in States
    PROVE  LET v == ReportArrives(w, p, s)
           IN  /\ Arrived(w, v, p, s) /\ v.pd[p].requested = w.pd[p].requested
               /\ v.suspend = w.suspend
<1> DEFINE c == w.pd[p]
           w1 == IF s = c.driver
                 THEN SendDelayedResponse(w, p, p, "SUCCESS") ELSE w
           w2 == [w1 EXCEPT !.pd[p].current = s]
           x == [w2.pd[p].post EXCEPT !.pending = PostSubscribers[p],
                                      !.state = s]
           w3 == [w2 EXCEPT !.pd[p].post = x]
           v == ReportArrives(w, p, s)
<1>1. /\ w1 \in Worlds /\ Kept(w, w1) /\ w1.suspend = w.suspend
      /\ \A q \in PDs : q # p => w1.pd[q] = w.pd[q]
      /\ Len(w1.answers) = Len(w.answers)
      /\ \/ w1 = w
         \/ /\ w1.pd[p] = [c EXCEPT !.response = 0]
            /\ w1.answers = Sent(w, p, p, "SUCCESS")
  <2>1. "SUCCESS" \in Statuses
    BY DEF Statuses
  <2> HIDE DEF c
  <2>2. CASE s = c.driver
    <3>1. w1 = SendDelayedResponse(w, p, p, "SUCCESS")
      BY <2>2
    <3> HIDE DEF w1
    <3> QED
      BY <2>1, <3>1, SendOutcome DEF c
  <2>3. CASE s # c.driver
    <3>1. w1 = w
      BY <2>3
    <3> QED
      BY <3>1 DEF Kept
  <2> QED
    BY <2>2, <2>3
<1> HIDE DEF w1
<1>2. /\ w1.pd[p].requested = c.requested /\ w1.pd[p].toDriver = c.toDriver
      /\ w1.pd[p].pre = c.pre
      /\ \/ w1.pd[p].response = c.response /\ w1.answers = w.answers
         \/ w1.pd[p].response = 0 /\ w1.answers = Sent(w, p, p, "SUCCESS")
  BY <1>1, PdFields DEF PdContexts
<1>3. /\ Touched(w1, w2, p) /\ w2.pd[p].current = s
      /\ w2.pd[p].requested = w1.pd[p].requested
      /\ w2.pd[p].pre = w1.pd[p].pre
  BY <1>1, SetCurrent
<1> HIDE DEF w2
<1>4. /\ Touched(w2, w3, p) /\ w3.pd[p].current = w2.pd[p].current
      /\ w3.pd[p].requested = w2.pd[p].requested
      /\ w3.pd[p].pre = w2.pd[p].pre
  <2>1. w2 \in Worlds
    BY <1>3 DEF Touched
  <2>2. x \in PostContexts
    <3>1. w2.pd[p].post \in PostContexts /\ PostSubscribers[p] \in Nat
      BY <2>1, PdFields, Tables
    <3> QED
      BY <3>1 DEF PostContexts
  <2> HIDE DEF x
  <2> QED
    BY <2>1, <2>2, SetPost
<1>5. v = w2 \/ v = w3
  BY DEF ReportArrives, w1, w2
<1> HIDE DEF w3, v, c
<1>6. Arrived(w, w2, p, s) /\ w2.pd[p].requested = c.requested
      /\ w2.suspend = w.suspend
  BY <1>1, <1>2, <1>3 DEF Arrived, Touched, Kept, c
<1>7. Arrived(w, w3, p, s) /\ w3.pd[p].requested = c.requested
      /\ w3.suspend = w.suspend
  BY <1>4, <1>6 DEF Arrived, Touched, Kept
<1> QED
  BY <1>5, <1>6, <1>7 DEF v, c

(* TransitionReport: the suspend that waited for the last core goes on, or *)
(* the neighbours may begin.                                               *)
LEMMA ReportOutcome ==
    ASSUME NEW w \in Worlds, NEW p \in PDs, NEW s \in States, NEW refuse
    PROVE  LET v == TransitionReport(w, p, s, refuse)
           IN  \E u : /\ Arrived(w, u, p, s)
                      /\ \/ /\ v = CompleteSystemSuspend(u, p, p, refuse)
                            /\ w.suspend.lastCoreOff
                         \/ Reached(u, v)
<1> DEFINE v == TransitionReport(w, p, s, refuse)
           old == w.pd[p].current
           w1 == ReportArrives(w, p, s)
           x == [w.suspend EXCEPT !.ongoing = FALSE]
           y == [w.suspend EXCEPT !.lastCoreOff = FALSE]
           w2 == IF Parent[p] = NoPd /\ w.suspend.state # On
                 THEN [w1 EXCEPT !.suspend = x] ELSE w1
           u1 == [w1 EXCEPT !.suspend = y]
           u2 == [w2 EXCEPT !.pd[p].post.previous = old]
           u3 == [w2 EXCEPT !.pd[p].requested = w.pd[p].toDriver]
<1>1. /\ Arrived(w, w1, p, s) /\ w1.pd[p].requested = w.pd[p].requested
      /\ w1.suspend = w.suspend /\ w1 \in Worlds
  BY ArrivesOutcome DEF Arrived
<1>2. /\ old \in States /\ w.pd[p].toDriver \in States
      /\ w.suspend \in SuspendContexts
  BY PdFields, WorldFields
<1>3. /\ x \in SuspendContexts /\ x.count = w.suspend.count
      /\ x.queued = w.suspend.queued /\ x.lastCoreOff = w.suspend.lastCoreOff
      /\ y \in SuspendContexts /\ y.count = w.suspend.count
      /\ y.queued = w.suspend.queued /\ y.lastCoreOff = FALSE
  BY <1>2 DEF SuspendContexts
<1>4. v = IF w.suspend.lastCoreOff /\ p = w.suspend.lastCore
          THEN CompleteSystemSuspend(u1, p, p, refuse)
          ELSE IF w2.pd[p].post.pending > 0 THEN u2
          ELSE Propagate(u3, p, s, old, refuse)
  <2>1. /\ [w1 EXCEPT !.suspend.ongoing = FALSE] = [w1 EXCEPT !.suspend = x]
        /\ [w1 EXCEPT !.suspend.lastCoreOff = FALSE] = u1
    BY <1>1
  <2> DEFINE z == IF Parent[p] = NoPd /\ w.suspend.state # On
                  THEN [w1 EXCEPT !.suspend.ongoing = FALSE] ELSE w1
             z1 == [w1 EXCEPT !.suspend.lastCoreOff = FALSE]
  <2>2. v = IF w.suspend.lastCoreOff /\ p = w.suspend.lastCore
            THEN CompleteSystemSuspend(z1, p, p, refuse)
            ELSE IF z.pd[p].post.pending > 0
            THEN [z EXCEPT !.pd[p].post.previous = old]
            ELSE Propagate([z EXCEPT !.pd[p].requested = w.pd[p].toDriver],
                           p, s, old, refuse)
    BY DEF TransitionReport
  <2>3. z = w2 /\ z1 = u1
    <3> HIDE DEF x, w1, u1
    <3> QED
      BY <2>1
  <2> HIDE DEF z, z1, w2, u1, v
  <2> QED
    BY <2>2, <2>3
<1> HIDE DEF x, y, w1, old
<1>5. Arrived(w, u1, p, s)
  <2>1. /\ u1 \in Worlds /\ Kept(w1, u1) /\ u1.pd = w1.pd
        /\ u1.answers = w1.answers /\ u1.suspend = y
    BY <1>1, <1>3, SetSuspend
  <2> HIDE DEF u1
  <2> QED
    BY <1>1, <1>3, <2>1 DEF Arrived, Kept
<1>6. Arrived(w, w2, p, s) /\ w2 \in Worlds
      /\ w2.pd[p].requested = w.pd[p].requested
  <2> DEFINE z == [w1 EXCEPT !.suspend = x]
  <2>1. /\ z \in Worlds /\ Kept(w1, z) /\ z.pd = w1.pd
        /\ z.answers = w1.answers /\ z.suspend = x
    BY <1>1, <1>3, SetSuspend
  <2>2. w2 = w1 \/ w2 = z
    OBVIOUS
  <2> HIDE DEF z, w2
  <2>3. Arrived(w, z, p, s)
    BY <1>1, <1>3, <2>1 DEF Arrived, Kept
  <2> QED
    BY <1>1, <2>1, <2>2, <2>3
<1> HIDE DEF w2
<1>7. Arrived(w, u2, p, s) /\ u2 \in Worlds
  <2>1. /\ Touched(w2, u2, p) /\ u2.pd[p].current = w2.pd[p].current
        /\ u2.pd[p].requested = w2.pd[p].requested
        /\ u2.pd[p].pre = w2.pd[p].pre
    BY <1>2, <1>6, SetPrevious
  <2> HIDE DEF u2
  <2> QED
    BY <1>6, <2>1 DEF Arrived, Touched, Kept
<1>8. Arrived(w, u3, p, s) /\ u3 \in Worlds
  <2>1. /\ Touched(w2, u3, p) /\ u3.pd[p].current = w2.pd[p].current
        /\ u3.pd[p].requested = w.pd[p].toDriver
        /\ u3.pd[p].pre = w2.pd[p].pre
    BY <1>2, <1>6, SetRequested
  <2> HIDE DEF u3
  <2> QED
    BY <1>6, <2>1 DEF Arrived, Touched, Kept
<1> HIDE DEF u1, u2, u3, v
<1>9. CASE w.suspend.lastCoreOff /\ p = w.suspend.lastCore
  BY <1>4, <1>5, <1>9 DEF v
<1>10. CASE /\ ~(w.suspend.lastCoreOff /\ p = w.suspend.lastCore)
            /\ w2.pd[p].post.pending > 0
  BY <1>4, <1>7, <1>10, ReachedSelf DEF v
<1>11. CASE /\ ~(w.suspend.lastCoreOff /\ p = w.suspend.lastCore)
            /\ ~(w2.pd[p].post.pending > 0)
  BY <1>4, <1>8, <1>11, PropagateReached DEF v
<1> QED
  BY <1>9, <1>10, <1>11

----------------------------------------------------------------------------
(* CompleteSystemSuspend *)

(* The composite state of the suspend. *)
SuspendStates(w, p) ==
    [l \in DOMAIN PathUp[p] |-> IF Parent[PathUp[p][l]] # NoPd THEN Off
                                ELSE w.suspend.state]

(* It addresses the whole path. *)
LEMMA SuspendComposite ==
    ASSUME NEW w \in Worlds, NEW p \in PDs
    PROVE  /\ SuspendStates(w, p) \in Composites(p)
           /\ Len(SuspendStates(w, p)) = Len(PathUp[p])
<1> DEFINE path == PathUp[p]
           cs == SuspendStates(w, p)
<1>1. path \in Seq(PDs) /\ Len(path) >= 1 /\ Len(path) \in Nat
      /\ DOMAIN path = 1..Len(path)
  BY PathUpGoesUp
<1>2. w.suspend.state \in States /\ Off \in States
  BY WorldFields DEF SuspendContexts, States
<1>3. cs \in [1..Len(path) -> States]
  BY <1>1, <1>2 DEF SuspendStates
<1> HIDE DEF cs, path
<1>4. cs \in Seq(States) /\ Len(cs) = Len(path)
  BY <1>1, <1>3
<1> QED
  BY <1>1, <1>4 DEF Composites, cs, path

(* The world with the path of p forced to the states asked for. *)
Forced(w, S) ==
    [w EXCEPT !.pd = [q \in PDs |->
        IF q \in S THEN [w.pd[q] EXCEPT !.current = w.pd[q].requested,
                                        !.toDriver = w.pd[q].requested]
        ELSE w.pd[q]]]

(* It forgets which of them were reached. *)
LEMMA ForcedOutcome ==
    ASSUME NEW w \in Worlds, NEW S
    PROVE  LET v == Forced(w, S)
           IN  /\ v \in Worlds /\ Kept(w, v)
               /\ v.suspend = w.suspend /\ v.answers = w.answers
               /\ \A q \in PDs :
                     /\ v.pd[q].requested = w.pd[q].requested
                     /\ v.pd[q].response = w.pd[q].response
                     /\ q \notin S => v.pd[q] = w.pd[q]
                     /\ q \in S => v.pd[q].toDriver = w.pd[q].requested
<1> DEFINE d(q) == [w.pd[q] EXCEPT !.current = w.pd[q].requested,
                                   !.toDriver = w.pd[q].requested]
           f == [q \in PDs |-> IF q \in S THEN d(q) ELSE w.pd[q]]
           v == Forced(w, S)
<1>1. ASSUME NEW q \in PDs
      PROVE  /\ d(q) \in PdContexts /\ d(q).requested = w.pd[q].requested
             /\ d(q).response = w.pd[q].response
             /\ d(q).toDriver = w.pd[q].requested
             /\ w.pd[q] \in PdContexts
  <2> DEFINE c == w.pd[q]
  <2>1. c \in PdContexts /\ c.requested \in States
    BY PdFields
  <2> HIDE DEF c
  <2> QED
    BY <2>1 DEF PdContexts, c
<1> HIDE DEF d
<1>2. f \in [PDs -> PdContexts]
  BY <1>1
<1>3. v = [w EXCEPT !.pd = f]
  BY DEF Forced, d
<1>4. \A q \in PDs : f[q] = IF q \in S THEN d(q) ELSE w.pd[q]
  OBVIOUS
<1> HIDE DEF f, v
<1>5. v \in Worlds /\ v.pd = f /\ Kept(w, v)
      /\ v.suspend = w.suspend /\ v.answers = w.answers
  BY <1>2, <1>3 DEF Worlds, Kept
<1> QED
  BY <1>1, <1>4, <1>5 DEF v

(* No transition is under way. *)
Quiet(w) == \A q \in PDs : ~InFlight(w, q)

(* What holds after i rounds of a walk: the domains above, or below, are   *)
(* still to come.                                                          *)
Walked(w, p, cs, i) ==
    {a \in Accs :
        /\ a.w.suspend = [w.suspend EXCEPT !.lastCoreOff = FALSE]
        /\ Tree(w) => Tree(a.w)
        /\ \A q \in PDs : (\A j \in 1..i : q # LevelPd(w, p, cs, j)) =>
              a.w.pd[q] = w.pd[q] /\ (InFlight(a.w, q) <=> InFlight(w, q))
        /\ Quiet(w) => Flight(a.w, PDs)
        /\ Quiet(w) /\ NotMapped /\ Hard(w) => Hard(a.w)}

(* They hold before the first. *)
LEMMA WalkedStart ==
    ASSUME NEW w \in Worlds, NEW p \in PDs, NEW cs
    PROVE  Start(w) \in Walked(w, p, cs, 0)
<1> DEFINE a == Start(w)
<1>1. /\ a \in Accs /\ a.w.pd = w.pd /\ Kept(w, a.w)
      /\ a.w.suspend = [w.suspend EXCEPT !.lastCoreOff = FALSE]
      /\ a.w \in Worlds
  BY StartOutcome DEF Accs
<1> HIDE DEF a
<1>2. Tree(w) => Tree(a.w)
  BY <1>1 DEF Tree
<1>3. \A q : InFlight(a.w, q) <=> InFlight(w, q)
  BY <1>1, KeptFacts
<1>4. Quiet(w) => Flight(a.w, PDs)
  BY <1>3 DEF Quiet, Flight
<1>5. Hard(w) => Hard(a.w)
  <2>1. /\ a.w.target = w.target /\ a.w.hw = w.hw
        /\ a.w.reports = w.reports /\ a.w.pd = w.pd
    BY <1>1 DEF Kept
  <2>2. TrueReports(w) => TrueReports(a.w)
    BY <2>1 DEF TrueReports
  <2>3. \A q : Reported(a.w, q) <=> Reported(w, q)
    BY <2>1 DEF Reported
  <2>4. \A q, x : May(a.w, q, x) <=> May(w, q, x)
    BY <2>1 DEF May, Moving
  <2> QED
    BY <2>1, <2>2, <2>3, <2>4 DEF Hard
<1> QED
  BY <1>1, <1>2, <1>3, <1>4, <1>5 DEF Walked, a

(* Each round keeps them. *)
LEMMA WalkedStep ==
    ASSUME NEW w \in Worlds, NEW p \in PDs, NEW cs \in Composites(p), NEW me,
           NEW refuse, NEW i \in 1..Len(cs), NEW a \in Walked(w, p, cs, i - 1)
    PROVE  SetStateLevel(a, me, LevelPd(w, p, cs, i), LevelState(w, p, cs, i),
                         refuse) \in Walked(w, p, cs, i)
<1> DEFINE x == LevelPd(w, p, cs, i)
           s == LevelState(w, p, cs, i)
           b == SetStateLevel(a, me, x, s, refuse)
<1>1. x \in PDs /\ s \in States /\ Len(cs) \in Nat
      /\ \A j \in 1..Len(cs) : j # i => LevelPd(w, p, cs, j) # x
  BY LevelsDiffer
<1>2. a \in Accs /\ a.w \in Worlds
  BY DEF Walked, Accs
<1> HIDE DEF x, s
<1>3. b \in Accs /\ Asked(a.w, b.w, x, s)
  BY <1>1, <1>2, LevelOutcome
<1> HIDE DEF b
<1>4. b.w.suspend = [w.suspend EXCEPT !.lastCoreOff = FALSE]
  BY <1>3 DEF Walked, Asked
<1>5. Tree(w) => Tree(b.w)
  BY <1>1, <1>2, <1>3, AskedTree DEF Walked
<1>6. \A q \in PDs : (\A j \in 1..(i - 1) : q # LevelPd(w, p, cs, j)) =>
          a.w.pd[q] = w.pd[q] /\ (InFlight(a.w, q) <=> InFlight(w, q))
  BY DEF Walked
<1>7. ASSUME NEW q \in PDs, \A j \in 1..i : q # LevelPd(w, p, cs, j)
      PROVE  b.w.pd[q] = w.pd[q] /\ (InFlight(b.w, q) <=> InFlight(w, q))
  <2>1. q # x /\ \A j \in 1..(i - 1) : q # LevelPd(w, p, cs, j)
    BY <1>1, <1>7 DEF x
  <2>2. b.w.pd[q] = a.w.pd[q] /\ (InFlight(b.w, q) <=> InFlight(a.w, q))
    BY <1>1, <1>2, <1>3, <2>1, AskedInFlight DEF Asked
  <2> QED
    BY <1>6, <2>1, <2>2
<1>8. Quiet(w) => ~InFlight(a.w, x)
  <2>1. \A j \in 1..(i - 1) : x # LevelPd(w, p, cs, j)
    <3>1. \A j \in 1..(i - 1) : j \in 1..Len(cs) /\ j # i
      BY <1>1
    <3> QED
      BY <1>1, <3>1
  <2> QED
    BY <1>1, <1>6, <2>1 DEF Quiet
<1>9. Quiet(w) => Flight(b.w, PDs)
  <2>1. PDs \in SUBSET PDs
    OBVIOUS
  <2>2. Quiet(w) => Flight(a.w, PDs)
    BY DEF Walked
  <2> QED
    BY <1>1, <1>2, <1>3, <1>8, <2>1, <2>2, AskedFlight
<1>10. Quiet(w) /\ NotMapped /\ Hard(w) => Hard(b.w)
  BY <1>1, <1>2, <1>3, <1>8, AskedHard DEF Walked
<1> QED
  BY <1>3, <1>4, <1>5, <1>7, <1>9, <1>10 DEF Walked, b, x, s

(* So they hold at the end. *)
LEMMA WalkOutcome ==
    ASSUME NEW w \in Worlds, NEW p \in PDs, NEW cs \in Composites(p), NEW me,
           NEW refuse
    PROVE  Walk(w, me, p, cs, refuse) \in Walked(w, p, cs, Len(cs))
<1> DEFINE A == [i \in 0..Len(cs) |-> Walked(w, p, cs, i)]
<1>1. PICK f : IsWalk(f, w, me, p, cs, refuse)
  BY WalkDefined
<1>2. Len(cs) \in Nat
  BY LevelsDiffer
<1>3. f[0] \in A[0]
  BY <1>1, <1>2, WalkedStart DEF IsWalk
<1>4. ASSUME NEW i \in 1..Len(cs), f[i - 1] \in A[i - 1]
      PROVE  f[i] \in A[i]
  <2>1. i - 1 \in 0..Len(cs) /\ i \in 0..Len(cs)
    BY <1>2
  <2>2. f[i - 1] \in Walked(w, p, cs, i - 1)
    BY <1>4, <2>1
  <2>3. f[i] \in Walked(w, p, cs, i)
    BY <1>1, <2>2, WalkedStep DEF IsWalk
  <2> QED
    BY <2>1, <2>3
<1>5. \A i \in 0..Len(cs) : A[i] = Walked(w, p, cs, i)
  OBVIOUS
<1> HIDE DEF A
<1>6. \A i \in 0..Len(cs) : f[i] \in A[i]
  BY <1>2, <1>3, <1>4, LoopInvariant
<1> QED
  BY <1>1, <1>2, <1>5, <1>6 DEF IsWalk

(* CompleteSystemSuspend: a walk over the whole path, which is then forced *)
(* to have arrived.                                                        *)
LEMMA CompleteOutcome ==
    ASSUME NEW w \in Worlds, NEW p \in PDs, NEW me, NEW refuse
    PROVE  LET v == CompleteSystemSuspend(w, me, p, refuse)
           IN  /\ v \in Worlds
               /\ v.suspend.count = w.suspend.count
               /\ v.suspend.queued = w.suspend.queued
               /\ Tree(w) => Tree(v)
               /\ Flight(w, PDs) => Flight(v, PDs)
               /\ p \notin CompositeSupport => v = w
<1> DEFINE v == CompleteSystemSuspend(w, me, p, refuse)
           path == PathUp[p]
           x == [w.suspend EXCEPT !.ongoing = TRUE]
           u == [w EXCEPT !.suspend = x]
           cs == SuspendStates(w, p)
           a == Walk(u, me, p, cs, refuse)
           z == Forced(a.w, ToSet(path))
<1>1. CASE p \notin CompositeSupport
  <2>1. v = w
    BY <1>1 DEF CompleteSystemSuspend
  <2> QED
    BY <2>1
<1>2. CASE p \in CompositeSupport
  <2>1. v = z
    BY <1>2 DEF CompleteSystemSuspend, SuspendStates, Forced
  <2>2. /\ x \in SuspendContexts /\ x.count = w.suspend.count
        /\ x.queued = w.suspend.queued
    BY WorldFields DEF SuspendContexts
  <2> HIDE DEF x
  <2>3. /\ u \in Worlds /\ Kept(w, u) /\ u.pd = w.pd /\ u.suspend = x
    BY <2>2, SetSuspend
  <2>4. cs \in Composites(p) /\ Len(cs) = Len(path)
    BY SuspendComposite
  <2> HIDE DEF u, cs
  <2>5. a \in Walked(u, p, cs, Len(cs))
    BY <2>3, <2>4, WalkOutcome
  <2> HIDE DEF a
  <2>6. /\ a.w \in Worlds
        /\ a.w.suspend = [x EXCEPT !.lastCoreOff = FALSE]
        /\ Tree(u) => Tree(a.w)
    BY <2>3, <2>5 DEF Walked, Accs
  <2>7. a.w.suspend.count = x.count /\ a.w.suspend.queued = x.queued
    BY <2>2, <2>6 DEF SuspendContexts
  <2>8. ASSUME NEW q \in PDs, q \notin ToSet(path)
        PROVE  a.w.pd[q] = w.pd[q] /\ (InFlight(a.w, q) <=> InFlight(w, q))
    <3>1. ASSUME NEW j \in 1..Len(cs) PROVE q # LevelPd(u, p, cs, j)
      <4>1. Level(u, p, cs, j) \in 1..Len(path)
        BY <2>4, LevelsDiffer
      <4>2. path \in Seq(PDs)
        BY PathUpGoesUp
      <4>3. path[Level(u, p, cs, j)] \in ToSet(path)
        BY <4>1, <4>2 DEF ToSet
      <4> QED
        BY <2>8, <4>3 DEF LevelPd
    <3>2. a.w.pd[q] = u.pd[q] /\ (InFlight(a.w, q) <=> InFlight(u, q))
      BY <2>5, <3>1 DEF Walked
    <3> QED
      BY <2>3, <3>2, KeptFacts
  <2> HIDE DEF path
  <2>9. /\ z \in Worlds /\ Kept(a.w, z) /\ z.suspend = a.w.suspend
        /\ \A q \in PDs :
              /\ z.pd[q].requested = a.w.pd[q].requested
              /\ q \notin ToSet(path) => z.pd[q] = a.w.pd[q]
              /\ q \in ToSet(path) => z.pd[q].toDriver = a.w.pd[q].requested
    BY <2>6, ForcedOutcome
  <2> HIDE DEF z, v
  <2>10. Tree(w) => Tree(z)
    <3>1. Tree(w) => Tree(u)
      BY <2>3 DEF Tree
    <3>2. Tree(a.w) => Tree(z)
      BY <2>9, TreeSame
    <3> QED
      BY <2>6, <3>1, <3>2
  <2>11. ASSUME Flight(w, PDs) PROVE Flight(z, PDs)
    <3> SUFFICES ASSUME NEW q \in PDs, InFlight(z, q)
                 PROVE  z.pd[q].requested = z.pd[q].toDriver
      BY DEF Flight
    <3>1. CASE q \in ToSet(path)
      BY <2>9, <3>1
    <3>2. CASE q \notin ToSet(path)
      <4>1. InFlight(w, q) /\ z.pd[q] = w.pd[q]
        BY <2>8, <2>9, <3>2, KeptFacts
      <4> QED
        BY <2>11, <4>1 DEF Flight
    <3> QED
      BY <3>1, <3>2
  <2> QED
    BY <1>2, <2>1, <2>2, <2>7, <2>9, <2>10, <2>11 DEF v
<1> QED
  BY <1>1, <1>2

----------------------------------------------------------------------------
(* A set state request. *)

(* The answers and the notifications after a transition play no part in    *)
(* what is asked of the drivers.                                           *)
LEMMA SameKeeps ==
    ASSUME NEW w, NEW v, Kept(w, v),
           \A q \in PDs : /\ v.pd[q].requested = w.pd[q].requested
                          /\ v.pd[q].toDriver = w.pd[q].toDriver
                          /\ v.pd[q].current = w.pd[q].current
                          /\ v.pd[q].pre = w.pd[q].pre,
           w.reports \in Seq(Reports)
    PROVE  /\ Tree(w) => Tree(v)
           /\ Flight(w, PDs) => Flight(v, PDs)
           /\ Hard(w) => Hard(v)
<1>1. Tree(w) => Tree(v)
  BY TreeSame
<1>2. Flight(w, PDs) => Flight(v, PDs)
  BY KeptFacts DEF Flight
<1>3. ASSUME NEW q \in PDs, NEW x PROVE May(v, q, x) <=> May(w, q, x)
  BY DEF May, Moving, Kept
<1>4. \A q \in PDs : Parent[q] # NoPd => Parent[q] \in PDs
  BY Tables
<1>5. TrueReports(w) => TrueReports(v)
  <2> SUFFICES ASSUME TrueReports(w), NEW i \in DOMAIN v.reports
               PROVE  LET r == v.reports[i]
                      IN  /\ r.state = v.pd[r.pd].requested
                          /\ v.hw[r.pd] = v.pd[r.pd].requested
    BY DEF TrueReports
  <2>1. i \in DOMAIN w.reports /\ v.reports[i] = w.reports[i]
    BY DEF Kept
  <2>2. w.reports[i].pd \in PDs
    <3>1. w.reports[i] \in Reports
      BY <2>1
    <3> QED
      BY <3>1 DEF Reports
  <2> QED
    BY <2>1, <2>2 DEF TrueReports, Kept
<1>6. Hard(w) => Hard(v)
  BY <1>3, <1>4, <1>5, KeptFacts DEF Hard
<1> QED
  BY <1>1, <1>2, <1>6

(* A request that set_state accepts addresses levels of the path. *)
LEMMA AcceptedComposite ==
    ASSUME NEW p \in PDs, NEW cs \in Accepted(p)
    PROVE  /\ cs \in Composites(p)
           /\ p \notin CompositeSupport => Len(cs) = 1
<1> DEFINE levels == IF p \in CompositeSupport THEN Len(PathUp[p]) ELSE 1
<1>1. Len(PathUp[p]) \in Nat /\ Len(PathUp[p]) >= 1
  BY PathUpGoesUp
<1>2. PICK n \in 1..levels : cs \in [1..n -> States]
  BY DEF Accepted
<1>3. n \in 1..Len(PathUp[p]) /\ (p \notin CompositeSupport => n = 1)
  BY <1>1, <1>2
<1>4. cs \in Seq(States) /\ Len(cs) = n
  BY <1>2, <1>3
<1> QED
  BY <1>3, <1>4 DEF Composites

(* p is put in charge of answer k, or no domain is. *)
InCharge(w, z, k) ==
    IF z = NoPd THEN w ELSE [w EXCEPT !.pd[z].response = k]

(* v has z in charge of answer k and is otherwise like w. *)
Charged(w, v, z, k) ==
    /\ v \in Worlds /\ Kept(w, v) /\ v.suspend = w.suspend
    /\ v.answers = w.answers
    /\ \A q \in PDs : /\ v.pd[q].requested = w.pd[q].requested
                      /\ v.pd[q].toDriver = w.pd[q].toDriver
                      /\ v.pd[q].current = w.pd[q].current
                      /\ v.pd[q].pre = w.pd[q].pre
                      /\ q = z => v.pd[q].response = k
                      /\ q # z => v.pd[q].response = w.pd[q].response

(* It changes nothing else. *)
LEMMA InChargeOutcome ==
    ASSUME NEW w \in Worlds, NEW z \in PDs \cup {NoPd},
           NEW k \in 0..MaxRequests
    PROVE  Charged(w, InCharge(w, z, k), z, k)
<1> DEFINE v == InCharge(w, z, k)
<1>1. CASE z = NoPd
  <2>1. v = w /\ z \notin PDs
    BY <1>1, Tables DEF InCharge
  <2> QED
    BY <2>1 DEF Kept, Charged
<1>2. CASE z # NoPd
  <2> DEFINE c == w.pd[z]
             d == [c EXCEPT !.response = k]
  <2>1. z \in PDs
    BY <1>2
  <2>2. c \in PdContexts
    BY <2>1, PdFields
  <2>3. /\ d \in PdContexts /\ d.requested = c.requested
        /\ d.toDriver = c.toDriver /\ d.current = c.current
        /\ d.response = k /\ d.pre = c.pre
    BY <2>2 DEF PdContexts
  <2>4. v = [w EXCEPT !.pd = [w.pd EXCEPT ![z] = d]]
    BY <1>2 DEF InCharge
  <2> HIDE DEF c, d, v
  <2>5. /\ v \in Worlds /\ Kept(w, v) /\ v.answers = w.answers
        /\ v.suspend = w.suspend /\ v.pd[z] = d
        /\ \A q \in PDs : q # z => v.pd[q] = w.pd[q]
    BY <2>1, <2>3, <2>4, ChangePd
  <2> QED
    BY <2>3, <2>5 DEF c, v, Charged
<1> QED
  BY <1>1, <1>2

(* The answer to a request whose walk ended with a. *)
AnswerTo(a, respond) ==
    [status |-> IF ~respond THEN "NONE"
                ELSE IF a.charge = NoPd THEN a.status ELSE "WAITING",
     pd |-> a.charge]

(* SetStateRequest: the walk, its answer and the domain that will send it. *)
LEMMA RequestOutcome ==
    ASSUME NEW w \in Worlds, NEW p \in PDs, NEW cs \in Accepted(p),
           NEW respond \in BOOLEAN, NEW refuse, Len(w.answers) < MaxRequests
    PROVE  LET v == SetStateRequest(w, p, cs, respond, refuse)
               a == Walk(w, p, p, cs, refuse)
           IN  /\ v \in Worlds
               /\ v.suspend.count = w.suspend.count
               /\ v.suspend.queued = w.suspend.queued
               /\ ~v.suspend.lastCoreOff
               /\ Tree(w) => Tree(v)
               /\ Quiet(w) => Flight(v, PDs)
               /\ Quiet(w) /\ NotMapped /\ Hard(w) => Hard(v)
               /\ v.answers = Append(a.w.answers, AnswerTo(a, respond))
               /\ \A q \in PDs :
                     /\ respond /\ q = a.charge =>
                           v.pd[q].response = Len(w.answers) + 1
                     /\ ~(respond /\ q = a.charge) =>
                           v.pd[q].response = a.w.pd[q].response
<1> DEFINE v == SetStateRequest(w, p, cs, respond, refuse)
           a == Walk(w, p, p, cs, refuse)
           id == Len(w.answers) + 1
           x == Append(a.w.answers, AnswerTo(a, respond))
           u == [a.w EXCEPT !.answers = x]
           z == IF respond THEN a.charge ELSE NoPd
<1>1. a \in Walked(w, p, cs, Len(cs))
  BY AcceptedComposite, WalkOutcome
<1>2. v = InCharge(u, z, id)
  BY DEF SetStateRequest, InCharge, AnswerTo
<1>3. id \in 0..MaxRequests
  <2>1. Len(w.answers) \in Nat
    BY WorldFields
  <2>2. MaxRequests \in Nat
    BY PowerDomainAssumption
  <2> QED
    BY <2>1, <2>2
<1> HIDE DEF a, id
<1>4. /\ a.w \in Worlds /\ a.charge \in PDs \cup {NoPd}
      /\ a.status \in Statuses
      /\ a.w.suspend = [w.suspend EXCEPT !.lastCoreOff = FALSE]
      /\ Tree(w) => Tree(a.w)
      /\ Quiet(w) => Flight(a.w, PDs)
      /\ Quiet(w) /\ NotMapped /\ Hard(w) => Hard(a.w)
  BY <1>1 DEF Walked, Accs
<1>5. /\ a.w.suspend.count = w.suspend.count
      /\ a.w.suspend.queued = w.suspend.queued
      /\ ~a.w.suspend.lastCoreOff
  BY <1>4, WorldFields DEF SuspendContexts
<1>6. AnswerTo(a, respond) \in Answers
  BY <1>4 DEF AnswerTo, Answers, Statuses
<1>7. x \in Seq(Answers) /\ z \in PDs \cup {NoPd}
  BY <1>4, <1>6, WorldFields
<1> HIDE DEF x, z
<1>8. /\ u \in Worlds /\ Kept(a.w, u) /\ u.pd = a.w.pd
      /\ u.suspend = a.w.suspend /\ u.answers = x
  BY <1>4, <1>7 DEF Worlds, Kept
<1> HIDE DEF u, v
<1>9. /\ v \in Worlds /\ Kept(u, v) /\ v.suspend = u.suspend
      /\ v.answers = u.answers
      /\ \A q \in PDs : /\ v.pd[q].requested = u.pd[q].requested
                        /\ v.pd[q].toDriver = u.pd[q].toDriver
                        /\ v.pd[q].current = u.pd[q].current
                        /\ v.pd[q].pre = u.pd[q].pre
                        /\ q = z => v.pd[q].response = id
                        /\ q # z => v.pd[q].response = u.pd[q].response
  <2>1. u \in Worlds /\ z \in PDs \cup {NoPd} /\ id \in 0..MaxRequests
    BY <1>3, <1>7, <1>8
  <2>2. Charged(u, v, z, id)
    BY <1>2, <2>1, InChargeOutcome
  <2> QED
    BY <2>2 DEF Charged
<1>10. Kept(a.w, v) /\ a.w.reports \in Seq(Reports)
  BY <1>4, <1>8, <1>9, WorldFields DEF Kept
<1>11. /\ Tree(a.w) => Tree(v)
       /\ Flight(a.w, PDs) => Flight(v, PDs)
       /\ Hard(a.w) => Hard(v)
  BY <1>8, <1>9, <1>10, SameKeeps
<1>12. \A q \in PDs :
          /\ respond /\ q = a.charge => v.pd[q].response = id
          /\ ~(respond /\ q = a.charge) =>
                v.pd[q].response = a.w.pd[q].response
  BY <1>8, <1>9, Tables DEF z
<1> QED
  BY <1>4, <1>5, <1>8, <1>9, <1>11, <1>12 DEF v, a, x, id

----------------------------------------------------------------------------
(* The actions.  w is the world before the step. *)

(* The world after the step is the one a handler returned. *)
LEMMA BecomeWorld ==
    ASSUME NEW v \in Worlds, Become(v)
    PROVE  World' = v
<1>1. v = [pd |-> v.pd, target |-> v.target, hw |-> v.hw,
           reports |-> v.reports, answers |-> v.answers,
           suspend |-> v.suspend]
  BY DEF Worlds
<1>2. World' = [pd |-> v.pd, target |-> v.target, hw |-> v.hw,
                reports |-> v.reports, answers |-> v.answers,
                suspend |-> v.suspend]
  BY DEF Become, World
<1> QED
  BY <1>1, <1>2

(* The variables are the fields of the world. *)
LEMMA WorldIs ==
    /\ World.pd = pd /\ World.target = target /\ World.hw = hw
    /\ World.reports = reports /\ World.answers = answers
    /\ World.suspend = suspend
BY DEF World

(* The type invariant in terms of the world. *)
LEMMA TypeWorld ==
    TypeOK <=> World \in Worlds /\ shutdown \in ShutdownContexts
<1>1. World \in Worlds <=>
          /\ pd \in [PDs -> PdContexts]
          /\ target \in [PDs -> States \cup {NoState}]
          /\ hw \in [PDs -> States]
          /\ reports \in Seq(Reports)
          /\ answers \in Seq(Answers)
          /\ suspend \in SuspendContexts
  BY DEF World, Worlds
<1> QED
  BY <1>1 DEF TypeOK

(* Two steps at the same domain are one. *)
LEMMA BegunTwice ==
    ASSUME NEW w, NEW u, NEW v, NEW p \in PDs,
           Touched(w, u, p), u.pd[p].requested = w.pd[p].requested,
           u.pd[p].current = w.pd[p].current, u.pd[p].post = w.pd[p].post,
           Begun(u, v, p)
    PROVE  Begun(w, v, p)
BY DEF Touched, Begun, Kept, Driven

(* PreTransitionResponse: the last answer may start the transition. *)
LEMMA PreResponseOutcome ==
    ASSUME NEW w \in Worlds, w = World, NEW p \in PDs, NEW ok \in BOOLEAN,
           NEW refuse, PreTransitionResponse(p, ok, refuse)
    PROVE  \E v : Become(v) /\ Reached(w, v)
<1> DEFINE b == w.pd[p].pre
           x == [b EXCEPT !.pending = @ - 1, !.ok = @ /\ ok]
           u == [w EXCEPT !.pd[p].pre = x]
           s == w.pd[p].requested
           v1 == InitiateTransition(u, p, refuse)
           v2 == Begin(u, p, refuse)
<1>1. /\ b \in PreContexts /\ b.pending \in Nat /\ b.valid \in BOOLEAN
      /\ b.ok \in BOOLEAN /\ s \in States
  BY PdFields
<1>2. b.pending # 0 /\ b = pd[p].pre
  BY WorldIs DEF PreTransitionResponse
<1>3. x \in PreContexts /\ x.valid = b.valid /\ x.pending = b.pending - 1
  <2> DEFINE n == b.pending - 1
             t == b.ok /\ ok
  <2>1. n \in Nat /\ t \in BOOLEAN
    BY <1>1, <1>2
  <2>2. x = [b EXCEPT !.pending = n, !.ok = t]
    OBVIOUS
  <2> HIDE DEF n, t, x
  <2>3. x \in PreContexts /\ x.valid = b.valid /\ x.pending = n
    BY <1>1, <2>1, <2>2 DEF PreContexts
  <2> QED
    BY <2>3 DEF n
<1>4. \/ Become(u)
      \/ Become(v1) /\ u.pd[p].pre.valid
      \/ Become(v2) /\ IsAllowedByParentAndChildren(u, p, u.pd[p].requested)
  <2>1. u = [World EXCEPT !.pd[p].pre =
                [pd[p].pre EXCEPT !.pending = @ - 1, !.ok = @ /\ ok]]
    BY WorldIs
  <2> HIDE DEF u
  <2> QED
    BY <2>1 DEF PreTransitionResponse
<1> HIDE DEF b, x, s
<1>5. /\ Touched(w, u, p) /\ u.pd[p].requested = s
      /\ u.pd[p].current = w.pd[p].current /\ u.pd[p].post = w.pd[p].post
      /\ u.pd[p].pre = x /\ u \in Worlds
  BY <1>3, SetPre DEF s, Touched
<1> HIDE DEF u
<1>6. Begun(u, u, p) /\ Begun(u, v1, p) /\ Begun(u, v2, p)
  BY <1>5, InitiateOutcome, BeginOutcome DEF Begun, Kept
<1> HIDE DEF v1, v2
<1>7. Begun(w, u, p) /\ Begun(w, v1, p) /\ Begun(w, v2, p)
  BY <1>5, <1>6, BegunTwice DEF s
<1>8. b.valid /\ Hard(w) => Compatible(w, p, s)
  BY <1>2, CompatibleMoving DEF Moving, b, s
<1>9. CASE Become(u)
  <2>1. Moving(u, p) => Moving(w, p)
    BY <1>2, <1>3, <1>5 DEF Moving, Touched, Kept, b
  <2>2. Hard(w) => Compatible(w, p, s) \/ (Kept(w, u) /\ ~Moving(u, p))
    BY <1>5, <2>1, CompatibleMoving DEF Touched, s
  <2> QED
    BY <1>7, <1>9, <2>2, BegunReached DEF s
<1>10. CASE Become(v1) /\ u.pd[p].pre.valid
  <2>1. b.valid
    BY <1>3, <1>5, <1>10
  <2> QED
    BY <1>7, <1>8, <1>10, <2>1, BegunReached DEF s
<1>11. CASE /\ Become(v2)
            /\ IsAllowedByParentAndChildren(u, p, u.pd[p].requested)
  <2>1. \A q \in PDs : u.pd[q].current = w.pd[q].current
    BY <1>5 DEF Touched
  <2>2. IsAllowedByParentAndChildren(w, p, s)
    BY <1>5, <1>11, <2>1, AllowedSame
  <2>3. Tree(w) /\ Hard(w) => Compatible(w, p, s)
    BY <1>1, <2>2, RequestedFits, CompatibleIf DEF s
  <2> QED
    BY <1>7, <1>11, <2>3, BegunReached DEF s
<1> QED
  BY <1>4, <1>9, <1>10, <1>11

(* TransitionResponse: the last answer may let the neighbours begin. *)
LEMMA PostResponseOutcome ==
    ASSUME NEW w \in Worlds, w = World, NEW p \in PDs, NEW refuse,
           TransitionResponse(p, refuse)
    PROVE  \E u, v : /\ Become(v) /\ Reached(u, v) /\ Touched(w, u, p)
                     /\ u.pd[p].requested = w.pd[p].requested
                     /\ u.pd[p].current = w.pd[p].current
                     /\ u.pd[p].pre = w.pd[p].pre
<1> DEFINE b == w.pd[p].post
           x == [b EXCEPT !.pending = @ - 1]
           u == [w EXCEPT !.pd[p].post = x]
           s == u.pd[p].current
           u1 == [u EXCEPT !.pd[p].post.previous = s]
           v1 == Propagate(u1, p, s, u.pd[p].post.previous, refuse)
           y == [u.pd[p].post EXCEPT !.state = s, !.pending = PostSubscribers[p]]
           u2 == [u EXCEPT !.pd[p].post = y]
<1>1. b \in PostContexts /\ b.pending \in Nat
  BY PdFields
<1>2. b.pending # 0 /\ b = pd[p].post
  BY WorldIs DEF TransitionResponse
<1>3. x \in PostContexts
  BY <1>1, <1>2 DEF PostContexts
<1>4. Become(u) \/ Become(v1) \/ Become(u2)
  <2>1. u = [World EXCEPT !.pd[p].post.pending = @ - 1]
    BY WorldIs
  <2> HIDE DEF u
  <2> QED
    BY <2>1 DEF TransitionResponse
<1> HIDE DEF x, b
<1>5. /\ Touched(w, u, p) /\ u.pd[p].requested = w.pd[p].requested
      /\ s = w.pd[p].current
      /\ u.pd[p].pre = w.pd[p].pre /\ u \in Worlds
  BY <1>3, SetPost DEF Touched
<1> HIDE DEF u
<1>6. s \in States /\ u.pd[p].post \in PostContexts /\ PostSubscribers[p] \in Nat
  BY <1>5, PdFields, Tables
<1>7. /\ Touched(u, u1, p) /\ u1.pd[p].requested = u.pd[p].requested
      /\ u1.pd[p].current = s
      /\ u1.pd[p].pre = u.pd[p].pre /\ u1 \in Worlds
  BY <1>5, <1>6, SetPrevious DEF Touched
<1>8. y \in PostContexts
  BY <1>6 DEF PostContexts
<1> HIDE DEF y
<1>9. /\ Touched(u, u2, p) /\ u2.pd[p].requested = u.pd[p].requested
      /\ u2.pd[p].current = s
      /\ u2.pd[p].pre = u.pd[p].pre /\ u2 \in Worlds
  BY <1>5, <1>8, SetPost DEF Touched
<1> HIDE DEF u1, u2, s
<1>10. Reached(u, u) /\ Reached(u1, v1) /\ Reached(u2, u2)
  BY <1>5, <1>7, <1>9, ReachedSelf, PropagateReached
<1>11. Touched(w, u1, p) /\ Touched(w, u2, p)
  BY <1>5, <1>7, <1>9 DEF Touched, Kept
<1> HIDE DEF v1
<1>12. CASE Become(u)
  BY <1>5, <1>10, <1>12 DEF s
<1>13. CASE Become(v1)
  BY <1>5, <1>7, <1>10, <1>11, <1>13
<1>14. CASE Become(u2)
  BY <1>5, <1>9, <1>10, <1>11, <1>14
<1> QED
  BY <1>4, <1>12, <1>13, <1>14

(* The world without its first report. *)
Popped(w) == [w EXCEPT !.reports = Tail(w.reports)]

(* Nothing else is lost. *)
LEMMA PopOutcome ==
    ASSUME NEW w \in Worlds, w.reports # <<>>
    PROVE  LET v == Popped(w)
               r == Head(w.reports)
           IN  /\ v \in Worlds /\ v.pd = w.pd /\ v.target = w.target
               /\ v.hw = w.hw /\ v.answers = w.answers
               /\ v.suspend = w.suspend
               /\ r \in Reports /\ r.pd \in PDs /\ r.state \in States
               /\ 1 \in DOMAIN w.reports /\ r = w.reports[1]
               /\ \A i \in DOMAIN v.reports :
                     i + 1 \in DOMAIN w.reports /\ v.reports[i] = w.reports[i + 1]
               /\ Reported(w, r.pd)
               /\ \A q : Reported(v, q) => Reported(w, q)
               /\ \A q : q # r.pd /\ Reported(w, q) => Reported(v, q)
<1> DEFINE s == w.reports
           t == Tail(s)
           v == Popped(w)
           r == Head(s)
<1>1. s \in Seq(Reports) /\ s # <<>>
  BY WorldFields
<1> HIDE DEF s
<1>2. /\ t \in Seq(Reports) /\ r \in Reports /\ r = s[1]
      /\ Len(s) \in Nat /\ Len(s) >= 1 /\ Len(t) = Len(s) - 1
      /\ DOMAIN s = 1..Len(s) /\ DOMAIN t = 1..Len(t)
      /\ \A i \in 1..Len(t) : t[i] = s[i + 1]
  BY <1>1
<1>3. v = [w EXCEPT !.reports = t]
  BY DEF Popped, s
<1> HIDE DEF t, v, r
<1>4. /\ v \in Worlds /\ v.pd = w.pd /\ v.target = w.target /\ v.hw = w.hw
      /\ v.answers = w.answers /\ v.suspend = w.suspend /\ v.reports = t
  BY <1>2, <1>3 DEF Worlds
<1>5. r.pd \in PDs /\ r.state \in States
  BY <1>2 DEF Reports
<1>6. 1 \in DOMAIN s /\ \A i \in DOMAIN t : i + 1 \in DOMAIN s
  BY <1>2
<1>7. Reported(w, r.pd)
  BY <1>2, <1>6 DEF Reported, s
<1>8. ASSUME NEW q, Reported(v, q) PROVE Reported(w, q)
  BY <1>2, <1>4, <1>6, <1>8 DEF Reported, s
<1>9. ASSUME NEW q, q # r.pd, Reported(w, q) PROVE Reported(v, q)
  <2>1. PICK i \in DOMAIN s : s[i].pd = q
    BY <1>9 DEF Reported, s
  <2>2. i # 1
    BY <1>2, <1>9, <2>1
  <2>3. i - 1 \in DOMAIN t /\ t[i - 1] = s[i]
    BY <1>2, <2>1, <2>2
  <2> QED
    BY <1>4, <2>1, <2>3 DEF Reported
<1>10. \A i \in DOMAIN v.reports :
           i + 1 \in DOMAIN s /\ v.reports[i] = s[i + 1]
  BY <1>2, <1>4, <1>6
<1> QED
  BY <1>2, <1>4, <1>5, <1>6, <1>7, <1>8, <1>9, <1>10 DEF s, r, v

(* The domain that reports was asked for what it reports, so that nothing  *)
(* is asked of it that was not before.                                     *)
LEMMA ArrivedKeeps ==
    ASSUME NEW w \in Worlds, w.reports # <<>>, NEW u,
           Arrived(Popped(w), u, Head(w.reports).pd, Head(w.reports).state),
           Flight(w, PDs)
    PROVE  /\ Tree(w) => Tree(u)
           /\ Flight(u, PDs)
           /\ Hard(w) => Hard(u)
<1> DEFINE v == Popped(w)
           r == Head(w.reports)
           p == r.pd
           s == r.state
<1>1. /\ v \in Worlds /\ v.pd = w.pd /\ v.target = w.target
      /\ v.hw = w.hw
      /\ p \in PDs /\ s \in States
      /\ 1 \in DOMAIN w.reports /\ r = w.reports[1]
      /\ \A i \in DOMAIN v.reports :
            i + 1 \in DOMAIN w.reports /\ v.reports[i] = w.reports[i + 1]
      /\ Reported(w, p)
      /\ \A q : Reported(v, q) => Reported(w, q)
      /\ \A q : q # p /\ Reported(w, q) => Reported(v, q)
  BY PopOutcome
<1>2. Arrived(v, u, p, s)
  OBVIOUS
<1> HIDE DEF v, r
<1>3. w.pd[p].requested = w.pd[p].toDriver
  BY <1>1 DEF Flight, InFlight
<1>4. /\ u \in Worlds /\ Kept(v, u) /\ u.pd[p].current = s
      /\ \A q \in PDs : q # p => u.pd[q] = w.pd[q]
      /\ u.pd[p].requested = w.pd[p].requested
      /\ u.pd[p].toDriver = w.pd[p].toDriver /\ u.pd[p].pre = w.pd[p].pre
  <2>1. /\ u \in Worlds /\ Kept(v, u) /\ u.pd[p].current = s
        /\ \A q \in PDs : q # p => u.pd[q] = v.pd[q]
    BY <1>2 DEF Arrived
  <2>2. /\ \/ u.pd[p].requested = v.pd[p].requested
           \/ u.pd[p].requested = v.pd[p].toDriver
        /\ u.pd[p].toDriver = v.pd[p].toDriver /\ u.pd[p].pre = v.pd[p].pre
    BY <1>2 DEF Arrived
  <2> QED
    BY <1>1, <1>3, <2>1, <2>2
<1>5. \A q \in PDs : u.pd[q].requested = w.pd[q].requested
                     /\ u.pd[q].toDriver = w.pd[q].toDriver
                     /\ u.pd[q].pre = w.pd[q].pre
  BY <1>4
<1>6. /\ u.target = w.target /\ u.hw = w.hw /\ u.reports = v.reports
      /\ \A q : Reported(u, q) <=> Reported(v, q)
  <2>1. u.target = w.target /\ u.hw = w.hw /\ u.reports = v.reports
    BY <1>1, <1>4 DEF Kept
  <2> QED
    BY <2>1 DEF Reported
<1>7. Tree(w) => Tree(u)
  BY <1>5, TreeSame
<1>8. Flight(u, PDs)
  BY <1>1, <1>5, <1>6 DEF Flight, InFlight
<1>9. ASSUME Hard(w) PROVE Hard(u)
  <2>1. s = w.pd[p].requested /\ w.hw[p] = w.pd[p].requested
    BY <1>1, <1>9 DEF Hard, TrueReports
  <2>2. TrueReports(u)
    <3> SUFFICES ASSUME NEW i \in DOMAIN u.reports
                 PROVE  LET e == u.reports[i]
                        IN  /\ e.state = u.pd[e.pd].requested
                            /\ u.hw[e.pd] = u.pd[e.pd].requested
      BY DEF TrueReports
    <3>1. i + 1 \in DOMAIN w.reports /\ u.reports[i] = w.reports[i + 1]
      BY <1>1, <1>6
    <3>2. w.reports[i + 1].pd \in PDs
      <4>1. w.reports \in Seq(Reports)
        BY WorldFields
      <4>2. w.reports[i + 1] \in Reports
        BY <3>1, <4>1
      <4> QED
        BY <4>2 DEF Reports
    <3> QED
      BY <1>5, <1>6, <1>9, <3>1, <3>2 DEF Hard, TrueReports
  <2>3. \A q \in PDs : u.target[q] # NoState => u.target[q] = u.pd[q].requested
    BY <1>5, <1>6, <1>9 DEF Hard
  <2>4. ASSUME NEW q \in PDs, u.hw[q] # u.pd[q].current PROVE Reported(u, q)
    <3>1. q # p
      BY <1>4, <1>6, <2>1, <2>4
    <3>2. Reported(w, q)
      BY <1>4, <1>6, <1>9, <2>4, <3>1 DEF Hard
    <3> QED
      BY <1>1, <1>6, <3>1, <3>2
  <2>5. ASSUME NEW q \in PDs, NEW x PROVE May(u, q, x) <=> May(w, q, x)
    BY <1>5, <1>6 DEF May, Moving
  <2>6. \A q \in PDs : Parent[q] # NoPd => Parent[q] \in PDs
    BY Tables
  <2>7. \A q \in PDs : Parent[q] # NoPd =>
           \A x, y \in States : May(u, q, x) /\ May(u, Parent[q], y) =>
               IsAllowedByChild(q, y, x)
    BY <1>9, <2>5, <2>6 DEF Hard
  <2> QED
    BY <2>2, <2>3, <2>4, <2>7 DEF Hard
<1> QED
  BY <1>7, <1>8, <1>9

(* ProcessReport *)
LEMMA ProcessReportOutcome ==
    ASSUME NEW w \in Worlds, w = World, NEW refuse, ProcessReport(refuse)
    PROVE  /\ w.reports # <<>>
           /\ \E u, v :
                /\ Become(v)
                /\ Arrived(Popped(w), u, Head(w.reports).pd,
                           Head(w.reports).state)
                /\ \/ /\ v = CompleteSystemSuspend(u, Head(w.reports).pd,
                                         Head(w.reports).pd, refuse)
                      /\ w.suspend.lastCoreOff
                   \/ Reached(u, v)
<1> DEFINE r == Head(w.reports)
           x == Popped(w)
           v == TransitionReport(x, r.pd, r.state, refuse)
<1>1. w.reports # <<>> /\ w.reports = reports
  BY WorldIs DEF ProcessReport
<1>2. x \in Worlds /\ r.pd \in PDs /\ r.state \in States
      /\ x.suspend = w.suspend
  BY <1>1, PopOutcome
<1>3. Become(v)
  <2>1. x = [World EXCEPT !.reports = Tail(@)] /\ r = Head(reports)
    BY <1>1, WorldIs DEF Popped
  <2> HIDE DEF x, r
  <2> QED
    BY <2>1 DEF ProcessReport
<1> HIDE DEF x, r
<1>4. PICK u : /\ Arrived(x, u, r.pd, r.state)
               /\ \/ /\ v = CompleteSystemSuspend(u, r.pd, r.pd, refuse)
                     /\ x.suspend.lastCoreOff
                  \/ Reached(u, v)
  BY <1>2, ReportOutcome
<1> HIDE DEF v
<1> QED
  BY <1>1, <1>2, <1>3, <1>4 DEF x, r

(* DriverReports: the hardware is where it was going. *)
LEMMA DriverReportsOutcome ==
    ASSUME NEW w \in Worlds, w = World, NEW p \in PDs, DriverReports(p)
    PROVE  \E v \in Worlds :
             /\ Become(v) /\ v.pd = w.pd /\ v.suspend = w.suspend
             /\ v.answers = w.answers
             /\ Flight(w, PDs) => Flight(v, PDs)
             /\ Hard(w) => Hard(v)
<1> DEFINE t == w.target[p]
           r == [pd |-> p, state |-> t]
           f == [w.hw EXCEPT ![p] = t]
           g == [w.target EXCEPT ![p] = NoState]
           e == Append(w.reports, r)
           v == [w EXCEPT !.target = g, !.hw = f, !.reports = e]
<1>1. /\ w.target \in [PDs -> States \cup {NoState}] /\ w.hw \in [PDs -> States]
      /\ w.reports \in Seq(Reports)
  BY WorldFields
<1>2. t # NoState /\ t \in States
  BY <1>1, WorldIs DEF DriverReports
<1>3. r \in Reports /\ r.pd = p /\ r.state = t
  BY <1>2 DEF Reports
<1>4. /\ hw' = f /\ reports' = e /\ target' = g /\ pd' = w.pd
      /\ answers' = w.answers /\ suspend' = w.suspend
  BY WorldIs DEF DriverReports
<1> HIDE DEF r, t
<1>5. f \in [PDs -> States] /\ f[p] = t
      /\ \A q \in PDs : q # p => f[q] = w.hw[q]
  BY <1>1, <1>2
<1>6. g \in [PDs -> States \cup {NoState}] /\ g[p] = NoState
      /\ \A q \in PDs : q # p => g[q] = w.target[q]
  BY <1>1
<1>7. /\ e \in Seq(Reports) /\ Len(w.reports) \in Nat
      /\ DOMAIN w.reports = 1..Len(w.reports)
      /\ DOMAIN e = 1..(Len(w.reports) + 1)
      /\ \A i \in 1..Len(w.reports) : e[i] = w.reports[i]
      /\ e[Len(w.reports) + 1] = r
  BY <1>1, <1>3
<1> HIDE DEF f, g, e
<1>8. /\ v \in Worlds /\ v.pd = w.pd /\ v.target = g /\ v.hw = f
      /\ v.reports = e /\ v.answers = w.answers /\ v.suspend = w.suspend
  BY <1>5, <1>6, <1>7 DEF Worlds
<1> HIDE DEF v
<1>9. Become(v)
  BY <1>4, <1>8 DEF Become
<1>10. \A i \in DOMAIN v.reports :
          \/ i \in DOMAIN w.reports /\ v.reports[i] = w.reports[i]
          \/ v.reports[i] = r
  <2>1. \A i \in 1..(Len(w.reports) + 1) :
            i \in 1..Len(w.reports) \/ i = Len(w.reports) + 1
    BY <1>7
  <2> QED
    BY <1>7, <1>8, <2>1
<1>11. \A i \in DOMAIN w.reports : i \in DOMAIN v.reports
                                   /\ v.reports[i] = w.reports[i]
  BY <1>7, <1>8
<1>12. Reported(v, p)
  <2>1. Len(w.reports) + 1 \in DOMAIN v.reports
    BY <1>7, <1>8
  <2> QED
    BY <1>3, <1>7, <1>8, <2>1 DEF Reported
<1>13. \A q \in PDs : q # p => (Reported(v, q) <=> Reported(w, q))
  BY <1>3, <1>10, <1>11 DEF Reported
<1>14. Flight(w, PDs) => Flight(v, PDs)
  <2>1. InFlight(w, p)
    BY <1>2 DEF InFlight, t
  <2>2. \A q \in PDs : InFlight(v, q) => InFlight(w, q)
    BY <1>6, <1>8, <1>13, <2>1 DEF InFlight
  <2> QED
    BY <1>8, <2>2 DEF Flight
<1>15. ASSUME Hard(w) PROVE Hard(v)
  <2>1. t = w.pd[p].requested /\ Moving(w, p)
    BY <1>2, <1>15 DEF Hard, Moving, t
  <2>2. TrueReports(v)
    <3> SUFFICES ASSUME NEW i \in DOMAIN v.reports
                 PROVE  LET b == v.reports[i]
                        IN  /\ b.state = v.pd[b.pd].requested
                            /\ v.hw[b.pd] = v.pd[b.pd].requested
      BY DEF TrueReports
    <3>1. CASE v.reports[i] = r
      BY <1>3, <1>5, <1>8, <2>1, <3>1
    <3>2. CASE i \in DOMAIN w.reports /\ v.reports[i] = w.reports[i]
      <4> DEFINE b == w.reports[i]
      <4>1. b.state = w.pd[b.pd].requested /\ w.hw[b.pd] = w.pd[b.pd].requested
        BY <1>15, <3>2 DEF Hard, TrueReports
      <4>2. b \in Reports
        BY <1>1, <3>2
      <4>3. b.pd \in PDs
        BY <4>2 DEF Reports
      <4> QED
        BY <1>5, <1>8, <2>1, <3>2, <4>1, <4>3
    <3> QED
      BY <1>10, <3>1, <3>2
  <2>3. \A q \in PDs : v.target[q] # NoState => v.target[q] = v.pd[q].requested
    BY <1>6, <1>8, <1>15 DEF Hard
  <2>4. \A q \in PDs : v.hw[q] # v.pd[q].current => Reported(v, q)
    BY <1>5, <1>8, <1>12, <1>13, <1>15 DEF Hard
  <2>5. ASSUME NEW q \in PDs, NEW x, May(v, q, x) PROVE May(w, q, x)
    <3>1. CASE q = p
      BY <1>5, <1>8, <2>1, <2>5, <3>1 DEF May
    <3>2. CASE q # p
      BY <1>5, <1>6, <1>8, <2>5, <3>2 DEF May, Moving
    <3> QED
      BY <3>1, <3>2
  <2>6. \A q \in PDs : Parent[q] # NoPd => Parent[q] \in PDs
    BY Tables
  <2>7. \A q \in PDs : Parent[q] # NoPd =>
           \A x, y \in States : May(v, q, x) /\ May(v, Parent[q], y) =>
               IsAllowedByChild(q, y, x)
    BY <1>15, <2>5, <2>6 DEF Hard
  <2> QED
    BY <2>2, <2>3, <2>4, <2>7 DEF Hard
<1> QED
  BY <1>8, <1>9, <1>14, <1>15

(* ProcessReset: only the hardware and the reports change. *)
LEMMA ResetOutcome ==
    ASSUME NEW w \in Worlds, w = World, NEW p \in PDs, ProcessReset(p)
    PROVE  \E v \in Worlds : /\ Become(v) /\ v.pd = w.pd
                             /\ v.suspend = w.suspend /\ v.answers = w.answers
<1> DEFINE r1 == [pd |-> p, state |-> Off]
           r2 == [pd |-> p, state |-> On]
           f == [w.hw EXCEPT ![p] = On]
           e == IF p \in Cores THEN w.reports \o <<r1, r2>> ELSE w.reports
           v == [w EXCEPT !.hw = f, !.reports = e]
<1>1. w.hw \in [PDs -> States] /\ w.reports \in Seq(Reports)
  BY WorldFields
<1>2. r1 \in Reports /\ r2 \in Reports /\ On \in States
  BY DEF Reports, States
<1>3. /\ hw' = f /\ reports' = e /\ target' = w.target /\ pd' = w.pd
      /\ answers' = w.answers /\ suspend' = w.suspend
  BY WorldIs DEF ProcessReset
<1> HIDE DEF r1, r2
<1>4. f \in [PDs -> States]
  BY <1>1, <1>2
<1>5. e \in Seq(Reports)
  BY <1>1, <1>2
<1> HIDE DEF f, e
<1>6. /\ v \in Worlds /\ v.pd = w.pd /\ v.target = w.target /\ v.hw = f
      /\ v.reports = e /\ v.answers = w.answers /\ v.suspend = w.suspend
  BY <1>4, <1>5 DEF Worlds
<1> HIDE DEF v
<1> QED
  BY <1>3, <1>6 DEF Become

----------------------------------------------------------------------------
(* Suspend and shutdown. *)

(* Every domain may be off, whatever its parent is in. *)
OffAllowed ==
    \A p \in PDs : Parent[p] # NoPd =>
        \A s \in States : IsAllowedByChild(p, s, Off)

(* No domain is below a core. *)
CoreLeaves == \A c \in Cores : Children(c) = {}

(* SystemSuspend: the request is queued. *)
LEMMA SystemSuspendOutcome ==
    ASSUME NEW w \in Worlds, w = World, NEW state \in {Off, Sleep},
           SystemSuspend(state)
    PROVE  \E v \in Worlds : /\ Become(v) /\ v.pd = w.pd /\ Kept(w, v)
                             /\ v.answers = w.answers /\ v.suspend.count # 0
<1> DEFINE x == [w.suspend EXCEPT !.queued = state, !.count = @ + 1]
           v == [w EXCEPT !.suspend = x]
<1>1. w.suspend \in SuspendContexts /\ w.suspend.count < MaxSuspends
  BY WorldFields, WorldIs DEF SystemSuspend
<1>2. state \in States /\ MaxSuspends \in Nat
  BY PowerDomainAssumption DEF States
<1>3. x \in SuspendContexts /\ x.count # 0
  <2> DEFINE n == w.suspend.count + 1
  <2>1. n \in 0..MaxSuspends /\ n # 0
    BY <1>1, <1>2 DEF SuspendContexts
  <2>2. x = [w.suspend EXCEPT !.queued = state, !.count = n]
    OBVIOUS
  <2> HIDE DEF n, x
  <2>3. x \in SuspendContexts /\ x.count = n
    BY <1>1, <1>2, <2>1, <2>2 DEF SuspendContexts
  <2> QED
    BY <2>1, <2>3
<1>4. /\ suspend' = x /\ pd' = w.pd /\ target' = w.target /\ hw' = w.hw
      /\ reports' = w.reports /\ answers' = w.answers
  BY WorldIs DEF SystemSuspend
<1> HIDE DEF x
<1>5. /\ v \in Worlds /\ Kept(w, v) /\ v.pd = w.pd
      /\ v.answers = w.answers /\ v.suspend = x
  BY <1>3, SetSuspend
<1> HIDE DEF v
<1> QED
  BY <1>3, <1>4, <1>5 DEF Become, Kept

(* A suspend keeps what the drivers are asked for compatible. *)
Suspended(w, v) ==
    /\ v \in Worlds /\ v.suspend.count = w.suspend.count
    /\ OffAllowed /\ CoreLeaves /\ Tree(w) => Tree(v)
    /\ Flight(w, PDs) => Flight(v, PDs)
    /\ CompositeSupport = {} =>
          /\ v.answers = w.answers
          /\ \A q \in PDs : v.pd[q].response = w.pd[q].response

(* PrepareLastCore: the last core will go off. *)
LEMMA PrepareOutcome ==
    ASSUME NEW w \in Worlds, NEW c \in Cores, NEW prepared,
           suspend.queued \in States
    PROVE  Suspended(w, PrepareLastCore(w, c, prepared))
<1> DEFINE x == [w.suspend EXCEPT !.lastCoreOff = TRUE, !.lastCore = c,
                                  !.state = suspend.queued]
           d == [w.pd[c] EXCEPT !.requested = Off, !.toDriver = Off]
           f == [w.pd EXCEPT ![c] = d]
           g == [w.target EXCEPT ![c] = Off]
           v == [w EXCEPT !.suspend = x, !.pd = f, !.target = g]
<1>1. c \in PDs
  BY PowerDomainAssumption
<1>2. CASE ~prepared
  BY <1>2 DEF PrepareLastCore, Suspended
<1>3. CASE prepared
  <2>1. PrepareLastCore(w, c, prepared) = v
    BY <1>3 DEF PrepareLastCore
  <2>2. x \in SuspendContexts /\ x.count = w.suspend.count
    BY <1>1, WorldFields DEF SuspendContexts
  <2>3. Off \in States /\ w.pd[c] \in PdContexts
    BY <1>1, PdFields DEF States
  <2>4. /\ d \in PdContexts /\ d.requested = Off /\ d.toDriver = Off
        /\ d.response = w.pd[c].response
    BY <2>3 DEF PdContexts
  <2> HIDE DEF x, d
  <2>5. /\ f \in [PDs -> PdContexts] /\ f[c] = d
        /\ \A q \in PDs : q # c => f[q] = w.pd[q]
    BY <1>1, <2>4, WorldFields
  <2>6. /\ g \in [PDs -> States \cup {NoState}]
        /\ \A q \in PDs : q # c => g[q] = w.target[q]
    BY <1>1, <2>3, WorldFields
  <2> HIDE DEF f, g
  <2>7. /\ v \in Worlds /\ v.suspend = x /\ v.pd = f /\ v.target = g
        /\ v.reports = w.reports /\ v.answers = w.answers
    BY <2>2, <2>5, <2>6 DEF Worlds
  <2> HIDE DEF v
  <2>8. ASSUME OffAllowed, CoreLeaves, Tree(w) PROVE Tree(v)
    <3> SUFFICES ASSUME NEW q \in PDs, Parent[q] # NoPd
                 PROVE  IsAllowedByChild(q, v.pd[Parent[q]].requested,
                                         v.pd[q].requested)
      BY DEF Tree
    <3>1. Parent[q] \in PDs /\ Parent[q] # c
      BY <2>8, Tables DEF CoreLeaves, Children
    <3>2. v.pd[Parent[q]] = w.pd[Parent[q]] /\ w.pd[Parent[q]].requested \in States
      BY <2>5, <2>7, <3>1, PdFields
    <3>3. CASE q = c
      BY <2>4, <2>5, <2>7, <2>8, <3>2, <3>3 DEF OffAllowed
    <3>4. CASE q # c
      BY <2>5, <2>7, <2>8, <3>2, <3>4 DEF Tree
    <3> QED
      BY <3>3, <3>4
  <2>9. ASSUME Flight(w, PDs) PROVE Flight(v, PDs)
    <3> SUFFICES ASSUME NEW q \in PDs, InFlight(v, q)
                 PROVE  v.pd[q].requested = v.pd[q].toDriver
      BY DEF Flight
    <3>1. CASE q = c
      BY <2>4, <2>5, <2>7, <3>1
    <3>2. CASE q # c
      <4>1. InFlight(w, q)
        BY <2>6, <2>7, <3>2 DEF InFlight, Reported
      <4> QED
        BY <2>5, <2>7, <2>9, <3>2, <4>1 DEF Flight
    <3> QED
      BY <3>1, <3>2
  <2>10. \A q \in PDs : v.pd[q].response = w.pd[q].response
    BY <2>4, <2>5, <2>7
  <2> QED
    BY <2>1, <2>2, <2>7, <2>8, <2>9, <2>10 DEF Suspended
<1> QED
  BY <1>2, <1>3

(* ProcessSystemSuspend: nothing, the last core or the whole path. *)
LEMMA ProcessSuspendOutcome ==
    ASSUME NEW w \in Worlds, w = World, NEW prepared, NEW refuse,
           ProcessSystemSuspend(prepared, refuse)
    PROVE  \E v : Become(v) /\ Suspended(w, v)
<1> DEFINE x == [w.suspend EXCEPT !.queued = NoState]
           u == [w EXCEPT !.suspend = x]
           cores == Standing(Cores)
           clusters == Standing(Clusters)
           c == CHOOSE b \in cores : TRUE
           k == IF clusters # {} THEN CHOOSE b \in clusters : TRUE ELSE PdCount
           v1 == PrepareLastCore(u, c, prepared)
           v2 == CompleteSystemSuspend(u, NoPd, k, refuse)
<1>1. w.suspend \in SuspendContexts /\ w.suspend = suspend
  BY WorldFields, WorldIs
<1>2. x \in SuspendContexts /\ x.count = w.suspend.count
  BY <1>1 DEF SuspendContexts
<1>3. suspend.queued # NoState /\ suspend.queued \in States
  BY <1>1 DEF ProcessSystemSuspend, SuspendContexts
<1>4. cores \subseteq Cores /\ clusters \subseteq PDs
  BY PowerDomainAssumption DEF Standing
<1>5. \/ Become(u)
      \/ cores # {} /\ Become(v1)
      \/ Become(v2)
  <2>1. u = [World EXCEPT !.suspend.queued = NoState]
    BY WorldIs
  <2> HIDE DEF u
  <2> QED
    BY <2>1 DEF ProcessSystemSuspend
<1> HIDE DEF x
<1>6. /\ u \in Worlds /\ Kept(w, u) /\ u.pd = w.pd /\ u.suspend = x
      /\ u.answers = w.answers
  BY <1>2, SetSuspend
<1> HIDE DEF u, cores, clusters
<1>7. (Tree(w) => Tree(u)) /\ (Flight(w, PDs) => Flight(u, PDs))
  BY <1>6, KeptFacts DEF Tree, Flight
<1>8. Suspended(w, u)
  BY <1>2, <1>6, <1>7 DEF Suspended
<1>9. ASSUME cores # {} PROVE Suspended(w, v1)
  <2>1. c \in Cores
    BY <1>4, <1>9
  <2> HIDE DEF c
  <2>2. Suspended(u, v1)
    BY <1>3, <1>6, <2>1, PrepareOutcome
  <2> HIDE DEF v1
  <2> QED
    BY <1>8, <2>2 DEF Suspended
<1>10. Suspended(w, v2)
  <2>1. k \in PDs
    BY <1>4, Tables
  <2> HIDE DEF k
  <2>2. /\ v2 \in Worlds /\ v2.suspend.count = u.suspend.count
        /\ Tree(u) => Tree(v2)
        /\ Flight(u, PDs) => Flight(v2, PDs)
        /\ k \notin CompositeSupport => v2 = u
    BY <1>6, <2>1, CompleteOutcome
  <2> HIDE DEF v2
  <2> QED
    BY <1>8, <2>2 DEF Suspended
<1> QED
  BY <1>5, <1>8, <1>9, <1>10

(* The domains up to i were shut down, the others are as they were. *)
ShutWorlds(w, i) ==
    {v \in Worlds :
        /\ v.suspend = w.suspend /\ v.answers = w.answers
        /\ \A q \in PDs : v.pd[q].response = w.pd[q].response
        /\ \A q \in PDs : q <= i => /\ v.pd[q].requested = Off
                                    /\ v.pd[q].toDriver = Off
        /\ \A q \in PDs : q > i => /\ v.pd[q] = w.pd[q]
                                   /\ InFlight(v, q) => InFlight(w, q)}

(* The driver of p was called, whatever it does, or was not. *)
LEMMA ShutdownCall ==
    ASSUME NEW w \in Worlds, NEW p \in PDs, NEW refuse
    PROVE  LET v == IF p \in refuse THEN w
                    ELSE IF p \in ShutdownDrivers
                    THEN [w EXCEPT !.hw[p] = Off, !.target[p] = NoState]
                    ELSE DriverSetState(w, p, Off)
           IN  /\ v \in Worlds /\ v.pd = w.pd
               /\ v.answers = w.answers /\ v.suspend = w.suspend
               /\ \A q \in PDs : q # p /\ InFlight(v, q) => InFlight(w, q)
<1>1. Off \in States
  BY DEF States
<1>2. CASE p \in refuse
  BY <1>2
<1>3. CASE p \notin refuse /\ p \in ShutdownDrivers
  <2> DEFINE h == [w.hw EXCEPT ![p] = Off]
             g == [w.target EXCEPT ![p] = NoState]
             v == [w EXCEPT !.hw = h, !.target = g]
  <2>1. /\ h \in [PDs -> States] /\ g \in [PDs -> States \cup {NoState}]
        /\ \A q \in PDs : q # p => g[q] = w.target[q]
    BY <1>1, WorldFields
  <2>2. [w EXCEPT !.hw[p] = Off, !.target[p] = NoState] = v
    OBVIOUS
  <2> HIDE DEF h, g
  <2>3. /\ v \in Worlds /\ v.pd = w.pd /\ v.answers = w.answers
        /\ v.suspend = w.suspend /\ v.target = g /\ v.reports = w.reports
    BY <2>1 DEF Worlds
  <2> HIDE DEF v
  <2>4. \A q \in PDs : q # p /\ InFlight(v, q) => InFlight(w, q)
    BY <2>1, <2>3 DEF InFlight, Reported
  <2> QED
    BY <1>3, <2>2, <2>3, <2>4
<1>4. CASE p \notin refuse /\ p \notin ShutdownDrivers
  <2> DEFINE v == DriverSetState(w, p, Off)
  <2>1. /\ v \in Worlds /\ v.pd = w.pd /\ v.answers = w.answers
        /\ v.suspend = w.suspend /\ Driven(w, v, p, Off)
    BY <1>1, DriverOutcome
  <2> HIDE DEF v
  <2>2. \A q \in PDs : q # p /\ InFlight(v, q) => InFlight(w, q)
    BY <1>1, <2>1, DrivenFacts DEF InFlight
  <2> QED
    BY <1>4, <2>1, <2>2 DEF v
<1> QED
  BY <1>2, <1>3, <1>4

(* One domain of the loop. *)
LEMMA ShutdownRound ==
    ASSUME NEW w \in Worlds, NEW p \in PDs, NEW refuse,
           NEW u \in ShutWorlds(w, p - 1)
    PROVE  ShutdownDomain(u, p, refuse) \in ShutWorlds(w, p)
<1> DEFINE v == IF p \in refuse THEN u
                ELSE IF p \in ShutdownDrivers
                THEN [u EXCEPT !.hw[p] = Off, !.target[p] = NoState]
                ELSE DriverSetState(u, p, Off)
           c == v.pd[p]
           d == [c EXCEPT !.requested = Off, !.toDriver = Off, !.current = Off]
           f == [v.pd EXCEPT ![p] = d]
           z == [v EXCEPT !.pd = f]
<1>1. u \in Worlds
  BY DEF ShutWorlds
<1>2. /\ v \in Worlds /\ v.pd = u.pd
      /\ v.answers = u.answers /\ v.suspend = u.suspend
      /\ \A q \in PDs : q # p /\ InFlight(v, q) => InFlight(u, q)
  BY <1>1, ShutdownCall
<1>3. ShutdownDomain(u, p, refuse) = z
  BY DEF ShutdownDomain
<1> HIDE DEF v
<1>4. c \in PdContexts
  BY <1>2, PdFields
<1>5. Off \in States
  BY DEF States
<1> HIDE DEF c
<1>6. /\ d \in PdContexts /\ d.requested = Off /\ d.toDriver = Off
      /\ d.response = c.response
  BY <1>4, <1>5 DEF PdContexts
<1> HIDE DEF d
<1>7. /\ f \in [PDs -> PdContexts] /\ f[p] = d
      /\ \A q \in PDs : q # p => f[q] = v.pd[q]
  BY <1>2, <1>6, WorldFields
<1> HIDE DEF f
<1>8. /\ z \in Worlds /\ z.pd = f /\ z.target = v.target
      /\ z.reports = v.reports /\ z.answers = v.answers
      /\ z.suspend = v.suspend
  BY <1>2, <1>7 DEF Worlds
<1> HIDE DEF z
<1>9. \A q \in PDs : z.pd[q].response = w.pd[q].response
  BY <1>2, <1>6, <1>7, <1>8 DEF c, ShutWorlds
<1>10. \A q \in PDs : q <= p => z.pd[q].requested = Off /\ z.pd[q].toDriver = Off
  <2>1. \A q \in PDs : q <= p => q = p \/ q <= p - 1
    BY DEF PDs
  <2> QED
    BY <1>2, <1>6, <1>7, <1>8, <2>1 DEF ShutWorlds
<1>11. \A q \in PDs : q > p => /\ z.pd[q] = w.pd[q]
                               /\ InFlight(z, q) => InFlight(w, q)
  <2>1. \A q \in PDs : q > p => q # p /\ q > p - 1
    BY DEF PDs
  <2>2. \A q \in PDs : InFlight(z, q) => InFlight(v, q)
    BY <1>8 DEF InFlight, Reported
  <2> QED
    BY <1>2, <1>7, <1>8, <2>1, <2>2 DEF ShutWorlds
<1> QED
  BY <1>2, <1>3, <1>8, <1>9, <1>10, <1>11 DEF ShutWorlds

(* The loop. *)
LEMMA ShutdownLoop ==
    ASSUME NEW w \in Worlds, NEW last \in 0..PdCount, NEW refuse
    PROVE  ShutdownUpTo(w, last, refuse) \in ShutWorlds(w, last)
<1> DEFINE n == PdCount
           Step(a, i) == ShutdownDomain(a, i, refuse)
           A == [i \in 0..n |-> ShutWorlds(w, i)]
           F == [i \in 1..n |-> [a \in ShutWorlds(w, i - 1) |-> Step(a, i)]]
           Rounds(f) == f = [i \in 0..n |->
                                IF i = 0 THEN w
                                ELSE ShutdownDomain(f[i - 1], i, refuse)]
           f == CHOOSE g : Rounds(g)
<1>1. n \in Nat /\ \A i \in 1..n : i \in PDs
  BY Tables DEF PDs
<1>2. w \in ShutWorlds(w, 0)
  BY DEF ShutWorlds, PDs
<1>3. \A i \in 1..n : \A a \in ShutWorlds(w, i - 1) :
          Step(a, i) \in ShutWorlds(w, i)
  BY <1>1, ShutdownRound
<1>4. \E g : Rounds(g)
  <2>0. \A g : (g = [i \in 0..n |-> IF i = 0 THEN w ELSE Step(g[i - 1], i)])
               => Rounds(g)
    OBVIOUS
  <2> HIDE DEF Step, Rounds
  <2>1. \A i \in 1..n : i - 1 \in 0..n /\ i \in 0..n
    BY <1>1
  <2>2. \A i \in 0..n : A[i] = ShutWorlds(w, i)
    OBVIOUS
  <2>3. \A i \in 1..n : \A a \in ShutWorlds(w, i - 1) : F[i][a] = Step(a, i)
    OBVIOUS
  <2> HIDE DEF A, F
  <2>4. \A i \in 1..n : \A a \in A[i - 1] : F[i][a] \in A[i]
    BY <1>3, <2>1, <2>2, <2>3
  <2>5. w \in A[0]
    BY <1>1, <1>2, <2>2
  <2> HIDE DEF n
  <2>6. PICK g : IsLoop(g, n, A, w, F)
    BY <1>1, <2>4, <2>5, LoopDefined
  <2>7. /\ g = [i \in 0..n |-> g[i]] /\ g[0] = w
        /\ \A i \in 1..n : g[i] = F[i][g[i - 1]]
        /\ \A i \in 0..n : g[i] \in A[i]
    BY <2>6 DEF IsLoop
  <2>8. \A i \in 0..n : i # 0 => i \in 1..n /\ i - 1 \in 0..n
    BY <1>1
  <2>9. \A i \in 0..n : g[i] = IF i = 0 THEN w ELSE Step(g[i - 1], i)
    BY <2>1, <2>2, <2>3, <2>7, <2>8
  <2>10. g = [i \in 0..n |-> IF i = 0 THEN w ELSE Step(g[i - 1], i)]
    BY <2>7, <2>9
  <2> QED
    BY <2>0, <2>10
<1>5. Rounds(f)
  <2> HIDE DEF Rounds
  <2> QED
    BY <1>4
<1>6. ShutdownUpTo(w, last, refuse) = f[last]
  BY DEF ShutdownUpTo
<1>7. f[0] = w /\ \A i \in 1..n : f[i] = Step(f[i - 1], i)
  <2> HIDE DEF f
  <2>1. f = [i \in 0..n |-> IF i = 0 THEN w ELSE Step(f[i - 1], i)]
    BY <1>5
  <2> HIDE DEF Step, Rounds
  <2> QED
    BY <1>1, <2>1
<1> HIDE DEF f, Step
<1>8. f[last] \in ShutWorlds(w, last)
  <2>1. \A i \in 0..n : A[i] = ShutWorlds(w, i)
    OBVIOUS
  <2>2. \A i \in 1..n : i - 1 \in 0..n /\ i \in 0..n
    BY <1>1
  <2> HIDE DEF A
  <2>3. f[0] \in A[0] /\ \A i \in 1..n : f[i - 1] \in A[i - 1] => f[i] \in A[i]
    BY <1>1, <1>2, <1>3, <1>7, <2>1, <2>2
  <2> HIDE DEF n
  <2>4. \A i \in 0..n : f[i] \in A[i]
    BY <1>1, <2>3, LoopInvariant
  <2> QED
    BY <2>1, <2>4 DEF n
<1> QED
  BY <1>6, <1>8

(* PerformShutdown: the domains up to last are off. *)
LEMMA ShutdownOutcome ==
    ASSUME NEW w \in Worlds, w = World, NEW last \in 0..PdCount,
           PerformShutdown(last)
    PROVE  \E v \in Worlds :
             /\ Become(v) /\ v.suspend = w.suspend /\ v.answers = w.answers
             /\ \A q \in PDs : v.pd[q].response = w.pd[q].response
             /\ OffAllowed /\ Tree(w) => Tree(v)
             /\ Flight(w, PDs) => Flight(v, PDs)
<1>1. PICK refuse : Become(ShutdownUpTo(w, last, refuse))
  BY DEF PerformShutdown
<1> DEFINE v == ShutdownUpTo(w, last, refuse)
<1>2. v \in ShutWorlds(w, last)
  BY ShutdownLoop
<1>3. Become(v)
  BY <1>1
<1> HIDE DEF v
<1>4. /\ v \in Worlds /\ v.suspend = w.suspend /\ v.answers = w.answers
      /\ \A q \in PDs : v.pd[q].response = w.pd[q].response
      /\ \A q \in PDs : q <= last => /\ v.pd[q].requested = Off
                                     /\ v.pd[q].toDriver = Off
      /\ \A q \in PDs : q > last => /\ v.pd[q] = w.pd[q]
                                    /\ InFlight(v, q) => InFlight(w, q)
  BY <1>2 DEF ShutWorlds
<1>5. \A q \in PDs : q <= last \/ q > last
  BY Tables DEF PDs
<1>6. ASSUME OffAllowed, Tree(w) PROVE Tree(v)
  <2> SUFFICES ASSUME NEW q \in PDs, Parent[q] # NoPd
               PROVE  IsAllowedByChild(q, v.pd[Parent[q]].requested,
                                       v.pd[q].requested)
    BY DEF Tree
  <2>1. Parent[q] \in PDs /\ Parent[q] > q
    BY Tables, PowerDomainAssumption
  <2>2. CASE q > last
    <3>1. Parent[q] > last
      BY <2>1, <2>2 DEF PDs
    <3> QED
      BY <1>4, <1>6, <2>1, <2>2, <3>1 DEF Tree
  <2>3. CASE q <= last
    <3>1. v.pd[Parent[q]].requested \in States
      BY <1>4, <2>1, PdFields
    <3> QED
      BY <1>4, <1>6, <2>3, <3>1 DEF OffAllowed
  <2> QED
    BY <1>5, <2>2, <2>3
<1>7. ASSUME Flight(w, PDs) PROVE Flight(v, PDs)
  BY <1>4, <1>5, <1>7 DEF Flight
<1> QED
  BY <1>3, <1>4, <1>6, <1>7

----------------------------------------------------------------------------
(* The initial states. *)

(* The state that pd_start records for p: below a domain that is off the   *)
(* hardware is not read.                                                   *)
IsRead(h, p) == \A q \in ToSet(Tail(PathUp[p])) : h[q] # Off
StartState(h, p) == IF IsRead(h, p) THEN h[p] ELSE Off

(* What it records. *)
LEMMA InitOutcome ==
    ASSUME Init
    PROVE  /\ TypeOK /\ hw \in InitialStates
           /\ reports = <<>> /\ target = [p \in PDs |-> NoState]
           /\ answers = <<>>
           /\ suspend.count = 0 /\ suspend.queued = NoState
           /\ suspend.lastCoreOff = FALSE
           /\ shutdown.ongoing = FALSE /\ shutdown.awaited = 0
           /\ shutdown.requests = 0 /\ shutdown.count = 0
           /\ \A p \in PDs : /\ pd[p].requested = StartState(hw, p)
                             /\ pd[p].toDriver = StartState(hw, p)
                             /\ pd[p].current = StartState(hw, p)
                             /\ pd[p].response = 0
                             /\ pd[p].pre.pending = 0
<1> DEFINE s(p) == StartState(hw, p)
           x == [pending |-> 0, state |-> Off, ok |-> TRUE, valid |-> FALSE]
           y(p) == [pending |-> IF s(p) = Off THEN 0 ELSE PostSubscribers[p],
                    state |-> s(p), previous |-> s(p)]
           d(p) == [requested |-> s(p), toDriver |-> s(p), current |-> s(p),
                    driver |-> s(p), response |-> 0, pre |-> x, post |-> y(p)]
<1>1. hw \in InitialStates /\ hw \in [PDs -> States] /\ Off \in States
  BY PowerDomainAssumption DEF Init, States
<1>2. pd = [p \in PDs |-> d(p)]
  BY DEF Init, StartState, IsRead
<1>3. ASSUME NEW p \in PDs PROVE s(p) \in States
  BY <1>1 DEF StartState
<1> HIDE DEF s
<1>4. x \in PreContexts /\ x.pending = 0
  BY <1>1 DEF PreContexts
<1>5. ASSUME NEW p \in PDs PROVE y(p) \in PostContexts
  BY <1>3, Tables DEF PostContexts
<1> HIDE DEF x, y
<1>6. 0 \in 0..MaxRequests /\ 0 \in 0..MaxSuspends /\ 0 \in 0..MaxShutdowns
  BY PowerDomainAssumption
<1>7. ASSUME NEW p \in PDs
      PROVE  /\ d(p) \in PdContexts /\ d(p).requested = s(p)
             /\ d(p).toDriver = s(p) /\ d(p).current = s(p)
             /\ d(p).response = 0 /\ d(p).pre = x
  BY <1>3, <1>4, <1>5, <1>6 DEF PdContexts
<1> HIDE DEF d
<1>8. pd \in [PDs -> PdContexts] /\ \A p \in PDs : pd[p] = d(p)
  BY <1>2, <1>7
<1>9. /\ reports = <<>> /\ target = [p \in PDs |-> NoState] /\ answers = <<>>
      /\ suspend = [lastCoreOff |-> FALSE, ongoing |-> FALSE,
                    lastCore |-> NoPd, state |-> Off, queued |-> NoState,
                    count |-> 0]
      /\ shutdown = [ongoing |-> FALSE, count |-> 0, awaited |-> 0,
                     requests |-> 0]
  BY DEF Init
<1>10. /\ suspend \in SuspendContexts /\ shutdown \in ShutdownContexts
       /\ target \in [PDs -> States \cup {NoState}]
       /\ reports \in Seq(Reports) /\ answers \in Seq(Answers)
  BY <1>1, <1>6, <1>9 DEF SuspendContexts, ShutdownContexts
<1>11. TypeOK
  BY <1>1, <1>8, <1>10 DEF TypeOK
<1>12. \A p \in PDs : /\ pd[p].requested = s(p) /\ pd[p].toDriver = s(p)
                      /\ pd[p].current = s(p) /\ pd[p].response = 0
                      /\ pd[p].pre.pending = 0
  BY <1>4, <1>7, <1>8
<1>13. /\ suspend.count = 0 /\ suspend.queued = NoState
       /\ suspend.lastCoreOff = FALSE
       /\ shutdown.ongoing = FALSE /\ shutdown.awaited = 0
       /\ shutdown.requests = 0 /\ shutdown.count = 0
  BY <1>9
<1> QED
  BY <1>1, <1>9, <1>11, <1>12, <1>13 DEF s

----------------------------------------------------------------------------
(* Type correctness. *)

(* A request for a shutdown notifies n more subscribers, a response is     *)
(* counted, and the shutdown starts or not.                                *)
LEMMA ShutdownRequest ==
    ASSUME shutdown \in ShutdownContexts, NEW n \in ShutdownSubscribers,
           NEW last \in 0..PdCount, SystemShutdown(n, last)
    PROVE  /\ shutdown' \in ShutdownContexts
           /\ shutdown'.count = n /\ shutdown'.awaited = shutdown.awaited + n
           /\ shutdown'.requests = shutdown.requests + 1
           /\ shutdown.requests < MaxShutdowns
           /\ Serial => shutdown.awaited = 0
           /\ \/ /\ n # 0 /\ shutdown'.ongoing
                 /\ UNCHANGED <<pd, target, hw, reports, answers, suspend>>
              \/ /\ n = 0 /\ (shutdown'.ongoing => shutdown.ongoing)
                 /\ PerformShutdown(last)
<1> DEFINE s == [shutdown EXCEPT !.requests = @ + 1, !.count = n,
                                 !.awaited = @ + n]
           b == s.ongoing /\ last # PdCount
<1>1. /\ shutdown.ongoing \in BOOLEAN /\ shutdown.count \in Int
      /\ shutdown.awaited \in Nat /\ shutdown.requests \in 0..MaxShutdowns
      /\ MaxShutdowns \in Nat /\ n \in Nat
  BY PowerDomainAssumption DEF ShutdownContexts
<1>2. shutdown.requests < MaxShutdowns /\ (Serial => shutdown.awaited = 0)
  BY DEF SystemShutdown
<1>3. /\ s \in ShutdownContexts /\ s.count = n
      /\ s.awaited = shutdown.awaited + n
      /\ s.requests = shutdown.requests + 1 /\ s.ongoing = shutdown.ongoing
  <2> DEFINE r == shutdown.requests + 1
             a == shutdown.awaited + n
  <2>1. r \in 0..MaxShutdowns /\ a \in Nat /\ n \in Int
    BY <1>1, <1>2
  <2>2. s = [shutdown EXCEPT !.requests = r, !.count = n, !.awaited = a]
    OBVIOUS
  <2> HIDE DEF r, a, s
  <2>3. /\ s \in ShutdownContexts /\ s.count = n /\ s.awaited = a
        /\ s.requests = r /\ s.ongoing = shutdown.ongoing
    BY <2>1, <2>2 DEF ShutdownContexts
  <2> QED
    BY <2>3 DEF r, a
<1>4. \/ /\ n # 0 /\ shutdown' = [s EXCEPT !.ongoing = TRUE]
         /\ UNCHANGED <<pd, target, hw, reports, answers, suspend>>
      \/ /\ n = 0 /\ shutdown' = [s EXCEPT !.ongoing = b]
         /\ PerformShutdown(last)
  BY DEF SystemShutdown
<1>5. b \in BOOLEAN /\ (b => s.ongoing)
  OBVIOUS
<1> HIDE DEF s, b
<1>6. ASSUME NEW o \in BOOLEAN
      PROVE  LET z == [s EXCEPT !.ongoing = o]
             IN  /\ z \in ShutdownContexts /\ z.count = s.count
                 /\ z.awaited = s.awaited /\ z.requests = s.requests
                 /\ z.ongoing = o
  BY <1>3 DEF ShutdownContexts
<1>7. CASE /\ n # 0 /\ shutdown' = [s EXCEPT !.ongoing = TRUE]
           /\ UNCHANGED <<pd, target, hw, reports, answers, suspend>>
  BY <1>2, <1>3, <1>6, <1>7
<1>8. CASE /\ n = 0 /\ shutdown' = [s EXCEPT !.ongoing = b]
           /\ PerformShutdown(last)
  BY <1>2, <1>3, <1>5, <1>6, <1>8
<1> QED
  BY <1>4, <1>7, <1>8

(* The last response starts the shutdown. *)
LEMMA ShutdownResponse ==
    ASSUME shutdown \in ShutdownContexts, NEW last \in 0..PdCount,
           PreShutdownResponse(last)
    PROVE  /\ shutdown' \in ShutdownContexts
           /\ shutdown.awaited # 0
           /\ shutdown'.awaited = shutdown.awaited - 1
           /\ shutdown'.requests = shutdown.requests
           /\ \/ /\ UNCHANGED <<pd, target, hw, reports, answers, suspend>>
                 /\ ~shutdown.ongoing /\ ~shutdown'.ongoing
              \/ /\ UNCHANGED <<pd, target, hw, reports, answers, suspend>>
                 /\ shutdown.ongoing /\ shutdown'.ongoing
                 /\ shutdown'.count = shutdown.count - 1
                 /\ shutdown.count - 1 # 0
              \/ /\ PerformShutdown(last) /\ shutdown.ongoing
                 /\ shutdown'.count = 0 /\ shutdown.count - 1 = 0
<1> DEFINE s == [shutdown EXCEPT !.awaited = @ - 1]
           c == shutdown.count - 1
           b == last # PdCount
<1>1. /\ shutdown.ongoing \in BOOLEAN /\ c \in Int /\ b \in BOOLEAN
      /\ shutdown.awaited \in Nat /\ shutdown.awaited # 0
  BY DEF ShutdownContexts, PreShutdownResponse
<1>2. /\ s \in ShutdownContexts /\ s.awaited = shutdown.awaited - 1
      /\ s.count = shutdown.count
      /\ s.requests = shutdown.requests /\ s.ongoing = shutdown.ongoing
  <2> DEFINE a == shutdown.awaited - 1
  <2>1. a \in Nat
    BY <1>1
  <2>2. s = [shutdown EXCEPT !.awaited = a]
    OBVIOUS
  <2> HIDE DEF a, s
  <2>3. /\ s \in ShutdownContexts /\ s.count = shutdown.count /\ s.awaited = a
        /\ s.requests = shutdown.requests /\ s.ongoing = shutdown.ongoing
    BY <2>1, <2>2 DEF ShutdownContexts
  <2> QED
    BY <2>3 DEF a
<1>3. \/ /\ ~shutdown.ongoing /\ shutdown' = s
         /\ UNCHANGED <<pd, target, hw, reports, answers, suspend>>
      \/ /\ shutdown.ongoing /\ c # 0 /\ shutdown' = [s EXCEPT !.count = c]
         /\ UNCHANGED <<pd, target, hw, reports, answers, suspend>>
      \/ /\ shutdown.ongoing /\ c = 0
         /\ shutdown' = [s EXCEPT !.count = 0, !.ongoing = b]
         /\ PerformShutdown(last)
  BY DEF PreShutdownResponse
<1> HIDE DEF s, b, c
<1>4. LET z == [s EXCEPT !.count = c]
      IN  /\ z \in ShutdownContexts /\ z.count = c
          /\ z.awaited = s.awaited /\ z.requests = s.requests
          /\ z.ongoing = s.ongoing
  BY <1>1, <1>2 DEF ShutdownContexts
<1>5. ASSUME NEW o \in BOOLEAN
      PROVE  LET z == [s EXCEPT !.count = 0, !.ongoing = o]
             IN  /\ z \in ShutdownContexts /\ z.count = 0
                 /\ z.awaited = s.awaited /\ z.requests = s.requests
  <2> DEFINE y == [s EXCEPT !.count = 0]
             z == [y EXCEPT !.ongoing = o]
  <2>1. /\ y \in ShutdownContexts /\ y.count = 0 /\ y.awaited = s.awaited
        /\ y.requests = s.requests
    BY <1>2 DEF ShutdownContexts
  <2>2. [s EXCEPT !.count = 0, !.ongoing = o] = z
    OBVIOUS
  <2> HIDE DEF y
  <2>3. /\ z \in ShutdownContexts /\ z.count = y.count
        /\ z.awaited = y.awaited /\ z.requests = y.requests
    BY <2>1 DEF ShutdownContexts
  <2> QED
    BY <2>1, <2>2, <2>3
<1>6. CASE /\ ~shutdown.ongoing /\ shutdown' = s
           /\ UNCHANGED <<pd, target, hw, reports, answers, suspend>>
  BY <1>1, <1>2, <1>6
<1>7. CASE /\ shutdown.ongoing /\ c # 0 /\ shutdown' = [s EXCEPT !.count = c]
           /\ UNCHANGED <<pd, target, hw, reports, answers, suspend>>
  BY <1>1, <1>2, <1>4, <1>7 DEF c
<1>8. CASE /\ shutdown.ongoing /\ c = 0
           /\ shutdown' = [s EXCEPT !.count = 0, !.ongoing = b]
           /\ PerformShutdown(last)
  BY <1>1, <1>2, <1>5, <1>8 DEF c
<1> QED
  BY <1>3, <1>6, <1>7, <1>8

----------------------------------------------------------------------------
(* The theorems. *)

(* Only the world and the shutdown matter to the invariants. *)
LEMMA StepCases ==
    ASSUME TypeOK, Next, NEW w \in Worlds, w = World
    PROVE  \/ /\ shutdown' \in ShutdownContexts
              /\ UNCHANGED <<pd, target, hw, reports, answers, suspend>>
           \/ /\ shutdown' \in ShutdownContexts
              /\ shutdown.requests < MaxShutdowns \/ shutdown.awaited # 0
              /\ \E last \in 0..PdCount : PerformShutdown(last)
           \/ /\ shutdown' = shutdown
              /\ \/ \E p \in PDs, respond \in BOOLEAN, refuse \in Refusals :
                        \E cs \in Accepted(p) :
                            SetState(p, cs, respond, refuse)
                 \/ \E p \in PDs : DriverReports(p)
                 \/ \E refuse \in Refusals : ProcessReport(refuse)
                 \/ \E p \in PDs, ok \in BOOLEAN, refuse \in Refusals :
                        PreTransitionResponse(p, ok, refuse)
                 \/ \E p \in PDs, refuse \in Refusals :
                        TransitionResponse(p, refuse)
                 \/ \E p \in PDs : ProcessReset(p)
                 \/ \E state \in {Off, Sleep} : SystemSuspend(state)
                 \/ \E prepared \in BOOLEAN, refuse \in Refusals :
                        ProcessSystemSuspend(prepared, refuse)
<1>1. shutdown \in ShutdownContexts
  BY DEF TypeOK
<1>2. {TRUE, ~MayDisagree} \subseteq BOOLEAN
  OBVIOUS
<1>3. ASSUME NEW n \in ShutdownSubscribers, NEW last \in 0..PdCount,
             SystemShutdown(n, last)
      PROVE  /\ shutdown' \in ShutdownContexts
             /\ \/ UNCHANGED <<pd, target, hw, reports, answers, suspend>>
                \/ shutdown.requests < MaxShutdowns /\ PerformShutdown(last)
  BY <1>1, <1>3, ShutdownRequest
<1>4. ASSUME NEW last \in 0..PdCount, PreShutdownResponse(last)
      PROVE  /\ shutdown' \in ShutdownContexts
             /\ \/ UNCHANGED <<pd, target, hw, reports, answers, suspend>>
                \/ shutdown.awaited # 0 /\ PerformShutdown(last)
  BY <1>1, <1>4, ShutdownResponse
<1>5. CASE \E p \in PDs, respond \in BOOLEAN, refuse \in Refusals :
              \E cs \in Accepted(p) : SetState(p, cs, respond, refuse)
  BY <1>5 DEF SetState
<1>6. CASE \E p \in PDs : DriverReports(p)
  BY <1>6 DEF DriverReports
<1>7. CASE \E refuse \in Refusals : ProcessReport(refuse)
  BY <1>7 DEF ProcessReport
<1>8. CASE \E p \in PDs, ok \in {TRUE, ~MayDisagree}, refuse \in Refusals :
              PreTransitionResponse(p, ok, refuse)
  <2>1. PICK p \in PDs, ok \in {TRUE, ~MayDisagree}, refuse \in Refusals :
            PreTransitionResponse(p, ok, refuse)
    BY <1>8
  <2>2. ok \in BOOLEAN
    BY <1>2
  <2>3. shutdown' = shutdown
    BY <2>1 DEF PreTransitionResponse
  <2> QED
    BY <2>1, <2>2, <2>3
<1>9. CASE \E p \in PDs, refuse \in Refusals : TransitionResponse(p, refuse)
  BY <1>9 DEF TransitionResponse
<1>10. CASE \E p \in PDs : ProcessReset(p)
  BY <1>10 DEF ProcessReset
<1>11. CASE \E state \in {Off, Sleep} : SystemSuspend(state)
  BY <1>11 DEF SystemSuspend
<1>12. CASE \E prepared \in BOOLEAN, refuse \in Refusals :
               ProcessSystemSuspend(prepared, refuse)
  BY <1>12 DEF ProcessSystemSuspend
<1> QED
  BY <1>3, <1>4, <1>5, <1>6, <1>7, <1>8, <1>9, <1>10, <1>11, <1>12 DEF Next

(* A step keeps the types. *)
LEMMA TypeStep ==
    ASSUME TypeOK, [Next]_vars
    PROVE  TypeOK'
<1>1. CASE UNCHANGED vars
  BY <1>1 DEF TypeOK, vars
<1>2. CASE Next
  <2>1. PICK w \in Worlds : w = World
    BY TypeWorld
  <2>2. shutdown \in ShutdownContexts
    BY DEF TypeOK
  <2>3. ASSUME NEW v \in Worlds, Become(v), shutdown' \in ShutdownContexts
        PROVE  TypeOK'
    BY <2>3 DEF TypeOK, Become, Worlds
  <2>4. CASE /\ shutdown' \in ShutdownContexts
             /\ UNCHANGED <<pd, target, hw, reports, answers, suspend>>
    BY <2>4 DEF TypeOK
  <2>5. CASE /\ shutdown' \in ShutdownContexts
             /\ \E last \in 0..PdCount : PerformShutdown(last)
    BY <2>1, <2>3, <2>5, ShutdownOutcome
  <2>6. ASSUME shutdown' = shutdown, NEW p \in PDs, NEW respond \in BOOLEAN,
               NEW refuse, NEW cs \in Accepted(p),
               SetState(p, cs, respond, refuse)
        PROVE  TypeOK'
    <3> DEFINE v == SetStateRequest(w, p, cs, respond, refuse)
    <3>1. Len(w.answers) < MaxRequests /\ Become(v)
      BY <2>1, <2>6, WorldIs DEF SetState
    <3>2. v \in Worlds
      BY <3>1, RequestOutcome
    <3> HIDE DEF v
    <3> QED
      BY <2>2, <2>3, <2>6, <3>1, <3>2
  <2>7. ASSUME shutdown' = shutdown, NEW p \in PDs, DriverReports(p)
        PROVE  TypeOK'
    BY <2>1, <2>2, <2>3, <2>7, DriverReportsOutcome
  <2>8. ASSUME shutdown' = shutdown, NEW refuse, ProcessReport(refuse)
        PROVE  TypeOK'
    <3> DEFINE r == Head(w.reports)
    <3>1. w.reports # <<>>
      BY <2>1, <2>8, ProcessReportOutcome
    <3>2. PICK u, v : /\ Become(v) /\ Arrived(Popped(w), u, r.pd, r.state)
                      /\ \/ v = CompleteSystemSuspend(u, r.pd, r.pd, refuse)
                         \/ Reached(u, v)
      BY <2>1, <2>8, ProcessReportOutcome
    <3>3. u \in Worlds /\ r.pd \in PDs
      BY <3>1, <3>2, PopOutcome DEF Arrived
    <3> HIDE DEF r
    <3>4. v \in Worlds
      BY <3>2, <3>3, CompleteOutcome DEF Reached
    <3> QED
      BY <2>2, <2>3, <2>8, <3>2, <3>4
  <2>9. ASSUME shutdown' = shutdown, NEW p \in PDs, NEW ok \in BOOLEAN,
               NEW refuse, PreTransitionResponse(p, ok, refuse)
        PROVE  TypeOK'
    <3>1. PICK v : Become(v) /\ Reached(w, v)
      BY <2>1, <2>9, PreResponseOutcome
    <3> QED
      BY <2>2, <2>3, <2>9, <3>1 DEF Reached
  <2>10. ASSUME shutdown' = shutdown, NEW p \in PDs, NEW refuse,
                TransitionResponse(p, refuse)
         PROVE  TypeOK'
    <3>1. PICK u, v : Become(v) /\ Reached(u, v)
      BY <2>1, <2>10, PostResponseOutcome
    <3> QED
      BY <2>2, <2>3, <2>10, <3>1 DEF Reached
  <2>11. ASSUME shutdown' = shutdown, NEW p \in PDs, ProcessReset(p)
         PROVE  TypeOK'
    BY <2>1, <2>2, <2>3, <2>11, ResetOutcome
  <2>12. ASSUME shutdown' = shutdown, NEW state \in {Off, Sleep},
                SystemSuspend(state)
         PROVE  TypeOK'
    BY <2>1, <2>2, <2>3, <2>12, SystemSuspendOutcome
  <2>13. ASSUME shutdown' = shutdown, NEW prepared, NEW refuse,
                ProcessSystemSuspend(prepared, refuse)
         PROVE  TypeOK'
    <3>1. PICK v : Become(v) /\ Suspended(w, v)
      BY <2>1, <2>13, ProcessSuspendOutcome
    <3> QED
      BY <2>2, <2>3, <2>13, <3>1 DEF Suspended
  <2> QED
    BY <1>2, <2>1, <2>4, <2>5, <2>6, <2>7, <2>8, <2>9, <2>10, <2>11, <2>12,
       <2>13, StepCases
<1> QED
  BY <1>1, <1>2

(* Every variable keeps its type: the walk of a composite request over the *)
(* tree, the reports it provokes, suspend and shutdown keep the contexts   *)
(* of all domains well formed (mod_power_domain.c).                        *)
THEOREM TypeCorrect == Spec => []TypeOK
<1>1. Init => TypeOK
  BY InitOutcome
<1>2. TypeOK /\ [Next]_vars => TypeOK'
  BY TypeStep
<1> QED
  BY <1>1, <1>2, PTL DEF Spec

(* At most one shutdown is asked for until its subscribers have answered. *)
OneShutdown == Serial \/ MaxShutdowns <= 1

(* The responses that the domains wait for are those on their way. *)
ShutdownInv ==
    /\ shutdown.ongoing => shutdown.awaited = shutdown.count
    /\ shutdown.requests = 0 => shutdown.awaited = 0 /\ ~shutdown.ongoing

(* Only three actions count shutdowns or resets. *)
LEMMA CountSteps ==
    ASSUME [Next]_vars
    PROVE  \/ shutdown' = shutdown /\ resets' = resets
           \/ \E p \in PDs : ProcessReset(p)
           \/ \E n \in ShutdownSubscribers, last \in 0..PdCount :
                  SystemShutdown(n, last)
           \/ \E last \in 0..PdCount : PreShutdownResponse(last)
<1>1. CASE \E p \in PDs, respond \in BOOLEAN, refuse \in Refusals :
              \E cs \in Accepted(p) : SetState(p, cs, respond, refuse)
  BY <1>1 DEF SetState
<1>2. CASE \E p \in PDs : DriverReports(p)
  BY <1>2 DEF DriverReports
<1>3. CASE \E refuse \in Refusals : ProcessReport(refuse)
  BY <1>3 DEF ProcessReport
<1>4. CASE \E p \in PDs, ok \in {TRUE, ~MayDisagree}, refuse \in Refusals :
              PreTransitionResponse(p, ok, refuse)
  BY <1>4 DEF PreTransitionResponse
<1>5. CASE \E p \in PDs, refuse \in Refusals : TransitionResponse(p, refuse)
  BY <1>5 DEF TransitionResponse
<1>6. CASE \E state \in {Off, Sleep} : SystemSuspend(state)
  BY <1>6 DEF SystemSuspend
<1>7. CASE \E prepared \in BOOLEAN, refuse \in Refusals :
              ProcessSystemSuspend(prepared, refuse)
  BY <1>7 DEF ProcessSystemSuspend
<1>8. CASE UNCHANGED vars
  BY <1>8 DEF vars
<1> QED
  BY <1>1, <1>2, <1>3, <1>4, <1>5, <1>6, <1>7, <1>8 DEF Next

(* A step keeps the two counts together. *)
LEMMA ShutdownStep ==
    ASSUME TypeOK, ShutdownInv, [Next]_vars, OneShutdown
    PROVE  /\ ShutdownInv'
           /\ shutdown.ongoing /\ ~shutdown'.ongoing => shutdown'.awaited = 0
<1>1. /\ shutdown \in ShutdownContexts
      /\ shutdown.count \in Int /\ shutdown.awaited \in Nat
      /\ shutdown.requests \in Nat /\ ShutdownSubscribers \subseteq Nat
      /\ MaxShutdowns \in Nat
  BY PowerDomainAssumption DEF TypeOK, ShutdownContexts
<1>2. CASE shutdown' = shutdown
  BY <1>2 DEF ShutdownInv
<1>3. ASSUME NEW n \in ShutdownSubscribers, NEW last \in 0..PdCount,
             SystemShutdown(n, last)
      PROVE  /\ ShutdownInv'
             /\ shutdown.ongoing /\ ~shutdown'.ongoing => shutdown'.awaited = 0
  <2>1. /\ shutdown'.count = n /\ shutdown'.awaited = shutdown.awaited + n
        /\ shutdown'.requests = shutdown.requests + 1
        /\ shutdown.requests < MaxShutdowns
        /\ Serial => shutdown.awaited = 0
        /\ (n # 0 /\ shutdown'.ongoing)
           \/ (n = 0 /\ (shutdown'.ongoing => shutdown.ongoing))
    BY <1>1, <1>3, ShutdownRequest
  <2>2. shutdown.awaited = 0
    BY <1>1, <2>1 DEF OneShutdown, ShutdownInv
  <2>3. n \in Nat /\ shutdown'.requests # 0
    BY <1>1, <2>1
  <2> QED
    BY <2>1, <2>2, <2>3 DEF ShutdownInv
<1>4. ASSUME NEW last \in 0..PdCount, PreShutdownResponse(last)
      PROVE  /\ ShutdownInv'
             /\ shutdown.ongoing /\ ~shutdown'.ongoing => shutdown'.awaited = 0
  <2>1. /\ shutdown.awaited # 0
        /\ shutdown'.awaited = shutdown.awaited - 1
        /\ shutdown'.requests = shutdown.requests
        /\ \/ ~shutdown.ongoing /\ ~shutdown'.ongoing
           \/ /\ shutdown.ongoing /\ shutdown'.ongoing
              /\ shutdown'.count = shutdown.count - 1
           \/ /\ shutdown.ongoing
              /\ shutdown'.count = 0 /\ shutdown.count - 1 = 0
    BY <1>1, <1>4, ShutdownResponse
  <2> QED
    BY <1>1, <2>1 DEF ShutdownInv
<1>5. \/ shutdown' = shutdown
      \/ \E n \in ShutdownSubscribers, last \in 0..PdCount :
             SystemShutdown(n, last)
      \/ \E last \in 0..PdCount : PreShutdownResponse(last)
  <2>1. ASSUME NEW p, ProcessReset(p) PROVE shutdown' = shutdown
    BY <2>1 DEF ProcessReset
  <2> QED
    BY <2>1, CountSteps
<1> QED
  BY <1>2, <1>3, <1>4, <1>5

(* The count that process_pre_shutdown_notification_response keeps is the  *)
(* number of subscribers that still owe a response.                        *)
THEOREM ShutdownCounts ==
    ASSUME OneShutdown
    PROVE  Spec => []ShutdownInv
<1>1. Init => ShutdownInv
  BY InitOutcome DEF ShutdownInv
<1>2. TypeOK /\ ShutdownInv /\ [Next]_vars => ShutdownInv'
  BY ShutdownStep
<1> QED
  BY <1>1, <1>2, TypeCorrect, PTL DEF Spec

(* So the domains are shut down only when every subscriber has answered    *)
(* the pre-shutdown notification.  When shutdowns may be asked for again   *)
(* before that, a late response to the first one is counted for the second *)
(* (process_system_shutdown_request resets notifications_count).           *)
THEOREM ShutdownAfterAnswers ==
    ASSUME OneShutdown
    PROVE  Spec => ShutdownWaits
<1>1. TypeOK /\ ShutdownInv /\ [Next]_vars =>
          [shutdown.ongoing /\ ~shutdown'.ongoing =>
               shutdown'.awaited = 0]_vars
  BY ShutdownStep
<1> QED
  BY <1>1, TypeCorrect, ShutdownCounts, PTL DEF Spec, ShutdownWaits

----------------------------------------------------------------------------
(* What is asked of the tree. *)

(* The hardware is found in states that are allowed together. *)
InitialTree ==
    \A h \in InitialStates : \A p \in PDs : Parent[p] # NoPd =>
        IsAllowedByChild(p, h[Parent[p]], h[p])

(* Requests come one at a time, no domain is reset, every domain may be    *)
(* off.                                                                    *)
OrderlyTree ==
    Serial /\ MaxResets = 0 /\ OffAllowed /\ CoreLeaves /\ InitialTree

TreeInv == Tree(World) /\ Flight(World, PDs)

(* A domain that is read has a parent that is read. *)
LEMMA ReadUp ==
    ASSUME NEW h, NEW p \in PDs, Parent[p] # NoPd, IsRead(h, p)
    PROVE  IsRead(h, Parent[p])
<1> DEFINE q == Parent[p]
           s == PathUp[q]
<1>1. q \in PDs
  BY Tables
<1>2. PathUp[p] = <<p>> \o s
  BY PathUpDefined
<1>3. s \in Seq(PDs) /\ Len(s) >= 1
  BY <1>1, PathUpGoesUp
<1> HIDE DEF s
<1>4. <<p>> \o s \in Seq(PDs) /\ Tail(<<p>> \o s) = s
  BY <1>3
<1>5. s # <<>> /\ \A i \in 1..Len(Tail(s)) : i + 1 \in 1..Len(s)
                                             /\ Tail(s)[i] = s[i + 1]
  BY <1>3
<1>6. DOMAIN s = 1..Len(s) /\ DOMAIN Tail(s) = 1..Len(Tail(s))
  BY <1>3, <1>5
<1>7. ToSet(Tail(s)) \subseteq ToSet(s)
  BY <1>5, <1>6 DEF ToSet
<1>8. \A x \in ToSet(s) : h[x] # Off
  BY <1>2, <1>4 DEF IsRead
<1> QED
  BY <1>7, <1>8 DEF IsRead, s

(* No transition is under way at rest. *)
LEMMA RestIsQuiet ==
    ASSUME AtRest
    PROVE  Quiet(World)
<1>1. reports = <<>> /\ target = [p \in PDs |-> NoState]
  BY DEF AtRest
<1>2. World.reports = <<>> /\ World.target = [p \in PDs |-> NoState]
  BY <1>1, WorldIs
<1>3. \A q : ~Reported(World, q)
  BY <1>2 DEF Reported
<1> QED
  BY <1>2, <1>3 DEF Quiet, InFlight

(* Nothing but the start-up states is asked for at first. *)
LEMMA TreeInit ==
    ASSUME Init, OffAllowed, InitialTree
    PROVE  TreeInv
<1>1. /\ hw \in InitialStates /\ hw \in [PDs -> States]
      /\ \A p \in PDs : pd[p].requested = StartState(hw, p)
      /\ reports = <<>> /\ target = [p \in PDs |-> NoState]
  BY InitOutcome DEF TypeOK
<1>2. Off \in States
  BY DEF States
<1>3. ASSUME NEW p \in PDs, Parent[p] # NoPd
      PROVE  IsAllowedByChild(p, pd[Parent[p]].requested, pd[p].requested)
  <2>1. Parent[p] \in PDs
    BY <1>3, Tables
  <2>2. StartState(hw, Parent[p]) \in States
    BY <1>1, <1>2, <2>1 DEF StartState
  <2>3. CASE IsRead(hw, p)
    <3>1. IsRead(hw, Parent[p])
      BY <1>3, <2>3, ReadUp
    <3> QED
      BY <1>1, <1>3, <2>1, <2>3, <3>1 DEF StartState, InitialTree
  <2>4. CASE ~IsRead(hw, p)
    BY <1>1, <1>3, <2>1, <2>2, <2>4 DEF StartState, OffAllowed
  <2> QED
    BY <2>3, <2>4
<1>4. Tree(World)
  BY <1>3, WorldIs DEF Tree
<1>5. \A q : ~Reported(World, q)
  BY <1>1, WorldIs DEF Reported
<1>6. Flight(World, PDs)
  BY <1>1, <1>5, WorldIs DEF Flight, InFlight
<1> QED
  BY <1>4, <1>6 DEF TreeInv

(* What every step but a reset and a shutdown does to the tree, and to the *)
(* hardware while no suspend was asked for.                                *)
Orderly(w, v) ==
    /\ v \in Worlds
    /\ w.suspend.count # 0 => v.suspend.count # 0
    /\ OffAllowed /\ CoreLeaves /\ Tree(w) /\ Flight(w, PDs) =>
           Tree(v) /\ Flight(v, PDs)
    /\ /\ NotMapped /\ Tree(w) /\ Flight(w, PDs)
       /\ w.suspend.count = 0 /\ w.suspend.queued = NoState
       /\ ~w.suspend.lastCoreOff /\ Hard(w)
       => \/ v.suspend.count # 0
          \/ /\ v.suspend.queued = NoState
             /\ ~v.suspend.lastCoreOff /\ Hard(v)

(* It keeps both. *)
LEMMA OrderlyStep ==
    ASSUME NEW w \in Worlds, w = World, Serial,
           \/ \E p \in PDs, respond \in BOOLEAN, refuse \in Refusals :
                  \E cs \in Accepted(p) : SetState(p, cs, respond, refuse)
           \/ \E p \in PDs : DriverReports(p)
           \/ \E refuse \in Refusals : ProcessReport(refuse)
           \/ \E p \in PDs, ok \in BOOLEAN, refuse \in Refusals :
                  PreTransitionResponse(p, ok, refuse)
           \/ \E p \in PDs, refuse \in Refusals : TransitionResponse(p, refuse)
           \/ \E state \in {Off, Sleep} : SystemSuspend(state)
           \/ \E prepared \in BOOLEAN, refuse \in Refusals :
                  ProcessSystemSuspend(prepared, refuse)
    PROVE  \E v : Become(v) /\ Orderly(w, v)
<1>1. ASSUME NEW p \in PDs, NEW respond \in BOOLEAN, NEW refuse,
             NEW cs \in Accepted(p), SetState(p, cs, respond, refuse)
      PROVE  \E v : Become(v) /\ Orderly(w, v)
  <2> DEFINE v == SetStateRequest(w, p, cs, respond, refuse)
  <2>1. Len(w.answers) < MaxRequests /\ Become(v) /\ AtRest
    BY <1>1, WorldIs DEF SetState
  <2>2. Quiet(w)
    BY <2>1, RestIsQuiet
  <2>3. /\ v \in Worlds /\ v.suspend.count = w.suspend.count
        /\ v.suspend.queued = w.suspend.queued /\ ~v.suspend.lastCoreOff
        /\ Tree(w) => Tree(v)
        /\ Flight(v, PDs)
        /\ NotMapped /\ Hard(w) => Hard(v)
    BY <2>1, <2>2, RequestOutcome
  <2> HIDE DEF v
  <2>4. Orderly(w, v)
    BY <2>3 DEF Orderly
  <2> QED
    BY <2>1, <2>4
<1>2. ASSUME NEW p \in PDs, DriverReports(p)
      PROVE  \E v : Become(v) /\ Orderly(w, v)
  <2>1. PICK v \in Worlds :
           /\ Become(v) /\ v.pd = w.pd /\ v.suspend = w.suspend
           /\ Flight(w, PDs) => Flight(v, PDs)
           /\ Hard(w) => Hard(v)
    BY <1>2, DriverReportsOutcome
  <2>2. Tree(w) => Tree(v)
    BY <2>1 DEF Tree
  <2>3. Orderly(w, v)
    BY <2>1, <2>2 DEF Orderly
  <2> QED
    BY <2>1, <2>3
<1>3. ASSUME NEW refuse, ProcessReport(refuse)
      PROVE  \E v : Become(v) /\ Orderly(w, v)
  <2> DEFINE r == Head(w.reports)
  <2>1. w.reports # <<>>
    BY <1>3, ProcessReportOutcome
  <2>2. PICK u, v :
           /\ Become(v) /\ Arrived(Popped(w), u, r.pd, r.state)
           /\ \/ /\ v = CompleteSystemSuspend(u, r.pd, r.pd, refuse)
                 /\ w.suspend.lastCoreOff
              \/ Reached(u, v)
    BY <1>3, ProcessReportOutcome
  <2>3. r.pd \in PDs /\ Popped(w).suspend = w.suspend
    BY <2>1, PopOutcome
  <2>4. Flight(w, PDs) => /\ Tree(w) => Tree(u)
                          /\ Flight(u, PDs)
                          /\ Hard(w) => Hard(u)
    BY <2>1, <2>2, ArrivedKeeps
  <2> HIDE DEF r
  <2>5. /\ u \in Worlds /\ u.suspend.count = w.suspend.count
        /\ u.suspend.queued = w.suspend.queued
        /\ u.suspend.lastCoreOff => w.suspend.lastCoreOff
    BY <2>2, <2>3 DEF Arrived
  <2>6. CASE Reached(u, v)
    <3>1. /\ v \in Worlds /\ v.suspend = u.suspend
          /\ Flight(u, PDs) => Flight(v, PDs)
          /\ NotMapped /\ Tree(u) /\ Hard(u) => Hard(v)
      BY <2>6 DEF Reached
    <3>2. Tree(u) => Tree(v)
      BY <2>6, TreeSame DEF Reached
    <3>3. Orderly(w, v)
      BY <2>4, <2>5, <3>1, <3>2 DEF Orderly
    <3> QED
      BY <2>2, <3>3
  <2>7. CASE /\ v = CompleteSystemSuspend(u, r.pd, r.pd, refuse)
             /\ w.suspend.lastCoreOff
    <3>1. /\ v \in Worlds /\ v.suspend.count = u.suspend.count
          /\ Tree(u) => Tree(v)
          /\ Flight(u, PDs) => Flight(v, PDs)
      BY <2>3, <2>5, <2>7, CompleteOutcome
    <3>2. Orderly(w, v)
      BY <2>4, <2>5, <2>7, <3>1 DEF Orderly
    <3> QED
      BY <2>2, <3>2
  <2> QED
    BY <2>2, <2>6, <2>7
<1>4. ASSUME NEW p \in PDs, NEW ok \in BOOLEAN, NEW refuse,
             PreTransitionResponse(p, ok, refuse)
      PROVE  \E v : Become(v) /\ Orderly(w, v)
  <2>1. PICK v : Become(v) /\ Reached(w, v)
    BY <1>4, PreResponseOutcome
  <2>2. Tree(w) => Tree(v)
    BY <2>1, TreeSame DEF Reached
  <2>3. Orderly(w, v)
    BY <2>1, <2>2 DEF Orderly, Reached
  <2> QED
    BY <2>1, <2>3
<1>5. ASSUME NEW p \in PDs, NEW refuse, TransitionResponse(p, refuse)
      PROVE  \E v : Become(v) /\ Orderly(w, v)
  <2>1. PICK u, v : /\ Become(v) /\ Reached(u, v) /\ Touched(w, u, p)
                    /\ u.pd[p].requested = w.pd[p].requested
                    /\ u.pd[p].current = w.pd[p].current
                    /\ u.pd[p].pre = w.pd[p].pre
    BY <1>5, PostResponseOutcome
  <2>2. /\ Tree(w) => Tree(u)
        /\ Flight(w, PDs) => Flight(u, PDs)
        /\ Hard(w) => Hard(u)
    <3>1. Kept(w, u) /\ w.reports \in Seq(Reports)
      BY <2>1, WorldFields DEF Touched
    <3>2. \A q \in PDs : /\ u.pd[q].requested = w.pd[q].requested
                         /\ u.pd[q].toDriver = w.pd[q].toDriver
                         /\ u.pd[q].current = w.pd[q].current
                         /\ u.pd[q].pre = w.pd[q].pre
      BY <2>1 DEF Touched
    <3> QED
      BY <3>1, <3>2, SameKeeps
  <2>3. /\ v \in Worlds /\ v.suspend = w.suspend
        /\ Flight(u, PDs) => Flight(v, PDs)
        /\ NotMapped /\ Tree(u) /\ Hard(u) => Hard(v)
    BY <2>1 DEF Reached, Touched
  <2>4. Tree(u) => Tree(v)
    BY <2>1, TreeSame DEF Reached
  <2>5. Orderly(w, v)
    BY <2>2, <2>3, <2>4 DEF Orderly
  <2> QED
    BY <2>1, <2>5
<1>6. ASSUME NEW state \in {Off, Sleep}, SystemSuspend(state)
      PROVE  \E v : Become(v) /\ Orderly(w, v)
  <2>1. PICK v \in Worlds : /\ Become(v) /\ v.pd = w.pd /\ Kept(w, v)
                            /\ v.suspend.count # 0
    BY <1>6, SystemSuspendOutcome
  <2>2. (Tree(w) => Tree(v)) /\ (Flight(w, PDs) => Flight(v, PDs))
    BY <2>1, KeptFacts DEF Tree, Flight
  <2>3. Orderly(w, v)
    BY <2>1, <2>2 DEF Orderly
  <2> QED
    BY <2>1, <2>3
<1>7. ASSUME NEW prepared, NEW refuse, ProcessSystemSuspend(prepared, refuse)
      PROVE  \E v : Become(v) /\ Orderly(w, v)
  <2>1. PICK v : Become(v) /\ Suspended(w, v)
    BY <1>7, ProcessSuspendOutcome
  <2>2. w.suspend.queued # NoState
    BY <1>7, WorldIs DEF ProcessSystemSuspend
  <2>3. Orderly(w, v)
    BY <2>1, <2>2 DEF Orderly, Suspended
  <2> QED
    BY <2>1, <2>3
<1> QED
  BY <1>1, <1>2, <1>3, <1>4, <1>5, <1>6, <1>7

(* No domain is reset when resets are bounded by zero. *)
LEMMA NoReset ==
    ASSUME MaxResets = 0, resets \in Nat
    PROVE  ~ \E p \in PDs : ProcessReset(p)
<1> SUFFICES ASSUME NEW p \in PDs, ProcessReset(p) PROVE FALSE
  OBVIOUS
<1>1. resets < MaxResets
  BY DEF ProcessReset
<1> QED
  BY <1>1

(* The number of resets is one. *)
LEMMA ResetsType == Spec => [](resets \in Nat)
<1>1. Init => resets \in Nat
  BY DEF Init
<1>2. resets \in Nat /\ [Next]_vars => (resets \in Nat)'
  <2>1. ASSUME NEW p \in PDs, ProcessReset(p) PROVE resets' = resets + 1
    BY <2>1 DEF ProcessReset
  <2>2. ASSUME NEW last, PerformShutdown(last) PROVE resets' = resets
    BY <2>2 DEF PerformShutdown
  <2>3. ASSUME NEW n, NEW last, SystemShutdown(n, last)
        PROVE  resets' = resets
    BY <2>2, <2>3 DEF SystemShutdown
  <2>4. ASSUME NEW last, PreShutdownResponse(last) PROVE resets' = resets
    BY <2>2, <2>4 DEF PreShutdownResponse
  <2>5. [Next]_vars => resets' = resets \/ resets' = resets + 1
    BY <2>1, <2>3, <2>4, CountSteps
  <2> QED
    BY <2>5
<1> QED
  BY <1>1, <1>2, PTL DEF Spec

(* A step keeps the requests compatible. *)
LEMMA TreeStep ==
    ASSUME OrderlyTree, TypeOK, resets \in Nat, TreeInv, [Next]_vars
    PROVE  TreeInv'
<1>1. PICK w \in Worlds : w = World
  BY TypeWorld
<1>2. Tree(w) /\ Flight(w, PDs)
  BY <1>1 DEF TreeInv
<1>3. ASSUME NEW v \in Worlds, Become(v), Tree(v), Flight(v, PDs)
      PROVE  TreeInv'
  <2>1. World' = v
    BY <1>3, BecomeWorld
  <2> QED
    BY <1>3, <2>1 DEF TreeInv
<1>4. CASE UNCHANGED <<pd, target, hw, reports, answers, suspend>>
  <2>1. World' = World
    BY <1>4 DEF World
  <2> QED
    BY <2>1 DEF TreeInv
<1>5. CASE \E last \in 0..PdCount : PerformShutdown(last)
  <2>1. PICK v \in Worlds : /\ Become(v)
                            /\ OffAllowed /\ Tree(w) => Tree(v)
                            /\ Flight(w, PDs) => Flight(v, PDs)
    BY <1>1, <1>5, ShutdownOutcome
  <2> QED
    BY <1>2, <1>3, <2>1 DEF OrderlyTree
<1>6. ASSUME NEW v, Become(v), Orderly(w, v) PROVE TreeInv'
  BY <1>2, <1>3, <1>6 DEF Orderly, OrderlyTree
<1>7. CASE UNCHANGED vars
  BY <1>4, <1>7 DEF vars
<1>8. CASE Next
  <2>1. ~ \E p \in PDs : ProcessReset(p)
    BY NoReset DEF OrderlyTree
  <2>2. \/ UNCHANGED <<pd, target, hw, reports, answers, suspend>>
        \/ \E last \in 0..PdCount : PerformShutdown(last)
        \/ \E v : Become(v) /\ Orderly(w, v)
    BY <1>1, <1>8, <2>1, StepCases, OrderlyStep DEF OrderlyTree
  <2> QED
    BY <1>4, <1>5, <1>6, <2>2
<1> QED
  BY <1>7, <1>8

(* The states asked of a domain and of its parent stay compatible, in any  *)
(* tree and with any number of levels: through the walks of composite      *)
(* requests, drivers that refuse, subscribers that refuse or answer late,  *)
(* suspend and shutdown.  What carries it is that a domain in transition   *)
(* goes to the state asked of it, so that the report, which asks for the   *)
(* state the driver was given, asks for nothing new.                       *)
THEOREM RequestsCompatible ==
    ASSUME OrderlyTree
    PROVE  Spec => []RequestedTree
<1>1. Init => TreeInv
  BY TreeInit DEF OrderlyTree
<1>2. TypeOK /\ resets \in Nat /\ TreeInv /\ [Next]_vars => TreeInv'
  BY TreeStep
<1>3. TreeInv => RequestedTree
  BY WorldIs DEF TreeInv, Tree, RequestedTree
<1> QED
  BY <1>1, <1>2, <1>3, TypeCorrect, ResetsType, PTL DEF Spec

----------------------------------------------------------------------------
(* What the hardware of the tree does. *)

(* A domain that start-up does not read, because one above it is off, is   *)
(* off as well.                                                            *)
OffBelow ==
    \A h \in InitialStates, p \in PDs : ~IsRead(h, p) => h[p] = Off

(* Nor is the system shut down, and drivers know the states of the HAL. *)
OrderlyHardware ==
    OrderlyTree /\ NotMapped /\ OffBelow /\ MaxShutdowns = 0

HardInv ==
    suspend.count = 0 =>
        suspend.queued = NoState /\ ~suspend.lastCoreOff /\ Hard(World)

(* Start-up records the states of the hardware. *)
LEMMA HardInit ==
    ASSUME Init, InitialTree, OffBelow
    PROVE  HardInv
<1>1. /\ hw \in InitialStates /\ hw \in [PDs -> States]
      /\ suspend.queued = NoState /\ suspend.lastCoreOff = FALSE
      /\ reports = <<>> /\ target = [p \in PDs |-> NoState]
      /\ \A p \in PDs : /\ pd[p].current = StartState(hw, p)
                        /\ pd[p].pre.pending = 0
  BY InitOutcome DEF TypeOK
<1>2. \A p \in PDs : pd[p].current = hw[p]
  BY <1>1 DEF StartState, OffBelow
<1>3. /\ World.reports = <<>> /\ World.hw = hw /\ World.pd = pd
      /\ World.target = [p \in PDs |-> NoState]
  BY <1>1, WorldIs
<1>4. \A p \in PDs : ~Moving(World, p)
  BY <1>1, <1>3 DEF Moving
<1>5. ASSUME NEW p \in PDs, NEW x, May(World, p, x) PROVE x = hw[p]
  BY <1>3, <1>4, <1>5 DEF May
<1>6. ASSUME NEW p \in PDs, Parent[p] # NoPd, NEW x \in States,
             NEW y \in States, May(World, p, x), May(World, Parent[p], y)
      PROVE  IsAllowedByChild(p, y, x)
  <2>1. Parent[p] \in PDs
    BY <1>6, Tables
  <2>2. x = hw[p] /\ y = hw[Parent[p]]
    BY <1>5, <1>6, <2>1
  <2> QED
    BY <1>1, <1>6, <2>2 DEF InitialTree
<1>7. TrueReports(World)
  BY <1>3 DEF TrueReports
<1>8. \A p \in PDs : World.target[p] = NoState
  BY <1>3
<1>9. \A p \in PDs : World.hw[p] = World.pd[p].current
  BY <1>2, <1>3
<1>10. Hard(World)
  BY <1>6, <1>7, <1>8, <1>9 DEF Hard
<1> QED
  BY <1>1, <1>10 DEF HardInv

(* A step keeps the hardware right. *)
LEMMA HardStepKept ==
    ASSUME OrderlyHardware, TypeOK, resets \in Nat, TreeInv, ShutdownInv,
           HardInv, [Next]_vars
    PROVE  HardInv'
<1>1. PICK w \in Worlds : w = World
  BY TypeWorld
<1>2. Tree(w) /\ Flight(w, PDs)
  BY <1>1 DEF TreeInv
<1>3. /\ suspend = w.suspend
      /\ w.suspend.count = 0 => /\ w.suspend.queued = NoState
                                /\ ~w.suspend.lastCoreOff /\ Hard(w)
  BY <1>1, WorldIs DEF HardInv
<1>4. CASE UNCHANGED <<pd, target, hw, reports, answers, suspend>>
  <2>1. World' = World
    BY <1>4 DEF World
  <2> QED
    BY <1>4, <2>1 DEF HardInv
<1>5. CASE \E v : Become(v) /\ Orderly(w, v)
  <2>1. PICK v : Become(v) /\ Orderly(w, v)
    BY <1>5
  <2>2. World' = v /\ suspend' = v.suspend
    BY <2>1, BecomeWorld DEF Orderly, Become
  <2>3. w.suspend.count = 0 \/ v.suspend.count # 0
    BY <2>1 DEF Orderly
  <2>4. v.suspend.count = 0 => /\ v.suspend.queued = NoState
                               /\ ~v.suspend.lastCoreOff /\ Hard(v)
    BY <1>2, <1>3, <2>1, <2>3 DEF Orderly, OrderlyHardware
  <2> QED
    BY <2>2, <2>4 DEF HardInv
<1>6. CASE UNCHANGED vars
  BY <1>4, <1>6 DEF vars
<1>7. CASE Next
  <2>1. ~ \E p \in PDs : ProcessReset(p)
    BY NoReset DEF OrderlyHardware, OrderlyTree
  <2>2. ~(shutdown.requests < MaxShutdowns \/ shutdown.awaited # 0)
    <3>1. shutdown.requests \in 0..0
      BY DEF TypeOK, ShutdownContexts, OrderlyHardware
    <3>2. shutdown.requests = 0
      BY <3>1
    <3> QED
      BY <3>2 DEF ShutdownInv, OrderlyHardware
  <2>3. \/ UNCHANGED <<pd, target, hw, reports, answers, suspend>>
        \/ \E v : Become(v) /\ Orderly(w, v)
    BY <1>1, <1>7, <2>1, <2>2, StepCases, OrderlyStep
       DEF OrderlyHardware, OrderlyTree
  <2> QED
    BY <1>4, <1>5, <2>3
<1> QED
  BY <1>6, <1>7

(* The invariant of the hardware holds throughout. *)
LEMMA HardAlways ==
    ASSUME OrderlyHardware
    PROVE  Spec => [](TypeOK /\ HardInv)
<1>1. OrderlyTree /\ InitialTree /\ OffBelow /\ OneShutdown /\ OffAllowed
  BY DEF OrderlyHardware, OrderlyTree, OneShutdown
<1>2. Init => TreeInv /\ HardInv
  BY <1>1, TreeInit, HardInit
<1>3. TypeOK /\ resets \in Nat /\ TreeInv /\ [Next]_vars => TreeInv'
  BY <1>1, TreeStep
<1>4. TypeOK /\ resets \in Nat /\ TreeInv /\ ShutdownInv /\ HardInv
      /\ [Next]_vars => HardInv'
  BY HardStepKept
<1>5. Spec => []ShutdownInv
  BY <1>1, ShutdownCounts
<1> QED
  BY <1>2, <1>3, <1>4, <1>5, TypeCorrect, ResetsType, PTL DEF Spec

(* The hardware of a domain is never in a state that the state of its      *)
(* parent forbids, in any tree: initiate_power_state_transition is reached *)
(* only when the recorded states of the neighbours allow it, and what the  *)
(* neighbours are recorded in, are in, and are on their way to are all     *)
(* compatible with each other.                                             *)
THEOREM HardwareCompatible ==
    ASSUME OrderlyHardware
    PROVE  Spec => []HardwareTree
<1>1. TypeOK /\ HardInv => HardwareTree
  <2> SUFFICES ASSUME TypeOK, HardInv, suspend.count = 0, NEW p \in PDs,
                      Parent[p] # NoPd
               PROVE  IsAllowedByChild(p, hw[Parent[p]], hw[p])
    BY DEF HardwareTree
  <2>1. Hard(World) /\ World.hw = hw /\ Parent[p] \in PDs
    BY Tables, WorldIs DEF HardInv
  <2>2. hw[p] \in States /\ hw[Parent[p]] \in States
    BY <2>1 DEF TypeOK
  <2>3. May(World, p, hw[p]) /\ May(World, Parent[p], hw[Parent[p]])
    BY <2>1 DEF May
  <2> QED
    BY <2>1, <2>2, <2>3 DEF Hard
<1> QED
  BY <1>1, HardAlways, PTL

(* When no transition is under way, what the HAL records of a domain is    *)
(* the state its hardware is in, whoever refused or failed what.           *)
THEOREM RecordsTrue ==
    ASSUME OrderlyHardware
    PROVE  Spec => []RecordedStates
<1>1. TypeOK /\ HardInv => RecordedStates
  <2> SUFFICES ASSUME TypeOK, HardInv, AtRest, suspend.count = 0,
                      NEW p \in PDs
               PROVE  pd[p].current = hw[p]
    BY DEF RecordedStates
  <2>1. Hard(World) /\ World.hw = hw /\ World.pd = pd /\ World.reports = <<>>
    BY WorldIs DEF HardInv, AtRest
  <2>2. ~Reported(World, p)
    BY <2>1 DEF Reported
  <2> QED
    BY <2>1, <2>2 DEF Hard
<1> QED
  BY <1>1, HardAlways, PTL

----------------------------------------------------------------------------
(* The delayed responses. *)

(* WaitingOwned, and no domain is in charge of an answer that is not asked *)
(* for yet.                                                                *)
Owned(w) ==
    /\ \A i \in DOMAIN w.answers : w.answers[i].status = "WAITING" =>
           \A p \in PDs : (w.pd[p].response = i) <=> (p = w.answers[i].pd)
    /\ \A p \in PDs : w.pd[p].response # 0 =>
           /\ w.pd[p].response \in DOMAIN w.answers
           /\ w.answers[w.pd[p].response].status = "WAITING"

(* It depends on the answers and on who is in charge. *)
LEMMA OwnedSame ==
    ASSUME NEW w, NEW v, Owned(w), v.answers = w.answers,
           \A q \in PDs : v.pd[q].response = w.pd[q].response
    PROVE  Owned(v)
BY DEF Owned

(* A domain that sends its response is no longer in charge of it, and     *)
(* nobody else was.                                                        *)
LEMMA OwnedSent ==
    ASSUME NEW w \in Worlds, NEW v, NEW p \in PDs, NEW status, Owned(w),
           status # "WAITING", v.pd[p].response = 0,
           \A q \in PDs : q # p => v.pd[q].response = w.pd[q].response,
           v.answers = Sent(w, p, p, status)
    PROVE  Owned(v)
<1> DEFINE k == w.pd[p].response
           x == [w.answers[k] EXCEPT !.status = status]
<1>1. CASE k = 0
  <2>1. v.answers = w.answers
    BY <1>1 DEF Sent
  <2>2. \A q \in PDs : v.pd[q].response = w.pd[q].response
    BY <1>1
  <2> QED
    BY <2>1, <2>2, OwnedSame
<1>2. CASE k # 0
  <2>1. /\ k \in DOMAIN w.answers /\ w.answers[k].status = "WAITING"
        /\ \A q \in PDs : (w.pd[q].response = k) <=> (q = w.answers[k].pd)
    BY <1>2 DEF Owned
  <2>2. w.answers \in Seq(Answers) /\ w.answers[k] \in Answers
    BY <2>1, WorldFields
  <2>3. x.status = status
    BY <2>2 DEF Answers
  <2>4. v.answers = [w.answers EXCEPT ![k] = x]
    BY <1>2 DEF Sent
  <2> HIDE DEF x
  <2>5. /\ DOMAIN v.answers = DOMAIN w.answers
        /\ v.answers[k].status # "WAITING"
        /\ \A i \in DOMAIN w.answers : i # k => v.answers[i] = w.answers[i]
    BY <2>1, <2>2, <2>3, <2>4
  <2>6. \A i \in DOMAIN w.answers : i # 0
    BY <2>2
  <2>7. ASSUME NEW i \in DOMAIN v.answers, v.answers[i].status = "WAITING",
               NEW q \in PDs
        PROVE  (v.pd[q].response = i) <=> (q = v.answers[i].pd)
    <3>1. /\ i # k /\ i # 0 /\ v.answers[i] = w.answers[i]
          /\ (w.pd[q].response = i) <=> (q = w.answers[i].pd)
      BY <2>5, <2>6, <2>7 DEF Owned
    <3> QED
      BY <3>1
  <2>8. ASSUME NEW q \in PDs, v.pd[q].response # 0
        PROVE  /\ v.pd[q].response \in DOMAIN v.answers
               /\ v.answers[v.pd[q].response].status = "WAITING"
    <3>1. q # p /\ v.pd[q].response = w.pd[q].response
      BY <2>8
    <3>2. v.pd[q].response # k
      BY <2>1, <3>1
    <3> QED
      BY <2>5, <2>8, <3>1, <3>2 DEF Owned
  <2> QED
    BY <2>7, <2>8 DEF Owned
<1> QED
  BY <1>1, <1>2

(* Answer x is new, and if it waits a domain that owed none is put in      *)
(* charge of it.                                                           *)
Entrusted(w, v, x) ==
    /\ v.answers = Append(w.answers, x)
    /\ x.status = "WAITING" => x.pd \in PDs /\ w.pd[x.pd].response = 0
    /\ \A q \in PDs : x.status = "WAITING" /\ q = x.pd =>
                         v.pd[q].response = Len(w.answers) + 1
    /\ \A q \in PDs : ~(x.status = "WAITING" /\ q = x.pd) =>
                         v.pd[q].response = w.pd[q].response

(* It is the only one who is. *)
LEMMA OwnedAppend ==
    ASSUME NEW w \in Worlds, NEW v, NEW x, Owned(w), Entrusted(w, v, x)
    PROVE  Owned(v)
<1>0. /\ v.answers = Append(w.answers, x)
      /\ x.status = "WAITING" => x.pd \in PDs /\ w.pd[x.pd].response = 0
      /\ \A q \in PDs : x.status = "WAITING" /\ q = x.pd =>
                           v.pd[q].response = Len(w.answers) + 1
      /\ \A q \in PDs : ~(x.status = "WAITING" /\ q = x.pd) =>
                           v.pd[q].response = w.pd[q].response
  BY DEF Entrusted
<1> DEFINE n == Len(w.answers)
<1>1. w.answers \in Seq(Answers) /\ n \in Nat /\ DOMAIN w.answers = 1..n
  BY WorldFields
<1>2. /\ DOMAIN v.answers = 1..(n + 1)
      /\ v.answers[n + 1] = x
      /\ \A i \in 1..n : v.answers[i] = w.answers[i]
  BY <1>0, <1>1
<1> HIDE DEF n
<1>3. \A q \in PDs : w.pd[q].response = 0 \/ w.pd[q].response \in 1..n
  BY <1>1 DEF Owned
<1>4. ASSUME NEW i \in DOMAIN v.answers, v.answers[i].status = "WAITING",
             NEW q \in PDs
      PROVE  (v.pd[q].response = i) <=> (q = v.answers[i].pd)
  <2>1. CASE i = n + 1
    <3>1. x.status = "WAITING" /\ v.answers[i] = x
      BY <1>2, <1>4, <2>1
    <3>2. q # x.pd => v.pd[q].response # n + 1
      BY <1>0, <1>1, <1>3, <3>1
    <3> QED
      BY <1>0, <2>1, <3>1, <3>2 DEF n
  <2>2. CASE i # n + 1
    <3>1. i \in 1..n /\ v.answers[i] = w.answers[i]
      BY <1>1, <1>2, <1>4, <2>2
    <3>2. (w.pd[q].response = i) <=> (q = w.answers[i].pd)
      BY <1>1, <1>4, <3>1 DEF Owned
    <3>3. CASE x.status = "WAITING" /\ q = x.pd
      <4>1. v.pd[q].response = n + 1 /\ w.pd[q].response = 0
        BY <1>0, <3>3 DEF n
      <4>2. i # n + 1 /\ i # 0
        BY <1>1, <3>1
      <4> QED
        BY <3>1, <3>2, <4>1, <4>2
    <3>4. CASE ~(x.status = "WAITING" /\ q = x.pd)
      BY <1>0, <3>1, <3>2, <3>4
    <3> QED
      BY <3>3, <3>4
  <2> QED
    BY <2>1, <2>2
<1>5. ASSUME NEW q \in PDs, v.pd[q].response # 0
      PROVE  /\ v.pd[q].response \in DOMAIN v.answers
             /\ v.answers[v.pd[q].response].status = "WAITING"
  <2>1. CASE x.status = "WAITING" /\ q = x.pd
    <3>1. v.pd[q].response = n + 1 /\ n + 1 \in DOMAIN v.answers
      BY <1>0, <1>1, <1>2, <2>1 DEF n
    <3> QED
      BY <1>2, <2>1, <3>1
  <2>2. CASE ~(x.status = "WAITING" /\ q = x.pd)
    <3>1. /\ v.pd[q].response = w.pd[q].response
          /\ w.pd[q].response \in 1..n
          /\ w.answers[w.pd[q].response].status = "WAITING"
      BY <1>0, <1>1, <1>5, <2>2 DEF Owned
    <3>2. w.pd[q].response \in 1..(n + 1)
      BY <1>1, <3>1
    <3> QED
      BY <1>2, <3>1, <3>2
  <2> QED
    BY <2>1, <2>2
<1> QED
  BY <1>4, <1>5 DEF Owned

(* A level of a walk reports an error, or leaves the status alone. *)
LEMMA LevelStatus ==
    ASSUME NEW a \in Accs, NEW me, NEW p, NEW s, NEW refuse
    PROVE  SetStateLevel(a, me, p, s, refuse).status
               \in {a.status, "PWRSTATE", "DEVICE"}
<1> DEFINE b == SetStateLevel(a, me, p, s, refuse)
           u == Overwrite(a.w, me, p, s)
           n == PreTransition(u, p)
           x == [n.w EXCEPT !.pd[p].requested = a.w.pd[p].requested]
           y == InitiateTransition(n.w, p, refuse)
<1>1. \/ b = a
      \/ b = [a EXCEPT !.status = "PWRSTATE", !.stop = TRUE]
      \/ b = [a EXCEPT !.w = u]
      \/ b = [a EXCEPT !.w = u, !.charge = p]
      \/ b = [a EXCEPT !.w = n.w, !.charge = p]
      \/ b = [a EXCEPT !.w = x, !.charge = NoPd, !.status = "DEVICE",
                       !.stop = TRUE]
      \/ b = [a EXCEPT !.w = y, !.charge = p, !.initiated = TRUE]
  BY DEF SetStateLevel, Overwrite
<1> HIDE DEF b, u, n, x, y
<1>2. b.status \in {a.status, "PWRSTATE", "DEVICE"}
  BY <1>1 DEF Accs
<1> QED
  BY <1>2 DEF b

(* A request that addresses one domain: who waited for the previous one is *)
(* answered before the domain is put in charge of the new one.             *)
LEMMA OwnedRequest ==
    ASSUME NEW w \in Worlds, NEW p \in PDs, NEW cs \in Accepted(p),
           NEW respond \in BOOLEAN, NEW refuse, Len(w.answers) < MaxRequests,
           p \notin CompositeSupport, Owned(w)
    PROVE  Owned(SetStateRequest(w, p, cs, respond, refuse))
<1> DEFINE v == SetStateRequest(w, p, cs, respond, refuse)
           a == Walk(w, p, p, cs, refuse)
           x == AnswerTo(a, respond)
           b == Start(w)
<1>1. /\ v.answers = Append(a.w.answers, x)
      /\ \A q \in PDs : /\ respond /\ q = a.charge =>
                               v.pd[q].response = Len(w.answers) + 1
                        /\ ~(respond /\ q = a.charge) =>
                               v.pd[q].response = a.w.pd[q].response
  BY RequestOutcome
<1>2. cs \in Composites(p) /\ Len(cs) = 1
  BY AcceptedComposite
<1>3. PICK f : IsWalk(f, w, p, p, cs, refuse)
  BY <1>2, WalkDefined
<1>4. /\ LevelPd(w, p, cs, 1) = p /\ LevelState(w, p, cs, 1) \in States
  <2>1. Level(w, p, cs, 1) = 1
    BY <1>2 DEF Level
  <2> QED
    BY <1>2, <2>1, LevelsDiffer, PathUpGoesUp DEF LevelPd
<1>5. a = SetStateLevel(b, p, p, LevelState(w, p, cs, 1), refuse)
  BY <1>2, <1>3, <1>4 DEF IsWalk
<1>6. /\ b \in Accs /\ b.charge = NoPd /\ b.w.pd = w.pd /\ b.w \in Worlds
      /\ b.w.answers = w.answers /\ b.status = "SUCCESS"
  BY StartOutcome DEF Accs, Start
<1> HIDE DEF a, b, v
<1>7. /\ a \in Accs /\ Asked(b.w, a.w, p, LevelState(w, p, cs, 1))
      /\ \/ a.w = b.w /\ a.charge = b.charge
         \/ /\ Answered(b.w, a.w, p, p)
            /\ a.charge \in {b.charge, p, NoPd}
  BY <1>4, <1>5, <1>6, LevelOutcome
<1>8. a.status # "WAITING"
  BY <1>5, <1>6, LevelStatus
<1>9. Owned(b.w)
  BY <1>6, OwnedSame
<1>10. a.w \in Worlds /\ \A q \in PDs : q # p => a.w.pd[q] = b.w.pd[q]
  BY <1>7 DEF Asked
<1>11. /\ Owned(a.w) /\ Len(a.w.answers) = Len(w.answers)
       /\ a.charge # NoPd => a.charge = p /\ a.w.pd[p].response = 0
  <2>1. CASE a.w = b.w /\ a.charge = b.charge
    BY <1>6, <1>9, <2>1
  <2>2. CASE Answered(b.w, a.w, p, p) /\ a.charge \in {b.charge, p, NoPd}
    <3>1. Owned(a.w)
      BY <1>6, <1>9, <1>10, <2>2, OwnedSent DEF Answered
    <3> QED
      BY <1>6, <2>2, <3>1 DEF Answered
  <2> QED
    BY <1>7, <2>1, <2>2
<1>12. /\ x.pd = a.charge
       /\ (x.status = "WAITING") <=> (respond /\ a.charge # NoPd)
  BY <1>8 DEF AnswerTo
<1> HIDE DEF x
<1>13. x.status = "WAITING" => x.pd \in PDs /\ a.w.pd[x.pd].response = 0
  BY <1>11, <1>12
<1>14. \A q \in PDs : (respond /\ q = a.charge) <=>
                      (x.status = "WAITING" /\ q = x.pd)
  BY <1>12, Tables
<1>15. \A q \in PDs : x.status = "WAITING" /\ q = x.pd =>
                         v.pd[q].response = Len(a.w.answers) + 1
  BY <1>1, <1>11, <1>14
<1>16. \A q \in PDs : ~(x.status = "WAITING" /\ q = x.pd) =>
                         v.pd[q].response = a.w.pd[q].response
  BY <1>1, <1>14
<1>17. Entrusted(a.w, v, x)
  BY <1>1, <1>13, <1>15, <1>16 DEF Entrusted
<1>18. Owned(v)
  BY <1>10, <1>11, <1>17, OwnedAppend
<1> QED
  BY <1>18 DEF v

(* A step keeps the responses owned. *)
LEMMA OwnedStep ==
    ASSUME CompositeSupport = {}, TypeOK, Owned(World), [Next]_vars
    PROVE  Owned(World)'
<1>1. PICK w \in Worlds : w = World
  BY TypeWorld
<1>2. Owned(w)
  BY <1>1
<1>3. ASSUME NEW v \in Worlds, Become(v), Owned(v)
      PROVE  Owned(World)'
  <2>1. World' = v
    BY <1>3, BecomeWorld
  <2> QED
    BY <1>3, <2>1
<1>4. ASSUME NEW v \in Worlds, Become(v), v.answers = w.answers,
             \A q \in PDs : v.pd[q].response = w.pd[q].response
      PROVE  Owned(World)'
  BY <1>2, <1>3, <1>4, OwnedSame
<1>5. CASE UNCHANGED <<pd, target, hw, reports, answers, suspend>>
  <2>1. World' = World
    BY <1>5 DEF World
  <2> QED
    BY <2>1
<1>6. CASE \E last \in 0..PdCount : PerformShutdown(last)
  BY <1>1, <1>4, <1>6, ShutdownOutcome
<1>7. ASSUME NEW p \in PDs, NEW respond \in BOOLEAN, NEW refuse,
             NEW cs \in Accepted(p), SetState(p, cs, respond, refuse)
      PROVE  Owned(World)'
  <2> DEFINE v == SetStateRequest(w, p, cs, respond, refuse)
  <2>1. Len(w.answers) < MaxRequests /\ Become(v) /\ p \notin CompositeSupport
    BY <1>1, <1>7, WorldIs DEF SetState
  <2>2. v \in Worlds /\ Owned(v)
    BY <1>2, <2>1, RequestOutcome, OwnedRequest
  <2> HIDE DEF v
  <2> QED
    BY <1>3, <2>1, <2>2
<1>8. ASSUME NEW p \in PDs, DriverReports(p) PROVE Owned(World)'
  BY <1>1, <1>4, <1>8, DriverReportsOutcome
<1>9. ASSUME NEW refuse, ProcessReport(refuse) PROVE Owned(World)'
  <2> DEFINE r == Head(w.reports)
             x == Popped(w)
  <2>1. w.reports # <<>>
    BY <1>1, <1>9, ProcessReportOutcome
  <2>2. PICK u, v : /\ Become(v) /\ Arrived(x, u, r.pd, r.state)
                    /\ \/ v = CompleteSystemSuspend(u, r.pd, r.pd, refuse)
                       \/ Reached(u, v)
    BY <1>1, <1>9, ProcessReportOutcome
  <2>3. r.pd \in PDs /\ x \in Worlds /\ x.pd = w.pd /\ x.answers = w.answers
    BY <2>1, PopOutcome
  <2> HIDE DEF r, x
  <2>4. Owned(x)
    BY <1>2, <2>3, OwnedSame
  <2>5. u \in Worlds /\ Owned(u)
    <3>1. /\ u \in Worlds
          /\ \A q \in PDs : q # r.pd => u.pd[q] = x.pd[q]
          /\ \/ /\ u.pd[r.pd].response = x.pd[r.pd].response
                /\ u.answers = x.answers
             \/ /\ u.pd[r.pd].response = 0
                /\ u.answers = Sent(x, r.pd, r.pd, "SUCCESS")
      BY <2>2 DEF Arrived
    <3>2. CASE /\ u.pd[r.pd].response = x.pd[r.pd].response
               /\ u.answers = x.answers
      BY <2>4, <3>1, <3>2, OwnedSame
    <3>3. CASE /\ u.pd[r.pd].response = 0
               /\ u.answers = Sent(x, r.pd, r.pd, "SUCCESS")
      BY <2>3, <2>4, <3>1, <3>3, OwnedSent
    <3> QED
      BY <3>1, <3>2, <3>3
  <2>6. v \in Worlds /\ Owned(v)
    <3>1. CASE v = CompleteSystemSuspend(u, r.pd, r.pd, refuse)
      BY <2>3, <2>5, <3>1, CompleteOutcome
    <3>2. CASE Reached(u, v)
      BY <2>5, <3>2, OwnedSame DEF Reached
    <3> QED
      BY <2>2, <3>1, <3>2
  <2> QED
    BY <1>3, <2>2, <2>6
<1>10. ASSUME NEW p \in PDs, NEW ok \in BOOLEAN, NEW refuse,
              PreTransitionResponse(p, ok, refuse)
       PROVE  Owned(World)'
  <2>1. PICK v : Become(v) /\ Reached(w, v)
    BY <1>1, <1>10, PreResponseOutcome
  <2> QED
    BY <1>4, <2>1 DEF Reached
<1>11. ASSUME NEW p \in PDs, NEW refuse, TransitionResponse(p, refuse)
       PROVE  Owned(World)'
  <2>1. PICK u, v : Become(v) /\ Reached(u, v) /\ Touched(w, u, p)
    BY <1>1, <1>11, PostResponseOutcome
  <2>2. \A q \in PDs : u.pd[q].response = w.pd[q].response
    BY <2>1 DEF Touched
  <2>3. /\ v \in Worlds /\ v.answers = w.answers
        /\ \A q \in PDs : v.pd[q].response = w.pd[q].response
    BY <2>1, <2>2 DEF Touched, Reached
  <2> QED
    BY <1>4, <2>1, <2>3
<1>12. ASSUME NEW p \in PDs, ProcessReset(p) PROVE Owned(World)'
  BY <1>1, <1>4, <1>12, ResetOutcome
<1>13. ASSUME NEW state \in {Off, Sleep}, SystemSuspend(state)
       PROVE  Owned(World)'
  BY <1>1, <1>4, <1>13, SystemSuspendOutcome
<1>14. ASSUME NEW prepared, NEW refuse, ProcessSystemSuspend(prepared, refuse)
       PROVE  Owned(World)'
  <2>1. PICK v : Become(v) /\ Suspended(w, v)
    BY <1>1, <1>14, ProcessSuspendOutcome
  <2> QED
    BY <1>4, <2>1 DEF Suspended
<1>15. CASE UNCHANGED vars
  BY <1>5, <1>15 DEF vars
<1>16. CASE Next
  BY <1>1, <1>5, <1>6, <1>7, <1>8, <1>9, <1>10, <1>11, <1>12, <1>13, <1>14,
     <1>16, StepCases
<1> QED
  BY <1>15, <1>16

(* Every request that waits for its response has exactly one domain that   *)
(* will send it, and every domain in charge has a request that waits, when *)
(* requests address one domain each; however requests overlap, drivers     *)
(* refuse or report late, and through reset, suspend and shutdown.  With   *)
(* composite requests it is false: PowerDomainOverwritten.cfg.             *)
THEOREM ResponsesOwned ==
    ASSUME CompositeSupport = {}
    PROVE  Spec => []WaitingOwned
<1>1. Init => Owned(World)
  <2> SUFFICES ASSUME Init PROVE Owned(World)
    OBVIOUS
  <2>1. answers = <<>> /\ \A p \in PDs : pd[p].response = 0
    BY InitOutcome
  <2> QED
    BY <2>1, WorldIs DEF Owned
<1>2. TypeOK /\ Owned(World) /\ [Next]_vars => Owned(World)'
  BY OwnedStep
<1>3. Owned(World) => WaitingOwned
  BY WorldIs DEF Owned, WaitingOwned
<1> QED
  BY <1>1, <1>2, <1>3, TypeCorrect, PTL DEF Spec
=============================================================================
