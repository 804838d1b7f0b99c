------------------------------ MODULE DvfsProofs ------------------------------
(***************************************************************************)
(* Safety of a DVFS domain, for any table of operating points, any number  *)
(* of calls and retries, with or without the alarm.                        *)
(*                                                                         *)
(* VoltageSafe alone is not inductive: dvfs_handle_set_opp orders its two  *)
(* operations by the operating point on record, which a request that       *)
(* failed half-way leaves behind the hardware.  What saves it is that the  *)
(* record stays between the two: the clock is never above the recorded     *)
(* operating point and the supply never below it (Hardware).               *)
(***************************************************************************)
EXTENDS Dvfs, WellFoundedInduction, TLAPS

----------------------------------------------------------------------------
(* A set of natural numbers has a least one. *)
LEMMA LeastNatural ==
    ASSUME NEW S, S \subseteq Nat, S # {}
    PROVE  \E x \in S : \A y \in S : x <= y
<1>1. PICK x \in S : \A y \in S : ~(<<y, x>> \in OpToRel(<, Nat))
  BY NatLessThanWellFounded, WFMin
<1>2. ASSUME NEW y \in S PROVE x <= y
  <2>1. <<y, x>> \in Nat \X Nat /\ <<y, x>>[1] = y /\ <<y, x>>[2] = x
    OBVIOUS
  <2>2. ~(y < x)
    BY <1>1, <2>1 DEF OpToRel
  <2> QED
    BY <2>2
<1> QED
  BY <1>2

----------------------------------------------------------------------------

Operations == {"psu_set", "clk_set"}
Devices == {"psu_get"} \cup Operations
Setting == {"SET_OPP", "SET_VOLTAGE", "SET_FREQUENCY", "SET_OPP_DONE"}

(* What the domain waits for, and for which request, in each state. *)
Control ==
    /\ next \in {"start", "nothing"} <=> state = "IDLE"
    /\ next = "get" => state = "GET_OPP"
    /\ next = "set" => state = "SET_OPP"
    /\ next \in {"retry", "alarm"} => state = "RETRY"
    /\ next = "psu_get" => state \in {"GET_OPP", "SET_OPP"}
    /\ next = "psu_set" => state \in {"SET_FREQUENCY", "SET_OPP_DONE"}
    /\ next = "clk_set" => state \in {"SET_VOLTAGE", "SET_OPP_DONE"}
    /\ next \in {"get", "psu_get"} => current_opp = 0
    /\ response # "none" => next \in Devices

(* The requests in the context. *)
Requests ==
    /\ state = "IDLE" => /\ request = NoRequest /\ pending_request = NoRequest
                         /\ ~request_pending
    /\ state \in Setting => request.new_opp \in Opps
    /\ state = "GET_OPP" => request.response_required
    /\ request_pending => pending_request.new_opp \in Opps
    /\ state = "RETRY" => request_pending
    /\ state # "RETRY" /\ next # "lost" => request.num_retries <= MaxRetries
    /\ pending_request.num_retries <= MaxRetries

(* The recorded operating point lies between clock and supply. *)
Between(opp, h) == opp # 0 => Voltage[opp] <= h.v /\ Supports(Voltage[opp], h.f)

(* How far the two operations of a request have come.  A domain that waits *)
(* for an event that was not put does no more of them.                     *)
Hardware ==
    LET new == request.new_opp
    IN  /\ VoltageSafe
        /\ state = "SET_OPP_DONE" /\ response = "ok" =>
               hw.v = Voltage[new] /\ hw.f = new
        /\ ~(state = "SET_OPP_DONE" /\ response = "ok") =>
               Between(current_opp, hw)
        /\ state = "SET_FREQUENCY" /\ next # "lost" =>
               /\ Supports(Voltage[new], hw.f)
               /\ current_opp # 0 => Voltage[current_opp] <= Voltage[new]
               /\ response = "ok" => hw.v = Voltage[new]
        /\ state = "SET_VOLTAGE" /\ next # "lost" =>
               /\ Voltage[new] <= hw.v
               /\ current_opp # 0 => Voltage[new] <= Voltage[current_opp]
               /\ response = "ok" => hw.f = new
        /\ state = "SET_OPP_DONE" /\ next = "clk_set" => hw.v = Voltage[new]
        /\ state = "SET_OPP_DONE" /\ next = "psu_set" =>
               hw.f = new /\ Voltage[new] <= hw.v

(* No two operating points have the same voltage. *)
VoltagesDiffer == \A i, j \in Opps : Voltage[i] = Voltage[j] => i = j

Has(h, opp) == h.v = Voltage[opp] /\ h.f = opp

(* A level is reported between two requests only.  The hardware is what    *)
(* the record says until the first operation of a request is done; with    *)
(* two operating points of the same voltage it need not be, the clock is   *)
(* then left alone.                                                        *)
Truth ==
    /\ reported # 0 => reported = current_opp /\ next \notin Operations
    /\ /\ VoltagesDiffer /\ ~stale /\ current_opp # 0
       /\ next \in Operations => state # "SET_OPP_DONE" /\ response # "ok"
       => Has(hw, current_opp)

(* Where the last level asked for is, as long as nothing failed. *)
Wanted ==
    /\ next = "start" => last.level = Sustained
    /\ state = "GET_OPP" => failed
    /\ ~failed /\ state = "IDLE" /\ next # "start" => current_opp # 0
    /\ ~failed /\ state = "RETRY" => current_opp = request.new_opp
    /\ ~failed /\ ~last.dropped =>
           CASE state = "IDLE" -> next # "start" => current_opp = last.level
             [] state # "IDLE" /\ request_pending ->
                    pending_request.new_opp = last.level
             [] OTHER -> request.new_opp = last.level

Inv == TypeOK /\ Control /\ Requests /\ Hardware /\ Truth /\ Wanted
-----------------------------------------------------------------------------
(* The operating points are positive numbers and so are their voltages. *)
LEMMA OppFacts ==
    /\ 0 \in 0..MaxLevel /\ Opps \subseteq 0..MaxLevel
    /\ \A o \in Opps : o # 0 /\ o \in Int /\ Voltage[o] \in Nat
    /\ \A o \in 0..MaxLevel : o # 0 => o \in Opps
  BY DvfsAssumption DEF Opps

(* A context that dvfs_cleanup_request has cleared. *)
LEMMA NoRequestFacts ==
    /\ NoRequest \in Request /\ NoRequest.num_retries = 0
    /\ NoRequest.new_opp = 0
  BY DvfsAssumption DEF NoRequest, Request

(* dvfs_set_level_start: the request begins, or there is nothing to do     *)
(* because the one that has just ended was for the same level.             *)
LEMMA StartRequest ==
    ASSUME NEW opp \in Opps, NEW retry \in BOOLEAN, NEW retries \in Nat,
           retries <= MaxRetries, NEW old,
           SetLevelStart(opp, retry, retries, old, NoRequest),
           request_pending' = FALSE, response' = "none"
    PROVE  /\ request' \in Request /\ pending_request' \in Request
           /\ request'.num_retries <= MaxRetries
           /\ Control' /\ Requests'
           /\ \/ state' = "IDLE" /\ next' = "nothing" /\ opp = old
              \/ /\ state' = "SET_OPP" /\ next' \in {"set", "lost"}
                 /\ request'.new_opp = opp
<1>1. CASE opp = old
  <2>1. /\ request' = NoRequest /\ pending_request' = NoRequest
        /\ state' = "IDLE" /\ next' = "nothing"
    BY <1>1 DEF SetLevelStart, CleanupRequest
  <2>2. Control'
    BY <2>1 DEF Control
  <2>3. Requests'
    BY <2>1, NoRequestFacts, DvfsAssumption DEF Requests, Setting
  <2> QED
    BY <1>1, <2>1, <2>2, <2>3, NoRequestFacts, DvfsAssumption
<1>2. CASE opp # old
  <2>. DEFINE new == [new_opp |-> opp, response_required |-> FALSE,
                      retry_request |-> retry, num_retries |-> retries]
  <2>1. /\ request' = new /\ pending_request' = NoRequest
        /\ state' = "SET_OPP" /\ next' \in {"set", "lost"}
    BY <1>2 DEF SetLevelStart, PutEvent
  <2>2. /\ new \in Request /\ new.new_opp = opp /\ new.num_retries = retries
    BY OppFacts DEF Request
  <2>3. Control'
    BY <2>1 DEF Control
  <2>4. Requests'
    BY <2>1, <2>2, NoRequestFacts, DvfsAssumption DEF Requests
  <2> QED
    BY <2>1, <2>2, <2>3, <2>4, NoRequestFacts
<1> QED
  BY <1>1, <1>2

(* The domain is between two requests, or will do nothing any more. *)
Rests == state \in {"IDLE", "SET_OPP", "RETRY"} \/ next = "lost"

States == {"IDLE", "GET_OPP", "SET_OPP", "SET_VOLTAGE", "SET_FREQUENCY",
           "SET_OPP_DONE", "RETRY"}

(* Between two operations, and while the domain rests, clock and supply    *)
(* need only enclose the record.                                           *)
LEMMA AtRest ==
    ASSUME \/ state' \in {"IDLE", "GET_OPP", "SET_OPP", "RETRY"}
           \/ next' = "lost" /\ response' = "none",
           Supports(hw'.v, hw'.f), Between(current_opp', hw')
    PROVE  Hardware'
  BY DEF Hardware, VoltageSafe

(* dvfs_complete: the context is cleared, the next request begins, or it   *)
(* waits for the alarm; or an event or the alarm fails and the domain      *)
(* stays busy.  The last level asked for is not lost on the way.           *)
LEMMA CompleteStep ==
    ASSUME TypeOK, Control, Requests, Wanted, next # "lost",
           state \in Setting \cup {"GET_OPP"},
           NEW ok \in BOOLEAN, NEW opp \in 0..MaxLevel,
           ok /\ state \in Setting => opp = request.new_opp,
           Complete(ok, opp), response' = "none", UNCHANGED last
    PROVE  /\ current_opp' = opp
           /\ request' \in Request /\ pending_request' \in Request
           /\ request'.num_retries <= MaxRetries + 1
           /\ request_pending' \in BOOLEAN
           /\ Rests' /\ state' \in States
           /\ next' \in {"nothing", "set", "lost", "alarm"}
           /\ Control' /\ Requests' /\ Wanted'
<1>. DEFINE retry == ~ok /\ request.retry_request /\ ~request.response_required
            r     == IF retry THEN [request EXCEPT !.num_retries = @ + 1]
                              ELSE request
            again == retry /\ request.num_retries < MaxRetries
            p     == IF again
                       THEN [pending_request EXCEPT
                                !.retry_request = TRUE,
                                !.num_retries = r.num_retries,
                                !.new_opp = IF request_pending THEN @
                                                               ELSE r.new_opp]
                       ELSE pending_request
<1>1. /\ current_opp' = opp /\ failed' = (failed \/ ~ok)
      /\ \/ /\ request_pending \/ again
            /\ HandlePendingRequest(r, p)
         \/ /\ ~(request_pending \/ again)
            /\ CleanupRequest /\ UNCHANGED request_pending
         \/ /\ ok /\ next' = "lost"
            /\ UNCHANGED <<state, request, pending_request, request_pending>>
  BY DEF Complete
<1>2. /\ request \in Request /\ request.num_retries <= MaxRetries
      /\ request.num_retries \in Nat /\ pending_request \in Request
      /\ pending_request.num_retries <= MaxRetries
      /\ request_pending \in BOOLEAN
      /\ request.new_opp \in 0..MaxLevel
  BY DEF TypeOK, Requests, Setting, Request
<1>3. /\ r \in Request /\ r.num_retries <= MaxRetries + 1
      /\ r.new_opp = request.new_opp /\ (again => r.num_retries <= MaxRetries)
  BY <1>2, DvfsAssumption DEF Request
<1>4. again => request.new_opp \in Opps
  BY DEF Requests
<1>5. /\ p \in Request /\ p.num_retries <= MaxRetries
      /\ request_pending => p.new_opp = pending_request.new_opp
      /\ request_pending \/ again => p.new_opp \in Opps
  <2>1. CASE again
    <3>1. p = [pending_request EXCEPT
                  !.retry_request = TRUE, !.num_retries = r.num_retries,
                  !.new_opp = IF request_pending THEN @ ELSE r.new_opp]
      BY <2>1
    <3>. HIDE DEF p, r, again
    <3>2. p \in Request /\ p.num_retries = r.num_retries
            /\ p.new_opp = IF request_pending THEN pending_request.new_opp
                                              ELSE r.new_opp
      BY <1>2, <1>3, <3>1 DEF Request
    <3> QED
      BY <1>3, <1>4, <2>1, <3>2 DEF Requests
  <2>2. CASE ~again
    BY <1>2, <2>2 DEF Requests
  <2> QED
    BY <2>1, <2>2
<1>6. again => failed'
  BY <1>1
<1>7. ~failed' => /\ ok /\ ~failed /\ state \in Setting /\ opp \in Opps
                  /\ opp = request.new_opp
  BY <1>1 DEF Wanted, Requests
<1>8. ~failed' /\ ~last.dropped =>
          IF request_pending THEN p.new_opp = last.level
                             ELSE request.new_opp = last.level
  BY <1>5, <1>7 DEF Wanted, Setting
<1>. HIDE DEF r, p, again, retry
<1>9. CASE (request_pending \/ again) /\ timer /\ HandlePendingRequest(r, p)
  <2>1. /\ \/ state' = "RETRY" /\ next' = "alarm"
           \/ state' = state /\ next' = "lost"
        /\ request' = r /\ pending_request' = p /\ request_pending' = TRUE
    BY <1>9 DEF HandlePendingRequest
  <2>2. state' \in States /\ state' # "IDLE" /\ Rests'
    BY <2>1 DEF Rests, States, Setting
  <2>3. Control'
    BY <2>1, <2>2 DEF Control
  <2>4. Requests'
    <3>1. state' \in Setting => r.new_opp \in Opps
      BY <1>3, <2>1 DEF Requests, Setting
    <3>2. state' = "GET_OPP" => r.response_required
      <4>1. state' = "GET_OPP" => state = "GET_OPP"
        BY <2>1
      <4>2. state = "GET_OPP" => r = request /\ request.response_required
        BY DEF Requests, r, retry
      <4> QED
        BY <4>1, <4>2
    <3> QED
      BY <1>5, <1>9, <2>1, <2>2, <3>1, <3>2 DEF Requests
  <2>5. Wanted'
    BY <1>1, <1>3, <1>6, <1>7, <1>8, <1>9, <2>1, <2>2 DEF Wanted
  <2> QED
    BY <1>1, <1>3, <1>5, <2>1, <2>2, <2>3, <2>4, <2>5
<1>10. CASE (request_pending \/ again) /\ ~timer /\ HandlePendingRequest(r, p)
  <2>1. /\ SetLevelStart(p.new_opp, p.retry_request, p.num_retries, r.new_opp,
                         NoRequest)
        /\ request_pending' = FALSE
    BY <1>10 DEF HandlePendingRequest
  <2>2. p.retry_request \in BOOLEAN /\ p.num_retries \in Nat
    BY <1>5 DEF Request
  <2>3. /\ request' \in Request /\ pending_request' \in Request
        /\ request'.num_retries <= MaxRetries /\ Control' /\ Requests'
        /\ \/ state' = "IDLE" /\ next' = "nothing" /\ p.new_opp = r.new_opp
           \/ /\ state' = "SET_OPP" /\ next' \in {"set", "lost"}
              /\ request'.new_opp = p.new_opp
    BY <1>5, <1>10, <2>1, <2>2, StartRequest
  <2>4. Wanted'
    BY <1>1, <1>3, <1>6, <1>7, <1>8, <1>10, <2>1, <2>3, OppFacts DEF Wanted
  <2>5. request'.num_retries <= MaxRetries + 1
    BY <2>3, DvfsAssumption DEF Request
  <2> QED
    BY <1>1, <2>1, <2>3, <2>4, <2>5 DEF Rests, States
<1>11. CASE /\ ~(request_pending \/ again)
            /\ CleanupRequest /\ UNCHANGED request_pending
  <2>1. /\ request' = NoRequest /\ pending_request' = NoRequest
        /\ state' = "IDLE" /\ next' = "nothing" /\ request_pending' = FALSE
    BY <1>2, <1>11 DEF CleanupRequest
  <2>2. Control'
    BY <2>1 DEF Control
  <2>3. Requests'
    BY <2>1, NoRequestFacts, DvfsAssumption DEF Requests, Setting
  <2>4. Wanted'
    BY <1>1, <1>7, <1>8, <1>11, <2>1, OppFacts DEF Wanted
  <2>5. request' \in Request /\ request'.num_retries <= MaxRetries + 1
    BY <2>1, NoRequestFacts, DvfsAssumption
  <2> QED
    BY <1>1, <2>1, <2>2, <2>3, <2>4, <2>5, NoRequestFacts DEF Rests, States
<1>12. CASE /\ ok /\ next' = "lost"
            /\ UNCHANGED <<state, request, pending_request, request_pending>>
  <2>1. Rests' /\ state' \in States /\ state' # "IDLE" /\ state' # "RETRY"
    BY <1>12 DEF Rests, States, Setting
  <2>2. Control'
    BY <1>12, <2>1 DEF Control
  <2>3. Requests'
    BY <1>2, <1>12, <2>1 DEF Requests
  <2>4. Wanted'
    <3>1. ~failed' /\ ~last'.dropped =>
              IF request_pending' THEN pending_request'.new_opp = last'.level
                                  ELSE request'.new_opp = last'.level
      BY <1>5, <1>8, <1>12
    <3>2. state' = "GET_OPP" => failed'
      BY <1>1, <1>12 DEF Wanted
    <3> QED
      BY <1>12, <2>1, <3>1, <3>2 DEF Wanted
  <2>5. request'.num_retries <= MaxRetries + 1
    BY <1>2, <1>12, DvfsAssumption
  <2> QED
    BY <1>1, <1>2, <1>12, <2>1, <2>2, <2>3, <2>4, <2>5
<1> QED
  BY <1>1, <1>9, <1>10, <1>11, <1>12
-----------------------------------------------------------------------------
(* The ways the operations of a handler can end, seen from the hardware:   *)
(* the request is over, or one operation is with its device.               *)
HwType == [v : Nat, f : 0..MaxLevel]

Over(o) ==
    /\ o.status \in {"ok", "fail", "half"}
    /\ Between(IF o.status = "ok" THEN request.new_opp ELSE current_opp, o.hw)
    /\ VoltagesDiffer /\ ~stale /\ o.status # "half" =>
           IF o.status = "ok" THEN Has(o.hw, request.new_opp)
           ELSE current_opp # 0 => Has(o.hw, current_opp)

Unfinished(o) ==
    LET new == request.new_opp
    IN  /\ o.status = "pending"
        /\ Between(current_opp, o.hw)
        /\ \/ /\ o.wait = "psu_set" /\ o.state = "SET_FREQUENCY"
              /\ Supports(Voltage[new], o.hw.f)
              /\ current_opp # 0 => Voltage[current_opp] <= Voltage[new]
           \/ /\ o.wait = "clk_set" /\ o.state = "SET_VOLTAGE"
              /\ Voltage[new] <= o.hw.v
              /\ current_opp # 0 => Voltage[new] <= Voltage[current_opp]
           \/ /\ o.wait = "clk_set" /\ o.state = "SET_OPP_DONE"
              /\ o.hw.v = Voltage[new]
           \/ /\ o.wait = "psu_set" /\ o.state = "SET_OPP_DONE"
              /\ o.hw.f = new /\ Voltage[new] <= o.hw.v
        /\ VoltagesDiffer /\ ~stale /\ o.state # "SET_OPP_DONE"
               /\ current_opp # 0 => Has(o.hw, current_opp)

Outcome(o) ==
    /\ o.hw \in HwType /\ Supports(o.hw.v, o.hw.f)
    /\ Over(o) \/ Unfinished(o)

(* dvfs_handle_psu_set_voltage_resp, dvfs_handle_clk_set_freq_resp and     *)
(* dvfs_handle_set_opp preserve Inv when their outcome is as above.        *)
LEMMA FinishStep ==
    ASSUME Inv, NEW o, Outcome(o), Finish(o), state \in Setting \/ Over(o),
           next # "lost",
           state \in Setting \cup {"GET_OPP"},
           o.status = "ok" => state \in Setting,
           response' = "none", attempts' \in 0..(MaxRetries + 1)
    PROVE  Inv'
<1>1. /\ TypeOK /\ hw' = o.hw /\ stale' = (stale \/ o.status = "half")
      /\ UNCHANGED <<timer, last, calls>> /\ hw' \in HwType
      /\ Supports(hw'.v, hw'.f)
  BY DEF Inv, Finish, Outcome
<1>2. stale' \in BOOLEAN
  BY <1>1 DEF TypeOK
<1>3. CASE Over(o)
  <2>. DEFINE ok  == o.status = "ok"
              opp == IF ok THEN request.new_opp ELSE current_opp
  <2>1. Complete(ok, opp) /\ ok \in BOOLEAN
    BY <1>3 DEF Finish, Over
  <2>2. opp \in 0..MaxLevel /\ (ok => opp \in Opps)
    BY OppFacts DEF Inv, TypeOK, Requests
  <2>3. /\ current_opp' = opp
        /\ request' \in Request /\ pending_request' \in Request
        /\ request'.num_retries <= MaxRetries + 1
        /\ request_pending' \in BOOLEAN
        /\ Rests' /\ state' \in States
        /\ next' \in {"nothing", "set", "lost", "alarm"}
        /\ Control' /\ Requests' /\ Wanted'
    <3>. HIDE DEF ok, opp
    <3>1. ok /\ state \in Setting => opp = request.new_opp
      BY DEF ok, opp
    <3> QED
      BY <1>1, <2>1, <2>2, <3>1, CompleteStep DEF Inv
  <2>4. /\ reported' \in {reported, opp, 0} /\ failed' = (failed \/ ~ok)
        /\ state \in Setting => reported' = IF ok THEN opp ELSE 0
        /\ state = "GET_OPP" => reported' = reported /\ ~ok
    BY <2>1 DEF Complete, Setting
  <2>5. TypeOK'
    <3>1. failed' \in BOOLEAN
      BY <2>1, <2>4 DEF Inv, TypeOK
    <3>2. reported' \in 0..MaxLevel
      BY <1>1, <2>2, <2>4, OppFacts DEF TypeOK
    <3> QED
      BY <1>1, <1>2, <2>2, <2>3, <3>1, <3>2 DEF TypeOK, HwType, States
  <2>6. Hardware'
    BY <1>1, <1>3, <2>3, AtRest DEF Over, Rests
  <2>7. Truth'
    <3>1. reported' # 0 => reported' = current_opp' /\ next' \notin Operations
      <4>1. state = "GET_OPP" => current_opp' = current_opp
        BY <2>3, <2>4
      <4> QED
        BY <2>3, <2>4, <4>1 DEF Inv, Truth, Operations
    <3>2. ASSUME VoltagesDiffer, ~stale', current_opp' # 0
          PROVE  Has(hw', current_opp')
      BY <1>1, <1>3, <2>3, <3>2 DEF Over
    <3> QED
      BY <2>3, <3>1, <3>2 DEF Truth
  <2> QED
    BY <2>3, <2>5, <2>6, <2>7 DEF Inv
<1>4. CASE Unfinished(o)
  <2>1. /\ state' = o.state /\ next' = o.wait /\ reported' = 0
        /\ UNCHANGED <<current_opp, request, pending_request,
                       request_pending, failed, stale>>
    BY <1>1, <1>4 DEF Finish, Unfinished, Inv, TypeOK
  <2>2. /\ next' \in Operations /\ state \in Setting
        /\ state' \in {"SET_FREQUENCY", "SET_VOLTAGE", "SET_OPP_DONE"}
    BY <1>4, <2>1 DEF Unfinished, Over, Operations
  <2>3. TypeOK'
    BY <1>1, <2>1, <2>2, OppFacts DEF TypeOK, HwType, Operations
  <2>4. Control'
    BY <1>4, <2>1, <2>2 DEF Unfinished, Control, Operations, Devices
  <2>5. Requests'
    BY <2>1, <2>2 DEF Inv, Requests, Setting
  <2>6. Hardware'
    BY <1>1, <1>4, <2>1 DEF Hardware, VoltageSafe, Unfinished
  <2>7. Truth'
    BY <1>1, <1>4, <2>1, <2>2 DEF Truth, Unfinished
  <2>8. Wanted'
    BY <1>1, <2>1, <2>2 DEF Inv, Wanted, Setting, Operations
  <2> QED
    BY <2>3, <2>4, <2>5, <2>6, <2>7, <2>8 DEF Inv
<1> QED
  BY <1>3, <1>4 DEF Outcome

(* What an operation that succeeds does to the hardware. *)
LEMMA AfterFacts ==
    ASSUME NEW h \in HwType, request.new_opp \in Opps, NEW d \in Operations
    PROVE  /\ After(h, d) \in HwType
           /\ d = "psu_set" => /\ After(h, d).v = Voltage[request.new_opp]
                               /\ After(h, d).f = h.f
           /\ d = "clk_set" => /\ After(h, d).f = request.new_opp
                               /\ After(h, d).v = h.v
  BY OppFacts DEF After, HwType, Operations

(* The second operation of a request on hardware h. *)
LEMMA LastStepOutcome ==
    ASSUME NEW h \in HwType, request.new_opp \in Opps, NEW d \in Operations,
           current_opp \in 0..MaxLevel,
           Supports(h.v, h.f), Between(current_opp, h),
           IF d = "clk_set" THEN h.v = Voltage[request.new_opp]
           ELSE h.f = request.new_opp /\ Voltage[request.new_opp] <= h.v,
           NEW o \in LastStep(h, d)
    PROVE  Outcome(o)
<1>. DEFINE new == request.new_opp
            end == After(h, d)
<1>1. new \in Opps /\ Voltage[new] \in Nat /\ new # 0
  BY OppFacts
<1>2. end \in HwType /\ end.v = Voltage[new] /\ end.f = new
  <2>1. CASE d = "clk_set"
    BY <2>1, AfterFacts
  <2>2. CASE d = "psu_set"
    BY <2>2, AfterFacts
  <2> QED
    BY <2>1, <2>2 DEF Operations
<1>. HIDE DEF end
<1>3. CASE o = [hw |-> h, status |-> "pending", wait |-> d,
                state |-> "SET_OPP_DONE"]
  <2>1. Unfinished(o)
    BY <1>3 DEF Unfinished, Operations
  <2> QED
    BY <1>3, <2>1 DEF Outcome
<1>4. CASE o = [hw |-> h, status |-> "half", wait |-> "nothing",
                state |-> state]
  <2>1. Over(o)
    BY <1>4 DEF Over
  <2> QED
    BY <1>4, <2>1 DEF Outcome
<1>5. CASE o = [hw |-> end, status |-> "ok", wait |-> "nothing",
                state |-> state]
  <2>1. Between(new, end) /\ Has(end, new) /\ Supports(end.v, end.f)
    BY <1>1, <1>2 DEF Between, Has, Supports
  <2>2. Over(o)
    BY <1>5, <2>1 DEF Over
  <2> QED
    BY <1>2, <1>5, <2>1, <2>2 DEF Outcome
<1> QED
  BY <1>3, <1>4, <1>5 DEF LastStep, end

(* A higher voltage supports what a lower one does. *)
LEMMA SupportsMore ==
    ASSUME NEW f \in 0..MaxLevel, NEW v \in Int, NEW w \in Int, v <= w,
           Supports(v, f)
    PROVE  Supports(w, f)
<1>1. f # 0 => Voltage[f] \in Int
  BY OppFacts
<1> QED
  BY <1>1 DEF Supports

(* dvfs_handle_set_opp, ordered by the voltage on record, or by the one    *)
(* the supply has when nothing is on record.                               *)
LEMMA SetOppOutcome ==
    ASSUME Inv, state = "SET_OPP", NEW voltage,
           voltage = IF current_opp = 0 THEN hw.v ELSE Voltage[current_opp],
           NEW o \in HandleSetOpp(voltage)
    PROVE  Outcome(o)
<1>. DEFINE new == request.new_opp
<1>1. /\ hw \in HwType /\ hw.v \in Nat /\ new \in Opps /\ Voltage[new] \in Nat
      /\ current_opp \in 0..MaxLevel /\ voltage \in Nat
      /\ Supports(hw.v, hw.f) /\ Between(current_opp, hw)
      /\ Supports(voltage, hw.f) /\ voltage <= hw.v
      /\ current_opp # 0 => voltage = Voltage[current_opp]
      /\ hw.f \in 0..MaxLevel
  <2>1. /\ hw \in HwType /\ hw.v \in Nat /\ current_opp \in 0..MaxLevel
        /\ hw.f \in 0..MaxLevel /\ new \in Opps
    BY DEF Inv, TypeOK, HwType, Requests, Setting
  <2>2. Supports(hw.v, hw.f) /\ Between(current_opp, hw)
    BY DEF Inv, Hardware, VoltageSafe
  <2>3. current_opp # 0 => Voltage[current_opp] \in Nat
    BY <2>1, OppFacts
  <2>4. Voltage[new] \in Nat
    BY <2>1, OppFacts
  <2> QED
    BY <2>1, <2>2, <2>3, <2>4 DEF Between
<1>2. VoltagesDiffer /\ ~stale /\ current_opp # 0 => Has(hw, current_opp)
  BY DEF Inv, Control, Truth, Operations
<1>3. CASE o = [hw |-> hw, status |-> "fail", wait |-> "nothing",
                state |-> state]
  <2>1. Over(o)
    BY <1>1, <1>2, <1>3 DEF Over
  <2> QED
    BY <1>1, <1>3, <2>1 DEF Outcome
<1>4. CASE Voltage[new] > voltage
  <2>. DEFINE h == After(hw, "psu_set")
  <2>1. h \in HwType /\ h.v = Voltage[new] /\ h.f = hw.f
    BY <1>1, AfterFacts DEF Operations
  <2>. HIDE DEF h
  <2>2. Supports(h.v, h.f) /\ Between(current_opp, h)
    BY <1>1, <1>4, <2>1, SupportsMore DEF Between
  <2>3. CASE o \in LastStep(h, "clk_set")
    BY <1>1, <2>1, <2>2, <2>3, LastStepOutcome DEF Operations
  <2>4. CASE o = [hw |-> hw, status |-> "pending", wait |-> "psu_set",
                  state |-> "SET_FREQUENCY"]
    <3>1. Supports(Voltage[new], hw.f)
            /\ (current_opp # 0 => Voltage[current_opp] <= Voltage[new])
      BY <1>1, <1>4, SupportsMore
    <3>2. Unfinished(o)
      BY <1>1, <1>2, <2>4, <3>1 DEF Unfinished
    <3> QED
      BY <1>1, <2>4, <3>2 DEF Outcome
  <2>5. o \in TwoSteps("psu_set", "SET_FREQUENCY", "clk_set")
    BY <1>1, <1>4 DEF HandleSetOpp
  <2> QED
    BY <1>3, <2>3, <2>4, <2>5 DEF TwoSteps, h
<1>5. CASE Voltage[new] < voltage
  <2>. DEFINE h == After(hw, "clk_set")
  <2>1. h \in HwType /\ h.v = hw.v /\ h.f = new
    BY <1>1, AfterFacts DEF Operations
  <2>. HIDE DEF h
  <2>2. Supports(h.v, h.f) /\ Between(current_opp, h) /\ Voltage[new] <= h.v
    BY <1>1, <1>5, <2>1, OppFacts DEF Supports, Between
  <2>3. CASE o \in LastStep(h, "psu_set")
    BY <1>1, <2>1, <2>2, <2>3, LastStepOutcome DEF Operations
  <2>4. CASE o = [hw |-> hw, status |-> "pending", wait |-> "clk_set",
                  state |-> "SET_VOLTAGE"]
    <3>1. Voltage[new] <= hw.v
            /\ (current_opp # 0 => Voltage[new] <= Voltage[current_opp])
      BY <1>1, <1>5
    <3>2. Unfinished(o)
      BY <1>1, <1>2, <2>4, <3>1 DEF Unfinished
    <3> QED
      BY <1>1, <2>4, <3>2 DEF Outcome
  <2>5. o \in TwoSteps("clk_set", "SET_VOLTAGE", "psu_set")
    BY <1>1, <1>5 DEF HandleSetOpp
  <2> QED
    BY <1>3, <2>3, <2>4, <2>5 DEF TwoSteps, h
<1>6. CASE Voltage[new] = voltage /\ current_opp = 0
  <2>1. o \in LastStep(hw, "clk_set")
    BY <1>1, <1>6 DEF HandleSetOpp
  <2> QED
    BY <1>1, <1>6, <2>1, LastStepOutcome DEF Operations
<1>7. CASE Voltage[new] = voltage /\ current_opp # 0
  <2>1. o = [hw |-> hw, status |-> "ok", wait |-> "nothing", state |-> state]
    BY <1>1, <1>7 DEF HandleSetOpp
  <2>2. Between(new, hw)
    BY <1>1, <1>7 DEF Between
  <2>3. VoltagesDiffer => new = current_opp
    BY <1>1, <1>7, OppFacts DEF VoltagesDiffer
  <2>4. Over(o)
    BY <1>2, <1>7, <2>1, <2>2, <2>3 DEF Over
  <2> QED
    BY <1>1, <2>1, <2>4 DEF Outcome
<1> QED
  BY <1>1, <1>4, <1>5, <1>6, <1>7
-----------------------------------------------------------------------------
(* The domain is at rest before dvfs_start. *)
LEMMA InitInv == Init => Inv
<1>. SUFFICES ASSUME Init PROVE Inv
  OBVIOUS
<1>1. TypeOK
  <2>1. /\ current_opp \in 0..MaxLevel /\ reported \in 0..MaxLevel
        /\ calls \in 0..MaxCalls /\ attempts \in 0..(MaxRetries + 1)
    <3>1. MaxRetries + 1 \in Nat /\ MaxCalls \in Nat /\ MaxLevel \in Nat
      BY DvfsAssumption
    <3> QED
      BY <3>1 DEF Init
  <2>2. /\ request \in Request /\ pending_request \in Request
        /\ request.num_retries <= MaxRetries + 1
    BY NoRequestFacts, DvfsAssumption DEF Init
  <2>3. last \in [level : Opps, dropped : BOOLEAN]
    BY DvfsAssumption DEF Init
  <2>4. /\ timer \in BOOLEAN /\ request_pending \in BOOLEAN
        /\ stale \in BOOLEAN /\ failed \in BOOLEAN
    BY DvfsAssumption DEF Init
  <2>5. hw \in [v : Nat, f : 0..MaxLevel]
    BY DvfsAssumption DEF Init
  <2> QED
    BY <2>1, <2>2, <2>3, <2>4, <2>5 DEF Init, TypeOK
<1>2. Control
  BY DEF Init, Control
<1>3. Requests
  BY NoRequestFacts, DvfsAssumption DEF Init, Requests, Setting
<1>4. Hardware
  BY DEF Init, Hardware, VoltageSafe, Between
<1>5. Truth
  BY DEF Init, Truth
<1>6. Wanted
  BY DEF Init, Wanted
<1> QED
  BY <1>1, <1>2, <1>3, <1>4, <1>5, <1>6 DEF Inv

(* A request that begins leaves hardware and record as they are. *)
LEMMA BeginKeeps ==
    ASSUME Inv, UNCHANGED <<hw, current_opp, reported, stale>>,
           state \notin {"SET_FREQUENCY", "SET_VOLTAGE", "SET_OPP_DONE"},
           state' \in {"IDLE", "GET_OPP", "SET_OPP", "RETRY"},
           next' \notin Operations
    PROVE  Hardware' /\ Truth'
<1>1. Supports(hw.v, hw.f) /\ Between(current_opp, hw)
  BY DEF Inv, Hardware, VoltageSafe
<1>2. Hardware'
  BY <1>1, AtRest
<1>3. next \notin Operations
  BY DEF Inv, Control, Operations
<1> QED
  BY <1>2, <1>3 DEF Inv, Truth

(* dvfs_start *)
LEMMA StartStep == Inv /\ Start => Inv'
<1>. SUFFICES ASSUME Inv, Start PROVE Inv'
  OBVIOUS
<1>1. /\ TypeOK /\ next = "start" /\ state = "IDLE" /\ response = "none"
      /\ request_pending = FALSE /\ pending_request = NoRequest
      /\ request.new_opp = 0 /\ last.level = Sustained
      /\ UNCHANGED <<timer, hw, current_opp, request_pending, response, last,
                     reported, stale, failed, attempts, calls>>
  BY NoRequestFacts DEF Inv, TypeOK, Control, Requests, Wanted, Start, Devices,
                        Operations
<1>2. SetLevelStart(Sustained, TRUE, 0, request.new_opp, NoRequest)
  BY <1>1 DEF Start
<1>3. /\ request' \in Request /\ pending_request' \in Request
      /\ request'.num_retries <= MaxRetries /\ Control' /\ Requests'
      /\ state' = "SET_OPP" /\ next' \in {"set", "lost"}
      /\ request'.new_opp = Sustained
  <2>1. Sustained \in Opps /\ Sustained # 0 /\ 0 \in Nat /\ 0 <= MaxRetries
    BY DvfsAssumption, OppFacts
  <2>2. TRUE \in BOOLEAN
    OBVIOUS
  <2>3. request_pending' = FALSE /\ response' = "none"
    BY <1>1
  <2>4. /\ request' \in Request /\ pending_request' \in Request
        /\ request'.num_retries <= MaxRetries /\ Control' /\ Requests'
        /\ \/ state' = "IDLE" /\ next' = "nothing"
              /\ Sustained = request.new_opp
           \/ /\ state' = "SET_OPP" /\ next' \in {"set", "lost"}
              /\ request'.new_opp = Sustained
    BY <1>2, <2>1, <2>2, <2>3, StartRequest
  <2> QED
    BY <1>1, <2>1, <2>4
<1>4. TypeOK'
  <2>1. request'.num_retries <= MaxRetries + 1
    BY <1>3, DvfsAssumption DEF Request
  <2> QED
    BY <1>1, <1>3, <2>1 DEF TypeOK
<1>5. Hardware' /\ Truth'
  BY <1>1, <1>3, BeginKeeps DEF Operations
<1>6. Wanted'
  BY <1>1, <1>3 DEF Inv, Wanted
<1> QED
  BY <1>3, <1>4, <1>5, <1>6 DEF Inv

(* dvfs_set_level: pending while the domain is busy. *)
LEMMA SetLevelStep == ASSUME NEW l \in Opps PROVE Inv /\ SetLevel(l) => Inv'
<1>. SUFFICES ASSUME Inv, SetLevel(l) PROVE Inv'
  OBVIOUS
<1>1. /\ TypeOK /\ next # "start"
      /\ last' = [level |-> l, dropped |-> /\ state # "IDLE"
                                           /\ ~request_pending
                                           /\ l = current_opp]
      /\ UNCHANGED <<timer, hw, current_opp, response, reported, stale, failed,
                     attempts>>
  BY DEF Inv, SetLevel, Call
<1>2. /\ calls' \in 0..MaxCalls
      /\ last' \in [level : Opps, dropped : BOOLEAN] /\ last'.level = l
      /\ last'.dropped <=> /\ state # "IDLE" /\ ~request_pending
                           /\ l = current_opp
  <2>1. calls' \in 0..MaxCalls
    BY <1>1, DvfsAssumption DEF TypeOK, SetLevel, Call
  <2> QED
    BY <1>1, <2>1
<1>3. CASE state # "IDLE"
  <2>1. CreatePendingLevelRequest(l) /\ UNCHANGED <<request, state, next>>
    BY <1>3 DEF SetLevel
  <2>2. /\ pending_request' \in Request /\ request_pending' \in BOOLEAN
        /\ pending_request'.num_retries = pending_request.num_retries
        /\ \/ request_pending' = TRUE /\ pending_request'.new_opp = l
           \/ /\ UNCHANGED <<request_pending, pending_request>>
              /\ ~request_pending /\ l = current_opp
    BY <1>1, <2>1, OppFacts DEF CreatePendingLevelRequest, TypeOK, Request
  <2>3. TypeOK'
    BY <1>1, <1>2, <2>1, <2>2 DEF TypeOK
  <2>4. Control' /\ Hardware' /\ Truth'
    BY <1>1, <2>1 DEF Inv, Control, Hardware, VoltageSafe, Truth
  <2>5. Requests'
    BY <1>1, <1>3, <2>1, <2>2 DEF Inv, Requests
  <2>6. Wanted'
    BY <1>1, <1>2, <1>3, <2>1, <2>2 DEF Inv, Wanted
  <2> QED
    BY <2>3, <2>4, <2>5, <2>6 DEF Inv
<1>4. CASE state = "IDLE" /\ l = current_opp
  <2>1. UNCHANGED <<request, state, next, pending_request, request_pending>>
    BY <1>4 DEF SetLevel
  <2>2. TypeOK'
    BY <1>1, <1>2, <2>1 DEF TypeOK
  <2>3. Control' /\ Hardware' /\ Truth' /\ Requests'
    BY <1>1, <2>1 DEF Inv, Control, Hardware, VoltageSafe, Truth, Requests
  <2>4. Wanted'
    BY <1>1, <1>2, <1>4, <2>1, OppFacts DEF Inv, Wanted
  <2> QED
    BY <2>2, <2>3, <2>4 DEF Inv
<1>5. CASE state = "IDLE" /\ l # current_opp
  <2>1. /\ SetLevelStart(l, FALSE, 0, request.new_opp, pending_request)
        /\ UNCHANGED request_pending
    BY <1>5 DEF SetLevel
  <2>2. /\ pending_request = NoRequest /\ request.new_opp = 0 /\ l # 0
        /\ request_pending' = FALSE /\ response' = "none"
    BY <1>1, <1>5, <2>1, NoRequestFacts, OppFacts
       DEF Inv, TypeOK, Requests, Control, Devices, Operations
  <2>3. 0 \in Nat /\ 0 <= MaxRetries
    BY DvfsAssumption
  <2>4. FALSE \in BOOLEAN
    OBVIOUS
  <2>5. /\ request' \in Request /\ pending_request' \in Request
        /\ request'.num_retries <= MaxRetries /\ Control' /\ Requests'
        /\ \/ state' = "IDLE" /\ next' = "nothing" /\ l = request.new_opp
           \/ /\ state' = "SET_OPP" /\ next' \in {"set", "lost"}
              /\ request'.new_opp = l
    BY <2>1, <2>2, <2>3, <2>4, StartRequest
  <2>6. TypeOK'
    <3>1. request'.num_retries <= MaxRetries + 1
      BY <2>5, DvfsAssumption DEF Request
    <3> QED
      BY <1>1, <1>2, <2>1, <2>5, <3>1 DEF TypeOK
  <2>7. Hardware' /\ Truth'
    BY <1>1, <1>5, <2>5, BeginKeeps DEF Operations
  <2>8. Wanted'
    BY <1>1, <1>5, <2>2, <2>5, <1>2 DEF Inv, Wanted
  <2> QED
    BY <2>5, <2>6, <2>7, <2>8 DEF Inv
<1> QED
  BY <1>3, <1>4, <1>5

(* dvfs_get_current_opp: only after a request that failed is there nothing *)
(* on record.                                                              *)
LEMMA GetCurrentOppStep == Inv /\ GetCurrentOpp => Inv'
<1>. SUFFICES ASSUME Inv, GetCurrentOpp PROVE Inv'
  OBVIOUS
<1>1. /\ TypeOK /\ next # "start" /\ current_opp = 0 /\ state = "IDLE"
      /\ request' = [request EXCEPT !.response_required = TRUE]
      /\ state' = "GET_OPP" /\ next' \in {"get", "lost"} /\ failed
      /\ request = NoRequest /\ pending_request = NoRequest
      /\ ~request_pending /\ response = "none"
      /\ UNCHANGED <<timer, hw, current_opp, pending_request, request_pending,
                     response, last, reported, stale, failed, attempts>>
  BY DEF Inv, TypeOK, GetCurrentOpp, Call, PutEvent, Wanted, Requests, Control,
         Devices, Operations
<1>2. /\ request' \in Request /\ request'.num_retries = 0
      /\ request'.response_required
  BY <1>1, NoRequestFacts DEF Request, NoRequest
<1>3. TypeOK'
  <2>1. calls' \in 0..MaxCalls /\ request'.num_retries <= MaxRetries + 1
    BY <1>1, <1>2, DvfsAssumption DEF TypeOK, GetCurrentOpp, Call
  <2> QED
    BY <1>1, <1>2, <2>1 DEF TypeOK
<1>4. Control'
  BY <1>1 DEF Control
<1>5. Requests'
  BY <1>1, <1>2, NoRequestFacts, DvfsAssumption DEF Requests, Setting
<1>6. Hardware' /\ Truth'
  BY <1>1, BeginKeeps DEF Operations
<1>7. Wanted'
  BY <1>1 DEF Wanted
<1> QED
  BY <1>3, <1>4, <1>5, <1>6, <1>7 DEF Inv

(* A request that ends without another operation: done, failed, or failed  *)
(* after its first operation.                                              *)
LEMMA FinishWithStep ==
    ASSUME Inv, NEW s \in {"ok", "fail", "half"}, FinishWith(s), next # "lost",
           state \in Setting \cup {"GET_OPP"},
           s = "ok" <=> state = "SET_OPP_DONE" /\ response = "ok",
           s = "fail" => state # "SET_OPP_DONE" /\ response # "ok",
           response' = "none", attempts' \in 0..(MaxRetries + 1)
    PROVE  Inv'
<1>. DEFINE o == [hw |-> hw, status |-> s, wait |-> "nothing",
                  state |-> state]
<1>1. o.hw = hw /\ o.status = s
  OBVIOUS
<1>2. Finish(o)
  BY DEF FinishWith
<1>. HIDE DEF o
<1>3. hw \in HwType /\ Supports(hw.v, hw.f)
  BY DEF Inv, TypeOK, HwType, Hardware, VoltageSafe
<1>4. Between(IF s = "ok" THEN request.new_opp ELSE current_opp, hw)
  <2>1. CASE s = "ok"
    <3>1. request.new_opp \in Opps /\ Has(hw, request.new_opp)
      BY <2>1 DEF Inv, Requests, Hardware, Has, Setting
    <3>2. Voltage[request.new_opp] \in Nat
      BY <3>1, OppFacts
    <3>3. Between(request.new_opp, hw)
      BY <3>1, <3>2 DEF Between, Has, Supports
    <3> QED
      BY <2>1, <3>3
  <2>2. CASE s # "ok"
    BY <2>2 DEF Inv, Hardware
  <2> QED
    BY <2>1, <2>2
<1>5. s = "ok" => Has(hw, request.new_opp)
  BY DEF Inv, Hardware, Has
<1>6. VoltagesDiffer /\ ~stale /\ s = "fail" =>
          (current_opp # 0 => Has(hw, current_opp))
  BY DEF Inv, Truth
<1>7. Over(o)
  BY <1>1, <1>4, <1>5, <1>6 DEF Over
<1>8. Outcome(o) /\ (o.status = "ok" => state \in Setting)
  BY <1>1, <1>3, <1>7 DEF Outcome, Setting
<1> QED
  BY <1>2, <1>7, <1>8, FinishStep

(* dvfs_handle_psu_get_voltage_resp for GET_OPP: what is recorded encloses *)
(* the hardware, since the clock is within what the supply supports.       *)
LEMMA RecordVoltageStep ==
    ASSUME Inv, state = "GET_OPP", next \in {"get", "psu_get"},
           RecordVoltage, response' = "none", UNCHANGED attempts
    PROVE  Inv'
<1>. DEFINE found == {x \in Opps : Voltage[x] = hw.v}
            opp   == IF found = {} THEN current_opp
                     ELSE CHOOSE x \in found : \A y \in found : x <= y
            ok    == found # {}
<1>1. /\ TypeOK /\ Complete(ok, opp) /\ stale' = TRUE
      /\ UNCHANGED <<timer, hw, last, calls>>
  BY DEF Inv, RecordVoltage
<1>2. /\ Supports(hw.v, hw.f) /\ Between(current_opp, hw) /\ failed
      /\ hw \in HwType
  BY DEF Inv, Hardware, VoltageSafe, Wanted, TypeOK, HwType
<1>3. ok => opp \in Opps /\ Voltage[opp] = hw.v
  <2>1. found \subseteq Nat
    BY DvfsAssumption DEF Opps
  <2>2. found # {} => \E x \in found : \A y \in found : x <= y
    BY <2>1, LeastNatural
  <2> QED
    BY <2>2
<1>4. opp \in 0..MaxLevel /\ ok \in BOOLEAN
  BY <1>1, <1>3, OppFacts DEF TypeOK
<1>5. Between(opp, hw)
  BY <1>2, <1>3, OppFacts DEF Between, HwType
<1>. HIDE DEF opp, ok, found
<1>6. /\ current_opp' = opp
      /\ request' \in Request /\ pending_request' \in Request
      /\ request'.num_retries <= MaxRetries + 1
      /\ request_pending' \in BOOLEAN
      /\ Rests' /\ state' \in States
      /\ next' \in {"nothing", "set", "lost", "alarm"}
      /\ Control' /\ Requests' /\ Wanted'
  BY <1>1, <1>4, CompleteStep DEF Inv, Setting
<1>7. reported' = reported /\ reported = 0 /\ failed' = (failed \/ ~ok)
  <2>1. reported' = reported /\ failed' = (failed \/ ~ok)
    BY <1>1 DEF Complete
  <2> QED
    BY <2>1 DEF Inv, Control, Truth
<1>8. TypeOK'
  <2>1. failed' \in BOOLEAN
    BY <1>1, <1>4, <1>7 DEF TypeOK
  <2> QED
    BY <1>1, <1>4, <1>6, <1>7, <2>1, OppFacts DEF TypeOK, States
<1>9. Hardware'
  BY <1>1, <1>2, <1>5, <1>6, AtRest DEF Rests
<1>10. Truth'
  BY <1>1, <1>7 DEF Truth
<1> QED
  BY <1>6, <1>8, <1>9, <1>10 DEF Inv

(* The supply has answered with its voltage. *)
LEMMA GotVoltageStep ==
    ASSUME Inv, GotVoltage, response' = "none",
           next \in {"get", "set", "psu_get"}, current_opp = 0,
           attempts' \in 0..(MaxRetries + 1),
           state = "GET_OPP" => UNCHANGED attempts
    PROVE  Inv'
<1>1. state \in {"GET_OPP", "SET_OPP"}
  BY DEF Inv, Control
<1>2. CASE state = "SET_OPP"
  <2>1. PICK o \in HandleSetOpp(hw.v) : Finish(o)
    BY <1>2 DEF GotVoltage
  <2>2. Outcome(o)
    BY <1>2, SetOppOutcome
  <2> QED
    BY <1>2, <2>1, <2>2, FinishStep DEF Setting
<1>3. CASE state = "GET_OPP"
  <2>1. RecordVoltage /\ next \in {"get", "psu_get"}
    BY <1>3 DEF GotVoltage, Inv, Control
  <2> QED
    BY <1>3, <2>1, RecordVoltageStep
<1> QED
  BY <1>1, <1>2, <1>3

(* The supply is asked for its voltage. *)
LEMMA GetVoltageStep ==
    ASSUME Inv, GetVoltage, response' = response, next \in {"get", "set"},
           current_opp = 0, attempts' \in 0..(MaxRetries + 1),
           state = "GET_OPP" => UNCHANGED attempts
    PROVE  Inv'
<1>1. /\ TypeOK /\ state \in {"GET_OPP", "SET_OPP"} /\ response = "none"
  BY DEF Inv, Control, TypeOK, Devices, Operations
<1>2. CASE /\ next' = "psu_get"
           /\ UNCHANGED <<timer, hw, domain, last, reported, stale, failed,
                          calls>>
  <2>1. TypeOK'
    BY <1>1, <1>2 DEF domain, TypeOK
  <2>2. Control' /\ Requests' /\ Wanted'
    BY <1>1, <1>2 DEF domain, Inv, Control, Requests, Wanted, Devices
  <2>3. Hardware' /\ Truth'
    BY <1>1, <1>2, BeginKeeps DEF domain, Operations
  <2> QED
    BY <2>1, <2>2, <2>3 DEF Inv
<1>3. CASE FinishWith("fail")
  BY <1>1, <1>3, FinishWithStep DEF Setting
<1>4. CASE GotVoltage
  BY <1>1, <1>4, GotVoltageStep
<1> QED
  BY <1>2, <1>3, <1>4 DEF GetVoltage

(* The event of dvfs_get_current_opp. *)
LEMMA EventGetOppStep == Inv /\ EventGetOpp => Inv'
<1>. SUFFICES ASSUME Inv, EventGetOpp PROVE Inv'
  OBVIOUS
<1>1. /\ next = "get" /\ GetVoltage /\ UNCHANGED <<response, attempts>>
      /\ current_opp = 0 /\ attempts' \in 0..(MaxRetries + 1)
  BY DEF EventGetOpp, Inv, Control, TypeOK
<1> QED
  BY <1>1, GetVoltageStep

(* The event of a request. *)
LEMMA EventSetStep == Inv /\ EventSet => Inv'
<1>. SUFFICES ASSUME Inv, EventSet PROVE Inv'
  OBVIOUS
<1>1. /\ TypeOK /\ next = "set" /\ response' = response
      /\ state = "SET_OPP" /\ response = "none"
  BY DEF EventSet, Inv, Control, TypeOK, Devices, Operations
<1>2. attempts' \in 0..(MaxRetries + 1)
  BY <1>1, DvfsAssumption DEF EventSet, TypeOK
<1>3. CASE current_opp # 0
  <2>1. PICK o \in HandleSetOpp(Voltage[current_opp]) : Finish(o)
    BY <1>3 DEF EventSet
  <2>2. Outcome(o)
    BY <1>1, <1>3, SetOppOutcome
  <2> QED
    BY <1>1, <1>2, <2>1, <2>2, FinishStep DEF Setting
<1>4. CASE current_opp = 0
  <2>1. GetVoltage
    BY <1>4 DEF EventSet
  <2> QED
    BY <1>1, <1>2, <1>4, <2>1, GetVoltageStep
<1> QED
  BY <1>3, <1>4

(* The pending request after the alarm. *)
LEMMA EventRetryStep == Inv /\ EventRetry => Inv'
<1>. SUFFICES ASSUME Inv, EventRetry PROVE Inv'
  OBVIOUS
<1>1. /\ TypeOK /\ next = "retry" /\ state = "RETRY" /\ response = "none"
      /\ request_pending /\ request_pending' = FALSE
      /\ SetLevelStart(pending_request.new_opp, pending_request.retry_request,
                       pending_request.num_retries, request.new_opp,
                       NoRequest)
      /\ UNCHANGED <<timer, hw, current_opp, response, last, reported, stale,
                     failed, attempts, calls>>
  BY DEF EventRetry, Inv, Control, Requests, TypeOK, Devices, Operations
<1>2. /\ pending_request.new_opp \in Opps
      /\ pending_request.retry_request \in BOOLEAN
      /\ pending_request.num_retries \in Nat
      /\ pending_request.num_retries <= MaxRetries
  BY <1>1 DEF Inv, TypeOK, Requests, Request
<1>3. /\ request' \in Request /\ pending_request' \in Request
      /\ request'.num_retries <= MaxRetries /\ Control' /\ Requests'
      /\ \/ /\ state' = "IDLE" /\ next' = "nothing"
            /\ pending_request.new_opp = request.new_opp
         \/ /\ state' = "SET_OPP" /\ next' \in {"set", "lost"}
            /\ request'.new_opp = pending_request.new_opp
  BY <1>1, <1>2, StartRequest
<1>4. TypeOK'
  <2>1. request'.num_retries <= MaxRetries + 1
    BY <1>3, DvfsAssumption DEF Request
  <2> QED
    BY <1>1, <1>3, <2>1 DEF TypeOK
<1>5. Hardware' /\ Truth'
  BY <1>1, <1>3, BeginKeeps DEF Operations
<1>6. Wanted'
  BY <1>1, <1>2, <1>3, OppFacts DEF Inv, Wanted
<1> QED
  BY <1>3, <1>4, <1>5, <1>6 DEF Inv

(* The response of get_voltage. *)
LEMMA EventGotVoltageStep == Inv /\ EventGotVoltage => Inv'
<1>. SUFFICES ASSUME Inv, EventGotVoltage PROVE Inv'
  OBVIOUS
<1>1. /\ TypeOK /\ next = "psu_get" /\ response' = "none" /\ current_opp = 0
      /\ state \in {"GET_OPP", "SET_OPP"} /\ UNCHANGED attempts
      /\ attempts' \in 0..(MaxRetries + 1)
  BY DEF EventGotVoltage, Inv, Control, TypeOK
<1>2. CASE response = "fail"
  <2>1. FinishWith("fail")
    BY <1>2 DEF EventGotVoltage
  <2> QED
    BY <1>1, <1>2, <2>1, FinishWithStep DEF Setting
<1>3. CASE response # "fail"
  <2>1. GotVoltage
    BY <1>3 DEF EventGotVoltage
  <2> QED
    BY <1>1, <2>1, GotVoltageStep
<1> QED
  BY <1>2, <1>3

(* The responses of set_voltage and set_rate: the operation was the second *)
(* one of its request, or the second one follows.                          *)
LEMMA OperationStep ==
    ASSUME Inv, EventVoltageSet \/ EventRateSet
    PROVE  Inv'
<1>1. /\ TypeOK /\ next \in Operations /\ next # "lost" /\ response' = "none"
      /\ attempts' \in 0..(MaxRetries + 1)
      /\ state \in {"SET_FREQUENCY", "SET_VOLTAGE", "SET_OPP_DONE"}
      /\ response \in {"ok", "fail"}
  BY DEF EventVoltageSet, EventRateSet, Inv, Control, TypeOK, Operations
<1>2. CASE response = "fail"
  <2>1. FinishWith(IF state = "SET_OPP_DONE" THEN "half" ELSE "fail")
    BY <1>2 DEF EventVoltageSet, EventRateSet
  <2>2. CASE state = "SET_OPP_DONE"
    BY <1>1, <1>2, <2>1, <2>2, FinishWithStep DEF Setting
  <2>3. CASE state # "SET_OPP_DONE"
    BY <1>1, <1>2, <2>1, <2>3, FinishWithStep DEF Setting
  <2> QED
    BY <2>2, <2>3
<1>3. CASE response = "ok" /\ state = "SET_OPP_DONE"
  <2>1. FinishWith("ok")
    BY <1>3 DEF EventVoltageSet, EventRateSet
  <2> QED
    BY <1>1, <1>3, <2>1, FinishWithStep DEF Setting
<1>4. CASE response = "ok" /\ state # "SET_OPP_DONE"
  <2>1. \E d \in Operations : \E o \in LastStep(hw, d) :
            /\ Finish(o)
            /\ d = "clk_set" => state = "SET_FREQUENCY"
            /\ d = "psu_set" => state = "SET_VOLTAGE"
    BY <1>4 DEF EventVoltageSet, EventRateSet, Operations
  <2>. PICK d \in Operations : \E o \in LastStep(hw, d) :
            /\ Finish(o)
            /\ d = "clk_set" => state = "SET_FREQUENCY"
            /\ d = "psu_set" => state = "SET_VOLTAGE"
    BY <2>1
  <2>. PICK o \in LastStep(hw, d) :
            /\ Finish(o)
            /\ d = "clk_set" => state = "SET_FREQUENCY"
            /\ d = "psu_set" => state = "SET_VOLTAGE"
    OBVIOUS
  <2>2. /\ hw \in HwType /\ request.new_opp \in Opps
        /\ current_opp \in 0..MaxLevel /\ Supports(hw.v, hw.f)
        /\ Between(current_opp, hw)
    BY <1>1, <1>4 DEF Inv, TypeOK, HwType, Requests, Setting, Hardware,
                      VoltageSafe
  <2>3. IF d = "clk_set" THEN hw.v = Voltage[request.new_opp]
        ELSE hw.f = request.new_opp /\ Voltage[request.new_opp] <= hw.v
    BY <1>1, <1>4 DEF Inv, Hardware, Operations
  <2>4. Outcome(o)
    BY <2>2, <2>3, LastStepOutcome
  <2> QED
    BY <1>1, <2>4, FinishStep DEF Setting
<1> QED
  BY <1>1, <1>2, <1>3, <1>4

(* A device ends what it was asked for. *)
LEMMA DeviceDoneStep ==
    ASSUME NEW s \in {"ok", "fail"} PROVE Inv /\ DeviceDone(s) => Inv'
<1>. SUFFICES ASSUME Inv, DeviceDone(s) PROVE Inv'
  OBVIOUS
<1>1. /\ TypeOK /\ next \in Devices /\ response = "none" /\ response' = s
      /\ UNCHANGED <<timer, domain, next, last, reported, stale, failed,
                     attempts, calls>>
  BY DEF DeviceDone, Inv, Devices, Operations
<1>2. Control' /\ Requests' /\ Wanted'
  BY <1>1 DEF Inv, Control, Requests, Wanted, domain
<1>3. CASE s = "fail" \/ next = "psu_get"
  <2>1. hw' = hw
    BY <1>3 DEF DeviceDone
  <2>2. TypeOK'
    BY <1>1, <2>1 DEF TypeOK, domain
  <2>3. Hardware'
    BY <1>1, <1>3, <2>1 DEF Inv, Hardware, VoltageSafe, domain, Control
  <2>4. Truth'
    BY <1>1, <1>3, <2>1 DEF Inv, Truth, domain, Operations
  <2> QED
    BY <1>2, <2>2, <2>3, <2>4 DEF Inv
<1>4. CASE s = "ok" /\ next \in Operations
  <2>1. hw' = After(hw, next)
    BY <1>4 DEF DeviceDone, Operations
  <2>2. request.new_opp \in Opps /\ hw \in HwType
    BY <1>4 DEF Inv, TypeOK, Control, Requests, Setting, Operations, HwType
  <2>3. /\ hw' \in HwType
        /\ next = "psu_set" => /\ hw'.v = Voltage[request.new_opp]
                               /\ hw'.f = hw.f
        /\ next = "clk_set" => /\ hw'.f = request.new_opp
                               /\ hw'.v = hw.v
    BY <1>4, <2>1, <2>2, AfterFacts
  <2>4. TypeOK'
    BY <1>1, <2>3 DEF TypeOK, domain, HwType
  <2>5. Voltage[request.new_opp] \in Nat /\ request.new_opp # 0
    BY <2>2, OppFacts
  <2>6. Hardware'
    <3>1. CASE state = "SET_FREQUENCY"
      BY <1>1, <1>4, <2>3, <2>5, <3>1 DEF Inv, Hardware, VoltageSafe, Between,
         domain, Control, Operations
    <3>2. CASE state = "SET_VOLTAGE"
      BY <1>1, <1>4, <2>3, <2>5, <3>2 DEF Inv, Hardware, VoltageSafe, Between,
         Supports, domain, Control, Operations
    <3>3. CASE state = "SET_OPP_DONE"
      BY <1>1, <1>4, <2>3, <2>5, <3>3 DEF Inv, Hardware, VoltageSafe, Supports,
         domain, Control, Operations
    <3> QED
      BY <1>4, <3>1, <3>2, <3>3 DEF Inv, Control, Operations
  <2>7. Truth'
    BY <1>1, <1>4 DEF Inv, Truth, domain
  <2> QED
    BY <1>2, <2>4, <2>6, <2>7 DEF Inv
<1> QED
  BY <1>1, <1>3, <1>4 DEF Devices

(* alarm_callback *)
LEMMA AlarmStep == Inv /\ AlarmCallback => Inv'
<1>. SUFFICES ASSUME Inv, AlarmCallback PROVE Inv'
  OBVIOUS
<1>1. /\ TypeOK /\ next = "alarm" /\ next' \in {"retry", "lost"}
      /\ state = "RETRY" /\ response = "none"
      /\ UNCHANGED <<timer, hw, domain, response, last, reported, stale,
                     failed, attempts, calls>>
  BY DEF AlarmCallback, Inv, Control, TypeOK, Devices, Operations
<1>2. TypeOK'
  BY <1>1 DEF TypeOK, domain
<1>3. Control' /\ Requests' /\ Wanted'
  BY <1>1 DEF Inv, Control, Requests, Wanted, domain
<1>4. Hardware' /\ Truth'
  BY <1>1, BeginKeeps DEF domain, Operations
<1> QED
  BY <1>2, <1>3, <1>4 DEF Inv

(* Inv is inductive. *)
LEMMA NextInv == Inv /\ [Next]_vars => Inv'
<1>. SUFFICES ASSUME Inv, [Next]_vars PROVE Inv'
  OBVIOUS
<1>1. CASE Handle
  BY <1>1, StartStep, EventGetOppStep, EventSetStep, EventRetryStep,
     EventGotVoltageStep, OperationStep DEF Handle
<1>2. CASE \E s \in {"ok", "fail"} : DeviceDone(s)
  BY <1>2, DeviceDoneStep
<1>3. CASE AlarmCallback
  BY <1>3, AlarmStep
<1>4. CASE \E l \in Opps : SetLevel(l)
  BY <1>4, SetLevelStep
<1>5. CASE GetCurrentOpp
  BY <1>5, GetCurrentOppStep
<1>6. CASE UNCHANGED vars
  BY <1>6 DEF vars, domain, Inv, TypeOK, Control, Requests, Hardware,
              VoltageSafe, Truth, Wanted
<1> QED
  BY <1>1, <1>2, <1>3, <1>4, <1>5, <1>6 DEF Next

(* For any table of operating points: the record lies between clock and    *)
(* supply, and the last level asked for is never lost (mod_dvfs.c).        *)
THEOREM Domain == Spec => []Inv
<1>1. Inv /\ [Next]_vars => Inv'
  BY NextInv
<1> QED
  BY <1>1, InitInv, PTL DEF Spec

(* The clock never runs faster than the supply's voltage supports, with    *)
(* devices that answer late or fail between the two operations, and        *)
(* requests that follow a failed one (dvfs_handle_set_opp); retries are    *)
(* bounded (dvfs_complete).                                                *)
THEOREM DomainSound == Spec => []Sound
<1>1. Inv => Sound
  BY DEF Inv, Sound, Hardware
<1> QED
  BY <1>1, Domain, PTL

(* The level notified as updated is the one the hardware has, on a table   *)
(* without two operating points of the same voltage (dvfs_complete).       *)
THEOREM Reports == ASSUME VoltagesDiffer PROVE Spec => []ReportTruthful
<1>1. Inv => ReportTruthful
  <2>. SUFFICES ASSUME Inv, reported # 0, ~stale
                PROVE  hw = [v |-> Voltage[reported], f |-> reported]
    BY DEF ReportTruthful
  <2>1. reported = current_opp /\ next \notin Operations
    BY DEF Inv, Truth
  <2>2. Has(hw, reported)
    BY <2>1 DEF Inv, Truth
  <2> QED
    BY <2>2 DEF Inv, TypeOK, Has
<1> QED
  BY <1>1, Domain, PTL

(* When nothing failed, a domain that comes to rest is at the last level   *)
(* asked for, unless that request was dropped                              *)
(* (dvfs_create_pending_level_request, dvfs_handle_pending_request).       *)
THEOREM LastWins == Spec => []LastRequestWins
<1>1. Inv => LastRequestWins
  BY DEF Inv, Wanted, LastRequestWins
<1> QED
  BY <1>1, Domain, PTL
=============================================================================
