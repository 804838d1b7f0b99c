-------------------------------- MODULE Dvfs --------------------------------
(***************************************************************************)
(* One DVFS domain: module/dvfs/src/mod_dvfs.c over a power supply and a   *)
(* clock whose operations complete in the call, complete later with a      *)
(* response event, or fail, and over the alarm that delays the next        *)
(* request.                                                                *)
(*                                                                         *)
(* All of it but alarm_callback runs in the main loop: an API call or an   *)
(* event handler is one step and cannot meet another.  dvfs_set_level has  *)
(* a branch for interrupt context, which names the source of the event it  *)
(* puts; no ISR of the repository calls it, and it is left out.  `next'    *)
(* says what the domain waits for, at most one thing at a time: an event   *)
(* in the queue, a device, a response, the alarm.  A handler that calls    *)
(* devices may go through several operations before one is pending:        *)
(* HandleSetOpp is the set of ways it can end.                             *)
(* An operating point is its level; level 0 is a context still zeroed.     *)
(***************************************************************************)
EXTENDS Integers

CONSTANTS
    MaxLevel,        \* the operating points are 1..MaxLevel
    Voltage,         \* the voltage of each
    Sustained,       \* the operating point of dvfs_start
    BootVoltages,    \* voltages the supply may have at boot
    Timers,          \* whether retry_us > 0: the values to consider
    MaxRetries,      \* DVFS_MAX_RETRIES
    MaxCalls,        \* calls of set_level and get_current_opp
    PutMayFail       \* whether fwk_put_event may find no free event, and
                     \* the alarm may fail to start

Opps == 1..MaxLevel

ASSUME DvfsAssumption ==
    /\ MaxLevel \in Nat \ {0} /\ Sustained \in Opps
    /\ Voltage \in [Opps -> Nat \ {0}]
    /\ \A i, j \in Opps : i < j => Voltage[i] <= Voltage[j]
    /\ BootVoltages \subseteq Nat \ {0}
    /\ Timers \subseteq BOOLEAN
    /\ MaxRetries \in Nat /\ MaxCalls \in Nat /\ PutMayFail \in BOOLEAN

VARIABLES
    timer,             \* config: retry_us > 0
    hw,                \* voltage v of the supply, frequency f of the clock
    current_opp, state,
    request, pending_request, request_pending,
    next,              \* what the domain waits for
    response,          \* the status in the response event
    last,              \* the last level asked for, and whether it was the
                       \* current one while another was being set
    reported,          \* the level last notified, 0 during a request
    stale,             \* the record may not be what the hardware has: a
                       \* request failed between its two operations, or
                       \* GET_OPP took the frequency from the table
    failed,            \* a request failed
    attempts,          \* how often the request of dvfs_start was begun
    calls

domain == <<current_opp, state, request, pending_request, request_pending>>
vars == <<timer, hw, domain, next, response, last, reported, stale, failed,
          attempts, calls>>

NoRequest == [new_opp |-> 0, response_required |-> FALSE,
              retry_request |-> FALSE, num_retries |-> 0]

Supports(v, f) == f = 0 \/ Voltage[f] <= v

Init ==
    /\ timer \in Timers
    /\ hw \in {h \in [v : BootVoltages, f : 0..MaxLevel] : Supports(h.v, h.f)}
    /\ current_opp = 0 /\ state = "IDLE"
    /\ request = NoRequest /\ pending_request = NoRequest
    /\ request_pending = FALSE
    /\ next = "start" /\ response = "none"
    /\ last = [level |-> Sustained, dropped |-> FALSE]
    /\ reported = 0 /\ stale = FALSE /\ failed = FALSE
    /\ attempts = 0 /\ calls = 0
-----------------------------------------------------------------------------
(* put_event_request: the state changes whether or not the event could be  *)
(* put; then the domain waits for an event that never comes.               *)
PutEvent(e, s) ==
    /\ state' = s
    /\ next' \in {e} \cup (IF PutMayFail THEN {"lost"} ELSE {})

(* dvfs_cleanup_request *)
CleanupRequest ==
    /\ request' = NoRequest /\ pending_request' = NoRequest
    /\ state' = "IDLE" /\ next' = "nothing"

(* dvfs_set_level_start.  old: the request in the context, which is the    *)
(* one that has just ended when a pending request follows it.  pend: what  *)
(* the caller leaves in pending_request.                                   *)
SetLevelStart(opp, retry, retries, old, pend) ==
    IF opp = old
      THEN CleanupRequest
      ELSE /\ request' = [new_opp |-> opp, response_required |-> FALSE,
                          retry_request |-> retry, num_retries |-> retries]
           /\ pending_request' = pend
           /\ PutEvent("set", "SET_OPP")

(* Mutant: the pending level is kept, a later one does not replace it. *)
CreatePendingOnce(l) ==
    IF request_pending \/ l = current_opp
      THEN UNCHANGED <<pending_request, request_pending>>
      ELSE /\ pending_request' = [pending_request EXCEPT !.new_opp = l]
           /\ request_pending' = TRUE

(* dvfs_create_pending_level_request, for a domain that is busy.  With     *)
(* nothing pending yet, a request for the recorded operating point is      *)
(* dropped, whatever is being set.                                         *)
CreatePendingLevelRequest(l) ==
    IF l = (IF request_pending THEN pending_request.new_opp ELSE current_opp)
      THEN UNCHANGED <<pending_request, request_pending>>
      ELSE /\ pending_request' = [pending_request EXCEPT !.new_opp = l]
           /\ request_pending' = TRUE

Call == next # "start" /\ calls < MaxCalls /\ calls' = calls + 1

(* dvfs_start *)
Start ==
    /\ next = "start"
    /\ SetLevelStart(Sustained, TRUE, 0, request.new_opp, pending_request)
    /\ UNCHANGED <<timer, hw, current_opp, request_pending, response, last,
                   reported, stale, failed, attempts, calls>>

(* dvfs_set_level, also the driver's set_performance_level. *)
SetLevel(l) ==
    /\ Call
    /\ last' = [level |-> l, dropped |-> /\ state # "IDLE"
                                         /\ ~request_pending
                                         /\ l = current_opp]
    /\ CASE state # "IDLE" -> /\ CreatePendingLevelRequest(l)
                              /\ UNCHANGED <<request, state, next>>
         [] state = "IDLE" /\ l = current_opp ->
                UNCHANGED <<request, state, next, pending_request,
                            request_pending>>
         [] OTHER -> /\ SetLevelStart(l, FALSE, 0, request.new_opp,
                                      pending_request)
                     /\ UNCHANGED request_pending
    /\ UNCHANGED <<timer, hw, current_opp, response, reported, stale, failed,
                   attempts>>

(* dvfs_get_current_opp when no operating point is recorded: FWK_E_BUSY    *)
(* unless the domain is idle, FWK_PENDING when the event is put.           *)
GetCurrentOpp ==
    /\ Call
    /\ current_opp = 0 /\ state = "IDLE"
    /\ request' = [request EXCEPT !.response_required = TRUE]
    /\ PutEvent("get", "GET_OPP")
    /\ UNCHANGED <<timer, hw, current_opp, pending_request, request_pending,
                   response, last, reported, stale, failed, attempts>>
-----------------------------------------------------------------------------
(* The end of a request. *)

(* dvfs_handle_pending_request with the request r that has ended and the   *)
(* pending request p: after the alarm, or by dvfs_flush_pending_request.   *)
(* When the alarm does not start the domain keeps its state and stays busy.*)
HandlePendingRequest(r, p) ==
    IF timer
      THEN /\ \/ state' = "RETRY" /\ next' = "alarm"
              \/ PutMayFail /\ state' = state /\ next' = "lost"
           /\ request' = r /\ pending_request' = p /\ request_pending' = TRUE
      ELSE /\ SetLevelStart(p.new_opp, p.retry_request, p.num_retries,
                            r.new_opp, NoRequest)
           /\ request_pending' = FALSE

(* Mutant: a pending request waits for the next call. *)
CompleteForgetsPending(ok, opp) ==
    /\ current_opp' = opp
    /\ reported' = IF state = "GET_OPP" THEN reported
                   ELSE IF ok THEN opp ELSE 0
    /\ failed' = (failed \/ ~ok)
    /\ IF request_pending
         THEN /\ state' = "SET_OPP_DONE" /\ next' = "nothing"
              /\ UNCHANGED <<request, pending_request, request_pending>>
         ELSE CleanupRequest /\ UNCHANGED request_pending

(* dvfs_complete: opp is recorded by now.  A request that failed and is to *)
(* be retried becomes the pending one, unless there is one already, which  *)
(* takes over its number of retries.  With a performance controller        *)
(* (BUILD_HAS_MOD_PERF_CONTROLLER) a new level is also put as an event;    *)
(* when that fails the function returns before it looks at what is pending.*)
Complete(ok, opp) ==
    LET retry == ~ok /\ request.retry_request /\ ~request.response_required
        r     == IF retry THEN [request EXCEPT !.num_retries = @ + 1]
                          ELSE request
        again == retry /\ request.num_retries < MaxRetries
        p     == IF again
                   THEN [pending_request EXCEPT
                            !.retry_request = TRUE,
                            !.num_retries = r.num_retries,
                            !.new_opp = IF request_pending THEN @
                                                           ELSE r.new_opp]
                   ELSE pending_request
    IN  /\ current_opp' = opp
        /\ reported' = IF state = "GET_OPP" THEN reported
                       ELSE IF ok THEN opp ELSE 0
        /\ failed' = (failed \/ ~ok)
        /\ \/ /\ request_pending \/ again
              /\ HandlePendingRequest(r, p)
           \/ /\ ~(request_pending \/ again)
              /\ CleanupRequest /\ UNCHANGED request_pending
           \/ /\ PutMayFail /\ ok /\ state # "GET_OPP"
              /\ next' = "lost"
              /\ UNCHANGED <<state, request, pending_request, request_pending>>

(* How the operations of a handler can end: with a device that answers     *)
(* later, with a failure (half: after another operation), or done.         *)
After(h, d) == IF d = "psu_set" THEN [h EXCEPT !.v = Voltage[request.new_opp]]
                                ELSE [h EXCEPT !.f = request.new_opp]

LastStep(h, d) ==
    {[hw |-> h, status |-> "pending", wait |-> d, state |-> "SET_OPP_DONE"],
     [hw |-> h, status |-> "half", wait |-> "nothing", state |-> state],
     [hw |-> After(h, d), status |-> "ok", wait |-> "nothing",
      state |-> state]}

TwoSteps(d, s, e) ==
    {[hw |-> hw, status |-> "pending", wait |-> d, state |-> s],
     [hw |-> hw, status |-> "fail", wait |-> "nothing", state |-> state]}
    \cup LastStep(After(hw, d), e)

(* Mutant: the frequency first in every case. *)
HandleSetOppFrequencyFirst(voltage) ==
    LET new == Voltage[request.new_opp]
    IN  IF new # voltage THEN TwoSteps("clk_set", "SET_VOLTAGE", "psu_set")
        ELSE LastStep(hw, "clk_set")

(* Mutant: on the way up the clock is forgotten. *)
HandleSetOppVoltageOnly(voltage) ==
    LET new == Voltage[request.new_opp]
    IN  IF new > voltage THEN LastStep(hw, "psu_set")
        ELSE TwoSteps("clk_set", "SET_VOLTAGE", "psu_set")

(* dvfs_handle_set_opp: up, the voltage first; down, the frequency first.  *)
(* Between two operating points with the same voltage only the first       *)
(* request ever sets the clock.                                            *)
HandleSetOpp(voltage) ==
    LET new == Voltage[request.new_opp]
    IN  CASE new > voltage -> TwoSteps("psu_set", "SET_FREQUENCY", "clk_set")
          [] new < voltage -> TwoSteps("clk_set", "SET_VOLTAGE", "psu_set")
          [] new = voltage /\ current_opp = 0 -> LastStep(hw, "clk_set")
          [] OTHER -> {[hw |-> hw, status |-> "ok", wait |-> "nothing",
                        state |-> state]}

Finish(o) ==
    /\ hw' = o.hw
    /\ stale' = (stale \/ o.status = "half")
    /\ IF o.status = "pending"
         THEN /\ state' = o.state /\ next' = o.wait
              /\ reported' = 0
              /\ UNCHANGED <<current_opp, request, pending_request,
                             request_pending, failed>>
         ELSE Complete(o.status = "ok",
                       IF o.status = "ok" THEN request.new_opp
                                          ELSE current_opp)
    /\ UNCHANGED <<timer, last, calls>>

(* A request that ends without another operation. *)
FinishWith(s) == Finish([hw |-> hw, status |-> s, wait |-> "nothing",
                         state |-> state])

(* dvfs_handle_psu_get_voltage_resp for GET_OPP: the operating point is    *)
(* looked up by voltage (get_opp_for_voltage, the first that has it), the  *)
(* clock is not asked.                                                     *)
RecordVoltage ==
    LET found == {o \in Opps : Voltage[o] = hw.v}
    IN  /\ Complete(found # {},
                    IF found = {} THEN current_opp
                    ELSE CHOOSE o \in found : \A p \in found : o <= p)
        /\ stale' = TRUE
        /\ UNCHANGED <<timer, hw, last, calls>>

(* get_voltage has answered, in the call or later. *)
GotVoltage == IF state = "SET_OPP"
                THEN \E o \in HandleSetOpp(hw.v) : Finish(o)
                ELSE RecordVoltage
-----------------------------------------------------------------------------
(* The events of mod_dvfs_process_event. *)

(* The supply is asked for the voltage: pending, failed, or done. *)
GetVoltage ==
    \/ /\ next' = "psu_get"
       /\ UNCHANGED <<timer, hw, domain, last, reported, stale, failed, calls>>
    \/ FinishWith("fail")
    \/ GotVoltage

EventGetOpp ==
    /\ next = "get"
    /\ GetVoltage
    /\ UNCHANGED <<response, attempts>>

EventSet ==
    /\ next = "set"
    /\ IF current_opp # 0
         THEN \E o \in HandleSetOpp(Voltage[current_opp]) : Finish(o)
         ELSE GetVoltage
    /\ attempts' = IF calls = 0 /\ attempts <= MaxRetries
                     THEN attempts + 1 ELSE attempts
    /\ UNCHANGED response

EventRetry ==
    /\ next = "retry"
    /\ SetLevelStart(pending_request.new_opp, pending_request.retry_request,
                     pending_request.num_retries, request.new_opp, NoRequest)
    /\ request_pending' = FALSE
    /\ UNCHANGED <<timer, hw, current_opp, response, last, reported, stale,
                   failed, attempts, calls>>

(* Response of get_voltage. *)
EventGotVoltage ==
    /\ next = "psu_get" /\ response # "none" /\ response' = "none"
    /\ IF response = "fail" THEN FinishWith("fail") ELSE GotVoltage
    /\ UNCHANGED attempts

(* dvfs_handle_psu_set_voltage_resp *)
EventVoltageSet ==
    /\ next = "psu_set" /\ response # "none" /\ response' = "none"
    /\ \/ /\ response = "fail"
          /\ FinishWith(IF state = "SET_OPP_DONE" THEN "half" ELSE "fail")
       \/ /\ response = "ok" /\ state = "SET_FREQUENCY"
          /\ \E o \in LastStep(hw, "clk_set") : Finish(o)
       \/ /\ response = "ok" /\ state = "SET_OPP_DONE"
          /\ FinishWith("ok")
    /\ UNCHANGED attempts

(* dvfs_handle_clk_set_freq_resp *)
EventRateSet ==
    /\ next = "clk_set" /\ response # "none" /\ response' = "none"
    /\ \/ /\ response = "fail"
          /\ FinishWith(IF state = "SET_OPP_DONE" THEN "half" ELSE "fail")
       \/ /\ response = "ok" /\ state = "SET_VOLTAGE"
          /\ \E o \in LastStep(hw, "psu_set") : Finish(o)
       \/ /\ response = "ok" /\ state = "SET_OPP_DONE"
          /\ FinishWith("ok")
    /\ UNCHANGED attempts

(* A device ends what it was asked for; what fails changes nothing. *)
DeviceDone(s) ==
    /\ next \in {"psu_get", "psu_set", "clk_set"} /\ response = "none"
    /\ response' = s
    /\ hw' = IF s = "ok" /\ next # "psu_get" THEN After(hw, next) ELSE hw
    /\ UNCHANGED <<timer, domain, next, last, reported, stale, failed,
                   attempts, calls>>

(* alarm_callback, in the interrupt of the timer: the event is lost when   *)
(* it cannot be put.                                                       *)
AlarmCallback ==
    /\ next = "alarm"
    /\ next' \in {"retry"} \cup (IF PutMayFail THEN {"lost"} ELSE {})
    /\ UNCHANGED <<timer, hw, domain, response, last, reported, stale, failed,
                   attempts, calls>>

Handle == \/ Start \/ EventGetOpp \/ EventSet \/ EventRetry
          \/ EventGotVoltage \/ EventVoltageSet \/ EventRateSet

Next ==
    \/ Handle
    \/ \E s \in {"ok", "fail"} : DeviceDone(s)
    \/ AlarmCallback
    \/ \E l \in Opps : SetLevel(l)
    \/ GetCurrentOpp

Spec == Init /\ [][Next]_vars

(* Events are handled, devices answer, the alarm triggers. *)
FairSpec ==
    /\ Spec
    /\ WF_vars(Handle) /\ WF_vars(\E s \in {"ok", "fail"} : DeviceDone(s))
    /\ WF_vars(AlarmCallback)
-----------------------------------------------------------------------------
Request == [new_opp : 0..MaxLevel, response_required : BOOLEAN,
            retry_request : BOOLEAN, num_retries : Nat]

(* The types; the retries of a request are bounded by DVFS_MAX_RETRIES. *)
TypeOK ==
    /\ timer \in BOOLEAN
    /\ hw \in [v : Nat, f : 0..MaxLevel]
    /\ current_opp \in 0..MaxLevel
    /\ state \in {"IDLE", "GET_OPP", "SET_OPP", "SET_VOLTAGE", "SET_FREQUENCY",
                  "SET_OPP_DONE", "RETRY"}
    /\ request \in Request /\ pending_request \in Request
    /\ request.num_retries <= MaxRetries + 1
    /\ request_pending \in BOOLEAN
    /\ next \in {"start", "nothing", "lost", "get", "set", "retry", "alarm",
                 "psu_get", "psu_set", "clk_set"}
    /\ response \in {"none", "ok", "fail"}
    /\ last \in [level : Opps, dropped : BOOLEAN]
    /\ reported \in 0..MaxLevel
    /\ stale \in BOOLEAN /\ failed \in BOOLEAN
    /\ attempts \in 0..(MaxRetries + 1) /\ calls \in 0..MaxCalls

(* The clock never runs faster than the supply's voltage supports, with    *)
(* devices that answer late, fail between the two operations, and requests *)
(* that follow a failed one on a record that no longer describes the       *)
(* hardware (dvfs_handle_set_opp orders the operations by current_opp).    *)
VoltageSafe == Supports(hw.v, hw.f)

(* Types, bounded retries and a clock within what the supply supports      *)
(* (mod_dvfs.c, struct mod_dvfs_domain_ctx and dvfs_handle_set_opp).       *)
Sound == TypeOK /\ VoltageSafe

(* The level notified as updated is the one the hardware has, once both    *)
(* operations of a request have ended (mod_dvfs.c, dvfs_complete), as long *)
(* as the record the operations are derived from was not stale.            *)
ReportTruthful ==
    reported # 0 /\ ~stale => hw = [v |-> Voltage[reported], f |-> reported]

(* When nothing failed, a domain that comes to rest is at the last level   *)
(* asked for (module_dvfs_architecture.md: "a single pending/queued        *)
(* request with the last level/limits values requested"), except that a    *)
(* request for the level the domain is leaving is dropped.                 *)
LastRequestWins ==
    state = "IDLE" /\ next # "start" /\ ~failed /\ ~last.dropped =>
        current_opp = last.level

(* A busy domain becomes idle again and its pending request is served;     *)
(* only an event that could not be put, or an alarm that was not started,  *)
(* leaves it busy for ever.                                                *)
Settles == state # "IDLE" ~> (state = "IDLE" \/ next = "lost")

(* No request is dropped: as LastRequestWins, without its exception        *)
(* (module_dvfs_architecture.md: a request "which cannot be initiated      *)
(* immediately" is queued "for later processing").                         *)
NoneDropped ==
    state = "IDLE" /\ next # "start" /\ ~failed => current_opp = last.level

(* A request of dvfs_start that fails is attempted again, up to            *)
(* DVFS_MAX_RETRIES times (module_dvfs_architecture.md: "If the maximum    *)
(* number of attempts for this request has not yet been tried go to (5)    *)
(* using the frequency from the _current_ request").                       *)
RetriesMade ==
    state = "IDLE" /\ next # "start" /\ calls = 0 =>
        current_opp = Sustained \/ attempts = MaxRetries + 1
=============================================================================
