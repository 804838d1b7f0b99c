--------------------------------- MODULE I2c ---------------------------------
(***************************************************************************)
(* One I2C device: the HAL of module/i2c/src/mod_i2c.c over the driver of  *)
(* module/dw_apb_i2c/src/mod_dw_apb_i2c.c, whose interrupt reports the end *)
(* of a transfer.                                                          *)
(*                                                                         *)
(* The HAL defers the answer of a request it cannot end at once: the       *)
(* framework parks the response, a copy of the request, in the device's    *)
(* list, which is at the same time the HAL's queue of work.  The head of   *)
(* the list is the request on the bus, and nothing else says whom a        *)
(* completed transfer belongs to.                                          *)
(*                                                                         *)
(* A handler and the parking of its response are one step: an interrupt in *)
(* between only adds to the ISR queue, which is read when the event queue  *)
(* is empty.  Requests are numbered in the order they are made.  The pool  *)
(* of events is shared by the whole firmware: with PoolMayEmpty an         *)
(* allocation may fail at any time, and `lost' records that one did.       *)
(***************************************************************************)
EXTENDS Integers, Sequences, FiniteSets, SequencesExt

CONSTANTS
    MaxRequests,     \* requests made of the device
    DriverReturns,   \* what a call of the driver may return
    PoolMayEmpty,    \* whether an event may find no free structure
    AbortsStop       \* whether the stop condition that follows an abort may
                     \* be detected before the interrupt is handled

Statuses == {"ok", "fail"}

ASSUME I2cAssumption ==
    /\ MaxRequests \in Nat \ {0}
    /\ DriverReturns \subseteq Statuses \cup {"pending"}
    /\ PoolMayEmpty \in BOOLEAN /\ AbortsStop \in BOOLEAN

Requests == 1..MaxRequests
Kinds == {"tx", "rx", "tx_rx"}

VARIABLES
    state, request,     \* of struct mod_i2c_dev_ctx
    event_queue, isr_event_queue,
    parked,             \* the device's delayed response list
    kind,               \* what each request made so far asks for
    answer,             \* the status its caller got
    dev,                \* the driver and the controller
    late,               \* the driver wrote to the buffer of a request
                        \* that had been answered
    misread,            \* the requests of which an aborted transfer was
                        \* taken for a completed one
    lost

vars == <<state, request, event_queue, isr_event_queue, parked, kind, answer,
          dev, late, misread, lost>>

Event(t, r, s) == [type |-> t, req |-> r, status |-> s]

Init ==
    /\ state = "IDLE" /\ request = 0
    /\ event_queue = <<>> /\ isr_event_queue = <<>> /\ parked = <<>>
    /\ kind = <<>> /\ answer = [r \in Requests |-> "none"]
    /\ dev = [op |-> "none", req |-> 0, reading |-> 0, ended |-> {}]
    /\ late = FALSE /\ misread = {} /\ lost = FALSE
-----------------------------------------------------------------------------
(* The driver.  reading is the request whose buffer the next successful    *)
(* interrupt fills, 0 unless read_on_going; ended holds the transfers that *)
(* are over, with the status the driver gave them.                         *)

Ended(d, r, op, s) == [d EXCEPT !.op = "none", !.req = 0,
                                !.ended = @ \cup {<<r, op, s>>}]

(* transmit_as_controller and receive_as_controller of the driver.  Bad    *)
(* parameters are refused before the driver's context is touched; a        *)
(* controller that cannot be enabled, after receive has set read_on_going  *)
(* and the buffer.  A busy bus cannot be enabled.                          *)
CallDriver(op, r, d) ==
    LET armed == IF op = "rx" THEN [d EXCEPT !.reading = r] ELSE d
    IN  {o \in {[ret |-> "pending",
                 dev |-> [armed EXCEPT !.op = op, !.req = r]],
                [ret |-> "ok",   dev |-> Ended(d, r, op, "ok")],
                [ret |-> "fail", dev |-> Ended(d, r, op, "fail")],
                [ret |-> "fail", dev |-> Ended(armed, r, op, "fail")]} :
           o.ret \in DriverReturns \cap
                       (IF d.op = "none" THEN {"ok", "fail", "pending"}
                                         ELSE {"fail"})}

(* i2c_isr: the transfer on the bus has stopped or was aborted.  It is a   *)
(* success whenever STOP_DET is set, TX_ABRT or not.                       *)
(* transaction_completed asserts that the event could be put, which a      *)
(* release build does not check.                                           *)
I2cIsr(s) ==
    /\ dev.op # "none"
    /\ dev' = [Ended(dev, dev.req, dev.op, s) EXCEPT
                  !.reading = IF s = "ok" THEN 0 ELSE @]
    /\ late' = (late \/ /\ s = "ok" /\ dev.reading # 0
                        /\ answer[dev.reading] # "none")
    /\ \/ UNCHANGED misread
       \/ s = "ok" /\ AbortsStop /\ misread' = misread \cup {dev.req}
    /\ \/ /\ isr_event_queue' = Append(isr_event_queue,
                                      Event("completed", 0, s))
          /\ UNCHANGED lost
       \/ /\ PoolMayEmpty /\ lost' = TRUE
          /\ UNCHANGED isr_event_queue
    /\ UNCHANGED <<state, request, event_queue, parked, kind, answer>>
-----------------------------------------------------------------------------
(* The HAL. *)

(* transmit_as_controller, receive_as_controller and                       *)
(* transmit_then_receive_as_controller of the API, by create_i2c_request.  *)
(* A request that cannot be put is refused and leaves nothing behind.      *)
CreateI2cRequest(k) ==
    /\ Len(kind) < MaxRequests
    /\ kind' = Append(kind, k)
    /\ event_queue' = Append(event_queue, Event("request", Len(kind'), "none"))
    /\ UNCHANGED <<state, request, isr_event_queue, parked, answer, dev, late,
                   misread, lost>>

(* process_request: how the transfers of a request can begin, and the      *)
(* state that goes with it.                                                *)
ProcessRequest(r, d) ==
    LET With(s, os) == {[ret |-> o.ret, dev |-> o.dev, state |-> s] : o \in os}
        tx == CallDriver("tx", r, d)
    IN  CASE kind[r] = "tx" -> With("TX", tx)
          [] kind[r] = "rx" -> With("RX", CallDriver("rx", r, d))
          [] OTHER -> With("TX_RX", {o \in tx : o.ret # "ok"}) \cup
                      With("RX", UNION {CallDriver("rx", r, o.dev) :
                                            o \in {x \in tx : x.ret = "ok"}})

(* Mutant: the event is forgotten. *)
ReloadNoEvent(q, p) ==
    /\ state' = IF p = <<>> THEN "IDLE" ELSE "RELOAD"
    /\ event_queue' = q
    /\ UNCHANGED lost

(* reload, with the requests p still waiting; q: the events in the queue.  *)
Reload(q, p) ==
    \/ p = <<>> /\ state' = "IDLE" /\ event_queue' = q /\ UNCHANGED lost
    \/ /\ p # <<>>
       /\ state' = "RELOAD"
       /\ event_queue' = Append(q, Event("reload", 0, "none"))
       /\ UNCHANGED lost
    \/ /\ p # <<>> /\ PoolMayEmpty
       /\ state' = "PANIC" /\ event_queue' = q /\ lost' = TRUE

(* process_next_request: the first request waiting is begun; one that ends *)
(* in the call is answered, and the next one is left to the reload event.  *)
ProcessNextRequest(q, p, d) ==
    \/ /\ p = <<>>
       /\ state' = "IDLE" /\ event_queue' = q /\ parked' = p /\ dev' = d
       /\ UNCHANGED <<request, lost>>
    \/ /\ p # <<>>
       /\ request' = Head(p)
       /\ \E o \in ProcessRequest(Head(p), d) :
             /\ dev' = o.dev
             /\ IF o.ret = "pending"
                  THEN /\ state' = o.state /\ event_queue' = q /\ parked' = p
                       /\ UNCHANGED lost
                  ELSE /\ parked' = Tail(p)
                       /\ Reload(Append(q, Event("response", Head(p), o.ret)),
                                 Tail(p))

Panic(q, d) ==
    /\ state' = "PANIC" /\ event_queue' = q /\ dev' = d
    /\ UNCHANGED <<request, parked, lost>>

(* Mutant: the answer is sent to the last request that was parked. *)
RespondToLast(s, q, d) ==
    IF parked = <<>>
      THEN Panic(q, d)
      ELSE ProcessNextRequest(Append(q, Event("response", Last(parked), s)),
                              Front(parked), d)

(* respond_to_caller and process_next_request, after a transfer ended.     *)
(* Without a parked response there is nobody to answer.                    *)
RespondToCaller(s, q, d) ==
    IF parked = <<>>
      THEN Panic(q, d)
      ELSE ProcessNextRequest(Append(q, Event("response", Head(parked), s)),
                              Tail(parked), d)

Begins(t) == event_queue # <<>> /\ Head(event_queue).type = t

(* The answer of a handler is an event, which may find no free structure;  *)
(* so may the parked response.                                             *)
RespondNow(r, s) ==
    \/ /\ event_queue' = Append(Tail(event_queue), Event("response", r, s))
       /\ UNCHANGED lost
    \/ /\ PoolMayEmpty /\ lost' = TRUE
       /\ event_queue' = Tail(event_queue)

Park(r) ==
    /\ event_queue' = Tail(event_queue)
    /\ \/ parked' = Append(parked, r) /\ UNCHANGED lost
       \/ PoolMayEmpty /\ lost' = TRUE /\ UNCHANGED parked

(* Mutant: the state is not looked at. *)
RequestAlwaysBegins(r) ==
    \E o \in ProcessRequest(r, dev) :
        /\ request' = r
        /\ dev' = o.dev
        /\ IF o.ret = "pending"
             THEN state' = o.state /\ Park(r)
             ELSE state' = "IDLE" /\ RespondNow(r, o.ret) /\ UNCHANGED parked

(* mod_i2c_process_event for a request. *)
ProcessRequestEvent(r) ==
    CASE state = "PANIC" ->
             /\ RespondNow(r, "panic")
             /\ UNCHANGED <<state, request, parked, dev>>
      [] state = "IDLE" ->
             \E o \in ProcessRequest(r, dev) :
                 /\ request' = r
                 /\ dev' = o.dev
                 /\ IF o.ret = "pending"
                      THEN state' = o.state /\ Park(r)
                      ELSE state' = "IDLE" /\ RespondNow(r, o.ret)
                           /\ UNCHANGED parked
      [] OTHER ->
             Park(r) /\ UNCHANGED <<state, request, dev>>

HandleRequest ==
    /\ Begins("request")
    /\ ProcessRequestEvent(Head(event_queue).req)
    /\ UNCHANGED <<isr_event_queue, kind, answer, late, misread>>

(* mod_i2c_process_event for MOD_I2C_EVENT_IDX_REQUEST_COMPLETED; an error *)
(* leaves the device in PANIC for ever.                                    *)
ProcessCompleted(s, q) ==
    CASE state \in {"TX", "RX"} \/ (state = "TX_RX" /\ s = "fail") ->
             RespondToCaller(s, q, dev)
      [] state = "TX_RX" /\ s = "ok" ->
             \E o \in CallDriver("rx", request, dev) :
                 IF o.ret = "pending"
                   THEN /\ state' = "RX" /\ event_queue' = q /\ dev' = o.dev
                        /\ UNCHANGED <<request, parked, lost>>
                   ELSE RespondToCaller(o.ret, q, o.dev)
      [] OTHER -> Panic(q, dev)

HandleCompleted ==
    /\ Begins("completed")
    /\ ProcessCompleted(Head(event_queue).status, Tail(event_queue))
    /\ UNCHANGED <<isr_event_queue, kind, answer, late, misread>>

HandleReload ==
    /\ Begins("reload")
    /\ ProcessNextRequest(Tail(event_queue), parked, dev)
    /\ UNCHANGED <<isr_event_queue, kind, answer, late, misread>>

(* The caller's handler gets its response. *)
HandleResponse ==
    /\ Begins("response")
    /\ LET e == Head(event_queue)
       IN  answer' = [answer EXCEPT ![e.req] = e.status]
    /\ event_queue' = Tail(event_queue)
    /\ UNCHANGED <<state, request, isr_event_queue, parked, kind, dev, late,
                   misread, lost>>

(* process_isr of the framework. *)
ProcessIsr ==
    /\ event_queue = <<>> /\ isr_event_queue # <<>>
    /\ event_queue' = <<Head(isr_event_queue)>>
    /\ isr_event_queue' = Tail(isr_event_queue)
    /\ UNCHANGED <<state, request, parked, kind, answer, dev, late, misread,
                   lost>>

MainLoop == \/ HandleRequest \/ HandleCompleted \/ HandleReload
            \/ HandleResponse \/ ProcessIsr

Next ==
    \/ MainLoop
    \/ \E s \in Statuses : I2cIsr(s)
    \/ \E k \in Kinds : CreateI2cRequest(k)

Spec == Init /\ [][Next]_vars

(* The main loop runs, and a transfer ends: the controller has no time-out *)
(* of its own in the driver, the targets answer or the transfer aborts.    *)
FairSpec == Spec /\ WF_vars(MainLoop) /\ WF_vars(\E s \in Statuses : I2cIsr(s))
-----------------------------------------------------------------------------
EventType == [type : {"request", "completed", "reload", "response"},
              req : 0..MaxRequests,
              status : {"none", "ok", "fail", "panic"}]

DeviceType == [op : {"none", "tx", "rx"}, req : 0..MaxRequests,
               reading : 0..MaxRequests,
               ended : SUBSET (Requests \X {"tx", "rx"} \X Statuses)]

(* The types. *)
TypeOK ==
    /\ state \in {"IDLE", "TX", "RX", "TX_RX", "RELOAD", "PANIC"}
    /\ request \in 0..MaxRequests
    /\ event_queue \in Seq(EventType)
    /\ isr_event_queue \in
           Seq([type : {"completed"}, req : {0}, status : Statuses])
    /\ parked \in Seq(Requests)
    /\ kind \in Seq(Kinds) /\ Len(kind) <= MaxRequests
    /\ answer \in [Requests -> {"none", "ok", "fail", "panic"}]
    /\ dev \in DeviceType
    /\ late \in BOOLEAN /\ misread \subseteq Requests /\ lost \in BOOLEAN

(* Completions on their way to the HAL. *)
Completions ==
    Len(isr_event_queue)
      + Cardinality({i \in DOMAIN event_queue :
                        event_queue[i].type = "completed"})

(* The HAL waits for a transfer exactly when one is on the bus or its      *)
(* completion is on the way, the two never overlap, and the request it     *)
(* belongs to is the first in the list, the one respond_to_caller will     *)
(* answer: as long as every response found a structure to be parked in.    *)
InFlightIsFirst ==
    ~lost =>
        /\ (state \in {"TX", "RX", "TX_RX"}) =
               (Completions + (IF dev.op = "none" THEN 0 ELSE 1) = 1)
        /\ Completions + (IF dev.op = "none" THEN 0 ELSE 1) \in {0, 1}
        /\ state \in {"TX", "RX", "TX_RX"} =>
               parked # <<>> /\ Head(parked) = request
        /\ dev.op # "none" => dev.req = request
        /\ state # "PANIC"

(* Types, and a device that knows which request is on its bus              *)
(* (struct mod_i2c_dev_ctx and the device's delayed response list).        *)
Sound == TypeOK /\ InFlightIsFirst

Transfers(k) == CASE k = "tx" -> {"tx"} [] k = "rx" -> {"rx"}
                  [] OTHER -> {"tx", "rx"}

(* A caller is told success exactly when every transfer its request needs  *)
(* was completed on the bus, and none aborted (respond_to_caller takes the *)
(* status from the completion, the caller from the list), and the requests *)
(* are answered in the order they were made, also through the reload event.*)
AnswerTruthful ==
    ~lost => \A r \in Requests : answer[r] # "none" =>
        /\ answer[r] = "ok" <=>
               /\ \A op \in Transfers(kind[r]) : <<r, op, "ok">> \in dev.ended
               /\ r \notin misread
        /\ \A q \in 1..(r - 1) : answer[q] # "none"

(* Every request is answered, unless an event was lost: then the device    *)
(* may wait for ever for a completion, or be in PANIC with requests parked *)
(* that nobody will answer.                                                *)
RequestsAnswered ==
    \A r \in Requests : Len(kind) >= r ~> (answer[r] # "none" \/ lost)

(* The buffer of a request is the caller's again once it is answered       *)
(* (mod_i2c.h: "The data buffer must stay allocated and its content must   *)
(* not be modified until the reception is completed or aborted.").         *)
BufferReturned == ~late
=============================================================================
