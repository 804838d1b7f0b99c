------------------------------- MODULE FwkCore -------------------------------
(***************************************************************************)
(* The event framework of the SCP firmware: framework/src/fwk_core.c and   *)
(* framework/src/fwk_delayed_resp.c, with the idle path of the main loop.  *)
(*                                                                         *)
(* One core runs the main thread (start-up, then the main loop and the     *)
(* module handlers it calls) and interrupt service routines that preempt   *)
(* it.  ISRs do not nest: arch_interrupt_set_priority is not supported on  *)
(* the Arm-M port, so every IRQ has the same priority.  An ISR is          *)
(* therefore one atomic step, and the main thread is split wherever an ISR *)
(* can observe or change what the code is in the middle of using.  A       *)
(* critical section (fwk_interrupt_global_disable/enable) is never split.  *)
(*                                                                         *)
(* An event structure is a slot of the table allocated by __fwk_init.      *)
(* Event identifiers and the bytes of the parameters are left out, except  *)
(* that params of a response names the request whose result it holds.      *)
(* The build modelled is the release build: fwk_unexpected() does nothing. *)
(***************************************************************************)
EXTENDS Integers, Sequences, FiniteSets, SequencesExt

CONSTANTS
    Entities,       \* modules and elements: sources and targets of events
    NoId,           \* FWK_ID_NONE, the content of a slot nobody wrote yet
    Slots,          \* the event_table of __fwk_init
    NoEvent,        \* NULL where a pointer to a slot is expected
    CookieMod,      \* 2^32 in the code: event_cookie_counter is a uint32_t
    CookieBound,    \* no new standard event once the counter is at the bound
    IsrRequests,    \* response_requested values used by ISR events
    LightRequests   \* response_requested values used by light events

ASSUME FwkCoreAssumption ==
    /\ IsFiniteSet(Slots) /\ Slots # {}
    /\ NoEvent \notin Slots
    /\ CookieMod \in Nat \ {0}
    /\ CookieBound \in 0..CookieMod
    /\ NoId \notin Entities
    /\ IsrRequests \subseteq BOOLEAN
    /\ LightRequests \subseteq BOOLEAN

EventCount == Cardinality(Slots)

VARIABLES
    free_event_queue,      \* ctx.free_event_queue
    event_queue,           \* ctx.event_queue
    isr_event_queue,       \* ctx.isr_event_queue
    delayed_response_list, \* one list per module or element context
    event,                 \* the contents of the slots
    current_event,         \* ctx.current_event
    event_cookie_counter,  \* ctx.event_cookie_counter
    pc,                    \* where the main thread is
    put,                   \* the locals of put_event in the main thread
    event_register,        \* the event register that WFE waits for
    deferred               \* the cookies modules keep of delayed requests

queues == <<free_event_queue, event_queue, isr_event_queue,
            delayed_response_list>>
vars == <<queues, event, current_event, event_cookie_counter, pc, put,
          event_register, deferred>>

(* struct fwk_event. *)
EventType ==
    [source_id : Entities \cup {NoId}, target_id : Entities \cup {NoId},
     cookie : 0..(CookieMod - 1), is_response : BOOLEAN,
     response_requested : BOOLEAN, is_delayed_response : BOOLEAN,
     params : Entities \cup {NoId}]

(* An event structure as fwk_mm_calloc leaves it. *)
ZeroEvent ==
    [source_id |-> NoId, target_id |-> NoId, cookie |-> 0,
     is_response |-> FALSE, response_requested |-> FALSE,
     is_delayed_response |-> FALSE, params |-> NoId]

(* The locals of put_event between the read and the write of the counter:  *)
(* allocated_event, the value read, and where the caller goes on.          *)
NoPut == [slot |-> NoEvent, cookie |-> 0, ret |-> "loop"]

(* Mutant: a cookie kept in one bit. *)
NarrowCookie(n) == n % 2

Cookie(n) == n % CookieMod
-----------------------------------------------------------------------------
(* __fwk_init, and the list initialisation of fwk_module_init.  The slots  *)
(* are addresses: which one comes first in the table is immaterial.        *)
Init ==
    /\ free_event_queue \in [1..EventCount -> Slots]
    /\ IsInjective(free_event_queue) /\ Range(free_event_queue) = Slots
    /\ event_queue = <<>>
    /\ isr_event_queue = <<>>
    /\ delayed_response_list = [id \in Entities |-> <<>>]
    /\ event = [s \in Slots |-> ZeroEvent]
    /\ current_event = NoEvent
    /\ event_cookie_counter = 0
    /\ pc = "start"
    /\ put = NoPut
    /\ event_register = FALSE
    /\ deferred = [id \in Entities |-> {}]
-----------------------------------------------------------------------------
(* duplicate_event: a slot leaves the pool holding a copy of the event. *)
Allocated == Head(free_event_queue)

DuplicateEvent(e) ==
    /\ free_event_queue # <<>>
    /\ free_event_queue' = Tail(free_event_queue)
    /\ event' = [event EXCEPT ![Allocated] = e]

(* A light event has no cookie and no parameters: the slot keeps those of  *)
(* the event it held before.                                               *)
DuplicateLightEvent(src, tgt, req) ==
    DuplicateEvent([source_id |-> src, target_id |-> tgt,
                    cookie |-> event[Allocated].cookie,
                    is_response |-> FALSE, response_requested |-> req,
                    is_delayed_response |-> FALSE,
                    params |-> event[Allocated].params])

(* The request event a module fills in, with the cookie it will have. *)
StdEvent(src, tgt, req, cookie) ==
    [source_id |-> src, target_id |-> tgt, cookie |-> cookie,
     is_response |-> FALSE, response_requested |-> req,
     is_delayed_response |-> FALSE, params |-> NoId]

(* put_event in the main thread is two steps: allocation up to the read of *)
(* the cookie counter, then the write back of the counter and the push.    *)
PutBegin(slot, ret) ==
    /\ put' = [slot |-> slot, cookie |-> event_cookie_counter, ret |-> ret]
    /\ pc' = "put"

PutEnd ==
    /\ pc = "put"
    /\ event' = [event EXCEPT ![put.slot].cookie = put.cookie]
    /\ event_cookie_counter' = Cookie(put.cookie + 1)
    /\ event_queue' = Append(event_queue, put.slot)
    /\ pc' = put.ret
    /\ put' = NoPut
    /\ UNCHANGED <<free_event_queue, isr_event_queue, delayed_response_list,
                   current_event, event_register, deferred>>
-----------------------------------------------------------------------------
(* The module code that the main thread runs: start-up, where the source   *)
(* is the one in the event, then handlers, where it is the target of the   *)
(* current event.  A put that finds no free slot, or no valid source,      *)
(* returns an error and changes nothing.                                   *)
Me == event[current_event].target_id

Sources == IF pc = "start" THEN Entities ELSE {Me}

PutEvent(src, tgt, req) ==
    /\ pc \in {"start", "handler"}
    /\ src \in Sources
    /\ event_cookie_counter < CookieBound
    /\ DuplicateEvent(StdEvent(src, tgt, req, 0))
    /\ PutBegin(Allocated, pc)
    /\ UNCHANGED <<event_queue, isr_event_queue, delayed_response_list,
                   current_event, event_cookie_counter, event_register,
                   deferred>>

PutEventLight(src, tgt, req) ==
    /\ pc \in {"start", "handler"}
    /\ src \in Sources
    /\ DuplicateLightEvent(src, tgt, req)
    /\ event_queue' = Append(event_queue, Allocated)
    /\ UNCHANGED <<isr_event_queue, delayed_response_list, current_event,
                   event_cookie_counter, pc, put, event_register, deferred>>

(* Mutant: the search ends at the first entry, whatever its cookie. *)
SearchFirst(list, cookie, i) == i \in DOMAIN list /\ i = 1

(* The entry i of a list that __fwk_search_delayed_response returns. *)
SearchDelayedResponse(list, cookie, i) ==
    /\ i \in DOMAIN list
    /\ event[list[i]].cookie = cookie
    /\ \A j \in 1..(i - 1) : event[list[j]].cookie # cookie

(* Mutant: the response is queued without fwk_list_remove. *)
PutWithoutRemove(i, requester) ==
    /\ event' = [event EXCEPT
                    ![delayed_response_list[Me][i]].params = requester]
    /\ PutBegin(delayed_response_list[Me][i], "handler")
    /\ UNCHANGED <<queues, current_event, event_cookie_counter,
                   event_register>>

(* put_event with is_delayed_response set: the slot moves from the delayed *)
(* response list to the event queue with the result in its params.         *)
PutDelayedResponse(i, requester) ==
    /\ event' = [event EXCEPT
                    ![delayed_response_list[Me][i]].params = requester]
    /\ delayed_response_list' =
           [delayed_response_list EXCEPT ![Me] = RemoveAt(@, i)]
    /\ PutBegin(delayed_response_list[Me][i], "handler")
    /\ UNCHANGED <<free_event_queue, event_queue, isr_event_queue,
                   current_event, event_cookie_counter, event_register>>

(* A module ends a request it deferred, looked up by the cookie it kept    *)
(* (fwk_get_delayed_response, then fwk_put_event).                         *)
AnswerByCookie(m) ==
    /\ pc = "handler"
    /\ m \in deferred[Me]
    /\ \E i \in DOMAIN delayed_response_list[Me] :
          /\ SearchDelayedResponse(delayed_response_list[Me], m.cookie, i)
          /\ PutDelayedResponse(i, m.requester)
    /\ deferred' = [deferred EXCEPT ![Me] = @ \ {m}]

(* A module that serves requests in order answers the head of the list     *)
(* (fwk_get_first_delayed_response, then fwk_put_event).                   *)
AnswerFirst(m) ==
    /\ pc = "handler"
    /\ m \in deferred[Me]
    /\ delayed_response_list[Me] # <<>>
    /\ m = [cookie    |-> event[Head(delayed_response_list[Me])].cookie,
            requester |-> event[Head(delayed_response_list[Me])].target_id]
    /\ PutDelayedResponse(1, m.requester)
    /\ deferred' = [deferred EXCEPT ![Me] = @ \ {m}]
-----------------------------------------------------------------------------
(* process_next_event up to the call of the module's handler. *)
ProcessNextEvent ==
    /\ pc = "loop"
    /\ event_queue # <<>>
    /\ current_event' = Head(event_queue)
    /\ event_queue' = Tail(event_queue)
    /\ pc' = "handler"
    /\ UNCHANGED <<free_event_queue, isr_event_queue, delayed_response_list,
                   event, event_cookie_counter, put, event_register, deferred>>

(* Mutant: source and target of the response are those of the request. *)
ResponseNotSwapped(owner, delay) ==
    [event[current_event] EXCEPT
        !.is_response = TRUE, !.response_requested = FALSE,
        !.is_delayed_response = delay,
        !.params = event[current_event].source_id]

(* async_response_event, as the handler and then the framework leave it.   *)
(* The source is the target of the request, unless the handler puts        *)
(* another entity in charge of a delayed response (mod_power_domain.c).    *)
AsyncResponse(owner, delay) ==
    [source_id |-> owner,
     target_id |-> event[current_event].source_id,
     cookie |-> event[current_event].cookie,
     is_response |-> TRUE, response_requested |-> FALSE,
     is_delayed_response |-> delay,
     params |-> event[current_event].source_id]

(* The handler returns: nothing to answer. *)
ReturnNoResponse ==
    /\ pc = "handler"
    /\ ~event[current_event].response_requested
    /\ pc' = "free"
    /\ UNCHANGED <<queues, event, current_event, event_cookie_counter, put,
                   event_register, deferred>>

(* The handler returns with the answer: the response is put, or lost when  *)
(* the pool is empty (the status of put_event is discarded).               *)
ReturnResponse ==
    /\ pc = "handler"
    /\ event[current_event].response_requested
    /\ \/ /\ DuplicateEvent(AsyncResponse(Me, FALSE))
          /\ PutBegin(Allocated, "free")
       \/ /\ free_event_queue = <<>>
          /\ pc' = "free"
          /\ UNCHANGED <<free_event_queue, event, put>>
    /\ UNCHANGED <<event_queue, isr_event_queue, delayed_response_list,
                   current_event, event_cookie_counter, event_register,
                   deferred>>

(* The handler defers the answer, and the entity in charge keeps the       *)
(* cookie of the request.  The response waits in the list of that entity,  *)
(* if there was a slot for it.  Only handlers of events to the entity can  *)
(* send it: fwk_put_event makes their target its source (see Me).          *)
ReturnDelayedResponse(owner) ==
    /\ pc = "handler"
    /\ event[current_event].response_requested
    /\ \/ /\ DuplicateEvent(AsyncResponse(owner, TRUE))
          /\ delayed_response_list' =
                 [delayed_response_list EXCEPT ![owner] =
                     Append(@, Allocated)]
       \/ /\ free_event_queue = <<>>
          /\ UNCHANGED <<free_event_queue, event, delayed_response_list>>
    /\ deferred' = [deferred EXCEPT ![owner] = @ \cup
                       {[cookie    |-> event[current_event].cookie,
                         requester |-> event[current_event].source_id]}]
    /\ pc' = "free"
    /\ UNCHANGED <<event_queue, isr_event_queue, current_event,
                   event_cookie_counter, put, event_register>>

(* Mutant: current_event is reset before it is freed. *)
FreeResetEvent ==
    /\ pc = "free"
    /\ free_event_queue' = Append(free_event_queue, NoEvent)
    /\ current_event' = NoEvent
    /\ pc' = "loop"
    /\ UNCHANGED <<event_queue, isr_event_queue, delayed_response_list, event,
                   event_cookie_counter, put, event_register, deferred>>

(* The end of process_next_event: free_event. *)
FreeEvent ==
    /\ pc = "free"
    /\ free_event_queue' = Append(free_event_queue, current_event)
    /\ current_event' = NoEvent
    /\ pc' = "loop"
    /\ UNCHANGED <<event_queue, isr_event_queue, delayed_response_list, event,
                   event_cookie_counter, put, event_register, deferred>>

(* Mutant: ISR events are pulled while other events wait. *)
ProcessIsrEarly ==
    /\ pc = "loop"
    /\ isr_event_queue # <<>>
    /\ isr_event_queue' = Tail(isr_event_queue)
    /\ event_queue' = Append(event_queue, Head(isr_event_queue))
    /\ UNCHANGED <<free_event_queue, delayed_response_list, event,
                   current_event, event_cookie_counter, pc, put,
                   event_register, deferred>>

(* process_isr, called when the event queue is empty. *)
ProcessIsr ==
    /\ pc = "loop"
    /\ event_queue = <<>>
    /\ \/ /\ isr_event_queue # <<>>
          /\ isr_event_queue' = Tail(isr_event_queue)
          /\ event_queue' = Append(event_queue, Head(isr_event_queue))
          /\ UNCHANGED pc
       \/ /\ isr_event_queue = <<>>
          /\ pc' = "log"
          /\ UNCHANGED <<event_queue, isr_event_queue>>
    /\ UNCHANGED <<free_event_queue, delayed_response_list, event,
                   current_event, event_cookie_counter, put, event_register,
                   deferred>>

(* Start-up is over: __fwk_run_main_loop is called. *)
RunMainLoop ==
    /\ pc = "start"
    /\ pc' = "loop"
    /\ UNCHANGED <<queues, event, current_event, event_cookie_counter, put,
                   event_register, deferred>>

(* Mutant: suspending forgets the interrupts taken since the queue check,  *)
(* as waiting without a latched wake-up event would.                       *)
LogUnbufferForgets ==
    /\ pc = "log"
    /\ pc' \in {"loop", "suspend"}
    /\ event_register' = FALSE
    /\ UNCHANGED <<queues, event, current_event, event_cookie_counter, put,
                   deferred>>

(* fwk_log_unbuffer: FWK_PENDING goes round the loop, else suspend. *)
LogUnbuffer ==
    /\ pc = "log"
    /\ pc' \in {"loop", "suspend"}
    /\ UNCHANGED <<queues, event, current_event, event_cookie_counter, put,
                   event_register, deferred>>

(* arch_suspend: WFE waits until the event register is set and clears it. *)
ArchSuspend ==
    /\ pc = "suspend"
    /\ event_register
    /\ event_register' = FALSE
    /\ pc' = "loop"
    /\ UNCHANGED <<queues, event, current_event, event_cookie_counter, put,
                   deferred>>
-----------------------------------------------------------------------------
(* Interrupt service routines.  Returning from an exception sets the event *)
(* register.  The last one puts nothing, or failed to.                     *)
IsrPutEvent(src, tgt, req) ==
    /\ event_cookie_counter < CookieBound
    /\ DuplicateEvent(StdEvent(src, tgt, req, event_cookie_counter))
    /\ event_cookie_counter' = Cookie(event_cookie_counter + 1)
    /\ isr_event_queue' = Append(isr_event_queue, Allocated)
    /\ event_register' = TRUE
    /\ UNCHANGED <<event_queue, delayed_response_list, current_event, pc, put,
                   deferred>>

IsrPutEventLight(src, tgt, req) ==
    /\ DuplicateLightEvent(src, tgt, req)
    /\ isr_event_queue' = Append(isr_event_queue, Allocated)
    /\ event_register' = TRUE
    /\ UNCHANGED <<event_queue, delayed_response_list, current_event,
                   event_cookie_counter, pc, put, deferred>>

IsrReturn ==
    /\ event_register' = TRUE
    /\ UNCHANGED <<queues, event, current_event, event_cookie_counter, pc, put,
                   deferred>>
-----------------------------------------------------------------------------
ModuleStep ==
    \/ \E src, tgt \in Entities, req \in BOOLEAN : PutEvent(src, tgt, req)
    \/ \E src, tgt \in Entities, req \in LightRequests :
          PutEventLight(src, tgt, req)
    \/ \E id \in Entities : \E m \in deferred[id] :
          AnswerByCookie(m) \/ AnswerFirst(m)

HandlerReturn ==
    \/ ReturnNoResponse \/ ReturnResponse
    \/ \E owner \in Entities : ReturnDelayedResponse(owner)

LoopStep ==
    \/ PutEnd \/ ProcessNextEvent \/ FreeEvent \/ ProcessIsr
    \/ LogUnbuffer \/ ArchSuspend

Isr ==
    \/ \E src, tgt \in Entities, req \in IsrRequests :
          IsrPutEvent(src, tgt, req)
    \/ \E src, tgt \in Entities, req \in LightRequests \cap IsrRequests :
          IsrPutEventLight(src, tgt, req)
    \/ IsrReturn

Next == ModuleStep \/ HandlerReturn \/ LoopStep \/ RunMainLoop \/ Isr

Spec == Init /\ [][Next]_vars

(* Scheduling: the main thread keeps running, and every handler returns.   *)
(* Handlers may put events, so ending one needs strong fairness.           *)
FairSpec ==
    /\ Spec
    /\ WF_vars(LoopStep)
    /\ SF_vars(RunMainLoop) /\ SF_vars(HandlerReturn)
-----------------------------------------------------------------------------
PutType == [slot : Slots \cup {NoEvent}, cookie : 0..(CookieMod - 1),
            ret : {"start", "loop", "handler", "free"}]

(* Types of the state of fwk_core.c and of the locals of the main thread. *)
TypeOK ==
    /\ free_event_queue \in Seq(Slots)
    /\ event_queue \in Seq(Slots)
    /\ isr_event_queue \in Seq(Slots)
    /\ delayed_response_list \in [Entities -> Seq(Slots)]
    /\ event \in [Slots -> EventType]
    /\ current_event \in Slots \cup {NoEvent}
    /\ event_cookie_counter \in 0..(CookieMod - 1)
    /\ pc \in {"start", "put", "loop", "handler", "free", "log", "suspend"}
    /\ put \in PutType
    /\ event_register \in BOOLEAN
    /\ deferred \in [Entities -> SUBSET [cookie : 0..(CookieMod - 1),
                                         requester : Entities]]

Parked(s) == \E id \in Entities : s \in Range(delayed_response_list[id])

Count(b) == IF b THEN 1 ELSE 0

(* The number of places an event structure is at. *)
Owners(s) ==
    Count(s \in Range(free_event_queue)) + Count(s \in Range(event_queue))
        + Count(s \in Range(isr_event_queue)) + Count(Parked(s))
        + Count(s = current_event) + Count(s = put.slot)

(* Every event structure is at exactly one place: the pool, one of the two *)
(* queues, one delayed response list, the handler running, or a put under  *)
(* way.  None leaks, and none is linked twice (the slist has one next      *)
(* pointer per node), whatever the interleaving of ISRs with the handlers. *)
OneOwner ==
    /\ IsInjective(free_event_queue)
    /\ IsInjective(event_queue)
    /\ IsInjective(isr_event_queue)
    /\ \A id \in Entities : IsInjective(delayed_response_list[id])
    /\ \A i, j \in Entities : i # j =>
          Range(delayed_response_list[i])
              \cap Range(delayed_response_list[j]) = {}
    /\ \A s \in Slots : Owners(s) = 1

(* A delayed response waits in the list of the entity it comes from, still *)
(* addressed to the requester, until that entity answers it.               *)
DelayedListsSound ==
    \A id \in Entities : \A s \in Range(delayed_response_list[id]) :
        /\ event[s].source_id = id
        /\ event[s].is_response /\ event[s].is_delayed_response
        /\ ~event[s].response_requested
        /\ event[s].target_id \in Entities

(* Where the main thread may be, and what it then holds. *)
Control ==
    /\ current_event # NoEvent <=>
          \/ pc \in {"handler", "free"}
          \/ pc = "put" /\ put.ret \in {"handler", "free"}
    /\ put.slot # NoEvent <=> pc = "put"
    /\ pc = "put" => put.ret \in {"start", "handler", "free"}

(* A slot outside the pool holds an event between two entities. *)
Addressed ==
    \A s \in Slots \ Range(free_event_queue) :
        event[s].source_id \in Entities /\ event[s].target_id \in Entities

(* The inductive invariant that OneOwner and DelayedListsSound rest on. *)
IInv == TypeOK /\ Control /\ OneOwner /\ Addressed /\ DelayedListsSound

(* The cookie a module kept of a request it deferred finds that request    *)
(* and no other: cookies of the responses parked in a list are distinct.   *)
CookieIdentifies ==
    \A id \in Entities : \A i, j \in DOMAIN delayed_response_list[id] :
        event[delayed_response_list[id][i]].cookie
            = event[delayed_response_list[id][j]].cookie => i = j

(* A response carries the result of the request of the entity it goes to.  *)
AnswerReachesRequester ==
    \A s \in Range(event_queue) :
        event[s].is_response => event[s].params = event[s].target_id

InHandler == pc = "handler" \/ (pc = "put" /\ put.ret = "handler")

Contents(s) ==
    [source_id |-> event[s].source_id, target_id |-> event[s].target_id,
     is_response |-> event[s].is_response,
     response_requested |-> event[s].response_requested,
     params |-> IF event[s].is_response THEN event[s].params ELSE NoId]

ContentsOf(q) == [i \in DOMAIN q |-> Contents(q[i])]

Events == INSTANCE FwkEvents WITH
    None <- NoId,
    main <- ContentsOf(event_queue),
    isr <- ContentsOf(isr_event_queue),
    parked <- [e \in Entities |-> ContentsOf(delayed_response_list[e])],
    running <- IF InHandler THEN Contents(current_event) ELSE NoId,
    outgoing <- IF put.slot = NoEvent THEN NoId ELSE Contents(put.slot)

(* FWK_ID_NONE, which stands for no message too, is none. *)
ASSUME NoMessage == NoId \notin Events!Message

(* The framework implements the message service of FwkEvents: the contents *)
(* of the slots, read through the queues, are its messages.                *)
ImplementsEvents == Events!EventsSpec

(* An event in a queue is eventually given to its target's handler. *)
EventsDelivered ==
    \A s \in Slots :
        s \in Range(event_queue) \cup Range(isr_event_queue)
            ~> s = current_event
=============================================================================
