--------------------------- MODULE FwkNotification ---------------------------
(***************************************************************************)
(* Notifications: framework/src/fwk_notification.c over the event pool of  *)
(* fwk_core.c, with a notifier that waits for the responses the way        *)
(* mod_power_domain.c does (pending_responses is the count that            *)
(* fwk_notification_notify returns, decremented by every response).        *)
(*                                                                         *)
(* The main thread runs module code and the main loop; an ISR preempts it  *)
(* at any point and is one step.  Subscription calls are refused in an     *)
(* ISR.  The loop of send_notifications is one step per subscriber, since  *)
(* an ISR may take event structures between two puts.                      *)
(* The event queues hold the messages; FwkCore models their slots.         *)
(***************************************************************************)
EXTENDS Integers, Sequences, FiniteSets, SequencesExt

CONSTANTS
    Entities,        \* sources and targets
    Notifications,   \* the notifications an entity can emit
    NoEvent,         \* no event, or no notification under way
    Subscriptions,   \* the structures of fwk_notification_init
    EventCount,      \* the number of event structures
    Requests,        \* response_requested values used by module code
    IsrBound         \* how many events ISRs put in a behaviour

Keys == Notifications \X Entities       \* a notification and its emitter

Event == [type : {"notification", "response", "other"}, key : Keys,
          target : Entities, response_requested : BOOLEAN]

(* The locals of send_notifications, and where its caller goes on. *)
Sending == [key : Keys, req : BOOLEAN, node : Nat \ {0}, count : Nat,
            ret : {"start", "handler"}]

ASSUME FwkNotificationAssumption ==
    /\ IsFiniteSet(Subscriptions)
    /\ EventCount \in Nat \ {0} /\ IsrBound \in Nat
    /\ NoEvent \notin Entities \cup Event \cup Sending
    /\ Requests \subseteq BOOLEAN

VARIABLES
    subscription_dlist,       \* for each key, its list of structures
    free_subscription_dlist,  \* the structures in no such list
    target_id,                \* the subscriber in each structure
    free_events,              \* number of event structures in the pool
    event_queue, isr_event_queue,
    current_event,            \* the event being handled, or NoEvent
    pc,                       \* "start", "loop", "handler" or "notify"
    notifying,                \* locals of send_notifications, or NoEvent
    pending_responses,        \* for each key, what its notifier waits for
    isrs                      \* events put by ISRs so far

subs == <<subscription_dlist, free_subscription_dlist, target_id>>
vars == <<subs, free_events, event_queue, isr_event_queue, current_event, pc,
          notifying, pending_responses, isrs>>

Init ==
    /\ subscription_dlist = [k \in Keys |-> <<>>]
    /\ free_subscription_dlist \in
           [1..Cardinality(Subscriptions) -> Subscriptions]
    /\ IsInjective(free_subscription_dlist)
    /\ target_id = [s \in Subscriptions |-> NoEvent]
    /\ free_events = EventCount
    /\ event_queue = <<>> /\ isr_event_queue = <<>>
    /\ current_event = NoEvent
    /\ pc = "start"
    /\ notifying = NoEvent
    /\ pending_responses = [k \in Keys |-> 0]
    /\ isrs = 0

ModuleCode == pc \in {"start", "handler"}
-----------------------------------------------------------------------------
(* The subscription of t to k, found by search_subscription. *)
SearchSubscription(k, t, i) ==
    /\ i \in DOMAIN subscription_dlist[k]
    /\ target_id[subscription_dlist[k][i]] = t

(* Mutant: no search for an existing subscription. *)
NeverSubscribed(k, t) == FALSE

Subscribed(k, t) ==
    \E i \in DOMAIN subscription_dlist[k] : SearchSubscription(k, t, i)

(* fwk_notification_subscribe.  A second subscription (FWK_E_STATE) and an *)
(* empty list of free structures (FWK_E_NOMEM) change nothing.             *)
Subscribe(k, t) ==
    /\ ModuleCode
    /\ ~Subscribed(k, t)
    /\ free_subscription_dlist # <<>>
    /\ LET s == Head(free_subscription_dlist) IN
          /\ free_subscription_dlist' = Tail(free_subscription_dlist)
          /\ target_id' = [target_id EXCEPT ![s] = t]
          /\ subscription_dlist' =
                 [subscription_dlist EXCEPT ![k] = Append(@, s)]
    /\ UNCHANGED <<free_events, event_queue, isr_event_queue, current_event,
                   pc, notifying, pending_responses, isrs>>

(* fwk_notification_unsubscribe. *)
Unsubscribe(k, t) ==
    /\ ModuleCode
    /\ \E i \in DOMAIN subscription_dlist[k] :
          /\ SearchSubscription(k, t, i)
          /\ free_subscription_dlist' =
                 Append(free_subscription_dlist, subscription_dlist[k][i])
          /\ subscription_dlist' =
                 [subscription_dlist EXCEPT ![k] = RemoveAt(@, i)]
    /\ UNCHANGED <<target_id, free_events, event_queue, isr_event_queue,
                   current_event, pc, notifying, pending_responses, isrs>>
-----------------------------------------------------------------------------
Notification(k, t, req) ==
    [type |-> "notification", key |-> k, target |-> t,
     response_requested |-> req]

(* Mutant: the notifier does not wait for the responses under way. *)
AlwaysMayNotify(k) == TRUE

(* A notifier that asked for responses waits for all of them. *)
MayNotify(k) == pending_responses[k] = 0

(* fwk_notification_notify by module code, up to the loop. *)
Notify(k, req) ==
    /\ ModuleCode
    /\ MayNotify(k)
    /\ notifying' = [key |-> k, req |-> req, node |-> 1, count |-> 0,
                     ret |-> pc]
    /\ pc' = "notify"
    /\ UNCHANGED <<subs, free_events, event_queue, isr_event_queue,
                   current_event, pending_responses, isrs>>

Node == subscription_dlist[notifying.key][notifying.node]

(* An iteration of send_notifications: only a successful put is counted. *)
SendNotification ==
    /\ pc = "notify"
    /\ notifying.node \in DOMAIN subscription_dlist[notifying.key]
    /\ \/ /\ free_events > 0
          /\ free_events' = free_events - 1
          /\ event_queue' = Append(event_queue,
                Notification(notifying.key, target_id[Node], notifying.req))
          /\ notifying' = [notifying EXCEPT !.node = @ + 1, !.count = @ + 1]
       \/ /\ free_events = 0
          /\ notifying' = [notifying EXCEPT !.node = @ + 1]
          /\ UNCHANGED <<free_events, event_queue>>
    /\ UNCHANGED <<subs, isr_event_queue, current_event, pc,
                   pending_responses, isrs>>

(* The end of the loop; the count is what the notifier waits for. *)
NotifyEnd ==
    /\ pc = "notify"
    /\ notifying.node \notin DOMAIN subscription_dlist[notifying.key]
    /\ pending_responses' = IF notifying.req
           THEN [pending_responses EXCEPT ![notifying.key] = notifying.count]
           ELSE pending_responses
    /\ pc' = notifying.ret
    /\ notifying' = NoEvent
    /\ UNCHANGED <<subs, free_events, event_queue, isr_event_queue,
                   current_event, isrs>>

(* fwk_notification_notify by an ISR: as many as there are free events. *)
IsrNotify(k) ==
    /\ LET list == subscription_dlist[k]
           sent == IF Len(list) <= free_events THEN Len(list) ELSE free_events
       IN /\ isrs + sent <= IsrBound
          /\ sent > 0
          /\ isr_event_queue' = isr_event_queue \o
                [i \in 1..sent |-> Notification(k, target_id[list[i]], FALSE)]
          /\ free_events' = free_events - sent
          /\ isrs' = isrs + sent
    /\ UNCHANGED <<subs, event_queue, current_event, pc, notifying,
                   pending_responses>>

(* fwk_put_event by an ISR. *)
IsrPutEvent(k, t) ==
    /\ isrs < IsrBound
    /\ free_events > 0
    /\ isr_event_queue' = Append(isr_event_queue,
          [type |-> "other", key |-> k, target |-> t,
           response_requested |-> FALSE])
    /\ free_events' = free_events - 1
    /\ isrs' = isrs + 1
    /\ UNCHANGED <<subs, event_queue, current_event, pc, notifying,
                   pending_responses>>
-----------------------------------------------------------------------------
RunMainLoop ==
    /\ pc = "start"
    /\ pc' = "loop"
    /\ UNCHANGED <<subs, free_events, event_queue, isr_event_queue,
                   current_event, notifying, pending_responses, isrs>>

(* Mutants: every event is taken for a response; the last response is not  *)
(* counted.                                                                *)
CountEveryEvent(e) ==
    [pending_responses EXCEPT ![e.key] = @ - 1]

CountUntilOne(e) ==
    IF e.type = "response" /\ pending_responses[e.key] > 1
    THEN [pending_responses EXCEPT ![e.key] = @ - 1] ELSE pending_responses

(* The notifier's handler counts the responses. *)
CountResponse(e) ==
    IF e.type = "response"
    THEN [pending_responses EXCEPT ![e.key] = @ - 1] ELSE pending_responses

(* process_next_event up to the handler. *)
ProcessNextEvent ==
    /\ pc = "loop"
    /\ event_queue # <<>>
    /\ current_event' = Head(event_queue)
    /\ event_queue' = Tail(event_queue)
    /\ pc' = "handler"
    /\ pending_responses' = CountResponse(Head(event_queue))
    /\ UNCHANGED <<subs, free_events, isr_event_queue, notifying, isrs>>

(* The response takes an event structure and the handled one goes back. *)
FreeEvent(responded) ==
    IF responded THEN free_events ELSE free_events + 1

(* The rest of process_next_event: the response, which is lost when there  *)
(* is no free event, then the handled event goes back to the pool.         *)
HandlerReturn ==
    /\ pc = "handler"
    /\ \/ /\ current_event.response_requested /\ free_events > 0
          /\ event_queue' = Append(event_queue,
                [type |-> "response", key |-> current_event.key,
                 target |-> current_event.key[2],
                 response_requested |-> FALSE])
          /\ free_events' = FreeEvent(TRUE)
       \/ /\ ~current_event.response_requested \/ free_events = 0
          /\ free_events' = FreeEvent(FALSE)
          /\ UNCHANGED event_queue
    /\ current_event' = NoEvent
    /\ pc' = "loop"
    /\ UNCHANGED <<subs, isr_event_queue, notifying, pending_responses, isrs>>

ProcessIsr ==
    /\ pc = "loop"
    /\ event_queue = <<>> /\ isr_event_queue # <<>>
    /\ event_queue' = <<Head(isr_event_queue)>>
    /\ isr_event_queue' = Tail(isr_event_queue)
    /\ UNCHANGED <<subs, free_events, current_event, pc, notifying,
                   pending_responses, isrs>>

(* Nothing to do until the next interrupt. *)
Suspend ==
    /\ pc = "loop"
    /\ event_queue = <<>> /\ isr_event_queue = <<>>
    /\ UNCHANGED vars
-----------------------------------------------------------------------------
ModuleStep ==
    \E k \in Keys :
        \/ \E t \in Entities : Subscribe(k, t) \/ Unsubscribe(k, t)
        \/ \E req \in Requests : Notify(k, req)

LoopStep ==
    \/ SendNotification \/ NotifyEnd
    \/ RunMainLoop \/ ProcessNextEvent \/ HandlerReturn \/ ProcessIsr

Isr == \E k \in Keys : IsrNotify(k) \/ \E t \in Entities : IsrPutEvent(k, t)

Next == ModuleStep \/ LoopStep \/ Isr \/ Suspend

Spec == Init /\ [][Next]_vars

(* Handlers return, and the main loop keeps running. *)
FairSpec ==
    /\ Spec
    /\ WF_vars(SendNotification \/ NotifyEnd \/ ProcessNextEvent
                  \/ ProcessIsr)
    /\ SF_vars(RunMainLoop) /\ SF_vars(HandlerReturn)
-----------------------------------------------------------------------------
Queued == event_queue \o isr_event_queue

(* Types of the lists, the pool, the queues and the counts of responses: a *)
(* notifier never counts below zero or above the number of subscriptions.  *)
TypeOK ==
    /\ subscription_dlist \in [Keys -> Seq(Subscriptions)]
    /\ free_subscription_dlist \in Seq(Subscriptions)
    /\ target_id \in [Subscriptions -> Entities \cup {NoEvent}]
    /\ free_events \in 0..EventCount
    /\ event_queue \in Seq(Event) /\ isr_event_queue \in Seq(Event)
    /\ current_event \in Event \cup {NoEvent}
    /\ pc \in {"start", "loop", "handler", "notify"}
    /\ notifying \in Sending \cup {NoEvent}
    /\ pending_responses \in [Keys -> 0..Cardinality(Subscriptions)]
    /\ isrs \in 0..IsrBound

(* Every subscription structure is in exactly one list, and an entity is   *)
(* in the list of a notification at most once: it is notified once.        *)
SubscriptionsSound ==
    /\ IsInjective(free_subscription_dlist)
    /\ \A k \in Keys : IsInjective(subscription_dlist[k])
    /\ \A s \in Subscriptions :
          s \in Range(free_subscription_dlist) <=>
              \A k \in Keys : s \notin Range(subscription_dlist[k])
    /\ \A k, l \in Keys : k # l =>
          Range(subscription_dlist[k]) \cap Range(subscription_dlist[l]) = {}
    /\ \A k \in Keys : \A i, j \in DOMAIN subscription_dlist[k] :
          target_id[subscription_dlist[k][i]]
              = target_id[subscription_dlist[k][j]] => i = j

(* The events a notifier of k still has to hear of. *)
Awaited(k) ==
    Cardinality({i \in DOMAIN event_queue :
                    event_queue[i].key = k
                       /\ (event_queue[i].response_requested
                             \/ event_queue[i].type = "response")})
      + (IF current_event # NoEvent /\ current_event.key = k
            /\ current_event.response_requested THEN 1 ELSE 0)

Sent(k) == IF notifying # NoEvent /\ notifying.key = k /\ notifying.req
           THEN notifying.count ELSE pending_responses[k]

(* The notifier never goes on early: what it waits for covers every        *)
(* notification not yet handled and every response not yet received.       *)
NeverEarly == \A k \in Keys : Awaited(k) <= Sent(k)

(* A handler is about to return a response that finds no event structure:  *)
(* nothing frees one before it does.                                       *)
Losing ==
    pc = "handler" /\ current_event.response_requested /\ free_events = 0

(* A notifier that waits for responses gets them all, unless one is lost   *)
(* because the pool has run out of event structures.                       *)
AllResponsesArrive ==
    \/ <>Losing
    \/ \A k \in Keys : pending_responses[k] > 0 ~> pending_responses[k] = 0
=============================================================================
