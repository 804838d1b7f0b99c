------------------------------ MODULE FwkEvents ------------------------------
(***************************************************************************)
(* What the event framework promises to the modules, without its pool of   *)
(* event structures and its cookies: messages are delivered one at a time  *)
(* and in order, those of ISRs once no other message waits; the contents   *)
(* of a message do not change on the way; an answer goes to the entity     *)
(* that asked, at once or when the responder decides to send it.           *)
(***************************************************************************)
EXTENDS Integers, Sequences, SequencesExt

CONSTANTS Entities, None

VARIABLES
    main,      \* messages sent by module code, oldest first
    isr,       \* messages sent by ISRs, oldest first
    parked,    \* for each entity, the answers it has deferred
    running,   \* the message whose handler is running, or None
    outgoing   \* the message being sent, or None

eventVars == <<main, isr, parked, running, outgoing>>

Message == [source_id : Entities, target_id : Entities,
            is_response : BOOLEAN, response_requested : BOOLEAN,
            params : Entities \cup {None}]

Request(src, tgt, req) ==
    [source_id |-> src, target_id |-> tgt, is_response |-> FALSE,
     response_requested |-> req, params |-> None]

ResponseTo(m, owner) ==
    [source_id |-> owner, target_id |-> m.source_id,
     is_response |-> TRUE, response_requested |-> FALSE,
     params |-> m.source_id]

EventsInit ==
    /\ main = <<>> /\ isr = <<>>
    /\ parked = [e \in Entities |-> <<>>]
    /\ running = None /\ outgoing = None
-----------------------------------------------------------------------------
(* A module sends; while a handler runs it sends in its own name. *)
MaySend(src) ==
    /\ outgoing = None
    /\ running # None => src = running.target_id

Compose(src, tgt, req) ==
    /\ MaySend(src)
    /\ outgoing' = Request(src, tgt, req)
    /\ UNCHANGED <<main, isr, parked, running>>

SendNow(src, tgt, req) ==
    /\ MaySend(src)
    /\ main' = Append(main, Request(src, tgt, req))
    /\ UNCHANGED <<isr, parked, running, outgoing>>

Emit ==
    /\ outgoing # None
    /\ main' = Append(main, outgoing)
    /\ outgoing' = None
    /\ UNCHANGED <<isr, parked, running>>

AnswerParked(i) ==
    /\ running # None /\ outgoing = None
    /\ i \in DOMAIN parked[running.target_id]
    /\ outgoing' = parked[running.target_id][i]
    /\ parked' = [parked EXCEPT ![running.target_id] = RemoveAt(@, i)]
    /\ UNCHANGED <<main, isr, running>>

IsrSend(src, tgt, req) ==
    /\ isr' = Append(isr, Request(src, tgt, req))
    /\ UNCHANGED <<main, parked, running, outgoing>>
-----------------------------------------------------------------------------
Deliver ==
    /\ running = None /\ outgoing = None
    /\ main # <<>>
    /\ running' = Head(main)
    /\ main' = Tail(main)
    /\ UNCHANGED <<isr, parked, outgoing>>

Promote ==
    /\ running = None /\ outgoing = None
    /\ main = <<>> /\ isr # <<>>
    /\ main' = <<Head(isr)>>
    /\ isr' = Tail(isr)
    /\ UNCHANGED <<parked, running, outgoing>>

(* The end of a handler: no answer wanted (or none possible), an answer,   *)
(* or an answer for later, which some entity is in charge of.              *)
Finish ==
    /\ running # None /\ outgoing = None
    /\ running' = None
    /\ \/ UNCHANGED <<parked, outgoing>>
       \/ /\ running.response_requested
          /\ outgoing' = ResponseTo(running, running.target_id)
          /\ UNCHANGED parked
       \/ /\ running.response_requested
          /\ \E owner \in Entities :
                parked' = [parked EXCEPT ![owner] =
                               Append(@, ResponseTo(running, owner))]
          /\ UNCHANGED outgoing
    /\ UNCHANGED <<main, isr>>

EventsNext ==
    \/ \E src, tgt \in Entities, req \in BOOLEAN :
          Compose(src, tgt, req) \/ SendNow(src, tgt, req)
              \/ IsrSend(src, tgt, req)
    \/ \E e \in Entities : \E i \in DOMAIN parked[e] : AnswerParked(i)
    \/ Emit \/ Deliver \/ Promote \/ Finish

EventsSpec == EventsInit /\ [][EventsNext]_eventVars
=============================================================================
