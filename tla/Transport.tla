------------------------------ MODULE Transport ------------------------------
(***************************************************************************)
(* Messages through shared mailboxes: module/transport/src/mod_transport.c *)
(* (out-band channels) with its doorbells, module/mhu/src/mod_mhu.c, and   *)
(* the SCMI service on top, module/scmi/src/mod_scmi.c.                    *)
(*                                                                         *)
(* Two channels.  On the completer channel an agent sends commands and the *)
(* firmware answers; on the requester channel the firmware sends commands  *)
(* and another platform answers.  The status bit FREE says whose the       *)
(* mailbox is.  Agent and platform are other processors: they run between  *)
(* any two steps, also inside the ISR and inside critical sections.  The   *)
(* firmware is a main thread, whose handlers are steps that end where they *)
(* give a mailbox away, and the doorbell ISR that preempts it.             *)
(*                                                                         *)
(* A message is its token, whether its length is bad, and whether its      *)
(* sender wants an interrupt.  A protocol's handler may answer a command   *)
(* at once or in the handler of a later event.                             *)
(***************************************************************************)
EXTENDS Integers

CONSTANTS
    Waits,           \* notifications the completer channel may wait for
    MaxCommands,     \* commands the agent sends
    MaxAsked,        \* commands the firmware sends
    MayBeBad,        \* whether the agent sends messages of bad length
    OneAtATime,      \* whether the firmware waits for an answer before it
                     \* sends the next command on the same channel
    PoolMayEmpty,    \* whether the event of a message may find no structure
    HandlersMayFail  \* whether the service may leave a message unfinished:
                     \* it cannot tell the agent, the handler of an answer
                     \* fails, an answer is too long to be sent

Completer == "completer"
Requester == "requester"
Channels == {Completer, Requester}

ASSUME TransportAssumption ==
    /\ Waits \subseteq 0..2
    /\ MaxCommands \in Nat /\ MaxAsked \in Nat
    /\ {MayBeBad, OneAtATime, PoolMayEmpty, HandlersMayFail} \subseteq BOOLEAN

VARIABLES
    mailbox,          \* the shared memory of each channel
    ready,            \* out_band_mailbox_ready of the completer channel
    wait,             \* its wait_on_notifications
    locked, in,       \* of struct transport_channel_ctx
    bell,             \* STAT: the doorbells rung for the firmware
    event,            \* how many events of the SCMI service are queued
    working,          \* the token of the command being handled, or 0
    isr, main,        \* where the ISR and the main thread are
    got,              \* the last answer the firmware handled
    agent, irq,       \* the agent, and the interrupt pending for it
    platform,         \* the platform: waiting, its doorbell, to ring ours
    fault,            \* a doorbell was left over from before the reset, or
                      \* a message of bad length was sent
    overtaken,        \* a doorbell was cleared that had been rung for a
                      \* command the ISR did not see
    stuck             \* the channels left locked: the event of a message
                      \* could not be put, or its handling failed

channel == <<mailbox, ready, wait, locked, in, bell>>
vars == <<channel, event, working, isr, main, got, agent, irq, platform,
          fault, overtaken, stuck>>

Message(t, k, b, i) ==
    [free |-> FALSE, token |-> t, type |-> k, bad |-> b, intr |-> i]
EmptyMailbox == [free |-> TRUE, token |-> 0, type |-> "none", bad |-> FALSE,
                 intr |-> FALSE]

(* The mailbox of the requester channel is initialised by the platform;    *)
(* that of the completer channel holds anything, and its doorbell may      *)
(* still be set from before the reset.                                     *)
Init ==
    /\ mailbox \in [Channels -> {EmptyMailbox, Message(0, "none", TRUE, TRUE)}]
    /\ mailbox[Requester] = EmptyMailbox
    /\ ready = FALSE /\ wait \in Waits
    /\ locked = [c \in Channels |-> FALSE]
    /\ in = [c \in Channels |-> EmptyMailbox]
    /\ bell \in [Channels -> BOOLEAN] /\ bell[Requester] = FALSE
    /\ event = [c \in Channels |-> 0]
    /\ working = 0 /\ got = 0
    /\ isr = [pc |-> "idle", ch |-> Completer]
    /\ main = "start"
    /\ agent = [pc |-> "idle", sent |-> 0, intr |-> FALSE]
    /\ irq = FALSE
    /\ platform = "idle"
    /\ fault = bell[Completer] /\ overtaken = FALSE /\ stuck = {}
-----------------------------------------------------------------------------
(* Start-up. *)

(* The main thread is in its event loop and not preempted. *)
Idle == main = "idle" /\ isr.pc = "idle"

(* transport_mailbox_init of the completer channel. *)
MailboxInit ==
    /\ mailbox' = [mailbox EXCEPT ![Completer] = EmptyMailbox]
    /\ ready' = TRUE

(* transport_start, once the subscriptions were counted. *)
Start ==
    /\ main = "start" /\ isr.pc = "idle" /\ main' = "idle"
    /\ IF wait = 0 THEN MailboxInit ELSE UNCHANGED <<mailbox, ready>>
    /\ UNCHANGED <<wait, locked, in, bell, event, working, isr, got, agent,
                   irq, platform, overtaken, stuck, fault>>

(* transport_process_notification: the power domain is on, or the          *)
(* notification of the product.  Each unsubscribes what it waited for.     *)
(* That the domain goes off changes nothing: it is heard only as long as   *)
(* the mailbox is not ready.                                               *)
ProcessNotification ==
    /\ Idle /\ wait > 0
    /\ wait' = wait - 1
    /\ IF wait' = 0 THEN MailboxInit ELSE UNCHANGED <<mailbox, ready>>
    /\ UNCHANGED <<locked, in, bell, event, working, isr, main, got, agent,
                   irq, platform, overtaken, stuck, fault>>
-----------------------------------------------------------------------------
(* transport_respond on the completer channel, whose size check is in      *)
(* ScmiRespond.  out, the mirror of in, goes to the mailbox; then, with    *)
(* interrupts masked, the lock is released and the mailbox given back.     *)
(* Other processors run between the two, the doorbell ISR does not.  The   *)
(* agent reads the mailbox only when it is free, so the copy is part of    *)
(* the second step.  bad is reported in the error bit.                     *)

Answered(message) == [message EXCEPT !.type = "response", !.free = TRUE]

(* Mutant: the lock is kept. *)
RespondKeepsLock == UNCHANGED locked

RespondUnlock == locked' = [locked EXCEPT ![Completer] = FALSE]

RespondFree ==
    mailbox' = [mailbox EXCEPT ![Completer] = Answered(in[Completer])]

(* The end of transport_respond: the flags are read from the mailbox that  *)
(* was given back, which may hold the next command already.                *)
Trigger == irq' = (irq \/ mailbox[Completer].intr)
-----------------------------------------------------------------------------
(* The doorbell ISR (mhu_isr). *)

(* Mutant: transport_respond does not mask interrupts. *)
PreemptUnmasked(c) ==
    /\ isr.pc = "idle" /\ bell[c]
    /\ isr' = [pc |-> "signal", ch |-> c]
    /\ UNCHANGED <<channel, event, working, main, got, agent, irq, platform,
                   overtaken, stuck, fault>>

Preempt(c) ==
    /\ isr.pc = "idle" /\ bell[c]
    /\ main # "free"
    /\ isr' = [pc |-> "signal", ch |-> c]
    /\ UNCHANGED <<channel, event, working, main, got, agent, irq, platform,
                   overtaken, stuck, fault>>

(* Mutant: the lock is not looked at. *)
AcceptsLocked(c) ==
    /\ c = Completer => ready
    /\ mailbox[c].free = (c = Requester)

(* What transport_signal_message and transport_message_handler check. *)
Accepts(c) ==
    /\ c = Completer => ready
    /\ ~locked[c]
    /\ mailbox[c].free = (c = Requester)

(* Header and payload are copied; the length checked is the one copied.    *)
SignalMessage ==
    /\ isr.pc = "signal"
    /\ IF Accepts(isr.ch)
         THEN /\ locked' = [locked EXCEPT ![isr.ch] = TRUE]
              /\ in' = [in EXCEPT ![isr.ch] = mailbox[isr.ch]]
              /\ isr' = [isr EXCEPT !.pc = IF mailbox[isr.ch].bad
                                             THEN "error" ELSE "message"]
         ELSE /\ isr' = [isr EXCEPT !.pc = "ack"]
              /\ UNCHANGED <<locked, in>>
    /\ UNCHANGED <<mailbox, ready, wait, bell, event, working, main, got,
                   agent, irq, platform, overtaken, stuck, fault>>

(* signal_message of the SCMI module.  When the event cannot be put the    *)
(* channel stays locked.                                                   *)
PutMessageEvent ==
    /\ isr.pc = "message"
    /\ isr' = [isr EXCEPT !.pc = "ack"]
    /\ \/ /\ event' = [event EXCEPT ![isr.ch] = @ + 1]
          /\ UNCHANGED stuck
       \/ /\ PoolMayEmpty /\ stuck' = stuck \cup {isr.ch}
          /\ UNCHANGED event
    /\ UNCHANGED <<channel, working, main, got, agent, irq, platform,
                   overtaken, fault>>

(* signal_error of the SCMI module answers inside the ISR. *)
SignalError ==
    /\ isr.pc = "error"
    /\ RespondUnlock
    /\ isr' = [isr EXCEPT !.pc = "free"]
    /\ UNCHANGED <<mailbox, ready, wait, in, bell, event, working, main, got,
                   agent, irq, platform, overtaken, stuck, fault>>

SignalErrorFree ==
    /\ isr.pc = "free"
    /\ RespondFree
    /\ isr' = [isr EXCEPT !.pc = "trigger"]
    /\ UNCHANGED <<ready, wait, locked, in, bell, event, working, main, got,
                   agent, irq, platform, overtaken, stuck, fault>>

SignalErrorTrigger ==
    /\ isr.pc = "trigger"
    /\ Trigger
    /\ isr' = [isr EXCEPT !.pc = "ack"]
    /\ UNCHANGED <<channel, event, working, main, got, agent, platform,
                   overtaken, stuck, fault>>

(* The doorbell is acknowledged after the message was signalled. *)
Acknowledge ==
    /\ isr.pc = "ack"
    /\ bell' = [bell EXCEPT ![isr.ch] = FALSE]
    /\ isr' = [isr EXCEPT !.pc = "idle"]
    /\ overtaken' = (overtaken \/ /\ isr.ch = Completer
                                  /\ agent.pc = "waiting"
                                  /\ ~mailbox[Completer].free
                                  /\ in[Completer].token # agent.sent)
    /\ UNCHANGED <<mailbox, ready, wait, locked, in, event, working, main, got,
                   agent, irq, platform, stuck, fault>>

Isr == \/ \E c \in Channels : Preempt(c)
       \/ SignalMessage \/ PutMessageEvent
       \/ SignalError \/ SignalErrorFree \/ SignalErrorTrigger
       \/ Acknowledge
-----------------------------------------------------------------------------
(* The main thread, in its event loop. *)

(* Mutant: the channel is not released after an answer. *)
ReleaseNothing(c) == locked

(* transport_release_channel_lock. *)
ReleaseChannelLock(c) == [locked EXCEPT ![c] = FALSE]

(* scmi_process_event.  A command goes to the handler of its protocol.  An *)
(* answer is handled and the channel released.  The function returns       *)
(* before either when the agent of a command is not found, or the handler  *)
(* of a message fails without an answer.  Without the lock there is no     *)
(* message to read.                                                        *)
ProcessEvent(c) ==
    /\ Idle /\ event[c] > 0
    /\ event' = [event EXCEPT ![c] = @ - 1]
    /\ \/ /\ c = Completer
          /\ working' = IF locked[c] THEN in[c].token ELSE working
          /\ UNCHANGED <<locked, got, stuck>>
       \/ /\ c = Requester
          /\ got' = IF locked[c] THEN in[c].token ELSE got
          /\ locked' = ReleaseChannelLock(c)
          /\ UNCHANGED <<working, stuck>>
       \/ /\ locked[c] /\ HandlersMayFail
          /\ stuck' = stuck \cup {c}
          /\ UNCHANGED <<working, locked, got>>
    /\ UNCHANGED <<mailbox, ready, wait, in, bell, isr, main, agent, irq,
                   platform, overtaken, fault>>

(* The protocol has its answer: respond of the SCMI module.  An answer     *)
(* longer than the mailbox is refused, and the channel keeps its lock.     *)
ScmiRespond ==
    /\ Idle /\ working # 0 /\ working' = 0
    /\ \/ RespondUnlock /\ main' = "free" /\ UNCHANGED stuck
       \/ /\ HandlersMayFail /\ stuck' = stuck \cup {Completer}
          /\ UNCHANGED <<locked, main>>
    /\ UNCHANGED <<mailbox, ready, wait, in, bell, event, isr, got, agent, irq,
                   platform, overtaken, fault>>

ScmiRespondFree ==
    /\ main = "free" /\ main' = "trigger"
    /\ RespondFree
    /\ UNCHANGED <<ready, wait, locked, in, bell, event, working, isr, got,
                   agent, irq, platform, overtaken, stuck, fault>>

ScmiRespondTrigger ==
    /\ main = "trigger" /\ isr.pc = "idle" /\ main' = "idle"
    /\ Trigger
    /\ UNCHANGED <<channel, event, working, isr, got, agent, platform,
                   overtaken, stuck, fault>>

Asked == mailbox[Requester].token

(* transport_transmit returns FWK_E_BUSY otherwise. *)
CanTransmit == mailbox[Requester].free

(* scmi_send_message by transport_transmit: the mailbox is filled, given   *)
(* away, and the platform's doorbell rung.  The lock is not looked at.     *)
Transmit ==
    /\ Idle /\ Asked < MaxAsked
    /\ CanTransmit
    /\ OneAtATime => got = Asked
    /\ mailbox' = [mailbox EXCEPT ![Requester] =
                       Message(Asked + 1, "command", FALSE, TRUE)]
    /\ main' = "ring"
    /\ UNCHANGED <<ready, wait, locked, in, bell, event, working, isr, got,
                   agent, irq, platform, overtaken, stuck, fault>>

TransmitRing ==
    /\ main = "ring" /\ isr.pc = "idle" /\ main' = "idle"
    /\ platform' = "rung"
    /\ UNCHANGED <<channel, event, working, isr, got, agent, irq, overtaken,
                   stuck, fault>>

MainThread ==
    \/ Start \/ ProcessNotification
    \/ \E c \in Channels : ProcessEvent(c)
    \/ ScmiRespond \/ ScmiRespondFree \/ ScmiRespondTrigger \/ TransmitRing
-----------------------------------------------------------------------------
(* The other processors (external). *)

(* The agent owns a free mailbox, once it was initialised. *)
AgentSend(bad, intr) ==
    /\ agent.pc = "idle" /\ agent.sent < MaxCommands
    /\ ready /\ mailbox[Completer].free
    /\ mailbox' = [mailbox EXCEPT ![Completer] =
                       Message(agent.sent + 1, "command", bad, intr)]
    /\ agent' = [pc |-> "ring", sent |-> agent.sent + 1, intr |-> intr]
    /\ fault' = (fault \/ bad)
    /\ UNCHANGED <<ready, wait, locked, in, bell, event, working, isr, main,
                   got, irq, platform, overtaken, stuck>>

AgentRing ==
    /\ agent.pc = "ring" /\ agent' = [agent EXCEPT !.pc = "waiting"]
    /\ bell' = [bell EXCEPT ![Completer] = TRUE]
    /\ UNCHANGED <<mailbox, ready, wait, locked, in, event, working, isr, main,
                   got, irq, platform, overtaken, stuck, fault>>

(* It polls FREE, or waits for the interrupt; an interrupt that finds the  *)
(* mailbox busy is ignored.                                                *)
AgentReceive ==
    /\ agent.pc = "waiting"
    /\ IF agent.intr THEN irq ELSE mailbox[Completer].free
    /\ irq' = IF agent.intr THEN FALSE ELSE irq
    /\ agent' = [agent EXCEPT !.pc = IF mailbox[Completer].free
                                       THEN "idle" ELSE "waiting"]
    /\ UNCHANGED <<channel, event, working, isr, main, got, platform,
                   overtaken, stuck, fault>>

PlatformRespond ==
    /\ platform = "rung" /\ platform' = "ring"
    /\ mailbox' = [mailbox EXCEPT ![Requester] = Answered(@)]
    /\ UNCHANGED <<ready, wait, locked, in, bell, event, working, isr, main,
                   got, agent, irq, overtaken, stuck, fault>>

PlatformRing ==
    /\ platform = "ring" /\ platform' = "idle"
    /\ bell' = [bell EXCEPT ![Requester] = TRUE]
    /\ UNCHANGED <<mailbox, ready, wait, locked, in, event, working, isr, main,
                   got, agent, irq, overtaken, stuck, fault>>

Next ==
    \/ Isr \/ MainThread \/ Transmit
    \/ \E bad \in {FALSE, MayBeBad}, intr \in BOOLEAN : AgentSend(bad, intr)
    \/ AgentRing \/ AgentReceive \/ PlatformRespond \/ PlatformRing

Spec == Init /\ [][Next]_vars

(* Interrupts are taken and handled; the main loop handles each of its     *)
(* events in turn and a protocol answers in the end; the agent rings,      *)
(* polls and handles its interrupts, the platform answers.                 *)
FairSpec ==
    /\ Spec
    /\ WF_vars(Isr)
    /\ WF_vars(Start) /\ WF_vars(ProcessNotification)
    /\ \A c \in Channels : WF_vars(ProcessEvent(c))
    /\ WF_vars(ScmiRespond) /\ WF_vars(ScmiRespondFree)
    /\ WF_vars(ScmiRespondTrigger) /\ WF_vars(TransmitRing)
    /\ WF_vars(AgentRing) /\ WF_vars(AgentReceive)
    /\ WF_vars(PlatformRespond) /\ WF_vars(PlatformRing)
-----------------------------------------------------------------------------
MessageType == [free : BOOLEAN, token : Nat, bad : BOOLEAN, intr : BOOLEAN,
                type : {"none", "command", "response"}]

(* The types. *)
TypeOK ==
    /\ {mailbox, in} \subseteq [Channels -> MessageType]
    /\ ready \in BOOLEAN /\ wait \in 0..2
    /\ locked \in [Channels -> BOOLEAN] /\ bell \in [Channels -> BOOLEAN]
    /\ event \in [Channels -> 0..1]
    /\ working \in 0..MaxCommands /\ got \in 0..MaxAsked
    /\ isr \in [pc : {"idle", "signal", "message", "error", "free", "trigger",
                      "ack"}, ch : Channels]
    /\ main \in {"start", "idle", "free", "trigger", "ring"}
    /\ agent \in [pc : {"idle", "ring", "waiting"}, sent : 0..MaxCommands,
                  intr : BOOLEAN]
    /\ irq \in BOOLEAN /\ platform \in {"idle", "rung", "ring"}
    /\ {fault, overtaken} \subseteq BOOLEAN /\ stuck \subseteq Channels

(* A channel is locked exactly while one message of it is being handled:   *)
(* by the ISR, in the queue of the service, or by a protocol.  Only an     *)
(* event that could not be put, or a message whose handling failed, leaves *)
(* it locked with nobody to release it.                                    *)
LockHeld ==
    \A c \in Channels :
        LET holders == (IF isr.ch = c /\ isr.pc \in {"message", "error"}
                          THEN 1 ELSE 0)
                        + event[c]
                        + (IF c = Completer /\ working # 0 THEN 1 ELSE 0)
        IN  /\ holders <= 1
            /\ holders = 1 => locked[c]
            /\ locked[c] => holders = 1 \/ c \in stuck

(* Types and locks (struct transport_channel_ctx, locked): no message of a *)
(* channel is taken while another one is handled, no lock is left behind.  *)
Sound == TypeOK /\ LockHeld

CompleterMailbox ==
    INSTANCE Mailbox WITH
        free  <- ready => mailbox[Completer].free,
        token <- IF ready THEN mailbox[Completer].token ELSE 0,
        type  <- IF ready THEN mailbox[Completer].type ELSE "none"

RequesterMailbox ==
    INSTANCE Mailbox WITH
        free  <- mailbox[Requester].free,
        token <- mailbox[Requester].token,
        type  <- mailbox[Requester].type

(* Both channels implement the one-slot mailbox: whatever the order of     *)
(* doorbells, ISR, main thread and the other processors, the firmware      *)
(* writes to a mailbox only while it owns it, and answers a command once   *)
(* and with the header of that command.                                    *)
ImplementsMailbox ==
    /\ CompleterMailbox!MailboxSpec
    /\ RequesterMailbox!MailboxSpec

(* Every command of the agent is answered and the agent learns of it, by   *)
(* interrupt or by polling.  Two exceptions: the event of a message could  *)
(* not be put or its handling failed, which leaves the channel locked      *)
(* (mod_transport.c, mod_scmi.c), and the doorbell was rung after the ISR  *)
(* had looked at the mailbox for an earlier one and before it acknowledged *)
(* it (mod_mhu.c), which takes a doorbell without a command, or a message  *)
(* whose error the ISR answers.                                            *)
CommandsAnswered ==
    agent.pc # "idle" ~>
        (agent.pc = "idle" \/ Completer \in stuck \/ (fault /\ overtaken))

(* The firmware handles the answer to each of its commands, if it does not *)
(* send another one on the channel before; the exceptions are an event     *)
(* that could not be put and a handler that fails, which lock the channel. *)
ResponsesHandled ==
    \A t \in 1..MaxAsked : Asked = t ~> (got = t \/ Requester \in stuck)
=============================================================================
