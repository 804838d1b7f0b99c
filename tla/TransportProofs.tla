--------------------------- MODULE TransportProofs ---------------------------
(***************************************************************************)
(* Safety of the mailbox channels, for any number of commands on either    *)
(* side, whatever fails and whether or not the firmware waits for an       *)
(* answer before it sends its next command: types and locks, and that      *)
(* both channels implement the abstract mailbox.                           *)
(*                                                                         *)
(* The lock alone does not say that an answer has the header of the        *)
(* command it answers: out is a copy the ISR made of a mailbox that        *)
(* another processor writes.  Inv adds that the copy is still the content  *)
(* of the mailbox as long as anyone is about to answer.                    *)
(***************************************************************************)
EXTENDS Transport, TLAPS

(* A message of the completer channel is with the ISR, in the queue of the *)
(* service or with a protocol.                                             *)
Handling ==
    \/ isr.ch = Completer /\ isr.pc \in {"message", "error"}
    \/ event[Completer] > 0
    \/ working # 0

(* transport_respond released the lock and has yet to give the mailbox     *)
(* back.                                                                   *)
Returning == main = "free" \/ isr.pc = "free"

(* The completer channel: set up once; its mailbox holds the last command  *)
(* of the agent or the answer to it, and a message that is being handled   *)
(* or given back is the one the mailbox still holds.  Nobody takes it      *)
(* again once its lock was released.                                       *)
CompleterOK ==
    /\ ready => wait = 0 /\ main # "start"
    /\ ready => mailbox[Completer].token = agent.sent
    /\ ready /\ ~mailbox[Completer].free => agent.sent # 0
    /\ ~ready => agent.sent = 0
    /\ Handling \/ Returning => /\ ready /\ ~mailbox[Completer].free
                                /\ in[Completer] = mailbox[Completer]
    /\ Returning => ~Handling
    /\ main = "free" => isr.pc = "idle"

(* The requester channel: the platform is only asked about a command that  *)
(* it has not answered, and its answers have the length of the commands.   *)
RequesterOK ==
    /\ ~mailbox[Requester].bad
    /\ isr.pc \in {"error", "free"} => isr.ch = Completer
    /\ mailbox[Requester].token <= MaxAsked /\ in[Requester].token <= MaxAsked
    /\ main = "ring" \/ platform = "rung" => ~mailbox[Requester].free
    /\ ~(main = "ring" /\ platform = "rung")

Inv == TypeOK /\ LockHeld /\ CompleterOK /\ RequesterOK
-----------------------------------------------------------------------------
(* What the messages put together by the code are. *)
LEMMA Messages ==
    /\ EmptyMailbox \in MessageType /\ EmptyMailbox.free
    /\ EmptyMailbox.token = 0 /\ EmptyMailbox.type = "none"
    /\ ~EmptyMailbox.bad
    /\ \A message \in MessageType :
         LET new == Answered(message)
         IN  /\ new \in MessageType /\ new.free
             /\ new.token = message.token
             /\ new.type = "response" /\ new.bad = message.bad
  BY DEF EmptyMailbox, Answered, MessageType

(* transport_start initialises the mailbox once. *)
LEMMA StartStep == Inv /\ Start => Inv'
<1>. SUFFICES ASSUME Inv, Start PROVE Inv'
  OBVIOUS
<1>1. TypeOK'
  <2>1. mailbox' \in [Channels -> MessageType] /\ in' \in [Channels -> MessageType]
    BY Messages DEF Inv, TypeOK, Start, MailboxInit
  <2>2. locked' \in [Channels -> BOOLEAN] /\ event' \in [Channels -> 0..1]
    BY DEF Inv, TypeOK, Start, MailboxInit
  <2>3. working' \in 0..MaxCommands /\ got' \in 0..MaxAsked
    BY DEF Inv, TypeOK, Start, MailboxInit
  <2> QED
    BY <2>1, <2>2, <2>3 DEF Inv, TypeOK, Start, MailboxInit
<1>2. LockHeld'
  BY DEF Inv, TypeOK, LockHeld, Start, MailboxInit
<1>3. CompleterOK'
  BY Messages DEF Inv, TypeOK, CompleterOK, Handling, Returning, Start, MailboxInit,
     Channels
<1>4. RequesterOK'
  BY DEF Inv, TypeOK, RequesterOK, Start, MailboxInit, Channels, Completer,
     Requester
<1> QED
  BY <1>1, <1>2, <1>3, <1>4 DEF Inv

(* The last notification initialises the mailbox, once. *)
LEMMA NotificationStep == Inv /\ ProcessNotification => Inv'
<1>. SUFFICES ASSUME Inv, ProcessNotification PROVE Inv'
  OBVIOUS
<1>1. /\ wait \in 1..2 /\ wait' = wait - 1 /\ ~ready /\ main = "idle"
      /\ UNCHANGED <<locked, in, bell, event, working, isr, main, got, agent,
                     irq, platform, overtaken, stuck, fault>>
      /\ mailbox'[Requester] = mailbox[Requester]
      /\ mailbox' \in [Channels -> MessageType]
      /\ \/ wait' = 0 /\ ready' = TRUE /\ mailbox'[Completer] = EmptyMailbox
         \/ wait' # 0 /\ ready' = FALSE /\ mailbox' = mailbox
  BY Messages DEF Inv, TypeOK, CompleterOK, ProcessNotification, Idle,
     MailboxInit, Channels, Completer, Requester
<1>2. TypeOK'
  <2>1. wait' \in 0..2
    BY <1>1
  <2>2. ready' \in BOOLEAN
    BY <1>1
  <2> QED
    BY <1>1, <2>1, <2>2 DEF Inv, TypeOK
<1>3. LockHeld'
  BY <1>1 DEF Inv, LockHeld
<1>4. CompleterOK'
  BY <1>1, Messages DEF Inv, CompleterOK, Handling, Returning
<1>5. RequesterOK'
  BY <1>1 DEF Inv, RequesterOK
<1> QED
  BY <1>2, <1>3, <1>4, <1>5 DEF Inv

(* The ISR begins. *)
LEMMA PreemptStep == ASSUME NEW c \in Channels PROVE Inv /\ Preempt(c) => Inv'
<1>. SUFFICES ASSUME Inv, Preempt(c) PROVE Inv'
  OBVIOUS
<1>1. TypeOK'
  BY DEF Inv, TypeOK, Preempt, channel
<1>2. LockHeld'
  BY DEF Inv, TypeOK, LockHeld, Preempt, channel
<1>3. CompleterOK'
  BY DEF Inv, TypeOK, CompleterOK, Handling, Returning, Preempt, channel
<1>4. RequesterOK'
  BY DEF Inv, TypeOK, RequesterOK, Preempt, channel
<1> QED
  BY <1>1, <1>2, <1>3, <1>4 DEF Inv

(* The ISR takes a message of a channel nobody holds, and locks it. *)
LEMMA SignalStep == Inv /\ SignalMessage => Inv'
<1>. SUFFICES ASSUME Inv, SignalMessage PROVE Inv'
  OBVIOUS
<1>. DEFINE c == isr.ch
<1>1. /\ TypeOK /\ c \in Channels /\ isr.pc = "signal" /\ isr'.ch = c
      /\ UNCHANGED <<mailbox, ready, wait, bell, event, working, main, got,
                     agent, irq, platform, overtaken, stuck, fault>>
  BY DEF Inv, TypeOK, SignalMessage
<1>2. CASE ~Accepts(c)
  <2>1. isr' = [isr EXCEPT !.pc = "ack"] /\ UNCHANGED <<locked, in>>
    BY <1>2 DEF SignalMessage
  <2>2. TypeOK'
    BY <1>1, <2>1 DEF TypeOK
  <2>3. LockHeld'
    BY <1>1, <2>1 DEF Inv, TypeOK, LockHeld
  <2>4. CompleterOK' /\ RequesterOK'
    BY <1>1, <2>1 DEF Inv, TypeOK, CompleterOK, RequesterOK, Handling, Returning
  <2> QED
    BY <2>2, <2>3, <2>4 DEF Inv
<1>3. CASE Accepts(c)
  <2>1. /\ locked' = [locked EXCEPT ![c] = TRUE]
        /\ in' = [in EXCEPT ![c] = mailbox[c]]
        /\ isr' = [isr EXCEPT !.pc = IF mailbox[c].bad THEN "error"
                                                       ELSE "message"]
        /\ ~locked[c] /\ (c = Completer => ready /\ ~mailbox[c].free)
    BY <1>1, <1>3 DEF SignalMessage, Accepts, TypeOK, Completer, Requester
  <2>2. TypeOK'
    BY <1>1, <2>1 DEF TypeOK
  <2>3. LockHeld'
    BY <1>1, <2>1 DEF Inv, TypeOK, LockHeld
  <2>4. CompleterOK'
    BY <1>1, <2>1 DEF Inv, TypeOK, CompleterOK, Handling, Returning
  <2>5. RequesterOK'
    BY <1>1, <2>1 DEF Inv, TypeOK, RequesterOK, Channels
  <2> QED
    BY <2>2, <2>3, <2>4, <2>5 DEF Inv
<1> QED
  BY <1>2, <1>3

(* The message goes to the queue of the service, or is stuck. *)
LEMMA PutStep == Inv /\ PutMessageEvent => Inv'
<1>. SUFFICES ASSUME Inv, PutMessageEvent PROVE Inv'
  OBVIOUS
<1>1. TypeOK'
  BY DEF Inv, TypeOK, LockHeld, PutMessageEvent, channel
<1>2. LockHeld'
  BY DEF Inv, TypeOK, LockHeld, PutMessageEvent, channel
<1>3. CompleterOK'
  BY DEF Inv, TypeOK, CompleterOK, Handling, Returning, PutMessageEvent, channel,
     Channels
<1>4. RequesterOK'
  BY DEF Inv, TypeOK, RequesterOK, PutMessageEvent, channel
<1> QED
  BY <1>1, <1>2, <1>3, <1>4 DEF Inv

(* The ISR answers a message of bad length: the lock is released. *)
LEMMA ErrorStep == Inv /\ SignalError => Inv'
<1>. SUFFICES ASSUME Inv, SignalError PROVE Inv'
  OBVIOUS
<1>1. /\ TypeOK /\ isr.pc = "error" /\ isr.ch = Completer
      /\ isr' = [isr EXCEPT !.pc = "free"]
      /\ locked' = [locked EXCEPT ![Completer] = FALSE]
      /\ UNCHANGED <<mailbox, ready, wait, in, bell, event, working, main, got,
                     agent, irq, platform, overtaken, stuck, fault>>
  BY DEF Inv, RequesterOK, SignalError, RespondUnlock
<1>2. event[Completer] = 0 /\ working = 0
  BY <1>1 DEF Inv, TypeOK, LockHeld, Channels
<1>3. TypeOK'
  BY <1>1 DEF TypeOK
<1>4. LockHeld'
  BY <1>1, <1>2 DEF Inv, TypeOK, LockHeld
<1>5. CompleterOK'
  BY <1>1, <1>2 DEF Inv, TypeOK, CompleterOK, Handling, Returning
<1>6. RequesterOK'
  BY <1>1 DEF Inv, TypeOK, RequesterOK
<1> QED
  BY <1>3, <1>4, <1>5, <1>6 DEF Inv

(* The mailbox is given back, by the ISR or by the main thread. *)
LEMMA FreeStep == Inv /\ (SignalErrorFree \/ ScmiRespondFree) => Inv'
<1>. SUFFICES ASSUME Inv, SignalErrorFree \/ ScmiRespondFree PROVE Inv'
  OBVIOUS
<1>1. /\ TypeOK /\ Returning /\ RespondFree
      /\ UNCHANGED <<ready, wait, locked, in, bell, event, working, got, agent,
                     irq, platform, overtaken, stuck, fault>>
      /\ \/ /\ isr.pc = "free" /\ isr' = [isr EXCEPT !.pc = "trigger"]
            /\ UNCHANGED main
         \/ main = "free" /\ main' = "trigger" /\ UNCHANGED isr
  BY DEF Inv, SignalErrorFree, ScmiRespondFree, Returning
<1>. DEFINE new == Answered(in[Completer])
<1>2. /\ mailbox' = [mailbox EXCEPT ![Completer] = new]
      /\ mailbox'[Requester] = mailbox[Requester]
      /\ mailbox'[Completer] = new
  BY <1>1 DEF TypeOK, RespondFree, Channels, Completer, Requester
<1>3. /\ in[Completer] = mailbox[Completer] /\ ready /\ ~Handling
      /\ main = "free" => isr.pc = "idle"
  BY <1>1 DEF Inv, CompleterOK
<1>4. new \in MessageType /\ new.free /\ new.token = mailbox[Completer].token
  BY <1>1, <1>3, Messages DEF TypeOK, Channels
<1>. HIDE DEF new
<1>5. isr'.ch = isr.ch /\ ~Returning' /\ ~Handling'
  BY <1>1, <1>3 DEF TypeOK, Returning, Handling
<1>6. TypeOK'
  <2>1. mailbox' \in [Channels -> MessageType]
    BY <1>1, <1>2, <1>4 DEF TypeOK
  <2>2. /\ main' \in {"start", "idle", "free", "trigger", "ring"}
        /\ isr' \in [pc : {"idle", "signal", "message", "error", "free",
                           "trigger", "ack"}, ch : Channels]
    BY <1>1 DEF TypeOK
  <2> QED
    BY <1>1, <2>1, <2>2 DEF TypeOK
<1>7. LockHeld'
  BY <1>1 DEF Inv, TypeOK, LockHeld
<1>8. CompleterOK'
  <2>1. ready' => wait' = 0 /\ main' # "start"
    BY <1>1 DEF Inv, CompleterOK
  <2>2. main' # "free"
    BY <1>1, <1>5 DEF Returning
  <2> QED
    BY <1>1, <1>2, <1>3, <1>4, <1>5, <2>1, <2>2 DEF Inv, CompleterOK
<1>9. RequesterOK'
  BY <1>1, <1>2 DEF Inv, TypeOK, RequesterOK
<1> QED
  BY <1>6, <1>7, <1>8, <1>9 DEF Inv

(* The ISR raises the interrupt of the agent. *)
LEMMA ErrorTriggerStep == Inv /\ SignalErrorTrigger => Inv'
<1>. SUFFICES ASSUME Inv, SignalErrorTrigger PROVE Inv'
  OBVIOUS
<1>1. TypeOK'
  BY DEF Inv, TypeOK, SignalErrorTrigger, Trigger, channel
<1>2. LockHeld'
  BY DEF Inv, TypeOK, LockHeld, SignalErrorTrigger, Trigger, channel
<1>3. CompleterOK'
  BY DEF Inv, TypeOK, CompleterOK, Handling, Returning, SignalErrorTrigger, Trigger,
     channel
<1>4. RequesterOK'
  BY DEF Inv, TypeOK, RequesterOK, SignalErrorTrigger, Trigger, channel
<1> QED
  BY <1>1, <1>2, <1>3, <1>4 DEF Inv

(* The ISR ends. *)
LEMMA AcknowledgeStep == Inv /\ Acknowledge => Inv'
<1>. SUFFICES ASSUME Inv, Acknowledge PROVE Inv'
  OBVIOUS
<1>1. TypeOK'
  BY DEF Inv, TypeOK, Acknowledge
<1>2. LockHeld'
  BY DEF Inv, TypeOK, LockHeld, Acknowledge
<1>3. CompleterOK'
  BY DEF Inv, TypeOK, CompleterOK, Handling, Returning, Acknowledge
<1>4. RequesterOK'
  BY DEF Inv, TypeOK, RequesterOK, Acknowledge
<1> QED
  BY <1>1, <1>2, <1>3, <1>4 DEF Inv

(* The service handles the event of a message. *)
LEMMA EventStep == ASSUME NEW c \in Channels PROVE Inv /\ ProcessEvent(c) => Inv'
<1>. SUFFICES ASSUME Inv, ProcessEvent(c) PROVE Inv'
  OBVIOUS
<1>1. /\ TypeOK /\ isr.pc = "idle" /\ main = "idle"
      /\ event[c] = 1 /\ locked[c]
      /\ event' = [event EXCEPT ![c] = 0]
      /\ UNCHANGED <<mailbox, ready, wait, in, bell, isr, main, agent, irq,
                     platform, overtaken, fault>>
  <2>1. TypeOK /\ Idle /\ event[c] = 1
    BY DEF Inv, TypeOK, ProcessEvent, Idle
  <2>2. locked[c]
    BY <2>1 DEF Inv, TypeOK, LockHeld
  <2> QED
    BY <2>1, <2>2 DEF ProcessEvent, Idle
<1>2. CASE c = Completer /\ working' = in[c].token
              /\ UNCHANGED <<locked, got, stuck>>
  <2>1. /\ working = 0 /\ ready /\ in[c] = mailbox[c]
        /\ working' = agent.sent /\ agent.sent # 0 /\ ~mailbox[c].free
    BY <1>1, <1>2 DEF Inv, TypeOK, LockHeld, CompleterOK, Handling, Returning
  <2>2. TypeOK'
    BY <1>1, <1>2, <2>1 DEF TypeOK
  <2>3. LockHeld'
    BY <1>1, <1>2, <2>1 DEF Inv, TypeOK, LockHeld
  <2>4. CompleterOK' /\ RequesterOK'
    BY <1>1, <1>2, <2>1 DEF Inv, TypeOK, CompleterOK, RequesterOK, Returning
  <2> QED
    BY <2>2, <2>3, <2>4 DEF Inv
<1>3. CASE c = Requester /\ got' = in[c].token /\ UNCHANGED <<working, stuck>>
              /\ locked' = [locked EXCEPT ![c] = FALSE]
  <2>1. in[c].token \in 0..MaxAsked
    BY <1>1, <1>3 DEF Inv, TypeOK, RequesterOK, MessageType
  <2>2. TypeOK'
    BY <1>1, <1>3, <2>1 DEF TypeOK
  <2>3. LockHeld'
    BY <1>1, <1>3 DEF Inv, TypeOK, LockHeld
  <2>4. CompleterOK' /\ RequesterOK'
    BY <1>1, <1>3 DEF Inv, TypeOK, CompleterOK, RequesterOK, Handling, Returning
  <2> QED
    BY <2>2, <2>3, <2>4 DEF Inv
<1>4. CASE stuck' = stuck \cup {c}
              /\ UNCHANGED <<working, locked, got>>
  <2>1. TypeOK'
    BY <1>1, <1>4 DEF TypeOK
  <2>2. LockHeld'
    BY <1>1, <1>4 DEF Inv, TypeOK, LockHeld
  <2>3. CompleterOK' /\ RequesterOK'
    BY <1>1, <1>4 DEF Inv, TypeOK, CompleterOK, RequesterOK, Handling, Returning
  <2> QED
    BY <2>1, <2>2, <2>3 DEF Inv
<1> QED
  BY <1>1, <1>2, <1>3, <1>4 DEF ProcessEvent, ReleaseChannelLock

(* A protocol answers: the lock is released, or the answer is refused. *)
LEMMA RespondStep == Inv /\ ScmiRespond => Inv'
<1>. SUFFICES ASSUME Inv, ScmiRespond PROVE Inv'
  OBVIOUS
<1>1. /\ TypeOK /\ isr.pc = "idle" /\ working # 0 /\ working' = 0
      /\ main = "idle"
      /\ UNCHANGED <<mailbox, ready, wait, in, bell, event, isr, got, agent,
                     irq, platform, overtaken, fault>>
  BY DEF Inv, ScmiRespond, Idle
<1>2. event[Completer] = 0 /\ working' \in 0..MaxCommands
  BY <1>1, TransportAssumption DEF Inv, TypeOK, LockHeld, Channels
<1>3. CASE /\ locked' = [locked EXCEPT ![Completer] = FALSE]
           /\ main' = "free" /\ UNCHANGED stuck
  <2>1. TypeOK'
    BY <1>1, <1>2, <1>3 DEF TypeOK
  <2>2. LockHeld'
    BY <1>1, <1>2, <1>3 DEF Inv, TypeOK, LockHeld
  <2>3. CompleterOK' /\ RequesterOK'
    BY <1>1, <1>2, <1>3 DEF Inv, TypeOK, CompleterOK, RequesterOK, Handling,
       Returning
  <2> QED
    BY <2>1, <2>2, <2>3 DEF Inv
<1>4. CASE stuck' = stuck \cup {Completer} /\ UNCHANGED <<locked, main>>
  <2>1. TypeOK'
    BY <1>1, <1>2, <1>4 DEF TypeOK, Channels
  <2>2. LockHeld'
    BY <1>1, <1>2, <1>4 DEF Inv, TypeOK, LockHeld
  <2>3. CompleterOK' /\ RequesterOK'
    BY <1>1, <1>2, <1>4 DEF Inv, TypeOK, CompleterOK, RequesterOK, Handling,
       Returning
  <2> QED
    BY <2>1, <2>2, <2>3 DEF Inv
<1> QED
  BY <1>3, <1>4 DEF ScmiRespond, RespondUnlock

(* The interrupt of the agent, after an answer. *)
LEMMA RespondTriggerStep == Inv /\ ScmiRespondTrigger => Inv'
<1>. SUFFICES ASSUME Inv, ScmiRespondTrigger PROVE Inv'
  OBVIOUS
<1>1. TypeOK'
  BY DEF Inv, TypeOK, ScmiRespondTrigger, Trigger, channel
<1>2. LockHeld'
  BY DEF Inv, TypeOK, LockHeld, ScmiRespondTrigger, Trigger, channel
<1>3. CompleterOK'
  BY DEF Inv, TypeOK, CompleterOK, Handling, Returning, ScmiRespondTrigger, Trigger,
     channel
<1>4. RequesterOK'
  BY DEF Inv, TypeOK, RequesterOK, ScmiRespondTrigger, Trigger, channel
<1> QED
  BY <1>1, <1>2, <1>3, <1>4 DEF Inv

(* The firmware sends a command. *)
LEMMA TransmitStep == Inv /\ Transmit => Inv'
<1>. SUFFICES ASSUME Inv, Transmit PROVE Inv'
  OBVIOUS
<1>1. /\ TypeOK /\ main = "idle" /\ main' = "ring" /\ Asked \in Nat
      /\ Asked < MaxAsked /\ mailbox[Requester].free
      /\ UNCHANGED <<ready, wait, locked, in, bell, event, working, isr, got,
                     agent, irq, platform, overtaken, stuck, fault>>
  BY DEF Inv, TypeOK, Transmit, Idle, CanTransmit, Asked, MessageType,
     Channels
<1>. DEFINE new == Message(Asked + 1, "command", FALSE, TRUE)
<1>2. new \in MessageType /\ ~new.free /\ new.token = Asked + 1 /\ ~new.bad
  BY <1>1 DEF Message, MessageType
<1>3. /\ mailbox' = [mailbox EXCEPT ![Requester] = new]
      /\ mailbox'[Completer] = mailbox[Completer]
      /\ mailbox'[Requester] = new
  BY <1>1 DEF TypeOK, Transmit, Channels, Completer, Requester
<1>. HIDE DEF new
<1>4. TypeOK'
  BY <1>1, <1>2, <1>3 DEF TypeOK
<1>5. LockHeld'
  BY <1>1 DEF Inv, LockHeld
<1>6. CompleterOK'
  BY <1>1, <1>3 DEF Inv, CompleterOK, Handling, Returning
<1>7. RequesterOK'
  BY <1>1, <1>2, <1>3, TransportAssumption DEF Inv, RequesterOK
<1> QED
  BY <1>4, <1>5, <1>6, <1>7 DEF Inv

(* The platform's doorbell is rung. *)
LEMMA TransmitRingStep == Inv /\ TransmitRing => Inv'
<1>. SUFFICES ASSUME Inv, TransmitRing PROVE Inv'
  OBVIOUS
<1>1. TypeOK'
  BY DEF Inv, TypeOK, TransmitRing, channel
<1>2. LockHeld'
  BY DEF Inv, TypeOK, LockHeld, TransmitRing, channel
<1>3. CompleterOK'
  BY DEF Inv, TypeOK, CompleterOK, Handling, Returning, TransmitRing, channel
<1>4. RequesterOK'
  BY DEF Inv, TypeOK, RequesterOK, TransmitRing, channel
<1> QED
  BY <1>1, <1>2, <1>3, <1>4 DEF Inv

(* The agent sends a command. *)
LEMMA SendStep ==
    ASSUME NEW bad \in {FALSE, MayBeBad}, NEW intr \in BOOLEAN
    PROVE  Inv /\ AgentSend(bad, intr) => Inv'
<1>. SUFFICES ASSUME Inv, AgentSend(bad, intr) PROVE Inv'
  OBVIOUS
<1>. DEFINE new == Message(agent.sent + 1, "command", bad, intr)
<1>1. /\ TypeOK /\ agent.sent \in Nat /\ agent.sent < MaxCommands
      /\ ready /\ mailbox[Completer].free
      /\ agent' = [pc |-> "ring", sent |-> agent.sent + 1, intr |-> intr]
      /\ UNCHANGED <<ready, wait, locked, in, bell, event, working, isr, main,
                     got, irq, platform, overtaken, stuck>>
  BY DEF Inv, TypeOK, AgentSend
<1>2. bad \in BOOLEAN
  BY TransportAssumption
<1>3. new \in MessageType /\ ~new.free /\ new.token = agent.sent + 1
  BY <1>1, <1>2 DEF Message, MessageType
<1>4. /\ mailbox' = [mailbox EXCEPT ![Completer] = new]
      /\ mailbox'[Requester] = mailbox[Requester]
      /\ mailbox'[Completer] = new
  BY <1>1 DEF TypeOK, AgentSend, Channels, Completer, Requester
<1>5. fault' \in BOOLEAN
  BY <1>1, <1>2 DEF TypeOK, AgentSend
<1>. HIDE DEF new
<1>6. TypeOK'
  BY <1>1, <1>3, <1>4, <1>5, TransportAssumption DEF TypeOK
<1>7. LockHeld'
  BY <1>1 DEF Inv, LockHeld
<1>8. CompleterOK'
  BY <1>1, <1>3, <1>4 DEF Inv, CompleterOK, Handling, Returning
<1>9. RequesterOK'
  BY <1>1, <1>4 DEF Inv, RequesterOK
<1> QED
  BY <1>6, <1>7, <1>8, <1>9 DEF Inv

(* The agent rings the firmware's doorbell. *)
LEMMA AgentRingStep == Inv /\ AgentRing => Inv'
<1>. SUFFICES ASSUME Inv, AgentRing PROVE Inv'
  OBVIOUS
<1>1. TypeOK'
  BY DEF Inv, TypeOK, AgentRing
<1>2. LockHeld'
  BY DEF Inv, TypeOK, LockHeld, AgentRing
<1>3. CompleterOK'
  BY DEF Inv, TypeOK, CompleterOK, Handling, Returning, AgentRing
<1>4. RequesterOK'
  BY DEF Inv, TypeOK, RequesterOK, AgentRing
<1> QED
  BY <1>1, <1>2, <1>3, <1>4 DEF Inv

(* The agent takes an answer. *)
LEMMA ReceiveStep == Inv /\ AgentReceive => Inv'
<1>. SUFFICES ASSUME Inv, AgentReceive PROVE Inv'
  OBVIOUS
<1>1. TypeOK'
  BY DEF Inv, TypeOK, AgentReceive, channel
<1>2. LockHeld'
  BY DEF Inv, TypeOK, LockHeld, AgentReceive, channel
<1>3. CompleterOK'
  BY DEF Inv, TypeOK, CompleterOK, Handling, Returning, AgentReceive, channel
<1>4. RequesterOK'
  BY DEF Inv, TypeOK, RequesterOK, AgentReceive, channel
<1> QED
  BY <1>1, <1>2, <1>3, <1>4 DEF Inv

(* The platform answers. *)
LEMMA PlatformStep == Inv /\ PlatformRespond => Inv'
<1>. SUFFICES ASSUME Inv, PlatformRespond PROVE Inv'
  OBVIOUS
<1>1. TypeOK'
  <2>1. mailbox' \in [Channels -> MessageType] /\ in' \in [Channels -> MessageType]
    BY Messages DEF Inv, TypeOK, PlatformRespond
  <2>2. locked' \in [Channels -> BOOLEAN] /\ event' \in [Channels -> 0..1]
    BY DEF Inv, TypeOK, PlatformRespond
  <2>3. working' \in 0..MaxCommands /\ got' \in 0..MaxAsked
    BY DEF Inv, TypeOK, PlatformRespond
  <2> QED
    BY <2>1, <2>2, <2>3 DEF Inv, TypeOK, PlatformRespond
<1>2. LockHeld'
  BY DEF Inv, TypeOK, LockHeld, PlatformRespond
<1>3. CompleterOK'
  BY DEF Inv, TypeOK, CompleterOK, Handling, Returning, PlatformRespond, Completer,
     Requester
<1>4. RequesterOK'
  BY Messages DEF Inv, TypeOK, RequesterOK, PlatformRespond
<1> QED
  BY <1>1, <1>2, <1>3, <1>4 DEF Inv

(* The platform rings the firmware's doorbell. *)
LEMMA PlatformRingStep == Inv /\ PlatformRing => Inv'
<1>. SUFFICES ASSUME Inv, PlatformRing PROVE Inv'
  OBVIOUS
<1>1. TypeOK'
  BY DEF Inv, TypeOK, PlatformRing
<1>2. LockHeld'
  BY DEF Inv, TypeOK, LockHeld, PlatformRing
<1>3. CompleterOK'
  BY DEF Inv, TypeOK, CompleterOK, Handling, Returning, PlatformRing
<1>4. RequesterOK'
  BY DEF Inv, TypeOK, RequesterOK, PlatformRing
<1> QED
  BY <1>1, <1>2, <1>3, <1>4 DEF Inv

-----------------------------------------------------------------------------
(* Before transport_start nothing is handled and nothing was sent. *)
LEMMA InitInv == Init => Inv
<1>. SUFFICES ASSUME Init PROVE Inv
  OBVIOUS
<1>1. /\ EmptyMailbox \in MessageType
      /\ Message(0, "none", TRUE, TRUE) \in MessageType
  BY DEF EmptyMailbox, Message, MessageType
<1>2. /\ mailbox \in [Channels -> MessageType] /\ in \in [Channels -> MessageType]
      /\ mailbox[Requester] = EmptyMailbox /\ in[Requester] = EmptyMailbox
  BY <1>1 DEF Init, Channels
<1>3. TypeOK
  <2>1. /\ working \in 0..MaxCommands /\ got \in 0..MaxAsked /\ wait \in 0..2
        /\ event \in [Channels -> 0..1]
    BY TransportAssumption DEF Init
  <2>2. /\ ready \in BOOLEAN /\ locked \in [Channels -> BOOLEAN]
        /\ bell \in [Channels -> BOOLEAN] /\ irq \in BOOLEAN
    BY DEF Init
  <2>3. fault \in BOOLEAN /\ overtaken \in BOOLEAN /\ stuck \subseteq Channels
    BY <2>2 DEF Init, Channels
  <2>4. /\ isr \in [pc : {"idle", "signal", "message", "error", "free",
                          "trigger", "ack"}, ch : Channels]
        /\ main \in {"start", "idle", "free", "trigger", "ring"}
        /\ platform \in {"idle", "rung", "ring"}
    BY DEF Init, Channels
  <2>5. agent \in [pc : {"idle", "ring", "waiting"}, sent : 0..MaxCommands,
                   intr : BOOLEAN]
    BY TransportAssumption DEF Init
  <2> QED
    BY <1>2, <2>1, <2>2, <2>3, <2>4, <2>5 DEF TypeOK
<1>4. LockHeld
  BY DEF Init, LockHeld
<1>5. CompleterOK
  BY DEF Init, CompleterOK, Handling, Returning, Channels
<1>6. RequesterOK
  BY <1>2, Messages, TransportAssumption DEF Init, RequesterOK
<1> QED
  BY <1>3, <1>4, <1>5, <1>6 DEF Inv

(* Inv is inductive. *)
LEMMA NextInv == Inv /\ [Next]_vars => Inv'
<1>. SUFFICES ASSUME Inv, [Next]_vars PROVE Inv'
  OBVIOUS
<1>1. CASE Isr
  BY <1>1, PreemptStep, SignalStep, PutStep, ErrorStep, FreeStep,
     ErrorTriggerStep, AcknowledgeStep DEF Isr
<1>2. CASE MainThread
  BY <1>2, StartStep, NotificationStep, EventStep, RespondStep, FreeStep,
     RespondTriggerStep, TransmitRingStep DEF MainThread
<1>3. CASE Transmit
  BY <1>3, TransmitStep
<1>4. CASE \E bad \in {FALSE, MayBeBad}, intr \in BOOLEAN : AgentSend(bad, intr)
  BY <1>4, SendStep
<1>5. CASE AgentRing \/ AgentReceive \/ PlatformRespond \/ PlatformRing
  BY <1>5, AgentRingStep, ReceiveStep, PlatformStep, PlatformRingStep
<1>6. CASE UNCHANGED vars
  BY <1>6 DEF vars, channel, Inv, TypeOK, LockHeld, CompleterOK, RequesterOK,
     Handling, Returning
<1> QED
  BY <1>1, <1>2, <1>3, <1>4, <1>5, <1>6 DEF Next

(* For any number of commands: a message that is being handled is the one  *)
(* the mailbox holds, so transport_respond answers that one, and nobody    *)
(* takes it again between the release of its lock and the FREE bit.        *)
THEOREM Channelled == Spec => []Inv
<1>1. Inv /\ [Next]_vars => Inv'
  BY NextInv
<1> QED
  BY <1>1, InitInv, PTL DEF Spec

(* Types and locks: no message of a channel is taken while another one is  *)
(* handled, and no lock is left behind but by an event that could not be   *)
(* put or a message whose handling failed (mod_transport.c, mod_scmi.c).   *)
THEOREM ChannelsSound == Spec => []Sound
<1>1. Inv => Sound
  BY DEF Inv, Sound
<1> QED
  BY <1>1, Channelled, PTL
-----------------------------------------------------------------------------
(* The mailbox of the completer channel is, for the abstract one, empty    *)
(* until transport_mailbox_init; that of the requester channel from the    *)
(* beginning.                                                              *)
LEMMA MailboxesInit ==
    Init => CompleterMailbox!MailboxInit /\ RequesterMailbox!MailboxInit
  BY DEF Init, CompleterMailbox!MailboxInit, RequesterMailbox!MailboxInit,
     EmptyMailbox

(* transport_mailbox_init fills in what the mailbox already is for the     *)
(* abstract one, since it happens once.                                    *)
LEMMA SetUpStutters ==
    ASSUME Inv, Start \/ ProcessNotification
    PROVE  /\ UNCHANGED CompleterMailbox!mailboxVars
           /\ mailbox'[Requester] = mailbox[Requester]
<1>1. ~ready /\ mailbox \in [Channels -> MessageType] /\ ready \in BOOLEAN
  BY DEF Inv, TypeOK, CompleterOK, Start, ProcessNotification, Idle
<1>2. /\ mailbox'[Requester] = mailbox[Requester]
      /\ \/ ready' = TRUE /\ mailbox'[Completer] = EmptyMailbox
         \/ UNCHANGED <<mailbox, ready>>
  BY <1>1 DEF Start, ProcessNotification, MailboxInit, Channels, Completer,
     Requester
<1> QED
  BY <1>1, <1>2, Messages DEF CompleterMailbox!mailboxVars

(* The agent fills a mailbox it owns with its next command. *)
LEMMA SendCommands ==
    ASSUME Inv, NEW bad, NEW intr, AgentSend(bad, intr)
    PROVE  /\ CompleterMailbox!Command
           /\ mailbox'[Requester] = mailbox[Requester]
<1>. DEFINE new == Message(agent.sent + 1, "command", bad, intr)
<1>1. /\ mailbox' = [mailbox EXCEPT ![Completer] = new]
      /\ ready /\ ready' = ready /\ mailbox[Completer].free
      /\ mailbox[Completer].token = agent.sent
      /\ mailbox \in [Channels -> MessageType]
  BY DEF Inv, TypeOK, CompleterOK, AgentSend
<1>2. mailbox'[Completer] = new /\ mailbox'[Requester] = mailbox[Requester]
  BY <1>1 DEF Channels, Completer, Requester
<1>3. new.free = FALSE /\ new.token = agent.sent + 1 /\ new.type = "command"
  BY DEF Message
<1> QED
  BY <1>1, <1>2, <1>3 DEF CompleterMailbox!Command

(* transport_respond, in the ISR or called by a protocol, answers a        *)
(* command that is still in the mailbox, with its header.                  *)
LEMMA RespondAnswers ==
    ASSUME Inv, SignalErrorFree \/ ScmiRespondFree
    PROVE  /\ CompleterMailbox!Answer
           /\ mailbox'[Requester] = mailbox[Requester]
<1>1. Returning /\ RespondFree /\ ready' = ready
  BY DEF SignalErrorFree, ScmiRespondFree, Returning
<1>2. /\ ready /\ ~mailbox[Completer].free
      /\ in[Completer] = mailbox[Completer]
      /\ mailbox \in [Channels -> MessageType] /\ Completer \in Channels
  BY <1>1 DEF Inv, TypeOK, CompleterOK, Channels
<1>3. /\ mailbox'[Completer] = Answered(mailbox[Completer])
      /\ mailbox'[Requester] = mailbox[Requester]
  BY <1>1, <1>2 DEF RespondFree, Completer, Requester
<1>4. LET new == Answered(mailbox[Completer])
      IN  /\ new.free = TRUE /\ new.token = mailbox[Completer].token
          /\ new.type = "response"
  BY <1>2 DEF Answered
<1> QED
  BY <1>1, <1>2, <1>3, <1>4 DEF CompleterMailbox!Answer

(* transport_transmit fills a mailbox the firmware owns. *)
LEMMA TransmitCommands ==
    ASSUME Inv, Transmit
    PROVE  /\ RequesterMailbox!Command
           /\ mailbox'[Completer] = mailbox[Completer] /\ ready' = ready
<1>. DEFINE new == Message(Asked + 1, "command", FALSE, TRUE)
<1>1. /\ mailbox' = [mailbox EXCEPT ![Requester] = new]
      /\ ready' = ready /\ mailbox[Requester].free
      /\ mailbox \in [Channels -> MessageType]
  BY DEF Inv, TypeOK, Transmit, CanTransmit
<1>2. mailbox'[Requester] = new /\ mailbox'[Completer] = mailbox[Completer]
  BY <1>1 DEF Channels, Completer, Requester
<1>3. /\ new.free = FALSE /\ new.token = mailbox[Requester].token + 1
      /\ new.type = "command"
  BY DEF Message, Asked
<1> QED
  BY <1>1, <1>2, <1>3 DEF RequesterMailbox!Command

(* The platform answers the command it was rung for, once. *)
LEMMA PlatformAnswers ==
    ASSUME Inv, PlatformRespond
    PROVE  /\ RequesterMailbox!Answer
           /\ mailbox'[Completer] = mailbox[Completer] /\ ready' = ready
<1>1. /\ mailbox' = [mailbox EXCEPT ![Requester] = Answered(@)]
      /\ ready' = ready /\ ~mailbox[Requester].free
      /\ mailbox \in [Channels -> MessageType] /\ Requester \in Channels
  BY DEF Inv, TypeOK, RequesterOK, PlatformRespond, Channels
<1>2. /\ mailbox'[Requester] = Answered(mailbox[Requester])
      /\ mailbox'[Completer] = mailbox[Completer]
  BY <1>1 DEF Completer, Requester
<1>3. LET new == Answered(mailbox[Requester])
      IN  /\ new.free = TRUE /\ new.token = mailbox[Requester].token
          /\ new.type = "response"
  BY <1>1 DEF Answered
<1> QED
  BY <1>1, <1>2, <1>3 DEF RequesterMailbox!Answer

(* Nothing else writes to a mailbox. *)
LEMMA OthersStutter ==
    ASSUME \/ \E c \in Channels : Preempt(c)
           \/ SignalMessage \/ PutMessageEvent \/ SignalError
           \/ SignalErrorTrigger \/ Acknowledge
           \/ \E c \in Channels : ProcessEvent(c)
           \/ ScmiRespond \/ ScmiRespondTrigger \/ TransmitRing
           \/ AgentRing \/ AgentReceive \/ PlatformRing
           \/ UNCHANGED vars
    PROVE  UNCHANGED <<mailbox, ready>>
  BY DEF Preempt, SignalMessage, PutMessageEvent, SignalError,
     SignalErrorTrigger, Acknowledge, ProcessEvent, ScmiRespond,
     ScmiRespondTrigger, TransmitRing, AgentRing, AgentReceive, PlatformRing,
     vars, channel

(* A step of the channels is a step of the abstract mailboxes. *)
LEMMA MailboxesNext ==
    Inv /\ [Next]_vars =>
        /\ [CompleterMailbox!Command \/ CompleterMailbox!Answer]_(
               CompleterMailbox!mailboxVars)
        /\ [RequesterMailbox!Command \/ RequesterMailbox!Answer]_(
               RequesterMailbox!mailboxVars)
<1>. SUFFICES ASSUME Inv, [Next]_vars
              PROVE  /\ \/ CompleterMailbox!Command
                        \/ CompleterMailbox!Answer
                        \/ UNCHANGED CompleterMailbox!mailboxVars
                     /\ \/ RequesterMailbox!Command
                        \/ RequesterMailbox!Answer
                        \/ UNCHANGED RequesterMailbox!mailboxVars
  OBVIOUS
<1>1. mailbox'[Completer] = mailbox[Completer] /\ ready' = ready
        => UNCHANGED CompleterMailbox!mailboxVars
  BY DEF CompleterMailbox!mailboxVars
<1>2. mailbox'[Requester] = mailbox[Requester]
        => UNCHANGED RequesterMailbox!mailboxVars
  BY DEF RequesterMailbox!mailboxVars
<1>3. CASE Start \/ ProcessNotification
  BY <1>2, <1>3, SetUpStutters
<1>4. CASE \E bad \in {FALSE, MayBeBad}, intr \in BOOLEAN : AgentSend(bad, intr)
  BY <1>2, <1>4, SendCommands
<1>5. CASE SignalErrorFree \/ ScmiRespondFree
  BY <1>2, <1>5, RespondAnswers
<1>6. CASE Transmit
  BY <1>1, <1>6, TransmitCommands
<1>7. CASE PlatformRespond
  BY <1>1, <1>7, PlatformAnswers
<1>8. CASE \/ \E c \in Channels : Preempt(c)
           \/ SignalMessage \/ PutMessageEvent \/ SignalError
           \/ SignalErrorTrigger \/ Acknowledge
           \/ \E c \in Channels : ProcessEvent(c)
           \/ ScmiRespond \/ ScmiRespondTrigger \/ TransmitRing
           \/ AgentRing \/ AgentReceive \/ PlatformRing
           \/ UNCHANGED vars
  BY <1>1, <1>2, <1>8, OthersStutter
<1> QED
  BY <1>3, <1>4, <1>5, <1>6, <1>7, <1>8 DEF Next, Isr, MainThread

(* Both channels implement the one-slot mailbox, for any number of         *)
(* commands: the firmware writes to a mailbox only while it owns it, and   *)
(* answers a command once and with the header of that command, whatever    *)
(* the order of doorbells, ISR, main thread and the other processors.      *)
THEOREM MailboxRefinement == Spec => ImplementsMailbox
<1>1. Inv /\ [Next]_vars =>
        /\ [CompleterMailbox!Command \/ CompleterMailbox!Answer]_(
               CompleterMailbox!mailboxVars)
        /\ [RequesterMailbox!Command \/ RequesterMailbox!Answer]_(
               RequesterMailbox!mailboxVars)
  BY MailboxesNext
<1> QED
  BY <1>1, MailboxesInit, Channelled, PTL DEF Spec, ImplementsMailbox,
     CompleterMailbox!MailboxSpec, RequesterMailbox!MailboxSpec
=============================================================================
