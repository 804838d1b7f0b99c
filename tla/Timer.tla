-------------------------------- MODULE Timer --------------------------------
(***************************************************************************)
(* The alarms of a timer device: module/timer/src/mod_timer.c over the     *)
(* driver module/gtimer/src/mod_gtimer.c, its compare register and its     *)
(* interrupt.                                                              *)
(*                                                                         *)
(* The thread calls the alarm API, the timer interrupt preempts it between *)
(* any two of its steps.  A part of a call that runs with the timer        *)
(* disabled cannot meet its interrupt and is one step; alarm_start is two, *)
(* since the interrupt may come after the old alarm is stopped and before  *)
(* the new one is queued.  The interrupt is two steps, the callback runs   *)
(* between them.  gtimer's driver functions never fail.                    *)
(*                                                                         *)
(* Times are relative to the counter: a timestamp of n is n ticks ahead, 0 *)
(* or less is due.  The 64-bit counter never wraps (mod_gtimer.c:135), so  *)
(* nothing is lost and time needs no bound.  Once an alarm is MaxLate      *)
(* ticks late, a pending interrupt, a callback or an alarm_start under way *)
(* for it ends before the counter advances; times further in the past than *)
(* MaxPast are not told apart.                                             *)
(***************************************************************************)
EXTENDS Integers, Sequences, FiniteSets, SequencesExt

CONSTANTS
    Alarms,          \* the sub-elements of the timer
    NoAlarm,
    Delays,          \* the delays callers ask for, in ticks
    Periods,         \* those of periodic alarms
    MinTimestamp,    \* GTIMER_MIN_TIMESTAMP
    MaxLate,         \* bound on the latency of the interrupt
    MaxPast,         \* the furthest in the past a time is kept
    MaxCalls,        \* calls of the API in a behaviour
    CarefulCallers   \* see Permitted

ASSUME TimerAssumption ==
    /\ IsFiniteSet(Alarms) /\ NoAlarm \notin Alarms
    /\ Delays \subseteq Nat /\ Periods \subseteq Nat \ {0}
    /\ MinTimestamp \in Nat \ {0}
    /\ MaxLate \in Nat /\ MaxPast \in Nat \ {0} /\ MaxCalls \in Nat
    /\ CarefulCallers \in BOOLEAN

VARIABLES
    alarms_active,   \* the active queue, by timestamp
    started, activated, periodic,
    delay,           \* microseconds, as ticks
    timestamp,       \* when the alarm is due
    enabled,         \* CNTBASE_P_CTL: enabled and not masked
    cval,            \* CNTBASE_P_CVAL
    pending,         \* the interrupt is pending in the controller
    masked,          \* interrupts are disabled globally by the thread
    starting,        \* the alarm in the middle of alarm_start, or NoAlarm
    isr,             \* the alarm whose callback runs, or NoAlarm
    calls            \* calls of the API so far

alarmVars == <<alarms_active, started, activated, periodic, delay, timestamp>>
timerVars == <<enabled, cval, pending>>
vars == <<alarmVars, timerVars, masked, starting, isr, calls>>

Larger(x, y) == IF x < y THEN y ELSE x

Init ==
    /\ alarms_active = <<>>
    /\ started = [a \in Alarms |-> FALSE]
    /\ activated = [a \in Alarms |-> FALSE]
    /\ periodic = [a \in Alarms |-> FALSE]
    /\ delay = [a \in Alarms |-> 0]
    /\ timestamp = [a \in Alarms |-> 0]
    /\ enabled = FALSE /\ cval = 0 /\ pending = FALSE
    /\ masked = FALSE
    /\ starting = NoAlarm /\ isr = NoAlarm
    /\ calls = 0
-----------------------------------------------------------------------------
(* What the driver does. *)

(* enable with the compare value c.  One that has passed raises the        *)
(* interrupt at once, or never: it depends on the device (mod_gtimer.c has *)
(* a comment on the FVP, where it does not).                               *)
Enable(c) == enabled' = TRUE /\ pending' \in {pending, pending \/ c <= 0}

(* Mutant: no minimal distance, so that the compare value may be past. *)
SetTimerNow(t) == Larger(0, t)

(* set_timer: never closer than MinTimestamp. *)
SetTimer(t) == Larger(MinTimestamp, t)

(* _configure_timer_with_next_alarm for the queue q.  With no alarm it     *)
(* leaves the timer as it is.  on, p: enabled, pending before the call.    *)
ConfigureTimer(q, ts, on, p) ==
    /\ enabled' = (on \/ q # <<>>)
    /\ cval' = IF q = <<>> THEN cval ELSE SetTimer(ts[Head(q)])
    /\ pending' = p

(* Mutant: the alarm is put at the tail. *)
InsertTail(q, a, ts) == Append(q, a)

(* _insert_alarm_ctx_into_active_queue: before the first alarm that is not *)
(* due earlier.                                                            *)
Insert(q, a, ts) ==
    LET At(i) == /\ \A j \in 1..(i - 1) : ts[q[j]] < ts[a]
                 /\ i <= Len(q) => ts[q[i]] >= ts[a]
    IN  InsertAt(q, CHOOSE i \in 1..(Len(q) + 1) : At(i), a)

(* fwk_list_remove of an alarm that is in the queue. *)
Dequeue(q, a) == RemoveAt(q, CHOOSE i \in DOMAIN q : q[i] = a)
-----------------------------------------------------------------------------
(* The rest of alarm_stop for an alarm that was started: the pending       *)
(* interrupt is cleared, the alarm leaves the queue.  One that is not in   *)
(* the queue has fired, and the timer stays disabled.                      *)
Unqueue(a) ==
    IF activated[a]
      THEN LET q == Dequeue(alarms_active, a)
           IN  /\ alarms_active' = q
               /\ activated' = [activated EXCEPT ![a] = FALSE]
               /\ ConfigureTimer(q, timestamp, FALSE, FALSE)
      ELSE /\ enabled' = FALSE
           /\ UNCHANGED <<alarms_active, activated, cval, pending>>

(* Mutant: the pending interrupt of the stopped alarm is not cleared. *)
StopKeepsPending(a) ==
    /\ started' = [started EXCEPT ![a] = FALSE]
    /\ IF started[a] /\ activated[a]
         THEN LET q == Dequeue(alarms_active, a)
              IN  /\ alarms_active' = q
                  /\ activated' = [activated EXCEPT ![a] = FALSE]
                  /\ ConfigureTimer(q, timestamp, FALSE, pending)
         ELSE UNCHANGED <<alarms_active, activated, timerVars>>
    /\ UNCHANGED <<periodic, delay, timestamp>>

(* alarm_stop: FWK_E_STATE for an alarm that is not started, after the     *)
(* timer is enabled again whether or not an alarm is active.               *)
AlarmStop(a) ==
    /\ started' = [started EXCEPT ![a] = FALSE]
    /\ IF started[a]
         THEN Unqueue(a)
         ELSE Enable(cval) /\ UNCHANGED <<alarms_active, activated, cval>>
    /\ UNCHANGED <<periodic, delay, timestamp>>

Call == calls < MaxCalls /\ calls' = calls + 1
Thread == isr = NoAlarm /\ starting = NoAlarm

(* The calls after which the timer is armed exactly while an alarm is      *)
(* active.  Left out by careful callers: outside the callbacks, the stop   *)
(* of a one-shot alarm that has fired; the calls that enable the timer of  *)
(* an empty queue or, in a callback, with a compare value that has passed; *)
(* and a callback that stops the alarm the thread is about to queue.       *)
Permitted(a) ==
    CarefulCallers => /\ a # starting
                      /\ IF started[a] THEN activated[a] \/ isr # NoAlarm
                                       ELSE Thread /\ alarms_active # <<>>

(* alarm_stop called by the thread, or by a callback.  From the ISR of     *)
(* another interrupt it is refused (FWK_E_ACCESS) and changes nothing.     *)
Stop(a) ==
    /\ Thread \/ isr # NoAlarm
    /\ Call
    /\ Permitted(a)
    /\ AlarmStop(a)
    /\ UNCHANGED <<masked, starting, isr>>

(* alarm_start: an alarm that is started is stopped first, then it is      *)
(* described and given its timestamp.  FWK_E_ACCESS from an ISR.           *)
StartDescribe(a, d, p) ==
    /\ Thread
    /\ Call
    /\ starting' = a
    /\ started' = [started EXCEPT ![a] = TRUE]
    /\ periodic' = [periodic EXCEPT ![a] = p]
    /\ delay' = [delay EXCEPT ![a] = d]
    /\ timestamp' = [timestamp EXCEPT ![a] = d]
    /\ IF started[a] THEN Unqueue(a)
                     ELSE UNCHANGED <<alarms_active, activated, timerVars>>
    /\ UNCHANGED <<masked, isr>>

(* alarm_start, from disable on. *)
StartQueue ==
    /\ starting # NoAlarm /\ isr = NoAlarm
    /\ LET q == Insert(alarms_active, starting, timestamp)
       IN  alarms_active' = q /\ ConfigureTimer(q, timestamp, FALSE, pending)
    /\ activated' = [activated EXCEPT ![starting] = TRUE]
    /\ starting' = NoAlarm
    /\ UNCHANGED <<started, periodic, delay, timestamp, masked, isr, calls>>

(* get_next_alarm_remaining: the timer is disabled while the head is read, *)
(* then enabled, whether or not an alarm is active.                        *)
GetNextAlarmRemaining ==
    /\ Thread
    /\ Call
    /\ CarefulCallers => alarms_active # <<>>
    /\ Enable(cval)
    /\ UNCHANGED <<alarmVars, cval, masked, starting, isr>>
-----------------------------------------------------------------------------
(* timer_isr up to the callback.  With an empty queue it ends there, the   *)
(* timer disabled: gtimer has no overflow_handler, this is fwk_unexpected. *)
IsrPop ==
    /\ pending /\ ~masked /\ isr = NoAlarm
    /\ enabled' = FALSE /\ pending' = FALSE
    /\ IF alarms_active = <<>>
         THEN UNCHANGED <<alarms_active, activated, isr>>
         ELSE /\ isr' = Head(alarms_active)
              /\ alarms_active' = Tail(alarms_active)
              /\ activated' = [activated EXCEPT ![Head(alarms_active)] = FALSE]
    /\ UNCHANGED <<started, periodic, delay, timestamp, cval, masked, starting,
                   calls>>

(* Mutant: the callback may have stopped the alarm, nobody looks. *)
IsrEndNoCheck ==
    /\ isr # NoAlarm /\ isr' = NoAlarm
    /\ IF periodic[isr]
         THEN LET ts == [timestamp EXCEPT ![isr] = @ + delay[isr]]
                  q  == Insert(alarms_active, isr, ts)
              IN  /\ timestamp' = ts
                  /\ alarms_active' = q
                  /\ activated' = [activated EXCEPT ![isr] = TRUE]
                  /\ ConfigureTimer(q, ts, enabled, pending)
         ELSE /\ ConfigureTimer(alarms_active, timestamp, enabled, pending)
              /\ UNCHANGED <<timestamp, alarms_active, activated>>
    /\ UNCHANGED <<started, periodic, delay, masked, starting, calls>>

(* timer_isr after the callback: a periodic alarm that was not stopped is  *)
(* queued again, one period after it was due.                              *)
IsrEnd ==
    /\ isr # NoAlarm /\ isr' = NoAlarm
    /\ IF periodic[isr] /\ started[isr]
         THEN LET ts == [timestamp EXCEPT ![isr] = @ + delay[isr]]
                  q  == Insert(alarms_active, isr, ts)
              IN  /\ timestamp' = ts
                  /\ alarms_active' = q
                  /\ activated' = [activated EXCEPT ![isr] = TRUE]
                  /\ ConfigureTimer(q, ts, enabled, pending)
         ELSE /\ ConfigureTimer(alarms_active, timestamp, enabled, pending)
              /\ UNCHANGED <<timestamp, alarms_active, activated>>
    /\ UNCHANGED <<started, periodic, delay, masked, starting, calls>>

(* fwk_interrupt_global_disable and _enable around code of the thread. *)
Mask == isr = NoAlarm /\ ~masked /\ masked' = TRUE
        /\ UNCHANGED <<alarmVars, timerVars, starting, isr, calls>>
Unmask == masked /\ masked' = FALSE
          /\ UNCHANGED <<alarmVars, timerVars, starting, isr, calls>>

(* The counter advances; the interrupt is raised when it reaches the value *)
(* of the compare register.  Only the timestamps of alarms in use matter.  *)
InUse(a) == activated[a] \/ a \in {starting, isr}

(* The alarms whose handling has begun. *)
Overdue == ({starting, isr} \ {NoAlarm}) \cup
           (IF pending /\ alarms_active # <<>> THEN {Head(alarms_active)}
                                              ELSE {})

Tick ==
    /\ \A a \in Overdue : timestamp[a] >= -MaxLate
    /\ timestamp' = [a \in Alarms |->
           IF InUse(a) THEN Larger(-MaxPast, timestamp[a] - 1) ELSE 0]
    /\ cval' = Larger(0, cval - 1)
    /\ pending' = (pending \/ (enabled /\ cval = 1))
    /\ UNCHANGED <<alarms_active, started, activated, periodic, delay, enabled,
                   masked, starting, isr, calls>>

Next ==
    \/ \E a \in Alarms : Stop(a)
    \/ \E a \in Alarms, d \in Delays : StartDescribe(a, d, FALSE)
    \/ \E a \in Alarms, d \in Periods : StartDescribe(a, d, TRUE)
    \/ StartQueue
    \/ GetNextAlarmRemaining
    \/ IsrPop \/ IsrEnd
    \/ Mask \/ Unmask
    \/ Tick

Spec == Init /\ [][Next]_vars

(* Time passes; code, callbacks and masked sections end; an interrupt that *)
(* is pending and keeps being unmasked is taken.                           *)
Fairness ==
    /\ WF_vars(Tick)
    /\ WF_vars(StartQueue) /\ WF_vars(IsrEnd) /\ WF_vars(Unmask)
    /\ SF_vars(IsrPop)

FairSpec == Spec /\ Fairness
-----------------------------------------------------------------------------
(* The types; the queue is never longer than the set of alarms. *)
TypeOK ==
    /\ alarms_active \in Seq(Alarms)
    /\ Len(alarms_active) <= Cardinality(Alarms)
    /\ started \in [Alarms -> BOOLEAN] /\ activated \in [Alarms -> BOOLEAN]
    /\ periodic \in [Alarms -> BOOLEAN]
    /\ delay \in [Alarms -> Nat] /\ timestamp \in [Alarms -> Int]
    /\ enabled \in BOOLEAN /\ cval \in Nat
    /\ pending \in BOOLEAN /\ masked \in BOOLEAN
    /\ starting \in Alarms \cup {NoAlarm} /\ isr \in Alarms \cup {NoAlarm}
    /\ calls \in 0..MaxCalls

(* The active queue holds each activated alarm once and no other, ordered  *)
(* by timestamp, through any interleaving of restarts, interrupts,         *)
(* callbacks that stop alarms and periodic alarms queued again             *)
(* (_insert_alarm_ctx_into_active_queue, alarm_stop, timer_isr).           *)
QueueSound ==
    /\ \A a \in Alarms : activated[a] <=> \E i \in DOMAIN alarms_active :
                                              alarms_active[i] = a
    /\ \A i, j \in DOMAIN alarms_active : i < j =>
           /\ alarms_active[i] # alarms_active[j]
           /\ timestamp[alarms_active[i]] <= timestamp[alarms_active[j]]

(* Between calls the timer is enabled exactly when an alarm is active, and *)
(* set neither before the first alarm nor later than the driver's minimum  *)
(* distance allows (_configure_timer_with_next_alarm, set_timer).          *)
Armed ==
    Thread =>
        /\ enabled <=> alarms_active # <<>>
        /\ enabled => LET t == timestamp[Head(alarms_active)]
                      IN  t <= cval /\ cval <= Larger(MinTimestamp, t)

(* Types, queue and compare register agree between any two steps of the    *)
(* thread and the ISR (struct timer_dev_ctx, struct alarm_sub_element_ctx).*)
Sound == TypeOK /\ QueueSound /\ Armed

(* The interrupt is never pending without an alarm that is due: timer_isr  *)
(* pops the head without looking at the time, and calls fwk_unexpected     *)
(* when there is none (mod_timer.c:565).                                   *)
NotEarly ==
    pending => /\ alarms_active # <<>>
               /\ timestamp[Head(alarms_active)] <= 0

(* An alarm that was stopped is not in the queue and so does not trigger   *)
(* (mod_timer.h: stop "will prevent the alarm from triggering").           *)
StoppedIsSilent == \A a \in Alarms : activated[a] => started[a]

(* An active alarm is triggered or stopped in the end: mod_timer.h says    *)
(* that start makes it trigger after the time given.                       *)
AlarmsTrigger == \A a \in Alarms : activated[a] ~> ~activated[a]
=============================================================================
