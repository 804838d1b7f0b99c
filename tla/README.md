# TLA+ models of the SCP firmware

Specifications of the System Control Processor firmware in this repository: an
event-driven framework (`framework/`), hardware abstraction and service modules
(`module/`), processor ports (`arch/`) and platform configurations (`product/`).
Paths below are relative to the repository root.

To check a run: `tlc -config <cfg> <module>`, with the pairs listed under "Runs".
To check the proofs: `tlapm <module>.tla` for each module whose name ends in `Proofs`.

## 1. The system

One processor runs a main thread: start-up (`fwk_arch_init`), then a loop that
takes events from a queue and calls the `process_event` or
`process_notification` function of the module the event is for. Interrupt
service routines preempt the main thread at any point that is not a critical
section; they do not nest on Arm-M, where all IRQs have one priority. A module
never blocks. It defers the answer to a request as a *delayed response*, which
the framework keeps in a list of the module or element until it is completed.

| Component | State | Operations | Interacts through |
|---|---|---|---|
| Event framework (`fwk_core.c`, `fwk_delayed_resp.c`) | event pool, event queue, ISR queue, current event, cookie counter, delayed response lists | put (standard, light, delayed), handle, free, pull ISR event, suspend | called by every module and ISR; calls the handlers |
| Notifications (`fwk_notification.c`) | subscription lists, free structures | subscribe, unsubscribe, notify | events of the framework |
| Module framework (`fwk_module.c`, `fwk_arch.c`) | contexts and states of modules and elements, stage, `bind_id` | init, bind, start, stop, bind requests | callbacks to modules |
| Power domain HAL (`module/power_domain`) | tree of domains: requested, current and driver states, pending response, two notification contexts; suspend and shutdown | set state, report, reset, suspend, shutdown, notification responses | requests and reports are events; drivers; notifications; delayed responses |
| Timer HAL (`module/timer`, `module/gtimer`) | queue of active alarms, compare register, enable bit | start, stop, remaining time of the next alarm; interrupt and callbacks | callbacks to modules, from an ISR |
| Transport, MHU, SCMI core (`module/transport`, `module/mhu`, `module/scmi`) | mailbox in shared memory, channel lock, copy of the message, doorbells | doorbell ISR, message event, respond, transmit, release | shared memory and doorbells with other processors; events; protocols |
| DVFS (`module/dvfs`) | current operating point, request, pending request, state | set level, get current, start; answers of supply and clock; retry | PSU and clock HALs, alarms, events |
| I2C HAL and driver (`module/i2c`, `module/dw_apb_i2c`) | state of the device, request, list of parked requests; transfer under way | transmit, receive, both; completion, reload | delayed responses, the driver's interrupt |
| PSU, SPMI, clock, sensor, system power, resource permissions, power capping, thermal | one operation per device, tables, controllers | | the framework, and one another by bound APIs; not modelled |
| Logging and ring buffer | ring, message being printed, dropped count | print, unbuffer, flush | main loop |
| Drivers, ports, products, debugger, tests | registers, tables | | not modelled |

What is hard here:

* **Preemption.** The pool, the queues and the cookie counter are shared with
  ISRs, under critical sections for some accesses only.
* **Exhaustion.** The pool has a fixed size. A response that finds no free
  structure is dropped, and nobody is told.
* **Deferral.** A request, its cookie and its parked response are three things in
  three places. `fwk_put_event` picks the list to search from the event being
  handled.
* **Late events.** A power domain report may describe a transition that a newer
  request has superseded. Subscribers answer when they like.
* **Partial failure.** Drivers refuse, subscribers disagree, callbacks fail.
* **Idle.** An interrupt between the last look at the queues and `wfe`.
* **Hardware in step.** A compare register, a doorbell, a FREE bit, a voltage: the
  code keeps a record of them and acts on the record.

What makes each component correct:

* events: no structure leaks or is linked twice; order is kept; an answer goes to
  whoever asked; every event is handled; a cookie names one request;
* notifications: one subscription per entity; the notifier waits for exactly
  those who will answer;
* modules: nothing is used before it is initialised, started before it is bound,
  or run before it is started; start-up ends;
* power domains: requested and actual states respect the tree; deferred
  transitions are started; requests are answered, truthfully; subscribers are
  heard before a transition and before a shutdown;
* alarms: the timer is set for the first of the queue, none fires early or after
  it was stopped, all fire;
* mailboxes: each side writes only what it owns, a command has one answer, a lock
  is held while a message is handled and no longer;
* DVFS: the clock is never faster than the voltage supports, what is reported is
  what the hardware has, the last request wins, the domain comes to rest;
* I2C: a completion is given to the request it belongs to, every request is
  answered.

## 2. Plan

Done, in this order: `FwkCore` with `FwkEvents` and its proofs,
`FwkNotification`, `FwkModule`, `PowerDomain`, `Timer`, `Transport` with `Mailbox`
(the transport composed with its doorbells and with the SCMI core), `Dvfs`
(composed with supply, clock and alarm), `I2c` (the HAL composed with its driver and
with the framework's delayed responses).

The theorems, in the order they were proved: the structure of `FwkCore`; the
invariants of `FwkModule`; `Sound` of `Transport` and that it implements `Mailbox`;
those of `Dvfs`, `Timer`, `FwkNotification` and `I2c`; the cookies of `FwkCore` and
that it implements `FwkEvents`; the invariants of `PowerDomain`.

Next, if the model grows again: the SPMI and PSU HALs (like `I2c`), `FwkLog`
with its ring, the system power module on `PowerDomain`.

## 3. Modules

### FwkCore, FwkEvents

A slot is an event structure of the table that `__fwk_init` allocates; the
queues and lists are sequences of slots, and `event` holds their contents. Of an
event the model keeps source, target, cookie and flags. `params` names the
request whose result a response carries; identifiers and parameter bytes are left
out. `pc` is the position of the main thread:

| `pc` | code |
|---|---|
| `start` | start-up, before the main loop |
| `put` | inside `put_event`, between the read and the write of the cookie counter |
| `loop`, `handler`, `free` | `fwk_process_event_queue`, a module's handler, the end of `process_next_event` |
| `log`, `suspend` | `fwk_log_unbuffer`, `fwk_arch_suspend` |

The main thread is cut where an ISR can see a difference. `put_event` is two
steps because `event_cookie_counter++` is not in a critical section. Pushes and
pops of the pool and of the ISR queue by the main thread are in one; the event
queue is not touched by ISRs. An ISR is one step. The build modelled is the
release build, where `fwk_unexpected()` does nothing.

A handler may do any sequence of puts, then returns without an answer, with one,
or defers it. The response it defers is parked with the entity it puts in charge,
its own as a rule, another one in `mod_power_domain.c:361`. `deferred` is what
modules remember of such requests. `AnswerByCookie` and `AnswerFirst` are the two
ways in which modules look one up.

`FwkEvents` says what modules rely on, without slots and cookies: messages
delivered one at a time and in order, ISR messages when no other waits, answers to
whoever asked. `ImplementsEvents` is the refinement: each queue of slots is read
as the sequence of their contents.

### FwkNotification

Subscription lists per notification and source, and the queues as messages. The
loop of `send_notifications` is one step per subscriber, as ISRs may take event
structures between two puts. The notifier is the one of the power domain module:
what `fwk_notification_notify` counts is what it waits for, and it does not notify
again before (`mod_power_domain.c:637`). Slots are counted, not named; `FwkCore`
has them.

### FwkModule

`pc`, `m`, `e` name the callback that runs and for whom. A step is its return,
with all the framework does before the next callback. Bind requests may come from
any callback. In sub-system mode (`arch/none/optee`) `fwk_arch_init` returns and may
be called again, as may `fwk_arch_deinit`.

### PowerDomain

`pd` is `pd_ctx_table`: `requested`, `current`, `toDriver`
(`state_requested_to_driver`), `driver` (`driver_state`), `response` (the request
whose response is pending, 0 if none), `pre` and `post` (the two notification
contexts). `hw` is the true state of the hardware and `target` what an
asynchronous driver is working on, both outside the code. `answers` records every
set state request and what was sent back. `suspend` and `shutdown` are the fields
of `mod_pd_ctx` with, respectively, the queued request and the responses under way.

Handlers run in the only thread and are atomic. They call each other, so they are
operators from a record of all variables to the next one. A request is an action
with arbitrary accepted parameters at any time, because it may have been queued
before any report still in the queue. Reports are handled in the order they were
put. With `Serial` a request is made only when nothing is under way, which is how
a single careful agent would use the module; without it requests overlap. A driver
in `Async` reports later and forgets an unfinished target when asked again. Any
other changes the hardware and puts the report before it returns, as `ppu_v1` does.
`refuse` is the set of drivers that say no in this handler. At a shutdown a driver in
`ShutdownDrivers` has a shutdown function, which may answer FWK_PENDING and so end the
loop over the domains; any other one is told to go off and reports it; both are
recorded as off whatever they answer.

A composite state is the sequence of its levels' states. A subscriber count of 0
stands also for `disable_state_transition_notifications`. `get_state` has no
effect, and a warm reset only sends a notification. A set state response is put by
`fwk_put_event` with the handled event's target as its source, hence the parameter
`me` of `SendDelayedResponse`.

Not modelled here: pool exhaustion (the other modules have it),
`enable_system_suspend_notification`, and the delayed response of a shutdown, which
`pd_system_shutdown` never requests.

### Timer

The queue is a sequence of alarms, the fields of an alarm are functions on alarms.
`enabled`, `cval` and `pending` are the compare register, its control bits and the
interrupt controller. The interrupt is raised when the counter reaches the compare
value of an enabled timer; whether a value that has passed raises it when it is
written is left open, as the comment at `mod_gtimer.c:138` says of the FVP, so that
the driver's minimal distance matters. Times are relative to the counter, so that time
is unbounded in a finite model. The thread, the interrupt and the counter interleave;
`alarm_start` is cut between the stop of the old alarm and the queueing of the new
one, where the timer interrupt may come, and `timer_isr` is cut at its callback,
which may stop alarms. `Mask` and `Unmask` are the critical sections of other code,
in which an interrupt stays pending.

`CarefulCallers` leaves out calls after which the code as it stands does not keep
the timer armed: the stop of a one-shot alarm that has fired
(`mod_timer.c:442`, the subject of timer_stop_fired); calls that enable the timer
when no alarm is active (`mod_timer.c:431`, `get_next_alarm_remaining`), after which
an interrupt finds an empty queue; a callback that stops the alarm the thread is
about to queue.

### Transport, Mailbox

Two channels: one on which an agent sends commands and the firmware answers, one on
which the firmware sends commands and another platform answers. Agent and platform
are other processors, so they step at any time, also inside critical sections of the
firmware. The mailbox is its FREE bit, a token, its type, whether the length is bad,
and the interrupt flag. The ISR (`mhu_isr`) is cut where it gives a mailbox away and
before it acknowledges the doorbell; a handler is cut where it gives a mailbox away,
before it rings. `transport_respond` is cut between the release of the lock and the
FREE bit: interrupts are masked there, so the doorbell ISR does not run (`Preempt`),
and other processors do. With `HandlersMayFail` the service leaves a message without
an answer or a release, as `mod_scmi.c:1248`, `mod_scmi.c:1306` and the size check of
`mod_transport.c:243` do; a protocol whose handler succeeds answers in the end.
`fault`, `overtaken` and `stuck` record that something happened
after which the code is known not to answer; the properties name them as exceptions.

`Mailbox` is what both sides rely on: one slot, owned by one side at a time, a
command replaced by its own answer. `ImplementsMailbox` is the refinement for both
channels. A mailbox that is not initialised yet is read as an empty one.

### Dvfs

One domain. `next` is what it waits for: an event, a device, the alarm. The supply
and the clock answer in the call, later, or with an error, at each of the two
operations of a change; `hw` is what they have been set to. A handler that makes
several calls has a set of outcomes (`HandleSetOpp`). An operating point is its level, 0 while
none is known. With `PutMayFail` an event finds no structure, that of the
performance controller (`mod_dvfs.c:605`) included, and the alarm of a retry may not
start (`mod_dvfs.c:238`); after either the domain waits for nothing (`next = "lost"`).
`dvfs_set_level` has a branch for interrupt context (`mod_dvfs.c:476`); no interrupt
handler in the repository calls it, and the model has no such caller.

### I2c

One device, its events in the framework's two queues, and the list of parked
requests, which is also the HAL's queue. `dev` is the driver: the transfer on the
bus, the request whose buffer the next interrupt fills, and what ended how.
`PoolMayEmpty` lets any put or parking fail; `lost` records it. With `AbortsStop` an
aborted transfer may have STOP pending too, which `i2c_isr` takes for success
(`mod_dw_apb_i2c.c:119`); `misread` is the requests this happened to. The runs are of
a controller that raises one of the two.

## 4. Runs

### Passing

| Run | cfg, module | Shows |
|---|---|---|
| core_safety | FwkCore.cfg, MCFwkCore | `TypeOK`, `OneOwner`, `DelayedListsSound`, `CookieIdentifies`, `AnswerReachesRequester`, and the refinement `ImplementsEvents` |
| core_live | FwkCoreLive.cfg, MCFwkCore | `EventsDelivered` |
| notification | FwkNotification.cfg, MCFwkNotification | `TypeOK`, `SubscriptionsSound`, `NeverEarly`, `AllResponsesArrive`, with ISRs that take event structures |
| module | FwkModule.cfg, MCFwkModule | `TypeOK`, `TargetsInitialized`, `StartsAfterBind`, `StartUpEnds`, with callbacks that fail |
| pd_serial | PowerDomain.cfg, MCPowerDomain | one request at a time, composite ones included, drivers that accept: `NoneForgotten`, `RequestsAnswered` |
| pd_refusals | PowerDomainRefusals.cfg, MCPowerDomain | two cores, drivers and subscribers that may refuse, a suspend: `TypeOK`, `RequestedTree`, `HardwareTree`, `RecordedStates`, `AgreedFirst` |
| pd_overlap | PowerDomainOverlap.cfg, MCPowerDomain | overlapping requests without composite states, reset, suspend, shutdown: `WaitingOwned`, `ShutdownWaits` |
| timer | Timer.cfg, MCTimer | `Sound` (types, queue, compare register), `NotEarly`, `StoppedIsSilent`, `AlarmsTrigger` |
| dvfs | Dvfs.cfg, MCDvfs | `Sound` (types and `VoltageSafe`), `ReportTruthful`, `LastRequestWins`, `Settles`, with failures and lost events |
| i2c | I2c.cfg, MCI2c | `Sound` (types and `InFlightIsFirst`), `AnswerTruthful`, `RequestsAnswered`, with failing transfers and a pool that runs out |
| transport | Transport.cfg, MCTransport | `Sound` (types and `LockHeld`), the refinement `ImplementsMailbox`, `CommandsAnswered`, `ResponsesHandled`, with bad messages, a pool that runs out, doorbells from before the reset |

### A violation

timer_stop_fired (TimerStopFired.cfg, MCTimer) drops `CarefulCallers`. A one-shot
alarm fires while another is queued behind it; then it is stopped, as
`product/automotive-rd/rdaspen/module/pfdi_monitor/src/mod_pfdi_monitor.c:510` does
with an alarm that may have fired. `alarm_stop` has disabled the timer and returns at
`mod_timer.c:443`; the other alarm never triggers (`AlarmsTrigger`), although
`mod_timer.h:275` says that start makes it.

### Configurations that fail

These are kept to show where the code leaves the properties above. None is a run:
TLC ends with a counterexample that reads as a behaviour of the code.

| cfg, module | Property | Behaviour |
|---|---|---|
| FwkCoreIsrCookie.cfg, MCFwkCore | `CookieIdentifies` | an ISR puts a request inside `event_cookie_counter++`; two parked responses share a cookie (`fwk_core.c:142`; `fwk_event.h:62` calls it "Unique") |
| PowerDomainOverwritten.cfg, MCPowerDomain | `WaitingOwned` | a composite request overwrites what was asked of an ancestor; the response to the earlier request is looked for in the list of the wrong domain and is never sent (`mod_power_domain.c:294`) |
| PowerDomainStaleReport.cfg, MCPowerDomain | `HardwareTree` | overlapping requests start a transition on an obsolete `current_state` (`power_domain_state_checks.c:280`) |
| PowerDomainMixed.cfg, MCPowerDomain | `NoneForgotten` | core off to sleep with cluster on to sleep: the core is never started (`mod_power_domain.c:706`) |
| DvfsRetry.cfg, MCDvfs | `RetriesMade` | a request that failed is compared with itself, still in the context, and dropped instead of retried (`mod_dvfs.c:165`; `module_dvfs_architecture.md:115` says it is attempted again) |
| DvfsDropped.cfg, MCDvfs | `NoneDropped` | a request for the operating point on record, made while another is being set, is dropped (`mod_dvfs.c:269`); `module_dvfs_architecture.md:43-47` and `79-87` say that a request made while one is processed is queued |
| I2cAbort.cfg, MCI2c | `AnswerTruthful` | STOP and abort are pending together; `i2c_isr` reports FWK_SUCCESS for a transfer that was aborted (`mod_dw_apb_i2c.c:119`) |
| I2cBuffer.cfg, MCI2c | `BufferReturned` | a receive whose controller cannot be enabled leaves `read_on_going` set; the interrupt of the next transfer writes into the buffer of the caller that was told of the failure (`mod_dw_apb_i2c.c:205`; `mod_i2c.h:175`) |

The models have further behaviours that a reader of the code should know of:

* light events that ask for a response and are deferred keep the stale cookie of
  their slot (`fwk_core.c:86`; `mod_psu.c` does this): `CookieIdentifies` fails
  when `LightRequests` has `TRUE`;
* `fwk_notification_notify` returns success when a put failed
  (`fwk_notification.c:145`);
* a bind request from `init` or `post_init` has a stale source
  (`fwk_module.c:195`), and a second start in sub-system mode resets the contexts
  before it is refused (`fwk_module.c:421`);
* with overlapping requests the report of one transition can answer the next
  request (`mod_power_domain.c:629`), and a second attempt at a transition does
  not wait for the subscribers: `AgreedFirst` fails without `Serial`, and with it on
  a chain with `ChainRetention` and a subscriber on every domain (`OneEach`);
* a deferred transition that its driver refuses is never answered
  (`mod_power_domain.c:554`): `RequestsAnswered` fails when drivers may refuse;
* completing a suspend records states no driver was asked for
  (`mod_power_domain.c:431`), and with no standing core uses the state of the
  suspend before (`mod_power_domain.c:756`);
* a second shutdown request resets the count of responses awaited: `ShutdownWaits`
  fails with `MaxShutdowns = 2`;
* `transport_transmit` looks at the FREE bit and not at the lock
  (`mod_transport.c:333`): with `OneAtATime = FALSE` a command overwrites an answer
  that was not handled, and `ResponsesHandled` fails, although `mod_transport.h:509`
  promises `FWK_E_BUSY` when the "Previous message was not read";
* a message whose event cannot be put leaves its channel locked
  (`mod_transport.c:772`), and so do a handler that returns an error without an answer
  (`mod_scmi.c:1306`), an agent that is not found (`mod_scmi.c:1248`) and an answer that
  is too long (`mod_transport.c:243`): `stuck`;
* the doorbell is acknowledged after the message was signalled (`mod_mhu.c:112`): one
  rung in between is lost when the message before it needed no doorbell or was
  answered inside the ISR: `overtaken`;
* a level change to an operating point with the same voltage does not set the clock
  (`mod_dvfs.c:702`); `product/rcar/scp_ramfw/config_dvfs.c:49` has such points
  (`MCSameVoltage`: `ReportTruthful` fails);
* a request for the recorded level while another one is being set is dropped, which
  `LastRequestWins` excepts (`dropped`) and the module's documentation contradicts
  (DvfsDropped.cfg);
* a put that fails leaves the domain busy for ever, be it that of a request
  (`mod_dvfs.c:146`) or of the report to the performance controller (`mod_dvfs.c:605`),
  and so does an alarm that cannot be started (`mod_dvfs.c:238`);
* an I2C device in PANIC never answers the requests that were parked before
  (`mod_i2c.c:514`).

### Bounds

* `FwkCore`: three slots are the fewest with which a handler is running, a response
  is parked and the pool is still not empty, and few enough for it to run out. Four
  are needed for two parked responses with the same cookie. Two entities tell
  requester and responder apart. `CookieBound` ends the supply of events below the
  wrap at `CookieMod`.
* `FwkNotification`: two structures for two entities let a list have two
  subscribers and the pool of structures run out; three events make a notify of
  two fail half way when an ISR takes one or a response is under way. `IsrBound`
  limits the ISRs. `AllResponsesArrive` is claimed of behaviours in which no
  handler's response finds the pool empty (`Losing`): there the framework drops it.
* `FwkModule`: modules with no, one and two elements, with and without `bind` and
  `post_init`.
* `PowerDomain`: a chain of three levels, or two cores in a cluster under the system
  domain; `MaxRequests`, `MaxSuspends`, `MaxShutdowns` and `MaxResets` bound the
  requests. Three requests suffice for one under way, one deferred and one
  that overtakes. When they are used up the tree rests, which is why these runs do
  not check for deadlock. pd_serial has 8 thousand states, pd_refusals 456 thousand,
  pd_overlap 4.5 million. There the driver of the cluster has a shutdown function, the
  core's and the system domain's have none, one of them asynchronous.
* `Timer`: three alarms make a queue with a middle. One-shot alarms are due at once,
  which the driver's minimal distance makes late, and go before periodic ones of two
  ticks; an interrupt, a callback or an `alarm_start` may be under way until its alarm
  is two ticks late (`MaxLate`), a full period. `MaxCalls` bounds the calls. Times
  further past than `MaxPast` are not told apart. 138 thousand states.
* `Transport`: four commands of the agent and three of the firmware: one before the
  mailbox is ready, one answered by the ISR, one overtaken, one after. 78 thousand
  states.
* `Dvfs`: three levels with distinct voltages, so that a change goes up, down and
  past the recorded one; boot voltages of the table and above it; four calls; the
  retries of the code (`DVFS_MAX_RETRIES`). 111 thousand states.
* `I2c`: three requests of any kind: one on the bus, one parked, one being reloaded.
  74 thousand states.

Symmetry and the view are used in safety runs of `FwkCore` only. The view drops
contents that the next write overwrites before anything reads them.

### Fairness

The processor keeps running the main loop, so its steps are weakly fair. Handlers
return: their return is strongly fair, because each put of a handler in progress
disables it for a moment. Interrupts are not fair; nothing waits for one. In
`FwkModule` every callback returns. In `PowerDomain` drivers finish the transitions
they accept, subscribers answer, and reports are handled; requests are not fair.

In `Timer` time passes, code with interrupts masked or inside a callback ends, and a
pending interrupt that is unmasked again and again is taken (strong fairness: a
thread that masks interrupts disables it for a moment; they are level signals kept by
the controller). In `Transport` interrupts are taken, the main loop handles each
event, and protocols answer in the end, as SCMI requires of them; an agent rings
after it wrote and looks at its mailbox. In `Dvfs` and `I2c` the main loop runs, the
alarm triggers, devices answer and transfers end; the drivers have no time-out of
their own, so without this nothing is promised.

## 5. Proofs

Each proof module extends its component and proves, for every value of the constants
that its assumption admits, that an inductive invariant holds of `Spec` and that the
properties of the runs follow. There is one lemma per action. The assumptions are
those of the component's module and say what the constants are; where a theorem needs
more it says so as a hypothesis. None depends on a bound: the numbers of requests,
calls, slots or alarms are arbitrary.

| Module | Theorems | Properties of the runs |
|---|---|---|
| `FwkCoreProofs` | `Invariance`, `TypeCorrect`, `Ownership`, `DelayedLists` | `TypeOK`, `OneOwner`, `DelayedListsSound` |
| | `Cookies`, `CookieSound`, `AnswersSound`, `EventsRefinement`, for `OnlyModulesAsk` and until the counter wraps | `CookieIdentifies`, `AnswerReachesRequester`, `ImplementsEvents` |
| `FwkNotificationProofs` | `NotificationInvariant`, `CountsBounded`, `ListsSound`, `WaitsForAll` | `TypeOK`, `SubscriptionsSound`, `NeverEarly` |
| `FwkModuleProofs` | `PreRuntime`, `TypeCorrect`, `BindTargets`, `StartOrder` | `TypeOK`, `TargetsInitialized`, `StartsAfterBind` |
| `TimerProofs` | `AlarmQueue`, `AlarmsSound`, `InterruptFindsAlarm`, `Silent`, all for `CarefulCallers` | `Sound`, `NotEarly`, `StoppedIsSilent` |
| `TransportProofs` | `Channelled`, `ChannelsSound`, `MailboxRefinement` | `Sound`, `ImplementsMailbox` |
| `I2cProofs` | `Device`, `DeviceSound`, `Answered` for `~AbortsStop` | `Sound`, `AnswerTruthful` |
| `DvfsProofs` | `Domain`, `DomainSound`, `Reports` for `VoltagesDiffer`, `LastWins` | `Sound`, `ReportTruthful`, `LastRequestWins` |
| `PowerDomainProofs` | `TypeCorrect` | `TypeOK` |
| | `RequestsCompatible` for `OrderlyTree` | `RequestedTree` |
| | `HardwareCompatible`, `RecordsTrue` for `OrderlyHardware` | `HardwareTree`, `RecordedStates` |
| | `ResponsesOwned` for `CompositeSupport = {}` | `WaitingOwned` |
| | `ShutdownCounts`, `ShutdownAfterAnswers` for `OneShutdown` | `ShutdownWaits` |

**FwkCore.** `OneOwner` is not inductive. That `FreeEvent` returns a slot that is in
no list needs `Control`: there is a current event exactly in a handler and until it is
freed, a slot in `put` exactly inside `put_event`. That a handler's answer is parked
with an entity and addressed to one needs `Addressed`: slots outside the pool hold
events between entities. `IInv` is the conjunction of `TypeOK`, `Control`,
`OneOwner`, `Addressed` and `DelayedListsSound`. The actions that allocate share
`Allocation` and `AllocationKeeps`.

That parked responses have distinct cookies needs the whole life of a request. `CInv`
adds to `IInv` that the cookies of the requests still to be handled, being handled or
parked are distinct and below the one that the next `put_event` of the main thread will
write (`CookiesUsed`, `CookiesDistinct`). That one is the value `put_event` has read
when it is under way, not the counter: ISRs may have advanced the counter in between,
and the main thread sets it back. `CookiesKept` ties the cookies that modules hold to
the parked responses: a kept cookie is that of no request still to be handled, and what
it finds has the requester it was kept for; `Answers` says that responses anywhere
outside the pool go to the entity whose result they hold. There are two hypotheses, and
both are needed. `OnlyModulesAsk`: ISRs and light events ask for no response
(FwkCoreIsrCookie.cfg and section 4 show what happens otherwise). `[]NotWrapped`: the
counter has not reached its last value, which takes at least 2^32 - 1 put events;
after the wrap a request that is still pending can share its cookie with a new one. As
`Spec` allows stuttering, the theorems speak of every behaviour up to that point.

`EventsRefinement` reads the queues through the memory of event structures
(`Content`). A step writes to one slot at most, and to one that no other list has, so
the messages of the others stay (`OthersKept`, from `OneOwner`); what a list operation
does to the slots it does to their contents (the `Map` lemmas). The
first half of `put_event` is `Compose`, or `Finish` or `AnswerParked`, the second is
`Emit`, whatever ISRs do in between. The step that needs `CInv` is the answer by
cookie: the requester that the module writes is the one the response was parked for.

**FwkNotification.** `NeverEarly` compares counts: the notifications and responses the
notifier has not heard of are at most what it was told to wait for. A step of
`send_notifications` adds one to both only if nothing else puts events that are
counted, so `Inv` adds that ISRs put none (`Answers`), where the loop is in its list
(`Control`), that the list holds subscribers (`Targets`), and that no event structure
is lost or made (`PoolSound`), which bounds the counter of free ones.

**FwkModule.** That a bind request finds its target initialised, or a start its module
bound, depends on how far the walk over modules and elements has come. `Walks` states
it for each walk: what lies before the module and element of the running callback has
the new state, what lies behind it the old one. The exception is kept: elements of
modules without a `bind` function stay INITIALIZED and are started from there.

**Timer.** The queue is ordered and without duplicates, and an enabled timer is set for
its head, at the earliest (`NotBefore`). Between the two halves of `alarm_start` and
during a callback an alarm is out of the queue; `Underway` says that it is marked
inactive and that the two are not the same alarm. The hypothesis `CarefulCallers` is
needed and not only convenient: when a callback stops the alarm the thread is about to
queue, the alarm can end up in the queue twice; the other calls it leaves out are
those listed in section 3.

**Transport.** The lock says who may touch a channel, and not that an answer has the
header of its command: that is a copy the ISR made of memory another processor writes.
`CompleterOK` adds that as long as a message is with the ISR, queued or with a
protocol, or its lock was released and it has yet to be given back (`Returning`), the
mailbox is not free and the copy still equals it. Nobody takes a message again while it
is given back, because interrupts are masked. `RequesterOK` says the same
for the other direction, with the doorbells. From `Inv` every step of the firmware, the
agent and the platform is a step of `Mailbox` or leaves its variables alone, channel by
channel, which gives the refinement.

**Dvfs.** `dvfs_handle_set_opp` orders the change of voltage and clock by the operating
point on record, which a request that failed half-way leaves behind the hardware.
`Hardware` explains why the order is right all the same: the clock is never above the
recorded point and the supply never below it. `Control` and `Requests` tie the state to
what the domain waits for, `Wanted` says where the last level asked for is held.
`Reports` needs `VoltagesDiffer`: on a table with two points of the same voltage the
clock is left alone and the report is wrong, as section 4 says.

**I2c.** The HAL does not record whom a completion belongs to: it answers the head of
the device's list with the status of the last completion. `Line` says why that is
right: the requests made stand in one line, first those answered, then those whose
response is queued, those parked, those whose request is queued, each group in the
order of the requests. `Begun` adds that the bus has seen nothing of those behind the
first parked one, `InFlight` which transfer of that one is under way and that its
completion carries the status it ended with, `Flight` that there is one transfer or
completion exactly in the states that wait for one, and one reload event exactly in
RELOAD. All of it holds until an event is lost, as the properties do; after that
only the types are kept. `Answered` needs a controller that does not raise STOP for an
aborted transfer (I2cAbort.cfg shows what happens otherwise).

**PowerDomain.** A handler is an operator from the world to the next one, so each has a
lemma that says what it may do to the domain it is for and what it leaves alone
(`Asked`, `Begun`, `Arrived`, `Reached`, `Suspended`); the actions follow from these.
The walk of a composite request, the loop over the children and that of a shutdown
are recursive functions. `LoopDefined` and `LoopInvariant` show that they have the values their
definitions say and keep what each round keeps: the least round that fails is
impossible (`LeastNatural`), so no induction rule is needed. `PathUp` is treated the
same way, from the top of the tree down.

`RequestedTree` is not inductive. A report makes the state asked for the one the driver
was given, so it could take back a request made in the meantime. `TreeInv` adds
`Flight`: a domain with a transition under way, in its driver or in the queue, was
given the state asked of it. `HardwareTree` needs more, because a driver is called when
the *recorded* states of the neighbours allow it. `Hard` says that the hardware differs
from the record only if a report is queued, that what is queued or being carried out is
what is asked for, and that not only the states two neighbours are in are compatible,
but all those they may be in before anyone looks again: the state of the hardware, and
the state asked for when the driver or the subscribers of a pre-transition notification
are at work (`May`). `RecordedStates` follows from the same invariant.

The hypotheses are these. `OrderlyTree`: requests are made when the tree is at rest
(`Serial`; PowerDomainStaleReport.cfg shows what happens otherwise); every domain may
be off whatever its parent is in and no domain is below a core, as in the core and
cluster tables of the products; the hardware is found in states that are allowed
together; no domain is reset, because the reports of a reset take back
a request that is deferred. `OrderlyHardware` adds that there is no mapping of
states (`pd_state_mapping_table`, which only the unit tests configure), that a domain
below one that is off is found off, and that the system is not shut down: a shutdown
leaves reports in the queue that are no longer true, so these two theorems speak of
the time before it. Each hypothesis holds of the constants of pd_refusals.

`ResponsesOwned` needs none of them: requests overlap and resets, suspends and
shutdowns come at any time. Its invariant `Owned` adds to `WaitingOwned` that no domain
is in charge of an answer that was not asked for yet. A request addresses one domain,
whose earlier requester is answered in the same step in which the domain is put in
charge of the new one. `ShutdownWaits` rests on `ShutdownInv`: while a shutdown is under
way the count is the number of responses on their way, which a second shutdown request
would break, hence `OneShutdown`.

The lemmas on queues that several of the modules need (what `fwk_list_push_tail`,
`fwk_list_pop_head`, `fwk_list_remove` and `fwk_list_insert` do to the elements of a
list, to their being distinct, to the number of those in a given set and to their
contents) are stated at the head of each. Induction over the list is done by the
library's theorems on finite sets, through the cardinality of the set of places.

Only model-checked:

* liveness (`EventsDelivered`, `AllResponsesArrive`, `StartUpEnds`,
  `RequestsAnswered`, `AlarmsTrigger`, `Settles`, `CommandsAnswered`,
  `ResponsesHandled`): the prover has no rule for fairness or `ENABLED`;
* `CookieIdentifies` across the wrap of the counter, which is false in general: a
  request would have to stay pending while 2^32 events are put;
* `NoneForgotten` and `AgreedFirst` of `PowerDomain`. Both are false for some tables
  and subscribers: the first when a composite request moves levels in opposite
  directions (PowerDomainMixed.cfg), the second without `Serial`, and when two
  neighbours wait for their subscribers at once, because the report of one of them
  starts the other without asking whether its subscribers have answered
  (`power_domain_notifications.c:27`). What the products' tables have in common that
  excludes this is not stated in the code, so there is no hypothesis to prove them from.

## 6. Not modelled

Most of the repository by size has nothing a transition system would say. Of its
roughly 366 thousand lines, `product/` and the register headers are tables of
constants; the PHY, interconnect and memory controller modules program registers in
a fixed order; the unit tests, the debugger and the tools do not run in the firmware.
The modules here cover the parts that decide an order of events, which are a small
share of the lines. Component by component, with the reasons, in `PROJECT.json`. Of
what has a state and is left out:

* the PSU, clock and sensor HALs: one operation per device at a time, the pattern of
  `I2c` without its queue; `Dvfs` has the supply and the clock as it uses them. SPMI
  has a queue of its own and is the next candidate;
* the SCMI protocol modules: they validate a message and call a HAL; what they do to a
  channel is `ScmiRespond`, at once or later. P2A notifications, in-band and fast
  channels, and `msg_smt`, the older form of `mod_transport.c`;
* system power: its requests are those of `PowerDomain`;
* logging: the ring is touched by the main loop and by ISRs that print; `FwkCore` has
  what the main loop sees of it;
* power capping, thermal management and performance controllers: numeric loops;
* delays and waits of the timer, which poll the counter.
