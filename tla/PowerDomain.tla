----------------------------- MODULE PowerDomain -----------------------------
(***************************************************************************)
(* The power domain HAL: module/power_domain/src.  A tree of power domains *)
(* whose states constrain each other (Allowed), asynchronous set state     *)
(* requests that may address a domain and its ancestors at once (composite *)
(* states), drivers that carry a transition out and report it, the         *)
(* notifications before and after a transition, system suspend and system  *)
(* shutdown.                                                               *)
(*                                                                         *)
(* The module runs in the framework's only thread, so an event handler is  *)
(* one step.  What interleaves is the environment: requests of several     *)
(* agents, drivers that finish late, subscribers that answer late.  A      *)
(* request is an action with arbitrary parameters, for it may have been    *)
(* queued before any report still in the queue; reports are handled in the *)
(* order they were put.  Handlers are operators from a world (the record   *)
(* of all variables) to the next one, since they call each other.          *)
(*                                                                         *)
(* A composite state is the sequence of the states of its levels, from the *)
(* domain up, as the default masks of core domains encode it.  The domains *)
(* are numbered in element order; the last one is the system domain.       *)
(***************************************************************************)
EXTENDS Integers, Sequences, FiniteSets, SequencesExt

CONSTANTS
    PdCount,        \* mod_pd_ctx.pd_count
    Parent,         \* for each domain its parent, 0 for the root
    Allowed,        \* Allowed[p][s]: the states of p when its parent is in s
    Mapped,         \* pd_state_mapping_table
    Cores,          \* the domains of type MOD_PD_TYPE_CORE
    Clusters,       \* the domains of type MOD_PD_TYPE_CLUSTER
    CompositeSupport, \* the domains with cs_support
    Async,          \* the domains whose driver finishes after set_state
    PreSubscribers, PostSubscribers, \* for each domain, how many entities
                                     \* subscribed to its notifications
    ShutdownSubscribers,  \* how many may be subscribed to a shutdown
    ShutdownDrivers,  \* the domains whose driver has a shutdown function
    MayRefuse,      \* the domains whose driver may refuse a transition
    MayDisagree,    \* may a subscriber refuse a transition?
    InitialStates,  \* the hardware states found at start-up
    Serial,         \* is every request made when the tree is at rest?
    MaxRequests,    \* bounds on the requests in a behaviour
    MaxSuspends, MaxShutdowns, MaxResets

Off == 0            \* MOD_PD_STATE_OFF
On == 1             \* MOD_PD_STATE_ON
Sleep == 2          \* MOD_PD_STATE_SLEEP
States == {Off, On, Sleep}
NoPd == 0
NoState == -1
PDs == 1..PdCount

ASSUME PowerDomainAssumption ==
    /\ PdCount \in Nat \ {0}
    /\ Parent \in [PDs -> 0..PdCount] /\ Parent[PdCount] = NoPd
    /\ \A p \in PDs : Parent[p] = NoPd \/ Parent[p] > p
    /\ Allowed \in [PDs -> [States -> SUBSET States]]
    /\ Mapped \in [PDs -> [States -> States]]
    /\ UNION {Cores, Clusters, CompositeSupport, Async, MayRefuse,
              ShutdownDrivers} \subseteq PDs
    /\ PreSubscribers \in [PDs -> Nat] /\ PostSubscribers \in [PDs -> Nat]
    /\ ShutdownSubscribers \subseteq Nat
    /\ {MayDisagree, Serial} \subseteq BOOLEAN
    /\ InitialStates \subseteq [PDs -> States]
    /\ {MaxRequests, MaxSuspends, MaxShutdowns, MaxResets} \subseteq Nat

VARIABLES
    pd,        \* pd_ctx_table
    target,    \* the state an asynchronous driver moves to, or NoState
    hw,        \* the state the hardware of each domain is in
    reports,   \* the transition reports in the event queues
    answers,   \* for each set state request, what was sent back
    suspend,   \* system_suspend, the request in the queue and their number
    shutdown,  \* system_shutdown, responses under way, number of requests
    resets     \* reset requests so far

vars == <<pd, target, hw, reports, answers, suspend, shutdown, resets>>

World == [pd |-> pd, target |-> target, hw |-> hw, reports |-> reports,
          answers |-> answers, suspend |-> suspend]

Become(w) ==
    /\ pd' = w.pd /\ target' = w.target /\ hw' = w.hw
    /\ reports' = w.reports /\ answers' = w.answers /\ suspend' = w.suspend

----------------------------------------------------------------------------
\* State checks (power_domain_state_checks.c).

\* normalize_state
Depth(s) == CASE s = Off -> 20 [] s = Sleep -> 16 [] OTHER -> s

IsDeeperState(s, t) == Depth(s) > Depth(t)
IsShallowerState(s, t) == Depth(s) < Depth(t)

ValidStates(p) == UNION {Allowed[p][s] : s \in States}

IsAllowedByChild(c, parentState, childState) ==
    childState \in Allowed[c][parentState]

Children(p) == {c \in PDs : Parent[c] = p}

\* Variant: the states requested for the children are not looked at.
ChildrenNotChecked(w, p, s) == TRUE

IsAllowedByChildren(w, p, s) ==
    \A c \in Children(p) : IsAllowedByChild(c, s, w.pd[c].requested)

\* Variant: the current states of the parent and the children are ignored.
NeighboursNotChecked(w, p, s) == TRUE

IsAllowedByParentAndChildren(w, p, s) ==
    /\ Parent[p] # NoPd =>
           IsAllowedByChild(p, w.pd[Parent[p]].current, s)
    /\ \A c \in Children(p) : IsAllowedByChild(c, s, w.pd[c].current)

\* A domain and its ancestors, from the bottom up.
PathUp[p \in PDs] ==
    IF Parent[p] = NoPd THEN <<p>> ELSE <<p>> \o PathUp[Parent[p]]

\* is_valid_composite_state, is_valid_state: the requests set_state accepts.
Accepted(p) ==
    LET levels == IF p \in CompositeSupport THEN Len(PathUp[p]) ELSE 1
    IN  {cs \in UNION {[1..n -> States] : n \in 1..levels} :
            /\ \A l \in DOMAIN cs : cs[l] \in ValidStates(PathUp[p][l])
            /\ \A l \in 2..Len(cs) :
                   IsAllowedByChild(PathUp[p][l-1], cs[l], cs[l-1])}

\* is_upwards_transition_propagation: the first level that changes decides.
IsUpwards(w, p, cs) ==
    LET changed == {l \in DOMAIN cs : cs[l] # w.pd[PathUp[p][l]].requested}
    IN  /\ changed # {}
        /\ LET l == Min(changed)
           IN IsDeeperState(cs[l], w.pd[PathUp[p][l]].requested)

IsStateInTransition(p, s) ==
    \/ pd[p].requested # s
    \/ pd[p].current # Mapped[p][s]
    \/ pd[p].toDriver # s

----------------------------------------------------------------------------
\* Steps the handlers share.

\* Variant: the pending flag is not cleared.
SendWithoutClearing(w, me, p, status) ==
    IF w.pd[p].response = 0 THEN w
    ELSE [w EXCEPT !.answers[w.pd[p].response].status = status]

\* send_pd_set_state_delayed_response. fwk_put_event sets the source of the
\* response to me, the target of the event being handled, and put_event then
\* looks for the parked response in the list of me: it is there if me = p.
SendDelayedResponse(w, me, p, status) ==
    IF w.pd[p].response = 0 THEN w
    ELSE [w EXCEPT !.answers[w.pd[p].response].status =
                       IF me = p THEN status ELSE @,
                   !.pd[p].response = 0]

\* A driver's set_state: an asynchronous driver drops what it was doing.
DriverSetState(w, p, s) ==
    IF p \in Async THEN [w EXCEPT !.target[p] = s]
    ELSE [w EXCEPT !.hw[p] = s,
                   !.reports = Append(@, [pd |-> p, state |-> s])]

\* Variant: the state is recorded although the driver refused it.
InitiateOptimistically(w, p, refuse) ==
    LET s == w.pd[p].requested
    IN  IF p \in refuse THEN [w EXCEPT !.pd[p].current = s]
        ELSE [DriverSetState(w, p, Mapped[p][s]) EXCEPT
                  !.pd[p].driver = Mapped[p][s], !.pd[p].toDriver = s]

\* initiate_power_state_transition; refuse: the drivers that deny or fail.
InitiateTransition(w, p, refuse) ==
    LET s == w.pd[p].requested
    IN  IF p \in refuse THEN w
        ELSE [DriverSetState(w, p, Mapped[p][s]) EXCEPT
                  !.pd[p].driver = Mapped[p][s], !.pd[p].toDriver = s]

\* check_power_state_pre_transition_notification
MustNotify(c) == ~(c.pre.valid /\ c.pre.state = c.requested /\ c.pre.ok)

\* Variant: the subscribers are notified and not waited for.
NotifyOnly(w, p) ==
    [w |-> IF MustNotify(w.pd[p]) /\ w.pd[p].pre.pending = 0
           THEN [w EXCEPT !.pd[p].pre =
                    [pending |-> PreSubscribers[p],
                     state |-> w.pd[p].requested, ok |-> TRUE, valid |-> TRUE]]
           ELSE w,
     wait |-> FALSE]

\* initiate_power_state_pre_transition_notification: the world after it and
\* whether the transition is deferred.
PreTransition(w, p) ==
    LET c == w.pd[p]
    IN  IF ~MustNotify(c) THEN [w |-> w, wait |-> FALSE]
        ELSE IF c.pre.pending # 0 THEN [w |-> w, wait |-> TRUE]
        ELSE [w |-> [w EXCEPT !.pd[p].pre =
                        [pending |-> PreSubscribers[p], state |-> c.requested,
                         ok |-> TRUE, valid |-> TRUE]],
              wait |-> PreSubscribers[p] # 0]

\* The notification, then the transition unless it is deferred.
Begin(w, p, refuse) ==
    LET n == PreTransition(w, p)
    IN  IF n.wait THEN n.w ELSE InitiateTransition(n.w, p, refuse)

----------------------------------------------------------------------------
\* process_set_state_request

\* One level of the walk. a: the world, the domain in charge of the
\* response, the status, whether a transition was initiated, whether to stop.
\* me: the target of the event being handled, NoPd for the module itself.
SetStateLevel(a, me, p, s, refuse) ==
    LET c == a.w.pd[p]
        w == SendDelayedResponse(
                 [a.w EXCEPT !.pd[p] = [c EXCEPT !.requested = s,
                                                 !.pre.valid = FALSE]],
                 me, p, "OVERWRITTEN")
        n == PreTransition(w, p)
    IN  IF a.stop \/ s = c.requested THEN a
        ELSE IF /\ Parent[p] # NoPd
                /\ ~IsAllowedByChild(p, a.w.pd[Parent[p]].requested, s)
        THEN [a EXCEPT !.status = "PWRSTATE", !.stop = TRUE]
        ELSE IF ~IsAllowedByChildren(a.w, p, s) THEN a
        ELSE IF c.toDriver = s THEN [a EXCEPT !.w = w]
        ELSE IF a.initiated \/ ~IsAllowedByParentAndChildren(w, p, s)
        THEN [a EXCEPT !.w = w, !.charge = p]
        ELSE IF n.wait THEN [a EXCEPT !.w = n.w, !.charge = p]
        ELSE IF p \in refuse
        THEN [a EXCEPT !.w = [n.w EXCEPT !.pd[p].requested = c.requested],
                       !.charge = NoPd, !.status = "DEVICE", !.stop = TRUE]
        ELSE [a EXCEPT !.w = InitiateTransition(n.w, p, refuse),
                       !.charge = p, !.initiated = TRUE]

Walk(w, me, p, cs, refuse) ==
    LET level(i) == IF IsUpwards(w, p, cs) THEN i ELSE Len(cs) + 1 - i
        after[i \in 0..Len(cs)] ==
            IF i = 0
            THEN [w |-> [w EXCEPT !.suspend.lastCoreOff = FALSE],
                  charge |-> NoPd, status |-> "SUCCESS", initiated |-> FALSE,
                  stop |-> FALSE]
            ELSE SetStateLevel(after[i - 1], me, PathUp[p][level(i)],
                               cs[level(i)], refuse)
    IN  after[Len(cs)]

\* The response is delayed when a domain is in charge of it.
SetStateRequest(w, p, cs, respond, refuse) ==
    LET a == Walk(w, p, p, cs, refuse)
        id == Len(w.answers) + 1
        answer == [status |-> IF ~respond THEN "NONE"
                              ELSE IF a.charge = NoPd THEN a.status
                              ELSE "WAITING",
                   pd |-> a.charge]
        answered == [a.w EXCEPT !.answers = Append(@, answer)]
    IN  IF respond /\ a.charge # NoPd
        THEN [answered EXCEPT !.pd[a.charge].response = id]
        ELSE answered

\* complete_system_suspend. The response fields are those of a request that
\* asks for no response; the states are then forced.
CompleteSystemSuspend(w, me, p, refuse) ==
    LET path == PathUp[p]
        cs == [l \in DOMAIN path |-> IF Parent[path[l]] # NoPd THEN Off
                                     ELSE w.suspend.state]
        a == Walk([w EXCEPT !.suspend.ongoing = TRUE], me, p, cs, refuse)
        forced(c) == [c EXCEPT !.current = c.requested,
                               !.toDriver = c.requested]
    IN  IF p \notin CompositeSupport THEN w
        ELSE [a.w EXCEPT !.pd = [q \in PDs |->
                 IF q \in ToSet(path) THEN forced(@[q]) ELSE @[q]]]

----------------------------------------------------------------------------
\* process_power_state_transition_report

ReportDeeper(w, p, refuse) ==
    LET q == Parent[p]
    IN  IF \/ q = NoPd
           \/ w.pd[q].toDriver = w.pd[q].requested
           \/ ~IsAllowedByParentAndChildren(w, q, w.pd[q].requested)
        THEN w
        ELSE Begin(w, q, refuse)

\* One child in the loop over the children, which returns at the first that
\* is not ready.
ReportToChild(a, c, refuse) ==
    IF a.stop \/ a.w.pd[c].toDriver = a.w.pd[c].requested THEN a
    ELSE IF ~IsAllowedByParentAndChildren(a.w, c, a.w.pd[c].requested)
    THEN [a EXCEPT !.stop = TRUE]
    ELSE [a EXCEPT !.w = Begin(a.w, c, refuse)]

\* connect_pd_tree puts the children of a domain in the order of the elements.
ReportShallower(w, p, refuse) ==
    LET after[c \in 0..PdCount] ==
            IF c = 0 THEN [w |-> w, stop |-> FALSE]
            ELSE IF c \notin Children(p) THEN after[c - 1]
            ELSE ReportToChild(after[c - 1], c, refuse)
    IN  after[PdCount].w

\* Variant: only the parent hears of a transition.
PropagateUpOnly(w, p, new, old, refuse) ==
    IF IsDeeperState(new, old) THEN ReportDeeper(w, p, refuse) ELSE w

Propagate(w, p, new, old, refuse) ==
    IF IsDeeperState(new, old) THEN ReportDeeper(w, p, refuse)
    ELSE IF IsShallowerState(new, old) THEN ReportShallower(w, p, refuse)
    ELSE w

\* The answer, the new current state and the transition notification.
ReportArrives(w, p, s) ==
    LET w1 == IF s = w.pd[p].driver
              THEN SendDelayedResponse(w, p, p, "SUCCESS") ELSE w
        w2 == [w1 EXCEPT !.pd[p].current = s]
    IN  IF w2.pd[p].post.pending # 0 THEN w2
        ELSE [w2 EXCEPT !.pd[p].post = [w2.pd[p].post EXCEPT
                  !.pending = PostSubscribers[p], !.state = s]]

TransitionReport(w, p, s, refuse) ==
    LET old == w.pd[p].current
        w1 == ReportArrives(w, p, s)
        w2 == IF Parent[p] = NoPd /\ w.suspend.state # On
              THEN [w1 EXCEPT !.suspend.ongoing = FALSE] ELSE w1
    IN  IF w.suspend.lastCoreOff /\ p = w.suspend.lastCore
        THEN CompleteSystemSuspend([w1 EXCEPT !.suspend.lastCoreOff = FALSE],
                                   p, p, refuse)
        ELSE IF w2.pd[p].post.pending > 0
        THEN [w2 EXCEPT !.pd[p].post.previous = old]
        ELSE Propagate([w2 EXCEPT !.pd[p].requested = w.pd[p].toDriver],
                       p, s, old, refuse)

----------------------------------------------------------------------------
\* pd_start: the tree is read from the top, and below a domain that is off
\* the hardware is not read. The reports it queues for the domains that are
\* not off precede every request; handling them changes no state and sends
\* the transition notification, which is where the behaviour starts.
Init ==
    /\ hw \in InitialStates
    /\ LET read == [p \in PDs |->
                       \A q \in ToSet(Tail(PathUp[p])) : hw[q] # Off]
           s == [p \in PDs |-> IF read[p] THEN hw[p] ELSE Off]
       IN  pd = [p \in PDs |->
                  [requested |-> s[p], toDriver |-> s[p], current |-> s[p],
                   driver |-> s[p], response |-> 0,
                   pre |-> [pending |-> 0, state |-> Off, ok |-> TRUE,
                            valid |-> FALSE],
                   post |-> [pending |-> IF s[p] = Off THEN 0
                                         ELSE PostSubscribers[p],
                             state |-> s[p], previous |-> s[p]]]]
    /\ reports = <<>>
    /\ target = [p \in PDs |-> NoState]
    /\ answers = <<>>
    /\ suspend = [lastCoreOff |-> FALSE, ongoing |-> FALSE, lastCore |-> NoPd,
                  state |-> Off, queued |-> NoState, count |-> 0]
    /\ shutdown = [ongoing |-> FALSE, count |-> 0, awaited |-> 0,
                   requests |-> 0]
    /\ resets = 0

\* No transition and no notification is under way.
AtRest == /\ reports = <<>> /\ target = [p \in PDs |-> NoState]
         /\ \A p \in PDs : pd[p].pre.pending = 0 /\ pd[p].post.pending = 0

\* MOD_PD_PUBLIC_EVENT_IDX_SET_STATE
SetState(p, cs, respond, refuse) ==
    /\ Len(answers) < MaxRequests
    /\ Serial => AtRest
    /\ Become(SetStateRequest(World, p, cs, respond, refuse))
    /\ UNCHANGED <<shutdown, resets>>

\* A driver reaches the state it was asked for and reports it.
DriverReports(p) ==
    /\ target[p] # NoState
    /\ hw' = [hw EXCEPT ![p] = target[p]]
    /\ reports' = Append(reports, [pd |-> p, state |-> target[p]])
    /\ target' = [target EXCEPT ![p] = NoState]
    /\ UNCHANGED <<pd, answers, suspend, shutdown, resets>>

\* PD_EVENT_IDX_REPORT_POWER_STATE_TRANSITION
ProcessReport(refuse) ==
    /\ reports # <<>>
    /\ LET r == Head(reports)
       IN Become(TransitionReport([World EXCEPT !.reports = Tail(@)],
                                  r.pd, r.state, refuse))
    /\ UNCHANGED <<shutdown, resets>>

\* process_power_state_pre_transition_notification_response
PreTransitionResponse(p, ok, refuse) ==
    LET w == [World EXCEPT !.pd[p].pre = [pd[p].pre EXCEPT
                               !.pending = @ - 1, !.ok = @ /\ ok]]
        c == w.pd[p]
    IN  /\ pd[p].pre.pending # 0
        /\ Become(CASE c.pre.pending # 0 -> w
                    [] c.pre.pending = 0 /\ c.pre.valid ->
                           IF c.pre.ok THEN InitiateTransition(w, p, refuse)
                           ELSE w
                    [] OTHER ->
                           IF \/ c.requested = c.toDriver
                              \/ ~IsAllowedByParentAndChildren(w, p,
                                                               c.requested)
                           THEN w ELSE Begin(w, p, refuse))
        /\ UNCHANGED <<shutdown, resets>>

\* Variant: a response that nobody waits for is counted.
TransitionResponseUnguarded(p, refuse) ==
    /\ pd' = [pd EXCEPT ![p].post.pending = @ - 1]
    /\ UNCHANGED <<target, hw, reports, answers, suspend, shutdown, resets>>

\* process_power_state_transition_notification_response
TransitionResponse(p, refuse) ==
    LET w == [World EXCEPT !.pd[p].post.pending = @ - 1]
        c == w.pd[p]
    IN  /\ pd[p].post.pending # 0
        /\ Become(CASE c.post.pending # 0 -> w
                    [] c.post.pending = 0 /\ c.post.state = c.current ->
                           Propagate([w EXCEPT !.pd[p].post.previous =
                                                   c.current],
                                     p, c.current, c.post.previous, refuse)
                    [] OTHER ->
                           [w EXCEPT !.pd[p].post = [c.post EXCEPT
                                !.state = c.current,
                                !.pending = PostSubscribers[p]]])
        /\ UNCHANGED <<shutdown, resets>>

\* process_reset_request; a core driver resets by going off and on again.
ProcessReset(p) ==
    /\ resets < MaxResets
    /\ pd[p].requested # Off
    /\ \A c \in Children(p) :
           pd[c].requested = Off /\ pd[c].current = Off
    /\ reports' = IF p \in Cores
                  THEN reports \o <<[pd |-> p, state |-> Off],
                                    [pd |-> p, state |-> On]>>
                  ELSE reports
    /\ hw' = [hw EXCEPT ![p] = On]
    /\ resets' = resets + 1
    /\ UNCHANGED <<pd, target, answers, suspend, shutdown>>

----------------------------------------------------------------------------
\* System suspend: pd_system_suspend checks and queues the request.
SystemSuspend(state) ==
    /\ suspend.count < MaxSuspends /\ suspend.queued = NoState
    /\ Cardinality({c \in Cores : IsStateInTransition(c, Off)}) <= 1
    /\ suspend' = [suspend EXCEPT !.queued = state, !.count = @ + 1]
    /\ UNCHANGED <<pd, target, hw, reports, answers, shutdown, resets>>

Standing(types) == {p \in types : pd[p].requested # Off \/ pd[p].current # Off}

\* The last standing core is prepared to power off on WFI: its driver
\* reports the transition when that happens.
PrepareLastCore(w, c, prepared) ==
    IF ~prepared THEN w
    ELSE [w EXCEPT !.suspend = [w.suspend EXCEPT !.lastCoreOff = TRUE,
                                    !.lastCore = c, !.state = suspend.queued],
                   !.pd[c] = [w.pd[c] EXCEPT !.requested = Off,
                                             !.toDriver = Off],
                   !.target[c] = Off]

\* process_system_suspend_request
ProcessSystemSuspend(prepared, refuse) ==
    LET w == [World EXCEPT !.suspend.queued = NoState]
        cores == Standing(Cores)
        clusters == Standing(Clusters)
    IN  /\ suspend.queued # NoState
        /\ Become(
             IF Cardinality(cores) > 1 \/ Cardinality(clusters) > 1 THEN w
             ELSE IF cores # {}
             THEN PrepareLastCore(w, CHOOSE c \in cores : TRUE, prepared)
             ELSE CompleteSystemSuspend(
                      w, NoPd,
                      IF clusters # {} THEN CHOOSE c \in clusters : TRUE
                                       ELSE PdCount,
                      refuse))
        /\ UNCHANGED <<shutdown, resets>>

\* One domain in the loop of perform_shutdown. A driver without a shutdown
\* function is asked to go off and reports it, later or at once; the domain
\* is recorded as off also when its driver refuses.
ShutdownDomain(w, p, refuse) ==
    LET v == IF p \in refuse THEN w
             ELSE IF p \in ShutdownDrivers
             THEN [w EXCEPT !.hw[p] = Off, !.target[p] = NoState]
             ELSE DriverSetState(w, p, Off)
    IN  [v EXCEPT !.pd[p] = [v.pd[p] EXCEPT !.requested = Off,
                                 !.toDriver = Off, !.current = Off]]

\* The domains up to last, in the order of the elements.
ShutdownUpTo(w, last, refuse) ==
    LET after[p \in 0..PdCount] ==
            IF p = 0 THEN w ELSE ShutdownDomain(after[p - 1], p, refuse)
    IN  after[last]

\* perform_shutdown: it returns at the first shutdown function that answers
\* FWK_PENDING, which is that of the domain after last.
PerformShutdown(last) ==
    /\ last # PdCount => last + 1 \in ShutdownDrivers
    /\ \E refuse \in SUBSET MayRefuse :
           Become(ShutdownUpTo(World, last, refuse))
    /\ UNCHANGED resets

\* process_system_shutdown_request; n: how many subscribers were notified.
SystemShutdown(n, last) ==
    LET s == [shutdown EXCEPT !.requests = @ + 1, !.count = n,
                              !.awaited = @ + n]
    IN  /\ shutdown.requests < MaxShutdowns
        /\ Serial => shutdown.awaited = 0
        /\ \/ /\ n # 0
              /\ shutdown' = [s EXCEPT !.ongoing = TRUE]
              /\ UNCHANGED <<pd, target, hw, reports, answers, suspend,
                             resets>>
           \/ /\ n = 0
              /\ shutdown' = [s EXCEPT !.ongoing = @ /\ last # PdCount]
              /\ PerformShutdown(last)

\* Variant: the first response starts the shutdown.
ShutdownOnFirstResponse(last) ==
    /\ shutdown.awaited # 0 /\ shutdown.ongoing
    /\ shutdown' = [shutdown EXCEPT !.awaited = @ - 1, !.count = 0,
                                    !.ongoing = last # PdCount]
    /\ PerformShutdown(last)

\* process_pre_shutdown_notification_response
PreShutdownResponse(last) ==
    LET s == [shutdown EXCEPT !.awaited = @ - 1]
        c == shutdown.count - 1
    IN  /\ shutdown.awaited # 0
        /\ \/ /\ ~shutdown.ongoing
              /\ shutdown' = s
              /\ UNCHANGED <<pd, target, hw, reports, answers, suspend,
                             resets>>
           \/ /\ shutdown.ongoing /\ c # 0
              /\ shutdown' = [s EXCEPT !.count = c]
              /\ UNCHANGED <<pd, target, hw, reports, answers, suspend,
                             resets>>
           \/ /\ shutdown.ongoing /\ c = 0
              /\ shutdown' = [s EXCEPT !.count = 0,
                                       !.ongoing = last # PdCount]
              /\ PerformShutdown(last)

Refusals == SUBSET MayRefuse

Next ==
    \/ \E p \in PDs, respond \in BOOLEAN, refuse \in Refusals :
           \E cs \in Accepted(p) : SetState(p, cs, respond, refuse)
    \/ \E p \in PDs : DriverReports(p)
    \/ \E refuse \in Refusals : ProcessReport(refuse)
    \/ \E p \in PDs, ok \in {TRUE, ~MayDisagree}, refuse \in Refusals :
           PreTransitionResponse(p, ok, refuse)
    \/ \E p \in PDs, refuse \in Refusals : TransitionResponse(p, refuse)
    \/ \E p \in PDs : ProcessReset(p)
    \/ \E state \in {Off, Sleep} : SystemSuspend(state)
    \/ \E prepared \in BOOLEAN, refuse \in Refusals :
           ProcessSystemSuspend(prepared, refuse)
    \/ \E n \in ShutdownSubscribers, last \in 0..PdCount :
           SystemShutdown(n, last)
    \/ \E last \in 0..PdCount : PreShutdownResponse(last)

Spec == Init /\ [][Next]_vars

\* Drivers finish the transitions they accept, subscribers answer the
\* notifications they get, and the main loop handles every report.
FairSpec ==
    /\ Spec
    /\ WF_vars(\E refuse \in Refusals : ProcessReport(refuse))
    /\ \A p \in PDs :
           /\ WF_vars(DriverReports(p))
           /\ WF_vars(\E ok \in {TRUE, ~MayDisagree}, refuse \in Refusals :
                          PreTransitionResponse(p, ok, refuse))
           /\ WF_vars(\E refuse \in Refusals : TransitionResponse(p, refuse))

----------------------------------------------------------------------------
Statuses == {"NONE", "WAITING", "SUCCESS", "OVERWRITTEN", "PWRSTATE", "DEVICE"}
PreContexts == [pending : Nat, state : States, ok : BOOLEAN, valid : BOOLEAN]
PostContexts == [pending : Nat, state : States, previous : States]
PdContexts == [requested : States, toDriver : States, current : States,
               driver : States, response : 0..MaxRequests,
               pre : PreContexts, post : PostContexts]
Reports == [pd : PDs, state : States]
Answers == [status : Statuses, pd : PDs \cup {NoPd}]
SuspendContexts == [lastCoreOff : BOOLEAN, ongoing : BOOLEAN,
                    lastCore : PDs \cup {NoPd}, state : States,
                    queued : States \cup {NoState}, count : 0..MaxSuspends]
ShutdownContexts == [ongoing : BOOLEAN, count : Int, awaited : Nat,
                     requests : 0..MaxShutdowns]

\* Every variable has its type. A count of pre-shutdown responses that wraps
\* below zero is negative here.
TypeOK ==
    /\ pd \in [PDs -> PdContexts]
    /\ target \in [PDs -> States \cup {NoState}]
    /\ hw \in [PDs -> States]
    /\ reports \in Seq(Reports)
    /\ answers \in Seq(Answers)
    /\ suspend \in SuspendContexts
    /\ shutdown \in ShutdownContexts

\* A request that waits for its delayed response has exactly one domain that
\* will send it, the one put in charge, and a domain in charge has a request
\* that waits: no response stays parked for ever in the framework's list
\* because its domain forgot about it or could not send it
\* (response.pending and response.cookie, fwk_put_event).
WaitingOwned ==
    /\ \A i \in DOMAIN answers : answers[i].status = "WAITING" =>
           \A p \in PDs : (pd[p].response = i) <=> (p = answers[i].pd)
    /\ \A p \in PDs : pd[p].response # 0 =>
           answers[pd[p].response].status = "WAITING"

\* The states requested for a domain and for its parent are compatible
\* (allowed_state_mask_table): the walk of process_set_state_request and the
\* reports never leave the tree asking for a child its parent forbids.
RequestedTree ==
    \A p \in PDs : Parent[p] # NoPd =>
        IsAllowedByChild(p, pd[Parent[p]].requested, pd[p].requested)

\* The hardware of a domain is never in a state its parent's state forbids:
\* "the parent and the children of the power domain involved are in a state
\* where the transition can be completed" (mod_power_domain.h).  Suspend is
\* left out: it records states that the hardware has not reached
\* (complete_system_suspend), and the next transition relies on them.
HardwareTree ==
    suspend.count = 0 =>
        \A p \in PDs : Parent[p] # NoPd =>
            IsAllowedByChild(p, hw[Parent[p]], hw[p])

\* A driver is asked for a transition only when no subscriber still owes its
\* response to the pre-transition notification of the domain.
AgreedFirst ==
    [][\A p \in PDs :
          pd'[p].driver # pd[p].driver => pd'[p].pre.pending = 0]_vars

\* At rest nothing is left to initiate: a transition deferred for the sake of
\* a parent, a child or a notification has been handed to its driver.
NoneForgotten ==
    AtRest => \A p \in PDs : pd[p].requested = pd[p].toDriver

\* At rest the recorded states are those of the hardware, whatever drivers
\* and subscribers refused, as long as no suspend forced them
\* (complete_system_suspend).
RecordedStates ==
    AtRest /\ suspend.count = 0 => \A p \in PDs : pd[p].current = hw[p]

Waits(i) == i \in DOMAIN answers /\ answers[i].status = "WAITING"

\* A request that asked for a response gets one: success, overwritten by a
\* later request, or an error.
RequestsAnswered ==
    \A i \in 1..MaxRequests : Waits(i) ~> ~Waits(i)

\* The domains are shut down when every subscriber has answered the
\* pre-shutdown notification (process_pre_shutdown_notification_response).
ShutdownWaits ==
    [][shutdown.ongoing /\ ~shutdown'.ongoing => shutdown'.awaited = 0]_vars
=============================================================================
