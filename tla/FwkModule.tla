------------------------------ MODULE FwkModule ------------------------------
(***************************************************************************)
(* The pre-runtime phase: framework/src/fwk_module.c, called by            *)
(* fwk_arch_init and fwk_arch_deinit (framework/src/fwk_arch.c).           *)
(*                                                                         *)
(* The framework walks the module table and calls back the modules.  A     *)
(* value of pc names the callback that runs, for the module m or for its   *)
(* element e (e = 0 is the module itself); the step out of it is the       *)
(* return of the callback with all the framework does before the next one. *)
(* While a callback runs, module code may call fwk_module_bind.            *)
(* A module that has no bind, start or stop function is walked over.       *)
(***************************************************************************)
EXTENDS Integers, FiniteSets

CONSTANTS
    ModuleCount,     \* FWK_MODULE_IDX_COUNT
    ElementCount,    \* number of elements of each module
    HasPostInit,     \* the modules that have a post_init function
    HasBind,         \* the modules that have a bind function
    MayFail,         \* whether callbacks may return an error
    SubSystemMode,   \* BUILD_HAS_SUB_SYSTEM_MODE: fwk_arch_init returns
    NoId             \* FWK_ID_NONE

Modules == 1..ModuleCount

ASSUME FwkModuleAssumption ==
    /\ ModuleCount \in Nat \ {0}
    /\ ElementCount \in [Modules -> Nat]
    /\ HasPostInit \subseteq Modules /\ HasBind \subseteq Modules
    /\ MayFail \in BOOLEAN /\ SubSystemMode \in BOOLEAN

BindRoundMax == 1    \* FWK_MODULE_BIND_ROUND_MAX

(* The identifiers of modules <<m, 0>> and elements <<m, e>>. *)
Ids == UNION {{<<k, i>> : i \in 0..ElementCount[k]} : k \in Modules}

VARIABLES
    initialized,   \* fwk_module_ctx.initialized
    stage,         \* fwk_module_ctx.stage
    bind_id,       \* fwk_module_ctx.bind_id
    state,         \* the state of every module and element context
    pc, m, e,      \* the callback that runs, and for whom
    round,         \* the bind round
    request        \* the last bind request a module processed

vars == <<initialized, stage, bind_id, state, pc, m, e, round, request>>

NoRequest == [caller |-> NoId, source |-> NoId, target |-> NoId,
              stage |-> "INITIALIZE"]

Init ==
    /\ initialized = FALSE
    /\ stage = "INITIALIZE"
    /\ bind_id = NoId
    /\ state = [id \in Ids |-> "UNINITIALIZED"]
    /\ pc = "off"
    /\ m = 1 /\ e = 0 /\ round = 0
    /\ request = NoRequest
-----------------------------------------------------------------------------
(* The framework calls back; bind_id names the entity for the callbacks    *)
(* element_init and bind only.                                             *)
Enter(call, mod, elt) ==
    /\ pc' = call /\ m' = mod /\ e' = elt
    /\ bind_id' = IF call = "element_init"
                        \/ (call = "bind" /\ mod \in HasBind)
                  THEN <<mod, elt>> ELSE bind_id

Stay(result) ==
    /\ pc' = result
    /\ UNCHANGED <<m, e, bind_id>>

(* The end of the walks of start_modules and stop_modules. *)
AtEnd == e = ElementCount[m] /\ m = ModuleCount

(* fwk_arch_init: fwk_module_init sets up the contexts, then               *)
(* fwk_module_start refuses to run twice.                                  *)
ArchInit ==
    /\ pc = "off" \/ (SubSystemMode /\ pc \in {"ready", "stopped", "panic"})
    /\ state' = [id \in Ids |-> "UNINITIALIZED"]
    /\ \/ /\ initialized
          /\ Stay("panic")
          /\ UNCHANGED stage
       \/ /\ ~initialized
          /\ stage' = "INITIALIZE"
          /\ Enter("init", 1, 0)
    /\ round' = 0
    /\ request' = NoRequest
    /\ UNCHANGED initialized

(* After the last element: post_init, if any.  fwk_module_init_module ends *)
(* with the module initialized; then the next one, or the bind stage.      *)
InitNextModule ==
    /\ \/ /\ m < ModuleCount
          /\ Enter("init", m + 1, 0)
          /\ UNCHANGED stage
       \/ /\ m = ModuleCount
          /\ Enter("bind", 1, 0)
          /\ stage' = "BIND"

AfterElements(st) ==
    \/ /\ m \in HasPostInit
       /\ Enter("post_init", m, 0)
       /\ state' = st
       /\ UNCHANGED stage
    \/ /\ m \notin HasPostInit
       /\ InitNextModule
       /\ state' = [st EXCEPT ![<<m, 0>>] = "INITIALIZED"]

InitReturn ==
    /\ pc = "init"
    /\ \/ /\ ElementCount[m] > 0
          /\ Enter("element_init", m, 1)
          /\ UNCHANGED <<state, stage>>
       \/ /\ ElementCount[m] = 0
          /\ AfterElements(state)
    /\ UNCHANGED <<initialized, round, request>>

ElementInitReturn ==
    /\ pc = "element_init"
    /\ LET st == [state EXCEPT ![<<m, e>>] = "INITIALIZED"] IN
       \/ /\ e < ElementCount[m]
          /\ Enter("element_init", m, e + 1)
          /\ state' = st
          /\ UNCHANGED stage
       \/ /\ e = ElementCount[m]
          /\ AfterElements(st)
    /\ UNCHANGED <<initialized, round, request>>

PostInitReturn ==
    /\ pc = "post_init"
    /\ InitNextModule
    /\ state' = [state EXCEPT ![<<m, 0>>] = "INITIALIZED"]
    /\ UNCHANGED <<initialized, round, request>>

(* An error of init, element_init or post_init is a trap. *)
InitFails ==
    /\ MayFail
    /\ pc \in {"init", "element_init", "post_init"}
    /\ Stay("trap")
    /\ UNCHANGED <<initialized, stage, state, round, request>>
-----------------------------------------------------------------------------
(* Mutant: one bind round too few. *)
StartAfterFirstRound ==
    \/ /\ m < ModuleCount
       /\ Enter("bind", m + 1, 0)
       /\ UNCHANGED <<stage, round>>
    \/ /\ m = ModuleCount
       /\ Enter("start", 1, 0)
       /\ stage' = "START"
       /\ UNCHANGED round

(* Mutant: the round counter is not incremented. *)
RoundsForever ==
    /\ Enter("bind", IF m < ModuleCount THEN m + 1 ELSE 1, 0)
    /\ UNCHANGED <<stage, round>>

(* The next module of the round, the next round, or the start stage. *)
BindNextModule ==
    \/ /\ m < ModuleCount
       /\ Enter("bind", m + 1, 0)
       /\ UNCHANGED <<stage, round>>
    \/ /\ m = ModuleCount /\ round < BindRoundMax
       /\ Enter("bind", 1, 0)
       /\ round' = round + 1
       /\ UNCHANGED stage
    \/ /\ m = ModuleCount /\ round = BindRoundMax
       /\ Enter("start", 1, 0)
       /\ stage' = "START"
       /\ UNCHANGED round

(* fwk_module_bind_module without a bind function: the module is bound,    *)
(* its elements are left as they are.                                      *)
BindSkip ==
    /\ pc = "bind"
    /\ m \notin HasBind
    /\ state' = [state EXCEPT ![<<m, 0>>] = "BOUND"]
    /\ BindNextModule
    /\ UNCHANGED <<initialized, request>>

(* Mutant: the element after the last one is bound too. *)
BindPastLast ==
    /\ pc = "bind"
    /\ m \in HasBind
    /\ state' = IF round = BindRoundMax
                THEN [state EXCEPT ![<<m, e>>] = "BOUND"] ELSE state
    /\ \/ /\ e <= ElementCount[m]
          /\ Enter("bind", m, e + 1)
          /\ UNCHANGED <<stage, round>>
       \/ /\ e > ElementCount[m]
          /\ BindNextModule
    /\ UNCHANGED <<initialized, request>>

BindReturn ==
    /\ pc = "bind"
    /\ m \in HasBind
    /\ state' = IF round = BindRoundMax
                THEN [state EXCEPT ![<<m, e>>] = "BOUND"] ELSE state
    /\ \/ /\ e < ElementCount[m]
          /\ Enter("bind", m, e + 1)
          /\ UNCHANGED <<stage, round>>
       \/ /\ e = ElementCount[m]
          /\ BindNextModule
    /\ UNCHANGED <<initialized, request>>

(* The next position of start_modules and stop_modules. *)
StepThrough(call) ==
    \/ e < ElementCount[m] /\ Enter(call, m, e + 1)
    \/ e = ElementCount[m] /\ m < ModuleCount /\ Enter(call, m + 1, 0)

StartReturn ==
    /\ pc = "start"
    /\ state' = [state EXCEPT ![<<m, e>>] = "STARTED"]
    /\ \/ StepThrough("start") /\ UNCHANGED initialized
       \/ AtEnd /\ Stay("ready") /\ initialized' = TRUE
    /\ UNCHANGED <<stage, round, request>>

StopReturn ==
    /\ pc = "stop"
    /\ state' = [state EXCEPT ![<<m, e>>] = "SUSPENDED"]
    /\ StepThrough("stop") \/ (AtEnd /\ Stay("stopped"))
    /\ UNCHANGED <<initialized, stage, round, request>>

(* An error of bind, start or stop ends the walk: FWK_E_PANIC. *)
WalkFails ==
    /\ MayFail
    /\ \/ pc = "bind" /\ m \in HasBind
       \/ pc \in {"start", "stop"}
    /\ Stay("panic")
    /\ UNCHANGED <<initialized, stage, state, round, request>>

(* fwk_arch_deinit. *)
ArchDeinit ==
    /\ SubSystemMode
    /\ pc \in {"ready", "stopped", "panic"}
    /\ initialized
    /\ stage' = "STOP"
    /\ Enter("stop", 1, 0)
    /\ UNCHANGED <<initialized, state, round, request>>
-----------------------------------------------------------------------------
(* Mutant: the state of the target is not checked. *)
AcceptsEarly(target) == stage \in {"INITIALIZE", "BIND"}

(* The stage and state that fwk_module_bind accepts. *)
Accepts(target) ==
    \/ stage = "INITIALIZE" /\ state[<<target[1], 0>>] = "INITIALIZED"
    \/ stage = "BIND"

(* fwk_module_bind, called by the entity whose callback runs, up to the    *)
(* target's process_bind_request.                                          *)
Bind(target) ==
    /\ pc \in {"init", "element_init", "post_init", "start"}
          \/ (pc = "bind" /\ m \in HasBind)
    /\ Accepts(target)
    /\ request' = [caller |-> <<m, e>>, source |-> bind_id,
                   target |-> target, stage |-> stage]
    /\ UNCHANGED <<initialized, stage, bind_id, state, pc, m, e, round>>

(* The main loop, between two calls in sub-system mode, or halted. *)
Idle ==
    /\ pc \in {"ready", "stopped", "panic", "trap"}
    /\ UNCHANGED vars

Walk ==
    \/ InitReturn \/ ElementInitReturn \/ PostInitReturn \/ InitFails
    \/ BindSkip \/ BindReturn \/ StartReturn \/ StopReturn \/ WalkFails

Next ==
    \/ ArchInit \/ ArchDeinit \/ Walk \/ Idle
    \/ \E target \in Ids : Bind(target)

Spec == Init /\ [][Next]_vars

(* Every callback returns. *)
FairSpec == Spec /\ WF_vars(Walk)
-----------------------------------------------------------------------------
States == {"UNINITIALIZED", "INITIALIZED", "BOUND", "STARTED", "SUSPENDED"}

(* Types of the module contexts and of the walks: no callback for an       *)
(* element that a module does not have.                                    *)
TypeOK ==
    /\ initialized \in BOOLEAN
    /\ stage \in {"INITIALIZE", "BIND", "START", "STOP"}
    /\ bind_id \in Ids \cup {NoId}
    /\ state \in [Ids -> States]
    /\ pc \in {"off", "init", "element_init", "post_init", "bind", "start",
               "stop", "ready", "stopped", "panic", "trap"}
    /\ m \in Modules /\ <<m, e>> \in Ids
    /\ round \in 0..BindRoundMax

(* A module is only asked for its API once it, and the element the request *)
(* is for, are initialized: whatever fwk_module_bind is called from.       *)
TargetsInitialized ==
    request.target # NoId => state[request.target] # "UNINITIALIZED"

(* Nothing is started before everything that binds is bound, whichever     *)
(* callback of the walks fails, and the firmware runs only with every      *)
(* module and element started (fwk_module_start).  Elements of a module    *)
(* without bind function keep the state INITIALIZED.                       *)
StartsAfterBind ==
    /\ \A id \in Ids : state[id] = "STARTED" =>
           \A other \in Ids :
               state[other] \in {"BOUND", "STARTED", "SUSPENDED"}
                 \/ (other[1] \notin HasBind /\ other[2] > 0
                       /\ state[other] = "INITIALIZED")
    /\ pc = "ready" => \A id \in Ids : state[id] = "STARTED"

(* The pre-runtime phase ends. *)
StartUpEnds == pc = "init" ~> pc \in {"ready", "panic", "trap"}
=============================================================================
