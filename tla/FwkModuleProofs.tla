--------------------------- MODULE FwkModuleProofs ---------------------------
(***************************************************************************)
(* Safety of the pre-runtime phase, for any module table: any number of    *)
(* modules and elements, any subset with post_init and bind functions,     *)
(* with or without failing callbacks and restarts in sub-system mode.      *)
(*                                                                         *)
(* Inv describes how far the walks of fwk_module.c have come: which        *)
(* contexts are initialized, bound or started when the callback of module  *)
(* m, element e runs.                                                      *)
(***************************************************************************)
EXTENDS FwkModule, TLAPS

InitCalls == {"init", "element_init", "post_init"}

(* The contexts fwk_module_init_module has initialized so far. *)
InitDone(id) ==
    \/ id[1] < m
    \/ /\ id[1] = m /\ id[2] # 0
       /\ pc = "post_init" \/ (pc = "element_init" /\ id[2] < e)

(* The contexts a walk over modules and elements has left behind. *)
Passed(id) == id[1] < m \/ (id[1] = m /\ id[2] < e)

(* An element that keeps the state INITIALIZED, for want of a bind         *)
(* function.                                                               *)
Unbound(id) == id[1] \notin HasBind /\ id[2] > 0 /\ state[id] = "INITIALIZED"

InitWalk ==
    pc \in InitCalls =>
        /\ stage = "INITIALIZE"
        /\ pc = "element_init" => e # 0
        /\ \A id \in Ids :
               state[id] = IF InitDone(id) THEN "INITIALIZED"
                                           ELSE "UNINITIALIZED"

Trapped ==
    pc = "trap" => \A id \in Ids : state[id] \in {"UNINITIALIZED", "INITIALIZED"}

BindWalk ==
    pc = "bind" =>
        /\ stage = "BIND"
        /\ \A id \in Ids : state[id] \in {"INITIALIZED", "BOUND"}
        /\ round = BindRoundMax =>
               \A id \in Ids : Passed(id) => state[id] = "BOUND" \/ Unbound(id)

StartWalk ==
    pc = "start" =>
        /\ stage = "START"
        /\ \A id \in Ids : state[id] \in {"BOUND", "STARTED"} \/ Unbound(id)
        /\ \A id \in Ids : Passed(id) => state[id] = "STARTED"

Walks == InitWalk /\ Trapped /\ BindWalk /\ StartWalk

RequestOK == request.target \in Ids \cup {NoId}

Inv ==
    /\ TypeOK
    /\ RequestOK
    /\ Walks
    /\ TargetsInitialized
    /\ StartsAfterBind
-----------------------------------------------------------------------------
(* An identifier is a pair of a module and the number of one of its        *)
(* elements, or 0 (fwk_id).                                                *)
LEMMA IdParts ==
    ASSUME NEW id \in Ids
    PROVE  /\ id[1] \in Modules /\ id[1] \in Int
           /\ id[2] \in 0..ElementCount[id[1]] /\ id[2] \in Int
           /\ id = <<id[1], id[2]>>
<1>1. PICK k \in Modules : \E i \in 0..ElementCount[k] : id = <<k, i>>
  BY DEF Ids
<1>. PICK i \in 0..ElementCount[k] : id = <<k, i>>
  BY <1>1
<1>2. k \in Int /\ i \in Int
  BY FwkModuleAssumption DEF Modules
<1> QED
  BY <1>2

(* Every module and element of the table has an identifier. *)
LEMMA IdOf ==
    ASSUME NEW k \in Modules, NEW i \in 0..ElementCount[k]
    PROVE  <<k, i>> \in Ids
  BY DEF Ids

(* The walks of fwk_module.c stay inside the table: the numbers of the     *)
(* module and element of a callback, and those of the next ones.           *)
LEMMA Position ==
    ASSUME m \in Modules, <<m, e>> \in Ids
    PROVE  /\ m \in Int /\ e \in Int /\ m >= 1 /\ m <= ModuleCount
           /\ e >= 0 /\ e <= ElementCount[m] /\ ElementCount[m] \in Int
           /\ <<m, 0>> \in Ids /\ 1 \in Modules /\ <<1, 0>> \in Ids
           /\ m < ModuleCount => m + 1 \in Modules /\ <<m + 1, 0>> \in Ids
           /\ e < ElementCount[m] => <<m, e + 1>> \in Ids
<1>1. ModuleCount \in Nat /\ ModuleCount >= 1 /\ ElementCount \in [Modules -> Nat]
  BY FwkModuleAssumption
<1>2. m \in Int /\ m >= 1 /\ m <= ModuleCount /\ ElementCount[m] \in Nat
  BY <1>1 DEF Modules
<1>3. e \in 0..ElementCount[m]
  <2>1. <<m, e>>[1] = m /\ <<m, e>>[2] = e
    OBVIOUS
  <2> QED
    BY <2>1, IdParts
<1>4. 1 \in Modules /\ (m < ModuleCount => m + 1 \in Modules)
  BY <1>1, <1>2 DEF Modules
<1>5. <<m, 0>> \in Ids /\ <<1, 0>> \in Ids
  <2>1. ElementCount[1] \in Nat
    BY <1>1, <1>4
  <2> QED
    BY <1>2, <1>4, <2>1, IdOf
<1>6. ASSUME m < ModuleCount PROVE <<m + 1, 0>> \in Ids
  <2>1. ElementCount[m + 1] \in Nat
    BY <1>1, <1>4, <1>6
  <2> QED
    BY <1>4, <1>6, <2>1, IdOf
<1>7. ASSUME e < ElementCount[m] PROVE <<m, e + 1>> \in Ids
  <2>1. e + 1 \in 0..ElementCount[m]
    BY <1>2, <1>3, <1>7
  <2> QED
    BY <2>1, IdOf
<1> QED
  BY <1>1, <1>2, <1>3, <1>4, <1>5, <1>6, <1>7

(* Setting the state of one context leaves the others alone. *)
LEMMA SetState ==
    ASSUME NEW st \in [Ids -> States], NEW k, NEW i, NEW s \in States,
           <<k, i>> \in Ids
    PROVE  /\ [st EXCEPT ![<<k, i>>] = s] \in [Ids -> States]
           /\ \A id \in Ids :
                 [st EXCEPT ![<<k, i>>] = s][id] =
                     IF id[1] = k /\ id[2] = i THEN s ELSE st[id]
<1>1. [st EXCEPT ![<<k, i>>] = s] \in [Ids -> States]
  OBVIOUS
<1>2. ASSUME NEW id \in Ids
      PROVE  [st EXCEPT ![<<k, i>>] = s][id] =
                 IF id[1] = k /\ id[2] = i THEN s ELSE st[id]
  <2>1. id = <<k, i>> <=> id[1] = k /\ id[2] = i
    BY IdParts
  <2> QED
    BY <2>1
<1> QED
  BY <1>1, <1>2
-----------------------------------------------------------------------------
(* The contexts are all set up as uninitialized (fwk_module_init). *)
LEMMA InitInv == Init => Inv
<1>. SUFFICES ASSUME Init PROVE Inv
  OBVIOUS
<1>1. 1 \in Modules
  BY FwkModuleAssumption DEF Modules
<1>2. <<1, 0>> \in Ids
  <2>1. ElementCount[1] \in Nat
    BY <1>1, FwkModuleAssumption
  <2> QED
    BY <1>1, <2>1, IdOf
<1>3. TypeOK
  <2>1. state \in [Ids -> States]
    BY DEF Init, States
  <2>2. m \in Modules /\ <<m, e>> \in Ids
    BY <1>1, <1>2 DEF Init
  <2>3. round \in 0..BindRoundMax /\ bind_id \in Ids \cup {NoId}
    BY DEF Init, BindRoundMax
  <2>4. initialized \in BOOLEAN /\ stage = "INITIALIZE" /\ pc = "off"
    BY DEF Init
  <2> QED
    BY <2>1, <2>2, <2>3, <2>4 DEF TypeOK
<1>4. RequestOK /\ TargetsInitialized
  BY DEF Init, RequestOK, TargetsInitialized, NoRequest
<1>5. Walks
  BY DEF Init, Walks, InitWalk, Trapped, BindWalk, StartWalk, InitCalls
<1>6. StartsAfterBind
  BY DEF Init, StartsAfterBind
<1> QED
  BY <1>3, <1>4, <1>5, <1>6 DEF Inv

(* The contexts are set up again by a later fwk_arch_init. *)
LEMMA ArchInitStep == Inv /\ ArchInit => Inv'
<1>. SUFFICES ASSUME Inv, ArchInit PROVE Inv'
  OBVIOUS
<1>1. TypeOK /\ 1 \in Modules /\ <<1, 0>> \in Ids
  BY Position DEF Inv, TypeOK
<1>2. TypeOK'
  BY <1>1 DEF ArchInit, TypeOK, Enter, Stay, States, BindRoundMax
<1>3. RequestOK' /\ TargetsInitialized'
  BY DEF ArchInit, RequestOK, TargetsInitialized, NoRequest
<1>4. Walks'
  <2>1. ASSUME NEW id \in Ids, pc' = "init" PROVE ~InitDone(id)'
    <3>1. m' = 1
      BY <2>1 DEF ArchInit, Enter, Stay
    <3>2. id[1] \in Int /\ id[1] >= 1
      BY IdParts DEF Modules
    <3> QED
      BY <2>1, <3>1, <3>2 DEF InitDone
  <2> QED
    BY <2>1 DEF ArchInit, Enter, Stay, Walks, InitWalk, Trapped, BindWalk,
                StartWalk, InitCalls
<1>5. StartsAfterBind'
  BY DEF ArchInit, Enter, Stay, StartsAfterBind
<1> QED
  BY <1>2, <1>3, <1>4, <1>5 DEF Inv

(* The stop walk begins (fwk_module_stop). *)
LEMMA ArchDeinitStep == Inv /\ ArchDeinit => Inv'
<1>. SUFFICES ASSUME Inv, ArchDeinit PROVE Inv'
  OBVIOUS
<1>1. TypeOK /\ 1 \in Modules /\ <<1, 0>> \in Ids
  BY Position DEF Inv, TypeOK
<1>2. TypeOK'
  BY <1>1 DEF ArchDeinit, TypeOK, Enter
<1>3. RequestOK' /\ TargetsInitialized' /\ StartsAfterBind'
  BY DEF Inv, ArchDeinit, Enter, RequestOK, TargetsInitialized, StartsAfterBind
<1>4. Walks'
  BY DEF ArchDeinit, Enter, Walks, InitWalk, Trapped, BindWalk, StartWalk,
         InitCalls
<1> QED
  BY <1>2, <1>3, <1>4 DEF Inv

(* A callback that fails leaves the contexts as they are. *)
LEMMA FailSteps == Inv /\ (InitFails \/ WalkFails) => Inv'
<1>. SUFFICES ASSUME Inv, InitFails \/ WalkFails PROVE Inv'
  OBVIOUS
<1>1. TypeOK'
  BY DEF Inv, InitFails, WalkFails, TypeOK, Stay
<1>2. RequestOK' /\ TargetsInitialized' /\ StartsAfterBind'
  BY DEF Inv, InitFails, WalkFails, Stay, RequestOK, TargetsInitialized,
         StartsAfterBind
<1>3. Walks'
  BY DEF Inv, InitFails, WalkFails, Stay, Walks, InitWalk, Trapped, BindWalk,
         StartWalk, InitCalls
<1> QED
  BY <1>1, <1>2, <1>3 DEF Inv

(* A bind request is only processed by a target that is initialized: in    *)
(* the stage INITIALIZE because the module is behind the walk, with all    *)
(* its elements; in the stage BIND because everything is.                  *)
LEMMA BindStep == ASSUME NEW target \in Ids PROVE Inv /\ Bind(target) => Inv'
<1>. SUFFICES ASSUME Inv, Bind(target) PROVE Inv'
  OBVIOUS
<1>1. TypeOK' /\ RequestOK' /\ Walks' /\ StartsAfterBind'
  <2>1. TypeOK'
    BY DEF Inv, Bind, TypeOK
  <2>2. RequestOK'
    BY DEF Bind, RequestOK
  <2>3. Walks'
    BY DEF Inv, Bind, Walks, InitWalk, Trapped, BindWalk, StartWalk, InitCalls,
           InitDone, Passed, Unbound
  <2>4. StartsAfterBind'
    BY DEF Inv, Bind, StartsAfterBind
  <2> QED
    BY <2>1, <2>2, <2>3, <2>4
<1>2. state[target] # "UNINITIALIZED"
  <2>1. CASE pc \in InitCalls
    <3>1. stage = "INITIALIZE" /\ state[<<target[1], 0>>] = "INITIALIZED"
      BY <2>1 DEF Inv, Walks, InitWalk, Bind, Accepts
    <3>2. target[1] \in Modules /\ <<target[1], 0>> \in Ids
      <4>1. target[1] \in Modules
        BY IdParts
      <4>2. ElementCount[target[1]] \in Nat
        BY <4>1, FwkModuleAssumption
      <4> QED
        BY <4>1, <4>2, IdOf
    <3>3. InitDone(<<target[1], 0>>)
      BY <2>1, <3>1, <3>2 DEF Inv, Walks, InitWalk
    <3>4. target[1] < m
      BY <3>3 DEF InitDone
    <3>5. InitDone(target)
      BY <3>4 DEF InitDone
    <3> QED
      BY <2>1, <3>5 DEF Inv, Walks, InitWalk
  <2>2. CASE pc = "bind"
    BY <2>2 DEF Inv, Walks, BindWalk
  <2>3. CASE pc = "start"
    BY <2>3 DEF Inv, Walks, StartWalk, Unbound
  <2> QED
    BY <2>1, <2>2, <2>3 DEF Bind, InitCalls
<1>3. TargetsInitialized'
  BY <1>2 DEF Bind, TargetsInitialized
<1> QED
  BY <1>1, <1>3 DEF Inv

(* Going to the next module, or to the bind stage, once module m is        *)
(* initialized with its elements.                                          *)
LEMMA InitNextStep ==
    ASSUME Inv, InitNextModule, pc \in InitCalls,
           UNCHANGED <<initialized, round, request>>,
           state' \in [Ids -> States],
           \A id \in Ids : state'[id] = IF id[1] <= m THEN "INITIALIZED"
                                                     ELSE "UNINITIALIZED"
    PROVE  Inv'
<1>1. /\ TypeOK /\ m \in Int /\ m <= ModuleCount /\ ModuleCount \in Int
      /\ 1 \in Modules /\ <<1, 0>> \in Ids
      /\ m < ModuleCount => m + 1 \in Modules /\ <<m + 1, 0>> \in Ids
  BY Position, FwkModuleAssumption DEF Inv, TypeOK
<1>2. TypeOK'
  BY <1>1 DEF InitNextModule, Enter, TypeOK
<1>3. RequestOK'
  BY DEF Inv, RequestOK
<1>4. TargetsInitialized'
  <2>1. ASSUME NEW id \in Ids, state[id] # "UNINITIALIZED"
        PROVE  state'[id] # "UNINITIALIZED"
    <3>1. InitDone(id)
      BY <2>1 DEF Inv, Walks, InitWalk
    <3>2. id[1] <= m
      BY <1>1, <3>1, IdParts DEF InitDone
    <3> QED
      BY <3>2
  <2> QED
    BY <2>1 DEF Inv, RequestOK, TargetsInitialized
<1>5. Walks'
  <2>1. CASE m < ModuleCount
    <3>1. pc' = "init" /\ m' = m + 1 /\ stage' = "INITIALIZE"
      BY <2>1, <1>1 DEF InitNextModule, Enter, Inv, Walks, InitWalk
    <3>2. ASSUME NEW id \in Ids
          PROVE  state'[id] = IF InitDone(id)' THEN "INITIALIZED"
                                               ELSE "UNINITIALIZED"
      BY <1>1, <3>1, IdParts DEF InitDone
    <3> QED
      BY <3>1, <3>2 DEF Walks, InitWalk, Trapped, BindWalk, StartWalk
  <2>2. CASE m = ModuleCount
    <3>1. pc' = "bind" /\ m' = 1 /\ e' = 0 /\ stage' = "BIND"
      BY <2>2, <1>1 DEF InitNextModule, Enter
    <3>2. ASSUME NEW id \in Ids
          PROVE  state'[id] = "INITIALIZED" /\ ~Passed(id)'
      <4>1. id[1] \in 1..ModuleCount /\ id[2] \in 0..ElementCount[id[1]]
              /\ id[2] \in Int
        BY IdParts DEF Modules
      <4>2. ElementCount[id[1]] \in Nat
        BY <4>1, FwkModuleAssumption DEF Modules
      <4> QED
        BY <1>1, <2>2, <3>1, <4>1, <4>2 DEF Passed
    <3> QED
      BY <3>1, <3>2 DEF Walks, InitWalk, Trapped, BindWalk, StartWalk,
                        InitCalls
  <2> QED
    BY <1>1, <2>1, <2>2
<1>6. StartsAfterBind'
  BY DEF StartsAfterBind, InitNextModule, Enter
<1> QED
  BY <1>2, <1>3, <1>4, <1>5, <1>6 DEF Inv

(* The elements of module m are initialized: post_init, or the end of the  *)
(* module (fwk_module_init_module).                                        *)
LEMMA AfterElementsStep ==
    ASSUME Inv, pc \in InitCalls, NEW st \in [Ids -> States],
           AfterElements(st), UNCHANGED <<initialized, round, request>>,
           \A id \in Ids :
               st[id] = IF id[1] < m \/ (id[1] = m /\ id[2] # 0)
                          THEN "INITIALIZED" ELSE "UNINITIALIZED"
    PROVE  Inv'
<1>1. TypeOK /\ <<m, 0>> \in Ids /\ m \in Int
  BY Position DEF Inv, TypeOK
<1>2. CASE m \in HasPostInit
  <2>1. /\ pc' = "post_init" /\ m' = m /\ e' = 0 /\ state' = st
        /\ UNCHANGED <<stage, bind_id>>
    BY <1>2 DEF AfterElements, Enter
  <2>2. TypeOK'
    BY <1>1, <2>1 DEF TypeOK
  <2>3. RequestOK' /\ StartsAfterBind'
    BY <2>1 DEF Inv, RequestOK, StartsAfterBind
  <2>4. TargetsInitialized'
    <3>1. ASSUME NEW id \in Ids, state[id] # "UNINITIALIZED"
          PROVE  state'[id] # "UNINITIALIZED"
      <4>1. InitDone(id)
        BY <3>1 DEF Inv, Walks, InitWalk
      <4> QED
        BY <2>1, <4>1 DEF InitDone
    <3> QED
      BY <3>1 DEF Inv, RequestOK, TargetsInitialized
  <2>5. Walks'
    <3>1. ASSUME NEW id \in Ids
          PROVE  state'[id] = IF InitDone(id)' THEN "INITIALIZED"
                                               ELSE "UNINITIALIZED"
      BY <2>1 DEF InitDone
    <3> QED
      BY <2>1, <3>1 DEF Inv, Walks, InitWalk, Trapped, BindWalk, StartWalk
  <2> QED
    BY <2>2, <2>3, <2>4, <2>5 DEF Inv
<1>3. CASE m \notin HasPostInit
  <2>1. InitNextModule /\ state' = [st EXCEPT ![<<m, 0>>] = "INITIALIZED"]
    BY <1>3 DEF AfterElements
  <2>2. /\ state' \in [Ids -> States]
        /\ \A id \in Ids : state'[id] = IF id[1] = m /\ id[2] = 0
                                        THEN "INITIALIZED" ELSE st[id]
    BY <1>1, <2>1, SetState DEF States
  <2>3. ASSUME NEW id \in Ids
        PROVE  state'[id] = IF id[1] <= m THEN "INITIALIZED"
                                          ELSE "UNINITIALIZED"
    BY <1>1, <2>2, IdParts
  <2> QED
    BY <2>1, <2>2, <2>3, InitNextStep
<1> QED
  BY <1>2, <1>3

(* init returns: the first element, or the end of a module without any. *)
LEMMA InitReturnStep == Inv /\ InitReturn => Inv'
<1>. SUFFICES ASSUME Inv, InitReturn PROVE Inv'
  OBVIOUS
<1>1. /\ TypeOK /\ m \in Int /\ ElementCount[m] \in Nat /\ pc = "init"
      /\ pc \in InitCalls /\ UNCHANGED <<initialized, round, request>>
  BY Position, FwkModuleAssumption DEF Inv, TypeOK, InitReturn, InitCalls
<1>2. ASSUME NEW id \in Ids
      PROVE  state[id] = IF id[1] < m THEN "INITIALIZED" ELSE "UNINITIALIZED"
  BY <1>1 DEF Inv, Walks, InitWalk, InitDone
<1>3. CASE ElementCount[m] > 0
  <2>1. /\ pc' = "element_init" /\ m' = m /\ e' = 1
        /\ bind_id' = <<m, 1>> /\ UNCHANGED <<state, stage>>
    BY <1>1, <1>3 DEF InitReturn, Enter
  <2>2. <<m, 1>> \in Ids
    BY <1>1, <1>3, IdOf DEF TypeOK
  <2>3. TypeOK'
    BY <1>1, <2>1, <2>2 DEF TypeOK
  <2>4. RequestOK' /\ TargetsInitialized' /\ StartsAfterBind'
    BY <1>1, <2>1 DEF Inv, RequestOK, TargetsInitialized, StartsAfterBind
  <2>5. Walks'
    <3>1. ASSUME NEW id \in Ids
          PROVE  state'[id] = IF InitDone(id)' THEN "INITIALIZED"
                                               ELSE "UNINITIALIZED"
      <4>1. id[2] \in Int /\ id[2] >= 0
        BY IdParts, FwkModuleAssumption
      <4> QED
        BY <1>2, <2>1, <4>1 DEF InitDone
    <3> QED
      BY <1>1, <2>1, <3>1 DEF Inv, Walks, InitWalk, Trapped, BindWalk,
                              StartWalk
  <2> QED
    BY <2>3, <2>4, <2>5 DEF Inv
<1>4. CASE ElementCount[m] = 0
  <2>1. AfterElements(state) /\ state \in [Ids -> States]
    BY <1>1, <1>4 DEF InitReturn, TypeOK
  <2>2. ASSUME NEW id \in Ids
        PROVE  state[id] = IF id[1] < m \/ (id[1] = m /\ id[2] # 0)
                             THEN "INITIALIZED" ELSE "UNINITIALIZED"
    <3>1. id[1] = m => id[2] = 0
      BY <1>4, IdParts
    <3> QED
      BY <1>2, <3>1
  <2> QED
    BY <1>1, <2>1, <2>2, AfterElementsStep
<1> QED
  BY <1>1, <1>3, <1>4

(* element_init returns: the element is initialized. *)
LEMMA ElementInitReturnStep == Inv /\ ElementInitReturn => Inv'
<1>. SUFFICES ASSUME Inv, ElementInitReturn PROVE Inv'
  OBVIOUS
<1>. DEFINE st == [state EXCEPT ![<<m, e>>] = "INITIALIZED"]
<1>1. /\ TypeOK /\ pc = "element_init" /\ pc \in InitCalls
      /\ UNCHANGED <<initialized, round, request>>
  BY DEF Inv, ElementInitReturn, InitCalls
<1>2. /\ m \in Int /\ e \in Int /\ ElementCount[m] \in Int /\ e > 0
      /\ e <= ElementCount[m] /\ (e < ElementCount[m] => <<m, e + 1>> \in Ids)
  BY <1>1, Position DEF Inv, TypeOK, Walks, InitWalk
<1>3. /\ st \in [Ids -> States]
      /\ \A id \in Ids : st[id] = IF id[1] = m /\ id[2] = e
                                   THEN "INITIALIZED" ELSE state[id]
  BY <1>1, SetState DEF TypeOK, States
<1>4. ASSUME NEW id \in Ids
      PROVE  st[id] = IF id[1] < m \/ (id[1] = m /\ id[2] # 0 /\ id[2] <= e)
                        THEN "INITIALIZED" ELSE "UNINITIALIZED"
  <2>1. id[1] \in Int /\ id[2] \in Int
    BY IdParts
  <2>2. state[id] = IF id[1] < m \/ (id[1] = m /\ id[2] # 0 /\ id[2] < e)
                      THEN "INITIALIZED" ELSE "UNINITIALIZED"
    BY <1>1 DEF Inv, Walks, InitWalk, InitDone
  <2> QED
    BY <1>2, <1>3, <2>1, <2>2
<1>5. CASE e < ElementCount[m]
  <2>1. /\ pc' = "element_init" /\ m' = m /\ e' = e + 1
        /\ bind_id' = <<m, e + 1>> /\ state' = st /\ UNCHANGED stage
    BY <1>2, <1>5 DEF ElementInitReturn, Enter
  <2>2. TypeOK'
    BY <1>1, <1>2, <1>3, <1>5, <2>1 DEF TypeOK
  <2>3. RequestOK' /\ StartsAfterBind'
    BY <1>1, <1>4, <2>1 DEF Inv, RequestOK, StartsAfterBind
  <2>4. TargetsInitialized'
    BY <1>1, <1>3, <2>1 DEF Inv, RequestOK, TargetsInitialized
  <2>5. Walks'
    <3>1. ASSUME NEW id \in Ids
          PROVE  state'[id] = IF InitDone(id)' THEN "INITIALIZED"
                                               ELSE "UNINITIALIZED"
      <4>1. id[2] \in Int /\ (id[2] <= e <=> id[2] < e + 1)
        BY <1>2, IdParts
      <4> QED
        BY <1>4, <2>1, <4>1 DEF InitDone
    <3> QED
      BY <1>1, <1>2, <2>1, <3>1 DEF Inv, Walks, InitWalk, Trapped, BindWalk,
                                    StartWalk
  <2> QED
    BY <2>2, <2>3, <2>4, <2>5 DEF Inv
<1>6. CASE e = ElementCount[m]
  <2>1. AfterElements(st)
    BY <1>2, <1>6 DEF ElementInitReturn
  <2>2. ASSUME NEW id \in Ids
        PROVE  st[id] = IF id[1] < m \/ (id[1] = m /\ id[2] # 0)
                          THEN "INITIALIZED" ELSE "UNINITIALIZED"
    <3>1. id[1] = m => id[2] <= e
      BY <1>2, <1>6, IdParts
    <3> QED
      BY <1>4, <3>1
  <2> QED
    BY <1>1, <1>3, <2>1, <2>2, AfterElementsStep
<1> QED
  BY <1>2, <1>5, <1>6

(* post_init returns: the module is initialized. *)
LEMMA PostInitReturnStep == Inv /\ PostInitReturn => Inv'
<1>. SUFFICES ASSUME Inv, PostInitReturn PROVE Inv'
  OBVIOUS
<1>1. /\ TypeOK /\ pc = "post_init" /\ pc \in InitCalls /\ InitNextModule
      /\ <<m, 0>> \in Ids /\ m \in Int
      /\ UNCHANGED <<initialized, round, request>>
  BY Position DEF Inv, TypeOK, PostInitReturn, InitCalls
<1>2. /\ state' \in [Ids -> States]
      /\ \A id \in Ids : state'[id] = IF id[1] = m /\ id[2] = 0
                                      THEN "INITIALIZED" ELSE state[id]
  BY <1>1, SetState DEF PostInitReturn, TypeOK, States
<1>3. ASSUME NEW id \in Ids
      PROVE  state'[id] = IF id[1] <= m THEN "INITIALIZED"
                                        ELSE "UNINITIALIZED"
  <2>1. state[id] = IF id[1] < m \/ (id[1] = m /\ id[2] # 0)
                      THEN "INITIALIZED" ELSE "UNINITIALIZED"
    BY <1>1 DEF Inv, Walks, InitWalk, InitDone
  <2> QED
    BY <1>1, <1>2, <2>1, IdParts
<1> QED
  BY <1>1, <1>2, <1>3, InitNextStep

(* The next module of the bind round, the next round, or the start stage,  *)
(* with the states st after the callbacks of module m: in the last round   *)
(* all that is behind the walk is bound.                                   *)
LEMMA BindNextStep ==
    ASSUME Inv, pc = "bind", BindNextModule,
           UNCHANGED <<initialized, request>>,
           state' \in [Ids -> States],
           \A id \in Ids : state'[id] \in {"INITIALIZED", "BOUND"},
           round = BindRoundMax =>
               \A id \in Ids : id[1] <= m => state'[id] = "BOUND" \/ Unbound(id)'
    PROVE  Inv'
<1>1. /\ TypeOK /\ m \in Int /\ m <= ModuleCount /\ ModuleCount \in Int
      /\ 1 \in Modules /\ <<1, 0>> \in Ids
      /\ m < ModuleCount => m + 1 \in Modules /\ <<m + 1, 0>> \in Ids
  BY Position, FwkModuleAssumption DEF Inv, TypeOK
<1>2. TypeOK'
  BY <1>1 DEF BindNextModule, Enter, TypeOK, BindRoundMax
<1>3. RequestOK' /\ TargetsInitialized'
  BY DEF Inv, RequestOK, TargetsInitialized
<1>4. StartsAfterBind'
  BY DEF StartsAfterBind, BindNextModule, Enter
<1>5. ASSUME NEW id \in Ids
      PROVE  /\ id[1] \in Int /\ id[2] \in Int /\ id[1] >= 1 /\ id[2] >= 0
             /\ id[1] <= ModuleCount
  BY <1>1, IdParts, FwkModuleAssumption DEF Modules
<1>6. Walks'
  <2>1. CASE m < ModuleCount
    <3>1. pc' = "bind" /\ m' = m + 1 /\ e' = 0 /\ stage' = "BIND" /\ round' = round
      BY <2>1, <1>1 DEF BindNextModule, Enter, Inv, Walks, BindWalk
    <3>2. ASSUME NEW id \in Ids, Passed(id)' PROVE id[1] <= m
      BY <1>1, <1>5, <3>1, <3>2 DEF Passed
    <3> QED
      BY <3>1, <3>2 DEF Walks, InitWalk, Trapped, BindWalk, StartWalk,
                        InitCalls
  <2>2. CASE m = ModuleCount /\ pc' = "bind"
    <3>1. m' = 1 /\ e' = 0 /\ stage' = "BIND"
      BY <2>2, <1>1 DEF BindNextModule, Enter, Inv, Walks, BindWalk
    <3>2. ASSUME NEW id \in Ids PROVE ~Passed(id)'
      BY <1>5, <3>1 DEF Passed
    <3> QED
      BY <2>2, <3>1, <3>2 DEF Walks, InitWalk, Trapped, BindWalk, StartWalk,
                              InitCalls
  <2>3. CASE m = ModuleCount /\ pc' # "bind"
    <3>1. /\ pc' = "start" /\ m' = 1 /\ e' = 0 /\ stage' = "START"
          /\ round = BindRoundMax
      BY <2>3, <1>1 DEF BindNextModule, Enter
    <3>2. ASSUME NEW id \in Ids PROVE ~Passed(id)'
      BY <1>5, <3>1 DEF Passed
    <3>3. ASSUME NEW id \in Ids PROVE state'[id] = "BOUND" \/ Unbound(id)'
      BY <1>5, <2>3, <3>1
    <3> QED
      BY <3>1, <3>2, <3>3 DEF Walks, InitWalk, Trapped, BindWalk, StartWalk,
                              InitCalls
  <2> QED
    BY <1>1, <2>1, <2>2, <2>3
<1> QED
  BY <1>2, <1>3, <1>4, <1>6 DEF Inv

(* A module without bind function is bound, its elements are left alone. *)
LEMMA BindSkipStep == Inv /\ BindSkip => Inv'
<1>. SUFFICES ASSUME Inv, BindSkip PROVE Inv'
  OBVIOUS
<1>1. /\ TypeOK /\ <<m, 0>> \in Ids /\ m \in Int /\ pc = "bind"
      /\ m \notin HasBind /\ BindNextModule
      /\ UNCHANGED <<initialized, request>>
  BY Position DEF Inv, TypeOK, BindSkip
<1>2. /\ state' \in [Ids -> States]
      /\ \A id \in Ids : state'[id] = IF id[1] = m /\ id[2] = 0
                                      THEN "BOUND" ELSE state[id]
  BY <1>1, SetState DEF BindSkip, TypeOK, States
<1>3. \A id \in Ids : state'[id] \in {"INITIALIZED", "BOUND"}
  BY <1>1, <1>2 DEF Inv, Walks, BindWalk
<1>4. ASSUME round = BindRoundMax, NEW id \in Ids, id[1] <= m
      PROVE  state'[id] = "BOUND" \/ Unbound(id)'
  <2>1. /\ id[1] \in Int /\ id[2] \in Int /\ id[2] >= 0
    BY IdParts, FwkModuleAssumption
  <2>2. CASE id[1] < m
    <3>1. Passed(id)
      BY <2>2 DEF Passed
    <3>2. state[id] = "BOUND" \/ Unbound(id)
      BY <1>1, <1>4, <3>1 DEF Inv, Walks, BindWalk
    <3> QED
      BY <1>1, <1>2, <2>1, <2>2, <3>2 DEF Unbound
  <2>3. CASE id[1] = m
    BY <1>1, <1>2, <1>3, <2>1, <2>3 DEF Unbound
  <2> QED
    BY <1>1, <1>4, <2>1, <2>2, <2>3
<1> QED
  BY <1>1, <1>2, <1>3, <1>4, BindNextStep

(* bind returns: in the last round the module or element is bound. *)
LEMMA BindReturnStep == Inv /\ BindReturn => Inv'
<1>. SUFFICES ASSUME Inv, BindReturn PROVE Inv'
  OBVIOUS
<1>1. /\ TypeOK /\ pc = "bind" /\ UNCHANGED <<initialized, request>>
      /\ m \in HasBind
  BY DEF Inv, BindReturn
<1>2. /\ m \in Int /\ e \in Int /\ ElementCount[m] \in Int /\ e >= 0
      /\ e <= ElementCount[m] /\ (e < ElementCount[m] => <<m, e + 1>> \in Ids)
  BY <1>1, Position DEF TypeOK
<1>3. /\ state' \in [Ids -> States]
      /\ \A id \in Ids :
            state'[id] = IF round = BindRoundMax /\ id[1] = m /\ id[2] = e
                           THEN "BOUND" ELSE state[id]
  <2>1. CASE round = BindRoundMax
    BY <1>1, <2>1, SetState DEF BindReturn, TypeOK, States
  <2>2. CASE round # BindRoundMax
    BY <1>1, <2>2 DEF BindReturn, TypeOK
  <2> QED
    BY <2>1, <2>2
<1>4. \A id \in Ids : state'[id] \in {"INITIALIZED", "BOUND"}
  BY <1>1, <1>3 DEF Inv, Walks, BindWalk
<1>5. ASSUME round = BindRoundMax, NEW id \in Ids,
             id[1] < m \/ (id[1] = m /\ id[2] <= e)
      PROVE  state'[id] = "BOUND" \/ Unbound(id)'
  <2>1. id[1] \in Int /\ id[2] \in Int
    BY IdParts
  <2>2. CASE Passed(id)
    BY <1>1, <1>3, <1>5, <2>2 DEF Inv, Walks, BindWalk, Unbound
  <2>3. CASE ~Passed(id)
    <3>1. id[1] = m /\ id[2] = e
      BY <1>2, <1>5, <2>1, <2>3 DEF Passed
    <3> QED
      BY <1>3, <1>5, <3>1
  <2> QED
    BY <2>2, <2>3
<1>6. CASE e < ElementCount[m]
  <2>1. /\ pc' = "bind" /\ m' = m /\ e' = e + 1 /\ bind_id' = <<m, e + 1>>
        /\ UNCHANGED <<stage, round>>
    BY <1>1, <1>2, <1>6 DEF BindReturn, Enter
  <2>2. TypeOK'
    BY <1>1, <1>2, <1>3, <1>6, <2>1 DEF TypeOK
  <2>3. RequestOK' /\ TargetsInitialized' /\ StartsAfterBind'
    BY <1>1, <1>4, <2>1 DEF Inv, RequestOK, TargetsInitialized,
                            StartsAfterBind
  <2>4. Walks'
    <3>1. ASSUME NEW id \in Ids, Passed(id)'
          PROVE  id[1] < m \/ (id[1] = m /\ id[2] <= e)
      BY <1>2, <2>1, <3>1, IdParts DEF Passed
    <3>2. stage' = "BIND"
      BY <1>1, <2>1 DEF Inv, Walks, BindWalk
    <3>3. BindWalk'
      BY <1>4, <1>5, <2>1, <3>1, <3>2 DEF BindWalk
    <3> QED
      BY <2>1, <3>3 DEF Walks, InitWalk, Trapped, StartWalk, InitCalls
  <2> QED
    BY <2>2, <2>3, <2>4 DEF Inv
<1>7. CASE e = ElementCount[m]
  <2>1. BindNextModule
    BY <1>2, <1>7 DEF BindReturn
  <2>2. ASSUME NEW id \in Ids, id[1] <= m
        PROVE  id[1] < m \/ (id[1] = m /\ id[2] <= e)
    BY <1>2, <1>7, <2>2, IdParts
  <2> QED
    BY <1>1, <1>3, <1>4, <1>5, <2>1, <2>2, BindNextStep
<1> QED
  BY <1>2, <1>6, <1>7

(* start returns: the module or element is started; after the last one the *)
(* firmware is ready.                                                      *)
LEMMA StartReturnStep == Inv /\ StartReturn => Inv'
<1>. SUFFICES ASSUME Inv, StartReturn PROVE Inv'
  OBVIOUS
<1>1. /\ TypeOK /\ pc = "start" /\ UNCHANGED <<stage, round, request>>
      /\ stage = "START"
  BY DEF Inv, StartReturn, Walks, StartWalk
<1>2. /\ m \in Int /\ e \in Int /\ ElementCount[m] \in Int
      /\ m <= ModuleCount /\ ModuleCount \in Int /\ e <= ElementCount[m]
      /\ (m < ModuleCount => m + 1 \in Modules /\ <<m + 1, 0>> \in Ids)
      /\ (e < ElementCount[m] => <<m, e + 1>> \in Ids)
  BY <1>1, Position, FwkModuleAssumption DEF TypeOK
<1>3. /\ state' \in [Ids -> States]
      /\ \A id \in Ids : state'[id] = IF id[1] = m /\ id[2] = e
                                      THEN "STARTED" ELSE state[id]
  BY <1>1, SetState DEF StartReturn, TypeOK, States
<1>4. \A id \in Ids : state'[id] \in {"BOUND", "STARTED"} \/ Unbound(id)'
  BY <1>1, <1>3 DEF Inv, Walks, StartWalk, Unbound
<1>5. ASSUME NEW id \in Ids, id[1] < m \/ (id[1] = m /\ id[2] <= e)
      PROVE  state'[id] = "STARTED"
  <2>1. id[1] \in Int /\ id[2] \in Int
    BY IdParts
  <2>2. CASE Passed(id)
    BY <1>1, <1>3, <2>2 DEF Inv, Walks, StartWalk
  <2>3. CASE ~Passed(id)
    BY <1>2, <1>3, <1>5, <2>1, <2>3 DEF Passed
  <2> QED
    BY <2>2, <2>3
<1>6. RequestOK' /\ TargetsInitialized'
  BY <1>1, <1>4 DEF Inv, RequestOK, TargetsInitialized, Unbound
<1>7. ASSUME NEW id \in Ids
      PROVE  /\ id[1] \in Int /\ id[2] \in Int /\ id[2] >= 0
             /\ id[1] <= ModuleCount
             /\ id[1] = m => id[2] <= ElementCount[m]
  BY IdParts, FwkModuleAssumption DEF Modules
<1>8. CASE StepThrough("start") /\ UNCHANGED initialized
  <2>1. /\ pc' = "start" /\ m' \in Modules /\ <<m', e'>> \in Ids
        /\ bind_id' = bind_id
    BY <1>1, <1>2, <1>8 DEF StepThrough, Enter, TypeOK
  <2>2. TypeOK'
    BY <1>1, <1>3, <1>8, <2>1 DEF TypeOK
  <2>3. StartsAfterBind'
    BY <1>4, <2>1 DEF StartsAfterBind, Unbound
  <2>4. ASSUME NEW id \in Ids, Passed(id)'
        PROVE  id[1] < m \/ (id[1] = m /\ id[2] <= e)
    BY <1>2, <1>7, <1>8, <2>4 DEF Passed, StepThrough, Enter
  <2>5. StartWalk'
    BY <1>1, <1>4, <1>5, <2>4 DEF StartWalk
  <2>6. Walks'
    BY <2>1, <2>5 DEF Walks, InitWalk, Trapped, BindWalk, InitCalls
  <2> QED
    BY <1>6, <2>2, <2>3, <2>6 DEF Inv
<1>9. CASE AtEnd /\ Stay("ready") /\ initialized' = TRUE
  <2>1. TypeOK'
    BY <1>1, <1>3, <1>9 DEF TypeOK, Stay
  <2>2. ASSUME NEW id \in Ids PROVE state'[id] = "STARTED"
    <3>1. id[1] < m \/ (id[1] = m /\ id[2] <= e)
      BY <1>2, <1>7, <1>9 DEF AtEnd
    <3> QED
      BY <1>5, <3>1
  <2>3. StartsAfterBind'
    BY <2>2 DEF StartsAfterBind
  <2>4. Walks'
    BY <1>9 DEF Stay, Walks, InitWalk, Trapped, BindWalk, StartWalk, InitCalls
  <2> QED
    BY <1>6, <2>1, <2>3, <2>4 DEF Inv
<1> QED
  BY <1>8, <1>9 DEF StartReturn

(* stop returns: the module or element is suspended. *)
LEMMA StopReturnStep == Inv /\ StopReturn => Inv'
<1>. SUFFICES ASSUME Inv, StopReturn PROVE Inv'
  OBVIOUS
<1>1. /\ TypeOK /\ pc = "stop"
      /\ UNCHANGED <<initialized, stage, round, request>>
  BY DEF Inv, StopReturn
<1>2. /\ m \in Int /\ e \in Int
      /\ (m < ModuleCount => m + 1 \in Modules /\ <<m + 1, 0>> \in Ids)
      /\ (e < ElementCount[m] => <<m, e + 1>> \in Ids)
  BY <1>1, Position DEF TypeOK
<1>3. /\ state' \in [Ids -> States]
      /\ \A id \in Ids : state'[id] = IF id[1] = m /\ id[2] = e
                                      THEN "SUSPENDED" ELSE state[id]
  BY <1>1, SetState DEF StopReturn, TypeOK, States
<1>4. RequestOK' /\ TargetsInitialized'
  BY <1>1, <1>3 DEF Inv, RequestOK, TargetsInitialized
<1>5. /\ pc' \in {"stop", "stopped"} /\ m' \in Modules /\ <<m', e'>> \in Ids
      /\ bind_id' = bind_id
  BY <1>1, <1>2 DEF StopReturn, StepThrough, Enter, Stay, TypeOK
<1>6. TypeOK'
  BY <1>1, <1>3, <1>5 DEF TypeOK
<1>7. StartsAfterBind'
  BY <1>3, <1>5 DEF Inv, StartsAfterBind
<1>8. Walks'
  BY <1>5 DEF Walks, InitWalk, Trapped, BindWalk, StartWalk, InitCalls
<1> QED
  BY <1>4, <1>6, <1>7, <1>8 DEF Inv

(* Inv is inductive. *)
LEMMA NextInv == Inv /\ [Next]_vars => Inv'
<1>. SUFFICES ASSUME Inv, [Next]_vars PROVE Inv'
  OBVIOUS
<1>1. CASE UNCHANGED vars
  BY <1>1 DEF vars, Inv, TypeOK, RequestOK, Walks, InitWalk, Trapped, BindWalk,
              StartWalk, InitDone, Passed, Unbound, TargetsInitialized,
              StartsAfterBind
<1>2. CASE ArchInit
  BY <1>2, ArchInitStep
<1>3. CASE ArchDeinit
  BY <1>3, ArchDeinitStep
<1>4. CASE Walk
  BY <1>4, InitReturnStep, ElementInitReturnStep, PostInitReturnStep,
     FailSteps, BindSkipStep, BindReturnStep, StartReturnStep, StopReturnStep
     DEF Walk
<1>5. CASE Idle
  BY <1>1, <1>5 DEF Idle
<1>6. CASE \E target \in Ids : Bind(target)
  BY <1>6, BindStep
<1> QED
  BY <1>1, <1>2, <1>3, <1>4, <1>5, <1>6 DEF Next

(* For every module table the walks of fwk_module.c stay inside it, a      *)
(* target that processes a bind request is initialized, and nothing is     *)
(* started before everything that binds is bound.                          *)
THEOREM PreRuntime == Spec => []Inv
<1>1. Inv /\ [Next]_vars => Inv'
  BY NextInv
<1> QED
  BY <1>1, InitInv, PTL DEF Spec

(* No callback for an element that a module does not have. *)
THEOREM TypeCorrect == Spec => []TypeOK
<1>1. Inv => TypeOK
  BY DEF Inv
<1> QED
  BY <1>1, PreRuntime, PTL

(* fwk_module_bind asks only initialized modules and elements, in whatever *)
(* callback it is called.                                                  *)
THEOREM BindTargets == Spec => []TargetsInitialized
<1>1. Inv => TargetsInitialized
  BY DEF Inv
<1> QED
  BY <1>1, PreRuntime, PTL

(* fwk_module_start starts nothing before all that binds is bound, and     *)
(* the firmware runs only with everything started.                         *)
THEOREM StartOrder == Spec => []StartsAfterBind
<1>1. Inv => StartsAfterBind
  BY DEF Inv
<1> QED
  BY <1>1, PreRuntime, PTL
=============================================================================
