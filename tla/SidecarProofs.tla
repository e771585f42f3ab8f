--------------------------- MODULE SidecarProofs ---------------------------
(***************************************************************************)
(* Theorems about the sidecar supervisor, for every set of contexts, calls *)
(* and processes, every number of ports and every bound: type correctness, *)
(* the restart lock, the empty slot that a restart fills, that no backend  *)
(* is forgotten, that the running one serves the chosen context, and that  *)
(* a dialog that waits for a switch has an answer coming.                  *)
(***************************************************************************)
EXTENDS Sidecar, WellFoundedInduction, FiniteSetTheorems, TLAPS

-----------------------------------------------------------------------------
(* Ports.                                                                  *)

(* A nonempty set of ports has a least and a greatest member.              *)
LEMMA PortExtremes ==
    ASSUME NEW S \in SUBSET Port, S # {}
    PROVE  Min(S) \in S /\ Max(S) \in S
<1>1. ASSUME NEW T \in SUBSET Nat, T # {}
      PROVE  \E x \in T : \A y \in T : x =< y
  <2>1. PICK x \in T : \A y \in T : <<y, x>> \notin OpToRel(<, Nat)
    BY <1>1, NatLessThanWellFounded, WFMin
  <2>2. \A y \in T : ~ (y < x)
    BY <2>1, <1>1 DEF OpToRel
  <2> QED  BY <2>2, <1>1
<1>2. \E x \in S : \A y \in S : x =< y
  BY <1>1 DEF Port
<1>3. \E x \in S : \A y \in S : x >= y
  <2> DEFINE T == {NumPorts - r : r \in S}
  <2>1. T \in SUBSET Nat /\ T # {}
    <3>1. \A r \in Port : NumPorts - r \in Nat
      BY SidecarAssumption DEF Port, SidecarAssumption
    <3> QED  BY <3>1
  <2>2. PICK d \in T : \A y \in T : d =< y
    BY <1>1, <2>1
  <2>3. PICK x \in S : d = NumPorts - x
    BY <2>2
  <2>4. \A y \in S : NumPorts - x =< NumPorts - y
    BY <2>2, <2>3
  <2> QED  BY <2>4, SidecarAssumption DEF Port, SidecarAssumption
<1> QED  BY <1>2, <1>3 DEF Min, Max

(* ensure_sidecar_port_available answers a port of the scan or an error.   *)
LEMMA EnsurePortType ==
    ASSUME NEW q \in Port
    PROVE  EnsurePort(q) \in Port \cup {NoPort}
<1>1. DefaultPort \in Port
  BY SidecarAssumption DEF DefaultPort, Port, SidecarAssumption
<1>2. FindAvailable(q) \in Port \cup {NoPort}
  <2> DEFINE above == {r \in Port : r > q /\ Bindable(r)}
             below == {r \in Port : r < q /\ Bindable(r)}
  <2>1. above # {} => Min(above) \in Port
    BY PortExtremes
  <2>2. below # {} => Max(below) \in Port
    BY PortExtremes
  <2> QED  BY <2>1, <2>2 DEF FindAvailable
<1> QED  BY <1>1, <1>2 DEF EnsurePort

-----------------------------------------------------------------------------
(* Type correctness.                                                       *)

USE DEF shell, stored, world, locals, outer

(* Who the workers are.                                                    *)
LEMMA Roles ==
    /\ Monitor \in Worker
    /\ Restarter \subseteq Worker
    /\ Switches \subseteq Restarter /\ Logins \cup Commands \subseteq Restarter
BY DEF Worker, Restarter

(* A jump to a label keeps pc in its type.                                 *)
LEMMA GotoType ==
    ASSUME pc \in [Worker -> PC], NEW w \in Worker, NEW l \in PC, Goto(w, l)
    PROVE  pc' \in [Worker -> PC]
BY DEF Goto

(* A step counts at most one fault, and only below the bound.              *)
LEMMA FaultType ==
    ASSUME faults \in 0..MaxFaults
    PROVE  /\ \A k : Fault(k) => faults' \in 0..MaxFaults
           /\ NoFault => faults' \in 0..MaxFaults
<1>1. \A k : Fault(k) => faults' \in 0..MaxFaults
  BY SidecarAssumption DEF Fault, SidecarAssumption
<1> QED  BY <1>1 DEF NoFault

(* A started process is one, and a stopped one leaves the others alone.    *)
LEMMA ProcessType ==
    ASSUME proc \in [Backend -> Process]
    PROVE  /\ \A b \in Backend, c \in Config : Launched(b, c) \in [Backend -> Process]
           /\ \A b : Stopped(b) \in [Backend -> Process]
<1>1. \A b \in Backend, c \in Config : Launched(b, c) \in [Backend -> Process]
  BY DEF Launched, Process, Config
<1>2. Down \in Process
  BY SidecarAssumption DEF SidecarAssumption, Down, Process
<1> QED  BY <1>1, <1>2 DEF Stopped

(* A configuration moved to another port is one.                           *)
LEMMA MovedType ==
    /\ \A c \in Config : c.port \in Port
    /\ \A c \in Config, q \in Port : [c EXCEPT !.port = q] \in Config
BY DEF Config

(* What EnsurePort, when it succeeds, does to a worker's configuration.    *)
LEMMA MovePortType ==
    ASSUME TypeOK, NEW w \in Worker, NEW q, q = EnsurePort(cfg[w].port), q # NoPort,
           cfg' = [cfg EXCEPT ![w].port = q]
    PROVE  cfg' \in [Worker -> Config] /\ cfg'[w] \in Config
<1>1. cfg[w].port \in Port
  BY MovedType DEF TypeOK
<1>2. q \in Port
  BY <1>1, EnsurePortType
<1>3. [cfg[w] EXCEPT !.port = q] \in Config
  BY <1>2, MovedType DEF TypeOK
<1> QED  BY <1>3 DEF TypeOK

(* The setup hook's steps keep the state in its type.                      *)
LEMMA SetupType ==
    ASSUME TypeOK,  SetupStep
    PROVE  TypeOK'
<1>1. CASE SetupPort
  BY <1>1, Roles, GotoType, EnsurePortType, MovedType, FaultType
  DEF TypeOK, SetupPort,
      PC, SetupPC, MonitorPC, RestartPC, SwitchPC
<1>2. CASE SetupSpawn
  <2>1. faults' \in 0..MaxFaults
    BY <1>2, FaultType DEF TypeOK, SetupSpawn
  <2>2. pc' \in [Worker -> PC]
    BY <1>2, GotoType, Roles
    DEF TypeOK, SetupSpawn, PC, SetupPC, MonitorPC, RestartPC, SwitchPC
  <2>3. proc' \in [Backend -> Process]
    BY <1>2, ProcessType, Roles DEF TypeOK, SetupSpawn
  <2>4. held' \in [Worker -> Backend \cup {NoBackend}]
    BY <1>2 DEF TypeOK, SetupSpawn
  <2> QED  BY <1>2, <2>1, <2>2, <2>3, <2>4 DEF TypeOK, SetupSpawn
<1>3. CASE SetupReady
  BY <1>3, Roles, GotoType
  DEF TypeOK, SetupReady,
      PC, SetupPC, MonitorPC, RestartPC, SwitchPC
<1> QED  BY <1>1, <1>2, <1>3 DEF SetupStep

(* The monitor's steps keep the state in its type.                         *)
LEMMA MonitorType ==
    ASSUME TypeOK, MonitorStep
    PROVE  TypeOK'
<1>1. CASE MonitorPoll
  BY <1>1, Roles, GotoType
  DEF TypeOK, MonitorPoll,
      PC, SetupPC, MonitorPC, RestartPC, SwitchPC
<1>2. CASE MonitorLook
  BY <1>2, Roles, GotoType
  DEF TypeOK, MonitorLook,
      PC, SetupPC, MonitorPC, RestartPC, SwitchPC
<1>3. CASE MonitorBegin
  BY <1>3, Roles, GotoType
  DEF TypeOK, MonitorBegin, TryBegin,
      PC, SetupPC, MonitorPC, RestartPC, SwitchPC
<1>4. CASE MonitorEnsure
  BY <1>4, Roles, GotoType, MovePortType
  DEF TypeOK, MonitorEnsure,
      PC, SetupPC, MonitorPC, RestartPC, SwitchPC
<1>5. CASE MonitorSave
  BY <1>5, Roles, GotoType, FaultType
  DEF TypeOK, MonitorSave,
      PC, SetupPC, MonitorPC, RestartPC, SwitchPC
<1>6. CASE MonitorSpawn
  <2>1. faults' \in 0..MaxFaults
    BY <1>6, FaultType DEF TypeOK, MonitorSpawn
  <2>2. pc' \in [Worker -> PC]
    BY <1>6, GotoType, Roles
    DEF TypeOK, MonitorSpawn, PC, SetupPC, MonitorPC, RestartPC, SwitchPC
  <2>3. proc' \in [Backend -> Process]
    BY <1>6, ProcessType, Roles DEF TypeOK, MonitorSpawn
  <2>4. held' \in [Worker -> Backend \cup {NoBackend}]
    BY <1>6 DEF TypeOK, MonitorSpawn
  <2> QED  BY <1>6, <2>1, <2>2, <2>3, <2>4 DEF TypeOK, MonitorSpawn
<1>7. CASE MonitorStore
  BY <1>7, Roles, GotoType
  DEF TypeOK, MonitorStore,
      PC, SetupPC, MonitorPC, RestartPC, SwitchPC
<1>8. CASE MonitorEnd
  BY <1>8, Roles, GotoType
  DEF TypeOK, MonitorEnd,
      PC, SetupPC, MonitorPC, RestartPC, SwitchPC
<1> QED  BY <1>1, <1>2, <1>3, <1>4, <1>5, <1>6, <1>7, <1>8 DEF MonitorStep

(* The steps of a restart keep the state in its type.                      *)
LEMMA RestartType ==
    ASSUME TypeOK, NEW w \in Restarter, RestartStep(w)
    PROVE  TypeOK'
<1>1. CASE Begin(w)
  BY <1>1, Roles, GotoType
  DEF TypeOK, Begin, TryBegin,
      PC, SetupPC, MonitorPC, RestartPC, SwitchPC
<1>2. CASE Ensure(w)
  <2>1. faults' \in 0..MaxFaults
    BY <1>2, FaultType DEF TypeOK, Ensure, MovePort
  <2>2. pc' \in [Worker -> PC]
    BY <1>2, GotoType, Roles
    DEF TypeOK, Ensure, MovePort, FailRestart, PC, SetupPC, MonitorPC,
        RestartPC, SwitchPC
  <2>3. cfg' \in [Worker -> Config] /\ file' \in Config
    BY <1>2, MovePortType, Roles DEF TypeOK, Ensure, MovePort
  <2>4. ok' \in [Worker -> BOOLEAN]
    BY <1>2 DEF TypeOK, Ensure, MovePort, FailRestart
  <2> QED  BY <1>2, <2>1, <2>2, <2>3, <2>4 DEF TypeOK, Ensure
<1>3. CASE Adopt(w)
  BY <1>3, Roles, GotoType
  DEF TypeOK, Adopt,
      PC, SetupPC, MonitorPC, RestartPC, SwitchPC
<1>4. CASE Stop(w)
  BY <1>4, Roles, GotoType, ProcessType
  DEF TypeOK, Stop,
      PC, SetupPC, MonitorPC, RestartPC, SwitchPC
<1>5. CASE WaitPort(w)
  <2>1. faults' \in 0..MaxFaults
    BY <1>5, FaultType DEF TypeOK, WaitPort, MovePort
  <2>2. pc' \in [Worker -> PC]
    BY <1>5, GotoType, Roles
    DEF TypeOK, WaitPort, MovePort, FailRestart, PC, SetupPC, MonitorPC,
        RestartPC, SwitchPC
  <2>3. cfg' \in [Worker -> Config] /\ file' \in Config
    BY <1>5, MovePortType, Roles DEF TypeOK, WaitPort, MovePort
  <2>4. ok' \in [Worker -> BOOLEAN]
    BY <1>5 DEF TypeOK, WaitPort, MovePort, FailRestart
  <2> QED  BY <1>5, <2>1, <2>2, <2>3, <2>4 DEF TypeOK, WaitPort
<1>6. CASE Spawn(w)
  <2>1. faults' \in 0..MaxFaults
    BY <1>6, FaultType DEF TypeOK, Spawn
  <2>2. pc' \in [Worker -> PC]
    BY <1>6, GotoType, Roles
    DEF TypeOK, Spawn, FailRestart, PC, SetupPC, MonitorPC, RestartPC, SwitchPC
  <2>3. proc' \in [Backend -> Process]
    BY <1>6, ProcessType, Roles DEF TypeOK, Spawn
  <2>4. held' \in [Worker -> Backend \cup {NoBackend}]
    BY <1>6 DEF TypeOK, Spawn
  <2>5. ok' \in [Worker -> BOOLEAN]
    BY <1>6 DEF TypeOK, Spawn, FailRestart
  <2> QED  BY <1>6, <2>1, <2>2, <2>3, <2>4, <2>5 DEF TypeOK, Spawn
<1>7. CASE Ready(w)
  <2>1. faults' \in 0..MaxFaults
    BY <1>7, FaultType DEF TypeOK, Ready, Probe, ProbeTimeout, StopHeld
  <2>2. pc' \in [Worker -> PC]
    BY <1>7, GotoType, Roles
    DEF TypeOK, Ready, Probe, ProbeTimeout, StopHeld, FailRestart, PC,
        SetupPC, MonitorPC, RestartPC, SwitchPC
  <2>3. proc' \in [Backend -> Process]
    BY <1>7, ProcessType, Roles DEF TypeOK, Ready, Probe, ProbeTimeout, StopHeld
  <2>4. held' \in [Worker -> Backend \cup {NoBackend}]
    BY <1>7, Roles DEF TypeOK, Ready, Probe, ProbeTimeout, StopHeld
  <2>5. ok' \in [Worker -> BOOLEAN]
    BY <1>7, Roles DEF TypeOK, Ready, Probe, ProbeTimeout, StopHeld, FailRestart
  <2> QED  BY <1>7, <2>1, <2>2, <2>3, <2>4, <2>5 DEF TypeOK, Ready, Probe,
      ProbeTimeout, StopHeld
<1>8. CASE Verify(w)
  <2>1. faults' \in 0..MaxFaults
    BY <1>8, FaultType DEF TypeOK, Verify, Probe, ProbeTimeout, StopHeld,
        StoreHeld
  <2>2. pc' \in [Worker -> PC]
    BY <1>8, GotoType, Roles
    DEF TypeOK, Verify, Probe, ProbeTimeout, StopHeld, StoreHeld, FailRestart,
        PC, SetupPC, MonitorPC, RestartPC, SwitchPC
  <2>3. proc' \in [Backend -> Process]
    BY <1>8, ProcessType, Roles DEF TypeOK, Verify, Probe, ProbeTimeout,
        StopHeld, StoreHeld
  <2>4. held' \in [Worker -> Backend \cup {NoBackend}]
    BY <1>8 DEF TypeOK, Verify, Probe, ProbeTimeout, StopHeld, StoreHeld
  <2>5. ok' \in [Worker -> BOOLEAN]
    BY <1>8 DEF TypeOK, Verify, Probe, ProbeTimeout, StopHeld, StoreHeld,
        FailRestart
  <2>6. child' \in Backend \cup {NoBackend}
    BY <1>8, Roles DEF TypeOK, Verify, StoreHeld, Config
  <2> QED  BY <1>8, <2>1, <2>2, <2>3, <2>4, <2>5, <2>6 DEF TypeOK, Verify,
      Probe, ProbeTimeout, StopHeld, StoreHeld
<1>9. CASE EndRestart(w)
  BY <1>9, Roles, GotoType
  DEF TypeOK, EndRestart,
      PC, SetupPC, MonitorPC, RestartPC, SwitchPC
<1> QED  BY <1>1, <1>2, <1>3, <1>4, <1>5, <1>6, <1>7, <1>8, <1>9 DEF RestartStep

(* The steps of set_sidecar_config keep the state in its type.             *)
LEMMA SwitchType ==
    ASSUME TypeOK, NEW s \in Switches, SwitchStep(s)
    PROVE  TypeOK'
<1>1. CASE SetConfig(s)
  BY <1>1, Roles, GotoType
  DEF TypeOK, SetConfig,
      PC, SetupPC, MonitorPC, RestartPC, SwitchPC
<1>2. CASE SetSave(s)
  <2>1. faults' \in 0..MaxFaults
    BY <1>2, FaultType DEF TypeOK, SetSave
  <2>2. pc' \in [Worker -> PC]
    BY <1>2, GotoType, Roles
    DEF TypeOK, SetSave, PC, SetupPC, MonitorPC, RestartPC, SwitchPC
  <2>3. switch_status' \in ClusterSwitchStatus
    <3>1. next[s] \in Config /\ next[s].ctx \in Context
      BY DEF TypeOK, Config
    <3>2. [in_progress |-> TRUE, last_success |-> "none", requested |-> next[s].ctx]
             \in ClusterSwitchStatus
      BY <3>1 DEF ClusterSwitchStatus
    <3> QED  BY <1>2, <3>2 DEF TypeOK, SetSave
  <2>4. ui' \in Dialog
    BY <1>2 DEF TypeOK, SetSave, Dialog
  <2>5. file' \in Config
    BY <1>2 DEF TypeOK, SetSave
  <2>6. req' \in [Worker -> BOOLEAN]
    BY <1>2 DEF TypeOK, SetSave
  <2> QED  BY <1>2, <2>1, <2>2, <2>3, <2>4, <2>5, <2>6 DEF TypeOK, SetSave
<1>3. CASE SwitchSucceeds(s)
  BY <1>3, Roles, GotoType
  DEF TypeOK, SwitchSucceeds, Report, ClusterSwitchStatus,
      PC, SetupPC, MonitorPC, RestartPC, SwitchPC
<1>4. CASE RollBack(s)
  BY <1>4, Roles, GotoType
  DEF TypeOK, RollBack,
      PC, SetupPC, MonitorPC, RestartPC, SwitchPC
<1>5. CASE RollBackSave(s)
  BY <1>5, Roles, GotoType, FaultType
  DEF TypeOK, RollBackSave,
      PC, SetupPC, MonitorPC, RestartPC, SwitchPC
<1>6. CASE SwitchFails(s)
  BY <1>6, Roles, GotoType
  DEF TypeOK, SwitchFails, Report, ClusterSwitchStatus,
      PC, SetupPC, MonitorPC, RestartPC, SwitchPC
<1> QED  BY <1>1, <1>2, <1>3, <1>4, <1>5, <1>6 DEF SwitchStep

(* The ends of a login's or command's restart keep the state in its type.  *)
LEMMA ManualType ==
    ASSUME TypeOK, NEW w \in Logins \cup Commands, Manual(w) \/ ManualReturn(w)
    PROVE  TypeOK'
BY GotoType, Roles
DEF TypeOK, Manual, ManualReturn, PC, SetupPC, MonitorPC, RestartPC, SwitchPC

(* The dialog's steps keep the state in its type.                          *)
LEMMA UiType ==
    ASSUME TypeOK, UiStep
    PROVE  TypeOK'
<1>1. CASE UiPoll
  BY <1>1, Roles
  DEF TypeOK, UiPoll, Dialog
<1>2. CASE UiGiveUp
  BY <1>2, Roles, SidecarAssumption
  DEF TypeOK, UiGiveUp, Dialog, SidecarAssumption
<1>3. CASE \E s \in Switches, c \in Context : UiSelect(s, c)
  BY <1>3, Roles, GotoType
  DEF TypeOK, UiSelect, Dialog, Config,
      PC, SetupPC, MonitorPC, RestartPC, SwitchPC
<1> QED  BY <1>1, <1>2, <1>3 DEF UiStep

(* The application's end and start keep the state in its type.             *)
LEMMA LifecycleType ==
    ASSUME TypeOK, Lifecycle
    PROVE  TypeOK'
<1>1. CASE ExitRequested
  BY <1>1, Roles, ProcessType
  DEF TypeOK, ExitRequested
<1>2. CASE Exit
  BY <1>2, Roles, FaultType, ProcessType
  DEF TypeOK, Exit, ProcessEnds, ClusterSwitchStatus, Dialog,
      PC, SetupPC, MonitorPC, RestartPC, SwitchPC
<1>3. CASE Killed
  BY <1>3, Roles, FaultType, ProcessType
  DEF TypeOK, Killed, ProcessEnds, ClusterSwitchStatus, Dialog,
      PC, SetupPC, MonitorPC, RestartPC, SwitchPC
<1>4. CASE Launch
  <2>1. launches' \in 0..MaxLaunches
    BY <1>4, SidecarAssumption DEF TypeOK, Launch, SidecarAssumption
  <2>2. pc' \in [Worker -> PC]
    BY <1>4, GotoType, Roles DEF TypeOK, Launch, PC, SetupPC, MonitorPC,
        RestartPC, SwitchPC
  <2> QED  BY <1>4, <2>1, <2>2 DEF TypeOK, Launch
<1> QED  BY <1>1, <1>2, <1>3, <1>4 DEF Lifecycle

(* The environment's steps keep the state in its type.                     *)
LEMMA EnvironmentType ==
    ASSUME TypeOK, Environment
    PROVE  TypeOK'
<1>1. CASE \E b \in Backend : Crash(b)
  BY <1>1, Roles, FaultType, SidecarAssumption
  DEF TypeOK, Crash, Down, Process, SidecarAssumption
<1>2. CASE \E q \in Port : ForeignTakes(q) \/ ForeignLeaves(q)
  BY <1>2, Roles, FaultType
  DEF TypeOK, ForeignTakes, ForeignLeaves
<1> QED  BY <1>1, <1>2 DEF Environment

(* The initial state is of its type.                                       *)
LEMMA TypeInit == Init => TypeOK
<1>1. DefaultPort \in Port
  BY SidecarAssumption DEF SidecarAssumption, DefaultPort, Port
<1>2. [ctx |-> InitContext, port |-> DefaultPort] \in Config
  BY <1>1, SidecarAssumption DEF SidecarAssumption, Config
<1>3. Down \in Process
  BY SidecarAssumption DEF SidecarAssumption, Down, Process
<1>4. SUFFICES ASSUME Init PROVE TypeOK
  OBVIOUS
<1>5. switch_status \in ClusterSwitchStatus /\ ui \in Dialog
  BY <1>4 DEF Init, ClusterSwitchStatus, Dialog
<1>6. 0 \in 0..MaxFaults /\ 0 \in 0..MaxGiveUps /\ 0 \in 0..MaxLaunches
  BY SidecarAssumption DEF SidecarAssumption
<1>7. pc \in [Worker -> PC]
  BY <1>4 DEF Init, PC, SetupPC
<1>8. /\ cfg \in [Worker -> Config] /\ config \in Config /\ file \in Config
      /\ next \in [Switches -> Config] /\ previous \in [Switches -> Config]
  BY <1>4, <1>2 DEF Init
<1> QED  BY <1>3, <1>4, <1>5, <1>6, <1>7, <1>8, SidecarAssumption
         DEF Init, TypeOK, SidecarAssumption

(* Every step keeps the state in its type.                                 *)
LEMMA TypeNext == TypeOK /\ [Next]_vars => TypeOK'
<1>1. ASSUME TypeOK, UNCHANGED vars PROVE TypeOK'
  BY <1>1 DEF vars, TypeOK
<1>2. ASSUME TypeOK, Next PROVE TypeOK'
  BY <1>2, SetupType, MonitorType, RestartType, ManualType, SwitchType, UiType,
     LifecycleType, EnvironmentType DEF Next
<1> QED  BY <1>1, <1>2

(* The supervisor's state is always of its type: in particular a port that *)
(* it computes is one of the scan (main.rs:824-871).                       *)
THEOREM TypeCorrect == Spec => []TypeOK
BY TypeInit, TypeNext, PTL DEF Spec

-----------------------------------------------------------------------------
(* The restart lock and the slot.                                          *)

(* RestartLock says nothing about who may fill state.child: the monitor    *)
(* does so inside the lock, the setup hook outside it but before any       *)
(* restart. So the induction also needs where each worker may be (the      *)
(* setup hook runs alone), where a worker may hold a backend, and that a   *)
(* restart past its stop finds the slot empty until it fills it.           *)
Placement ==
    /\ app \in {"boot", "gone"} => \A w \in Restarter : pc[w] = "idle"
    /\ app = "gone" => pc[Monitor] = "idle"
    /\ pc[Monitor] \in SetupPC <=> app = "boot"
    /\ app \in {"boot", "gone"} => child = NoBackend
    /\ pc[Monitor] \in SetupPC \cup MonitorPC \cup {"idle"}
    /\ \A w \in Restarter : pc[w] \in {"idle", "done"} \cup RestartPC \cup SwitchPC

Cleared == {"wait_port", "readopt", "spawn", "ready", "verify"}

HeldWhileHolding == \A w \in Worker : held[w] # NoBackend => pc[w] \in Holding
SlotCleared      == \A w \in Restarter : pc[w] \in Cleared => child = NoBackend

IInv == TypeOK /\ RestartLock /\ Placement /\ HeldWhileHolding /\ SlotCleared

(* A step inside the lock, or outside it, keeps it.                        *)
LEMMA LockKept ==
    ASSUME TypeOK, RestartLock, NEW w \in Worker, NEW l, Goto(w, l),
           pc[w] \in Critical <=> l \in Critical,
           UNCHANGED restart_in_progress
    PROVE  RestartLock'
<1>1. \A v \in Worker : pc'[v] \in Critical <=> pc[v] \in Critical
  BY DEF Goto, TypeOK
<1> QED  BY <1>1 DEF RestartLock, InRestart

(* TryBegin takes it when nobody has it.                                   *)
LEMMA LockTaken ==
    ASSUME TypeOK, RestartLock, NEW w \in Worker, NEW l, Goto(w, l), l \in Critical,
           TryBegin(w)
    PROVE  RestartLock'
<1>1. \A v \in Worker : pc'[v] \in Critical <=> v = w
  BY DEF Goto, TypeOK, TryBegin, RestartLock, InRestart
<1> QED  BY <1>1 DEF RestartLock, InRestart, TryBegin

(* Only its owner releases it.                                             *)
LEMMA LockReleased ==
    ASSUME TypeOK, RestartLock, NEW w \in Worker, NEW l, Goto(w, l), l \notin Critical,
           pc[w] \in Critical, restart_in_progress' = FALSE
    PROVE  RestartLock'
<1>1. \A v \in Worker : pc'[v] \notin Critical
  BY DEF Goto, TypeOK, RestartLock, InRestart
<1> QED  BY <1>1 DEF RestartLock, InRestart

(* A step of no worker keeps it too.                                       *)
LEMMA LockUntouched ==
    ASSUME RestartLock, UNCHANGED <<pc, restart_in_progress>>
    PROVE  RestartLock'
BY DEF RestartLock, InRestart

(* The setup hook's steps keep the restart lock.                           *)
LEMMA SetupLock ==
    ASSUME TypeOK, RestartLock, SetupStep
    PROVE  RestartLock'
<1>1. CASE SetupPort
  BY <1>1, LockKept, Roles DEF SetupPort, At, Critical
<1>2. CASE SetupSpawn
  BY <1>2, LockKept, Roles DEF SetupSpawn, At, Critical
<1>3. CASE SetupReady
  BY <1>3, LockKept, Roles DEF SetupReady, At, Critical
<1> QED  BY <1>1, <1>2, <1>3 DEF SetupStep

(* The monitor's steps keep the restart lock.                              *)
LEMMA MonitorLock ==
    ASSUME TypeOK, RestartLock, MonitorStep
    PROVE  RestartLock'
<1>1. CASE MonitorPoll
  BY <1>1, LockKept, Roles DEF MonitorPoll, At, Critical
<1>2. CASE MonitorLook
  BY <1>2, LockKept, Roles DEF MonitorLook, At, Critical
<1>3. CASE MonitorBegin
  BY <1>3, LockKept, LockTaken, Roles DEF MonitorBegin, At, Critical
<1>4. CASE MonitorEnsure
  BY <1>4, LockKept, Roles DEF MonitorEnsure, At, Critical
<1>5. CASE MonitorSave
  BY <1>5, LockKept, Roles DEF MonitorSave, At, Critical
<1>6. CASE MonitorSpawn
  BY <1>6, LockKept, Roles DEF MonitorSpawn, At, Critical
<1>7. CASE MonitorStore
  BY <1>7, LockKept, Roles DEF MonitorStore, At, Critical
<1>8. CASE MonitorEnd
  BY <1>8, LockReleased, Roles DEF MonitorEnd, At, Critical
<1> QED  BY <1>1, <1>2, <1>3, <1>4, <1>5, <1>6, <1>7, <1>8 DEF MonitorStep

(* The steps of a restart keep the restart lock.                           *)
LEMMA RestartLockStep ==
    ASSUME TypeOK, RestartLock, NEW w \in Restarter, RestartStep(w)
    PROVE  RestartLock'
<1>1. CASE Begin(w)
  BY <1>1, LockKept, LockTaken, Roles DEF Begin, At, Critical
<1>2. CASE Ensure(w)
  BY <1>2, LockKept, Roles DEF Ensure, MovePort, FailRestart, At, Critical
<1>3. CASE Adopt(w)
  BY <1>3, LockKept, Roles DEF Adopt, At, Critical
<1>4. CASE Stop(w)
  BY <1>4, LockKept, Roles DEF Stop, At, Critical
<1>5. CASE WaitPort(w)
  BY <1>5, LockKept, Roles DEF WaitPort, MovePort, FailRestart, At, Critical
<1>6. CASE Spawn(w)
  BY <1>6, LockKept, Roles DEF Spawn, FailRestart, At, Critical
<1>7. CASE Ready(w)
  BY <1>7, LockKept, Roles DEF Ready, StopHeld, FailRestart, At, Critical
<1>8. CASE Verify(w)
  BY <1>8, LockKept, Roles DEF Verify, StopHeld, StoreHeld, FailRestart, At,
      Critical
<1>9. CASE EndRestart(w)
  BY <1>9, LockReleased, Roles DEF EndRestart, At, Critical
<1> QED  BY <1>1, <1>2, <1>3, <1>4, <1>5, <1>6, <1>7, <1>8, <1>9 DEF RestartStep

(* The steps of set_sidecar_config keep the restart lock.                  *)
LEMMA SwitchLock ==
    ASSUME TypeOK, RestartLock, NEW s \in Switches, SwitchStep(s)
    PROVE  RestartLock'
<1>1. CASE SetConfig(s)
  BY <1>1, LockKept, Roles DEF SetConfig, At, Critical
<1>2. CASE SetSave(s)
  BY <1>2, LockKept, Roles DEF SetSave, At, Critical
<1>3. CASE SwitchSucceeds(s)
  BY <1>3, LockKept, Roles DEF SwitchSucceeds, At, Critical
<1>4. CASE RollBack(s)
  BY <1>4, LockKept, Roles DEF RollBack, At, Critical
<1>5. CASE RollBackSave(s)
  BY <1>5, LockKept, Roles DEF RollBackSave, At, Critical
<1>6. CASE SwitchFails(s)
  BY <1>6, LockKept, Roles DEF SwitchFails, At, Critical
<1> QED  BY <1>1, <1>2, <1>3, <1>4, <1>5, <1>6 DEF SwitchStep

(* The ends of a login's or command's restart keep the restart lock.       *)
LEMMA ManualLock ==
    ASSUME TypeOK, RestartLock, NEW w \in Logins \cup Commands,
           Manual(w) \/ ManualReturn(w)
    PROVE  RestartLock'
BY LockKept, Roles DEF Manual, ManualReturn, At, Critical

(* The dialog's steps keep the restart lock.                               *)
LEMMA UiLock ==
    ASSUME TypeOK, RestartLock, UiStep
    PROVE  RestartLock'
<1>1. CASE UiPoll \/ UiGiveUp
  BY <1>1, LockUntouched DEF UiPoll, UiGiveUp
<1>2. CASE \E s \in Switches, c \in Context : UiSelect(s, c)
  BY <1>2, LockKept, Roles DEF UiSelect, Critical
<1> QED  BY <1>1, <1>2 DEF UiStep

(* The application's end and start keep the restart lock.                  *)
LEMMA LifecycleLock ==
    ASSUME TypeOK, RestartLock, Placement, Lifecycle
    PROVE  RestartLock'
<1>1. CASE ExitRequested
  BY <1>1, LockUntouched DEF ExitRequested
<1>2. CASE Exit \/ Killed
  BY <1>2 DEF Exit, Killed, ProcessEnds, RestartLock, InRestart, Critical
<1>3. CASE Launch
  BY <1>3, LockKept, Roles DEF Launch, Critical, Placement
<1> QED  BY <1>1, <1>2, <1>3 DEF Lifecycle

(* The environment's steps keep the restart lock.                          *)
LEMMA EnvironmentLock ==
    ASSUME TypeOK, RestartLock, Environment
    PROVE  RestartLock'
BY LockUntouched DEF Environment, Crash, ForeignTakes, ForeignLeaves

(* The setup hook's steps keep the other parts of IInv.                    *)
LEMMA SetupSlot ==
    ASSUME IInv, SetupStep
    PROVE  (Placement /\ HeldWhileHolding /\ SlotCleared)'
<1> USE DEF At, Goto, Placement, HeldWhileHolding, SlotCleared, Cleared,
    Holding, Critical,
            SetupPC, MonitorPC, RestartPC, SwitchPC, RestartLock, InRestart
<1>1. CASE SetupPort
  BY <1>1, Roles, SidecarAssumption
  DEF IInv, TypeOK, SidecarAssumption, SetupPort
<1>2. CASE SetupSpawn
  BY <1>2, Roles, SidecarAssumption
  DEF IInv, TypeOK, SidecarAssumption, SetupSpawn
<1>3. CASE SetupReady
  BY <1>3, Roles, SidecarAssumption
  DEF IInv, TypeOK, SidecarAssumption, SetupReady
<1> QED  BY <1>1, <1>2, <1>3 DEF SetupStep

(* The monitor's steps keep the other parts of IInv.                       *)
LEMMA MonitorSlot ==
    ASSUME IInv, MonitorStep
    PROVE  (Placement /\ HeldWhileHolding /\ SlotCleared)'
<1> USE DEF At, Goto, Placement, HeldWhileHolding, SlotCleared, Cleared,
    Holding, Critical,
            SetupPC, MonitorPC, RestartPC, SwitchPC, RestartLock, InRestart
<1>1. CASE MonitorPoll
  BY <1>1, Roles, SidecarAssumption
  DEF IInv, TypeOK, SidecarAssumption, MonitorPoll
<1>2. CASE MonitorLook
  BY <1>2, Roles, SidecarAssumption
  DEF IInv, TypeOK, SidecarAssumption, MonitorLook
<1>3. CASE MonitorBegin
  BY <1>3, Roles, SidecarAssumption
  DEF IInv, TypeOK, SidecarAssumption, MonitorBegin
<1>4. CASE MonitorEnsure
  BY <1>4, Roles, SidecarAssumption
  DEF IInv, TypeOK, SidecarAssumption, MonitorEnsure
<1>5. CASE MonitorSave
  BY <1>5, Roles, SidecarAssumption
  DEF IInv, TypeOK, SidecarAssumption, MonitorSave
<1>6. CASE MonitorSpawn
  BY <1>6, Roles, SidecarAssumption
  DEF IInv, TypeOK, SidecarAssumption, MonitorSpawn
<1>7. CASE MonitorStore
  BY <1>7, Roles, SidecarAssumption
  DEF IInv, TypeOK, SidecarAssumption, MonitorStore
<1>8. CASE MonitorEnd
  BY <1>8, Roles, SidecarAssumption
  DEF IInv, TypeOK, SidecarAssumption, MonitorEnd
<1> QED  BY <1>1, <1>2, <1>3, <1>4, <1>5, <1>6, <1>7, <1>8 DEF MonitorStep

(* The steps of a restart keep the other parts of IInv.                    *)
LEMMA RestartSlot ==
    ASSUME IInv, NEW w \in Restarter, RestartStep(w)
    PROVE  (Placement /\ HeldWhileHolding /\ SlotCleared)'
<1> USE DEF At, Goto, Placement, HeldWhileHolding, SlotCleared, Cleared,
    Holding, Critical,
            SetupPC, MonitorPC, RestartPC, SwitchPC, RestartLock, InRestart
<1>1. CASE Begin(w)
  BY <1>1, Roles, SidecarAssumption
  DEF IInv, TypeOK, SidecarAssumption, Begin
<1>2. CASE Ensure(w)
  BY <1>2, Roles, SidecarAssumption
  DEF IInv, TypeOK, SidecarAssumption, Ensure, MovePort, FailRestart
<1>3. CASE Adopt(w)
  BY <1>3, Roles, SidecarAssumption
  DEF IInv, TypeOK, SidecarAssumption, Adopt
<1>4. CASE Stop(w)
  BY <1>4, Roles, SidecarAssumption
  DEF IInv, TypeOK, SidecarAssumption, Stop
<1>5. CASE WaitPort(w)
  BY <1>5, Roles, SidecarAssumption
  DEF IInv, TypeOK, SidecarAssumption, WaitPort, MovePort, FailRestart
<1>6. CASE Spawn(w)
  BY <1>6, Roles, SidecarAssumption
  DEF IInv, TypeOK, SidecarAssumption, Spawn, FailRestart
<1>7. CASE Ready(w)
  BY <1>7, Roles, SidecarAssumption
  DEF IInv, TypeOK, SidecarAssumption, Ready, StopHeld, FailRestart
<1>8. CASE Verify(w)
  BY <1>8, Roles, SidecarAssumption
  DEF IInv, TypeOK, SidecarAssumption, Verify, StopHeld, StoreHeld, FailRestart
<1>9. CASE EndRestart(w)
  BY <1>9, Roles, SidecarAssumption
  DEF IInv, TypeOK, SidecarAssumption, EndRestart
<1> QED  BY <1>1, <1>2, <1>3, <1>4, <1>5, <1>6, <1>7, <1>8, <1>9 DEF RestartStep

(* The steps of set_sidecar_config keep the other parts of IInv.           *)
LEMMA SwitchSlot ==
    ASSUME IInv, NEW s \in Switches, SwitchStep(s)
    PROVE  (Placement /\ HeldWhileHolding /\ SlotCleared)'
<1> USE DEF At, Goto, Placement, HeldWhileHolding, SlotCleared, Cleared,
    Holding, Critical,
            SetupPC, MonitorPC, RestartPC, SwitchPC, RestartLock, InRestart
<1>1. CASE SetConfig(s)
  BY <1>1, Roles, SidecarAssumption
  DEF IInv, TypeOK, SidecarAssumption, SetConfig
<1>2. CASE SetSave(s)
  BY <1>2, Roles, SidecarAssumption
  DEF IInv, TypeOK, SidecarAssumption, SetSave
<1>3. CASE SwitchSucceeds(s)
  BY <1>3, Roles, SidecarAssumption
  DEF IInv, TypeOK, SidecarAssumption, SwitchSucceeds
<1>4. CASE RollBack(s)
  BY <1>4, Roles, SidecarAssumption
  DEF IInv, TypeOK, SidecarAssumption, RollBack
<1>5. CASE RollBackSave(s)
  BY <1>5, Roles, SidecarAssumption
  DEF IInv, TypeOK, SidecarAssumption, RollBackSave
<1>6. CASE SwitchFails(s)
  BY <1>6, Roles, SidecarAssumption
  DEF IInv, TypeOK, SidecarAssumption, SwitchFails
<1> QED  BY <1>1, <1>2, <1>3, <1>4, <1>5, <1>6 DEF SwitchStep

(* The ends of a login's or command's restart keep the other parts of IInv.     *)
LEMMA ManualSlot ==
    ASSUME IInv, NEW w \in Logins \cup Commands, Manual(w) \/ ManualReturn(w)
    PROVE  (Placement /\ HeldWhileHolding /\ SlotCleared)'
<1> USE DEF At, Goto, Placement, HeldWhileHolding, SlotCleared, Cleared,
    Holding, Critical,
            SetupPC, MonitorPC, RestartPC, SwitchPC, RestartLock, InRestart
<1>1. CASE Manual(w)
  BY <1>1, Roles, SidecarAssumption
  DEF IInv, TypeOK, SidecarAssumption, Manual
<1>2. CASE ManualReturn(w)
  BY <1>2, Roles, SidecarAssumption
  DEF IInv, TypeOK, SidecarAssumption, ManualReturn
<1> QED  BY <1>1, <1>2

(* The dialog's steps keep the other parts of IInv.                        *)
LEMMA UiSlot ==
    ASSUME IInv, UiStep
    PROVE  (Placement /\ HeldWhileHolding /\ SlotCleared)'
<1> USE DEF At, Goto, Placement, HeldWhileHolding, SlotCleared, Cleared,
    Holding, Critical,
            SetupPC, MonitorPC, RestartPC, SwitchPC, RestartLock, InRestart
<1>1. CASE UiPoll
  BY <1>1, Roles, SidecarAssumption
  DEF IInv, TypeOK, SidecarAssumption, UiPoll
<1>2. CASE UiGiveUp
  BY <1>2, Roles, SidecarAssumption
  DEF IInv, TypeOK, SidecarAssumption, UiGiveUp
<1>3. CASE \E s \in Switches, c \in Context : UiSelect(s, c)
  BY <1>3, Roles, SidecarAssumption
  DEF IInv, TypeOK, SidecarAssumption, UiSelect
<1> QED  BY <1>1, <1>2, <1>3 DEF UiStep

(* The application's end and start keep the other parts of IInv.           *)
LEMMA LifecycleSlot ==
    ASSUME IInv, Lifecycle
    PROVE  (Placement /\ HeldWhileHolding /\ SlotCleared)'
<1> USE DEF At, Goto, Placement, HeldWhileHolding, SlotCleared, Cleared,
    Holding, Critical,
            SetupPC, MonitorPC, RestartPC, SwitchPC, RestartLock, InRestart
<1>1. CASE ExitRequested
  BY <1>1, Roles, SidecarAssumption
  DEF IInv, TypeOK, SidecarAssumption, ExitRequested
<1>2. CASE Exit
  BY <1>2, Roles, SidecarAssumption
  DEF IInv, TypeOK, SidecarAssumption, Exit, ProcessEnds
<1>3. CASE Killed
  BY <1>3, Roles, SidecarAssumption
  DEF IInv, TypeOK, SidecarAssumption, Killed, ProcessEnds
<1>4. CASE Launch
  BY <1>4, Roles, SidecarAssumption
  DEF IInv, TypeOK, SidecarAssumption, Launch
<1> QED  BY <1>1, <1>2, <1>3, <1>4 DEF Lifecycle

(* The environment's steps keep the other parts of IInv.                   *)
LEMMA EnvironmentSlot ==
    ASSUME IInv, Environment
    PROVE  (Placement /\ HeldWhileHolding /\ SlotCleared)'
BY DEF IInv, Environment, Crash, ForeignTakes, ForeignLeaves, Placement,
       HeldWhileHolding, SlotCleared

(* The strengthened invariant holds at first ...                           *)
LEMMA InitIInv == Init => IInv
<1> SUFFICES ASSUME Init PROVE IInv
  OBVIOUS
<1>1. TypeOK
  BY TypeInit
<1>2. RestartLock
  BY DEF Init, RestartLock, InRestart, Critical
<1>3. Placement /\ HeldWhileHolding /\ SlotCleared
  <2>1. pc[Monitor] = "setup_port" /\ \A w \in Restarter : pc[w] = "idle"
    BY Roles, SidecarAssumption DEF Init, SidecarAssumption
  <2>2. \A w \in Worker : held[w] = NoBackend
    BY DEF Init
  <2> QED  BY <2>1, <2>2 DEF Init, Placement, HeldWhileHolding, SlotCleared,
                             Cleared, SetupPC
<1> QED  BY <1>1, <1>2, <1>3 DEF IInv

(* ... and every step keeps it.                                            *)
LEMMA NextIInv == IInv /\ [Next]_vars => IInv'
<1>1. ASSUME IInv, UNCHANGED vars PROVE IInv'
  BY <1>1 DEF vars, IInv, TypeOK, RestartLock, InRestart, Placement,
              HeldWhileHolding, SlotCleared
<1>2. ASSUME IInv, Next PROVE IInv'
  <2>1. TypeOK'
    BY <1>2, TypeNext DEF IInv
  <2>2. RestartLock'
    BY <1>2, SetupLock, MonitorLock, RestartLockStep, ManualLock, SwitchLock,
       UiLock, LifecycleLock, EnvironmentLock DEF Next, IInv
  <2>3. (Placement /\ HeldWhileHolding /\ SlotCleared)'
    BY <1>2, SetupSlot, MonitorSlot, RestartSlot, ManualSlot, SwitchSlot,
       UiSlot, LifecycleSlot, EnvironmentSlot DEF Next
  <2> QED  BY <2>1, <2>2, <2>3 DEF IInv
<1> QED  BY <1>1, <1>2

(* The flag restart_in_progress is a lock with one owner, on every error   *)
(* path of a restart and of the monitor (main.rs:793-822).                 *)
THEOREM RestartLockHolds == Spec => []RestartLock
<1>1. IInv => RestartLock
  BY DEF IInv
<1> QED  BY <1>1, InitIInv, NextIInv, PTL DEF Spec

(* While a restart waits for its own backend the slot state.child is empty,*)
(* so the backend it then stores replaces none (main.rs:1295-1361).        *)
THEOREM RestartFillsEmptySlotHolds == Spec => []RestartFillsEmptySlot
<1>1. IInv => RestartFillsEmptySlot
  BY Roles DEF IInv, HeldWhileHolding, SlotCleared, RestartFillsEmptySlot,
      Holding,
         Cleared, Placement, RestartPC, SwitchPC
<1> QED  BY <1>1, InitIInv, NextIInv, PTL DEF Spec

-----------------------------------------------------------------------------
(* No backend is forgotten.                                                *)

Accounted ==
    \A b \in Backend :
       Up(b) /\ Kept(b) /\ proc'[b].up =>
          \/ Kept(b)'
          \/ pc[Monitor] = "m_ready" /\ b = child
          \/ app = "exiting" /\ \E w \in Worker : held[w] = b
          \/ faults' > faults /\ app' = "gone"

(* A step that leaves the slot and the holders alone forgets nothing.      *)
LEMMA KeptAlone ==
    ASSUME UNCHANGED <<child, held>>
    PROVE  Accounted
BY DEF Accounted, Kept

(* Nor does one that moves a backend from its holder to an empty slot.     *)
LEMMA KeptStored ==
    ASSUME TypeOK, NEW w \in Worker, child' = held[w], child = NoBackend,
           held' = [held EXCEPT ![w] = NoBackend]
    PROVE  Accounted
BY SidecarAssumption DEF Accounted, Kept, TypeOK, SidecarAssumption

(* Nor one that only adds a backend to the held ones.                      *)
LEMMA KeptSpawned ==
    ASSUME TypeOK, NEW w \in Worker, NEW b, held[w] = NoBackend,
           held' = [held EXCEPT ![w] = b], UNCHANGED child
    PROVE  Accounted
BY SidecarAssumption DEF Accounted, Kept, TypeOK, SidecarAssumption

(* Nor one that stops what it lets go of.                                  *)
LEMMA KeptStopped ==
    ASSUME TypeOK, NEW b, proc' = Stopped(b),
           \/ b = child /\ UNCHANGED held
           \/ \E w \in Worker : /\ b = held[w] /\ UNCHANGED child
                               /\ held' = [held EXCEPT ![w] = NoBackend]
    PROVE  Accounted
<1>1. \A a \in Backend : proc'[a].up => a # b
  BY DEF Stopped, Down
<1> QED  BY <1>1 DEF Accounted, Kept, TypeOK

(* The setup hook, the monitor and a restart, step by step.                *)
LEMMA SetupAccounted ==
    ASSUME IInv, SetupStep
    PROVE  Accounted
<1>1. CASE SetupPort
  BY <1>1, KeptAlone DEF SetupPort
<1>2. CASE SetupSpawn
  <2>1. held[Monitor] = NoBackend
    BY <1>2, Roles DEF SetupSpawn, IInv, HeldWhileHolding, Holding, At
  <2> QED  BY <1>2, <2>1, KeptAlone, KeptSpawned, Roles DEF SetupSpawn, IInv
<1>3. CASE SetupReady
  <2>1. child = NoBackend
    BY <1>3 DEF SetupReady, IInv, Placement, At, SetupPC
  <2> QED  BY <1>3, <2>1, KeptStored, Roles DEF SetupReady, IInv
<1> QED  BY <1>1, <1>2, <1>3 DEF SetupStep

(* The monitor drops only a backend that has exited, or stores over one.   *)
LEMMA MonitorAccounted ==
    ASSUME IInv, MonitorStep
    PROVE  Accounted
<1>1. CASE MonitorPoll \/ MonitorBegin \/ MonitorEnsure \/ MonitorSave \/ MonitorEnd
  BY <1>1, KeptAlone
  DEF MonitorPoll, MonitorBegin, MonitorEnsure, MonitorSave, MonitorEnd
<1>2. CASE MonitorLook
  BY <1>2 DEF MonitorLook, Accounted, Kept, Up
<1>3. CASE MonitorSpawn
  <2>1. held[Monitor] = NoBackend
    BY <1>3, Roles DEF MonitorSpawn, IInv, HeldWhileHolding, Holding, At
  <2> QED  BY <1>3, <2>1, KeptAlone, KeptSpawned, Roles DEF MonitorSpawn, IInv
<1>4. CASE MonitorStore
  BY <1>4, Roles, SidecarAssumption
  DEF MonitorStore, Accounted, Kept, At, IInv, TypeOK, SidecarAssumption
<1> QED  BY <1>1, <1>2, <1>3, <1>4 DEF MonitorStep

(* A restart stops the old backend, and stores or stops the new one.       *)
LEMMA RestartAccounted ==
    ASSUME IInv, NEW w \in Restarter, RestartStep(w)
    PROVE  Accounted
<1>1. CASE Begin(w) \/ Ensure(w) \/ Adopt(w) \/ WaitPort(w) \/ EndRestart(w)
  BY <1>1, KeptAlone DEF Begin, Ensure, Adopt, WaitPort, EndRestart, MovePort
<1>2. CASE Stop(w)
  BY <1>2, KeptStopped DEF Stop, IInv
<1>3. CASE Spawn(w)
  <2>1. held[w] = NoBackend
    BY <1>3, Roles DEF Spawn, IInv, HeldWhileHolding, Holding, At
  <2> QED  BY <1>3, <2>1, KeptAlone, KeptSpawned, Roles DEF Spawn, IInv
<1>4. CASE Ready(w)
  BY <1>4, KeptAlone, KeptStopped, Roles DEF Ready, StopHeld, IInv
<1>5. CASE Verify(w)
  <2>1. child = NoBackend
    BY <1>5 DEF Verify, IInv, SlotCleared, Cleared, At
  <2> QED  BY <1>5, <2>1, KeptStored, KeptStopped, Roles
           DEF Verify, StopHeld, StoreHeld, IInv
<1> QED  BY <1>1, <1>2, <1>3, <1>4, <1>5 DEF RestartStep

(* The exit handler stops what is in the slot; the rest dies with the app. *)
LEMMA LifecycleAccounted ==
    ASSUME IInv, Lifecycle
    PROVE  Accounted
<1>1. CASE ExitRequested
  <2>1. \A a \in Backend : proc'[a].up => a # child
    BY <1>1 DEF ExitRequested, Stopped, Down
  <2> QED  BY <1>1, <2>1 DEF ExitRequested, Accounted, Kept
<1>2. CASE Exit
  <2>1. \A a \in Backend : proc'[a].up => a # child
    BY <1>2 DEF Exit, Stopped, Down
  <2> QED  BY <1>2, <2>1 DEF Exit, Accounted, Kept
<1>3. CASE Killed
  <2>1. faults' > faults
    BY <1>3, SidecarAssumption DEF Killed, Fault, IInv, TypeOK,
        SidecarAssumption
  <2> QED  BY <1>3, <2>1 DEF Killed, ProcessEnds, Accounted
<1>4. CASE Launch
  BY <1>4, KeptAlone DEF Launch
<1> QED  BY <1>1, <1>2, <1>3, <1>4 DEF Lifecycle

(* A running backend that the slot or a worker holds is handed over or     *)
(* stopped, except by the three steps that the property names: for every   *)
(* number of calls, processes and faults (main.rs:1265-1492, 3155-3170).   *)
THEOREM BackendsAccountedForHolds == Spec => BackendsAccountedFor
<1>1. IInv /\ [Next]_vars => [Accounted]_vars
  <2>1. ASSUME IInv, Next PROVE Accounted
    <3>1. ASSUME NEW w \in Logins \cup Commands, Manual(w) \/ ManualReturn(w)
          PROVE  Accounted
      BY <3>1, KeptAlone DEF Manual, ManualReturn
    <3>2. ASSUME NEW s \in Switches, SwitchStep(s) PROVE Accounted
      BY <3>2, KeptAlone DEF SwitchStep, SetConfig, SetSave, SwitchSucceeds,
         RollBack, RollBackSave, SwitchFails
    <3>3. CASE UiStep
      BY <3>3, KeptAlone DEF UiStep, UiPoll, UiGiveUp, UiSelect
    <3>4. CASE Environment
      BY <3>4, KeptAlone DEF Environment, Crash, ForeignTakes, ForeignLeaves
    <3> QED  BY <2>1, <3>1, <3>2, <3>3, <3>4, SetupAccounted, MonitorAccounted,
             RestartAccounted, LifecycleAccounted DEF Next
  <2> QED  BY <2>1
<1>2. Spec => [][Accounted]_vars
  BY <1>1, InitIInv, NextIInv, PTL DEF Spec
<1> QED  BY <1>2 DEF BackendsAccountedFor, Accounted

-----------------------------------------------------------------------------
(* The running backend serves the configured context.                      *)

(* Somewhere in the scan a port is free, so that a restart always gets far *)
(* enough to stop the old backend.                                         *)
PortFree == \E q \in Port : Bindable(q)

(* A switch overwrote state.config and has not begun the restart that will *)
(* read it: until then nobody can be asked to agree with config.           *)
Owed == \E s \in Switches : pc[s] \in {"set_save", "begin", "rb_save"}

(* A restart that has not come to the old backend yet.                     *)
Stopping == \E w \in Restarter : pc[w] \in {"ensure", "adopt", "stop"}

(* The copy a worker took of state.config names the same context (the      *)
(* setup hook reads state.config itself, and starts where the file was).   *)
CopyCurrent == ~Owed =>
    \A w \in Worker :
        pc[w] \in Critical \cup SetupPC \/ app = "gone" =>
            cfg[w].ctx = config.ctx

(* What a worker has spawned serves the context of its copy, and what is in *)
(* state.child, once a restart is past its stop, that of state.config.      *)
HeldServes == \A w \in Worker :
    Up(held[w]) => proc[held[w]].ctx = cfg[w].ctx
SlotServes == ~Owed /\ ~Stopping /\ Up(child) => proc[child].ctx = config.ctx

ServesInv == CopyCurrent /\ HeldServes /\ SlotServes

(* A free port somewhere is found from any preferred one.                  *)
LEMMA PortFound ==
    ASSUME PortFree, NEW q \in Port
    PROVE  EnsurePort(q) # NoPort
<1>1. NoPort \notin Port
  BY SidecarAssumption DEF NoPort, Port, SidecarAssumption
<1>2. FindAvailable(q) # NoPort
  <2> DEFINE above == {r \in Port : r > q /\ Bindable(r)}
             below == {r \in Port : r < q /\ Bindable(r)}
  <2>1. Bindable(q) \/ above # {} \/ below # {}
    BY DEF PortFree, Port
  <2>2. above # {} => Min(above) \in Port
    BY PortExtremes
  <2>3. below # {} => Max(below) \in Port
    BY PortExtremes
  <2> QED  BY <1>1, <2>1, <2>2, <2>3 DEF FindAvailable
<1> QED  BY <1>1, <1>2 DEF EnsurePort, DefaultPort, NoPort

(* A move to another port leaves the context of a copy as it was.          *)
LEMMA MovedContext ==
    ASSUME TypeOK, NEW w \in Worker, NEW q, cfg' = [cfg EXCEPT ![w].port = q]
    PROVE  \A v \in Worker : cfg'[v].ctx = cfg[v].ctx
BY DEF TypeOK, Config

(* The setup hook spawns for the context that the file named.              *)
LEMMA SetupServes ==
    ASSUME IInv, ServesInv, SetupStep
    PROVE  ServesInv'
<1> USE DEF ServesInv, CopyCurrent, HeldServes, SlotServes, Owed, Stopping,
            At, Goto, Placement, Up
<1>0. /\ \A w \in Restarter : pc[w] = "idle" /\ child = NoBackend
      /\ Monitor \notin Restarter
  BY SidecarAssumption
  DEF SetupStep, SetupPort, SetupSpawn, SetupReady, IInv, SetupPC,
      SidecarAssumption
<1>1. CASE SetupPort
  BY <1>0, <1>1, Roles
  DEF IInv, TypeOK, SetupPort, Config, Critical, SetupPC
<1>2. CASE SetupSpawn
  BY <1>0, <1>2, Roles, SidecarAssumption
  DEF IInv, TypeOK, SetupSpawn, SidecarAssumption, Critical, SetupPC,
      HeldWhileHolding, Holding, Launched, Kept, Process
<1>3. CASE SetupReady
  BY <1>0, <1>3, Roles, SidecarAssumption
  DEF IInv, TypeOK, SetupReady, SidecarAssumption, Critical, SetupPC
<1> QED  BY <1>1, <1>2, <1>3 DEF SetupStep

(* The monitor's backend serves the context of its copy.                   *)
LEMMA MonitorServes ==
    ASSUME IInv, ServesInv, MonitorStep
    PROVE  ServesInv'
<1> USE DEF ServesInv, CopyCurrent, HeldServes, SlotServes, Owed, Stopping,
            At, Goto, Up
<1>0. Monitor \notin Restarter
  BY SidecarAssumption DEF SidecarAssumption
<1>1. CASE MonitorPoll
  BY <1>0, <1>1, Roles DEF IInv, TypeOK, MonitorPoll, Critical, SetupPC
<1>2. CASE MonitorLook
  BY <1>0, <1>2, Roles, SidecarAssumption
  DEF IInv, TypeOK, MonitorLook, Critical, SetupPC, SidecarAssumption
<1>3. CASE MonitorBegin
  <2>1. held[Monitor] = NoBackend /\ pc[Monitor] \notin SetupPC /\ app # "gone"
    BY <1>3, Roles
    DEF IInv, MonitorBegin, HeldWhileHolding, Holding, SetupPC
  <2> QED  BY <1>0, <1>3, <2>1, Roles, SidecarAssumption
           DEF IInv, TypeOK, MonitorBegin, TryBegin, Critical, SetupPC,
               RestartLock, InRestart, Placement, SidecarAssumption
<1>4. CASE MonitorEnsure
  <2>1. \A v \in Worker : cfg'[v].ctx = cfg[v].ctx
    BY <1>4, Roles, MovedContext DEF IInv, MonitorEnsure
  <2>2. config' = config \/ config'.ctx = cfg[Monitor].ctx
    BY <1>4, <2>1, Roles DEF MonitorEnsure
  <2>3. Owed' <=> Owed
    BY <1>0, <1>4, Roles DEF IInv, TypeOK, MonitorEnsure
  <2>4. Stopping' <=> Stopping
    BY <1>0, <1>4, Roles DEF IInv, TypeOK, MonitorEnsure
  <2>5. ~Owed => config'.ctx = config.ctx
    BY <1>4, <2>2, Roles DEF MonitorEnsure, Critical
  <2>6. \A v \in Worker : pc'[v] \in Critical \cup SetupPC
            => pc[v] \in Critical \cup SetupPC
    BY <1>4 DEF IInv, TypeOK, MonitorEnsure, Critical
  <2>7. CopyCurrent' /\ SlotServes'
    BY <1>4, <2>1, <2>3, <2>4, <2>5, <2>6 DEF MonitorEnsure
  <2>8. HeldServes'
    BY <1>4, <2>1 DEF MonitorEnsure
  <2> QED  BY <2>7, <2>8
<1>5. CASE MonitorSave
  BY <1>0, <1>5, Roles DEF IInv, TypeOK, MonitorSave, Critical, SetupPC
<1>6. CASE MonitorSpawn
  BY <1>0, <1>6, Roles, SidecarAssumption
  DEF IInv, TypeOK, MonitorSpawn, SidecarAssumption, Critical, SetupPC,
      HeldWhileHolding, Holding, Launched, Kept, Process
<1>7. CASE MonitorStore
  BY <1>0, <1>7, Roles, SidecarAssumption
  DEF IInv, TypeOK, MonitorStore, SidecarAssumption, Critical, SetupPC
<1>8. CASE MonitorEnd
  BY <1>0, <1>8, Roles DEF IInv, TypeOK, MonitorEnd, Critical, SetupPC
<1> QED  BY <1>1, <1>2, <1>3, <1>4, <1>5, <1>6, <1>7, <1>8 DEF MonitorStep

(* A step within a restart owes nothing new, and brings nobody else into   *)
(* a restart.                                                              *)
LEMMA JumpWithin ==
    ASSUME TypeOK, NEW w \in Restarter, NEW l \in RestartPC \ {"begin"},
           Goto(w, l), pc[w] \in Critical
    PROVE  /\ Owed' <=> Owed
           /\ \A v \in Worker : pc'[v] \in Critical \cup SetupPC
                  => pc[v] \in Critical \cup SetupPC
<1>1. w \in Worker /\ Switches \subseteq Worker
  BY Roles
<1>2. pc[w] \notin {"set_save", "begin", "rb_save"}
  BY DEF Critical
<1>3. l \notin {"set_save", "begin", "rb_save"}
  BY DEF RestartPC
<1>4. \A v \in Worker : pc'[v] = IF v = w THEN l ELSE pc[v]
  BY <1>1 DEF Goto, TypeOK
<1> QED  BY <1>1, <1>2, <1>3, <1>4 DEF Owed

(* A restart that a free port lets through stops the backend of the old    *)
(* context, and starts one for the context it read.                        *)
LEMMA RestartServes ==
    ASSUME IInv, ServesInv, PortFree, "save" \notin FaultKinds,
           "wait" \notin FaultKinds, NEW w \in Restarter, RestartStep(w)
    PROVE  ServesInv'
<1> USE DEF ServesInv, CopyCurrent, HeldServes, SlotServes, Owed, Stopping,
            At, Goto, Up
<1>0. w \in Worker /\ w # Monitor /\ pc[w] \notin SetupPC /\ app # "gone"
  BY Roles, SidecarAssumption
  DEF IInv, Placement, SetupPC, RestartPC, SwitchPC, SidecarAssumption,
      RestartStep, Begin, Ensure, Adopt, Stop, WaitPort, Spawn, Ready, Verify,
      EndRestart
<1>a. ASSUME ~Begin(w)
      PROVE  /\ Owed' <=> Owed
             /\ \A v \in Worker : pc'[v] \in Critical \cup SetupPC
                    => pc[v] \in Critical \cup SetupPC
  <2>1. pc[w] \in Critical
    BY <1>a DEF RestartStep, Ensure, Adopt, Stop, WaitPort, Spawn, Ready, Verify,
                EndRestart, Critical
  <2>2. \E l \in RestartPC \ {"begin"} : Goto(w, l)
    <3> USE DEF RestartPC
    <3>1. CASE Ensure(w)
      BY <3>1 DEF Ensure, MovePort, FailRestart
    <3>2. CASE Adopt(w)
      BY <3>2 DEF Adopt
    <3>3. CASE Stop(w)
      BY <3>3 DEF Stop
    <3>4. CASE WaitPort(w)
      BY <3>4 DEF WaitPort, MovePort, FailRestart
    <3>5. CASE Spawn(w)
      BY <3>5 DEF Spawn, FailRestart
    <3>6. CASE Ready(w)
      BY <3>6 DEF Ready, StopHeld, FailRestart
    <3>7. CASE Verify(w)
      BY <3>7 DEF Verify, StopHeld, StoreHeld, FailRestart
    <3>8. CASE EndRestart(w)
      BY <3>8 DEF EndRestart
    <3> QED  BY <1>a, <3>1, <3>2, <3>3, <3>4, <3>5, <3>6, <3>7, <3>8
             DEF RestartStep
  <2>3. PICK l \in RestartPC \ {"begin"} : Goto(w, l)
    BY <2>2
  <2> QED  BY <2>1, <2>3, JumpWithin DEF IInv
<1>b. pc[w] # "begin" => ~Begin(w)
  BY DEF Begin
<1>1. CASE Begin(w)
  <2>1. held[w] = NoBackend /\ TryBegin(w)
    BY <1>0, <1>1 DEF IInv, Begin, HeldWhileHolding, Holding
  <2>2. \A v \in Worker : pc'[v] \in Critical <=> v = w
    BY <1>0, <1>1, <2>1
    DEF IInv, TypeOK, Begin, TryBegin, RestartLock, InRestart, Critical
  <2>3. Stopping'
    <3>1. pc'[w] = "ensure"
      BY <1>0, <1>1, <2>1 DEF IInv, TypeOK, Begin, TryBegin
    <3> QED  BY <3>1
  <2>4. \A v \in Worker : pc'[v] \notin SetupPC
    <3>1. \A v \in Worker : pc[v] \notin SetupPC
      BY <1>0, <1>1, SidecarAssumption
      DEF IInv, Begin, Placement, SetupPC, RestartPC, SwitchPC, Worker,
          SidecarAssumption
    <3>2. pc'[w] = "ensure"
      BY <1>0, <1>1, <2>1 DEF IInv, TypeOK, Begin, TryBegin
    <3> QED  BY <1>0, <1>1, <3>1, <3>2 DEF IInv, TypeOK, Begin, SetupPC
  <2>5. CopyCurrent'
    BY <1>0, <1>1, <2>1, <2>2, <2>4 DEF IInv, TypeOK, Begin, TryBegin
  <2>6. HeldServes'
    BY <1>0, <1>1, <2>1, SidecarAssumption
    DEF IInv, TypeOK, Begin, TryBegin, SidecarAssumption
  <2> QED  BY <2>3, <2>5, <2>6
<1>2. CASE Ensure(w)
  <2>1. EnsurePort(cfg[w].port) # NoPort
    BY <1>0, PortFound, MovedType DEF IInv, TypeOK
  <2>2. \A v \in Worker : cfg'[v].ctx = cfg[v].ctx
    BY <1>0, <1>2, <2>1, MovedContext DEF IInv, Ensure, MovePort
  <2>3. pc' = [pc EXCEPT ![w] = "stop"] \/ pc' = [pc EXCEPT ![w] = "adopt"]
    BY <1>2, <2>1 DEF Ensure, MovePort, Fault
  <2>4. Stopping' /\ (Owed' <=> Owed)
    <3>1. pc'[w] \in {"stop", "adopt"}
      BY <1>0, <2>3 DEF IInv, TypeOK
    <3> QED  BY <1>a, <1>b, <1>2, <3>1 DEF Ensure
  <2>5. \A v \in Worker : pc'[v] \in Critical \cup SetupPC
            => pc[v] \in Critical \cup SetupPC
    BY <1>a, <1>b, <1>2 DEF Ensure
  <2> QED  BY <1>2, <2>2, <2>4, <2>5 DEF Ensure
<1>3. CASE Adopt(w)
  <2>1. Owed' <=> Owed
    BY <1>a, <1>b, <1>3 DEF Adopt
  <2>2. ~Owed => config'.ctx = config.ctx
    BY <1>0, <1>3 DEF Adopt, Critical
  <2>3. \A v \in Worker : pc'[v] \in Critical \cup SetupPC
            => pc[v] \in Critical \cup SetupPC
    BY <1>a, <1>b, <1>3 DEF Adopt
  <2>4. Stopping' \/ child = NoBackend
    BY <1>0, <1>3 DEF IInv, TypeOK, Adopt, SlotCleared, Cleared
  <2> QED  BY <1>3, <2>1, <2>2, <2>3, <2>4, SidecarAssumption
           DEF Adopt, SidecarAssumption
<1>4. CASE Stop(w)
  <2>1. \A b \in Backend : proc'[b].up => proc'[b] = proc[b]
    BY <1>4 DEF Stop, Stopped, Down
  <2>2. Owed' <=> Owed
    BY <1>a, <1>b, <1>4 DEF Stop
  <2>3. \A v \in Worker : pc'[v] \in Critical \cup SetupPC
            => pc[v] \in Critical \cup SetupPC
    BY <1>a, <1>b, <1>4 DEF Stop
  <2> QED  BY <1>4, <2>1, <2>2, <2>3, SidecarAssumption
           DEF Stop, SidecarAssumption
<1>5. CASE WaitPort(w)
  <2>1. \A v \in Worker : cfg'[v].ctx = cfg[v].ctx
    BY <1>0, <1>5, MovedContext DEF IInv, WaitPort, MovePort, FailRestart
  <2>2. Owed' <=> Owed
    BY <1>a, <1>b, <1>5 DEF WaitPort
  <2>3. \A v \in Worker : pc'[v] \in Critical \cup SetupPC
            => pc[v] \in Critical \cup SetupPC
    BY <1>a, <1>b, <1>5 DEF WaitPort
  <2>4. child = NoBackend
    BY <1>0, <1>5 DEF IInv, WaitPort, SlotCleared, Cleared
  <2> QED  BY <1>5, <2>1, <2>2, <2>3, <2>4, SidecarAssumption
           DEF WaitPort, SidecarAssumption
<1>6. CASE Spawn(w)
  <2>1. Owed' <=> Owed
    BY <1>a, <1>b, <1>6 DEF Spawn
  <2>2. \A v \in Worker : pc'[v] \in Critical \cup SetupPC
            => pc[v] \in Critical \cup SetupPC
    BY <1>a, <1>b, <1>6 DEF Spawn
  <2>3. child = NoBackend
    BY <1>0, <1>6 DEF IInv, Spawn, SlotCleared, Cleared
  <2>4. HeldServes'
    <3>1. CASE UNCHANGED <<proc, held>>
      BY <1>6, <3>1 DEF Spawn
    <3>2. CASE \E b \in Backend : /\ ~Up(b) /\ ~Kept(b)
                                  /\ proc' = Launched(b, cfg[w])
                                  /\ held' = [held EXCEPT ![w] = b]
      BY <1>0, <1>6, <3>2
      DEF IInv, TypeOK, Spawn, Launched, Kept, Process
    <3> QED  BY <1>6, <3>1, <3>2 DEF Spawn
  <2> QED  BY <1>6, <2>1, <2>2, <2>3, <2>4, SidecarAssumption
           DEF Spawn, SidecarAssumption
<1>7. CASE Ready(w)
  <2>1. \A b \in Backend : proc'[b].up => proc'[b] = proc[b]
    BY <1>7 DEF Ready, StopHeld, Stopped, Down
  <2>2. Owed' <=> Owed
    BY <1>a, <1>b, <1>7 DEF Ready
  <2>3. \A v \in Worker : pc'[v] \in Critical \cup SetupPC
            => pc[v] \in Critical \cup SetupPC
    BY <1>a, <1>b, <1>7 DEF Ready
  <2>4. child = NoBackend
    BY <1>0, <1>7 DEF IInv, Ready, SlotCleared, Cleared
  <2>5. \A v \in Worker : held'[v] = held[v] \/ held'[v] = NoBackend
    BY <1>7 DEF IInv, TypeOK, Ready, StopHeld
  <2> QED  BY <1>7, <2>1, <2>2, <2>3, <2>4, <2>5, SidecarAssumption
           DEF Ready, SidecarAssumption
<1>8. CASE Verify(w)
  <2>1. \A b \in Backend : proc'[b].up => proc'[b] = proc[b]
    BY <1>8 DEF Verify, StopHeld, StoreHeld, Stopped, Down
  <2>2. Owed' <=> Owed
    BY <1>a, <1>b, <1>8 DEF Verify
  <2>3. \A v \in Worker : pc'[v] \in Critical \cup SetupPC
            => pc[v] \in Critical \cup SetupPC
    BY <1>a, <1>b, <1>8 DEF Verify
  <2>4. child = NoBackend /\ pc[w] \in Critical
    BY <1>0, <1>8 DEF IInv, Verify, SlotCleared, Cleared, Critical
  <2>5. \A v \in Worker : held'[v] = held[v] \/ held'[v] = NoBackend
    BY <1>8 DEF IInv, TypeOK, Verify, StopHeld, StoreHeld
  <2>6. child' = child \/ child' = held[w]
    BY <1>8 DEF Verify, StoreHeld
  <2> QED  BY <1>0, <1>8, <2>1, <2>2, <2>3, <2>4, <2>5, <2>6, SidecarAssumption
           DEF Verify, SidecarAssumption
<1>9. CASE EndRestart(w)
  BY <1>0, <1>9 DEF IInv, TypeOK, EndRestart, Critical
<1> QED  BY <1>1, <1>2, <1>3, <1>4, <1>5, <1>6, <1>7, <1>8, <1>9 DEF RestartStep

(* A switch owes a restart from the moment it overwrites state.config.     *)
LEMMA SwitchServes ==
    ASSUME IInv, ServesInv, "save" \notin FaultKinds,
           NEW s \in Switches, SwitchStep(s)
    PROVE  ServesInv'
<1> USE DEF ServesInv, CopyCurrent, HeldServes, SlotServes, Owed, Stopping,
            At, Goto, Up
<1>0. s \in Worker /\ s \in Restarter
  BY Roles
<1>1. CASE SetConfig(s)
  BY <1>0, <1>1 DEF IInv, TypeOK, SetConfig
<1>2. CASE SetSave(s)
  BY <1>0, <1>2 DEF IInv, TypeOK, SetSave, Fault
<1>3. CASE SwitchSucceeds(s)
  BY <1>0, <1>3 DEF IInv, TypeOK, SwitchSucceeds, Critical, SetupPC
<1>4. CASE RollBack(s)
  BY <1>0, <1>4 DEF IInv, TypeOK, RollBack
<1>5. CASE RollBackSave(s)
  BY <1>0, <1>5 DEF IInv, TypeOK, RollBackSave
<1>6. CASE SwitchFails(s)
  BY <1>0, <1>6 DEF IInv, TypeOK, SwitchFails, Critical, SetupPC
<1> QED  BY <1>1, <1>2, <1>3, <1>4, <1>5, <1>6 DEF SwitchStep

(* The other actors leave the contexts alone, or empty the slot.           *)
LEMMA OthersServe ==
    ASSUME IInv, ServesInv,
           \/ \E w \in Logins \cup Commands : Manual(w) \/ ManualReturn(w)
           \/ UiStep \/ Lifecycle \/ Environment
    PROVE  ServesInv'
<1> USE DEF ServesInv, CopyCurrent, HeldServes, SlotServes, Owed, Stopping,
            At, Goto, Up
<1>1. ASSUME NEW w \in Logins \cup Commands, Manual(w) \/ ManualReturn(w)
      PROVE  ServesInv'
  <2>1. w \in Worker /\ w \notin Switches
    BY Roles, SidecarAssumption DEF SidecarAssumption
  <2>2. PICK l \in {"begin", "done"} : Goto(w, l)
    BY <1>1 DEF Manual, ManualReturn
  <2>3. \A v \in Worker : pc'[v] = IF v = w THEN l ELSE pc[v]
    BY <2>1, <2>2 DEF IInv, TypeOK
  <2>4. pc[w] \notin {"ensure", "adopt", "stop"}
    BY <1>1 DEF Manual, ManualReturn
  <2>5. (Owed' <=> Owed) /\ (Stopping' <=> Stopping)
    BY <2>1, <2>2, <2>3, <2>4, Roles
  <2>6. \A v \in Worker : pc'[v] \in Critical \cup SetupPC
            => pc[v] \in Critical \cup SetupPC
    BY <2>2, <2>3 DEF Critical, SetupPC
  <2> QED  BY <1>1, <2>5, <2>6 DEF Manual, ManualReturn
<1>2. CASE UiStep
  <2>1. CASE UiPoll \/ UiGiveUp
    BY <2>1 DEF UiPoll, UiGiveUp
  <2>2. CASE \E s \in Switches, c \in Context : UiSelect(s, c)
    BY <2>2, Roles DEF IInv, TypeOK, UiSelect, Critical, SetupPC
  <2> QED  BY <1>2, <2>1, <2>2 DEF UiStep
<1>3. CASE Lifecycle
  <2>1. CASE ExitRequested
    <3>1. \A b \in Backend : proc'[b].up => proc'[b] = proc[b]
      BY <2>1 DEF ExitRequested, Stopped, Down
    <3> QED  BY <2>1, <3>1, SidecarAssumption
             DEF ExitRequested, SidecarAssumption
  <2>2. CASE Exit \/ Killed
    BY <2>2, SidecarAssumption
    DEF Exit, Killed, ProcessEnds, Critical, SetupPC, SidecarAssumption
  <2>3. CASE Launch
    <3>1. child = NoBackend /\ app = "gone" /\ \A v \in Restarter : pc[v] = "idle"
      BY <2>3 DEF IInv, Placement, Launch
    <3> QED  BY <2>3, <3>1, Roles, SidecarAssumption
             DEF IInv, TypeOK, Launch, SidecarAssumption
  <2> QED  BY <1>3, <2>1, <2>2, <2>3 DEF Lifecycle
<1>4. CASE Environment
  <2>1. \A b \in Backend : proc'[b].up => proc'[b] = proc[b]
    BY <1>4 DEF Environment, Crash, ForeignTakes, ForeignLeaves, Down, IInv, TypeOK
  <2> QED  BY <1>4, <2>1 DEF Environment, Crash, ForeignTakes, ForeignLeaves
<1> QED  BY <1>1, <1>2, <1>3, <1>4

(* When nobody switches or restarts, the running backend serves the context *)
(* of state.config, provided that saves succeed, that no wait for the       *)
(* restart flag runs out and that a port is free: for every number of       *)
(* switches, restarts, crashes and lives of the application.                *)
THEOREM BackendServesConfigHolds ==
    ASSUME "save" \notin FaultKinds, "wait" \notin FaultKinds
    PROVE  Spec /\ []PortFree => []BackendServesConfig
<1>1. Init => ServesInv
  <2> SUFFICES ASSUME Init PROVE ServesInv
    OBVIOUS
  <2>1. /\ \A w \in Worker : cfg[w] = config /\ held[w] = NoBackend
        /\ child = NoBackend
    BY DEF Init
  <2> QED  BY <2>1, SidecarAssumption
           DEF ServesInv, CopyCurrent, HeldServes, SlotServes, Up,
               SidecarAssumption
<1>2. IInv /\ ServesInv /\ PortFree /\ [Next]_vars => ServesInv'
  <2>1. ASSUME IInv, ServesInv, UNCHANGED vars PROVE ServesInv'
    BY <2>1 DEF vars, ServesInv, CopyCurrent, HeldServes, SlotServes, Owed,
                Stopping, Up
  <2>2. ASSUME IInv, ServesInv, PortFree, Next PROVE ServesInv'
    BY <2>2, SetupServes, MonitorServes, RestartServes, SwitchServes,
       OthersServe DEF Next
  <2> QED  BY <2>1, <2>2
<1>3. IInv /\ ServesInv => BackendServesConfig
  BY Roles DEF ServesInv, SlotServes, Owed, Stopping, BackendServesConfig, Quiet
<1> QED  BY <1>1, <1>2, <1>3, InitIInv, NextIInv, PTL DEF Spec

(* A port is free as long as no other program takes one and there are more *)
(* ports than backend processes.                                           *)
LEMMA FewBackends ==
    ASSUME IsFiniteSet(Backend), Cardinality(Backend) < NumPorts,
           TypeOK, foreign = {}
    PROVE  PortFree
<1> SUFFICES ASSUME ~PortFree PROVE FALSE
  OBVIOUS
<1> DEFINE owner == [q \in Port |-> CHOOSE b \in Backend : proc[b].port = q]
<1>1. \A q \in Port : owner[q] \in Backend /\ proc[owner[q]].port = q
  BY DEF PortFree, Bindable
<1>2. owner \in [Port -> Backend]
  BY <1>1
<1>3. IsFiniteSet(Port) /\ Cardinality(Port) = NumPorts
  BY FS_Interval, SidecarAssumption DEF Port, SidecarAssumption
<1>4. PICK q, r \in Port : q # r /\ owner[q] = owner[r]
  <2> HIDE DEF owner
  <2> QED  BY <1>2, <1>3, FS_PigeonHole
<1> QED  BY <1>1, <1>4

(* No other program listens on a port.                                     *)
NoForeign == foreign = {}

(* So where no other program takes a port, no backend is ever short of one, *)
(* and the theorem above needs no more than the two assumptions on faults.  *)
THEOREM BackendServesConfigAlone ==
    ASSUME "save" \notin FaultKinds, "wait" \notin FaultKinds,
           "port" \notin FaultKinds,
           IsFiniteSet(Backend), Cardinality(Backend) < NumPorts
    PROVE  Spec => []BackendServesConfig
<1>1. Init => NoForeign
  BY DEF Init, NoForeign
<1>2. NoForeign /\ [Next]_vars => NoForeign'
  <2> SUFFICES ASSUME foreign = {}, [Next]_vars PROVE foreign' = {}
    BY DEF NoForeign
  <2>1. CASE SetupStep
    BY <2>1 DEF SetupStep, SetupPort, SetupSpawn, SetupReady
  <2>2. CASE MonitorStep
    BY <2>2
    DEF MonitorStep, MonitorPoll, MonitorLook, MonitorBegin, MonitorEnsure,
        MonitorSave, MonitorSpawn, MonitorStore, MonitorEnd
  <2>3. CASE \E w \in Restarter : RestartStep(w)
    BY <2>3
    DEF RestartStep, Begin, Ensure, Adopt, Stop, WaitPort, Spawn, Ready,
        Verify, EndRestart
  <2>4. CASE \E s \in Switches : SwitchStep(s)
    BY <2>4
    DEF SwitchStep, SetConfig, SetSave, SwitchSucceeds, RollBack,
        RollBackSave, SwitchFails
  <2>5. CASE \E w \in Logins \cup Commands : Manual(w) \/ ManualReturn(w)
    BY <2>5 DEF Manual, ManualReturn
  <2>6. CASE UiStep
    BY <2>6 DEF UiStep, UiPoll, UiGiveUp, UiSelect
  <2>7. CASE Lifecycle
    BY <2>7
    DEF Lifecycle, ExitRequested, Exit, Killed, ProcessEnds, Launch
  <2>8. CASE Environment
    BY <2>8 DEF Environment, Crash, ForeignTakes, ForeignLeaves, Fault
  <2>9. CASE UNCHANGED vars
    BY <2>9 DEF vars
  <2> QED  BY <2>1, <2>2, <2>3, <2>4, <2>5, <2>6, <2>7, <2>8, <2>9 DEF Next
<1>3. TypeOK /\ NoForeign => PortFree
  BY FewBackends DEF NoForeign
<1>4. Spec => []PortFree
  BY <1>1, <1>2, <1>3, TypeCorrect, PTL DEF Spec
<1>5. Spec /\ []PortFree => []BackendServesConfig
  BY BackendServesConfigHolds
<1> QED  BY <1>4, <1>5, PTL

-----------------------------------------------------------------------------
(* Whoever waits for a switch is answered.                                 *)

(* The task whose switch_status says "in progress" is still on its way to  *)
(* its report; a command on the main thread is the dialog's own, so nobody *)
(* overwrites what the dialog asked for while it waits.                    *)
TaskReports == switch_status.in_progress => \E s \in Switches : TaskRuns(s)
CallIsTheDialogs == \A s \in Switches :
    pc[s] \in {"set", "set_save"} => ui = [st |-> "calling", sw |-> s]
DialogRemembered == ui.st = "waiting" =>
    /\ switch_status.requested = next[ui.sw].ctx
    /\ switch_status.in_progress \/ switch_status.last_success # "none"

AnswerInv == TaskReports /\ CallIsTheDialogs /\ DialogRemembered

(* A jump of a restart keeps its task on the way to its report.            *)
LEMMA TaskRunsOn ==
    ASSUME TypeOK, NEW w \in Restarter, RestartStep(w)
    PROVE  \A s \in Switches : TaskRuns(s) => TaskRuns(s)'
<1> USE DEF RestartPC
<1>1. PICK l \in RestartPC : Goto(w, l)
  <2>1. CASE Begin(w)
    BY <2>1 DEF Begin
  <2>2. CASE Ensure(w)
    BY <2>2 DEF Ensure, MovePort, FailRestart
  <2>3. CASE Adopt(w)
    BY <2>3 DEF Adopt
  <2>4. CASE Stop(w)
    BY <2>4 DEF Stop
  <2>5. CASE WaitPort(w)
    BY <2>5 DEF WaitPort, MovePort, FailRestart
  <2>6. CASE Spawn(w)
    BY <2>6 DEF Spawn, FailRestart
  <2>7. CASE Ready(w)
    BY <2>7 DEF Ready, StopHeld, FailRestart
  <2>8. CASE Verify(w)
    BY <2>8 DEF Verify, StopHeld, StoreHeld, FailRestart
  <2>9. CASE EndRestart(w)
    BY <2>9 DEF EndRestart
  <2> QED  BY <2>1, <2>2, <2>3, <2>4, <2>5, <2>6, <2>7, <2>8, <2>9 DEF RestartStep
<1> HIDE DEF RestartPC
<1>2. \A v \in Worker : pc'[v] = IF v = w THEN l ELSE pc[v]
  BY <1>1, Roles DEF Goto, TypeOK
<1> QED  BY <1>1, <1>2, Roles DEF TaskRuns

(* A restart changes no more of the switches than that.                    *)
LEMMA RestartAnswers ==
    ASSUME IInv, AnswerInv, NEW w \in Restarter, RestartStep(w)
    PROVE  AnswerInv'
<1>1. UNCHANGED <<switch_status, ui, next>>
  BY DEF RestartStep, Begin, Ensure, Adopt, Stop, WaitPort, Spawn, Ready, Verify,
         EndRestart
<1>2. \A s \in Switches : pc'[s] \in {"set", "set_save"}
          => pc[s] \in {"set", "set_save"}
  <2>1. \A v \in Worker : v # w => pc'[v] = pc[v]
    BY Roles DEF IInv, TypeOK, RestartStep, Begin, Ensure, Adopt, Stop, WaitPort,
                 Spawn, Ready, Verify, EndRestart, MovePort, FailRestart,
                 StopHeld, StoreHeld, Goto
  <2>2. pc'[w] \notin {"set", "set_save"}
    BY Roles DEF IInv, TypeOK, RestartStep, Begin, Ensure, Adopt, Stop, WaitPort,
                 Spawn, Ready, Verify, EndRestart, MovePort, FailRestart,
                 StopHeld, StoreHeld, Goto
  <2> QED  BY <2>1, <2>2, Roles
<1> QED  BY <1>1, <1>2, TaskRunsOn
         DEF IInv, AnswerInv, TaskReports, CallIsTheDialogs, DialogRemembered

(* Nor do the setup hook, the monitor and the environment.                 *)
LEMMA AloneAnswers ==
    ASSUME IInv, AnswerInv, SetupStep \/ MonitorStep \/ Environment
    PROVE  AnswerInv'
<1>1. UNCHANGED <<switch_status, ui, next>>
  BY DEF SetupStep, SetupPort, SetupSpawn, SetupReady, MonitorStep, MonitorPoll,
         MonitorLook, MonitorBegin, MonitorEnsure, MonitorSave, MonitorSpawn,
         MonitorStore, MonitorEnd, Environment, Crash, ForeignTakes,
         ForeignLeaves
<1>2. \A s \in Switches : pc'[s] = pc[s]
  <2>1. Monitor \notin Switches
    BY Roles, SidecarAssumption DEF SidecarAssumption
  <2>2. UNCHANGED pc \/ \E l : Goto(Monitor, l)
    <3>1. CASE SetupStep
      BY <3>1 DEF SetupStep, SetupPort, SetupSpawn, SetupReady
    <3>2. CASE MonitorStep
      BY <3>2 DEF MonitorStep, MonitorPoll, MonitorLook, MonitorBegin,
         MonitorEnsure, MonitorSave, MonitorSpawn, MonitorStore, MonitorEnd
    <3>3. CASE Environment
      BY <3>3 DEF Environment, Crash, ForeignTakes, ForeignLeaves
    <3> QED  BY <3>1, <3>2, <3>3
  <2> QED  BY <2>1, <2>2, Roles DEF Goto, IInv, TypeOK
<1> QED  BY <1>1, <1>2
         DEF AnswerInv, TaskReports, CallIsTheDialogs, DialogRemembered, TaskRuns

(* A report ends its task and the progress it stood for.                   *)
LEMMA SwitchAnswers ==
    ASSUME IInv, AnswerInv, NEW s \in Switches, SwitchStep(s)
    PROVE  AnswerInv'
<1> USE DEF AnswerInv, TaskReports, CallIsTheDialogs, DialogRemembered,
            TaskRuns, At
<1>0. s \in Worker /\ Switches \subseteq Worker
  BY Roles
<1>1. PICK l \in PC : Goto(s, l)
  BY DEF SwitchStep, SetConfig, SetSave, SwitchSucceeds, RollBack, RollBackSave,
         SwitchFails, PC, RestartPC, SwitchPC
<1>2. \A v \in Switches : pc'[v] = IF v = s THEN l ELSE pc[v]
  BY <1>0, <1>1 DEF Goto, IInv, TypeOK
<1>3. CASE SetConfig(s)
  <2>1. pc'[s] = "set_save" /\ pc[s] = "set"
    BY <1>0, <1>3 DEF SetConfig, Goto, IInv, TypeOK
  <2> QED  BY <1>2, <1>3, <2>1 DEF SetConfig, RestartPC
<1>4. CASE SetSave(s)
  <2>1. pc[s] = "set_save" /\ pc'[s] \in {"begin", "done"} /\ ui.sw = s
    BY <1>0, <1>4 DEF SetSave, Goto, IInv, TypeOK
  <2>2. \A v \in Switches : v # s => pc[v] \notin {"set", "set_save"}
    BY <2>1
  <2>3. CASE pc'[s] = "begin"
    <3>1. /\ ui'.st = "waiting" /\ ui'.sw = s /\ switch_status'.in_progress
          /\ switch_status'.requested = next[s].ctx /\ next' = next
      BY <1>0, <1>4, <2>1, <2>3 DEF SetSave, Goto, IInv, TypeOK, Dialog
    <3>2. TaskRuns(s)'
      BY <2>3 DEF RestartPC
    <3> QED  BY <1>2, <2>2, <2>3, <3>1, <3>2
  <2>4. CASE pc'[s] = "done"
    <3>1. /\ ui'.st = "failed" /\ UNCHANGED switch_status
      BY <1>0, <1>4, <2>4 DEF SetSave, Goto, IInv, TypeOK, Dialog
    <3> QED  BY <1>2, <2>1, <2>2, <2>4, <3>1 DEF RestartPC
  <2> QED  BY <2>1, <2>3, <2>4
<1>5. CASE SwitchSucceeds(s) \/ SwitchFails(s)
  <2>1. /\ ~switch_status'.in_progress /\ switch_status'.last_success # "none"
        /\ switch_status'.requested = switch_status.requested
        /\ UNCHANGED <<ui, next>> /\ pc'[s] = "done"
    BY <1>0, <1>5
    DEF SwitchSucceeds, SwitchFails, Report, Goto, IInv, TypeOK,
        ClusterSwitchStatus
  <2> QED  BY <1>2, <2>1
<1>6. CASE RollBack(s) \/ RollBackSave(s)
  <2>1. UNCHANGED <<switch_status, ui, next>> /\ pc'[s] \in {"rb_save", "begin"}
    BY <1>0, <1>6 DEF RollBack, RollBackSave, Goto, IInv, TypeOK
  <2> QED  BY <1>2, <2>1 DEF RestartPC
<1> QED  BY <1>3, <1>4, <1>5, <1>6 DEF SwitchStep

(* The other actors, too.                                                  *)
LEMMA OthersAnswer ==
    ASSUME IInv, AnswerInv,
           \/ \E w \in Logins \cup Commands : Manual(w) \/ ManualReturn(w)
           \/ UiStep \/ Lifecycle
    PROVE  AnswerInv'
<1> USE DEF AnswerInv, TaskReports, CallIsTheDialogs, DialogRemembered,
            TaskRuns, At
<1>1. ASSUME NEW w \in Logins \cup Commands, Manual(w) \/ ManualReturn(w)
      PROVE  AnswerInv'
  <2>1. w \notin Switches /\ Switches \subseteq Worker
    BY Roles, SidecarAssumption DEF SidecarAssumption
  <2>2. \A s \in Switches : pc'[s] = pc[s]
    BY <1>1, <2>1 DEF Manual, ManualReturn, Goto, IInv, TypeOK
  <2> QED  BY <1>1, <2>2 DEF Manual, ManualReturn
<1>2. CASE UiPoll \/ UiGiveUp
  BY <1>2 DEF UiPoll, UiGiveUp, IInv, TypeOK, Dialog
<1>3. ASSUME NEW s \in Switches, NEW c \in Context, UiSelect(s, c)
      PROVE  AnswerInv'
  <2>1. /\ ui' = [st |-> "calling", sw |-> s] /\ UNCHANGED switch_status
        /\ pc[s] = "idle" /\ ui.st # "calling"
    BY <1>3 DEF UiSelect
  <2>2. \A v \in Switches : pc'[v] = IF v = s THEN "set" ELSE pc[v]
    BY <1>3, Roles DEF UiSelect, Goto, IInv, TypeOK
  <2>3. \A v \in Switches : pc[v] \notin {"set", "set_save"}
    BY <2>1
  <2> QED  BY <2>1, <2>2, <2>3 DEF RestartPC
<1>4. CASE Exit \/ Killed
  BY <1>4, Roles DEF Exit, Killed, ProcessEnds
<1>5. CASE ExitRequested
  BY <1>5 DEF ExitRequested
<1>6. CASE Launch
  <2>1. Monitor \notin Switches
    BY Roles, SidecarAssumption DEF SidecarAssumption
  <2>2. \A s \in Switches : pc'[s] = pc[s]
    BY <1>6, <2>1, Roles DEF Launch, Goto, IInv, TypeOK
  <2> QED  BY <1>6, <2>2 DEF Launch
<1> QED  BY <1>1, <1>2, <1>3, <1>4, <1>5, <1>6 DEF UiStep, Lifecycle

(* While the dialog waits, the task that reports is running, or the status *)
(* that its next poll reads is final and about the context it asked for:   *)
(* for every number of switches and for every time it gave up on one. With *)
(* the fairness of the tasks and of the poll this is why the wait ends.    *)
THEOREM WaitIsAnsweredHolds == Spec => []WaitIsAnswered
<1>1. Init => AnswerInv
  <2> SUFFICES ASSUME Init PROVE AnswerInv
    OBVIOUS
  <2>1. Monitor \notin Switches /\ Switches \subseteq Worker
    BY Roles, SidecarAssumption DEF SidecarAssumption
  <2> QED  BY <2>1
           DEF Init, AnswerInv, TaskReports, CallIsTheDialogs, DialogRemembered
<1>2. IInv /\ AnswerInv /\ [Next]_vars => AnswerInv'
  <2>1. ASSUME AnswerInv, UNCHANGED vars PROVE AnswerInv'
    BY <2>1 DEF vars, AnswerInv, TaskReports, CallIsTheDialogs,
                DialogRemembered, TaskRuns
  <2>2. ASSUME IInv, AnswerInv, Next PROVE AnswerInv'
    BY <2>2, RestartAnswers, AloneAnswers, SwitchAnswers, OthersAnswer DEF Next
  <2> QED  BY <2>1, <2>2
<1>3. IInv /\ AnswerInv => WaitIsAnswered
  BY DEF IInv, TypeOK, ClusterSwitchStatus, AnswerInv, TaskReports,
         DialogRemembered, WaitIsAnswered
<1> QED  BY <1>1, <1>2, <1>3, InitIInv, NextIInv, PTL DEF Spec

=============================================================================
