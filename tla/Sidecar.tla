------------------------------ MODULE Sidecar ------------------------------
(***************************************************************************)
(* The sidecar supervisor of the desktop shell (frontend/src-tauri): one   *)
(* backend process is kept running for the selected cluster context.       *)
(* Concurrent actors: the setup hook and then the monitor thread (both     *)
(* are the worker Monitor, the first ends where the second begins), one    *)
(* background task per set_sidecar_config call (a member of Switches), the *)
(* restarts that a browser login (Logins, a blocking-pool thread) and the  *)
(* restart_sidecar command (Commands, the main thread) make, the cluster   *)
(* dialog of the UI, and the event loop that runs the exit handler.        *)
(* They meet in restart_in_progress, state.child, state.config and the     *)
(* configuration file.                                                     *)
(***************************************************************************)
EXTENDS Integers, FiniteSets, FiniteSetsExt

CONSTANTS
    Context,      \* the cluster contexts a user can select
    InitContext,  \* the context the configuration file names at first
    Switches,     \* the set_sidecar_config calls of a behaviour
    Logins,       \* the browser logins of a behaviour
    Commands,     \* the restart_sidecar commands of a behaviour
    Monitor,      \* the setup hook, then the monitor thread
    Backend,      \* process identifiers the system may hand out
    NoBackend,    \* an empty slot
    NumPorts,     \* the ports a scan may reach are 1..NumPorts
    FaultKinds,   \* what may go wrong outside the supervisor
    MaxFaults,    \* bound: how often it does
    MaxGiveUps,   \* bound: times the UI stops waiting for a switch
    MaxLaunches   \* bound: starts of the application after the first

Restarter == Switches \cup Logins \cup Commands
Worker    == Restarter \cup {Monitor}
Port      == 1..NumPorts
NoPort    == 0
DefaultPort == 1

ASSUME SidecarAssumption ==
    /\ InitContext \in Context
    /\ Switches \cap Logins = {} /\ Switches \cap Commands = {}
    /\ Logins \cap Commands = {}
    /\ Monitor \notin Restarter
    /\ NoBackend \notin Backend
    /\ NumPorts \in Nat \ {0}
    /\ FaultKinds \subseteq {"save", "spawn", "probe", "crash", "port", "wait",
                       "kill"}
    /\ MaxFaults \in Nat /\ MaxGiveUps \in Nat /\ MaxLaunches \in Nat

VARIABLES
    app,                 \* the life of the desktop process
    shutting_down,       \* BackendState.shutting_down
    child,               \* BackendState.child
    config,              \* BackendState.config
    file,                \* desktop-sidecar.json
    switch_status,       \* BackendState.switch_status
    restart_in_progress, \* BackendState.restart_in_progress
    proc,                \* the backend processes the system runs
    foreign,             \* ports other programs listen on
    pc, cfg, held,       \* per worker: control, its copy of config, its Child
    req, ok,             \* per worker: require_cluster_verification, result
    next, previous,      \* per switch: next_config and previous_config
    ui,                  \* the cluster dialog of Layout.tsx
    faults, giveups, launches

shell  == <<app, shutting_down>>
stored == <<config, file>>
world  == <<proc, foreign>>
locals == <<cfg, held, req, ok, next, previous>>
outer  == <<giveups, launches>>
vars   == <<shell, child, stored, switch_status, restart_in_progress, world,
            pc, locals, ui, outer, faults>>

Config  == [ctx : Context, port : Port]
Process == [up : BOOLEAN, port : Port \cup {NoPort}, ctx : Context]
ClusterSwitchStatus == [in_progress : BOOLEAN,
                        last_success : {"none", "true", "false"},
                        requested : Context \cup {"none"}]
Dialog  == [st : {"idle", "calling", "waiting", "success", "failed"},
            sw : Switches \cup {"none"}]

SetupPC   == {"setup_port", "setup_spawn", "setup_ready"}
MonitorPC == {"poll", "look", "backoff", "m_ensure", "m_save", "m_spawn",
              "m_ready", "m_end", "stopped"}
RestartPC == {"begin", "ensure", "adopt", "stop", "wait_port", "readopt",
              "spawn", "ready", "verify", "end", "ret"}
SwitchPC  == {"set", "set_save", "rb_save"}
PC == {"idle", "done"} \cup SetupPC \cup MonitorPC \cup RestartPC \cup SwitchPC

(* Where a worker is between try_begin_restart and end_restart, and where  *)
(* it has a Child of its own that is not (yet) in state.child.             *)
Critical == {"ensure", "adopt", "stop", "wait_port", "readopt", "spawn",
             "ready", "verify", "end",
             "m_ensure", "m_save", "m_spawn", "m_ready", "m_end"}
Holding  == {"ready", "verify", "m_ready", "setup_ready"}

TypeOK ==
    /\ app \in {"boot", "running", "exiting", "gone"}
    /\ shutting_down \in BOOLEAN
    /\ child \in Backend \cup {NoBackend}
    /\ config \in Config /\ file \in Config
    /\ switch_status \in ClusterSwitchStatus
    /\ restart_in_progress \in BOOLEAN
    /\ proc \in [Backend -> Process]
    /\ foreign \in SUBSET Port
    /\ pc \in [Worker -> PC]
    /\ cfg \in [Worker -> Config]
    /\ held \in [Worker -> Backend \cup {NoBackend}]
    /\ req \in [Worker -> BOOLEAN] /\ ok \in [Worker -> BOOLEAN]
    /\ next \in [Switches -> Config] /\ previous \in [Switches -> Config]
    /\ ui \in Dialog
    /\ faults \in 0..MaxFaults /\ giveups \in 0..MaxGiveUps
    /\ launches \in 0..MaxLaunches

-----------------------------------------------------------------------------
(* Processes and ports.                                                    *)

Down == [up |-> FALSE, port |-> NoPort, ctx |-> InitContext]
Up(b) == b \in Backend /\ proc[b].up
Kept(b) == b = child \/ \E w \in Worker : held[w] = b

(* is_port_bindable: nothing listens on the port.                          *)
Bindable(q) == q \notin foreign /\ \A b \in Backend : proc[b].port # q

(* Mutant of FindAvailable: no upper end of the scan.                      *)
FindAvailableUnbounded(q) ==
    LET above == {r \in 1..(NumPorts + 1) : r > q /\ Bindable(r)}
    IN  IF Bindable(q) THEN q ELSE Min(above)

(* find_available_port: the preferred port, else the nearest free one      *)
(* above it, else the nearest free one below.                              *)
FindAvailable(q) ==
    LET above == {r \in Port : r > q /\ Bindable(r)}
        below == {r \in Port : r < q /\ Bindable(r)}
    IN  IF Bindable(q) THEN q
        ELSE IF above # {} THEN Min(above)
        ELSE IF below # {} THEN Max(below)
        ELSE NoPort

(* ensure_sidecar_port_available: NoPort stands for its error.             *)
EnsurePort(q) ==
    IF q # DefaultPort /\ Bindable(DefaultPort) THEN DefaultPort
    ELSE FindAvailable(q)

(* graceful_stop_child: wait, then kill, then wait: b is down afterwards.  *)
Stopped(b) == [p \in Backend |-> IF p = b THEN Down ELSE proc[p]]

(* command.spawn() with PORT and KUBE_CONTEXT taken from the worker's copy *)
Launched(b, c) == [proc EXCEPT ![b] = [up |-> TRUE, port |-> c.port,
                                       ctx |-> c.ctx]]

Fault(k) == k \in FaultKinds /\ faults < MaxFaults /\ faults' = faults + 1
NoFault  == UNCHANGED faults

Goto(w, l) == pc' = [pc EXCEPT ![w] = l]
At(w, l)   == app # "gone" /\ pc[w] = l

(* Synchronous commands run on the main thread, so they exclude each other *)
(* and the exit handler; the setup hook runs before the event loop.        *)
MainFree ==
    /\ app \in {"running", "exiting"}
    /\ \A s \in Switches : pc[s] # "set_save"
    /\ \A c \in Commands : pc[c] \in {"idle", "done"}

(* Mutant of TryBegin: the flag is set without looking at it.              *)
BeginUnchecked(w) ==
    /\ restart_in_progress' = TRUE
    /\ cfg' = [cfg EXCEPT ![w] = config]

(* try_begin_restart, and the copy of config the winner starts from.       *)
TryBegin(w) ==
    /\ ~restart_in_progress
    /\ restart_in_progress' = TRUE
    /\ cfg' = [cfg EXCEPT ![w] = config]

-----------------------------------------------------------------------------
Init ==
    /\ app = "boot" /\ shutting_down = FALSE /\ child = NoBackend
    /\ file = [ctx |-> InitContext, port |-> DefaultPort]
    /\ config = file
    /\ switch_status = [in_progress |-> FALSE, last_success |-> "none",
                        requested |-> "none"]
    /\ restart_in_progress = FALSE
    /\ proc = [b \in Backend |-> Down]
    /\ foreign = {}
    /\ pc = [w \in Worker |-> IF w = Monitor THEN "setup_port" ELSE "idle"]
    /\ cfg = [w \in Worker |-> file]
    /\ held = [w \in Worker |-> NoBackend]
    /\ req = [w \in Worker |-> FALSE] /\ ok = [w \in Worker |-> FALSE]
    /\ next = [s \in Switches |-> file] /\ previous = [s \in Switches |-> file]
    /\ ui = [st |-> "idle", sw |-> "none"]
    /\ faults = 0 /\ giveups = 0 /\ launches = 0

-----------------------------------------------------------------------------
(* The setup hook: choose a port, save (result ignored), spawn, wait until *)
(* ready or timed out (both keep the child), start the monitor.            *)

SetupPort ==
    /\ At(Monitor, "setup_port")
    /\ LET q == EnsurePort(config.port)
       IN  config' = IF q = NoPort THEN config ELSE [config EXCEPT !.port = q]
    /\ \/ file' = config' /\ NoFault
       \/ file' = file /\ Fault("save")
    /\ Goto(Monitor, "setup_spawn")
    /\ UNCHANGED <<shell, child, switch_status, restart_in_progress, world,
                   locals, ui, outer>>

SetupSpawn ==
    /\ At(Monitor, "setup_spawn")
    /\ \/ /\ Bindable(config.port)
          /\ \E b \in Backend :
               /\ ~Up(b) /\ ~Kept(b)
               /\ proc' = Launched(b, config)
               /\ held' = [held EXCEPT ![Monitor] = b]
          /\ Goto(Monitor, "setup_ready")
          /\ NoFault
          /\ UNCHANGED app
       \/ /\ IF Bindable(config.port) THEN Fault("spawn") ELSE NoFault
          /\ Goto(Monitor, "poll")
          /\ app' = "running"
          /\ UNCHANGED <<proc, held>>
    /\ UNCHANGED <<shutting_down, child, stored, switch_status,
                   restart_in_progress, foreign, cfg, req, ok, next, previous,
                   ui, outer>>

SetupReady ==
    /\ At(Monitor, "setup_ready")
    /\ child' = held[Monitor]
    /\ held' = [held EXCEPT ![Monitor] = NoBackend]
    /\ app' = "running"
    /\ Goto(Monitor, "poll")
    /\ UNCHANGED <<shutting_down, stored, switch_status, restart_in_progress,
                   world, cfg, req, ok, next, previous, ui, outer, faults>>

-----------------------------------------------------------------------------
(* start_backend_monitor: every two seconds look for an exited backend,    *)
(* back off, and start another one without taking a second look.           *)

MonitorPoll ==
    /\ At(Monitor, "poll")
    /\ \/ shutting_down /\ Goto(Monitor, "stopped")
       \/ ~shutting_down /\ ~restart_in_progress /\ Goto(Monitor, "look")
    /\ UNCHANGED <<shell, child, stored, switch_status, restart_in_progress,
                   world, locals, ui, outer, faults>>

(* Mutant of MonitorLook: an empty slot does not count as exited.          *)
MonitorLookIgnoresEmpty ==
    /\ At(Monitor, "look")
    /\ IF child = NoBackend \/ Up(child)
       THEN Goto(Monitor, "poll") /\ UNCHANGED child
       ELSE Goto(Monitor, "backoff") /\ child' = NoBackend
    /\ UNCHANGED <<shell, stored, switch_status, restart_in_progress, world,
                   locals, ui, outer, faults>>

MonitorLook ==
    /\ At(Monitor, "look")
    /\ IF Up(child) THEN Goto(Monitor, "poll") /\ UNCHANGED child
                    ELSE Goto(Monitor, "backoff") /\ child' = NoBackend
    /\ UNCHANGED <<shell, stored, switch_status, restart_in_progress, world,
                   locals, ui, outer, faults>>

MonitorBegin ==
    /\ At(Monitor, "backoff")
    /\ \/ TryBegin(Monitor) /\ Goto(Monitor, "m_ensure")
       \/ /\ restart_in_progress /\ Goto(Monitor, "poll")
          /\ UNCHANGED <<restart_in_progress, cfg>>
    /\ UNCHANGED <<shell, child, stored, switch_status, world, held, req, ok,
                   next, previous, ui, outer, faults>>

MonitorEnsure ==
    /\ At(Monitor, "m_ensure")
    /\ LET q == EnsurePort(cfg[Monitor].port)
       IN  IF q \in {NoPort, cfg[Monitor].port}
           THEN Goto(Monitor, "m_spawn") /\ UNCHANGED <<cfg, config>>
           ELSE /\ cfg' = [cfg EXCEPT ![Monitor].port = q]
                /\ config' = cfg'[Monitor]
                /\ Goto(Monitor, "m_save")
    /\ UNCHANGED <<shell, child, file, switch_status, restart_in_progress,
                   world, held, req, ok, next, previous, ui, outer, faults>>

MonitorSave ==
    /\ At(Monitor, "m_save")
    /\ \/ file' = cfg[Monitor] /\ NoFault
       \/ file' = file /\ Fault("save")
    /\ Goto(Monitor, "m_spawn")
    /\ UNCHANGED <<shell, child, config, switch_status, restart_in_progress,
                   world, locals, ui, outer>>

MonitorSpawn ==
    /\ At(Monitor, "m_spawn")
    /\ \/ /\ Bindable(cfg[Monitor].port)
          /\ \E b \in Backend :
               /\ ~Up(b) /\ ~Kept(b)
               /\ proc' = Launched(b, cfg[Monitor])
               /\ held' = [held EXCEPT ![Monitor] = b]
          /\ Goto(Monitor, "m_ready")
          /\ NoFault
       \/ /\ IF Bindable(cfg[Monitor].port) THEN Fault("spawn") ELSE NoFault
          /\ Goto(Monitor, "m_end")
          /\ UNCHANGED <<proc, held>>
    /\ UNCHANGED <<shell, child, stored, switch_status, restart_in_progress,
                   foreign, cfg, req, ok, next, previous, ui, outer>>

MonitorStore ==
    /\ At(Monitor, "m_ready")
    /\ child' = held[Monitor]
    /\ held' = [held EXCEPT ![Monitor] = NoBackend]
    /\ Goto(Monitor, "m_end")
    /\ UNCHANGED <<shell, stored, switch_status, restart_in_progress, world,
                   cfg, req, ok, next, previous, ui, outer, faults>>

MonitorEnd ==
    /\ At(Monitor, "m_end")
    /\ restart_in_progress' = FALSE
    /\ Goto(Monitor, "poll")
    /\ UNCHANGED <<shell, child, stored, switch_status, world, locals, ui,
                   outer, faults>>

-----------------------------------------------------------------------------
(* restart_backend_sidecar_with_options, run by worker w.                  *)

(* Mutant of FailRestart: the error returns past end_restart.              *)
FailRestartKeepsFlag(w) ==
    /\ ok' = [ok EXCEPT ![w] = FALSE]
    /\ Goto(w, "ret")

(* The closure returns an error: the flag is still to be released.         *)
FailRestart(w) ==
    /\ ok' = [ok EXCEPT ![w] = FALSE]
    /\ Goto(w, "end")

Begin(w) ==
    /\ At(w, "begin")
    /\ \/ TryBegin(w) /\ Goto(w, "ensure") /\ UNCHANGED ok
       \/ /\ restart_in_progress        \* for the twenty seconds it waits
          /\ "wait" \in FaultKinds
          /\ ok' = [ok EXCEPT ![w] = FALSE]
          /\ Goto(w, "ret")
          /\ UNCHANGED <<restart_in_progress, cfg>>
    /\ UNCHANGED <<shell, child, stored, switch_status, world, held, req,
                   next, previous, ui, outer, faults>>

(* Move to an available port and save; the move reaches state.config in    *)
(* the step after. "through" is where an unmoved port leads, "then" where  *)
(* a moved one does.                                                       *)
MovePort(w, through, then) ==
    LET q == EnsurePort(cfg[w].port)
    IN  \/ q = NoPort /\ FailRestart(w) /\ NoFault /\ UNCHANGED <<cfg, file>>
        \/ /\ q = cfg[w].port /\ Goto(w, through)
           /\ NoFault /\ UNCHANGED <<cfg, file, ok>>
        \/ /\ q \notin {NoPort, cfg[w].port}
           /\ cfg' = [cfg EXCEPT ![w].port = q]
           /\ \/ /\ file' = cfg'[w] /\ Goto(w, then)
                 /\ NoFault /\ UNCHANGED ok
              \/ Fault("save") /\ FailRestart(w) /\ UNCHANGED file

Ensure(w) ==
    /\ At(w, "ensure")
    /\ MovePort(w, "stop", "adopt")
    /\ UNCHANGED <<shell, child, config, switch_status, restart_in_progress,
                   world, held, req, next, previous, ui, outer>>

Adopt(w) ==
    /\ At(w, "adopt") \/ At(w, "readopt")
    /\ config' = cfg[w]
    /\ Goto(w, IF pc[w] = "adopt" THEN "stop" ELSE "spawn")
    /\ UNCHANGED <<shell, child, file, switch_status, restart_in_progress,
                   world, locals, ui, outer, faults>>

Stop(w) ==
    /\ At(w, "stop")
    /\ child' = NoBackend
    /\ proc' = Stopped(child)
    /\ Goto(w, "wait_port")
    /\ UNCHANGED <<shell, stored, switch_status, restart_in_progress, foreign,
                   locals, ui, outer, faults>>

WaitPort(w) ==
    /\ At(w, "wait_port")
    /\ IF Bindable(cfg[w].port)
       THEN Goto(w, "spawn") /\ NoFault /\ UNCHANGED <<cfg, file, ok>>
       ELSE MovePort(w, "spawn", "readopt")
    /\ UNCHANGED <<shell, child, config, switch_status, restart_in_progress,
                   world, held, req, next, previous, ui, outer>>

Spawn(w) ==
    /\ At(w, "spawn")
    /\ \/ /\ Bindable(cfg[w].port)
          /\ \E b \in Backend :
               /\ ~Up(b) /\ ~Kept(b)
               /\ proc' = Launched(b, cfg[w])
               /\ held' = [held EXCEPT ![w] = b]
          /\ Goto(w, "ready")
          /\ NoFault
          /\ UNCHANGED ok
       \/ /\ IF Bindable(cfg[w].port) THEN Fault("spawn") ELSE NoFault
          /\ FailRestart(w)
          /\ UNCHANGED <<proc, held>>
    /\ UNCHANGED <<shell, child, stored, switch_status, restart_in_progress,
                   foreign, cfg, req, next, previous, ui, outer>>

(* A probe can fail while the backend is up (slow, or the cluster does not *)
(* answer), and cannot succeed when it is down: the probe addresses the    *)
(* port, where no other backend listens while this one runs, and a program *)
(* that takes the port of a crashed one does not answer /api/health.       *)
Probe(w) == Up(held[w]) /\ NoFault
ProbeTimeout(w) == IF Up(held[w]) THEN Fault("probe") ELSE NoFault

(* Mutant of StopHeld: dropping a Child does not stop the process.         *)
StopHeldOnlyDrops(w) ==
    /\ UNCHANGED proc
    /\ held' = [held EXCEPT ![w] = NoBackend]
    /\ FailRestart(w)

StopHeld(w) ==
    /\ proc' = Stopped(held[w])
    /\ held' = [held EXCEPT ![w] = NoBackend]
    /\ FailRestart(w)

Ready(w) ==
    /\ At(w, "ready")
    /\ \/ Probe(w) /\ Goto(w, "verify") /\ UNCHANGED <<proc, held, ok>>
       \/ ProbeTimeout(w) /\ StopHeld(w)
    /\ UNCHANGED <<shell, child, stored, switch_status, restart_in_progress,
                   foreign, cfg, req, next, previous, ui, outer>>

StoreHeld(w) ==
    /\ child' = held[w]
    /\ held' = [held EXCEPT ![w] = NoBackend]
    /\ ok' = [ok EXCEPT ![w] = TRUE]
    /\ Goto(w, "end")
    /\ UNCHANGED proc

Verify(w) ==
    /\ At(w, "verify")
    /\ \/ Probe(w) /\ StoreHeld(w)
       \/ ProbeTimeout(w) /\ req[w] /\ StopHeld(w) /\ UNCHANGED child
       \/ ProbeTimeout(w) /\ ~req[w] /\ StoreHeld(w)
    /\ UNCHANGED <<shell, stored, switch_status, restart_in_progress, foreign,
                   cfg, req, next, previous, ui, outer>>

EndRestart(w) ==
    /\ At(w, "end")
    /\ restart_in_progress' = FALSE
    /\ Goto(w, "ret")
    /\ UNCHANGED <<shell, child, stored, switch_status, world, locals, ui,
                   outer, faults>>

-----------------------------------------------------------------------------
(* A restart made for its own sake: a browser login that succeeded, or the *)
(* restart_sidecar command.                                                *)

Manual(w) ==
    /\ At(w, "idle") /\ app = "running"
    /\ w \in Commands => MainFree
    /\ req' = [req EXCEPT ![w] = FALSE]
    /\ Goto(w, "begin")
    /\ UNCHANGED <<shell, child, stored, switch_status, restart_in_progress,
                   world, cfg, held, ok, next, previous, ui, outer, faults>>

ManualReturn(w) ==
    /\ At(w, "ret")
    /\ Goto(w, "done")
    /\ UNCHANGED <<shell, child, stored, switch_status, restart_in_progress,
                   world, locals, ui, outer, faults>>

-----------------------------------------------------------------------------
(* set_sidecar_config: the command (main thread), then its background task.*)

SetConfig(s) ==
    /\ At(s, "set") /\ MainFree
    /\ previous' = [previous EXCEPT ![s] = config]
    /\ config' = next[s]
    /\ Goto(s, "set_save")
    /\ UNCHANGED <<shell, child, file, switch_status, restart_in_progress,
                   world, cfg, held, req, ok, next, ui, outer, faults>>

SetSave(s) ==
    /\ At(s, "set_save")
    /\ \/ /\ file' = next[s]
          /\ switch_status' = [in_progress |-> TRUE, last_success |-> "none",
                               requested |-> next[s].ctx]
          /\ req' = [req EXCEPT ![s] = TRUE]
          /\ Goto(s, "begin")
          /\ ui' = [ui EXCEPT !.st = "waiting"]
          /\ NoFault
       \/ /\ Fault("save")                       \* the command returns the error
          /\ Goto(s, "done")
          /\ ui' = [ui EXCEPT !.st = "failed"]
          /\ UNCHANGED <<file, switch_status, req>>
    /\ UNCHANGED <<shell, child, config, restart_in_progress, world, cfg,
                   held, ok, next, previous, outer>>

(* Mutant of Report: the status keeps saying that a switch is under way.   *)
ReportInProgress(result) ==
    switch_status' = [switch_status EXCEPT !.last_success = result]

Report(result) ==
    switch_status' = [switch_status EXCEPT !.in_progress = FALSE,
                                           !.last_success = result]

SwitchSucceeds(s) ==
    /\ At(s, "ret") /\ req[s] /\ ok[s]
    /\ Report("true")
    /\ Goto(s, "done")
    /\ UNCHANGED <<shell, child, stored, restart_in_progress, world, locals,
                   ui, outer, faults>>

RollBack(s) ==
    /\ At(s, "ret") /\ req[s] /\ ~ok[s]
    /\ config' = previous[s]
    /\ Goto(s, "rb_save")
    /\ UNCHANGED <<shell, child, file, switch_status, restart_in_progress,
                   world, locals, ui, outer, faults>>

(* Mutant of RollBackSave: the previous backend is taken to still run.     *)
RollBackSaveOnly(s) ==
    /\ At(s, "rb_save")
    /\ \/ file' = previous[s] /\ NoFault
       \/ file' = file /\ Fault("save")
    /\ req' = [req EXCEPT ![s] = FALSE]
    /\ Goto(s, "ret")
    /\ UNCHANGED <<shell, child, config, switch_status, restart_in_progress,
                   world, cfg, held, ok, next, previous, ui, outer>>

RollBackSave(s) ==
    /\ At(s, "rb_save")
    /\ \/ file' = previous[s] /\ NoFault
       \/ file' = file /\ Fault("save")
    /\ req' = [req EXCEPT ![s] = FALSE]
    /\ Goto(s, "begin")
    /\ UNCHANGED <<shell, child, config, switch_status, restart_in_progress,
                   world, cfg, held, ok, next, previous, ui, outer>>

SwitchFails(s) ==
    /\ At(s, "ret") /\ ~req[s]
    /\ Report("false")
    /\ Goto(s, "done")
    /\ UNCHANGED <<shell, child, stored, restart_in_progress, world, locals,
                   ui, outer, faults>>

-----------------------------------------------------------------------------
(* The cluster dialog: applyClusterSelection and                           *)
(* waitDesktopClusterSwitchResult; kubeconfigSwitching admits one at a     *)
(* time, until the wait gives up after 95 seconds.                         *)

UiSelect(s, c) ==
    /\ app = "running" /\ pc[s] = "idle"
    /\ ui.st \in {"idle", "success", "failed"}
    /\ c # config.ctx
    /\ next' = [next EXCEPT ![s] = [ctx |-> c, port |-> config.port]]
    /\ ui' = [st |-> "calling", sw |-> s]
    /\ Goto(s, "set")
    /\ UNCHANGED <<shell, child, stored, switch_status, restart_in_progress,
                   world, cfg, held, req, ok, previous, outer, faults>>

(* A poll that ends the wait; another outcome is polled again.             *)
UiPoll ==
    /\ app = "running" /\ ui.st = "waiting"
    /\ ~switch_status.in_progress
    /\ \/ /\ switch_status.last_success = "true"
          /\ switch_status.requested = next[ui.sw].ctx
          /\ ui' = [ui EXCEPT !.st = "success"]
       \/ /\ switch_status.last_success = "false"
          /\ ui' = [ui EXCEPT !.st = "failed"]
    /\ UNCHANGED <<shell, child, stored, switch_status, restart_in_progress,
                   world, pc, locals, outer, faults>>

UiGiveUp ==
    /\ app = "running" /\ ui.st = "waiting" /\ giveups < MaxGiveUps
    /\ giveups' = giveups + 1
    /\ ui' = [ui EXCEPT !.st = "failed"]
    /\ UNCHANGED <<shell, child, stored, switch_status, restart_in_progress,
                   world, pc, locals, launches, faults>>

-----------------------------------------------------------------------------
(* The event loop (RunEvent::ExitRequested, then RunEvent::Exit), the end  *)
(* of the process by other means, and the next start of the application.   *)

ExitRequested ==
    /\ MainFree /\ app = "running"
    /\ app' = "exiting" /\ shutting_down' = TRUE
    /\ child' = NoBackend /\ proc' = Stopped(child)
    /\ UNCHANGED <<stored, switch_status, restart_in_progress, foreign, pc,
                   locals, ui, outer, faults>>

(* The memory of the process is gone, the processes it spawned are not;    *)
(* the next start reads the configuration file (load_sidecar_config).      *)
ProcessEnds ==
    /\ app' = "gone" /\ shutting_down' = TRUE /\ child' = NoBackend
    /\ restart_in_progress' = FALSE
    /\ pc' = [w \in Worker |-> "idle"]
    /\ held' = [w \in Worker |-> NoBackend]
    /\ switch_status' = [in_progress |-> FALSE, last_success |-> "none",
                         requested |-> "none"]
    /\ ui' = [st |-> "idle", sw |-> "none"]
    /\ cfg' = [w \in Worker |-> file]
    /\ req' = [w \in Worker |-> FALSE] /\ ok' = [w \in Worker |-> FALSE]
    /\ next' = [s \in Switches |-> file] /\ previous' = [s \in Switches |-> file]
    /\ config' = file
    /\ UNCHANGED <<file, foreign, outer>>

Exit   == MainFree /\ app = "exiting" /\ proc' = Stopped(child) /\ NoFault
          /\ ProcessEnds
Killed == app # "gone" /\ Fault("kill") /\ UNCHANGED proc /\ ProcessEnds

Launch ==
    /\ app = "gone" /\ launches < MaxLaunches
    /\ launches' = launches + 1
    /\ app' = "boot" /\ shutting_down' = FALSE
    /\ Goto(Monitor, "setup_port")
    /\ UNCHANGED <<child, stored, switch_status, restart_in_progress, world,
                   locals, ui, giveups, faults>>

-----------------------------------------------------------------------------
(* Outside the supervisor: a backend exits, other programs use ports.      *)

Crash(b) ==
    /\ Up(b) /\ Fault("crash")
    /\ proc' = [proc EXCEPT ![b] = Down]
    /\ UNCHANGED <<shell, child, stored, switch_status, restart_in_progress,
                   foreign, pc, locals, ui, outer>>

ForeignTakes(q) ==
    /\ Bindable(q) /\ Fault("port")
    /\ foreign' = foreign \cup {q}
    /\ UNCHANGED <<shell, child, stored, switch_status, restart_in_progress,
                   proc, pc, locals, ui, outer>>

ForeignLeaves(q) ==
    /\ q \in foreign
    /\ foreign' = foreign \ {q}
    /\ UNCHANGED <<shell, child, stored, switch_status, restart_in_progress,
                   proc, pc, locals, ui, outer, faults>>

-----------------------------------------------------------------------------
SetupStep == SetupPort \/ SetupSpawn \/ SetupReady
MonitorStep ==
    \/ MonitorPoll \/ MonitorLook \/ MonitorBegin \/ MonitorEnsure
    \/ MonitorSave \/ MonitorSpawn \/ MonitorStore \/ MonitorEnd
RestartStep(w) ==
    \/ Begin(w) \/ Ensure(w) \/ Adopt(w) \/ Stop(w) \/ WaitPort(w)
    \/ Spawn(w) \/ Ready(w) \/ Verify(w) \/ EndRestart(w)
SwitchStep(s) ==
    \/ SetConfig(s) \/ SetSave(s) \/ SwitchSucceeds(s) \/ RollBack(s)
    \/ RollBackSave(s) \/ SwitchFails(s)
UiStep == UiPoll \/ UiGiveUp \/ \E s \in Switches, c \in Context : UiSelect(s, c)
Lifecycle == ExitRequested \/ Exit \/ Killed \/ Launch
Environment ==
    \/ \E b \in Backend : Crash(b)
    \/ \E q \in Port : ForeignTakes(q) \/ ForeignLeaves(q)

Next ==
    \/ SetupStep \/ MonitorStep
    \/ \E w \in Restarter : RestartStep(w)
    \/ \E w \in Logins \cup Commands : Manual(w) \/ ManualReturn(w)
    \/ \E s \in Switches : SwitchStep(s)
    \/ UiStep \/ Lifecycle \/ Environment

Spec == Init /\ [][Next]_vars

(* Every wait of the supervisor has a timeout, so its threads always come  *)
(* to their next step; the UI polls as long as it waits. Nothing is        *)
(* assumed of the user, of the environment or of the exit of the app.      *)
Fairness ==
    /\ WF_vars(SetupStep \/ MonitorStep)
    /\ \A s \in Switches : WF_vars(SwitchStep(s) \/ RestartStep(s))
    /\ \A w \in Logins \cup Commands : WF_vars(RestartStep(w) \/ ManualReturn(w))
    /\ WF_vars(UiPoll)

FairSpec == Spec /\ Fairness

-----------------------------------------------------------------------------
(* Properties.                                                             *)

(* restart_in_progress is a lock: it is set exactly while one worker is    *)
(* between try_begin_restart and end_restart, whatever error path that     *)
(* worker takes and however long the others wait (main.rs:793-822).        *)
InRestart == {w \in Worker : pc[w] \in Critical}
RestartLock ==
    /\ restart_in_progress <=> InRestart # {}
    /\ \A v, w \in InRestart : v = w

(* A restart stores its new backend into an empty slot (main.rs:1361):     *)
(* what it finds in state.child it has stopped, and nobody fills the slot  *)
(* while it waits for its own backend to answer.                           *)
RestartFillsEmptySlot ==
    \A w \in Restarter : held[w] # NoBackend => child = NoBackend

(* No path through a restart forgets a running backend (main.rs:1265-1492, *)
(* 3155-3170): a backend that state.child or a worker holds is handed over *)
(* or stopped. Only three steps let go of one that still runs: the monitor *)
(* storing over a child it did not look at again after its back-off, the   *)
(* exit of the application while a worker holds a backend of its own, and  *)
(* the application being killed.                                           *)
BackendsAccountedFor ==
    [][\A b \in Backend :
          Up(b) /\ Kept(b) /\ proc'[b].up =>
             \/ Kept(b)'
             \/ pc[Monitor] = "m_ready" /\ b = child
             \/ app = "exiting" /\ \E w \in Worker : held[w] = b
             \/ faults' > faults /\ app' = "gone"]_vars

(* When nobody is switching or restarting, a running backend serves the    *)
(* context that state.config names, whichever of a switch, its rollback, a *)
(* login, the monitor or the start of the application launched it and in   *)
(* whatever order they overwrote state.config. It takes that no wait for   *)
(* the restart flag runs out and that every save succeeds.                 *)
Quiet == /\ app = "running" /\ ~restart_in_progress
         /\ \A w \in Restarter : pc[w] \in {"idle", "done"}
BackendServesConfig == Quiet /\ Up(child) => proc[child].ctx = config.ctx

(* The dialog's wait for a switch ends (tauriDesktop.ts:199-240): each     *)
(* path of the task writes a final switch_status, also when the wait for   *)
(* the restart flag runs out for the switch or for its rollback, a backend *)
(* crashes or the monitor restarts it meanwhile.                           *)
UiWaitEnds ==
    ui.st = "waiting" ~> ui.st # "waiting" \/ app # "running"

(* The background task of a switch, until it has reported.                 *)
TaskRuns(s) == pc[s] \in RestartPC \cup {"rb_save"}

(* While the dialog waits (tauriDesktop.ts:199-240), an answer is on its   *)
(* way or there: the task that reports is still running, or the status     *)
(* that the next poll reads is final and names the context the dialog      *)
(* asked for, also when a task it gave up on wrote it.                     *)
WaitIsAnswered ==
    ui.st = "waiting" =>
        IF switch_status.in_progress THEN \E s \in Switches : TaskRuns(s)
        ELSE \/ switch_status.last_success = "false"
             \/ /\ switch_status.last_success = "true"
                /\ switch_status.requested = next[ui.sw].ctx

(* README.md:207, "auto-restart on crash": without a running backend the   *)
(* application gets one again (main.rs:1375-1492).                         *)
MonitorRecovers ==
    app = "running" /\ ~Up(child) ~> Up(child) \/ app # "running"

(* README.md:207, "cluster verification before switch": when the dialog    *)
(* reports a switch as successful, its task has verified a backend that    *)
(* serves the context the user chose.                                      *)
SwitchIsVerified ==
    [][ui.st = "waiting" /\ ui'.st = "success" =>
          /\ pc[ui.sw] = "done"
          /\ cfg[ui.sw].ctx = next[ui.sw].ctx]_vars

(* main.rs:849-850, "Prefer the default desktop port whenever it is free   *)
(* so UI/localStorage do not drift to a fallback port across restarts":    *)
(* where no other program takes a port, the only backend of a quiet        *)
(* application listens on the default port.                                *)
PortDoesNotDrift ==
    Quiet /\ foreign = {} /\ {b \in Backend : Up(b)} = {child} =>
        config.port = DefaultPort
=============================================================================
