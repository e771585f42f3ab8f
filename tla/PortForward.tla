---------------------------- MODULE PortForward ----------------------------
(***************************************************************************)
(* The port-forwards of the backend (backend/src/handlers/portforward.rs): *)
(* HTTP handlers that create, stop, delete, restart and list forwards, and *)
(* the task that restores the saved ones after a start.  All of them run   *)
(* concurrently and meet in two maps behind two locks, forwards and        *)
(* processes, in the counter PORT_FORWARD_ID and in one JSON file.  Each   *)
(* forward is carried by a kubectl process, which lives on when the        *)
(* backend is gone.  A step ends where a handler awaits.                   *)
(***************************************************************************)
EXTENDS Integers, FiniteSets, FiniteSetsExt

CONSTANTS
    Creates, Stops, Deletes, Restarts, Lists, \* requests that may be open
    Restorer,   \* the background task of main that restores
    Child,      \* process identifiers the system may hand out
    NoChild,    \* no process
    Port,       \* local ports
    NoPort,     \* no port
    Key,        \* cluster keys
    MaxId,      \* bound: the largest identifier
    FaultKinds, \* what may go wrong outside the handlers
    MaxFaults,  \* bound: how often it does
    MaxBoots    \* bound: starts of the backend

Request == Creates \cup Stops \cup Deletes \cup Restarts \cup Lists
Starter == Creates \cup Restarts \cup {Restorer}  \* those who spawn a kubectl
Worker  == Request \cup {Restorer}
Id      == 1..MaxId

ASSUME PortForwardAssumption ==
    /\ Creates \cap (Stops \cup Deletes \cup Restarts \cup Lists) = {}
    /\ Stops \cap (Deletes \cup Restarts \cup Lists) = {}
    /\ Deletes \cap (Restarts \cup Lists) = {}
    /\ Restarts \cap Lists = {}
    /\ Restorer \notin Creates \cup Stops \cup Deletes \cup Restarts \cup Lists
    /\ NoChild \notin Child /\ NoPort \notin Port /\ Key # {}
    /\ MaxId \in Nat \ {0} /\ MaxFaults \in Nat /\ MaxBoots \in Nat
    /\ FaultKinds \subseteq {"spawn", "wait", "save", "read", "exit", "cancel"}

VARIABLES
    up,        \* the backend process runs
    key,       \* PortForwardState.cluster_key
    forwards,  \* PortForwardState.forwards
    processes, \* PortForwardState.processes
    nextId,    \* PORT_FORWARD_ID
    file,      \* port-forwards.json
    kubectl,   \* the kubectl processes of the system
    pc, id, port, held, \* per worker: control, the forward, its port, its Child
    ids,       \* per worker: the forwards it is about to pause
    snap,      \* per worker: the payload it is about to write
    todo, maxId, \* of the Restorer: items not yet restored, max_id
    clobbered, \* history: running entries that lost their kubectl for good
    drift,     \* history: the file was not brought up to date
    early,     \* history: a create took a number while the restore ran
    faults, boots

maps    == <<forwards, processes>>
locals  == <<id, port, held, ids, snap>>
restore == <<todo, maxId>>
history == <<clobbered, drift, early>>
vars    == <<up, key, maps, nextId, file, kubectl, pc, locals, restore,
             history, faults, boots>>

Forward == [status : {"none", "running", "paused"}, port : Port \cup {NoPort}]
Process == [st : {"free", "starting", "listening", "exited"},
            port : Port \cup {NoPort}]
Item    == [id : Id, port : Port]
Payload == [next : 1..(MaxId + 1), items : SUBSET Item]
File    == [st : {"none", "empty", "valid", "torn"}, key : Key, load : Payload]
PC      == {"idle", "read", "next", "kill", "spawn", "check", "register",
            "attach", "pause", "forget", "snap", "trunc", "write"}

TypeOK ==
    /\ up \in BOOLEAN /\ key \in Key
    /\ forwards \in [Id -> Forward]
    /\ processes \in [Id -> Child \cup {NoChild}]
    /\ nextId \in 1..(MaxId + 1)
    /\ file \in File
    /\ kubectl \in [Child -> Process]
    /\ pc \in [Worker -> PC]
    /\ id \in [Worker -> Id] /\ port \in [Worker -> Port \cup {NoPort}]
    /\ held \in [Worker -> Child \cup {NoChild}]
    /\ ids \in [Worker -> SUBSET Id]
    /\ snap \in [Worker -> Payload]
    /\ todo \in SUBSET Item /\ maxId \in 1..(MaxId + 1)
    /\ clobbered \in SUBSET Id /\ drift \in BOOLEAN /\ early \in BOOLEAN
    /\ faults \in 0..MaxFaults /\ boots \in 0..MaxBoots

-----------------------------------------------------------------------------
Free    == [st |-> "free", port |-> NoPort]
Absent  == [status |-> "none", port |-> NoPort]
Nothing == [next |-> 1, items |-> {}]

Alive(c)    == c \in Child /\ kubectl[c].st \in {"starting", "listening"}
Exited(c)   == c \in Child /\ kubectl[c].st = "exited"
Kept(c)     == \/ \E i \in Id : processes[i] = c
               \/ \E w \in Worker : held[w] = c
Bindable(q) == \A c \in Child : kubectl[c] # [st |-> "listening", port |-> q]
Running(i)  == forwards[i].status = "running"

(* What save_port_forward_state reads: the running entries and the counter *)
Saved == [next  |-> nextId,
          items |-> {[id |-> i, port |-> forwards[i].port]
                        : i \in {j \in Id : Running(j)}}]

(* Child::kill waits for the process; a Child that is dropped runs on.     *)
Killed(c) == [x \in Child |-> IF x = c THEN Free ELSE kubectl[x]]

Fault(k) == k \in FaultKinds /\ faults < MaxFaults /\ faults' = faults + 1
At(w, l) == up /\ pc[w] = l
Goto(w, l) == pc' = [pc EXCEPT ![w] = l]
Clear(w)   == /\ id' = [id EXCEPT ![w] = 1]
              /\ port' = [port EXCEPT ![w] = NoPort]

Reset(v) == [w \in Worker |-> v]

Init ==
    /\ up = FALSE /\ key \in Key
    /\ forwards = [i \in Id |-> Absent] /\ processes = [i \in Id |-> NoChild]
    /\ nextId = 1
    /\ file = [st |-> "none", key |-> key, load |-> Nothing]
    /\ kubectl = [c \in Child |-> Free]
    /\ pc = Reset("idle") /\ id = Reset(1) /\ port = Reset(NoPort)
    /\ held = Reset(NoChild) /\ ids = Reset({}) /\ snap = Reset(Nothing)
    /\ todo = {} /\ maxId = 1
    /\ clobbered = {} /\ drift = FALSE /\ early = FALSE
    /\ faults = 0 /\ boots = 0

-----------------------------------------------------------------------------
(* spawn_validated_port_forward, shared by create, restart and restore.    *)

(* Where a worker goes when its kubectl could not be started or died:      *)
(* a request is answered, the restore goes on with its next item.          *)
AfterFailure(w) == IF w = Restorer THEN "next" ELSE "idle"

(* The port is looked at, the look is over, then kubectl is started.       *)
SpawnChild(w, q) ==
    /\ Bindable(q)
    /\ \E c \in Child :
        /\ ~Alive(c) /\ ~Kept(c)
        /\ kubectl' = [kubectl EXCEPT ![c] = [st |-> "starting", port |-> q]]
        /\ held' = [held EXCEPT ![w] = c]

Spawn(w) ==
    /\ At(w, "spawn")
    /\ SpawnChild(w, port[w])
    /\ Goto(w, "check")
    /\ UNCHANGED <<up, key, maps, nextId, file, id, port, ids, snap, restore,
                   history, faults, boots>>

(* The port is taken, or the process cannot be started.                    *)
SpawnFails(w) ==
    /\ At(w, "spawn")
    /\ \/ ~Bindable(port[w]) /\ UNCHANGED faults
       \/ Fault("spawn")
    /\ Goto(w, AfterFailure(w)) /\ Clear(w)
    /\ UNCHANGED <<up, key, maps, nextId, file, kubectl, held, ids, snap,
                   restore, history, boots>>

(* Somebody listens on the port: taken to be the child.  A child that has  *)
(* exited since it was last looked at passes as well.                      *)
Connects(w) ==
    /\ At(w, "check")
    /\ ~Bindable(port[w])
    /\ Goto(w, "register")
    /\ UNCHANGED <<up, key, maps, nextId, file, kubectl, locals, restore,
                   history, faults, boots>>

(* kubectl has exited, or nobody listens in time and kubectl is killed.    *)
CheckFails(w) ==
    /\ At(w, "check")
    /\ Exited(held[w]) \/ Bindable(port[w])
    /\ kubectl' = Killed(held[w])
    /\ held' = [held EXCEPT ![w] = NoChild]
    /\ Goto(w, AfterFailure(w)) /\ Clear(w)
    /\ UNCHANGED <<up, key, maps, nextId, file, ids, snap, restore, history,
                   faults, boots>>

(* try_wait fails: the handler gives up and drops a child that runs.       *)
WaitFails(w) ==
    /\ At(w, "check")
    /\ Fault("wait")
    /\ held' = [held EXCEPT ![w] = NoChild]
    /\ Goto(w, AfterFailure(w)) /\ Clear(w)
    /\ UNCHANGED <<up, key, maps, nextId, file, kubectl, ids, snap, restore,
                   history, boots>>

-----------------------------------------------------------------------------
(* Requests.  One that changes nothing (an unknown resource type, a restart *)
(* of a missing or running entry, a list with nothing exited) is no step.   *)

CreateRequest(w, q) ==
    /\ At(w, "idle") /\ w \in Creates
    /\ SpawnChild(w, q)
    /\ port' = [port EXCEPT ![w] = q]
    /\ Goto(w, "check")
    /\ UNCHANGED <<up, key, maps, nextId, file, id, ids, snap, restore,
                   history, faults, boots>>

RestartRequest(w, i) ==
    /\ At(w, "idle") /\ w \in Restarts
    /\ forwards[i].status = "paused"
    /\ id' = [id EXCEPT ![w] = i]
    /\ port' = [port EXCEPT ![w] = forwards[i].port]
    /\ Goto(w, "kill")
    /\ UNCHANGED <<up, key, maps, nextId, file, kubectl, held, ids, snap,
                   restore, history, faults, boots>>

(* The old process goes, under the lock of processes.  The entry may be    *)
(* running by now.                                                         *)
RestartKill(w) ==
    /\ At(w, "kill")
    /\ processes' = [processes EXCEPT ![id[w]] = NoChild]
    /\ kubectl' = Killed(processes[id[w]])
    /\ clobbered' = IF Running(id[w]) /\ processes[id[w]] # NoChild
                    THEN clobbered \cup {id[w]} ELSE clobbered
    /\ Goto(w, "spawn")
    /\ UNCHANGED <<up, key, forwards, nextId, file, locals, restore, drift,
                   early, faults, boots>>

(* Mutant of StopRequest: delete drops the Child without killing it.       *)
StopRequestNoKill(w, i) ==
    /\ At(w, "idle") /\ w \in Stops \cup Deletes
    /\ processes' = [processes EXCEPT ![i] = NoChild]
    /\ kubectl' = IF w \in Stops THEN Killed(processes[i]) ELSE kubectl
    /\ ids' = [ids EXCEPT ![w] = {i}]
    /\ Goto(w, IF w \in Stops THEN "pause" ELSE "forget")
    /\ UNCHANGED <<up, key, forwards, nextId, file, id, port, held, snap,
                   restore, history, faults, boots>>

(* stop_port_forward and delete_port_forward begin alike.                  *)
StopRequest(w, i) ==
    /\ At(w, "idle") /\ w \in Stops \cup Deletes
    /\ processes' = [processes EXCEPT ![i] = NoChild]
    /\ kubectl' = Killed(processes[i])
    /\ ids' = [ids EXCEPT ![w] = {i}]
    /\ Goto(w, IF w \in Stops THEN "pause" ELSE "forget")
    /\ UNCHANGED <<up, key, forwards, nextId, file, id, port, held, snap,
                   restore, history, faults, boots>>

(* list_port_forwards: reconcile_port_forward_processes takes the exited   *)
(* children out of processes in one hold of its lock.                      *)
ListRequest(w) ==
    LET exited == {i \in Id : Exited(processes[i])} IN
    /\ At(w, "idle") /\ w \in Lists
    /\ exited # {}
    /\ processes' = [i \in Id |-> IF i \in exited THEN NoChild
                                  ELSE processes[i]]
    /\ kubectl' = [c \in Child |->
                     IF \E i \in exited : processes[i] = c THEN Free
                     ELSE kubectl[c]]
    /\ ids' = [ids EXCEPT ![w] = exited]
    /\ Goto(w, "pause")
    /\ UNCHANGED <<up, key, forwards, nextId, file, id, port, held, snap,
                   restore, history, faults, boots>>

-----------------------------------------------------------------------------
(* The entry and its process are inserted one after the other, under two   *)
(* locks.  Only a create takes a number from PORT_FORWARD_ID.              *)

(* The restore has not moved the counter past the saved numbers yet.       *)
Restoring == pc[Restorer] \notin {"idle", "snap", "trunc", "write"}

Register(w) ==
    /\ At(w, "register")
    /\ IF w \in Creates
       THEN /\ nextId \in Id              \* bound
            /\ id' = [id EXCEPT ![w] = nextId]
            /\ nextId' = nextId + 1
            /\ early' = (early \/ Restoring)
       ELSE UNCHANGED <<id, nextId, early>>
    /\ forwards' = [forwards EXCEPT ![id'[w]] =
                        [status |-> "running", port |-> port[w]]]
    /\ Goto(w, "attach")
    /\ UNCHANGED <<up, key, processes, file, kubectl, port, held, ids, snap,
                   restore, clobbered, drift, faults, boots>>

(* Inserting over an entry drops the Child that was there.                 *)
Attach(w) ==
    /\ At(w, "attach")
    /\ processes' = [processes EXCEPT ![id[w]] = held[w]]
    /\ held' = [held EXCEPT ![w] = NoChild] /\ Clear(w)
    /\ clobbered' = clobbered \ {id[w]}
    /\ IF w = Restorer
       THEN Goto(w, "next") /\ maxId' = Max({maxId, id[w] + 1})
       ELSE Goto(w, "snap") /\ UNCHANGED maxId
    /\ UNCHANGED <<up, key, forwards, nextId, file, kubectl, ids, snap, todo,
                   drift, early, faults, boots>>

(* Mutant of Pause: the status that the page shows, not the one that        *)
(* restart_port_forward looks for.                                         *)
PauseAsStopped(w) ==
    /\ At(w, "pause")
    /\ forwards' = [i \in Id |-> IF i \in ids[w] /\ forwards[i] # Absent
                                 THEN [forwards[i] EXCEPT !.status = "stopped"]
                                 ELSE forwards[i]]
    /\ clobbered' = clobbered \ ids[w]
    /\ ids' = [ids EXCEPT ![w] = {}]
    /\ Goto(w, "snap")
    /\ UNCHANGED <<up, key, processes, nextId, file, kubectl, id, port, held,
                   snap, restore, drift, early, faults, boots>>

(* Mutant of Pause: the process is gone, the entry stays as it is.         *)
PauseNothing(w) ==
    /\ At(w, "pause")
    /\ ids' = [ids EXCEPT ![w] = {}]
    /\ Goto(w, "snap")
    /\ UNCHANGED <<up, key, maps, nextId, file, kubectl, id, port, held, snap,
                   restore, history, faults, boots>>

(* stop, and the second half of reconcile_port_forward_processes.          *)
Pause(w) ==
    /\ At(w, "pause")
    /\ forwards' = [i \in Id |-> IF i \in ids[w] /\ forwards[i] # Absent
                                 THEN [forwards[i] EXCEPT !.status = "paused"]
                                 ELSE forwards[i]]
    /\ clobbered' = clobbered \ ids[w]
    /\ ids' = [ids EXCEPT ![w] = {}]
    /\ Goto(w, "snap")
    /\ UNCHANGED <<up, key, processes, nextId, file, kubectl, id, port, held,
                   snap, restore, drift, early, faults, boots>>

(* Mutant of Forget: the entry is removed and nothing is saved.            *)
ForgetUnsaved(w) ==
    /\ At(w, "forget")
    /\ forwards' = [i \in Id |-> IF i \in ids[w] THEN Absent ELSE forwards[i]]
    /\ clobbered' = clobbered \ ids[w]
    /\ ids' = [ids EXCEPT ![w] = {}]
    /\ Goto(w, "idle")
    /\ UNCHANGED <<up, key, processes, nextId, file, kubectl, id, port, held,
                   snap, restore, drift, early, faults, boots>>

(* delete                                                                  *)
Forget(w) ==
    /\ At(w, "forget")
    /\ forwards' = [i \in Id |-> IF i \in ids[w] THEN Absent ELSE forwards[i]]
    /\ clobbered' = clobbered \ ids[w]
    /\ ids' = [ids EXCEPT ![w] = {}]
    /\ Goto(w, "snap")
    /\ UNCHANGED <<up, key, processes, nextId, file, kubectl, id, port, held,
                   snap, restore, drift, early, faults, boots>>

-----------------------------------------------------------------------------
(* save_port_forward_state: the payload is put together under the read     *)
(* lock of forwards; no lock is held while the file is written, and        *)
(* fs::write empties the file before it writes.                            *)

Broken(st) == [st |-> st, key |-> key, load |-> Nothing]
Saving(w)  == pc[w] \in {"trunc", "write"}

Snap(w) ==
    /\ At(w, "snap")
    /\ snap' = [snap EXCEPT ![w] = Saved]
    /\ drift' = (\E v \in Worker \ {w} : Saving(v))
    /\ Goto(w, "trunc")
    /\ UNCHANGED <<up, key, maps, nextId, file, kubectl, id, port, held, ids,
                   restore, clobbered, early, faults, boots>>

Truncate(w) ==
    /\ At(w, "trunc")
    /\ file' = Broken("empty")
    /\ Goto(w, "write")
    /\ UNCHANGED <<up, key, maps, nextId, kubectl, locals, restore, history,
                   faults, boots>>

(* Two writers that both emptied the file write over one another: the      *)
(* shorter text leaves the tail of the longer one behind.                  *)
Write(w) ==
    /\ At(w, "write")
    /\ \/ file' = [st |-> "valid", key |-> key, load |-> snap[w]]
       \/ file.st # "empty" /\ file' = Broken("torn")
    /\ snap' = [snap EXCEPT ![w] = Nothing]
    /\ Goto(w, "idle")
    /\ UNCHANGED <<up, key, maps, nextId, kubectl, id, port, held, ids,
                   restore, history, faults, boots>>

(* The directory, the file or the write fails: a warning, nothing more.    *)
SaveFails(w) ==
    /\ Saving(w) /\ up
    /\ Fault("save")
    /\ file' = IF pc[w] = "write" THEN Broken("torn") ELSE file
    /\ drift' = TRUE
    /\ snap' = [snap EXCEPT ![w] = Nothing]
    /\ Goto(w, "idle")
    /\ UNCHANGED <<up, key, maps, nextId, kubectl, id, port, held, ids,
                   restore, clobbered, early, boots>>

-----------------------------------------------------------------------------
(* restore_port_forwards_from_storage                                      *)

RestoreRead ==
    /\ At(Restorer, "read")
    /\ IF file.st = "valid" /\ file.key = key
       THEN /\ todo' = file.load.items /\ maxId' = file.load.next
            /\ Goto(Restorer, "next")
       ELSE Goto(Restorer, "idle") /\ UNCHANGED restore
    /\ UNCHANGED <<up, key, maps, nextId, file, kubectl, locals, history,
                   faults, boots>>

(* The file is there and cannot be read: nothing is restored from it.      *)
RestoreReadFails ==
    /\ At(Restorer, "read")
    /\ Fault("read")
    /\ Goto(Restorer, "idle")
    /\ drift' = TRUE
    /\ UNCHANGED <<up, key, maps, nextId, file, kubectl, locals, restore,
                   clobbered, early, boots>>

RestoreItem(it) ==
    /\ At(Restorer, "next") /\ it \in todo
    /\ todo' = todo \ {it}
    /\ id' = [id EXCEPT ![Restorer] = it.id]
    /\ port' = [port EXCEPT ![Restorer] = it.port]
    /\ Goto(Restorer, "spawn")
    /\ UNCHANGED <<up, key, maps, nextId, file, kubectl, held, ids, snap,
                   maxId, history, faults, boots>>

(* Mutant of RestoreStore: the counter stays at its initial value.         *)
RestoreKeepsCounter ==
    /\ At(Restorer, "next") /\ todo = {}
    /\ maxId' = 1
    /\ Goto(Restorer, "snap")
    /\ UNCHANGED <<up, key, maps, nextId, file, kubectl, locals, todo, history,
                   faults, boots>>

RestoreStore ==
    /\ At(Restorer, "next") /\ todo = {}
    /\ nextId' = maxId /\ maxId' = 1
    /\ Goto(Restorer, "snap")
    /\ UNCHANGED <<up, key, maps, file, kubectl, locals, todo, history,
                   faults, boots>>

-----------------------------------------------------------------------------
(* Outside the handlers.                                                   *)

(* The client of a request disconnects: axum drops the handler where it    *)
(* awaits.  What it holds goes with it; kill_on_drop is not set, so that a *)
(* kubectl it had started runs on.  Only a write that has begun goes on.   *)
Unsettled(w) == {i \in Id :
    /\ Running(i) /\ processes[i] = NoChild
    /\ \/ pc[w] = "attach" /\ id[w] = i
       \/ pc[w] \in {"pause", "forget"} /\ i \in ids[w]}
Unsaved(w) == pc[w] \in {"attach", "snap", "trunc"}

Disconnects(w) ==
    /\ up /\ w \in Request /\ pc[w] \notin {"idle", "write"}
    /\ Fault("cancel")
    /\ clobbered' = clobbered \cup Unsettled(w)
    /\ drift' = (drift \/ Unsaved(w))
    /\ held' = [held EXCEPT ![w] = NoChild]
    /\ ids' = [ids EXCEPT ![w] = {}]
    /\ snap' = [snap EXCEPT ![w] = Nothing]
    /\ Goto(w, "idle") /\ Clear(w)
    /\ UNCHANGED <<up, key, maps, nextId, file, kubectl, restore, early, boots>>

(* kubectl opens its listener; it exits when its port is taken, when its   *)
(* target goes, or for any other reason (one that the backend keeps: as    *)
(* often as MaxFaults allows).                                             *)
Listens(c) ==
    /\ kubectl[c].st = "starting" /\ Bindable(kubectl[c].port)
    /\ kubectl' = [kubectl EXCEPT ![c].st = "listening"]
    /\ UNCHANGED <<up, key, maps, nextId, file, pc, locals, restore, history,
                   faults, boots>>

Exits(c) ==
    /\ Alive(c)
    /\ IF Kept(c) THEN Fault("exit") ELSE UNCHANGED faults
    /\ kubectl' = [kubectl EXCEPT ![c] =
                     IF Kept(c) THEN [st |-> "exited", port |-> NoPort]
                     ELSE Free]
    /\ UNCHANGED <<up, key, maps, nextId, file, pc, locals, restore, history,
                   boots>>

(* The backend starts, for the cluster that KUBE_CONTEXT names; main       *)
(* spawns the restore, which runs beside the server.                       *)
Boot(k) ==
    /\ ~up /\ boots < MaxBoots
    /\ up' = TRUE /\ key' = k /\ boots' = boots + 1
    /\ pc' = [pc EXCEPT ![Restorer] = "read"]
    /\ UNCHANGED <<maps, nextId, file, kubectl, locals, restore, history,
                   faults>>

(* The backend ends (the shell stops it at a switch, an exit or a restart, *)
(* or it crashes): nothing of it is left but the file and the kubectls.    *)
Ends ==
    /\ up
    /\ up' = FALSE
    /\ forwards' = [i \in Id |-> Absent] /\ processes' = [i \in Id |-> NoChild]
    /\ nextId' = 1
    /\ pc' = Reset("idle") /\ id' = Reset(1) /\ port' = Reset(NoPort)
    /\ held' = Reset(NoChild) /\ ids' = Reset({}) /\ snap' = Reset(Nothing)
    /\ todo' = {} /\ maxId' = 1
    /\ clobbered' = {} /\ drift' = FALSE /\ early' = FALSE
    /\ kubectl' = [c \in Child |-> IF Exited(c) THEN Free ELSE kubectl[c]]
    /\ UNCHANGED <<key, file, faults, boots>>

-----------------------------------------------------------------------------
Step(w) ==
    \/ Spawn(w) \/ SpawnFails(w) \/ Connects(w) \/ CheckFails(w)
    \/ RestartKill(w) \/ Register(w) \/ Attach(w) \/ Pause(w) \/ Forget(w)
    \/ Snap(w) \/ Truncate(w) \/ Write(w)

RestoreStep ==
    \/ RestoreRead \/ RestoreReadFails
    \/ \E it \in todo : RestoreItem(it)
    \/ RestoreStore

Next ==
    \/ \E w \in Worker :
          Step(w) \/ WaitFails(w) \/ SaveFails(w) \/ Disconnects(w)
    \/ \E w \in Creates, q \in Port : CreateRequest(w, q)
    \/ \E w \in Restarts, i \in Id : RestartRequest(w, i)
    \/ \E w \in Stops \cup Deletes, i \in Id : StopRequest(w, i)
    \/ \E w \in Lists : ListRequest(w)
    \/ RestoreStep
    \/ \E c \in Child : Listens(c) \/ Exits(c)
    \/ \E k \in Key : Boot(k)
    \/ Ends

Spec == Init /\ [][Next]_vars

(* The page polls the list, and tokio runs the handler of a request.       *)
(* Nothing is assumed of the other requests and of the restore.            *)
FairSpec ==
    Spec /\ \A w \in Lists : WF_vars(ListRequest(w) \/ Step(w))

-----------------------------------------------------------------------------
(* Safety.                                                                 *)

(* Some step on the way to completing or removing the entry i is under way. *)
Pending(i) == \E w \in Worker :
    \/ pc[w] = "attach" /\ id[w] = i
    \/ pc[w] \in {"pause", "forget"} /\ i \in ids[w]

Quiet == up /\ \A w \in Worker : pc[w] = "idle"

(* An entry that is listed as running has a kubectl, or a step that is     *)
(* about to give it one or to change the entry is under way: the two maps, *)
(* updated under two locks, agree.  There are two exceptions: an entry     *)
(* whose kubectl was killed by a restart that had read it as paused before *)
(* it became running, and one whose handler was dropped between its change *)
(* of the one map and of the other.                                        *)
RunningHasProcess ==
    \A i \in Id :
        Running(i) /\ i \notin clobbered /\ ~Pending(i)
            => processes[i] # NoChild

(* A kubectl that the backend holds is let go while it runs in four cases  *)
(* only: another one is inserted over it, try_wait failed while its start  *)
(* was checked, the client of the create or restart that had just started  *)
(* it disconnected, or the backend ended.  Stops, deletes, lists and the   *)
(* restart of an entry let none go, whatever else runs.                    *)
Overwritten(c) == \E w \in Worker :
    pc[w] = "attach" /\ pc'[w] # "attach" /\ processes[id[w]] = c
GivenUp(c) == \E w \in Worker :
    held[w] = c /\ pc[w] = "check" /\ faults' = faults + 1
Dropped(c) == \E w \in Creates \cup Restarts :
    /\ held[w] = c /\ pc[w] \in {"check", "register", "attach"}
    /\ pc'[w] = "idle" /\ faults' = faults + 1
ChildrenAccountedFor ==
    [][\A c \in Child :
          Alive(c) /\ Kept(c) /\ Alive(c)' /\ ~Kept(c)'
              => Overwritten(c) \/ GivenUp(c) \/ Dropped(c) \/ ~up']_vars

(* When nothing is under way, the file names exactly the running entries,  *)
(* unless the last save overlapped another one or failed, a handler was    *)
(* dropped before its save, or the restore could not read the file: every  *)
(* handler that changes what is running saves after it has changed it.     *)
FileMatchesListed ==
    Quiet /\ ~drift /\ file.st = "valid" /\ file.key = key
        => file.load.items = Saved.items

(* A create never takes the number of an entry or of a kubectl that is     *)
(* already there, unless a create has been answered before the restore     *)
(* moved the counter past the restored numbers.                            *)
IdsNotReused ==
    [][\A w \in Creates :
          pc[w] = "register" /\ pc'[w] = "attach" /\ ~early'
              => forwards[nextId] = Absent /\ processes[nextId] = NoChild]_vars

(* Liveness: an entry that is listed as running though its kubectl has     *)
(* exited does not stay so, as long as the page polls the list and stays   *)
(* to hear the answer: the list that has noticed an exit and is dropped    *)
(* before it pauses the entry is an exception (clobbered).                 *)
Stale(i) == Running(i) /\ Exited(processes[i])
Settled(i) == ~up \/ i \in clobbered \/ ~Running(i) \/ Alive(processes[i])
ExitedIsNoticed == \A i \in Id : Stale(i) ~> Settled(i)

-----------------------------------------------------------------------------
(* What the documentation says and the code does not do.                   *)

(* README.md:59, "List active port-forwards": every kubectl that carries a *)
(* forward of this backend stays one of its listed forwards until it is    *)
(* killed or exits.                                                        *)
ActiveStayListed ==
    [][\A c \in Child :
          Alive(c) /\ Kept(c) /\ Alive(c)' /\ up' => Kept(c)']_vars

(* main.rs:124, "so port-forwards can be restored in the background": a    *)
(* saved forward can be, since no kubectl of an earlier backend holds its  *)
(* port.                                                                   *)
RestoreIsNotBlocked ==
    At(Restorer, "spawn") =>
        \A c \in Child :
            kubectl[c] = [st |-> "listening", port |-> port[Restorer]]
                => Kept(c)

=============================================================================
