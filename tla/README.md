# A formal model of pertisk-kube-app

TLA+ modules, TLC runs and TLAPS proofs about the parts of this repository whose
correctness depends on the order in which things happen. The program is a
Kubernetes dashboard: a Rust backend (`backend/`, Axum and kube-rs), a React
front end (`frontend/src`) and a desktop shell (`frontend/src-tauri`, Tauri 2)
that runs the backend as a sidecar process.

Source paths below are relative to the repository. `PROJECT.json` maps every
definition that models code to the lines it models, lists the components with
their status, and lists the hazards with the line at which each one bites.

## 1. Inventory

| part | state it keeps | operations | what is hard |
|---|---|---|---|
| **Sidecar supervisor**, `frontend/src-tauri/src/main.rs` (with `Layout.tsx`, `tauriDesktop.ts`) | `BackendState`: child, shutting_down, config, switch_status, restart_in_progress; `desktop-sidecar.json` | setup, monitor loop, `set_sidecar_config`, `restart_sidecar`, `trigger_kube_browser_login`, exit handler, the cluster dialog | threads that interleave between locks, rollback, time-outs, crash of the backend, kill of the application |
| **Port-forward manager**, `backend/src/handlers/portforward.rs` | two maps (forwards, processes) behind separate locks, an id counter, a state file, kubectl children | create, stop, delete, restart, list with reconcile, restore at start | multi-step handlers, restore racing with requests, stale saves, children that outlive the backend |
| **Realtime shared socket**, `frontend/src/hooks/useRealtimeResources.ts` | one socket, listeners per resource, reconnect and watchdog timers, an "intentional close" flag | subscribe, unsubscribe, open/close/error callbacks | callbacks of an old socket after a new one exists, flags consumed by the wrong callback |
| **Realtime list hooks**, same file | list, sync flags, reconcile and empty-list timers | snapshot fetch, event, reconcile fetch, refresh, cluster switch | snapshot, polls and events out of order, missed deletes after a gap, a switch announced before it happens |
| **Realtime pods hook**, `frontend/src/hooks/useRealtimePods.ts` | table, marks of deleted pods, own sockets, reconnect timer, watchdog | poll every 5 s with merge, event, reconnect, page left | overlapping polls, marks that must end, callbacks of an old socket |
| **WebSocket watch handler**, `backend/src/ws_handler.rs` | per connection: sender channel (100), watcher tasks | Subscribe, Unsubscribe, watch loops with back-off | detached tasks that outlive their subscription, re-list after a gap |
| **Exec / PTY sessions**, same file and `frontend/src/components/Terminal.tsx` | the tab's attempts and its socket; shell child, output tasks | open, retry, input, Ctrl-C respawn, close | a tab that goes while it connects, half-closed sockets, leaked children |
| **Kubernetes client bootstrap**, `backend/src/utils.rs`, `main.rs` | client, placeholder flag, message | upgrade loop, auth-status, readiness | non-atomic update of three fields, retries that end |
| **Helm releases and chart cache**, `handlers/helm.rs` | aggregator of revisions; cache with a refreshing flag | watch events; stale-while-revalidate | out-of-order revisions, a stuck refresh |
| **Workload handlers**, `handlers/workloads.rs` | none between requests | restart-all, drain, apply, upload | partial failure inside one request |
| **Desktop HTTP bridge**, `utils/desktopBridge.ts` | startup gate, backend port | fetch with retry | requests against a sidecar that moved |
| gRPC service, CRUD handlers, resource map, auth helpers | none | one API request each | nothing that interleaves inside this code |
| `handlers/backup.rs` | - | - | not compiled (`handlers/mod.rs` does not name it) |

How they interact: the shell starts the backend with a port and a context and
probes it over HTTP; the React code reaches the backend over HTTP and one
WebSocket, and the shell over Tauri commands (`invoke`); the backend talks to
the Kubernetes API, to `kubectl` and `helm` child processes and to a state file.

What makes each part correct, in a sentence:

- supervisor: restarts exclude each other, never forget a running backend, leave
  a backend that serves the configured context, and every wait of the UI ends;
- port forwards: a listed running forward has a live process of its own and no
  live process is unlisted, also across restore and across a restart of the backend;
- shared socket: while somebody listens there is a socket or a reconnect timer, and
  nobody listens to nothing for ever;
- lists and pods: a row is an object as it was, and when events stop, the list equals the cluster;
- watch sessions: one watcher per live subscription;
- terminal sessions: a child ends with its session, and the session with its tab;
- client: readiness never reports a placeholder client as ready.

## 2. Modules

| module | what it is |
|---|---|
| `Sidecar` | the supervisor, section 3 |
| `PortForward` | the port-forward manager, section 4 |
| `RealtimeSocket` | the shared socket, section 5 |
| `ClusterLog` | the history of the cluster's objects, what a list and a watch say of it (external), section 6 |
| `LiveView` | the abstract specification of what a list on the screen promises, section 6 |
| `RealtimeList` | a resource list with its fetches and its watchers; implements `LiveView`, section 6 |
| `RealtimePods` | the pods page with its own sockets and polls; implements `LiveView`, section 7 |
| `ExecSession` | a terminal tab and the sessions of its sockets, section 8 |
| `MC...` (one for each of the six) | the same with the symmetry sets and constant functions that the `.cfg` files of the runs need |
| `...Proofs` (one for each of the six, and `ClusterLogProofs` with lemmas for two of them) | the theorems, with their proofs |

How they compose: `RealtimeList` and `RealtimePods` extend `ClusterLog`, so that the cluster they watch is the same, and instantiate
`LiveView` as what they implement. `RealtimeSocket` and `RealtimeList` share the socket of the lists at different depths: the first has its
callbacks and no messages, the second the messages and a socket that is up or down.

In all of them a step is what one thread, task or callback does between two
points at which another can run: a lock that is released, an `await`, a sleep, a
probe, a file write. The definitions named `...` after "Mutant of" in a
comment are plausible bugs of the definition below them; no specification
uses them. For each property one of them, put in the place of that definition,
makes TLC find the property violated, which shows that the property depends on the code.

## 3. Sidecar

### What the module says

`Sidecar.tla` models the supervisor with all its actors: the setup hook and the
monitor thread (one worker, because the first ends where the second begins), one
background task per `set_sidecar_config` call, the restarts of browser logins (blocking
pool) and of the `restart_sidecar` command (main thread), the cluster dialog of the
UI and the event loop.

| variables | code |
|---|---|
| `child`, `config`, `switch_status`, `restart_in_progress`, `shutting_down` | the fields of `BackendState` |
| `file` | `desktop-sidecar.json` |
| `proc`, `foreign` | the backend processes of the system, the ports of other programs |
| `pc`, `cfg`, `held`, `req`, `ok`, `next`, `previous` | the locals of each thread: where it is, its copy of the configuration, its `Child`, `require_cluster_verification`, the result, `next_config`, `previous_config` |
| `ui` | `applyClusterSelection` and `waitDesktopClusterSwitchResult` |
| `app` | setup, event loop, between ExitRequested and Exit, not running |
| `faults`, `giveups`, `launches` | bounds |

The restart is `Begin, Ensure, Adopt, Stop, WaitPort, Spawn, Ready, Verify,
EndRestart`, with every `?` of the closure leading to `EndRestart`. A killed process
keeps its children: `Killed` and `Exit` reset the memory of the application and leave
`proc`; `Launch` reads the file again.

Abstractions: a context is a model value and stands for kubeconfig path and context;
ports are `1..NumPorts` with 1 the default port (the scan reaches all of them); the
gRPC port, logs and environment are left out; a probe goes to the worker's port, on which
nobody but its own child can listen, and may fail although the backend is up. `validated_config` is taken as the
identity: with `KUBE_CONTEXT` or `PORT` in the environment it puts their values in place of the dialog's
(`main.rs:116`), and `requested_context` is then not what the dialog sent. The `?` of `try_wait` (`main.rs:1013`) is left out, since an error
there means that the child is gone.

### Properties

| property | kind | what it says |
|---|---|---|
| `TypeOK` | invariant | types; the computed ports are ports of the scan |
| `RestartLock` | invariant | the flag is a lock with one owner on all paths |
| `RestartFillsEmptySlot` | invariant | a restart that holds a backend finds `child` empty |
| `BackendsAccountedFor` | action | only three named steps let go of a running backend |
| `BackendServesConfig` | invariant | in quiet states the backend serves the configured context |
| `WaitIsAnswered` | invariant | while the dialog waits, a task that reports runs, or the status is final and about what it asked for |
| `UiWaitEnds` | liveness | the dialog's wait ends |
| `MonitorRecovers` | liveness | without a running backend there is one again |

`BackendsAccountedFor` names its exceptions because the code has them: the monitor
stores over a slot it looked at before its back-off, exit does not wait for a
restart, and a kill stops nothing. The property says that there is no fourth.

`BackendServesConfig` needs two conditions that its run makes explicit by leaving
out the faults `wait` and `save`, and by having enough ports: when the rollback's own
restart cannot get the flag within 20 seconds, cannot save, or finds no port, the code
keeps the old backend under the new configuration. `WaitIsAnswered` needs none. It says
what the order of the writes to `switch_status` is good for: a switch sets `requested_context`
and `in_progress` before its dialog begins to poll, and whoever writes the outcome, be it the task of
a switch that was given up, leaves something the dialog takes for an answer. That this may be the
answer about another switch is the disagreement `SwitchIsVerified` of section 11.

### Runs

| run | instance | states | question |
|---|---|---|---|
| `sidecar_restart` | a switch and a login, 3 processes, 3 ports, one fault of any kind | 911,057 | lock and slot on every error path |
| `sidecar_switches` | 2 switches that may overlap, 2 processes, 3 ports, one probe that fails, one dialog that gives up | 885,188 | who serves what; an answer for the dialog |
| `sidecar_relaunch` | 1 switch, 4 processes, 4 ports, one fault (all kinds but a foreign port), a second start | 361,043 | who forgets a backend; liveness of the monitor and of the dialog's wait, also after a wait for the flag that ran out |

Why these bounds are enough: two workers besides the monitor give every pair of
overlapping operations (a third only queues for the flag). An overwritten or leaked process
needs one identifier more than can be wanted at once; over a second start the first application
can leave two behind, hence four in `sidecar_relaunch` (with fewer the identifiers run out and
the monitor could not recover for a reason that the code does not have). There are ports enough for each
process to have one, and in `sidecar_restart` few enough for the scan to fail when
another program takes one. Processes are interchangeable and form a
symmetry set in the safety runs; the liveness runs use none. Deadlock checking is off since
the application may end and not be started again.

Fairness (`FairSpec`): weak fairness of each thread's next step (one condition per
thread: setup and monitor, the task of each switch, each login and command), since every
wait in the supervisor has a time-out, and of the dialog's polling. Nothing is assumed of
the user, of the environment, of probes that keep failing beyond the fault bound, or of
exit.

### Proofs

`SidecarProofs.tla` proves, for every value of the constants that satisfies
`SidecarAssumption`:

- `TypeCorrect`: `Spec => []TypeOK`. `TypeOK` is inductive; the one fact that is not
  propositional is that the port scan (`Min`, `Max` of a set of ports) stays in the
  scan, which follows from the well-foundedness of the naturals.
- `RestartLockHolds` and `RestartFillsEmptySlotHolds`: from the inductive invariant
  `IInv == TypeOK /\ RestartLock /\ Placement /\ HeldWhileHolding /\ SlotCleared`. The lock
  alone is not enough for the slot: the setup hook fills it outside the lock
  (so `Placement` says that it runs before any restart), and a restart relies on the
  slot staying empty from its stop to its store (`SlotCleared`).
- `BackendsAccountedForHolds`: the action property, from the same invariant, one lemma per actor.

- `BackendServesConfigHolds`: `Spec /\ []PortFree => []BackendServesConfig` for fault kinds without
  `save` and `wait`, where `PortFree` says that some port of the scan can be bound. The invariant
  `ServesInv` relates the copies that the workers carry to the shared state: a restart past its stop has
  a copy with the context of `config`, unless a switch that overwrote `config` has yet to begin its own
  restart (`CopyCurrent`); a `Child` in a local variable serves its worker's copy (`HeldServes`); the slot serves
  `config`, unless such a switch is under way or a restart is about to stop what is in it (`SlotServes`).
  `BackendServesConfigAlone` replaces `PortFree` by a count: where no other program takes a port (`port` is no
  fault kind) and there are fewer backends than ports, one is always free. The run satisfies its hypotheses.
- `WaitIsAnsweredHolds`, for every number of switches and of waits that were given up, from `AnswerInv`: an
  `in_progress` status has a task that runs (`TaskReports`), only the dialog's own call is between its two
  assignments (`CallIsTheDialogs`), and nothing overwrites `requested_context` while a dialog waits (`DialogRemembered`).

Only model-checked: the two liveness properties.

## 4. PortForward

### What the module says

`PortForward.tla` models every handler of `portforward.rs`, the task that restores saved
forwards after a start, the state file, and the kubectl processes, which live on when the
backend is gone.

| variables | code |
|---|---|
| `forwards`, `processes`, `nextId` | `PortForwardState.forwards`, `.processes`, `PORT_FORWARD_ID` |
| `file`, `key` | `port-forwards.json` (absent, emptied by `fs::write`, complete, or mixed up by two writers), `cluster_key` |
| `kubectl` | the kubectl processes: starting, listening on a port, exited and not yet waited for |
| `pc`, `id`, `port`, `held`, `ids`, `snap` | the locals of each handler: where it is, the forward, its port, its `Child`, the forwards it will pause or remove, the payload it will write |
| `todo`, `maxId` | the loop of `restore_port_forwards_from_storage` |
| `up`, `boots`, `faults` | whether the backend runs, and bounds |
| `clobbered`, `drift`, `early` | history, for the exceptions below |

A create is `CreateRequest, Connects, Register, Attach, Snap, Truncate, Write`: the
process is started and looked at, the entry and the child are inserted under two
locks, and the state is saved. Restart is `RestartRequest, RestartKill, Spawn, ...`; stop and delete are
`StopRequest` followed by `Pause` or `Forget`; a list is `ListRequest`, which takes
the exited children out, followed by `Pause`. `Ends` is any end of the backend: its memory
goes, the file and the kubectls stay.

Abstractions: a request is a member of a set and can be made again when it has been answered;
names, namespaces and resource types are left out; ports are model values; a number is bounded by
`MaxId`. Requests that change nothing are no steps. A child that is found listening may be another program's
listener on the same port, as in the code, which only tries to connect.

A client that goes away makes axum drop its handler at the await where it is, and no `kill_on_drop` is set, so a create or a restart
that has started its kubectl lets go of it: `Disconnects`. It is modelled at every await but that of a write which has begun, where tokio's blocking
thread goes on with the file. The file that cannot be read at the start, where the restore
returns at once (`portforward.rs:255`), is `RestoreReadFails`.

### Properties

| property | kind | what it says |
|---|---|---|
| `TypeOK` | invariant | types |
| `RunningHasProcess` | invariant | an entry listed as running has a child, or a step is under way that will give it one or change it |
| `ChildrenAccountedFor` | action | only four named steps let go of a running kubectl |
| `FileMatchesListed` | invariant | when nothing is under way, the file names the running entries |
| `IdsNotReused` | action | a create takes a number that nothing has |
| `ExitedIsNoticed` | liveness | an entry does not stay "running" after its kubectl exited |

The exceptions are part of the properties because the code has them:

- `RunningHasProcess` and `ExitedIsNoticed` except `clobbered`: of two restarts that both read the entry as
  paused, the later one kills the kubectl of the earlier one; if it then cannot start its own,
  the entry is listed as running without a process until somebody stops or restarts it. The same is left by a handler
  that is dropped between its changes of the two maps.
- `ChildrenAccountedFor` names an insertion over a child that is there (after a number was given twice, or by two restarts),
  an error of `try_wait`, the disconnect of the client whose create or restart holds the process, and the end of the backend.
- `FileMatchesListed` except `drift`: two saves overlapped and the older payload was written last, a save failed, a handler was dropped
  between its change and its save, or the file could not be read at the start.
- `IdsNotReused` except `early`: a create took a number before the restore had stored its own.

Also in the model and stated by no property: a stop or delete between the two insertions of a create finds
no process to kill, and the kubectl that is inserted afterwards runs under a paused or missing entry.

### Runs

| run | instance | states | question |
|---|---|---|---|
| `portforward_restarts` | 1 create, 2 restarts, the polled list, 2 processes, one entry, one fault: an exit or a disconnect | 459,239 | agreement of the two maps, and that an exit is noticed |
| `portforward_file` | 1 create, 1 delete, 2 cluster keys, one fault among read, save, spawn, wait and disconnect, 2 starts | 563,610 | what the file says; who lets go of a kubectl |
| `portforward_restore` | 1 create, 1 stop, 2 processes, 2 numbers, 2 starts | 1,269,283 | unique numbers while the restore runs |

Why these bounds are enough: two requests of different kinds on the same entry, with the restore or
the polled list as the third actor, give every pair of handlers that the properties relate; two numbers
let a create and a saved entry meet; a second start is the first that finds a file, and a third finds nothing
that the second could not. One entry suffices where no property compares entries.
The kubectls are a symmetry set in the safety runs. Deadlock checking is off since the backend may end for good. No run has stops or deletes
beside two restarts: that `RunningHasProcess` holds with them rests on its theorem.

Fairness (`FairSpec`): only the handler of the polled list comes to its next step, since
tokio runs it and the page keeps asking. Nothing is assumed of the other requests, which may
hang for ever, or of the restore.

### Proofs

`PortForwardProofs.tla` proves, for every value of the constants that satisfies
`PortForwardAssumption`, `TypeCorrect`, `RunningHasProcessHolds`, `ChildrenAccountedForHolds`,
`IdsNotReusedHolds`, `FileMatchesListedHolds` and `OnePortPerNumberHolds`, from the inductive invariant
`IInv == TypeOK /\ PortsKnown /\ HeldWhileStarting /\ RunningHasProcess /\ DownIsEmpty /\ ReadsFirst /\ OwnSteps /\ NumbersBelow`:

- types need `PortsKnown`: an entry that is there, and a handler before its insertion, know their port, else the
  file would not keep to its type;
- the two maps need `HeldWhileStarting` (a handler has a child exactly from its spawn to its insertion, so `Attach` never
  inserts nothing), and `DownIsEmpty` for the next start;
- unique numbers need `NumbersBelow`: the numbers in use lie below `max_id` while the restore runs and below the counter afterwards.
  It is inductive only together with `ReadsFirst` (the restore reads the file before anything is there), `OwnSteps` (who can be
  where) and the condition `~early`: a create during the restore is what breaks it;
- `FileMatchesListedHolds` adds `SaveInv`, which relates the payloads of all writers as long as `drift` is false: there is one
  save under way at most (`OneSaver`); unless somebody who has changed the entries is still to save, its payload is what
  runs now (`SnapCurrent`), and without a save under way the file is (`FileCurrent`);
- `OnePortPerNumberHolds` says what `IdsNotReused` is good for and no single handler can show: a number has one port in the entries, in
  the locals of every handler and in the items still to be restored (unless `early`), so a restart that comes after a delete
  brings back no other forward. It is stated with its invariant `PortInv` in the module of the proofs, and was checked by TLC on
  instances with a delete, a create and the restore (4,829,770 states) before it was proved.

The invariants were first checked by TLC on instances of the runs above. Only model-checked: `ExitedIsNoticed`.

## 5. RealtimeSocket

### What the module says

`RealtimeSocket.tla` models the module-level state of `useRealtimeResources.ts` that all resource lists share, every socket
object that was ever created and may still call back, and at the far end how many watchers each socket has for each resource
(`handle_socket` in `ws_handler.rs` starts one per subscribe message and stops none on unsubscribe). JavaScript
runs one callback at a time, so a step is a callback.

| variables | code |
|---|---|
| `listening` | `realtimeResourceListeners`, as the hooks in its sets |
| `shared`, `reconnect`, `intentional`, `inFlight` | `realtimeSharedSocket`, `realtimeSharedReconnectTimer`, `realtimeSharedClosingIntentional`, `realtimeSharedConnectInFlight` |
| `guarded` | the socket that the heartbeat and the stale watchdog belong to |
| `sock` | each WebSocket: `readyState`, whether its callbacks are still in place, whether it has fallen silent |
| `watchers` | the tasks at the far end |
| `unsubscribed`, `misread`, `disarmed` | history, for the exceptions below |

`Desktop` says whether the port of the sidecar is asked for before a socket is created (an `await`, hence the separate step
`Connected`). Messages and what the listeners do with them are left out, and so is the polling mode of a development build, which opens no socket. So is the `catch` of `new WebSocket`
(`useRealtimeResources.ts:284`), which an address made of a host and a port does not reach. `watchers` counts up to two, which stands for any number more than one.

### Properties

| property | kind | what it says |
|---|---|---|
| `NothingLeftOpen` | invariant | when nobody listens no socket is connecting or in use |
| `NoSecondSocket` | invariant | only the shared socket is opening or in use |
| `ListenedIsWatched` | invariant | a resource listened to on an open socket has a watcher |
| `WatchedOnce` | invariant | and only one, unless it was unsubscribed on that socket before |
| `OpenIsGuarded` | invariant | an open socket has its watchdog, unless an older socket's end cleared it (`disarmed`) |
| `NotAbandoned` | invariant | while somebody listens something is under way to a connection, unless a socket took the flag of an older one for its own (`misread`) |
| `ListenersServed` | liveness | who goes on listening is served, with the same exceptions |

### Runs

| run | instance | states | question |
|---|---|---|---|
| `socket_shared` | 3 hooks of 2 resources, 3 socket objects, desktop shell, one connection that fails, is lost or goes silent | 336,228 | all properties above |
| `socket_abandoned` | the same in the browser, no fault | - | violation, section 11 |

Why these bounds are enough: two hooks of one resource and one of another show the first and the last listener of a resource and of all;
three objects are the shared one, one that is closing and one that is just created (an object that is closed can be used again, so there is
always a new one to be had); one fault is enough to bring the reconnect timer and the watchdog into play while the hooks come and go. The desktop
shell has the more interleavings: there a hook can leave while the port is being asked for. Deadlock is checked.

Fairness (`FairSpec`): promises settle and timers fire (`Connected`, `ReconnectFires`), and each socket that is opening, closing or
silent under a watchdog comes to its callback. Nothing is assumed of the hooks; connections fail at most `MaxFaults` times.

### Proofs

`RealtimeSocketProofs.tla` proves `TypeCorrect`, `NothingLeftOpenHolds`, `NoSecondSocketHolds`, `ListenedIsWatchedHolds`, `WatchedOnceHolds`,
`OpenIsGuardedHolds` and `NotAbandonedHolds` for any hooks, resources and sockets, for both values of `Desktop` and for any number of
faults. The inductive invariant adds six facts to the properties: the shared socket
keeps its callbacks (`SharedHasHandlers`), a connect waits for the port only while no socket is in use (`InFlightIsNeeded`, without which
`Connected` would create a second one), a socket that is not open has no watchers (`UnopenedUnwatched`) and an open one has a watcher nobody
listens to only after an unsubscribe (`UnheardUnsubscribed`; both for `WatchedOnce`), the flag and the reconnect timer exclude each other
(`FlagOrReconnect`), and what is under way for `NotAbandoned` is the shared socket itself (`SharedUnderWay`). Only model-checked: `ListenersServed`.

## 6. LiveView and RealtimeList

### What the modules say

`LiveView.tla` is what the README of the program promises of its lists ("Real-Time Features"), with nothing said of how: a history of
changes (`ClusterLog`), the rows that are shown, and two promises. `Safety`: every row is an object as it was in some revision. `Settles`:
the rows come to be those of the last revision, unless the list has lost a change that nothing brings back (`lossy`).

`RealtimeList.tla` is one list made by `createRealtimeHook` (or `useRealtimeCustomResources`) with all that feeds it.

| variables | code |
|---|---|
| `log` | the cluster (external) |
| `resource` | the type that is listed, which decides whether it is polled and how its rows are keyed |
| `view`, `loading`, `got`, `timer` | `data`, `isLoading`, `receivedRealtimeEvent`, `emptyListTimeout` |
| `snapshot`, `polls` | `fetchRealtimeResourceSnapshot` of the effect and of the reconcile interval: asked, answered at a revision, not yet arrived |
| `linked`, `watcher` | the shared socket, and the tasks that `create_watch_fn` runs for it: acknowledged, listing, sending the list one by one, streaming, waiting to restart, ended |
| `companion` | another hook listens to the same type, so that mounting this one sends no subscribe message |
| `partial` | this run of the effect gets neither its snapshot nor the list of a watcher of its own |
| `switching` | the switch of the cluster, announced by `Layout.tsx` before the shell has replaced the backend |

Every source reads the cluster when it is answered and changes the rows when it arrives, which are two steps; an event of a watcher is
one step from the change to the row since stream and socket keep their order and nothing else acts on it in between. A switch is one
history: the new cluster's changes follow the deletion of the old one's objects.

Left out: the ingress hook awaits a map of addresses before it subscribes (`useRealtimeResources.ts:1583`), and if that throws it does not subscribe;
and a poll is skipped while the document is hidden (1402), so "the interval fires" is said of a page that is looked at.

### Properties

| property | kind | what it says |
|---|---|---|
| `SpinnerOwed` | invariant | while the spinner is shown, something is under way that takes it away: the snapshot, the timer of the empty list, the answer to the subscription, or the opening of the socket |
| `Implements` | refinement | every behaviour is one of `LiveView`, with `lossy` as `Lossy` |
| `StillIsFaithful` | invariant | a list that is not polled and has nothing coming shows the cluster as it is, unless `Lossy` |
| `MovesForward` | action | an object's row is replaced by an older state only by the fetches of a polled type, or by a watcher that still has the newer one to send |
| `LoadingEnds` | liveness | the spinner goes away |

`Lossy` names what the code does lose, each for a type without a reconcile interval: a list that has neither its snapshot nor a watcher of its own
(`partial`: the fetch failed, or was dropped because of an event, while a companion had subscribed before), a watch that was refused and ended while the
socket stayed open (`WatchEnded`), and a row whose deletion no stream will announce (`Stranded`: deleted between two streams, with the row
keyed otherwise than the DELETED event, or left by a cluster switch). Each of the three is needed: without any one of them TLC finds a
list that never settles. Types that are polled are never `Lossy`.

### Runs

| run | instance | states | question |
|---|---|---|---|
| `list_settles` | one type of each sort (keyed alike, keyed by name, polled), 2 objects, the watcher of this page and one of an earlier page, one poll, one fault of any kind, one refresh or switch | 543,488 | all five |
| `list_switch` | one object, no fault, one switch | - | violation, section 11 |

Why these bounds are enough: an object that is there, one that is not, and two changes give creation, modification and deletion around each
of the reads; two watchers are one that lists while another streams; a second poll would do what the first does, since a poll that is answered
twice is the same as one that arrives late. Deadlock checking is off since the cluster may stop.

Fairness: requests are answered or fail, the tasks of the backend run, timers and intervals fire, the socket is opened again (that it is, is the
subject of `RealtimeSocket`). The cluster and the user owe nothing.

### Proofs

`ClusterLogProofs` has the facts about histories that both modules need: `Version` is the last write before a revision or 0 and there is one
such write; a later list agrees while nothing is written; a change appends one entry, which writes an object last, deletes it, or leaves its
version; and an object that was there and is not any more has a last revision, in which it was deleted (the one induction, by the well-foundedness of the
naturals). `RealtimeListProofs` proves `TypeCorrect`, `SpinnerOwedHolds`, `ListIsFaithfulView` (`Spec => Live!Safety`: initial states map to initial states,
steps to steps or stutters), `MovesForwardHolds` and `StillIsFaithfulHolds`, for every type, any objects, watchers and polls, any history and any number of faults. The invariant is
`TypeOK /\ Real /\ ReadBefore /\ OthersDoNotPoll /\ SnapshotNotOlder`: what is under way was read from the history (`ReadBefore`), and a snapshot that
has not been overtaken by an event is no older than the rows that an earlier run of the effect left (`SnapshotNotOlder`).

`StillIsFaithful` is the safety part of `Settles`, and needs an invariant that says where every object is: `NothingLost`. As long as the
list is not polled, its snapshot was not lost (`partial`) and no watch has ended, an object that exists is shown in its last version, or a
watcher has still to send that version, or the snapshot has it and will be shown (`OnItsWay`). It is inductive with three facts on the
order of arrivals: a snapshot that will be shown and is older than the object's last write is made up for by a watcher (`SnapshotMadeUp`); without
a companion the list's own watcher sends everything until the first event (`OursBrings`), which is why dropping the snapshot at that event is right;
and an open socket has a watcher (`Watched`, `WatchedByUs`). What does not exist and is shown was deleted in some revision, and is `Stranded`.
That the list comes to rest at all (`Settles`) and `LoadingEnds` are model-checked.

## 7. RealtimePods

### What the module says

The pods page does not use the shared socket. `RealtimePods.tla` has the sockets that `useRealtimePods` creates, each with the `watch_pods`
task at its far end, and the REST list that it merges.

| variables | code |
|---|---|
| `view`, `detail` | `data`, in two groups of columns: those that a poll refreshes, and those that it leaves as they are once the row is there |
| `deleted`, `expiring` | `deletedPodsRef`, the 500 ms timers that take a pod out of it |
| `sync` | the calls of `syncPodDetails` in flight, which nothing aborts |
| `sock` | each WebSocket with the watcher at its far end |
| `current`, `intentional`, `guard` | `wsRef`, `intentionalCloseRef`, the socket that heartbeat and watchdog belong to |
| `timer`, `strays` | the timer in `reconnectTimeoutRef`, and those that a later one has pushed out of it |
| `misread` | history: the end of an old socket was taken for a lost connection |

An event replaces a row; a poll merges into it (`useRealtimePods.ts:540-573`): status, phase, ready, restarts, node, IP, age, labels and annotations are the
listed ones, all the rest stays what the WebSocket (or the poll that made the row) brought. So a row may be of two revisions at once, and the module
keeps the revision of each group. Left out of the merge: `keepField`, which keeps an old value where the listed one is empty, since both
sources fill all columns here; the metrics, which the polls alone bring; and `last_error`, which a healthy status clears.

### Properties

| property | kind | what it says |
|---|---|---|
| `Implements` | refinement | the polled columns implement `LiveView`, lossy only when the page is left; the others its safety part |
| `DetailsForward` | action | the columns that polls leave are set back only by a watcher that has yet to send what it set back |
| `MarkedIsHidden` | invariant | no source brings a pod back while it is marked as deleted |
| `MarksExpire` | invariant | every mark has a timer that takes it away |
| `OneSocket` | invariant | one socket is opening or in use, unless `misread` |
| `NothingLeft` | invariant | a page that is left leaves no socket and no timer, unless `misread` |
| `ConnectionKept` | invariant | while the page is there a connect is planned, or a socket's end will plan one; a silent one has the watchdog; unless `misread` |
| `Reconnects` | liveness | a socket is in use again and again, unless `misread` |

The exception is in the code: after a switch or a reconnect, the `onclose` of the old socket finds `intentionalCloseRef` already false, sets
`wsRef` to null and plans a reconnect although the new socket is in use. From then on two sockets deliver, and leaving the page closes
one of them (`useRealtimePods.ts:898`, 945). The rows stay right all the same: `Implements` has no such exception.

### Runs and bounds

`pods_polled` (613,537 states): one pod that is there or not and changes up to twice (a mark matters only for the pod it is about), two socket objects alive at
a time, two polls that overlap and arrive in either order, one fault (a connection that fails, is lost or goes silent, a poll or a watch that fails), one switch, and
the page left at any moment. Two revisions are what two polls can hold of the same pod, and what an event can bring over a late poll. Fairness: timers fire, connections open or
fail, polls are answered, the interval goes on. Nothing is assumed of the watchers: `Settles` is met by the polls alone, which is why it speaks of the columns they
refresh. The other columns have no such promise: after a lost event no poll brings them up to date.

### Proofs

`RealtimePodsProofs` proves `TypeCorrect`, `TableIsFaithfulView` (`Spec => Table!Safety /\ Details!Safety`), `DetailsForwardHolds`, `MarkedIsHiddenHolds`, `MarksExpireHolds`, `OneSocketHolds`,
`NothingLeftHolds` and `ConnectionKeptHolds` for any pods, sockets and overlapping polls. The sockets need two facts more than the properties say: while nothing was misread,
a live socket is the one in `wsRef`, no timer has been pushed out, and a planned connect finds `wsRef` null (`InRef`); and a page that has been left has its flag set and
neither timer nor socket (`LeftClosed`). `ConnectionKept`, the safety part of `Reconnects`, needs two more: a page that stays and has set
`intentionalCloseRef` has planned a connect (`PlannedIfClosed`), and heartbeat and watchdog belong to the socket that is open (`Guarded`), although
every socket shares them. `Settles` and `Reconnects` are model-checked.

## 8. ExecSession

### What the module says

`ExecSession.tla` models one terminal tab and, at the other end of each socket it makes, one run of `handle_exec_socket`.

| variables | code |
|---|---|
| `kind` | what the tab is attached to: the host, a node, a pod |
| `tab` | the effect's closure: `cancelled`, `connectionAttempt`, `hasConnectedOnce`, `wsRef`, and whether `connectSocket` is asking for the port or waiting for `reconnectTimer` |
| `sock`, `inbox` | the WebSocket objects in the order of their creation; messages on their way |
| `session` | the handler: starting, in its message loop, waiting for its reader (PTY), ended; PTY, API exec or piped; the current shell |
| `running` | shells (or `kubectl` processes) alive |

A tab's text, sizes, prompts and colours are left out. The moment at which a shell exits is the environment's; what a `kubectl` that was killed leaves running on the
other side is outside the model. So are debug pods: their names are looked for in a banner, which `kubectl debug -q` (`ws_handler.rs:585`, 905) does not
print, so `node_debug_pod_name` never holds one and no pod is deleted. A break of the connection reaches both ends, each in its time, as it does between
processes of one machine.

### Properties

| property | kind | what it says |
|---|---|---|
| `TypeOK` | invariant | types |
| `NoOrphanShell` | invariant | one shell for a session, across every Ctrl-C, and none after its handler |
| `SessionIsTold` | invariant | a session that starts or serves has somebody who will end it: its socket still connects, or the tab is there and holds it, or the end is on its way |
| `RetriesEnd` | invariant | three attempts, and none after a connection that opened |
| `ClosedTabEnds` | liveness | a tab that has gone leaves neither socket nor session, whatever it was doing |

`ClosedTabEnds` excepts a PTY session (host shell, or the `kubectl exec` fallback) whose shell neither exits nor prints:
the handler waits for its reader while it still holds the master (`ws_handler.rs:1254`). Without the exception TLC finds the session that stays.
`SessionIsTold` is the safety part of `ClosedTabEnds`.

### Runs, bounds, fairness

`exec_tab` (335,429 states): a tab of each kind, its three attempts and one more socket that it must not use, three shells per session (two Ctrl-C that
start another; a third one, or one that cannot, ends the session), four messages, two lost connections; a refusal by the backend is not
counted. Five messages and three losses were tried as well (935,483 states) with the same result. Fairness: timers and handshakes come to their end, and a handler
that can take a step takes it; nobody has to type, and no shell has to exit or print. Deadlock checking is off: a tab may stay as it is.

### Proofs

`ExecSessionProofs` proves `TypeCorrect`, `NoOrphanShellHolds`, `SessionIsToldHolds` and `RetriesEndHolds` for any number of shells, messages and losses. The invariant
has a half for the tab (a tab that is there has one live socket, or is about to make one: `OneLive`; the sockets made are counted by
`connectionAttempt`: `AttemptsCount`) and one for the sessions (`SessionsCoherent`). `SessionIsTold` needs
the link between the two: an open socket is the one in `wsRef` of a tab that is there (`HeldByTab`). `ClosedTabEnds` is model-checked.

## 9. What the proofs rest on, and what is only model-checked

Every theorem starts from the specification of its module and the `ASSUME` on its constants (disjoint sets of requests,
model values that are no members, bounds that are natural numbers); the assumptions are evaluated by TLC in every run. Where a run has no
`TypeOK` (`RealtimeSocket`, `RealtimeList`, `RealtimePods`), it is the theorem `TypeCorrect` alone. The safety
and action properties of every passing run are proved, `BackendServesConfig` under the hypotheses of section 3, and of the two refinements the safety part. Six
of the invariants (`WaitIsAnswered`, `NotAbandoned`, `StillIsFaithful`, `SpinnerOwed`, `ConnectionKept`, `SessionIsTold`) say that what must happen is under way or has happened: what is
left of the liveness property beside them is that steps that can be taken are taken. The liveness
properties (`UiWaitEnds`, `MonitorRecovers`, `ExitedIsNoticed`, `ListenersServed`, `LoadingEnds`, `Reconnects`, `ClosedTabEnds`, and `Settles` of
`LiveView`) stay with TLC: proofs about weak fairness and `ENABLED` are beyond the prover used here.

## 10. Not modelled

The components whose status in `PROJECT.json` is `not_modelled`, each with its reason there. In short, the handlers
that make one API request and keep nothing, rendering, and build tooling have no behaviour of the kind these modules are about; of the others
some are in the plan below. Most of the TypeScript is of the first sort: pages, panels, colour themes and one query hook per resource
(`useKubernetes.ts` holds 2,000 lines of them). A model of such code would repeat it, so the share of lines that the modules cover stays small, and
much of what they do cover is Rust.

Left out inside the modelled parts:

- logs, the stderr pipe of kubectl (`portforward.rs:84`), and the development polling mode of the hooks;
- what the functions that make rows of objects compute. The webhook lists (`mwc`, `vwc`) are out of `RealtimeList` for that reason: the items their
  watch sends have no `metadata`, which the functions of `useRealtimeResources.ts:1218` read, so an event makes a row without a name;
- that a node being deleted is hidden from its list until the next poll;
- the display flags of the pods page, its exported `reconnect` and `disconnect`, and the second mount that React's strict mode does in development;
- the bounded channel of a socket (`ws_handler.rs:1338`) and the pings that share it;
- the deletion of debug pods, which is never reached (section 8), the wait of the ingress hook, polls of a hidden page (section 6), and the `catch` of `new WebSocket` (section 5);
- back-pressure of a terminal, and the messages that explain why a session failed (the task that sends them is aborted right after they are queued,
  `ws_handler.rs:893`, so they may never be seen).

Hazards that were met and are in no list: `refreshing` of the Helm chart cache stays set when its task panics (`helm.rs:1154`); client, placeholder flag
and message of the Kubernetes client are replaced one by one (`utils.rs:548`), and its upgrade gives up after eighteen attempts (`utils.rs:526`); the start-up gate of the HTTP
bridge is reset under requests that wait for it (`desktopBridge.ts:267`); restart-all patches one workload after another (`workloads.rs:1242`).

## 11. Where the code and its documentation disagree

Each of these is a property that TLC finds violated by the model of the code. The first two are runs of the project; the others
can be repeated by hand with the `.cfg` named beside them (`tlc -config <cfg> MCSidecar`, or `MCPortForward`).

| property | said by | what the code does |
|---|---|---|
| `PagesReceiveEvents` (run `socket_abandoned`) | README.md:95, "subscribe over a single WebSocket and receive watch events" | leaving a page while its socket connects leaves the flag set; the next page's socket closes itself without a reconnect (`useRealtimeResources.ts:396`) |
| `SwitchLeavesNothing` (run `list_switch`) | `Layout.tsx:895`, "Clear stale old-cluster content immediately while switch is in progress." | the lists empty themselves and at once fetch from the old backend again, which still runs; after the switch nothing announces the deletion of those rows, and a list that is not polled shows both clusters (`Layout.tsx:896`) |
| `SwitchIsVerified` (`MCSidecar_verified.cfg`) | README.md:207, "cluster verification before switch" | of two overlapping switches, the success of the first is taken by the dialog that waits for the second, whose context nobody has verified (`main.rs:1579`) |
| `PortDoesNotDrift` (`MCSidecar_port_drift.cfg`) | `main.rs:849-850`, "so UI/localStorage do not drift to a fallback port across restarts" | a restart looks for a port while its own backend still holds the default one (`main.rs:1283` before 1299), moves away and back the next time |
| `ActiveStayListed` (`MCPortForward_unlisted.cfg`) | README.md:59, "List active port-forwards" | a create during the restore takes the number of a saved entry; the later insertion drops a running kubectl that no list shows any more (`portforward.rs:321`) |
| `RestoreIsNotBlocked` (`MCPortForward_blocked.cfg`) | `backend/src/main.rs:124`, "so port-forwards can be restored in the background" | the kubectls of the backend that ended hold the ports, and the items are given up (`portforward.rs:99`) |

Also seen while modelling, and visible as exceptions in the properties:

- README.md:95 says "No polling; list updates as soon as the cluster state changes.", while five types are polled beside the watch, and the lists
  that are not polled lose the changes named by `Lossy`.
- `ws_handler.rs:1905-1906` restarts a custom-resource watch "so realtime updates keep flowing without page refresh"; what was deleted in between is not made up for.
- `useRealtimeResources.ts:1348` speaks of a confirmed empty list; a timer of two seconds ends the spinner whether or not the list is empty.
- `useRealtimePods.ts:523-524` says that a pod is never removed by a single stale polling snapshot; `missCount >= 1` at line 534 removes it at the first.
- `ws_handler.rs` recognises, keeps and deletes the name of a debug pod (766, 945 and after each message loop), but starts `kubectl debug -q` (585), which prints no banner
  (so the comment at 906): the pods of node shells stay in the cluster.
- When switches overlap, the rollback at `main.rs:1586` restores the configuration that the failed switch found, which may
  be one that an earlier switch had set and not verified.

## 12. Plan

Done: the six components above, with two refinements of `LiveView`. Next, in this order:

1. The channel of a socket (`handle_socket`: 100 messages, several watchers, the reader that answers pings), composed with `RealtimeList`.
2. An abstract lease (one backend at a time is handed from owner to owner) that the restarts of `Sidecar` implement, and an abstract
   table of forwards that `PortForward` implements while `early` is false, each as a refinement that TLC checks and TLAPS proves.
3. `StartupGate` (`desktopBridge.ts`), `KubeClient` (placeholder, upgrade loop, readiness), `HelmReleases` (fold of revisions, checked
   against a reference definition), `HelmChartCache`.
4. The safety part of `ExitedIsNoticed`, the one liveness property beside `MonitorRecovers` that has none.

The project keeps to twelve runs so that all of them can be repeated together in minutes, and its hazard list to the forty most serious ones.
