------------------------- MODULE PortForwardProofs -------------------------
(***************************************************************************)
(* Theorems about the port-forwards, for every set of requests, processes, *)
(* ports and cluster keys and for every bound: type correctness, the       *)
(* agreement of the two maps and of the file with them, the ways in which  *)
(* a running kubectl is let go, and when the numbers of forwards and the   *)
(* ports they listen on stay unique.                                       *)
(***************************************************************************)
EXTENDS PortForward, TLAPS

USE DEF maps, locals, restore, history

-----------------------------------------------------------------------------
(* The inductive invariant.                                                *)

Starting(w) == pc[w] \in {"check", "register", "attach"}

(* A worker holds a Child exactly from its spawn to the end of its check   *)
(* or to the insertion into processes.                                     *)
HeldWhileStarting == \A w \in Worker : held[w] # NoChild <=> Starting(w)

(* Nothing of a backend that is not running is left in memory.             *)
DownIsEmpty == ~up =>
    /\ \A w \in Worker : pc[w] = "idle"
    /\ \A i \in Id : forwards[i] = Absent /\ processes[i] = NoChild
    /\ maxId = 1 /\ ~early

(* The port of an entry and of a kubectl that is being started is known.   *)
PortsKnown ==
    /\ \A w \in Worker : pc[w] \in {"kill", "spawn", "check", "register"}
          => port[w] \in Port
    /\ \A i \in Id : forwards[i] # Absent => forwards[i].port \in Port

(* Every worker stays on the steps of its own handler.                     *)
OwnSteps == \A w \in Worker :
    /\ pc[w] = "kill" => w \in Restarts
    /\ pc[w] = "spawn" => w \in Restarts \cup {Restorer}
    /\ Starting(w) => w \in Starter
    /\ pc[w] \in {"pause", "forget"} => w \in Stops \cup Deletes \cup Lists
    /\ pc[w] \in {"read", "next"} => w = Restorer

(* Until the file has been read, max_id is that of an empty one.           *)
ReadsFirst == pc[Restorer] = "read" => maxId = 1

(* The numbers in use are below the one that the next create will get; as  *)
(* long as the restore runs, below its max_id or the one it just inserts.  *)
NextNumber == IF Restoring THEN maxId ELSE nextId
InUse(i)   == i < NextNumber \/ (pc[Restorer] = "attach" /\ i = id[Restorer])
NumbersBelow == ~early =>
    /\ \A i \in Id : forwards[i] # Absent \/ processes[i] # NoChild => InUse(i)
    /\ \A w \in Restarts :
          pc[w] \in {"kill", "spawn", "check", "register", "attach"} => InUse(id[w])
    /\ \A w \in Creates : pc[w] = "attach" => ~Restoring /\ id[w] < nextId

IInv == /\ TypeOK /\ PortsKnown /\ HeldWhileStarting /\ RunningHasProcess
        /\ DownIsEmpty /\ ReadsFirst /\ OwnSteps /\ NumbersBelow

-----------------------------------------------------------------------------
(* Small facts about types.                                                *)

LEMMA Roles ==
    /\ Restorer \in Worker /\ Starter \subseteq Worker
    /\ Creates \cup Restarts \cup Stops \cup Deletes \cup Lists \subseteq Worker
    /\ Restorer \notin Creates \cup Restarts \cup Stops \cup Deletes \cup Lists
    /\ Creates \cap Restarts = {}
BY PortForwardAssumption DEF Worker, Request, Starter, PortForwardAssumption

LEMMA GotoType ==
    ASSUME pc \in [Worker -> PC], NEW w \in Worker, NEW l \in PC, Goto(w, l)
    PROVE  /\ pc' \in [Worker -> PC] /\ pc'[w] = l
           /\ \A v \in Worker : v # w => pc'[v] = pc[v]
BY DEF Goto

LEMMA Labels ==
    /\ {"idle", "read", "next", "kill", "spawn", "check", "register", "attach",
        "pause", "forget", "snap", "trunc", "write"} = PC
    /\ \A w : AfterFailure(w) \in {"next", "idle"} /\ AfterFailure(w) \in PC
BY DEF PC, AfterFailure

LEMMA Numbers == /\ 1 \in Id /\ Id \subseteq Nat
                 /\ \A i \in Id : i + 1 \in 1..(MaxId + 1)
                 /\ 1 \in 1..(MaxId + 1)
BY PortForwardAssumption DEF Id, PortForwardAssumption

LEMMA ClearType ==
    ASSUME id \in [Worker -> Id], port \in [Worker -> Port \cup {NoPort}],
           NEW w \in Worker, Clear(w)
    PROVE  /\ id' \in [Worker -> Id] /\ port' \in [Worker -> Port \cup {NoPort}]
           /\ \A v \in Worker : v # w => id'[v] = id[v] /\ port'[v] = port[v]
BY Numbers DEF Clear

LEMMA KubectlType ==
    ASSUME kubectl \in [Child -> Process]
    PROVE  /\ \A c : Killed(c) \in [Child -> Process]
           /\ Free \in Process
           /\ \A c \in Child : ~(Killed(c)[c].st \in {"starting", "listening"})
           /\ \A c, x \in Child : x # c => Killed(c)[x] = kubectl[x]
BY DEF Killed, Process, Free

LEMMA FaultType ==
    ASSUME faults \in 0..MaxFaults
    PROVE  \A k : Fault(k) => faults' \in 0..MaxFaults /\ faults' = faults + 1
BY PortForwardAssumption DEF Fault, PortForwardAssumption

LEMMA PayloadType ==
    /\ Nothing \in Payload
    /\ TypeOK /\ PortsKnown => Saved \in Payload
    /\ \A st \in {"none", "empty", "valid", "torn"} :
          TypeOK => Broken(st) \in File
<1>1. Nothing \in Payload
  BY Numbers DEF Nothing, Payload
<1>2. ASSUME TypeOK, PortsKnown PROVE Saved \in Payload
  <2>1. \A i \in Id : Running(i) => forwards[i].port \in Port
    BY <1>2 DEF PortsKnown, Running, Absent
  <2> QED  BY <1>2, <2>1 DEF Saved, Payload, Item, TypeOK
<1> QED  BY <1>1, <1>2 DEF Broken, File, TypeOK

LEMMA MaxOfTwo ==
    ASSUME NEW a \in Int, NEW b \in Int
    PROVE  /\ Max({a, b}) \in {a, b} /\ Max({a, b}) >= a /\ Max({a, b}) >= b
<1>1. \E x \in {a, b} : \A y \in {a, b} : x >= y
  OBVIOUS
<1> QED  BY <1>1 DEF Max

-----------------------------------------------------------------------------
(* Type correctness.                                                       *)

(* Starting a kubectl.                                                     *)
LEMMA SpawnChildType ==
    ASSUME TypeOK, NEW w \in Worker, NEW q \in Port, SpawnChild(w, q)
    PROVE  /\ kubectl' \in [Child -> Process] /\ held' \in [Worker -> Child \cup {NoChild}]
           /\ held'[w] \in Child /\ ~Alive(held'[w]) /\ ~Kept(held'[w])
           /\ \A v \in Worker : v # w => held'[v] = held[v]
           /\ \A c \in Child : c # held'[w] => kubectl'[c] = kubectl[c]
<1>1. PICK c \in Child :
          /\ ~Alive(c) /\ ~Kept(c)
          /\ kubectl' = [kubectl EXCEPT ![c] = [st |-> "starting", port |-> q]]
          /\ held' = [held EXCEPT ![w] = c]
  BY DEF SpawnChild
<1>2. [st |-> "starting", port |-> q] \in Process
  BY DEF Process
<1> QED  BY <1>1, <1>2 DEF TypeOK

(* The steps that start a kubectl and watch it come up.                    *)
LEMMA StartType ==
    ASSUME TypeOK, PortsKnown, NEW w \in Worker,
           \/ Spawn(w) \/ SpawnFails(w) \/ Connects(w) \/ CheckFails(w)
           \/ WaitFails(w) \/ \E q \in Port : CreateRequest(w, q)
    PROVE  TypeOK' /\ PortsKnown'
<1>1. CASE Spawn(w)
  <2>1. port[w] \in Port /\ SpawnChild(w, port[w]) /\ Goto(w, "check")
    BY <1>1 DEF Spawn, At, PortsKnown
  <2>2. TypeOK'
    BY <1>1, <2>1, SpawnChildType, GotoType, Labels DEF Spawn, TypeOK
  <2> QED  BY <1>1, <2>1, <2>2, GotoType, Labels DEF Spawn, PortsKnown, TypeOK
<1>2. CASE SpawnFails(w)
  <2>1. Goto(w, AfterFailure(w)) /\ Clear(w)
    BY <1>2 DEF SpawnFails
  <2>2. faults' \in 0..MaxFaults
    BY <1>2, FaultType DEF SpawnFails, TypeOK
  <2>3. TypeOK'
    BY <1>2, <2>1, <2>2, ClearType, GotoType, Labels DEF SpawnFails, TypeOK
  <2> QED  BY <1>2, <2>1, <2>3, ClearType, GotoType, Labels
           DEF SpawnFails, PortsKnown, TypeOK
<1>3. CASE Connects(w)
  <2>1. port[w] \in Port /\ Goto(w, "register")
    BY <1>3 DEF Connects, At, PortsKnown
  <2> QED  BY <1>3, <2>1, GotoType, Labels DEF Connects, PortsKnown, TypeOK
<1>4. CASE CheckFails(w)
  <2>1. Goto(w, AfterFailure(w)) /\ Clear(w) /\ kubectl' = Killed(held[w])
    BY <1>4 DEF CheckFails
  <2>2. TypeOK'
    BY <1>4, <2>1, ClearType, GotoType, Labels, KubectlType
    DEF CheckFails, TypeOK
  <2> QED  BY <1>4, <2>1, <2>2, ClearType, GotoType, Labels
           DEF CheckFails, PortsKnown, TypeOK
<1>5. CASE WaitFails(w)
  <2>1. Goto(w, AfterFailure(w)) /\ Clear(w) /\ Fault("wait")
    BY <1>5 DEF WaitFails
  <2>2. TypeOK'
    BY <1>5, <2>1, ClearType, GotoType, Labels, FaultType
    DEF WaitFails, TypeOK
  <2> QED  BY <1>5, <2>1, <2>2, ClearType, GotoType, Labels
           DEF WaitFails, PortsKnown, TypeOK
<1>6. CASE \E q \in Port : CreateRequest(w, q)
  <2>1. PICK q \in Port : CreateRequest(w, q)
    BY <1>6
  <2>2. SpawnChild(w, q) /\ Goto(w, "check")
    BY <2>1 DEF CreateRequest
  <2>3. port' \in [Worker -> Port \cup {NoPort}] /\ port'[w] \in Port
        /\ \A v \in Worker : v # w => port'[v] = port[v]
    BY <2>1 DEF CreateRequest, TypeOK
  <2>4. TypeOK'
    BY <2>1, <2>2, <2>3, SpawnChildType, GotoType, Labels DEF CreateRequest, TypeOK
  <2> QED  BY <2>1, <2>2, <2>3, <2>4, GotoType, Labels
           DEF CreateRequest, PortsKnown, TypeOK
<1> QED  BY <1>1, <1>2, <1>3, <1>4, <1>5, <1>6

(* The other requests.                                                     *)
LEMMA RequestType ==
    ASSUME TypeOK, PortsKnown, NEW w \in Worker,
           \/ \E i \in Id : RestartRequest(w, i) \/ StopRequest(w, i)
           \/ ListRequest(w) \/ RestartKill(w)
    PROVE  TypeOK' /\ PortsKnown'
<1>1. ASSUME NEW i \in Id, RestartRequest(w, i)
      PROVE  TypeOK' /\ PortsKnown'
  <2>1. forwards[i].port \in Port /\ Goto(w, "kill")
    BY <1>1 DEF RestartRequest, PortsKnown, Absent
  <2>2. /\ port' \in [Worker -> Port \cup {NoPort}] /\ port'[w] \in Port
        /\ \A v \in Worker : v # w => port'[v] = port[v]
        /\ id' \in [Worker -> Id]
    BY <1>1, <2>1 DEF RestartRequest, TypeOK
  <2>3. TypeOK'
    BY <1>1, <2>1, <2>2, GotoType, Labels DEF RestartRequest, TypeOK
  <2> QED  BY <1>1, <2>1, <2>2, <2>3, GotoType, Labels
           DEF RestartRequest, PortsKnown, TypeOK
<1>2. ASSUME NEW i \in Id, StopRequest(w, i)
      PROVE  TypeOK' /\ PortsKnown'
  <2>1. PICK l \in {"pause", "forget"} : Goto(w, l)
    BY <1>2 DEF StopRequest
  <2>2. /\ processes' \in [Id -> Child \cup {NoChild}]
        /\ kubectl' \in [Child -> Process] /\ ids' \in [Worker -> SUBSET Id]
    BY <1>2, KubectlType DEF StopRequest, TypeOK
  <2>3. TypeOK'
    BY <1>2, <2>1, <2>2, GotoType, Labels DEF StopRequest, TypeOK
  <2> QED  BY <1>2, <2>1, <2>3, GotoType, Labels DEF StopRequest, PortsKnown, TypeOK
<1>3. CASE ListRequest(w)
  <2>1. Goto(w, "pause")
    BY <1>3 DEF ListRequest
  <2>2. /\ processes' \in [Id -> Child \cup {NoChild}]
        /\ kubectl' \in [Child -> Process] /\ ids' \in [Worker -> SUBSET Id]
    BY <1>3, KubectlType DEF ListRequest, TypeOK
  <2>3. TypeOK'
    BY <1>3, <2>1, <2>2, GotoType, Labels DEF ListRequest, TypeOK
  <2> QED  BY <1>3, <2>1, <2>3, GotoType, Labels DEF ListRequest, PortsKnown, TypeOK
<1>4. CASE RestartKill(w)
  <2>1. Goto(w, "spawn") /\ port[w] \in Port /\ id[w] \in Id
    BY <1>4 DEF RestartKill, At, PortsKnown, TypeOK
  <2>2. /\ processes' \in [Id -> Child \cup {NoChild}]
        /\ kubectl' \in [Child -> Process] /\ clobbered' \in SUBSET Id
    BY <1>4, <2>1, KubectlType DEF RestartKill, TypeOK
  <2>3. TypeOK'
    BY <1>4, <2>1, <2>2, GotoType, Labels DEF RestartKill, TypeOK
  <2> QED  BY <1>4, <2>1, <2>3, GotoType, Labels DEF RestartKill, PortsKnown, TypeOK
<1> QED  BY <1>1, <1>2, <1>3, <1>4

(* The insertions, and the steps that change or remove an entry.           *)
LEMMA EntryType ==
    ASSUME TypeOK, PortsKnown, NEW w \in Worker,
           Register(w) \/ Attach(w) \/ Pause(w) \/ Forget(w)
    PROVE  TypeOK' /\ PortsKnown'
<1>1. CASE Register(w)
  <2>1. Goto(w, "attach") /\ port[w] \in Port
    BY <1>1 DEF Register, At, PortsKnown
  <2>2. /\ id' \in [Worker -> Id] /\ nextId' \in 1..(MaxId + 1)
        /\ early' \in BOOLEAN
    <3>1. CASE w \in Creates
      <4>1. nextId \in Id /\ nextId' = nextId + 1 /\ id' = [id EXCEPT ![w] = nextId]
            /\ early' = (early \/ Restoring)
        BY <1>1, <3>1 DEF Register
      <4> QED  BY <4>1, Numbers DEF TypeOK
    <3>2. CASE w \notin Creates
      BY <1>1, <3>2 DEF Register, TypeOK
    <3> QED  BY <3>1, <3>2
  <2>3. [status |-> "running", port |-> port[w]] \in Forward
    BY <2>1 DEF Forward
  <2>4. /\ forwards' \in [Id -> Forward]
        /\ \A i \in Id : forwards'[i] # Absent => forwards'[i].port \in Port
    <3>1. forwards' = [forwards EXCEPT ![id'[w]] =
                          [status |-> "running", port |-> port[w]]]
      BY <1>1 DEF Register
    <3>2. id'[w] \in Id
      BY <2>2
    <3> QED  BY <2>1, <2>3, <3>1, <3>2 DEF TypeOK, PortsKnown
  <2>5. TypeOK'
    BY <1>1, <2>1, <2>2, <2>4, GotoType, Labels DEF Register, TypeOK
  <2> QED  BY <1>1, <2>1, <2>4, <2>5, GotoType, Labels DEF Register, PortsKnown, TypeOK
<1>2. CASE Attach(w)
  <2>1. PICK l \in {"next", "snap"} : Goto(w, l)
    BY <1>2 DEF Attach
  <2>2. maxId' \in 1..(MaxId + 1)
    <3>1. id[w] \in Id /\ maxId \in 1..(MaxId + 1)
      BY DEF TypeOK
    <3>2. id[w] + 1 \in 1..(MaxId + 1)
      BY <3>1, Numbers
    <3> DEFINE n == id[w] + 1
    <3>3. maxId \in Int /\ n \in Int
      BY <3>1, <3>2, PortForwardAssumption DEF PortForwardAssumption
    <3> HIDE DEF n
    <3>4. Max({maxId, n}) \in {maxId, n}
      BY <3>3, MaxOfTwo
    <3>5. Max({maxId, id[w] + 1}) \in 1..(MaxId + 1)
      BY <3>1, <3>2, <3>4 DEF n
    <3> QED  BY <1>2, <3>1, <3>5 DEF Attach
  <2>3. Clear(w)
    BY <1>2 DEF Attach
  <2>4. TypeOK'
    BY <1>2, <2>1, <2>2, <2>3, ClearType, GotoType, Labels DEF Attach, TypeOK
  <2> QED  BY <1>2, <2>1, <2>3, <2>4, ClearType, GotoType, Labels
           DEF Attach, PortsKnown, TypeOK
<1>3. CASE Pause(w)
  <2>1. Goto(w, "snap")
    BY <1>3 DEF Pause
  <2>2. /\ forwards' \in [Id -> Forward]
        /\ \A i \in Id : forwards'[i] # Absent => forwards'[i].port \in Port
    <3>1. \A i \in Id : [forwards[i] EXCEPT !.status = "paused"] \in Forward
      BY DEF TypeOK, Forward
    <3>2. forwards' \in [Id -> Forward]
      BY <1>3, <3>1 DEF Pause, TypeOK
    <3> QED  BY <1>3, <3>2 DEF Pause, TypeOK, PortsKnown
  <2>3. TypeOK'
    BY <1>3, <2>1, <2>2, GotoType, Labels DEF Pause, TypeOK
  <2> QED  BY <1>3, <2>1, <2>2, <2>3, GotoType, Labels DEF Pause, PortsKnown, TypeOK
<1>4. CASE Forget(w)
  <2>1. Goto(w, "snap")
    BY <1>4 DEF Forget
  <2>2. Absent \in Forward
    BY DEF Absent, Forward
  <2>3. /\ forwards' \in [Id -> Forward]
        /\ \A i \in Id : forwards'[i] # Absent => forwards'[i].port \in Port
    BY <1>4, <2>2 DEF Forget, TypeOK, PortsKnown
  <2>4. TypeOK'
    BY <1>4, <2>1, <2>3, GotoType, Labels DEF Forget, TypeOK
  <2> QED  BY <1>4, <2>1, <2>3, <2>4, GotoType, Labels DEF Forget, PortsKnown, TypeOK
<1> QED  BY <1>1, <1>2, <1>3, <1>4

(* The steps of a save.                                                    *)
LEMMA SaveType ==
    ASSUME TypeOK, PortsKnown, NEW w \in Worker,
           Snap(w) \/ Truncate(w) \/ Write(w) \/ SaveFails(w)
    PROVE  TypeOK' /\ PortsKnown'
<1>1. CASE Snap(w)
  <2>1. Goto(w, "trunc")
    BY <1>1 DEF Snap
  <2>2. snap' \in [Worker -> Payload] /\ drift' \in BOOLEAN
    BY <1>1, PayloadType DEF Snap, TypeOK
  <2>3. TypeOK'
    BY <1>1, <2>1, <2>2, GotoType, Labels DEF Snap, TypeOK
  <2> QED  BY <1>1, <2>1, <2>3, GotoType, Labels DEF Snap, PortsKnown, TypeOK
<1>2. CASE Truncate(w)
  <2>1. Goto(w, "write") /\ file' \in File
    BY <1>2, PayloadType DEF Truncate
  <2>2. TypeOK'
    BY <1>2, <2>1, GotoType, Labels DEF Truncate, TypeOK
  <2> QED  BY <1>2, <2>1, <2>2, GotoType, Labels DEF Truncate, PortsKnown, TypeOK
<1>3. CASE Write(w)
  <2>1. Goto(w, "idle")
    BY <1>3 DEF Write
  <2>2. file' \in File /\ snap' \in [Worker -> Payload]
    BY <1>3, PayloadType DEF Write, TypeOK, File
  <2>3. TypeOK'
    BY <1>3, <2>1, <2>2, GotoType, Labels DEF Write, TypeOK
  <2> QED  BY <1>3, <2>1, <2>3, GotoType, Labels DEF Write, PortsKnown, TypeOK
<1>4. CASE SaveFails(w)
  <2>1. Goto(w, "idle") /\ Fault("save")
    BY <1>4 DEF SaveFails
  <2>2. /\ file' \in File /\ snap' \in [Worker -> Payload]
        /\ faults' \in 0..MaxFaults
    BY <1>4, <2>1, PayloadType, FaultType DEF SaveFails, TypeOK
  <2>3. TypeOK'
    BY <1>4, <2>1, <2>2, GotoType, Labels DEF SaveFails, TypeOK
  <2> QED  BY <1>4, <2>1, <2>3, GotoType, Labels DEF SaveFails, PortsKnown, TypeOK
<1> QED  BY <1>1, <1>2, <1>3, <1>4

(* A handler is dropped.                                                   *)
LEMMA DropType ==
    ASSUME TypeOK, PortsKnown, NEW w \in Worker, Disconnects(w)
    PROVE  TypeOK' /\ PortsKnown'
<1>1. Goto(w, "idle") /\ Clear(w) /\ Fault("cancel")
  BY DEF Disconnects
<1>2. /\ held' \in [Worker -> Child \cup {NoChild}]
      /\ ids' \in [Worker -> SUBSET Id] /\ snap' \in [Worker -> Payload]
  BY PayloadType DEF Disconnects, TypeOK
<1>3. /\ clobbered' \in SUBSET Id /\ drift' \in BOOLEAN
      /\ faults' \in 0..MaxFaults
  BY <1>1, FaultType DEF Disconnects, Unsettled, Unsaved, TypeOK
<1>4. TypeOK'
  BY <1>1, <1>2, <1>3, ClearType, GotoType, Labels DEF Disconnects, TypeOK
<1> QED  BY <1>1, <1>4, ClearType, GotoType, Labels
         DEF Disconnects, PortsKnown, TypeOK

(* The steps of the restore.                                               *)
LEMMA RestoreType ==
    ASSUME TypeOK, PortsKnown, RestoreStep
    PROVE  TypeOK' /\ PortsKnown'
<1>1. CASE RestoreRead
  <2>1. PICK l \in {"next", "idle"} : Goto(Restorer, l)
    BY <1>1 DEF RestoreRead
  <2>2. todo' \in SUBSET Item /\ maxId' \in 1..(MaxId + 1)
    BY <1>1 DEF RestoreRead, TypeOK, File, Payload
  <2>3. TypeOK'
    BY <1>1, <2>1, <2>2, GotoType, Labels, Roles DEF RestoreRead, TypeOK
  <2> QED  BY <1>1, <2>1, <2>3, GotoType, Labels, Roles
           DEF RestoreRead, PortsKnown, TypeOK
<1>2. ASSUME NEW it \in todo, RestoreItem(it)
      PROVE  TypeOK' /\ PortsKnown'
  <2>1. it.id \in Id /\ it.port \in Port /\ Goto(Restorer, "spawn")
    BY <1>2 DEF RestoreItem, TypeOK, Item
  <2>2. /\ id' \in [Worker -> Id] /\ port' \in [Worker -> Port \cup {NoPort}]
        /\ port'[Restorer] \in Port
        /\ \A v \in Worker : v # Restorer => port'[v] = port[v]
    BY <1>2, <2>1, Roles DEF RestoreItem, TypeOK
  <2>3. TypeOK'
    BY <1>2, <2>1, <2>2, GotoType, Labels, Roles DEF RestoreItem, TypeOK
  <2> QED  BY <1>2, <2>1, <2>2, <2>3, GotoType, Labels, Roles
           DEF RestoreItem, PortsKnown, TypeOK
<1>3. CASE RestoreStore
  <2>1. Goto(Restorer, "snap")
    BY <1>3 DEF RestoreStore
  <2>2. TypeOK'
    BY <1>3, <2>1, GotoType, Labels, Roles, Numbers DEF RestoreStore, TypeOK
  <2> QED  BY <1>3, <2>1, <2>2, GotoType, Labels, Roles
           DEF RestoreStore, PortsKnown, TypeOK
<1>4. CASE RestoreReadFails
  <2>1. Goto(Restorer, "idle") /\ Fault("read")
    BY <1>4 DEF RestoreReadFails
  <2>2. TypeOK'
    BY <1>4, <2>1, FaultType, GotoType, Labels, Roles
    DEF RestoreReadFails, TypeOK
  <2> QED  BY <1>4, <2>1, <2>2, GotoType, Labels, Roles
           DEF RestoreReadFails, PortsKnown, TypeOK
<1> QED  BY <1>1, <1>2, <1>3, <1>4 DEF RestoreStep

(* What happens outside the handlers.                                      *)
LEMMA OutsideType ==
    ASSUME TypeOK, PortsKnown,
           \/ \E c \in Child : Listens(c) \/ Exits(c)
           \/ \E k \in Key : Boot(k)
           \/ Ends
    PROVE  TypeOK' /\ PortsKnown'
<1>1. ASSUME NEW c \in Child, Listens(c)
      PROVE  TypeOK' /\ PortsKnown'
  <2>1. kubectl' \in [Child -> Process]
    <3>1. [kubectl[c] EXCEPT !.st = "listening"] \in Process
      BY DEF TypeOK, Process
    <3>2. kubectl' = [kubectl EXCEPT ![c] = [kubectl[c] EXCEPT !.st = "listening"]]
      BY <1>1 DEF Listens
    <3> QED  BY <3>1, <3>2 DEF TypeOK
  <2> QED  BY <1>1, <2>1 DEF Listens, TypeOK, PortsKnown
<1>2. ASSUME NEW c \in Child, Exits(c)
      PROVE  TypeOK' /\ PortsKnown'
  <2>1. kubectl' \in [Child -> Process]
    BY <1>2, KubectlType DEF Exits, TypeOK, Process
  <2>2. faults' \in 0..MaxFaults
    BY <1>2, FaultType DEF Exits, TypeOK
  <2> QED  BY <1>2, <2>1, <2>2 DEF Exits, TypeOK, PortsKnown
<1>3. ASSUME NEW k \in Key, Boot(k)
      PROVE  TypeOK' /\ PortsKnown'
  <2>1. /\ pc' \in [Worker -> PC] /\ pc'[Restorer] = "read"
        /\ \A w \in Worker : w # Restorer => pc'[w] = pc[w]
    BY <1>3, Labels, Roles DEF Boot, TypeOK
  <2>2. boots' \in 0..MaxBoots
    BY <1>3, PortForwardAssumption DEF Boot, TypeOK, PortForwardAssumption
  <2> QED  BY <1>3, <2>1, <2>2 DEF Boot, TypeOK, PortsKnown
<1>4. CASE Ends
  <2>1. /\ pc' \in [Worker -> PC] /\ id' \in [Worker -> Id]
        /\ port' \in [Worker -> Port \cup {NoPort}]
        /\ held' \in [Worker -> Child \cup {NoChild}]
        /\ ids' \in [Worker -> SUBSET Id] /\ snap' \in [Worker -> Payload]
    BY <1>4, Labels, Numbers, PayloadType DEF Ends, Reset
  <2>2. /\ forwards' \in [Id -> Forward] /\ kubectl' \in [Child -> Process]
        /\ processes' \in [Id -> Child \cup {NoChild}]
    BY <1>4, KubectlType DEF Ends, Absent, Forward, TypeOK
  <2>3. TypeOK'
    BY <1>4, <2>1, <2>2, Numbers DEF Ends, TypeOK
  <2> QED  BY <1>4, <2>3, Labels DEF Ends, Reset, PortsKnown
<1> QED  BY <1>1, <1>2, <1>3, <1>4

LEMMA TypeInit == Init => TypeOK /\ PortsKnown
<1> SUFFICES ASSUME Init PROVE TypeOK /\ PortsKnown
  OBVIOUS
<1>1. /\ pc \in [Worker -> PC] /\ id \in [Worker -> Id]
      /\ port \in [Worker -> Port \cup {NoPort}]
      /\ held \in [Worker -> Child \cup {NoChild}]
      /\ ids \in [Worker -> SUBSET Id] /\ snap \in [Worker -> Payload]
  BY Labels, Numbers, PayloadType DEF Init, Reset
<1>2. /\ forwards \in [Id -> Forward] /\ kubectl \in [Child -> Process]
      /\ processes \in [Id -> Child \cup {NoChild}] /\ file \in File
  BY PayloadType DEF Init, Absent, Forward, Free, Process, File
<1>3. faults \in 0..MaxFaults /\ boots \in 0..MaxBoots
  BY PortForwardAssumption DEF Init, PortForwardAssumption
<1>4. TypeOK
  BY <1>1, <1>2, <1>3, Numbers DEF Init, TypeOK
<1> QED  BY <1>4, Labels DEF Init, Reset, PortsKnown

LEMMA TypeStep ==
    ASSUME TypeOK, PortsKnown, [Next]_vars
    PROVE  TypeOK' /\ PortsKnown'
<1>1. CASE UNCHANGED vars
  BY <1>1 DEF vars, TypeOK, PortsKnown
<1>2. CASE Next
  BY <1>2, StartType, RequestType, EntryType, SaveType, DropType, RestoreType,
     OutsideType, Roles
  DEF Next, Step
<1> QED  BY <1>1, <1>2

-----------------------------------------------------------------------------
(* Who holds a Child, and what is left of a backend that ended.            *)

LEMMA HeldStep ==
    ASSUME TypeOK, PortsKnown, HeldWhileStarting, DownIsEmpty, [Next]_vars
    PROVE  HeldWhileStarting'
<1> USE DEF HeldWhileStarting, Starting
<1>1. ASSUME NEW w \in Worker, Spawn(w) PROVE HeldWhileStarting'
  <2>1. port[w] \in Port /\ SpawnChild(w, port[w]) /\ Goto(w, "check")
    BY <1>1 DEF Spawn, At, PortsKnown
  <2> QED  BY <2>1, SpawnChildType, GotoType, Labels, PortForwardAssumption
           DEF TypeOK, PortForwardAssumption
<1>2. ASSUME NEW w \in Worker, NEW q \in Port, CreateRequest(w, q)
      PROVE  HeldWhileStarting'
  <2>1. SpawnChild(w, q) /\ Goto(w, "check")
    BY <1>2 DEF CreateRequest
  <2> QED  BY <2>1, SpawnChildType, GotoType, Labels, PortForwardAssumption
           DEF TypeOK, PortForwardAssumption
<1>3. ASSUME NEW w \in Worker, SpawnFails(w) PROVE HeldWhileStarting'
  BY <1>3, GotoType, Labels DEF SpawnFails, At, TypeOK
<1>4. ASSUME NEW w \in Worker, Connects(w) PROVE HeldWhileStarting'
  BY <1>4, GotoType, Labels DEF Connects, At, TypeOK
<1>5. ASSUME NEW w \in Worker, CheckFails(w) \/ WaitFails(w)
      PROVE  HeldWhileStarting'
  BY <1>5, GotoType, Labels DEF CheckFails, WaitFails, At, TypeOK
<1>6. ASSUME NEW w \in Worker, NEW i \in Id, RestartRequest(w, i)
      PROVE  HeldWhileStarting'
  BY <1>6, GotoType, Labels DEF RestartRequest, At, TypeOK
<1>7. ASSUME NEW w \in Worker, RestartKill(w) PROVE HeldWhileStarting'
  BY <1>7, GotoType, Labels DEF RestartKill, At, TypeOK
<1>8. ASSUME NEW w \in Worker, NEW i \in Id, StopRequest(w, i)
      PROVE  HeldWhileStarting'
  <2>1. PICK l \in {"pause", "forget"} : Goto(w, l)
    BY <1>8 DEF StopRequest
  <2> QED  BY <1>8, <2>1, GotoType, Labels DEF StopRequest, At, TypeOK
<1>9. ASSUME NEW w \in Worker, ListRequest(w) PROVE HeldWhileStarting'
  BY <1>9, GotoType, Labels DEF ListRequest, At, TypeOK
<1>10. ASSUME NEW w \in Worker, Register(w) PROVE HeldWhileStarting'
  BY <1>10, GotoType, Labels DEF Register, At, TypeOK
<1>11. ASSUME NEW w \in Worker, Attach(w) PROVE HeldWhileStarting'
  <2>1. PICK l \in {"next", "snap"} : Goto(w, l)
    BY <1>11 DEF Attach
  <2> QED  BY <1>11, <2>1, GotoType, Labels DEF Attach, At, TypeOK
<1>12. ASSUME NEW w \in Worker, Pause(w) \/ Forget(w) PROVE HeldWhileStarting'
  BY <1>12, GotoType, Labels DEF Pause, Forget, At, TypeOK
<1>13. ASSUME NEW w \in Worker, Snap(w) \/ Truncate(w) \/ Write(w)
       PROVE  HeldWhileStarting'
  BY <1>13, GotoType, Labels DEF Snap, Truncate, Write, At, TypeOK
<1>14. ASSUME NEW w \in Worker, SaveFails(w) PROVE HeldWhileStarting'
  BY <1>14, GotoType, Labels DEF SaveFails, Saving, TypeOK
<1>15. ASSUME RestoreStep PROVE HeldWhileStarting'
  <2>1. PICK l \in {"next", "idle", "spawn", "snap"} : Goto(Restorer, l)
    BY <1>15 DEF RestoreStep, RestoreRead, RestoreReadFails, RestoreItem, RestoreStore
  <2>2. ~Starting(Restorer) /\ UNCHANGED held
    BY <1>15 DEF RestoreStep, RestoreRead, RestoreReadFails, RestoreItem, RestoreStore, At
  <2> QED  BY <2>1, <2>2, GotoType, Labels, Roles DEF TypeOK
<1>16. ASSUME NEW c \in Child, Listens(c) \/ Exits(c) PROVE HeldWhileStarting'
  BY <1>16 DEF Listens, Exits
<1>17. ASSUME NEW k \in Key, Boot(k) PROVE HeldWhileStarting'
  BY <1>17, Roles DEF Boot, DownIsEmpty, TypeOK
<1>18. CASE Ends
  BY <1>18 DEF Ends, Reset
<1>19. CASE UNCHANGED vars
  BY <1>19 DEF vars
<1>20. ASSUME NEW w \in Worker, Disconnects(w) PROVE HeldWhileStarting'
  BY <1>20, GotoType, Labels DEF Disconnects, TypeOK
<1> QED
  BY <1>1, <1>2, <1>3, <1>4, <1>5, <1>6, <1>7, <1>8, <1>9, <1>10, <1>11,
     <1>12, <1>13, <1>14, <1>15, <1>16, <1>17, <1>18, <1>19, <1>20, Roles
  DEF Next, Step

LEMMA DownStep ==
    ASSUME DownIsEmpty, [Next]_vars
    PROVE  DownIsEmpty'
<1>1. ASSUME NEW w \in Worker, Step(w) \/ WaitFails(w) \/ SaveFails(w)
      PROVE  up'
  <2>1. up
    BY <1>1 DEF Step, Spawn, SpawnFails, Connects, CheckFails, WaitFails,
       RestartKill, Register, Attach, Pause, Forget, Snap, Truncate, Write,
       SaveFails, At
  <2>2. UNCHANGED up
    BY <1>1 DEF Step, Spawn, SpawnFails, Connects, CheckFails, WaitFails,
       RestartKill, Register, Attach, Pause, Forget, Snap, Truncate, Write,
       SaveFails
  <2> QED  BY <2>1, <2>2
<1>2. ASSUME NEW w \in Worker,
             \/ \E q \in Port : CreateRequest(w, q)
             \/ \E i \in Id : RestartRequest(w, i) \/ StopRequest(w, i)
             \/ ListRequest(w)
             \/ Disconnects(w)
      PROVE  up'
  BY <1>2 DEF CreateRequest, RestartRequest, StopRequest, ListRequest,
     Disconnects, At
<1>3. ASSUME RestoreStep PROVE up'
  BY <1>3 DEF RestoreStep, RestoreRead, RestoreReadFails, RestoreItem, RestoreStore, At
<1>4. ASSUME NEW c \in Child, Listens(c) \/ Exits(c) PROVE DownIsEmpty'
  BY <1>4 DEF Listens, Exits, DownIsEmpty
<1>5. ASSUME NEW k \in Key, Boot(k) PROVE up'
  BY <1>5 DEF Boot
<1>6. CASE Ends
  BY <1>6 DEF Ends, Reset, DownIsEmpty
<1>7. CASE UNCHANGED vars
  BY <1>7 DEF vars, DownIsEmpty
<1> QED
  BY <1>1, <1>2, <1>3, <1>4, <1>5, <1>6, <1>7, Roles DEF Next, DownIsEmpty

LEMMA ReadsStep ==
    ASSUME TypeOK, ReadsFirst, DownIsEmpty, [Next]_vars
    PROVE  ReadsFirst'
<1> USE DEF ReadsFirst
<1>1. ASSUME NEW w \in Worker,
             Step(w) \/ WaitFails(w) \/ SaveFails(w) \/ Disconnects(w)
      PROVE  ReadsFirst'
  <2>1. PICK l \in PC \ {"read"} : Goto(w, l)
    BY <1>1, Labels DEF Step, Spawn, SpawnFails, Connects, CheckFails,
       WaitFails, RestartKill, Register, Attach, Pause, Forget, Snap, Truncate,
       Write, SaveFails, Disconnects
  <2>2. pc'[Restorer] = "read" => pc[Restorer] = "read" /\ w # Restorer
    BY <2>1, GotoType, Roles DEF TypeOK
  <2>3. w # Restorer => maxId' = maxId
    BY <1>1 DEF Step, Spawn, SpawnFails, Connects, CheckFails, WaitFails,
       RestartKill, Register, Attach, Pause, Forget, Snap, Truncate, Write,
       SaveFails, Disconnects
  <2> QED  BY <2>2, <2>3
<1>2. ASSUME NEW w \in Worker,
             \/ \E q \in Port : CreateRequest(w, q)
             \/ \E i \in Id : RestartRequest(w, i) \/ StopRequest(w, i)
             \/ ListRequest(w)
      PROVE  ReadsFirst'
  <2>1. PICK l \in {"check", "kill", "pause", "forget"} : Goto(w, l)
    BY <1>2 DEF CreateRequest, RestartRequest, StopRequest, ListRequest
  <2>2. UNCHANGED maxId
    BY <1>2 DEF CreateRequest, RestartRequest, StopRequest, ListRequest
  <2> QED  BY <2>1, <2>2, GotoType, Labels, Roles DEF TypeOK
<1>3. ASSUME RestoreStep PROVE ReadsFirst'
  <2>1. PICK l \in {"next", "idle", "spawn", "snap"} : Goto(Restorer, l)
    BY <1>3 DEF RestoreStep, RestoreRead, RestoreReadFails, RestoreItem, RestoreStore
  <2> QED  BY <2>1, GotoType, Labels, Roles DEF TypeOK
<1>4. ASSUME NEW c \in Child, Listens(c) \/ Exits(c) PROVE ReadsFirst'
  BY <1>4 DEF Listens, Exits
<1>5. ASSUME NEW k \in Key, Boot(k) PROVE ReadsFirst'
  BY <1>5 DEF Boot, DownIsEmpty
<1>6. CASE Ends
  BY <1>6, Roles DEF Ends, Reset
<1>7. CASE UNCHANGED vars
  BY <1>7 DEF vars
<1> QED
  BY <1>1, <1>2, <1>3, <1>4, <1>5, <1>6, <1>7, Roles DEF Next

-----------------------------------------------------------------------------
(* An entry that is listed as running has its kubectl.                     *)

LEMMA RunningStep ==
    ASSUME TypeOK, HeldWhileStarting, DownIsEmpty, RunningHasProcess, [Next]_vars
    PROVE  RunningHasProcess'
<1> USE DEF RunningHasProcess, Pending, Running
(* Steps that touch neither map nor a pending step.                        *)
<1>1. ASSUME NEW w \in Worker, NEW l \in PC, Goto(w, l),
             UNCHANGED <<forwards, processes, clobbered, ids>>,
             pc[w] \notin {"attach", "pause", "forget"},
             \A v \in Worker : v # w => id'[v] = id[v]
      PROVE  RunningHasProcess'
  BY <1>1, GotoType DEF TypeOK
<1>2. ASSUME NEW w \in Worker,
             \/ Spawn(w) \/ SpawnFails(w) \/ Connects(w) \/ CheckFails(w)
             \/ WaitFails(w) \/ \E q \in Port : CreateRequest(w, q)
      PROVE  RunningHasProcess'
  <2>1. PICK l \in PC : Goto(w, l)
    BY <1>2, Labels DEF Spawn, SpawnFails, Connects, CheckFails, WaitFails,
       CreateRequest
  <2>2. /\ UNCHANGED <<forwards, processes, clobbered, ids>>
        /\ pc[w] \notin {"attach", "pause", "forget"}
    BY <1>2 DEF Spawn, SpawnFails, Connects, CheckFails, WaitFails,
       CreateRequest, At
  <2>3. \A v \in Worker : v # w => id'[v] = id[v]
    BY <1>2 DEF Spawn, SpawnFails, Connects, CheckFails, WaitFails,
       CreateRequest, Clear, TypeOK
  <2> QED  BY <1>1, <2>1, <2>2, <2>3
<1>3. ASSUME NEW w \in Worker,
             Snap(w) \/ Truncate(w) \/ Write(w) \/ SaveFails(w)
      PROVE  RunningHasProcess'
  <2>1. PICK l \in PC : Goto(w, l)
    BY <1>3, Labels DEF Snap, Truncate, Write, SaveFails
  <2>2. /\ UNCHANGED <<forwards, processes, clobbered, ids, id>>
        /\ pc[w] \notin {"attach", "pause", "forget"}
    BY <1>3 DEF Snap, Truncate, Write, SaveFails, Saving, At
  <2> QED  BY <1>1, <2>1, <2>2
<1>4. ASSUME RestoreStep PROVE RunningHasProcess'
  <2>1. PICK l \in PC : Goto(Restorer, l)
    BY <1>4, Labels DEF RestoreStep, RestoreRead, RestoreReadFails, RestoreItem, RestoreStore
  <2>2. /\ UNCHANGED <<forwards, processes, clobbered, ids>>
        /\ pc[Restorer] \notin {"attach", "pause", "forget"}
        /\ \A v \in Worker : v # Restorer => id'[v] = id[v]
    BY <1>4 DEF RestoreStep, RestoreRead, RestoreReadFails, RestoreItem, RestoreStore, At, TypeOK
  <2> QED  BY <1>1, <2>1, <2>2, Roles
<1>5. ASSUME NEW w \in Worker, NEW i \in Id, RestartRequest(w, i)
      PROVE  RunningHasProcess'
  <2>1. /\ Goto(w, "kill") /\ pc[w] = "idle"
        /\ UNCHANGED <<forwards, processes, clobbered, ids>>
        /\ \A v \in Worker : v # w => id'[v] = id[v]
    BY <1>5 DEF RestartRequest, At, TypeOK
  <2> QED  BY <1>1, <2>1, Labels
(* A running entry whose kubectl the restart kills becomes the exception.  *)
<1>6. ASSUME NEW w \in Worker, RestartKill(w) PROVE RunningHasProcess'
  BY <1>6, GotoType, Labels DEF RestartKill, At, TypeOK
(* A stop, a delete and a list are pending for what they took.             *)
<1>7. ASSUME NEW w \in Worker, NEW i \in Id, StopRequest(w, i)
      PROVE  RunningHasProcess'
  <2>1. PICK l \in {"pause", "forget"} : Goto(w, l)
    BY <1>7 DEF StopRequest
  <2>2. /\ pc[w] = "idle" /\ UNCHANGED <<forwards, clobbered, id>>
        /\ ids'[w] = {i} /\ \A v \in Worker : v # w => ids'[v] = ids[v]
        /\ \A j \in Id : j # i => processes'[j] = processes[j]
    BY <1>7 DEF StopRequest, At, TypeOK
  <2> QED  BY <2>1, <2>2, GotoType, Labels DEF TypeOK
<1>8. ASSUME NEW w \in Worker, ListRequest(w) PROVE RunningHasProcess'
  <2> DEFINE exited == {i \in Id : Exited(processes[i])}
  <2>1. /\ pc[w] = "idle" /\ UNCHANGED <<forwards, clobbered, id>>
        /\ ids'[w] = exited /\ \A v \in Worker : v # w => ids'[v] = ids[v]
        /\ \A j \in Id : j \notin exited => processes'[j] = processes[j]
        /\ Goto(w, "pause")
    BY <1>8 DEF ListRequest, At, TypeOK
  <2> HIDE DEF exited
  <2> QED  BY <2>1, GotoType, Labels DEF TypeOK
(* The inserted entry is pending until its kubectl is inserted.            *)
<1>9. ASSUME NEW w \in Worker, Register(w) PROVE RunningHasProcess'
  <2>1. /\ Goto(w, "attach") /\ pc[w] = "register"
        /\ UNCHANGED <<processes, clobbered, ids>>
        /\ \A v \in Worker : v # w => id'[v] = id[v]
        /\ \A i \in Id : i # id'[w] => forwards'[i] = forwards[i]
    BY <1>9 DEF Register, At, TypeOK
  <2> QED  BY <2>1, GotoType, Labels DEF TypeOK
<1>10. ASSUME NEW w \in Worker, Attach(w) PROVE RunningHasProcess'
  <2>1. PICK l \in {"next", "snap"} : Goto(w, l)
    BY <1>10 DEF Attach
  <2>2. /\ pc[w] = "attach" /\ held[w] # NoChild
        /\ UNCHANGED <<forwards, ids>>
        /\ clobbered' = clobbered \ {id[w]} /\ processes'[id[w]] = held[w]
        /\ \A i \in Id : i # id[w] => processes'[i] = processes[i]
        /\ \A v \in Worker : v # w => id'[v] = id[v]
    BY <1>10 DEF Attach, At, Clear, HeldWhileStarting, Starting, TypeOK
  <2> QED  BY <2>1, <2>2, GotoType, Labels DEF TypeOK
<1>11. ASSUME NEW w \in Worker, Pause(w) \/ Forget(w) PROVE RunningHasProcess'
  <2>1. /\ Goto(w, "snap") /\ pc[w] \in {"pause", "forget"}
        /\ UNCHANGED <<processes, id>> /\ clobbered' = clobbered \ ids[w]
        /\ \A v \in Worker : v # w => ids'[v] = ids[v]
    BY <1>11 DEF Pause, Forget, At, TypeOK
  <2>2. \A i \in Id : IF i \in ids[w] THEN forwards'[i].status # "running"
                                      ELSE forwards'[i] = forwards[i]
    BY <1>11 DEF Pause, Forget, Absent, TypeOK, Forward
  <2> QED  BY <2>1, <2>2, GotoType, Labels DEF TypeOK
<1>12. ASSUME NEW c \in Child, Listens(c) \/ Exits(c) PROVE RunningHasProcess'
  BY <1>12 DEF Listens, Exits
<1>13. ASSUME NEW k \in Key, Boot(k) PROVE RunningHasProcess'
  BY <1>13 DEF Boot, DownIsEmpty, Absent
<1>14. CASE Ends
  BY <1>14 DEF Ends, Absent
<1>15. CASE UNCHANGED vars
  BY <1>15 DEF vars
(* What a dropped handler was pending for becomes the exception.           *)
<1>16. ASSUME NEW w \in Worker, Disconnects(w) PROVE RunningHasProcess'
  <2>1. /\ Goto(w, "idle") /\ UNCHANGED <<forwards, processes>>
        /\ clobbered' = clobbered \cup Unsettled(w)
        /\ \A v \in Worker : v # w => id'[v] = id[v] /\ ids'[v] = ids[v]
    BY <1>16 DEF Disconnects, Clear, TypeOK
  <2> QED  BY <2>1, GotoType, Labels DEF Unsettled, TypeOK
<1> QED
  BY <1>2, <1>3, <1>4, <1>5, <1>6, <1>7, <1>8, <1>9, <1>10, <1>11, <1>12,
     <1>13, <1>14, <1>15, <1>16, Roles
  DEF Next, Step

-----------------------------------------------------------------------------
(* A running kubectl is let go in four cases only.                         *)

LEMMA LetGoStep ==
    ASSUME TypeOK, PortsKnown, HeldWhileStarting, OwnSteps, [Next]_vars,
           NEW c \in Child, Alive(c), Kept(c), Alive(c)', ~Kept(c)'
    PROVE  Overwritten(c) \/ GivenUp(c) \/ Dropped(c) \/ ~up'
<1> USE DEF Kept
<1>1. ~UNCHANGED <<processes, held>>
  OBVIOUS
<1>2. c # NoChild
  BY PortForwardAssumption DEF PortForwardAssumption
<1>3. ASSUME NEW x, kubectl' = Killed(x) PROVE x # c
  BY <1>3, KubectlType DEF Alive, TypeOK
<1>4. ASSUME NEW w \in Worker, NEW q \in Port, SpawnChild(w, q),
             ~Starting(w), UNCHANGED processes
      PROVE  FALSE
  BY <1>2, <1>4, SpawnChildType DEF HeldWhileStarting
<1>5. ASSUME NEW w \in Worker, Spawn(w) PROVE FALSE
  <2>1. port[w] \in Port /\ SpawnChild(w, port[w]) /\ ~Starting(w)
    BY <1>5 DEF Spawn, At, PortsKnown, Starting
  <2> QED  BY <1>4, <1>5, <2>1 DEF Spawn
<1>6. ASSUME NEW w \in Worker, NEW q \in Port, CreateRequest(w, q) PROVE FALSE
  BY <1>4, <1>6 DEF CreateRequest, At, Starting
<1>7. ASSUME NEW w \in Worker, CheckFails(w) PROVE FALSE
  BY <1>3, <1>7 DEF CheckFails, TypeOK
<1>8. ASSUME NEW w \in Worker, WaitFails(w) PROVE GivenUp(c)
  BY <1>8 DEF WaitFails, At, Fault, GivenUp, TypeOK
<1>9. ASSUME NEW w \in Worker, RestartKill(w) PROVE FALSE
  BY <1>3, <1>9 DEF RestartKill, TypeOK
<1>10. ASSUME NEW w \in Worker, NEW i \in Id, StopRequest(w, i) PROVE FALSE
  BY <1>3, <1>10 DEF StopRequest, TypeOK
<1>11. ASSUME NEW w \in Worker, ListRequest(w) PROVE FALSE
  BY <1>11 DEF ListRequest, Alive, Exited, TypeOK
<1>12. ASSUME NEW w \in Worker, Attach(w) PROVE Overwritten(c)
  <2>1. PICK l \in {"next", "snap"} : Goto(w, l)
    BY <1>12 DEF Attach
  <2>2. pc[w] = "attach" /\ pc'[w] # "attach"
    BY <1>12, <2>1, GotoType, Labels DEF Attach, At, TypeOK
  <2>3. processes[id[w]] = c
    BY <1>12 DEF Attach, TypeOK
  <2> QED  BY <2>2, <2>3 DEF Overwritten
<1>13. ASSUME NEW w \in Worker,
              \/ SpawnFails(w) \/ Connects(w) \/ Register(w) \/ Pause(w)
              \/ Forget(w) \/ Snap(w) \/ Truncate(w) \/ Write(w)
              \/ SaveFails(w) \/ \E i \in Id : RestartRequest(w, i)
       PROVE  FALSE
  BY <1>1, <1>13 DEF SpawnFails, Connects, Register, Pause, Forget, Snap,
     Truncate, Write, SaveFails, RestartRequest
<1>14. ASSUME RestoreStep PROVE FALSE
  BY <1>1, <1>14 DEF RestoreStep, RestoreRead, RestoreReadFails, RestoreItem, RestoreStore
<1>15. ASSUME NEW x \in Child, Listens(x) \/ Exits(x) PROVE FALSE
  BY <1>1, <1>15 DEF Listens, Exits
<1>16. ASSUME NEW k \in Key, Boot(k) PROVE FALSE
  BY <1>1, <1>16 DEF Boot
<1>17. CASE Ends
  BY <1>17 DEF Ends
<1>18. CASE UNCHANGED vars
  BY <1>1, <1>18 DEF vars
<1>19. ASSUME NEW w \in Worker, Disconnects(w) PROVE Dropped(c)
  <2>1. held[w] = c
    BY <1>19 DEF Disconnects, TypeOK
  <2>2. Starting(w) /\ w \in Creates \cup Restarts
    BY <1>2, <1>19, <2>1, Roles
    DEF HeldWhileStarting, OwnSteps, Starter, Disconnects, Request
  <2>3. pc'[w] = "idle" /\ faults' = faults + 1
    BY <1>19, GotoType, Labels DEF Disconnects, Fault, TypeOK
  <2> QED  BY <2>1, <2>2, <2>3 DEF Dropped, Starting
<1> QED
  BY <1>5, <1>6, <1>7, <1>8, <1>9, <1>10, <1>11, <1>12, <1>13, <1>14, <1>15,
     <1>16, <1>17, <1>18, <1>19, Roles
  DEF Next, Step

-----------------------------------------------------------------------------
(* The numbers of forwards.                                                *)

LEMMA OwnStepsStep ==
    ASSUME TypeOK, OwnSteps, [Next]_vars
    PROVE  OwnSteps'
<1> USE DEF OwnSteps, Starting
<1>1. ASSUME NEW w \in Worker,
             \/ Spawn(w) \/ SpawnFails(w) \/ Connects(w) \/ CheckFails(w)
             \/ WaitFails(w)
      PROVE  OwnSteps'
  <2>1. CASE Goto(w, AfterFailure(w))
    BY <2>1, GotoType, Labels DEF AfterFailure, TypeOK
  <2>2. CASE Spawn(w) \/ Connects(w)
    BY <2>2, GotoType, Labels DEF Spawn, Connects, At, Starter, TypeOK
  <2> QED  BY <1>1, <2>1, <2>2 DEF SpawnFails, CheckFails, WaitFails
<1>2. ASSUME NEW w \in Worker, NEW q \in Port, CreateRequest(w, q)
      PROVE  OwnSteps'
  BY <1>2, GotoType, Labels DEF CreateRequest, Starter, TypeOK
<1>3. ASSUME NEW w \in Worker, NEW i \in Id, RestartRequest(w, i)
      PROVE  OwnSteps'
  BY <1>3, GotoType, Labels DEF RestartRequest, TypeOK
<1>4. ASSUME NEW w \in Worker, NEW i \in Id, StopRequest(w, i)
      PROVE  OwnSteps'
  <2>1. PICK l \in {"pause", "forget"} : Goto(w, l)
    BY <1>4 DEF StopRequest
  <2> QED  BY <1>4, <2>1, GotoType, Labels DEF StopRequest, TypeOK
<1>5. ASSUME NEW w \in Worker, ListRequest(w) PROVE OwnSteps'
  BY <1>5, GotoType, Labels DEF ListRequest, TypeOK
<1>6. ASSUME NEW w \in Worker, RestartKill(w) PROVE OwnSteps'
  BY <1>6, GotoType, Labels DEF RestartKill, At, TypeOK
<1>7. ASSUME NEW w \in Worker, Register(w) PROVE OwnSteps'
  BY <1>7, GotoType, Labels DEF Register, At, TypeOK
<1>8. ASSUME NEW w \in Worker, Attach(w) PROVE OwnSteps'
  BY <1>8, GotoType, Labels DEF Attach, TypeOK
<1>9. ASSUME NEW w \in Worker,
             \/ Pause(w) \/ Forget(w) \/ Snap(w) \/ Truncate(w) \/ Write(w)
             \/ SaveFails(w) \/ Disconnects(w)
      PROVE  OwnSteps'
  <2>1. PICK l \in {"snap", "trunc", "write", "idle"} : Goto(w, l)
    BY <1>9 DEF Pause, Forget, Snap, Truncate, Write, SaveFails,
       Disconnects
  <2> QED  BY <2>1, GotoType, Labels DEF TypeOK
<1>10. ASSUME RestoreStep PROVE OwnSteps'
  <2>1. PICK l \in {"next", "idle", "spawn", "snap"} : Goto(Restorer, l)
    BY <1>10 DEF RestoreStep, RestoreRead, RestoreReadFails, RestoreItem, RestoreStore
  <2> QED  BY <2>1, GotoType, Labels, Roles DEF TypeOK
<1>11. ASSUME NEW c \in Child, Listens(c) \/ Exits(c) PROVE OwnSteps'
  BY <1>11 DEF Listens, Exits
<1>12. ASSUME NEW k \in Key, Boot(k) PROVE OwnSteps'
  BY <1>12 DEF Boot, TypeOK
<1>13. CASE Ends
  BY <1>13 DEF Ends, Reset
<1>14. CASE UNCHANGED vars
  BY <1>14 DEF vars
<1> QED
  BY <1>1, <1>2, <1>3, <1>4, <1>5, <1>6, <1>7, <1>8, <1>9, <1>10, <1>11,
     <1>12, <1>13, <1>14, Roles
  DEF Next, Step

Using(w) == pc[w] \in {"kill", "spawn", "check", "register", "attach"}

(* Steps that hand out no number and add no entry.                         *)
LEMMA NumbersKept ==
    ASSUME NumbersBelow, TypeOK, NEW w \in Worker, NEW l \in PC, Goto(w, l),
           UNCHANGED <<nextId, maxId, early>>,
           \A i \in Id : forwards'[i] # Absent \/ processes'[i] # NoChild
              => forwards[i] # Absent \/ processes[i] # NoChild,
           \A v \in Worker : v # w => id'[v] = id[v],
           l = "attach" <=> pc[w] = "attach", id'[w] = id[w] \/ ~Using(w)',
           w = Restorer => Restoring' = Restoring /\ (Using(w)' => l # "attach"),
           w \in Restarts /\ Using(w)' => Using(w)
    PROVE  NumbersBelow'
<1>1. pc'[w] = l /\ \A v \in Worker : v # w => pc'[v] = pc[v]
  BY GotoType DEF TypeOK
<1>2. Restoring' = Restoring
  BY <1>1, Roles DEF Restoring
<1>3. \A i \in Id : InUse(i) => InUse(i)'
  BY <1>1, <1>2, Roles DEF InUse, NextNumber, Using
<1> QED  BY <1>1, <1>2, <1>3, Roles DEF NumbersBelow, Using, TypeOK

LEMMA NumbersStep ==
    ASSUME TypeOK, OwnSteps, DownIsEmpty, ReadsFirst, NumbersBelow, [Next]_vars
    PROVE  NumbersBelow'
<1> USE DEF Using
<1>1. ASSUME NEW w \in Worker,
             \/ Spawn(w) \/ SpawnFails(w) \/ Connects(w) \/ CheckFails(w)
             \/ WaitFails(w) \/ \E q \in Port : CreateRequest(w, q)
      PROVE  NumbersBelow'
  <2>1. PICK l \in {"check", "register", AfterFailure(w)} : Goto(w, l)
    BY <1>1 DEF Spawn, SpawnFails, Connects, CheckFails, WaitFails,
       CreateRequest
  <2>2. /\ UNCHANGED <<nextId, maxId, early, forwards, processes>>
        /\ \A v \in Worker : v # w => id'[v] = id[v]
        /\ id'[w] = id[w] \/ l = AfterFailure(w)
    BY <1>1, <2>1, GotoType, Labels DEF Spawn, SpawnFails, Connects, CheckFails,
       WaitFails, CreateRequest, Clear, TypeOK
  <2>3. \/ pc[w] \in {"spawn", "check"}
        \/ pc[w] = "idle" /\ w \in Creates
    BY <1>1 DEF Spawn, SpawnFails, Connects, CheckFails, WaitFails,
       CreateRequest, At
  <2>4. pc'[w] = l
    BY <2>1, GotoType, Labels DEF TypeOK
  <2>5. w = Restorer => Restoring /\ Restoring'
    BY <2>1, <2>3, <2>4, Roles DEF Restoring, AfterFailure
  <2> QED  BY <2>1, <2>2, <2>3, <2>4, <2>5, NumbersKept, Labels, Roles
           DEF AfterFailure
<1>2. ASSUME NEW w \in Worker, NEW i \in Id, RestartRequest(w, i)
      PROVE  NumbersBelow'
  <2>1. /\ Goto(w, "kill") /\ pc[w] = "idle" /\ w \in Restarts
        /\ UNCHANGED <<nextId, maxId, early, forwards, processes>>
        /\ \A v \in Worker : v # w => id'[v] = id[v]
        /\ id'[w] = i /\ forwards[i] # Absent
    BY <1>2 DEF RestartRequest, At, Absent, TypeOK
  <2>2. pc'[w] = "kill" /\ \A v \in Worker : v # w => pc'[v] = pc[v]
    BY <2>1, GotoType, Labels DEF TypeOK
  <2>3. Restoring' = Restoring /\ \A j \in Id : InUse(j) => InUse(j)'
    BY <2>1, <2>2, Roles DEF Restoring, InUse, NextNumber
  <2> QED  BY <2>1, <2>2, <2>3, Roles DEF NumbersBelow, TypeOK
<1>3. ASSUME NEW w \in Worker, RestartKill(w) PROVE NumbersBelow'
  <2>1. /\ Goto(w, "spawn") /\ pc[w] = "kill" /\ w # Restorer
        /\ UNCHANGED <<nextId, maxId, early, forwards, id>>
        /\ \A i \in Id : processes'[i] # NoChild => processes[i] # NoChild
    BY <1>3, Roles DEF RestartKill, At, OwnSteps, TypeOK
  <2> QED  BY <2>1, NumbersKept, GotoType, Labels DEF TypeOK
<1>4. ASSUME NEW w \in Worker,
             ListRequest(w) \/ \E i \in Id : StopRequest(w, i)
      PROVE  NumbersBelow'
  <2>1. PICK l \in {"pause", "forget"} : Goto(w, l)
    BY <1>4 DEF StopRequest, ListRequest
  <2>2. /\ pc[w] = "idle" /\ w \in Stops \cup Deletes \cup Lists
        /\ UNCHANGED <<nextId, maxId, early, forwards, id>>
        /\ \A i \in Id : processes'[i] # NoChild => processes[i] # NoChild
    BY <1>4 DEF StopRequest, ListRequest, At, TypeOK
  <2> QED  BY <2>1, <2>2, NumbersKept, GotoType, Labels, Roles DEF TypeOK
<1>5. ASSUME NEW w \in Worker, Pause(w) \/ Forget(w) PROVE NumbersBelow'
  <2>1. /\ Goto(w, "snap") /\ pc[w] \in {"pause", "forget"} /\ w # Restorer
        /\ UNCHANGED <<nextId, maxId, early, processes, id>>
        /\ \A i \in Id : forwards'[i] # Absent => forwards[i] # Absent
    BY <1>5, Roles DEF Pause, Forget, At, OwnSteps, TypeOK
  <2> QED  BY <2>1, NumbersKept, GotoType, Labels DEF TypeOK
<1>6. ASSUME NEW w \in Worker,
             Snap(w) \/ Truncate(w) \/ Write(w) \/ SaveFails(w)
      PROVE  NumbersBelow'
  <2>1. PICK l \in {"trunc", "write", "idle"} : Goto(w, l)
    BY <1>6 DEF Snap, Truncate, Write, SaveFails
  <2>2. /\ pc[w] \in {"snap", "trunc", "write"}
        /\ UNCHANGED <<nextId, maxId, early, forwards, processes, id>>
    BY <1>6 DEF Snap, Truncate, Write, SaveFails, Saving, At
  <2>3. pc'[w] = l
    BY <2>1, GotoType, Labels DEF TypeOK
  <2>4. w = Restorer => Restoring' = Restoring
    BY <2>1, <2>2, <2>3 DEF Restoring
  <2> QED  BY <2>1, <2>2, <2>3, <2>4, NumbersKept, Labels
(* A create takes the next number, others insert under a number in use.    *)
<1>7. ASSUME NEW w \in Worker, Register(w) PROVE NumbersBelow'
  <2> SUFFICES ASSUME ~early' PROVE NumbersBelow'
    BY DEF NumbersBelow
  <2>1. /\ Goto(w, "attach") /\ pc[w] = "register" /\ w \in Starter
        /\ UNCHANGED <<processes, maxId>> /\ ~early
        /\ \A v \in Worker : v # w => id'[v] = id[v]
        /\ \A i \in Id : i # id'[w] => forwards'[i] = forwards[i]
        /\ id'[w] \in Id
    BY <1>7 DEF Register, At, OwnSteps, Starting, TypeOK
  <2>2. pc'[w] = "attach" /\ \A v \in Worker : v # w => pc'[v] = pc[v]
    BY <2>1, GotoType, Labels DEF TypeOK
  <2>3. Restoring' = Restoring
    BY <2>1, <2>2, Roles DEF Restoring
  <2>4. nextId \in Int /\ maxId \in Int /\ \A i \in Id : i \in Int
    BY PortForwardAssumption, Numbers DEF TypeOK, PortForwardAssumption
  <2>5. CASE w \in Creates
    <3>1. nextId' = nextId + 1 /\ id'[w] = nextId /\ ~Restoring
      BY <1>7, <2>1, <2>5 DEF Register, TypeOK
    <3>2. \A i \in Id : InUse(i) => InUse(i)'
      BY <2>1, <2>2, <2>3, <2>4, <2>5, <3>1, Roles DEF InUse, NextNumber, Restoring
    <3>3. InUse(id[w])'
      BY <2>3, <2>4, <3>1 DEF InUse, NextNumber
    <3> QED  BY <2>1, <2>2, <2>3, <2>4, <2>5, <3>1, <3>2, <3>3, Roles
             DEF NumbersBelow, TypeOK
  <2>6. CASE w \in Restarts
    <3>1. UNCHANGED <<nextId, id>>
      BY <1>7, <2>6, Roles DEF Register
    <3>2. \A i \in Id : InUse(i) => InUse(i)'
      BY <2>1, <2>2, <2>3, <2>6, <3>1, Roles DEF InUse, NextNumber, Restoring
    <3>3. InUse(id[w])
      BY <2>1, <2>6 DEF NumbersBelow
    <3> QED  BY <2>1, <2>2, <2>3, <2>6, <3>1, <3>2, <3>3, Roles
             DEF NumbersBelow, TypeOK
  <2>7. CASE w = Restorer
    <3>1. UNCHANGED <<nextId, id>>
      BY <1>7, <2>7, Roles DEF Register
    <3>2. \A i \in Id : InUse(i) => InUse(i)'
      BY <2>1, <2>2, <2>3, <2>7, <3>1 DEF InUse, NextNumber
    <3>3. InUse(id[w])'
      BY <2>2, <2>7, <3>1 DEF InUse
    <3> QED  BY <2>1, <2>2, <2>3, <2>7, <3>1, <3>2, <3>3, Roles
             DEF NumbersBelow, TypeOK
  <2> QED  BY <2>1, <2>5, <2>6, <2>7 DEF Starter
<1>8. ASSUME NEW w \in Worker, Attach(w) PROVE NumbersBelow'
  <2> SUFFICES ASSUME ~early' PROVE NumbersBelow'
    BY DEF NumbersBelow
  <2>1. PICK l \in {"next", "snap"} :
           Goto(w, l) /\ (l = "next" <=> w = Restorer)
    BY <1>8 DEF Attach
  <2>2. /\ pc[w] = "attach" /\ w \in Starter
        /\ UNCHANGED <<forwards, nextId>> /\ ~early
        /\ \A v \in Worker : v # w => id'[v] = id[v]
        /\ \A i \in Id : i # id[w] => processes'[i] = processes[i]
    BY <1>8 DEF Attach, At, Clear, OwnSteps, Starting, TypeOK
  <2>3. pc'[w] = l /\ \A v \in Worker : v # w => pc'[v] = pc[v]
    BY <2>1, GotoType, Labels DEF TypeOK
  <2>4. Restoring' = Restoring
    BY <2>1, <2>2, <2>3, Roles DEF Restoring
  <2>5. nextId \in Int /\ maxId \in Int /\ id[w] \in Id /\ \A i \in Id : i \in Int
    BY PortForwardAssumption, Numbers DEF TypeOK, PortForwardAssumption
  <2>6. /\ w # Restorer => maxId' = maxId
        /\ w = Restorer => maxId' \in Int /\ maxId' >= maxId /\ id[w] < maxId'
    <3> DEFINE n == id[w] + 1
    <3>1. n \in Int /\ n > id[w]
      BY <2>5
    <3> HIDE DEF n
    <3>2. Max({maxId, n}) \in Int /\ Max({maxId, n}) >= maxId /\ Max({maxId, n}) >= n
      BY <2>5, <3>1, MaxOfTwo
    <3>3. /\ w # Restorer => maxId' = maxId
          /\ w = Restorer => maxId' = Max({maxId, n})
      BY <1>8 DEF Attach, n
    <3> QED  BY <2>5, <3>1, <3>2, <3>3
  <2>7. \A i \in Id : InUse(i) => InUse(i)'
    BY <2>2, <2>3, <2>4, <2>5, <2>6, Roles DEF InUse, NextNumber, Restoring
  <2>8. \A i \in Id : i = id[w] => InUse(i)'
    <3>1. CASE w = Restorer
      BY <2>2, <2>4, <2>6, <3>1 DEF InUse, NextNumber, Restoring
    <3>2. CASE w \in Creates
      BY <2>2, <2>4, <3>2 DEF NumbersBelow, InUse, NextNumber
    <3>3. CASE w \in Restarts
      BY <2>2, <2>5, <2>7, <3>3 DEF NumbersBelow
    <3> QED  BY <2>2, <3>1, <3>2, <3>3 DEF Starter
  <2> QED  BY <2>1, <2>2, <2>3, <2>4, <2>5, <2>7, <2>8, Roles
           DEF NumbersBelow, TypeOK
(* The restore starts with no entry and ends by moving the counter.        *)
<1>9. CASE RestoreRead
  <2>1. PICK l \in {"next", "idle"} : Goto(Restorer, l)
    BY <1>9 DEF RestoreRead
  <2>2. /\ pc[Restorer] = "read" /\ maxId = 1
        /\ UNCHANGED <<forwards, processes, nextId, early, id>>
    BY <1>9 DEF RestoreRead, At, ReadsFirst
  <2>3. \A v \in Worker : v # Restorer => pc'[v] = pc[v]
    BY <2>1, GotoType, Labels, Roles DEF TypeOK
  <2>4. \A i \in Id : ~InUse(i)
    BY <2>2, Numbers DEF InUse, NextNumber, Restoring, Id
  <2>5. early \/ \A v \in Creates : pc[v] # "attach"
    BY <2>2 DEF NumbersBelow, Restoring
  <2> QED  BY <2>2, <2>3, <2>4, <2>5, Roles DEF NumbersBelow, TypeOK
<1>10. ASSUME NEW it \in todo, RestoreItem(it) PROVE NumbersBelow'
  <2>1. /\ Goto(Restorer, "spawn") /\ pc[Restorer] = "next"
        /\ UNCHANGED <<nextId, maxId, early, forwards, processes>>
        /\ \A v \in Worker : v # Restorer => id'[v] = id[v]
    BY <1>10 DEF RestoreItem, At, TypeOK
  <2>2. pc'[Restorer] = "spawn" /\ \A v \in Worker : v # Restorer => pc'[v] = pc[v]
    BY <2>1, GotoType, Labels, Roles DEF TypeOK
  <2>3. Restoring' = Restoring /\ \A i \in Id : InUse(i) => InUse(i)'
    BY <2>1, <2>2 DEF Restoring, InUse, NextNumber
  <2> QED  BY <2>1, <2>2, <2>3, Roles DEF NumbersBelow, TypeOK
<1>11. CASE RestoreStore
  <2>1. /\ Goto(Restorer, "snap") /\ pc[Restorer] = "next" /\ nextId' = maxId
        /\ UNCHANGED <<early, forwards, processes, id>>
    BY <1>11 DEF RestoreStore, At
  <2>2. pc'[Restorer] = "snap" /\ \A v \in Worker : v # Restorer => pc'[v] = pc[v]
    BY <2>1, GotoType, Labels, Roles DEF TypeOK
  <2>3. Restoring /\ ~Restoring' /\ \A i \in Id : InUse(i) => InUse(i)'
    BY <2>1, <2>2 DEF Restoring, InUse, NextNumber
  <2> QED  BY <2>1, <2>2, <2>3, Roles DEF NumbersBelow, TypeOK
<1>12. ASSUME NEW c \in Child, Listens(c) \/ Exits(c) PROVE NumbersBelow'
  BY <1>12 DEF Listens, Exits, NumbersBelow, InUse, NextNumber, Restoring
<1>13. ASSUME NEW k \in Key, Boot(k) PROVE NumbersBelow'
  BY <1>13, Roles DEF Boot, DownIsEmpty, NumbersBelow, TypeOK
<1>14. CASE Ends
  BY <1>14, Roles DEF Ends, Reset, NumbersBelow
<1>15. CASE UNCHANGED vars
  BY <1>15 DEF vars, NumbersBelow, InUse, NextNumber, Restoring
<1>16. ASSUME NEW w \in Worker, Disconnects(w) PROVE NumbersBelow'
  <2>1. /\ Goto(w, "idle") /\ w # Restorer
        /\ UNCHANGED <<nextId, maxId, early, forwards, processes>>
        /\ \A v \in Worker : v # w => id'[v] = id[v]
    BY <1>16, Roles DEF Disconnects, Clear, Request, TypeOK
  <2>2. pc'[w] = "idle" /\ \A v \in Worker : v # w => pc'[v] = pc[v]
    BY <2>1, GotoType, Labels DEF TypeOK
  <2>3. Restoring' = Restoring /\ \A i \in Id : InUse(i) => InUse(i)'
    BY <2>1, <2>2, Roles DEF Restoring, InUse, NextNumber
  <2> QED  BY <2>1, <2>2, <2>3, Roles DEF NumbersBelow, TypeOK
<1>17. CASE RestoreReadFails
  <2>1. /\ Goto(Restorer, "idle") /\ pc[Restorer] = "read" /\ maxId = 1
        /\ UNCHANGED <<forwards, processes, nextId, early, id>>
    BY <1>17 DEF RestoreReadFails, At, ReadsFirst
  <2>2. \A v \in Worker : v # Restorer => pc'[v] = pc[v]
    BY <2>1, GotoType, Labels, Roles DEF TypeOK
  <2>3. \A i \in Id : ~InUse(i)
    BY <2>1, Numbers DEF InUse, NextNumber, Restoring, Id
  <2>4. early \/ \A v \in Creates : pc[v] # "attach"
    BY <2>1 DEF NumbersBelow, Restoring
  <2> QED  BY <2>1, <2>2, <2>3, <2>4, Roles DEF NumbersBelow, TypeOK
<1> QED
  BY <1>1, <1>2, <1>3, <1>4, <1>5, <1>6, <1>7, <1>8, <1>9, <1>10, <1>11,
     <1>12, <1>13, <1>14, <1>15, <1>16, <1>17, Roles
  DEF Next, Step, RestoreStep

(* Only Register leads from "register" to "attach".                        *)
LEMMA RegisterOnly ==
    ASSUME TypeOK, NEW w \in Worker, pc[w] = "register", pc'[w] = "attach",
           [Next]_vars
    PROVE  Register(w)
<1>1. ASSUME NEW v \in Worker, Step(v) \/ WaitFails(v) \/ SaveFails(v)
      PROVE  Register(w)
  <2>1. PICK l \in PC : Goto(v, l)
    BY <1>1, Labels DEF Step, Spawn, SpawnFails, Connects, CheckFails,
       WaitFails, RestartKill, Register, Attach, Pause, Forget, Snap, Truncate,
       Write, SaveFails
  <2>2. v = w
    BY <2>1, GotoType DEF TypeOK
  <2>3. ~Saving(w) /\ \A k \in PC \ {"register"} : ~At(w, k)
    BY DEF Saving, At
  <2>4. ~WaitFails(w) /\ ~SaveFails(w)
    BY <2>3, Labels DEF WaitFails, SaveFails
  <2> QED  BY <1>1, <2>2, <2>3, <2>4, Labels
           DEF Step, Spawn, SpawnFails, Connects, CheckFails, RestartKill,
               Attach, Pause, Forget, Snap, Truncate, Write
<1>2. ASSUME NEW v \in Worker,
             \/ \E q \in Port : CreateRequest(v, q)
             \/ \E i \in Id : RestartRequest(v, i) \/ StopRequest(v, i)
             \/ ListRequest(v)
             \/ Disconnects(v)
      PROVE  FALSE
  <2>1. PICK l \in {"check", "kill", "pause", "forget", "idle"} : Goto(v, l)
    BY <1>2 DEF CreateRequest, RestartRequest, StopRequest, ListRequest,
       Disconnects
  <2> QED  BY <2>1, GotoType, Labels DEF TypeOK
<1>3. ASSUME RestoreStep PROVE FALSE
  <2>1. PICK l \in {"next", "idle", "spawn", "snap"} : Goto(Restorer, l)
    BY <1>3 DEF RestoreStep, RestoreRead, RestoreReadFails, RestoreItem, RestoreStore
  <2> QED  BY <2>1, GotoType, Labels, Roles DEF TypeOK
<1>4. ASSUME NEW c \in Child, Listens(c) \/ Exits(c) PROVE FALSE
  BY <1>4 DEF Listens, Exits
<1>5. ASSUME NEW k \in Key, Boot(k) PROVE FALSE
  BY <1>5 DEF Boot, TypeOK
<1>6. CASE Ends
  BY <1>6 DEF Ends, Reset
<1>7. CASE UNCHANGED vars
  BY <1>7 DEF vars
<1> QED
  BY <1>1, <1>2, <1>3, <1>4, <1>5, <1>6, <1>7, Roles DEF Next

-----------------------------------------------------------------------------
(* The file names what is listed.                                          *)

(* A worker that has changed the running entries, or will, and has yet to  *)
(* put its payload together.  The restore is one from its first item on.   *)
Changing(w) == \/ pc[w] \in {"attach", "snap"}
               \/ w = Restorer /\ pc[w] \in {"next", "spawn", "check", "register"}
Dirty == \E w \in Worker : Changing(w)

(* While the last save neither overlapped another one nor failed, nor was  *)
(* dropped with its handler, nor the restore kept from reading, there is   *)
(* at most one save under way; what it will write is what is running, and  *)
(* if there is none the file holds it, unless somebody who has changed the *)
(* entries will save after it.                                             *)
OneSaver == \A v, w \in Worker : Saving(v) /\ Saving(w) => v = w
SnapCurrent == \A w \in Worker : Saving(w) => snap[w].items = Saved.items
FileCurrent == up /\ pc[Restorer] # "read" /\ (\A w \in Worker : ~Saving(w)) =>
    (file.st = "valid" /\ file.key = key => file.load.items = Saved.items)
SaveInv == ~drift => OneSaver /\ (~Dirty => SnapCurrent /\ FileCurrent)

(* What is running depends on the entries only.                            *)
LEMMA SavedItems == UNCHANGED forwards => Saved.items' = Saved.items
BY DEF Saved, Running

(* A step outside a save that leaves entries and file alone.               *)
LEMMA SaveKept ==
    ASSUME TypeOK, SaveInv, NEW w \in Worker, NEW l \in PC, Goto(w, l),
           UNCHANGED <<up, key, forwards, file, snap, drift>>,
           ~Saving(w), l \notin {"trunc", "write"}, pc[w] # "read",
           Changing(w) => Changing(w)'
    PROVE  SaveInv'
<1>1. pc'[w] = l /\ \A v \in Worker : v # w => pc'[v] = pc[v]
  BY GotoType DEF TypeOK
<1>2. \A v \in Worker : Saving(v)' <=> Saving(v)
  BY <1>1 DEF Saving
<1>3. Dirty => Dirty'
  BY <1>1 DEF Dirty, Changing
<1>4. pc[Restorer] = "read" => pc'[Restorer] = "read"
  BY <1>1, Roles
<1>5. OneSaver => OneSaver'
  BY <1>2 DEF OneSaver
<1>6. SnapCurrent => SnapCurrent'
  BY <1>2, SavedItems DEF SnapCurrent
<1>7. pc'[Restorer] = "read" \/ (FileCurrent => FileCurrent')
  BY <1>2, <1>4, SavedItems DEF FileCurrent
<1> QED  BY <1>3, <1>5, <1>6, <1>7 DEF SaveInv, FileCurrent

(* A step after which its worker has yet to save.                          *)
LEMMA SaveOwed ==
    ASSUME TypeOK, SaveInv, NEW w \in Worker, NEW l \in PC, Goto(w, l),
           UNCHANGED drift, l \notin {"trunc", "write"}, Changing(w)'
    PROVE  SaveInv'
<1>1. pc'[w] = l /\ \A v \in Worker : v # w => pc'[v] = pc[v]
  BY GotoType DEF TypeOK
<1>2. \A v \in Worker : Saving(v)' => Saving(v)
  BY <1>1 DEF Saving
<1> QED  BY <1>2 DEF SaveInv, OneSaver, Dirty

LEMMA SaveStep ==
    ASSUME TypeOK, OwnSteps, DownIsEmpty, SaveInv, [Next]_vars
    PROVE  SaveInv'
<1>1. ASSUME NEW w \in Worker,
             \/ Spawn(w) \/ SpawnFails(w) \/ Connects(w) \/ CheckFails(w)
             \/ WaitFails(w) \/ RestartKill(w) \/ ListRequest(w)
             \/ \E q \in Port : CreateRequest(w, q)
             \/ \E i \in Id : RestartRequest(w, i) \/ StopRequest(w, i)
      PROVE  SaveInv'
  <2>1. PICK l \in {"check", "register", "spawn", "kill", "pause", "forget",
                    AfterFailure(w)} : Goto(w, l)
    BY <1>1 DEF Spawn, SpawnFails, Connects, CheckFails, WaitFails,
       RestartKill, ListRequest, CreateRequest, RestartRequest, StopRequest
  <2>2. UNCHANGED <<up, key, forwards, file, snap, drift>>
    BY <1>1 DEF Spawn, SpawnFails, Connects, CheckFails, WaitFails,
       RestartKill, ListRequest, CreateRequest, RestartRequest, StopRequest
  <2>3. \/ pc[w] \in {"spawn", "check"} /\ l \in {"check", "register", AfterFailure(w)}
        \/ pc[w] = "kill" /\ w # Restorer
        \/ pc[w] = "idle"
    <3>1. CASE Spawn(w) \/ SpawnFails(w) \/ Connects(w) \/ CheckFails(w) \/ WaitFails(w)
      BY <2>1, <3>1, GotoType, Labels DEF Spawn, SpawnFails, Connects,
         CheckFails, WaitFails, At, TypeOK
    <3>2. CASE RestartKill(w)
      BY <3>2, Roles DEF RestartKill, At, OwnSteps
    <3> QED  BY <1>1, <3>1, <3>2 DEF ListRequest, CreateRequest, RestartRequest,
             StopRequest, At
  <2>4. pc'[w] = l /\ l \in PC
    BY <2>1, GotoType, Labels DEF TypeOK
  <2>5. Changing(w) => Changing(w)'
    BY <2>3, <2>4 DEF Changing, AfterFailure
  <2> QED  BY <2>1, <2>2, <2>3, <2>4, <2>5, SaveKept, Labels DEF Saving
<1>2. ASSUME NEW w \in Worker, Register(w) \/ Attach(w) \/ Pause(w) \/ Forget(w)
      PROVE  SaveInv'
  <2>1. PICK l \in {"attach", "snap", "next"} :
           Goto(w, l) /\ (l = "next" => w = Restorer)
    BY <1>2 DEF Register, Attach, Pause, Forget
  <2>2. UNCHANGED drift
    BY <1>2 DEF Register, Attach, Pause, Forget
  <2>3. Changing(w)'
    BY <2>1, GotoType, Labels DEF Changing, TypeOK
  <2> QED  BY <2>1, <2>2, <2>3, SaveOwed, Labels
<1>3. ASSUME NEW w \in Worker, Snap(w) PROVE SaveInv'
  <2>1. /\ Goto(w, "trunc") /\ snap' = [snap EXCEPT ![w] = Saved]
        /\ drift' = (\E v \in Worker \ {w} : Saving(v)) /\ UNCHANGED forwards
    BY <1>3 DEF Snap
  <2> SUFFICES ASSUME ~drift' PROVE SaveInv'
    BY DEF SaveInv
  <2>2. pc'[w] = "trunc" /\ \A v \in Worker : v # w => pc'[v] = pc[v]
    BY <2>1, GotoType, Labels DEF TypeOK
  <2>3. \A v \in Worker : Saving(v)' <=> v = w
    BY <2>1, <2>2 DEF Saving
  <2>4. snap'[w].items = Saved.items'
    BY <2>1, SavedItems DEF TypeOK
  <2> QED  BY <2>3, <2>4 DEF SaveInv, OneSaver, SnapCurrent, FileCurrent
<1>4. ASSUME NEW w \in Worker, Truncate(w) PROVE SaveInv'
  <2>1. /\ Goto(w, "write") /\ pc[w] = "trunc"
        /\ UNCHANGED <<forwards, snap, drift>>
    BY <1>4 DEF Truncate, At
  <2>2. pc'[w] = "write" /\ \A v \in Worker : v # w => pc'[v] = pc[v]
    BY <2>1, GotoType, Labels DEF TypeOK
  <2>3. \A v \in Worker : (Saving(v)' <=> Saving(v)) /\ (Changing(v)' <=> Changing(v))
    BY <2>1, <2>2 DEF Saving, Changing
  <2>4. Saving(w)'
    BY <2>2 DEF Saving
  <2> QED  BY <2>1, <2>3, <2>4, SavedItems
           DEF SaveInv, OneSaver, SnapCurrent, FileCurrent, Dirty
<1>5. ASSUME NEW w \in Worker, Write(w) PROVE SaveInv'
  <2>1. /\ Goto(w, "idle") /\ pc[w] = "write" /\ UNCHANGED <<key, forwards, drift>>
        /\ \/ file' = [st |-> "valid", key |-> key, load |-> snap[w]]
           \/ file'.st = "torn"
    BY <1>5 DEF Write, At, Broken
  <2> SUFFICES ASSUME ~drift PROVE SaveInv'
    BY <2>1 DEF SaveInv
  <2>2. pc'[w] = "idle" /\ \A v \in Worker : v # w => pc'[v] = pc[v]
    BY <2>1, GotoType, Labels DEF TypeOK
  <2>3. \A v \in Worker : ~Saving(v)' /\ (Changing(v)' <=> Changing(v))
    BY <2>1, <2>2 DEF Saving, Changing, SaveInv, OneSaver
  <2>4. Saving(w)
    BY <2>1 DEF Saving
  <2> QED  BY <2>1, <2>3, <2>4, SavedItems
           DEF SaveInv, OneSaver, SnapCurrent, FileCurrent, Dirty
<1>6. ASSUME NEW w \in Worker, SaveFails(w) PROVE SaveInv'
  BY <1>6 DEF SaveFails, SaveInv
(* A file that is not for this cluster is the only one the restore leaves. *)
<1>7. CASE RestoreRead
  <2>1. CASE file.st = "valid" /\ file.key = key
    BY <1>7, <2>1, SaveOwed, GotoType, Labels, Roles
    DEF RestoreRead, Changing, TypeOK
  <2>2. CASE ~(file.st = "valid" /\ file.key = key)
    <3>1. /\ Goto(Restorer, "idle") /\ pc[Restorer] = "read"
          /\ UNCHANGED <<key, forwards, file, snap, drift>>
      BY <1>7, <2>2 DEF RestoreRead, At
    <3>2. pc'[Restorer] = "idle" /\ \A v \in Worker : v # Restorer => pc'[v] = pc[v]
      BY <3>1, GotoType, Labels, Roles DEF TypeOK
    <3>3. \A v \in Worker : (Saving(v)' <=> Saving(v)) /\ (Changing(v)' <=> Changing(v))
      BY <3>1, <3>2 DEF Saving, Changing
    <3> QED  BY <2>2, <3>1, <3>3, SavedItems
             DEF SaveInv, OneSaver, SnapCurrent, FileCurrent, Dirty
  <2> QED  BY <2>1, <2>2
<1>8. CASE RestoreStore \/ \E it \in todo : RestoreItem(it)
  <2>1. PICK l \in {"spawn", "snap"} : Goto(Restorer, l)
    BY <1>8 DEF RestoreItem, RestoreStore
  <2>2. UNCHANGED drift
    BY <1>8 DEF RestoreItem, RestoreStore
  <2> QED  BY <2>1, <2>2, SaveOwed, GotoType, Labels, Roles DEF Changing, TypeOK
<1>9. ASSUME NEW c \in Child, Listens(c) \/ Exits(c) PROVE SaveInv'
  BY <1>9, SavedItems DEF Listens, Exits, SaveInv, OneSaver, SnapCurrent,
     FileCurrent, Dirty, Changing, Saving
<1>10. ASSUME NEW k \in Key, Boot(k) PROVE SaveInv'
  <2>1. pc'[Restorer] = "read" /\ \A v \in Worker : ~Saving(v)'
    BY <1>10, Roles DEF Boot, DownIsEmpty, Saving, TypeOK
  <2> QED  BY <2>1 DEF SaveInv, OneSaver, SnapCurrent, FileCurrent
<1>11. CASE Ends
  BY <1>11 DEF Ends, Reset, SaveInv, OneSaver, SnapCurrent, FileCurrent, Saving
<1>12. CASE UNCHANGED vars
  BY <1>12, SavedItems DEF vars, SaveInv, OneSaver, SnapCurrent, FileCurrent,
     Dirty, Changing, Saving
(* A dropped handler was not saving, or else the file is left behind.      *)
<1>13. ASSUME NEW w \in Worker, Disconnects(w) PROVE SaveInv'
  <2> SUFFICES ASSUME ~drift' PROVE SaveInv'
    BY DEF SaveInv
  <2>1. /\ Goto(w, "idle") /\ ~Unsaved(w) /\ ~drift /\ w # Restorer
        /\ pc[w] \notin {"idle", "write"}
        /\ UNCHANGED <<up, key, forwards, file>>
        /\ \A v \in Worker : v # w => snap'[v] = snap[v]
    BY <1>13, Roles DEF Disconnects, Request, TypeOK
  <2>2. pc'[w] = "idle" /\ \A v \in Worker : v # w => pc'[v] = pc[v]
    BY <2>1, GotoType, Labels DEF TypeOK
  <2>3. \A v \in Worker : (Saving(v)' <=> Saving(v)) /\ (Changing(v)' <=> Changing(v))
    BY <2>1, <2>2 DEF Saving, Changing, Unsaved
  <2>4. ~Saving(w)
    BY <2>1 DEF Saving, Unsaved
  <2>5. pc'[Restorer] = pc[Restorer]
    BY <2>1, <2>2, Roles
  <2> QED  BY <2>1, <2>3, <2>4, <2>5, SavedItems
           DEF SaveInv, OneSaver, SnapCurrent, FileCurrent, Dirty
<1>14. CASE RestoreReadFails
  BY <1>14 DEF RestoreReadFails, SaveInv
<1> QED
  BY <1>1, <1>2, <1>3, <1>4, <1>5, <1>6, <1>7, <1>8, <1>9, <1>10, <1>11,
     <1>12, <1>13, <1>14, Roles
  DEF Next, Step, RestoreStep

-----------------------------------------------------------------------------
(* A number means one port.                                                *)

(* The worker has the number i and will insert an entry with the port q.   *)
Claims(w, i, q) ==
    /\ id[w] = i /\ port[w] = q
    /\ \/ w \in Creates /\ pc[w] = "attach"
       \/ w \in Restarts /\ pc[w] \in {"kill", "spawn", "check", "register", "attach"}
       \/ w = Restorer /\ pc[w] \in {"spawn", "check", "register", "attach"}
HasPort(i, q) ==
    \/ forwards[i] # Absent /\ forwards[i].port = q
    \/ \E w \in Worker : Claims(w, i, q)
    \/ [id |-> i, port |-> q] \in todo

(* The entry of a number, whoever is about to insert one under it, and the *)
(* saved item that is to be restored as it all have the same port: a       *)
(* restart that read the entry before it was deleted brings back the port  *)
(* it had, whatever was created since.  The exception is a create that took*)
(* a number while the restore ran.                                         *)
OnePortPerNumber == ~early =>
    \A i \in Id, q, r \in Port : HasPort(i, q) /\ HasPort(i, r) => q = r

(* A payload has at most one item for a number.                            *)
Unique(items) == \A x, y \in items : x.id = y.id => x.port = y.port
PayloadsUnique == Unique(file.load.items) /\ \A w \in Worker : Unique(snap[w].items)

(* What is to be restored is there only while the restore runs.            *)
TodoInRestore == Unique(todo) /\
    (todo # {} => pc[Restorer] \in {"next", "spawn", "check", "register", "attach"})

PortInv == PayloadsUnique /\ TodoInRestore /\ OnePortPerNumber

LEMMA UniquePayloads == Unique(Nothing.items) /\ Unique(Saved.items)
BY DEF Unique, Nothing, Saved

LEMMA PayloadsStep ==
    ASSUME TypeOK, PayloadsUnique, [Next]_vars
    PROVE  PayloadsUnique'
<1> USE DEF PayloadsUnique
<1>1. ASSUME NEW w \in Worker, Snap(w) PROVE PayloadsUnique'
  <2>1. file' = file /\ snap' = [snap EXCEPT ![w] = Saved]
    BY <1>1 DEF Snap
  <2> QED  BY <2>1, UniquePayloads DEF TypeOK
<1>2. ASSUME NEW w \in Worker,
             Truncate(w) \/ Write(w) \/ SaveFails(w) \/ Disconnects(w)
      PROVE  PayloadsUnique'
  <2>1. file' = file \/ file'.load = Nothing \/ file'.load = snap[w]
    BY <1>2 DEF Truncate, Write, SaveFails, Disconnects, Broken
  <2>2. snap' = snap \/ snap' = [snap EXCEPT ![w] = Nothing]
    BY <1>2 DEF Truncate, Write, SaveFails, Disconnects
  <2>3. Unique(file'.load.items)
    BY <2>1, UniquePayloads
  <2>4. \A v \in Worker : Unique(snap'[v].items)
    BY <2>2, UniquePayloads DEF TypeOK
  <2> QED  BY <2>3, <2>4
<1>3. CASE Ends
  BY <1>3, UniquePayloads DEF Ends, Reset
<1>4. CASE UNCHANGED <<file, snap>>
  BY <1>4
<1>5. ASSUME NEW w \in Worker,
             \/ Spawn(w) \/ SpawnFails(w) \/ Connects(w) \/ CheckFails(w)
             \/ WaitFails(w) \/ RestartKill(w) \/ ListRequest(w)
             \/ Register(w) \/ Attach(w) \/ Pause(w) \/ Forget(w)
             \/ \E q \in Port : CreateRequest(w, q)
             \/ \E i \in Id : RestartRequest(w, i) \/ StopRequest(w, i)
      PROVE  UNCHANGED <<file, snap>>
  BY <1>5 DEF Spawn, SpawnFails, Connects, CheckFails, WaitFails,
     RestartKill, ListRequest, Register, Attach, Pause, Forget, CreateRequest,
     RestartRequest, StopRequest
<1>6. ASSUME \/ RestoreStep \/ UNCHANGED vars \/ \E k \in Key : Boot(k)
             \/ \E c \in Child : Listens(c) \/ Exits(c)
      PROVE  UNCHANGED <<file, snap>>
  BY <1>6 DEF RestoreStep, RestoreRead, RestoreReadFails, RestoreItem, RestoreStore, vars, Boot,
     Listens, Exits
<1> QED
  BY <1>1, <1>2, <1>3, <1>4, <1>5, <1>6, Roles DEF Next, Step

LEMMA TodoStep ==
    ASSUME TypeOK, DownIsEmpty, PayloadsUnique, TodoInRestore, [Next]_vars
    PROVE  TodoInRestore'
<1> USE DEF TodoInRestore
<1>1. ASSUME NEW w \in Worker,
             \/ Step(w) \/ WaitFails(w) \/ SaveFails(w) \/ ListRequest(w)
             \/ Disconnects(w)
             \/ \E q \in Port : CreateRequest(w, q)
             \/ \E i \in Id : RestartRequest(w, i) \/ StopRequest(w, i)
      PROVE  TodoInRestore'
  <2>1. UNCHANGED todo
    BY <1>1 DEF Step, Spawn, SpawnFails, Connects, CheckFails, WaitFails,
       RestartKill, Register, Attach, Pause, Forget, Snap, Truncate, Write,
       SaveFails, ListRequest, CreateRequest, RestartRequest, StopRequest,
       Disconnects
  <2>2. PICK l \in PC : Goto(w, l)
    BY <1>1, Labels DEF Step, Spawn, SpawnFails, Connects, CheckFails,
       WaitFails, RestartKill, Register, Attach, Pause, Forget, Snap, Truncate,
       Write, SaveFails, ListRequest, CreateRequest, RestartRequest, StopRequest,
       Disconnects
  <2>3. CASE w # Restorer
    BY <2>1, <2>2, <2>3, GotoType, Roles DEF TypeOK
  <2>4. CASE w = Restorer /\ pc[w] \in {"next", "spawn", "check", "register", "attach"}
    <3>1. Spawn(w) \/ SpawnFails(w) \/ Connects(w) \/ CheckFails(w)
             \/ WaitFails(w) \/ Register(w) \/ Attach(w)
      BY <1>1, <2>4, Roles DEF Step, RestartKill, Pause, Forget, Snap, Truncate,
         Write, SaveFails, ListRequest, CreateRequest, RestartRequest,
         StopRequest, Disconnects, Request, At, Saving
    <3>2. PICK k \in {"next", "check", "register", "attach"} : Goto(w, k)
      BY <2>4, <3>1 DEF Spawn, SpawnFails, Connects, CheckFails, WaitFails,
         Register, Attach, AfterFailure
    <3> QED  BY <2>1, <2>4, <3>2, GotoType, Labels DEF TypeOK
  <2>5. CASE w = Restorer /\ todo = {}
    BY <2>1, <2>5
  <2> QED  BY <2>3, <2>4, <2>5
<1>2. CASE RestoreRead
  <2>1. CASE file.st = "valid" /\ file.key = key
    BY <1>2, <2>1, GotoType, Labels, Roles DEF RestoreRead, PayloadsUnique, TypeOK
  <2>2. CASE ~(file.st = "valid" /\ file.key = key)
    BY <1>2, <2>2 DEF RestoreRead, At
  <2> QED  BY <2>1, <2>2
<1>3. ASSUME NEW it \in todo, RestoreItem(it) PROVE TodoInRestore'
  <2>1. todo' = todo \ {it} /\ Goto(Restorer, "spawn")
    BY <1>3 DEF RestoreItem
  <2> QED  BY <2>1, GotoType, Labels, Roles DEF Unique, TypeOK
<1>4. CASE RestoreStore
  BY <1>4 DEF RestoreStore
<1>5. ASSUME NEW c \in Child, Listens(c) \/ Exits(c) PROVE TodoInRestore'
  BY <1>5 DEF Listens, Exits
<1>6. ASSUME NEW k \in Key, Boot(k) PROVE TodoInRestore'
  <2>1. todo = {} /\ todo' = todo
    BY <1>6, Roles DEF Boot, DownIsEmpty
  <2> QED  BY <2>1
<1>7. CASE Ends
  BY <1>7 DEF Ends, Unique
<1>8. CASE UNCHANGED vars
  BY <1>8 DEF vars
<1>9. CASE RestoreReadFails
  BY <1>9 DEF RestoreReadFails, At
<1> QED
  BY <1>1, <1>2, <1>3, <1>4, <1>5, <1>6, <1>7, <1>8, <1>9, Roles
  DEF Next, RestoreStep

(* Steps after which nobody has a port that nobody had before.             *)
LEMMA PortsKept ==
    ASSUME OnePortPerNumber, early' = early,
           \A i \in Id, q \in Port : HasPort(i, q)' => HasPort(i, q)
    PROVE  OnePortPerNumber'
BY DEF OnePortPerNumber

(* A step of a worker that inserts nothing.                                *)
LEMMA ClaimKept ==
    ASSUME TypeOK, OnePortPerNumber, NEW w \in Worker, NEW l \in PC, Goto(w, l),
           UNCHANGED <<early, todo>>,
           \A i \in Id : forwards'[i] # Absent =>
              forwards[i] # Absent /\ forwards'[i].port = forwards[i].port,
           \A v \in Worker : v # w => id'[v] = id[v] /\ port'[v] = port[v],
           \A i \in Id, q \in Port : Claims(w, i, q)' => HasPort(i, q)
    PROVE  OnePortPerNumber'
<1>1. \A v \in Worker : v # w => pc'[v] = pc[v]
  BY GotoType DEF TypeOK
<1>2. \A v \in Worker, i \in Id, q \in Port : Claims(v, i, q)' => HasPort(i, q)
  BY <1>1 DEF Claims, HasPort
<1>3. \A i \in Id, q \in Port : HasPort(i, q)' => HasPort(i, q)
  BY <1>2 DEF HasPort
<1> QED  BY <1>3, PortsKept

LEMMA PortStep ==
    ASSUME TypeOK, PortsKnown, OwnSteps, DownIsEmpty, ReadsFirst, NumbersBelow,
           TodoInRestore, PayloadsUnique, OnePortPerNumber, [Next]_vars
    PROVE  OnePortPerNumber'
<1>1. ASSUME NEW w \in Worker,
             Spawn(w) \/ Connects(w) \/ RestartKill(w) \/ \E q \in Port : CreateRequest(w, q)
      PROVE  OnePortPerNumber'
  <2>1. PICK l \in {"check", "register", "spawn"} : Goto(w, l)
    BY <1>1 DEF Spawn, Connects, RestartKill, CreateRequest
  <2>2. /\ UNCHANGED <<early, todo, forwards>>
        /\ \A v \in Worker : v # w => id'[v] = id[v] /\ port'[v] = port[v]
    BY <1>1 DEF Spawn, Connects, RestartKill, CreateRequest, TypeOK
  <2>3. pc'[w] = l
    BY <2>1, GotoType, Labels DEF TypeOK
  <2>4. CASE w \in Creates
    BY <2>1, <2>2, <2>3, <2>4, ClaimKept, Labels, Roles DEF Claims
  <2>5. CASE w \notin Creates
    <3>1. /\ UNCHANGED <<id, port>> /\ pc[w] \in {"kill", "spawn", "check"}
          /\ pc[w] = "kill" => w \in Restarts
      BY <1>1, <2>5 DEF Spawn, Connects, RestartKill, CreateRequest, At, OwnSteps
    <3>2. \A i \in Id, q \in Port : Claims(w, i, q)' => Claims(w, i, q)
      BY <2>3, <2>5, <3>1, Roles DEF Claims
    <3> QED  BY <2>1, <2>2, <3>2, ClaimKept, Labels DEF HasPort
  <2> QED  BY <2>4, <2>5
<1>2. ASSUME NEW w \in Worker,
             \/ SpawnFails(w) \/ CheckFails(w) \/ WaitFails(w) \/ Attach(w)
             \/ Snap(w) \/ Truncate(w) \/ Write(w) \/ SaveFails(w)
             \/ Pause(w) \/ Forget(w) \/ ListRequest(w)
             \/ Disconnects(w) \/ \E i \in Id : StopRequest(w, i)
      PROVE  OnePortPerNumber'
  <2>1. PICK l \in {"next", "idle", "snap", "trunc", "write", "pause", "forget"} :
           Goto(w, l)
    BY <1>2 DEF SpawnFails, CheckFails, WaitFails, Attach, Snap, Truncate, Write,
       SaveFails, Pause, Forget, ListRequest, StopRequest, Disconnects,
       AfterFailure
  <2>2. /\ UNCHANGED <<early, todo>>
        /\ \A v \in Worker : v # w => id'[v] = id[v] /\ port'[v] = port[v]
    BY <1>2 DEF SpawnFails, CheckFails, WaitFails, Attach, Snap, Truncate, Write,
       SaveFails, Pause, Forget, ListRequest, StopRequest, Disconnects,
       Clear, TypeOK
  <2>3. \A i \in Id : forwards'[i] # Absent =>
           forwards[i] # Absent /\ forwards'[i].port = forwards[i].port
    <3>1. CASE Pause(w) \/ Forget(w)
      BY <3>1 DEF Pause, Forget, TypeOK, Forward
    <3> QED  BY <1>2, <3>1 DEF SpawnFails, CheckFails, WaitFails, Attach, Snap,
             Truncate, Write, SaveFails, ListRequest, StopRequest, Disconnects
  <2>4. \A i \in Id, q \in Port : ~Claims(w, i, q)'
    BY <2>1, GotoType, Labels DEF Claims, TypeOK
  <2> QED  BY <2>1, <2>2, <2>3, <2>4, ClaimKept, Labels
<1>3. ASSUME NEW w \in Worker, NEW i \in Id, RestartRequest(w, i)
      PROVE  OnePortPerNumber'
  <2>1. /\ Goto(w, "kill") /\ UNCHANGED <<early, todo, forwards>>
        /\ \A v \in Worker : v # w => id'[v] = id[v] /\ port'[v] = port[v]
        /\ id'[w] = i /\ port'[w] = forwards[i].port /\ forwards[i] # Absent
    BY <1>3 DEF RestartRequest, Absent, TypeOK
  <2>2. \A j \in Id, q \in Port : Claims(w, j, q)' => HasPort(j, q)
    BY <2>1 DEF Claims, HasPort
  <2> QED  BY <2>1, <2>2, ClaimKept, Labels
(* A create takes a number that nobody has; the others insert under a      *)
(* number and a port that they have claimed.                               *)
<1>4. ASSUME NEW w \in Worker, Register(w) PROVE OnePortPerNumber'
  <2> SUFFICES ASSUME ~early' PROVE OnePortPerNumber'
    BY DEF OnePortPerNumber
  <2>1. /\ Goto(w, "attach") /\ pc[w] = "register" /\ w \in Starter /\ ~early
        /\ UNCHANGED <<todo, port>> /\ id'[w] \in Id /\ port[w] \in Port
        /\ \A v \in Worker : v # w => id'[v] = id[v]
        /\ \A i \in Id : i # id'[w] => forwards'[i] = forwards[i]
        /\ forwards'[id'[w]] = [status |-> "running", port |-> port[w]]
    BY <1>4 DEF Register, At, OwnSteps, Starting, PortsKnown, TypeOK
  <2>2. pc'[w] = "attach" /\ \A v \in Worker : v # w => pc'[v] = pc[v]
    BY <2>1, GotoType, Labels DEF TypeOK
  <2>3. \A i \in Id, q \in Port : HasPort(i, q)' =>
           HasPort(i, q) \/ (i = id'[w] /\ q = port[w])
    BY <2>1, <2>2 DEF HasPort, Claims
  <2>4. CASE w \in Creates
    <3>1. id'[w] = nextId /\ ~Restoring /\ nextId \in Id
      BY <1>4, <2>1, <2>4 DEF Register, TypeOK
    <3>2. nextId \in Int /\ ~(nextId < nextId)
      BY <3>1, Numbers
    <3>3. ~InUse(nextId)
      BY <3>1, <3>2, Roles DEF InUse, NextNumber, Restoring
    <3>4. forwards[nextId] = Absent /\ todo = {}
      BY <2>1, <3>1, <3>3 DEF NumbersBelow, TodoInRestore, Restoring
    <3>5. \A v \in Worker, q \in Port : ~Claims(v, nextId, q)
      BY <2>1, <3>1, <3>2, <3>3 DEF Claims, NumbersBelow, Restoring
    <3>6. \A q \in Port : ~HasPort(nextId, q)
      BY <3>4, <3>5 DEF HasPort
    <3> QED  BY <2>1, <2>3, <3>1, <3>6 DEF OnePortPerNumber
  <2>5. CASE w \notin Creates
    <3>1. UNCHANGED <<id, early>>
      BY <1>4, <2>5 DEF Register
    <3>2. Claims(w, id[w], port[w])
      BY <2>1, <2>5 DEF Claims, Starter
    <3>3. \A i \in Id, q \in Port : HasPort(i, q)' => HasPort(i, q)
      BY <2>3, <3>1, <3>2 DEF HasPort
    <3> QED  BY <3>1, <3>3, PortsKept
  <2> QED  BY <2>4, <2>5
(* The restore begins when no number is in use.                            *)
<1>5. CASE RestoreRead
  <2> SUFFICES ASSUME ~early' PROVE OnePortPerNumber'
    BY DEF OnePortPerNumber
  <2>1. PICK l \in {"next", "idle"} : Goto(Restorer, l)
    BY <1>5 DEF RestoreRead
  <2>2. /\ pc[Restorer] = "read" /\ maxId = 1 /\ ~early
        /\ UNCHANGED <<forwards, id, port>>
    BY <1>5 DEF RestoreRead, At, ReadsFirst
  <2>3. /\ pc'[Restorer] \in {"next", "idle"}
        /\ \A v \in Worker : v # Restorer => pc'[v] = pc[v]
    BY <2>1, GotoType, Labels, Roles DEF TypeOK
  <2>4. \A i \in Id : ~InUse(i)
    BY <2>2, Numbers DEF InUse, NextNumber, Restoring, Id
  <2>5. \A i \in Id : forwards[i] = Absent
    BY <2>2, <2>4 DEF NumbersBelow
  <2>6. \A v \in Worker, i \in Id, q \in Port : ~Claims(v, i, q)'
    BY <2>2, <2>3, <2>4 DEF Claims, NumbersBelow, Restoring
  <2>7. Unique(todo')
    <3>1. todo' = todo \/ todo' = file.load.items
      BY <1>5 DEF RestoreRead
    <3> QED  BY <3>1 DEF TodoInRestore, PayloadsUnique
  <2> QED  BY <2>2, <2>5, <2>6, <2>7 DEF OnePortPerNumber, HasPort, Unique
<1>6. ASSUME NEW it \in todo, RestoreItem(it) PROVE OnePortPerNumber'
  <2>1. /\ Goto(Restorer, "spawn") /\ todo' = todo \ {it}
        /\ UNCHANGED <<forwards, early>>
        /\ id'[Restorer] = it.id /\ port'[Restorer] = it.port
        /\ \A v \in Worker : v # Restorer => id'[v] = id[v] /\ port'[v] = port[v]
    BY <1>6, Roles DEF RestoreItem, TypeOK
  <2>2. pc'[Restorer] = "spawn" /\ \A v \in Worker : v # Restorer => pc'[v] = pc[v]
    BY <2>1, GotoType, Labels, Roles DEF TypeOK
  <2>3. it = [id |-> it.id, port |-> it.port]
    BY <1>6 DEF TypeOK, Item
  <2>4. \A i \in Id, q \in Port : HasPort(i, q)' => HasPort(i, q)
    BY <2>1, <2>2, <2>3 DEF HasPort, Claims
  <2> QED  BY <2>1, <2>4, PortsKept
<1>7. CASE RestoreStore
  <2>1. /\ Goto(Restorer, "snap") /\ UNCHANGED <<early, todo, forwards, id, port>>
    BY <1>7 DEF RestoreStore
  <2>2. \A i \in Id, q \in Port : ~Claims(Restorer, i, q)'
    BY <2>1, GotoType, Labels, Roles DEF Claims, TypeOK
  <2> QED  BY <2>1, <2>2, ClaimKept, Labels, Roles
<1>8. ASSUME NEW c \in Child, Listens(c) \/ Exits(c) PROVE OnePortPerNumber'
  BY <1>8 DEF Listens, Exits, OnePortPerNumber, HasPort, Claims
<1>9. ASSUME NEW k \in Key, Boot(k) PROVE OnePortPerNumber'
  <2>1. /\ UNCHANGED <<forwards, todo, early, id, port>> /\ pc'[Restorer] = "read"
        /\ \A v \in Worker : pc'[v] \in {"idle", "read"}
    BY <1>9, Roles DEF Boot, DownIsEmpty, TypeOK
  <2>2. \A i \in Id, q \in Port : HasPort(i, q)' => HasPort(i, q)
    BY <2>1 DEF HasPort, Claims
  <2> QED  BY <2>1, <2>2, PortsKept
<1>10. CASE Ends
  BY <1>10 DEF Ends, Reset, Absent, OnePortPerNumber, HasPort, Claims
<1>11. CASE UNCHANGED vars
  BY <1>11 DEF vars, OnePortPerNumber, HasPort, Claims
<1>12. CASE RestoreReadFails
  <2>1. Goto(Restorer, "idle") /\ UNCHANGED <<early, todo, forwards, id, port>>
    BY <1>12 DEF RestoreReadFails
  <2>2. \A i \in Id, q \in Port : ~Claims(Restorer, i, q)'
    BY <2>1, GotoType, Labels, Roles DEF Claims, TypeOK
  <2> QED  BY <2>1, <2>2, ClaimKept, Labels, Roles
<1> QED
  BY <1>1, <1>2, <1>3, <1>4, <1>5, <1>6, <1>7, <1>8, <1>9, <1>10, <1>11,
     <1>12, Roles
  DEF Next, Step, RestoreStep

-----------------------------------------------------------------------------
(* The theorems.                                                           *)

LEMMA InvInit == Init => IInv
<1> SUFFICES ASSUME Init PROVE IInv
  OBVIOUS
<1>1. TypeOK /\ PortsKnown
  BY TypeInit
<1>2. HeldWhileStarting /\ RunningHasProcess /\ DownIsEmpty /\ ReadsFirst /\ OwnSteps
  BY Roles DEF Init, Reset, HeldWhileStarting, Starting, RunningHasProcess,
     Running, Absent, DownIsEmpty, ReadsFirst, OwnSteps
<1>3. NumbersBelow
  BY Roles DEF Init, Reset, NumbersBelow
<1> QED  BY <1>1, <1>2, <1>3 DEF IInv

LEMMA InvStep == IInv /\ [Next]_vars => IInv'
BY TypeStep, HeldStep, RunningStep, DownStep, ReadsStep, OwnStepsStep,
   NumbersStep
DEF IInv

LEMMA Inv == Spec => []IInv
BY InvInit, InvStep, PTL DEF Spec

(* Every variable of the handlers keeps to its type.                       *)
THEOREM TypeCorrect == Spec => []TypeOK
<1>1. IInv => TypeOK
  BY DEF IInv
<1> QED  BY <1>1, Inv, PTL

(* An entry that is listed as running has a kubectl, or a step that settles *)
(* it is under way, or a stale restart killed its kubectl, or the handler  *)
(* that was about to settle it was dropped.                                *)
THEOREM RunningHasProcessHolds == Spec => []RunningHasProcess
<1>1. IInv => RunningHasProcess
  BY DEF IInv
<1> QED  BY <1>1, Inv, PTL

(* A kubectl is let go while it runs only by an insertion over it, a       *)
(* try_wait that failed, the disconnect of the client whose create or      *)
(* restart had just started it, or the end of the backend.                 *)
THEOREM ChildrenAccountedForHolds == Spec => ChildrenAccountedFor
<1>1. IInv /\ [Next]_vars =>
        [\A c \in Child :
            Alive(c) /\ Kept(c) /\ Alive(c)' /\ ~Kept(c)'
                => Overwritten(c) \/ GivenUp(c) \/ Dropped(c) \/ ~up']_vars
  BY LetGoStep DEF IInv
<1> QED  BY <1>1, Inv, PTL DEF Spec, ChildrenAccountedFor

(* A create takes a number that neither an entry nor a kubectl has, unless *)
(* a create took one while the restore ran.                                *)
THEOREM IdsNotReusedHolds == Spec => IdsNotReused
<1>1. ASSUME IInv, [Next]_vars, NEW w \in Creates,
             pc[w] = "register", pc'[w] = "attach", ~early'
      PROVE  forwards[nextId] = Absent /\ processes[nextId] = NoChild
  <2>1. Register(w)
    BY <1>1, RegisterOnly, Roles DEF IInv
  <2>2. nextId \in Id /\ ~early /\ ~Restoring
    BY <1>1, <2>1 DEF Register
  <2>3. ~InUse(nextId)
    BY <2>2, Numbers DEF InUse, NextNumber, Restoring
  <2> QED  BY <1>1, <2>2, <2>3 DEF IInv, NumbersBelow
<1>2. IInv /\ [Next]_vars =>
        [\A w \in Creates :
            pc[w] = "register" /\ pc'[w] = "attach" /\ ~early'
                => forwards[nextId] = Absent /\ processes[nextId] = NoChild]_vars
  BY <1>1
<1> QED  BY <1>2, Inv, PTL DEF Spec, IdsNotReused

(* When nothing is under way the file names exactly the running entries,   *)
(* unless the last save overlapped another one or failed, a handler was    *)
(* dropped before its save, or the restore could not read the file.        *)
THEOREM FileMatchesListedHolds == Spec => []FileMatchesListed
<1>1. Init => SaveInv
  BY DEF Init, Reset, SaveInv, OneSaver, SnapCurrent, FileCurrent, Saving
<1>2. IInv /\ SaveInv /\ [Next]_vars => SaveInv'
  BY SaveStep DEF IInv
<1>3. SaveInv => FileMatchesListed
  BY Roles DEF SaveInv, FileCurrent, FileMatchesListed, Quiet, Dirty, Changing, Saving
<1> QED  BY <1>1, <1>2, <1>3, Inv, PTL DEF Spec

(* The entry of a number, who is about to insert one under it, and the item*)
(* that is to be restored as it have one port, unless a create took a      *)
(* number while the restore ran.                                           *)
THEOREM OnePortPerNumberHolds == Spec => []OnePortPerNumber
<1>1. Init => PortInv
  BY Roles, UniquePayloads DEF Init, Reset, PortInv, PayloadsUnique,
     TodoInRestore, Unique, OnePortPerNumber, HasPort, Claims, Absent
<1>2. IInv /\ PortInv /\ [Next]_vars => PortInv'
  BY PayloadsStep, TodoStep, PortStep DEF IInv, PortInv
<1>3. PortInv => OnePortPerNumber
  BY DEF PortInv
<1> QED  BY <1>1, <1>2, <1>3, Inv, PTL DEF Spec

=============================================================================
