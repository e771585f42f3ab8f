-------------------------- MODULE RealtimeListProofs --------------------------
(***************************************************************************)
(* Theorems about a resource list, for every type, every set of objects,   *)
(* watchers and polls, any history of the cluster and any number of faults *)
(* and refreshes: the list implements the safety part of LiveView, its     *)
(* rows are set back only by the fetches and the watchers that may do so,  *)
(* and whenever it is at rest it shows the cluster or is released.         *)
(***************************************************************************)
EXTENDS RealtimeList, ClusterLogProofs

-----------------------------------------------------------------------------
(* Reading the history of this list.                                       *)

(* A row taken from a list is the object as it was.                        *)
LEMMA VersionWas ==
    ASSUME NEW o, NEW r \in 0..Len(log), log \in Seq(Entry(Object))
    PROVE  /\ Version(log, o, r) \in Nat
           /\ Version(log, o, r) # 0 => Live!Was(log, o, Version(log, o, r))
<1>1. Len(log) \in Nat /\ r \in Nat
  OBVIOUS
<1>2. /\ Version(log, o, r) \in 0..r
      /\ Version(log, o, r) # 0 => WrittenLast(log, o, Version(log, o, r), r)
  BY <1>1, VersionIs
<1> QED  BY <1>1, <1>2 DEF Live!Was, WrittenLast

(* An object that was written in revision v is not listed in an older one  *)
(* by a list that has seen v.                                              *)
LEMMA VersionNotOlder ==
    ASSUME NEW o, NEW r \in 0..Len(log), log \in Seq(Entry(Object)),
           NEW v \in 1..r, Live!Was(log, o, v)
    PROVE  Version(log, o, r) = 0 \/ Version(log, o, r) >= v
<1>1. r \in Nat /\ log[v].obj = o
  BY DEF Live!Was
<1> QED  BY <1>1, VersionCatchesUp

-----------------------------------------------------------------------------
(* The inductive invariant.                                                *)

(* Every row shows an object as it was.                                    *)
Real == \A o \in Object : view[o] # 0 => Live!Was(log, o, view[o])

(* Whatever is on its way was read from the history.                       *)
ReadBefore ==
    /\ snapshot.rev <= Len(log)
    /\ \A p \in Poll : polls[p].rev <= Len(log)
    /\ \A w \in Watcher : watcher[w].rev <= Len(log)

(* Only the types with an interval poll.                                   *)
OthersDoNotPoll == Polled \/ \A p \in Poll : polls[p].state = "idle"

(* Before the first event, the answer to the first fetch is not older than *)
(* the rows that an earlier run of the effect has left.                    *)
SnapshotNotOlder ==
    Polled \/ got \/ snapshot.state # "answered"
    \/ \A o \in Object : view[o] <= snapshot.rev

IInv == TypeOK /\ Real /\ ReadBefore /\ OthersDoNotPoll /\ SnapshotNotOlder

LEMMA Records ==
    /\ Idle \in Fetch /\ Asked \in Fetch
    /\ Off \in Task /\ Started \in Task
    /\ NoRows \in [Object -> Nat] /\ NoTasks \in [Watcher -> Task]
    /\ log \in Seq(Entry(Object)) =>
          /\ Answered \in Fetch /\ LeftBehind \in Task
BY DEF Idle, Asked, Off, Started, NoRows, NoTasks, Answered, LeftBehind,
       Fetch, Task, Phase

LEMMA PresentObjects == \A h, r : PresentAt(h, Object, r) \in SUBSET Object
BY DEF PresentAt

-----------------------------------------------------------------------------
(* The invariant holds initially.                                          *)

LEMMA InitInv == ASSUME Init PROVE IInv
<1> USE RealtimeListAssumption DEF RealtimeListAssumption, Init
<1>1. log \in Seq(Entry(Object))
  BY DEF Contents
<1>2. TypeOK
  <2>1. watcher \in [Watcher -> Task] /\ snapshot \in Fetch
        /\ polls \in [Poll -> Fetch] /\ view \in [Object -> Nat]
    BY <1>1, Records
  <2>2. reruns \in 0..MaxReruns /\ faults \in 0..MaxFaults
    OBVIOUS
  <2>3. /\ resource \in Listed /\ linked \in BOOLEAN /\ companion \in BOOLEAN
        /\ loading = TRUE /\ got = FALSE /\ timer = FALSE /\ partial = FALSE
        /\ switching = "no"
    OBVIOUS
  <2> HIDE DEF Init
  <2> QED  BY <1>1, <2>1, <2>2, <2>3 DEF TypeOK
<1>3. Real
  BY DEF Real, NoRows
<1>4. ReadBefore
  <2>1. Len(log) \in Nat
    BY <1>1
  <2>2. \A w \in Watcher : watcher[w].rev \in {0, Len(log)}
    BY DEF Off, Started, LeftBehind
  <2> QED  BY <2>1, <2>2 DEF ReadBefore, Asked, Idle
<1>5. OthersDoNotPoll /\ SnapshotNotOlder
  BY DEF OthersDoNotPoll, SnapshotNotOlder, Idle, Asked
<1> QED  BY <1>2, <1>3, <1>4, <1>5 DEF IInv

-----------------------------------------------------------------------------
(* The parts of a step.                                                    *)

(* History only grows.                                                     *)
LEMMA LogGrows ==
    ASSUME TypeOK, [Next]_vars
    PROVE  log' \in Seq(Entry(Object)) /\ Live!Extends(log, log')
<1> USE DEF TypeOK
<1>1. ASSUME NEW g \in Seq(Entry(Object)), log' = log \o g
      PROVE  log' \in Seq(Entry(Object)) /\ Live!Extends(log, log')
  BY <1>1 DEF Live!Extends
<1>2. CASE UNCHANGED log
  BY <1>2 DEF Live!Extends
<1>3. CASE Change
  <2>1. PICK e \in Entry(Object) : log' = Append(log, e)
    BY <1>3, ChangedIs DEF Change
  <2> QED  BY <2>1 DEF Live!Extends
<1>4. CASE BackendReplaced
  <2>1. PICK g \in Dropped :
          log' = log \o [i \in DOMAIN g |-> [obj |-> g[i], present |-> FALSE]]
    BY <1>4 DEF BackendReplaced
  <2> DEFINE e == [i \in DOMAIN g |-> [obj |-> g[i], present |-> FALSE]]
  <2>2. PICK n \in 0..Len(log) : g \in [1..n -> Present]
    BY <2>1 DEF Dropped
  <2>3. e \in [1..n -> Entry(Object)]
    BY <2>2 DEF Present, PresentAt, Entry
  <2>4. n \in Nat
    OBVIOUS
  <2>5. e \in Seq(Entry(Object))
    BY <2>3, <2>4
  <2> QED  BY <1>1, <2>1, <2>5
<1>5. CASE UNCHANGED vars
  BY <1>2, <1>5 DEF vars
<1>6. CASE Next
  BY <1>2, <1>3, <1>4, <1>6
  DEF Next, WatcherStep, Subscribed, ListAnswers, StreamOpens, EventArrives,
      ItemArrives, ListFails, StreamFails, SocketLost, SocketOpens,
      SnapshotAnswered, SnapshotArrives, SnapshotFails, EmptyTimerFires,
      PollStarts, PollAnswered, PollArrives, PollFails, Refresh, ClusterSwitched
<1> QED  BY <1>5, <1>6

(* The parts of the invariant that do not speak of the shown rows' source. *)
Rest == TypeOK /\ ReadBefore /\ OthersDoNotPoll /\ SnapshotNotOlder

(* A step leaves a row, takes it away, or shows the object as it was.      *)
Sound(o) == view'[o] \in {0, view[o]} \/ Live!Was(log, o, view'[o])

(* A watcher goes on with something that was read from the history.        *)
LEMMA BecomesRest ==
    ASSUME IInv, NEW w \in Watcher, NEW t \in Task, Becomes(w, t), t.rev <= Len(log)
    PROVE  /\ watcher' \in [Watcher -> Task]
           /\ \A u \in Watcher : watcher'[u].rev <= Len(log)
BY DEF Becomes, IInv, TypeOK, ReadBefore

(* What a step that hears an event leaves of the invariant.                *)
LEMMA HeardRest ==
    ASSUME IInv, Heard, view' \in [Object -> Nat],
           UNCHANGED <<log, resource, snapshot, polls, linked, companion,
                       partial, switching, reruns, faults>>,
           watcher' \in [Watcher -> Task],
           \A u \in Watcher : watcher'[u].rev <= Len(log)
    PROVE  Rest'
<1>1. TypeOK'
  BY DEF IInv, TypeOK, Heard
<1>2. ReadBefore' /\ OthersDoNotPoll' /\ SnapshotNotOlder'
  BY DEF IInv, ReadBefore, OthersDoNotPoll, SnapshotNotOlder, Heard, Polled, Custom
<1> QED  BY <1>1, <1>2 DEF Rest

LEMMA WatcherRest ==
    ASSUME IInv, NEW w \in Watcher, WatcherStep(w)
    PROVE  Rest' /\ \A o \in Object : Sound(o)
<1> USE DEF IInv
<1>0. watcher[w] \in Task /\ Len(log) \in Nat /\ watcher[w].rev \in 0..Len(log)
  BY DEF TypeOK, ReadBefore, Task
<1>1. CASE Subscribed(w)
  <2>1. [watcher[w] EXCEPT !.phase = "list"] \in Task
    BY <1>0 DEF Task, Phase
  <2>2. /\ watcher' \in [Watcher -> Task]
        /\ \A u \in Watcher : watcher'[u].rev <= Len(log)
    BY <1>0, <1>1, <2>1, BecomesRest DEF Subscribed, Task
  <2> QED  BY <1>1, <2>2 DEF Subscribed, Rest, Sound, TypeOK, ReadBefore,
               OthersDoNotPoll, SnapshotNotOlder, Polled, Custom
<1>2. CASE ListAnswers(w) \/ StreamOpens(w)
  <2>1. PICK p \in Phase : Becomes(w, [phase |-> p, rev |-> Len(log), todo |-> Present])
    BY <1>2 DEF ListAnswers, StreamOpens, Phase
  <2>2. [phase |-> p, rev |-> Len(log), todo |-> Present] \in Task
    BY <1>0, PresentObjects DEF Task, Present
  <2>3. /\ watcher' \in [Watcher -> Task]
        /\ \A u \in Watcher : watcher'[u].rev <= Len(log)
    BY <1>0, <2>1, <2>2, BecomesRest
  <2> QED  BY <1>2, <2>3 DEF ListAnswers, StreamOpens, Rest, Sound, TypeOK, data,
               ReadBefore, OthersDoNotPoll, SnapshotNotOlder, Polled, Custom
<1>3. CASE EventArrives(w)
  <2> DEFINE r == watcher[w].rev + 1
  <2>0. r \in 1..Len(log) /\ r \in Nat
    BY <1>0, <1>3 DEF EventArrives
  <2>1. [watcher[w] EXCEPT !.rev = r] \in Task
    BY <1>0, <2>0 DEF Task
  <2>2. Becomes(w, [watcher[w] EXCEPT !.rev = r])
    BY <1>3 DEF EventArrives
  <2>3. /\ watcher' \in [Watcher -> Task]
        /\ \A u \in Watcher : watcher'[u].rev <= Len(log)
    BY <1>0, <2>0, <2>1, <2>2, BecomesRest DEF Task
  <2>4. log[r] \in Entry(Object)
    BY <2>0 DEF TypeOK
  <2>5. Heard /\ view' \in [Object -> Nat] /\ \A o \in Object : Sound(o)
    <3>1. CASE log[r].present
      <4>1. Heard /\ view' = [view EXCEPT ![log[r].obj] = r]
        BY <1>3, <3>1 DEF EventArrives, Upsert
      <4>2. Live!Was(log, log[r].obj, r)
        BY <2>0, <2>4, <3>1 DEF Live!Was, Entry
      <4> QED  BY <2>0, <4>1, <4>2 DEF Sound, TypeOK
    <3>2. CASE ~log[r].present
      <4>1. Heard /\ view' \in {view, [view EXCEPT ![log[r].obj] = 0]}
        BY <1>3, <3>2 DEF EventArrives, Remove
      <4> QED  BY <4>1 DEF Sound, TypeOK
    <3> QED  BY <3>1, <3>2
  <2> QED  BY <1>3, <2>3, <2>5, HeardRest DEF EventArrives
<1>4. ASSUME NEW x \in Object, ItemArrives(w, x)
      PROVE  Rest' /\ \A o \in Object : Sound(o)
  <2>1. [watcher[w] EXCEPT !.todo = @ \ {x}] \in Task
    BY <1>0 DEF Task
  <2>2. /\ watcher' \in [Watcher -> Task]
        /\ \A u \in Watcher : watcher'[u].rev <= Len(log)
    BY <1>0, <1>4, <2>1, BecomesRest DEF ItemArrives, Task
  <2> DEFINE v == Version(log, x, watcher[w].rev)
  <2>3. v \in Nat /\ (v # 0 => Live!Was(log, x, v))
    BY <1>0, VersionWas DEF TypeOK
  <2>4. Heard /\ view' = [view EXCEPT ![x] = v]
    BY <1>4 DEF ItemArrives, Upsert
  <2> HIDE DEF v
  <2>5. view' \in [Object -> Nat] /\ \A o \in Object : Sound(o)
    BY <2>3, <2>4 DEF Sound, TypeOK
  <2> QED  BY <1>4, <2>2, <2>4, <2>5, HeardRest DEF ItemArrives
<1> QED  BY <1>1, <1>2, <1>3, <1>4 DEF WatcherStep

(* Faults of the watchers and of the socket, and the socket that opens.    *)
LEMMA LinkRest ==
    ASSUME IInv,
           \/ \E w \in Watcher : ListFails(w) \/ StreamFails(w)
           \/ SocketLost \/ SocketOpens
    PROVE  Rest' /\ \A o \in Object : Sound(o)
<1> USE RealtimeListAssumption DEF IInv, RealtimeListAssumption
<1>0. Len(log) \in Nat
  BY DEF TypeOK
<1>1. /\ watcher' \in [Watcher -> Task]
      /\ \A u \in Watcher : watcher'[u].rev <= Len(log)
  <2>1. ASSUME NEW w \in Watcher, ListFails(w) \/ StreamFails(w)
        PROVE  \E p \in Phase : Becomes(w, [Off EXCEPT !.phase = p])
    BY <2>1 DEF ListFails, StreamFails, Phase
  <2>2. ASSUME NEW p \in Phase
        PROVE  /\ [Off EXCEPT !.phase = p] \in Task
               /\ [Off EXCEPT !.phase = p].rev <= Len(log)
    BY <1>0 DEF Off, Task
  <2>3. Started \in Task /\ Started.rev <= Len(log)
    BY <1>0, Records DEF Started
  <2>4. CASE SocketLost
    BY <1>0, <2>4, Records DEF SocketLost, NoTasks, Off
  <2>5. CASE SocketOpens
    BY <2>3, <2>5, BecomesRest DEF SocketOpens
  <2>6. CASE \E w \in Watcher : ListFails(w) \/ StreamFails(w)
    BY <2>1, <2>2, <2>6, BecomesRest
  <2> QED  BY <2>4, <2>5, <2>6
<1>2. /\ UNCHANGED <<log, resource, data, snapshot, polls, companion, partial,
                     switching, reruns>>
      /\ linked' \in BOOLEAN /\ faults' \in 0..MaxFaults
  <2>1. CASE \E w \in Watcher : ListFails(w) \/ StreamFails(w)
    <3>1. Fault /\ UNCHANGED <<log, resource, data, snapshot, polls, companion,
                               partial, switching, reruns, linked>>
      BY <2>1 DEF ListFails, StreamFails
    <3> QED  BY <3>1 DEF Fault, TypeOK
  <2>2. CASE SocketLost
    <3>1. Fault /\ linked' = FALSE
          /\ UNCHANGED <<log, resource, data, snapshot, polls, companion,
                         partial, switching, reruns>>
      BY <2>2 DEF SocketLost
    <3>2. faults' \in 0..MaxFaults
      BY <3>1 DEF Fault, TypeOK
    <3> QED  BY <3>1, <3>2
  <2>3. CASE SocketOpens
    BY <2>3 DEF SocketOpens, TypeOK
  <2> QED  BY <2>1, <2>2, <2>3
<1>3. TypeOK'
  BY <1>1, <1>2 DEF TypeOK, data
<1>4. ReadBefore'
  BY <1>1, <1>2 DEF ReadBefore
<1>5. OthersDoNotPoll' /\ SnapshotNotOlder' /\ \A o \in Object : Sound(o)
  BY <1>2 DEF data, OthersDoNotPoll, SnapshotNotOlder, Polled, Custom, Sound
<1> QED  BY <1>3, <1>4, <1>5 DEF Rest

(* The rows of a list that was answered before.                            *)
LEMMA ListedRows ==
    ASSUME IInv, NEW r \in 0..Len(log), view' = ListAt(log, Object, r)
    PROVE  view' \in [Object -> Nat] /\ \A o \in Object : Sound(o)
<1>1. \A o \in Object : /\ view'[o] = Version(log, o, r)
                        /\ view'[o] \in Nat
                        /\ view'[o] # 0 => Live!Was(log, o, view'[o])
  BY VersionWas DEF IInv, TypeOK, ListAt
<1> QED  BY <1>1 DEF Sound, ListAt

LEMMA FetchRest ==
    ASSUME IInv,
           \/ SnapshotAnswered \/ SnapshotArrives \/ SnapshotFails
           \/ EmptyTimerFires
           \/ \E p \in Poll : \/ PollStarts(p) \/ PollAnswered(p)
                              \/ PollArrives(p) \/ PollFails(p)
    PROVE  Rest' /\ \A o \in Object : Sound(o)
<1> USE RealtimeListAssumption DEF IInv, RealtimeListAssumption
<1>0. /\ Len(log) \in Nat /\ snapshot \in Fetch /\ snapshot.rev \in 0..Len(log)
      /\ \A p \in Poll : polls[p] \in Fetch /\ polls[p].rev \in 0..Len(log)
      /\ Answered \in Fetch /\ Answered.rev = Len(log) /\ Answered.state = "answered"
      /\ Idle \in Fetch /\ Idle.rev = 0 /\ Idle.state = "idle"
      /\ Asked \in Fetch /\ Asked.rev = 0
  BY Records DEF TypeOK, ReadBefore, Fetch, Answered, Idle, Asked
<1>1. CASE SnapshotAnswered
  <2>0. view \in [Object -> Nat]
    BY DEF TypeOK
  <2>1. \A o \in Object : view[o] <= Len(log)
    <3>1. ASSUME NEW o \in Object PROVE view[o] <= Len(log)
      <4>1. view[o] = 0 \/ view[o] \in 1..Len(log)
        BY DEF Real, Live!Was
      <4> QED  BY <1>0, <2>0, <4>1
    <3> QED  BY <3>1
  <2> QED  BY <1>0, <1>1, <2>1 DEF SnapshotAnswered, Rest, Sound, TypeOK, data,
               ReadBefore, OthersDoNotPoll, SnapshotNotOlder, Polled, Custom
<1>2. CASE SnapshotArrives
  <2>1. view' \in [Object -> Nat] /\ \A o \in Object : Sound(o)
    BY <1>0, <1>2, ListedRows DEF SnapshotArrives, Sound, TypeOK
  <2>2. TypeOK'
    BY <1>0, <1>2, <2>1 DEF SnapshotArrives, TypeOK
  <2>3. ReadBefore' /\ OthersDoNotPoll' /\ SnapshotNotOlder'
    BY <1>0, <1>2 DEF SnapshotArrives, ReadBefore, OthersDoNotPoll,
                      SnapshotNotOlder, Polled, Custom
  <2> QED  BY <2>1, <2>2, <2>3 DEF Rest
<1>3. CASE SnapshotFails
  <2>1. faults' \in 0..MaxFaults
    BY <1>3 DEF SnapshotFails, Fault, TypeOK
  <2> QED  BY <1>0, <1>3, <2>1 DEF SnapshotFails, Rest, Sound, TypeOK, data,
               ReadBefore, OthersDoNotPoll, SnapshotNotOlder, Polled, Custom
<1>4. CASE EmptyTimerFires
  BY <1>0, <1>4 DEF EmptyTimerFires, Rest, Sound, TypeOK,
     ReadBefore, OthersDoNotPoll, SnapshotNotOlder, Polled, Custom
<1>5. ASSUME NEW p \in Poll, PollStarts(p)
      PROVE  Rest' /\ \A o \in Object : Sound(o)
  <2>1. Polled
    BY <1>5 DEF PollStarts
  <2> QED  BY <1>0, <1>5, <2>1 DEF PollStarts, Rest, Sound, TypeOK, data,
               ReadBefore, OthersDoNotPoll, SnapshotNotOlder, Polled, Custom
<1>6. ASSUME NEW p \in Poll, PollAnswered(p)
      PROVE  Rest' /\ \A o \in Object : Sound(o)
  <2>1. Polled
    BY <1>6 DEF PollAnswered, OthersDoNotPoll
  <2> QED  BY <1>0, <1>6, <2>1 DEF PollAnswered, Rest, Sound, TypeOK, data,
               ReadBefore, OthersDoNotPoll, SnapshotNotOlder, Polled, Custom
<1>7. ASSUME NEW p \in Poll, PollFails(p)
      PROVE  Rest' /\ \A o \in Object : Sound(o)
  <2>1. Polled /\ faults' \in 0..MaxFaults
    BY <1>7 DEF PollFails, OthersDoNotPoll, Fault, TypeOK
  <2> QED  BY <1>0, <1>7, <2>1 DEF PollFails, Rest, Sound, TypeOK, data,
               ReadBefore, OthersDoNotPoll, SnapshotNotOlder, Polled, Custom
<1>8. ASSUME NEW p \in Poll, PollArrives(p)
      PROVE  Rest' /\ \A o \in Object : Sound(o)
  <2>1. Polled /\ UNCHANGED resource
    BY <1>8 DEF PollArrives, OthersDoNotPoll
  <2>2. view' \in [Object -> Nat] /\ \A o \in Object : Sound(o)
    BY <1>0, <1>8, ListedRows DEF PollArrives
  <2>3. TypeOK'
    BY <1>0, <1>8, <2>2 DEF PollArrives, TypeOK
  <2>4. ReadBefore'
    BY <1>0, <1>8 DEF PollArrives, ReadBefore, TypeOK
  <2> QED  BY <2>1, <2>2, <2>3, <2>4
           DEF Rest, OthersDoNotPoll, SnapshotNotOlder, Polled, Custom
<1> QED  BY <1>1, <1>2, <1>3, <1>4, <1>5, <1>6, <1>7, <1>8

(* A new run of the effect, with the rows of the last one or none.         *)
LEMMA RerunRest ==
    ASSUME IInv, Refresh \/ ClusterSwitched
    PROVE  Rest' /\ \A o \in Object : Sound(o)
<1> USE DEF IInv
<1>0. Len(log) \in Nat
  BY DEF TypeOK
<1>1. /\ view' = NoRows \/ view' = view
      /\ loading' = TRUE /\ got' = FALSE /\ timer' = FALSE /\ partial' = FALSE
      /\ snapshot' = Asked /\ polls' = [p \in Poll |-> Idle]
      /\ linked' = FALSE /\ watcher' = NoTasks
      /\ UNCHANGED <<log, resource, companion, faults>>
  BY DEF Refresh, ClusterSwitched, Rerun
<1>2. reruns' \in 0..MaxReruns /\ switching' \in {"no", "announced", "done"}
  BY RealtimeListAssumption
  DEF Refresh, ClusterSwitched, TypeOK, RealtimeListAssumption
<1>3. view' \in [Object -> Nat] /\ \A o \in Object : Sound(o)
  BY <1>1, Records DEF TypeOK, Sound, NoRows
<1>4. TypeOK'
  BY <1>1, <1>2, <1>3, Records DEF TypeOK
<1>5. ReadBefore'
  BY <1>0, <1>1 DEF ReadBefore, NoTasks, Off, Asked, Idle
<1>6. OthersDoNotPoll' /\ SnapshotNotOlder'
  BY <1>1 DEF OthersDoNotPoll, SnapshotNotOlder, Idle, Asked
<1> QED  BY <1>3, <1>4, <1>5, <1>6 DEF Rest

(* The cluster changes, or another one takes its place.                    *)
LEMMA ClusterRest ==
    ASSUME IInv, Change \/ BackendReplaced
    PROVE  Rest' /\ \A o \in Object : Sound(o)
<1> USE DEF IInv
<1>1. log' \in Seq(Entry(Object)) /\ Len(log') >= Len(log)
      /\ Len(log) \in Nat /\ Len(log') \in Nat
  BY LogGrows DEF Next, Live!Extends, TypeOK
<1>2. /\ UNCHANGED <<resource, data, snapshot, polls, companion, partial,
                     reruns, faults>>
      /\ linked' \in {linked, FALSE} /\ watcher' \in {watcher, NoTasks}
      /\ switching' \in {switching, "done"}
  BY DEF Change, BackendReplaced
<1>3. TypeOK'
  BY <1>1, <1>2, Records DEF TypeOK, data
<1>4. ReadBefore'
  <2>1. \A w \in Watcher : watcher'[w].rev \in {watcher[w].rev, 0}
    BY <1>2 DEF NoTasks, Off
  <2>2. \A w \in Watcher : watcher[w].rev \in Nat /\ watcher[w].rev <= Len(log)
    BY DEF TypeOK, Task, ReadBefore
  <2>3. /\ \A w \in Watcher : watcher'[w].rev <= Len(log')
    BY <1>1, <2>1, <2>2
  <2>4. /\ snapshot.rev \in Nat /\ snapshot.rev <= Len(log)
        /\ \A p \in Poll : polls[p].rev \in Nat /\ polls[p].rev <= Len(log)
    BY DEF TypeOK, Fetch, ReadBefore
  <2> QED  BY <1>1, <1>2, <2>3, <2>4 DEF ReadBefore
<1>5. OthersDoNotPoll' /\ SnapshotNotOlder' /\ \A o \in Object : Sound(o)
  BY <1>2 DEF data, OthersDoNotPoll, SnapshotNotOlder, Polled, Custom, Sound
<1> QED  BY <1>3, <1>4, <1>5 DEF Rest

-----------------------------------------------------------------------------
(* Every step preserves the invariant, and is a step of LiveView.          *)

LEMMA StepInv ==
    ASSUME IInv, [Next]_vars
    PROVE  IInv' /\ view' \in [Object -> Nat]
           /\ \A o \in Object : view'[o] # 0 => Live!Was(log', o, view'[o])
<1>1. Rest' /\ \A o \in Object : Sound(o)
  <2>1. CASE UNCHANGED vars
    BY <2>1 DEF vars, data, IInv, Rest, Sound, TypeOK, ReadBefore,
                OthersDoNotPoll, SnapshotNotOlder, Polled, Custom
  <2>2. CASE Next
    <3>1. ASSUME NEW w \in Watcher, WatcherStep(w)
          PROVE  Rest' /\ \A o \in Object : Sound(o)
      BY <3>1, WatcherRest
    <3> QED  BY <2>2, <3>1, LinkRest, FetchRest, RerunRest, ClusterRest DEF Next
  <2> QED  BY <2>1, <2>2
<1>2. /\ log' \in Seq(Entry(Object)) /\ Live!Extends(log, log')
      /\ log \in Seq(Entry(Object))
  BY LogGrows DEF IInv, TypeOK
<1>3. ASSUME NEW o \in Object, NEW v, Live!Was(log, o, v)
      PROVE  Live!Was(log', o, v)
  <2>1. v \in 1..Len(log) /\ v \in 1..Len(log')
    BY <1>2, <1>3 DEF Live!Was, Live!Extends
  <2> QED  BY <1>2, <1>3, <2>1 DEF Live!Was, Live!Extends
<1>4. ASSUME NEW o \in Object, view'[o] # 0
      PROVE  Live!Was(log', o, view'[o])
  <2>1. Live!Was(log, o, view'[o])
    BY <1>1, <1>4 DEF Sound, IInv, Real
  <2> QED  BY <1>3, <2>1
<1>5. Real'
  BY <1>4 DEF Real
<1> QED  BY <1>1, <1>4, <1>5 DEF IInv, Rest, TypeOK

(* Every variable keeps its type.                                          *)
THEOREM TypeCorrect == Spec => []TypeOK
<1>1. Init => IInv
  BY InitInv
<1>2. IInv /\ [Next]_vars => IInv'
  BY StepInv
<1>3. IInv => TypeOK
  BY DEF IInv
<1> QED  BY <1>1, <1>2, <1>3, PTL DEF Spec

(* The list implements the safety part of LiveView: it starts empty, and   *)
(* whatever arrives, in whatever order, every row shows an object as it    *)
(* was at some revision of the cluster.                                    *)
THEOREM ListIsFaithfulView == Spec => Live!Safety
<1>1. ASSUME Init PROVE IInv /\ Live!Init
  <2>1. IInv
    BY <1>1, InitInv
  <2>2. log \in Seq(Entry(Object)) /\ view = [o \in Object |-> 0]
    BY <1>1, <2>1 DEF IInv, TypeOK, Init, NoRows
  <2>3. Lossy \in BOOLEAN
    BY DEF Lossy
  <2> QED  BY <2>1, <2>2, <2>3 DEF Live!Init, Live!Entry, Entry
<1>2. IInv /\ [Next]_vars => IInv' /\ [Live!Next]_(Live!vars)
  BY StepInv, LogGrows DEF IInv, Live!Next
<1> QED  BY <1>1, <1>2, PTL DEF Spec, Live!Safety

-----------------------------------------------------------------------------
(* The spinner.                                                            *)

(* A run of the effect that has heard an event shows no spinner, and one   *)
(* that is linked without a companion has subscribed: it waits for the     *)
(* answer, or has had it, which started the timer.                         *)
HeardIsLoaded == got => ~loading
Answerable    == linked /\ ~companion /\ loading =>
                     watcher[Ours].phase = "ack" \/ timer
CompanionOwes == companion /\ loading => partial \/ snapshot.state # "idle"
SpinnerInv    == TypeOK /\ HeardIsLoaded /\ Answerable /\ CompanionOwes

LEMMA SpinnerStep ==
    ASSUME SpinnerInv, [Next]_vars, TypeOK'
    PROVE  HeardIsLoaded' /\ Answerable' /\ CompanionOwes'
<1> USE DEF SpinnerInv, HeardIsLoaded, Answerable, CompanionOwes
<1>0. Ours \in Watcher /\ watcher \in [Watcher -> Task]
  BY RealtimeListAssumption DEF RealtimeListAssumption, TypeOK
<1>1. CASE UNCHANGED <<loading, got, timer, snapshot, linked, watcher,
                       companion, partial>>
  BY <1>1
<1>2. ASSUME NEW w \in Watcher,
             Subscribed(w) \/ ListAnswers(w) \/ StreamOpens(w)
             \/ ListFails(w) \/ StreamFails(w)
      PROVE  HeardIsLoaded' /\ Answerable' /\ CompanionOwes'
  <2>1. UNCHANGED <<loading, got, snapshot, linked, companion, partial>>
    BY <1>2 DEF Subscribed, ListAnswers, StreamOpens, ListFails, StreamFails, data
  <2>2. CASE Subscribed(w)
    BY <2>1, <2>2 DEF Subscribed
  <2>3. CASE ~Subscribed(w)
    <3>1. /\ \E t : Becomes(w, t)
          /\ watcher[w].phase # "ack" /\ timer' = timer
      BY <1>2, <2>3
      DEF ListAnswers, StreamOpens, ListFails, StreamFails, Streaming, data
    <3>2. watcher[Ours].phase = "ack" => watcher'[Ours] = watcher[Ours]
      BY <1>0, <3>1 DEF Becomes
    <3> QED  BY <2>1, <3>1, <3>2
  <2> QED  BY <2>2, <2>3
<1>3. ASSUME NEW w \in Watcher,
             EventArrives(w) \/ \E o \in Object : ItemArrives(w, o)
      PROVE  HeardIsLoaded' /\ Answerable' /\ CompanionOwes'
  <2>1. loading' = FALSE
    BY <1>3 DEF EventArrives, ItemArrives, Upsert, Remove, Heard
  <2> QED  BY <2>1
<1>4. CASE SocketLost \/ SocketOpens
  <2>1. UNCHANGED <<loading, got, timer, snapshot, companion, partial>>
    BY <1>4 DEF SocketLost, SocketOpens, data
  <2>2. linked' => watcher'[Ours].phase = "ack"
    BY <1>0, <1>4 DEF SocketLost, SocketOpens, Becomes, Started
  <2> QED  BY <2>1, <2>2
<1>5. CASE SnapshotAnswered \/ SnapshotFails
  <2>1. UNCHANGED <<loading, got, timer, linked, watcher, companion>>
    BY <1>5 DEF SnapshotAnswered, SnapshotFails, data
  <2>2. companion => partial' \/ snapshot'.state # "idle"
    <3>1. CASE SnapshotAnswered
      BY <3>1 DEF SnapshotAnswered, Answered
    <3>2. CASE SnapshotFails
      BY <3>2 DEF SnapshotFails
    <3> QED  BY <1>5, <3>1, <3>2
  <2> QED  BY <2>1, <2>2
<1>6. CASE SnapshotArrives
  <2>1. loading' = FALSE
    <3>1. CASE got
      <4>1. loading = FALSE
        BY <3>1 DEF TypeOK
      <4> QED  BY <1>6, <3>1, <4>1 DEF SnapshotArrives
    <3> QED  BY <1>6, <3>1 DEF SnapshotArrives
  <2> QED  BY <2>1
<1>7. CASE EmptyTimerFires \/ \E p \in Poll : PollArrives(p)
  BY <1>7 DEF EmptyTimerFires, PollArrives
<1>8. CASE Refresh \/ ClusterSwitched
  <2>1. got' = FALSE /\ linked' = FALSE /\ snapshot' = Asked
    BY <1>8 DEF Refresh, ClusterSwitched, Rerun
  <2> QED  BY <2>1 DEF Asked
<1>9. CASE BackendReplaced
  <2>1. UNCHANGED <<loading, got, snapshot, companion, partial>> /\ linked' = FALSE
    BY <1>9 DEF BackendReplaced, data
  <2> QED  BY <2>1
<1>10. CASE Change \/ \E p \in Poll : PollStarts(p) \/ PollAnswered(p) \/ PollFails(p)
  BY <1>1, <1>10 DEF Change, PollStarts, PollAnswered, PollFails, data
<1>11. CASE UNCHANGED vars
  BY <1>1, <1>11 DEF vars, data
<1>12. CASE Next
  BY <1>2, <1>3, <1>4, <1>5, <1>6, <1>7, <1>8, <1>9, <1>10, <1>12
  DEF Next, WatcherStep
<1> QED  BY <1>11, <1>12

(* While a list shows its spinner, something that ends it is still to      *)
(* come: the snapshot, the answer to its subscription, the timer that the  *)
(* answer starts, or the socket on which it subscribes; unless a companion *)
(* subscribed before it.                                                   *)
THEOREM SpinnerOwedHolds == Spec => []SpinnerOwed
<1> DEFINE J == IInv /\ SpinnerInv
<1>1. ASSUME Init PROVE J
  <2>1. IInv
    BY <1>1, InitInv
  <2>2. HeardIsLoaded /\ Answerable /\ CompanionOwes
    BY <1>1 DEF Init, HeardIsLoaded, Answerable, CompanionOwes, Started, Asked
  <2> QED  BY <2>1, <2>2 DEF IInv, SpinnerInv
<1>2. ASSUME J, [Next]_vars PROVE J'
  <2>1. IInv'
    BY <1>2, StepInv
  <2> QED  BY <1>2, <2>1, SpinnerStep DEF IInv, SpinnerInv
<1>3. ASSUME J PROVE SpinnerOwed
  <2>1. Ours \in Watcher
    BY RealtimeListAssumption DEF RealtimeListAssumption
  <2> QED  BY <1>3, <2>1
           DEF SpinnerInv, Answerable, CompanionOwes, SpinnerOwed
<1> HIDE DEF J
<1>4. Init => J
  BY <1>1
<1>5. J /\ [Next]_vars => J'
  BY <1>2
<1>6. J => SpinnerOwed
  BY <1>3
<1> QED  BY <1>4, <1>5, <1>6, PTL DEF Spec

-----------------------------------------------------------------------------
(* Rows that go back.                                                      *)

(* An older state takes the place of a newer one only by a fetch of a type *)
(* that is polled, or while the watcher that sent it is behind the newer   *)
(* one and has yet to send it.                                             *)
THEOREM MovesForwardHolds == Spec => MovesForward
<1> DEFINE Excused(o) ==
      \/ Polled /\ (SnapshotArrives \/ \E p \in Poll : PollArrives(p))
      \/ \E w \in Watcher : watcher'[w].phase \in {"send", "stream"}
                            /\ watcher'[w].rev < view[o]
<1>1. ASSUME IInv, [Next]_vars, NEW o \in Object, StepsBack(o)
      PROVE  Excused(o)
  <2> USE <1>1 DEF IInv
  <2>0. /\ log \in Seq(Entry(Object)) /\ Len(log) \in Nat
        /\ view \in [Object -> Nat] /\ view[o] \in Nat
        /\ watcher \in [Watcher -> Task]
    BY DEF TypeOK
  <2>1. /\ view'[o] # view[o] /\ view'[o] # 0 /\ view[o] # 0
        /\ Live!Was(log, o, view[o]) /\ view'[o] < view[o] /\ view'[o] \in Nat
    BY <1>1, <2>0 DEF StepsBack, Real
  <2>2. \/ \E w \in Watcher : EventArrives(w) \/ \E x \in Object : ItemArrives(w, x)
        \/ SnapshotArrives \/ \E p \in Poll : PollArrives(p)
    BY <1>1, <2>0, <2>1
    DEF Next, vars, data, WatcherStep, Subscribed, ListAnswers, StreamOpens,
        ListFails, StreamFails, SocketLost, SocketOpens, SnapshotAnswered,
        SnapshotFails, EmptyTimerFires, PollStarts, PollAnswered, PollFails,
        Refresh, ClusterSwitched, Rerun, NoRows, BackendReplaced, Change
  <2>3. ASSUME NEW w \in Watcher, EventArrives(w) PROVE Excused(o)
    <3> DEFINE r == watcher[w].rev + 1
    <3>1. watcher[w] \in Task /\ r \in Nat
      BY <2>0 DEF Task
    <3>2. view'[o] = r
      BY <2>0, <2>1, <2>3 DEF EventArrives, Upsert, Remove
    <3>3. watcher'[w].rev = r /\ watcher'[w].phase = "stream"
      BY <2>0, <2>3, <3>1 DEF EventArrives, Becomes, Streaming, Task
    <3> QED  BY <2>1, <3>2, <3>3
  <2>4. ASSUME NEW w \in Watcher, NEW x \in Object, ItemArrives(w, x)
        PROVE  Excused(o)
    <3> DEFINE r == watcher[w].rev
    <3>1. watcher[w] \in Task /\ r \in 0..Len(log)
      BY <2>0 DEF Task, ReadBefore
    <3>2. view'[o] = Version(log, o, r)
      BY <2>0, <2>1, <2>4 DEF ItemArrives, Upsert
    <3>3. r < view[o]
      <4>1. view[o] \notin 1..r
        BY <2>0, <2>1, <3>1, <3>2, VersionNotOlder
      <4> QED  BY <2>0, <2>1, <3>1, <4>1
    <3>4. watcher'[w].rev = r /\ watcher'[w].phase \in {"send", "stream"}
      BY <2>0, <2>4, <3>1 DEF ItemArrives, Becomes, Task
    <3> QED  BY <3>3, <3>4
  <2>5. CASE SnapshotArrives
    <3>1. CASE Polled
      BY <2>5, <3>1
    <3>2. CASE ~Polled
      <4>1. ~got /\ view' = ListAt(log, Object, snapshot.rev)
        BY <2>1, <2>5 DEF SnapshotArrives
      <4>2. view[o] <= snapshot.rev /\ snapshot.rev \in 0..Len(log)
        BY <2>5, <3>2, <4>1
        DEF SnapshotArrives, SnapshotNotOlder, ReadBefore, TypeOK, Fetch
      <4>3. view'[o] = Version(log, o, snapshot.rev)
        BY <4>1 DEF ListAt
      <4>4. view[o] \in 1..snapshot.rev
        BY <2>0, <2>1, <4>2
      <4>5. view'[o] = 0 \/ view'[o] >= view[o]
        BY <2>0, <2>1, <4>2, <4>3, <4>4, VersionNotOlder
      <4> QED  BY <2>0, <2>1, <4>5
    <3> QED  BY <3>1, <3>2
  <2>6. ASSUME NEW p \in Poll, PollArrives(p) PROVE Excused(o)
    BY <2>6 DEF PollArrives, OthersDoNotPoll
  <2> QED  BY <2>2, <2>3, <2>4, <2>5, <2>6
<1>2. IInv /\ [Next]_vars => [\A o \in Object : StepsBack(o) => Excused(o)]_vars
  BY <1>1
<1>3. Init => IInv
  BY InitInv
<1>4. IInv /\ [Next]_vars => IInv'
  BY StepInv
<1> QED  BY <1>2, <1>3, <1>4, PTL DEF Spec, MovesForward

-----------------------------------------------------------------------------
(* Nothing gets lost that the list is not released from.                   *)

(* The revision in which o was last written, 0 when it is not there.       *)
Current(o) == Version(log, o, Len(log))

(* The watcher w has yet to send the object o as it is now.                *)
Brings(w, o) ==
    \/ watcher[w].phase \in {"ack", "list", "send", "backoff"}
    \/ Streaming(w) /\ (watcher[w].rev < Current(o) \/ o \in watcher[w].todo)

(* Some watcher has, or a socket without any has to be opened first.       *)
Brought(o) == ~linked \/ \E w \in Watcher : Brings(w, o)

(* The snapshot has the object and will be shown, or its loss be recorded. *)
Pending(o) ==
    /\ \/ snapshot.state = "asked"
       \/ snapshot.state = "answered" /\ snapshot.rev >= Current(o)
    /\ ~got \/ companion

(* An open socket has a watcher, and each object is shown as it is or on   *)
(* its way.                                                                *)
Watched  == linked => \E w \in Watcher : watcher[w].phase # "off"
WatchedByUs == linked /\ ~companion => watcher[Ours].phase # "off"
OnItsWay(o) == view[o] = Current(o) \/ Brought(o) \/ Pending(o)

(* A snapshot that was answered before the last change of the object, and  *)
(* will be shown, does not bring it; a watcher does.                       *)
SnapshotMadeUp(o) ==
    snapshot.state = "answered" /\ ~got /\ snapshot.rev < Current(o) => Brought(o)

(* Without a companion the watcher of this list sends every object, unless *)
(* some event has arrived already.                                         *)
OursBrings(o) == ~companion /\ ~got => ~linked \/ Brings(Ours, o)

AllComing ==
    /\ Watched /\ WatchedByUs
    /\ \A o \in Object : Current(o) # 0 =>
          OnItsWay(o) /\ SnapshotMadeUp(o) /\ OursBrings(o)

(* As long as no watch ended and the snapshot was not lost.                *)
Intact == ~Polled /\ ~partial /\ ~WatchEnded
NothingLost == Intact => AllComing

UnlinkedIsOff == ~linked => watcher = NoTasks

(* What an unchanged history says of an object.                            *)
LEMMA CurrentIs ==
    ASSUME log \in Seq(Entry(Object)), NEW o, Current(o) # 0
    PROVE  /\ Current(o) \in 1..Len(log) /\ Len(log) \in Nat
           /\ log[Current(o)] = [obj |-> o, present |-> TRUE]
           /\ \A j \in (Current(o) + 1)..Len(log) : log[j].obj # o
           /\ \A r \in Current(o)..Len(log) : Version(log, o, r) = Current(o)
<1>1. Len(log) \in Nat
  OBVIOUS
<1>2. Current(o) \in 0..Len(log) /\ WrittenLast(log, o, Current(o), Len(log))
  BY <1>1, VersionIs DEF Current
<1>3. \A r \in Current(o)..Len(log) : Version(log, o, r) = Current(o)
  BY <1>1, VersionStays DEF Current
<1> QED  BY <1>1, <1>2, <1>3 DEF WrittenLast

(* Only a socket that is lost takes ended watchers away, and only a new run *)
(* of the effect forgets that the snapshot was lost.                       *)
LEMMA IntactBefore ==
    ASSUME IInv, UnlinkedIsOff, Next, linked', Intact'
    PROVE  Intact
<1> USE DEF IInv, TypeOK
<1>1. UNCHANGED resource
  BY DEF Next, WatcherStep, Subscribed, ListAnswers, StreamOpens, EventArrives,
      ItemArrives, ListFails, StreamFails, SocketLost, SocketOpens,
      SnapshotAnswered, SnapshotArrives, SnapshotFails, EmptyTimerFires,
      PollStarts, PollAnswered, PollArrives, PollFails, Refresh,
      ClusterSwitched, BackendReplaced, Change
<1>2. partial => partial'
  BY DEF Next, WatcherStep, Subscribed, ListAnswers, StreamOpens, EventArrives,
      ItemArrives, ListFails, StreamFails, SocketLost, SocketOpens,
      SnapshotAnswered, SnapshotArrives, SnapshotFails, EmptyTimerFires,
      PollStarts, PollAnswered, PollArrives, PollFails, Refresh,
      ClusterSwitched, Rerun, BackendReplaced, Change
<1>3. ASSUME NEW v \in Watcher, watcher[v].phase = "ended"
      PROVE  watcher'[v].phase = "ended"
  <2>1. linked
    BY <1>3 DEF UnlinkedIsOff, NoTasks, Off
  <2>2. watcher'[v] = watcher[v]
    <3>1. ASSUME NEW w \in Watcher, NEW t, Becomes(w, t),
                 watcher[w].phase # "ended"
          PROVE  watcher'[v] = watcher[v]
      BY <1>3, <3>1 DEF Becomes
    <3>2. ASSUME NEW w \in Watcher,
                 WatcherStep(w) \/ ListFails(w) \/ StreamFails(w)
          PROVE  watcher'[v] = watcher[v]
      BY <3>1, <3>2 DEF WatcherStep, Subscribed, ListAnswers, StreamOpens,
         EventArrives, ItemArrives, ListFails, StreamFails, Streaming
    <3>3. CASE ~\E w \in Watcher : WatcherStep(w) \/ ListFails(w) \/ StreamFails(w)
      BY <2>1, <3>3
      DEF Next, SocketLost, SocketOpens,
          SnapshotAnswered, SnapshotArrives, SnapshotFails, EmptyTimerFires,
          PollStarts, PollAnswered, PollArrives, PollFails, Refresh,
          ClusterSwitched, Rerun, BackendReplaced, Change
    <3> QED  BY <3>2, <3>3
  <2> QED  BY <1>3, <2>2
<1> QED  BY <1>1, <1>2, <1>3 DEF Intact, Polled, Custom, WatchEnded

(* Nothing is lost while the socket is closed.                             *)
LEMMA UnlinkedComing == ASSUME ~linked PROVE AllComing
BY DEF AllComing, Watched, WatchedByUs, OnItsWay, Brought, SnapshotMadeUp,
       OursBrings

(* A watcher that goes on without a message still has to send what it had. *)
LEMMA WatcherComing ==
    ASSUME IInv, AllComing, NEW w \in Watcher,
           \/ Subscribed(w) \/ ListAnswers(w) \/ StreamOpens(w)
           \/ ListFails(w) \/ StreamFails(w),
           ~WatchEnded'
    PROVE  AllComing'
<1> USE RealtimeListAssumption DEF IInv, TypeOK, RealtimeListAssumption
<1>1. /\ UNCHANGED <<log, view, got, snapshot, linked, companion>>
      /\ \A v \in Watcher \ {w} : watcher'[v] = watcher[v]
  BY DEF Subscribed, ListAnswers, StreamOpens, ListFails, StreamFails, Becomes,
         data
<1>2. PICK t : watcher'[w] = t /\ t.phase # "ended" /\ t.phase # "off"
               /\ (t.phase = "stream" => t.todo = Present)
               /\ t.phase \in {"list", "send", "backoff", "stream"}
  BY DEF Subscribed, ListAnswers, StreamOpens, ListFails, StreamFails, Becomes,
         WatchEnded, Off, Task
<1>3. \A o \in Object : Current(o)' = Current(o)
  BY <1>1 DEF Current
<1>4. \A o \in Object : Current(o) # 0 => Brings(w, o)'
  BY <1>1, <1>2, <1>3 DEF Brings, Present, PresentAt, Current, Streaming
<1>5. \A v \in Watcher, o \in Object : Current(o) # 0 /\ Brings(v, o) => Brings(v, o)'
  BY <1>1, <1>3, <1>4 DEF Brings, Streaming
<1>6. Watched' /\ WatchedByUs'
  BY <1>1, <1>2 DEF AllComing, Watched, WatchedByUs
<1>7. ASSUME NEW o \in Object, Current(o) # 0
      PROVE  OnItsWay(o)' /\ SnapshotMadeUp(o)' /\ OursBrings(o)'
  <2>1. Brought(o) => Brought(o)'
    BY <1>1, <1>5, <1>7 DEF Brought
  <2>2. OnItsWay(o) /\ SnapshotMadeUp(o) /\ OursBrings(o)
    BY <1>7 DEF AllComing
  <2> QED  BY <1>1, <1>3, <1>5, <1>7, <2>1, <2>2
           DEF OnItsWay, Pending, SnapshotMadeUp, OursBrings
<1> QED  BY <1>3, <1>6, <1>7 DEF AllComing

(* A message that is not the last word on an object is followed by it.     *)
LEMMA HeardComing ==
    ASSUME IInv, AllComing, NEW w \in Watcher,
           EventArrives(w) \/ \E x \in Object : ItemArrives(w, x)
    PROVE  AllComing'
<1> USE RealtimeListAssumption DEF IInv, TypeOK, RealtimeListAssumption
<1>1. /\ UNCHANGED <<log, snapshot, linked, companion>> /\ got' = TRUE
      /\ \A v \in Watcher \ {w} : watcher'[v] = watcher[v]
      /\ watcher'[w].phase = watcher[w].phase /\ watcher[w].phase # "off"
  BY DEF EventArrives, ItemArrives, Becomes, Upsert, Remove, Heard, Streaming, Task
<1>2. \A o \in Object : Current(o)' = Current(o)
  BY <1>1 DEF Current
<1>3. ASSUME NEW o \in Object, Current(o) # 0
      PROVE  \/ view'[o] = Current(o) \/ Brings(w, o)'
             \/ view'[o] = view[o] /\ ~Brings(w, o)
  <2> DEFINE c == Current(o)
  <2>0. /\ c \in 1..Len(log) /\ Len(log) \in Nat
        /\ log[c] = [obj |-> o, present |-> TRUE]
        /\ \A j \in (c + 1)..Len(log) : log[j].obj # o
        /\ \A r \in c..Len(log) : Version(log, o, r) = c
    BY <1>3, CurrentIs
  <2>c. Current(o)' = c
    BY <1>2
  <2>w. watcher[w] \in Task /\ watcher[w].rev \in Nat /\ watcher[w].rev <= Len(log)
    BY DEF ReadBefore, Task
  <2>1. CASE EventArrives(w)
    <3> DEFINE r == watcher[w].rev + 1
    <3>1. /\ watcher'[w].rev = r /\ watcher'[w].phase = "stream"
          /\ watcher[w].todo = {} /\ r \in 1..Len(log)
      BY <2>0, <2>1, <2>w DEF EventArrives, Becomes, Streaming, Task
    <3>2. r < c => Brings(w, o)'
      BY <2>c, <3>1 DEF Brings, Streaming
    <3>3. r = c => view'[o] = c
      BY <2>0, <2>1 DEF EventArrives, Upsert
    <3>4. r > c => view'[o] = view[o] /\ ~Brings(w, o)
      <4>1. SUFFICES ASSUME r > c PROVE view'[o] = view[o] /\ ~Brings(w, o)
        OBVIOUS
      <4>2. log[r].obj # o
        BY <2>0, <3>1, <4>1
      <4>3. view'[o] = view[o]
        BY <2>1, <4>2 DEF EventArrives, Upsert, Remove
      <4>4. ~Brings(w, o)
        BY <2>0, <2>1, <2>w, <3>1, <4>1 DEF Brings, EventArrives, Streaming
      <4> QED  BY <4>3, <4>4
    <3>5. r \in Nat /\ c \in Nat
      BY <2>0, <2>w
    <3> HIDE DEF r, c
    <3> QED  BY <3>2, <3>3, <3>4, <3>5 DEF c
  <2>2. ASSUME NEW x \in Object, ItemArrives(w, x)
        PROVE  \/ view'[o] = c \/ Brings(w, o)'
               \/ view'[o] = view[o] /\ ~Brings(w, o)
    <3>1. /\ watcher'[w].rev = watcher[w].rev
          /\ watcher'[w].todo = watcher[w].todo \ {x}
          /\ watcher'[w].phase = watcher[w].phase
          /\ watcher[w].phase \in {"send", "stream"}
      BY <2>2, <2>w DEF ItemArrives, Becomes, Task
    <3>2. view' = [view EXCEPT ![x] = Version(log, x, watcher[w].rev)]
      BY <2>2 DEF ItemArrives, Upsert
    <3>3. CASE watcher[w].phase = "send" \/ watcher[w].rev < c
      BY <2>c, <3>1, <3>3 DEF Brings, Streaming
    <3>4. CASE watcher[w].phase = "stream" /\ ~(watcher[w].rev < c)
      <4>1. CASE o = x
        BY <2>0, <2>w, <3>2, <3>4, <4>1
      <4>2. CASE o # x
        BY <2>c, <3>1, <3>2, <3>4, <4>2 DEF Brings, Streaming
      <4> QED  BY <4>1, <4>2
    <3> QED  BY <3>1, <3>3, <3>4
  <2> QED  BY <2>1, <2>2
<1>4. Watched' /\ WatchedByUs'
  BY <1>1 DEF AllComing, Watched, WatchedByUs
<1>5. ASSUME NEW o \in Object, Current(o) # 0
      PROVE  OnItsWay(o)' /\ SnapshotMadeUp(o)' /\ OursBrings(o)'
  <2>1. OnItsWay(o) /\ OursBrings(o)
    BY <1>5 DEF AllComing
  <2>2. \A v \in Watcher \ {w} : Brings(v, o)' <=> Brings(v, o)
    BY <1>1, <1>2 DEF Brings, Streaming
  <2>3. Brought(o) => Brought(o)' \/ view'[o] = Current(o)
    BY <1>1, <1>3, <1>5, <2>2 DEF Brought
  <2>4. view[o] = Current(o) => Brought(o)' \/ view'[o] = Current(o)
    BY <1>1, <1>3, <1>5 DEF Brought
  <2>5. Pending(o) => Pending(o)' \/ Brought(o)
    BY <1>1, <1>2, <2>1 DEF Pending, OursBrings, Brought
  <2> QED  BY <1>1, <1>2, <1>5, <2>1, <2>3, <2>4, <2>5
           DEF OnItsWay, SnapshotMadeUp, OursBrings
<1> QED  BY <1>2, <1>4, <1>5 DEF AllComing

(* The snapshot is shown before the first event, or its loss is recorded,  *)
(* or the watcher of this list sends everything anyway.                    *)
LEMMA FetchComing ==
    ASSUME IInv, AllComing, ~Polled, ~partial',
           \/ SnapshotAnswered \/ SnapshotArrives \/ SnapshotFails
           \/ EmptyTimerFires
           \/ \E p \in Poll : \/ PollStarts(p) \/ PollAnswered(p)
                              \/ PollArrives(p) \/ PollFails(p)
    PROVE  AllComing'
<1> USE RealtimeListAssumption DEF IInv, TypeOK, RealtimeListAssumption
<1>1. /\ UNCHANGED <<log, linked, watcher, companion, got>>
      /\ ~\E p \in Poll : PollArrives(p)
  BY DEF SnapshotAnswered, SnapshotArrives, SnapshotFails, EmptyTimerFires,
         PollStarts, PollAnswered, PollArrives, PollFails, data, OthersDoNotPoll
<1>2. \A o \in Object : Current(o)' = Current(o)
  BY <1>1 DEF Current
<1>3. \A v \in Watcher, o \in Object : Brings(v, o)' <=> Brings(v, o)
  BY <1>1, <1>2 DEF Brings, Streaming
<1>4. Watched' /\ WatchedByUs'
  BY <1>1 DEF AllComing, Watched, WatchedByUs
<1>5. ASSUME NEW o \in Object, Current(o) # 0
      PROVE  OnItsWay(o)' /\ SnapshotMadeUp(o)' /\ OursBrings(o)'
  <2> DEFINE c == Current(o)
  <2>1. OnItsWay(o) /\ SnapshotMadeUp(o) /\ OursBrings(o)
    BY <1>5 DEF AllComing
  <2>2. Brought(o)' <=> Brought(o)
    BY <1>1, <1>3 DEF Brought
  <2>3. OursBrings(o)'
    BY <1>1, <1>3, <2>1 DEF OursBrings
  <2>4. /\ c \in 1..Len(log) /\ Len(log) \in Nat
        /\ \A r \in c..Len(log) : Version(log, o, r) = c
    BY <1>5, CurrentIs
  <2>5. ~companion /\ ~got => Brought(o)
    BY <2>1 DEF OursBrings, Brought
  <2>6. CASE SnapshotAnswered
    <3>1. view' = view /\ snapshot'.state = "answered" /\ snapshot'.rev = Len(log)
      BY <2>6 DEF SnapshotAnswered, Answered, data
    <3> QED  BY <1>1, <1>2, <2>1, <2>2, <2>3, <2>4, <3>1
             DEF OnItsWay, Pending, SnapshotMadeUp
  <2>7. CASE SnapshotArrives
    <3>1. snapshot.state = "answered" /\ snapshot'.state = "idle"
          /\ snapshot.rev \in Nat /\ snapshot.rev <= Len(log)
      BY <2>7 DEF SnapshotArrives, Idle, ReadBefore, Fetch
    <3>2. CASE got
      BY <1>1, <1>2, <2>1, <2>2, <2>3, <2>7, <3>1, <3>2
      DEF SnapshotArrives, OnItsWay, Pending, SnapshotMadeUp
    <3>3. CASE ~got
      <4>1. view'[o] = Version(log, o, snapshot.rev)
        BY <2>7, <3>3 DEF SnapshotArrives, ListAt
      <4>2. snapshot.rev >= c => view'[o] = c
        BY <2>4, <3>1, <4>1
      <4>3. ~(snapshot.rev >= c) => Brought(o)
        BY <2>1, <2>4, <3>1, <3>3 DEF SnapshotMadeUp
      <4> QED  BY <1>2, <2>2, <2>3, <3>1, <4>2, <4>3
               DEF OnItsWay, SnapshotMadeUp
    <3> QED  BY <3>2, <3>3
  <2>8. CASE SnapshotFails
    <3>1. view' = view /\ snapshot.state = "asked" /\ snapshot'.state = "idle"
          /\ ~companion
      BY <2>8 DEF SnapshotFails, Idle, data
    <3> QED  BY <1>1, <1>2, <2>1, <2>2, <2>3, <2>5, <3>1
             DEF OnItsWay, Pending, SnapshotMadeUp
  <2>9. CASE \/ EmptyTimerFires
             \/ \E p \in Poll : PollStarts(p) \/ PollAnswered(p) \/ PollFails(p)
    <3>1. view' = view /\ UNCHANGED snapshot
      BY <2>9 DEF EmptyTimerFires, PollStarts, PollAnswered, PollFails, data
    <3> QED  BY <1>1, <1>2, <2>1, <2>2, <2>3, <3>1
             DEF OnItsWay, Pending, SnapshotMadeUp
  <2> QED  BY <1>1, <2>6, <2>7, <2>8, <2>9
<1> QED  BY <1>2, <1>4, <1>5 DEF AllComing

(* A change is news for every watcher there is.                            *)
LEMMA ChangeComing ==
    ASSUME IInv, AllComing, ~WatchEnded, Change
    PROVE  AllComing'
<1> USE RealtimeListAssumption DEF IInv, TypeOK, RealtimeListAssumption
<1>1. UNCHANGED <<view, got, snapshot, linked, watcher, companion>>
  BY DEF Change, data
<1>2. PICK e \in Entry(Object) : log' = Append(log, e)
  BY ChangedIs DEF Change
<1>3. Len(log) \in Nat /\ Len(log') = Len(log) + 1
  BY <1>2
<1>4. \A o \in Object : Current(o)' \in {0, Current(o), Len(log')}
  BY <1>2, VersionOfChanged DEF Current
<1>5. Watched' /\ WatchedByUs'
  BY <1>1 DEF AllComing, Watched, WatchedByUs
<1>6. ASSUME NEW o \in Object, Current(o)' # 0
      PROVE  OnItsWay(o)' /\ SnapshotMadeUp(o)' /\ OursBrings(o)'
  <2>1. CASE Current(o)' = Current(o)
    <3>1. OnItsWay(o) /\ SnapshotMadeUp(o) /\ OursBrings(o)
      BY <1>6, <2>1 DEF AllComing
    <3>2. \A v \in Watcher : Brings(v, o)' <=> Brings(v, o)
      BY <1>1, <2>1 DEF Brings, Streaming
    <3> QED  BY <1>1, <2>1, <3>1, <3>2
             DEF OnItsWay, SnapshotMadeUp, OursBrings, Brought, Pending
  <2>2. CASE Current(o)' = Len(log')
    <3>1. \A v \in Watcher : watcher[v].phase # "off" => Brings(v, o)'
      <4>1. SUFFICES ASSUME NEW v \in Watcher, watcher[v].phase # "off"
                     PROVE  Brings(v, o)'
        OBVIOUS
      <4>2. watcher[v] \in Task /\ watcher[v].rev <= Len(log)
            /\ watcher[v].phase # "ended"
        BY DEF ReadBefore, WatchEnded
      <4>3. watcher[v].rev < Current(o)'
        BY <1>3, <2>2, <4>2 DEF Task
      <4> QED  BY <1>1, <4>1, <4>2, <4>3 DEF Brings, Streaming, Task, Phase
    <3>2. Brought(o)' /\ OursBrings(o)'
      BY <1>1, <3>1 DEF Brought, OursBrings, AllComing, Watched, WatchedByUs
    <3> QED  BY <3>2 DEF OnItsWay, SnapshotMadeUp
  <2> QED  BY <1>4, <1>6, <2>1, <2>2
<1> QED  BY <1>5, <1>6 DEF AllComing

(* A watcher of this list is started on a new socket.                      *)
LEMMA OpenedComing == ASSUME IInv, SocketOpens PROVE AllComing'
<1> USE RealtimeListAssumption DEF IInv, TypeOK, RealtimeListAssumption
<1>1. Ours \in Watcher /\ watcher'[Ours].phase = "ack"
  BY DEF SocketOpens, Becomes, Started
<1>2. \A o \in Object : Brings(Ours, o)'
  BY <1>1 DEF Brings
<1>3. Watched' /\ WatchedByUs'
  BY <1>1 DEF Watched, WatchedByUs
<1> QED  BY <1>1, <1>2, <1>3
         DEF AllComing, OnItsWay, Brought, SnapshotMadeUp, OursBrings

(* The watchers are started on an open socket and go with it.              *)
LEMMA UnlinkedStaysOff ==
    ASSUME IInv, UnlinkedIsOff, [Next]_vars PROVE UnlinkedIsOff'
<1>1. CASE linked \/ linked' # linked
  BY <1>1 DEF UnlinkedIsOff, Next, vars, WatcherStep, Subscribed, ListAnswers,
      StreamOpens, EventArrives, ItemArrives, ListFails, StreamFails,
      SocketLost, SocketOpens, SnapshotAnswered, SnapshotArrives,
      SnapshotFails, EmptyTimerFires, PollStarts, PollAnswered, PollArrives,
      PollFails, Refresh, ClusterSwitched, Rerun, BackendReplaced, Change,
      IInv, TypeOK
<1>2. CASE ~linked /\ linked' = linked
  <2>1. \A w \in Watcher : watcher[w].phase = "off"
    BY <1>2 DEF UnlinkedIsOff, NoTasks, Off
  <2>2. watcher' \in {watcher, NoTasks}
    BY <1>2, <2>1
    DEF Next, vars, WatcherStep, Subscribed, ListAnswers,
        StreamOpens, EventArrives, ItemArrives, ListFails, StreamFails,
        Streaming, SocketLost, SocketOpens, SnapshotAnswered, SnapshotArrives,
        SnapshotFails, EmptyTimerFires, PollStarts, PollAnswered, PollArrives,
        PollFails, Refresh, ClusterSwitched, Rerun, BackendReplaced, Change
  <2> QED  BY <1>2, <2>2 DEF UnlinkedIsOff
<1> QED  BY <1>1, <1>2

LEMMA NothingLostStep ==
    ASSUME IInv, UnlinkedIsOff, NothingLost, [Next]_vars
    PROVE  NothingLost'
<1>1. CASE UNCHANGED vars
  <2>1. /\ \A o : Current(o)' = Current(o)
        /\ \A w, o : Brings(w, o)' <=> Brings(w, o)
        /\ Intact' <=> Intact
    BY <1>1 DEF vars, data, Current, Brings, Streaming, Intact, Polled, Custom,
                WatchEnded
  <2> QED
    BY <1>1, <2>1 DEF vars, data, NothingLost, AllComing, Watched, WatchedByUs,
       OnItsWay, Brought, Pending, SnapshotMadeUp, OursBrings
<1>2. CASE Next /\ ~linked'
  BY <1>2 DEF NothingLost, AllComing, Watched, WatchedByUs, OnItsWay, Brought,
              SnapshotMadeUp, OursBrings
<1>3. CASE Next /\ linked'
  <2>1. SUFFICES ASSUME Intact' PROVE AllComing'
    BY DEF NothingLost
  <2>2. /\ Intact /\ AllComing /\ ~Polled /\ ~partial' /\ ~WatchEnded
        /\ ~WatchEnded'
    BY <1>3, <2>1, IntactBefore DEF NothingLost, Intact
  <2>3. ASSUME NEW w \in Watcher,
               WatcherStep(w) \/ ListFails(w) \/ StreamFails(w)
        PROVE  AllComing'
    BY <2>2, <2>3, WatcherComing, HeardComing DEF WatcherStep
  <2>4. ASSUME SocketLost \/ Refresh \/ ClusterSwitched \/ BackendReplaced
        PROVE  FALSE
    BY <1>3, <2>4 DEF SocketLost, Refresh, ClusterSwitched, BackendReplaced, Rerun
  <2> QED  BY <1>3, <2>2, <2>3, <2>4, OpenedComing, FetchComing, ChangeComing
           DEF Next
<1> QED  BY <1>1, <1>2, <1>3

(* When the page is opened its snapshot is asked for and no event came.    *)
LEMMA NothingLostInit == ASSUME Init PROVE NothingLost /\ UnlinkedIsOff
<1> USE RealtimeListAssumption DEF RealtimeListAssumption
<1>1. UnlinkedIsOff
  <2>1. SUFFICES ASSUME ~linked PROVE watcher = NoTasks
    BY DEF UnlinkedIsOff
  <2>2. \A w \in Watcher : watcher[w] = Off
    BY <2>1 DEF Init
  <2> QED  BY <2>2 DEF NoTasks, Init
<1>2. ASSUME linked, ~companion
      PROVE  watcher[Ours].phase = "ack" /\ Ours \in Watcher
  BY <1>2 DEF Init, Started
<1>3. ASSUME linked, companion
      PROVE  \E w \in Watcher : watcher[w].phase # "off"
  BY <1>3 DEF Init, LeftBehind
<1>4. Watched /\ WatchedByUs
  BY <1>2, <1>3 DEF Watched, WatchedByUs, Init
<1>5. \A o \in Object : Pending(o) /\ SnapshotMadeUp(o) /\ OursBrings(o)
  BY <1>2 DEF Init, Asked, Pending, SnapshotMadeUp, OursBrings, Brings
<1> QED  BY <1>1, <1>4, <1>5 DEF NothingLost, AllComing, OnItsWay

(* When nothing is coming any more, what is there is shown; and what is not *)
(* there is not, or its deletion will never be heard of.                   *)
LEMMA StillFaithful == ASSUME IInv, NothingLost PROVE StillIsFaithful
<1>1. SUFFICES ASSUME Still, ~Polled, ~Lossy PROVE Live!Faithful
  BY DEF StillIsFaithful
<1>0. log \in Seq(Entry(Object)) /\ view \in [Object -> Nat] /\ Real
  BY DEF IInv, TypeOK
<1>2. AllComing /\ \A o \in Object : ~Stranded(o)
  BY <1>1 DEF Lossy, NothingLost, Intact
<1>3. ASSUME NEW o \in Object PROVE view[o] = Current(o)
  <2>0. Len(log) \in Nat /\ view[o] \in Nat
    BY <1>0
  <2>1. CASE Current(o) = 0
    <3>1. SUFFICES ASSUME view[o] # 0 PROVE FALSE
      BY <2>1
    <3>2. view[o] \in 1..Len(log) /\ log[view[o]].obj = o
      <4>1. Live!Was(log, o, view[o])
        BY <1>0, <3>1 DEF Real
      <4> QED  BY <4>1 DEF Live!Was
    <3>3. PICK d \in 1..Len(log) : DeletedIn(log, o, d)
      BY <1>0, <2>1, <3>2, WasDeleted DEF Current
    <3>4. PICK w \in Watcher : Streaming(w) /\ watcher[w].rev < d
      BY <1>2, <3>1, <3>3 DEF Stranded
    <3> QED  BY <1>1, <2>0, <3>4 DEF Still, Streaming
  <2>2. CASE Current(o) # 0
    <3>1. Current(o) \in 1..Len(log)
      BY <1>0, <2>2, CurrentIs
    <3>2. \A w \in Watcher : ~Brings(w, o)
      BY <1>1, <2>0, <3>1 DEF Still, Brings, Streaming
    <3>3. ~Brought(o) /\ ~Pending(o)
      BY <1>1, <3>2 DEF Still, Brought, Pending
    <3> QED  BY <1>2, <2>2, <3>3 DEF AllComing, OnItsWay
  <2> QED  BY <2>1, <2>2
<1> QED  BY <1>0, <1>3 DEF Live!Faithful, Live!ListAt, Live!Version,
                    Live!WrittenLast, Current, Version, WrittenLast

(* A list that is not polled and has nothing coming shows the cluster as it *)
(* is, in whatever order the snapshot and the events of all the watchers    *)
(* came in, unless it is lossy: what LiveView promises for ever, here for   *)
(* every state that is at rest.                                            *)
THEOREM StillIsFaithfulHolds == Spec => []StillIsFaithful
<1>1. Init => IInv /\ NothingLost /\ UnlinkedIsOff
  BY InitInv, NothingLostInit
<1>2. IInv /\ NothingLost /\ UnlinkedIsOff /\ [Next]_vars
         => (IInv /\ NothingLost /\ UnlinkedIsOff)'
  BY StepInv, NothingLostStep, UnlinkedStaysOff
<1>3. IInv /\ NothingLost => StillIsFaithful
  BY StillFaithful
<1> QED  BY <1>1, <1>2, <1>3, PTL DEF Spec
=============================================================================
