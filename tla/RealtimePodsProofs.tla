-------------------------- MODULE RealtimePodsProofs --------------------------
(***************************************************************************)
(* Theorems about the pods page, for every set of pods, any number of      *)
(* sockets and overlapping polls, any history of the cluster and any       *)
(* number of faults.                                                       *)
(***************************************************************************)
EXTENDS RealtimePods, ClusterLogProofs

-----------------------------------------------------------------------------
(* The parts of the inductive invariant.                                   *)

(* Every row shows a pod as it was, in both groups of its columns, which   *)
(* come and go together.                                                   *)
Real ==
    \A o \in Object :
        /\ view[o] # 0 => Table!Was(log, o, view[o])
        /\ detail[o] # 0 => Table!Was(log, o, detail[o])
Whole == \A o \in Object : detail[o] = 0 <=> view[o] = 0

(* Whatever is on its way was read from the history.                       *)
ReadBefore ==
    /\ \A q \in Sync : sync[q].rev <= Len(log)
    /\ \A s \in Socket : sock[s].rev <= Len(log)

(* A watcher works at the far end of open sockets only.                    *)
WorksIfOpen ==
    \A s \in Socket :
        /\ sock[s].phase # "off" => sock[s].state = "open"
        /\ sock[s].todo # {} => sock[s].phase \in {"send", "stream"}

(* A socket in use is the one in wsRef, and while a connect is planned     *)
(* there is none; no timer has been pushed out of its place.               *)
InRef ==
    misread \/ /\ strays = 0
               /\ timer => current = NoSocket
               /\ \A s \in Socket : Live(s) => s = current

(* A page that has been left has closed its socket for good.               *)
LeftClosed ==
    misread \/ mounted \/ (intentional /\ ~timer /\ current = NoSocket)

RowsInv   == TypeOK /\ Real /\ Whole /\ ReadBefore /\ WorksIfOpen
MarksInv  == TypeOK /\ MarkedIsHidden /\ MarksExpire
SocketInv == RowsInv /\ InRef /\ LeftClosed

-----------------------------------------------------------------------------
LEMMA Records ==
    /\ Idle \in Fetch /\ Asked \in Fetch
    /\ NoRows \in [Object -> Nat]
    /\ \A st \in {"closed", "connecting", "open", "silent", "closing"} :
          In(st) \in Task
    /\ log \in Seq(Entry(Object)) => Answered \in Fetch
BY DEF Idle, Asked, In, NoRows, Answered, Fetch, Task, Phase

LEMMA PresentObjects == \A h, r : PresentAt(h, Object, r) \in SUBSET Object
BY DEF PresentAt

(* History only grows.                                                     *)
LEMMA LogGrows ==
    ASSUME TypeOK, [Next]_vars
    PROVE  log' \in Seq(Entry(Object)) /\ Table!Extends(log, log')
<1> USE DEF TypeOK
<1>1. ASSUME NEW g \in Seq(Entry(Object)), log' = log \o g
      PROVE  log' \in Seq(Entry(Object)) /\ Table!Extends(log, log')
  BY <1>1 DEF Table!Extends
<1>2. CASE UNCHANGED log
  BY <1>2 DEF Table!Extends
<1>3. CASE Change
  <2>1. PICK e \in Entry(Object) : log' = Append(log, e)
    BY <1>3, ChangedIs DEF Change
  <2> QED  BY <2>1 DEF Table!Extends
<1>4. CASE BackendReplaced
  <2>1. PICK g \in Dropped :
          log' = log \o [i \in DOMAIN g |-> [obj |-> g[i], present |-> FALSE]]
    BY <1>4 DEF BackendReplaced
  <2> DEFINE e == [i \in DOMAIN g |-> [obj |-> g[i], present |-> FALSE]]
  <2>2. PICK n \in 0..Len(log) : g \in [1..n -> Present]
    BY <2>1 DEF Dropped
  <2>3. e \in [1..n -> Entry(Object)]
    BY <2>2 DEF Present, PresentAt, Entry
  <2>4. n \in Nat
    OBVIOUS
  <2>5. e \in Seq(Entry(Object))
    BY <2>3, <2>4
  <2> QED  BY <1>1, <2>1, <2>5
<1>5. CASE UNCHANGED vars
  BY <1>2, <1>5 DEF vars
<1>6. CASE Next
  BY <1>2, <1>3, <1>4, <1>6
  DEF Next, SocketStep, WatcherStep, TimerFires, StrayFires, Opens, Closed,
      Lost, GoesSilent, WatchdogFires, Lists, ItemArrives, EventArrives,
      WatchFails, SyncStarts, SyncAnswered, SyncFails, SyncArrives,
      MarkExpires, ClusterSwitched, Leave
<1> QED  BY <1>5, <1>6

(* A row taken from a list is the pod as it was.                           *)
LEMMA VersionWas ==
    ASSUME NEW o, NEW r \in 0..Len(log), log \in Seq(Entry(Object))
    PROVE  /\ Version(log, o, r) \in Nat
           /\ Version(log, o, r) # 0 => Table!Was(log, o, Version(log, o, r))
<1>1. Len(log) \in Nat /\ r \in Nat
  OBVIOUS
<1>2. /\ Version(log, o, r) \in 0..r
      /\ Version(log, o, r) # 0 => WrittenLast(log, o, Version(log, o, r), r)
  BY <1>1, VersionIs
<1> QED  BY <1>1, <1>2 DEF Table!Was, WrittenLast

-----------------------------------------------------------------------------
(* The rows.                                                               *)

(* A step leaves a row, takes it away, or shows the pod as it was.         *)
Sound(o) ==
    /\ view'[o] \in {0, view[o]} \/ Table!Was(log, o, view'[o])
    /\ detail'[o] \in {0, detail[o]} \/ Table!Was(log, o, detail'[o])

RowsKeep ==
    /\ view' \in [Object -> Nat] /\ detail' \in [Object -> Nat]
    /\ deleted' \in SUBSET Object /\ expiring' \in [Object -> Nat]
    /\ \A o \in Object : Sound(o)
    /\ Whole'

LEMMA UpsertRows ==
    ASSUME TypeOK, Whole, NEW o \in Object, NEW v \in Nat, Upsert(o, v),
           v # 0 => Table!Was(log, o, v)
    PROVE  RowsKeep
BY DEF TypeOK, Whole, Upsert, RowsKeep, Sound

LEMMA RemoveRows ==
    ASSUME TypeOK, Whole, NEW o \in Object, Remove(o)
    PROVE  RowsKeep
<1>1. CASE ~mounted
  BY <1>1 DEF Remove, TypeOK, Whole, RowsKeep, Sound, rows
<1>2. CASE mounted
  <2>1. /\ view' = [view EXCEPT ![o] = 0]
        /\ detail' = [detail EXCEPT ![o] = 0]
        /\ deleted' = deleted \cup {o}
        /\ expiring' = [expiring EXCEPT ![o] = @ + 1]
    BY <1>2 DEF Remove, RowGoes
  <2> QED  BY <2>1 DEF TypeOK, Whole, RowsKeep, Sound
<1> QED  BY <1>1, <1>2

LEMMA RowsStep ==
    ASSUME TypeOK, Whole, ReadBefore, [Next]_vars
    PROVE  RowsKeep
<1>0. Len(log) \in Nat /\ log \in Seq(Entry(Object))
  BY DEF TypeOK
<1>1. CASE UNCHANGED rows
  BY <1>1 DEF rows, TypeOK, Whole, RowsKeep, Sound
<1>2. ASSUME NEW o \in Object, MarkExpires(o) PROVE RowsKeep
  <2>1. /\ view' = view /\ detail' = detail /\ deleted' = deleted \ {o}
        /\ expiring' = [expiring EXCEPT ![o] = @ - 1]
        /\ expiring[o] \in Nat /\ expiring[o] > 0
    BY <1>2 DEF MarkExpires, TypeOK
  <2> QED  BY <2>1 DEF TypeOK, Whole, RowsKeep, Sound
<1>3. ASSUME NEW q \in Sync, SyncArrives(q) PROVE RowsKeep
  <2> DEFINE listed == ListAt(log, Object, sync[q].rev)
  <2>1. sync[q].rev \in 0..Len(log)
    BY <1>0 DEF TypeOK, Fetch, ReadBefore
  <2>2. \A o \in Object : listed[o] \in Nat
                          /\ (listed[o] # 0 => Table!Was(log, o, listed[o]))
    BY <1>0, <2>1, VersionWas DEF ListAt
  <2>3. /\ view' = Reconciled(listed) /\ detail' = DetailsMerged(listed)
        /\ UNCHANGED <<deleted, expiring>>
    BY <1>3 DEF SyncArrives
  <2> HIDE DEF listed
  <2>4. \A o \in Object :
          /\ view'[o] \in {view[o], listed[o]}
          /\ detail'[o] = IF view'[o] = 0 THEN 0
                         ELSE IF view[o] = 0 THEN view'[o] ELSE detail[o]
    BY <2>3 DEF Reconciled, DetailsMerged
  <2>5. view' \in [Object -> Nat] /\ detail' \in [Object -> Nat]
    <3>1. view' \in [Object -> Nat]
      BY <2>2, <2>3 DEF Reconciled, TypeOK
    <3>2. DOMAIN detail' = Object /\ detail' = [o \in Object |-> detail'[o]]
      BY <2>3 DEF DetailsMerged
    <3>3. \A o \in Object : detail'[o] \in Nat
      BY <2>4, <3>1 DEF TypeOK
    <3> QED  BY <3>1, <3>2, <3>3
  <2>6. \A o \in Object : Sound(o) /\ (detail'[o] = 0 <=> view'[o] = 0)
    BY <2>2, <2>4 DEF Sound, Whole
  <2> QED  BY <2>3, <2>5, <2>6 DEF TypeOK, RowsKeep, Whole
<1>4. ASSUME NEW s \in Socket, NEW o \in Object, ItemArrives(s, o)
      PROVE  RowsKeep
  <2>1. sock[s].rev \in 0..Len(log)
    BY <1>0 DEF TypeOK, Task, ReadBefore
  <2> QED  BY <1>0, <1>4, <2>1, VersionWas, UpsertRows DEF ItemArrives
<1>5. ASSUME NEW s \in Socket, EventArrives(s) PROVE RowsKeep
  <2> DEFINE r == sock[s].rev + 1
  <2>1. r \in 1..Len(log) /\ r \in Nat
    BY <1>0, <1>5 DEF TypeOK, Task, ReadBefore, EventArrives
  <2>2. log[r] \in Entry(Object)
    BY <1>0, <2>1
  <2>3. log[r].obj \in Object
    BY <2>2 DEF Entry
  <2>4. CASE log[r].present
    <3>1. Table!Was(log, log[r].obj, r)
      BY <2>1, <2>2, <2>4 DEF Table!Was, Entry
    <3>2. Upsert(log[r].obj, r)
      BY <1>5, <2>4 DEF EventArrives
    <3> QED  BY <2>1, <2>3, <3>1, <3>2, UpsertRows
  <2>5. CASE ~log[r].present
    <3>1. Remove(log[r].obj)
      BY <1>5, <2>5 DEF EventArrives
    <3> QED  BY <2>3, <3>1, RemoveRows
  <2> QED  BY <2>4, <2>5
<1>6. CASE ClusterSwitched \/ Leave
  <2>1. /\ view' = NoRows /\ detail' = NoRows /\ deleted' = {}
        /\ expiring' \in {expiring, NoRows}
    BY <1>6 DEF ClusterSwitched, Leave
  <2>2. \A o \in Object : view'[o] = 0 /\ detail'[o] = 0
    BY <2>1 DEF NoRows
  <2> QED  BY <2>1, <2>2, Records DEF TypeOK, Whole, RowsKeep, Sound
<1>7. CASE UNCHANGED vars
  BY <1>1, <1>7 DEF vars
<1>8. CASE Next
  BY <1>1, <1>2, <1>3, <1>4, <1>5, <1>6, <1>8
  DEF Next, SocketStep, WatcherStep, TimerFires, StrayFires, Opens, Closed,
      Lost, GoesSilent, WatchdogFires, Lists, WatchFails, SyncStarts,
      SyncAnswered, SyncFails, BackendReplaced, Change
<1> QED  BY <1>7, <1>8

-----------------------------------------------------------------------------
(* The polls.                                                              *)

SyncKeep ==
    /\ sync' \in [Sync -> Fetch]
    /\ \A q \in Sync : sync'[q].rev <= Len(log')

LEMMA SyncStep ==
    ASSUME TypeOK, ReadBefore, [Next]_vars
    PROVE  SyncKeep
<1>0. /\ Len(log) \in Nat /\ Len(log') \in Nat /\ Len(log') >= Len(log)
      /\ sync \in [Sync -> Fetch] /\ \A q \in Sync : sync[q].rev \in 0..Len(log)
      /\ Answered \in Fetch /\ Answered.rev = Len(log)
      /\ Idle \in Fetch /\ Idle.rev = 0
      /\ Asked \in Fetch /\ Asked.rev = 0
  BY LogGrows, Records DEF Table!Extends, TypeOK, ReadBefore, Fetch, Answered,
     Idle, Asked
<1>1. CASE UNCHANGED sync
  BY <1>0, <1>1 DEF SyncKeep
<1>2. CASE Begin
  <2> DEFINE c == CHOOSE q \in Free : TRUE
  <2>1. sync' = [sync EXCEPT ![c] = Asked]
    BY <1>2 DEF Begin
  <2> HIDE DEF c
  <2>2. CASE c \in Sync
    BY <1>0, <2>1, <2>2 DEF SyncKeep
  <2>3. CASE c \notin Sync
    <3>1. sync' = sync
      BY <1>0, <2>1, <2>3
    <3> QED  BY <1>1, <3>1
  <2> QED  BY <2>2, <2>3
<1>3. ASSUME NEW q \in Sync, SyncAnswered(q) \/ SyncFails(q) \/ SyncArrives(q)
      PROVE  SyncKeep
  <2>1. \E f \in {Answered, Idle} : sync' = [sync EXCEPT ![q] = f]
    BY <1>3 DEF SyncAnswered, SyncFails, SyncArrives
  <2> QED  BY <1>0, <2>1 DEF SyncKeep
<1>4. CASE Leave
  BY <1>0, <1>4 DEF SyncKeep, Leave
<1>5. ASSUME NEW s \in Socket, Opens(s) PROVE SyncKeep
  BY <1>1, <1>2, <1>5 DEF Opens
<1>6. CASE UNCHANGED vars
  BY <1>1, <1>6 DEF vars
<1>7. CASE Next
  BY <1>1, <1>2, <1>3, <1>4, <1>5, <1>7
  DEF Next, SocketStep, WatcherStep, TimerFires, StrayFires, Closed, Lost,
      GoesSilent, WatchdogFires, Lists, ItemArrives, EventArrives, WatchFails,
      SyncStarts, MarkExpires, ClusterSwitched, BackendReplaced, Change
<1> QED  BY <1>6, <1>7

-----------------------------------------------------------------------------
(* The sockets.                                                            *)

(* What a socket and its watcher may be when the history has r entries.    *)
Proper(t, r) ==
    /\ t \in Task /\ t.rev <= r
    /\ t.phase # "off" => t.state = "open"
    /\ t.todo # {} => t.phase \in {"send", "stream"}

SockKeep ==
    /\ sock' \in [Socket -> Task]
    /\ \A s \in Socket : Proper(sock'[s], Len(log'))

LEMMA SockStep ==
    ASSUME TypeOK, ReadBefore, WorksIfOpen, [Next]_vars
    PROVE  SockKeep
<1>0. /\ Len(log) \in Nat /\ Len(log') \in Nat /\ Len(log') >= Len(log)
      /\ sock \in [Socket -> Task]
  BY LogGrows DEF Table!Extends, TypeOK
<1>a. \A s \in Socket : Proper(sock[s], Len(log)) /\ Proper(sock[s], Len(log'))
  BY <1>0 DEF Proper, ReadBefore, WorksIfOpen, Task
<1>b. \A st \in {"closed", "connecting", "open", "silent", "closing"} :
         Proper(In(st), Len(log'))
  <2>1. \A st : In(st).rev = 0 /\ In(st).phase = "off" /\ In(st).todo = {}
    BY DEF In
  <2> QED  BY <1>0, <2>1, Records DEF Proper
<1>1. CASE UNCHANGED sock
  BY <1>0, <1>a, <1>1 DEF SockKeep
<1>2. ASSUME NEW s \in Socket, NEW t, Goes(s, t), Proper(t, Len(log'))
      PROVE  SockKeep
  BY <1>0, <1>a, <1>2 DEF SockKeep, Goes, Proper
<1>3. ASSUME NEW s \in Socket, NEW ph \in Phase \ {"off"}, NEW r \in 0..Len(log),
             NEW todo \in SUBSET Object, Works(s, ph, r, todo),
             todo # {} => ph \in {"send", "stream"}
      PROVE  SockKeep
  <2> DEFINE t == [state |-> "open", phase |-> ph, rev |-> r, todo |-> todo]
  <2>1. Proper(t, Len(log')) /\ Goes(s, t)
    BY <1>0, <1>3 DEF Works, Proper, Task
  <2> QED  BY <1>2, <2>1
<1>4. CASE Connect
  <2>1. PICK s \in Socket : Goes(s, In("connecting"))
    BY <1>4 DEF Connect, Unused
  <2> QED  BY <1>2, <1>b, <2>1
<1>5. ASSUME NEW s \in Socket, SocketStep(s) \/ Lost(s) \/ GoesSilent(s)
      PROVE  SockKeep
  <2>1. Proper([In("open") EXCEPT !.phase = "list"], Len(log'))
    BY <1>0 DEF Proper, In, Task, Phase
  <2> QED  BY <1>2, <1>5, <1>b, <2>1
           DEF SocketStep, Opens, Closed, WatchdogFires, Lost, GoesSilent
<1>6. ASSUME NEW s \in Socket, WatcherStep(s) \/ WatchFails(s)
      PROVE  SockKeep
  <2>0. /\ sock[s] \in Task /\ sock[s].rev \in 0..Len(log)
        /\ sock[s].todo \in SUBSET Object /\ sock[s].phase \in Phase
        /\ sock[s].todo # {} => sock[s].phase \in {"send", "stream"}
    BY <1>0, <1>a DEF Proper, Task
  <2>1. CASE Lists(s)
    <3>1. \E ph \in {"send", "stream"} : Works(s, ph, Len(log), Present)
      BY <2>1 DEF Lists
    <3> QED  BY <1>0, <1>3, <3>1, PresentObjects DEF Present, Phase
  <2>2. CASE EventArrives(s)
    <3>1. Works(s, "stream", sock[s].rev + 1, {}) /\ sock[s].rev + 1 \in 0..Len(log)
      BY <1>0, <2>0, <2>2 DEF EventArrives
    <3> QED  BY <1>3, <3>1 DEF Phase
  <2>3. ASSUME NEW o \in Object, ItemArrives(s, o) PROVE SockKeep
    <3>1. Works(s, sock[s].phase, sock[s].rev, sock[s].todo \ {o})
          /\ sock[s].phase \in {"send", "stream"}
      BY <2>0, <2>3 DEF ItemArrives
    <3> QED  BY <1>3, <2>0, <3>1
  <2>4. CASE WatchFails(s)
    <3>1. PICK ph \in {"off", "backoff"} : Works(s, ph, 0, {})
      BY <2>4 DEF WatchFails
    <3>2. CASE ph = "backoff"
      BY <1>0, <1>3, <3>1, <3>2 DEF Phase
    <3>3. CASE ph = "off"
      <4>1. Goes(s, In("open"))
        BY <3>1, <3>3 DEF Works, In
      <4> QED  BY <1>2, <1>b, <4>1
    <3> QED  BY <3>2, <3>3
  <2> QED  BY <1>6, <2>1, <2>2, <2>3, <2>4 DEF WatcherStep
<1>7. CASE Disconnect
  <2>1. CASE current = NoSocket
    BY <1>1, <1>7, <2>1 DEF Disconnect
  <2>2. CASE current # NoSocket
    <3>1. current \in Socket
      BY <2>2 DEF TypeOK
    <3>2. \E st \in {"closed", "closing"} : Goes(current, In(st))
      BY <1>7, <2>2 DEF Disconnect
    <3> QED  BY <1>2, <1>b, <3>1, <3>2
  <2> QED  BY <2>1, <2>2
<1>8. CASE BackendReplaced
  <2>1. sock' = [s \in Socket |-> IF Live(s) THEN In("closing") ELSE sock[s]]
    BY <1>8 DEF BackendReplaced
  <2>2. In("closing") \in Task
    BY Records
  <2> QED  BY <1>0, <1>a, <1>b, <2>1, <2>2 DEF SockKeep
<1>9. CASE UNCHANGED vars
  BY <1>1, <1>9 DEF vars, sockets
<1>10. CASE Next
  BY <1>1, <1>4, <1>5, <1>6, <1>7, <1>8, <1>10
  DEF Next, TimerFires, StrayFires, SyncStarts, SyncAnswered, SyncFails,
      SyncArrives, MarkExpires, sockets, ClusterSwitched, Leave, Change
<1> QED  BY <1>9, <1>10

-----------------------------------------------------------------------------
(* The flags, and the type of everything.                                  *)

LEMMA FlagsStep ==
    ASSUME TypeOK, [Next]_vars
    PROVE  /\ mounted' \in BOOLEAN /\ intentional' \in BOOLEAN
           /\ timer' \in BOOLEAN /\ misread' \in BOOLEAN /\ strays' \in Nat
           /\ current' \in Socket \cup {NoSocket}
           /\ guard' \in Socket \cup {NoSocket}
           /\ switching' \in {"no", "announced", "done"}
           /\ faults' \in 0..MaxFaults
<1> USE RealtimePodsAssumption DEF RealtimePodsAssumption
<1>1. mounted' \in BOOLEAN /\ switching' \in {"no", "announced", "done"}
  BY DEF TypeOK, Next, vars, SocketStep, WatcherStep, TimerFires, StrayFires,
     Opens, Closed, Lost, GoesSilent, WatchdogFires, Lists, ItemArrives,
     EventArrives, WatchFails, SyncStarts, SyncAnswered, SyncFails, SyncArrives,
     MarkExpires, ClusterSwitched, BackendReplaced, Leave, Change
<1>2. faults' \in 0..MaxFaults
  <2>1. Fault \/ UNCHANGED faults
    BY DEF Next, vars, SocketStep, WatcherStep, TimerFires, StrayFires,
       Opens, Closed, Lost, GoesSilent, WatchdogFires, Lists, ItemArrives,
       EventArrives, WatchFails, SyncStarts, SyncAnswered, SyncFails,
       SyncArrives, MarkExpires, ClusterSwitched, BackendReplaced, Leave, Change
  <2> QED  BY <2>1 DEF Fault, TypeOK
<1>3. strays' \in Nat
  <2>1. \/ UNCHANGED strays \/ StrayFires
        \/ strays' = strays + (IF timer THEN 1 ELSE 0)
    BY DEF Next, vars, sockets, SocketStep, WatcherStep, TimerFires,
       Opens, Closed, OnClose, Lost, GoesSilent, WatchdogFires, Lists,
       ItemArrives, EventArrives, WatchFails, SyncStarts, SyncAnswered,
       SyncFails, SyncArrives, MarkExpires, ClusterSwitched, BackendReplaced,
       Leave, Change
  <2>2. CASE StrayFires
    BY <2>2 DEF StrayFires, TypeOK
  <2> QED  BY <2>1, <2>2 DEF TypeOK
<1>4. timer' \in BOOLEAN /\ intentional' \in BOOLEAN
  <2>1. timer' \in {timer, TRUE, FALSE} /\ intentional' \in {intentional, TRUE, FALSE}
    BY DEF Next, vars, sockets, SocketStep, WatcherStep, TimerFires,
       StrayFires, Connect, Opens, Closed, OnClose, Lost, GoesSilent,
       WatchdogFires, Lists, ItemArrives, EventArrives, WatchFails, SyncStarts,
       SyncAnswered, SyncFails, SyncArrives, MarkExpires, ClusterSwitched,
       BackendReplaced, Disconnect, Leave, Change
  <2> QED  BY <2>1 DEF TypeOK
<1>6. misread' \in BOOLEAN
  <2>1. UNCHANGED misread \/ \E s \in Socket : OnClose(s)
    BY DEF Next, vars, sockets, SocketStep, WatcherStep, TimerFires,
       StrayFires, Opens, Closed, Lost, GoesSilent, WatchdogFires,
       Lists, ItemArrives, EventArrives, WatchFails, SyncStarts, SyncAnswered,
       SyncFails, SyncArrives, MarkExpires, ClusterSwitched, BackendReplaced,
       Leave, Change
  <2>2. ASSUME NEW s \in Socket, OnClose(s) PROVE misread' \in BOOLEAN
    <3>1. CASE intentional
      <4>1. misread' = misread /\ misread \in BOOLEAN
        BY <2>2, <3>1 DEF OnClose, TypeOK
      <4> QED  BY <4>1
    <3>2. CASE ~intentional
      <4>1. misread' = (misread \/ s # current)
        BY <2>2, <3>2 DEF OnClose
      <4> QED  BY <4>1, Zenon
    <3> QED  BY <3>1, <3>2
  <2> QED  BY <2>1, <2>2 DEF TypeOK
<1>5. /\ current' \in Socket \cup {NoSocket}
      /\ guard' \in Socket \cup {NoSocket}
  BY DEF TypeOK, Next, vars, sockets, SocketStep, WatcherStep, TimerFires,
     StrayFires, Connect, Unused, Opens, Closed, OnClose, Lost, GoesSilent,
     WatchdogFires, Lists, ItemArrives, EventArrives, WatchFails, SyncStarts,
     SyncAnswered, SyncFails, SyncArrives, MarkExpires, ClusterSwitched,
     BackendReplaced, Disconnect, Leave, Change
<1> QED  BY <1>1, <1>2, <1>3, <1>4, <1>5, <1>6

LEMMA InitInv == ASSUME Init PROVE RowsInv /\ MarksInv /\ SocketInv
<1> USE RealtimePodsAssumption DEF RealtimePodsAssumption, Init
<1>1. log \in Seq(Entry(Object)) /\ Len(log) \in Nat
  BY DEF Contents
<1>2. TypeOK
  <2>1. sync \in [Sync -> Fetch] /\ sock \in [Socket -> Task]
    BY Records
  <2>2. /\ view \in [Object -> Nat] /\ detail \in [Object -> Nat]
        /\ expiring \in [Object -> Nat]
        /\ deleted \in SUBSET Object /\ faults \in 0..MaxFaults /\ strays \in Nat
        /\ current \in Socket \cup {NoSocket} /\ guard \in Socket \cup {NoSocket}
    BY Records
  <2>3. /\ mounted = TRUE /\ intentional = FALSE /\ timer = TRUE
        /\ misread = FALSE /\ switching = "no"
    OBVIOUS
  <2> HIDE DEF Init
  <2> QED  BY <1>1, <2>1, <2>2, <2>3 DEF TypeOK
<1>3. Real /\ Whole /\ MarkedIsHidden /\ MarksExpire
  BY DEF Real, Whole, NoRows, MarkedIsHidden, MarksExpire
<1>4. ReadBefore /\ WorksIfOpen
  BY <1>1 DEF ReadBefore, WorksIfOpen, Idle, In
<1>5. InRef /\ LeftClosed
  BY DEF InRef, LeftClosed, Live, In
<1> QED  BY <1>2, <1>3, <1>4, <1>5 DEF RowsInv, MarksInv, SocketInv

LEMMA RowsStepInv == ASSUME RowsInv, [Next]_vars PROVE RowsInv'
<1> USE DEF RowsInv
<1>1. RowsKeep /\ SyncKeep /\ SockKeep
  BY RowsStep, SyncStep, SockStep
<1>2. /\ log' \in Seq(Entry(Object)) /\ Table!Extends(log, log')
      /\ log \in Seq(Entry(Object))
  BY LogGrows DEF TypeOK
<1>3. TypeOK'
  BY <1>1, <1>2, FlagsStep DEF TypeOK, RowsKeep, SyncKeep, SockKeep
<1>4. ReadBefore' /\ WorksIfOpen' /\ Whole'
  BY <1>1 DEF RowsKeep, ReadBefore, WorksIfOpen, SyncKeep, SockKeep, Proper
<1>5. ASSUME NEW o \in Object, NEW v, Table!Was(log, o, v)
      PROVE  Table!Was(log', o, v)
  <2>1. v \in 1..Len(log) /\ v \in 1..Len(log')
    BY <1>2, <1>5 DEF Table!Was, Table!Extends
  <2> QED  BY <1>2, <1>5, <2>1 DEF Table!Was, Table!Extends
<1>6. ASSUME NEW o \in Object
      PROVE  /\ view'[o] # 0 => Table!Was(log', o, view'[o])
             /\ detail'[o] # 0 => Table!Was(log', o, detail'[o])
  <2>1. /\ view'[o] # 0 => Table!Was(log, o, view'[o])
        /\ detail'[o] # 0 => Table!Was(log, o, detail'[o])
    BY <1>1 DEF RowsKeep, Sound, Real
  <2> QED  BY <1>5, <2>1
<1>7. Real'
  BY <1>6 DEF Real
<1> QED  BY <1>3, <1>4, <1>7

(* Every variable keeps its type.                                          *)
THEOREM TypeCorrect == Spec => []TypeOK
<1>1. Init => RowsInv
  BY InitInv
<1>2. RowsInv /\ [Next]_vars => RowsInv'
  BY RowsStepInv
<1>3. RowsInv => TypeOK
  BY DEF RowsInv
<1> QED  BY <1>1, <1>2, <1>3, PTL DEF Spec

(* Both groups of columns implement the safety part of LiveView: they      *)
(* start empty, and whatever a socket, an old socket or a poll puts into   *)
(* them is the pod as it was at some revision of the cluster.              *)
THEOREM TableIsFaithfulView == Spec => Table!Safety /\ Details!Safety
<1>1. ASSUME Init PROVE RowsInv /\ Table!Init /\ Details!Init
  <2>1. RowsInv
    BY <1>1, InitInv
  <2>2. /\ log \in Seq(Entry(Object)) /\ mounted \in BOOLEAN
        /\ view = [o \in Object |-> 0] /\ detail = [o \in Object |-> 0]
    BY <1>1, <2>1 DEF RowsInv, TypeOK, Init, NoRows
  <2> QED  BY <2>1, <2>2
           DEF Table!Init, Table!Entry, Details!Init, Details!Entry, Entry
<1>2. ASSUME RowsInv, [Next]_vars
      PROVE  /\ RowsInv' /\ [Table!Next]_(Table!vars)
             /\ [Details!Next]_(Details!vars)
  <2>1. RowsInv' /\ Table!Extends(log, log')
    BY <1>2, RowsStepInv, LogGrows DEF RowsInv
  <2>2. Table!Next
    BY <2>1 DEF RowsInv, TypeOK, Real, Table!Next
  <2>3. Details!Next
    BY <2>1 DEF RowsInv, TypeOK, Real, Details!Next, Details!Extends,
       Details!Was, Table!Extends, Table!Was
  <2> QED  BY <2>1, <2>2, <2>3
<1>3. RowsInv /\ [Next]_vars
         => RowsInv' /\ [Table!Next]_(Table!vars) /\ [Details!Next]_(Details!vars)
  BY <1>2
<1> QED  BY <1>1, <1>3, PTL DEF Spec, Table!Safety, Details!Safety

(* The columns that polls leave as they are never go back in time but by a *)
(* watcher that is behind and has yet to send the newer state as well,     *)
(* however many polls overlap and however late one of them arrives.        *)
THEOREM DetailsForwardHolds == Spec => DetailsForward
<1> DEFINE Behind(o) == \E s \in Socket :
                            /\ sock'[s].phase \in {"send", "stream"}
                            /\ sock'[s].rev < detail[o]
<1>1. ASSUME RowsInv, [Next]_vars, NEW o \in Object,
             detail'[o] \in 1..(detail[o] - 1)
      PROVE  Behind(o)
  <2> USE DEF RowsInv
  <2>0. /\ detail[o] \in Nat /\ detail'[o] # detail[o] /\ detail'[o] # 0
        /\ detail'[o] \in Nat /\ detail'[o] < detail[o]
        /\ Len(log) \in Nat /\ sock \in [Socket -> Task]
    BY <1>1 DEF TypeOK
  <2>1. \E s \in Socket : EventArrives(s) \/ \E x \in Object : ItemArrives(s, x)
    <3>1. ASSUME NEW q \in Sync, SyncArrives(q) PROVE FALSE
      <4>1. \E listed : detail' = DetailsMerged(listed)
        BY <3>1 DEF SyncArrives
      <4>2. view[o] = 0
        BY <2>0, <4>1 DEF DetailsMerged
      <4> QED  BY <1>1, <2>0, <4>2 DEF Whole
    <3> QED  BY <1>1, <2>0, <3>1
    DEF Next, vars, rows, SocketStep, WatcherStep, TimerFires, StrayFires,
        Opens, Closed, Lost, GoesSilent, WatchdogFires, Lists, WatchFails,
        SyncStarts, SyncAnswered, SyncFails, MarkExpires, ClusterSwitched,
        BackendReplaced, Leave, Change, NoRows
  <2>2. ASSUME NEW s \in Socket, EventArrives(s) PROVE Behind(o)
    <3> DEFINE r == sock[s].rev + 1
    <3>1. /\ detail'[o] = r
      BY <1>1, <2>0, <2>2
      DEF EventArrives, Upsert, Remove, RowGoes, rows, TypeOK
    <3>2. sock'[s].rev = r /\ sock'[s].phase = "stream"
      BY <2>0, <2>2 DEF EventArrives, Works, Goes
    <3> QED  BY <2>0, <3>1, <3>2
  <2>3. ASSUME NEW s \in Socket, NEW x \in Object, ItemArrives(s, x)
        PROVE  Behind(o)
    <3> DEFINE r == sock[s].rev
    <3>1. r \in 0..Len(log) /\ r \in Nat
      BY <1>1, <2>0 DEF Task, ReadBefore
    <3>2. detail'[o] = Version(log, o, r)
      BY <1>1, <2>0, <2>3 DEF ItemArrives, Upsert, TypeOK
    <3>3. r < detail[o]
      <4>1. log[detail[o]].obj = o
        <5>1. detail[o] # 0
          BY <2>0
        <5>2. Table!Was(log, o, detail[o])
          BY <1>1, <5>1 DEF Real
        <5>3. log[detail[o]] = [obj |-> o, present |-> TRUE]
          BY <5>2 DEF Table!Was
        <5> QED  BY <5>3
      <4>2. detail[o] \notin 1..r
        BY <2>0, <3>1, <3>2, <4>1, VersionCatchesUp
      <4> QED  BY <2>0, <3>1, <4>2
    <3>4. sock'[s].rev = r /\ sock'[s].phase \in {"send", "stream"}
      BY <1>1, <2>0, <2>3 DEF ItemArrives, Works, Goes, WorksIfOpen
    <3> QED  BY <3>3, <3>4
  <2> QED  BY <2>1, <2>2, <2>3
<1>2. RowsInv /\ [Next]_vars
         => [\A o \in Object :
                detail'[o] \in 1..(detail[o] - 1) => Behind(o)]_vars
  BY <1>1
<1>3. Init => RowsInv
  BY InitInv
<1>4. RowsInv /\ [Next]_vars => RowsInv'
  BY RowsStepInv
<1> QED  BY <1>2, <1>3, <1>4, PTL DEF Spec, DetailsForward

-----------------------------------------------------------------------------
(* The marks of the deleted pods.                                          *)

LEMMA MarksStep ==
    ASSUME TypeOK, MarkedIsHidden, MarksExpire, [Next]_vars
    PROVE  MarkedIsHidden' /\ MarksExpire'
<1> USE DEF TypeOK, MarkedIsHidden, MarksExpire
<1>1. CASE UNCHANGED rows
  BY <1>1 DEF rows
<1>2. ASSUME NEW o, NEW v, Upsert(o, v) PROVE MarkedIsHidden' /\ MarksExpire'
  BY <1>2 DEF Upsert
<1>3. ASSUME NEW o \in Object, Remove(o) PROVE MarkedIsHidden' /\ MarksExpire'
  <2>1. CASE mounted
    BY <1>3, <2>1 DEF Remove, RowGoes
  <2>2. CASE ~mounted
    BY <1>1, <1>3, <2>2 DEF Remove
  <2> QED  BY <2>1, <2>2
<1>4. ASSUME NEW o \in Object, MarkExpires(o)
      PROVE  MarkedIsHidden' /\ MarksExpire'
  BY <1>4 DEF MarkExpires
<1>5. ASSUME NEW q \in Sync, SyncArrives(q)
      PROVE  MarkedIsHidden' /\ MarksExpire'
  BY <1>5 DEF SyncArrives, Reconciled
<1>6. CASE ClusterSwitched \/ Leave
  BY <1>6 DEF ClusterSwitched, Leave
<1>7. ASSUME NEW s \in Socket, EventArrives(s)
      PROVE  MarkedIsHidden' /\ MarksExpire'
  <2>1. sock[s].rev \in Nat
    BY DEF Task
  <2>2. sock[s].rev + 1 \in 1..Len(log)
    BY <1>7, <2>1 DEF EventArrives
  <2>3. log[sock[s].rev + 1] \in Entry(Object)
    BY <2>2
  <2>4. log[sock[s].rev + 1].obj \in Object
    BY <2>3 DEF Entry
  <2> QED  BY <1>2, <1>3, <1>7, <2>4 DEF EventArrives
<1>8. ASSUME NEW s \in Socket, NEW o \in Object, ItemArrives(s, o)
      PROVE  MarkedIsHidden' /\ MarksExpire'
  BY <1>2, <1>8 DEF ItemArrives
<1>9. CASE UNCHANGED vars
  BY <1>1, <1>9 DEF vars
<1>10. CASE Next
  <2> HIDE DEF TypeOK, MarkedIsHidden, MarksExpire
  <2> QED  BY <1>1, <1>4, <1>5, <1>6, <1>7, <1>8, <1>10
           DEF Next, SocketStep, WatcherStep, TimerFires, StrayFires, Opens,
               Closed, Lost, GoesSilent, WatchdogFires, Lists, WatchFails,
               SyncStarts, SyncAnswered, SyncFails, BackendReplaced, Change
<1> QED  BY <1>9, <1>10

(* No source brings a pod back while it is marked as deleted.              *)
THEOREM MarkedIsHiddenHolds == Spec => []MarkedIsHidden
<1> DEFINE J == RowsInv /\ MarksInv
<1>1. Init => J
  BY InitInv
<1>2. J /\ [Next]_vars => J'
  BY RowsStepInv, MarksStep DEF RowsInv, MarksInv
<1>3. J => MarkedIsHidden
  BY DEF MarksInv
<1> QED  BY <1>1, <1>2, <1>3, PTL DEF Spec

(* Every mark has a timer that takes it away.                              *)
THEOREM MarksExpireHolds == Spec => []MarksExpire
<1> DEFINE J == RowsInv /\ MarksInv
<1>1. Init => J
  BY InitInv
<1>2. J /\ [Next]_vars => J'
  BY RowsStepInv, MarksStep DEF RowsInv, MarksInv
<1>3. J => MarksExpire
  BY DEF MarksInv
<1> QED  BY <1>1, <1>2, <1>3, PTL DEF Spec

-----------------------------------------------------------------------------
(* The socket in use.                                                      *)

(* No step but a connect makes a socket one that is in use.                *)
NoneMore == \A s \in Socket : Live(s)' => Live(s)

LEMMA GoesOn ==
    ASSUME TypeOK, NEW s \in Socket, NEW t, Goes(s, t),
           Live(s) \/ t.state \notin {"connecting", "open", "silent"}
    PROVE  NoneMore
BY DEF TypeOK, NoneMore, Live, Goes

LEMMA DisconnectIs ==
    ASSUME SocketInv, Disconnect
    PROVE  /\ intentional' /\ current' = NoSocket
           /\ misread \/ \A s \in Socket : ~Live(s)'
<1> USE DEF SocketInv, RowsInv
<1>1. intentional' /\ current' = NoSocket
  BY DEF Disconnect
<1>2. ASSUME ~misread, NEW s \in Socket PROVE ~Live(s)'
  <2>1. CASE current = NoSocket
    BY <1>2, <2>1, RealtimePodsAssumption
    DEF Disconnect, InRef, Live, RealtimePodsAssumption
  <2>2. CASE current # NoSocket
    <3>1. PICK st \in {"closed", "closing"} : Goes(current, In(st))
      BY <2>2 DEF Disconnect
    <3>2. sock' = [sock EXCEPT ![current] = In(st)] /\ sock \in [Socket -> Task]
      BY <3>1 DEF Goes, TypeOK
    <3>3. In(st).state = st
      BY DEF In
    <3>4. CASE s = current
      BY <3>2, <3>3, <3>4 DEF Live
    <3>5. CASE s # current
      BY <1>2, <3>2, <3>5 DEF Live, InRef
    <3> QED  BY <3>4, <3>5
  <2> QED  BY <2>1, <2>2
<1> QED  BY <1>1, <1>2

LEMMA SocketStepInv == ASSUME SocketInv, [Next]_vars PROVE SocketInv'
<1> USE RealtimePodsAssumption DEF SocketInv, RealtimePodsAssumption
<1>0. RowsInv' /\ TypeOK /\ sock \in [Socket -> Task]
  BY RowsStepInv DEF RowsInv, TypeOK
<1>a. SUFFICES InRef' /\ LeftClosed'
  BY <1>0
<1>1. ASSUME NoneMore, UNCHANGED <<mounted, current, intentional, timer, strays, misread>>
      PROVE  InRef' /\ LeftClosed'
  BY <1>1 DEF NoneMore, InRef, LeftClosed
<1>2. ASSUME NEW s \in Socket,
             WatcherStep(s) \/ WatchFails(s) \/ Lost(s) \/ GoesSilent(s)
             \/ WatchdogFires(s) \/ Opens(s)
      PROVE  InRef' /\ LeftClosed'
  <2>1. UNCHANGED <<mounted, current, intentional, timer, strays, misread>>
    BY <1>2 DEF WatcherStep, Lists, EventArrives, ItemArrives, WatchFails, Lost,
       GoesSilent, WatchdogFires, Opens
  <2>2. NoneMore
    <3>1. CASE Lost(s) \/ GoesSilent(s) \/ WatchdogFires(s) \/ Opens(s)
      <4>1. Live(s)
        BY <3>1 DEF Lost, GoesSilent, WatchdogFires, Opens, Live
      <4>2. \E t : Goes(s, t)
        BY <3>1 DEF Lost, GoesSilent, WatchdogFires, Opens
      <4> QED  BY <1>0, <4>1, <4>2, GoesOn
    <3>2. CASE WatcherStep(s) \/ WatchFails(s)
      <4>1. sock[s].phase # "off"
        <5>1. CASE \E o \in Object : ItemArrives(s, o)
          BY <5>1 DEF ItemArrives, RowsInv, WorksIfOpen
        <5>2. CASE Lists(s) \/ EventArrives(s) \/ WatchFails(s)
          BY <5>2 DEF Lists, EventArrives, WatchFails
        <5> QED  BY <3>2, <5>1, <5>2 DEF WatcherStep
      <4>2. Live(s)
        BY <4>1 DEF RowsInv, WorksIfOpen, Live
      <4>3. \E ph, r, todo : Works(s, ph, r, todo)
        BY <3>2 DEF WatcherStep, Lists, EventArrives, ItemArrives, WatchFails
      <4>4. \E t : Goes(s, t)
        BY <4>3 DEF Works
      <4> QED  BY <1>0, <4>2, <4>4, GoesOn
    <3> QED  BY <1>2, <3>1, <3>2
  <2> QED  BY <1>1, <2>1, <2>2
<1>3. ASSUME NEW s \in Socket, Closed(s) PROVE InRef' /\ LeftClosed'
  <2>1. NoneMore /\ UNCHANGED <<mounted, intentional>> /\ OnClose(s) /\ ~Live(s)
    <3>1. Goes(s, In("closed")) /\ In("closed").state = "closed"
      BY <1>3 DEF Closed, In
    <3>2. NoneMore
      BY <1>0, <3>1, GoesOn
    <3> QED  BY <1>3, <3>2 DEF Closed, Live
  <2>2. CASE intentional
    BY <1>1, <2>1, <2>2 DEF OnClose
  <2>3. CASE ~intentional /\ s # current
    <3>1. misread' = TRUE
      BY <2>1, <2>3 DEF OnClose
    <3> QED  BY <3>1 DEF InRef, LeftClosed
  <2>4. CASE ~intentional /\ s = current /\ ~misread
    <3>1. current' = NoSocket /\ strays' = strays + (IF timer THEN 1 ELSE 0)
      BY <2>1, <2>4 DEF OnClose
    <3>2. strays = 0 /\ ~timer /\ mounted /\ \A u \in Socket : ~Live(u)
      BY <2>1, <2>4 DEF InRef, LeftClosed
    <3> QED  BY <2>1, <3>1, <3>2 DEF InRef, LeftClosed, NoneMore
  <2>5. CASE misread
    <3>1. misread'
      BY <2>1, <2>5 DEF OnClose
    <3> QED  BY <3>1 DEF InRef, LeftClosed
  <2> QED  BY <2>2, <2>3, <2>4, <2>5
<1>4. ASSUME TimerFires, ~misread PROVE InRef' /\ LeftClosed'
  <2>1. PICK s \in Socket : current' = s /\ Goes(s, In("connecting"))
    BY <1>4 DEF TimerFires, Connect, Unused
  <2>2. /\ timer /\ current = NoSocket /\ strays' = 0 /\ timer' = FALSE
        /\ mounted /\ mounted' = mounted
    BY <1>4 DEF TimerFires, InRef, LeftClosed
  <2>3. \A u \in Socket : ~Live(u)
    BY <1>4, <2>2 DEF InRef
  <2>4. \A u \in Socket : Live(u)' => u = s
    BY <1>0, <2>1, <2>3 DEF Goes, Live
  <2> QED  BY <2>1, <2>2, <2>4 DEF InRef, LeftClosed
<1>5. ASSUME StrayFires, ~misread PROVE FALSE
  BY <1>5 DEF StrayFires, InRef
<1>6. ASSUME misread, TimerFires \/ StrayFires PROVE InRef' /\ LeftClosed'
  BY <1>6 DEF TimerFires, StrayFires, InRef, LeftClosed
<1>7. CASE ClusterSwitched
  <2>1. /\ Disconnect /\ mounted /\ mounted' = mounted
        /\ strays' = strays /\ (misread => misread')
    BY <1>7 DEF ClusterSwitched
  <2>2. CASE misread
    BY <2>1, <2>2 DEF InRef, LeftClosed
  <2>3. CASE ~misread
    <3>1. strays' = 0 /\ current' = NoSocket /\ \A s \in Socket : ~Live(s)'
      BY <2>1, <2>3, DisconnectIs DEF InRef
    <3>2. mounted'
      BY <2>1
    <3> QED  BY <3>1, <3>2 DEF InRef, LeftClosed
  <2> QED  BY <2>2, <2>3
<1>8. CASE Leave
  <2>1. Disconnect /\ timer' = FALSE /\ strays' = strays /\ (misread => misread')
    BY <1>8 DEF Leave
  <2>2. CASE misread
    BY <2>1, <2>2 DEF InRef, LeftClosed
  <2>3. CASE ~misread
    <3>1. /\ intentional' /\ strays' = 0 /\ current' = NoSocket
          /\ \A s \in Socket : ~Live(s)'
      BY <2>1, <2>3, DisconnectIs DEF InRef
    <3> QED  BY <2>1, <3>1 DEF InRef, LeftClosed
  <2> QED  BY <2>2, <2>3
<1>9. CASE BackendReplaced
  <2>1. NoneMore
    <3>1. sock' = [s \in Socket |-> IF Live(s) THEN In("closing") ELSE sock[s]]
      BY <1>9 DEF BackendReplaced
    <3>2. ASSUME NEW s \in Socket, ~Live(s) PROVE sock'[s] = sock[s]
      BY <3>1, <3>2
    <3> QED  BY <3>2 DEF NoneMore, Live
  <2> QED  BY <1>1, <1>9, <2>1 DEF BackendReplaced
<1>10. CASE UNCHANGED <<mounted, sockets>>
  <2>1. NoneMore
    BY <1>10 DEF sockets, NoneMore, Live
  <2> QED  BY <1>1, <1>10, <2>1 DEF sockets
<1>11. CASE UNCHANGED vars
  BY <1>10, <1>11 DEF vars
<1>12. CASE Next
  <2>1. ASSUME \/ SyncStarts \/ Change
               \/ \E q \in Sync : SyncAnswered(q) \/ SyncArrives(q) \/ SyncFails(q)
               \/ \E o \in Object : MarkExpires(o)
        PROVE  InRef' /\ LeftClosed'
    BY <1>10, <2>1 DEF SyncStarts, Change, SyncAnswered, SyncArrives, SyncFails,
       MarkExpires
  <2> QED  BY <1>2, <1>3, <1>4, <1>5, <1>6, <1>7, <1>8, <1>9, <1>12, <2>1
           DEF Next, SocketStep
<1> QED  BY <1>11, <1>12

(* At most one socket is being opened or in use, for any number of socket  *)
(* objects, unless the end of an old one was misread.                      *)
THEOREM OneSocketHolds == Spec => []OneSocket
<1>1. Init => SocketInv
  BY InitInv
<1>2. SocketInv /\ [Next]_vars => SocketInv'
  BY SocketStepInv
<1>3. SocketInv => OneSocket
  BY DEF SocketInv, InRef, OneSocket
<1> QED  BY <1>1, <1>2, <1>3, PTL DEF Spec

(* A page that is left leaves nothing behind, with the same exception.     *)
THEOREM NothingLeftHolds == Spec => []NothingLeft
<1>1. Init => SocketInv
  BY InitInv
<1>2. SocketInv /\ [Next]_vars => SocketInv'
  BY SocketStepInv
<1>3. SocketInv => NothingLeft
  BY RealtimePodsAssumption
  DEF SocketInv, InRef, LeftClosed, NothingLeft, RealtimePodsAssumption
<1> QED  BY <1>1, <1>2, <1>3, PTL DEF Spec

-----------------------------------------------------------------------------
(* The connection that is kept.                                            *)

(* A disconnect of a page that stays plans the next connect.               *)
PlannedIfClosed == misread \/ ~mounted \/ ~intentional \/ timer

(* The guard timers belong to the socket that is open.                     *)
Guarded ==
    misread \/ \A s \in Socket : sock[s].state \in {"open", "silent"} => guard = s

KeptInv == SocketInv /\ PlannedIfClosed /\ Guarded /\ ConnectionKept

(* What a step does to the sockets, whatever else it does.                 *)
LEMMA GoesIs ==
    ASSUME TypeOK, NEW s \in Socket, NEW t, Goes(s, t)
    PROVE  sock'[s] = t /\ \A u \in Socket \ {s} : sock'[u] = sock[u]
BY DEF TypeOK, Goes

LEMMA WorksIs ==
    ASSUME SocketInv, NEW s \in Socket, WatcherStep(s) \/ WatchFails(s)
    PROVE  /\ sock[s].state = "open" /\ sock'[s].state = "open"
           /\ \A u \in Socket \ {s} : sock'[u] = sock[u]
<1> USE DEF SocketInv, RowsInv
<1>1. sock[s].phase # "off"
  <2>1. CASE \E o \in Object : ItemArrives(s, o)
    BY <2>1 DEF ItemArrives, WorksIfOpen
  <2>2. CASE Lists(s) \/ EventArrives(s) \/ WatchFails(s)
    BY <2>2 DEF Lists, EventArrives, WatchFails
  <2> QED  BY <2>1, <2>2 DEF WatcherStep
<1>2. PICK ph, r, todo : Works(s, ph, r, todo)
  BY DEF WatcherStep, Lists, EventArrives, ItemArrives, WatchFails
<1> QED  BY <1>1, <1>2, GoesIs DEF Works, WorksIfOpen

LEMMA KeptStep == ASSUME KeptInv, [Next]_vars PROVE KeptInv'
<1> USE RealtimePodsAssumption DEF KeptInv, RealtimePodsAssumption
<1>0. SocketInv' /\ TypeOK
  BY SocketStepInv DEF SocketInv, RowsInv
<1>a. SUFFICES ASSUME ~misread'
               PROVE  PlannedIfClosed' /\ Guarded' /\ ConnectionKept'
  BY <1>0 DEF PlannedIfClosed, Guarded, ConnectionKept
<1>b. SUFFICES ASSUME ~misread
               PROVE  PlannedIfClosed' /\ Guarded' /\ ConnectionKept'
  <2>1. misread => misread'
    BY DEF Next, vars, sockets, SocketStep, WatcherStep, TimerFires,
       StrayFires, Opens, Closed, OnClose, Lost, GoesSilent, WatchdogFires,
       Lists, ItemArrives, EventArrives, WatchFails, SyncStarts, SyncAnswered,
       SyncFails, SyncArrives, MarkExpires, ClusterSwitched, BackendReplaced,
       Leave, Change
  <2> QED  BY <1>a, <2>1
<1>c. /\ strays = 0 /\ (timer => current = NoSocket)
      /\ \A s \in Socket : Live(s) => s = current
  BY <1>b DEF SocketInv, InRef
<1>1. CASE UNCHANGED <<mounted, sockets>>
  BY <1>1 DEF sockets, PlannedIfClosed, Guarded, ConnectionKept
<1>2. CASE TimerFires
  <2>1. PICK s \in Socket : Goes(s, In("connecting"))
    BY <1>2 DEF TimerFires, Connect, Unused
  <2>2. /\ sock'[s].state = "connecting" /\ intentional' = FALSE
        /\ \A u \in Socket \ {s} : sock'[u] = sock[u]
    BY <1>0, <1>2, <2>1, GoesIs DEF TimerFires, Connect, In
  <2>3. UNCHANGED guard
    BY <1>2 DEF TimerFires
  <2> QED  BY <1>b, <2>2, <2>3 DEF PlannedIfClosed, Guarded, ConnectionKept
<1>3. ASSUME StrayFires PROVE FALSE
  BY <1>3, <1>c DEF StrayFires
<1>4. ASSUME NEW s \in Socket, Opens(s)
      PROVE  PlannedIfClosed' /\ Guarded' /\ ConnectionKept'
  <2>1. /\ sock[s].state = "connecting"
        /\ UNCHANGED <<mounted, current, intentional, timer>>
        /\ s = current
    BY <1>4, <1>c DEF Opens, Live
  <2>2. \A u \in Socket \ {s} : sock[u].state \notin {"open", "silent"}
    BY <1>c, <2>1 DEF Live
  <2>3. CASE intentional
    <3>1. /\ sock'[s].state = "closing" /\ UNCHANGED guard
          /\ \A u \in Socket \ {s} : sock'[u] = sock[u]
      BY <1>0, <1>4, <2>3, GoesIs DEF Opens, In
    <3> QED  BY <1>b, <2>1, <2>2, <2>3, <3>1
             DEF PlannedIfClosed, Guarded, ConnectionKept
  <2>4. CASE ~intentional
    <3>1. /\ sock'[s].state = "open" /\ guard' = s
          /\ \A u \in Socket \ {s} : sock'[u] = sock[u]
      BY <1>0, <1>4, <2>4, GoesIs DEF Opens, In
    <3> QED  BY <1>b, <2>1, <2>2, <2>4, <3>1
             DEF PlannedIfClosed, Guarded, ConnectionKept
  <2> QED  BY <2>3, <2>4
<1>5. ASSUME NEW s \in Socket, Closed(s)
      PROVE  PlannedIfClosed' /\ Guarded' /\ ConnectionKept'
  <2>1. /\ sock[s].state = "closing" /\ sock'[s].state = "closed"
        /\ \A u \in Socket \ {s} : sock'[u] = sock[u]
        /\ OnClose(s) /\ UNCHANGED <<mounted, intentional>>
    BY <1>0, <1>5, GoesIs DEF Closed, In
  <2>2. CASE intentional
    <3>1. UNCHANGED <<current, guard, timer>>
      BY <2>1, <2>2 DEF OnClose
    <3> QED  BY <1>b, <2>1, <2>2, <3>1
             DEF PlannedIfClosed, Guarded, ConnectionKept
  <2>3. CASE ~intentional
    <3>1. timer' = TRUE /\ s = current
      BY <1>a, <2>1, <2>3 DEF OnClose
    <3>2. \A u \in Socket : sock'[u].state \notin {"open", "silent"}
      BY <1>c, <2>1, <3>1 DEF Live
    <3> QED  BY <3>1, <3>2 DEF PlannedIfClosed, Guarded, ConnectionKept
  <2> QED  BY <2>2, <2>3
<1>6. ASSUME NEW s \in Socket, Lost(s) \/ WatchdogFires(s)
      PROVE  PlannedIfClosed' /\ Guarded' /\ ConnectionKept'
  <2>1. /\ sock'[s].state = "closing"
        /\ \A u \in Socket \ {s} : sock'[u] = sock[u]
        /\ UNCHANGED <<mounted, guard, intentional, timer>>
    BY <1>0, <1>6, GoesIs DEF Lost, WatchdogFires, In
  <2> QED  BY <1>b, <2>1 DEF PlannedIfClosed, Guarded, ConnectionKept
<1>7. ASSUME NEW s \in Socket, GoesSilent(s)
      PROVE  PlannedIfClosed' /\ Guarded' /\ ConnectionKept'
  <2>1. /\ sock[s].state = "open" /\ sock'[s].state = "silent"
        /\ \A u \in Socket \ {s} : sock'[u] = sock[u]
        /\ UNCHANGED <<mounted, guard, intentional, timer>>
    BY <1>0, <1>7, GoesIs DEF GoesSilent, In
  <2>2. guard = s
    BY <1>b, <2>1 DEF Guarded
  <2> QED  BY <1>b, <2>1, <2>2 DEF PlannedIfClosed, Guarded, ConnectionKept
<1>8. ASSUME NEW s \in Socket, WatcherStep(s) \/ WatchFails(s)
      PROVE  PlannedIfClosed' /\ Guarded' /\ ConnectionKept'
  <2>1. \A u \in Socket : sock'[u].state = sock[u].state
    BY <1>8, WorksIs
  <2>2. UNCHANGED <<mounted, guard, intentional, timer>>
    BY <1>8 DEF WatcherStep, Lists, EventArrives, ItemArrives, WatchFails
  <2> QED  BY <1>b, <2>1, <2>2 DEF PlannedIfClosed, Guarded, ConnectionKept
<1>9. CASE BackendReplaced
  <2>1. \A u \in Socket : sock'[u].state =
                          IF Live(u) THEN "closing" ELSE sock[u].state
    BY <1>9 DEF BackendReplaced, In
  <2>2. UNCHANGED <<mounted, guard, intentional, timer>>
    BY <1>9 DEF BackendReplaced
  <2> QED  BY <1>b, <2>1, <2>2 DEF PlannedIfClosed, Guarded, ConnectionKept, Live
<1>10. CASE ClusterSwitched \/ Leave
  <2>1. Disconnect /\ (timer' = TRUE \/ mounted' = FALSE)
    BY <1>10 DEF ClusterSwitched, Leave
  <2>2. \A s \in Socket : ~Live(s)'
    BY <1>b, <2>1, DisconnectIs
  <2> QED  BY <2>1, <2>2 DEF PlannedIfClosed, Guarded, ConnectionKept, Live
<1>11. CASE UNCHANGED vars
  BY <1>1, <1>11 DEF vars
<1>12. CASE Next
  <2>1. ASSUME \/ SyncStarts \/ Change
               \/ \E q \in Sync : SyncAnswered(q) \/ SyncArrives(q) \/ SyncFails(q)
               \/ \E o \in Object : MarkExpires(o)
        PROVE  UNCHANGED <<mounted, sockets>>
    BY <2>1 DEF SyncStarts, Change, SyncAnswered, SyncArrives, SyncFails,
       MarkExpires
  <2> QED  BY <1>1, <1>2, <1>3, <1>4, <1>5, <1>6, <1>7, <1>8, <1>9, <1>10,
              <1>12, <2>1 DEF Next, SocketStep
<1> QED  BY <1>11, <1>12

(* A page that stays is never without a connection and without anything    *)
(* that will make one, however many sockets are lost, fall silent, fail to *)
(* open or are closed by a switch: what the promise to reconnect rests on. *)
THEOREM ConnectionKeptHolds == Spec => []ConnectionKept
<1>1. Init => KeptInv
  <2>1. ASSUME Init PROVE PlannedIfClosed /\ Guarded /\ ConnectionKept
    BY <2>1 DEF PlannedIfClosed, Guarded, ConnectionKept, Init, In
  <2> QED  BY <2>1, InitInv DEF KeptInv
<1>2. KeptInv /\ [Next]_vars => KeptInv'
  BY KeptStep
<1>3. KeptInv => ConnectionKept
  BY DEF KeptInv
<1> QED  BY <1>1, <1>2, <1>3, PTL DEF Spec
=============================================================================
