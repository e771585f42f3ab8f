----------------------------- MODULE RealtimePods -----------------------------
(***************************************************************************)
(* The pods hook (useRealtimePods in frontend/src/hooks/useRealtimePods.ts)*)
(* with its own WebSocket, the pods watcher of the backend at the far end  *)
(* of every open one (watch_pods in backend/src/ws_handler.rs), and the    *)
(* REST list that is merged every five seconds.  All sockets of the hook   *)
(* share one intentionalCloseRef, one wsRef and one pair of guard timers.  *)
(* A row has two groups of columns: those that a poll refreshes as an      *)
(* event does (status, phase, ready, restarts, node, ip, age, labels,      *)
(* annotations), and those that a poll leaves as they are once the row is  *)
(* there (containers, owner, QoS class and the like).  Both sources are    *)
(* taken to fill all columns of their group: keepField, which keeps an old *)
(* value where the new one is empty, the metrics, which the polls alone    *)
(* bring, and last_error, which a healthy status clears, are left out.     *)
(***************************************************************************)
EXTENDS ClusterLog

CONSTANTS
    Object,      \* pods
    Socket,      \* WebSocket objects alive at a time
    NoSocket,    \* null
    Sync,        \* calls of syncPodDetails in flight at a time
    InitRev,     \* bound: pods there are when the page is opened
    MaxRev,      \* bound: changes of the cluster
    MaxFaults,   \* bound: requests, connections and streams that fail
    Switches     \* the user may switch the cluster

ASSUME RealtimePodsAssumption ==
    /\ NoSocket \notin Socket
    /\ InitRev \in Nat /\ MaxRev \in Nat /\ MaxFaults \in Nat
    /\ Switches \in BOOLEAN

VARIABLES
    log,          \* the cluster
    mounted,      \* the page is there
    view,         \* data: the columns that polls refresh
    detail,       \* data: the columns that polls leave as they are
    deleted,      \* deletedPodsRef
    expiring,     \* timers that will take a pod out of deletedPodsRef
    sync,         \* the calls of syncPodDetails
    sock,         \* every socket and the pods watcher at its far end
    current,      \* wsRef
    intentional,  \* intentionalCloseRef
    guard,        \* the socket that heartbeat and watchdog belong to
    timer,        \* the timer in reconnectTimeoutRef is pending
    strays,       \* reconnect timers that a later one has pushed out of it
    switching,    \* the cluster switch: not begun, announced, done
    faults,
    misread       \* the end of an old socket was taken for a lost connection

rows    == <<view, detail, deleted, expiring>>
sockets == <<sock, current, intentional, guard, timer, strays, misread>>
vars    == <<log, mounted, rows, sync, sockets, switching, faults>>

Phase == {"off", "list", "send", "stream", "backoff"}
Task  == [state : {"closed", "connecting", "open", "silent", "closing"},
          phase : Phase, rev : Nat, todo : SUBSET Object]
Fetch == [state : {"idle", "asked", "answered"}, rev : Nat]

TypeOK ==
    /\ log \in Seq(Entry(Object)) /\ mounted \in BOOLEAN
    /\ view \in [Object -> Nat] /\ detail \in [Object -> Nat]
    /\ deleted \in SUBSET Object /\ expiring \in [Object -> Nat]
    /\ sync \in [Sync -> Fetch] /\ sock \in [Socket -> Task]
    /\ current \in Socket \cup {NoSocket} /\ guard \in Socket \cup {NoSocket}
    /\ intentional \in BOOLEAN /\ timer \in BOOLEAN /\ strays \in Nat
    /\ switching \in {"no", "announced", "done"}
    /\ faults \in 0..MaxFaults /\ misread \in BOOLEAN

-----------------------------------------------------------------------------
Idle     == [state |-> "idle", rev |-> 0]
Asked    == [state |-> "asked", rev |-> 0]
Answered == [state |-> "answered", rev |-> Len(log)]
In(st)   == [state |-> st, phase |-> "off", rev |-> 0, todo |-> {}]
NoRows   == [o \in Object |-> 0]
Present  == PresentAt(log, Object, Len(log))

Live(s)    == sock[s].state \in {"connecting", "open", "silent"}
Goes(s, t) == sock' = [sock EXCEPT ![s] = t]

Fault   == faults < MaxFaults /\ faults' = faults + 1

Contents == {h \in UNION {[1..n -> Entry(Object)] : n \in 0..InitRev} :
                 /\ \A i \in DOMAIN h : h[i].present
                 /\ \A i, j \in DOMAIN h : h[i].obj = h[j].obj => i = j}

(* The page has just been opened: the first connect is 180 ms away.        *)
Init ==
    /\ log \in Contents /\ mounted = TRUE
    /\ view = NoRows /\ detail = NoRows /\ deleted = {} /\ expiring = NoRows
    /\ sync = [q \in Sync |-> Idle] /\ sock = [s \in Socket |-> In("closed")]
    /\ current = NoSocket /\ intentional = FALSE /\ guard = NoSocket
    /\ timer = TRUE /\ strays = 0 /\ misread = FALSE
    /\ switching = "no" /\ faults = 0

-----------------------------------------------------------------------------
(* Rows.                                                                   *)

(* ADDED and MODIFIED are ignored while the pod is marked as deleted, and  *)
(* by a page that has been left; otherwise they bring the whole row.       *)
Upsert(o, v) ==
    /\ IF o \in deleted \/ ~mounted THEN UNCHANGED <<view, detail>>
       ELSE /\ view' = [view EXCEPT ![o] = v]
            /\ detail' = [detail EXCEPT ![o] = v]
    /\ UNCHANGED <<deleted, expiring>>

RowGoes(o) == view' = [view EXCEPT ![o] = 0] /\ detail' = [detail EXCEPT ![o] = 0]

(* Mutant of Remove: the mark is set without a timer.                      *)
RemoveUntimed(o) ==
    IF ~mounted THEN UNCHANGED rows
    ELSE /\ RowGoes(o)
         /\ deleted' = deleted \cup {o} /\ UNCHANGED expiring

(* DELETED takes the row away and marks the pod for 500 ms.  The timers    *)
(* are not kept: an earlier one takes a later mark away before its time.   *)
Remove(o) ==
    IF ~mounted THEN UNCHANGED rows
    ELSE /\ RowGoes(o)
         /\ deleted' = deleted \cup {o}
         /\ expiring' = [expiring EXCEPT ![o] = @ + 1]

MarkExpires(o) ==
    /\ expiring[o] > 0
    /\ expiring' = [expiring EXCEPT ![o] = @ - 1]
    /\ deleted' = deleted \ {o}
    /\ UNCHANGED <<log, mounted, view, detail, sync, sockets, switching, faults>>

(* Mutant of Reconciled: the list adds pods that are marked.               *)
ReconciledReadds(listed) == listed

(* Mutant of Reconciled: a row missing from the list is kept.              *)
ReconciledKeeps(listed) ==
    [o \in Object |->
        IF listed[o] = 0 \/ (o \in deleted /\ view[o] = 0) THEN view[o]
        ELSE listed[o]]

(* A row missing from the REST list goes at the first miss (missCount >= 1 *)
(* holds at once), a listed pod gets a row unless it is marked.            *)
Reconciled(listed) ==
    [o \in Object |->
        IF o \in deleted /\ (listed[o] = 0 \/ view[o] = 0) THEN view[o]
        ELSE listed[o]]

(* Mutant of DetailsMerged: the listed pod takes the place of the row.     *)
DetailsReplaced(listed) == Reconciled(listed)

(* The other columns: a row that goes takes them along, a pod that is new  *)
(* brings them, and a row that stays keeps its own.                        *)
DetailsMerged(listed) ==
    [o \in Object |->
        IF Reconciled(listed)[o] = 0 THEN 0
        ELSE IF view[o] = 0 THEN listed[o] ELSE detail[o]]

-----------------------------------------------------------------------------
(* syncPodDetails.  The calls overlap, nothing aborts them, and each is    *)
(* merged when it arrives.                                                 *)

Free == {q \in Sync : sync[q].state = "idle"}
Begin == sync' = [sync EXCEPT ![CHOOSE q \in Free : TRUE] = Asked]

SyncStarts ==
    /\ mounted /\ Free # {} /\ Begin
    /\ UNCHANGED <<log, mounted, rows, sockets, switching, faults>>

SyncAnswered(q) ==
    /\ sync[q].state = "asked"
    /\ sync' = [sync EXCEPT ![q] = Answered]
    /\ UNCHANGED <<log, mounted, rows, sockets, switching, faults>>

SyncFails(q) ==
    /\ sync[q].state = "asked" /\ Fault
    /\ sync' = [sync EXCEPT ![q] = Idle]
    /\ UNCHANGED <<log, mounted, rows, sockets, switching>>

SyncArrives(q) ==
    /\ sync[q].state = "answered"
    /\ sync' = [sync EXCEPT ![q] = Idle]
    /\ LET listed == ListAt(log, Object, sync[q].rev)
       IN view' = Reconciled(listed) /\ detail' = DetailsMerged(listed)
    /\ UNCHANGED <<log, mounted, deleted, expiring, sockets, switching, faults>>

-----------------------------------------------------------------------------
(* Sockets.                                                                *)

Unused == {s \in Socket : sock[s].state = "closed"}

(* connect() looks at no other socket.                                     *)
Connect ==
    /\ intentional' = FALSE
    /\ Unused # {}
    /\ current' = CHOOSE s \in Unused : TRUE
    /\ Goes(current', In("connecting"))

TimerFires ==
    /\ timer /\ timer' = FALSE /\ Connect
    /\ UNCHANGED <<log, mounted, rows, sync, guard, strays, switching, faults, misread>>

StrayFires ==
    /\ strays > 0 /\ strays' = strays - 1 /\ Connect
    /\ UNCHANGED <<log, mounted, rows, sync, guard, timer, switching, faults, misread>>

(* onopen: the guard timers are moved to this socket, the pods subscribed, *)
(* and the rows fetched once more.                                         *)
Opens(s) ==
    /\ sock[s].state = "connecting"
    /\ IF intentional
       THEN Goes(s, In("closing")) /\ UNCHANGED <<guard, sync>>
       ELSE /\ Goes(s, [In("open") EXCEPT !.phase = "list"])
            /\ guard' = s
            /\ IF mounted /\ Free # {} THEN Begin ELSE UNCHANGED sync
    /\ UNCHANGED <<log, mounted, rows, current, intentional, timer, strays,
                   switching, faults, misread>>

(* Mutant of OnClose: no reconnect.                                        *)
OnCloseForgets(s) ==
    IF intentional THEN UNCHANGED <<current, guard, timer, strays, misread>>
    ELSE /\ guard' = NoSocket /\ current' = NoSocket
         /\ UNCHANGED <<timer, strays>>
         /\ misread' = (misread \/ s # current)

(* onclose.                                                                *)
OnClose(s) ==
    IF intentional THEN UNCHANGED <<current, guard, timer, strays, misread>>
    ELSE /\ guard' = NoSocket /\ current' = NoSocket
         /\ timer' = TRUE /\ strays' = strays + (IF timer THEN 1 ELSE 0)
         /\ misread' = (misread \/ s # current)

Closed(s) ==
    /\ sock[s].state = "closing"
    /\ Goes(s, In("closed")) /\ OnClose(s)
    /\ UNCHANGED <<log, mounted, rows, sync, intentional, switching, faults>>

(* A connect that fails, or a connection that is lost.                     *)
Lost(s) ==
    /\ Live(s) /\ Fault
    /\ Goes(s, In("closing"))
    /\ UNCHANGED <<log, mounted, rows, sync, current, intentional, guard,
                   timer, strays, switching, misread>>

GoesSilent(s) ==
    /\ sock[s].state = "open" /\ Fault
    /\ Goes(s, In("silent"))
    /\ UNCHANGED <<log, mounted, rows, sync, current, intentional, guard,
                   timer, strays, switching, misread>>

WatchdogFires(s) ==
    /\ guard = s /\ sock[s].state = "silent"
    /\ Goes(s, In("closing"))
    /\ UNCHANGED <<log, mounted, rows, sync, current, intentional, guard,
                   timer, strays, switching, faults, misread>>

(* Mutant of Disconnect: a connecting socket keeps its callbacks.          *)
DisconnectIfOpen ==
    /\ intentional' = TRUE /\ guard' = NoSocket /\ current' = NoSocket
    /\ IF current # NoSocket /\ sock[current].state # "connecting"
       THEN Goes(current, In("closing")) ELSE UNCHANGED sock

(* disconnect(): a connecting socket loses its callbacks and is closed as  *)
(* soon as it opens; of an open one onclose is still to come.              *)
Disconnect ==
    /\ intentional' = TRUE /\ guard' = NoSocket /\ current' = NoSocket
    /\ IF current = NoSocket THEN UNCHANGED sock
       ELSE Goes(current, In(IF sock[current].state = "connecting"
                             THEN "closed" ELSE "closing"))

-----------------------------------------------------------------------------
(* The pods watcher at the far end of a socket.  What it sends is handled  *)
(* whether or not the socket is the current one.                           *)

Works(s, ph, r, todo) ==
    Goes(s, [state |-> "open", phase |-> ph, rev |-> r, todo |-> todo])

(* The first list, and the list that every watch stream begins with.       *)
Lists(s) ==
    /\ \/ sock[s].phase \in {"list", "backoff"}
       \/ sock[s].phase = "send" /\ sock[s].todo = {}
    /\ Works(s, IF sock[s].phase = "list" THEN "send" ELSE "stream", Len(log), Present)
    /\ UNCHANGED <<log, mounted, rows, sync, current, intentional, guard,
                   timer, strays, switching, faults, misread>>

ItemArrives(s, o) ==
    /\ o \in sock[s].todo
    /\ Works(s, sock[s].phase, sock[s].rev, sock[s].todo \ {o})
    /\ Upsert(o, Version(log, o, sock[s].rev))
    /\ UNCHANGED <<log, mounted, sync, current, intentional, guard, timer,
                   strays, switching, faults, misread>>

EventArrives(s) ==
    /\ sock[s].phase = "stream" /\ sock[s].todo = {} /\ sock[s].rev < Len(log)
    /\ LET r == sock[s].rev + 1 IN
       /\ Works(s, "stream", r, {})
       /\ IF log[r].present THEN Upsert(log[r].obj, r) ELSE Remove(log[r].obj)
    /\ UNCHANGED <<log, mounted, sync, current, intentional, guard, timer,
                   strays, switching, faults, misread>>

(* The list or the stream fails: for good, or to be started again.         *)
WatchFails(s) ==
    /\ sock[s].phase \in {"list", "stream"} /\ Fault
    /\ \E ph \in {"off"} \cup (IF sock[s].phase = "stream" THEN {"backoff"} ELSE {}) :
          Works(s, ph, 0, {})
    /\ UNCHANGED <<log, mounted, rows, sync, current, intentional, guard,
                   timer, strays, switching, misread>>

-----------------------------------------------------------------------------
(* cluster:switched empties the table and runs the effect again, which     *)
(* disconnects and connects 180 ms later.  What a sync in flight brings,   *)
(* and a pending mark timer, stay what they are.                           *)
ClusterSwitched ==
    /\ mounted /\ Switches /\ switching = "no" /\ switching' = "announced"
    /\ view' = NoRows /\ detail' = NoRows /\ deleted' = {} /\ UNCHANGED expiring
    /\ Disconnect /\ timer' = TRUE
    /\ UNCHANGED <<log, mounted, sync, strays, faults, misread>>

(* The backend goes with its connections, and the old pods with it.        *)
Dropped == {g \in UNION {[1..n -> Present] : n \in 0..Len(log)} :
              /\ Present = {g[i] : i \in DOMAIN g}
              /\ \A i, j \in DOMAIN g : g[i] = g[j] => i = j}

BackendReplaced ==
    /\ switching = "announced" /\ switching' = "done"
    /\ \E g \in Dropped :
          log' = log \o [i \in DOMAIN g |-> [obj |-> g[i], present |-> FALSE]]
    /\ sock' = [s \in Socket |-> IF Live(s) THEN In("closing") ELSE sock[s]]
    /\ UNCHANGED <<mounted, rows, sync, current, intentional, guard, timer,
                   strays, faults, misread>>

(* Mutant of Leave: the pending connect is not cleared.                    *)
LeaveTimer ==
    /\ mounted /\ mounted' = FALSE
    /\ view' = NoRows /\ detail' = NoRows /\ deleted' = {} /\ expiring' = NoRows
    /\ sync' = [q \in Sync |-> Idle]
    /\ Disconnect
    /\ UNCHANGED <<log, timer, strays, switching, faults, misread>>

(* The page is left and its table is gone, whatever is still to arrive for *)
(* it; a timer outside reconnectTimeoutRef is not cleared.                 *)
Leave ==
    /\ mounted /\ mounted' = FALSE
    /\ view' = NoRows /\ detail' = NoRows /\ deleted' = {} /\ expiring' = NoRows
    /\ sync' = [q \in Sync |-> Idle]
    /\ Disconnect /\ timer' = FALSE
    /\ UNCHANGED <<log, strays, switching, faults, misread>>

Change ==
    /\ mounted /\ Len(log) < MaxRev
    /\ \E o \in Object : log' \in Changed(log, o)
    /\ UNCHANGED <<mounted, rows, sync, sockets, switching, faults>>

-----------------------------------------------------------------------------
WatcherStep(s) ==
    Lists(s) \/ EventArrives(s) \/ \E o \in Object : ItemArrives(s, o)

SocketStep(s) == Opens(s) \/ Closed(s) \/ WatchdogFires(s)

Next ==
    \/ TimerFires \/ StrayFires
    \/ \E s \in Socket : \/ SocketStep(s) \/ WatcherStep(s)
                         \/ Lost(s) \/ GoesSilent(s) \/ WatchFails(s)
    \/ SyncStarts
    \/ \E q \in Sync : SyncAnswered(q) \/ SyncArrives(q) \/ SyncFails(q)
    \/ \E o \in Object : MarkExpires(o)
    \/ ClusterSwitched \/ BackendReplaced \/ Leave \/ Change

Spec == Init /\ [][Next]_vars

(* Timers fire, the browser opens or closes a socket, requests are answered *)
(* or fail, and the interval goes on.  The cluster, the user and the switch *)
(* owe nothing, nor do the watchers: the polls make up for a dead one.     *)
FairSpec ==
    /\ Spec
    /\ WF_vars(TimerFires)
    /\ \A s \in Socket : WF_vars(SocketStep(s))
    /\ WF_vars(SyncStarts)
    /\ \A q \in Sync : WF_vars(SyncAnswered(q) \/ SyncArrives(q))
    /\ \A o \in Object : WF_vars(MarkExpires(o))

-----------------------------------------------------------------------------
Table   == INSTANCE LiveView WITH lossy <- ~mounted
Details == INSTANCE LiveView WITH view <- detail, lossy <- TRUE

(* The columns that polls refresh implement LiveView with nothing lost     *)
(* while the page is there: whatever the sockets deliver twice, late or    *)
(* not at all, and in whatever order overlapping polls arrive, the polls   *)
(* bring them to what the cluster holds.  The other columns too show the   *)
(* pod as it was, though not always at the same revision as the rest of    *)
(* the row; that they settle is not promised, since no poll makes up for   *)
(* an event that was lost.                                                 *)
Implements == Table!Spec /\ Details!Safety

(* The columns that polls leave go back in time only by a watcher that has *)
(* yet to send what it set back; no poll, however late, takes them along.  *)
DetailsForward ==
    [][\A o \in Object : detail'[o] \in 1..(detail[o] - 1) =>
         \E s \in Socket : /\ sock'[s].phase \in {"send", "stream"}
                           /\ sock'[s].rev < detail[o]]_vars

(* No source brings a pod back while it is marked as deleted.              *)
MarkedIsHidden == \A o \in deleted : view[o] = 0

(* Every mark has a timer that takes it away; without one the pod's name   *)
(* would be hidden for as long as the page is open.                        *)
MarksExpire == \A o \in deleted : expiring[o] > 0

(* At most one socket is being opened or in use, unless the end of an old  *)
(* one was taken for the loss of the new one.                              *)
OneSocket ==
    misread \/ \A s, t \in Socket : Live(s) /\ Live(t) => s = t

(* A page that is left leaves no connection and no reconnect behind, with  *)
(* the same exception.                                                     *)
NothingLeft ==
    ~mounted /\ ~misread =>
        timer = FALSE /\ strays = 0 /\ \A s \in Socket : ~Live(s)

(* The page never waits for nothing: a connect is planned, or there is a   *)
(* socket whose end will plan one, and a silent one has the watchdog that  *)
(* ends it; no order of opening, loss, silence and switch loses the thread.*)
ConnectionKept ==
    mounted /\ ~misread =>
        \/ timer
        \/ /\ ~intentional
           /\ \E s \in Socket :
                 \/ sock[s].state \in {"connecting", "open", "closing"}
                 \/ sock[s].state = "silent" /\ guard = s

(* As long as the page is there, a socket is in use again and again: the   *)
(* connection that is lost, silent or closed by the switch is replaced.    *)
Reconnects ==
    []<>(misread \/ ~mounted \/ \E s \in Socket : sock[s].state = "open")
=============================================================================
