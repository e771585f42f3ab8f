----------------------------- MODULE RealtimeList -----------------------------
(***************************************************************************)
(* A resource list of the UI (createRealtimeHook and                       *)
(* useRealtimeCustomResources in frontend/src/hooks/useRealtimeResources.ts)*)
(* with what feeds it: the snapshot fetched when the page is opened, the   *)
(* reconcile polls some types have, and the events of the watchers that    *)
(* the backend starts per subscription (backend/src/ws_handler.rs).  Each  *)
(* source reads the cluster at its own time and arrives at another.  The   *)
(* socket itself is the subject of RealtimeSocket; here it is up or down.  *)
(***************************************************************************)
EXTENDS ClusterLog

CONSTANTS
    Object,      \* objects of the listed type
    Listed,      \* the resource types to look at
    Watcher,     \* watcher tasks at the far end of the socket
    Ours,        \* the one that a subscribe message of this list starts
    Poll,        \* reconcile polls in flight at a time
    InitRev,     \* bound: objects there are when the page is opened
    MaxRev,      \* bound: changes of the cluster
    MaxFaults,   \* bound: requests, lists, streams and sockets that fail
    MaxReruns,   \* bound: refreshes of the list and switches of the cluster
    Switches     \* the user may switch the cluster

ASSUME RealtimeListAssumption ==
    /\ Ours \in Watcher /\ Listed \cap {"mwc", "vwc"} = {}
    /\ InitRev \in Nat /\ MaxRev \in Nat /\ MaxFaults \in Nat
    /\ MaxReruns \in Nat /\ Switches \in BOOLEAN

VARIABLES
    log,       \* the cluster
    resource,  \* the listed type
    view,      \* data
    loading,   \* isLoading
    got,       \* receivedRealtimeEvent of this run of the effect
    timer,     \* emptyListTimeout
    snapshot,  \* the fetch that this run of the effect began with
    polls,     \* the fetches of the reconcile interval
    linked,    \* the shared socket is open
    watcher,   \* the watchers of the type at the far end of the socket
    companion, \* another list of the same type is mounted
    partial,   \* the snapshot is not coming and no watcher lists for this run
    switching, \* the cluster switch: not begun, announced to the UI, done
    reruns, faults

data == <<view, loading, got, timer>>
vars == <<log, resource, data, snapshot, polls, linked, watcher, companion,
          partial, switching, reruns, faults>>

Phase == {"off", "ack", "list", "send", "stream", "backoff", "ended"}
Task  == [phase : Phase, rev : Nat, todo : SUBSET Object]
Fetch == [state : {"idle", "asked", "answered"}, rev : Nat]

TypeOK ==
    /\ log \in Seq(Entry(Object)) /\ resource \in Listed
    /\ view \in [Object -> Nat]
    /\ loading \in BOOLEAN /\ got \in BOOLEAN /\ timer \in BOOLEAN
    /\ snapshot \in Fetch /\ polls \in [Poll -> Fetch]
    /\ linked \in BOOLEAN /\ watcher \in [Watcher -> Task]
    /\ companion \in BOOLEAN /\ partial \in BOOLEAN
    /\ switching \in {"no", "announced", "done"}
    /\ reruns \in 0..MaxReruns /\ faults \in 0..MaxFaults

-----------------------------------------------------------------------------
(* What the types differ in.  Left out are mwc and vwc, whose watch sends  *)
(* items without the metadata that their rows are made of, and that a node *)
(* being deleted is hidden until the next poll.                            *)

Custom == resource = "customresources"

(* Types with a reconcile interval.                                        *)
Polled ==
    resource \in {"crds", "helmreleases", "nodes", "ingresses"} \/ Custom

(* Types whose rows are keyed by the name alone.                           *)
KeyedByName ==
    resource \in {"namespaces", "nodes", "ingressclasses", "persistentvolumes",
                  "storageclasses", "clusterroles", "clusterrolebindings",
                  "priorityclasses", "runtimeclasses", "crds"}

(* The key a DELETED event is looked up by is made of namespace and name   *)
(* for every type but these; it finds a row only if the rows are keyed so. *)
DeletedByName == resource \in {"nodes", "namespaces"}
KeysAgree     == Custom \/ DeletedByName = KeyedByName

-----------------------------------------------------------------------------
Idle       == [state |-> "idle", rev |-> 0]
Asked      == [state |-> "asked", rev |-> 0]
Answered   == [state |-> "answered", rev |-> Len(log)]
Off        == [phase |-> "off", rev |-> 0, todo |-> {}]
Started    == [phase |-> "ack", rev |-> 0, todo |-> {}]
LeftBehind == [phase |-> "stream", rev |-> Len(log), todo |-> {}]
Streaming(w) == watcher[w].phase = "stream"
NoTasks    == [w \in Watcher |-> Off]
NoRows     == [o \in Object |-> 0]
Present    == PresentAt(log, Object, Len(log))

Fault   == faults < MaxFaults /\ faults' = faults + 1

Contents == {h \in UNION {[1..n -> Entry(Object)] : n \in 0..InitRev} :
                 /\ \A i \in DOMAIN h : h[i].present
                 /\ \A i, j \in DOMAIN h : h[i].obj = h[j].obj => i = j}

(* A page has just been opened.  On an open socket its subscription starts *)
(* a watcher, unless a companion list is subscribed already; a watcher     *)
(* that an earlier page of the type left behind may still be there, since  *)
(* unsubscribe stops none.  (Left out: a list of ingresses first asks for  *)
(* the addresses of its classes, and when the network refuses that request *)
(* it neither subscribes nor fetches; it lives by its polls.)              *)
Init ==
    /\ log \in Contents /\ resource \in Listed
    /\ view = NoRows /\ loading = TRUE /\ got = FALSE /\ timer = FALSE
    /\ snapshot = Asked /\ polls = [p \in Poll |-> Idle]
    /\ linked \in BOOLEAN /\ companion \in BOOLEAN
    /\ watcher \in [Watcher -> {Off, Started, LeftBehind}]
    /\ watcher[Ours] = IF linked /\ ~companion THEN Started ELSE Off
    /\ \A w \in Watcher \ {Ours} : watcher[w] # Started
    /\ LET left == {w \in Watcher : watcher[w] = LeftBehind}
       IN IF linked THEN companion => left # {} ELSE left = {}
    /\ partial = FALSE /\ switching = "no" /\ reruns = 0 /\ faults = 0

-----------------------------------------------------------------------------
(* The messages of the socket, as handleRealtimeMessage takes them.        *)

Heard == got' = TRUE /\ timer' = FALSE /\ loading' = FALSE

Upsert(o, v) == Heard /\ view' = [view EXCEPT ![o] = v]

Remove(o) ==
    Heard /\ view' = IF KeysAgree THEN [view EXCEPT ![o] = 0] ELSE view

(* The far end: a watcher task, started by a subscribe message.  Messages  *)
(* of one task arrive in the order sent, so a step of it is the arrival.   *)
Becomes(w, t) == watcher' = [watcher EXCEPT ![w] = t]

(* Mutant of Subscribed: no timer, the list waits for its first item.      *)
SubscribedUntimed(w) ==
    /\ watcher[w].phase = "ack"
    /\ Becomes(w, [watcher[w] EXCEPT !.phase = "list"])
    /\ UNCHANGED <<log, resource, data, snapshot, polls, linked, companion,
                   partial, switching, reruns, faults>>

(* The subscribed message starts the 2 s timer of the empty list.          *)
Subscribed(w) ==
    /\ watcher[w].phase = "ack"
    /\ Becomes(w, [watcher[w] EXCEPT !.phase = "list"])
    /\ timer' = TRUE
    /\ UNCHANGED <<log, resource, view, loading, got, snapshot, polls, linked,
                   companion, partial, switching, reruns, faults>>

ListAnswers(w) ==
    /\ watcher[w].phase = "list"
    /\ Becomes(w, [phase |-> "send", rev |-> Len(log), todo |-> Present])
    /\ UNCHANGED <<log, resource, data, snapshot, polls, linked, companion,
                   partial, switching, reruns, faults>>

(* The list is refused, fails, or the backend has no cluster: the task     *)
(* ends, and nothing in the UI asks for another.                           *)
ListFails(w) ==
    /\ watcher[w].phase = "list" /\ Fault
    /\ Becomes(w, [Off EXCEPT !.phase = "ended"])
    /\ UNCHANGED <<log, resource, data, snapshot, polls, linked, companion,
                   partial, switching, reruns>>

(* An item of the initial list (ADDED) or of a Restarted event (MODIFIED). *)
ItemArrives(w, o) ==
    /\ watcher[w].phase \in {"send", "stream"} /\ o \in watcher[w].todo
    /\ Becomes(w, [watcher[w] EXCEPT !.todo = @ \ {o}])
    /\ Upsert(o, Version(log, o, watcher[w].rev))
    /\ UNCHANGED <<log, resource, snapshot, polls, linked, companion, partial,
                   switching, reruns, faults>>

(* A watcher object is made: it lists once more and says Restarted with    *)
(* what it finds, after the first list as well as after a failed stream.   *)
StreamOpens(w) ==
    /\ \/ watcher[w].phase = "send" /\ watcher[w].todo = {}
       \/ watcher[w].phase = "backoff"
    /\ Becomes(w, [phase |-> "stream", rev |-> Len(log), todo |-> Present])
    /\ UNCHANGED <<log, resource, data, snapshot, polls, linked, companion,
                   partial, switching, reruns, faults>>

EventArrives(w) ==
    /\ Streaming(w) /\ watcher[w].todo = {} /\ watcher[w].rev < Len(log)
    /\ LET r == watcher[w].rev + 1 IN
       /\ Becomes(w, [watcher[w] EXCEPT !.rev = r])
       /\ IF log[r].present THEN Upsert(log[r].obj, r) ELSE Remove(log[r].obj)
    /\ UNCHANGED <<log, resource, snapshot, polls, linked, companion, partial,
                   switching, reruns, faults>>

(* The stream fails and is started again after a pause, or the API does    *)
(* not serve it (any longer).                                              *)
StreamFails(w) ==
    /\ Streaming(w) /\ Fault
    /\ \E p \in {"ended", "backoff"} : Becomes(w, [Off EXCEPT !.phase = p])
    /\ UNCHANGED <<log, resource, data, snapshot, polls, linked, companion,
                   partial, switching, reruns>>

(* The socket is lost with all its watchers, and opened again.             *)
SocketLost ==
    /\ linked /\ Fault
    /\ linked' = FALSE /\ watcher' = NoTasks
    /\ UNCHANGED <<log, resource, data, snapshot, polls, companion, partial,
                   switching, reruns>>

SocketOpens ==
    /\ ~linked
    /\ linked' = TRUE
    /\ Becomes(Ours, Started)
    /\ UNCHANGED <<log, resource, data, snapshot, polls, companion, partial,
                   switching, reruns, faults>>

-----------------------------------------------------------------------------
(* The requests of the list.                                               *)

SnapshotAnswered ==
    /\ snapshot.state = "asked"
    /\ snapshot' = Answered
    /\ UNCHANGED <<log, resource, data, polls, linked, watcher, companion,
                   partial, switching, reruns, faults>>

(* Mutant of SnapshotArrives: the snapshot is shown whatever came first.   *)
SnapshotArrivesAnyway ==
    /\ snapshot.state = "answered"
    /\ snapshot' = Idle
    /\ view' = ListAt(log, Object, snapshot.rev) /\ loading' = FALSE
    /\ UNCHANGED <<log, resource, got, timer, polls, linked, watcher,
                   companion, partial, switching, reruns, faults>>

(* An event that came first makes the hook drop the snapshot.              *)
SnapshotArrives ==
    /\ snapshot.state = "answered"
    /\ snapshot' = Idle
    /\ IF got THEN /\ partial' = (partial \/ companion)
                   /\ UNCHANGED <<view, loading>>
       ELSE /\ view' = ListAt(log, Object, snapshot.rev)
            /\ loading' = FALSE /\ UNCHANGED partial
    /\ UNCHANGED <<log, resource, got, timer, polls, linked, watcher,
                   companion, switching, reruns, faults>>

SnapshotFails ==
    /\ snapshot.state = "asked" /\ Fault
    /\ snapshot' = Idle
    /\ partial' = (partial \/ companion)
    /\ UNCHANGED <<log, resource, data, polls, linked, watcher, companion,
                   switching, reruns>>

EmptyTimerFires ==
    /\ timer
    /\ timer' = FALSE /\ loading' = FALSE
    /\ UNCHANGED <<log, resource, view, got, snapshot, polls, linked, watcher,
                   companion, partial, switching, reruns, faults>>

(* The interval; it skips its turns while the page is hidden.              *)
PollStarts(p) ==
    /\ Polled /\ polls[p].state = "idle"
    /\ polls' = [polls EXCEPT ![p] = Asked]
    /\ UNCHANGED <<log, resource, data, snapshot, linked, watcher, companion,
                   partial, switching, reruns, faults>>

PollAnswered(p) ==
    /\ polls[p].state = "asked"
    /\ polls' = [polls EXCEPT ![p] = Answered]
    /\ UNCHANGED <<log, resource, data, snapshot, linked, watcher, companion,
                   partial, switching, reruns, faults>>

(* Mutant of PollArrives: a poll after an event is dropped like a snapshot.*)
PollArrivesUnheard(p) ==
    /\ polls[p].state = "answered"
    /\ polls' = [polls EXCEPT ![p] = Idle]
    /\ IF got THEN UNCHANGED <<view, loading>>
       ELSE view' = ListAt(log, Object, polls[p].rev) /\ loading' = FALSE
    /\ UNCHANGED <<log, resource, got, timer, snapshot, linked, watcher,
                   companion, partial, switching, reruns, faults>>

(* The poll replaces the rows whatever events came since it was answered.  *)
PollArrives(p) ==
    /\ polls[p].state = "answered"
    /\ polls' = [polls EXCEPT ![p] = Idle]
    /\ view' = ListAt(log, Object, polls[p].rev) /\ loading' = FALSE
    /\ UNCHANGED <<log, resource, got, timer, snapshot, linked, watcher,
                   companion, partial, switching, reruns, faults>>

PollFails(p) ==
    /\ polls[p].state = "asked" /\ Fault
    /\ polls' = [polls EXCEPT ![p] = Idle]
    /\ UNCHANGED <<log, resource, data, snapshot, linked, watcher, companion,
                   partial, switching, reruns>>

-----------------------------------------------------------------------------
(* resources:refresh and cluster:switched reach every mounted list.  All   *)
(* of them unsubscribe before the first subscribes again, which closes the *)
(* socket; what the fetches of the earlier run bring is dropped.           *)
Rerun(rows) ==
    /\ view' = IF Custom THEN NoRows ELSE rows
    /\ loading' = TRUE /\ got' = FALSE /\ timer' = FALSE /\ partial' = FALSE
    /\ snapshot' = Asked /\ polls' = [p \in Poll |-> Idle]
    /\ linked' = FALSE /\ watcher' = NoTasks

Refresh ==
    /\ reruns < MaxReruns /\ reruns' = reruns + 1
    /\ Rerun(view)
    /\ UNCHANGED <<log, resource, companion, switching, faults>>

(* The switch of the cluster: the UI announces it as soon as the shell has *)
(* taken the request, the shell then replaces the backend.  Of the new     *)
(* cluster nothing is known yet, and the old one's objects are gone.       *)
ClusterSwitched ==
    /\ Switches /\ switching = "no" /\ reruns < MaxReruns
    /\ switching' = "announced" /\ reruns' = reruns + 1
    /\ Rerun(NoRows)
    /\ UNCHANGED <<log, resource, companion, faults>>

Dropped == {g \in UNION {[1..n -> Present] : n \in 0..Len(log)} :
              /\ Present = {g[i] : i \in DOMAIN g}
              /\ \A i, j \in DOMAIN g : g[i] = g[j] => i = j}

BackendReplaced ==
    /\ switching = "announced"
    /\ switching' = "done"
    /\ \E g \in Dropped :
          log' = log \o [i \in DOMAIN g |-> [obj |-> g[i], present |-> FALSE]]
    /\ linked' = FALSE /\ watcher' = NoTasks
    /\ UNCHANGED <<resource, data, snapshot, polls, companion, partial,
                   reruns, faults>>

Change ==
    /\ Len(log) < MaxRev
    /\ \E o \in Object : log' \in Changed(log, o)
    /\ UNCHANGED <<resource, data, snapshot, polls, linked, watcher,
                   companion, partial, switching, reruns, faults>>

-----------------------------------------------------------------------------
WatcherStep(w) ==
    \/ Subscribed(w) \/ ListAnswers(w) \/ StreamOpens(w) \/ EventArrives(w)
    \/ \E o \in Object : ItemArrives(w, o)

Next ==
    \/ \E w \in Watcher : WatcherStep(w) \/ ListFails(w) \/ StreamFails(w)
    \/ SocketLost \/ SocketOpens
    \/ SnapshotAnswered \/ SnapshotArrives \/ SnapshotFails \/ EmptyTimerFires
    \/ \E p \in Poll : \/ PollStarts(p) \/ PollAnswered(p)
                       \/ PollArrives(p) \/ PollFails(p)
    \/ Refresh \/ ClusterSwitched \/ BackendReplaced \/ Change

Spec == Init /\ [][Next]_vars

(* Requests are answered or fail, tasks run, timers and intervals fire and *)
(* the socket is opened again; the cluster and the user owe nothing.       *)
FairSpec ==
    /\ Spec
    /\ \A w \in Watcher : WF_vars(WatcherStep(w))
    /\ WF_vars(SocketOpens)
    /\ WF_vars(SnapshotAnswered) /\ WF_vars(SnapshotArrives)
    /\ WF_vars(EmptyTimerFires)
    /\ \A p \in Poll : WF_vars(PollStarts(p)) /\ WF_vars(PollAnswered(p))
                       /\ WF_vars(PollArrives(p))

-----------------------------------------------------------------------------
(* A deleted object is still shown and no stream will announce it.         *)
Stranded(o) ==
    /\ view[o] # 0
    /\ \E d \in 1..Len(log) :
          /\ DeletedIn(log, o, d)
          /\ ~\E w \in Watcher : Streaming(w) /\ watcher[w].rev < d

(* A watch of the type has ended while the socket is open: it announces    *)
(* nothing more, nor what it had still to say after it set a row back.     *)
WatchEnded == \E w \in Watcher : watcher[w].phase = "ended"

(* Nothing brings back what was lost: only lists that are not polled.      *)
Lossy == ~Polled /\ (partial \/ WatchEnded \/ \E o \in Object : Stranded(o))

Live == INSTANCE LiveView WITH lossy <- Lossy

(* The list implements LiveView (README.md, "list updates as soon as the   *)
(* cluster state changes"): whatever order the snapshot, the polls and the *)
(* events of every watcher arrive in, a row shows an object as it was, and *)
(* the list settles on the cluster unless it is Lossy.                     *)
Implements == Live!Spec

(* Nothing is under way: the socket is open, the snapshot is done with, and *)
(* every watcher there is has sent all that happened.                      *)
Still ==
    /\ linked /\ snapshot.state = "idle"
    /\ \A w \in Watcher :
          \/ watcher[w].phase = "off"
          \/ Streaming(w) /\ watcher[w].todo = {} /\ watcher[w].rev = Len(log)

(* A list without polls that has nothing coming shows the cluster as it is, *)
(* whatever order the snapshot and the events of all watchers came in, or   *)
(* has lost a change in one of the ways that Lossy names.                  *)
StillIsFaithful == Still /\ ~Polled /\ ~Lossy => Live!Faithful

(* An older state of an object takes the place of a newer one only while   *)
(* the watcher that sent it has yet to send the newer one as well, or, for *)
(* the polled types, by a fetch that was answered before; a list that is   *)
(* not polled is never set back by the snapshot it begins with.            *)
StepsBack(o) == view'[o] \in 1..(view[o] - 1)
MovesForward ==
    [][\A o \in Object : StepsBack(o) =>
         \/ Polled /\ (SnapshotArrives \/ \E p \in Poll : PollArrives(p))
         \/ \E w \in Watcher : watcher'[w].phase \in {"send", "stream"}
                               /\ watcher'[w].rev < view[o]]_vars

(* While the spinner is shown something that ends it is still to come: the *)
(* snapshot, the timer of the empty list, the answer that starts it, or a  *)
(* socket on which the list subscribes; unless a companion subscribed      *)
(* before it.  So it is whatever was lost, refused or begun again before.  *)
SpinnerOwed ==
    loading => \/ partial \/ timer \/ ~linked \/ snapshot.state # "idle"
               \/ \E w \in Watcher : watcher[w].phase = "ack"

(* The spinner goes away: one of snapshot, event, poll and timer ends it,  *)
(* also when the cluster has no object of the type and the fetch failed;   *)
(* only a list whose companion subscribed before it may wait for ever.     *)
LoadingEnds == loading ~> ~loading \/ partial

(* After a switch the list is rid of the rows of the old cluster           *)
(* (Layout.tsx, "Clear stale old-cluster content immediately").  Nothing   *)
(* but the switch deletes objects in the instance that looks at this.      *)
SwitchLeavesNothing ==
    <>[](switching = "done" => \A o \in Object : ~Stranded(o))
=============================================================================
