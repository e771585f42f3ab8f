--------------------------- MODULE RealtimeSocket ---------------------------
(***************************************************************************)
(* The one WebSocket that all resource lists of the UI share               *)
(* (frontend/src/hooks/useRealtimeResources.ts): hooks subscribe and       *)
(* unsubscribe as pages come and go, the socket is opened for the first    *)
(* and closed after the last of them, and is opened again when it is lost. *)
(* JavaScript runs one callback at a time, so a step is a callback; what   *)
(* can go wrong is the order of the callbacks of several sockets, which    *)
(* share the module's variables.  The far end (handle_socket in            *)
(* backend/src/ws_handler.rs) starts a watcher per subscribe message.      *)
(***************************************************************************)
EXTENDS Integers, FiniteSets

CONSTANTS
    Hook,       \* the mounted hooks that may listen
    Resource,   \* resource types
    ResourceOf, \* the resource each hook lists
    Socket,     \* WebSocket objects
    NoSocket,   \* null
    Desktop,    \* the UI runs in the desktop shell
    MaxFaults   \* bound: connections that fail, are lost or go silent

ASSUME RealtimeSocketAssumption ==
    /\ ResourceOf \in [Hook -> Resource]
    /\ NoSocket \notin Socket
    /\ Desktop \in BOOLEAN /\ MaxFaults \in Nat

VARIABLES
    listening,   \* realtimeResourceListeners, as the hooks in its sets
    shared,      \* realtimeSharedSocket
    sock,        \* the WebSocket objects: readyState, handlers, silence
    watchers,    \* per socket and resource: watchers started at the far end
    reconnect,   \* realtimeSharedReconnectTimer is running
    guarded,     \* the socket that heartbeat and stale watchdog belong to
    intentional, \* realtimeSharedClosingIntentional
    inFlight,    \* realtimeSharedConnectInFlight
    unsubscribed,\* history: resources unsubscribed on each socket
    misread,     \* history: the last socket took an older one's flag for its own
    disarmed,    \* history: the timers of the last socket were cleared by another's end
    faults

vars == <<listening, shared, sock, watchers, reconnect, guarded, intentional,
          inFlight, unsubscribed, misread, disarmed, faults>>

(* It stands for every number of watchers above one: no property tells     *)
(* these numbers apart.                                                    *)
ManyWatchers == 2

Object == [state : {"unused", "connecting", "open", "closing", "closed"},
           handlers : BOOLEAN, silent : BOOLEAN]

TypeOK ==
    /\ listening \in SUBSET Hook
    /\ shared \in Socket \cup {NoSocket}
    /\ sock \in [Socket -> Object]
    /\ watchers \in [Socket -> [Resource -> 0..ManyWatchers]]
    /\ reconnect \in BOOLEAN
    /\ guarded \in Socket \cup {NoSocket}
    /\ intentional \in BOOLEAN /\ inFlight \in BOOLEAN
    /\ unsubscribed \in [Socket -> SUBSET Resource]
    /\ misread \in BOOLEAN /\ disarmed \in BOOLEAN
    /\ faults \in 0..MaxFaults

-----------------------------------------------------------------------------
Unused    == [state |-> "unused", handlers |-> TRUE, silent |-> FALSE]
Listened  == {ResourceOf[h] : h \in listening}
State(s)  == IF s = NoSocket THEN "unused" ELSE sock[s].state
NoWatcher == [r \in Resource |-> 0]

Fault   == faults < MaxFaults /\ faults' = faults + 1
NoFault == UNCHANGED faults

(* The far end starts another watcher on every subscribe message, without  *)
(* end.  Unsubscribe is acknowledged and stops none.                       *)
OneMore(n) == IF n = 0 THEN 1 ELSE ManyWatchers

Init ==
    /\ listening = {} /\ shared = NoSocket
    /\ sock = [s \in Socket |-> Unused]
    /\ watchers = [s \in Socket |-> NoWatcher]
    /\ reconnect = FALSE /\ guarded = NoSocket
    /\ intentional = FALSE /\ inFlight = FALSE
    /\ unsubscribed = [s \in Socket |-> {}]
    /\ misread = FALSE /\ disarmed = FALSE /\ faults = 0

-----------------------------------------------------------------------------
(* createSocket: a new object takes the place of realtimeSharedSocket; the *)
(* callbacks of the one that was there stay in place.  A new WebSocket     *)
(* throws for a malformed URL only, which the code never makes: the catch  *)
(* (line 284), which logs it and plans nothing, is left out.               *)
CreateSocket ==
    \E s \in Socket :
        /\ sock[s].state \in {"unused", "closed"} /\ s # shared
        /\ sock' = [sock EXCEPT ![s] = [Unused EXCEPT !.state = "connecting"]]
        /\ shared' = s
        /\ misread' = FALSE /\ disarmed' = FALSE

(* openRealtimeSharedSocket, with the first part of its connect(): in the  *)
(* browser createSocket follows at once, in the desktop shell it follows   *)
(* when the port of the sidecar has been asked for (Connected).            *)
Needless == State(shared) \in {"open", "connecting"} \/ inFlight
OpenShared ==
    IF Needless
    THEN UNCHANGED <<sock, shared, inFlight, misread, disarmed>>
    ELSE IF Desktop
    THEN inFlight' = TRUE /\ UNCHANGED <<sock, shared, misread, disarmed>>
    ELSE CreateSocket /\ UNCHANGED inFlight

(* Mutant of Connected: the port has come, so the socket is opened.        *)
ConnectedAnyway ==
    /\ inFlight
    /\ inFlight' = FALSE
    /\ CreateSocket
    /\ UNCHANGED <<listening, watchers, reconnect, guarded, intentional,
                   unsubscribed, faults>>

Connected ==
    /\ inFlight
    /\ inFlight' = FALSE
    /\ IF listening # {} THEN CreateSocket
       ELSE UNCHANGED <<sock, shared, misread, disarmed>>
    /\ UNCHANGED <<listening, watchers, reconnect, guarded, intentional,
                   unsubscribed, faults>>

ReconnectFires ==
    /\ reconnect
    /\ reconnect' = FALSE
    /\ IF listening # {} THEN OpenShared
       ELSE UNCHANGED <<sock, shared, inFlight, misread, disarmed>>
    /\ UNCHANGED <<listening, watchers, guarded, intentional, unsubscribed,
                   faults>>

(* Mutant of Subscribe: an open socket is not told of a new resource.      *)
SubscribeSilently(h) ==
    /\ h \notin listening
    /\ listening' = listening \cup {h}
    /\ OpenShared
    /\ UNCHANGED <<watchers, reconnect, guarded, intentional, unsubscribed,
                   faults>>

(* Mutant of Subscribe: every listener subscribes, not only the first.     *)
SubscribeAlways(h) ==
    /\ h \notin listening
    /\ listening' = listening \cup {h}
    /\ OpenShared
    /\ watchers' = IF State(shared) = "open"
                   THEN [watchers EXCEPT ![shared][ResourceOf[h]] = OneMore(@)]
                   ELSE watchers
    /\ UNCHANGED <<reconnect, guarded, intentional, unsubscribed, faults>>

(* subscribeRealtimeResource: open the socket if there is none; on an open *)
(* one, only the first listener of a resource sends the message.           *)
Subscribe(h) ==
    /\ h \notin listening
    /\ listening' = listening \cup {h}
    /\ OpenShared
    /\ watchers' =
         IF ResourceOf[h] \notin Listened /\ State(shared) = "open"
         THEN [watchers EXCEPT ![shared][ResourceOf[h]] = OneMore(@)]
         ELSE watchers
    /\ UNCHANGED <<reconnect, guarded, intentional, unsubscribed, faults>>

(* Mutant of LetGo: a connecting socket is left alone.                     *)
LetGoIfOpen(s) ==
    IF State(s) = "open" THEN sock' = [sock EXCEPT ![s].state = "closing"]
    ELSE UNCHANGED sock

(* safeCloseRealtimeSocket takes the callbacks off a connecting socket and *)
(* does nothing to a closed one.                                           *)
LetGo(s) ==
    CASE State(s) = "connecting" ->
             sock' = [sock EXCEPT ![s].handlers = FALSE]
      [] State(s) \in {"open", "closing"} ->
             sock' = [sock EXCEPT ![s].state = "closing"]
      [] OTHER -> UNCHANGED sock

(* The function that subscribeRealtimeResource returns: the last listener  *)
(* of a resource unsubscribes it, the last one of all closes the socket.   *)
Unsubscribe(h) ==
    /\ h \in listening
    /\ listening' = listening \ {h}
    /\ LET last == \A g \in listening \ {h} : ResourceOf[g] # ResourceOf[h] IN
       unsubscribed' =
         IF last /\ State(shared) = "open"
         THEN [unsubscribed EXCEPT ![shared] = @ \cup {ResourceOf[h]}]
         ELSE unsubscribed
    /\ IF listening' = {} /\ shared # NoSocket
       THEN /\ intentional' = TRUE
            /\ reconnect' = FALSE /\ guarded' = NoSocket
            /\ LetGo(shared)
            /\ shared' = NoSocket
       ELSE UNCHANGED <<intentional, reconnect, guarded, sock, shared>>
    /\ UNCHANGED <<watchers, inFlight, misread, disarmed, faults>>

-----------------------------------------------------------------------------
(* The callbacks of a socket.                                              *)

(* Mutant of Opens: the old timers are cleared after the new ones are set. *)
OpensThenClears(s) ==
    /\ sock[s].state = "connecting"
    /\ IF ~sock[s].handlers \/ intentional
       THEN /\ sock' = [sock EXCEPT ![s].state = "closing"]
            /\ UNCHANGED <<watchers, reconnect, guarded>>
       ELSE /\ sock' = [sock EXCEPT ![s].state = "open"]
            /\ reconnect' = FALSE /\ guarded' = NoSocket
            /\ watchers' = [watchers EXCEPT ![s] =
                              [r \in Resource |-> IF r \in Listened
                                                  THEN OneMore(@[r]) ELSE @[r]]]
    /\ UNCHANGED <<listening, shared, intentional, inFlight, unsubscribed,
                   misread, disarmed, faults>>

(* onopen: a socket that finds the flag set closes itself; otherwise it    *)
(* subscribes what is listened to and starts its two intervals.            *)
Opens(s) ==
    /\ sock[s].state = "connecting"
    /\ IF ~sock[s].handlers \/ intentional
       THEN /\ sock' = [sock EXCEPT ![s].state = "closing"]
            /\ UNCHANGED <<watchers, reconnect, guarded>>
       ELSE /\ sock' = [sock EXCEPT ![s].state = "open"]
            /\ reconnect' = FALSE /\ guarded' = s
            /\ watchers' = [watchers EXCEPT ![s] =
                              [r \in Resource |-> IF r \in Listened
                                                  THEN OneMore(@[r]) ELSE @[r]]]
    /\ UNCHANGED <<listening, shared, intentional, inFlight, unsubscribed,
                   misread, disarmed, faults>>

(* Mutant of OnClose: only a socket that has been open is opened again.    *)
OnCloseIfOpened(s) ==
    IF ~sock[s].handlers
    THEN UNCHANGED <<reconnect, guarded, intentional, misread, disarmed>>
    ELSE /\ guarded' = NoSocket
         /\ disarmed' = (disarmed \/ (guarded # NoSocket /\ guarded # s))
         /\ intentional' = FALSE
         /\ misread' = (misread \/ (intentional /\ s = shared))
         /\ reconnect' = (~intentional /\ listening # {} /\ guarded = s)

(* onclose, if it is still in place.  The timers it clears and the flag it *)
(* reads may be those of another socket.                                   *)
OnClose(s) ==
    IF ~sock[s].handlers
    THEN UNCHANGED <<reconnect, guarded, intentional, misread, disarmed>>
    ELSE /\ guarded' = NoSocket
         /\ disarmed' = (disarmed \/ (guarded # NoSocket /\ guarded # s))
         /\ intentional' = FALSE
         /\ misread' = (misread \/ (intentional /\ s = shared))
         /\ reconnect' = (~intentional /\ listening # {})

Gone(s) ==
    /\ sock' = [sock EXCEPT ![s] = [Unused EXCEPT !.state = "closed"]]
    /\ watchers' = [watchers EXCEPT ![s] = NoWatcher]
    /\ unsubscribed' = [unsubscribed EXCEPT ![s] = {}]
    /\ OnClose(s)
    /\ UNCHANGED <<listening, shared, inFlight>>

Closed(s) == sock[s].state = "closing" /\ Gone(s) /\ NoFault

(* The connection fails or is lost.                                        *)
Lost(s) == sock[s].state \in {"connecting", "open"} /\ Gone(s) /\ Fault

(* Nothing comes any more and nobody says so; the stale watchdog of the    *)
(* socket closes it after 45 seconds.                                      *)
GoesSilent(s) ==
    /\ sock[s].state = "open" /\ ~sock[s].silent /\ Fault
    /\ sock' = [sock EXCEPT ![s].silent = TRUE]
    /\ UNCHANGED <<listening, shared, watchers, reconnect, guarded,
                   intentional, inFlight, unsubscribed, misread, disarmed>>

WatchdogFires(s) ==
    /\ guarded = s /\ sock[s].state = "open" /\ sock[s].silent
    /\ sock' = [sock EXCEPT ![s].state = "closing"]
    /\ UNCHANGED <<listening, shared, watchers, reconnect, guarded,
                   intentional, inFlight, unsubscribed, misread, disarmed,
                   faults>>

-----------------------------------------------------------------------------
Next ==
    \/ \E h \in Hook : Subscribe(h) \/ Unsubscribe(h)
    \/ Connected \/ ReconnectFires
    \/ \E s \in Socket :
          Opens(s) \/ Closed(s) \/ Lost(s) \/ GoesSilent(s) \/ WatchdogFires(s)

Spec == Init /\ [][Next]_vars

(* Timers fire, promises settle, and a connection that is being opened or  *)
(* closed comes to an end (as open or lost, when faults remain).           *)
FairSpec ==
    /\ Spec
    /\ WF_vars(Connected) /\ WF_vars(ReconnectFires)
    /\ \A s \in Socket : WF_vars(Opens(s) \/ Closed(s) \/ WatchdogFires(s))

-----------------------------------------------------------------------------
(* Safety.                                                                 *)

(* Only realtimeSharedSocket is being opened or in use: an object that is  *)
(* no longer the shared one, or is replaced while a connect waits for the  *)
(* port, is closed or will close itself when it opens.                     *)
NoSecondSocket ==
    \A s \in Socket :
        sock[s].state \in {"connecting", "open"} /\ sock[s].handlers
            => s = shared

(* When nobody listens any more, no connection is kept and none is opened: *)
(* a connect that waited for the port, a planned reconnect and a socket    *)
(* that had not opened yet all find that they are not wanted, whichever of *)
(* them comes after the last listener has left.                            *)
NothingLeftOpen ==
    listening = {} =>
        /\ shared = NoSocket /\ guarded = NoSocket
        /\ \A s \in Socket : sock[s].state \in {"connecting", "open"}
                              => ~sock[s].handlers

(* A resource that is listened to on an open socket has a watcher at the   *)
(* far end, whether it was subscribed before or after the socket opened    *)
(* and however often its listeners left and came back.                     *)
ListenedIsWatched ==
    State(shared) = "open" => \A r \in Listened : watchers[shared][r] > 0

(* It has only one: an opening socket and a first listener do not both     *)
(* subscribe it.  The exception is a resource that was unsubscribed on the *)
(* same socket and subscribed again, since unsubscribe stops no watcher.   *)
WatchedOnce ==
    \A s \in Socket, r \in Resource :
        watchers[s][r] > 1 => r \in unsubscribed[s]

(* An open shared socket has its heartbeat and its watchdog, so that a     *)
(* silent connection is noticed, except when an older socket ended after   *)
(* it had opened and cleared the timers of the newer one.                  *)
OpenIsGuarded ==
    State(shared) = "open" => guarded = shared \/ disarmed

(* While somebody listens, a connection is open or something is under way  *)
(* that will lead to one.  The exception is a socket that took a flag set  *)
(* for an earlier one as the sign that its own end was intended.           *)
UnderWay ==
    \/ inFlight \/ reconnect
    \/ \E s \in Socket : /\ sock[s].handlers
                         /\ sock[s].state \in {"connecting", "open", "closing"}
NotAbandoned == listening # {} => UnderWay \/ misread

(* Liveness: a hook that goes on listening is served by a connection that  *)
(* is not silent, with the same exceptions.                                *)
Served == /\ State(shared) = "open" /\ ~sock[shared].silent
          /\ \A r \in Listened : watchers[shared][r] > 0
ListenersServed ==
    listening # {} ~> listening = {} \/ Served \/ misread \/ disarmed

-----------------------------------------------------------------------------
(* README.md:95, "Resource list pages subscribe over a single WebSocket    *)
(* and receive watch events": no page is left listening with no connection *)
(* and nothing that would open one.                                        *)
PagesReceiveEvents == listening # {} => UnderWay
=============================================================================
