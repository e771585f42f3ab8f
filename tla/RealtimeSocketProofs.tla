------------------------ MODULE RealtimeSocketProofs ------------------------
(***************************************************************************)
(* Theorems about the shared socket, for every set of hooks, resources and *)
(* sockets, in the browser and in the desktop shell, and for any number of *)
(* connections that fail: one socket at a time, each resource subscribed   *)
(* and only once, an open socket guarded, and listeners never abandoned,   *)
(* with the exceptions that the invariants name.                           *)
(***************************************************************************)
EXTENDS RealtimeSocket, TLAPS

USE DEF ManyWatchers

-----------------------------------------------------------------------------
(* The inductive invariant.                                                *)

Idle(s) == State(s) \notin {"connecting", "open"}
Live(s) == State(s) \in {"connecting", "open", "closing"}

(* The shared socket has its callbacks: only one that is let go loses them. *)
SharedHasHandlers == shared # NoSocket => sock[shared].handlers

(* A connect waits for the port only while there is no socket in use.      *)
InFlightIsNeeded == inFlight => Idle(shared)

(* The far end watches nothing for a socket that is not open yet.          *)
UnopenedUnwatched ==
    \A s \in Socket : sock[s].state \in {"unused", "connecting", "closed"}
        => watchers[s] = NoWatcher

(* On the open socket, a watcher nobody listens to has been unsubscribed.  *)
UnheardUnsubscribed ==
    State(shared) = "open" =>
        \A r \in Resource : watchers[shared][r] > 0 /\ r \notin Listened
            => r \in unsubscribed[shared]

(* The flag and the reconnect timer exclude each other.                    *)
FlagOrReconnect == ~(intentional /\ reconnect)

(* NotAbandoned, with the shared socket as the one that is under way.      *)
SharedUnderWay ==
    listening # {} => inFlight \/ reconnect \/ misread \/ Live(shared)

IInv == /\ TypeOK /\ NoSecondSocket /\ SharedHasHandlers /\ InFlightIsNeeded
        /\ UnopenedUnwatched /\ ListenedIsWatched /\ UnheardUnsubscribed
        /\ WatchedOnce /\ OpenIsGuarded /\ FlagOrReconnect /\ SharedUnderWay

-----------------------------------------------------------------------------
(* Facts about the parts of the actions.                                   *)

(* What a new socket does to the state.                                    *)
Created(s) ==
    /\ s \in Socket /\ s # shared /\ sock[s].state \in {"unused", "closed"}
    /\ sock' = [sock EXCEPT ![s] = [Unused EXCEPT !.state = "connecting"]]
    /\ shared' = s
    /\ misread' = FALSE /\ disarmed' = FALSE

(* Either no socket is needed now, or there is a new one.                  *)
LEMMA OpenSharedCases ==
    ASSUME TypeOK, OpenShared
    PROVE  \/ /\ UNCHANGED <<sock, shared, misread, disarmed>>
              /\ inFlight' \in BOOLEAN
              /\ inFlight' => inFlight \/ Idle(shared)
              /\ inFlight' \/ ~Idle(shared)
           \/ /\ \E s \in Socket : Created(s)
              /\ Idle(shared) /\ inFlight' = FALSE
BY RealtimeSocketAssumption
DEF OpenShared, Needless, CreateSocket, Created, Idle, TypeOK, RealtimeSocketAssumption

(* A new socket is the only one in use, has no watchers, and the parts of  *)
(* the invariant that speak of sockets hold of it.                         *)
LEMMA CreatedInv ==
    ASSUME IInv, NEW s \in Socket, Created(s), Idle(shared)
    PROVE  /\ sock' \in [Socket -> Object] /\ shared' \in Socket
           /\ NoSecondSocket' /\ SharedHasHandlers'
           /\ State(shared)' = "connecting"
           /\ \A t \in Socket : t # s => sock'[t] = sock[t]
<1> DEFINE new == [Unused EXCEPT !.state = "connecting"]
<1>0. new \in Object /\ new.state = "connecting" /\ new.handlers
  BY DEF Unused, Object
<1>1. sock' = [sock EXCEPT ![s] = new]
  BY DEF Created
<1> HIDE DEF new
<1>2. sock' \in [Socket -> Object] /\ shared' = s
  BY <1>0, <1>1 DEF Created, IInv, TypeOK
<1>3. s # NoSocket /\ NoSocket \notin Socket
  BY RealtimeSocketAssumption DEF RealtimeSocketAssumption
<1>4. State(shared)' = "connecting"
  BY <1>0, <1>1, <1>2, <1>3 DEF State, IInv, TypeOK
<1>5. \A t \in Socket : t # s => sock'[t] = sock[t]
  BY <1>1 DEF IInv, TypeOK
<1>6. NoSecondSocket'
  BY <1>2, <1>3, <1>5 DEF NoSecondSocket, IInv, Idle, State
<1>7. SharedHasHandlers'
  BY <1>0, <1>1, <1>2 DEF SharedHasHandlers, IInv, TypeOK
<1> QED  BY <1>2, <1>4, <1>5, <1>6, <1>7

(* One watcher more is at least one, and more than one only if there was one. *)
LEMMA OneMoreType ==
    ASSUME NEW n \in 0..ManyWatchers
    PROVE  /\ OneMore(n) \in 0..ManyWatchers /\ OneMore(n) > 0
           /\ n = 0 => OneMore(n) = 1
BY DEF OneMore

-----------------------------------------------------------------------------
(* The invariant holds initially.                                          *)

LEMMA InitInv == ASSUME Init PROVE IInv
<1> USE RealtimeSocketAssumption DEF RealtimeSocketAssumption, Init
<1>1. TypeOK
  <2>1. Unused \in Object /\ NoWatcher \in [Resource -> 0..ManyWatchers]
    BY DEF Object, Unused, NoWatcher
  <2>2. sock \in [Socket -> Object] /\ watchers \in [Socket -> [Resource -> 0..ManyWatchers]]
    BY <2>1
  <2>3. unsubscribed \in [Socket -> SUBSET Resource]
    OBVIOUS
  <2>4. listening \in SUBSET Hook /\ shared \in Socket \cup {NoSocket}
    OBVIOUS
  <2>5. faults \in 0..MaxFaults
    OBVIOUS
  <2> QED  BY <2>2, <2>3, <2>4, <2>5 DEF TypeOK
<1>2. NoSecondSocket /\ SharedHasHandlers /\ InFlightIsNeeded
  BY DEF NoSecondSocket, SharedHasHandlers, InFlightIsNeeded, Unused
<1>3. State(shared) = "unused"
  BY DEF State
<1>4. UnopenedUnwatched /\ WatchedOnce
  BY DEF UnopenedUnwatched, WatchedOnce, NoWatcher
<1>5. ListenedIsWatched /\ UnheardUnsubscribed /\ OpenIsGuarded
  BY <1>3 DEF ListenedIsWatched, UnheardUnsubscribed, OpenIsGuarded
<1>6. FlagOrReconnect /\ SharedUnderWay
  BY DEF FlagOrReconnect, SharedUnderWay
<1> QED  BY <1>1, <1>2, <1>4, <1>5, <1>6 DEF IInv

-----------------------------------------------------------------------------
(* Steps that may open the socket.                                         *)

(* A new socket makes the parts that speak of an open shared one vacuous,  *)
(* and nobody is abandoned.                                                *)
LEMMA CreatedRest ==
    ASSUME IInv, NEW s \in Socket, Created(s), Idle(shared),
           UNCHANGED <<watchers, unsubscribed>>, inFlight' = FALSE
    PROVE  /\ InFlightIsNeeded' /\ ListenedIsWatched' /\ UnheardUnsubscribed'
           /\ OpenIsGuarded' /\ SharedUnderWay' /\ UnopenedUnwatched'
           /\ WatchedOnce'
<1>1. /\ State(shared)' = "connecting"
      /\ \A t \in Socket : t # s => sock'[t] = sock[t]
  BY CreatedInv
<1>2. UnopenedUnwatched'
  BY <1>1 DEF UnopenedUnwatched, IInv, Created, NoWatcher
<1> QED  BY <1>1, <1>2
  DEF InFlightIsNeeded, ListenedIsWatched, UnheardUnsubscribed, OpenIsGuarded,
      SharedUnderWay, Live, WatchedOnce, IInv

LEMMA ConnectedInv == ASSUME IInv, Connected PROVE IInv'
<1>1. Idle(shared)
  BY DEF Connected, IInv, InFlightIsNeeded
<1>2. CASE listening # {}
  <2>1. PICK s \in Socket : Created(s)
    BY <1>2 DEF Connected, CreateSocket, Created
  <2>2. /\ sock' \in [Socket -> Object] /\ shared' \in Socket
        /\ NoSecondSocket' /\ SharedHasHandlers'
    BY <1>1, <2>1, CreatedInv
  <2>3. /\ InFlightIsNeeded' /\ ListenedIsWatched' /\ UnheardUnsubscribed'
        /\ OpenIsGuarded' /\ SharedUnderWay' /\ UnopenedUnwatched'
        /\ WatchedOnce'
    BY <1>1, <2>1, CreatedRest DEF Connected
  <2>4. TypeOK'
    BY <2>1, <2>2 DEF TypeOK, Connected, Created, IInv
  <2>5. FlagOrReconnect'
    BY DEF FlagOrReconnect, Connected, IInv
  <2> QED  BY <2>2, <2>3, <2>4, <2>5 DEF IInv
<1>3. CASE listening = {}
  <2>1. UNCHANGED <<sock, shared, misread, disarmed, watchers, listening,
                    unsubscribed, guarded, intentional, reconnect, faults>>
    BY <1>3 DEF Connected
  <2>2. inFlight' = FALSE
    BY DEF Connected
  <2> QED  BY <1>3, <2>1, <2>2
    DEF IInv, TypeOK, NoSecondSocket, SharedHasHandlers, InFlightIsNeeded,
        UnopenedUnwatched, ListenedIsWatched, UnheardUnsubscribed, WatchedOnce,
        OpenIsGuarded, FlagOrReconnect, SharedUnderWay, State, Idle, Live,
        Listened
<1> QED  BY <1>2, <1>3

LEMMA ReconnectInv == ASSUME IInv, ReconnectFires PROVE IInv'
<1>1. CASE listening # {} /\ UNCHANGED <<sock, shared, misread, disarmed>>
  <2>1. /\ inFlight' \in BOOLEAN
        /\ inFlight' => Idle(shared)
        /\ inFlight' \/ ~Idle(shared)
    <3>1. OpenShared /\ TypeOK
      BY <1>1 DEF ReconnectFires, IInv
    <3>2. CASE \E s \in Socket : Created(s)
      BY <1>1, <3>2 DEF Created
    <3> QED  BY <3>1, <3>2, OpenSharedCases DEF IInv, InFlightIsNeeded
  <2> QED  BY <1>1, <2>1
    DEF ReconnectFires, IInv, TypeOK, NoSecondSocket, SharedHasHandlers,
        InFlightIsNeeded, UnopenedUnwatched, ListenedIsWatched,
        UnheardUnsubscribed, WatchedOnce, OpenIsGuarded, FlagOrReconnect,
        SharedUnderWay, State, Idle, Live, Listened
<1>2. CASE /\ listening # {} /\ Idle(shared) /\ inFlight' = FALSE
           /\ \E s \in Socket : Created(s)
  <2>1. PICK s \in Socket : Created(s)
    BY <1>2
  <2>2. /\ sock' \in [Socket -> Object] /\ shared' \in Socket
        /\ NoSecondSocket' /\ SharedHasHandlers'
    BY <1>2, <2>1, CreatedInv
  <2>3. /\ InFlightIsNeeded' /\ ListenedIsWatched' /\ UnheardUnsubscribed'
        /\ OpenIsGuarded' /\ SharedUnderWay' /\ UnopenedUnwatched'
        /\ WatchedOnce'
    BY <1>2, <2>1, CreatedRest DEF ReconnectFires
  <2>4. TypeOK'
    BY <1>2, <2>1, <2>2 DEF TypeOK, ReconnectFires, Created, IInv
  <2>5. FlagOrReconnect'
    BY DEF FlagOrReconnect, ReconnectFires, IInv
  <2> QED  BY <2>2, <2>3, <2>4, <2>5 DEF IInv
<1>3. CASE listening = {}
  <2>1. UNCHANGED <<sock, shared, inFlight, misread, disarmed>>
    BY <1>3 DEF ReconnectFires
  <2> QED  BY <1>3, <2>1
    DEF ReconnectFires, IInv, TypeOK, NoSecondSocket, SharedHasHandlers,
        InFlightIsNeeded, UnopenedUnwatched, ListenedIsWatched,
        UnheardUnsubscribed, WatchedOnce, OpenIsGuarded, FlagOrReconnect,
        SharedUnderWay, State, Idle, Live, Listened
<1> QED  BY <1>1, <1>2, <1>3, OpenSharedCases DEF ReconnectFires, IInv

(* What the first or a further listener of a resource does to an open      *)
(* socket's watchers.                                                      *)
LEMMA SubscribedWatchers ==
    ASSUME IInv, NEW h \in Hook, Subscribe(h)
    PROVE  /\ watchers' \in [Socket -> [Resource -> 0..ManyWatchers]]
           /\ \A t \in Socket : t # shared \/ State(shared) # "open"
                 => watchers'[t] = watchers[t]
           /\ State(shared) = "open" => \A r \in Resource :
                 IF r = ResourceOf[h] /\ r \notin Listened
                 THEN watchers'[shared][r] = OneMore(watchers[shared][r])
                 ELSE watchers'[shared][r] = watchers[shared][r]
<1>1. /\ watchers \in [Socket -> [Resource -> 0..ManyWatchers]]
      /\ shared \in Socket \cup {NoSocket}
      /\ State(shared) = "open" => shared \in Socket
  BY DEF IInv, TypeOK, State
<1>2. ResourceOf[h] \in Resource
  BY RealtimeSocketAssumption DEF RealtimeSocketAssumption
<1>3. CASE ResourceOf[h] \notin Listened /\ State(shared) = "open"
  <2> DEFINE q == ResourceOf[h]
  <2>1. watchers' = [watchers EXCEPT ![shared] =
                        [@ EXCEPT ![q] = OneMore(watchers[shared][q])]]
    BY <1>3 DEF Subscribe
  <2>2. OneMore(watchers[shared][q]) \in 0..ManyWatchers
    BY <1>1, <1>2, <1>3, OneMoreType
  <2> HIDE DEF q
  <2> QED  BY <1>1, <1>2, <1>3, <2>1, <2>2 DEF q
<1>4. CASE ~(ResourceOf[h] \notin Listened /\ State(shared) = "open")
  <2>1. watchers' = watchers
    BY <1>4 DEF Subscribe
  <2> QED  BY <1>1, <1>4, <2>1
<1> QED  BY <1>3, <1>4

LEMMA SubscribeInv == ASSUME IInv, NEW h \in Hook, Subscribe(h) PROVE IInv'
<1>1. /\ listening' = listening \cup {h} /\ Listened' = Listened \cup {ResourceOf[h]}
      /\ listening' \in SUBSET Hook
  BY DEF Subscribe, Listened, IInv, TypeOK
<1>2. OpenShared /\ TypeOK
  BY DEF Subscribe, IInv
<1>3. CASE UNCHANGED <<sock, shared, misread, disarmed>>
  <2>1. /\ inFlight' \in BOOLEAN
        /\ inFlight' => Idle(shared)
        /\ inFlight' \/ ~Idle(shared)
    <3>1. ~\E s \in Socket : Created(s)
      BY <1>3 DEF Created
    <3> QED  BY <1>2, <3>1, OpenSharedCases DEF IInv, InFlightIsNeeded
  <2>2. TypeOK'
    BY <1>1, <1>3, <2>1, SubscribedWatchers DEF Subscribe, IInv, TypeOK
  <2>3. /\ NoSecondSocket' /\ SharedHasHandlers' /\ InFlightIsNeeded'
        /\ OpenIsGuarded' /\ FlagOrReconnect' /\ SharedUnderWay'
    BY <1>3, <2>1
    DEF Subscribe, IInv, NoSecondSocket, SharedHasHandlers, InFlightIsNeeded,
        OpenIsGuarded, FlagOrReconnect, SharedUnderWay, State, Idle, Live
  <2>4. UnopenedUnwatched'
    BY <1>3, SubscribedWatchers
    DEF IInv, TypeOK, UnopenedUnwatched, State
  <2>5. State(shared)' = State(shared)
    BY <1>3 DEF State
  <2>6. ListenedIsWatched' /\ UnheardUnsubscribed' /\ WatchedOnce'
    <3>1. CASE State(shared) = "open"
      <4>1. shared \in Socket /\ watchers[shared] \in [Resource -> 0..ManyWatchers]
        BY <1>2, <3>1 DEF TypeOK, State
      <4>2. \A r \in Resource : OneMore(watchers[shared][r]) > 0
        BY <4>1, OneMoreType
      <4>3. Listened \subseteq Resource /\ ResourceOf[h] \in Resource
        BY <1>2, RealtimeSocketAssumption
        DEF Listened, TypeOK, RealtimeSocketAssumption
      <4>4. ListenedIsWatched'
        BY <1>1, <1>3, <3>1, <4>1, <4>2, <4>3, SubscribedWatchers
        DEF IInv, ListenedIsWatched
      <4>5. UnheardUnsubscribed'
        BY <1>1, <1>3, <3>1, <4>1, <4>3, SubscribedWatchers
        DEF Subscribe, IInv, UnheardUnsubscribed
      <4>6. WatchedOnce'
        <5> SUFFICES ASSUME NEW t \in Socket, NEW r \in Resource, watchers'[t][r] > 1
                     PROVE  r \in unsubscribed[t]
          BY DEF WatchedOnce, Subscribe
        <5>1. CASE t # shared \/ r # ResourceOf[h] \/ r \in Listened
          BY <3>1, <4>1, <5>1, SubscribedWatchers DEF IInv, WatchedOnce
        <5>2. CASE t = shared /\ r = ResourceOf[h] /\ r \notin Listened
          <6>1. watchers[t][r] # 0
            BY <3>1, <4>1, <5>2, SubscribedWatchers, OneMoreType
          <6> QED  BY <3>1, <4>1, <5>2, <6>1 DEF IInv, UnheardUnsubscribed
        <5> QED  BY <5>1, <5>2
      <4> QED  BY <4>4, <4>5, <4>6
    <3>2. CASE State(shared) # "open"
      <4>1. \A t \in Socket : watchers'[t] = watchers[t]
        BY <3>2, SubscribedWatchers
      <4> QED  BY <2>5, <3>2, <4>1
        DEF Subscribe, IInv, ListenedIsWatched, UnheardUnsubscribed, WatchedOnce
    <3> QED  BY <3>1, <3>2
  <2> QED  BY <2>2, <2>3, <2>4, <2>6 DEF IInv
<1>4. CASE /\ Idle(shared) /\ inFlight' = FALSE
           /\ \E s \in Socket : Created(s)
  <2>1. PICK s \in Socket : Created(s)
    BY <1>4
  <2>2. /\ sock' \in [Socket -> Object] /\ shared' \in Socket
        /\ NoSecondSocket' /\ SharedHasHandlers'
    BY <1>4, <2>1, CreatedInv
  <2>3. watchers' = watchers /\ unsubscribed' = unsubscribed
    BY <1>4 DEF Subscribe, Idle
  <2>4. /\ InFlightIsNeeded' /\ ListenedIsWatched' /\ UnheardUnsubscribed'
        /\ OpenIsGuarded' /\ SharedUnderWay' /\ UnopenedUnwatched'
        /\ WatchedOnce'
    BY <1>4, <2>1, <2>3, CreatedRest
  <2>5. TypeOK'
    BY <1>1, <1>4, <2>1, <2>2, <2>3 DEF TypeOK, Subscribe, Created, IInv
  <2>6. FlagOrReconnect'
    BY DEF FlagOrReconnect, Subscribe, IInv
  <2> QED  BY <2>2, <2>4, <2>5, <2>6 DEF IInv
<1> QED  BY <1>2, <1>3, <1>4, OpenSharedCases

-----------------------------------------------------------------------------
(* Unsubscribe and the callbacks.                                          *)

(* Letting go of a socket takes its callbacks or begins its close.         *)
LEMMA LetGoFacts ==
    ASSUME TypeOK, shared \in Socket, LetGo(shared)
    PROVE  /\ sock' \in [Socket -> Object]
           /\ \A t \in Socket : t # shared => sock'[t] = sock[t]
           /\ sock'[shared].state \in {"connecting", "open"}
                 => ~sock'[shared].handlers
           /\ sock'[shared].state \in {"unused", "connecting", "closed"}
                 => sock[shared].state \in {"unused", "connecting", "closed"}
<1>1. State(shared) = sock[shared].state /\ sock[shared] \in Object
  BY RealtimeSocketAssumption DEF State, TypeOK, RealtimeSocketAssumption
<1>2. CASE State(shared) = "connecting"
  <2>1. sock' = [sock EXCEPT ![shared] = [@ EXCEPT !.handlers = FALSE]]
    BY <1>2 DEF LetGo
  <2>2. [sock[shared] EXCEPT !.handlers = FALSE] \in Object
    BY <1>1 DEF Object
  <2> QED  BY <1>1, <1>2, <2>1, <2>2 DEF TypeOK, Object
<1>3. CASE State(shared) \in {"open", "closing"}
  <2>1. sock' = [sock EXCEPT ![shared] = [@ EXCEPT !.state = "closing"]]
    BY <1>3 DEF LetGo
  <2>2. [sock[shared] EXCEPT !.state = "closing"] \in Object
    BY <1>1 DEF Object
  <2> QED  BY <1>1, <1>3, <2>1, <2>2 DEF TypeOK, Object
<1>4. CASE State(shared) \notin {"connecting", "open", "closing"}
  <2>1. sock' = sock
    BY <1>4 DEF LetGo
  <2> QED  BY <1>1, <1>4, <2>1 DEF TypeOK
<1> QED  BY <1>2, <1>3, <1>4

LEMMA UnsubscribeInv == ASSUME IInv, NEW h \in Hook, Unsubscribe(h) PROVE IInv'
<1> USE RealtimeSocketAssumption DEF RealtimeSocketAssumption
<1>1. /\ listening' = listening \ {h} /\ Listened' \subseteq Listened
      /\ listening' \in SUBSET Hook
  BY DEF Unsubscribe, Listened, IInv, TypeOK
<1>2. /\ unsubscribed' \in [Socket -> SUBSET Resource]
      /\ \A t \in Socket : unsubscribed[t] \subseteq unsubscribed'[t]
      /\ State(shared) = "open" =>
            \A r \in Listened \ Listened' : r \in unsubscribed'[shared]
  <2>1. TypeOK /\ ResourceOf[h] \in Resource
    BY DEF IInv
  <2> DEFINE last == \A g \in listening \ {h} : ResourceOf[g] # ResourceOf[h]
  <2>2. CASE last /\ State(shared) = "open"
    <3>1. shared \in Socket
      BY <2>1, <2>2 DEF State, TypeOK
    <3>2. unsubscribed' = [unsubscribed EXCEPT ![shared] =
                              unsubscribed[shared] \cup {ResourceOf[h]}]
      BY <2>2 DEF Unsubscribe
    <3>3. Listened \ Listened' \subseteq {ResourceOf[h]}
      BY <1>1 DEF Listened
    <3> HIDE DEF last
    <3> QED  BY <2>1, <3>1, <3>2, <3>3 DEF TypeOK
  <2>3. CASE ~last
    <3>1. unsubscribed' = unsubscribed
      BY <2>3 DEF Unsubscribe
    <3>2. Listened' = Listened
      BY <1>1, <2>3 DEF Listened
    <3> QED  BY <2>1, <3>1, <3>2 DEF TypeOK
  <2>4. CASE State(shared) # "open"
    <3>1. unsubscribed' = unsubscribed
      BY <2>4 DEF Unsubscribe
    <3> QED  BY <2>1, <2>4, <3>1 DEF TypeOK
  <2> QED  BY <2>2, <2>3, <2>4
<1>3. CASE listening' = {} /\ shared # NoSocket
  <2>1. /\ shared \in Socket /\ LetGo(shared) /\ TypeOK
        /\ intentional' = TRUE /\ reconnect' = FALSE /\ guarded' = NoSocket
        /\ shared' = NoSocket
        /\ UNCHANGED <<watchers, inFlight, misread, disarmed, faults>>
    BY <1>3 DEF Unsubscribe, IInv, TypeOK
  <2>2. State(shared)' = "unused"
    BY <2>1 DEF State
  <2>3. TypeOK'
    BY <1>1, <1>2, <2>1, LetGoFacts DEF TypeOK
  <2>4. NoSecondSocket'
    BY <2>1, LetGoFacts DEF NoSecondSocket, IInv
  <2>5. UnopenedUnwatched'
    BY <2>1, LetGoFacts DEF UnopenedUnwatched, IInv
  <2>6. WatchedOnce'
    BY <1>2, <2>1 DEF WatchedOnce, IInv
  <2>7. /\ SharedHasHandlers' /\ InFlightIsNeeded' /\ ListenedIsWatched'
        /\ UnheardUnsubscribed' /\ OpenIsGuarded' /\ FlagOrReconnect'
        /\ SharedUnderWay'
    BY <1>3, <2>1, <2>2
    DEF SharedHasHandlers, InFlightIsNeeded, ListenedIsWatched,
        UnheardUnsubscribed, OpenIsGuarded, FlagOrReconnect, SharedUnderWay, Idle
  <2> QED  BY <2>3, <2>4, <2>5, <2>6, <2>7 DEF IInv
<1>4. CASE ~(listening' = {} /\ shared # NoSocket)
  <2>1. UNCHANGED <<sock, shared, intentional, reconnect, guarded, watchers,
                    inFlight, misread, disarmed, faults>>
    BY <1>4 DEF Unsubscribe
  <2>2. State(shared)' = State(shared)
    BY <2>1 DEF State
  <2>3. TypeOK'
    BY <1>1, <1>2, <2>1 DEF IInv, TypeOK
  <2>4. WatchedOnce' /\ UnopenedUnwatched'
    BY <1>2, <2>1 DEF WatchedOnce, UnopenedUnwatched, IInv
  <2>5. ListenedIsWatched'
    BY <1>1, <2>1, <2>2 DEF ListenedIsWatched, IInv
  <2>6. UnheardUnsubscribed'
    <3>1. State(shared) = "open" => shared \in Socket
      BY DEF IInv, TypeOK, State
    <3> QED  BY <1>1, <1>2, <2>1, <2>2, <3>1 DEF UnheardUnsubscribed, IInv
  <2>7. /\ NoSecondSocket' /\ SharedHasHandlers' /\ InFlightIsNeeded'
        /\ OpenIsGuarded' /\ FlagOrReconnect' /\ SharedUnderWay'
    BY <1>1, <2>1, <2>2
    DEF NoSecondSocket, SharedHasHandlers, InFlightIsNeeded, OpenIsGuarded,
        FlagOrReconnect, SharedUnderWay, Idle, Live, IInv
  <2> QED  BY <2>3, <2>4, <2>5, <2>6, <2>7 DEF IInv
<1> QED  BY <1>3, <1>4

(* A socket that opens is the shared one, unless it was let go of or the   *)
(* flag is set: then it closes itself.                                     *)
LEMMA OpensInv == ASSUME IInv, NEW s \in Socket, Opens(s) PROVE IInv'
<1> USE RealtimeSocketAssumption DEF RealtimeSocketAssumption
<1>1. /\ UNCHANGED <<listening, shared, intentional, inFlight, unsubscribed,
                     misread, disarmed, faults>>
      /\ sock[s].state = "connecting" /\ sock[s] \in Object /\ TypeOK
      /\ Listened' = Listened /\ Listened \subseteq Resource
  BY DEF Opens, IInv, TypeOK, Listened
<1>2. CASE ~sock[s].handlers \/ intentional
  <2>1. /\ sock' = [sock EXCEPT ![s] = [@ EXCEPT !.state = "closing"]]
        /\ UNCHANGED <<watchers, reconnect, guarded>>
    BY <1>2 DEF Opens
  <2>2. [sock[s] EXCEPT !.state = "closing"] \in Object
    BY <1>1 DEF Object
  <2>3. /\ sock' \in [Socket -> Object] /\ sock'[s].state = "closing"
        /\ sock'[s].handlers = sock[s].handlers
        /\ \A t \in Socket : t # s => sock'[t] = sock[t]
    BY <1>1, <2>1, <2>2 DEF TypeOK, Object
  <2>4. \/ s # shared /\ State(shared)' = State(shared)
        \/ s = shared /\ State(shared) = "connecting" /\ State(shared)' = "closing"
    BY <1>1, <2>3 DEF State, TypeOK
  <2>5. TypeOK'
    BY <1>1, <2>1, <2>3 DEF TypeOK
  <2>6. NoSecondSocket' /\ SharedHasHandlers' /\ UnopenedUnwatched'
    BY <1>1, <2>1, <2>3
    DEF NoSecondSocket, SharedHasHandlers, UnopenedUnwatched, IInv, TypeOK
  <2>7. /\ InFlightIsNeeded' /\ ListenedIsWatched' /\ UnheardUnsubscribed'
        /\ WatchedOnce' /\ OpenIsGuarded' /\ FlagOrReconnect' /\ SharedUnderWay'
    BY <1>1, <2>1, <2>4
    DEF InFlightIsNeeded, ListenedIsWatched, UnheardUnsubscribed, WatchedOnce,
        OpenIsGuarded, FlagOrReconnect, SharedUnderWay, Idle, Live, IInv
  <2> QED  BY <2>5, <2>6, <2>7 DEF IInv
<1>3. CASE sock[s].handlers /\ ~intentional
  <2>1. /\ sock' = [sock EXCEPT ![s] = [@ EXCEPT !.state = "open"]]
        /\ reconnect' = FALSE /\ guarded' = s
        /\ watchers' = [watchers EXCEPT ![s] =
              [r \in Resource |-> IF r \in Listened THEN OneMore(watchers[s][r])
                                  ELSE watchers[s][r]]]
    BY <1>3 DEF Opens
  <2>2. [sock[s] EXCEPT !.state = "open"] \in Object
    BY <1>1 DEF Object
  <2>3. /\ sock' \in [Socket -> Object] /\ sock'[s].state = "open"
        /\ sock'[s].handlers
        /\ \A t \in Socket : t # s => sock'[t] = sock[t]
    BY <1>1, <1>3, <2>1, <2>2 DEF TypeOK, Object
  <2>4. s = shared /\ State(shared) = "connecting" /\ State(shared)' = "open"
    BY <1>1, <1>3, <2>3 DEF IInv, NoSecondSocket, State
  <2>5. watchers[s] = NoWatcher
    BY <1>1 DEF IInv, UnopenedUnwatched
  <2>6. watchers' = [watchers EXCEPT ![s] =
              [r \in Resource |-> IF r \in Listened THEN 1 ELSE 0]]
    BY <2>1, <2>5 DEF NoWatcher, OneMore
  <2>7. /\ watchers' \in [Socket -> [Resource -> 0..ManyWatchers]]
        /\ \A r \in Resource : watchers'[s][r] = (IF r \in Listened THEN 1 ELSE 0)
        /\ \A t \in Socket : t # s => watchers'[t] = watchers[t]
    BY <1>1, <2>6 DEF TypeOK
  <2>8. TypeOK'
    BY <1>1, <2>1, <2>3, <2>7 DEF TypeOK
  <2>9. NoSecondSocket' /\ SharedHasHandlers' /\ UnopenedUnwatched'
    BY <1>1, <2>3, <2>4, <2>7
    DEF NoSecondSocket, SharedHasHandlers, UnopenedUnwatched, IInv
  <2>10. WatchedOnce' /\ ListenedIsWatched' /\ UnheardUnsubscribed'
    BY <1>1, <2>4, <2>7
    DEF WatchedOnce, ListenedIsWatched, UnheardUnsubscribed, IInv
  <2>11. /\ InFlightIsNeeded' /\ OpenIsGuarded' /\ FlagOrReconnect'
         /\ SharedUnderWay'
    BY <1>1, <2>1, <2>4
    DEF InFlightIsNeeded, OpenIsGuarded, FlagOrReconnect, SharedUnderWay,
        Idle, Live, IInv
  <2> QED  BY <2>8, <2>9, <2>10, <2>11 DEF IInv
<1> QED  BY <1>2, <1>3

(* The end of a socket, whatever its callbacks find.                       *)
LEMMA GoneInv ==
    ASSUME IInv, NEW s \in Socket, sock[s].state \in {"connecting", "open", "closing"},
           Gone(s), faults' \in 0..MaxFaults
    PROVE  IInv'
<1> USE RealtimeSocketAssumption DEF RealtimeSocketAssumption
<1> DEFINE ended == [Unused EXCEPT !.state = "closed"]
<1>1. ended \in Object /\ ended.state = "closed" /\ ended.handlers
  BY DEF Unused, Object
<1>2. /\ sock' = [sock EXCEPT ![s] = ended]
      /\ watchers' = [watchers EXCEPT ![s] = NoWatcher]
      /\ unsubscribed' = [unsubscribed EXCEPT ![s] = {}]
      /\ UNCHANGED <<listening, shared, inFlight>>
      /\ OnClose(s) /\ TypeOK /\ Listened' = Listened
  BY DEF Gone, IInv, Listened
<1> HIDE DEF ended
<1>3. /\ sock' \in [Socket -> Object] /\ sock'[s].state = "closed" /\ sock'[s].handlers
      /\ \A t \in Socket : t # s => sock'[t] = sock[t]
  BY <1>1, <1>2 DEF TypeOK
<1>4. NoWatcher \in [Resource -> 0..ManyWatchers] /\ \A r \in Resource : NoWatcher[r] = 0
  BY DEF NoWatcher
<1>5. /\ watchers' \in [Socket -> [Resource -> 0..ManyWatchers]] /\ watchers'[s] = NoWatcher
      /\ \A t \in Socket : t # s => watchers'[t] = watchers[t]
      /\ unsubscribed' \in [Socket -> SUBSET Resource]
      /\ \A t \in Socket : t # s => unsubscribed'[t] = unsubscribed[t]
  BY <1>2, <1>4 DEF TypeOK
<1>6. \/ s # shared /\ State(shared)' = State(shared)
      \/ s = shared /\ State(shared)' = "closed"
  BY <1>2, <1>3 DEF State, TypeOK
<1>7. TypeOK'
  BY <1>2, <1>3, <1>5 DEF TypeOK, OnClose
<1>8. NoSecondSocket' /\ SharedHasHandlers' /\ UnopenedUnwatched'
  BY <1>2, <1>3, <1>5
  DEF NoSecondSocket, SharedHasHandlers, UnopenedUnwatched, IInv, TypeOK
<1>9. InFlightIsNeeded'
  BY <1>2, <1>6 DEF InFlightIsNeeded, Idle, IInv
<1>10. ListenedIsWatched' /\ UnheardUnsubscribed'
  <2>1. State(shared)' = "open" => s # shared /\ shared \in Socket
    BY <1>2, <1>6 DEF State, TypeOK
  <2> QED  BY <1>2, <1>5, <1>6, <2>1
    DEF ListenedIsWatched, UnheardUnsubscribed, IInv
<1>11. WatchedOnce'
  <2> SUFFICES ASSUME NEW t \in Socket, NEW r \in Resource, watchers'[t][r] > 1
               PROVE  r \in unsubscribed'[t]
    BY DEF WatchedOnce
  <2>1. t # s
    BY <1>4, <1>5
  <2> QED  BY <1>5, <2>1 DEF WatchedOnce, IInv
<1>12. OpenIsGuarded'
  BY <1>2, <1>6 DEF OpenIsGuarded, OnClose, IInv, State
<1>13. FlagOrReconnect'
  BY <1>2 DEF FlagOrReconnect, OnClose, IInv
<1>14. SharedUnderWay'
  <2>1. CASE ~sock[s].handlers
    <3>1. s # shared
      BY <1>2, <2>1 DEF SharedHasHandlers, IInv
    <3> QED  BY <1>2, <1>6, <2>1, <3>1 DEF SharedUnderWay, OnClose, Live, IInv
  <2>2. CASE sock[s].handlers /\ s = shared
    BY <1>2, <2>2 DEF SharedUnderWay, OnClose
  <2>3. CASE sock[s].handlers /\ s # shared
    BY <1>2, <1>6, <2>3
    DEF SharedUnderWay, OnClose, Live, FlagOrReconnect, IInv
  <2> QED  BY <2>1, <2>2, <2>3
<1> QED  BY <1>7, <1>8, <1>9, <1>10, <1>11, <1>12, <1>13, <1>14 DEF IInv

(* A socket that falls silent, or that its watchdog closes.                *)
LEMMA SilenceInv ==
    ASSUME IInv, NEW s \in Socket, GoesSilent(s) \/ WatchdogFires(s)
    PROVE  IInv'
<1> USE RealtimeSocketAssumption DEF RealtimeSocketAssumption
<1>1. /\ UNCHANGED <<listening, shared, watchers, reconnect, guarded,
                     intentional, inFlight, unsubscribed, misread, disarmed>>
      /\ faults' \in 0..MaxFaults /\ TypeOK
      /\ sock[s].state = "open" /\ sock[s] \in Object
      /\ Listened' = Listened
  BY DEF GoesSilent, WatchdogFires, Fault, IInv, TypeOK, Listened
<1>2. PICK o \in Object : /\ sock' = [sock EXCEPT ![s] = o]
                          /\ o.state \in {"open", "closing"}
                          /\ o.handlers = sock[s].handlers
  <2>1. CASE GoesSilent(s)
    <3>1. sock' = [sock EXCEPT ![s] = [@ EXCEPT !.silent = TRUE]]
      BY <2>1 DEF GoesSilent
    <3>2. [sock[s] EXCEPT !.silent = TRUE] \in Object
      BY <1>1 DEF Object
    <3> QED  BY <1>1, <3>1, <3>2 DEF Object
  <2>2. CASE WatchdogFires(s)
    <3>1. sock' = [sock EXCEPT ![s] = [@ EXCEPT !.state = "closing"]]
      BY <2>2 DEF WatchdogFires
    <3>2. [sock[s] EXCEPT !.state = "closing"] \in Object
      BY <1>1 DEF Object
    <3> QED  BY <1>1, <3>1, <3>2 DEF Object
  <2> QED  BY <2>1, <2>2
<1>3. /\ sock' \in [Socket -> Object] /\ sock'[s] = o
      /\ \A t \in Socket : t # s => sock'[t] = sock[t]
  BY <1>1, <1>2 DEF TypeOK
<1>4. \/ State(shared)' = State(shared)
      \/ State(shared) = "open" /\ State(shared)' = "closing"
  BY <1>1, <1>2, <1>3 DEF State, TypeOK
<1>5. TypeOK'
  BY <1>1, <1>3 DEF TypeOK
<1>6. NoSecondSocket' /\ SharedHasHandlers' /\ UnopenedUnwatched'
  BY <1>1, <1>2, <1>3
  DEF NoSecondSocket, SharedHasHandlers, UnopenedUnwatched, IInv, TypeOK
<1>7. /\ InFlightIsNeeded' /\ ListenedIsWatched' /\ UnheardUnsubscribed'
      /\ WatchedOnce' /\ OpenIsGuarded' /\ FlagOrReconnect' /\ SharedUnderWay'
  BY <1>1, <1>4
  DEF InFlightIsNeeded, ListenedIsWatched, UnheardUnsubscribed, WatchedOnce,
      OpenIsGuarded, FlagOrReconnect, SharedUnderWay, Idle, Live, IInv
<1> QED  BY <1>5, <1>6, <1>7 DEF IInv

-----------------------------------------------------------------------------
(* The theorems.                                                           *)

(* The invariant is kept by every step.                                    *)
LEMMA NextInv == ASSUME IInv, [Next]_vars PROVE IInv'
<1>1. CASE UNCHANGED vars
  BY <1>1
  DEF vars, IInv, TypeOK, NoSecondSocket, SharedHasHandlers, InFlightIsNeeded,
      UnopenedUnwatched, ListenedIsWatched, UnheardUnsubscribed, WatchedOnce,
      OpenIsGuarded, FlagOrReconnect, SharedUnderWay, State, Idle, Live, Listened
<1>2. CASE \E h \in Hook : Subscribe(h) \/ Unsubscribe(h)
  BY <1>2, SubscribeInv, UnsubscribeInv
<1>3. CASE Connected \/ ReconnectFires
  BY <1>3, ConnectedInv, ReconnectInv
<1>4. ASSUME NEW s \in Socket, Closed(s) \/ Lost(s)
      PROVE  IInv'
  <2>1. faults' \in 0..MaxFaults
    BY <1>4, RealtimeSocketAssumption
    DEF Closed, Lost, Fault, NoFault, IInv, TypeOK, RealtimeSocketAssumption
  <2> QED  BY <1>4, <2>1, GoneInv DEF Closed, Lost
<1>5. CASE \E s \in Socket : \/ Opens(s) \/ Closed(s) \/ Lost(s)
                             \/ GoesSilent(s) \/ WatchdogFires(s)
  BY <1>4, <1>5, OpensInv, SilenceInv
<1> QED  BY <1>1, <1>2, <1>3, <1>5 DEF Next

LEMMA Invariance == Spec => []IInv
BY InitInv, NextInv, PTL DEF Spec

-----------------------------------------------------------------------------
(* Nothing is left open.                                                   *)

(* No socket is shared when nobody listens, and none is guarded then.      *)
NoneShared == /\ listening = {} => shared = NoSocket
              /\ shared = NoSocket => guarded = NoSocket

(* Only a listener or a callback that finds one opens a socket; only a     *)
(* shared one becomes guarded.                                             *)
LEMMA NoneSharedStep ==
    ASSUME IInv, NoneShared, [Next]_vars
    PROVE  NoneShared'
<1> USE DEF NoneShared
<1>1. ASSUME OpenShared, UNCHANGED guarded, listening' # {} PROVE NoneShared'
  BY <1>1, OpenSharedCases, RealtimeSocketAssumption
  DEF IInv, Created, RealtimeSocketAssumption
<1>2. ASSUME NEW h \in Hook, Subscribe(h) PROVE NoneShared'
  BY <1>1, <1>2 DEF Subscribe
<1>3. ASSUME NEW h \in Hook, Unsubscribe(h) PROVE NoneShared'
  BY <1>3 DEF Unsubscribe
<1>4. CASE Connected
  BY <1>4, RealtimeSocketAssumption
  DEF Connected, CreateSocket, RealtimeSocketAssumption
<1>5. CASE ReconnectFires
  BY <1>1, <1>5 DEF ReconnectFires
<1>6. ASSUME NEW s \in Socket, Opens(s) PROVE NoneShared'
  <2>1. sock[s].handlers => s = shared /\ s # NoSocket
    BY <1>6, RealtimeSocketAssumption
    DEF Opens, IInv, NoSecondSocket, RealtimeSocketAssumption
  <2> QED  BY <1>6, <2>1 DEF Opens
<1>7. ASSUME NEW s \in Socket, Closed(s) \/ Lost(s) PROVE NoneShared'
  BY <1>7 DEF Closed, Lost, Gone, OnClose
<1>8. ASSUME NEW s \in Socket, GoesSilent(s) \/ WatchdogFires(s)
      PROVE  NoneShared'
  BY <1>8 DEF GoesSilent, WatchdogFires
<1>9. CASE UNCHANGED vars
  BY <1>9 DEF vars
<1> QED
  BY <1>2, <1>3, <1>4, <1>5, <1>6, <1>7, <1>8, <1>9 DEF Next

-----------------------------------------------------------------------------
(* Every variable keeps its type.                                          *)
THEOREM TypeCorrect == Spec => []TypeOK
<1>1. IInv => TypeOK
  BY DEF IInv
<1> QED  BY <1>1, Invariance, PTL

(* At most the shared socket is being opened or in use, whatever order     *)
(* hooks, timers and the callbacks of older sockets come in.               *)
THEOREM NoSecondSocketHolds == Spec => []NoSecondSocket
<1>1. IInv => NoSecondSocket
  BY DEF IInv
<1> QED  BY <1>1, Invariance, PTL

(* When nobody listens, no connection is kept and none is opened, whatever *)
(* connect, timer or callback comes after the last listener has left.      *)
THEOREM NothingLeftOpenHolds == Spec => []NothingLeftOpen
<1>1. Init => NoneShared
  BY DEF Init, NoneShared
<1>2. IInv /\ NoneShared /\ [Next]_vars => NoneShared'
  BY NoneSharedStep
<1>3. IInv /\ NoneShared => NothingLeftOpen
  BY RealtimeSocketAssumption
  DEF IInv, NoSecondSocket, NoneShared, NothingLeftOpen, RealtimeSocketAssumption
<1> QED  BY <1>1, <1>2, <1>3, Invariance, PTL DEF Spec

(* What is listened to on an open socket is watched at the far end.        *)
THEOREM ListenedIsWatchedHolds == Spec => []ListenedIsWatched
<1>1. IInv => ListenedIsWatched
  BY DEF IInv
<1> QED  BY <1>1, Invariance, PTL

(* It is watched once, unless it was unsubscribed on the same socket.      *)
THEOREM WatchedOnceHolds == Spec => []WatchedOnce
<1>1. IInv => WatchedOnce
  BY DEF IInv
<1> QED  BY <1>1, Invariance, PTL

(* An open socket has its watchdog, unless another's end disarmed it.      *)
THEOREM OpenIsGuardedHolds == Spec => []OpenIsGuarded
<1>1. IInv => OpenIsGuarded
  BY DEF IInv
<1> QED  BY <1>1, Invariance, PTL

(* Listeners are never left with nothing under way, unless a socket took   *)
(* the flag of an earlier one for its own.                                 *)
THEOREM NotAbandonedHolds == Spec => []NotAbandoned
<1>1. IInv => NotAbandoned
  <2>1. ASSUME TypeOK, SharedHasHandlers, Live(shared)
        PROVE  UnderWay
    BY <2>1 DEF TypeOK, SharedHasHandlers, Live, State, UnderWay
  <2> QED  BY <2>1 DEF IInv, SharedUnderWay, NotAbandoned, UnderWay
<1> QED  BY <1>1, Invariance, PTL
=============================================================================
