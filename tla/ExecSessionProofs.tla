------------------------- MODULE ExecSessionProofs -------------------------
(***************************************************************************)
(* Theorems about the terminal sessions, for any number of shells that a   *)
(* session starts, messages and losses: one shell for a session and none   *)
(* after it, no session left with nobody to end it, and three attempts at  *)
(* most.                                                                   *)
(***************************************************************************)
EXTENDS ExecSession, SequenceTheorems, TLAPS

-----------------------------------------------------------------------------
(* The inductive invariant.                                                *)

Live(s) == sock[s].state \in {"connecting", "open", "closing"}

(* A tab that is there has one live socket, or it is about to make one.    *)
OneLive ==
    tab.mounted => \A s \in Sockets : Live(s) =>
        /\ tab.connect = "idle"
        /\ \A r \in Sockets : Live(r) => r = s

(* Before the first session, every socket but the first is an attempt.     *)
AttemptsCount ==
    tab.mounted /\ ~tab.connectedOnce => \A s \in Sockets :
        \/ s <= tab.attempt
        \/ tab.connect = "idle" /\ s = tab.attempt + 1
        \/ sock[s].state = "none"

(* The live socket of a tab that is there is the one wsRef holds.          *)
HeldByTab ==
    tab.mounted => \A s \in Sockets : Live(s) => tab.ws = s

TabInv == OneLive /\ HeldByTab /\ AttemptsCount /\ RetriesEnd

(* What a phase says of a session's shell.                                 *)
Coherent(r) ==
    /\ r.phase \in {"none", "starting"} => r.shell = 0
    /\ r.phase \in {"serving", "reading"} => r.shell # 0
    /\ r.phase = "reading" => r.mode = "pty"

SessionsCoherent == \A s \in Sockets : Coherent(session[s])

SessionInv == SessionsCoherent /\ NoOrphanShell

IInv == TypeOK /\ TabInv /\ SessionInv /\ SessionIsTold

-----------------------------------------------------------------------------
(* The tab.                                                                *)

LEMMA Steps ==
    /\ "idle" \in ConnectSteps /\ "refreshing" \in ConnectSteps /\ "waiting" \in ConnectSteps
    /\ 0 \in Attempts /\ \A n \in Attempts : n \in Nat /\ (n < 2 => n + 1 \in Attempts)
    /\ 0 \in WsRefs /\ \A s \in Sockets : s \in WsRefs /\ s \in Nat
    /\ 4 \in Sockets
BY DEF ConnectSteps, Attempts, WsRefs, Sockets

LEMMA InitTab == ASSUME Init PROVE TabInv
BY DEF Init, TabInv, OneLive, HeldByTab, AttemptsCount, RetriesEnd, Live, Sockets

(* The end of a live socket.                                               *)
LEMMA OnCloseTab ==
    ASSUME IInv, NEW s \in Sockets, Live(s), OnClose(s)
    PROVE  /\ tab' \in TabState /\ sock' \in [Sockets -> SockState]
           /\ TabInv'
<1>0. /\ tab \in TabState /\ sock \in [Sockets -> SockState]
      /\ OneLive /\ HeldByTab /\ AttemptsCount /\ RetriesEnd
  BY DEF IInv, TypeOK, TabInv
<1>1. /\ sock' \in [Sockets -> SockState]
      /\ sock'[s].state = "closed"
      /\ \A r \in Sockets : r # s => sock'[r] = sock[r]
  BY <1>0 DEF OnClose, SockState
<1>2. tab' \in TabState
  BY <1>0, Steps DEF OnClose, TabState, Retries
<1>3. tab'.mounted = tab.mounted /\ tab'.connectedOnce = tab.connectedOnce
  BY <1>0 DEF OnClose, TabState
<1>4. \/ tab'.connect = tab.connect /\ tab'.attempt = tab.attempt
      \/ /\ tab'.connect = "waiting" /\ tab'.attempt = tab.attempt + 1
         /\ tab.mounted /\ ~tab.connectedOnce
  BY <1>0 DEF OnClose, TabState, Retries
<1>5. OneLive'
  BY <1>0, <1>1, <1>3, <1>4 DEF OneLive, Live
<1>6. AttemptsCount'
  <2> SUFFICES ASSUME tab.mounted, ~tab.connectedOnce, NEW r \in Sockets
               PROVE  \/ r <= tab'.attempt
                      \/ tab'.connect = "idle" /\ r = tab'.attempt + 1
                      \/ sock'[r].state = "none"
    BY <1>3 DEF AttemptsCount
  <2>1. tab.attempt \in Nat /\ r \in Nat
    BY <1>0, Steps DEF TabState
  <2>2. \/ r <= tab.attempt
        \/ tab.connect = "idle" /\ r = tab.attempt + 1
        \/ sock[r].state = "none"
    BY <1>0 DEF AttemptsCount
  <2>3. sock[r].state = "none" => r # s
    BY DEF Live
  <2> QED  BY <1>1, <1>4, <2>1, <2>2, <2>3
<1>7. RetriesEnd'
  <2>1. s # 4 /\ 4 \in Sockets
    BY <1>0, Steps DEF RetriesEnd, Live
  <2> QED  BY <1>0, <1>1, <1>3, <1>4, <2>1 DEF RetriesEnd
<1>8. HeldByTab'
  <2>1. tab.mounted => \A t \in Sockets : t # s => ~Live(t)
    BY <1>0 DEF OneLive
  <2> QED  BY <1>1, <1>3, <2>1 DEF HeldByTab, Live
<1> QED  BY <1>1, <1>2, <1>5, <1>6, <1>7, <1>8 DEF TabInv

(* A new socket is the next attempt, and there are three.                  *)
LEMMA ConnectTab ==
    ASSUME IInv, Connect
    PROVE  /\ tab' \in TabState /\ sock' \in [Sockets -> SockState]
           /\ TabInv'
<1>0. /\ tab \in TabState /\ sock \in [Sockets -> SockState]
      /\ OneLive /\ HeldByTab /\ AttemptsCount /\ RetriesEnd
  BY DEF IInv, TypeOK, TabInv
<1>1. CASE ~tab.mounted
  <2>1. tab' = [tab EXCEPT !.connect = "idle"] /\ sock' = sock
    BY <1>1 DEF Connect
  <2>2. tab' \in TabState
    BY <1>0, <2>1, Steps DEF TabState
  <2>3. tab'.mounted = tab.mounted /\ tab'.connect = "idle" /\ tab'.ws = tab.ws
    BY <1>0, <2>1 DEF TabState
  <2> QED  BY <1>0, <1>1, <2>1, <2>2, <2>3
           DEF TabInv, OneLive, HeldByTab, AttemptsCount, RetriesEnd
<1>2. ASSUME tab.mounted, NEW s \in Sockets, sock[s].state = "none",
             \A r \in 1..(s - 1) : sock[r].state # "none",
             sock' = [sock EXCEPT ![s].state = "connecting"],
             tab' = [tab EXCEPT !.connect = "idle", !.ws = s]
      PROVE  /\ tab' \in TabState /\ sock' \in [Sockets -> SockState]
             /\ TabInv'
  <2>0. tab' \in TabState
    BY <1>0, <1>2, Steps DEF TabState
  <2>1. /\ tab'.connect = "idle" /\ tab'.attempt = tab.attempt
        /\ tab'.connectedOnce = tab.connectedOnce /\ tab'.ws = s
    BY <1>0, <1>2 DEF TabState
  <2>2. /\ sock' \in [Sockets -> SockState]
        /\ sock'[s].state = "connecting"
        /\ \A r \in Sockets : r # s => sock'[r] = sock[r]
    BY <1>0, <1>2 DEF SockState
  <2>3. tab.connect = "refreshing" /\ ~tab.connectedOnce
    BY <1>0 DEF Connect, RetriesEnd
  <2>4. \A r \in Sockets : r <= tab.attempt \/ sock[r].state = "none"
    BY <1>0, <1>2, <2>3 DEF AttemptsCount
  <2>5. tab.attempt \in 0..2 /\ s \in 1..4
    BY <1>0 DEF TabState, Attempts, Sockets
  <2>6. s <= tab.attempt + 1
    <3> SUFFICES ASSUME s > tab.attempt + 1
                 PROVE  FALSE
      BY <2>5
    <3>1. tab.attempt + 1 \in 1..(s - 1) /\ tab.attempt + 1 \in Sockets
      BY <2>5 DEF Sockets
    <3>2. ~(tab.attempt + 1 <= tab.attempt)
      BY <2>5
    <3> QED  BY <1>2, <2>4, <3>1, <3>2
  <2>7. OneLive'
    BY <1>0, <1>2, <2>1, <2>2, <2>3 DEF OneLive, Live
  <2>8. AttemptsCount'
    BY <2>1, <2>2, <2>4, <2>5, <2>6 DEF AttemptsCount, Sockets
  <2>9. RetriesEnd'
    BY <1>0, <2>1, <2>2, <2>5, <2>6, Steps DEF RetriesEnd
  <2>10. HeldByTab'
    <3>1. \A r \in Sockets : ~Live(r)
      BY <1>0, <1>2, <2>3 DEF OneLive
    <3> QED  BY <2>1, <2>2, <3>1 DEF HeldByTab, Live
  <2> QED  BY <2>0, <2>2, <2>7, <2>8, <2>9, <2>10 DEF TabInv
<1> QED  BY <1>1, <1>2 DEF Connect

LEMMA OpensTab ==
    ASSUME IInv, NEW s \in Sockets, Opens(s)
    PROVE  /\ tab' \in TabState /\ sock' \in [Sockets -> SockState]
           /\ TabInv'
<1>0. /\ tab \in TabState /\ sock \in [Sockets -> SockState]
      /\ OneLive /\ HeldByTab /\ AttemptsCount /\ RetriesEnd
  BY DEF IInv, TypeOK, TabInv
<1>1. s # 4 /\ 4 \in Sockets
  BY <1>0, Steps DEF Opens, RetriesEnd
<1>2. CASE ~tab.mounted
  <2>1. tab' = tab /\ sock' = [sock EXCEPT ![s].state = "closing"]
    BY <1>2 DEF Opens
  <2>2. /\ sock' \in [Sockets -> SockState]
        /\ \A r \in Sockets : r # s => sock'[r] = sock[r]
    BY <1>0, <2>1 DEF SockState
  <2> QED  BY <1>0, <1>1, <1>2, <2>1, <2>2
           DEF TabInv, OneLive, HeldByTab, AttemptsCount, RetriesEnd
<1>3. CASE tab.mounted
  <2>1. /\ tab' = [tab EXCEPT !.connectedOnce = TRUE, !.attempt = 0]
        /\ sock' = [sock EXCEPT ![s] = [state |-> "open", opened |-> TRUE]]
    BY <1>3 DEF Opens
  <2>2. tab' \in TabState
    BY <1>0, <2>1, Steps DEF TabState
  <2>3. /\ tab'.mounted = tab.mounted /\ tab'.connect = tab.connect
        /\ tab'.connectedOnce = TRUE /\ tab'.ws = tab.ws
    BY <1>0, <2>1 DEF TabState
  <2>4. /\ sock' \in [Sockets -> SockState]
        /\ \A r \in Sockets : r # s => sock'[r] = sock[r]
    BY <1>0, <2>1 DEF SockState
  <2>5. tab.connect = "idle" /\ \A r \in Sockets : Live(r) => r = s
    BY <1>0, <1>3 DEF OneLive, Live, Opens
  <2>6. OneLive'
    BY <2>3, <2>4, <2>5 DEF OneLive, Live
  <2>7. HeldByTab'
    <3>1. tab.ws = s
      BY <1>0, <1>3 DEF HeldByTab, Live, Opens
    <3> QED  BY <2>3, <2>4, <2>5, <3>1 DEF HeldByTab, Live
  <2> QED  BY <1>0, <1>1, <2>2, <2>3, <2>4, <2>5, <2>6, <2>7
           DEF TabInv, AttemptsCount, RetriesEnd
<1> QED  BY <1>2, <1>3

LEMMA UnmountTab ==
    ASSUME IInv, Unmount
    PROVE  /\ tab' \in TabState /\ sock' \in [Sockets -> SockState]
           /\ TabInv'
<1>0. tab \in TabState /\ sock \in [Sockets -> SockState] /\ RetriesEnd
  BY DEF IInv, TypeOK, TabInv
<1>1. tab' = [tab EXCEPT !.mounted = FALSE, !.ws = 0,
                         !.connect = IF @ = "waiting" THEN "idle" ELSE @]
  BY DEF Unmount
<1>2. tab' \in TabState
  BY <1>0, <1>1, Steps DEF TabState
<1>3. /\ tab'.mounted = FALSE /\ tab'.connectedOnce = tab.connectedOnce
      /\ tab.connect = "idle" => tab'.connect = "idle"
  BY <1>0, <1>1 DEF TabState
<1>4. \/ sock' = sock
      \/ \E s \in Sockets : /\ sock[s].state = "open"
                            /\ sock' = [sock EXCEPT ![s].state = "closing"]
  BY DEF Unmount
<1>5. /\ sock' \in [Sockets -> SockState]
      /\ \A s \in Sockets : sock[s].state = "none" => sock'[s] = sock[s]
  BY <1>0, <1>4 DEF SockState
<1>6. RetriesEnd'
  BY <1>0, <1>3, <1>5, Steps DEF RetriesEnd
<1> QED  BY <1>2, <1>3, <1>5, <1>6 DEF TabInv, OneLive, HeldByTab, AttemptsCount

LEMMA TimerTab ==
    ASSUME IInv, TimerFires
    PROVE  tab' \in TabState /\ sock' = sock /\ TabInv'
<1>0. /\ tab \in TabState
      /\ OneLive /\ HeldByTab /\ AttemptsCount /\ RetriesEnd
  BY DEF IInv, TypeOK, TabInv
<1>1. /\ tab' = [tab EXCEPT !.connect = "refreshing"]
      /\ tab.connect = "waiting" /\ sock' = sock
  BY DEF TimerFires
<1>2. tab' \in TabState
  BY <1>0, <1>1, Steps DEF TabState
<1>3. /\ tab'.connect = "refreshing" /\ tab'.attempt = tab.attempt
      /\ tab'.mounted = tab.mounted /\ tab'.connectedOnce = tab.connectedOnce
      /\ tab'.ws = tab.ws
  BY <1>0, <1>1 DEF TabState
<1>4. OneLive' /\ HeldByTab' /\ AttemptsCount'
  BY <1>0, <1>1, <1>3 DEF OneLive, HeldByTab, AttemptsCount, Live
<1> QED  BY <1>0, <1>1, <1>2, <1>3, <1>4 DEF RetriesEnd, TabInv

-----------------------------------------------------------------------------
(* The sessions.                                                           *)

LEMMA ShellParts ==
    \A p \in Shells : p[1] \in Sockets /\ p[2] \in ShellNos /\ p = <<p[1], p[2]>>
BY DEF Shells

LEMMA InitSessions == ASSUME Init PROVE SessionInv /\ SessionIsTold
BY DEF Init, SessionInv, SessionsCoherent, Coherent, NoOrphanShell, SessionIsTold

(* An action of the session s: what it must show of its own shells; those  *)
(* of the other sessions are as before.                                    *)
LEMMA OneSession ==
    ASSUME IInv, NEW s \in Sockets,
           \A t \in Sockets : t # s => session'[t] = session[t],
           Coherent(session'[s]),
           running' \in SUBSET Shells,
           \A p \in running' :
              \/ p[1] # s /\ p \in running
              \/ /\ p[1] = s /\ session'[s].phase \in {"serving", "reading"}
                 /\ p[2] = session'[s].shell
    PROVE  SessionInv'
<1>1. SessionsCoherent'
  BY DEF IInv, SessionInv, SessionsCoherent, Coherent
<1>2. NoOrphanShell'
  BY ShellParts DEF IInv, SessionInv, NoOrphanShell
<1> QED  BY <1>1, <1>2 DEF SessionInv

(* What the invariant says of one session.                                 *)
LEMMA OneOf ==
    ASSUME IInv, NEW s \in Sockets
    PROVE  /\ session[s] \in Session /\ Coherent(session[s])
           /\ running \in SUBSET Shells
           /\ \A p \in running : p[1] = s =>
                 p = Current(s) /\ session[s].phase \in {"serving", "reading"}
BY ShellParts
DEF IInv, TypeOK, SessionInv, SessionsCoherent, NoOrphanShell, Current

(* A shell that was started has a place among the shells.                  *)
LEMMA CurrentIsShell ==
    ASSUME NEW s \in Sockets, session[s] \in Session, session[s].shell # 0
    PROVE  Current(s) \in Shells
<1>1. session[s].shell \in ShellRefs
  BY DEF Session
<1>2. session[s].shell \in ShellNos
  BY <1>1, BoundsAreNat DEF ShellNos, ShellRefs
<1> QED  BY <1>2 DEF Current, Shells

(* The types of what the handlers change.                                  *)
ServerTyped == session \in [Sockets -> Session] /\ running \in SUBSET Shells

LEMMA IsTyped == ASSUME IInv PROVE ServerTyped
BY DEF IInv, TypeOK, ServerTyped

LEMMA SessionSteps ==
    /\ "starting" \in Phases /\ "serving" \in Phases
    /\ "reading" \in Phases /\ "ended" \in Phases
    /\ 0 \in ShellRefs /\ 1 \in ShellNos /\ ShellNos \subseteq ShellRefs
    /\ \A n \in ShellRefs : n \in Nat /\ (n < MaxShells => n + 1 \in ShellNos)
    /\ \A n \in ShellNos : n \in Nat /\ n # 0
BY BoundsAreNat DEF Phases, ShellRefs, ShellNos

(* The session only goes to another phase: a typed one, with its shell.    *)
LEMMA PhaseStep ==
    ASSUME IInv, NEW s \in Sockets, NEW f \in Phases,
           session' = [session EXCEPT ![s].phase = f]
    PROVE  /\ session' \in [Sockets -> Session]
           /\ \A t \in Sockets : t # s => session'[t] = session[t]
           /\ session'[s].phase = f
           /\ session'[s].mode = session[s].mode
           /\ session'[s].shell = session[s].shell
<1>1. session \in [Sockets -> Session]
  BY DEF IInv, TypeOK
<1>2. session' \in [Sockets -> Session]
  BY <1>1 DEF Session
<1> QED  BY <1>1, <1>2 DEF Session

LEMMA AcceptInv ==
    ASSUME IInv, NEW s \in Sockets, Accept(s)
    PROVE  ServerTyped' /\ SessionInv'
<1>1. /\ session[s].phase = "none" /\ session' = [session EXCEPT ![s].phase = "starting"]
      /\ UNCHANGED running
  BY DEF Accept
<1>2. /\ session' \in [Sockets -> Session]
      /\ \A t \in Sockets : t # s => session'[t] = session[t]
      /\ session'[s].phase = "starting" /\ session'[s].shell = session[s].shell
  BY <1>1, PhaseStep, SessionSteps
<1>3. Coherent(session'[s])
  BY <1>1, <1>2, OneOf DEF Coherent
<1>4. \A p \in running : p[1] # s
  BY <1>1, OneOf
<1>5. SessionInv'
  BY <1>1, <1>2, <1>3, <1>4, OneSession, OneOf
<1> QED  BY <1>1, <1>2, <1>5, IsTyped DEF ServerTyped

(* The end of a session, whose shell is not alive.                         *)
LEMMA EndedInv ==
    ASSUME IInv, NEW s \in Sockets,
           session' = [session EXCEPT ![s].phase = "ended"],
           running' = running \ {Current(s)}
    PROVE  ServerTyped' /\ SessionInv'
<1>1. /\ session' \in [Sockets -> Session]
      /\ \A t \in Sockets : t # s => session'[t] = session[t]
      /\ session'[s].phase = "ended"
  BY PhaseStep, SessionSteps
<1>2. Coherent(session'[s])
  BY <1>1 DEF Coherent
<1>3. running' \in SUBSET Shells /\ \A p \in running' : p[1] # s /\ p \in running
  BY OneOf
<1>4. SessionInv'
  BY <1>1, <1>2, <1>3, OneSession
<1> QED  BY <1>1, <1>3, <1>4 DEF ServerTyped

LEMMA StartInv ==
    ASSUME IInv, NEW s \in Sockets, Start(s)
    PROVE  ServerTyped' /\ SessionInv'
<1>0. session[s].phase = "starting" /\ \A p \in running : p[1] # s
  BY OneOf DEF Start
<1>2. ASSUME NEW m \in Modes,
             session' = [session EXCEPT ![s] =
                            [phase |-> "serving", mode |-> m, shell |-> 1]],
             running' = running \cup {<<s, 1>>}
      PROVE  ServerTyped' /\ SessionInv'
  <2> DEFINE r == [phase |-> "serving", mode |-> m, shell |-> 1]
  <2>1. m \in {"pty", "kube", "piped"}
    BY DEF Modes, IInv, TypeOK, Kinds
  <2>2. r \in Session
    BY <2>1, SessionSteps DEF Session
  <2>3. r.phase = "serving" /\ r.shell = 1 /\ Coherent(r)
    BY DEF Coherent
  <2> HIDE DEF r
  <2>4. session' = [session EXCEPT ![s] = r]
    BY <1>2 DEF r
  <2>5. /\ session' \in [Sockets -> Session] /\ session'[s] = r
        /\ \A t \in Sockets : t # s => session'[t] = session[t]
    BY <2>2, <2>4, IsTyped DEF ServerTyped
  <2>6. <<s, 1>> \in Shells
    BY SessionSteps DEF Shells
  <2>7. running' \in SUBSET Shells
    BY <1>2, <2>6, IsTyped DEF ServerTyped
  <2>8. \A p \in running' : \/ p[1] # s /\ p \in running
                            \/ p[1] = s /\ p[2] = 1
    BY <1>0, <1>2
  <2>9. SessionInv'
    BY <2>3, <2>5, <2>7, <2>8, OneSession
  <2> QED  BY <2>5, <2>7, <2>9 DEF ServerTyped
<1>3. CASE session' = [session EXCEPT ![s].phase = "ended"] /\ running' = running
  <2>1. running' = running \ {Current(s)}
    BY <1>0, <1>3 DEF Current
  <2> QED  BY <1>3, <2>1, EndedInv
<1> QED  BY <1>2, <1>3 DEF Start

LEMMA FinishInv ==
    ASSUME IInv, NEW s \in Sockets, session[s].phase = "serving", Finish(s)
    PROVE  ServerTyped' /\ SessionInv'
<1>1. CASE session[s].mode # "pty"
  BY <1>1, EndedInv DEF Finish
<1>2. CASE session[s].mode = "pty"
  <2>1. UNCHANGED running /\ session' = [session EXCEPT ![s].phase = "reading"]
    BY <1>2 DEF Finish
  <2>2. /\ session' \in [Sockets -> Session]
        /\ \A t \in Sockets : t # s => session'[t] = session[t]
        /\ session'[s].phase = "reading" /\ session'[s].mode = "pty"
        /\ session'[s].shell = session[s].shell
    BY <1>2, <2>1, PhaseStep, SessionSteps
  <2>3. Coherent(session'[s])
    BY <2>2, OneOf DEF Coherent
  <2>4. \A p \in running : p[1] = s => p[2] = session[s].shell
    BY OneOf DEF Current
  <2>5. SessionInv'
    BY <2>1, <2>2, <2>3, <2>4, OneSession, OneOf
  <2> QED  BY <2>1, <2>2, <2>5, IsTyped DEF ServerTyped
<1> QED  BY <1>1, <1>2

LEMMA RestartInv ==
    ASSUME IInv, NEW s \in Sockets, session[s].phase = "serving", Restart(s)
    PROVE  ServerTyped' /\ SessionInv'
<1>1. CASE /\ session' = [session EXCEPT ![s].phase = "ended"]
           /\ running' = running \ {Current(s)}
  BY <1>1, EndedInv
<1>2. CASE /\ session[s].shell < MaxShells
           /\ session' = [session EXCEPT ![s].shell = @ + 1]
           /\ running' = (running \ {Current(s)}) \cup {NextShell(s)}
  <2> DEFINE n == session[s].shell + 1
  <2>1. session[s] \in Session /\ session[s].shell \in ShellRefs
    BY OneOf DEF Session
  <2>2. n \in ShellNos /\ n \in ShellRefs /\ n # 0
    BY <1>2, <2>1, SessionSteps
  <2>3. /\ session' \in [Sockets -> Session]
        /\ \A t \in Sockets : t # s => session'[t] = session[t]
        /\ session'[s].phase = "serving" /\ session'[s].shell = n
    BY <1>2, <2>1, <2>2, IsTyped DEF ServerTyped, Session
  <2>4. Coherent(session'[s])
    BY <2>2, <2>3 DEF Coherent
  <2>5. NextShell(s) = <<s, n>>
    BY DEF NextShell
  <2>6. running' \in SUBSET Shells
    BY <1>2, <2>2, <2>5, IsTyped DEF ServerTyped, Shells
  <2>7. \A p \in running' : \/ p[1] # s /\ p \in running
                            \/ p[1] = s /\ p[2] = n
    BY <1>2, <2>5, OneOf
  <2> HIDE DEF n
  <2>8. SessionInv'
    BY <2>3, <2>4, <2>6, <2>7, OneSession
  <2> QED  BY <2>3, <2>6, <2>8 DEF ServerTyped
<1> QED  BY <1>1, <1>2 DEF Restart

LEMMA ReceivesInv ==
    ASSUME IInv, NEW s \in Sockets, Receives(s)
    PROVE  ServerTyped' /\ SessionInv'
<1>1. session[s].phase = "serving"
  BY DEF Receives
<1>2. CASE Finish(s) \/ Restart(s)
  BY <1>1, <1>2, FinishInv, RestartInv
<1>3. CASE UNCHANGED <<session, running>>
  BY <1>3, IsTyped DEF ServerTyped, IInv, SessionInv, SessionsCoherent, NoOrphanShell
<1> QED  BY <1>2, <1>3 DEF Receives

(* The end of a PTY session after its loop.                                *)
LEMMA ReadingInv ==
    ASSUME IInv, NEW s \in Sockets, ReaderEnds(s) \/ OutputFails(s)
    PROVE  ServerTyped' /\ SessionInv'
<1>1. /\ session' = [session EXCEPT ![s].phase = "ended"]
      /\ running' = running \ {Current(s)}
  BY DEF ReaderEnds, OutputFails
<1> QED  BY <1>1, EndedInv

LEMMA ShellExitsInv ==
    ASSUME IInv, NEW s \in Sockets, ShellExits(s)
    PROVE  ServerTyped' /\ SessionInv'
<1>1. running' = running \ {Current(s)} /\ UNCHANGED session
  BY DEF ShellExits
<1> QED  BY <1>1, IsTyped
         DEF ServerTyped, IInv, SessionInv, SessionsCoherent, NoOrphanShell

-----------------------------------------------------------------------------
(* Whom a session is told by.                                              *)

Told(s) ==
    \/ sock[s].state = "connecting"
    \/ sock[s].state = "open" /\ tab.mounted /\ tab.ws = s
    \/ \E i \in DOMAIN inbox[s] : inbox[s][i] = "end"

InLoop(s) == session[s].phase \in {"starting", "serving"}

(* What is posted is in the inbox, and what was there stays.               *)
LEMMA PostKeeps ==
    ASSUME IInv, NEW s \in Sockets, NEW m \in {"key", "ctrlC", "end"}, Post(s, m),
           NEW t \in Sockets
    PROVE  /\ (\E i \in DOMAIN inbox[t] : inbox[t][i] = "end")
              => \E i \in DOMAIN inbox'[t] : inbox'[t][i] = "end"
           /\ t = s /\ m = "end" => \E i \in DOMAIN inbox'[t] : inbox'[t][i] = "end"
<1> DEFINE M == {"key", "ctrlC", "end"}
<1>1. inbox \in [Sockets -> Seq(M)] /\ inbox' = [inbox EXCEPT ![s] = Append(@, m)]
  BY DEF IInv, TypeOK, Post
<1>2. CASE t # s
  BY <1>1, <1>2
<1>3. CASE t = s
  <2>1. inbox'[t] = Append(inbox[t], m) /\ inbox[t] \in Seq(M)
    BY <1>1, <1>3
  <2>2. Len(inbox'[t]) = Len(inbox[t]) + 1 /\ inbox'[t] \in Seq(M)
    BY <2>1
  <2>3. inbox'[t][Len(inbox[t]) + 1] = m
    BY <2>1
  <2>4. \A i \in 1..Len(inbox[t]) : inbox'[t][i] = inbox[t][i]
    BY <2>1
  <2>5. DOMAIN inbox[t] = 1..Len(inbox[t]) /\ DOMAIN inbox'[t] = 1..Len(inbox'[t])
        /\ Len(inbox[t]) \in Nat
    BY <2>1, <2>2
  <2> QED  BY <2>2, <2>3, <2>4, <2>5
<1> QED  BY <1>2, <1>3

(* An end that is not at the head is still there when the head was taken.  *)
LEMMA TailKeeps ==
    ASSUME IInv, NEW s \in Sockets, inbox[s] # <<>>, Head(inbox[s]) # "end",
           inbox' = [inbox EXCEPT ![s] = Tail(@)],
           \E i \in DOMAIN inbox[s] : inbox[s][i] = "end"
    PROVE  \E i \in DOMAIN inbox'[s] : inbox'[s][i] = "end"
<1> DEFINE M == {"key", "ctrlC", "end"}
<1>1. inbox[s] \in Seq(M) /\ inbox[s] # <<>> /\ inbox'[s] = Tail(inbox[s])
  BY DEF IInv, TypeOK
<1> HIDE DEF M
<1>2. /\ DOMAIN inbox[s] = 1..Len(inbox[s]) /\ Len(inbox[s]) \in Nat
      /\ Head(inbox[s]) = inbox[s][1]
  BY <1>1
<1>3. PICK i \in 1..Len(inbox[s]) : inbox[s][i] = "end"
  BY <1>2
<1>4. i # 1
  BY <1>2, <1>3
<1>5. /\ Len(inbox'[s]) = Len(inbox[s]) - 1 /\ inbox'[s] \in Seq(M)
      /\ \A j \in 1..(Len(inbox[s]) - 1) : inbox'[s][j] = inbox[s][j + 1]
  BY <1>1, HeadTailProperties
<1>6. i - 1 \in DOMAIN inbox'[s]
  BY <1>2, <1>3, <1>4, <1>5
<1>7. inbox'[s][i - 1] = "end"
  BY <1>2, <1>3, <1>4, <1>5
<1> QED  BY <1>6, <1>7

(* A step that starts no session, and whose sockets are told as before.    *)
LEMMA StillTold ==
    ASSUME IInv, \A t \in Sockets : InLoop(t)' => (InLoop(t) /\ (Told(t) => Told(t)'))
    PROVE  SessionIsTold'
BY DEF IInv, SessionIsTold, InLoop, Told

LEMMA ConnectTold == ASSUME IInv, Connect PROVE SessionIsTold'
<1>1. UNCHANGED <<inbox, session>> /\ tab.connect = "refreshing"
  BY DEF Connect, serverVars
<1>2. sock \in [Sockets -> SockState]
  BY DEF IInv, TypeOK
<1>3. \A t \in Sockets : ~(sock[t].state = "open" /\ tab.mounted)
  BY <1>1 DEF IInv, TabInv, OneLive, Live
<1>4. \A t \in Sockets : sock[t].state = "connecting" => sock'[t].state = "connecting"
  BY <1>2 DEF Connect, SockState
<1> QED  BY <1>1, <1>3, <1>4, StillTold DEF InLoop, Told

LEMMA TimerTold == ASSUME IInv, TimerFires PROVE SessionIsTold'
<1>1. /\ UNCHANGED <<inbox, session, sock>>
      /\ tab.mounted = tab'.mounted /\ tab.ws = tab'.ws
  BY DEF TimerFires, serverVars, IInv, TypeOK, TabState
<1> QED  BY <1>1, StillTold DEF InLoop, Told

(* A socket that ends is followed by an end, or its session has none to    *)
(* wait for.                                                               *)
LEMMA OnCloseTold ==
    ASSUME IInv, NEW s \in Sockets, Live(s), OnClose(s), UNCHANGED session,
           \/ UNCHANGED inbox /\ ~InLoop(s)
           \/ UNCHANGED inbox /\ sock[s].state = "closing"
           \/ Post(s, "end")
    PROVE  SessionIsTold'
<1>1. sock \in [Sockets -> SockState] /\ tab \in TabState
  BY DEF IInv, TypeOK
<1>2. /\ \A t \in Sockets : t # s => sock'[t] = sock[t]
      /\ tab'.mounted = tab.mounted
      /\ \A t \in Sockets : t # s /\ tab.ws = t => tab'.ws = t
  BY <1>1 DEF OnClose, TabState
<1>3. \A t \in Sockets : t # s /\ Told(t) => Told(t)'
  <2> SUFFICES ASSUME NEW t \in Sockets, t # s, Told(t)
               PROVE  Told(t)'
    OBVIOUS
  <2>1. (\E i \in DOMAIN inbox[t] : inbox[t][i] = "end")
           => \E i \in DOMAIN inbox'[t] : inbox'[t][i] = "end"
    BY PostKeeps
  <2> QED  BY <1>2, <2>1 DEF Told
<1>4. InLoop(s) /\ Told(s) => Told(s)'
  <2>1. CASE Post(s, "end")
    <3>1. \E i \in DOMAIN inbox'[s] : inbox'[s][i] = "end"
      BY <2>1, PostKeeps
    <3> QED  BY <3>1 DEF Told
  <2>2. CASE UNCHANGED inbox /\ (~InLoop(s) \/ sock[s].state = "closing")
    BY <2>2 DEF Told
  <2> QED  BY <2>1, <2>2
<1> QED  BY <1>3, <1>4, StillTold DEF InLoop

LEMMA OpensTold ==
    ASSUME IInv, NEW s \in Sockets, Opens(s)
    PROVE  SessionIsTold'
<1>1. /\ sock \in [Sockets -> SockState] /\ tab \in TabState
      /\ UNCHANGED session /\ sock[s].state = "connecting"
  BY DEF IInv, TypeOK, Opens, serverVars
<1>2. CASE ~tab.mounted
  <2>1. /\ tab' = tab /\ Post(s, "end")
        /\ \A t \in Sockets : t # s => sock'[t] = sock[t]
    BY <1>1, <1>2 DEF Opens, SockState
  <2>2. \A t \in Sockets : Told(t) => Told(t)'
    <3> SUFFICES ASSUME NEW t \in Sockets, Told(t)
                 PROVE  Told(t)'
      OBVIOUS
    <3>1. /\ (\E i \in DOMAIN inbox[t] : inbox[t][i] = "end")
                => \E i \in DOMAIN inbox'[t] : inbox'[t][i] = "end"
          /\ t = s => \E i \in DOMAIN inbox'[t] : inbox'[t][i] = "end"
      BY <2>1, PostKeeps
    <3> QED  BY <2>1, <3>1 DEF Told
  <2> QED  BY <1>1, <2>2, StillTold DEF InLoop
<1>3. CASE tab.mounted
  <2>0. /\ tab' = [tab EXCEPT !.connectedOnce = TRUE, !.attempt = 0]
        /\ sock' = [sock EXCEPT ![s] = [state |-> "open", opened |-> TRUE]]
        /\ inbox' = inbox
    BY <1>3 DEF Opens
  <2>1. /\ tab'.mounted = tab.mounted /\ tab'.ws = tab.ws /\ inbox' = inbox
        /\ sock'[s].state = "open"
        /\ \A t \in Sockets : t # s => sock'[t] = sock[t]
    <3>1. tab'.mounted = tab.mounted /\ tab'.ws = tab.ws
      BY <1>1, <2>0 DEF TabState
    <3>2. sock'[s] = [state |-> "open", opened |-> TRUE]
      BY <1>1, <2>0
    <3> QED  BY <1>1, <2>0, <3>1, <3>2
  <2>2. tab.ws = s
    BY <1>1, <1>3 DEF IInv, TabInv, HeldByTab, Live
  <2> QED  BY <1>1, <1>3, <2>1, <2>2, StillTold DEF InLoop, Told
<1> QED  BY <1>2, <1>3

LEMMA UnmountTold == ASSUME IInv, Unmount PROVE SessionIsTold'
<1>1. sock \in [Sockets -> SockState] /\ UNCHANGED session
  BY DEF IInv, TypeOK, Unmount, serverVars
<1> SUFFICES ASSUME NEW t \in Sockets, Told(t)
             PROVE  Told(t)'
  BY <1>1, StillTold DEF InLoop
<1>2. CASE /\ \A s \in Sockets : ~(s = tab.ws /\ sock[s].state = "open")
           /\ UNCHANGED <<sock, inbox>>
  BY <1>2 DEF Told
<1>3. ASSUME NEW s \in Sockets, s = tab.ws, sock[s].state = "open",
             sock' = [sock EXCEPT ![s].state = "closing"], Post(s, "end")
      PROVE  Told(t)'
  <2>1. /\ (\E i \in DOMAIN inbox[t] : inbox[t][i] = "end")
              => \E i \in DOMAIN inbox'[t] : inbox'[t][i] = "end"
        /\ t = s => \E i \in DOMAIN inbox'[t] : inbox'[t][i] = "end"
    BY <1>3, PostKeeps
  <2>2. t # s => sock'[t] = sock[t]
    BY <1>1, <1>3
  <2> QED  BY <1>3, <2>1, <2>2 DEF Told
<1> QED  BY <1>2, <1>3 DEF Unmount

LEMMA TypesTold == ASSUME IInv, Types PROVE SessionIsTold'
<1>1. UNCHANGED <<tab, sock, session>>
  BY DEF Types, tabVars, serverVars
<1>2. PICK s \in Sockets, m \in {"key", "ctrlC"} : Post(s, m)
  BY DEF Types
<1>3. \A t \in Sockets : Told(t) => Told(t)'
  BY <1>1, <1>2, PostKeeps DEF Told
<1> QED  BY <1>1, <1>3, StillTold DEF InLoop

(* The handler: it takes an end from its inbox only to leave its loop.     *)
LEMMA ReceivesTold ==
    ASSUME IInv, NEW s \in Sockets, Receives(s)
    PROVE  SessionIsTold'
<1>1. /\ inbox \in [Sockets -> Seq({"key", "ctrlC", "end"})]
      /\ session \in [Sockets -> Session]
      /\ UNCHANGED <<tab, sock>> /\ InLoop(s)
      /\ inbox[s] # <<>> /\ inbox' = [inbox EXCEPT ![s] = Tail(@)]
  BY DEF IInv, TypeOK, Receives, tabVars, InLoop
<1>2. \A t \in Sockets : t # s => inbox'[t] = inbox[t] /\ session'[t] = session[t]
  BY <1>1 DEF Receives, Finish, Restart
<1>3. Head(inbox[s]) = "end" => ~InLoop(s)'
  BY <1>1 DEF Receives, Finish, InLoop, Session
<1>4. Head(inbox[s]) # "end" /\ Told(s) => Told(s)'
  BY <1>1, TailKeeps DEF Told
<1> QED  BY <1>1, <1>2, <1>3, <1>4, StillTold DEF InLoop, Told

LEMMA ServerTold ==
    ASSUME IInv, NEW s \in Sockets,
           \/ Accept(s) \/ Start(s) \/ ReaderEnds(s) \/ OutputFails(s) \/ ShellExits(s)
    PROVE  SessionIsTold'
<1>1. session \in [Sockets -> Session] /\ UNCHANGED <<tab, sock, inbox>>
  BY DEF IInv, TypeOK, Accept, Start, ReaderEnds, OutputFails, ShellExits, tabVars
<1>2. CASE Accept(s)
  <2>1. /\ Told(s)'
        /\ \A t \in Sockets : t # s => session'[t] = session[t]
    BY <1>1, <1>2 DEF Accept, Told
  <2> QED  BY <1>1, <2>1 DEF IInv, SessionIsTold, Told
<1>3. CASE Start(s)
  <2>1. InLoop(s) /\ \A t \in Sockets : t # s => session'[t] = session[t]
    BY <1>1, <1>3 DEF Start, InLoop
  <2> QED  BY <1>1, <2>1, StillTold DEF InLoop, Told
<1>4. CASE ReaderEnds(s) \/ OutputFails(s) \/ ShellExits(s)
  <2>1. \A t \in Sockets : InLoop(t)' => InLoop(t)
    BY <1>1, <1>4 DEF ReaderEnds, OutputFails, ShellExits, InLoop, Session
  <2> QED  BY <1>1, <2>1, StillTold DEF Told
<1> QED  BY <1>2, <1>3, <1>4

-----------------------------------------------------------------------------
(* The whole.                                                              *)

LEMMA InitInv == ASSUME Init PROVE IInv
<1>1. /\ kind \in Kinds /\ keys \in 0..MaxKeys /\ faults \in 0..MaxFaults
      /\ running \in SUBSET Shells
  BY BoundsAreNat DEF Init
<1>2. tab \in TabState
  BY Steps DEF Init, TabState
<1>3. sock \in [Sockets -> SockState] /\ inbox \in [Sockets -> Seq({"key", "ctrlC", "end"})]
  BY DEF Init, SockState
<1>4. session \in [Sockets -> Session]
  BY SessionSteps DEF Init, Session, Phases
<1> QED  BY <1>1, <1>2, <1>3, <1>4, InitTab, InitSessions DEF IInv, TypeOK

(* The inboxes are typed after every step.                                 *)
LEMMA InboxTyped ==
    ASSUME IInv, NEW s \in Sockets,
           \/ inbox' = inbox
           \/ \E m \in {"key", "ctrlC", "end"} : Post(s, m)
           \/ inbox[s] # <<>> /\ inbox' = [inbox EXCEPT ![s] = Tail(@)]
    PROVE  inbox' \in [Sockets -> Seq({"key", "ctrlC", "end"})]
<1> DEFINE M == {"key", "ctrlC", "end"}
<1>1. inbox \in [Sockets -> Seq(M)]
  BY DEF IInv, TypeOK
<1>2. ASSUME NEW m \in M, Post(s, m)
      PROVE  inbox' \in [Sockets -> Seq(M)]
  <2>1. Append(inbox[s], m) \in Seq(M)
    BY <1>1, <1>2
  <2> QED  BY <1>1, <1>2, <2>1 DEF Post
<1>3. ASSUME inbox[s] # <<>>, inbox' = [inbox EXCEPT ![s] = Tail(@)]
      PROVE  inbox' \in [Sockets -> Seq(M)]
  <2>1. Tail(inbox[s]) \in Seq(M)
    BY <1>1, <1>3
  <2> QED  BY <1>1, <1>3, <2>1
<1> HIDE DEF M
<1> QED  BY <1>1, <1>2, <1>3 DEF M

(* A step of the tab leaves the sessions alone.                            *)
LEMMA TabStepInv ==
    ASSUME IInv, TabInv', SessionIsTold', tab' \in TabState, sock' \in [Sockets -> SockState],
           inbox' \in [Sockets -> Seq({"key", "ctrlC", "end"})],
           keys' \in 0..MaxKeys, faults' \in 0..MaxFaults,
           UNCHANGED <<kind, serverVars>>
    PROVE  IInv'
<1>1. TypeOK'
  BY DEF IInv, TypeOK, serverVars
<1>2. SessionInv'
  BY DEF IInv, SessionInv, SessionsCoherent, NoOrphanShell, serverVars
<1> QED  BY <1>1, <1>2 DEF IInv

LEMMA ServerStepInv ==
    ASSUME IInv, ServerTyped', SessionInv', SessionIsTold',
           UNCHANGED <<kind, tabVars, keys, faults>>,
           inbox' \in [Sockets -> Seq({"key", "ctrlC", "end"})]
    PROVE  IInv'
<1>1. TypeOK'
  BY DEF IInv, TypeOK, ServerTyped, tabVars
<1>2. TabInv'
  BY DEF IInv, TabInv, OneLive, HeldByTab, AttemptsCount, RetriesEnd, Live, tabVars
<1> QED  BY <1>1, <1>2 DEF IInv

LEMMA NextInv == ASSUME IInv, [Next]_vars PROVE IInv'
<1>0. /\ inbox \in [Sockets -> Seq({"key", "ctrlC", "end"})]
      /\ keys \in 0..MaxKeys /\ faults \in 0..MaxFaults /\ 1 \in Sockets
  BY DEF IInv, TypeOK, Sockets
<1>1. CASE UNCHANGED vars
  BY <1>1
  DEF vars, IInv, TypeOK, TabInv, OneLive, HeldByTab, AttemptsCount, RetriesEnd, Live, SessionInv,
      HeldByTab, SessionsCoherent, NoOrphanShell, SessionIsTold
<1>2. CASE Connect
  BY <1>0, <1>2, ConnectTab, ConnectTold, TabStepInv DEF Connect
<1>3. CASE TimerFires
  BY <1>0, <1>3, TimerTab, TimerTold, TabStepInv DEF TimerFires, IInv, TypeOK
<1>4. CASE Types
  <2>1. PICK s \in Sockets, m \in {"key", "ctrlC"} : Post(s, m)
    BY <1>4 DEF Types
  <2>2. inbox' \in [Sockets -> Seq({"key", "ctrlC", "end"})]
    BY <2>1, InboxTyped
  <2>3. keys' \in 0..MaxKeys
    BY <1>0, <1>4, BoundsAreNat DEF Types
  <2>4. UNCHANGED <<tab, sock>>
    BY <1>4 DEF Types, tabVars
  <2>5. TabInv' /\ tab' \in TabState /\ sock' \in [Sockets -> SockState]
    BY <2>4 DEF IInv, TypeOK, TabInv, OneLive, HeldByTab, AttemptsCount, RetriesEnd, Live
  <2> QED  BY <1>0, <1>4, <2>2, <2>3, <2>5, TypesTold, TabStepInv DEF Types
<1>5. CASE Unmount
  <2>1. inbox' \in [Sockets -> Seq({"key", "ctrlC", "end"})]
    <3>1. inbox' = inbox \/ \E s \in Sockets : Post(s, "end")
      BY <1>5 DEF Unmount
    <3> QED  BY <1>0, <3>1, InboxTyped
  <2> QED  BY <1>0, <1>5, <2>1, UnmountTab, UnmountTold, TabStepInv DEF Unmount
<1>6. ASSUME NEW s \in Sockets, Opens(s)
      PROVE  IInv'
  <2>1. inbox' \in [Sockets -> Seq({"key", "ctrlC", "end"})]
    BY <1>6, InboxTyped DEF Opens
  <2> QED  BY <1>0, <1>6, <2>1, OpensTab, OpensTold, TabStepInv DEF Opens
<1>7. ASSUME NEW s \in Sockets, Refused(s) \/ Closed(s)
      PROVE  IInv'
  <2>1. Live(s) /\ OnClose(s)
    BY <1>7 DEF Refused, Closed, Live
  <2>2. UNCHANGED <<session, inbox>> /\ (~InLoop(s) \/ sock[s].state = "closing")
    BY <1>7 DEF Refused, Closed, serverVars, InLoop
  <2>3. SessionIsTold'
    BY <2>1, <2>2, OnCloseTold
  <2> QED  BY <1>0, <1>7, <2>1, <2>3, OnCloseTab, TabStepInv DEF Refused, Closed
<1>8. ASSUME NEW s \in Sockets, Lost(s)
      PROVE  IInv'
  <2>1. Live(s) /\ OnClose(s)
    BY <1>8 DEF Lost, Live
  <2>2. inbox' \in [Sockets -> Seq({"key", "ctrlC", "end"})]
    BY <1>8, InboxTyped DEF Lost
  <2>3. faults' \in 0..MaxFaults
    BY <1>0, <1>8, BoundsAreNat DEF Lost
  <2>4. SessionIsTold'
    BY <1>8, <2>1, OnCloseTold DEF Lost, serverVars
  <2> QED  BY <1>0, <1>8, <2>1, <2>2, <2>3, <2>4, OnCloseTab, TabStepInv DEF Lost
<1>9. ASSUME NEW s \in Sockets, Receives(s)
      PROVE  IInv'
  <2>1. inbox' \in [Sockets -> Seq({"key", "ctrlC", "end"})]
    BY <1>9, InboxTyped DEF Receives
  <2>2. UNCHANGED <<kind, tabVars, keys, faults>>
    BY <1>9 DEF Receives
  <2> QED  BY <1>9, <2>1, <2>2, ReceivesInv, ReceivesTold, ServerStepInv
<1>10. ASSUME NEW s \in Sockets,
              \/ Accept(s) \/ Start(s) \/ ReaderEnds(s) \/ OutputFails(s) \/ ShellExits(s)
       PROVE  IInv'
  <2>1. inbox' = inbox /\ UNCHANGED <<kind, tabVars, keys, faults>>
    BY <1>10 DEF Accept, Start, ReaderEnds, OutputFails, ShellExits
  <2> QED  BY <1>0, <1>10, <2>1, AcceptInv, StartInv, ReadingInv, ShellExitsInv,
              ServerTold, ServerStepInv
<1> QED  BY <1>1, <1>2, <1>3, <1>4, <1>5, <1>6, <1>7, <1>8, <1>9, <1>10 DEF Next

LEMMA Invariance == Spec => []IInv
BY InitInv, NextInv, PTL DEF Spec

(* Every variable of the tab and of its sessions keeps its type.           *)
THEOREM TypeCorrect == Spec => []TypeOK
<1>1. IInv => TypeOK
  BY DEF IInv
<1> QED  BY <1>1, Invariance, PTL

(* A session has one shell, through every restart, and none after its end. *)
THEOREM NoOrphanShellHolds == Spec => []NoOrphanShell
<1>1. IInv => NoOrphanShell
  BY DEF IInv, SessionInv
<1> QED  BY <1>1, Invariance, PTL

(* A session that starts or serves is never left with nobody to end it,    *)
(* whenever its tab goes, its socket opens or its connection breaks.       *)
THEOREM SessionIsToldHolds == Spec => []SessionIsTold
<1>1. IInv => SessionIsTold
  BY DEF IInv
<1> QED  BY <1>1, Invariance, PTL

(* A tab makes three sockets at most, and none after one that opened.      *)
THEOREM RetriesEndHolds == Spec => []RetriesEnd
<1>1. IInv => RetriesEnd
  BY DEF IInv, TabInv
<1> QED  BY <1>1, Invariance, PTL
=============================================================================
