---------------------------- MODULE ExecSession ----------------------------
(***************************************************************************)
(* One terminal tab (frontend/src/components/Terminal.tsx) and the         *)
(* sessions that its sockets open in the backend (handle_exec_socket of    *)
(* backend/src/ws_handler.rs): the tab's connects and retries, the three   *)
(* ways to serve a shell, the restart of a node shell on Ctrl-C, and the   *)
(* ends of it all.                                                         *)
(*                                                                         *)
(* Text, sizes, colours and prompts are left out; a message is "key",      *)
(* "ctrlC" or "end" (a close frame, an error or the end of the stream).    *)
(* So is the deletion of debug pods: the name of one is looked for in a    *)
(* banner that kubectl debug -q does not print, so none is ever deleted.   *)
(***************************************************************************)
EXTENDS Naturals, Sequences, FiniteSets

CONSTANTS MaxShells,   \* shells that one session starts
          MaxKeys,     \* messages typed in the tab
          MaxFaults    \* losses of a connection

ASSUME BoundsAreNat == MaxShells \in Nat \ {0} /\ MaxKeys \in Nat /\ MaxFaults \in Nat

Kinds    == {"host", "node", "pod"}
Sockets  == 1..4       \* one more than the tab ever makes (RetriesEnd)
ShellNos == 1..MaxShells
Shells   == Sockets \X ShellNos

VARIABLES kind,     \* what the tab is attached to, fixed by the tab
          tab,      \* the closure of the tab's effect
          sock,     \* the tab's WebSocket objects, by order of creation
          inbox,    \* messages on their way to the handler of each socket
          session,  \* the run of handle_exec_socket of each socket
          running,  \* shells (or kubectl processes) that are alive
          keys, faults

vars == <<kind, tab, sock, inbox, session, running, keys, faults>>

ConnectSteps == {"idle", "refreshing", "waiting"}
Attempts     == 0..2
WsRefs       == Sockets \cup {0}   \* wsRef, 0 for null
TabState == [mounted : BOOLEAN, connect : ConnectSteps, attempt : Attempts,
             connectedOnce : BOOLEAN, ws : WsRefs]
SockState == [state : {"none", "connecting", "open", "closing", "closed"},
              opened : BOOLEAN]
Phases    == {"none", "starting", "serving", "reading", "ended"}
ShellRefs == 0..MaxShells
Session == [phase : Phases, mode : {"none", "pty", "kube", "piped"},
            shell : ShellRefs]     \* its current shell, 0 before the first

Init ==
    /\ kind \in Kinds
    /\ tab = [mounted |-> TRUE, connect |-> "refreshing", attempt |-> 0,
              connectedOnce |-> FALSE, ws |-> 0]
    /\ sock = [s \in Sockets |-> [state |-> "none", opened |-> FALSE]]
    /\ inbox = [s \in Sockets |-> <<>>]
    /\ session = [s \in Sockets |-> [phase |-> "none", mode |-> "none", shell |-> 0]]
    /\ running = {}
    /\ keys = 0 /\ faults = 0

-----------------------------------------------------------------------------
(* The tab.                                                                *)

tabVars    == <<tab, sock>>
serverVars == <<session, running>>

Post(s, m) == inbox' = [inbox EXCEPT ![s] = Append(@, m)]

(* connectSocket goes on when the port has been asked for; in a browser    *)
(* there is nothing to wait for.                                           *)
Connect ==
    /\ tab.connect = "refreshing"
    /\ \/ /\ ~tab.mounted
          /\ tab' = [tab EXCEPT !.connect = "idle"]
          /\ UNCHANGED sock
       \/ /\ tab.mounted
          /\ \E s \in Sockets :
                /\ sock[s].state = "none"
                /\ \A r \in 1..(s - 1) : sock[r].state # "none"
                /\ sock' = [sock EXCEPT ![s].state = "connecting"]
                /\ tab' = [tab EXCEPT !.connect = "idle", !.ws = s]
    /\ UNCHANGED <<kind, inbox, keys, faults, serverVars>>

TimerFires ==
    /\ tab.connect = "waiting"
    /\ tab' = [tab EXCEPT !.connect = "refreshing"]
    /\ UNCHANGED <<kind, sock, inbox, keys, faults, serverVars>>

(* Mutant of Opens: the tab is not asked for.                              *)
OpensAnyway(s) ==
    /\ sock[s].state = "connecting"
    /\ session[s].phase # "none"
    /\ sock' = [sock EXCEPT ![s] = [state |-> "open", opened |-> TRUE]]
    /\ tab' = [tab EXCEPT !.connectedOnce = TRUE, !.attempt = 0]
    /\ UNCHANGED <<kind, inbox, keys, faults, serverVars>>

(* onopen: a tab that has gone closes the socket it could not close while  *)
(* it was connecting.                                                      *)
Opens(s) ==
    /\ sock[s].state = "connecting"
    /\ session[s].phase # "none"
    /\ \/ /\ ~tab.mounted
          /\ sock' = [sock EXCEPT ![s].state = "closing"]
          /\ Post(s, "end")
          /\ UNCHANGED tab
       \/ /\ tab.mounted
          /\ sock' = [sock EXCEPT ![s] = [state |-> "open", opened |-> TRUE]]
          /\ tab' = [tab EXCEPT !.connectedOnce = TRUE, !.attempt = 0]
          /\ UNCHANGED inbox
    /\ UNCHANGED <<kind, keys, faults, serverVars>>

(* Mutants of Retries: after a session too; without an end.                *)
RetriesAfterSession(s) == tab.mounted /\ tab.attempt < 2
RetriesForEver(s)      == tab.mounted /\ ~sock[s].opened /\ ~tab.connectedOnce

(* A connection that never opened is tried again, twice.                   *)
Retries(s) ==
    tab.mounted /\ ~sock[s].opened /\ ~tab.connectedOnce /\ tab.attempt < 2

OnClose(s) ==
    /\ sock' = [sock EXCEPT ![s].state = "closed"]
    /\ tab' = [tab EXCEPT !.ws = IF @ = s THEN 0 ELSE @,
                          !.attempt = IF Retries(s) THEN @ + 1 ELSE @,
                          !.connect = IF Retries(s) THEN "waiting" ELSE @]

(* The backend does not accept: it is not there, or still starting.        *)
Refused(s) ==
    /\ sock[s].state = "connecting"
    /\ session[s].phase = "none"
    /\ OnClose(s)
    /\ UNCHANGED <<kind, inbox, keys, faults, serverVars>>

(* The end of the handler, or of the closing handshake, reaches the tab.   *)
Closed(s) ==
    /\ \/ sock[s].state = "open" /\ session[s].phase = "ended"
       \/ sock[s].state = "closing"
    /\ OnClose(s)
    /\ UNCHANGED <<kind, inbox, keys, faults, serverVars>>

(* The connection breaks; both ends learn it, each in its time.            *)
Lost(s) ==
    /\ faults < MaxFaults
    /\ session[s].phase # "none"
    /\ sock[s].state \in {"connecting", "open"}
    /\ OnClose(s)
    /\ Post(s, "end")
    /\ faults' = faults + 1
    /\ UNCHANGED <<kind, keys, serverVars>>

(* xterm.onData, and the newlines that wake a prompt.                      *)
Types ==
    /\ keys < MaxKeys
    /\ tab.mounted
    /\ \E s \in Sockets, m \in {"key", "ctrlC"} :
          /\ s = tab.ws
          /\ sock[s].state = "open"
          /\ Post(s, m)
    /\ keys' = keys + 1
    /\ UNCHANGED <<kind, tabVars, faults, serverVars>>

(* Mutant of Unmount: wsRef is cleared before its socket is closed.        *)
UnmountForgets ==
    /\ tab.mounted
    /\ tab' = [tab EXCEPT !.mounted = FALSE, !.ws = 0,
                          !.connect = IF @ = "waiting" THEN "idle" ELSE @]
    /\ UNCHANGED <<kind, sock, inbox, keys, faults, serverVars>>

(* The effect's cleanup: a socket that is connecting is left to onopen.    *)
Unmount ==
    /\ tab.mounted
    /\ tab' = [tab EXCEPT !.mounted = FALSE, !.ws = 0,
                          !.connect = IF @ = "waiting" THEN "idle" ELSE @]
    /\ \/ /\ \A s \in Sockets : ~(s = tab.ws /\ sock[s].state = "open")
          /\ UNCHANGED <<sock, inbox>>
       \/ \E s \in Sockets :
             /\ s = tab.ws
             /\ sock[s].state = "open"
             /\ sock' = [sock EXCEPT ![s].state = "closing"]
             /\ Post(s, "end")
    /\ UNCHANGED <<kind, keys, faults, serverVars>>

-----------------------------------------------------------------------------
(* The handler of a socket.                                                *)

Accept(s) ==
    /\ sock[s].state = "connecting"
    /\ session[s].phase = "none"
    /\ session' = [session EXCEPT ![s].phase = "starting"]
    /\ UNCHANGED <<kind, tabVars, inbox, running, keys, faults>>

(* The modes spawn_exec_shell may return: the exec of the API falls back   *)
(* to kubectl in a PTY.                                                    *)
Modes == CASE kind = "host" -> {"pty"}
           [] kind = "node" -> {"piped"}
           [] kind = "pod"  -> {"kube", "pty"}

Start(s) ==
    /\ session[s].phase = "starting"
    /\ \/ \E m \in Modes :
             /\ session' = [session EXCEPT ![s] =
                               [phase |-> "serving", mode |-> m, shell |-> 1]]
             /\ running' = running \cup {<<s, 1>>}
       \/ /\ session' = [session EXCEPT ![s].phase = "ended"]
          /\ UNCHANGED running
    /\ UNCHANGED <<kind, tabVars, inbox, keys, faults>>

Current(s) == <<s, session[s].shell>>

(* What follows the message loop: only the PTY session waits for its shell.*)
Finish(s) ==
    \/ /\ session[s].mode # "pty"
       /\ running' = running \ {Current(s)}
       /\ session' = [session EXCEPT ![s].phase = "ended"]
    \/ /\ session[s].mode = "pty"
       /\ session' = [session EXCEPT ![s].phase = "reading"]
       /\ UNCHANGED running

NextShell(s) == <<s, session[s].shell + 1>>

(* Mutant of Restart: the old shell is not killed.                         *)
RestartKeepsShell(s) ==
    \/ /\ session[s].shell < MaxShells
       /\ session' = [session EXCEPT ![s].shell = @ + 1]
       /\ running' = running \cup {NextShell(s)}
    \/ /\ session' = [session EXCEPT ![s].phase = "ended"]
       /\ running' = running \ {Current(s)}

(* Ctrl-C in a node shell: kill it and start another; when that fails, the *)
(* loop is left.                                                           *)
Restart(s) ==
    \/ /\ session[s].shell < MaxShells
       /\ session' = [session EXCEPT ![s].shell = @ + 1]
       /\ running' = (running \ {Current(s)}) \cup {NextShell(s)}
    \/ /\ session' = [session EXCEPT ![s].phase = "ended"]
       /\ running' = running \ {Current(s)}

(* One round of the message loop. Writing to a shell that has gone fails,  *)
(* in a PTY not always.                                                    *)
Receives(s) ==
    /\ session[s].phase = "serving"
    /\ inbox[s] # <<>>
    /\ inbox' = [inbox EXCEPT ![s] = Tail(@)]
    /\ \/ /\ Head(inbox[s]) = "end"
          /\ Finish(s)
       \/ /\ Head(inbox[s]) = "ctrlC"
          /\ session[s].mode = "piped"
          /\ Restart(s)
       \/ /\ Head(inbox[s]) = "key" \/ (Head(inbox[s]) = "ctrlC" /\ session[s].mode # "piped")
          /\ \/ /\ Current(s) \in running \/ session[s].mode = "pty"
                /\ UNCHANGED <<session, running>>
             \/ /\ Current(s) \notin running
                /\ Finish(s)
    /\ UNCHANGED <<kind, tabVars, keys, faults>>

(* The PTY session after its loop: the read task ends with the shell ...   *)
ReaderEnds(s) ==
    /\ session[s].phase = "reading"
    /\ Current(s) \notin running
    /\ session' = [session EXCEPT ![s].phase = "ended"]
    /\ UNCHANGED <<kind, tabVars, inbox, running, keys, faults>>

(* ... or with output that cannot be sent any more; the master is dropped  *)
(* with the session, which hangs up the shell.                             *)
OutputFails(s) ==
    /\ session[s].phase = "reading"
    /\ Current(s) \in running
    /\ session' = [session EXCEPT ![s].phase = "ended"]
    /\ running' = running \ {Current(s)}
    /\ UNCHANGED <<kind, tabVars, inbox, keys, faults>>

-----------------------------------------------------------------------------
(* The environment: shells end by themselves.                              *)

ShellExits(s) ==
    /\ Current(s) \in running
    /\ running' = running \ {Current(s)}
    /\ UNCHANGED <<kind, tabVars, inbox, session, keys, faults>>

Next ==
    \/ Connect \/ TimerFires \/ Types \/ Unmount
    \/ \E s \in Sockets :
          \/ Opens(s) \/ Refused(s) \/ Closed(s) \/ Lost(s)
          \/ Accept(s) \/ Start(s) \/ Receives(s)
          \/ ReaderEnds(s) \/ OutputFails(s) \/ ShellExits(s)

(* Timers fire, the browser ends its handshakes, and a handler that can    *)
(* take a step takes it. Nobody has to type, a shell has neither to exit   *)
(* nor to print, and nothing has to fail.                                  *)
Fairness ==
    /\ WF_vars(Connect) /\ WF_vars(TimerFires)
    /\ \A s \in Sockets :
          /\ WF_vars(Opens(s)) /\ WF_vars(Closed(s))
          /\ WF_vars(Accept(s) \/ Refused(s)) /\ WF_vars(Start(s))
          /\ WF_vars(Receives(s)) /\ WF_vars(ReaderEnds(s))

Spec     == Init /\ [][Next]_vars
FairSpec == Spec /\ Fairness

-----------------------------------------------------------------------------
(* Every variable has the type its code gives it.                          *)
TypeOK ==
    /\ kind \in Kinds
    /\ tab \in TabState
    /\ sock \in [Sockets -> SockState]
    /\ inbox \in [Sockets -> Seq({"key", "ctrlC", "end"})]
    /\ session \in [Sockets -> Session]
    /\ running \in SUBSET Shells
    /\ keys \in 0..MaxKeys /\ faults \in 0..MaxFaults

(* A session has one shell at a time, across every restart by Ctrl-C, and  *)
(* none is alive once its handler has returned.                            *)
NoOrphanShell ==
    \A p \in running :
        /\ session[p[1]].phase \in {"serving", "reading"}
        /\ p[2] = session[p[1]].shell

(* A session that starts or serves has a tab that knows of it, or is told  *)
(* to end: its socket is connecting, so that onopen will ask for the tab;  *)
(* or open and held in wsRef of a tab that is there, whose cleanup closes  *)
(* it; or the end is on its way to the handler. In no order of a close of  *)
(* the tab, an onopen, a loss and a Ctrl-C is a session left with nobody   *)
(* to end it.                                                              *)
SessionIsTold ==
    \A s \in Sockets : session[s].phase \in {"starting", "serving"} =>
        \/ sock[s].state = "connecting"
        \/ sock[s].state = "open" /\ tab.mounted /\ tab.ws = s
        \/ \E i \in DOMAIN inbox[s] : inbox[s][i] = "end"

(* The tab tries three times and never again: no socket is made after one  *)
(* has been open, however the connection ends.                             *)
RetriesEnd ==
    /\ sock[4].state = "none"
    /\ tab.connectedOnce => tab.connect = "idle"

(* When a tab has gone - while it was connecting, waiting or open - its    *)
(* sockets are closed and its sessions end. Only a PTY session whose shell *)
(* neither exits nor prints may stay in its wait for the reader.           *)
TabLeftNothing ==
    /\ tab.connect = "idle"
    /\ \A s \in Sockets :
          /\ sock[s].state \in {"none", "closed"}
          /\ \/ session[s].phase \in {"none", "ended"}
             \/ /\ session[s].phase = "reading" /\ Current(s) \in running
                /\ session[s].mode = "pty"

ClosedTabEnds == ~tab.mounted ~> TabLeftNothing

=============================================================================
