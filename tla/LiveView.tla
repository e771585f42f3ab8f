------------------------------- MODULE LiveView -------------------------------
(***************************************************************************)
(* What a list of the UI promises about the objects of the cluster         *)
(* (README.md, "Real-Time Features"): every row is an object as it really  *)
(* was, and when the cluster stops changing the list comes to show it.     *)
(* The way the rows get there is left open.  A list that has lost a change *)
(* which nothing brings back is released from the second promise.          *)
(***************************************************************************)
EXTENDS ClusterLog

CONSTANT Object

VARIABLES
    log,   \* the changes of the cluster
    view,  \* the rows that are shown: revisions, 0 for none
    lossy  \* a change is lost and nothing brings it back

vars == <<log, view, lossy>>

Was(history, o, v) ==
    v \in 1..Len(history) /\ history[v] = [obj |-> o, present |-> TRUE]

(* History is never rewritten.                                             *)
Extends(old, new) ==
    Len(new) >= Len(old) /\ \A i \in 1..Len(old) : new[i] = old[i]

Init == /\ log \in Seq(Entry(Object)) /\ view = [o \in Object |-> 0]
        /\ lossy \in BOOLEAN

Next == /\ Extends(log, log')
        /\ view' \in [Object -> Nat]
        /\ \A o \in Object : view'[o] # 0 => Was(log', o, view'[o])

Faithful == view = ListAt(log, Object, Len(log))

Safety  == Init /\ [][Next]_vars
Settles == <>[](Faithful \/ lossy)
Spec    == Safety /\ Settles
=============================================================================
