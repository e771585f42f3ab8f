------------------------------ MODULE ClusterLog ------------------------------
(***************************************************************************)
(* The objects of one resource type as the Kubernetes API server keeps     *)
(* them (external): every change gets the next revision, a list answers    *)
(* with the objects of one revision, and a watch announces the changes     *)
(* after a revision one by one.  The history is a sequence of changes; a   *)
(* row that a list shows is the revision in which the object was written,  *)
(* and 0 stands for no row.                                                *)
(***************************************************************************)
EXTENDS Integers, Sequences

Entry(Object) == [obj : Object, present : BOOLEAN]

(* The object o was written in revision i and not touched up to r.         *)
WrittenLast(log, o, i, r) ==
    /\ i \in 1..r
    /\ log[i] = [obj |-> o, present |-> TRUE]
    /\ \A j \in (i + 1)..r : log[j].obj # o

Version(log, o, r) ==
    IF \E i \in 1..r : WrittenLast(log, o, i, r)
    THEN CHOOSE i \in 1..r : WrittenLast(log, o, i, r)
    ELSE 0

(* What a list at revision r answers, and its objects.                     *)
ListAt(log, Object, r) == [o \in Object |-> Version(log, o, r)]
PresentAt(log, Object, r) == {o \in Object : Version(log, o, r) # 0}

(* The object o was deleted in revision d and not created again since.     *)
DeletedIn(log, o, d) ==
    /\ d \in 1..Len(log)
    /\ log[d] = [obj |-> o, present |-> FALSE]
    /\ \A j \in (d + 1)..Len(log) : log[j].obj # o

(* One object is created, modified or deleted.                             *)
Changed(log, o) ==
    {Append(log, [obj |-> o, present |-> TRUE])} \cup
    (IF Version(log, o, Len(log)) = 0 THEN {}
     ELSE {Append(log, [obj |-> o, present |-> FALSE])})
=============================================================================
