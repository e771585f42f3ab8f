--------------------------- MODULE ClusterLogProofs ---------------------------
(***************************************************************************)
(* What the operators on the history of the cluster return, for every      *)
(* history; the proofs about the lists of the UI rest on it.               *)
(***************************************************************************)
EXTENDS ClusterLog, WellFoundedInduction, TLAPS

(* A version is the revision of the last write, or 0.                      *)
LEMMA VersionIs ==
    ASSUME NEW h, NEW o, NEW r \in Nat
    PROVE  /\ Version(h, o, r) \in 0..r
           /\ Version(h, o, r) # 0 => WrittenLast(h, o, Version(h, o, r), r)
<1>1. CASE \E i \in 1..r : WrittenLast(h, o, i, r)
  <2>1. PICK i \in 1..r : WrittenLast(h, o, i, r)
    BY <1>1
  <2>2. WrittenLast(h, o, Version(h, o, r), r)
    BY <2>1 DEF Version
  <2> QED  BY <2>2 DEF WrittenLast
<1>2. CASE ~\E i \in 1..r : WrittenLast(h, o, i, r)
  BY <1>2 DEF Version
<1> QED  BY <1>1, <1>2

(* A change adds one entry to the history.                                 *)
LEMMA ChangedIs ==
    ASSUME NEW Obj, NEW h, NEW o \in Obj, NEW g \in Changed(h, o)
    PROVE  \E e \in Entry(Obj) : g = Append(h, e)
<1>1. PICK b \in BOOLEAN : g = Append(h, [obj |-> o, present |-> b])
  BY DEF Changed
<1> QED  BY <1>1 DEF Entry

(* An object is written last in one revision.                              *)
LEMMA WrittenLastOnce ==
    ASSUME NEW h, NEW o, NEW r \in Nat, NEW i, WrittenLast(h, o, i, r)
    PROVE  Version(h, o, r) = i /\ i # 0
<1> DEFINE v == Version(h, o, r)
<1>1. v \in 1..r /\ WrittenLast(h, o, v, r)
  BY DEF Version, WrittenLast
<1>2. i \in 1..r
  BY DEF WrittenLast
<1> HIDE DEF v
<1>3. ~(v < i) /\ ~(i < v)
  BY <1>1, <1>2 DEF WrittenLast
<1> QED  BY <1>1, <1>2, <1>3 DEF v

(* A list that is not older than the last write of an object has that.     *)
LEMMA VersionStays ==
    ASSUME NEW h, NEW o, NEW n \in Nat, Version(h, o, n) # 0,
           NEW r \in Version(h, o, n)..n
    PROVE  Version(h, o, r) = Version(h, o, n)
<1> DEFINE v == Version(h, o, n)
<1>1. v \in 1..n /\ WrittenLast(h, o, v, n)
  BY VersionIs
<1>2. r \in Nat /\ r <= n /\ v <= r
  BY <1>1
<1> HIDE DEF v
<1>3. WrittenLast(h, o, v, r)
  BY <1>1, <1>2 DEF WrittenLast
<1>4. Version(h, o, r) = v
  BY <1>2, <1>3, WrittenLastOnce
<1> QED  BY <1>4 DEF v

(* A list that has seen a change of an object does not answer with an      *)
(* older state of it.                                                      *)
LEMMA VersionCatchesUp ==
    ASSUME NEW h, NEW o, NEW r \in Nat, NEW v \in 1..r, h[v].obj = o
    PROVE  Version(h, o, r) = 0 \/ Version(h, o, r) >= v
<1> DEFINE w == Version(h, o, r)
<1>1. w \in 0..r /\ (w # 0 => WrittenLast(h, o, w, r))
  BY VersionIs
<1> HIDE DEF w
<1>2. ASSUME w # 0, w < v PROVE FALSE
  <2>1. v \in (w + 1)..r
    BY <1>1, <1>2
  <2> QED  BY <1>1, <1>2, <2>1 DEF WrittenLast
<1>3. w = 0 \/ w >= v
  BY <1>1, <1>2
<1> QED  BY <1>3 DEF w

(* One more entry writes an object last, or leaves its version, or deletes *)
(* the object.                                                             *)
LEMMA VersionOfChanged ==
    ASSUME NEW Obj, NEW h \in Seq(Entry(Obj)), NEW e \in Entry(Obj), NEW o
    PROVE  LET g == Append(h, e)
               v == Version(g, o, Len(g))
           IN  v \in {0, Version(h, o, Len(h)), Len(g)}
<1> DEFINE g == Append(h, e)
           v == Version(g, o, Len(g))
<1>1. Len(h) \in Nat /\ Len(g) = Len(h) + 1 /\ \A i \in 1..Len(h) : g[i] = h[i]
  OBVIOUS
<1>2. v \in 0..Len(g) /\ (v # 0 => WrittenLast(g, o, v, Len(g)))
  BY <1>1, VersionIs
<1> HIDE DEF g, v
<1>3. ASSUME v # 0, v # Len(g) PROVE v = Version(h, o, Len(h))
  <2>1. v \in 1..Len(h)
    BY <1>1, <1>2, <1>3
  <2>2. h[v] = [obj |-> o, present |-> TRUE]
    BY <1>1, <1>2, <1>3, <2>1 DEF WrittenLast
  <2>3. ASSUME NEW j \in (v + 1)..Len(h) PROVE h[j].obj # o
    <3>1. j \in 1..Len(h) /\ j \in (v + 1)..Len(g)
      BY <1>1, <2>1
    <3>2. h[j] = g[j]
      BY <1>1, <3>1
    <3>3. g[j].obj # o
      BY <1>2, <1>3, <3>1 DEF WrittenLast
    <3> QED  BY <3>2, <3>3
  <2>4. WrittenLast(h, o, v, Len(h))
    BY <2>1, <2>2, <2>3 DEF WrittenLast
  <2> QED  BY <1>1, <2>4, WrittenLastOnce
<1> QED  BY <1>3 DEF g, v

(* An object that was there and is not there any more was deleted last.    *)
LEMMA WasDeleted ==
    ASSUME NEW Obj, NEW h \in Seq(Entry(Obj)), NEW o, NEW v \in 1..Len(h),
           h[v].obj = o, Version(h, o, Len(h)) = 0
    PROVE  \E d \in 1..Len(h) : DeletedIn(h, o, d)
<1> DEFINE T == {Len(h) - j : j \in {i \in 1..Len(h) : h[i].obj = o}}
<1>1. Len(h) \in Nat
  OBVIOUS
<1>2. T \in SUBSET Nat /\ T # {}
  BY <1>1
<1>3. PICK d \in T : \A y \in T : <<y, d>> \notin OpToRel(<, Nat)
  BY <1>2, NatLessThanWellFounded, WFMin
<1>4. PICK i \in 1..Len(h) : h[i].obj = o /\ d = Len(h) - i
  BY <1>3
<1>5. \A j \in (i + 1)..Len(h) : h[j].obj # o
  <2>1. SUFFICES ASSUME NEW j \in (i + 1)..Len(h), h[j].obj = o PROVE FALSE
    OBVIOUS
  <2>2. Len(h) - j \in T /\ Len(h) - j < d
    BY <1>1, <1>4, <2>1
  <2> QED  BY <1>2, <1>3, <2>2 DEF OpToRel
<1>6. h[i] \in Entry(Obj)
  BY <1>4
<1>7. ~h[i].present
  <2>1. ~WrittenLast(h, o, i, Len(h))
    BY <1>1, WrittenLastOnce
  <2>2. h[i].present => h[i] = [obj |-> o, present |-> TRUE]
    BY <1>4, <1>6 DEF Entry
  <2> QED  BY <1>4, <1>5, <2>1, <2>2 DEF WrittenLast
<1>8. h[i] = [obj |-> o, present |-> FALSE]
  BY <1>4, <1>6, <1>7 DEF Entry
<1> QED  BY <1>4, <1>5, <1>8 DEF DeletedIn
=============================================================================
