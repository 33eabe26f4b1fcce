----------------------------- MODULE ViewsProofs ------------------------------
(***************************************************************************)
(* The reference counts of views: each is the number of those who hold the *)
(* view, for any number of views, VOBs, processes and slots.  Spare is     *)
(* what a count leaves over when its slot and its mnodes have been taken   *)
(* off; it is what processes and operations hold.  Every operator on the   *)
(* directory is shown to change Spare by the holds it takes or gives up,   *)
(* then every action to change what its thread holds by as much.           *)
(*                                                                         *)
(* Then the agreement of the slots with the ids and the exports of views,  *)
(* where commands on tags run one after another, and that of the mounts    *)
(* with the minors, the table and the subsystems.                          *)
(***************************************************************************)
EXTENDS Views, FiniteSetTheorems, WellFoundedInduction, TLAPS

Nms == [tag : Tags, hm : BOOLEAN]
Entries == [nm : Nms, vw : Views]
ViewType == [cnt : Nat, tag : Nms \cup {Null}, hm : BOOLEAN, id : Nat, ex : Nat \cup {Null},
             uuid : Uuids \cup {Null}, full : BOOLEAN, mn : [Vobs -> {"none", "idle", "used"}]]
DirType == [slot : [Slots -> {Null} \cup Entries], vw : [Views -> ViewType], exp : Seq(Nat \cup {Null})]
Handles == [ex : Nat, uuid : Uuids \cup {Null}, vob : Vobs]
CwdType == {c \in [vw : Views \cup {Null}, vob : Vobs \cup {Null}] : c.vw = Null => c.vob = Null}
ProcType == [view : Views \cup {Null}, cwd : CwdType]
LocType == [op : {Null} \cup {"mk", "rm", "rmall", "export", "unexport", "vget", "hm", "view", "set", "bind"},
            tag : Tags \cup {Null}, uuid : Uuids \cup {Null}, vw : Views \cup {Null}, base : Views \cup {Null},
            ex : Nat, vob : Vobs \cup {Null}, fh : Handles \cup {Null}, num : Nat, dead : SUBSET Views,
            off : Nat, hm : BOOLEAN]

\* Where an operation has no view yet; where it has one; where a history mode view is made.
Before == {"idle", "mk", "rm", "rmall", "tag", "vget", "hmnew", "bind", "oops"}
Within == {"mkid", "mkfill", "rmexp", "rmflush", "rmid", "export", "unexport", "vgetnode",
           "hm", "hmid", "hmfill", "view", "set", "rvc", "ask"}
After == {"bound", "got"}
Making == {"hmnew", "hmid", "hmfill"}

\* What a thread at step p remembers: l are its local variables, q its view and its place.
ThreadAt(p, l, q) ==
  /\ p \in Before \cup Within \cup After /\ l \in LocType /\ q \in ProcType
  /\ (l.vw # Null) = (p \in Within \cup After) /\ (l.base # Null) = (p \in Making)
  /\ p = "idle" => l = NoLoc
  /\ p \in {"mk", "hmnew"} => l.tag \in Tags
  /\ p = "tag" => l.op \in {"export", "unexport", "hm", "view", "set"}
  /\ p \in {"export", "unexport", "hm", "set"} => l.op = p
  /\ p \in Making => l.op = "hm"
  /\ p = "view" => l.op \in {"view", "hm"}
  /\ l.op \in {"view", "hm"} \/ p \in {"vget", "vgetnode"} => q.cwd = Nowhere
  /\ p \in {"vget", "vgetnode", "got"} => l.op = "vget" /\ l.fh \in Handles
  /\ p \in {"bind", "rvc", "ask"} => q.cwd.vob = Null /\ l.vob \in Vobs
  /\ p \in {"bind", "rvc", "ask", "bound"} => l.op = "bind"
  /\ p \in After => q.cwd.vw = l.vw

-----------------------------------------------------------------------------
(* The references.                                                         *)

One(b) == IF b THEN 1 ELSE 0
InSlots(d, v) == {i \in Slots : d.slot[i] # Null /\ d.slot[i].vw = v}
Mnodes(w) == {m \in Vobs : w.mn[m] # "none"}
Spare(d, v) == d.vw[v].cnt - Cardinality(InSlots(d, v)) - Cardinality(Mnodes(d.vw[v]))

\* What one thread holds of view v, and what all hold.
Share(p, l, q, v) ==
  One(q.view = v) + One(q.cwd = [vw |-> v, vob |-> Null]) + One(l.vw = v /\ p \notin After) + One(l.base = v)
Setting(v) == {t \in Threads : proc[t].view = v}
InTag(v) == {t \in Threads : proc[t].cwd = [vw |-> v, vob |-> Null]}
Working(v) == {t \in Threads : loc[t].vw = v /\ pc[t] \notin After}
Basing(v) == {t \in Threads : loc[t].base = v}
Taken(v) == Cardinality(Setting(v)) + Cardinality(InTag(v)) + Cardinality(Working(v)) + Cardinality(Basing(v))

Counts == \A v \in Views : Spare(dir, v) = Taken(v)
Nodes(d) == \A v \in Views, m \in Vobs : (d.vw[v].mn[m] = "used") = (Using(v, m) # {})
\* A view that was dead when an operation began, and was not brought back, has no id.
DeadGone(d) == \A t \in Threads : \A v \in loc[t].dead : d.vw[v].id = 0
Functions == /\ pc \in [Threads -> Before \cup Within \cup After] /\ loc \in [Threads -> LocType]
             /\ proc \in [Threads -> ProcType]

ViewsInv ==
  /\ work \in Workloads /\ fhs \subseteq Handles /\ dir \in DirType /\ Functions
  /\ \A t \in Threads : ThreadAt(pc[t], loc[t], proc[t])
  /\ Counts /\ Nodes(dir) /\ DeadGone(dir)
  /\ \A t \in Threads : /\ pc[t] = "ask" => loc[t].vw \notin loc[t].dead
                        /\ pc[t] = "bound" => loc[t].vw \notin loc[t].dead

-----------------------------------------------------------------------------
(* Finite sets.                                                            *)

LEMMA LeastIn ==
  ASSUME NEW S \in SUBSET Nat, S # {}
  PROVE  Least(S) \in S
  <1>. DEFINE R == OpToRel(<, Nat)
  <1>1. IsWellFoundedOn(R, Nat)  BY NatLessThanWellFounded
  <1>. HIDE DEF R
  <1>2. PICK x \in S : \A y \in S : ~ (<<y, x>> \in R)  BY <1>1, WFMin
  <1>3. \A y \in S : ~(y < x)  BY <1>2 DEF R, OpToRel
  <1>4. \A y \in S : x <= y  BY <1>3
  <1>. QED  BY <1>4 DEF Least

\* Only x may enter or leave.
LEMMA OneMoves ==
  ASSUME NEW S, NEW T, NEW x, IsFiniteSet(S), \A y : y # x => (y \in S) = (y \in T)
  PROVE  /\ IsFiniteSet(T) /\ Cardinality(S) \in Nat /\ Cardinality(T) \in Nat
         /\ Cardinality(T) = Cardinality(S) + One(x \in T) - One(x \in S)
  <1>1. Cardinality(S) \in Nat  BY FS_CardinalityType
  <1>2. CASE x \in T
    <2>1. T = S \cup {x}  BY <1>2
    <2>. QED  BY <2>1, <1>1, <1>2, FS_AddElement DEF One
  <1>3. CASE x \notin T
    <2>1. T = S \ {x}  BY <1>3
    <2>2. IsFiniteSet(T) /\ Cardinality(T) = IF x \in S THEN Cardinality(S) - 1 ELSE Cardinality(S)
      BY <2>1, FS_RemoveElement
    <2>3. Cardinality(T) \in Nat  BY <2>2, FS_CardinalityType
    <2>. QED  BY <2>2, <2>3, <1>1, <1>3 DEF One
  <1>. QED  BY <1>2, <1>3

-----------------------------------------------------------------------------
(* The operators on the directory.                                         *)

LEMMA Consts ==
  ASSUME work \in Workloads
  PROVE  /\ Slots \subseteq Nat /\ IsFiniteSet(Slots) /\ IsFiniteSet(Vobs) /\ IsFiniteSet(Threads)
         /\ Null \notin Views /\ Null \notin Vobs /\ Null \notin Nat /\ Null \notin Entries
         /\ Null \notin Admin \cup {"hm", "view"}
         /\ Nowhere = [vw |-> Null, vob |-> Null]
  <1>1. work.slots \in Nat  BY ViewsAssumption DEF ViewsAssumption
  <1>2. Slots \subseteq Nat /\ IsFiniteSet(Slots)  BY <1>1, FS_Interval DEF Slots
  <1>3. /\ IsFiniteSet(Vobs) /\ IsFiniteSet(Threads) /\ Null \notin Views /\ Null \notin Vobs /\ Null \notin Nat
        /\ Null \notin {"mk", "rm", "rmall", "export", "unexport", "vget", "hm", "view"} /\ Null \notin [nm : [tag : Tags, hm : BOOLEAN], vw : Views]
    BY ViewsAssumption, Zenon DEF ViewsAssumption
  <1>. QED  BY <1>2, <1>3 DEF Entries, Nms, Nowhere, Admin

\* The counts of the slots and the mnodes of a view are numbers.
LEMMA Parts ==
  ASSUME work \in Workloads, NEW d \in DirType, NEW v \in Views
  PROVE  /\ IsFiniteSet(InSlots(d, v)) /\ Cardinality(InSlots(d, v)) \in Nat
         /\ IsFiniteSet(Mnodes(d.vw[v])) /\ Cardinality(Mnodes(d.vw[v])) \in Nat
         /\ d.vw[v] \in ViewType /\ d.vw[v].cnt \in Nat /\ Spare(d, v) \in Int
         /\ d.vw[v].cnt = Spare(d, v) + Cardinality(InSlots(d, v)) + Cardinality(Mnodes(d.vw[v]))
  <1>1. IsFiniteSet(InSlots(d, v)) /\ IsFiniteSet(Mnodes(d.vw[v]))
    BY Consts, FS_Subset DEF InSlots, Mnodes
  <1>2. Cardinality(InSlots(d, v)) \in Nat /\ Cardinality(Mnodes(d.vw[v])) \in Nat
    BY <1>1, FS_CardinalityType
  <1>3. d.vw[v] \in ViewType /\ d.vw[v].cnt \in Nat  BY DEF DirType, ViewType
  <1>. QED  BY <1>1, <1>2, <1>3 DEF Spare

\* What e leaves of d: the mnodes in use, and the ids unless they are gone.
Kept(d, e) == \A v \in Views : /\ \A m \in Vobs : (e.vw[v].mn[m] = "used") = (d.vw[v].mn[m] = "used")
                               /\ e.vw[v].id \in {0, d.vw[v].id}

\* A new record w for view v.
LEMMA Renew ==
  ASSUME work \in Workloads, NEW d \in DirType, NEW v \in Views, NEW w \in ViewType
  PROVE  LET e == [d EXCEPT !.vw[v] = w]
         IN  /\ e \in DirType /\ e.slot = d.slot /\ e.exp = d.exp /\ e.vw[v] = w
             /\ \A x \in Views : x # v => e.vw[x] = d.vw[x] /\ Spare(e, x) = Spare(d, x)
             /\ Spare(e, v) = Spare(d, v) + w.cnt - d.vw[v].cnt
                                          - Cardinality(Mnodes(w)) + Cardinality(Mnodes(d.vw[v]))
             /\ (\A m \in Vobs : (w.mn[m] = "used") = (d.vw[v].mn[m] = "used")) /\ w.id \in {0, d.vw[v].id}
                  => Kept(d, e)
  <1>. DEFINE e == [d EXCEPT !.vw[v] = w]
  <1>1. e \in DirType /\ e.slot = d.slot /\ e.exp = d.exp /\ e.vw[v] = w
        /\ \A x \in Views : x # v => e.vw[x] = d.vw[x]
    BY DEF DirType
  <1>. HIDE DEF e
  <1>2. \A x \in Views : InSlots(e, x) = InSlots(d, x)  BY <1>1 DEF InSlots
  <1>3. \A x \in Views : x # v => Spare(e, x) = Spare(d, x)  BY <1>1, <1>2 DEF Spare
  <1>4. Spare(e, v) = w.cnt - Cardinality(InSlots(d, v)) - Cardinality(Mnodes(w))
    BY <1>1, <1>2 DEF Spare
  <1>5. /\ Cardinality(InSlots(d, v)) \in Nat /\ Cardinality(Mnodes(d.vw[v])) \in Nat /\ d.vw[v].cnt \in Nat
        /\ d.vw[v].cnt = Spare(d, v) + Cardinality(InSlots(d, v)) + Cardinality(Mnodes(d.vw[v]))
        /\ Spare(d, v) \in Int
    BY Parts
  <1>6. w.cnt \in Nat /\ Cardinality(Mnodes(w)) \in Nat
    <2>1. IsFiniteSet(Mnodes(w))  BY Consts, FS_Subset DEF Mnodes
    <2>. QED  BY <2>1, FS_CardinalityType DEF ViewType
  <1>7. Spare(e, v) = Spare(d, v) + w.cnt - d.vw[v].cnt - Cardinality(Mnodes(w)) + Cardinality(Mnodes(d.vw[v]))
    BY <1>4, <1>5, <1>6
  <1>8. (\A m \in Vobs : (w.mn[m] = "used") = (d.vw[v].mn[m] = "used")) /\ w.id \in {0, d.vw[v].id} => Kept(d, e)
    BY <1>1 DEF Kept
  <1>. QED  BY <1>1, <1>3, <1>7, <1>8 DEF e

\* A record w that differs in what is neither counted nor an id
LEMMA Noted ==
  ASSUME work \in Workloads, NEW d \in DirType, NEW v \in Views, NEW w \in ViewType,
         w.cnt = d.vw[v].cnt, w.mn = d.vw[v].mn
  PROVE  LET e == [d EXCEPT !.vw[v] = w]
         IN  /\ e \in DirType /\ e.slot = d.slot /\ e.exp = d.exp /\ e.vw[v] = w
             /\ \A x \in Views : x # v => e.vw[x] = d.vw[x]
             /\ \A x \in Views : Spare(e, x) = Spare(d, x)
             /\ \A x \in Views, m \in Vobs : (e.vw[x].mn[m] = "used") = (d.vw[x].mn[m] = "used")
             /\ w.id \in {0, d.vw[v].id} => Kept(d, e)
  <1>. DEFINE e == [d EXCEPT !.vw[v] = w]
  <1>1. /\ e \in DirType /\ e.slot = d.slot /\ e.exp = d.exp /\ e.vw[v] = w
        /\ \A x \in Views : x # v => e.vw[x] = d.vw[x] /\ Spare(e, x) = Spare(d, x)
        /\ Spare(e, v) = Spare(d, v) + w.cnt - d.vw[v].cnt
                                     - Cardinality(Mnodes(w)) + Cardinality(Mnodes(d.vw[v]))
        /\ (\A m \in Vobs : (w.mn[m] = "used") = (d.vw[v].mn[m] = "used")) /\ w.id \in {0, d.vw[v].id}
                  => Kept(d, e)
    BY Renew
  <1>. HIDE DEF e
  <1>2. Mnodes(w) = Mnodes(d.vw[v])  BY DEF Mnodes
  <1>3. Cardinality(Mnodes(d.vw[v])) \in Nat /\ d.vw[v].cnt \in Nat /\ Spare(d, v) \in Int  BY Parts
  <1>4. Spare(e, v) = Spare(d, v)  BY <1>1, <1>2, <1>3
  <1>. QED  BY <1>1, <1>4 DEF e

LEMMA HoldIn ==
  ASSUME work \in Workloads, NEW d \in DirType, NEW v \in Views
  PROVE  LET e == Hold(d, v)
         IN  /\ e \in DirType /\ e.slot = d.slot /\ e.exp = d.exp /\ Kept(d, e)
             /\ \A x \in Views : Spare(e, x) = Spare(d, x) + One(x = v) /\ e.vw[x].mn = d.vw[x].mn
             /\ \A x \in Views : e.vw[x].id = d.vw[x].id
  <1>. DEFINE w == [d.vw[v] EXCEPT !.cnt = @ + 1]  e == [d EXCEPT !.vw[v] = w]
  <1>1. d.vw[v] \in ViewType  BY Parts
  <1>2. w \in ViewType /\ w.cnt = d.vw[v].cnt + 1 /\ w.mn = d.vw[v].mn /\ w.id = d.vw[v].id
    BY <1>1 DEF ViewType
  <1>3. Hold(d, v) = e  BY DEF Hold
  <1>. HIDE DEF w
  <1>4. /\ e \in DirType /\ e.slot = d.slot /\ e.exp = d.exp /\ e.vw[v] = w
        /\ \A x \in Views : x # v => e.vw[x] = d.vw[x] /\ Spare(e, x) = Spare(d, x)
        /\ Spare(e, v) = Spare(d, v) + w.cnt - d.vw[v].cnt
                                     - Cardinality(Mnodes(w)) + Cardinality(Mnodes(d.vw[v]))
        /\ (\A m \in Vobs : (w.mn[m] = "used") = (d.vw[v].mn[m] = "used")) /\ w.id \in {0, d.vw[v].id}
                  => Kept(d, e)
    BY <1>2, Renew
  <1>. HIDE DEF e
  <1>5. Mnodes(w) = Mnodes(d.vw[v])  BY <1>2 DEF Mnodes
  <1>6. Cardinality(Mnodes(d.vw[v])) \in Nat /\ d.vw[v].cnt \in Nat
        /\ \A x \in Views : Spare(d, x) \in Int  BY Parts
  <1>7. Spare(e, v) = Spare(d, v) + 1  BY <1>4, <1>2, <1>5, <1>6
  <1>8. \A x \in Views : Spare(e, x) = Spare(d, x) + One(x = v)  BY <1>4, <1>6, <1>7 DEF One
  <1>9. Kept(d, e) /\ \A x \in Views : e.vw[x].mn = d.vw[x].mn /\ e.vw[x].id = d.vw[x].id  BY <1>2, <1>4
  <1>. QED  BY <1>3, <1>4, <1>8, <1>9

LEMMA NoNodes ==
  ASSUME work \in Workloads, NEW d \in DirType, NEW v \in Views, Cardinality(Mnodes(d.vw[v])) = 0
  PROVE  \A m \in Vobs : d.vw[v].mn[m] = "none"
  <1>1. Mnodes(d.vw[v]) = {}  BY Parts, FS_EmptySet
  <1>. QED  BY <1>1 DEF Mnodes

LEMMA NoViewIn ==
  NoView \in ViewType /\ NoView.cnt = 0 /\ NoView.id = 0 /\ Mnodes(NoView) = {} /\ Cardinality(Mnodes(NoView)) = 0
  /\ \A m \in Vobs : NoView.mn[m] = "none"
  <1>1. NoView \in ViewType /\ NoView.cnt = 0 /\ NoView.id = 0 /\ \A m \in Vobs : NoView.mn[m] = "none"
    BY DEF NoView, ViewType
  <1>2. Mnodes(NoView) = {}  BY <1>1 DEF Mnodes
  <1>. QED  BY <1>1, <1>2, FS_EmptySet

LEMMA ReleIn ==
  ASSUME work \in Workloads, NEW d \in DirType, NEW v \in Views, Spare(d, v) >= 1
  PROVE  LET e == Rele(d, v)
         IN  /\ e \in DirType /\ e.slot = d.slot /\ e.exp = d.exp /\ Kept(d, e)
             /\ \A x \in Views : Spare(e, x) = Spare(d, x) - One(x = v)
             /\ \A x \in Views : x # v => e.vw[x] = d.vw[x]
  <1>. DEFINE w == IF d.vw[v].cnt = 1 THEN NoView ELSE [d.vw[v] EXCEPT !.cnt = @ - 1]
              e == [d EXCEPT !.vw[v] = w]
  <1>1. /\ d.vw[v] \in ViewType /\ d.vw[v].cnt \in Nat /\ Spare(d, v) \in Int
        /\ Cardinality(InSlots(d, v)) \in Nat /\ Cardinality(Mnodes(d.vw[v])) \in Nat
        /\ d.vw[v].cnt = Spare(d, v) + Cardinality(InSlots(d, v)) + Cardinality(Mnodes(d.vw[v]))
    BY Parts
  <1>2. Rele(d, v) = e  BY DEF Rele
  <1>3. /\ w \in ViewType /\ w.cnt = d.vw[v].cnt - 1 /\ Cardinality(Mnodes(w)) = Cardinality(Mnodes(d.vw[v]))
        /\ \A m \in Vobs : (w.mn[m] = "used") = (d.vw[v].mn[m] = "used")
        /\ w.id \in {0, d.vw[v].id}
    <2>1. CASE d.vw[v].cnt = 1
      <3>1. Cardinality(Mnodes(d.vw[v])) = 0  BY <1>1, <2>1
      <3>2. \A m \in Vobs : d.vw[v].mn[m] = "none"  BY <3>1, NoNodes
      <3>3. w = NoView  BY <2>1
      <3>. HIDE DEF w
      <3>. QED  BY <3>1, <3>2, <3>3, <2>1, NoViewIn
    <2>2. CASE d.vw[v].cnt # 1
      <3>1. w \in ViewType /\ w.cnt = d.vw[v].cnt - 1 /\ w.mn = d.vw[v].mn /\ w.id = d.vw[v].id
        BY <1>1, <2>2 DEF ViewType
      <3>. HIDE DEF w
      <3>2. Mnodes(w) = Mnodes(d.vw[v])  BY <3>1 DEF Mnodes
      <3>. QED  BY <3>1, <3>2
    <2>. QED  BY <2>1, <2>2
  <1>. HIDE DEF w
  <1>4. /\ e \in DirType /\ e.slot = d.slot /\ e.exp = d.exp /\ e.vw[v] = w
        /\ \A x \in Views : x # v => e.vw[x] = d.vw[x] /\ Spare(e, x) = Spare(d, x)
        /\ Spare(e, v) = Spare(d, v) + w.cnt - d.vw[v].cnt
                                     - Cardinality(Mnodes(w)) + Cardinality(Mnodes(d.vw[v]))
        /\ (\A m \in Vobs : (w.mn[m] = "used") = (d.vw[v].mn[m] = "used")) /\ w.id \in {0, d.vw[v].id}
                  => Kept(d, e)
    BY <1>3, Renew
  <1>. HIDE DEF e
  <1>5. Spare(e, v) = Spare(d, v) - 1  BY <1>1, <1>3, <1>4
  <1>6. \A x \in Views : Spare(d, x) \in Int  BY Parts
  <1>7. \A x \in Views : Spare(e, x) = Spare(d, x) - One(x = v)  BY <1>4, <1>5, <1>6 DEF One
  <1>. QED  BY <1>2, <1>3, <1>4, <1>7

\* Slot i gets the entry s, or none.
LEMMA Slotted ==
  ASSUME work \in Workloads, NEW d \in DirType, NEW i \in Slots, NEW s \in {Null} \cup Entries
  PROVE  LET e == [d EXCEPT !.slot[i] = s]
         IN  /\ e \in DirType /\ e.vw = d.vw /\ e.exp = d.exp /\ Kept(d, e)
             /\ e.slot = [d.slot EXCEPT ![i] = s]
             /\ \A x \in Views : Spare(e, x) = Spare(d, x) + One(i \in InSlots(d, x)) - One(s # Null /\ s.vw = x)
  <1>. DEFINE e == [d EXCEPT !.slot[i] = s]
  <1>1. /\ e \in DirType /\ e.vw = d.vw /\ e.exp = d.exp /\ e.slot[i] = s
        /\ \A j \in Slots : j # i => e.slot[j] = d.slot[j]
        /\ e.slot = [d.slot EXCEPT ![i] = s]
    BY DEF DirType
  <1>. HIDE DEF e
  <1>2. SUFFICES ASSUME NEW x \in Views
        PROVE  Spare(e, x) = Spare(d, x) + One(i \in InSlots(d, x)) - One(s # Null /\ s.vw = x)
    BY <1>1 DEF e, Kept
  <1>3. \A j : j # i => (j \in InSlots(d, x)) = (j \in InSlots(e, x))  BY <1>1 DEF InSlots
  <1>4. (i \in InSlots(e, x)) = (s # Null /\ s.vw = x)  BY <1>1 DEF InSlots
  <1>5. IsFiniteSet(InSlots(d, x))  BY Parts
  <1>6. Cardinality(InSlots(e, x)) = Cardinality(InSlots(d, x)) + One(i \in InSlots(e, x)) - One(i \in InSlots(d, x))
    BY <1>3, <1>5, OneMoves
  <1>7. /\ d.vw[x].cnt \in Nat /\ Cardinality(InSlots(d, x)) \in Nat /\ Cardinality(Mnodes(d.vw[x])) \in Nat
        /\ One(i \in InSlots(e, x)) \in Int /\ One(i \in InSlots(d, x)) \in Int
    BY Parts DEF One
  <1>8. e.vw[x] = d.vw[x]  BY <1>1
  <1>9. Spare(e, x) = Spare(d, x) + One(i \in InSlots(d, x)) - One(i \in InSlots(e, x))
    BY <1>6, <1>7, <1>8 DEF Spare
  <1>. QED  BY <1>9, <1>4

LEMMA RemoveIn ==
  ASSUME work \in Workloads, NEW d \in DirType, NEW i \in Present(d)
  PROVE  LET e == RamdirRemove(d, i)
         IN  /\ VwAt(d, i) \in Views /\ e \in DirType /\ e.vw = d.vw /\ e.exp = d.exp /\ Kept(d, e)
             /\ e.slot = [d.slot EXCEPT ![i] = Null]
             /\ \A x \in Views : Spare(e, x) = Spare(d, x) + One(x = VwAt(d, i))
  <1>. DEFINE e == [d EXCEPT !.slot[i] = Null]
  <1>1. i \in Slots /\ d.slot[i] # Null  BY DEF Present
  <1>2. VwAt(d, i) \in Views /\ \A x \in Views : (i \in InSlots(d, x)) = (x = VwAt(d, i))
    BY <1>1 DEF DirType, Entries, VwAt, InSlots
  <1>3. /\ e \in DirType /\ e.vw = d.vw /\ e.exp = d.exp /\ Kept(d, e)
        /\ e.slot = [d.slot EXCEPT ![i] = Null]
        /\ \A x \in Views : Spare(e, x) = Spare(d, x) + One(i \in InSlots(d, x)) - One(Null # Null /\ Null.vw = x)
    BY <1>1, Slotted
  <1>. HIDE DEF e
  <1>4. \A x \in Views : Spare(d, x) \in Int  BY Parts
  <1>5. \A x \in Views : Spare(e, x) = Spare(d, x) + One(x = VwAt(d, i))  BY <1>2, <1>3, <1>4 DEF One
  <1>. QED  BY <1>2, <1>3, <1>5 DEF e, RamdirRemove

LEMMA FreeIn ==
  ASSUME work \in Workloads, NEW d \in DirType, Present(d) # Slots
  PROVE  FreeSlot(d) \in Slots /\ d.slot[FreeSlot(d)] = Null
  <1>. DEFINE S == {i \in Slots : d.slot[i] = Null}
  <1>1. S # {} /\ S \in SUBSET Nat  BY Consts DEF Present
  <1>. HIDE DEF S
  <1>2. Least(S) \in S  BY <1>1, LeastIn
  <1>. QED  BY <1>2 DEF FreeSlot, S

LEMMA AddIn ==
  ASSUME work \in Workloads, NEW d \in DirType, NEW nm \in Nms, NEW v \in Views, Present(d) # Slots
  PROVE  LET e == RamdirAdd(d, nm, v)
         IN  /\ e \in DirType /\ e.exp = d.exp /\ Kept(d, e)
             /\ e.slot = [d.slot EXCEPT ![FreeSlot(d)] = [nm |-> nm, vw |-> v]]
             /\ \A x \in Views : Spare(e, x) = Spare(d, x) /\ e.vw[x].mn = d.vw[x].mn
             /\ \A x \in Views : e.vw[x].id = d.vw[x].id
  <1>. DEFINE h == Hold(d, v)  i == FreeSlot(d)  s == [nm |-> nm, vw |-> v]
              e == [h EXCEPT !.slot[i] = s]
  <1>1. /\ h \in DirType /\ h.slot = d.slot /\ h.exp = d.exp /\ Kept(d, h)
        /\ \A x \in Views : Spare(h, x) = Spare(d, x) + One(x = v) /\ h.vw[x].mn = d.vw[x].mn
        /\ \A x \in Views : h.vw[x].id = d.vw[x].id
    BY HoldIn
  <1>2. i \in Slots /\ d.slot[i] = Null  BY FreeIn
  <1>3. s \in Entries /\ s # Null /\ s.vw = v  BY Consts DEF Entries
  <1>. HIDE DEF h, i, s
  <1>4. /\ e \in DirType /\ e.vw = h.vw /\ e.exp = h.exp /\ Kept(h, e)
        /\ e.slot = [h.slot EXCEPT ![i] = s]
        /\ \A x \in Views : Spare(e, x) = Spare(h, x) + One(i \in InSlots(h, x)) - One(s # Null /\ s.vw = x)
    BY <1>1, <1>2, <1>3, Slotted
  <1>5. \A x \in Views : i \notin InSlots(h, x)  BY <1>1, <1>2 DEF InSlots
  <1>6. \A x \in Views : Spare(d, x) \in Int  BY Parts
  <1>. HIDE DEF e
  <1>7. \A x \in Views : Spare(e, x) = Spare(d, x)  BY <1>1, <1>3, <1>4, <1>5, <1>6 DEF One
  <1>8. Kept(d, e)  BY <1>1, <1>4 DEF Kept
  <1>. QED  BY <1>1, <1>4, <1>7, <1>8 DEF e, RamdirAdd, h, i, s

LEMMA MakeIn ==
  ASSUME work \in Workloads, NEW d \in DirType, NEW v \in Views, NEW nm \in Nms, d.vw[v].cnt = 0, Spare(d, v) >= 0
  PROVE  LET e == MakeView(d, v, nm)
         IN  /\ e \in DirType /\ e.slot = d.slot /\ e.exp = d.exp /\ Kept(d, e)
             /\ \A x \in Views : Spare(e, x) = Spare(d, x) + One(x = v)
             /\ e.vw[v].id = 0 /\ e.vw[v].ex = Null /\ \A x \in Views : x # v => e.vw[x] = d.vw[x]
  <1>. DEFINE w == [NoView EXCEPT !.cnt = 1, !.tag = nm]  e == [d EXCEPT !.vw[v] = w]
  <1>1. /\ d.vw[v] \in ViewType /\ Spare(d, v) \in Int
        /\ Cardinality(InSlots(d, v)) \in Nat /\ Cardinality(Mnodes(d.vw[v])) \in Nat
        /\ d.vw[v].cnt = Spare(d, v) + Cardinality(InSlots(d, v)) + Cardinality(Mnodes(d.vw[v]))
    BY Parts
  <1>2. Cardinality(Mnodes(d.vw[v])) = 0  BY <1>1
  <1>3. \A m \in Vobs : d.vw[v].mn[m] = "none"  BY <1>2, NoNodes
  <1>4. /\ w \in ViewType /\ w.cnt = 1 /\ w.id = 0 /\ w.ex = Null /\ \A m \in Vobs : w.mn[m] = "none"
    BY DEF NoView, ViewType
  <1>5. MakeView(d, v, nm) = e  BY DEF MakeView
  <1>. HIDE DEF w
  <1>6. Mnodes(w) = {}  BY <1>4 DEF Mnodes
  <1>7. Cardinality(Mnodes(w)) = 0  BY <1>6, FS_EmptySet
  <1>8. /\ e \in DirType /\ e.slot = d.slot /\ e.exp = d.exp /\ e.vw[v] = w
        /\ \A x \in Views : x # v => e.vw[x] = d.vw[x] /\ Spare(e, x) = Spare(d, x)
        /\ Spare(e, v) = Spare(d, v) + w.cnt - d.vw[v].cnt
                                     - Cardinality(Mnodes(w)) + Cardinality(Mnodes(d.vw[v]))
        /\ (\A m \in Vobs : (w.mn[m] = "used") = (d.vw[v].mn[m] = "used")) /\ w.id \in {0, d.vw[v].id}
                  => Kept(d, e)
    BY <1>4, Renew
  <1>. HIDE DEF e
  <1>9. Spare(e, v) = Spare(d, v) + 1  BY <1>1, <1>2, <1>4, <1>7, <1>8
  <1>10. \A x \in Views : Spare(d, x) \in Int  BY Parts
  <1>11. \A x \in Views : Spare(e, x) = Spare(d, x) + One(x = v)  BY <1>8, <1>9, <1>10 DEF One
  <1>. QED  BY <1>3, <1>4, <1>5, <1>8, <1>11

\* What mfs_mnflushvw does to one view
LEMMA FlushedRec ==
  ASSUME work \in Workloads, NEW w \in ViewType, NEW M \in SUBSET Vobs, w.cnt >= Cardinality(Mnodes(w))
  PROVE  LET f == Flushed(w, M)
         IN  /\ f \in ViewType /\ f.cnt - Cardinality(Mnodes(f)) = w.cnt - Cardinality(Mnodes(w))
             /\ f.id \in {0, w.id} /\ \A m \in Vobs : (f.mn[m] = "used") = (w.mn[m] = "used")
             /\ f = NoView \/ (f.id = w.id /\ f.ex = w.ex)
  <1>. DEFINE idle == {m \in M : w.mn[m] = "idle"}
              left == w.cnt - Cardinality(idle)
              g == [w EXCEPT !.cnt = left, !.mn = [m \in Vobs |-> IF m \in idle THEN "none" ELSE @[m]]]
  <1>1. Flushed(w, M) = IF left = 0 THEN NoView ELSE g  BY DEF Flushed
  <1>2. idle \subseteq Mnodes(w)  BY DEF Mnodes
  <1>3. IsFiniteSet(Mnodes(w)) /\ Cardinality(Mnodes(w)) \in Nat
    <2>1. IsFiniteSet(Mnodes(w))  BY Consts, FS_Subset DEF Mnodes
    <2>. QED  BY <2>1, FS_CardinalityType
  <1>4. w.cnt \in Nat  BY DEF ViewType
  <1>5. \A m \in Vobs : m \in idle => w.mn[m] = "idle"  BY Zenon
  <1>. HIDE DEF idle
  <1>6. IsFiniteSet(idle) /\ Cardinality(idle) <= Cardinality(Mnodes(w))
        /\ (Cardinality(Mnodes(w)) = Cardinality(idle) => Mnodes(w) = idle)  BY <1>2, <1>3, FS_Subset
  <1>7. Cardinality(idle) \in Nat  BY <1>6, FS_CardinalityType
  <1>8. CASE left = 0
    <2>1. Mnodes(w) = idle  BY <1>3, <1>4, <1>6, <1>7, <1>8
    <2>2. \A m \in Vobs : w.mn[m] # "used"  BY <2>1, <1>5 DEF Mnodes
    <2>3. Flushed(w, M) = NoView  BY <1>1, <1>8
    <2>4. w.cnt - Cardinality(Mnodes(w)) = 0  BY <1>8, <2>1, <1>4, <1>7
    <2>. QED  BY <2>2, <2>3, <2>4, NoViewIn
  <1>9. CASE left # 0
    <2>1. left \in Nat  BY <1>3, <1>4, <1>6, <1>7
    <2>2. g \in ViewType /\ g.cnt = left /\ g.id = w.id /\ g.ex = w.ex
          /\ \A m \in Vobs : g.mn[m] = IF m \in idle THEN "none" ELSE w.mn[m]
      BY <2>1 DEF ViewType
    <2>3. Flushed(w, M) = g  BY <1>1, <1>9
    <2>. HIDE DEF g
    <2>4. Mnodes(g) = Mnodes(w) \ idle  BY <2>2 DEF Mnodes
    <2>5. Mnodes(w) \cap idle = idle  BY <1>2
    <2>6. Cardinality(Mnodes(g)) = Cardinality(Mnodes(w)) - Cardinality(idle)  BY <2>4, <2>5, <1>3, FS_Difference
    <2>7. g.cnt - Cardinality(Mnodes(g)) = w.cnt - Cardinality(Mnodes(w))  BY <2>2, <2>6, <1>3, <1>4, <1>7
    <2>8. \A m \in Vobs : (g.mn[m] = "used") = (w.mn[m] = "used")  BY <2>2, <1>5
    <2>. QED  BY <2>2, <2>3, <2>7, <2>8
  <1>. QED  BY <1>8, <1>9

LEMMA FlushVwIn ==
  ASSUME work \in Workloads, NEW d \in DirType, NEW v \in Views, Spare(d, v) >= 0
  PROVE  LET e == FlushVw(d, v)
         IN  /\ e \in DirType /\ e.slot = d.slot /\ e.exp = d.exp /\ Kept(d, e)
             /\ \A x \in Views : Spare(e, x) = Spare(d, x)
             /\ \A x \in Views : e.vw[x] = NoView \/ (e.vw[x].id = d.vw[x].id /\ e.vw[x].ex = d.vw[x].ex)
  <1>. DEFINE w == Flushed(d.vw[v], Vobs)  e == [d EXCEPT !.vw[v] = w]
  <1>1. /\ d.vw[v] \in ViewType /\ Spare(d, v) \in Int /\ d.vw[v].cnt \in Nat
        /\ Cardinality(InSlots(d, v)) \in Nat /\ Cardinality(Mnodes(d.vw[v])) \in Nat
        /\ d.vw[v].cnt = Spare(d, v) + Cardinality(InSlots(d, v)) + Cardinality(Mnodes(d.vw[v]))
    BY Parts
  <1>2. d.vw[v].cnt >= Cardinality(Mnodes(d.vw[v]))  BY <1>1
  <1>3. FlushVw(d, v) = e  BY DEF FlushVw
  <1>4. /\ w \in ViewType /\ w.cnt - Cardinality(Mnodes(w)) = d.vw[v].cnt - Cardinality(Mnodes(d.vw[v]))
        /\ w.id \in {0, d.vw[v].id} /\ \A m \in Vobs : (w.mn[m] = "used") = (d.vw[v].mn[m] = "used")
        /\ w = NoView \/ (w.id = d.vw[v].id /\ w.ex = d.vw[v].ex)
    BY <1>1, <1>2, FlushedRec
  <1>5. Cardinality(Mnodes(w)) \in Nat /\ w.cnt \in Nat
    <2>1. IsFiniteSet(Mnodes(w))  BY Consts, FS_Subset DEF Mnodes
    <2>. QED  BY <1>4, <2>1, FS_CardinalityType DEF ViewType
  <1>. HIDE DEF w
  <1>6. /\ e \in DirType /\ e.slot = d.slot /\ e.exp = d.exp /\ e.vw[v] = w
        /\ \A x \in Views : x # v => e.vw[x] = d.vw[x] /\ Spare(e, x) = Spare(d, x)
        /\ Spare(e, v) = Spare(d, v) + w.cnt - d.vw[v].cnt
                                     - Cardinality(Mnodes(w)) + Cardinality(Mnodes(d.vw[v]))
        /\ (\A m \in Vobs : (w.mn[m] = "used") = (d.vw[v].mn[m] = "used")) /\ w.id \in {0, d.vw[v].id}
                  => Kept(d, e)
    BY <1>4, Renew
  <1>. HIDE DEF e
  <1>7. Spare(e, v) = Spare(d, v)  BY <1>1, <1>4, <1>5, <1>6
  <1>. QED  BY <1>3, <1>4, <1>6, <1>7

LEMMA FlushMountsIn ==
  ASSUME work \in Workloads, NEW d \in DirType, NEW M \in SUBSET Vobs, \A x \in Views : Spare(d, x) >= 0
  PROVE  LET e == FlushMounts(d, M)
         IN  /\ e \in DirType /\ e.slot = d.slot /\ e.exp = d.exp /\ Kept(d, e)
             /\ \A x \in Views : Spare(e, x) = Spare(d, x)
             /\ \A x \in Views : e.vw[x] = NoView \/ (e.vw[x].id = d.vw[x].id /\ e.vw[x].ex = d.vw[x].ex)
  <1>. DEFINE f == [v \in Views |-> Flushed(d.vw[v], M)]  e == [d EXCEPT !.vw = f]
  <1>1. \A x \in Views :
          /\ d.vw[x] \in ViewType /\ Spare(d, x) \in Int /\ d.vw[x].cnt \in Nat
          /\ Cardinality(InSlots(d, x)) \in Nat /\ Cardinality(Mnodes(d.vw[x])) \in Nat
          /\ d.vw[x].cnt = Spare(d, x) + Cardinality(InSlots(d, x)) + Cardinality(Mnodes(d.vw[x]))
    BY Parts
  <1>2. \A x \in Views : d.vw[x].cnt >= Cardinality(Mnodes(d.vw[x]))  BY <1>1
  <1>3. FlushMounts(d, M) = e  BY DEF FlushMounts, DirType
  <1>4. \A x \in Views :
          /\ f[x] \in ViewType /\ f[x].cnt - Cardinality(Mnodes(f[x])) = d.vw[x].cnt - Cardinality(Mnodes(d.vw[x]))
          /\ f[x].id \in {0, d.vw[x].id} /\ \A m \in Vobs : (f[x].mn[m] = "used") = (d.vw[x].mn[m] = "used")
          /\ f[x] = NoView \/ (f[x].id = d.vw[x].id /\ f[x].ex = d.vw[x].ex)
    <2>. SUFFICES ASSUME NEW x \in Views
         PROVE /\ f[x] \in ViewType /\ f[x].cnt - Cardinality(Mnodes(f[x])) = d.vw[x].cnt - Cardinality(Mnodes(d.vw[x]))
               /\ f[x].id \in {0, d.vw[x].id} /\ \A m \in Vobs : (f[x].mn[m] = "used") = (d.vw[x].mn[m] = "used")
               /\ f[x] = NoView \/ (f[x].id = d.vw[x].id /\ f[x].ex = d.vw[x].ex)
      OBVIOUS
    <2>1. f[x] = Flushed(d.vw[x], M)  OBVIOUS
    <2>. HIDE DEF f
    <2>. DEFINE w == d.vw[x]
    <2>2. w \in ViewType /\ w.cnt >= Cardinality(Mnodes(w))  BY <1>1, <1>2
    <2>. HIDE DEF w
    <2>3. LET g == Flushed(w, M)
          IN  /\ g \in ViewType /\ g.cnt - Cardinality(Mnodes(g)) = w.cnt - Cardinality(Mnodes(w))
              /\ g.id \in {0, w.id} /\ \A m \in Vobs : (g.mn[m] = "used") = (w.mn[m] = "used")
              /\ g = NoView \/ (g.id = w.id /\ g.ex = w.ex)
      BY <2>2, FlushedRec
    <2>. QED  BY <2>1, <2>3 DEF w
  <1>5. f \in [Views -> ViewType]  BY <1>4
  <1>. HIDE DEF f
  <1>6. e \in DirType /\ e.slot = d.slot /\ e.exp = d.exp /\ e.vw = f  BY <1>5 DEF DirType
  <1>. HIDE DEF e
  <1>7. \A x \in Views : InSlots(e, x) = InSlots(d, x)  BY <1>6 DEF InSlots
  <1>8. ASSUME NEW x \in Views PROVE Spare(e, x) = Spare(d, x)
    <2>1. Cardinality(Mnodes(f[x])) \in Nat /\ f[x].cnt \in Nat
      <3>1. IsFiniteSet(Mnodes(f[x]))  BY Consts, FS_Subset DEF Mnodes
      <3>. QED  BY <1>4, <3>1, FS_CardinalityType DEF ViewType
    <2>2. Spare(e, x) = f[x].cnt - Cardinality(InSlots(d, x)) - Cardinality(Mnodes(f[x]))
      BY <1>6, <1>7 DEF Spare
    <2>3. f[x].cnt - Cardinality(Mnodes(f[x])) = d.vw[x].cnt - Cardinality(Mnodes(d.vw[x]))  BY <1>4
    <2>. QED  BY <1>1, <2>1, <2>2, <2>3
  <1>9. Kept(d, e)  BY <1>4, <1>6 DEF Kept
  <1>. QED  BY <1>3, <1>4, <1>6, <1>8, <1>9

\* Mnode m of view v becomes s.
SetNode(d, v, m, s) == [d EXCEPT !.vw[v].mn[m] = s]

NodeMoves(d, e, v, m, s) ==
  /\ e \in DirType /\ e.slot = d.slot /\ e.exp = d.exp
  /\ \A x \in Views : e.vw[x].id = d.vw[x].id /\ e.vw[x].cnt = d.vw[x].cnt
  /\ \A x \in Views : Spare(e, x) = Spare(d, x) + (IF x = v THEN One(d.vw[v].mn[m] # "none") - One(s # "none")
                                                           ELSE 0)
  /\ \A x \in Views, y \in Vobs : e.vw[x].mn[y] = IF x = v /\ y = m THEN s ELSE d.vw[x].mn[y]

LEMMA NodeIn ==
  ASSUME work \in Workloads, NEW d \in DirType, NEW v \in Views, NEW m \in Vobs, NEW s \in {"none", "idle", "used"}
  PROVE  LET e == SetNode(d, v, m, s)
         IN  NodeMoves(d, e, v, m, s)
  <1>. DEFINE w == [d.vw[v] EXCEPT !.mn[m] = s]  e == [d EXCEPT !.vw[v] = w]
  <1>1. /\ d.vw[v] \in ViewType /\ Spare(d, v) \in Int /\ d.vw[v].cnt \in Nat
        /\ IsFiniteSet(Mnodes(d.vw[v])) /\ Cardinality(Mnodes(d.vw[v])) \in Nat
    BY Parts
  <1>2. /\ w \in ViewType /\ w.cnt = d.vw[v].cnt /\ w.id = d.vw[v].id
        /\ \A y \in Vobs : w.mn[y] = IF y = m THEN s ELSE d.vw[v].mn[y]
    BY <1>1 DEF ViewType
  <1>3. SetNode(d, v, m, s) = e  BY DEF SetNode
  <1>. HIDE DEF w
  <1>4. /\ e \in DirType /\ e.slot = d.slot /\ e.exp = d.exp /\ e.vw[v] = w
        /\ \A x \in Views : x # v => e.vw[x] = d.vw[x] /\ Spare(e, x) = Spare(d, x)
        /\ Spare(e, v) = Spare(d, v) + w.cnt - d.vw[v].cnt
                                     - Cardinality(Mnodes(w)) + Cardinality(Mnodes(d.vw[v]))
    BY <1>2, Renew
  <1>. HIDE DEF e
  <1>5. \A y : y # m => (y \in Mnodes(d.vw[v])) = (y \in Mnodes(w))  BY <1>2 DEF Mnodes
  <1>6. /\ Cardinality(Mnodes(w)) \in Nat
        /\ Cardinality(Mnodes(w)) = Cardinality(Mnodes(d.vw[v])) + One(m \in Mnodes(w)) - One(m \in Mnodes(d.vw[v]))
    BY <1>1, <1>5, OneMoves
  <1>7. (m \in Mnodes(w)) = (s # "none") /\ (m \in Mnodes(d.vw[v])) = (d.vw[v].mn[m] # "none")
    BY <1>2 DEF Mnodes
  <1>8. Spare(e, v) = Spare(d, v) + (One(d.vw[v].mn[m] # "none") - One(s # "none"))
    BY <1>1, <1>2, <1>4, <1>6, <1>7 DEF One
  <1>9. \A x \in Views : Spare(d, x) \in Int  BY Parts
  <1>10. \A x \in Views : Spare(e, x) = Spare(d, x) + (IF x = v THEN One(d.vw[v].mn[m] # "none") - One(s # "none") ELSE 0)
    BY <1>4, <1>8, <1>9
  <1>. QED  BY <1>2, <1>3, <1>4, <1>10 DEF NodeMoves

LEMMA ActivateIn ==
  ASSUME work \in Workloads, NEW d \in DirType, NEW v \in Views, NEW m \in Vobs
  PROVE  LET e == Activate(d, v, m)
         IN  /\ e \in DirType /\ e.slot = d.slot /\ e.exp = d.exp
             /\ \A x \in Views : e.vw[x].id = d.vw[x].id /\ Spare(e, x) = Spare(d, x)
             /\ \A x \in Views, y \in Vobs :
                  (e.vw[x].mn[y] = "used") = ((x = v /\ y = m) \/ d.vw[x].mn[y] = "used")
  <1>. DEFINE s == "used"
  <1>0. s \in {"none", "idle", "used"} /\ s = "used"  OBVIOUS
  <1>00. \A x \in Views : Spare(d, x) \in Int  BY Parts
  <1>. HIDE DEF s
  <1>1. CASE d.vw[v].mn[m] = "none"
    <2>. DEFINE h == Hold(d, v)  e == SetNode(h, v, m, s)
    <2>1. /\ h \in DirType /\ h.slot = d.slot /\ h.exp = d.exp
          /\ \A x \in Views : Spare(h, x) = Spare(d, x) + One(x = v) /\ h.vw[x].mn = d.vw[x].mn
          /\ \A x \in Views : h.vw[x].id = d.vw[x].id
      BY HoldIn
    <2>. HIDE DEF h
    <2>2. NodeMoves(h, e, v, m, s)  BY <1>0, <2>1, NodeIn
    <2>3. Activate(d, v, m) = e  BY <1>0, <1>1 DEF Activate, SetNode, h
    <2>. HIDE DEF e
    <2>4. \A x \in Views : Spare(e, x) = Spare(d, x)  BY <1>0, <1>00, <1>1, <2>1, <2>2 DEF One, NodeMoves
    <2>5. \A x \in Views, y \in Vobs : (e.vw[x].mn[y] = "used") = ((x = v /\ y = m) \/ d.vw[x].mn[y] = "used")
      BY <1>0, <2>1, <2>2 DEF NodeMoves
    <2>6. \A x \in Views : e.vw[x].id = d.vw[x].id  BY <2>1, <2>2 DEF NodeMoves
    <2>. QED  BY <2>1, <2>2, <2>3, <2>4, <2>5, <2>6 DEF NodeMoves
  <1>2. CASE d.vw[v].mn[m] # "none"
    <2>. DEFINE e == SetNode(d, v, m, s)
    <2>2. NodeMoves(d, e, v, m, s)  BY <1>0, NodeIn
    <2>3. Activate(d, v, m) = e  BY <1>0, <1>2 DEF Activate, SetNode
    <2>. HIDE DEF e
    <2>4. \A x \in Views : Spare(e, x) = Spare(d, x)  BY <1>0, <1>00, <1>2, <2>2 DEF One, NodeMoves
    <2>5. \A x \in Views, y \in Vobs : (e.vw[x].mn[y] = "used") = ((x = v /\ y = m) \/ d.vw[x].mn[y] = "used")
      BY <1>0, <2>2 DEF NodeMoves
    <2>. QED  BY <2>2, <2>3, <2>4, <2>5 DEF NodeMoves
  <1>. QED  BY <1>1, <1>2

\* The last user of mnode m of view v leaves.
LEMMA LeaveIn ==
  ASSUME work \in Workloads, NEW d \in DirType, NEW t \in Threads, NEW v \in Views, NEW m \in Vobs,
         proc[t].cwd = [vw |-> v, vob |-> m], Using(v, m) = {t},
         d.vw[v].mn[m] = "used", Spare(d, v) >= 0
  PROVE  LET e == Leave(d, t)
         IN  /\ e \in DirType /\ e.slot = d.slot /\ e.exp = d.exp
             /\ \A x \in Views : e.vw[x].id \in {0, d.vw[x].id} /\ Spare(e, x) = Spare(d, x)
             /\ \A x \in Views, y \in Vobs :
                  (e.vw[x].mn[y] = "used") = (d.vw[x].mn[y] = "used" /\ ~(x = v /\ y = m))
  <1>0. v # Null /\ m # Null  BY Consts
  <1>00. \A x \in Views : Spare(d, x) \in Int  BY Parts
  <1>1. CASE d.vw[v].id = 0
    <2>. DEFINE s == "none"  h == SetNode(d, v, m, s)  e == Rele(h, v)
    <2>0. s \in {"none", "idle", "used"} /\ s = "none"  OBVIOUS
    <2>. HIDE DEF s
    <2>1. NodeMoves(d, h, v, m, s)  BY <2>0, NodeIn
    <2>2. Leave(d, t) = e  BY <1>0, <1>1, <2>0 DEF Leave, SetNode, NodeMoves
    <2>. HIDE DEF h
    <2>3. \A x \in Views : Spare(h, x) = Spare(d, x) + One(x = v)  BY <1>00, <2>0, <2>1 DEF One, NodeMoves
    <2>4. Spare(h, v) >= 1  BY <1>00, <2>3 DEF One
    <2>5. /\ e \in DirType /\ e.slot = h.slot /\ e.exp = h.exp /\ Kept(h, e)
          /\ \A x \in Views : Spare(e, x) = Spare(h, x) - One(x = v)
      BY <2>1, <2>4, ReleIn DEF NodeMoves
    <2>. HIDE DEF e
    <2>6. \A x \in Views : Spare(e, x) = Spare(d, x)  BY <1>00, <2>3, <2>5 DEF One
    <2>7. \A x \in Views, y \in Vobs : (e.vw[x].mn[y] = "used") = (d.vw[x].mn[y] = "used" /\ ~(x = v /\ y = m))
      BY <2>0, <2>1, <2>5 DEF Kept, NodeMoves
    <2>8. \A x \in Views : e.vw[x].id \in {0, d.vw[x].id}  BY <2>1, <2>5 DEF Kept, NodeMoves
    <2>. QED  BY <2>1, <2>2, <2>5, <2>6, <2>7, <2>8 DEF NodeMoves
  <1>2. CASE d.vw[v].id # 0
    <2>. DEFINE s == "idle"  e == SetNode(d, v, m, s)
    <2>0. s \in {"none", "idle", "used"} /\ s = "idle"  OBVIOUS
    <2>. HIDE DEF s
    <2>1. NodeMoves(d, e, v, m, s)  BY <2>0, NodeIn
    <2>2. Leave(d, t) = e  BY <1>0, <1>2, <2>0 DEF Leave, SetNode, NodeMoves
    <2>. HIDE DEF e
    <2>3. \A x \in Views : Spare(e, x) = Spare(d, x)  BY <1>00, <2>0, <2>1 DEF One, NodeMoves
    <2>4. \A x \in Views, y \in Vobs : (e.vw[x].mn[y] = "used") = (d.vw[x].mn[y] = "used" /\ ~(x = v /\ y = m))
      BY <2>0, <2>1 DEF NodeMoves
    <2>. QED  BY <2>1, <2>2, <2>3, <2>4 DEF NodeMoves
  <1>. QED  BY <1>1, <1>2

-----------------------------------------------------------------------------
(* A step of one thread.                                                   *)

\* Only t changes what it holds; an id may be taken off what the others call dead.
Others(t) ==
  /\ Functions'
  /\ \A u \in Threads \ {t} :
       /\ pc'[u] = pc[u] /\ proc'[u] = proc[u]
       /\ loc'[u].dead \subseteq loc[u].dead
       /\ \A f \in {"op", "tag", "uuid", "vw", "base", "ex", "vob", "fh", "num", "off", "hm"} :
            loc'[u][f] = loc[u][f]

LEMMA TakenMoves ==
  ASSUME ViewsInv, NEW t \in Threads, Others(t), NEW v \in Views
  PROVE  /\ Taken(v) \in Nat /\ Taken(v)' \in Nat
         /\ Taken(v)' = Taken(v) + Share(pc[t], loc[t], proc[t], v)' - Share(pc[t], loc[t], proc[t], v)
         /\ Taken(v) >= Share(pc[t], loc[t], proc[t], v)
  <1>. DEFINE A == Setting(v)  B == InTag(v)  C == Working(v)  D == Basing(v)
              a == Setting(v)'  b == InTag(v)'  c == Working(v)'  e == Basing(v)'
  <1>1. \A u \in Threads \ {t} : loc'[u].vw = loc[u].vw /\ loc'[u].base = loc[u].base
    BY DEF Others
  <1>2. \A u : u # t => /\ (u \in A) = (u \in a) /\ (u \in B) = (u \in b)
                        /\ (u \in C) = (u \in c) /\ (u \in D) = (u \in e)
    BY <1>1 DEF Others, Setting, InTag, Working, Basing
  <1>3. IsFiniteSet(A) /\ IsFiniteSet(B) /\ IsFiniteSet(C) /\ IsFiniteSet(D)
    <2>1. IsFiniteSet(Threads)  BY Consts DEF ViewsInv
    <2>. QED  BY <2>1, FS_Subset DEF Setting, InTag, Working, Basing
  <1>4. /\ (t \in A) = (proc[t].view = v) /\ (t \in B) = (proc[t].cwd = [vw |-> v, vob |-> Null])
        /\ (t \in C) = (loc[t].vw = v /\ pc[t] \notin After) /\ (t \in D) = (loc[t].base = v)
        /\ (t \in a) = (proc'[t].view = v) /\ (t \in b) = (proc'[t].cwd = [vw |-> v, vob |-> Null])
        /\ (t \in c) = (loc'[t].vw = v /\ pc'[t] \notin After) /\ (t \in e) = (loc'[t].base = v)
    BY DEF Setting, InTag, Working, Basing
  <1>5. Taken(v) = Cardinality(A) + Cardinality(B) + Cardinality(C) + Cardinality(D)  BY DEF Taken
  <1>6. Taken(v)' = Cardinality(a) + Cardinality(b) + Cardinality(c) + Cardinality(e)  BY DEF Taken
  <1>7. Share(pc[t], loc[t], proc[t], v) = One(t \in A) + One(t \in B) + One(t \in C) + One(t \in D)
    BY <1>4 DEF Share
  <1>8. Share(pc[t], loc[t], proc[t], v)' = One(t \in a) + One(t \in b) + One(t \in c) + One(t \in e)
    BY <1>4 DEF Share, One
  <1>. HIDE DEF A, B, C, D, a, b, c, e
  <1>9. Cardinality(A) \in Nat /\ Cardinality(a) \in Nat /\ Cardinality(a) = Cardinality(A) + One(t \in a) - One(t \in A)
    BY <1>2, <1>3, OneMoves
  <1>10. Cardinality(B) \in Nat /\ Cardinality(b) \in Nat /\ Cardinality(b) = Cardinality(B) + One(t \in b) - One(t \in B)
    BY <1>2, <1>3, OneMoves
  <1>11. Cardinality(C) \in Nat /\ Cardinality(c) \in Nat /\ Cardinality(c) = Cardinality(C) + One(t \in c) - One(t \in C)
    BY <1>2, <1>3, OneMoves
  <1>12. Cardinality(D) \in Nat /\ Cardinality(e) \in Nat /\ Cardinality(e) = Cardinality(D) + One(t \in e) - One(t \in D)
    BY <1>2, <1>3, OneMoves
  <1>13. \A x \in BOOLEAN : One(x) \in {0, 1}  BY DEF One
  <1>14. /\ One(t \in A) <= Cardinality(A) /\ One(t \in B) <= Cardinality(B)
         /\ One(t \in C) <= Cardinality(C) /\ One(t \in D) <= Cardinality(D)
    BY <1>3, <1>9, <1>10, <1>11, <1>12, FS_EmptySet DEF One
  <1>15. One(t \in A) \in {0, 1} /\ One(t \in B) \in {0, 1} /\ One(t \in C) \in {0, 1} /\ One(t \in D) \in {0, 1}
         /\ One(t \in a) \in {0, 1} /\ One(t \in b) \in {0, 1} /\ One(t \in c) \in {0, 1} /\ One(t \in e) \in {0, 1}
    BY DEF One
  <1>. QED  BY <1>5, <1>6, <1>7, <1>8, <1>9, <1>10, <1>11, <1>12, <1>14, <1>15

\* What the invariant says of thread t; the view spares what t holds.
LEMMA Facts ==
  ASSUME ViewsInv, NEW t \in Threads
  PROVE  /\ work \in Workloads /\ dir \in DirType /\ ThreadAt(pc[t], loc[t], proc[t])
         /\ \A v \in Views : /\ Spare(dir, v) \in Int /\ Spare(dir, v) = Taken(v) /\ Spare(dir, v) >= 0
                             /\ Spare(dir, v) >= Share(pc[t], loc[t], proc[t], v)
  <1>1. work \in Workloads /\ dir \in DirType /\ ThreadAt(pc[t], loc[t], proc[t])  BY DEF ViewsInv
  <1>. SUFFICES ASSUME NEW v \in Views
       PROVE  /\ Spare(dir, v) \in Int /\ Spare(dir, v) = Taken(v) /\ Spare(dir, v) >= 0
              /\ Spare(dir, v) >= Share(pc[t], loc[t], proc[t], v)
    BY <1>1
  <1>2. Spare(dir, v) \in Int  BY <1>1, Parts
  <1>3. Spare(dir, v) = Taken(v)  BY DEF ViewsInv, Counts
  <1>. DEFINE A == Setting(v)  B == InTag(v)  C == Working(v)  D == Basing(v)
  <1>4. IsFiniteSet(A) /\ IsFiniteSet(B) /\ IsFiniteSet(C) /\ IsFiniteSet(D)
    <2>1. IsFiniteSet(Threads)  BY <1>1, Consts
    <2>. QED  BY <2>1, FS_Subset DEF Setting, InTag, Working, Basing
  <1>5. Share(pc[t], loc[t], proc[t], v) = One(t \in A) + One(t \in B) + One(t \in C) + One(t \in D)
    BY DEF Share, Setting, InTag, Working, Basing
  <1>6. Taken(v) = Cardinality(A) + Cardinality(B) + Cardinality(C) + Cardinality(D)  BY DEF Taken
  <1>. HIDE DEF A, B, C, D
  <1>7. /\ Cardinality(A) \in Nat /\ Cardinality(B) \in Nat /\ Cardinality(C) \in Nat /\ Cardinality(D) \in Nat
    BY <1>4, FS_CardinalityType
  <1>8. /\ One(t \in A) <= Cardinality(A) /\ One(t \in B) <= Cardinality(B)
        /\ One(t \in C) <= Cardinality(C) /\ One(t \in D) <= Cardinality(D)
    BY <1>4, <1>7, FS_EmptySet DEF One
  <1>9. One(t \in A) \in {0, 1} /\ One(t \in B) \in {0, 1} /\ One(t \in C) \in {0, 1} /\ One(t \in D) \in {0, 1}
    BY DEF One
  <1>. QED  BY <1>2, <1>3, <1>5, <1>6, <1>7, <1>8, <1>9

LEMMA GotoOthers ==
  ASSUME ViewsInv, NEW t \in Threads, NEW p \in Before \cup Within \cup After, NEW l \in LocType, Goto(t, p, l),
         proc' \in [Threads -> ProcType], \A u \in Threads \ {t} : proc'[u] = proc[u]
  PROVE  Others(t) /\ pc'[t] = p /\ loc'[t] = IF p = "idle" THEN NoLoc ELSE l
  <1>1. NoLoc \in LocType  BY DEF NoLoc, LocType
  <1>2. pc' = [pc EXCEPT ![t] = p] /\ loc' = [loc EXCEPT ![t] = IF p = "idle" THEN NoLoc ELSE l]  BY DEF Goto
  <1>3. pc \in [Threads -> Before \cup Within \cup After] /\ loc \in [Threads -> LocType]
    BY DEF ViewsInv, Functions
  <1>. QED  BY <1>1, <1>2, <1>3 DEF Others, Functions

LEMMA Moved ==
  ASSUME ViewsInv, NEW t \in Threads, work' = work, fhs' \subseteq Handles, Others(t), dir' \in DirType,
         ThreadAt(pc'[t], loc'[t], proc'[t]),
         \A v \in Views : Spare(dir', v) = Spare(dir, v) + Share(pc'[t], loc'[t], proc'[t], v)
                                                         - Share(pc[t], loc[t], proc[t], v),
         Nodes(dir)', DeadGone(dir)', pc'[t] \in {"ask", "bound"} => loc'[t].vw \notin loc'[t].dead
  PROVE  ViewsInv'
  <1>1. (work \in Workloads /\ fhs \subseteq Handles /\ dir \in DirType)'  BY DEF ViewsInv, DirType, Slots
  <1>2. Functions'  BY DEF Others
  <1>3. ASSUME NEW u \in Threads
        PROVE  /\ ThreadAt(pc'[u], loc'[u], proc'[u])
               /\ pc'[u] = "ask" => loc'[u].vw \notin loc'[u].dead
               /\ pc'[u] = "bound" => loc'[u].vw \notin loc'[u].dead
    <2>1. CASE u = t  BY <2>1
    <2>2. CASE u # t
      <3>. DEFINE l == loc[u]  k == loc'[u]
      <3>1. ThreadAt(pc[u], l, proc[u])  BY DEF ViewsInv
      <3>2. pc'[u] = pc[u] /\ proc'[u] = proc[u] /\ k \in LocType /\ l \in LocType /\ k.dead \subseteq l.dead
            /\ k.op = l.op /\ k.tag = l.tag /\ k.uuid = l.uuid /\ k.vw = l.vw /\ k.base = l.base /\ k.ex = l.ex
            /\ k.vob = l.vob /\ k.fh = l.fh /\ k.num = l.num /\ k.off = l.off /\ k.hm = l.hm
        BY <2>2 DEF Others, Functions, ViewsInv
      <3>3. /\ pc[u] = "ask" => l.vw \notin l.dead
            /\ pc[u] = "bound" => l.vw \notin l.dead
        BY DEF ViewsInv
      <3>. HIDE DEF l, k
      <3>4. l = NoLoc => k = NoLoc
        <4>1. k = [op |-> k.op, tag |-> k.tag, uuid |-> k.uuid, vw |-> k.vw, base |-> k.base, ex |-> k.ex,
                   vob |-> k.vob, fh |-> k.fh, num |-> k.num, dead |-> k.dead, off |-> k.off,
                   hm |-> k.hm]
          BY <3>2 DEF LocType
        <4>2. ASSUME l = NoLoc
              PROVE  /\ k.op = Null /\ k.tag = Null /\ k.uuid = Null /\ k.vw = Null /\ k.base = Null /\ k.ex = 0
                     /\ k.vob = Null /\ k.fh = Null /\ k.num = 0 /\ k.dead = {} /\ k.off = 0
                     /\ k.hm = FALSE
          BY <3>2, <4>2 DEF NoLoc
        <4>. QED  BY <4>1, <4>2 DEF NoLoc
      <3>5. ThreadAt(pc[u], k, proc[u])  BY <3>1, <3>2, <3>4 DEF ThreadAt
      <3>. QED  BY <3>2, <3>3, <3>5 DEF k, l
    <2>. QED  BY <2>1, <2>2
  <1>4. ASSUME NEW v \in Views PROVE Spare(dir, v)' = Taken(v)'
    <2>1. Spare(dir, v)' = Spare(dir', v)  BY DEF Spare, InSlots, Slots
    <2>2. Taken(v)' = Taken(v) + Share(pc'[t], loc'[t], proc'[t], v) - Share(pc[t], loc[t], proc[t], v)
      BY TakenMoves DEF Share
    <2>3. Spare(dir, v) = Taken(v)  BY DEF ViewsInv, Counts
    <2>. QED  BY <2>1, <2>2, <2>3
  <1>. QED  BY <1>1, <1>2, <1>3, <1>4 DEF ViewsInv, Counts

\* A step that leaves the mnodes in use and the ids as they are, or loses them.
LEMMA Walked ==
  ASSUME ViewsInv, NEW t \in Threads, work' = work, fhs' = fhs, Others(t), dir' \in DirType, Kept(dir, dir'),
         ThreadAt(pc'[t], loc'[t], proc'[t]),
         \A v \in Views : Spare(dir', v) = Spare(dir, v) + Share(pc'[t], loc'[t], proc'[t], v)
                                                         - Share(pc[t], loc[t], proc[t], v),
         proc'[t].cwd = proc[t].cwd \/ (proc'[t].cwd.vob = Null /\ proc[t].cwd.vob = Null),
         loc'[t].dead \subseteq loc[t].dead,
         pc'[t] \in {"ask", "bound"} => loc'[t].vw \notin loc'[t].dead
  PROVE  ViewsInv'
  <1>1. Nodes(dir)'
    <2>. SUFFICES ASSUME NEW v \in Views, NEW m \in Vobs
         PROVE  (dir'.vw[v].mn[m] = "used") = (Using(v, m)' # {})
      BY DEF Nodes
    <2>1. (dir.vw[v].mn[m] = "used") = (Using(v, m) # {})  BY DEF ViewsInv, Nodes
    <2>2. (dir'.vw[v].mn[m] = "used") = (dir.vw[v].mn[m] = "used")  BY DEF Kept
    <2>3. m # Null  BY Consts DEF ViewsInv
    <2>4. \A u \in Threads : (u \in Using(v, m)') = (u \in Using(v, m))  BY <2>3 DEF Using, Others
    <2>5. Using(v, m)' = Using(v, m)  BY <2>4 DEF Using
    <2>. QED  BY <2>1, <2>2, <2>5
  <1>2. DeadGone(dir)'
    <2>. SUFFICES ASSUME NEW u \in Threads, NEW v \in loc'[u].dead PROVE dir'.vw[v].id = 0
      BY DEF DeadGone
    <2>1. v \in loc[u].dead  BY DEF Others
    <2>2. v \in Views  BY <2>1 DEF ViewsInv, Functions, LocType
    <2>3. dir.vw[v].id = 0  BY <2>1 DEF ViewsInv, DeadGone
    <2>. QED  BY <2>2, <2>3 DEF Kept
  <1>3. fhs' \subseteq Handles  BY DEF ViewsInv
  <1>. QED  BY <1>1, <1>2, <1>3, Moved

-----------------------------------------------------------------------------
(* Every action keeps the invariant.                                       *)

LEMMA ReturnIn ==
  ASSUME ViewsInv, NEW t \in Threads, Return(t), proc' \in [Threads -> ProcType],
         \A u \in Threads \ {t} : proc'[u] = proc[u]
  PROVE  Others(t) /\ pc'[t] = "idle" /\ loc'[t] = NoLoc
  <1>. DEFINE p == "idle"
  <1>1. p \in Before \cup Within \cup After /\ p = "idle"  BY DEF Before
  <1>2. NoLoc \in LocType  BY DEF NoLoc, LocType
  <1>3. Goto(t, p, NoLoc)  BY DEF Return
  <1>. HIDE DEF p
  <1>. QED  BY <1>1, <1>2, <1>3, GotoOthers

\* A thread that is idle, and remembers nothing
LEMMA IdleAt ==
  ASSUME work \in Workloads, NEW q \in ProcType
  PROVE  ThreadAt("idle", NoLoc, q)
  <1>1. NoLoc \in LocType  BY DEF NoLoc, LocType
  <1>2. NoLoc.vw = Null /\ NoLoc.base = Null /\ NoLoc.op = Null  BY DEF NoLoc
  <1>. QED  BY <1>1, <1>2, Consts DEF ThreadAt, Before, Within, After, Making

LEMMA ProcSame == ViewsInv => proc \in [Threads -> ProcType] /\ loc \in [Threads -> LocType]
                              /\ \A t \in Threads : proc[t] \in ProcType /\ loc[t] \in LocType
  BY DEF ViewsInv, Functions

LEMMA Held ==
  ASSUME ViewsInv, NEW t \in Threads
  PROVE  /\ pc[t] \in Within => loc[t].vw \in Views /\ Spare(dir, loc[t].vw) >= 1
         /\ pc[t] \in Before => loc[t].vw = Null
         /\ pc[t] \in Making => loc[t].base \in Views /\ Spare(dir, loc[t].base) >= 1
                                /\ (pc[t] \in Within /\ loc[t].base = loc[t].vw => Spare(dir, loc[t].base) >= 2)
         /\ pc[t] \notin Making => loc[t].base = Null
         /\ proc[t].view # Null => proc[t].view \in Views /\ Spare(dir, proc[t].view) >= 1
         /\ proc[t].cwd.vw # Null => proc[t].cwd.vw \in Views
         /\ proc[t].cwd.vw # Null /\ proc[t].cwd.vob = Null => Spare(dir, proc[t].cwd.vw) >= 1
  <1>1. /\ work \in Workloads /\ ThreadAt(pc[t], loc[t], proc[t])
        /\ \A v \in Views : /\ Spare(dir, v) \in Int /\ Spare(dir, v) >= Share(pc[t], loc[t], proc[t], v)
    BY Facts
  <1>2. Within \cap Before = {} /\ After \cap Before = {} /\ Within \cap After = {}
    BY DEF Within, After, Before
  <1>3. /\ pc[t] \in Within => loc[t].vw \in Views
        /\ pc[t] \in Before => loc[t].vw = Null
        /\ pc[t] \in Making => loc[t].base \in Views
        /\ pc[t] \notin Making => loc[t].base = Null
        /\ proc[t].view # Null => proc[t].view \in Views
        /\ proc[t].cwd.vw # Null => proc[t].cwd.vw \in Views
    BY <1>1, <1>2 DEF ThreadAt, LocType, ProcType, CwdType
  <1>0. ASSUME NEW v \in Views
        PROVE  /\ Spare(dir, v) \in Int
               /\ proc[t].view = v => Spare(dir, v) >= 1
               /\ proc[t].cwd = [vw |-> v, vob |-> Null] => Spare(dir, v) >= 1
               /\ loc[t].vw = v /\ pc[t] \notin After => Spare(dir, v) >= 1
               /\ loc[t].base = v => Spare(dir, v) >= 1
               /\ loc[t].vw = v /\ pc[t] \notin After /\ loc[t].base = v => Spare(dir, v) >= 2
    <2>. DEFINE s == Spare(dir, v)
    <2>1. s \in Int /\ s >= Share(pc[t], loc[t], proc[t], v)  BY <1>1
    <2>. HIDE DEF s
    <2>. QED  BY <2>1 DEF Share, One, s
  <1>4. pc[t] \in Within => Spare(dir, loc[t].vw) >= 1  BY <1>0, <1>2, <1>3
  <1>5. pc[t] \in Making => /\ Spare(dir, loc[t].base) >= 1
                            /\ (pc[t] \in Within /\ loc[t].base = loc[t].vw => Spare(dir, loc[t].base) >= 2)
    BY <1>0, <1>2, <1>3
  <1>6. proc[t].view # Null => Spare(dir, proc[t].view) >= 1  BY <1>0, <1>3
  <1>7. proc[t].cwd.vw # Null /\ proc[t].cwd.vob = Null => Spare(dir, proc[t].cwd.vw) >= 1
    <2>1. proc[t].cwd.vob = Null => proc[t].cwd = [vw |-> proc[t].cwd.vw, vob |-> Null]
      BY <1>1 DEF ThreadAt, ProcType, CwdType
    <2>. QED  BY <1>0, <1>3, <2>1
  <1>. QED  BY <1>3, <1>4, <1>5, <1>6, <1>7

\* An operation ends, and gives up what it holds.
LEMMA Ended ==
  ASSUME ViewsInv, NEW t \in Threads, work' = work, fhs' = fhs, proc' = proc, Return(t),
         dir' \in DirType, Kept(dir, dir'),
         \A x \in Views : Spare(dir', x) = Spare(dir, x) - One(loc[t].vw = x /\ pc[t] \notin After) - One(loc[t].base = x)
  PROVE  ViewsInv'
  <1>1. /\ work \in Workloads /\ \A v \in Views : Spare(dir, v) \in Int
    BY Facts
  <1>4. Others(t) /\ pc'[t] = "idle" /\ loc'[t] = NoLoc  BY ProcSame, ReturnIn
  <1>5. ThreadAt(pc'[t], loc'[t], proc'[t])  BY <1>1, <1>4, ProcSame, IdleAt
  <1>6. \A x \in Views : Spare(dir', x) = Spare(dir, x) + Share(pc'[t], loc'[t], proc'[t], x)
                                                        - Share(pc[t], loc[t], proc[t], x)
    <2>. SUFFICES ASSUME NEW x \in Views
         PROVE  Spare(dir', x) = Spare(dir, x) + Share(pc'[t], loc'[t], proc'[t], x)
                                               - Share(pc[t], loc[t], proc[t], x)
      OBVIOUS
    <2>1. loc'[t].vw # x /\ loc'[t].base # x  BY <1>1, <1>4, Consts DEF NoLoc
    <2>. QED  BY <1>1, <2>1 DEF Share, One
  <1>10. loc'[t].dead \subseteq loc[t].dead /\ pc'[t] \notin {"ask", "bound"}  BY <1>4 DEF NoLoc
  <1>11. proc'[t].cwd = proc[t].cwd  OBVIOUS
  <1>. QED  BY <1>4, <1>5, <1>6, <1>10, <1>11, Walked

\* An operation goes on at p with l.
LEMMA GoesOn ==
  ASSUME ViewsInv, NEW t \in Threads, work' = work, fhs' = fhs, proc' = proc,
         NEW p \in Before \cup Within, NEW l \in LocType, p # "idle", Goto(t, p, l),
         dir' \in DirType, Kept(dir, dir'), ThreadAt(p, l, proc[t]), pc[t] \notin After,
         \A x \in Views : Spare(dir', x) = Spare(dir, x) - One(loc[t].vw = x) - One(loc[t].base = x)
                                                         + One(l.vw = x) + One(l.base = x),
         l.dead \subseteq loc[t].dead, p = "ask" => l.vw \notin l.dead
  PROVE  ViewsInv'
  <1>1. /\ work \in Workloads /\ \A v \in Views : Spare(dir, v) \in Int
    BY Facts
  <1>2. p \in Before \cup Within \cup After  OBVIOUS
  <1>3. p \notin After  BY DEF Before, Within, After
  <1>4. Others(t) /\ pc'[t] = p /\ loc'[t] = l  BY <1>2, ProcSame, GotoOthers
  <1>5. ThreadAt(pc'[t], loc'[t], proc'[t])  BY <1>4
  <1>6. \A x \in Views : Spare(dir', x) = Spare(dir, x) + Share(pc'[t], loc'[t], proc'[t], x)
                                                        - Share(pc[t], loc[t], proc[t], x)
    BY <1>1, <1>3, <1>4 DEF Share, One
  <1>10. loc'[t].dead \subseteq loc[t].dead /\ (pc'[t] \in {"ask", "bound"} => loc'[t].vw \notin loc'[t].dead)
    BY <1>3, <1>4 DEF After
  <1>11. proc'[t].cwd = proc[t].cwd  OBVIOUS
  <1>. QED  BY <1>4, <1>5, <1>6, <1>10, <1>11, Walked

LEMMA MkFoundKeeps ==
  ASSUME ViewsInv, NEW t \in Threads, MkFound(t) PROVE ViewsInv'
  <1>1. pc[t] = "mk" /\ work' = work /\ fhs' = fhs /\ proc' = proc /\ dir' = dir /\ Return(t)
    BY DEF MkFound, Mk, Step, Same, Stay
  <1>2. loc[t].vw = Null /\ loc[t].base = Null  BY <1>1, Held DEF Before, Making
  <1>3. work \in Workloads /\ dir \in DirType /\ \A x \in Views : Spare(dir, x) \in Int  BY Facts
  <1>4. \A x \in Views : Spare(dir', x) = Spare(dir, x) - One(loc[t].vw = x /\ pc[t] \notin After) - One(loc[t].base = x)
    BY <1>1, <1>2, <1>3, Consts DEF One
  <1>5. dir' \in DirType /\ Kept(dir, dir')  BY <1>1, <1>3 DEF Kept
  <1>. QED  BY <1>1, <1>4, <1>5, Ended

LEMMA MkFillKeeps ==
  ASSUME ViewsInv, NEW t \in Threads, MkFill(t) PROVE ViewsInv'
  <1>. DEFINE v == loc[t].vw  w == [dir.vw[v] EXCEPT !.uuid = loc[t].uuid, !.full = TRUE]
              d == [dir EXCEPT !.vw[v] = w]
  <1>1. pc[t] = "mkfill" /\ work' = work /\ fhs' = fhs /\ proc' = proc /\ Return(t) /\ dir' = Rele(d, v)
    BY DEF MkFill, Step, Same, Stay
  <1>2. v \in Views /\ Spare(dir, v) >= 1 /\ loc[t].vw = v /\ loc[t].base = Null
    BY <1>1, Held DEF Within, Making
  <1>. HIDE DEF v
  <1>3. work \in Workloads /\ dir \in DirType /\ \A x \in Views : Spare(dir, x) \in Int  BY Facts
  <1>4. dir.vw[v] \in ViewType /\ loc[t].uuid \in Uuids \cup {Null}  BY <1>2, <1>3, Parts, ProcSame DEF LocType
  <1>5. w \in ViewType /\ w.cnt = dir.vw[v].cnt /\ w.mn = dir.vw[v].mn /\ w.id = dir.vw[v].id  BY <1>4 DEF ViewType
  <1>. HIDE DEF w
  <1>6. d \in DirType /\ Kept(dir, d) /\ \A x \in Views : Spare(d, x) = Spare(dir, x)
    BY <1>2, <1>3, <1>5, Noted
  <1>. HIDE DEF d
  <1>7. dir' \in DirType /\ Kept(d, dir') /\ \A x \in Views : Spare(dir', x) = Spare(d, x) - One(x = v)
    BY <1>1, <1>2, <1>3, <1>6, ReleIn
  <1>8. \A x \in Views : Spare(dir', x) = Spare(dir, x) - One(loc[t].vw = x /\ pc[t] \notin After) - One(loc[t].base = x)
    BY <1>1, <1>2, <1>3, <1>6, <1>7, Consts DEF One, After
  <1>9. Kept(dir, dir')  BY <1>6, <1>7 DEF Kept
  <1>. QED  BY <1>1, <1>7, <1>8, <1>9, Ended

\* An operation begins.
DeadNow == {v \in Views : dir.vw[v].cnt > 0 /\ dir.vw[v].id = 0}
LEMMA Begun ==
  ASSUME ViewsInv, NEW t \in Threads, NEW op, NEW p \in Before, NEW l \in LocType, p # "idle", Begin(t, op, p, l),
         l.vw = Null, l.base = Null, ThreadAt(p, [l EXCEPT !.op = op, !.dead = DeadNow], proc[t])
  PROVE  ViewsInv'
  <1>. DEFINE k == [l EXCEPT !.op = op, !.dead = DeadNow]
  <1>1. /\ work \in Workloads /\ dir \in DirType /\ \A x \in Views : Spare(dir, x) \in Int
    BY Facts
  <1>2. /\ pc[t] = "idle" /\ work' = work /\ fhs' = fhs /\ proc' = proc /\ dir' = dir /\ Goto(t, p, k)
    BY DEF Begin, DeadNow
  <1>3. k.vw = Null /\ k.base = Null /\ k.dead = DeadNow  BY DEF LocType
  <1>. HIDE DEF k
  <1>4. k \in LocType  BY DEF ThreadAt, k
  <1>5. p \in Before \cup Within \cup After  OBVIOUS
  <1>6. Others(t) /\ pc'[t] = p /\ loc'[t] = k  BY <1>2, <1>4, <1>5, ProcSame, GotoOthers
  <1>7. ThreadAt(pc'[t], loc'[t], proc'[t])  BY <1>2, <1>6 DEF k
  <1>8. loc[t].vw = Null /\ loc[t].base = Null  BY <1>2, Held DEF Before, Making
  <1>9. \A x \in Views : Spare(dir', x) = Spare(dir, x) + Share(pc'[t], loc'[t], proc'[t], x)
                                                        - Share(pc[t], loc[t], proc[t], x)
    <2>. SUFFICES ASSUME NEW x \in Views
         PROVE  Spare(dir', x) = Spare(dir, x) + Share(pc'[t], loc'[t], proc'[t], x)
                                               - Share(pc[t], loc[t], proc[t], x)
      OBVIOUS
    <2>1. x # Null  BY <1>1, Consts
    <2>. QED  BY <1>1, <1>2, <1>3, <1>6, <1>8, <2>1 DEF Share, One
  <1>10. Nodes(dir)'  BY <1>2 DEF ViewsInv, Nodes, Using
  <1>11. DeadGone(dir)'
    <2>. SUFFICES ASSUME NEW u \in Threads, NEW v \in loc'[u].dead PROVE dir.vw[v].id = 0
      BY <1>2 DEF DeadGone
    <2>1. CASE u = t  BY <1>3, <1>6, <2>1 DEF DeadNow
    <2>2. CASE u # t
      <3>1. v \in loc[u].dead  BY <1>6, <2>2 DEF Others
      <3>. QED  BY <3>1 DEF ViewsInv, DeadGone
    <2>. QED  BY <2>1, <2>2
  <1>12. pc'[t] \notin {"ask", "bound"}  BY <1>6 DEF Before
  <1>13. fhs' \subseteq Handles /\ dir' \in DirType  BY <1>1, <1>2 DEF ViewsInv
  <1>. QED  BY <1>2, <1>6, <1>7, <1>9, <1>10, <1>11, <1>12, <1>13, Moved

\* A thread may go on at p once its view is added.
Ready(p, t, v) == \A n \in Nat : ThreadAt(p, [loc[t] EXCEPT !.vw = v, !.num = n], proc[t])

\* mfs_ramdir_add takes effect, or the operation ends.
LEMMA Added ==
  ASSUME ViewsInv, NEW t \in Threads, work' = work, fhs' = fhs, proc' = proc, NEW d \in DirType, NEW v \in Views,
         NEW nm \in Nms, NEW p \in Within, Add(t, d, v, nm, p, loc[t]), Kept(dir, d), pc[t] \in {"mk", "hmnew"},
         \A x \in Views : Spare(d, x) = Spare(dir, x) + One(x = v), p # "ask",
         Ready(p, t, v)
  PROVE  ViewsInv'
  <1>1. /\ work \in Workloads /\ dir \in DirType /\ \A x \in Views : Spare(dir, x) \in Int /\ Spare(dir, x) >= 0
    BY Facts
  <1>2. loc[t].vw = Null /\ pc[t] \notin After /\ (loc[t].base # Null => loc[t].base \in Views /\ Spare(dir, loc[t].base) >= 1)
    BY Held DEF Before, After
  <1>3. CASE CanAdd(d, nm)
    <2>. DEFINE n == FreeSlot(d)  l == [loc[t] EXCEPT !.vw = v, !.num = n]
    <2>1. dir' = RamdirAdd(d, nm, v) /\ Goto(t, p, l)  BY <1>3 DEF Add
    <2>2. Present(d) # Slots  BY <1>3 DEF CanAdd
    <2>3. /\ dir' \in DirType /\ Kept(d, dir') /\ \A x \in Views : Spare(dir', x) = Spare(d, x)
      <3>. DEFINE e == RamdirAdd(d, nm, v)
      <3>1. /\ e \in DirType /\ e.exp = d.exp /\ Kept(d, e)
            /\ e.slot = [d.slot EXCEPT ![FreeSlot(d)] = [nm |-> nm, vw |-> v]]
            /\ \A x \in Views : Spare(e, x) = Spare(d, x) /\ e.vw[x].mn = d.vw[x].mn
            /\ \A x \in Views : e.vw[x].id = d.vw[x].id
        BY <1>1, <2>2, AddIn
      <3>. HIDE DEF e
      <3>. QED  BY <2>1, <3>1 DEF e
    <2>4. n \in Nat  BY <1>1, <2>2, FreeIn, Consts
    <2>. HIDE DEF n
    <2>50. loc[t] \in LocType  BY ProcSame
    <2>5. l \in LocType /\ l.vw = v /\ l.base = loc[t].base /\ l.dead = loc[t].dead  BY <2>4, <2>50 DEF LocType
    <2>6. ThreadAt(p, l, proc[t])  BY <2>4 DEF Ready
    <2>. HIDE DEF l
    <2>7. \A x \in Views : Spare(dir', x) = Spare(dir, x) - One(loc[t].vw = x) - One(loc[t].base = x)
                                                          + One(l.vw = x) + One(l.base = x)
      BY <1>1, <1>2, <2>3, <2>5, Consts DEF One
    <2>8. Kept(dir, dir')  BY <2>3 DEF Kept
    <2>9. p \in Before \cup Within /\ p # "idle"  BY DEF Within
    <2>. QED  BY <1>2, <2>1, <2>3, <2>5, <2>6, <2>7, <2>8, <2>9, GoesOn
  <1>4. CASE ~CanAdd(d, nm)
    <2>. DEFINE b == loc[t].base  e == Rele(d, v)
    <2>0. b # Null => b \in Views /\ Spare(dir, b) >= 1  BY <1>2
    <2>1. dir' = ReleIf(e, b) /\ Return(t)  BY <1>4 DEF Add
    <2>2. Spare(d, v) >= 1  BY <1>1 DEF One
    <2>3. /\ e \in DirType /\ Kept(d, e) /\ \A x \in Views : Spare(e, x) = Spare(d, x) - One(x = v)
      BY <1>1, <2>2, ReleIn
    <2>. HIDE DEF e
    <2>4. \A x \in Views : Spare(e, x) = Spare(dir, x)  BY <1>1, <2>3 DEF One
    <2>5. b = loc[t].base  OBVIOUS
    <2>. HIDE DEF b
    <2>6. dir' \in DirType /\ Kept(e, dir') /\ \A x \in Views : Spare(dir', x) = Spare(e, x) - One(b = x)
      <3>1. CASE b = Null
        <4>1. dir' = e  BY <2>1, <3>1 DEF ReleIf
        <4>. QED  BY <1>1, <2>3, <2>4, <3>1, <4>1, Consts DEF Kept, One
      <3>2. CASE b # Null
        <4>1. dir' = Rele(e, b) /\ b \in Views /\ Spare(e, b) >= 1  BY <2>0, <2>1, <2>4, <3>2 DEF ReleIf
        <4>2. dir' \in DirType /\ Kept(e, dir') /\ \A x \in Views : Spare(dir', x) = Spare(e, x) - One(x = b)
          BY <1>1, <2>3, <4>1, ReleIn
        <4>. QED  BY <4>2 DEF One
      <3>. QED  BY <3>1, <3>2
    <2>7. \A x \in Views : Spare(dir', x) = Spare(dir, x) - One(loc[t].vw = x /\ pc[t] \notin After) - One(loc[t].base = x)
      BY <1>1, <1>2, <2>4, <2>5, <2>6, Consts DEF One
    <2>8. Kept(dir, dir')  BY <2>3, <2>6 DEF Kept
    <2>. QED  BY <2>1, <2>6, <2>7, <2>8, Ended
  <1>. QED  BY <1>3, <1>4

LEMMA Done ==
  ASSUME ViewsInv, NEW t \in Threads, work' = work, fhs' = fhs, proc' = proc, RmDone(t), pc[t] \in {"rm", "rmid"},
         dir' \in DirType, Kept(dir, dir'), \A x \in Views : Spare(dir', x) = Spare(dir, x) - One(loc[t].vw = x)
  PROVE  ViewsInv'
  <1>1. /\ work \in Workloads /\ ThreadAt(pc[t], loc[t], proc[t]) /\ \A x \in Views : Spare(dir, x) \in Int
    BY Facts
  <1>2. pc[t] \notin After /\ loc[t].base = Null  BY Held DEF After, Making
  <1>3. CASE loc[t].op = "rmall"
    <2>. DEFINE p == "rmall"  l == [loc[t] EXCEPT !.tag = Null, !.vw = Null, !.hm = FALSE]
    <2>1. p \in Before \cup Within /\ p = "rmall"  BY DEF Before
    <2>. HIDE DEF p
    <2>2. l \in LocType /\ l.vw = Null /\ l.base = loc[t].base /\ l.dead = loc[t].dead /\ l.op = loc[t].op
      <3>1. loc[t] \in LocType  BY ProcSame
      <3>. QED  BY <3>1 DEF LocType
    <2>3. Goto(t, p, l)  BY <1>3, <2>1 DEF RmDone
    <2>. HIDE DEF l
    <2>4. ThreadAt(p, l, proc[t])
      BY <1>1, <1>2, <1>3, <2>1, <2>2, ProcSame DEF ThreadAt, Before, Within, After, Making
    <2>5. \A x \in Views : Spare(dir', x) = Spare(dir, x) - One(loc[t].vw = x) - One(loc[t].base = x)
                                                          + One(l.vw = x) + One(l.base = x)
      BY <1>1, <1>2, <2>2, Consts DEF One
    <2>. QED  BY <1>2, <2>1, <2>2, <2>3, <2>4, <2>5, GoesOn
  <1>4. CASE loc[t].op # "rmall"
    <2>1. Return(t)  BY <1>4 DEF RmDone
    <2>2. \A x \in Views : Spare(dir', x) = Spare(dir, x) - One(loc[t].vw = x /\ pc[t] \notin After) - One(loc[t].base = x)
      BY <1>1, <1>2, Consts DEF One
    <2>. QED  BY <2>1, <2>2, Ended
  <1>. QED  BY <1>3, <1>4

LEMMA MkStartKeeps ==
  ASSUME ViewsInv, NEW t \in Threads, MkStart(t) PROVE ViewsInv'
  <1>1. PICK g \in Tags, u \in Uuids : Begin(t, "mk", "mk", [NoLoc EXCEPT !.tag = g, !.uuid = u])  BY DEF MkStart
  <1>. DEFINE p == "mk"  l == [NoLoc EXCEPT !.tag = g, !.uuid = u]  k == [l EXCEPT !.op = p, !.dead = DeadNow]
  <1>2. p \in Before /\ p = "mk"  BY DEF Before
  <1>. HIDE DEF p
  <1>3. l \in LocType /\ l.vw = Null /\ l.base = Null /\ l.tag = g  BY DEF NoLoc, LocType
  <1>4. Begin(t, p, p, l)  BY <1>1, <1>2
  <1>. HIDE DEF l
  <1>5. k \in LocType /\ k.vw = Null /\ k.base = Null /\ k.op = p /\ k.tag = g
    BY <1>2, <1>3 DEF LocType, DeadNow
  <1>. HIDE DEF k
  <1>6. proc[t] \in ProcType  BY <1>1, ProcSame
  <1>7. ThreadAt(p, k, proc[t])  BY <1>1, <1>2, <1>5, <1>6, Consts DEF ThreadAt, Before, Within, After, Making
  <1>. QED  BY <1>2, <1>3, <1>4, <1>7, Begun DEF k

LEMMA RmStartKeeps ==
  ASSUME ViewsInv, NEW t \in Threads, RmStart(t) PROVE ViewsInv'
  <1>1. PICK g \in Tags : Begin(t, "rm", "rm", [NoLoc EXCEPT !.tag = g])  BY DEF RmStart
  <1>. DEFINE p == "rm"  l == [NoLoc EXCEPT !.tag = g]  k == [l EXCEPT !.op = p, !.dead = DeadNow]
  <1>2. p \in Before /\ p = "rm"  BY DEF Before
  <1>. HIDE DEF p
  <1>3. l \in LocType /\ l.vw = Null /\ l.base = Null  BY DEF NoLoc, LocType
  <1>4. Begin(t, p, p, l)  BY <1>1, <1>2
  <1>. HIDE DEF l
  <1>5. k \in LocType /\ k.vw = Null /\ k.base = Null /\ k.op = p
    BY <1>2, <1>3 DEF LocType, DeadNow
  <1>. HIDE DEF k
  <1>6. proc[t] \in ProcType  BY <1>1, ProcSame
  <1>7. ThreadAt(p, k, proc[t])  BY <1>1, <1>2, <1>5, <1>6, Consts DEF ThreadAt, Before, Within, After, Making
  <1>. QED  BY <1>2, <1>3, <1>4, <1>7, Begun DEF k

LEMMA RmAllStartKeeps ==
  ASSUME ViewsInv, NEW t \in Threads, RmAllStart(t) PROVE ViewsInv'
  <1>1. Begin(t, "rmall", "rmall", NoLoc)  BY DEF RmAllStart
  <1>. DEFINE p == "rmall"  l == NoLoc  k == [l EXCEPT !.op = p, !.dead = DeadNow]
  <1>2. p \in Before /\ p = "rmall"  BY DEF Before
  <1>. HIDE DEF p
  <1>3. l \in LocType /\ l.vw = Null /\ l.base = Null  BY DEF NoLoc, LocType
  <1>4. Begin(t, p, p, l)  BY <1>1, <1>2
  <1>. HIDE DEF l
  <1>5. k \in LocType /\ k.vw = Null /\ k.base = Null /\ k.op = p
    BY <1>2, <1>3 DEF LocType, DeadNow
  <1>. HIDE DEF k
  <1>6. proc[t] \in ProcType  BY <1>1, ProcSame
  <1>7. ThreadAt(p, k, proc[t])  BY <1>1, <1>2, <1>5, <1>6, Consts DEF ThreadAt, Before, Within, After, Making
  <1>. QED  BY <1>2, <1>3, <1>4, <1>7, Begun DEF k

LEMMA ExportStartKeeps ==
  ASSUME ViewsInv, NEW t \in Threads, ExportStart(t) PROVE ViewsInv'
  <1>1. PICK op \in {"export", "unexport"}, g \in Tags, e \in 1..MaxExport :
              Begin(t, op, "tag", [NoLoc EXCEPT !.tag = g, !.ex = e])  BY DEF ExportStart
  <1>. DEFINE p == "tag"  l == [NoLoc EXCEPT !.tag = g, !.ex = e]  k == [l EXCEPT !.op = op, !.dead = DeadNow]
  <1>2. p \in Before /\ p = "tag"  BY DEF Before
  <1>. HIDE DEF p
  <1>0. e \in Nat  BY ViewsAssumption DEF ViewsAssumption
  <1>3. l \in LocType /\ l.vw = Null /\ l.base = Null  BY <1>0 DEF NoLoc, LocType
  <1>4. Begin(t, op, p, l)  BY <1>1, <1>2
  <1>. HIDE DEF l
  <1>5. k \in LocType /\ k.vw = Null /\ k.base = Null /\ k.op = op
    BY <1>1, <1>2, <1>3 DEF LocType, DeadNow
  <1>. HIDE DEF k
  <1>6. proc[t] \in ProcType  BY <1>1, ProcSame
  <1>7. ThreadAt(p, k, proc[t])  BY <1>1, <1>2, <1>5, <1>6, Consts DEF ThreadAt, Before, Within, After, Making
  <1>. QED  BY <1>2, <1>3, <1>4, <1>7, Begun DEF k

LEMMA VgetStartKeeps ==
  ASSUME ViewsInv, NEW t \in Threads, VgetStart(t) PROVE ViewsInv'
  <1>1. PICK h \in fhs : proc[t].cwd = Nowhere /\ Begin(t, "vget", "vget", [NoLoc EXCEPT !.fh = h])  BY DEF VgetStart
  <1>. DEFINE p == "vget"  l == [NoLoc EXCEPT !.fh = h]  k == [l EXCEPT !.op = p, !.dead = DeadNow]
  <1>2. p \in Before /\ p = "vget"  BY DEF Before
  <1>. HIDE DEF p
  <1>0. h \in Handles  BY DEF ViewsInv
  <1>3. l \in LocType /\ l.vw = Null /\ l.base = Null /\ l.fh = h /\ h \in Handles  BY <1>0 DEF NoLoc, LocType
  <1>4. Begin(t, p, p, l)  BY <1>1, <1>2
  <1>. HIDE DEF l
  <1>5. k \in LocType /\ k.vw = Null /\ k.base = Null /\ k.op = p /\ k.fh = h /\ h \in Handles
    BY <1>2, <1>3 DEF LocType, DeadNow
  <1>. HIDE DEF k
  <1>6. proc[t] \in ProcType /\ proc[t].cwd = Nowhere  BY <1>1, ProcSame
  <1>7. ThreadAt(p, k, proc[t])  BY <1>1, <1>2, <1>5, <1>6, Consts DEF ThreadAt, Before, Within, After, Making
  <1>. QED  BY <1>2, <1>3, <1>4, <1>7, Begun DEF k

LEMMA HmStartKeeps ==
  ASSUME ViewsInv, NEW t \in Threads, HmStart(t) PROVE ViewsInv'
  <1>1. PICK g \in Tags : proc[t].cwd = Nowhere /\ Begin(t, "hm", "tag", [NoLoc EXCEPT !.tag = g])  BY DEF HmStart
  <1>. DEFINE p == "tag"  o == "hm"  l == [NoLoc EXCEPT !.tag = g]  k == [l EXCEPT !.op = o, !.dead = DeadNow]
  <1>2. p \in Before /\ p = "tag" /\ o = "hm"  BY DEF Before
  <1>. HIDE DEF p, o
  <1>3. l \in LocType /\ l.vw = Null /\ l.base = Null  BY DEF NoLoc, LocType
  <1>4. Begin(t, o, p, l)  BY <1>1, <1>2
  <1>. HIDE DEF l
  <1>5. k \in LocType /\ k.vw = Null /\ k.base = Null /\ k.op = o
    BY <1>2, <1>3 DEF LocType, DeadNow
  <1>. HIDE DEF k
  <1>6. proc[t] \in ProcType /\ proc[t].cwd = Nowhere  BY <1>1, ProcSame
  <1>7. ThreadAt(p, k, proc[t])  BY <1>1, <1>2, <1>5, <1>6, Consts DEF ThreadAt, Before, Within, After, Making
  <1>. QED  BY <1>2, <1>3, <1>4, <1>7, Begun DEF k

LEMMA LookupStartKeeps ==
  ASSUME ViewsInv, NEW t \in Threads, LookupStart(t) PROVE ViewsInv'
  <1>1. PICK g \in Tags : proc[t].cwd = Nowhere /\ Begin(t, "view", "tag", [NoLoc EXCEPT !.tag = g])  BY DEF LookupStart
  <1>. DEFINE p == "tag"  o == "view"  l == [NoLoc EXCEPT !.tag = g]  k == [l EXCEPT !.op = o, !.dead = DeadNow]
  <1>2. p \in Before /\ p = "tag" /\ o = "view"  BY DEF Before
  <1>. HIDE DEF p, o
  <1>3. l \in LocType /\ l.vw = Null /\ l.base = Null  BY DEF NoLoc, LocType
  <1>4. Begin(t, o, p, l)  BY <1>1, <1>2
  <1>. HIDE DEF l
  <1>5. k \in LocType /\ k.vw = Null /\ k.base = Null /\ k.op = o
    BY <1>2, <1>3 DEF LocType, DeadNow
  <1>. HIDE DEF k
  <1>6. proc[t] \in ProcType /\ proc[t].cwd = Nowhere  BY <1>1, ProcSame
  <1>7. ThreadAt(p, k, proc[t])  BY <1>1, <1>2, <1>5, <1>6, Consts DEF ThreadAt, Before, Within, After, Making
  <1>. QED  BY <1>2, <1>3, <1>4, <1>7, Begun DEF k

LEMMA SetviewStartKeeps ==
  ASSUME ViewsInv, NEW t \in Threads, SetviewStart(t) PROVE ViewsInv'
  <1>1. PICK g \in Tags : Begin(t, "set", "tag", [NoLoc EXCEPT !.tag = g])  BY DEF SetviewStart
  <1>. DEFINE p == "tag"  o == "set"  l == [NoLoc EXCEPT !.tag = g]  k == [l EXCEPT !.op = o, !.dead = DeadNow]
  <1>2. p \in Before /\ p = "tag" /\ o = "set"  BY DEF Before
  <1>. HIDE DEF p, o
  <1>3. l \in LocType /\ l.vw = Null /\ l.base = Null  BY DEF NoLoc, LocType
  <1>4. Begin(t, o, p, l)  BY <1>1, <1>2
  <1>. HIDE DEF l
  <1>5. k \in LocType /\ k.vw = Null /\ k.base = Null /\ k.op = o
    BY <1>2, <1>3 DEF LocType, DeadNow
  <1>. HIDE DEF k
  <1>6. proc[t] \in ProcType  BY <1>1, ProcSame
  <1>7. ThreadAt(p, k, proc[t])  BY <1>1, <1>2, <1>5, <1>6, Consts DEF ThreadAt, Before, Within, After, Making
  <1>. QED  BY <1>2, <1>3, <1>4, <1>7, Begun DEF k

LEMMA BindStartKeeps ==
  ASSUME ViewsInv, NEW t \in Threads, BindStart(t) PROVE ViewsInv'
  <1>1. PICK m \in Vobs : proc[t].cwd.vob = Null /\ Begin(t, "bind", "bind", [NoLoc EXCEPT !.vob = m])  BY DEF BindStart
  <1>. DEFINE p == "bind"  l == [NoLoc EXCEPT !.vob = m]  k == [l EXCEPT !.op = p, !.dead = DeadNow]
  <1>2. p \in Before /\ p = "bind"  BY DEF Before
  <1>. HIDE DEF p
  <1>3. l \in LocType /\ l.vw = Null /\ l.base = Null /\ l.vob = m  BY DEF NoLoc, LocType
  <1>4. Begin(t, p, p, l)  BY <1>1, <1>2
  <1>. HIDE DEF l
  <1>5. k \in LocType /\ k.vw = Null /\ k.base = Null /\ k.op = p /\ k.vob = m
    BY <1>2, <1>3 DEF LocType, DeadNow
  <1>. HIDE DEF k
  <1>6. proc[t] \in ProcType /\ proc[t].cwd.vob = Null  BY <1>1, ProcSame
  <1>7. ThreadAt(p, k, proc[t])  BY <1>1, <1>2, <1>5, <1>6, Consts DEF ThreadAt, Before, Within, After, Making
  <1>. QED  BY <1>2, <1>3, <1>4, <1>7, Begun DEF k

-----------------------------------------------------------------------------
(* The commands on tags.                                                   *)

LEMMA MkReady ==
  ASSUME ViewsInv, NEW t \in Threads, pc[t] = "mk", NEW v \in Views, NEW p, p = "mkid"
  PROVE  Ready(p, t, v) /\ p \in Within /\ p # "ask"
  <1>. SUFFICES ASSUME NEW n \in Nat PROVE ThreadAt(p, [loc[t] EXCEPT !.vw = v, !.num = n], proc[t])
    BY DEF Ready, Within
  <1>. DEFINE l == [loc[t] EXCEPT !.vw = v, !.num = n]
  <1>1. work \in Workloads /\ ThreadAt(pc[t], loc[t], proc[t]) /\ loc[t] \in LocType  BY Facts, ProcSame
  <1>2. l \in LocType /\ l.vw = v /\ l.base = loc[t].base /\ l.op = loc[t].op  BY <1>1 DEF LocType
  <1>. HIDE DEF l
  <1>3. /\ loc[t].base = Null /\ proc[t] \in ProcType /\ v # Null
        /\ loc[t].op \in {"view", "hm"} => proc[t].cwd = Nowhere
    BY <1>1, Consts DEF ThreadAt, Making
  <1>4. ThreadAt(p, l, proc[t])  BY <1>2, <1>3 DEF ThreadAt, Before, Within, After, Making
  <1>. QED  BY <1>4 DEF l

LEMMA MkRecoverKeeps ==
  ASSUME ViewsInv, NEW t \in Threads, MkRecover(t) PROVE ViewsInv'
  <1>. DEFINE v == CHOOSE x \in Recoverable(loc[t]) : TRUE  nm == Name(loc[t].tag, FALSE)  d == Hold(dir, v)
              p == "mkid"
  <1>1. /\ pc[t] = "mk" /\ work' = work /\ fhs' = fhs /\ proc' = proc
        /\ Recoverable(loc[t]) # {} /\ Add(t, d, v, nm, p, loc[t])
    BY DEF MkRecover, Mk, Step, Same, Stay
  <1>2. p = "mkid"  OBVIOUS
  <1>. HIDE DEF p
  <1>3. v \in Views  BY <1>1 DEF Recoverable
  <1>. HIDE DEF v
  <1>4. work \in Workloads /\ dir \in DirType /\ ThreadAt(pc[t], loc[t], proc[t])  BY Facts
  <1>5. nm \in Nms  BY <1>1, <1>4 DEF ThreadAt, Name, Nms
  <1>. HIDE DEF nm
  <1>6. d \in DirType /\ Kept(dir, d) /\ \A x \in Views : Spare(d, x) = Spare(dir, x) + One(x = v)
    BY <1>3, <1>4, HoldIn
  <1>. HIDE DEF d
  <1>7. Ready(p, t, v) /\ p \in Within /\ p # "ask"  BY <1>1, <1>2, <1>3, MkReady
  <1>. QED  BY <1>1, <1>3, <1>5, <1>6, <1>7, Added

\* The view mvfs_makespecnode makes
LEMMA NewViewIn ==
  ASSUME ViewsInv, NewView # {}, NEW nm \in Nms
  PROVE  LET v == CHOOSE x \in NewView : TRUE
             d == MakeView(dir, v, nm)
         IN  /\ v \in Views /\ d \in DirType /\ Kept(dir, d)
             /\ \A x \in Views : Spare(d, x) = Spare(dir, x) + One(x = v)
  <1>. DEFINE v == CHOOSE x \in NewView : TRUE
  <1>1. v \in Views /\ dir.vw[v].cnt = 0  BY DEF NewView
  <1>. HIDE DEF v
  <1>2. work \in Workloads /\ dir \in DirType  BY DEF ViewsInv
  <1>3. Spare(dir, v) >= 0
    <2>1. Spare(dir, v) = Taken(v)  BY <1>1 DEF ViewsInv, Counts
    <2>. DEFINE A == Setting(v)  B == InTag(v)  C == Working(v)  D == Basing(v)
    <2>2. IsFiniteSet(A) /\ IsFiniteSet(B) /\ IsFiniteSet(C) /\ IsFiniteSet(D)
      <3>1. IsFiniteSet(Threads)  BY <1>2, Consts
      <3>. QED  BY <3>1, FS_Subset DEF Setting, InTag, Working, Basing
    <2>3. Taken(v) = Cardinality(A) + Cardinality(B) + Cardinality(C) + Cardinality(D)  BY DEF Taken
    <2>. HIDE DEF A, B, C, D
    <2>. QED  BY <2>1, <2>2, <2>3, FS_CardinalityType
  <1>. DEFINE d == MakeView(dir, v, nm)
  <1>4. /\ d \in DirType /\ d.slot = dir.slot /\ d.exp = dir.exp /\ Kept(dir, d)
        /\ \A x \in Views : Spare(d, x) = Spare(dir, x) + One(x = v)
        /\ d.vw[v].id = 0 /\ d.vw[v].ex = Null /\ \A x \in Views : x # v => d.vw[x] = dir.vw[x]
    BY <1>1, <1>2, <1>3, MakeIn
  <1>. QED  BY <1>1, <1>4 DEF v

LEMMA MkNewKeeps ==
  ASSUME ViewsInv, NEW t \in Threads, MkNew(t) PROVE ViewsInv'
  <1>. DEFINE v == CHOOSE x \in NewView : TRUE  nm == Name(loc[t].tag, FALSE)  d == MakeView(dir, v, nm)
              p == "mkid"
  <1>1. /\ pc[t] = "mk" /\ work' = work /\ fhs' = fhs /\ proc' = proc
        /\ NewView # {} /\ Add(t, d, v, nm, p, loc[t])
    BY DEF MkNew, Mk, Step, Same, Stay
  <1>2. p = "mkid"  OBVIOUS
  <1>. HIDE DEF p
  <1>4. work \in Workloads /\ dir \in DirType /\ ThreadAt(pc[t], loc[t], proc[t])  BY Facts
  <1>5. nm \in Nms  BY <1>1, <1>4 DEF ThreadAt, Name, Nms
  <1>. HIDE DEF nm
  <1>6. v \in Views /\ d \in DirType /\ Kept(dir, d) /\ \A x \in Views : Spare(d, x) = Spare(dir, x) + One(x = v)
    BY <1>1, <1>5, NewViewIn
  <1>. HIDE DEF v, d
  <1>7. Ready(p, t, v) /\ p \in Within /\ p # "ask"  BY <1>1, <1>2, <1>6, MkReady
  <1>. QED  BY <1>1, <1>5, <1>6, <1>7, Added

\* The table of exported views is not counted.
LEMMA ExpIn ==
  ASSUME work \in Workloads, NEW d \in DirType, NEW s \in Seq(Nat \cup {Null})
  PROVE  LET e == [d EXCEPT !.exp = s]
         IN  /\ e \in DirType /\ e.slot = d.slot /\ e.vw = d.vw /\ e.exp = s /\ Kept(d, e)
             /\ \A x \in Views : Spare(e, x) = Spare(d, x)
  <1>. DEFINE e == [d EXCEPT !.exp = s]
  <1>1. e \in DirType /\ e.slot = d.slot /\ e.vw = d.vw /\ e.exp = s  BY DEF DirType
  <1>. HIDE DEF e
  <1>2. \A x \in Views : InSlots(e, x) = InSlots(d, x)  BY <1>1 DEF InSlots
  <1>. QED  BY <1>1, <1>2 DEF e, Spare, Kept

LEMMA PutIn ==
  ASSUME NEW s \in Seq(Nat \cup {Null}), NEW e \in Nat, NEW n \in Nat \cup {Null}
  PROVE  [s EXCEPT ![e] = n] \in Seq(Nat \cup {Null}) /\ Len([s EXCEPT ![e] = n]) = Len(s)
  <1>. DEFINE V == Nat \cup {Null}  r == [s EXCEPT ![e] = n]
  <1>1. s \in [1..Len(s) -> V] /\ Len(s) \in Nat /\ n \in V  OBVIOUS
  <1>. HIDE DEF V
  <1>2. r \in [1..Len(s) -> V]  BY <1>1
  <1>. HIDE DEF r
  <1>3. r \in Seq(V) /\ Len(r) = Len(s)  BY <1>1, <1>2
  <1>. QED  BY <1>3 DEF V, r

LEMMA GrownIn ==
  ASSUME NEW s \in Seq(Nat \cup {Null}), NEW e \in Nat
  PROVE  Grown(s, e) \in Seq(Nat \cup {Null})
  <1>. DEFINE V == Nat \cup {Null}  q == (e + Chunk - 1) \div Chunk  n == q * Chunk
              r == [i \in 1..n |-> IF i <= Len(s) THEN s[i] ELSE Null]
  <1>1. Chunk \in Nat /\ Chunk > 0  BY ViewsAssumption DEF ViewsAssumption
  <1>2. q \in Nat
    <2>. DEFINE a == e + Chunk - 1
    <2>1. a \in Nat  BY <1>1
    <2>. HIDE DEF a
    <2>2. a \div Chunk \in Nat  BY <1>1, <2>1
    <2>. QED  BY <2>2 DEF a
  <1>. HIDE DEF q
  <1>3. n \in Nat  BY <1>1, <1>2
  <1>. HIDE DEF n
  <1>4. \A i \in 1..n : i <= Len(s) => s[i] \in V  BY <1>3
  <1>5. Null \in V  OBVIOUS
  <1>. HIDE DEF V
  <1>6. r \in [1..n -> V]  BY <1>4, <1>5
  <1>. HIDE DEF r
  <1>7. r \in Seq(V)  BY <1>3, <1>6
  <1>8. Grown(s, e) = IF e <= Len(s) THEN s ELSE r  BY DEF Grown, r, n, q
  <1>. QED  BY <1>7, <1>8 DEF V

LEMMA UnexportIn ==
  ASSUME work \in Workloads, NEW d \in DirType, NEW v \in Views
  PROVE  LET e == Unexport(d, v)
         IN  e \in DirType /\ e.slot = d.slot /\ Kept(d, e) /\ \A x \in Views : Spare(e, x) = Spare(d, x)
  <1>1. CASE d.vw[v].ex = Null
    <2>1. Unexport(d, v) = d  BY <1>1 DEF Unexport
    <2>. QED  BY <2>1 DEF Kept
  <1>2. CASE d.vw[v].ex # Null
    <2>. DEFINE w == [d.vw[v] EXCEPT !.ex = Null]  h == [d EXCEPT !.vw[v] = w]
                n == Null  s == [d.exp EXCEPT ![d.vw[v].ex] = n]  e == [h EXCEPT !.exp = s]
    <2>1. d.vw[v] \in ViewType  BY Parts
    <2>2. w \in ViewType /\ w.cnt = d.vw[v].cnt /\ w.mn = d.vw[v].mn /\ w.id = d.vw[v].id  BY <2>1 DEF ViewType
    <2>3. d.vw[v].ex \in Nat /\ d.exp \in Seq(Nat \cup {Null}) /\ n \in Nat \cup {Null}
      BY <1>2, <2>1 DEF ViewType, DirType
    <2>4. Unexport(d, v) = e  BY <1>2 DEF Unexport, DirType
    <2>. HIDE DEF w, n
    <2>5. s \in Seq(Nat \cup {Null})  BY <2>3, PutIn
    <2>. HIDE DEF s
    <2>6. h \in DirType /\ h.slot = d.slot /\ Kept(d, h) /\ \A x \in Views : Spare(h, x) = Spare(d, x)
      BY <2>2, Noted
    <2>. HIDE DEF h
    <2>7. e \in DirType /\ e.slot = h.slot /\ Kept(h, e) /\ \A x \in Views : Spare(e, x) = Spare(h, x)
      BY <2>5, <2>6, ExpIn
    <2>. HIDE DEF e
    <2>. QED  BY <2>4, <2>6, <2>7 DEF Kept
  <1>. QED  BY <1>1, <1>2

LEMMA ExportedIn ==
  ASSUME work \in Workloads, NEW d \in DirType, NEW v \in Views, NEW i \in Nat
  PROVE  LET e == Exported(d, v, i)
         IN  e \in DirType /\ e.slot = d.slot /\ Kept(d, e) /\ \A x \in Views : Spare(e, x) = Spare(d, x)
  <1>. DEFINE g == Grown(d.exp, i)  w == [d.vw[v] EXCEPT !.ex = i]  h == [d EXCEPT !.vw[v] = w]
              n == d.vw[v].id  s == [g EXCEPT ![i] = n]  e == [h EXCEPT !.exp = s]
  <1>1. d.vw[v] \in ViewType  BY Parts
  <1>2. w \in ViewType /\ w.cnt = d.vw[v].cnt /\ w.mn = d.vw[v].mn /\ w.id = d.vw[v].id  BY <1>1 DEF ViewType
  <1>3. d.exp \in Seq(Nat \cup {Null}) /\ n \in Nat \cup {Null}  BY <1>1 DEF ViewType, DirType
  <1>4. Exported(d, v, i) = d \/ Exported(d, v, i) = e  BY DEF Exported, DirType
  <1>. HIDE DEF w, n
  <1>5. g \in Seq(Nat \cup {Null})  BY <1>3, GrownIn
  <1>. HIDE DEF g
  <1>6. s \in Seq(Nat \cup {Null})  BY <1>3, <1>5, PutIn
  <1>. HIDE DEF s
  <1>7. h \in DirType /\ h.slot = d.slot /\ Kept(d, h) /\ \A x \in Views : Spare(h, x) = Spare(d, x)
    BY <1>2, Noted
  <1>. HIDE DEF h
  <1>8. e \in DirType /\ e.slot = h.slot /\ Kept(h, e) /\ \A x \in Views : Spare(e, x) = Spare(h, x)
    BY <1>6, <1>7, ExpIn
  <1>. HIDE DEF e
  <1>. QED  BY <1>4, <1>7, <1>8 DEF Kept

LEMMA InsertIdKeeps ==
  ASSUME ViewsInv, NEW t \in Threads, InsertId(t) PROVE ViewsInv'
  <1>. DEFINE v == loc[t].vw  w == [dir.vw[v] EXCEPT !.id = loc[t].num, !.ex = Null]  d == [dir EXCEPT !.vw[v] = w]
              p == IF pc[t] = "mkid" THEN "mkfill" ELSE "hmfill"
  <1>1. /\ work \in Workloads /\ dir \in DirType /\ ThreadAt(pc[t], loc[t], proc[t])
        /\ \A x \in Views : Spare(dir, x) \in Int
    BY Facts
  <1>2. /\ pc[t] \in {"mkid", "hmid"} /\ work' = work /\ fhs' = fhs /\ proc' = proc
        /\ dir' = SetId(dir, v, loc[t].num) /\ pc' = [pc EXCEPT ![t] = p] /\ loc' = Alive(v)
    BY DEF InsertId, Same, Stay
  <1>3. /\ v \in Views /\ ((p = "mkfill" /\ pc[t] = "mkid") \/ (p = "hmfill" /\ pc[t] = "hmid"))
        /\ v = loc[t].vw /\ loc[t].num \in Nat
    <2>1. v \in Views  BY <1>2, Held DEF Within
    <2>2. (p = "mkfill" /\ pc[t] = "mkid") \/ (p = "hmfill" /\ pc[t] = "hmid")
      <3>1. pc[t] \in {"mkid", "hmid"}  BY <1>2
      <3>2. CASE pc[t] = "mkid"  BY <3>2
      <3>3. CASE pc[t] # "mkid"  BY <3>1, <3>3
      <3>. QED  BY <3>2, <3>3
    <2>3. loc[t] \in LocType  BY ProcSame
    <2>4. loc[t].num \in Nat  BY <2>3 DEF LocType
    <2>. QED  BY <2>1, <2>2, <2>4
  <1>. HIDE DEF v, p
  <1>4. dir.vw[v] \in ViewType  BY <1>1, <1>3, Parts
  <1>5. w \in ViewType /\ w.cnt = dir.vw[v].cnt /\ w.mn = dir.vw[v].mn  BY <1>3, <1>4 DEF ViewType
  <1>6. dir' = d  BY <1>2 DEF SetId
  <1>. HIDE DEF w
  <1>7. /\ d \in DirType /\ \A x \in Views : Spare(d, x) = Spare(dir, x)
        /\ \A x \in Views : x # v => d.vw[x] = dir.vw[x]
        /\ \A x \in Views, m \in Vobs : (d.vw[x].mn[m] = "used") = (dir.vw[x].mn[m] = "used")
    BY <1>1, <1>3, <1>5, Noted
  <1>. HIDE DEF d
  <1>8. pc \in [Threads -> Before \cup Within \cup After] /\ loc \in [Threads -> LocType]
        /\ proc \in [Threads -> ProcType]
    BY DEF ViewsInv, Functions
  <1>9. p \in Before \cup Within \cup After  BY <1>3 DEF Within
  <1>10. pc' \in [Threads -> Before \cup Within \cup After] /\ pc'[t] = p /\ \A u \in Threads \ {t} : pc'[u] = pc[u]
    BY <1>2, <1>8, <1>9
  <1>11. ASSUME NEW u \in Threads
         PROVE  /\ loc'[u] \in LocType /\ loc'[u].dead = loc[u].dead \ {v}
                /\ \A f \in {"op", "tag", "uuid", "vw", "base", "ex", "vob", "fh", "num", "off", "hm"} :
                     loc'[u][f] = loc[u][f]
    <2>1. loc[u] \in LocType  BY <1>8
    <2>2. loc'[u] = [loc[u] EXCEPT !.dead = @ \ {v}]  BY <1>2 DEF Alive
    <2>. QED  BY <2>1, <2>2 DEF LocType
  <1>12. loc' \in [Threads -> LocType]  BY <1>2, <1>11 DEF Alive
  <1>13. Others(t)  BY <1>2, <1>8, <1>10, <1>11, <1>12 DEF Others, Functions
  <1>14. ThreadAt(pc'[t], loc'[t], proc'[t])
    <2>1. loc'[t].vw = loc[t].vw /\ loc'[t].base = loc[t].base /\ loc'[t].op = loc[t].op /\ loc'[t] \in LocType
      BY <1>11
    <2>2. pc[t] = "mkid" => loc[t].base = Null  BY <1>1 DEF ThreadAt, Making
    <2>3. /\ pc[t] = "hmid" => loc[t].base # Null /\ loc[t].op = "hm"
          /\ loc[t].op \in {"view", "hm"} => proc[t].cwd = Nowhere
          /\ proc[t] \in ProcType
      BY <1>1 DEF ThreadAt, Making
    <2>4. loc[t].vw # Null  BY <1>1, <1>3, Consts
    <2>. QED  BY <1>2, <1>3, <1>10, <2>1, <2>2, <2>3, <2>4 DEF ThreadAt, Before, Within, After, Making
  <1>15. \A x \in Views : Spare(dir', x) = Spare(dir, x) + Share(pc'[t], loc'[t], proc'[t], x)
                                                         - Share(pc[t], loc[t], proc[t], x)
    <2>1. loc'[t].vw = loc[t].vw /\ loc'[t].base = loc[t].base /\ pc'[t] \notin After /\ pc[t] \notin After
      BY <1>2, <1>3, <1>10, <1>11 DEF After
    <2>. QED  BY <1>1, <1>2, <1>6, <1>7, <2>1 DEF Share, One
  <1>16. Nodes(dir)'  BY <1>2, <1>6, <1>7 DEF ViewsInv, Nodes, Using
  <1>17. DeadGone(dir)'
    <2>. SUFFICES ASSUME NEW u \in Threads, NEW x \in loc'[u].dead PROVE d.vw[x].id = 0
      BY <1>6 DEF DeadGone
    <2>1. x \in loc[u].dead /\ x # v  BY <1>11
    <2>2. x \in Views /\ dir.vw[x].id = 0  BY <1>8, <2>1 DEF ViewsInv, DeadGone, LocType
    <2>. QED  BY <1>7, <2>1, <2>2
  <1>18. pc'[t] \notin {"ask", "bound"}  BY <1>3, <1>10
  <1>19. fhs' \subseteq Handles /\ dir' \in DirType  BY <1>2, <1>6, <1>7 DEF ViewsInv
  <1>. QED  BY <1>2, <1>13, <1>14, <1>15, <1>16, <1>17, <1>18, <1>19, Moved

\* l: what thread t remembers, with another view
LEMMA WithView ==
  ASSUME ViewsInv, NEW t \in Threads, NEW v \in Views \cup {Null}
  PROVE  LET l == [loc[t] EXCEPT !.vw = v]
         IN  l \in LocType /\ l.vw = v /\ l.base = loc[t].base /\ l.dead = loc[t].dead /\ l.op = loc[t].op
             /\ l.tag = loc[t].tag /\ l.vob = loc[t].vob /\ l.fh = loc[t].fh
  <1>1. loc[t] \in LocType  BY ProcSame
  <1>. QED  BY <1>1 DEF LocType

LEMMA SlotIn ==
  ASSUME work \in Workloads, NEW d \in DirType, NEW nm, SlotOf(d, nm) # {}
  PROVE  LET i == Least(SlotOf(d, nm)) IN i \in SlotOf(d, nm) /\ i \in Present(d) /\ VwAt(d, i) \in Views
  <1>1. SlotOf(d, nm) \in SUBSET Nat  BY Consts DEF SlotOf, Present
  <1>2. Least(SlotOf(d, nm)) \in SlotOf(d, nm)  BY <1>1, LeastIn
  <1>. QED  BY <1>2 DEF SlotOf, Present, VwAt, DirType, Entries

LEMMA RmRemoveKeeps ==
  ASSUME ViewsInv, NEW t \in Threads, RmRemove(t) PROVE ViewsInv'
  <1>. DEFINE S == SlotOf(dir, Name(loc[t].tag, loc[t].hm))  i == Least(S)  v == VwAt(dir, i)
              l == [loc[t] EXCEPT !.vw = v]  p == IF loc[t].hm THEN "rmflush" ELSE "rmexp"
  <1>1. /\ work \in Workloads /\ dir \in DirType /\ ThreadAt(pc[t], loc[t], proc[t])
        /\ \A x \in Views : Spare(dir, x) \in Int
    BY Facts
  <1>2. pc[t] = "rm" /\ work' = work /\ fhs' = fhs /\ proc' = proc  BY DEF RmRemove, Step, Same, Stay
  <1>3. loc[t].vw = Null /\ loc[t].base = Null  BY <1>2, Held DEF Before, Making
  <1>4. CASE S = {}
    <2>1. RmDone(t) /\ dir' = dir  BY <1>4 DEF RmRemove
    <2>2. \A x \in Views : Spare(dir', x) = Spare(dir, x) - One(loc[t].vw = x)
      BY <1>1, <1>3, <2>1, Consts DEF One
    <2>3. Kept(dir, dir') /\ dir' \in DirType  BY <1>1, <2>1 DEF Kept
    <2>. QED  BY <1>2, <2>1, <2>2, <2>3, Done
  <1>5. CASE S # {}
    <2>1. dir' = RamdirRemove(dir, i) /\ Goto(t, p, l)  BY <1>5 DEF RmRemove
    <2>2. i \in Present(dir)  BY <1>1, <1>5, SlotIn
    <2>. HIDE DEF S, i
    <2>3. /\ v \in Views /\ RamdirRemove(dir, i) \in DirType /\ Kept(dir, RamdirRemove(dir, i))
          /\ \A x \in Views : Spare(RamdirRemove(dir, i), x) = Spare(dir, x) + One(x = v)
      BY <1>1, <2>2, RemoveIn
    <2>4. p \in {"rmflush", "rmexp"}  OBVIOUS
    <2>. HIDE DEF v, p
    <2>5. l \in LocType /\ l.vw = v /\ l.base = loc[t].base /\ l.dead = loc[t].dead /\ l.op = loc[t].op
      BY <2>3, WithView
    <2>. HIDE DEF l
    <2>6. v # Null /\ proc[t] \in ProcType /\ (loc[t].op \in {"view", "hm"} => proc[t].cwd = Nowhere)
      BY <1>1, <2>3, Consts DEF ThreadAt
    <2>7. ThreadAt(p, l, proc[t])  BY <1>3, <2>4, <2>5, <2>6 DEF ThreadAt, Before, Within, After, Making
    <2>8. dir' \in DirType /\ Kept(dir, dir') /\ \A x \in Views : Spare(dir', x) = Spare(dir, x) + One(x = v)
      BY <2>1, <2>3
    <2>9. \A x \in Views : Spare(dir', x) = Spare(dir, x) - One(loc[t].vw = x) - One(loc[t].base = x)
                                                          + One(l.vw = x) + One(l.base = x)
      BY <1>1, <1>3, <2>5, <2>8, Consts DEF One
    <2>10. p \in Before \cup Within /\ p # "idle" /\ p # "ask" /\ pc[t] \notin After  BY <1>2, <2>4 DEF Within, After
    <2>. QED  BY <1>2, <2>1, <2>5, <2>7, <2>8, <2>9, <2>10, GoesOn
  <1>. QED  BY <1>4, <1>5

\* What a thread remembers of names and of the mode; the rest stays.
LEMMA ModeIn ==
  ASSUME NEW k \in LocType, NEW b \in BOOLEAN
  PROVE  LET l == [k EXCEPT !.hm = b]
         IN  l \in LocType /\ l.vw = k.vw /\ l.base = k.base /\ l.dead = k.dead /\ l.op = k.op /\ l.tag = k.tag
  BY DEF LocType

LEMMA NamedIn ==
  ASSUME NEW k \in LocType, NEW g \in Tags, NEW n \in Nat
  PROVE  LET l == [k EXCEPT !.tag = g, !.off = n]
         IN  l \in LocType /\ l.vw = k.vw /\ l.base = k.base /\ l.dead = k.dead /\ l.op = k.op /\ l.tag = g
  BY DEF LocType

LEMMA RmUnexportKeeps ==
  ASSUME ViewsInv, NEW t \in Threads, RmUnexport(t) PROVE ViewsInv'
  <1>. DEFINE v == loc[t].vw  d == Unexport(dir, v)  p == "rmflush"  l == loc[t]
  <1>1. /\ work \in Workloads /\ dir \in DirType /\ ThreadAt(pc[t], loc[t], proc[t])
        /\ \A x \in Views : Spare(dir, x) \in Int
    BY Facts
  <1>2. /\ pc[t] = "rmexp" /\ work' = work /\ fhs' = fhs /\ proc' = proc /\ dir' = d /\ Goto(t, p, l)
    BY DEF RmUnexport, Step, Same, Stay
  <1>3. v \in Views /\ l.vw = v /\ l.base = Null /\ loc[t] = l /\ p = "rmflush"  BY <1>2, Held DEF Within, Making
  <1>. HIDE DEF v, p, l
  <1>4. d \in DirType /\ Kept(dir, d) /\ \A x \in Views : Spare(d, x) = Spare(dir, x)
    BY <1>1, <1>3, UnexportIn
  <1>. HIDE DEF d
  <1>5. l \in LocType /\ proc[t] \in ProcType  BY <1>3, ProcSame
  <1>6. ThreadAt(p, l, proc[t])
    BY <1>1, <1>2, <1>3, <1>5 DEF ThreadAt, Before, Within, After, Making
  <1>7. \A x \in Views : Spare(dir', x) = Spare(dir, x) - One(loc[t].vw = x) - One(loc[t].base = x)
                                                        + One(l.vw = x) + One(l.base = x)
    BY <1>1, <1>2, <1>3, <1>4 DEF One
  <1>8. p \in Before \cup Within /\ p # "idle" /\ p # "ask" /\ pc[t] \notin After  BY <1>2, <1>3 DEF Within, After
  <1>9. dir' \in DirType /\ Kept(dir, dir') /\ l.dead \subseteq loc[t].dead  BY <1>2, <1>3, <1>4
  <1>. QED  BY <1>2, <1>5, <1>6, <1>7, <1>8, <1>9, GoesOn

LEMMA RmFlushKeeps ==
  ASSUME ViewsInv, NEW t \in Threads, RmFlush(t) PROVE ViewsInv'
  <1>. DEFINE v == loc[t].vw  d == FlushVw(dir, v)  p == "rmid"  l == loc[t]
  <1>1. /\ work \in Workloads /\ dir \in DirType /\ ThreadAt(pc[t], loc[t], proc[t])
        /\ \A x \in Views : Spare(dir, x) \in Int /\ Spare(dir, x) >= 0
    BY Facts
  <1>2. /\ pc[t] = "rmflush" /\ work' = work /\ fhs' = fhs /\ proc' = proc /\ dir' = d /\ Goto(t, p, l)
    BY DEF RmFlush, Step, Same, Stay
  <1>3. v \in Views /\ l.vw = v /\ l.base = Null /\ loc[t] = l /\ p = "rmid"  BY <1>2, Held DEF Within, Making
  <1>. HIDE DEF v, p, l
  <1>4. d \in DirType /\ Kept(dir, d) /\ \A x \in Views : Spare(d, x) = Spare(dir, x)
    BY <1>1, <1>3, FlushVwIn
  <1>. HIDE DEF d
  <1>5. l \in LocType /\ proc[t] \in ProcType  BY <1>3, ProcSame
  <1>6. ThreadAt(p, l, proc[t])
    BY <1>1, <1>2, <1>3, <1>5 DEF ThreadAt, Before, Within, After, Making
  <1>7. \A x \in Views : Spare(dir', x) = Spare(dir, x) - One(loc[t].vw = x) - One(loc[t].base = x)
                                                        + One(l.vw = x) + One(l.base = x)
    BY <1>1, <1>2, <1>3, <1>4 DEF One
  <1>8. p \in Before \cup Within /\ p # "idle" /\ p # "ask" /\ pc[t] \notin After  BY <1>2, <1>3 DEF Within, After
  <1>9. dir' \in DirType /\ Kept(dir, dir') /\ l.dead \subseteq loc[t].dead  BY <1>2, <1>3, <1>4
  <1>. QED  BY <1>2, <1>5, <1>6, <1>7, <1>8, <1>9, GoesOn

LEMMA RmIdKeeps ==
  ASSUME ViewsInv, NEW t \in Threads, RmId(t) PROVE ViewsInv'
  <1>. DEFINE v == loc[t].vw  w == [dir.vw[v] EXCEPT !.id = 0]  d == [dir EXCEPT !.vw[v] = w]
  <1>1. /\ work \in Workloads /\ dir \in DirType /\ ThreadAt(pc[t], loc[t], proc[t])
        /\ \A x \in Views : Spare(dir, x) \in Int
    BY Facts
  <1>2. /\ pc[t] = "rmid" /\ work' = work /\ fhs' = fhs /\ proc' = proc /\ dir' = Rele(d, v)
        /\ IF loc[t].hm THEN RmDone(t) ELSE Goto(t, "rm", [loc[t] EXCEPT !.vw = Null, !.hm = TRUE])
    BY DEF RmId, Step, Same, Stay
  <1>3. v \in Views /\ Spare(dir, v) >= 1 /\ loc[t].vw = v /\ loc[t].base = Null  BY <1>2, Held DEF Within, Making
  <1>. HIDE DEF v
  <1>4. dir.vw[v] \in ViewType  BY <1>1, <1>3, Parts
  <1>5. w \in ViewType /\ w.cnt = dir.vw[v].cnt /\ w.mn = dir.vw[v].mn /\ w.id = 0  BY <1>4 DEF ViewType
  <1>. HIDE DEF w
  <1>6. d \in DirType /\ Kept(dir, d) /\ \A x \in Views : Spare(d, x) = Spare(dir, x)
    BY <1>1, <1>3, <1>5, Noted
  <1>. HIDE DEF d
  <1>7. dir' \in DirType /\ Kept(d, dir') /\ \A x \in Views : Spare(dir', x) = Spare(d, x) - One(x = v)
    BY <1>1, <1>2, <1>3, <1>6, ReleIn
  <1>8. Kept(dir, dir')  BY <1>6, <1>7 DEF Kept
  <1>9. CASE loc[t].hm
    <2>1. \A x \in Views : Spare(dir', x) = Spare(dir, x) - One(loc[t].vw = x)
      BY <1>1, <1>3, <1>6, <1>7 DEF One
    <2>. QED  BY <1>2, <1>7, <1>8, <1>9, <2>1, Done
  <1>10. CASE ~loc[t].hm
    <2>. DEFINE p == "rm"  l == [loc[t] EXCEPT !.vw = Null, !.hm = TRUE]
    <2>1. Goto(t, p, l) /\ p = "rm"  BY <1>2, <1>10
    <2>. HIDE DEF p
    <2>2. loc[t] \in LocType /\ proc[t] \in ProcType  BY ProcSame
    <2>3. l \in LocType /\ l.vw = Null /\ l.base = Null /\ l.op = loc[t].op /\ l.dead = loc[t].dead
      <3>. DEFINE n == Null  b == TRUE  k == [loc[t] EXCEPT !.vw = n]
      <3>1. n \in Views \cup {Null} /\ n = Null /\ b \in BOOLEAN  OBVIOUS
      <3>2. l = [k EXCEPT !.hm = b]  OBVIOUS
      <3>. HIDE DEF n, b, l
      <3>3. k \in LocType /\ k.vw = n /\ k.base = loc[t].base /\ k.dead = loc[t].dead /\ k.op = loc[t].op
        BY <3>1, WithView
      <3>. HIDE DEF k
      <3>4. l \in LocType /\ l.vw = k.vw /\ l.base = k.base /\ l.dead = k.dead /\ l.op = k.op
        BY <3>1, <3>2, <3>3, ModeIn
      <3>. QED  BY <1>3, <3>1, <3>3, <3>4
    <2>. HIDE DEF l
    <2>4. loc[t].op \in {"view", "hm"} => proc[t].cwd = Nowhere  BY <1>1 DEF ThreadAt
    <2>5. ThreadAt(p, l, proc[t])  BY <2>1, <2>2, <2>3, <2>4 DEF ThreadAt, Before, Within, After, Making
    <2>6. \A x \in Views : Spare(dir', x) = Spare(dir, x) - One(loc[t].vw = x) - One(loc[t].base = x)
                                                          + One(l.vw = x) + One(l.base = x)
      BY <1>1, <1>3, <1>6, <1>7, <2>3, Consts DEF One
    <2>7. p \in Before \cup Within /\ p # "idle" /\ p # "ask" /\ pc[t] \notin After  BY <1>2, <2>1 DEF Before, After
    <2>. QED  BY <1>2, <1>7, <1>8, <2>1, <2>3, <2>5, <2>6, <2>7, GoesOn
  <1>. QED  BY <1>9, <1>10

LEMMA RmAllNextKeeps ==
  ASSUME ViewsInv, NEW t \in Threads, RmAllNext(t) PROVE ViewsInv'
  <1>. DEFINE E == Readdir(dir, loc[t].off)  i == Least(E)  nm == dir.slot[i].nm  p == "rm"
              l == [loc[t] EXCEPT !.tag = nm.tag, !.hm = nm.hm, !.off = @ + 1]
  <1>1. /\ work \in Workloads /\ dir \in DirType /\ ThreadAt(pc[t], loc[t], proc[t])
        /\ \A x \in Views : Spare(dir, x) \in Int
    BY Facts
  <1>2. /\ pc[t] = "rmall" /\ work' = work /\ fhs' = fhs /\ proc' = proc /\ dir' = dir
        /\ IF E = {} THEN Return(t) ELSE Goto(t, p, l)
    BY DEF RmAllNext, Step, Same, Stay
  <1>3. loc[t].vw = Null /\ loc[t].base = Null  BY <1>2, Held DEF Before, Making
  <1>4. Kept(dir, dir') /\ dir' \in DirType  BY <1>1, <1>2 DEF Kept
  <1>5. CASE E = {}
    <2>1. \A x \in Views : Spare(dir', x) = Spare(dir, x) - One(loc[t].vw = x /\ pc[t] \notin After) - One(loc[t].base = x)
      BY <1>1, <1>2, <1>3, Consts DEF One
    <2>. QED  BY <1>2, <1>4, <1>5, <2>1, Ended
  <1>6. CASE E # {}
    <2>1. E \in SUBSET Nat  BY <1>1, Consts DEF Readdir, Present
    <2>. HIDE DEF E
    <2>2. i \in E  BY <1>6, <2>1, LeastIn
    <2>3. i \in Slots /\ dir.slot[i] # Null  BY <2>2 DEF E, Readdir, Present
    <2>. HIDE DEF i
    <2>4. nm \in Nms  BY <1>1, <2>3 DEF DirType, Entries
    <2>. HIDE DEF nm
    <2>5. loc[t] \in LocType /\ proc[t] \in ProcType  BY ProcSame
    <2>6. l \in LocType /\ l.vw = Null /\ l.base = Null /\ l.op = loc[t].op /\ l.dead = loc[t].dead
      <3>. DEFINE g == nm.tag  b == nm.hm  n == loc[t].off + 1  k == [loc[t] EXCEPT !.hm = b]
      <3>1. g \in Tags /\ b \in BOOLEAN  BY <2>4 DEF Nms
      <3>2. n \in Nat  BY <2>5 DEF LocType
      <3>3. l = [k EXCEPT !.tag = g, !.off = n]  BY <2>5 DEF LocType
      <3>. HIDE DEF n, b, g, l
      <3>4. /\ k \in LocType /\ k.vw = loc[t].vw /\ k.base = loc[t].base /\ k.dead = loc[t].dead
            /\ k.op = loc[t].op
        BY <2>5, <3>1, ModeIn
      <3>. HIDE DEF k
      <3>. DEFINE e == [k EXCEPT !.tag = g, !.off = n]
      <3>5. e \in LocType /\ e.vw = k.vw /\ e.base = k.base /\ e.dead = k.dead /\ e.op = k.op /\ e.tag = g
        BY <3>1, <3>2, <3>4, NamedIn
      <3>6. l = e  BY <3>3
      <3>. HIDE DEF e
      <3>. QED  BY <1>3, <3>4, <3>5, <3>6
    <2>7. Goto(t, p, l) /\ p = "rm"  BY <1>2, <1>6
    <2>. HIDE DEF l, p
    <2>8. loc[t].op \in {"view", "hm"} => proc[t].cwd = Nowhere  BY <1>1 DEF ThreadAt
    <2>9. ThreadAt(p, l, proc[t])  BY <2>5, <2>6, <2>7, <2>8 DEF ThreadAt, Before, Within, After, Making
    <2>10. \A x \in Views : Spare(dir', x) = Spare(dir, x) - One(loc[t].vw = x) - One(loc[t].base = x)
                                                           + One(l.vw = x) + One(l.base = x)
      BY <1>1, <1>2, <1>3, <2>6, Consts DEF One
    <2>11. p \in Before \cup Within /\ p # "idle" /\ p # "ask" /\ pc[t] \notin After  BY <1>2, <2>7 DEF Before, After
    <2>. QED  BY <1>2, <1>4, <2>6, <2>7, <2>9, <2>10, <2>11, GoesOn
  <1>. QED  BY <1>5, <1>6

LEMMA TagLookupKeeps ==
  ASSUME ViewsInv, NEW t \in Threads, TagLookup(t) PROVE ViewsInv'
  <1>. DEFINE S == SlotOf(dir, Name(loc[t].tag, FALSE))  i == Least(S)  v == VwAt(dir, i)
              l == [loc[t] EXCEPT !.vw = v]  p == loc[t].op  d == Hold(dir, v)
  <1>1. /\ work \in Workloads /\ dir \in DirType /\ ThreadAt(pc[t], loc[t], proc[t])
        /\ \A x \in Views : Spare(dir, x) \in Int
    BY Facts
  <1>2. /\ pc[t] = "tag" /\ work' = work /\ fhs' = fhs /\ proc' = proc
        /\ IF S = {} THEN Return(t) /\ dir' = dir ELSE dir' = d /\ Goto(t, p, l)
    BY DEF TagLookup, Step, Same, Stay
  <1>3. loc[t].vw = Null /\ loc[t].base = Null  BY <1>2, Held DEF Before, Making
  <1>4. CASE S = {}
    <2>1. \A x \in Views : Spare(dir', x) = Spare(dir, x) - One(loc[t].vw = x /\ pc[t] \notin After) - One(loc[t].base = x)
      BY <1>1, <1>2, <1>3, <1>4, Consts DEF One
    <2>2. Kept(dir, dir') /\ dir' \in DirType  BY <1>1, <1>2, <1>4 DEF Kept
    <2>. QED  BY <1>2, <1>4, <2>1, <2>2, Ended
  <1>5. CASE S # {}
    <2>1. v \in Views  BY <1>1, <1>5, SlotIn
    <2>2. dir' = d /\ Goto(t, p, l)  BY <1>2, <1>5
    <2>. HIDE DEF S, v
    <2>3. l \in LocType /\ l.vw = v /\ l.base = loc[t].base /\ l.dead = loc[t].dead /\ l.op = p
      BY <2>1, WithView
    <2>4. p \in {"export", "unexport", "hm", "view", "set"} /\ (p \in {"view", "hm"} => proc[t].cwd = Nowhere)
      BY <1>1, <1>2 DEF ThreadAt
    <2>. HIDE DEF l, p
    <2>5. d \in DirType /\ Kept(dir, d) /\ \A x \in Views : Spare(d, x) = Spare(dir, x) + One(x = v)
      BY <1>1, <2>1, HoldIn
    <2>. HIDE DEF d
    <2>6. v # Null /\ proc[t] \in ProcType  BY <1>1, <2>1, Consts DEF ThreadAt
    <2>7. ThreadAt(p, l, proc[t])  BY <1>3, <2>3, <2>4, <2>6 DEF ThreadAt, Before, Within, After, Making
    <2>8. \A x \in Views : Spare(dir', x) = Spare(dir, x) - One(loc[t].vw = x) - One(loc[t].base = x)
                                                          + One(l.vw = x) + One(l.base = x)
      BY <1>1, <1>3, <2>2, <2>3, <2>5, Consts DEF One
    <2>9. p \in Before \cup Within /\ p # "idle" /\ p # "ask" /\ pc[t] \notin After  BY <1>2, <2>4 DEF Within, After
    <2>10. dir' \in DirType /\ Kept(dir, dir')  BY <2>2, <2>5
    <2>. QED  BY <1>2, <2>2, <2>3, <2>7, <2>8, <2>9, <2>10, GoesOn
  <1>. QED  BY <1>4, <1>5

LEMMA ExportKeeps ==
  ASSUME ViewsInv, NEW t \in Threads, Export(t) PROVE ViewsInv'
  <1>. DEFINE v == loc[t].vw  n == loc[t].ex  d == Exported(dir, v, n)
  <1>1. work \in Workloads /\ dir \in DirType /\ \A x \in Views : Spare(dir, x) \in Int  BY Facts
  <1>2. /\ pc[t] = "export" /\ work' = work /\ fhs' = fhs /\ proc' = proc /\ dir' = Rele(d, v) /\ Return(t)
    BY DEF Export, Step, Same, Stay
  <1>3. v \in Views /\ Spare(dir, v) >= 1 /\ loc[t].vw = v /\ loc[t].base = Null  BY <1>2, Held DEF Within, Making
  <1>4. loc[t] \in LocType  BY ProcSame
  <1>5. n \in Nat  BY <1>4 DEF LocType
  <1>. HIDE DEF v, n
  <1>6. d \in DirType /\ Kept(dir, d) /\ \A x \in Views : Spare(d, x) = Spare(dir, x)  BY <1>1, <1>3, <1>5, ExportedIn
  <1>. HIDE DEF d
  <1>7. dir' \in DirType /\ Kept(d, dir') /\ \A x \in Views : Spare(dir', x) = Spare(d, x) - One(x = v)
    BY <1>1, <1>2, <1>3, <1>6, ReleIn
  <1>8. \A x \in Views : Spare(dir', x) = Spare(dir, x) - One(loc[t].vw = x /\ pc[t] \notin After) - One(loc[t].base = x)
    BY <1>1, <1>2, <1>3, <1>6, <1>7, Consts DEF One, After
  <1>9. Kept(dir, dir')  BY <1>6, <1>7 DEF Kept
  <1>. QED  BY <1>2, <1>7, <1>8, <1>9, Ended

LEMMA UnexportTagKeeps ==
  ASSUME ViewsInv, NEW t \in Threads, UnexportTag(t) PROVE ViewsInv'
  <1>. DEFINE v == loc[t].vw  d == Unexport(dir, v)
  <1>1. work \in Workloads /\ dir \in DirType /\ \A x \in Views : Spare(dir, x) \in Int  BY Facts
  <1>2. /\ pc[t] = "unexport" /\ work' = work /\ fhs' = fhs /\ proc' = proc /\ dir' = Rele(d, v) /\ Return(t)
    BY DEF UnexportTag, Step, Same, Stay
  <1>3. v \in Views /\ Spare(dir, v) >= 1 /\ loc[t].vw = v /\ loc[t].base = Null  BY <1>2, Held DEF Within, Making
  <1>. HIDE DEF v
  <1>6. d \in DirType /\ Kept(dir, d) /\ \A x \in Views : Spare(d, x) = Spare(dir, x)  BY <1>1, <1>3, UnexportIn
  <1>. HIDE DEF d
  <1>7. dir' \in DirType /\ Kept(d, dir') /\ \A x \in Views : Spare(dir', x) = Spare(d, x) - One(x = v)
    BY <1>1, <1>2, <1>3, <1>6, ReleIn
  <1>8. \A x \in Views : Spare(dir', x) = Spare(dir, x) - One(loc[t].vw = x /\ pc[t] \notin After) - One(loc[t].base = x)
    BY <1>1, <1>2, <1>3, <1>6, <1>7, Consts DEF One, After
  <1>9. Kept(dir, dir')  BY <1>6, <1>7 DEF Kept
  <1>. QED  BY <1>2, <1>7, <1>8, <1>9, Ended

\* What the invariant is about stays as it is.
LEMMA Unmoved ==
  ASSUME ViewsInv, UNCHANGED <<work, dir, proc, pc, loc>>, fhs' \subseteq Handles PROVE ViewsInv'
  <1>1. (work \in Workloads /\ fhs \subseteq Handles /\ dir \in DirType /\ Functions)'
    BY DEF ViewsInv, DirType, Slots, Functions
  <1>2. (\A t \in Threads : ThreadAt(pc[t], loc[t], proc[t]))'  BY DEF ViewsInv
  <1>3. \A v \in Views : Spare(dir, v)' = Spare(dir, v) /\ Taken(v)' = Taken(v)
    BY DEF Spare, InSlots, Slots, Taken, Setting, InTag, Working, Basing
  <1>4. Counts'  BY <1>3 DEF ViewsInv, Counts
  <1>5. Nodes(dir)'  BY DEF ViewsInv, Nodes, Using
  <1>6. DeadGone(dir)'  BY DEF ViewsInv, DeadGone
  <1>7. (\A t \in Threads : /\ pc[t] = "ask" => loc[t].vw \notin loc[t].dead
                           /\ pc[t] = "bound" => loc[t].vw \notin loc[t].dead)'
    BY DEF ViewsInv
  <1>. QED  BY <1>1, <1>2, <1>4, <1>5, <1>6, <1>7 DEF ViewsInv

LEMMA MakeHandleKeeps ==
  ASSUME ViewsInv, NEW t \in Threads, MakeHandle(t) PROVE ViewsInv'
  <1>. DEFINE c == proc[t].cwd  w == dir.vw[c.vw]  h == [ex |-> w.ex, uuid |-> w.uuid, vob |-> c.vob]
  <1>1. /\ c.vob # Null /\ w.ex # Null /\ fhs' = fhs \cup {h} /\ UNCHANGED <<work, dir, proc, pc, loc>>
    BY DEF MakeHandle
  <1>2. work \in Workloads /\ dir \in DirType /\ ThreadAt(pc[t], loc[t], proc[t])  BY Facts
  <1>3. c \in CwdType  BY <1>2 DEF ThreadAt, ProcType
  <1>. HIDE DEF c
  <1>4. c.vw \in Views /\ c.vob \in Vobs  BY <1>1, <1>3 DEF CwdType
  <1>5. w \in ViewType  BY <1>2, <1>4, Parts
  <1>. HIDE DEF w
  <1>6. h \in Handles  BY <1>1, <1>4, <1>5 DEF Handles, ViewType
  <1>7. fhs' \subseteq Handles  BY <1>1, <1>6 DEF ViewsInv
  <1>. QED  BY <1>1, <1>7, Unmoved

LEMMA VgetViewKeeps ==
  ASSUME ViewsInv, NEW t \in Threads, VgetView(t) PROVE ViewsInv'
  <1>. DEFINE h == loc[t].fh  s == IF h.ex <= Len(dir.exp) THEN dir.exp[h.ex] ELSE Null
              v == VwAt(dir, s)  d == Hold(dir, v)  l == [loc[t] EXCEPT !.vw = v]
  <1>1. /\ work \in Workloads /\ dir \in DirType /\ ThreadAt(pc[t], loc[t], proc[t])
        /\ \A x \in Views : Spare(dir, x) \in Int
    BY Facts
  <1>2. /\ pc[t] = "vget" /\ work' = work /\ fhs' = fhs /\ proc' = proc
        /\ \/ Return(t) /\ dir' = dir
           \/ Goto(t, "oops", loc[t]) /\ dir' = dir
           \/ s \in Present(dir) /\ dir' = d /\ Goto(t, "vgetnode", l)
    BY DEF VgetView, Step, Same, Stay
  <1>3. loc[t].vw = Null /\ loc[t].base = Null  BY <1>2, Held DEF Before, Making
  <1>4. proc[t].cwd = Nowhere /\ loc[t].op = "vget" /\ loc[t].fh \in Handles /\ loc[t] \in LocType /\ proc[t] \in ProcType
    BY <1>1, <1>2 DEF ThreadAt
  <1>. HIDE DEF s
  <1>5. CASE Return(t) /\ dir' = dir
    <2>1. \A x \in Views : Spare(dir', x) = Spare(dir, x) - One(loc[t].vw = x /\ pc[t] \notin After) - One(loc[t].base = x)
      BY <1>1, <1>3, <1>5, Consts DEF One
    <2>2. Kept(dir, dir') /\ dir' \in DirType  BY <1>1, <1>5 DEF Kept
    <2>. QED  BY <1>2, <1>5, <2>1, <2>2, Ended
  <1>6. CASE Goto(t, "oops", loc[t]) /\ dir' = dir
    <2>. DEFINE p == "oops"  k == loc[t]
    <2>1. Goto(t, p, k) /\ p = "oops" /\ k = loc[t]  BY <1>6
    <2>. HIDE DEF p, k
    <2>2. ThreadAt(p, k, proc[t])  BY <1>3, <1>4, <2>1 DEF ThreadAt, Before, Within, After, Making
    <2>3. \A x \in Views : Spare(dir', x) = Spare(dir, x) - One(loc[t].vw = x) - One(loc[t].base = x)
                                                          + One(k.vw = x) + One(k.base = x)
      BY <1>1, <1>3, <1>6, <2>1, Consts DEF One
    <2>4. Kept(dir, dir') /\ dir' \in DirType  BY <1>1, <1>6 DEF Kept
    <2>5. p \in Before \cup Within /\ p # "idle" /\ p # "ask" /\ pc[t] \notin After  BY <1>2, <2>1 DEF Before, After
    <2>. QED  BY <1>2, <1>4, <2>1, <2>2, <2>3, <2>4, <2>5, GoesOn
  <1>7. CASE s \in Present(dir) /\ dir' = d /\ Goto(t, "vgetnode", l)
    <2>. DEFINE p == "vgetnode"
    <2>1. v \in Views  BY <1>1, <1>7 DEF Present, VwAt, DirType, Entries
    <2>2. dir' = d /\ Goto(t, p, l) /\ p = "vgetnode"  BY <1>7
    <2>. HIDE DEF v, p
    <2>3. l \in LocType /\ l.vw = v /\ l.base = loc[t].base /\ l.dead = loc[t].dead /\ l.op = loc[t].op /\ l.fh = loc[t].fh
      BY <2>1, WithView
    <2>. HIDE DEF l
    <2>4. d \in DirType /\ Kept(dir, d) /\ \A x \in Views : Spare(d, x) = Spare(dir, x) + One(x = v)
      BY <1>1, <2>1, HoldIn
    <2>. HIDE DEF d
    <2>5. v # Null  BY <1>1, <2>1, Consts
    <2>6. ThreadAt(p, l, proc[t])  BY <1>3, <1>4, <2>2, <2>3, <2>5 DEF ThreadAt, Before, Within, After, Making
    <2>7. \A x \in Views : Spare(dir', x) = Spare(dir, x) - One(loc[t].vw = x) - One(loc[t].base = x)
                                                          + One(l.vw = x) + One(l.base = x)
      BY <1>1, <1>3, <2>2, <2>3, <2>4, Consts DEF One
    <2>8. p \in Before \cup Within /\ p # "idle" /\ p # "ask" /\ pc[t] \notin After  BY <1>2, <2>2 DEF Within, After
    <2>9. dir' \in DirType /\ Kept(dir, dir')  BY <2>2, <2>4
    <2>. QED  BY <1>2, <2>2, <2>3, <2>6, <2>7, <2>8, <2>9, GoesOn
  <1>. QED  BY <1>2, <1>5, <1>6, <1>7

\* A thread enters a VOB root, or leaves one.
Enters(t) == \A x \in Views, y \in Vobs :
  (dir'.vw[x].mn[y] = "used") =
    (proc'[t].cwd = [vw |-> x, vob |-> y]
     \/ (dir.vw[x].mn[y] = "used" /\ ~(proc[t].cwd = [vw |-> x, vob |-> y] /\ Using(x, y) = {t})))

LEMMA Went ==
  ASSUME ViewsInv, NEW t \in Threads, work' = work, fhs' = fhs, Others(t), dir' \in DirType,
         ThreadAt(pc'[t], loc'[t], proc'[t]),
         \A v \in Views : Spare(dir', v) = Spare(dir, v) + Share(pc'[t], loc'[t], proc'[t], v)
                                                         - Share(pc[t], loc[t], proc[t], v),
         \A x \in Views : dir'.vw[x].id \in {0, dir.vw[x].id}, Enters(t),
         loc'[t].dead \subseteq loc[t].dead,
         pc'[t] \in {"ask", "bound"} => loc'[t].vw \notin loc'[t].dead
  PROVE  ViewsInv'
  <1>1. Nodes(dir)'
    <2>. SUFFICES ASSUME NEW x \in Views, NEW y \in Vobs
         PROVE  (dir'.vw[x].mn[y] = "used") = (Using(x, y)' # {})
      BY DEF Nodes
    <2>. DEFINE c == [vw |-> x, vob |-> y]  A == Using(x, y)  B == Using(x, y)'
    <2>1. (dir.vw[x].mn[y] = "used") = (A # {})  BY DEF ViewsInv, Nodes
    <2>2. /\ A \subseteq Threads /\ B \subseteq Threads /\ (t \in A) = (proc[t].cwd = c) /\ (t \in B) = (proc'[t].cwd = c)
      BY DEF Using
    <2>3. \A u \in Threads \ {t} : (u \in A) = (u \in B)  BY DEF Using, Others
    <2>4. (dir'.vw[x].mn[y] = "used") = (proc'[t].cwd = c \/ (dir.vw[x].mn[y] = "used" /\ ~(proc[t].cwd = c /\ A = {t})))
      BY DEF Enters
    <2>. HIDE DEF A, B, c
    <2>5. (dir'.vw[x].mn[y] = "used") = (t \in B \/ (A # {} /\ ~(t \in A /\ A = {t})))  BY <2>1, <2>2, <2>4
    <2>6. (t \in B \/ (A # {} /\ A # {t})) = (B # {})
      <3>1. CASE t \in B  BY <3>1
      <3>2. CASE t \notin B
        <4>1. B = A \ {t}  BY <2>2, <2>3, <3>2
        <4>. QED  BY <3>2, <4>1
      <3>. QED  BY <3>1, <3>2
    <2>7. (dir'.vw[x].mn[y] = "used") = (B # {})  BY <2>5, <2>6
    <2>. QED  BY <2>7 DEF B
  <1>2. DeadGone(dir)'
    <2>. SUFFICES ASSUME NEW u \in Threads, NEW v \in loc'[u].dead PROVE dir'.vw[v].id = 0
      BY DEF DeadGone
    <2>1. v \in loc[u].dead  BY DEF Others
    <2>2. v \in Views  BY <2>1 DEF ViewsInv, Functions, LocType
    <2>3. dir.vw[v].id = 0  BY <2>1 DEF ViewsInv, DeadGone
    <2>. QED  BY <2>2, <2>3
  <1>3. fhs' \subseteq Handles  BY DEF ViewsInv
  <1>. QED  BY <1>1, <1>2, <1>3, Moved

\* The process has gone to c.
LEMMA Gone ==
  ASSUME ViewsInv, NEW t \in Threads, NEW c \in CwdType, proc' = [proc EXCEPT ![t].cwd = c]
  PROVE  /\ proc' \in [Threads -> ProcType] /\ \A u \in Threads \ {t} : proc'[u] = proc[u]
         /\ proc'[t].cwd = c /\ proc'[t].view = proc[t].view
  BY ProcSame DEF ProcType

LEMMA VgetNodeKeeps ==
  ASSUME ViewsInv, NEW t \in Threads, VgetNode(t) PROVE ViewsInv'
  <1>. DEFINE v == loc[t].vw  h == loc[t].fh  m == h.vob  l == loc[t]  c == [vw |-> v, vob |-> m]
              d == Activate(dir, v, m)  p == "got"
  <1>1. /\ work \in Workloads /\ dir \in DirType /\ ThreadAt(pc[t], loc[t], proc[t])
        /\ \A x \in Views : Spare(dir, x) \in Int /\ Spare(dir, x) >= 0
    BY Facts
  <1>2. /\ pc[t] = "vgetnode" /\ work' = work /\ fhs' = fhs
        /\ \/ dir' = Rele(d, v) /\ proc' = [proc EXCEPT ![t].cwd = c] /\ Goto(t, p, l)
           \/ dir' = Rele(dir, v) /\ Return(t) /\ proc' = proc
    BY DEF VgetNode, Step, Same, Stay
  <1>3. v \in Views /\ Spare(dir, v) >= 1 /\ loc[t].vw = v /\ loc[t].base = Null  BY <1>2, Held DEF Within, Making
  <1>4. proc[t].cwd = Nowhere /\ loc[t].op = "vget" /\ h \in Handles /\ loc[t] \in LocType /\ proc[t] \in ProcType
    BY <1>1, <1>2 DEF ThreadAt
  <1>5. m \in Vobs  BY <1>4 DEF Handles
  <1>6. v # Null /\ m # Null /\ Nowhere = [vw |-> Null, vob |-> Null]  BY <1>1, <1>3, <1>5, Consts
  <1>0. p = "got" /\ l = loc[t]  OBVIOUS
  <1>. HIDE DEF v, h, m, l, p
  <1>7. CASE dir' = Rele(dir, v) /\ Return(t) /\ proc' = proc
    <2>. DEFINE e == Rele(dir, v)
    <2>1. e \in DirType /\ Kept(dir, e) /\ \A x \in Views : Spare(e, x) = Spare(dir, x) - One(x = v)
      BY <1>1, <1>3, ReleIn
    <2>. HIDE DEF e
    <2>2. dir' = e  BY <1>7 DEF e
    <2>3. \A x \in Views : Spare(dir', x) = Spare(dir, x) - One(loc[t].vw = x /\ pc[t] \notin After) - One(loc[t].base = x)
      BY <1>1, <1>2, <1>3, <2>1, <2>2, Consts DEF One, After
    <2>. QED  BY <1>2, <1>7, <2>1, <2>2, <2>3, Ended
  <1>8. CASE dir' = Rele(d, v) /\ proc' = [proc EXCEPT ![t].cwd = c] /\ Goto(t, p, l)
    <2>1. c \in CwdType /\ c.vw = v /\ c.vob = m  BY <1>3, <1>5, <1>6 DEF CwdType
    <2>2. \A x, y : (c = [vw |-> x, vob |-> y]) = (x = v /\ y = m)  OBVIOUS
    <2>. HIDE DEF c
    <2>3. /\ proc' \in [Threads -> ProcType] /\ \A u \in Threads \ {t} : proc'[u] = proc[u]
          /\ proc'[t].cwd = c /\ proc'[t].view = proc[t].view
      BY <1>8, <2>1, Gone
    <2>4. p \in Before \cup Within \cup After /\ p # "idle"  BY <1>0 DEF After
    <2>5. Others(t) /\ pc'[t] = p /\ loc'[t] = l  BY <1>0, <1>4, <1>8, <2>3, <2>4, GotoOthers
    <2>6. ThreadAt(pc'[t], loc'[t], proc'[t])
      <3>1. proc'[t] \in ProcType  BY <2>3
      <3>. QED  BY <1>0, <1>3, <1>4, <1>6, <2>1, <2>3, <2>5, <3>1 DEF ThreadAt, Before, Within, After, Making, h
    <2>7. /\ d \in DirType /\ d.slot = dir.slot /\ d.exp = dir.exp
          /\ \A x \in Views : d.vw[x].id = dir.vw[x].id /\ Spare(d, x) = Spare(dir, x)
          /\ \A x \in Views, y \in Vobs : (d.vw[x].mn[y] = "used") = ((x = v /\ y = m) \/ dir.vw[x].mn[y] = "used")
      BY <1>1, <1>3, <1>5, ActivateIn
    <2>. HIDE DEF d
    <2>. DEFINE e == Rele(d, v)
    <2>8. /\ e \in DirType /\ Kept(d, e) /\ \A x \in Views : Spare(e, x) = Spare(d, x) - One(x = v)
      BY <1>1, <1>3, <2>7, ReleIn
    <2>. HIDE DEF e
    <2>9. dir' = e  BY <1>8 DEF e
    <2>10. \A x \in Views : Spare(dir', x) = Spare(dir, x) + Share(pc'[t], loc'[t], proc'[t], x)
                                                           - Share(pc[t], loc[t], proc[t], x)
      <3>. SUFFICES ASSUME NEW x \in Views
           PROVE  Spare(dir', x) = Spare(dir, x) + Share(pc'[t], loc'[t], proc'[t], x)
                                                 - Share(pc[t], loc[t], proc[t], x)
        OBVIOUS
      <3>1. x # Null /\ Spare(dir, x) \in Int  BY <1>1, Consts
      <3>2. Spare(dir', x) = Spare(dir, x) - One(x = v)  BY <2>7, <2>8, <2>9
      <3>3. proc[t].cwd # [vw |-> x, vob |-> Null] /\ proc'[t].cwd # [vw |-> x, vob |-> Null]
        BY <1>4, <1>6, <2>2, <2>3, <3>1
      <3>4. pc'[t] \in After /\ pc[t] \notin After  BY <1>0, <1>2, <2>5 DEF After
      <3>. QED  BY <1>0, <1>3, <2>3, <2>5, <3>1, <3>2, <3>3, <3>4 DEF Share, One
    <2>11. \A x \in Views : dir'.vw[x].id \in {0, dir.vw[x].id}  BY <2>7, <2>8, <2>9 DEF Kept
    <2>12. Enters(t)
      <3>. SUFFICES ASSUME NEW x \in Views, NEW y \in Vobs
           PROVE  (dir'.vw[x].mn[y] = "used") =
                    (proc'[t].cwd = [vw |-> x, vob |-> y]
                     \/ (dir.vw[x].mn[y] = "used" /\ ~(proc[t].cwd = [vw |-> x, vob |-> y] /\ Using(x, y) = {t})))
        BY DEF Enters
      <3>1. (dir'.vw[x].mn[y] = "used") = ((x = v /\ y = m) \/ dir.vw[x].mn[y] = "used")  BY <2>7, <2>8, <2>9 DEF Kept
      <3>2. x # Null  BY <1>1, Consts
      <3>3. proc[t].cwd # [vw |-> x, vob |-> y]  BY <1>4, <1>6, <3>2
      <3>4. (proc'[t].cwd = [vw |-> x, vob |-> y]) = (x = v /\ y = m)  BY <2>2, <2>3
      <3>. QED  BY <3>1, <3>3, <3>4
    <2>13. pc'[t] \notin {"ask", "bound"} /\ loc'[t].dead \subseteq loc[t].dead  BY <1>0, <2>5
    <2>14. dir' \in DirType  BY <2>8, <2>9
    <2>. QED  BY <1>2, <2>5, <2>6, <2>10, <2>11, <2>12, <2>13, <2>14, Went
  <1>. QED  BY <1>2, <1>7, <1>8

LEMMA GotKeeps ==
  ASSUME ViewsInv, NEW t \in Threads, Got(t) \/ Bound(t) PROVE ViewsInv'
  <1>1. /\ work \in Workloads /\ dir \in DirType /\ \A x \in Views : Spare(dir, x) \in Int
    BY Facts
  <1>2. pc[t] \in After /\ work' = work /\ fhs' = fhs /\ proc' = proc /\ dir' = dir /\ Return(t)
    BY DEF Got, Bound, Step, Same, Stay, After
  <1>3. loc[t].base = Null  BY <1>2, Held DEF After, Making
  <1>4. Kept(dir, dir') /\ dir' \in DirType  BY <1>1, <1>2 DEF Kept
  <1>5. \A x \in Views : Spare(dir', x) = Spare(dir, x) - One(loc[t].vw = x /\ pc[t] \notin After) - One(loc[t].base = x)
    BY <1>1, <1>2, <1>3, Consts DEF One
  <1>. QED  BY <1>2, <1>4, <1>5, Ended

-----------------------------------------------------------------------------
(* History mode views.                                                     *)

Based(k, b, v) == [k EXCEPT !.base = b, !.vw = v]
LEMMA BasedIn ==
  ASSUME NEW k \in LocType, NEW b \in Views, NEW v \in Views \cup {Null}
  PROVE  /\ Based(k, b, v) \in LocType /\ Based(k, b, v).vw = v /\ Based(k, b, v).base = b
         /\ Based(k, b, v).dead = k.dead /\ Based(k, b, v).op = k.op /\ Based(k, b, v).tag = k.tag
  BY DEF LocType, Based

LEMMA TaggedIn ==
  ASSUME NEW k \in LocType, NEW g \in Tags
  PROVE  LET l == [k EXCEPT !.tag = g]
         IN  l \in LocType /\ l.vw = k.vw /\ l.base = k.base /\ l.dead = k.dead /\ l.op = k.op /\ l.tag = g
  BY DEF LocType

LEMMA HmFindKeeps ==
  ASSUME ViewsInv, NEW t \in Threads, HmFind(t) PROVE ViewsInv'
  <1>. DEFINE v == loc[t].vw  i == dir.vw[v].id  g == dir.slot[i].nm.tag  S == SlotOf(dir, Name(g, TRUE))
              u == VwAt(dir, Least(S))  l == [loc[t] EXCEPT !.base = v, !.vw = u]
              k == [loc[t] EXCEPT !.tag = g, !.base = v, !.vw = Null]
  <1>1. /\ work \in Workloads /\ dir \in DirType /\ ThreadAt(pc[t], loc[t], proc[t])
        /\ \A x \in Views : Spare(dir, x) \in Int
    BY Facts
  <1>2. /\ pc[t] = "hm" /\ work' = work /\ fhs' = fhs /\ proc' = proc
        /\ \/ dir' = Rele(dir, v) /\ Return(t)
           \/ i \in Present(dir) /\ S # {} /\ dir' = Hold(dir, u) /\ Goto(t, "hmfill", l)
           \/ i \in Present(dir) /\ dir' = dir /\ Goto(t, "hmnew", k)
    BY DEF HmFind, HmStale, Step, Same, Stay, Name
  <1>3. v \in Views /\ Spare(dir, v) >= 1 /\ loc[t].vw = v /\ loc[t].base = Null  BY <1>2, Held DEF Within, Making
  <1>4. loc[t].op = "hm" /\ loc[t] \in LocType /\ proc[t] \in ProcType /\ proc[t].cwd = Nowhere
    BY <1>1, <1>2 DEF ThreadAt
  <1>5. v # Null  BY <1>1, <1>3, Consts
  <1>6. i \in Present(dir) => g \in Tags
    BY <1>1 DEF Present, DirType, Entries, Nms
  <1>. HIDE DEF v, i
  <1>7. CASE dir' = Rele(dir, v) /\ Return(t)
    <2>. DEFINE e == Rele(dir, v)
    <2>1. e \in DirType /\ Kept(dir, e) /\ \A x \in Views : Spare(e, x) = Spare(dir, x) - One(x = v)
      BY <1>1, <1>3, ReleIn
    <2>. HIDE DEF e
    <2>2. dir' = e  BY <1>7 DEF e
    <2>3. \A x \in Views : Spare(dir', x) = Spare(dir, x) - One(loc[t].vw = x /\ pc[t] \notin After) - One(loc[t].base = x)
      BY <1>1, <1>2, <1>3, <2>1, <2>2, Consts DEF One, After
    <2>. QED  BY <1>2, <1>7, <2>1, <2>2, <2>3, Ended
  <1>8. CASE S # {} /\ dir' = Hold(dir, u) /\ Goto(t, "hmfill", l)
    <2>. DEFINE p == "hmfill"  d == Hold(dir, u)
    <2>1. u \in Views  BY <1>1, <1>8, SlotIn
    <2>2. dir' = d /\ Goto(t, p, l) /\ p = "hmfill"  BY <1>8
    <2>. HIDE DEF S, u, p
    <2>3. l \in LocType /\ l.vw = u /\ l.base = v /\ l.dead = loc[t].dead /\ l.op = loc[t].op
      <3>1. l = Based(loc[t], v, u)  BY DEF Based
      <3>. HIDE DEF l
      <3>. QED  BY <1>3, <1>4, <2>1, <3>1, BasedIn
    <2>. HIDE DEF l
    <2>4. d \in DirType /\ Kept(dir, d) /\ \A x \in Views : Spare(d, x) = Spare(dir, x) + One(x = u)
      BY <1>1, <2>1, HoldIn
    <2>. HIDE DEF d
    <2>5. u # Null  BY <1>1, <2>1, Consts
    <2>6. ThreadAt(p, l, proc[t])  BY <1>4, <1>5, <2>2, <2>3, <2>5 DEF ThreadAt, Before, Within, After, Making
    <2>7. \A x \in Views : Spare(dir', x) = Spare(dir, x) - One(loc[t].vw = x) - One(loc[t].base = x)
                                                          + One(l.vw = x) + One(l.base = x)
      BY <1>1, <1>3, <2>2, <2>3, <2>4, Consts DEF One
    <2>8. p \in Before \cup Within /\ p # "idle" /\ p # "ask" /\ pc[t] \notin After  BY <1>2, <2>2 DEF Within, After
    <2>9. dir' \in DirType /\ Kept(dir, dir')  BY <2>2, <2>4
    <2>. QED  BY <1>2, <2>2, <2>3, <2>6, <2>7, <2>8, <2>9, GoesOn
  <1>9. CASE i \in Present(dir) /\ dir' = dir /\ Goto(t, "hmnew", k)
    <2>. DEFINE p == "hmnew"  n == Null
    <2>1. Goto(t, p, k) /\ p = "hmnew" /\ g \in Tags  BY <1>6, <1>9
    <2>2. k = [loc[t] EXCEPT !.tag = g, !.base = v, !.vw = n] /\ n \in Views \cup {Null}  OBVIOUS
    <2>. HIDE DEF p, k, g, n
    <2>3. k \in LocType /\ k.vw = n /\ k.base = v /\ k.dead = loc[t].dead /\ k.op = loc[t].op /\ k.tag = g
      <3>. DEFINE r == [loc[t] EXCEPT !.tag = g]  e == Based(r, v, n)
      <3>1. r \in LocType /\ r.dead = loc[t].dead /\ r.op = loc[t].op /\ r.tag = g
        BY <1>4, <2>1, TaggedIn
      <3>2. k = e  BY <2>2 DEF Based
      <3>. HIDE DEF r
      <3>3. e \in LocType /\ e.vw = n /\ e.base = v /\ e.dead = r.dead /\ e.op = r.op /\ e.tag = r.tag
        BY <1>3, <2>2, <3>1, BasedIn
      <3>. HIDE DEF e
      <3>. QED  BY <3>1, <3>2, <3>3
    <2>0. n = Null  BY DEF n
    <2>4. Kept(dir, dir') /\ dir' \in DirType  BY <1>1, <1>9 DEF Kept
    <2>5. ThreadAt(p, k, proc[t])  BY <1>4, <1>5, <2>0, <2>1, <2>3 DEF ThreadAt, Before, Within, After, Making
    <2>6. \A x \in Views : Spare(dir', x) = Spare(dir, x) - One(loc[t].vw = x) - One(loc[t].base = x)
                                                          + One(k.vw = x) + One(k.base = x)
      BY <1>1, <1>3, <1>9, <2>0, <2>3, Consts DEF One
    <2>7. p \in Before \cup Within /\ p # "idle" /\ p # "ask" /\ pc[t] \notin After  BY <1>2, <2>1 DEF Before, After
    <2>. QED  BY <1>2, <2>1, <2>3, <2>4, <2>5, <2>6, <2>7, GoesOn
  <1>. QED  BY <1>2, <1>7, <1>8, <1>9

LEMMA HmReady ==
  ASSUME ViewsInv, NEW t \in Threads, pc[t] = "hmnew", NEW v \in Views, NEW p, p = "hmid"
  PROVE  Ready(p, t, v) /\ p \in Within /\ p # "ask"
  <1>. SUFFICES ASSUME NEW n \in Nat PROVE ThreadAt(p, [loc[t] EXCEPT !.vw = v, !.num = n], proc[t])
    BY DEF Ready, Within
  <1>. DEFINE l == [loc[t] EXCEPT !.vw = v, !.num = n]
  <1>1. work \in Workloads /\ ThreadAt(pc[t], loc[t], proc[t]) /\ loc[t] \in LocType  BY Facts, ProcSame
  <1>2. l \in LocType /\ l.vw = v /\ l.base = loc[t].base /\ l.op = loc[t].op  BY <1>1 DEF LocType
  <1>. HIDE DEF l
  <1>3. /\ loc[t].base # Null /\ proc[t] \in ProcType /\ v # Null /\ loc[t].op = "hm" /\ proc[t].cwd = Nowhere
    BY <1>1, Consts DEF ThreadAt, Making
  <1>4. ThreadAt(p, l, proc[t])  BY <1>2, <1>3 DEF ThreadAt, Before, Within, After, Making
  <1>. QED  BY <1>4 DEF l

LEMMA HmNewKeeps ==
  ASSUME ViewsInv, NEW t \in Threads, HmNew(t) PROVE ViewsInv'
  <1>. DEFINE v == CHOOSE x \in NewView : TRUE  nm == Name(loc[t].tag, TRUE)  d == MakeView(dir, v, nm)
              p == "hmid"
  <1>1. /\ pc[t] = "hmnew" /\ work' = work /\ fhs' = fhs /\ proc' = proc
        /\ NewView # {} /\ Add(t, d, v, nm, p, loc[t])
    BY DEF HmNew, Step, Same, Stay
  <1>2. p = "hmid"  OBVIOUS
  <1>. HIDE DEF p
  <1>4. work \in Workloads /\ dir \in DirType /\ ThreadAt(pc[t], loc[t], proc[t])  BY Facts
  <1>5. nm \in Nms  BY <1>1, <1>4 DEF ThreadAt, Name, Nms
  <1>. HIDE DEF nm
  <1>6. v \in Views /\ d \in DirType /\ Kept(dir, d) /\ \A x \in Views : Spare(d, x) = Spare(dir, x) + One(x = v)
    BY <1>1, <1>5, NewViewIn
  <1>. HIDE DEF v, d
  <1>7. Ready(p, t, v) /\ p \in Within /\ p # "ask"  BY <1>1, <1>2, <1>6, HmReady
  <1>. QED  BY <1>1, <1>5, <1>6, <1>7, Added

LEMMA HmFillKeeps ==
  ASSUME ViewsInv, NEW t \in Threads, HmFill(t) PROVE ViewsInv'
  <1>. DEFINE v == loc[t].vw  b == loc[t].base  a == dir.vw[b].uuid  f == dir.vw[b].full
              w == [dir.vw[v] EXCEPT !.uuid = a, !.full = f, !.hm = TRUE]
              d == [dir EXCEPT !.vw[v] = w]  p == "view"  l == [loc[t] EXCEPT !.base = Null]
  <1>1. /\ work \in Workloads /\ dir \in DirType /\ ThreadAt(pc[t], loc[t], proc[t])
        /\ \A x \in Views : Spare(dir, x) \in Int
    BY Facts
  <1>2. /\ pc[t] = "hmfill" /\ work' = work /\ fhs' = fhs /\ proc' = proc /\ dir' = Rele(d, b) /\ Goto(t, p, l)
    BY DEF HmFill, Step, Same, Stay
  <1>3. v \in Views /\ b \in Views /\ Spare(dir, b) >= 1 /\ loc[t].vw = v /\ loc[t].base = b
    BY <1>2, Held DEF Within, Making
  <1>4. loc[t].op = "hm" /\ loc[t] \in LocType /\ proc[t] \in ProcType /\ proc[t].cwd = Nowhere
    BY <1>1, <1>2 DEF ThreadAt, Making
  <1>5. v # Null /\ b # Null  BY <1>1, <1>3, Consts
  <1>6. dir.vw[v] \in ViewType /\ dir.vw[b] \in ViewType  BY <1>1, <1>3, Parts
  <1>7. a \in Uuids \cup {Null} /\ f \in BOOLEAN  BY <1>6 DEF ViewType
  <1>8. p = "view" /\ l \in LocType /\ l.vw = v /\ l.base = Null /\ l.dead = loc[t].dead /\ l.op = loc[t].op
    BY <1>3, <1>4 DEF LocType
  <1>. HIDE DEF v, b, a, f, p, l
  <1>9. w \in ViewType /\ w.cnt = dir.vw[v].cnt /\ w.mn = dir.vw[v].mn /\ w.id = dir.vw[v].id
    BY <1>6, <1>7 DEF ViewType
  <1>. HIDE DEF w
  <1>10. d \in DirType /\ Kept(dir, d) /\ \A x \in Views : Spare(d, x) = Spare(dir, x)
    BY <1>1, <1>3, <1>9, Noted
  <1>. HIDE DEF d
  <1>. DEFINE e == Rele(d, b)
  <1>11. e \in DirType /\ Kept(d, e) /\ \A x \in Views : Spare(e, x) = Spare(d, x) - One(x = b)
    BY <1>1, <1>3, <1>10, ReleIn
  <1>. HIDE DEF e
  <1>12. dir' = e  BY <1>2 DEF e
  <1>13. ThreadAt(p, l, proc[t])  BY <1>4, <1>5, <1>8 DEF ThreadAt, Before, Within, After, Making
  <1>14. \A x \in Views : Spare(dir', x) = Spare(dir, x) - One(loc[t].vw = x) - One(loc[t].base = x)
                                                         + One(l.vw = x) + One(l.base = x)
    BY <1>1, <1>3, <1>8, <1>10, <1>11, <1>12, Consts DEF One
  <1>15. p \in Before \cup Within /\ p # "idle" /\ p # "ask" /\ pc[t] \notin After  BY <1>2, <1>8 DEF Within, After
  <1>16. dir' \in DirType /\ Kept(dir, dir')  BY <1>10, <1>11, <1>12 DEF Kept
  <1>. QED  BY <1>2, <1>8, <1>13, <1>14, <1>15, <1>16, GoesOn

\* mfs_viewdircleanhm touches no thread.
LEMMA NoThread ==
  ASSUME ViewsInv, UNCHANGED <<work, proc, pc, loc, fhs>>, dir' \in DirType, Kept(dir, dir'),
         \A x \in Views : Spare(dir', x) = Spare(dir, x)
  PROVE  ViewsInv'
  <1>1. (work \in Workloads /\ fhs \subseteq Handles /\ dir \in DirType /\ Functions)'
    BY DEF ViewsInv, DirType, Slots, Functions
  <1>2. (\A t \in Threads : ThreadAt(pc[t], loc[t], proc[t]))'  BY DEF ViewsInv
  <1>3. \A v \in Views : Spare(dir, v)' = Spare(dir', v) /\ Taken(v)' = Taken(v)
    BY DEF Spare, InSlots, Slots, Taken, Setting, InTag, Working, Basing
  <1>4. Counts'  BY <1>3 DEF ViewsInv, Counts
  <1>5. Nodes(dir)'  BY DEF ViewsInv, Nodes, Using, Kept
  <1>6. DeadGone(dir)'
    <2>. SUFFICES ASSUME NEW u \in Threads, NEW v \in loc[u].dead PROVE dir'.vw[v].id = 0
      BY DEF DeadGone
    <2>1. v \in Views  BY DEF ViewsInv, Functions, LocType
    <2>2. dir.vw[v].id = 0  BY DEF ViewsInv, DeadGone
    <2>. QED  BY <2>1, <2>2 DEF Kept
  <1>7. (\A t \in Threads : /\ pc[t] = "ask" => loc[t].vw \notin loc[t].dead
                           /\ pc[t] = "bound" => loc[t].vw \notin loc[t].dead)'
    BY DEF ViewsInv
  <1>. QED  BY <1>1, <1>2, <1>4, <1>5, <1>6, <1>7 DEF ViewsInv

LEMMA SpareNat == ViewsInv => \A v \in Views : Spare(dir, v) \in Int /\ Spare(dir, v) >= 0
  <1>. SUFFICES ASSUME ViewsInv, NEW v \in Views PROVE Spare(dir, v) \in Int /\ Spare(dir, v) >= 0
    OBVIOUS
  <1>1. work \in Workloads  BY DEF ViewsInv
  <1>2. Spare(dir, v) = Taken(v)  BY DEF ViewsInv, Counts
  <1>. DEFINE A == Setting(v)  B == InTag(v)  C == Working(v)  D == Basing(v)
  <1>3. IsFiniteSet(A) /\ IsFiniteSet(B) /\ IsFiniteSet(C) /\ IsFiniteSet(D)
    <2>1. IsFiniteSet(Threads)  BY <1>1, Consts
    <2>. QED  BY <2>1, FS_Subset DEF Setting, InTag, Working, Basing
  <1>4. Taken(v) = Cardinality(A) + Cardinality(B) + Cardinality(C) + Cardinality(D)  BY DEF Taken
  <1>. HIDE DEF A, B, C, D
  <1>. QED  BY <1>2, <1>3, <1>4, FS_CardinalityType

LEMMA CleanHmKeeps ==
  ASSUME ViewsInv, CleanHm PROVE ViewsInv'
  <1>1. PICK i \in Present(dir) :
          LET v == VwAt(dir, i)
              d == FlushVw(dir, v)
          IN  /\ dir' = IF d.vw[v].cnt = 1 THEN Rele(RamdirRemove(d, i), v) ELSE d
              /\ UNCHANGED <<work, proc, pc, loc, fhs>>
    BY DEF CleanHm
  <1>. DEFINE v == VwAt(dir, i)  d == FlushVw(dir, v)  f == RamdirRemove(d, i)  e == Rele(f, v)
  <1>2. work \in Workloads /\ dir \in DirType /\ \A x \in Views : Spare(dir, x) \in Int /\ Spare(dir, x) >= 0
    BY SpareNat DEF ViewsInv
  <1>3. v \in Views  BY <1>2 DEF Present, VwAt, DirType, Entries
  <1>4. (dir' = e \/ dir' = d) /\ UNCHANGED <<work, proc, pc, loc, fhs>>  BY <1>1
  <1>0. v = VwAt(dir, i)  OBVIOUS
  <1>. HIDE DEF v
  <1>5. d \in DirType /\ d.slot = dir.slot /\ Kept(dir, d) /\ \A x \in Views : Spare(d, x) = Spare(dir, x)
    BY <1>2, <1>3, FlushVwIn
  <1>. HIDE DEF d
  <1>6. i \in Present(d) /\ VwAt(d, i) = v  BY <1>0, <1>5 DEF Present, VwAt
  <1>7. f \in DirType /\ Kept(d, f) /\ \A x \in Views : Spare(f, x) = Spare(d, x) + One(x = VwAt(d, i))
    BY <1>2, <1>5, <1>6, RemoveIn
  <1>. HIDE DEF f
  <1>8. Spare(f, v) >= 1  BY <1>2, <1>3, <1>5, <1>6, <1>7 DEF One
  <1>9. e \in DirType /\ Kept(f, e) /\ \A x \in Views : Spare(e, x) = Spare(f, x) - One(x = v)
    BY <1>2, <1>3, <1>7, <1>8, ReleIn
  <1>. HIDE DEF e
  <1>10. \A x \in Views : Spare(e, x) = Spare(dir, x)  BY <1>2, <1>5, <1>6, <1>7, <1>9 DEF One
  <1>11. Kept(dir, e)  BY <1>5, <1>7, <1>9 DEF Kept
  <1>12. dir' \in DirType /\ Kept(dir, dir') /\ \A x \in Views : Spare(dir', x) = Spare(dir, x)
    BY <1>4, <1>5, <1>9, <1>10, <1>11
  <1>. QED  BY <1>4, <1>12, NoThread

-----------------------------------------------------------------------------
(* The views of processes.                                                 *)

LEMMA ReleIfIn ==
  ASSUME work \in Workloads, NEW d \in DirType, NEW v \in Views \cup {Null}, v # Null => Spare(d, v) >= 1
  PROVE  LET e == ReleIf(d, v)
         IN  e \in DirType /\ Kept(d, e) /\ \A x \in Views : Spare(e, x) = Spare(d, x) - One(x = v)
  <1>1. CASE v = Null
    <2>1. ReleIf(d, v) = d  BY <1>1 DEF ReleIf
    <2>2. \A x \in Views : Spare(d, x) \in Int  BY Parts
    <2>. QED  BY <1>1, <2>1, <2>2, Consts DEF Kept, One
  <1>2. CASE v # Null
    <2>. DEFINE e == Rele(d, v)
    <2>1. e \in DirType /\ Kept(d, e) /\ \A x \in Views : Spare(e, x) = Spare(d, x) - One(x = v)
      BY <1>2, ReleIn
    <2>. HIDE DEF e
    <2>2. ReleIf(d, v) = e  BY <1>2 DEF ReleIf, e
    <2>. QED  BY <2>1, <2>2
  <1>. QED  BY <1>1, <1>2

\* The process has view v set.
LEMMA NowSet ==
  ASSUME ViewsInv, NEW t \in Threads, NEW v \in Views \cup {Null}, proc' = [proc EXCEPT ![t].view = v]
  PROVE  /\ proc' \in [Threads -> ProcType] /\ \A u \in Threads \ {t} : proc'[u] = proc[u]
         /\ proc'[t].view = v /\ proc'[t].cwd = proc[t].cwd
  BY ProcSame DEF ProcType

LEMMA Staying ==
  ASSUME ViewsInv, NEW t \in Threads, pc[t] = "idle", UNCHANGED <<pc, loc>>,
         proc' \in [Threads -> ProcType], \A u \in Threads \ {t} : proc'[u] = proc[u]
  PROVE  Others(t) /\ pc'[t] = "idle" /\ loc'[t] = NoLoc /\ loc[t] = NoLoc
  <1>1. Others(t)  BY DEF Others, Functions, ViewsInv
  <1>2. loc[t] = NoLoc  BY Facts DEF ThreadAt
  <1>. QED  BY <1>1, <1>2

LEMMA NoLocIs ==
  ASSUME work \in Workloads
  PROVE  NoLoc.dead = {} /\ NoLoc.vw = Null /\ NoLoc.base = Null /\ \A v \in Views : v # Null
  BY Consts DEF NoLoc

LEMMA LookupDoneKeeps ==
  ASSUME ViewsInv, NEW t \in Threads, LookupDone(t) PROVE ViewsInv'
  <1>. DEFINE v == loc[t].vw  n == Null  c == [vw |-> v, vob |-> n]
  <1>1. /\ work \in Workloads /\ dir \in DirType /\ ThreadAt(pc[t], loc[t], proc[t])
        /\ \A x \in Views : Spare(dir, x) \in Int
    BY Facts
  <1>2. /\ pc[t] = "view" /\ work' = work /\ fhs' = fhs /\ dir' = dir /\ Return(t)
        /\ proc' = [proc EXCEPT ![t].cwd = c]
    BY DEF LookupDone, Step, Same, Return
  <1>3. v \in Views /\ loc[t].vw = v /\ loc[t].base = Null  BY <1>2, Held DEF Within, Making
  <1>4. proc[t].cwd = Nowhere /\ Nowhere = [vw |-> Null, vob |-> Null]  BY <1>1, <1>2, Consts DEF ThreadAt
  <1>5. v # Null /\ n = Null  BY <1>1, <1>3, Consts
  <1>6. c \in CwdType /\ c.vob = Null /\ \A x : (c = [vw |-> x, vob |-> Null]) = (x = v)  BY <1>3, <1>5 DEF CwdType
  <1>. HIDE DEF v, n, c
  <1>7. /\ proc' \in [Threads -> ProcType] /\ \A u \in Threads \ {t} : proc'[u] = proc[u]
        /\ proc'[t].cwd = c /\ proc'[t].view = proc[t].view
    BY <1>2, <1>6, Gone
  <1>8. Others(t) /\ pc'[t] = "idle" /\ loc'[t] = NoLoc  BY <1>2, <1>7, ReturnIn
  <1>9. proc'[t] \in ProcType  BY <1>7
  <1>10. ThreadAt(pc'[t], loc'[t], proc'[t])  BY <1>1, <1>8, <1>9, IdleAt
  <1>11. \A x \in Views : Spare(dir', x) = Spare(dir, x) + Share(pc'[t], loc'[t], proc'[t], x)
                                                         - Share(pc[t], loc[t], proc[t], x)
    <2>. SUFFICES ASSUME NEW x \in Views
         PROVE  Spare(dir', x) = Spare(dir, x) + Share(pc'[t], loc'[t], proc'[t], x)
                                               - Share(pc[t], loc[t], proc[t], x)
      OBVIOUS
    <2>1. x # Null /\ loc'[t].vw # x /\ loc'[t].base # x /\ loc[t].base # x
      BY <1>1, <1>3, <1>8, NoLocIs
    <2>2. proc[t].cwd # [vw |-> x, vob |-> Null]  BY <1>4, <2>1
    <2>3. (proc'[t].cwd = [vw |-> x, vob |-> Null]) = (x = v)  BY <1>6, <1>7
    <2>4. pc[t] \notin After  BY <1>2 DEF After
    <2>5. Spare(dir', x) = Spare(dir, x) /\ Spare(dir, x) \in Int  BY <1>1, <1>2
    <2>. HIDE <1>1, <1>2
    <2>. QED  BY <1>3, <1>7, <2>1, <2>2, <2>3, <2>4, <2>5 DEF Share, One
  <1>12. loc'[t].dead \subseteq loc[t].dead  BY <1>1, <1>8, NoLocIs
  <1>13. pc'[t] \notin {"ask", "bound"}  BY <1>8
  <1>14. proc'[t].cwd.vob = Null /\ proc[t].cwd.vob = Null  BY <1>4, <1>6, <1>7
  <1>15. dir' \in DirType /\ Kept(dir, dir')  BY <1>1, <1>2 DEF Kept
  <1>. QED  BY <1>2, <1>8, <1>10, <1>11, <1>12, <1>13, <1>14, <1>15, Walked

LEMMA SetProcViewKeeps ==
  ASSUME ViewsInv, NEW t \in Threads, SetProcView(t) PROVE ViewsInv'
  <1>. DEFINE v == loc[t].vw  o == proc[t].view  e == ReleIf(dir, o)
  <1>1. /\ work \in Workloads /\ dir \in DirType /\ ThreadAt(pc[t], loc[t], proc[t])
        /\ \A x \in Views : Spare(dir, x) \in Int
    BY Facts
  <1>2. /\ pc[t] = "set" /\ work' = work /\ fhs' = fhs /\ dir' = e /\ Return(t)
        /\ proc' = [proc EXCEPT ![t].view = v]
    BY DEF SetProcView, Step, Same
  <1>3. v \in Views /\ loc[t].vw = v /\ loc[t].base = Null  BY <1>2, Held DEF Within, Making
  <1>4. o \in Views \cup {Null} /\ (o # Null => Spare(dir, o) >= 1)  BY Held
  <1>0. o = proc[t].view  OBVIOUS
  <1>. HIDE DEF v, o
  <1>5. e \in DirType /\ Kept(dir, e) /\ \A x \in Views : Spare(e, x) = Spare(dir, x) - One(x = o)
    BY <1>1, <1>4, ReleIfIn
  <1>. HIDE DEF e
  <1>7. /\ proc' \in [Threads -> ProcType] /\ \A u \in Threads \ {t} : proc'[u] = proc[u]
        /\ proc'[t].cwd = proc[t].cwd /\ proc'[t].view = v
    BY <1>2, <1>3, NowSet
  <1>8. Others(t) /\ pc'[t] = "idle" /\ loc'[t] = NoLoc  BY <1>2, <1>7, ReturnIn
  <1>9. proc'[t] \in ProcType  BY <1>7
  <1>10. ThreadAt(pc'[t], loc'[t], proc'[t])  BY <1>1, <1>8, <1>9, IdleAt
  <1>11. \A x \in Views : Spare(dir', x) = Spare(dir, x) + Share(pc'[t], loc'[t], proc'[t], x)
                                                         - Share(pc[t], loc[t], proc[t], x)
    <2>. SUFFICES ASSUME NEW x \in Views
         PROVE  Spare(dir', x) = Spare(dir, x) + Share(pc'[t], loc'[t], proc'[t], x)
                                               - Share(pc[t], loc[t], proc[t], x)
      OBVIOUS
    <2>1. x # Null /\ loc'[t].vw # x /\ loc'[t].base # x /\ loc[t].base # x
      BY <1>1, <1>3, <1>8, NoLocIs
    <2>4. pc[t] \notin After  BY <1>2 DEF After
    <2>5. Spare(dir', x) = Spare(dir, x) - One(x = o) /\ Spare(dir, x) \in Int  BY <1>1, <1>2, <1>5
    <2>. QED  BY <1>0, <1>3, <1>7, <2>1, <2>4, <2>5 DEF Share, One
  <1>12. loc'[t].dead \subseteq loc[t].dead  BY <1>1, <1>8, NoLocIs
  <1>13. pc'[t] \notin {"ask", "bound"}  BY <1>8
  <1>15. dir' \in DirType /\ Kept(dir, dir')  BY <1>2, <1>5
  <1>. QED  BY <1>2, <1>7, <1>8, <1>10, <1>11, <1>12, <1>13, <1>15, Walked

\* An idle process changes what it holds, and stays in no VOB or where it is.
LEMMA Sits ==
  ASSUME ViewsInv, NEW t \in Threads, Here(t), UNCHANGED <<pc, loc>>,
         proc' \in [Threads -> ProcType], \A u \in Threads \ {t} : proc'[u] = proc[u],
         dir' \in DirType, Kept(dir, dir'),
         \A x \in Views : Spare(dir', x) = Spare(dir, x)
                            + One(proc'[t].view = x) + One(proc'[t].cwd = [vw |-> x, vob |-> Null])
                            - One(proc[t].view = x) - One(proc[t].cwd = [vw |-> x, vob |-> Null]),
         proc'[t].cwd = proc[t].cwd \/ (proc'[t].cwd.vob = Null /\ proc[t].cwd.vob = Null)
  PROVE  ViewsInv'
  <1>1. work \in Workloads /\ \A x \in Views : Spare(dir, x) \in Int  BY Facts
  <1>2. pc[t] = "idle" /\ work' = work /\ fhs' = fhs  BY DEF Here, Same
  <1>3. Others(t) /\ pc'[t] = "idle" /\ loc'[t] = NoLoc /\ loc[t] = NoLoc  BY <1>2, Staying
  <1>4. proc'[t] \in ProcType  OBVIOUS
  <1>5. ThreadAt(pc'[t], loc'[t], proc'[t])  BY <1>1, <1>3, <1>4, IdleAt
  <1>6. \A x \in Views : Spare(dir', x) = Spare(dir, x) + Share(pc'[t], loc'[t], proc'[t], x)
                                                        - Share(pc[t], loc[t], proc[t], x)
    <2>. SUFFICES ASSUME NEW x \in Views
         PROVE  Spare(dir', x) = Spare(dir, x) + Share(pc'[t], loc'[t], proc'[t], x)
                                               - Share(pc[t], loc[t], proc[t], x)
      OBVIOUS
    <2>1. x # Null /\ loc'[t].vw # x /\ loc'[t].base # x /\ loc[t].vw # x /\ loc[t].base # x
      BY <1>1, <1>3, NoLocIs
    <2>2. Spare(dir', x) = Spare(dir, x)
                            + One(proc'[t].view = x) + One(proc'[t].cwd = [vw |-> x, vob |-> Null])
                            - One(proc[t].view = x) - One(proc[t].cwd = [vw |-> x, vob |-> Null])
      OBVIOUS
    <2>3. Spare(dir, x) \in Int  BY <1>1
    <2>. QED  BY <2>1, <2>2, <2>3 DEF Share, One
  <1>7. loc'[t].dead \subseteq loc[t].dead /\ pc'[t] \notin {"ask", "bound"}  BY <1>3
  <1>. QED  BY <1>2, <1>3, <1>5, <1>6, <1>7, Walked

LEMMA SetHereKeeps ==
  ASSUME ViewsInv, NEW t \in Threads, SetHere(t) PROVE ViewsInv'
  <1>. DEFINE v == proc[t].cwd.vw  o == proc[t].view  d == Hold(dir, v)  e == ReleIf(d, o)
  <1>1. work \in Workloads /\ dir \in DirType /\ \A x \in Views : Spare(dir, x) \in Int  BY Facts
  <1>2. /\ Here(t) /\ UNCHANGED <<pc, loc>> /\ v # Null /\ dir' = e /\ proc' = [proc EXCEPT ![t].view = v]
    BY DEF SetHere
  <1>3. v \in Views /\ o \in Views \cup {Null} /\ (o # Null => Spare(dir, o) >= 1)  BY <1>2, Held
  <1>0. o = proc[t].view  OBVIOUS
  <1>. HIDE DEF v, o
  <1>4. d \in DirType /\ Kept(dir, d) /\ \A x \in Views : Spare(d, x) = Spare(dir, x) + One(x = v)
    BY <1>1, <1>3, HoldIn
  <1>. HIDE DEF d
  <1>5. o # Null => Spare(d, o) >= 1  BY <1>1, <1>3, <1>4 DEF One
  <1>6. e \in DirType /\ Kept(d, e) /\ \A x \in Views : Spare(e, x) = Spare(d, x) - One(x = o)
    BY <1>1, <1>3, <1>4, <1>5, ReleIfIn
  <1>. HIDE DEF e
  <1>7. /\ proc' \in [Threads -> ProcType] /\ \A u \in Threads \ {t} : proc'[u] = proc[u]
        /\ proc'[t].cwd = proc[t].cwd /\ proc'[t].view = v
    BY <1>2, <1>3, NowSet
  <1>8. \A x \in Views : Spare(dir', x) = Spare(dir, x)
                            + One(proc'[t].view = x) + One(proc'[t].cwd = [vw |-> x, vob |-> Null])
                            - One(proc[t].view = x) - One(proc[t].cwd = [vw |-> x, vob |-> Null])
    BY <1>0, <1>1, <1>2, <1>4, <1>6, <1>7 DEF One
  <1>9. dir' \in DirType /\ Kept(dir, dir')  BY <1>2, <1>4, <1>6 DEF Kept
  <1>. QED  BY <1>2, <1>7, <1>8, <1>9, Sits

LEMMA ClrViewKeeps ==
  ASSUME ViewsInv, NEW t \in Threads, ClrView(t) PROVE ViewsInv'
  <1>. DEFINE n == Null  o == proc[t].view  e == Rele(dir, o)
  <1>1. work \in Workloads /\ dir \in DirType /\ \A x \in Views : Spare(dir, x) \in Int  BY Facts
  <1>2. /\ Here(t) /\ UNCHANGED <<pc, loc>> /\ o # Null /\ dir' = e /\ proc' = [proc EXCEPT ![t].view = n]
    BY DEF ClrView
  <1>3. o \in Views /\ Spare(dir, o) >= 1 /\ n \in Views \cup {Null} /\ \A x \in Views : x # n  BY <1>1, <1>2, Held, Consts
  <1>0. o = proc[t].view  OBVIOUS
  <1>. HIDE DEF o, n
  <1>6. e \in DirType /\ Kept(dir, e) /\ \A x \in Views : Spare(e, x) = Spare(dir, x) - One(x = o)
    BY <1>1, <1>3, ReleIn
  <1>. HIDE DEF e
  <1>7. /\ proc' \in [Threads -> ProcType] /\ \A u \in Threads \ {t} : proc'[u] = proc[u]
        /\ proc'[t].cwd = proc[t].cwd /\ proc'[t].view = n
    BY <1>2, <1>3, NowSet
  <1>8. \A x \in Views : Spare(dir', x) = Spare(dir, x)
                            + One(proc'[t].view = x) + One(proc'[t].cwd = [vw |-> x, vob |-> Null])
                            - One(proc[t].view = x) - One(proc[t].cwd = [vw |-> x, vob |-> Null])
    BY <1>0, <1>1, <1>2, <1>3, <1>6, <1>7 DEF One
  <1>9. dir' \in DirType /\ Kept(dir, dir')  BY <1>2, <1>6
  <1>. QED  BY <1>2, <1>7, <1>8, <1>9, Sits

LEMMA CurViewKeeps ==
  ASSUME ViewsInv, NEW t \in Threads, CurView(t) PROVE ViewsInv'
  <1>. DEFINE v == proc[t].view  n == Null  c == [vw |-> v, vob |-> n]  d == Hold(dir, v)
  <1>1. work \in Workloads /\ dir \in DirType /\ \A x \in Views : Spare(dir, x) \in Int  BY Facts
  <1>2. /\ Here(t) /\ UNCHANGED <<pc, loc>> /\ v # Null /\ dir' = d /\ proc' = [proc EXCEPT ![t].cwd = c]
        /\ proc[t].cwd = Nowhere
    BY DEF CurView
  <1>3. v \in Views /\ n = Null /\ Nowhere = [vw |-> Null, vob |-> Null] /\ v = proc[t].view  BY <1>1, <1>2, Held, Consts
  <1>4. c \in CwdType /\ c.vob = Null /\ \A x : (c = [vw |-> x, vob |-> Null]) = (x = v)
    BY <1>2, <1>3 DEF CwdType
  <1>. HIDE DEF v, n, c
  <1>5. d \in DirType /\ Kept(dir, d) /\ \A x \in Views : Spare(d, x) = Spare(dir, x) + One(x = v)
    BY <1>1, <1>3, HoldIn
  <1>. HIDE DEF d
  <1>7. /\ proc' \in [Threads -> ProcType] /\ \A u \in Threads \ {t} : proc'[u] = proc[u]
        /\ proc'[t].cwd = c /\ proc'[t].view = proc[t].view
    BY <1>2, <1>4, Gone
  <1>8. \A x \in Views : Spare(dir', x) = Spare(dir, x)
                            + One(proc'[t].view = x) + One(proc'[t].cwd = [vw |-> x, vob |-> Null])
                            - One(proc[t].view = x) - One(proc[t].cwd = [vw |-> x, vob |-> Null])
    <2>. SUFFICES ASSUME NEW x \in Views
         PROVE  Spare(dir', x) = Spare(dir, x)
                            + One(proc'[t].view = x) + One(proc'[t].cwd = [vw |-> x, vob |-> Null])
                            - One(proc[t].view = x) - One(proc[t].cwd = [vw |-> x, vob |-> Null])
      OBVIOUS
    <2>1. x # Null /\ Spare(dir, x) \in Int  BY <1>1, Consts
    <2>2. proc[t].cwd # [vw |-> x, vob |-> Null]  BY <1>2, <1>3, <2>1
    <2>3. (proc'[t].cwd = [vw |-> x, vob |-> Null]) = (x = v)  BY <1>4, <1>7
    <2>4. Spare(dir', x) = Spare(dir, x) + One(x = v)  BY <1>2, <1>5
    <2>. QED  BY <1>7, <2>1, <2>2, <2>3, <2>4 DEF One
  <1>9. dir' \in DirType /\ Kept(dir, dir')  BY <1>2, <1>5
  <1>10. proc'[t].cwd.vob = Null /\ proc[t].cwd.vob = Null  BY <1>2, <1>3, <1>4, <1>7
  <1>. QED  BY <1>2, <1>7, <1>8, <1>9, <1>10, Sits

LEMMA UpKeeps ==
  ASSUME ViewsInv, NEW t \in Threads, Up(t) PROVE ViewsInv'
  <1>. DEFINE c == proc[t].cwd  v == c.vw  m == c.vob  e == Leave(dir, t)
  <1>1. /\ work \in Workloads /\ dir \in DirType /\ ThreadAt(pc[t], loc[t], proc[t])
        /\ \A x \in Views : Spare(dir, x) \in Int /\ Spare(dir, x) >= 0
    BY Facts
  <1>2. /\ Here(t) /\ UNCHANGED <<pc, loc>> /\ dir' = e /\ proc' = [proc EXCEPT ![t].cwd = Nowhere] /\ c # Nowhere
    BY DEF Up
  <1>3. c \in CwdType /\ c = proc[t].cwd  BY <1>1 DEF ThreadAt, ProcType
  <1>4. Nowhere = [vw |-> Null, vob |-> Null] /\ Nowhere \in CwdType
        /\ \A x \in Views : \A y : Nowhere # [vw |-> x, vob |-> y]
    BY <1>1, Consts DEF CwdType
  <1>5. v \in Views /\ v # Null /\ m \in Vobs \cup {Null} /\ c = [vw |-> v, vob |-> m]
    BY <1>1, <1>2, <1>3, <1>4, Consts DEF CwdType
  <1>6. /\ proc' \in [Threads -> ProcType] /\ \A u \in Threads \ {t} : proc'[u] = proc[u]
        /\ proc'[t].cwd = Nowhere /\ proc'[t].view = proc[t].view
    BY <1>2, <1>4, Gone
  <1>7. CASE m = Null
    <2>1. e = Rele(dir, v)  BY <1>5, <1>7 DEF Leave
    <2>2. Spare(dir, v) >= 1  BY <1>5, <1>7, Held
    <2>. HIDE DEF e, c, v, m
    <2>. DEFINE f == Rele(dir, v)
    <2>3. f \in DirType /\ Kept(dir, f) /\ \A x \in Views : Spare(f, x) = Spare(dir, x) - One(x = v)
      BY <1>1, <1>5, <2>2, ReleIn
    <2>. HIDE DEF f
    <2>4. dir' = f  BY <1>2, <2>1 DEF f
    <2>5. \A x \in Views : Spare(dir', x) = Spare(dir, x)
                            + One(proc'[t].view = x) + One(proc'[t].cwd = [vw |-> x, vob |-> Null])
                            - One(proc[t].view = x) - One(proc[t].cwd = [vw |-> x, vob |-> Null])
      <3>. SUFFICES ASSUME NEW x \in Views
           PROVE  Spare(dir', x) = Spare(dir, x)
                            + One(proc'[t].view = x) + One(proc'[t].cwd = [vw |-> x, vob |-> Null])
                            - One(proc[t].view = x) - One(proc[t].cwd = [vw |-> x, vob |-> Null])
        OBVIOUS
      <3>1. (proc[t].cwd = [vw |-> x, vob |-> Null]) = (x = v)  BY <1>3, <1>5, <1>7
      <3>2. proc'[t].cwd # [vw |-> x, vob |-> Null]  BY <1>4, <1>6
      <3>3. Spare(dir', x) = Spare(dir, x) - One(x = v) /\ Spare(dir, x) \in Int  BY <1>1, <2>3, <2>4
      <3>. QED  BY <1>6, <3>1, <3>2, <3>3 DEF One
    <2>6. proc'[t].cwd.vob = Null /\ proc[t].cwd.vob = Null  BY <1>3, <1>4, <1>5, <1>6, <1>7
    <2>7. dir' \in DirType /\ Kept(dir, dir')  BY <2>3, <2>4
    <2>. QED  BY <1>2, <1>6, <2>5, <2>6, <2>7, Sits
  <1>8. CASE m # Null
    <2>1. m \in Vobs  BY <1>5, <1>8
    <2>2. (dir.vw[v].mn[m] = "used") = (Using(v, m) # {})  BY <1>5, <2>1 DEF ViewsInv, Nodes
    <2>3. t \in Using(v, m)  BY <1>5 DEF Using
    <2>4. Using(v, m) # {t} => e = dir  BY <1>5, <1>8 DEF Leave
    <2>5. /\ e \in DirType /\ \A x \in Views : e.vw[x].id \in {0, dir.vw[x].id} /\ Spare(e, x) = Spare(dir, x)
          /\ \A x \in Views, y \in Vobs :
               (e.vw[x].mn[y] = "used") = (dir.vw[x].mn[y] = "used" /\ ~(x = v /\ y = m /\ Using(v, m) = {t}))
      <3>1. CASE Using(v, m) = {t}
        <4>0. proc[t].cwd = [vw |-> v, vob |-> m] /\ dir.vw[v].mn[m] = "used"  BY <1>3, <1>5, <2>2, <2>3
        <4>. HIDE DEF v, m, c, e
        <4>. DEFINE f == Leave(dir, t)
        <4>1. /\ f \in DirType /\ f.slot = dir.slot /\ f.exp = dir.exp
              /\ \A x \in Views : f.vw[x].id \in {0, dir.vw[x].id} /\ Spare(f, x) = Spare(dir, x)
              /\ \A x \in Views, y \in Vobs :
                  (f.vw[x].mn[y] = "used") = (dir.vw[x].mn[y] = "used" /\ ~(x = v /\ y = m))
          BY <1>1, <1>5, <2>1, <3>1, <4>0, LeaveIn
        <4>2. e = f  BY DEF e
        <4>. HIDE DEF f
        <4>. QED  BY <3>1, <4>1, <4>2
      <3>2. CASE Using(v, m) # {t}
        <4>1. e = dir  BY <2>4, <3>2
        <4>. HIDE DEF v, m, c, e
        <4>. QED  BY <1>1, <3>2, <4>1
      <3>. QED  BY <3>1, <3>2
    <2>. HIDE DEF v, m, c, e
    <2>6. pc[t] = "idle" /\ work' = work /\ fhs' = fhs  BY <1>2 DEF Here, Same
    <2>7. Others(t) /\ pc'[t] = "idle" /\ loc'[t] = NoLoc /\ loc[t] = NoLoc  BY <1>2, <1>6, <2>6, Staying
    <2>8. proc'[t] \in ProcType  BY <1>6
    <2>9. ThreadAt(pc'[t], loc'[t], proc'[t])  BY <1>1, <2>7, <2>8, IdleAt
    <2>10. \A x \in Views : Spare(dir', x) = Spare(dir, x) + Share(pc'[t], loc'[t], proc'[t], x)
                                                          - Share(pc[t], loc[t], proc[t], x)
      <3>. SUFFICES ASSUME NEW x \in Views
           PROVE  Spare(dir', x) = Spare(dir, x) + Share(pc'[t], loc'[t], proc'[t], x)
                                                 - Share(pc[t], loc[t], proc[t], x)
        OBVIOUS
      <3>1. x # Null /\ loc'[t].vw # x /\ loc'[t].base # x /\ loc[t].vw # x /\ loc[t].base # x
        BY <1>1, <2>7, NoLocIs
      <3>2. proc[t].cwd # [vw |-> x, vob |-> Null]  BY <1>3, <1>5, <1>8
      <3>3. proc'[t].cwd # [vw |-> x, vob |-> Null]  BY <1>4, <1>6
      <3>4. Spare(dir', x) = Spare(dir, x) /\ Spare(dir, x) \in Int  BY <1>1, <1>2, <2>5
      <3>. QED  BY <1>6, <3>1, <3>2, <3>3, <3>4 DEF Share, One
    <2>11. Enters(t)
      <3>. SUFFICES ASSUME NEW x \in Views, NEW y \in Vobs
           PROVE  (dir'.vw[x].mn[y] = "used") =
                    (proc'[t].cwd = [vw |-> x, vob |-> y]
                     \/ (dir.vw[x].mn[y] = "used" /\ ~(proc[t].cwd = [vw |-> x, vob |-> y] /\ Using(x, y) = {t})))
        BY DEF Enters
      <3>1. proc'[t].cwd # [vw |-> x, vob |-> y]  BY <1>4, <1>6
      <3>2. (proc[t].cwd = [vw |-> x, vob |-> y]) = (x = v /\ y = m)  BY <1>3, <1>5
      <3>3. (dir'.vw[x].mn[y] = "used") = (dir.vw[x].mn[y] = "used" /\ ~(x = v /\ y = m /\ Using(v, m) = {t}))
        BY <1>2, <2>5
      <3>. QED  BY <3>1, <3>2, <3>3
    <2>12. loc'[t].dead \subseteq loc[t].dead /\ pc'[t] \notin {"ask", "bound"}  BY <2>7
    <2>13. dir' \in DirType /\ \A x \in Views : dir'.vw[x].id \in {0, dir.vw[x].id}  BY <1>2, <2>5
    <2>. QED  BY <2>6, <2>7, <2>9, <2>10, <2>11, <2>12, <2>13, Went
  <1>. QED  BY <1>7, <1>8

LEMMA BindGetKeeps ==
  ASSUME ViewsInv, NEW t \in Threads, BindGet(t) PROVE ViewsInv'
  <1>. DEFINE v == GetView(t)  l == [loc[t] EXCEPT !.vw = v]  p == "rvc"  d == Hold(dir, v)
  <1>1. /\ work \in Workloads /\ dir \in DirType /\ ThreadAt(pc[t], loc[t], proc[t])
        /\ \A x \in Views : Spare(dir, x) \in Int
    BY Facts
  <1>2. /\ pc[t] = "bind" /\ work' = work /\ fhs' = fhs /\ proc' = proc
        /\ IF v = Null THEN Return(t) /\ dir' = dir ELSE dir' = d /\ Goto(t, p, l)
    BY DEF BindGet, Step, Same, Stay
  <1>3. loc[t].vw = Null /\ loc[t].base = Null  BY <1>2, Held DEF Before, Making
  <1>4. v \in Views \cup {Null}  BY <1>1, Held DEF GetView
  <1>5. CASE v = Null
    <2>1. Return(t) /\ dir' = dir  BY <1>2, <1>5
    <2>2. \A x \in Views : Spare(dir', x) = Spare(dir, x) - One(loc[t].vw = x /\ pc[t] \notin After) - One(loc[t].base = x)
      BY <1>1, <1>3, <2>1, Consts DEF One
    <2>3. Kept(dir, dir') /\ dir' \in DirType  BY <1>1, <2>1 DEF Kept
    <2>. QED  BY <1>2, <2>1, <2>2, <2>3, Ended
  <1>6. CASE v # Null
    <2>1. v \in Views /\ dir' = d /\ Goto(t, p, l) /\ p = "rvc"  BY <1>2, <1>4, <1>6
    <2>. HIDE DEF v, p
    <2>2. l \in LocType /\ l.vw = v /\ l.base = loc[t].base /\ l.dead = loc[t].dead /\ l.op = loc[t].op /\ l.vob = loc[t].vob
      BY <2>1, WithView
    <2>. HIDE DEF l
    <2>3. d \in DirType /\ Kept(dir, d) /\ \A x \in Views : Spare(d, x) = Spare(dir, x) + One(x = v)
      BY <1>1, <2>1, HoldIn
    <2>. HIDE DEF d
    <2>4. loc[t].op = "bind" /\ proc[t].cwd.vob = Null /\ loc[t].vob \in Vobs /\ proc[t] \in ProcType
      BY <1>1, <1>2 DEF ThreadAt
    <2>5. ThreadAt(p, l, proc[t])  BY <1>3, <1>6, <2>1, <2>2, <2>4 DEF ThreadAt, Before, Within, After, Making
    <2>6. \A x \in Views : Spare(dir', x) = Spare(dir, x) - One(loc[t].vw = x) - One(loc[t].base = x)
                                                          + One(l.vw = x) + One(l.base = x)
      BY <1>1, <1>3, <2>1, <2>2, <2>3, Consts DEF One
    <2>7. p \in Before \cup Within /\ p # "idle" /\ p # "ask" /\ pc[t] \notin After  BY <1>2, <2>1 DEF Within, After
    <2>8. dir' \in DirType /\ Kept(dir, dir')  BY <2>1, <2>3
    <2>. QED  BY <1>2, <2>1, <2>2, <2>5, <2>6, <2>7, <2>8, GoesOn
  <1>. QED  BY <1>5, <1>6

LEMMA BindCheckKeeps ==
  ASSUME ViewsInv, NEW t \in Threads, BindCheck(t) PROVE ViewsInv'
  <1>. DEFINE v == loc[t].vw  l == loc[t]  p == "ask"  e == Rele(dir, v)
  <1>1. /\ work \in Workloads /\ dir \in DirType /\ ThreadAt(pc[t], loc[t], proc[t])
        /\ \A x \in Views : Spare(dir, x) \in Int
    BY Facts
  <1>2. /\ pc[t] = "rvc" /\ work' = work /\ fhs' = fhs /\ proc' = proc
        /\ IF dir.vw[v].id = 0 THEN dir' = e /\ Return(t) ELSE dir' = dir /\ Goto(t, p, l)
    BY DEF BindCheck, Step, Same, Stay
  <1>3. v \in Views /\ Spare(dir, v) >= 1 /\ loc[t].vw = v /\ loc[t].base = Null  BY <1>2, Held DEF Within, Making
  <1>4. v \in loc[t].dead => dir.vw[v].id = 0  BY DEF ViewsInv, DeadGone
  <1>5. p = "ask" /\ l = loc[t]  OBVIOUS
  <1>. HIDE DEF v, l, p
  <1>6. CASE dir.vw[v].id = 0
    <2>1. e \in DirType /\ Kept(dir, e) /\ \A x \in Views : Spare(e, x) = Spare(dir, x) - One(x = v)
      BY <1>1, <1>3, ReleIn
    <2>. HIDE DEF e
    <2>2. dir' = e /\ Return(t)  BY <1>2, <1>6
    <2>3. \A x \in Views : Spare(dir', x) = Spare(dir, x) - One(loc[t].vw = x /\ pc[t] \notin After) - One(loc[t].base = x)
      BY <1>1, <1>2, <1>3, <2>1, <2>2, Consts DEF One, After
    <2>. QED  BY <1>2, <2>1, <2>2, <2>3, Ended
  <1>7. CASE dir.vw[v].id # 0
    <2>1. dir' = dir /\ Goto(t, p, l)  BY <1>2, <1>7
    <2>2. loc[t].op = "bind" /\ proc[t].cwd.vob = Null /\ loc[t].vob \in Vobs /\ proc[t] \in ProcType /\ loc[t] \in LocType
      BY <1>1, <1>2 DEF ThreadAt
    <2>3. v # Null  BY <1>1, <1>3, Consts
    <2>4. ThreadAt(p, l, proc[t])  BY <1>3, <1>5, <2>2, <2>3 DEF ThreadAt, Before, Within, After, Making
    <2>5. \A x \in Views : Spare(dir', x) = Spare(dir, x) - One(loc[t].vw = x) - One(loc[t].base = x)
                                                          + One(l.vw = x) + One(l.base = x)
      BY <1>1, <1>5, <2>1 DEF One
    <2>6. p \in Before \cup Within /\ p # "idle" /\ pc[t] \notin After  BY <1>2, <1>5 DEF Within, After
    <2>7. dir' \in DirType /\ Kept(dir, dir')  BY <1>1, <2>1 DEF Kept
    <2>8. l \in LocType /\ l.dead \subseteq loc[t].dead /\ l.vw \notin l.dead  BY <1>3, <1>4, <1>5, <1>7, <2>2
    <2>. QED  BY <1>2, <2>1, <2>4, <2>5, <2>6, <2>7, <2>8, GoesOn
  <1>. QED  BY <1>6, <1>7

LEMMA BindRootKeeps ==
  ASSUME ViewsInv, NEW t \in Threads, BindRoot(t) PROVE ViewsInv'
  <1>. DEFINE v == loc[t].vw  m == loc[t].vob  l == loc[t]  c == [vw |-> v, vob |-> m]  o == proc[t].cwd.vw
              d == Activate(dir, v, m)  f == Rele(d, v)  p == "bound"
  <1>1. /\ work \in Workloads /\ dir \in DirType /\ ThreadAt(pc[t], loc[t], proc[t])
        /\ \A x \in Views : /\ Spare(dir, x) \in Int /\ Spare(dir, x) >= 0
                            /\ Spare(dir, x) >= Share(pc[t], loc[t], proc[t], x)
    BY Facts
  <1>2. /\ pc[t] = "ask" /\ work' = work /\ fhs' = fhs
        /\ \/ dir' = Leave(f, t) /\ proc' = [proc EXCEPT ![t].cwd = c] /\ Goto(t, p, l)
           \/ dir' = Rele(dir, v) /\ Return(t) /\ proc' = proc
    BY DEF BindRoot, Step, Same, Stay
  <1>3. v \in Views /\ Spare(dir, v) >= 1 /\ loc[t].vw = v /\ loc[t].base = Null  BY <1>2, Held DEF Within, Making
  <1>4. proc[t].cwd.vob = Null /\ m \in Vobs /\ loc[t].op = "bind" /\ loc[t] \in LocType /\ proc[t] \in ProcType
    BY <1>1, <1>2 DEF ThreadAt
  <1>5. v \notin loc[t].dead  BY <1>2 DEF ViewsInv
  <1>6. v # Null /\ m # Null /\ \A x \in Views : x # Null  BY <1>1, <1>3, <1>4, Consts
  <1>7. o \in Views \cup {Null} /\ proc[t].cwd = [vw |-> o, vob |-> Null] /\ o = proc[t].cwd.vw
    BY <1>4 DEF ProcType, CwdType
  <1>0. p = "bound" /\ l = loc[t] /\ m = loc[t].vob  OBVIOUS
  <1>. HIDE DEF v, m, l, p, o
  <1>8. CASE dir' = Rele(dir, v) /\ Return(t) /\ proc' = proc
    <2>. DEFINE e == Rele(dir, v)
    <2>1. e \in DirType /\ Kept(dir, e) /\ \A x \in Views : Spare(e, x) = Spare(dir, x) - One(x = v)
      BY <1>1, <1>3, ReleIn
    <2>. HIDE DEF e
    <2>2. dir' = e  BY <1>8 DEF e
    <2>3. \A x \in Views : Spare(dir', x) = Spare(dir, x) - One(loc[t].vw = x /\ pc[t] \notin After) - One(loc[t].base = x)
      BY <1>1, <1>2, <1>3, <2>1, <2>2, Consts DEF One, After
    <2>. QED  BY <1>2, <1>8, <2>1, <2>2, <2>3, Ended
  <1>9. CASE dir' = Leave(f, t) /\ proc' = [proc EXCEPT ![t].cwd = c] /\ Goto(t, p, l)
    <2>1. c \in CwdType /\ c.vw = v /\ c.vob = m  BY <1>3, <1>4, <1>6 DEF CwdType
    <2>2. \A x, y : (c = [vw |-> x, vob |-> y]) = (x = v /\ y = m)  OBVIOUS
    <2>. HIDE DEF c
    <2>3. /\ proc' \in [Threads -> ProcType] /\ \A u \in Threads \ {t} : proc'[u] = proc[u]
          /\ proc'[t].cwd = c /\ proc'[t].view = proc[t].view
      BY <1>9, <2>1, Gone
    <2>4. p \in Before \cup Within \cup After /\ p # "idle"  BY <1>0 DEF After
    <2>5. Others(t) /\ pc'[t] = p /\ loc'[t] = l  BY <1>0, <1>4, <1>9, <2>3, <2>4, GotoOthers
    <2>6. ThreadAt(pc'[t], loc'[t], proc'[t])
      <3>1. proc'[t] \in ProcType  BY <2>3
      <3>. QED  BY <1>0, <1>3, <1>4, <1>6, <2>1, <2>3, <2>5, <3>1 DEF ThreadAt, Before, Within, After, Making
    <2>7. /\ d \in DirType /\ d.slot = dir.slot /\ d.exp = dir.exp
          /\ \A x \in Views : d.vw[x].id = dir.vw[x].id /\ Spare(d, x) = Spare(dir, x)
          /\ \A x \in Views, y \in Vobs : (d.vw[x].mn[y] = "used") = ((x = v /\ y = m) \/ dir.vw[x].mn[y] = "used")
      BY <1>1, <1>3, <1>4, ActivateIn
    <2>. HIDE DEF d
    <2>8. /\ f \in DirType /\ Kept(d, f) /\ \A x \in Views : Spare(f, x) = Spare(d, x) - One(x = v)
      BY <1>1, <1>3, <2>7, ReleIn
    <2>. HIDE DEF f
    <2>. DEFINE e == ReleIf(f, o)
    <2>9. dir' = e
      <3>1. proc[t].cwd.vob = Null /\ proc[t].cwd.vw = o  BY <1>4, <1>7
      <3>2. Leave(f, t) = e  BY <3>1 DEF Leave, ReleIf
      <3>. QED  BY <1>9, <3>2
    <2>10. o # Null => Spare(f, o) >= 1
      <3>. SUFFICES ASSUME o # Null PROVE Spare(f, o) >= 1
        OBVIOUS
      <3>1. o \in Views  BY <1>7
      <3>2. Spare(dir, o) \in Int /\ Spare(dir, o) >= Share(pc[t], loc[t], proc[t], o)  BY <1>1, <3>1
      <3>3. pc[t] \notin After  BY <1>2 DEF After
      <3>. DEFINE s == Spare(dir, o)
      <3>4. s >= One(proc[t].view = o) + 1 + One(v = o) + One(loc[t].base = o)
        BY <1>3, <1>7, <3>2, <3>3 DEF Share, One
      <3>5. s \in Int /\ Spare(f, o) = s - One(o = v)  BY <2>7, <2>8, <3>1, <3>2
      <3>. HIDE DEF s
      <3>. QED  BY <3>4, <3>5 DEF One
    <2>11. e \in DirType /\ Kept(f, e) /\ \A x \in Views : Spare(e, x) = Spare(f, x) - One(x = o)
      BY <1>1, <1>7, <2>8, <2>10, ReleIfIn
    <2>. HIDE DEF e
    <2>12. \A x \in Views : Spare(dir', x) = Spare(dir, x) + Share(pc'[t], loc'[t], proc'[t], x)
                                                           - Share(pc[t], loc[t], proc[t], x)
      <3>. SUFFICES ASSUME NEW x \in Views
           PROVE  Spare(dir', x) = Spare(dir, x) + Share(pc'[t], loc'[t], proc'[t], x)
                                                 - Share(pc[t], loc[t], proc[t], x)
        OBVIOUS
      <3>1. x # Null /\ Spare(dir, x) \in Int  BY <1>1, <1>6
      <3>2. Spare(dir', x) = Spare(dir, x) - One(x = v) - One(x = o)  BY <2>7, <2>8, <2>9, <2>11
      <3>3. (proc[t].cwd = [vw |-> x, vob |-> Null]) = (x = o)  BY <1>7
      <3>4. proc'[t].cwd # [vw |-> x, vob |-> Null]  BY <1>6, <2>2, <2>3
      <3>5. pc'[t] \in After /\ pc[t] \notin After  BY <1>0, <1>2, <2>5 DEF After
      <3>. QED  BY <1>0, <1>3, <2>3, <2>5, <3>1, <3>2, <3>3, <3>4, <3>5 DEF Share, One
    <2>13. \A x \in Views : dir'.vw[x].id \in {0, dir.vw[x].id}  BY <2>7, <2>8, <2>9, <2>11 DEF Kept
    <2>14. Enters(t)
      <3>. SUFFICES ASSUME NEW x \in Views, NEW y \in Vobs
           PROVE  (dir'.vw[x].mn[y] = "used") =
                    (proc'[t].cwd = [vw |-> x, vob |-> y]
                     \/ (dir.vw[x].mn[y] = "used" /\ ~(proc[t].cwd = [vw |-> x, vob |-> y] /\ Using(x, y) = {t})))
        BY DEF Enters
      <3>1. (dir'.vw[x].mn[y] = "used") = ((x = v /\ y = m) \/ dir.vw[x].mn[y] = "used")
        BY <2>7, <2>8, <2>9, <2>11 DEF Kept
      <3>2. y # Null  BY <1>1, Consts
      <3>3. proc[t].cwd # [vw |-> x, vob |-> y]  BY <1>7, <3>2
      <3>4. (proc'[t].cwd = [vw |-> x, vob |-> y]) = (x = v /\ y = m)  BY <2>2, <2>3
      <3>. QED  BY <3>1, <3>3, <3>4
    <2>15. loc'[t].vw \notin loc'[t].dead /\ loc'[t].dead \subseteq loc[t].dead  BY <1>0, <1>3, <1>5, <2>5
    <2>16. dir' \in DirType  BY <2>9, <2>11
    <2>. QED  BY <1>2, <2>5, <2>6, <2>12, <2>13, <2>14, <2>15, <2>16, Went
  <1>. QED  BY <1>2, <1>8, <1>9

-----------------------------------------------------------------------------
(* Mounts.                                                                 *)

LEMMA EmptyIn ==
  ASSUME work \in Workloads
  PROVE  /\ Empty \in DirType /\ \A x \in Views : Spare(Empty, x) = 0 /\ Empty.vw[x] = NoView
         /\ Present(Empty) = {}
  <1>1. NoView \in ViewType /\ NoView.cnt = 0 /\ Cardinality(Mnodes(NoView)) = 0  BY NoViewIn
  <1>2. /\ Empty \in DirType /\ \A x \in Views : Empty.vw[x] = NoView
        /\ \A i \in Slots : Empty.slot[i] = Null
    <2>. DEFINE s == [i \in Slots |-> Null]  w == [v \in Views |-> NoView]  q == << >>
    <2>1. s \in [Slots -> {Null} \cup Entries] /\ \A i \in Slots : s[i] = Null  OBVIOUS
    <2>2. w \in [Views -> ViewType] /\ \A x \in Views : w[x] = NoView  BY <1>1
    <2>3. q \in Seq(Nat \cup {Null})  OBVIOUS
    <2>4. Empty = [slot |-> s, vw |-> w, exp |-> q]  BY DEF Empty
    <2>. HIDE DEF s, w, q
    <2>. QED  BY <2>1, <2>2, <2>3, <2>4 DEF DirType
  <1>3. Present(Empty) = {} /\ \A x \in Views : InSlots(Empty, x) = {}  BY <1>2 DEF Present, InSlots
  <1>4. \A x \in Views : Cardinality(InSlots(Empty, x)) = 0  BY <1>3, FS_EmptySet
  <1>5. \A x \in Views : Spare(Empty, x) = 0  BY <1>1, <1>2, <1>4 DEF Spare
  <1>. QED  BY <1>2, <1>3, <1>5

LEMMA UnmountVobKeeps ==
  ASSUME ViewsInv, UnmountVob PROVE ViewsInv'
  <1>1. PICK m \in Vobs : dir' = FlushMounts(dir, {m}) /\ UNCHANGED <<work, proc, pc, loc, fhs>>
    <2>1. PICK m \in Vobs : dir' = FlushMounts(dir, {m}) /\ UNCHANGED <<work, proc, pc, loc>>  BY DEF UnmountVob
    <2>2. fhs' = fhs  BY DEF UnmountVob
    <2>. QED  BY <2>1, <2>2
  <1>2. work \in Workloads /\ dir \in DirType /\ \A x \in Views : Spare(dir, x) >= 0  BY SpareNat DEF ViewsInv
  <1>. DEFINE M == {m}  e == FlushMounts(dir, M)
  <1>3. M \in SUBSET Vobs /\ dir' = e  BY <1>1
  <1>. HIDE DEF M
  <1>4. e \in DirType /\ Kept(dir, e) /\ \A x \in Views : Spare(e, x) = Spare(dir, x)
    BY <1>2, <1>3, FlushMountsIn
  <1>. HIDE DEF e
  <1>. QED  BY <1>1, <1>3, <1>4, NoThread

\* A view that is not busy has no mnode, and nobody holds it.
LEMMA NotBusy ==
  ASSUME work \in Workloads, NEW d \in DirType, NEW v \in Views, ~ViewsBusy(d), Spare(d, v) >= 0
  PROVE  Spare(d, v) = 0 /\ \A m \in Vobs : d.vw[v].mn[m] = "none"
  <1>1. /\ IsFiniteSet(InSlots(d, v)) /\ Cardinality(InSlots(d, v)) \in Nat
        /\ Cardinality(Mnodes(d.vw[v])) \in Nat /\ d.vw[v].cnt \in Nat /\ Spare(d, v) \in Int
        /\ d.vw[v].cnt = Spare(d, v) + Cardinality(InSlots(d, v)) + Cardinality(Mnodes(d.vw[v]))
    BY Parts
  <1>2. ~(d.vw[v].cnt > IF v \in {VwAt(d, i) : i \in Present(d)} THEN 1 ELSE 0)  BY DEF ViewsBusy
  <1>3. (v \in {VwAt(d, i) : i \in Present(d)}) = (InSlots(d, v) # {})  BY DEF Present, VwAt, InSlots
  <1>4. InSlots(d, v) # {} => Cardinality(InSlots(d, v)) # 0  BY <1>1, FS_EmptySet
  <1>5. InSlots(d, v) = {} => Cardinality(InSlots(d, v)) = 0  BY FS_EmptySet
  <1>6. Spare(d, v) = 0 /\ Cardinality(Mnodes(d.vw[v])) = 0  BY <1>1, <1>2, <1>3, <1>4, <1>5
  <1>. QED  BY <1>6, NoNodes

LEMMA UnmountRootKeeps ==
  ASSUME ViewsInv, UnmountRoot PROVE ViewsInv'
  <1>. DEFINE d == FlushMounts(dir, Vobs)
  <1>1. /\ UNCHANGED <<work, proc, pc, loc, fhs>>
        /\ IF ViewsBusy(d) THEN dir' = d
           ELSE dir' = [d EXCEPT !.slot = [i \in Slots |-> Null], !.vw = [v \in Views |-> NoView], !.exp = << >>]
    BY DEF UnmountRoot
  <1>2. work \in Workloads /\ dir \in DirType /\ \A x \in Views : Spare(dir, x) >= 0  BY SpareNat DEF ViewsInv
  <1>3. d \in DirType /\ Kept(dir, d) /\ \A x \in Views : Spare(d, x) = Spare(dir, x)
    BY <1>2, FlushMountsIn
  <1>. HIDE DEF d
  <1>4. CASE ViewsBusy(d)
    <2>1. dir' = d  BY <1>1, <1>4
    <2>. QED  BY <1>1, <1>3, <2>1, NoThread
  <1>5. CASE ~ViewsBusy(d)
    <2>1. dir' = [d EXCEPT !.slot = [i \in Slots |-> Null], !.vw = [v \in Views |-> NoView], !.exp = << >>]
      BY <1>1, <1>5
    <2>2. dir' = Empty  BY <1>3, <2>1 DEF DirType, Empty
    <2>. DEFINE e == Empty
    <2>3. e \in DirType /\ \A x \in Views : Spare(e, x) = 0 /\ e.vw[x] = NoView  BY <1>2, EmptyIn
    <2>4. dir' = e  BY <2>2
    <2>. HIDE DEF e
    <2>5. \A x \in Views : Spare(d, x) = 0 /\ \A m \in Vobs : d.vw[x].mn[m] = "none"
      BY <1>2, <1>3, <1>5, NotBusy
    <2>6. \A x \in Views : Spare(dir', x) = Spare(dir, x)  BY <1>3, <2>3, <2>4, <2>5
    <2>7. Kept(dir, e)  BY <1>3, <2>3, <2>5, NoViewIn DEF Kept
    <2>. QED  BY <1>1, <2>3, <2>4, <2>6, <2>7, NoThread
  <1>. QED  BY <1>4, <1>5

-----------------------------------------------------------------------------
(* The initial states.                                                     *)

LEMMA First == \A S : S # {} => FirstOf(S) \in S
  BY DEF FirstOf

LEMMA OneExportedIn ==
  ASSUME work \in Workloads, work.exported
  PROVE  /\ InVob.vw \in Views /\ InVob.vob \in Vobs /\ OneExported \in DirType
         /\ \A x \in Views : Spare(OneExported, x) = 0
         /\ \A x \in Views, y \in Vobs :
              (OneExported.vw[x].mn[y] = "used") = (x = InVob.vw /\ y = InVob.vob)
  <1>. DEFINE v == InVob.vw  m == InVob.vob  g == FirstOf(Tags)  u == FirstOf(Uuids)  nm == Name(g, FALSE)
              n == 1  b == TRUE
              d0 == MakeView(Empty, v, nm)  d1 == RamdirAdd(d0, nm, v)
              w == [d1.vw[v] EXCEPT !.id = n, !.ex = Null, !.uuid = u, !.full = b]
              d2 == [d1 EXCEPT !.vw[v] = w]  d3 == Exported(d2, v, n)  d4 == Rele(d3, v)
              d5 == Activate(d4, v, m)
  <1>1. /\ Views # {} /\ Vobs # {} /\ Tags # {} /\ Uuids # {} /\ work.slots \in Nat /\ work.slots # 0
    <2>1. /\ work.slots \in Nat
          /\ (work.exported => {} \notin {Threads, Views, Vobs, Tags, Uuids} /\ work.slots # 0)
      BY ViewsAssumption DEF ViewsAssumption
    <2>. QED  BY <2>1
  <1>2. v \in Views /\ m \in Vobs /\ g \in Tags /\ u \in Uuids  BY <1>1, First DEF InVob
  <1>3. nm \in Nms /\ n \in Nat /\ b \in BOOLEAN  BY <1>2 DEF Name, Nms
  <1>4. OneExported = Activate(Rele(Exported([SetId(d1, v, n) EXCEPT !.vw[v].uuid = u, !.vw[v].full = b], v, n), v), v, m)
    BY DEF OneExported
  <1>. HIDE DEF v, m, g, u, nm, n, b
  <1>5. /\ Empty \in DirType /\ \A x \in Views : Spare(Empty, x) = 0 /\ Empty.vw[x] = NoView
        /\ Present(Empty) = {}
    BY EmptyIn
  <1>6. /\ d0 \in DirType /\ d0.slot = Empty.slot /\ Kept(Empty, d0)
        /\ \A x \in Views : Spare(d0, x) = Spare(Empty, x) + One(x = v)
    <2>1. Empty.vw[v].cnt = 0 /\ Spare(Empty, v) >= 0  BY <1>2, <1>5, NoViewIn
    <2>. DEFINE e == Empty
    <2>2. e \in DirType /\ e.vw[v].cnt = 0 /\ Spare(e, v) >= 0  BY <1>5, <2>1
    <2>. HIDE DEF e
    <2>3. LET f == MakeView(e, v, nm)
          IN  /\ f \in DirType /\ f.slot = e.slot /\ f.exp = e.exp /\ Kept(e, f)
              /\ \A x \in Views : Spare(f, x) = Spare(e, x) + One(x = v)
              /\ f.vw[v].id = 0 /\ f.vw[v].ex = Null /\ \A x \in Views : x # v => f.vw[x] = e.vw[x]
      BY <1>2, <1>3, <2>2, MakeIn
    <2>. QED  BY <2>3 DEF e
  <1>. HIDE DEF d0
  <1>7. Present(d0) # Slots
    <2>1. 1 \in Slots  BY <1>1 DEF Slots
    <2>2. Present(d0) = Present(Empty)  BY <1>6 DEF Present
    <2>3. Present(d0) = {}  BY <1>5, <2>2
    <2>4. Slots # {}  BY <2>1
    <2>. QED  BY <2>3, <2>4
  <1>8. /\ d1 \in DirType /\ d1.exp = d0.exp /\ Kept(d0, d1)
        /\ d1.slot = [d0.slot EXCEPT ![FreeSlot(d0)] = [nm |-> nm, vw |-> v]]
        /\ \A x \in Views : Spare(d1, x) = Spare(d0, x) /\ d1.vw[x].mn = d0.vw[x].mn
        /\ \A x \in Views : d1.vw[x].id = d0.vw[x].id
    BY <1>2, <1>3, <1>6, <1>7, AddIn
  <1>. HIDE DEF d1
  <1>9. d1.vw[v] \in ViewType  BY <1>2, <1>8, Parts
  <1>10. w \in ViewType /\ w.cnt = d1.vw[v].cnt /\ w.mn = d1.vw[v].mn  BY <1>2, <1>3, <1>9 DEF ViewType
  <1>11. [SetId(d1, v, n) EXCEPT !.vw[v].uuid = u, !.vw[v].full = b] = d2
    <2>. DEFINE r1 == [d1.vw[v] EXCEPT !.id = n]  r2 == [r1 EXCEPT !.ex = Null]  r3 == [r2 EXCEPT !.uuid = u]
                h1 == [d1 EXCEPT !.vw[v] = r1]  h2 == [d1 EXCEPT !.vw[v] = r2]  h3 == [d1 EXCEPT !.vw[v] = r3]
    <2>1. w = [r3 EXCEPT !.full = b]  OBVIOUS
    <2>2. [d1 EXCEPT !.vw[v].id = n] = h1  OBVIOUS
    <2>3. [h1 EXCEPT !.vw[v].ex = Null] = h2  BY <1>2, <1>8 DEF DirType
    <2>4. SetId(d1, v, n) = h2  BY <2>2, <2>3 DEF SetId
    <2>5. [h2 EXCEPT !.vw[v].uuid = u] = h3  BY <1>2, <1>8 DEF DirType
    <2>6. [h3 EXCEPT !.vw[v].full = b] = d2  BY <1>2, <1>8 DEF DirType
    <2>. HIDE DEF d2, h1, h2, h3
    <2>. QED  BY <2>4, <2>5, <2>6
  <1>. HIDE DEF w
  <1>12. /\ d2 \in DirType /\ \A x \in Views : Spare(d2, x) = Spare(d1, x)
         /\ \A x \in Views, y \in Vobs : (d2.vw[x].mn[y] = "used") = (d1.vw[x].mn[y] = "used")
    <2>1. d1 \in DirType  BY <1>8
    <2>. QED  BY <1>2, <1>10, <2>1, Noted
  <1>. HIDE DEF d2
  <1>13. d3 \in DirType /\ Kept(d2, d3) /\ \A x \in Views : Spare(d3, x) = Spare(d2, x)
    BY <1>2, <1>3, <1>12, ExportedIn
  <1>. HIDE DEF d3
  <1>14. \A x \in Views : Spare(d3, x) = One(x = v)  BY <1>5, <1>6, <1>8, <1>12, <1>13 DEF One
  <1>15. Spare(d3, v) >= 1  BY <1>2, <1>14 DEF One
  <1>16. d4 \in DirType /\ Kept(d3, d4) /\ \A x \in Views : Spare(d4, x) = Spare(d3, x) - One(x = v)
    BY <1>2, <1>13, <1>15, ReleIn
  <1>. HIDE DEF d4
  <1>17. /\ d5 \in DirType /\ \A x \in Views : Spare(d5, x) = Spare(d4, x)
         /\ \A x \in Views, y \in Vobs : (d5.vw[x].mn[y] = "used") = ((x = v /\ y = m) \/ d4.vw[x].mn[y] = "used")
    BY <1>2, <1>16, ActivateIn
  <1>. HIDE DEF d5
  <1>18. \A x \in Views, y \in Vobs : d4.vw[x].mn[y] # "used"
    <2>1. \A x \in Views, y \in Vobs : Empty.vw[x].mn[y] # "used"  BY <1>5, NoViewIn
    <2>2. \A x \in Views, y \in Vobs : d0.vw[x].mn[y] # "used"  BY <1>6, <2>1 DEF Kept
    <2>3. \A x \in Views, y \in Vobs : d1.vw[x].mn[y] # "used"  BY <1>8, <2>2 DEF Kept
    <2>4. \A x \in Views, y \in Vobs : d2.vw[x].mn[y] # "used"  BY <1>12, <2>3
    <2>5. \A x \in Views, y \in Vobs : d3.vw[x].mn[y] # "used"  BY <1>13, <2>4 DEF Kept
    <2>. QED  BY <1>16, <2>5 DEF Kept
  <1>19. OneExported = d5
    <2>1. OneExported = Activate(Rele(Exported(d2, v, n), v), v, m)  BY <1>4, <1>11
    <2>. QED  BY <2>1 DEF d5, d4, d3
  <1>20. \A x \in Views : Spare(d5, x) = 0  BY <1>14, <1>16, <1>17 DEF One
  <1>21. v = InVob.vw /\ m = InVob.vob  BY DEF v, m
  <1>. QED  BY <1>2, <1>17, <1>18, <1>19, <1>20, <1>21

LEMMA ViewsStart == Init => ViewsInv
  <1>. SUFFICES ASSUME Init PROVE ViewsInv
    OBVIOUS
  <1>1. /\ work \in Workloads /\ fhs = {} /\ dir = IF work.exported THEN OneExported ELSE Empty
        /\ proc = [t \in Threads |-> [view |-> Null, cwd |-> IF work.exported /\ t = FirstOf(Threads) THEN InVob ELSE Nowhere]]
        /\ pc = [t \in Threads |-> "idle"] /\ loc = [t \in Threads |-> NoLoc]
    BY DEF Init
  <1>2. /\ Null \notin Views /\ Null \notin Vobs /\ Nowhere = [vw |-> Null, vob |-> Null] /\ Nowhere \in CwdType
    BY <1>1, Consts DEF CwdType
  <1>3. work.exported => /\ InVob.vw \in Views /\ InVob.vob \in Vobs /\ InVob \in CwdType
                         /\ InVob = [vw |-> InVob.vw, vob |-> InVob.vob] /\ FirstOf(Threads) \in Threads
    <2>. SUFFICES ASSUME work.exported
         PROVE  /\ InVob.vw \in Views /\ InVob.vob \in Vobs /\ InVob \in CwdType
                /\ InVob = [vw |-> InVob.vw, vob |-> InVob.vob] /\ FirstOf(Threads) \in Threads
      OBVIOUS
    <2>1. InVob.vw \in Views /\ InVob.vob \in Vobs  BY <1>1, OneExportedIn
    <2>2. InVob = [vw |-> InVob.vw, vob |-> InVob.vob]  BY DEF InVob
    <2>3. InVob \in CwdType  BY <1>2, <2>1, <2>2 DEF CwdType
    <2>4. work.exported => {} \notin {Threads, Views, Vobs, Tags, Uuids}  BY <1>1, ViewsAssumption DEF ViewsAssumption
    <2>5. FirstOf(Threads) \in Threads  BY <2>4, First
    <2>. QED  BY <2>1, <2>2, <2>3, <2>5
  <1>4. /\ dir \in DirType /\ \A x \in Views : Spare(dir, x) = 0
        /\ \A x \in Views, y \in Vobs : (dir.vw[x].mn[y] = "used") = (work.exported /\ x = InVob.vw /\ y = InVob.vob)
    <2>1. CASE work.exported
      <3>1. dir = OneExported  BY <1>1, <2>1
      <3>2. OneExported \in DirType /\ (\A x \in Views : Spare(OneExported, x) = 0)
            /\ \A x \in Views, y \in Vobs : (OneExported.vw[x].mn[y] = "used") = (x = InVob.vw /\ y = InVob.vob)
        BY <1>1, <2>1, OneExportedIn
      <3>. QED  BY <2>1, <3>1, <3>2
    <2>2. CASE ~work.exported
      <3>1. dir = Empty  BY <1>1, <2>2
      <3>2. Empty \in DirType /\ \A x \in Views : Spare(Empty, x) = 0 /\ Empty.vw[x] = NoView
        BY <1>1, EmptyIn
      <3>. QED  BY <2>2, <3>1, <3>2, NoViewIn
    <2>. QED  BY <2>1, <2>2
  <1>5. ASSUME NEW t \in Threads
        PROVE  /\ proc[t].view = Null /\ proc[t] \in ProcType
               /\ proc[t].cwd = IF work.exported /\ t = FirstOf(Threads) THEN InVob ELSE Nowhere
               /\ pc[t] = "idle" /\ loc[t] = NoLoc
    <2>. DEFINE c == IF work.exported /\ t = FirstOf(Threads) THEN InVob ELSE Nowhere
    <2>1. c \in CwdType  BY <1>2, <1>3
    <2>2. proc[t] = [view |-> Null, cwd |-> c] /\ pc[t] = "idle" /\ loc[t] = NoLoc  BY <1>1
    <2>. HIDE DEF c
    <2>3. proc[t] \in ProcType /\ proc[t].view = Null /\ proc[t].cwd = c  BY <2>1, <2>2 DEF ProcType
    <2>. QED  BY <2>2, <2>3 DEF c
  <1>6. NoLoc \in LocType /\ NoLoc.dead = {} /\ NoLoc.vw = Null /\ NoLoc.base = Null
    BY DEF NoLoc, LocType
  <1>7. Functions
    <2>1. proc \in [Threads -> ProcType]  BY <1>1, <1>5
    <2>2. pc \in [Threads -> Before \cup Within \cup After]  BY <1>1 DEF Before
    <2>3. loc \in [Threads -> LocType]  BY <1>1, <1>6
    <2>. QED  BY <2>1, <2>2, <2>3 DEF Functions
  <1>8. \A t \in Threads : ThreadAt(pc[t], loc[t], proc[t])  BY <1>1, <1>5, IdleAt
  <1>9. \A t \in Threads, x \in Views : proc[t].cwd # [vw |-> x, vob |-> Null]  BY <1>2, <1>3, <1>5
  <1>10. Counts
    <2>. SUFFICES ASSUME NEW x \in Views PROVE Taken(x) = 0
      BY <1>4 DEF Counts
    <2>1. Setting(x) = {} /\ InTag(x) = {} /\ Working(x) = {} /\ Basing(x) = {}
      BY <1>2, <1>5, <1>6, <1>9 DEF Setting, InTag, Working, Basing
    <2>. QED  BY <2>1, FS_EmptySet DEF Taken
  <1>11. Nodes(dir)
    <2>. SUFFICES ASSUME NEW x \in Views, NEW y \in Vobs
         PROVE  (Using(x, y) # {}) = (work.exported /\ x = InVob.vw /\ y = InVob.vob)
      BY <1>4 DEF Nodes
    <2>1. CASE work.exported /\ x = InVob.vw /\ y = InVob.vob
      <3>1. proc[FirstOf(Threads)].cwd = [vw |-> x, vob |-> y]  BY <1>3, <1>5, <2>1
      <3>2. FirstOf(Threads) \in Using(x, y)  BY <1>3, <2>1, <3>1 DEF Using
      <3>. QED  BY <2>1, <3>2
    <2>2. CASE ~(work.exported /\ x = InVob.vw /\ y = InVob.vob)
      <3>1. \A t \in Threads : proc[t].cwd # [vw |-> x, vob |-> y]  BY <1>2, <1>3, <1>5, <2>2
      <3>. QED  BY <2>2, <3>1 DEF Using
    <2>. QED  BY <2>1, <2>2
  <1>12. DeadGone(dir)  BY <1>5, <1>6 DEF DeadGone
  <1>13. \A t \in Threads : pc[t] # "ask" /\ pc[t] # "bound"  BY <1>5
  <1>. QED  BY <1>1, <1>4, <1>7, <1>8, <1>10, <1>11, <1>12, <1>13 DEF ViewsInv

-----------------------------------------------------------------------------
(* The theorems.                                                           *)

LEMMA ViewsStep == ViewsInv /\ [Next]_vars => ViewsInv'
  <1>. SUFFICES ASSUME ViewsInv, [Next]_vars PROVE ViewsInv'
    OBVIOUS
  <1>0. fhs \subseteq Handles  BY DEF ViewsInv
  <1>1. ASSUME NEW t \in Threads, Command(t) PROVE ViewsInv'
    BY <1>1, MkStartKeeps, MkFoundKeeps, MkRecoverKeeps, MkNewKeeps, InsertIdKeeps, MkFillKeeps, RmStartKeeps,
       RmRemoveKeeps, RmUnexportKeeps, RmFlushKeeps, RmIdKeeps, RmAllStartKeeps, RmAllNextKeeps, ExportStartKeeps,
       TagLookupKeeps, ExportKeeps, UnexportTagKeeps DEF Command
  <1>2. ASSUME NEW t \in Threads, Nfs(t) PROVE ViewsInv'
    BY <1>2, MakeHandleKeeps, VgetStartKeeps, VgetViewKeeps, VgetNodeKeeps, GotKeeps DEF Nfs
  <1>3. ASSUME NEW t \in Threads, User(t) PROVE ViewsInv'
    BY <1>3, HmStartKeeps, HmFindKeeps, HmNewKeeps, HmFillKeeps, LookupStartKeeps, LookupDoneKeeps, SetviewStartKeeps,
       SetProcViewKeeps, SetHereKeeps, ClrViewKeeps, CurViewKeeps, UpKeeps, BindStartKeeps, BindGetKeeps,
       BindCheckKeeps, BindRootKeeps, GotKeeps DEF User
  <1>4. CASE MountAny
    <2>1. UNCHANGED <<work, dir, proc, pc, loc>>  BY <1>4 DEF MountAny
    <2>2. fhs' = fhs  BY <1>4 DEF MountAny
    <2>. QED  BY <1>0, <2>1, <2>2, Unmoved
  <1>5. CASE UnloadModule
    <2>1. UNCHANGED <<work, dir, proc, pc, loc>> /\ fhs' = fhs  BY <1>5 DEF UnloadModule
    <2>. QED  BY <1>0, <2>1, Unmoved
  <1>6. CASE UNCHANGED vars
    <2>1. UNCHANGED <<work, dir, proc, pc, loc>> /\ fhs' = fhs  BY <1>6 DEF vars
    <2>. QED  BY <1>0, <2>1, Unmoved
  <1>. QED  BY <1>1, <1>2, <1>3, <1>4, <1>5, <1>6, CleanHmKeeps, UnmountVobKeeps, UnmountRootKeeps DEF Next

\* What a view's slot and its mnodes leave of its count is what processes and operations hold, an mnode is in
\* use while a process stands in it, and a view that was removed and not brought back has no id, after every
\* hold of the lock of the view directory (mvfs_ramdir_insert, mfs_viewdirrmdir, mfs_viewdirhmview, mfs_getview).
THEOREM ViewsAgree == Spec => []ViewsInv
  <1>1. Init => ViewsInv  BY ViewsStart
  <1>2. ViewsInv /\ [Next]_vars => ViewsInv'  BY ViewsStep
  <1>. QED  BY <1>1, <1>2, PTL DEF Spec

LEMMA ViewsHeldIn == ViewsInv => ViewsHeld
  <1>. SUFFICES ASSUME ViewsInv PROVE ViewsHeld
    OBVIOUS
  <1>1. work \in Workloads /\ dir \in DirType  BY DEF ViewsInv
  <1>2. ASSUME NEW v \in Views PROVE dir.vw[v].cnt = Holds(v)
    <2>1. /\ Cardinality(InSlots(dir, v)) \in Nat /\ Cardinality(Mnodes(dir.vw[v])) \in Nat /\ Spare(dir, v) \in Int
          /\ dir.vw[v].cnt = Spare(dir, v) + Cardinality(InSlots(dir, v)) + Cardinality(Mnodes(dir.vw[v]))
      BY <1>1, Parts
    <2>2. Spare(dir, v) = Taken(v)  BY DEF ViewsInv, Counts
    <2>3. /\ {i \in Present(dir) : VwAt(dir, i) = v} = InSlots(dir, v)
          /\ {m \in Vobs : dir.vw[v].mn[m] # "none"} = Mnodes(dir.vw[v])
          /\ {t \in Threads : proc[t].view = v} = Setting(v)
          /\ {t \in Threads : proc[t].cwd = [vw |-> v, vob |-> Null]} = InTag(v)
          /\ {t \in Threads : loc[t].vw = v /\ pc[t] \notin {"bound", "got"}} = Working(v)
          /\ {t \in Threads : loc[t].base = v} = Basing(v)
      BY DEF Present, VwAt, InSlots, Mnodes, Setting, InTag, Working, Basing, After
    <2>. DEFINE a == Cardinality(InSlots(dir, v))  b == Cardinality(Mnodes(dir.vw[v]))  c == Cardinality(Setting(v))
                e == Cardinality(InTag(v))  f == Cardinality(Working(v))  g == Cardinality(Basing(v))
    <2>4. Holds(v) = a + b + c + e + f + g  BY <2>3 DEF Holds
    <2>5. Taken(v) = c + e + f + g  BY DEF Taken
    <2>6. c \in Nat /\ e \in Nat /\ f \in Nat /\ g \in Nat
      <3>1. IsFiniteSet(Setting(v)) /\ IsFiniteSet(InTag(v)) /\ IsFiniteSet(Working(v)) /\ IsFiniteSet(Basing(v))
        <4>1. IsFiniteSet(Threads)  BY <1>1, Consts
        <4>. QED  BY <4>1, FS_Subset DEF Setting, InTag, Working, Basing
      <3>. QED  BY <3>1, FS_CardinalityType
    <2>7. dir.vw[v].cnt = Taken(v) + a + b /\ a \in Nat /\ b \in Nat  BY <2>1, <2>2
    <2>. HIDE DEF a, b, c, e, f, g
    <2>. QED  BY <2>4, <2>5, <2>6, <2>7
  <1>3. \A v \in Views, m \in Vobs : (dir.vw[v].mn[m] = "used") = (Using(v, m) # {})  BY DEF ViewsInv, Nodes
  <1>. QED  BY <1>2, <1>3 DEF ViewsHeld

\* The reference count of every view is the number of those who hold it: no view is freed under a process, an
\* mnode or an operation, and none is kept for ever, whatever commands on tags and NFS requests interleave
\* (mvfs_ramdir_insert, mfs_viewdirrmdir, mfs_viewdirhmview, mdki_linux_proc_setview, mvfs_vget_cd).
THEOREM ViewsAreHeld == Spec => []ViewsHeld
  <1>1. Spec => []ViewsInv  BY ViewsAgree
  <1>2. ViewsInv => ViewsHeld  BY ViewsHeldIn
  <1>. QED  BY <1>1, <1>2, PTL

-----------------------------------------------------------------------------
(* The agreement of the slots, the ids and the export table, while the      *)
(* commands on tags and the NFS requests run one after another.             *)

OneAdmin == \A t, u \in Threads : loc[t].op \in Admin /\ loc[u].op \in Admin => t = u
OpAt(p, l) == /\ p \in {"mk", "mkid", "mkfill"} => l.op = "mk"
              /\ p \in {"rm", "rmexp", "rmflush", "rmid", "rmall"} => l.op \in {"rm", "rmall"}
              /\ l.op = "export" => l.ex # 0
              /\ p = "vget" => l.fh.ex # 0

\* The views and slots about to get their ids, the views about to get their addresses,
\* and those removed from their slots and not from the export table yet.
Inserting == {<<loc[t].vw, loc[t].num>> : t \in {u \in Threads : pc[u] \in {"mkid", "hmid"}}}
Describing == {loc[t].vw : t \in {u \in Threads : pc[u] \in {"mkid", "mkfill"}}}
Unexporting == {loc[t].vw : t \in {u \in Threads : pc[u] = "rmexp"}}

At(d, i, v) == i \in Slots /\ d.slot[i] # Null /\ d.slot[i].vw = v
Placed(d, v) == At(d, d.vw[v].id, v)

SlotTrue(d) == \A i \in Slots : d.slot[i] # Null =>
  /\ d.vw[d.slot[i].vw].tag = d.slot[i].nm
  /\ \A j \in Slots : d.slot[j] # Null /\ d.slot[j].vw = d.slot[i].vw => j = i
IdTrue(d, I, D) == \A i \in Slots : d.slot[i] # Null =>
  /\ d.vw[d.slot[i].vw].id = i \/ <<d.slot[i].vw, i>> \in I
  /\ d.slot[i].nm.hm \/ d.vw[d.slot[i].vw].full \/ d.slot[i].vw \in D
HmTrue(d) == \A v \in Views : d.vw[v].hm => d.vw[v].tag.hm
\* An exported view has its id in the table, and is there under its tag or about to be taken out.
ExTrue(d, U) ==
  /\ \A v \in Views : d.vw[v].ex # Null =>
       /\ d.vw[v].ex \in DOMAIN d.exp /\ d.exp[d.vw[v].ex] = d.vw[v].id /\ d.vw[v].id # 0
       /\ ~d.vw[v].tag.hm
       /\ Placed(d, v) \/ v \in U
  /\ \A v, w \in Views : d.vw[v].ex # Null /\ d.vw[v].ex = d.vw[w].ex => v = w
  /\ \A e \in DOMAIN d.exp : d.exp[e] # Null => \E v \in Views : d.vw[v].ex = e
DirTrue(d, I, D, U) == SlotTrue(d) /\ IdTrue(d, I, D) /\ HmTrue(d) /\ ExTrue(d, U)

\* What a thread at step p knows of the view it works on.
Knows(d, p, l) ==
  /\ p = "mkid" => At(d, l.num, l.vw)
  /\ p = "mkfill" => Placed(d, l.vw)
  /\ p \in {"mkid", "mkfill", "rmflush", "rmid"} => d.vw[l.vw].ex = Null
  /\ p = "hmid" => \A i \in Slots : At(d, i, l.vw) => i = l.num
  /\ p \in {"hmid", "hmfill"} => d.vw[l.vw].tag.hm
  /\ p \in {"rmexp", "rmflush", "rmid"} => \A i \in Slots : ~At(d, i, l.vw)
  /\ p \in {"export", "unexport"} => Placed(d, l.vw)
  /\ p \in {"mkid", "mkfill", "export", "unexport", "vgetnode", "got"} => ~d.vw[l.vw].tag.hm
  /\ p \in {"vgetnode", "got"} => l.vw \notin l.dead
  /\ p = "got" => d.vw[l.vw].uuid = l.fh.uuid
Knowing == {"mkid", "mkfill", "rmexp", "rmflush", "rmid", "hmid", "hmfill", "export", "unexport", "vgetnode", "got"}

NamesAgree ==
  /\ OneAdmin /\ DirTrue(dir, Inserting, Describing, Unexporting) /\ \A h \in fhs : h.ex # 0
  /\ \A t \in Threads : OpAt(pc[t], loc[t]) /\ Knows(dir, pc[t], loc[t])
NamesInv == work.serial => NamesAgree

-----------------------------------------------------------------------------
(* Changes of the counts and of the mnodes only; a view may go.             *)

Like(w, x) == /\ x.tag = w.tag /\ x.hm = w.hm /\ x.id = w.id /\ x.ex = w.ex
              /\ x.uuid = w.uuid /\ x.full = w.full
Alike(d, e) == /\ e.slot = d.slot /\ e.exp = d.exp
               /\ \A v \in Views : Like(d.vw[v], e.vw[v]) \/ (Like(NoView, e.vw[v]) /\ e.vw[v].cnt = 0)

LEMMA HoldAlike ==
  ASSUME NEW d, NEW e \in DirType, NEW v \in Views, Alike(d, e), e.vw[v].cnt # 0
  PROVE  Alike(d, Hold(e, v))
  <1>. DEFINE w == [e.vw[v] EXCEPT !.cnt = @ + 1]  f == [e EXCEPT !.vw[v] = w]
  <1>1. e.vw[v] \in ViewType  BY DEF DirType
  <1>2. Like(e.vw[v], w)  BY <1>1 DEF ViewType, Like
  <1>. HIDE DEF w
  <1>3. f.slot = e.slot /\ f.exp = e.exp /\ f.vw[v] = w /\ \A x \in Views : x # v => f.vw[x] = e.vw[x]  BY DEF DirType
  <1>4. Hold(e, v) = f  BY DEF Hold, w
  <1>. HIDE DEF f
  <1>5. Like(d.vw[v], f.vw[v])  BY <1>2, <1>3 DEF Alike, Like
  <1>6. Alike(d, f)  BY <1>3, <1>5 DEF Alike
  <1>. QED  BY <1>4, <1>6

LEMMA ReleAlike ==
  ASSUME NEW d, NEW e \in DirType, NEW v \in Views, Alike(d, e), Rele(e, v) \in DirType
  PROVE  Alike(d, Rele(e, v))
  <1>. DEFINE w == IF e.vw[v].cnt = 1 THEN NoView ELSE [e.vw[v] EXCEPT !.cnt = @ - 1]  f == [e EXCEPT !.vw[v] = w]
  <1>1. e.vw[v] \in ViewType /\ e.vw[v].cnt \in Nat  BY DEF DirType, ViewType
  <1>2. w = NoView \/ (Like(e.vw[v], w) /\ w.cnt = e.vw[v].cnt - 1)  BY <1>1 DEF ViewType, Like
  <1>3. f.slot = e.slot /\ f.exp = e.exp /\ f.vw[v] = w /\ \A x \in Views : x # v => f.vw[x] = e.vw[x]
    BY DEF DirType
  <1>4. Rele(e, v) = f  BY DEF Rele
  <1>. HIDE DEF w
  <1>5. w.cnt \in Nat  BY <1>3, <1>4 DEF DirType, ViewType
  <1>. HIDE DEF f
  <1>6. Like(d.vw[v], w) \/ (Like(NoView, w) /\ w.cnt = 0)
    <2>1. CASE w = NoView  BY <2>1 DEF Like, NoView
    <2>2. CASE Like(e.vw[v], w) /\ w.cnt = e.vw[v].cnt - 1
      <3>1. Like(d.vw[v], e.vw[v])  BY <1>1, <1>5, <2>2 DEF Alike
      <3>. QED  BY <2>2, <3>1 DEF Like
    <2>. QED  BY <1>2, <2>1, <2>2
  <1>7. Alike(d, f)  BY <1>3, <1>6 DEF Alike
  <1>. QED  BY <1>4, <1>7

LEMMA ReleIfAlike ==
  ASSUME NEW d, NEW e \in DirType, NEW v \in Views \cup {Null}, Alike(d, e), ReleIf(e, v) \in DirType
  PROVE  Alike(d, ReleIf(e, v))
  BY ReleAlike DEF ReleIf

LEMMA AlikeSelf ==
  ASSUME NEW d PROVE Alike(d, d)
  BY DEF Alike, Like

\* An mnode of v in state s
LEMMA NodeAlike ==
  ASSUME NEW d, NEW e \in DirType, NEW v \in Views, NEW m \in Vobs, NEW s, Alike(d, e)
  PROVE  Alike(d, SetNode(e, v, m, s))
  <1>. DEFINE w == [e.vw[v] EXCEPT !.mn[m] = s]  f == [e EXCEPT !.vw[v] = w]
  <1>1. e.vw[v] \in ViewType  BY DEF DirType
  <1>2. Like(e.vw[v], w) /\ w.cnt = e.vw[v].cnt  BY <1>1 DEF ViewType, Like
  <1>3. f.slot = e.slot /\ f.exp = e.exp /\ f.vw[v] = w /\ \A x \in Views : x # v => f.vw[x] = e.vw[x]  BY DEF DirType
  <1>4. SetNode(e, v, m, s) = f  BY DEF SetNode
  <1>. HIDE DEF f, w
  <1>5. Like(d.vw[v], w) \/ (Like(NoView, w) /\ w.cnt = 0)  BY <1>2 DEF Alike, Like
  <1>6. Alike(d, f)  BY <1>3, <1>5 DEF Alike
  <1>. QED  BY <1>4, <1>6

LEMMA ActivateAlike ==
  ASSUME work \in Workloads, NEW d, NEW e \in DirType, NEW v \in Views, NEW m \in Vobs, Alike(d, e), e.vw[v].cnt # 0
  PROVE  Alike(d, Activate(e, v, m))
  <1>. DEFINE s == "used"
  <1>1. CASE e.vw[v].mn[m] = "none"
    <2>. DEFINE h == Hold(e, v)  f == SetNode(h, v, m, s)
    <2>1. h \in DirType  BY HoldIn
    <2>2. Alike(d, h)  BY HoldAlike
    <2>3. Activate(e, v, m) = f  BY <1>1 DEF Activate, SetNode
    <2>. HIDE DEF h, s
    <2>. QED  BY <2>1, <2>2, <2>3, NodeAlike
  <1>2. CASE e.vw[v].mn[m] # "none"
    <2>1. Activate(e, v, m) = SetNode(e, v, m, s)  BY <1>2 DEF Activate, SetNode
    <2>. HIDE DEF s
    <2>. QED  BY <2>1, NodeAlike
  <1>. QED  BY <1>1, <1>2

LEMMA LeaveAlike ==
  ASSUME work \in Workloads, NEW t \in Threads, proc[t].cwd \in CwdType, NEW d, NEW e \in DirType, Alike(d, e),
         Leave(e, t) \in DirType
  PROVE  Alike(d, Leave(e, t))
  <1>. DEFINE v == proc[t].cwd.vw  m == proc[t].cwd.vob  s == "none"  h == SetNode(e, v, m, s)  r == "idle"
  <1>1. CASE v = Null \/ (m # Null /\ Using(v, m) # {t})
    <2>1. Leave(e, t) = e  BY <1>1 DEF Leave
    <2>. QED  BY <2>1
  <1>2. CASE v # Null /\ m = Null
    <2>1. Leave(e, t) = Rele(e, v) /\ v \in Views  BY <1>2 DEF Leave, CwdType
    <2>. HIDE DEF v
    <2>. QED  BY <2>1, ReleAlike
  <1>3. CASE v # Null /\ m # Null /\ Using(v, m) = {t}
    <2>1. v \in Views /\ m \in Vobs  BY <1>3 DEF CwdType
    <2>2. Leave(e, t) = IF e.vw[v].id = 0 THEN Rele(h, v) ELSE SetNode(e, v, m, r)  BY <1>3 DEF Leave, SetNode
    <2>3. s \in {"none", "idle", "used"}  OBVIOUS
    <2>. HIDE DEF v, m, s, r
    <2>4. NodeMoves(e, h, v, m, s)  BY <2>1, <2>3, NodeIn
    <2>5. h \in DirType  BY <2>4 DEF NodeMoves
    <2>6. Alike(d, h) /\ Alike(d, SetNode(e, v, m, r))  BY <2>1, NodeAlike
    <2>. HIDE DEF h
    <2>. QED  BY <2>1, <2>2, <2>5, <2>6, ReleAlike
  <1>. QED  BY <1>1, <1>2, <1>3

LEMMA FlushedLike ==
  ASSUME NEW w \in ViewType, NEW M
  PROVE  Flushed(w, M) = NoView \/ Like(w, Flushed(w, M))
  <1>. DEFINE idle == {m \in M : w.mn[m] = "idle"}  left == w.cnt - Cardinality(idle)
              g == [w EXCEPT !.cnt = left, !.mn = [m \in Vobs |-> IF m \in idle THEN "none" ELSE @[m]]]
  <1>1. Flushed(w, M) = IF left = 0 THEN NoView ELSE g  BY DEF Flushed
  <1>. HIDE DEF idle, left
  <1>2. Like(w, g)  BY DEF Like, ViewType
  <1>. QED  BY <1>1, <1>2

LEMMA NoViewAlike == Like(NoView, NoView) /\ NoView.cnt = 0
  BY DEF Like, NoView

LEMMA FlushVwAlike ==
  ASSUME NEW d \in DirType, NEW v \in Views
  PROVE  Alike(d, FlushVw(d, v))
  <1>. DEFINE w == Flushed(d.vw[v], Vobs)  e == [d EXCEPT !.vw[v] = w]
  <1>1. d.vw[v] \in ViewType  BY DEF DirType
  <1>2. w = NoView \/ Like(d.vw[v], w)  BY <1>1, FlushedLike
  <1>3. FlushVw(d, v) = e  BY DEF FlushVw
  <1>. HIDE DEF w
  <1>4. e.slot = d.slot /\ e.exp = d.exp /\ e.vw[v] = w /\ \A x \in Views : x # v => e.vw[x] = d.vw[x]  BY DEF DirType
  <1>. HIDE DEF e
  <1>5. Alike(d, d)  BY AlikeSelf
  <1>. QED  BY <1>2, <1>3, <1>4, <1>5, NoViewAlike DEF Alike

LEMMA FlushMountsAlike ==
  ASSUME NEW d \in DirType, NEW M
  PROVE  Alike(d, FlushMounts(d, M))
  <1>. DEFINE f == [v \in Views |-> Flushed(d.vw[v], M)]  e == [d EXCEPT !.vw = f]
  <1>1. FlushMounts(d, M) = e  BY DEF FlushMounts
  <1>2. ASSUME NEW v \in Views PROVE f[v] = NoView \/ Like(d.vw[v], f[v])
    <2>1. d.vw[v] \in ViewType  BY DEF DirType
    <2>2. f[v] = Flushed(d.vw[v], M)  OBVIOUS
    <2>. QED  BY <2>1, <2>2, FlushedLike
  <1>. HIDE DEF f
  <1>3. e.slot = d.slot /\ e.exp = d.exp /\ e.vw = f  BY DEF DirType
  <1>. HIDE DEF e
  <1>. QED  BY <1>1, <1>2, <1>3, NoViewAlike DEF Alike

\* What is true of the slots, the ids and the table stays true, as long as a view in a slot is there.
LEMMA DirAlike ==
  ASSUME work \in Workloads, NEW d \in DirType, NEW e \in DirType, Alike(d, e), NEW I, NEW D, NEW U, DirTrue(d, I, D, U),
         \A i \in Slots : e.slot[i] # Null => e.vw[e.slot[i].vw].cnt # 0,
         \A v \in U : v \in Views => e.vw[v].cnt # 0
  PROVE  DirTrue(e, I, D, U)
  <1>0. e.slot = d.slot /\ e.exp = d.exp  BY DEF Alike
  <1>1. \A i \in Slots : d.slot[i] # Null => d.slot[i].vw \in Views  BY DEF DirType, Entries
  <1>2. \A v \in Views : e.vw[v].cnt # 0 => Like(d.vw[v], e.vw[v])  BY DEF Alike
  <1>3. \A i \in Slots : d.slot[i] # Null => Like(d.vw[d.slot[i].vw], e.vw[d.slot[i].vw])  BY <1>0, <1>1, <1>2
  <1>4. SlotTrue(e)  BY <1>0, <1>3 DEF DirTrue, SlotTrue, Like
  <1>5. IdTrue(e, I, D)  BY <1>0, <1>3 DEF DirTrue, IdTrue, Like
  <1>6. \A v \in Views : Like(d.vw[v], e.vw[v]) \/ (e.vw[v].ex = Null /\ e.vw[v].hm = FALSE)
    BY DEF Alike, Like, NoView
  <1>7. HmTrue(e)  BY <1>6 DEF DirTrue, HmTrue, Like
  <1>8. ASSUME NEW v \in Views, d.vw[v].ex # Null PROVE Like(d.vw[v], e.vw[v])
    <2>1. Placed(d, v) \/ v \in U  BY <1>8 DEF DirTrue, ExTrue
    <2>2. e.vw[v].cnt # 0  BY <1>0, <2>1 DEF Placed, At
    <2>. QED  BY <1>2, <2>2
  <1>9. ExTrue(e, U)
    <2>1. ASSUME NEW v \in Views, e.vw[v].ex # Null
          PROVE  /\ d.vw[v].ex # Null /\ Like(d.vw[v], e.vw[v])
                 /\ e.vw[v].ex \in DOMAIN e.exp /\ e.exp[e.vw[v].ex] = e.vw[v].id /\ e.vw[v].id # 0
                 /\ ~e.vw[v].tag.hm
                 /\ Placed(e, v) \/ v \in U
      <3>1. Like(d.vw[v], e.vw[v])  BY <1>6, <2>1
      <3>2. d.vw[v].ex # Null  BY <2>1, <3>1 DEF Like
      <3>. QED  BY <1>0, <3>1, <3>2 DEF DirTrue, ExTrue, Placed, At, Like
    <2>2. \A v, w \in Views : e.vw[v].ex # Null /\ e.vw[v].ex = e.vw[w].ex => v = w
      BY <2>1 DEF DirTrue, ExTrue, Like
    <2>3. \A x \in DOMAIN e.exp : e.exp[x] # Null => \E v \in Views : e.vw[v].ex = x
      <3>1. SUFFICES ASSUME NEW x \in DOMAIN e.exp, e.exp[x] # Null PROVE \E v \in Views : e.vw[v].ex = x
        OBVIOUS
      <3>2. PICK v \in Views : d.vw[v].ex = x  BY <1>0, <3>1 DEF DirTrue, ExTrue
      <3>3. x # Null
        <4>1. DOMAIN e.exp \subseteq Nat  BY DEF DirType
        <4>. QED  BY <4>1, Consts
      <3>. QED  BY <1>8, <3>2, <3>3 DEF Like
    <2>. QED  BY <2>1, <2>2, <2>3 DEF ExTrue
  <1>. QED  BY <1>4, <1>5, <1>7, <1>9 DEF DirTrue

LEMMA KnowsAlike ==
  ASSUME NEW d \in DirType, NEW e \in DirType, Alike(d, e), NEW p, NEW l, Knows(d, p, l),
         p \in Knowing => l.vw \in Views /\ e.vw[l.vw].cnt # 0
  PROVE  Knows(e, p, l)
  <1>1. CASE p \notin Knowing  BY <1>1 DEF Knows, Knowing
  <1>2. CASE p \in Knowing
    <2>1. e.slot = d.slot /\ Like(d.vw[l.vw], e.vw[l.vw])  BY <1>2 DEF Alike
    <2>. QED  BY <2>1 DEF Knows, Placed, At, Like
  <1>. QED  BY <1>1, <1>2

-----------------------------------------------------------------------------
(* The changes of the slots, the ids and the table.                         *)

LEMMA DirMore ==
  ASSUME NEW d, NEW I, NEW D, NEW U, NEW J, NEW F, NEW W, DirTrue(d, I, D, U), I \subseteq J, D \subseteq F, U \subseteq W
  PROVE  DirTrue(d, J, F, W)
  <1>1. IdTrue(d, J, F)  BY DEF DirTrue, IdTrue
  <1>2. ExTrue(d, W)  BY DEF DirTrue, ExTrue
  <1>. QED  BY <1>1, <1>2 DEF DirTrue

\* A view that is in no slot is put into slot n.
LEMMA DirAdd ==
  ASSUME work \in Workloads, NEW d \in DirType, NEW e \in DirType, NEW v \in Views, NEW nm \in Nms, NEW n \in Slots,
         d.slot[n] = Null, \A i \in Slots : ~At(d, i, v), d.vw[v].ex = Null,
         e.slot = [d.slot EXCEPT ![n] = [nm |-> nm, vw |-> v]], e.exp = d.exp,
         e.vw[v].tag = nm, e.vw[v].ex = Null, e.vw[v].hm => nm.hm,
         \A x \in Views : x # v => Like(d.vw[x], e.vw[x]),
         NEW I, NEW D, NEW U, NEW J, NEW F, DirTrue(d, I, D, U),
         I \subseteq J, <<v, n>> \in J, D \subseteq F, nm.hm \/ v \in F
  PROVE  DirTrue(e, J, F, U)
  <1>1. /\ e.slot[n] # Null /\ e.slot[n].nm = nm /\ e.slot[n].vw = v
        /\ \A i \in Slots : i # n => e.slot[i] = d.slot[i]
    <2>1. [nm |-> nm, vw |-> v] \in Entries  BY DEF Entries
    <2>2. [nm |-> nm, vw |-> v] # Null  BY <2>1, Consts
    <2>. QED  BY <2>2 DEF DirType
  <1>2. \A i \in Slots : i # n /\ d.slot[i] # Null =>
          d.slot[i].vw \in Views /\ d.slot[i].vw # v /\ Like(d.vw[d.slot[i].vw], e.vw[d.slot[i].vw])
    BY DEF DirType, Entries, At
  <1>4. SlotTrue(e)  BY <1>1, <1>2 DEF DirTrue, SlotTrue, Like
  <1>5. IdTrue(e, J, F)  BY <1>1, <1>2 DEF DirTrue, IdTrue, Like
  <1>6. HmTrue(e)  BY DEF DirTrue, HmTrue, Like
  <1>7. ExTrue(e, U)
    <2>1. ASSUME NEW x \in Views, e.vw[x].ex # Null
          PROVE  /\ d.vw[x].ex # Null /\ x # v
                 /\ e.vw[x].ex \in DOMAIN e.exp /\ e.exp[e.vw[x].ex] = e.vw[x].id /\ e.vw[x].id # 0
                 /\ ~e.vw[x].tag.hm
                 /\ Placed(e, x) \/ x \in U
      <3>1. x # v /\ Like(d.vw[x], e.vw[x])  BY <2>1
      <3>2. d.vw[x].ex # Null  BY <2>1, <3>1 DEF Like
      <3>3. Placed(d, x) => Placed(e, x)  BY <1>1, <3>1 DEF Placed, At, Like
      <3>. QED  BY <3>1, <3>2, <3>3 DEF DirTrue, ExTrue, Like
    <2>2. \A x, y \in Views : e.vw[x].ex # Null /\ e.vw[x].ex = e.vw[y].ex => x = y
      BY <2>1 DEF DirTrue, ExTrue, Like
    <2>3. \A k \in DOMAIN e.exp : e.exp[k] # Null => \E x \in Views : e.vw[x].ex = k
      <3>1. SUFFICES ASSUME NEW k \in DOMAIN e.exp, e.exp[k] # Null PROVE \E x \in Views : e.vw[x].ex = k
        OBVIOUS
      <3>2. PICK x \in Views : d.vw[x].ex = k  BY <3>1 DEF DirTrue, ExTrue
      <3>3. k # Null
        <4>1. DOMAIN e.exp \subseteq Nat  BY DEF DirType
        <4>. QED  BY <4>1, Consts
      <3>. QED  BY <3>2, <3>3 DEF Like
    <2>. QED  BY <2>1, <2>2, <2>3 DEF ExTrue
  <1>. QED  BY <1>4, <1>5, <1>6, <1>7 DEF DirTrue

\* The record of a view that is not exported changes.
LEMMA DirSet ==
  ASSUME work \in Workloads, NEW d \in DirType, NEW e \in DirType, NEW v \in Views, e.slot = d.slot, e.exp = d.exp,
         e.vw[v].tag = d.vw[v].tag, d.vw[v].ex = Null, e.vw[v].ex = Null,
         e.vw[v].hm => d.vw[v].tag.hm,
         \A x \in Views : x # v => Like(d.vw[x], e.vw[x]),
         NEW I, NEW D, NEW U, NEW J, NEW F, NEW W, DirTrue(d, I, D, U),
         \A i \in Slots : At(d, i, v) => /\ e.vw[v].id = i \/ <<v, i>> \in J
                                         /\ d.slot[i].nm.hm \/ e.vw[v].full \/ v \in F,
         \A x, i : x # v /\ <<x, i>> \in I => <<x, i>> \in J, \A x \in D : x # v => x \in F,
         \A x \in U : x # v => x \in W
  PROVE  DirTrue(e, J, F, W)
  <1>1. \A i \in Slots : d.slot[i] # Null => /\ d.slot[i].vw \in Views
                                             /\ d.slot[i].vw # v => Like(d.vw[d.slot[i].vw], e.vw[d.slot[i].vw])
    BY DEF DirType, Entries
  <1>2. SlotTrue(e)  BY <1>1 DEF DirTrue, SlotTrue, Like
  <1>3. IdTrue(e, J, F)
    <2>. SUFFICES ASSUME NEW i \in Slots, d.slot[i] # Null
         PROVE  /\ e.vw[d.slot[i].vw].id = i \/ <<d.slot[i].vw, i>> \in J
                /\ d.slot[i].nm.hm \/ e.vw[d.slot[i].vw].full \/ d.slot[i].vw \in F
      BY DEF IdTrue
    <2>1. CASE d.slot[i].vw = v  BY <2>1 DEF At
    <2>2. CASE d.slot[i].vw # v  BY <1>1, <2>2 DEF DirTrue, IdTrue, Like
    <2>. QED  BY <2>1, <2>2
  <1>4. HmTrue(e)  BY DEF DirTrue, HmTrue, Like
  <1>5. ExTrue(e, W)
    <2>1. ASSUME NEW x \in Views, e.vw[x].ex # Null
          PROVE  /\ d.vw[x].ex # Null /\ x # v
                 /\ e.vw[x].ex \in DOMAIN e.exp /\ e.exp[e.vw[x].ex] = e.vw[x].id /\ e.vw[x].id # 0
                 /\ ~e.vw[x].tag.hm
                 /\ Placed(e, x) \/ x \in W
      <3>1. x # v /\ Like(d.vw[x], e.vw[x])  BY <2>1
      <3>2. d.vw[x].ex # Null  BY <2>1, <3>1 DEF Like
      <3>. QED  BY <3>1, <3>2 DEF DirTrue, ExTrue, Placed, At, Like
    <2>2. \A x, y \in Views : e.vw[x].ex # Null /\ e.vw[x].ex = e.vw[y].ex => x = y
      BY <2>1 DEF DirTrue, ExTrue, Like
    <2>3. \A k \in DOMAIN e.exp : e.exp[k] # Null => \E x \in Views : e.vw[x].ex = k
      <3>1. SUFFICES ASSUME NEW k \in DOMAIN e.exp, e.exp[k] # Null PROVE \E x \in Views : e.vw[x].ex = k
        OBVIOUS
      <3>2. PICK x \in Views : d.vw[x].ex = k  BY <3>1 DEF DirTrue, ExTrue
      <3>3. k # Null
        <4>1. DOMAIN e.exp \subseteq Nat  BY DEF DirType
        <4>. QED  BY <4>1, Consts
      <3>. QED  BY <3>2, <3>3 DEF Like
    <2>. QED  BY <2>1, <2>2, <2>3 DEF ExTrue
  <1>. QED  BY <1>2, <1>3, <1>4, <1>5 DEF DirTrue

\* A slot is emptied.
LEMMA DirRemove ==
  ASSUME work \in Workloads, NEW d \in DirType, NEW e, NEW n \in Slots, d.slot[n] # Null,
         e.slot = [d.slot EXCEPT ![n] = Null], e.exp = d.exp, e.vw = d.vw,
         NEW I, NEW D, NEW U, NEW W, DirTrue(d, I, D, U), U \subseteq W,
         d.vw[d.slot[n].vw].ex # Null => d.slot[n].vw \in W
  PROVE  DirTrue(e, I, D, W)
  <1>1. e.slot[n] = Null /\ \A i \in Slots : i # n => e.slot[i] = d.slot[i]  BY DEF DirType
  <1>2. SlotTrue(e)  BY <1>1 DEF DirTrue, SlotTrue
  <1>3. IdTrue(e, I, D)  BY <1>1 DEF DirTrue, IdTrue
  <1>4. \A x \in Views : Placed(d, x) => Placed(e, x) \/ x = d.slot[n].vw  BY <1>1 DEF Placed, At
  <1>5. ExTrue(e, W)
    <2>1. \A x \in Views : e.vw[x].ex # Null => Placed(e, x) \/ x \in W  BY <1>4 DEF DirTrue, ExTrue
    <2>. QED  BY <2>1 DEF DirTrue, ExTrue
  <1>6. HmTrue(e)  BY DEF DirTrue, HmTrue
  <1>. QED  BY <1>2, <1>3, <1>5, <1>6 DEF DirTrue

\* mvfs_viewdirunexport: what it leaves.
LEMMA UnexportIs ==
  ASSUME NEW d \in DirType, NEW v \in Views
  PROVE  LET e == Unexport(d, v)
         IN  /\ e.slot = d.slot /\ e.vw[v].ex = Null /\ \A x \in Views : x # v => e.vw[x] = d.vw[x]
             /\ e.vw[v].tag = d.vw[v].tag /\ e.vw[v].hm = d.vw[v].hm /\ e.vw[v].id = d.vw[v].id
             /\ e.vw[v].uuid = d.vw[v].uuid /\ e.vw[v].full = d.vw[v].full
             /\ DOMAIN e.exp = DOMAIN d.exp
             /\ \A k \in DOMAIN d.exp : e.exp[k] = IF d.vw[v].ex # Null /\ k = d.vw[v].ex THEN Null ELSE d.exp[k]
  <1>0. d.vw[v] \in ViewType  BY DEF DirType
  <1>1. CASE d.vw[v].ex = Null
    <2>1. Unexport(d, v) = d  BY <1>1 DEF Unexport
    <2>. QED  BY <1>1, <2>1
  <1>2. CASE d.vw[v].ex # Null
    <2>. DEFINE w == [d.vw[v] EXCEPT !.ex = Null]  h == [d EXCEPT !.vw[v] = w]
                s == [d.exp EXCEPT ![d.vw[v].ex] = Null]  e == [h EXCEPT !.exp = s]
    <2>1. w.ex = Null /\ w.tag = d.vw[v].tag /\ w.hm = d.vw[v].hm /\ w.id = d.vw[v].id /\ w.uuid = d.vw[v].uuid
          /\ w.full = d.vw[v].full
      BY <1>0 DEF ViewType
    <2>2. Unexport(d, v) = e  BY <1>2 DEF Unexport, DirType
    <2>3. DOMAIN s = DOMAIN d.exp /\ \A k \in DOMAIN d.exp : s[k] = IF k = d.vw[v].ex THEN Null ELSE d.exp[k]
      BY DEF DirType
    <2>. HIDE DEF w, s
    <2>4. e.slot = d.slot /\ e.exp = s /\ e.vw[v] = w /\ \A x \in Views : x # v => e.vw[x] = d.vw[x]  BY DEF DirType
    <2>. HIDE DEF e
    <2>. QED  BY <1>2, <2>1, <2>2, <2>3, <2>4
  <1>. QED  BY <1>1, <1>2

LEMMA DirUnexport ==
  ASSUME work \in Workloads, NEW d \in DirType, NEW v \in Views,
         NEW I, NEW D, NEW U, NEW W, DirTrue(d, I, D, U), \A x \in U : x # v => x \in W
  PROVE  DirTrue(Unexport(d, v), I, D, W)
  <1>. DEFINE e == Unexport(d, v)
  <1>1. /\ e.slot = d.slot /\ e.vw[v].ex = Null /\ \A x \in Views : x # v => e.vw[x] = d.vw[x]
        /\ e.vw[v].tag = d.vw[v].tag /\ e.vw[v].hm = d.vw[v].hm /\ e.vw[v].id = d.vw[v].id
        /\ e.vw[v].uuid = d.vw[v].uuid /\ e.vw[v].full = d.vw[v].full
        /\ DOMAIN e.exp = DOMAIN d.exp
        /\ \A k \in DOMAIN d.exp : e.exp[k] = IF d.vw[v].ex # Null /\ k = d.vw[v].ex THEN Null ELSE d.exp[k]
    BY UnexportIs
  <1>. HIDE DEF e
  <1>2. \A x \in Views : e.vw[x].tag = d.vw[x].tag /\ e.vw[x].hm = d.vw[x].hm /\ e.vw[x].id = d.vw[x].id
                         /\ e.vw[x].full = d.vw[x].full
    BY <1>1
  <1>3. \A i \in Slots : d.slot[i] # Null => d.slot[i].vw \in Views  BY DEF DirType, Entries
  <1>4. SlotTrue(e)  BY <1>1, <1>2, <1>3 DEF DirTrue, SlotTrue
  <1>5. IdTrue(e, I, D)  BY <1>1, <1>2, <1>3 DEF DirTrue, IdTrue
  <1>6. HmTrue(e)  BY <1>2 DEF DirTrue, HmTrue
  <1>7. ExTrue(e, W)
    <2>1. ASSUME NEW x \in Views, e.vw[x].ex # Null
          PROVE  /\ x # v /\ e.vw[x].ex = d.vw[x].ex
                 /\ e.vw[x].ex \in DOMAIN e.exp /\ e.exp[e.vw[x].ex] = e.vw[x].id /\ e.vw[x].id # 0
                 /\ ~e.vw[x].tag.hm
                 /\ Placed(e, x) \/ x \in W
      <3>1. x # v /\ e.vw[x] = d.vw[x]  BY <1>1, <2>1
      <3>2. d.vw[v].ex # Null => d.vw[x].ex # d.vw[v].ex  BY <2>1, <3>1 DEF DirTrue, ExTrue
      <3>3. d.vw[x].ex \in DOMAIN d.exp /\ d.exp[d.vw[x].ex] = d.vw[x].id /\ d.vw[x].id # 0 /\ ~d.vw[x].tag.hm
            /\ (Placed(d, x) \/ x \in U)
        BY <2>1, <3>1 DEF DirTrue, ExTrue
      <3>. QED  BY <1>1, <3>1, <3>2, <3>3 DEF Placed, At
    <2>2. \A x, y \in Views : e.vw[x].ex # Null /\ e.vw[x].ex = e.vw[y].ex => x = y
      BY <2>1 DEF DirTrue, ExTrue
    <2>3. \A k \in DOMAIN e.exp : e.exp[k] # Null => \E x \in Views : e.vw[x].ex = k
      <3>1. SUFFICES ASSUME NEW k \in DOMAIN e.exp, e.exp[k] # Null PROVE \E x \in Views : e.vw[x].ex = k
        OBVIOUS
      <3>2. k \in DOMAIN d.exp /\ d.exp[k] # Null /\ ~(d.vw[v].ex # Null /\ k = d.vw[v].ex)  BY <1>1, <3>1
      <3>3. PICK x \in Views : d.vw[x].ex = k  BY <3>2 DEF DirTrue, ExTrue
      <3>4. k # Null
        <4>1. DOMAIN d.exp \subseteq Nat  BY DEF DirType
        <4>. QED  BY <3>2, <4>1, Consts
      <3>. QED  BY <1>1, <3>2, <3>3, <3>4
    <2>. QED  BY <2>1, <2>2, <2>3 DEF ExTrue
  <1>. QED  BY <1>4, <1>5, <1>6, <1>7 DEF DirTrue, e

\* The table grows to hold index e and keeps what it has.
LEMMA GrownIs ==
  ASSUME NEW s \in Seq(Nat \cup {Null}), NEW e \in Nat, e # 0
  PROVE  LET g == Grown(s, e)
         IN  /\ g \in Seq(Nat \cup {Null}) /\ e \in DOMAIN g /\ DOMAIN s \subseteq DOMAIN g
             /\ \A k \in DOMAIN g : g[k] = IF k \in DOMAIN s THEN s[k] ELSE Null
  <1>. DEFINE q == (e + Chunk - 1) \div Chunk  n == q * Chunk
              r == [i \in 1..n |-> IF i <= Len(s) THEN s[i] ELSE Null]
  <1>1. Chunk \in Nat /\ Chunk > 0  BY ViewsAssumption DEF ViewsAssumption
  <1>2. n \in Nat /\ n >= e
    <2>. DEFINE a == e + Chunk - 1
    <2>1. a \in Nat  BY <1>1
    <2>2. \A x \in Nat, c \in Nat : c > 0 => (x \div c) \in Nat /\ x < (x \div c) * c + c  BY Z3
    <2>. HIDE DEF a
    <2>3. (a \div Chunk) \in Nat /\ a < (a \div Chunk) * Chunk + Chunk  BY <1>1, <2>1, <2>2
    <2>4. q \in Nat /\ e + Chunk - 1 < q * Chunk + Chunk  BY <2>3 DEF a
    <2>. HIDE DEF q
    <2>5. n \in Nat  BY <1>1, <2>4
    <2>6. e + Chunk - 1 < n + Chunk  BY <2>4
    <2>. HIDE DEF n
    <2>. QED  BY <1>1, <2>5, <2>6
  <1>. HIDE DEF n
  <1>3. Grown(s, e) = IF e <= Len(s) THEN s ELSE r  BY DEF Grown, r, n, q
  <1>4. Grown(s, e) \in Seq(Nat \cup {Null})  BY GrownIn
  <1>5. DOMAIN s = 1..Len(s) /\ Len(s) \in Nat  OBVIOUS
  <1>6. CASE e <= Len(s)  BY <1>3, <1>4, <1>5, <1>6
  <1>7. CASE ~(e <= Len(s))
    <2>1. DOMAIN r = 1..n /\ \A k \in 1..n : r[k] = IF k <= Len(s) THEN s[k] ELSE Null  OBVIOUS
    <2>. HIDE DEF r
    <2>2. Grown(s, e) = r  BY <1>3, <1>7
    <2>. QED  BY <1>2, <1>4, <1>5, <1>7, <2>1, <2>2
  <1>. QED  BY <1>6, <1>7

\* mvfs_viewdirexport of a view that is in its slot.
LEMMA DirExport ==
  ASSUME work \in Workloads, NEW d \in DirType, NEW v \in Views, NEW n \in Nat, n # 0,
         NEW I, NEW D, DirTrue(d, I, D, {}), Placed(d, v), ~d.vw[v].tag.hm
  PROVE  /\ DirTrue(Exported(d, v, n), I, D, {})
         /\ Exported(d, v, n).slot = d.slot
         /\ \A x \in Views : LET w == Exported(d, v, n).vw[x]
                             IN  w.tag = d.vw[x].tag /\ w.id = d.vw[x].id /\ w.uuid = d.vw[x].uuid
  <1>. DEFINE g == Grown(d.exp, n)  w == [d.vw[v] EXCEPT !.ex = n]  h == [d EXCEPT !.vw[v] = w]
              s == [g EXCEPT ![n] = d.vw[v].id]  e == [h EXCEPT !.exp = s]
  <1>0. d.vw[v] \in ViewType /\ d.exp \in Seq(Nat \cup {Null})  BY DEF DirType
  <1>1. CASE d.vw[v].ex \notin {Null, n} \/ g[n] \notin {Null, d.vw[v].id}
    <2>1. Exported(d, v, n) = d  BY <1>1 DEF Exported
    <2>. QED  BY <2>1
  <1>2. CASE d.vw[v].ex \in {Null, n} /\ g[n] \in {Null, d.vw[v].id}
    <2>1. Exported(d, v, n) = e
      <3>1. Exported(d, v, n) = [d EXCEPT !.exp = s, !.vw[v].ex = n]  BY <1>2 DEF Exported
      <3>2. [d EXCEPT !.exp = s, !.vw[v].ex = n] = e  BY DEF DirType
      <3>. QED  BY <3>1, <3>2
    <2>2. /\ w.ex = n /\ w.tag = d.vw[v].tag /\ w.hm = d.vw[v].hm /\ w.id = d.vw[v].id
          /\ w.uuid = d.vw[v].uuid /\ w.full = d.vw[v].full
      BY <1>0 DEF ViewType
    <2>3. /\ g \in Seq(Nat \cup {Null}) /\ n \in DOMAIN g /\ DOMAIN d.exp \subseteq DOMAIN g
          /\ \A k \in DOMAIN g : g[k] = IF k \in DOMAIN d.exp THEN d.exp[k] ELSE Null
      BY <1>0, GrownIs
    <2>. HIDE DEF g, w
    <2>4. DOMAIN s = DOMAIN g /\ \A k \in DOMAIN g : s[k] = IF k = n THEN d.vw[v].id ELSE g[k]  BY <2>3
    <2>. HIDE DEF s
    <2>5. e.slot = d.slot /\ e.exp = s /\ e.vw[v] = w /\ \A x \in Views : x # v => e.vw[x] = d.vw[x]  BY DEF DirType
    <2>. HIDE DEF e
    <2>6. \A x \in Views : /\ e.vw[x].tag = d.vw[x].tag /\ e.vw[x].hm = d.vw[x].hm /\ e.vw[x].id = d.vw[x].id
                           /\ e.vw[x].full = d.vw[x].full /\ e.vw[x].uuid = d.vw[x].uuid
      BY <2>2, <2>5
    <2>7. \A i \in Slots : d.slot[i] # Null => d.slot[i].vw \in Views  BY DEF DirType, Entries
    <2>8. SlotTrue(e)  BY <2>5, <2>6, <2>7 DEF DirTrue, SlotTrue
    <2>9. IdTrue(e, I, D)  BY <2>5, <2>6, <2>7 DEF DirTrue, IdTrue
    <2>10. HmTrue(e)  BY <2>6 DEF DirTrue, HmTrue
    <2>11. n # Null /\ d.vw[v].id # Null /\ d.vw[v].id \in Nat /\ d.vw[v].id # 0
      <3>1. d.vw[v].id \in Slots  BY DEF Placed, At
      <3>2. n # Null /\ d.vw[v].id # Null  BY <1>0, Consts DEF ViewType
      <3>. QED  BY <3>1, <3>2, <1>0 DEF Slots, ViewType
    <2>12. ASSUME NEW x \in Views, d.vw[x].ex # Null, d.vw[x].ex = n PROVE x = v
      <3>1. n \in DOMAIN d.exp /\ d.exp[n] = d.vw[x].id /\ Placed(d, x)  BY <2>12 DEF DirTrue, ExTrue
      <3>2. d.vw[x].id \in Nat /\ d.vw[x].id # Null
        <4>1. d.vw[x] \in ViewType  BY DEF DirType
        <4>. QED  BY <4>1, Consts DEF ViewType
      <3>3. d.vw[x].id = d.vw[v].id  BY <1>2, <2>3, <3>1, <3>2
      <3>. QED  BY <3>1, <3>3 DEF Placed, At
    <2>13. ASSUME NEW x \in Views, e.vw[x].ex # Null, x # v
           PROVE  /\ d.vw[x].ex # Null /\ e.vw[x].ex = d.vw[x].ex /\ d.vw[x].ex # n
                  /\ d.vw[x].ex \in DOMAIN d.exp /\ d.exp[d.vw[x].ex] = d.vw[x].id /\ d.vw[x].id # 0
                  /\ ~d.vw[x].tag.hm /\ Placed(d, x)
      <3>1. e.vw[x] = d.vw[x]  BY <2>5, <2>13
      <3>. QED  BY <2>12, <2>13, <3>1 DEF DirTrue, ExTrue
    <2>14. ExTrue(e, {})
      <3>1. ASSUME NEW x \in Views, e.vw[x].ex # Null
            PROVE  /\ e.vw[x].ex \in DOMAIN e.exp /\ e.exp[e.vw[x].ex] = e.vw[x].id /\ e.vw[x].id # 0
                   /\ ~e.vw[x].tag.hm
                   /\ Placed(e, x) \/ x \in {}
        <4>1. CASE x = v  BY <2>2, <2>3, <2>4, <2>5, <2>11, <4>1 DEF Placed, At
        <4>2. CASE x # v
          <5>1. e.exp[d.vw[x].ex] = d.exp[d.vw[x].ex]  BY <2>3, <2>4, <2>5, <2>13, <3>1, <4>2
          <5>. QED  BY <2>3, <2>4, <2>5, <2>6, <2>13, <3>1, <4>2, <5>1 DEF Placed, At
        <4>. QED  BY <4>1, <4>2
      <3>2. \A x, y \in Views : e.vw[x].ex # Null /\ e.vw[x].ex = e.vw[y].ex => x = y
        <4>1. \A x \in Views : x # v => e.vw[x] = d.vw[x]  BY <2>5
        <4>2. \A x \in Views : x # v => e.vw[x].ex # n  BY <2>11, <2>12, <4>1
        <4>3. \A x, y \in Views : x # v /\ y # v /\ e.vw[x].ex # Null /\ e.vw[x].ex = e.vw[y].ex => x = y
          BY <4>1 DEF DirTrue, ExTrue
        <4>. QED  BY <2>2, <2>5, <4>2, <4>3
      <3>3. \A k \in DOMAIN e.exp : e.exp[k] # Null => \E x \in Views : e.vw[x].ex = k
        <4>1. SUFFICES ASSUME NEW k \in DOMAIN e.exp, e.exp[k] # Null PROVE \E x \in Views : e.vw[x].ex = k
          OBVIOUS
        <4>2. CASE k = n  BY <2>2, <2>5, <4>2
        <4>3. CASE k # n
          <5>1. k \in DOMAIN d.exp /\ d.exp[k] # Null  BY <2>3, <2>4, <2>5, <4>1, <4>3
          <5>2. PICK x \in Views : d.vw[x].ex = k  BY <5>1 DEF DirTrue, ExTrue
          <5>3. k # Null
            <6>1. DOMAIN d.exp \subseteq Nat  BY <1>0
            <6>. QED  BY <5>1, <6>1, Consts
          <5>4. x # v  BY <1>2, <4>3, <5>2, <5>3
          <5>. QED  BY <2>5, <5>2, <5>4
        <4>. QED  BY <4>2, <4>3
      <3>. QED  BY <3>1, <3>2, <3>3 DEF ExTrue
    <2>15. DirTrue(e, I, D, {})  BY <2>8, <2>9, <2>10, <2>14 DEF DirTrue
    <2>. QED  BY <2>1, <2>5, <2>6, <2>15
  <1>. QED  BY <1>1, <1>2

-----------------------------------------------------------------------------
(* What the other threads know.                                             *)

LEMMA KnowsMore ==
  ASSUME NEW d, NEW e, NEW p, NEW l, Knows(d, p, l),
         \A i \in Slots : At(e, i, l.vw) = At(d, i, l.vw),
         e.vw[l.vw].tag = d.vw[l.vw].tag, e.vw[l.vw].ex = d.vw[l.vw].ex,
         p \in {"mkfill", "export", "unexport"} => e.vw[l.vw].id = d.vw[l.vw].id,
         p = "got" => e.vw[l.vw].uuid = d.vw[l.vw].uuid
  PROVE  Knows(e, p, l)
  <1>1. \A i : At(e, i, l.vw) = At(d, i, l.vw)  BY DEF At
  <1>. QED  BY <1>1 DEF Knows, Placed

LEMMA KnowsHm ==
  ASSUME NEW d, NEW e, NEW p, NEW l, Knows(d, p, l), p \in Knowing => p \in {"hmid", "hmfill"},
         p \in Knowing => /\ e.vw[l.vw].tag = d.vw[l.vw].tag
                          /\ \A i \in Slots : At(e, i, l.vw) => At(d, i, l.vw)
  PROVE  Knows(e, p, l)
  BY DEF Knows, Knowing

-----------------------------------------------------------------------------
(* Steps of one thread.                                                     *)

\* Views in slots and views that operations work on are held.
LEMMA HeldNow ==
  ViewsInv => /\ work \in Workloads /\ dir \in DirType
              /\ \A i \in Slots : dir.slot[i] # Null => /\ dir.slot[i] \in Entries /\ dir.slot[i].vw \in Views
                                                        /\ dir.vw[dir.slot[i].vw].cnt # 0
              /\ \A t \in Threads : pc[t] \in Within \cup After => /\ loc[t].vw \in Views
                                                                   /\ dir.vw[loc[t].vw].cnt # 0
  <1>. SUFFICES ASSUME ViewsInv
       PROVE  /\ work \in Workloads /\ dir \in DirType
              /\ \A i \in Slots : dir.slot[i] # Null => /\ dir.slot[i] \in Entries /\ dir.slot[i].vw \in Views
                                                        /\ dir.vw[dir.slot[i].vw].cnt # 0
              /\ \A t \in Threads : pc[t] \in Within \cup After => /\ loc[t].vw \in Views
                                                                   /\ dir.vw[loc[t].vw].cnt # 0
    OBVIOUS
  <1>1. work \in Workloads /\ dir \in DirType  BY DEF ViewsInv
  <1>2. \A v \in Views : /\ IsFiniteSet(InSlots(dir, v)) /\ Cardinality(InSlots(dir, v)) \in Nat
                         /\ IsFiniteSet(Mnodes(dir.vw[v])) /\ Cardinality(Mnodes(dir.vw[v])) \in Nat
                         /\ dir.vw[v].cnt = Spare(dir, v) + Cardinality(InSlots(dir, v)) + Cardinality(Mnodes(dir.vw[v]))
                         /\ Spare(dir, v) \in Int /\ Spare(dir, v) >= 0
    BY <1>1, Parts, SpareNat
  <1>3. ASSUME NEW i \in Slots, dir.slot[i] # Null
        PROVE  dir.slot[i] \in Entries /\ dir.slot[i].vw \in Views /\ dir.vw[dir.slot[i].vw].cnt # 0
    <2>. DEFINE v == dir.slot[i].vw
    <2>1. dir.slot[i] \in Entries /\ v \in Views /\ i \in InSlots(dir, v)  BY <1>1, <1>3 DEF DirType, Entries, InSlots
    <2>. HIDE DEF v
    <2>2. Cardinality(InSlots(dir, v)) # 0  BY <1>2, <2>1, FS_EmptySet
    <2>3. dir.vw[v].cnt # 0  BY <1>2, <2>1, <2>2
    <2>. QED  BY <2>1, <2>3 DEF v
  <1>4. ASSUME NEW t \in Threads, pc[t] \in Within \cup After
        PROVE  loc[t].vw \in Views /\ dir.vw[loc[t].vw].cnt # 0
    <2>. DEFINE v == loc[t].vw
    <2>1. CASE pc[t] \in Within
      <3>1. v \in Views /\ Spare(dir, v) >= 1  BY <2>1, Held
      <3>. HIDE DEF v
      <3>2. dir.vw[v].cnt # 0  BY <1>2, <3>1
      <3>. QED  BY <3>1, <3>2 DEF v
    <2>2. CASE pc[t] \in After
      <3>1. ThreadAt(pc[t], loc[t], proc[t])  BY DEF ViewsInv
      <3>2. v # Null /\ proc[t].cwd.vw = v  BY <2>2, <3>1 DEF ThreadAt
      <3>3. v \in Views /\ proc[t].cwd \in CwdType
        <4>1. v \in Views \cup {Null}  BY <3>1 DEF ThreadAt, LocType
        <4>2. proc[t].cwd \in CwdType  BY <3>1 DEF ThreadAt, ProcType
        <4>. QED  BY <3>2, <4>1, <4>2
      <3>. HIDE DEF v
      <3>4. CASE proc[t].cwd.vob = Null
        <4>1. Spare(dir, v) >= 1  BY <3>2, <3>3, <3>4, Held
        <4>2. dir.vw[v].cnt # 0  BY <1>2, <3>3, <4>1
        <4>. QED  BY <3>3, <4>2 DEF v
      <3>5. CASE proc[t].cwd.vob # Null
        <4>. DEFINE m == proc[t].cwd.vob
        <4>1. m \in Vobs /\ proc[t].cwd = [vw |-> v, vob |-> m]  BY <3>2, <3>3, <3>5 DEF CwdType
        <4>. HIDE DEF m
        <4>2. t \in Using(v, m)  BY <4>1 DEF Using
        <4>3. dir.vw[v].mn[m] = "used"  BY <3>3, <4>1, <4>2 DEF ViewsInv, Nodes
        <4>4. m \in Mnodes(dir.vw[v])  BY <4>1, <4>3 DEF Mnodes
        <4>5. Cardinality(Mnodes(dir.vw[v])) # 0  BY <1>2, <3>3, <4>4, FS_EmptySet
        <4>6. dir.vw[v].cnt # 0  BY <1>2, <3>3, <4>5
        <4>. QED  BY <3>3, <4>6 DEF v
      <3>. QED  BY <3>4, <3>5
    <2>. QED  BY <1>4, <2>1, <2>2
  <1>. QED  BY <1>1, <1>3, <1>4

HeldIn == /\ dir \in DirType
          /\ \A i \in Slots : dir.slot[i] # Null => dir.slot[i].vw \in Views /\ dir.vw[dir.slot[i].vw].cnt # 0
          /\ \A t \in Threads : pc[t] \in Within \cup After => loc[t].vw \in Views /\ dir.vw[loc[t].vw].cnt # 0
LEMMA HeldAfter == ViewsInv' => HeldIn'
  <1>1. ViewsInv => HeldIn  BY HeldNow DEF HeldIn
  <1>. QED  BY <1>1, PTL

LEMMA HeldThen ==
  ASSUME ViewsInv', work' = work
  PROVE  /\ dir' \in DirType
         /\ \A i \in Slots : dir'.slot[i] # Null => dir'.slot[i].vw \in Views /\ dir'.vw[dir'.slot[i].vw].cnt # 0
         /\ \A t \in Threads : pc'[t] \in Within \cup After => loc'[t].vw \in Views /\ dir'.vw[loc'[t].vw].cnt # 0
  BY HeldAfter DEF HeldIn, Slots, DirType

\* Nothing that names depend on changes in the threads that are not in T.
Steady(T) == \A u \in Threads \ T :
  /\ pc'[u] = pc[u] /\ loc'[u].dead \subseteq loc[u].dead
  /\ loc'[u].op = loc[u].op /\ loc'[u].vw = loc[u].vw /\ loc'[u].num = loc[u].num
  /\ loc'[u].fh = loc[u].fh /\ loc'[u].ex = loc[u].ex

LEMMA SetsKeep ==
  ASSUME NEW t, Steady({t})
  PROVE  /\ \A x, i : <<x, i>> \in Inserting =>
              <<x, i>> \in Inserting' \/ (pc[t] \in {"mkid", "hmid"} /\ x = loc[t].vw)
         /\ \A x \in Describing : x \in Describing' \/ (pc[t] \in {"mkid", "mkfill"} /\ x = loc[t].vw)
         /\ \A x \in Unexporting : x \in Unexporting' \/ (pc[t] = "rmexp" /\ x = loc[t].vw)
         /\ pc[t] \notin {"mkid", "hmid"} => Inserting \subseteq Inserting'
         /\ pc[t] \notin {"mkid", "mkfill"} => Describing \subseteq Describing'
         /\ pc[t] # "rmexp" => Unexporting \subseteq Unexporting'
  <1>1. ASSUME NEW y \in Inserting
        PROVE  y \in Inserting' \/ (pc[t] \in {"mkid", "hmid"} /\ y = <<loc[t].vw, loc[t].num>>)
    <2>1. PICK u \in Threads : pc[u] \in {"mkid", "hmid"} /\ y = <<loc[u].vw, loc[u].num>>  BY DEF Inserting
    <2>2. CASE u = t  BY <2>1, <2>2
    <2>3. CASE u # t
      <3>1. pc'[u] \in {"mkid", "hmid"} /\ y = <<loc'[u].vw, loc'[u].num>>  BY <2>1, <2>3 DEF Steady
      <3>. QED  BY <3>1 DEF Inserting
    <2>. QED  BY <2>2, <2>3
  <1>2. ASSUME NEW y \in Describing PROVE y \in Describing' \/ (pc[t] \in {"mkid", "mkfill"} /\ y = loc[t].vw)
    <2>1. PICK u \in Threads : pc[u] \in {"mkid", "mkfill"} /\ y = loc[u].vw  BY DEF Describing
    <2>2. CASE u = t  BY <2>1, <2>2
    <2>3. CASE u # t
      <3>1. pc'[u] \in {"mkid", "mkfill"} /\ y = loc'[u].vw  BY <2>1, <2>3 DEF Steady
      <3>. QED  BY <3>1 DEF Describing
    <2>. QED  BY <2>2, <2>3
  <1>3. ASSUME NEW y \in Unexporting PROVE y \in Unexporting' \/ (pc[t] = "rmexp" /\ y = loc[t].vw)
    <2>1. PICK u \in Threads : pc[u] = "rmexp" /\ y = loc[u].vw  BY DEF Unexporting
    <2>2. CASE u = t  BY <2>1, <2>2
    <2>3. CASE u # t
      <3>1. pc'[u] = "rmexp" /\ y = loc'[u].vw  BY <2>1, <2>3 DEF Steady
      <3>. QED  BY <3>1 DEF Unexporting
    <2>. QED  BY <2>2, <2>3
  <1>. QED  BY <1>1, <1>2, <1>3

\* While a command runs, the others are at most at history mode views.
LEMMA NoOther ==
  ASSUME ViewsInv, NamesAgree, NEW t \in Threads, loc[t].op \in Admin, NEW u \in Threads, u # t
  PROVE  pc[u] \in Knowing => pc[u] \in {"hmid", "hmfill"}
  <1>1. loc[u].op \notin Admin  BY DEF NamesAgree, OneAdmin
  <1>2. ThreadAt(pc[u], loc[u], proc[u]) /\ OpAt(pc[u], loc[u])  BY DEF ViewsInv, NamesAgree
  <1>3. pc[u] \in {"mkid", "mkfill", "rmexp", "rmflush", "rmid", "export", "unexport", "vgetnode", "got"}
          => loc[u].op \in {"mk", "rm", "rmall", "export", "unexport", "vget"}
    BY <1>2 DEF ThreadAt, OpAt
  <1>. QED  BY <1>1, <1>3 DEF Admin, Knowing

LEMMA KnowsThen ==
  ASSUME work' = work, \A u \in Threads : Knows(dir', pc'[u], loc'[u])
  PROVE  (\A u \in Threads : Knows(dir, pc[u], loc[u]))'
  BY DEF Knows, At, Placed, Slots

\* A step of the threads in T takes the directory to d, and then counts and mnodes change only.
LEMMA Changed ==
  ASSUME ViewsInv, ViewsInv', NamesAgree, work' = work, \A h \in fhs' : h.ex # 0,
         NEW T \in SUBSET Threads, Steady(T), OneAdmin',
         NEW d \in DirType, Alike(d, dir'), DirTrue(d, Inserting', Describing', Unexporting'),
         \A u \in T : OpAt(pc'[u], loc'[u]) /\ Knows(d, pc'[u], loc'[u]),
         \A u \in Threads \ T : Knows(d, pc[u], loc[u])
  PROVE  NamesAgree'
  <1>1. work \in Workloads /\ dir \in DirType  BY HeldNow
  <1>2. /\ dir' \in DirType
        /\ \A i \in Slots : dir'.slot[i] # Null => dir'.slot[i].vw \in Views /\ dir'.vw[dir'.slot[i].vw].cnt # 0
        /\ \A u \in Threads : pc'[u] \in Within \cup After => loc'[u].vw \in Views /\ dir'.vw[loc'[u].vw].cnt # 0
    BY HeldThen
  <1>3. \A p \in Knowing : p \in Within \cup After  BY DEF Knowing, Within, After
  <1>4. DirTrue(dir, Inserting, Describing, Unexporting)'
    <2>. DEFINE J == Inserting'  F == Describing'  W == Unexporting'  e == dir'
    <2>1. ASSUME NEW v \in W, v \in Views PROVE e.vw[v].cnt # 0
      <3>1. PICK u \in Threads : pc'[u] = "rmexp" /\ v = loc'[u].vw  BY <2>1 DEF Unexporting
      <3>. QED  BY <1>2, <3>1 DEF Within
    <2>2. /\ e \in DirType /\ Alike(d, e) /\ DirTrue(d, J, F, W)
          /\ \A i \in Slots : e.slot[i] # Null => e.vw[e.slot[i].vw].cnt # 0
          /\ \A v \in W : v \in Views => e.vw[v].cnt # 0
      BY <1>2, <2>1
    <2>. HIDE DEF J, F, W, e
    <2>3. DirTrue(e, J, F, W)  BY <1>1, <2>2, DirAlike
    <2>4. Slots' = Slots  BY DEF Slots
    <2>. QED  BY <2>3, <2>4 DEF DirTrue, SlotTrue, IdTrue, HmTrue, ExTrue, Placed, At, J, F, W, e
  <1>5. ASSUME NEW u \in Threads PROVE OpAt(pc'[u], loc'[u]) /\ Knows(dir', pc'[u], loc'[u])
    <2>1. OpAt(pc'[u], loc'[u]) /\ Knows(d, pc'[u], loc'[u])
      <3>1. CASE u \in T  BY <3>1
      <3>2. CASE u \notin T
        <4>1. OpAt(pc[u], loc[u])  BY DEF NamesAgree
        <4>2. OpAt(pc'[u], loc'[u])  BY <3>2, <4>1 DEF OpAt, Steady
        <4>3. Knows(d, pc[u], loc[u])  BY <3>2
        <4>4. /\ pc'[u] = pc[u] /\ loc'[u].vw = loc[u].vw /\ loc'[u].num = loc[u].num /\ loc'[u].fh = loc[u].fh
              /\ loc'[u].dead \subseteq loc[u].dead
          BY <3>2 DEF Steady
        <4>5. Knows(d, pc'[u], loc'[u])  BY <4>3, <4>4 DEF Knows
        <4>. QED  BY <4>2, <4>5
      <3>. QED  BY <3>1, <3>2
    <2>2. pc'[u] \in Knowing => loc'[u].vw \in Views /\ dir'.vw[loc'[u].vw].cnt # 0  BY <1>2, <1>3
    <2>. QED  BY <1>2, <2>1, <2>2, KnowsAlike
  <1>6. (\A u \in Threads : Knows(dir, pc[u], loc[u]))'  BY <1>5, KnowsThen
  <1>7. (\A u \in Threads : OpAt(pc[u], loc[u]))'  BY <1>5 DEF OpAt
  <1>. QED  BY <1>4, <1>6, <1>7 DEF NamesAgree

\* No thread moves.
LEMMA Stood ==
  ASSUME ViewsInv, ViewsInv', NamesAgree, work' = work, fhs' = fhs, UNCHANGED <<pc, loc>>, NEW d \in DirType, Alike(d, dir'),
         DirTrue(d, Inserting, Describing, Unexporting), \A u \in Threads : Knows(d, pc[u], loc[u])
  PROVE  NamesAgree'
  <1>. DEFINE T == {}
  <1>1. T \in SUBSET Threads /\ Steady(T)  BY DEF Steady
  <1>2. OneAdmin'  BY DEF NamesAgree, OneAdmin
  <1>3. Inserting' = Inserting /\ Describing' = Describing /\ Unexporting' = Unexporting
    BY DEF Inserting, Describing, Unexporting
  <1>4. DirTrue(d, Inserting', Describing', Unexporting')  BY <1>3
  <1>5. \A h \in fhs' : h.ex # 0  BY DEF NamesAgree
  <1>6. (\A u \in T : OpAt(pc'[u], loc'[u]) /\ Knows(d, pc'[u], loc'[u])) /\ (\A u \in Threads \ T : Knows(d, pc[u], loc[u]))
    OBVIOUS
  <1>. HIDE DEF T
  <1>. QED  BY <1>1, <1>2, <1>4, <1>5, <1>6, Changed

\* Only counts and mnodes change, and no thread moves.
LEMMA StoodAlike ==
  ASSUME ViewsInv, ViewsInv', NamesAgree, work' = work, fhs' = fhs, UNCHANGED <<pc, loc>>, Alike(dir, dir')
  PROVE  NamesAgree'
  <1>1. dir \in DirType  BY HeldNow
  <1>. QED  BY <1>1, Stood DEF NamesAgree

\* Thread t goes to p with l.
LEMMA Stepped ==
  ASSUME ViewsInv, NEW t \in Threads, NEW p, NEW l, Goto(t, p, l)
  PROVE  Steady({t}) /\ pc'[t] = p /\ loc'[t] = IF p = "idle" THEN NoLoc ELSE l
  <1>1. pc' = [pc EXCEPT ![t] = p] /\ loc' = [loc EXCEPT ![t] = IF p = "idle" THEN NoLoc ELSE l]  BY DEF Goto
  <1>2. DOMAIN pc = Threads /\ DOMAIN loc = Threads  BY DEF ViewsInv, Functions
  <1>. QED  BY <1>1, <1>2 DEF Steady

LEMMA Idle ==
  ASSUME work \in Workloads, NEW d
  PROVE  OpAt("idle", NoLoc) /\ Knows(d, "idle", NoLoc) /\ NoLoc.op \notin Admin
  <1>1. NoLoc.op = Null  BY DEF NoLoc
  <1>2. Null \notin Admin  BY Consts
  <1>. QED  BY <1>1, <1>2 DEF OpAt, Knows, Admin

\* Thread t goes on with its operation at p with l, or ends it, and the directory goes to d first.
LEMMA Proceeded ==
  ASSUME ViewsInv, ViewsInv', NamesAgree, work' = work, fhs' = fhs, NEW t \in Threads, NEW p, NEW l, Goto(t, p, l),
         NEW d \in DirType, Alike(d, dir'), DirTrue(d, Inserting', Describing', Unexporting'),
         p # "idle" => l.op = loc[t].op /\ OpAt(p, l) /\ Knows(d, p, l),
         \A u \in Threads \ {t} : Knows(d, pc[u], loc[u])
  PROVE  NamesAgree'
  <1>1. work \in Workloads  BY HeldNow
  <1>2. Steady({t}) /\ pc'[t] = p /\ loc'[t] = IF p = "idle" THEN NoLoc ELSE l  BY Stepped
  <1>3. OpAt(pc'[t], loc'[t]) /\ Knows(d, pc'[t], loc'[t]) /\ (loc'[t].op \in Admin => loc[t].op \in Admin)
    BY <1>1, <1>2, Idle
  <1>4. OneAdmin'  BY <1>2, <1>3 DEF NamesAgree, OneAdmin, Steady
  <1>5. \A h \in fhs' : h.ex # 0  BY DEF NamesAgree
  <1>. QED  BY <1>2, <1>3, <1>4, <1>5, Changed

\* Thread t goes on, and counts and mnodes change only.
LEMMA Passed ==
  ASSUME ViewsInv, ViewsInv', NamesAgree, work' = work, fhs' = fhs, NEW t \in Threads, NEW p, NEW l, Goto(t, p, l),
         pc[t] \notin {"mkid", "hmid", "mkfill", "rmexp"}, Alike(dir, dir'),
         p # "idle" => l.op = loc[t].op /\ OpAt(p, l) /\ Knows(dir, p, l)
  PROVE  NamesAgree'
  <1>1. dir \in DirType  BY HeldNow
  <1>2. Steady({t})  BY Stepped
  <1>3. Inserting \subseteq Inserting' /\ Describing \subseteq Describing' /\ Unexporting \subseteq Unexporting'
    BY <1>2, SetsKeep
  <1>4. DirTrue(dir, Inserting, Describing, Unexporting)  BY DEF NamesAgree
  <1>. DEFINE I == Inserting  D == Describing  U == Unexporting  J == Inserting'  F == Describing'  W == Unexporting'
  <1>5. I \subseteq J /\ D \subseteq F /\ U \subseteq W /\ DirTrue(dir, I, D, U)  BY <1>3, <1>4
  <1>. HIDE DEF I, D, U, J, F, W
  <1>6. DirTrue(dir, J, F, W)  BY <1>5, DirMore
  <1>7. DirTrue(dir, Inserting', Describing', Unexporting')  BY <1>6 DEF J, F, W
  <1>8. \A u \in Threads \ {t} : Knows(dir, pc[u], loc[u])  BY DEF NamesAgree
  <1>. QED  BY <1>1, <1>7, <1>8, Proceeded

-----------------------------------------------------------------------------
(* The actions that change counts and mnodes only.                          *)

LEMMA Returned ==
  ASSUME ViewsInv, ViewsInv', NamesAgree, work' = work, fhs' = fhs, NEW t \in Threads, Return(t),
         pc[t] \notin {"mkid", "hmid", "mkfill", "rmexp"}, Alike(dir, dir')
  PROVE  NamesAgree'
  <1>. DEFINE p == "idle"
  <1>1. Goto(t, p, NoLoc) /\ p = "idle"  BY DEF Return
  <1>. HIDE DEF p
  <1>. QED  BY <1>1, Passed

LEMMA Begins ==
  ASSUME ViewsInv, ViewsInv', NamesAgree, work.serial, NEW t \in Threads, NEW op, NEW p, NEW l \in LocType, Begin(t, op, p, l),
         p \in {"mk", "rm", "rmall", "tag", "vget", "bind"}, p = "mk" => op = "mk", p \in {"rm", "rmall"} => op \in {"rm", "rmall"},
         op = "export" => l.ex # 0, p = "vget" => l.fh.ex # 0
  PROVE  NamesAgree'
  <1>. DEFINE k == [l EXCEPT !.op = op, !.dead = DeadNow]
  <1>1. /\ work' = work /\ fhs' = fhs /\ dir' = dir /\ Goto(t, p, k) /\ pc[t] = "idle"
        /\ op \in Admin => \A u \in Threads : loc[u].op \notin Admin
    BY DEF Begin, DeadNow
  <1>2. k.op = op /\ k.ex = l.ex /\ k.fh = l.fh  BY DEF LocType
  <1>. HIDE DEF k
  <1>3. Steady({t}) /\ pc'[t] = p /\ loc'[t] = k  BY <1>1, Stepped
  <1>4. OpAt(p, k) /\ Knows(dir, p, k)  BY <1>2 DEF OpAt, Knows
  <1>5. OneAdmin'  BY <1>1, <1>2, <1>3 DEF NamesAgree, OneAdmin, Steady
  <1>6. \A h \in fhs' : h.ex # 0  BY <1>1 DEF NamesAgree
  <1>7. dir \in DirType /\ Alike(dir, dir')  BY <1>1, HeldNow, AlikeSelf
  <1>8. Inserting \subseteq Inserting' /\ Describing \subseteq Describing' /\ Unexporting \subseteq Unexporting'
    BY <1>1, <1>3, SetsKeep
  <1>9. DirTrue(dir, Inserting', Describing', Unexporting')
    <2>. DEFINE I == Inserting  D == Describing  U == Unexporting  J == Inserting'  F == Describing'  W == Unexporting'
    <2>1. I \subseteq J /\ D \subseteq F /\ U \subseteq W /\ DirTrue(dir, I, D, U)  BY <1>8 DEF NamesAgree
    <2>. HIDE DEF I, D, U, J, F, W
    <2>2. DirTrue(dir, J, F, W)  BY <2>1, DirMore
    <2>. QED  BY <2>2 DEF J, F, W
  <1>10. \A u \in Threads \ {t} : Knows(dir, pc[u], loc[u])  BY DEF NamesAgree
  <1>. QED  BY <1>1, <1>3, <1>4, <1>5, <1>6, <1>7, <1>9, <1>10, Changed

LEMMA NoLocIn == NoLoc \in LocType
  BY DEF NoLoc, LocType

LEMMA StartsAgree ==
  ASSUME ViewsInv, ViewsInv', NamesAgree, work.serial, NEW t \in Threads,
         \/ MkStart(t) \/ RmStart(t) \/ RmAllStart(t) \/ ExportStart(t) \/ VgetStart(t)
         \/ HmStart(t) \/ LookupStart(t) \/ SetviewStart(t) \/ BindStart(t)
  PROVE  NamesAgree'
  <1>1. CASE MkStart(t)
    <2>1. PICK g \in Tags, u \in Uuids : Begin(t, "mk", "mk", [NoLoc EXCEPT !.tag = g, !.uuid = u])  BY <1>1 DEF MkStart
    <2>. DEFINE l == [NoLoc EXCEPT !.tag = g, !.uuid = u]  p == "mk"
    <2>2. l \in LocType  BY NoLocIn DEF LocType
    <2>3. Begin(t, p, p, l) /\ p = "mk"  BY <2>1
    <2>. HIDE DEF l, p
    <2>. QED  BY <2>2, <2>3, Begins
  <1>2. CASE RmStart(t)
    <2>1. PICK g \in Tags : Begin(t, "rm", "rm", [NoLoc EXCEPT !.tag = g])  BY <1>2 DEF RmStart
    <2>. DEFINE l == [NoLoc EXCEPT !.tag = g]  p == "rm"
    <2>2. l \in LocType  BY NoLocIn DEF LocType
    <2>3. Begin(t, p, p, l) /\ p = "rm"  BY <2>1
    <2>. HIDE DEF l, p
    <2>. QED  BY <2>2, <2>3, Begins
  <1>3. CASE RmAllStart(t)
    <2>. DEFINE p == "rmall"
    <2>1. Begin(t, p, p, NoLoc) /\ p = "rmall"  BY <1>3 DEF RmAllStart
    <2>. HIDE DEF p
    <2>. QED  BY <2>1, NoLocIn, Begins
  <1>4. CASE ExportStart(t)
    <2>1. PICK op \in {"export", "unexport"}, g \in Tags, e \in 1..MaxExport :
                Begin(t, op, "tag", [NoLoc EXCEPT !.tag = g, !.ex = e])  BY <1>4 DEF ExportStart
    <2>. DEFINE l == [NoLoc EXCEPT !.tag = g, !.ex = e]  p == "tag"
    <2>2. l \in LocType /\ l.ex # 0
      <3>1. MaxExport \in Nat  BY ViewsAssumption DEF ViewsAssumption
      <3>2. e \in Nat /\ e # 0  BY <3>1
      <3>. QED  BY <3>2, NoLocIn DEF LocType
    <2>3. Begin(t, op, p, l) /\ p = "tag"  BY <2>1
    <2>. HIDE DEF l, p
    <2>. QED  BY <2>2, <2>3, Begins
  <1>5. CASE VgetStart(t)
    <2>1. PICK h \in fhs : Begin(t, "vget", "vget", [NoLoc EXCEPT !.fh = h])  BY <1>5 DEF VgetStart
    <2>. DEFINE l == [NoLoc EXCEPT !.fh = h]  p == "vget"
    <2>2. l \in LocType /\ l.fh = h
      <3>1. h \in Handles  BY DEF ViewsInv
      <3>. QED  BY <3>1, NoLocIn DEF LocType
    <2>3. Begin(t, p, p, l) /\ p = "vget"  BY <2>1
    <2>4. h.ex # 0  BY DEF NamesAgree
    <2>. HIDE DEF l, p
    <2>. QED  BY <2>2, <2>3, <2>4, Begins
  <1>6. CASE HmStart(t) \/ LookupStart(t) \/ SetviewStart(t)
    <2>1. PICK op \in {"hm", "view", "set"}, g \in Tags : Begin(t, op, "tag", [NoLoc EXCEPT !.tag = g])
      BY <1>6 DEF HmStart, LookupStart, SetviewStart
    <2>. DEFINE l == [NoLoc EXCEPT !.tag = g]  p == "tag"
    <2>2. l \in LocType  BY NoLocIn DEF LocType
    <2>3. Begin(t, op, p, l) /\ p = "tag"  BY <2>1
    <2>. HIDE DEF l, p
    <2>. QED  BY <2>2, <2>3, Begins
  <1>7. CASE BindStart(t)
    <2>1. PICK m \in Vobs : Begin(t, "bind", "bind", [NoLoc EXCEPT !.vob = m])  BY <1>7 DEF BindStart
    <2>. DEFINE l == [NoLoc EXCEPT !.vob = m]  p == "bind"
    <2>2. l \in LocType  BY NoLocIn DEF LocType
    <2>3. Begin(t, p, p, l) /\ p = "bind"  BY <2>1
    <2>. HIDE DEF l, p
    <2>. QED  BY <2>2, <2>3, Begins
  <1>. QED  BY <1>1, <1>2, <1>3, <1>4, <1>5, <1>6, <1>7

\* What t knows of its view, by where it is
LEMMA Known ==
  ASSUME ViewsInv, NamesAgree, NEW t \in Threads
  PROVE  /\ work \in Workloads /\ dir \in DirType /\ DirTrue(dir, Inserting, Describing, Unexporting)
         /\ OpAt(pc[t], loc[t]) /\ Knows(dir, pc[t], loc[t]) /\ loc[t] \in LocType
         /\ ThreadAt(pc[t], loc[t], proc[t]) /\ proc[t] \in ProcType
  BY HeldNow, ProcSame DEF NamesAgree, ViewsInv

\* What is nothing to know
LEMMA Unknown ==
  ASSUME NEW p, NEW d, NEW l, p \notin Knowing PROVE Knows(d, p, l)
  BY DEF Knows, Knowing

LEMMA RmDoneMoves ==
  ASSUME NEW t, loc[t] \in LocType, RmDone(t)
  PROVE  \E p, l : Goto(t, p, l) /\ (p # "idle" => l.op = loc[t].op /\ OpAt(p, l) /\ p \notin Knowing)
  <1>1. CASE loc[t].op = "rmall"
    <2>. DEFINE l == [loc[t] EXCEPT !.tag = Null, !.vw = Null, !.hm = FALSE]  p == "rmall"
    <2>1. Goto(t, p, l) /\ p = "rmall"  BY <1>1 DEF RmDone
    <2>2. l.op = loc[t].op  BY DEF LocType
    <2>. HIDE DEF l, p
    <2>3. OpAt(p, l) /\ p \notin Knowing  BY <1>1, <2>1, <2>2 DEF OpAt, Knowing
    <2>. QED  BY <2>1, <2>2, <2>3
  <1>2. CASE loc[t].op # "rmall"
    <2>. DEFINE p == "idle"
    <2>1. Goto(t, p, NoLoc) /\ p = "idle"  BY <1>2 DEF RmDone, Return
    <2>. HIDE DEF p
    <2>. QED  BY <2>1
  <1>. QED  BY <1>1, <1>2

LEMMA MkFoundAgrees ==
  ASSUME ViewsInv, ViewsInv', NamesAgree, NEW t \in Threads, MkFound(t) PROVE NamesAgree'
  <1>1. pc[t] = "mk" /\ work' = work /\ fhs' = fhs /\ dir' = dir /\ Return(t)  BY DEF MkFound, Mk, Step, Same
  <1>. QED  BY <1>1, AlikeSelf, Returned

LEMMA RmFlushAgrees ==
  ASSUME ViewsInv, ViewsInv', NamesAgree, NEW t \in Threads, RmFlush(t) PROVE NamesAgree'
  <1>. DEFINE p == "rmid"
  <1>1. pc[t] = "rmflush" /\ work' = work /\ fhs' = fhs /\ dir' = FlushVw(dir, loc[t].vw) /\ Goto(t, p, loc[t])
        /\ p = "rmid"
    BY DEF RmFlush, Step, Same
  <1>. HIDE DEF p
  <1>2. loc[t].vw \in Views  BY <1>1, HeldNow DEF Within
  <1>3. dir \in DirType /\ OpAt(pc[t], loc[t]) /\ Knows(dir, pc[t], loc[t])  BY Known
  <1>4. Alike(dir, dir')  BY <1>1, <1>2, <1>3, FlushVwAlike
  <1>5. OpAt(p, loc[t]) /\ Knows(dir, p, loc[t])  BY <1>1, <1>3 DEF OpAt, Knows
  <1>. QED  BY <1>1, <1>4, <1>5, Passed

LEMMA RmAllNextAgrees ==
  ASSUME ViewsInv, ViewsInv', NamesAgree, NEW t \in Threads, RmAllNext(t) PROVE NamesAgree'
  <1>. DEFINE E == Readdir(dir, loc[t].off)  nm == dir.slot[Least(E)].nm
              l == [loc[t] EXCEPT !.tag = nm.tag, !.hm = nm.hm, !.off = @ + 1]  p == "rm"
  <1>1. /\ pc[t] = "rmall" /\ work' = work /\ fhs' = fhs /\ dir' = dir /\ p = "rm"
        /\ (E = {} /\ Return(t)) \/ (E # {} /\ Goto(t, p, l))
    BY DEF RmAllNext, Step, Same
  <1>2. OpAt(pc[t], loc[t]) /\ loc[t] \in LocType  BY Known
  <1>3. l.op = loc[t].op  BY <1>2 DEF LocType
  <1>. HIDE DEF l, p, E
  <1>4. OpAt(p, l) /\ Knows(dir, p, l)  BY <1>1, <1>2, <1>3 DEF OpAt, Knows
  <1>5. Alike(dir, dir')  BY <1>1, AlikeSelf
  <1>6. CASE Return(t)  BY <1>1, <1>5, <1>6, Returned
  <1>7. CASE Goto(t, p, l)  BY <1>1, <1>3, <1>4, <1>5, <1>7, Passed
  <1>. QED  BY <1>1, <1>6, <1>7

\* The view of a tag, while the commands wait, is where its id says.
LEMMA TagPlaced ==
  ASSUME ViewsInv, NamesAgree, NEW t \in Threads, loc[t].op \in Admin, pc[t] \notin {"mkid", "hmid"},
         NEW i \in Slots, dir.slot[i] # Null, ~dir.slot[i].nm.hm
  PROVE  Placed(dir, dir.slot[i].vw) /\ ~dir.vw[dir.slot[i].vw].tag.hm
  <1>. DEFINE v == dir.slot[i].vw
  <1>1. DirTrue(dir, Inserting, Describing, Unexporting)  BY Known
  <1>2. dir.vw[v].tag = dir.slot[i].nm /\ (dir.vw[v].id = i \/ <<v, i>> \in Inserting)
    BY <1>1 DEF DirTrue, SlotTrue, IdTrue
  <1>3. dir.vw[v].id = i
    <2>. SUFFICES ASSUME <<v, i>> \in Inserting PROVE FALSE
      BY <1>2
    <2>1. PICK u \in Threads : pc[u] \in {"mkid", "hmid"} /\ loc[u].vw = v  BY DEF Inserting
    <2>2. u # t /\ pc[u] = "hmid"  BY <2>1, NoOther DEF Knowing
    <2>3. dir.vw[v].tag.hm  BY <2>1, <2>2, Known DEF Knows
    <2>. QED  BY <1>2, <2>3
  <1>. QED  BY <1>2, <1>3 DEF Placed, At

LEMMA TagLookupAgrees ==
  ASSUME ViewsInv, ViewsInv', NamesAgree, NEW t \in Threads, TagLookup(t) PROVE NamesAgree'
  <1>. DEFINE S == SlotOf(dir, Name(loc[t].tag, FALSE))  i == Least(S)  v == VwAt(dir, i)  l == [loc[t] EXCEPT !.vw = v]
              p == loc[t].op
  <1>1. /\ pc[t] = "tag" /\ work' = work /\ fhs' = fhs
        /\ \/ S = {} /\ Return(t) /\ dir' = dir
           \/ S # {} /\ dir' = Hold(dir, v) /\ Goto(t, p, l)
    BY DEF TagLookup, Step, Same
  <1>2. /\ work \in Workloads /\ dir \in DirType /\ OpAt(pc[t], loc[t]) /\ loc[t] \in LocType
        /\ ThreadAt(pc[t], loc[t], proc[t])
    BY Known
  <1>3. CASE S = {} /\ Return(t) /\ dir' = dir  BY <1>1, <1>3, AlikeSelf, Returned
  <1>4. CASE S # {} /\ dir' = Hold(dir, v) /\ Goto(t, p, l)
    <2>1. i \in S
      <3>1. S \in SUBSET Nat  BY <1>2, Consts DEF SlotOf, Present
      <3>. HIDE DEF S
      <3>. QED  BY <1>4, <3>1, LeastIn
    <2>. HIDE DEF i
    <2>2. i \in Slots /\ dir.slot[i] # Null /\ ~dir.slot[i].nm.hm /\ v = dir.slot[i].vw
      BY <2>1 DEF SlotOf, Present, Name, VwAt
    <2>3. v \in Views /\ dir.vw[v].cnt # 0  BY <2>2, HeldNow
    <2>4. l.op = loc[t].op /\ l.vw = v /\ l.ex = loc[t].ex /\ l.fh = loc[t].fh  BY <1>2, <2>3 DEF LocType
    <2>5. p \in {"export", "unexport", "hm", "view", "set"}  BY <1>1, <1>2 DEF ThreadAt
    <2>6. p \in {"export", "unexport"} => Placed(dir, v) /\ ~dir.vw[v].tag.hm
      <3>1. p \in {"export", "unexport"} => p \in Admin  BY DEF Admin
      <3>. QED  BY <1>1, <2>2, <3>1, TagPlaced
    <2>. HIDE DEF v, l
    <2>7. OpAt(p, l) /\ Knows(dir, p, l)  BY <1>2, <2>4, <2>5, <2>6 DEF OpAt, Knows
    <2>8. Alike(dir, dir')  BY <1>2, <1>4, <2>3, AlikeSelf, HoldAlike
    <2>9. Goto(t, p, l) /\ l.op = loc[t].op /\ pc[t] \notin {"mkid", "hmid", "mkfill", "rmexp"}  BY <1>1, <1>4, <2>4
    <2>. HIDE DEF p
    <2>. QED  BY <1>1, <2>7, <2>8, <2>9, Passed
  <1>. QED  BY <1>1, <1>3, <1>4

LEMMA VgetViewAgrees ==
  ASSUME ViewsInv, ViewsInv', NamesAgree, NEW t \in Threads, VgetView(t) PROVE NamesAgree'
  <1>. DEFINE h == loc[t].fh  s == IF h.ex <= Len(dir.exp) THEN dir.exp[h.ex] ELSE Null  v == VwAt(dir, s)
              l == [loc[t] EXCEPT !.vw = v]  k == loc[t]  p == "vgetnode"  q == "oops"
  <1>1. /\ pc[t] = "vget" /\ work' = work /\ fhs' = fhs /\ p = "vgetnode" /\ q = "oops" /\ k = loc[t]
        /\ \/ Return(t) /\ dir' = dir
           \/ Goto(t, q, k) /\ dir' = dir
           \/ s # Null /\ s \in Present(dir) /\ dir' = Hold(dir, v) /\ Goto(t, p, l)
    BY DEF VgetView, Step, Same
  <1>2. /\ work \in Workloads /\ dir \in DirType /\ DirTrue(dir, Inserting, Describing, Unexporting)
        /\ OpAt(pc[t], loc[t]) /\ loc[t] \in LocType /\ ThreadAt(pc[t], loc[t], proc[t])
    BY Known
  <1>3. CASE Return(t) /\ dir' = dir  BY <1>1, <1>3, AlikeSelf, Returned
  <1>4. CASE Goto(t, q, k) /\ dir' = dir
    <2>. HIDE DEF q, k
    <2>1. OpAt(q, k) /\ Knows(dir, q, k)  BY <1>1, <1>2, Unknown DEF OpAt, Knowing
    <2>. QED  BY <1>1, <1>4, <2>1, AlikeSelf, Passed
  <1>5. CASE s # Null /\ s \in Present(dir) /\ dir' = Hold(dir, v) /\ Goto(t, p, l)
    <2>1. loc[t].op = "vget" /\ h \in Handles /\ h.ex # 0 /\ h.ex \in Nat
      BY <1>1, <1>2 DEF ThreadAt, OpAt, Handles
    <2>2. h.ex \in DOMAIN dir.exp /\ dir.exp[h.ex] # Null /\ s = dir.exp[h.ex]
      <3>1. DOMAIN dir.exp = 1..Len(dir.exp) /\ Len(dir.exp) \in Nat  BY <1>2 DEF DirType
      <3>. QED  BY <1>5, <2>1, <3>1
    <2>. HIDE DEF h, s
    <2>3. PICK w \in Views : dir.vw[w].ex = h.ex  BY <1>2, <2>2 DEF DirTrue, ExTrue
    <2>4. dir.vw[w].ex # Null
      <3>1. Null \notin Nat  BY <1>2, Consts
      <3>. QED  BY <2>1, <2>3, <3>1
    <2>5. s = dir.vw[w].id /\ dir.vw[w].id # 0 /\ ~dir.vw[w].tag.hm /\ (Placed(dir, w) \/ w \in Unexporting)
      BY <1>2, <2>2, <2>3, <2>4 DEF DirTrue, ExTrue
    <2>6. Placed(dir, w)
      <3>1. ASSUME NEW u \in Threads PROVE pc[u] # "rmexp"
        <4>1. CASE u = t  BY <1>1, <4>1
        <4>2. CASE u # t
          <5>1. loc[t].op \in Admin  BY <2>1 DEF Admin
          <5>2. pc[u] \in Knowing => pc[u] \in {"hmid", "hmfill"}  BY <4>2, <5>1, NoOther
          <5>. QED  BY <5>2 DEF Knowing
        <4>. QED  BY <4>1, <4>2
      <3>. QED  BY <2>5, <3>1 DEF Unexporting
    <2>7. v = w /\ v \in Views /\ dir.vw[v].cnt # 0
      <3>1. s \in Slots /\ dir.slot[s] # Null /\ dir.slot[s].vw = w  BY <2>5, <2>6 DEF Placed, At
      <3>2. v = w  BY <3>1 DEF VwAt
      <3>. QED  BY <3>1, <3>2, HeldNow
    <2>. HIDE DEF v
    <2>8. v \notin loc[t].dead  BY <2>5, <2>7 DEF ViewsInv, DeadGone
    <2>9. l.op = loc[t].op /\ l.vw = v /\ l.ex = loc[t].ex /\ l.fh = loc[t].fh /\ l.dead = loc[t].dead
      BY <1>2, <2>7 DEF LocType
    <2>. HIDE DEF l, p
    <2>10. OpAt(p, l) /\ Knows(dir, p, l)  BY <1>1, <2>1, <2>5, <2>7, <2>8, <2>9 DEF OpAt, Knows
    <2>11. Alike(dir, dir')  BY <1>2, <1>5, <2>7, AlikeSelf, HoldAlike
    <2>. QED  BY <1>1, <1>5, <2>9, <2>10, <2>11, Passed
  <1>. QED  BY <1>1, <1>3, <1>4, <1>5

LEMMA VgetNodeAgrees ==
  ASSUME ViewsInv, ViewsInv', NamesAgree, NEW t \in Threads, VgetNode(t) PROVE NamesAgree'
  <1>. DEFINE v == loc[t].vw  m == loc[t].fh.vob  d == Activate(dir, v, m)  p == "got"  k == loc[t]
  <1>1. /\ pc[t] = "vgetnode" /\ work' = work /\ fhs' = fhs /\ p = "got" /\ k = loc[t]
        /\ \/ Return(t) /\ dir' = Rele(dir, v)
           \/ dir.vw[v].uuid = k.fh.uuid /\ dir' = Rele(d, v) /\ Goto(t, p, k)
    BY DEF VgetNode, Step, Same, SameGeneration
  <1>2. /\ work \in Workloads /\ dir \in DirType /\ OpAt(pc[t], loc[t]) /\ Knows(dir, pc[t], loc[t])
        /\ ThreadAt(pc[t], loc[t], proc[t])
    BY Known
  <1>3. v \in Views /\ dir.vw[v].cnt # 0 /\ dir' \in DirType /\ v = k.vw  BY <1>1, HeldNow, HeldThen DEF Within
  <1>4. m \in Vobs  BY <1>1, <1>2 DEF ThreadAt, Handles
  <1>5. Alike(dir, d) /\ d \in DirType  BY <1>2, <1>3, <1>4, AlikeSelf, ActivateAlike, ActivateIn
  <1>. HIDE DEF v, m, d, p, k
  <1>6. CASE Return(t) /\ dir' = Rele(dir, v)
    <2>1. Alike(dir, dir')  BY <1>2, <1>3, <1>6, AlikeSelf, ReleAlike
    <2>. QED  BY <1>1, <1>6, <2>1, Returned
  <1>7. CASE dir.vw[v].uuid = k.fh.uuid /\ dir' = Rele(d, v) /\ Goto(t, p, k)
    <2>1. Alike(dir, dir')  BY <1>3, <1>5, <1>7, ReleAlike
    <2>2. OpAt(p, k) /\ Knows(dir, p, k)  BY <1>1, <1>2, <1>3, <1>7 DEF OpAt, Knows
    <2>. QED  BY <1>1, <1>7, <2>1, <2>2, Passed
  <1>. QED  BY <1>1, <1>6, <1>7

LEMMA ArrivedAgrees ==
  ASSUME ViewsInv, ViewsInv', NamesAgree, NEW t \in Threads, Got(t) \/ Bound(t) PROVE NamesAgree'
  <1>1. pc[t] \in {"got", "bound"} /\ work' = work /\ fhs' = fhs /\ dir' = dir /\ Return(t)
    BY DEF Got, Bound, Step, Same
  <1>. QED  BY <1>1, AlikeSelf, Returned

LEMMA HmFindAgrees ==
  ASSUME ViewsInv, ViewsInv', NamesAgree, NEW t \in Threads, HmFind(t) PROVE NamesAgree'
  <1>. DEFINE v == loc[t].vw  i == dir.vw[v].id  g == dir.slot[i].nm.tag  nm == Name(g, TRUE)  S == SlotOf(dir, nm)
              u == VwAt(dir, Least(S))  l == [loc[t] EXCEPT !.base = v, !.vw = u]
              k == [loc[t] EXCEPT !.tag = g, !.base = v, !.vw = Null]  p == "hmfill"  q == "hmnew"
  <1>1. /\ pc[t] = "hm" /\ work' = work /\ fhs' = fhs /\ p = "hmfill" /\ q = "hmnew"
        /\ \/ dir' = Rele(dir, v) /\ Return(t)
           \/ S # {} /\ dir' = Hold(dir, u) /\ Goto(t, p, l)
           \/ dir' = dir /\ Goto(t, q, k)
    BY DEF HmFind, Step, Same, Name
  <1>2. /\ work \in Workloads /\ dir \in DirType /\ DirTrue(dir, Inserting, Describing, Unexporting)
        /\ OpAt(pc[t], loc[t]) /\ loc[t] \in LocType
    BY Known
  <1>3. v \in Views /\ dir' \in DirType  BY <1>1, HeldNow, HeldThen DEF Within
  <1>4. nm.hm  BY DEF Name
  <1>5. CASE dir' = Rele(dir, v) /\ Return(t)
    <2>. HIDE DEF v
    <2>1. Alike(dir, dir')  BY <1>2, <1>3, <1>5, AlikeSelf, ReleAlike
    <2>. QED  BY <1>1, <1>5, <2>1, Returned
  <1>6. CASE S # {} /\ dir' = Hold(dir, u) /\ Goto(t, p, l)
    <2>. HIDE DEF nm
    <2>1. Least(S) \in S  BY <1>2, <1>6, SlotIn
    <2>2. Least(S) \in Slots /\ dir.slot[Least(S)] # Null /\ dir.slot[Least(S)].nm = nm /\ u = dir.slot[Least(S)].vw
      BY <2>1 DEF SlotOf, Present, VwAt
    <2>3. u \in Views /\ dir.vw[u].cnt # 0 /\ dir.vw[u].tag.hm
      BY <1>2, <1>4, <2>2, HeldNow DEF DirTrue, SlotTrue
    <2>4. l.op = loc[t].op /\ l.vw = u /\ l.ex = loc[t].ex  BY <1>2 DEF LocType
    <2>. HIDE DEF u, l, p
    <2>5. OpAt(p, l) /\ Knows(dir, p, l)  BY <1>1, <1>2, <2>3, <2>4 DEF OpAt, Knows
    <2>6. Alike(dir, dir')  BY <1>2, <1>6, <2>3, AlikeSelf, HoldAlike
    <2>. QED  BY <1>1, <1>6, <2>4, <2>5, <2>6, Passed
  <1>7. CASE dir' = dir /\ Goto(t, q, k)
    <2>1. k.op = loc[t].op /\ k.ex = loc[t].ex  BY <1>2 DEF LocType
    <2>. HIDE DEF k, q
    <2>2. OpAt(q, k) /\ Knows(dir, q, k)  BY <1>1, <1>2, <2>1, Unknown DEF OpAt, Knowing
    <2>. QED  BY <1>1, <1>7, <2>1, <2>2, AlikeSelf, Passed
  <1>. QED  BY <1>1, <1>5, <1>6, <1>7

\* The views of processes.
LEMMA LookupDoneAgrees ==
  ASSUME ViewsInv, ViewsInv', NamesAgree, NEW t \in Threads, LookupDone(t) PROVE NamesAgree'
  <1>1. pc[t] = "view" /\ work' = work /\ fhs' = fhs /\ dir' = dir /\ Return(t)
    BY DEF LookupDone, Step, Same, Return
  <1>. QED  BY <1>1, AlikeSelf, Returned

LEMMA SetProcViewAgrees ==
  ASSUME ViewsInv, ViewsInv', NamesAgree, NEW t \in Threads, SetProcView(t) PROVE NamesAgree'
  <1>. DEFINE v == proc[t].view
  <1>1. pc[t] = "set" /\ work' = work /\ fhs' = fhs /\ dir' = ReleIf(dir, v) /\ Return(t)
    BY DEF SetProcView, Step, Same
  <1>2. v \in Views \cup {Null} /\ dir \in DirType /\ dir' \in DirType  BY <1>1, Known, HeldThen DEF ProcType
  <1>. HIDE DEF v
  <1>3. Alike(dir, dir')  BY <1>1, <1>2, AlikeSelf, ReleIfAlike
  <1>. QED  BY <1>1, <1>3, Returned

LEMMA HereAgrees ==
  ASSUME ViewsInv, ViewsInv', NamesAgree, NEW t \in Threads, SetHere(t) \/ ClrView(t) \/ CurView(t) \/ Up(t)
  PROVE  NamesAgree'
  <1>. DEFINE v == proc[t].view  c == proc[t].cwd.vw
  <1>1. work' = work /\ fhs' = fhs /\ UNCHANGED <<pc, loc>>
    BY DEF SetHere, ClrView, CurView, Up, Here, Same
  <1>2. work \in Workloads /\ dir \in DirType /\ dir' \in DirType /\ proc[t] \in ProcType /\ Alike(dir, dir)
    BY <1>1, Known, HeldThen, AlikeSelf
  <1>3. /\ v \in Views \cup {Null} /\ c \in Views \cup {Null} /\ proc[t].cwd \in CwdType
        /\ v # Null => Spare(dir, v) >= 1
        /\ proc[t].cwd.vob = Null /\ c # Null => Spare(dir, c) >= 1
    BY <1>2, Held DEF ProcType, CwdType
  <1>4. ASSUME NEW x \in Views, Spare(dir, x) >= 1 PROVE dir.vw[x].cnt # 0
    <2>1. /\ dir.vw[x].cnt = Spare(dir, x) + Cardinality(InSlots(dir, x)) + Cardinality(Mnodes(dir.vw[x]))
          /\ Cardinality(InSlots(dir, x)) \in Nat /\ Cardinality(Mnodes(dir.vw[x])) \in Nat /\ Spare(dir, x) \in Int
      BY <1>2, Parts
    <2>. QED  BY <1>4, <2>1
  <1>5. Alike(dir, dir')
    <2>1. CASE SetHere(t)
      <3>. DEFINE e == Hold(dir, c)
      <3>1. c # Null /\ proc[t].cwd.vob = Null /\ dir' = ReleIf(e, v)  BY <2>1 DEF SetHere
      <3>2. c \in Views /\ dir.vw[c].cnt # 0  BY <1>3, <1>4, <3>1
      <3>. HIDE DEF c, v
      <3>3. e \in DirType /\ Alike(dir, e)  BY <1>2, <3>2, HoldIn, HoldAlike
      <3>. HIDE DEF e
      <3>. QED  BY <1>2, <1>3, <3>1, <3>3, ReleIfAlike
    <2>2. CASE ClrView(t)
      <3>1. v # Null /\ dir' = Rele(dir, v)  BY <2>2 DEF ClrView
      <3>2. v \in Views  BY <1>3, <3>1
      <3>. HIDE DEF v
      <3>. QED  BY <1>2, <3>1, <3>2, ReleAlike
    <2>3. CASE CurView(t)
      <3>1. v # Null /\ dir' = Hold(dir, v)  BY <2>3 DEF CurView
      <3>2. v \in Views /\ dir.vw[v].cnt # 0  BY <1>3, <1>4, <3>1
      <3>. HIDE DEF v
      <3>. QED  BY <1>2, <3>1, <3>2, HoldAlike
    <2>4. CASE Up(t)
      <3>1. dir' = Leave(dir, t)  BY <2>4 DEF Up
      <3>. QED  BY <1>2, <1>3, <3>1, LeaveAlike
    <2>. QED  BY <2>1, <2>2, <2>3, <2>4
  <1>. QED  BY <1>1, <1>5, StoodAlike

\* Binding a VOB root.
LEMMA BindGetAgrees ==
  ASSUME ViewsInv, ViewsInv', NamesAgree, NEW t \in Threads, BindGet(t) PROVE NamesAgree'
  <1>. DEFINE v == GetView(t)  l == [loc[t] EXCEPT !.vw = v]  p == "rvc"  c == proc[t].cwd.vw
  <1>1. /\ pc[t] = "bind" /\ work' = work /\ fhs' = fhs /\ p = "rvc"
        /\ (Return(t) /\ dir' = dir) \/ (v # Null /\ dir' = Hold(dir, v) /\ Goto(t, p, l))
    BY DEF BindGet, Step, Same
  <1>2. /\ work \in Workloads /\ dir \in DirType /\ OpAt(pc[t], loc[t]) /\ loc[t] \in LocType
        /\ ThreadAt(pc[t], loc[t], proc[t]) /\ proc[t] \in ProcType
    BY Known
  <1>3. CASE Return(t) /\ dir' = dir  BY <1>1, <1>3, AlikeSelf, Returned
  <1>4. CASE v # Null /\ dir' = Hold(dir, v) /\ Goto(t, p, l)
    <2>1. v \in {c, proc[t].view}  BY <1>4 DEF GetView
    <2>2. proc[t].cwd.vob = Null  BY <1>1, <1>2 DEF ThreadAt
    <2>3. v \in Views /\ Spare(dir, v) >= 1  BY <1>4, <2>1, <2>2, Held
    <2>. HIDE DEF v
    <2>4. dir.vw[v].cnt # 0
      <3>1. /\ dir.vw[v].cnt = Spare(dir, v) + Cardinality(InSlots(dir, v)) + Cardinality(Mnodes(dir.vw[v]))
            /\ Cardinality(InSlots(dir, v)) \in Nat /\ Cardinality(Mnodes(dir.vw[v])) \in Nat /\ Spare(dir, v) \in Int
        BY <1>2, <2>3, Parts
      <3>. QED  BY <2>3, <3>1
    <2>5. l.op = loc[t].op /\ l.ex = loc[t].ex  BY <1>2 DEF LocType
    <2>. HIDE DEF l, p
    <2>6. OpAt(p, l) /\ Knows(dir, p, l)  BY <1>1, <1>2, <2>5, Unknown DEF OpAt, Knowing
    <2>7. Alike(dir, dir')  BY <1>2, <1>4, <2>3, <2>4, AlikeSelf, HoldAlike
    <2>. QED  BY <1>1, <1>4, <2>5, <2>6, <2>7, Passed
  <1>. QED  BY <1>1, <1>3, <1>4

LEMMA BindCheckAgrees ==
  ASSUME ViewsInv, ViewsInv', NamesAgree, NEW t \in Threads, BindCheck(t) PROVE NamesAgree'
  <1>. DEFINE v == loc[t].vw  p == "ask"  k == loc[t]
  <1>1. /\ pc[t] = "rvc" /\ work' = work /\ fhs' = fhs /\ p = "ask" /\ k = loc[t]
        /\ (dir' = Rele(dir, v) /\ Return(t)) \/ (dir' = dir /\ Goto(t, p, k))
    BY DEF BindCheck, Step, Same
  <1>2. dir \in DirType /\ OpAt(pc[t], loc[t])  BY Known
  <1>3. v \in Views /\ dir' \in DirType  BY <1>1, HeldNow, HeldThen DEF Within
  <1>. HIDE DEF v, p, k
  <1>4. CASE dir' = Rele(dir, v) /\ Return(t)
    <2>1. Alike(dir, dir')  BY <1>2, <1>3, <1>4, AlikeSelf, ReleAlike
    <2>. QED  BY <1>1, <1>4, <2>1, Returned
  <1>5. CASE dir' = dir /\ Goto(t, p, k)
    <2>1. OpAt(p, k) /\ Knows(dir, p, k)  BY <1>1, <1>2, Unknown DEF OpAt, Knowing
    <2>. QED  BY <1>1, <1>5, <2>1, AlikeSelf, Passed
  <1>. QED  BY <1>1, <1>4, <1>5

LEMMA BindRootAgrees ==
  ASSUME ViewsInv, ViewsInv', NamesAgree, NEW t \in Threads, BindRoot(t) PROVE NamesAgree'
  <1>. DEFINE v == loc[t].vw  m == loc[t].vob  d == Activate(dir, v, m)  f == Rele(d, v)  p == "bound"  k == loc[t]
  <1>1. /\ pc[t] = "ask" /\ work' = work /\ fhs' = fhs /\ p = "bound" /\ k = loc[t]
        /\ (dir' = Leave(f, t) /\ Goto(t, p, k)) \/ (dir' = Rele(dir, v) /\ Return(t))
    BY DEF BindRoot, Step, Same
  <1>2. /\ work \in Workloads /\ dir \in DirType /\ OpAt(pc[t], loc[t]) /\ proc[t].cwd \in CwdType /\ m \in Vobs
    BY <1>1, Known DEF ThreadAt, ProcType
  <1>3. v \in Views /\ dir.vw[v].cnt # 0 /\ dir' \in DirType /\ Spare(dir, v) >= 1
    BY <1>1, HeldNow, HeldThen, Held DEF Within
  <1>. HIDE DEF v, m, p, k
  <1>4. CASE dir' = Leave(f, t) /\ Goto(t, p, k)
    <2>0. d \in DirType /\ \A x \in Views : Spare(d, x) = Spare(dir, x)  BY <1>2, <1>3, ActivateIn
    <2>1. Alike(dir, d) /\ d \in DirType /\ Spare(d, v) >= 1  BY <1>2, <1>3, <2>0, AlikeSelf, ActivateAlike
    <2>. HIDE DEF d
    <2>2. f \in DirType  BY <1>2, <1>3, <2>1, ReleIn
    <2>3. Alike(dir, f)  BY <1>3, <2>1, <2>2, ReleAlike
    <2>. HIDE DEF f
    <2>4. Alike(dir, dir')  BY <1>2, <1>3, <1>4, <2>2, <2>3, LeaveAlike
    <2>5. OpAt(p, k) /\ Knows(dir, p, k)  BY <1>1, <1>2, Unknown DEF OpAt, Knowing
    <2>. QED  BY <1>1, <1>4, <2>4, <2>5, Passed
  <1>5. CASE dir' = Rele(dir, v) /\ Return(t)
    <2>1. Alike(dir, dir')  BY <1>2, <1>3, <1>5, AlikeSelf, ReleAlike
    <2>. QED  BY <1>1, <1>5, <2>1, Returned
  <1>. QED  BY <1>1, <1>4, <1>5

LEMMA MakeHandleAgrees ==
  ASSUME ViewsInv, ViewsInv', NamesAgree, NEW t \in Threads, MakeHandle(t) PROVE NamesAgree'
  <1>. DEFINE c == proc[t].cwd  e == dir.vw[c.vw].ex
  <1>1. /\ work' = work /\ dir' = dir /\ UNCHANGED <<pc, loc>> /\ c.vob # Null /\ e # Null
        /\ fhs' = fhs \cup {[ex |-> e, uuid |-> dir.vw[c.vw].uuid, vob |-> c.vob]}
    BY DEF MakeHandle
  <1>2. dir \in DirType /\ DirTrue(dir, Inserting, Describing, Unexporting) /\ proc[t] \in ProcType  BY Known
  <1>3. c.vw \in Views
    <2>1. c \in CwdType  BY <1>2 DEF ProcType
    <2>. QED  BY <1>1, <2>1 DEF CwdType
  <1>4. e \in DOMAIN dir.exp  BY <1>1, <1>2, <1>3 DEF DirTrue, ExTrue
  <1>5. e # 0  BY <1>2, <1>4 DEF DirType
  <1>6. \A h \in fhs' : h.ex # 0  BY <1>1, <1>5 DEF NamesAgree
  <1>. DEFINE T == {}
  <1>7. T \in SUBSET Threads /\ Steady(T)  BY <1>1 DEF Steady
  <1>8. OneAdmin'  BY <1>1 DEF NamesAgree, OneAdmin
  <1>9. Inserting' = Inserting /\ Describing' = Describing /\ Unexporting' = Unexporting
    BY <1>1 DEF Inserting, Describing, Unexporting
  <1>10. DirTrue(dir, Inserting', Describing', Unexporting')  BY <1>2, <1>9
  <1>11. (\A u \in T : OpAt(pc'[u], loc'[u]) /\ Knows(dir, pc'[u], loc'[u])) /\ (\A u \in Threads \ T : Knows(dir, pc[u], loc[u]))
    BY DEF NamesAgree
  <1>12. Alike(dir, dir')  BY <1>1, AlikeSelf
  <1>. HIDE DEF T
  <1>. QED  BY <1>1, <1>2, <1>6, <1>7, <1>8, <1>10, <1>11, <1>12, Changed

-----------------------------------------------------------------------------
(* The actions that change the slots, the ids or the table.                 *)

\* The sets after t has left the steps in which it counts in them.
LEMMA SetsGrow ==
  ASSUME NEW t, Steady({t}), NEW d, DirTrue(d, Inserting, Describing, Unexporting),
         pc[t] \notin {"mkid", "hmid", "mkfill", "rmexp"}
  PROVE  DirTrue(d, Inserting', Describing', Unexporting')
  <1>1. Inserting \subseteq Inserting' /\ Describing \subseteq Describing' /\ Unexporting \subseteq Unexporting'
    BY SetsKeep
  <1>. DEFINE I == Inserting  D == Describing  U == Unexporting  J == Inserting'  F == Describing'  W == Unexporting'
  <1>2. I \subseteq J /\ D \subseteq F /\ U \subseteq W /\ DirTrue(d, I, D, U)  BY <1>1
  <1>. HIDE DEF I, D, U, J, F, W
  <1>3. DirTrue(d, J, F, W)  BY <1>2, DirMore
  <1>. QED  BY <1>3 DEF J, F, W

\* mfs_ramdir_add: what it leaves.
LEMMA RamdirAddIs ==
  ASSUME work \in Workloads, NEW d \in DirType, NEW nm \in Nms, NEW v \in Views, Present(d) # Slots
  PROVE  LET e == RamdirAdd(d, nm, v)
         IN  /\ FreeSlot(d) \in Slots /\ d.slot[FreeSlot(d)] = Null /\ e \in DirType /\ e.exp = d.exp
             /\ e.slot = [d.slot EXCEPT ![FreeSlot(d)] = [nm |-> nm, vw |-> v]]
             /\ \A x \in Views : Like(d.vw[x], e.vw[x]) /\ (x # v => e.vw[x] = d.vw[x])
             /\ e.vw[v].cnt # 0
  <1>. DEFINE e == RamdirAdd(d, nm, v)  i == FreeSlot(d)  s == [nm |-> nm, vw |-> v]
              w == [d.vw[v] EXCEPT !.cnt = @ + 1]  h == [d EXCEPT !.vw[v] = w]  f == [h EXCEPT !.slot[i] = s]
  <1>1. /\ e \in DirType /\ e.exp = d.exp /\ e.slot = [d.slot EXCEPT ![i] = s]  BY AddIn
  <1>2. d.vw[v] \in ViewType  BY DEF DirType
  <1>3. Like(d.vw[v], w) /\ w.cnt # 0  BY <1>2 DEF ViewType, Like
  <1>4. e = f
    <2>1. Hold(d, v) = h  BY DEF Hold
    <2>2. e = [Hold(d, v) EXCEPT !.slot[i] = s]  BY DEF RamdirAdd
    <2>. HIDE DEF h, e, s
    <2>. QED  BY <2>1, <2>2
  <1>5. i \in Slots /\ d.slot[i] = Null  BY FreeIn
  <1>. HIDE DEF i, s, w
  <1>6. f.vw[v] = w /\ \A x \in Views : x # v => f.vw[x] = d.vw[x]  BY DEF DirType
  <1>. HIDE DEF e, f
  <1>7. \A x \in Views : Like(d.vw[x], e.vw[x]) /\ (x # v => e.vw[x] = d.vw[x])  BY <1>3, <1>4, <1>6 DEF Like
  <1>8. e.vw[v].cnt # 0  BY <1>3, <1>4, <1>6
  <1>. QED  BY <1>1, <1>5, <1>7, <1>8 DEF e, i, s

\* A view nobody else works on, which is in no slot, is put into one.
LEMMA AddAgrees ==
  ASSUME ViewsInv, ViewsInv', NamesAgree, work' = work, fhs' = fhs, NEW t \in Threads, NEW d \in DirType, NEW v \in Views,
         NEW nm \in Nms, NEW p, p \in {"mkid", "hmid"}, Add(t, d, v, nm, p, loc[t]), pc[t] = (IF p = "mkid" THEN "mk" ELSE "hmnew"),
         d.slot = dir.slot, d.exp = dir.exp, \A x \in Views : x # v => d.vw[x] = dir.vw[x],
         d.vw[v].tag = nm, d.vw[v].ex = Null, d.vw[v].hm => nm.hm, nm.hm = (p = "hmid"),
         \A i \in Slots : ~At(dir, i, v), dir.vw[v].ex = Null,
         \A u \in Threads \ {t} : pc[u] \in Knowing => loc[u].vw # v,
         Rele(d, v) \in DirType, Alike(dir, Rele(d, v))
  PROVE  NamesAgree'
  <1>1. /\ work \in Workloads /\ dir \in DirType /\ DirTrue(dir, Inserting, Describing, Unexporting)
        /\ OpAt(pc[t], loc[t]) /\ loc[t] \in LocType /\ dir' \in DirType
        /\ ThreadAt(pc[t], loc[t], proc[t])
    BY Known, HeldThen
  <1>2. CASE CanAdd(d, nm)
    <2>. DEFINE n == FreeSlot(d)  l == [loc[t] EXCEPT !.vw = v, !.num = n]  e == RamdirAdd(d, nm, v)
    <2>1. dir' = e /\ Goto(t, p, l) /\ Present(d) # Slots  BY <1>2 DEF Add, CanAdd
    <2>2. /\ n \in Slots /\ d.slot[n] = Null /\ e.exp = d.exp /\ e.slot = [d.slot EXCEPT ![n] = [nm |-> nm, vw |-> v]]
          /\ \A x \in Views : Like(d.vw[x], e.vw[x]) /\ (x # v => e.vw[x] = d.vw[x])
      BY <1>1, <2>1, RamdirAddIs
    <2>. HIDE DEF n, e
    <2>3. l.vw = v /\ l.num = n /\ l.op = loc[t].op /\ l.ex = loc[t].ex /\ l.fh = loc[t].fh  BY <1>1 DEF LocType
    <2>. HIDE DEF l
    <2>4. Steady({t}) /\ pc'[t] = p /\ loc'[t] = l  BY <2>1, Stepped
    <2>. DEFINE I == Inserting  D == Describing  U == Unexporting  J == Inserting'  F == Describing'  W == Unexporting'
    <2>5. I \subseteq J /\ D \subseteq F /\ U \subseteq W /\ <<v, n>> \in J /\ (nm.hm \/ v \in F)
      <3>1. I \subseteq J /\ D \subseteq F /\ U \subseteq W  BY <2>4, SetsKeep
      <3>2. <<v, n>> \in J  BY <2>3, <2>4 DEF Inserting
      <3>3. p = "mkid" => v \in F  BY <2>3, <2>4 DEF Describing
      <3>. QED  BY <3>1, <3>2, <3>3
    <2>6. DirTrue(dir, I, D, U)  BY <1>1
    <2>. HIDE DEF I, D, U, J, F, W
    <2>7. e \in DirType  BY <1>1, <2>1
    <2>8. /\ e.slot = [dir.slot EXCEPT ![n] = [nm |-> nm, vw |-> v]] /\ e.exp = dir.exp /\ dir.slot[n] = Null
          /\ e.vw[v].tag = nm /\ e.vw[v].ex = Null /\ (e.vw[v].hm => nm.hm)
          /\ \A x \in Views : x # v => e.vw[x] = dir.vw[x]
      BY <2>2 DEF Like
    <2>9. DirTrue(e, J, F, U)
      <3>1. \A x \in Views : x # v => Like(dir.vw[x], e.vw[x])  BY <2>8 DEF Like
      <3>2. /\ work \in Workloads /\ dir \in DirType /\ e \in DirType /\ n \in Slots /\ dir.slot[n] = Null
            /\ \A i \in Slots : ~At(dir, i, v)
            /\ dir.vw[v].ex = Null /\ e.slot = [dir.slot EXCEPT ![n] = [nm |-> nm, vw |-> v]] /\ e.exp = dir.exp
            /\ e.vw[v].tag = nm /\ e.vw[v].ex = Null /\ (e.vw[v].hm => nm.hm)
            /\ DirTrue(dir, I, D, U) /\ I \subseteq J /\ <<v, n>> \in J /\ D \subseteq F /\ (nm.hm \/ v \in F)
        BY <1>1, <2>2, <2>5, <2>6, <2>7, <2>8
      <3>. QED  BY <3>1, <3>2, DirAdd
    <2>10. DirTrue(e, J, F, W)
      <3>1. J \subseteq J /\ F \subseteq F /\ U \subseteq W  BY <2>5
      <3>. QED  BY <2>9, <3>1, DirMore
    <2>11. DirTrue(e, Inserting', Describing', Unexporting')  BY <2>10 DEF J, F, W
    <2>12. /\ e.slot[n] # Null /\ e.slot[n].vw = v /\ \A i \in Slots : i # n => e.slot[i] = dir.slot[i]
      <3>1. [nm |-> nm, vw |-> v] \in Entries  BY DEF Entries
      <3>2. [nm |-> nm, vw |-> v] # Null  BY <1>1, <3>1, Consts
      <3>. QED  BY <1>1, <2>2, <2>8, <3>2 DEF DirType
    <2>13. Knows(e, p, l)
      <3>1. At(e, n, v) /\ \A i \in Slots : At(e, i, v) => i = n  BY <2>2, <2>12 DEF At
      <3>. QED  BY <2>3, <2>8, <3>1 DEF Knows
    <2>14. OpAt(p, l)  BY <1>1, <2>3 DEF OpAt
    <2>15. ASSUME NEW u \in Threads \ {t} PROVE Knows(e, pc[u], loc[u])
      <3>1. Knows(dir, pc[u], loc[u])  BY Known
      <3>2. CASE pc[u] \notin Knowing  BY <3>2, Unknown
      <3>3. CASE pc[u] \in Knowing
        <4>1. loc[u].vw # v /\ loc[u].vw \in Views
          <5>1. pc[u] \in Within \cup After  BY <3>3 DEF Knowing, Within, After
          <5>. QED  BY <3>3, <5>1, HeldNow
        <4>2. \A i \in Slots : At(e, i, loc[u].vw) = At(dir, i, loc[u].vw)  BY <2>8, <2>12, <4>1 DEF At
        <4>. QED  BY <2>8, <3>1, <4>1, <4>2, KnowsMore
      <3>. QED  BY <3>2, <3>3
    <2>16. Alike(e, dir')  BY <2>1, AlikeSelf
    <2>. QED  BY <2>1, <2>3, <2>7, <2>11, <2>13, <2>14, <2>15, <2>16, Proceeded
  <1>3. CASE ~CanAdd(d, nm)
    <2>. DEFINE e == Rele(d, v)  b == loc[t].base
    <2>1. dir' = ReleIf(e, b) /\ Return(t) /\ b \in Views \cup {Null}  BY <1>1, <1>3 DEF Add, LocType
    <2>2. e \in DirType /\ Alike(dir, e)  OBVIOUS
    <2>. HIDE DEF e, b
    <2>3. Alike(dir, dir')  BY <1>1, <2>1, <2>2, ReleIfAlike
    <2>. QED  BY <2>1, <2>3, Returned
  <1>. QED  BY <1>2, <1>3

\* A view that makespecnode may take is in no slot, is not exported, and no operation works on it.
LEMMA NewIsFree ==
  ASSUME ViewsInv, NamesAgree, NEW v \in Views, dir.vw[v].cnt = 0
  PROVE  /\ \A i \in Slots : ~At(dir, i, v)
         /\ dir.vw[v].ex = Null
         /\ \A u \in Threads : pc[u] \in Knowing => loc[u].vw # v
  <1>1. \A i \in Slots : ~At(dir, i, v)  BY HeldNow DEF At
  <1>2. \A u \in Threads : pc[u] \in Knowing => loc[u].vw # v
    <2>1. \A p \in Knowing : p \in Within \cup After  BY DEF Knowing, Within, After
    <2>. QED  BY <2>1, HeldNow
  <1>3. dir.vw[v].ex = Null
    <2>. SUFFICES ASSUME dir.vw[v].ex # Null PROVE FALSE
      OBVIOUS
    <2>1. DirTrue(dir, Inserting, Describing, Unexporting)  BY DEF NamesAgree
    <2>2. v \in Unexporting  BY <1>1, <2>1 DEF DirTrue, ExTrue, Placed, At
    <2>. QED  BY <1>2, <2>2 DEF Unexporting, Knowing
  <1>. QED  BY <1>1, <1>2, <1>3

LEMMA MakeIs ==
  ASSUME ViewsInv, NamesAgree, NewView # {}, NEW nm \in Nms
  PROVE  LET v == CHOOSE x \in NewView : TRUE
             d == MakeView(dir, v, nm)
         IN  /\ v \in Views /\ dir.vw[v].cnt = 0 /\ d \in DirType
             /\ d.slot = dir.slot /\ d.exp = dir.exp /\ \A x \in Views : x # v => d.vw[x] = dir.vw[x]
             /\ d.vw[v].tag = nm /\ d.vw[v].ex = Null /\ d.vw[v].hm = FALSE
             /\ Rele(d, v) \in DirType /\ Alike(dir, Rele(d, v))
  <1>. DEFINE v == CHOOSE x \in NewView : TRUE  w == [NoView EXCEPT !.cnt = 1, !.tag = nm]  d == MakeView(dir, v, nm)
              f == [dir EXCEPT !.vw[v] = w]  g == [d EXCEPT !.vw[v] = NoView]
  <1>1. v \in Views /\ dir.vw[v].cnt = 0  BY DEF NewView
  <1>2. d \in DirType  BY NewViewIn
  <1>3. dir \in DirType  BY HeldNow
  <1>. HIDE DEF v
  <1>4. w.cnt = 1 /\ w.tag = nm /\ w.ex = Null /\ w.hm = FALSE  BY DEF NoView
  <1>5. d = f  BY DEF MakeView
  <1>. HIDE DEF w, d
  <1>6. f.slot = dir.slot /\ f.exp = dir.exp /\ f.vw[v] = w /\ \A x \in Views : x # v => f.vw[x] = dir.vw[x]
    BY <1>1, <1>3 DEF DirType
  <1>. HIDE DEF f
  <1>7. Rele(d, v) = g  BY <1>4, <1>5, <1>6 DEF Rele
  <1>8. g \in DirType  BY <1>1, <1>2, NoViewIn DEF DirType
  <1>9. g.slot = d.slot /\ g.exp = d.exp /\ g.vw[v] = NoView /\ \A x \in Views : x # v => g.vw[x] = d.vw[x]
    BY <1>1, <1>2 DEF DirType
  <1>. HIDE DEF g
  <1>10. Alike(dir, g)  BY <1>5, <1>6, <1>9, NoViewAlike DEF Alike, Like
  <1>. QED  BY <1>1, <1>2, <1>4, <1>5, <1>6, <1>7, <1>8, <1>10 DEF v, d

LEMMA MkNewAgrees ==
  ASSUME ViewsInv, ViewsInv', NamesAgree, NEW t \in Threads, MkNew(t) \/ HmNew(t) PROVE NamesAgree'
  <1>. DEFINE v == CHOOSE x \in NewView : TRUE  b == pc[t] = "hmnew"  nm == Name(loc[t].tag, b)  d == MakeView(dir, v, nm)
              p == IF b THEN "hmid" ELSE "mkid"
  <1>1. /\ pc[t] \in {"mk", "hmnew"} /\ work' = work /\ fhs' = fhs /\ NewView # {} /\ Add(t, d, v, nm, p, loc[t])
    <2>1. CASE MkNew(t)
      <3>1. pc[t] = "mk" /\ work' = work /\ fhs' = fhs /\ NewView # {}  BY <2>1 DEF MkNew, Mk, Step, Same
      <3>2. b = FALSE /\ p = "mkid"  BY <3>1
      <3>3. Add(t, MakeView(dir, v, Name(loc[t].tag, FALSE)), v, Name(loc[t].tag, FALSE), "mkid", loc[t])  BY <2>1 DEF MkNew
      <3>. HIDE DEF v, b, p
      <3>. QED  BY <3>1, <3>2, <3>3
    <2>2. CASE HmNew(t)
      <3>1. pc[t] = "hmnew" /\ work' = work /\ fhs' = fhs /\ NewView # {}  BY <2>2 DEF HmNew, Step, Same
      <3>2. b = TRUE /\ p = "hmid"  BY <3>1
      <3>3. Add(t, MakeView(dir, v, Name(loc[t].tag, TRUE)), v, Name(loc[t].tag, TRUE), "hmid", loc[t])  BY <2>2 DEF HmNew
      <3>. HIDE DEF v, b, p
      <3>. QED  BY <3>1, <3>2, <3>3
    <2>. QED  BY <2>1, <2>2
  <1>2. nm \in Nms /\ nm.hm = b
    <2>1. ThreadAt(pc[t], loc[t], proc[t])  BY Known
    <2>. QED  BY <1>1, <2>1 DEF ThreadAt, Name, Nms
  <1>3. p \in {"mkid", "hmid"} /\ pc[t] = (IF p = "mkid" THEN "mk" ELSE "hmnew") /\ b = (p = "hmid")  BY <1>1
  <1>. HIDE DEF nm, p, b
  <1>4. /\ v \in Views /\ dir.vw[v].cnt = 0 /\ d \in DirType
        /\ d.slot = dir.slot /\ d.exp = dir.exp /\ \A x \in Views : x # v => d.vw[x] = dir.vw[x]
        /\ d.vw[v].tag = nm /\ d.vw[v].ex = Null /\ d.vw[v].hm = FALSE
        /\ Rele(d, v) \in DirType /\ Alike(dir, Rele(d, v))
    BY <1>1, <1>2, MakeIs
  <1>. HIDE DEF v, d
  <1>5. /\ \A i \in Slots : ~At(dir, i, v)
        /\ dir.vw[v].ex = Null
        /\ \A u \in Threads \ {t} : pc[u] \in Knowing => loc[u].vw # v
    BY <1>4, NewIsFree
  <1>. QED  BY <1>1, <1>2, <1>3, <1>4, <1>5, AddAgrees

LEMMA MkRecoverAgrees ==
  ASSUME ViewsInv, ViewsInv', NamesAgree, NEW t \in Threads, MkRecover(t) PROVE NamesAgree'
  <1>. DEFINE v == CHOOSE x \in Recoverable(loc[t]) : TRUE  nm == Name(loc[t].tag, FALSE)  d == Hold(dir, v)  p == "mkid"
              e == Rele(d, v)
  <1>1. /\ pc[t] = "mk" /\ work' = work /\ fhs' = fhs /\ p = "mkid"
        /\ Recoverable(loc[t]) # {} /\ Add(t, d, v, nm, p, loc[t])
    BY DEF MkRecover, Mk, Step, Same
  <1>2. v \in Views /\ dir.vw[v].cnt # 0 /\ dir.vw[v].id = 0 /\ dir.vw[v].tag = nm
    <2>1. v \in Recoverable(loc[t])  BY <1>1
    <2>. HIDE DEF v, nm
    <2>2. v \in Views /\ dir.vw[v].cnt > 0 /\ dir.vw[v].id = 0 /\ dir.vw[v].tag = Name(loc[t].tag, FALSE)
      BY <2>1, Zenon DEF Recoverable
    <2>. QED  BY <2>2 DEF nm
  <1>3. /\ work \in Workloads /\ dir \in DirType /\ DirTrue(dir, Inserting, Describing, Unexporting)
        /\ OpAt(pc[t], loc[t]) /\ ThreadAt(pc[t], loc[t], proc[t])
    BY Known
  <1>4. nm \in Nms /\ nm.hm = FALSE  BY <1>1, <1>3 DEF ThreadAt, Name, Nms
  <1>. HIDE DEF p, nm, v
  <1>5. ASSUME NEW u \in Threads \ {t}, pc[u] \in Knowing PROVE loc[u].vw # v
    <2>1. loc[t].op \in Admin  BY <1>1, <1>3 DEF OpAt, Admin
    <2>2. pc[u] \in {"hmid", "hmfill"}  BY <1>5, <2>1, NoOther
    <2>3. dir.vw[loc[u].vw].tag.hm  BY <2>2, Known DEF Knows
    <2>. QED  BY <1>2, <1>4, <2>3
  <1>6. \A i \in Slots : ~At(dir, i, v)
    <2>. SUFFICES ASSUME NEW i \in Slots, At(dir, i, v) PROVE FALSE
      OBVIOUS
    <2>1. dir.slot[i] # Null /\ dir.slot[i].vw = v /\ i # 0  BY DEF At, Slots
    <2>2. <<v, i>> \in Inserting  BY <1>2, <1>3, <2>1 DEF DirTrue, IdTrue
    <2>3. PICK u \in Threads : pc[u] \in {"mkid", "hmid"} /\ loc[u].vw = v  BY <2>2 DEF Inserting
    <2>. QED  BY <1>1, <1>5, <2>3 DEF Knowing
  <1>7. dir.vw[v].ex = Null  BY <1>2, <1>3 DEF DirTrue, ExTrue
  <1>8. /\ d \in DirType /\ d.slot = dir.slot /\ d.exp = dir.exp /\ Alike(dir, d)
        /\ \A x \in Views : Spare(d, x) = Spare(dir, x) + One(x = v)
    <2>1. Alike(dir, d)  BY <1>2, <1>3, HoldAlike, AlikeSelf
    <2>2. /\ d \in DirType /\ d.slot = dir.slot /\ d.exp = dir.exp
          /\ \A x \in Views : Spare(d, x) = Spare(dir, x) + One(x = v)
      BY <1>2, <1>3, HoldIn
    <2>. QED  BY <2>1, <2>2
  <1>9. d.vw[v].cnt # 0 /\ \A x \in Views : x # v => d.vw[x] = dir.vw[x]
    <2>1. dir.vw[v].cnt \in Nat  BY <1>2, <1>3 DEF DirType, ViewType
    <2>. QED  BY <1>2, <1>3, <2>1 DEF Hold, DirType, ViewType
  <1>10. Like(dir.vw[v], d.vw[v])  BY <1>2, <1>8, <1>9 DEF Alike
  <1>. HIDE DEF d
  <1>11. HmTrue(dir)  BY <1>3 DEF DirTrue
  <1>12. d.vw[v].tag = nm /\ d.vw[v].ex = Null /\ d.vw[v].hm = FALSE
    <2>1. dir.vw[v].hm = FALSE
      <3>1. dir.vw[v].hm \in BOOLEAN  BY <1>2, <1>3 DEF DirType, ViewType
      <3>. QED  BY <1>2, <1>4, <1>11, <3>1 DEF HmTrue
    <2>. QED  BY <1>2, <1>7, <1>10, <2>1 DEF Like
  <1>13. e \in DirType /\ Alike(dir, e)
    <2>1. Spare(d, v) >= 1  BY <1>2, <1>8, SpareNat DEF One
    <2>2. e \in DirType  BY <1>2, <1>3, <1>8, <2>1, ReleIn
    <2>. QED  BY <1>2, <1>8, <2>2, ReleAlike
  <1>. HIDE DEF e
  <1>14. p \in {"mkid", "hmid"} /\ pc[t] = (IF p = "mkid" THEN "mk" ELSE "hmnew") /\ nm.hm = (p = "hmid")  BY <1>1, <1>4
  <1>15. Rele(d, v) \in DirType /\ Alike(dir, Rele(d, v))  BY <1>13 DEF e
  <1>. QED  BY <1>1, <1>2, <1>4, <1>5, <1>6, <1>7, <1>8, <1>9, <1>12, <1>14, <1>15, AddAgrees

\* The id is set.
LEMMA InsertIdAgrees ==
  ASSUME ViewsInv, ViewsInv', NamesAgree, NEW t \in Threads, InsertId(t) PROVE NamesAgree'
  <1>. DEFINE v == loc[t].vw  n == loc[t].num  w == [dir.vw[v] EXCEPT !.id = n, !.ex = Null]  d == [dir EXCEPT !.vw[v] = w]
              p == IF pc[t] = "mkid" THEN "mkfill" ELSE "hmfill"  T == {t}
  <1>1. /\ work \in Workloads /\ dir \in DirType /\ DirTrue(dir, Inserting, Describing, Unexporting)
        /\ OpAt(pc[t], loc[t]) /\ Knows(dir, pc[t], loc[t]) /\ loc[t] \in LocType
    BY Known
  <1>2. /\ pc[t] \in {"mkid", "hmid"} /\ work' = work /\ fhs' = fhs
        /\ dir' = SetId(dir, v, n) /\ pc' = [pc EXCEPT ![t] = p] /\ loc' = Alive(v)
        /\ (p = "mkfill" /\ pc[t] = "mkid") \/ (p = "hmfill" /\ pc[t] = "hmid")
    BY DEF InsertId, Same, Stay
  <1>3. v \in Views /\ n \in Nat /\ dir' \in DirType  BY <1>1, <1>2, HeldNow, HeldThen DEF Within, LocType
  <1>4. dir.vw[v].ex = Null
    <2>1. pc[t] = "hmid" => dir.vw[v].tag.hm  BY <1>1 DEF Knows
    <2>2. dir.vw[v].tag.hm => dir.vw[v].ex = Null  BY <1>1, <1>3 DEF DirTrue, ExTrue
    <2>. QED  BY <1>1, <1>2, <2>1, <2>2 DEF Knows
  <1>5. ASSUME NEW i \in Slots, At(dir, i, v)
        PROVE  n = i /\ (dir.slot[i].nm.hm \/ dir.vw[v].full \/ pc[t] = "mkid")
    <2>1. pc[t] = "mkid" => At(dir, n, v)  BY <1>1 DEF Knows
    <2>2. dir.slot[i] # Null /\ dir.slot[i].vw = v /\ dir.vw[v].tag = dir.slot[i].nm
      BY <1>1, <1>5 DEF At, DirTrue, SlotTrue
    <2>3. n = i
      <3>1. pc[t] = "mkid" => n = i  BY <1>1, <1>5, <2>1, <2>2 DEF At, DirTrue, SlotTrue
      <3>2. pc[t] = "hmid" => n = i  BY <1>1, <1>5 DEF Knows
      <3>. QED  BY <1>2, <3>1, <3>2
    <2>4. pc[t] = "hmid" => dir.slot[i].nm.hm  BY <1>1, <2>2 DEF Knows
    <2>. QED  BY <1>2, <2>3, <2>4
  <1>6. Steady(T) /\ pc'[t] = p /\ \A u \in Threads : loc'[u].op = loc[u].op
    <2>1. DOMAIN pc = Threads /\ \A u \in Threads : loc[u] \in LocType  BY DEF ViewsInv, Functions
    <2>2. ASSUME NEW u \in Threads
          PROVE  /\ loc'[u].dead \subseteq loc[u].dead /\ loc'[u].op = loc[u].op /\ loc'[u].vw = loc[u].vw
                 /\ loc'[u].num = loc[u].num /\ loc'[u].fh = loc[u].fh /\ loc'[u].ex = loc[u].ex
      <3>1. loc'[u] = [loc[u] EXCEPT !.dead = @ \ {v}]  BY <1>2 DEF Alive
      <3>. QED  BY <2>1, <3>1 DEF LocType
    <2>3. pc'[t] = p /\ \A u \in Threads \ {t} : pc'[u] = pc[u]  BY <1>2, <2>1
    <2>. QED  BY <2>2, <2>3 DEF Steady
  <1>7. loc'[t].op = loc[t].op /\ loc'[t].vw = v /\ loc'[t].num = n /\ loc'[t].ex = loc[t].ex /\ loc'[t].fh = loc[t].fh
    <2>1. loc'[t] = [loc[t] EXCEPT !.dead = @ \ {v}]  BY <1>2 DEF Alive
    <2>. QED  BY <1>1, <2>1 DEF LocType
  <1>. HIDE DEF v, n, p
  <1>8. dir.vw[v] \in ViewType  BY <1>1, <1>3 DEF DirType
  <1>9. /\ w.id = n /\ w.ex = Null /\ w.tag = dir.vw[v].tag /\ w.hm = dir.vw[v].hm /\ w.full = dir.vw[v].full
        /\ w.uuid = dir.vw[v].uuid
    BY <1>8 DEF ViewType
  <1>10. dir' = d  BY <1>2 DEF SetId
  <1>. HIDE DEF w
  <1>11. d.slot = dir.slot /\ d.exp = dir.exp /\ d.vw[v] = w /\ \A x \in Views : x # v => d.vw[x] = dir.vw[x]
    BY <1>1, <1>3 DEF DirType
  <1>. HIDE DEF d
  <1>. DEFINE I == Inserting  D == Describing  U == Unexporting  J == Inserting'  F == Describing'  W == Unexporting'
  <1>12. /\ \A x, i : x # v /\ <<x, i>> \in I => <<x, i>> \in J
         /\ \A x \in D : x # v => x \in F
         /\ U \subseteq W
         /\ pc[t] = "mkid" => v \in F
    <2>1. Steady({t})  BY <1>6
    <2>2. pc[t] = "mkid" => v \in F
      <3>. SUFFICES ASSUME pc[t] = "mkid" PROVE v \in F
        OBVIOUS
      <3>1. pc'[t] = "mkfill" /\ loc'[t].vw = v  BY <1>2, <1>6, <1>7
      <3>. QED  BY <3>1 DEF Describing
    <2>3. v = loc[t].vw  BY DEF v
    <2>. QED  BY <1>2, <2>1, <2>2, <2>3, SetsKeep
  <1>13. DirTrue(dir, I, D, U)  BY <1>1
  <1>. HIDE DEF I, D, U, J, F, W
  <1>14. DirTrue(d, J, F, W)
    <2>1. \A x \in Views : x # v => Like(dir.vw[x], d.vw[x])  BY <1>11 DEF Like
    <2>2. d.vw[v].hm => dir.vw[v].tag.hm  BY <1>3, <1>9, <1>11, <1>13 DEF DirTrue, HmTrue
    <2>3. \A i \in Slots : At(dir, i, v) => /\ d.vw[v].id = i \/ <<v, i>> \in J
                                            /\ dir.slot[i].nm.hm \/ d.vw[v].full \/ v \in F
      BY <1>5, <1>9, <1>11, <1>12
    <2>4. \A x \in U : x # v => x \in W  BY <1>12
    <2>5. d \in DirType /\ d.vw[v].tag = dir.vw[v].tag /\ d.vw[v].ex = Null  BY <1>3, <1>9, <1>10, <1>11
    <2>. QED  BY <1>1, <1>3, <1>4, <1>11, <1>12, <1>13, <2>1, <2>2, <2>3, <2>4, <2>5, DirSet
  <1>15. DirTrue(d, Inserting', Describing', Unexporting')  BY <1>14 DEF J, F, W
  <1>16. OpAt(pc'[t], loc'[t])  BY <1>1, <1>2, <1>6, <1>7 DEF OpAt
  <1>17. Knows(d, pc'[t], loc'[t])
    <2>1. CASE pc[t] = "mkid"
      <3>1. p = "mkfill" /\ At(dir, n, v) /\ ~dir.vw[v].tag.hm  BY <1>1, <1>2, <2>1 DEF Knows, v, n
      <3>2. At(d, n, v)  BY <1>11, <3>1 DEF At
      <3>3. Placed(d, v)  BY <1>9, <1>11, <3>2 DEF Placed
      <3>. QED  BY <1>6, <1>7, <1>9, <1>11, <3>1, <3>3 DEF Knows
    <2>2. CASE pc[t] = "hmid"
      <3>1. p = "hmfill" /\ dir.vw[v].tag.hm  BY <1>1, <1>2, <2>2 DEF Knows, v
      <3>. QED  BY <1>6, <1>7, <1>9, <1>11, <3>1 DEF Knows
    <2>. QED  BY <1>2, <2>1, <2>2
  <1>18. ASSUME NEW u \in Threads \ T PROVE Knows(d, pc[u], loc[u])
    <2>1. Knows(dir, pc[u], loc[u]) /\ u # t  BY Known
    <2>2. CASE pc[u] \notin Knowing  BY <2>2, Unknown
    <2>3. CASE pc[u] \in Knowing
      <3>1. loc[u].vw \in Views
        <4>1. pc[u] \in Within \cup After  BY <2>3 DEF Knowing, Within, After
        <4>. QED  BY <4>1, HeldNow
      <3>2. \A i \in Slots : At(d, i, loc[u].vw) = At(dir, i, loc[u].vw)  BY <1>11 DEF At
      <3>3. /\ d.vw[loc[u].vw].tag = dir.vw[loc[u].vw].tag /\ d.vw[loc[u].vw].ex = dir.vw[loc[u].vw].ex
            /\ d.vw[loc[u].vw].uuid = dir.vw[loc[u].vw].uuid
        BY <1>4, <1>9, <1>11, <3>1
      <3>4. pc[u] \in {"mkfill", "export", "unexport"} => d.vw[loc[u].vw].id = dir.vw[loc[u].vw].id
        <4>. SUFFICES ASSUME pc[u] \in {"mkfill", "export", "unexport"} PROVE loc[u].vw # v
          BY <1>11, <3>1
        <4>1. CASE pc[t] = "mkid"
          <5>1. loc[t].op \in Admin  BY <1>1, <4>1 DEF OpAt, Admin
          <5>. QED  BY <2>1, <2>3, <5>1, NoOther
        <4>2. CASE pc[t] = "hmid"
          <5>1. dir.vw[v].tag.hm  BY <1>1, <4>2 DEF Knows, v
          <5>2. ~dir.vw[loc[u].vw].tag.hm  BY <2>1 DEF Knows
          <5>. QED  BY <5>1, <5>2
        <4>. QED  BY <1>2, <4>1, <4>2
      <3>. QED  BY <2>1, <3>2, <3>3, <3>4, KnowsMore
    <2>. QED  BY <2>2, <2>3
  <1>19. OneAdmin'  BY <1>6 DEF NamesAgree, OneAdmin
  <1>20. \A h \in fhs' : h.ex # 0  BY <1>2 DEF NamesAgree
  <1>21. T \in SUBSET Threads /\ d \in DirType /\ Alike(d, dir') /\ \A u \in T : u = t
    BY <1>3, <1>10, AlikeSelf
  <1>. HIDE DEF T
  <1>. QED  BY <1>2, <1>6, <1>15, <1>16, <1>17, <1>18, <1>19, <1>20, <1>21, Changed

\* The record of the view of t is replaced, and one view is released.
LEMMA RecordAgrees ==
  ASSUME ViewsInv, ViewsInv', NamesAgree, work' = work, fhs' = fhs, NEW t \in Threads, NEW p, NEW l, Goto(t, p, l),
         pc[t] \notin {"mkid", "hmid", "rmexp"}, NEW v \in Views, loc[t].vw \in {v}, NEW w \in ViewType,
         w.cnt = dir.vw[v].cnt, w.mn = dir.vw[v].mn, w.tag = dir.vw[v].tag, w.ex = Null, dir.vw[v].ex = Null,
         w.hm => dir.vw[v].tag.hm, NEW r \in Views, dir' = Rele([dir EXCEPT !.vw[v] = w], r),
         \A i \in Slots : At(dir, i, v) => /\ w.id = i \/ <<v, i>> \in Inserting
                                           /\ dir.slot[i].nm.hm \/ w.full,
         p # "idle" => l.op = loc[t].op /\ OpAt(p, l) /\ p \notin Knowing,
         loc[t].op \in Admin \/ (dir.vw[v].tag.hm /\ w.id = dir.vw[v].id)
  PROVE  NamesAgree'
  <1>. DEFINE d == [dir EXCEPT !.vw[v] = w]
  <1>1. /\ work \in Workloads /\ dir \in DirType /\ DirTrue(dir, Inserting, Describing, Unexporting) /\ dir' \in DirType
    BY Known, HeldThen
  <1>2. /\ d \in DirType /\ d.slot = dir.slot /\ d.exp = dir.exp /\ d.vw[v] = w
        /\ \A y \in Views : y # v => d.vw[y] = dir.vw[y]
    BY <1>1, Noted
  <1>3. dir' = Rele(d, r)  OBVIOUS
  <1>. HIDE DEF d
  <1>4. Alike(d, dir')  BY <1>1, <1>2, <1>3, AlikeSelf, ReleAlike
  <1>5. Steady({t})  BY Stepped
  <1>. DEFINE I == Inserting  D == Describing  U == Unexporting  J == Inserting'  F == Describing'  W == Unexporting'
  <1>6. I \subseteq J /\ (\A y \in D : y # v => y \in F) /\ U \subseteq W  BY <1>5, SetsKeep
  <1>7. DirTrue(dir, I, D, U)  BY <1>1
  <1>8. \A i \in Slots : At(dir, i, v) => (w.id = i \/ <<v, i>> \in I) /\ (dir.slot[i].nm.hm \/ w.full)  OBVIOUS
  <1>. HIDE DEF I, D, U, J, F, W
  <1>9. DirTrue(d, J, F, W)
    <2>1. \A y \in Views : y # v => Like(dir.vw[y], d.vw[y])  BY <1>2 DEF Like
    <2>2. \A i \in Slots : At(dir, i, v) => /\ d.vw[v].id = i \/ <<v, i>> \in J
                                            /\ dir.slot[i].nm.hm \/ d.vw[v].full \/ v \in F
      BY <1>2, <1>6, <1>8
    <2>3. /\ \A y, i : y # v /\ <<y, i>> \in I => <<y, i>> \in J
          /\ \A y \in U : y # v => y \in W
      BY <1>6
    <2>4. d.vw[v].tag = dir.vw[v].tag /\ d.vw[v].ex = Null /\ (d.vw[v].hm => dir.vw[v].tag.hm)  BY <1>2
    <2>5. /\ work \in Workloads /\ dir \in DirType /\ d \in DirType /\ d.slot = dir.slot /\ d.exp = dir.exp
          /\ dir.vw[v].ex = Null /\ DirTrue(dir, I, D, U) /\ \A y \in D : y # v => y \in F
      BY <1>1, <1>2, <1>6, <1>7
    <2>. QED  BY <2>1, <2>2, <2>3, <2>4, <2>5, DirSet
  <1>10. DirTrue(d, Inserting', Describing', Unexporting')  BY <1>9 DEF J, F, W
  <1>11. ASSUME NEW u \in Threads \ {t} PROVE Knows(d, pc[u], loc[u])
    <2>1. Knows(dir, pc[u], loc[u]) /\ u # t  BY Known
    <2>2. CASE pc[u] \notin Knowing  BY <2>2, Unknown
    <2>3. CASE pc[u] \in Knowing
      <3>1. loc[u].vw \in Views
        <4>1. pc[u] \in Within \cup After  BY <2>3 DEF Knowing, Within, After
        <4>. QED  BY <4>1, HeldNow
      <3>2. \A i \in Slots : At(d, i, loc[u].vw) = At(dir, i, loc[u].vw)  BY <1>2 DEF At
      <3>3. d.vw[loc[u].vw].tag = dir.vw[loc[u].vw].tag /\ d.vw[loc[u].vw].ex = dir.vw[loc[u].vw].ex  BY <1>2, <3>1
      <3>4. CASE loc[t].op \in Admin
        <4>1. pc[u] \in {"hmid", "hmfill"}  BY <2>1, <2>3, <3>4, NoOther
        <4>. QED  BY <2>1, <3>2, <3>3, <4>1, KnowsHm
      <3>5. CASE dir.vw[v].tag.hm /\ w.id = dir.vw[v].id
        <4>1. d.vw[loc[u].vw].id = dir.vw[loc[u].vw].id  BY <1>2, <3>1, <3>5
        <4>2. pc[u] = "got" => d.vw[loc[u].vw].uuid = dir.vw[loc[u].vw].uuid
          <5>1. pc[u] = "got" => ~dir.vw[loc[u].vw].tag.hm  BY <2>1 DEF Knows
          <5>. QED  BY <1>2, <3>1, <3>5, <5>1
        <4>. QED  BY <2>1, <3>2, <3>3, <4>1, <4>2, KnowsMore
      <3>. QED  BY <3>4, <3>5
    <2>. QED  BY <2>2, <2>3
  <1>12. p # "idle" => l.op = loc[t].op /\ OpAt(p, l) /\ Knows(d, p, l)  BY Unknown
  <1>. QED  BY <1>2, <1>4, <1>10, <1>11, <1>12, Proceeded

LEMMA MkFillAgrees ==
  ASSUME ViewsInv, ViewsInv', NamesAgree, NEW t \in Threads, MkFill(t) PROVE NamesAgree'
  <1>. DEFINE v == loc[t].vw  a == loc[t].uuid  b == TRUE  w == [dir.vw[v] EXCEPT !.uuid = a, !.full = b]  p == "idle"  l == NoLoc
              d == [dir EXCEPT !.vw[v] = w]
  <1>1. /\ pc[t] = "mkfill" /\ work' = work /\ fhs' = fhs /\ Goto(t, p, l) /\ dir' = Rele(d, v) /\ p = "idle"
        /\ b = TRUE
    BY DEF MkFill, Step, Same, Stay, Return
  <1>2. /\ dir \in DirType /\ DirTrue(dir, Inserting, Describing, Unexporting)
        /\ OpAt(pc[t], loc[t]) /\ Knows(dir, pc[t], loc[t]) /\ loc[t] \in LocType
    BY Known
  <1>3. v \in Views /\ v = loc[t].vw  BY <1>1, HeldNow DEF Within
  <1>4. Placed(dir, v) /\ dir.vw[v].ex = Null /\ loc[t].op \in Admin  BY <1>1, <1>2 DEF Knows, OpAt, Admin
  <1>5. dir.vw[v] \in ViewType /\ a \in Uuids \cup {Null} /\ b \in BOOLEAN  BY <1>2, <1>3 DEF DirType, LocType
  <1>. HIDE DEF v, a, b, p, l
  <1>6. /\ w \in ViewType /\ w.cnt = dir.vw[v].cnt /\ w.mn = dir.vw[v].mn /\ w.id = dir.vw[v].id /\ w.tag = dir.vw[v].tag
        /\ w.ex = dir.vw[v].ex /\ w.hm = dir.vw[v].hm /\ w.full = b
    BY <1>5 DEF ViewType
  <1>. HIDE DEF w
  <1>7. \A i \in Slots : At(dir, i, v) => w.id = i /\ w.full  BY <1>1, <1>2, <1>4, <1>6 DEF Placed, At, DirTrue, SlotTrue
  <1>8. w.hm => dir.vw[v].tag.hm  BY <1>2, <1>3, <1>6 DEF DirTrue, HmTrue
  <1>9. dir' = Rele([dir EXCEPT !.vw[v] = w], v)  BY <1>1
  <1>. HIDE DEF d
  <1>10. /\ work' = work /\ fhs' = fhs /\ Goto(t, p, l) /\ pc[t] \notin {"mkid", "hmid", "rmexp"} /\ v \in Views
         /\ loc[t].vw \in {v} /\ w \in ViewType /\ w.cnt = dir.vw[v].cnt /\ w.mn = dir.vw[v].mn
         /\ w.tag = dir.vw[v].tag /\ w.ex = Null /\ dir.vw[v].ex = Null /\ loc[t].op \in Admin
         /\ (p # "idle" => l.op = loc[t].op /\ OpAt(p, l) /\ p \notin Knowing)
    BY <1>1, <1>3, <1>4, <1>6
  <1>11. \A i \in Slots : At(dir, i, v) => (w.id = i \/ <<v, i>> \in Inserting) /\ (dir.slot[i].nm.hm \/ w.full)
    BY <1>7
  <1>12. v \in Views /\ w \in ViewType /\ Goto(t, p, l)  BY <1>10
  <1>. QED  BY <1>8, <1>9, <1>10, <1>11, <1>12, RecordAgrees

LEMMA HmFillAgrees ==
  ASSUME ViewsInv, ViewsInv', NamesAgree, NEW t \in Threads, HmFill(t) PROVE NamesAgree'
  <1>. DEFINE v == loc[t].vw  b == loc[t].base  a == dir.vw[b].uuid  f == dir.vw[b].full  c == TRUE
              w == [dir.vw[v] EXCEPT !.uuid = a, !.full = f, !.hm = c]
              d == [dir EXCEPT !.vw[v] = w]  p == "view"  l == [loc[t] EXCEPT !.base = Null]
  <1>1. /\ pc[t] = "hmfill" /\ work' = work /\ fhs' = fhs /\ Goto(t, p, l) /\ dir' = Rele(d, b) /\ p = "view"
        /\ c = TRUE
    BY DEF HmFill, Step, Same, Stay
  <1>2. /\ dir \in DirType /\ DirTrue(dir, Inserting, Describing, Unexporting) /\ ThreadAt(pc[t], loc[t], proc[t])
        /\ OpAt(pc[t], loc[t]) /\ Knows(dir, pc[t], loc[t]) /\ loc[t] \in LocType
    BY Known
  <1>3. v \in Views /\ b \in Views /\ v = loc[t].vw  BY <1>1, Held DEF Within, Making
  <1>4. dir.vw[v].tag.hm  BY <1>1, <1>2 DEF Knows
  <1>5. dir.vw[v] \in ViewType /\ a \in Uuids \cup {Null} /\ f \in BOOLEAN /\ c \in BOOLEAN
    <2>1. dir.vw[v] \in ViewType /\ dir.vw[b] \in ViewType  BY <1>2, <1>3 DEF DirType
    <2>. QED  BY <2>1 DEF ViewType
  <1>6. l.op = loc[t].op /\ l.ex = loc[t].ex /\ l.fh = loc[t].fh  BY <1>2 DEF LocType
  <1>. HIDE DEF v, a, b, f, c, p, l
  <1>7. /\ w \in ViewType /\ w.cnt = dir.vw[v].cnt /\ w.mn = dir.vw[v].mn /\ w.id = dir.vw[v].id /\ w.tag = dir.vw[v].tag
        /\ w.ex = dir.vw[v].ex
    BY <1>5 DEF ViewType
  <1>. HIDE DEF w
  <1>8. dir.vw[v].ex = Null  BY <1>2, <1>3, <1>4 DEF DirTrue, ExTrue
  <1>9. \A i \in Slots : At(dir, i, v) => (w.id = i \/ <<v, i>> \in Inserting) /\ dir.slot[i].nm.hm
    BY <1>2, <1>4, <1>7 DEF At, DirTrue, SlotTrue, IdTrue
  <1>10. OpAt(p, l) /\ p \notin Knowing  BY <1>1, <1>2, <1>6 DEF OpAt, Knowing
  <1>11. dir' = Rele([dir EXCEPT !.vw[v] = w], b)  BY <1>1
  <1>. HIDE DEF d
  <1>. QED  BY <1>1, <1>3, <1>4, <1>6, <1>7, <1>8, <1>9, <1>10, <1>11, RecordAgrees

LEMMA RmIdAgrees ==
  ASSUME ViewsInv, ViewsInv', NamesAgree, NEW t \in Threads, RmId(t) PROVE NamesAgree'
  <1>. DEFINE v == loc[t].vw  w == [dir.vw[v] EXCEPT !.id = 0]  d == [dir EXCEPT !.vw[v] = w]
  <1>1. /\ pc[t] = "rmid" /\ work' = work /\ fhs' = fhs /\ dir' = Rele(d, v)
        /\ IF loc[t].hm THEN RmDone(t) ELSE Goto(t, "rm", [loc[t] EXCEPT !.vw = Null, !.hm = TRUE])
    BY DEF RmId, Step, Same, Stay
  <1>2. /\ dir \in DirType /\ DirTrue(dir, Inserting, Describing, Unexporting)
        /\ OpAt(pc[t], loc[t]) /\ Knows(dir, pc[t], loc[t]) /\ loc[t] \in LocType
    BY Known
  <1>3. v \in Views /\ v = loc[t].vw  BY <1>1, HeldNow DEF Within
  <1>4. (\A i \in Slots : ~At(dir, i, v)) /\ dir.vw[v].ex = Null /\ loc[t].op \in Admin  BY <1>1, <1>2 DEF Knows, OpAt, Admin
  <1>5. PICK p, l : Goto(t, p, l) /\ (p # "idle" => l.op = loc[t].op /\ OpAt(p, l) /\ p \notin Knowing)
    <2>1. CASE loc[t].hm  BY <1>1, <1>2, <2>1, RmDoneMoves
    <2>2. CASE ~loc[t].hm
      <3>. DEFINE p == "rm"  l == [loc[t] EXCEPT !.vw = Null, !.hm = TRUE]
      <3>1. Goto(t, p, l) /\ p = "rm"  BY <1>1, <2>2
      <3>2. l.op = loc[t].op /\ l.ex = loc[t].ex  BY <1>2 DEF LocType
      <3>. HIDE DEF p, l
      <3>3. OpAt(p, l) /\ p \notin Knowing  BY <1>1, <1>2, <3>1, <3>2 DEF OpAt, Knowing
      <3>. QED  BY <3>1, <3>2, <3>3
    <2>. QED  BY <2>1, <2>2
  <1>6. dir.vw[v] \in ViewType  BY <1>2, <1>3 DEF DirType
  <1>. HIDE DEF v
  <1>7. /\ w \in ViewType /\ w.cnt = dir.vw[v].cnt /\ w.mn = dir.vw[v].mn /\ w.tag = dir.vw[v].tag
        /\ w.ex = dir.vw[v].ex /\ w.hm = dir.vw[v].hm
    BY <1>6 DEF ViewType
  <1>. HIDE DEF w
  <1>8. w.hm => dir.vw[v].tag.hm  BY <1>2, <1>3, <1>7 DEF DirTrue, HmTrue
  <1>9. dir' = Rele([dir EXCEPT !.vw[v] = w], v)  BY <1>1
  <1>. HIDE DEF d
  <1>. QED  BY <1>1, <1>3, <1>4, <1>5, <1>7, <1>8, <1>9, RecordAgrees

\* While t runs a command, a step of it changes what history mode views have nothing to do with.
LEMMA CommandAgrees ==
  ASSUME ViewsInv, ViewsInv', NamesAgree, work' = work, fhs' = fhs, NEW t \in Threads, NEW p, NEW l, Goto(t, p, l),
         loc[t].op \in Admin, NEW d \in DirType, Alike(d, dir'), DirTrue(d, Inserting', Describing', Unexporting'),
         p # "idle" => l.op = loc[t].op /\ OpAt(p, l) /\ Knows(d, p, l),
         \A i \in Slots, x \in Views : At(d, i, x) => At(dir, i, x),
         \A x \in Views : d.vw[x].tag = dir.vw[x].tag
  PROVE  NamesAgree'
  <1>1. ASSUME NEW u \in Threads \ {t} PROVE Knows(d, pc[u], loc[u])
    <2>1. Knows(dir, pc[u], loc[u]) /\ u # t  BY Known
    <2>2. pc[u] \in Knowing => pc[u] \in {"hmid", "hmfill"}  BY <2>1, NoOther
    <2>3. pc[u] \in Knowing => loc[u].vw \in Views
      <3>1. pc[u] \in Knowing => pc[u] \in Within \cup After  BY DEF Knowing, Within, After
      <3>. QED  BY <3>1, HeldNow
    <2>4. pc[u] \in Knowing => /\ d.vw[loc[u].vw].tag = dir.vw[loc[u].vw].tag
                               /\ \A i \in Slots : At(d, i, loc[u].vw) => At(dir, i, loc[u].vw)
      BY <2>3
    <2>. QED  BY <2>1, <2>2, <2>4, KnowsHm
  <1>. QED  BY <1>1, Proceeded

LEMMA RmRemoveAgrees ==
  ASSUME ViewsInv, ViewsInv', NamesAgree, NEW t \in Threads, RmRemove(t) PROVE NamesAgree'
  <1>. DEFINE nm == Name(loc[t].tag, loc[t].hm)  S == SlotOf(dir, nm)  i == Least(S)  v == VwAt(dir, i)
              l == [loc[t] EXCEPT !.vw = v]  p == IF loc[t].hm THEN "rmflush" ELSE "rmexp"  d == RamdirRemove(dir, i)
  <1>1. /\ pc[t] = "rm" /\ work' = work /\ fhs' = fhs
        /\ (S = {} /\ RmDone(t) /\ dir' = dir) \/ (S # {} /\ dir' = d /\ Goto(t, p, l))
    BY DEF RmRemove, Step, Same, Stay
  <1>2. /\ work \in Workloads /\ dir \in DirType /\ DirTrue(dir, Inserting, Describing, Unexporting)
        /\ OpAt(pc[t], loc[t]) /\ loc[t] \in LocType
    BY Known
  <1>3. loc[t].op \in {"rm", "rmall"} /\ loc[t].op \in Admin  BY <1>1, <1>2 DEF OpAt, Admin
  <1>4. CASE RmDone(t) /\ dir' = dir
    <2>1. PICK q, k : Goto(t, q, k) /\ (q # "idle" => k.op = loc[t].op /\ OpAt(q, k) /\ q \notin Knowing)
      BY <1>2, <1>4, RmDoneMoves
    <2>2. q # "idle" => k.op = loc[t].op /\ OpAt(q, k) /\ Knows(dir, q, k)  BY <2>1, Unknown
    <2>. QED  BY <1>1, <1>4, <2>1, <2>2, AlikeSelf, Passed
  <1>5. CASE S # {} /\ dir' = d /\ Goto(t, p, l)
    <2>. HIDE DEF nm
    <2>1. i \in S /\ i \in Present(dir)  BY <1>2, <1>5, SlotIn
    <2>2. dir.slot[i].nm = nm /\ i \in Slots /\ dir.slot[i] # Null /\ v = dir.slot[i].vw
      BY <2>1 DEF SlotOf, Present, VwAt
    <2>3. nm.hm = loc[t].hm  BY DEF nm, Name
    <2>4. p = (IF loc[t].hm THEN "rmflush" ELSE "rmexp") /\ (p \in {"rmflush", "rmexp"})  OBVIOUS
    <2>. HIDE DEF p, S, i, d
    <2>5. /\ v \in Views /\ d \in DirType /\ d.vw = dir.vw /\ d.exp = dir.exp /\ d.slot = [dir.slot EXCEPT ![i] = Null]
      BY <1>2, <2>1, RemoveIn DEF d
    <2>. HIDE DEF v
    <2>6. l.vw = v /\ l.op = loc[t].op /\ l.ex = loc[t].ex /\ l.fh = loc[t].fh  BY <1>2, <2>5 DEF LocType
    <2>. HIDE DEF l
    <2>7. Steady({t}) /\ pc'[t] = p /\ loc'[t] = l  BY <1>5, <2>4, Stepped
    <2>. DEFINE I == Inserting  D == Describing  U == Unexporting  J == Inserting'  F == Describing'  W == Unexporting'
    <2>8. I \subseteq J /\ D \subseteq F /\ U \subseteq W /\ (p = "rmexp" => v \in W)
      <3>1. I \subseteq J /\ D \subseteq F /\ U \subseteq W  BY <1>1, <2>7, SetsKeep
      <3>2. p = "rmexp" => v \in W  BY <2>6, <2>7 DEF Unexporting
      <3>. QED  BY <3>1, <3>2
    <2>9. DirTrue(dir, I, D, U)  BY <1>2
    <2>. HIDE DEF I, D, U, J, F, W
    <2>10. dir.vw[v].tag = nm  BY <2>2, <2>9 DEF DirTrue, SlotTrue
    <2>11. loc[t].hm => dir.vw[v].ex = Null  BY <2>3, <2>5, <2>9, <2>10 DEF DirTrue, ExTrue
    <2>12. DirTrue(d, I, D, W)
      <3>1. dir.vw[dir.slot[i].vw].ex # Null => dir.slot[i].vw \in W  BY <2>2, <2>4, <2>8, <2>11
      <3>2. U \subseteq W  BY <2>8
      <3>. QED  BY <1>2, <2>2, <2>5, <2>9, <3>1, <3>2, DirRemove
    <2>13. DirTrue(d, J, F, W)
      <3>1. I \subseteq J /\ D \subseteq F /\ W \subseteq W  BY <2>8
      <3>. QED  BY <2>12, <3>1, DirMore
    <2>14. DirTrue(d, Inserting', Describing', Unexporting')  BY <2>13 DEF J, F, W
    <2>15. d.slot[i] = Null /\ \A j \in Slots : j # i => d.slot[j] = dir.slot[j]  BY <1>2, <2>2, <2>5 DEF DirType
    <2>16. \A j \in Slots, x \in Views : At(d, j, x) => At(dir, j, x)  BY <2>15 DEF At
    <2>17. \A j \in Slots : ~At(d, j, v)  BY <2>2, <2>9, <2>15 DEF At, DirTrue, SlotTrue
    <2>18. OpAt(p, l) /\ Knows(d, p, l)
      <3>1. OpAt(p, l)  BY <1>2, <1>3, <2>4, <2>6 DEF OpAt
      <3>2. p = "rmflush" => d.vw[l.vw].ex = Null  BY <2>4, <2>5, <2>6, <2>11
      <3>. QED  BY <2>4, <2>6, <2>17, <3>1, <3>2 DEF Knows
    <2>19. Alike(d, dir') /\ Goto(t, p, l)  BY <1>5, AlikeSelf
    <2>20. \A x \in Views : d.vw[x].tag = dir.vw[x].tag  BY <2>5
    <2>. QED  BY <1>1, <1>3, <2>5, <2>6, <2>14, <2>16, <2>18, <2>19, <2>20, CommandAgrees
  <1>. QED  BY <1>1, <1>4, <1>5

LEMMA RmUnexportAgrees ==
  ASSUME ViewsInv, ViewsInv', NamesAgree, NEW t \in Threads, RmUnexport(t) PROVE NamesAgree'
  <1>. DEFINE v == loc[t].vw  d == Unexport(dir, v)  p == "rmflush"  k == loc[t]
  <1>1. /\ pc[t] = "rmexp" /\ work' = work /\ fhs' = fhs /\ dir' = d /\ Goto(t, p, k) /\ p = "rmflush" /\ k = loc[t]
    BY DEF RmUnexport, Step, Same, Stay
  <1>2. /\ work \in Workloads /\ dir \in DirType /\ DirTrue(dir, Inserting, Describing, Unexporting)
        /\ OpAt(pc[t], loc[t]) /\ Knows(dir, pc[t], loc[t])
    BY Known
  <1>3. v \in Views /\ v = loc[t].vw  BY <1>1, HeldNow DEF Within
  <1>. HIDE DEF v, p, k
  <1>4. d \in DirType  BY <1>2, <1>3, UnexportIn
  <1>5. d.slot = dir.slot /\ d.vw[v].ex = Null /\ \A x \in Views : d.vw[x].tag = dir.vw[x].tag
    BY <1>2, <1>3, UnexportIs
  <1>6. Steady({t})  BY <1>1, Stepped
  <1>. DEFINE I == Inserting  D == Describing  U == Unexporting  J == Inserting'  F == Describing'  W == Unexporting'
  <1>7. I \subseteq J /\ D \subseteq F /\ \A x \in U : x # v => x \in W  BY <1>1, <1>3, <1>6, SetsKeep
  <1>8. DirTrue(dir, I, D, U)  BY <1>2
  <1>. HIDE DEF I, D, U, J, F, W
  <1>9. DirTrue(d, I, D, W)  BY <1>2, <1>3, <1>7, <1>8, DirUnexport
  <1>10. DirTrue(d, J, F, W)
    <2>1. I \subseteq J /\ D \subseteq F /\ W \subseteq W  BY <1>7
    <2>. QED  BY <1>9, <2>1, DirMore
  <1>11. DirTrue(d, Inserting', Describing', Unexporting')  BY <1>10 DEF J, F, W
  <1>12. \A i \in Slots : ~At(dir, i, v)  BY <1>1, <1>2, <1>3 DEF Knows
  <1>. HIDE DEF d
  <1>13. \A i \in Slots, x \in Views : At(d, i, x) => At(dir, i, x)  BY <1>5 DEF At
  <1>14. k.op = loc[t].op /\ OpAt(p, k) /\ Knows(d, p, k) /\ loc[t].op \in Admin
    <2>1. k.vw = v  BY <1>1, <1>3
    <2>2. loc[t].op \in {"rm", "rmall"}  BY <1>1, <1>2 DEF OpAt
    <2>3. \A i \in Slots : ~At(d, i, v)  BY <1>3, <1>12, <1>13
    <2>. QED  BY <1>1, <1>2, <1>5, <2>1, <2>2, <2>3 DEF OpAt, Knows, Admin
  <1>15. Alike(d, dir')  BY <1>1, AlikeSelf
  <1>. QED  BY <1>1, <1>4, <1>5, <1>11, <1>13, <1>14, <1>15, CommandAgrees

\* mvfs_exportviewtag and mvfs_unexportviewtag after the lookup.
LEMMA ExportAgrees ==
  ASSUME ViewsInv, ViewsInv', NamesAgree, NEW t \in Threads, Export(t) \/ UnexportTag(t) PROVE NamesAgree'
  <1>. DEFINE v == loc[t].vw  n == loc[t].ex  d == IF pc[t] = "export" THEN Exported(dir, v, n) ELSE Unexport(dir, v)
              p == "idle"  k == NoLoc
  <1>1. /\ pc[t] \in {"export", "unexport"} /\ work' = work /\ fhs' = fhs /\ dir' = Rele(d, v) /\ Goto(t, p, k) /\ p = "idle"
    <2>1. CASE Export(t)
      <3>1. pc[t] = "export" /\ work' = work /\ fhs' = fhs /\ dir' = Rele(Exported(dir, v, n), v) /\ Goto(t, p, k)
        BY <2>1 DEF Export, Step, Same, Stay, Return
      <3>2. d = Exported(dir, v, n)  BY <3>1
      <3>. HIDE DEF d, v, n
      <3>. QED  BY <3>1, <3>2
    <2>2. CASE UnexportTag(t)
      <3>1. pc[t] = "unexport" /\ work' = work /\ fhs' = fhs /\ dir' = Rele(Unexport(dir, v), v) /\ Goto(t, p, k)
        BY <2>2 DEF UnexportTag, Step, Same, Stay, Return
      <3>2. d = Unexport(dir, v)  BY <3>1
      <3>. HIDE DEF d, v, n
      <3>. QED  BY <3>1, <3>2
    <2>. QED  BY <2>1, <2>2
  <1>2. /\ work \in Workloads /\ dir \in DirType /\ DirTrue(dir, Inserting, Describing, Unexporting) /\ dir' \in DirType
        /\ OpAt(pc[t], loc[t]) /\ Knows(dir, pc[t], loc[t]) /\ loc[t] \in LocType /\ ThreadAt(pc[t], loc[t], proc[t])
    BY <1>1, Known, HeldThen
  <1>3. v \in Views /\ n \in Nat  BY <1>1, <1>2, HeldNow DEF Within, LocType
  <1>4. /\ Placed(dir, v) /\ ~dir.vw[v].tag.hm /\ loc[t].op \in {"export", "unexport"} /\ loc[t].op = pc[t]
        /\ (pc[t] = "export" => n # 0)
    BY <1>1, <1>2 DEF Knows, OpAt, ThreadAt
  <1>5. loc[t].op \in Admin  BY <1>4 DEF Admin
  <1>6. Steady({t})  BY <1>1, Stepped
  <1>. DEFINE I == Inserting  D == Describing  U == Unexporting  J == Inserting'  F == Describing'  W == Unexporting'
  <1>7. I \subseteq J /\ D \subseteq F /\ U \subseteq W  BY <1>1, <1>6, SetsKeep
  <1>8. U = {}
    <2>1. \A u \in Threads : pc[u] # "rmexp"
      <3>1. \A u \in Threads \ {t} : pc[u] \in Knowing => pc[u] \in {"hmid", "hmfill"}  BY <1>5, NoOther
      <3>. QED  BY <1>1, <3>1 DEF Knowing
    <2>. QED  BY <2>1 DEF Unexporting
  <1>9. DirTrue(dir, I, D, U)  BY <1>2
  <1>. HIDE DEF I, D, U, J, F, W, v, n, p, k
  <1>10. /\ d \in DirType /\ d.slot = dir.slot /\ DirTrue(d, I, D, {}) /\ \A x \in Views : d.vw[x].tag = dir.vw[x].tag
    <2>1. DirTrue(dir, I, D, {})  BY <1>8, <1>9
    <2>2. CASE pc[t] = "export"
      <3>. DEFINE e == Exported(dir, v, n)
      <3>1. d = e  BY <2>2
      <3>2. e \in DirType  BY <1>2, <1>3, ExportedIn
      <3>3. /\ DirTrue(e, I, D, {}) /\ e.slot = dir.slot
            /\ \A x \in Views : e.vw[x].tag = dir.vw[x].tag
        BY <1>2, <1>3, <1>4, <2>1, <2>2, DirExport
      <3>. HIDE DEF e
      <3>. QED  BY <3>1, <3>2, <3>3
    <2>3. CASE pc[t] # "export"
      <3>. DEFINE e == Unexport(dir, v)
      <3>1. d = e  BY <2>3
      <3>2. e \in DirType /\ e.slot = dir.slot  BY <1>2, <1>3, UnexportIn
      <3>3. \A x \in Views : e.vw[x].tag = dir.vw[x].tag  BY <1>2, <1>3, UnexportIs
      <3>4. \A x \in {} : x # v => x \in {}  OBVIOUS
      <3>5. DirTrue(e, I, D, {})  BY <1>2, <1>3, <2>1, <3>4, DirUnexport
      <3>. HIDE DEF e
      <3>. QED  BY <3>1, <3>2, <3>3, <3>5
    <2>. QED  BY <2>2, <2>3
  <1>. HIDE DEF d
  <1>11. DirTrue(d, J, F, W)
    <2>1. I \subseteq J /\ D \subseteq F /\ {} \subseteq W  BY <1>7
    <2>. QED  BY <1>10, <2>1, DirMore
  <1>12. DirTrue(d, Inserting', Describing', Unexporting')  BY <1>11 DEF J, F, W
  <1>13. \A i \in Slots, x \in Views : At(d, i, x) => At(dir, i, x)  BY <1>10 DEF At
  <1>14. Alike(d, dir')  BY <1>1, <1>2, <1>3, <1>10, AlikeSelf, ReleAlike
  <1>. QED  BY <1>1, <1>5, <1>10, <1>12, <1>13, <1>14, CommandAgrees

-----------------------------------------------------------------------------
(* The sync, mounts, and the initial states.                                *)

\* A history mode view that nobody uses goes, with its slot.
LEMMA CleanHmAgrees ==
  ASSUME ViewsInv, ViewsInv', NamesAgree, CleanHm PROVE NamesAgree'
  <1>1. PICK i \in Present(dir) :
          LET v == VwAt(dir, i)
              d == FlushVw(dir, v)
          IN  /\ dir.vw[v].hm /\ dir' = IF d.vw[v].cnt = 1 THEN Rele(RamdirRemove(d, i), v) ELSE d
              /\ UNCHANGED <<work, pc, loc, fhs>>
    BY DEF CleanHm
  <1>. DEFINE v == VwAt(dir, i)  d == FlushVw(dir, v)  f == RamdirRemove(d, i)  e == RamdirRemove(dir, i)
              g == [f EXCEPT !.vw[v] = NoView]
  <1>2. /\ work' = work /\ fhs' = fhs /\ UNCHANGED <<pc, loc>> /\ dir.vw[v].hm
        /\ dir' = IF d.vw[v].cnt = 1 THEN Rele(f, v) ELSE d
    BY <1>1
  <1>3. /\ work \in Workloads /\ dir \in DirType /\ DirTrue(dir, Inserting, Describing, Unexporting)
        /\ \A x \in Views : Spare(dir, x) >= 0
    BY HeldNow, SpareNat DEF NamesAgree
  <1>4. v \in Views /\ i \in Slots /\ dir.slot[i] # Null /\ dir.slot[i].vw = v
    BY <1>3 DEF Present, VwAt, DirType, Entries
  <1>5. v = VwAt(dir, i)  OBVIOUS
  <1>. HIDE DEF v
  <1>6. Alike(dir, d)  BY <1>3, <1>4, FlushVwAlike
  <1>7. d \in DirType /\ d.slot = dir.slot  BY <1>3, <1>4, FlushVwIn
  <1>8. \A x \in Views : x # v => d.vw[x] = dir.vw[x]
    <2>. DEFINE w == Flushed(dir.vw[v], Vobs)
    <2>1. d = [dir EXCEPT !.vw[v] = w]  BY DEF FlushVw
    <2>. HIDE DEF w, d
    <2>. QED  BY <1>3, <2>1 DEF DirType
  <1>. HIDE DEF d
  <1>9. CASE d.vw[v].cnt # 1
    <2>1. dir' = d  BY <1>2, <1>9
    <2>. QED  BY <1>2, <1>6, <2>1, StoodAlike
  <1>10. CASE d.vw[v].cnt = 1
    <2>1. e \in DirType /\ e.vw = dir.vw /\ e.exp = dir.exp /\ e.slot = [dir.slot EXCEPT ![i] = Null]
      BY <1>1, <1>3, RemoveIn
    <2>2. f.vw = d.vw /\ f.exp = d.exp /\ f.slot = [d.slot EXCEPT ![i] = Null] /\ f \in DirType
      <3>1. i \in Present(d)  BY <1>1, <1>7 DEF Present
      <3>. QED  BY <1>3, <1>7, <3>1, RemoveIn
    <2>. HIDE DEF e, f
    <2>3. dir' = g  BY <1>2, <1>10, <2>2 DEF Rele
    <2>4. g.slot = f.slot /\ g.exp = f.exp /\ g.vw[v] = NoView /\ \A x \in Views : x # v => g.vw[x] = f.vw[x]
      BY <1>4, <2>2 DEF DirType
    <2>. HIDE DEF g
    <2>5. Alike(e, dir')
      <3>1. dir'.slot = e.slot /\ dir'.exp = e.exp
        <4>1. d.exp = dir.exp  BY <1>6 DEF Alike
        <4>. QED  BY <1>7, <2>1, <2>2, <2>3, <2>4, <4>1
      <3>2. \A x \in Views : x # v => dir'.vw[x] = e.vw[x]  BY <1>8, <2>1, <2>2, <2>3, <2>4
      <3>3. dir'.vw[v] = NoView  BY <2>3, <2>4
      <3>. QED  BY <3>1, <3>2, <3>3, NoViewAlike DEF Alike, Like
    <2>6. dir.vw[v].ex = Null  BY <1>2, <1>3, <1>4 DEF DirTrue, HmTrue, ExTrue
    <2>. DEFINE I == Inserting  D == Describing  U == Unexporting
    <2>7. DirTrue(dir, I, D, U)  BY <1>3
    <2>. HIDE DEF I, D, U
    <2>8. DirTrue(e, I, D, U)
      <3>1. U \subseteq U /\ (dir.vw[dir.slot[i].vw].ex # Null => dir.slot[i].vw \in U)  BY <1>4, <2>6
      <3>. QED  BY <1>3, <1>4, <2>1, <2>7, <3>1, DirRemove
    <2>9. DirTrue(e, Inserting, Describing, Unexporting)  BY <2>8 DEF I, D, U
    <2>10. ASSUME NEW u \in Threads PROVE Knows(e, pc[u], loc[u])
      <3>1. Knows(dir, pc[u], loc[u])  BY Known
      <3>2. CASE pc[u] \notin Knowing  BY <3>2, Unknown
      <3>3. CASE pc[u] \in Knowing
        <4>1. pc[u] \in Within \cup After  BY <3>3 DEF Knowing, Within, After
        <4>2. loc[u].vw # v
          <5>1. pc'[u] = pc[u] /\ loc'[u] = loc[u]  BY <1>2
          <5>2. dir'.vw[loc[u].vw].cnt # 0  BY <1>2, <4>1, <5>1, HeldThen
          <5>3. dir'.vw[v].cnt = 0  BY <2>3, <2>4, NoViewAlike
          <5>. QED  BY <5>2, <5>3
        <4>3. \A j \in Slots : At(e, j, loc[u].vw) = At(dir, j, loc[u].vw)
          <5>1. e.slot[i] = Null /\ \A j \in Slots : j # i => e.slot[j] = dir.slot[j]  BY <1>3, <1>4, <2>1 DEF DirType
          <5>. QED  BY <1>4, <4>2, <5>1 DEF At
        <4>. QED  BY <2>1, <3>1, <4>3, KnowsMore
      <3>. QED  BY <3>2, <3>3
    <2>. QED  BY <1>2, <2>1, <2>5, <2>9, <2>10, Stood
  <1>. QED  BY <1>9, <1>10

\* Nothing is in a directory without views.
LEMMA EmptyTrue ==
  ASSUME work \in Workloads, NEW I, NEW D, NEW U
  PROVE  DirTrue(Empty, I, D, U)
  <1>1. (\A v \in Views : Empty.vw[v].ex = Null /\ Empty.vw[v].hm = FALSE)
    <2>1. NoView.ex = Null /\ NoView.hm = FALSE  BY DEF NoView
    <2>2. \A v \in Views : Empty.vw[v] = NoView  BY EmptyIn
    <2>. QED  BY <2>1, <2>2
  <1>2. \A i \in Slots : Empty.slot[i] = Null  BY DEF Empty
  <1>3. DOMAIN Empty.exp = {}  BY DEF Empty
  <1>. QED  BY <1>1, <1>2, <1>3 DEF DirTrue, SlotTrue, IdTrue, HmTrue, ExTrue

LEMMA UnmountAgrees ==
  ASSUME ViewsInv, ViewsInv', NamesAgree, UnmountVob \/ UnmountRoot PROVE NamesAgree'
  <1>1. work \in Workloads /\ dir \in DirType /\ \A x \in Views : Spare(dir, x) >= 0  BY HeldNow, SpareNat
  <1>2. CASE UnmountVob
    <2>1. PICK m \in Vobs : dir' = FlushMounts(dir, {m}) /\ UNCHANGED <<work, pc, loc, fhs>>  BY <1>2 DEF UnmountVob
    <2>. DEFINE M == {m}
    <2>2. dir' = FlushMounts(dir, M)  BY <2>1
    <2>. HIDE DEF M
    <2>3. Alike(dir, dir')  BY <1>1, <2>2, FlushMountsAlike
    <2>. QED  BY <2>1, <2>3, StoodAlike
  <1>3. CASE UnmountRoot
    <2>. DEFINE d == FlushMounts(dir, Vobs)
    <2>1. /\ UNCHANGED <<work, pc, loc, fhs>> /\ \A t \in Threads : pc[t] = "idle"
          /\ IF ViewsBusy(d) THEN dir' = d
             ELSE dir' = [d EXCEPT !.slot = [i \in Slots |-> Null], !.vw = [v \in Views |-> NoView], !.exp = << >>]
      BY <1>3 DEF UnmountRoot, Quiet
    <2>2. d \in DirType  BY <1>1, FlushMountsIn
    <2>3. Alike(dir, d)  BY <1>1, FlushMountsAlike
    <2>. HIDE DEF d
    <2>4. CASE ViewsBusy(d)
      <3>1. dir' = d  BY <2>1, <2>4
      <3>. QED  BY <2>1, <2>3, <3>1, StoodAlike
    <2>5. CASE ~ViewsBusy(d)
      <3>1. dir' = [d EXCEPT !.slot = [i \in Slots |-> Null], !.vw = [v \in Views |-> NoView], !.exp = << >>]
        BY <2>1, <2>5
      <3>2. dir' = Empty  BY <2>2, <3>1 DEF DirType, Empty
      <3>. DEFINE e == Empty
      <3>3. e \in DirType /\ DirTrue(e, Inserting, Describing, Unexporting)
        <4>1. e \in DirType  BY <1>1, EmptyIn
        <4>. DEFINE I == Inserting  D == Describing  U == Unexporting
        <4>. HIDE DEF I, D, U
        <4>2. DirTrue(Empty, I, D, U)  BY <1>1, EmptyTrue
        <4>. QED  BY <4>1, <4>2 DEF I, D, U
      <3>4. dir' = e  BY <3>2
      <3>. HIDE DEF e
      <3>5. \A u \in Threads : Knows(e, pc[u], loc[u])  BY <2>1, Unknown DEF Knowing
      <3>6. Alike(e, dir')  BY <3>4, AlikeSelf
      <3>. QED  BY <2>1, <3>3, <3>5, <3>6, Stood
    <2>. QED  BY <2>4, <2>5
  <1>. QED  BY <1>2, <1>3

LEMMA NoDirAgrees ==
  ASSUME ViewsInv, ViewsInv', NamesAgree, UNCHANGED <<work, dir, pc, loc, fhs>> PROVE NamesAgree'
  BY AlikeSelf, StoodAlike

\* What follows from the counts: a view that processes or threads are in has one.
LEMMA OneExportedTrue ==
  ASSUME work \in Workloads, work.exported,
         \A i \in Slots : OneExported.slot[i] # Null => OneExported.vw[OneExported.slot[i].vw].cnt # 0
  PROVE  DirTrue(OneExported, {}, {}, {})
  <1>. DEFINE v == InVob.vw  m == InVob.vob  g == FirstOf(Tags)  u == FirstOf(Uuids)  nm == Name(g, FALSE)
              n == 1  b == TRUE  S == {}
              d0 == MakeView(Empty, v, nm)  r == [NoView EXCEPT !.cnt = 1, !.tag = nm]  i == FreeSlot(d0)
              d1 == RamdirAdd(d0, nm, v)
              w == [d1.vw[v] EXCEPT !.id = n, !.ex = Null, !.uuid = u, !.full = b]
              d2 == [d1 EXCEPT !.vw[v] = w]  d3 == Exported(d2, v, n)  d4 == Rele(d3, v)
              d5 == Activate(d4, v, m)
  <1>1. /\ Views # {} /\ Vobs # {} /\ Tags # {} /\ Uuids # {} /\ work.slots \in Nat /\ work.slots # 0
    <2>1. /\ work.slots \in Nat
          /\ (work.exported => {} \notin {Threads, Views, Vobs, Tags, Uuids} /\ work.slots # 0)
      BY ViewsAssumption DEF ViewsAssumption
    <2>. QED  BY <2>1
  <1>2. v \in Views /\ m \in Vobs /\ g \in Tags /\ u \in Uuids  BY <1>1, First DEF InVob
  <1>3. nm \in Nms /\ n \in Nat /\ b \in BOOLEAN /\ nm.hm = FALSE /\ n = 1 /\ b = TRUE  BY <1>2 DEF Name, Nms
  <1>4. OneExported = Activate(Rele(Exported([SetId(d1, v, n) EXCEPT !.vw[v].uuid = u, !.vw[v].full = b], v, n), v), v, m)
    BY DEF OneExported
  <1>. HIDE DEF v, m, g, u, nm, n, b
  <1>5. /\ Empty \in DirType /\ \A x \in Views : Spare(Empty, x) = 0 /\ Empty.vw[x] = NoView
        /\ Present(Empty) = {}
    BY EmptyIn
  <1>6. DirTrue(Empty, S, S, S)  BY EmptyTrue
  <1>7. r.tag = nm /\ r.ex = Null /\ r.hm = FALSE /\ r.cnt = 1  BY DEF NoView
  <1>8. /\ d0 \in DirType /\ d0.slot = Empty.slot /\ d0.exp = Empty.exp /\ d0.vw[v] = r
        /\ \A x \in Views : x # v => d0.vw[x] = Empty.vw[x]
        /\ Spare(d0, v) = 1
    <2>. DEFINE e == Empty
    <2>1. e \in DirType /\ e.vw[v].cnt = 0 /\ Spare(e, v) >= 0  BY <1>2, <1>5, NoViewIn
    <2>. HIDE DEF e
    <2>2. LET f == MakeView(e, v, nm)
          IN  /\ f \in DirType /\ f.slot = e.slot /\ f.exp = e.exp /\ Kept(e, f)
              /\ \A x \in Views : Spare(f, x) = Spare(e, x) + One(x = v)
              /\ f.vw[v].id = 0 /\ f.vw[v].ex = Null /\ \A x \in Views : x # v => f.vw[x] = e.vw[x]
      BY <1>2, <1>3, <2>1, MakeIn
    <2>3. MakeView(e, v, nm) = [e EXCEPT !.vw[v] = r]  BY DEF MakeView
    <2>. HIDE DEF r
    <2>4. MakeView(e, v, nm).vw[v] = r  BY <1>2, <2>1, <2>3 DEF DirType
    <2>5. Spare(e, v) = 0  BY <1>2, <1>5 DEF e
    <2>. QED  BY <1>2, <2>2, <2>4, <2>5 DEF e, One
  <1>. HIDE DEF d0, r
  <1>9. \A j \in Slots : Empty.slot[j] = Null  BY DEF Empty
  <1>10. 1 \in Slots /\ i = 1
    <2>1. 1 \in Slots /\ Slots \subseteq Nat /\ \A j \in Slots : 1 <= j  BY <1>1 DEF Slots
    <2>2. {j \in Slots : d0.slot[j] = Null} = Slots  BY <1>8, <1>9
    <2>3. i = Least(Slots)  BY <2>2 DEF FreeSlot
    <2>4. Least(Slots) \in Slots /\ \A j \in Slots : Least(Slots) <= j  BY <2>1 DEF Least
    <2>. DEFINE k == Least(Slots)
    <2>5. k \in Nat /\ k <= 1 /\ 1 <= k  BY <2>1, <2>4
    <2>6. i = k  BY <2>3
    <2>. HIDE DEF i, k
    <2>. QED  BY <2>1, <2>5, <2>6
  <1>11. Present(d0) # Slots  BY <1>8, <1>9, <1>10 DEF Present
  <1>12. /\ d1 \in DirType /\ d1.exp = d0.exp /\ d1.slot = [d0.slot EXCEPT ![i] = [nm |-> nm, vw |-> v]]
         /\ \A x \in Views : Like(d0.vw[x], d1.vw[x]) /\ (x # v => d1.vw[x] = d0.vw[x])
         /\ Spare(d1, v) = 1
    <2>1. \A x \in Views : Spare(d1, x) = Spare(d0, x) /\ d1.vw[x].mn = d0.vw[x].mn
      BY <1>2, <1>3, <1>8, <1>11, AddIn
    <2>2. /\ d1 \in DirType /\ d1.exp = d0.exp /\ d1.slot = [d0.slot EXCEPT ![i] = [nm |-> nm, vw |-> v]]
          /\ \A x \in Views : Like(d0.vw[x], d1.vw[x]) /\ (x # v => d1.vw[x] = d0.vw[x])
      BY <1>2, <1>3, <1>8, <1>11, RamdirAddIs
    <2>. QED  BY <1>2, <1>8, <2>1, <2>2
  <1>. HIDE DEF d1, i
  <1>. DEFINE J == {<<v, n>>}  F == {v}
  <1>13. DirTrue(d1, J, F, S)
    <2>. DEFINE e == Empty
    <2>1. /\ e \in DirType /\ DirTrue(e, S, S, S) /\ e.slot[i] = Null /\ i \in Slots /\ e.vw[v].ex = Null
          /\ \A j \in Slots : ~At(e, j, v)
      <3>1. NoView.ex = Null  BY DEF NoView
      <3>. QED  BY <1>2, <1>5, <1>6, <1>9, <1>10, <3>1 DEF At
    <2>2. d1.slot = [e.slot EXCEPT ![i] = [nm |-> nm, vw |-> v]] /\ d1.exp = e.exp  BY <1>8, <1>12
    <2>3. d1.vw[v].tag = nm /\ d1.vw[v].ex = Null /\ (d1.vw[v].hm => nm.hm)  BY <1>2, <1>7, <1>8, <1>12 DEF Like
    <2>4. \A x \in Views : x # v => Like(e.vw[x], d1.vw[x])  BY <1>8, <1>12 DEF Like
    <2>5. S \subseteq J /\ <<v, i>> \in J /\ S \subseteq F /\ v \in F  BY <1>3, <1>10
    <2>. HIDE DEF e, J, F, S
    <2>. QED  BY <1>2, <1>3, <1>10, <1>12, <2>1, <2>2, <2>3, <2>4, <2>5, DirAdd
  <1>14. /\ d1.slot[n] # Null /\ d1.slot[n].vw = v /\ \A j \in Slots : j # n => d1.slot[j] = Null
    <2>1. [nm |-> nm, vw |-> v] \in Entries  BY <1>2, <1>3 DEF Entries
    <2>2. [nm |-> nm, vw |-> v] # Null  BY <2>1, Consts
    <2>. QED  BY <1>3, <1>8, <1>9, <1>10, <1>12, <2>2 DEF DirType
  <1>15. d1.vw[v] \in ViewType  BY <1>2, <1>12, Parts
  <1>16. /\ w \in ViewType /\ w.cnt = d1.vw[v].cnt /\ w.mn = d1.vw[v].mn /\ w.id = n /\ w.ex = Null /\ w.full = b
         /\ w.tag = d1.vw[v].tag /\ w.hm = d1.vw[v].hm
    BY <1>2, <1>3, <1>15 DEF ViewType
  <1>17. [SetId(d1, v, n) EXCEPT !.vw[v].uuid = u, !.vw[v].full = b] = d2
    <2>. DEFINE r1 == [d1.vw[v] EXCEPT !.id = n]  r2 == [r1 EXCEPT !.ex = Null]  r3 == [r2 EXCEPT !.uuid = u]
                h1 == [d1 EXCEPT !.vw[v] = r1]  h2 == [d1 EXCEPT !.vw[v] = r2]  h3 == [d1 EXCEPT !.vw[v] = r3]
    <2>1. w = [r3 EXCEPT !.full = b]  OBVIOUS
    <2>2. [d1 EXCEPT !.vw[v].id = n] = h1  OBVIOUS
    <2>3. [h1 EXCEPT !.vw[v].ex = Null] = h2  BY <1>2, <1>12 DEF DirType
    <2>4. SetId(d1, v, n) = h2  BY <2>2, <2>3 DEF SetId
    <2>5. [h2 EXCEPT !.vw[v].uuid = u] = h3  BY <1>2, <1>12 DEF DirType
    <2>6. [h3 EXCEPT !.vw[v].full = b] = d2  BY <1>2, <1>12 DEF DirType
    <2>. HIDE DEF d2, h1, h2, h3
    <2>. QED  BY <2>4, <2>5, <2>6
  <1>. HIDE DEF w
  <1>18. /\ d2 \in DirType /\ d2.slot = d1.slot /\ d2.exp = d1.exp /\ d2.vw[v] = w
         /\ \A x \in Views : x # v => d2.vw[x] = d1.vw[x]
         /\ Spare(d2, v) = 1
    <2>1. \A x \in Views : Spare(d2, x) = Spare(d1, x)  BY <1>2, <1>12, <1>16, Noted
    <2>2. /\ d2 \in DirType /\ d2.slot = d1.slot /\ d2.exp = d1.exp /\ d2.vw[v] = w
          /\ \A x \in Views : x # v => d2.vw[x] = d1.vw[x]
      BY <1>2, <1>12, <1>16, Noted
    <2>. HIDE DEF d2
    <2>. QED  BY <1>2, <1>12, <2>1, <2>2
  <1>. HIDE DEF d2
  <1>19. DirTrue(d2, S, S, S)
    <2>1. \A x \in Views : x # v => Like(d1.vw[x], d2.vw[x])  BY <1>18 DEF Like
    <2>2. \A j \in Slots : At(d1, j, v) => (d2.vw[v].id = j \/ <<v, j>> \in S) /\ (d1.slot[j].nm.hm \/ d2.vw[v].full \/ v \in S)
      BY <1>3, <1>14, <1>16, <1>18 DEF At
    <2>3. (\A x, j : x # v /\ <<x, j>> \in J => <<x, j>> \in S) /\ (\A x \in F : x # v => x \in S)
          /\ \A x \in S : x # v => x \in S
      OBVIOUS
    <2>4. /\ d1.vw[v].ex = Null /\ d2.vw[v].ex = Null /\ d2.vw[v].tag = d1.vw[v].tag
          /\ (d2.vw[v].hm => d1.vw[v].tag.hm)
      BY <1>2, <1>7, <1>8, <1>12, <1>16, <1>18 DEF Like
    <2>. HIDE DEF S, J, F
    <2>. QED  BY <1>2, <1>12, <1>13, <1>18, <2>1, <2>2, <2>3, <2>4, DirSet
  <1>20. Placed(d2, v) /\ ~d2.vw[v].tag.hm
    <2>1. n \in Slots  BY <1>3, <1>10
    <2>. QED  BY <1>2, <1>3, <1>7, <1>8, <1>12, <1>14, <1>16, <1>18, <2>1 DEF Placed, At, Like
  <1>21. d3 \in DirType /\ Spare(d3, v) = 1 /\ d3.slot = d2.slot  BY <1>2, <1>3, <1>18, ExportedIn
  <1>22. DirTrue(d3, S, S, S)
    <2>. DEFINE T == {}
    <2>1. DirTrue(d2, S, S, {}) /\ n # 0  BY <1>3, <1>19
    <2>2. S = {}  OBVIOUS
    <2>. HIDE DEF S
    <2>3. DirTrue(d3, S, S, {})  BY <1>2, <1>3, <1>18, <1>20, <2>1, DirExport
    <2>. QED  BY <2>2, <2>3
  <1>. HIDE DEF d3
  <1>23. d4 \in DirType /\ d4.slot = d3.slot /\ Spare(d4, v) = 0 /\ Alike(d3, d4)
    <2>1. d4 \in DirType /\ d4.slot = d3.slot /\ Spare(d4, v) = 0  BY <1>2, <1>21, ReleIn DEF One
    <2>. QED  BY <1>2, <1>21, <2>1, AlikeSelf, ReleAlike
  <1>. HIDE DEF d4
  <1>24. d4.vw[v].cnt # 0
    <2>1. n \in InSlots(d4, v)  BY <1>3, <1>10, <1>14, <1>18, <1>21, <1>23 DEF InSlots
    <2>2. /\ IsFiniteSet(InSlots(d4, v)) /\ Cardinality(InSlots(d4, v)) \in Nat /\ Cardinality(Mnodes(d4.vw[v])) \in Nat
          /\ d4.vw[v].cnt = Spare(d4, v) + Cardinality(InSlots(d4, v)) + Cardinality(Mnodes(d4.vw[v]))
      BY <1>2, <1>23, Parts
    <2>3. Cardinality(InSlots(d4, v)) # 0  BY <2>1, <2>2, FS_EmptySet
    <2>. QED  BY <1>23, <2>2, <2>3
  <1>25. d5 \in DirType /\ Alike(d3, d5)
    <2>1. d5 \in DirType  BY <1>2, <1>23, ActivateIn
    <2>2. Alike(d3, d5)  BY <1>2, <1>21, <1>23, <1>24, ActivateAlike
    <2>. QED  BY <2>1, <2>2
  <1>26. OneExported = d5
    <2>1. OneExported = Activate(Rele(Exported(d2, v, n), v), v, m)  BY <1>4, <1>17
    <2>. QED  BY <2>1 DEF d5, d4, d3
  <1>. HIDE DEF d5
  <1>27. \A j \in Slots : d5.slot[j] # Null => d5.vw[d5.slot[j].vw].cnt # 0  BY <1>26
  <1>28. DirTrue(d5, S, S, S)
    <2>1. \A x \in S : x \in Views => d5.vw[x].cnt # 0  OBVIOUS
    <2>. HIDE DEF S
    <2>. QED  BY <1>21, <1>22, <1>25, <1>27, <2>1, DirAlike
  <1>. QED  BY <1>26, <1>28

LEMMA NamesStart == Init => NamesInv
  <1>. SUFFICES ASSUME Init PROVE NamesAgree
    BY DEF NamesInv
  <1>1. ViewsInv  BY ViewsStart
  <1>2. work \in Workloads /\ dir \in DirType /\ \A i \in Slots : dir.slot[i] # Null => dir.vw[dir.slot[i].vw].cnt # 0
    BY <1>1, HeldNow
  <1>3. /\ dir = (IF work.exported THEN OneExported ELSE Empty) /\ fhs = {}
        /\ \A t \in Threads : pc[t] = "idle" /\ loc[t] = NoLoc
    BY DEF Init
  <1>4. Inserting = {} /\ Describing = {} /\ Unexporting = {}  BY <1>3 DEF Inserting, Describing, Unexporting
  <1>5. DirTrue(dir, {}, {}, {})
    <2>1. CASE work.exported
      <3>1. dir = OneExported  BY <1>3, <2>1
      <3>. QED  BY <1>2, <2>1, <3>1, OneExportedTrue
    <2>2. CASE ~work.exported
      <3>1. dir = Empty  BY <1>3, <2>2
      <3>. QED  BY <1>2, <3>1, EmptyTrue
    <2>. QED  BY <2>1, <2>2
  <1>6. DirTrue(dir, Inserting, Describing, Unexporting)  BY <1>4, <1>5
  <1>7. \A t \in Threads : OpAt(pc[t], loc[t]) /\ Knows(dir, pc[t], loc[t]) /\ loc[t].op \notin Admin
    BY <1>2, <1>3, Idle
  <1>. QED  BY <1>3, <1>6, <1>7 DEF NamesAgree, OneAdmin

LEMMA NamesStep == ViewsInv /\ NamesInv /\ [Next]_vars => NamesInv'
  <1>. SUFFICES ASSUME ViewsInv, NamesInv, [Next]_vars, work'.serial PROVE NamesAgree'
    BY DEF NamesInv
  <1>1. ViewsInv'  BY ViewsStep
  <1>2. work' = work
    <2>1. CASE UNCHANGED vars  BY <2>1 DEF vars
    <2>2. ASSUME NEW t \in Threads, Command(t) \/ Nfs(t) \/ User(t) PROVE work' = work
      <3>1. Command(t) => work' = work
        BY DEF Command, MkStart, MkFound, MkRecover, MkNew, InsertId, MkFill, RmStart, RmRemove, RmUnexport, RmFlush, RmId,
               RmAllStart, RmAllNext, ExportStart, TagLookup, Export, UnexportTag, Begin, Mk, Step, Same
      <3>2. Nfs(t) => work' = work  BY DEF Nfs, MakeHandle, VgetStart, VgetView, VgetNode, Got, Begin, Step, Same
      <3>3. User(t) => work' = work
        BY DEF User, HmStart, HmFind, HmNew, HmFill, LookupStart, LookupDone, SetviewStart, SetProcView, SetHere, ClrView,
               CurView, Up, BindStart, BindGet, BindCheck, BindRoot, Bound, Here, Begin, Step, Same
      <3>. QED  BY <2>2, <3>1, <3>2, <3>3
    <2>3. CASE CleanHm \/ MountAny \/ UnmountVob \/ UnmountRoot \/ UnloadModule
      BY <2>3 DEF CleanHm, MountAny, UnmountVob, UnmountRoot, UnloadModule
    <2>. QED  BY <2>1, <2>2, <2>3 DEF Next
  <1>3. work.serial /\ NamesAgree  BY <1>2 DEF NamesInv
  <1>4. ASSUME NEW t \in Threads, Command(t) PROVE NamesAgree'
    BY <1>1, <1>3, <1>4, StartsAgree, MkFoundAgrees, MkRecoverAgrees, MkNewAgrees, InsertIdAgrees, MkFillAgrees,
       RmRemoveAgrees, RmUnexportAgrees, RmFlushAgrees, RmIdAgrees, RmAllNextAgrees, TagLookupAgrees, ExportAgrees
       DEF Command
  <1>5. ASSUME NEW t \in Threads, Nfs(t) PROVE NamesAgree'
    BY <1>1, <1>3, <1>5, StartsAgree, MakeHandleAgrees, VgetViewAgrees, VgetNodeAgrees, ArrivedAgrees DEF Nfs
  <1>6. ASSUME NEW t \in Threads, User(t) PROVE NamesAgree'
    BY <1>1, <1>3, <1>6, StartsAgree, HmFindAgrees, MkNewAgrees, HmFillAgrees, LookupDoneAgrees, SetProcViewAgrees,
       HereAgrees, BindGetAgrees, BindCheckAgrees, BindRootAgrees, ArrivedAgrees DEF User
  <1>7. CASE MountAny \/ UnloadModule \/ UNCHANGED vars
    <2>1. UNCHANGED <<work, dir, pc, loc, fhs>>  BY <1>7 DEF MountAny, UnloadModule, vars
    <2>. QED  BY <1>1, <1>3, <2>1, NoDirAgrees
  <1>. QED  BY <1>1, <1>3, <1>4, <1>5, <1>6, <1>7, CleanHmAgrees, UnmountAgrees DEF Next

\* The slots of the view directory, the ids of views and the table of exported views agree at every hold of
\* the lock, as far as no command is between two of its steps, and every operation knows of its view what its
\* later steps rely on (mfs_viewdirmkdir, mfs_viewdirrmdir, mvfs_viewdirexport, mvfs_vget_cd).
THEOREM NamesAlwaysAgree == Spec => []NamesInv
  <1>1. Init => ViewsInv /\ NamesInv  BY ViewsStart, NamesStart
  <1>2. ViewsInv /\ NamesInv /\ [Next]_vars => (ViewsInv /\ NamesInv)'  BY ViewsStep, NamesStep
  <1>. QED  BY <1>1, <1>2, PTL DEF Spec

\* A VOB is never bound in a view that had been removed when the operation began and was not brought back
\* since, neither by a lookup nor through an NFS handle (mvfs_rvclookup, mfs_getview, mvfs_vget_cd).
THEOREM StaleIsRefused == Spec => []StaleRefused
  <1>1. ViewsInv /\ NamesInv => StaleRefused
    <2>. SUFFICES ASSUME ViewsInv, NamesInv, NEW t \in Threads, pc[t] \in {"bound", "got"}, work.serial
         PROVE  proc[t].cwd.vw \notin loc[t].dead
      BY DEF StaleRefused
    <2>1. NamesAgree  BY DEF NamesInv
    <2>2. ThreadAt(pc[t], loc[t], proc[t]) /\ Knows(dir, pc[t], loc[t])  BY <2>1 DEF ViewsInv, NamesAgree
    <2>3. proc[t].cwd.vw = loc[t].vw  BY <2>2 DEF ThreadAt, After
    <2>4. loc[t].vw \notin loc[t].dead  BY <2>2 DEF ViewsInv, Knows
    <2>. QED  BY <2>3, <2>4
  <1>. QED  BY <1>1, ViewsAgree, NamesAlwaysAgree, PTL

LEMMA DirIsSound == ViewsInv /\ NamesInv => DirSound
  <1>. SUFFICES ASSUME ViewsInv, NamesAgree, work.serial PROVE DirSound
    BY DEF NamesInv, DirSound
  <1>1. work \in Workloads /\ dir \in DirType /\ DirTrue(dir, Inserting, Describing, Unexporting)
    BY HeldNow DEF NamesAgree
  <1>2. ASSUME NEW v, (\E i : <<v, i>> \in Inserting) \/ v \in Describing \/ v \in Unexporting PROVE Busy(v)
    BY <1>2 DEF Inserting, Describing, Unexporting, Busy
  <1>3. ASSUME NEW i \in Present(dir), ~Busy(VwAt(dir, i))
        PROVE  dir.vw[VwAt(dir, i)].id = i /\ (dir.vw[VwAt(dir, i)].full \/ dir.slot[i].nm.hm)
    BY <1>1, <1>2, <1>3 DEF DirTrue, IdTrue, Present, VwAt
  <1>4. ASSUME NEW v \in Views, dir.vw[v].ex # Null, ~Busy(v)
        PROVE  dir.exp[dir.vw[v].ex] = dir.vw[v].id /\ dir.vw[v].id # 0
    BY <1>1, <1>4 DEF DirTrue, ExTrue
  <1>5. ASSUME NEW e \in DOMAIN dir.exp, dir.exp[e] # Null
        PROVE  \E v \in Views : dir.vw[v].ex = e /\ (Busy(v) \/ dir.slot[dir.exp[e]] # Null)
    <2>1. PICK v \in Views : dir.vw[v].ex = e  BY <1>1, <1>5 DEF DirTrue, ExTrue
    <2>2. e # Null
      <3>1. DOMAIN dir.exp \subseteq Nat  BY <1>1 DEF DirType
      <3>. QED  BY <1>1, <3>1, Consts
    <2>3. dir.exp[e] = dir.vw[v].id /\ (Placed(dir, v) \/ v \in Unexporting)  BY <1>1, <2>1, <2>2 DEF DirTrue, ExTrue
    <2>. QED  BY <1>2, <2>1, <2>3 DEF Placed, At
  <1>6. ASSUME NEW t \in Threads, pc[t] = "got" PROVE dir.vw[proc[t].cwd.vw].uuid = loc[t].fh.uuid
    <2>1. ThreadAt(pc[t], loc[t], proc[t]) /\ Knows(dir, pc[t], loc[t])  BY DEF ViewsInv, NamesAgree
    <2>. QED  BY <1>6, <2>1 DEF ThreadAt, After, Knows
  <1>. QED  BY <1>3, <1>4, <1>5, <1>6 DEF DirSound

-----------------------------------------------------------------------------
(* The mounts.                                                              *)

MntType == [path : Paths \cup {Null}, minor : Minors \cup {-1}, nv : Minors \cup {-1}]
SysType == [state : {"phase1", "complete", "none"}, subs : [SubIds -> Int], count : Nat, gen : Nat,
            minors : SUBSET Minors, mnt : [Vfss -> MntType \cup {Null}], tbl : [Minors -> Vobs \cup {Null}],
            root : Vfss \cup {Null}]
LiveIn(s) == {v \in Vfss : s.mnt[v] # Null}
NumsIn(s, v) == {s.mnt[v].minor, s.mnt[v].nv} \ {-1}
MinorsTrue(s) ==
  /\ \A n \in Minors : n \in s.minors <=> \E v \in LiveIn(s) : n \in NumsIn(s, v)
  /\ \A v, w \in LiveIn(s) : v # w => \A n \in NumsIn(s, v) : n \notin NumsIn(s, w)
TblTrue(s) ==
  /\ \A n \in Minors : s.tbl[n] # Null => s.tbl[n] \in LiveIn(s) /\ s.mnt[s.tbl[n]].minor = n
  /\ \A v \in Vobs : v \in LiveIn(s) => s.mnt[v].minor \in Minors /\ s.tbl[s.mnt[v].minor] = v
UpTrue(s) ==
  /\ s.count = Cardinality(LiveIn(s)) /\ s.root = IF RootVfs \in LiveIn(s) THEN RootVfs ELSE Null
  /\ \A i \in SubIds : s.subs[i] = IF LiveIn(s) = {} THEN 0 ELSE 1
  /\ (s.state = "complete") = (LiveIn(s) # {})
SysTrue(s) == s \in SysType /\ MinorsTrue(s) /\ TblTrue(s) /\ UpTrue(s)

\* What a mount that succeeds, and an unmount, do to the tables.
Joins(s, v, m, e) ==
  /\ e \in SysType /\ m.minor \notin s.minors /\ m.nv \notin s.minors /\ (v \in Vobs => m.minor \in Minors)
  /\ e.mnt = [s.mnt EXCEPT ![v] = m] /\ e.minors = s.minors \cup ({m.minor, m.nv} \ {-1}) /\ e.count = s.count + 1
  /\ e.root = (IF v = RootVfs THEN RootVfs ELSE s.root)
  /\ e.tbl = (IF v \in Vobs THEN [s.tbl EXCEPT ![m.minor] = v] ELSE s.tbl)
  /\ (\A i \in SubIds : e.subs[i] = 1) /\ e.state = "complete"
Departs(s, v, e) ==
  /\ e \in SysType /\ e.mnt = [s.mnt EXCEPT ![v] = Null] /\ e.count = s.count - 1
  /\ e.minors = (IF e.count = 0 THEN {} ELSE s.minors \ {s.mnt[v].minor, s.mnt[v].nv})
  /\ e.root = (IF v = s.root THEN Null ELSE s.root)
  /\ e.tbl = (IF v \in Vobs THEN [s.tbl EXCEPT ![s.mnt[v].minor] = Null] ELSE s.tbl)
  /\ \A i \in SubIds : e.subs[i] = IF e.count = 0 THEN s.subs[i] - 1 ELSE s.subs[i]
  /\ e.state = (IF e.count = 0 THEN "phase1" ELSE s.state)

\* A failing vobmount is freed twice, and a missing .specdev leaves the view root recorded.
FaultsApart == "vobmount" \notin Faults /\ "specdev" \notin Faults

LEMMA MountConsts ==
  ASSUME work \in Workloads
  PROVE  /\ work.minors \in Nat /\ work.minors >= 2 /\ Minors \subseteq Nat /\ -1 \notin Minors /\ Null \notin MntType
         /\ RootVfs \notin Vobs /\ Null \notin Vfss /\ RootVfs \in Vfss /\ Vobs \subseteq Vfss
         /\ work.mounted => Vobs # {} /\ Paths # {}
         /\ \A s : IsFiniteSet(LiveIn(s))
  <1>1. work.minors \in Nat /\ work.minors >= 2 /\ (work.mounted => Vobs # {} /\ Paths # {}) /\ IsFiniteSet(Vobs)
    BY ViewsAssumption DEF ViewsAssumption
  <1>2. Minors \subseteq Nat /\ -1 \notin Minors  BY <1>1 DEF Minors
  <1>3. RootVfs \notin Vobs /\ Null \notin Vfss /\ RootVfs \in Vfss /\ Vobs \subseteq Vfss
    BY MountsAssumption DEF MountsAssumption, Vfss
  <1>4. Null \notin MntType
    <2>1. Minors \cup {-1} \subseteq Int  BY <1>2
    <2>. SUFFICES ASSUME Null \in MntType PROVE Null \in [path : Paths \cup {Null}, minor : Int, nv : Int]
      BY MountsAssumption DEF MountsAssumption
    <2>2. PICK p \in Paths \cup {Null}, a, b \in Minors \cup {-1} : Null = [path |-> p, minor |-> a, nv |-> b]
      BY DEF MntType
    <2>. QED  BY <2>1, <2>2
  <1>5. \A s : IsFiniteSet(LiveIn(s))
    <2>1. IsFiniteSet(Vfss)  BY <1>1, FS_AddElement DEF Vfss
    <2>2. \A s : LiveIn(s) \subseteq Vfss  BY DEF LiveIn
    <2>. QED  BY <2>1, <2>2, FS_Subset
  <1>. QED  BY <1>1, <1>2, <1>3, <1>4, <1>5

LEMMA GetNumIs ==
  ASSUME work \in Workloads, NEW used
  PROVE  GetNum(used) = -1 \/ GetNum(used) \in Minors \ used
  <1>1. Minors \subseteq Nat  BY MountConsts
  <1>. DEFINE S == Minors \ used
  <1>2. CASE Minors \subseteq used  BY <1>2 DEF GetNum
  <1>3. CASE ~(Minors \subseteq used)
    <2>1. GetNum(used) = Least(S)  BY <1>3 DEF GetNum
    <2>2. S \in SUBSET Nat /\ S # {}  BY <1>1, <1>3
    <2>. HIDE DEF S
    <2>3. Least(S) \in S  BY <2>2, LeastIn
    <2>. QED  BY <2>1, <2>3 DEF S
  <1>. QED  BY <1>2, <1>3

LEMMA GetPairIs ==
  ASSUME work \in Workloads, NEW used
  PROVE  GetPair(used) = -1 \/ /\ GetPair(used) \in Minors \ used
                               /\ GetPair(used) + 1 \in Minors \ used
  <1>. DEFINE a == work.minors - 2  b == work.minors - 1  P == {a, b}
  <1>1. work.minors \in Nat /\ work.minors >= 2  BY MountConsts
  <1>2. a \in Minors /\ b \in Minors /\ b = a + 1 /\ a \in Int /\ a <= b /\ ~(b <= a)  BY <1>1 DEF Minors
  <1>. HIDE DEF a, b
  <1>3. Least(P) = a  BY <1>2 DEF Least
  <1>. HIDE DEF P
  <1>4. CASE FixedPair \cap used = {}
    <2>1. FixedPair = {a, b} /\ P = {a, b}  BY DEF FixedPair, a, b, P
    <2>2. GetPair(used) = a  BY <1>3, <1>4, <2>1 DEF GetPair
    <2>. QED  BY <1>2, <1>4, <2>1, <2>2
  <1>5. CASE FixedPair \cap used # {}  BY <1>5 DEF GetPair
  <1>. QED  BY <1>4, <1>5

\* The minors of a new mount are free.
LEMMA NumbersIs ==
  ASSUME work \in Workloads, NEW s \in SysType, NEW r \in Requests
  PROVE  LET m == Numbers(s, r)
         IN  /\ m \in [minor : Minors \cup {-1}, nv : Minors \cup {-1}]
             /\ m.minor \notin s.minors /\ m.nv \notin s.minors
             /\ r.type = "vob" /\ m.nv # -1 => m.minor \in Minors
  <1>. DEFINE m == Numbers(s, r)  n == GetNum(s.minors)  S == s.minors \cup {n}  k == GetNum(S)  q == GetPair(s.minors)
  <1>1. -1 \notin Minors /\ s.minors \subseteq Minors  BY MountConsts DEF SysType
  <1>2. (n = -1 \/ n \in Minors \ s.minors) /\ (k = -1 \/ k \in Minors \ S)  BY GetNumIs
  <1>3. q = -1 \/ (q \in Minors \ s.minors /\ q + 1 \in Minors \ s.minors)  BY GetPairIs
  <1>4. n = -1 => k = -1
    <2>. SUFFICES ASSUME n = -1 PROVE k = -1
      OBVIOUS
    <2>1. Minors \subseteq s.minors
      <3>1. CASE ~(Minors \subseteq s.minors)
        <4>1. n = Least(Minors \ s.minors)  BY <3>1 DEF GetNum
        <4>2. Minors \ s.minors \in SUBSET Nat /\ Minors \ s.minors # {}  BY <3>1, MountConsts
        <4>. DEFINE L == Minors \ s.minors
        <4>. HIDE DEF L
        <4>3. Least(L) \in L  BY <4>2, LeastIn DEF L
        <4>. QED  BY <1>1, <4>1, <4>3 DEF L
      <3>. QED  BY <3>1
    <2>2. Minors \subseteq S  BY <2>1
    <2>. HIDE DEF S
    <2>. QED  BY <2>2 DEF GetNum
  <1>5. r.type \in {"view", "vob"}  BY DEF Requests
  <1>6. m = IF r.type = "view" THEN [minor |-> n, nv |-> -1]
            ELSE IF r.fixed THEN [minor |-> q, nv |-> IF q = -1 THEN -1 ELSE q + 1]
            ELSE [minor |-> n, nv |-> k]
    BY DEF Numbers
  <1>. HIDE DEF m, n, k, q
  <1>. DEFINE x == IF q = -1 THEN -1 ELSE q + 1  y == -1
  <1>7. x \in Minors \cup {-1} /\ x \notin s.minors /\ (x # -1 => q \in Minors)  BY <1>1, <1>3
  <1>8. m.minor \in {n, q} /\ m.nv \in {y, x, k} /\ m = [minor |-> m.minor, nv |-> m.nv]
        /\ (r.type = "view" \/ (m.minor = q /\ m.nv = x) \/ (m.minor = n /\ m.nv = k))
    <2>. HIDE DEF x, y
    <2>1. CASE r.type = "view"
      <3>1. m = [minor |-> n, nv |-> y]  BY <1>6, <2>1 DEF y
      <3>. QED  BY <2>1, <3>1
    <2>2. CASE r.type # "view" /\ r.fixed
      <3>1. m = [minor |-> q, nv |-> x]  BY <1>6, <2>2 DEF x
      <3>. QED  BY <3>1
    <2>3. CASE r.type # "view" /\ ~r.fixed
      <3>1. m = [minor |-> n, nv |-> k]  BY <1>6, <2>3
      <3>. QED  BY <3>1
    <2>. QED  BY <2>1, <2>2, <2>3
  <1>9. y = -1 /\ y \notin s.minors  BY <1>1
  <1>. HIDE DEF x, y
  <1>10. m.minor \in Minors \cup {-1} /\ m.nv \in Minors \cup {-1} /\ m.minor \notin s.minors /\ m.nv \notin s.minors
    BY <1>1, <1>2, <1>3, <1>7, <1>8, <1>9
  <1>11. r.type = "vob" /\ m.nv # -1 => m.minor \in Minors  BY <1>2, <1>4, <1>7, <1>8
  <1>. QED  BY <1>8, <1>10, <1>11 DEF m

\* A mount is added.
LEMMA Joined ==
  ASSUME work \in Workloads, NEW s, SysTrue(s), NEW v \in Vfss, s.mnt[v] = Null, NEW m \in MntType,
         NEW e, Joins(s, v, m, e)
  PROVE  SysTrue(e)
  <1>. USE DEF Joins
  <1>1. /\ RootVfs \notin Vobs /\ Null \notin Vfss /\ Vfss = Vobs \cup {RootVfs} /\ Null \notin MntType
        /\ -1 \notin Minors /\ IsFiniteSet(LiveIn(s))
    BY MountConsts DEF Vfss
  <1>2. s \in SysType /\ MinorsTrue(s) /\ TblTrue(s) /\ UpTrue(s)  BY DEF SysTrue
  <1>3. e.mnt[v] = m /\ m # Null /\ \A w \in Vfss : w # v => e.mnt[w] = s.mnt[w]  BY <1>1, <1>2 DEF SysType
  <1>4. LiveIn(e) = LiveIn(s) \cup {v} /\ v \notin LiveIn(s)  BY <1>3 DEF LiveIn
  <1>5. \A w \in LiveIn(s) : w \in Vfss /\ w # v /\ NumsIn(e, w) = NumsIn(s, w)  BY <1>3 DEF LiveIn, NumsIn
  <1>6. NumsIn(e, v) = {m.minor, m.nv} \ {-1}  BY <1>3 DEF NumsIn
  <1>7. m.minor \in Minors \cup {-1} /\ m.nv \in Minors \cup {-1}  BY DEF MntType
  <1>8. \A n \in NumsIn(e, v) : n \in Minors /\ n \notin s.minors  BY <1>6, <1>7
  <1>9. \A w \in LiveIn(s) : \A n \in NumsIn(s, w) : n \in s.minors
    <2>. SUFFICES ASSUME NEW w \in LiveIn(s), NEW n \in NumsIn(s, w) PROVE n \in s.minors
      OBVIOUS
    <2>1. s.mnt[w] \in MntType  BY <1>2 DEF LiveIn, SysType
    <2>2. n \in Minors  BY <2>1 DEF NumsIn, MntType
    <2>. QED  BY <1>2, <2>2 DEF MinorsTrue
  <1>10. MinorsTrue(e)
    <2>1. \A n \in Minors : n \in e.minors <=> \E w \in LiveIn(e) : n \in NumsIn(e, w)
      <3>1. \A n \in Minors : n \in s.minors <=> \E w \in LiveIn(s) : n \in NumsIn(s, w)  BY <1>2 DEF MinorsTrue
      <3>2. e.minors = s.minors \cup NumsIn(e, v)  BY <1>6
      <3>. QED  BY <1>4, <1>5, <3>1, <3>2
    <2>2. \A x, w \in LiveIn(e) : x # w => \A n \in NumsIn(e, x) : n \notin NumsIn(e, w)
      BY <1>2, <1>4, <1>5, <1>8, <1>9 DEF MinorsTrue
    <2>. QED  BY <2>1, <2>2 DEF MinorsTrue
  <1>11. TblTrue(e)
    <2>1. CASE v \in Vobs
      <3>1. e.tbl[m.minor] = v /\ \A n \in Minors : n # m.minor => e.tbl[n] = s.tbl[n]  BY <1>2, <2>1 DEF SysType
      <3>2. \A w \in Vobs : w \in LiveIn(s) => s.mnt[w].minor # m.minor
        <4>. SUFFICES ASSUME NEW w \in Vobs, w \in LiveIn(s) PROVE s.mnt[w].minor # m.minor
          OBVIOUS
        <4>1. s.mnt[w].minor \in Minors  BY <1>2 DEF TblTrue
        <4>2. s.mnt[w].minor \in NumsIn(s, w)  BY <1>1, <4>1 DEF NumsIn
        <4>. QED  BY <1>9, <4>2
      <3>3. ASSUME NEW n \in Minors, e.tbl[n] # Null PROVE e.tbl[n] \in LiveIn(e) /\ e.mnt[e.tbl[n]].minor = n
        <4>1. CASE n = m.minor  BY <1>3, <1>4, <3>1, <4>1
        <4>2. CASE n # m.minor
          <5>1. s.tbl[n] \in LiveIn(s) /\ s.mnt[s.tbl[n]].minor = n /\ e.tbl[n] = s.tbl[n]
            BY <1>2, <3>1, <3>3, <4>2 DEF TblTrue
          <5>. QED  BY <1>3, <1>4, <1>5, <5>1
        <4>. QED  BY <4>1, <4>2
      <3>4. ASSUME NEW w \in Vobs, w \in LiveIn(e) PROVE e.mnt[w].minor \in Minors /\ e.tbl[e.mnt[w].minor] = w
        <4>1. CASE w = v  BY <1>3, <2>1, <3>1, <4>1
        <4>2. CASE w # v
          <5>1. w \in LiveIn(s) /\ e.mnt[w] = s.mnt[w]  BY <1>3, <1>4, <1>5, <3>4, <4>2
          <5>. QED  BY <1>2, <3>1, <3>2, <5>1 DEF TblTrue
        <4>. QED  BY <4>1, <4>2
      <3>. QED  BY <3>3, <3>4 DEF TblTrue
    <2>2. CASE v \notin Vobs
      <3>1. e.tbl = s.tbl  BY <2>2
      <3>2. \A w \in LiveIn(s) : e.mnt[w] = s.mnt[w] /\ w \in LiveIn(e)  BY <1>3, <1>4, <1>5
      <3>3. \A w \in Vobs : w \in LiveIn(e) => w \in LiveIn(s)  BY <1>4, <2>2
      <3>. QED  BY <1>2, <3>1, <3>2, <3>3 DEF TblTrue
    <2>. QED  BY <2>1, <2>2
  <1>12. UpTrue(e)
    <2>1. Cardinality(LiveIn(e)) = Cardinality(LiveIn(s)) + 1
      <3>. DEFINE S == LiveIn(s)
      <3>. HIDE DEF S
      <3>1. IsFiniteSet(S) /\ v \notin S  BY <1>1, <1>4 DEF S
      <3>2. Cardinality(S \cup {v}) = Cardinality(S) + 1  BY <3>1, FS_AddElement
      <3>. QED  BY <1>4, <3>2 DEF S
    <2>2. e.root = IF RootVfs \in LiveIn(e) THEN RootVfs ELSE Null
      <3>1. v # RootVfs => (RootVfs \in LiveIn(e)) = (RootVfs \in LiveIn(s))  BY <1>4
      <3>2. v = RootVfs => RootVfs \in LiveIn(e)  BY <1>4
      <3>. QED  BY <1>2, <3>1, <3>2 DEF UpTrue
    <2>3. LiveIn(e) # {}  BY <1>4
    <2>. QED  BY <1>2, <2>1, <2>2, <2>3 DEF UpTrue
  <1>. QED  BY <1>10, <1>11, <1>12 DEF SysTrue

\* A mount goes.
LEMMA Parted ==
  ASSUME work \in Workloads, NEW s, SysTrue(s), NEW v \in LiveIn(s), NEW e, Departs(s, v, e)
  PROVE  SysTrue(e)
  <1>. USE DEF Departs
  <1>. DEFINE m == s.mnt[v]
  <1>1. /\ RootVfs \notin Vobs /\ Null \notin Vfss /\ Vfss = Vobs \cup {RootVfs} /\ Null \notin MntType
        /\ -1 \notin Minors /\ IsFiniteSet(LiveIn(s)) /\ IsFiniteSet(LiveIn(e))
    BY MountConsts DEF Vfss
  <1>2. s \in SysType /\ MinorsTrue(s) /\ TblTrue(s) /\ UpTrue(s)  BY DEF SysTrue
  <1>3. v \in Vfss /\ m \in MntType  BY <1>2 DEF LiveIn, SysType
  <1>4. e.mnt[v] = Null /\ \A w \in Vfss : w # v => e.mnt[w] = s.mnt[w]  BY <1>2, <1>3 DEF SysType
  <1>5. LiveIn(e) = LiveIn(s) \ {v}  BY <1>4 DEF LiveIn
  <1>6. \A w \in LiveIn(e) : w \in Vfss /\ w # v /\ e.mnt[w] = s.mnt[w] /\ NumsIn(e, w) = NumsIn(s, w)
    BY <1>4, <1>5 DEF LiveIn, NumsIn
  <1>7. Cardinality(LiveIn(e)) = Cardinality(LiveIn(s)) - 1 /\ e.count = Cardinality(LiveIn(e)) /\ e.count \in Nat
    <2>. DEFINE S == LiveIn(s)
    <2>. HIDE DEF S
    <2>1. IsFiniteSet(S) /\ v \in S  BY <1>1 DEF S
    <2>2. Cardinality(S \ {v}) = Cardinality(S) - 1  BY <2>1, FS_RemoveElement
    <2>3. Cardinality(LiveIn(e)) = Cardinality(LiveIn(s)) - 1  BY <1>5, <2>2 DEF S
    <2>. QED  BY <1>2, <2>3 DEF UpTrue, SysType
  <1>8. (e.count = 0) = (LiveIn(e) = {})
    <2>. DEFINE S == LiveIn(e)
    <2>. HIDE DEF S
    <2>1. IsFiniteSet(S)  BY <1>1 DEF S
    <2>2. (Cardinality(S) = 0) = (S = {})  BY <2>1, FS_EmptySet
    <2>. QED  BY <1>7, <2>2 DEF S
  <1>. HIDE DEF m
  <1>9. MinorsTrue(e)
    <2>1. \A x, w \in LiveIn(e) : x # w => \A n \in NumsIn(e, x) : n \notin NumsIn(e, w)
      BY <1>2, <1>5, <1>6 DEF MinorsTrue
    <2>2. ASSUME NEW n \in Minors PROVE n \in e.minors <=> \E w \in LiveIn(e) : n \in NumsIn(e, w)
      <3>1. n \in s.minors <=> \E w \in LiveIn(s) : n \in NumsIn(s, w)  BY <1>2 DEF MinorsTrue
      <3>2. \A w \in LiveIn(s) : w # v => \A k \in NumsIn(s, v) : k \notin NumsIn(s, w)  BY <1>2 DEF MinorsTrue
      <3>3. n \in NumsIn(s, v) <=> n \in {m.minor, m.nv}  BY <1>1 DEF NumsIn, m
      <3>4. CASE e.count = 0
        <4>1. e.minors = {} /\ LiveIn(e) = {}  BY <1>8, <3>4
        <4>. QED  BY <4>1
      <3>5. CASE e.count # 0
        <4>1. n \in e.minors <=> n \in s.minors /\ n \notin {m.minor, m.nv}  BY <3>5 DEF m
        <4>. QED  BY <1>5, <1>6, <3>1, <3>2, <3>3, <4>1
      <3>. QED  BY <3>4, <3>5
    <2>. QED  BY <2>1, <2>2 DEF MinorsTrue
  <1>10. TblTrue(e)
    <2>1. CASE v \in Vobs
      <3>1. m.minor \in Minors /\ s.tbl[m.minor] = v  BY <1>2, <2>1 DEF TblTrue, m
      <3>2. e.tbl[m.minor] = Null /\ \A n \in Minors : n # m.minor => e.tbl[n] = s.tbl[n]
        BY <1>2, <2>1, <3>1 DEF SysType, m
      <3>3. ASSUME NEW n \in Minors, e.tbl[n] # Null PROVE e.tbl[n] \in LiveIn(e) /\ e.mnt[e.tbl[n]].minor = n
        <4>1. n # m.minor /\ e.tbl[n] = s.tbl[n]  BY <3>2, <3>3
        <4>2. s.tbl[n] \in LiveIn(s) /\ s.mnt[s.tbl[n]].minor = n  BY <1>2, <3>3, <4>1 DEF TblTrue
        <4>3. s.tbl[n] # v  BY <4>1, <4>2 DEF m
        <4>. QED  BY <1>5, <1>6, <4>1, <4>2, <4>3
      <3>4. ASSUME NEW w \in Vobs, w \in LiveIn(e) PROVE e.mnt[w].minor \in Minors /\ e.tbl[e.mnt[w].minor] = w
        <4>1. w # v /\ w \in LiveIn(s) /\ e.mnt[w] = s.mnt[w]  BY <1>5, <1>6, <3>4
        <4>2. s.mnt[w].minor \in Minors /\ s.tbl[s.mnt[w].minor] = w  BY <1>2, <4>1 DEF TblTrue
        <4>3. s.mnt[w].minor # m.minor  BY <3>1, <4>1, <4>2
        <4>. QED  BY <3>2, <4>1, <4>2, <4>3
      <3>. QED  BY <3>3, <3>4 DEF TblTrue
    <2>2. CASE v \notin Vobs
      <3>1. e.tbl = s.tbl  BY <2>2
      <3>2. \A n \in Minors : s.tbl[n] # Null => s.tbl[n] # v  BY <1>2, <2>2 DEF SysType
      <3>. QED  BY <1>2, <1>5, <1>6, <3>1, <3>2 DEF TblTrue
    <2>. QED  BY <2>1, <2>2
  <1>11. UpTrue(e)
    <2>1. e.root = IF RootVfs \in LiveIn(e) THEN RootVfs ELSE Null
      <3>1. s.root = IF RootVfs \in LiveIn(s) THEN RootVfs ELSE Null  BY <1>2 DEF UpTrue
      <3>2. v # Null  BY <1>1, <1>3
      <3>. QED  BY <1>5, <3>1, <3>2
    <2>2. LiveIn(s) # {}  OBVIOUS
    <2>3. \A i \in SubIds : e.subs[i] = IF LiveIn(e) = {} THEN 0 ELSE 1
      <3>1. \A i \in SubIds : s.subs[i] = 1  BY <1>2, <2>2 DEF UpTrue
      <3>. QED  BY <1>8, <3>1
    <2>4. (e.state = "complete") = (LiveIn(e) # {})  BY <1>2, <1>8, <2>2 DEF UpTrue
    <2>. QED  BY <1>7, <2>1, <2>3, <2>4 DEF UpTrue
  <1>. QED  BY <1>9, <1>10, <1>11 DEF SysTrue

\* Only who is up is written, and nothing of the mounts moves.
LEMMA Stays ==
  ASSUME NEW s, SysTrue(s), NEW e \in SysType, e.mnt = s.mnt, e.minors = s.minors, e.tbl = s.tbl, e.root = s.root,
         e.count = s.count, \A i \in SubIds : e.subs[i] = s.subs[i], (e.state = "complete") = (s.state = "complete")
  PROVE  SysTrue(e)
  <1>1. LiveIn(e) = LiveIn(s) /\ \A v : NumsIn(e, v) = NumsIn(s, v)  BY DEF LiveIn, NumsIn
  <1>2. MinorsTrue(s) /\ TblTrue(s) /\ UpTrue(s)  BY DEF SysTrue
  <1>3. MinorsTrue(e)  BY <1>1, <1>2 DEF MinorsTrue
  <1>4. TblTrue(e)  BY <1>1, <1>2 DEF TblTrue
  <1>5. UpTrue(e)  BY <1>1, <1>2 DEF UpTrue
  <1>. QED  BY <1>3, <1>4, <1>5 DEF SysTrue

LEMMA CountIs ==
  ASSUME work \in Workloads, NEW s, SysTrue(s)
  PROVE  (s.count = 0) = (LiveIn(s) = {})
  <1>. DEFINE S == LiveIn(s)
  <1>1. IsFiniteSet(S) /\ s.count = Cardinality(S)  BY MountConsts DEF SysTrue, UpTrue
  <1>. HIDE DEF S
  <1>2. (Cardinality(S) = 0) = (S = {})  BY <1>1, FS_EmptySet
  <1>. QED  BY <1>1, <1>2 DEF S

\* The subsystems come up together, or, but for the vob mounts, not at all.
LEMMA InitIs ==
  ASSUME NEW s \in SysType
  PROVE  /\ MiscInit(s, 0) = [s EXCEPT !.subs = [i \in SubIds |-> s.subs[i] + 1]]
         /\ \A k \in SubIds : Subs[k] # "vobmount" => MiscInit(s, k) = s
  <1>1. s.subs \in [SubIds -> Int]  BY DEF SysType
  <1>. DEFINE U == [i \in SubIds |-> s.subs[i] + 1]
  <1>2. MiscInit(s, 0) = [s EXCEPT !.subs = U]
    <2>1. [i \in SubIds |-> s.subs[i] + (IF i \in SubIds THEN 1 ELSE 0) - (IF i \in {} THEN 1 ELSE 0)
                            - (IF i \in {} THEN 1 ELSE 0)] = U
      BY <1>1
    <2>. HIDE DEF U
    <2>2. MiscInit(s, 0) = [s EXCEPT !.subs = [i \in SubIds |-> s.subs[i] + (IF i \in SubIds THEN 1 ELSE 0)
                                                - (IF i \in {} THEN 1 ELSE 0) - (IF i \in {} THEN 1 ELSE 0)]]
      BY DEF MiscInit
    <2>. QED  BY <2>1, <2>2
  <1>3. ASSUME NEW k \in SubIds, Subs[k] # "vobmount" PROVE MiscInit(s, k) = s
    <2>1. k # 0 /\ FreedBefore(k) = {} /\ Unwound(k) = 1..(k - 1)  BY <1>3 DEF SubIds, Subs, FreedBefore, Unwound
    <2>. DEFINE A == 1..(k - 1)
                V == [i \in SubIds |-> s.subs[i] + (IF i \in A THEN 1 ELSE 0) - (IF i \in A THEN 1 ELSE 0)
                                       - (IF i \in {} THEN 1 ELSE 0)]
    <2>2. MiscInit(s, k) = [s EXCEPT !.subs = V]  BY <2>1 DEF MiscInit
    <2>. HIDE DEF A
    <2>3. V = s.subs  BY <1>1
    <2>. HIDE DEF V
    <2>. QED  BY <2>2, <2>3 DEF SysType
  <1>. QED  BY <1>2, <1>3

\* A mount, whether it succeeds or where it fails.
LEMMA OutcomeTrue ==
  ASSUME work \in Workloads, NEW s, SysTrue(s), NEW v \in Vfss, s.mnt[v] = Null, NEW r \in Requests,
         NEW f, f \notin {"vobmount", "specdev"}, (r.type = "view") = (v = RootVfs), SubNo(f) # 0 => s.count = 0
  PROVE  LET o == MountOutcome(s, v, r, f)
         IN  SysTrue(o) /\ \A w \in Vfss : w # v => o.mnt[w] = s.mnt[w]
  <1>. DEFINE first == s.count = 0
              s1 == IF first THEN MiscInit(s, SubNo(f)) ELSE s
              early == Early(s1, r, f)
              m == IF early THEN [minor |-> -1, nv |-> -1] ELSE Numbers(s1, r)
              s2 == [s1 EXCEPT !.minors = @ \cup ({m.minor, m.nv} \ {-1})]
              short == r.type = "vob" /\ m.nv = -1
              o == MountOutcome(s, v, r, f)
  <1>1. o = IF first /\ r.type # "view" THEN s
            ELSE IF first /\ SubNo(f) # 0 THEN s1
            ELSE IF early \/ short \/ Refused(s1, r) \/ f # "none" THEN MountFailed(s2, v, m, f)
            ELSE IF r.type = "view" THEN RootDone(s2, v, r, m) ELSE VobDone(s2, v, r, m)
    BY DEF MountOutcome
  <1>2. s \in SysType /\ MinorsTrue(s) /\ UpTrue(s) /\ -1 \notin Minors /\ s.minors \subseteq Minors
    BY MountConsts DEF SysTrue, SysType
  <1>3. r.type \in {"view", "vob"} /\ r.path \in Paths \cup {Null}  BY DEF Requests
  <1>4. first = (LiveIn(s) = {})  BY CountIs
  <1>5. CASE first /\ r.type # "view"
    <2>1. o = s  BY <1>1, <1>5
    <2>. QED  BY <2>1
  <1>6. CASE first /\ r.type = "view" /\ SubNo(f) # 0
    <2>1. SubNo(f) \in SubIds /\ Subs[SubNo(f)] = f  BY <1>6 DEF SubNo
    <2>2. s1 = s  BY <1>2, <1>6, <2>1, InitIs
    <2>3. o = s  BY <1>1, <1>6, <2>2
    <2>. QED  BY <2>3
  <1>7. CASE ~(first /\ r.type # "view") /\ SubNo(f) = 0
    <2>1. s1 \in SysType /\ s1 = [s EXCEPT !.subs = s1.subs] /\ \A i \in SubIds : s1.subs[i] = 1
      <3>1. CASE first
        <4>. DEFINE U == [i \in SubIds |-> s.subs[i] + 1]
        <4>1. s1 = [s EXCEPT !.subs = U]  BY <1>2, <1>7, <3>1, InitIs
        <4>2. s.subs \in [SubIds -> Int] /\ \A i \in SubIds : s.subs[i] = 0  BY <1>2, <1>4, <3>1 DEF UpTrue, SysType
        <4>3. U \in [SubIds -> Int] /\ \A i \in SubIds : U[i] = 1  BY <4>2
        <4>. HIDE DEF U, s1
        <4>. QED  BY <1>2, <4>1, <4>3 DEF SysType
      <3>2. CASE ~first
        <4>1. s1 = s /\ LiveIn(s) # {}  BY <1>4, <3>2
        <4>. QED  BY <1>2, <4>1 DEF UpTrue, SysType
      <3>. QED  BY <3>1, <3>2
    <2>2. s1.minors = s.minors /\ s1.mnt = s.mnt /\ s1.tbl = s.tbl /\ s1.root = s.root /\ s1.count = s.count
          /\ s1.state = s.state
      <3>. HIDE DEF s1
      <3>. QED  BY <1>2, <2>1 DEF SysType
    <2>. HIDE DEF s1
    <2>3. m \in [minor : Minors \cup {-1}, nv : Minors \cup {-1}] /\ m.minor \notin s.minors /\ m.nv \notin s.minors
          /\ (r.type = "vob" /\ m.nv # -1 => m.minor \in Minors)
      <3>1. CASE early
        <4>1. m = [minor |-> -1, nv |-> -1]  BY <3>1
        <4>. QED  BY <1>2, <4>1
      <3>2. CASE ~early
        <4>1. m = Numbers(s1, r)  BY <3>2
        <4>. HIDE DEF m
        <4>. QED  BY <2>1, <2>2, <4>1, NumbersIs
      <3>. QED  BY <3>1, <3>2
    <2>. HIDE DEF m, early
    <2>4. s2 \in SysType /\ s2.minors = s.minors \cup ({m.minor, m.nv} \ {-1}) /\ s2.mnt = s.mnt /\ s2.tbl = s.tbl
          /\ s2.root = s.root /\ s2.count = s.count /\ s2.state = s.state /\ s2.subs = s1.subs
      BY <2>1, <2>2, <2>3 DEF SysType
    <2>. HIDE DEF s2
    <2>5. CASE early \/ short \/ Refused(s1, r) \/ f # "none"
      <3>. DEFINE t == [s2 EXCEPT !.minors = PutNum(@, m), !.root = IF f = "specdev" THEN v ELSE @]
      <3>1. o = IF first THEN [MiscFree(t) EXCEPT !.state = "phase1"] ELSE t
        BY <1>1, <1>7, <2>4, <2>5 DEF MountFailed
      <3>2. t \in SysType /\ t.minors = s.minors /\ t.mnt = s.mnt /\ t.tbl = s.tbl /\ t.root = s.root /\ t.count = s.count
            /\ t.state = s.state /\ t.subs = s1.subs
        <4>1. PutNum(s2.minors, m) = s.minors  BY <1>2, <2>3, <2>4 DEF PutNum
        <4>. DEFINE p == PutNum(s2.minors, m)
        <4>2. t = [s2 EXCEPT !.minors = p, !.root = s.root]  BY <2>4 DEF SysType
        <4>. HIDE DEF p, t
        <4>. QED  BY <1>2, <2>4, <4>1, <4>2 DEF SysType, p
      <3>. HIDE DEF t, o
      <3>3. CASE first
        <4>. DEFINE F == [i \in SubIds |-> t.subs[i] - 1]
        <4>1. o = [[t EXCEPT !.subs = F, !.minors = {}] EXCEPT !.state = "phase1"]  BY <3>1, <3>2, <3>3 DEF MiscFree, SysType
        <4>2. F \in [SubIds -> Int] /\ \A i \in SubIds : F[i] = 0  BY <2>1, <3>2 DEF SysType
        <4>. HIDE DEF F
        <4>3. o \in SysType /\ o.minors = {} /\ o.mnt = s.mnt /\ o.tbl = s.tbl /\ o.root = s.root /\ o.count = s.count
              /\ o.state = "phase1" /\ o.subs = F
          BY <3>2, <4>1, <4>2 DEF SysType
        <4>4. s.minors = {} /\ s.state # "complete" /\ \A i \in SubIds : s.subs[i] = 0
          BY <1>2, <1>4, <3>3 DEF MinorsTrue, UpTrue
        <4>5. (o.state = "complete") = (s.state = "complete") /\ \A i \in SubIds : o.subs[i] = s.subs[i]
          BY <4>2, <4>3, <4>4
        <4>6. o.mnt = s.mnt /\ o.minors = s.minors /\ o.tbl = s.tbl /\ o.root = s.root /\ o.count = s.count
          BY <4>3, <4>4
        <4>7. SysTrue(o)  BY <4>3, <4>5, <4>6, Stays
        <4>. QED  BY <4>3, <4>7 DEF o
      <3>4. CASE ~first
        <4>1. o = t  BY <3>1, <3>4
        <4>2. \A i \in SubIds : s.subs[i] = 1  BY <1>2, <1>4, <3>4 DEF UpTrue
        <4>3. SysTrue(t)  BY <2>1, <3>2, <4>2, Stays
        <4>. QED  BY <3>2, <4>1, <4>3 DEF o
      <3>. QED  BY <3>3, <3>4
    <2>6. CASE ~(early \/ short \/ Refused(s1, r) \/ f # "none")
      <3>. DEFINE n == [path |-> r.path, minor |-> m.minor, nv |-> m.nv]
                  N == [s.mnt EXCEPT ![v] = n]
                  e == [s2 EXCEPT !.mnt[v] = n, !.count = @ + 1, !.state = "complete"]
      <3>1. n \in MntType /\ n.minor = m.minor /\ n.nv = m.nv /\ (v \in Vobs => n.minor \in Minors)
        <4>1. v \in Vobs => r.type = "vob"  BY <1>3, MountConsts
        <4>2. v \in Vobs => m.minor \in Minors  BY <2>3, <2>6, <4>1
        <4>. QED  BY <1>3, <2>3, <4>2 DEF MntType
      <3>2. Mounted(s2, v, r, m) = e  BY DEF Mounted
      <3>. HIDE DEF n
      <3>3. e \in SysType /\ e.mnt = [s.mnt EXCEPT ![v] = n] /\ e.minors = s2.minors /\ e.tbl = s.tbl /\ e.root = s.root
            /\ e.count = s.count + 1 /\ e.state = "complete" /\ e.subs = s1.subs
        <4>1. N \in [Vfss -> MntType \cup {Null}]  BY <1>2, <3>1 DEF SysType
        <4>2. e = [s2 EXCEPT !.mnt = N, !.count = s.count + 1, !.state = "complete"]  BY <2>4
        <4>3. s.count + 1 \in Nat  BY <1>2 DEF SysType
        <4>. HIDE DEF N, e
        <4>4. e \in SysType  BY <2>4, <4>1, <4>2, <4>3 DEF SysType
        <4>5. e.mnt = N /\ e.minors = s2.minors /\ e.tbl = s2.tbl /\ e.root = s2.root
              /\ e.count = s.count + 1 /\ e.state = "complete" /\ e.subs = s2.subs
          BY <2>4, <4>2 DEF SysType
        <4>. QED  BY <2>4, <4>4, <4>5 DEF N
      <3>. HIDE DEF e, N
      <3>4. ASSUME NEW w \in Vfss, w # v PROVE e.mnt[w] = s.mnt[w]  BY <1>2, <3>3, <3>4 DEF SysType
      <3>5. CASE r.type = "view"
        <4>1. o = [e EXCEPT !.root = v] /\ v \notin Vobs /\ v = RootVfs
          BY <1>1, <1>7, <2>6, <3>2, <3>5, MountConsts DEF RootDone
        <4>. HIDE DEF o
        <4>2. o \in SysType /\ o.mnt = e.mnt /\ o.minors = e.minors /\ o.tbl = e.tbl /\ o.root = v
              /\ o.count = e.count /\ o.state = e.state /\ o.subs = e.subs
          BY <3>3, <4>1 DEF SysType
        <4>3. o.mnt = [s.mnt EXCEPT ![v] = n] /\ o.minors = s.minors \cup ({n.minor, n.nv} \ {-1}) /\ o.count = s.count + 1
              /\ o.root = (IF v = RootVfs THEN RootVfs ELSE s.root)
          BY <2>4, <3>1, <3>3, <4>1, <4>2
        <4>4. o.tbl = (IF v \in Vobs THEN [s.tbl EXCEPT ![n.minor] = v] ELSE s.tbl)  BY <3>1, <3>3, <4>1, <4>2
        <4>5. (\A i \in SubIds : o.subs[i] = 1) /\ o.state = "complete"  BY <2>1, <3>3, <4>2
        <4>6. n \in MntType /\ n.minor \notin s.minors /\ n.nv \notin s.minors /\ (v \in Vobs => n.minor \in Minors)
          BY <2>3, <3>1
        <4>7. Joins(s, v, n, o)  BY <4>2, <4>3, <4>4, <4>5, <4>6 DEF Joins
        <4>8. SysTrue(o)  BY <1>2, <4>6, <4>7, Joined
        <4>. QED  BY <3>4, <4>2, <4>8 DEF o
      <3>6. CASE r.type # "view"
        <4>1. o = [e EXCEPT !.tbl[m.minor] = v] /\ v \in Vobs /\ v # RootVfs
          BY <1>1, <1>7, <2>6, <3>2, <3>6, MountConsts DEF VobDone, Vfss
        <4>. HIDE DEF o
        <4>2. o \in SysType /\ o.mnt = e.mnt /\ o.minors = e.minors /\ o.tbl = [e.tbl EXCEPT ![m.minor] = v]
              /\ o.root = e.root /\ o.count = e.count /\ o.state = e.state /\ o.subs = e.subs
          BY <3>1, <3>3, <4>1 DEF SysType
        <4>3. o.mnt = [s.mnt EXCEPT ![v] = n] /\ o.minors = s.minors \cup ({n.minor, n.nv} \ {-1}) /\ o.count = s.count + 1
              /\ o.root = (IF v = RootVfs THEN RootVfs ELSE s.root)
          BY <2>4, <3>1, <3>3, <4>1, <4>2
        <4>4. o.tbl = (IF v \in Vobs THEN [s.tbl EXCEPT ![n.minor] = v] ELSE s.tbl)  BY <3>1, <3>3, <4>1, <4>2
        <4>5. (\A i \in SubIds : o.subs[i] = 1) /\ o.state = "complete"  BY <2>1, <3>3, <4>2
        <4>6. n \in MntType /\ n.minor \notin s.minors /\ n.nv \notin s.minors /\ (v \in Vobs => n.minor \in Minors)
          BY <2>3, <3>1
        <4>7. Joins(s, v, n, o)  BY <4>2, <4>3, <4>4, <4>5, <4>6 DEF Joins
        <4>8. SysTrue(o)  BY <1>2, <4>6, <4>7, Joined
        <4>. QED  BY <3>4, <4>2, <4>8 DEF o
      <3>. QED  BY <3>5, <3>6
    <2>. QED  BY <2>5, <2>6
  <1>8. first => r.type # "view" \/ SubNo(f) = 0 \/ SubNo(f) # 0  OBVIOUS
  <1>. HIDE DEF o
  <1>. QED  BY <1>3, <1>5, <1>6, <1>7 DEF o

LEMMA UnmountedTrue ==
  ASSUME work \in Workloads, NEW s, SysTrue(s), NEW v \in LiveIn(s)
  PROVE  SysTrue(Unmounted(s, v))
  <1>. DEFINE m == s.mnt[v]
              T == IF v \in Vobs THEN [s.tbl EXCEPT ![m.minor] = Null] ELSE s.tbl
              N == [s.mnt EXCEPT ![v] = Null]
              P == PutNum(s.minors, m)
              R == IF v = s.root THEN Null ELSE s.root
              t == [s EXCEPT !.minors = P, !.mnt = N, !.gen = s.gen + 1, !.count = s.count - 1, !.root = R, !.tbl = T]
              F == [i \in SubIds |-> s.subs[i] - 1]
              e == Unmounted(s, v)
  <1>1. s \in SysType /\ v \in Vfss /\ IsFiniteSet(LiveIn(s))  BY MountConsts DEF SysTrue, LiveIn
  <1>2. s.count - 1 \in Nat
    <2>1. s.count \in Nat /\ s.count # 0  BY <1>1, CountIs DEF SysType
    <2>. QED  BY <2>1
  <1>3. T \in [Minors -> Vobs \cup {Null}] /\ N \in [Vfss -> MntType \cup {Null}] /\ P \in SUBSET Minors
        /\ R \in Vfss \cup {Null} /\ s.gen + 1 \in Nat /\ F \in [SubIds -> Int]
    <2>1. T \in [Minors -> Vobs \cup {Null}] /\ N \in [Vfss -> MntType \cup {Null}]  BY <1>1 DEF SysType
    <2>2. P \in SUBSET Minors  BY <1>1 DEF SysType, PutNum
    <2>3. R \in Vfss \cup {Null} /\ s.gen + 1 \in Nat  BY <1>1 DEF SysType
    <2>4. F \in [SubIds -> Int]
      <3>1. s.subs \in [SubIds -> Int]  BY <1>1 DEF SysType
      <3>. QED  BY <3>1
    <2>. QED  BY <2>1, <2>2, <2>3, <2>4
  <1>4. e = IF s.count - 1 = 0 THEN [[t EXCEPT !.subs = F, !.minors = {}] EXCEPT !.state = "phase1"] ELSE t
    <2>. DEFINE u == [s EXCEPT !.minors = PutNum(@, m), !.mnt[v] = Null, !.gen = @ + 1, !.count = @ - 1,
                               !.root = IF v = @ THEN Null ELSE @,
                               !.tbl = IF v \in Vobs THEN [@ EXCEPT ![m.minor] = Null] ELSE @]
    <2>1. e = IF u.count = 0 THEN [MiscFree(u) EXCEPT !.state = "phase1"] ELSE u  BY DEF Unmounted
    <2>2. u = t  BY <1>1 DEF SysType
    <2>. HIDE DEF u, P, N, T, R
    <2>3. t.count = s.count - 1 /\ t.subs = s.subs  BY <1>1 DEF SysType
    <2>. HIDE DEF t
    <2>4. MiscFree(t) = [t EXCEPT !.subs = F, !.minors = {}]
      <3>1. [i \in SubIds |-> t.subs[i] - 1] = F  BY <2>3
      <3>. HIDE DEF F
      <3>. QED  BY <3>1 DEF MiscFree
    <2>. HIDE DEF e, F
    <2>. QED  BY <2>1, <2>2, <2>3, <2>4
  <1>. HIDE DEF e, T, N, P, R, F
  <1>5. /\ e \in SysType /\ e.mnt = N /\ e.count = s.count - 1 /\ e.root = R /\ e.tbl = T
        /\ e.minors = (IF e.count = 0 THEN {} ELSE P) /\ e.subs = (IF e.count = 0 THEN F ELSE s.subs)
        /\ e.state = (IF e.count = 0 THEN "phase1" ELSE s.state)
    <2>1. t \in SysType /\ t.mnt = N /\ t.count = s.count - 1 /\ t.root = R /\ t.tbl = T /\ t.minors = P
          /\ t.subs = s.subs /\ t.state = s.state
      BY <1>1, <1>2, <1>3 DEF SysType
    <2>. HIDE DEF t
    <2>2. CASE s.count - 1 = 0
      <3>1. e = [t EXCEPT !.subs = F, !.minors = {}, !.state = "phase1"]  BY <1>4, <2>1, <2>2 DEF SysType
      <3>. QED  BY <1>3, <2>1, <2>2, <3>1 DEF SysType
    <2>3. CASE s.count - 1 # 0
      <3>1. e = t  BY <1>4, <2>3
      <3>. QED  BY <2>1, <2>3, <3>1
    <2>. QED  BY <2>2, <2>3
  <1>6. e.minors = (IF e.count = 0 THEN {} ELSE s.minors \ {s.mnt[v].minor, s.mnt[v].nv})  BY <1>5 DEF P, PutNum, m
  <1>7. \A i \in SubIds : e.subs[i] = IF e.count = 0 THEN s.subs[i] - 1 ELSE s.subs[i]  BY <1>5 DEF F
  <1>8. e.mnt = [s.mnt EXCEPT ![v] = Null] /\ e.root = (IF v = s.root THEN Null ELSE s.root)
        /\ e.tbl = (IF v \in Vobs THEN [s.tbl EXCEPT ![s.mnt[v].minor] = Null] ELSE s.tbl)
    BY <1>5 DEF N, R, T, m
  <1>9. e.count = s.count - 1 /\ e.state = (IF e.count = 0 THEN "phase1" ELSE s.state) /\ e \in SysType  BY <1>5
  <1>. HIDE DEF t, m
  <1>10. Departs(s, v, e)  BY <1>6, <1>7, <1>8, <1>9 DEF Departs
  <1>. HIDE DEF e
  <1>11. SysTrue(e)  BY <1>10, Parted
  <1>. QED  BY <1>11 DEF e

LEMMA NoMountsTrue ==
  ASSUME work \in Workloads
  PROVE  SysTrue(NoMounts) /\ \A v \in Vfss : NoMounts.mnt[v] = Null
  <1>. DEFINE s == NoMounts
  <1>1. s \in SysType  BY DEF NoMounts, SysType
  <1>2. \A v \in Vfss : s.mnt[v] = Null  BY DEF NoMounts
  <1>3. LiveIn(s) = {}  BY <1>2 DEF LiveIn
  <1>4. s.minors = {} /\ s.count = 0 /\ s.root = Null /\ s.state = "phase1" /\ \A i \in SubIds : s.subs[i] = 0
    BY DEF NoMounts
  <1>5. \A n \in Minors : s.tbl[n] = Null  BY DEF NoMounts
  <1>. HIDE DEF s
  <1>6. Cardinality({}) = 0  BY FS_EmptySet
  <1>7. MinorsTrue(s)  BY <1>3, <1>4 DEF MinorsTrue
  <1>8. TblTrue(s)  BY <1>3, <1>5 DEF TblTrue
  <1>9. UpTrue(s)  BY <1>3, <1>4, <1>6 DEF UpTrue
  <1>. QED  BY <1>1, <1>2, <1>7, <1>8, <1>9 DEF SysTrue, s

LEMMA StandingTrue ==
  ASSUME work \in Workloads
  PROVE  SysTrue(Standing)
  <1>. DEFINE none == "none"
              q == [type |-> "view", path |-> Null, fixed |-> FALSE]
              r == [type |-> "vob", path |-> FirstOf(Paths), fixed |-> FALSE]
              s == MountOutcome(NoMounts, RootVfs, q, none)
              v == FirstOf(Vobs)
  <1>1. CASE ~work.mounted
    <2>1. Standing = NoMounts  BY <1>1 DEF Standing
    <2>. QED  BY <2>1, NoMountsTrue
  <1>2. CASE work.mounted
    <2>1. Vobs # {} /\ Paths # {} /\ RootVfs \notin Vobs /\ RootVfs \in Vfss /\ Vobs \subseteq Vfss
      BY <1>2, MountConsts
    <2>2. v \in Vobs /\ FirstOf(Paths) \in Paths  BY <2>1, First
    <2>3. q \in Requests /\ r \in Requests /\ q.type = "view" /\ r.type = "vob"  BY <2>2 DEF Requests
    <2>4. SubNo(none) = 0 /\ none \notin {"vobmount", "specdev"}
      <3>1. \A i \in SubIds : Subs[i] # "none"  BY DEF Subs, SubIds
      <3>. QED  BY <3>1 DEF SubNo
    <2>5. Standing = MountOutcome(s, v, r, none)  BY <1>2 DEF Standing
    <2>. HIDE DEF none, q, r, v
    <2>6. SysTrue(s) /\ \A w \in Vfss : w # RootVfs => s.mnt[w] = NoMounts.mnt[w]
      BY <2>1, <2>3, <2>4, NoMountsTrue, OutcomeTrue
    <2>7. s.mnt[v] = Null /\ v # RootVfs /\ v \in Vfss  BY <2>1, <2>2, <2>6, NoMountsTrue
    <2>. HIDE DEF s
    <2>8. SysTrue(MountOutcome(s, v, r, none))  BY <2>3, <2>4, <2>6, <2>7, OutcomeTrue
    <2>. QED  BY <2>5, <2>8
  <1>. QED  BY <1>1, <1>2

LEMMA MountsStep ==
  ASSUME ViewsInv, FaultsApart, SysTrue(sys), [Next]_vars
  PROVE  SysTrue(sys)'
  <1>1. work \in Workloads  BY DEF ViewsInv
  <1>2. ASSUME UNCHANGED <<sys, work>> PROVE SysTrue(sys)'
    BY <1>2 DEF SysTrue, SysType, MntType, MinorsTrue, TblTrue, UpTrue, LiveIn, NumsIn, Minors
  <1>3. CASE UNCHANGED vars  BY <1>2, <1>3 DEF vars
  <1>4. ASSUME NEW t \in Threads, Command(t) \/ Nfs(t) \/ User(t) PROVE SysTrue(sys)'
    <2>1. Command(t) => UNCHANGED <<sys, work>>
      BY DEF Command, MkStart, MkFound, MkRecover, MkNew, InsertId, MkFill, RmStart, RmRemove, RmUnexport, RmFlush, RmId,
             RmAllStart, RmAllNext, ExportStart, TagLookup, Export, UnexportTag, Begin, Mk, Step, Same
    <2>2. Nfs(t) => UNCHANGED <<sys, work>>  BY DEF Nfs, MakeHandle, VgetStart, VgetView, VgetNode, Got, Begin, Step, Same
    <2>3. User(t) => UNCHANGED <<sys, work>>
      BY DEF User, HmStart, HmFind, HmNew, HmFill, LookupStart, LookupDone, SetviewStart, SetProcView, SetHere, ClrView,
             CurView, Up, BindStart, BindGet, BindCheck, BindRoot, Bound, Here, Begin, Step, Same
    <2>. QED  BY <1>2, <1>4, <2>1, <2>2, <2>3
  <1>5. CASE CleanHm  BY <1>2, <1>5 DEF CleanHm
  <1>. SUFFICES ASSUME MountAny \/ UnmountVob \/ UnmountRoot \/ UnloadModule PROVE SysTrue(sys)'
    BY <1>3, <1>4, <1>5 DEF Next
  <1>6. work' = work  BY DEF MountAny, UnmountVob, UnmountRoot, UnloadModule
  <1>7. \A s : SysTrue(s) /\ sys' = s => SysTrue(sys)'
    BY <1>6 DEF SysTrue, SysType, MntType, MinorsTrue, TblTrue, UpTrue, LiveIn, NumsIn, Minors
  <1>8. CASE MountAny
    <2>1. PICK v \in Vfss, r \in Requests, f \in Faults : Mount(v, r, f)  BY <1>8 DEF MountAny
    <2>2. sys' = MountOutcome(sys, v, r, f) /\ sys.mnt[v] = Null /\ (r.type = "view") = (v = RootVfs)
          /\ (SubNo(f) # 0 => sys.count = 0)
      BY <2>1 DEF Mount
    <2>3. f \notin {"vobmount", "specdev"}  BY DEF FaultsApart
    <2>4. SysTrue(MountOutcome(sys, v, r, f))  BY <1>1, <2>2, <2>3, OutcomeTrue
    <2>. QED  BY <1>7, <2>2, <2>4
  <1>9. CASE UnmountVob
    <2>1. PICK m \in Vobs : /\ sys.mnt[m] # Null
                            /\ sys' = IF \E v \in Views : dir.vw[v].mn[m] = "used" THEN sys ELSE Unmounted(sys, m)
      BY <1>9 DEF UnmountVob
    <2>2. m \in LiveIn(sys)  BY <1>1, <2>1, MountConsts DEF LiveIn
    <2>3. SysTrue(Unmounted(sys, m))  BY <1>1, <2>2, UnmountedTrue
    <2>. QED  BY <1>7, <2>1, <2>3
  <1>10. CASE UnmountRoot
    <2>1. sys.root # Null /\ (sys' = sys \/ sys' = Unmounted(sys, RootVfs))  BY <1>10 DEF UnmountRoot
    <2>2. RootVfs \in LiveIn(sys)  BY <2>1 DEF SysTrue, UpTrue
    <2>3. SysTrue(Unmounted(sys, RootVfs))  BY <1>1, <2>2, UnmountedTrue
    <2>. QED  BY <1>7, <2>1, <2>3
  <1>11. CASE UnloadModule
    <2>. DEFINE e == [sys EXCEPT !.state = "none"]
    <2>1. sys' = e /\ sys.count = 0  BY <1>11 DEF UnloadModule, Unload
    <2>2. sys.state # "complete"  BY <1>1, <2>1, CountIs DEF SysTrue, UpTrue
    <2>3. /\ e \in SysType /\ e.mnt = sys.mnt /\ e.minors = sys.minors /\ e.tbl = sys.tbl /\ e.root = sys.root
          /\ e.count = sys.count /\ e.subs = sys.subs /\ e.state = "none"
      BY DEF SysTrue, SysType
    <2>. HIDE DEF e
    <2>4. (e.state = "complete") = (sys.state = "complete") /\ \A i \in SubIds : e.subs[i] = sys.subs[i]  BY <2>2, <2>3
    <2>5. SysTrue(e)  BY <2>3, <2>4, Stays
    <2>. QED  BY <1>7, <2>1, <2>5
  <1>. QED  BY <1>8, <1>9, <1>10, <1>11

LEMMA MountsAreSound ==
  ASSUME work \in Workloads, SysTrue(sys)
  PROVE  MountsSound
  <1>1. sys \in SysType /\ MinorsTrue(sys) /\ TblTrue(sys) /\ UpTrue(sys)  BY DEF SysTrue
  <1>2. Live = LiveIn(sys) /\ \A v : NumbersOf(v) = NumsIn(sys, v)  BY DEF Live, LiveIn, NumbersOf, NumsIn
  <1>3. RootVfs \notin Vobs /\ Null \notin Vfss /\ Vfss = Vobs \cup {RootVfs} /\ -1 \notin Minors  BY MountConsts DEF Vfss
  <1>4. \A v \in LiveIn(sys) : NumsIn(sys, v) \subseteq Minors
    <2>. SUFFICES ASSUME NEW v \in LiveIn(sys) PROVE NumsIn(sys, v) \subseteq Minors
      OBVIOUS
    <2>1. sys.mnt[v] \in MntType  BY <1>1 DEF LiveIn, SysType
    <2>. QED  BY <2>1 DEF NumsIn, MntType
  <1>5. sys.minors = UNION {NumbersOf(v) : v \in Live}
    <2>1. sys.minors \subseteq Minors  BY <1>1 DEF SysType
    <2>2. \A n : n \in sys.minors <=> \E v \in LiveIn(sys) : n \in NumsIn(sys, v)  BY <1>1, <1>4, <2>1 DEF MinorsTrue
    <2>. QED  BY <1>2, <2>2
  <1>6. \A v, w \in Live : v # w => NumbersOf(v) \cap NumbersOf(w) = {}  BY <1>1, <1>2 DEF MinorsTrue
  <1>7. \A n \in Minors : (sys.tbl[n] # Null) => sys.tbl[n] \in Live /\ sys.mnt[sys.tbl[n]].minor = n
    BY <1>1, <1>2 DEF TblTrue
  <1>8. FindVfs(sys) = Live \ {RootVfs}
    <2>1. ASSUME NEW v \in FindVfs(sys) PROVE v \in Live \ {RootVfs}
      <3>1. PICK n \in Minors : v = sys.tbl[n] /\ v # Null  BY <2>1 DEF FindVfs
      <3>2. v \in Vobs  BY <1>1, <3>1 DEF SysType
      <3>. QED  BY <1>3, <1>7, <3>1, <3>2
    <2>2. ASSUME NEW v \in Live \ {RootVfs} PROVE v \in FindVfs(sys)
      <3>1. v \in Vobs /\ v # Null /\ v \in LiveIn(sys)  BY <1>2, <1>3, <2>2 DEF LiveIn
      <3>2. sys.mnt[v].minor \in Minors /\ sys.tbl[sys.mnt[v].minor] = v  BY <1>1, <3>1 DEF TblTrue
      <3>. QED  BY <3>1, <3>2 DEF FindVfs
    <2>. QED  BY <2>1, <2>2
  <1>9. sys.count = Cardinality(Live) /\ (sys.root # Null) = (RootVfs \in Live)
    <2>1. RootVfs # Null  BY <1>3
    <2>2. sys.root = IF RootVfs \in Live THEN RootVfs ELSE Null  BY <1>1, <1>2 DEF UpTrue
    <2>3. sys.count = Cardinality(Live)  BY <1>1, <1>2 DEF UpTrue
    <2>. QED  BY <2>1, <2>2, <2>3
  <1>10. sys.subs = [i \in SubIds |-> IF Live = {} THEN 0 ELSE 1]
    <2>. DEFINE L == Live
    <2>1. sys.subs \in [SubIds -> Int] /\ \A i \in SubIds : sys.subs[i] = IF L = {} THEN 0 ELSE 1
      BY <1>1, <1>2 DEF UpTrue, SysType
    <2>. HIDE DEF L
    <2>2. sys.subs = [i \in SubIds |-> IF L = {} THEN 0 ELSE 1]  BY <2>1
    <2>. QED  BY <2>2 DEF L
  <1>11. (sys.state = "complete") = (Live # {})  BY <1>1, <1>2 DEF UpTrue
  <1>. QED  BY <1>5, <1>6, <1>7, <1>8, <1>9, <1>10, <1>11 DEF MountsSound

\* Unless a mount fails where the code frees the vob mounts twice or leaves the view root recorded, the
\* directory of views, the exports and the mounts agree after every command, mount and unmount
\* (mvfs_viewdirexport, mvfs_vget_cd, mfs_vmount_subr, mfs_vunmount, mvfs_misc_init).
THEOREM NamesAreSound == FaultsApart => (Spec => []NamesSound)
  <1>. SUFFICES ASSUME FaultsApart PROVE Spec => []NamesSound
    OBVIOUS
  <1>1. Init => ViewsInv /\ NamesInv /\ SysTrue(sys)
    <2>1. Init => SysTrue(sys)  BY StandingTrue DEF Init
    <2>. QED  BY <2>1, ViewsStart, NamesStart
  <1>2. (ViewsInv /\ NamesInv /\ SysTrue(sys)) /\ [Next]_vars => (ViewsInv /\ NamesInv /\ SysTrue(sys))'
    BY ViewsStep, NamesStep, MountsStep
  <1>3. ViewsInv /\ NamesInv /\ SysTrue(sys) => NamesSound
    BY DirIsSound, MountsAreSound DEF NamesSound, ViewsInv
  <1>. QED  BY <1>1, <1>2, <1>3, PTL DEF Spec
=============================================================================
