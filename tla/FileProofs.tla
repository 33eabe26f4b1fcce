------------------------------ MODULE FileProofs ------------------------------
(***************************************************************************)
(* The invariant of a file, and the theorems of module File that follow.   *)
(*                                                                         *)
(* Good says what holds of the mnode and the view together; Step what any  *)
(* call made under the lock keeps of them, Got and Chosen what getting the *)
(* cleartext and a change of the OID do besides.  These are proved of the  *)
(* operators, call by call; FileInv adds what the threads remember between *)
(* their holds of the lock, and is proved action by action.                *)
(*                                                                         *)
(* The theorems are about workloads in which lookups by name are apart     *)
(* from opens and markers (LookupsApart).  A lookup lets go of the         *)
(* cleartext even of an open file (mfs_ac_modevents and its caller at      *)
(* mvfs_vnodeops.c:7125), and its answer counts as newer than a marker set *)
(* while it was on its way (mvfs_vnodeops.c:2486): with them OpensPaired   *)
(* and MarkerFresh do not hold.                                            *)
(***************************************************************************)
EXTENDS File, FiniteSetTheorems, TLAPS

Modes == {"r", "w", "t"}
Pcs == {"audit", "audited", "cto", "dropped", "events", "fetch", "idle", "io", "judge", "lookup", "marked", "open",
        "opened", "post", "pre", "relock", "set", "setattr", "sync", "use", "write"}
Creds == {CredOf[t] : t \in Threads}
Audits == {AuditOf[t] : t \in Threads} \cup {Null}
MnType ==
  [rv : Vnodes \cup {Null}, nm : Cts \cup {Null}, ro : BOOLEAN, pcvp : BOOLEAN, pnm : BOOLEAN,
   open : Nat, wopen : Nat, creds : SUBSET Creds, young : BOOLEAN,
   ref : [Vnodes -> Nat], cop : [Vnodes -> Nat], oid : Nat, aud : BOOLEAN, ev : Nat, size : Nat,
   mt : Cts, gen : Nat, fetched : Nat, live : BOOLEAN, choidby : Audits,
   cva : Nat, syncc : BOOLEAN, dirty : BOOLEAN, cred : {"none", "r", "w"}, unsynced : BOOLEAN,
   leaked : [Vnodes -> Nat]]
SrvType ==
  [ct : Cts, oid : Nat, aud : BOOLEAN, ev : Nat, size : Nat, cow : BOOLEAN,
   file : [Cts -> 0 .. 2], data : [Vnodes -> Nat]]

Holds(m, v) == IF m.rv = v THEN 1 ELSE 0

\* A name that is marked goes with the cleartext.
Marked(m) == m.pnm /\ m.rv # Null => m.pcvp

Mn(m) ==
  /\ m \in MnType /\ Marked(m)
  /\ m.rv # Null => m.nm = m.rv[1] /\ m.ref[m.rv] > 0
  /\ m.nm # Null => (m.ro <=> m.nm = Sh)
  /\ m.open > 0 => m.rv # Null
  /\ m.creds \cap work.barred = {}

Srv(s) == s \in SrvType /\ s.file[Pv] <= 1 /\ (s.file[Pv] = 1 => s.ct = Pv)
Good(m, s) ==
  /\ Mn(m) /\ Srv(s) /\ (m.nm = Pv => s.ct = Pv)
  /\ m.rv = <<Pv, 1>> => s.file[Pv] = 1

\* What any call does to the mnode
Moves(m, n) ==
  /\ n.open = m.open /\ n.wopen = m.wopen /\ n.leaked = m.leaked /\ n.cop = m.cop
  /\ \A v \in Vnodes : n.ref[v] - Holds(n, v) = m.ref[v] - Holds(m, v)
  /\ m.open > 0 => n.rv = m.rv /\ n.nm = m.nm
  /\ \/ n.gen = m.gen /\ n.fetched = m.fetched /\ n.live = m.live
     \/ n.gen = Word(attrgen) /\ n.fetched = attrgen /\ n.live
Serves(s, z) == (s.ct = Pv => z.ct = Pv) /\ z.cow = s.cow /\ (s.file[Pv] = 1 => z.file[Pv] = 1)
Step(m, s, n, z) ==
  /\ Good(n, z) /\ Moves(m, n) /\ Serves(s, z)
  /\ (s.ct = Pv /\ m.nm # Sh) => n.nm # Sh
Quiet(s, z) == z.file[Pv] = s.file[Pv] /\ z.data = s.data

\* The parts of the mnode that do not matter for the references
Same(m, n) ==
  /\ n.rv = m.rv /\ n.nm = m.nm /\ n.ro = m.ro /\ n.open = m.open /\ n.wopen = m.wopen
  /\ n.ref = m.ref /\ n.cop = m.cop /\ n.leaked = m.leaked /\ n.creds = m.creds
  /\ n.gen = m.gen /\ n.fetched = m.fetched /\ n.live = m.live
  /\ Marked(m) => Marked(n)

LEMMA Facts ==
  /\ Sh # Pv /\ Null # Sh /\ Null # Pv /\ Null \notin Vnodes
  /\ \A v \in Vnodes : v[1] \in Cts /\ (v[1] = Pv => v = <<Pv, 1>>)
  /\ <<Pv, 1>> \in Vnodes /\ GenMod \in Nat /\ GenMod > 1
  BY FileAssumption DEF FileAssumption, Vnodes, Cts

LEMMA SameStep ==
  ASSUME NEW m, NEW s, Good(m, s), NEW n \in MnType, Same(m, n)
  PROVE  Step(m, s, n, s)
  BY DEF Good, Mn, Step, Moves, Serves, Same, Holds

LEMMA StepTrans ==
  ASSUME NEW m, NEW s, NEW n, NEW z, NEW p, NEW q, Good(m, s), Step(m, s, n, z), Step(n, z, p, q)
  PROVE  Step(m, s, p, q)
  <1>1. Moves(m, p)
    <2>1. m \in MnType /\ n \in MnType /\ p \in MnType  BY DEF Step, Good, Mn
    <2>2. \A v \in Vnodes : m.ref[v] \in Nat /\ n.ref[v] \in Nat /\ p.ref[v] \in Nat  BY <2>1 DEF MnType
    <2>. QED  BY <2>2 DEF Step, Moves, Holds
  <1>. QED  BY <1>1 DEF Step, Serves

LEMMA MarkType ==
  ASSUME NEW m \in MnType
  PROVE  /\ MarkPurge(m) \in MnType /\ Same(m, MarkPurge(m))
         /\ MarkNamePurge(m) \in MnType /\ Same(m, MarkNamePurge(m))
         /\ MarkNamePurge(m).pnm /\ (m.rv # Null => MarkNamePurge(m).pcvp)
  <1>1. MarkPurge(m) \in MnType
    <2>1. [m EXCEPT !.pcvp = TRUE] \in MnType  BY DEF MnType
    <2>. QED  BY <2>1 DEF MarkPurge
  <1>2. Same(m, MarkPurge(m)) /\ (m.rv # Null => MarkPurge(m).pcvp)  BY DEF MarkPurge, MnType, Same, Marked
  <1>3. MarkNamePurge(m) \in MnType  BY <1>1 DEF MarkNamePurge, MnType
  <1>4. Same(MarkPurge(m), MarkNamePurge(m)) /\ MarkNamePurge(m).pcvp = MarkPurge(m).pcvp /\ MarkNamePurge(m).pnm
    BY <1>1, <1>2 DEF MarkNamePurge, MnType, Same, Marked
  <1>. QED  BY <1>1, <1>2, <1>3, <1>4 DEF Same, Marked
LEMMA SetCredType ==
  ASSUME NEW m \in MnType, NEW b \in BOOLEAN
  PROVE  MSetCred(m, b) \in MnType /\ Same(m, MSetCred(m, b))
  <1>1. MSetCred(m, b) \in MnType  BY DEF MSetCred, MnType
  <1>2. Same(m, MSetCred(m, b))  BY DEF MSetCred, MnType, Same, Marked
  <1>. QED  BY <1>1, <1>2
LEMMA FlagType ==
  ASSUME NEW m \in MnType, NEW b \in BOOLEAN
  PROVE  /\ [m EXCEPT !.unsynced = b] \in MnType /\ Same(m, [m EXCEPT !.unsynced = b])
         /\ [m EXCEPT !.dirty = b] \in MnType /\ Same(m, [m EXCEPT !.dirty = b])
         /\ [m EXCEPT !.syncc = b] \in MnType /\ Same(m, [m EXCEPT !.syncc = b])
         /\ [m EXCEPT !.young = b] \in MnType /\ Same(m, [m EXCEPT !.young = b])
         /\ [m EXCEPT !.cred = "none"] \in MnType /\ Same(m, [m EXCEPT !.cred = "none"])
  <1>1. [m EXCEPT !.unsynced = b] \in MnType /\ [m EXCEPT !.dirty = b] \in MnType  BY DEF MnType
  <1>2. [m EXCEPT !.syncc = b] \in MnType /\ [m EXCEPT !.young = b] \in MnType BY DEF MnType
  <1>3. [m EXCEPT !.cred = "none"] \in MnType  BY DEF MnType
  <1>4. Same(m, [m EXCEPT !.unsynced = b]) /\ Same(m, [m EXCEPT !.dirty = b])  BY DEF MnType, Same, Marked
  <1>5. Same(m, [m EXCEPT !.syncc = b]) /\ Same(m, [m EXCEPT !.young = b])  BY DEF MnType, Same, Marked
  <1>6. Same(m, [m EXCEPT !.cred = "none"])  BY DEF MnType, Same, Marked
  <1>. QED  BY <1>1, <1>2, <1>3, <1>4, <1>5, <1>6
LEMMA RememberType ==
  ASSUME NEW m \in MnType, NEW t \in Threads
  PROVE  Remember(m, t) \in MnType /\ Same(m, Remember(m, t))
  <1>0. AuditOf[t] \in Audits  BY DEF Audits
  <1>1. Remember(m, t) \in MnType  BY <1>0 DEF Remember, MnType
  <1>2. Same(m, Remember(m, t))  BY DEF Remember, MnType, Same, Marked
  <1>. QED  BY <1>1, <1>2

-----------------------------------------------------------------------------
(* The cleartext of the mnode.                                             *)

LEMMA NewCltxtStep ==
  ASSUME NEW m, Mn(m), m.open = 0, NEW v \in Vnodes \cup {Null},
         v # Null => m.nm = v[1] /\ m.rv # Null
  PROVE  /\ Mn(NewCltxt(m, v)) /\ Moves(m, NewCltxt(m, v))
         /\ NewCltxt(m, v).rv = v /\ NewCltxt(m, v).nm = m.nm
         /\ NewCltxt(m, v).pnm = m.pnm /\ NewCltxt(m, v).pcvp = m.pcvp
  <1>. DEFINE n == NewCltxt(m, v)
              refs == [x \in Vnodes |-> m.ref[x] + (IF x = v THEN 1 ELSE 0) - (IF x = m.rv THEN 1 ELSE 0)]
  <1>0. m \in MnType /\ Null \notin Vnodes /\ m.rv \in Vnodes \cup {Null}  BY Facts DEF Mn, MnType
  <1>1. ReleaseCreds(m) \in MnType /\ ReleaseCreds(m).ref = m.ref /\ ReleaseCreds(m).creds = {}
    BY <1>0 DEF ReleaseCreds, MnType
  <1>2. n = [ReleaseCreds(m) EXCEPT !.rv = v, !.ref = refs]  BY <1>1 DEF NewCltxt
  <1>3. \A x \in Vnodes : m.ref[x] \in Nat /\ (x = m.rv => m.ref[x] > 0)  BY <1>0 DEF Mn, MnType
  <1>4. refs \in [Vnodes -> Nat]  BY <1>3
  <1>5. n \in MnType
    <2>. HIDE DEF refs, n
    <2>. QED  BY <1>1, <1>2, <1>4 DEF MnType
  <1>6. /\ n.rv = v /\ n.nm = m.nm /\ n.ro = m.ro /\ n.creds = {} /\ n.open = m.open /\ n.wopen = m.wopen
        /\ n.leaked = m.leaked /\ n.cop = m.cop /\ n.gen = m.gen /\ n.fetched = m.fetched /\ n.live = m.live
        /\ n.pnm = m.pnm /\ n.pcvp = m.pcvp
    BY <1>0, <1>1, <1>2 DEF MnType, ReleaseCreds
  <1>7. n.ref = refs
    BY <1>1, <1>2 DEF MnType
  <1>8. v # Null => n.ref[v] > 0  BY <1>3, <1>7
  <1>9. Moves(m, n)  BY <1>3, <1>6, <1>7 DEF Moves, Holds
  <1>10. Mn(n)  BY <1>5, <1>6, <1>8 DEF Mn, Marked
  <1>. QED  BY <1>6, <1>9, <1>10

\* A mnode that is not open lets go of what is marked.
LEMMA ReleStep ==
  ASSUME NEW m, Mn(m), m.open = 0
  PROVE  /\ Mn(ClearRele(m)) /\ Moves(m, ClearRele(m))
         /\ ClearRele(m).nm \in {m.nm, Null} /\ ClearRele(m).rv \in {m.rv, Null}
         /\ m.pnm => ClearRele(m).rv = Null /\ ClearRele(m).nm = Null
  <1>. DEFINE b == IF m.rv # Null /\ m.pcvp THEN NewCltxt(m, Null) ELSE m
              c == IF b.nm # Null /\ b.pnm THEN [ReleaseCreds(b) EXCEPT !.nm = Null] ELSE b
              d == [c EXCEPT !.pnm = FALSE, !.pcvp = FALSE, !.dirty = FALSE]
  <1>1. ClearRele(m) = IF ~(m.pnm \/ m.pcvp) THEN m ELSE d  BY DEF ClearRele
  <1>2. CASE ~(m.pnm \/ m.pcvp)
    <2>1. Moves(m, m)  BY DEF Moves
    <2>. QED  BY <1>1, <1>2, <2>1
  <1>3. CASE m.pnm \/ m.pcvp
    <2>1. /\ Mn(b) /\ Moves(m, b) /\ b.rv = Null /\ b.nm = m.nm /\ b.pnm = m.pnm /\ b.open = 0
      <3>1. CASE m.rv # Null /\ m.pcvp  BY <3>1, NewCltxtStep DEF Moves
      <3>2. CASE ~(m.rv # Null /\ m.pcvp)  BY <3>2, <1>3 DEF Moves, Mn, Marked
      <3>. QED  BY <3>1, <3>2
    <2>2. b \in MnType  BY <2>1 DEF Mn
    <2>3. CASE b.nm # Null /\ b.pnm
      <3>1. c = [b EXCEPT !.creds = {}, !.nm = Null]  BY <2>2, <2>3 DEF ReleaseCreds, MnType
      <3>2. d = [b EXCEPT !.creds = {}, !.nm = Null, !.pnm = FALSE, !.pcvp = FALSE, !.dirty = FALSE]
        BY <2>2, <3>1 DEF MnType
      <3>. HIDE DEF b, c, d
      <3>3. d \in MnType  BY <2>2, <3>2 DEF MnType
      <3>4. /\ d.rv = b.rv /\ d.nm = Null /\ d.creds = {} /\ d.open = b.open /\ d.wopen = b.wopen
            /\ d.leaked = b.leaked /\ d.cop = b.cop /\ d.gen = b.gen /\ d.fetched = b.fetched
            /\ d.live = b.live /\ d.ref = b.ref /\ ~d.pnm
        BY <2>2, <3>2 DEF MnType
      <3>5. Mn(d)  BY <2>1, <3>3, <3>4 DEF Mn, Marked
      <3>6. Moves(m, d)  BY <2>1, <3>4 DEF Moves, Holds
      <3>. QED  BY <1>1, <1>3, <2>1, <3>4, <3>5, <3>6
    <2>4. CASE ~(b.nm # Null /\ b.pnm)
      <3>1. c = b  BY <2>4
      <3>2. d = [b EXCEPT !.pnm = FALSE, !.pcvp = FALSE, !.dirty = FALSE]  BY <3>1
      <3>. HIDE DEF b, c, d
      <3>3. d \in MnType  BY <2>2, <3>2 DEF MnType
      <3>4. /\ d.rv = b.rv /\ d.nm = b.nm /\ d.creds = b.creds /\ d.open = b.open /\ d.wopen = b.wopen
            /\ d.leaked = b.leaked /\ d.cop = b.cop /\ d.gen = b.gen /\ d.fetched = b.fetched
            /\ d.live = b.live /\ d.ref = b.ref /\ ~d.pnm /\ d.ro = b.ro
        BY <2>2, <3>2 DEF MnType
      <3>5. Mn(d)  BY <2>1, <3>3, <3>4 DEF Mn, Marked
      <3>6. Moves(m, d)  BY <2>1, <3>4 DEF Moves, Holds
      <3>. QED  BY <1>1, <1>3, <2>1, <2>4, <3>4, <3>5, <3>6
    <2>. QED  BY <2>3, <2>4
  <1>. QED  BY <1>2, <1>3

LEMMA ClearAttrStep ==
  ASSUME NEW m, NEW s, Good(m, s), NEW o \in ClearAttr(m, s)
  PROVE  /\ Step(m, s, o.mn, o.srv) /\ Same(m, o.mn) /\ o.srv = s /\ o.did = FALSE
         /\ m.rv = Null \/ Alive(s, m.rv) => o.err = "ok"
  <1>1. m \in MnType /\ s \in SrvType  BY DEF Good, Mn, Srv
  <1>2. CASE m.rv = Null
    <2>1. o.mn = m /\ o.srv = s /\ o.did = FALSE /\ o.err = "ok"  BY <1>2 DEF ClearAttr, Ok, Out
    <2>. QED  BY <1>1, <2>1, SameStep DEF Same
  <1>3. CASE m.rv # Null /\ ~Alive(s, m.rv)
    <2>1. o.mn = MarkPurge(m) /\ o.srv = s /\ o.did = FALSE  BY <1>3 DEF ClearAttr, Err, Out
    <2>. QED  BY <1>1, <1>3, <2>1, SameStep, MarkType
  <1>4. CASE m.rv # Null /\ Alive(s, m.rv)
    <2>. DEFINE n == [m EXCEPT !.cva = s.data[m.rv], !.syncc = @ \/ m.cva # s.data[m.rv]]
    <2>1. o.mn = n /\ o.srv = s /\ o.did = FALSE /\ o.err = "ok"  BY <1>4 DEF ClearAttr, Ok, Out
    <2>2. s.data[m.rv] \in Nat  BY <1>1, <1>4 DEF MnType, SrvType
    <2>3. n \in MnType  BY <1>1, <2>2 DEF MnType
    <2>4. Same(m, n)  BY <1>1 DEF MnType, Same, Marked
    <2>. QED  BY <2>1, <2>3, <2>4, SameStep
  <1>. QED  BY <1>2, <1>3, <1>4

LEMMA BoundStep ==
  ASSUME NEW m, NEW s, Good(m, s), m.rv = Null, NEW v \in Vnodes, m.nm = v[1],
         v = <<Pv, 1>> => s.file[Pv] = 1
  PROVE  Step(m, s, Bound(m, v), s) /\ Bound(m, v).rv = v
  <1>. DEFINE n == Bound(m, v)
  <1>1. m \in MnType /\ Null \notin Vnodes /\ m.open = 0  BY Facts DEF Good, Mn, MnType
  <1>2. m.ref[v] \in Nat  BY <1>1 DEF MnType
  <1>3. n \in MnType
    <2>. DEFINE refs == [m.ref EXCEPT ![v] = @ + 1]
    <2>1. refs \in [Vnodes -> Nat]  BY <1>1 DEF MnType
    <2>2. n = [m EXCEPT !.rv = v, !.ref = refs, !.pnm = FALSE, !.pcvp = FALSE]  BY <1>1 DEF Bound, MnType
    <2>. HIDE DEF n, refs
    <2>. QED  BY <1>1, <2>1, <2>2 DEF MnType
  <1>4. /\ n.rv = v /\ n.nm = m.nm /\ n.creds = m.creds /\ n.open = m.open /\ n.wopen = m.wopen
        /\ n.leaked = m.leaked /\ n.cop = m.cop /\ n.gen = m.gen /\ n.fetched = m.fetched
        /\ n.live = m.live /\ n.ref = [m.ref EXCEPT ![v] = @ + 1] /\ ~n.pnm /\ n.ro = m.ro
    BY <1>1 DEF Bound, MnType
  <1>. HIDE DEF n
  <1>5. \A x \in Vnodes : m.ref[x] \in Nat /\ n.ref[x] = m.ref[x] + (IF x = v THEN 1 ELSE 0)
    BY <1>1, <1>4 DEF MnType
  <1>6. Mn(n)  BY <1>2, <1>3, <1>4, <1>5 DEF Good, Mn, Marked
  <1>7. Moves(m, n)  BY <1>1, <1>4, <1>5 DEF Moves, Holds
  <1>. QED  BY <1>4, <1>6, <1>7 DEF Step, Good, Serves, n

LEMMA UnmarkedStep ==
  ASSUME NEW m, NEW s, Good(m, s)
  PROVE  Step(m, s, Unmarked(m), s) /\ Unmarked(m).rv = m.rv
  <1>1. m \in MnType  BY DEF Good, Mn
  <1>2. Unmarked(m) \in MnType  BY <1>1 DEF Unmarked, MnType
  <1>3. Same(m, Unmarked(m))  BY <1>1 DEF Unmarked, MnType, Same, Marked
  <1>. QED  BY <1>2, <1>3, SameStep DEF Same

\* A name that is forgotten, of a mnode that has no cleartext
LEMMA NoNameStep ==
  ASSUME NEW m, NEW s, Good(m, s), m.rv = Null
  PROVE  LET n == [m EXCEPT !.nm = Null] IN Step(m, s, n, s) /\ n.rv = Null /\ n.nm = Null
  <1>. DEFINE n == [m EXCEPT !.nm = Null]
  <1>1. m \in MnType /\ m.open = 0  BY DEF Good, Mn, MnType
  <1>2. n \in MnType  BY <1>1 DEF MnType
  <1>3. /\ n.rv = m.rv /\ n.nm = Null /\ n.creds = m.creds /\ n.open = m.open /\ n.wopen = m.wopen
        /\ n.leaked = m.leaked /\ n.cop = m.cop /\ n.gen = m.gen /\ n.fetched = m.fetched
        /\ n.live = m.live /\ n.ref = m.ref
    BY <1>1 DEF MnType
  <1>. HIDE DEF n
  <1>4. Mn(n)  BY <1>1, <1>2, <1>3 DEF Good, Mn, Marked
  <1>5. Moves(m, n)  BY <1>1, <1>3 DEF Moves, Holds
  <1>6. Null # Sh /\ Null # Pv  BY Facts
  <1>. QED  BY <1>3, <1>4, <1>5, <1>6 DEF Step, Good, Serves, n

LEMMA RebindStep ==
  ASSUME NEW m, NEW s, Good(m, s), m.open = 0, NEW v \in Vnodes \cup {Null},
         v # Null => m.nm = v[1] /\ m.rv # Null, v = <<Pv, 1>> => s.file[Pv] = 1
  PROVE  Step(m, s, NewCltxt(m, v), s)
  BY NewCltxtStep DEF Step, Good, Serves

\* The name of the cleartext comes from the view.
LEMMA CltxtStep ==
  ASSUME NEW m, NEW s, Good(m, s), NEW o \in Cltxt(m, s)
  PROVE  /\ Step(m, s, o.mn, o.srv) /\ Quiet(s, o.srv) /\ o.did = FALSE
         /\ o.mn.rv = m.rv /\ o.mn.open = m.open
         /\ m.nm = Null /\ o.err # "ok" => o.mn = m /\ o.srv = s
         /\ m.nm = Null /\ o.err = "ok" => o.mn.nm = s.ct /\ (o.mn.ro <=> s.ct = Sh)
         /\ o.srv.ct = s.ct
  <1>1. m \in MnType /\ s \in SrvType  BY DEF Good, Mn, Srv
  <1>0. Step(m, s, m, s) /\ Quiet(s, s)  BY <1>1, SameStep DEF Same, Quiet
  <1>2. CASE m.nm # Null
    <2>1. o.mn = m /\ o.srv = s /\ o.did = FALSE  BY <1>2 DEF Cltxt, Ok, Out
    <2>. QED  BY <1>0, <1>2, <2>1
  <1>3. CASE m.nm = Null /\ o = Out(m, s, "rpc")
    <2>1. o.mn = m /\ o.srv = s /\ o.did = FALSE /\ o.err = "rpc"  BY <1>3 DEF Out
    <2>. QED  BY <1>0, <1>3, <2>1
  <1>4. CASE m.nm = Null /\ o # Out(m, s, "rpc")
    <2>. DEFINE n == SetCpname(m, s.ct)
                z == IF s.ct = Sh /\ s.file[Sh] = 0 THEN [s EXCEPT !.file[Sh] = 2] ELSE s
    <2>1. o.mn = n /\ o.srv = z /\ o.did = FALSE /\ o.err = "ok"  BY <1>4 DEF Cltxt, Rpc, Ok, Err, Out
    <2>2. m.rv = Null /\ m.open = 0 /\ s.ct \in Cts /\ Null \notin Cts /\ Sh # Pv /\ Cts = {Sh, Pv}
      BY <1>1, <1>4, Facts DEF Good, Mn, MnType, SrvType, Cts, Vnodes
    <2>3. n \in MnType
      <3>1. (s.ct = Sh) \in BOOLEAN  OBVIOUS
      <3>2. n = [m EXCEPT !.nm = s.ct, !.ro = (s.ct = Sh)]  BY DEF SetCpname
      <3>. DEFINE b == s.ct = Sh
      <3>. HIDE DEF n, b
      <3>3. b \in BOOLEAN /\ n = [m EXCEPT !.nm = s.ct, !.ro = b]  BY <3>1, <3>2 DEF b
      <3>. QED  BY <1>1, <2>2, <3>3 DEF MnType
    <2>4. /\ n.rv = m.rv /\ n.nm = s.ct /\ (n.ro <=> s.ct = Sh) /\ n.creds = m.creds /\ n.open = m.open
          /\ n.wopen = m.wopen /\ n.leaked = m.leaked /\ n.cop = m.cop /\ n.gen = m.gen
          /\ n.fetched = m.fetched /\ n.live = m.live /\ n.ref = m.ref
      BY <1>1 DEF SetCpname, MnType
    <2>5. /\ z \in SrvType /\ z.ct = s.ct /\ z.cow = s.cow /\ z.file[Pv] = s.file[Pv] /\ z.data = s.data
      BY <1>1, <2>2 DEF SrvType
    <2>. HIDE DEF n, z
    <2>6. Mn(n)  BY <2>2, <2>3, <2>4 DEF Good, Mn, Marked
    <2>7. Moves(m, n)  BY <2>2, <2>4 DEF Moves, Holds
    <2>8. Srv(z)  BY <2>5 DEF Good, Srv
    <2>9. Step(m, s, n, z)  BY <2>2, <2>4, <2>5, <2>6, <2>7, <2>8 DEF Step, Good, Serves
    <2>. QED  BY <1>4, <2>1, <2>4, <2>5, <2>9 DEF Quiet
  <1>. QED  BY <1>2, <1>3, <1>4

-----------------------------------------------------------------------------
(* mfs_getcleartext                                                        *)

\* The cleartext was found for credential c, or not.
Got(m, s, c, o) ==
  /\ Step(m, s, o.mn, o.srv) /\ Quiet(s, o.srv) /\ o.did = FALSE
  /\ o.err = "ok" => o.mn.rv # Null /\ c \notin work.barred

LEMMA GotTrans ==
  ASSUME NEW m, NEW s, NEW n, NEW c, NEW o, Good(m, s), Step(m, s, n, s), Got(n, s, c, o)
  PROVE  Got(m, s, c, o)
  BY StepTrans DEF Got

LEMMA DoneGot ==
  ASSUME NEW m, NEW s, NEW t \in Threads, Good(m, s), m.rv # Null,
         CredOf[t] \notin work.barred, NEW o \in Done(m, s, CredOf[t])
  PROVE  Got(m, s, CredOf[t], o)
  <1>. DEFINE n == [RecordCred(m, CredOf[t]) EXCEPT !.young = TRUE]
  <1>1. m \in MnType  BY DEF Good, Mn
  <1>2. o.mn = n /\ o.srv = s /\ o.did = FALSE  BY DEF Done, Ok, Out
  <1>3. n = [m EXCEPT !.creds = m.creds \cup {CredOf[t]}, !.young = TRUE]  BY <1>1 DEF RecordCred, MnType
  <1>. HIDE DEF n
  <1>4. n \in MnType
    <2>. DEFINE cs == m.creds \cup {CredOf[t]}
    <2>1. cs \in SUBSET Creds  BY <1>1 DEF MnType, Creds
    <2>2. n = [m EXCEPT !.creds = cs, !.young = TRUE]  BY <1>3
    <2>. HIDE DEF n, cs
    <2>. QED  BY <1>1, <2>1, <2>2 DEF MnType
  <1>5. /\ n.rv = m.rv /\ n.nm = m.nm /\ n.ro = m.ro /\ n.creds = m.creds \cup {CredOf[t]} /\ n.open = m.open
        /\ n.wopen = m.wopen /\ n.leaked = m.leaked /\ n.cop = m.cop /\ n.gen = m.gen
        /\ n.fetched = m.fetched /\ n.live = m.live /\ n.ref = m.ref /\ n.pnm = m.pnm /\ n.pcvp = m.pcvp
    BY <1>1, <1>3 DEF MnType
  <1>6. Mn(n)  BY <1>4, <1>5 DEF Good, Mn, Marked
  <1>7. Moves(m, n)  BY <1>5 DEF Moves, Holds
  <1>8. Step(m, s, n, s)  BY <1>5, <1>6, <1>7 DEF Step, Good, Serves
  <1>. QED  BY <1>2, <1>5, <1>8 DEF Got, Quiet

LEMMA FinishOf ==
  ASSUME NEW m, NEW s, NEW c, NEW o \in Finish(m, s, c)
  PROVE  \E a \in ClearAttr(m, s) : IF a.err = "ok" THEN o \in Done(a.mn, a.srv, c) ELSE o = a
  BY DEF Finish, Then
LEMMA FinishGot ==
  ASSUME NEW m, NEW s, NEW t \in Threads, Good(m, s), m.rv # Null,
         CredOf[t] \notin work.barred, NEW o \in Finish(m, s, CredOf[t])
  PROVE  Got(m, s, CredOf[t], o)
  <1>1. PICK a \in ClearAttr(m, s) : IF a.err = "ok" THEN o \in Done(a.mn, a.srv, CredOf[t]) ELSE o = a
    BY FinishOf
  <1>2. /\ Step(m, s, a.mn, a.srv) /\ Same(m, a.mn) /\ a.srv = s /\ a.did = FALSE  BY ClearAttrStep
  <1>3. Good(a.mn, s) /\ a.mn.rv # Null  BY <1>2 DEF Step, Same
  <1>4. CASE a.err = "ok"  BY <1>1, <1>2, <1>3, <1>4, DoneGot, GotTrans
  <1>5. CASE a.err # "ok"  BY <1>1, <1>2, <1>5 DEF Got, Quiet
  <1>. QED  BY <1>4, <1>5

LEMMA FromViewOf ==
  ASSUME NEW m, NEW s, NEW c, NEW o \in FromView(m, s, c)
  PROVE  \E p \in Cltxt(m, s) :
           IF p.err # "ok" THEN o = p
           ELSE LET v == Lookup(p.srv, p.mn.nm, c)
                IN  IF v = Null THEN o \in Err(ClearRele(MarkNamePurge(p.mn)), p.srv, "enxio")
                    ELSE o \in Finish(Bound(p.mn, v), p.srv, c)
  BY DEF FromView, Then

LEMMA Looked ==
  ASSUME NEW s, Srv(s), NEW ct \in Cts, NEW c
  PROVE  LET v == Lookup(s, ct, c)
         IN  v # Null => v \in Vnodes /\ v[1] = ct /\ c \notin work.barred /\ (v = <<Pv, 1>> => s.file[Pv] = 1)
  <1>1. s.file[ct] \in 0 .. 2 /\ s.file[Pv] <= 1  BY DEF Srv, SrvType
  <1>. QED  BY <1>1 DEF Lookup, Vnodes, Cts

LEMMA FromViewGot ==
  ASSUME NEW m, NEW s, NEW t \in Threads, Good(m, s), m.nm = Null, NEW o \in FromView(m, s, CredOf[t])
  PROVE  Got(m, s, CredOf[t], o)
  <1>. DEFINE c == CredOf[t]
  <1>1. PICK p \in Cltxt(m, s) :
           IF p.err # "ok" THEN o = p
           ELSE LET v == Lookup(p.srv, p.mn.nm, c)
                IN  IF v = Null THEN o \in Err(ClearRele(MarkNamePurge(p.mn)), p.srv, "enxio")
                    ELSE o \in Finish(Bound(p.mn, v), p.srv, c)
    BY FromViewOf
  <1>2. m.rv = Null /\ m.open = 0 /\ m.nm \notin Cts  BY Facts DEF Good, Mn, MnType, Cts
  <1>3. /\ Step(m, s, p.mn, p.srv) /\ Quiet(s, p.srv) /\ p.did = FALSE /\ p.mn.rv = Null /\ p.mn.open = 0
        /\ p.err = "ok" => p.mn.nm = s.ct
    BY <1>2, CltxtStep
  <1>4. Good(p.mn, p.srv) /\ Srv(p.srv) /\ s.ct \in Cts  BY <1>3 DEF Step, Good, Srv, SrvType
  <1>5. CASE p.err # "ok"  BY <1>1, <1>3, <1>5 DEF Got
  <1>6. CASE p.err = "ok" /\ Lookup(p.srv, p.mn.nm, c) = Null
    <2>. DEFINE n == MarkNamePurge(p.mn)
    <2>1. o.mn = ClearRele(n) /\ o.srv = p.srv /\ o.err = "enxio" /\ o.did = FALSE
      BY <1>1, <1>6 DEF Err, Out
    <2>2. Step(p.mn, p.srv, n, p.srv) /\ n.pnm /\ n.open = 0
      BY <1>3, <1>4, MarkType, SameStep DEF Good, Mn, Same
    <2>3. Step(n, p.srv, ClearRele(n), p.srv)
      BY <2>2, ReleStep, Facts DEF Step, Good, Serves
    <2>4. Step(m, s, ClearRele(n), p.srv)  BY <1>3, <1>4, <2>2, <2>3, StepTrans DEF Step
    <2>. QED  BY <1>3, <2>1, <2>4 DEF Got
  <1>7. CASE p.err = "ok" /\ Lookup(p.srv, p.mn.nm, c) # Null
    <2>. DEFINE v == Lookup(p.srv, p.mn.nm, c)
                n == Bound(p.mn, v)
    <2>1. v \in Vnodes /\ v[1] = p.mn.nm /\ c \notin work.barred /\ (v = <<Pv, 1>> => p.srv.file[Pv] = 1)
      BY <1>3, <1>4, <1>7, Looked
    <2>2. Step(p.mn, p.srv, n, p.srv) /\ n.rv = v  BY <1>3, <1>4, <2>1, BoundStep
    <2>3. Got(n, p.srv, c, o)  BY <1>1, <1>7, <2>1, <2>2, FinishGot, Facts DEF Step
    <2>4. Step(m, s, n, p.srv)  BY <1>3, <2>2, StepTrans
    <2>5. Step(m, s, o.mn, o.srv)  BY <2>3, <2>4, StepTrans DEF Got
    <2>. QED  BY <1>3, <2>3, <2>5 DEF Got, Quiet
  <1>. QED  BY <1>5, <1>6, <1>7

LEMMA FindItGot ==
  ASSUME NEW m, NEW s, NEW t \in Threads, Good(m, s), NEW o \in FindIt(m, s, CredOf[t])
  PROVE  Got(m, s, CredOf[t], o)
  <1>. DEFINE c == CredOf[t]
              v == Lookup(s, m.nm, c)
  <1>0. m \in MnType /\ Srv(s) /\ m.nm \in Cts \cup {Null} /\ (m.nm # Null => m.nm \in Cts) /\ Null \notin Vnodes /\ Null # <<Pv, 1>>
    BY Facts DEF Good, Mn, MnType
  <1>1. m.nm # Null /\ v # Null =>
          v \in Vnodes /\ v[1] = m.nm /\ c \notin work.barred /\ (v = <<Pv, 1>> => s.file[Pv] = 1)
    BY <1>0, Looked
  <1>2. CASE m.nm = Null
    <2>1. o \in FromView(m, s, c)  BY <1>2 DEF FindIt
    <2>. QED  BY <1>2, <2>1, FromViewGot
  <1>3. CASE m.nm # Null /\ m.rv = Null /\ v # Null
    <2>1. o \in Finish(Bound(m, v), s, c)  BY <1>3 DEF FindIt
    <2>2. Step(m, s, Bound(m, v), s) /\ Bound(m, v).rv = v  BY <1>1, <1>3, BoundStep
    <2>3. Got(Bound(m, v), s, c, o)  BY <1>0, <1>1, <1>3, <2>1, <2>2, FinishGot DEF Step
    <2>. QED  BY <2>2, <2>3, GotTrans
  <1>4. CASE m.nm # Null /\ m.rv = Null /\ v = Null
    <2>. DEFINE n == [m EXCEPT !.nm = Null]
    <2>1. o \in FromView(n, s, c)  BY <1>4 DEF FindIt
    <2>2. Step(m, s, n, s) /\ n.nm = Null  BY <1>4, NoNameStep
    <2>. HIDE DEF n
    <2>3. Got(n, s, c, o)  BY <2>1, <2>2, FromViewGot DEF Step
    <2>. QED  BY <2>2, <2>3, GotTrans
  <1>5. CASE m.nm # Null /\ m.rv # Null /\ v = m.rv
    <2>1. o \in Finish(m, s, c)  BY <1>5 DEF FindIt
    <2>. QED  BY <1>1, <1>5, <2>1, FinishGot
  <1>6. CASE m.nm # Null /\ m.rv # Null /\ v \notin {Null, m.rv}
    <2>1. CASE m.open = 0
      <3>. DEFINE n == NewCltxt(m, v)
      <3>1. o \in Finish(Unmarked(n), s, c)  BY <1>6, <2>1 DEF FindIt
      <3>2. Step(m, s, n, s) /\ n.rv = v  BY <1>1, <1>6, <2>1, RebindStep, NewCltxtStep DEF Good
      <3>3. Step(n, s, Unmarked(n), s) /\ Unmarked(n).rv = v  BY <3>2, UnmarkedStep DEF Step
      <3>4. Step(m, s, Unmarked(n), s)  BY <3>2, <3>3, StepTrans
      <3>5. Got(Unmarked(n), s, c, o)  BY <1>0, <1>1, <1>6, <3>1, <3>3, <3>4, FinishGot DEF Step
      <3>. QED  BY <3>4, <3>5, GotTrans
    <2>2. CASE m.open # 0
      <3>1. o \in Err(MarkPurge(m), s, "stale")  BY <1>6, <2>2 DEF FindIt
      <3>2. o.mn = MarkPurge(m) /\ o.srv = s /\ o.err = "stale" /\ o.did = FALSE  BY <3>1 DEF Err, Out
      <3>3. Step(m, s, MarkPurge(m), s)  BY <1>0, MarkType, SameStep
      <3>. QED  BY <3>2, <3>3 DEF Got, Quiet
    <2>. QED  BY <2>1, <2>2
  <1>7. CASE m.nm # Null /\ m.rv # Null /\ v = Null
    <2>1. CASE m.open = 0
      <3>. DEFINE k == [m EXCEPT !.nm = Null]
                  l == NewCltxt(m, Null)
                  n == [l EXCEPT !.nm = Null]
      <3>1. o \in FromView(NewCltxt(k, Null), s, c)  BY <1>7, <2>1 DEF FindIt
      <3>2. NewCltxt(k, Null) = n  BY <1>0 DEF NewCltxt, ReleaseCreds, MnType
      <3>3. Step(m, s, l, s) /\ l.rv = Null  BY <1>0, <2>1, RebindStep, NewCltxtStep DEF Good
      <3>4. Step(l, s, n, s) /\ n.nm = Null  BY <3>3, NoNameStep DEF Step
      <3>5. Step(m, s, n, s)  BY <3>3, <3>4, StepTrans
      <3>. HIDE DEF k, l, n
      <3>6. Got(n, s, c, o)  BY <3>1, <3>2, <3>4, FromViewGot DEF Step
      <3>. QED  BY <3>5, <3>6, GotTrans
    <2>2. CASE m.open # 0
      <3>1. PICK n \in {m, MarkPurge(m)} : o.mn = n /\ o.srv = s /\ o.err # "ok" /\ o.did = FALSE
        BY <1>7, <2>2 DEF FindIt, Err, Out
      <3>2. Step(m, s, m, s) /\ Step(m, s, MarkPurge(m), s)  BY <1>0, MarkType, SameStep DEF Same
      <3>. QED  BY <3>1, <3>2 DEF Got, Quiet
    <2>. QED  BY <2>1, <2>2
  <1>. QED  BY <1>2, <1>3, <1>4, <1>5, <1>6, <1>7

LEMMA GetGot ==
  ASSUME NEW m, NEW s, NEW t \in Threads, Good(m, s), NEW o \in GetCleartext(m, s, CredOf[t])
  PROVE  Got(m, s, CredOf[t], o)
  <1>. DEFINE c == CredOf[t]
  <1>0. m \in MnType /\ Null # <<Pv, 1>>  BY Facts DEF Good, Mn
  <1>1. CASE m.rv = Null \/ ~FindCred(m, c)
    <2>1. o \in FindIt(m, s, c)  BY <1>1 DEF GetCleartext
    <2>. QED  BY <2>1, FindItGot
  <1>2. CASE m.rv # Null /\ FindCred(m, c) /\ (m.young \/ Alive(s, m.rv))
    <2>1. o \in Done(m, s, c)  BY <1>2 DEF GetCleartext
    <2>2. c \notin work.barred  BY <1>2 DEF FindCred, Good, Mn
    <2>. QED  BY <1>2, <2>1, <2>2, DoneGot
  <1>3. CASE m.rv # Null /\ FindCred(m, c) /\ ~(m.young \/ Alive(s, m.rv)) /\ m.open = 0
    <2>1. o \in FindIt(NewCltxt(m, Null), s, c)  BY <1>3 DEF GetCleartext
    <2>2. Step(m, s, NewCltxt(m, Null), s)  BY <1>0, <1>3, RebindStep
    <2>3. Got(NewCltxt(m, Null), s, c, o)  BY <2>1, <2>2, FindItGot DEF Step
    <2>. QED  BY <2>2, <2>3, GotTrans
  <1>4. CASE m.rv # Null /\ FindCred(m, c) /\ ~(m.young \/ Alive(s, m.rv)) /\ m.open # 0
    <2>1. o.mn = MarkPurge(m) /\ o.srv = s /\ o.err = "stale" /\ o.did = FALSE
      BY <1>4 DEF GetCleartext, Err, Out
    <2>2. Step(m, s, MarkPurge(m), s)  BY <1>0, MarkType, SameStep
    <2>. QED  BY <2>1, <2>2 DEF Got, Quiet
  <1>. QED  BY <1>1, <1>2, <1>3, <1>4

-----------------------------------------------------------------------------
(* The attribute cache.                                                    *)

LEMMA WordNat == ASSUME NEW g \in Nat PROVE Word(g) \in Nat
  BY Facts DEF Word

LEMMA SetStatType ==
  ASSUME NEW m \in MnType, NEW s \in SrvType, NEW g \in Nat, attrgen \in Nat
  PROVE  LET n == SetStat(m, s, g)
         IN  /\ n \in MnType /\ n.gen = Word(attrgen) /\ n.fetched = g /\ n.live
             /\ n.rv = m.rv /\ n.nm = m.nm /\ n.ro = m.ro /\ n.open = m.open /\ n.wopen = m.wopen
             /\ n.ref = m.ref /\ n.cop = m.cop /\ n.leaked = m.leaked /\ n.creds = m.creds
             /\ n.pnm = m.pnm /\ n.pcvp = m.pcvp
  <1>. DEFINE n == SetStat(m, s, g)
              w == Word(attrgen)
  <1>1. w \in Nat  BY WordNat
  <1>2. s.oid \in Nat /\ s.aud \in BOOLEAN /\ s.ev \in Nat /\ s.size \in Nat /\ s.ct \in Cts  BY DEF SrvType
  <1>3. n = [m EXCEPT !.oid = s.oid, !.aud = s.aud, !.ev = s.ev, !.size = s.size, !.mt = s.ct,
               !.gen = w, !.fetched = g, !.live = TRUE]
    BY DEF SetStat
  <1>. HIDE DEF n, w
  <1>4. n \in MnType  BY <1>1, <1>2, <1>3 DEF MnType
  <1>5. /\ n.gen = w /\ n.fetched = g /\ n.live
        /\ n.rv = m.rv /\ n.nm = m.nm /\ n.ro = m.ro /\ n.open = m.open /\ n.wopen = m.wopen
        /\ n.ref = m.ref /\ n.cop = m.cop /\ n.leaked = m.leaked /\ n.creds = m.creds
        /\ n.pnm = m.pnm /\ n.pcvp = m.pcvp
    BY <1>3 DEF MnType
  <1>. QED  BY <1>4, <1>5 DEF n, w

LEMMA SetStatStep ==
  ASSUME NEW m, NEW s, Good(m, s), attrgen \in Nat
  PROVE  LET n == SetStat(m, s, attrgen) IN Step(m, s, n, s) /\ n.nm = m.nm /\ n.rv = m.rv /\ n.fetched = attrgen
  <1>. DEFINE n == SetStat(m, s, attrgen)
  <1>1. m \in MnType /\ s \in SrvType  BY DEF Good, Mn, Srv
  <1>2. /\ n \in MnType /\ n.gen = Word(attrgen) /\ n.fetched = attrgen /\ n.live
        /\ n.rv = m.rv /\ n.nm = m.nm /\ n.ro = m.ro /\ n.open = m.open /\ n.wopen = m.wopen
        /\ n.ref = m.ref /\ n.cop = m.cop /\ n.leaked = m.leaked /\ n.creds = m.creds
        /\ n.pnm = m.pnm /\ n.pcvp = m.pcvp
    BY <1>1, SetStatType
  <1>. HIDE DEF n
  <1>3. Mn(n)  BY <1>2 DEF Good, Mn, Marked
  <1>4. Moves(m, n)  BY <1>2 DEF Moves, Holds
  <1>5. Step(m, s, n, s)  BY <1>2, <1>3, <1>4 DEF Step, Good, Serves
  <1>. QED  BY <1>2, <1>5 DEF n

LEMMA ReleaseStep ==
  ASSUME NEW m, NEW s, Good(m, s), m.open = 0
  PROVE  /\ Step(m, s, ClearRele(m), s) /\ ClearRele(m).nm \in {m.nm, Null}
         /\ m.pnm => ClearRele(m).rv = Null /\ ClearRele(m).nm = Null
  BY ReleStep, Facts DEF Step, Good, Serves

LEMMA PurgeStep ==
  ASSUME NEW m, NEW s, Good(m, s)
  PROVE  /\ Step(m, s, MarkNamePurge(m), s) /\ MarkNamePurge(m).nm = m.nm /\ MarkNamePurge(m).pnm
         /\ MarkNamePurge(m).open = m.open
  BY MarkType, SameStep DEF Good, Mn, Same

LEMMA SelfStep ==
  ASSUME NEW m, NEW s, Good(m, s)
  PROVE  Step(m, s, m, s) /\ Quiet(s, s)
  BY SameStep DEF Good, Mn, Same, Quiet

LEMMA ModEventsStep ==
  ASSUME NEW m, NEW s, Good(m, s), NEW vobmod \in BOOLEAN, NEW domod \in BOOLEAN
  PROVE  Step(m, s, ModEvents(m, vobmod, domod), s) /\ ModEvents(m, vobmod, domod).nm \in {m.nm, Null}
  <1>. DEFINE a == IF vobmod THEN MarkNamePurge(m) ELSE m
              b == IF domod /\ a.ro THEN MarkNamePurge(a) ELSE a
  <1>1. Step(m, s, a, s) /\ a.nm = m.nm  BY PurgeStep, SelfStep
  <1>2. Good(a, s)  BY <1>1 DEF Step
  <1>. HIDE DEF a
  <1>3. Step(a, s, b, s) /\ b.nm = m.nm /\ b.open = a.open  BY <1>1, <1>2, PurgeStep, SelfStep
  <1>. HIDE DEF b
  <1>4. Step(m, s, b, s) /\ Good(b, s)  BY <1>1, <1>3, StepTrans DEF Step
  <1>5. ModEvents(m, vobmod, domod) = IF domod /\ a.ro /\ a.open = 0 THEN ClearRele(b) ELSE b
    BY DEF ModEvents, a, b
  <1>6. CASE domod /\ a.ro /\ a.open = 0
    <2>1. Step(b, s, ClearRele(b), s) /\ ClearRele(b).nm \in {b.nm, Null}
      BY <1>3, <1>4, <1>6, ReleaseStep
    <2>. QED  BY <1>3, <1>4, <1>5, <1>6, <2>1, StepTrans
  <1>7. CASE ~(domod /\ a.ro /\ a.open = 0)  BY <1>3, <1>4, <1>5, <1>7
  <1>. QED  BY <1>6, <1>7

LEMMA AttrCacheStep ==
  ASSUME NEW m, NEW s, Good(m, s), attrgen \in Nat
  PROVE  LET n == AttrCache(m, s, attrgen) IN Step(m, s, n, s) /\ n.nm \in {m.nm, Null} /\ n.fetched = attrgen
  <1>. DEFINE k == SetStat(m, s, attrgen)
  <1>1. Step(m, s, k, s) /\ k.nm = m.nm /\ k.fetched = attrgen  BY SetStatStep
  <1>2. VobMod(m, s) \in BOOLEAN /\ DoMod(m, s) \in BOOLEAN  BY DEF VobMod, DoMod
  <1>. HIDE DEF k
  <1>3. LET n == ModEvents(k, VobMod(m, s), DoMod(m, s)) IN Step(k, s, n, s) /\ n.nm \in {k.nm, Null} /\ n.fetched = attrgen
    BY <1>1, <1>2, ModEventsStep DEF Step, Moves
  <1>. QED  BY <1>1, <1>3, StepTrans DEF AttrCache, k

\* A change of the server that the references do not see
LEMMA ServeStep ==
  ASSUME NEW m, NEW s, Good(m, s), NEW z, Srv(z), Serves(s, z)
  PROVE  Step(m, s, m, z)
  BY SelfStep DEF Step, Good, Serves

IsOut(o) == o = [mn |-> o.mn, srv |-> o.srv, err |-> o.err, did |-> o.did]

LEMMA GetattrStep ==
  ASSUME NEW m, NEW s, Good(m, s), attrgen \in Nat, NEW o \in ClntGetattr(m, s)
  PROVE  /\ Step(m, s, o.mn, o.srv) /\ Quiet(s, o.srv) /\ o.did = FALSE
         /\ o.err = "ok" => o.mn.fetched = attrgen
  <1>1. CASE o = Out(m, s, "rpc")
    <2>1. o.mn = m /\ o.srv = s /\ o.did = FALSE /\ o.err = "rpc"  BY <1>1 DEF Out
    <2>. QED  BY <2>1, SelfStep
  <1>2. CASE o # Out(m, s, "rpc")
    <2>. DEFINE n == AttrCache(m, s, attrgen)
    <2>1. o.mn = n /\ o.srv = s /\ o.did = FALSE
      BY <1>2 DEF ClntGetattr, Rpc, Err, Ok, Out
    <2>2. Step(m, s, n, s) /\ n.fetched = attrgen  BY AttrCacheStep
    <2>. QED  BY <2>1, <2>2 DEF Quiet
  <1>. QED  BY <1>1, <1>2

\* The answer of a call that may change what the server says of the object
LEMMA AnsweredStep ==
  ASSUME NEW m, NEW s, Good(m, s), attrgen \in Nat, NEW y, Srv(y), Serves(s, y)
  PROVE  LET n == AttrCache(m, y, attrgen) IN Step(m, s, n, y) /\ n.nm \in {m.nm, Null}
  <1>1. Step(m, s, m, y)  BY ServeStep
  <1>2. LET n == AttrCache(m, y, attrgen) IN Step(m, y, n, y) /\ n.nm \in {m.nm, Null}
    BY <1>1, AttrCacheStep DEF Step
  <1>. QED  BY <1>1, <1>2, StepTrans

LEMMA SetattrStep ==
  ASSUME NEW m, NEW s, Good(m, s), attrgen \in Nat, NEW aud \in BOOLEAN, NEW w \in BOOLEAN,
         NEW o \in ClntSetattr(m, s, aud, w)
  PROVE  Step(m, s, o.mn, o.srv) /\ Quiet(s, o.srv) /\ o.did = FALSE
  <1>. DEFINE size == m.rv # Null /\ w /\ m.cva # m.size
              set == aud /\ ~m.aud
              y == [s EXCEPT !.size = IF size THEN m.cva ELSE @, !.aud = @ \/ set]
              n == AttrCache(m, y, attrgen)
              k == [n EXCEPT !.syncc = FALSE]
  <1>1. o \in {Out(m, s, "ok"), Out(m, s, "rpc"), Out(k, y, "ok")}
    BY DEF ClntSetattr, Rpc, Ok, Err
  <1>2. CASE o.mn = m /\ o.srv = s /\ o.did = FALSE  BY <1>2, SelfStep
  <1>. HIDE DEF k
  <1>3. CASE o.mn = k /\ o.srv = y /\ o.did = FALSE
    <2>. USE DEF k
    <2>1. m \in MnType /\ s \in SrvType  BY DEF Good, Mn, Srv
    <2>2. m.cva \in Nat /\ (s.aud \/ set) \in BOOLEAN /\ s.size \in Nat  BY <2>1 DEF MnType, SrvType
    <2>3. y \in SrvType /\ y.ct = s.ct /\ y.cow = s.cow /\ y.file = s.file /\ y.data = s.data
      BY <2>1, <2>2 DEF SrvType
    <2>. HIDE DEF y
    <2>4. Srv(y) /\ Serves(s, y) /\ Quiet(s, y)  BY <2>3 DEF Good, Srv, Serves, Quiet
    <2>5. Step(m, s, n, y)  BY <2>4, AnsweredStep
    <2>6. n \in MnType /\ Good(n, y)  BY <2>5 DEF Step, Good, Mn
    <2>. HIDE DEF n
    <2>7. Step(n, y, k, y)  BY <2>6, FlagType, SameStep
    <2>8. Step(m, s, k, y)  BY <2>5, <2>7, StepTrans
    <2>. QED  BY <1>3, <2>4, <2>8
  <1>. HIDE DEF y
  <1>4. \/ o.mn = m /\ o.srv = s /\ o.did = FALSE
        \/ o.mn = k /\ o.srv = y /\ o.did = FALSE
    BY <1>1 DEF Out
  <1>. QED  BY <1>2, <1>3, <1>4

LEMMA ClearAttrOne ==
  ASSUME NEW m, NEW s
  PROVE  (CHOOSE x \in ClearAttr(m, s) : TRUE) \in ClearAttr(m, s)
  <1>1. \E x : x \in ClearAttr(m, s)  BY DEF ClearAttr, Ok, Err
  <1>. QED  BY <1>1

LEMMA SyncAttrStep ==
  ASSUME NEW m, NEW s, Good(m, s), attrgen \in Nat, NEW o \in SyncAttr(m, s)
  PROVE  Step(m, s, o.mn, o.srv) /\ Quiet(s, o.srv) /\ o.did = FALSE
  <1>. DEFINE a == CHOOSE x \in ClearAttr(m, s) : TRUE
  <1>1. CASE m.rv = Null \/ m.cred = "none" \/ m.ro
    <2>1. SyncAttr(m, s) = Ok(m, s)  BY <1>1 DEF SyncAttr
    <2>2. o.mn = m /\ o.srv = s /\ o.did = FALSE  BY <2>1 DEF Ok, Out
    <2>. QED  BY <2>2, SelfStep
  <1>2. CASE ~(m.rv = Null \/ m.cred = "none" \/ m.ro)
    <2>1. a \in ClearAttr(m, s)  BY ClearAttrOne
    <2>2. o \in ClntSetattr(a.mn, a.srv, FALSE, a.mn.cred = "w")  BY <1>2 DEF SyncAttr
    <2>. HIDE DEF a
    <2>3. Step(m, s, a.mn, a.srv) /\ a.srv = s  BY <2>1, ClearAttrStep
    <2>. DEFINE w == a.mn.cred = "w"
    <2>4. w \in BOOLEAN /\ o \in ClntSetattr(a.mn, s, FALSE, w) /\ Good(a.mn, s)  BY <2>2, <2>3 DEF Step
    <2>. HIDE DEF w
    <2>5. Step(a.mn, s, o.mn, o.srv) /\ Quiet(s, o.srv) /\ o.did = FALSE
      BY <2>4, SetattrStep
    <2>. QED  BY <2>3, <2>5, StepTrans
  <1>. QED  BY <1>1, <1>2

-----------------------------------------------------------------------------
(* Copy-on-write and the change of the OID.                                *)

LEMMA ClntChoidStep ==
  ASSUME NEW m, NEW s, Good(m, s), attrgen \in Nat, NEW t \in Threads, NEW o \in ClntChoid(m, s, t)
  PROVE  /\ IsOut(o) /\ Step(m, s, o.mn, o.srv) /\ Quiet(s, o.srv) /\ o.did = FALSE
         /\ o.err = "ok" => o.srv.ct = Pv /\ o.mn.nm \in {m.nm, Null}
  <1>. DEFINE y == [s EXCEPT !.oid = @ + 1, !.aud = AuditOf[t] # Null, !.ct = Pv]
              n == AttrCache(m, y, attrgen)
  <1>1. o = Out(m, s, "rpc") \/ o = Out(n, y, "ok")  BY DEF ClntChoid, Rpc, Ok, Err
  <1>2. CASE o = Out(m, s, "rpc")
    <2>1. o.mn = m /\ o.srv = s /\ o.did = FALSE /\ o.err = "rpc" /\ IsOut(o)  BY <1>2 DEF Out, IsOut
    <2>. QED  BY <2>1, SelfStep
  <1>3. CASE o = Out(n, y, "ok")
    <2>1. s \in SrvType /\ Pv \in Cts  BY DEF Good, Srv, Cts
    <2>2. /\ y \in SrvType /\ y.ct = Pv /\ y.cow = s.cow /\ y.file = s.file /\ y.data = s.data
      <3>. DEFINE b == AuditOf[t] # Null
                  k == s.oid + 1
      <3>1. b \in BOOLEAN /\ k \in Nat /\ y = [s EXCEPT !.oid = k, !.aud = b, !.ct = Pv]  BY <2>1 DEF SrvType
      <3>. HIDE DEF b, y, k
      <3>2. y \in SrvType  BY <2>1, <3>1 DEF SrvType
      <3>3. /\ y.ct = Pv /\ y.cow = s.cow /\ y.file = s.file /\ y.data = s.data
        BY <2>1, <3>1 DEF SrvType
      <3>. QED  BY <3>2, <3>3
    <2>3. Srv(y) /\ Serves(s, y) /\ Quiet(s, y)  BY <2>2 DEF Good, Srv, Serves, Quiet
    <2>. HIDE DEF y
    <2>4. Step(m, s, n, y) /\ n.nm \in {m.nm, Null}  BY <2>3, AnsweredStep
    <2>. HIDE DEF n
    <2>5. o.mn = n /\ o.srv = y /\ o.did = FALSE /\ IsOut(o)  BY <1>3 DEF Out, IsOut
    <2>. QED  BY <2>2, <2>3, <2>4, <2>5
  <1>. QED  BY <1>1, <1>2, <1>3

LEMMA RecordStep ==
  ASSUME NEW m, NEW s, Good(m, s), NEW t \in Threads, CredOf[t] \notin work.barred
  PROVE  LET n == RecordCred(m, CredOf[t]) IN Step(m, s, n, s) /\ n.rv = m.rv /\ n.nm = m.nm
  <1>. DEFINE cs == m.creds \cup {CredOf[t]}
              n == [m EXCEPT !.creds = cs]
  <1>1. m \in MnType  BY DEF Good, Mn
  <1>2. cs \in SUBSET Creds  BY <1>1 DEF MnType, Creds
  <1>3. cs \cap work.barred = {}  BY DEF Good, Mn
  <1>4. RecordCred(m, CredOf[t]) = n  BY <1>1 DEF RecordCred, MnType
  <1>. HIDE DEF cs
  <1>5. n \in MnType  BY <1>1, <1>2 DEF MnType
  <1>6. /\ n.rv = m.rv /\ n.nm = m.nm /\ n.ro = m.ro /\ n.creds = cs /\ n.open = m.open
        /\ n.wopen = m.wopen /\ n.leaked = m.leaked /\ n.cop = m.cop /\ n.gen = m.gen
        /\ n.fetched = m.fetched /\ n.live = m.live /\ n.ref = m.ref /\ n.pnm = m.pnm /\ n.pcvp = m.pcvp
    BY <1>1 DEF MnType
  <1>. HIDE DEF n
  <1>7. Mn(n)  BY <1>3, <1>5, <1>6 DEF Good, Mn, Marked
  <1>8. Moves(m, n)  BY <1>6 DEF Moves, Holds
  <1>. QED  BY <1>4, <1>6, <1>7, <1>8 DEF Step, Good, Serves

\* The private cleartext file was made, empty.
Made(s, z) ==
  /\ s.file[Pv] = 0 /\ z.file[Pv] = 1
  /\ z.data[<<Sh, 1>>] = s.data[<<Sh, 1>>] /\ z.data[<<Sh, 2>>] = s.data[<<Sh, 2>>]

LEMMA IsOutOf ==
  ASSUME NEW m, NEW s, NEW e
  PROVE  IsOut(Out(m, s, e))
  BY DEF IsOut, Out
LEMMA DidRecord ==
  ASSUME NEW a, NEW b, NEW c, NEW d, NEW e, NEW o, o = [mn |-> a, srv |-> b, err |-> c, did |-> d]
  PROVE  [o EXCEPT !.did = e] = [mn |-> a, srv |-> b, err |-> c, did |-> e]
  OBVIOUS
LEMMA DidOut ==
  ASSUME NEW o, IsOut(o)
  PROVE  LET d == [o EXCEPT !.did = TRUE]
         IN  d.mn = o.mn /\ d.srv = o.srv /\ d.err = o.err /\ d.did = TRUE /\ IsOut(d)
  <1>1. ASSUME NEW a, NEW b, NEW c, NEW d, o = [mn |-> a, srv |-> b, err |-> c, did |-> d]
        PROVE  LET r == [o EXCEPT !.did = TRUE]
               IN  r.mn = a /\ r.srv = b /\ r.err = c /\ r.did = TRUE /\ IsOut(r)
    <2>1. LET r == [o EXCEPT !.did = TRUE] IN r.mn = a /\ r.srv = b /\ r.err = c /\ r.did = TRUE
      BY <1>1
    <2>2. LET r == [o EXCEPT !.did = TRUE] IN r = [mn |-> a, srv |-> b, err |-> c, did |-> TRUE]
      <3>1. \A e : [o EXCEPT !.did = e] = [mn |-> a, srv |-> b, err |-> c, did |-> e]  BY <1>1, DidRecord
      <3>. QED  BY <3>1, Zenon
    <2>. QED  BY <2>1, <2>2 DEF IsOut
  <1>. QED  BY <1>1 DEF IsOut
LEMMA ErrOut ==
  ASSUME NEW o, IsOut(o), NEW e
  PROVE  LET d == [o EXCEPT !.err = e]
         IN  d.mn = o.mn /\ d.srv = o.srv /\ d.err = e /\ d.did = o.did /\ IsOut(d)
  <1>1. ASSUME NEW a, NEW b, NEW c, NEW d
        PROVE  [[mn |-> a, srv |-> b, err |-> c, did |-> d] EXCEPT !.err = e]
                 = [mn |-> a, srv |-> b, err |-> e, did |-> d]
    OBVIOUS
  <1>2. [o EXCEPT !.err = e] = [mn |-> o.mn, srv |-> o.srv, err |-> e, did |-> o.did]
    BY <1>1 DEF IsOut
  <1>. QED  BY <1>2 DEF IsOut

LEMMA ClearAttrOut ==
  ASSUME NEW m, NEW s, NEW o \in ClearAttr(m, s)
  PROVE  IsOut(o)
  <1>. DEFINE n == [m EXCEPT !.cva = s.data[m.rv], !.syncc = @ \/ m.cva # s.data[m.rv]]
  <1>1. o \in {Out(m, s, "ok"), Out(MarkPurge(m), s, "stale"), Out(n, s, "ok")}
    BY DEF ClearAttr, Ok, Err
  <1>. HIDE DEF n
  <1>. QED  BY <1>1, IsOutOf
LEMMA CltxtOut ==
  ASSUME NEW m, NEW s, NEW o \in Cltxt(m, s)
  PROVE  IsOut(o)
  <1>. DEFINE n == SetCpname(m, s.ct)
              z == IF s.ct = Sh /\ s.file[Sh] = 0 THEN [s EXCEPT !.file[Sh] = 2] ELSE s
  <1>1. o \in {Out(m, s, "ok"), Out(m, s, "rpc"), Out(n, z, "ok")}
    BY DEF Cltxt, Rpc, Ok, Err
  <1>. HIDE DEF n, z
  <1>. QED  BY <1>1, IsOutOf

LEMMA ClearCreateOf ==
  ASSUME NEW m, NEW s, NEW c, NEW o \in ClearCreate(m, s, c)
  PROVE  \E p \in Cltxt(m, s) :
           \/ p.err # "ok" /\ o = [p EXCEPT !.err = "eio"]
           \/ p.err = "ok" /\ p.mn.ro /\ o = Out(p.mn, p.srv, "erofs")
           \/ p.err = "ok" /\ ~p.mn.ro /\
              \/ o \in {Out(ClearRele(MarkNamePurge(p.mn)), p.srv, e) : e \in {"eexist", "create"}}
              \/ /\ p.srv.file[Pv] = 0 /\ c \notin work.barred
                 /\ o \in ClearAttr(RecordCred(Bound(p.mn, <<Pv, 1>>), c),
                                    [p.srv EXCEPT !.file[Pv] = 1, !.data[<<Pv, 1>>] = 0])
  <1>. DEFINE F(x, y) ==
         IF x.ro THEN Err(x, y, "erofs")
         ELSE Err(ClearRele(MarkNamePurge(x)), y, IF y.file[Pv] # 0 THEN "eexist" ELSE "create")
              \cup (IF y.file[Pv] # 0 \/ c \in work.barred THEN {}
                    ELSE LET z == [y EXCEPT !.file[Pv] = 1, !.data[<<Pv, 1>>] = 0]
                         IN ClearAttr(RecordCred(Bound(x, <<Pv, 1>>), c), z))
  <1>1. \E p \in Cltxt(m, s) :
          \E q \in {IF p.err = "ok" THEN p ELSE [p EXCEPT !.err = "eio"]} :
            o \in IF q.err = "ok" THEN F(q.mn, q.srv) ELSE {q}
    BY DEF ClearCreate, Then
  <1>2. PICK p \in Cltxt(m, s) :
          \E q \in {IF p.err = "ok" THEN p ELSE [p EXCEPT !.err = "eio"]} :
            o \in IF q.err = "ok" THEN F(q.mn, q.srv) ELSE {q}
    BY <1>1
  <1>. HIDE DEF F
  <1>3. CASE p.err # "ok"
    <2>. DEFINE q == [p EXCEPT !.err = "eio"]
    <2>1. q.err = "eio"  BY CltxtOut, ErrOut
    <2>. HIDE DEF q
    <2>2. o \in IF q.err = "ok" THEN F(q.mn, q.srv) ELSE {q}  BY <1>2, <1>3 DEF q
    <2>3. o = q  BY <2>1, <2>2
    <2>. QED  BY <1>3, <2>3 DEF q
  <1>4. CASE p.err = "ok"
    <2>1. o \in F(p.mn, p.srv)  BY <1>2, <1>4
    <2>2. CASE p.mn.ro
      <3>1. o = Out(p.mn, p.srv, "erofs")  BY <2>1, <2>2 DEF F, Err
      <3>. QED  BY <1>4, <2>2, <3>1
    <2>3. CASE ~p.mn.ro
      <3>. DEFINE z == [p.srv EXCEPT !.file[Pv] = 1, !.data[<<Pv, 1>>] = 0]
                  A == ClearAttr(RecordCred(Bound(p.mn, <<Pv, 1>>), c), z)
      <3>1. o \in Err(ClearRele(MarkNamePurge(p.mn)), p.srv, IF p.srv.file[Pv] # 0 THEN "eexist" ELSE "create")
              \cup (IF p.srv.file[Pv] # 0 \/ c \in work.barred THEN {} ELSE A)
        BY <2>1, <2>3 DEF F
      <3>. HIDE DEF A
      <3>2. \/ o \in {Out(ClearRele(MarkNamePurge(p.mn)), p.srv, e) : e \in {"eexist", "create"}}
            \/ p.srv.file[Pv] = 0 /\ c \notin work.barred /\ o \in A
        BY <3>1 DEF Err
      <3>. QED  BY <1>4, <2>3, <3>2 DEF A
    <2>. QED  BY <2>2, <2>3
  <1>. QED  BY <1>3, <1>4

LEMMA ClearCreateStep ==
  ASSUME NEW m, NEW s, Good(m, s), m.nm = Null, s.ct = Pv, NEW t \in Threads,
         NEW o \in ClearCreate(m, s, CredOf[t])
  PROVE  /\ IsOut(o) /\ Step(m, s, o.mn, o.srv) /\ o.did = FALSE
         /\ \/ o.err # "ok" /\ Quiet(s, o.srv)
            \/ o.err = "ok" /\ Made(s, o.srv) /\ o.mn.rv = <<Pv, 1>>
  <1>. DEFINE c == CredOf[t]
              y(p) == [p.srv EXCEPT !.file[Pv] = 1, !.data[<<Pv, 1>>] = 0]
              n(p) == RecordCred(Bound(p.mn, <<Pv, 1>>), c)
  <1>1. PICK p \in Cltxt(m, s) :
           \/ p.err # "ok" /\ o = [p EXCEPT !.err = "eio"]
           \/ p.err = "ok" /\ p.mn.ro /\ o = Out(p.mn, p.srv, "erofs")
           \/ p.err = "ok" /\ ~p.mn.ro /\
              \/ o \in {Out(ClearRele(MarkNamePurge(p.mn)), p.srv, e) : e \in {"eexist", "create"}}
              \/ /\ p.srv.file[Pv] = 0 /\ c \notin work.barred
                 /\ o \in ClearAttr(n(p), y(p))
    BY ClearCreateOf
  <1>. HIDE DEF y, n
  <1>2. m.rv = Null /\ m.open = 0 /\ Sh # Pv  BY Facts DEF Good, Mn, MnType, Cts
  <1>9. IsOut(p)  BY CltxtOut
  <1>10. /\ Step(m, s, p.mn, p.srv) /\ Quiet(s, p.srv) /\ p.did = FALSE
         /\ p.mn.rv = m.rv /\ p.mn.open = m.open
         /\ m.nm = Null /\ p.err # "ok" => p.mn = m /\ p.srv = s
         /\ m.nm = Null /\ p.err = "ok" => p.mn.nm = s.ct /\ (p.mn.ro <=> s.ct = Sh)
         /\ p.srv.ct = s.ct
    BY CltxtStep
  <1>3. /\ Step(m, s, p.mn, p.srv) /\ Quiet(s, p.srv) /\ p.did = FALSE
        /\ p.mn.rv = Null /\ p.mn.open = 0 /\ p.srv.ct = Pv
        /\ p.err = "ok" => p.mn.nm = Pv
    BY <1>2, <1>10
  <1>4. Good(p.mn, p.srv)  BY <1>3 DEF Step
  <1>5. CASE p.err # "ok" /\ o = [p EXCEPT !.err = "eio"]
    <2>1. o.mn = p.mn /\ o.srv = p.srv /\ o.did = FALSE /\ IsOut(o) /\ o.err = "eio"
      BY <1>3, <1>5, <1>9, ErrOut
    <2>. QED  BY <1>3, <2>1
  <1>6. CASE p.err = "ok" /\ o = Out(p.mn, p.srv, "erofs")
    <2>1. o.mn = p.mn /\ o.srv = p.srv /\ o.did = FALSE /\ IsOut(o) /\ o.err = "erofs"
      BY <1>6 DEF Out, IsOut
    <2>. QED  BY <1>3, <2>1
  <1>7. CASE o \in {Out(ClearRele(MarkNamePurge(p.mn)), p.srv, e) : e \in {"eexist", "create"}}
    <2>. DEFINE k == MarkNamePurge(p.mn)
    <2>1. /\ o.mn = ClearRele(k) /\ o.srv = p.srv /\ o.did = FALSE /\ IsOut(o) /\ o.err # "ok"
      BY <1>7 DEF Out, IsOut
    <2>2. Step(p.mn, p.srv, k, p.srv) /\ k.open = 0  BY <1>3, <1>4, PurgeStep
    <2>3. Step(k, p.srv, ClearRele(k), p.srv)  BY <2>2, ReleaseStep DEF Step
    <2>4. Step(m, s, ClearRele(k), p.srv)  BY <1>3, <1>4, <2>2, <2>3, StepTrans
    <2>. QED  BY <1>3, <2>1, <2>4
  <1>8. CASE /\ p.err = "ok" /\ p.srv.file[Pv] = 0 /\ c \notin work.barred
             /\ o \in ClearAttr(n(p), y(p))
    <2>. DEFINE v == <<Pv, 1>>
                z == y(p)
                b == RecordCred([Bound(p.mn, v) EXCEPT !.rv = v], c)
    <2>0. p.srv \in SrvType /\ v \in Vnodes /\ v[1] = Pv  BY <1>4, Facts DEF Good, Srv
    <2>1. /\ z \in SrvType /\ z.ct = Pv /\ z.cow = p.srv.cow /\ z.file[Pv] = 1
          /\ z.data[<<Sh, 1>>] = p.srv.data[<<Sh, 1>>] /\ z.data[<<Sh, 2>>] = p.srv.data[<<Sh, 2>>]
      <3>. DEFINE f == [p.srv.file EXCEPT ![Pv] = 1]
                  d == [p.srv.data EXCEPT ![v] = 0]
      <3>1. f \in [Cts -> 0 .. 2] /\ f[Pv] = 1  BY <2>0 DEF SrvType, Cts
      <3>2. d \in [Vnodes -> Nat] /\ d[<<Sh, 1>>] = p.srv.data[<<Sh, 1>>] /\ d[<<Sh, 2>>] = p.srv.data[<<Sh, 2>>]
        BY <1>2, <2>0 DEF SrvType, Vnodes
      <3>3. z = [p.srv EXCEPT !.file = f, !.data = d]  BY <2>0 DEF y, SrvType
      <3>. HIDE DEF z, f, d
      <3>. QED  BY <1>3, <2>0, <3>1, <3>2, <3>3 DEF SrvType
    <2>. HIDE DEF z
    <2>2. Srv(z) /\ Serves(p.srv, z) /\ Made(p.srv, z)  BY <1>3, <1>8, <2>1 DEF Srv, Serves, Made
    <2>3. Step(p.mn, p.srv, p.mn, z)  BY <1>4, <2>2, ServeStep
    <2>4. Step(p.mn, z, Bound(p.mn, v), z) /\ Bound(p.mn, v).rv = v
      BY <1>3, <1>8, <2>0, <2>1, <2>3, BoundStep DEF Step
    <2>5. Step(Bound(p.mn, v), z, n(p), z) /\ n(p).rv = v  BY <1>8, <2>4, RecordStep DEF Step, n
    <2>6. Step(p.mn, p.srv, n(p), z)  BY <1>4, <2>3, <2>4, <2>5, StepTrans DEF Step
    <2>7. Step(m, s, n(p), z)  BY <1>3, <2>6, StepTrans
    <2>8. v[2] = 1 /\ Alive(z, n(p).rv)  BY <2>0, <2>1, <2>5 DEF Alive
    <2>9. Good(n(p), z) /\ o \in ClearAttr(n(p), z)  BY <1>8, <2>5 DEF Step, z
    <2>13. IsOut(o)  BY <2>9, ClearAttrOut
    <2>14. /\ Step(n(p), z, o.mn, o.srv) /\ Same(n(p), o.mn) /\ o.srv = z /\ o.did = FALSE
           /\ n(p).rv = Null \/ Alive(z, n(p).rv) => o.err = "ok"
      BY <2>9, ClearAttrStep
    <2>10. /\ Step(n(p), z, o.mn, o.srv) /\ Same(n(p), o.mn) /\ o.srv = z /\ o.did = FALSE
           /\ o.err = "ok"
      BY <2>8, <2>14
    <2>11. Step(m, s, o.mn, o.srv) /\ o.mn.rv = v  BY <2>5, <2>7, <2>10, StepTrans DEF Same
    <2>12. Made(s, z)  BY <1>3, <2>2 DEF Made, Quiet
    <2>. QED  BY <2>10, <2>11, <2>12, <2>13
  <1>. QED  BY <1>1, <1>5, <1>6, <1>7, <1>8

-----------------------------------------------------------------------------
(* The invariant.                                                          *)

IsLoc(l) == l = [mode |-> l.mode, v |-> l.v, err |-> l.err, oid |-> l.oid, began |-> l.began,
                 ans |-> l.ans, gen |-> l.gen]

\* Lookups by name come while the file is not open and no marker is set.
Apart(w) == "lookup" \in w.ops => "open" \notin w.ops /\ "mark" \notin w.ops
LookupsApart == \A w \in Workloads : Apart(w)

Kinds ==
  /\ attrgen \in Nat /\ attrgen <= MaxGen
  /\ thr \in [Threads -> [gen : Nat, mark : Nat]]
  /\ open \in [Threads -> Modes \cup {"none"}] /\ pc \in [Threads -> Pcs]
  /\ loc = [u \in Threads |-> loc[u]]
  /\ logical \in [n : Nat, v : Nat] /\ spoiled \in BOOLEAN
  /\ work \in Workloads /\ Apart(work)

\* A thread of credential c, at p, with the local variables l, that has the file open as o
Opening(p, l) == p \in {"cto", "open", "opened"} \/ (p \in {"audit", "relock"} /\ l.ans = "opened")
Local(p, l, o, c, w) ==
  /\ IsLoc(l) /\ l.mode \in Modes /\ l.v \in Vnodes \cup {Null} /\ l.gen \in Nat
  /\ l.v # Null => c \notin w.barred
  /\ l.v # Null \/ p = "pre" => l.mode # "t"
  /\ p \in {"write", "io", "post", "dropped"} => l.v # Null
  /\ p \in {"audit", "relock", "write"} => Writes(l.mode)
  /\ p \in {"audit", "relock"} => IF l.v = Null THEN l.ans \in {"opened", "set"} ELSE l.ans = "write"
  /\ Writes(l.mode) /\ l.v # Null /\ p \in {"audit", "relock", "write", "io"} => l.v = <<Pv, 1>>
  /\ p \in {"opened", "set", "cto", "open", "setattr"} => l.v = Null
  /\ p = "setattr" => l.mode # "w"
  /\ Opening(p, l) => o = "none" /\ "open" \in w.ops
  /\ o # "none" => "open" \in w.ops
  /\ p \in {"lookup", "events"} => "lookup" \in w.ops
  /\ p = "lookup" => l.ans \in SrvType /\ l.gen = 0
  /\ p = "events" => l.ans.vobmod \in BOOLEAN /\ l.ans.domod \in BOOLEAN
Locals == \A u \in Threads : Local(pc[u], loc[u], open[u], CredOf[u], work)

\* After the change of the OID the object has its private cleartext, and no name of the shared one.
Changed(p, l) == Writes(l.mode) /\ p \in {"audit", "relock", "opened", "set"}
Private == srv.ct = Pv /\ mn.nm # Sh
Copied == \A u \in Threads : Changed(pc[u], loc[u]) => Private

\* The threads that truncate, from the change of the OID on
Cutting(p, l) == l.mode = "t" /\ p \in {"audit", "relock", "opened", "set"}
Ended(p, l) == p = "audit" /\ l.mode = "t" /\ l.err # "ok"
Data ==
  /\ srv.data[<<Sh, 1>>] = 1 /\ srv.data[<<Sh, 2>>] = 1
  /\ srv.file[Pv] = 0 => logical.v = 1
  /\ (srv.file[Pv] = 1 /\ ~spoiled /\ \A u \in Threads : ~Cutting(pc[u], loc[u])) =>
       srv.data[<<Pv, 1>>] = logical.v
  /\ \A u \in Threads : Ended(pc[u], loc[u]) => spoiled

Marks ==
  /\ "mark" \notin work.ops => attrgen = 0
  /\ mn.fetched <= attrgen
  /\ mn.live => mn.gen = Word(mn.fetched) /\
       \A x \in mn.fetched .. attrgen : Word(x) = Word(mn.fetched) + (x - mn.fetched)
  /\ \A u \in Threads :
       /\ thr[u].mark <= attrgen
       /\ pc[u] # "marked" => \E x \in thr[u].mark .. attrgen : thr[u].gen = Word(x)
       /\ pc[u] = "use" => mn.fetched >= thr[u].mark

FileInv ==
  /\ Kinds /\ Good(mn, srv) /\ (srv.cow => srv.ct = Pv)
  /\ RefsHeld /\ OpensPaired
  /\ Locals /\ Copied /\ SharedIntact
  /\ Data /\ Marks
\* The ways a copy-on-write ends, level by level
CopyCases(m, s, t, trunc, o) ==
  \E g \in GetCleartext(m, s, CredOf[t]) :
      \/ g.err # "ok" /\ o = g
      \/ g.err = "ok" /\ \E a \in ClearAttr(g.mn, g.srv) :
         \/ a.err # "ok" /\ o = a
         \/ a.err = "ok" /\ \E k \in ClntChoid(a.mn, a.srv, t) :
            \/ k.err # "ok" /\ o = k
            \/ k.err = "ok" /\ \E e \in ClearCreate(ClearRele(MarkNamePurge(k.mn)), k.srv, CredOf[t]) :
               \/ e.err = "eexist" /\ o \in Did(ChoidOnly(e.mn, e.srv, t))
               \/ e.err = "ok" /\ o \in Did(IF trunc THEN {e} ELSE Copy(e.mn, e.srv, a.mn.rv))
               \/ e.err # "eexist" /\ e.err # "ok" /\ o \in Did({e})
LEMMA CopyOnWriteOf ==
  ASSUME NEW m, NEW s, NEW t, NEW trunc, m.open = 0, NEW o \in CopyOnWrite(m, s, t, trunc)
  PROVE  CopyCases(m, s, t, trunc, o)
  <1>. DEFINE c == CredOf[t]
              C(x, y, old) ==
                UNION {CASE e.err = "eexist" -> Did(ChoidOnly(e.mn, e.srv, t))
                         [] e.err = "ok" -> Did(IF trunc THEN {e} ELSE Copy(e.mn, e.srv, old))
                         [] OTHER -> Did({e}) : e \in ClearCreate(x, y, c)}
              F(x, y) == Then(ClntChoid(x, y, t), LAMBDA p, q : C(ClearRele(MarkNamePurge(p)), q, x.rv))
  <1>1. CopyOnWrite(m, s, t, trunc) = Then(Then(GetCleartext(m, s, c), ClearAttr), F)
    BY DEF CopyOnWrite
  <1>2. PICK b \in Then(GetCleartext(m, s, c), ClearAttr) : o \in IF b.err = "ok" THEN F(b.mn, b.srv) ELSE {b}
    BY <1>1 DEF Then
  <1>3. PICK g \in GetCleartext(m, s, c) : b \in IF g.err = "ok" THEN ClearAttr(g.mn, g.srv) ELSE {g}
    BY <1>2 DEF Then
  <1>4. ASSUME NEW x, NEW y, NEW d \in F(x, y)
        PROVE  \E k \in ClntChoid(x, y, t) :
                 \/ k.err # "ok" /\ d = k
                 \/ k.err = "ok" /\ \E e \in ClearCreate(ClearRele(MarkNamePurge(k.mn)), k.srv, c) :
                    \/ e.err = "eexist" /\ d \in Did(ChoidOnly(e.mn, e.srv, t))
                    \/ e.err = "ok" /\ d \in Did(IF trunc THEN {e} ELSE Copy(e.mn, e.srv, x.rv))
                    \/ e.err # "eexist" /\ e.err # "ok" /\ d \in Did({e})
    <2>1. PICK k \in ClntChoid(x, y, t) :
            d \in IF k.err = "ok" THEN C(ClearRele(MarkNamePurge(k.mn)), k.srv, x.rv) ELSE {k}
      BY <1>4 DEF Then
    <2>. HIDE DEF F
    <2>2. CASE k.err # "ok"  BY <2>1, <2>2
    <2>3. CASE k.err = "ok"
      <3>1. PICK e \in ClearCreate(ClearRele(MarkNamePurge(k.mn)), k.srv, c) :
              d \in CASE e.err = "eexist" -> Did(ChoidOnly(e.mn, e.srv, t))
                      [] e.err = "ok" -> Did(IF trunc THEN {e} ELSE Copy(e.mn, e.srv, x.rv))
                      [] OTHER -> Did({e})
        BY <2>1, <2>3
      <3>. QED  BY <2>1, <2>3, <3>1
    <2>. QED  BY <2>2, <2>3
  <1>. HIDE DEF F, C
  <1>5. CASE g.err # "ok"  BY <1>2, <1>3, <1>5 DEF CopyCases
  <1>6. CASE g.err = "ok" /\ b.err # "ok"  BY <1>2, <1>3, <1>6 DEF CopyCases
  <1>7. CASE g.err = "ok" /\ b.err = "ok"
    <2>1. b \in ClearAttr(g.mn, g.srv) /\ o \in F(b.mn, b.srv)  BY <1>2, <1>3, <1>7
    <2>. QED  BY <1>4, <1>7, <2>1 DEF CopyCases
  <1>. QED  BY <1>5, <1>6, <1>7

LEMMA FinishOut ==
  ASSUME NEW m, NEW s, NEW c, NEW o \in Finish(m, s, c)
  PROVE  IsOut(o)
  <1>1. PICK a \in ClearAttr(m, s) : IF a.err = "ok" THEN o \in Done(a.mn, a.srv, c) ELSE o = a
    BY FinishOf
  <1>2. CASE o \in Done(a.mn, a.srv, c)
    <2>. DEFINE n == [RecordCred(a.mn, c) EXCEPT !.young = TRUE]
    <2>1. o = Out(n, a.srv, "ok")  BY <1>2 DEF Done, Ok
    <2>. HIDE DEF n
    <2>. QED  BY <2>1, IsOutOf
  <1>. QED  BY <1>1, <1>2, ClearAttrOut
LEMMA FromViewOut ==
  ASSUME NEW m, NEW s, NEW c, NEW o \in FromView(m, s, c)
  PROVE  IsOut(o)
  <1>1. PICK p \in Cltxt(m, s) :
           IF p.err # "ok" THEN o = p
           ELSE LET v == Lookup(p.srv, p.mn.nm, c)
                IN  IF v = Null THEN o \in Err(ClearRele(MarkNamePurge(p.mn)), p.srv, "enxio")
                    ELSE o \in Finish(Bound(p.mn, v), p.srv, c)
    BY FromViewOf
  <1>. DEFINE n == ClearRele(MarkNamePurge(p.mn))
              v == Lookup(p.srv, p.mn.nm, c)
              k == Bound(p.mn, v)
  <1>2. o = p \/ o = Out(n, p.srv, "enxio") \/ o \in Finish(k, p.srv, c)  BY <1>1 DEF Err
  <1>. HIDE DEF n, k
  <1>. QED  BY <1>2, CltxtOut, IsOutOf, FinishOut
LEMMA FindItOut ==
  ASSUME NEW m, NEW s, NEW c, NEW o \in FindIt(m, s, c)
  PROVE  IsOut(o)
  <1>1. \/ \E n : o \in FromView(n, s, c) \/ o \in Finish(n, s, c)
        \/ \E n, e : o = Out(n, s, e)
    <2>. DEFINE v == Lookup(s, m.nm, c)
    <2>1. CASE m.nm = Null \/ (m.rv = Null /\ v = Null)  BY <2>1 DEF FindIt
    <2>2. CASE m.nm # Null /\ m.rv = Null /\ v # Null  BY <2>2 DEF FindIt
    <2>3. CASE m.nm # Null /\ m.rv # Null /\ v = m.rv  BY <2>3 DEF FindIt
    <2>4. CASE m.nm # Null /\ m.rv # Null /\ v \notin {Null, m.rv}  BY <2>4 DEF FindIt, Err
    <2>5. CASE m.nm # Null /\ m.rv # Null /\ v = Null  BY <2>5 DEF FindIt, Err
    <2>. QED  BY <2>1, <2>2, <2>3, <2>4, <2>5
  <1>. QED  BY <1>1, FromViewOut, FinishOut, IsOutOf
LEMMA GetOut ==
  ASSUME NEW m, NEW s, NEW c, NEW o \in GetCleartext(m, s, c)
  PROVE  IsOut(o)
  <1>1. \/ \E n : o \in FindIt(n, s, c)
        \/ \E n, e : o = Out(n, s, e)
    BY DEF GetCleartext, Err, Done, Ok
  <1>. QED  BY <1>1, FindItOut, IsOutOf

LEMMA ChoidOnlyOf ==
  ASSUME NEW m, NEW s, Good(m, s), attrgen \in Nat, NEW t \in Threads, NEW o \in ChoidOnly(m, s, t)
  PROVE  /\ IsOut(o) /\ Step(m, s, o.mn, o.srv) /\ Quiet(s, o.srv) /\ o.did \in BOOLEAN
         /\ o.did <=> o.err = "ok"
         /\ o.did => o.srv.ct = Pv /\ o.mn.nm \in {m.nm, Null}
  <1>1. PICK k \in ClntChoid(m, s, t) : o = [k EXCEPT !.did = k.err = "ok"]  BY DEF ChoidOnly
  <1>2. /\ IsOut(k) /\ Step(m, s, k.mn, k.srv) /\ Quiet(s, k.srv) /\ k.did = FALSE
        /\ k.err = "ok" => k.srv.ct = Pv /\ k.mn.nm \in {m.nm, Null}
    BY ClntChoidStep
  <1>3. ASSUME NEW a, NEW b, NEW c, NEW d, k = [mn |-> a, srv |-> b, err |-> c, did |-> d]
        PROVE  /\ o.mn = a /\ o.srv = b /\ o.err = c /\ o.did \in BOOLEAN /\ (o.did <=> c = "ok")
               /\ o = [mn |-> a, srv |-> b, err |-> c, did |-> c = "ok"]
    BY <1>1, <1>3
  <1>4. /\ o.mn = k.mn /\ o.srv = k.srv /\ o.err = k.err /\ o.did \in BOOLEAN /\ (o.did <=> k.err = "ok")
        /\ o = [mn |-> k.mn, srv |-> k.srv, err |-> k.err, did |-> k.err = "ok"]
    BY <1>2, <1>3 DEF IsOut
  <1>5. IsOut(o)  BY <1>4 DEF IsOut
  <1>. QED  BY <1>2, <1>4, <1>5

LEMMA DidOf ==
  ASSUME NEW os, NEW o \in Did(os)
  PROVE  \E x \in os : o = [x EXCEPT !.did = TRUE]
  BY DEF Did

\* The data of the shared cleartext is copied to the private one, or that fails.
LEMMA CopyStep ==
  ASSUME NEW m, NEW s, Good(m, s), m.rv = <<Pv, 1>>, NEW old \in Vnodes, old # <<Pv, 1>>,
         NEW o \in Copy(m, s, old)
  PROVE  /\ IsOut(o) /\ Step(m, s, o.mn, o.srv) /\ o.srv.file = s.file
         /\ o.srv.data[<<Sh, 1>>] = s.data[<<Sh, 1>>] /\ o.srv.data[<<Sh, 2>>] = s.data[<<Sh, 2>>]
         /\ o.err = "ok" => o.srv.data[<<Pv, 1>>] = s.data[old]
  <1>. DEFINE d == [s.data EXCEPT ![m.rv] = s.data[old]]
              z == [s EXCEPT !.data = d]
  <1>0. s \in SrvType /\ <<Pv, 1>> \in Vnodes /\ Sh # Pv  BY Facts DEF Good, Srv
  <1>1. o = Out(m, s, "copy") \/ o = Out(m, z, "ok")  BY <1>0 DEF Copy, Err, Ok, SrvType
  <1>2. CASE o = Out(m, s, "copy")
    <2>1. o.mn = m /\ o.srv = s /\ o.err = "copy" /\ IsOut(o)  BY <1>2 DEF Out, IsOut
    <2>. QED  BY <2>1, SelfStep
  <1>3. CASE o = Out(m, z, "ok")
    <2>1. /\ d \in [Vnodes -> Nat] /\ d[<<Pv, 1>>] = s.data[old]
          /\ d[<<Sh, 1>>] = s.data[<<Sh, 1>>] /\ d[<<Sh, 2>>] = s.data[<<Sh, 2>>]
      BY <1>0 DEF SrvType, Vnodes
    <2>. HIDE DEF d
    <2>2. z \in SrvType /\ z.ct = s.ct /\ z.cow = s.cow /\ z.file = s.file /\ z.data = d
      BY <1>0, <2>1 DEF SrvType
    <2>. HIDE DEF z
    <2>3. Srv(z) /\ Serves(s, z)  BY <2>2 DEF Good, Srv, Serves
    <2>4. Step(m, s, m, z)  BY <2>3, ServeStep
    <2>5. o.mn = m /\ o.srv = z /\ IsOut(o)  BY <1>3 DEF Out, IsOut
    <2>. QED  BY <2>1, <2>2, <2>4, <2>5
  <1>. QED  BY <1>1, <1>2, <1>3

\* What a change of the OID may do; it drops the lock if it did something.
Full(s, z) == \E v \in {<<Sh, 1>>, <<Sh, 2>>} : z.data[<<Pv, 1>>] = s.data[v]
Chosen(m, s, trunc, o) ==
  /\ IsOut(o) /\ Step(m, s, o.mn, o.srv) /\ o.did \in BOOLEAN
  /\ o.did => o.srv.ct = Pv /\ o.mn.nm # Sh
  /\ \/ Quiet(s, o.srv)
     \/ o.did /\ Made(s, o.srv) /\ (o.err = "ok" /\ ~trunc => Full(s, o.srv))

LEMMA CreatedChosen ==
  ASSUME NEW m, NEW s, NEW n, NEW z, Good(m, s), Step(m, s, n, z), Quiet(s, z), z.ct = Pv, n.nm = Null,
         attrgen \in Nat, NEW t \in Threads, NEW trunc \in BOOLEAN,
         NEW old \in Vnodes, old = <<Pv, 1>> => s.file[Pv] = 1,
         NEW e \in ClearCreate(n, z, CredOf[t]), NEW o,
         \/ e.err = "eexist" /\ o \in Did(ChoidOnly(e.mn, e.srv, t))
         \/ e.err = "ok" /\ o \in Did(IF trunc THEN {e} ELSE Copy(e.mn, e.srv, old))
         \/ e.err # "eexist" /\ e.err # "ok" /\ o \in Did({e})
  PROVE  Chosen(m, s, trunc, o) /\ o.did
  <1>1. Good(n, z)  BY DEF Step
  <1>2. /\ IsOut(e) /\ Step(n, z, e.mn, e.srv) /\ e.did = FALSE
        /\ \/ e.err # "ok" /\ Quiet(z, e.srv)
           \/ e.err = "ok" /\ Made(z, e.srv) /\ e.mn.rv = <<Pv, 1>>
    BY <1>1, ClearCreateStep
  <1>3. Good(e.mn, e.srv) /\ Null # Sh  BY <1>2, Facts DEF Step
  <1>4. PICK x : /\ o = [x EXCEPT !.did = TRUE]
                 /\ \/ e.err = "eexist" /\ x \in ChoidOnly(e.mn, e.srv, t)
                    \/ e.err = "ok" /\ ~trunc /\ x \in Copy(e.mn, e.srv, old)
                    \/ e.err # "eexist" /\ (e.err = "ok" => trunc) /\ x = e
    BY DidOf
  <1>5. /\ IsOut(x) /\ Step(e.mn, e.srv, x.mn, x.srv)
        /\ \/ Quiet(s, x.srv)
           \/ Made(s, x.srv) /\ (x.err = "ok" /\ ~trunc => Full(s, x.srv))
    <2>1. CASE e.err = "eexist" /\ x \in ChoidOnly(e.mn, e.srv, t)
      <3>1. IsOut(x) /\ Step(e.mn, e.srv, x.mn, x.srv) /\ Quiet(e.srv, x.srv)  BY <1>3, <2>1, ChoidOnlyOf
      <3>2. Quiet(z, e.srv)  BY <1>2, <2>1
      <3>. QED  BY <3>1, <3>2 DEF Quiet
    <2>2. CASE e.err = "ok" /\ ~trunc /\ x \in Copy(e.mn, e.srv, old)
      <3>1. Made(z, e.srv) /\ Made(s, e.srv) /\ e.mn.rv = <<Pv, 1>>  BY <1>2, <2>2 DEF Made, Quiet
      <3>2. old # <<Pv, 1>> /\ old \in {<<Sh, 1>>, <<Sh, 2>>}  BY <3>1 DEF Made, Vnodes
      <3>3. /\ IsOut(x) /\ Step(e.mn, e.srv, x.mn, x.srv) /\ x.srv.file = e.srv.file
            /\ x.srv.data[<<Sh, 1>>] = e.srv.data[<<Sh, 1>>] /\ x.srv.data[<<Sh, 2>>] = e.srv.data[<<Sh, 2>>]
            /\ x.err = "ok" => x.srv.data[<<Pv, 1>>] = e.srv.data[old]
        BY <1>3, <2>2, <3>1, <3>2, CopyStep
      <3>4. Made(s, x.srv)  BY <3>1, <3>3 DEF Made
      <3>5. x.err = "ok" => Full(s, x.srv)  BY <3>1, <3>2, <3>3 DEF Full, Made
      <3>. QED  BY <3>3, <3>4, <3>5
    <2>3. CASE x = e /\ e.err # "ok" /\ e.err # "eexist"
      <3>1. Step(e.mn, e.srv, e.mn, e.srv)  BY <1>3, SelfStep
      <3>. QED  BY <1>2, <2>3, <3>1 DEF Quiet
    <2>4. CASE x = e /\ e.err = "ok" /\ trunc
      <3>1. Step(e.mn, e.srv, e.mn, e.srv)  BY <1>3, SelfStep
      <3>2. Made(s, e.srv)  BY <1>2, <2>4 DEF Quiet, Made
      <3>. QED  BY <1>2, <2>4, <3>1, <3>2
    <2>. QED  BY <1>4, <2>1, <2>2, <2>3, <2>4
  <1>6. o.mn = x.mn /\ o.srv = x.srv /\ o.err = x.err /\ o.did = TRUE /\ IsOut(o)
    BY <1>4, <1>5, DidOut
  <1>7. Step(n, z, x.mn, x.srv)  BY <1>1, <1>2, <1>5, StepTrans
  <1>8. Step(m, s, x.mn, x.srv)  BY <1>7, StepTrans
  <1>9. x.srv.ct = Pv /\ x.mn.nm # Sh  BY <1>3, <1>7 DEF Step, Serves
  <1>. QED  BY <1>5, <1>6, <1>8, <1>9 DEF Chosen

LEMMA CopyOnWriteStep ==
  ASSUME NEW m, NEW s, Good(m, s), attrgen \in Nat, NEW t \in Threads, NEW trunc \in BOOLEAN,
         NEW o \in CopyOnWrite(m, s, t, trunc)
  PROVE  Chosen(m, s, trunc, o) /\ (o.err = "ok" => o.did)
  <1>. DEFINE c == CredOf[t]
  <1>1. CASE m.open # 0
    <2>1. o = Out(m, s, "etxtbsy")  BY <1>1 DEF CopyOnWrite, Err
    <2>2. o.mn = m /\ o.srv = s /\ o.err = "etxtbsy" /\ o.did = FALSE /\ IsOut(o)  BY <2>1 DEF Out, IsOut
    <2>. QED  BY <2>2, SelfStep DEF Chosen
  <1>2. CASE m.open = 0
    <2>0. CopyCases(m, s, t, trunc, o)  BY <1>2, CopyOnWriteOf
    <2>1. PICK g \in GetCleartext(m, s, c) :
           \/ g.err # "ok" /\ o = g
           \/ g.err = "ok" /\ \E a \in ClearAttr(g.mn, g.srv) :
              \/ a.err # "ok" /\ o = a
              \/ a.err = "ok" /\ \E k \in ClntChoid(a.mn, a.srv, t) :
                 \/ k.err # "ok" /\ o = k
                 \/ k.err = "ok" /\ \E e \in ClearCreate(ClearRele(MarkNamePurge(k.mn)), k.srv, c) :
                    \/ e.err = "eexist" /\ o \in Did(ChoidOnly(e.mn, e.srv, t))
                    \/ e.err = "ok" /\ o \in Did(IF trunc THEN {e} ELSE Copy(e.mn, e.srv, a.mn.rv))
                    \/ e.err # "eexist" /\ e.err # "ok" /\ o \in Did({e})
      BY <2>0 DEF CopyCases
    <2>2. IsOut(g) /\ Got(m, s, c, g)  BY GetGot, GetOut
    <2>3. CASE g.err # "ok" /\ o = g  BY <2>2, <2>3 DEF Got, Chosen
    <2>4. CASE g.err = "ok"
      <3>1. PICK a \in ClearAttr(g.mn, g.srv) :
              \/ a.err # "ok" /\ o = a
              \/ a.err = "ok" /\ \E k \in ClntChoid(a.mn, a.srv, t) :
                 \/ k.err # "ok" /\ o = k
                 \/ k.err = "ok" /\ \E e \in ClearCreate(ClearRele(MarkNamePurge(k.mn)), k.srv, c) :
                    \/ e.err = "eexist" /\ o \in Did(ChoidOnly(e.mn, e.srv, t))
                    \/ e.err = "ok" /\ o \in Did(IF trunc THEN {e} ELSE Copy(e.mn, e.srv, a.mn.rv))
                    \/ e.err # "eexist" /\ e.err # "ok" /\ o \in Did({e})
        BY <2>1, <2>4
      <3>2. /\ Step(m, s, g.mn, g.srv) /\ Quiet(s, g.srv) /\ Good(g.mn, g.srv) /\ g.mn.rv # Null
        BY <2>2, <2>4 DEF Got, Step
      <3>3. /\ Step(g.mn, g.srv, a.mn, a.srv) /\ Same(g.mn, a.mn) /\ a.srv = g.srv /\ a.did = FALSE /\ IsOut(a)
        BY <3>2, ClearAttrStep, ClearAttrOut
      <3>4. /\ Step(m, s, a.mn, a.srv) /\ Quiet(s, a.srv) /\ Good(a.mn, a.srv) /\ a.mn.rv \in Vnodes
            /\ a.mn.rv = <<Pv, 1>> => s.file[Pv] = 1
        <4>1. Step(m, s, a.mn, a.srv) /\ Quiet(s, a.srv)  BY <3>2, <3>3, StepTrans
        <4>2. Good(a.mn, a.srv) /\ a.mn.rv # Null /\ a.mn \in MnType  BY <3>2, <4>1, <3>3 DEF Step, Same, Good, Mn
        <4>. QED  BY <4>1, <4>2 DEF MnType, Good, Quiet
      <3>5. CASE a.err # "ok" /\ o = a  BY <3>3, <3>4, <3>5 DEF Chosen
      <3>6. CASE a.err = "ok"
        <4>1. PICK k \in ClntChoid(a.mn, a.srv, t) :
                 \/ k.err # "ok" /\ o = k
                 \/ k.err = "ok" /\ \E e \in ClearCreate(ClearRele(MarkNamePurge(k.mn)), k.srv, c) :
                    \/ e.err = "eexist" /\ o \in Did(ChoidOnly(e.mn, e.srv, t))
                    \/ e.err = "ok" /\ o \in Did(IF trunc THEN {e} ELSE Copy(e.mn, e.srv, a.mn.rv))
                    \/ e.err # "eexist" /\ e.err # "ok" /\ o \in Did({e})
          BY <3>1, <3>6
        <4>2. /\ IsOut(k) /\ Step(a.mn, a.srv, k.mn, k.srv) /\ Quiet(a.srv, k.srv) /\ k.did = FALSE
              /\ k.err = "ok" => k.srv.ct = Pv /\ k.mn.nm \in {a.mn.nm, Null}
          BY <3>4, ClntChoidStep
        <4>3. Step(m, s, k.mn, k.srv) /\ Quiet(s, k.srv) /\ Good(k.mn, k.srv)
          BY <3>4, <4>2, StepTrans DEF Quiet, Step
        <4>4. CASE k.err # "ok" /\ o = k  BY <4>2, <4>3, <4>4 DEF Chosen
        <4>5. CASE k.err = "ok" /\ \E e \in ClearCreate(ClearRele(MarkNamePurge(k.mn)), k.srv, c) :
                    \/ e.err = "eexist" /\ o \in Did(ChoidOnly(e.mn, e.srv, t))
                    \/ e.err = "ok" /\ o \in Did(IF trunc THEN {e} ELSE Copy(e.mn, e.srv, a.mn.rv))
                    \/ e.err # "eexist" /\ e.err # "ok" /\ o \in Did({e})
          <5>. DEFINE p == MarkNamePurge(k.mn)
                      n == ClearRele(p)
          <5>1. k.mn.open = 0  BY <1>2, <4>3 DEF Step, Moves
          <5>2. Step(k.mn, k.srv, p, k.srv) /\ p.pnm /\ p.open = 0  BY <4>3, <5>1, PurgeStep
          <5>. HIDE DEF p
          <5>3. Step(p, k.srv, n, k.srv) /\ n.nm = Null  BY <5>2, ReleaseStep DEF Step
          <5>4. Step(m, s, n, k.srv)  BY <4>3, <5>2, <5>3, StepTrans
          <5>. HIDE DEF n
          <5>5. PICK e \in ClearCreate(n, k.srv, c) :
                    \/ e.err = "eexist" /\ o \in Did(ChoidOnly(e.mn, e.srv, t))
                    \/ e.err = "ok" /\ o \in Did(IF trunc THEN {e} ELSE Copy(e.mn, e.srv, a.mn.rv))
                    \/ e.err # "eexist" /\ e.err # "ok" /\ o \in Did({e})
            BY <4>5 DEF n, p
          <5>6. k.srv.ct = Pv  BY <4>2, <4>5
          <5>. QED  BY <3>4, <4>3, <5>3, <5>4, <5>5, <5>6, CreatedChosen
        <4>. QED  BY <4>1, <4>4, <4>5
      <3>. QED  BY <3>1, <3>5, <3>6
    <2>. QED  BY <2>1, <2>3, <2>4
  <1>. QED  BY <1>1, <1>2

LEMMA ChangeOidStep ==
  ASSUME NEW m, NEW s, Good(m, s), attrgen \in Nat, NEW t \in Threads, NEW force \in BOOLEAN,
         NEW trunc \in BOOLEAN, NEW o \in ChangeOid(m, s, t, force, trunc)
  PROVE  /\ Chosen(m, s, trunc, o) /\ (~m.ro => Quiet(s, o.srv))
         /\ (force \/ m.ro) /\ o.err = "ok" => o.did
  <1>1. CASE ~ChoidNeeded(m, t, force)
    <2>1. o.mn = m /\ o.srv = s /\ o.did = FALSE /\ IsOut(o)  BY <1>1 DEF ChangeOid, Ok, Out, IsOut
    <2>. QED  BY <1>1, <2>1, SelfStep DEF Chosen, ChoidNeeded
  <1>2. CASE ChoidNeeded(m, t, force)
    <2>1. PICK p \in (IF m.ro THEN CopyOnWrite(m, s, t, trunc) ELSE ChoidOnly(m, s, t)) :
            o = [p EXCEPT !.mn = IF p.did THEN Remember(p.mn, t) ELSE p.mn]
      BY <1>2 DEF ChangeOid
    <2>2. /\ Chosen(m, s, trunc, p) /\ (~m.ro => Quiet(s, p.srv))
          /\ p.err = "ok" => p.did
      <3>1. CASE m.ro
        <4>1. p \in CopyOnWrite(m, s, t, trunc)  BY <2>1, <3>1
        <4>. QED  BY <3>1, <4>1, CopyOnWriteStep
      <3>2. CASE ~m.ro
        <4>1. p \in ChoidOnly(m, s, t)  BY <2>1, <3>2
        <4>2. /\ IsOut(p) /\ Step(m, s, p.mn, p.srv) /\ Quiet(s, p.srv) /\ p.did \in BOOLEAN
              /\ p.did <=> p.err = "ok"
              /\ p.did => p.srv.ct = Pv /\ p.mn.nm \in {m.nm, Null}
          BY <4>1, ChoidOnlyOf
        <4>3. m.nm # Sh /\ Null # Sh  BY <3>2, Facts DEF Good, Mn
        <4>. QED  BY <4>2, <4>3 DEF Chosen
      <3>. QED  BY <3>1, <3>2
    <2>. DEFINE n == IF p.did THEN Remember(p.mn, t) ELSE p.mn
    <2>3. Good(p.mn, p.srv) /\ p.mn \in MnType  BY <2>2 DEF Chosen, Step, Good, Mn
    <2>4. Step(p.mn, p.srv, n, p.srv) /\ n.nm = p.mn.nm
      BY <2>3, RememberType, SelfStep, SameStep DEF Same
    <2>. HIDE DEF n
    <2>5. o.mn = n /\ o.srv = p.srv /\ o.err = p.err /\ o.did = p.did /\ IsOut(o)
      <3>1. IsOut(p) /\ o = [p EXCEPT !.mn = n]  BY <2>1, <2>2 DEF Chosen, n
      <3>2. ASSUME NEW a, NEW b, NEW c, NEW d, p = [mn |-> a, srv |-> b, err |-> c, did |-> d]
            PROVE  /\ o.mn = n /\ o.srv = b /\ o.err = c /\ o.did = d
                   /\ o = [mn |-> n, srv |-> b, err |-> c, did |-> d]
        BY <3>1, <3>2
      <3>. QED  BY <3>1, <3>2 DEF IsOut
    <2>6. Step(m, s, n, p.srv)  BY <2>2, <2>4, StepTrans DEF Chosen
    <2>. QED  BY <2>2, <2>4, <2>5, <2>6 DEF Chosen
  <1>. QED  BY <1>1, <1>2

-----------------------------------------------------------------------------
(* What the operations do under one hold of the lock.                      *)

LEMMA ChosenTrans ==
  ASSUME NEW m, NEW s, NEW n, NEW z, Good(m, s), Step(m, s, n, z), Quiet(s, z),
         NEW trunc, NEW o, Chosen(n, z, trunc, o)
  PROVE  Chosen(m, s, trunc, o)
  <1>1. Step(m, s, o.mn, o.srv)  BY StepTrans DEF Chosen
  <1>. QED  BY <1>1 DEF Chosen, Quiet, Made, Full

LEMMA GetToOpenOf ==
  ASSUME NEW t, NEW o \in GetToOpen(t)
  PROVE  \E g \in GetCleartext(mn, srv, CredOf[t]) :
           \/ g.err # "ok" /\ o = g
           \/ g.err = "ok" /\ ~Writes(loc[t].mode) /\ o = Out(g.mn, g.srv, "ok")
           \/ g.err = "ok" /\ Writes(loc[t].mode) /\ o = Out(g.mn, g.srv, "etxtbsy")
           \/ g.err = "ok" /\ Writes(loc[t].mode) /\ o \in ChangeOid(g.mn, g.srv, t, TRUE, loc[t].mode = "t")
  <1>. DEFINE F(x, y) == IF ~Writes(loc[t].mode) THEN Ok(x, y)
                         ELSE IF TextBusy(x) THEN Err(x, y, "etxtbsy")
                         ELSE ChangeOid(x, y, t, TRUE, loc[t].mode = "t")
  <1>1. PICK g \in GetCleartext(mn, srv, CredOf[t]) : o \in IF g.err = "ok" THEN F(g.mn, g.srv) ELSE {g}
    BY DEF GetToOpen, Then
  <1>. QED  BY <1>1 DEF Ok, Err

LEMMA GetToOpenStep ==
  ASSUME Good(mn, srv), attrgen \in Nat, NEW t \in Threads, NEW o \in GetToOpen(t)
  PROVE  /\ Chosen(mn, srv, loc[t].mode = "t", o)
         /\ o.did => Writes(loc[t].mode)
         /\ o.err = "ok" /\ Writes(loc[t].mode) => o.did
  <1>. DEFINE trunc == loc[t].mode = "t"
  <1>0. trunc \in BOOLEAN  OBVIOUS
  <1>1. PICK g \in GetCleartext(mn, srv, CredOf[t]) :
           \/ g.err # "ok" /\ o = g
           \/ g.err = "ok" /\ ~Writes(loc[t].mode) /\ o = Out(g.mn, g.srv, "ok")
           \/ g.err = "ok" /\ Writes(loc[t].mode) /\ o = Out(g.mn, g.srv, "etxtbsy")
           \/ g.err = "ok" /\ Writes(loc[t].mode) /\ o \in ChangeOid(g.mn, g.srv, t, TRUE, trunc)
    BY GetToOpenOf
  <1>. HIDE DEF trunc
  <1>2. IsOut(g) /\ Got(mn, srv, CredOf[t], g)  BY GetGot, GetOut
  <1>3. CASE g.err # "ok" /\ o = g  BY <1>2, <1>3 DEF Got, Chosen
  <1>4. CASE g.err = "ok" /\ ~Writes(loc[t].mode) /\ o = Out(g.mn, g.srv, "ok")
    <2>1. o.mn = g.mn /\ o.srv = g.srv /\ o.did = FALSE /\ IsOut(o)  BY <1>4 DEF Out, IsOut
    <2>. QED  BY <1>2, <1>4, <2>1 DEF Got, Chosen
  <1>5. CASE g.err = "ok" /\ Writes(loc[t].mode) /\ o = Out(g.mn, g.srv, "etxtbsy")
    <2>1. o.mn = g.mn /\ o.srv = g.srv /\ o.did = FALSE /\ o.err = "etxtbsy" /\ IsOut(o)
      BY <1>5 DEF Out, IsOut
    <2>. QED  BY <1>2, <2>1 DEF Got, Chosen
  <1>6. CASE Writes(loc[t].mode) /\ o \in ChangeOid(g.mn, g.srv, t, TRUE, trunc)
    <2>1. Step(mn, srv, g.mn, g.srv) /\ Quiet(srv, g.srv) /\ Good(g.mn, g.srv)  BY <1>2 DEF Got, Step
    <2>2. /\ Chosen(g.mn, g.srv, trunc, o)
          /\ (TRUE \/ g.mn.ro) /\ o.err = "ok" => o.did
      BY <1>0, <1>6, <2>1, ChangeOidStep
    <2>. QED  BY <1>6, <2>1, <2>2, ChosenTrans DEF trunc
  <1>. QED  BY <1>1, <1>3, <1>4, <1>5, <1>6 DEF trunc

LEMMA GetToSetOf ==
  ASSUME NEW t, NEW o \in GetToSet(t)
  PROVE  \E g \in GetCleartext(mn, srv, CredOf[t]) :
           \/ g.err # "ok" /\ o = g
           \/ g.err = "ok" /\ \E a \in ClearAttr(g.mn, g.srv) :
              \/ a.err # "ok" /\ o = a
              \/ a.err = "ok" /\ ~Writes(loc[t].mode) /\ o = Out(a.mn, a.srv, "ok")
              \/ a.err = "ok" /\ Writes(loc[t].mode) /\ o \in ChangeOid(a.mn, a.srv, t, TRUE, TRUE)
  <1>. DEFINE F(x, y) == IF Writes(loc[t].mode) THEN ChangeOid(x, y, t, TRUE, TRUE) ELSE Ok(x, y)
  <1>1. PICK b \in Then(GetCleartext(mn, srv, CredOf[t]), ClearAttr) :
          o \in IF b.err = "ok" THEN F(b.mn, b.srv) ELSE {b}
    BY DEF GetToSet, Then
  <1>2. PICK g \in GetCleartext(mn, srv, CredOf[t]) : b \in IF g.err = "ok" THEN ClearAttr(g.mn, g.srv) ELSE {g}
    BY <1>1 DEF Then
  <1>3. CASE g.err # "ok"  BY <1>1, <1>2, <1>3
  <1>4. CASE g.err = "ok"  BY <1>1, <1>2, <1>4 DEF Ok
  <1>. QED  BY <1>3, <1>4

LEMMA GetToSetStep ==
  ASSUME Good(mn, srv), attrgen \in Nat, NEW t \in Threads, NEW o \in GetToSet(t)
  PROVE  /\ Chosen(mn, srv, TRUE, o)
         /\ o.did => Writes(loc[t].mode)
         /\ o.err = "ok" /\ Writes(loc[t].mode) => o.did
  <1>1. PICK g \in GetCleartext(mn, srv, CredOf[t]) :
           \/ g.err # "ok" /\ o = g
           \/ g.err = "ok" /\ \E a \in ClearAttr(g.mn, g.srv) :
              \/ a.err # "ok" /\ o = a
              \/ a.err = "ok" /\ ~Writes(loc[t].mode) /\ o = Out(a.mn, a.srv, "ok")
              \/ a.err = "ok" /\ Writes(loc[t].mode) /\ o \in ChangeOid(a.mn, a.srv, t, TRUE, TRUE)
    BY GetToSetOf
  <1>2. IsOut(g) /\ Got(mn, srv, CredOf[t], g)  BY GetGot, GetOut
  <1>3. CASE g.err # "ok" /\ o = g  BY <1>2, <1>3 DEF Got, Chosen
  <1>4. CASE g.err = "ok" /\ \E a \in ClearAttr(g.mn, g.srv) :
              \/ a.err # "ok" /\ o = a
              \/ a.err = "ok" /\ ~Writes(loc[t].mode) /\ o = Out(a.mn, a.srv, "ok")
              \/ a.err = "ok" /\ Writes(loc[t].mode) /\ o \in ChangeOid(a.mn, a.srv, t, TRUE, TRUE)
    <2>1. PICK a \in ClearAttr(g.mn, g.srv) :
              \/ a.err # "ok" /\ o = a
              \/ a.err = "ok" /\ ~Writes(loc[t].mode) /\ o = Out(a.mn, a.srv, "ok")
              \/ a.err = "ok" /\ Writes(loc[t].mode) /\ o \in ChangeOid(a.mn, a.srv, t, TRUE, TRUE)
      BY <1>4
    <2>2. Step(mn, srv, g.mn, g.srv) /\ Quiet(srv, g.srv) /\ Good(g.mn, g.srv)  BY <1>2 DEF Got, Step
    <2>3. /\ Step(g.mn, g.srv, a.mn, a.srv) /\ Same(g.mn, a.mn) /\ a.srv = g.srv /\ a.did = FALSE /\ IsOut(a)
      BY <2>2, ClearAttrStep, ClearAttrOut
    <2>4. Step(mn, srv, a.mn, a.srv) /\ Quiet(srv, a.srv) /\ Good(a.mn, a.srv)
      BY <2>2, <2>3, StepTrans DEF Step
    <2>5. CASE a.err # "ok" /\ o = a  BY <2>3, <2>4, <2>5 DEF Chosen
    <2>6. CASE ~Writes(loc[t].mode) /\ o = Out(a.mn, a.srv, "ok")
      <3>1. o.mn = a.mn /\ o.srv = a.srv /\ o.did = FALSE /\ IsOut(o)  BY <2>6 DEF Out, IsOut
      <3>. QED  BY <2>4, <2>6, <3>1 DEF Chosen
    <2>7. CASE Writes(loc[t].mode) /\ o \in ChangeOid(a.mn, a.srv, t, TRUE, TRUE)
      <3>1. /\ Chosen(a.mn, a.srv, TRUE, o)
            /\ (TRUE \/ a.mn.ro) /\ o.err = "ok" => o.did
        BY <2>4, <2>7, ChangeOidStep
      <3>. QED  BY <2>4, <2>7, <3>1, ChosenTrans
    <2>. QED  BY <2>1, <2>5, <2>6, <2>7
  <1>. QED  BY <1>1, <1>3, <1>4

LEMMA SetViewStep ==
  ASSUME Good(mn, srv), attrgen \in Nat, NEW t \in Threads, NEW o \in SetView(t)
  PROVE  Step(mn, srv, o.mn, o.srv) /\ Quiet(srv, o.srv)
  <1>. DEFINE F(x, y) == ClntSetattr(x, y, FALSE, TRUE)
  <1>0. ASSUME NEW x, NEW y, NEW d \in ClearOwner(x, y)
        PROVE  d.mn = x /\ d.srv = y
    BY <1>0 DEF ClearOwner, Ok, Err, Out
  <1>1. PICK b \in Then(GetCleartext(mn, srv, CredOf[t]), ClearOwner) :
          o \in IF b.err = "ok" THEN F(b.mn, b.srv) ELSE {b}
    BY DEF SetView, Then
  <1>2. PICK g \in GetCleartext(mn, srv, CredOf[t]) : b \in IF g.err = "ok" THEN ClearOwner(g.mn, g.srv) ELSE {g}
    BY <1>1 DEF Then
  <1>3. Got(mn, srv, CredOf[t], g)  BY GetGot
  <1>4. b.mn = g.mn /\ b.srv = g.srv  BY <1>0, <1>2
  <1>5. Step(mn, srv, b.mn, b.srv) /\ Quiet(srv, b.srv) /\ Good(b.mn, b.srv)  BY <1>3, <1>4 DEF Got, Step
  <1>6. CASE b.err # "ok"  BY <1>1, <1>5, <1>6
  <1>7. CASE b.err = "ok"
    <2>1. o \in ClntSetattr(b.mn, b.srv, FALSE, TRUE)  BY <1>1, <1>7
    <2>2. Step(b.mn, b.srv, o.mn, o.srv) /\ Quiet(b.srv, o.srv)  BY <1>5, <2>1, SetattrStep
    <2>3. Step(mn, srv, o.mn, o.srv)  BY <1>5, <2>2, StepTrans
    <2>. QED  BY <1>5, <2>2, <2>3 DEF Quiet
  <1>. QED  BY <1>6, <1>7

LEMMA SizeBackStep ==
  ASSUME NEW m, NEW s, Good(m, s), attrgen \in Nat, NEW o \in SizeBack(m, s)
  PROVE  Step(m, s, o.mn, o.srv) /\ Quiet(s, o.srv)
  <1>. DEFINE F(x, y) == ClntSetattr(x, y, FALSE, TRUE)
  <1>1. PICK a \in ClearAttr(m, s) : o \in IF a.err = "ok" THEN F(a.mn, a.srv) ELSE {a}
    BY DEF SizeBack, Then
  <1>2. Step(m, s, a.mn, a.srv) /\ a.srv = s  BY ClearAttrStep
  <1>3. Good(a.mn, a.srv)  BY <1>2 DEF Step
  <1>6. CASE a.err # "ok"  BY <1>1, <1>2, <1>6 DEF Quiet
  <1>7. CASE a.err = "ok"
    <2>1. o \in ClntSetattr(a.mn, a.srv, FALSE, TRUE)  BY <1>1, <1>7
    <2>2. Step(a.mn, a.srv, o.mn, o.srv) /\ Quiet(a.srv, o.srv)  BY <1>3, <2>1, SetattrStep
    <2>3. Step(m, s, o.mn, o.srv)  BY <1>2, <2>2, StepTrans
    <2>. QED  BY <1>2, <2>2, <2>3
  <1>. QED  BY <1>6, <1>7

LEMMA SetattrOut ==
  ASSUME NEW m, NEW s, NEW aud, NEW w, NEW o \in ClntSetattr(m, s, aud, w)
  PROVE  IsOut(o)
  <1>. DEFINE size == m.rv # Null /\ w /\ m.cva # m.size
              set == aud /\ ~m.aud
              y == [s EXCEPT !.size = IF size THEN m.cva ELSE @, !.aud = @ \/ set]
              k == [AttrCache(m, y, attrgen) EXCEPT !.syncc = FALSE]
  <1>1. o \in {Out(m, s, "ok"), Out(m, s, "rpc"), Out(k, y, "ok")}
    BY DEF ClntSetattr, Rpc, Ok, Err
  <1>. HIDE DEF k, y
  <1>. QED  BY <1>1, IsOutOf

LEMMA SetAuditedStep ==
  ASSUME NEW m, NEW s, Good(m, s), attrgen \in Nat, NEW t \in Threads, NEW o \in SetAudited(m, s, t)
  PROVE  Step(m, s, o.mn, o.srv) /\ Quiet(s, o.srv)
  <1>1. CASE o \in Ok(m, s)
    <2>1. o.mn = m /\ o.srv = s  BY <1>1 DEF Ok, Out
    <2>. QED  BY <2>1, SelfStep
  <1>2. CASE o \in {[x EXCEPT !.err = "ok"] : x \in ClntSetattr(m, s, TRUE, FALSE)}
    <2>1. PICK x \in ClntSetattr(m, s, TRUE, FALSE) : o = [x EXCEPT !.err = "ok"]  BY <1>2
    <2>2. IsOut(x)  BY SetattrOut
    <2>3. o.mn = x.mn /\ o.srv = x.srv  BY <2>1, <2>2, ErrOut
    <2>4. Step(m, s, x.mn, x.srv) /\ Quiet(s, x.srv)  BY SetattrStep
    <2>. QED  BY <2>3, <2>4
  <1>. QED  BY <1>1, <1>2 DEF SetAudited

\* The cleartext was opened once more; x and y are what was there before.
OpenedFrom(x, y, mode, o) ==
  /\ x.rv # Null
  /\ o.mn = [x EXCEPT !.cop[x.rv] = @ + 1, !.open = @ + 1, !.wopen = @ + (IF Writes(mode) THEN 1 ELSE 0)]
  /\ o.srv = IF mode = "t" THEN [y EXCEPT !.data[x.rv] = 0] ELSE y
OpenOut(m, s, mode, o) ==
  \/ o.err # "ok" /\ Step(m, s, o.mn, o.srv) /\ Quiet(s, o.srv)
  \/ o.err = "ok" /\ \E x, y : Step(m, s, x, y) /\ Quiet(s, y) /\ OpenedFrom(x, y, mode, o)

LEMMA OpenedStep ==
  ASSUME NEW m, NEW s, NEW x, NEW y, Step(m, s, x, y), Quiet(s, y), x.rv # Null, NEW t,
         NEW o \in Opened(x, y, t, x.rv)
  PROVE  OpenOut(m, s, loc[t].mode, o)
  <1>1. CASE ~Alive(y, x.rv)
    <2>1. o.mn = x /\ o.srv = y /\ o.err = "stale"  BY <1>1 DEF Opened, Err, Out
    <2>. QED  BY <2>1 DEF OpenOut
  <1>2. CASE Alive(y, x.rv)
    <2>. DEFINE n == [x EXCEPT !.cop[x.rv] = @ + 1, !.open = @ + 1,
                               !.wopen = @ + (IF Writes(loc[t].mode) THEN 1 ELSE 0)]
                z == IF loc[t].mode = "t" THEN [y EXCEPT !.data[x.rv] = 0] ELSE y
    <2>1. o = Out(n, z, "ok")  BY <1>2 DEF Opened, Ok
    <2>2. o.mn = n /\ o.srv = z /\ o.err = "ok"
      <3>. HIDE DEF n, z
      <3>. QED  BY <2>1 DEF Out
    <2>3. OpenedFrom(x, y, loc[t].mode, o)  BY <2>2 DEF OpenedFrom
    <2>. QED  BY <2>2, <2>3 DEF OpenOut
  <1>. QED  BY <1>1, <1>2

LEMMA OpenVpOf ==
  ASSUME NEW t, NEW o \in OpenVp(t)
  PROVE  \E g \in GetCleartext(MSetCred(mn, Writes(loc[t].mode)), srv, CredOf[t]) :
           \/ g.err # "ok" /\ o = g
           \/ g.err = "ok" /\ \E p \in Opened(g.mn, g.srv, t, g.mn.rv) :
              \/ o = p
              \/ /\ p.err = "stale" /\ p.mn.open = 0
                 /\ \E h \in GetCleartext(ClearRele(MarkNamePurge(p.mn)), p.srv, CredOf[t]) :
                    \/ h.err # "ok" /\ o = h
                    \/ h.err = "ok" /\ o \in Opened(h.mn, h.srv, t, h.mn.rv)
  <1>. DEFINE F(x, y) == UNION {OpenRetry(p, t) : p \in Opened(x, y, t, x.rv)}
              H(x, y) == Opened(x, y, t, x.rv)
              m == MSetCred(mn, Writes(loc[t].mode))
  <1>1. PICK g \in GetCleartext(m, srv, CredOf[t]) : o \in IF g.err = "ok" THEN F(g.mn, g.srv) ELSE {g}
    BY DEF OpenVp, Then
  <1>2. CASE g.err # "ok"  BY <1>1, <1>2
  <1>3. CASE g.err = "ok"
    <2>1. PICK p \in Opened(g.mn, g.srv, t, g.mn.rv) : o \in OpenRetry(p, t)  BY <1>1, <1>3
    <2>2. CASE ~(p.err = "stale" /\ p.mn.open = 0)
      <3>1. o = p  BY <2>1, <2>2 DEF OpenRetry
      <3>. QED  BY <1>3, <2>1, <3>1
    <2>3. CASE p.err = "stale" /\ p.mn.open = 0
      <3>1. PICK h \in GetCleartext(ClearRele(MarkNamePurge(p.mn)), p.srv, CredOf[t]) :
              o \in IF h.err = "ok" THEN H(h.mn, h.srv) ELSE {h}
        BY <2>1, <2>3 DEF OpenRetry, Then
      <3>2. \/ h.err # "ok" /\ o = h
            \/ h.err = "ok" /\ o \in Opened(h.mn, h.srv, t, h.mn.rv)
        BY <3>1
      <3>. QED  BY <1>3, <2>1, <2>3, <3>1, <3>2
    <2>. QED  BY <2>2, <2>3
  <1>. QED  BY <1>2, <1>3

LEMMA OpenVpStep ==
  ASSUME Good(mn, srv), attrgen \in Nat, NEW t \in Threads, NEW o \in OpenVp(t)
  PROVE  OpenOut(mn, srv, loc[t].mode, o)
  <1>. DEFINE w == Writes(loc[t].mode)
              m == MSetCred(mn, w)
              c == CredOf[t]
  <1>0. w \in BOOLEAN  BY DEF Writes
  <1>. HIDE DEF w
  <1>1. Step(mn, srv, m, srv) /\ Good(m, srv)
    <2>1. mn \in MnType  BY DEF Good, Mn
    <2>2. m \in MnType /\ Same(mn, m)  BY <1>0, <2>1, SetCredType
    <2>. QED  BY <2>2, SameStep DEF Step
  <1>. HIDE DEF m
  <1>2. PICK g \in GetCleartext(m, srv, c) :
           \/ g.err # "ok" /\ o = g
           \/ g.err = "ok" /\ \E p \in Opened(g.mn, g.srv, t, g.mn.rv) :
              \/ o = p
              \/ /\ p.err = "stale" /\ p.mn.open = 0
                 /\ \E h \in GetCleartext(ClearRele(MarkNamePurge(p.mn)), p.srv, c) :
                    \/ h.err # "ok" /\ o = h
                    \/ h.err = "ok" /\ o \in Opened(h.mn, h.srv, t, h.mn.rv)
    BY OpenVpOf DEF m, w
  <1>3. Got(m, srv, c, g)  BY <1>1, GetGot
  <1>4. Step(mn, srv, g.mn, g.srv) /\ Quiet(srv, g.srv) /\ Good(g.mn, g.srv)
    BY <1>1, <1>3, StepTrans DEF Got, Step
  <1>5. CASE g.err # "ok" /\ o = g  BY <1>4, <1>5 DEF OpenOut
  <1>6. CASE g.err = "ok" /\ \E p \in Opened(g.mn, g.srv, t, g.mn.rv) :
              \/ o = p
              \/ /\ p.err = "stale" /\ p.mn.open = 0
                 /\ \E h \in GetCleartext(ClearRele(MarkNamePurge(p.mn)), p.srv, c) :
                    \/ h.err # "ok" /\ o = h
                    \/ h.err = "ok" /\ o \in Opened(h.mn, h.srv, t, h.mn.rv)
    <2>1. PICK p \in Opened(g.mn, g.srv, t, g.mn.rv) :
              \/ o = p
              \/ /\ p.err = "stale" /\ p.mn.open = 0
                 /\ \E h \in GetCleartext(ClearRele(MarkNamePurge(p.mn)), p.srv, c) :
                    \/ h.err # "ok" /\ o = h
                    \/ h.err = "ok" /\ o \in Opened(h.mn, h.srv, t, h.mn.rv)
      BY <1>6
    <2>2. g.mn.rv # Null  BY <1>3, <1>6 DEF Got
    <2>3. OpenOut(mn, srv, loc[t].mode, p)  BY <1>4, <2>2, OpenedStep
    <2>4. CASE o = p  BY <2>3, <2>4
    <2>5. CASE /\ p.err = "stale" /\ p.mn.open = 0
               /\ \E h \in GetCleartext(ClearRele(MarkNamePurge(p.mn)), p.srv, c) :
                    \/ h.err # "ok" /\ o = h
                    \/ h.err = "ok" /\ o \in Opened(h.mn, h.srv, t, h.mn.rv)
      <3>. DEFINE a == MarkNamePurge(p.mn)
                  b == ClearRele(a)
      <3>1. Step(mn, srv, p.mn, p.srv) /\ Quiet(srv, p.srv) /\ Good(p.mn, p.srv) /\ p.mn.open = 0
        BY <2>3, <2>5 DEF OpenOut, Step
      <3>2. Step(p.mn, p.srv, a, p.srv) /\ a.open = 0  BY <3>1, PurgeStep
      <3>. HIDE DEF a
      <3>3. Step(a, p.srv, b, p.srv)  BY <3>2, ReleaseStep DEF Step
      <3>4. Step(mn, srv, b, p.srv) /\ Good(b, p.srv)  BY <3>1, <3>2, <3>3, StepTrans DEF Step
      <3>5. PICK h \in GetCleartext(b, p.srv, c) :
                    \/ h.err # "ok" /\ o = h
                    \/ h.err = "ok" /\ o \in Opened(h.mn, h.srv, t, h.mn.rv)
        BY <2>5 DEF a
      <3>. HIDE DEF b
      <3>6. Got(b, p.srv, c, h)  BY <3>4, GetGot
      <3>7. Step(mn, srv, h.mn, h.srv) /\ Quiet(srv, h.srv)
        BY <3>1, <3>4, <3>6, StepTrans DEF Got, Quiet
      <3>8. CASE h.err # "ok" /\ o = h  BY <3>7, <3>8 DEF OpenOut
      <3>9. CASE h.err = "ok" /\ o \in Opened(h.mn, h.srv, t, h.mn.rv)
        <4>1. h.mn.rv # Null  BY <3>6, <3>9 DEF Got
        <4>. QED  BY <3>7, <3>9, <4>1, OpenedStep
      <3>. QED  BY <3>5, <3>8, <3>9
    <2>. QED  BY <2>1, <2>4, <2>5
  <1>. QED  BY <1>2, <1>5, <1>6

-----------------------------------------------------------------------------
(* A step of one thread, part by part of the invariant.                    *)

Opens(m, n) ==
  /\ n.open = m.open /\ n.wopen = m.wopen /\ n.cop = m.cop
  /\ m.open > 0 => n.rv = m.rv /\ n.nm = m.nm
Stamps(m, n) ==
  \/ n.gen = m.gen /\ n.fetched = m.fetched /\ n.live = m.live
  \/ n.gen = Word(attrgen) /\ n.fetched = attrgen /\ n.live
LEMMA MovesParts ==
  ASSUME NEW m, NEW n, Moves(m, n)
  PROVE  Opens(m, n) /\ Stamps(m, n)
  BY DEF Moves, Opens, Stamps

Gone(p, l) == IF p = "idle" THEN NoLoc ELSE l
LEMMA GotoTo ==
  ASSUME Kinds, NEW t \in Threads, NEW p \in Pcs, NEW l, Goto(t, p, l)
  PROVE  /\ pc' \in [Threads -> Pcs] /\ loc' = [u \in Threads |-> loc'[u]]
         /\ pc'[t] = p /\ loc'[t] = Gone(p, l) /\ work' = work
         /\ \A u \in Threads \ {t} : pc'[u] = pc[u] /\ loc'[u] = loc[u]
  BY DEF Kinds, Goto, Gone

LEMMA IdleLocal ==
  ASSUME NEW o, NEW c, NEW w, o # "none" => "open" \in w.ops
  PROVE  Local("idle", NoLoc, o, c, w)
  <1>1. IsLoc(NoLoc)  BY DEF IsLoc, NoLoc
  <1>2. /\ NoLoc.mode = "r" /\ NoLoc.v = Null /\ NoLoc.gen = 0  BY DEF NoLoc
  <1>. QED  BY <1>1, <1>2 DEF Local, Modes, Opening

LEMMA KindsKept ==
  ASSUME Kinds, NEW t \in Threads, NEW p \in Pcs, NEW l, Goto(t, p, l),
         attrgen' = attrgen, thr' = thr, open' = open, logical' = logical, spoiled' \in BOOLEAN
  PROVE  Kinds'
  BY GotoTo DEF Kinds

LEMMA LocalsKept ==
  ASSUME Kinds, Locals, NEW t \in Threads, NEW p \in Pcs, NEW l, Goto(t, p, l),
         \A u \in Threads \ {t} : open'[u] = open[u],
         Local(p, Gone(p, l), open'[t], CredOf[t], work)
  PROVE  Locals'
  BY GotoTo DEF Locals

LEMMA CopiedKept ==
  ASSUME Kinds, Copied, NEW t \in Threads, NEW p \in Pcs, NEW l, Goto(t, p, l),
         Private => Private', Changed(p, Gone(p, l)) => Private'
  PROVE  Copied'
  BY GotoTo DEF Copied
LEMMA PrivateKept ==
  ASSUME Step(mn, srv, mn', srv')
  PROVE  Private => Private'
  BY DEF Private, Step, Serves

User(p, l, v) == l.v = v /\ p \in {"audit", "relock", "write", "io", "post", "dropped"}
LEMMA UsersOf == \A v : Users(v) = {u \in Threads : User(pc[u], loc[u], v)}
  BY DEF Users, User
SameUser(t, p, l) == \A v \in Vnodes : User(p, l, v) <=> User(pc[t], loc[t], v)
LEMMA UsersKept ==
  ASSUME Kinds, NEW t \in Threads, NEW p \in Pcs, NEW l, Goto(t, p, l), SameUser(t, p, Gone(p, l)),
         NEW v \in Vnodes
  PROVE  Users(v)' = Users(v)
  <1>1. \A u \in Threads : User(pc'[u], loc'[u], v) <=> User(pc[u], loc[u], v)
    BY GotoTo DEF SameUser
  <1>. QED  BY <1>1 DEF Users, User
LEMMA RefsKept ==
  ASSUME RefsHeld, Step(mn, srv, mn', srv'), mn \in MnType, \A v \in Vnodes : Users(v)' = Users(v)
  PROVE  RefsHeld'
  <1>1. SUFFICES ASSUME NEW v \in Vnodes
                 PROVE  mn'.ref[v] = (IF mn'.rv = v THEN 1 ELSE 0) + Cardinality(Users(v)) + mn'.leaked[v]
    BY DEF RefsHeld
  <1>2. mn'.ref[v] - Holds(mn', v) = mn.ref[v] - Holds(mn, v) /\ mn'.leaked = mn.leaked  BY DEF Step, Moves
  <1>3. mn.ref[v] = Holds(mn, v) + Cardinality(Users(v)) + mn.leaked[v]  BY DEF RefsHeld, Holds
  <1>4. mn' \in MnType  BY DEF Step, Good, Mn
  <1>5. mn.ref[v] \in Nat /\ mn'.ref[v] \in Nat /\ mn.leaked[v] \in Nat  BY <1>4 DEF MnType
  <1>. DEFINE k == Cardinality(Users(v))
  <1>6. Users(v) \subseteq Threads /\ IsFiniteSet(Threads)  BY FileAssumption DEF FileAssumption, Users
  <1>7. k \in Nat  BY <1>6, FS_Subset, FS_CardinalityType
  <1>. HIDE DEF k
  <1>8. mn'.ref[v] = Holds(mn', v) + k + mn'.leaked[v]  BY <1>2, <1>3, <1>5, <1>7 DEF Holds, k
  <1>. QED  BY <1>8 DEF Holds, k

LEMMA WopenLe ==
  ASSUME OpensPaired
  PROVE  mn.open \in Nat /\ mn.wopen \in Nat /\ mn.wopen <= mn.open
  <1>. DEFINE A == {u \in Threads : open[u] # "none"}
              B == {u \in Threads : open[u] \in {"w", "t"}}
  <1>1. IsFiniteSet(A) /\ B \subseteq A
    BY FS_Subset, FileAssumption DEF FileAssumption
  <1>2. IsFiniteSet(B) /\ Cardinality(A) \in Nat /\ Cardinality(B) \in Nat /\ Cardinality(B) <= Cardinality(A)
    BY <1>1, FS_Subset, FS_CardinalityType
  <1>. QED  BY <1>2 DEF OpensPaired

LEMMA OpensKept ==
  ASSUME OpensPaired, Good(mn, srv), Good(mn', srv'), Opens(mn, mn'), open' = open
  PROVE  OpensPaired'
  <1>1. mn.open \in Nat /\ mn.wopen \in Nat /\ mn.wopen <= mn.open  BY WopenLe
  <1>2. \A v \in Vnodes : mn'.cop[v] = IF mn'.rv = v THEN mn'.open ELSE 0
    BY <1>1 DEF OpensPaired, Opens
  <1>3. mn'.wopen > 0 => ~mn'.ro
    <2>1. CASE mn.wopen > 0
      <3>1. mn.open > 0 /\ mn'.nm = mn.nm /\ mn.rv # Null /\ ~mn.ro  BY <1>1, <2>1 DEF Opens, OpensPaired
      <3>2. mn.nm = mn.rv[1] /\ mn.rv \in Vnodes /\ mn.nm # Null
        BY <3>1, Facts DEF Good, Mn, MnType, Cts
      <3>. QED  BY <3>1, <3>2 DEF Good, Mn
    <2>2. CASE ~(mn.wopen > 0)  BY <2>2 DEF Opens
    <2>. QED  BY <2>1, <2>2
  <1>4. mn'.open > 0 => mn'.rv # Null  BY DEF OpensPaired, Opens
  <1>. QED  BY <1>2, <1>3, <1>4 DEF OpensPaired, Opens

LEMMA MarksKept ==
  ASSUME Kinds, Marks, NEW t \in Threads, NEW p \in Pcs, NEW l, Goto(t, p, l),
         attrgen' = attrgen, thr' = thr, Stamps(mn, mn'), pc[t] # "marked",
         p = "use" => mn'.fetched >= thr[t].mark
  PROVE  Marks'
  <1>0. attrgen \in Nat /\ Word(attrgen) \in Nat  BY WordNat DEF Kinds
  <1>1. \A u \in Threads : thr[u].mark \in Nat  BY DEF Kinds
  <1>2. mn'.fetched <= attrgen  BY <1>0 DEF Marks, Stamps
  <1>3. mn'.live => mn'.gen = Word(mn'.fetched) /\
          \A x \in mn'.fetched .. attrgen : Word(x) = Word(mn'.fetched) + (x - mn'.fetched)
    <2>1. CASE mn'.gen = mn.gen /\ mn'.fetched = mn.fetched /\ mn'.live = mn.live  BY <2>1 DEF Marks
    <2>2. CASE mn'.gen = Word(attrgen) /\ mn'.fetched = attrgen
      <3>1. \A x \in attrgen .. attrgen : x = attrgen  BY <1>0
      <3>. QED  BY <1>0, <2>2, <3>1
    <2>. QED  BY <2>1, <2>2 DEF Stamps
  <1>4. ASSUME NEW u \in Threads
        PROVE  /\ thr[u].mark <= attrgen
               /\ pc'[u] # "marked" => \E x \in thr[u].mark .. attrgen : thr[u].gen = Word(x)
               /\ pc'[u] = "use" => mn'.fetched >= thr[u].mark
    <2>1. thr[u].mark <= attrgen  BY DEF Marks
    <2>2. CASE u = t  BY <2>1, <2>2, GotoTo DEF Marks
    <2>3. CASE u # t
      <3>1. pc'[u] = pc[u]  BY <2>3, GotoTo
      <3>2. mn'.fetched = mn.fetched \/ mn'.fetched = attrgen  BY DEF Stamps
      <3>. QED  BY <1>0, <1>1, <2>1, <3>1, <3>2 DEF Marks
    <2>. QED  BY <2>2, <2>3
  <1>5. work' = work  BY GotoTo
  <1>. HIDE DEF Word
  <1>. QED  BY <1>2, <1>3, <1>4, <1>5 DEF Marks

\* Whether a thread that goes to p leaves a truncation behind
Ends(t, p, l) ==
  /\ Cutting(pc[t], loc[t]) /\ ~Cutting(p, l) => spoiled'
  /\ Ended(p, l) => spoiled'
LEMMA DataQuiet ==
  ASSUME Kinds, Data, NEW t \in Threads, NEW p \in Pcs, NEW l, Goto(t, p, l),
         Quiet(srv, srv'), logical' = logical, spoiled' \in BOOLEAN, spoiled => spoiled',
         Ends(t, p, Gone(p, l))
  PROVE  Data'
  <1>1. srv'.data = srv.data /\ srv'.file[Pv] = srv.file[Pv]  BY DEF Quiet
  <1>2. \A u \in Threads : Ended(pc'[u], loc'[u]) => spoiled'  BY GotoTo DEF Data, Ends
  <1>3. ~spoiled' /\ (\A u \in Threads : ~Cutting(pc'[u], loc'[u])) =>
          ~spoiled /\ \A u \in Threads : ~Cutting(pc[u], loc[u])
    BY GotoTo DEF Ends
  <1>. QED  BY <1>1, <1>2, <1>3 DEF Data

LEMMA DataChosen ==
  ASSUME Kinds, Data, Good(mn, srv), NEW t \in Threads, NEW p \in Pcs, NEW l, Goto(t, p, l),
         NEW trunc, NEW o, Chosen(mn, srv, trunc, o), srv' = o.srv, logical' = logical,
         spoiled' \in BOOLEAN, spoiled => spoiled', Ends(t, p, Gone(p, l)),
         o.did /\ o.err # "ok" => spoiled',
         o.did /\ o.err = "ok" /\ trunc => Cutting(p, Gone(p, l))
  PROVE  Data'
  <1>1. CASE Quiet(srv, srv')  BY <1>1, DataQuiet
  <1>2. CASE o.did /\ Made(srv, o.srv) /\ (o.err = "ok" /\ ~trunc => Full(srv, o.srv))
    <2>1. \A u \in Threads : Ended(pc'[u], loc'[u]) => spoiled'  BY GotoTo DEF Data, Ends
    <2>2. logical.v = 1 /\ srv'.file[Pv] = 1  BY <1>2 DEF Data, Made
    <2>3. srv'.data[<<Sh, 1>>] = 1 /\ srv'.data[<<Sh, 2>>] = 1  BY <1>2 DEF Data, Made
    <2>4. ASSUME ~spoiled', \A u \in Threads : ~Cutting(pc'[u], loc'[u])
          PROVE  srv'.data[<<Pv, 1>>] = logical.v
      <3>1. ~trunc  BY <1>2, <2>4, GotoTo
      <3>2. Full(srv, o.srv)  BY <1>2, <2>4, <3>1
      <3>. QED  BY <2>2, <3>2 DEF Full, Data
    <2>. QED  BY <2>1, <2>2, <2>3, <2>4 DEF Data
  <1>. QED  BY <1>1, <1>2 DEF Chosen

\* A step of thread t under one hold of the lock, or of none, with the references and opens as they were
LEMMA Plain ==
  ASSUME FileInv, NEW t \in Threads, NEW p \in Pcs, NEW l, Goto(t, p, l),
         Step(mn, srv, mn', srv'), attrgen' = attrgen, thr' = thr, open' = open, touched' = touched,
         logical' = logical, spoiled' \in BOOLEAN,
         Local(p, Gone(p, l), open[t], CredOf[t], work),
         Changed(p, Gone(p, l)) => Private',
         SameUser(t, p, Gone(p, l)), pc[t] # "marked",
         p = "use" => mn'.fetched >= thr[t].mark,
         Data'
  PROVE  FileInv'
  <1>1. Kinds'  BY KindsKept DEF FileInv
  <1>2. Good(mn', srv') /\ Opens(mn, mn') /\ Stamps(mn, mn') /\ mn \in MnType
    BY MovesParts DEF Step, FileInv, Good, Mn
  <1>3. srv'.cow => srv'.ct = Pv  BY DEF FileInv, Step, Serves
  <1>4. RefsHeld'
    <2>1. \A v \in Vnodes : Users(v)' = Users(v)  BY UsersKept DEF FileInv
    <2>. QED  BY <1>2, <2>1, RefsKept DEF FileInv
  <1>5. OpensPaired'  BY <1>2, OpensKept DEF FileInv
  <1>6. Locals'  BY LocalsKept DEF FileInv
  <1>7. Copied'  BY CopiedKept, PrivateKept DEF FileInv
  <1>8. SharedIntact'  BY DEF FileInv, SharedIntact
  <1>9. Marks'  BY <1>2, MarksKept DEF FileInv
  <1>10. Good(mn, srv)'
    <2>1. work' = work /\ attrgen' = attrgen  BY GotoTo DEF FileInv
    <2>. QED  BY <1>2, <2>1 DEF Good, Mn
  <1>. QED  BY <1>1, <1>3, <1>4, <1>5, <1>6, <1>7, <1>8, <1>9, <1>10 DEF FileInv

-----------------------------------------------------------------------------
(* The operations, one by one.                                             *)

LEMMA LocErr ==
  ASSUME NEW l, IsLoc(l), NEW e
  PROVE  LET n == [l EXCEPT !.err = e]
         IN  IsLoc(n) /\ n.mode = l.mode /\ n.v = l.v /\ n.err = e /\ n.ans = l.ans /\ n.gen = l.gen
  <1>1. ASSUME NEW b, NEW c, NEW d, NEW f, NEW g, NEW h, NEW j,
               l = [mode |-> b, v |-> c, err |-> d, oid |-> f, began |-> g, ans |-> h, gen |-> j]
        PROVE  LET n == [l EXCEPT !.err = e]
               IN  /\ n = [mode |-> b, v |-> c, err |-> e, oid |-> f, began |-> g, ans |-> h, gen |-> j]
                   /\ n.mode = b /\ n.v = c /\ n.err = e /\ n.ans = h /\ n.gen = j
    BY <1>1
  <1>2. LET n == [l EXCEPT !.err = e]
        IN  /\ n = [mode |-> l.mode, v |-> l.v, err |-> e, oid |-> l.oid, began |-> l.began, ans |-> l.ans, gen |-> l.gen]
            /\ n.mode = l.mode /\ n.v = l.v /\ n.err = e /\ n.ans = l.ans /\ n.gen = l.gen
    BY <1>1 DEF IsLoc
  <1>. QED  BY <1>2 DEF IsLoc
LEMMA LocOid ==
  ASSUME NEW l, IsLoc(l), NEW i
  PROVE  LET n == [l EXCEPT !.oid = i]
         IN  IsLoc(n) /\ n.mode = l.mode /\ n.v = l.v /\ n.err = l.err /\ n.ans = l.ans /\ n.gen = l.gen
  <1>1. ASSUME NEW b, NEW c, NEW d, NEW f, NEW g, NEW h, NEW j,
               l = [mode |-> b, v |-> c, err |-> d, oid |-> f, began |-> g, ans |-> h, gen |-> j]
        PROVE  LET n == [l EXCEPT !.oid = i]
               IN  /\ n = [mode |-> b, v |-> c, err |-> d, oid |-> i, began |-> g, ans |-> h, gen |-> j]
                   /\ n.mode = b /\ n.v = c /\ n.err = d /\ n.ans = h /\ n.gen = j
    BY <1>1
  <1>2. LET n == [l EXCEPT !.oid = i]
        IN  /\ n = [mode |-> l.mode, v |-> l.v, err |-> l.err, oid |-> i, began |-> l.began, ans |-> l.ans, gen |-> l.gen]
            /\ n.mode = l.mode /\ n.v = l.v /\ n.err = l.err /\ n.ans = l.ans /\ n.gen = l.gen
    BY <1>1 DEF IsLoc
  <1>. QED  BY <1>2 DEF IsLoc
LEMMA LocAns ==
  ASSUME NEW l, IsLoc(l), NEW a
  PROVE  LET n == [l EXCEPT !.ans = a]
         IN  IsLoc(n) /\ n.mode = l.mode /\ n.v = l.v /\ n.err = l.err /\ n.ans = a /\ n.gen = l.gen
  <1>1. ASSUME NEW b, NEW c, NEW d, NEW f, NEW g, NEW h, NEW j,
               l = [mode |-> b, v |-> c, err |-> d, oid |-> f, began |-> g, ans |-> h, gen |-> j]
        PROVE  LET n == [l EXCEPT !.ans = a]
               IN  /\ n = [mode |-> b, v |-> c, err |-> d, oid |-> f, began |-> g, ans |-> a, gen |-> j]
                   /\ n.mode = b /\ n.v = c /\ n.err = d /\ n.ans = a /\ n.gen = j
    BY <1>1
  <1>2. LET n == [l EXCEPT !.ans = a]
        IN  /\ n = [mode |-> l.mode, v |-> l.v, err |-> l.err, oid |-> l.oid, began |-> l.began, ans |-> a, gen |-> l.gen]
            /\ n.mode = l.mode /\ n.v = l.v /\ n.err = l.err /\ n.ans = a /\ n.gen = l.gen
    BY <1>1 DEF IsLoc
  <1>. QED  BY <1>2 DEF IsLoc
LEMMA LocHeld ==
  ASSUME NEW l, IsLoc(l), NEW x
  PROVE  LET n == [l EXCEPT !.v = x]
         IN  IsLoc(n) /\ n.mode = l.mode /\ n.v = x /\ n.err = l.err /\ n.ans = l.ans /\ n.gen = l.gen
  <1>1. ASSUME NEW b, NEW c, NEW d, NEW f, NEW g, NEW h, NEW j,
               l = [mode |-> b, v |-> c, err |-> d, oid |-> f, began |-> g, ans |-> h, gen |-> j]
        PROVE  LET n == [l EXCEPT !.v = x]
               IN  /\ n = [mode |-> b, v |-> x, err |-> d, oid |-> f, began |-> g, ans |-> h, gen |-> j]
                   /\ n.mode = b /\ n.v = x /\ n.err = d /\ n.ans = h /\ n.gen = j
    BY <1>1
  <1>2. LET n == [l EXCEPT !.v = x]
        IN  /\ n = [mode |-> l.mode, v |-> x, err |-> l.err, oid |-> l.oid, began |-> l.began, ans |-> l.ans, gen |-> l.gen]
            /\ n.mode = l.mode /\ n.v = x /\ n.err = l.err /\ n.ans = l.ans /\ n.gen = l.gen
    BY <1>1 DEF IsLoc
  <1>. QED  BY <1>2 DEF IsLoc
LEMMA LocMode ==
  ASSUME NEW l, IsLoc(l), NEW x
  PROVE  LET n == [l EXCEPT !.mode = x]
         IN  IsLoc(n) /\ n.mode = x /\ n.v = l.v /\ n.err = l.err /\ n.ans = l.ans /\ n.gen = l.gen
  <1>1. ASSUME NEW b, NEW c, NEW d, NEW f, NEW g, NEW h, NEW j,
               l = [mode |-> b, v |-> c, err |-> d, oid |-> f, began |-> g, ans |-> h, gen |-> j]
        PROVE  LET n == [l EXCEPT !.mode = x]
               IN  /\ n = [mode |-> x, v |-> c, err |-> d, oid |-> f, began |-> g, ans |-> h, gen |-> j]
                   /\ n.mode = x /\ n.v = c /\ n.err = d /\ n.ans = h /\ n.gen = j
    BY <1>1
  <1>2. LET n == [l EXCEPT !.mode = x]
        IN  /\ n = [mode |-> x, v |-> l.v, err |-> l.err, oid |-> l.oid, began |-> l.began, ans |-> l.ans, gen |-> l.gen]
            /\ n.mode = x /\ n.v = l.v /\ n.err = l.err /\ n.ans = l.ans /\ n.gen = l.gen
    BY <1>1 DEF IsLoc
  <1>. QED  BY <1>2 DEF IsLoc
LEMMA LocBegan ==
  ASSUME NEW l, IsLoc(l), NEW x
  PROVE  LET n == [l EXCEPT !.began = x]
         IN  IsLoc(n) /\ n.mode = l.mode /\ n.v = l.v /\ n.err = l.err /\ n.ans = l.ans /\ n.gen = l.gen
  <1>1. ASSUME NEW b, NEW c, NEW d, NEW f, NEW g, NEW h, NEW j,
               l = [mode |-> b, v |-> c, err |-> d, oid |-> f, began |-> g, ans |-> h, gen |-> j]
        PROVE  LET n == [l EXCEPT !.began = x]
               IN  /\ n = [mode |-> b, v |-> c, err |-> d, oid |-> f, began |-> x, ans |-> h, gen |-> j]
                   /\ n.mode = b /\ n.v = c /\ n.err = d /\ n.ans = h /\ n.gen = j
    BY <1>1
  <1>2. LET n == [l EXCEPT !.began = x]
        IN  /\ n = [mode |-> l.mode, v |-> l.v, err |-> l.err, oid |-> l.oid, began |-> x, ans |-> l.ans, gen |-> l.gen]
            /\ n.mode = l.mode /\ n.v = l.v /\ n.err = l.err /\ n.ans = l.ans /\ n.gen = l.gen
    BY <1>1 DEF IsLoc
  <1>. QED  BY <1>2 DEF IsLoc
LEMMA LocGen ==
  ASSUME NEW l, IsLoc(l), NEW x
  PROVE  LET n == [l EXCEPT !.gen = x]
         IN  IsLoc(n) /\ n.mode = l.mode /\ n.v = l.v /\ n.err = l.err /\ n.ans = l.ans /\ n.gen = x
  <1>1. ASSUME NEW b, NEW c, NEW d, NEW f, NEW g, NEW h, NEW j,
               l = [mode |-> b, v |-> c, err |-> d, oid |-> f, began |-> g, ans |-> h, gen |-> j]
        PROVE  LET n == [l EXCEPT !.gen = x]
               IN  /\ n = [mode |-> b, v |-> c, err |-> d, oid |-> f, began |-> g, ans |-> h, gen |-> x]
                   /\ n.mode = b /\ n.v = c /\ n.err = d /\ n.ans = h /\ n.gen = x
    BY <1>1
  <1>2. LET n == [l EXCEPT !.gen = x]
        IN  /\ n = [mode |-> l.mode, v |-> l.v, err |-> l.err, oid |-> l.oid, began |-> l.began, ans |-> l.ans, gen |-> x]
            /\ n.mode = l.mode /\ n.v = l.v /\ n.err = l.err /\ n.ans = l.ans /\ n.gen = x
    BY <1>1 DEF IsLoc
  <1>. QED  BY <1>2 DEF IsLoc
LSet(l, e, i, a) == [l EXCEPT !.err = e, !.oid = i, !.ans = a]
LEMMA LocSet ==
  ASSUME NEW l, IsLoc(l), NEW e, NEW i, NEW a
  PROVE  LET n == LSet(l, e, i, a)
         IN  IsLoc(n) /\ n.mode = l.mode /\ n.v = l.v /\ n.gen = l.gen /\ n.err = e /\ n.ans = a
  <1>. DEFINE k == [l EXCEPT !.err = e]
              m == [k EXCEPT !.oid = i]
              n == [m EXCEPT !.ans = a]
  <1>1. IsLoc(k) /\ k.mode = l.mode /\ k.v = l.v /\ k.gen = l.gen /\ k.err = e  BY LocErr
  <1>. HIDE DEF k
  <1>2. IsLoc(m) /\ m.mode = l.mode /\ m.v = l.v /\ m.gen = l.gen /\ m.err = e  BY <1>1, LocOid
  <1>. HIDE DEF m
  <1>3. IsLoc(n) /\ n.mode = l.mode /\ n.v = l.v /\ n.gen = l.gen /\ n.err = e /\ n.ans = a  BY <1>2, LocAns
  <1>. QED  BY <1>3 DEF m, k, LSet
LWrite(l, v, e, i, a) == [l EXCEPT !.v = v, !.err = e, !.oid = i, !.ans = a]
LEMMA LocWrite ==
  ASSUME NEW l, IsLoc(l), NEW v, NEW e, NEW i, NEW a
  PROVE  LET n == LWrite(l, v, e, i, a)
         IN  IsLoc(n) /\ n.mode = l.mode /\ n.v = v /\ n.gen = l.gen /\ n.err = e /\ n.ans = a
  <1>. DEFINE k == [l EXCEPT !.v = v]
              m == [k EXCEPT !.err = e]
              p == [m EXCEPT !.oid = i]
              n == [p EXCEPT !.ans = a]
  <1>1. IsLoc(k) /\ k.mode = l.mode /\ k.v = v /\ k.gen = l.gen  BY LocHeld
  <1>. HIDE DEF k
  <1>2. IsLoc(m) /\ m.mode = l.mode /\ m.v = v /\ m.gen = l.gen /\ m.err = e  BY <1>1, LocErr
  <1>. HIDE DEF m
  <1>3. IsLoc(p) /\ p.mode = l.mode /\ p.v = v /\ p.gen = l.gen /\ p.err = e  BY <1>2, LocOid
  <1>. HIDE DEF p
  <1>4. IsLoc(n) /\ n.mode = l.mode /\ n.v = v /\ n.gen = l.gen /\ n.err = e /\ n.ans = a  BY <1>3, LocAns
  <1>. QED  BY <1>4 DEF p, m, k, LWrite
LBegin(mode, b) == [NoLoc EXCEPT !.mode = mode, !.began = b]
LEMMA LocBegin ==
  ASSUME NEW mode, NEW b
  PROVE  LET n == LBegin(mode, b)
         IN  IsLoc(n) /\ n.mode = mode /\ n.v = Null /\ n.gen = 0
  <1>. DEFINE k == [NoLoc EXCEPT !.mode = mode]
              n == [k EXCEPT !.began = b]
  <1>1. IsLoc(NoLoc) /\ NoLoc.v = Null /\ NoLoc.gen = 0  BY DEF NoLoc, IsLoc
  <1>2. IsLoc(k) /\ k.mode = mode /\ k.v = Null /\ k.gen = 0  BY <1>1, LocMode
  <1>. HIDE DEF k
  <1>3. IsLoc(n) /\ n.mode = mode /\ n.v = Null /\ n.gen = 0  BY <1>2, LocBegan
  <1>. QED  BY <1>3 DEF k, LBegin
LLookup(a, g) == [NoLoc EXCEPT !.ans = a, !.gen = g]
LEMMA LocLookup ==
  ASSUME NEW a, NEW g
  PROVE  LET n == LLookup(a, g)
         IN  IsLoc(n) /\ n.mode = "r" /\ n.v = Null /\ n.gen = g /\ n.ans = a
  <1>. DEFINE k == [NoLoc EXCEPT !.ans = a]
              n == [k EXCEPT !.gen = g]
  <1>1. IsLoc(NoLoc) /\ NoLoc.v = Null /\ NoLoc.mode = "r"  BY DEF NoLoc, IsLoc
  <1>2. IsLoc(k) /\ k.mode = "r" /\ k.v = Null /\ k.ans = a  BY <1>1, LocAns
  <1>. HIDE DEF k
  <1>3. IsLoc(n) /\ n.mode = "r" /\ n.v = Null /\ n.gen = g /\ n.ans = a  BY <1>2, LocGen
  <1>. QED  BY <1>3 DEF k, LLookup

\* What the invariant says of thread t
LEMMA Here ==
  ASSUME FileInv, NEW t \in Threads
  PROVE  /\ Kinds /\ Data /\ Good(mn, srv) /\ attrgen \in Nat /\ spoiled \in BOOLEAN
         /\ Local(pc[t], loc[t], open[t], CredOf[t], work)
         /\ open[t] \in Modes \cup {"none"}
         /\ Step(mn, srv, mn, srv) /\ Quiet(srv, srv)
  BY SelfStep DEF FileInv, Kinds, Locals

LEMMA BeginInv ==
  ASSUME FileInv, NEW t \in Threads, NEW op, NEW p \in {"cto", "pre", "setattr", "sync"}, NEW mode \in Modes,
         Begin(t, op, p, mode), p = "pre" => mode # "t", p = "setattr" => mode # "w",
         p = "cto" => open[t] = "none" /\ op = "open"
  PROVE  FileInv'
  <1>. DEFINE b == IF mn.aud THEN recorded ELSE {}
              l == LBegin(mode, b)
  <1>1. IsLoc(l) /\ l.mode = mode /\ l.v = Null /\ l.gen = 0  BY LocBegin
  <1>9. /\ pc[t] = "idle" /\ Goto(t, p, l) /\ op \in work.ops
        /\ UNCHANGED <<srv, mn, attrgen, thr, open, recorded, logical, spoiled, touched>>
    BY Zenon DEF Begin, Idle, Has, LBegin
  <1>. HIDE DEF l
  <1>0. p \in Pcs  BY DEF Pcs
  <1>2. /\ pc[t] = "idle" /\ Goto(t, p, l) /\ op \in work.ops /\ p \in Pcs
        /\ srv' = srv /\ mn' = mn /\ attrgen' = attrgen /\ thr' = thr /\ open' = open
        /\ logical' = logical /\ spoiled' = spoiled /\ touched' = touched
    BY <1>0, <1>9
  <1>3. Gone(p, l) = l  BY DEF Gone
  <1>4. Local(p, l, open[t], CredOf[t], work)
    BY <1>1, <1>2, Here DEF Local, Opening
  <1>5. SameUser(t, p, l) /\ ~Changed(p, l)  BY <1>2 DEF SameUser, User, Changed
  <1>6. Ends(t, p, l)  BY <1>2 DEF Ends, Cutting, Ended
  <1>7. Step(mn, srv, mn', srv') /\ Quiet(srv, srv')  BY <1>2, Here
  <1>8. Data'  BY <1>2, <1>3, <1>6, <1>7, Here, DataQuiet
  <1>. QED  BY <1>2, <1>3, <1>4, <1>5, <1>7, <1>8, Here, Plain

LEMMA Calm ==
  ASSUME FileInv, NEW t \in Threads, NEW p \in Pcs, NEW l, Goto(t, p, l),
         Step(mn, srv, mn', srv'), Quiet(srv, srv'),
         attrgen' = attrgen, thr' = thr, open' = open, touched' = touched,
         logical' = logical, spoiled' \in BOOLEAN, spoiled => spoiled',
         Local(p, Gone(p, l), open[t], CredOf[t], work),
         Changed(p, Gone(p, l)) => Private',
         SameUser(t, p, Gone(p, l)), pc[t] # "marked",
         p = "use" => mn'.fetched >= thr[t].mark,
         Ends(t, p, Gone(p, l))
  PROVE  FileInv'
  <1>1. Data'  BY Here, DataQuiet
  <1>. QED  BY <1>1, Plain

LEMMA ToIdle ==
  ASSUME FileInv, NEW t \in Threads, NEW l, Goto(t, "idle", l),
         Step(mn, srv, mn', srv'), Quiet(srv, srv'),
         attrgen' = attrgen, thr' = thr, open' = open, touched' = touched,
         logical' = logical, spoiled' \in BOOLEAN, spoiled => spoiled',
         \A v \in Vnodes : ~User(pc[t], loc[t], v), pc[t] # "marked",
         Cutting(pc[t], loc[t]) => spoiled'
  PROVE  FileInv'
  <1>1. Gone("idle", l) = NoLoc /\ "idle" \in Pcs  BY DEF Gone, Pcs
  <1>2. Local("idle", NoLoc, open[t], CredOf[t], work)
    <2>1. open[t] # "none" => "open" \in work.ops  BY Here DEF Local
    <2>. QED  BY <2>1, IdleLocal
  <1>3. ~Changed("idle", NoLoc) /\ SameUser(t, "idle", NoLoc)  BY DEF Changed, SameUser, User
  <1>4. Ends(t, "idle", NoLoc)  BY DEF Ends, Cutting, Ended
  <1>. QED  BY <1>1, <1>2, <1>3, <1>4, Calm

LEMMA NoUser ==
  ASSUME NEW p, NEW l,
         p \notin {"audit", "relock", "write", "io", "post", "dropped"} \/ l.v = Null
  PROVE  \A v \in Vnodes : ~User(p, l, v)
  BY Facts DEF User

\* An operation begins.
LEMMA StartInv ==
  ASSUME FileInv, NEW t \in Threads,
         StartOpen(t) \/ StartRead(t) \/ StartWrite(t) \/ StartTrunc(t) \/ StartMode(t) \/ StartGetattr(t)
  PROVE  FileInv'
  <1>0. work \in Workloads /\ {"r", "w", "t"} = Modes  BY DEF FileInv, Kinds, Modes
  <1>1. CASE StartOpen(t)
    <2>1. PICK mode \in work.modes : open[t] = "none" /\ Begin(t, "open", "cto", mode)
      BY <1>1 DEF StartOpen
    <2>2. mode \in Modes  BY <1>0, <2>1, FileAssumption DEF FileAssumption
    <2>. QED  BY <2>1, <2>2, BeginInv
  <1>2. CASE StartRead(t)
    <2>1. Begin(t, "read", "pre", "r")  BY <1>2 DEF StartRead
    <2>. QED  BY <1>0, <2>1, BeginInv
  <1>3. CASE StartWrite(t)
    <2>1. Begin(t, "write", "pre", "w")  BY <1>3 DEF StartWrite
    <2>. QED  BY <1>0, <2>1, BeginInv
  <1>4. CASE StartTrunc(t)
    <2>1. Begin(t, "trunc", "setattr", "t")  BY <1>4 DEF StartTrunc
    <2>. QED  BY <1>0, <2>1, BeginInv
  <1>5. CASE StartMode(t)
    <2>1. Begin(t, "mode", "setattr", "r")  BY <1>5 DEF StartMode
    <2>. QED  BY <1>0, <2>1, BeginInv
  <1>6. CASE StartGetattr(t)
    <2>1. Begin(t, "getattr", "sync", "r")  BY <1>6 DEF StartGetattr
    <2>. QED  BY <1>0, <2>1, BeginInv
  <1>. QED  BY <1>1, <1>2, <1>3, <1>4, <1>5, <1>6

LEMMA CtoInv ==
  ASSUME FileInv, NEW t \in Threads, Cto(t)
  PROVE  FileInv'
  <1>1. PICK o \in ClntGetattr(mn, srv) : mn' = o.mn /\ srv' = o.srv  BY DEF Cto, Result
  <1>2. /\ pc[t] = "cto" /\ Goto(t, "open", loc[t]) /\ attrgen' = attrgen /\ thr' = thr /\ open' = open
        /\ logical' = logical /\ spoiled' = spoiled /\ touched' = touched
    BY DEF Cto
  <1>3. Step(mn, srv, o.mn, o.srv) /\ Quiet(srv, o.srv)  BY Here, GetattrStep
  <1>4. "open" \in Pcs /\ Gone("open", loc[t]) = loc[t]  BY DEF Pcs, Gone
  <1>5. Local("open", loc[t], open[t], CredOf[t], work)
    <2>1. Local("cto", loc[t], open[t], CredOf[t], work)  BY <1>2, Here
    <2>. QED  BY <2>1 DEF Local, Opening
  <1>6. ~Changed("open", loc[t]) /\ SameUser(t, "open", loc[t]) /\ Ends(t, "open", loc[t])
    BY <1>2 DEF Changed, SameUser, User, Ends, Cutting, Ended
  <1>. QED  BY <1>1, <1>2, <1>3, <1>4, <1>5, <1>6, Here, Calm

\* mvfs_openv_ctx: the thread is to record a change of the OID, or goes on to open the cleartext.
LEMMA OpenGetInv ==
  ASSUME FileInv, NEW t \in Threads, OpenGet(t)
  PROVE  FileInv'
  <1>. DEFINE P(o) == IF o.did THEN "audit" ELSE IF o.err = "ok" THEN "opened" ELSE "idle"
              L(o) == LSet(loc[t], o.err, o.mn.oid, "opened")
  <1>1. PICK o \in GetToOpen(t) : /\ mn' = o.mn /\ srv' = o.srv /\ spoiled' = (spoiled \/ (o.did /\ o.err # "ok"))
                                  /\ Goto(t, P(o), L(o))
    BY Zenon DEF OpenGet, Result, Failed, LSet
  <1>2. pc[t] = "open" /\ UNCHANGED <<attrgen, thr, open, recorded, logical, touched>>  BY Zenon DEF OpenGet
  <1>3. /\ attrgen' = attrgen /\ thr' = thr /\ open' = open
        /\ logical' = logical /\ touched' = touched
    BY <1>2
  <1>. DEFINE p == P(o)
              l == L(o)
              trunc == loc[t].mode = "t"
  <1>4. /\ Chosen(mn, srv, trunc, o)
        /\ o.did => Writes(loc[t].mode)
        /\ o.err = "ok" /\ Writes(loc[t].mode) => o.did
    BY Here, GetToOpenStep
  <1>5. Local("open", loc[t], open[t], CredOf[t], work)  BY <1>2, Here
  <1>6. IsLoc(l) /\ l.mode = loc[t].mode /\ l.v = Null /\ l.gen = loc[t].gen /\ l.err = o.err /\ l.ans = "opened"
    BY <1>5, LocSet DEF Local
  <1>7. /\ p \in Pcs /\ p \in {"audit", "opened", "idle"} /\ (p = "audit" <=> o.did)
        /\ p = "opened" => o.err = "ok" /\ ~o.did /\ ~Writes(loc[t].mode)
    BY <1>4 DEF Pcs
  <1>. HIDE DEF p, l
  <1>8. Goto(t, p, l)  BY <1>1 DEF p, l
  <1>9. Step(mn, srv, mn', srv') /\ spoiled' \in BOOLEAN /\ (spoiled => spoiled')
    BY <1>1, <1>4, Here DEF Chosen
  <1>10. CASE p = "idle"
    <2>1. ~o.did  BY <1>7, <1>10
    <2>2. Quiet(srv, srv')  BY <1>1, <1>4, <2>1 DEF Chosen
    <2>3. \A v \in Vnodes : ~User(pc[t], loc[t], v)  BY <1>2, NoUser
    <2>4. ~Cutting(pc[t], loc[t])  BY <1>2 DEF Cutting
    <2>. QED  BY <1>2, <1>3, <1>8, <1>9, <1>10, <2>2, <2>3, <2>4, ToIdle
  <1>11. CASE p # "idle"
    <2>1. Gone(p, l) = l  BY <1>11 DEF Gone
    <2>2. Local(p, l, open[t], CredOf[t], work)
      BY <1>4, <1>5, <1>6, <1>7, <1>11 DEF Local, Opening
    <2>3. Changed(p, l) => Private'  BY <1>1, <1>4, <1>6, <1>7, <1>11 DEF Changed, Private, Chosen
    <2>4. SameUser(t, p, l)  BY <1>2, <1>6, Facts DEF SameUser, User
    <2>5. Ends(t, p, l)  BY <1>1, <1>2, <1>6, <1>7 DEF Ends, Cutting, Ended
    <2>6. o.did /\ o.err = "ok" /\ trunc => Cutting(p, l)  BY <1>6, <1>7 DEF Cutting
    <2>7. Data'
      <3>1. Kinds /\ Data /\ Good(mn, srv)  BY Here
      <3>2. Chosen(mn, srv, trunc, o) /\ srv' = o.srv /\ logical' = logical  BY <1>1, <1>3, <1>4
      <3>3. spoiled' \in BOOLEAN /\ (spoiled => spoiled') /\ (o.did /\ o.err # "ok" => spoiled')
        BY <1>1, <1>9
      <3>4. Ends(t, p, Gone(p, l)) /\ (o.did /\ o.err = "ok" /\ trunc => Cutting(p, Gone(p, l)))
        BY <2>1, <2>5, <2>6
      <3>. HIDE DEF trunc
      <3>. QED  BY <1>7, <1>8, <3>1, <3>2, <3>3, <3>4, DataChosen
    <2>. QED  BY <1>2, <1>3, <1>7, <1>8, <1>9, <1>11, <2>1, <2>2, <2>3, <2>4, <2>7, Plain
  <1>. QED  BY <1>10, <1>11

\* MFS_AUDIT, without the lock
LEMMA AuditChoidInv ==
  ASSUME FileInv, NEW t \in Threads, AuditChoid(t)
  PROVE  FileInv'
  <1>. DEFINE l == loc[t]
              p == IF l.err = "ok" THEN "relock" ELSE IF l.v = Null THEN "idle" ELSE "dropped"
  <1>1. PICK o \in SetAudited(mn, srv, t) : mn' = o.mn /\ srv' = o.srv  BY DEF AuditChoid, Result
  <1>2. /\ pc[t] = "audit" /\ Goto(t, p, l) /\ attrgen' = attrgen /\ thr' = thr /\ open' = open
        /\ logical' = logical /\ spoiled' = spoiled /\ touched' = touched
    BY DEF AuditChoid
  <1>3. Step(mn, srv, mn', srv') /\ Quiet(srv, srv')  BY <1>1, Here, SetAuditedStep
  <1>4. Local("audit", l, open[t], CredOf[t], work)  BY <1>2, Here
  <1>5. /\ p \in Pcs /\ p \in {"relock", "idle", "dropped"} /\ (p = "relock" <=> l.err = "ok")
        /\ p = "idle" => l.v = Null
        /\ p = "dropped" => l.v # Null
    BY DEF Pcs
  <1>. HIDE DEF p
  <1>6. CASE p = "idle"
    <2>1. \A v \in Vnodes : ~User(pc[t], loc[t], v)  BY <1>5, <1>6, NoUser
    <2>2. Cutting(pc[t], loc[t]) => spoiled'  BY <1>2, <1>5, <1>6, Here DEF Data, Cutting, Ended
    <2>. QED  BY <1>2, <1>3, <1>6, <2>1, <2>2, Here, ToIdle
  <1>7. CASE p # "idle"
    <2>1. Gone(p, l) = l  BY <1>7 DEF Gone
    <2>2. Local(p, l, open[t], CredOf[t], work)  BY <1>4, <1>5, <1>7 DEF Local, Opening
    <2>3. Changed(p, l) => Private'
      BY <1>2, <1>3, <1>5, PrivateKept DEF Changed, FileInv, Copied
    <2>4. SameUser(t, p, l)  BY <1>2, <1>5, <1>7 DEF SameUser, User
    <2>5. Ends(t, p, l)  BY <1>2, <1>4, <1>5, <1>7 DEF Ends, Cutting, Ended, Local
    <2>. QED  BY <1>2, <1>3, <1>5, <1>7, <2>1, <2>2, <2>3, <2>4, <2>5, Here, Calm
  <1>. QED  BY <1>6, <1>7

\* The lock is back.
LEMMA RelockInv ==
  ASSUME FileInv, NEW t \in Threads, Relock(t)
  PROVE  FileInv'
  <1>. DEFINE l == loc[t]
              P(o) == IF o.err = "ok" THEN l.ans ELSE IF l.v = Null THEN "idle" ELSE "dropped"
  <1>1. PICK o \in GetCleartext(mn, srv, CredOf[t]) :
          mn' = o.mn /\ srv' = o.srv /\ Goto(t, P(o), l) /\ spoiled' = (spoiled \/ (o.err # "ok" /\ l.mode = "t"))
    BY DEF Relock, Result
  <1>2. /\ pc[t] = "relock" /\ attrgen' = attrgen /\ thr' = thr /\ open' = open
        /\ logical' = logical /\ touched' = touched
    BY DEF Relock
  <1>. DEFINE p == P(o)
  <1>3. Step(mn, srv, mn', srv') /\ Quiet(srv, srv')
    <2>1. Got(mn, srv, CredOf[t], o)  BY Here, GetGot
    <2>. QED  BY <1>1, <2>1 DEF Got
  <1>4. Local("relock", l, open[t], CredOf[t], work)  BY <1>2, Here
  <1>5. IF l.v = Null THEN p \in {"opened", "set", "idle"} ELSE p \in {"write", "dropped"}
    BY <1>4 DEF Local
  <1>6. /\ p \in Pcs /\ (o.err = "ok" => p = l.ans) /\ (o.err # "ok" => p \in {"idle", "dropped"})
        /\ p \in {"opened", "set", "write"} => o.err = "ok"
    BY <1>5 DEF Pcs
  <1>7. spoiled' \in BOOLEAN /\ (spoiled => spoiled') /\ (o.err # "ok" /\ l.mode = "t" => spoiled')
    BY <1>1, Here
  <1>8. Goto(t, p, l)  BY <1>1
  <1>. HIDE DEF p
  <1>9. CASE p = "idle"
    <2>1. l.v = Null /\ o.err # "ok"  BY <1>4, <1>5, <1>6, <1>9 DEF Local
    <2>2. \A v \in Vnodes : ~User(pc[t], loc[t], v)  BY <2>1, NoUser
    <2>3. Cutting(pc[t], loc[t]) => spoiled'  BY <1>7, <2>1 DEF Cutting
    <2>. QED  BY <1>2, <1>3, <1>7, <1>8, <1>9, <2>2, <2>3, Here, ToIdle
  <1>10. CASE p # "idle"
    <2>1. Gone(p, l) = l  BY <1>10 DEF Gone
    <2>2. Local(p, l, open[t], CredOf[t], work)
      <3>1. CASE l.v = Null
        <4>1. p = l.ans /\ p \in {"opened", "set"}  BY <1>5, <1>6, <1>10, <3>1
        <4>. QED  BY <1>4, <3>1, <4>1 DEF Local, Opening
      <3>2. CASE l.v # Null
        <4>1. p \in {"write", "dropped"}  BY <1>5, <3>2
        <4>. QED  BY <1>4, <3>2, <4>1 DEF Local, Opening
      <3>. QED  BY <3>1, <3>2
    <2>3. Changed(p, l) => Private'
      BY <1>2, <1>3, PrivateKept DEF Changed, FileInv, Copied
    <2>4. SameUser(t, p, l)  BY <1>2, <1>5, <1>10, Facts DEF SameUser, User
    <2>5. Ends(t, p, l)  BY <1>2, <1>4, <1>5, <1>10 DEF Ends, Cutting, Ended, Local
    <2>6. p # "use"  BY <1>5
    <2>. QED  BY <1>2, <1>3, <1>6, <1>7, <1>8, <2>1, <2>2, <2>3, <2>4, <2>5, <2>6, Here, Calm
  <1>. QED  BY <1>9, <1>10

LEMMA CheckWriteInv ==
  ASSUME FileInv, NEW t \in Threads, CheckWrite(t)
  PROVE  FileInv'
  <1>. DEFINE p == IF loc[t].v = mn.rv THEN "io" ELSE "dropped"
              l == [loc[t] EXCEPT !.oid = mn.oid]
  <1>1. pc[t] = "write" /\ Goto(t, p, l)  BY Zenon DEF CheckWrite
  <1>2. UNCHANGED <<srv, mn, attrgen, thr, open, recorded, logical, spoiled, touched>>  BY Zenon DEF CheckWrite
  <1>3. Local("write", loc[t], open[t], CredOf[t], work)  BY <1>1, Here
  <1>4. IsLoc(l) /\ l.mode = loc[t].mode /\ l.v = loc[t].v /\ l.gen = loc[t].gen  BY <1>3, LocOid DEF Local
  <1>. HIDE DEF l
  <1>5. p \in {"io", "dropped"} /\ p \in Pcs  BY DEF Pcs
  <1>. HIDE DEF p
  <1>6. Gone(p, l) = l  BY <1>5 DEF Gone
  <1>7. Local(p, l, open[t], CredOf[t], work)  BY <1>3, <1>4, <1>5 DEF Local, Opening
  <1>8. ~Changed(p, l) /\ SameUser(t, p, l) /\ Ends(t, p, l)
    BY <1>1, <1>4, <1>5 DEF Changed, SameUser, User, Ends, Cutting, Ended
  <1>9. /\ mn' = mn /\ srv' = srv /\ attrgen' = attrgen /\ thr' = thr /\ open' = open /\ logical' = logical
        /\ spoiled' = spoiled /\ touched' = touched
    BY <1>2
  <1>10. Step(mn, srv, mn', srv') /\ Quiet(srv, srv')  BY <1>9, Here
  <1>. QED  BY <1>1, <1>5, <1>6, <1>7, <1>8, <1>9, <1>10, Here, Calm

LEMMA AuditRdwrInv ==
  ASSUME FileInv, NEW t \in Threads, AuditRdwr(t)
  PROVE  FileInv'
  <1>1. PICK o \in SetAudited(mn, srv, t) : mn' = o.mn /\ srv' = o.srv  BY DEF AuditRdwr, Result
  <1>2. /\ pc[t] = "audited" /\ Goto(t, "idle", loc[t]) /\ attrgen' = attrgen /\ thr' = thr /\ open' = open
        /\ logical' = logical /\ spoiled' = spoiled /\ touched' = touched
    BY DEF AuditRdwr
  <1>3. Step(mn, srv, mn', srv') /\ Quiet(srv, srv')  BY <1>1, Here, SetAuditedStep
  <1>4. \A v \in Vnodes : ~User(pc[t], loc[t], v)  BY <1>2, NoUser
  <1>5. ~Cutting(pc[t], loc[t])  BY <1>2 DEF Cutting
  <1>. QED  BY <1>2, <1>3, <1>4, <1>5, Here, ToIdle

\* mvfs_changeattr up to the change of the OID
LEMMA SetattrInv ==
  ASSUME FileInv, NEW t \in Threads, Setattr(t)
  PROVE  FileInv'
  <1>. DEFINE P(o) == IF o.did THEN "audit" ELSE IF o.err = "ok" THEN "set" ELSE "idle"
              L(o) == LSet(loc[t], o.err, o.mn.oid, "set")
  <1>1. PICK o \in GetToSet(t) : /\ mn' = o.mn /\ srv' = o.srv /\ spoiled' = (spoiled \/ (o.did /\ o.err # "ok"))
                                 /\ Goto(t, P(o), L(o))
    BY Zenon DEF Setattr, Result, Failed, LSet
  <1>2. pc[t] = "setattr" /\ UNCHANGED <<attrgen, thr, open, recorded, logical, touched>>  BY Zenon DEF Setattr
  <1>3. /\ attrgen' = attrgen /\ thr' = thr /\ open' = open
        /\ logical' = logical /\ touched' = touched
    BY <1>2
  <1>. DEFINE p == P(o)
              l == L(o)
  <1>4. /\ Chosen(mn, srv, TRUE, o)
        /\ o.did => Writes(loc[t].mode)
        /\ o.err = "ok" /\ Writes(loc[t].mode) => o.did
    BY Here, GetToSetStep
  <1>5. Local("setattr", loc[t], open[t], CredOf[t], work)  BY <1>2, Here
  <1>6. IsLoc(l) /\ l.mode = loc[t].mode /\ l.v = Null /\ l.gen = loc[t].gen /\ l.err = o.err /\ l.ans = "set"
    BY <1>5, LocSet DEF Local
  <1>7. /\ p \in Pcs /\ p \in {"audit", "set", "idle"} /\ (p = "audit" <=> o.did)
        /\ p = "set" => o.err = "ok" /\ ~o.did /\ ~Writes(loc[t].mode)
    BY <1>4 DEF Pcs
  <1>. HIDE DEF p, l
  <1>8. Goto(t, p, l)  BY <1>1 DEF p, l
  <1>9. Step(mn, srv, mn', srv') /\ spoiled' \in BOOLEAN /\ (spoiled => spoiled')
    BY <1>1, <1>4, Here DEF Chosen
  <1>10. CASE p = "idle"
    <2>1. ~o.did  BY <1>7, <1>10
    <2>2. Quiet(srv, srv')  BY <1>1, <1>4, <2>1 DEF Chosen
    <2>3. \A v \in Vnodes : ~User(pc[t], loc[t], v)  BY <1>2, NoUser
    <2>4. ~Cutting(pc[t], loc[t])  BY <1>2 DEF Cutting
    <2>. QED  BY <1>2, <1>3, <1>8, <1>9, <1>10, <2>2, <2>3, <2>4, ToIdle
  <1>11. CASE p # "idle"
    <2>1. Gone(p, l) = l  BY <1>11 DEF Gone
    <2>2. Local(p, l, open[t], CredOf[t], work)
      BY <1>4, <1>5, <1>6, <1>7, <1>11 DEF Local, Opening
    <2>3. Changed(p, l) => Private'  BY <1>1, <1>4, <1>6, <1>7, <1>11 DEF Changed, Private, Chosen
    <2>4. SameUser(t, p, l)  BY <1>2, <1>6, Facts DEF SameUser, User
    <2>5. Ends(t, p, l)  BY <1>1, <1>2, <1>6, <1>7 DEF Ends, Cutting, Ended
    <2>6. o.did => Cutting(p, l)  BY <1>4, <1>5, <1>6, <1>7 DEF Cutting, Local, Modes, Writes
    <2>7. Data'
      <3>1. Kinds /\ Data /\ Good(mn, srv)  BY Here
      <3>2. Chosen(mn, srv, TRUE, o) /\ srv' = o.srv /\ logical' = logical  BY <1>1, <1>3, <1>4
      <3>3. spoiled' \in BOOLEAN /\ (spoiled => spoiled') /\ (o.did /\ o.err # "ok" => spoiled')
        BY <1>1, <1>9
      <3>4. Ends(t, p, Gone(p, l)) /\ (o.did /\ o.err = "ok" => Cutting(p, Gone(p, l)))
        BY <2>1, <2>5, <2>6
      <3>. QED  BY <1>7, <1>8, <3>1, <3>2, <3>3, <3>4, DataChosen
    <2>. QED  BY <1>2, <1>3, <1>7, <1>8, <1>9, <1>11, <2>1, <2>2, <2>3, <2>4, <2>7, Plain
  <1>. QED  BY <1>10, <1>11

\* A look at the attributes goes on.
LEMMA Reading ==
  ASSUME FileInv, NEW t \in Threads, pc[t] \in {"sync", "judge", "fetch"}, NEW q \in {"judge", "fetch", "use"}
  PROVE  /\ q \in Pcs /\ Gone(q, loc[t]) = loc[t] /\ Local(q, loc[t], open[t], CredOf[t], work)
         /\ ~Changed(q, loc[t]) /\ SameUser(t, q, loc[t]) /\ Ends(t, q, loc[t])
  <1>1. q \in Pcs /\ Gone(q, loc[t]) = loc[t]  BY DEF Pcs, Gone
  <1>2. Local(q, loc[t], open[t], CredOf[t], work)
    <2>1. Local(pc[t], loc[t], open[t], CredOf[t], work)  BY Here
    <2>. QED  BY <2>1 DEF Local, Opening
  <1>3. ~Changed(q, loc[t]) /\ SameUser(t, q, loc[t])  BY DEF Changed, SameUser, User
  <1>4. Ends(t, q, loc[t])  BY DEF Ends, Cutting, Ended
  <1>. QED  BY <1>1, <1>2, <1>3, <1>4

LEMMA UseInv ==
  ASSUME FileInv, NEW t \in Threads, Use(t)
  PROVE  FileInv'
  <1>1. /\ pc[t] = "use" /\ Goto(t, "idle", loc[t])
        /\ UNCHANGED <<srv, mn, attrgen, thr, open, recorded, logical, spoiled, touched>>
    BY Zenon DEF Use
  <1>2. /\ mn' = mn /\ srv' = srv /\ attrgen' = attrgen /\ thr' = thr /\ open' = open /\ logical' = logical
        /\ spoiled' = spoiled /\ touched' = touched
    BY <1>1
  <1>3. Step(mn, srv, mn', srv') /\ Quiet(srv, srv')  BY <1>2, Here
  <1>4. \A v \in Vnodes : ~User(pc[t], loc[t], v)  BY <1>1, NoUser
  <1>5. ~Cutting(pc[t], loc[t])  BY <1>1 DEF Cutting
  <1>. QED  BY <1>1, <1>2, <1>3, <1>4, <1>5, Here, ToIdle

LEMMA FetchInv ==
  ASSUME FileInv, NEW t \in Threads, Fetch(t)
  PROVE  FileInv'
  <1>. DEFINE P(o) == IF o.err = "ok" THEN "use" ELSE "idle"
  <1>1. PICK o \in ClntGetattr(mn, srv) : mn' = o.mn /\ srv' = o.srv /\ Goto(t, P(o), loc[t])
    BY DEF Fetch, Result
  <1>2. /\ pc[t] = "fetch" /\ attrgen' = attrgen /\ thr' = thr /\ open' = open /\ logical' = logical
        /\ spoiled' = spoiled /\ touched' = touched
    BY DEF Fetch
  <1>3. /\ Step(mn, srv, o.mn, o.srv) /\ Quiet(srv, o.srv) /\ o.did = FALSE
        /\ o.err = "ok" => o.mn.fetched = attrgen
    BY Here, GetattrStep
  <1>4. CASE o.err = "ok"
    <2>1. Goto(t, "use", loc[t])  BY <1>1, <1>4
    <2>2. /\ "use" \in Pcs /\ Gone("use", loc[t]) = loc[t] /\ Local("use", loc[t], open[t], CredOf[t], work)
          /\ ~Changed("use", loc[t]) /\ SameUser(t, "use", loc[t]) /\ Ends(t, "use", loc[t])
      BY <1>2, Reading
    <2>3. mn'.fetched >= thr[t].mark  BY <1>1, <1>3, <1>4 DEF FileInv, Marks
    <2>. QED  BY <1>1, <1>2, <1>3, <2>1, <2>2, <2>3, Here, Calm
  <1>5. CASE o.err # "ok"
    <2>1. Goto(t, "idle", loc[t])  BY <1>1, <1>5
    <2>2. \A v \in Vnodes : ~User(pc[t], loc[t], v)  BY <1>2, NoUser
    <2>3. ~Cutting(pc[t], loc[t])  BY <1>2 DEF Cutting
    <2>. QED  BY <1>1, <1>2, <1>3, <2>1, <2>2, <2>3, Here, ToIdle
  <1>. QED  BY <1>4, <1>5

\* Attributes that have not timed out are not older than the marker of the thread.
LEMMA FreshEnough ==
  ASSUME FileInv, NEW t \in Threads, pc[t] # "marked", ~TimedOut(mn, t)
  PROVE  mn.fetched >= thr[t].mark
  <1>1. PICK x \in thr[t].mark .. attrgen : thr[t].gen = Word(x)  BY DEF FileInv, Marks
  <1>2. /\ mn.gen = Word(mn.fetched) /\ mn.fetched <= attrgen /\ mn.live
        /\ \A y \in mn.fetched .. attrgen : Word(y) = Word(mn.fetched) + (y - mn.fetched)
    BY DEF FileInv, Marks, TimedOut
  <1>3. mn.fetched \in Nat /\ attrgen \in Nat /\ thr[t].mark \in Nat  BY DEF FileInv, Good, Mn, MnType, Kinds
  <1>4. Word(x) \in Nat /\ Word(mn.fetched) \in Nat  BY <1>1, <1>3, WordNat
  <1>5. ~(thr[t].gen > mn.gen)  BY DEF TimedOut
  <1>. HIDE DEF Word
  <1>6. SUFFICES ASSUME mn.fetched < thr[t].mark PROVE FALSE  BY <1>3
  <1>7. x \in mn.fetched .. attrgen /\ x > mn.fetched /\ x \in Nat  BY <1>1, <1>3, <1>6
  <1>8. Word(x) = Word(mn.fetched) + (x - mn.fetched)  BY <1>2, <1>7
  <1>. QED  BY <1>1, <1>2, <1>3, <1>4, <1>5, <1>7, <1>8

LEMMA JudgeInv ==
  ASSUME FileInv, NEW t \in Threads, Judge(t)
  PROVE  FileInv'
  <1>. DEFINE p == IF TimedOut(mn, t) THEN "fetch" ELSE "use"
  <1>1. /\ pc[t] = "judge" /\ Goto(t, p, loc[t])
        /\ UNCHANGED <<srv, mn, attrgen, thr, open, recorded, logical, spoiled, touched>>
    BY Zenon DEF Judge
  <1>2. /\ mn' = mn /\ srv' = srv /\ attrgen' = attrgen /\ thr' = thr /\ open' = open /\ logical' = logical
        /\ spoiled' = spoiled /\ touched' = touched
    BY <1>1
  <1>3. Step(mn, srv, mn', srv') /\ Quiet(srv, srv')  BY <1>2, Here
  <1>4. p = "use" => mn'.fetched >= thr[t].mark  BY <1>1, <1>2, FreshEnough
  <1>5. p \in {"judge", "fetch", "use"}  OBVIOUS
  <1>. HIDE DEF p
  <1>6. /\ p \in Pcs /\ Gone(p, loc[t]) = loc[t] /\ Local(p, loc[t], open[t], CredOf[t], work)
        /\ ~Changed(p, loc[t]) /\ SameUser(t, p, loc[t]) /\ Ends(t, p, loc[t])
    BY <1>1, <1>5, Reading
  <1>. QED  BY <1>1, <1>2, <1>3, <1>4, <1>6, Here, Calm

\* mfs_getattr: what the cleartext knows goes to the view.
LEMMA GetattrSyncInv ==
  ASSUME FileInv, NEW t \in Threads, GetattrSync(t)
  PROVE  FileInv'
  <1>. DEFINE a == CHOOSE x \in ClearAttr(mn, srv) : TRUE
              m == IF mn.rv = Null \/ mn.ro THEN mn ELSE IF a.err = "ok" THEN a.mn ELSE MarkPurge(a.mn)
  <1>1. PICK o \in (IF m.syncc /\ m.rv # Null THEN SyncAttr(m, srv) ELSE Ok(m, srv)) : mn' = o.mn /\ srv' = o.srv
    BY Zenon DEF GetattrSync, Result
  <1>2. /\ pc[t] = "sync" /\ Goto(t, "judge", loc[t])
        /\ UNCHANGED <<attrgen, thr, open, recorded, logical, spoiled, touched>>
    BY Zenon DEF GetattrSync
  <1>3. /\ attrgen' = attrgen /\ thr' = thr /\ open' = open /\ logical' = logical
        /\ spoiled' = spoiled /\ touched' = touched
    BY <1>2
  <1>4. a \in ClearAttr(mn, srv)  BY ClearAttrOne
  <1>. HIDE DEF a
  <1>5. Step(mn, srv, a.mn, srv) /\ Good(a.mn, srv)
    <2>1. Good(mn, srv)  BY Here
    <2>2. Step(mn, srv, a.mn, a.srv) /\ a.srv = srv  BY <1>4, <2>1, ClearAttrStep
    <2>. QED  BY <2>2 DEF Step
  <1>6. Step(mn, srv, MarkPurge(a.mn), srv)
    <2>1. Step(a.mn, srv, MarkPurge(a.mn), srv)  BY <1>5, MarkType, SameStep DEF Good, Mn
    <2>. QED  BY <1>5, <2>1, Here, StepTrans
  <1>7. Step(mn, srv, m, srv) /\ Good(m, srv)  BY <1>5, <1>6, Here DEF Step
  <1>. HIDE DEF m
  <1>8. Step(mn, srv, mn', srv') /\ Quiet(srv, srv')
    <2>1. CASE o \in SyncAttr(m, srv)
      <3>1. Step(m, srv, o.mn, o.srv) /\ Quiet(srv, o.srv)  BY <1>7, <2>1, Here, SyncAttrStep
      <3>. QED  BY <1>1, <1>7, <3>1, Here, StepTrans
    <2>2. CASE o \in Ok(m, srv)
      <3>1. o.mn = m /\ o.srv = srv  BY <2>2 DEF Ok, Out
      <3>. QED  BY <1>1, <1>7, <3>1, Here
    <2>. QED  BY <1>1, <2>1, <2>2
  <1>9. /\ "judge" \in Pcs /\ Gone("judge", loc[t]) = loc[t] /\ Local("judge", loc[t], open[t], CredOf[t], work)
        /\ ~Changed("judge", loc[t]) /\ SameUser(t, "judge", loc[t]) /\ Ends(t, "judge", loc[t])
    BY <1>2, Reading
  <1>. QED  BY <1>2, <1>3, <1>8, <1>9, Here, Calm

\* Where the name is looked up the file is not open and no marker was ever set.
LEMMA Looking ==
  ASSUME FileInv, "lookup" \in work.ops
  PROVE  mn.open = 0 /\ attrgen = 0 /\ \A u \in Threads : open[u] = "none"
  <1>1. "open" \notin work.ops /\ "mark" \notin work.ops  BY DEF FileInv, Kinds, Apart
  <1>2. attrgen = 0  BY <1>1 DEF FileInv, Marks
  <1>3. \A u \in Threads : open[u] = "none"  BY <1>1 DEF FileInv, Locals, Local
  <1>4. {u \in Threads : open[u] # "none"} = {}  BY <1>3
  <1>5. mn.open = 0  BY <1>4, FS_EmptySet DEF FileInv, OpensPaired
  <1>. QED  BY <1>2, <1>3, <1>5

\* The attributes that came with the answer of a lookup, whenever that was given
LEMMA SetAnswerStep ==
  ASSUME NEW m, NEW s, Good(m, s), attrgen \in Nat, NEW a \in SrvType
  PROVE  Step(m, s, SetStat(m, a, attrgen), s)
  <1>. DEFINE n == SetStat(m, a, attrgen)
  <1>1. m \in MnType /\ s \in SrvType  BY DEF Good, Mn, Srv
  <1>2. /\ n \in MnType /\ n.gen = Word(attrgen) /\ n.fetched = attrgen /\ n.live
        /\ n.rv = m.rv /\ n.nm = m.nm /\ n.ro = m.ro /\ n.open = m.open /\ n.wopen = m.wopen
        /\ n.ref = m.ref /\ n.cop = m.cop /\ n.leaked = m.leaked /\ n.creds = m.creds
        /\ n.pnm = m.pnm /\ n.pcvp = m.pcvp
    BY <1>1, SetStatType
  <1>. HIDE DEF n
  <1>3. Mn(n)  BY <1>2 DEF Good, Mn, Marked
  <1>4. Moves(m, n)  BY <1>2 DEF Moves, Holds
  <1>5. Step(m, s, n, s)  BY <1>2, <1>3, <1>4 DEF Step, Good, Serves
  <1>. QED  BY <1>5 DEF n

LEMMA LookupAnswerInv ==
  ASSUME FileInv, NEW t \in Threads, LookupAnswer(t)
  PROVE  FileInv'
  <1>. DEFINE l == LLookup(srv, attrgen)
  <1>1. /\ pc[t] = "idle" /\ Goto(t, "lookup", l) /\ "lookup" \in work.ops
        /\ UNCHANGED <<srv, mn, attrgen, thr, open, recorded, logical, spoiled, touched>>
    BY Zenon DEF LookupAnswer, Idle, Has, LLookup
  <1>2. IsLoc(l) /\ l.mode = "r" /\ l.v = Null /\ l.gen = attrgen /\ l.ans = srv  BY LocLookup
  <1>. HIDE DEF l
  <1>3. /\ mn' = mn /\ srv' = srv /\ attrgen' = attrgen /\ thr' = thr /\ open' = open /\ logical' = logical
        /\ spoiled' = spoiled /\ touched' = touched
    BY <1>1
  <1>4. Step(mn, srv, mn', srv') /\ Quiet(srv, srv')  BY <1>3, Here
  <1>5. "lookup" \in Pcs /\ Gone("lookup", l) = l  BY DEF Pcs, Gone
  <1>6. Local("lookup", l, open[t], CredOf[t], work)
    <2>1. attrgen = 0 /\ open[t] = "none"  BY <1>1, Looking
    <2>2. srv \in SrvType  BY DEF FileInv, Good, Srv
    <2>. QED  BY <1>1, <1>2, <2>1, <2>2 DEF Local, Opening, Modes
  <1>7. ~Changed("lookup", l) /\ SameUser(t, "lookup", l) /\ Ends(t, "lookup", l)
    BY <1>1 DEF Changed, SameUser, User, Ends, Cutting, Ended
  <1>. QED  BY <1>1, <1>3, <1>4, <1>5, <1>6, <1>7, Here, Calm

LEMMA LookupSetInv ==
  ASSUME FileInv, NEW t \in Threads, LookupSet(t)
  PROVE  FileInv'
  <1>. DEFINE a == [vobmod |-> VobMod(mn, loc[t].ans), domod |-> DoMod(mn, loc[t].ans)]
              l == [loc[t] EXCEPT !.ans = a]
  <1>1. pc[t] = "lookup" /\ mn' = SetStat(mn, loc[t].ans, loc[t].gen) /\ Goto(t, "events", l)
    BY Zenon DEF LookupSet
  <1>2. UNCHANGED <<srv, attrgen, thr, open, recorded, logical, spoiled, touched>>  BY Zenon DEF LookupSet
  <1>3. Local("lookup", loc[t], open[t], CredOf[t], work)  BY <1>1, Here
  <1>4. /\ loc[t].gen = 0 /\ loc[t].ans \in SrvType /\ IsLoc(loc[t]) /\ "lookup" \in work.ops
    BY <1>3 DEF Local
  <1>5. a.vobmod \in BOOLEAN /\ a.domod \in BOOLEAN  BY DEF VobMod, DoMod
  <1>. HIDE DEF a
  <1>6. IsLoc(l) /\ l.mode = loc[t].mode /\ l.v = loc[t].v /\ l.gen = loc[t].gen /\ l.ans = a
    BY <1>4, LocAns
  <1>. HIDE DEF l
  <1>7. /\ srv' = srv /\ attrgen' = attrgen /\ thr' = thr /\ open' = open /\ logical' = logical
        /\ spoiled' = spoiled /\ touched' = touched
    BY <1>2
  <1>8. attrgen = 0  BY <1>4, Looking
  <1>9. Step(mn, srv, mn', srv') /\ Quiet(srv, srv')
    <2>1. Step(mn, srv, SetStat(mn, loc[t].ans, attrgen), srv)  BY <1>4, Here, SetAnswerStep
    <2>. QED  BY <1>1, <1>4, <1>7, <1>8, <2>1, Here
  <1>10. "events" \in Pcs /\ Gone("events", l) = l  BY DEF Pcs, Gone
  <1>11. Local("events", l, open[t], CredOf[t], work)  BY <1>3, <1>5, <1>6 DEF Local, Opening
  <1>12. ~Changed("events", l) /\ SameUser(t, "events", l) /\ Ends(t, "events", l)
    BY <1>1 DEF Changed, SameUser, User, Ends, Cutting, Ended
  <1>. QED  BY <1>1, <1>7, <1>9, <1>10, <1>11, <1>12, Here, Calm

LEMMA LookupEventsInv ==
  ASSUME FileInv, NEW t \in Threads, LookupEvents(t)
  PROVE  FileInv'
  <1>. DEFINE m == ModEvents(mn, loc[t].ans.vobmod, loc[t].ans.domod)
  <1>1. /\ pc[t] = "events" /\ Goto(t, "idle", loc[t])
        /\ mn' = IF loc[t].ans.domod THEN ClearRele(m) ELSE m
        /\ UNCHANGED <<srv, attrgen, thr, open, recorded, logical, spoiled, touched>>
    BY Zenon DEF LookupEvents
  <1>2. Local("events", loc[t], open[t], CredOf[t], work)  BY <1>1, Here
  <1>3. loc[t].ans.vobmod \in BOOLEAN /\ loc[t].ans.domod \in BOOLEAN /\ "lookup" \in work.ops
    BY <1>2 DEF Local
  <1>4. Step(mn, srv, m, srv)  BY <1>3, Here, ModEventsStep
  <1>. HIDE DEF m
  <1>5. Step(mn, srv, ClearRele(m), srv)
    <2>1. Good(m, srv) /\ m.open = 0  BY <1>3, <1>4, Looking DEF Step, Moves
    <2>2. Step(m, srv, ClearRele(m), srv)  BY <2>1, ReleaseStep
    <2>. QED  BY <1>4, <2>2, Here, StepTrans
  <1>6. /\ srv' = srv /\ attrgen' = attrgen /\ thr' = thr /\ open' = open /\ logical' = logical
        /\ spoiled' = spoiled /\ touched' = touched
    BY <1>1
  <1>7. Step(mn, srv, mn', srv') /\ Quiet(srv, srv')  BY <1>1, <1>4, <1>5, <1>6, Here
  <1>8. \A v \in Vnodes : ~User(pc[t], loc[t], v)  BY <1>1, NoUser
  <1>9. ~Cutting(pc[t], loc[t])  BY <1>1 DEF Cutting
  <1>. QED  BY <1>1, <1>6, <1>7, <1>8, <1>9, Here, ToIdle

-----------------------------------------------------------------------------
(* Steps that change references, opens or data.                            *)

Uses(p, l, v) == IF User(p, l, v) THEN 1 ELSE 0
LEMMA UsersCount ==
  ASSUME Kinds, NEW t \in Threads, NEW p \in Pcs, NEW l, Goto(t, p, l), NEW v \in Vnodes
  PROVE  /\ Cardinality(Users(v)) \in Nat /\ Cardinality(Users(v)') \in Nat
         /\ User(pc[t], loc[t], v) => Cardinality(Users(v)) > 0
         /\ Cardinality(Users(v)') = Cardinality(Users(v)) + Uses(p, Gone(p, l), v) - Uses(pc[t], loc[t], v)
  <1>. DEFINE A == Users(v)
              B == Users(v)'
              b == User(p, Gone(p, l), v)
              a == User(pc[t], loc[t], v)
  <1>1. A = {u \in Threads : User(pc[u], loc[u], v)}  BY UsersOf
  <1>2. B = {u \in Threads : User(pc'[u], loc'[u], v)}  BY DEF Users, User
  <1>3. B = IF b THEN A \cup {t} ELSE A \ {t}
    <2>1. \A u \in Threads \ {t} : User(pc'[u], loc'[u], v) <=> User(pc[u], loc[u], v)  BY GotoTo
    <2>2. User(pc'[t], loc'[t], v) <=> b  BY GotoTo
    <2>. HIDE DEF A, B, b
    <2>. QED  BY <1>1, <1>2, <2>1, <2>2
  <1>4. t \in A <=> a  BY <1>1
  <1>5. A \subseteq Threads /\ IsFiniteSet(Threads)  BY <1>1, FileAssumption DEF FileAssumption
  <1>. HIDE DEF A, B, a, b
  <1>6. IsFiniteSet(A) /\ Cardinality(A) \in Nat  BY <1>5, FS_Subset, FS_CardinalityType
  <1>7. Cardinality(A \cup {t}) = IF t \in A THEN Cardinality(A) ELSE Cardinality(A) + 1
    BY <1>6, FS_AddElement
  <1>8. Cardinality(A \ {t}) = IF t \in A THEN Cardinality(A) - 1 ELSE Cardinality(A)
    BY <1>6, FS_RemoveElement
  <1>9. t \in A => Cardinality(A) > 0
    <2>1. t \in A => A # {}  OBVIOUS
    <2>. QED  BY <1>6, <2>1, FS_EmptySet
  <1>10. Cardinality(B) \in Nat /\ Cardinality(B) = Cardinality(A) + (IF b THEN 1 ELSE 0) - (IF a THEN 1 ELSE 0)
    BY <1>3, <1>4, <1>6, <1>7, <1>8, <1>9
  <1>. QED  BY <1>4, <1>6, <1>9, <1>10 DEF A, B, a, b, Uses

\* What a thread holds beyond the cleartext of the mnode and what was left behind
Balance(m, p, l, v) == m.ref[v] - Holds(m, v) - m.leaked[v] - Uses(p, l, v)
LEMMA RefsMoved ==
  ASSUME Kinds, RefsHeld, NEW t \in Threads, NEW p \in Pcs, NEW l, Goto(t, p, l), mn \in MnType, mn' \in MnType,
         \A v \in Vnodes : Balance(mn', p, Gone(p, l), v) = Balance(mn, pc[t], loc[t], v)
  PROVE  RefsHeld'
  <1>1. SUFFICES ASSUME NEW v \in Vnodes
                 PROVE  mn'.ref[v] = (IF mn'.rv = v THEN 1 ELSE 0) + Cardinality(Users(v)') + mn'.leaked[v]
    BY DEF RefsHeld
  <1>2. mn.ref[v] = Holds(mn, v) + Cardinality(Users(v)) + mn.leaked[v]  BY DEF RefsHeld, Holds
  <1>3. /\ mn.ref[v] \in Nat /\ mn'.ref[v] \in Nat /\ mn.leaked[v] \in Nat /\ mn'.leaked[v] \in Nat
    BY DEF MnType
  <1>4. /\ Cardinality(Users(v)) \in Nat /\ Cardinality(Users(v)') \in Nat
        /\ Cardinality(Users(v)') = Cardinality(Users(v)) + Uses(p, Gone(p, l), v) - Uses(pc[t], loc[t], v)
    BY UsersCount
  <1>. DEFINE k == Cardinality(Users(v))
              j == Cardinality(Users(v)')
              y == Uses(p, Gone(p, l), v)
              x == Uses(pc[t], loc[t], v)
  <1>5. x \in {0, 1} /\ y \in {0, 1}  BY DEF Uses
  <1>6. mn'.ref[v] - Holds(mn', v) - mn'.leaked[v] - y = mn.ref[v] - Holds(mn, v) - mn.leaked[v] - x
    BY DEF Balance
  <1>7. Holds(mn, v) \in {0, 1} /\ Holds(mn', v) \in {0, 1}  BY DEF Holds
  <1>8. k \in Nat /\ j \in Nat /\ j = k + y - x /\ mn.ref[v] = Holds(mn, v) + k + mn.leaked[v]  BY <1>2, <1>4
  <1>. HIDE DEF k, j, x, y
  <1>9. mn'.ref[v] = Holds(mn', v) + j + mn'.leaked[v]  BY <1>3, <1>5, <1>6, <1>7, <1>8
  <1>. QED  BY <1>9 DEF Holds, j

\* A step of thread t, whatever it does to the references, the opens and the data
LEMMA Whole ==
  ASSUME FileInv, NEW t \in Threads, NEW p \in Pcs, NEW l, Goto(t, p, l),
         Good(mn', srv'), Serves(srv, srv'), Private => Private', Stamps(mn, mn'),
         attrgen' = attrgen, thr' = thr,
         open' \in [Threads -> Modes \cup {"none"}], \A u \in Threads \ {t} : open'[u] = open[u],
         logical' \in [n : Nat, v : Nat], spoiled' \in BOOLEAN,
         Local(p, Gone(p, l), open'[t], CredOf[t], work),
         Changed(p, Gone(p, l)) => Private', pc[t] # "marked",
         p = "use" => mn'.fetched >= thr[t].mark,
         RefsHeld', OpensPaired', SharedIntact', Data'
  PROVE  FileInv'
  <1>1. Kinds'  BY GotoTo DEF FileInv, Kinds
  <1>2. Locals'  BY LocalsKept DEF FileInv
  <1>3. Copied'  BY CopiedKept DEF FileInv
  <1>4. Marks'  BY MarksKept DEF FileInv
  <1>5. srv'.cow => srv'.ct = Pv  BY DEF FileInv, Serves
  <1>6. Good(mn, srv)'
    <2>1. work' = work  BY GotoTo DEF FileInv
    <2>. QED  BY <2>1 DEF Good, Mn
  <1>. QED  BY <1>1, <1>2, <1>3, <1>4, <1>5, <1>6 DEF FileInv

\* A step with the control of every thread as it was
LEMMA Still ==
  ASSUME FileInv, pc' = pc, loc' = loc, work' = work, attrgen' = attrgen, thr' = thr,
         Good(mn', srv'), srv'.cow => srv'.ct = Pv, Private => Private',
         open' \in [Threads -> Modes \cup {"none"}], logical' \in [n : Nat, v : Nat], spoiled' \in BOOLEAN,
         \A u \in Threads : Local(pc[u], loc[u], open'[u], CredOf[u], work),
         RefsHeld', OpensPaired', SharedIntact', Data', Marks'
  PROVE  FileInv'
  <1>1. Kinds'  BY DEF FileInv, Kinds
  <1>2. Locals'  BY DEF Locals
  <1>3. Copied'  BY DEF FileInv, Copied
  <1>4. Good(mn, srv)'  BY DEF Good, Mn
  <1>. QED  BY <1>1, <1>2, <1>3, <1>4 DEF FileInv

\* Every reference that an operation holds, and every one that is left behind, is counted.
LEMMA DroppedInv ==
  ASSUME FileInv, NEW t \in Threads, Dropped(t)
  PROVE  FileInv'
  <1>. DEFINE w == loc[t].v
              k == [mn.leaked EXCEPT ![w] = @ + 1]
  <1>1. /\ pc[t] = "dropped" /\ Goto(t, "idle", loc[t]) /\ mn' = [mn EXCEPT !.leaked[w] = @ + 1]
        /\ UNCHANGED <<srv, attrgen, thr, open, recorded, logical, spoiled, touched>>
    BY Zenon DEF Dropped
  <1>2. Local("dropped", loc[t], open[t], CredOf[t], work)  BY <1>1, Here
  <1>3. w \in Vnodes /\ mn \in MnType  BY <1>2, Here DEF Local, Good, Mn
  <1>4. k \in [Vnodes -> Nat] /\ mn' = [mn EXCEPT !.leaked = k]  BY <1>1, <1>3 DEF MnType
  <1>5. \A v \in Vnodes : k[v] = mn.leaked[v] + (IF v = w THEN 1 ELSE 0)  BY <1>3 DEF MnType
  <1>. HIDE DEF k
  <1>6. mn' \in MnType  BY <1>3, <1>4 DEF MnType
  <1>7. /\ mn'.rv = mn.rv /\ mn'.nm = mn.nm /\ mn'.ro = mn.ro /\ mn'.open = mn.open /\ mn'.wopen = mn.wopen
        /\ mn'.ref = mn.ref /\ mn'.cop = mn.cop /\ mn'.creds = mn.creds
        /\ mn'.gen = mn.gen /\ mn'.fetched = mn.fetched /\ mn'.live = mn.live
        /\ mn'.pnm = mn.pnm /\ mn'.pcvp = mn.pcvp /\ mn'.leaked = k
    BY <1>3, <1>4 DEF MnType
  <1>8. /\ srv' = srv /\ attrgen' = attrgen /\ thr' = thr /\ open' = open /\ logical' = logical
        /\ spoiled' = spoiled /\ touched' = touched
    BY <1>1
  <1>9. Good(mn', srv')  BY <1>6, <1>7, <1>8, Here DEF Good, Mn, Marked
  <1>10. Serves(srv, srv') /\ (Private => Private') /\ Quiet(srv, srv')
    BY <1>7, <1>8 DEF Serves, Private, Quiet
  <1>11. Stamps(mn, mn') /\ Opens(mn, mn')  BY <1>7 DEF Stamps, Opens
  <1>12. "idle" \in Pcs /\ Gone("idle", loc[t]) = NoLoc  BY DEF Pcs, Gone
  <1>13. RefsHeld'
    <2>1. ASSUME NEW v \in Vnodes
          PROVE  Balance(mn', "idle", NoLoc, v) = Balance(mn, pc[t], loc[t], v)
      <3>1. Uses("idle", NoLoc, v) = 0 /\ Uses(pc[t], loc[t], v) = IF v = w THEN 1 ELSE 0
        BY <1>1 DEF Uses, User
      <3>2. mn.ref[v] \in Nat /\ mn.leaked[v] \in Nat /\ Holds(mn, v) \in {0, 1} /\ Holds(mn', v) = Holds(mn, v)
        BY <1>3, <1>7 DEF MnType, Holds
      <3>. QED  BY <1>5, <1>7, <3>1, <3>2 DEF Balance
    <2>. QED  BY <1>1, <1>3, <1>6, <1>12, <2>1, RefsMoved DEF FileInv
  <1>14. OpensPaired'  BY <1>8, <1>9, <1>11, OpensKept DEF FileInv
  <1>15. SharedIntact'  BY <1>8 DEF FileInv, SharedIntact
  <1>16. Ends(t, "idle", NoLoc)  BY <1>1 DEF Ends, Cutting, Ended
  <1>17. Data'  BY <1>1, <1>8, <1>10, <1>12, <1>16, Here, DataQuiet
  <1>18. Local("idle", NoLoc, open'[t], CredOf[t], work)
    <2>1. open[t] # "none" => "open" \in work.ops  BY Here DEF Local
    <2>. QED  BY <1>8, <2>1, IdleLocal
  <1>19. ~Changed("idle", NoLoc)  BY DEF Changed
  <1>20. open' \in [Threads -> Modes \cup {"none"}] /\ logical' \in [n : Nat, v : Nat] /\ spoiled' \in BOOLEAN
    BY <1>8 DEF FileInv, Kinds
  <1>21. \A u \in Threads \ {t} : open'[u] = open[u]  BY <1>8
  <1>. QED  BY <1>1, <1>8, <1>9, <1>10, <1>11, <1>12, <1>13, <1>14, <1>15, <1>17, <1>18, <1>19, <1>20, <1>21, Whole

\* A step by which thread t comes to hold the cleartext w as well
Took(m, s, n, z, w) ==
  /\ Good(n, z) /\ Serves(s, z) /\ Quiet(s, z) /\ Opens(m, n) /\ Stamps(m, n)
  /\ (s.ct = Pv /\ m.nm # Sh) => n.nm # Sh
  /\ n.leaked = m.leaked
  /\ \A v \in Vnodes : n.ref[v] - Holds(n, v) = m.ref[v] - Holds(m, v) + (IF v = w THEN 1 ELSE 0)

LEMMA HoldTook ==
  ASSUME NEW m, NEW s, NEW x, NEW z, Good(m, s), Step(m, s, x, z), Quiet(s, z), x.rv # Null
  PROVE  Took(m, s, Hold(x, x.rv), z, x.rv)
  <1>. DEFINE w == x.rv
              k == [x.ref EXCEPT ![w] = @ + 1]
              n == Hold(x, w)
  <1>1. x \in MnType /\ w \in Vnodes /\ m \in MnType  BY DEF Step, Good, Mn, MnType
  <1>2. k \in [Vnodes -> Nat] /\ n = [x EXCEPT !.ref = k]  BY <1>1 DEF MnType, Hold
  <1>3. \A v \in Vnodes : k[v] = x.ref[v] + (IF v = w THEN 1 ELSE 0)  BY <1>1 DEF MnType
  <1>. HIDE DEF k, n
  <1>4. n \in MnType  BY <1>1, <1>2 DEF MnType
  <1>5. /\ n.rv = x.rv /\ n.nm = x.nm /\ n.ro = x.ro /\ n.open = x.open /\ n.wopen = x.wopen
        /\ n.leaked = x.leaked /\ n.cop = x.cop /\ n.creds = x.creds
        /\ n.gen = x.gen /\ n.fetched = x.fetched /\ n.live = x.live
        /\ n.pnm = x.pnm /\ n.pcvp = x.pcvp /\ n.ref = k
    BY <1>1, <1>2 DEF MnType
  <1>6. \A v \in Vnodes : x.ref[v] \in Nat /\ m.ref[v] \in Nat  BY <1>1 DEF MnType
  <1>7. n.rv # Null => n.ref[n.rv] > 0  BY <1>1, <1>3, <1>5, <1>6
  <1>8. Good(n, z)  BY <1>4, <1>5, <1>7 DEF Step, Good, Mn, Marked
  <1>9. Opens(m, n) /\ Stamps(m, n)  BY <1>5 DEF Step, Moves, Opens, Stamps
  <1>10. \A v \in Vnodes : n.ref[v] - Holds(n, v) = m.ref[v] - Holds(m, v) + (IF v = w THEN 1 ELSE 0)
    <2>1. ASSUME NEW v \in Vnodes
          PROVE  n.ref[v] - Holds(n, v) = m.ref[v] - Holds(m, v) + (IF v = w THEN 1 ELSE 0)
      <3>1. x.ref[v] - Holds(x, v) = m.ref[v] - Holds(m, v)  BY DEF Step, Moves
      <3>2. n.ref[v] = x.ref[v] + (IF v = w THEN 1 ELSE 0) /\ Holds(n, v) = Holds(x, v)  BY <1>3, <1>5 DEF Holds
      <3>3. Holds(x, v) \in {0, 1} /\ Holds(m, v) \in {0, 1}  BY DEF Holds
      <3>. QED  BY <1>6, <3>1, <3>2, <3>3
    <2>. QED  BY <2>1
  <1>11. Took(m, s, n, z, w)  BY <1>5, <1>8, <1>9, <1>10 DEF Took, Step, Moves
  <1>. QED  BY <1>11 DEF n

LEMMA TookOn ==
  ASSUME NEW m, NEW s, NEW n, NEW z, NEW w, m \in MnType, Took(m, s, n, z, w), NEW p, NEW q, Step(n, z, p, q), Quiet(z, q)
  PROVE  Took(m, s, p, q, w)
  <1>1. m \in MnType /\ n \in MnType /\ p \in MnType  BY DEF Took, Step, Good, Mn
  <1>2. \A v \in Vnodes : m.ref[v] \in Nat /\ n.ref[v] \in Nat /\ p.ref[v] \in Nat  BY <1>1 DEF MnType
  <1>3. ASSUME NEW v \in Vnodes
        PROVE  p.ref[v] - Holds(p, v) = m.ref[v] - Holds(m, v) + (IF v = w THEN 1 ELSE 0)
    <2>1. p.ref[v] - Holds(p, v) = n.ref[v] - Holds(n, v)  BY DEF Step, Moves
    <2>2. n.ref[v] - Holds(n, v) = m.ref[v] - Holds(m, v) + (IF v = w THEN 1 ELSE 0)  BY DEF Took
    <2>. QED  BY <2>1, <2>2
  <1>4. Opens(m, p) /\ Stamps(m, p)  BY DEF Took, Step, Moves, Opens, Stamps
  <1>5. Serves(s, q) /\ Quiet(s, q)  BY DEF Took, Step, Serves, Quiet
  <1>. QED  BY <1>3, <1>4, <1>5 DEF Took, Step, Moves, Serves

\* mvfs_pre_rdwr: the thread goes on, to p, with the cleartext w held.
LEMMA TookInv ==
  ASSUME FileInv, NEW t \in Threads, NEW p \in {"io", "dropped", "audit", "write"}, NEW l, Goto(t, p, l),
         pc[t] = "pre", NEW w \in Vnodes, Took(mn, srv, mn', srv', w),
         IsLoc(l), l.mode = loc[t].mode, l.v = w, l.gen = loc[t].gen, CredOf[t] \notin work.barred,
         p \in {"audit", "write"} => Writes(l.mode) /\ l.ans = "write",
         Writes(l.mode) /\ p # "dropped" => w = <<Pv, 1>>,
         p = "audit" => srv'.ct = Pv /\ mn'.nm # Sh,
         attrgen' = attrgen, thr' = thr, open' = open, touched' = touched,
         logical' = logical, spoiled' = spoiled
  PROVE  FileInv'
  <1>1. p \in Pcs /\ Gone(p, l) = l  BY DEF Pcs, Gone
  <1>2. Local("pre", loc[t], open[t], CredOf[t], work)  BY Here
  <1>3. w # Null /\ loc[t].mode # "t"  BY <1>2, Facts DEF Local
  <1>4. Local(p, l, open'[t], CredOf[t], work)  BY <1>2, <1>3 DEF Local, Opening
  <1>5. mn \in MnType /\ mn' \in MnType  BY DEF FileInv, Took, Good, Mn
  <1>6. RefsHeld'
    <2>1. ASSUME NEW v \in Vnodes
          PROVE  Balance(mn', p, l, v) = Balance(mn, pc[t], loc[t], v)
      <3>1. Uses(p, l, v) = (IF v = w THEN 1 ELSE 0) /\ Uses(pc[t], loc[t], v) = 0  BY DEF Uses, User
      <3>2. /\ mn'.ref[v] - Holds(mn', v) = mn.ref[v] - Holds(mn, v) + (IF v = w THEN 1 ELSE 0)
            /\ mn'.leaked = mn.leaked
        BY DEF Took
      <3>3. mn.ref[v] \in Nat /\ mn'.ref[v] \in Nat /\ mn.leaked[v] \in Nat  BY <1>5 DEF MnType
      <3>4. Holds(mn, v) \in {0, 1} /\ Holds(mn', v) \in {0, 1}  BY DEF Holds
      <3>. QED  BY <3>1, <3>2, <3>3, <3>4 DEF Balance
    <2>. QED  BY <1>1, <1>5, <2>1, RefsMoved DEF FileInv
  <1>7. OpensPaired'  BY OpensKept DEF FileInv, Took
  <1>8. SharedIntact'  BY DEF FileInv, SharedIntact
  <1>9. Ends(t, p, l)  BY <1>3 DEF Ends, Cutting, Ended
  <1>10. spoiled' \in BOOLEAN /\ (spoiled => spoiled') /\ Quiet(srv, srv')  BY Here DEF Took
  <1>11. Data'  BY <1>1, <1>9, <1>10, Here, DataQuiet
  <1>12. Private => Private'  BY DEF Private, Took, Serves
  <1>13. Changed(p, l) => Private'  BY DEF Changed, Private
  <1>14. open' \in [Threads -> Modes \cup {"none"}] /\ logical' \in [n : Nat, v : Nat]
         /\ \A u \in Threads \ {t} : open'[u] = open[u]
    BY DEF FileInv, Kinds
  <1>15. Good(mn', srv') /\ Serves(srv, srv') /\ Stamps(mn, mn')  BY DEF Took
  <1>. HIDE DEF Took
  <1>. QED  BY <1>1, <1>4, <1>6, <1>7, <1>8, <1>10, <1>11, <1>12, <1>13, <1>14, <1>15, Whole
LHold(l, w) == [l EXCEPT !.v = w]

\* The ways through mvfs_pre_rdwr, after mfs_getcleartext
PreCases(t, o) ==
  \/ o.err # "ok" /\ mn' = o.mn /\ srv' = o.srv /\ Goto(t, "idle", loc[t])
  \/ /\ o.err = "ok" /\ ~Writes(loc[t].mode) /\ mn' = Hold(o.mn, o.mn.rv) /\ srv' = o.srv
     /\ Goto(t, "io", LHold(loc[t], o.mn.rv))
  \/ /\ o.err = "ok" /\ mn' = Hold(o.mn, o.mn.rv) /\ srv' = o.srv
     /\ Goto(t, "dropped", LHold(loc[t], o.mn.rv))
  \/ /\ o.err = "ok" /\ Writes(loc[t].mode) /\ ~o.mn.ro
     /\ \E p \in ChangeOid(Hold(o.mn, o.mn.rv), o.srv, t, FALSE, FALSE) :
          /\ mn' = p.mn /\ srv' = p.srv
          /\ Goto(t, IF p.did THEN "audit" ELSE IF p.err = "ok" THEN "write" ELSE "dropped",
                  LWrite(loc[t], o.mn.rv, p.err, p.mn.oid, "write"))
LEMMA PreRdwrOf ==
  ASSUME NEW t, PreRdwr(t)
  PROVE  /\ pc[t] = "pre" /\ \E o \in GetCleartext(mn, srv, CredOf[t]) : PreCases(t, o)
         /\ UNCHANGED <<attrgen, thr, open, recorded, logical, spoiled, touched>>
  <1>1. PICK o \in GetCleartext(mn, srv, CredOf[t]) :
       IF o.err # "ok" THEN Result(o) /\ Goto(t, "idle", loc[t])
       ELSE IF ~Writes(loc[t].mode)
       THEN /\ mn' = Hold(o.mn, o.mn.rv) /\ srv' = o.srv /\ Goto(t, "io", [loc[t] EXCEPT !.v = o.mn.rv])
       ELSE IF ~ClearWritable(o.mn)
       THEN /\ mn' = Hold(o.mn, o.mn.rv) /\ srv' = o.srv /\ Goto(t, "dropped", [loc[t] EXCEPT !.v = o.mn.rv])
       ELSE \E p \in ChangeOid(Hold(o.mn, o.mn.rv), o.srv, t, FALSE, FALSE) :
              /\ Result(p)
              /\ Goto(t, IF p.did THEN "audit" ELSE IF p.err = "ok" THEN "write" ELSE "dropped",
                      [loc[t] EXCEPT !.v = o.mn.rv, !.err = p.err, !.oid = p.mn.oid, !.ans = "write"])
    BY Zenon DEF PreRdwr
  <1>2. PreCases(t, o)
    <2>1. CASE o.err # "ok"  BY Zenon, <1>1, <2>1 DEF PreCases, Result
    <2>2. CASE o.err = "ok" /\ ~Writes(loc[t].mode)  BY Zenon, <1>1, <2>2 DEF PreCases, LHold
    <2>3. CASE o.err = "ok" /\ Writes(loc[t].mode) /\ o.mn.ro
      BY Zenon, <1>1, <2>3 DEF PreCases, ClearWritable, LHold
    <2>4. CASE o.err = "ok" /\ Writes(loc[t].mode) /\ ~o.mn.ro
      BY Zenon, <1>1, <2>4 DEF PreCases, ClearWritable, Result, LWrite
    <2>. QED  BY <2>1, <2>2, <2>3, <2>4
  <1>. QED  BY Zenon, <1>2 DEF PreRdwr

LEMMA PreRdwrInv ==
  ASSUME FileInv, NEW t \in Threads, PreRdwr(t)
  PROVE  FileInv'
  <1>1. /\ pc[t] = "pre" /\ \E o \in GetCleartext(mn, srv, CredOf[t]) : PreCases(t, o)
        /\ UNCHANGED <<attrgen, thr, open, recorded, logical, spoiled, touched>>
    BY PreRdwrOf
  <1>2. PICK o \in GetCleartext(mn, srv, CredOf[t]) : PreCases(t, o)  BY <1>1
  <1>3. /\ attrgen' = attrgen /\ thr' = thr /\ open' = open /\ logical' = logical
        /\ spoiled' = spoiled /\ touched' = touched
    BY <1>1
  <1>4. Got(mn, srv, CredOf[t], o)  BY Here, GetGot
  <1>5. IsLoc(loc[t])  BY Here DEF Local
  <1>. DEFINE w == o.mn.rv
              h == Hold(o.mn, w)
  <1>6. ASSUME o.err = "ok"
        PROVE  /\ w \in Vnodes /\ CredOf[t] \notin work.barred /\ Took(mn, srv, h, o.srv, w)
               /\ ~o.mn.ro => w = <<Pv, 1>>
    <2>1. Step(mn, srv, o.mn, o.srv) /\ Quiet(srv, o.srv) /\ w # Null /\ CredOf[t] \notin work.barred
      BY <1>4, <1>6 DEF Got
    <2>2. Took(mn, srv, h, o.srv, w)  BY <2>1, Here, HoldTook
    <2>3. w \in Vnodes  BY <2>1 DEF Step, Good, Mn, MnType
    <2>4. ~o.mn.ro => w = <<Pv, 1>>
      <3>1. o.mn.nm = w[1] /\ w[1] \in Cts /\ Null \notin Cts /\ (o.mn.nm # Null => (o.mn.ro <=> o.mn.nm = Sh))
        BY <2>1, <2>3, Facts DEF Step, Good, Mn, Cts
      <3>. QED  BY <2>3, <3>1, Facts DEF Cts
    <2>. QED  BY <2>1, <2>2, <2>3, <2>4
  <1>7. CASE o.err # "ok" /\ mn' = o.mn /\ srv' = o.srv /\ Goto(t, "idle", loc[t])
    <2>1. \A v \in Vnodes : ~User(pc[t], loc[t], v)  BY <1>1, NoUser
    <2>2. ~Cutting(pc[t], loc[t])  BY <1>1 DEF Cutting
    <2>3. Step(mn, srv, mn', srv') /\ Quiet(srv, srv')  BY <1>4, <1>7 DEF Got
    <2>. QED  BY <1>1, <1>3, <1>7, <2>1, <2>2, <2>3, Here, ToIdle
  <1>. DEFINE l == LHold(loc[t], w)
  <1>8. IsLoc(l) /\ l.mode = loc[t].mode /\ l.v = w /\ l.gen = loc[t].gen  BY <1>5, LocHeld DEF LHold
  <1>. HIDE DEF l
  <1>9. CASE /\ o.err = "ok" /\ ~Writes(loc[t].mode) /\ mn' = h /\ srv' = o.srv
             /\ Goto(t, "io", LHold(loc[t], o.mn.rv))
    <2>1. Goto(t, "io", l) /\ ~Writes(l.mode)  BY <1>8, <1>9 DEF l
    <2>2. Took(mn, srv, mn', srv', w) /\ w \in Vnodes /\ CredOf[t] \notin work.barred  BY <1>6, <1>9
    <2>. HIDE DEF w, h
    <2>. QED  BY <1>1, <1>3, <1>8, <2>1, <2>2, TookInv
  <1>10. CASE /\ o.err = "ok" /\ mn' = h /\ srv' = o.srv
              /\ Goto(t, "dropped", LHold(loc[t], o.mn.rv))
    <2>1. Goto(t, "dropped", l)  BY <1>10 DEF l
    <2>2. Took(mn, srv, mn', srv', w) /\ w \in Vnodes /\ CredOf[t] \notin work.barred  BY <1>6, <1>10
    <2>. HIDE DEF w, h
    <2>. QED  BY <1>1, <1>3, <1>8, <2>1, <2>2, TookInv
  <1>11. CASE /\ o.err = "ok" /\ Writes(loc[t].mode) /\ ~o.mn.ro
              /\ \E p \in ChangeOid(h, o.srv, t, FALSE, FALSE) :
                   /\ mn' = p.mn /\ srv' = p.srv
                   /\ Goto(t, IF p.did THEN "audit" ELSE IF p.err = "ok" THEN "write" ELSE "dropped",
                           LWrite(loc[t], o.mn.rv, p.err, p.mn.oid, "write"))
    <2>1. PICK p \in ChangeOid(h, o.srv, t, FALSE, FALSE) :
            /\ mn' = p.mn /\ srv' = p.srv
            /\ Goto(t, IF p.did THEN "audit" ELSE IF p.err = "ok" THEN "write" ELSE "dropped",
                    LWrite(loc[t], w, p.err, p.mn.oid, "write"))
      BY <1>11
    <2>. DEFINE q == IF p.did THEN "audit" ELSE IF p.err = "ok" THEN "write" ELSE "dropped"
                k == LWrite(loc[t], w, p.err, p.mn.oid, "write")
    <2>2. w \in Vnodes /\ CredOf[t] \notin work.barred /\ Took(mn, srv, h, o.srv, w) /\ w = <<Pv, 1>>
      BY <1>6, <1>11
    <2>3. h.ro = o.mn.ro  BY <1>4 DEF Hold, Got, Step, Good, Mn, MnType
    <2>4. Good(h, o.srv) /\ attrgen \in Nat  BY <2>2, Here DEF Took
    <2>. HIDE DEF w, h
    <2>5. Chosen(h, o.srv, FALSE, p) /\ (~h.ro => Quiet(o.srv, p.srv))  BY <2>1, <2>4, ChangeOidStep
    <2>6. Took(mn, srv, p.mn, p.srv, w)
      <3>1. Step(h, o.srv, p.mn, p.srv) /\ Quiet(o.srv, p.srv)  BY <1>11, <2>3, <2>5 DEF Chosen
      <3>2. mn \in MnType  BY Here DEF Good, Mn
      <3>. QED  BY <2>2, <3>1, <3>2, TookOn
    <2>7. IsLoc(k) /\ k.mode = loc[t].mode /\ k.v = w /\ k.gen = loc[t].gen /\ k.err = p.err /\ k.ans = "write"
      BY <1>5, LocWrite
    <2>8. q \in {"io", "dropped", "audit", "write"} /\ (q = "audit" => p.did)  OBVIOUS
    <2>. HIDE DEF q, k
    <2>9. Goto(t, q, k)  BY <2>1 DEF q, k
    <2>10. q = "audit" => srv'.ct = Pv /\ mn'.nm # Sh  BY <2>1, <2>5, <2>8 DEF Chosen
    <2>11. Took(mn, srv, mn', srv', w)  BY <2>1, <2>6
    <2>. QED  BY <1>1, <1>3, <1>11, <2>2, <2>7, <2>8, <2>9, <2>10, <2>11, TookInv
  <1>. QED  BY <1>2, <1>7, <1>9, <1>10, <1>11 DEF PreCases

\* A step of thread t that may write to the private cleartext
LEMMA Acts ==
  ASSUME FileInv, NEW t \in Threads, NEW p \in Pcs, NEW l, Goto(t, p, l),
         Step(mn, srv, mn', srv'), attrgen' = attrgen, thr' = thr, open' = open,
         logical' \in [n : Nat, v : Nat], spoiled' \in BOOLEAN,
         Local(p, Gone(p, l), open[t], CredOf[t], work),
         ~Changed(p, Gone(p, l)), SameUser(t, p, Gone(p, l)), pc[t] # "marked", p # "use",
         SharedIntact', Data'
  PROVE  FileInv'
  <1>1. Good(mn', srv') /\ Opens(mn, mn') /\ Stamps(mn, mn') /\ mn \in MnType
    BY MovesParts DEF Step, FileInv, Good, Mn
  <1>2. RefsHeld'
    <2>1. \A v \in Vnodes : Users(v)' = Users(v)  BY UsersKept DEF FileInv
    <2>. QED  BY <1>1, <2>1, RefsKept DEF FileInv
  <1>3. OpensPaired'  BY <1>1, OpensKept DEF FileInv
  <1>4. Serves(srv, srv') /\ (Private => Private')  BY PrivateKept DEF Step
  <1>5. /\ open' \in [Threads -> Modes \cup {"none"}] /\ \A u \in Threads \ {t} : open'[u] = open[u]
    BY DEF FileInv, Kinds
  <1>. QED  BY <1>1, <1>2, <1>3, <1>4, <1>5, Whole

\* The private cleartext gets new contents.
Filled(s, d) == [s EXCEPT !.data[<<Pv, 1>>] = d]
LEMMA FillStep ==
  ASSUME NEW m, NEW s, Good(m, s), NEW d \in Nat
  PROVE  LET z == Filled(s, d)
         IN  /\ Step(m, s, m, z) /\ z.file = s.file /\ z.data[<<Pv, 1>>] = d
             /\ z.data[<<Sh, 1>>] = s.data[<<Sh, 1>>] /\ z.data[<<Sh, 2>>] = s.data[<<Sh, 2>>]
  <1>. DEFINE e == [s.data EXCEPT ![<<Pv, 1>>] = d]
              z == [s EXCEPT !.data = e]
  <1>1. s \in SrvType /\ <<Pv, 1>> \in Vnodes /\ Sh # Pv  BY Facts DEF Good, Srv
  <1>2. /\ e \in [Vnodes -> Nat] /\ e[<<Pv, 1>>] = d
        /\ e[<<Sh, 1>>] = s.data[<<Sh, 1>>] /\ e[<<Sh, 2>>] = s.data[<<Sh, 2>>]
    BY <1>1 DEF SrvType, Vnodes
  <1>3. Filled(s, d) = z  BY <1>1 DEF Filled, SrvType
  <1>. HIDE DEF e
  <1>4. z \in SrvType /\ z.ct = s.ct /\ z.cow = s.cow /\ z.file = s.file /\ z.data = e
    BY <1>1, <1>2 DEF SrvType
  <1>. HIDE DEF z
  <1>5. Srv(z) /\ Serves(s, z)  BY <1>4 DEF Good, Srv, Serves
  <1>6. Step(m, s, m, z)  BY <1>5, ServeStep
  <1>. QED  BY <1>2, <1>3, <1>4, <1>6

LEMMA DataFilled ==
  ASSUME Data, srv'.file[Pv] = 1, srv'.data[<<Pv, 1>>] = logical'.v,
         srv'.data[<<Sh, 1>>] = srv.data[<<Sh, 1>>], srv'.data[<<Sh, 2>>] = srv.data[<<Sh, 2>>],
         \A u \in Threads : Ended(pc'[u], loc'[u]) => spoiled'
  PROVE  Data'
  BY DEF Data

\* The transfer, without the lock: it writes to the cleartext that is held, and that is the private one.
LEMMA IoInv ==
  ASSUME FileInv, NEW t \in Threads, Io(t)
  PROVE  FileInv'
  <1>. DEFINE v == loc[t].v
              good == Alive(srv, v)
              e == IF good THEN "ok" ELSE "stale"
              l == [loc[t] EXCEPT !.err = e]
              w == Writes(loc[t].mode) /\ good
  <1>1. /\ pc[t] = "io" /\ Goto(t, "post", l)
        /\ IF w THEN /\ srv' = [srv EXCEPT !.data[v] = logical.n + 1]
                     /\ logical' = [n |-> logical.n + 1, v |-> logical.n + 1] /\ touched' = touched \cup {v}
           ELSE UNCHANGED <<srv, logical, touched>>
        /\ UNCHANGED <<mn, attrgen, thr, open, recorded, spoiled>>
    BY Zenon DEF Io
  <1>2. mn' = mn /\ attrgen' = attrgen /\ thr' = thr /\ open' = open /\ spoiled' = spoiled  BY <1>1
  <1>3. Local("io", loc[t], open[t], CredOf[t], work)  BY <1>1, Here
  <1>4. IsLoc(l) /\ l.mode = loc[t].mode /\ l.v = v /\ l.gen = loc[t].gen  BY <1>3, LocErr DEF Local
  <1>. HIDE DEF l
  <1>5. "post" \in Pcs /\ Gone("post", l) = l  BY DEF Pcs, Gone
  <1>6. Local("post", l, open[t], CredOf[t], work)  BY <1>3, <1>4 DEF Local, Opening
  <1>7. ~Changed("post", l) /\ SameUser(t, "post", l) /\ Ends(t, "post", l)
    BY <1>1, <1>4 DEF Changed, SameUser, User, Ends, Cutting, Ended
  <1>8. CASE ~w
    <2>1. srv' = srv /\ logical' = logical /\ touched' = touched  BY <1>1, <1>8
    <2>2. Step(mn, srv, mn', srv') /\ Quiet(srv, srv')  BY <1>2, <2>1, Here
    <2>. QED  BY <1>1, <1>2, <1>5, <1>6, <1>7, <2>1, <2>2, Here, Calm
  <1>9. CASE w
    <2>. DEFINE n == logical.n + 1
    <2>1. v = <<Pv, 1>>  BY <1>3, <1>9 DEF Local
    <2>2. /\ srv' = Filled(srv, n) /\ logical' = [n |-> n, v |-> n] /\ touched' = touched \cup {<<Pv, 1>>}
      BY <1>1, <1>9, <2>1 DEF Filled
    <2>3. n \in Nat /\ logical' \in [n : Nat, v : Nat] /\ logical'.v = n  BY <2>2 DEF FileInv, Kinds
    <2>. HIDE DEF n
    <2>4. /\ Step(mn, srv, mn, srv') /\ srv'.file = srv.file /\ srv'.data[<<Pv, 1>>] = n
          /\ srv'.data[<<Sh, 1>>] = srv.data[<<Sh, 1>>] /\ srv'.data[<<Sh, 2>>] = srv.data[<<Sh, 2>>]
      BY <2>2, <2>3, Here, FillStep
    <2>5. SharedIntact'  BY <2>2 DEF FileInv, SharedIntact
    <2>6. srv.file[Pv] = 1  BY <1>9, <2>1 DEF Alive
    <2>7. \A u \in Threads : Ended(pc'[u], loc'[u]) => spoiled'
      BY <1>1, <1>2, <1>5, <1>7, Here, GotoTo DEF Data, Ends
    <2>8. Data'
      <3>1. Data  BY Here
      <3>. QED  BY <2>3, <2>4, <2>6, <2>7, <3>1, DataFilled
    <2>9. Step(mn, srv, mn', srv') /\ spoiled' \in BOOLEAN  BY <1>2, <2>4, Here
    <2>. QED  BY <1>1, <1>2, <1>5, <1>6, <1>7, <2>3, <2>5, <2>8, <2>9, Acts
  <1>. QED  BY <1>8, <1>9

\* The reference of the transfer is dropped; an error marks the cleartext.
LEMMA ReleGood ==
  ASSUME FileInv, NEW t \in Threads, NEW v \in Vnodes, User(pc[t], loc[t], v)
  PROVE  LET n == Rele(mn, v)
         IN  /\ Good(n, srv) /\ Opens(mn, n) /\ Stamps(mn, n) /\ n.nm = mn.nm /\ n.rv = mn.rv /\ n.leaked = mn.leaked
             /\ \A x \in Vnodes : n.ref[x] = mn.ref[x] - (IF x = v THEN 1 ELSE 0)
  <1>. DEFINE k == [mn.ref EXCEPT ![v] = @ - 1]
              n == Rele(mn, v)
  <1>1. mn \in MnType /\ Good(mn, srv)  BY DEF FileInv, Good, Mn
  <1>2. mn.ref[v] = Holds(mn, v) + Cardinality(Users(v)) + mn.leaked[v]  BY DEF FileInv, RefsHeld, Holds
  <1>3. Cardinality(Users(v)) \in Nat /\ Cardinality(Users(v)) > 0
    <2>1. Users(v) \subseteq Threads /\ IsFiniteSet(Threads)  BY FileAssumption DEF FileAssumption, Users
    <2>2. t \in Users(v)  BY UsersOf
    <2>3. IsFiniteSet(Users(v))  BY <2>1, FS_Subset
    <2>4. Users(v) # {}  BY <2>2
    <2>. QED  BY <2>3, <2>4, FS_CardinalityType, FS_EmptySet
  <1>4. mn.leaked[v] \in Nat /\ mn.ref[v] \in Nat /\ Holds(mn, v) \in {0, 1}  BY <1>1 DEF MnType, Holds
  <1>5. mn.ref[v] > Holds(mn, v)
    <2>. DEFINE c == Cardinality(Users(v))
    <2>1. c \in Nat /\ c > 0 /\ mn.ref[v] = Holds(mn, v) + c + mn.leaked[v]  BY <1>2, <1>3
    <2>. HIDE DEF c
    <2>. QED  BY <1>4, <2>1
  <1>6. k \in [Vnodes -> Nat] /\ n = [mn EXCEPT !.ref = k]  BY <1>1, <1>4, <1>5 DEF MnType, Rele
  <1>7. \A x \in Vnodes : k[x] = mn.ref[x] - (IF x = v THEN 1 ELSE 0)  BY <1>1 DEF MnType
  <1>. HIDE DEF k, n
  <1>8. n \in MnType  BY <1>1, <1>6 DEF MnType
  <1>9. /\ n.rv = mn.rv /\ n.nm = mn.nm /\ n.ro = mn.ro /\ n.open = mn.open /\ n.wopen = mn.wopen
        /\ n.leaked = mn.leaked /\ n.cop = mn.cop /\ n.creds = mn.creds
        /\ n.gen = mn.gen /\ n.fetched = mn.fetched /\ n.live = mn.live
        /\ n.pnm = mn.pnm /\ n.pcvp = mn.pcvp /\ n.ref = k
    BY <1>1, <1>6 DEF MnType
  <1>10. mn.rv # Null => k[mn.rv] > 0
    <2>1. ASSUME mn.rv # Null PROVE k[mn.rv] > 0
      <3>1. mn.rv \in Vnodes /\ mn.ref[mn.rv] \in Nat /\ mn.ref[mn.rv] > 0
        BY <1>1, <2>1 DEF Good, Mn, MnType
      <3>2. mn.rv = v => mn.ref[v] > 1  BY <1>4, <1>5 DEF Holds
      <3>. QED  BY <1>7, <3>1, <3>2
    <2>. QED  BY <2>1
  <1>11. Good(n, srv)  BY <1>1, <1>8, <1>9, <1>10 DEF Good, Mn, Marked
  <1>12. Opens(mn, n) /\ Stamps(mn, n)  BY <1>9 DEF Opens, Stamps
  <1>. QED  BY <1>7, <1>9, <1>11, <1>12 DEF n

LEMMA WrittenType ==
  ASSUME NEW m \in MnType, NEW w \in BOOLEAN
  PROVE  LET n == [m EXCEPT !.dirty = @ \/ w, !.unsynced = @ \/ w] IN n \in MnType /\ Same(m, n)
  <1>. DEFINE a == m.dirty \/ w
              b == m.unsynced \/ w
              n == [m EXCEPT !.dirty = a, !.unsynced = b]
  <1>1. a \in BOOLEAN /\ b \in BOOLEAN  BY DEF MnType
  <1>. HIDE DEF a, b
  <1>2. n \in MnType  BY <1>1 DEF MnType
  <1>3. Same(m, n)  BY DEF MnType, Same, Marked
  <1>. QED  BY <1>2, <1>3 DEF a, b

LEMMA PostRdwrInv ==
  ASSUME FileInv, NEW t \in Threads, PostRdwr(t)
  PROVE  FileInv'
  <1>. DEFINE v == loc[t].v
              w == Writes(loc[t].mode)
              m == Rele(mn, v)
              k == MSetCred(m, w)
              n == [k EXCEPT !.dirty = @ \/ w, !.unsynced = @ \/ w]
              p == IF loc[t].err = "ok" THEN "audited" ELSE "idle"
  <1>1. /\ pc[t] = "post" /\ Goto(t, p, loc[t])
        /\ mn' = IF loc[t].err = "ok" THEN n ELSE MarkNamePurge(m)
        /\ UNCHANGED <<srv, attrgen, thr, open, recorded, logical, spoiled, touched>>
    BY Zenon DEF PostRdwr, PostRele, ClearError
  <1>2. /\ srv' = srv /\ attrgen' = attrgen /\ thr' = thr /\ open' = open /\ logical' = logical
        /\ spoiled' = spoiled /\ touched' = touched
    BY <1>1
  <1>3. Local("post", loc[t], open[t], CredOf[t], work)  BY <1>1, Here
  <1>4. v \in Vnodes /\ User(pc[t], loc[t], v) /\ w \in BOOLEAN  BY <1>1, <1>3 DEF Local, User, Writes
  <1>. HIDE DEF w, v
  <1>5. /\ Good(m, srv) /\ Opens(mn, m) /\ Stamps(mn, m) /\ m.nm = mn.nm /\ m.rv = mn.rv /\ m.leaked = mn.leaked
        /\ \A x \in Vnodes : m.ref[x] = mn.ref[x] - (IF x = v THEN 1 ELSE 0)
    BY <1>4, ReleGood
  <1>6. m \in MnType  BY <1>5 DEF Good, Mn
  <1>. HIDE DEF m
  <1>7. k \in MnType /\ Same(m, k)  BY <1>4, <1>6, SetCredType
  <1>. HIDE DEF k
  <1>8. n \in MnType /\ Same(k, n)  BY <1>4, <1>7, WrittenType
  <1>. HIDE DEF n
  <1>9. mn' \in MnType /\ Same(m, mn')
    BY <1>1, <1>6, <1>7, <1>8, MarkType DEF Same
  <1>10. Step(m, srv, mn', srv)  BY <1>5, <1>9, SameStep
  <1>11. Good(mn', srv')  BY <1>2, <1>10 DEF Step
  <1>12. Opens(mn, mn') /\ Stamps(mn, mn') /\ mn'.nm = mn.nm  BY <1>5, <1>9 DEF Opens, Stamps, Same
  <1>13. Serves(srv, srv') /\ (Private => Private') /\ Quiet(srv, srv')
    BY <1>2, <1>12 DEF Serves, Private, Quiet
  <1>14. p \in {"audited", "idle"} /\ p \in Pcs  BY DEF Pcs
  <1>. HIDE DEF p
  <1>15. Gone(p, loc[t]) = loc[t] \/ (p = "idle" /\ Gone(p, loc[t]) = NoLoc)  BY DEF Gone
  <1>. DEFINE l == Gone(p, loc[t])
  <1>16. Local(p, l, open[t], CredOf[t], work)
    <2>1. open[t] # "none" => "open" \in work.ops  BY Here DEF Local
    <2>2. CASE p = "idle" /\ l = NoLoc  BY <2>1, <2>2, IdleLocal
    <2>3. CASE l = loc[t]
      <3>. HIDE DEF l
      <3>. QED  BY <1>3, <1>14, <2>3 DEF Local, Opening
    <2>. QED  BY <1>15, <2>2, <2>3
  <1>. HIDE DEF l
  <1>17. RefsHeld'
    <2>1. ASSUME NEW x \in Vnodes
          PROVE  Balance(mn', p, l, x) = Balance(mn, pc[t], loc[t], x)
      <3>1. Uses(p, l, x) = 0 /\ Uses(pc[t], loc[t], x) = IF x = v THEN 1 ELSE 0
        BY <1>1, <1>14 DEF Uses, User, v
      <3>2. mn'.ref[x] = mn.ref[x] - (IF x = v THEN 1 ELSE 0) /\ mn'.leaked = mn.leaked
        BY <1>5, <1>9 DEF Same
      <3>3. Holds(mn', x) = Holds(mn, x) /\ Holds(mn, x) \in {0, 1}  BY <1>5, <1>9 DEF Same, Holds
      <3>4. mn \in MnType  BY Here DEF Good, Mn
      <3>5. mn.ref[x] \in Nat /\ mn.leaked[x] \in Nat  BY <3>4 DEF MnType
      <3>. QED  BY <3>1, <3>2, <3>3, <3>5 DEF Balance
    <2>2. mn \in MnType  BY Here DEF Good, Mn
    <2>. QED  BY <1>1, <1>9, <1>14, <2>1, <2>2, RefsMoved DEF FileInv, l
  <1>18. OpensPaired'  BY <1>2, <1>11, <1>12, OpensKept DEF FileInv
  <1>19. SharedIntact'  BY <1>2 DEF FileInv, SharedIntact
  <1>20. Ends(t, p, l)  BY <1>1, <1>14 DEF Ends, Cutting, Ended
  <1>21. Data'  BY <1>1, <1>2, <1>13, <1>14, <1>20, Here, DataQuiet DEF l
  <1>22. ~Changed(p, l) /\ p # "use"  BY <1>14 DEF Changed
  <1>23. /\ open' \in [Threads -> Modes \cup {"none"}] /\ logical' \in [n : Nat, v : Nat] /\ spoiled' \in BOOLEAN
         /\ \A u \in Threads \ {t} : open'[u] = open[u]
    BY <1>2 DEF FileInv, Kinds
  <1>. QED  BY <1>1, <1>2, <1>11, <1>12, <1>13, <1>14, <1>16, <1>17, <1>18, <1>19, <1>21, <1>22, <1>23, Whole DEF l

\* What happens to the cleartext after the view was told, by what the view said
SetCases(t, o) ==
  LET mask == o.err = "ok" /\ ClearMask(o.mn, loc[t].mode)
      good == mask /\ o.mn.rv # Null /\ Alive(o.srv, o.mn.rv)
      trunc == good /\ loc[t].mode = "t"
      s == IF trunc THEN [o.srv EXCEPT !.data[o.mn.rv] = 0] ELSE o.srv
  IN /\ touched' = IF good THEN touched \cup {o.mn.rv} ELSE touched
     /\ logical' = IF trunc THEN [logical EXCEPT !.v = 0] ELSE logical
     /\ spoiled' = (spoiled \/ (loc[t].mode = "t" /\ ~good))
     /\ IF ~mask THEN mn' = o.mn /\ srv' = s
        ELSE IF ~good THEN mn' = ClearError(o.mn) /\ srv' = s
        ELSE \E p \in SizeBack(o.mn, s) :
               mn' = [p.mn EXCEPT !.unsynced = @ \/ p.err # "ok"] /\ srv' = p.srv

\* Only a private cleartext is changed: it is truncated after the copy, and a mode is not set on a shared one.
LEMMA SetPrivate ==
  ASSUME FileInv, NEW t \in Threads, pc[t] = "set", NEW m, NEW s, Step(mn, srv, m, s), m.rv # Null,
         ClearMask(m, loc[t].mode)
  PROVE  m.rv = <<Pv, 1>>
  <1>1. m.rv \in Vnodes /\ m.nm = m.rv[1] /\ (m.nm # Null => (m.ro <=> m.nm = Sh))
    BY DEF Step, Good, Mn, MnType
  <1>2. m.nm \in Cts /\ m.nm # Null  BY <1>1, Facts DEF Cts
  <1>3. CASE Writes(loc[t].mode)
    <2>1. Private  BY <1>3 DEF FileInv, Copied, Changed
    <2>2. m.nm # Sh  BY <2>1 DEF Private, Step
    <2>. QED  BY <1>1, <1>2, <2>2, Facts DEF Cts
  <1>4. CASE ~Writes(loc[t].mode)
    <2>1. ~m.ro  BY <1>4 DEF ClearMask
    <2>. QED  BY <1>1, <1>2, <2>1, Facts DEF Cts
  <1>. QED  BY <1>3, <1>4

LEMMA SetCltxtInv ==
  ASSUME FileInv, NEW t \in Threads, SetCltxt(t)
  PROVE  FileInv'
  <1>1. /\ pc[t] = "set" /\ Goto(t, "idle", loc[t]) /\ \E o \in SetView(t) : SetCases(t, o)
        /\ UNCHANGED <<attrgen, thr, open, recorded>>
    BY Zenon DEF SetCltxt, SetCases
  <1>2. PICK o \in SetView(t) : SetCases(t, o)  BY <1>1
  <1>3. attrgen' = attrgen /\ thr' = thr /\ open' = open  BY <1>1
  <1>4. Step(mn, srv, o.mn, o.srv) /\ Quiet(srv, o.srv)  BY Here, SetViewStep
  <1>5. Good(o.mn, o.srv) /\ o.mn \in MnType  BY <1>4 DEF Step, Good, Mn
  <1>. DEFINE mode == loc[t].mode
              mask == o.err = "ok" /\ ClearMask(o.mn, mode)
              good == mask /\ o.mn.rv # Null /\ Alive(o.srv, o.mn.rv)
              trunc == good /\ mode = "t"
              s == IF trunc THEN [o.srv EXCEPT !.data[o.mn.rv] = 0] ELSE o.srv
  <1>6. /\ touched' = IF good THEN touched \cup {o.mn.rv} ELSE touched
        /\ logical' = IF trunc THEN [logical EXCEPT !.v = 0] ELSE logical
        /\ spoiled' = (spoiled \/ (mode = "t" /\ ~good))
        /\ IF ~mask THEN mn' = o.mn /\ srv' = s
           ELSE IF ~good THEN mn' = ClearError(o.mn) /\ srv' = s
           ELSE \E p \in SizeBack(o.mn, s) :
                  mn' = [p.mn EXCEPT !.unsynced = @ \/ p.err # "ok"] /\ srv' = p.srv
    BY Zenon, <1>2 DEF SetCases
  <1>7. good => o.mn.rv = <<Pv, 1>> /\ o.srv.file[Pv] = 1
    BY <1>1, <1>4, <1>5, SetPrivate DEF Good
  <1>8. /\ good => mask
        /\ trunc => good /\ mode = "t"
        /\ mode = "t" => trunc \/ ~good
    OBVIOUS
  <1>9. s = IF trunc THEN Filled(o.srv, 0) ELSE o.srv  BY <1>7, <1>8 DEF Filled
  <1>. HIDE DEF mask, good, trunc, s
  <1>10. /\ Step(o.mn, o.srv, o.mn, s) /\ s.file = o.srv.file
         /\ s.data[<<Sh, 1>>] = o.srv.data[<<Sh, 1>>] /\ s.data[<<Sh, 2>>] = o.srv.data[<<Sh, 2>>]
         /\ trunc => s.data[<<Pv, 1>>] = 0
         /\ ~trunc => s = o.srv
    BY <1>5, <1>9, FillStep, SelfStep
  <1>11. Good(o.mn, s)  BY <1>10 DEF Step
  <1>12. Step(o.mn, s, mn', srv') /\ Quiet(s, srv')
    <2>1. CASE ~mask  BY <1>6, <1>11, <2>1, SelfStep
    <2>2. CASE mask /\ ~good
      <3>1. mn' = MarkNamePurge(o.mn) /\ srv' = s  BY <1>6, <2>2 DEF ClearError
      <3>. QED  BY <1>11, <3>1, PurgeStep, SelfStep
    <2>3. CASE mask /\ good
      <3>1. PICK p \in SizeBack(o.mn, s) : mn' = [p.mn EXCEPT !.unsynced = @ \/ p.err # "ok"] /\ srv' = p.srv
        BY <1>6, <2>3
      <3>2. Step(o.mn, s, p.mn, p.srv) /\ Quiet(s, p.srv)  BY <1>11, Here, SizeBackStep
      <3>3. Good(p.mn, p.srv) /\ p.mn \in MnType  BY <3>2 DEF Step, Good, Mn
      <3>. DEFINE b == p.mn.unsynced \/ p.err # "ok"
      <3>4. b \in BOOLEAN /\ mn' = [p.mn EXCEPT !.unsynced = b]  BY <3>1, <3>3 DEF MnType
      <3>. HIDE DEF b
      <3>5. mn' \in MnType /\ Same(p.mn, mn')  BY <3>3, <3>4, FlagType
      <3>6. Step(p.mn, p.srv, mn', p.srv)  BY <3>3, <3>5, SameStep
      <3>7. Step(o.mn, s, mn', p.srv)  BY <1>11, <3>2, <3>6, StepTrans
      <3>. QED  BY <3>1, <3>2, <3>7
    <2>. QED  BY <2>1, <2>2, <2>3
  <1>13. Step(mn, srv, mn', srv')
    <2>1. Step(o.mn, o.srv, mn', srv')  BY <1>5, <1>10, <1>12, StepTrans
    <2>. QED  BY <1>4, <2>1, Here, StepTrans
  <1>14. SharedIntact'
    <2>1. CASE good
      <3>1. touched' = touched \cup {<<Pv, 1>>}  BY <1>6, <1>7, <2>1
      <3>. QED  BY <3>1 DEF FileInv, SharedIntact
    <2>2. CASE ~good
      <3>1. touched' = touched  BY <1>6, <2>2
      <3>. QED  BY <3>1 DEF FileInv, SharedIntact
    <2>. QED  BY <2>1, <2>2
  <1>15. spoiled' \in BOOLEAN /\ (spoiled => spoiled') /\ (mode = "t" /\ ~good => spoiled')  BY <1>6, Here
  <1>16. logical' \in [n : Nat, v : Nat] /\ (trunc => logical'.v = 0) /\ (~trunc => logical' = logical)
    BY <1>6 DEF FileInv, Kinds
  <1>17. "idle" \in Pcs /\ Gone("idle", loc[t]) = NoLoc  BY DEF Pcs, Gone
  <1>18. trunc \/ Ends(t, "idle", NoLoc)
    BY <1>8, <1>15 DEF Ends, Cutting, Ended
  <1>19. Data'
    <2>1. CASE trunc
      <3>1. srv'.file[Pv] = 1 /\ srv'.data = s.data  BY <1>7, <1>8, <1>10, <1>12, <2>1 DEF Quiet
      <3>2. srv'.data[<<Pv, 1>>] = logical'.v  BY <1>10, <1>16, <2>1, <3>1
      <3>3. srv'.data[<<Sh, 1>>] = srv.data[<<Sh, 1>>] /\ srv'.data[<<Sh, 2>>] = srv.data[<<Sh, 2>>]
        BY <1>4, <1>10, <3>1 DEF Quiet
      <3>4. Data  BY Here
      <3>5. \A u \in Threads : Ended(pc'[u], loc'[u]) => spoiled'
        BY <1>1, <1>15, <1>17, <3>4, Here, GotoTo DEF Data, Ended
      <3>. QED  BY <3>1, <3>2, <3>3, <3>4, <3>5, DataFilled
    <2>2. CASE ~trunc
      <3>1. Quiet(srv, srv')  BY <1>4, <1>10, <1>12, <2>2 DEF Quiet
      <3>. QED  BY <1>1, <1>15, <1>16, <1>17, <1>18, <2>2, <3>1, Here, DataQuiet
    <2>. QED  BY <2>1, <2>2
  <1>20. Local("idle", NoLoc, open[t], CredOf[t], work)
    <2>1. open[t] # "none" => "open" \in work.ops  BY Here DEF Local
    <2>. QED  BY <2>1, IdleLocal
  <1>21. ~Changed("idle", NoLoc) /\ SameUser(t, "idle", NoLoc)  BY <1>1 DEF Changed, SameUser, User
  <1>. QED  BY <1>1, <1>3, <1>13, <1>14, <1>15, <1>16, <1>17, <1>19, <1>20, <1>21, Acts

\* The cleartext was opened once more.
LEMMA OpenedMn ==
  ASSUME NEW x, NEW y, Good(x, y), x.rv # Null, NEW k \in {0, 1}
  PROVE  LET n == [x EXCEPT !.cop[x.rv] = @ + 1, !.open = @ + 1, !.wopen = @ + k]
         IN  /\ Good(n, y) /\ n.rv = x.rv /\ n.nm = x.nm /\ n.ro = x.ro /\ n.ref = x.ref /\ n.leaked = x.leaked
             /\ n.open = x.open + 1 /\ n.wopen = x.wopen + k
             /\ n.gen = x.gen /\ n.fetched = x.fetched /\ n.live = x.live
             /\ \A v \in Vnodes : n.cop[v] = x.cop[v] + (IF v = x.rv THEN 1 ELSE 0)
  <1>. DEFINE r == x.rv
              c == [x.cop EXCEPT ![r] = @ + 1]
              i == x.open + 1
              j == x.wopen + k
              n == [x EXCEPT !.cop = c, !.open = i, !.wopen = j]
  <1>1. x \in MnType  BY DEF Good, Mn
  <1>2. r \in Vnodes  BY <1>1 DEF MnType
  <1>3. c \in [Vnodes -> Nat] /\ i \in Nat /\ i > 0 /\ j \in Nat  BY <1>1, <1>2 DEF MnType
  <1>4. \A v \in Vnodes : c[v] = x.cop[v] + (IF v = r THEN 1 ELSE 0)  BY <1>1, <1>2 DEF MnType
  <1>5. [x EXCEPT !.cop[x.rv] = @ + 1, !.open = @ + 1, !.wopen = @ + k] = n  BY <1>1 DEF MnType
  <1>. HIDE DEF c, i, j
  <1>6. n \in MnType  BY <1>1, <1>3 DEF MnType
  <1>7. /\ n.rv = r /\ n.nm = x.nm /\ n.ro = x.ro /\ n.ref = x.ref /\ n.leaked = x.leaked
        /\ n.open = i /\ n.wopen = j /\ n.cop = c /\ n.creds = x.creds
        /\ n.gen = x.gen /\ n.fetched = x.fetched /\ n.live = x.live /\ n.pnm = x.pnm /\ n.pcvp = x.pcvp
    BY <1>1 DEF MnType
  <1>. HIDE DEF n
  <1>8. Good(n, y)  BY <1>3, <1>6, <1>7 DEF Good, Mn, Marked
  <1>. QED  BY <1>4, <1>5, <1>7, <1>8 DEF i, j

\* The file is open once more, of the thread and of the cleartext alike.
LEMMA OpensMore ==
  ASSUME OpensPaired, open \in [Threads -> Modes \cup {"none"}], NEW t \in Threads, open[t] = "none",
         NEW mode \in Modes, open' = [open EXCEPT ![t] = mode],
         NEW x, Opens(mn, x), x.rv # Null, x.rv \in Vnodes,
         mn'.rv = x.rv, mn'.open = x.open + 1, mn'.wopen = x.wopen + (IF Writes(mode) THEN 1 ELSE 0),
         \A v \in Vnodes : mn'.cop[v] = x.cop[v] + (IF v = x.rv THEN 1 ELSE 0),
         mn'.wopen > 0 => ~mn'.ro
  PROVE  OpensPaired'
  <1>. DEFINE A == {u \in Threads : open[u] # "none"}
              B == {u \in Threads : open[u] \in {"w", "t"}}
  <1>1. IsFiniteSet(A) /\ IsFiniteSet(B)  BY FS_Subset, FileAssumption DEF FileAssumption
  <1>2. t \notin A /\ t \notin B  OBVIOUS
  <1>3. {u \in Threads : open'[u] # "none"} = A \cup {t}  BY DEF Modes
  <1>4. {u \in Threads : open'[u] \in {"w", "t"}} = IF Writes(mode) THEN B \cup {t} ELSE B
    BY DEF Modes, Writes
  <1>5. mn.open = Cardinality(A) /\ mn.wopen = Cardinality(B)  BY DEF OpensPaired
  <1>. HIDE DEF A, B
  <1>6. Cardinality(A \cup {t}) = Cardinality(A) + 1 /\ Cardinality(B \cup {t}) = Cardinality(B) + 1
    BY <1>1, <1>2, FS_AddElement
  <1>7. Cardinality(B) \in Nat  BY <1>1, FS_CardinalityType
  <1>8. mn'.open = Cardinality({u \in Threads : open'[u] # "none"})  BY <1>3, <1>5, <1>6 DEF Opens
  <1>9. mn'.wopen = Cardinality({u \in Threads : open'[u] \in {"w", "t"}})
    <2>. DEFINE C == {u \in Threads : open'[u] \in {"w", "t"}}
    <2>. HIDE DEF C
    <2>1. C = IF Writes(mode) THEN B \cup {t} ELSE B  BY <1>4 DEF C
    <2>2. mn'.wopen = Cardinality(B) + (IF Writes(mode) THEN 1 ELSE 0)  BY <1>5 DEF Opens
    <2>3. CASE Writes(mode)
      <3>1. C = B \cup {t}  BY <2>1, <2>3
      <3>2. mn'.wopen = Cardinality(C)  BY <1>6, <2>2, <2>3, <3>1
      <3>. QED  BY <3>2 DEF C
    <2>4. CASE ~Writes(mode)
      <3>1. C = B  BY <2>1, <2>4
      <3>2. mn'.wopen = Cardinality(C)  BY <1>7, <2>2, <2>4, <3>1
      <3>. QED  BY <3>2 DEF C
    <2>. QED  BY <2>3, <2>4
  <1>10. mn.open \in Nat  BY WopenLe
  <1>11. \A v \in Vnodes : mn'.cop[v] = IF mn'.rv = v THEN mn'.open ELSE 0
    <2>1. \A v \in Vnodes : mn.cop[v] = IF mn.rv = v THEN mn.open ELSE 0  BY DEF OpensPaired
    <2>2. x.cop = mn.cop /\ x.open = mn.open /\ (mn.open > 0 => x.rv = mn.rv)  BY DEF Opens
    <2>. QED  BY <1>10, <2>1, <2>2
  <1>. QED  BY <1>8, <1>9, <1>11 DEF OpensPaired

\* An open of the file for writing finds the private cleartext.
LEMMA OpenPrivate ==
  ASSUME FileInv, NEW t \in Threads, pc[t] = "opened", NEW m, NEW s, Step(mn, srv, m, s), m.rv # Null
  PROVE  /\ Writes(loc[t].mode) => m.rv = <<Pv, 1>> /\ ~m.ro
         /\ mn.wopen > 0 => ~m.ro
  <1>1. /\ m.rv \in Vnodes /\ m.nm = m.rv[1] /\ (m.nm # Null => (m.ro <=> m.nm = Sh))
    BY DEF Step, Good, Mn, MnType
  <1>2. m.nm \in Cts /\ m.nm # Null  BY <1>1, Facts DEF Cts
  <1>3. Writes(loc[t].mode) => m.rv = <<Pv, 1>> /\ ~m.ro
    <2>1. ASSUME Writes(loc[t].mode) PROVE m.nm # Sh
      <3>1. Private  BY <2>1 DEF FileInv, Copied, Changed
      <3>. QED  BY <3>1 DEF Private, Step
    <2>. QED  BY <1>1, <1>2, <2>1, Facts DEF Cts
  <1>4. mn.wopen > 0 => ~m.ro
    <2>1. ASSUME mn.wopen > 0 PROVE ~m.ro
      <3>1. mn.open > 0 /\ ~mn.ro
        <4>1. mn.open \in Nat /\ mn.wopen \in Nat /\ mn.wopen <= mn.open  BY WopenLe DEF FileInv
        <4>. QED  BY <2>1, <4>1 DEF FileInv, OpensPaired
      <3>2. m.nm = mn.nm  BY <3>1 DEF Step, Moves
      <3>3. mn.nm # Sh  BY <1>2, <3>1, <3>2, Here DEF Good, Mn
      <3>. QED  BY <1>1, <1>2, <3>2, <3>3
    <2>. QED  BY <2>1
  <1>. QED  BY <1>3, <1>4

\* What becomes of the open, by how it went
OpenCases(t, o) ==
  /\ mn' = (IF o.err = "ok" THEN [o.mn EXCEPT !.unsynced = @ \/ Writes(loc[t].mode)] ELSE ClearError(o.mn))
  /\ srv' = o.srv
  /\ open' = IF o.err = "ok" THEN [open EXCEPT ![t] = loc[t].mode] ELSE open
  /\ touched' = IF o.err = "ok" /\ loc[t].mode = "t" THEN touched \cup {o.mn.rv} ELSE touched
  /\ logical' = IF o.err = "ok" /\ loc[t].mode = "t" THEN [logical EXCEPT !.v = 0] ELSE logical
  /\ spoiled' = (spoiled \/ (o.err # "ok" /\ loc[t].mode = "t"))

\* The file is open.
LEMMA OpenOkInv ==
  ASSUME FileInv, NEW t \in Threads, pc[t] = "opened", Goto(t, "idle", loc[t]), NEW o, OpenCases(t, o), o.err = "ok",
         attrgen' = attrgen, thr' = thr,
         NEW x, NEW y, Step(mn, srv, x, y), Quiet(srv, y), OpenedFrom(x, y, loc[t].mode, o)
  PROVE  FileInv'
  <1>. DEFINE mode == loc[t].mode
              k == IF Writes(mode) THEN 1 ELSE 0
              n == [x EXCEPT !.cop[x.rv] = @ + 1, !.open = @ + 1, !.wopen = @ + k]
              w == Writes(mode)
              b == n.unsynced \/ w
              cut == mode = "t"
  <1>1. /\ mn' = [o.mn EXCEPT !.unsynced = @ \/ Writes(mode)] /\ srv' = o.srv /\ open' = [open EXCEPT ![t] = mode]
        /\ touched' = IF mode = "t" THEN touched \cup {o.mn.rv} ELSE touched
        /\ logical' = IF mode = "t" THEN [logical EXCEPT !.v = 0] ELSE logical
        /\ spoiled' = (spoiled \/ FALSE)
    BY DEF OpenCases
  <1>2. x.rv # Null /\ o.mn = n /\ o.srv = IF mode = "t" THEN [y EXCEPT !.data[x.rv] = 0] ELSE y
    BY DEF OpenedFrom
  <1>3. Local("opened", loc[t], open[t], CredOf[t], work)  BY Here
  <1>4. mode \in Modes /\ loc[t].v = Null /\ open[t] = "none" /\ "open" \in work.ops  BY <1>3 DEF Local, Opening
  <1>5. Good(x, y) /\ Opens(mn, x) /\ Stamps(mn, x) /\ x.rv \in Vnodes /\ x \in MnType
    BY <1>2, MovesParts DEF Step, Good, Mn, MnType
  <1>6. k \in {0, 1} /\ w \in BOOLEAN /\ (cut => w)  BY DEF Writes
  <1>7. /\ w => x.rv = <<Pv, 1>> /\ ~x.ro
        /\ mn.wopen > 0 => ~x.ro
    BY <1>2, OpenPrivate
  <1>. HIDE DEF k
  <1>8. /\ Good(n, y) /\ n.rv = x.rv /\ n.nm = x.nm /\ n.ro = x.ro /\ n.ref = x.ref /\ n.leaked = x.leaked
        /\ n.open = x.open + 1 /\ n.wopen = x.wopen + k
        /\ n.gen = x.gen /\ n.fetched = x.fetched /\ n.live = x.live
        /\ \A v \in Vnodes : n.cop[v] = x.cop[v] + (IF v = x.rv THEN 1 ELSE 0)
    BY <1>2, <1>5, <1>6, OpenedMn
  <1>. HIDE DEF n, w
  <1>9. n \in MnType /\ b \in BOOLEAN /\ mn' = [n EXCEPT !.unsynced = b]
    <2>1. n \in MnType  BY <1>8 DEF Good, Mn
    <2>. QED  BY <1>1, <1>2, <1>6, <2>1 DEF MnType, w
  <1>. HIDE DEF b
  <1>10. mn' \in MnType /\ Same(n, mn')  BY <1>9, FlagType
  <1>11. Good(mn', y)
    <2>1. Step(n, y, mn', y)  BY <1>8, <1>10, SameStep
    <2>. QED  BY <2>1 DEF Step
  <1>. HIDE DEF cut
  <1>12. /\ srv' = (IF cut THEN Filled(y, 0) ELSE y)
         /\ touched' = (IF cut THEN touched \cup {<<Pv, 1>>} ELSE touched)
    BY <1>1, <1>2, <1>6, <1>7, <1>8 DEF Filled, cut
  <1>13. /\ cut => logical' = [logical EXCEPT !.v = 0]
         /\ ~cut => logical' = logical
    BY <1>1 DEF cut
  <1>14. /\ Step(mn', y, mn', srv') /\ srv'.file = y.file
         /\ srv'.data[<<Sh, 1>>] = y.data[<<Sh, 1>>] /\ srv'.data[<<Sh, 2>>] = y.data[<<Sh, 2>>]
         /\ cut => srv'.data[<<Pv, 1>>] = 0
         /\ ~cut => srv' = y
    BY <1>11, <1>12, FillStep, SelfStep
  <1>15. /\ mn'.rv = x.rv /\ mn'.nm = x.nm /\ mn'.ro = x.ro /\ mn'.ref = x.ref /\ mn'.leaked = x.leaked
         /\ mn'.open = x.open + 1 /\ mn'.wopen = x.wopen + k
         /\ mn'.gen = x.gen /\ mn'.fetched = x.fetched /\ mn'.live = x.live
         /\ \A v \in Vnodes : mn'.cop[v] = x.cop[v] + (IF v = x.rv THEN 1 ELSE 0)
    BY <1>8, <1>10 DEF Same
  <1>16. Good(mn', srv') /\ Stamps(mn, mn')  BY <1>5, <1>14, <1>15 DEF Step, Stamps
  <1>17. Serves(srv, srv') /\ (Private => Private')
    <2>1. Serves(srv, y) /\ Serves(y, srv')  BY <1>14 DEF Step
    <2>2. Serves(srv, srv')  BY <2>1 DEF Serves
    <2>3. srv.ct = Pv /\ mn.nm # Sh => x.nm # Sh  BY DEF Step
    <2>. QED  BY <1>15, <2>2, <2>3 DEF Private, Serves
  <1>18. "idle" \in Pcs /\ Gone("idle", loc[t]) = NoLoc  BY DEF Pcs, Gone
  <1>19. /\ open \in [Threads -> Modes \cup {"none"}] /\ open' \in [Threads -> Modes \cup {"none"}]
         /\ open'[t] = mode /\ \A u \in Threads \ {t} : open'[u] = open[u]
    BY <1>1, <1>4 DEF FileInv, Kinds
  <1>20. logical' \in [n : Nat, v : Nat] /\ (cut => logical'.v = 0) /\ spoiled' = spoiled /\ spoiled' \in BOOLEAN
    BY <1>1, <1>13 DEF FileInv, Kinds
  <1>21. Local("idle", NoLoc, open'[t], CredOf[t], work)  BY <1>4, IdleLocal
  <1>22. RefsHeld'
    <2>1. mn \in MnType  BY Here DEF Good, Mn
    <2>2. ASSUME NEW v \in Vnodes
          PROVE  Balance(mn', "idle", NoLoc, v) = Balance(mn, pc[t], loc[t], v)
      <3>1. Uses("idle", NoLoc, v) = 0 /\ Uses(pc[t], loc[t], v) = 0  BY DEF Uses, User
      <3>2. x.ref[v] - Holds(x, v) = mn.ref[v] - Holds(mn, v) /\ x.leaked = mn.leaked  BY DEF Step, Moves
      <3>3. Holds(mn', v) = Holds(x, v)  BY <1>15 DEF Holds
      <3>. QED  BY <1>15, <3>1, <3>2, <3>3 DEF Balance
    <2>. QED  BY <1>10, <1>18, <2>1, <2>2, RefsMoved DEF FileInv
  <1>23. OpensPaired'
    <2>1. mn'.wopen > 0 => ~mn'.ro
      <3>1. CASE w  BY <1>7, <1>15, <3>1
      <3>2. CASE ~w
        <4>1. k = 0 /\ x.wopen = mn.wopen /\ x.wopen \in Nat  BY <1>5, <3>2 DEF k, w, Opens, MnType
        <4>. QED  BY <1>7, <1>15, <4>1
      <3>. QED  BY <3>1, <3>2
    <2>2. OpensPaired /\ x.rv # Null /\ open' = [open EXCEPT ![t] = mode]  BY <1>1, <1>2 DEF FileInv
    <2>3. mn'.wopen = x.wopen + (IF Writes(mode) THEN 1 ELSE 0) /\ mode \in Modes  BY <1>4, <1>15 DEF k
    <2>. HIDE DEF mode
    <2>. QED  BY <1>4, <1>5, <1>15, <1>19, <2>1, <2>2, <2>3, OpensMore
  <1>24. SharedIntact'  BY <1>12 DEF FileInv, SharedIntact
  <1>25. Data'
    <2>1. ~Ended(pc[t], loc[t]) /\ \A u \in Threads : Ended(pc'[u], loc'[u]) => spoiled'
      <3>1. Data  BY Here
      <3>2. \A u \in Threads : Ended(pc'[u], loc'[u]) => pc'[u] = pc[u] /\ loc'[u] = loc[u]
        BY <1>18, Here, GotoTo DEF Ended
      <3>. QED  BY <1>20, <3>1, <3>2 DEF Data, Ended
    <2>2. CASE cut
      <3>1. srv'.file[Pv] = 1  BY <1>5, <1>6, <1>7, <1>14, <2>2 DEF Good
      <3>2. srv'.data[<<Pv, 1>>] = logical'.v  BY <1>14, <1>20, <2>2
      <3>3. srv'.data[<<Sh, 1>>] = srv.data[<<Sh, 1>>] /\ srv'.data[<<Sh, 2>>] = srv.data[<<Sh, 2>>]
        BY <1>14 DEF Quiet
      <3>4. Data  BY Here
      <3>. QED  BY <2>1, <3>1, <3>2, <3>3, <3>4, DataFilled
    <2>3. CASE ~cut
      <3>1. Quiet(srv, srv')  BY <1>14, <2>3
      <3>2. logical' = logical  BY <1>13, <2>3
      <3>3. Ends(t, "idle", NoLoc)  BY <2>3 DEF Ends, Cutting, Ended, cut
      <3>. QED  BY <1>18, <1>20, <3>1, <3>2, <3>3, Here, DataQuiet
    <2>. QED  BY <2>2, <2>3
  <1>26. ~Changed("idle", NoLoc) /\ pc[t] # "marked"  BY DEF Changed
  <1>. QED  BY <1>16, <1>17, <1>18, <1>19, <1>20, <1>21, <1>22, <1>23, <1>24, <1>25, <1>26, Whole

LEMMA OpenCltxtInv ==
  ASSUME FileInv, NEW t \in Threads, OpenCltxt(t)
  PROVE  FileInv'
  <1>1. /\ pc[t] = "opened" /\ \E o \in OpenVp(t) : OpenCases(t, o)
        /\ Goto(t, "idle", loc[t]) /\ UNCHANGED <<attrgen, thr, recorded>>
    BY Zenon DEF OpenCltxt, OpenCases
  <1>2. PICK o \in OpenVp(t) : OpenCases(t, o)  BY <1>1
  <1>3. attrgen' = attrgen /\ thr' = thr  BY <1>1
  <1>4. OpenOut(mn, srv, loc[t].mode, o)  BY Here, OpenVpStep
  <1>5. CASE o.err # "ok"
    <2>1. Step(mn, srv, o.mn, o.srv) /\ Quiet(srv, o.srv) /\ Good(o.mn, o.srv)  BY <1>4, <1>5 DEF OpenOut, Step
    <2>2. /\ mn' = MarkNamePurge(o.mn) /\ srv' = o.srv /\ open' = open /\ touched' = touched /\ logical' = logical
          /\ spoiled' = (spoiled \/ loc[t].mode = "t")
      BY <1>2, <1>5 DEF OpenCases, ClearError
    <2>3. Step(o.mn, o.srv, mn', srv')  BY <2>1, <2>2, PurgeStep
    <2>4. Step(mn, srv, mn', srv') /\ Quiet(srv, srv')  BY <2>1, <2>2, <2>3, Here, StepTrans
    <2>5. \A v \in Vnodes : ~User(pc[t], loc[t], v)  BY <1>1, NoUser
    <2>6. spoiled' \in BOOLEAN /\ (spoiled => spoiled') /\ (Cutting(pc[t], loc[t]) => spoiled')
      BY <2>2, Here DEF Cutting
    <2>. QED  BY <1>1, <1>3, <2>2, <2>4, <2>5, <2>6, ToIdle
  <1>6. CASE o.err = "ok"
    <2>1. PICK x, y : Step(mn, srv, x, y) /\ Quiet(srv, y) /\ OpenedFrom(x, y, loc[t].mode, o)
      BY <1>4, <1>6 DEF OpenOut
    <2>. QED  BY <1>1, <1>2, <1>3, <1>6, <2>1, OpenOkInv
  <1>. QED  BY <1>5, <1>6

-----------------------------------------------------------------------------
(* Steps that leave the control of every thread as it was.                 *)

LEMMA MarksStill ==
  ASSUME Kinds, Marks, pc' = pc, work' = work, attrgen' = attrgen, thr' = thr, Stamps(mn, mn')
  PROVE  Marks'
  <1>0. attrgen \in Nat /\ Word(attrgen) \in Nat  BY WordNat DEF Kinds
  <1>1. \A u \in Threads : thr[u].mark \in Nat  BY DEF Kinds
  <1>2. mn'.fetched <= attrgen  BY <1>0 DEF Marks, Stamps
  <1>3. mn'.live => mn'.gen = Word(mn'.fetched) /\
          \A x \in mn'.fetched .. attrgen : Word(x) = Word(mn'.fetched) + (x - mn'.fetched)
    <2>1. CASE mn'.gen = mn.gen /\ mn'.fetched = mn.fetched /\ mn'.live = mn.live  BY <2>1 DEF Marks
    <2>2. CASE mn'.gen = Word(attrgen) /\ mn'.fetched = attrgen
      <3>1. \A x \in attrgen .. attrgen : x = attrgen  BY <1>0
      <3>. QED  BY <1>0, <2>2, <3>1
    <2>. QED  BY <2>1, <2>2 DEF Stamps
  <1>4. ASSUME NEW u \in Threads
        PROVE  pc[u] = "use" => mn'.fetched >= thr[u].mark
    <2>1. thr[u].mark <= attrgen /\ (pc[u] = "use" => mn.fetched >= thr[u].mark)  BY DEF Marks
    <2>2. mn'.fetched = mn.fetched \/ mn'.fetched = attrgen  BY DEF Stamps
    <2>. QED  BY <1>0, <1>1, <2>1, <2>2
  <1>. HIDE DEF Word
  <1>. QED  BY <1>2, <1>3, <1>4 DEF Marks

LEMMA RefsStill ==
  ASSUME RefsHeld, pc' = pc, loc' = loc, mn \in MnType, mn' \in MnType, mn'.leaked = mn.leaked,
         \A v \in Vnodes : mn'.ref[v] - Holds(mn', v) = mn.ref[v] - Holds(mn, v)
  PROVE  RefsHeld'
  <1>1. SUFFICES ASSUME NEW v \in Vnodes
                 PROVE  mn'.ref[v] = (IF mn'.rv = v THEN 1 ELSE 0) + Cardinality(Users(v)) + mn'.leaked[v]
    BY DEF RefsHeld, Users
  <1>2. mn'.ref[v] - Holds(mn', v) = mn.ref[v] - Holds(mn, v) /\ mn'.leaked = mn.leaked  OBVIOUS
  <1>3. mn.ref[v] = Holds(mn, v) + Cardinality(Users(v)) + mn.leaked[v]  BY DEF RefsHeld, Holds
  <1>5. mn.ref[v] \in Nat /\ mn'.ref[v] \in Nat /\ mn.leaked[v] \in Nat  BY DEF MnType
  <1>. DEFINE k == Cardinality(Users(v))
  <1>6. Users(v) \subseteq Threads /\ IsFiniteSet(Threads)  BY FileAssumption DEF FileAssumption, Users
  <1>7. k \in Nat  BY <1>6, FS_Subset, FS_CardinalityType
  <1>. HIDE DEF k
  <1>8. mn'.ref[v] = Holds(mn', v) + k + mn'.leaked[v]  BY <1>2, <1>3, <1>5, <1>7 DEF Holds, k
  <1>. QED  BY <1>8 DEF Holds, k

\* A step around the threads: it opens nothing and keeps every reference.
LEMMA Aside ==
  ASSUME FileInv, pc' = pc, loc' = loc, work' = work, attrgen' = attrgen, thr' = thr, open' = open,
         logical' = logical, spoiled' = spoiled, touched' = touched,
         Good(mn', srv'), srv'.cow => srv'.ct = Pv, Private => Private', Opens(mn, mn'), mn'.leaked = mn.leaked,
         \A v \in Vnodes : mn'.ref[v] - Holds(mn', v) = mn.ref[v] - Holds(mn, v),
         Data', Marks'
  PROVE  FileInv'
  <1>1. Good(mn, srv) /\ mn \in MnType /\ mn' \in MnType  BY DEF FileInv, Good, Mn
  <1>2. RefsHeld'  BY <1>1, RefsStill DEF FileInv
  <1>3. OpensPaired'  BY <1>1, OpensKept DEF FileInv
  <1>4. SharedIntact'  BY DEF FileInv, SharedIntact
  <1>5. /\ open' \in [Threads -> Modes \cup {"none"}] /\ logical' \in [n : Nat, v : Nat] /\ spoiled' \in BOOLEAN
        /\ \A u \in Threads : Local(pc[u], loc[u], open'[u], CredOf[u], work)
    BY DEF FileInv, Kinds, Locals
  <1>. QED  BY <1>2, <1>3, <1>4, <1>5, Still

LEMMA DataStill ==
  ASSUME Data, pc' = pc, loc' = loc, logical' = logical, spoiled' = spoiled, Quiet(srv, srv')
  PROVE  Data'
  BY DEF Data, Quiet

\* A step around the threads that does to the mnode what a call does
LEMMA AsideStep ==
  ASSUME FileInv, pc' = pc, loc' = loc, work' = work, attrgen' = attrgen, thr' = thr, open' = open,
         logical' = logical, spoiled' = spoiled, touched' = touched, Step(mn, srv, mn', srv'), Data'
  PROVE  FileInv'
  <1>1. /\ Good(mn', srv') /\ Opens(mn, mn') /\ Stamps(mn, mn') /\ mn'.leaked = mn.leaked
        /\ \A v \in Vnodes : mn'.ref[v] - Holds(mn', v) = mn.ref[v] - Holds(mn, v)
    BY MovesParts DEF Step, Moves
  <1>2. srv'.cow => srv'.ct = Pv  BY DEF FileInv, Step, Serves
  <1>3. Private => Private'  BY PrivateKept
  <1>4. Marks'  BY <1>1, MarksStill DEF FileInv
  <1>. QED  BY <1>1, <1>2, <1>3, <1>4, Aside

\* The scrubber removes a shared cleartext.
LEMMA ScrubInv ==
  ASSUME FileInv, Scrub
  PROVE  FileInv'
  <1>1. srv' = [srv EXCEPT !.file[Sh] = 0] /\ UNCHANGED <<mn, attrgen, thr, open, pc, loc, recorded, logical, spoiled, touched, work>>
    BY DEF Scrub, Env
  <1>2. Good(mn, srv) /\ Data /\ srv \in SrvType  BY DEF FileInv, Good, Srv
  <1>. DEFINE f == [srv.file EXCEPT ![Sh] = 0]
  <1>3. f \in [Cts -> 0 .. 2] /\ f[Pv] = srv.file[Pv] /\ srv' = [srv EXCEPT !.file = f]
    BY <1>1, <1>2, Facts DEF SrvType, Cts
  <1>. HIDE DEF f
  <1>4. srv' \in SrvType /\ srv'.ct = srv.ct /\ srv'.cow = srv.cow /\ srv'.file = f /\ srv'.data = srv.data
    BY <1>2, <1>3 DEF SrvType
  <1>5. Srv(srv') /\ Serves(srv, srv') /\ Quiet(srv, srv')  BY <1>2, <1>3, <1>4 DEF Good, Srv, Serves, Quiet
  <1>6. Step(mn, srv, mn, srv')  BY <1>2, <1>5, ServeStep
  <1>7. Data'  BY <1>1, <1>2, <1>5, DataStill
  <1>. QED  BY <1>1, <1>6, <1>7, AsideStep

\* The element is protected.
LEMMA ProtectInv ==
  ASSUME FileInv, Protect
  PROVE  FileInv'
  <1>1. srv' = [srv EXCEPT !.ev = 1] /\ UNCHANGED <<mn, attrgen, thr, open, pc, loc, recorded, logical, spoiled, touched, work>>
    BY DEF Protect, Env
  <1>2. Good(mn, srv) /\ Data /\ srv \in SrvType  BY DEF FileInv, Good, Srv
  <1>4. /\ srv' \in SrvType /\ srv'.ct = srv.ct /\ srv'.cow = srv.cow /\ srv'.file = srv.file
        /\ srv'.data = srv.data
    BY <1>1, <1>2 DEF SrvType
  <1>5. Srv(srv') /\ Serves(srv, srv') /\ Quiet(srv, srv')  BY <1>2, <1>4 DEF Good, Srv, Serves, Quiet
  <1>6. Step(mn, srv, mn, srv')  BY <1>2, <1>5, ServeStep
  <1>7. Data'  BY <1>1, <1>2, <1>5, DataStill
  <1>. QED  BY <1>1, <1>6, <1>7, AsideStep

\* Another host copies the object: the view is told first.
LEMMA OtherChoidInv ==
  ASSUME FileInv, OtherChoid
  PROVE  FileInv'
  <1>1. /\ srv' = [srv EXCEPT !.ct = Pv, !.oid = @ + 1, !.aud = FALSE, !.cow = TRUE]
        /\ UNCHANGED <<mn, attrgen, thr, open, pc, loc, recorded, logical, spoiled, touched, work>>
    BY DEF OtherChoid, Env
  <1>2. Good(mn, srv) /\ Data /\ srv \in SrvType /\ mn \in MnType  BY DEF FileInv, Good, Srv, Mn
  <1>3. srv.oid + 1 \in Nat /\ Pv \in Cts  BY <1>2 DEF SrvType, Cts
  <1>4. srv' \in SrvType /\ srv'.ct = Pv /\ srv'.cow /\ srv'.file = srv.file /\ srv'.data = srv.data
    BY <1>1, <1>2, <1>3 DEF SrvType
  <1>5. Good(mn', srv') /\ Quiet(srv, srv')  BY <1>1, <1>2, <1>4 DEF Good, Srv, Quiet, Mn
  <1>6. Opens(mn, mn') /\ Stamps(mn, mn') /\ (Private => Private')  BY <1>1, <1>4 DEF Opens, Stamps, Private
  <1>7. Data'  BY <1>1, <1>2, <1>5, DataStill
  <1>8. Marks'  BY <1>1, <1>6, MarksStill DEF FileInv
  <1>9. mn'.leaked = mn.leaked /\ \A v \in Vnodes : mn'.ref[v] - Holds(mn', v) = mn.ref[v] - Holds(mn, v)
    BY <1>1 DEF Holds
  <1>. QED  BY <1>1, <1>4, <1>5, <1>6, <1>7, <1>8, <1>9, Aside

\* Then it creates the private cleartext with the data of the object.
LEMMA OtherCreateInv ==
  ASSUME FileInv, OtherCreate
  PROVE  FileInv'
  <1>1. /\ srv.cow /\ srv' = IF srv.file[Pv] # 0 THEN [srv EXCEPT !.cow = FALSE]
                   ELSE [srv EXCEPT !.cow = FALSE, !.file[Pv] = 1, !.data[<<Pv, 1>>] = logical.v]
        /\ UNCHANGED <<mn, attrgen, thr, open, pc, loc, recorded, logical, spoiled, touched, work>>
    BY DEF OtherCreate, Env
  <1>2. /\ Good(mn, srv) /\ Data /\ srv \in SrvType /\ mn \in MnType /\ Srv(srv) /\ srv.ct = Pv
        /\ logical.v \in Nat /\ (mn.rv = <<Pv, 1>> => srv.file[Pv] = 1)
    BY <1>1 DEF FileInv, Kinds, Good, Srv, Mn
  <1>. DEFINE f == [srv.file EXCEPT ![Pv] = 1]
              d == [srv.data EXCEPT ![<<Pv, 1>>] = logical.v]
              new == srv.file[Pv] = 0
  <1>3. /\ f \in [Cts -> 0 .. 2] /\ f[Pv] = 1
        /\ d \in [Vnodes -> Nat] /\ d[<<Pv, 1>>] = logical.v
        /\ d[<<Sh, 1>>] = srv.data[<<Sh, 1>>] /\ d[<<Sh, 2>>] = srv.data[<<Sh, 2>>]
    BY <1>2, Facts DEF SrvType, Cts, Vnodes
  <1>4. srv' = IF new THEN [srv EXCEPT !.cow = FALSE, !.file = f, !.data = d] ELSE [srv EXCEPT !.cow = FALSE]
    BY <1>1, <1>2 DEF SrvType
  <1>. HIDE DEF f, d, new
  <1>5. /\ srv' \in SrvType /\ srv'.ct = Pv /\ ~srv'.cow
        /\ new => srv'.file = f /\ srv'.data = d
        /\ ~new => srv'.file = srv.file /\ srv'.data = srv.data
    BY <1>2, <1>3, <1>4 DEF SrvType
  <1>6. srv'.file[Pv] <= 1 /\ (srv.file[Pv] = 1 => srv'.file[Pv] = 1)
    BY <1>2, <1>3, <1>5 DEF Srv, new
  <1>7. Good(mn', srv')  BY <1>1, <1>2, <1>5, <1>6 DEF Good, Srv, Mn
  <1>8. Opens(mn, mn') /\ Stamps(mn, mn') /\ (Private => Private')  BY <1>1, <1>5 DEF Opens, Stamps, Private
  <1>9. Data'
    <2>1. CASE new
      <3>1. /\ srv'.file[Pv] = 1 /\ srv'.data[<<Pv, 1>>] = logical'.v
            /\ srv'.data[<<Sh, 1>>] = srv.data[<<Sh, 1>>] /\ srv'.data[<<Sh, 2>>] = srv.data[<<Sh, 2>>]
        BY <1>1, <1>3, <1>5, <2>1
      <3>2. \A u \in Threads : Ended(pc'[u], loc'[u]) => spoiled'  BY <1>1, <1>2 DEF Data
      <3>. QED  BY <1>2, <3>1, <3>2, DataFilled
    <2>2. CASE ~new
      <3>1. Quiet(srv, srv')  BY <1>5, <2>2 DEF Quiet
      <3>. QED  BY <1>1, <1>2, <3>1, DataStill
    <2>. QED  BY <2>1, <2>2
  <1>10. Marks'  BY <1>1, <1>8, MarksStill DEF FileInv
  <1>11. mn'.leaked = mn.leaked /\ \A v \in Vnodes : mn'.ref[v] - Holds(mn', v) = mn.ref[v] - Holds(mn, v)
    BY <1>1 DEF Holds
  <1>. QED  BY <1>1, <1>5, <1>7, <1>8, <1>9, <1>10, <1>11, Aside

\* The attributes and the validation of the cleartext time out.
LEMMA TimePassesInv ==
  ASSUME FileInv, TimePasses
  PROVE  FileInv'
  <1>1. /\ mn' = [mn EXCEPT !.live = FALSE, !.young = FALSE]
        /\ UNCHANGED <<srv, attrgen, thr, open, pc, loc, recorded, logical, spoiled, touched, work>>
    BY DEF TimePasses
  <1>2. Good(mn, srv) /\ Data /\ Marks /\ mn \in MnType  BY DEF FileInv, Good, Mn
  <1>3. mn' \in MnType  BY <1>1, <1>2 DEF MnType
  <1>4. /\ mn'.rv = mn.rv /\ mn'.nm = mn.nm /\ mn'.ro = mn.ro /\ mn'.open = mn.open /\ mn'.wopen = mn.wopen
        /\ mn'.ref = mn.ref /\ mn'.cop = mn.cop /\ mn'.leaked = mn.leaked /\ mn'.creds = mn.creds
        /\ mn'.pnm = mn.pnm /\ mn'.pcvp = mn.pcvp /\ mn'.fetched = mn.fetched /\ ~mn'.live
    BY <1>1, <1>2 DEF MnType
  <1>5. Good(mn', srv')  BY <1>1, <1>2, <1>3, <1>4 DEF Good, Mn, Marked
  <1>6. Opens(mn, mn') /\ (Private => Private')  BY <1>1, <1>4 DEF Opens, Private
  <1>7. Data'
    <2>1. Quiet(srv, srv')  BY <1>1 DEF Quiet
    <2>. QED  BY <1>1, <1>2, <2>1, DataStill
  <1>8. Marks'  BY <1>1, <1>2, <1>4 DEF Marks
  <1>9. \A v \in Vnodes : mn'.ref[v] - Holds(mn', v) = mn.ref[v] - Holds(mn, v)  BY <1>4 DEF Holds
  <1>10. srv'.cow => srv'.ct = Pv  BY <1>1 DEF FileInv
  <1>. QED  BY <1>1, <1>4, <1>5, <1>6, <1>7, <1>8, <1>9, <1>10, Aside

\* The vnode is inactive: the view learns of the changes and what is marked is let go.
LEMMA InactiveInv ==
  ASSUME FileInv, Inactive
  PROVE  FileInv'
  <1>. DEFINE a == [mn EXCEPT !.dirty = FALSE]
  <1>1. PICK o \in SyncAttr(a, srv) :
          /\ mn' = [ClearRele([o.mn EXCEPT !.cred = "none"]) EXCEPT !.unsynced = IF o.err = "ok" THEN FALSE ELSE @]
          /\ srv' = o.srv
    BY DEF Inactive
  <1>2. mn.open = 0 /\ UNCHANGED <<attrgen, thr, open, pc, loc, recorded, logical, spoiled, touched, work>>
    BY DEF Inactive
  <1>. DEFINE b == [o.mn EXCEPT !.cred = "none"]
              c == ClearRele(b)
              w == IF o.err = "ok" THEN FALSE ELSE c.unsynced
  <1>3. Good(mn, srv) /\ Data /\ mn \in MnType /\ attrgen \in Nat  BY DEF FileInv, Kinds, Good, Mn
  <1>4. mn' = [c EXCEPT !.unsynced = w]  BY <1>1
  <1>5. Step(mn, srv, a, srv) /\ Good(a, srv)  BY <1>3, FlagType, SameStep DEF Step
  <1>. HIDE DEF a
  <1>6. Step(a, srv, o.mn, o.srv) /\ Quiet(srv, o.srv) /\ o.mn \in MnType /\ Good(o.mn, o.srv)
    BY <1>3, <1>5, SyncAttrStep DEF Step, Good, Mn
  <1>7. Step(o.mn, o.srv, b, o.srv) /\ Good(b, o.srv)
    <2>1. b \in MnType /\ Same(o.mn, b)  BY <1>6, FlagType
    <2>. QED  BY <1>6, <2>1, SameStep DEF Step
  <1>8. b.open = 0  BY <1>2, <1>5, <1>6, <1>7 DEF Step, Moves
  <1>. HIDE DEF b
  <1>9. Step(b, o.srv, c, o.srv) /\ Good(c, o.srv) /\ c \in MnType
    BY <1>7, <1>8, ReleaseStep DEF Step, Good, Mn
  <1>. HIDE DEF c
  <1>10. w \in BOOLEAN  BY <1>9 DEF MnType
  <1>. HIDE DEF w
  <1>11. Step(c, o.srv, mn', o.srv)  BY <1>4, <1>9, <1>10, FlagType, SameStep
  <1>12. Step(mn, srv, b, o.srv)
    <2>1. Step(mn, srv, o.mn, o.srv)  BY <1>3, <1>5, <1>6, StepTrans
    <2>. QED  BY <1>3, <1>7, <2>1, StepTrans
  <1>13. Step(mn, srv, mn', srv')
    <2>1. Step(mn, srv, c, o.srv)  BY <1>3, <1>9, <1>12, StepTrans
    <2>. QED  BY <1>1, <1>3, <1>11, <2>1, StepTrans
  <1>14. Data'  BY <1>1, <1>2, <1>3, <1>6, DataStill
  <1>. QED  BY <1>2, <1>13, <1>14, AsideStep

-----------------------------------------------------------------------------
(* Close.                                                                  *)

\* What a close leaves: the file and its cleartext are open once less.
Closed(x, k, b) == [x EXCEPT !.open = @ - 1, !.wopen = @ - k, !.unsynced = b]
LEMMA ClosedMn ==
  ASSUME NEW x, NEW y, Good(x, y), NEW k \in Nat, NEW b \in BOOLEAN, x.open > 0, k <= x.wopen
  PROVE  LET n == Closed(x, k, b)
         IN  /\ Good(n, y) /\ n.rv = x.rv /\ n.nm = x.nm /\ n.ro = x.ro /\ n.ref = x.ref /\ n.leaked = x.leaked
             /\ n.open = x.open - 1 /\ n.wopen = x.wopen - k /\ n.cop = x.cop
             /\ n.gen = x.gen /\ n.fetched = x.fetched /\ n.live = x.live
  <1>. DEFINE i == x.open - 1
              j == x.wopen - k
              n == [x EXCEPT !.open = i, !.wopen = j, !.unsynced = b]
  <1>1. x \in MnType  BY DEF Good, Mn
  <1>2. i \in Nat /\ j \in Nat /\ (i > 0 => x.open > 0)  BY <1>1 DEF MnType
  <1>3. Closed(x, k, b) = n  BY DEF Closed
  <1>. HIDE DEF i, j
  <1>4. n \in MnType  BY <1>1, <1>2 DEF MnType
  <1>5. /\ n.rv = x.rv /\ n.nm = x.nm /\ n.ro = x.ro /\ n.ref = x.ref /\ n.leaked = x.leaked
        /\ n.open = i /\ n.wopen = j /\ n.cop = x.cop /\ n.creds = x.creds
        /\ n.gen = x.gen /\ n.fetched = x.fetched /\ n.live = x.live /\ n.pnm = x.pnm /\ n.pcvp = x.pcvp
    BY <1>1 DEF MnType
  <1>. HIDE DEF n
  <1>6. Good(n, y)  BY <1>2, <1>4, <1>5 DEF Good, Mn, Marked
  <1>. QED  BY <1>3, <1>5, <1>6 DEF i, j

\* The file is open once less, of the thread and of the cleartext alike.
LEMMA OpensLess ==
  ASSUME OpensPaired, open \in [Threads -> Modes \cup {"none"}], NEW t \in Threads, open[t] # "none",
         open' = [open EXCEPT ![t] = "none"],
         mn'.rv = mn.rv, mn'.open = mn.open - 1, mn'.wopen = mn.wopen - (IF Writes(open[t]) THEN 1 ELSE 0),
         \A v \in Vnodes : mn'.cop[v] = mn.cop[v] - (IF v = mn.rv THEN 1 ELSE 0),
         mn.wopen > 0 => ~mn'.ro
  PROVE  OpensPaired'
  <1>. DEFINE A == {u \in Threads : open[u] # "none"}
              B == {u \in Threads : open[u] \in {"w", "t"}}
              A1 == {u \in Threads : open'[u] # "none"}
              B1 == {u \in Threads : open'[u] \in {"w", "t"}}
              w == Writes(open[t])
  <1>1. IsFiniteSet(A) /\ IsFiniteSet(B)  BY FS_Subset, FileAssumption DEF FileAssumption
  <1>2. t \in A /\ (t \in B <=> w)  BY DEF Modes, Writes
  <1>3. A1 = A \ {t}  OBVIOUS
  <1>4. B1 = B \ {t}  OBVIOUS
  <1>5. mn.open = Cardinality(A) /\ mn.wopen = Cardinality(B)  BY DEF OpensPaired
  <1>5a. mn'.open = mn.open - 1 /\ mn'.wopen = mn.wopen - (IF w THEN 1 ELSE 0)  OBVIOUS
  <1>. HIDE DEF A, B, A1, B1, w
  <1>6. /\ Cardinality(A \ {t}) = Cardinality(A) - 1
        /\ Cardinality(B \ {t}) = IF t \in B THEN Cardinality(B) - 1 ELSE Cardinality(B)
    BY <1>1, <1>2, FS_RemoveElement
  <1>7. Cardinality(A) \in Nat /\ Cardinality(B) \in Nat  BY <1>1, FS_CardinalityType
  <1>8. mn'.open = Cardinality(A1)  BY <1>3, <1>5, <1>5a, <1>6
  <1>9. mn'.wopen = Cardinality(B1)  BY <1>2, <1>4, <1>5, <1>5a, <1>6, <1>7
  <1>10. mn.open \in Nat /\ mn.wopen \in Nat  BY <1>5, <1>7
  <1>11. \A v \in Vnodes : mn'.cop[v] = IF mn'.rv = v THEN mn'.open ELSE 0
    <2>1. \A v \in Vnodes : mn.cop[v] = IF mn.rv = v THEN mn.open ELSE 0  BY DEF OpensPaired
    <2>. QED  BY <1>10, <2>1
  <1>12. mn'.open > 0 => mn'.rv # Null  BY <1>5a, <1>10 DEF OpensPaired
  <1>13. mn'.wopen > 0 => ~mn'.ro  BY <1>5a, <1>10
  <1>. QED  BY <1>8, <1>9, <1>11, <1>12, <1>13 DEF OpensPaired, A1, B1

\* The cleartext is closed, and the view learns of the changes.
LEMMA CloseCltxtStep ==
  ASSUME FileInv, mn.rv # Null, mn.open > 0, NEW o \in CloseCltxt(mn, srv)
  PROVE  /\ Good(o.mn, o.srv) /\ Serves(srv, o.srv) /\ Quiet(srv, o.srv) /\ Stamps(mn, o.mn)
         /\ o.mn.rv = mn.rv /\ o.mn.nm = mn.nm /\ o.mn.open = mn.open /\ o.mn.wopen = mn.wopen
         /\ o.mn.leaked = mn.leaked
         /\ \A v \in Vnodes : /\ o.mn.ref[v] = mn.ref[v]
                              /\ o.mn.cop[v] = mn.cop[v] - (IF v = mn.rv THEN 1 ELSE 0)
  <1>. DEFINE r == mn.rv
              c == [mn.cop EXCEPT ![r] = @ - 1]
              m == [mn EXCEPT !.cop = c]
  <1>1. Good(mn, srv) /\ mn \in MnType /\ attrgen \in Nat /\ OpensPaired /\ r \in Vnodes
    BY DEF FileInv, Kinds, Good, Mn, MnType
  <1>2. c \in [Vnodes -> Nat] /\ \A v \in Vnodes : c[v] = mn.cop[v] - (IF v = r THEN 1 ELSE 0)
    <2>1. mn.cop[r] = mn.open /\ mn.open \in Nat /\ mn.cop \in [Vnodes -> Nat]  BY <1>1 DEF OpensPaired, MnType
    <2>. QED  BY <1>1, <2>1
  <1>3. [mn EXCEPT !.cop[mn.rv] = @ - 1] = m  BY <1>1 DEF MnType
  <1>. HIDE DEF c
  <1>4. m \in MnType  BY <1>1, <1>2 DEF MnType
  <1>5. /\ m.rv = mn.rv /\ m.nm = mn.nm /\ m.ro = mn.ro /\ m.ref = mn.ref /\ m.leaked = mn.leaked
        /\ m.open = mn.open /\ m.wopen = mn.wopen /\ m.cop = c /\ m.creds = mn.creds
        /\ m.gen = mn.gen /\ m.fetched = mn.fetched /\ m.live = mn.live /\ m.pnm = mn.pnm /\ m.pcvp = mn.pcvp
    BY <1>1 DEF MnType
  <1>. HIDE DEF m
  <1>6. Good(m, srv)  BY <1>1, <1>4, <1>5 DEF Good, Mn, Marked
  <1>7. \/ o.mn = MarkNamePurge(m) /\ o.srv = srv
        \/ o \in SyncAttr(m, srv)
    BY <1>3 DEF CloseCltxt, Err, Out, ClearError
  <1>8. Step(m, srv, o.mn, o.srv) /\ Quiet(srv, o.srv)
    <2>1. CASE o.mn = MarkNamePurge(m) /\ o.srv = srv  BY <1>6, <2>1, PurgeStep, SelfStep
    <2>2. CASE o \in SyncAttr(m, srv)  BY <1>1, <1>6, <2>2, SyncAttrStep
    <2>. QED  BY <1>7, <2>1, <2>2
  <1>9. Good(o.mn, o.srv) /\ Serves(srv, o.srv) /\ Opens(m, o.mn) /\ Stamps(m, o.mn) /\ o.mn.leaked = m.leaked
    BY <1>8, MovesParts DEF Step, Moves
  <1>10. o.mn.rv = m.rv /\ o.mn.nm = m.nm /\ o.mn.open = m.open /\ o.mn.wopen = m.wopen /\ o.mn.cop = c
    BY <1>5, <1>9 DEF Opens
  <1>11. Stamps(mn, o.mn)  BY <1>5, <1>9 DEF Stamps
  <1>12. ASSUME NEW v \in Vnodes PROVE o.mn.ref[v] = mn.ref[v]
    <2>1. o.mn.ref[v] - Holds(o.mn, v) = m.ref[v] - Holds(m, v)  BY <1>8 DEF Step, Moves
    <2>2. Holds(o.mn, v) = Holds(m, v) /\ Holds(m, v) \in {0, 1}  BY <1>10 DEF Holds
    <2>3. o.mn \in MnType  BY <1>9 DEF Good, Mn
    <2>4. o.mn.ref[v] \in Nat /\ m.ref[v] \in Nat  BY <1>4, <2>3 DEF MnType
    <2>. QED  BY <1>5, <2>1, <2>2, <2>4
  <1>. QED  BY <1>2, <1>5, <1>8, <1>9, <1>10, <1>11, <1>12

LEMMA CloseInv ==
  ASSUME FileInv, NEW t \in Threads, Close(t)
  PROVE  FileInv'
  <1>1. /\ open[t] # "none" /\ open' = [open EXCEPT ![t] = "none"]
        /\ UNCHANGED <<attrgen, thr, pc, loc, recorded, logical, spoiled, touched, work>>
    BY DEF Close
  <1>2. PICK o \in CloseCltxt(mn, srv) :
          /\ mn' = [o.mn EXCEPT !.open = @ - 1, !.wopen = @ - (IF Writes(open[t]) THEN 1 ELSE 0),
                                !.unsynced = IF o.err = "ok" THEN FALSE ELSE @]
          /\ srv' = o.srv
    BY DEF Close
  <1>3. /\ Good(mn, srv) /\ mn \in MnType /\ Kinds /\ OpensPaired /\ Data /\ Marks
        /\ open \in [Threads -> Modes \cup {"none"}]
    BY DEF FileInv, Good, Mn, Kinds
  <1>. DEFINE k == IF Writes(open[t]) THEN 1 ELSE 0
              A == {u \in Threads : open[u] # "none"}
              B == {u \in Threads : open[u] \in {"w", "t"}}
  <1>4. mn.open > 0 /\ k <= mn.wopen /\ k \in Nat
    <2>1. IsFiniteSet(A) /\ IsFiniteSet(B)  BY FS_Subset, FileAssumption DEF FileAssumption
    <2>2. t \in A /\ (Writes(open[t]) => t \in B)  BY <1>1, <1>3 DEF Modes, Writes
    <2>3. mn.open = Cardinality(A) /\ mn.wopen = Cardinality(B)  BY <1>3 DEF OpensPaired
    <2>. HIDE DEF A, B
    <2>4. Cardinality(A) \in Nat /\ Cardinality(B) \in Nat  BY <2>1, FS_CardinalityType
    <2>5. Cardinality(A) # 0 /\ (Writes(open[t]) => Cardinality(B) # 0)  BY <2>1, <2>2, FS_EmptySet
    <2>. QED  BY <2>3, <2>4, <2>5
  <1>. HIDE DEF A, B
  <1>5. mn.rv # Null  BY <1>3, <1>4 DEF OpensPaired
  <1>. DEFINE x == o.mn
              b == IF o.err = "ok" THEN FALSE ELSE x.unsynced
  <1>6. /\ Good(x, srv') /\ Serves(srv, srv') /\ Quiet(srv, srv') /\ Stamps(mn, x)
        /\ x.rv = mn.rv /\ x.nm = mn.nm /\ x.open = mn.open /\ x.wopen = mn.wopen
        /\ x.leaked = mn.leaked
        /\ \A v \in Vnodes : /\ x.ref[v] = mn.ref[v]
                             /\ x.cop[v] = mn.cop[v] - (IF v = mn.rv THEN 1 ELSE 0)
    BY <1>2, <1>4, <1>5, CloseCltxtStep
  <1>7. b \in BOOLEAN /\ mn' = Closed(x, k, b)
    <2>1. x \in MnType  BY <1>6 DEF Good, Mn
    <2>. QED  BY <1>2, <2>1 DEF MnType, Closed
  <1>. HIDE DEF x, b
  <1>8. /\ Good(mn', srv') /\ mn'.rv = x.rv /\ mn'.nm = x.nm /\ mn'.ro = x.ro /\ mn'.ref = x.ref
        /\ mn'.leaked = x.leaked /\ mn'.open = x.open - 1 /\ mn'.wopen = x.wopen - k /\ mn'.cop = x.cop
        /\ mn'.gen = x.gen /\ mn'.fetched = x.fetched /\ mn'.live = x.live
    <2>. HIDE DEF k
    <2>1. x.open > 0 /\ k <= x.wopen /\ k \in Nat  BY <1>4, <1>6
    <2>. QED  BY <1>6, <1>7, <2>1, ClosedMn
  <1>9. RefsHeld'
    <2>1. mn' \in MnType  BY <1>8 DEF Good, Mn
    <2>2. mn'.leaked = mn.leaked /\ \A v \in Vnodes : mn'.ref[v] - Holds(mn', v) = mn.ref[v] - Holds(mn, v)
      BY <1>6, <1>8 DEF Holds
    <2>. QED  BY <1>1, <1>3, <2>1, <2>2, RefsStill DEF FileInv
  <1>10. OpensPaired'
    <2>1. mn.wopen > 0 => ~mn'.ro
      <3>1. ASSUME mn.wopen > 0 PROVE ~mn'.ro
        <4>1. ~mn.ro  BY <1>3, <3>1 DEF OpensPaired
        <4>2. mn.nm \in Cts /\ mn.nm # Null
          <5>1. mn.rv \in Vnodes /\ mn.nm = mn.rv[1]  BY <1>3, <1>5 DEF Good, Mn, MnType
          <5>. QED  BY <5>1, Facts DEF Cts
        <4>3. mn.nm # Sh /\ mn'.nm = mn.nm  BY <1>3, <1>6, <1>8, <4>1, <4>2 DEF Good, Mn
        <4>. QED  BY <1>8, <4>2, <4>3 DEF Good, Mn
      <3>. QED  BY <3>1
    <2>2. /\ mn'.rv = mn.rv /\ mn'.open = mn.open - 1 /\ mn'.wopen = mn.wopen - k
          /\ \A v \in Vnodes : mn'.cop[v] = mn.cop[v] - (IF v = mn.rv THEN 1 ELSE 0)
      BY <1>6, <1>8
    <2>. QED  BY <1>1, <1>3, <2>1, <2>2, OpensLess
  <1>11. Private => Private'  BY <1>6, <1>8 DEF Private, Serves
  <1>12. /\ open' \in [Threads -> Modes \cup {"none"}] /\ logical' \in [n : Nat, v : Nat] /\ spoiled' \in BOOLEAN
         /\ srv'.cow => srv'.ct = Pv
    BY <1>1, <1>3, <1>6 DEF FileInv, Kinds, Serves
  <1>13. ASSUME NEW u \in Threads PROVE Local(pc[u], loc[u], open'[u], CredOf[u], work)
    <2>1. Local(pc[u], loc[u], open[u], CredOf[u], work)  BY Here
    <2>2. open'[u] = open[u] \/ open'[u] = "none"  BY <1>1, <1>3
    <2>. QED  BY <2>1, <2>2 DEF Local
  <1>14. SharedIntact'  BY <1>1 DEF FileInv, SharedIntact
  <1>15. Data'  BY <1>1, <1>3, <1>6, DataStill
  <1>16. Marks'
    <2>1. Stamps(mn, mn')  BY <1>6, <1>8 DEF Stamps
    <2>. QED  BY <1>1, <1>3, <2>1, MarksStill
  <1>. QED  BY <1>1, <1>8, <1>9, <1>10, <1>11, <1>12, <1>13, <1>14, <1>15, <1>16, Still

-----------------------------------------------------------------------------
(* Markers.                                                                *)

LEMMA Times ==
  ASSUME NEW m \in Nat, NEW d \in Nat, d >= 1
  PROVE  m * d >= m
  OBVIOUS

\* A remainder is unique.
LEMMA Remainder ==
  ASSUME NEW m \in Nat, m > 1, NEW q \in Int, NEW p \in Int, NEW r \in 0 .. (m - 1), NEW s \in 0 .. (m - 1),
         m * q + r = m * p + s
  PROVE  r = s
  <1>1. m * (q - p) = s - r /\ m * (p - q) = r - s  BY Z3
  <1>2. CASE q > p
    <2>1. q - p \in Nat /\ q - p >= 1  BY <1>2
    <2>2. m * (q - p) >= m  BY <2>1, Times
    <2>. QED  BY <1>1, <2>2
  <1>3. CASE q < p
    <2>1. p - q \in Nat /\ p - q >= 1  BY <1>3
    <2>2. m * (p - q) >= m  BY <2>1, Times
    <2>. QED  BY <1>1, <2>2
  <1>4. CASE q = p  BY <1>1, <1>4, Z3
  <1>. QED  BY <1>2, <1>3, <1>4

\* A generation that does not come round to zero is one more than the last.
LEMMA WordNext ==
  ASSUME NEW g \in Nat, Word(g + 1) # 0
  PROVE  Word(g + 1) = Word(g) + 1
  <1>. DEFINE m == GenMod
              q == g \div m
              r == g % m
              p == (g + 1) \div m
              s == (g + 1) % m
  <1>1. m \in Nat /\ m > 1  BY Facts
  <1>2. q \in Int /\ r \in 0 .. (m - 1) /\ g = m * q + r  BY <1>1
  <1>3. p \in Int /\ s \in 0 .. (m - 1) /\ g + 1 = m * p + s  BY <1>1
  <1>4. s # 0  BY DEF Word
  <1>. HIDE DEF m, q, r, p, s
  <1>5. CASE r + 1 < m
    <2>. DEFINE k == r + 1
    <2>1. m * q + (r + 1) = m * p + s  BY <1>1, <1>2, <1>3, Z3
    <2>2. k \in 0 .. (m - 1) /\ m * q + k = m * p + s  BY <1>1, <1>2, <1>5, <2>1
    <2>. HIDE DEF k
    <2>3. k = s  BY <1>1, <1>2, <1>3, <2>2, Remainder
    <2>. QED  BY <2>3 DEF Word, k, r, s, m
  <1>6. CASE r + 1 = m
    <2>. DEFINE k == q + 1
    <2>1. m * k = m * q + m  BY <1>1, <1>2, Z3
    <2>2. k \in Int /\ 0 \in 0 .. (m - 1) /\ m * k + 0 = m * p + s  BY <1>1, <1>2, <1>3, <1>6, <2>1
    <2>. HIDE DEF k
    <2>3. 0 = s  BY <1>1, <1>3, <2>2, Remainder
    <2>. QED  BY <1>4, <2>3
  <1>. QED  BY <1>1, <1>2, <1>5, <1>6

\* A marker takes the next generation.
LEMMA MarkBumpInv ==
  ASSUME FileInv, NEW t \in Threads, MarkBump(t)
  PROVE  FileInv'
  <1>. DEFINE l == loc[t]
              p == "marked"
  <1>1. /\ pc[t] = "idle" /\ "mark" \in work.ops /\ attrgen < MaxGen /\ attrgen' = attrgen + 1
        /\ mn' = IF Word(attrgen') = 0 THEN [mn EXCEPT !.live = FALSE] ELSE mn
        /\ thr' = [thr EXCEPT ![t].mark = attrgen'] /\ Goto(t, p, l)
        /\ srv' = srv /\ open' = open /\ logical' = logical /\ spoiled' = spoiled /\ touched' = touched
    BY DEF MarkBump, Idle, Has
  <1>2. p \in Pcs /\ Gone(p, l) = l  BY DEF Pcs, Gone
  <1>3. /\ pc' \in [Threads -> Pcs] /\ loc' = [u \in Threads |-> loc'[u]]
        /\ pc'[t] = p /\ loc'[t] = l /\ work' = work
        /\ \A u \in Threads \ {t} : pc'[u] = pc[u] /\ loc'[u] = loc[u]
    BY <1>1, <1>2, Here, GotoTo
  <1>4. Local("idle", l, open[t], CredOf[t], work)  BY <1>1, Here
  <1>5. Local(p, l, open[t], CredOf[t], work)  BY <1>4 DEF Local, Opening
  <1>6. /\ attrgen \in Nat /\ MaxGen \in Nat /\ thr \in [Threads -> [gen : Nat, mark : Nat]]
        /\ Good(mn, srv) /\ mn \in MnType /\ Kinds /\ Data /\ Marks
    BY FileAssumption DEF FileAssumption, FileInv, Kinds, Good, Mn
  <1>7. /\ thr' \in [Threads -> [gen : Nat, mark : Nat]] /\ thr'[t].mark = attrgen + 1
        /\ \A u \in Threads \ {t} : thr'[u] = thr[u]
    BY <1>1, <1>6
  <1>8. Kinds'  BY <1>1, <1>3, <1>6, <1>7 DEF Kinds
  <1>9. /\ mn'.rv = mn.rv /\ mn'.nm = mn.nm /\ mn'.ro = mn.ro /\ mn'.open = mn.open /\ mn'.wopen = mn.wopen
        /\ mn'.ref = mn.ref /\ mn'.cop = mn.cop /\ mn'.leaked = mn.leaked /\ mn'.creds = mn.creds
        /\ mn'.pnm = mn.pnm /\ mn'.pcvp = mn.pcvp /\ mn'.fetched = mn.fetched /\ mn'.gen = mn.gen
        /\ mn'.live => mn.live /\ Word(attrgen + 1) # 0
        /\ mn' \in MnType
    BY <1>1, <1>6 DEF MnType
  <1>10. Good(mn', srv')  BY <1>1, <1>6, <1>9 DEF Good, Mn, Marked
  <1>11. Good(mn, srv)'  BY <1>3, <1>10 DEF Good, Mn
  <1>12. SameUser(t, p, l)  BY <1>1 DEF SameUser, User
  <1>13. RefsHeld'
    <2>1. \A v \in Vnodes : Users(v)' = Users(v)  BY <1>1, <1>2, <1>6, <1>12, UsersKept
    <2>. QED  BY <1>9, <2>1 DEF FileInv, RefsHeld
  <1>14. OpensPaired'
    <2>1. Opens(mn, mn')  BY <1>9 DEF Opens
    <2>. QED  BY <1>1, <1>6, <1>10, <2>1, OpensKept DEF FileInv
  <1>15. Locals'  BY <1>1, <1>3, <1>5 DEF FileInv, Locals
  <1>16. Copied'
    <2>1. Private => Private'  BY <1>1, <1>9 DEF Private
    <2>. QED  BY <1>3, <2>1 DEF FileInv, Copied, Changed
  <1>17. SharedIntact' /\ (srv'.cow => srv'.ct = Pv)  BY <1>1 DEF FileInv, SharedIntact
  <1>18. Data'
    <2>1. Ends(t, p, l) /\ Quiet(srv, srv')  BY <1>1 DEF Ends, Cutting, Ended, Quiet
    <2>. QED  BY <1>1, <1>2, <1>6, <2>1, Here, DataQuiet
  <1>19. Marks'
    <2>1. mn.fetched \in Nat /\ mn.fetched <= attrgen  BY <1>6 DEF MnType, Marks
    <2>2. ASSUME mn'.live
          PROVE  mn'.gen = Word(mn'.fetched) /\
                 \A x \in mn'.fetched .. attrgen' : Word(x) = Word(mn'.fetched) + (x - mn'.fetched)
      <3>1. /\ mn.live /\ Word(attrgen + 1) = Word(attrgen) + 1 /\ mn.gen = Word(mn.fetched)
            /\ \A x \in mn.fetched .. attrgen : Word(x) = Word(mn.fetched) + (x - mn.fetched)
        BY <1>6, <1>9, <2>2, WordNext DEF Marks
      <3>2. Word(attrgen) = Word(mn.fetched) + (attrgen - mn.fetched) /\ Word(mn.fetched) \in Nat
        BY <1>6, <2>1, <3>1, WordNat
      <3>. HIDE DEF Word
      <3>3. Word(attrgen + 1) = Word(mn.fetched) + ((attrgen + 1) - mn.fetched)
        BY <1>6, <2>1, <3>1, <3>2
      <3>4. ASSUME NEW x \in mn.fetched .. (attrgen + 1)
            PROVE  Word(x) = Word(mn.fetched) + (x - mn.fetched)
        <4>1. CASE x = attrgen + 1  BY <3>3, <4>1
        <4>2. CASE x # attrgen + 1
          <5>1. x \in mn.fetched .. attrgen  BY <1>6, <2>1, <4>2
          <5>. QED  BY <3>1, <5>1
        <4>. QED  BY <4>1, <4>2
      <3>. QED  BY <1>1, <1>9, <3>1, <3>4
    <2>3. ASSUME NEW u \in Threads
          PROVE  /\ thr'[u].mark <= attrgen'
                 /\ pc'[u] # "marked" => \E x \in thr'[u].mark .. attrgen' : thr'[u].gen = Word(x)
                 /\ pc'[u] = "use" => mn'.fetched >= thr'[u].mark
      <3>1. CASE u = t  BY <1>1, <1>3, <1>6, <1>7, <3>1
      <3>2. CASE u # t
        <4>1. /\ pc'[u] = pc[u] /\ thr'[u] = thr[u] /\ thr[u].mark \in Nat /\ thr[u].mark <= attrgen
              /\ pc[u] # "marked" => \E x \in thr[u].mark .. attrgen : thr[u].gen = Word(x)
              /\ pc[u] = "use" => mn.fetched >= thr[u].mark
          BY <1>3, <1>6, <1>7, <3>2 DEF Marks
        <4>. HIDE DEF Word
        <4>2. \A x \in thr[u].mark .. attrgen : x \in thr[u].mark .. (attrgen + 1)  BY <1>6, <4>1
        <4>. QED  BY <1>1, <1>6, <1>9, <4>1, <4>2
      <3>. QED  BY <3>1, <3>2
    <2>. HIDE DEF Word
    <2>4. "mark" \in work'.ops /\ mn'.fetched <= attrgen'  BY <1>1, <1>3, <1>6, <1>9, <2>1
    <2>. QED  BY <2>2, <2>3, <2>4 DEF Marks
  <1>. QED  BY <1>8, <1>11, <1>13, <1>14, <1>15, <1>16, <1>17, <1>18, <1>19 DEF FileInv

\* It reads the generation of the host, its own or a later one.
LEMMA MarkReadInv ==
  ASSUME FileInv, NEW t \in Threads, MarkRead(t)
  PROVE  FileInv'
  <1>. DEFINE p == "idle"
              l == NoLoc
  <1>1. /\ pc[t] = "marked" /\ thr' = [thr EXCEPT ![t].gen = Word(attrgen)] /\ Goto(t, p, loc[t])
        /\ srv' = srv /\ mn' = mn /\ attrgen' = attrgen /\ open' = open /\ logical' = logical
        /\ spoiled' = spoiled /\ touched' = touched
    BY DEF MarkRead
  <1>2. p \in Pcs /\ Gone(p, loc[t]) = l  BY DEF Pcs, Gone
  <1>3. /\ pc' \in [Threads -> Pcs] /\ loc' = [u \in Threads |-> loc'[u]]
        /\ pc'[t] = p /\ loc'[t] = l /\ work' = work
        /\ \A u \in Threads \ {t} : pc'[u] = pc[u] /\ loc'[u] = loc[u]
    BY <1>1, <1>2, Here, GotoTo
  <1>4. Local(p, l, open[t], CredOf[t], work)
    <2>1. open[t] # "none" => "open" \in work.ops  BY Here DEF Local
    <2>. QED  BY <2>1, IdleLocal
  <1>. HIDE DEF l
  <1>5. /\ attrgen \in Nat /\ thr \in [Threads -> [gen : Nat, mark : Nat]]
        /\ Good(mn, srv) /\ mn \in MnType /\ Kinds /\ Data /\ Marks
    BY DEF FileInv, Kinds, Good, Mn
  <1>6. Word(attrgen) \in Nat  BY <1>5, WordNat
  <1>. HIDE DEF Word
  <1>7. /\ thr' \in [Threads -> [gen : Nat, mark : Nat]] /\ thr'[t].mark = thr[t].mark /\ thr'[t].gen = Word(attrgen)
        /\ \A u \in Threads \ {t} : thr'[u] = thr[u]
    BY <1>1, <1>5, <1>6
  <1>8. Kinds'  BY <1>1, <1>3, <1>5, <1>7 DEF Kinds
  <1>9. Good(mn, srv)'  BY <1>1, <1>3, <1>5 DEF Good, Mn
  <1>10. SameUser(t, p, l)  BY <1>1 DEF SameUser, User
  <1>11. RefsHeld'
    <2>1. \A v \in Vnodes : Users(v)' = Users(v)  BY <1>1, <1>2, <1>5, <1>10, UsersKept
    <2>. QED  BY <1>1, <2>1 DEF FileInv, RefsHeld
  <1>12. OpensPaired'  BY <1>1 DEF FileInv, OpensPaired
  <1>13. Locals'  BY <1>1, <1>3, <1>4 DEF FileInv, Locals
  <1>14. Copied'
    <2>1. Private => Private'  BY <1>1 DEF Private
    <2>. QED  BY <1>3, <2>1 DEF FileInv, Copied, Changed
  <1>15. SharedIntact' /\ (srv'.cow => srv'.ct = Pv)  BY <1>1 DEF FileInv, SharedIntact
  <1>16. Data'
    <2>1. Ends(t, p, l) /\ Quiet(srv, srv')  BY <1>1 DEF Ends, Cutting, Ended, Quiet
    <2>. QED  BY <1>1, <1>2, <1>5, <2>1, Here, DataQuiet
  <1>17. Marks'
    <2>1. ASSUME NEW u \in Threads
          PROVE  /\ thr'[u].mark <= attrgen
                 /\ pc'[u] # "marked" => \E x \in thr'[u].mark .. attrgen : thr'[u].gen = Word(x)
                 /\ pc'[u] = "use" => mn.fetched >= thr'[u].mark
      <3>1. CASE u = t
        <4>1. thr[t].mark \in Nat /\ thr[t].mark <= attrgen  BY <1>5 DEF Marks
        <4>2. attrgen \in thr[t].mark .. attrgen  BY <1>5, <4>1
        <4>. QED  BY <1>3, <1>7, <3>1, <4>1, <4>2
      <3>2. CASE u # t  BY <1>3, <1>5, <1>7, <3>2 DEF Marks
      <3>. QED  BY <3>1, <3>2
    <2>. QED  BY <1>1, <1>3, <1>5, <2>1 DEF Marks
  <1>. QED  BY <1>8, <1>9, <1>11, <1>12, <1>13, <1>14, <1>15, <1>16, <1>17 DEF FileInv

-----------------------------------------------------------------------------
(* The theorems.                                                           *)

\* The invariant holds at the start.
LEMMA InitInv ==
  ASSUME LookupsApart, Init
  PROVE  FileInv
  <1>. USE DEF Init
  <1>. DEFINE zero == [v \in Vnodes |-> 0]
              f == [c \in Cts |-> IF c = Sh THEN 1 ELSE 0]
              d == [v \in Vnodes |-> IF v[1] = Sh THEN 1 ELSE 0]
  <1>1. zero \in [Vnodes -> Nat] /\ \A v \in Vnodes : zero[v] = 0  OBVIOUS
  <1>2. /\ f \in [Cts -> 0 .. 2] /\ f[Pv] = 0
        /\ d \in [Vnodes -> Nat] /\ d[<<Sh, 1>>] = 1 /\ d[<<Sh, 2>>] = 1
    BY Facts DEF Cts, Vnodes
  <1>3. srv = [ct |-> Sh, oid |-> 1, aud |-> FALSE, ev |-> 0, size |-> 1, cow |-> FALSE, file |-> f, data |-> d]
    OBVIOUS
  <1>4. mn = [rv |-> Null, nm |-> Null, ro |-> FALSE, pcvp |-> FALSE, pnm |-> FALSE, open |-> 0, wopen |-> 0,
              creds |-> {}, young |-> FALSE, ref |-> zero, cop |-> zero,
              oid |-> 1, aud |-> FALSE, ev |-> 0, size |-> 1, mt |-> Sh, gen |-> 0, fetched |-> 0, live |-> TRUE,
              choidby |-> Null, cva |-> 1, syncc |-> FALSE, dirty |-> FALSE, cred |-> "none", unsynced |-> FALSE,
              leaked |-> zero]
    OBVIOUS
  <1>. HIDE DEF zero, f, d
  <1>5. mn \in MnType  BY <1>1, <1>4, Facts DEF MnType, Audits, Cts
  <1>6. srv \in SrvType  BY <1>2, <1>3 DEF SrvType, Cts
  <1>16. /\ mn.rv = Null /\ mn.nm = Null /\ ~mn.pnm /\ mn.open = 0 /\ mn.wopen = 0 /\ mn.creds = {}
         /\ mn.ref = zero /\ mn.cop = zero /\ mn.leaked = zero /\ mn.gen = 0 /\ mn.fetched = 0
    BY <1>4
  <1>17. srv.file = f /\ srv.data = d /\ ~srv.cow  BY <1>3
  <1>18. \A u \in Threads : thr[u].mark = 0 /\ thr[u].gen = 0 /\ pc[u] = "idle" /\ loc[u] = NoLoc /\ open[u] = "none"
    OBVIOUS
  <1>19. attrgen = 0 /\ touched = {} /\ logical.v = 1  OBVIOUS
  <1>7. Good(mn, srv)
    <2>. HIDE DEF Init
    <2>. QED  BY <1>2, <1>5, <1>6, <1>16, <1>17, Facts DEF Good, Mn, Srv, Marked
  <1>8. Kinds
    <2>1. attrgen = 0 /\ 0 <= MaxGen  BY FileAssumption DEF FileAssumption
    <2>2. thr \in [Threads -> [gen : Nat, mark : Nat]] /\ open \in [Threads -> Modes \cup {"none"}]
      OBVIOUS
    <2>3. pc \in [Threads -> Pcs] /\ loc = [u \in Threads |-> loc[u]]  BY DEF Pcs
    <2>4. logical \in [n : Nat, v : Nat] /\ spoiled \in BOOLEAN /\ work \in Workloads /\ Apart(work)
      BY DEF LookupsApart
    <2>. QED  BY <2>1, <2>2, <2>3, <2>4 DEF Kinds
  <1>. HIDE DEF Init
  <1>9. RefsHeld
    <2>1. ASSUME NEW v \in Vnodes
          PROVE  mn.ref[v] = (IF mn.rv = v THEN 1 ELSE 0) + Cardinality(Users(v)) + mn.leaked[v]
      <3>1. Users(v) = {}  BY <1>18 DEF Users
      <3>2. Cardinality(Users(v)) = 0  BY <3>1, FS_EmptySet
      <3>3. mn.rv # v /\ mn.ref[v] = 0 /\ mn.leaked[v] = 0  BY <1>1, <1>16, Facts
      <3>. QED  BY <3>2, <3>3
    <2>. QED  BY <2>1 DEF RefsHeld
  <1>10. OpensPaired
    <2>1. {u \in Threads : open[u] # "none"} = {} /\ {u \in Threads : open[u] \in {"w", "t"}} = {}  BY <1>18
    <2>2. Cardinality({u \in Threads : open[u] # "none"}) = 0  BY <2>1, FS_EmptySet
    <2>3. Cardinality({u \in Threads : open[u] \in {"w", "t"}}) = 0  BY <2>1, FS_EmptySet
    <2>4. \A v \in Vnodes : mn.cop[v] = 0  BY <1>1, <1>16
    <2>. QED  BY <1>16, <2>2, <2>3, <2>4 DEF OpensPaired
  <1>11. Locals
    <2>1. ASSUME NEW u \in Threads PROVE Local(pc[u], loc[u], open[u], CredOf[u], work)
      BY <1>18, IdleLocal
    <2>. QED  BY <2>1 DEF Locals
  <1>12. Copied /\ SharedIntact  BY <1>18, <1>19 DEF Copied, Changed, SharedIntact
  <1>13. Data  BY <1>2, <1>17, <1>18, <1>19 DEF Data, Ended
  <1>14. Marks
    <2>1. Word(0) = 0  BY Facts DEF Word
    <2>2. \A x \in 0 .. 0 : x = 0  OBVIOUS
    <2>. HIDE DEF Word
    <2>. QED  BY <1>16, <1>18, <1>19, <2>1, <2>2 DEF Marks
  <1>15. srv.cow => srv.ct = Pv  BY <1>3
  <1>. QED  BY <1>7, <1>8, <1>9, <1>10, <1>11, <1>12, <1>13, <1>14, <1>15 DEF FileInv

\* Every step keeps it.
LEMMA OpsInv ==
  ASSUME FileInv, NEW t \in Threads, Ops(t)
  PROVE  FileInv'
  <1>1. CASE StartOpen(t) \/ StartRead(t) \/ StartWrite(t) \/ StartTrunc(t) \/ StartMode(t) \/ StartGetattr(t)
    BY <1>1, StartInv
  <1>2. CASE Cto(t)  BY <1>2, CtoInv
  <1>3. CASE OpenGet(t)  BY <1>3, OpenGetInv
  <1>4. CASE AuditChoid(t)  BY <1>4, AuditChoidInv
  <1>5. CASE Relock(t)  BY <1>5, RelockInv
  <1>6. CASE OpenCltxt(t)  BY <1>6, OpenCltxtInv
  <1>7. CASE Close(t)  BY <1>7, CloseInv
  <1>8. CASE PreRdwr(t)  BY <1>8, PreRdwrInv
  <1>9. CASE CheckWrite(t)  BY <1>9, CheckWriteInv
  <1>10. CASE Dropped(t)  BY <1>10, DroppedInv
  <1>11. CASE Io(t)  BY <1>11, IoInv
  <1>12. CASE PostRdwr(t)  BY <1>12, PostRdwrInv
  <1>13. CASE AuditRdwr(t)  BY <1>13, AuditRdwrInv
  <1>14. CASE Setattr(t)  BY <1>14, SetattrInv
  <1>15. CASE SetCltxt(t)  BY <1>15, SetCltxtInv
  <1>16. CASE GetattrSync(t)  BY <1>16, GetattrSyncInv
  <1>17. CASE Judge(t)  BY <1>17, JudgeInv
  <1>18. CASE Fetch(t)  BY <1>18, FetchInv
  <1>19. CASE Use(t)  BY <1>19, UseInv
  <1>20. CASE MarkBump(t)  BY <1>20, MarkBumpInv
  <1>21. CASE MarkRead(t)  BY <1>21, MarkReadInv
  <1>22. CASE LookupAnswer(t)  BY <1>22, LookupAnswerInv
  <1>23. CASE LookupSet(t)  BY <1>23, LookupSetInv
  <1>24. CASE LookupEvents(t)  BY <1>24, LookupEventsInv
  <1>. QED  BY <1>1, <1>2, <1>3, <1>4, <1>5, <1>6, <1>7, <1>8, <1>9, <1>10, <1>11, <1>12, <1>13, <1>14, <1>15,
               <1>16, <1>17, <1>18, <1>19, <1>20, <1>21, <1>22, <1>23, <1>24 DEF Ops

LEMMA StutterInv ==
  ASSUME FileInv, UNCHANGED vars
  PROVE  FileInv'
  <1>1. /\ srv' = srv /\ mn' = mn /\ attrgen' = attrgen /\ thr' = thr /\ open' = open /\ pc' = pc /\ loc' = loc
        /\ logical' = logical /\ spoiled' = spoiled /\ touched' = touched /\ work' = work
    BY DEF vars
  <1>2. Step(mn, srv, mn', srv') /\ Quiet(srv, srv')  BY <1>1, SelfStep DEF FileInv
  <1>3. Data'  BY <1>1, <1>2, DataStill DEF FileInv
  <1>. QED  BY <1>1, <1>2, <1>3, AsideStep

LEMMA NextInv ==
  ASSUME FileInv, [Next]_vars
  PROVE  FileInv'
  <1>1. CASE Inactive  BY <1>1, InactiveInv
  <1>2. CASE Scrub  BY <1>2, ScrubInv
  <1>3. CASE OtherChoid  BY <1>3, OtherChoidInv
  <1>4. CASE OtherCreate  BY <1>4, OtherCreateInv
  <1>5. CASE Protect  BY <1>5, ProtectInv
  <1>6. CASE TimePasses  BY <1>6, TimePassesInv
  <1>7. CASE \E t \in Threads : Ops(t)  BY <1>7, OpsInv
  <1>8. CASE UNCHANGED vars  BY <1>8, StutterInv
  <1>. QED  BY <1>1, <1>2, <1>3, <1>4, <1>5, <1>6, <1>7, <1>8 DEF Next, Around

LEMMA FileInvAlways ==
  ASSUME LookupsApart
  PROVE  Spec => []FileInv
  <1>1. Init => FileInv  BY InitInv
  <1>2. FileInv /\ [Next]_vars => FileInv'  BY NextInv
  <1>. QED  BY <1>1, <1>2, PTL DEF Spec

\* References to the cleartext and opens of it balance (mvfs_pre_rdwr, mvfs_post_rdwr, mvfs_openv_ctx,
\* mvfs_closev_ctx, mfs_clear_rele), whatever fails on the way and however many threads use the file.
THEOREM FileIsSound ==
  ASSUME LookupsApart
  PROVE  Spec => []FileSound
  <1>1. FileInv => FileSound
    <2>1. SUFFICES ASSUME FileInv PROVE FileSound  OBVIOUS
    <2>2. mn \in MnType /\ srv \in SrvType /\ attrgen \in 0 .. MaxGen
      BY <2>1, FileAssumption DEF FileAssumption, FileInv, Kinds, Good, Mn, Srv
    <2>3. TypeOK  BY <2>2 DEF TypeOK, MnType, SrvType, Creds
    <2>. QED  BY <2>1, <2>3 DEF FileInv, FileSound
  <1>. QED  BY <1>1, FileInvAlways, PTL

\* The data other views share is neither written to nor given attributes, and a transfer uses a cleartext
\* only for a credential that found it (mvfs_change_oid_subr, mfs_changeattr_eval_choid, mfs_getcleartext).
THEOREM CleartextIsSafe ==
  ASSUME LookupsApart
  PROVE  Spec => []CleartextSafe
  <1>1. FileInv => CleartextSafe
    <2>1. SUFFICES ASSUME FileInv PROVE CleartextSafe  OBVIOUS
    <2>2. ASSUME NEW t \in Threads, pc[t] \in {"io", "post"} PROVE CredOf[t] \notin work.barred
      BY <2>1, <2>2, Here DEF Local
    <2>. QED  BY <2>1, <2>2 DEF FileInv, CleartextSafe, PathChecked
  <1>. QED  BY <1>1, FileInvAlways, PTL

\* Whatever copies were made, by this host or another, the object has the data that was written last
\* (mvfs_change_oid_subr with mfs_copyvp, mfs_clear_create).
THEOREM DataIsKept ==
  ASSUME LookupsApart
  PROVE  Spec => []DataKept
  <1>1. FileInv => DataKept
    <2>1. SUFFICES ASSUME FileInv PROVE DataKept  OBVIOUS
    <2>. DEFINE v == <<srv.ct, srv.file[srv.ct]>>
    <2>2. SUFFICES ASSUME v \in Vnodes, ~spoiled, \A t \in Threads : loc[t].mode # "t"
                   PROVE  srv.data[v] = logical.v
      BY DEF DataKept
    <2>3. Data /\ srv \in SrvType /\ Srv(srv)  BY <2>1 DEF FileInv, Good, Srv
    <2>4. \A u \in Threads : ~Cutting(pc[u], loc[u])  BY <2>2 DEF Cutting
    <2>5. CASE srv.ct = Pv
      <3>1. v = <<Pv, 1>>  BY <2>2, <2>5, Facts
      <3>2. srv.file[Pv] = 1  BY <2>5, <3>1
      <3>. QED  BY <2>2, <2>3, <2>4, <3>1, <3>2 DEF Data
    <2>6. CASE srv.ct = Sh
      <3>1. srv.file[Pv] = 0
        <4>1. srv.file[Pv] \in 0 .. 2 /\ srv.file[Pv] <= 1  BY <2>3 DEF SrvType, Srv, Cts
        <4>2. srv.file[Pv] # 1  BY <2>3, <2>6, Facts DEF Srv
        <4>. QED  BY <4>1, <4>2
      <3>2. logical.v = 1  BY <2>3, <3>1 DEF Data
      <3>3. v = <<Sh, 1>> \/ v = <<Sh, 2>>  BY <2>2, <2>6, Facts DEF Vnodes
      <3>. QED  BY <2>3, <3>2, <3>3 DEF Data
    <2>. QED  BY <2>3, <2>5, <2>6 DEF SrvType, Cts
  <1>. QED  BY <1>1, FileInvAlways, PTL

\* A process that set a marker uses no attributes the view gave before it (mvfs_set_ac_timeout,
\* mfs_mn_newattrgen), although a generation is kept in few bits and comes round.
THEOREM MarkersAreFresh ==
  ASSUME LookupsApart
  PROVE  Spec => []MarkerFresh
  <1>1. FileInv => MarkerFresh  BY DEF FileInv, Marks, MarkerFresh
  <1>. QED  BY <1>1, FileInvAlways, PTL
=============================================================================
