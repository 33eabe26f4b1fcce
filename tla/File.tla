-------------------------------- MODULE File --------------------------------
(***************************************************************************)
(* A regular file of a view (mvfs_vnodeops.c, mvfs_clearops.c and their    *)
(* calls in mvfs_clnt.c): its cached attributes, the cleartext file that   *)
(* holds its data, and the operations on it.  The object starts as a       *)
(* derived object whose cleartext, Sh, is shared through the VOB; a write  *)
(* gives it a private cleartext, Pv, in the view (copy-on-write).          *)
(*                                                                         *)
(* A step is one hold of the lock of the mnode.  The calls made under the  *)
(* lock are operators from a state to a set of outcomes.  Another host may *)
(* copy the object too, the scrubber may take a shared cleartext away and  *)
(* a protection change may touch the object; a private cleartext is never  *)
(* taken away and never shared again under the same mnode (the comments at *)
(* mvfs_vnodeops.c:2571-2583 and mvfs_clearops.c:953-957).                 *)
(***************************************************************************)
EXTENDS Integers, FiniteSets, TLC

CONSTANTS
  Threads, Null,
  Sh, Pv,        \* the shared and the private cleartext of the object, by name
  CredOf,        \* the credential of each thread
  AuditOf,       \* the audit each thread runs under, or Null
  Workloads,     \* operations that happen together, modes of opens; barred: credentials with no way to the cleartext
  MaxOid, MaxData,  \* bounds: changes of the OID, writes
  GenMod, MaxGen \* the width of an attribute generation, and a bound on markers

Cts == {Sh, Pv}
Vnodes == {<<Sh, 1>>, <<Sh, 2>>, <<Pv, 1>>}   \* a scrubbed cleartext comes back as another vnode

ASSUME FileAssumption ==
  /\ Sh # Pv /\ Null \notin Vnodes \cup Cts
  /\ IsFiniteSet(Threads) /\ {MaxOid, MaxData, MaxGen, GenMod} \subseteq Nat /\ GenMod > 1
  /\ \A w \in Workloads : w.barred \subseteq {CredOf[t] : t \in Threads} /\ w.modes \subseteq {"r", "w", "t"}

VARIABLES
  srv,      \* the view and the storage: cleartext name, OID, audited, event time, size; files and data
  mn,       \* the mnode
  attrgen,  \* mfs_attrgen, not yet cut to its width
  thr,      \* per thread: thr_attrgen; the marker it stands for
  open,     \* how each thread has the file open
  pc, loc,  \* where each thread is, and its local variables
  recorded, \* the OIDs in each audit: <<audit, OID>>
  logical,  \* what was written to the object last
  spoiled,  \* a copy or a truncation failed half way
  touched,  \* cleartext files that were written or whose attributes were set
  work

vars == <<srv, mn, attrgen, thr, open, pc, loc, recorded, logical, spoiled, touched, work>>

Out(m, s, e) == [mn |-> m, srv |-> s, err |-> e, did |-> FALSE]
Ok(m, s) == {Out(m, s, "ok")}
Err(m, s, e) == {Out(m, s, e)}
\* A call of the view server may fail and leave everything as it was.
Rpc(m, s, answers) == Err(m, s, "rpc") \cup answers
\* Go on with F when there was no error.
Then(os, F(_, _)) == UNION {IF o.err = "ok" THEN F(o.mn, o.srv) ELSE {o} : o \in os}

Alive(s, v) == s.file[v[1]] = v[2]
Hold(m, v) == [m EXCEPT !.ref[v] = @ + 1]
Rele(m, v) == [m EXCEPT !.ref[v] = @ - 1]
Word(g) == g % GenMod

-----------------------------------------------------------------------------
(* The cleartext of the mnode.                                             *)

MarkPurge(m) == IF m.rv = Null THEN m ELSE [m EXCEPT !.pcvp = TRUE]
MarkNamePurge(m) == [MarkPurge(m) EXCEPT !.pnm = TRUE]
\* mfs_clear_error with mfs_clear_mark_rwerr: an error on the cleartext, to be purged when inactive
ClearError(m) == MarkNamePurge(m)

\* The credentials that found their way to the cleartext by its name
FindCred(m, c) == c \in m.creds
RecordCred(m, c) == [m EXCEPT !.creds = @ \cup {c}]
ReleaseCreds(m) == [m EXCEPT !.creds = {}]

NewCltxt(m, v) ==
  [ReleaseCreds(m) EXCEPT !.rv = v,
            !.ref = [x \in Vnodes |-> @[x] + (IF x = v THEN 1 ELSE 0) - (IF x = m.rv THEN 1 ELSE 0)]]

\* An opened cleartext is closed as often as it was opened.
ClearCloseVp(m) == IF m.rv = Null THEN m ELSE [m EXCEPT !.cop[m.rv] = 0]

ClearRele(m) ==
  IF ~(m.pnm \/ m.pcvp) THEN m
  ELSE LET a == IF m.open > 0 THEN ClearCloseVp(m) ELSE m
           b == IF a.rv # Null /\ a.pcvp THEN NewCltxt(a, Null) ELSE a
           c == IF b.nm # Null /\ b.pnm THEN [ReleaseCreds(b) EXCEPT !.nm = Null] ELSE b
       IN [c EXCEPT !.pnm = FALSE, !.pcvp = FALSE, !.dirty = FALSE]

ClearWritable(m) == ~m.ro

\* mvfs_clearattr: the size and time of the cleartext, as the value last written to it
ClearAttr(m, s) ==
  IF m.rv = Null THEN Ok(m, s)
  ELSE IF ~Alive(s, m.rv) THEN Err(MarkPurge(m), s, "stale")
  ELSE Ok([m EXCEPT !.cva = s.data[m.rv], !.syncc = @ \/ m.cva # s.data[m.rv]], s)

Bound(m, v) == [m EXCEPT !.rv = v, !.ref[v] = @ + 1, !.pnm = FALSE, !.pcvp = FALSE]
Unmarked(m) == [m EXCEPT !.pnm = FALSE, !.pcvp = FALSE]

\* LOOKUP_STORAGE_FILE, by the path and with the credential of the caller
Lookup(s, ct, c) == IF s.file[ct] = 0 \/ c \in work.barred THEN Null ELSE <<ct, s.file[ct]>>

SetCpname(m, ct) == [m EXCEPT !.nm = ct, !.ro = ct = Sh]
\* mfs_clnt_cltxt_locked: the view builds a shared cleartext that is missing.
Cltxt(m, s) ==
  IF m.nm # Null THEN Ok(m, s)
  ELSE Rpc(m, s, Ok(SetCpname(m, s.ct),
                    IF s.ct = Sh /\ s.file[Sh] = 0 THEN [s EXCEPT !.file[Sh] = 2] ELSE s))

Done(m, s, c) == Ok([RecordCred(m, c) EXCEPT !.young = TRUE], s)
Finish(m, s, c) == Then(ClearAttr(m, s), LAMBDA x, y : Done(x, y, c))

\* mfs_getcleartext, the last level: the name from the view
FromView(m, s, c) ==
  Then(Cltxt(m, s),
       LAMBDA x, y : LET v == Lookup(y, x.nm, c) IN
         IF v = Null THEN Err(ClearRele(MarkNamePurge(x)), y, "enxio")
         ELSE Finish(Bound(x, v), y, c))

\* mfs_getcleartext, from findit: look up the name that is cached.
FindIt(m, s, c) ==
  LET v == Lookup(s, m.nm, c)
  IN CASE m.nm = Null -> FromView(m, s, c)
       [] m.nm # Null /\ m.rv = Null /\ v # Null -> Finish(Bound(m, v), s, c)
       [] m.nm # Null /\ m.rv = Null /\ v = Null -> FromView([m EXCEPT !.nm = Null], s, c)
       [] m.nm # Null /\ m.rv # Null /\ v = m.rv -> Finish(m, s, c)
       [] m.nm # Null /\ m.rv # Null /\ v \notin {Null, m.rv} ->
            IF m.open = 0 THEN Finish(Unmarked(NewCltxt(m, v)), s, c) ELSE Err(MarkPurge(m), s, "stale")
       [] m.nm # Null /\ m.rv # Null /\ v = Null ->
            IF m.open = 0 THEN FromView(NewCltxt([m EXCEPT !.nm = Null], Null), s, c)
            ELSE IF s.file[m.nm] = 0 /\ c \notin work.barred THEN Err(MarkPurge(m), s, "stale")
            ELSE Err(m, s, "eacces")

\* Mutant: a stale cleartext is dropped although the file is open.
GetCleartextRebindOpen(m, s, c) ==
  IF m.rv # Null /\ c \in m.creds /\ m.young THEN Done(m, s, c)
  ELSE IF m.rv # Null /\ c \in m.creds /\ Alive(s, m.rv) THEN Done(m, s, c)
  ELSE FindIt(IF m.rv # Null /\ c \in m.creds THEN NewCltxt(m, Null) ELSE m, s, c)
GetCleartext(m, s, c) ==
  IF m.rv = Null \/ ~FindCred(m, c) THEN FindIt(m, s, c)
  ELSE IF m.young \/ Alive(s, m.rv) THEN Done(m, s, c)
  ELSE IF m.open = 0 THEN FindIt(NewCltxt(m, Null), s, c)
  ELSE Err(MarkPurge(m), s, "stale")

\* mfs_clear_create: the caller has dropped the old cleartext.
ClearCreate(m, s, c) ==
  Then({IF o.err = "ok" THEN o ELSE [o EXCEPT !.err = "eio"] : o \in Cltxt(m, s)},
       LAMBDA x, y :
         IF x.ro THEN Err(x, y, "erofs")
         ELSE Err(ClearRele(MarkNamePurge(x)), y, IF y.file[Pv] # 0 THEN "eexist" ELSE "create")
              \cup (IF y.file[Pv] # 0 \/ c \in work.barred THEN {}
                    ELSE LET z == [y EXCEPT !.file[Pv] = 1, !.data[<<Pv, 1>>] = 0]
                         IN ClearAttr(RecordCred(Bound(x, <<Pv, 1>>), c), z)))

-----------------------------------------------------------------------------
(* The attribute cache.                                                    *)

\* mfs_ac_modevents, for a regular file
ModEvents(m, vobmod, domod) ==
  LET a == IF vobmod THEN MarkNamePurge(m) ELSE m
      b == IF domod /\ a.ro THEN MarkNamePurge(a) ELSE a
  IN IF domod /\ a.ro /\ a.open = 0 THEN ClearRele(b) ELSE b

\* mvfs_ac_set_stat with mvfs_set_ac_timeout: s is the answer, g when it was given.
SetStat(m, s, g) ==
  [m EXCEPT !.oid = s.oid, !.aud = s.aud, !.ev = s.ev, !.size = s.size, !.mt = s.ct,
            !.gen = Word(attrgen), !.fetched = g, !.live = TRUE]
VobMod(m, s) == m.ev # s.ev
DoMod(m, s) == (m.mt # s.ct \/ s.ct = Sh) /\ m.oid # s.oid
AttrCache(m, s, g) == ModEvents(SetStat(m, s, g), VobMod(m, s), DoMod(m, s))

ClntGetattr(m, s) == Rpc(m, s, Ok(AttrCache(m, s, attrgen), s))

\* mvfs_clnt_setattr_locked: the size goes to the view when the credential is a writer's.
ClntSetattr(m, s, aud, w) ==
  LET size == m.rv # Null /\ w /\ m.cva # m.size
      set == aud /\ ~m.aud
      y == [s EXCEPT !.size = IF size THEN m.cva ELSE @, !.aud = @ \/ set]
  IN IF ~size /\ ~set /\ ~m.syncc THEN Ok(m, s)
     ELSE Rpc(m, s, Ok([AttrCache(m, y, attrgen) EXCEPT !.syncc = FALSE], y))

MSetCred(m, w) == [m EXCEPT !.cred = IF w THEN "w" ELSE IF @ = "none" THEN "r" ELSE @]

SyncAttr(m, s) ==
  IF m.rv = Null \/ m.cred = "none" \/ m.ro THEN Ok(m, s)
  ELSE LET o == CHOOSE x \in ClearAttr(m, s) : TRUE
       IN ClntSetattr(o.mn, o.srv, FALSE, o.mn.cred = "w")

-----------------------------------------------------------------------------
(* Change of the OID, with copy-on-write.                                  *)

ClntChoid(m, s, t) ==
  LET y == [s EXCEPT !.oid = @ + 1, !.aud = AuditOf[t] # Null, !.ct = Pv]
  IN Rpc(m, s, Ok(AttrCache(m, y, attrgen), y))

ChoidNeeded(m, t, force) ==
  force \/ m.ro \/ (m.aud /\ ~(m.choidby # Null /\ m.choidby = AuditOf[t]))

Did(os) == {[o EXCEPT !.did = TRUE] : o \in os}
Remember(m, t) == IF AuditOf[t] # Null THEN [m EXCEPT !.choidby = AuditOf[t]] ELSE m

\* Mutant: the data stays in the shared cleartext.
CopyNothing(m, s, old) == Ok(m, s)
Copy(m, s, old) ==
  Err(m, s, "copy")
  \cup (IF Alive(s, old) THEN Ok(m, [s EXCEPT !.data[m.rv] = s.data[old]]) ELSE {})

ChoidOnly(m, s, t) == {[o EXCEPT !.did = o.err = "ok"] : o \in ClntChoid(m, s, t)}

CopyOnWrite(m, s, t, trunc) ==
  LET c == CredOf[t]
      create(x, y, old) ==
        UNION {CASE o.err = "eexist" -> Did(ChoidOnly(o.mn, o.srv, t))
                 [] o.err = "ok" -> Did(IF trunc THEN {o} ELSE Copy(o.mn, o.srv, old))
                 [] OTHER -> Did({o}) : o \in ClearCreate(x, y, c)}
  IN IF m.open # 0 THEN Err(m, s, "etxtbsy")
     ELSE Then(Then(GetCleartext(m, s, c), ClearAttr),
               LAMBDA x, y : Then(ClntChoid(x, y, t),
                                  LAMBDA p, q : create(ClearRele(MarkNamePurge(p)), q, x.rv)))

\* mvfs_change_oid_subr up to where it drops the lock for the audit; did says that it drops it.
ChangeOid(m, s, t, force, trunc) ==
  IF ~ChoidNeeded(m, t, force) THEN Ok(m, s)
  ELSE {[o EXCEPT !.mn = IF o.did THEN Remember(@, t) ELSE @] :
          o \in IF m.ro THEN CopyOnWrite(m, s, t, trunc) ELSE ChoidOnly(m, s, t)}

-----------------------------------------------------------------------------
(* The operations.                                                         *)

NoLoc == [mode |-> "r", v |-> Null, err |-> "ok", oid |-> 0, began |-> {}, ans |-> Null, gen |-> 0]
Idle(t) == pc[t] = "idle"
Has(op) == op \in work.ops
Busy == {t \in Threads : ~Idle(t)}

Result(o) == mn' = o.mn /\ srv' = o.srv
Goto(t, p, l) == /\ pc' = [pc EXCEPT ![t] = p]
                 /\ loc' = [loc EXCEPT ![t] = IF p = "idle" THEN NoLoc ELSE l]
                 /\ UNCHANGED work
Begin(t, op, p, mode) ==
  /\ Idle(t) /\ Has(op)
  /\ Goto(t, p, [NoLoc EXCEPT !.mode = mode, !.began = IF mn.aud THEN recorded ELSE {}])
  /\ UNCHANGED <<srv, mn, attrgen, thr, open, recorded, logical, spoiled, touched>>
Writes(mode) == mode # "r"
\* Bounds: changes of the OID, with those that threads under way still make; references left behind
OidsLeft(t) == srv.oid + Cardinality({u \in Busy \ {t} : Writes(loc[u].mode)}) < MaxOid
LeaksLeft == \A v \in Vnodes : mn.leaked[v] = 0

StartOpen(t) == \E mode \in work.modes :
  /\ open[t] = "none" /\ (Writes(mode) => OidsLeft(t)) /\ Begin(t, "open", "cto", mode)
StartRead(t) == Begin(t, "read", "pre", "r")
StartWrite(t) == logical.n < MaxData /\ OidsLeft(t) /\ LeaksLeft /\ Begin(t, "write", "pre", "w")
StartTrunc(t) == OidsLeft(t) /\ Begin(t, "trunc", "setattr", "t")
StartMode(t) == Begin(t, "mode", "setattr", "r")
StartGetattr(t) == Begin(t, "getattr", "sync", "r")

\* Close to open consistency: an open asks for the attributes first, and ignores an error.
Cto(t) ==
  /\ pc[t] = "cto" /\ Goto(t, "open", loc[t])
  /\ \E o \in ClntGetattr(mn, srv) : Result(o)
  /\ UNCHANGED <<attrgen, thr, open, recorded, logical, spoiled, touched>>

\* A file that is opened for writing has a cleartext of its own.
TextBusy(m) == m.ro /\ m.open # 0 /\ m.wopen = 0
Failed(t, o) == spoiled' = (spoiled \/ (o.did /\ o.err # "ok"))

\* mvfs_openv_ctx from MLOCK to the change of the OID
GetToOpen(t) ==
  Then(GetCleartext(mn, srv, CredOf[t]),
       LAMBDA x, y : IF ~Writes(loc[t].mode) THEN Ok(x, y)
                     ELSE IF TextBusy(x) THEN Err(x, y, "etxtbsy")
                     ELSE ChangeOid(x, y, t, TRUE, loc[t].mode = "t"))
OpenGet(t) ==
  /\ pc[t] = "open"
  /\ \E o \in GetToOpen(t) :
       /\ Result(o) /\ Failed(t, o)
       /\ Goto(t, IF o.did THEN "audit" ELSE IF o.err = "ok" THEN "opened" ELSE "idle",
               [loc[t] EXCEPT !.err = o.err, !.oid = o.mn.oid, !.ans = "opened"])
  /\ UNCHANGED <<attrgen, thr, open, recorded, logical, touched>>

\* MFS_AUDIT: the OID goes into the audit of the thread, and the object is marked as audited.
SetAudited(m, s, t) ==
  IF AuditOf[t] = Null \/ m.rv = Null \/ m.aud \/ m.ro THEN Ok(m, s)
  ELSE {[o EXCEPT !.err = "ok"] : o \in ClntSetattr(m, s, TRUE, FALSE)}
\* Without the lock: the thread records the OID it has copied.
AuditChoid(t) ==
  /\ pc[t] = "audit"
  /\ recorded' = IF AuditOf[t] = Null THEN recorded ELSE recorded \cup {<<AuditOf[t], loc[t].oid>>}
  /\ \E o \in SetAudited(mn, srv, t) : Result(o)
  /\ Goto(t, IF loc[t].err = "ok" THEN "relock" ELSE IF loc[t].v = Null THEN "idle" ELSE "dropped", loc[t])
  /\ UNCHANGED <<attrgen, thr, open, logical, spoiled, touched>>

\* The lock is back: someone may have purged the cleartext.
Relock(t) ==
  /\ pc[t] = "relock"
  /\ \E o \in GetCleartext(mn, srv, CredOf[t]) :
       /\ Result(o)
       /\ Goto(t, IF o.err = "ok" THEN loc[t].ans ELSE IF loc[t].v = Null THEN "idle" ELSE "dropped", loc[t])
       /\ spoiled' = (spoiled \/ (o.err # "ok" /\ loc[t].mode = "t"))
  /\ UNCHANGED <<attrgen, thr, open, recorded, logical, touched>>

\* MVOP_OPEN of the cleartext v; a truncating open empties it.
Opened(m, s, t, v) ==
  IF ~Alive(s, v) THEN Err(m, s, "stale")
  ELSE Ok([m EXCEPT !.cop[v] = @ + 1, !.open = @ + 1, !.wopen = @ + (IF Writes(loc[t].mode) THEN 1 ELSE 0)],
          IF loc[t].mode = "t" THEN [s EXCEPT !.data[v] = 0] ELSE s)
\* A cleartext the scrubber has taken is looked up again, once.
OpenRetry(o, t) ==
  IF o.err = "stale" /\ o.mn.open = 0
  THEN Then(GetCleartext(ClearRele(MarkNamePurge(o.mn)), o.srv, CredOf[t]),
            LAMBDA x, y : Opened(x, y, t, x.rv))
  ELSE {o}
OpenVp(t) ==
  Then(GetCleartext(MSetCred(mn, Writes(loc[t].mode)), srv, CredOf[t]),
       LAMBDA x, y : UNION {OpenRetry(p, t) : p \in Opened(x, y, t, x.rv)})
OpenCltxt(t) ==
  /\ pc[t] = "opened"
  /\ \E o \in OpenVp(t) :
       /\ mn' = (IF o.err = "ok" THEN [o.mn EXCEPT !.unsynced = @ \/ Writes(loc[t].mode)]
                  ELSE ClearError(o.mn))
       /\ srv' = o.srv
       /\ open' = IF o.err = "ok" THEN [open EXCEPT ![t] = loc[t].mode] ELSE open
       /\ touched' = IF o.err = "ok" /\ loc[t].mode = "t" THEN touched \cup {o.mn.rv} ELSE touched
       /\ logical' = IF o.err = "ok" /\ loc[t].mode = "t" THEN [logical EXCEPT !.v = 0] ELSE logical
       /\ spoiled' = (spoiled \/ (o.err # "ok" /\ loc[t].mode = "t"))
  /\ Goto(t, "idle", loc[t])
  /\ UNCHANGED <<attrgen, thr, recorded>>

\* Mutant: a close leaves the attributes for later.
CloseNoSync(m, s) == Ok(m, s)
\* mvfs_closev_ctx: close the cleartext, and bring the view up to date.
CloseCltxt(m, s) ==
  IF m.rv = Null THEN Ok(m, s)
  ELSE IF ~Alive(s, m.rv) THEN Err(ClearError([m EXCEPT !.cop[m.rv] = @ - 1]), s, "stale")
  ELSE SyncAttr([m EXCEPT !.cop[m.rv] = @ - 1], s)
Close(t) ==
  /\ Idle(t) /\ open[t] # "none" /\ open' = [open EXCEPT ![t] = "none"]
  /\ \E o \in CloseCltxt(mn, srv) :
       /\ mn' = [o.mn EXCEPT !.open = @ - 1, !.wopen = @ - (IF Writes(open[t]) THEN 1 ELSE 0),
                             !.unsynced = IF o.err = "ok" THEN FALSE ELSE @]
       /\ srv' = o.srv
  /\ UNCHANGED <<attrgen, thr, pc, loc, recorded, logical, spoiled, touched, work>>

\* mvfs_pre_rdwr: a failure after the cleartext was held leaves it held.
PreRdwr(t) ==
  /\ pc[t] = "pre"
  /\ \E o \in GetCleartext(mn, srv, CredOf[t]) :
       IF o.err # "ok" THEN Result(o) /\ Goto(t, "idle", loc[t])
       ELSE IF ~Writes(loc[t].mode)
       THEN /\ mn' = Hold(o.mn, o.mn.rv) /\ srv' = o.srv /\ Goto(t, "io", [loc[t] EXCEPT !.v = o.mn.rv])
       ELSE IF ~ClearWritable(o.mn)
       THEN /\ mn' = Hold(o.mn, o.mn.rv) /\ srv' = o.srv /\ Goto(t, "dropped", [loc[t] EXCEPT !.v = o.mn.rv])
       ELSE \E p \in ChangeOid(Hold(o.mn, o.mn.rv), o.srv, t, FALSE, FALSE) :
              /\ Result(p)
              /\ Goto(t, IF p.did THEN "audit" ELSE IF p.err = "ok" THEN "write" ELSE "dropped",
                      [loc[t] EXCEPT !.v = o.mn.rv, !.err = p.err, !.oid = p.mn.oid, !.ans = "write"])
  /\ UNCHANGED <<attrgen, thr, open, recorded, logical, spoiled, touched>>

\* The cleartext must still be the one the write has held.
CheckWrite(t) ==
  /\ pc[t] = "write"
  /\ Goto(t, IF loc[t].v = mn.rv THEN "io" ELSE "dropped", [loc[t] EXCEPT !.oid = mn.oid])
  /\ UNCHANGED <<srv, mn, attrgen, thr, open, recorded, logical, spoiled, touched>>

\* mvfs_rdwr_ctx, goto done: the reference of mvfs_pre_rdwr is not dropped.
Dropped(t) ==
  /\ pc[t] = "dropped" /\ Goto(t, "idle", loc[t])
  /\ mn' = [mn EXCEPT !.leaked[loc[t].v] = @ + 1]
  /\ UNCHANGED <<srv, attrgen, thr, open, recorded, logical, spoiled, touched>>

\* The transfer, without the lock.
Io(t) ==
  LET v == loc[t].v
      good == Alive(srv, v)
  IN /\ pc[t] = "io"
     /\ Goto(t, "post", [loc[t] EXCEPT !.err = IF good THEN "ok" ELSE "stale"])
     /\ IF Writes(loc[t].mode) /\ good
        THEN /\ srv' = [srv EXCEPT !.data[v] = logical.n + 1]
             /\ logical' = [n |-> logical.n + 1, v |-> logical.n + 1] /\ touched' = touched \cup {v}
        ELSE UNCHANGED <<srv, logical, touched>>
     /\ UNCHANGED <<mn, attrgen, thr, open, recorded, spoiled>>

PostRele(m, v, err) == Rele(m, v)
PostRdwr(t) ==
  /\ pc[t] = "post"
  /\ LET m == PostRele(mn, loc[t].v, loc[t].err)
     IN mn' = IF loc[t].err = "ok"
              THEN [MSetCred(m, Writes(loc[t].mode)) EXCEPT !.dirty = @ \/ Writes(loc[t].mode),
                                                            !.unsynced = @ \/ Writes(loc[t].mode)]
              ELSE ClearError(m)
  /\ Goto(t, IF loc[t].err = "ok" THEN "audited" ELSE "idle", loc[t])
  /\ UNCHANGED <<srv, attrgen, thr, open, recorded, logical, spoiled, touched>>

\* MFS_AUDIT after a transfer: the OID the mnode has by then.
AuditRdwr(t) ==
  /\ pc[t] = "audited" /\ Goto(t, "idle", loc[t])
  /\ recorded' = IF AuditOf[t] = Null THEN recorded ELSE recorded \cup {<<AuditOf[t], mn.oid>>}
  /\ \E o \in SetAudited(mn, srv, t) : Result(o)
  /\ UNCHANGED <<attrgen, thr, open, logical, spoiled, touched>>

\* mvfs_changeattr up to the change of the OID: a new size always needs one, a new mode never.
GetToSet(t) ==
  Then(Then(GetCleartext(mn, srv, CredOf[t]), ClearAttr),
       LAMBDA x, y : IF Writes(loc[t].mode) THEN ChangeOid(x, y, t, TRUE, TRUE) ELSE Ok(x, y))
Setattr(t) ==
  /\ pc[t] = "setattr"
  /\ \E o \in GetToSet(t) :
       /\ Result(o) /\ Failed(t, o)
       /\ Goto(t, IF o.did THEN "audit" ELSE IF o.err = "ok" THEN "set" ELSE "idle",
               [loc[t] EXCEPT !.err = o.err, !.oid = o.mn.oid, !.ans = "set"])
  /\ UNCHANGED <<attrgen, thr, open, recorded, logical, touched>>

\* Mutant: a mode is set on whatever cleartext there is.
ClearMaskAlways(m, mode) == TRUE
\* mfs_changeattr_eval_choid: whether the cleartext is changed too
ClearMask(m, mode) == Writes(mode) \/ ~m.ro
\* mfs_clearowner: the user must own the cleartext too.
ClearOwner(m, s) == Ok(m, s) \cup Err(m, s, "eperm")
\* The view first, then the cleartext, whose size goes back to the view.
SetView(t) ==
  Then(Then(GetCleartext(mn, srv, CredOf[t]), ClearOwner), LAMBDA x, y : ClntSetattr(x, y, FALSE, TRUE))
SizeBack(m, s) == Then(ClearAttr(m, s), LAMBDA x, y : ClntSetattr(x, y, FALSE, TRUE))
SetCltxt(t) ==
  /\ pc[t] = "set" /\ Goto(t, "idle", loc[t])
  /\ \E o \in SetView(t) :
       LET mask == o.err = "ok" /\ ClearMask(o.mn, loc[t].mode)
           good == mask /\ o.mn.rv # Null /\ Alive(o.srv, o.mn.rv)
           trunc == good /\ loc[t].mode = "t"
           s == IF trunc THEN [o.srv EXCEPT !.data[o.mn.rv] = 0] ELSE o.srv
       IN /\ touched' = IF good THEN touched \cup {o.mn.rv} ELSE touched
          /\ logical' = IF trunc THEN [logical EXCEPT !.v = 0] ELSE logical
          /\ spoiled' = (spoiled \/ (loc[t].mode = "t" /\ ~good))
          /\ IF ~mask THEN mn' = o.mn /\ srv' = s
             ELSE IF ~good THEN mn' = ClearError(o.mn) /\ srv' = s
             ELSE \E p \in SizeBack(o.mn, s) :
                    mn' = [p.mn EXCEPT !.unsynced = @ \/ p.err # "ok"] /\ srv' = p.srv
  /\ UNCHANGED <<attrgen, thr, open, recorded>>

\* mfs_getattr: what the cleartext knows first, then the cached attributes unless they timed out.
GetattrSync(t) ==
  /\ pc[t] = "sync" /\ Goto(t, "judge", loc[t])
  /\ LET a == CHOOSE x \in ClearAttr(mn, srv) : TRUE
         m == IF mn.rv = Null \/ mn.ro THEN mn ELSE IF a.err = "ok" THEN a.mn ELSE MarkPurge(a.mn)
     IN \E o \in IF m.syncc /\ m.rv # Null THEN SyncAttr(m, srv) ELSE Ok(m, srv) : Result(o)
  /\ UNCHANGED <<attrgen, thr, open, recorded, logical, spoiled, touched>>

\* Mutant: only the time counts.
TimedOutByTime(m, t) == ~m.live
TimedOut(m, t) == thr[t].gen > m.gen \/ ~m.live
Judge(t) ==
  /\ pc[t] = "judge" /\ Goto(t, IF TimedOut(mn, t) THEN "fetch" ELSE "use", loc[t])
  /\ UNCHANGED <<srv, mn, attrgen, thr, open, recorded, logical, spoiled, touched>>
Fetch(t) ==
  /\ pc[t] = "fetch"
  /\ \E o \in ClntGetattr(mn, srv) : Result(o) /\ Goto(t, IF o.err = "ok" THEN "use" ELSE "idle", loc[t])
  /\ UNCHANGED <<attrgen, thr, open, recorded, logical, spoiled, touched>>
Use(t) ==
  /\ pc[t] = "use" /\ Goto(t, "idle", loc[t])
  /\ UNCHANGED <<srv, mn, attrgen, thr, open, recorded, logical, spoiled, touched>>

\* mfs_mn_newattrgen: the number is read after the lock is dropped.  A generation that comes round
\* to zero makes all attributes time out.
MarkBump(t) ==
  /\ Idle(t) /\ Has("mark") /\ attrgen < MaxGen /\ attrgen' = attrgen + 1
  /\ mn' = IF Word(attrgen') = 0 THEN [mn EXCEPT !.live = FALSE] ELSE mn
  /\ thr' = [thr EXCEPT ![t].mark = attrgen'] /\ Goto(t, "marked", loc[t])
  /\ UNCHANGED <<srv, open, recorded, logical, spoiled, touched>>
MarkRead(t) ==
  /\ pc[t] = "marked" /\ thr' = [thr EXCEPT ![t].gen = Word(attrgen)] /\ Goto(t, "idle", loc[t])
  /\ UNCHANGED <<srv, mn, attrgen, open, recorded, logical, spoiled, touched>>

\* mfs_inactive_common: no one uses the vnode.
Inactive ==
  /\ Busy = {} /\ mn.open = 0 /\ Has("inactive")
  /\ \E o \in SyncAttr([mn EXCEPT !.dirty = FALSE], srv) :
       mn' = [ClearRele([o.mn EXCEPT !.cred = "none"]) EXCEPT !.unsynced = IF o.err = "ok" THEN FALSE ELSE @]
       /\ srv' = o.srv
  /\ UNCHANGED <<attrgen, thr, open, pc, loc, recorded, logical, spoiled, touched, work>>

\* mfs_clnt_lookup of the name of the file, with mfs_makevobnode: the attributes that came with the
\* answer are cached once the mnode is locked, and what they change follows under another hold.
LookupAnswer(t) ==
  /\ Idle(t) /\ Has("lookup") /\ Goto(t, "lookup", [NoLoc EXCEPT !.ans = srv, !.gen = attrgen])
  /\ UNCHANGED <<srv, mn, attrgen, thr, open, recorded, logical, spoiled, touched>>
LookupSet(t) ==
  /\ pc[t] = "lookup" /\ mn' = SetStat(mn, loc[t].ans, loc[t].gen)
  /\ Goto(t, "events", [loc[t] EXCEPT !.ans = [vobmod |-> VobMod(mn, @), domod |-> DoMod(mn, @)]])
  /\ UNCHANGED <<srv, attrgen, thr, open, recorded, logical, spoiled, touched>>
LookupEvents(t) ==
  LET m == ModEvents(mn, loc[t].ans.vobmod, loc[t].ans.domod)
  IN /\ pc[t] = "events" /\ Goto(t, "idle", loc[t])
     /\ mn' = IF loc[t].ans.domod THEN ClearRele(m) ELSE m
     /\ UNCHANGED <<srv, attrgen, thr, open, recorded, logical, spoiled, touched>>

-----------------------------------------------------------------------------
(* What happens around this host.                                          *)

Env == UNCHANGED <<mn, attrgen, thr, open, pc, loc, recorded, logical, spoiled, touched, work>>
\* The scrubber removes a shared cleartext, in use here or not.
Scrub == Has("scrub") /\ srv.file[Sh] = 1 /\ srv' = [srv EXCEPT !.file[Sh] = 0] /\ Env
\* Another host copies the object: it tells the view, creates the file and fills it.
OtherChoid ==
  /\ Has("cow") /\ srv.ct = Sh /\ srv.oid < MaxOid /\ Env
  /\ srv' = [srv EXCEPT !.ct = Pv, !.oid = @ + 1, !.aud = FALSE, !.cow = TRUE]
OtherCreate ==
  /\ srv.cow /\ Env
  /\ srv' = IF srv.file[Pv] # 0 THEN [srv EXCEPT !.cow = FALSE]
            ELSE [srv EXCEPT !.cow = FALSE, !.file[Pv] = 1, !.data[<<Pv, 1>>] = logical.v]
\* The element is protected: an event in the VOB.
Protect == Has("protect") /\ srv.ev = 0 /\ srv' = [srv EXCEPT !.ev = 1] /\ Env
\* An hour passes: the attributes and the validation of the cleartext time out.
TimePasses ==
  /\ Has("time") /\ (mn.live \/ mn.young) /\ mn' = [mn EXCEPT !.live = FALSE, !.young = FALSE]
  /\ UNCHANGED <<srv, attrgen, thr, open, pc, loc, recorded, logical, spoiled, touched, work>>

Init ==
  /\ srv = [ct |-> Sh, oid |-> 1, aud |-> FALSE, ev |-> 0, size |-> 1, cow |-> FALSE,
            file |-> [c \in Cts |-> IF c = Sh THEN 1 ELSE 0],
            data |-> [v \in Vnodes |-> IF v[1] = Sh THEN 1 ELSE 0]]
  /\ mn = [rv |-> Null, nm |-> Null, ro |-> FALSE, pcvp |-> FALSE, pnm |-> FALSE, open |-> 0, wopen |-> 0,
           creds |-> {}, young |-> FALSE, ref |-> [v \in Vnodes |-> 0], cop |-> [v \in Vnodes |-> 0],
           oid |-> 1, aud |-> FALSE, ev |-> 0, size |-> 1, mt |-> Sh, gen |-> 0, fetched |-> 0, live |-> TRUE,
           choidby |-> Null, cva |-> 1, syncc |-> FALSE, dirty |-> FALSE, cred |-> "none", unsynced |-> FALSE,
           leaked |-> [v \in Vnodes |-> 0]]
  /\ attrgen = 0 /\ thr = [t \in Threads |-> [gen |-> 0, mark |-> 0]]
  /\ open = [t \in Threads |-> "none"] /\ pc = [t \in Threads |-> "idle"] /\ loc = [t \in Threads |-> NoLoc]
  /\ recorded = {} /\ logical = [n |-> 1, v |-> 1] /\ spoiled = FALSE /\ touched = {} /\ work \in Workloads

Ops(t) ==
  \/ StartOpen(t) \/ StartRead(t) \/ StartWrite(t) \/ StartTrunc(t) \/ StartMode(t) \/ StartGetattr(t)
  \/ Cto(t) \/ OpenGet(t) \/ AuditChoid(t) \/ Relock(t) \/ OpenCltxt(t) \/ Close(t)
  \/ PreRdwr(t) \/ CheckWrite(t) \/ Dropped(t) \/ Io(t) \/ PostRdwr(t) \/ AuditRdwr(t)
  \/ Setattr(t) \/ SetCltxt(t) \/ GetattrSync(t) \/ Judge(t) \/ Fetch(t) \/ Use(t)
  \/ MarkBump(t) \/ MarkRead(t) \/ LookupAnswer(t) \/ LookupSet(t) \/ LookupEvents(t)
Around == Inactive \/ Scrub \/ OtherChoid \/ OtherCreate \/ Protect \/ TimePasses
Next == Around \/ \E t \in Threads : Ops(t)
Spec == Init /\ [][Next]_vars

-----------------------------------------------------------------------------
(* Properties.                                                             *)

Users(v) == {t \in Threads : loc[t].v = v /\ pc[t] \in {"audit", "relock", "write", "io", "post", "dropped"}}

\* The mnode and the threads keep their types.
TypeOK ==
  /\ mn.rv \in Vnodes \cup {Null} /\ mn.nm \in Cts \cup {Null} /\ mn.creds \subseteq {CredOf[t] : t \in Threads}
  /\ mn.ref \in [Vnodes -> Nat] /\ mn.cop \in [Vnodes -> Nat] /\ mn.open \in Nat /\ mn.wopen \in Nat
  /\ srv.oid \in Nat /\ srv.file \in [Cts -> 0 .. 2] /\ attrgen \in 0 .. MaxGen

\* Every vnode of a cleartext that the mnode or a transfer uses is held, once for each: none is used
\* after its last release.  The references that mvfs_pre_rdwr leaves behind are counted apart.
RefsHeld == \A v \in Vnodes :
  mn.ref[v] = (IF mn.rv = v THEN 1 ELSE 0) + Cardinality(Users(v)) + mn.leaked[v]

\* Opens of the file and of its cleartext come in pairs: while the file is open its cleartext is bound,
\* is not exchanged, and is opened as often as the file is (mvfs_openv_ctx, mfs_clear_closevp).
OpensPaired ==
  /\ mn.open = Cardinality({t \in Threads : open[t] # "none"})
  /\ mn.wopen = Cardinality({t \in Threads : open[t] \in {"w", "t"}})
  /\ \A v \in Vnodes : mn.cop[v] = IF mn.rv = v THEN mn.open ELSE 0
  /\ mn.open > 0 => mn.rv # Null
  /\ mn.wopen > 0 => ~mn.ro

\* References to the cleartext and opens of it balance, whatever fails on the way.
FileSound == TypeOK /\ RefsHeld /\ OpensPaired

\* The data other views share is never written to, nor are its attributes set.
SharedIntact == \A v \in touched : v[1] = Pv

\* Whatever copies were made, by this host or another, the object has the data that was written last,
\* once no truncation is under way.
DataKept ==
  LET v == <<srv.ct, srv.file[srv.ct]>>
  IN (v \in Vnodes /\ ~spoiled /\ \A t \in Threads : loc[t].mode # "t") => srv.data[v] = logical.v

\* A transfer uses the cleartext for a credential that found its own way to it.
PathChecked == \A t \in Threads : pc[t] \in {"io", "post"} => CredOf[t] \notin work.barred

\* The cleartext is touched only as a private copy, and used only by those who could find it.
CleartextSafe == SharedIntact /\ PathChecked

\* An OID that was in another audit, and marked so, when a write began is not the OID the write is made under.
ChoidBeforeWrite == \A t \in Threads :
  (pc[t] = "io" /\ Writes(loc[t].mode)) =>
    \A r \in loc[t].began : ~(r[1] # AuditOf[t] /\ r[2] = loc[t].oid)

\* A process that set a marker uses no attributes the view gave before it (mvfs_set_ac_timeout).
MarkerFresh == \A t \in Threads : pc[t] = "use" => mn.fetched >= thr[t].mark

\* When all writers have closed the file, and no call failed, the view knows its size.
ClosedSynced ==
  (mn.wopen = 0 /\ ~mn.unsynced /\ Busy = {} /\ ~spoiled /\ srv.ct = Pv /\ srv.file[Pv] # 0 /\ mn.mt = Pv
     /\ mn.cred = "w" /\ mn.rv = <<Pv, 1>>) => srv.size = srv.data[<<Pv, 1>>]

\* The audit learns of a change before the data changes, and the view of it at the last close.
ViewInformed == ChoidBeforeWrite /\ ClosedSynced
=============================================================================
