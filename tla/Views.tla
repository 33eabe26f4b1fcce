------------------------------- MODULE Views --------------------------------
(***************************************************************************)
(* The view directory (mvfs_vwdirops.c), the ioctl commands on view tags   *)
(* (mvfs_mioctl.c), the view a process has set (mvfs_linux_mdki.c), and    *)
(* the binding of a VOB root to a view (mvfs_vnodeops.c, mvfs_vfsops.c).   *)
(*                                                                         *)
(* dir.slot is the ramdir after its fixed entries; the number of its slot  *)
(* is the id of a view, 0 (MFS_NULLVID) the id of a removed one.  cnt is   *)
(* the reference count of a view vnode: its slot, every process with the   *)
(* view set, every operation under way and every mnode of the view, in use *)
(* or idle, hold one.  dir.exp is the table of exported views that NFS     *)
(* handles index.  A step is what runs under one hold of the lock of the   *)
(* view directory; mkviewtag has a lock of its own, rmviewtag has none.    *)
(* With work.serial the commands on tags and the NFS requests run one      *)
(* after another, among the operations of users.                           *)
(***************************************************************************)
EXTENDS Vfs

CONSTANTS
  Threads,
  Tags, Uuids,       \* view tags; identities of view storage
  Views,             \* view vnodes
  Chunk, MaxExport,  \* MVFS_EXPORT_CHUNK; bound: export ids
  MaxMounts,         \* bound: generation number of mounts
  Workloads          \* ops, max (operations begun), serial, mounted, exported, minors, slots (for views)

\* Null is neither a view, a VOB, a number nor the name of an operation; the minors hold the fixed pair;
\* what is mounted has a path, and an exported view a tag and a thread in it.
ASSUME ViewsAssumption ==
  /\ IsFiniteSet(Threads) /\ IsFiniteSet(Vobs) /\ Chunk \in Nat \ {0} /\ MaxExport \in Nat
  /\ Null \notin Views \cup Vobs \cup Nat \cup {"mk", "rm", "rmall", "export", "unexport", "vget", "hm", "view"}
  /\ Null \notin [nm : [tag : Tags, hm : BOOLEAN], vw : Views]
  /\ \A w \in Workloads : /\ w.slots \in Nat /\ w.minors \in Nat \ {0, 1}
                          /\ w.mounted => {} \notin {Vobs, Paths}
                          /\ w.exported => {} \notin {Threads, Views, Vobs, Tags, Uuids} /\ w.slots # 0

VARIABLES dir, proc, pc, loc, fhs, begun
vars == <<sys, work, dir, proc, pc, loc, fhs, begun>>

Slots == 1..work.slots
NoView == [cnt |-> 0, tag |-> Null, hm |-> FALSE, id |-> 0, ex |-> Null, uuid |-> Null, full |-> FALSE,
           mn |-> [v \in Vobs |-> "none"]]
NoLoc == [op |-> Null, tag |-> Null, uuid |-> Null, vw |-> Null, base |-> Null, ex |-> 0, vob |-> Null, fh |-> Null,
          num |-> 0, dead |-> {}, off |-> 0, hm |-> FALSE]
Nowhere == [vw |-> Null, vob |-> Null]

Has(op) == op \in work.ops
Hold(d, v) == [d EXCEPT !.vw[v].cnt = @ + 1]
Rele(d, v) == IF d.vw[v].cnt = 1 THEN [d EXCEPT !.vw[v] = NoView] ELSE [d EXCEPT !.vw[v].cnt = @ - 1]
ReleIf(d, v) == IF v = Null THEN d ELSE Rele(d, v)
Present(d) == {i \in Slots : d.slot[i] # Null}
SlotOf(d, nm) == {i \in Present(d) : d.slot[i].nm = nm}
VwAt(d, i) == d.slot[i].vw

-----------------------------------------------------------------------------
(* Mnodes of a view: in use by processes, or idle on the free list.         *)
Using(v, m) == {t \in Threads : proc[t].cwd = [vw |-> v, vob |-> m]}
\* mfs_mnflushvw: idle mnodes of the view go.
Flushed(w, M) ==
  LET idle == {m \in M : w.mn[m] = "idle"}
      left == w.cnt - Cardinality(idle)
  IN IF left = 0 THEN NoView
     ELSE [w EXCEPT !.cnt = left, !.mn = [m \in Vobs |-> IF m \in idle THEN "none" ELSE @[m]]]
FlushVw(d, v) == [d EXCEPT !.vw[v] = Flushed(@, Vobs)]
FlushMounts(d, M) == [d EXCEPT !.vw = [v \in Views |-> Flushed(@[v], M)]]
\* mfs_getvnode: the root of VOB m in view v, in use.
Activate(d, v, m) == IF d.vw[v].mn[m] = "none" THEN [Hold(d, v) EXCEPT !.vw[v].mn[m] = "used"]
                     ELSE [d EXCEPT !.vw[v].mn[m] = "used"]
\* A process leaves: the last user of an mnode leaves it idle, or destroys it if its view is gone.
Leave(d, t) ==
  LET v == proc[t].cwd.vw
      m == proc[t].cwd.vob
  IN IF v = Null THEN d
     ELSE IF m = Null THEN Rele(d, v)
     ELSE IF Using(v, m) # {t} THEN d
     ELSE IF d.vw[v].id = 0 THEN Rele([d EXCEPT !.vw[v].mn[m] = "none"], v)
     ELSE [d EXCEPT !.vw[v].mn[m] = "idle"]

-----------------------------------------------------------------------------
(* The ramdir.                                                              *)
FreeSlot(d) == Least({i \in Slots : d.slot[i] = Null})
RamdirAdd(d, nm, v) == [Hold(d, v) EXCEPT !.slot[FreeSlot(d)] = [nm |-> nm, vw |-> v]]
CanAdd(d, nm) == SlotOf(d, nm) = {} /\ Present(d) # Slots
RamdirRemove(d, i) == [d EXCEPT !.slot[i] = Null]
NewView == {v \in Views : dir.vw[v].cnt = 0}
\* makespecnode and the names mfs_viewdirmkdir fills in; the caller holds it.
MakeView(d, v, nm) == [d EXCEPT !.vw[v] = [NoView EXCEPT !.cnt = 1, !.tag = nm]]
Name(tag, hm) == [tag |-> tag, hm |-> hm]

-----------------------------------------------------------------------------
Goto(t, p, l) == pc' = [pc EXCEPT ![t] = p] /\ loc' = [loc EXCEPT ![t] = IF p = "idle" THEN NoLoc ELSE l]
Admin == {"mk", "rm", "rmall", "export", "unexport", "vget"}
Same == UNCHANGED <<sys, work, fhs, begun>>
DirFree == \A t \in Threads : pc[t] # "oops"      \* a thread that died holds the directory lock
Step(t, p) == pc[t] = p /\ DirFree /\ Same
Stay == UNCHANGED proc
Begin(t, op, p, l) ==
  /\ pc[t] = "idle" /\ Has(op) /\ begun < work.max /\ sys.root # Null /\ DirFree
  /\ work.serial /\ op \in Admin => \A u \in Threads : loc[u].op \notin Admin
  /\ begun' = begun + 1
  /\ Goto(t, p, [l EXCEPT !.op = op, !.dead = {v \in Views : dir.vw[v].cnt > 0 /\ dir.vw[v].id = 0}])
  /\ UNCHANGED <<sys, work, dir, proc, fhs>>
Return(t) == Goto(t, "idle", NoLoc)

-----------------------------------------------------------------------------
(* mvfs_mkviewtag, under mvfs_mkviewtag_lock.                               *)
MkStart(t) == \E g \in Tags, u \in Uuids : Begin(t, "mk", "mk", [NoLoc EXCEPT !.tag = g, !.uuid = u])
Mk(t) == Step(t, "mk") /\ Stay /\ \A u \in Threads : loc[u].op = "mk" => pc[u] = "mk"
TagGone(t) == SlotOf(dir, Name(loc[t].tag, FALSE)) = {}
\* The tag exists: its address is brought up to date, or EEXIST.
MkFound(t) == Mk(t) /\ ~TagGone(t) /\ Return(t) /\ UNCHANGED dir
\* mfs_ramdir_add on behalf of an operation that holds v.
Add(t, d, v, nm, p, l) ==
  IF CanAdd(d, nm) THEN dir' = RamdirAdd(d, nm, v) /\ Goto(t, p, [l EXCEPT !.vw = v, !.num = FreeSlot(d)])
  ELSE dir' = ReleIf(Rele(d, v), l.base) /\ Return(t)
\* mvfs_viewuuidrecover: a removed view of the same storage and tag that is still in use.
Recoverable(l) == {v \in Views : LET w == dir.vw[v] IN
                     w.cnt > 0 /\ w.id = 0 /\ w.uuid = l.uuid /\ w.tag = Name(l.tag, FALSE)}
MkRecover(t) ==
  /\ Mk(t) /\ TagGone(t) /\ Recoverable(loc[t]) # {}
  /\ LET v == CHOOSE x \in Recoverable(loc[t]) : TRUE
     IN Add(t, Hold(dir, v), v, Name(loc[t].tag, FALSE), "mkid", loc[t])
MkNew(t) ==
  /\ Mk(t) /\ TagGone(t) /\ Recoverable(loc[t]) = {} /\ NewView # {}
  /\ LET v == CHOOSE x \in NewView : TRUE
         nm == Name(loc[t].tag, FALSE)
     IN Add(t, MakeView(dir, v, nm), v, nm, "mkid", loc[t])
\* The id is set once the directory was unlocked.
SetId(d, v, n) == [d EXCEPT !.vw[v].id = n, !.vw[v].ex = Null]
Alive(v) == [u \in Threads |-> [loc[u] EXCEPT !.dead = @ \ {v}]]
InsertId(t) ==
  /\ pc[t] \in {"mkid", "hmid"} /\ DirFree /\ Same /\ Stay
  /\ dir' = SetId(dir, loc[t].vw, loc[t].num)
  /\ pc' = [pc EXCEPT ![t] = IF @ = "mkid" THEN "mkfill" ELSE "hmfill"] /\ loc' = Alive(loc[t].vw)
MkFill(t) == LET v == loc[t].vw IN
  /\ Step(t, "mkfill") /\ Stay
  /\ dir' = Rele([dir EXCEPT !.vw[v].uuid = loc[t].uuid, !.vw[v].full = TRUE], v) /\ Return(t)

-----------------------------------------------------------------------------
(* mfs_viewdirrmdir, for a tag and then for its history mode form.          *)
RmStart(t) == \E g \in Tags : Begin(t, "rm", "rm", [NoLoc EXCEPT !.tag = g])
RmDone(t) == IF loc[t].op = "rmall" THEN Goto(t, "rmall", [loc[t] EXCEPT !.tag = Null, !.vw = Null, !.hm = FALSE]) ELSE Return(t)
RmRemove(t) == LET S == SlotOf(dir, Name(loc[t].tag, loc[t].hm)) IN
  /\ Step(t, "rm") /\ Stay
  /\ IF S = {} THEN RmDone(t) /\ UNCHANGED dir
     ELSE /\ dir' = RamdirRemove(dir, Least(S))
          /\ Goto(t, IF loc[t].hm THEN "rmflush" ELSE "rmexp", [loc[t] EXCEPT !.vw = VwAt(dir, Least(S))])
\* Mutant: the export table keeps the view.
UnexportKeepsTable(d, v) == [d EXCEPT !.vw[v].ex = Null]
\* mvfs_viewdirunexport
Unexport(d, v) == IF d.vw[v].ex = Null THEN d
                  ELSE [d EXCEPT !.exp[d.vw[v].ex] = Null, !.vw[v].ex = Null]
RmUnexport(t) == Step(t, "rmexp") /\ Stay /\ dir' = Unexport(dir, loc[t].vw) /\ Goto(t, "rmflush", loc[t])
RmFlush(t) == Step(t, "rmflush") /\ Stay /\ dir' = FlushVw(dir, loc[t].vw) /\ Goto(t, "rmid", loc[t])
RmId(t) ==
  /\ Step(t, "rmid") /\ Stay
  /\ dir' = Rele([dir EXCEPT !.vw[loc[t].vw].id = 0], loc[t].vw)
  /\ IF loc[t].hm THEN RmDone(t) ELSE Goto(t, "rm", [loc[t] EXCEPT !.vw = Null, !.hm = TRUE])

\* mvfs_rmallviewtags: reads one entry after another by its place among the entries
\* that are left (mvfs_viewdirreaddir), and removes it.
RmAllStart(t) == Begin(t, "rmall", "rmall", NoLoc)
Readdir(d, off) == {i \in Present(d) : Cardinality({j \in Present(d) : j < i}) = off}
RmAllNext(t) == LET E == Readdir(dir, loc[t].off) IN
  /\ Step(t, "rmall") /\ Stay /\ UNCHANGED dir
  /\ IF E = {} THEN Return(t)
     ELSE LET nm == dir.slot[Least(E)].nm
          IN Goto(t, "rm", [loc[t] EXCEPT !.tag = nm.tag, !.hm = nm.hm, !.off = @ + 1])

-----------------------------------------------------------------------------
(* Export of views, and NFS handles.                                        *)
ExportStart(t) == \E op \in {"export", "unexport"}, g \in Tags, e \in 1..MaxExport :
  (op = "unexport" => e = 1) /\ Begin(t, op, "tag", [NoLoc EXCEPT !.tag = g, !.ex = e])
\* mfs_viewtaglookup: the view, held.
TagLookup(t) == LET S == SlotOf(dir, Name(loc[t].tag, FALSE)) IN
  /\ Step(t, "tag") /\ Stay
  /\ IF S = {} THEN Return(t) /\ UNCHANGED dir
     ELSE dir' = Hold(dir, VwAt(dir, Least(S)))
          /\ Goto(t, loc[t].op, [loc[t] EXCEPT !.vw = VwAt(dir, Least(S))])
\* mvfs_viewdirexport: EEXIST if the view or the export id is taken; the table grows by chunks.
Grown(exp, e) == IF e <= Len(exp) THEN exp
                 ELSE [i \in 1..(((e + Chunk - 1) \div Chunk) * Chunk) |-> IF i <= Len(exp) THEN exp[i] ELSE Null]
Exported(d, v, e) ==
  LET g == Grown(d.exp, e)
  IN IF d.vw[v].ex \notin {Null, e} \/ g[e] \notin {Null, d.vw[v].id} THEN d
     ELSE [d EXCEPT !.exp = [g EXCEPT ![e] = d.vw[v].id], !.vw[v].ex = e]
Export(t) == Step(t, "export") /\ Stay /\ Return(t) /\ dir' = Rele(Exported(dir, loc[t].vw, loc[t].ex), loc[t].vw)
UnexportTag(t) == Step(t, "unexport") /\ Stay /\ Return(t) /\ dir' = Rele(Unexport(dir, loc[t].vw), loc[t].vw)

\* mfs_vfid: a handle of an object in an exported view carries the hash of its storage.
MakeHandle(t) == LET c == proc[t].cwd IN
  /\ pc[t] = "idle" /\ Has("vget") /\ c.vob # Null /\ dir.vw[c.vw].ex # Null
  /\ fhs' = fhs \cup {[ex |-> dir.vw[c.vw].ex, uuid |-> dir.vw[c.vw].uuid, vob |-> c.vob]}
  /\ fhs' # fhs /\ UNCHANGED <<sys, work, dir, proc, pc, loc, begun>>
VgetStart(t) == \E h \in fhs : proc[t].cwd = Nowhere /\ sys.mnt[h.vob] # Null
                               /\ Begin(t, "vget", "vget", [NoLoc EXCEPT !.fh = h])
\* mvfs_vget_cd: the view that the export table leads to, unless its slot is empty.
VgetView(t) ==
  LET h == loc[t].fh
      s == IF h.ex <= Len(dir.exp) THEN dir.exp[h.ex] ELSE Null
  IN /\ Step(t, "vget") /\ Stay
     /\ IF s = Null THEN Return(t) /\ UNCHANGED dir
        ELSE IF s = 0 \/ s \notin Present(dir) THEN Goto(t, "oops", loc[t]) /\ UNCHANGED dir
        ELSE dir' = Hold(dir, VwAt(dir, s)) /\ Goto(t, "vgetnode", [loc[t] EXCEPT !.vw = VwAt(dir, s)])
\* The generation without the hash names nothing in another view: ESTALE.
SameGeneration(w, h) == w.uuid = h.uuid
VgetNode(t) ==
  LET h == loc[t].fh
      v == loc[t].vw
  IN /\ Step(t, "vgetnode")
     /\ IF SameGeneration(dir.vw[v], h) /\ sys.mnt[h.vob] # Null
        THEN dir' = Rele(Activate(dir, v, h.vob), v)
             /\ proc' = [proc EXCEPT ![t].cwd = [vw |-> v, vob |-> h.vob]] /\ Goto(t, "got", loc[t])
        ELSE dir' = Rele(dir, v) /\ Return(t) /\ Stay
Got(t) == Step(t, "got") /\ Return(t) /\ Stay /\ UNCHANGED dir

-----------------------------------------------------------------------------
(* History mode views.                                                      *)
HmStart(t) == \E g \in Tags : proc[t].cwd = Nowhere /\ Begin(t, "hm", "tag", [NoLoc EXCEPT !.tag = g])
\* mfs_viewdirhmview: stale if the id is 0 or the slot of the id is empty.  The lookup
\* took the tail off the name, so that the view is not itself a history mode view.
HmStale(d, v) == d.vw[v].id = 0 \/ d.vw[v].id \notin Present(d)
HmFind(t) ==
  LET v == loc[t].vw
      nm == Name(dir.slot[dir.vw[v].id].nm.tag, TRUE)
      S == SlotOf(dir, nm)
  IN /\ Step(t, "hm") /\ Stay
     /\ IF HmStale(dir, v) THEN dir' = Rele(dir, v) /\ Return(t)
        ELSE IF S # {}
        THEN dir' = Hold(dir, VwAt(dir, Least(S))) /\ Goto(t, "hmfill", [loc[t] EXCEPT !.base = v, !.vw = VwAt(dir, Least(S))])
        ELSE dir' = dir /\ Goto(t, "hmnew", [loc[t] EXCEPT !.tag = nm.tag, !.base = v, !.vw = Null])
HmNew(t) ==
  /\ Step(t, "hmnew") /\ Stay /\ NewView # {}
  /\ LET v == CHOOSE x \in NewView : TRUE
         nm == Name(loc[t].tag, TRUE)
     IN Add(t, MakeView(dir, v, nm), v, nm, "hmid", loc[t])
\* The server of the base view is copied; the base is released.  Copying the credentials
\* cannot fail (mvfs_systm.h 548-558): the error path of lines 1092-1096 is never taken.
HmFill(t) == LET v == loc[t].vw IN
  /\ Step(t, "hmfill") /\ Stay
  /\ dir' = Rele([dir EXCEPT !.vw[v].uuid = dir.vw[loc[t].base].uuid, !.vw[v].full = dir.vw[loc[t].base].full,
                             !.vw[v].hm = TRUE], loc[t].base)
  /\ Goto(t, "view", [loc[t] EXCEPT !.base = Null])
\* mfs_viewdircleanhm, from the periodic sync: history mode views nobody has used for long.
CleanHm == \E i \in Present(dir) :
  LET v == VwAt(dir, i)
      d == FlushVw(dir, v)
  IN /\ Has("clean") /\ DirFree /\ dir.vw[v].hm
     /\ dir' = IF d.vw[v].cnt = 1 THEN Rele(RamdirRemove(d, i), v) ELSE d
     /\ dir' # dir /\ UNCHANGED <<sys, work, proc, pc, loc, fhs, begun>>

-----------------------------------------------------------------------------
(* The views of processes.                                                  *)
LookupStart(t) == \E g \in Tags : proc[t].cwd = Nowhere /\ Begin(t, "view", "tag", [NoLoc EXCEPT !.tag = g])
\* A lookup in the view directory ends in the view; its hold becomes that of the directory.
LookupDone(t) ==
  /\ Step(t, "view") /\ UNCHANGED dir /\ Goto(t, "idle", NoLoc)
  /\ proc' = [proc EXCEPT ![t].cwd = [vw |-> loc[t].vw, vob |-> Null]]
\* mvfs_setprocview and SETVIEW^: the root of the process holds the view; every path uses up the hold.
SetviewStart(t) == \E g \in Tags : Begin(t, "set", "tag", [NoLoc EXCEPT !.tag = g])
\* Mutant: the hold of the lookup is not used up.
SetLeak(t) ==
  /\ Step(t, "set") /\ Return(t)
  /\ proc' = [proc EXCEPT ![t].view = loc[t].vw] /\ dir' = dir
SetProcView(t) ==
  /\ Step(t, "set") /\ Return(t)
  /\ proc' = [proc EXCEPT ![t].view = loc[t].vw] /\ dir' = ReleIf(dir, proc[t].view)
Here(t) == pc[t] = "idle" /\ DirFree /\ Same
SetHere(t) == LET c == proc[t].cwd IN        \* SETVIEW^ in the view tag
  /\ Here(t) /\ Has("set") /\ c.vw # Null /\ c.vob = Null /\ proc[t].view # c.vw
  /\ dir' = ReleIf(Hold(dir, c.vw), proc[t].view) /\ proc' = [proc EXCEPT ![t].view = c.vw] /\ UNCHANGED <<pc, loc>>
ClrView(t) ==                                \* CLRVIEW^
  /\ Here(t) /\ Has("set") /\ proc[t].view # Null
  /\ dir' = Rele(dir, proc[t].view) /\ proc' = [proc EXCEPT ![t].view = Null] /\ UNCHANGED <<pc, loc>>
CurView(t) ==                                \* CURVIEW^
  /\ Here(t) /\ Has("set") /\ proc[t].view # Null /\ proc[t].cwd = Nowhere
  /\ dir' = Hold(dir, proc[t].view) /\ proc' = [proc EXCEPT ![t].cwd = [vw |-> proc[t].view, vob |-> Null]]
  /\ UNCHANGED <<pc, loc>>
\* ".." of a view, of a VOB root in a view, or the end of the process.
Up(t) ==
  /\ Here(t) /\ proc[t].cwd # Nowhere /\ UNCHANGED <<pc, loc>>
  /\ dir' = Leave(dir, t) /\ proc' = [proc EXCEPT ![t].cwd = Nowhere]

-----------------------------------------------------------------------------
(* mfs_bindroot: a VOB root in the view of the directory or of the process. *)
BindStart(t) == \E m \in Vobs : sys.mnt[m] # Null /\ proc[t].cwd.vob = Null
                                /\ Begin(t, "bind", "bind", [NoLoc EXCEPT !.vob = m])
\* mfs_makeloopnode: outside the view that is set, the root carries the view of the path;
\* a removed view is ESTALE there, and not used by mfs_getview.
GetView(t) == LET c == proc[t].cwd.vw
                  p == proc[t].view
              IN IF c # Null /\ c # p THEN (IF dir.vw[c].id # 0 /\ dir.vw[c].full THEN c ELSE Null) ELSE p
BindGet(t) == LET v == GetView(t) IN
  /\ Step(t, "bind") /\ Stay
  /\ IF v = Null THEN Return(t) /\ UNCHANGED dir
     ELSE dir' = Hold(dir, v) /\ Goto(t, "rvc", [loc[t] EXCEPT !.vw = v])
\* Mutant: a removed view is asked.
BindAnyView(t) == Step(t, "rvc") /\ Stay /\ UNCHANGED dir /\ Goto(t, "ask", loc[t])
\* mvfs_rvclookup: a removed view is ESTALE.
BindCheck(t) ==
  /\ Step(t, "rvc") /\ Stay
  /\ IF dir.vw[loc[t].vw].id = 0 THEN dir' = Rele(dir, loc[t].vw) /\ Return(t)
     ELSE UNCHANGED dir /\ Goto(t, "ask", loc[t])
\* mfs_clnt_bindroot names the root; the process is in it.
BindRoot(t) ==
  LET v == loc[t].vw
      m == loc[t].vob
  IN /\ Step(t, "ask")
     /\ \/ sys.mnt[m] # Null
           /\ dir' = Leave(Rele(Activate(dir, v, m), v), t)
           /\ proc' = [proc EXCEPT ![t].cwd = [vw |-> v, vob |-> m]] /\ Goto(t, "bound", loc[t])
        \/ dir' = Rele(dir, v) /\ Stay /\ Return(t)            \* the view server answers with an error
Bound(t) == Step(t, "bound") /\ Return(t) /\ Stay /\ UNCHANGED dir

-----------------------------------------------------------------------------
(* Mounts.  The kernel does not unmount what an operation is in; a process  *)
(* in a VOB or with a view set is found by the checks of mfs_vunmount.      *)
Quiet == \A t \in Threads : pc[t] = "idle"
MountAny == \E v \in Vfss, r \in Requests, f \in Faults :
  /\ Has("mount") /\ begun < work.max /\ begun' = begun + 1
  /\ Mount(v, r, f) /\ UNCHANGED <<work, dir, proc, pc, loc, fhs>>
UnmountVob == \E m \in Vobs :
  /\ Has("mount") /\ begun < work.max /\ begun' = begun + 1 /\ Quiet /\ sys.mnt[m] # Null /\ sys.gen < MaxMounts
  /\ dir' = FlushMounts(dir, {m})
  /\ sys' = IF \E v \in Views : dir.vw[v].mn[m] = "used" THEN sys ELSE Unmounted(sys, m)
  /\ UNCHANGED <<work, proc, pc, loc, fhs>>
\* Idle mnodes are flushed; a view with another reference than its slot, or in no slot, is busy.
ViewsBusy(d) == \E v \in Views : d.vw[v].cnt > IF v \in {VwAt(d, i) : i \in Present(d)} THEN 1 ELSE 0
UnmountRoot == LET d == FlushMounts(dir, Vobs) IN
  /\ Has("mount") /\ begun < work.max /\ begun' = begun + 1 /\ Quiet /\ sys.root # Null /\ sys.gen < MaxMounts
  /\ IF ViewsBusy(d) THEN dir' = d /\ sys' = sys
     ELSE dir' = [d EXCEPT !.slot = [i \in Slots |-> Null], !.vw = [v \in Views |-> NoView], !.exp = << >>]
          /\ sys' = Unmounted(sys, RootVfs)
  /\ UNCHANGED <<work, proc, pc, loc, fhs>>
UnloadModule == Has("unload") /\ Unload /\ UNCHANGED <<work, dir, proc, pc, loc, fhs, begun>>

-----------------------------------------------------------------------------
FirstOf(S) == CHOOSE x \in S : TRUE
Standing == IF work.mounted
            THEN LET Vob(s, m) == MountOutcome(s, m, [type |-> "vob", path |-> FirstOf(Paths), fixed |-> FALSE], "none")
                 IN Vob(MountOutcome(NoMounts, RootVfs, [type |-> "view", path |-> Null, fixed |-> FALSE], "none"),
                        FirstOf(Vobs))
            ELSE NoMounts
\* With work.exported, an exported view in which a process is at the root of a VOB.
Empty == [slot |-> [i \in Slots |-> Null], vw |-> [v \in Views |-> NoView], exp |-> << >>]
InVob == [vw |-> FirstOf(Views), vob |-> FirstOf(Vobs)]
OneExported ==
  LET v == InVob.vw
      d == RamdirAdd(MakeView(Empty, v, Name(FirstOf(Tags), FALSE)), Name(FirstOf(Tags), FALSE), v)
      f == [SetId(d, v, 1) EXCEPT !.vw[v].uuid = FirstOf(Uuids), !.vw[v].full = TRUE]
  IN Activate(Rele(Exported(f, v, 1), v), v, InVob.vob)
Init ==
  /\ work \in Workloads /\ sys = Standing
  /\ dir = IF work.exported THEN OneExported ELSE Empty
  /\ proc = [t \in Threads |-> [view |-> Null, cwd |-> IF work.exported /\ t = FirstOf(Threads) THEN InVob ELSE Nowhere]]
  /\ pc = [t \in Threads |-> "idle"] /\ loc = [t \in Threads |-> NoLoc] /\ fhs = {} /\ begun = 0

Command(t) == \/ MkStart(t) \/ MkFound(t) \/ MkRecover(t) \/ MkNew(t) \/ InsertId(t) \/ MkFill(t)
              \/ RmStart(t) \/ RmRemove(t) \/ RmUnexport(t) \/ RmFlush(t) \/ RmId(t) \/ RmAllStart(t) \/ RmAllNext(t)
              \/ ExportStart(t) \/ TagLookup(t) \/ Export(t) \/ UnexportTag(t)
Nfs(t) == MakeHandle(t) \/ VgetStart(t) \/ VgetView(t) \/ VgetNode(t) \/ Got(t)
User(t) == \/ HmStart(t) \/ HmFind(t) \/ HmNew(t) \/ HmFill(t) \/ LookupStart(t) \/ LookupDone(t)
           \/ SetviewStart(t) \/ SetProcView(t) \/ SetHere(t) \/ ClrView(t) \/ CurView(t) \/ Up(t)
           \/ BindStart(t) \/ BindGet(t) \/ BindCheck(t) \/ BindRoot(t) \/ Bound(t)
Next == \/ \E t \in Threads : Command(t) \/ Nfs(t) \/ User(t)
        \/ CleanHm \/ MountAny \/ UnmountVob \/ UnmountRoot \/ UnloadModule
Spec == Init /\ [][Next]_vars

-----------------------------------------------------------------------------
Holds(v) ==
  Cardinality({i \in Present(dir) : VwAt(dir, i) = v}) + Cardinality({m \in Vobs : dir.vw[v].mn[m] # "none"})
  + Cardinality({t \in Threads : proc[t].view = v}) + Cardinality({t \in Threads : proc[t].cwd = [vw |-> v, vob |-> Null]})
  + Cardinality({t \in Threads : loc[t].vw = v /\ pc[t] \notin {"bound", "got"}}) + Cardinality({t \in Threads : loc[t].base = v})

\* The reference count of every view is the number of its holders, so none is freed
\* under a process, an mnode or an operation, and none is kept for ever, whatever
\* commands on tags interleave (mvfs_ramdir_insert, mfs_viewdirrmdir,
\* mfs_viewdirhmview, mdki_linux_proc_setview).
ViewsHeld ==
  /\ \A v \in Views : dir.vw[v].cnt = Holds(v)
  /\ \A v \in Views, m \in Vobs : (dir.vw[v].mn[m] = "used") = (Using(v, m) # {})

\* A VOB is never bound in a view that had been removed when the operation began and
\* was not brought back since (mvfs_rvclookup, mfs_getview, mfs_makevobrtnode).
StaleRefused == \A t \in Threads : pc[t] \in {"bound", "got"} /\ work.serial => proc[t].cwd.vw \notin loc[t].dead

\* Between commands, the id of a view is its slot, exported views and the export table
\* agree, and a history mode view has the server of its tag; an NFS handle only ever
\* leads to an object of the view it was made in (mvfs_viewdirexport, mvfs_vget_cd,
\* mfs_viewdirhmview).
Busy(v) == \E t \in Threads : v \in {loc[t].vw, loc[t].base}
DirSound == work.serial =>
  /\ \A i \in Present(dir) : LET v == VwAt(dir, i) IN ~Busy(v) => dir.vw[v].id = i /\ (dir.vw[v].full \/ dir.slot[i].nm.hm)
  /\ \A v \in Views : dir.vw[v].ex # Null /\ ~Busy(v) => dir.exp[dir.vw[v].ex] = dir.vw[v].id /\ dir.vw[v].id # 0
  /\ \A e \in DOMAIN dir.exp : dir.exp[e] # Null =>
       \E v \in Views : dir.vw[v].ex = e /\ (Busy(v) \/ dir.slot[dir.exp[e]] # Null)
  /\ \A t \in Threads : pc[t] = "got" => dir.vw[proc[t].cwd.vw].uuid = loc[t].fh.uuid

\* The directory of views, the export table and the mounts agree with one another.
NamesSound == DirSound /\ MountsSound
=============================================================================
