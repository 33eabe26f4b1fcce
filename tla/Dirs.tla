-------------------------------- MODULE Dirs --------------------------------
(***************************************************************************)
(* Operations on the directories of a VOB: mvfs_vnodeops.c from            *)
(* mvfs_lookup_ctx to mvfs_readdir_ctx and mfs_rebind_vpp, the calls they  *)
(* make in mvfs_clnt.c, and the cache of directory blocks (mvfs_rdc.c).    *)
(*                                                                         *)
(* A call holds the mnode lock of its directory from before the request to *)
(* after its effect on the caches, so it is one step: what others do after *)
(* the view server acted and before the reply is stored commutes with the  *)
(* storing.  The name cache is used as its specification (NameCache).      *)
(* With KernelLocks the kernel keeps the directories of an operation that  *)
(* changes names, and the object it unlinks, locked for the operation;     *)
(* mvfs itself does not, and its comments allow for races.                 *)
(*                                                                         *)
(* d1 and d2 are two versions of one directory: a checkout makes the view  *)
(* select d2, its cancellation makes it select d1 again.                   *)
(***************************************************************************)
EXTENDS Integers, Sequences, FiniteSets, TLC

CONSTANTS
  Threads, Null, d1, d2,
  BhOf,          \* the build handle of each thread
  Frozen,        \* a build handle whose configuration selects d1 always
  NameCount, TempCount,
  MaxObj,        \* bound: objects
  Blocks,        \* mvfs_rddir_blocks
  KernelLocks,
  Workloads      \* ops, max: operations and how many begin; init: names of d1 at the start; coarse: times may stay

VARIABLES srv, mn, rmv, open, pc, loc, hidden, late, lost, temps, begun, work
vars == <<srv, mn, rmv, open, pc, loc, hidden, late, lost, temps, begun, work>>

Dirs == {d1, d2}
Names == 1..NameCount
Temps == (NameCount + 1)..(NameCount + TempCount)
All == Names \cup Temps          \* a name is its place in the directory
Unknown == -1                    \* not in the name cache; 0 there is ENOENT
Bhs == {BhOf[t] : t \in Threads}

ASSUME DirsAssumption ==
  /\ {NameCount, TempCount, MaxObj, Blocks} \subseteq Nat \ {0} /\ KernelLocks \in BOOLEAN
  /\ d1 # d2 /\ Null \notin Dirs

-----------------------------------------------------------------------------
(* The caches of a directory mnode.                                         *)
NoBlocks == [i \in 1..Blocks |-> Null]
NoNames == [n \in All |-> Unknown]
NoRebind == [valid |-> FALSE, self |-> FALSE, bh |-> Null, fid |-> Null, ev |-> 0]
NewMnode(s, d) == [live |-> FALSE, mt |-> s.mt[d], ev |-> s.ev[d], nc |-> NoNames, rdc |-> NoBlocks,
                   eof |-> FALSE, roff |-> 0, rebind |-> NoRebind]

DncAdd(m, n, o) == [m EXCEPT !.nc[n] = o]
DncRemove(m, n) == [m EXCEPT !.nc[n] = Unknown]
AttrInval(m) == [m EXCEPT !.live = FALSE]
RdcFlush(m) == [m EXCEPT !.rdc = NoBlocks]

\* Mutant: the cached blocks stay.
ModEventsKeepBlocks(m, vobmod, exp) ==
  [m EXCEPT !.eof = FALSE, !.rebind = IF vobmod THEN NoRebind ELSE @,
            !.nc = IF exp /\ ~vobmod THEN @ ELSE NoNames]
\* Replies bring the attributes of the directory.  exp: the view server says that
\* the directory was last changed when this host thought, before this change.
ModEvents(m, vobmod, exp) ==
  RdcFlush([m EXCEPT !.eof = FALSE, !.rebind = IF vobmod THEN NoRebind ELSE @,
                     !.nc = IF exp /\ ~vobmod THEN @ ELSE NoNames])
AttrCache(m, s, d, exp) ==
  LET n == [m EXCEPT !.live = TRUE, !.mt = s.mt[d], !.ev = s.ev[d]]
  IN IF n.mt # m.mt \/ n.ev # m.ev THEN ModEvents(n, n.ev # m.ev, exp) ELSE n

\* MVFS_CLNT_RDDIR_CACHE_CHECK: if the first block is gone, all of them are.
RddirCheck(m) == IF m.rdc[1] # Null THEN RdcFlush(m) ELSE m

\* The slot for a new block: the first for offset 0, else a free one, else the last.
RdcSlot(m, off) ==
  LET free == {i \in 2..Blocks : m.rdc[i] = Null}
  IN IF off = 0 THEN 1 ELSE IF free = {} THEN Blocks ELSE CHOOSE i \in free : \A j \in free : i <= j
RdcEnter(m, b) == [m EXCEPT !.rdc[RdcSlot(m, b.off)] = b]
RdcGet(m, off, cnt) ==
  {m.rdc[i] : i \in {j \in 1..Blocks : m.rdc[j] # Null /\ m.rdc[j].off = off /\ Cardinality(m.rdc[j].ents) <= cnt}}
Block(off, end, ents, eof) == [off |-> off, end |-> end, ents |-> ents, eof |-> eof]

-----------------------------------------------------------------------------
(* The view server.                                                         *)
Present(s, d) == {n \in All : s.dir[d][n] # 0}
\* A changed directory gets a later time, unless the clock of the view has not moved.
Put(s, d, n, o) ==
  {[s EXCEPT !.dir[d][n] = o, !.mt[d] = @ + k,
             !.chg = [t \in Threads |-> IF loc[t].op = "readdir" THEN @[t] \cup {n} ELSE {}]]
     : k \in IF work.coarse THEN {0, 1} ELSE {1}}
PutAll(S, d, n, o) == UNION {Put(s, d, n, o) : s \in S}
\* As many entries as fit, from a place on.
Entries(s, d, off, cnt) ==
  LET after == {n \in Present(s, d) : n > off}
      ents == {n \in after : Cardinality({k \in after : k <= n}) <= cnt}
      end == IF ents = {} THEN off ELSE CHOOSE n \in ents : \A k \in ents : k <= n
  IN Block(off, end, ents, ents = after)
Selected(s, t) == IF BhOf[t] = Frozen THEN d1 ELSE s.sel
Gone(s, d) == d = d2 /\ s.sel = d1 /\ s.ev[d1] > 1

-----------------------------------------------------------------------------
NoLoc == [op |-> Null, d |-> Null, nm |-> 0, to |-> Null, tnm |-> 0, excl |-> FALSE, obj |-> 0, temp |-> 0,
          err |-> "ok", ret |-> "done", sel |-> Null, ans |-> Null, aev |-> 0, off |-> 0, cnt |-> 0,
          late |-> FALSE, listed |-> {}, hid |-> {}, adv |-> Null, locks |-> {}]
Has(op) == op \in work.ops
Idle(t) == pc[t] = "idle"
Goto(t, p, l) == pc' = [pc EXCEPT ![t] = p] /\ loc' = [loc EXCEPT ![t] = IF p = "idle" THEN NoLoc ELSE l]
Return(t, e) == Goto(t, "done", [loc[t] EXCEPT !.err = e])
Same == UNCHANGED <<rmv, open, lost, temps, begun, work>>
\* A host that stored the attributes of a directory knows all that happened in it.
Store(d, m, s) == mn' = [mn EXCEPT ![d] = m] /\ srv' = s /\ hidden' = [hidden EXCEPT ![d] = {}]
                  /\ late' = [late EXCEPT ![d] = @ /\ m.rebind.valid]
Keep(d, m) == mn' = [mn EXCEPT ![d] = m] /\ UNCHANGED <<srv, hidden, late>>
Caches == UNCHANGED <<srv, mn, hidden, late>>
\* A call answered with an error leaves the caches m; it may have been done (S), which changes the names H.
Unsure(S, m, H) ==
  /\ mn' = m /\ UNCHANGED late
  /\ \/ UNCHANGED <<srv, hidden>>
     \/ Has("intr") /\ srv' \in S /\ hidden' = [d \in Dirs |-> hidden[d] \cup {n \in All : <<d, n>> \in H}]

FreeToLock(L) == ~KernelLocks \/ \A u \in Threads : loc[u].locks \cap L = {}
Exists(d) == d = d1 \/ ~Has("checkout") \/ srv.ev[d2] > 0
Begin(t, op, d, l, L) ==
  /\ Idle(t) /\ Has(op) /\ begun < work.max /\ FreeToLock(L) /\ Exists(d)
  /\ begun' = begun + 1
  /\ Goto(t, "rebind", [l EXCEPT !.op = op, !.d = d, !.adv = d, !.locks = IF KernelLocks THEN L ELSE {}])
  /\ Caches /\ UNCHANGED <<rmv, open, lost, temps, work>>

StartLookup(t) == \E d \in work.dirs, n \in Names : n \in work.init /\ Begin(t, "lookup", d, [NoLoc EXCEPT !.nm = n], {d})
StartOpen(t) == open[t] = 0 /\ \E d \in work.dirs, n \in Names : Begin(t, "open", d, [NoLoc EXCEPT !.nm = n], {d})
StartCreate(t) == \E d \in work.dirs, n \in Names, x \in BOOLEAN :
  Begin(t, "create", d, [NoLoc EXCEPT !.nm = n, !.excl = x], {d})
\* The kernel found the object under its name, and locks it too.
StartRemove(t) == \E d \in work.dirs, n \in Names :
  srv.dir[d][n] # 0 /\ Begin(t, "remove", d, [NoLoc EXCEPT !.nm = n, !.obj = srv.dir[d][n]], {d, srv.dir[d][n]})
StartRename(t) == \E d, e \in work.dirs, n, k \in Names :
  Begin(t, "rename", d, [NoLoc EXCEPT !.nm = n, !.to = e, !.tnm = k], {d, e} \cup ({srv.dir[e][k]} \ {0}))
StartLink(t) == \E d \in work.dirs, n \in Names : open[t] # 0 /\
  Begin(t, "link", d, [NoLoc EXCEPT !.nm = n, !.obj = open[t]], {d, open[t]})
StartMkdir(t) == \E op \in {"mkdir", "symlink", "rmdir"}, d \in work.dirs, n \in Names :
  Begin(t, op, d, [NoLoc EXCEPT !.nm = n], {d})
\* A listing is one readdir after another until the end; names the host does not know of may or may not show.
StartReaddir(t) == \E d \in work.dirs, c \in 1..2 :
  Begin(t, "readdir", d, [NoLoc EXCEPT !.cnt = c, !.hid = hidden[d]], {d})

-----------------------------------------------------------------------------
(* mfs_rebind_vpp: the directory the operation is about, in the view.       *)
RebindOff(t) == pc[t] = "rebind" /\ ~Has("rebind") /\ Goto(t, "run", loc[t]) /\ Caches /\ Same

RebindAttr(t) == LET d == loc[t].d IN
  /\ pc[t] = "rebind" /\ Has("rebind") /\ ~mn[d].live
  /\ IF Gone(srv, d) THEN Goto(t, "hard", loc[t]) /\ Caches
     ELSE \/ Store(d, AttrCache(mn[d], srv, d, FALSE), srv) /\ Goto(t, "cached", loc[t])
          \/ Caches /\ Goto(t, "run", loc[t])           \* another error: no rebinding
  /\ Same
RebindLive(t) == pc[t] = "rebind" /\ Has("rebind") /\ mn[loc[t].d].live
                 /\ Goto(t, "cached", loc[t]) /\ Caches /\ Same

\* Mutant: the binding of another configuration is used.
SameConfigAny(t, r) == TRUE
SameConfig(t, r) == BhOf[t] = r.bh
\* What the rebind cache promises, when the host knows the last event of the directory.
Promise(t) == LET d == loc[t].d IN IF mn[d].ev = srv.ev[d] /\ ~Gone(srv, d) THEN Selected(srv, t) ELSE Null
Rebound(t, d) == Goto(t, "run", [loc[t] EXCEPT !.d = d, !.sel = Promise(t), !.late = late[loc[t].d]])
RebindCache(t) == LET d == loc[t].d
                      r == mn[d].rebind IN
  /\ pc[t] = "cached" /\ Caches /\ Same
  /\ IF r.valid /\ SameConfig(t, r)
       THEN IF r.self THEN Rebound(t, d)
            ELSE IF mn[r.fid].ev = r.ev THEN Rebound(t, r.fid)
            ELSE Goto(t, "hard", loc[t])
       ELSE Goto(t, "hard", loc[t])
\* The answer comes without the lock and is stored later; late: events of the directory
\* that this host may have heard of in between are newer than the answer.
RebindAsk(t) == LET d == loc[t].d
                    v == Selected(srv, t) IN
  /\ pc[t] = "hard" /\ Same
  /\ \/ /\ Goto(t, "set", [loc[t] EXCEPT !.ans = v, !.sel = v, !.aev = srv.ev[d]])
        /\ LET m == [mn EXCEPT ![d].rebind = NoRebind]
           IN mn' = [m EXCEPT ![v] = AttrCache(m[v], srv, v, FALSE)]
        /\ srv' = srv /\ hidden' = [hidden EXCEPT ![v] = {}] /\ late' = [x \in Dirs |-> late[x] /\ mn'[x].rebind.valid]
     \/ /\ Goto(t, "run", loc[t]) /\ Keep(d, [mn[d] EXCEPT !.rebind = NoRebind])
RebindSet(t) == LET d == loc[t].d
                    v == loc[t].ans IN
  /\ pc[t] = "set" /\ Same /\ UNCHANGED <<srv, hidden>>
  /\ mn' = [mn EXCEPT ![d].rebind = [valid |-> TRUE, self |-> v = d, bh |-> BhOf[t], fid |-> v, ev |-> mn[v].ev]]
  /\ late' = [late EXCEPT ![d] = loc[t].aev # srv.ev[d] \/ (v # d /\ mn[v].ev # srv.ev[v])]
  /\ Goto(t, "run", [loc[t] EXCEPT !.d = v])

-----------------------------------------------------------------------------
(* Lookup of loc.nm (or loc.tnm in loc.to) on the way to loc.ret.           *)
LkDir(t) == IF loc[t].op = "rename" THEN loc[t].to ELSE loc[t].d
LkName(t) == IF loc[t].op = "rename" THEN loc[t].tnm ELSE loc[t].nm
Looking(t) == pc[t] = "run" /\ loc[t].op \in {"lookup", "open", "create", "rename", "rmdir"}
Found(t, o) == Goto(t, loc[t].op, [loc[t] EXCEPT !.obj = o])
\* A create goes on whatever the error of its lookup.
NotFound(t) == IF loc[t].op = "create" THEN Goto(t, "create", [loc[t] EXCEPT !.obj = 0]) ELSE Return(t, "rpc")

LookupAttr(t) == LET d == LkDir(t) IN
  /\ Looking(t) /\ ~mn[d].live /\ Same
  /\ ~Gone(srv, d) /\ Store(d, AttrCache(mn[d], srv, d, FALSE), srv) /\ Goto(t, "dnc", loc[t])
LookupFails(t) == (pc[t] = "ask" \/ (Looking(t) /\ ~mn[LkDir(t)].live)) /\ Caches /\ NotFound(t) /\ Same
LookupLive(t) == Looking(t) /\ mn[LkDir(t)].live /\ Goto(t, "dnc", loc[t]) /\ Caches /\ Same
LookupDnc(t) == LET o == mn[LkDir(t)].nc[LkName(t)] IN
  /\ pc[t] = "dnc" /\ Caches /\ Same
  /\ IF o = Unknown THEN Goto(t, "ask", loc[t]) ELSE Found(t, o)
LookupAsk(t) == LET d == LkDir(t)
                    o == srv.dir[d][LkName(t)] IN
  /\ pc[t] = "ask" /\ Same
  /\ ~Gone(srv, d) /\ Keep(d, DncAdd(mn[d], LkName(t), o)) /\ Found(t, o)

Looked(t) == pc[t] = "lookup" /\ Return(t, IF loc[t].obj = 0 THEN "enoent" ELSE "ok") /\ Caches /\ Same
Open(t) ==
  /\ pc[t] = "open" /\ Caches
  /\ LET o == loc[t].obj
     IN IF o = 0 \/ o \notin {srv.dir[d][n] : d \in Dirs, n \in All}   \* an object that is gone cannot be opened
        THEN Return(t, "enoent") /\ UNCHANGED open
        ELSE Return(t, "ok") /\ open' = [open EXCEPT ![t] = o]
  /\ UNCHANGED <<rmv, lost, temps, begun, work>>

-----------------------------------------------------------------------------
(* Calls that change names.  A reply of success stores the attributes.     *)
Stored(m, s, sn, d) == RddirCheck(AttrCache(m, sn, d, m.mt = s.mt[d]))

\* Mutant: the attributes stay valid.
CreateNotInvalidated(m) == m
\* mvfs_create_subr_with_cvp.
CreateInvalidates(m) == AttrInval(m)
CreateFound(t) ==
  /\ pc[t] = "create" /\ loc[t].obj # 0 /\ Caches /\ Same
  /\ Return(t, IF loc[t].excl THEN "eexist" ELSE "ok")
Created(d, n) == IF ~Gone(srv, d) /\ srv.dir[d][n] = 0 /\ srv.next <= MaxObj
                 THEN Put([srv EXCEPT !.next = @ + 1], d, n, srv.next) ELSE {}
CreateAsk(t) == LET d == loc[t].d
                    n == loc[t].nm
                    m == CreateInvalidates(mn[d]) IN
  /\ pc[t] = "create" /\ loc[t].obj = 0 /\ Same
  /\ \/ \E s \in Created(d, n) :
          /\ Store(d, DncAdd(Stored(m, srv, s, d), n, srv.next), s)
          /\ Goto(t, "clear", [loc[t] EXCEPT !.obj = srv.next])
     \/ ~Gone(srv, d) /\ srv.dir[d][n] # 0 /\ Keep(d, m) /\ Goto(t, "run", loc[t])      \* EEXIST: look again
     \/ /\ Unsure(Created(d, n), [mn EXCEPT ![d] = m], {<<d, n>>})
        /\ Return(t, "rpc") \/ (Has("intr") /\ Goto(t, "clean", loc[t]))                  \* EINTR
\* mfs_clear_create may fail, and the name goes again.
ClearCreate(t) == pc[t] = "clear" /\ (Return(t, "ok") \/ Goto(t, "clean", loc[t])) /\ Caches /\ Same

\* mfs_clnt_remove of a name of a directory.
Unlinked(d, n) ==
  LET m == DncRemove(mn[d], n)
  IN \/ /\ ~Gone(srv, d) /\ srv.dir[d][n] # 0
        /\ \E s \in Put(srv, d, n, 0) : Store(d, Stored(m, srv, s, d), s)
     \/ srv.dir[d][n] = 0 /\ Keep(d, m)
IsDir(d, n) == srv.dir[d][n] # 0 /\ srv.kind[srv.dir[d][n]] = "dir"
Unreached(d, n, dir) ==
  Unsure(IF Gone(srv, d) \/ IsDir(d, n) # dir THEN {} ELSE Put(srv, d, n, 0),
         [mn EXCEPT ![d] = DncRemove(@, n)], {<<d, n>>})
CreateClean(t) ==
  /\ pc[t] = "clean" /\ Same /\ Return(t, "failed")
  /\ LET d == loc[t].d
         n == loc[t].nm
     IN \/ /\ ~Gone(srv, d) /\ srv.dir[d][n] # 0
           /\ \E s \in Put(srv, d, n, 0) : Store(d, AttrInval(Stored(DncRemove(mn[d], n), srv, s, d)), s)
        \/ Unsure(IF Gone(srv, d) THEN {} ELSE Put(srv, d, n, 0), [mn EXCEPT ![d] = AttrInval(DncRemove(@, n))], {<<d, n>>})

-----------------------------------------------------------------------------
(* mvfs_remove_ctx, and the rename of an object that is in use.             *)
InUse(t, o) == \E u \in Threads : open[u] = o
\* Mutant: a file in use is removed.
SillyNeededNever(t, o) == FALSE
SillyNeeded(t, o) == InUse(t, o) /\ rmv[o] = Null
TakeTemp(t, l) == /\ temps < TempCount /\ temps' = temps + 1
                  /\ Goto(t, "silly", [l EXCEPT !.temp = NameCount + temps + 1])
Remove(t) == LET o == loc[t].obj IN
  /\ pc[t] = "run" /\ loc[t].op = "remove" /\ Caches
  /\ IF srv.kind[o] = "dir" THEN Return(t, "eperm") /\ UNCHANGED temps
     ELSE IF SillyNeeded(t, o) THEN TakeTemp(t, [loc[t] EXCEPT !.to = loc[t].d, !.tnm = loc[t].nm])
     ELSE Goto(t, "rmrpc", loc[t]) /\ UNCHANGED temps
  /\ UNCHANGED <<rmv, open, lost, begun, work>>
RemoveAsk(t) == pc[t] = "rmrpc" /\ Same /\ (\/ ~IsDir(loc[t].d, loc[t].nm) /\ Unlinked(loc[t].d, loc[t].nm) /\ Return(t, "ok")
                                            \/ Unreached(loc[t].d, loc[t].nm, FALSE) /\ Return(t, "rpc"))

\* mfs_clnt_rename within one directory or between two.
Moved(d, n, e, k) ==
  LET o == srv.dir[d][n]
  IN IF o = 0 \/ Gone(srv, d) \/ Gone(srv, e) \/ IsDir(e, k) THEN {}
     ELSE IF d = e /\ n = k THEN {srv} ELSE PutAll(Put(srv, d, n, 0), e, k, o)
Renaming(d, n, e, k) ==
  LET m == [x \in Dirs |-> IF x = e THEN DncRemove(mn[x], k) ELSE mn[x]]
  IN [m EXCEPT ![d] = AttrInval(DncRemove(@, n))]
Renamed(d, n, e, k) == LET m == Renaming(d, n, e, k) IN
  \E s \in Moved(d, n, e, k) :
    /\ srv' = s
    /\ mn' = [m EXCEPT ![e] = Stored(@, srv, s, e), ![d] = IF d = e THEN Stored(@, srv, s, e) ELSE RddirCheck(@)]
    /\ hidden' = [hidden EXCEPT ![e] = {}] /\ late' = [late EXCEPT ![e] = @ /\ mn'[e].rebind.valid]
NoSource(d, n, e, k) == srv.dir[d][n] = 0 /\ mn' = Renaming(d, n, e, k) /\ UNCHANGED <<srv, hidden, late>>
RenameUnsure(d, n, e, k) == Unsure(Moved(d, n, e, k), Renaming(d, n, e, k), {<<d, n>>, <<e, k>>})

SillyRename(t) == LET l == loc[t] IN
  /\ pc[t] = "silly" /\ Same
  /\ \/ Renamed(l.to, l.tnm, l.to, l.temp) /\ Goto(t, "sillyset", [l EXCEPT !.err = "ok"])
     \/ NoSource(l.to, l.tnm, l.to, l.temp) /\ Goto(t, "sillyset", [l EXCEPT !.err = "enoent"])
     \/ RenameUnsure(l.to, l.tnm, l.to, l.temp) /\ Goto(t, "sillyset", [l EXCEPT !.err = "rpc"])
\* Only the first rename of an object is remembered for the delayed remove; the name
\* of one that was answered with an error is forgotten, done or not.
SillySet(t) == LET l == loc[t] IN
  /\ pc[t] = "sillyset" /\ Caches
  /\ rmv' = IF l.err = "ok" /\ rmv[l.obj] = Null THEN [rmv EXCEPT ![l.obj] = <<l.to, l.temp>>] ELSE rmv
  /\ lost' = IF l.err = "rpc" THEN lost \cup {l.temp} ELSE lost
  /\ IF l.err = "rpc" \/ l.op = "remove" THEN Return(t, IF l.err = "rpc" THEN "rpc" ELSE "ok")
     ELSE Goto(t, "rnrpc", [l EXCEPT !.err = "ok", !.temp = 0])
  /\ UNCHANGED <<open, temps, begun, work>>

\* mvfs_rename_ctx, after it looked the target up.
Rename(t) == LET l == loc[t] IN
  /\ pc[t] = "rename" /\ Caches
  /\ IF l.obj # 0 /\ SillyNeeded(t, l.obj) /\ ~(l.d = l.to /\ l.nm = l.tnm)
     THEN TakeTemp(t, l) ELSE Goto(t, "rnrpc", l) /\ UNCHANGED temps
  /\ UNCHANGED <<rmv, open, lost, begun, work>>
RenameAsk(t) == LET l == loc[t] IN
  /\ pc[t] = "rnrpc" /\ Same
  /\ \/ Renamed(l.d, l.nm, l.to, l.tnm) /\ Return(t, "ok")
     \/ NoSource(l.d, l.nm, l.to, l.tnm) /\ Return(t, "enoent")
     \/ RenameUnsure(l.d, l.nm, l.to, l.tnm) /\ Return(t, "rpc")

\* The last close removes a file that was renamed in place of its removal.
Close(t) == LET o == open[t]
                last == \A u \in Threads \ {t} : open[u] # o
                later == rmv[o] # Null IN
  /\ Idle(t) /\ o # 0
  /\ open' = [open EXCEPT ![t] = 0]
  /\ IF last /\ later
     THEN /\ rmv' = [rmv EXCEPT ![o] = Null]
          /\ \/ Unlinked(rmv[o][1], rmv[o][2]) /\ UNCHANGED lost
             \/ Unreached(rmv[o][1], rmv[o][2], FALSE) /\ lost' = lost \cup {rmv[o][2]}
     ELSE Caches /\ UNCHANGED <<rmv, lost>>
  /\ UNCHANGED <<pc, loc, temps, begun, work>>

-----------------------------------------------------------------------------
(* mvfs_link_ctx, mvfs_mkdir_ctx, mvfs_symlink_ctx, mvfs_rmdir_ctx.         *)
Link(t) == LET l == loc[t] IN
  /\ pc[t] = "run" /\ l.op = "link" /\ Same
  /\ LET named == {srv.dir[d][n] : d \in Dirs, n \in All}
         S == IF ~Gone(srv, l.d) /\ srv.dir[l.d][l.nm] = 0 /\ l.obj \in named THEN Put(srv, l.d, l.nm, l.obj) ELSE {}
     IN \/ /\ \E s \in S : Store(l.d, DncAdd(Stored(mn[l.d], srv, s, l.d), l.nm, l.obj), s)
           /\ Return(t, "ok")
        \/ Unsure(S, mn, {<<l.d, l.nm>>}) /\ Return(t, "failed")
Mkdir(t) == LET l == loc[t]
                m == AttrInval(IF l.op = "symlink" THEN DncRemove(mn[l.d], l.nm) ELSE mn[l.d]) IN
  /\ pc[t] = "run" /\ l.op \in {"mkdir", "symlink"} /\ Same
  /\ LET S == {[s EXCEPT !.kind[srv.next] = IF l.op = "mkdir" THEN "dir" ELSE "link"] : s \in Created(l.d, l.nm)}
     IN \/ /\ \E s \in S : Store(l.d, DncAdd(Stored(m, srv, s, l.d), l.nm, srv.next), s)
           /\ Return(t, "ok")
        \/ Unsure(S, [mn EXCEPT ![l.d] = m], {<<l.d, l.nm>>}) /\ Return(t, "failed")
Rmdir(t) == LET l == loc[t] IN
  /\ pc[t] = "rmdir" /\ Same
  /\ IF l.obj = 0 THEN Return(t, "enoent") /\ Caches
     ELSE \/ IsDir(l.d, l.nm) /\ Unlinked(l.d, l.nm) /\ Return(t, "ok")
          \/ Unreached(l.d, l.nm, TRUE) /\ Return(t, "failed")

-----------------------------------------------------------------------------
(* mvfs_readdir_ctx.                                                        *)
Deliver(t, b) ==
  LET l == [loc[t] EXCEPT !.off = b.end, !.listed = @ \cup b.ents, !.d = loc[t].adv, !.sel = Null,
                          !.locks = IF b.eof THEN @ ELSE {}]
  IN Goto(t, IF b.eof THEN "listed" ELSE "more", l)
\* The thread comes back for the next part.
More(t) == /\ pc[t] = "more" /\ Caches /\ Same
           /\ FreeToLock({loc[t].d})
           /\ Goto(t, "rebind", [loc[t] EXCEPT !.locks = IF KernelLocks THEN {loc[t].d} ELSE {}])
ReaddirAttr(t) == LET d == loc[t].d IN
  /\ pc[t] = "run" /\ loc[t].op = "readdir" /\ ~mn[d].live /\ Same
  /\ Goto(t, "rdrpc", loc[t])
  /\ \/ ~Gone(srv, d) /\ Store(d, AttrCache(mn[d], srv, d, FALSE), srv)
     \/ Keep(d, RdcFlush(mn[d]))
ReaddirCache(t) == LET d == loc[t].d
                       hits == RdcGet(mn[d], loc[t].off, loc[t].cnt) IN
  /\ pc[t] = "run" /\ loc[t].op = "readdir" /\ mn[d].live /\ Caches /\ Same
  /\ IF hits = {} THEN Goto(t, "rdrpc", loc[t]) ELSE \E b \in hits : Deliver(t, b)
\* mfs_clnt_readdir: at the known end of the directory nothing is asked.
AtEof(m, off) == m.eof /\ off = m.roff /\ m.roff # 0
ReaddirAsk(t) == LET d == loc[t].d
                     b == IF AtEof(mn[d], loc[t].off) THEN Block(loc[t].off, loc[t].off, {}, TRUE)
                          ELSE Entries(srv, d, loc[t].off, loc[t].cnt) IN
  /\ pc[t] = "rdrpc" /\ Same
  /\ \/ /\ AtEof(mn[d], loc[t].off) \/ ~Gone(srv, d)
        /\ Keep(d, RdcEnter([mn[d] EXCEPT !.eof = @ \/ b.eof, !.roff = IF b.eof THEN b.end ELSE @], b))
        /\ Deliver(t, b)
     \/ Caches /\ Return(t, "rpc")

Finish(t) == /\ pc[t] \in {"done", "listed"} /\ Goto(t, "idle", NoLoc)
             /\ srv' = [srv EXCEPT !.chg[t] = {}] /\ UNCHANGED <<mn, hidden, late>> /\ Same

-----------------------------------------------------------------------------
(* Time, other hosts and the VOB.                                           *)
Around == UNCHANGED <<rmv, open, pc, loc, late, lost, temps, begun, work>>
TimePasses == Has("time") /\ \E d \in Dirs :
  mn[d].live /\ mn' = [mn EXCEPT ![d] = AttrInval(@)] /\ UNCHANGED <<srv, hidden>> /\ Around
\* Somebody asks for the attributes of a directory; stat(2) takes no lock of the kernel.
Getattr == Has("stat") /\ \E d \in Dirs :
  ~mn[d].live /\ ~Gone(srv, d) /\ mn' = [mn EXCEPT ![d] = AttrCache(@, srv, d, FALSE)]
  /\ late' = [late EXCEPT ![d] = @ /\ mn'[d].rebind.valid] /\ hidden' = [hidden EXCEPT ![d] = {}]
  /\ UNCHANGED <<srv, rmv, open, pc, loc, lost, temps, begun, work>>
Other(d, n) == LET was == srv.dir[d][n] IN
  /\ Has("other") /\ srv.others < work.others /\ ~Gone(srv, d)
  /\ IF was = 0 THEN srv.next <= MaxObj ELSE TRUE
  /\ srv' \in Put([srv EXCEPT !.others = @ + 1, !.next = IF was = 0 THEN @ + 1 ELSE @], d, n, IF was = 0 THEN srv.next ELSE 0)
  /\ hidden' = [hidden EXCEPT ![d] = @ \cup {n}]
  /\ mn' = mn
  /\ Around
OtherHost == \E d \in work.dirs, n \in Names : Other(d, n)
Checkout == /\ Has("checkout") /\ srv.sel = d1 /\ srv.ev[d1] = 0
            /\ srv' = [srv EXCEPT !.sel = d2, !.ev[d1] = 1, !.ev[d2] = 1, !.dir[d2] = srv.dir[d1]]
            /\ UNCHANGED <<mn, hidden>> /\ Around
Uncheckout == /\ Has("checkout") /\ srv.sel = d2
              /\ srv' = [srv EXCEPT !.sel = d1, !.ev[d1] = @ + 1] /\ UNCHANGED <<mn, hidden>> /\ Around

Init ==
  /\ work \in Workloads
  /\ srv = [dir |-> [d \in Dirs |-> [n \in All |-> IF d = d1 /\ n \in work.init THEN n ELSE 0]],
            kind |-> [o \in 1..MaxObj |-> "file"], mt |-> [d \in Dirs |-> 0], ev |-> [d \in Dirs |-> 0],
            sel |-> d1, next |-> NameCount + 1, others |-> 0, chg |-> [t \in Threads |-> {}]]
  /\ mn = [d \in Dirs |-> NewMnode(srv, d)]
  /\ rmv = [o \in 1..MaxObj |-> Null] /\ open = [t \in Threads |-> 0]
  /\ pc = [t \in Threads |-> "idle"] /\ loc = [t \in Threads |-> NoLoc]
  /\ hidden = [d \in Dirs |-> {}] /\ late = [d \in Dirs |-> FALSE]
  /\ lost = {} /\ temps = 0 /\ begun = 0

Step(t) ==
  \/ RebindOff(t) \/ RebindAttr(t) \/ RebindLive(t) \/ RebindCache(t) \/ RebindAsk(t) \/ RebindSet(t)
  \/ LookupAttr(t) \/ LookupFails(t) \/ LookupLive(t) \/ LookupDnc(t) \/ LookupAsk(t) \/ Looked(t) \/ Open(t)
  \/ CreateFound(t) \/ CreateAsk(t) \/ ClearCreate(t) \/ CreateClean(t)
  \/ Remove(t) \/ RemoveAsk(t) \/ SillyRename(t) \/ SillySet(t) \/ Rename(t) \/ RenameAsk(t)
  \/ Link(t) \/ Mkdir(t) \/ Rmdir(t)
  \/ More(t) \/ ReaddirAttr(t) \/ ReaddirCache(t) \/ ReaddirAsk(t) \/ Finish(t)
Start(t) ==
  \/ StartLookup(t) \/ StartOpen(t) \/ StartCreate(t) \/ StartRemove(t) \/ StartRename(t) \/ StartLink(t)
  \/ StartMkdir(t) \/ StartReaddir(t) \/ Close(t)
Next == (\E t \in Threads : Start(t) \/ Step(t)) \/ TimePasses \/ Getattr \/ OtherHost \/ Checkout \/ Uncheckout
Spec == Init /\ [][Next]_vars
\* A thread in the kernel goes on; nothing makes it start.  A view server that is asked
\* again and again does not fail for ever.
FairSpec == Spec /\ \A t \in Threads : WF_vars(Step(t)) /\ SF_vars(LookupAttr(t)) /\ SF_vars(LookupAsk(t))

-----------------------------------------------------------------------------
TypeOK ==
  /\ srv.dir \in [Dirs -> [All -> 0..MaxObj]] /\ srv.sel \in Dirs
  /\ \A d \in Dirs : mn[d].nc \in [All -> Unknown..MaxObj] /\ mn[d].live \in BOOLEAN
  /\ open \in [Threads -> 0..MaxObj] /\ temps \in 0..TempCount /\ begun \in 0..work.max

\* Types; and a complete listing, out of cached blocks and answers in any mixture, has every
\* name that was there all the time and no name that was not there at any time;
\* names another host changed since this host last heard of the directory may show
\* or not (mvfs_rdc.c, mfs_clnt_readdir, mfs_ac_modevents).
ListingSound == TypeOK /\ \A t \in Threads : pc[t] = "listed" =>
  LET now == Present(srv, loc[t].adv)
      exempt == srv.chg[t] \cup loc[t].hid
  IN now \ exempt \subseteq loc[t].listed /\ loc[t].listed \subseteq now \cup exempt

\* An operation on a directory that this host knows the last event of is done on the
\* version that the configuration of the thread selects (mfs_rebind_vpp), unless it uses
\* an answer that events have overtaken between mfs_clnt_rebind_dir, which takes it
\* without the lock of the directory, and the lines that store it (7396, 7548).  There
\* the code does not keep what the comment in mfs_ac_modevents says (2686), that only a
\* verification that it is the right version clears the mark of an event: the answer
\* of before the event is stored after it, and later operations use it.
RebindFresh == \A t \in Threads : pc[t] = "run" /\ loc[t].sel # Null /\ ~loc[t].late => loc[t].d = loc[t].sel

\* A file that is open keeps a name until the last close, and every temporary name
\* belongs to a file that will be removed, unless the call that made it or the call that
\* should have removed it was answered with an error (mvfs_silly_rename).
OpenKept == \A t \in Threads : open[t] # 0 => \E d \in Dirs, n \in All : srv.dir[d][n] = open[t]
TempsOwned == \A d \in Dirs, k \in Temps : srv.dir[d][k] # 0 =>
  \/ k \in lost
  \/ \E o \in 1..MaxObj : rmv[o] = <<d, k>>
  \/ \E t \in Threads : loc[t].temp = k
RemovedWhileOpen == OpenKept /\ TempsOwned

\* Every operation returns: a create that is told that the name exists finds it, or
\* finds it gone (retry_lookup in mvfs_create_subr_with_cvp).  That takes times that
\* move with every change: with others it is false, and the lookup the comment there
\* speaks of answers from the name cache for ever.
OpsReturn == \A t \in Threads : ~Idle(t) ~> Idle(t)
=============================================================================
