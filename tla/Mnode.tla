-------------------------------- MODULE Mnode --------------------------------
(***************************************************************************)
(* The life of an mnode (mvfs_mnode.c): found or created by mfs_mnget,     *)
(* released by mfs_mnrele to the VOB freelist or the destroy list, flushed *)
(* from the freelist, destroyed.  Several kernel threads run these         *)
(* routines at once; the module keeps their lock discipline:               *)
(*   - a hash chain lock is held while mvfs_mnfindexisting waits for an    *)
(*     mnode header lock;                                                  *)
(*   - mfs_mnlock is held during a scan of the mnode table;                *)
(*   - the header lock guards mcount, the mnode lock the rest;             *)
(*   - the freelist hash locks, mvfs_vobfreelock and mvfs_mndestroylock    *)
(*     are innermost: what happens under one of them is one step.          *)
(* Between two critical sections other threads may run.                    *)
(***************************************************************************)
EXTENDS MnodeTable, SequencesExt

CONSTANTS
  Threads,
  Fids,         \* identities an mnode is looked up by (view, vob, dbid)
  NoFid,        \* the request with a null fidp, for a VIEW mnode
  Class,        \* [Fids \cup {NoFid} -> {"VOB", "VOBRT", "VIEW"}]
  View, Vfs,    \* the view and the mount of an identity
  HashOf,       \* the hash chain of an identity: 1, 2, ... in mvfs_vobhash
  Gens,         \* generations of a dbid (mf_gen), 0 is MFS_UNK_GEN
  vobfreehashsize,
  vobfreemax, vobfreemin, cvpfreemax, cvpfreemin,
  StkFreeQLen,  \* MVFS_STK_FREEQLEN: the fallback length of the cvp list
  MaxRetry,     \* MVFS_MNGETNEXTOID_MAXRETRY
  MaxMmi,       \* bound: no failing initialisation at this mount count or above
  MnplistSize,  \* length of the list of mnodes to sync in one go
  Works         \* the loads: the entry points the threads call (ops), with which
                \* fids and generations, and how many mnodes memory holds

ASSUME MnodeAssumption ==
  /\ Null \notin Threads
  /\ vobfreehashsize \in Nat \ {0}
  /\ vobfreemin < vobfreemax /\ cvpfreemin < cvpfreemax
  /\ Class[NoFid] = "VIEW"

VARIABLES
  hdr,          \* mn_hdr of every mnode structure
  chain,        \* mvfs_vobhash and mvfs_otherhash chains, newest first
  hashlock,     \* owner of a chain's lock
  hdrlock, mlock,       \* owner of an mnode's header lock and mnode lock
  mnlock,       \* owner of mfs_mnlock
  vobfree,      \* the freelist hash chains, oldest first
  vobfreecnt, cvpfreecnt,
  destroylist,  \* mvfs_mndestroylist
  mmi_refcnt,   \* mnodes of a mount
  mgmt_ip,      \* mvfs_mnfreelist_mgmt_ip
  sync_ip,      \* mvfs_sync_in_progress
  view_null,    \* the views whose mn_view.id is MFS_NULLVID
  work,         \* the load of this behaviour
  pc, loc       \* where each thread is, and its local variables

tab == <<tableVars, mnlock>>
hash == <<chain, hashlock>>
lists == <<vobfree, vobfreecnt, cvpfreecnt, destroylist>>
flags == <<mgmt_ip, sync_ip, view_null, work>>
vars == <<tab, hash, lists, flags, hdr, hdrlock, mlock, mmi_refcnt, pc, loc>>

Requests == Fids \cup {NoFid}
Chains == {HashOf[k] : k \in Requests}
FreeChains == 0 .. vobfreehashsize - 1

DeadHdr == [alive |-> FALSE, fid |-> NoFid, gen |-> 0, mnum |-> 0, mcount |-> 0,
            mfree |-> FALSE, trans_destroy |-> FALSE, on_destroy |-> FALSE,
            stale |-> FALSE, realvp |-> FALSE]

NoLoc == [fid |-> NoFid, gen |-> 0, mnp |-> Null, allocmnp |-> Null, mnum |-> 0,
          i |-> 0, j |-> 0, n |-> 0, kind |-> "", ret |-> "idle", list |-> <<>>]

Init ==
  /\ TableInit
  /\ mnlock = Null
  /\ hdr = [m \in Mnodes |-> DeadHdr]
  /\ chain = [h \in Chains |-> <<>>]
  /\ hashlock = [h \in Chains |-> Null]
  /\ hdrlock = [m \in Mnodes |-> Null]
  /\ mlock = [m \in Mnodes |-> Null]
  /\ vobfree = [f \in FreeChains |-> <<>>]
  /\ vobfreecnt = 0 /\ cvpfreecnt = 0
  /\ destroylist = <<>>
  /\ mmi_refcnt = [v \in {Vfs[k] : k \in Requests} |-> 0]
  /\ mgmt_ip = FALSE /\ sync_ip = FALSE
  /\ view_null = {}
  /\ work \in Works
  /\ pc = [t \in Threads |-> "idle"]
  /\ loc = [t \in Threads |-> NoLoc]

-----------------------------------------------------------------------------
Mnp(t) == loc[t].mnp
Goto(t, l) == pc' = [pc EXCEPT ![t] = l]
Locals(t, l) == loc' = [loc EXCEPT ![t] = l]
\* The call made by t returns: to its caller's loop or to user space.
Return(t) == /\ Goto(t, loc[t].ret)
             /\ Locals(t, IF loc[t].ret = "idle" THEN NoLoc
                          ELSE [NoLoc EXCEPT !.i = loc[t].i, !.list = loc[t].list])
Acquire(lk, x, t) == [lk EXCEPT ![x] = t]
Drop(lk, x) == [lk EXCEPT ![x] = Null]

\* MVFS_VOBFREEHASH
FreeHash(m) == hdr[m].mnum % vobfreehashsize

\* MN_INSFREE: at the back of the freelist chain.
InsFree(m) ==
  /\ vobfree' = [vobfree EXCEPT ![FreeHash(m)] = Append(@, m)]
  /\ vobfreecnt' = vobfreecnt + 1
  /\ cvpfreecnt' = IF hdr[m].realvp THEN cvpfreecnt + 1 ELSE cvpfreecnt
  /\ UNCHANGED destroylist

\* MN_RMFREE
RmFree(m) ==
  /\ vobfree' = [vobfree EXCEPT ![FreeHash(m)] = Remove(@, m)]
  /\ vobfreecnt' = vobfreecnt - 1
  /\ cvpfreecnt' = IF hdr[m].realvp THEN cvpfreecnt - 1 ELSE cvpfreecnt
  /\ UNCHANGED destroylist

\* Taking an mnode off the freelist if it is there, under its freelist lock.
Reclaim(m) == IF hdr[m].mfree THEN RmFree(m) ELSE UNCHANGED lists

\* MN_INSDESTROY
InsDestroy(m) ==
  /\ destroylist' = Append(destroylist, m)
  /\ UNCHANGED <<vobfree, vobfreecnt, cvpfreecnt>>

\* The two states a search must pass over (with their faulty variants): on
\* the destroy list, and between the freelist and the destroy list.
NeverOnDestroy(m) == FALSE
OnDestroy(m) == hdr[m].on_destroy

NeverInTransition(m) == FALSE
InTransition(m) == hdr[m].trans_destroy

\* A use of the mnode is counted, under its header lock.
CountUse(m) == [hdr EXCEPT ![m].mcount = @ + 1]

-----------------------------------------------------------------------------
\* mfs_mnget.  A null fidp skips the search.
GetStart(t) ==
  /\ pc[t] = "idle"
  /\ \E k \in work.fids \cup {NoFid}, g \in work.gens :
       /\ IF k = NoFid THEN "viewget" \in work.ops /\ g = 0 ELSE "get" \in work.ops
       /\ Locals(t, [NoLoc EXCEPT !.fid = k, !.gen = g])
       /\ Goto(t, IF k = NoFid THEN "room" ELSE "find")
  /\ UNCHANGED <<tab, hash, lists, flags, hdr, hdrlock, mlock, mmi_refcnt>>

\* mvfs_mnfindexisting: the hash chain is searched under its lock.
MyChain(t) == HashOf[loc[t].fid]

FindLock(t) ==
  /\ pc[t] = "find"
  /\ hashlock[MyChain(t)] = Null
  /\ hashlock' = Acquire(hashlock, MyChain(t), t)
  /\ Locals(t, [loc[t] EXCEPT !.i = 1])
  /\ Goto(t, "scan")
  /\ UNCHANGED <<tab, chain, lists, flags, hdr, hdrlock, mlock, mmi_refcnt>>

\* Positions from the cursor on that match the fid and are not stale.
Matching(t) == {p \in loc[t].i .. Len(chain[MyChain(t)]) :
                  LET m == chain[MyChain(t)][p]
                  IN  hdr[m].fid = loc[t].fid /\ ~hdr[m].stale}

NextMatch(t, p) == p \in Matching(t) /\ \A q \in Matching(t) : p <= q

OldGen(t, m) == loc[t].gen # 0 /\ loc[t].gen # hdr[m].gen

FindMiss(t) ==
  /\ pc[t] = "scan"
  /\ Matching(t) = {}
  /\ hashlock' = Drop(hashlock, MyChain(t))
  /\ Locals(t, [loc[t] EXCEPT !.i = 0])
  /\ Goto(t, IF loc[t].allocmnp = Null THEN "room" ELSE "init")
  /\ UNCHANGED <<tab, chain, lists, flags, hdr, hdrlock, mlock, mmi_refcnt>>

\* Another generation of the same dbid is marked stale, if its mnode lock is
\* free.  When it has a vnode in the dcache the chain lock is dropped to
\* flush that, and the search starts over.
FindStale(t) ==
  /\ pc[t] = "scan"
  /\ \E p \in Matching(t) :
       LET m == chain[MyChain(t)][p]
       IN  /\ NextMatch(t, p) /\ OldGen(t, m)
           /\ hdr' = [hdr EXCEPT ![m].stale = mlock[m] = Null]
           /\ \/ /\ Locals(t, [loc[t] EXCEPT !.i = p + 1])
                 /\ UNCHANGED <<pc, hashlock>>
              \/ /\ mlock[m] = Null /\ hdr[m].mcount > 0
                 /\ Locals(t, [loc[t] EXCEPT !.i = 0])
                 /\ Goto(t, "find")
                 /\ hashlock' = Drop(hashlock, MyChain(t))
  /\ UNCHANGED <<tab, chain, lists, flags, hdrlock, mlock, mmi_refcnt>>

\* A match: wait for its header lock with the chain locked, so that
\* mvfs_mndestroy cannot unhash and free it meanwhile.
FindHdr(t) ==
  /\ pc[t] = "scan"
  /\ \E p \in Matching(t) :
       LET m == chain[MyChain(t)][p]
       IN  /\ NextMatch(t, p) /\ ~OldGen(t, m)
           /\ hdrlock[m] = Null
           /\ IF OnDestroy(m)
              THEN /\ Locals(t, [loc[t] EXCEPT !.i = p + 1])
                   /\ UNCHANGED <<pc, hdrlock>>
              ELSE /\ Locals(t, [loc[t] EXCEPT !.i = p, !.mnp = m])
                   /\ Goto(t, "chkfree")
                   /\ hdrlock' = Acquire(hdrlock, m, t)
  /\ UNCHANGED <<tab, hash, lists, flags, hdr, mlock, mmi_refcnt>>

\* On its way to the destroy list: pass it over.
FindTrans(t) ==
  /\ pc[t] = "chkfree"
  /\ InTransition(Mnp(t))
  /\ hdrlock' = Drop(hdrlock, Mnp(t))
  /\ Locals(t, [loc[t] EXCEPT !.i = @ + 1, !.mnp = Null])
  /\ Goto(t, "scan")
  /\ UNCHANGED <<tab, hash, lists, flags, hdr, mlock, mmi_refcnt>>

FindHit(t) ==
  /\ pc[t] = "chkfree"
  /\ ~InTransition(Mnp(t))
  /\ Reclaim(Mnp(t))
  /\ hdr' = [hdr EXCEPT ![Mnp(t)].mfree = FALSE]
  /\ hashlock' = Drop(hashlock, MyChain(t))
  /\ Locals(t, [loc[t] EXCEPT !.i = 0])
  /\ Goto(t, IF loc[t].allocmnp = Null THEN "found" ELSE "give")
  /\ UNCHANGED <<tab, chain, flags, hdrlock, mlock, mmi_refcnt>>

\* The "get" is counted under the header lock.
Found(t) ==
  /\ pc[t] = "found"
  /\ hdr' = CountUse(Mnp(t))
  /\ hdrlock' = Drop(hdrlock, Mnp(t))
  /\ Goto(t, "mlock")
  /\ UNCHANGED <<tab, hash, lists, flags, mlock, mmi_refcnt, loc>>

\* Found by the second search: the reserved slot goes back first.
GiveSlot(t) ==
  /\ pc[t] = "give"
  /\ mnlock = Null
  /\ FreeSlot(loc[t].mnum)
  /\ hdr' = CountUse(Mnp(t))
  /\ hdrlock' = Drop(hdrlock, Mnp(t))
  /\ Locals(t, [loc[t] EXCEPT !.mnum = 0])
  /\ Goto(t, "mlock")
  /\ UNCHANGED <<mnlock, hash, lists, flags, mlock, mmi_refcnt>>

\* Waits while the creator still initializes the mnode; then the mnode that
\* was allocated for nothing is freed.
TakeMlock(t) ==
  /\ pc[t] = "mlock"
  /\ mlock[Mnp(t)] = Null
  /\ mlock' = Acquire(mlock, Mnp(t), t)
  /\ LET a == loc[t].allocmnp
     IN  IF a = Null THEN UNCHANGED <<hdr, hdrlock>>
         ELSE hdr' = [hdr EXCEPT ![a] = DeadHdr] /\ hdrlock' = Drop(hdrlock, a)
  /\ Locals(t, [NoLoc EXCEPT !.mnp = Mnp(t)])
  /\ Goto(t, "locked")
  /\ UNCHANGED <<tab, hash, lists, flags, mmi_refcnt>>

-----------------------------------------------------------------------------
\* Not found: the count is read with no lock held.
Room(t) ==
  /\ pc[t] = "room"
  /\ IF mfs_mncnt >= mvfs_mnmax
     THEN Goto(t, "grow") /\ Locals(t, [loc[t] EXCEPT !.n = mvfs_mnmax])
     ELSE Goto(t, "rsv") /\ UNCHANGED loc
  /\ UNCHANGED <<tab, hash, lists, flags, hdr, hdrlock, mlock, mmi_refcnt>>

LargerTable(sz) == GrowTable(sz)

\* mvfs_mngrowtable with the size read before; then everything is tried anew.
GrowRestart(t) ==
  /\ pc[t] = "grow"
  /\ mnlock = Null
  /\ loc[t].n < MaxMnMax
  /\ LargerTable(loc[t].n)
  /\ Locals(t, [loc[t] EXCEPT !.n = 0])
  /\ Goto(t, IF loc[t].fid = NoFid THEN "room" ELSE "find")
  /\ UNCHANGED <<mnlock, hash, lists, flags, hdr, hdrlock, mlock, mmi_refcnt>>

GrowFail(t) ==
  /\ pc[t] = "grow"
  /\ Return(t)
  /\ UNCHANGED <<tab, hash, lists, flags, hdr, hdrlock, mlock, mmi_refcnt>>

\* mfs_mngetmnumslot; without a slot mnget returns NULL.
ReserveSlot(t) ==
  /\ pc[t] = "rsv"
  /\ mnlock = Null
  /\ \/ /\ \E n \in FreeFrom : /\ GetMnumSlot(n)
                               /\ Locals(t, [loc[t] EXCEPT !.mnum = n])
        /\ Goto(t, "new")
     \/ NoMnumSlot /\ Return(t) /\ UNCHANGED tableVars
  /\ UNCHANGED <<mnlock, hash, lists, flags, hdr, hdrlock, mlock, mmi_refcnt>>

MemoryLeft == Cardinality({m \in Mnodes : hdr[m].alive}) < work.memory

\* mvfs_mnnew: a zeroed mnode with its header locked, and nobody knows it.
NewMnode(t) ==
  /\ pc[t] = "new" /\ MemoryLeft
  /\ \E m \in Mnodes :
       /\ ~hdr[m].alive
       /\ hdr' = [hdr EXCEPT ![m].alive = TRUE]
       /\ hdrlock' = Acquire(hdrlock, m, t)
       /\ Locals(t, [loc[t] EXCEPT !.allocmnp = m])
  /\ Goto(t, IF loc[t].fid = NoFid THEN "init" ELSE "find")
  /\ UNCHANGED <<tab, hash, lists, flags, mlock, mmi_refcnt>>

NewFail(t) ==
  /\ pc[t] = "new" /\ ~MemoryLeft
  /\ mnlock = Null
  /\ FreeSlot(loc[t].mnum)
  /\ Return(t)
  /\ UNCHANGED <<mnlock, hash, lists, flags, hdr, hdrlock, mlock, mmi_refcnt>>

\* mvfs_mninit_new_mnode; for a VIEW mnode the allocation of the per-view
\* statistics may fail after the mount's count was raised.  The mnode lock
\* is taken before anybody can find the mnode.
InitNew(t) ==
  /\ pc[t] = "init"
  /\ LET m == loc[t].allocmnp
     IN  /\ hdr' = [hdr EXCEPT ![m].fid = loc[t].fid, ![m].gen = loc[t].gen,
                               ![m].mcount = 1]
         /\ mmi_refcnt' = [mmi_refcnt EXCEPT ![Vfs[loc[t].fid]] = @ + 1]
         /\ \/ /\ mlock' = Acquire(mlock, m, t)
               /\ Locals(t, [loc[t] EXCEPT !.mnp = m, !.allocmnp = Null])
               /\ Goto(t, "publish")
            \/ /\ Class[loc[t].fid] = "VIEW"
               /\ mmi_refcnt[Vfs[loc[t].fid]] < MaxMmi
               /\ Goto(t, "initfail")
               /\ UNCHANGED <<mlock, loc>>
  /\ UNCHANGED <<tab, hash, lists, flags, hdrlock>>

\* "Could not allocate rest of memory, free allocated mnode/slot".
InitFail(t) ==
  /\ pc[t] = "initfail"
  /\ mnlock = Null
  /\ FreeSlot(loc[t].mnum)
  /\ hdr' = [hdr EXCEPT ![loc[t].allocmnp] = DeadHdr]
  /\ hdrlock' = Drop(hdrlock, loc[t].allocmnp)
  /\ Return(t)
  /\ UNCHANGED <<mnlock, hash, lists, flags, mlock, mmi_refcnt>>

\* First the mnode table, then the hash chain.
PublishMnode(t) ==
  /\ pc[t] = "publish"
  /\ mnlock = Null
  /\ PublishSlot(loc[t].mnum, Mnp(t))
  /\ hdr' = [hdr EXCEPT ![Mnp(t)].mnum = loc[t].mnum]
  /\ hdrlock' = Drop(hdrlock, Mnp(t))
  /\ Locals(t, [loc[t] EXCEPT !.mnum = 0])
  /\ Goto(t, "hash")
  /\ UNCHANGED <<mnlock, hash, lists, flags, mlock, mmi_refcnt>>

\* mvfs_mnhash
HashMnode(t) ==
  /\ pc[t] = "hash"
  /\ hashlock[MyChain(t)] = Null
  /\ chain' = [chain EXCEPT ![MyChain(t)] = <<Mnp(t)>> \o @]
  /\ Locals(t, [NoLoc EXCEPT !.mnp = Mnp(t)])
  /\ Goto(t, "locked")
  /\ UNCHANGED <<tab, hashlock, lists, flags, hdr, hdrlock, mlock, mmi_refcnt>>

\* The caller finishes its work under the mnode lock; for a VOB mnode it may
\* have cached a cleartext vnode.
Unlock(t) ==
  /\ pc[t] = "locked"
  /\ \E rv \in {hdr[Mnp(t)].realvp, Class[hdr[Mnp(t)].fid] = "VOB"} :
       hdr' = [hdr EXCEPT ![Mnp(t)].realvp = rv]
  /\ mlock' = Drop(mlock, Mnp(t))
  /\ Goto(t, "inuse")
  /\ UNCHANGED <<tab, hash, lists, flags, hdrlock, mmi_refcnt, loc>>

-----------------------------------------------------------------------------
\* mfs_mnrele
ReleDec(t) ==
  /\ pc[t] = "inuse"
  /\ hdrlock[Mnp(t)] = Null
  /\ hdr' = [hdr EXCEPT ![Mnp(t)].mcount = @ - 1]
  /\ IF hdr[Mnp(t)].mcount > 1
     THEN Return(t) /\ UNCHANGED hdrlock
     ELSE /\ hdrlock' = Acquire(hdrlock, Mnp(t), t)
          /\ Goto(t, "relput")
          /\ UNCHANGED loc
  /\ UNCHANGED <<tab, hash, lists, flags, mlock, mmi_refcnt>>

\* A VOB mnode whose view is there is cached, any other one is destroyed.
Cacheable(m) == Class[hdr[m].fid] = "VOB" /\ View[hdr[m].fid] \notin view_null

RelePut(t) ==
  /\ pc[t] = "relput"
  /\ LET m == Mnp(t)
     IN  IF Cacheable(m)
         THEN /\ InsFree(m)
              /\ hdr' = [hdr EXCEPT ![m].mfree = TRUE]
              /\ Goto(t, "relfree")
         ELSE /\ InsDestroy(m)
              /\ hdr' = [hdr EXCEPT ![m].on_destroy = TRUE]
              /\ Goto(t, "reldestroy")
  /\ UNCHANGED <<tab, hash, flags, hdrlock, mlock, mmi_refcnt, loc>>

\* After the release: freelist management, or the destroy list (in the faulty
\* variant nobody runs that).
AlwaysMgmt(t) == "mgmt"
AfterRele(t) == IF pc[t] = "relfree" THEN "mgmt" ELSE "dlist"

ReleUnlock(t) ==
  /\ pc[t] \in {"relfree", "reldestroy"}
  /\ hdrlock' = Drop(hdrlock, Mnp(t))
  /\ Locals(t, [loc[t] EXCEPT !.mnp = Null])
  /\ Goto(t, AfterRele(t))
  /\ UNCHANGED <<tab, hash, lists, flags, hdr, mlock, mmi_refcnt>>

-----------------------------------------------------------------------------
\* mvfs_mnfreelist_mgmt: one thread at a time brings the freelist back to its
\* minimum, the same number of mnodes from every freelist chain.
MgmtSkip(t) ==
  /\ pc[t] = "mgmt"
  /\ (cvpfreecnt <= cvpfreemax /\ vobfreecnt <= vobfreemax) \/ mgmt_ip
  /\ Return(t)
  /\ UNCHANGED <<tab, hash, lists, flags, hdr, hdrlock, mlock, mmi_refcnt>>

PerChain == IF vobfreecnt > vobfreemin
            THEN (vobfreecnt - vobfreemin) \div vobfreehashsize ELSE 0

MgmtStart(t) ==
  /\ pc[t] = "mgmt"
  /\ cvpfreecnt > cvpfreemax \/ vobfreecnt > vobfreemax
  /\ ~mgmt_ip
  /\ mgmt_ip' = TRUE
  /\ Locals(t, [loc[t] EXCEPT !.kind = "mgmt", !.n = PerChain, !.j = 0,
                              !.mnum = IF PerChain = 0 THEN vobfreehashsize ELSE 0])
  /\ Goto(t, "take")
  /\ UNCHANGED <<tab, hash, lists, sync_ip, view_null, work, hdr, hdrlock, mlock, mmi_refcnt>>

\* mfs_mnflush, mfs_mnflushvfs, mfs_mnflushvw: all free mnodes, or those of a
\* mount or of a view.
FlushStart(t) ==
  /\ pc[t] = "idle"
  /\ "flush" \in work.ops
  /\ \E k \in work.fids, what \in {"all", "vfs", "vw"} :
       Locals(t, [NoLoc EXCEPT !.kind = what, !.fid = IF what = "all" THEN NoFid ELSE k])
  /\ Goto(t, "take")
  /\ UNCHANGED <<tab, hash, lists, flags, hdr, hdrlock, mlock, mmi_refcnt>>

\* The removal of a view (mvfs_vwdirops.c) starts with mfs_mnflushvw.
RmViewStart(t) ==
  /\ pc[t] = "idle"
  /\ "rmview" \in work.ops
  /\ \E k \in work.fids :
       /\ View[k] \notin view_null
       /\ Locals(t, [NoLoc EXCEPT !.kind = "rmview", !.fid = k])
  /\ Goto(t, "take")
  /\ UNCHANGED <<tab, hash, lists, flags, hdr, hdrlock, mlock, mmi_refcnt>>

\* In the "take" loop loc.mnum is the freelist chain (hash_val, i) and loc.j
\* counts the rounds of mgmt in it.
Victim(t, m) ==
  CASE loc[t].kind = "vfs" -> Vfs[hdr[m].fid] = Vfs[loc[t].fid]
    [] loc[t].kind \in {"vw", "rmview"} -> View[hdr[m].fid] = View[loc[t].fid]
    [] OTHER               -> TRUE

Victims(t) == SelectSeq(vobfree[loc[t].mnum], LAMBDA m : Victim(t, m))

\* mgmt goes to the next chain after n rounds, a flush when none is left.
NextRound(t) == IF loc[t].kind # "mgmt" THEN loc[t]
                ELSE IF loc[t].j + 1 < loc[t].n THEN [loc[t] EXCEPT !.j = @ + 1]
                ELSE [loc[t] EXCEPT !.j = 0, !.mnum = @ + 1]

\* The victim leaves the freelist.
TakeOff(m) == RmFree(m)

TakeFree(t) ==
  /\ pc[t] = "take" /\ loc[t].mnum \in FreeChains
  /\ Victims(t) # <<>>
  /\ LET m == Head(Victims(t))
     IN  /\ TakeOff(m)
         /\ hdr' = [hdr EXCEPT ![m].trans_destroy = TRUE, ![m].mfree = FALSE]
         /\ Locals(t, [loc[t] EXCEPT !.mnp = m])
  /\ Goto(t, "put")
  /\ UNCHANGED <<tab, hash, flags, hdrlock, mlock, mmi_refcnt>>

TakeNone(t) ==
  /\ pc[t] = "take" /\ loc[t].mnum \in FreeChains
  /\ Victims(t) = <<>>
  /\ Locals(t, IF loc[t].kind = "mgmt" THEN NextRound(t)
               ELSE [loc[t] EXCEPT !.mnum = @ + 1])
  /\ UNCHANGED <<tab, hash, lists, flags, hdr, hdrlock, mlock, mmi_refcnt, pc>>

PutDestroy(t) ==
  /\ pc[t] = "put"
  /\ InsDestroy(Mnp(t))
  /\ hdr' = [hdr EXCEPT ![Mnp(t)].on_destroy = TRUE]
  /\ Locals(t, [NextRound(t) EXCEPT !.mnp = Null])
  /\ Goto(t, "take")
  /\ UNCHANGED <<tab, hash, flags, hdrlock, mlock, mmi_refcnt>>

TakeEnd(t) ==
  /\ pc[t] = "take" /\ loc[t].mnum \notin FreeChains
  /\ Locals(t, [loc[t] EXCEPT !.n = 0, !.mnum = 0,
                              !.fid = IF loc[t].kind = "rmview" THEN @ ELSE NoFid])
  /\ Goto(t, "dlist")
  /\ UNCHANGED <<tab, hash, lists, flags, hdr, hdrlock, mlock, mmi_refcnt>>

-----------------------------------------------------------------------------
\* mvfs_mndestroy_list and mvfs_mndestroy: one mnode after another comes off
\* the destroy list, its hash chain and the table, and is freed.
DestroyNext(t) ==
  /\ pc[t] = "dlist"
  /\ destroylist # <<>>
  /\ destroylist' = Tail(destroylist)
  /\ Locals(t, [loc[t] EXCEPT !.mnp = Head(destroylist)])
  /\ Goto(t, "unhash")
  /\ UNCHANGED <<tab, hash, vobfree, vobfreecnt, cvpfreecnt, flags, hdr, hdrlock,
                 mlock, mmi_refcnt>>

DestroyEnd(t) ==
  /\ pc[t] = "dlist"
  /\ destroylist = <<>>
  /\ IF loc[t].kind = "mgmt"
     THEN Goto(t, "cvp") /\ Locals(t, [loc[t] EXCEPT !.kind = "lowmark"])
     ELSE IF loc[t].kind = "rmview" THEN Goto(t, "viewnull") /\ UNCHANGED loc
     ELSE Return(t)
  /\ UNCHANGED <<tab, hash, lists, flags, hdr, hdrlock, mlock, mmi_refcnt>>

Unhash(t) ==
  /\ pc[t] = "unhash"
  /\ LET h == HashOf[hdr[Mnp(t)].fid]
     IN  /\ hashlock[h] = Null
         /\ chain' = [chain EXCEPT ![h] = Remove(@, Mnp(t))]
  /\ Goto(t, "freeslot")
  /\ UNCHANGED <<tab, hashlock, lists, flags, hdr, hdrlock, mlock, mmi_refcnt, loc>>

\* The slots a destroyed mnode gives back: its own, once (in the faulty variant
\* the next one is taken for it).
NextSlot(m) == hdr[m].mnum + 1
OwnSlot(m) == hdr[m].mnum

DestroySlot(t) ==
  /\ pc[t] = "freeslot"
  /\ mnlock = Null
  /\ FreeSlot(OwnSlot(Mnp(t)))
  /\ Goto(t, "unmnt")
  /\ UNCHANGED <<mnlock, hash, lists, flags, hdr, hdrlock, mlock, mmi_refcnt, loc>>

\* The mount loses an mnode; a count below zero is set back to zero.
OneLess(m) == [mmi_refcnt EXCEPT ![Vfs[hdr[m].fid]] = IF @ = 0 THEN 0 ELSE @ - 1]

Unmount(t) ==
  /\ pc[t] = "unmnt"
  /\ mmi_refcnt' = OneLess(Mnp(t))
  /\ Goto(t, "clean")
  /\ UNCHANGED <<tab, hash, lists, flags, hdr, hdrlock, mlock, loc>>

\* mvfs_mnclean passes through the header lock, because the thread that put
\* the mnode on the destroy list may still hold it; then mvfs_mnfree.
HdrLockPassed(m) == hdrlock[m] = Null

Clean(t) ==
  /\ pc[t] = "clean"
  /\ HdrLockPassed(Mnp(t))
  /\ hdr' = [hdr EXCEPT ![Mnp(t)] = DeadHdr]
  /\ Locals(t, [loc[t] EXCEPT !.mnp = Null])
  /\ Goto(t, "dlist")
  /\ UNCHANGED <<tab, hash, lists, flags, hdrlock, mlock, mmi_refcnt>>

-----------------------------------------------------------------------------
\* mvfs_mnflush_cvpfreelist: cleartext vnodes are dropped from free mnodes,
\* after freelist management down to the low mark, or on request.
CvpStart(t) ==
  /\ pc[t] = "idle"
  /\ "cvp" \in work.ops
  /\ \E what \in {"half", "all", "aged"} : Locals(t, [NoLoc EXCEPT !.kind = what])
  /\ Goto(t, "cvp")
  /\ UNCHANGED <<tab, hash, lists, flags, hdr, hdrlock, mlock, mmi_refcnt>>

CvpWanted(t) ==
  CASE loc[t].kind = "half"    -> cvpfreecnt \div 2
    [] loc[t].kind = "lowmark" -> IF cvpfreecnt > cvpfreemax
                                  THEN cvpfreecnt - cvpfreemin ELSE 0
    [] OTHER                   -> cvpfreecnt

CvpPerChain(t, count) ==
  CASE loc[t].kind = "half"    -> count \div vobfreehashsize + 1
    [] loc[t].kind = "lowmark" -> count \div vobfreehashsize
    [] OTHER                   -> count

\* loc.n is count, loc.j count_per_chain, loc.mnum the freelist chain.  If
\* the list cannot be allocated, count is cut to what fits on the stack.
CvpCount(t) ==
  /\ pc[t] = "cvp"
  /\ IF CvpWanted(t) = 0 THEN Goto(t, "cvpend") /\ UNCHANGED loc
     ELSE /\ \E count \in {CvpWanted(t),
                           IF CvpWanted(t) > StkFreeQLen THEN StkFreeQLen
                           ELSE CvpWanted(t)} :
               Locals(t, [loc[t] EXCEPT !.n = count, !.j = CvpPerChain(t, count)])
          /\ Goto(t, "cvpchain")
  /\ UNCHANGED <<tab, hash, lists, flags, hdr, hdrlock, mlock, mmi_refcnt>>

\* Under the lock of one freelist chain the first mnodes with a cleartext
\* lose it; an aged flush stops at the first mnode that is too young.
CvpLess(k) == cvpfreecnt - k

CvpChain(t) ==
  /\ pc[t] = "cvpchain" /\ loc[t].mnum \in FreeChains
  /\ LET s == SelectSeq(vobfree[loc[t].mnum], LAMBDA m : hdr[m].realvp)
         lim == IF loc[t].j < loc[t].n THEN loc[t].j ELSE loc[t].n
         most == IF Len(s) < lim THEN Len(s) ELSE lim
     IN  \E k \in IF loc[t].kind = "aged" THEN 0 .. most ELSE {most} :
           /\ hdr' = [m \in Mnodes |-> IF \E p \in 1 .. k : s[p] = m
                                       THEN [hdr[m] EXCEPT !.realvp = FALSE]
                                       ELSE hdr[m]]
           /\ cvpfreecnt' = CvpLess(k)
           /\ Locals(t, [loc[t] EXCEPT !.n = @ - k, !.mnum = @ + 1])
  /\ UNCHANGED <<tab, hash, vobfree, vobfreecnt, destroylist, flags, hdrlock, mlock,
                 mmi_refcnt, pc>>

CvpDone(t) ==
  /\ pc[t] = "cvpchain" /\ loc[t].mnum \notin FreeChains
  /\ Goto(t, "cvpend")
  /\ UNCHANGED <<tab, hash, lists, flags, hdr, hdrlock, mlock, mmi_refcnt, loc>>

\* Freelist management is over: mvfs_mnfreelist_mgmt_ip = 0.
CvpEnd(t) ==
  /\ pc[t] = "cvpend"
  /\ mgmt_ip' = IF loc[t].kind = "lowmark" THEN FALSE ELSE mgmt_ip
  /\ Return(t)
  /\ UNCHANGED <<tab, hash, lists, sync_ip, view_null, work, hdr, hdrlock, mlock, mmi_refcnt>>

-----------------------------------------------------------------------------
\* mfs_mngetnextoid: a linear search of the mnode table under mfs_mnlock.
\* loc.i is *mnump and loc.j the retry counter.
OidStart(t) ==
  /\ pc[t] = "idle"
  /\ "oid" \in work.ops
  /\ \E k \in {f \in work.fids : Class[f] = "VOB"} :
       Locals(t, [NoLoc EXCEPT !.fid = k])
  /\ Goto(t, "oid")
  /\ UNCHANGED <<tab, hash, lists, flags, hdr, hdrlock, mlock, mmi_refcnt>>

OidLock(t) ==
  /\ pc[t] = "oid"
  /\ mnlock = Null
  /\ mnlock' = t
  /\ Goto(t, "oidscan")
  /\ UNCHANGED <<tableVars, hash, lists, flags, hdr, hdrlock, mlock, mmi_refcnt, loc>>

OidSlots(t) == {n \in loc[t].i .. mvfs_mtmhwm :
                  /\ mnum_to_mnode[n] \in Mnodes
                  /\ LET m == mnum_to_mnode[n]
                     IN  hdr[m].fid = loc[t].fid /\ ~hdr[m].stale}

OidNext(t, n) == n \in OidSlots(t) /\ \A k \in OidSlots(t) : n <= k

OidMiss(t) ==
  /\ pc[t] = "oidscan"
  /\ OidSlots(t) = {}
  /\ mnlock' = Null
  /\ Return(t)
  /\ UNCHANGED <<tableVars, hash, lists, flags, hdr, hdrlock, mlock, mmi_refcnt>>

\* The header lock must not be waited for with mfs_mnlock held: let go and
\* come back to the same slot, and give up on it after MaxRetry times.
OidBusy(t) ==
  /\ pc[t] = "oidscan"
  /\ \E n \in OidSlots(t) :
       /\ OidNext(t, n)
       /\ hdrlock[mnum_to_mnode[n]] # Null
       /\ IF loc[t].j < MaxRetry
          THEN /\ Locals(t, [loc[t] EXCEPT !.i = n, !.j = @ + 1])
               /\ mnlock' = Null
               /\ Goto(t, "oid")
          ELSE /\ Locals(t, [loc[t] EXCEPT !.i = n + 1])
               /\ UNCHANGED <<mnlock, pc>>
  /\ UNCHANGED <<tableVars, hash, lists, flags, hdr, hdrlock, mlock, mmi_refcnt>>

OidHdr(t) ==
  /\ pc[t] = "oidscan"
  /\ \E n \in OidSlots(t) :
       LET m == mnum_to_mnode[n]
       IN  /\ OidNext(t, n)
           /\ hdrlock[m] = Null
           /\ IF OnDestroy(m)
              THEN /\ Locals(t, [loc[t] EXCEPT !.i = n + 1])
                   /\ UNCHANGED <<pc, hdrlock>>
              ELSE /\ Locals(t, [loc[t] EXCEPT !.i = n, !.mnp = m])
                   /\ Goto(t, "oidfree")
                   /\ hdrlock' = Acquire(hdrlock, m, t)
  /\ UNCHANGED <<tab, hash, lists, flags, hdr, mlock, mmi_refcnt>>

OidTrans(t) ==
  /\ pc[t] = "oidfree"
  /\ InTransition(Mnp(t))
  /\ hdrlock' = Drop(hdrlock, Mnp(t))
  /\ Locals(t, [loc[t] EXCEPT !.i = @ + 1, !.mnp = Null])
  /\ Goto(t, "oidscan")
  /\ UNCHANGED <<tab, hash, lists, flags, hdr, mlock, mmi_refcnt>>

\* Off the freelist; then the count is raised with only the header locked.
OidTake(t) ==
  /\ pc[t] = "oidfree"
  /\ ~InTransition(Mnp(t))
  /\ Reclaim(Mnp(t))
  /\ hdr' = [hdr EXCEPT ![Mnp(t)].mfree = FALSE]
  /\ mnlock' = Null
  /\ Locals(t, [NoLoc EXCEPT !.mnp = Mnp(t)])
  /\ Goto(t, "found")
  /\ UNCHANGED <<tableVars, hash, flags, hdrlock, mlock, mmi_refcnt>>

-----------------------------------------------------------------------------
\* mvfs_mnclear_logbits: no reference is taken; mfs_mnlock keeps the mnode
\* in the table, hence allocated, while its mnode lock is held.
LogStart(t) ==
  /\ pc[t] = "idle"
  /\ "log" \in work.ops
  /\ mnlock = Null
  /\ mnlock' = t
  /\ Goto(t, "log")
  /\ UNCHANGED <<tableVars, hash, lists, flags, hdr, hdrlock, mlock, mmi_refcnt, loc>>

LogSlots(t) == {n \in loc[t].i .. mvfs_mtmhwm - 1 :
                  /\ mnum_to_mnode[n] \in Mnodes
                  /\ Class[hdr[mnum_to_mnode[n]].fid] = "VOB"}

LogFree(m) == /\ hdrlock[m] = Null /\ mlock[m] = Null
              /\ ~OnDestroy(m) /\ ~InTransition(m)

LogMnode(t) ==
  /\ pc[t] = "log"
  /\ \E n \in LogSlots(t) :
       LET m == mnum_to_mnode[n]
       IN  /\ \A k \in LogSlots(t) : n <= k
           /\ IF LogFree(m)
              THEN /\ mlock' = Acquire(mlock, m, t)
                   /\ Locals(t, [loc[t] EXCEPT !.i = n + 1, !.mnp = m])
                   /\ Goto(t, "logbit")
              ELSE /\ Locals(t, [loc[t] EXCEPT !.i = n + 1])
                   /\ UNCHANGED <<mlock, pc>>
  /\ UNCHANGED <<tab, hash, lists, flags, hdr, hdrlock, mmi_refcnt>>

LogUnlock(t) ==
  /\ pc[t] = "logbit"
  /\ mlock' = Drop(mlock, Mnp(t))
  /\ Locals(t, [loc[t] EXCEPT !.mnp = Null])
  /\ Goto(t, "log")
  /\ UNCHANGED <<tab, hash, lists, flags, hdr, hdrlock, mmi_refcnt>>

LogEnd(t) ==
  /\ pc[t] = "log"
  /\ LogSlots(t) = {}
  /\ mnlock' = Null
  /\ Return(t)
  /\ UNCHANGED <<tableVars, hash, lists, flags, hdr, hdrlock, mlock, mmi_refcnt>>

-----------------------------------------------------------------------------
\* mvfs_mnsyncmnodes: one sync at a time.  For each vob hash chain (loc.i),
\* collect the dirty mnodes whose locks are free, then flush and release them.
VobChains == {HashOf[k] : k \in Fids}

SyncStart(t) ==
  /\ pc[t] = "idle"
  /\ "sync" \in work.ops
  /\ mnlock = Null
  /\ ~sync_ip
  /\ sync_ip' = TRUE
  /\ Locals(t, [NoLoc EXCEPT !.i = 1])
  /\ Goto(t, "sync")
  /\ UNCHANGED <<tab, hash, lists, mgmt_ip, view_null, work, hdr, hdrlock, mlock, mmi_refcnt>>

SyncLock(t) ==
  /\ pc[t] = "sync" /\ loc[t].i \in VobChains
  /\ hashlock[loc[t].i] = Null
  /\ hashlock' = Acquire(hashlock, loc[t].i, t)
  /\ Locals(t, [loc[t] EXCEPT !.j = 1])
  /\ Goto(t, "syncscan")
  /\ UNCHANGED <<tab, chain, lists, flags, hdr, hdrlock, mlock, mmi_refcnt>>

SyncMore(t) == /\ loc[t].j <= Len(chain[loc[t].i])
               /\ Len(loc[t].list) < MnplistSize

\* Clean, locked, or about to be destroyed: next time.
SyncSkip(t) ==
  /\ pc[t] = "syncscan" /\ SyncMore(t)
  /\ Locals(t, [loc[t] EXCEPT !.j = @ + 1])
  /\ UNCHANGED <<tab, hash, lists, flags, hdr, hdrlock, mlock, mmi_refcnt, pc>>

\* A dirty VOB mnode leaves the freelist before its mnode lock is tried; if
\* that is busy nothing is put back.
SyncUse(m) == [hdr EXCEPT ![m].mfree = FALSE, ![m].mcount = @ + 1]

SyncCollect(t) ==
  /\ pc[t] = "syncscan" /\ SyncMore(t)
  /\ LET m == chain[loc[t].i][loc[t].j]
     IN  /\ Class[hdr[m].fid] = "VOB"
         /\ hdrlock[m] = Null
         /\ ~OnDestroy(m) /\ ~InTransition(m)
         /\ Reclaim(m)
         /\ IF mlock[m] = Null
            THEN /\ mlock' = Acquire(mlock, m, t)
                 /\ hdr' = SyncUse(m)
                 /\ Locals(t, [loc[t] EXCEPT !.j = @ + 1, !.list = Append(@, m)])
            ELSE /\ hdr' = [hdr EXCEPT ![m].mfree = FALSE]
                 /\ Locals(t, [loc[t] EXCEPT !.j = @ + 1])
                 /\ UNCHANGED mlock
  /\ UNCHANGED <<tab, hash, flags, hdrlock, mmi_refcnt, pc>>

SyncUnlock(t) ==
  /\ pc[t] = "syncscan" /\ ~SyncMore(t)
  /\ hashlock' = Drop(hashlock, loc[t].i)
  /\ Locals(t, [loc[t] EXCEPT !.j = 0])
  /\ Goto(t, "syncput")
  /\ UNCHANGED <<tab, chain, lists, flags, hdr, hdrlock, mlock, mmi_refcnt>>

\* mvfs_sync_mnode: unlock the mnode, write its pages and release it.
SyncMnode(t) ==
  /\ pc[t] = "syncput" /\ loc[t].list # <<>>
  /\ mlock' = Drop(mlock, Head(loc[t].list))
  /\ Locals(t, [loc[t] EXCEPT !.mnp = Head(loc[t].list), !.list = Tail(@), !.ret = "syncput"])
  /\ Goto(t, "inuse")
  /\ UNCHANGED <<tab, hash, lists, flags, hdr, hdrlock, mmi_refcnt>>

SyncNextChain(t) ==
  /\ pc[t] = "syncput" /\ loc[t].list = <<>>
  /\ Locals(t, [NoLoc EXCEPT !.i = loc[t].i + 1])
  /\ Goto(t, "sync")
  /\ UNCHANGED <<tab, hash, lists, flags, hdr, hdrlock, mlock, mmi_refcnt>>

SyncEnd(t) ==
  /\ pc[t] = "sync" /\ loc[t].i \notin VobChains
  /\ mnlock = Null
  /\ sync_ip' = FALSE
  /\ Locals(t, NoLoc)
  /\ Goto(t, "idle")
  /\ UNCHANGED <<tab, hash, lists, mgmt_ip, view_null, work, hdr, hdrlock, mlock, mmi_refcnt>>

\* Only after the flush the view loses its id (mn_view.id = MFS_NULLVID).
ViewNull(t) ==
  /\ pc[t] = "viewnull"
  /\ view_null' = view_null \cup {View[loc[t].fid]}
  /\ Return(t)
  /\ UNCHANGED <<tab, hash, lists, mgmt_ip, sync_ip, work, hdr, hdrlock, mlock, mmi_refcnt>>

-----------------------------------------------------------------------------
Get(t) ==
  \/ FindLock(t) \/ FindMiss(t) \/ FindStale(t) \/ FindHdr(t) \/ FindTrans(t)
  \/ FindHit(t) \/ Found(t) \/ GiveSlot(t) \/ TakeMlock(t)
  \/ Room(t) \/ GrowRestart(t) \/ GrowFail(t) \/ ReserveSlot(t) \/ NewMnode(t)
  \/ NewFail(t) \/ InitNew(t) \/ InitFail(t) \/ PublishMnode(t) \/ HashMnode(t)
  \/ Unlock(t)

Rele(t) == ReleDec(t) \/ RelePut(t) \/ ReleUnlock(t)

Free(t) ==
  \/ MgmtSkip(t) \/ MgmtStart(t) \/ TakeFree(t) \/ TakeNone(t) \/ PutDestroy(t)
  \/ TakeEnd(t) \/ CvpCount(t) \/ CvpChain(t) \/ CvpDone(t) \/ CvpEnd(t)

Destroy(t) ==
  DestroyNext(t) \/ DestroyEnd(t) \/ Unhash(t) \/ DestroySlot(t) \/ Unmount(t) \/ Clean(t)

Scan(t) ==
  \/ OidLock(t) \/ OidMiss(t) \/ OidBusy(t) \/ OidHdr(t) \/ OidTrans(t) \/ OidTake(t)
  \/ LogMnode(t) \/ LogUnlock(t) \/ LogEnd(t)
  \/ SyncLock(t) \/ SyncSkip(t) \/ SyncCollect(t) \/ SyncUnlock(t) \/ SyncMnode(t)
  \/ SyncNextChain(t) \/ SyncEnd(t) \/ ViewNull(t)

Call(t) == GetStart(t) \/ FlushStart(t) \/ RmViewStart(t) \/ CvpStart(t) \/ OidStart(t) \/ LogStart(t)
           \/ SyncStart(t)

\* What a thread does once it is in a routine.
Run(t) == Get(t) \/ Rele(t) \/ Free(t) \/ Destroy(t) \/ Scan(t)

Next == \E t \in Threads : Call(t) \/ Run(t)

Spec == Init /\ [][Next]_vars

\* The locks are sleeping locks that serve every waiter, and a thread that
\* entered the module is scheduled until it leaves.
FairSpec == Spec /\ \A t \in Threads : SF_vars(Run(t))

-----------------------------------------------------------------------------
Live == {m \in Mnodes : hdr[m].alive}
InSeq(m, s) == \E p \in 1 .. Len(s) : s[p] = m
OnFree(m) == \E f \in FreeChains : InSeq(m, vobfree[f])
Hashed(m) == \E h \in Chains : InSeq(m, chain[h])

\* Thread t has counted its use of m in mcount.
HasRef(t, m) ==
  \/ Mnp(t) = m /\ pc[t] \in {"publish", "hash", "mlock", "locked", "inuse"}
  \/ InSeq(m, loc[t].list)

\* Thread t is moving the unreferenced m from one place to another.
HasCustody(t, m) ==
  Mnp(t) = m /\ pc[t] \in {"found", "give", "relput", "put", "unhash", "freeslot",
                           "unmnt", "clean"}

TypeOK ==
  /\ TableTypeOK
  /\ mnlock \in Threads \cup {Null}
  /\ \A m \in Mnodes :
       /\ hdr[m].fid \in Requests /\ hdr[m].gen \in Gens /\ hdr[m].mcount \in Nat
       /\ hdrlock[m] \in Threads \cup {Null} /\ mlock[m] \in Threads \cup {Null}
  /\ \A h \in Chains : chain[h] \in Seq(Mnodes)
  /\ \A f \in FreeChains : vobfree[f] \in Seq(Mnodes)
  /\ destroylist \in Seq(Mnodes)
  /\ vobfreecnt \in Nat /\ cvpfreecnt \in Nat

\* No pointer outlives its mnode: what a hash chain, a freelist chain, the
\* destroy list, the mnode table or a thread can reach is allocated, and no
\* lock of a freed mnode is held.  This is what on_destroy, trans_destroy and
\* the header lock in mvfs_mnclean are for.
NoDangling ==
  /\ \A m \in Mnodes :
       Hashed(m) \/ OnFree(m) \/ InSeq(m, destroylist) \/ Published(m) => m \in Live
  /\ \A t \in Threads : Mnp(t) # Null => Mnp(t) \in Live
  /\ \A m \in Mnodes : hdrlock[m] # Null \/ mlock[m] # Null => m \in Live

\* mcount is the number of threads that use the mnode, so it reaches zero
\* exactly when the last user releases it.
RefsExact ==
  \A m \in Live : hdr[m].mcount =
    Cardinality({t \in Threads : HasRef(t, m)})
      + (IF \E t \in Threads : pc[t] = "initfail" /\ loc[t].allocmnp = m THEN 1 ELSE 0)

\* An mnode nobody uses is in one place: on the freelist, on the destroy list
\* or in the hands of one thread that moves it.  It is never lost and never
\* on two lists.  (Only a sync that finds the mnode lock busy leaves an mnode on
\* no list, until it is found again.)
IdleInOnePlace ==
  "sync" \notin work.ops => \A m \in Live : Published(m) /\ hdr[m].mcount = 0 =>
    Cardinality({x \in {"free", "destroy"} : \/ x = "free" /\ OnFree(m)
                                             \/ x = "destroy" /\ InSeq(m, destroylist)}
                \cup {t \in Threads : HasCustody(t, m)}) = 1

\* What mvfs_mnverify_freelist and mvfs_mnverify_destroy assert, and that the
\* counters that drive freelist management are exact, also the count of
\* cleartexts, which change hands while their mnodes stay on the list.
ListsVerify ==
  /\ \A m \in Mnodes : OnFree(m) <=> hdr[m].mfree
  /\ \A m \in Mnodes : OnFree(m) => /\ hdr[m].mcount = 0
                                    /\ ~hdr[m].on_destroy /\ ~hdr[m].trans_destroy
  /\ \A m \in Mnodes : InSeq(m, destroylist) => hdr[m].mcount = 0 /\ hdr[m].on_destroy
  /\ vobfreecnt = Cardinality({m \in Mnodes : OnFree(m)})
  /\ cvpfreecnt = Cardinality({m \in Mnodes : OnFree(m) /\ hdr[m].realvp})

OfMount(v) ==
  {m \in Live : /\ Vfs[hdr[m].fid] = v
                /\ \/ Published(m)
                   \/ \E t \in Threads : \/ Mnp(t) = m /\ pc[t] \in {"publish", "unmnt"}
                                         \/ loc[t].allocmnp = m /\ pc[t] = "initfail"}

\* mmi_refcnt, which an unmount looks at, is the number of mnodes of the mount.
\* (A VIEW mnode whose initialisation fails stays counted: an unmount is then
\* refused for ever, but never goes ahead under a live mnode.)
MountCountExact ==
  \A v \in DOMAIN mmi_refcnt :
    IF "viewget" \in work.ops THEN mmi_refcnt[v] >= Cardinality(OfMount(v))
    ELSE mmi_refcnt[v] = Cardinality(OfMount(v))

\* An mnode that is on its way to destruction gets no new user.
NoResurrection ==
  [][\A m \in Mnodes :
       hdr[m].on_destroy \/ hdr[m].trans_destroy =>
         hdr'[m].mcount = 0 /\ (hdr'[m].on_destroy \/ hdr'[m].trans_destroy \/ ~hdr'[m].alive)]_vars

\* An mnode lives exactly as long as somebody can reach it, is counted and is in
\* one place, whatever gets, releases, flushes, scans and syncs run at once.
MnodesSound == /\ TypeOK /\ NoDangling /\ RefsExact /\ IdleInOnePlace
               /\ ListsVerify /\ MountCountExact

\* Every mnode put on the destroy list is destroyed.
DestroyHappens == \A m \in Mnodes : hdr[m].on_destroy ~> ~hdr[m].alive

\* mfs_mnget returns, with a locked mnode or without one: no wait for a hash
\* chain, a header or an mnode lock lasts for ever.
GetReturns == \A t \in Threads : pc[t] = "find" ~> pc[t] \in {"locked", "idle"}

\* Whatever a thread waits for comes: mnodes are destroyed and gets return.
MnodeProgress == DestroyHappens /\ GetReturns
=============================================================================
