--------------------------------- MODULE Rpc ---------------------------------
(***************************************************************************)
(* Remote calls to a view server (mvfs_rpcutl.c): the cache of client      *)
(* handles (sockets), the allocation of transaction ids, and the calls     *)
(* with their timeouts, retries and rebinding through the albd server.     *)
(*                                                                         *)
(* A thread has a stack of calls: mvfs_vwcall at the bottom, and on top of *)
(* it the mfscall that mvfs_bindsvr_port makes to the albd, on a handle of *)
(* its own.  Servers and network are external: a message sent may arrive   *)
(* late, never or again; a server executes a transaction of a socket only  *)
(* if it is newer than the last one it saw from that socket.               *)
(***************************************************************************)
EXTENDS Integers, Sequences, SequencesExt, FiniteSets

CONSTANTS
  Threads,
  Handles,        \* the client handles (sockets) there can be at a time
  Null,
  Soft,           \* threads that work on a soft mount
  SetuidRoot,     \* threads with MDKI_CR_IS_SETUID_ROOT
  CacheSizes,     \* sizes mvfs_rpc_setcaches is called with
  InitCacheSize,  \* mvfs_client_cache_size
  XidLimit,       \* MVFS_XID_ULIMIT
  Probes,         \* whether the view may have been idle for the rebind timeout
  InitFails,      \* whether MDKI_CLNTKUDP_INIT may fail
  MaxCalls,       \* bound: calls made
  MaxFaults,      \* bound: faults of network and servers; -1 is no bound
  MaxRestarts,    \* bound: restarts of the view server
  MaxWraps        \* bound: wraps of the transaction id

ASSUME RpcAssumption ==
  /\ Null \notin Handles
  /\ XidLimit \in Nat \ {0} /\ InitCacheSize \in Nat /\ CacheSizes \subseteq Nat
  /\ InitFails \in BOOLEAN /\ MaxCalls \in Nat

VARIABLES
  mvfs_xid, mvfs_boottime,
  torn,           \* ghost: handles whose call a wrap of the ids overtook
  cache,          \* mvfs_client_cache
  family,         \* mvfs_client_cache_family: unspec or inet
  live,           \* handles created and not destroyed
  svr,            \* mn_view.svr: bound, and the port it has
  stack,          \* the calls of each thread, the innermost first
  calls,          \* calls made so far
  net,            \* messages sent
  seen,           \* the view server's last transaction of a socket and its result
  replies,        \* replies sent
  execs,          \* how often this view server executed each call
  port,           \* where the view server listens now
  faults          \* faults still to come

drv == <<mvfs_xid, mvfs_boottime, torn, cache, family, live, svr, stack, calls>>
ext == <<net, seen, replies, execs, port>>
vars == <<drv, ext, faults>>

EmptySlot == [client |-> Null, inuse |-> FALSE, proto |-> "view"]
EmptyCache(n) == [i \in 1 .. n |-> EmptySlot]

Init ==
  /\ mvfs_xid = 0 /\ mvfs_boottime = 1 /\ torn = {}
  /\ cache = EmptyCache(InitCacheSize)
  /\ family = "unspec"
  /\ live = {}
  /\ svr \in {[bound |-> FALSE, port |-> 0], [bound |-> TRUE, port |-> 1]}
  /\ stack = [t \in Threads |-> <<>>]
  /\ calls = 0
  /\ net = {} /\ replies = {}
  /\ seen = [h \in Handles |-> <<0, 0, "none">>]
  /\ execs = [c \in 1 .. MaxCalls |-> 0]
  /\ port = 1
  /\ faults = MaxFaults

-----------------------------------------------------------------------------
Top(t) == Head(stack[t])
At(t, l) == stack[t] # <<>> /\ Top(t).pc = l
SetTop(t, f) == stack' = [stack EXCEPT ![t] = <<f>> \o Tail(@)]
Goto(t, l) == SetTop(t, [Top(t) EXCEPT !.pc = l])
\* The call fails with an error and goes on at l.
Fail(t, l) == SetTop(t, [Top(t) EXCEPT !.pc = l, !.err = TRUE])
\* mvfs_vwcall returns; a call to the albd ends with the error it has.
Return(t, err) ==
  IF Len(stack[t]) = 1 THEN stack' = [stack EXCEPT ![t] = <<>>]
  ELSE SetTop(t, [Top(t) EXCEPT !.pc = "end", !.err = err, !.client = Null])

\* Only the calls to the view server ask for EAGAIN and rebind.
Frame(op, l, c) ==
  [op |-> op, pc |-> l, call |-> c, client |-> Null, xid |-> 0,
   bt |-> 0, rebind |-> op = "view", ruid |-> FALSE, err |-> FALSE]

Proto(f) == IF f.op = "view" THEN "view" ELSE "albd"

Fault == faults # 0 /\ faults' = IF faults > 0 THEN faults - 1 ELSE faults

\* The network is done with a handle: what is still under way of it is older
\* than its last transaction, or nobody waits for the answer.
Forget(h) == net' = {m \in net : m.h # h} /\ replies' = {r \in replies : r.h # h}

\* mvfs_vwcall.  The server is rebound first when it has not been talked to
\* for mvfs_view_rebind_timeout.
CallStart(t) ==
  /\ stack[t] = <<>>
  /\ calls < MaxCalls
  /\ calls' = calls + 1
  /\ \E l \in {"get"} \cup (IF Probes THEN {"probe"} ELSE {}) :
       stack' = [stack EXCEPT ![t] = <<Frame("view", l, calls + 1)>>]
  /\ UNCHANGED <<mvfs_xid, mvfs_boottime, torn, cache, family, live, svr, ext, faults>>

-----------------------------------------------------------------------------
\* mvfs_clnt_get: the first cached handle of this protocol nobody uses.
Unused(sl) == ~sl.inuse

Cached(t) == {i \in DOMAIN cache : /\ cache[i].client # Null
                                   /\ cache[i].proto = Proto(Top(t))
                                   /\ Unused(cache[i])}

GetCached(t) ==
  /\ At(t, "get")
  /\ family = "inet"
  /\ \E i \in Cached(t) :
       /\ \A k \in Cached(t) : i <= k
       /\ cache' = [cache EXCEPT ![i].inuse = TRUE]
       /\ \/ /\ SetTop(t, [Top(t) EXCEPT !.pc = "xid", !.client = cache[i].client])
             /\ UNCHANGED faults
          \/ InitFails /\ Fault /\ Return(t, TRUE)
  /\ UNCHANGED <<mvfs_xid, mvfs_boottime, torn, family, live, svr, calls, ext>>

\* No handle in the cache: create one (one retry), with no lock held.  Which of
\* the unused Handles names the new socket makes no difference.
Create(t) ==
  /\ At(t, "get")
  /\ family = "unspec" \/ Cached(t) = {}
  /\ Handles # live
  /\ LET h == CHOOSE h \in Handles : h \notin live
     IN  /\ live' = live \cup {h}
         /\ SetTop(t, [Top(t) EXCEPT !.pc = "insert", !.client = h])
         /\ seen' = [seen EXCEPT ![h] = <<0, 0, "none">>]
         /\ torn' = torn \ {h}
  /\ UNCHANGED <<mvfs_xid, mvfs_boottime, cache, family, svr, calls, net, replies, execs, port, faults>>

CreateFail(t) ==
  /\ At(t, "get")
  /\ family = "unspec" \/ Cached(t) = {}
  /\ Fault
  /\ Return(t, TRUE)
  /\ UNCHANGED <<mvfs_xid, mvfs_boottime, torn, cache, family, live, svr, calls, ext>>

\* The new handle goes to the first empty slot, or takes the place of the
\* first one that is not in use, or is not cached.
Empty == {i \in DOMAIN cache : cache[i].client = Null}
Replaceable == IF Empty # {} THEN Empty ELSE {i \in DOMAIN cache : Unused(cache[i])}

Insert(t) ==
  /\ At(t, "insert")
  /\ \/ /\ Replaceable = {}
        /\ UNCHANGED <<cache, family, live>>
     \/ \E i \in Replaceable :
          /\ \A k \in Replaceable : i <= k
          /\ cache' = [cache EXCEPT ![i] = [client |-> Top(t).client, inuse |-> TRUE,
                                            proto |-> Proto(Top(t))]]
          /\ live' = live \ {cache[i].client}
          /\ family' = IF i \in Empty THEN "inet" ELSE family
  /\ Goto(t, "xid")
  /\ UNCHANGED <<mvfs_xid, mvfs_boottime, torn, svr, calls, ext, faults>>

\* mvfs_clnt_free: back to the cache; after an error, or when it is not in the
\* cache, the handle is destroyed.
SlotAfter(sl, err) == [sl EXCEPT !.inuse = FALSE, !.client = IF err THEN Null ELSE @]

FreeHandle(t) ==
  /\ At(t, "free")
  /\ LET h == Top(t).client
         mine == {i \in DOMAIN cache : cache[i].client = h}
     IN  /\ cache' = [i \in DOMAIN cache |-> IF i \in mine THEN SlotAfter(cache[i], Top(t).err)
                                             ELSE cache[i]]
         /\ live' = IF mine = {} \/ Top(t).err THEN live \ {h} ELSE live
  /\ Return(t, Top(t).err)
  /\ Forget(Top(t).client)
  /\ UNCHANGED <<mvfs_xid, mvfs_boottime, torn, family, svr, calls, seen, execs, port, faults>>

\* Mutant: the handles in use are destroyed too.
DestroyAll == {cache[i].client : i \in DOMAIN cache}
\* mvfs_rpc_setcaches: the handles in use stay with their threads, which will
\* not find them in the new cache.
ToDestroy == {cache[i].client : i \in {k \in DOMAIN cache : ~cache[k].inuse}}

SetCaches(n) ==
  /\ n # Len(cache)
  /\ live' = live \ ToDestroy
  /\ cache' = EmptyCache(n)
  /\ family' = "unspec"
  /\ UNCHANGED <<mvfs_xid, mvfs_boottime, torn, svr, stack, calls, ext, faults>>

-----------------------------------------------------------------------------
\* mvfs_alloc_xid: the increment is one compare-and-swap; at the limit the
\* counter is set to 0, then the boot time, then the counter is incremented.
\* Ids taken between the first two steps, or before them and not yet done with,
\* are torn: they may go with the boot time of another round.
Wrapping(W) == \E u \in W : At(u, "wrap")
TornAlloc(t) == IF Wrapping(Threads \ {t}) THEN torn \cup {Top(t).client} ELSE torn

AllocXid(t) ==
  /\ At(t, "xid")
  /\ IF mvfs_xid = XidLimit
     THEN mvfs_xid' = 0 /\ Goto(t, "wrap") /\ UNCHANGED torn
     ELSE /\ mvfs_xid' = mvfs_xid + 1
          /\ SetTop(t, [Top(t) EXCEPT !.pc = "call", !.xid = mvfs_xid + 1])
          /\ torn' = TornAlloc(t)
  /\ UNCHANGED <<mvfs_boottime, cache, family, live, svr, calls, ext, faults>>

\* The boot time a wrap begins.
\* Mutant: the boot time stays.
SameBoottime == mvfs_boottime
NewBoottime == mvfs_boottime + 1

\* The calls that have an id and may send, or send again.
Sending(t) == stack[t] # <<>> /\ Last(stack[t]).pc \in {"call", "again", "wait", "rebind"}

WrapBoottime(t) ==
  /\ At(t, "wrap")
  /\ mvfs_boottime <= MaxWraps
  /\ mvfs_boottime' = NewBoottime
  /\ torn' = torn \cup {Last(stack[u]).client : u \in {u \in Threads : Sending(u)}}
  /\ Goto(t, "wrapped")
  /\ UNCHANGED <<mvfs_xid, cache, family, live, svr, calls, ext, faults>>

WrapXid(t) ==
  /\ At(t, "wrapped")
  /\ mvfs_xid' = mvfs_xid + 1
  /\ SetTop(t, [Top(t) EXCEPT !.pc = "call", !.xid = mvfs_xid + 1])
  /\ torn' = TornAlloc(t)
  /\ UNCHANGED <<mvfs_boottime, cache, family, live, svr, calls, ext, faults>>

-----------------------------------------------------------------------------
\* mfscall_int.  The boot time is read at every (re)transmission; the RPC
\* layer accepts no answer to an earlier one.  The albd is not modelled
\* further: it answers or it does not.
IsBound(t) == Top(t).op # "view" \/ svr.bound

Send(t) ==
  /\ At(t, "call") \/ At(t, "again")
  /\ IsBound(t)
  /\ SetTop(t, [Top(t) EXCEPT !.pc = "wait", !.bt = mvfs_boottime])
  /\ IF Top(t).op = "view"
     THEN /\ net' = net \cup {[h |-> Top(t).client, bt |-> mvfs_boottime, xid |-> Top(t).xid,
                               call |-> Top(t).call, to |-> svr.port,
                               root |-> t \in SetuidRoot /\ ~Top(t).ruid]}
          /\ replies' = {r \in replies : r.h # Top(t).client}
     ELSE UNCHANGED <<net, replies>>
  /\ UNCHANGED <<mvfs_xid, mvfs_boottime, torn, cache, family, live, svr, calls, seen,
                 execs, port, faults>>

\* EAGAIN to mvfs_vwcall, or the call is over.
Again(t) == IF Top(t).rebind THEN Goto(t, "rebind") ELSE Fail(t, "free")

Unbound(t) ==
  /\ At(t, "call") \/ At(t, "again")
  /\ ~IsBound(t)
  /\ Again(t)
  /\ UNCHANGED <<mvfs_xid, mvfs_boottime, torn, cache, family, live, svr, calls, ext, faults>>

Answer(t, r) == r.h = Top(t).client /\ r.bt = Top(t).bt /\ r.xid = Top(t).xid

Denied(t) == /\ t \in SetuidRoot /\ ~Top(t).ruid
             /\ Top(t).op = "view" => \E r \in replies : Answer(t, r) /\ r.status = "denied"

Answered(t) == Top(t).op = "view" => \E r \in replies : Answer(t, r) /\ r.status # "denied"

Reply(t) ==
  /\ At(t, "wait")
  /\ Answered(t)
  /\ Goto(t, "free")
  /\ UNCHANGED <<mvfs_xid, mvfs_boottime, torn, cache, family, live, svr, calls, ext, faults>>

\* A set-uid root caller that is denied tries once more with its real uid, as
\* a new transaction on the same handle.
RetryUid(t) ==
  /\ At(t, "wait")
  /\ Denied(t)
  /\ \/ SetTop(t, [Top(t) EXCEPT !.pc = "xid", !.ruid = TRUE]) /\ UNCHANGED faults
     \/ InitFails /\ Fault /\ Fail(t, "free")
  /\ UNCHANGED <<mvfs_xid, mvfs_boottime, torn, cache, family, live, svr, calls, ext>>

\* Nobody will answer: the server has left the port the message was sent to.
NobodyThere(t) == /\ Top(t).op = "view"
                  /\ ~\E m \in net : m.to = port /\ Answer(t, m)

\* RPC_TIMEDOUT: rebind if the caller can; else a hard mount retries with a new
\* transaction id and a soft mount gives up.
Timeout(t) ==
  /\ At(t, "wait")
  /\ Fault \/ (NobodyThere(t) /\ UNCHANGED faults)
  /\ IF Top(t).rebind \/ t \in Soft THEN Again(t)
     ELSE Goto(t, "xid") \/ (InitFails /\ Fail(t, "free"))
  /\ UNCHANGED <<mvfs_xid, mvfs_boottime, torn, cache, family, live, svr, calls, ext>>

\* RPC_PROGUNAVAIL comes from whoever listens on a port the server has left.
WrongServer(t) ==
  /\ At(t, "wait")
  /\ NobodyThere(t)
  /\ Again(t)
  /\ UNCHANGED <<mvfs_xid, mvfs_boottime, torn, cache, family, live, svr, calls, ext, faults>>

\* RPC_INTR and the unrecoverable errors.
GiveUp(t) ==
  /\ At(t, "wait")
  /\ Fault
  /\ Fail(t, "free")
  /\ UNCHANGED <<mvfs_xid, mvfs_boottime, torn, cache, family, live, svr, calls, ext>>

-----------------------------------------------------------------------------
\* Mutant: a soft mount rebinds again and again.
RebindAlways(t) == TRUE
\* mvfs_bindsvr_port: ask the albd for the server's port, first with
\* ALBD_FIND_SERVER and when that fails with ALBD_FIND_SERVER_V70.
\* Then mvfs_vwcall goes on: after a probe with its call, after a rebind with
\* the same transaction.  A soft mount rebinds only once.
RebindAgain(t) == t \notin Soft

\* Mutant: a retransmission gets a new transaction number.
RetryAtXid == "xid"
RetryAt == "again"

AfterBind(t, f, err) ==
  CASE f.pc = "probe" /\ err -> <<>>
    [] f.pc = "probe" /\ ~err -> <<[f EXCEPT !.pc = "get"]>>
    [] f.pc = "rebind" /\ err /\ t \in Soft -> <<[f EXCEPT !.pc = "free", !.err = TRUE]>>
    [] OTHER -> <<[f EXCEPT !.pc = RetryAt, !.ruid = FALSE, !.rebind = RebindAgain(t)]>>

BindStart(t) ==
  /\ At(t, "probe") \/ At(t, "rebind")
  /\ stack' = [stack EXCEPT ![t] = <<Frame("albd", "get", 0)>> \o @]
  /\ UNCHANGED <<mvfs_xid, mvfs_boottime, torn, cache, family, live, svr, calls, ext, faults>>

BindRefused(t) ==
  /\ At(t, "probe") \/ At(t, "rebind")
  /\ Fault
  /\ stack' = [stack EXCEPT ![t] = AfterBind(t, Top(t), TRUE)]
  /\ UNCHANGED <<mvfs_xid, mvfs_boottime, torn, cache, family, live, svr, calls, ext>>

\* The albd's answer: the server's port, or an error (of the call or its status).
BindEnd(t) ==
  /\ At(t, "end")
  /\ ~Top(t).err
  /\ svr' = [bound |-> TRUE, port |-> port]
  /\ stack' = [stack EXCEPT ![t] = AfterBind(t, @[2], FALSE)]
  /\ UNCHANGED <<mvfs_xid, mvfs_boottime, torn, cache, family, live, calls, ext, faults>>

BindFail(t) ==
  /\ At(t, "end")
  /\ IF Top(t).err THEN UNCHANGED faults ELSE Fault
  /\ stack' = [stack EXCEPT ![t] =
       IF Top(t).op = "albd" THEN <<Frame("albd70", "get", 0)>> \o Tail(@)
       ELSE AfterBind(t, @[2], TRUE)]
  /\ UNCHANGED <<mvfs_xid, mvfs_boottime, torn, cache, family, live, svr, calls, ext>>

\* MDKI_CLNTKUDP_INIT before the retry fails: the handle is not given back.
ReinitFail(t) ==
  /\ At(t, "again")
  /\ InitFails
  /\ Fault
  /\ Return(t, TRUE)
  /\ UNCHANGED <<mvfs_xid, mvfs_boottime, torn, cache, family, live, svr, calls, ext>>

-----------------------------------------------------------------------------
Before(a, b) == a[1] < b[1] \/ (a[1] = b[1] /\ a[2] < b[2])

\* External: a server receives a message.  It executes a transaction newer than
\* the last one of that socket, answers the last one again, and rejects an
\* older one as stale.
Deliver(m) ==
  /\ m \in net
  /\ m.to = port
  /\ LET id == <<m.bt, m.xid>>
         answer(st) == replies' = replies \cup {[h |-> m.h, bt |-> m.bt, xid |-> m.xid, status |-> st]}
     IN  \/ /\ Before(seen[m.h], id)
            /\ \E st \in IF m.root THEN {"ok", "denied"} ELSE {"ok"} :
                 /\ seen' = [seen EXCEPT ![m.h] = <<m.bt, m.xid, st>>]
                 /\ answer(st)
                 /\ execs' = IF st = "denied" THEN execs ELSE [execs EXCEPT ![m.call] = @ + 1]
         \/ /\ ~Before(seen[m.h], id)
            /\ \E t \in Threads : At(t, "wait") /\ Answer(t, m)
            /\ answer(IF Before(id, seen[m.h]) THEN "stale" ELSE seen[m.h][3])
            /\ UNCHANGED <<seen, execs>>
  /\ UNCHANGED <<drv, net, port, faults>>

\* External: the view server restarts on another port and forgets.
Restart ==
  /\ port <= MaxRestarts
  /\ port' = port + 1
  /\ seen' = [h \in Handles |-> <<0, 0, "none">>]
  /\ execs' = [c \in 1 .. MaxCalls |-> 0]
  /\ UNCHANGED <<drv, net, replies, faults>>

Run(t) ==
  \/ GetCached(t) \/ Create(t) \/ CreateFail(t) \/ Insert(t) \/ FreeHandle(t)
  \/ AllocXid(t) \/ WrapBoottime(t) \/ WrapXid(t) \/ Send(t) \/ Unbound(t)
  \/ Reply(t) \/ RetryUid(t) \/ Timeout(t) \/ WrongServer(t) \/ GiveUp(t)
  \/ BindStart(t) \/ BindRefused(t) \/ BindEnd(t) \/ BindFail(t) \/ ReinitFail(t)

Next == \/ \E t \in Threads : CallStart(t) \/ Run(t)
        \/ \E n \in CacheSizes : SetCaches(n)
        \/ \E m \in net : Deliver(m)
        \/ Restart

Spec == Init /\ [][Next]_vars

\* A thread inside a call is scheduled; while faults last it may see them.
\* Messages to a server that listens arrive in the end.
FairSpec == /\ Spec
            /\ \A t \in Threads : WF_vars(Run(t))
            /\ WF_vars(\E m \in net : Deliver(m))

-----------------------------------------------------------------------------
Frames == {<<t, k>> : t \in Threads, k \in 1 .. 2}
Holds(f, h) == f[2] <= Len(stack[f[1]]) /\ stack[f[1]][f[2]].client = h

\* The counter passes its limit only when the other threads allocate all ids
\* while one thread is in the middle of a wrap.
TypeOK ==
  /\ mvfs_xid \in Nat /\ mvfs_boottime \in Nat
  /\ \A i \in DOMAIN cache : cache[i].client \in Handles \cup {Null}
  /\ live \subseteq Handles
  /\ \A t \in Threads : Len(stack[t]) <= 2

\* A handle serves one call at a time and is not destroyed under it, also when
\* the cache is replaced meanwhile.
HandleExclusive ==
  \A h \in Handles :
    /\ Cardinality({f \in Frames : Holds(f, h)}) <= 1
    /\ \A f \in Frames : Holds(f, h) => h \in live

\* Every handle is in the cache or with the call that will give it back or
\* destroy it: no socket is lost.
NoHandleLost ==
  \A h \in live : \/ \E i \in DOMAIN cache : cache[i].client = h
                  \/ \E f \in Frames : Holds(f, h)

\* The handles marked in use are the ones that calls have; when no call is in
\* progress mvfs_clnt_destroy finds none in use, as it asserts.
InUseIsHeld ==
  \A i \in DOMAIN cache : cache[i].client # Null =>
    (cache[i].inuse <=> \E f \in Frames : Holds(f, cache[i].client))

\* Handles stay exclusive, are never lost and are marked exactly while in use,
\* whatever calls, failures and replacements of the cache run at once.
HandlesSound == TypeOK /\ HandleExclusive /\ NoHandleLost /\ InUseIsHeld

\* What is sent is never older than what was sent on its handle before, nor
\* than what the server saw from it last.  The server rejects it otherwise.
InOrder(m) ==
  LET id == <<m.bt, m.xid>>
  IN  /\ ~Before(id, seen[m.h])
      /\ \A k \in net : k.h = m.h => ~Before(id, <<k.bt, k.xid>>)

\* "It is imperative that for a given socket XID's always monotonically
\* increase" (line 617), the boot time counting before the id.  This holds through
\* any number of wraps of the ids, but not of the handles on which a call was
\* between taking its id (line 1299) and its last transmission (line 1670) when a
\* wrap took place: the code sends the old id with the new boot time there.
XidsIncrease == [][\A m \in net' \ net : m.h \notin torn => InOrder(m)]_vars

\* The view server executes a call at most once, however often it is sent, but for a
\* call that a wrap overtook: its retry goes with the new boot time (line 1670) and is
\* another transaction, although the comment at line 1700 has one for all retries.
AtMostOnce ==
  [][\A c \in 1 .. MaxCalls :
       execs[c] > 0 /\ execs'[c] > execs[c] => \E m \in net : m.call = c /\ m.h \in torn]_vars

\* A call on a soft mount returns, whatever server and network do.
SoftReturns == \A t \in Soft : stack[t] # <<>> ~> stack[t] = <<>>
=============================================================================
