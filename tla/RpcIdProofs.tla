----------------------------- MODULE RpcIdProofs -----------------------------
(* The transactions of remote calls, for any number of threads, handles,      *)
(* calls, faults and restarts of the server.  Before the counter of ids       *)
(* reaches its limit a view server executes a call at most once between its   *)
(* restarts.  Through any number of wraps of the counter, the ids sent on a   *)
(* socket do not go back, but for the calls that a wrap overtook.             *)
EXTENDS RpcProofs

NoWrap == mvfs_xid < XidLimit

(* A call between the allocation of its transaction id and its end, or the    *)
(* allocation of another.                                                     *)
Sent == {"call", "again", "wait", "free", "rebind"}
Sends(b) == b.pc \in Sent

SeenType == {0, 1} \X Nat \X {"none", "ok", "denied"}
NumInv ==
    /\ mvfs_boottime = 1 /\ port \in Nat /\ svr.port \in Nat /\ svr.port <= port
    /\ DOMAIN seen = Handles /\ DOMAIN execs = 1 .. MaxCalls
    /\ \A h \in Handles : seen[h] \in SeenType /\ seen[h][2] <= mvfs_xid
    /\ \A m \in net : m.h \in Handles /\ m.bt = 1 /\ m.xid \in Nat /\ m.xid <= mvfs_xid /\ m.to \in Nat /\ m.to <= port
    /\ \A r \in replies : r.xid \in Nat /\ r.xid <= mvfs_xid
FrameInv(t) == Active(t) =>
    /\ Top(t).pc \notin {"wrap", "wrapped"}
    /\ Top(t).xid <= mvfs_xid /\ Bottom(t).xid <= mvfs_xid
    /\ ~Bottom(t).rebind => t \in Soft

(* What is under way belongs to a call in progress, and the calls in progress *)
(* are different ones.                                                        *)
CallInv ==
    /\ \A m \in net : \E t \in Threads : Active(t) /\ Of(t) = m.h /\ Bottom(t).call = m.call
    /\ \A t \in Threads : Active(t) => Bottom(t).call <= calls
    /\ \A t, u \in Threads : Active(t) /\ Active(u) /\ Bottom(t).call = Bottom(u).call => t = u
    /\ \A c \in 1 .. MaxCalls : execs[c] \in {0, 1} /\ (c > calls => execs[c] = 0)

(* A call b, with s the last transaction the server saw from its socket, e    *)
(* how often the server executed it, N and R the messages and replies sent,   *)
(* and p the port where the server listens.                                   *)
(* What was sent on the socket is not newer than the call.                    *)
NotNewer(b, s, N) == Sends(b) => s[2] <= b.xid /\ \A m \in N : m.h = b.client => m.xid <= b.xid
(* A call that was executed is the last the server saw from the socket.       *)
ExecutedLast(b, s, e, N, p) == e # 0 =>
    e = 1 /\ Sends(b) /\ s = <<1, b.xid, "ok">> /\ \E m \in N : m.h = b.client /\ m.to = p
(* Older transactions of the call cannot be executed any more.                *)
OldDead(b, s, N, p) ==
    \A m \in N : m.h = b.client /\ m.to = p /\ (Sends(b) => m.xid # b.xid) => ~Before(s, <<1, m.xid>>)
(* A transaction that was denied was not executed by the server that listens. *)
DeniedKnown(b, s, N, R, p) == Sends(b) =>
    \A r \in R : r.h = b.client /\ r.xid = b.xid /\ r.status = "denied" =>
        s = <<1, b.xid, "denied">> \/ \A m \in N : m.h = b.client => m.to # p
Ok(b, s, e, N, R, p) ==
    /\ NotNewer(b, s, N) /\ ExecutedLast(b, s, e, N, p)
    /\ OldDead(b, s, N, p) /\ DeniedKnown(b, s, N, R, p)

ThreadOk(t) == Active(t) =>
    Ok(Bottom(t), seen[Bottom(t).client], execs[Bottom(t).call], net, replies, port)

IdInv == NumInv /\ CallInv /\ \A t \in Threads : FrameInv(t) /\ ThreadOk(t)
-----------------------------------------------------------------------------
(* What the steps do to a call.                                               *)
Alike(b, c) == c.client = b.client /\ c.call = b.call /\ c.xid = b.xid /\ (Sends(c) <=> Sends(b))

LEMMA OkSame ==
    ASSUME NEW b, NEW c, NEW s, NEW e, NEW N, NEW R, NEW M, NEW Q, NEW p,
           Ok(b, s, e, N, R, p), Alike(b, c),
           \A m : m.h = b.client => (m \in M <=> m \in N),
           \A r : r.h = b.client /\ r \in Q => r \in R
    PROVE  Ok(c, s, e, M, Q, p)
  <1>1. NotNewer(c, s, M)
    BY DEF Ok, NotNewer, Alike
  <1>2. ExecutedLast(c, s, e, M, p)
    BY DEF Ok, ExecutedLast, Alike
  <1>3. OldDead(c, s, M, p)
    BY DEF Ok, OldDead, Alike
  <1>4. DeniedKnown(c, s, M, Q, p)
    BY DEF Ok, DeniedKnown, Alike
  <1> QED BY <1>1, <1>2, <1>3, <1>4 DEF Ok

(* A new transaction id.                                                      *)
LEMMA OkAlloc ==
    ASSUME NEW b, NEW c, NEW s \in SeenType, NEW e, NEW N, NEW R, NEW p,
           Ok(b, s, e, N, R, p), ~Sends(b), c.client = b.client, c.xid \in Nat,
           s[2] < c.xid, \A m \in N : m.xid \in Nat /\ m.xid < c.xid, \A r \in R : r.xid # c.xid
    PROVE  Ok(c, s, e, N, R, p)
  <1>1. NotNewer(c, s, N)
    BY DEF NotNewer, SeenType
  <1>2. ExecutedLast(c, s, e, N, p)
    BY DEF Ok, ExecutedLast
  <1>3. OldDead(c, s, N, p)
    BY DEF Ok, OldDead
  <1>4. DeniedKnown(c, s, N, R, p)
    BY DEF DeniedKnown
  <1> QED BY <1>1, <1>2, <1>3, <1>4 DEF Ok

(* A caller that was denied will try with a new transaction.                  *)
LEMMA OkRetry ==
    ASSUME NEW b, NEW c, NEW s \in SeenType, NEW e, NEW N, NEW R, NEW p,
           Ok(b, s, e, N, R, p), Sends(b), ~Sends(c), c.client = b.client, b.xid \in Nat,
           NEW r \in R, r.h = b.client, r.xid = b.xid, r.status = "denied"
    PROVE  Ok(c, s, e, N, R, p)
  <1>1. s = <<1, b.xid, "denied">> \/ \A m \in N : m.h = b.client => m.to # p
    BY DEF Ok, DeniedKnown
  <1>2. s = <<1, b.xid, "denied">> => s[1] = 1 /\ s[2] = b.xid /\ s[3] = "denied"
    OBVIOUS
  <1>3. NotNewer(c, s, N)
    BY DEF NotNewer
  <1>4. ExecutedLast(c, s, e, N, p)
    BY <1>1, <1>2 DEF Ok, ExecutedLast
  <1>5. OldDead(c, s, N, p)
    BY <1>1, <1>2 DEF Ok, OldDead, Before
  <1>6. DeniedKnown(c, s, N, R, p)
    BY DEF DeniedKnown
  <1> QED BY <1>3, <1>4, <1>5, <1>6 DEF Ok

LEMMA OkSend ==
    ASSUME NEW b, NEW c, NEW s, NEW e, NEW N, NEW R, NEW p, NEW m,
           Ok(b, s, e, N, R, p), Sends(b), Alike(b, c), b.xid \in Nat, m.h = b.client, m.xid = b.xid
    PROVE  Ok(c, s, e, N \cup {m}, {r \in R : r.h # b.client}, p)
  <1>1. NotNewer(c, s, N \cup {m})
    BY DEF Ok, NotNewer, Alike
  <1>2. ExecutedLast(c, s, e, N \cup {m}, p)
    BY DEF Ok, ExecutedLast, Alike
  <1>3. OldDead(c, s, N \cup {m}, p)
    BY DEF Ok, OldDead, Alike
  <1>4. DeniedKnown(c, s, N \cup {m}, {r \in R : r.h # b.client}, p)
    BY DEF DeniedKnown, Alike
  <1> QED BY <1>1, <1>2, <1>3, <1>4 DEF Ok

(* The server executes the transaction, or denies it.                         *)
Executed(b, s, e, N, R, p, m, st, Q, s2, e2) ==
    /\ s \in SeenType /\ b.xid \in Nat /\ \A k \in N : k.xid \in Nat
    /\ m \in N /\ m.h = b.client /\ m.to = p /\ Before(s, <<1, m.xid>>)
    /\ st \in {"ok", "denied"} /\ \E q : q.status = st /\ Q = R \cup {q}
    /\ s2 = <<1, m.xid, st>> /\ e2 = IF st = "denied" THEN e ELSE e + 1

LEMMA OkExec ==
    ASSUME NEW b, NEW s, NEW e, NEW N, NEW R, NEW p, NEW m, NEW st, NEW Q, NEW s2, NEW e2,
           Ok(b, s, e, N, R, p), Executed(b, s, e, N, R, p, m, st, Q, s2, e2)
    PROVE  e = 0 /\ Ok(b, s2, e2, N, Q, p)
  <1> USE DEF Executed
  <1>1. Sends(b) /\ m.xid = b.xid
    BY DEF Ok, OldDead
  <1>2. s # <<1, b.xid, "ok">> /\ s # <<1, b.xid, "denied">>
    BY <1>1 DEF Before, SeenType
  <1>3. e = 0
    BY <1>2 DEF Ok, ExecutedLast
  <1>4. s2[1] = 1 /\ s2[2] = b.xid
    BY <1>1
  <1>5. NotNewer(b, s2, N)
    BY <1>1, <1>4 DEF Ok, NotNewer
  <1>6. ExecutedLast(b, s2, e2, N, p)
    BY <1>1, <1>3 DEF ExecutedLast
  <1>7. OldDead(b, s2, N, p)
    BY <1>1, <1>4, <1>5 DEF OldDead, NotNewer, Before
  <1>8. DeniedKnown(b, s2, N, Q, p)
    <2>1. \A r \in R : r.h = b.client /\ r.xid = b.xid => r.status # "denied"
      BY <1>1, <1>2 DEF Ok, DeniedKnown
    <2> QED BY <1>1, <2>1 DEF DeniedKnown
  <1> QED BY <1>3, <1>5, <1>6, <1>7, <1>8 DEF Ok

(* The server answers its last transaction again, or rejects an older one.    *)
LEMMA OkAnswer ==
    ASSUME NEW b, NEW s \in SeenType, NEW e, NEW N, NEW R, NEW p, NEW m \in N,
           Ok(b, s, e, N, R, p), m.h = b.client, m.xid \in Nat,
           ~Before(s, <<1, m.xid>>), NEW q, q.xid = m.xid,
           q.status = IF Before(<<1, m.xid>>, s) THEN "stale" ELSE s[3]
    PROVE  Ok(b, s, e, N, R \cup {q}, p)
  <1>1. q.status = "denied" => s = <<1, m.xid, "denied">>
    BY DEF Before, SeenType
  <1>2. DeniedKnown(b, s, N, R \cup {q}, p)
    BY <1>1 DEF Ok, DeniedKnown
  <1> QED BY <1>2 DEF Ok

LEMMA OkRestart ==
    ASSUME NEW b, NEW s, NEW e, NEW N, NEW R, NEW p, NEW p2,
           Ok(b, s, e, N, R, p), b.xid \in Nat, \A m \in N : m.to # p2
    PROVE  Ok(b, <<0, 0, "none">>, 0, N, R, p2)
  <1>1. NotNewer(b, <<0, 0, "none">>, N)
    BY DEF Ok, NotNewer
  <1>2. ExecutedLast(b, <<0, 0, "none">>, 0, N, p2)
    BY DEF ExecutedLast
  <1>3. OldDead(b, <<0, 0, "none">>, N, p2)
    BY DEF OldDead
  <1>4. DeniedKnown(b, <<0, 0, "none">>, N, R, p2)
    BY DEF DeniedKnown
  <1> QED BY <1>1, <1>2, <1>3, <1>4 DEF Ok

(* Before a call has a handle nothing was sent for it.                        *)
LEMMA OkFresh ==
    ASSUME NEW b, NEW s, NEW N, NEW R, NEW p, ~Sends(b), \A m \in N : m.h # b.client
    PROVE  Ok(b, s, 0, N, R, p)
  BY DEF Ok, NotNewer, ExecutedLast, OldDead, DeniedKnown
-----------------------------------------------------------------------------
(* The calls of the threads.                                                  *)
LEMMA Bottoms ==
    ASSUME Shape, NEW t \in Threads, Active(t)
    PROVE  /\ Bottom(t) \in FrameType /\ IsView(Bottom(t)) /\ Of(t) = Bottom(t).client
           /\ Sends(Bottom(t)) => Bottom(t).client \in Handles
  <1>1. Bottom(t) \in FrameType /\ IsView(Bottom(t)) /\ Of(t) = Bottom(t).client
    <2>1. CASE \E f : OneOf(t, f) /\ Shows(t, f, f, Null)
      BY <2>1 DEF OneOf, Shows
    <2>2. CASE \E f, g : TwoOf(t, f, g) /\ Shows(t, g, f, g.client)
      BY <2>2 DEF TwoOf, Shows
    <2> QED BY <2>1, <2>2, Frames1
  <1>2. Sends(Bottom(t)) => Bottom(t).client \in Handles
    BY <1>1 DEF FrameType, IsView, Sends, Sent, Carrying
  <1> QED BY <1>1, <1>2

NetTyped(N) == \A m \in N : m.h \in Handles
StaysAt(u, b, c) ==
    Active(u)' => Active(u) /\ Bottom(u) = b /\ Bottom(u)' = c /\ Alike(b, c)
SameFor(b) ==
    /\ b.client \in Handles => seen'[b.client] = seen[b.client]
    /\ execs'[b.call] = execs[b.call] /\ port' = port
    /\ \A m : m.h = b.client => (m \in net' <=> m \in net)
    /\ \A r : r.h = b.client /\ r \in replies' => r \in replies

LEMMA StaysOk ==
    ASSUME Shape, NEW u \in Threads, ThreadOk(u), NetTyped(net), NetTyped(net'),
           NEW b, NEW c, StaysAt(u, b, c), SameFor(b)
    PROVE  ThreadOk(u)'
  <1> SUFFICES ASSUME Active(u)'
               PROVE  Ok(c, seen'[c.client], execs'[c.call], net', replies', port')
    BY DEF ThreadOk, StaysAt
  <1>1. Active(u) /\ Bottom(u) = b /\ Bottom(u)' = c /\ Alike(b, c)
    BY DEF StaysAt
  <1>2. PICK s, e, N, R, M, Q, p : /\ s = seen[b.client] /\ e = execs[b.call] /\ N = net /\ R = replies
                                   /\ M = net' /\ Q = replies' /\ p = port
    OBVIOUS
  <1>3. Ok(b, s, e, N, R, p)
    BY <1>1, <1>2 DEF ThreadOk
  <1>4. /\ e = execs'[c.call] /\ p = port'
        /\ \A m : m.h = b.client => (m \in M <=> m \in N)
        /\ \A r : r.h = b.client /\ r \in Q => r \in R
    BY <1>1, <1>2 DEF SameFor, Alike
  <1>5. CASE b.client \in Handles
    <2>1. Ok(c, s, e, M, Q, p)
      BY <1>1, <1>3, <1>4, OkSame
    <2>2. s = seen'[c.client]
      BY <1>1, <1>2, <1>5 DEF SameFor, Alike
    <2> QED BY <1>2, <1>4, <2>1, <2>2, Zenon
  <1>6. CASE b.client \notin Handles
    <2>1. ~Sends(b) /\ ~Sends(c) /\ c.client = b.client
      BY <1>1, <1>6, Bottoms DEF Alike
    <2>2. e = 0
      BY <1>3, <2>1 DEF Ok, ExecutedLast
    <2>3. \A m \in M : m.h # c.client
      BY <1>2, <1>6, <2>1 DEF NetTyped
    <2>4. PICK z : z = seen'[c.client]
      OBVIOUS
    <2>5. Ok(c, z, e, M, Q, p)
      BY <2>1, <2>2, <2>3, OkFresh
    <2> QED BY <1>2, <1>4, <2>4, <2>5, Zenon
  <1> QED BY <1>5, <1>6

(* The other threads: their calls and sockets are their own.                  *)
LEMMA OtherStays ==
    ASSUME NEW t, Others(t), NEW u \in Threads, u # t
    PROVE  StaysAt(u, Bottom(u), Bottom(u))
  BY OthersKept DEF StaysAt, Kept, Alike

LEMMA Apartness ==
    ASSUME HandleInv, IdInv, NEW t \in Threads, NEW u \in Threads, u # t, Active(t), Active(u)
    PROVE  /\ Bottom(u).call # Bottom(t).call
           /\ Bottom(u).client \in Handles => Bottom(u).client # Bottom(t).client /\ Bottom(u).client \in live
  <1>1. Bottom(u).call # Bottom(t).call
    BY DEF IdInv, CallInv
  <1>2. Of(u) = Bottom(u).client /\ Of(t) = Bottom(t).client
    BY Bottoms DEF HandleInv
  <1> QED BY <1>1, <1>2 DEF HandleInv, OwnInv, HeldOnce, HeldLive, Has

(* Nothing is under way on the handle of a call to the albd.                  *)
LEMMA AuxSilent ==
    ASSUME HandleInv, IdInv, NEW t \in Threads, NEW m \in net
    PROVE  m.h # Aux(t)
  <1>1. PICK u \in Threads : Active(u) /\ Of(u) = m.h
    BY DEF IdInv, CallInv
  <1>2. m.h \in Handles
    BY DEF IdInv, NumInv
  <1>3. SUFFICES ASSUME m.h = Aux(t)
                 PROVE  FALSE
    OBVIOUS
  <1>4. Has(u, m.h) /\ Has(t, m.h)
    BY <1>1, <1>3 DEF Has
  <1>5. u = t
    BY <1>2, <1>4 DEF HandleInv, OwnInv, HeldOnce
  <1>6. Apart(t)
    BY DEF HandleInv, OwnInv
  <1> QED BY <1>1, <1>2, <1>3, <1>5, <1>6, RpcAssumption DEF Apart
-----------------------------------------------------------------------------
(* Steps that leave server and network alone.                                 *)
SeenKept ==
    /\ DOMAIN seen' = Handles
    /\ \A h \in Handles : seen'[h] = seen[h] \/ (h \notin live /\ seen'[h] = <<0, 0, "none">>)
Around ==
    /\ mvfs_xid' \in Nat /\ mvfs_xid <= mvfs_xid' /\ mvfs_boottime' = mvfs_boottime /\ port' = port
    /\ svr'.port \in Nat /\ svr'.port <= port /\ SeenKept /\ execs' = execs /\ calls' = calls
    /\ net' \subseteq net /\ replies' \subseteq replies

LEMMA NumKept ==
    ASSUME Shape, NumInv, Around
    PROVE  NumInv'
  <1>1. mvfs_xid \in Nat
    BY DEF Shape
  <1>2. /\ mvfs_boottime' = 1 /\ port' \in Nat /\ svr'.port \in Nat /\ svr'.port <= port'
        /\ DOMAIN seen' = Handles /\ DOMAIN execs' = 1 .. MaxCalls
    BY DEF NumInv, Around, SeenKept
  <1>3. \A h \in Handles : seen'[h] \in SeenType /\ seen'[h][2] <= mvfs_xid'
    <2> SUFFICES ASSUME NEW h \in Handles
                 PROVE  seen'[h] \in SeenType /\ seen'[h][2] <= mvfs_xid'
      OBVIOUS
    <2>1. CASE seen'[h] = seen[h]
      <3>1. PICK s \in SeenType : s = seen[h] /\ s[2] <= mvfs_xid
        BY DEF NumInv
      <3>2. s[2] \in Nat
        BY DEF SeenType
      <3> QED BY <1>1, <2>1, <3>1, <3>2 DEF Around
    <2>2. CASE seen'[h] = <<0, 0, "none">>
      <3>1. PICK s : s = <<0, 0, "none">>
        OBVIOUS
      <3>2. s \in SeenType /\ s[2] = 0
        BY <3>1 DEF SeenType
      <3> QED BY <2>2, <3>1, <3>2 DEF Around
    <2> QED BY <2>1, <2>2 DEF Around, SeenKept
  <1>4. \A m \in net' : /\ m.h \in Handles /\ m.bt = 1 /\ m.xid \in Nat /\ m.xid <= mvfs_xid'
                        /\ m.to \in Nat /\ m.to <= port'
    BY <1>1 DEF NumInv, Around
  <1>5. \A r \in replies' : r.xid \in Nat /\ r.xid <= mvfs_xid'
    BY <1>1 DEF NumInv, Around
  <1> QED BY <1>2, <1>3, <1>4, <1>5 DEF NumInv

LEMMA FramesKept ==
    ASSUME Shape, \A u \in Threads : FrameInv(u), NEW t \in Threads, Others(t), FrameInv(t)',
           mvfs_xid' \in Nat, mvfs_xid <= mvfs_xid'
    PROVE  \A u \in Threads : FrameInv(u)'
  <1> SUFFICES ASSUME NEW u \in Threads, u # t
               PROVE  FrameInv(u)'
    OBVIOUS
  <1>1. Kept(u)
    BY OthersKept
  <1>2. Active(u) => Top(u).xid \in Nat /\ Bottom(u).xid \in Nat
    BY TopFits, Bottoms DEF FrameType
  <1>3. mvfs_xid \in Nat
    BY DEF Shape
  <1> QED BY <1>1, <1>2, <1>3 DEF FrameInv, Kept

LEMMA CallsKept ==
    ASSUME HandleInv, IdInv, NEW t \in Threads, Others(t), Active(t), execs' = execs, calls' = calls,
           Active(t)' => Bottom(t)'.call = Bottom(t).call,
           net' \subseteq net,
           \A m \in net' : m.h = Of(t) => Active(t)' /\ Of(t)' = Of(t)
    PROVE  CallInv'
  <1>1. \A u \in Threads : u # t => Kept(u)
    BY OthersKept
  <1>2. \A m \in net' : \E u \in Threads : Active(u)' /\ Of(u)' = m.h /\ Bottom(u)'.call = m.call
    <2> SUFFICES ASSUME NEW m \in net'
                 PROVE  \E u \in Threads : Active(u)' /\ Of(u)' = m.h /\ Bottom(u)'.call = m.call
      OBVIOUS
    <2>1. PICK u \in Threads : Active(u) /\ Of(u) = m.h /\ Bottom(u).call = m.call
      BY DEF IdInv, CallInv
    <2>2. CASE u = t
      BY <2>1, <2>2
    <2>3. CASE u # t
      BY <1>1, <2>1, <2>3 DEF Kept
    <2> QED BY <2>2, <2>3
  <1>3. \A u \in Threads : Active(u)' => Active(u) /\ Bottom(u)'.call = Bottom(u).call
    BY <1>1 DEF Kept
  <1>4. \A u \in Threads : Active(u)' => Bottom(u)'.call <= calls'
    BY <1>3 DEF IdInv, CallInv
  <1>5. \A u, v \in Threads : Active(u)' /\ Active(v)' /\ Bottom(u)'.call = Bottom(v)'.call => u = v
    BY <1>3 DEF IdInv, CallInv
  <1> QED BY <1>2, <1>4, <1>5 DEF IdInv, CallInv

LEMMA OthersOk ==
    ASSUME HandleInv, IdInv, NEW t \in Threads, Others(t), Active(t), Around,
           \A m \in net : m.h # Of(t) => m \in net'
    PROVE  \A u \in Threads : u # t => ThreadOk(u)'
  <1> SUFFICES ASSUME NEW u \in Threads, u # t
               PROVE  ThreadOk(u)'
    OBVIOUS
  <1>1. StaysAt(u, Bottom(u), Bottom(u))
    BY OtherStays
  <1>2. CASE Active(u)
    <2>1. PICK b : b = Bottom(u)
      OBVIOUS
    <2>2. /\ b.client \in Handles => b.client # Of(t) /\ b.client \in live
      BY <1>2, <2>1, Apartness, Bottoms DEF HandleInv
    <2>3. NetTyped(net) /\ NetTyped(net')
      BY DEF IdInv, NumInv, NetTyped, Around
    <2>4. SameFor(b)
      BY <2>2, <2>3 DEF SameFor, Around, SeenKept, NetTyped
    <2>5. StaysAt(u, b, b)
      BY <1>1, <2>1, Zenon DEF StaysAt, Alike
    <2> QED BY <2>3, <2>4, <2>5, StaysOk DEF IdInv, HandleInv
  <1>3. CASE ~Active(u)
    BY <1>1, <1>3 DEF StaysAt, ThreadOk
  <1> QED BY <1>2, <1>3

(* A step of a call that sends nothing and keeps its transaction.             *)
LEMMA Calm ==
    ASSUME HandleInv, IdInv, NEW t \in Threads, Others(t), Active(t), Active(t)', Around, net' = net,
           NEW b, NEW c, Bottom(t) = b, Bottom(t)' = c, Alike(b, c), FrameInv(t)'
    PROVE  IdInv'
  <1>1. Of(t)' = Of(t)
    BY DEF Of, Active, Alike
  <1>2. NumInv' /\ (\A u \in Threads : FrameInv(u)')
    BY NumKept, FramesKept DEF HandleInv, IdInv, Around
  <1>3. CallInv'
    BY <1>1, CallsKept DEF Around, Alike
  <1>4. \A u \in Threads : u # t => ThreadOk(u)'
    BY OthersOk
  <1>5. ThreadOk(t)'
    <2>1. NetTyped(net) /\ NetTyped(net')
      BY DEF IdInv, NumInv, NetTyped
    <2>2. b.client \in Handles => b.client \in live
      <3>1. Of(t) = b.client
        BY Bottoms DEF HandleInv
      <3> QED BY <3>1 DEF HandleInv, OwnInv, HeldLive, Has
    <2>3. SameFor(b)
      BY <2>2 DEF SameFor, Around, SeenKept
    <2>4. StaysAt(t, b, c)
      BY DEF StaysAt
    <2> QED BY <2>1, <2>3, <2>4, StaysOk DEF IdInv, HandleInv
  <1> QED BY <1>2, <1>3, <1>4, <1>5 DEF IdInv

(* The same for a step that replaces the frame on top.                        *)
LEMMA CalmTop ==
    ASSUME HandleInv, IdInv, NEW t \in Threads, Active(t), NEW q, SetTop(t, q), Around, net' = net,
           Top(t).op = "view" => Alike(Top(t), q) /\ (~q.rebind => t \in Soft),
           q.pc \notin {"wrap", "wrapped"}, q.xid \in Nat, q.xid <= mvfs_xid'
    PROVE  IdInv'
  <1>1. PICK p : Replaced(t, p, q)
    BY SetTopped DEF HandleInv
  <1>2. /\ Others(t) /\ Active(t)' /\ Top(t) = p /\ Top(t)' = q
    BY <1>1 DEF Replaced
  <1>3. FrameInv(t)
    BY DEF IdInv
  <1>4. mvfs_xid \in Nat
    BY DEF HandleInv, Shape
  <1>5. CASE OneOf(t, p) /\ Bottom(t) = p /\ Bottom(t)' = q
    <2>1. Alike(p, q) /\ (~q.rebind => t \in Soft)
      BY <1>2, <1>5 DEF OneOf, IsView
    <2>2. FrameInv(t)'
      BY <1>2, <1>5, <2>1 DEF FrameInv
    <2> QED BY <1>2, <1>5, <2>1, <2>2, Calm
  <1>6. CASE \E f : TwoOf(t, f, p) /\ Bottom(t) = f /\ Bottom(t)' = f
    <2>1. PICK f : TwoOf(t, f, p) /\ Bottom(t) = f /\ Bottom(t)' = f
      BY <1>6
    <2>2. Alike(f, f)
      BY DEF Alike
    <2>3. FrameInv(t)'
      <3>1. f.xid \in Nat /\ f.xid <= mvfs_xid /\ (~f.rebind => t \in Soft)
        BY <1>3, <2>1 DEF FrameInv, TwoOf, FrameType
      <3>2. f.xid <= mvfs_xid'
        BY <1>4, <3>1 DEF Around
      <3> QED BY <1>2, <2>1, <3>1, <3>2 DEF FrameInv
    <2> QED BY <1>2, <2>1, <2>2, <2>3, Calm
  <1> QED BY <1>1, <1>5, <1>6, Zenon DEF Replaced

(* A call comes to its end.                                                   *)
LEMMA Ended ==
    ASSUME HandleInv, IdInv, NEW t \in Threads, Others(t), Active(t), ~Active(t)', Around,
           \A m \in net : m.h # Of(t) => m \in net',
           \A m \in net' : m.h # Of(t)
    PROVE  IdInv'
  <1>1. FrameInv(t)' /\ ThreadOk(t)'
    BY DEF FrameInv, ThreadOk
  <1>2. NumInv' /\ (\A u \in Threads : FrameInv(u)')
    BY <1>1, NumKept, FramesKept DEF HandleInv, IdInv, Around
  <1>3. CallInv'
    BY CallsKept DEF Around
  <1>4. \A u \in Threads : u # t => ThreadOk(u)'
    BY OthersOk
  <1> QED BY <1>1, <1>2, <1>3, <1>4 DEF IdInv
-----------------------------------------------------------------------------
(* Steps that change the transaction of a call.                               *)
LEMMA ViewTop ==
    ASSUME Shape, NEW t \in Threads, Active(t), Top(t).op = "view"
    PROVE  OneOf(t, Top(t)) /\ Bottom(t) = Top(t) /\ Of(t) = Top(t).client
  <1>1. CASE \E f : OneOf(t, f) /\ Shows(t, f, f, Null)
    BY <1>1 DEF Shows
  <1>2. CASE \E f, g : TwoOf(t, f, g) /\ Shows(t, g, f, g.client)
    BY <1>2 DEF TwoOf, Shows, IsAlbd
  <1> QED BY <1>1, <1>2, Frames1

LEMMA ViewSet ==
    ASSUME Shape, NEW t \in Threads, Active(t), Top(t).op = "view", NEW q, SetTop(t, q)
    PROVE  /\ Others(t) /\ Active(t)' /\ Bottom(t)' = q /\ Top(t)' = q /\ Of(t)' = q.client
  <1>1. PICK p : Replaced(t, p, q)
    BY SetTopped
  <1>2. ~\E f : TwoOf(t, f, p)
    BY <1>1 DEF Replaced, TwoOf, IsAlbd
  <1> QED BY <1>1, <1>2 DEF Replaced

LEMMA Renewed ==
    ASSUME HandleInv, IdInv, NEW t \in Threads, Active(t), Top(t).op = "view", NEW q, SetTop(t, q),
           Around, net' = net, q.call = Top(t).call, q.client = Top(t).client \/ Top(t).client = Null,
           q.pc \notin {"wrap", "wrapped"}, q.xid <= mvfs_xid', q.rebind = Top(t).rebind,
           Ok(q, seen'[q.client], execs[q.call], net, replies', port)
    PROVE  IdInv'
  <1>1. /\ Others(t) /\ Active(t)' /\ Bottom(t)' = q /\ Top(t)' = q /\ Of(t)' = q.client
        /\ Bottom(t) = Top(t) /\ Of(t) = Top(t).client
    BY ViewTop, ViewSet DEF HandleInv
  <1>2. FrameInv(t)'
    <2>1. FrameInv(t)
      BY DEF IdInv
    <2> QED BY <1>1, <2>1 DEF FrameInv
  <1>3. NumInv' /\ (\A u \in Threads : FrameInv(u)')
    BY <1>1, <1>2, NumKept, FramesKept DEF HandleInv, IdInv, Around
  <1>4. \A m \in net : m.h # Null
    BY RpcAssumption DEF IdInv, NumInv
  <1>5. CallInv'
    BY <1>1, <1>4, CallsKept DEF Around
  <1>6. \A u \in Threads : u # t => ThreadOk(u)'
    BY <1>1, OthersOk
  <1>7. ThreadOk(t)'
    BY <1>1 DEF ThreadOk, Around
  <1> QED BY <1>3, <1>5, <1>6, <1>7 DEF IdInv

(* A handle nobody has is given to a call to the view server.                 *)
LEMMA TookView ==
    ASSUME HandleInv, IdInv, NEW t \in Threads, Active(t), Top(t).op = "view", Top(t).pc = "get",
           NEW h \in Handles, ~Held(h), NEW l \in {"xid", "insert"},
           NEW q, SetTop(t, q), q = Given(Top(t), l, h), Around, net' = net
    PROVE  IdInv'
  <1>1. Top(t) \in FrameType /\ IsView(Top(t)) /\ Bottom(t) = Top(t)
    BY TopFits, ViewTop DEF HandleInv
  <1>2. /\ q.call = Top(t).call /\ q.client = h /\ q.pc = l /\ q.xid = Top(t).xid /\ q.xid \in Nat
        /\ q.rebind = Top(t).rebind /\ Top(t).client = Null
    BY <1>1 DEF FrameType, IsView, Carrying, Given
  <1>3. q.pc \notin {"wrap", "wrapped"} /\ ~Sends(q) /\ ~Sends(Top(t))
    BY <1>2 DEF Sends, Sent
  <1>4. q.xid <= mvfs_xid'
    <2>1. FrameInv(t)
      BY DEF IdInv
    <2>2. q.xid <= mvfs_xid /\ mvfs_xid \in Nat
      BY <1>2, <2>1 DEF FrameInv, HandleInv, Shape
    <2> QED BY <1>2, <2>2 DEF Around
  <1>5. execs[q.call] = 0
    <2>1. ThreadOk(t)
      BY DEF IdInv
    <2> QED BY <1>1, <1>2, <1>3, <2>1 DEF ThreadOk, Ok, ExecutedLast
  <1>6. \A m \in net : m.h # q.client
    <2> SUFFICES ASSUME NEW m \in net, m.h = h
                 PROVE  FALSE
      BY <1>2
    <2>1. PICK u \in Threads : Of(u) = m.h
      BY DEF IdInv, CallInv
    <2> QED BY <2>1 DEF Held, Has
  <1>7. Ok(q, seen'[q.client], execs[q.call], net, replies', port)
    BY <1>3, <1>5, <1>6, OkFresh
  <1> QED BY <1>2, <1>3, <1>4, <1>7, Renewed

LEMMA AllocView ==
    ASSUME HandleInv, IdInv, NEW t \in Threads, Active(t), Top(t).op = "view", Top(t).pc = "xid",
           mvfs_xid' = mvfs_xid + 1, NEW q, SetTop(t, q), Around, net' = net, replies' = replies, seen' = seen,
           q.call = Top(t).call, q.client = Top(t).client, q.pc = "call", q.xid = mvfs_xid',
           q.rebind = Top(t).rebind
    PROVE  IdInv'
  <1>1. Top(t) \in FrameType /\ IsView(Top(t)) /\ Bottom(t) = Top(t)
    BY TopFits, ViewTop DEF HandleInv
  <1>2. ThreadOk(t) /\ mvfs_xid \in Nat
    BY DEF IdInv, HandleInv, Shape
  <1>3. ~Sends(Top(t))
    BY DEF Sends, Sent
  <1>4. Top(t).client \in Handles
    BY <1>1 DEF FrameType, IsView, Carrying
  <1>5. PICK s : s = seen[q.client]
    OBVIOUS
  <1>6. s \in SeenType /\ s[2] <= mvfs_xid
    BY <1>4, <1>5 DEF IdInv, NumInv
  <1>7. s[2] \in Nat
    BY <1>6 DEF SeenType
  <1>8. Ok(Top(t), s, execs[q.call], net, replies, port)
    BY <1>1, <1>2, <1>5 DEF ThreadOk
  <1>9. \A m \in net : m.xid \in Nat /\ m.xid < q.xid
    BY <1>2 DEF IdInv, NumInv
  <1>10. \A r \in replies : r.xid # q.xid
    BY <1>2 DEF IdInv, NumInv
  <1>11. q.xid \in Nat /\ s[2] < q.xid
    BY <1>2, <1>6, <1>7
  <1>12. Ok(q, s, execs[q.call], net, replies, port)
    BY <1>3, <1>6, <1>8, <1>9, <1>10, <1>11, OkAlloc
  <1> QED BY <1>2, <1>5, <1>12, Renewed

LEMMA RetryView ==
    ASSUME HandleInv, IdInv, NEW t \in Threads, Active(t), Top(t).op = "view", Top(t).pc = "wait",
           NEW q, SetTop(t, q), Around, net' = net, replies' = replies, seen' = seen,
           q.call = Top(t).call, q.client = Top(t).client, q.pc = "xid", q.xid = Top(t).xid,
           q.rebind = Top(t).rebind,
           NEW r \in replies, r.h = Top(t).client, r.xid = Top(t).xid, r.status = "denied"
    PROVE  IdInv'
  <1>1. Top(t) \in FrameType /\ IsView(Top(t)) /\ Bottom(t) = Top(t)
    BY TopFits, ViewTop DEF HandleInv
  <1>2. ThreadOk(t) /\ FrameInv(t) /\ mvfs_xid \in Nat /\ Top(t).xid \in Nat
    BY <1>1 DEF IdInv, HandleInv, Shape, FrameType
  <1>3. Sends(Top(t)) /\ ~Sends(q)
    BY DEF Sends, Sent
  <1>4. Top(t).client \in Handles
    BY <1>1 DEF FrameType, IsView, Carrying
  <1>5. PICK s : s = seen[q.client]
    OBVIOUS
  <1>6. s \in SeenType
    BY <1>4, <1>5 DEF IdInv, NumInv
  <1>7. Ok(Top(t), s, execs[q.call], net, replies, port)
    BY <1>1, <1>2, <1>5 DEF ThreadOk
  <1>8. Ok(q, s, execs[q.call], net, replies, port)
    BY <1>2, <1>3, <1>6, <1>7, OkRetry
  <1>9. q.xid <= mvfs_xid'
    BY <1>2 DEF FrameInv, Around
  <1> QED BY <1>5, <1>8, <1>9, Renewed

(* A call to the view server is sent.                                         *)
LEMMA SendView ==
    ASSUME HandleInv, IdInv, NEW t \in Threads, Active(t), Top(t).op = "view", Top(t).pc \in {"call", "again"},
           NEW q, SetTop(t, q), q.call = Top(t).call, q.client = Top(t).client, q.pc = "wait",
           q.xid = Top(t).xid, q.rebind = Top(t).rebind,
           NEW m, net' = net \cup {m}, m.h = Top(t).client, m.bt = mvfs_boottime, m.xid = Top(t).xid,
           m.call = Top(t).call, m.to = svr.port,
           replies' = {r \in replies : r.h # Top(t).client},
           UNCHANGED <<mvfs_xid, mvfs_boottime, svr, seen, execs, port, calls>>
    PROVE  IdInv'
  <1>1. /\ Top(t) \in FrameType /\ IsView(Top(t)) /\ Bottom(t) = Top(t) /\ Of(t) = Top(t).client
        /\ Others(t) /\ Active(t)' /\ Bottom(t)' = q /\ Top(t)' = q /\ Of(t)' = q.client
    BY TopFits, ViewTop, ViewSet DEF HandleInv
  <1>2. ThreadOk(t) /\ FrameInv(t) /\ mvfs_xid \in Nat /\ Top(t).xid \in Nat
    BY <1>1 DEF IdInv, HandleInv, Shape, FrameType
  <1>3. Top(t).client \in Handles
    BY <1>1 DEF FrameType, IsView, Carrying
  <1>4. Top(t).xid <= mvfs_xid
    BY <1>2 DEF FrameInv
  <1>5. NumInv'
    BY <1>2, <1>3, <1>4 DEF IdInv, NumInv
  <1>6. \A u \in Threads : FrameInv(u)'
    <2>1. FrameInv(t)'
      BY <1>1, <1>2 DEF FrameInv
    <2> QED BY <1>1, <1>2, <2>1, FramesKept DEF HandleInv, IdInv
  <1>7. \A u \in Threads : u # t => Kept(u)
    BY <1>1, OthersKept
  <1>8. CallInv'
    <2>1. \A u \in Threads : /\ Active(u)' <=> Active(u)
                             /\ Active(u) => Bottom(u)'.call = Bottom(u).call /\ Of(u)' = Of(u)
      <3> SUFFICES ASSUME NEW u \in Threads
                   PROVE  /\ Active(u)' <=> Active(u)
                          /\ Active(u) => Bottom(u)'.call = Bottom(u).call /\ Of(u)' = Of(u)
        OBVIOUS
      <3>1. CASE u = t
        BY <1>1, <3>1
      <3>2. CASE u # t
        BY <1>7, <3>2 DEF Kept
      <3> QED BY <3>1, <3>2
    <2>2. \A k \in net' : \E u \in Threads : Active(u)' /\ Of(u)' = k.h /\ Bottom(u)'.call = k.call
      <3> SUFFICES ASSUME NEW k \in net'
                   PROVE  \E u \in Threads : Active(u)' /\ Of(u)' = k.h /\ Bottom(u)'.call = k.call
        OBVIOUS
      <3>1. CASE k = m
        BY <1>1, <3>1
      <3>2. CASE k \in net
        <4>1. PICK u \in Threads : Active(u) /\ Of(u) = k.h /\ Bottom(u).call = k.call
          BY <3>2 DEF IdInv, CallInv
        <4> QED BY <2>1, <4>1
      <3> QED BY <3>1, <3>2
    <2>3. \A u \in Threads : Active(u)' => Bottom(u)'.call <= calls'
      BY <2>1 DEF IdInv, CallInv
    <2>4. \A u, v \in Threads : Active(u)' /\ Active(v)' /\ Bottom(u)'.call = Bottom(v)'.call => u = v
      BY <2>1 DEF IdInv, CallInv
    <2> QED BY <2>2, <2>3, <2>4 DEF IdInv, CallInv
  <1>9. \A u \in Threads : u # t => ThreadOk(u)'
    <2> SUFFICES ASSUME NEW u \in Threads, u # t
                 PROVE  ThreadOk(u)'
      OBVIOUS
    <2>1. CASE Active(u)
      <3>1. PICK b : b = Bottom(u)
        OBVIOUS
      <3>2. b.client \in Handles => b.client # m.h
        BY <1>1, <2>1, <3>1, Apartness
      <3>3. NetTyped(net) /\ NetTyped(net')
        BY <1>3 DEF IdInv, NumInv, NetTyped
      <3>4. SameFor(b)
        BY <1>3, <3>2 DEF SameFor
      <3>5. StaysAt(u, b, b)
        BY <1>1, <3>1, OtherStays
      <3> QED BY <3>3, <3>4, <3>5, StaysOk DEF IdInv, HandleInv
    <2>2. CASE ~Active(u)
      BY <1>7, <2>2 DEF Kept, ThreadOk
    <2> QED BY <2>1, <2>2
  <1>10. ThreadOk(t)'
    <2>1. PICK p, s, e : p = Top(t) /\ s = seen[q.client] /\ e = execs[q.call]
      OBVIOUS
    <2>2. Ok(p, s, e, net, replies, port)
      BY <1>1, <1>2, <2>1 DEF ThreadOk
    <2>3. Sends(p) /\ Alike(p, q)
      BY <2>1 DEF Sends, Sent, Alike
    <2>4. Ok(q, s, e, net \cup {m}, {r \in replies : r.h # p.client}, port)
      BY <1>2, <2>1, <2>2, <2>3, OkSend
    <2>5. Ok(q, seen'[q.client], execs'[q.call], net', replies', port')
      BY <2>1, <2>4
    <2> QED BY <1>1, <2>5 DEF ThreadOk
  <1> QED BY <1>5, <1>6, <1>8, <1>9, <1>10 DEF IdInv
-----------------------------------------------------------------------------
(* The server.                                                                *)
LEMMA StackSame ==
    ASSUME stack' = stack
    PROVE  \A u : Kept(u)
  BY Zenon DEF Kept, Of, Aux, Top, Bottom, Active, At

LEMMA FramesSame ==
    ASSUME stack' = stack, mvfs_xid' = mvfs_xid, IdInv
    PROVE  \A u \in Threads : FrameInv(u)'
  BY StackSame, Zenon DEF IdInv, FrameInv, Kept

LEMMA OwnerOf ==
    ASSUME HandleInv, IdInv, NEW m \in net
    PROVE  \E t \in Threads : /\ Active(t) /\ Bottom(t).client = m.h /\ Bottom(t).call = m.call
                              /\ m.h \in Handles /\ m.bt = 1 /\ m.xid \in Nat /\ m.xid <= mvfs_xid
                              /\ m.call \in 1 .. MaxCalls /\ m.call <= calls
  <1>1. PICK t \in Threads : Active(t) /\ Of(t) = m.h /\ Bottom(t).call = m.call
    BY DEF IdInv, CallInv
  <1>2. Bottom(t) \in FrameType /\ IsView(Bottom(t)) /\ Of(t) = Bottom(t).client
    BY <1>1, Bottoms DEF HandleInv
  <1>3. Bottom(t).call <= calls
    BY <1>1 DEF IdInv, CallInv
  <1> QED BY <1>1, <1>2, <1>3 DEF IsView, IdInv, NumInv

(* The other calls do not notice.                                             *)
LEMMA ServedOthers ==
    ASSUME HandleInv, IdInv, NEW t \in Threads, Active(t), NEW h \in Handles, Bottom(t).client = h,
           stack' = stack, net' = net, port' = port, NEW q, q.h = h, replies' = replies \cup {q},
           \A g \in Handles : g # h => seen'[g] = seen[g],
           \A c \in 1 .. MaxCalls : c # Bottom(t).call => execs'[c] = execs[c]
    PROVE  \A u \in Threads : u # t => ThreadOk(u)'
  <1> SUFFICES ASSUME NEW u \in Threads, u # t
               PROVE  ThreadOk(u)'
    OBVIOUS
  <1>1. Kept(u)
    BY StackSame
  <1>2. CASE Active(u)
    <2>1. PICK b : b = Bottom(u)
      OBVIOUS
    <2>2. b.call # Bottom(t).call /\ b.call \in 1 .. MaxCalls /\ b.client # h
      BY <1>2, <2>1, Apartness, Bottoms DEF HandleInv, IsView
    <2>3. NetTyped(net) /\ NetTyped(net')
      BY DEF IdInv, NumInv, NetTyped
    <2>4. SameFor(b)
      BY <2>2 DEF SameFor
    <2>5. StaysAt(u, b, b)
      BY <1>1, <2>1 DEF StaysAt, Kept, Alike
    <2> QED BY <2>3, <2>4, <2>5, StaysOk DEF IdInv, HandleInv
  <1>3. CASE ~Active(u)
    BY <1>1, <1>3 DEF Kept, ThreadOk
  <1> QED BY <1>2, <1>3

LEMMA CallsSame ==
    ASSUME IdInv, stack' = stack, net' = net, calls' = calls,
           \A c \in 1 .. MaxCalls : execs'[c] \in {0, 1} /\ (c > calls => execs'[c] = 0)
    PROVE  CallInv'
  <1>1. \A u : Kept(u)
    BY StackSame
  <1> QED BY <1>1 DEF IdInv, CallInv, Kept

LEMMA DeliverIds ==
    ASSUME HandleInv, IdInv, NEW m \in net, Deliver(m)
    PROVE  IdInv'
  <1>1. PICK t \in Threads : /\ Active(t) /\ Bottom(t).client = m.h /\ Bottom(t).call = m.call
                             /\ m.h \in Handles /\ m.bt = 1 /\ m.xid \in Nat /\ m.xid <= mvfs_xid
                             /\ m.call \in 1 .. MaxCalls /\ m.call <= calls
    BY OwnerOf
  <1>2. PICK h, x, k, b : h = m.h /\ x = m.xid /\ k = m.call /\ b = Bottom(t)
    OBVIOUS
  <1>3. /\ stack' = stack /\ net' = net /\ port' = port /\ mvfs_xid' = mvfs_xid /\ calls' = calls
        /\ mvfs_boottime' = mvfs_boottime /\ svr' = svr /\ m.to = port
    BY DEF Deliver, drv
  <1>4. \A u \in Threads : FrameInv(u)'
    BY <1>3, FramesSame
  <1>5. b.xid \in Nat /\ k <= calls /\ b.client = h /\ b.call = k /\ k \in 1 .. MaxCalls
    BY <1>1, <1>2, Bottoms DEF HandleInv, FrameType
  <1>6. PICK s, e : s = seen[h] /\ e = execs[k]
    OBVIOUS
  <1>7. s \in SeenType /\ DOMAIN seen = Handles /\ DOMAIN execs = 1 .. MaxCalls /\ h \in Handles
    BY <1>1, <1>2, <1>6 DEF IdInv, NumInv
  <1>8. Ok(b, s, e, net, replies, port)
    BY <1>1, <1>2, <1>5, <1>6 DEF IdInv, ThreadOk
  <1>9. Active(t)' /\ Bottom(t)' = b
    BY <1>1, <1>2, <1>3, StackSame DEF Kept
  <1>10. \A n \in net : n.xid \in Nat
    BY DEF IdInv, NumInv
  <1>11. CASE /\ Before(seen[m.h], <<m.bt, m.xid>>)
              /\ \E st \in IF m.root THEN {"ok", "denied"} ELSE {"ok"} :
                   /\ seen' = [seen EXCEPT ![m.h] = <<m.bt, m.xid, st>>]
                   /\ replies' = replies \cup {[h |-> m.h, bt |-> m.bt, xid |-> m.xid, status |-> st]}
                   /\ execs' = IF st = "denied" THEN execs ELSE [execs EXCEPT ![m.call] = @ + 1]
    <2>1. PICK st \in {"ok", "denied"} :
                 /\ seen' = [seen EXCEPT ![h] = <<1, x, st>>]
                 /\ replies' = replies \cup {[h |-> h, bt |-> 1, xid |-> x, status |-> st]}
                 /\ execs' = IF st = "denied" THEN execs ELSE [execs EXCEPT ![k] = @ + 1]
      <3>1. PICK st \in IF m.root THEN {"ok", "denied"} ELSE {"ok"} :
                 /\ seen' = [seen EXCEPT ![m.h] = <<m.bt, m.xid, st>>]
                 /\ replies' = replies \cup {[h |-> m.h, bt |-> m.bt, xid |-> m.xid, status |-> st]}
                 /\ execs' = IF st = "denied" THEN execs ELSE [execs EXCEPT ![m.call] = @ + 1]
        BY <1>11, Zenon
      <3>2. st \in {"ok", "denied"}
        OBVIOUS
      <3>3. m.h = h /\ m.bt = 1 /\ m.xid = x /\ m.call = k
        BY <1>1, <1>2
      <3> QED BY <3>1, <3>2, <3>3, Zenon
    <2>2. PICK q : q = [h |-> h, bt |-> 1, xid |-> x, status |-> st]
      OBVIOUS
    <2>3. q.h = h /\ q.xid = x /\ q.status = st /\ replies' = replies \cup {q}
      BY <2>1, <2>2
    <2>4. Before(s, <<1, m.xid>>)
      BY <1>1, <1>2, <1>6, <1>11
    <2>5. PICK s2, e2 : s2 = <<1, m.xid, st>> /\ e2 = IF st = "denied" THEN e ELSE e + 1
      OBVIOUS
    <2>6. e = 0 /\ Ok(b, s2, e2, net, replies \cup {q}, port)
      <3>1. PICK N, R, Q, p : N = net /\ R = replies /\ Q = R \cup {q} /\ p = port
        OBVIOUS
      <3>2. Ok(b, s, e, N, R, p) /\ (\A n \in N : n.xid \in Nat) /\ m \in N
        BY <1>8, <1>10, <3>1
      <3>3. m.h = b.client /\ m.to = p /\ b.xid \in Nat /\ s \in SeenType
        BY <1>2, <1>3, <1>5, <1>7, <3>1
      <3>4. e = 0 /\ Ok(b, s2, e2, N, Q, p)
        <4>1. Executed(b, s, e, N, R, p, m, st, Q, s2, e2)
          BY <2>3, <2>4, <2>5, <3>1, <3>2, <3>3, Zenon DEF Executed
        <4> QED BY <3>2, <4>1, OkExec
      <3> QED BY <3>1, <3>4, Zenon
    <2>7. seen'[h] = s2 /\ DOMAIN seen' = Handles /\ \A g \in Handles : g # h => seen'[g] = seen[g]
      BY <1>2, <1>7, <2>1, <2>5
    <2>8. execs'[k] = e2 /\ DOMAIN execs' = 1 .. MaxCalls /\ \A c \in 1 .. MaxCalls : c # k => execs'[c] = execs[c]
      BY <1>5, <1>6, <1>7, <2>1, <2>5
    <2>9. ThreadOk(t)'
      <3>1. Ok(b, seen'[b.client], execs'[b.call], net', replies', port')
        BY <1>3, <1>5, <2>3, <2>6, <2>7, <2>8
      <3> QED BY <1>9, <3>1 DEF ThreadOk
    <2>10. \A u \in Threads : u # t => ThreadOk(u)'
      BY <1>1, <1>2, <1>3, <1>5, <1>7, <2>3, <2>7, <2>8, ServedOthers
    <2>11. CallInv'
      <3>1. \A c \in 1 .. MaxCalls : execs'[c] \in {0, 1} /\ (c > calls => execs'[c] = 0)
        BY <1>5, <1>6, <2>5, <2>6, <2>8 DEF IdInv, CallInv, HandleInv, Shape
      <3> QED BY <1>3, <3>1, CallsSame
    <2>12. NumInv'
      <3>1. s2 \in SeenType /\ s2[2] <= mvfs_xid
        BY <1>1, <2>5 DEF SeenType
      <3>2. \A g \in Handles : seen'[g] \in SeenType /\ seen'[g][2] <= mvfs_xid'
        BY <1>3, <2>7, <3>1 DEF IdInv, NumInv
      <3>3. \A r \in replies' : r.xid \in Nat /\ r.xid <= mvfs_xid'
        BY <1>1, <1>2, <1>3, <2>3 DEF IdInv, NumInv
      <3> QED BY <1>3, <2>7, <2>8, <3>2, <3>3 DEF IdInv, NumInv
    <2> QED BY <1>4, <2>9, <2>10, <2>11, <2>12 DEF IdInv
  <1>12. CASE /\ ~Before(seen[m.h], <<m.bt, m.xid>>)
              /\ replies' = replies \cup {[h |-> m.h, bt |-> m.bt, xid |-> m.xid,
                                           status |-> IF Before(<<m.bt, m.xid>>, seen[m.h]) THEN "stale"
                                                      ELSE seen[m.h][3]]}
              /\ UNCHANGED <<seen, execs>>
    <2>1. PICK st : st = IF Before(<<m.bt, m.xid>>, seen[m.h]) THEN "stale" ELSE seen[m.h][3]
      OBVIOUS
    <2>2. PICK q : q = [h |-> m.h, bt |-> m.bt, xid |-> m.xid, status |-> st]
      OBVIOUS
    <2>3. q.h = h /\ q.xid = m.xid /\ q.status = st
      BY <1>2, <2>2
    <2>4. replies' = replies \cup {q}
      BY <1>12, <2>1, <2>2, Zenon
    <2>5. ~Before(s, <<1, m.xid>>) /\ st = IF Before(<<1, m.xid>>, s) THEN "stale" ELSE s[3]
      BY <1>1, <1>2, <1>6, <1>12, <2>1
    <2>6. Ok(b, s, e, net, replies \cup {q}, port)
      BY <1>1, <1>2, <1>5, <1>7, <1>8, <2>3, <2>5, OkAnswer
    <2>7. ThreadOk(t)'
      <3>1. Ok(b, seen'[b.client], execs'[b.call], net', replies', port')
        BY <1>3, <1>5, <1>6, <1>12, <2>4, <2>6
      <3> QED BY <1>9, <3>1 DEF ThreadOk
    <2>8. \A u \in Threads : u # t => ThreadOk(u)'
      BY <1>1, <1>2, <1>3, <1>5, <1>7, <1>12, <2>3, <2>4, ServedOthers
    <2>9. CallInv'
      BY <1>3, <1>12, CallsSame DEF IdInv, CallInv
    <2>10. NumInv'
      <3>1. \A r \in replies' : r.xid \in Nat /\ r.xid <= mvfs_xid'
        BY <1>1, <1>3, <2>3, <2>4 DEF IdInv, NumInv
      <3> QED BY <1>3, <1>12, <3>1 DEF IdInv, NumInv
    <2> QED BY <1>4, <2>7, <2>8, <2>9, <2>10 DEF IdInv
  <1> QED BY <1>11, <1>12, Zenon DEF Deliver

(* The server restarts and forgets: what was sent to it before is lost.       *)
LEMMA RestartIds ==
    ASSUME HandleInv, IdInv, Restart
    PROVE  IdInv'
  <1>1. /\ stack' = stack /\ net' = net /\ replies' = replies /\ port' = port + 1 /\ mvfs_xid' = mvfs_xid
        /\ calls' = calls /\ mvfs_boottime' = mvfs_boottime /\ svr' = svr
        /\ seen' = [h \in Handles |-> <<0, 0, "none">>] /\ execs' = [c \in 1 .. MaxCalls |-> 0]
    BY DEF Restart, drv
  <1>2. \A u \in Threads : FrameInv(u)'
    BY <1>1, FramesSame
  <1>3. \A m \in net : m.to # port + 1
    BY DEF IdInv, NumInv
  <1>4. CallInv'
    BY <1>1, CallsSame
  <1>5. NumInv'
    <2>1. PICK s : s = <<0, 0, "none">>
      OBVIOUS
    <2>2. s \in SeenType /\ s[2] = 0
      BY <2>1 DEF SeenType
    <2>3. \A h \in Handles : seen'[h] = s
      BY <1>1, <2>1
    <2>4. mvfs_xid \in Nat
      BY DEF HandleInv, Shape
    <2>5. \A h \in Handles : seen'[h] \in SeenType /\ seen'[h][2] <= mvfs_xid'
      BY <1>1, <2>2, <2>3, <2>4
    <2>6. DOMAIN seen' = Handles /\ DOMAIN execs' = 1 .. MaxCalls
      BY <1>1
    <2> QED BY <1>1, <2>5, <2>6 DEF IdInv, NumInv
  <1>6. \A u \in Threads : ThreadOk(u)'
    <2> SUFFICES ASSUME NEW u \in Threads, Active(u)'
                 PROVE  ThreadOk(u)'
      BY DEF ThreadOk
    <2>1. PICK b : b = Bottom(u)
      OBVIOUS
    <2>2. Active(u) /\ Bottom(u)' = b
      BY <1>1, <2>1, StackSame DEF Kept
    <2>3. b.xid \in Nat /\ b.call \in 1 .. MaxCalls
      BY <2>1, <2>2, Bottoms DEF HandleInv, FrameType, IsView
    <2>4. PICK s, e, N, R, p, p2 : /\ s = seen[b.client] /\ e = execs[b.call] /\ N = net /\ R = replies
                                   /\ p = port /\ p2 = port + 1
      OBVIOUS
    <2>5. Ok(b, s, e, N, R, p)
      BY <2>1, <2>2, <2>4 DEF IdInv, ThreadOk
    <2>6. \A m \in N : m.to # p2
      BY <1>3, <2>4
    <2>7. execs'[b.call] = 0
      BY <1>1, <2>3
    <2>8. CASE b.client \in Handles
      <3>1. Ok(b, <<0, 0, "none">>, 0, N, R, p2)
        BY <2>3, <2>5, <2>6, OkRestart
      <3>2. seen'[b.client] = <<0, 0, "none">>
        BY <1>1, <2>8
      <3>3. Ok(b, seen'[b.client], execs'[b.call], net', replies', port')
        BY <1>1, <2>4, <2>7, <3>1, <3>2, Zenon
      <3> QED BY <2>2, <3>3 DEF ThreadOk
    <2>9. CASE b.client \notin Handles
      <3>1. ~Sends(b)
        BY <2>1, <2>2, <2>9, Bottoms DEF HandleInv
      <3>2. \A m \in N : m.h # b.client
        BY <2>4, <2>9 DEF IdInv, NumInv
      <3>3. PICK z : z = seen'[b.client]
        OBVIOUS
      <3>4. Ok(b, z, 0, N, R, p2)
        BY <3>1, <3>2, OkFresh
      <3>5. Ok(b, seen'[b.client], execs'[b.call], net', replies', port')
        BY <1>1, <2>4, <2>7, <3>3, <3>4, Zenon
      <3> QED BY <2>2, <3>5 DEF ThreadOk
    <2> QED BY <2>8, <2>9
  <1> QED BY <1>2, <1>4, <1>5, <1>6 DEF IdInv

(* Nothing happens to the calls.                                              *)
LEMMA StillIds ==
    ASSUME HandleInv, IdInv, stack' = stack,
           UNCHANGED <<mvfs_xid, mvfs_boottime, svr, calls, net, seen, replies, execs, port>>
    PROVE  IdInv'
  <1>1. \A u \in Threads : FrameInv(u)'
    BY FramesSame
  <1>2. CallInv'
    BY CallsSame DEF IdInv, CallInv
  <1>3. NumInv'
    BY DEF IdInv, NumInv
  <1>4. \A u \in Threads : ThreadOk(u)'
    <2> SUFFICES ASSUME NEW u \in Threads
                 PROVE  ThreadOk(u)'
      OBVIOUS
    <2>1. PICK b : b = Bottom(u)
      OBVIOUS
    <2>2. StaysAt(u, b, b)
      BY <2>1, StackSame DEF StaysAt, Kept, Alike
    <2>3. NetTyped(net) /\ NetTyped(net') /\ SameFor(b)
      BY DEF IdInv, NumInv, NetTyped, SameFor
    <2> QED BY <2>2, <2>3, StaysOk DEF IdInv, HandleInv
  <1> QED BY <1>1, <1>2, <1>3, <1>4 DEF IdInv

(* A new call.                                                                *)
LEMMA StartIds ==
    ASSUME HandleInv, IdInv, NEW t \in Threads, CallStart(t)
    PROVE  IdInv'
  <1>1. /\ stack[t] = <<>> /\ calls < MaxCalls /\ calls' = calls + 1
        /\ UNCHANGED <<mvfs_xid, mvfs_boottime, svr, net, seen, replies, execs, port>>
    BY DEF CallStart, ext
  <1>2. PICK l \in {"get", "probe"} : stack' = [stack EXCEPT ![t] = <<Frame("view", l, calls + 1)>>]
    BY Zenon DEF CallStart
  <1>3. PICK c : c = calls + 1
    OBVIOUS
  <1>4. c \in 1 .. MaxCalls /\ calls \in Nat
    BY <1>1, <1>3, RpcAssumption DEF HandleInv, Shape
  <1>5. PICK f : f = Frame("view", l, c)
    OBVIOUS
  <1>6. /\ f.pc = l /\ f.call = c /\ f.client = Null /\ f.xid = 0 /\ f.rebind
        /\ f.pc \notin {"wrap", "wrapped"} /\ ~Sends(f)
    BY <1>5 DEF Frame, Sends, Sent
  <1>7. Others(t) /\ stack'[t] = <<f>>
    BY <1>2, <1>3, <1>5, Pushes DEF Stacked, HandleInv
  <1>8. Active(t)' /\ Top(t)' = f /\ Bottom(t)' = f /\ Of(t)' = Null /\ ~Active(t)
    <2>1. Shows(t, f, f, Null)'
      BY <1>7, OneFrameNext
    <2> QED BY <1>1, <1>6, <2>1 DEF Shows, Active
  <1>9. \A u \in Threads : u # t => Kept(u)
    BY <1>7, OthersKept
  <1>10. NumInv'
    BY <1>1 DEF IdInv, NumInv
  <1>11. \A u \in Threads : FrameInv(u)'
    <2>1. mvfs_xid \in Nat
      BY DEF HandleInv, Shape
    <2>2. FrameInv(t)'
      BY <1>1, <1>6, <1>8, <2>1 DEF FrameInv
    <2> QED BY <1>1, <1>7, <2>1, <2>2, FramesKept DEF HandleInv, IdInv
  <1>12. CallInv'
    <2>1. \A m \in net' : \E u \in Threads : Active(u)' /\ Of(u)' = m.h /\ Bottom(u)'.call = m.call
      <3> SUFFICES ASSUME NEW m \in net
                   PROVE  \E u \in Threads : Active(u)' /\ Of(u)' = m.h /\ Bottom(u)'.call = m.call
        BY <1>1
      <3>1. PICK u \in Threads : Active(u) /\ Of(u) = m.h /\ Bottom(u).call = m.call
        BY DEF IdInv, CallInv
      <3> QED BY <1>8, <1>9, <3>1 DEF Kept
    <2>2. \A u \in Threads : u # t /\ Active(u)' =>
             /\ Active(u) /\ Bottom(u)'.call = Bottom(u).call /\ Bottom(u).call \in Nat /\ Bottom(u).call <= calls
      <3> SUFFICES ASSUME NEW u \in Threads, u # t, Active(u)'
                   PROVE  /\ Active(u) /\ Bottom(u)'.call = Bottom(u).call
                          /\ Bottom(u).call \in Nat /\ Bottom(u).call <= calls
        OBVIOUS
      <3>1. Active(u) /\ Bottom(u)' = Bottom(u)
        BY <1>9 DEF Kept
      <3>2. Bottom(u).call \in 1 .. MaxCalls
        BY <3>1, Bottoms DEF HandleInv, IsView
      <3> QED BY <3>1, <3>2 DEF IdInv, CallInv
    <2>3. \A u \in Threads : Active(u)' => Bottom(u)'.call <= calls'
      BY <1>1, <1>3, <1>4, <1>6, <1>8, <2>2
    <2>4. \A u, v \in Threads : Active(u)' /\ Active(v)' /\ Bottom(u)'.call = Bottom(v)'.call => u = v
      <3> SUFFICES ASSUME NEW u \in Threads, NEW v \in Threads, Active(u)', Active(v)',
                          Bottom(u)'.call = Bottom(v)'.call
                   PROVE  u = v
        OBVIOUS
      <3>1. CASE u # t /\ v # t
        BY <2>2, <3>1 DEF IdInv, CallInv
      <3>2. CASE u = t \/ v = t
        BY <1>3, <1>4, <1>6, <1>8, <2>2, <3>2
      <3> QED BY <3>1, <3>2
    <2>5. \A k \in 1 .. MaxCalls : execs'[k] \in {0, 1} /\ (k > calls' => execs'[k] = 0)
      BY <1>1, <1>4 DEF IdInv, CallInv
    <2> QED BY <2>1, <2>3, <2>4, <2>5 DEF CallInv
  <1>13. \A u \in Threads : u # t => ThreadOk(u)'
    <2> SUFFICES ASSUME NEW u \in Threads, u # t
                 PROVE  ThreadOk(u)'
      OBVIOUS
    <2>1. PICK b : b = Bottom(u)
      OBVIOUS
    <2>2. StaysAt(u, b, b)
      BY <1>7, <2>1, OtherStays
    <2>3. NetTyped(net) /\ NetTyped(net') /\ SameFor(b)
      BY <1>1 DEF IdInv, NumInv, NetTyped, SameFor
    <2> QED BY <2>2, <2>3, StaysOk DEF IdInv, HandleInv
  <1>14. ThreadOk(t)'
    <2>1. execs[c] = 0
      BY <1>1, <1>3, <1>4 DEF IdInv, CallInv
    <2>2. \A m \in net : m.h # Null
      BY RpcAssumption DEF IdInv, NumInv
    <2>3. PICK s : s = seen[f.client]
      OBVIOUS
    <2>4. Ok(f, s, 0, net, replies, port)
      BY <1>6, <2>2, OkFresh
    <2>5. Ok(f, seen'[f.client], execs'[f.call], net', replies', port')
      BY <1>1, <1>6, <2>1, <2>3, <2>4
    <2> QED BY <1>8, <2>5 DEF ThreadOk
  <1> QED BY <1>10, <1>11, <1>12, <1>13, <1>14 DEF IdInv-----------------------------------------------------------------------------

(* The steps of a call.                                                       *)
Still ==
    /\ mvfs_xid' = mvfs_xid
    /\ UNCHANGED <<mvfs_boottime, svr, calls, net, seen, replies, execs, port>>

LEMMA StillAround ==
    ASSUME HandleInv, IdInv, Still
    PROVE  Around /\ net' = net
  BY DEF Still, Around, SeenKept, IdInv, NumInv, HandleInv, Shape

(* What a step that keeps the transaction may change in the frame on top.     *)
Alters(p, q) ==
    /\ q.op = p.op /\ q.call = p.call /\ q.client = p.client /\ q.xid = p.xid /\ q.rebind = p.rebind
    /\ q.pc \notin {"wrap", "wrapped"}
    /\ p.op = "view" => (Sends(p) <=> Sends(q))

LEMMA AltersIds ==
    ASSUME HandleInv, IdInv, NEW t \in Threads, Active(t), NEW q, SetTop(t, q), Around, net' = net,
           Alters(Top(t), q)
    PROVE  IdInv'
  <1>1. FrameInv(t) /\ mvfs_xid \in Nat /\ Top(t).xid \in Nat
    BY TopFits DEF IdInv, HandleInv, Shape, FrameType
  <1>2. q.xid \in Nat /\ q.xid <= mvfs_xid'
    BY <1>1 DEF FrameInv, Around, Alters
  <1>3. Top(t).op = "view" => Alike(Top(t), q) /\ (~q.rebind => t \in Soft)
    BY <1>1, ViewTop DEF HandleInv, FrameInv, Alters, Alike
  <1> QED BY <1>2, <1>3, CalmTop DEF Alters

LEMMA AltersPc ==
    ASSUME NEW p \in FrameType, NEW l \in {"xid", "free", "rebind", "wait"}, NEW q,
           \/ q = [p EXCEPT !.pc = l]
           \/ q = [p EXCEPT !.pc = l, !.err = TRUE]
           \/ q = [p EXCEPT !.pc = l, !.ruid = TRUE]
           \/ \E n : q = [p EXCEPT !.pc = l, !.bt = n],
           p.op = "view" => (p.pc \in Sent <=> l # "xid")
    PROVE  Alters(p, q)
  BY DEF Alters, Sends, Sent, FrameType

LEMMA PcIds ==
    ASSUME HandleInv, IdInv, NEW t \in Threads, NEW k, At(t, k), Still,
           NEW l \in {"xid", "free", "rebind"},
           Top(t).op = "view" => (k \in Sent <=> l # "xid"),
           \/ Goto(t, l) \/ Fail(t, l) \/ SetTop(t, [Top(t) EXCEPT !.pc = l, !.ruid = TRUE])
    PROVE  IdInv'
  <1>1. Active(t) /\ Top(t).pc = k
    BY DEF At, Active
  <1>2. Top(t) \in FrameType
    BY <1>1, TopFits DEF HandleInv
  <1>3. PICK q : /\ SetTop(t, q)
                 /\ \/ q = [Top(t) EXCEPT !.pc = l]
                    \/ q = [Top(t) EXCEPT !.pc = l, !.err = TRUE]
                    \/ q = [Top(t) EXCEPT !.pc = l, !.ruid = TRUE]
    BY Zenon DEF Goto, Fail
  <1>4. PICK p : p = Top(t)
    OBVIOUS
  <1>5. Alters(p, q)
    BY <1>1, <1>2, <1>3, <1>4, AltersPc
  <1> QED BY <1>1, <1>3, <1>4, <1>5, StillAround, AltersIds

LEMMA AgainIds ==
    ASSUME HandleInv, IdInv, NEW t \in Threads, NEW k \in {"call", "again", "wait"}, At(t, k), Still, Again(t)
    PROVE  IdInv'
  <1>1. k \in Sent
    BY DEF Sent
  <1>2. CASE Top(t).rebind
    <2>1. Goto(t, "rebind")
      BY <1>2, Zenon DEF Again
    <2> QED BY <1>1, <2>1, PcIds
  <1>3. CASE ~Top(t).rebind
    <2>1. Fail(t, "free")
      BY <1>3, Zenon DEF Again
    <2> QED BY <1>1, <2>1, PcIds
  <1> QED BY <1>2, <1>3

LEMMA InsertIds ==
    ASSUME HandleInv, IdInv, NEW t \in Threads, Insert(t)
    PROVE  IdInv'
  <1>1. At(t, "insert") /\ Still /\ Goto(t, "xid")
    BY DEF Insert, Still, ext
  <1>2. "insert" \notin Sent
    BY DEF Sent
  <1> QED BY <1>1, <1>2, PcIds

LEMMA UnboundIds ==
    ASSUME HandleInv, IdInv, NEW t \in Threads, Unbound(t)
    PROVE  IdInv'
  <1>1. (At(t, "call") \/ At(t, "again")) /\ Still /\ Again(t)
    BY DEF Unbound, Still, ext
  <1> QED BY <1>1, AgainIds

LEMMA ReplyIds ==
    ASSUME HandleInv, IdInv, NEW t \in Threads, Reply(t)
    PROVE  IdInv'
  <1>1. At(t, "wait") /\ Still /\ Goto(t, "free")
    BY DEF Reply, Still, ext
  <1> QED BY <1>1, PcIds DEF Sent

LEMMA WrongServerIds ==
    ASSUME HandleInv, IdInv, NEW t \in Threads, WrongServer(t)
    PROVE  IdInv'
  <1>1. At(t, "wait") /\ Still /\ Again(t)
    BY DEF WrongServer, Still, ext
  <1> QED BY <1>1, AgainIds

LEMMA GiveUpIds ==
    ASSUME HandleInv, IdInv, NEW t \in Threads, GiveUp(t)
    PROVE  IdInv'
  <1>1. At(t, "wait") /\ Still /\ Fail(t, "free")
    BY DEF GiveUp, Still, ext
  <1> QED BY <1>1, PcIds DEF Sent

(* A hard mount rebinds whenever it gets no answer.                           *)
LEMMA TimeoutIds ==
    ASSUME HandleInv, IdInv, ~InitFails, NEW t \in Threads, Timeout(t)
    PROVE  IdInv'
  <1>1. At(t, "wait") /\ Still /\ Active(t)
    BY DEF Timeout, Still, ext, At, Active
  <1>2. CASE Again(t)
    BY <1>1, <1>2, AgainIds
  <1>3. CASE ~(Top(t).rebind \/ t \in Soft) /\ Goto(t, "xid")
    <2>1. Top(t).op # "view"
      BY <1>1, <1>3, ViewTop DEF HandleInv, IdInv, FrameInv
    <2> QED BY <1>1, <1>3, <2>1, PcIds
  <1> QED BY <1>2, <1>3, Zenon DEF Timeout

(* The transaction that is tried again with the real uid was denied.          *)
LEMMA RetryUidIds ==
    ASSUME HandleInv, IdInv, ~InitFails, NEW t \in Threads, RetryUid(t)
    PROVE  IdInv'
  <1>1. /\ At(t, "wait") /\ Still /\ Active(t) /\ Top(t).pc = "wait"
        /\ SetTop(t, [Top(t) EXCEPT !.pc = "xid", !.ruid = TRUE])
    BY DEF RetryUid, Still, ext, At, Active
  <1>2. CASE Top(t).op # "view"
    BY <1>1, <1>2, PcIds
  <1>3. CASE Top(t).op = "view"
    <2>1. PICK r \in replies : Answer(t, r) /\ r.status = "denied"
      BY <1>3 DEF RetryUid, Denied
    <2>2. PICK p, q : p = Top(t) /\ q = [p EXCEPT !.pc = "xid", !.ruid = TRUE]
      OBVIOUS
    <2>3. p \in FrameType
      BY <1>1, <2>2, TopFits DEF HandleInv
    <2>4. /\ q.call = p.call /\ q.client = p.client /\ q.pc = "xid" /\ q.xid = p.xid /\ q.rebind = p.rebind
      BY <2>2, <2>3 DEF FrameType
    <2>5. SetTop(t, q)
      BY <1>1, <2>2, Zenon
    <2>6. Around /\ net' = net /\ replies' = replies /\ seen' = seen
      BY <1>1, StillAround DEF Still
    <2>7. r.h = Top(t).client /\ r.xid = Top(t).xid
      BY <2>1 DEF Answer
    <2> QED BY <1>1, <1>3, <2>1, <2>2, <2>4, <2>5, <2>6, <2>7, RetryView
  <1> QED BY <1>2, <1>3

LEMMA AllocIds ==
    ASSUME HandleInv, IdInv, NoWrap, NEW t \in Threads, AllocXid(t)
    PROVE  IdInv'
  <1>1. /\ Active(t) /\ Top(t).pc = "xid" /\ mvfs_xid \in Nat
        /\ UNCHANGED <<mvfs_boottime, svr, calls, net, seen, replies, execs, port>>
    BY DEF AllocXid, ext, At, Active, HandleInv, Shape
  <1>2. mvfs_xid # XidLimit
    BY <1>1, RpcAssumption DEF NoWrap
  <1>3. PICK p, x, q : p = Top(t) /\ x = mvfs_xid + 1 /\ q = [p EXCEPT !.pc = "call", !.xid = x]
    OBVIOUS
  <1>4. SetTop(t, q) /\ mvfs_xid' = x
    BY <1>2, <1>3, Zenon DEF AllocXid
  <1>5. p \in FrameType
    BY <1>1, <1>3, TopFits DEF HandleInv
  <1>6. /\ q.call = p.call /\ q.client = p.client /\ q.pc = "call" /\ q.xid = x /\ q.rebind = p.rebind
    BY <1>3, <1>5 DEF FrameType
  <1>7. Around
    BY <1>1, <1>3, <1>4 DEF Around, SeenKept, IdInv, NumInv
  <1>8. CASE Top(t).op = "view"
    BY <1>1, <1>3, <1>4, <1>6, <1>7, <1>8, AllocView
  <1>9. CASE Top(t).op # "view"
    <2>1. q.pc \notin {"wrap", "wrapped"} /\ q.xid \in Nat /\ q.xid <= mvfs_xid'
      BY <1>1, <1>3, <1>4, <1>6
    <2> QED BY <1>1, <1>4, <1>7, <1>9, <2>1, CalmTop
  <1> QED BY <1>8, <1>9

LEMMA SendIds ==
    ASSUME HandleInv, IdInv, NEW t \in Threads, Send(t)
    PROVE  IdInv'
  <1>1. /\ Active(t) /\ Top(t).pc \in {"call", "again"}
        /\ UNCHANGED <<mvfs_xid, mvfs_boottime, svr, calls, seen, execs, port>>
    BY DEF Send, At, Active
  <1>2. PICK p, q, n : p = Top(t) /\ n = mvfs_boottime /\ q = [p EXCEPT !.pc = "wait", !.bt = n]
    OBVIOUS
  <1>3. SetTop(t, q)
    BY <1>2, Zenon DEF Send
  <1>4. p \in FrameType
    BY <1>1, <1>2, TopFits DEF HandleInv
  <1>5. /\ q.call = p.call /\ q.client = p.client /\ q.pc = "wait" /\ q.xid = p.xid /\ q.rebind = p.rebind
    BY <1>2, <1>4 DEF FrameType
  <1>6. CASE Top(t).op = "view"
    <2>1. PICK r : r = (t \in SetuidRoot /\ ~Top(t).ruid)
      OBVIOUS
    <2>2. PICK m : m = [h |-> Top(t).client, bt |-> mvfs_boottime, xid |-> Top(t).xid,
                        call |-> Top(t).call, to |-> svr.port, root |-> r]
      OBVIOUS
    <2>3. net' = net \cup {m} /\ replies' = {k \in replies : k.h # Top(t).client}
      BY <1>6, <2>1, <2>2, Zenon DEF Send
    <2>4. /\ m.h = Top(t).client /\ m.bt = mvfs_boottime /\ m.xid = Top(t).xid
          /\ m.call = Top(t).call /\ m.to = svr.port
      BY <2>2
    <2> QED BY <1>1, <1>2, <1>3, <1>5, <1>6, <2>3, <2>4, SendView
  <1>7. CASE Top(t).op # "view"
    <2>1. Still
      BY <1>1, <1>7 DEF Send, Still
    <2>2. p.op = "view" => (p.pc \in Sent <=> "wait" # "xid")
      BY <1>2, <1>7
    <2>3. Alters(p, q)
      BY <1>2, <1>4, <2>2, AltersPc
    <2> QED BY <1>1, <1>2, <1>3, <2>1, <2>3, StillAround, AltersIds
  <1> QED BY <1>6, <1>7

(* A call gets its handle.                                                    *)
LEMMA TakeIds ==
    ASSUME HandleInv, IdInv, NEW t \in Threads, Active(t), Top(t).pc = "get",
           NEW h \in Handles, ~Held(h), NEW l \in {"xid", "insert"},
           NEW q, SetTop(t, q), q = Given(Top(t), l, h), Around, net' = net
    PROVE  IdInv'
  <1>1. CASE Top(t).op = "view"
    BY <1>1, TookView
  <1>2. CASE Top(t).op # "view"
    <2>1. Top(t) \in FrameType
      BY TopFits DEF HandleInv
    <2>2. q.pc = l /\ q.xid = Top(t).xid /\ q.xid \in Nat
      BY <2>1 DEF Given, FrameType
    <2>3. FrameInv(t) /\ mvfs_xid \in Nat
      BY DEF IdInv, HandleInv, Shape
    <2>4. q.xid <= mvfs_xid'
      BY <2>2, <2>3 DEF FrameInv, Around
    <2>5. q.pc \notin {"wrap", "wrapped"}
      BY <2>2
    <2> QED BY <1>2, <2>2, <2>4, <2>5, CalmTop
  <1> QED BY <1>1, <1>2

LEMMA GetCachedIds ==
    ASSUME HandleInv, IdInv, ~InitFails, NEW t \in Threads, GetCached(t)
    PROVE  IdInv'
  <1>1. Active(t) /\ Top(t).pc = "get" /\ Still
    BY DEF GetCached, At, Active, Still, ext
  <1>2. PICK i \in Cached(t) : SetTop(t, [Top(t) EXCEPT !.pc = "xid", !.client = cache[i].client])
    BY Zenon DEF GetCached
  <1>3. i \in Slots /\ cache[i].client # Null /\ ~cache[i].inuse
    BY <1>2 DEF Cached, Slots, Unused
  <1>4. PICK h : h = cache[i].client
    OBVIOUS
  <1>5. PICK q : q = Given(Top(t), "xid", h)
    OBVIOUS
  <1>6. h \in Handles
    BY <1>3, <1>4, SlotTyped DEF HandleInv
  <1>7. SetTop(t, q)
    BY <1>2, <1>4, <1>5, Zenon DEF Given
  <1>8. ~Held(h)
    <2>1. SlotTrue(i)
      BY <1>3 DEF HandleInv, OwnInv
    <2> QED BY <1>3, <1>4, <1>6, <2>1 DEF SlotTrue
  <1> QED BY <1>1, <1>5, <1>6, <1>7, <1>8, StillAround, TakeIds

LEMMA CreateIds ==
    ASSUME HandleInv, IdInv, NEW t \in Threads, Create(t)
    PROVE  IdInv'
  <1>1. Active(t) /\ Top(t).pc = "get"
    BY DEF Create, At, Active
  <1>2. PICK h : h = CHOOSE g \in Handles : g \notin live
    OBVIOUS
  <1>3. h \in Handles /\ h \notin live
    BY <1>2 DEF Create, HandleInv, Shape
  <1>4. PICK q : q = Given(Top(t), "insert", h)
    OBVIOUS
  <1>5. SetTop(t, q) /\ seen' = [seen EXCEPT ![h] = <<0, 0, "none">>]
    BY <1>2, <1>4, Zenon DEF Create, Given
  <1>6. ~Held(h)
    BY <1>3 DEF HandleInv, OwnInv, HeldLive, Held
  <1>7. Around /\ net' = net
    <2>1. SeenKept
      <3>1. DOMAIN seen = Handles
        BY DEF IdInv, NumInv
      <3> QED BY <1>3, <1>5, <3>1 DEF SeenKept
    <2> QED BY <2>1 DEF Create, Around, IdInv, NumInv, HandleInv, Shape
  <1> QED BY <1>1, <1>3, <1>4, <1>5, <1>6, <1>7, TakeIds

(* A call returns.                                                            *)
LEMMA ReturnTop ==
    ASSUME HandleInv, NEW t \in Threads, Active(t), NEW err, Return(t, err)
    PROVE  \/ Top(t).op = "view" /\ Others(t) /\ ~Active(t)' /\ Of(t) = Top(t).client
           \/ /\ Top(t).op # "view" /\ Aux(t) = Top(t).client
              /\ \E q : SetTop(t, q) /\ q.pc = "end" /\ q.xid = Top(t).xid
  <1>1. CASE \E f : OneOf(t, f) /\ Shows(t, f, f, Null)
    <2>1. PICK f : OneOf(t, f) /\ Shows(t, f, f, Null)
      BY <1>1
    <2>2. stack' = [stack EXCEPT ![t] = <<>>]
      BY <2>1, OneFrame, Zenon DEF OneOf, Return
    <2>3. Others(t) /\ stack'[t] = <<>>
      BY <2>2, Pushes DEF Stacked, HandleInv
    <2>4. ~Active(t)'
      BY <2>3, NoFrameNext
    <2> QED BY <2>1, <2>3, <2>4 DEF OneOf, Shows, IsView
  <1>2. CASE \E f, g : TwoOf(t, f, g) /\ Shows(t, g, f, g.client)
    <2>1. PICK f, p : TwoOf(t, f, p) /\ Shows(t, p, f, p.client)
      BY <1>2
    <2>2. Len(stack[t]) = 2 /\ Top(t) = p
      BY <2>1, TwoFrames DEF TwoOf, Shows
    <2>3. PICK q : q = [p EXCEPT !.pc = "end", !.err = err, !.client = Null]
      OBVIOUS
    <2>4. SetTop(t, q)
      <3>1. Len(stack[t]) # 1
        BY <2>2
      <3> QED BY <2>2, <2>3, <3>1, Zenon DEF Return
    <2>5. q.pc = "end" /\ q.xid = p.xid
      BY <2>1, <2>3 DEF TwoOf, FrameType
    <2> QED BY <2>1, <2>2, <2>4, <2>5 DEF TwoOf, Shows, IsAlbd
  <1> QED BY <1>1, <1>2, Frames1 DEF HandleInv

LEMMA ReturnIds ==
    ASSUME HandleInv, IdInv, NEW t \in Threads, Active(t), NEW err, Return(t, err), Around,
           \A m \in net : m \in net' <=> m.h # Top(t).client
    PROVE  IdInv'
  <1>1. net' \subseteq net
    BY DEF Around
  <1>2. CASE Top(t).op = "view" /\ Others(t) /\ ~Active(t)' /\ Of(t) = Top(t).client
    BY <1>1, <1>2, Ended
  <1>3. CASE Aux(t) = Top(t).client /\ Top(t).op # "view"
             /\ \E q : SetTop(t, q) /\ q.pc = "end" /\ q.xid = Top(t).xid
    <2>1. PICK q : SetTop(t, q) /\ q.pc = "end" /\ q.xid = Top(t).xid
      BY <1>3
    <2>2. net' = net
      BY <1>1, <1>3, AuxSilent
    <2>3. FrameInv(t) /\ mvfs_xid \in Nat /\ Top(t) \in FrameType
      BY TopFits DEF IdInv, HandleInv, Shape
    <2>4. q.xid \in Nat /\ q.xid <= mvfs_xid'
      BY <2>1, <2>3 DEF FrameInv, Around, FrameType
    <2>5. q.pc \notin {"wrap", "wrapped"}
      BY <2>1
    <2> QED BY <1>3, <2>1, <2>2, <2>4, <2>5, CalmTop
  <1> QED BY <1>2, <1>3, ReturnTop

LEMMA CreateFailIds ==
    ASSUME HandleInv, IdInv, NEW t \in Threads, CreateFail(t)
    PROVE  IdInv'
  <1>1. Active(t) /\ Top(t).pc = "get" /\ Return(t, TRUE) /\ Still
    BY DEF CreateFail, At, Active, Still, ext
  <1>2. Top(t).client = Null
    BY <1>1, TopFits DEF HandleInv, IsView, IsAlbd, Carrying
  <1>3. Around /\ net' = net
    BY <1>1, StillAround
  <1>4. \A m \in net : m.h # Null
    BY RpcAssumption DEF IdInv, NumInv
  <1> QED BY <1>1, <1>2, <1>3, <1>4, ReturnIds

LEMMA FreeIds ==
    ASSUME HandleInv, IdInv, NEW t \in Threads, FreeHandle(t)
    PROVE  IdInv'
  <1>1. Active(t) /\ Return(t, Top(t).err)
    BY DEF FreeHandle, At, Active
  <1>2. PICK h : h = Top(t).client
    OBVIOUS
  <1>3. net' = {m \in net : m.h # h} /\ replies' = {r \in replies : r.h # h}
    BY <1>2, Zenon DEF FreeHandle, Forget
  <1>4. Around
    BY <1>3 DEF FreeHandle, Around, SeenKept, IdInv, NumInv, HandleInv, Shape
  <1> QED BY <1>1, <1>2, <1>3, <1>4, ReturnIds-----------------------------------------------------------------------------

(* Calls to the albd begin and end.                                           *)
Resumes(t, f, q) ==
    /\ Alike(f, q) /\ q.pc \notin {"wrap", "wrapped"}
    /\ ~q.rebind => ~f.rebind \/ t \in Soft

LEMMA AfterBindResumes ==
    ASSUME NEW t, NEW f \in FrameType, IsView(f), f.pc \in Binding, NEW err \in BOOLEAN
    PROVE  \/ AfterBind(t, f, err) = <<>> /\ f.client = Null
           \/ \E q : AfterBind(t, f, err) = <<q>> /\ Resumes(t, f, q)
  <1>1. f.pc = "probe" \/ f.pc = "rebind"
    BY DEF Binding
  <1>2. CASE f.pc = "probe" /\ err
    <2>1. AfterBind(t, f, err) = <<>>
      BY <1>2, Zenon DEF AfterBind
    <2> QED BY <1>2, <2>1 DEF IsView, Carrying
  <1>3. CASE f.pc = "probe" /\ ~err
    <2>1. PICK q : q = [f EXCEPT !.pc = "get"]
      OBVIOUS
    <2>2. AfterBind(t, f, err) = <<q>>
      BY <1>3, <2>1 DEF AfterBind
    <2>3. Resumes(t, f, q)
      BY <1>3, <2>1 DEF FrameType, Resumes, Alike, Sends, Sent
    <2> QED BY <2>2, <2>3, Zenon
  <1>4. CASE f.pc = "rebind" /\ err /\ t \in Soft
    <2>1. PICK q : q = [f EXCEPT !.pc = "free", !.err = TRUE]
      OBVIOUS
    <2>2. AfterBind(t, f, err) = <<q>>
      BY <1>4, <2>1 DEF AfterBind
    <2>3. Resumes(t, f, q)
      BY <1>4, <2>1 DEF FrameType, Resumes, Alike, Sends, Sent
    <2> QED BY <2>2, <2>3, Zenon
  <1>5. CASE f.pc = "rebind" /\ ~(err /\ t \in Soft)
    <2>1. PICK q, b : b = RebindAgain(t) /\ q = [f EXCEPT !.pc = "again", !.ruid = FALSE, !.rebind = b]
      OBVIOUS
    <2>2. AfterBind(t, f, err) = <<q>>
      BY <1>5, <2>1 DEF AfterBind, RetryAt
    <2>3. ~b => t \in Soft
      BY <2>1 DEF RebindAgain
    <2>4. Resumes(t, f, q)
      BY <1>5, <2>1, <2>3 DEF FrameType, Resumes, Alike, Sends, Sent
    <2> QED BY <2>2, <2>4, Zenon
  <1> QED BY <1>1, <1>2, <1>3, <1>4, <1>5

LEMMA ResumedIds ==
    ASSUME HandleInv, IdInv, NEW t \in Threads, Active(t), NEW f \in FrameType, IsView(f), f.pc \in Binding,
           NEW err \in BOOLEAN, Bottom(t) = f, stack' = [stack EXCEPT ![t] = AfterBind(t, f, err)],
           Around, net' = net
    PROVE  IdInv'
  <1>1. PICK s : s = AfterBind(t, f, err)
    OBVIOUS
  <1>2. stack' = [stack EXCEPT ![t] = s]
    BY <1>1, Zenon
  <1>3. Others(t) /\ stack'[t] = s
    BY <1>2, Pushes DEF Stacked, HandleInv
  <1>4. \/ s = <<>> /\ f.client = Null
        \/ \E q : s = <<q>> /\ Resumes(t, f, q)
    BY <1>1, AfterBindResumes
  <1>5. CASE s = <<>> /\ f.client = Null
    <2>1. ~Active(t)' /\ Of(t) = Null
      BY <1>3, <1>5, NoFrameNext, Bottoms DEF HandleInv
    <2>2. \A m \in net : m.h # Null
      BY RpcAssumption DEF IdInv, NumInv
    <2> QED BY <1>3, <2>1, <2>2, Ended
  <1>6. CASE \E q : s = <<q>> /\ Resumes(t, f, q)
    <2>1. PICK q : s = <<q>> /\ Resumes(t, f, q)
      BY <1>6
    <2>2. Active(t)' /\ Top(t)' = q /\ Bottom(t)' = q
      <3>1. Shows(t, q, q, Null)'
        BY <1>3, <2>1, OneFrameNext
      <3> QED BY <3>1 DEF Shows
    <2>3. FrameInv(t)'
      <3>1. FrameInv(t) /\ mvfs_xid \in Nat /\ f.xid \in Nat
        BY DEF IdInv, HandleInv, Shape, FrameType
      <3>2. q.xid <= mvfs_xid'
        BY <2>1, <3>1 DEF FrameInv, Around, Resumes, Alike
      <3> QED BY <2>1, <2>2, <3>1, <3>2 DEF FrameInv, Resumes
    <2>4. Alike(f, q)
      BY <2>1 DEF Resumes
    <2> QED BY <1>3, <2>2, <2>3, <2>4, Calm
  <1> QED BY <1>4, <1>5, <1>6

LEMMA PushedIds ==
    ASSUME HandleInv, IdInv, NEW t \in Threads, Active(t), NEW f, Bottom(t) = f,
           NEW o, NEW q, q = Frame(o, "get", 0), Others(t), stack'[t] = <<q, f>>, Still
    PROVE  IdInv'
  <1>1. q.pc = "get" /\ q.xid = 0
    BY DEF Frame
  <1>2. Active(t)' /\ Top(t)' = q /\ Bottom(t)' = f
    <2>1. Shows(t, q, f, q.client)'
      BY TwoFramesNext
    <2> QED BY <2>1 DEF Shows
  <1>3. FrameInv(t)'
    <2>1. FrameInv(t) /\ mvfs_xid \in Nat
      BY DEF IdInv, HandleInv, Shape
    <2> QED BY <1>1, <1>2, <2>1 DEF FrameInv, Still
  <1>4. Alike(f, f)
    BY DEF Alike
  <1> QED BY <1>2, <1>3, <1>4, StillAround, Calm

LEMMA BindStartIds ==
    ASSUME HandleInv, IdInv, NEW t \in Threads, BindStart(t)
    PROVE  IdInv'
  <1>1. Active(t) /\ Top(t).pc \in Binding /\ Still
    BY DEF BindStart, At, Active, Binding, Still, ext
  <1>2. PICK f : OneOf(t, f) /\ Shows(t, f, f, Null)
    <2>1. CASE \E f, g : TwoOf(t, f, g) /\ Shows(t, g, f, g.client)
      BY <1>1, <2>1 DEF TwoOf, Shows, IsAlbd
    <2> QED BY <1>1, <2>1, Frames1 DEF HandleInv
  <1>3. PICK q : q = Frame("albd", "get", 0)
    OBVIOUS
  <1>4. Others(t) /\ stack'[t] = <<q, f>>
    <2>1. stack' = [stack EXCEPT ![t] = <<q>> \o stack[t]]
      BY <1>3, Zenon DEF BindStart
    <2>2. <<q>> \o stack[t] = <<q, f>>
      BY <1>2, Joined, Zenon DEF OneOf
    <2>3. stack' = [stack EXCEPT ![t] = <<q, f>>]
      BY <2>1, <2>2, Zenon
    <2> QED BY <2>3, Pushes DEF Stacked, HandleInv
  <1>5. Bottom(t) = f
    BY <1>2 DEF Shows
  <1> QED BY <1>1, <1>3, <1>4, <1>5, PushedIds

LEMMA BindRefusedIds ==
    ASSUME HandleInv, IdInv, NEW t \in Threads, BindRefused(t)
    PROVE  IdInv'
  <1>1. Active(t) /\ Top(t).pc \in Binding /\ Still
    BY DEF BindRefused, At, Active, Binding, Still, ext
  <1>2. PICK f : OneOf(t, f) /\ Shows(t, f, f, Null)
    <2>1. CASE \E f, g : TwoOf(t, f, g) /\ Shows(t, g, f, g.client)
      BY <1>1, <2>1 DEF TwoOf, Shows, IsAlbd
    <2> QED BY <1>1, <2>1, Frames1 DEF HandleInv
  <1>3. f \in FrameType /\ IsView(f) /\ f.pc \in Binding /\ Bottom(t) = f /\ Top(t) = f
    BY <1>1, <1>2 DEF OneOf, Shows
  <1>4. stack' = [stack EXCEPT ![t] = AfterBind(t, f, TRUE)]
    BY <1>3, Zenon DEF BindRefused
  <1> QED BY <1>1, <1>3, <1>4, StillAround, ResumedIds

LEMMA BindEndIds ==
    ASSUME HandleInv, IdInv, NEW t \in Threads, BindEnd(t)
    PROVE  IdInv'
  <1>1. PICK f, g : /\ TwoOf(t, f, g) /\ Shows(t, g, f, Null) /\ g.client = Null
                    /\ stack[t][2] = f /\ Tail(stack[t]) = <<f>>
    BY AtEnd DEF BindEnd
  <1>2. f \in FrameType /\ IsView(f) /\ f.pc \in Binding /\ Bottom(t) = f /\ Active(t)
    BY <1>1 DEF TwoOf, Shows
  <1>3. stack' = [stack EXCEPT ![t] = AfterBind(t, f, FALSE)]
    BY <1>1, Zenon DEF BindEnd
  <1>4. Around /\ net' = net
    <2>1. svr'.port = port
      BY DEF BindEnd
    <2> QED BY <2>1 DEF BindEnd, ext, Around, SeenKept, IdInv, NumInv, HandleInv, Shape
  <1> QED BY <1>2, <1>3, <1>4, ResumedIds

LEMMA BindFailIds ==
    ASSUME HandleInv, IdInv, NEW t \in Threads, BindFail(t)
    PROVE  IdInv'
  <1>1. PICK f, g : /\ TwoOf(t, f, g) /\ Shows(t, g, f, Null) /\ g.client = Null
                    /\ stack[t][2] = f /\ Tail(stack[t]) = <<f>>
    BY AtEnd DEF BindFail
  <1>2. /\ f \in FrameType /\ IsView(f) /\ f.pc \in Binding /\ Bottom(t) = f /\ Active(t) /\ Top(t) = g
    BY <1>1 DEF TwoOf, Shows
  <1>3. Still
    BY DEF BindFail, Still, ext
  <1>4. CASE g.op # "albd"
    <2>1. stack' = [stack EXCEPT ![t] = AfterBind(t, f, TRUE)]
      BY <1>1, <1>2, <1>4, Zenon DEF BindFail
    <2> QED BY <1>2, <1>3, <2>1, StillAround, ResumedIds
  <1>5. CASE g.op = "albd"
    <2>1. PICK q : q = Frame("albd70", "get", 0)
      OBVIOUS
    <2>2. Others(t) /\ stack'[t] = <<q, f>>
      <3>1. stack' = [stack EXCEPT ![t] = <<q>> \o Tail(stack[t])]
        BY <1>2, <1>5, <2>1, Zenon DEF BindFail
      <3>2. <<q>> \o Tail(stack[t]) = <<q, f>>
        BY <1>1, Joined, Zenon
      <3>3. stack' = [stack EXCEPT ![t] = <<q, f>>]
        BY <3>1, <3>2, Zenon
      <3> QED BY <3>3, Pushes DEF Stacked, HandleInv
    <2> QED BY <1>2, <1>3, <2>1, <2>2, PushedIds
  <1> QED BY <1>4, <1>5
-----------------------------------------------------------------------------
(* The invariant of the ids.                                                  *)
LEMMA IdInit ==
    ASSUME Init
    PROVE  IdInv
  <1>1. \A t \in Threads : ~Active(t)
    BY DEF Init, Active
  <1>2. NumInv
    <2>1. PICK s : s = <<0, 0, "none">>
      OBVIOUS
    <2>2. s \in SeenType /\ s[2] = 0
      BY <2>1 DEF SeenType
    <2>3. seen = [h \in Handles |-> s] /\ mvfs_xid = 0
      BY <2>1 DEF Init
    <2>4. \A h \in Handles : seen[h] \in SeenType /\ seen[h][2] <= mvfs_xid
      BY <2>2, <2>3
    <2>5. port = 1 /\ svr.port \in {0, 1}
      BY DEF Init
    <2>6. net = {} /\ replies = {} /\ mvfs_boottime = 1 /\ DOMAIN execs = 1 .. MaxCalls
      BY DEF Init
    <2> QED BY <2>3, <2>4, <2>5, <2>6 DEF NumInv
  <1>3. CallInv
    BY <1>1 DEF CallInv, Init
  <1> QED BY <1>1, <1>2, <1>3 DEF IdInv, FrameInv, ThreadOk

LEMMA IdNext ==
    ASSUME HandleInv, IdInv, ~InitFails, NoWrap, [Next]_vars
    PROVE  IdInv'
  <1>1. ASSUME NEW t \in Threads, CallStart(t) \/ Run(t)
        PROVE  IdInv'
    <2>1. CASE CallStart(t)
      BY <2>1, StartIds
    <2>2. CASE GetCached(t) \/ Create(t) \/ CreateFail(t) \/ Insert(t) \/ FreeHandle(t)
      BY <2>2, GetCachedIds, CreateIds, CreateFailIds, InsertIds, FreeIds
    <2>3. CASE AllocXid(t) \/ Send(t) \/ Unbound(t)
      BY <2>3, AllocIds, SendIds, UnboundIds
    <2>4. CASE WrapBoottime(t) \/ WrapXid(t)
      <3>1. Active(t) /\ Top(t).pc \in {"wrap", "wrapped"}
        BY <2>4 DEF WrapBoottime, WrapXid, At, Active
      <3> QED BY <3>1 DEF IdInv, FrameInv
    <2>5. CASE Reply(t) \/ RetryUid(t) \/ Timeout(t) \/ WrongServer(t) \/ GiveUp(t)
      BY <2>5, ReplyIds, RetryUidIds, TimeoutIds, WrongServerIds, GiveUpIds
    <2>6. CASE BindStart(t) \/ BindRefused(t) \/ BindEnd(t) \/ BindFail(t)
      BY <2>6, BindStartIds, BindRefusedIds, BindEndIds, BindFailIds
    <2>7. CASE ReinitFail(t)
      BY <2>7 DEF ReinitFail
    <2> QED BY <1>1, <2>1, <2>2, <2>3, <2>4, <2>5, <2>6, <2>7, Zenon DEF Run
  <1>2. ASSUME NEW n \in CacheSizes, SetCaches(n)
        PROVE  IdInv'
    BY <1>2, StillIds DEF SetCaches, ext
  <1>3. ASSUME NEW m \in net, Deliver(m)
        PROVE  IdInv'
    BY <1>3, DeliverIds
  <1>4. CASE Restart
    BY <1>4, RestartIds
  <1>5. CASE UNCHANGED vars
    BY <1>5, StillIds DEF vars, drv, ext
  <1> QED BY <1>1, <1>2, <1>3, <1>4, <1>5, Zenon DEF Next

(* Only a call that is sent adds a message.                                   *)
LEMMA NetGrows ==
    ASSUME [Next]_vars, NEW m \in net', m \notin net
    PROVE  \E t \in Threads : Send(t)
  <1> SUFFICES ASSUME \A t \in Threads : ~Send(t)
               PROVE  net' \subseteq net
    OBVIOUS
  <1>1. ASSUME NEW t \in Threads, CallStart(t) \/ Run(t)
        PROVE  net' \subseteq net
    <2>1. CASE FreeHandle(t)
      BY <2>1 DEF FreeHandle, Forget
    <2>2. CASE \/ CallStart(t) \/ GetCached(t) \/ Create(t) \/ CreateFail(t) \/ Insert(t)
      BY <2>2 DEF CallStart, GetCached, Create, CreateFail, Insert, ext
    <2>3. CASE \/ AllocXid(t) \/ WrapBoottime(t) \/ WrapXid(t) \/ Unbound(t) \/ Reply(t)
               \/ RetryUid(t) \/ Timeout(t) \/ WrongServer(t) \/ GiveUp(t)
      BY <2>3 DEF AllocXid, WrapBoottime, WrapXid, Unbound, Reply, RetryUid, Timeout, WrongServer, GiveUp, ext
    <2>4. CASE \/ BindStart(t) \/ BindRefused(t) \/ BindEnd(t) \/ BindFail(t) \/ ReinitFail(t)
      BY <2>4 DEF BindStart, BindRefused, BindEnd, BindFail, ReinitFail, ext
    <2> QED BY <1>1, <2>1, <2>2, <2>3, <2>4, Zenon DEF Run
  <1>2. ASSUME NEW n \in CacheSizes, SetCaches(n)
        PROVE  net' \subseteq net
    BY <1>2 DEF SetCaches, ext
  <1>3. ASSUME NEW k \in net, Deliver(k)
        PROVE  net' \subseteq net
    BY <1>3 DEF Deliver
  <1>4. CASE Restart
    BY <1>4 DEF Restart
  <1>5. CASE UNCHANGED vars
    BY <1>5 DEF vars, ext
  <1> QED BY <1>1, <1>2, <1>3, <1>4, <1>5, Zenon DEF Next

THEOREM IdInvariant == ~InitFails => (Spec /\ []NoWrap => []IdInv)
  <1>1. Init => IdInv
    BY IdInit
  <1>2. CASE InitFails
    BY <1>2
  <1>3. CASE ~InitFails
    <2>1. HandleInv /\ IdInv /\ NoWrap /\ [Next]_vars => IdInv'
      BY <1>3, IdNext
    <2>2. Spec => []HandleInv
      BY <1>3, HandleInvariant
    <2>3. Spec /\ []NoWrap => []IdInv
      BY <1>1, <2>1, <2>2, PTL DEF Spec
    <2> QED BY <2>3
  <1> QED BY <1>2, <1>3

(* From one restart to the next the view server executes a call at most       *)
(* once, however often mvfs_vwcall sends it: a retry after a rebind is the    *)
(* same transaction, and only a call that was denied gets a new one.          *)
ExecutedOnce == \A c \in 1 .. MaxCalls : execs[c] <= 1
THEOREM CallsOnce == ~InitFails => (Spec /\ []NoWrap => []ExecutedOnce /\ AtMostOnce)
  <1>1. IdInv => ExecutedOnce
    BY DEF IdInv, CallInv, ExecutedOnce
  <1>2. IdInv /\ IdInv' => [\A c \in 1 .. MaxCalls :
           execs[c] > 0 /\ execs'[c] > execs[c] => \E m \in net : m.call = c /\ m.h \in torn]_vars
    <2> SUFFICES ASSUME IdInv, IdInv', NEW c \in 1 .. MaxCalls, execs[c] > 0, execs'[c] > execs[c]
                 PROVE  FALSE
      OBVIOUS
    <2>1. execs[c] \in {0, 1} /\ execs'[c] \in {0, 1}
      BY DEF IdInv, CallInv
    <2> QED BY <2>1
  <1> QED BY <1>1, <1>2, IdInvariant, PTL DEF AtMostOnce
-----------------------------------------------------------------------------
(* The order of the ids, through wraps of the counter.                        *)
Will == {"call", "again", "wait", "rebind"}
InWindow == \E u \in Threads : At(u, "wrap")
(* What was sent on handle h, with s the last the server saw from it, is not  *)
(* newer than id x of the round with boot time b.                             *)
Covers(s, N, h, b, x) ==
    ~Before(<<b, x>>, s) /\ \A m \in N : m.h = h => ~Before(<<b, x>>, <<m.bt, m.xid>>)

NumTyped ==
    /\ DOMAIN seen = Handles
    /\ \A h \in Handles : seen[h][1] \in Nat /\ seen[h][2] \in Nat /\ seen[h][1] <= mvfs_boottime
    /\ \A m \in net : m.h \in Handles /\ m.bt \in Nat /\ m.xid \in Nat /\ m.bt <= mvfs_boottime
NetOwned == \A m \in net : \E t \in Threads : Active(t) /\ Of(t) = m.h
(* Outside the window of a wrap the counter is ahead of what was sent on a    *)
(* handle that is not torn, and a call that may send is ahead of it too.      *)
Settled == ~InWindow =>
    \A h \in Handles : h \notin torn => Covers(seen[h], net, h, mvfs_boottime, mvfs_xid)
Pending(t) == Active(t) /\ Bottom(t).pc \in Will /\ Of(t) \notin torn =>
    /\ Covers(seen[Of(t)], net, Of(t), mvfs_boottime, Bottom(t).xid)
    /\ ~InWindow => Bottom(t).xid <= mvfs_xid
OrderInv == NumTyped /\ NetOwned /\ Settled /\ \A t \in Threads : Pending(t)

LEMMA CoversFewer ==
    ASSUME NEW s, NEW N, NEW M, M \subseteq N, NEW h, NEW b, NEW x, Covers(s, N, h, b, x)
    PROVE  Covers(s, M, h, b, x)
  BY DEF Covers

LEMMA CoversLater ==
    ASSUME NumTyped, mvfs_boottime \in Nat, NEW h \in Handles, NEW x \in Nat, NEW y \in Nat, x <= y,
           Covers(seen[h], net, h, mvfs_boottime, x)
    PROVE  Covers(seen[h], net, h, mvfs_boottime, y)
  BY DEF NumTyped, Covers, Before

(* A step of a call that neither takes an id nor sends.                       *)
ServerSteady ==
    /\ mvfs_boottime' = mvfs_boottime /\ mvfs_xid' = mvfs_xid /\ net' \subseteq net
    /\ DOMAIN seen' = Handles
    /\ \A h \in Handles :
          \/ seen'[h] = seen[h] /\ (h \in torn' <=> h \in torn)
          \/ ~Held(h) /\ seen'[h] = <<0, 0, "none">>
Continues(t) ==
    /\ At(t, "wrap")' <=> At(t, "wrap")
    /\ \A m \in net' : m.h = Of(t) => Active(t)' /\ Of(t)' = Of(t)
    /\ Active(t)' /\ Bottom(t)'.pc \in Will =>
          Active(t) /\ Bottom(t).pc \in Will /\ Bottom(t)'.xid = Bottom(t).xid /\ Of(t)' = Of(t)

LEMMA WillHas ==
    ASSUME Shape, NEW t \in Threads, Active(t), Bottom(t).pc \in Will
    PROVE  Of(t) \in Handles /\ Has(t, Of(t)) /\ Bottom(t).xid \in Nat
  <1>1. Sends(Bottom(t))
    BY DEF Sends, Sent, Will
  <1> QED BY <1>1, Bottoms DEF Has, FrameType

LEMMA TypedSteady ==
    ASSUME Shape, NumTyped, ServerSteady
    PROVE  NumTyped'
  <1>1. mvfs_boottime \in Nat
    BY DEF Shape
  <1>2. PICK z : z = <<0, 0, "none">>
    OBVIOUS
  <1>3. z[1] = 0 /\ z[2] = 0
    BY <1>2
  <1>4. \A h \in Handles : seen'[h] = seen[h] \/ seen'[h] = z
    BY <1>2 DEF ServerSteady
  <1> HIDE <1>2
  <1>5. \A h \in Handles : seen'[h][1] \in Nat /\ seen'[h][2] \in Nat /\ seen'[h][1] <= mvfs_boottime
    BY <1>1, <1>3, <1>4 DEF NumTyped
  <1> QED BY <1>5 DEF NumTyped, ServerSteady

LEMMA OwnedSteady ==
    ASSUME NetOwned, NEW t \in Threads, Others(t), net' \subseteq net, Continues(t)
    PROVE  NetOwned'
  <1> SUFFICES ASSUME NEW m \in net'
               PROVE  \E u \in Threads : Active(u)' /\ Of(u)' = m.h
    BY DEF NetOwned
  <1>1. PICK u \in Threads : Active(u) /\ Of(u) = m.h
    BY DEF NetOwned
  <1>2. CASE u = t
    BY <1>1, <1>2 DEF Continues
  <1>3. CASE u # t
    BY <1>1, <1>3, OthersKept DEF Kept
  <1> QED BY <1>2, <1>3

LEMMA CoversSteady ==
    ASSUME Shape, OrderInv, ServerSteady, NEW h \in Handles, h \notin torn', NEW x \in Nat,
           h \notin torn => Covers(seen[h], net, h, mvfs_boottime, x)
    PROVE  Covers(seen'[h], net', h, mvfs_boottime', x)
  <1>1. mvfs_boottime \in Nat
    BY DEF Shape
  <1>2. CASE seen'[h] = seen[h] /\ (h \in torn' <=> h \in torn)
    BY <1>2, CoversFewer DEF ServerSteady
  <1>3. CASE ~Held(h) /\ seen'[h] = <<0, 0, "none">>
    <2>1. PICK z : z = seen'[h]
      OBVIOUS
    <2>2. z[1] = 0 /\ z[2] = 0
      BY <1>3, <2>1
    <2>3. PICK b : b = mvfs_boottime
      OBVIOUS
    <2>4. ~Before(<<b, x>>, z)
      BY <1>1, <2>2, <2>3 DEF Before
    <2>5. \A m \in net' : m.h # h
      BY <1>3 DEF ServerSteady, OrderInv, NetOwned, Held, Has
    <2>6. Covers(z, net', h, b, x)
      BY <2>4, <2>5 DEF Covers
    <2> QED BY <2>1, <2>3, <2>6 DEF ServerSteady
  <1> QED BY <1>2, <1>3 DEF ServerSteady

LEMMA WindowSteady ==
    ASSUME NEW t \in Threads, Others(t), At(t, "wrap")' <=> At(t, "wrap")
    PROVE  InWindow' <=> InWindow
  BY OthersKept DEF InWindow, Kept

LEMMA Steady ==
    ASSUME HandleInv, OrderInv, NEW t \in Threads, Others(t), ServerSteady, Continues(t)
    PROVE  OrderInv'
  <1>1. NumTyped' /\ NetOwned'
    BY TypedSteady, OwnedSteady DEF HandleInv, OrderInv, ServerSteady
  <1>2. InWindow' <=> InWindow
    BY WindowSteady DEF Continues
  <1>3. mvfs_xid \in Nat /\ mvfs_xid' = mvfs_xid
    BY DEF HandleInv, Shape, ServerSteady
  <1>4. Settled'
    <2> SUFFICES ASSUME ~InWindow, NEW h \in Handles, h \notin torn'
                 PROVE  Covers(seen'[h], net', h, mvfs_boottime', mvfs_xid)
      BY <1>2, <1>3 DEF Settled
    <2>1. h \notin torn => Covers(seen[h], net, h, mvfs_boottime, mvfs_xid)
      BY DEF OrderInv, Settled
    <2> QED BY <1>3, <2>1, CoversSteady DEF HandleInv
  <1>5. \A u \in Threads : Pending(u)'
    <2> SUFFICES ASSUME NEW u \in Threads, Active(u)', Bottom(u)'.pc \in Will, Of(u)' \notin torn'
                 PROVE  /\ Covers(seen'[Of(u)'], net', Of(u)', mvfs_boottime', Bottom(u)'.xid)
                        /\ ~InWindow' => Bottom(u)'.xid <= mvfs_xid'
      BY DEF Pending
    <2>1. Active(u) /\ Bottom(u).pc \in Will /\ Bottom(u)'.xid = Bottom(u).xid /\ Of(u)' = Of(u)
      <3>1. CASE u = t
        BY <3>1 DEF Continues
      <3>2. CASE u # t
        BY <3>2, OthersKept DEF Kept
      <3> QED BY <3>1, <3>2
    <2>2. Of(u) \in Handles /\ Has(u, Of(u)) /\ Bottom(u).xid \in Nat
      BY <2>1, WillHas DEF HandleInv
    <2>3. Of(u) \notin torn
      <3>1. Held(Of(u))
        BY <2>2 DEF Held
      <3> QED BY <2>1, <2>2, <3>1 DEF ServerSteady
    <2>4. /\ Covers(seen[Of(u)], net, Of(u), mvfs_boottime, Bottom(u).xid)
          /\ ~InWindow => Bottom(u).xid <= mvfs_xid
      BY <2>1, <2>3 DEF OrderInv, Pending
    <2>5. PICK h, x : h = Of(u) /\ x = Bottom(u).xid
      OBVIOUS
    <2>6. Covers(seen'[h], net', h, mvfs_boottime', x)
      BY <2>1, <2>2, <2>4, <2>5, CoversSteady DEF HandleInv
    <2> QED BY <1>2, <1>3, <2>1, <2>4, <2>5, <2>6
  <1> QED BY <1>1, <1>4, <1>5 DEF OrderInv

(* The same for a step that replaces the frame on top.                        *)
Turns(p, q) ==
    /\ p.pc # "wrap" /\ q.pc # "wrap"
    /\ p.op = "view" => /\ q.client = p.client \/ p.client = Null
                        /\ q.pc \in Will => p.pc \in Will /\ q.xid = p.xid /\ q.client = p.client

LEMMA Turned ==
    ASSUME HandleInv, OrderInv, NEW t \in Threads, Active(t), NEW q, SetTop(t, q), ServerSteady,
           Turns(Top(t), q)
    PROVE  OrderInv'
  <1>1. PICK p : Replaced(t, p, q)
    BY SetTopped DEF HandleInv
  <1>2. Others(t) /\ Top(t) = p /\ Active(t)' /\ ~At(t, "wrap") /\ ~At(t, "wrap")'
    BY <1>1 DEF Replaced, Turns
  <1>3. \A m \in net' : m.h # Null
    BY RpcAssumption DEF OrderInv, NumTyped, ServerSteady
  <1>4. CASE /\ OneOf(t, p) /\ Bottom(t) = p /\ Bottom(t)' = q /\ Of(t) = p.client /\ Of(t)' = q.client
    <2>1. p.op = "view"
      BY <1>4 DEF OneOf, IsView
    <2>2. Continues(t)
      BY <1>2, <1>3, <1>4, <2>1 DEF Continues, Turns
    <2> QED BY <1>2, <2>2, Steady
  <1>5. CASE \E f : /\ TwoOf(t, f, p) /\ Bottom(t) = f /\ Bottom(t)' = f /\ Of(t) = f.client /\ Of(t)' = f.client
    <2>1. Continues(t)
      BY <1>2, <1>5 DEF Continues, Replaced
    <2> QED BY <1>2, <2>1, Steady
  <1> QED BY <1>1, <1>4, <1>5, Zenon DEF Replaced

LEMMA StillSteady ==
    ASSUME OrderInv, Still, torn' = torn
    PROVE  ServerSteady
  BY DEF Still, ServerSteady, OrderInv, NumTyped

LEMMA PcTurns ==
    ASSUME NEW p \in FrameType, NEW l \in {"xid", "free", "rebind", "wait"}, NEW q,
           \/ q = [p EXCEPT !.pc = l]
           \/ q = [p EXCEPT !.pc = l, !.err = TRUE]
           \/ q = [p EXCEPT !.pc = l, !.ruid = TRUE]
           \/ \E n : q = [p EXCEPT !.pc = l, !.bt = n],
           p.pc # "wrap", p.op = "view" => (l \in Will => p.pc \in Will)
    PROVE  Turns(p, q)
  BY DEF Turns, FrameType

LEMMA PcOrder ==
    ASSUME HandleInv, OrderInv, NEW t \in Threads, NEW k \in Will \cup {"insert"}, At(t, k),
           Still, torn' = torn, NEW l \in {"xid", "free", "rebind"}, l = "rebind" => k \in Will,
           \/ Goto(t, l) \/ Fail(t, l) \/ SetTop(t, [Top(t) EXCEPT !.pc = l, !.ruid = TRUE])
    PROVE  OrderInv'
  <1>1. Active(t) /\ Top(t).pc = k
    BY DEF At, Active
  <1>2. Top(t) \in FrameType
    BY <1>1, TopFits DEF HandleInv
  <1>3. PICK q : /\ SetTop(t, q)
                 /\ \/ q = [Top(t) EXCEPT !.pc = l]
                    \/ q = [Top(t) EXCEPT !.pc = l, !.err = TRUE]
                    \/ q = [Top(t) EXCEPT !.pc = l, !.ruid = TRUE]
    BY Zenon DEF Goto, Fail
  <1>4. PICK p : p = Top(t)
    OBVIOUS
  <1>5. p.pc # "wrap" /\ (l \in Will => p.pc \in Will)
    BY <1>1, <1>4 DEF Will
  <1>6. Turns(p, q)
    BY <1>2, <1>3, <1>4, <1>5, PcTurns
  <1> QED BY <1>1, <1>3, <1>4, <1>6, StillSteady, Turned

LEMMA AgainOrder ==
    ASSUME HandleInv, OrderInv, NEW t \in Threads, NEW k \in {"call", "again", "wait"}, At(t, k), Still,
           torn' = torn, Again(t)
    PROVE  OrderInv'
  <1>1. k \in Will
    BY DEF Will
  <1>2. CASE Top(t).rebind
    <2>1. Goto(t, "rebind")
      BY <1>2, Zenon DEF Again
    <2> QED BY <1>1, <2>1, PcOrder
  <1>3. CASE ~Top(t).rebind
    <2>1. Fail(t, "free")
      BY <1>3, Zenon DEF Again
    <2> QED BY <1>1, <2>1, PcOrder
  <1> QED BY <1>2, <1>3

(* A call waits, is answered, or is not.                                      *)
LEMMA WaitOrder ==
    ASSUME HandleInv, OrderInv, ~InitFails, NEW t \in Threads,
           \/ Insert(t) \/ Unbound(t) \/ Reply(t) \/ RetryUid(t) \/ Timeout(t)
           \/ WrongServer(t) \/ GiveUp(t)
    PROVE  OrderInv'
  <1>1. "xid" \notin Will /\ "free" \notin Will
    BY DEF Will
  <1>2. CASE Insert(t)
    <2>1. At(t, "insert") /\ Still /\ torn' = torn /\ Goto(t, "xid")
      BY <1>2 DEF Insert, Still, ext
    <2> QED BY <2>1, PcOrder DEF Will
  <1>3. CASE Unbound(t)
    <2>1. (At(t, "call") \/ At(t, "again")) /\ Still /\ torn' = torn /\ Again(t)
      BY <1>3 DEF Unbound, Still, ext
    <2> QED BY <2>1, AgainOrder
  <1>4. CASE Reply(t)
    <2>1. At(t, "wait") /\ Still /\ torn' = torn /\ Goto(t, "free")
      BY <1>4 DEF Reply, Still, ext
    <2> QED BY <2>1, PcOrder DEF Will
  <1>5. CASE RetryUid(t)
    <2>1. /\ At(t, "wait") /\ Still /\ torn' = torn
          /\ SetTop(t, [Top(t) EXCEPT !.pc = "xid", !.ruid = TRUE])
      BY <1>5 DEF RetryUid, Still, ext
    <2> QED BY <2>1, PcOrder DEF Will
  <1>6. CASE Timeout(t)
    <2>1. At(t, "wait") /\ Still /\ torn' = torn /\ (Again(t) \/ Goto(t, "xid"))
      BY <1>6 DEF Timeout, Still, ext
    <2> QED BY <2>1, AgainOrder, PcOrder DEF Will
  <1>7. CASE WrongServer(t)
    <2>1. At(t, "wait") /\ Still /\ torn' = torn /\ Again(t)
      BY <1>7 DEF WrongServer, Still, ext
    <2> QED BY <2>1, AgainOrder
  <1>8. CASE GiveUp(t)
    <2>1. At(t, "wait") /\ Still /\ torn' = torn /\ Fail(t, "free")
      BY <1>8 DEF GiveUp, Still, ext
    <2> QED BY <2>1, PcOrder DEF Will
  <1> QED BY <1>2, <1>3, <1>4, <1>5, <1>6, <1>7, <1>8

(* A call gets its handle.                                                    *)
LEMMA HandleOrder ==
    ASSUME HandleInv, OrderInv, ~InitFails, NEW t \in Threads, GetCached(t) \/ Create(t)
    PROVE  OrderInv'
  <1>1. Active(t) /\ Top(t).pc = "get"
    BY DEF GetCached, Create, At, Active
  <1>2. PICK p : p = Top(t)
    OBVIOUS
  <1>3. p \in FrameType /\ p.pc = "get" /\ (IsView(p) \/ IsAlbd(p))
    BY <1>1, <1>2, TopFits DEF HandleInv
  <1>4. p.client = Null
    BY <1>3 DEF IsView, IsAlbd, Carrying, Binding
  <1>5. \A l \in {"xid", "insert"} : \A h : \A q : q = Given(p, l, h) => Turns(p, q)
    BY <1>3, <1>4 DEF Given, FrameType, Turns, Will
  <1>6. CASE GetCached(t)
    <2>1. PICK i \in Cached(t) : SetTop(t, [Top(t) EXCEPT !.pc = "xid", !.client = cache[i].client])
      BY <1>6, Zenon DEF GetCached
    <2>2. PICK h, q : h = cache[i].client /\ q = Given(p, "xid", h)
      OBVIOUS
    <2>3. SetTop(t, q) /\ Turns(p, q)
      BY <1>2, <1>5, <2>1, <2>2, Zenon DEF Given
    <2>4. Still /\ torn' = torn
      BY <1>6 DEF GetCached, Still, ext
    <2> QED BY <1>1, <1>2, <2>3, <2>4, StillSteady, Turned
  <1>7. CASE Create(t)
    <2>1. PICK h : h = CHOOSE g \in Handles : g \notin live
      OBVIOUS
    <2>2. h \in Handles /\ h \notin live
      BY <1>7, <2>1 DEF Create, HandleInv, Shape
    <2>3. PICK q : q = Given(p, "insert", h)
      OBVIOUS
    <2>4. /\ SetTop(t, q) /\ seen' = [seen EXCEPT ![h] = <<0, 0, "none">>]
          /\ torn' = torn \ {h}
      BY <1>2, <1>7, <2>1, <2>3, Zenon DEF Create, Given
    <2>5. ~Held(h)
      BY <2>2 DEF HandleInv, OwnInv, HeldLive, Held
    <2>6. ServerSteady
      BY <1>7, <2>2, <2>4, <2>5 DEF Create, ServerSteady, OrderInv, NumTyped
    <2>7. Turns(p, q)
      BY <1>5, <2>3
    <2> QED BY <1>1, <1>2, <2>4, <2>6, <2>7, Turned
  <1> QED BY <1>6, <1>7

(* A call returns.                                                            *)
LEMMA ReturnOrder ==
    ASSUME HandleInv, OrderInv, NEW t \in Threads, Active(t), NEW err, Return(t, err), ServerSteady,
           Top(t).pc # "wrap", \A m \in net' : m.h # Top(t).client
    PROVE  OrderInv'
  <1>1. CASE Top(t).op = "view" /\ Others(t) /\ ~Active(t)' /\ Of(t) = Top(t).client
    <2>1. ~At(t, "wrap") /\ ~At(t, "wrap")'
      BY <1>1 DEF At, Active
    <2>2. Continues(t)
      BY <1>1, <2>1 DEF Continues
    <2> QED BY <1>1, <2>2, Steady
  <1>2. CASE Top(t).op # "view" /\ \E q : SetTop(t, q) /\ q.pc = "end" /\ q.xid = Top(t).xid
    BY <1>2, Turned DEF Turns
  <1> QED BY <1>1, <1>2, ReturnTop

LEMMA EndOrder ==
    ASSUME HandleInv, OrderInv, NEW t \in Threads, CreateFail(t) \/ FreeHandle(t)
    PROVE  OrderInv'
  <1>1. CASE CreateFail(t)
    <2>1. Active(t) /\ Top(t).pc = "get" /\ Return(t, TRUE) /\ Still /\ torn' = torn
      BY <1>1 DEF CreateFail, At, Active, Still, ext
    <2>2. Top(t).client = Null
      BY <2>1, TopFits DEF HandleInv, IsView, IsAlbd, Carrying
    <2>3. net' = net /\ \A m \in net : m.h # Null
      BY <2>1, RpcAssumption DEF Still, OrderInv, NumTyped
    <2> QED BY <2>1, <2>2, <2>3, StillSteady, ReturnOrder
  <1>2. CASE FreeHandle(t)
    <2>1. Active(t) /\ Top(t).pc = "free" /\ Return(t, Top(t).err)
      BY <1>2 DEF FreeHandle, At, Active
    <2>2. net' = {m \in net : m.h # Top(t).client}
      BY <1>2, Zenon DEF FreeHandle, Forget
    <2>3. ServerSteady
      BY <1>2, <2>2 DEF FreeHandle, ServerSteady, OrderInv, NumTyped
    <2> QED BY <2>1, <2>2, <2>3, ReturnOrder
  <1> QED BY <1>1, <1>2

(* Calls to the albd begin and end.                                           *)
LEMMA ResumeOrder ==
    ASSUME HandleInv, OrderInv, NEW t \in Threads, Active(t), NEW f \in FrameType, IsView(f), f.pc \in Binding,
           NEW err \in BOOLEAN, Bottom(t) = f, stack' = [stack EXCEPT ![t] = AfterBind(t, f, err)],
           ~At(t, "wrap"), ServerSteady
    PROVE  OrderInv'
  <1>1. PICK s : s = AfterBind(t, f, err)
    OBVIOUS
  <1>2. stack' = [stack EXCEPT ![t] = s]
    BY <1>1, Zenon
  <1>3. Others(t) /\ stack'[t] = s
    BY <1>2, Pushes DEF Stacked, HandleInv
  <1>4. \/ s = <<>> /\ f.client = Null
        \/ \E q : s = <<q>> /\ Resumes(t, f, q)
    BY <1>1, AfterBindResumes
  <1>5. Of(t) = f.client /\ \A m \in net' : m.h # Null
    BY RpcAssumption DEF Of, Active, OrderInv, NumTyped, ServerSteady
  <1>6. CASE s = <<>> /\ f.client = Null
    <2>1. ~Active(t)' /\ ~At(t, "wrap")'
      BY <1>3, <1>6, NoFrameNext
    <2>2. Continues(t)
      BY <1>5, <1>6, <2>1 DEF Continues
    <2> QED BY <1>3, <2>2, Steady
  <1>7. CASE \E q : s = <<q>> /\ Resumes(t, f, q)
    <2>1. PICK q : s = <<q>> /\ Resumes(t, f, q)
      BY <1>7
    <2>2. Shows(t, q, q, Null)'
      BY <1>3, <2>1, OneFrameNext
    <2>3. q.pc \in Will => f.pc \in Will
      BY <2>1 DEF Resumes, Alike, Sends, Sent, Will, Binding
    <2>4. Continues(t)
      BY <1>5, <2>1, <2>2, <2>3 DEF Shows, Continues, Resumes, Alike
    <2> QED BY <1>3, <2>4, Steady
  <1> QED BY <1>4, <1>6, <1>7

LEMMA PushOrder ==
    ASSUME HandleInv, OrderInv, NEW t \in Threads, Active(t), ~At(t, "wrap"), NEW f, Bottom(t) = f,
           NEW o, NEW q, q = Frame(o, "get", 0), Others(t), stack'[t] = <<q, f>>, Still, torn' = torn
    PROVE  OrderInv'
  <1>1. q.pc = "get"
    BY DEF Frame
  <1>2. Shows(t, q, f, q.client)'
    BY TwoFramesNext
  <1>3. Of(t) = f.client
    BY DEF Of, Active
  <1>4. Continues(t)
    BY <1>1, <1>2, <1>3 DEF Shows, Continues
  <1> QED BY <1>4, StillSteady, Steady

LEMMA BindOrder ==
    ASSUME HandleInv, OrderInv, NEW t \in Threads, BindStart(t) \/ BindRefused(t)
    PROVE  OrderInv'
  <1>1. Active(t) /\ Top(t).pc \in Binding /\ Still /\ torn' = torn
    BY DEF BindStart, BindRefused, At, Active, Binding, Still, ext
  <1>2. PICK f : OneOf(t, f) /\ Shows(t, f, f, Null)
    <2>1. CASE \E f, g : TwoOf(t, f, g) /\ Shows(t, g, f, g.client)
      BY <1>1, <2>1 DEF TwoOf, Shows, IsAlbd
    <2> QED BY <1>1, <2>1, Frames1 DEF HandleInv
  <1>3. f \in FrameType /\ IsView(f) /\ f.pc \in Binding /\ Bottom(t) = f /\ Top(t) = f /\ ~At(t, "wrap")
    BY <1>1, <1>2 DEF OneOf, Shows, Binding
  <1>4. CASE BindRefused(t)
    <2>1. stack' = [stack EXCEPT ![t] = AfterBind(t, f, TRUE)]
      BY <1>3, <1>4, Zenon DEF BindRefused
    <2> QED BY <1>1, <1>3, <2>1, StillSteady, ResumeOrder
  <1>5. CASE BindStart(t)
    <2>1. PICK q : q = Frame("albd", "get", 0)
      OBVIOUS
    <2>2. stack' = [stack EXCEPT ![t] = <<q>> \o stack[t]]
      BY <1>5, <2>1, Zenon DEF BindStart
    <2>3. <<q>> \o stack[t] = <<q, f>>
      BY <1>2, Joined, Zenon DEF OneOf
    <2>4. stack' = [stack EXCEPT ![t] = <<q, f>>]
      BY <2>2, <2>3, Zenon
    <2>5. Others(t) /\ stack'[t] = <<q, f>>
      BY <2>4, Pushes DEF Stacked, HandleInv
    <2> QED BY <1>1, <1>3, <2>1, <2>5, PushOrder
  <1> QED BY <1>4, <1>5

LEMMA BoundOrder ==
    ASSUME HandleInv, OrderInv, NEW t \in Threads, BindEnd(t) \/ BindFail(t)
    PROVE  OrderInv'
  <1>1. PICK f, g : /\ TwoOf(t, f, g) /\ Shows(t, g, f, Null) /\ g.client = Null
                    /\ stack[t][2] = f /\ Tail(stack[t]) = <<f>>
    BY AtEnd DEF BindEnd, BindFail
  <1>2. f \in FrameType /\ IsView(f) /\ f.pc \in Binding /\ Bottom(t) = f /\ Active(t) /\ Top(t) = g
    BY <1>1 DEF TwoOf, Shows
  <1>3. ~At(t, "wrap")
    BY DEF BindEnd, BindFail, At
  <1>4. ServerSteady
    BY DEF BindEnd, BindFail, ext, ServerSteady, OrderInv, NumTyped
  <1>5. CASE BindEnd(t)
    <2>1. stack' = [stack EXCEPT ![t] = AfterBind(t, f, FALSE)]
      BY <1>1, <1>5, Zenon DEF BindEnd
    <2> QED BY <1>2, <1>3, <1>4, <2>1, ResumeOrder
  <1>6. CASE BindFail(t) /\ g.op # "albd"
    <2>1. stack' = [stack EXCEPT ![t] = AfterBind(t, f, TRUE)]
      BY <1>1, <1>2, <1>6, Zenon DEF BindFail
    <2> QED BY <1>2, <1>3, <1>4, <2>1, ResumeOrder
  <1>7. CASE BindFail(t) /\ g.op = "albd"
    <2>1. PICK q : q = Frame("albd70", "get", 0)
      OBVIOUS
    <2>2. stack' = [stack EXCEPT ![t] = <<q>> \o Tail(stack[t])]
      BY <1>2, <1>7, <2>1, Zenon DEF BindFail
    <2>3. <<q>> \o Tail(stack[t]) = <<q, f>>
      BY <1>1, Joined, Zenon
    <2>4. stack' = [stack EXCEPT ![t] = <<q, f>>]
      BY <2>2, <2>3, Zenon
    <2>5. Others(t) /\ stack'[t] = <<q, f>>
      BY <2>4, Pushes DEF Stacked, HandleInv
    <2>6. Still /\ torn' = torn
      BY <1>7 DEF BindFail, Still, ext
    <2> QED BY <1>2, <1>3, <2>1, <2>5, <2>6, PushOrder
  <1> QED BY <1>5, <1>6, <1>7

LEMMA StartOrder ==
    ASSUME HandleInv, OrderInv, NEW t \in Threads, CallStart(t)
    PROVE  OrderInv'
  <1>1. stack[t] = <<>> /\ torn' = torn
    BY DEF CallStart
  <1>2. PICK l \in {"get", "probe"} : stack' = [stack EXCEPT ![t] = <<Frame("view", l, calls + 1)>>]
    BY Zenon DEF CallStart
  <1>3. PICK f : f = Frame("view", l, calls + 1)
    OBVIOUS
  <1>4. f.pc = l
    BY <1>3 DEF Frame
  <1>5. Others(t) /\ stack'[t] = <<f>>
    BY <1>2, <1>3, Pushes DEF Stacked, HandleInv
  <1>6. Shows(t, f, f, Null)' /\ ~At(t, "wrap") /\ Of(t) = Null
    BY <1>1, <1>5, OneFrameNext, NoFrame
  <1>7. ServerSteady /\ net' = net
    BY <1>1 DEF CallStart, ext, ServerSteady, OrderInv, NumTyped
  <1>8. \A m \in net : m.h # Null
    BY RpcAssumption DEF OrderInv, NumTyped
  <1>9. Continues(t)
    BY <1>4, <1>6, <1>7, <1>8 DEF Shows, Continues, Will
  <1> QED BY <1>5, <1>7, <1>9, Steady
-----------------------------------------------------------------------------
(* Taking an id, and the wrap of the counter.                                 *)
LEMMA Updated ==
    \A p \in FrameType : \A x \in Nat :
        \E q : q = [p EXCEPT !.pc = "call", !.xid = x] /\ q.pc = "call" /\ q.xid = x /\ q.client = p.client
  <1> SUFFICES ASSUME NEW p \in FrameType, NEW x \in Nat
               PROVE  \E q : q = [p EXCEPT !.pc = "call", !.xid = x]
                              /\ q.pc = "call" /\ q.xid = x /\ q.client = p.client
    OBVIOUS
  <1>1. PICK q : q = [p EXCEPT !.pc = "call", !.xid = x]
    OBVIOUS
  <1>2. q.pc = "call" /\ q.xid = x /\ q.client = p.client
    BY <1>1 DEF FrameType
  <1> QED BY <1>1, <1>2, Zenon

LEMMA IdTyped ==
    ASSUME HandleInv
    PROVE  Shape /\ mvfs_xid + 1 \in Nat
  BY DEF HandleInv, Shape

LEMMA TakenFrame ==
    ASSUME HandleInv, NEW t \in Threads, Active(t),
           SetTop(t, [Top(t) EXCEPT !.pc = "call", !.xid = mvfs_xid + 1])
    PROVE  \E q : SetTop(t, q) /\ q.pc = "call" /\ q.xid = mvfs_xid + 1 /\ q.client = Top(t).client
  <1>1. PICK x, p : x = mvfs_xid + 1 /\ p = Top(t)
    OBVIOUS
  <1>2. SetTop(t, [p EXCEPT !.pc = "call", !.xid = x])
    BY <1>1, Zenon
  <1>3. x \in Nat /\ p \in FrameType
    BY <1>1, TopFits, IdTyped
  <1>4. \E q : q = [p EXCEPT !.pc = "call", !.xid = x] /\ q.pc = "call" /\ q.xid = x /\ q.client = p.client
    BY <1>3, Updated
  <1> QED BY <1>1, <1>2, <1>4, Zenon

LEMMA TakenOrder ==
    ASSUME HandleInv, OrderInv, NEW t \in Threads, Active(t), Top(t).pc \in {"xid", "wrapped"},
           NEW q, SetTop(t, q), q.pc = "call", q.xid = mvfs_xid + 1, q.client = Top(t).client,
           mvfs_xid' = mvfs_xid + 1, torn' = TornAlloc(t),
           mvfs_boottime' = mvfs_boottime, net' = net, seen' = seen
    PROVE  OrderInv'
  <1>1. PICK p : Replaced(t, p, q)
    BY SetTopped DEF HandleInv
  <1>2. Shape /\ mvfs_xid \in Nat /\ mvfs_boottime \in Nat
    BY Zenon DEF HandleInv, Shape
  <1>3. p = Top(t)
    BY <1>1, Zenon DEF Replaced
  <1>4. Top(t) \in FrameType
    BY <1>2, TopFits, Zenon
  <1>5. q.pc = "call" /\ q.xid = mvfs_xid + 1 /\ q.client = p.client
    BY <1>3
  <1>6. Others(t) /\ Active(t)' /\ ~At(t, "wrap") /\ ~At(t, "wrap")'
    BY <1>1, <1>5, <1>3 DEF Replaced
  <1>7. \A u \in Threads : u # t => Kept(u)
    BY <1>6, OthersKept
  <1>8. /\ InWindow' <=> InWindow
        /\ InWindow <=> Wrapping(Threads \ {t})
    BY <1>6, <1>7 DEF InWindow, Wrapping, Kept
  <1>9. torn \subseteq torn' /\ (~InWindow => torn' = torn) /\ (InWindow => p.client \in torn')
    BY <1>8, <1>3 DEF TornAlloc
  <1>10. NumTyped'
    BY DEF OrderInv, NumTyped
  <1>11. Of(t)' = Of(t)
    <2>1. p.op = "view" \/ p.op # "view"
      OBVIOUS
    <2> QED BY <1>1, <1>5 DEF Replaced
  <1>12. NetOwned'
    <2> SUFFICES ASSUME NEW m \in net
                 PROVE  \E u \in Threads : Active(u)' /\ Of(u)' = m.h
      BY DEF NetOwned
    <2>1. PICK u \in Threads : Active(u) /\ Of(u) = m.h
      BY DEF OrderInv, NetOwned
    <2> QED BY <1>6, <1>7, <1>11, <2>1 DEF Kept
  <1>13. \A h \in Handles : \A x \in Nat :
            Covers(seen'[h], net', h, mvfs_boottime', x) <=> Covers(seen[h], net, h, mvfs_boottime, x)
    OBVIOUS
  <1>14. ~InWindow => \A h \in Handles : h \notin torn =>
            Covers(seen[h], net, h, mvfs_boottime, mvfs_xid + 1)
    <2> SUFFICES ASSUME ~InWindow, NEW h \in Handles, h \notin torn
                 PROVE  Covers(seen[h], net, h, mvfs_boottime, mvfs_xid + 1)
      OBVIOUS
    <2>1. Covers(seen[h], net, h, mvfs_boottime, mvfs_xid)
      BY DEF OrderInv, Settled
    <2>2. PICK y : y = mvfs_xid + 1
      OBVIOUS
    <2>3. y \in Nat /\ mvfs_xid <= y
      BY <1>2, <2>2
    <2>4. Covers(seen[h], net, h, mvfs_boottime, y)
      BY <1>2, <2>1, <2>3, CoversLater, Zenon DEF OrderInv
    <2> QED BY <2>2, <2>4, Zenon
  <1>15. Settled'
    BY <1>2, <1>8, <1>9, <1>13, <1>14 DEF Settled
  <1>16. ASSUME NEW u \in Threads, Active(u)', Bottom(u)'.pc \in Will, Of(u)' \notin torn',
                Active(u), Bottom(u)' = Bottom(u), Of(u)' = Of(u)
         PROVE  /\ Covers(seen'[Of(u)'], net', Of(u)', mvfs_boottime', Bottom(u)'.xid)
                /\ ~InWindow' => Bottom(u)'.xid <= mvfs_xid'
    <2>1. Of(u) \in Handles /\ Bottom(u).xid \in Nat
      BY <1>16, WillHas DEF HandleInv
    <2>2. /\ Covers(seen[Of(u)], net, Of(u), mvfs_boottime, Bottom(u).xid)
          /\ ~InWindow => Bottom(u).xid <= mvfs_xid
      BY <1>9, <1>16 DEF OrderInv, Pending
    <2> QED BY <1>2, <1>8, <1>16, <2>1, <2>2
  <1>17. \A u \in Threads : Pending(u)'
    <2> SUFFICES ASSUME NEW u \in Threads, Active(u)', Bottom(u)'.pc \in Will, Of(u)' \notin torn'
                 PROVE  /\ Covers(seen'[Of(u)'], net', Of(u)', mvfs_boottime', Bottom(u)'.xid)
                        /\ ~InWindow' => Bottom(u)'.xid <= mvfs_xid'
      BY DEF Pending
    <2>1. CASE u # t
      BY <1>7, <1>16, <2>1 DEF Kept
    <2>2. CASE u = t /\ Bottom(t)' = Bottom(t)
      BY <1>11, <1>16, <1>1, <2>2 DEF Replaced
    <2>3. CASE u = t /\ OneOf(t, p) /\ Bottom(t)' = q /\ Of(t)' = q.client
      <3>1. ~InWindow /\ Of(u)' \notin torn
        BY <1>5, <1>9, <2>3
      <3>2. Of(u)' \in Handles
        BY <1>5, <1>3, <1>4, <2>3 DEF OneOf, IsView, Carrying, FrameType
      <3> QED BY <1>2, <1>5, <1>14, <2>3, <3>1, <3>2
    <2> QED BY <1>1, <2>1, <2>2, <2>3 DEF Replaced
  <1> QED BY <1>10, <1>12, <1>15, <1>17 DEF OrderInv

(* The counter goes back to 0: the window opens.                              *)
LEMMA ResetOrder ==
    ASSUME HandleInv, OrderInv, NEW t \in Threads, Active(t), Top(t).pc = "xid",
           NEW q, SetTop(t, q), q = [Top(t) EXCEPT !.pc = "wrap"], torn' = torn,
           mvfs_boottime' = mvfs_boottime, net' = net, seen' = seen
    PROVE  OrderInv'
  <1>1. PICK p : Replaced(t, p, q)
    BY SetTopped DEF HandleInv
  <1>2. Top(t) \in FrameType /\ p = Top(t)
    BY <1>1, TopFits DEF HandleInv, Replaced
  <1>3. q.pc = "wrap" /\ q.client = p.client
    BY <1>2 DEF FrameType
  <1>4. Others(t) /\ Active(t)' /\ At(t, "wrap")' /\ Of(t)' = Of(t)
    BY <1>1, <1>2, <1>3 DEF Replaced
  <1>5. \A u \in Threads : u # t => Kept(u)
    BY <1>4, OthersKept
  <1>6. InWindow' /\ Settled'
    BY <1>4 DEF InWindow, Settled
  <1>7. NumTyped' /\ NetOwned'
    <2>1. NetOwned'
      <3> SUFFICES ASSUME NEW m \in net
                   PROVE  \E u \in Threads : Active(u)' /\ Of(u)' = m.h
        BY DEF NetOwned
      <3>1. PICK u \in Threads : Active(u) /\ Of(u) = m.h
        BY DEF OrderInv, NetOwned
      <3> QED BY <1>4, <1>5, <3>1 DEF Kept
    <2> QED BY <2>1 DEF OrderInv, NumTyped
  <1>8. \A u \in Threads : Pending(u)'
    <2> SUFFICES ASSUME NEW u \in Threads, Active(u)', Bottom(u)'.pc \in Will, Of(u)' \notin torn
                 PROVE  Covers(seen'[Of(u)'], net', Of(u)', mvfs_boottime', Bottom(u)'.xid)
      BY <1>6 DEF Pending
    <2>1. Active(u) /\ Bottom(u)' = Bottom(u) /\ Of(u)' = Of(u)
      <3>1. CASE u # t
        BY <1>5, <3>1 DEF Kept
      <3>2. CASE u = t /\ Bottom(t)' = q
        BY <1>3, <3>2 DEF Will
      <3>3. CASE u = t /\ Bottom(t)' = Bottom(t)
        BY <1>1, <1>4, <3>3 DEF Replaced
      <3> QED BY <1>1, <3>1, <3>2, <3>3 DEF Replaced
    <2>2. Covers(seen[Of(u)], net, Of(u), mvfs_boottime, Bottom(u).xid)
      BY <2>1 DEF OrderInv, Pending
    <2> QED BY <2>1, <2>2
  <1> QED BY <1>6, <1>7, <1>8 DEF OrderInv

(* The new boot time is ahead of everything sent; the calls that have an id   *)
(* of the old round are torn.                                                 *)
LEMMA RoundOrder ==
    ASSUME HandleInv, OrderInv, NEW t \in Threads, WrapBoottime(t)
    PROVE  OrderInv'
  <1>1. /\ Active(t) /\ Top(t).pc = "wrap" /\ mvfs_boottime' = mvfs_boottime + 1
        /\ mvfs_xid' = mvfs_xid /\ net' = net /\ seen' = seen
    BY DEF WrapBoottime, At, Active, NewBoottime, ext
  <1>2. PICK q : q = [Top(t) EXCEPT !.pc = "wrapped"]
    OBVIOUS
  <1>3. SetTop(t, q)
    BY <1>2, Zenon DEF WrapBoottime, Goto
  <1>4. PICK p : Replaced(t, p, q)
    BY <1>1, <1>3, SetTopped DEF HandleInv
  <1>5. Shape /\ mvfs_boottime \in Nat /\ mvfs_xid \in Nat
    BY Zenon DEF HandleInv, Shape
  <1>6. p = Top(t)
    BY <1>4, Zenon DEF Replaced
  <1>7. Top(t) \in FrameType
    BY <1>1, <1>5, TopFits, Zenon
  <1>8. q.pc = "wrapped" /\ q.client = p.client
    BY <1>2, <1>6, <1>7 DEF FrameType
  <1>9. Others(t) /\ Active(t)' /\ Of(t)' = Of(t)
    BY <1>4, <1>8 DEF Replaced
  <1>10. \A u \in Threads : u # t => Kept(u)
    BY <1>9, OthersKept
  <1>11. \A u \in Threads : Active(u) /\ Bottom(u).pc \in Will => Of(u) \in torn'
    <2> SUFFICES ASSUME NEW u \in Threads, Active(u), Bottom(u).pc \in Will
                 PROVE  Of(u) \in torn'
      OBVIOUS
    <2>1. Last(stack[u]) = Bottom(u) /\ Of(u) = Bottom(u).client
      BY DEF Last, Bottom, Of, Active
    <2>2. Sending(u)
      BY <2>1 DEF Sending, Active, Will
    <2> QED BY <2>1, <2>2 DEF WrapBoottime
  <1>12. \A u \in Threads : Pending(u)'
    <2> SUFFICES ASSUME NEW u \in Threads, Active(u)', Bottom(u)'.pc \in Will
                 PROVE  Of(u)' \in torn'
      BY DEF Pending
    <2>1. CASE u # t
      BY <1>10, <1>11, <2>1 DEF Kept
    <2>2. CASE u = t /\ Bottom(t)' = q
      BY <1>8, <2>2 DEF Will
    <2>3. CASE u = t /\ Bottom(t)' = Bottom(t)
      BY <1>1, <1>9, <1>11, <2>3
    <2> QED BY <1>4, <2>1, <2>2, <2>3 DEF Replaced
  <1>13. NumTyped'
    BY <1>1, <1>5 DEF OrderInv, NumTyped
  <1>14. NetOwned'
    <2> SUFFICES ASSUME NEW m \in net
                 PROVE  \E u \in Threads : Active(u)' /\ Of(u)' = m.h
      BY <1>1 DEF NetOwned
    <2>1. PICK u \in Threads : Active(u) /\ Of(u) = m.h
      BY DEF OrderInv, NetOwned
    <2> QED BY <1>9, <1>10, <2>1 DEF Kept
  <1>15. Settled'
    <2> SUFFICES ASSUME NEW h \in Handles
                 PROVE  Covers(seen'[h], net', h, mvfs_boottime', mvfs_xid')
      BY DEF Settled
    <2>1. \A m \in net : m.bt \in Nat /\ m.bt <= mvfs_boottime
      BY DEF OrderInv, NumTyped
    <2>2. seen[h][1] \in Nat /\ seen[h][1] <= mvfs_boottime
      BY DEF OrderInv, NumTyped
    <2> QED BY <1>1, <1>5, <2>1, <2>2 DEF Covers, Before
  <1> QED BY <1>12, <1>13, <1>14, <1>15 DEF OrderInv

LEMMA IdOrder ==
    ASSUME HandleInv, OrderInv, NEW t \in Threads, AllocXid(t) \/ WrapBoottime(t) \/ WrapXid(t)
    PROVE  OrderInv'
  <1>1. CASE WrapBoottime(t)
    BY <1>1, RoundOrder
  <1>2. CASE WrapXid(t)
    <2>1. /\ Active(t) /\ Top(t).pc = "wrapped" /\ mvfs_xid' = mvfs_xid + 1 /\ torn' = TornAlloc(t)
          /\ mvfs_boottime' = mvfs_boottime /\ net' = net /\ seen' = seen
      BY <1>2 DEF WrapXid, At, Active, ext
    <2>2. PICK q : SetTop(t, q) /\ q.pc = "call" /\ q.xid = mvfs_xid + 1 /\ q.client = Top(t).client
      BY <1>2, <2>1, TakenFrame, Zenon DEF WrapXid
    <2> QED BY <2>1, <2>2, TakenOrder
  <1>3. CASE AllocXid(t)
    <2>1. /\ Active(t) /\ Top(t).pc = "xid"
          /\ mvfs_boottime' = mvfs_boottime /\ net' = net /\ seen' = seen
      BY <1>3 DEF AllocXid, At, Active, ext
    <2>2. CASE mvfs_xid # XidLimit
      <3>1. PICK q : SetTop(t, q) /\ q.pc = "call" /\ q.xid = mvfs_xid + 1 /\ q.client = Top(t).client
        BY <1>3, <2>1, <2>2, TakenFrame, Zenon DEF AllocXid
      <3>2. mvfs_xid' = mvfs_xid + 1 /\ torn' = TornAlloc(t)
        BY <1>3, <2>2, Zenon DEF AllocXid
      <3> QED BY <2>1, <3>1, <3>2, TakenOrder
    <2>3. CASE mvfs_xid = XidLimit
      <3>1. PICK q : q = [Top(t) EXCEPT !.pc = "wrap"]
        OBVIOUS
      <3>2. SetTop(t, q) /\ torn' = torn
        BY <1>3, <2>3, <3>1, Zenon DEF AllocXid, Goto
      <3> QED BY <2>1, <3>1, <3>2, ResetOrder
    <2> QED BY <2>2, <2>3
  <1> QED BY <1>1, <1>2, <1>3
-----------------------------------------------------------------------------
(* A call to the view server is sent, and what the server sees.               *)
LEMMA SentOn ==
    ASSUME HandleInv, NEW t \in Threads, Send(t), Top(t).op = "view"
    PROVE  \E m, q : /\ net' = net \cup {m} /\ m.h = Of(t) /\ m.bt = mvfs_boottime /\ m.xid = Bottom(t).xid
                     /\ Active(t) /\ Bottom(t).pc \in Will /\ Others(t) /\ Active(t)'
                     /\ Bottom(t)' = q /\ q.xid = Bottom(t).xid /\ Of(t)' = Of(t)
                     /\ ~At(t, "wrap") /\ ~At(t, "wrap")'
  <1>1. Active(t) /\ Top(t).pc \in {"call", "again"} /\ ~At(t, "wrap")
    BY DEF Send, At, Active
  <1>2. Top(t) \in FrameType /\ Bottom(t) = Top(t) /\ Of(t) = Top(t).client
    BY <1>1, TopFits, ViewTop DEF HandleInv
  <1>3. PICK n, r : n = mvfs_boottime /\ r = (t \in SetuidRoot /\ ~Top(t).ruid)
    OBVIOUS
  <1>4. PICK q : q = [Top(t) EXCEPT !.pc = "wait", !.bt = n]
    OBVIOUS
  <1>5. PICK m : m = [h |-> Top(t).client, bt |-> mvfs_boottime, xid |-> Top(t).xid,
                      call |-> Top(t).call, to |-> svr.port, root |-> r]
    OBVIOUS
  <1>6. SetTop(t, q) /\ net' = net \cup {m}
    BY <1>3, <1>4, <1>5, Zenon DEF Send
  <1>7. q.pc = "wait" /\ q.xid = Top(t).xid /\ q.client = Top(t).client
    BY <1>2, <1>4 DEF FrameType
  <1>8. Others(t) /\ Active(t)' /\ Bottom(t)' = q /\ Of(t)' = q.client /\ Top(t)' = q
    BY <1>1, <1>6, ViewSet DEF HandleInv
  <1>9. ~At(t, "wrap")'
    BY <1>7, <1>8 DEF At
  <1>10. m.h = Top(t).client /\ m.bt = mvfs_boottime /\ m.xid = Top(t).xid
    BY <1>5
  <1> QED BY <1>1, <1>2, <1>6, <1>7, <1>8, <1>9, <1>10 DEF Will

LEMMA SendOrder ==
    ASSUME HandleInv, OrderInv, NEW t \in Threads, Send(t)
    PROVE  OrderInv'
  <1>1. CASE Top(t).op # "view"
    <2>1. Active(t) /\ Top(t).pc \in {"call", "again"}
      BY DEF Send, At, Active
    <2>2. Still /\ torn' = torn
      BY <1>1 DEF Send, Still
    <2>3. PICK n, p, q : n = mvfs_boottime /\ p = Top(t) /\ q = [p EXCEPT !.pc = "wait", !.bt = n]
      OBVIOUS
    <2>4. SetTop(t, q) /\ p \in FrameType
      BY <2>1, <2>3, TopFits, Zenon DEF Send, HandleInv
    <2>5. p.pc # "wrap" /\ ("wait" \in Will => p.pc \in Will)
      BY <2>1, <2>3 DEF Will
    <2>6. Turns(p, q)
      BY <2>3, <2>4, <2>5, PcTurns
    <2> QED BY <2>1, <2>2, <2>3, <2>4, <2>6, StillSteady, Turned
  <1>2. CASE Top(t).op = "view"
    <2>1. PICK m, q : /\ net' = net \cup {m} /\ m.h = Of(t) /\ m.bt = mvfs_boottime /\ m.xid = Bottom(t).xid
                      /\ Active(t) /\ Bottom(t).pc \in Will /\ Others(t) /\ Active(t)'
                      /\ Bottom(t)' = q /\ q.xid = Bottom(t).xid /\ Of(t)' = Of(t)
                      /\ ~At(t, "wrap") /\ ~At(t, "wrap")'
      BY <1>2, SentOn
    <2>2. seen' = seen /\ torn' = torn /\ mvfs_xid' = mvfs_xid /\ mvfs_boottime' = mvfs_boottime
      BY DEF Send
    <2>3. \A u \in Threads : u # t => Kept(u)
      BY <2>1, OthersKept
    <2>4. InWindow' <=> InWindow
      BY <2>1, WindowSteady
    <2>5. Of(t) \in Handles /\ Has(t, Of(t)) /\ Bottom(t).xid \in Nat /\ mvfs_boottime \in Nat /\ mvfs_xid \in Nat
      BY <2>1, WillHas DEF HandleInv, Shape
    <2>6. NumTyped'
      BY <2>1, <2>2, <2>5 DEF OrderInv, NumTyped
    <2>7. NetOwned'
      <3> SUFFICES ASSUME NEW k \in net'
                   PROVE  \E u \in Threads : Active(u)' /\ Of(u)' = k.h
        BY DEF NetOwned
      <3>1. CASE k = m
        BY <2>1, <3>1
      <3>2. CASE k \in net
        <4>1. PICK u \in Threads : Active(u) /\ Of(u) = k.h
          BY <3>2 DEF OrderInv, NetOwned
        <4> QED BY <2>1, <2>3, <4>1 DEF Kept
      <3> QED BY <2>1, <3>1, <3>2
    <2>8. Pending(t)
      BY DEF OrderInv
    <2>9. \A h : \A x \in Nat : Covers(seen[h], net, h, mvfs_boottime, x) /\ (h = Of(t) => Bottom(t).xid <= x)
                    => Covers(seen[h], net', h, mvfs_boottime, x)
      BY <2>1, <2>5 DEF Covers, Before
    <2>10. Settled'
      <3> SUFFICES ASSUME ~InWindow, NEW h \in Handles, h \notin torn
                   PROVE  Covers(seen[h], net', h, mvfs_boottime, mvfs_xid)
        BY <2>2, <2>4 DEF Settled
      <3>1. Covers(seen[h], net, h, mvfs_boottime, mvfs_xid)
        BY DEF OrderInv, Settled
      <3>2. h = Of(t) => Bottom(t).xid <= mvfs_xid
        BY <2>1, <2>8 DEF Pending
      <3> QED BY <2>5, <2>9, <3>1, <3>2
    <2>11. \A u \in Threads : Pending(u)'
      <3> SUFFICES ASSUME NEW u \in Threads, Active(u)', Bottom(u)'.pc \in Will, Of(u)' \notin torn
                   PROVE  /\ Covers(seen[Of(u)'], net', Of(u)', mvfs_boottime, Bottom(u)'.xid)
                          /\ ~InWindow => Bottom(u)'.xid <= mvfs_xid
        BY <2>2, <2>4 DEF Pending
      <3>1. Active(u) /\ Bottom(u).pc \in Will /\ Bottom(u)'.xid = Bottom(u).xid /\ Of(u)' = Of(u)
        BY <2>1, <2>3 DEF Kept
      <3>2. Of(u) \in Handles /\ Has(u, Of(u)) /\ Bottom(u).xid \in Nat
        BY <3>1, WillHas DEF HandleInv
      <3>3. Of(u) = Of(t) => u = t
        BY <2>5, <3>2 DEF HandleInv, OwnInv, HeldOnce
      <3>4. /\ Covers(seen[Of(u)], net, Of(u), mvfs_boottime, Bottom(u).xid)
            /\ ~InWindow => Bottom(u).xid <= mvfs_xid
        BY <3>1 DEF OrderInv, Pending
      <3>5. Of(u) = Of(t) => Bottom(t).xid <= Bottom(u).xid
        BY <2>5, <3>3
      <3> QED BY <2>9, <3>1, <3>2, <3>4, <3>5
    <2> QED BY <2>6, <2>7, <2>10, <2>11 DEF OrderInv
  <1> QED BY <1>1, <1>2

(* The server sees only what was sent, or forgets.                            *)
LEMMA SeenOrder ==
    ASSUME HandleInv, OrderInv, stack' = stack, net' = net, torn' = torn,
           mvfs_xid' = mvfs_xid, mvfs_boottime' = mvfs_boottime, DOMAIN seen' = Handles,
           \A h \in Handles : \/ seen'[h] = seen[h]
                              \/ seen'[h][1] = 0 /\ seen'[h][2] = 0
                              \/ \E m \in net : m.h = h /\ seen'[h][1] = m.bt /\ seen'[h][2] = m.xid
    PROVE  OrderInv'
  <1>1. mvfs_boottime \in Nat /\ mvfs_xid \in Nat
    BY DEF HandleInv, Shape
  <1>2. \A u : Kept(u)
    BY StackSame
  <1>3. InWindow' <=> InWindow
    BY <1>2 DEF InWindow, Kept
  <1>4. NumTyped'
    BY <1>1 DEF OrderInv, NumTyped
  <1>5. NetOwned'
    BY <1>2 DEF OrderInv, NetOwned, Kept
  <1>6. ASSUME NEW h \in Handles, NEW x \in Nat, Covers(seen[h], net, h, mvfs_boottime, x)
        PROVE  Covers(seen'[h], net', h, mvfs_boottime', x)
    <2>1. CASE seen'[h] = seen[h]
      BY <1>6, <2>1
    <2>2. CASE seen'[h][1] = 0 /\ seen'[h][2] = 0
      BY <1>1, <1>6, <2>2 DEF Covers, Before
    <2>3. CASE \E m \in net : m.h = h /\ seen'[h][1] = m.bt /\ seen'[h][2] = m.xid
      <3>1. PICK m \in net : m.h = h /\ seen'[h][1] = m.bt /\ seen'[h][2] = m.xid
        BY <2>3
      <3>2. ~Before(<<mvfs_boottime, x>>, <<m.bt, m.xid>>)
        BY <1>6, <3>1 DEF Covers
      <3>3. ~Before(<<mvfs_boottime, x>>, seen'[h])
        BY <3>1, <3>2 DEF Before
      <3> QED BY <1>6, <3>3 DEF Covers
    <2> QED BY <2>1, <2>2, <2>3
  <1>7. Settled'
    BY <1>1, <1>3, <1>6 DEF OrderInv, Settled
  <1>8. \A u \in Threads : Pending(u)'
    <2> SUFFICES ASSUME NEW u \in Threads, Active(u), Bottom(u).pc \in Will, Of(u) \notin torn
                 PROVE  /\ Covers(seen'[Of(u)], net', Of(u), mvfs_boottime', Bottom(u).xid)
                        /\ ~InWindow => Bottom(u).xid <= mvfs_xid
      BY <1>2, <1>3 DEF Pending, Kept
    <2>1. Of(u) \in Handles /\ Bottom(u).xid \in Nat
      BY WillHas DEF HandleInv
    <2>2. PICK h, x : h = Of(u) /\ x = Bottom(u).xid
      OBVIOUS
    <2>3. Covers(seen[h], net, h, mvfs_boottime, x) /\ (~InWindow => x <= mvfs_xid)
      BY <2>2 DEF OrderInv, Pending
    <2> QED BY <1>6, <2>1, <2>2, <2>3
  <1> QED BY <1>4, <1>5, <1>7, <1>8 DEF OrderInv

LEMMA ServerOrder ==
    ASSUME HandleInv, OrderInv, (\E m \in net : Deliver(m)) \/ Restart
    PROVE  OrderInv'
  <1>1. DOMAIN seen = Handles
    BY DEF OrderInv, NumTyped
  <1>2. CASE Restart
    <2>1. /\ stack' = stack /\ net' = net /\ torn' = torn /\ mvfs_xid' = mvfs_xid
          /\ mvfs_boottime' = mvfs_boottime
      BY <1>2 DEF Restart, drv
    <2>2. seen' = [h \in Handles |-> <<0, 0, "none">>]
      BY <1>2 DEF Restart
    <2>3. DOMAIN seen' = Handles /\ \A h \in Handles : seen'[h][1] = 0 /\ seen'[h][2] = 0
      BY <2>2
    <2> QED BY <2>1, <2>3, SeenOrder
  <1>3. ASSUME NEW m \in net, Deliver(m)
        PROVE  OrderInv'
    <2>1. /\ stack' = stack /\ net' = net /\ torn' = torn /\ mvfs_xid' = mvfs_xid
          /\ mvfs_boottime' = mvfs_boottime
      BY <1>3 DEF Deliver, drv
    <2>2. seen' = seen \/ \E st : seen' = [seen EXCEPT ![m.h] = <<m.bt, m.xid, st>>]
      BY <1>3, Zenon DEF Deliver
    <2>3. m.h \in Handles
      BY DEF OrderInv, NumTyped
    <2>4. /\ DOMAIN seen' = Handles
          /\ \A h \in Handles : \/ seen'[h] = seen[h]
                                \/ m.h = h /\ seen'[h][1] = m.bt /\ seen'[h][2] = m.xid
      BY <1>1, <2>2, <2>3
    <2> QED BY <2>1, <2>4, SeenOrder
  <1> QED BY <1>2, <1>3
-----------------------------------------------------------------------------
LEMMA OrderInit ==
    ASSUME Init
    PROVE  OrderInv
  <1>1. \A t \in Threads : ~Active(t)
    BY DEF Init, Active
  <1>2. PICK z : z = <<0, 0, "none">>
    OBVIOUS
  <1>3. z[1] = 0 /\ z[2] = 0
    BY <1>2
  <1>4. net = {} /\ mvfs_xid = 0 /\ mvfs_boottime = 1 /\ seen = [h \in Handles |-> z]
    BY <1>2 DEF Init
  <1> HIDE <1>2
  <1>5. NumTyped
    BY <1>3, <1>4 DEF NumTyped
  <1>6. NetOwned
    BY <1>4 DEF NetOwned
  <1>7. Settled
    BY <1>3, <1>4 DEF Settled, Covers, Before
  <1> QED BY <1>1, <1>5, <1>6, <1>7 DEF OrderInv, Pending

LEMMA OrderNext ==
    ASSUME HandleInv, OrderInv, ~InitFails, [Next]_vars
    PROVE  OrderInv'
  <1>1. ASSUME NEW t \in Threads, CallStart(t) \/ Run(t)
        PROVE  OrderInv'
    <2>1. CASE CallStart(t)
      BY <2>1, StartOrder
    <2>2. CASE GetCached(t) \/ Create(t) \/ CreateFail(t) \/ FreeHandle(t)
      BY <2>2, HandleOrder, EndOrder
    <2>3. CASE AllocXid(t) \/ WrapBoottime(t) \/ WrapXid(t) \/ Send(t)
      BY <2>3, IdOrder, SendOrder
    <2>4. CASE \/ Insert(t) \/ Unbound(t) \/ Reply(t) \/ RetryUid(t) \/ Timeout(t)
               \/ WrongServer(t) \/ GiveUp(t)
      BY <2>4, WaitOrder
    <2>5. CASE BindStart(t) \/ BindRefused(t) \/ BindEnd(t) \/ BindFail(t)
      BY <2>5, BindOrder, BoundOrder
    <2>6. CASE ReinitFail(t)
      BY <2>6 DEF ReinitFail
    <2> QED BY <1>1, <2>1, <2>2, <2>3, <2>4, <2>5, <2>6, Zenon DEF Run
  <1>2. ASSUME stack' = stack, UNCHANGED <<mvfs_xid, mvfs_boottime, torn, net, seen>>
        PROVE  OrderInv'
    <2>1. DOMAIN seen' = Handles /\ \A h \in Handles : seen'[h] = seen[h]
      BY <1>2 DEF OrderInv, NumTyped
    <2> QED BY <1>2, <2>1, SeenOrder
  <1>3. ASSUME NEW n \in CacheSizes, SetCaches(n)
        PROVE  OrderInv'
    BY <1>2, <1>3 DEF SetCaches, ext
  <1>4. CASE (\E m \in net : Deliver(m)) \/ Restart
    BY <1>4, ServerOrder
  <1>5. CASE UNCHANGED vars
    BY <1>2, <1>5 DEF vars, drv, ext
  <1> QED BY <1>1, <1>3, <1>4, <1>5, Zenon DEF Next

LEMMA SentInOrder ==
    ASSUME HandleInv, OrderInv, NEW t \in Threads, Send(t), NEW m \in net', m \notin net, m.h \notin torn
    PROVE  InOrder(m)
  <1>1. Top(t).op = "view"
    BY DEF Send
  <1>2. /\ m.h = Of(t) /\ m.bt = mvfs_boottime /\ m.xid = Bottom(t).xid
        /\ Active(t) /\ Bottom(t).pc \in Will
    BY <1>1, SentOn
  <1>3. Covers(seen[m.h], net, m.h, mvfs_boottime, m.xid)
    BY <1>2 DEF OrderInv, Pending
  <1> QED BY <1>2, <1>3 DEF Covers, InOrder

(* What mvfscall_int sends on a socket is never older than what was sent on   *)
(* it before or what the server saw from it last, whatever timeouts, retries, *)
(* rebinds, restarts, calls of other threads and wraps of the counter of      *)
(* mvfs_alloc_xid there are, but for the calls that a wrap overtook.          *)
THEOREM IdsNeverGoBack == ~InitFails => (Spec => XidsIncrease)
  <1>1. CASE InitFails
    BY <1>1
  <1>2. CASE ~InitFails
    <2>1. Init => OrderInv
      BY OrderInit
    <2>2. HandleInv /\ OrderInv /\ [Next]_vars => OrderInv'
      BY <1>2, OrderNext
    <2>3. HandleInv /\ OrderInv /\ [Next]_vars =>
            [\A m \in net' \ net : m.h \notin torn => InOrder(m)]_vars
      BY NetGrows, SentInOrder
    <2>4. Spec => []HandleInv
      BY <1>2, HandleInvariant
    <2>5. Spec => XidsIncrease
      BY <2>1, <2>2, <2>3, <2>4, PTL DEF Spec, XidsIncrease
    <2> QED BY <2>5
  <1> QED BY <1>1, <1>2
=============================================================================
