------------------------------ MODULE Shadow --------------------------------
(***************************************************************************)
(* Objects outside the VOBs as seen under a view tag (mvfs_linux_mvops,    *)
(* mvfs_linux_shadow).  A loopback dentry keeps in d_fsdata a cleartext    *)
(* vnode, which keeps the real dentry.  Directories are loopback mnodes,   *)
(* symbolic links have a shadow inode, devices and sockets share the real  *)
(* inode.  Processes that use the real directory directly rename and       *)
(* remove behind the module's back.                                        *)
(*                                                                         *)
(* sh.disk is the real directory, sh.rd its dentries, sh.cv the cleartext  *)
(* vnodes, sh.ld the loopback dentries, sh.lock the inode mutexes, of both *)
(* directories and of the real objects.  Every handler takes the real      *)
(* dentry under vnlayer_cvn_spinlock (REALDENTRY_LOCKED), which keeps the  *)
(* cleartext vnode and not the real dentry, works, and lets go.            *)
(***************************************************************************)
EXTENDS Integers, FiniteSets

CONSTANTS
  Null,
  Threads,
  Native,     \* processes in the real directory
  Names,
  Links, Devs, Subdirs,          \* real objects
  RDir, LDir,                    \* the real directory and its loopback
  RDents, Cvns, LDents,          \* real dentries, cleartext vnodes, loopback dentries
  ShJobs                         \* ops, who, max, and native, the calls of other processes

VARIABLES sh, pr, left
shVars == <<sh, pr, left>>

Real == Links \cup Devs \cup Subdirs
NoRd == [nm |-> Null, ino |-> Null, hashed |-> FALSE, here |-> FALSE, cnt |-> 0]
NoCv == [dent |-> Null, cnt |-> 0]
NoLd == [nm |-> Null, ino |-> Null, cvn |-> Null, hashed |-> FALSE, attr |-> 0, cnt |-> 0]
NoPr == [op |-> Null, pc |-> "idle", nm |-> Null, nm2 |-> Null, e |-> Null, e2 |-> Null, c |-> Null, c2 |-> Null,
         r |-> Null, r2 |-> Null, free |-> FALSE, cwd |-> Null]

-----------------------------------------------------------------------------
(* References.                                                              *)
RDget(s, r) == [s EXCEPT !.rd[r].cnt = @ + 1]
RDput(s, r) == IF r = Null THEN s ELSE IF s.rd[r].cnt > 1 THEN [s EXCEPT !.rd[r].cnt = @ - 1] ELSE [s EXCEPT !.rd[r] = NoRd]
CvHold(s, c) == [s EXCEPT !.cv[c].cnt = @ + 1]
CvRele(s, c) == IF c = Null THEN s
                ELSE IF s.cv[c].cnt > 1 THEN [s EXCEPT !.cv[c].cnt = @ - 1]
                ELSE [RDput(s, s.cv[c].dent) EXCEPT !.cv[c] = NoCv]
LdGet(s, e) == [s EXCEPT !.ld[e].cnt = @ + 1]
\* vnode_dop_delete and vnode_shadow_dop_release with the last reference.
LdPut(s, e) == IF e = Null THEN s
               ELSE IF s.ld[e].cnt > 1 THEN [s EXCEPT !.ld[e].cnt = @ - 1]
               ELSE [CvRele(s, s.ld[e].cvn) EXCEPT !.ld[e] = NoLd]
\* The real name: its dentry, or a new one.
RFind(s, n) == LET H == {r \in RDents : s.rd[r].hashed /\ s.rd[r].here /\ s.rd[r].nm = n}
               IN IF H # {} THEN CHOOSE r \in H : TRUE ELSE CHOOSE r \in RDents : s.rd[r].cnt = 0
RLooked(s, n) == LET r == RFind(s, n)
                 IN IF s.rd[r].cnt > 0 THEN RDget(s, r)
                    ELSE [s EXCEPT !.rd[r] = [nm |-> n, ino |-> s.disk[n], hashed |-> TRUE, here |-> TRUE, cnt |-> 1]]
\* vnlayer_linux_new_clrvnode
SpareCv(s) == CHOOSE c \in Cvns : s.cv[c].cnt = 0
CvCreate(s, r) == [RDget(s, r) EXCEPT !.cv[SpareCv(s)] = [dent |-> r, cnt |-> 1]]
Unused(f) == {x \in DOMAIN f : f[x].cnt = 0}
Room(s) == Cardinality(Unused(s.rd)) > 1 /\ Unused(s.cv) # {} /\ Unused(s.ld) # {}

\* vnlayer_get_realdentry_locked: the reference is to the cleartext vnode only.
Got(s, e) == IF s.ld[e].cvn = Null THEN s ELSE LdGet(CvHold(s, s.ld[e].cvn), e)
GotDent(s, e) == IF s.ld[e].cvn = Null THEN Null ELSE s.cv[s.ld[e].cvn].dent
\* Mutant: the cached vnode keeps its reference.
KeepCvn(s, e, c, detach) ==
  LET d == s.ld[e].cvn
  IN LdPut(IF detach /\ d # Null THEN CvRele([s EXCEPT !.ld[e].cvn = Null], d) ELSE s, e)
\* vnlayer_realdentry_unlock, with and without detach.
Unlock(s, e, c, detach) ==
  LET d == s.ld[e].cvn
      u == IF detach /\ d # Null THEN CvRele([s EXCEPT !.ld[e].cvn = Null], d) ELSE s
  IN LdPut(CvRele(u, c), e)

-----------------------------------------------------------------------------
Lk(s, o, t) == [s EXCEPT !.lock[o] = t]
Free(s, t) == [s EXCEPT !.lock = [o \in DOMAIN @ |-> IF @[o] = t THEN Null ELSE @[o]]]
At(t, p) == pr[t].pc = p
To(t, p, x) == pr' = [pr EXCEPT ![t] = [x EXCEPT !.pc = p]]
\* The system call ends: the dentries are let go of, and the locks.
End(t, s) == pr' = [pr EXCEPT ![t] = [NoPr EXCEPT !.cwd = pr[t].cwd]] /\ sh' = Free(LdPut(LdPut(s, pr[t].e), pr[t].e2), t)
Making == {"symlink", "mknod", "mkdir"}
Locking == Making \cup {"unlink", "rmdir", "rename"}
Start(t) == \E op \in left.ops, n, m \in Names :
  /\ At(t, "idle") /\ t \in left.who /\ left.max > 0
  /\ op \in Locking => sh.lock[LDir] = Null
  /\ IF op = "rename" THEN n # m ELSE n = m
  /\ left' = [left EXCEPT !.max = @ - 1] /\ sh' = IF op \in Locking THEN Lk(sh, LDir, t) ELSE sh
  /\ To(t, "walk", [pr[t] EXCEPT !.op = op, !.nm = n, !.nm2 = IF op = "rename" THEN m ELSE Null])

-----------------------------------------------------------------------------
(* Path walk.                                                               *)
Cached(n) == {e \in LDents : sh.ld[e].hashed /\ sh.ld[e].nm = n}
Which(t) == IF pr[t].e = Null THEN pr[t].nm ELSE pr[t].nm2
\* Found in the cache: to be revalidated.
Walk(t) == \E e \in Cached(Which(t)) :
  /\ At(t, "walk") /\ To(t, "reval", [pr[t] EXCEPT !.c2 = Null, !.r = e]) /\ sh' = LdGet(sh, e) /\ UNCHANGED left
Next2(x) == IF x.nm2 # Null /\ x.e2 = Null THEN "walk" ELSE x.op
Walked(t, s, e) ==
  LET x == [pr[t] EXCEPT !.e = IF @ = Null THEN e ELSE @, !.e2 = IF pr[t].e = Null THEN @ ELSE e, !.c = Null, !.r = Null]
  IN To(t, Next2(x), x) /\ sh' = s
\* mvop_linux_lookup_component, mvop_linux_lookup_single and vnlayer_lookup_post, under
\* the mutex of the loopback directory: the cleartext vnode is attached to the dentry,
\* for a name that does not exist too.
Lookup(t) ==
  LET n == Which(t)
      r == RFind(sh, n)
      e == CHOOSE d \in LDents : sh.ld[d].cnt = 0
      s == RLooked(sh, n)
      c == SpareCv(s)
      looked == [RDput(CvCreate(s, r), r) EXCEPT !.ld[e] = [nm |-> n, ino |-> s.rd[r].ino, cvn |-> c, hashed |-> TRUE,
                                                            attr |-> IF s.rd[r].ino = Null THEN 0 ELSE s.attr[s.rd[r].ino], cnt |-> 1]]
  IN /\ At(t, "walk") /\ Cached(n) = {} /\ Room(sh) /\ sh.lock[LDir] \in {Null, t} /\ sh.lock[RDir] = Null
     /\ \/ Walked(t, looked, e)
        \/ End(t, sh)                                                   \* ENFILE, ENOMEM
     /\ UNCHANGED left

\* vnode_shadow_dop_revalidate, and vnode_dop_revalidate of a loopback directory.
Reval(t) ==
  LET e == pr[t].r
      x == sh.ld[e]
  IN /\ At(t, "reval") /\ UNCHANGED left
     /\ IF x.ino = Null \/ x.cvn = Null THEN To(t, "stale", pr[t]) /\ sh' = sh
        ELSE sh' = Got(sh, e) /\ To(t, IF x.ino \in Subdirs THEN "revaldir" ELSE "revalshadow",
                                    [pr[t] EXCEPT !.c = x.cvn, !.r2 = GotDent(sh, e)])
\* Mutant: whatever the name means now is accepted.
RevalAlways(t) == LET p == pr[t] IN
  /\ At(t, "revalshadow") /\ UNCHANGED left /\ Walked(t, Unlock(sh, p.r, p.c, FALSE), p.r)
RevalShadow(t) ==
  LET p == pr[t]
      y == sh.rd[p.r2]
      s == IF sh.ld[p.r].ino # Null /\ y.ino # Null THEN [sh EXCEPT !.ld[p.r].attr = sh.attr[y.ino]] ELSE sh
  IN /\ At(t, "revalshadow") /\ UNCHANGED left
     /\ IF ~y.hashed THEN To(t, "stale", [p EXCEPT !.c = Null, !.r2 = Null]) /\ sh' = Unlock(sh, p.r, p.c, TRUE)
        ELSE Walked(t, Unlock(s, p.r, p.c, FALSE), p.r)
\* A directory that is no longer in the parent: its dentry is replaced.
RevalDir(t) ==
  LET p == pr[t]
      d == sh.cv[p.c].dent
  IN /\ At(t, "revaldir") /\ UNCHANGED left
     /\ IF sh.rd[p.r2].here THEN Walked(t, Unlock(sh, p.r, p.c, FALSE), p.r)
        ELSE To(t, "replace", p) /\ sh' = RDput(sh, d)
Replace(t) ==
  LET p == pr[t]
      s == [RLooked(sh, Which(t)) EXCEPT !.cv[p.c].dent = RFind(sh, Which(t))]
  IN /\ At(t, "replace") /\ UNCHANGED left /\ sh.lock[RDir] = Null
     /\ To(t, "stale", [p EXCEPT !.c = Null, !.r2 = Null]) /\ sh' = Unlock(s, p.r, p.c, FALSE)
\* d_invalidate: a directory that others use stays.
Stale(t) ==
  LET e == pr[t].r
      x == sh.ld[e]
  IN /\ At(t, "stale") /\ UNCHANGED left
     /\ IF x.ino \in Subdirs /\ x.cnt > 1 THEN Walked(t, sh, e)
        ELSE To(t, "walk", [pr[t] EXCEPT !.r = Null]) /\ sh' = LdPut([sh EXCEPT !.ld[e].hashed = FALSE], e)

-----------------------------------------------------------------------------
(* Handlers of one object: take the real dentry, in most with a reference   *)
(* of their own, use it, let go.  The extended attributes do not expect     *)
(* that there is none.                                                      *)
Dgets == {"readlink", "follow", "getattr"}
Take(t, op) == LET p == pr[t] IN
  /\ At(t, op) /\ UNCHANGED left
  /\ IF sh.ld[p.e].ino = Null \/ (sh.ld[p.e].cvn = Null /\ op # "xattr") THEN End(t, sh)
     ELSE IF sh.ld[p.e].cvn = Null THEN To(t, "oops", p) /\ sh' = sh
     ELSE /\ sh' = IF op \in Dgets THEN RDget(Got(sh, p.e), GotDent(sh, p.e)) ELSE Got(sh, p.e)
          /\ To(t, "use", [p EXCEPT !.c = sh.ld[p.e].cvn, !.r = GotDent(sh, p.e)])
Readlink(t) == Take(t, "readlink")
FollowLink(t) == Take(t, "follow")
GetAttr(t) == Take(t, "getattr")
SetAttr(t) == Take(t, "setattr")
Xattr(t) == Take(t, "xattr")
\* vnode_shadow_iop_getattr copies from the shadow inode to the real one.
Used(s, p) ==
  LET o == s.rd[p.r].ino
  IN IF o \notin Links \/ s.ld[p.e].ino \notin Links THEN s
     ELSE IF p.op = "getattr" THEN [s EXCEPT !.attr[o] = s.ld[p.e].attr]
     ELSE IF p.op = "setattr" THEN [s EXCEPT !.attr[o] = 2, !.ld[p.e].attr = 2] ELSE s
Use(t) == LET p == pr[t] IN
  /\ At(t, "use") /\ UNCHANGED left
  /\ End(t, Unlock(IF p.op \in Dgets THEN RDput(Used(sh, p), p.r) ELSE Used(sh, p), p.e, p.c, FALSE))
\* The thread keeps the object: its directory, an open device.
Keep(t) == LET p == pr[t] IN
  /\ At(t, "keep") /\ UNCHANGED left
  /\ IF sh.ld[p.e].ino = Null THEN End(t, sh)
     ELSE pr' = [pr EXCEPT ![t] = [NoPr EXCEPT !.cwd = p.e]] /\ sh' = LdPut(sh, p.cwd)
\* vnode_shadow_iop_permission reads the real inode behind the dentry without a lock or a
\* reference to anything but the dentry, and may sleep in the check that follows.
Permission(t) ==
  LET p == pr[t]
      c == sh.ld[p.e].cvn
      r == sh.cv[c].dent
  IN /\ At(t, "permission") /\ UNCHANGED left
     /\ IF sh.ld[p.e].ino \notin Links THEN End(t, sh)                   \* a check of its own
        ELSE IF c = Null THEN To(t, "oops", p) /\ sh' = sh
        ELSE IF sh.rd[r].ino = Null THEN End(t, sh)                     \* EACCES
        ELSE To(t, "permit", [p EXCEPT !.r = r, !.r2 = sh.rd[r].ino]) /\ sh' = sh
Permitted(t) == At(t, "permit") /\ End(t, sh) /\ UNCHANGED left

-----------------------------------------------------------------------------
(* mvop_linux_remove and mvop_linux_rmdir.  The kernel has locked the       *)
(* object, which for a device is the real inode.                            *)
Removes(t) ==
  LET p == pr[t]
      o == sh.ld[p.e].ino
      mine == IF o \in Devs THEN Lk(sh, o, t) ELSE sh
  IN /\ p.pc \in {"unlink", "rmdir"} /\ UNCHANGED left
     /\ IF o = Null \/ (o \in Subdirs) # (p.op = "rmdir") THEN End(t, sh)
        ELSE /\ o \in Devs => sh.lock[o] = Null
             /\ sh' = Got(mine, p.e) /\ To(t, "lockdir", [p EXCEPT !.c = sh.ld[p.e].cvn, !.r = GotDent(sh, p.e)])
LockDir(t) == LET p == pr[t] IN
  /\ At(t, "lockdir") /\ UNCHANGED left
  /\ IF p.c = Null THEN (IF p.op = "rmdir" THEN End(t, sh) ELSE To(t, "oops", p) /\ sh' = sh)
     ELSE /\ sh.lock[RDir] = Null
          /\ LET o == sh.rd[p.r].ino IN
             IF o = Null THEN (IF p.op = "rmdir" THEN End(t, Unlock(sh, p.e, p.c, FALSE)) ELSE To(t, "oops", p) /\ sh' = sh)
             ELSE To(t, "remove", p) /\ sh' = Lk(IF o \in Devs THEN Lk(sh, o, Null) ELSE sh, RDir, t)
\* vfs_unlink, vfs_rmdir of the real name: d_delete makes the dentry negative if nobody else has it.
RDelete(s, r) == IF s.rd[r].cnt = 1 THEN [s EXCEPT !.rd[r].ino = Null] ELSE [s EXCEPT !.rd[r].hashed = FALSE]
Gone(s, r) == IF s.rd[r].here /\ s.disk[s.rd[r].nm] = s.rd[r].ino THEN RDelete([s EXCEPT !.disk[s.rd[r].nm] = Null], r) ELSE s
Remove(t) ==
  LET p == pr[t]
      o == sh.rd[p.r].ino
  IN /\ At(t, "remove") /\ UNCHANGED left /\ (o \in Devs => sh.lock[o] = Null)
     /\ \/ LET s == Unlock(Lk(IF p.op = "rmdir" THEN RDput(Gone(RDget(sh, p.r), p.r), p.r) ELSE Gone(sh, p.r), RDir, Null), p.e, p.c, FALSE)
               done == IF s.ld[p.e].cnt = 1 THEN [s EXCEPT !.ld[p.e].ino = Null] ELSE [s EXCEPT !.ld[p.e].hashed = FALSE]
           IN End(t, done)
        \/ End(t, Unlock(sh, p.e, p.c, FALSE))                          \* refused

\* mvop_linux_symlink, mvop_linux_mknod and mvop_linux_mkdir: under the mutexes of both directories.
\* The first takes the real dentry of the negative loopback one, the others look it up.
Make(t, op, S) ==
  LET p == pr[t]
      n == p.nm
      e == p.e
      own == op = "symlink"
      s == IF own THEN Got(sh, e) ELSE RLooked(sh, n)
      r == IF own THEN GotDent(sh, e) ELSE RFind(sh, n)
      c == sh.ld[e].cvn
      put(u) == IF own THEN (IF c = Null THEN u ELSE Unlock(u, e, c, FALSE)) ELSE RDput(u, r)
  IN /\ At(t, op) /\ sh.lock[RDir] = Null /\ UNCHANGED left /\ Room(sh)
     /\ IF sh.ld[e].ino # Null THEN End(t, sh)
        ELSE IF r = Null \/ s.disk[n] # Null \/ (r # Null => ~s.rd[r].hashed \/ s.rd[r].ino # Null) THEN End(t, put(s))
        ELSE \/ End(t, put(s))                                          \* refused
             \/ \E o \in {o \in S : \A m \in Names : sh.disk[m] # o} :
                  LET made == [s EXCEPT !.disk[n] = o, !.rd[r].ino = o, !.ld[e].ino = o, !.ld[e].attr = s.attr[o]]
                  IN End(t, put(made))
Symlink(t) == Make(t, "symlink", Links)
Mknod(t) == Make(t, "mknod", Devs)
Mkdir(t) == Make(t, "mkdir", Subdirs)

\* mvop_linux_rename, in one directory: the real dentry of the new name is looked up, and
\* takes the place of the one that the loopback dentry has.
RenameGet(t) ==
  LET p == pr[t]
      s == RLooked(Lk(Got(sh, p.e), RDir, t), p.nm2)
  IN /\ At(t, "rename") /\ sh.lock[RDir] = Null /\ Room(sh) /\ UNCHANGED left
     /\ IF sh.ld[p.e].ino = Null \/ GotDent(sh, p.e) = Null THEN End(t, sh)
        ELSE sh' = s /\ To(t, "target", [p EXCEPT !.c = sh.ld[p.e].cvn, !.r = GotDent(sh, p.e), !.r2 = RFind(sh, p.nm2),
                                                  !.free = sh.ld[p.e2].cvn = Null])
RenameTarget(t) ==
  LET p == pr[t]
      c == sh.ld[p.e2].cvn
      d == sh.cv[c].dent
      made == [CvCreate(sh, p.r2) EXCEPT !.ld[p.e2].cvn = SpareCv(sh)]
  IN /\ At(t, "target") /\ UNCHANGED left
     /\ IF p.free THEN sh' = Got(made, p.e2) /\ To(t, "move", [p EXCEPT !.c2 = SpareCv(sh)])
        ELSE IF c = Null THEN To(t, "oops", p) /\ sh' = sh
        ELSE /\ sh' = IF d = p.r2 THEN Got(sh, p.e2) ELSE [RDput(RDget(Got(sh, p.e2), p.r2), d) EXCEPT !.cv[c].dent = p.r2]
             /\ To(t, "move", [p EXCEPT !.c2 = c])
RMoved(s, a, b) == [s EXCEPT !.disk[s.rd[b].nm] = s.rd[a].ino, !.disk[s.rd[a].nm] = Null,
                             !.rd[a].nm = s.rd[b].nm, !.rd[b].nm = s.rd[a].nm, !.rd[b].hashed = FALSE]
Move(t) ==
  LET p == pr[t]
      put(s) == Unlock(Unlock(RDput(s, p.r2), p.e, p.c, FALSE), p.e2, p.c2, FALSE)
      a == sh.rd[p.r]
      moved == RMoved(sh, p.r, p.r2)
      named == [moved EXCEPT !.ld[p.e].nm = p.nm2, !.ld[p.e2].nm = p.nm, !.ld[p.e2].hashed = FALSE, !.ld[p.e].hashed = TRUE]
  IN /\ At(t, "move") /\ UNCHANGED left
     /\ IF a.ino = Null \/ ~a.hashed \/ ~a.here \/ a.ino = sh.rd[p.r2].ino THEN End(t, put(sh))
        ELSE End(t, put(named)) \/ End(t, put(sh))

-----------------------------------------------------------------------------
(* Processes in the real directory.                                         *)
NativeLock(t) == \E n \in Names, op \in left.native :
  /\ At(t, "idle") /\ left.nmax > 0 /\ sh.disk[n] # Null /\ sh.lock[RDir] = Null /\ Room(sh)
  /\ left' = [left EXCEPT !.nmax = @ - 1]
  /\ sh' = RLooked(Lk(sh, RDir, t), n) /\ To(t, op, [NoPr EXCEPT !.nm = n, !.r = RFind(sh, n)])
NativeUnlink(t) ==
  LET p == pr[t]
      o == sh.rd[p.r].ino
  IN /\ At(t, "nunlink") /\ UNCHANGED left /\ sh.lock[o] = Null
     /\ End(t, RDput(Gone(sh, p.r), p.r))
\* To another directory.
NativeMove(t) == LET p == pr[t] IN
  /\ At(t, "nmove") /\ UNCHANGED left
  /\ End(t, RDput([sh EXCEPT !.disk[p.nm] = Null, !.rd[p.r].here = FALSE], p.r))
NativeSetattr == \E o \in Links :
  /\ "nattr" \in left.native /\ left.nmax > 0 /\ (\E n \in Names : sh.disk[n] = o)
  /\ sh' = [sh EXCEPT !.attr[o] = 1] /\ left' = [left EXCEPT !.nmax = @ - 1] /\ UNCHANGED pr

ShInit ==
  /\ left \in ShJobs
  /\ sh = [disk |-> left.full, rd |-> [r \in RDents |-> NoRd], cv |-> [c \in Cvns |-> NoCv], ld |-> [e \in LDents |-> NoLd],
           attr |-> [o \in Real |-> 0], lock |-> [o \in Real \cup {RDir, LDir} |-> Null]]
  /\ pr = [t \in Threads \cup Native |-> NoPr]
ShThread(t) == \/ Start(t) \/ Walk(t) \/ Lookup(t) \/ Reval(t) \/ RevalShadow(t) \/ RevalDir(t) \/ Replace(t) \/ Stale(t)
               \/ Readlink(t) \/ FollowLink(t) \/ GetAttr(t) \/ SetAttr(t) \/ Xattr(t) \/ Use(t) \/ Keep(t) \/ Permission(t) \/ Permitted(t)
               \/ Removes(t) \/ LockDir(t) \/ Remove(t) \/ Symlink(t) \/ Mknod(t) \/ Mkdir(t)
               \/ RenameGet(t) \/ RenameTarget(t) \/ Move(t)
ShNext == \/ \E t \in Threads : ShThread(t)
          \/ \E t \in Native : NativeLock(t) \/ NativeUnlink(t) \/ NativeMove(t)
          \/ NativeSetattr

-----------------------------------------------------------------------------
Count(S) == Cardinality(S)
LookingAt(t, e) == pr[t].r = e /\ pr[t].pc \in {"reval", "revalshadow", "revaldir", "replace", "stale"}
\* References add up: of the real dentries, which the cleartext vnodes and the walkers
\* keep; of the cleartext vnodes, which the dentries and the handlers keep; and whoever
\* works on a real dentry that it took with REALDENTRY_LOCKED works on one that still
\* exists (vnlayer_get_realdentry_locked, vnlayer_realdentry_unlock and their users); so
\* does the check of permissions, which takes nothing, while its dentry keeps its cleartext
\* vnode: another walk gives it up under the check when others have removed the object
\* (mvfs_linux_shadow.c 476-500).  Two walkers that replace the real dentry of one moved
\* directory give its cleartext vnode back twice: no job has that.
RealHeld ==
  /\ \A r \in RDents : sh.rd[r].cnt = Count({c \in Cvns : sh.cv[c].dent = r /\ \A t \in Threads : ~(pr[t].pc = "replace" /\ pr[t].c = c)}) + Count({t \in DOMAIN pr :
                         \/ t \in Native /\ pr[t].r = r
                         \/ pr[t].pc \in {"target", "move"} /\ pr[t].r2 = r
                         \/ pr[t].pc = "use" /\ pr[t].op \in Dgets /\ pr[t].r = r})
  /\ \A c \in Cvns : sh.cv[c].cnt = Count({e \in LDents : sh.ld[e].cvn = c}) + Count({t \in Threads : pr[t].c = c})
                                    + Count({t \in Threads : pr[t].c2 = c})
  /\ \A e \in LDents : sh.ld[e].cnt =
       Count({t \in Threads : pr[t].e = e}) + Count({t \in Threads : pr[t].cwd = e}) + Count({t \in Threads : pr[t].e2 = e}) + Count({t \in Threads : LookingAt(t, e)})
       + Count({t \in Threads : pr[t].c # Null /\ (IF LookingAt(t, e) THEN TRUE ELSE pr[t].e = e /\ pr[t].pc \notin {"revalshadow", "revaldir", "replace"})})
       + Count({t \in Threads : pr[t].c2 # Null /\ pr[t].e2 = e})
  /\ \A t \in Threads : /\ pr[t].pc \in {"use", "lockdir", "remove", "target", "move"} /\ pr[t].c # Null => sh.rd[pr[t].r].cnt > 0
                        /\ pr[t].pc \in {"revalshadow", "revaldir"} => sh.rd[pr[t].r2].cnt > 0
                        /\ pr[t].pc = "permit" /\ sh.ld[pr[t].e].cvn # Null => sh.rd[pr[t].r].cnt > 0

\* A walk ends at the object that the real directory has under that name, unless it was
\* removed or renamed while the walk went on: what was removed through either directory,
\* and replaced by a new object of that name, is no longer found behind a cached dentry.
\* Of a cached directory this is claimed while its real dentry is hashed and leads to it:
\* revalidation accepts one that others removed (it looks for it among the children of the
\* real directory and not at d_unhashed, mvfs_linux_dops.c 219-245), and the kernel
\* keeps one that is in use though revalidation refuses it.  What others rename without
\* the module is not recognised, and no job has it (vnode_shadow_dop_revalidate,
\* vnode_dop_revalidate, mvop_linux_lookup_component).
Ends(t) ==
  LET p == pr'[t]
      x == sh'.ld[IF pr[t].e = Null THEN p.e ELSE p.e2]
  IN p.pc \notin {"walk", "reval", "revalshadow", "revaldir", "replace", "stale", "idle"} =>
     (x.hashed /\ x.nm = Which(t) => x.ino = sh.disk[Which(t)])
Leads(t) == sh.rd[pr[t].r2].hashed /\ sh.rd[pr[t].r2].ino = sh.ld[pr[t].r].ino
SameObject == [][\A t \in Threads :
  pr[t].pc \in {"walk", "revalshadow"} \/ (pr[t].pc = "revaldir" /\ Leads(t)) => Ends(t)]_shVars
=============================================================================
