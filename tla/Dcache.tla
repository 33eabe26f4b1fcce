------------------------------ MODULE Dcache --------------------------------
(***************************************************************************)
(* The names of VOB objects in the dentry cache of Linux (mvfs_linux_iops, *)
(* mvfs_linux_dops, mvfs_linux_utils, mvfs_linux_sops).  An object has     *)
(* dentries in two trees: under the view tag, "ext", and, for processes    *)
(* with a view set, under the mount point, "set".  d_compare never         *)
(* matches, so that every component is looked up in the file system, which *)
(* then chooses the dentry; a dentry that nobody holds is discarded at     *)
(* once.  An operation on a name also has to bring its peer in the other   *)
(* tree up to date.                                                        *)
(*                                                                         *)
(* ns is what the view selects: the entries of each directory.  dc.dent is *)
(* the cache, dc.ref[o] the number of references to the inode of o and     *)
(* dc.lost[o] how many of them nobody will ever give back.  The            *)
(* system calls hold the inode mutexes of the directories, act[t].lk, from *)
(* the lookup to the end; lookups and changes of the view are steps of     *)
(* their own, between which dentries are flushed, revalidated or found by  *)
(* NFS handle.                                                             *)
(***************************************************************************)
EXTENDS Integers, FiniteSets, TLC

CONSTANTS
  Null,
  Threads,
  Root, Dirs, Files, \* objects: the root of the VOB, other directories, files
  Names,
  Dents,             \* dentries below the roots
  RootOf,            \* the dentries of the root of the VOB, by tree
  Jobs               \* ops, max (system calls begun), full (the names at the start)

VARIABLES ns, dc, act, job

Trees == {"ext", "set"}
Other(o) == IF o = "ext" THEN "set" ELSE "ext"
AllDirs == Dirs \cup {Root}
Objs == AllDirs \cup Files
AllDents == Dents \cup {RootOf[o] : o \in Trees}
NoDent == [ino |-> Null, par |-> Null, nm |-> Null, ops |-> Null, hashed |-> FALSE, disc |-> FALSE, cnt |-> 0]
NoAct == [op |-> Null, pc |-> "idle", lk |-> {}, dir |-> Null, nm |-> Null, dir2 |-> Null, nm2 |-> Null, ino |-> Null,
          new |-> Null, tg |-> Null, tg2 |-> Null, peer |-> Null, opeer |-> Null, npeer |-> Null]

-----------------------------------------------------------------------------
(* The dcache of the kernel, as the module uses it.                         *)
D(s, d) == s.dent[d]
IsRoot(d) == d \notin Dents
Dget(s, d) == IF d = Null THEN s ELSE [s EXCEPT !.dent[d].cnt = @ + 1]
Iput(s, o) == IF o = Null THEN s ELSE [s EXCEPT !.ref[o] = @ - 1]
Igrab(s, o) == [s EXCEPT !.ref[o] = @ + 1]
RECURSIVE Dput(_, _)
\* The last reference: vnode_dop_delete has the entry unhashed, and the kernel frees it.
Dput(s, d) == IF d = Null THEN s
              ELSE IF D(s, d).cnt > 1 THEN [s EXCEPT !.dent[d].cnt = @ - 1]
              ELSE LET t == [Iput(s, D(s, d).ino) EXCEPT !.dent[d] = NoDent]
                   IN IF D(s, d).disc THEN t ELSE Dput(t, D(s, d).par)
Unused(s) == {d \in Dents : D(s, d).cnt = 0}
Spare(s) == CHOOSE d \in Unused(s) : TRUE
\* d_alloc and the dentry operations, those of the parent.
Alloc(s, d, p, n) == [Dget(s, p) EXCEPT !.dent[d] = [NoDent EXCEPT !.par = p, !.nm = n, !.ops = D(s, p).ops, !.cnt = 1]]
Ddrop(s, d) == [s EXCEPT !.dent[d].hashed = FALSE]
Add(s, d, o) == [s EXCEPT !.dent[d].ino = o, !.dent[d].hashed = TRUE]       \* d_add: uses up the reference to o
\* d_invalidate fails for a directory that others hold too.
Dinvalidate(s, d) == IF D(s, d).ino \in AllDirs /\ D(s, d).cnt > 1 THEN s ELSE Ddrop(s, d)
\* d_delete, after a removal.
Ddelete(s, d) == IF D(s, d).cnt = 1 THEN [Iput(s, D(s, d).ino) EXCEPT !.dent[d].ino = Null] ELSE Ddrop(s, d)
\* d_move: a takes the place of b, which is unhashed.
Dmove(s, a, b) ==
  LET pa == D(s, a).par
      pb == D(s, b).par
      t == [s EXCEPT !.dent[a].par = pb, !.dent[a].nm = D(s, b).nm, !.dent[a].hashed = TRUE, !.dent[a].disc = FALSE,
                     !.dent[b].par = IF D(s, a).disc THEN pb ELSE pa, !.dent[b].nm = D(s, a).nm, !.dent[b].hashed = FALSE]
  IN IF D(s, a).disc THEN Dget(t, pb) ELSE t

-----------------------------------------------------------------------------
(* vnlayer_inode2dentry_internal: a dentry of o, in tree ops if that is not *)
(* Null, under p and named n where these matter; connected ones first.      *)
Alias(s, o, p, n, ops, disc) == {d \in AllDents :
  LET x == D(s, d) IN
  /\ x.cnt > 0 /\ x.ino = o /\ ops \in {Null, x.ops}
  /\ p = Null \/ x.par = p \/ (disc /\ x.disc)
  /\ o \notin AllDirs => n \in {Null, x.nm} /\ x.hashed
  /\ disc \/ ~x.disc}
Inode2dentry(s, o, p, n, ops) ==
  LET C == Alias(s, o, p, n, ops, FALSE)
      A == Alias(s, o, p, n, ops, TRUE)
  IN IF C # {} THEN C ELSE IF A # {} THEN A ELSE {Null}

\* vnlayer_dentry_peer: the same name in the other tree.
Peers(s, d) ==
  LET x == D(s, d)
  IN IF x.ino \in AllDirs THEN Inode2dentry(s, x.ino, Null, Null, Other(x.ops))
     ELSE UNION {IF p = Null THEN {Null} ELSE Inode2dentry(s, x.ino, p, x.nm, Other(x.ops)) :
                 p \in Inode2dentry(s, D(s, x.par).ino, Null, Null, Other(x.ops))}
\* vnlayer_rename_peer: the directories in the other tree where such a name can be made.
PeerParents(s, d) == IF IsRoot(d) THEN {Null} ELSE Peers(s, D(s, d).par)

-----------------------------------------------------------------------------
InodeLocked(o) == \E t \in Threads : o \in act[t].lk
Goto(t, p, a) == act' = [act EXCEPT ![t] = [a EXCEPT !.pc = p]]
\* The system call ends and lets go of its dentries.
Released(s, a) == Dput(Dput(Dput(Dput(Dput(s, a.npeer), a.opeer), a.peer), a.tg2), a.tg)
Finish(t, s, a) == act' = [act EXCEPT ![t] = [NoAct EXCEPT !.dir = a.dir]] /\ dc' = Released(s, a)
Has(op) == op \in job.ops
Step(t, p) == act[t].pc = p

Here(t) == {RootOf[o] : o \in Trees} \cup ({act[t].dir} \ {Null})
\* A system call on name n in directory e, a root or where the thread is; act[t].dir stays
\* the directory or file that the thread holds.
Begin(t) == \E op \in job.ops \ {"rename", "reval", "flush", "nfs", "far", "nomem"}, e \in Here(t), n \in Names :
  /\ Step(t, "idle") /\ job.max > 0 /\ D(dc, e).ino \in AllDirs /\ ~InodeLocked(D(dc, e).ino) /\ Unused(dc) # {}
  /\ op = "link" => act[t].dir # Null /\ D(dc, act[t].dir).ino \in Files
  /\ job' = [job EXCEPT !.max = @ - 1]
  /\ Goto(t, "lookup", [act[t] EXCEPT !.op = op, !.dir2 = e, !.nm = n, !.lk = {D(dc, e).ino}])
  /\ UNCHANGED <<ns, dc>>
BeginRename(t) == \E e, f \in Here(t), n, m \in Names :
  /\ Step(t, "idle") /\ Has("rename") /\ job.max > 0 /\ Cardinality(Unused(dc)) > 1
  /\ D(dc, e).ino \in AllDirs /\ D(dc, f).ino \in AllDirs /\ D(dc, e).ops = D(dc, f).ops /\ <<e, n>> # <<f, m>>
  /\ ~InodeLocked(D(dc, e).ino) /\ ~InodeLocked(D(dc, f).ino)
  /\ job' = [job EXCEPT !.max = @ - 1]
  /\ Goto(t, "lookup", [act[t] EXCEPT !.op = "rename", !.dir2 = e, !.nm = n, !.tg2 = f, !.nm2 = m,
                                      !.lk = {D(dc, e).ino, D(dc, f).ino}])
  /\ dc' = Dget(dc, f) /\ UNCHANGED ns

-----------------------------------------------------------------------------
(* vnode_iop_lookup.                                                        *)
Lookup(t) == LET a == act[t] IN
  /\ Step(t, "lookup") /\ Unused(dc) # {}
  /\ LET d == Spare(dc)
         o == ns[D(dc, a.dir2).ino][a.nm]
         s == Alloc(dc, d, a.dir2, a.nm)
     IN dc' = (IF o = Null THEN s ELSE Igrab(s, o)) /\ Goto(t, "looked", [a EXCEPT !.new = d, !.ino = o])
  /\ UNCHANGED <<ns, job>>
After(a) == IF a.op # "rename" THEN a.op ELSE IF a.tg = Null THEN "second" ELSE "rename"
Chosen(t, s, d) == Goto(t, After(act[t]), [act[t] EXCEPT !.tg = IF @ = Null THEN d ELSE @, !.peer = IF act[t].tg = Null THEN @ ELSE d,
                                                         !.new = Null, !.ino = Null]) /\ dc' = s
\* The existing dentry: by parent and name, for a directory by parent alone; one
\* that NFS made takes the place of the proposed one.
Existing(s, o, x) == Inode2dentry(s, o, x.par, IF o \in AllDirs THEN Null ELSE x.nm, x.ops)
Reused(s, a, f) == Dput(Iput(IF D(s, f).disc THEN Dmove(s, f, a.new) ELSE s, a.ino), a.new)
LookupDone(t) ==
  LET a == act[t]
      x == D(dc, a.new)
  IN /\ Step(t, "looked") /\ UNCHANGED <<ns, job>>
     /\ IF a.ino = Null THEN Chosen(t, Add(dc, a.new, Null), a.new)
        ELSE \E f \in Existing(dc, a.ino, x) :
          IF f = Null THEN Chosen(t, Add(dc, a.new, a.ino), a.new)
          ELSE Chosen(t, Reused(Dget(dc, f), a, f), f)
\* The attributes cannot be had: the reference is dropped, and the system call fails.
LookupFails(t) == LET a == act[t] IN
  /\ Step(t, "looked") /\ a.ino # Null /\ UNCHANGED <<ns, job>>
  /\ Finish(t, Dput(Iput(dc, a.ino), a.new), a)
\* No memory for the attributes: rele is not set yet, and the reference is lost.
LookupNoMem(t) == LET a == act[t] IN
  /\ Step(t, "looked") /\ Has("nomem") /\ UNCHANGED <<ns, job>>
  /\ Finish(t, Dput(IF a.ino = Null THEN dc ELSE [dc EXCEPT !.lost[a.ino] = @ + 1], a.new), a)
\* The second name of a rename; its directory was kept in tg2.
Second(t) == LET a == act[t] IN
  /\ Step(t, "second") /\ UNCHANGED <<ns, job>>
  /\ IF D(dc, a.tg).ino = Null THEN Finish(t, dc, a)
     ELSE Goto(t, "lookup", [a EXCEPT !.dir2 = a.tg2, !.nm = a.nm2]) /\ dc' = dc

-----------------------------------------------------------------------------
(* Operations on the name that was looked up, a.tg.                         *)
\* chdir, open: the thread holds the object from now on.
Stay(t) == LET a == act[t] IN
  /\ Step(t, "go") /\ UNCHANGED <<ns, job>>
  /\ IF D(dc, a.tg).ino = Null THEN Finish(t, dc, a)
     ELSE act' = [act EXCEPT ![t] = [NoAct EXCEPT !.dir = a.tg]] /\ dc' = Dput(dc, a.dir)
Fresh(S) == {o \in S : dc.ref[o] = 0 /\ \A e \in AllDirs, n \in Names : ns[e][n] # o}
At(a) == D(dc, D(dc, a.tg).par).ino
\* vnode_iop_create, vnode_iop_mkdir and vnode_iop_symlink: the dentry is bound to the
\* new object.
Make(t, op, S) == LET a == act[t] IN
  /\ Step(t, op) /\ UNCHANGED job
  /\ IF D(dc, a.tg).ino # Null THEN Finish(t, dc, a) /\ UNCHANGED ns
     ELSE \/ \E o \in Fresh(S) : ns' = [ns EXCEPT ![At(a)][a.nm] = o] /\ Finish(t, Add(Igrab(dc, o), a.tg, o), a)
          \/ Finish(t, dc, a) /\ UNCHANGED ns                          \* refused
Create(t) == Make(t, "create", Files)
Mkdir(t) == Make(t, "mkdir", Dirs)
Symlink(t) == Make(t, "symlink", Files)
\* vnode_iop_mknod: a VOB has no devices.
Mknod(t) == Step(t, "mknod") /\ Finish(t, dc, act[t]) /\ UNCHANGED <<ns, job>>
\* vnode_iop_link: the file that the thread has open.
Link(t) ==
  LET a == act[t]
      o == D(dc, a.dir).ino
  IN /\ Step(t, "link") /\ UNCHANGED job
     /\ IF D(dc, a.tg).ino # Null \/ (\A e \in AllDirs, n \in Names : ns[e][n] # o)
        THEN Finish(t, dc, a) /\ UNCHANGED ns
        ELSE ns' = [ns EXCEPT ![At(a)][a.nm] = o] /\ Finish(t, Add(Igrab(dc, o), a.tg, o), a)

\* vnode_iop_unlink and vnode_iop_rmdir: the peer is found first.  The name that is
\* removed is that of the dentry.
Removable(a) == LET o == D(dc, a.tg).ino IN
  IF a.op = "unlink" THEN o \in Files ELSE o \in Dirs /\ \A n \in Names : ns[o][n] = Null
Unlink(t) == LET a == act[t] IN
  /\ a.pc \in {"unlink", "rmdir"} /\ UNCHANGED <<ns, job>>
  /\ IF ~Removable(a) THEN Finish(t, dc, a)
     ELSE \E p \in Peers(dc, a.tg) :
            /\ ~InodeLocked(D(dc, a.tg).ino)
            /\ Goto(t, "remove", [a EXCEPT !.peer = p, !.lk = @ \cup {D(dc, a.tg).ino}]) /\ dc' = Dget(dc, p)
DropPeer(s, a) == IF a.peer = Null THEN s ELSE IF a.op = "unlink" THEN Ddrop(s, a.peer) ELSE Dinvalidate(s, a.peer)
Remove(t) ==
  LET a == act[t]
      x == D(dc, a.tg)
  IN /\ Step(t, "remove") /\ UNCHANGED job
     /\ \/ Removable(a) /\ ns[At(a)][x.nm] # Null
           /\ ns' = [ns EXCEPT ![At(a)][x.nm] = Null]
           /\ Finish(t, Dput(Ddelete(DropPeer(dc, a), a.tg), a.peer), [a EXCEPT !.peer = Null])
        \/ Finish(t, dc, a) /\ UNCHANGED ns

\* vnode_iop_rename: from a.tg to a.peer, which is the dentry of the second name here.
OldDir(a) == At(a)
NewDir(a) == D(dc, a.tg2).ino
\* What the kernel refuses of the dentries, and the view server of what the names stand for.
Fits(o, q, to) == o \notin {Null, q, to} /\ (q # Null => (o \in Files) = (q \in Files))
                  /\ (o \in Dirs => \A n \in Names : ns[o][n] # to)
Movable(a) == Fits(D(dc, a.tg).ino, D(dc, a.peer).ino, NewDir(a)) /\ D(dc, a.peer).ino # OldDir(a)
Accepted(a) ==
  LET q == ns[NewDir(a)][D(dc, a.peer).nm]
  IN Fits(ns[OldDir(a)][D(dc, a.tg).nm], q, NewDir(a)) /\ (q \in Dirs => \A n \in Names : ns[q][n] = Null)
\* The peers of both names, as far as they exist or can be made.
OldPeer(s, a) == Peers(s, a.tg)
NewPeer(s, a) == IF D(s, a.peer).ino # Null THEN Peers(s, a.peer) ELSE {Null}
MakePeer(s, q, n, o) == LET d == Spare(s)
                            u == Alloc(s, d, q, n)
                        IN IF o = Null THEN u ELSE [Igrab(u, o) EXCEPT !.dent[d].ino = o]
Drop(s, d) == Dput(Ddrop(s, d), d)
Renamed(a) == LET n == D(dc, a.tg).nm
              IN [ns EXCEPT ![OldDir(a)][n] = Null, ![NewDir(a)][D(dc, a.peer).nm] = ns[OldDir(a)][n]]
\* The peers are found, or made to be merged, and held.
RenamePeers(t) ==
  LET a == act[t]
      o == D(dc, a.tg).ino
      q0 == D(dc, a.peer).ino
  IN /\ Step(t, "rename") /\ UNCHANGED <<ns, job>>
     /\ IF ~Movable(a) THEN Finish(t, dc, a)
        ELSE /\ ~InodeLocked(q0)
             /\ \E p \in OldPeer(dc, a), q \in NewPeer(dc, a) :
                LET held == Dget(Dget(dc, p), q)
                    par == IF p = Null /\ q # Null THEN PeerParents(dc, a.tg)
                           ELSE IF p # Null /\ q = Null THEN PeerParents(dc, a.peer) ELSE {Null}
                IN \E r \in par :
                   LET s == IF r = Null \/ Unused(held) = {} THEN held
                            ELSE MakePeer(held, r, IF p = Null THEN D(dc, a.tg).nm ELSE D(dc, a.peer).nm, IF p = Null THEN o ELSE Null)
                       made == IF s = held THEN Null ELSE Spare(held)
                       op == IF p = Null /\ q # Null THEN made ELSE p
                       np == IF q = Null /\ p # Null THEN made ELSE q
                   IN IF op # Null /\ np = Null /\ o \in AllDirs
                      THEN Finish(t, Dput(s, op), a)                                    \* EBUSY
                      ELSE Goto(t, "rnrpc", [a EXCEPT !.opeer = op, !.npeer = np, !.lk = @ \cup ({q0} \ {Null})]) /\ dc' = s
\* The view server renames; refused, the peers stay as they are.
RenameRpc(t) == LET a == act[t] IN
  /\ Step(t, "rnrpc") /\ UNCHANGED job
  /\ \/ Accepted(a) /\ ns' = Renamed(a) /\ Goto(t, "rnpeers", a) /\ dc' = dc
     \/ Finish(t, dc, a) /\ UNCHANGED ns
\* Mutant: the peer keeps its old name.
PeersStay(s, op, np) == s
\* d_move of the peers, or the loss of the one that has no counterpart.
PeersMoved(s, op, np) ==
  IF op # Null /\ np # Null THEN Dmove(s, op, np)
  ELSE IF op # Null THEN Ddrop(s, op)
  ELSE IF np # Null THEN Ddrop(s, np) ELSE s
RenamePeersMove(t) == LET a == act[t] IN
  /\ Step(t, "rnpeers") /\ UNCHANGED <<ns, job>>
  /\ dc' = PeersMoved(dc, a.opeer, a.npeer) /\ Goto(t, "rnmove", a)
\* VNODE_DPUT of the peers, and the kernel's own d_move, after the call.
RenameMove(t) == LET a == act[t] IN
  Step(t, "rnmove") /\ UNCHANGED <<ns, job>> /\ Finish(t, Dmove(dc, a.tg, a.peer), a)

-----------------------------------------------------------------------------
(* Without a lock on the directory.                                         *)
\* vnode_dop_revalidate of the place where a thread is.
Revalidate(t) ==
  LET d == act[t].dir
      x == D(dc, d)
      o == ns[D(dc, x.par).ino][x.nm]
  IN /\ Has("reval") /\ Step(t, "idle") /\ d \in Dents /\ ~x.disc /\ UNCHANGED <<ns, job, act>>
     /\ o # x.ino /\ (x.ino \in AllDirs => o # Null)
     /\ dc' = Dinvalidate(dc, d) /\ dc' # dc
\* mdki_finish_flush_dcache: every dentry of an object is unhashed.
Flush == \E o \in Objs \ {Root} :
  /\ Has("flush") /\ UNCHANGED <<ns, job, act>>
  /\ dc' = [dc EXCEPT !.dent = [d \in AllDents |-> IF @[d].ino = o THEN [@[d] EXCEPT !.hashed = FALSE] ELSE @[d]]]
  /\ dc' # dc
\* vnlayer_get_dentry, vnlayer_find_dentry: an NFS request finds an object by handle;
\* where it has no dentry, one without a name is made.
NfsGet(t) == \E o \in Objs \ {Root} :
  /\ Has("nfs") /\ Step(t, "idle") /\ act[t].dir = Null /\ job.max > 0 /\ Unused(dc) # {}
  /\ dc.ref[o] > 0 \/ \E e \in AllDirs, n \in Names : ns[e][n] = o
  /\ \E f \in Inode2dentry(dc, o, Null, Null, "ext") :
       LET d == Spare(dc)
       IN /\ dc' = IF f # Null THEN Dget(dc, f)
                   ELSE [Igrab(dc, o) EXCEPT !.dent[d] = [ino |-> o, par |-> d, nm |-> Null, ops |-> "ext",
                                                          hashed |-> TRUE, disc |-> TRUE, cnt |-> 1]]
          /\ act' = [act EXCEPT ![t].dir = IF f # Null THEN f ELSE d]
  /\ job' = [job EXCEPT !.max = @ - 1] /\ UNCHANGED ns
Leave(t) ==
  /\ Step(t, "idle") /\ act[t].dir # Null /\ dc' = Dput(dc, act[t].dir)
  /\ act' = [act EXCEPT ![t].dir = Null] /\ UNCHANGED <<ns, job>>
\* Another host changes the root at any time: it renames, or removes a file.
Far == \E n, m \in Names :
  /\ Has("far") /\ job.max > 0 /\ (n = m => ns[Root][n] \in Files)
  /\ ns' = [ns EXCEPT ![Root] = [@ EXCEPT ![m] = ns[Root][n], ![n] = IF n = m THEN Null ELSE ns[Root][m]]]
  /\ job' = [job EXCEPT !.max = @ - 1] /\ UNCHANGED <<dc, act>>

DcInit ==
  /\ job \in Jobs
  /\ ns = [e \in AllDirs |-> [n \in Names |-> IF e = Root THEN job.full[n] ELSE Null]]
  /\ dc = [dent |-> [d \in AllDents |-> IF d \in Dents THEN NoDent
                       ELSE [ino |-> Root, par |-> d, nm |-> Null, ops |-> CHOOSE o \in Trees : RootOf[o] = d,
                             hashed |-> TRUE, disc |-> FALSE, cnt |-> 1]],
           ref |-> [o \in Objs |-> IF o = Root THEN 2 ELSE 0], lost |-> [o \in Objs |-> 0]]
  /\ act = [t \in Threads |-> NoAct]
DcThread(t) == \/ Begin(t) \/ BeginRename(t) \/ Lookup(t) \/ LookupDone(t) \/ LookupFails(t) \/ LookupNoMem(t) \/ Second(t) \/ Stay(t)
               \/ Create(t) \/ Mkdir(t) \/ Symlink(t) \/ Mknod(t) \/ Link(t) \/ Unlink(t) \/ Remove(t)
               \/ RenamePeers(t) \/ RenameRpc(t) \/ RenamePeersMove(t) \/ RenameMove(t)
               \/ Revalidate(t) \/ NfsGet(t) \/ Leave(t)
DcNext == (\E t \in Threads : DcThread(t)) \/ Flush \/ Far

-----------------------------------------------------------------------------
Gone(o) == \A e \in AllDirs, n \in Names : ns[e][n] # o
Holders(d) ==
  LET N(P(_)) == Cardinality({t \in Threads : P(t)})
  IN N(LAMBDA t : act[t].dir = d) + N(LAMBDA t : act[t].new = d) + N(LAMBDA t : act[t].tg = d)
     + N(LAMBDA t : act[t].tg2 = d) + N(LAMBDA t : act[t].peer = d)
     + N(LAMBDA t : act[t].opeer = d) + N(LAMBDA t : act[t].npeer = d)
     + Cardinality({e \in Dents : D(dc, e).par = d /\ e # d /\ D(dc, e).cnt > 0}) + (IF IsRoot(d) THEN 1 ELSE 0)
\* Dentries and inodes are referenced by those who hold them and no one else, also after
\* renames that move two dentries at once and operations that fail half way, but for the
\* reference that a lookup loses when it has no memory (dc.lost); each tree has one hashed
\* dentry for a name in use and none of the other tree (vnode_iop_lookup,
\* vnode_iop_rename, vnlayer_find_dentry).
DentriesSound ==
  /\ \A o \in Objs : dc.ref[o] = Cardinality({d \in AllDents : D(dc, d).ino = o}) + Cardinality({t \in Threads : act[t].ino = o}) + dc.lost[o]
  /\ \A d \in AllDents : D(dc, d).cnt = Holders(d)
  /\ \A d, e \in Dents : LET x == D(dc, d)
                             y == D(dc, e)
                         IN x.cnt > 0 => /\ x.ops = D(dc, x.par).ops
                                         /\ (d # e /\ ~Has("far") /\ x.hashed /\ y.hashed /\ x.ino # Null /\ y.ino # Null /\ x.nm # Null /\ ~Gone(x.ino) /\ ~Gone(y.ino)
                                             => <<x.par, x.nm>> # <<y.par, y.nm>>)

\* A name in either tree leads to the object the view selects, when nobody is changing
\* its directory: what was removed or renamed through the other tree is no longer
\* there, except a removed directory that is in use, and what other hosts changed
\* (vnlayer_dentry_peer, vnode_iop_unlink, vnode_iop_rename).
NamesTrue == \A d \in Dents :
  LET x == D(dc, d) IN
  x.hashed /\ x.ino # Null /\ ~x.disc /\ ~Has("far") /\ D(dc, x.par).ino # Null /\ ~InodeLocked(D(dc, x.par).ino) =>
     \/ ns[D(dc, x.par).ino][x.nm] = x.ino
     \/ x.ino \in Dirs /\ Gone(x.ino)
=============================================================================
