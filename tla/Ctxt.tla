------------------------------- MODULE Ctxt ---------------------------------
(***************************************************************************)
(* Open files on Linux (mvfs_linux_fops and the file operations of         *)
(* mvfs_linux_mvops).  Behind each open MVFS file is an open cleartext     *)
(* file, REALFILE(fp), which MVFS opens, closes, locks and maps itself, in *)
(* place of the kernel: the write count of the cleartext inode, the counts *)
(* of the cleartext file and the two POSIX locks have to come out as if    *)
(* the kernel had done it.                                                 *)
(*                                                                         *)
(* ct.fp are the MVFS files, ct.rf the cleartext files, ct.map mappings,   *)
(* ct.wc the write counts of the cleartext inodes; ct.fds the descriptors  *)
(* of each process, which forked ones share.  Locks are exclusive and of   *)
(* whole files, so an inode has at most one, of a process: ct.own of the   *)
(* MVFS inode, ct.held of the cleartext inode with the file it was set on. *)
(* ct.refused: the MVFS lock was refused with the other granted.           *)
(***************************************************************************)
EXTENDS Integers, FiniteSets

CONSTANTS
  Null,
  Tasks, ProcOf,    \* threads, and the process of each
  Clears,           \* cleartext inodes
  Fps, Rfs, Maps,   \* MVFS files, cleartext files, mappings
  CtJobs            \* ops, max (calls begun), fails (locks of the MVFS file are refused),
                    \* method (the cleartext file system has a lock method)

VARIABLES ct, tk, todo

Owners == {ProcOf[t] : t \in Tasks}
NoFp == [cnt |-> 0, real |-> Null, write |-> FALSE, ino |-> Null]
NoRf == [cnt |-> 0, ino |-> Null, write |-> FALSE]
NoMap == [file |-> Null, deny |-> FALSE]
NoTk == [pc |-> "idle", f |-> Null, r |-> Null, m |-> Null, flag |-> FALSE]
First(S) == CHOOSE x \in S : TRUE
Mine(t) == ct.fds[ProcOf[t]]
Is(t, p) == tk[t].pc = p
Go(t, p, x) == tk' = [tk EXCEPT ![t] = [x EXCEPT !.pc = p]]
Done(t, s) == tk' = [tk EXCEPT ![t] = NoTk] /\ ct' = s
Begin(t, op) == /\ Is(t, "idle") /\ op \in todo.ops /\ todo.max > 0
                /\ todo' = [todo EXCEPT !.max = @ - 1]

-----------------------------------------------------------------------------
(* File references, of the kernel: fput of a cleartext file, and of an MVFS *)
(* file, whose last reference is vnode_fop_release.                         *)
Rfput(s, r) == IF s.rf[r].cnt > 1 THEN [s EXCEPT !.rf[r].cnt = @ - 1]
               ELSE [s EXCEPT !.rf[r] = NoRf, !.wc[s.rf[r].ino] = IF s.rf[r].write THEN @ - 1 ELSE @]
\* The kernel removes the lock of a process on an inode, whichever file it was set on.
Without(L, p) == IF L # Null /\ L.by = p THEN Null ELSE L
\* mvop_linux_close, the last: a lock of the file that is still there is removed, for its owner;
\* then filp_close removes that of the closing process.
CloseKernel(s, p, r) ==
  LET L == s.held[s.rf[r].ino]
  IN [s EXCEPT !.held[s.rf[r].ino] = Without(IF L # Null /\ L.file = r THEN Null ELSE L, p)]
Release(s, p, f) == LET r == s.fp[f].real
                    IN IF r = Null THEN [s EXCEPT !.fp[f] = NoFp] ELSE Rfput(CloseKernel([s EXCEPT !.fp[f] = NoFp], p, r), r)
Fput(s, p, f) == IF s.fp[f].cnt > 1 THEN [s EXCEPT !.fp[f].cnt = @ - 1] ELSE Release(s, p, f)
Fget(s, f) == [s EXCEPT !.fp[f].cnt = @ + 1]

-----------------------------------------------------------------------------
(* vnode_fop_open, mvop_linux_open and mvop_linux_open_kernel.              *)
Open(t) == \E x \in Clears, w \in BOOLEAN, tr \in BOOLEAN :
  /\ Begin(t, "open") /\ (tr => w)
  /\ {f \in Fps : ct.fp[f].cnt = 0} # {}
  /\ LET f == First({g \in Fps : ct.fp[g].cnt = 0})
     IN /\ ct' = [ct EXCEPT !.fp[f] = [cnt |-> 1, real |-> Null, write |-> w, ino |-> x]]
        /\ Go(t, IF tr THEN "trunc" ELSE "getattr", [NoTk EXCEPT !.f = f])
OpenFails(t, s) == Done(t, Fput(s, ProcOf[t], tk[t].f))
Clear(t) == ct.fp[tk[t].f].ino
WriteOk(x) == ct.wc[x] >= 0                                      \* get_write_access
Count(s, x, n) == [s EXCEPT !.wc[x] = @ + n]
Trunc(t) ==
  /\ Is(t, "trunc") /\ UNCHANGED todo
  /\ IF ~WriteOk(Clear(t)) THEN OpenFails(t, ct)
     ELSE Go(t, "trunced", tk[t]) /\ ct' = Count(ct, Clear(t), 1)
Trunced(t) ==
  /\ Is(t, "trunced") /\ UNCHANGED todo
  /\ \/ Go(t, "access", tk[t]) /\ ct' = Count(ct, Clear(t), -1)
     \/ OpenFails(t, Count(ct, Clear(t), -1))                    \* mandatory locks, the truncate
Getattr(t) ==
  /\ Is(t, "getattr") /\ UNCHANGED todo
  /\ \/ Go(t, "access", tk[t]) /\ ct' = ct
     \/ OpenFails(t, ct)
Access(t) ==
  LET w == ct.fp[tk[t].f].write
  IN /\ Is(t, "access") /\ UNCHANGED todo
     /\ IF w /\ ~WriteOk(Clear(t)) THEN OpenFails(t, ct)
        ELSE Go(t, "alloc", tk[t]) /\ ct' = IF w THEN Count(ct, Clear(t), 1) ELSE ct
\* Mutant: the write access is kept.
KeepAccess(s, f) == s
AllocFailed(s, f) == IF s.fp[f].write THEN Count(s, s.fp[f].ino, -1) ELSE s
Alloc(t) ==
  LET f == tk[t].f
      R == {r \in Rfs : ct.rf[r].cnt = 0}
  IN /\ Is(t, "alloc") /\ UNCHANGED todo
     /\ \/ OpenFails(t, AllocFailed(ct, f))                      \* ENFILE
        \/ /\ R # {}
           /\ ct' = [ct EXCEPT !.rf[First(R)] = [cnt |-> 1, ino |-> Clear(t), write |-> ct.fp[f].write]]
           /\ Go(t, "fopen", [tk[t] EXCEPT !.r = First(R)])
FopOpen(t) ==
  LET f == tk[t].f
      r == tk[t].r
  IN /\ Is(t, "fopen") /\ UNCHANGED todo
     /\ \/ Done(t, [ct EXCEPT !.fp[f].real = r, !.fds[ProcOf[t]] = @ \cup {f}])
        \/ OpenFails(t, Rfput(ct, r))                            \* EOPNOTSUPP, ESTALE, the file system
\* The other process gets the descriptors.
Fork(t) == \E f \in Mine(t), p \in Owners :
  /\ Begin(t, "fork") /\ f \notin ct.fds[p] /\ ct' = [Fget(ct, f) EXCEPT !.fds[p] = @ \cup {f}] /\ UNCHANGED tk

-----------------------------------------------------------------------------
(* close: the descriptor goes, vnode_fop_flush, then the kernel removes the *)
(* locks of the process if the MVFS inode has any, then the reference.      *)
Close(t) == \E f \in Mine(t) :
  /\ Begin(t, "close") /\ ct' = [ct EXCEPT !.fds[ProcOf[t]] = @ \ {f}] /\ Go(t, "flush", [NoTk EXCEPT !.f = f])
\* Mutant: the lock of the cleartext stays.
OwnOnly(s, p, f) == [s EXCEPT !.own[s.fp[f].ino] = IF @ = p THEN Null ELSE @]
\* mvop_linux_lockctl with F_UNLCK: the lock of the MVFS file, then the cleartext one.
Unlocked(s, p, f) == [s EXCEPT !.own[s.fp[f].ino] = IF @ = p THEN Null ELSE @, !.held[s.fp[f].ino] = Without(@, p)]
Flush(t) ==
  LET f == tk[t].f
  IN /\ Is(t, "flush") /\ UNCHANGED todo
     /\ Go(t, "fput", tk[t]) /\ ct' = IF ct.own[Clear(t)] # Null THEN Unlocked(ct, ProcOf[t], f) ELSE ct
Put(t) == Is(t, "fput") /\ Done(t, Fput(ct, ProcOf[t], tk[t].f)) /\ UNCHANGED todo

(* fcntl: vnode_fop_lock, mvop_linux_lockctl with F_SETLKW.  The kernel     *)
(* holds the file, and afterwards unlocks if the descriptor is gone.        *)
Setlk(t) == \E f \in Mine(t) :
  /\ Begin(t, "lock") /\ ct' = Fget(ct, f) /\ Go(t, "lockreal", [NoTk EXCEPT !.f = f])
\* Without a lock method the lock is recorded with the MVFS file, which the argument names.
LockFile(s, f) == IF todo.method THEN s.fp[f].real ELSE f
LockReal(t) ==
  LET x == Clear(t)
      p == ProcOf[t]
  IN /\ Is(t, "lockreal") /\ UNCHANGED todo
     /\ \/ ct.held[x] = Null /\ Go(t, "lockown", tk[t])
           /\ ct' = [ct EXCEPT !.held[x] = [by |-> p, file |-> LockFile(ct, tk[t].f)]]
        \/ ct.held[x] # Null /\ ct.held[x].by = p /\ Go(t, "lockown", tk[t]) /\ ct' = ct
        \/ Go(t, "fput", tk[t]) /\ ct' = ct                      \* refused, interrupted
LockOwn(t) ==
  LET x == Clear(t)
  IN /\ Is(t, "lockown") /\ Go(t, "recheck", tk[t]) /\ UNCHANGED todo
     /\ \/ ct.own[x] \in {Null, ProcOf[t]} /\ ct' = [ct EXCEPT !.own[x] = ProcOf[t]]
        \/ (todo.fails \/ ct.own[x] \notin {Null, ProcOf[t]}) /\ ct' = [ct EXCEPT !.refused = TRUE]
Recheck(t) ==
  /\ Is(t, "recheck") /\ Go(t, "fput", tk[t]) /\ UNCHANGED todo
  /\ ct' = IF tk[t].f \in Mine(t) THEN ct ELSE Unlocked(ct, ProcOf[t], tk[t].f)
Unlk(t) == \E f \in Mine(t) : Begin(t, "unlock") /\ ct' = Unlocked(ct, ProcOf[t], f) /\ UNCHANGED tk

\* Operations on the cleartext file, with the MVFS file held.
OnReal(t, op) == \E f \in Mine(t) :
  /\ Begin(t, op) /\ ct' = Fget(ct, f) /\ Go(t, "fput", [NoTk EXCEPT !.f = f, !.r = ct.fp[f].real])
Rdwr(t) == OnReal(t, "rdwr")
Fsync(t) == OnReal(t, "fsync")
Llseek(t) == OnReal(t, "llseek")
Readdir(t) == OnReal(t, "readdir")

-----------------------------------------------------------------------------
(* vnode_fop_mmap and mvop_linux_mmap: the mapping is of the cleartext      *)
(* file; the kernel links it, and only then counts it as denying writes.    *)
Mmap(t) == \E f \in Mine(t), d \in BOOLEAN :
  LET r == ct.fp[f].real
      x == ct.fp[f].ino
      M == {m \in Maps : ct.map[m].file = Null}
      s == [Fget(ct, f) EXCEPT !.rf[r].cnt = @ + 1]
  IN /\ Begin(t, "mmap") /\ M # {} /\ (d => ~ct.fp[f].write)
     /\ IF d /\ ct.wc[x] > 0 THEN Go(t, "fput", [NoTk EXCEPT !.f = f]) /\ ct' = Fget(ct, f)          \* ETXTBSY
        ELSE /\ Go(t, "mmap", [NoTk EXCEPT !.f = f, !.r = r, !.m = First(M), !.flag = d])
             /\ ct' = [(IF d THEN Count(s, x, -1) ELSE s) EXCEPT !.map[First(M)] = [file |-> r, deny |-> FALSE]]
Mmapped(t) ==
  LET k == tk[t]
      s == IF k.flag THEN Count(ct, Clear(t), 1) ELSE ct
  IN /\ Is(t, "mmap") /\ UNCHANGED todo
     /\ \/ Go(t, "link", [k EXCEPT !.f = Null]) /\ ct' = Fput(s, ProcOf[t], k.f)
        \/ Go(t, "fput", [k EXCEPT !.m = Null]) /\ ct' = Rfput([s EXCEPT !.map[k.m] = NoMap], k.r)
VmaLink(t) ==
  LET k == tk[t]
  IN /\ Is(t, "link") /\ UNCHANGED todo
     /\ Done(t, IF k.flag THEN [Count(ct, ct.rf[k.r].ino, -1) EXCEPT !.map[k.m].deny = TRUE] ELSE ct)
Munmap(t) == \E m \in Maps :
  LET x == ct.map[m]
  IN /\ Begin(t, "munmap") /\ x.file # Null /\ (\A u \in Tasks : tk[u].m # m)
     /\ Done(t, Rfput([(IF x.deny THEN Count(ct, ct.rf[x.file].ino, 1) ELSE ct) EXCEPT !.map[m] = NoMap], x.file))

CtInit ==
  /\ todo \in CtJobs
  /\ ct = [fp |-> [f \in Fps |-> NoFp], rf |-> [r \in Rfs |-> NoRf], map |-> [m \in Maps |-> NoMap], wc |-> [x \in Clears |-> 0],
           own |-> [x \in Clears |-> Null], held |-> [x \in Clears |-> Null], refused |-> FALSE, fds |-> [p \in Owners |-> {}]]
  /\ tk = [t \in Tasks |-> NoTk]
CtTask(t) == \/ Open(t) \/ Trunc(t) \/ Trunced(t) \/ Getattr(t) \/ Access(t) \/ Alloc(t) \/ FopOpen(t) \/ Fork(t)
             \/ Close(t) \/ Flush(t) \/ Put(t) \/ Setlk(t) \/ LockReal(t) \/ LockOwn(t) \/ Recheck(t) \/ Unlk(t)
             \/ Rdwr(t) \/ Fsync(t) \/ Llseek(t) \/ Readdir(t) \/ Mmap(t) \/ Mmapped(t) \/ VmaLink(t) \/ Munmap(t)
CtNext == \E t \in Tasks : CtTask(t)

-----------------------------------------------------------------------------
N(S) == Cardinality(S)
\* The cleartext file is open as long as an MVFS file, a mapping or an open in progress
\* needs it and no longer, whatever step of an open or a mapping fails, and the write
\* count of its inode is that of its writers less the mappings that deny them
\* (mvop_linux_open_kernel, mvop_linux_mmap, mvop_linux_close).
CtxtHeld ==
  /\ \A r \in Rfs : ct.rf[r].cnt = N({f \in Fps : ct.fp[f].real = r}) + N({m \in Maps : ct.map[m].file = r})
                                   + N({t \in Tasks : tk[t].pc = "fopen" /\ tk[t].r = r})
  /\ \A p \in Owners : \A f \in ct.fds[p] : ct.fp[f].real # Null
  /\ \A x \in Clears : ct.wc[x] = N({r \in Rfs : ct.rf[r].ino = x /\ ct.rf[r].write})
       + N({t \in Tasks : tk[t].pc = "trunced" /\ Clear(t) = x}) + N({t \in Tasks : tk[t].pc = "alloc" /\ ct.fp[tk[t].f].write /\ Clear(t) = x})
       - N({m \in Maps : ct.map[m].deny /\ ct.rf[ct.map[m].file].ino = x}) - N({t \in Tasks : tk[t].pc = "mmap" /\ tk[t].flag /\ Clear(t) = x})

\* No cleartext lock outlives its file, which would stop the kernel in locks_remove_flock,
\* even after the lock of the MVFS file was refused if the file system has a lock method;
\* and as long as none was refused, a process that closed the file has no lock
\* (mvop_linux_lockctl, vnode_fop_flush, mvop_linux_close_kernel).
Busy(p, f) == \E t \in Tasks : ProcOf[t] = p /\ tk[t].f = f
LocksGone == \A x \in Clears : ct.held[x] # Null /\ (todo.method \/ ~ct.refused) =>
  \E f \in Fps : /\ ct.fp[f].real # Null /\ ct.fp[f].ino = x /\ ct.held[x].file = LockFile(ct, f)
                 /\ ct.refused \/ f \in ct.fds[ct.held[x].by] \/ Busy(ct.held[x].by, f)
=============================================================================
