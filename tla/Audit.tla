-------------------------------- MODULE Audit --------------------------------
(***************************************************************************)
(* Auditing: the audit files (mvfs_auditops.c) and the audit state of      *)
(* processes and threads (mvfs_procops.c).  On Linux a process is a task   *)
(* (mdki_curpid is current->pid): it has one mvfs_proc_t, which outlives    *)
(* its visits to the file system, and one mvfs_thread_t, refreshed from the *)
(* process on every entry.                                                 *)
(*                                                                         *)
(* What a task still has to do inside a call is a list of steps; a step is *)
(* what runs under one lock.  Only mfs_aflock is held across steps.        *)
(* An access that thr_auditv and thr_auditnv exclude makes no call.        *)
(***************************************************************************)
EXTENDS Integers, Sequences, SequencesExt, FiniteSets

CONSTANTS
  Tasks, Null,
  Parent,         \* task->parent; Null stands for init
  Afps,           \* audit file structures
  Files,          \* audit output files: path and vnode
  Objs,           \* objects that are read, with their modification times
  Size,           \* of the record about an object
  buflen,         \* mvfs_auditbufsiz, in the same unit
  duplsearchmax,  \* mvfs_duplsearchmax
  Keepers,        \* tasks that set an audit file once and keep it
  AnyReuse,       \* whether a file may be set again that no keeper keeps
  WriteFails,     \* whether writing to an audit file may fail
  MaxOps          \* bound: ioctls and accesses begun

ASSUME AuditAssumption ==
  /\ IsFiniteSet(Tasks) /\ Null \notin Tasks \cup Afps /\ Keepers \subseteq Tasks
  /\ Parent \in [Tasks -> Tasks \cup {Null}]
  /\ Size \in [Objs -> Nat \ {0}] /\ buflen \in Nat \ {0} /\ duplsearchmax \in Nat
  /\ AnyReuse \in BOOLEAN /\ WriteFails \in BOOLEAN /\ MaxOps \in Nat

VARIABLES
  afp,      \* the audit file structures; made and out count records accepted and written
  aflock,   \* owner of mfs_aflock
  proc,     \* mvfs_proc_t of each task: known (hashed), mp_afp, mp_auditon
  thr,      \* mvfs_thread_t of each task: active, thr_afp, thr_auditon
  alive,    \* the tasks that have not exited
  todo,     \* the steps each task still has to do
  mark,     \* records its audit file had accepted when the task's operation began
  used,     \* files that were set
  ops       \* operations begun

vars == <<afp, aflock, proc, thr, alive, todo, mark, used, ops>>

Unused == [live |-> FALSE, refcnt |-> 0, destroy |-> FALSE, obsolete |-> FALSE, file |-> Null,
           buf |-> <<>>, werr |-> FALSE, made |-> 0, out |-> 0]
NoProc == [known |-> FALSE, afp |-> Null, on |-> FALSE]
NoThr == [active |-> FALSE, afp |-> Null, on |-> FALSE]

Init ==
  /\ afp = [a \in Afps |-> Unused] /\ aflock = Null
  /\ proc = [t \in Tasks |-> NoProc] /\ thr = [t \in Tasks |-> NoThr]
  /\ alive = Tasks /\ todo = [t \in Tasks |-> <<>>] /\ mark = [t \in Tasks |-> 0]
  /\ used = {} /\ ops = 0

-----------------------------------------------------------------------------
Do(name, x) == [do |-> name, x |-> x]
At(t, name) == todo[t] # <<>> /\ Head(todo[t]).do = name
Arg(t) == Head(todo[t]).x
\* The step is done; its own callees come first.
Continue(t, steps) == todo' = [todo EXCEPT ![t] = steps \o Tail(@)]

\* Mutant: no reference is counted.
NoHold(a) == afp
\* mfs_afphold
Hold(a) == IF a = Null THEN afp ELSE [afp EXCEPT ![a].refcnt = @ + 1]
ReleAfp(a) == IF a = Null THEN <<>> ELSE <<Do("rele", a)>>
Sync == <<Do("hold", Null), Do("swap", Null)>>
ReleThr == <<Do("relethr", Null)>>

-----------------------------------------------------------------------------
(* Writing and releasing audit files.                                      *)

\* Mutant: the error of a write is not kept.
WrittenSilently(a) ==
  {[afp[a] EXCEPT !.buf = <<>>, !.out = @ + k] :
     k \in IF WriteFails THEN 0 .. Len(afp[a].buf) ELSE {Len(afp[a].buf)}}

\* What mvfs_auditwrite_int may leave of a: the buffer is emptied in any case.
\* A failed write may have written a part of it, or all if closing failed.
Written(a) ==
  LET n == Len(afp[a].buf)
      clean == [afp[a] EXCEPT !.buf = <<>>]
  IN  IF afp[a].werr \/ n = 0 THEN {clean} ELSE
      {[clean EXCEPT !.out = @ + n]} \cup
      {[clean EXCEPT !.out = @ + k, !.werr = TRUE] : k \in IF WriteFails THEN 0 .. n ELSE {}}

Write(t) ==
  /\ At(t, "write")
  /\ \E r \in Written(thr[t].afp) : afp' = [afp EXCEPT ![thr[t].afp] = r]
  /\ Continue(t, <<>>)
  /\ UNCHANGED <<aflock, proc, thr, alive, mark, used, ops>>

LastRef(a) == afp[a].refcnt = 1

\* Mutant: the last reference is dropped without writing.
ReleUnwritten(t, a) ==
  IF a = Null THEN Continue(t, <<>>) /\ UNCHANGED afp
  ELSE IF LastRef(a)
  THEN /\ afp' = [afp EXCEPT ![a].destroy = TRUE]
       /\ Continue(t, <<Do("destroy", a)>>)
  ELSE /\ afp' = [afp EXCEPT ![a].refcnt = @ - 1]
       /\ Continue(t, <<>>)

\* mvfs_afprele
Rele(t, a) ==
  IF a = Null THEN Continue(t, <<>>) /\ UNCHANGED afp
  ELSE IF LastRef(a)
  THEN /\ \E r \in Written(a) : afp' = [afp EXCEPT ![a] = [r EXCEPT !.destroy = TRUE]]
       /\ Continue(t, <<Do("destroy", a)>>)
  ELSE /\ afp' = [afp EXCEPT ![a].refcnt = @ - 1]
       /\ Continue(t, <<>>)

\* What a process had, given up by mvfs_afprele_proc or mvfs_sync_procstate
ReleaseProc(t) ==
  /\ At(t, "rele") /\ Rele(t, Arg(t))
  /\ UNCHANGED <<aflock, proc, thr, alive, mark, used, ops>>

\* mvfs_afprele_thr; nobody else sees the pointer, which is cleared last.
ReleaseThr(t) ==
  /\ At(t, "relethr") /\ Rele(t, thr[t].afp)
  /\ thr' = [thr EXCEPT ![t].afp = Null]
  /\ UNCHANGED <<aflock, proc, alive, mark, used, ops>>

\* mfs_afpdestroy; the structure may be allocated again.
Destroy(t) ==
  /\ At(t, "destroy") /\ aflock = Null
  /\ afp' = [afp EXCEPT ![Arg(t)] = Unused]
  /\ Continue(t, <<>>)
  /\ UNCHANGED <<aflock, proc, thr, alive, mark, used, ops>>

-----------------------------------------------------------------------------
(* The state of processes.                                                 *)

\* mvfs_procinherit_from: up through the living ancestors to one that is known.
Ancestors(t) ==
  {l \in UNION {[1 .. n -> Tasks] : n \in 1 .. Cardinality(Tasks)} :
     \A i \in DOMAIN l : l[i] \in alive /\ l[i] = Parent[IF i = 1 THEN t ELSE l[i - 1]]}
Knows(t) ==
  {p \in alive : /\ proc[p].known
                 /\ \E l \in Ancestors(t) : /\ l[Len(l)] = p
                                            /\ \A i \in 1 .. Len(l) - 1 : ~proc[l[i]].known}
Inherited(t) == IF Knows(t) = {} THEN NoProc ELSE proc[CHOOSE p \in Knows(t) : TRUE]

\* mvfs_myproc, for a task not seen before
NewProc(t) ==
  /\ At(t, "new")
  /\ proc' = [proc EXCEPT ![t] = [Inherited(t) EXCEPT !.known = TRUE]]
  /\ afp' = Hold(Inherited(t).afp)
  /\ Continue(t, <<>>)
  /\ UNCHANGED <<aflock, thr, alive, mark, used, ops>>

\* mvfs_snapshot_thread
Snapshot(t) ==
  /\ At(t, "snapshot")
  /\ thr' = [thr EXCEPT ![t] = [@ EXCEPT !.afp = proc[t].afp, !.on = proc[t].on]]
  /\ afp' = Hold(proc[t].afp)
  /\ Continue(t, <<>>)
  /\ UNCHANGED <<aflock, proc, alive, mark, used, ops>>

\* mvfs_sync_procstate: the extra reference, ...
SyncHold(t) ==
  /\ At(t, "hold")
  /\ afp' = Hold(thr[t].afp)
  /\ Continue(t, <<>>)
  /\ UNCHANGED <<aflock, proc, thr, alive, mark, used, ops>>

\* ... the exchange, and the release of what the process had.
SyncSwap(t) ==
  /\ At(t, "swap")
  /\ proc' = [proc EXCEPT ![t] = [@ EXCEPT !.afp = thr[t].afp, !.on = thr[t].on]]
  /\ Continue(t, ReleAfp(proc[t].afp))
  /\ UNCHANGED <<afp, aflock, thr, alive, mark, used, ops>>

AuditOff(t) ==
  /\ At(t, "off")
  /\ thr' = [thr EXCEPT ![t].on = FALSE]
  /\ Continue(t, <<>>)
  /\ UNCHANGED <<afp, aflock, proc, alive, mark, used, ops>>

Purgeable == {p \in Tasks \ alive : proc[p].known}

\* mvfs_procpurge: one dead process after the other is unhashed and stripped of
\* its audit file with mvfs_proclock held (mvfs_procrele), and the lock dropped for
\* the release.  One that exits meanwhile may be in a bucket already passed.
Purge(t) ==
  /\ At(t, "purge")
  /\ \/ /\ Arg(t) \cap Purgeable = {}
        /\ Continue(t, <<>>) /\ UNCHANGED proc
     \/ \E p \in Purgeable :
          /\ proc' = [proc EXCEPT ![p] = NoProc]
          /\ Continue(t, ReleAfp(proc[p].afp) \o <<Do("purge", Arg(t))>>)
  /\ UNCHANGED <<afp, aflock, thr, alive, mark, used, ops>>

-----------------------------------------------------------------------------
(* Audit records.                                                          *)

\* mfs_audit up to the afp lock.  The obsolete flag is read without that lock.
AuditCheck(t) ==
  /\ At(t, "audit")
  /\ IF ~thr[t].on \/ thr[t].afp = Null THEN Continue(t, <<>>)
     ELSE IF afp[thr[t].afp].obsolete
     THEN Continue(t, ReleThr \o <<Do("off", Null)>> \o Sync)
     ELSE Continue(t, <<Do("append", Arg(t))>>)
  /\ UNCHANGED <<afp, aflock, proc, thr, alive, mark, used, ops>>

RecSize(r) == IF r = "MARKER" THEN 1 ELSE Size[r]
Used(buf) == FoldLeft(LAMBDA n, r : n + RecSize(r), 0, buf)

\* mfs_isdupl: a record is looked for among the last ones of the buffer.  The
\* marker stands for all the kinds that are never taken for duplicates.
IsDupl(buf, r) == /\ r # "MARKER"
                  /\ \E i \in DOMAIN buf : i > Len(buf) - duplsearchmax /\ buf[i] = r

\* mfs_audit with the afp locked.  Without room the caller (MFS_AUDIT_EXT)
\* writes the buffer out and calls again.
AppendRec(t) ==
  /\ At(t, "append")
  /\ LET a == thr[t].afp
         r == Arg(t)
         f == afp[a]
     IN  IF IsDupl(f.buf, r) THEN Continue(t, <<>>) /\ UNCHANGED afp
         ELSE IF Used(f.buf) + RecSize(r) > buflen
         THEN IF f.buf # <<>>
              THEN Continue(t, <<Do("write", Null), Do("audit", r)>>) /\ UNCHANGED afp
              ELSE Continue(t, <<>>) /\ afp' = [afp EXCEPT ![a].werr = TRUE]
         ELSE /\ Continue(t, <<>>)
              /\ afp' = IF f.werr THEN afp
                        ELSE [afp EXCEPT ![a] = [f EXCEPT !.buf = Append(f.buf, r), !.made = f.made + 1]]
  /\ UNCHANGED <<aflock, proc, thr, alive, mark, used, ops>>

-----------------------------------------------------------------------------
(* Setting an audit file.                                                  *)

Matches(f) == {a \in Afps : afp[a].live /\ ~afp[a].destroy /\ afp[a].file = f}

\* mfs_afpget with mfs_aflock: the flag destroy is read, then the lock of the
\* structure is waited for.
AfpFind(t) ==
  /\ At(t, "get") /\ aflock = Null
  /\ \E a \in Matches(Arg(t)) : Continue(t, <<Do("take", a)>>)
  /\ aflock' = t
  /\ UNCHANGED <<afp, proc, thr, alive, mark, used, ops>>

AfpTake(t) ==
  /\ At(t, "take")
  /\ LET f == afp[Arg(t)]
     IN  afp' = [afp EXCEPT ![Arg(t)] = [f EXCEPT !.refcnt = f.refcnt + 1, !.obsolete = FALSE]]
  /\ thr' = [thr EXCEPT ![t].afp = Arg(t)]
  /\ aflock' = Null
  /\ Continue(t, <<>>)
  /\ UNCHANGED <<proc, alive, mark, used, ops>>

\* mfs_afpnew, in the same hold of mfs_aflock as the search
AfpNew(t) ==
  /\ At(t, "get") /\ aflock = Null /\ Matches(Arg(t)) = {}
  /\ \E a \in Afps :
       /\ ~afp[a].live
       /\ afp' = [afp EXCEPT ![a] = [Unused EXCEPT !.live = TRUE, !.refcnt = 1, !.file = Arg(t)]]
       /\ thr' = [thr EXCEPT ![t].afp = a]
  /\ Continue(t, <<>>)
  /\ UNCHANGED <<aflock, proc, alive, mark, used, ops>>

\* No memory: the task is left without an audit file.
AfpNewFail(t) ==
  /\ At(t, "get") /\ aflock = Null /\ Matches(Arg(t)) = {}
  /\ Continue(t, <<>>)
  /\ UNCHANGED <<afp, aflock, proc, thr, alive, mark, used, ops>>

-----------------------------------------------------------------------------
(* The ends of ioctls.                                                     *)

\* MVFS_CMD_START_AUDIT with mp_lock
Start(t) ==
  /\ At(t, "start")
  /\ IF proc[t].on \/ thr[t].afp # proc[t].afp THEN UNCHANGED <<thr, proc>>
     ELSE thr' = [thr EXCEPT ![t].on = TRUE] /\ proc' = [proc EXCEPT ![t].on = TRUE]
  /\ Continue(t, <<>>)
  /\ UNCHANGED <<afp, aflock, alive, mark, used, ops>>

\* The delayed write error is what the call returns.
Reap(t) ==
  /\ At(t, "reap")
  /\ Continue(t, <<>>)
  /\ UNCHANGED <<afp, aflock, proc, thr, alive, mark, used, ops>>

\* mfs_afp_obsolete
Obsolete(t) ==
  /\ At(t, "obsolete")
  /\ afp' = [afp EXCEPT ![thr[t].afp].obsolete = TRUE]
  /\ Continue(t, <<>>)
  /\ UNCHANGED <<aflock, proc, thr, alive, mark, used, ops>>

\* MVFS_CMD_AUDIT_MARKER after the record: the audit may have been stopped.
MarkerWrite(t) ==
  /\ At(t, "markerwrite")
  /\ Continue(t, IF thr[t].afp = Null THEN <<>> ELSE <<Do("write", Null), Do("reap", Null)>>)
  /\ UNCHANGED <<afp, aflock, proc, thr, alive, mark, used, ops>>

\* mvfs_exit_fs
Leave(t) ==
  /\ At(t, "leave") /\ Rele(t, thr[t].afp)
  /\ thr' = [thr EXCEPT ![t] = NoThr] /\ mark' = [mark EXCEPT ![t] = 0]
  /\ UNCHANGED <<aflock, proc, alive, used, ops>>

-----------------------------------------------------------------------------
(* What tasks call.                                                        *)

Begin(t, steps) ==
  /\ todo[t] = <<>> /\ ops < MaxOps
  /\ todo' = [todo EXCEPT ![t] = steps] /\ ops' = ops + 1
  /\ mark' = [mark EXCEPT ![t] = IF thr[t].afp = Null THEN 0 ELSE afp[thr[t].afp].made]
  /\ UNCHANGED <<afp, aflock, proc, alive>>

\* A call of the task from inside the file system; all the audit ioctls purge first.
Call(t, steps) == thr[t].active /\ Begin(t, steps) /\ UNCHANGED <<thr, used>>
Ioctl(t, steps) == Call(t, <<Do("purge", Purgeable)>> \o steps)

\* mvfs_enter_fs
Enter(t) == (IF proc[t].known THEN <<>> ELSE <<Do("new", Null)>>) \o <<Do("snapshot", Null)>>
Leaving == <<Do("leave", Null)>>
Outside(t) == t \in alive /\ ~thr[t].active /\ todo[t] = <<>>

EnterFs(t) ==
  /\ Outside(t)
  /\ todo' = [todo EXCEPT ![t] = Enter(t)]
  /\ thr' = [thr EXCEPT ![t].active = TRUE]
  /\ UNCHANGED <<afp, aflock, proc, alive, mark, used, ops>>

ExitFs(t) ==
  /\ thr[t].active /\ todo[t] = <<>>
  /\ todo' = [todo EXCEPT ![t] = Leaving]
  /\ UNCHANGED <<afp, aflock, proc, thr, alive, mark, used, ops>>

Kept == {afp[proc[k].afp].file : k \in {k \in Keepers : proc[k].afp # Null}}

SetAfile(t, f) ==
  /\ thr[t].active
  /\ AnyReuse \/ f \notin used \/ f \in Kept
  /\ t \in Keepers => proc[t].afp = Null
  /\ Begin(t, <<Do("purge", Purgeable)>> \o ReleThr \o <<Do("get", f)>> \o Sync)
  /\ used' = used \cup {f}
  /\ UNCHANGED thr

StartAudit(t) == Ioctl(t, <<Do("start", Null)>>)

StopAudit(t) ==
  /\ t \notin Keepers
  /\ Ioctl(t, (IF thr[t].afp = Null THEN <<>> ELSE
                 <<Do("write", Null), Do("reap", Null), Do("obsolete", Null)>> \o ReleThr)
              \o <<Do("off", Null)>> \o Sync)

SyncAudit(t) == thr[t].afp # Null /\ Ioctl(t, <<Do("write", Null), Do("reap", Null)>>)

AuditMarker(t) ==
  thr[t].afp # Null /\ t \notin Keepers
  /\ Ioctl(t, <<Do("audit", "MARKER"), Do("markerwrite", Null)>>)

\* MFS_AUDIT in an operation on an object
Access(t, o) == t \notin Keepers /\ thr[t].on /\ Call(t, <<Do("audit", o)>>)

\* mfs_periodic_maintenance, from sync(2) or a work item.  Its purge gives up
\* when it would have to wait for mvfs_proclock.
SyncFs(t) ==
  /\ Outside(t) /\ Purgeable # {}
  /\ todo' = [todo EXCEPT ![t] = Enter(t) \o <<Do("purge", {})>> \o Leaving]
  /\ thr' = [thr EXCEPT ![t].active = TRUE]
  /\ UNCHANGED <<afp, aflock, proc, alive, mark, used, ops>>

\* The task exits; the file system is not told.
Exit(t) ==
  /\ Outside(t) /\ t \notin Keepers
  /\ alive' = alive \ {t}
  /\ UNCHANGED <<afp, aflock, proc, thr, todo, mark, used, ops>>

Step(t) ==
  \/ Write(t) \/ ReleaseProc(t) \/ ReleaseThr(t) \/ Destroy(t) \/ NewProc(t) \/ Snapshot(t)
  \/ SyncHold(t) \/ SyncSwap(t) \/ AuditOff(t) \/ Purge(t) \/ AuditCheck(t) \/ AppendRec(t)
  \/ AfpFind(t) \/ AfpTake(t) \/ AfpNew(t) \/ AfpNewFail(t)
  \/ Start(t) \/ Reap(t) \/ Obsolete(t) \/ MarkerWrite(t) \/ Leave(t)

User(t) ==
  \/ EnterFs(t) \/ ExitFs(t) \/ \E f \in Files : SetAfile(t, f)
  \/ StartAudit(t) \/ StopAudit(t) \/ SyncAudit(t) \/ AuditMarker(t)
  \/ \E o \in Objs : Access(t, o)
  \/ Exit(t)

Next == \E t \in Tasks : Step(t) \/ User(t) \/ SyncFs(t)

Spec == Init /\ [][Next]_vars

-----------------------------------------------------------------------------
StepNames == {"write", "rele", "destroy", "relethr", "new", "snapshot", "hold", "swap", "off",
              "purge", "audit", "append", "get", "take", "start", "reap", "obsolete",
              "markerwrite", "leave"}

TypeOK ==
  /\ afp \in [Afps -> [live : BOOLEAN, refcnt : Nat, destroy : BOOLEAN, obsolete : BOOLEAN,
                       file : Files \cup {Null}, buf : Seq(Objs \cup {"MARKER"}),
                       werr : BOOLEAN, made : Nat, out : Nat]]
  /\ aflock \in Tasks \cup {Null} /\ alive \subseteq Tasks
  /\ proc \in [Tasks -> [known : BOOLEAN, afp : Afps \cup {Null}, on : BOOLEAN]]
  /\ thr \in [Tasks -> [active : BOOLEAN, afp : Afps \cup {Null}, on : BOOLEAN]]
  /\ \A t \in Tasks : \A i \in DOMAIN todo[t] : todo[t][i].do \in StepNames
  /\ mark \in [Tasks -> Nat] /\ used \subseteq Files /\ ops \in 0 .. MaxOps

\* The references to a: of threads, of processes, and in steps under way.
Refs(a) ==
  {<<"thr", t, 0>> : t \in {t \in Tasks : thr[t].afp = a}} \cup
  {<<"proc", t, 0>> : t \in {t \in Tasks : proc[t].afp = a}} \cup
  {<<"held", t, 0>> : t \in {t \in Tasks : At(t, "swap") /\ thr[t].afp = a}} \cup
  UNION {{<<"step", t, i>> : i \in {i \in DOMAIN todo[t] : todo[t][i] = Do("rele", a)}} :
           t \in Tasks}

Destroyers(a) == {t \in Tasks : \E i \in DOMAIN todo[t] : todo[t][i] = Do("destroy", a)}

\* mfs_afphold, mfs_afpget and mvfs_afprele balance: an audit file in use has
\* as many references as holders and at least one, or it would never be closed;
\* one marked for destruction is destroyed by one task.
RefsExact ==
  \A a \in Afps :
    /\ afp[a].live /\ ~afp[a].destroy =>
         afp[a].refcnt > 0 /\ afp[a].refcnt = Cardinality(Refs(a))
    /\ afp[a].live /\ afp[a].destroy => Cardinality(Destroyers(a)) = 1
    /\ ~afp[a].live => Destroyers(a) = {}

\* mfs_afpdestroy frees no structure that some thread, process or step still
\* points to, a searcher in mfs_afpget included.
NoFreedAfp ==
  \A a \in Afps : ~afp[a].live => Refs(a) = {} /\ \A t \in Tasks : At(t, "take") => Arg(t) # a

\* Tasks that audit to the same file share one structure, so that their
\* records are not mixed up in it (mfs_afpget).
OneAfpPerFile == \A f \in Files : Cardinality(Matches(f)) <= 1

\* The structures of the audit files are shared, counted and freed correctly.
AfpsSound == TypeOK /\ NoFreedAfp /\ RefsExact /\ OneAfpPerFile

\* A record mfs_audit accepted is in the buffer or in the file as long as no
\* error was met, and a structure to be freed has nothing left in its buffer.
NothingLost ==
  \A a \in Afps : /\ afp[a].live /\ ~afp[a].werr => afp[a].made = afp[a].out + Len(afp[a].buf)
                  /\ afp[a].destroy => afp[a].buf = <<>>

\* When STOP_AUDIT, SYNC_AUDIT or AUDIT_MARKER is about to return no error, all
\* records accepted before the call, from whatever task, are in the file.
SyncComplete ==
  \A t \in Tasks :
    At(t, "reap") /\ ~afp[thr[t].afp].werr => afp[thr[t].afp].out >= mark[t]
=============================================================================
