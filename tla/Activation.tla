----------------------------- MODULE Activation -----------------------------
(***************************************************************************)
(* How a vnode (a Linux inode) is linked to its mnode, and what happens    *)
(* when the last reference to it goes: mvfs_makevobnode, mvfs_linux_vnget, *)
(* mvfs_linux_inactive, and the delayed remove of a file that was removed  *)
(* while in use.                                                           *)
(*                                                                         *)
(* One file in one directory.  The directory's vnode stays active, of it   *)
(* only the mnode lock matters.  Mnode references are counted here and     *)
(* found, cached and recycled in module Mnode.                             *)
(***************************************************************************)
EXTENDS Integers, FiniteSets

CONSTANTS
  Threads,
  Vnodes,         \* the inodes new_inode can return
  Null,
  MaxOps          \* bound: lookups, finds and removes started

ASSUME ActivationAssumption ==
  /\ IsFiniteSet(Threads)
  /\ Null \notin Threads /\ Null \notin Vnodes
  /\ "nm" \notin Threads /\ "nm" # Null
  /\ MaxOps \in Nat

VARIABLES
  dlock, mlock,   \* owners of the mnode locks of the directory and the file
  vp,             \* mn_hdr.vp of the file
  mcount,         \* mn_hdr.mcount of the file
  rmv,            \* mn_vob.rmv_name: the name to remove on inactive, or Null
  count,          \* i_count of each inode; 0 in one that is free or I_FREEING
  linked,         \* inodes with v_data set
  waitq,          \* vnlayer_inactive_waitq
  pc, wait,       \* of each thread: where it is, the wait flag of its makenode
  has,            \* the vnode a thread has a reference to
  entry,          \* external: the name of the file in the view, or Null
  failed,         \* ghost: temporary names whose rename or removal failed
  ops             \* operations started

vars == <<dlock, mlock, vp, mcount, rmv, count, linked, waitq, pc, wait, has, entry,
          failed, ops>>

Init ==
  /\ dlock = Null /\ mlock = Null
  /\ vp = Null /\ mcount = 0 /\ rmv = Null
  /\ count = [v \in Vnodes |-> 0] /\ linked = {}
  /\ waitq = {}
  /\ pc = [t \in Threads |-> "idle"]
  /\ wait = [t \in Threads |-> FALSE]
  /\ has = [t \in Threads |-> Null]
  /\ entry = "nm" /\ failed = {}
  /\ ops = 0

-----------------------------------------------------------------------------
At(t, l) == pc[t] = l
Goto(t, l) == pc' = [pc EXCEPT ![t] = l]
LockDir(t) == dlock = Null /\ dlock' = t
LockFile(t) == mlock = Null /\ mlock' = t
UnlockDir(t) == dlock' = IF dlock = t THEN Null ELSE dlock
UnlockFile(t) == mlock = t /\ mlock' = Null
StartOp == ops < MaxOps /\ ops' = ops + 1

\* Mutant: the makenode waits for a dying vnode.
LookupWaits == TRUE
\* mfs_clnt_lookup: the directory stays locked over the call to the view and
\* the makenode, which therefore must not wait.
LookupWaitFlag == FALSE

LookupStart(t) ==
  /\ At(t, "idle") /\ has[t] = Null
  /\ StartOp
  /\ Goto(t, "lookup")
  /\ UNCHANGED <<dlock, mlock, vp, mcount, rmv, count, linked, waitq, wait, has, entry, failed>>

LookupLock(t) ==
  /\ At(t, "lookup")
  /\ LockDir(t)
  /\ Goto(t, "rpc")
  /\ UNCHANGED <<mlock, vp, mcount, rmv, count, linked, waitq, wait, has, entry, failed, ops>>

\* The view's answer and mfs_mnget's reference to the mnode.
LookupFound(t) ==
  /\ At(t, "rpc")
  /\ entry # Null
  /\ mcount' = mcount + 1
  /\ wait' = [wait EXCEPT ![t] = LookupWaitFlag]
  /\ Goto(t, "mnget")
  /\ UNCHANGED <<dlock, mlock, vp, rmv, count, linked, waitq, has, entry, failed, ops>>

\* There is no such name, or the call fails.
LookupNone(t) ==
  /\ At(t, "rpc")
  /\ UnlockDir(t)
  /\ Goto(t, "idle")
  /\ UNCHANGED <<mlock, vp, mcount, rmv, count, linked, waitq, wait, has, entry, failed, ops>>

\* Those that find the mnode itself (sync, invalidation by oid, rebinding)
\* hold no directory lock, and wait.
FindStart(t) ==
  /\ At(t, "idle") /\ has[t] = Null
  /\ StartOp
  /\ mcount' = mcount + 1
  /\ wait' = [wait EXCEPT ![t] = TRUE]
  /\ Goto(t, "mnget")
  /\ UNCHANGED <<dlock, mlock, vp, rmv, count, linked, waitq, has, entry, failed>>

MnLock(t) ==
  /\ At(t, "mnget")
  /\ LockFile(t)
  /\ Goto(t, "vnget")
  /\ UNCHANGED <<dlock, vp, mcount, rmv, count, linked, waitq, wait, has, entry, failed, ops>>

-----------------------------------------------------------------------------
\* Mutant: a vnode whose count is 0 is taken.
GrabDying(v) == TRUE
\* mvfs_linux_vnget.  VN_HOLD is igrab, which fails once the count is 0.
Grab(v) == count[v] > 0

VnHold(t) ==
  /\ At(t, "vnget")
  /\ vp # Null /\ Grab(vp)
  /\ count' = [count EXCEPT ![vp] = @ + 1]
  /\ has' = [has EXCEPT ![t] = vp]
  /\ UnlockFile(t)
  /\ Goto(t, "mnrele")
  /\ UNCHANGED <<dlock, vp, mcount, rmv, linked, waitq, wait, entry, failed, ops>>

Dying == vp # Null /\ ~Grab(vp)

VnDying(t) ==
  /\ At(t, "vnget")
  /\ Dying
  /\ Goto(t, "dying")
  /\ UNCHANGED <<dlock, mlock, vp, mcount, rmv, count, linked, waitq, wait, has, entry, failed, ops>>

\* The vnode is going away: a thread that may not wait gives up with ENOENT.
VnBusy(t) ==
  /\ At(t, "dying")
  /\ ~wait[t]
  /\ UnlockFile(t)
  /\ Goto(t, "busy")
  /\ UNCHANGED <<dlock, vp, mcount, rmv, count, linked, waitq, wait, has, entry, failed, ops>>

\* mvfs_wait_on_inactive: on the queue before the lock is released.
VnWait(t) ==
  /\ At(t, "dying")
  /\ wait[t]
  /\ waitq' = waitq \cup {t}
  /\ UnlockFile(t)
  /\ Goto(t, "sleep")
  /\ UNCHANGED <<dlock, vp, mcount, rmv, count, linked, wait, has, entry, failed, ops>>

VnWake(t) ==
  /\ At(t, "sleep")
  /\ t \notin waitq
  /\ Goto(t, "mnget")
  /\ UNCHANGED <<dlock, mlock, vp, mcount, rmv, count, linked, waitq, wait, has, entry, failed, ops>>

\* No vnode: new_inode may sleep, the mnode stays locked.
VnNone(t) ==
  /\ At(t, "vnget")
  /\ vp = Null
  /\ Goto(t, "alloc")
  /\ UNCHANGED <<dlock, mlock, vp, mcount, rmv, count, linked, waitq, wait, has, entry, failed, ops>>

\* A new inode (which one makes no difference); it keeps the mnode reference
\* of mfs_mnget.
NewKeepsRef == mcount

Fresh == Vnodes \ (linked \cup {has[u] : u \in Threads})

VnNew(t) ==
  /\ At(t, "alloc")
  /\ Fresh # {}
  /\ LET v == CHOOSE v \in Fresh : TRUE
     IN  /\ vp' = v
         /\ count' = [count EXCEPT ![v] = 1]
         /\ linked' = linked \cup {v}
         /\ has' = [has EXCEPT ![t] = v]
  /\ UnlockFile(t)
  /\ mcount' = NewKeepsRef
  /\ Goto(t, "got")
  /\ UNCHANGED <<dlock, rmv, waitq, wait, entry, failed, ops>>

\* ENFILE.
VnNewFail(t) ==
  /\ At(t, "alloc")
  /\ UnlockFile(t)
  /\ Goto(t, "mnrele")
  /\ UNCHANGED <<dlock, vp, mcount, rmv, count, linked, waitq, wait, has, entry, failed, ops>>

\* The mnode reference that no new vnode took is given back.
DropRef(t) == mcount' = mcount - 1

MnRele(t) ==
  /\ At(t, "mnrele") \/ At(t, "busy")
  /\ DropRef(t)
  /\ Goto(t, IF At(t, "busy") THEN "retry" ELSE "got")
  /\ UNCHANGED <<dlock, mlock, vp, rmv, count, linked, waitq, wait, has, entry, failed, ops>>

\* A lookup that got ENOENT from the makenode unlocks the directory and starts
\* again; otherwise the lookup or find is over.
GetEnd(t) ==
  /\ At(t, "got") \/ At(t, "retry")
  /\ UnlockDir(t)
  /\ Goto(t, IF At(t, "retry") THEN "lookup" ELSE "idle")
  /\ UNCHANGED <<mlock, vp, mcount, rmv, count, linked, waitq, wait, has, entry, failed, ops>>

-----------------------------------------------------------------------------
\* mvfs_remove_ctx on a file the thread has: renamed if others use it.
RemoveStart(t) ==
  /\ At(t, "idle") /\ has[t] # Null
  /\ StartOp
  /\ LockFile(t)
  /\ Goto(t, "remove")
  /\ UNCHANGED <<dlock, vp, mcount, rmv, count, linked, waitq, wait, has, entry, failed>>

RenameNeeded(t) == count[has[t]] > 1 /\ rmv = Null

RemoveChoose(t) ==
  /\ At(t, "remove")
  /\ UnlockFile(t)
  /\ Goto(t, IF RenameNeeded(t) THEN "rename" ELSE "unlink")
  /\ UNCHANGED <<dlock, vp, mcount, rmv, count, linked, waitq, wait, has, entry, failed, ops>>

\* mvfs_silly_rename: to a name of its own; ENOENT if another was first, which
\* counts as success.
RenameDir(t) ==
  /\ At(t, "rename") \/ At(t, "unlink")
  /\ LockDir(t)
  /\ Goto(t, IF At(t, "rename") THEN "renaming" ELSE "unlinking")
  /\ UNCHANGED <<mlock, vp, mcount, rmv, count, linked, waitq, wait, has, entry, failed, ops>>

Rename(t) ==
  /\ At(t, "renaming")
  /\ IF entry = "nm"
     THEN entry' = t /\ failed' = failed \ {t} /\ Goto(t, "renamed")
     ELSE UNCHANGED <<entry, failed>> /\ Goto(t, "unlinked")
  /\ UnlockDir(t)
  /\ UNCHANGED <<mlock, vp, mcount, rmv, count, linked, waitq, wait, has, ops>>

\* The call fails, and nobody knows whether the view has renamed the file: the
\* temporary name is forgotten.
RenameFail(t) ==
  /\ At(t, "renaming")
  /\ entry' \in {entry, IF entry = "nm" THEN t ELSE entry}
  /\ failed' = failed \cup {t}
  /\ Goto(t, "unlinked")
  /\ UnlockDir(t)
  /\ UNCHANGED <<mlock, vp, mcount, rmv, count, linked, waitq, wait, has, ops>>

\* mfs_clnt_remove of the name it was called with, which may fail.
Unlink(t) ==
  /\ At(t, "unlinking")
  /\ entry' \in {entry, IF entry = "nm" THEN Null ELSE entry}
  /\ Goto(t, "unlinked")
  /\ UnlockDir(t)
  /\ UNCHANGED <<mlock, vp, mcount, rmv, count, linked, waitq, wait, has, failed, ops>>

\* Mutant: the rename counts only while others use the file.
AcceptInUse(t) == rmv = Null /\ count[has[t]] > 1
\* Only the first successful rename is accepted.
Accept(t) == rmv = Null

RemoveRelock(t) ==
  /\ At(t, "renamed") \/ At(t, "unlinked")
  /\ LockFile(t)
  /\ rmv' = IF At(t, "renamed") /\ Accept(t) THEN t ELSE rmv
  /\ Goto(t, "removed")
  /\ UNCHANGED <<dlock, vp, mcount, count, linked, waitq, wait, has, entry, failed, ops>>

RemoveEnd(t) ==
  /\ At(t, "removed")
  /\ UnlockFile(t)
  /\ Goto(t, "idle")
  /\ UNCHANGED <<dlock, vp, mcount, rmv, count, linked, waitq, wait, has, entry, failed, ops>>

-----------------------------------------------------------------------------
\* VN_RELE: the thread that takes the count to 0 inactivates the vnode.
Rele(t) ==
  /\ At(t, "idle") /\ has[t] # Null
  /\ count' = [count EXCEPT ![has[t]] = @ - 1]
  /\ IF count[has[t]] = 1 THEN Goto(t, "inactive") /\ UNCHANGED has
     ELSE has' = [has EXCEPT ![t] = Null] /\ UNCHANGED pc
  /\ UNCHANGED <<dlock, mlock, vp, mcount, rmv, linked, waitq, wait, entry, failed, ops>>

InactiveLock(t) ==
  /\ At(t, "inactive") \/ At(t, "delayed")
  /\ LockFile(t)
  /\ Goto(t, IF At(t, "inactive") THEN "common" ELSE "final")
  /\ UNCHANGED <<dlock, vp, mcount, rmv, count, linked, waitq, wait, has, entry, failed, ops>>

\* mfs_inactive_common: a delayed remove is done with the file unlocked.
InactiveRemove(t) ==
  /\ At(t, "common")
  /\ rmv # Null
  /\ rmv' = Null
  /\ UnlockFile(t)
  /\ Goto(t, "delay")
  /\ UNCHANGED <<dlock, vp, mcount, count, linked, waitq, wait, has, entry, failed, ops>>

DelayLock(t) ==
  /\ At(t, "delay")
  /\ LockDir(t)
  /\ Goto(t, "delaying")
  /\ UNCHANGED <<mlock, vp, mcount, rmv, count, linked, waitq, wait, has, entry, failed, ops>>

Delayed(t) ==
  /\ At(t, "delaying")
  /\ entry' = IF entry \in Threads THEN Null ELSE entry
  /\ UnlockDir(t)
  /\ Goto(t, "delayed")
  /\ UNCHANGED <<mlock, vp, mcount, rmv, count, linked, waitq, wait, has, failed, ops>>

\* The remove fails, done or not, and is not tried again: "This could leave
\* stranded files in error conditions".
DelayedFail(t) ==
  /\ At(t, "delaying")
  /\ entry' \in {entry, IF entry \in Threads THEN Null ELSE entry}
  /\ failed' = failed \cup ({entry} \cap Threads)
  /\ UnlockDir(t)
  /\ Goto(t, "delayed")
  /\ UNCHANGED <<mlock, vp, mcount, rmv, count, linked, waitq, wait, has, ops>>

\* mvfs_linux_inactive unlinks vnode and mnode.  Its retest of mn_hdr.vp never
\* finds another thread to have done that.
Final(t) ==
  /\ At(t, "final") \/ (At(t, "common") /\ rmv = Null)
  /\ vp' = Null
  /\ linked' = linked \ {has[t]}
  /\ Goto(t, "finalize")
  /\ UNCHANGED <<dlock, mlock, mcount, rmv, count, waitq, wait, has, entry, failed, ops>>

\* Mutant: the waiters are not woken.
WakeNone == waitq
\* mdki_inactive_finalize wakes all that wait for any vnode to go.
WakeAll == {}

Finalize(t) ==
  /\ At(t, "finalize")
  /\ waitq' = WakeAll
  /\ UnlockFile(t)
  /\ Goto(t, "inrele")
  /\ UNCHANGED <<dlock, vp, mcount, rmv, count, linked, wait, has, entry, failed, ops>>

InactiveEnd(t) ==
  /\ At(t, "inrele")
  /\ mcount' = mcount - 1
  /\ has' = [has EXCEPT ![t] = Null]
  /\ Goto(t, "idle")
  /\ UNCHANGED <<dlock, mlock, vp, rmv, count, linked, waitq, wait, entry, failed, ops>>

-----------------------------------------------------------------------------
Lock(t) == LookupLock(t) \/ MnLock(t) \/ RenameDir(t) \/ RemoveRelock(t) \/ InactiveLock(t)
           \/ DelayLock(t)

Step(t) ==
  \/ LookupFound(t) \/ LookupNone(t) \/ VnHold(t) \/ VnDying(t) \/ VnBusy(t) \/ VnWait(t)
  \/ VnWake(t) \/ VnNone(t) \/ VnNew(t) \/ VnNewFail(t) \/ MnRele(t) \/ GetEnd(t)
  \/ RemoveChoose(t) \/ Rename(t) \/ RenameFail(t) \/ Unlink(t) \/ RemoveEnd(t)
  \/ InactiveRemove(t) \/ Delayed(t) \/ DelayedFail(t) \/ Final(t) \/ Finalize(t)
  \/ InactiveEnd(t)

Next == \E t \in Threads : \/ LookupStart(t) \/ FindStart(t) \/ RemoveStart(t) \/ Rele(t)
                           \/ Lock(t) \/ Step(t)

Spec == Init /\ [][Next]_vars

\* A thread inside the driver is scheduled, and one that waits for a lock gets
\* it in the end (Linux queues the waiters of a mutex).  Nothing makes a thread
\* release a file it has.
FairSpec == Spec /\ \A t \in Threads : WF_vars(Step(t)) /\ SF_vars(Lock(t))

-----------------------------------------------------------------------------
Inactivating(t) == pc[t] \in {"inactive", "common", "delay", "delaying", "delayed", "final",
                              "finalize", "inrele"}

TypeOK ==
  /\ dlock \in Threads \cup {Null} /\ mlock \in Threads \cup {Null}
  /\ vp \in Vnodes \cup {Null} /\ linked \subseteq Vnodes
  /\ mcount \in Nat /\ count \in [Vnodes -> Nat]
  /\ has \in [Threads -> Vnodes \cup {Null}]
  /\ waitq \subseteq Threads

\* A vnode that somebody has a reference to is the one the mnode points to and
\* is not being inactivated: igrab and the mnode lock keep activation and
\* deactivation apart.
HeldIsActive ==
  \A t \in Threads : has[t] # Null /\ ~Inactivating(t) =>
    /\ vp = has[t] /\ linked = {vp}
    /\ count[vp] = Cardinality({u \in Threads : has[u] = vp /\ ~Inactivating(u)})

\* Mnode references: one of each thread on its way through vnget, one of the
\* vnode until its inactivation is over.
MnodeRefs ==
  mcount = Cardinality({t \in Threads : pc[t] \in {"mnget", "vnget", "dying", "alloc", "sleep",
                                                  "mnrele", "busy"}})
           + Cardinality({has[t] : t \in Threads} \ {Null})

\* The references, of the users to the vnode and of vnode and users to the mnode,
\* are exact, and what is referenced is active.
ActivationSound == TypeOK /\ HeldIsActive /\ MnodeRefs

\* Nobody sleeps unless an inactivation is still to come that will wake him:
\* "we should never miss a wake up".
NoMissedWakeup == waitq # {} => Dying \/ \E t \in Threads : pc[t] = "finalize"

\* A file renamed out of the way when it was removed is removed by whoever
\* inactivates its vnode: the temporary name stays behind only if the call that
\* made it or the call that was to remove it has failed.
NoStrandedFile ==
  entry \in Threads \ failed => \/ rmv = entry
                                \/ pc[entry] = "renamed"
                                \/ \E t \in Threads : pc[t] \in {"delay", "delaying"}

\* Every operation comes to its end: a lookup does not wait for an inactivation
\* that waits for the directory lock the lookup has, and its retries let the
\* inactivation pass.
OpsReturn == \A t \in Threads : pc[t] # "idle" ~> pc[t] = "idle"
=============================================================================
