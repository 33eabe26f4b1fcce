-------------------------- MODULE ActivationProofs --------------------------
(***************************************************************************)
(* Activation and inactivation of a file's vnode, for every number of      *)
(* threads and inodes and any number of operations.                        *)
(***************************************************************************)
EXTENDS Activation, FiniteSetTheorems, TLAPS

\* Where a thread is: with the file's mnode locked; on its way to a vnode;
\* with a vnode it removes or inactivates; inactivating a linked vnode.
Locked == {"vnget", "dying", "alloc", "remove", "removed", "common", "final", "finalize"}
Bare == {"lookup", "rpc", "mnget", "vnget", "dying", "alloc", "sleep", "busy", "retry"}
Going == {"inactive", "common", "delay", "delaying", "delayed", "final"}
Gone == {"finalize", "inrele"}
Removing == {"remove", "rename", "unlink", "renaming", "unlinking", "renamed", "unlinked",
             "removed"}
Labels == Locked \cup Bare \cup Going \cup Gone \cup Removing \cup {"idle", "got", "mnrele"}

\* The threads whose references the inode counts.
Holders == {t \in Threads : has[t] # Null /\ ~Inactivating(t)}

\* The types the other parts rely on.
Shape ==
  /\ vp \in Vnodes \cup {Null}
  /\ has \in [Threads -> Vnodes \cup {Null}]
  /\ pc \in [Threads -> Labels]
  /\ dlock \in Threads \cup {Null} /\ mlock \in Threads \cup {Null}
  /\ waitq \subseteq Threads

\* The mnode lock excludes.
LockInv == \A t \in Threads : pc[t] \in Locked => mlock = t

\* Who has a vnode.
HasInv == \A t \in Threads :
  /\ pc[t] \in Bare => has[t] = Null
  /\ pc[t] \in Going \cup Gone \cup Removing => has[t] # Null

\* The vnode of the mnode is the one its users have, until it is unlinked.
LinkInv ==
  /\ linked = {vp} \ {Null}
  /\ \A t \in Threads : has[t] # Null /\ pc[t] \notin Gone => vp = has[t]

\* The inode counts its holders; one thread at most inactivates it, and only
\* when there are none.
CountInv ==
  /\ count \in [Vnodes -> Nat]
  /\ vp # Null => count[vp] = Cardinality(Holders)
  /\ \A t \in Threads : pc[t] \in Going => vp # Null /\ count[vp] = 0
  /\ \A t, u \in Threads : pc[t] \in Going /\ pc[u] \in Going => t = u

\* What a thread in vnget saw is still so while it has the lock.
SawInv == \A t \in Threads :
  /\ pc[t] = "alloc" => vp = Null
  /\ pc[t] = "dying" => Dying

\* The inductive invariant behind HeldIsActive and NoMissedWakeup.
ActiveInv == Shape /\ LockInv /\ HasInv /\ LinkInv /\ CountInv /\ SawInv /\ NoMissedWakeup

-----------------------------------------------------------------------------
\* What a thread does.
Acts(t) == \/ LookupStart(t) \/ FindStart(t) \/ RemoveStart(t) \/ Rele(t)
           \/ Lock(t) \/ Step(t)

\* The actions that leave vnode, count and references alone.
Others(t) == /\ UNCHANGED <<vp, count, linked, has>>
             /\ pc[t] \in Going <=> pc'[t] \in Going
             /\ pc[t] \in Gone <=> pc'[t] \in Gone

\* Types, and that a thread moves itself only.
LEMMA ShapeStep ==
  ASSUME Shape, NEW t \in Threads, Acts(t)
  PROVE  /\ Shape'
         /\ \A u \in Threads : u # t => pc'[u] = pc[u] /\ has'[u] = has[u]
  <1> USE DEF Acts, At, Lock, Step, Goto, LookupStart, FindStart, RemoveStart, Rele, LookupLock,
     MnLock, RenameDir, RemoveRelock, InactiveLock, DelayLock, LookupFound, LookupNone, VnHold,
     VnDying, VnBusy, VnWait, VnWake, VnNone, VnNew, VnNewFail, MnRele, GetEnd, RemoveChoose,
     Rename, RenameFail, Unlink, RemoveEnd, InactiveRemove, Delayed, DelayedFail, Final, Finalize, InactiveEnd
  <1>1. pc' \in [Threads -> Labels]
    BY DEF Shape, Labels, Locked, Bare, Going, Gone, Removing
  <1>2. has' \in [Threads -> Vnodes \cup {Null}] /\ vp' \in Vnodes \cup {Null}
    BY DEF Shape, Fresh
  <1>3. dlock' \in Threads \cup {Null} /\ mlock' \in Threads \cup {Null}
    BY DEF Shape, LockDir, UnlockDir, LockFile, UnlockFile
  <1>4. waitq' \subseteq Threads
    BY DEF Shape, WakeAll
  <1>5. \A u \in Threads : u # t => pc'[u] = pc[u]
    BY DEF Shape
  <1>6. \A u \in Threads : u # t => has'[u] = has[u]
    BY DEF Shape
  <1> QED BY <1>1, <1>2, <1>3, <1>4, <1>5, <1>6 DEF Shape

\* The mnode lock is released by its owner and taken when it is free.
LEMMA LockStep ==
  ASSUME Shape, LockInv, NEW t \in Threads, Acts(t)
  PROVE  LockInv'
  BY ActivationAssumption DEF LockInv, Locked, LockFile, UnlockFile, Shape, Acts, At, Lock, Step,
     Goto, LookupStart, FindStart, RemoveStart, Rele, LookupLock, MnLock, RenameDir,
     RemoveRelock, InactiveLock, DelayLock, LookupFound, LookupNone, VnHold, VnDying, VnBusy,
     VnWait, VnWake, VnNone, VnNew, VnNewFail, MnRele, GetEnd, RemoveChoose, Rename, RenameFail, Unlink,
     RemoveEnd, InactiveRemove, Delayed, DelayedFail, Final, Finalize, InactiveEnd

LEMMA HasStep ==
  ASSUME Shape, HasInv, NEW t \in Threads, Acts(t)
  PROVE  HasInv'
  BY ActivationAssumption DEF HasInv, Bare, Going, Gone, Removing, Fresh, Shape, Acts, At, Lock,
     Step, Goto, LookupStart, FindStart, RemoveStart, Rele, LookupLock, MnLock, RenameDir,
     RemoveRelock, InactiveLock, DelayLock, LookupFound, LookupNone, VnHold, VnDying, VnBusy,
     VnWait, VnWake, VnNone, VnNew, VnNewFail, MnRele, GetEnd, RemoveChoose, Rename, RenameFail, Unlink,
     RemoveEnd, InactiveRemove, Delayed, DelayedFail, Final, Finalize, InactiveEnd

\* Five actions change what a vnode is linked to or who has it.
LEMMA Split ==
  ASSUME Shape, NEW t \in Threads, Acts(t)
  PROVE  VnHold(t) \/ VnNew(t) \/ Rele(t) \/ Final(t) \/ InactiveEnd(t) \/ Others(t)
  BY DEF Others, Going, Gone, Shape, Acts, At, Lock, Step, Goto, LookupStart, FindStart,
     RemoveStart, LookupLock, MnLock, RenameDir, RemoveRelock, InactiveLock, DelayLock,
     LookupFound, LookupNone, VnDying, VnBusy, VnWait, VnWake, VnNone, VnNewFail, MnRele,
     GetEnd, RemoveChoose, Rename, RenameFail, Unlink, RemoveEnd, InactiveRemove, Delayed, DelayedFail, Finalize

\* The holders are finitely many; a holder has the linked vnode, whose count is
\* then not 0.
LEMMA HoldersFinite ==
  ASSUME Shape, LinkInv, CountInv
  PROVE  /\ IsFiniteSet(Holders) /\ Cardinality(Holders) \in Nat
         /\ Cardinality(Holders) = 0 <=> Holders = {}
         /\ \A t \in Holders : vp = has[t] /\ vp # Null /\ count[vp] # 0
  <1>1. IsFiniteSet(Holders)
    BY FS_Subset, ActivationAssumption DEF Holders
  <1>2. Cardinality(Holders) \in Nat /\ (Cardinality(Holders) = 0 <=> Holders = {})
    BY <1>1, FS_CardinalityType, FS_EmptySet
  <1>3. ASSUME NEW t \in Holders PROVE vp = has[t] /\ vp # Null
    BY <1>3 DEF Holders, LinkInv, Inactivating, Gone
  <1> QED BY <1>1, <1>2, <1>3 DEF CountInv

\* Each of them keeps links and count.
LEMMA LinkStep ==
  ASSUME Shape, HasInv, LockInv, LinkInv, CountInv, SawInv,
         NEW t \in Threads, Acts(t)
  PROVE  LinkInv' /\ CountInv'
  <1> USE ActivationAssumption
  <1>0. \A u \in Threads : u # t => pc'[u] = pc[u] /\ has'[u] = has[u]
    BY ShapeStep
  <1>1. CASE Others(t)
    <2>1. Holders' = Holders
      BY <1>0, <1>1 DEF Holders, Others, Inactivating, Going, Gone, Shape
    <2>2. LinkInv'
      BY <1>0, <1>1 DEF LinkInv, Others, Shape
    <2>3. CountInv'
      BY <1>0, <1>1, <2>1 DEF CountInv, Others, Shape
    <2> QED BY <2>2, <2>3
  <1>2. CASE VnHold(t)
    <2>1. /\ vp # Null /\ vp \in Vnodes /\ count[vp] \in Nat /\ count[vp] > 0
          /\ pc[t] = "vnget" /\ has[t] = Null /\ has'[t] = vp /\ pc'[t] = "mnrele"
          /\ vp' = vp /\ linked' = linked /\ count' = [count EXCEPT ![vp] = count[vp] + 1]
      BY <1>2 DEF VnHold, Grab, At, Goto, HasInv, Bare, Shape, CountInv
    <2>2. Holders' = Holders \cup {t} /\ t \notin Holders
      BY <1>0, <2>1 DEF Holders, Inactivating, Shape
    <2>3. Cardinality(Holders') = Cardinality(Holders) + 1
      BY <2>2, HoldersFinite, FS_AddElement
    <2>4. LinkInv'
      BY <1>0, <2>1 DEF LinkInv, Gone
    <2>5. CountInv'
      BY <1>0, <2>1, <2>3 DEF CountInv, Going, Shape
    <2> QED BY <2>4, <2>5
  <1>3. CASE VnNew(t)
    <2> DEFINE v == CHOOSE v \in Fresh : TRUE
    <2>1. v \in Fresh
      BY <1>3 DEF VnNew
    <2>2. /\ v \in Vnodes /\ v # Null /\ pc[t] = "alloc" /\ vp = Null /\ has[t] = Null
          /\ vp' = v /\ has'[t] = v /\ pc'[t] = "got" /\ linked' = linked \cup {v}
          /\ count' = [count EXCEPT ![v] = 1]
      BY <1>3, <2>1 DEF VnNew, Fresh, At, Goto, SawInv, HasInv, Bare, Shape
    <2>3. \A u \in Threads : u # t => has[u] = Null \/ pc[u] \in Gone
      BY <2>2 DEF LinkInv
    <2>4. Holders' = {t}
      BY <1>0, <2>2, <2>3 DEF Holders, Inactivating, Gone
    <2>5. Cardinality(Holders') = 1
      BY <2>4, FS_Singleton
    <2>6. LinkInv'
      BY <1>0, <2>2, <2>3 DEF LinkInv, Gone
    <2>7. \A u \in Threads : pc'[u] \notin Going
      BY <1>0, <2>2 DEF CountInv, Going
    <2>8. CountInv'
      BY <2>2, <2>5, <2>7 DEF CountInv, Shape
    <2> QED BY <2>6, <2>8
  <1>4. CASE Rele(t)
    <2>1. /\ pc[t] = "idle" /\ has[t] # Null /\ vp = has[t] /\ vp \in Vnodes
          /\ vp' = vp /\ linked' = linked /\ count' = [count EXCEPT ![vp] = count[vp] - 1]
      BY <1>4 DEF Rele, At, LinkInv, Gone, Shape
    <2>2. t \in Holders
      BY <2>1 DEF Holders, Inactivating
    <2>3. count[vp] \in Nat \ {0} /\ count[vp] = Cardinality(Holders)
      BY <2>1, <2>2, HoldersFinite DEF CountInv, Shape
    <2>4. \A u \in Threads : pc[u] \notin Going
      BY <2>3 DEF CountInv
    <2>5. /\ count[vp] = 1 => pc'[t] = "inactive" /\ has'[t] = has[t]
          /\ count[vp] # 1 => pc'[t] = "idle" /\ has'[t] = Null
      BY <1>4, <2>1 DEF Rele, Goto, Shape
    <2>6. Holders' = Holders \ {t}
      BY <1>0, <2>1, <2>5 DEF Holders, Inactivating
    <2>7. Cardinality(Holders') = Cardinality(Holders) - 1
      BY <2>2, <2>6, HoldersFinite, FS_RemoveElement
    <2>8. LinkInv'
      BY <1>0, <2>1, <2>5 DEF LinkInv, Gone
    <2>9. CountInv'
      <3>1. count' \in [Vnodes -> Nat] /\ count'[vp'] = count[vp] - 1
        BY <2>1, <2>3 DEF CountInv
      <3>2. \A u \in Threads : pc'[u] \in Going => u = t /\ count[vp] = 1
        BY <1>0, <2>4, <2>5 DEF Going
      <3> QED BY <3>1, <3>2, <2>1, <2>3, <2>7 DEF CountInv
    <2> QED BY <2>8, <2>9
  <1>5. CASE Final(t)
    <2>1. /\ pc[t] \in Going /\ has[t] # Null /\ vp = has[t] /\ count[vp] = 0
          /\ vp' = Null /\ linked' = linked \ {has[t]} /\ UNCHANGED <<count, has>>
          /\ pc'[t] = "finalize"
      BY <1>5 DEF Final, At, Goto, Going, Gone, HasInv, LinkInv, CountInv, Shape
    <2>2. \A u \in Threads : u # t => has[u] = Null \/ pc[u] \in Gone
      <3> SUFFICES ASSUME NEW u \in Threads, u # t, has[u] # Null, pc[u] \notin Gone PROVE FALSE
        OBVIOUS
      <3>1. CASE u \in Holders
        BY <3>1, <2>1, HoldersFinite
      <3>2. CASE pc[u] \in Going
        BY <3>2, <2>1 DEF CountInv
      <3> QED BY <3>1, <3>2 DEF Holders, Inactivating, Going, Gone
    <2>3. LinkInv'
      BY <1>0, <2>1, <2>2 DEF LinkInv, Gone
    <2>4. CountInv'
      BY <1>0, <2>1 DEF CountInv, Going
    <2> QED BY <2>3, <2>4
  <1>6. CASE InactiveEnd(t)
    <2>1. /\ pc[t] = "inrele" /\ pc'[t] = "idle" /\ has'[t] = Null
          /\ UNCHANGED <<vp, count, linked>>
      BY <1>6 DEF InactiveEnd, At, Goto, Shape
    <2>2. Holders' = Holders
      BY <1>0, <2>1 DEF Holders, Inactivating
    <2>3. LinkInv'
      BY <1>0, <2>1 DEF LinkInv, Gone
    <2>4. CountInv'
      BY <1>0, <2>1, <2>2 DEF CountInv, Going
    <2> QED BY <2>3, <2>4
  <1> QED BY <1>1, <1>2, <1>3, <1>4, <1>5, <1>6, Split

\* While a thread has the mnode locked nobody links or unlinks a vnode, and a
\* dying vnode stays dying: igrab fails and there is no holder to release it.
LEMMA SawStep ==
  ASSUME Shape, LockInv, HasInv, LinkInv, CountInv, SawInv, NEW t \in Threads, Acts(t)
  PROVE  SawInv' /\ (Dying => Dying' \/ Final(t))
  <1> USE ActivationAssumption
  <1>0. \A u \in Threads : u # t => pc'[u] = pc[u]
    BY ShapeStep
  <1>1. Dying => Dying' \/ Final(t)
    <2> SUFFICES ASSUME Dying, ~Final(t) PROVE Dying'
      OBVIOUS
    <2>1. vp # Null /\ count[vp] = 0 /\ vp \in Vnodes
      BY DEF Dying, Grab, CountInv, Shape
    <2>2. ~VnHold(t) /\ ~VnNew(t)
      BY <2>1 DEF VnHold, VnNew, Grab, At, SawInv
    <2>3. ~Rele(t)
      <3> SUFFICES ASSUME Rele(t) PROVE FALSE
        OBVIOUS
      <3>1. t \in Holders
        BY DEF Rele, At, Holders, Inactivating
      <3> QED BY <3>1, <2>1, HoldersFinite
    <2>4. UNCHANGED <<vp, count>>
      BY <2>2, <2>3, Split DEF Others, InactiveEnd
    <2> QED BY <2>4 DEF Dying, Grab
  <1>2. ASSUME NEW u \in Threads, pc'[u] = "alloc" PROVE vp' = Null
    <2>1. CASE u = t
      BY <2>1, <1>2 DEF Shape, SawInv, Acts, At, Lock, Step, Goto, LookupStart, FindStart,
         RemoveStart, Rele, LookupLock, MnLock, RenameDir, RemoveRelock, InactiveLock, DelayLock,
         LookupFound, LookupNone, VnHold, VnDying, VnBusy, VnWait, VnWake, VnNone, VnNew,
         VnNewFail, MnRele, GetEnd, RemoveChoose, Rename, RenameFail, Unlink, RemoveEnd, InactiveRemove,
         Delayed, DelayedFail, Final, Finalize, InactiveEnd
    <2>2. CASE u # t
      <3>1. pc[u] = "alloc" /\ vp = Null
        BY <2>2, <1>0, <1>2 DEF SawInv
      <3>2. ~VnNew(t)
        BY <3>1, <2>2 DEF VnNew, At, LockInv, Locked
      <3> QED BY <3>1, <3>2, Split DEF Others, VnHold, Rele, Final, InactiveEnd
    <2> QED BY <2>1, <2>2
  <1>3. ASSUME NEW u \in Threads, pc'[u] = "dying" PROVE Dying'
    <2>1. CASE u = t
      <3>1. VnDying(t)
        BY <2>1, <1>3 DEF Shape, Acts, At, Lock, Step, Goto, LookupStart, FindStart,
           RemoveStart, Rele, LookupLock, MnLock, RenameDir, RemoveRelock, InactiveLock,
           DelayLock, LookupFound, LookupNone, VnHold, VnBusy, VnWait, VnWake, VnNone, VnNew,
           VnNewFail, MnRele, GetEnd, RemoveChoose, Rename, RenameFail, Unlink, RemoveEnd, InactiveRemove,
           Delayed, DelayedFail, Final, Finalize, InactiveEnd
      <3> QED BY <3>1 DEF VnDying, Dying, Grab
    <2>2. CASE u # t
      <3>1. pc[u] = "dying" /\ Dying
        BY <2>2, <1>0, <1>3 DEF SawInv
      <3>2. ~Final(t)
        BY <3>1, <2>2 DEF Final, At, LockInv, Locked
      <3> QED BY <3>1, <3>2, <1>1
    <2> QED BY <2>1, <2>2
  <1> QED BY <1>1, <1>2, <1>3 DEF SawInv

\* A thread queues itself while the vnode is dying; Final leads to the wake-up.
LEMMA WakeStep ==
  ASSUME Shape, LockInv, HasInv, LinkInv, CountInv, SawInv, NoMissedWakeup,
         NEW t \in Threads, Acts(t)
  PROVE  NoMissedWakeup'
  <1>0. \A u \in Threads : u # t => pc'[u] = pc[u]
    BY ShapeStep
  <1>1. CASE Finalize(t)
    BY <1>1 DEF Finalize, WakeAll, NoMissedWakeup
  <1>2. CASE Final(t)
    <2>1. pc'[t] = "finalize"
      BY <1>2 DEF Final, Goto, Shape
    <2> QED BY <2>1 DEF NoMissedWakeup
  <1>3. CASE ~Finalize(t) /\ ~Final(t)
    <2>1. Dying => Dying'
      BY <1>3, SawStep
    <2>2. ASSUME NEW u \in Threads, pc[u] = "finalize" PROVE pc'[u] = "finalize"
      BY <2>2, <1>0, <1>3 DEF Shape, Acts, At, Lock, Step, Goto, LookupStart, FindStart,
         RemoveStart, Rele, LookupLock, MnLock, RenameDir, RemoveRelock, InactiveLock, DelayLock,
         LookupFound, LookupNone, VnHold, VnDying, VnBusy, VnWait, VnWake, VnNone, VnNew,
         VnNewFail, MnRele, GetEnd, RemoveChoose, Rename, RenameFail, Unlink, RemoveEnd, InactiveRemove,
         Delayed, DelayedFail, InactiveEnd, Finalize
    <2>3. CASE VnWait(t)
      BY <2>1, <2>3 DEF VnWait, At, SawInv, NoMissedWakeup
    <2>4. CASE ~VnWait(t)
      <3>1. waitq' = waitq
        BY <2>4, <1>3 DEF Acts, Lock, Step, LookupStart, FindStart,
           RemoveStart, Rele, LookupLock, MnLock, RenameDir, RemoveRelock, InactiveLock, DelayLock,
           LookupFound, LookupNone, VnHold, VnDying, VnBusy, VnWake, VnNone, VnNew,
           VnNewFail, MnRele, GetEnd, RemoveChoose, Rename, RenameFail, Unlink, RemoveEnd, InactiveRemove,
           Delayed, DelayedFail, InactiveEnd
      <3> QED BY <3>1, <2>1, <2>2 DEF NoMissedWakeup
    <2> QED BY <2>3, <2>4
  <1> QED BY <1>1, <1>2, <1>3

-----------------------------------------------------------------------------
LEMMA ActiveInit == Init => ActiveInv
  <1> SUFFICES ASSUME Init PROVE ActiveInv
    OBVIOUS
  <1> USE ActivationAssumption DEF Init
  <1>1. Shape
    BY DEF Shape, Labels
  <1>2. LockInv /\ HasInv /\ SawInv
    BY DEF LockInv, HasInv, SawInv, Locked, Bare, Going, Gone, Removing
  <1>3. LinkInv /\ CountInv
    BY DEF LinkInv, CountInv, Going
  <1> QED BY <1>1, <1>2, <1>3 DEF ActiveInv, NoMissedWakeup

LEMMA ActiveStep == ActiveInv /\ [Next]_vars => ActiveInv'
  <1> SUFFICES ASSUME ActiveInv, [Next]_vars PROVE ActiveInv'
    OBVIOUS
  <1>1. CASE UNCHANGED vars
    BY <1>1 DEF vars, ActiveInv, Shape, LockInv, HasInv, LinkInv, CountInv, SawInv,
       NoMissedWakeup, Holders, Inactivating, Dying, Grab
  <1>2. CASE Next
    <2>1. PICK t \in Threads : Acts(t)
      BY <1>2 DEF Next, Acts
    <2> QED BY <2>1, ShapeStep, LockStep, HasStep, LinkStep, SawStep, WakeStep DEF ActiveInv
  <1> QED BY <1>1, <1>2

\* The inductive invariant of activation holds, for every number of threads.
THEOREM ActiveInvariant == Spec => []ActiveInv
  BY ActiveInit, ActiveStep, PTL DEF Spec

\* The vnode that a thread has a reference to is the one linked to the mnode,
\* is not being inactivated, and counts exactly its users.
THEOREM HeldCorrect == Spec => []HeldIsActive
  <1>1. ActiveInv => HeldIsActive
    <2> SUFFICES ASSUME ActiveInv, NEW t \in Threads, has[t] # Null, ~Inactivating(t)
                 PROVE  /\ vp = has[t] /\ linked = {vp}
                        /\ count[vp] = Cardinality({u \in Threads : has[u] = vp /\ ~Inactivating(u)})
      BY DEF HeldIsActive
    <2>1. t \in Holders
      BY DEF Holders
    <2>2. vp = has[t] /\ vp # Null
      BY <2>1, HoldersFinite DEF ActiveInv
    <2>3. {u \in Threads : has[u] = vp /\ ~Inactivating(u)} = Holders
      BY <2>2, HoldersFinite DEF ActiveInv, Holders
    <2> QED BY <2>2, <2>3 DEF ActiveInv, LinkInv, CountInv
  <1> QED BY <1>1, ActiveInvariant, PTL

\* "We should never miss a wake up": while a thread sleeps in
\* mvfs_wait_on_inactive, the wake-up of mdki_inactive_finalize is still to come.
THEOREM WakeupCorrect == Spec => []NoMissedWakeup
  <1>1. ActiveInv => NoMissedWakeup
    BY DEF ActiveInv
  <1> QED BY <1>1, ActiveInvariant, PTL

-----------------------------------------------------------------------------
\* References to the mnode: the threads in vnget, and the vnodes somebody has.
InVnget == {t \in Threads : pc[t] \in {"mnget", "vnget", "dying", "alloc", "sleep",
                                       "mnrele", "busy"}}
Held == {has[t] : t \in Threads} \ {Null}

\* An unlinked vnode belongs to the thread that inactivates it alone, so that
\* its mnode reference is given back once.
AloneInv == \A t, u \in Threads : t # u /\ pc[t] \in Gone => has[t] # has[u]

LEMMA RefsFinite ==
  ASSUME Shape
  PROVE  /\ IsFiniteSet(InVnget) /\ Cardinality(InVnget) \in Nat
         /\ IsFiniteSet(Held) /\ Cardinality(Held) \in Nat
  <1>1. IsFiniteSet(InVnget)
    BY FS_Subset, ActivationAssumption DEF InVnget
  <1>2. IsFiniteSet({has[t] : t \in Threads})
    <2>1. has \in Surjection(Threads, {has[t] : t \in Threads})
      BY DEF Surjection, Shape
    <2> QED BY <2>1, FS_Surjection, ActivationAssumption
  <1>3. IsFiniteSet(Held)
    BY <1>2, FS_Subset DEF Held
  <1> QED BY <1>1, <1>3, FS_CardinalityType

LEMMA AloneStep ==
  ASSUME ActiveInv, AloneInv, NEW t \in Threads, Acts(t)
  PROVE  AloneInv'
  <1> USE ActivationAssumption DEF ActiveInv
  <1>0. \A u \in Threads : u # t => pc'[u] = pc[u] /\ has'[u] = has[u]
    BY ShapeStep
  <1>1. CASE Others(t)
    BY <1>0, <1>1 DEF Others, AloneInv, Shape
  <1>2. CASE VnHold(t)
    <2>1. \A u \in Threads : pc[u] \in Gone => has[u] # vp
      <3> SUFFICES ASSUME NEW u \in Threads, pc[u] \in Gone, has[u] = vp PROVE FALSE
        OBVIOUS
      <3>1. vp # Null /\ count[vp] # 0
        BY <1>2 DEF VnHold, Grab, CountInv, Shape
      <3>2. PICK w \in Holders : TRUE
        BY <3>1, HoldersFinite DEF CountInv
      <3>3. w \in Threads /\ w # u /\ has[w] = vp
        BY <3>2, HoldersFinite DEF Holders, Inactivating, Gone
      <3> QED BY <3>3 DEF AloneInv
    <2>2. has'[t] = vp /\ pc'[t] = "mnrele"
      BY <1>2 DEF VnHold, Goto, Shape
    <2> QED BY <1>0, <2>1, <2>2 DEF AloneInv, Gone
  <1>3. CASE VnNew(t)
    <2> DEFINE v == CHOOSE v \in Fresh : TRUE
    <2>1. v \in Fresh /\ has'[t] = v /\ pc'[t] = "got"
      BY <1>3 DEF VnNew, Goto, Shape
    <2> QED BY <1>0, <2>1 DEF AloneInv, Gone, Fresh
  <1>4. CASE Rele(t)
    <2>1. has'[t] \in {has[t], Null} /\ pc'[t] \notin Gone
      BY <1>4 DEF Rele, Goto, At, Gone, Shape
    <2>2. \A u \in Threads : pc[u] \in Gone => has[u] # Null
      BY DEF HasInv
    <2> QED BY <1>0, <2>1, <2>2 DEF AloneInv
  <1>5. CASE Final(t)
    <2>1. /\ pc[t] \in Going /\ has[t] # Null /\ vp = has[t] /\ vp # Null /\ count[vp] = 0
          /\ has' = has /\ pc'[t] \in Gone
      BY <1>5 DEF Final, At, Goto, Going, Gone, HasInv, LinkInv, CountInv, Shape
    <2>2. ASSUME NEW u \in Threads, u # t PROVE has[u] # has[t]
      <3> SUFFICES ASSUME has[u] = has[t] PROVE FALSE
        OBVIOUS
      <3>1. CASE pc[u] \in Gone
        BY <2>2, <3>1 DEF AloneInv
      <3>2. CASE pc[u] \in Going
        BY <2>1, <2>2, <3>2 DEF CountInv
      <3>3. CASE pc[u] \notin Going \cup Gone
        <4>1. u \in Holders
          BY <2>1, <3>3 DEF Holders, Inactivating, Going, Gone
        <4> QED BY <4>1, <2>1, HoldersFinite
      <3> QED BY <3>1, <3>2, <3>3
    <2> QED BY <1>0, <2>1, <2>2 DEF AloneInv
  <1>6. CASE InactiveEnd(t)
    <2>1. has'[t] = Null /\ pc'[t] = "idle"
      BY <1>6 DEF InactiveEnd, Goto, Shape
    <2>2. \A u \in Threads : pc[u] \in Gone => has[u] # Null
      BY DEF HasInv
    <2> QED BY <1>0, <2>1, <2>2 DEF AloneInv, Gone
  <1> QED BY <1>1, <1>2, <1>3, <1>4, <1>5, <1>6, Split

\* How the actions change the two sets and the count.
LEMMA RefsStep ==
  ASSUME ActiveInv, AloneInv, mcount = Cardinality(InVnget) + Cardinality(Held),
         NEW t \in Threads, Acts(t)
  PROVE  mcount' = Cardinality(InVnget') + Cardinality(Held')
  <1> USE ActivationAssumption DEF ActiveInv
  <1>0. \A u \in Threads : u # t => pc'[u] = pc[u] /\ has'[u] = has[u]
    BY ShapeStep
  <1>1. CASE LookupFound(t) \/ FindStart(t)
    <2>1. /\ InVnget' = InVnget \cup {t} /\ t \notin InVnget
          /\ has' = has /\ mcount' = mcount + 1
      BY <1>0, <1>1 DEF LookupFound, FindStart, At, Goto, InVnget, Shape
    <2>2. Cardinality(InVnget') = Cardinality(InVnget) + 1
      BY <2>1, RefsFinite, FS_AddElement
    <2>3. Held' = Held
      BY <2>1 DEF Held
    <2> QED BY <2>1, <2>2, <2>3, RefsFinite
  <1>2. CASE MnRele(t)
    <2>1. /\ InVnget' = InVnget \ {t} /\ t \in InVnget
          /\ has' = has /\ mcount' = mcount - 1
      BY <1>0, <1>2 DEF MnRele, DropRef, At, Goto, InVnget, Shape
    <2>2. Cardinality(InVnget') = Cardinality(InVnget) - 1
      BY <2>1, RefsFinite, FS_RemoveElement
    <2>3. Held' = Held
      BY <2>1 DEF Held
    <2> QED BY <2>1, <2>2, <2>3, RefsFinite
  <1>3. CASE VnHold(t)
    <2>1. /\ vp # Null /\ count[vp] # 0 /\ pc[t] = "vnget" /\ has[t] = Null
          /\ has'[t] = vp /\ pc'[t] = "mnrele" /\ mcount' = mcount
      BY <1>3 DEF VnHold, Grab, CountInv, HasInv, Bare, At, Goto, Shape
    <2>2. PICK w \in Holders : TRUE
      BY <2>1, HoldersFinite DEF CountInv
    <2>3. w \in Threads /\ w # t /\ has[w] = vp
      BY <2>1, <2>2, HoldersFinite DEF Holders
    <2>4. Held' = Held
      BY <1>0, <2>1, <2>3 DEF Held
    <2>5. InVnget' = InVnget
      BY <1>0, <2>1 DEF InVnget
    <2> QED BY <2>1, <2>4, <2>5
  <1>4. CASE VnNew(t)
    <2> DEFINE v == CHOOSE v \in Fresh : TRUE
    <2>1. v \in Fresh
      BY <1>4 DEF VnNew
    <2>2. /\ v # Null /\ v \notin Held /\ pc[t] = "alloc" /\ has[t] = Null
          /\ has'[t] = v /\ pc'[t] = "got" /\ mcount' = mcount
      BY <1>4, <2>1 DEF VnNew, NewKeepsRef, Fresh, Held, At, Goto, HasInv, Bare, Shape
    <2>3. Held' = Held \cup {v}
      BY <1>0, <2>2 DEF Held
    <2>4. InVnget' = InVnget \ {t} /\ t \in InVnget
      BY <1>0, <2>2 DEF InVnget
    <2>5. Cardinality(Held') = Cardinality(Held) + 1
      BY <2>2, <2>3, RefsFinite, FS_AddElement
    <2>6. Cardinality(InVnget') = Cardinality(InVnget) - 1
      BY <2>4, RefsFinite, FS_RemoveElement
    <2> QED BY <2>2, <2>5, <2>6, RefsFinite
  <1>5. CASE Rele(t)
    <2>1. /\ pc[t] = "idle" /\ has[t] # Null /\ vp = has[t] /\ mcount' = mcount
          /\ pc'[t] \in {"idle", "inactive"}
      BY <1>5 DEF Rele, At, Goto, LinkInv, Gone, Shape
    <2>2. InVnget' = InVnget
      BY <1>0, <2>1 DEF InVnget
    <2>3. Held' = Held
      <3>1. CASE count[vp] = 1
        BY <3>1, <2>1, <1>5 DEF Rele, Held
      <3>2. CASE count[vp] # 1
        <4>1. t \in Holders
          BY <2>1 DEF Holders, Inactivating
        <4>2. Holders # {t}
          BY <3>2, <2>1, FS_Singleton DEF CountInv
        <4>3. PICK w \in Holders : w # t
          BY <4>1, <4>2
        <4>4. w \in Threads /\ has[w] = vp /\ has'[t] = Null
          BY <4>3, <3>2, <2>1, <1>5, HoldersFinite DEF Holders, Rele, Shape
        <4> QED BY <1>0, <2>1, <4>3, <4>4 DEF Held
      <3> QED BY <3>1, <3>2
    <2> QED BY <2>1, <2>2, <2>3
  <1>6. CASE InactiveEnd(t)
    <2>1. /\ pc[t] = "inrele" /\ pc'[t] = "idle" /\ has'[t] = Null /\ has[t] # Null
          /\ mcount' = mcount - 1
      BY <1>6 DEF InactiveEnd, At, Goto, HasInv, Gone, Shape
    <2>2. InVnget' = InVnget
      BY <1>0, <2>1 DEF InVnget
    <2>3. Held' = Held \ {has[t]} /\ has[t] \in Held
      BY <1>0, <2>1 DEF Held, AloneInv, Gone
    <2>4. Cardinality(Held') = Cardinality(Held) - 1
      BY <2>3, RefsFinite, FS_RemoveElement
    <2> QED BY <2>1, <2>2, <2>4, RefsFinite
  <1>7. CASE ~(LookupFound(t) \/ FindStart(t) \/ MnRele(t) \/ VnHold(t) \/ VnNew(t)
               \/ Rele(t) \/ InactiveEnd(t))
    <2>1. /\ has' = has /\ mcount' = mcount
          /\ t \in InVnget' <=> t \in InVnget
      BY <1>7 DEF InVnget, Shape, Acts, At, Lock, Step, Goto, LookupStart, RemoveStart,
         LookupLock, MnLock, RenameDir, RemoveRelock, InactiveLock, DelayLock, LookupNone,
         VnDying, VnBusy, VnWait, VnWake, VnNone, VnNewFail, GetEnd, RemoveChoose, Rename, RenameFail,
         Unlink, RemoveEnd, InactiveRemove, Delayed, DelayedFail, Final, Finalize
    <2>2. InVnget' = InVnget
      BY <1>0, <2>1 DEF InVnget
    <2> QED BY <2>1, <2>2 DEF Held
  <1> QED BY <1>1, <1>2, <1>3, <1>4, <1>5, <1>6, <1>7

\* mcount is the number of references at any time.
RefInv == AloneInv /\ mcount = Cardinality(InVnget) + Cardinality(Held)

\* Mnode references are exact: none is dropped twice or kept by a thread that
\* met a dying vnode, was beaten to the vnode or ran out of inodes.
THEOREM RefsCorrect == Spec => []MnodeRefs
  <1>1. Init => RefInv
    <2> SUFFICES ASSUME Init PROVE RefInv
      OBVIOUS
    <2>1. InVnget = {} /\ Held = {}
      BY DEF Init, InVnget, Held
    <2> QED BY <2>1, FS_EmptySet DEF Init, RefInv, AloneInv, Gone
  <1>2. ActiveInv /\ RefInv /\ [Next]_vars => RefInv'
    <2> SUFFICES ASSUME ActiveInv, RefInv, [Next]_vars PROVE RefInv'
      OBVIOUS
    <2>1. CASE UNCHANGED vars
      BY <2>1 DEF vars, RefInv, AloneInv, InVnget, Held
    <2>2. CASE Next
      <3>1. PICK t \in Threads : Acts(t)
        BY <2>2 DEF Next, Acts
      <3> QED BY <3>1, AloneStep, RefsStep DEF RefInv
    <2> QED BY <2>1, <2>2
  <1>3. RefInv => MnodeRefs
    BY DEF RefInv, MnodeRefs, InVnget, Held
  <1> QED BY <1>1, <1>2, <1>3, ActiveInvariant, PTL DEF Spec

\* The vnode state has its types; mcount and the inode counts are never negative.
THEOREM ActivationTypeCorrect == Spec => []TypeOK
  <1>1. ActiveInv /\ MnodeRefs => TypeOK
    <2> SUFFICES ASSUME ActiveInv, MnodeRefs PROVE TypeOK
      OBVIOUS
    <2>1. mcount \in Nat
      BY RefsFinite DEF ActiveInv, MnodeRefs, InVnget, Held
    <2> QED BY <2>1 DEF ActiveInv, Shape, LinkInv, CountInv, TypeOK
  <1> QED BY <1>1, ActiveInvariant, RefsCorrect, PTL

-----------------------------------------------------------------------------
\* The file's name in the view and the name to remove on inactive agree: once
\* renamed, the file never has its old name again, so one rename is accepted.
FileInv ==
  /\ entry \in Threads \cup {"nm", Null} /\ rmv \in Threads \cup {Null}
  /\ failed \subseteq Threads
  /\ rmv # Null => entry = rmv
  /\ \A t \in Threads : pc[t] = "renamed" => entry = t /\ rmv = Null
  /\ \A t \in Threads : pc[t] \in {"delay", "delaying"} => rmv = Null
  /\ NoStrandedFile

LEMMA FileStep ==
  ASSUME ActiveInv, FileInv, NEW t \in Threads, Acts(t)
  PROVE  FileInv'
  <1> USE ActivationAssumption DEF ActiveInv
  <1>0. \A u \in Threads : u # t => pc'[u] = pc[u]
    BY ShapeStep
  \* A thread that renames has the file, so nobody inactivates it.
  <1>1. \A u, w \in Threads : pc[u] = "renamed" => pc[w] \notin Going
    <2> SUFFICES ASSUME NEW u \in Threads, NEW w \in Threads, pc[u] = "renamed", pc[w] \in Going
                 PROVE  FALSE
      OBVIOUS
    <2>1. u \in Holders
      BY DEF Holders, Inactivating, HasInv, Removing
    <2> QED BY <2>1, HoldersFinite DEF CountInv
  <1>2. CASE Rename(t) \/ RenameFail(t)
    <2>1. rmv' = rmv /\ pc[t] = "renaming"
      BY <1>2 DEF Rename, RenameFail, At
    <2>2. CASE entry' = t /\ entry = "nm"
      <3>1. rmv = Null /\ \A u \in Threads : pc[u] # "renamed"
        BY <2>2 DEF FileInv
      <3>2. \/ pc'[t] = "renamed" /\ failed' = failed \ {t}
            \/ pc'[t] = "unlinked" /\ failed' = failed \cup {t}
        BY <1>2, <2>2 DEF Rename, RenameFail, Goto, Shape
      <3>3. /\ entry' \in Threads /\ rmv' = Null /\ failed' \subseteq Threads
            /\ \A u \in Threads : pc'[u] = "renamed" => u = t
        BY <1>0, <2>1, <2>2, <3>1, <3>2 DEF FileInv
      <3>4. NoStrandedFile'
        BY <2>2, <3>2 DEF NoStrandedFile
      <3> QED BY <2>2, <3>3, <3>4 DEF FileInv
    <2>3. CASE entry' = entry /\ pc'[t] = "unlinked"
      <3>1. failed \subseteq failed' /\ failed' \subseteq failed \cup {t}
        BY <1>2, <2>3 DEF Rename, RenameFail, Goto, Shape
      <3> QED BY <1>0, <2>1, <2>3, <3>1 DEF FileInv, NoStrandedFile
    <2> QED BY <1>2, <2>2, <2>3 DEF Rename, RenameFail, Goto, Shape
  <1>3. CASE Unlink(t)
    <2>1. /\ rmv' = rmv /\ failed' = failed /\ pc[t] = "unlinking" /\ pc'[t] = "unlinked"
          /\ entry' = entry \/ (entry = "nm" /\ entry' = Null)
      BY <1>3 DEF Unlink, At, Goto, Shape
    <2> QED BY <1>0, <2>1 DEF FileInv, NoStrandedFile
  <1>4. CASE RemoveRelock(t)
    <2>1. /\ entry' = entry /\ failed' = failed /\ pc[t] \in {"renamed", "unlinked"}
          /\ pc'[t] = "removed"
          /\ pc[t] = "renamed" => entry = t /\ rmv' = t
          /\ pc[t] = "unlinked" => rmv' = rmv
      BY <1>4 DEF RemoveRelock, Accept, At, Goto, Shape, FileInv
    <2>2. CASE pc[t] = "renamed"
      <3>1. \A u \in Threads : pc'[u] \notin {"delay", "delaying", "renamed"}
        BY <1>0, <1>1, <2>1, <2>2 DEF Going, FileInv
      <3> QED BY <2>1, <2>2, <3>1 DEF FileInv, NoStrandedFile
    <2>3. CASE pc[t] = "unlinked"
      BY <1>0, <2>1, <2>3 DEF FileInv, NoStrandedFile
    <2> QED BY <2>1, <2>2, <2>3
  <1>5. CASE InactiveRemove(t)
    <2>1. /\ entry' = entry /\ failed' = failed /\ rmv # Null /\ rmv' = Null
          /\ pc[t] = "common" /\ pc'[t] = "delay"
      BY <1>5 DEF InactiveRemove, At, Goto, Shape
    <2> QED BY <1>0, <2>1 DEF FileInv, NoStrandedFile
  <1>6. CASE Delayed(t) \/ DelayedFail(t)
    <2>1. /\ rmv' = rmv /\ pc[t] = "delaying" /\ pc'[t] = "delayed"
          /\ failed' = failed \/ failed' = failed \cup ({entry} \cap Threads)
          /\ \/ entry \in Threads /\ entry' = Null
             \/ entry \notin Threads /\ entry' = entry
             \/ entry' = entry /\ failed' = failed \cup ({entry} \cap Threads)
      BY <1>6 DEF Delayed, DelayedFail, At, Goto, Shape
    <2>2. \A u \in Threads : pc'[u] # "renamed"
      BY <1>0, <1>1, <2>1 DEF Going
    <2>3. rmv = Null
      BY <2>1 DEF FileInv
    <2>4. NoStrandedFile'
      BY <2>1 DEF NoStrandedFile
    <2> QED BY <1>0, <2>1, <2>2, <2>3, <2>4 DEF FileInv
  <1>7. CASE ~(\/ Rename(t) \/ RenameFail(t) \/ Unlink(t) \/ RemoveRelock(t) \/ InactiveRemove(t)
               \/ Delayed(t) \/ DelayedFail(t))
    <2>1. /\ entry' = entry /\ rmv' = rmv /\ failed' = failed
          /\ pc'[t] # "renamed" /\ pc[t] # "renamed"
          /\ pc'[t] \in {"delay", "delaying"} <=> pc[t] \in {"delay", "delaying"}
      BY <1>7 DEF Shape, Acts, At, Lock, Step, Goto, LookupStart, FindStart, RemoveStart, Rele,
         LookupLock, MnLock, RenameDir, RemoveRelock, InactiveLock, DelayLock, LookupFound,
         LookupNone, VnHold, VnDying, VnBusy, VnWait, VnWake, VnNone, VnNew, VnNewFail, MnRele,
         GetEnd, RemoveChoose, RemoveEnd, Final, Finalize, InactiveEnd, LockFile
    <2> QED BY <1>0, <2>1 DEF FileInv, NoStrandedFile
  <1> QED BY <1>2, <1>3, <1>4, <1>5, <1>6, <1>7

\* A file removed while in use is removed from the view when its vnode is
\* inactivated: the temporary name of mvfs_silly_rename stays behind only when
\* its rename or its delayed remove failed.
THEOREM FileCorrect == Spec => []NoStrandedFile
  <1>1. Init => FileInv
    BY ActivationAssumption DEF Init, FileInv, NoStrandedFile
  <1>2. ActiveInv /\ FileInv /\ [Next]_vars => FileInv'
    <2> SUFFICES ASSUME ActiveInv, FileInv, [Next]_vars PROVE FileInv'
      OBVIOUS
    <2>1. CASE UNCHANGED vars
      BY <2>1 DEF vars, FileInv, NoStrandedFile
    <2>2. CASE Next
      <3>1. PICK t \in Threads : Acts(t)
        BY <2>2 DEF Next, Acts
      <3> QED BY <3>1, FileStep
    <2> QED BY <2>1, <2>2
  <1>3. FileInv => NoStrandedFile
    BY DEF FileInv
  <1> QED BY <1>1, <1>2, <1>3, ActiveInvariant, PTL DEF Spec

\* References and activity together, for any number of threads and inodes.
THEOREM ActivationCorrect == Spec => []ActivationSound
  BY HeldCorrect, RefsCorrect, ActivationTypeCorrect, PTL DEF ActivationSound
=============================================================================
