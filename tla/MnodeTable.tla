----------------------------- MODULE MnodeTable -----------------------------
(***************************************************************************)
(* The mnum_to_mnode table of mvfs_mnode.c: every mnode of the system has  *)
(* a slot in it.  The table, the count mfs_mncnt, the high water mark      *)
(* mvfs_mtmhwm, the first possibly free slot mvfs_mtmpfs and the table     *)
(* size mvfs_mnmax are guarded by the one monitor lock mfs_mnlock, so each *)
(* critical section under that lock is one step of this module.            *)
(*                                                                         *)
(* Slot 0 is never handed out.  A slot is reserved with the marker         *)
(* MFS_MN_INTRANS before the mnode exists and receives the mnode pointer   *)
(* when the mnode is published.                                            *)
(***************************************************************************)
EXTENDS Integers, FiniteSets

CONSTANTS
  Mnodes,       \* the mnode structures the allocator can hand out
  Null,         \* a free slot
  InTrans,      \* MFS_MN_INTRANS: a reserved slot whose mnode is being built
  InitMnMax,    \* initial mvfs_mnmax
  MaxMnMax      \* bound: no growth is started at this size or above

ASSUME TableAssumption ==
  /\ Null # InTrans
  /\ Null \notin Mnodes
  /\ InTrans \notin Mnodes
  /\ InitMnMax \in Nat \ {0, 1}
  /\ MaxMnMax \in Nat

VARIABLES
  mnum_to_mnode,        \* [0 .. mvfs_mnmax-1 -> mnode, InTrans or Null]
  mfs_mncnt,            \* slots in use, slot 0 counted as used
  mvfs_mtmhwm,          \* index of the highest slot in use
  mvfs_mtmpfs,          \* index of the first slot that may be free
  mvfs_mnmax            \* size of the table

tableVars == <<mnum_to_mnode, mfs_mncnt, mvfs_mtmhwm, mvfs_mtmpfs, mvfs_mnmax>>

Slots == DOMAIN mnum_to_mnode
Used == {n \in Slots : mnum_to_mnode[n] # Null}
Published(m) == \E n \in Slots : mnum_to_mnode[n] = m

TableInit ==
  /\ mvfs_mnmax = InitMnMax
  /\ mnum_to_mnode = [n \in 0 .. InitMnMax - 1 |-> Null]
  /\ mfs_mncnt = 1
  /\ mvfs_mtmhwm = 0
  /\ mvfs_mtmpfs = 1

-----------------------------------------------------------------------------
\* mfs_mngetmnumslot searches upwards from mvfs_mtmpfs and takes the first
\* free slot; it fails (returns 0) when there is none.
FreeFrom == {n \in mvfs_mtmpfs .. mvfs_mnmax - 1 : mnum_to_mnode[n] = Null}

FirstFree(n) == /\ n \in FreeFrom
                /\ \A k \in FreeFrom : n <= k

RsvSlot(n) ==
  /\ mnum_to_mnode' = [mnum_to_mnode EXCEPT ![n] = InTrans]
  /\ mvfs_mtmhwm' = IF n > mvfs_mtmhwm THEN n ELSE mvfs_mtmhwm
  /\ mvfs_mtmpfs' = IF n >= mvfs_mtmpfs THEN n + 1 ELSE mvfs_mtmpfs
  /\ mfs_mncnt' = mfs_mncnt + 1
  /\ UNCHANGED mvfs_mnmax

GetMnumSlot(n) == FirstFree(n) /\ RsvSlot(n)

NoMnumSlot == FreeFrom = {}

\* The mnode built for a reserved slot becomes visible to table searches.
PublishSlot(n, m) ==
  /\ mnum_to_mnode' = [mnum_to_mnode EXCEPT ![n] = m]
  /\ UNCHANGED <<mfs_mncnt, mvfs_mtmhwm, mvfs_mtmpfs, mvfs_mnmax>>

\* MFS_MN_FREE_SLOT: when the highest slot goes, the high water mark walks
\* down to the next slot in use, or to 0.
NextLower(n) == CHOOSE h \in 0 .. n - 1 :
                  /\ h = 0 \/ mnum_to_mnode[h] # Null
                  /\ \A k \in h + 1 .. n - 1 : mnum_to_mnode[k] = Null

\* Faulty variant: a reserved slot is not uncounted.
FreeSlotMiscounts(n) ==
  /\ mnum_to_mnode' = [mnum_to_mnode EXCEPT ![n] = Null]
  /\ mvfs_mtmhwm' = IF n = mvfs_mtmhwm THEN NextLower(n) ELSE mvfs_mtmhwm
  /\ mvfs_mtmpfs' = IF n < mvfs_mtmpfs THEN n ELSE mvfs_mtmpfs
  /\ mfs_mncnt' = IF mnum_to_mnode[n] = InTrans THEN mfs_mncnt ELSE mfs_mncnt - 1
  /\ UNCHANGED mvfs_mnmax

FreeSlot(n) ==
  /\ mnum_to_mnode' = [mnum_to_mnode EXCEPT ![n] = Null]
  /\ mvfs_mtmhwm' = IF n = mvfs_mtmhwm THEN NextLower(n) ELSE mvfs_mtmhwm
  /\ mvfs_mtmpfs' = IF n < mvfs_mtmpfs THEN n ELSE mvfs_mtmpfs
  /\ mfs_mncnt' = mfs_mncnt - 1
  /\ UNCHANGED mvfs_mnmax

\* mvfs_mngrowtable_to(currentsz, newsize): the new table was allocated with
\* no lock held, so currentsz may be out of date by now; then the allocation
\* is dropped and nothing changes.
GrowTo(currentsz, newsize) ==
  IF currentsz = mvfs_mnmax
  THEN /\ mnum_to_mnode' = [n \in 0 .. newsize - 1 |->
                              IF n < mvfs_mnmax THEN mnum_to_mnode[n] ELSE Null]
       /\ mvfs_mnmax' = newsize
       /\ UNCHANGED <<mfs_mncnt, mvfs_mtmhwm, mvfs_mtmpfs>>
  ELSE UNCHANGED tableVars

GrowTable(currentsz) == GrowTo(currentsz, currentsz + currentsz \div 2)

-----------------------------------------------------------------------------
\* The monitor with arbitrary callers: a slot is published only while it is
\* reserved and freed only while it is in use.
Reserve == \E n \in FreeFrom : GetMnumSlot(n)

Publish == \E n \in Used, m \in Mnodes :
             /\ mnum_to_mnode[n] = InTrans
             /\ ~Published(m)
             /\ PublishSlot(n, m)

Release == \E n \in Used : FreeSlot(n)

Grow == \E sz \in InitMnMax .. MaxMnMax - 1 :
          /\ mvfs_mnmax < MaxMnMax
          /\ GrowTable(sz)
         

TableNext == Reserve \/ Publish \/ Release \/ Grow

TableSpec == TableInit /\ [][TableNext]_tableVars

-----------------------------------------------------------------------------
TableTypeOK ==
  /\ mvfs_mnmax \in Nat \ {0, 1}
  /\ mnum_to_mnode \in [0 .. mvfs_mnmax - 1 -> Mnodes \cup {Null, InTrans}]
  /\ mfs_mncnt \in Nat
  /\ mvfs_mtmhwm \in 0 .. mvfs_mnmax - 1
  /\ mvfs_mtmpfs \in 1 .. mvfs_mnmax

\* mfs_mncnt, kept by increments and decrements in RSV_SLOT and FREE_SLOT,
\* is the number of slots in use plus one for slot 0, which stays free.
CountExact ==
  /\ mnum_to_mnode[0] = Null
  /\ mfs_mncnt = Cardinality(Used) + 1

\* The high water mark is the highest slot in use, so the table searches
\* that stop at it (mfs_mngetnextoid, mfs_mn_newattrgen) see every mnode.
HwmIsHighest ==
  /\ mvfs_mtmhwm = 0 \/ mvfs_mtmhwm \in Used
  /\ \A n \in Used : n <= mvfs_mtmhwm

\* No free slot lies below mvfs_mtmpfs, so the search that starts there
\* overlooks none.
NoFreeBelowPfs == \A n \in 1 .. mvfs_mtmpfs - 1 : n \in Used

\* While mfs_mncnt < mvfs_mnmax the search of mfs_mngetmnumslot succeeds:
\* the test mfs_mnget makes before it reserves is the right one.
SlotWhenRoom == mfs_mncnt < mvfs_mnmax => FreeFrom # {}

\* What users of the table rely on: the count, the mark that ends a search and
\* the mark that begins one stay exact through reservations, holes and growth.
TableSound == CountExact /\ HwmIsHighest /\ SlotWhenRoom

\* Growing the table moves no mnode to another slot and drops none.
GrowKeepsSlots ==
  [][mvfs_mnmax' # mvfs_mnmax =>
       /\ mvfs_mnmax' > mvfs_mnmax
       /\ \A n \in Slots : mnum_to_mnode'[n] = mnum_to_mnode[n]]_tableVars
=============================================================================
