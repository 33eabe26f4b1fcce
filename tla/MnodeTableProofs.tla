-------------------------- MODULE MnodeTableProofs --------------------------
(***************************************************************************)
(* The slot table of the mnodes, for every set of mnodes and every table   *)
(* size: the invariants that TLC checks on MCMnode are inductive           *)
(* together.  TableInv is that conjunction; each operation of the monitor  *)
(* gets one lemma.                                                         *)
(***************************************************************************)
EXTENDS MnodeTable, FiniteSetTheorems, WellFoundedInduction, TLAPS

\* The inductive invariant: the type of the table, the count, the high water
\* mark and the first free slot, which only hold together.
TableInv == TableTypeOK /\ CountExact /\ HwmIsHighest /\ NoFreeBelowPfs

-----------------------------------------------------------------------------
\* The slots in use are finitely many, so mfs_mncnt can be their number.
LEMMA UsedFinite ==
  ASSUME TableTypeOK
  PROVE  /\ IsFiniteSet(Used)
         /\ Used \subseteq 0 .. mvfs_mnmax - 1
  <1>1. Used \subseteq 0 .. mvfs_mnmax - 1
    BY DEF Used, Slots, TableTypeOK
  <1>2. IsFiniteSet(0 .. mvfs_mnmax - 1)
    BY FS_Interval DEF TableTypeOK
  <1> QED BY <1>1, <1>2, FS_Subset

\* mfs_mninit leaves an empty table that satisfies the invariant.
LEMMA InitOK == TableInit => TableInv
  <1> SUFFICES ASSUME TableInit PROVE TableInv
    OBVIOUS
  <1> USE TableAssumption DEF TableInit
  <1>1. TableTypeOK
    BY DEF TableTypeOK
  <1>2. Used = {}
    BY DEF Used, Slots
  <1>3. CountExact
    BY <1>2, FS_EmptySet DEF CountExact
  <1>4. HwmIsHighest
    BY <1>2 DEF HwmIsHighest
  <1>5. NoFreeBelowPfs
    BY DEF NoFreeBelowPfs
  <1> QED BY <1>1, <1>3, <1>4, <1>5 DEF TableInv

\* Reserving the first free slot (mfs_mngetmnumslot) keeps the invariant.
LEMMA ReserveOK ==
  ASSUME TableInv, NEW n \in FreeFrom, GetMnumSlot(n)
  PROVE  TableInv'
  <1> USE TableAssumption DEF GetMnumSlot, RsvSlot, FirstFree
  <1>0. TableTypeOK /\ CountExact /\ HwmIsHighest /\ NoFreeBelowPfs
    BY DEF TableInv
  <1>1. /\ n \in Nat /\ n \in mvfs_mtmpfs .. mvfs_mnmax - 1
        /\ n \in 0 .. mvfs_mnmax - 1 /\ n # 0
        /\ mnum_to_mnode[n] = Null
    BY <1>0 DEF FreeFrom, TableTypeOK
  <1>2. TableTypeOK'
    BY <1>0, <1>1 DEF TableTypeOK
  <1>3. Used' = Used \cup {n} /\ n \notin Used
    BY <1>0, <1>1 DEF Used, Slots, TableTypeOK
  <1>4. CountExact'
    <2>1. Cardinality(Used') = Cardinality(Used) + 1
      BY <1>0, <1>3, UsedFinite, FS_AddElement
    <2>2. Cardinality(Used) \in Nat
      BY <1>0, UsedFinite, FS_CardinalityType
    <2>3. mnum_to_mnode'[0] = Null
      BY <1>0, <1>1 DEF CountExact, TableTypeOK
    <2> QED BY <1>0, <2>1, <2>2, <2>3 DEF CountExact
  <1>5. HwmIsHighest'
    BY <1>0, <1>1, <1>3, UsedFinite DEF HwmIsHighest, TableTypeOK
  <1>6. NoFreeBelowPfs'
    <2> SUFFICES ASSUME NEW k \in 1 .. mvfs_mtmpfs' - 1 PROVE k \in Used'
      BY DEF NoFreeBelowPfs
    <2>1. k < mvfs_mtmpfs => k \in Used
      BY <1>0 DEF NoFreeBelowPfs, TableTypeOK
    <2>2. CASE k < mvfs_mtmpfs
      BY <2>1, <2>2, <1>3
    <2>3. CASE ~(k < mvfs_mtmpfs)
      <3>1. k \in mvfs_mtmpfs .. n
        BY <2>3, <1>0, <1>1 DEF TableTypeOK
      <3>2. CASE k = n
        BY <3>2, <1>3
      <3>3. CASE k # n
        <4>1. k \in mvfs_mtmpfs .. mvfs_mnmax - 1 /\ k < n
          BY <3>1, <3>3, <1>0, <1>1 DEF TableTypeOK
        <4>2. k \notin FreeFrom
          BY <4>1, <1>1
        <4>3. mnum_to_mnode[k] # Null
          BY <4>1, <4>2 DEF FreeFrom
        <4>4. k \in Used
          BY <4>1, <4>3, <1>0 DEF Used, Slots, TableTypeOK
        <4> QED BY <4>4, <1>3
      <3> QED BY <3>2, <3>3
    <2> QED BY <2>2, <2>3
  <1> QED BY <1>2, <1>4, <1>5, <1>6 DEF TableInv

\* Publishing an mnode changes the content of a slot in use only.
LEMMA PublishOK ==
  ASSUME TableInv, NEW n \in Used, NEW m \in Mnodes, PublishSlot(n, m)
  PROVE  TableInv'
  <1> USE TableAssumption DEF PublishSlot
  <1>0. TableTypeOK /\ CountExact /\ HwmIsHighest /\ NoFreeBelowPfs
    BY DEF TableInv
  <1>1. n \in 0 .. mvfs_mnmax - 1 /\ mnum_to_mnode[n] # Null
    BY <1>0 DEF Used, Slots, TableTypeOK
  <1>2. TableTypeOK'
    BY <1>0, <1>1 DEF TableTypeOK
  <1>3. Used' = Used
    BY <1>0, <1>1 DEF Used, Slots, TableTypeOK
  <1>4. CountExact'
    BY <1>0, <1>1, <1>3 DEF CountExact, TableTypeOK
  <1>5. HwmIsHighest' /\ NoFreeBelowPfs'
    BY <1>0, <1>3 DEF HwmIsHighest, NoFreeBelowPfs
  <1> QED BY <1>2, <1>4, <1>5 DEF TableInv

-----------------------------------------------------------------------------
\* A non-empty set of naturals has a least element.
LEMMA LeastNatural ==
  ASSUME NEW T \in SUBSET Nat, T # {}
  PROVE  \E x \in T : \A y \in T : x <= y
  <1> DEFINE R == {ss \in Nat \X Nat : ss[1] < ss[2]}
  <1>1. IsWellFoundedOn(R, Nat)
    BY NatLessThanWellFounded DEF OpToRel
  <1> HIDE DEF R
  <1>2. PICK x \in T : \A y \in T : ~(<<y, x>> \in R)
    BY <1>1, WFMin
  <1>3. \A y \in T : ~(y < x)
    BY <1>2 DEF R
  <1> QED BY <1>3

\* The walk of MFS_MN_FREE_SLOT ends: below any slot n > 0 there is a place
\* to stop at, the highest slot in use below n or slot 0.
LEMMA NextLowerOK ==
  ASSUME TableTypeOK, NEW n \in 1 .. mvfs_mnmax - 1
  PROVE  /\ NextLower(n) \in 0 .. n - 1
         /\ NextLower(n) = 0 \/ mnum_to_mnode[NextLower(n)] # Null
         /\ \A k \in NextLower(n) + 1 .. n - 1 : mnum_to_mnode[k] = Null
  <1> DEFINE Stop(h) == h = 0 \/ mnum_to_mnode[h] # Null
             T == {d \in 1 .. n : Stop(n - d)}
  <1>0. n \in Nat /\ n >= 1
    BY DEF TableTypeOK
  <1>1. n \in T /\ T \subseteq Nat
    BY <1>0
  <1>2. PICK d \in T : \A e \in T : d <= e
    <2> HIDE DEF T
    <2> QED BY <1>1, LeastNatural
  <1>3. n - d \in 0 .. n - 1 /\ Stop(n - d)
    BY <1>0, <1>2
  <1>4. ASSUME NEW k \in (n - d) + 1 .. n - 1 PROVE mnum_to_mnode[k] = Null
    <2>1. n - k \in 1 .. n /\ n - k < d /\ n - (n - k) = k /\ k # 0
      BY <1>0, <1>2, <1>4
    <2>2. n - k \notin T
      BY <1>2, <2>1
    <2> QED BY <2>1, <2>2
  <1>5. \E h \in 0 .. n - 1 : /\ h = 0 \/ mnum_to_mnode[h] # Null
                              /\ \A k \in h + 1 .. n - 1 : mnum_to_mnode[k] = Null
    BY <1>3, <1>4
  <1> QED BY <1>5 DEF NextLower

\* Freeing a slot in use (MFS_MN_FREE_SLOT) keeps the invariant.
LEMMA ReleaseOK ==
  ASSUME TableInv, NEW n \in Used, FreeSlot(n)
  PROVE  TableInv'
  <1> USE TableAssumption DEF FreeSlot
  <1>0. TableTypeOK /\ CountExact /\ HwmIsHighest /\ NoFreeBelowPfs
    BY DEF TableInv
  <1>1. n \in 1 .. mvfs_mnmax - 1 /\ mnum_to_mnode[n] # Null /\ n <= mvfs_mtmhwm
    BY <1>0 DEF Used, Slots, TableTypeOK, CountExact, HwmIsHighest
  <1>2. /\ NextLower(n) \in 0 .. n - 1
        /\ NextLower(n) = 0 \/ mnum_to_mnode[NextLower(n)] # Null
        /\ \A k \in NextLower(n) + 1 .. n - 1 : mnum_to_mnode[k] = Null
    BY <1>0, <1>1, NextLowerOK
  <1>3. Used' = Used \ {n} /\ n \in Used
    BY <1>0, <1>1 DEF Used, Slots, TableTypeOK
  <1>4. Cardinality(Used') = Cardinality(Used) - 1 /\ Cardinality(Used') \in Nat
    BY <1>0, <1>3, UsedFinite, FS_RemoveElement, FS_CardinalityType
  <1>5. CountExact'
    <2>1. Cardinality(Used) \in Nat
      BY <1>0, UsedFinite, FS_CardinalityType
    <2>2. mnum_to_mnode'[0] = Null
      BY <1>0, <1>1 DEF CountExact, TableTypeOK
    <2> QED BY <1>0, <1>4, <2>1, <2>2 DEF CountExact
  <1>6. mfs_mncnt' \in Nat
    BY <1>4, <1>5 DEF CountExact
  <1>7. TableTypeOK'
    BY <1>0, <1>1, <1>2, <1>6 DEF TableTypeOK
  <1>8. HwmIsHighest'
    <2>1. CASE n = mvfs_mtmhwm
      <3>1. mvfs_mtmhwm' = NextLower(n)
        BY <2>1
      <3>2. NextLower(n) = 0 \/ NextLower(n) \in Used'
        BY <1>0, <1>1, <1>2, <1>3 DEF Used, Slots, TableTypeOK
      <3>3. \A k \in Used' : k <= NextLower(n)
        <4> SUFFICES ASSUME NEW k \in Used' PROVE k <= NextLower(n)
          OBVIOUS
        <4>1. k \in Used /\ k # n
          BY <1>3
        <4>2. k \in 0 .. n - 1 /\ mnum_to_mnode[k] # Null
          BY <4>1, <2>1, <1>0, <1>1 DEF HwmIsHighest, Used, Slots, TableTypeOK
        <4>3. k \notin NextLower(n) + 1 .. n - 1
          BY <4>2, <1>2
        <4> QED BY <4>2, <4>3, <1>1, <1>2 DEF TableTypeOK
      <3> QED BY <3>1, <3>2, <3>3 DEF HwmIsHighest
    <2>2. CASE n # mvfs_mtmhwm
      BY <2>2, <1>0, <1>3 DEF HwmIsHighest
    <2> QED BY <2>1, <2>2
  <1>9. NoFreeBelowPfs'
    BY <1>0, <1>1, <1>3 DEF NoFreeBelowPfs, TableTypeOK
  <1> QED BY <1>5, <1>7, <1>8, <1>9 DEF TableInv

\* The slots of a table are slots of every larger one.
LEMMA IntervalGrows ==
  ASSUME NEW a \in Nat, NEW b \in Nat, b > a
  PROVE  0 .. a - 1 \subseteq 0 .. b - 1
  OBVIOUS

\* Growing the table, or finding it already grown, keeps the invariant.
LEMMA GrowOK ==
  ASSUME TableInv, NEW sz \in Nat \ {0, 1}, GrowTable(sz)
  PROVE  TableInv'
  <1> USE TableAssumption
  <1>0. TableTypeOK /\ CountExact /\ HwmIsHighest /\ NoFreeBelowPfs
    BY DEF TableInv
  <1>1. CASE sz # mvfs_mnmax
    BY <1>1 DEF GrowTable, GrowTo, tableVars, TableInv, TableTypeOK, CountExact,
                HwmIsHighest, NoFreeBelowPfs, Used, Slots
  <1>2. CASE sz = mvfs_mnmax
    <2>1. /\ mvfs_mnmax' \in Nat /\ mvfs_mnmax' > mvfs_mnmax
          /\ mnum_to_mnode' = [n \in 0 .. mvfs_mnmax' - 1 |->
                                 IF n < mvfs_mnmax THEN mnum_to_mnode[n] ELSE Null]
          /\ UNCHANGED <<mfs_mncnt, mvfs_mtmhwm, mvfs_mtmpfs>>
      BY <1>0, <1>2 DEF GrowTable, GrowTo, TableTypeOK
    <2>a. mvfs_mnmax \in Nat /\ mvfs_mnmax >= 2
      BY <1>0 DEF TableTypeOK
    <2>b. /\ DOMAIN mnum_to_mnode' = 0 .. mvfs_mnmax' - 1
          /\ DOMAIN mnum_to_mnode = 0 .. mvfs_mnmax - 1
          /\ 0 .. mvfs_mnmax - 1 \subseteq 0 .. mvfs_mnmax' - 1
      <3>1. DOMAIN mnum_to_mnode' = 0 .. mvfs_mnmax' - 1
        BY <2>1
      <3>2. DOMAIN mnum_to_mnode = 0 .. mvfs_mnmax - 1
        BY <1>0 DEF TableTypeOK
      <3>3. 0 .. mvfs_mnmax - 1 \subseteq 0 .. mvfs_mnmax' - 1
        <4>1. mvfs_mnmax' \in Nat /\ mvfs_mnmax' > mvfs_mnmax
          BY <2>1
        <4> QED BY <4>1, <2>a, IntervalGrows
      <3> QED BY <3>1, <3>2, <3>3
    <2>c. \A n \in 0 .. mvfs_mnmax' - 1 : n \notin 0 .. mvfs_mnmax - 1 =>
            mnum_to_mnode'[n] = Null
      BY <2>1, <2>a
    <2>d. \A n \in 0 .. mvfs_mnmax - 1 : mnum_to_mnode'[n] = mnum_to_mnode[n]
      <3> SUFFICES ASSUME NEW n \in 0 .. mvfs_mnmax - 1
                   PROVE  mnum_to_mnode'[n] = mnum_to_mnode[n]
        OBVIOUS
      <3>1. n \in 0 .. mvfs_mnmax' - 1 /\ n < mvfs_mnmax
        BY <2>a, <2>b
      <3> QED BY <2>1, <3>1
    <2>e. \A n \in 0 .. mvfs_mnmax' - 1 :
            mnum_to_mnode'[n] \in Mnodes \cup {Null, InTrans}
      BY <1>0, <2>c, <2>d DEF TableTypeOK
    <2>f. mnum_to_mnode' \in [0 .. mvfs_mnmax' - 1 -> Mnodes \cup {Null, InTrans}]
      BY <2>1, <2>e
    <2>2. TableTypeOK'
      BY <1>0, <2>1, <2>a, <2>f DEF TableTypeOK
    <2>3. Used' = Used
      BY <2>b, <2>c, <2>d DEF Used, Slots
    <2>4. CountExact'
      <3>1. mnum_to_mnode'[0] = mnum_to_mnode[0]
        BY <2>a, <2>d
      <3> QED BY <1>0, <2>1, <2>3, <3>1 DEF CountExact
    <2>5. HwmIsHighest' /\ NoFreeBelowPfs'
      BY <1>0, <2>1, <2>3 DEF HwmIsHighest, NoFreeBelowPfs
    <2> QED BY <2>2, <2>4, <2>5 DEF TableInv
  <1> QED BY <1>1, <1>2

-----------------------------------------------------------------------------
\* Every behaviour of the slot table keeps the inductive invariant, whoever
\* calls the monitor and in whatever order.
THEOREM TableInvariant == TableSpec => []TableInv
  <1>1. TableInv /\ [TableNext]_tableVars => TableInv'
    <2> SUFFICES ASSUME TableInv, [TableNext]_tableVars PROVE TableInv'
      OBVIOUS
    <2>1. CASE Reserve
      BY <2>1, ReserveOK DEF Reserve
    <2>2. CASE Publish
      BY <2>2, PublishOK DEF Publish
    <2>3. CASE Release
      BY <2>3, ReleaseOK DEF Release
    <2>4. CASE Grow
      <3>1. PICK sz \in InitMnMax .. MaxMnMax - 1 : GrowTable(sz)
        BY <2>4 DEF Grow
      <3>2. sz \in Nat \ {0, 1}
        BY TableAssumption
      <3> QED BY <3>1, <3>2, GrowOK
    <2>5. CASE UNCHANGED tableVars
      BY <2>5 DEF tableVars, TableInv, TableTypeOK, CountExact, HwmIsHighest,
                  NoFreeBelowPfs, Used, Slots
    <2> QED BY <2>1, <2>2, <2>3, <2>4, <2>5 DEF TableNext
  <1> QED BY <1>1, InitOK, PTL DEF TableSpec

\* The table keeps its type for every table size.
THEOREM TableTypeCorrect == TableSpec => []TableTypeOK
  BY TableInvariant, PTL DEF TableInv

\* mfs_mncnt counts the slots in use, for every table size.
THEOREM CountCorrect == TableSpec => []CountExact
  BY TableInvariant, PTL DEF TableInv

\* The searches that stop at mvfs_mtmhwm see every mnode.
THEOREM HwmCorrect == TableSpec => []HwmIsHighest
  BY TableInvariant, PTL DEF TableInv

\* The search of mfs_mngetmnumslot succeeds while mfs_mncnt < mvfs_mnmax.
THEOREM RoomCorrect == TableSpec => []SlotWhenRoom
  <1>1. TableInv => SlotWhenRoom
    <2> SUFFICES ASSUME TableInv, mfs_mncnt < mvfs_mnmax, FreeFrom = {}
                 PROVE  FALSE
      BY DEF SlotWhenRoom
    <2>0. TableTypeOK /\ CountExact /\ NoFreeBelowPfs
      BY DEF TableInv
    <2>1. 1 .. mvfs_mnmax - 1 \subseteq Used
      <3> SUFFICES ASSUME NEW k \in 1 .. mvfs_mnmax - 1 PROVE k \in Used
        OBVIOUS
      <3>1. CASE k < mvfs_mtmpfs
        BY <3>1, <2>0 DEF NoFreeBelowPfs, TableTypeOK
      <3>2. CASE ~(k < mvfs_mtmpfs)
        BY <3>2, <2>0 DEF FreeFrom, Used, Slots, TableTypeOK
      <3> QED BY <3>1, <3>2
    <2>2. Cardinality(1 .. mvfs_mnmax - 1) = mvfs_mnmax - 1
      BY <2>0, FS_Interval DEF TableTypeOK
    <2>3. Cardinality(1 .. mvfs_mnmax - 1) <= Cardinality(Used)
      BY <2>0, <2>1, UsedFinite, FS_Subset
    <2>4. Cardinality(Used) \in Nat
      BY <2>0, UsedFinite, FS_CardinalityType
    <2> QED BY <2>0, <2>2, <2>3, <2>4 DEF CountExact, TableTypeOK
  <1> QED BY <1>1, TableInvariant, PTL

\* The table is sound for every set of mnodes and every table size.
THEOREM TableCorrect == TableSpec => []TableSound
  BY CountCorrect, HwmCorrect, RoomCorrect, PTL DEF TableSound

\* Growing moves no mnode: an action property, from the type of the table.
THEOREM GrowCorrect == TableSpec => GrowKeepsSlots
  <1> DEFINE Keep == mvfs_mnmax' # mvfs_mnmax =>
                       /\ mvfs_mnmax' > mvfs_mnmax
                       /\ \A n \in Slots : mnum_to_mnode'[n] = mnum_to_mnode[n]
  <1>1. TableInv /\ [TableNext]_tableVars => [Keep]_tableVars
    <2> SUFFICES ASSUME TableInv, TableNext, mvfs_mnmax' # mvfs_mnmax
                 PROVE  Keep
      OBVIOUS
    <2>1. ~Reserve /\ ~Publish /\ ~Release
      BY DEF Reserve, Publish, Release, GetMnumSlot, RsvSlot, PublishSlot, FreeSlot
    <2>2. PICK sz \in InitMnMax .. MaxMnMax - 1 : GrowTable(sz)
      BY <2>1 DEF TableNext, Grow
    <2>3. /\ sz \in Nat \ {0, 1} /\ sz = mvfs_mnmax
          /\ mvfs_mnmax' = sz + sz \div 2
          /\ mnum_to_mnode' = [n \in 0 .. mvfs_mnmax' - 1 |->
                                 IF n < mvfs_mnmax THEN mnum_to_mnode[n] ELSE Null]
      BY <2>2, TableAssumption DEF GrowTable, GrowTo, tableVars
    <2> QED BY <2>3 DEF TableInv, TableTypeOK, Slots
  <1> QED BY <1>1, TableInvariant, PTL DEF TableSpec, GrowKeepsSlots
=============================================================================
