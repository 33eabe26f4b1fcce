---------------------------- MODULE TablesProofs ----------------------------
(* The cache of effective ACLs, for every number of threads, objects and      *)
(* entries and every sequence of calls and changes at the server: references  *)
(* are exact, a role map has one entry, and no stale ACL decides an access.   *)
EXTENDS Tables, FiniteSetTheorems, SequenceTheorems, TLAPS

Entry == Acls!Entries
Roles == {1, 2}
Null == 0

(* Where a thread is: with the mnode of its object locked; in mvfs_acl_cache; *)
(* in mvfs_chkaccess_acl with an entry.                                       *)
Caching == {"get", "fetch", "swap"}
Checking == {"valid", "fetch", "decide"}
Labels == Caching \cup Checking \cup {"idle", "release", "answer"}

Busy(t) == cal[t].pc # "idle"

-----------------------------------------------------------------------------
(* The types the other parts rely on.                                         *)
EntryType == [live : BOOLEAN, linked : BOOLEAN, key : 0 .. 2, ref : Nat, lut : Nat,
              acl : Nat, policy : BOOLEAN]
MnodeType == [lock : Callers \cup {Nobody}, role : 0 .. 2, mtime : Nat, aclh : 0 .. MaxEnt]
CallType == [pc : Labels, ops : Seq(AclOps), ep : 0 .. MaxEnt, drop : 0 .. MaxEnt, block : Nat,
             ver : Nat, again : BOOLEAN, floor : Nat, used : Nat, slot : {1, 2}]
ServerType == [now : Nat, mtime : [Roles -> Nat \ {0}], role : [Mnodes -> 0 .. 2],
               moves : [Mnodes -> Seq(0 .. 2)], changes : Nat]

Shape ==
    /\ srv \in ServerType
    /\ mn \in [Mnodes -> MnodeType]
    /\ ent \in [Entry -> EntryType]
    /\ pool \in Callers \cup {Nobody}
    /\ cal \in [Callers -> CallType]
    /\ floor \in [Roles -> Nat]

(* A busy thread has its object locked; the hash lock is held by the thread   *)
(* that fetches.                                                              *)
LockOf(t) ==
    /\ Busy(t) => /\ cal[t].ops # << >> /\ Acls!Doing(t) \in {"attr", "check", "free"}
                  /\ Acls!Obj(t) \in Mnodes /\ mn[Acls!Obj(t)].lock = t
    /\ cal[t].pc = "fetch" <=> pool = t

(* What a thread holds, by where it is.                                       *)
PcOf(t) ==
    LET w == cal[t]
        m == mn[Acls!Obj(t)]
    IN /\ w.pc = "idle" => w.ep = Null /\ w.used = Null
       /\ w.pc # "release" => w.drop = Null
       /\ w.pc \in {"get", "swap"} => Acls!Doing(t) = "attr"
       /\ w.pc = "fetch" => Acls!Doing(t) \in {"attr", "check"}
       /\ w.pc \in {"valid", "decide", "answer"} => Acls!Doing(t) = "check"
       /\ w.pc = "release" => Acls!Doing(t) \in {"attr", "free"}
       /\ w.pc \in {"get", "release"} => w.ep = Null
       /\ w.pc \in {"get", "fetch", "swap", "valid", "decide"} => m.role # Null
       /\ w.pc \in {"fetch", "valid", "decide"} => w.ep # Null
       /\ w.pc \in Checking /\ Acls!Doing(t) = "check" => w.ep = m.aclh
       /\ w.pc \in {"fetch", "swap"} /\ w.ep # Null => ent[w.ep].live /\ ent[w.ep].key = m.role
       /\ w.pc = "swap" /\ w.ep # Null => ent[w.ep].linked

(* What a check has seen: an ACL it goes on to use is new enough.             *)
CheckOf(t) ==
    LET w == cal[t]
        m == mn[Acls!Obj(t)]
    IN Busy(t) /\ Acls!Doing(t) = "check" =>
         /\ m.role # Null => w.floor <= floor[m.role]
         /\ w.pc # "answer" => w.used = Null
         /\ w.pc = "decide" /\ ent[w.ep].acl # Null =>
               ent[w.ep].acl >= w.floor /\ ent[w.ep].acl >= m.mtime
         /\ w.pc = "answer" /\ w.used # Null => w.used >= w.floor /\ w.used >= m.mtime

ThreadInv(t) == LockOf(t) /\ PcOf(t) /\ CheckOf(t)

(* Only busy threads lock mnodes. The entry of an mnode is linked in, and is  *)
(* that of its role map unless the role map has just been replaced.           *)
MnodeInv(m) ==
    /\ mn[m].lock # Nobody => Busy(mn[m].lock) /\ Acls!Obj(mn[m].lock) = m
    /\ mn[m].aclh # Null =>
          /\ ent[mn[m].aclh].live /\ ent[mn[m].aclh].linked
          /\ ent[mn[m].aclh].key # mn[m].role =>
                /\ mn[m].lock # Nobody
                /\ Acls!Doing(mn[m].lock) = "attr" /\ cal[mn[m].lock].pc \in Caching
    /\ mn[m].role # Null => mn[m].mtime # 0 /\ mn[m].mtime <= srv.mtime[mn[m].role]

(* An entry is linked in unless it is being fetched for the first time. An    *)
(* ACL that passes for valid was fetched after the last invalidation.         *)
EntryInv(e) ==
    /\ ~ent[e].live => ent[e] = Acls!NoEntry
    /\ ent[e].live => ent[e].key \in Roles
    /\ ent[e].live /\ ~ent[e].linked => pool # Nobody /\ cal[pool].ep = e
    /\ ent[e].live /\ ent[e].acl # Null =>
          /\ ent[e].policy /\ ent[e].lut \in {0, ent[e].acl}
          /\ ent[e].acl <= srv.mtime[ent[e].key]
          /\ ent[e].lut # 0 => ent[e].acl >= floor[ent[e].key]

OneEntry ==
    \A d, e \in Entry : ent[d].live /\ ent[e].live /\ ent[d].key = ent[e].key => d = e

(* The references to an entry.                                                *)
Holders(e) == {m \in Mnodes : mn[m].aclh = e}
Using(e) == {t \in Callers : cal[t].ep = e /\ Acls!Doing(t) = "attr"}
Giving(e) == {t \in Callers : cal[t].drop = e}
RefInv == \A e \in Entry :
    ent[e].ref = Cardinality(Holders(e)) + Cardinality(Using(e)) + Cardinality(Giving(e))

ServerInv == \A r \in Roles : srv.mtime[r] <= srv.now /\ floor[r] <= srv.mtime[r]

AclInv ==
    /\ Shape /\ ServerInv
    /\ \A t \in Callers : ThreadInv(t)
    /\ \A m \in Mnodes : MnodeInv(m)
    /\ \A e \in Entry : EntryInv(e)
    /\ OneEntry /\ RefInv

-----------------------------------------------------------------------------
(* A call names an object, or what to invalidate.                             *)
LEMMA OpNames ==
    ASSUME Shape, NEW t \in Callers, cal[t].ops # << >>
    PROVE  /\ Acls!Doing(t) \in {"attr", "check", "free", "inval"}
           /\ Acls!Doing(t) # "inval" => Acls!Obj(t) \in Mnodes
           /\ Acls!Doing(t) = "inval" => Acls!Obj(t) \in 0 .. 2
           /\ Tail(cal[t].ops) \in Seq(AclOps)
  <1>1. cal[t].ops \in Seq(AclOps)
    BY DEF Shape, CallType
  <1>2. Head(cal[t].ops) \in AclOps /\ Tail(cal[t].ops) \in Seq(AclOps)
    BY <1>1, HeadTailProperties
  <1> QED BY <1>2 DEF AclOps, Acls!Doing, Acls!Obj

(* What the sets of references to an entry have in common.                    *)
LEMMA RefsFinite ==
    ASSUME NEW e
    PROVE  /\ IsFiniteSet(Holders(e)) /\ Cardinality(Holders(e)) \in Nat
           /\ IsFiniteSet(Using(e)) /\ Cardinality(Using(e)) \in Nat
           /\ IsFiniteSet(Giving(e)) /\ Cardinality(Giving(e)) \in Nat
           /\ Cardinality(Holders(e)) = 0 <=> Holders(e) = {}
           /\ Cardinality(Using(e)) = 0 <=> Using(e) = {}
           /\ Cardinality(Giving(e)) = 0 <=> Giving(e) = {}
  <1>1. IsFiniteSet(Holders(e)) /\ IsFiniteSet(Using(e)) /\ IsFiniteSet(Giving(e))
    BY FS_Subset, EaclAssumption DEF Holders, Using, Giving
  <1> QED BY <1>1, FS_CardinalityType, FS_EmptySet

(* An element more, an element less.                                          *)
LEMMA CardMore ==
    ASSUME NEW S, IsFiniteSet(S), NEW x, x \notin S
    PROVE  Cardinality(S \cup {x}) = Cardinality(S) + 1
  BY FS_AddElement

LEMMA CardLess ==
    ASSUME NEW S, IsFiniteSet(S), NEW x \in S
    PROVE  Cardinality(S \ {x}) = Cardinality(S) - 1
  BY FS_RemoveElement

(* An entry that other threads and mnodes have keeps its identity; its ACL is *)
(* given up or becomes the one of the server.                                 *)
Kept(e) ==
    /\ ent[e].live => ent'[e].live /\ ent'[e].key = ent[e].key /\ (ent[e].linked => ent'[e].linked)
    /\ ent'[e].acl \in {ent[e].acl, Null, srv.mtime[ent[e].key]}

(* A thread that takes no part in a step keeps its invariant.                 *)
LEMMA OtherThread ==
    ASSUME AclInv, NEW u \in Callers, cal'[u] = cal[u],
           \A k \in Mnodes : mn[k].lock = u => mn'[k] = mn[k],
           pool' = u <=> pool = u,
           cal[u].ep # Null /\ cal[u].pc # "answer" => Kept(cal[u].ep),
           \A r \in Roles : floor'[r] \in Nat /\ floor[r] <= floor'[r]
    PROVE  ThreadInv(u)'
  <1> DEFINE m == Acls!Obj(u)
             e == cal[u].ep
  <1>1. Acls!Doing(u)' = Acls!Doing(u) /\ Acls!Obj(u)' = m
    BY DEF Acls!Doing, Acls!Obj
  <1>2. ThreadInv(u) /\ cal[u] \in CallType
    BY DEF AclInv, Shape
  <1>3. Busy(u) => mn'[m] = mn[m]
    BY <1>2 DEF ThreadInv, LockOf
  <1>4. LockOf(u)'
    BY <1>1, <1>2, <1>3 DEF ThreadInv, LockOf, Busy
  <1>5. PcOf(u)'
    <2>1. CASE Busy(u)
      <3>1. mn'[m] = mn[m]
        BY <1>3, <2>1
      <3> QED BY <1>1, <1>2, <3>1 DEF ThreadInv, PcOf, Kept
    <2>2. CASE ~Busy(u)
      BY <1>1, <1>2, <2>2 DEF ThreadInv, PcOf, Busy, Checking
    <2> QED BY <2>1, <2>2
  <1>6. CheckOf(u)'
    <2> SUFFICES ASSUME Busy(u), Acls!Doing(u) = "check"
                 PROVE  CheckOf(u)'
      BY <1>1 DEF CheckOf, Busy
    <2>1. /\ mn'[m] = mn[m] /\ m \in Mnodes /\ MnodeInv(m) /\ mn[m].lock = u
          /\ mn[m].role \in 0 .. 2 /\ mn[m].mtime \in Nat
      BY <1>2, <1>3 DEF ThreadInv, LockOf, AclInv, Shape, MnodeType
    <2>2. mn[m].role # Null => mn[m].role \in Roles /\ floor[mn[m].role] \in Nat
                                 /\ floor[mn[m].role] <= floor'[mn[m].role]
                                 /\ floor[mn[m].role] <= srv.mtime[mn[m].role]
                                 /\ srv.mtime[mn[m].role] \in Nat
      BY <2>1 DEF Roles, Null, AclInv, Shape, ServerInv, ServerType
    <2>3. cal[u].pc = "decide" => /\ e # Null /\ mn[m].role # Null /\ ent[e].key = mn[m].role
                                  /\ ent[e].live /\ e = mn[m].aclh
      BY <1>2, <2>1, EaclAssumption DEF ThreadInv, PcOf, Checking, MnodeInv
    <2>4. cal[u].floor \in Nat
      BY <1>2 DEF CallType
    <2> QED BY <1>1, <1>2, <2>1, <2>2, <2>3, <2>4 DEF ThreadInv, CheckOf, Busy, Kept, MnodeInv
  <1> QED BY <1>4, <1>5, <1>6 DEF ThreadInv

(* An mnode that takes no part in a step keeps its invariant.                 *)
LEMMA OtherMnode ==
    ASSUME AclInv, NEW k \in Mnodes, mn'[k] = mn[k],
           mn[k].lock # Nobody => cal'[mn[k].lock] = cal[mn[k].lock],
           mn[k].aclh # Null => Kept(mn[k].aclh),
           \A r \in Roles : srv'.mtime[r] \in Nat /\ srv.mtime[r] <= srv'.mtime[r]
    PROVE  MnodeInv(k)'
  <1>1. MnodeInv(k) /\ mn[k].role \in 0 .. 2 /\ mn[k].mtime \in Nat
    BY DEF AclInv, Shape, MnodeType
  <1>2. mn[k].lock # Nobody =>
           /\ Acls!Doing(mn[k].lock)' = Acls!Doing(mn[k].lock)
           /\ Acls!Obj(mn[k].lock)' = Acls!Obj(mn[k].lock)
    BY DEF Acls!Doing, Acls!Obj
  <1>3. mn[k].role # Null =>
           /\ mn[k].role \in Roles /\ srv.mtime[mn[k].role] \in Nat
    BY <1>1 DEF Roles, Null, AclInv, Shape, ServerType
  <1> QED BY <1>1, <1>2, <1>3 DEF MnodeInv, Busy, Kept

(* An entry that takes no part in a step keeps its invariant.                 *)
LEMMA OtherEntry ==
    ASSUME AclInv, NEW e \in Entry, ent'[e] = ent[e],
           ent[e].live /\ ~ent[e].linked =>
              pool' = pool /\ cal'[pool].ep = cal[pool].ep,
           \A r \in Roles : srv'.mtime[r] \in Nat /\ srv.mtime[r] <= srv'.mtime[r],
           \A r \in Roles : floor'[r] = floor[r]
    PROVE  EntryInv(e)'
  <1>1. EntryInv(e) /\ ent[e] \in EntryType
    BY DEF AclInv, Shape
  <1>2. ent[e].live => /\ ent[e].key \in Roles /\ srv.mtime[ent[e].key] \in Nat
    BY <1>1 DEF EntryInv, Roles, AclInv, Shape, ServerType
  <1> QED BY <1>1, <1>2 DEF EntryInv, EntryType

-----------------------------------------------------------------------------
(* A step of a thread t on its object m. What the others hold and see stays.  *)
Private(t, m) ==
    /\ \A u \in Callers \ {t} : cal'[u] = cal[u]
    /\ \A k \in Mnodes \ {m} : mn'[k] = mn[k]
    /\ m = Acls!Obj(t) /\ mn[m].lock \in {Nobody, t}
    /\ pool' = pool \/ {pool, pool'} \subseteq {Nobody, t}
    /\ srv' = srv /\ floor' = floor

LEMMA OthersKeep ==
    ASSUME AclInv, NEW t \in Callers, NEW m \in Mnodes, Private(t, m),
           \A u \in Callers \ {t} : cal[u].ep # Null /\ cal[u].pc # "answer" => Kept(cal[u].ep),
           \A k \in Mnodes \ {m} : mn[k].aclh # Null => Kept(mn[k].aclh),
           ThreadInv(t)', MnodeInv(m)'
    PROVE  (\A u \in Callers : ThreadInv(u))' /\ (\A k \in Mnodes : MnodeInv(k))'
  <1>0. /\ Nobody \notin Callers
        /\ \A r \in Roles : /\ floor'[r] \in Nat /\ floor[r] <= floor'[r]
                            /\ srv'.mtime[r] \in Nat /\ srv.mtime[r] <= srv'.mtime[r]
    BY EaclAssumption DEF Private, AclInv, Shape, ServerType
  <1>1. ASSUME NEW u \in Callers \ {t} PROVE ThreadInv(u)'
    <2>1. cal'[u] = cal[u] /\ (pool' = u <=> pool = u)
      BY <1>0 DEF Private
    <2>2. \A k \in Mnodes : mn[k].lock = u => mn'[k] = mn[k]
      BY <1>0 DEF Private
    <2> QED BY <1>0, <2>1, <2>2, OtherThread
  <1>2. ASSUME NEW k \in Mnodes \ {m} PROVE MnodeInv(k)'
    <2>1. mn'[k] = mn[k]
      BY DEF Private
    <2>2. mn[k].lock # Nobody => cal'[mn[k].lock] = cal[mn[k].lock]
      <3> SUFFICES ASSUME mn[k].lock # Nobody, mn[k].lock = t PROVE FALSE
        BY DEF Private, AclInv, Shape, MnodeType
      <3>1. Busy(t) /\ Acls!Obj(t) = k
        BY DEF AclInv, MnodeInv
      <3> QED BY <3>1 DEF Private
    <2> QED BY <1>0, <2>1, <2>2, OtherMnode
  <1> QED BY <1>1, <1>2

(* The references a step adds and takes away.                                 *)
Has(m, e) == IF mn[m].aclh = e THEN 1 ELSE 0
Uses(t, e) == IF cal[t].ep = e /\ Acls!Doing(t) = "attr" THEN 1 ELSE 0
Gives(t, e) == IF cal[t].drop = e THEN 1 ELSE 0

LEMMA CardStep ==
    ASSUME NEW S, IsFiniteSet(S), NEW R, NEW x, R \ {x} = S \ {x}
    PROVE  Cardinality(R) = Cardinality(S) - (IF x \in S THEN 1 ELSE 0) + (IF x \in R THEN 1 ELSE 0)
  <1>0. Cardinality(S) \in Nat
    BY FS_CardinalityType
  <1>1. CASE x \in S /\ x \in R
    <2>1. R = S
      BY <1>1
    <2> QED BY <1>0, <1>1, <2>1
  <1>2. CASE x \notin S /\ x \notin R
    <2>1. R = S
      BY <1>2
    <2> QED BY <1>0, <1>2, <2>1
  <1>3. CASE x \in S /\ x \notin R
    <2>1. R = S \ {x}
      BY <1>3
    <2>2. Cardinality(R) = Cardinality(S) - 1
      BY <1>3, <2>1, CardLess
    <2> QED BY <1>0, <1>3, <2>2
  <1>4. CASE x \notin S /\ x \in R
    <2>1. R = S \cup {x}
      BY <1>4
    <2>2. Cardinality(R) = Cardinality(S) + 1
      BY <1>4, <2>1, CardMore
    <2> QED BY <1>0, <1>4, <2>2
  <1> QED BY <1>1, <1>2, <1>3, <1>4

LEMMA RefStep ==
    ASSUME AclInv, NEW t \in Callers, NEW m \in Mnodes, Private(t, m),
           \A e \in Entry : ent'[e].ref = ent[e].ref - Has(m, e) + Has(m, e)' - Uses(t, e)
                                          + Uses(t, e)' - Gives(t, e) + Gives(t, e)'
    PROVE  RefInv'
  <1> SUFFICES ASSUME NEW e \in Entry
               PROVE  ent'[e].ref = Cardinality(Holders(e)') + Cardinality(Using(e)') + Cardinality(Giving(e)')
    BY DEF RefInv
  <1>1. ent[e].ref = Cardinality(Holders(e)) + Cardinality(Using(e)) + Cardinality(Giving(e))
    BY DEF AclInv, RefInv
  <1>2. Cardinality(Holders(e)') = Cardinality(Holders(e)) - Has(m, e) + Has(m, e)'
    <2>1. Holders(e)' \ {m} = Holders(e) \ {m}
      BY DEF Holders, Private
    <2>2. (m \in Holders(e) <=> mn[m].aclh = e) /\ (m \in Holders(e)' <=> mn'[m].aclh = e)
      BY DEF Holders
    <2> QED BY <2>1, <2>2, CardStep, RefsFinite DEF Has
  <1>3. Cardinality(Using(e)') = Cardinality(Using(e)) - Uses(t, e) + Uses(t, e)'
    <2>0. ASSUME NEW u \in Callers \ {t}
          PROVE  u \in Using(e)' <=> u \in Using(e)
      <3>1. cal'[u] = cal[u] /\ Acls!Doing(u)' = Acls!Doing(u)
        BY DEF Private, Acls!Doing
      <3> QED BY <3>1 DEF Using
    <2>1. Using(e)' \ {t} = Using(e) \ {t}
      <3>1. Using(e) \subseteq Callers /\ Using(e)' \subseteq Callers
        BY DEF Using
      <3> QED BY <2>0, <3>1
    <2>2. /\ t \in Using(e) <=> cal[t].ep = e /\ Acls!Doing(t) = "attr"
          /\ t \in Using(e)' <=> cal'[t].ep = e /\ Acls!Doing(t)' = "attr"
      BY DEF Using
    <2> QED BY <2>1, <2>2, CardStep, RefsFinite DEF Uses
  <1>4. Cardinality(Giving(e)') = Cardinality(Giving(e)) - Gives(t, e) + Gives(t, e)'
    <2>1. Giving(e)' \ {t} = Giving(e) \ {t}
      BY DEF Giving, Private
    <2>2. (t \in Giving(e) <=> cal[t].drop = e) /\ (t \in Giving(e)' <=> cal'[t].drop = e)
      BY DEF Giving
    <2> QED BY <2>1, <2>2, CardStep, RefsFinite DEF Gives
  <1>5. /\ Has(m, e) \in Int /\ Has(m, e)' \in Int /\ Uses(t, e) \in Int /\ Uses(t, e)' \in Int
        /\ Gives(t, e) \in Int /\ Gives(t, e)' \in Int
    BY DEF Has, Uses, Gives
  <1>6. Cardinality(Holders(e)) \in Nat /\ Cardinality(Using(e)) \in Nat /\ Cardinality(Giving(e)) \in Nat
    BY RefsFinite
  <1>7. ent'[e].ref = ent[e].ref - Has(m, e) + Has(m, e)' - Uses(t, e) + Uses(t, e)' - Gives(t, e) + Gives(t, e)'
    OBVIOUS
  <1> QED BY <1>1, <1>2, <1>3, <1>4, <1>5, <1>6, <1>7

(* A pointer to an entry is Null or is one.                                   *)
LEMMA Pointers ==
    ASSUME Shape
    PROVE  /\ \A u \in Callers : cal[u].ep # Null => cal[u].ep \in Entry
           /\ \A u \in Callers : cal[u].drop # Null => cal[u].drop \in Entry
           /\ \A k \in Mnodes : mn[k].aclh # Null => mn[k].aclh \in Entry
           /\ Null \notin Entry
  <1>1. \A u \in Callers : cal[u].ep \in 0 .. MaxEnt /\ cal[u].drop \in 0 .. MaxEnt
    BY DEF Shape, CallType
  <1>2. \A k \in Mnodes : mn[k].aclh \in 0 .. MaxEnt
    BY DEF Shape, MnodeType
  <1>3. MaxEnt \in Nat
    BY EaclAssumption
  <1> QED BY <1>1, <1>2, <1>3 DEF Entry, Acls!Entries, Null

(* A step that leaves the hash alone.                                         *)
LEMMA HashKept ==
    ASSUME AclInv, NEW t \in Callers, NEW m \in Mnodes, Private(t, m), Shape',
           ent' = ent, pool' = pool, cal[t].pc # "fetch", ThreadInv(t)', MnodeInv(m)',
           \A e \in Entry : Has(m, e) + Uses(t, e) + Gives(t, e)
                              = Has(m, e)' + Uses(t, e)' + Gives(t, e)'
    PROVE  AclInv'
  <1>1. \A e \in Entry : Kept(e)
    BY DEF Kept
  <1>2. (\A u \in Callers : ThreadInv(u))' /\ (\A k \in Mnodes : MnodeInv(k))'
    <2>1. /\ \A u \in Callers : cal[u].ep # Null => cal[u].ep \in Entry
          /\ \A k \in Mnodes : mn[k].aclh # Null => mn[k].aclh \in Entry
      BY Pointers DEF AclInv
    <2> QED BY <1>1, <2>1, OthersKeep
  <1>3. (\A e \in Entry : EntryInv(e))'
    <2>1. pool # t
      BY DEF AclInv, ThreadInv, LockOf
    <2>2. \A r \in Roles : srv'.mtime[r] \in Nat /\ srv.mtime[r] <= srv'.mtime[r] /\ floor'[r] = floor[r]
      BY DEF Private, AclInv, Shape, ServerType
    <2>3. pool # Nobody => cal'[pool].ep = cal[pool].ep
      BY <2>1 DEF Private, AclInv, Shape
    <2>4. ASSUME NEW e \in Entry PROVE EntryInv(e)'
      <3>1. EntryInv(e)
        BY DEF AclInv
      <3>2. ent[e].live /\ ~ent[e].linked => pool' = pool /\ cal'[pool].ep = cal[pool].ep
        BY <2>3, <3>1 DEF EntryInv
      <3> QED BY <2>2, <3>2, OtherEntry
    <2> QED BY <2>4
  <1>4. RefInv'
    <2> SUFFICES ASSUME NEW e \in Entry
                 PROVE  ent'[e].ref = ent[e].ref - Has(m, e) + Has(m, e)' - Uses(t, e)
                                          + Uses(t, e)' - Gives(t, e) + Gives(t, e)'
      BY RefStep
    <2> DEFINE h == Has(m, e)   hh == Has(m, e)'
               u == Uses(t, e)  uu == Uses(t, e)'
               g == Gives(t, e) gg == Gives(t, e)'
    <2>1. ent'[e].ref = ent[e].ref /\ ent[e].ref \in Nat
      BY DEF AclInv, Shape, EntryType
    <2>2. h \in Int /\ hh \in Int /\ u \in Int /\ uu \in Int /\ g \in Int /\ gg \in Int
      BY DEF Has, Uses, Gives
    <2>3. h + u + g = hh + uu + gg
      OBVIOUS
    <2> HIDE DEF h, hh, u, uu, g, gg
    <2>4. ent[e].ref = ent[e].ref - h + hh - u + uu - g + gg
      BY <2>1, <2>2, <2>3
    <2> QED BY <2>1, <2>4 DEF h, hh, u, uu, g, gg
  <1> QED BY <1>2, <1>3, <1>4 DEF AclInv, OneEntry, ServerInv, Private

-----------------------------------------------------------------------------
(* What a thread that is about to take a step knows.                          *)
LEMMA Ready ==
    ASSUME AclInv, NEW t \in Callers, NEW op \in {"attr", "check", "free"}, Acls!Ready(t, op)
    PROVE  /\ cal[t] \in CallType /\ cal[t].pc = "idle" /\ Acls!Doing(t) = op
           /\ cal[t].ops # << >> /\ cal[t].ep = Null /\ cal[t].drop = Null /\ cal[t].used = Null
           /\ Acls!Obj(t) \in Mnodes /\ mn[Acls!Obj(t)] \in MnodeType /\ mn[Acls!Obj(t)].lock = Nobody
           /\ MnodeInv(Acls!Obj(t)) /\ pool # t
  <1>1. cal[t].ops # << >> /\ cal[t].pc = "idle" /\ Acls!Doing(t) = op /\ mn[Acls!Obj(t)].lock = Nobody
    BY DEF Acls!Ready, Acls!At
  <1>2. Acls!Obj(t) \in Mnodes
    BY <1>1, OpNames DEF AclInv
  <1>3. ThreadInv(t) /\ cal[t] \in CallType
    BY DEF AclInv, Shape
  <1>4. cal[t].ep = Null /\ cal[t].drop = Null /\ cal[t].used = Null /\ pool # t
    BY <1>1, <1>3 DEF ThreadInv, PcOf, LockOf
  <1> QED BY <1>1, <1>2, <1>3, <1>4 DEF AclInv, Shape

LEMMA Inside ==
    ASSUME AclInv, NEW t \in Callers, cal[t].pc # "idle"
    PROVE  /\ cal[t] \in CallType /\ ThreadInv(t) /\ cal[t].ops # << >>
           /\ Acls!Doing(t) \in {"attr", "check", "free"}
           /\ Acls!Obj(t) \in Mnodes /\ mn[Acls!Obj(t)] \in MnodeType /\ mn[Acls!Obj(t)].lock = t
           /\ MnodeInv(Acls!Obj(t))
  <1>1. ThreadInv(t) /\ cal[t] \in CallType
    BY DEF AclInv, Shape
  <1>2. /\ cal[t].ops # << >> /\ Acls!Doing(t) \in {"attr", "check", "free"}
        /\ Acls!Obj(t) \in Mnodes /\ mn[Acls!Obj(t)].lock = t
    BY <1>1 DEF ThreadInv, LockOf, Busy
  <1> QED BY <1>1, <1>2 DEF AclInv, Shape

(* Steps that write the record of one thread or of one mnode.                 *)
LEMMA CalWritten ==
    ASSUME Shape, NEW t \in Callers, NEW c \in CallType, cal' = [cal EXCEPT ![t] = c]
    PROVE  /\ cal' \in [Callers -> CallType] /\ cal'[t] = c
           /\ \A u \in Callers \ {t} : cal'[u] = cal[u]
           /\ c.ops = cal[t].ops => Acls!Doing(t)' = Acls!Doing(t) /\ Acls!Obj(t)' = Acls!Obj(t)
  <1>1. cal' \in [Callers -> CallType] /\ cal'[t] = c /\ \A u \in Callers \ {t} : cal'[u] = cal[u]
    BY DEF Shape
  <1> QED BY <1>1 DEF Acls!Doing, Acls!Obj

LEMMA MnodeWritten ==
    ASSUME Shape, NEW m \in Mnodes, NEW n \in MnodeType, mn' = [mn EXCEPT ![m] = n]
    PROVE  /\ mn' \in [Mnodes -> MnodeType] /\ mn'[m] = n
           /\ \A k \in Mnodes \ {m} : mn'[k] = mn[k]
  BY DEF Shape

(* A thread between two calls.                                                *)
LEMMA QuietType ==
    ASSUME Shape, NEW t \in Callers, cal[t].ops # << >>
    PROVE  LET c == Acls!Quiet(Tail(cal[t].ops))
           IN c \in CallType /\ c.pc = "idle" /\ c.ep = Null /\ c.drop = Null /\ c.used = Null
  <1>1. Tail(cal[t].ops) \in Seq(AclOps)
    BY OpNames
  <1>2. 0 \in 0 .. MaxEnt
    BY EaclAssumption
  <1> QED BY <1>1, <1>2 DEF Acls!Quiet, CallType, Labels, Null, Acls!Null

LEMMA AttrKeeps ==
    ASSUME AclInv, NEW t \in Callers, NEW m, m = Acls!Obj(t), Acls!Attr(t)
    PROVE  AclInv'
  <1> DEFINE r == srv.role[m]
             n == [lock |-> t, role |-> r, aclh |-> IF r = Null THEN Null ELSE mn[m].aclh,
                   mtime |-> IF r = Null THEN 0 ELSE srv.mtime[r]]
             c == [cal[t] EXCEPT !.pc = IF r = Null THEN "release" ELSE "get",
                                 !.drop = IF r = Null THEN mn[m].aclh ELSE Null]
  <1>1. Acls!Ready(t, "attr") /\ UNCHANGED <<srv, ent, pool, floor>>
    BY DEF Acls!Attr
  <1>2. /\ mn' = [mn EXCEPT ![m] = n] /\ cal' = [cal EXCEPT ![t] = c]
    BY DEF Acls!Attr, Acls!Null, Null
  <1>3. /\ cal[t] \in CallType /\ cal[t].pc = "idle" /\ Acls!Doing(t) = "attr" /\ cal[t].ops # << >>
        /\ cal[t].ep = Null /\ cal[t].drop = Null /\ cal[t].used = Null
        /\ m \in Mnodes /\ mn[m] \in MnodeType /\ mn[m].lock = Nobody /\ MnodeInv(m) /\ pool # t
    BY <1>1, Ready
  <1>4. r \in 0 .. 2 /\ (r # Null => r \in Roles /\ srv.mtime[r] \in Nat \ {0})
    BY <1>3 DEF AclInv, Shape, ServerType, Roles, Null
  <1>5. n \in MnodeType /\ n.lock = t /\ n.role = r
        /\ n.aclh = (IF r = Null THEN Null ELSE mn[m].aclh) /\ n.mtime = (IF r = Null THEN 0 ELSE srv.mtime[r])
    BY <1>3, <1>4, EaclAssumption DEF MnodeType, Null
  <1>6. /\ c \in CallType /\ c.ops = cal[t].ops /\ c.ep = Null /\ c.used = Null
        /\ c.pc = (IF r = Null THEN "release" ELSE "get")
        /\ c.drop = (IF r = Null THEN mn[m].aclh ELSE Null)
    <2> DEFINE p == IF r = Null THEN "release" ELSE "get"
               d == IF r = Null THEN mn[m].aclh ELSE Null
    <2>1. p \in Labels /\ d \in 0 .. MaxEnt
      BY <1>3, EaclAssumption DEF MnodeType, Null, Labels, Caching
    <2> HIDE DEF p, d
    <2>2. [cal[t] EXCEPT !.pc = p, !.drop = d] \in CallType
      BY <1>3, <2>1 DEF CallType
    <2>3. /\ [cal[t] EXCEPT !.pc = p, !.drop = d].ops = cal[t].ops
          /\ [cal[t] EXCEPT !.pc = p, !.drop = d].ep = cal[t].ep
          /\ [cal[t] EXCEPT !.pc = p, !.drop = d].used = cal[t].used
          /\ [cal[t] EXCEPT !.pc = p, !.drop = d].pc = p
          /\ [cal[t] EXCEPT !.pc = p, !.drop = d].drop = d
      BY <1>3 DEF CallType
    <2> QED BY <1>3, <2>2, <2>3 DEF p, d
  <1> HIDE DEF n, c
  <1>7. /\ cal' \in [Callers -> CallType] /\ cal'[t] = c /\ \A u \in Callers \ {t} : cal'[u] = cal[u]
        /\ Acls!Doing(t)' = "attr" /\ Acls!Obj(t)' = m
    BY <1>2, <1>3, <1>6, CalWritten DEF AclInv
  <1>8. mn' \in [Mnodes -> MnodeType] /\ mn'[m] = n /\ \A k \in Mnodes \ {m} : mn'[k] = mn[k]
    BY <1>2, <1>3, <1>5, MnodeWritten DEF AclInv
  <1> HIDE DEF r
  <1>9. Shape'
    BY <1>1, <1>7, <1>8 DEF AclInv, Shape
  <1>10. Private(t, m)
    BY <1>1, <1>3, <1>7, <1>8 DEF Private
  <1>11. ThreadInv(t)'
    <2>1. LockOf(t)'
      BY <1>1, <1>3, <1>5, <1>6, <1>7, <1>8 DEF LockOf
    <2>2. PcOf(t)'
      BY <1>5, <1>6, <1>7, <1>8 DEF PcOf, Checking
    <2>3. CheckOf(t)'
      BY <1>7 DEF CheckOf
    <2> QED BY <2>1, <2>2, <2>3 DEF ThreadInv
  <1>12. MnodeInv(m)'
    <2>1. mn[m].aclh # Null => ent[mn[m].aclh].live /\ ent[mn[m].aclh].linked
      BY <1>3 DEF MnodeInv
    <2>2. cal'[t].pc # "idle" /\ Head(cal'[t].ops)[2] = m /\ Head(cal'[t].ops)[1] = "attr"
      BY <1>6, <1>7 DEF Acls!Obj, Acls!Doing
    <2>3. t # Nobody
      BY EaclAssumption
    <2>4. CASE r = Null
      BY <1>5, <1>8, <2>2, <2>4 DEF MnodeInv, Busy, Acls!Obj, Acls!Doing
    <2>5. CASE r # Null
      <3>1. cal'[t].pc \in Caching
        BY <1>6, <1>7, <2>5 DEF Caching
      <3>2. n.aclh = mn[m].aclh /\ n.mtime = srv.mtime[r]
        BY <1>5, <2>5
      <3>3. srv.mtime[r] <= srv.mtime[r] /\ srv.mtime[r] # 0
        BY <1>4, <2>5
      <3> QED BY <1>1, <1>5, <1>8, <2>1, <2>2, <2>3, <3>1, <3>2, <3>3 DEF MnodeInv, Busy, Acls!Obj, Acls!Doing
    <2> QED BY <2>4, <2>5
  <1>13. ASSUME NEW e \in Entry
         PROVE  Has(m, e) + Uses(t, e) + Gives(t, e) = Has(m, e)' + Uses(t, e)' + Gives(t, e)'
    <2>1. e # Null
      BY Pointers DEF AclInv
    <2> QED BY <1>3, <1>5, <1>6, <1>7, <1>8, <2>1 DEF Has, Uses, Gives
  <1> QED BY <1>1, <1>3, <1>9, <1>10, <1>11, <1>12, <1>13, HashKept

LEMMA UncacheKeeps ==
    ASSUME AclInv, NEW t \in Callers, NEW m, m = Acls!Obj(t), Acls!Uncache(t)
    PROVE  AclInv'
  <1> DEFINE n == [lock |-> t, role |-> Null, mtime |-> 0, aclh |-> Null]
             c == [cal[t] EXCEPT !.pc = "release", !.drop = mn[m].aclh]
  <1>1. Acls!Ready(t, "free") /\ UNCHANGED <<srv, ent, pool, floor>>
    BY DEF Acls!Uncache
  <1>2. mn' = [mn EXCEPT ![m] = n] /\ cal' = [cal EXCEPT ![t] = c]
    BY DEF Acls!Uncache, Acls!Null, Null
  <1>3. /\ cal[t] \in CallType /\ cal[t].pc = "idle" /\ Acls!Doing(t) = "free" /\ cal[t].ops # << >>
        /\ cal[t].ep = Null /\ cal[t].drop = Null /\ cal[t].used = Null
        /\ m \in Mnodes /\ mn[m] \in MnodeType /\ mn[m].lock = Nobody /\ MnodeInv(m) /\ pool # t
    BY <1>1, Ready
  <1>4. n \in MnodeType /\ n.lock = t /\ n.role = Null /\ n.aclh = Null
    BY EaclAssumption DEF MnodeType, Null
  <1>5. mn[m].aclh \in 0 .. MaxEnt
    BY <1>3 DEF MnodeType
  <1>6. /\ c \in CallType /\ c.ops = cal[t].ops /\ c.ep = Null /\ c.pc = "release" /\ c.drop = mn[m].aclh
    BY <1>3, <1>5 DEF CallType, Labels
  <1> HIDE DEF n, c
  <1>7. /\ cal' \in [Callers -> CallType] /\ cal'[t] = c /\ \A u \in Callers \ {t} : cal'[u] = cal[u]
        /\ Acls!Doing(t)' = "free" /\ Acls!Obj(t)' = m
    BY <1>2, <1>3, <1>6, CalWritten DEF AclInv
  <1>8. mn' \in [Mnodes -> MnodeType] /\ mn'[m] = n /\ \A k \in Mnodes \ {m} : mn'[k] = mn[k]
    BY <1>2, <1>3, <1>4, MnodeWritten DEF AclInv
  <1>9. Shape' /\ Private(t, m)
    BY <1>1, <1>3, <1>7, <1>8 DEF AclInv, Shape, Private
  <1>10. ThreadInv(t)'
    <2>1. LockOf(t)'
      BY <1>1, <1>3, <1>4, <1>6, <1>7, <1>8 DEF LockOf
    <2>2. PcOf(t)'
      BY <1>6, <1>7 DEF PcOf, Checking
    <2>3. CheckOf(t)'
      BY <1>7 DEF CheckOf
    <2> QED BY <2>1, <2>2, <2>3 DEF ThreadInv
  <1>11. MnodeInv(m)'
    BY <1>4, <1>6, <1>7, <1>8 DEF MnodeInv, Busy, Acls!Obj
  <1>12. ASSUME NEW e \in Entry
         PROVE  Has(m, e) + Uses(t, e) + Gives(t, e) = Has(m, e)' + Uses(t, e)' + Gives(t, e)'
    <2>1. e # Null
      BY Pointers DEF AclInv
    <2> QED BY <1>3, <1>4, <1>6, <1>7, <1>8, <2>1 DEF Has, Uses, Gives
  <1> QED BY <1>1, <1>3, <1>9, <1>10, <1>11, <1>12, HashKept

LEMMA SwapKeeps ==
    ASSUME AclInv, NEW t \in Callers, NEW m, m = Acls!Obj(t), Acls!Swap(t)
    PROVE  AclInv'
  <1> DEFINE n == [mn[m] EXCEPT !.aclh = cal[t].ep]
             c == [cal[t] EXCEPT !.pc = "release", !.ep = Null, !.drop = mn[m].aclh]
  <1>1. cal[t].pc = "swap" /\ UNCHANGED <<srv, ent, pool, floor>>
    BY DEF Acls!Swap, Acls!At
  <1>2. mn' = [mn EXCEPT ![m] = n] /\ cal' = [cal EXCEPT ![t] = c]
    <2>1. Acls!Dropped(mn[m].aclh, cal[t].ep) = mn[m].aclh
      BY DEF Acls!Dropped
    <2> QED BY <2>1 DEF Acls!Swap, Acls!Null, Null
  <1>3. /\ cal[t] \in CallType /\ ThreadInv(t) /\ cal[t].ops # << >>
        /\ m \in Mnodes /\ mn[m] \in MnodeType /\ mn[m].lock = t /\ MnodeInv(m)
    BY <1>1, Inside
  <1>4. /\ Acls!Doing(t) = "attr" /\ mn[m].role # Null /\ cal[t].drop = Null /\ pool # t
        /\ cal[t].ep # Null => ent[cal[t].ep].live /\ ent[cal[t].ep].linked /\ ent[cal[t].ep].key = mn[m].role
    BY <1>1, <1>3 DEF ThreadInv, PcOf, LockOf
  <1>5. mn[m].aclh \in 0 .. MaxEnt /\ cal[t].ep \in 0 .. MaxEnt
    BY <1>3 DEF MnodeType, CallType
  <1>6. n \in MnodeType /\ n.lock = t /\ n.role = mn[m].role /\ n.aclh = cal[t].ep /\ n.mtime = mn[m].mtime
    BY <1>3, <1>5 DEF MnodeType
  <1>7. /\ c \in CallType /\ c.ops = cal[t].ops /\ c.ep = Null /\ c.pc = "release" /\ c.drop = mn[m].aclh
    <2>1. Null \in 0 .. MaxEnt
      BY EaclAssumption DEF Null
    <2> QED BY <1>3, <1>5, <2>1 DEF CallType, Labels
  <1> HIDE DEF n, c
  <1>8. /\ cal' \in [Callers -> CallType] /\ cal'[t] = c /\ \A u \in Callers \ {t} : cal'[u] = cal[u]
        /\ Acls!Doing(t)' = "attr" /\ Acls!Obj(t)' = m
    BY <1>2, <1>4, <1>7, CalWritten DEF AclInv
  <1>9. mn' \in [Mnodes -> MnodeType] /\ mn'[m] = n /\ \A k \in Mnodes \ {m} : mn'[k] = mn[k]
    BY <1>2, <1>3, <1>6, MnodeWritten DEF AclInv
  <1>10. Shape' /\ Private(t, m)
    BY <1>1, <1>3, <1>8, <1>9 DEF AclInv, Shape, Private
  <1>11. ThreadInv(t)'
    <2>1. LockOf(t)'
      BY <1>1, <1>3, <1>4, <1>6, <1>7, <1>8, <1>9 DEF LockOf
    <2>2. PcOf(t)'
      BY <1>7, <1>8 DEF PcOf, Checking
    <2>3. CheckOf(t)'
      BY <1>8 DEF CheckOf
    <2> QED BY <2>1, <2>2, <2>3 DEF ThreadInv
  <1>12. MnodeInv(m)'
    <2>1. cal'[t].pc # "idle" /\ Head(cal'[t].ops)[2] = m
      BY <1>7, <1>8 DEF Acls!Obj
    <2>2. mn[m].mtime # 0 /\ mn[m].mtime <= srv.mtime[mn[m].role]
      BY <1>3, <1>4 DEF MnodeInv
    <2> QED BY <1>1, <1>4, <1>6, <1>9, <2>1, <2>2 DEF MnodeInv, Busy, Acls!Obj
  <1>13. ASSUME NEW e \in Entry
         PROVE  Has(m, e) + Uses(t, e) + Gives(t, e) = Has(m, e)' + Uses(t, e)' + Gives(t, e)'
    <2>1. e # Null
      BY Pointers DEF AclInv
    <2> QED BY <1>4, <1>6, <1>7, <1>8, <1>9, <2>1 DEF Has, Uses, Gives
  <1> QED BY <1>1, <1>3, <1>10, <1>11, <1>12, <1>13, HashKept

LEMMA CheckKeeps ==
    ASSUME AclInv, NEW t \in Callers, NEW m, m = Acls!Obj(t), Acls!Check(t)
    PROVE  AclInv'
  <1> DEFINE n == [mn[m] EXCEPT !.lock = t]
             p == IF mn[m].role = Null \/ mn[m].aclh = Null THEN "answer" ELSE "valid"
             f == IF mn[m].role = Null THEN 0 ELSE floor[mn[m].role]
             c == [cal[t] EXCEPT !.pc = p, !.ep = mn[m].aclh, !.floor = f]
  <1>1. Acls!Ready(t, "check") /\ UNCHANGED <<srv, ent, pool, floor>>
    BY DEF Acls!Check
  <1>2. mn' = [mn EXCEPT ![m] = n] /\ cal' = [cal EXCEPT ![t] = c]
    BY DEF Acls!Check, Acls!Null, Null
  <1>3. /\ cal[t] \in CallType /\ cal[t].pc = "idle" /\ Acls!Doing(t) = "check" /\ cal[t].ops # << >>
        /\ cal[t].ep = Null /\ cal[t].drop = Null /\ cal[t].used = Null
        /\ m \in Mnodes /\ mn[m] \in MnodeType /\ mn[m].lock = Nobody /\ MnodeInv(m) /\ pool # t
    BY <1>1, Ready
  <1>4. /\ n \in MnodeType /\ n.lock = t /\ n.role = mn[m].role /\ n.aclh = mn[m].aclh
        /\ n.mtime = mn[m].mtime
    BY <1>3 DEF MnodeType
  <1>5. mn[m].aclh \in 0 .. MaxEnt /\ p \in {"answer", "valid"} /\ f \in Nat
        /\ (mn[m].role # Null => f = floor[mn[m].role])
    BY <1>3 DEF MnodeType, AclInv, Shape, Roles, Null
  <1>6. p = "valid" => mn[m].role # Null /\ mn[m].aclh # Null
    OBVIOUS
  <1> HIDE DEF p, f
  <1>7. /\ c \in CallType /\ c.ops = cal[t].ops /\ c.ep = mn[m].aclh /\ c.pc = p /\ c.drop = Null
        /\ c.floor = f /\ c.used = Null
    BY <1>3, <1>5 DEF CallType, Labels, Checking
  <1> HIDE DEF n, c
  <1>8. /\ cal' \in [Callers -> CallType] /\ cal'[t] = c /\ \A u \in Callers \ {t} : cal'[u] = cal[u]
        /\ Acls!Doing(t)' = "check" /\ Acls!Obj(t)' = m
    BY <1>2, <1>3, <1>7, CalWritten DEF AclInv
  <1>9. mn' \in [Mnodes -> MnodeType] /\ mn'[m] = n /\ \A k \in Mnodes \ {m} : mn'[k] = mn[k]
    BY <1>2, <1>3, <1>4, MnodeWritten DEF AclInv
  <1>10. Shape' /\ Private(t, m)
    BY <1>1, <1>3, <1>8, <1>9 DEF AclInv, Shape, Private
  <1>11. ThreadInv(t)'
    <2>1. LockOf(t)'
      BY <1>1, <1>3, <1>4, <1>5, <1>7, <1>8, <1>9 DEF LockOf
    <2>2. PcOf(t)'
      BY <1>4, <1>5, <1>6, <1>7, <1>8, <1>9 DEF PcOf, Checking
    <2>3. CheckOf(t)'
      BY <1>1, <1>4, <1>5, <1>7, <1>8, <1>9 DEF CheckOf
    <2> QED BY <2>1, <2>2, <2>3 DEF ThreadInv
  <1>12. MnodeInv(m)'
    <2>1. cal'[t].pc # "idle" /\ Head(cal'[t].ops)[2] = m
      BY <1>5, <1>7, <1>8 DEF Acls!Obj
    <2>2. /\ mn[m].role # Null => mn[m].mtime # 0 /\ mn[m].mtime <= srv.mtime[mn[m].role]
          /\ mn[m].aclh # Null => /\ ent[mn[m].aclh].live /\ ent[mn[m].aclh].linked
                                  /\ ent[mn[m].aclh].key = mn[m].role
      BY <1>3 DEF MnodeInv
    <2> QED BY <1>1, <1>4, <1>9, <2>1, <2>2 DEF MnodeInv, Busy, Acls!Obj
  <1>13. ASSUME NEW e \in Entry
         PROVE  Has(m, e) + Uses(t, e) + Gives(t, e) = Has(m, e)' + Uses(t, e)' + Gives(t, e)'
    BY <1>3, <1>4, <1>7, <1>8, <1>9 DEF Has, Uses, Gives
  <1> QED BY <1>1, <1>3, <1>10, <1>11, <1>12, <1>13, HashKept

LEMMA DecideKeeps ==
    ASSUME AclInv, NEW t \in Callers, NEW m, m = Acls!Obj(t), Acls!Decide(t)
    PROVE  AclInv'
  <1> DEFINE a == ent[cal[t].ep].acl
             c == [cal[t] EXCEPT !.pc = "answer", !.used = a]
  <1>1. cal[t].pc = "decide" /\ UNCHANGED <<srv, mn, ent, pool, floor>> /\ cal' = [cal EXCEPT ![t] = c]
    BY DEF Acls!Decide, Acls!At
  <1>2. /\ cal[t] \in CallType /\ ThreadInv(t) /\ cal[t].ops # << >>
        /\ m \in Mnodes /\ mn[m] \in MnodeType /\ mn[m].lock = t /\ MnodeInv(m)
    BY <1>1, Inside
  <1>3. /\ Acls!Doing(t) = "check" /\ mn[m].role # Null /\ cal[t].drop = Null /\ pool # t
        /\ cal[t].ep # Null
    BY <1>1, <1>2 DEF ThreadInv, PcOf, LockOf
  <1>4. /\ cal[t].floor <= floor[mn[m].role]
        /\ a # Null => a >= cal[t].floor /\ a >= mn[m].mtime
    BY <1>1, <1>2, <1>3 DEF ThreadInv, CheckOf, Busy
  <1>5. a \in Nat
    <2>1. cal[t].ep \in Entry
      BY <1>3, Pointers DEF AclInv
    <2> QED BY <2>1 DEF AclInv, Shape, EntryType
  <1> HIDE DEF a
  <1>6. /\ c \in CallType /\ c.ops = cal[t].ops /\ c.ep = cal[t].ep /\ c.pc = "answer" /\ c.drop = Null
        /\ c.floor = cal[t].floor /\ c.used = a
    BY <1>2, <1>3, <1>5 DEF CallType, Labels
  <1> HIDE DEF c
  <1>7. /\ cal' \in [Callers -> CallType] /\ cal'[t] = c /\ \A u \in Callers \ {t} : cal'[u] = cal[u]
        /\ Acls!Doing(t)' = "check" /\ Acls!Obj(t)' = m
    BY <1>1, <1>3, <1>6, CalWritten DEF AclInv
  <1>8. Shape' /\ Private(t, m)
    BY <1>1, <1>2, <1>7 DEF AclInv, Shape, Private
  <1>9. ThreadInv(t)'
    <2>1. LockOf(t)'
      BY <1>1, <1>2, <1>3, <1>6, <1>7 DEF LockOf
    <2>2. PcOf(t)'
      BY <1>6, <1>7 DEF PcOf, Checking
    <2>3. CheckOf(t)'
      BY <1>1, <1>3, <1>4, <1>6, <1>7 DEF CheckOf
    <2> QED BY <2>1, <2>2, <2>3 DEF ThreadInv
  <1>10. MnodeInv(m)'
    <2>1. cal'[t].pc # "idle" /\ Head(cal'[t].ops)[2] = m
      BY <1>6, <1>7 DEF Acls!Obj
    <2>2. /\ mn[m].role # Null => mn[m].mtime # 0 /\ mn[m].mtime <= srv.mtime[mn[m].role]
          /\ mn[m].aclh # Null => /\ ent[mn[m].aclh].live /\ ent[mn[m].aclh].linked
                                  /\ ent[mn[m].aclh].key = mn[m].role
      BY <1>2, <1>3 DEF MnodeInv
    <2> QED BY <1>1, <1>2, <2>1, <2>2 DEF MnodeInv, Busy, Acls!Obj
  <1>11. ASSUME NEW e \in Entry
         PROVE  Has(m, e) + Uses(t, e) + Gives(t, e) = Has(m, e)' + Uses(t, e)' + Gives(t, e)'
    BY <1>1, <1>3, <1>6, <1>7 DEF Has, Uses, Gives
  <1> QED BY <1>1, <1>2, <1>8, <1>9, <1>10, <1>11, HashKept

(* The return of a call that gives back no reference.                         *)
LEMMA ReturnKeeps ==
    ASSUME AclInv, NEW t \in Callers, NEW m, m = Acls!Obj(t), cal[t].pc \in {"answer", "release"},
           cal[t].drop = Null, mn' = Acls!Unlocked(t), cal' = Acls!Done(t),
           UNCHANGED <<srv, ent, pool, floor>>
    PROVE  AclInv'
  <1> DEFINE n == [mn[m] EXCEPT !.lock = Nobody]
             c == Acls!Quiet(Tail(cal[t].ops))
  <1>1. mn' = [mn EXCEPT ![m] = n] /\ cal' = [cal EXCEPT ![t] = c]
    BY DEF Acls!Unlocked, Acls!Done
  <1>2. /\ cal[t] \in CallType /\ ThreadInv(t) /\ cal[t].ops # << >>
        /\ m \in Mnodes /\ mn[m] \in MnodeType /\ mn[m].lock = t /\ MnodeInv(m)
    BY Inside
  <1>3. pool # t /\ (cal[t].ep = Null \/ Acls!Doing(t) # "attr")
    BY <1>2 DEF ThreadInv, PcOf, LockOf
  <1>4. /\ n \in MnodeType /\ n.lock = Nobody /\ n.role = mn[m].role /\ n.aclh = mn[m].aclh
        /\ n.mtime = mn[m].mtime
    BY <1>2 DEF MnodeType
  <1>5. c \in CallType /\ c.pc = "idle" /\ c.ep = Null /\ c.drop = Null /\ c.used = Null
    BY <1>2, QuietType DEF AclInv
  <1> HIDE DEF n, c
  <1>6. cal' \in [Callers -> CallType] /\ cal'[t] = c /\ \A u \in Callers \ {t} : cal'[u] = cal[u]
    BY <1>1, <1>5, CalWritten DEF AclInv
  <1>7. mn' \in [Mnodes -> MnodeType] /\ mn'[m] = n /\ \A k \in Mnodes \ {m} : mn'[k] = mn[k]
    BY <1>1, <1>2, <1>4, MnodeWritten DEF AclInv
  <1>8. Shape' /\ Private(t, m)
    BY <1>1, <1>2, <1>6, <1>7 DEF AclInv, Shape, Private
  <1>9. ThreadInv(t)'
    <2>1. LockOf(t)'
      BY <1>3, <1>5, <1>6 DEF LockOf, Busy
    <2>2. PcOf(t)'
      BY <1>5, <1>6 DEF PcOf, Checking
    <2>3. CheckOf(t)'
      BY <1>5, <1>6 DEF CheckOf, Busy
    <2> QED BY <2>1, <2>2, <2>3 DEF ThreadInv
  <1>10. MnodeInv(m)'
    <2>1. /\ mn[m].role # Null => mn[m].mtime # 0 /\ mn[m].mtime <= srv.mtime[mn[m].role]
          /\ mn[m].aclh # Null => /\ ent[mn[m].aclh].live /\ ent[mn[m].aclh].linked
                                  /\ ent[mn[m].aclh].key = mn[m].role
      BY <1>2, <1>3 DEF MnodeInv, Caching
    <2> QED BY <1>4, <1>7, <2>1 DEF MnodeInv
  <1>11. ASSUME NEW e \in Entry
         PROVE  Has(m, e) + Uses(t, e) + Gives(t, e) = Has(m, e)' + Uses(t, e)' + Gives(t, e)'
    <2>1. e # Null
      BY Pointers DEF AclInv
    <2>2. Has(m, e)' = Has(m, e)
      BY <1>4, <1>7 DEF Has
    <2>3. Uses(t, e)' = 0 /\ Gives(t, e)' = 0 /\ Uses(t, e) = 0 /\ Gives(t, e) = 0
      BY <1>3, <1>5, <1>6, <2>1 DEF Uses, Gives
    <2> QED BY <2>2, <2>3
  <1> QED BY <1>2, <1>8, <1>9, <1>10, <1>11, HashKept

-----------------------------------------------------------------------------
(* A step that writes one entry, x, with the hash lock.                       *)
LEMMA EntryWritten ==
    ASSUME AclInv, NEW t \in Callers, NEW m \in Mnodes, Private(t, m), Shape',
           NEW x \in Entry, \A e \in Entry \ {x} : ent'[e] = ent[e],
           pool = Nobody \/ (pool = t /\ cal[t].ep = x),
           \/ Kept(x)
           \/ /\ \A u \in Callers \ {t} : cal[u].ep = x => cal[u].pc = "answer"
              /\ \A k \in Mnodes \ {m} : mn[k].aclh # x,
           ThreadInv(t)', MnodeInv(m)', EntryInv(x)',
           ent'[x].live => \A d \in Entry \ {x} : ~(ent[d].live /\ ent[d].key = ent'[x].key),
           \A e \in Entry : ent'[e].ref = ent[e].ref - Has(m, e) + Has(m, e)' - Uses(t, e)
                                          + Uses(t, e)' - Gives(t, e) + Gives(t, e)'
    PROVE  AclInv'
  <1>1. \A e \in Entry \ {x} : Kept(e)
    BY DEF Kept
  <1>2. (\A u \in Callers : ThreadInv(u))' /\ (\A k \in Mnodes : MnodeInv(k))'
    <2>1. /\ \A u \in Callers : cal[u].ep # Null => cal[u].ep \in Entry
          /\ \A k \in Mnodes : mn[k].aclh # Null => mn[k].aclh \in Entry
      BY Pointers DEF AclInv
    <2>2. \A u \in Callers \ {t} : cal[u].ep # Null /\ cal[u].pc # "answer" => Kept(cal[u].ep)
      BY <1>1, <2>1
    <2>3. \A k \in Mnodes \ {m} : mn[k].aclh # Null => Kept(mn[k].aclh)
      BY <1>1, <2>1
    <2> QED BY <2>2, <2>3, OthersKeep
  <1>3. (\A e \in Entry : EntryInv(e))'
    <2>1. \A r \in Roles : srv'.mtime[r] \in Nat /\ srv.mtime[r] <= srv'.mtime[r] /\ floor'[r] = floor[r]
      BY DEF Private, AclInv, Shape, ServerType
    <2>2. ASSUME NEW e \in Entry \ {x} PROVE EntryInv(e)'
      <3>1. EntryInv(e)
        BY DEF AclInv
      <3>2. ent[e].live => ent[e].linked
        BY <3>1 DEF EntryInv
      <3> QED BY <2>1, <3>2, OtherEntry
    <2> QED BY <2>2
  <1>4. RefInv'
    BY RefStep
  <1>5. OneEntry'
    <2> SUFFICES ASSUME NEW d \in Entry, NEW e \in Entry, ent'[d].live, ent'[e].live,
                        ent'[d].key = ent'[e].key
                 PROVE  d = e
      BY DEF OneEntry
    <2>1. CASE d # x /\ e # x
      BY <2>1 DEF AclInv, OneEntry
    <2>2. CASE d = x \/ e = x
      BY <2>2
    <2> QED BY <2>1, <2>2
  <1> QED BY <1>2, <1>3, <1>4, <1>5 DEF AclInv, ServerInv, Private

(* The entry that a thread gives back is referred to, and by nobody else when *)
(* it has one reference.                                                      *)
LEMMA LastReference ==
    ASSUME AclInv, NEW t \in Callers, NEW x \in Entry, cal[t].drop = x
    PROVE  /\ ent[x].ref \in Nat \ {0}
           /\ ent[x].ref = 1 => /\ \A k \in Mnodes : mn[k].aclh # x
                                /\ \A u \in Callers : cal[u].ep = x => Acls!Doing(u) # "attr"
                                /\ \A u \in Callers \ {t} : cal[u].drop # x
  <1>1. t \in Giving(x)
    BY DEF Giving
  <1>2. /\ IsFiniteSet(Giving(x)) /\ Cardinality(Giving(x)) \in Nat
        /\ Cardinality(Holders(x)) \in Nat /\ Cardinality(Using(x)) \in Nat
        /\ Cardinality(Giving(x)) = 0 <=> Giving(x) = {}
        /\ Cardinality(Using(x)) = 0 <=> Using(x) = {}
        /\ Cardinality(Holders(x)) = 0 <=> Holders(x) = {}
    BY RefsFinite
  <1>3. ent[x].ref = Cardinality(Holders(x)) + Cardinality(Using(x)) + Cardinality(Giving(x))
    BY DEF AclInv, RefInv
  <1>4. Cardinality(Giving(x)) # 0
    BY <1>1, <1>2
  <1>5. ent[x].ref = 1 => Cardinality(Holders(x)) = 0 /\ Cardinality(Using(x)) = 0 /\ Cardinality(Giving(x)) = 1
    BY <1>2, <1>3, <1>4
  <1>6. ent[x].ref \in Nat \ {0}
    BY <1>2, <1>3, <1>4
  <1>7. Cardinality(Giving(x)) = 1 => Giving(x) = {t}
    <2>1. Cardinality(Giving(x)) = 1 => Cardinality(Giving(x) \ {t}) = 0
      BY <1>1, <1>2, CardLess
    <2>2. IsFiniteSet(Giving(x) \ {t})
      BY <1>2, FS_Subset
    <2>3. Cardinality(Giving(x) \ {t}) = 0 => Giving(x) \ {t} = {}
      BY <2>2, FS_EmptySet
    <2> QED BY <1>1, <2>1, <2>3
  <1>8. ent[x].ref = 1 => Holders(x) = {} /\ Using(x) = {} /\ Giving(x) = {t}
    BY <1>2, <1>5, <1>7
  <1> QED BY <1>6, <1>8 DEF Holders, Using, Giving

LEMMA ReleaseKeeps ==
    ASSUME AclInv, NEW t \in Callers, NEW m, m = Acls!Obj(t), NEW x, x = cal[t].drop, Acls!Release(t)
    PROVE  AclInv'
  <1>1. cal[t].pc = "release" /\ (x # Null => pool = Nobody) /\ UNCHANGED <<srv, pool, floor>>
        /\ mn' = Acls!Unlocked(t) /\ cal' = Acls!Done(t)
    BY DEF Acls!Release, Acls!At, Acls!Null, Null
  <1>2. CASE x = Null
    <2>1. ent' = ent
      BY <1>2 DEF Acls!Release, Acls!Null, Null
    <2> QED BY <1>1, <1>2, <2>1, ReturnKeeps
  <1>3. CASE x # Null
    <2> DEFINE n == [mn[m] EXCEPT !.lock = Nobody]
               c == Acls!Quiet(Tail(cal[t].ops))
               o == IF ent[x].ref = 1 THEN Acls!NoEntry ELSE [ent[x] EXCEPT !.ref = @ - 1]
    <2>1. mn' = [mn EXCEPT ![m] = n] /\ cal' = [cal EXCEPT ![t] = c] /\ pool = Nobody
      BY <1>1, <1>3 DEF Acls!Unlocked, Acls!Done
    <2>2. ent' = [ent EXCEPT ![x] = o]
      BY <1>3 DEF Acls!Release, Acls!Null, Null
    <2>3. /\ cal[t] \in CallType /\ ThreadInv(t) /\ cal[t].ops # << >>
          /\ m \in Mnodes /\ mn[m] \in MnodeType /\ mn[m].lock = t /\ MnodeInv(m)
      BY <1>1, Inside
    <2>4. cal[t].ep = Null /\ x \in Entry /\ ent[x] \in EntryType /\ EntryInv(x)
      <3>1. x \in Entry
        BY <1>3, Pointers DEF AclInv
      <3> QED BY <1>1, <2>3, <3>1 DEF ThreadInv, PcOf, AclInv, Shape
    <2>5. /\ ent[x].ref \in Nat \ {0}
          /\ ent[x].ref = 1 => /\ \A k \in Mnodes : mn[k].aclh # x
                               /\ \A u \in Callers : cal[u].ep = x => Acls!Doing(u) # "attr"
      BY <2>4, LastReference
    <2>6. /\ o \in EntryType /\ o.ref = ent[x].ref - 1
          /\ ent[x].ref = 1 => o = Acls!NoEntry
          /\ ent[x].ref # 1 => /\ o.live = ent[x].live /\ o.linked = ent[x].linked /\ o.key = ent[x].key
                               /\ o.lut = ent[x].lut /\ o.acl = ent[x].acl /\ o.policy = ent[x].policy
      <3>1. CASE ent[x].ref = 1
        <4>1. Acls!NoEntry \in EntryType /\ Acls!NoEntry.ref = 0
          BY DEF Acls!NoEntry, EntryType, Acls!Null
        <4> QED BY <3>1, <4>1
      <3>2. CASE ent[x].ref # 1
        <4>1. ent[x].ref - 1 \in Nat
          BY <2>5
        <4> QED BY <2>4, <3>2, <4>1 DEF EntryType
      <3> QED BY <3>1, <3>2
    <2>7. /\ n \in MnodeType /\ n.lock = Nobody /\ n.role = mn[m].role /\ n.aclh = mn[m].aclh
          /\ n.mtime = mn[m].mtime
      BY <2>3 DEF MnodeType
    <2>8. c \in CallType /\ c.pc = "idle" /\ c.ep = Null /\ c.drop = Null /\ c.used = Null
      BY <2>3, QuietType DEF AclInv
    <2> HIDE DEF n, c, o
    <2>9. cal' \in [Callers -> CallType] /\ cal'[t] = c /\ \A u \in Callers \ {t} : cal'[u] = cal[u]
      BY <2>1, <2>8, CalWritten DEF AclInv
    <2>10. mn' \in [Mnodes -> MnodeType] /\ mn'[m] = n /\ \A k \in Mnodes \ {m} : mn'[k] = mn[k]
      BY <2>1, <2>3, <2>7, MnodeWritten DEF AclInv
    <2>11. ent' \in [Entry -> EntryType] /\ ent'[x] = o /\ \A e \in Entry \ {x} : ent'[e] = ent[e]
      BY <2>2, <2>4, <2>6 DEF AclInv, Shape
    <2>12. Shape' /\ Private(t, m)
      BY <1>1, <2>3, <2>9, <2>10, <2>11 DEF AclInv, Shape, Private
    <2>13. ThreadInv(t)'
      <3>1. LockOf(t)'
        BY <1>1, <2>1, <2>8, <2>9, EaclAssumption DEF LockOf, Busy
      <3>2. PcOf(t)'
        BY <2>8, <2>9 DEF PcOf, Checking
      <3>3. CheckOf(t)'
        BY <2>8, <2>9 DEF CheckOf, Busy
      <3> QED BY <3>1, <3>2, <3>3 DEF ThreadInv
    <2>14. Kept(x) \/ /\ \A u \in Callers \ {t} : cal[u].ep = x => cal[u].pc = "answer"
                      /\ \A k \in Mnodes : mn[k].aclh # x
      <3>1. CASE ent[x].ref # 1
        BY <2>6, <2>11, <3>1 DEF Kept
      <3>2. CASE ent[x].ref = 1
        <4>1. ASSUME NEW u \in Callers \ {t}, cal[u].ep = x, cal[u].pc # "answer" PROVE FALSE
          <5>1. ThreadInv(u)
            BY DEF AclInv
          <5>2. cal[u].pc # "idle"
            BY <1>3, <4>1, <5>1 DEF ThreadInv, PcOf
          <5>3. /\ Acls!Doing(u) \in {"attr", "check", "free"} /\ Acls!Obj(u) \in Mnodes
                /\ cal[u] \in CallType
            BY <5>2, Inside
          <5>4. Acls!Doing(u) # "attr"
            BY <2>5, <3>2, <4>1
          <5>5. cal[u].pc \in Labels
            BY <5>3 DEF CallType
          <5>6. Acls!Doing(u) = "check" /\ cal[u].pc \in Checking
            BY <1>3, <4>1, <5>1, <5>2, <5>3, <5>4, <5>5 DEF ThreadInv, PcOf, Labels, Checking, Caching
          <5>7. mn[Acls!Obj(u)].aclh = x
            BY <4>1, <5>1, <5>6 DEF ThreadInv, PcOf
          <5> QED BY <2>5, <3>2, <5>3, <5>7
        <4> QED BY <2>5, <3>2, <4>1
      <3> QED BY <3>1, <3>2
    <2>15. MnodeInv(m)'
      <3>1. /\ mn[m].role # Null => mn[m].mtime # 0 /\ mn[m].mtime <= srv.mtime[mn[m].role]
            /\ mn[m].aclh # Null => /\ ent[mn[m].aclh].live /\ ent[mn[m].aclh].linked
                                    /\ ent[mn[m].aclh].key = mn[m].role
        BY <1>1, <2>3 DEF MnodeInv, Caching
      <3>2. mn[m].aclh # Null => mn[m].aclh \in Entry
        BY <2>3, Pointers DEF AclInv
      <3>3. mn[m].aclh # Null => /\ ent'[mn[m].aclh].live /\ ent'[mn[m].aclh].linked
                                 /\ ent'[mn[m].aclh].key = mn[m].role
        <4>1. CASE mn[m].aclh # x
          BY <2>11, <3>1, <3>2, <4>1
        <4>2. CASE mn[m].aclh = x
          BY <2>3, <2>5, <2>6, <2>11, <3>1, <4>2
        <4> QED BY <4>1, <4>2
      <3> QED BY <1>1, <2>7, <2>10, <3>1, <3>3 DEF MnodeInv
    <2>16. EntryInv(x)'
      <3>1. CASE ent[x].ref = 1
        <4>1. ent'[x] = Acls!NoEntry
          BY <2>6, <2>11, <3>1
        <4>2. ~ent'[x].live
          BY <4>1 DEF Acls!NoEntry
        <4> QED BY <4>1, <4>2 DEF EntryInv, Acls!NoEntry
      <3>2. CASE ent[x].ref # 1
        <4>1. ent[x].live
          BY <2>4, <2>5 DEF EntryInv, Acls!NoEntry
        <4>2. ent[x].linked
          BY <2>1, <2>4, <4>1 DEF EntryInv
        <4> QED BY <1>1, <2>4, <2>6, <2>11, <3>2, <4>1, <4>2 DEF EntryInv
      <3> QED BY <3>1, <3>2
    <2>17. ent'[x].live => \A d \in Entry \ {x} : ~(ent[d].live /\ ent[d].key = ent'[x].key)
      <3>0. ~Acls!NoEntry.live
        BY DEF Acls!NoEntry
      <3>1. ent'[x].live => ent[x].live /\ ent'[x].key = ent[x].key
        BY <2>6, <2>11, <3>0
      <3> QED BY <2>4, <3>1 DEF AclInv, OneEntry
    <2>18. ASSUME NEW e \in Entry
           PROVE  ent'[e].ref = ent[e].ref - Has(m, e) + Has(m, e)' - Uses(t, e)
                                 + Uses(t, e)' - Gives(t, e) + Gives(t, e)'
      <3>1. e # Null /\ ent[e].ref \in Nat
        BY Pointers DEF AclInv, Shape, EntryType
      <3>2. Has(m, e)' = Has(m, e) /\ Has(m, e) \in Int
        BY <2>7, <2>10 DEF Has
      <3>3. Uses(t, e)' = 0 /\ Gives(t, e)' = 0 /\ Uses(t, e) = 0
        BY <2>4, <2>8, <2>9, <3>1 DEF Uses, Gives
      <3>4. Gives(t, e) = (IF e = x THEN 1 ELSE 0)
        BY DEF Gives
      <3>5. ent'[e].ref = ent[e].ref - Gives(t, e)
        BY <2>6, <2>11, <3>1, <3>4
      <3> QED BY <3>1, <3>2, <3>3, <3>4, <3>5
    <2> QED BY <2>1, <2>3, <2>4, <2>11, <2>12, <2>13, <2>14, <2>15, <2>16, <2>17, <2>18, EntryWritten
  <1> QED BY <1>2, <1>3

-----------------------------------------------------------------------------
(* A step of mvfs_eaclhash_get or of mvfs_eaclhash_update_eaclh: with the     *)
(* hash lock, thread t turns the entry x of the role map of its object into   *)
(* o, and goes on to fetch it, to keep it or to decide by it.                 *)
EntryGoes(t, m, x, o, c) ==
    /\ cal[t].pc \in {"get", "valid", "fetch"}
    /\ pool = Nobody \/ (pool = t /\ cal[t].ep = x)
    /\ pool' = IF c.pc = "fetch" THEN t ELSE Nobody
    /\ UNCHANGED <<srv, mn, floor>>
    /\ cal' = [cal EXCEPT ![t] = c] /\ ent' = [ent EXCEPT ![x] = o]

ThreadGoes(t, m, x, o, c) ==
    /\ c \in CallType /\ c.ops = cal[t].ops /\ c.ep = x /\ c.drop = Null
    /\ c.used = cal[t].used /\ c.floor = cal[t].floor
    /\ c.pc \in {"fetch", "swap", "decide"}
    /\ c.pc = "swap" => Acls!Doing(t) = "attr"
    /\ c.pc = "decide" => Acls!Doing(t) = "check"
    /\ Acls!Doing(t) = "check" => x = mn[m].aclh
    /\ c.pc # "fetch" => o.linked
    /\ c.pc = "decide" /\ o.acl # Null => o.acl >= cal[t].floor /\ o.acl >= mn[m].mtime

RecordGoes(t, m, x, o) ==
    /\ o \in EntryType /\ o.live /\ o.key = mn[m].role
    /\ ent[x].live => ent[x].key = mn[m].role /\ (ent[x].linked => o.linked)
    /\ o.acl \in {ent[x].acl, Null, srv.mtime[ent[x].key]}
    /\ o.acl # Null => o.policy /\ o.lut \in {0, o.acl} /\ o.acl <= srv.mtime[o.key]
                        /\ (o.lut # 0 => o.acl >= floor[o.key])
    /\ o.ref = IF cal[t].pc = "get" THEN ent[x].ref + 1 ELSE ent[x].ref
    /\ \A d \in Entry \ {x} : ~(ent[d].live /\ ent[d].key = mn[m].role)

LEMMA HashStep ==
    ASSUME AclInv, NEW t \in Callers, NEW m, m = Acls!Obj(t), NEW x \in Entry, NEW o, NEW c,
           EntryGoes(t, m, x, o, c), ThreadGoes(t, m, x, o, c), RecordGoes(t, m, x, o)
    PROVE  AclInv'
  <1>1. /\ cal[t] \in CallType /\ ThreadInv(t) /\ cal[t].ops # << >>
        /\ m \in Mnodes /\ mn[m] \in MnodeType /\ mn[m].lock = t /\ MnodeInv(m)
    BY Inside DEF EntryGoes
  <1>2. /\ mn[m].role # Null /\ cal[t].drop = Null /\ Acls!Doing(t) \in {"attr", "check"}
        /\ cal[t].pc = "get" => cal[t].ep = Null /\ Acls!Doing(t) = "attr"
        /\ cal[t].pc = "valid" => Acls!Doing(t) = "check"
        /\ cal[t].pc = "fetch" => pool = t
    BY <1>1 DEF ThreadInv, PcOf, LockOf, EntryGoes
  <1>3. cal[t].pc = "fetch" => cal[t].ep = x
    BY <1>2, EaclAssumption DEF EntryGoes
  <1>4. /\ cal' \in [Callers -> CallType] /\ cal'[t] = c /\ \A u \in Callers \ {t} : cal'[u] = cal[u]
        /\ Acls!Doing(t)' = Acls!Doing(t) /\ Acls!Obj(t)' = m
    BY CalWritten DEF EntryGoes, ThreadGoes, AclInv
  <1>5. ent' \in [Entry -> EntryType] /\ ent'[x] = o /\ \A e \in Entry \ {x} : ent'[e] = ent[e]
    BY DEF EntryGoes, RecordGoes, AclInv, Shape
  <1>6. Shape' /\ Private(t, m)
    <2>1. pool' \in Callers \cup {Nobody}
      BY DEF EntryGoes
    <2>2. Shape'
      BY <1>4, <1>5, <2>1 DEF EntryGoes, AclInv, Shape
    <2>3. Private(t, m)
      BY <1>1, <1>4 DEF EntryGoes, Private
    <2> QED BY <2>2, <2>3
  <1>7. ThreadInv(t)'
    <2>1. LockOf(t)'
      <3>1. cal'[t].pc # "idle" /\ cal'[t].ops # << >> /\ (cal'[t].pc = "fetch" <=> pool' = t)
        BY <1>1, <1>4, EaclAssumption DEF EntryGoes, ThreadGoes
      <3>2. mn'[m].lock = t
        BY <1>1 DEF EntryGoes
      <3> QED BY <1>1, <1>2, <1>4, <3>1, <3>2 DEF LockOf
    <2>2. PcOf(t)'
      <3>1. /\ cal'[t].pc \in {"fetch", "swap", "decide"} /\ cal'[t].drop = Null /\ cal'[t].ep = x
            /\ cal'[t].pc = "swap" => Acls!Doing(t)' = "attr"
            /\ cal'[t].pc = "decide" => Acls!Doing(t)' = "check"
            /\ Acls!Doing(t)' \in {"attr", "check"}
        BY <1>2, <1>4 DEF ThreadGoes
      <3>2. /\ mn'[m].role # Null /\ x # Null /\ ent'[x].live /\ ent'[x].key = mn'[m].role
            /\ cal'[t].pc = "swap" => ent'[x].linked
            /\ Acls!Doing(t)' = "check" => x = mn'[m].aclh
        BY <1>2, <1>4, <1>5, Pointers DEF EntryGoes, ThreadGoes, RecordGoes, AclInv
      <3> QED BY <1>4, <3>1, <3>2 DEF PcOf
    <2>3. CheckOf(t)'
      <3> SUFFICES ASSUME Acls!Doing(t) = "check" PROVE CheckOf(t)'
        BY <1>4 DEF CheckOf
      <3>1. cal[t].floor <= floor[mn[m].role] /\ cal[t].used = Null
        BY <1>1, <1>2 DEF ThreadInv, CheckOf, Busy, EntryGoes
      <3>2. /\ cal'[t].floor = cal[t].floor /\ cal'[t].used = Null /\ mn' = mn /\ floor' = floor
            /\ cal'[t].ep = x /\ cal'[t].pc # "answer"
            /\ cal'[t].pc = "decide" /\ ent'[x].acl # Null =>
                  ent'[x].acl >= cal[t].floor /\ ent'[x].acl >= mn[m].mtime
        BY <1>4, <1>5, <3>1 DEF EntryGoes, ThreadGoes
      <3> QED BY <1>4, <3>1, <3>2 DEF CheckOf
    <2> QED BY <2>1, <2>2, <2>3 DEF ThreadInv
  <1>8. Kept(x)
    BY <1>5 DEF Kept, RecordGoes
  <1>9. MnodeInv(m)'
    <2>1. cal'[t].pc # "idle" /\ Head(cal'[t].ops)[2] = m /\ Head(cal'[t].ops)[1] = Acls!Doing(t)
      BY <1>4 DEF ThreadGoes, Acls!Obj, Acls!Doing
    <2>2. mn[m].mtime # 0 /\ mn[m].mtime <= srv.mtime[mn[m].role]
      BY <1>1, <1>2 DEF MnodeInv
    <2>3. Acls!Doing(t) = "attr" => cal'[t].pc \in Caching
      BY <1>4 DEF ThreadGoes, Caching
    <2>4. mn[m].aclh # Null => /\ mn[m].aclh \in Entry /\ ent[mn[m].aclh].live /\ ent[mn[m].aclh].linked
                               /\ ent[mn[m].aclh].key # mn[m].role => Acls!Doing(t) = "attr"
      BY <1>1, Pointers DEF MnodeInv, AclInv
    <2>5. mn[m].aclh # Null => /\ ent'[mn[m].aclh].live /\ ent'[mn[m].aclh].linked
                               /\ ent'[mn[m].aclh].key # mn[m].role => Acls!Doing(t) = "attr"
      <3>1. CASE mn[m].aclh = x
        BY <1>5, <2>4, <3>1 DEF RecordGoes
      <3>2. CASE mn[m].aclh # x
        BY <1>5, <2>4, <3>2
      <3> QED BY <3>1, <3>2
    <2>6. mn' = mn /\ srv' = srv /\ t # Nobody
      BY EaclAssumption DEF EntryGoes
    <2> QED BY <1>1, <2>1, <2>2, <2>3, <2>5, <2>6 DEF MnodeInv, Busy, Acls!Obj, Acls!Doing
  <1>10. EntryInv(x)'
    <2>1. mn[m].role \in Roles
      BY <1>1, <1>2 DEF MnodeType, Roles, Null
    <2>2. ~o.linked => pool' = t /\ t # Nobody /\ cal'[t].ep = x
      BY <1>4, EaclAssumption DEF EntryGoes, ThreadGoes
    <2>3. srv' = srv /\ floor' = floor
      BY DEF EntryGoes
    <2>4. /\ o.live /\ o.key = mn[m].role
          /\ o.acl # Null => /\ o.policy /\ o.lut \in {0, o.acl} /\ o.acl <= srv.mtime[o.key]
                             /\ (o.lut # 0 => o.acl >= floor[o.key])
      BY DEF RecordGoes
    <2> QED BY <1>5, <2>1, <2>2, <2>3, <2>4 DEF EntryInv
  <1>11. ent'[x].live => \A d \in Entry \ {x} : ~(ent[d].live /\ ent[d].key = ent'[x].key)
    BY <1>5 DEF RecordGoes
  <1>12. ASSUME NEW e \in Entry
         PROVE  ent'[e].ref = ent[e].ref - Has(m, e) + Has(m, e)' - Uses(t, e)
                               + Uses(t, e)' - Gives(t, e) + Gives(t, e)'
    <2>1. e # Null /\ ent[e].ref \in Nat
      BY Pointers DEF AclInv, Shape, EntryType
    <2>2. Has(m, e)' = Has(m, e) /\ Has(m, e) \in Int
      BY DEF Has, EntryGoes
    <2>3. Gives(t, e)' = 0 /\ Gives(t, e) = 0
      BY <1>2, <1>4, <2>1 DEF Gives, ThreadGoes
    <2>4. Uses(t, e)' = (IF e = x /\ Acls!Doing(t) = "attr" THEN 1 ELSE 0)
      BY <1>4 DEF Uses, ThreadGoes
    <2>5. Uses(t, e) = (IF cal[t].ep = e /\ Acls!Doing(t) = "attr" THEN 1 ELSE 0)
      BY DEF Uses
    <2>6. ent'[e].ref = ent[e].ref - Uses(t, e) + Uses(t, e)'
      <3>1. CASE e # x
        <4>1. Uses(t, e) = 0 /\ Uses(t, e)' = 0 /\ ent'[e] = ent[e]
          BY <1>2, <1>3, <1>5, <2>1, <2>4, <2>5, <3>1 DEF EntryGoes
        <4> QED BY <2>1, <4>1
      <3>2. CASE e = x /\ cal[t].pc = "get"
        <4>1. Uses(t, e) = 0 /\ Uses(t, e)' = 1 /\ ent'[e].ref = ent[e].ref + 1
          BY <1>2, <1>5, <2>1, <2>4, <2>5, <3>2 DEF RecordGoes
        <4> QED BY <2>1, <4>1
      <3>3. CASE e = x /\ cal[t].pc # "get"
        <4>1. Uses(t, e)' = Uses(t, e) /\ ent'[e].ref = ent[e].ref /\ Uses(t, e) \in Int
          BY <1>2, <1>3, <1>5, <2>4, <2>5, <3>3 DEF RecordGoes, EntryGoes
        <4> QED BY <2>1, <4>1
      <3> QED BY <3>1, <3>2, <3>3
    <2> QED BY <2>1, <2>2, <2>3, <2>4, <2>5, <2>6
  <1>13. pool = Nobody \/ (pool = t /\ cal[t].ep = x)
    BY DEF EntryGoes
  <1> QED BY <1>1, <1>5, <1>6, <1>7, <1>8, <1>9, <1>10, <1>11, <1>12, <1>13, EntryWritten

(* The entry a thread is about to fetch: its ACL is given up.                 *)
LEMMA UpdateGoes ==
    ASSUME AclInv, NEW t \in Callers, NEW m, m = Acls!Obj(t), NEW x \in Entry, NEW new \in EntryType,
           cal[t].pc \in {"get", "valid"}, pool = Nobody, UNCHANGED <<srv, mn, floor>>,
           Acls!Update(t, x, new), new.live, new.key = mn[m].role,
           ent[x].live => ent[x].key = mn[m].role /\ (ent[x].linked => new.linked),
           new.ref = IF cal[t].pc = "get" THEN ent[x].ref + 1 ELSE ent[x].ref,
           \A d \in Entry \ {x} : ~(ent[d].live /\ ent[d].key = mn[m].role),
           Acls!Doing(t) = "check" => x = mn[m].aclh
    PROVE  AclInv'
  <1> DEFINE o == [new EXCEPT !.acl = Null]
             c == [cal[t] EXCEPT !.pc = "fetch", !.ep = x, !.block = 1]
  <1>1. /\ cal[t] \in CallType /\ ThreadInv(t)
    BY DEF AclInv, Shape
  <1>2. cal[t].drop = Null
    BY <1>1 DEF ThreadInv, PcOf
  <1>3. x \in 0 .. MaxEnt
    BY EaclAssumption DEF Entry, Acls!Entries
  <1>4. /\ o \in EntryType /\ o.acl = Null /\ o.live = new.live /\ o.key = new.key /\ o.ref = new.ref
        /\ o.linked = new.linked
    BY DEF EntryType, Null
  <1>5. /\ c \in CallType /\ c.pc = "fetch" /\ c.ep = x /\ c.ops = cal[t].ops /\ c.drop = cal[t].drop
        /\ c.used = cal[t].used /\ c.floor = cal[t].floor
    BY <1>1, <1>3 DEF CallType, Labels, Caching
  <1>6. cal' = [cal EXCEPT ![t] = c] /\ ent' = [ent EXCEPT ![x] = o] /\ pool' = t
    BY DEF Acls!Update, Acls!Null, Null
  <1> HIDE DEF o, c
  <1>7. EntryGoes(t, m, x, o, c)
    BY <1>5, <1>6 DEF EntryGoes
  <1>8. ThreadGoes(t, m, x, o, c)
    BY <1>2, <1>5 DEF ThreadGoes
  <1>9. RecordGoes(t, m, x, o)
    BY <1>4 DEF RecordGoes
  <1> QED BY <1>7, <1>8, <1>9, HashStep

LEMMA GetKeeps ==
    ASSUME AclInv, NEW t \in Callers, NEW m, m = Acls!Obj(t), Acls!Get(t)
    PROVE  AclInv'
  <1>1. cal[t].pc = "get" /\ pool = Nobody /\ UNCHANGED <<srv, mn, floor>>
    BY DEF Acls!Get, Acls!At
  <1>2. /\ cal[t] \in CallType /\ ThreadInv(t) /\ cal[t].ops # << >>
        /\ m \in Mnodes /\ mn[m] \in MnodeType /\ mn[m].lock = t /\ MnodeInv(m)
    BY <1>1, Inside
  <1>3. Acls!Doing(t) = "attr" /\ cal[t].ep = Null /\ cal[t].drop = Null /\ mn[m].role # Null
    BY <1>1, <1>2 DEF ThreadInv, PcOf
  <1>4. mn[m].role \in Roles
    BY <1>2, <1>3 DEF MnodeType, Roles, Null
  <1>5. \A e \in Entry : EntryInv(e) /\ ent[e] \in EntryType /\ (ent[e].live <=> ent[e].linked)
    <2>1. \A e \in Entry : EntryInv(e) /\ ent[e] \in EntryType
      BY DEF AclInv, Shape
    <2>2. ~Acls!NoEntry.linked
      BY DEF Acls!NoEntry
    <2> QED BY <1>1, <2>1, <2>2 DEF EntryInv, EntryType
  <1>6. ASSUME NEW x \in Acls!FindEntry(mn[m].role)
        PROVE  /\ x \in Entry /\ ent[x].linked /\ ent[x].live /\ ent[x].key = mn[m].role
               /\ \A d \in Entry \ {x} : ~(ent[d].live /\ ent[d].key = mn[m].role)
    <2>1. x \in Entry /\ ent[x].linked /\ ent[x].key = mn[m].role
      BY DEF Acls!FindEntry, Entry
    <2> QED BY <1>5, <2>1 DEF AclInv, OneEntry
  <1>7. ASSUME Acls!FindEntry(mn[m].role) = {}
        PROVE  \A d \in Entry : ~(ent[d].live /\ ent[d].key = mn[m].role)
    BY <1>5, <1>7 DEF Acls!FindEntry, Entry
  <1>8. CASE \E x \in Acls!FindEntry(mn[m].role), late \in BOOLEAN :
                LET held == [ent[x] EXCEPT !.ref = @ + 1]
                IN IF Acls!Stale(x, m, late) THEN Acls!Update(t, x, held)
                   ELSE /\ ent' = [ent EXCEPT ![x] = held]
                        /\ cal' = [cal EXCEPT ![t] = [@ EXCEPT !.pc = "swap", !.ep = x]]
                        /\ UNCHANGED pool
    <2>1. PICK x \in Acls!FindEntry(mn[m].role), late \in BOOLEAN :
                LET held == [ent[x] EXCEPT !.ref = @ + 1]
                IN IF Acls!Stale(x, m, late) THEN Acls!Update(t, x, held)
                   ELSE /\ ent' = [ent EXCEPT ![x] = held]
                        /\ cal' = [cal EXCEPT ![t] = [@ EXCEPT !.pc = "swap", !.ep = x]]
                        /\ UNCHANGED pool
      BY <1>8
    <2> DEFINE held == [ent[x] EXCEPT !.ref = @ + 1]
               c == [cal[t] EXCEPT !.pc = "swap", !.ep = x]
    <2>2. /\ x \in Entry /\ ent[x].linked /\ ent[x].live /\ ent[x].key = mn[m].role
          /\ \A d \in Entry \ {x} : ~(ent[d].live /\ ent[d].key = mn[m].role)
      BY <1>6
    <2>3. ent[x] \in EntryType /\ EntryInv(x)
      BY <1>5, <2>2
    <2>4. /\ held \in EntryType /\ held.live = ent[x].live /\ held.linked = ent[x].linked
          /\ held.key = ent[x].key /\ held.ref = ent[x].ref + 1 /\ held.acl = ent[x].acl
          /\ held.lut = ent[x].lut /\ held.policy = ent[x].policy
      BY <2>3 DEF EntryType
    <2>5. CASE Acls!Stale(x, m, late)
      <3>1. Acls!Update(t, x, held)
        BY <2>1, <2>5
      <3> HIDE DEF held
      <3> QED BY <1>1, <1>3, <2>2, <2>4, <3>1, UpdateGoes
    <2>6. CASE ~Acls!Stale(x, m, late)
      <3>1. ent' = [ent EXCEPT ![x] = held] /\ cal' = [cal EXCEPT ![t] = c] /\ pool' = pool
        BY <2>1, <2>6
      <3>2. x \in 0 .. MaxEnt
        BY <2>2, EaclAssumption DEF Entry, Acls!Entries
      <3>3. /\ c \in CallType /\ c.pc = "swap" /\ c.ep = x /\ c.ops = cal[t].ops /\ c.drop = cal[t].drop
            /\ c.used = cal[t].used /\ c.floor = cal[t].floor
        BY <1>2, <3>2 DEF CallType, Labels, Caching
      <3> HIDE DEF held, c
      <3>4. EntryGoes(t, m, x, held, c)
        BY <1>1, <3>1, <3>3 DEF EntryGoes
      <3>5. ThreadGoes(t, m, x, held, c)
        BY <1>3, <2>2, <2>4, <3>3 DEF ThreadGoes
      <3>6. RecordGoes(t, m, x, held)
        BY <1>1, <2>2, <2>3, <2>4 DEF RecordGoes, EntryInv
      <3> QED BY <2>2, <3>4, <3>5, <3>6, HashStep
    <2> QED BY <2>5, <2>6
  <1>9. CASE /\ Acls!FindEntry(mn[m].role) = {} /\ \E e \in Entry : ~ent[e].live
             /\ LET e == CHOOSE e \in Entry : ~ent[e].live
                IN Acls!Update(t, e, [Acls!NoEntry EXCEPT !.live = TRUE, !.key = mn[m].role, !.ref = 1])
    <2> DEFINE y == CHOOSE e \in Entry : ~ent[e].live
               new == [Acls!NoEntry EXCEPT !.live = TRUE, !.key = mn[m].role, !.ref = 1]
    <2>1. y \in Entry /\ ~ent[y].live
      BY <1>9
    <2>2. Acls!Update(t, y, new)
      BY <1>9
    <2>3. ent[y].ref = 0
      <3>1. EntryInv(y)
        BY <1>5, <2>1
      <3>2. ent[y] = Acls!NoEntry
        BY <2>1, <3>1 DEF EntryInv
      <3> QED BY <3>2 DEF Acls!NoEntry
    <2>4. new \in EntryType /\ new.live /\ new.key = mn[m].role /\ new.ref = 1
      <3>1. Acls!NoEntry \in EntryType
        BY DEF Acls!NoEntry, Acls!Null, EntryType
      <3>2. mn[m].role \in 0 .. 2
        BY <1>4 DEF Roles
      <3> QED BY <3>1, <3>2 DEF EntryType
    <2>5. \A d \in Entry : ~(ent[d].live /\ ent[d].key = mn[m].role)
      BY <1>7, <1>9
    <2>6. PICK x \in Entry : x = y
      BY <2>1
    <2> HIDE DEF y, new
    <2>7. new.ref = ent[x].ref + 1 /\ ~ent[x].live /\ Acls!Update(t, x, new)
      BY <2>1, <2>2, <2>3, <2>4, <2>6
    <2> QED BY <1>1, <1>3, <2>4, <2>5, <2>7, UpdateGoes
  <1>10. CASE /\ Acls!FindEntry(mn[m].role) = {}
              /\ cal' = [cal EXCEPT ![t].pc = "swap"] /\ UNCHANGED <<ent, pool>>
    <2> DEFINE c == [cal[t] EXCEPT !.pc = "swap"]
    <2>1. cal' = [cal EXCEPT ![t] = c] /\ UNCHANGED <<ent, pool>>
      BY <1>10
    <2>2. /\ c \in CallType /\ c.pc = "swap" /\ c.ep = Null /\ c.ops = cal[t].ops /\ c.drop = Null
      BY <1>2, <1>3 DEF CallType, Labels, Caching
    <2> HIDE DEF c
    <2>3. /\ cal' \in [Callers -> CallType] /\ cal'[t] = c /\ \A u \in Callers \ {t} : cal'[u] = cal[u]
          /\ Acls!Doing(t)' = "attr" /\ Acls!Obj(t)' = m
      BY <1>3, <2>1, <2>2, CalWritten DEF AclInv
    <2>4. Shape' /\ Private(t, m)
      BY <1>1, <1>2, <2>1, <2>3 DEF AclInv, Shape, Private
    <2>5. ThreadInv(t)'
      <3>1. LockOf(t)'
        BY <1>1, <1>2, <2>1, <2>2, <2>3, EaclAssumption DEF LockOf
      <3>2. PcOf(t)'
        BY <1>1, <1>3, <2>2, <2>3 DEF PcOf, Checking
      <3>3. CheckOf(t)'
        BY <2>3 DEF CheckOf
      <3> QED BY <3>1, <3>2, <3>3 DEF ThreadInv
    <2>6. MnodeInv(m)'
      <3>1. cal'[t].pc # "idle" /\ Head(cal'[t].ops)[2] = m /\ Head(cal'[t].ops)[1] = "attr"
            /\ cal'[t].pc \in Caching /\ t # Nobody
        BY <2>2, <2>3, EaclAssumption DEF Acls!Obj, Acls!Doing, Caching
      <3> QED BY <1>1, <1>2, <2>1, <3>1 DEF MnodeInv, Busy, Acls!Obj, Acls!Doing
    <2>7. ASSUME NEW e \in Entry
          PROVE  Has(m, e) + Uses(t, e) + Gives(t, e) = Has(m, e)' + Uses(t, e)' + Gives(t, e)'
      BY <1>1, <1>3, <2>2, <2>3 DEF Has, Uses, Gives
    <2> QED BY <1>1, <1>2, <2>1, <2>4, <2>5, <2>6, <2>7, HashKept
  <1>11. \/ \E x \in Acls!FindEntry(mn[m].role), late \in BOOLEAN :
                LET held == [ent[x] EXCEPT !.ref = @ + 1]
                IN IF Acls!Stale(x, m, late) THEN Acls!Update(t, x, held)
                   ELSE /\ ent' = [ent EXCEPT ![x] = held]
                        /\ cal' = [cal EXCEPT ![t] = [@ EXCEPT !.pc = "swap", !.ep = x]]
                        /\ UNCHANGED pool
         \/ /\ Acls!FindEntry(mn[m].role) = {} /\ \E e \in Entry : ~ent[e].live
            /\ LET e == CHOOSE e \in Entry : ~ent[e].live
               IN Acls!Update(t, e, [Acls!NoEntry EXCEPT !.live = TRUE, !.key = mn[m].role, !.ref = 1])
         \/ /\ Acls!FindEntry(mn[m].role) = {}
            /\ cal' = [cal EXCEPT ![t].pc = "swap"] /\ UNCHANGED <<ent, pool>>
    BY DEF Acls!Get, Entry
  <1> QED BY <1>8, <1>9, <1>10, <1>11

LEMMA ValidateKeeps ==
    ASSUME AclInv, NEW t \in Callers, NEW m, m = Acls!Obj(t), NEW x, x = cal[t].ep, Acls!Validate(t)
    PROVE  AclInv'
  <1>1. cal[t].pc = "valid" /\ pool = Nobody /\ UNCHANGED <<srv, mn, floor>>
    BY DEF Acls!Validate, Acls!At
  <1>2. /\ cal[t] \in CallType /\ ThreadInv(t) /\ cal[t].ops # << >>
        /\ m \in Mnodes /\ mn[m] \in MnodeType /\ mn[m].lock = t /\ MnodeInv(m)
    BY <1>1, Inside
  <1>3. /\ Acls!Doing(t) = "check" /\ cal[t].drop = Null /\ mn[m].role # Null
        /\ x # Null /\ x = mn[m].aclh
    BY <1>1, <1>2 DEF ThreadInv, PcOf, Checking
  <1>4. /\ x \in Entry /\ ent[x] \in EntryType /\ EntryInv(x)
        /\ ent[x].live /\ ent[x].linked /\ ent[x].key = mn[m].role
        /\ \A d \in Entry \ {x} : ~(ent[d].live /\ ent[d].key = mn[m].role)
    <2>1. x \in Entry
      BY <1>3, Pointers DEF AclInv
    <2>2. ent[x].live /\ ent[x].linked /\ ent[x].key = mn[m].role
      BY <1>2, <1>3 DEF MnodeInv
    <2> QED BY <2>1, <2>2 DEF AclInv, Shape, OneEntry
  <1>5. PICK late \in BOOLEAN :
             IF Acls!Stale(x, m, late) THEN Acls!Update(t, x, ent[x])
             ELSE cal' = [cal EXCEPT ![t].pc = "decide"] /\ UNCHANGED <<ent, pool>>
    BY DEF Acls!Validate
  <1>6. CASE Acls!Stale(x, m, late)
    <2>1. Acls!Update(t, x, ent[x])
      BY <1>5, <1>6
    <2>2. PICK new \in EntryType : new = ent[x]
      BY <1>4
    <2> QED BY <1>1, <1>3, <1>4, <2>1, <2>2, UpdateGoes
  <1>7. CASE ~Acls!Stale(x, m, late)
    <2> DEFINE c == [cal[t] EXCEPT !.pc = "decide"]
    <2>1. cal' = [cal EXCEPT ![t] = c] /\ UNCHANGED <<ent, pool>>
      BY <1>5, <1>7
    <2>2. /\ c \in CallType /\ c.pc = "decide" /\ c.ep = x /\ c.ops = cal[t].ops /\ c.drop = cal[t].drop
          /\ c.used = cal[t].used /\ c.floor = cal[t].floor
      BY <1>2 DEF CallType, Labels, Checking
    <2> HIDE DEF c
    <2>3. ent' = [ent EXCEPT ![x] = ent[x]]
      BY <1>4, <2>1 DEF AclInv, Shape
    <2>4. EntryGoes(t, m, x, ent[x], c)
      BY <1>1, <2>1, <2>2, <2>3 DEF EntryGoes
    <2>5. ent[x].acl # Null => ent[x].acl >= cal[t].floor /\ ent[x].acl >= mn[m].mtime
      <3> SUFFICES ASSUME ent[x].acl # Null
                   PROVE  ent[x].acl >= cal[t].floor /\ ent[x].acl >= mn[m].mtime
        OBVIOUS
      <3>1. mn[m].mtime \in Nat /\ mn[m].mtime # 0 /\ ent[x].lut \in Nat /\ ent[x].acl \in Nat
        BY <1>2, <1>3, <1>4 DEF MnodeInv, MnodeType, EntryType
      <3>2. mn[m].mtime <= ent[x].lut
        BY <1>7, <3>1 DEF Acls!Stale
      <3>3. ent[x].lut = ent[x].acl /\ ent[x].lut # 0
        BY <1>4, <3>1, <3>2 DEF EntryInv
      <3>4. ent[x].acl >= floor[mn[m].role]
        BY <1>4, <3>3 DEF EntryInv
      <3>5. cal[t].floor <= floor[mn[m].role]
        BY <1>1, <1>2, <1>3 DEF ThreadInv, CheckOf, Busy
      <3>6. cal[t].floor \in Nat /\ floor[mn[m].role] \in Nat
        <4>1. mn[m].role \in Roles
          BY <1>2, <1>3 DEF MnodeType, Roles, Null
        <4> QED BY <1>2, <4>1 DEF CallType, AclInv, Shape
      <3> QED BY <3>1, <3>2, <3>3, <3>4, <3>5, <3>6
    <2>6. ThreadGoes(t, m, x, ent[x], c)
      BY <1>3, <1>4, <2>2, <2>5 DEF ThreadGoes
    <2>7. RecordGoes(t, m, x, ent[x])
      BY <1>1, <1>4 DEF RecordGoes, EntryInv
    <2>8. PICK o : o = ent[x]
      OBVIOUS
    <2> QED BY <1>4, <2>4, <2>6, <2>7, <2>8, HashStep
  <1> QED BY <1>6, <1>7

LEMMA FetchKeeps ==
    ASSUME AclInv, NEW t \in Callers, NEW m, m = Acls!Obj(t), NEW x, x = cal[t].ep, Acls!Fetch(t)
    PROVE  AclInv'
  <1> DEFINE cur == srv.mtime[ent[x].key]
  <1>1. cal[t].pc = "fetch" /\ UNCHANGED <<srv, mn, floor>>
    BY DEF Acls!Fetch, Acls!At
  <1>2. /\ cal[t] \in CallType /\ ThreadInv(t) /\ cal[t].ops # << >>
        /\ m \in Mnodes /\ mn[m] \in MnodeType /\ mn[m].lock = t /\ MnodeInv(m)
    BY <1>1, Inside
  <1>3. /\ Acls!Doing(t) \in {"attr", "check"} /\ cal[t].drop = Null /\ mn[m].role # Null
        /\ x # Null /\ (Acls!Doing(t) = "check" => x = mn[m].aclh) /\ pool = t
        /\ ent[x].live /\ ent[x].key = mn[m].role
    BY <1>1, <1>2 DEF ThreadInv, PcOf, LockOf, Checking
  <1>4. /\ x \in Entry /\ ent[x] \in EntryType /\ EntryInv(x)
        /\ \A d \in Entry \ {x} : ~(ent[d].live /\ ent[d].key = mn[m].role)
    <2>1. x \in Entry
      BY <1>3, Pointers DEF AclInv
    <2> QED BY <1>3, <2>1 DEF AclInv, Shape, OneEntry
  <1>5. /\ cur \in Nat \ {0} /\ srv.now \in Nat /\ floor[mn[m].role] <= cur /\ mn[m].mtime <= cur
        /\ floor[mn[m].role] \in Nat /\ mn[m].mtime \in Nat /\ cal[t].floor \in Nat
        /\ cal[t].block \in Nat
    <2>1. mn[m].role \in Roles
      BY <1>2, <1>3 DEF MnodeType, Roles, Null
    <2> QED BY <1>2, <1>3, <2>1 DEF MnodeInv, MnodeType, AclInv, Shape, ServerType, ServerInv, CallType
  <1>6. Acls!Doing(t) = "check" => cal[t].floor <= cur
    BY <1>1, <1>2, <1>3, <1>5 DEF ThreadInv, CheckOf, Busy
  <1> HIDE DEF cur
  (* What the entry becomes: an ACL that is the one of the server, or none.   *)
  <1>7. ASSUME NEW o \in EntryType, o.live, o.key = ent[x].key, o.ref = ent[x].ref, ent[x].linked => o.linked,
               o.acl = Null \/ (o.acl = cur /\ o.lut = cur /\ o.policy)
        PROVE  RecordGoes(t, m, x, o)
    <2>1. o.acl # Null => o.acl <= srv.mtime[o.key] /\ o.acl >= floor[o.key]
      BY <1>3, <1>5, <1>7 DEF cur
    <2> QED BY <1>1, <1>3, <1>4, <1>7, <2>1 DEF RecordGoes, cur
  <1>8. ASSUME NEW c \in CallType, c.pc = "fetch", c.ops = cal[t].ops, c.ep = x, c.drop = Null,
               c.used = cal[t].used, c.floor = cal[t].floor, NEW o
        PROVE  ThreadGoes(t, m, x, o, c)
    BY <1>3, <1>8 DEF ThreadGoes
  <1>9. ASSUME NEW a \in Nat, NEW l \in Nat, a = Null \/ (a = cur /\ l = cur), Acls!Updated(t, a, l)
        PROVE  AclInv'
    <2> DEFINE p == IF Acls!Doing(t) = "attr" THEN "swap" ELSE "decide"
               b == ent[x].policy \/ a # Null
               o == [ent[x] EXCEPT !.acl = a, !.lut = l, !.linked = TRUE, !.policy = b]
               c == [cal[t] EXCEPT !.pc = p, !.block = 0, !.ver = 0, !.again = FALSE]
    <2>1. cal' = [cal EXCEPT ![t] = c] /\ ent' = [ent EXCEPT ![x] = o] /\ pool' = Nobody
      <3>1. cal' = [cal EXCEPT ![t] = c] /\ pool' = Nobody
        BY <1>9 DEF Acls!Updated
      <3>2. ent' = [ent EXCEPT ![x] = o]
        BY <1>9, Zenon DEF Acls!Updated, Acls!Null, Null
      <3> QED BY <3>1, <3>2
    <2>2. p \in {"swap", "decide"} /\ (p = "swap" <=> Acls!Doing(t) = "attr")
      OBVIOUS
    <2>3. b \in BOOLEAN /\ (a # Null => b)
      OBVIOUS
    <2> HIDE DEF p, b
    <2>4. /\ c \in CallType /\ c.pc = p /\ c.ep = x /\ c.ops = cal[t].ops /\ c.drop = cal[t].drop
          /\ c.used = cal[t].used /\ c.floor = cal[t].floor
      BY <1>2, <2>2 DEF CallType, Labels, Caching, Checking
    <2>5. /\ o \in EntryType /\ o.live = ent[x].live /\ o.key = ent[x].key /\ o.ref = ent[x].ref
          /\ o.linked /\ o.acl = a /\ o.lut = l /\ o.policy = b
      BY <1>4, <2>3 DEF EntryType
    <2> HIDE DEF o, c
    <2>6. EntryGoes(t, m, x, o, c)
      BY <1>1, <1>3, <2>1, <2>2, <2>4 DEF EntryGoes
    <2>7. ThreadGoes(t, m, x, o, c)
      <3>1. c.pc = "decide" /\ o.acl # Null => o.acl >= cal[t].floor /\ o.acl >= mn[m].mtime
        BY <1>3, <1>5, <1>6, <1>9, <2>2, <2>4, <2>5
      <3> QED BY <1>3, <2>2, <2>4, <2>5, <3>1 DEF ThreadGoes
    <2>8. RecordGoes(t, m, x, o)
      BY <1>3, <1>7, <1>9, <2>3, <2>5
    <2>9. PICK oo, cc : oo = o /\ cc = c
      OBVIOUS
    <2> QED BY <1>4, <2>6, <2>7, <2>8, <2>9, HashStep
  <1>10. CASE /\ ent' = [ent EXCEPT ![x] = [@ EXCEPT !.acl = cur, !.lut = cur, !.policy = TRUE]]
              /\ cal' = [cal EXCEPT ![t] = [@ EXCEPT !.block = cal[t].block + 1, !.ver = cur]] /\ UNCHANGED pool
    <2> DEFINE o == [ent[x] EXCEPT !.acl = cur, !.lut = cur, !.policy = TRUE]
               b == cal[t].block + 1
               c == [cal[t] EXCEPT !.block = b, !.ver = cur]
    <2>1. cal' = [cal EXCEPT ![t] = c] /\ ent' = [ent EXCEPT ![x] = o] /\ pool' = t
      <3>1. cal' = [cal EXCEPT ![t] = c]
        BY <1>10
      <3>2. ent' = [ent EXCEPT ![x] = o]
        BY <1>10
      <3> QED BY <1>3, <1>10, <3>1, <3>2
    <2>0. b \in Nat
      BY <1>5
    <2> HIDE DEF b
    <2>2. /\ c \in CallType /\ c.pc = "fetch" /\ c.ep = x /\ c.ops = cal[t].ops /\ c.drop = cal[t].drop
          /\ c.used = cal[t].used /\ c.floor = cal[t].floor
      BY <1>1, <1>2, <1>5, <2>0 DEF CallType
    <2>3. /\ o \in EntryType /\ o.live = ent[x].live /\ o.key = ent[x].key /\ o.ref = ent[x].ref
          /\ o.linked = ent[x].linked /\ o.acl = cur /\ o.lut = cur /\ o.policy
      BY <1>4, <1>5 DEF EntryType
    <2>4. PICK oo, cc : oo = o /\ cc = c
      OBVIOUS
    <2> HIDE DEF o, c
    <2>5. EntryGoes(t, m, x, o, c) /\ ThreadGoes(t, m, x, o, c)
      BY <1>1, <1>3, <1>8, <2>1, <2>2 DEF EntryGoes
    <2>6. RecordGoes(t, m, x, o)
      BY <1>3, <1>7, <2>3
    <2> QED BY <1>4, <2>4, <2>5, <2>6, HashStep
  <1>11. CASE /\ ent' = [ent EXCEPT ![x] = [@ EXCEPT !.acl = Null, !.lut = srv.now]]
              /\ cal' = [cal EXCEPT ![t] = [@ EXCEPT !.block = 1, !.ver = 0, !.again = TRUE]]
              /\ UNCHANGED pool
    <2> DEFINE o == [ent[x] EXCEPT !.acl = Null, !.lut = srv.now]
               c == [cal[t] EXCEPT !.block = 1, !.ver = 0, !.again = TRUE]
    <2>1. cal' = [cal EXCEPT ![t] = c] /\ ent' = [ent EXCEPT ![x] = o] /\ pool' = t
      BY <1>3, <1>11
    <2>2. /\ c \in CallType /\ c.pc = "fetch" /\ c.ep = x /\ c.ops = cal[t].ops /\ c.drop = cal[t].drop
          /\ c.used = cal[t].used /\ c.floor = cal[t].floor
      BY <1>1, <1>2 DEF CallType
    <2>3. /\ o \in EntryType /\ o.live = ent[x].live /\ o.key = ent[x].key /\ o.ref = ent[x].ref
          /\ o.linked = ent[x].linked /\ o.acl = Null
      BY <1>4, <1>5 DEF EntryType, Null
    <2>4. PICK oo, cc : oo = o /\ cc = c
      OBVIOUS
    <2> HIDE DEF o, c
    <2>5. EntryGoes(t, m, x, o, c) /\ ThreadGoes(t, m, x, o, c)
      BY <1>1, <1>3, <1>8, <2>1, <2>2 DEF EntryGoes
    <2>6. RecordGoes(t, m, x, o)
      BY <1>3, <1>7, <2>3
    <2> QED BY <1>4, <2>4, <2>5, <2>6, HashStep
  <1>12. \/ /\ ent' = [ent EXCEPT ![x] = [@ EXCEPT !.acl = cur, !.lut = cur, !.policy = TRUE]]
            /\ cal' = [cal EXCEPT ![t] = [@ EXCEPT !.block = cal[t].block + 1, !.ver = cur]] /\ UNCHANGED pool
         \/ Acls!Updated(t, cur, cur)
         \/ /\ ent' = [ent EXCEPT ![x] = [@ EXCEPT !.acl = Null, !.lut = srv.now]]
            /\ cal' = [cal EXCEPT ![t] = [@ EXCEPT !.block = 1, !.ver = 0, !.again = TRUE]]
            /\ UNCHANGED pool
         \/ Acls!Updated(t, Null, srv.now)
    BY DEF Acls!Fetch, Acls!Null, Null, cur
  <1>13. CASE Acls!Updated(t, cur, cur)
    <2>1. PICK a \in Nat : a = cur
      BY <1>5
    <2> QED BY <1>9, <1>13, <2>1
  <1>14. CASE Acls!Updated(t, Null, srv.now)
    <2>1. PICK l \in Nat : l = srv.now
      BY <1>5
    <2>2. PICK a \in Nat : a = Null
      BY DEF Null
    <2> QED BY <1>9, <1>14, <2>1, <2>2
  <1> QED BY <1>10, <1>11, <1>12, <1>13, <1>14

-----------------------------------------------------------------------------
(* The references are the same when nobody takes or gives back one.           *)
LEMMA RefsSame ==
    ASSUME AclInv, mn' = mn, \A e \in Entry : ent'[e].ref = ent[e].ref,
           \A u \in Callers : /\ cal'[u].ep = cal[u].ep /\ cal'[u].drop = cal[u].drop
                              /\ cal[u].ep # Null => Acls!Doing(u)' = Acls!Doing(u)
    PROVE  RefInv'
  <1> SUFFICES ASSUME NEW e \in Entry
               PROVE  ent'[e].ref = Cardinality(Holders(e)') + Cardinality(Using(e)') + Cardinality(Giving(e)')
    BY DEF RefInv
  <1>1. ent[e].ref = Cardinality(Holders(e)) + Cardinality(Using(e)) + Cardinality(Giving(e))
    BY DEF AclInv, RefInv
  <1>2. Holders(e)' = Holders(e)
    BY DEF Holders
  <1>3. Giving(e)' = Giving(e)
    BY DEF Giving
  <1>4. Using(e)' = Using(e)
    <2>1. e # Null
      BY Pointers DEF AclInv
    <2>2. Using(e) = {u \in Callers : cal[u].ep = e /\ Acls!Doing(u) = "attr"}
          /\ Using(e)' = {u \in Callers : cal'[u].ep = e /\ Acls!Doing(u)' = "attr"}
      BY DEF Using
    <2>3. \A u \in Callers : (cal[u].ep = e /\ Acls!Doing(u) = "attr") <=> (cal'[u].ep = e /\ Acls!Doing(u)' = "attr")
      BY <2>1
    <2> QED BY <2>2, <2>3
  <1> QED BY <1>1, <1>2, <1>3, <1>4

LEMMA InvalKeeps ==
    ASSUME AclInv, NEW t \in Callers, Acls!Inval(t)
    PROVE  AclInv'
  <1> DEFINE s == cal[t].slot
             what == Acls!Obj(t)
             hit == {e \in Acls!FindEntry(s) : Acls!Matches(e, what)}
             c == IF s = 2 THEN Acls!Quiet(Tail(cal[t].ops)) ELSE [cal[t] EXCEPT !.slot = s + 1]
  <1>1. /\ cal[t].ops # << >> /\ cal[t].pc = "idle" /\ Acls!Doing(t) = "inval" /\ pool = Nobody
        /\ srv' = srv /\ mn' = mn /\ pool' = pool
    BY DEF Acls!Inval, Acls!At
  <1>2. /\ ent' = [e \in Entry |-> IF e \in hit THEN [ent[e] EXCEPT !.lut = 0] ELSE ent[e]]
        /\ floor' = [floor EXCEPT ![s] = IF what \in {s, 0} THEN srv.mtime[s] ELSE floor[s]]
        /\ cal' = [cal EXCEPT ![t] = c]
    <2>1. ent' = [e \in Entry |-> IF e \in hit THEN [ent[e] EXCEPT !.lut = 0] ELSE ent[e]]
      BY DEF Acls!Inval, Entry
    <2>2. floor' = [floor EXCEPT ![s] = IF what \in {s, 0} THEN srv.mtime[s] ELSE floor[s]]
      BY DEF Acls!Inval, Acls!Policy
    <2>3. cal' = [cal EXCEPT ![t] = c]
      <3>1. CASE s = 2
        BY <3>1 DEF Acls!Inval, Acls!Done
      <3>2. CASE s # 2
        BY <3>2 DEF Acls!Inval
      <3> QED BY <3>1, <3>2
    <2> QED BY <2>1, <2>2, <2>3
  <1>3. cal[t] \in CallType /\ ThreadInv(t) /\ s \in Roles
    BY DEF AclInv, Shape, CallType, Roles
  <1>4. cal[t].ep = Null /\ cal[t].drop = Null /\ cal[t].used = Null
    BY <1>1, <1>3 DEF ThreadInv, PcOf
  <1>5. c \in CallType /\ c.pc = "idle" /\ c.ep = Null /\ c.drop = Null /\ c.used = Null
    <2>1. CASE s = 2
      BY <1>1, <2>1, QuietType DEF AclInv
    <2>2. CASE s # 2
      <3>1. s + 1 \in {1, 2}
        BY <1>3, <2>2 DEF Roles
      <3>2. [cal[t] EXCEPT !.slot = s + 1] \in CallType
        BY <1>3, <3>1 DEF CallType
      <3> QED BY <1>1, <1>3, <1>4, <2>2, <3>2 DEF CallType
    <2> QED BY <2>1, <2>2
  <1> HIDE DEF c
  <1>6. cal' \in [Callers -> CallType] /\ cal'[t] = c /\ \A u \in Callers \ {t} : cal'[u] = cal[u]
    BY <1>2, <1>5, CalWritten DEF AclInv
  <1>7. /\ floor' \in [Roles -> Nat]
        /\ \A r \in Roles : /\ floor[r] \in Nat /\ srv.mtime[r] \in Nat
                            /\ floor[r] <= floor'[r] /\ floor'[r] <= srv.mtime[r]
                            /\ floor'[r] # floor[r] => r = s /\ what \in {s, 0}
    <2> DEFINE v == IF what \in {s, 0} THEN srv.mtime[s] ELSE floor[s]
    <2>1. \A r \in Roles : floor[r] \in Nat /\ srv.mtime[r] \in Nat /\ floor[r] <= srv.mtime[r]
      BY DEF AclInv, Shape, ServerType, ServerInv
    <2>2. v \in Nat /\ floor[s] <= v /\ v <= srv.mtime[s] /\ (v # floor[s] => what \in {s, 0})
      BY <1>3, <2>1
    <2>3. floor' = [floor EXCEPT ![s] = v] /\ floor \in [Roles -> Nat]
      BY <1>2 DEF AclInv, Shape
    <2> HIDE DEF v
    <2> QED BY <1>3, <2>1, <2>2, <2>3
  <1>8. ASSUME NEW e \in Entry
        PROVE  /\ ent'[e] \in EntryType /\ ent'[e].live = ent[e].live /\ ent'[e].linked = ent[e].linked
               /\ ent'[e].key = ent[e].key /\ ent'[e].ref = ent[e].ref /\ ent'[e].acl = ent[e].acl
               /\ ent'[e].policy = ent[e].policy
               /\ e \in hit => ent'[e].lut = 0
               /\ e \notin hit => ent'[e] = ent[e]
    <2>1. ent[e] \in EntryType
      BY DEF AclInv, Shape
    <2>2. ent'[e] = IF e \in hit THEN [ent[e] EXCEPT !.lut = 0] ELSE ent[e]
      BY <1>2
    <2> QED BY <2>1, <2>2 DEF EntryType
  <1>9. \A e \in Entry : e \in hit <=> ent[e].linked /\ ent[e].key = s /\ Acls!Matches(e, what)
    BY DEF Acls!FindEntry, Entry
  <1> HIDE DEF hit
  <1>10. Shape'
    <2>1. ent' \in [Entry -> EntryType]
      BY <1>2, <1>8
    <2> QED BY <1>1, <1>6, <1>7, <2>1 DEF AclInv, Shape
  <1>11. ServerInv'
    BY <1>1, <1>7 DEF AclInv, ServerInv
  <1>12. \A e \in Entry : Kept(e)
    BY <1>8 DEF Kept
  <1>13. ASSUME NEW u \in Callers PROVE ThreadInv(u)'
    <2>1. CASE u = t
      <3>1. LockOf(t)'
        BY <1>1, <1>5, <1>6, EaclAssumption DEF LockOf, Busy
      <3>2. PcOf(t)'
        BY <1>5, <1>6 DEF PcOf, Checking
      <3>3. CheckOf(t)'
        BY <1>5, <1>6 DEF CheckOf, Busy
      <3> QED BY <2>1, <3>1, <3>2, <3>3 DEF ThreadInv
    <2>2. CASE u # t
      <3>1. cal[u].ep # Null => Kept(cal[u].ep)
        BY <1>12, Pointers DEF AclInv
      <3>2. \A r \in Roles : floor'[r] \in Nat /\ floor[r] <= floor'[r]
        BY <1>7
      <3> QED BY <1>1, <1>6, <2>2, <3>1, <3>2, OtherThread
    <2> QED BY <2>1, <2>2
  <1>14. ASSUME NEW k \in Mnodes PROVE MnodeInv(k)'
    <2>1. mn[k].lock # Nobody => mn[k].lock \in Callers \ {t}
      <3>1. mn[k].lock \in Callers \cup {Nobody}
        BY DEF AclInv, Shape, MnodeType
      <3>2. mn[k].lock # Nobody => Busy(mn[k].lock)
        BY DEF AclInv, MnodeInv
      <3> QED BY <1>1, <3>1, <3>2 DEF Busy
    <2>2. mn[k].aclh # Null => Kept(mn[k].aclh)
      BY <1>12, Pointers DEF AclInv
    <2>3. \A r \in Roles : srv'.mtime[r] \in Nat /\ srv.mtime[r] <= srv'.mtime[r]
      BY <1>1, <1>7
    <2> QED BY <1>1, <1>6, <2>1, <2>2, <2>3, OtherMnode
  <1>15. ASSUME NEW e \in Entry PROVE EntryInv(e)'
    <2>1. EntryInv(e) /\ ent[e] \in EntryType
      BY DEF AclInv, Shape
    <2>2. CASE ~ent[e].live
      <3>1. ent[e] = Acls!NoEntry /\ ~ent[e].linked
        BY <2>1, <2>2 DEF EntryInv, Acls!NoEntry
      <3>2. ent'[e] = ent[e]
        BY <1>8, <1>9, <3>1
      <3> QED BY <2>2, <3>1, <3>2 DEF EntryInv, Acls!NoEntry
    <2>3. CASE ent[e].live
      <3>1. ent[e].linked /\ ent[e].key \in Roles
        BY <1>1, <2>1, <2>3 DEF EntryInv
      <3>2. ent[e].acl # Null => /\ ent[e].policy /\ ent[e].lut \in {0, ent[e].acl}
                                 /\ ent[e].acl <= srv.mtime[ent[e].key]
                                 /\ ent[e].lut # 0 => ent[e].acl >= floor[ent[e].key]
        BY <2>1, <2>3 DEF EntryInv
      <3>3. CASE e \in hit
        BY <1>1, <1>8, <2>3, <3>1, <3>2, <3>3 DEF EntryInv
      <3>4. CASE e \notin hit
        <4>1. ent[e].acl # Null => floor'[ent[e].key] = floor[ent[e].key]
          <5> SUFFICES ASSUME ent[e].acl # Null, ent[e].key = s, what \in {s, 0} PROVE FALSE
            BY <1>7, <3>1
          <5>1. ~Acls!Matches(e, what)
            BY <1>9, <3>1, <3>4
          <5> QED BY <3>2, <5>1 DEF Acls!Matches, Acls!Policy
        <4> QED BY <1>1, <1>8, <2>3, <3>1, <3>2, <3>4, <4>1 DEF EntryInv
      <3> QED BY <3>3, <3>4
    <2> QED BY <2>2, <2>3
  <1>16. OneEntry'
    BY <1>8 DEF AclInv, OneEntry
  <1>17. RefInv'
    <2>1. \A e \in Entry : ent'[e].ref = ent[e].ref
      BY <1>8
    <2>2. ASSUME NEW u \in Callers
          PROVE  /\ cal'[u].ep = cal[u].ep /\ cal'[u].drop = cal[u].drop
                 /\ cal[u].ep # Null => Acls!Doing(u)' = Acls!Doing(u)
      <3>1. CASE u = t
        BY <1>4, <1>5, <1>6, <3>1
      <3>2. CASE u # t
        BY <1>6, <3>2 DEF Acls!Doing
      <3> QED BY <3>1, <3>2
    <2> QED BY <1>1, <2>1, <2>2, RefsSame
  <1> QED BY <1>10, <1>11, <1>13, <1>14, <1>15, <1>16, <1>17 DEF AclInv

(* What happens at the server, or in the other table.                         *)
LEMMA ServerKeeps ==
    ASSUME AclInv, UNCHANGED <<mn, ent, pool, cal, floor>>, srv' \in ServerType,
           \A r \in Roles : srv.mtime[r] <= srv'.mtime[r] /\ srv'.mtime[r] <= srv'.now
    PROVE  AclInv'
  <1>1. \A r \in Roles : /\ srv'.mtime[r] \in Nat /\ srv.mtime[r] \in Nat /\ floor[r] \in Nat
                         /\ floor[r] <= srv.mtime[r] /\ srv.mtime[r] <= srv'.mtime[r]
    BY DEF AclInv, Shape, ServerType, ServerInv
  <1>2. Shape' /\ ServerInv'
    BY <1>1 DEF AclInv, Shape, ServerInv
  <1>3. \A e \in Entry : Kept(e)
    BY DEF Kept
  <1>4. ASSUME NEW u \in Callers PROVE ThreadInv(u)'
    <2>1. cal[u].ep # Null => Kept(cal[u].ep)
      BY <1>3, Pointers DEF AclInv
    <2> QED BY <1>1, <2>1, OtherThread
  <1>5. ASSUME NEW k \in Mnodes PROVE MnodeInv(k)'
    <2>1. mn[k].aclh # Null => Kept(mn[k].aclh)
      BY <1>3, Pointers DEF AclInv
    <2> QED BY <1>1, <2>1, OtherMnode
  <1>6. ASSUME NEW e \in Entry PROVE EntryInv(e)'
    BY <1>1, OtherEntry
  <1>7. OneEntry'
    BY DEF AclInv, OneEntry
  <1>8. RefInv'
    BY RefsSame DEF Acls!Doing
  <1> QED BY <1>2, <1>4, <1>5, <1>6, <1>7, <1>8 DEF AclInv

LEMMA ChangeKeeps ==
    ASSUME AclInv, NEW r \in Roles, Acls!Change(r)
    PROVE  AclInv'
  <1>1. /\ srv \in ServerType /\ srv.changes > 0 /\ UNCHANGED <<mn, ent, pool, cal, floor>>
        /\ srv' = [srv EXCEPT !.now = srv.now + 1, !.mtime[r] = srv.now + 1, !.changes = srv.changes - 1]
    BY DEF AclInv, Shape, Acls!Change
  <1>2. /\ srv.now + 1 \in Nat \ {0} /\ srv.changes - 1 \in Nat /\ srv.now \in Nat
        /\ \A q \in Roles : srv.mtime[q] \in Nat /\ srv.mtime[q] <= srv.now
    BY <1>1 DEF ServerType, AclInv, ServerInv
  <1> DEFINE now == srv.now + 1  left == srv.changes - 1
  <1>3. srv' \in ServerType /\ srv'.now = now /\ srv'.mtime = [srv.mtime EXCEPT ![r] = now]
    <2>1. now \in Nat \ {0} /\ left \in Nat
      BY <1>2
    <2>2. srv' = [srv EXCEPT !.now = now, !.mtime[r] = now, !.changes = left]
      BY <1>1
    <2> DEFINE times == [srv.mtime EXCEPT ![r] = now]
    <2> HIDE DEF now, left
    <2>3. times \in [Roles -> Nat \ {0}]
      BY <1>1, <2>1 DEF ServerType
    <2>4. srv' = [srv EXCEPT !.now = now, !.mtime = times, !.changes = left]
      BY <2>2
    <2> HIDE DEF times
    <2>5. srv' \in ServerType /\ srv'.now = now /\ srv'.mtime = times
      BY <1>1, <2>1, <2>3, <2>4 DEF ServerType
    <2> QED BY <2>5 DEF times
  <1>4. \A q \in Roles : srv'.mtime[q] = IF q = r THEN now ELSE srv.mtime[q]
    BY <1>1, <1>3 DEF ServerType
  <1>5. \A q \in Roles : srv.mtime[q] <= srv'.mtime[q] /\ srv'.mtime[q] <= srv'.now
    BY <1>2, <1>3, <1>4
  <1> QED BY <1>1, <1>3, <1>5, ServerKeeps

LEMMA MoveKeeps ==
    ASSUME AclInv, NEW m \in Mnodes, Acls!Move(m)
    PROVE  AclInv'
  <1>1. /\ srv \in ServerType /\ srv.moves[m] # << >> /\ UNCHANGED <<mn, ent, pool, cal, floor>>
        /\ srv' = [srv EXCEPT !.role[m] = Head(srv.moves[m]), !.moves[m] = Tail(srv.moves[m])]
    BY DEF AclInv, Shape, Acls!Move
  <1>2. Head(srv.moves[m]) \in 0 .. 2 /\ Tail(srv.moves[m]) \in Seq(0 .. 2)
    BY <1>1, HeadTailProperties DEF ServerType
  <1>3. srv' \in ServerType /\ srv'.now = srv.now /\ srv'.mtime = srv.mtime
    BY <1>1, <1>2 DEF ServerType
  <1>4. \A q \in Roles : srv.mtime[q] <= srv'.mtime[q] /\ srv'.mtime[q] <= srv'.now
    BY <1>1, <1>3 DEF ServerType, AclInv, ServerInv
  <1> QED BY <1>1, <1>3, <1>4, ServerKeeps

-----------------------------------------------------------------------------
LEMMA AclInit ==
    ASSUME NEW w \in Works \cup {NoWork}, Acls!EaclInit(w)
    PROVE  AclInv
  <1>1. /\ w.role \in [Mnodes -> 0 .. 2] /\ w.moves \in [Mnodes -> Seq(0 .. 2)]
        /\ w.changes \in Nat /\ w.ops \in [Callers -> Seq(AclOps)]
    BY EaclAssumption
  <1>2. 0 \in 0 .. MaxEnt
    BY EaclAssumption
  <1>3. /\ srv = [now |-> 1, mtime |-> [r \in Roles |-> 1], role |-> w.role, moves |-> w.moves, changes |-> w.changes]
        /\ mn = [m \in Mnodes |-> [lock |-> Nobody, role |-> 0, mtime |-> 0, aclh |-> 0]]
        /\ ent = [e \in Entry |-> Acls!NoEntry]
        /\ pool = Nobody
        /\ cal = [t \in Callers |-> Acls!Quiet(w.ops[t])]
        /\ floor = [r \in Roles |-> 0]
    BY DEF Acls!EaclInit, Acls!Roles, Roles, Entry, Acls!Null
  <1>4. \A t \in Callers : /\ cal[t] \in CallType /\ cal[t].pc = "idle" /\ cal[t].ep = Null
                           /\ cal[t].drop = Null /\ cal[t].used = Null
    BY <1>1, <1>2, <1>3 DEF Acls!Quiet, CallType, Labels, Null, Acls!Null
  <1>5. Acls!NoEntry \in EntryType /\ ~Acls!NoEntry.live /\ Acls!NoEntry.ref = 0
    BY DEF Acls!NoEntry, EntryType, Acls!Null
  <1>6. \A m \in Mnodes : /\ mn[m] \in MnodeType /\ mn[m].lock = Nobody /\ mn[m].role = Null
                          /\ mn[m].aclh = Null
    BY <1>2, <1>3 DEF MnodeType, Null
  <1>7. \A e \in Entry : ent[e] = Acls!NoEntry
    BY <1>3
  <1>8. Shape
    <2>1. srv \in ServerType
      BY <1>1, <1>3 DEF ServerType, Roles
    <2>2. cal \in [Callers -> CallType] /\ mn \in [Mnodes -> MnodeType] /\ ent \in [Entry -> EntryType]
      BY <1>3, <1>4, <1>5, <1>6
    <2> QED BY <1>3, <2>1, <2>2 DEF Shape
  <1>9. ServerInv
    BY <1>3 DEF ServerInv
  <1>10. ASSUME NEW t \in Callers PROVE ThreadInv(t)
    <2>1. LockOf(t)
      BY <1>3, <1>4, EaclAssumption DEF LockOf, Busy
    <2>2. PcOf(t)
      BY <1>4 DEF PcOf, Checking
    <2>3. CheckOf(t)
      BY <1>4 DEF CheckOf, Busy
    <2> QED BY <2>1, <2>2, <2>3 DEF ThreadInv
  <1>11. ASSUME NEW m \in Mnodes PROVE MnodeInv(m)
    BY <1>6 DEF MnodeInv
  <1>12. ASSUME NEW e \in Entry PROVE EntryInv(e)
    BY <1>5, <1>7 DEF EntryInv
  <1>13. OneEntry
    BY <1>5, <1>7 DEF OneEntry
  <1>14. RefInv
    <2> SUFFICES ASSUME NEW e \in Entry
                 PROVE  ent[e].ref = Cardinality(Holders(e)) + Cardinality(Using(e)) + Cardinality(Giving(e))
      BY DEF RefInv
    <2>1. e # Null
      BY <1>8, Pointers
    <2>2. Holders(e) = {} /\ Using(e) = {} /\ Giving(e) = {}
      BY <1>4, <1>6, <2>1 DEF Holders, Using, Giving
    <2> QED BY <1>5, <1>7, <2>2, FS_EmptySet
  <1> QED BY <1>8, <1>9, <1>10, <1>11, <1>12, <1>13, <1>14 DEF AclInv

LEMMA AclNext ==
    ASSUME AclInv, [Next]_<<soVars, eaVars>>
    PROVE  AclInv'
  <1>1. CASE UNCHANGED eaVars
    <2>1. \A r \in Roles : srv.mtime[r] <= srv'.mtime[r] /\ srv'.mtime[r] <= srv'.now
      BY <1>1 DEF eaVars, AclInv, Shape, ServerType, ServerInv
    <2> QED BY <1>1, <2>1, ServerKeeps DEF eaVars, AclInv, Shape
  <1>2. ASSUME NEW t \in Callers, Acls!EaclStep(t) PROVE AclInv'
    <2>1. PICK m, x, y : m = Acls!Obj(t) /\ x = cal[t].ep /\ y = cal[t].drop
      OBVIOUS
    <2>2. CASE Acls!Attr(t)
      BY <2>1, <2>2, AttrKeeps
    <2>3. CASE Acls!Get(t)
      BY <2>1, <2>3, GetKeeps
    <2>4. CASE Acls!Fetch(t)
      BY <2>1, <2>4, FetchKeeps
    <2>5. CASE Acls!Swap(t)
      BY <2>1, <2>5, SwapKeeps
    <2>6. CASE Acls!Release(t)
      BY <2>1, <2>6, ReleaseKeeps
    <2>7. CASE Acls!Uncache(t)
      BY <2>1, <2>7, UncacheKeeps
    <2>8. CASE Acls!Check(t)
      BY <2>1, <2>8, CheckKeeps
    <2>9. CASE Acls!Validate(t)
      BY <2>1, <2>9, ValidateKeeps
    <2>10. CASE Acls!Decide(t)
      BY <2>1, <2>10, DecideKeeps
    <2>11. CASE Acls!Answer(t)
      <3>1. /\ cal[t].pc = "answer" /\ mn' = Acls!Unlocked(t) /\ cal' = Acls!Done(t)
            /\ UNCHANGED <<srv, ent, pool, floor>>
        BY <2>11 DEF Acls!Answer, Acls!At
      <3>2. ThreadInv(t)
        BY DEF AclInv
      <3>3. cal[t].drop = Null
        BY <3>1, <3>2 DEF ThreadInv, PcOf
      <3> QED BY <2>1, <3>1, <3>3, ReturnKeeps
    <2>12. CASE Acls!Inval(t)
      BY <2>12, InvalKeeps
    <2> QED BY <1>2, <2>2, <2>3, <2>4, <2>5, <2>6, <2>7, <2>8, <2>9, <2>10, <2>11, <2>12 DEF Acls!EaclStep
  <1>3. \/ UNCHANGED eaVars
        \/ \E t \in Callers : Acls!EaclStep(t)
        \/ \E r \in Roles : Acls!Change(r)
        \/ \E m \in Mnodes : Acls!Move(m)
    BY DEF Next, Acls!Next, Acls!Returned, Acls!eaVars, eaVars, soVars, Acls!Roles, Roles
  <1> QED BY <1>1, <1>2, <1>3, ChangeKeeps, MoveKeeps

(* The invariant holds.                                                       *)
THEOREM AclInvariant == Spec => []AclInv
  <1>1. Init => AclInv
    BY AclInit DEF Init, Acls!Init
  <1>2. AclInv /\ [Next]_<<soVars, eaVars>> => AclInv'
    BY AclNext
  <1> QED BY <1>1, <1>2, PTL DEF Spec

(* mvfs_acl.c: an entry has as many references as there are mnodes and calls  *)
(* under way that hold it, a role map has one entry however many threads look *)
(* for it at once, and an mnode nobody is changing holds the entry of its     *)
(* role map: for every number of threads, objects, entries and blocks, and    *)
(* every sequence of calls and of changes at the server.                      *)
THEOREM EntriesAreSound == Spec => []EntriesSound
  <1>1. AclInv => EntriesSound
    <2> SUFFICES ASSUME AclInv PROVE EntriesSound
      OBVIOUS
    <2>1. \A e \in Entry : ent[e].ref = Cardinality({m \in Mnodes : mn[m].aclh = e})
                              + Cardinality({t \in Callers : cal[t].ep = e /\ Acls!Doing(t) = "attr"})
                              + Cardinality({t \in Callers : cal[t].drop = e})
      BY DEF AclInv, RefInv, Holders, Using, Giving
    <2>2. \A m \in Mnodes : mn[m].lock = Nobody /\ mn[m].aclh # Null =>
             ent[mn[m].aclh].linked /\ ent[mn[m].aclh].key = mn[m].role
      BY DEF AclInv, MnodeInv
    <2>3. \A d, e \in Entry : ent[d].live /\ ent[e].live /\ ent[d].key = ent[e].key => d = e
      BY DEF AclInv, OneEntry
    <2>4. \A S : Acls!Cardinality(S) = Cardinality(S)
      BY DEF Acls!Cardinality, Cardinality, Acls!IsFiniteSet, IsFiniteSet
    <2> QED BY <2>1, <2>2, <2>3, <2>4, Zenon DEF EntriesSound, Acls!EntriesSound, Entry, Acls!Null, Null
  <1> QED BY <1>1, AclInvariant, PTL

(* mvfs_chkaccess_acl: whatever changes, is fetched or invalidated meanwhile, *)
(* no access is decided by an ACL that is older than the attributes of the    *)
(* object or that had been invalidated when the check began.                  *)
THEOREM AclIsFresh == Spec => []FreshAcl
  <1>1. AclInv => FreshAcl
    <2> SUFFICES ASSUME AclInv, NEW t \in Callers, cal[t].pc = "answer", cal[t].used # Null
                 PROVE  cal[t].used >= cal[t].floor /\ cal[t].used >= mn[Acls!Obj(t)].mtime
      BY DEF FreshAcl, Acls!FreshAcl, Acls!At, Acls!Null, Null
    <2>1. ThreadInv(t)
      BY DEF AclInv
    <2> QED BY <2>1 DEF ThreadInv, PcOf, CheckOf, Busy
  <1> QED BY <1>1, AclInvariant, PTL
=============================================================================
