-------------------------------- MODULE Eacl --------------------------------
(* The cache of effective ACLs of mvfs_acl.c: entries keyed by role map and   *)
(* shared by the mnodes of all VOB objects with that role map, fetched from   *)
(* the view server in blocks under a lock of the hash, checked for age at     *)
(* every access, and invalidated by an ioctl. An mnode's lock is held for the *)
(* whole of an operation on it; the hash lock is held across the fetch.       *)
(* Both role maps of an instance share one lock of the pool.                  *)
EXTENDS Integers, Sequences, FiniteSets

CONSTANTS
    Callers,    \* threads
    Mnodes,     \* VOB objects
    MaxEnt,     \* bound: entries that can be allocated at a time
    Blocks,     \* blocks of an ACL (at most mvfs_eacl_blocks_default)
    Nobody,     \* no holder of a lock
    Works       \* the scenarios: calls of each thread, changes at the server

VARIABLES
    srv,        \* the server: times of the ACLs, role map of each object
    mn,         \* the mnodes: lock, attributes, mn_aclh
    ent,        \* the entries of the hash
    pool,       \* holder of the hash lock
    cal,        \* the threads and their locals
    floor       \* history: time of an ACL when it was last invalidated

eaVars == <<srv, mn, ent, pool, cal, floor>>

Roles == {1, 2}
Null == 0                                 \* no role map, no entry, no ACL
Policy == 0                               \* an invalidation of the policy
Entries == 1 .. MaxEnt
NoEntry == [live |-> FALSE, linked |-> FALSE, key |-> Null, ref |-> 0, lut |-> 0,
            acl |-> Null, policy |-> FALSE]
Quiet(ops) == [pc |-> "idle", ops |-> ops, ep |-> Null, drop |-> Null, block |-> 0, ver |-> 0,
               again |-> FALSE, floor |-> 0, used |-> Null, slot |-> 1]

EaclInit(w) ==
    /\ srv = [now |-> 1, mtime |-> [r \in Roles |-> 1], role |-> w.role, moves |-> w.moves,
              changes |-> w.changes]
    /\ mn = [m \in Mnodes |-> [lock |-> Nobody, role |-> Null, mtime |-> 0, aclh |-> Null]]
    /\ ent = [e \in Entries |-> NoEntry]
    /\ pool = Nobody
    /\ cal = [t \in Callers |-> Quiet(w.ops[t])]
    /\ floor = [r \in Roles |-> 0]

Init == \E w \in Works : EaclInit(w)

-----------------------------------------------------------------------------
Doing(t) == Head(cal[t].ops)[1]
Obj(t) == Head(cal[t].ops)[2]
At(t, pc) == cal[t].ops # << >> /\ cal[t].pc = pc
Ready(t, op) == At(t, "idle") /\ Doing(t) = op /\ mn[Obj(t)].lock = Nobody
Done(t) == [cal EXCEPT ![t] = Quiet(Tail(@.ops))]
Unlocked(t) == [mn EXCEPT ![Obj(t)].lock = Nobody]

(* External: an ACL, or the role map of an object, changes at the server.     *)
Change(r) ==
    /\ srv.changes > 0
    /\ srv' = [srv EXCEPT !.now = @ + 1, !.mtime[r] = srv.now + 1, !.changes = @ - 1]
    /\ UNCHANGED <<mn, ent, pool, cal, floor>>

Move(m) ==
    /\ srv.moves[m] # << >>
    /\ srv' = [srv EXCEPT !.role[m] = Head(srv.moves[m]), !.moves[m] = Tail(@)]
    /\ UNCHANGED <<mn, ent, pool, cal, floor>>

(* New attributes of an object (the caller of mvfs_acl_cache): an object that *)
(* has lost its role map gives up its entry.                                  *)
Attr(t) ==
    /\ Ready(t, "attr")
    /\ LET m == Obj(t)  r == srv.role[m]
       IN /\ mn' = [mn EXCEPT ![m] = [lock |-> t, role |-> r, aclh |-> IF r = Null THEN Null ELSE @.aclh,
                                      mtime |-> IF r = Null THEN 0 ELSE srv.mtime[r]]]
          /\ cal' = [cal EXCEPT ![t] = [@ EXCEPT !.pc = IF r = Null THEN "release" ELSE "get",
                                                 !.drop = IF r = Null THEN mn[m].aclh ELSE Null]]
    /\ UNCHANGED <<srv, ent, pool, floor>>

(* An entry is fetched again when the attributes are newer than it, or when   *)
(* it has no ACL and the time after an error has passed. Mutant: its age is   *)
(* not looked at.                                                             *)
NoAcl(e, m, late) == ent[e].acl = Null /\ late
Stale(e, m, late) == mn[m].mtime > ent[e].lut \/ (ent[e].acl = Null /\ late)

FindEntry(r) == {e \in Entries : ent[e].linked /\ ent[e].key = r}

(* mvfs_eaclhash_update_eaclh gives up the old ACL before it asks for a new   *)
(* one; the hash lock stays held.                                             *)
Update(t, e, new) ==
    /\ ent' = [ent EXCEPT ![e] = [new EXCEPT !.acl = Null]]
    /\ pool' = t
    /\ cal' = [cal EXCEPT ![t] = [@ EXCEPT !.pc = "fetch", !.ep = e, !.block = 1]]

(* mvfs_eaclhash_get: a reference to the entry of the role map, found and     *)
(* validated, or new and fetched before it is linked in.                      *)
Get(t) ==
    /\ At(t, "get") /\ pool = Nobody
    /\ LET m == Obj(t)  r == mn[m].role
       IN \/ \E e \in FindEntry(r), late \in BOOLEAN :
                LET held == [ent[e] EXCEPT !.ref = @ + 1]
                IN IF Stale(e, m, late) THEN Update(t, e, held)
                   ELSE /\ ent' = [ent EXCEPT ![e] = held]
                        /\ cal' = [cal EXCEPT ![t] = [@ EXCEPT !.pc = "swap", !.ep = e]]
                        /\ UNCHANGED pool
          \/ /\ FindEntry(r) = {} /\ \E e \in Entries : ~ent[e].live
             /\ LET e == CHOOSE e \in Entries : ~ent[e].live
                IN Update(t, e, [NoEntry EXCEPT !.live = TRUE, !.key = r, !.ref = 1])
          \/ /\ FindEntry(r) = {}
             /\ cal' = [cal EXCEPT ![t].pc = "swap"] /\ UNCHANGED <<ent, pool>>
    /\ UNCHANGED <<srv, mn, floor>>

(* The end of an update, with an ACL or without: the entry is linked in and   *)
(* the hash lock is released.                                                 *)
Updated(t, acl, lut) ==
    /\ ent' = [ent EXCEPT ![cal[t].ep] = [@ EXCEPT !.acl = acl, !.lut = lut, !.linked = TRUE,
                                                   !.policy = ent[cal[t].ep].policy \/ acl # Null]]
    /\ pool' = Nobody
    /\ cal' = [cal EXCEPT ![t] = [@ EXCEPT !.pc = IF Doing(t) = "attr" THEN "swap" ELSE "decide",
                                           !.block = 0, !.ver = 0, !.again = FALSE]]

(* mvfs_clnt_get_eacl_mnp, one block per call: the server refuses to go on    *)
(* with an ACL that has changed, and the first refusal starts again. An error *)
(* leaves no ACL and the time of the error. The blocks so far are already in  *)
(* the entry.                                                                 *)
Fetch(t) ==
    /\ At(t, "fetch")
    /\ LET w == cal[t]  cur == srv.mtime[ent[w.ep].key]
           refused == w.block > 1 /\ cur # w.ver
       IN \/ /\ ~refused /\ w.block < Blocks
             /\ ent' = [ent EXCEPT ![w.ep] = [@ EXCEPT !.acl = cur, !.lut = cur, !.policy = TRUE]]
             /\ cal' = [cal EXCEPT ![t] = [@ EXCEPT !.block = w.block + 1, !.ver = cur]] /\ UNCHANGED pool
          \/ /\ ~refused /\ w.block = Blocks /\ Updated(t, cur, cur)
          \/ /\ refused /\ ~w.again
             /\ ent' = [ent EXCEPT ![w.ep] = [@ EXCEPT !.acl = Null, !.lut = srv.now]]
             /\ cal' = [cal EXCEPT ![t] = [@ EXCEPT !.block = 1, !.ver = 0, !.again = TRUE]]
             /\ UNCHANGED pool
          \/ /\ refused /\ w.again /\ Updated(t, Null, srv.now)
          \/ Updated(t, Null, srv.now)
    /\ UNCHANGED <<srv, mn, floor>>

(* mvfs_acl_cache keeps the entry it got; the old one, or the second          *)
(* reference to the same one, is given back. Mutant: it is kept.              *)
KeepBoth(old, ep) == IF old = ep THEN Null ELSE old
Dropped(old, ep) == IF old = ep THEN ep ELSE old

Swap(t) ==
    /\ At(t, "swap")
    /\ LET m == Obj(t)
       IN /\ cal' = [cal EXCEPT ![t] = [@ EXCEPT !.pc = "release", !.ep = Null,
                                                 !.drop = Dropped(mn[m].aclh, cal[t].ep)]]
          /\ mn' = [mn EXCEPT ![m].aclh = cal[t].ep]
    /\ UNCHANGED <<srv, ent, pool, floor>>

(* mvfs_eaclhash_release: the last reference unlinks and frees the entry.     *)
Release(t) ==
    /\ At(t, "release") /\ (cal[t].drop # Null => pool = Nobody)
    /\ LET e == cal[t].drop
       IN ent' = IF e = Null THEN ent
                 ELSE IF ent[e].ref = 1 THEN [ent EXCEPT ![e] = NoEntry]
                 ELSE [ent EXCEPT ![e].ref = @ - 1]
    /\ mn' = Unlocked(t) /\ cal' = Done(t)
    /\ UNCHANGED <<srv, pool, floor>>

(* mvfs_acl_uncache, when the mnode is freed.                                 *)
Uncache(t) ==
    /\ Ready(t, "free")
    /\ mn' = [mn EXCEPT ![Obj(t)] = [lock |-> t, role |-> Null, mtime |-> 0, aclh |-> Null]]
    /\ cal' = [cal EXCEPT ![t] = [@ EXCEPT !.pc = "release", !.drop = mn[Obj(t)].aclh]]
    /\ UNCHANGED <<srv, ent, pool, floor>>

-----------------------------------------------------------------------------
(* mvfs_chkaccess_acl: without a role map the mode bits decide; the entry is  *)
(* validated under the hash lock and read after it is released.               *)
Check(t) ==
    /\ Ready(t, "check")
    /\ LET m == Obj(t)
       IN /\ mn' = [mn EXCEPT ![m].lock = t]
          /\ cal' = [cal EXCEPT ![t] =
                        [@ EXCEPT !.pc = IF mn[m].role = Null \/ mn[m].aclh = Null THEN "answer" ELSE "valid",
                                  !.ep = mn[m].aclh,
                                  !.floor = IF mn[m].role = Null THEN 0 ELSE floor[mn[m].role]]]
    /\ UNCHANGED <<srv, ent, pool, floor>>

Validate(t) ==
    /\ At(t, "valid") /\ pool = Nobody
    /\ LET e == cal[t].ep
       IN \E late \in BOOLEAN :
             IF Stale(e, Obj(t), late) THEN Update(t, e, ent[e])
             ELSE cal' = [cal EXCEPT ![t].pc = "decide"] /\ UNCHANGED <<ent, pool>>
    /\ UNCHANGED <<srv, mn, floor>>

(* The ACL decides; without one access is denied.                             *)
Decide(t) ==
    /\ At(t, "decide")
    /\ cal' = [cal EXCEPT ![t] = [@ EXCEPT !.pc = "answer", !.used = ent[cal[t].ep].acl]]
    /\ UNCHANGED <<srv, mn, ent, pool, floor>>

Answer(t) ==
    /\ At(t, "answer")
    /\ mn' = Unlocked(t) /\ cal' = Done(t)
    /\ UNCHANGED <<srv, ent, pool, floor>>

(* mvfs_acl_inval_oid, chain by chain: an entry of the role map, or with the  *)
(* policy (both role maps have the same one), is as good as never fetched.    *)
Matches(e, what) == IF what = Policy THEN ent[e].policy ELSE ent[e].key = what

Inval(t) ==
    /\ At(t, "idle") /\ Doing(t) = "inval" /\ pool = Nobody
    /\ LET s == cal[t].slot
           hit == {e \in FindEntry(s) : Matches(e, Obj(t))}
       IN /\ ent' = [e \in Entries |-> IF e \in hit THEN [ent[e] EXCEPT !.lut = 0] ELSE ent[e]]
          /\ floor' = [floor EXCEPT ![s] = IF Obj(t) \in {s, Policy} THEN srv.mtime[s] ELSE @]
          /\ cal' = IF s = 2 THEN Done(t) ELSE [cal EXCEPT ![t].slot = s + 1]
    /\ UNCHANGED <<srv, mn, pool>>

EaclStep(t) ==
    \/ Attr(t) \/ Get(t) \/ Fetch(t) \/ Swap(t) \/ Release(t) \/ Uncache(t)
    \/ Check(t) \/ Validate(t) \/ Decide(t) \/ Answer(t) \/ Inval(t)

Returned == (\A t \in Callers : cal[t].ops = << >>) /\ UNCHANGED eaVars

Next ==
    \/ Returned
    \/ \E t \in Callers : EaclStep(t)
    \/ \E r \in Roles : Change(r)
    \/ \E m \in Mnodes : Move(m)

Spec == Init /\ [][Next]_eaVars

-----------------------------------------------------------------------------
(* The references of an entry are those of the mnodes and of the operations   *)
(* under way; a role map has one entry, and an mnode that nobody is changing  *)
(* holds the entry of its own role map (lines 664-679, 927-934).              *)
EntriesSound ==
    /\ \A e \in Entries :
          LET holders == {m \in Mnodes : mn[m].aclh = e}
              using == {t \in Callers : cal[t].ep = e /\ Doing(t) = "attr"}
              giving == {t \in Callers : cal[t].drop = e}
          IN ent[e].ref = Cardinality(holders) + Cardinality(using) + Cardinality(giving)
    /\ \A d, e \in Entries : ent[d].live /\ ent[e].live /\ ent[d].key = ent[e].key => d = e
    /\ \A m \in Mnodes : mn[m].lock = Nobody /\ mn[m].aclh # Null =>
          ent[mn[m].aclh].linked /\ ent[mn[m].aclh].key = mn[m].role

(* An access is never decided by an ACL older than the attributes of the      *)
(* object, nor by one that was invalidated before the check began (lines      *)
(* 738, 1218).                                                                *)
FreshAcl ==
    \A t \in Callers : At(t, "answer") /\ cal[t].used # Null =>
        cal[t].used >= cal[t].floor /\ cal[t].used >= mn[Obj(t)].mtime
=============================================================================
