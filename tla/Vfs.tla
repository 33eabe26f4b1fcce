-------------------------------- MODULE Vfs ---------------------------------
(***************************************************************************)
(* The mounts of mvfs (mvfs_vfsops.c): the first mount, which must be the  *)
(* view root, initialises every subsystem, each VOB mount takes a pair of  *)
(* minor device numbers, and the last unmount frees the subsystems again.  *)
(* A mount runs under mfs_unload_lock and the mount lock, and nobody sees  *)
(* it before it is complete: it is one step, with the place where it fails *)
(* as an input.  sys is the state of the module.                           *)
(***************************************************************************)
EXTENDS Integers, Sequences, FiniteSets, TLC

CONSTANTS
  Null,
  RootVfs, Vobs,     \* the vfs of the view root, and of the VOBs
  Paths,             \* mount paths
  Faults             \* where a mount may fail: a subsystem or an allocation; or "none"

VARIABLES sys, work  \* work.minors is the size of the minor map, the last two the fixed pair

Vfss == Vobs \cup {RootVfs}
\* In the order of mvfs_misc_init.
Subs == <<"mdep", "minormap", "vobmount", "util", "mnode", "proc", "audit", "view", "dnc", "clnt", "acl", "cred">>
SubIds == DOMAIN Subs
Minors == 0..(work.minors - 1)
FixedPair == {work.minors - 2, work.minors - 1}

SubNo(f) == IF \E i \in SubIds : Subs[i] = f THEN CHOOSE i \in SubIds : Subs[i] = f ELSE 0

ASSUME VfsAssumption ==
  Faults \subseteq {Subs[i] : i \in SubIds} \cup {"none", "mmi", "copyin", "devnum", "rootnode", "specdev"}

\* Null is neither a vfs nor the record of a mount.
ASSUME MountsAssumption ==
  RootVfs \notin Vobs /\ Null \notin Vfss /\ Null \notin [path : Paths \cup {Null}, minor : Int, nv : Int]

-----------------------------------------------------------------------------
(* Minor device numbers.                                                    *)
Least(S) == CHOOSE n \in S : \A k \in S : n <= k
GetNum(used) == IF Minors \subseteq used THEN -1 ELSE Least(Minors \ used)
GetPair(used) == IF FixedPair \cap used = {} THEN Least(FixedPair) ELSE -1
PutNum(used, m) == used \ {m.minor, m.nv}

\* The minors of a mount, -1 where none is left; the view root has one only.
Numbers(s, r) ==
  IF r.type = "view" THEN [minor |-> GetNum(s.minors), nv |-> -1]
  ELSE IF r.fixed THEN [minor |-> GetPair(s.minors), nv |-> IF GetPair(s.minors) = -1 THEN -1 ELSE GetPair(s.minors) + 1]
  ELSE LET n == GetNum(s.minors) IN [minor |-> n, nv |-> GetNum(s.minors \cup {n})]

-----------------------------------------------------------------------------
(* Initialisation of the subsystems.                                        *)
\* What the labels of mvfs_misc_init free when subsystem k fails, and what the
\* failing mvfs_vobmount_init has freed already.
Unwound(k) == 1..(k - 1)
FreedBefore(k) == IF Subs[k] = "vobmount" THEN {2} ELSE {}
MiscInit(s, k) ==
  LET up == IF k = 0 THEN SubIds ELSE 1..(k - 1)
      down == IF k = 0 THEN {} ELSE Unwound(k)
      twice == IF k = 0 THEN {} ELSE FreedBefore(k)
      N(S, i) == IF i \in S THEN 1 ELSE 0
  IN [s EXCEPT !.subs = [i \in SubIds |-> @[i] + N(up, i) - N(down, i) - N(twice, i)]]
MiscFree(s) == [s EXCEPT !.subs = [i \in SubIds |-> @[i] - 1], !.minors = {}]

\* mfs_findvfs_mntpath, mfs_findvfs_cookie: the mounted VOBs.
FindPath(s, p) == {v \in Vobs : s.mnt[v] # Null /\ s.mnt[v].path = p}
FindVfs(s) == {s.tbl[n] : n \in Minors} \ {Null}

-----------------------------------------------------------------------------
(* mfs_vmount_subr.                                                         *)
Refused(s, r) == \/ r.type = "view" /\ s.root # Null
                 \/ r.type = "vob" /\ (s.root = Null \/ FindPath(s, r.path) # {})

\* A string of the request that cannot be copied in, or no memory: nothing is taken yet.
Early(s, r, f) == f \in {"mmi", "copyin"} \/ (r.type = "view" /\ Refused(s, r))

Mounted(s, v, r, m) == [s EXCEPT !.mnt[v] = [path |-> r.path, minor |-> m.minor, nv |-> m.nv],
                                 !.count = @ + 1, !.state = "complete"]
RootDone(s, v, r, m) == [Mounted(s, v, r, m) EXCEPT !.root = v]
VobDone(s, v, r, m) == [Mounted(s, v, r, m) EXCEPT !.tbl[m.minor] = v]
\* The error path: the mount info is freed; with nothing mounted, so is everything.
\* With its .specdev missing the view root has been recorded by then.
MountFailed(s, v, m, f) ==
  LET t == [s EXCEPT !.minors = PutNum(@, m), !.root = IF f = "specdev" THEN v ELSE @]
  IN IF s.count = 0 THEN [MiscFree(t) EXCEPT !.state = "phase1"] ELSE t

MountOutcome(s, v, r, f) ==
  LET first == s.count = 0
      s1 == IF first THEN MiscInit(s, SubNo(f)) ELSE s
      early == Early(s1, r, f)
      m == IF early THEN [minor |-> -1, nv |-> -1] ELSE Numbers(s1, r)
      s2 == [s1 EXCEPT !.minors = @ \cup ({m.minor, m.nv} \ {-1})]
      short == r.type = "vob" /\ m.nv = -1
  IN IF first /\ r.type # "view" THEN s                       \* EIO: the view root comes first
     ELSE IF first /\ SubNo(f) # 0 THEN s1
     ELSE IF early \/ short \/ Refused(s1, r) \/ f # "none" THEN MountFailed(s2, v, m, f)
     ELSE IF r.type = "view" THEN RootDone(s2, v, r, m) ELSE VobDone(s2, v, r, m)

Requests == [type : {"view"}, path : {Null}, fixed : {FALSE}] \cup [type : {"vob"}, path : Paths, fixed : BOOLEAN]
Mount(v, r, f) ==
  /\ sys.state # "none" /\ sys.mnt[v] = Null
  /\ (r.type = "view") = (v = RootVfs)
  /\ SubNo(f) # 0 => sys.count = 0
  /\ f = "specdev" => r.type = "view"
  /\ sys' = MountOutcome(sys, v, r, f)

\* The end of mfs_vunmount; the generation number keeps caches from mistaking a reused minor.
Unmounted(s, v) ==
  LET m == s.mnt[v]
      t == [s EXCEPT !.minors = PutNum(@, m), !.mnt[v] = Null, !.gen = @ + 1, !.count = @ - 1,
                     !.root = IF v = @ THEN Null ELSE @,
                     !.tbl = IF v \in Vobs THEN [@ EXCEPT ![m.minor] = Null] ELSE @]
  IN IF t.count = 0 THEN [MiscFree(t) EXCEPT !.state = "phase1"] ELSE t

\* mfs_unload: only between the last unmount and the next mount.
Unload == sys.state = "phase1" /\ sys.count = 0 /\ sys' = [sys EXCEPT !.state = "none"]

NoMounts == [state |-> "phase1", subs |-> [i \in SubIds |-> 0], count |-> 0, gen |-> 0, minors |-> {},
             mnt |-> [v \in Vfss |-> Null], tbl |-> [n \in Minors |-> Null], root |-> Null]

-----------------------------------------------------------------------------
Live == {v \in Vfss : sys.mnt[v] # Null}
NumbersOf(v) == {sys.mnt[v].minor, sys.mnt[v].nv} \ {-1}

\* After every mount and unmount, failed or not: each minor in use belongs to one
\* mount, the table and the record of the view root name the mounts that exist, and
\* each subsystem is up exactly while something is mounted (mfs_vmount_subr,
\* mfs_vunmount, mvfs_misc_init).
MountsSound ==
  /\ sys.minors = UNION {NumbersOf(v) : v \in Live}
  /\ \A v, w \in Live : v # w => NumbersOf(v) \cap NumbersOf(w) = {}
  /\ \A n \in Minors : (sys.tbl[n] # Null) => sys.tbl[n] \in Live /\ sys.mnt[sys.tbl[n]].minor = n
  /\ FindVfs(sys) = Live \ {RootVfs} /\ sys.count = Cardinality(Live)
  /\ (sys.root # Null) = (RootVfs \in Live)
  /\ sys.subs = [i \in SubIds |-> IF Live = {} THEN 0 ELSE 1]
  /\ (sys.state = "complete") = (Live # {})
=============================================================================
