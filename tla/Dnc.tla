--------------------------------- MODULE Dnc ---------------------------------
(***************************************************************************)
(* The directory name cache (mvfs_dncops.c) as the client operations       *)
(* (mvfs_clnt.c) and the invalidations (mvfs_mioctl.c) use it, against a   *)
(* view server that other hosts change too.                                *)
(*                                                                         *)
(* A step is what runs under one hold of a chain lock and an LRU lock, or  *)
(* one pass under the write lock of the cache; the read lock is held from  *)
(* a step of an add or a flush to the next where ReadLocked says so.  An   *)
(* entry that is being released or filled is in transit: it is on no list. *)
(*                                                                         *)
(* No caller in this tree adds case-insensitive translations, so they are  *)
(* left out.  The hash table is one list: only dnc_hash tells chains apart.*)
(***************************************************************************)
EXTENDS Integers, Sequences, SequencesExt, FiniteSets

CONSTANTS
  Threads, Null,
  Dirs,        \* directories
  Names,       \* names in directories
  Root,        \* the entry for the root version of the VOB (RVC)
  DirOf,       \* the directory of a name
  Removal,     \* the names dncremove removes: the name and its history-mode form
  Up,          \* names that stand for a parent directory ("..")
  HashOf,      \* the chain of a name
  Answers,     \* what the view server may answer: object and event time
  Enoent,      \* the answer that there is no such object
  Kind,        \* the partition an answer belongs to: "dir", "reg" or "noent"
  FidOf,       \* the object of an answer
  Bhs, NullBh, \* build handles
  RefTime,     \* <<handle, answer>> where the answer is older than the handle's reference time
  BhMax,       \* MFS_DNCBHMAX
  Ents,        \* the entries of the table, as numbers
  Homes,       \* ways to partition the table: [Ents -> kinds]
  Workloads,   \* operations that happen together, and the names they are about
  MaxClock, MaxGen   \* bounds: changes of the VOB, reloads of a directory

Keys == Names \cup {Root}
Kinds == {"dir", "reg", "noent"}

ASSUME DncAssumption ==
  /\ Null \notin Threads \cup Ents /\ Root \notin Names /\ Ents = 1 .. Cardinality(Ents)
  /\ DirOf \in [Names -> Dirs] /\ Removal \in [Names -> Seq(Names)] /\ Up \subseteq Names
  /\ Kind \in [Answers -> Kinds] /\ Enoent \in Answers /\ NullBh \in Bhs
  /\ RefTime \subseteq Bhs \X Answers /\ BhMax \in Nat \ {0}
  /\ Homes \subseteq [Ents -> Kinds]
  /\ MaxClock \in Nat /\ MaxGen \in Nat
  /\ \A w \in Workloads : w.keys \subseteq Keys

VARIABLES
  srv,     \* the view server: the answer for each name, and whether ENOENT means "not in the dir"
  clock,   \* changes of the VOB
  changed, \* when each name was changed last
  attr,    \* the attributes of each directory here: valid, mtime
  gen,     \* mn_hdr.dncgen of each directory
  loaded,  \* directories that have an mnode
  mlock,   \* owner of the lock of each directory
  ent,     \* the entries: mfs_dnc[]
  chain,   \* the entries that are hashed, latest first
  home,    \* lruhead of each entry: its partition
  lru,     \* the LRU list of each partition
  other,   \* mvfs_dnc_noent_other
  todo,    \* the steps each thread still has to do
  loc,     \* local variables of each thread
  known,   \* the time up to which this host was told of changes of a name
  work     \* the workload

vars == <<srv, clock, changed, attr, gen, loaded, mlock, ent, chain, home, lru, other, todo, loc, known, work>>
cachevars == <<ent, chain, home, lru, other>>
envvars == <<srv, clock, changed, attr, gen, loaded, known>>

\* bh and nullbh are the handles the answer is valid for, bhat when the server gave it for each.
Blank == [used |-> FALSE, trans |-> FALSE, inval |-> FALSE, key |-> Null, ans |-> Enoent,
          notindir |-> FALSE, gen |-> 0, bh |-> <<>>, nullbh |-> FALSE,
          bhat |-> [b \in Bhs |-> 0]]
NoLoc == [k |-> Null, b |-> NullBh, ans |-> Enoent, notindir |-> FALSE, inv |-> FALSE, at |-> 0,
          mt |-> 0, gen |-> 0, e |-> Null, lh |-> -1, safe |-> FALSE, told |-> <<>>, low |-> 0,
          old |-> {}]

\* mvfs_dnclist_init: every entry free, on the list of its partition
FreeLists(h) == [p \in Kinds |-> SelectSeq([i \in Ents |-> i], LAMBDA e : h[e] = p)]

Init ==
  /\ srv = [k \in Keys |-> [ans |-> Enoent, notindir |-> k # Root]]
  /\ clock = 0 /\ changed = [k \in Keys |-> 0]
  /\ attr = [d \in Dirs |-> [valid |-> TRUE, mtime |-> 0]]
  /\ gen = [d \in Dirs |-> 0] /\ loaded = Dirs /\ mlock = [d \in Dirs |-> Null]
  /\ ent = [e \in Ents |-> Blank] /\ chain = <<>> /\ other = 0
  /\ home \in Homes /\ lru = FreeLists(home)
  /\ todo = [t \in Threads |-> <<>>] /\ loc = [t \in Threads |-> NoLoc]
  /\ known = [k \in Names |-> 0] /\ work \in Workloads

-----------------------------------------------------------------------------
Do(step, x) == [do |-> step, x |-> x]
At(t, step) == todo[t] # <<>> /\ Head(todo[t]).do = step
Arg(t) == Head(todo[t]).x
Idle(t) == todo[t] = <<>>
Dir(t) == DirOf[loc[t].k]

\* Thread t has the steps left, and l as its local variables as long as there are any.  An entry
\* that leaves the chain is none of those a flush has still to find.
Leaving(t, steps, l, gone) ==
  /\ todo' = [todo EXCEPT ![t] = steps]
  /\ loc' = [u \in Threads |->
               IF u = t /\ steps = <<>> THEN NoLoc
               ELSE [(IF u = t THEN l ELSE loc[u]) EXCEPT !.old = @ \ gone]]
  /\ UNCHANGED work
Begin(t, steps, l) == Idle(t) /\ Leaving(t, steps, l, {})
Continue(t, steps) == Leaving(t, steps \o Tail(todo[t]), loc[t], {})

\* The steps between which mvfs_dnc_rwlock is held for reading
ReadLocked(t) == At(t, "lru") \/ At(t, "take") \/ (At(t, "flush") /\ Arg(t) > 1)
WriteLockable == \A t \in Threads : ~ReadLocked(t)

\* mfs_dncfind, for a case-sensitive search: the first entry on the chain
Found(k) == SelectSeq(chain, LAMBDA e : ent[e].key = k)
Find(k) == IF Found(k) = <<>> THEN Null ELSE Head(Found(k))

Hash(e) == IF e \in Range(chain) THEN HashOf[ent[e].key] ELSE -1
Unhash(e) == SelectSeq(chain, LAMBDA x : x # e)
Unlist(e) == [lru EXCEPT ![home[e]] = SelectSeq(@, LAMBDA x : x # e)]
\* NC_INSLRU_LOCKED at either end; the head is used first.
AtHead(e) == [lru EXCEPT ![home[e]] = <<e>> \o @]
AtTail(l, e) == [l EXCEPT ![home[e]] = Append(@, e)]
\* The modification time of a directory, at the view server
Smtime(d) == Max({changed[k] : k \in {n \in Names : DirOf[n] = d}})
GenOf(k) == IF k = Root THEN 0 ELSE gen[DirOf[k]]

\* An ENOENT entry that a change of another object may refute
Counted(x) == x.ans = Enoent /\ ~x.notindir
\* mfs_dncrele and the end of the transit; what else is left in the entry is never looked at.
Release(x) == Blank

-----------------------------------------------------------------------------
(* Build handles.                                                          *)

\* mfs_dncbhset
BhSet(x, b, at) ==
  [x EXCEPT !.nullbh = (b = NullBh), !.bh = IF b = NullBh THEN <<>> ELSE <<b>>,
            !.bhat = [c \in Bhs |-> IF c = b THEN at ELSE 0]]
\* mfs_dncbhadd: the handles are a ring of BhMax.
BhAdd(x, b, at) ==
  [x EXCEPT !.bhat = [@ EXCEPT ![b] = at],
            !.nullbh = @ \/ b = NullBh,
            !.bh = IF b = NullBh THEN @ ELSE
                   IF Len(@) < BhMax THEN Append(@, b) ELSE Append(Tail(@), b)]
\* mfs_dnc_nullbhcheck
NullBhCheck(x, b) == x.nullbh /\ <<b, x.ans>> \in RefTime
\* mfs_dncbhcheck
BhCheck(x, b) == IF b = NullBh THEN x.nullbh ELSE b \in Range(x.bh)
\* When the server gave the answer that is used for b.
AnsweredAt(x, b) == IF NullBhCheck(x, b) THEN x.bhat[NullBh] ELSE x.bhat[b]
Invariantly(x, inv, at) ==
  IF inv THEN [x EXCEPT !.nullbh = TRUE, !.bhat = [@ EXCEPT ![NullBh] = at]] ELSE x

-----------------------------------------------------------------------------
(* Leaving and entering the lists.                                         *)

\* An entry is unlinked and in transit; gone is what a flush need not find any more.
Unlink(t, e, steps, l) ==
  /\ chain' = Unhash(e) /\ lru' = Unlist(e)
  /\ ent' = [ent EXCEPT ![e].trans = TRUE]
  /\ other' = IF e \in Range(chain) /\ Counted(ent[e]) THEN other - 1 ELSE other
  /\ Leaving(t, steps, [l EXCEPT !.e = e], {e})
  /\ UNCHANGED <<home, mlock, envvars>>

\* It is released and put back for reuse.
PutBack(t, steps) ==
  LET e == loc[t].e IN
  /\ ent' = [ent EXCEPT ![e] = Release(@)] /\ lru' = AtHead(e)
  /\ Leaving(t, steps, [loc[t] EXCEPT !.e = Null], {})
  /\ UNCHANGED <<chain, home, other, mlock, envvars>>

-----------------------------------------------------------------------------
(* mvfs_dncadd_subr                                                        *)

\* Mutant: an entry that was invalid keeps its build handles.
RevalidatedOnly(x, l) ==
  LET z == Invariantly([x EXCEPT !.inval = FALSE, !.notindir = l.notindir, !.gen = GenOf(l.k)],
                       l.inv, l.at)
  IN  IF NullBhCheck(z, l.b) \/ BhCheck(z, l.b) THEN z ELSE BhAdd(z, l.b, l.at)

\* The entry has the same answer already.
Revalidated(x, l) ==
  LET y == IF x.inval THEN [BhSet(x, l.b, l.at) EXCEPT !.gen = GenOf(l.k)] ELSE x
      z == Invariantly([y EXCEPT !.inval = FALSE, !.notindir = l.notindir], l.inv, l.at)
  IN  IF NullBhCheck(z, l.b) \/ BhCheck(z, l.b) THEN z ELSE BhAdd(z, l.b, l.at)

AddFind(t) ==
  LET l == loc[t]
      e == Find(l.k)
  IN  /\ At(t, "add")
      /\ \/ /\ e # Null /\ ent[e].ans = l.ans
            /\ ent' = [ent EXCEPT ![e] = Revalidated(@, l)]
            /\ Leaving(t, Tail(todo[t]), [NoLoc EXCEPT !.k = l.k, !.told = l.told], {})
            /\ UNCHANGED <<chain, home, lru, other, mlock, envvars>>
         \/ /\ e # Null /\ ent[e].ans # l.ans
            /\ Unlink(t, e, <<Do("addrele", Null)>> \o Tail(todo[t]), l)
         \/ /\ e = Null
            /\ Continue(t, <<Do("lru", Null)>>)
            /\ UNCHANGED <<cachevars, mlock, envvars>>

AddRele(t) == At(t, "addrele") /\ PutBack(t, <<Do("lru", Null)>> \o Tail(todo[t]))

\* The head of the list is read without a lock.
AddLru(t) ==
  LET l == lru[Kind[loc[t].ans]] IN
  /\ At(t, "lru")
  /\ IF l = <<>> THEN Continue(t, <<>>)
     ELSE Leaving(t, <<Do("take", Null)>> \o Tail(todo[t]),
                  [loc[t] EXCEPT !.e = Head(l), !.lh = Hash(Head(l))], {})
  /\ UNCHANGED <<cachevars, mlock, envvars>>

\* Mutant: what changed since the head was read is not looked at.
StillFirstUnchecked(e, lh) == TRUE
\* The checks under the locks: the entry is still the first, on the chain that was locked.
\* An entry that was on no chain (lh = -1) is taken although it may be on one by now, without
\* the lock of that chain (NC_HASH_LOCK, mvfs_dnc.h 109); taking it off is one step here.
StillFirst(e, lh) ==
  /\ ~ent[e].trans /\ lru[home[e]] # <<>> /\ Head(lru[home[e]]) = e
  /\ lh = -1 \/ Hash(e) = lh

AddTake(t) ==
  LET e == loc[t].e IN
  /\ At(t, "take")
  /\ \/ /\ ~StillFirst(e, loc[t].lh)
        /\ Leaving(t, <<Do("lru", Null)>> \o Tail(todo[t]), [loc[t] EXCEPT !.e = Null, !.lh = -1], {})
        /\ UNCHANGED <<cachevars, mlock, envvars>>
     \/ StillFirst(e, loc[t].lh)
        /\ Unlink(t, e, <<Do("fill", Null)>> \o Tail(todo[t]), [loc[t] EXCEPT !.lh = -1])

\* The entry as the add leaves it.
Added(l) ==
  Invariantly(BhSet([Blank EXCEPT !.used = TRUE, !.key = l.k, !.ans = l.ans, !.gen = GenOf(l.k),
                                  !.notindir = l.notindir], l.b, l.at), l.inv, l.at)

AddFill(t) ==
  LET e == loc[t].e IN
  /\ At(t, "fill")
  /\ ent' = [ent EXCEPT ![e] = Added(loc[t])]
  /\ lru' = AtTail(lru, e) /\ chain' = <<e>> \o chain
  /\ other' = IF Counted(ent'[e]) THEN other + 1 ELSE other
  /\ Leaving(t, Tail(todo[t]), [NoLoc EXCEPT !.k = loc[t].k, !.told = loc[t].told], {})
  /\ UNCHANGED <<home, mlock, envvars>>

-----------------------------------------------------------------------------
(* mfs_dncremove                                                           *)

Removals(k) == [i \in DOMAIN Removal[k] |-> Do("rm", Removal[k][i])]

\* mfs_dncremove_one
RmOne(t) ==
  LET e == Find(Arg(t)) IN
  /\ At(t, "rm")
  /\ \/ /\ e # Null
        /\ Unlink(t, e, <<Do("rmrvc", Null), Do("rmput", Null)>> \o Tail(todo[t]),
                  [loc[t] EXCEPT !.safe = @ \/ Arg(t) = Head(Removal[loc[t].k])])
     \/ e = Null /\ Continue(t, <<>>) /\ UNCHANGED <<cachevars, mlock, envvars>>

\* The root version goes too if the name stood for it.
RmRvc(t) ==
  LET e == loc[t].e
      r == Find(Root)
  IN  /\ At(t, "rmrvc")
      /\ ent' = IF home[e] = "dir" /\ r # Null /\ FidOf[ent[r].ans] = FidOf[ent[e].ans]
                THEN [ent EXCEPT ![r].inval = TRUE, ![r].nullbh = FALSE] ELSE ent
      /\ Continue(t, <<>>)
      /\ UNCHANGED <<chain, home, lru, other, mlock, envvars>>

RmPut(t) == At(t, "rmput") /\ PutBack(t, Tail(todo[t]))
-----------------------------------------------------------------------------
(* Invalidations: one pass over the table under the write lock.  Entries   *)
(* in transit are skipped.                                                 *)

InUse == {e \in Ents : ent[e].used /\ ~ent[e].trans}
Invalidated(hit) ==
  [e \in Ents |-> IF e \in hit THEN [ent[e] EXCEPT !.inval = TRUE, !.nullbh = FALSE] ELSE ent[e]]
Pass(t, hit, steps) ==
  /\ WriteLockable /\ ent' = Invalidated(hit)
  /\ Leaving(t, steps, loc[t], {})
  /\ UNCHANGED <<chain, home, lru, other, mlock, envvars>>

\* Translations in the directory, and to the object
Concerns(x, o) == (x.key # Root /\ DirOf[x.key] = o) \/ FidOf[x.ans] = o
\* mfs_dnc_invalvp
InvalVp(t) == At(t, "invalvp") /\ Pass(t, {e \in InUse : Concerns(ent[e], Arg(t))}, Tail(todo[t]))
\* mfs_dnc_inval_obj_not_found; the count is read first.
InvalNotFound(t) ==
  /\ At(t, "notfound")
  /\ IF other = 0 THEN Continue(t, <<>>) /\ UNCHANGED <<cachevars, mlock, envvars>>
     ELSE Pass(t, {e \in InUse : Counted(ent[e])}, Tail(todo[t]))
\* mvfs_rvcflush, which an invalidation of a name that was not found needs
RvcFlush(t) ==
  /\ At(t, "rvcflush")
  /\ IF loc[t].safe THEN Continue(t, <<>>) /\ UNCHANGED <<cachevars, mlock, envvars>>
     ELSE Pass(t, {e \in InUse : ent[e].key = Root}, Tail(todo[t]))
\* mfs_dnc_invalvw
InvalVw(t) == "invalvw" \in work.ops /\ Idle(t) /\ Pass(t, InUse, <<>>)

-----------------------------------------------------------------------------
(* mfs_dnclookup and mvfs_rvclookup                                        *)

StartLookup(t, k, b) ==
  /\ k \in Names => DirOf[k] \in loaded
  /\ "lookup" \in work.ops
  /\ Begin(t, <<Do("find", Null)>>,
           [NoLoc EXCEPT !.k = k, !.b = b, !.low = IF k = Root THEN 0 ELSE known[k]])
  /\ UNCHANGED <<cachevars, mlock, envvars>>

\* mvfs_dnclookup_subr, with what the lookup copies under the lock of the chain
Usable(x, b) == ~x.inval /\ (NullBhCheck(x, b) \/ BhCheck(x, b))
LookupFind(t) ==
  LET l == loc[t]
      e == Find(l.k)
  IN  /\ At(t, "find")
      /\ \/ /\ e # Null /\ Usable(ent[e], l.b)
            /\ lru' = AtTail(Unlist(e), e)
            /\ Leaving(t, <<Do("check", Null)>>,
                 [l EXCEPT !.ans = ent[e].ans, !.notindir = ent[e].notindir, !.gen = ent[e].gen,
                           !.at = AnsweredAt(ent[e], l.b)], {})
            /\ UNCHANGED <<ent, chain, home, other, mlock, envvars>>
         \/ /\ ~(e # Null /\ Usable(ent[e], l.b))
            /\ Leaving(t, <<>>, l, {})
            /\ UNCHANGED <<cachevars, mlock, envvars>>

SameGen(l) == l.gen = GenOf(l.k)
\* The entry may be of an earlier life of the directory; an ENOENT may have timed out; the vnode
\* may be unavailable or its event time another.  A root version times out.
LookupCheck(t) ==
  LET l == loc[t]
      Fix(steps) == <<Do("lock", "none")>> \o steps \o <<Do("unlock", Null)>>
  IN  /\ At(t, "check")
      /\ \/ SameGen(l) /\ Leaving(t, <<Do("hit", Null)>>, l, {})
         \/ ~SameGen(l) /\ Leaving(t, Fix(<<Do("invalvp", Dir(t))>>), [NoLoc EXCEPT !.k = l.k], {})
         \/ /\ SameGen(l) /\ l.k # Root /\ ~(l.ans = Enoent /\ l.notindir)
            /\ Leaving(t, Fix(Removals(l.k)), [NoLoc EXCEPT !.k = l.k], {})
         \/ l.k = Root /\ Leaving(t, <<>>, l, {})
      /\ UNCHANGED <<cachevars, mlock, envvars>>

LookupHit(t) == At(t, "hit") /\ Continue(t, <<>>) /\ UNCHANGED <<cachevars, mlock, envvars>>

-----------------------------------------------------------------------------
(* The lock of a directory, and the client operations.                     *)

Changes(d) == [n \in {m \in Names : DirOf[m] = d} |-> changed[n]]
Later(k, at) == IF at > known[k] THEN at ELSE known[k]

\* MLOCK, perhaps followed by MFS_ATTRINVAL
Lock(t) ==
  /\ At(t, "lock") /\ mlock[Dir(t)] = Null
  /\ mlock' = [mlock EXCEPT ![Dir(t)] = t]
  /\ attr' = IF Arg(t) = "attrinval" THEN [attr EXCEPT ![Dir(t)].valid = FALSE] ELSE attr
  /\ Continue(t, <<>>)
  /\ UNCHANGED <<cachevars, srv, clock, changed, gen, loaded, known>>

\* MUNLOCK; what the operation was about is now known here.
Unlock(t) ==
  /\ At(t, "unlock") /\ mlock' = [mlock EXCEPT ![Dir(t)] = Null]
  /\ known' = [k \in Names |-> IF k \in DOMAIN loc[t].told THEN Later(k, loc[t].told[k]) ELSE known[k]]
  /\ Leaving(t, Tail(todo[t]), [loc[t] EXCEPT !.told = <<>>], {})
  /\ UNCHANGED <<cachevars, srv, clock, changed, attr, gen, loaded>>

\* mfs_clnt_lookup: the directory stays locked over the call.
StartFill(t, k, b) ==
  /\ "fill" \in work.ops /\ DirOf[k] \in loaded
  /\ Begin(t, <<Do("lock", "none"), Do("ask", Null)>>, [NoLoc EXCEPT !.k = k, !.b = b])
  /\ UNCHANGED <<cachevars, mlock, envvars>>

\* The answer of the view server.  For ".." the lock is given up while the parent's vnode is made.
Ask(t) ==
  LET l == loc[t] IN
  /\ At(t, "ask")
  /\ \E inv \in BOOLEAN :
       Leaving(t, IF l.k \in Up /\ srv[l.k].ans # Enoent
                  THEN <<Do("unlock", Null), Do("relock", Null)>>
                  ELSE <<Do("add", Null), Do("unlock", Null)>>,
               [l EXCEPT !.ans = srv[l.k].ans, !.notindir = srv[l.k].notindir, !.inv = inv,
                         !.at = clock, !.mt = attr[Dir(t)].mtime], {})
  /\ UNCHANGED <<cachevars, mlock, envvars>>
AskFails(t) ==
  /\ At(t, "ask") /\ Continue(t, <<Do("unlock", Null)>>)
  /\ UNCHANGED <<cachevars, mlock, envvars>>

\* Mutant: added whatever happened in between
UnchangedIgnored(l) == TRUE
\* No one invalidated the attributes or saw the directory change.
Unchanged(l) == attr[DirOf[l.k]].valid /\ attr[DirOf[l.k]].mtime = l.mt
Relock(t) ==
  /\ At(t, "relock") /\ mlock[Dir(t)] = Null
  /\ mlock' = [mlock EXCEPT ![Dir(t)] = t]
  /\ Leaving(t, (IF Unchanged(loc[t]) THEN <<Do("add", Null)>> ELSE <<>>) \o
                <<Do("unlock", Null)>>, loc[t], {})
  /\ UNCHANGED <<cachevars, envvars>>
\* dir_dtm_valid: nobody else changed the directory since its attributes were fetched.
Expected(d) == attr[d].mtime = Smtime(d)

\* The view server changes a name, for us or for somebody else.
Serve(k, r) ==
  /\ clock < MaxClock /\ clock' = clock + 1
  /\ srv' = [srv EXCEPT ![k] = r]
  /\ changed' = [changed EXCEPT ![k] = clock']

\* mvfs_attrcache, then mfs_ac_modevents: an unexpected change invalidates the directory's names.
\* The operation's own name, or then all of them, are known when it ends.
NewAttrs(t, l, then) ==
  LET d == Dir(t)
      about == IF Expected(d) THEN {l.k} ELSE {n \in Names : DirOf[n] = d}
  IN  /\ attr' = [attr EXCEPT ![d] = [valid |-> TRUE, mtime |-> clock']]
      /\ Leaving(t, (IF Expected(d) THEN <<>> ELSE <<Do("invalvp", d)>>) \o then,
                 [l EXCEPT !.at = clock', !.told = [n \in about |-> changed'[n]]], {})

StartModify(t, k, op) ==
  /\ op \in work.ops /\ Removal[k][1] = k /\ DirOf[k] \in loaded
  /\ Begin(t, <<Do("lock", "none")>> \o
              (IF op = "create" THEN <<Do("create", Null)>>
               ELSE Append(Removals(k), Do("remove", Null))), [NoLoc EXCEPT !.k = k])
  /\ UNCHANGED <<cachevars, mlock, envvars>>

\* mfs_clnt_create, also link, mkdir and symlink: a new translation is cached, for every handle.
Create(t) ==
  LET l == loc[t] IN
  /\ At(t, "create") /\ srv[l.k].ans = Enoent
  /\ \E a \in Answers \ {Enoent} :
       /\ Serve(l.k, [ans |-> a, notindir |-> FALSE])
       /\ NewAttrs(t, [l EXCEPT !.ans = a, !.inv = TRUE],
                   <<Do("add", Null), Do("unlock", Null)>>)
  /\ UNCHANGED <<cachevars, mlock, gen, loaded, known>>
\* The object was created, but mvfs_makevobnode fails.
CreateNoVnode(t) ==
  LET l == loc[t] IN
  /\ At(t, "create") /\ "novnode" \in work.ops /\ srv[l.k].ans = Enoent
  /\ \E a \in Answers \ {Enoent} : Serve(l.k, [ans |-> a, notindir |-> FALSE])
  /\ NewAttrs(t, l, <<Do("unlock", Null)>>)
  /\ UNCHANGED <<cachevars, mlock, gen, loaded, known>>
\* mfs_clnt_remove, also rmdir
RemoveName(t) ==
  LET l == loc[t] IN
  /\ At(t, "remove") /\ srv[l.k].ans # Enoent
  /\ Serve(l.k, [ans |-> Enoent, notindir |-> TRUE])
  /\ NewAttrs(t, l, <<Do("unlock", Null)>>)
  /\ UNCHANGED <<cachevars, mlock, gen, loaded, known>>
\* The call fails, or its answer is lost.
ModifyFails(t) ==
  LET l == loc[t] IN
  /\ At(t, "create") \/ At(t, "remove")
  /\ attr' = IF At(t, "create") THEN [attr EXCEPT ![Dir(t)].valid = FALSE] ELSE attr
  /\ \/ UNCHANGED <<srv, clock, changed>>
     \/ At(t, "remove") /\ srv[l.k].ans # Enoent /\ Serve(l.k, [ans |-> Enoent, notindir |-> TRUE])
     \/ At(t, "create") /\ srv[l.k].ans = Enoent
        /\ \E a \in Answers \ {Enoent} : Serve(l.k, [ans |-> a, notindir |-> FALSE])
  /\ Continue(t, <<Do("unlock", Null)>>)
  /\ UNCHANGED <<cachevars, mlock, gen, loaded, known>>

\* mfs_clnt_getattr: a change of the modification time shows what others did.
StartGetattr(t, k) ==
  /\ "getattr" \in work.ops /\ DirOf[k] \in loaded
  /\ Begin(t, <<Do("lock", "none"), Do("getattr", Null)>>, [NoLoc EXCEPT !.k = k])
  /\ UNCHANGED <<cachevars, mlock, envvars>>
Getattr(t) ==
  LET d == Dir(t) IN
  /\ At(t, "getattr")
  /\ attr' = [attr EXCEPT ![d] = [valid |-> TRUE, mtime |-> Smtime(d)]]
  /\ Leaving(t, (IF Expected(d) THEN <<>> ELSE <<Do("invalvp", d)>>) \o <<Do("unlock", Null)>>,
             [loc[t] EXCEPT !.told = Changes(d)], {})
  /\ UNCHANGED <<cachevars, mlock, srv, clock, changed, gen, loaded, known>>

-----------------------------------------------------------------------------
(* mvfs_do_inval: the view server reports changes.                         *)

\* MVFS_INV_NC.  A directory that has no mnode is not found.
StartInval(t, k) ==
  /\ "inval" \in work.ops /\ Removal[k][1] = k
  /\ \/ /\ DirOf[k] \in loaded
        /\ Begin(t, <<Do("lock", "attrinval")>> \o Removals(k) \o
                    <<Do("unlock", Null), Do("rvcflush", Null)>>,
                 [NoLoc EXCEPT !.k = k, !.told = [m \in {k} |-> changed[m]]])
        /\ UNCHANGED known
     \/ /\ DirOf[k] \notin loaded
        /\ Begin(t, <<Do("rvcflush", Null)>>, NoLoc)
        /\ known' = [known EXCEPT ![k] = Later(k, changed[k])]
  /\ UNCHANGED <<cachevars, mlock, srv, clock, changed, attr, gen, loaded>>

\* MVFS_INV_OBJ, for the directory of k
StartInvalObj(t, k) ==
  LET d == DirOf[k] IN
  /\ "invalobj" \in work.ops /\ d \in loaded
  /\ Begin(t, <<Do("lock", "attrinval"), Do("invalvp", d), Do("unlock", Null),
                Do("notfound", Null)>>,
           [NoLoc EXCEPT !.k = k, !.told = Changes(d)])
  /\ UNCHANGED <<cachevars, mlock, envvars>>

-----------------------------------------------------------------------------
(* Flushing, the root version, the table.                                  *)

\* mfs_dncflush, mfs_dnc_flushvw, mvfs_dnc_flushvfs: one trip through the table
StartFlush(t) ==
  /\ "flush" \in work.ops
  /\ Begin(t, <<Do("flush", 1)>>, [NoLoc EXCEPT !.old = Range(chain)])
  /\ UNCHANGED <<cachevars, mlock, envvars>>
\* Mutant: the last entry of the table is left out.
LastEntMinusOne == Cardinality(Ents) - 1
\* mfs_dncmax
LastEnt == Cardinality(Ents)
Flush(t) ==
  LET e == Arg(t) IN
  /\ At(t, "flush")
  /\ \/ /\ e <= LastEnt /\ ent[e].used /\ ~ent[e].trans
        /\ Unlink(t, e, <<Do("flrele", e)>>, loc[t])
     \/ /\ IF e > LastEnt THEN Leaving(t, <<Do("flushed", Null)>>, loc[t], {})
           ELSE (ent[e].trans \/ ~ent[e].used) /\ Continue(t, <<Do("flush", e + 1)>>)
        /\ UNCHANGED <<cachevars, mlock, envvars>>
FlushRele(t) == At(t, "flrele") /\ PutBack(t, <<Do("flush", Arg(t) + 1)>>)
FlushEnd(t) == At(t, "flushed") /\ Continue(t, <<>>) /\ UNCHANGED <<cachevars, mlock, envvars>>

\* mvfs_rvcenter, from mfs_bindroot, after the view server named the root version
RvcEnter(t) ==
  /\ "rvc" \in work.ops /\ srv[Root].ans # Enoent
  /\ Begin(t, <<Do("add", Null)>>, [NoLoc EXCEPT !.k = Root, !.ans = srv[Root].ans, !.at = clock])
  /\ UNCHANGED <<cachevars, mlock, envvars>>

\* mvfs_dnc_setcaches, on an idle system as it demands: the first call flushes and returns EBUSY.
SetCaches ==
  /\ "resize" \in work.ops /\ \A t \in Threads : Idle(t)
  /\ LET busy == {e \in Ents : ent[e].used}
         Order(p) == SelectSeq([i \in Ents |-> i], LAMBDA e : e \in busy /\ home[e] = p)
     IN  IF busy # {}
         THEN /\ ent' = [e \in Ents |-> Release(ent[e])]
              /\ lru' = [p \in Kinds |->
                           Reverse(Order(p)) \o SelectSeq(lru[p], LAMBDA e : e \notin busy)]
              /\ chain' = <<>> /\ UNCHANGED home
              /\ other' = other - Cardinality({e \in Range(chain) : Counted(ent[e])})
         ELSE /\ home' \in Homes /\ lru' = FreeLists(home')
              /\ ent' = [e \in Ents |-> Blank] /\ UNCHANGED <<chain, other>>
  /\ UNCHANGED <<mlock, todo, loc, envvars, work>>

-----------------------------------------------------------------------------
(* The rest of the world.                                                  *)

\* Another host changes a name, or the root version.
ThirdParty(k) ==
  /\ "others" \in work.ops
  /\ \E a \in Answers \ {srv[k].ans} : Serve(k, [ans |-> a, notindir |-> a = Enoent /\ k # Root])
  /\ UNCHANGED <<cachevars, mlock, attr, gen, loaded, todo, loc, known, work>>
\* A name that is not in the directory becomes one of which no version is selected, or the reverse.
Unselect(k) ==
  /\ "select" \in work.ops /\ srv[k].ans = Enoent /\ clock < MaxClock
  /\ clock' = clock + 1 /\ srv' = [srv EXCEPT ![k].notindir = ~@]
  /\ UNCHANGED <<cachevars, mlock, changed, attr, gen, loaded, todo, loc, known, work>>

\* The mnode of a directory nobody uses leaves memory, and is made again with a new generation.
Unload(d) ==
  /\ "reload" \in work.ops /\ d \in loaded /\ gen[d] < MaxGen
  /\ \A t \in Threads : loc[t].k \in Names => Dir(t) # d
  /\ loaded' = loaded \ {d}
  /\ UNCHANGED <<cachevars, mlock, srv, clock, changed, attr, gen, todo, loc, known, work>>
NextGen(d) == gen[d] + 1
Load(d) ==
  /\ d \notin loaded /\ loaded' = loaded \cup {d}
  /\ gen' = [gen EXCEPT ![d] = NextGen(d)]
  /\ attr' = [attr EXCEPT ![d] = [valid |-> TRUE, mtime |-> Smtime(d)]]
  /\ UNCHANGED <<cachevars, mlock, srv, clock, changed, todo, loc, known, work>>
Step(t) ==
  \/ AddFind(t) \/ AddRele(t) \/ AddLru(t) \/ AddTake(t) \/ AddFill(t)
  \/ RmOne(t) \/ RmRvc(t) \/ RmPut(t)
  \/ InvalVp(t) \/ InvalNotFound(t) \/ RvcFlush(t)
  \/ LookupFind(t) \/ LookupCheck(t) \/ LookupHit(t)
  \/ Lock(t) \/ Unlock(t) \/ Ask(t) \/ AskFails(t) \/ Relock(t)
  \/ Create(t) \/ CreateNoVnode(t) \/ RemoveName(t) \/ ModifyFails(t) \/ Getattr(t)
  \/ Flush(t) \/ FlushRele(t) \/ FlushEnd(t)

Start(t) ==
  \/ \E k \in work.keys, b \in Bhs : StartLookup(t, k, b)
  \/ \E k \in work.keys \ {Root}, b \in Bhs : StartFill(t, k, b)
  \/ \E k \in work.keys \ {Root}, op \in {"create", "remove"} : StartModify(t, k, op)
  \/ \E k \in work.keys \ {Root} : StartGetattr(t, k) \/ StartInval(t, k) \/ StartInvalObj(t, k)
  \/ StartFlush(t) \/ RvcEnter(t) \/ InvalVw(t)

World ==
  \/ \E k \in work.keys : ThirdParty(k)
  \/ \E k \in work.keys \ {Root} : Unselect(k)
  \/ \E d \in Dirs : Unload(d) \/ Load(d)

Next == SetCaches \/ World \/ \E t \in Threads : Step(t) \/ Start(t)

Spec == Init /\ [][Next]_vars

-----------------------------------------------------------------------------
(* Properties.                                                             *)

TypeOK ==
  /\ srv \in [Keys -> [ans : Answers, notindir : BOOLEAN]]
  /\ clock \in 0 .. MaxClock /\ changed \in [Keys -> 0 .. MaxClock]
  /\ attr \in [Dirs -> [valid : BOOLEAN, mtime : 0 .. MaxClock]]
  /\ gen \in [Dirs -> 0 .. MaxGen] /\ loaded \subseteq Dirs
  /\ mlock \in [Dirs -> Threads \cup {Null}] /\ known \in [Names -> 0 .. MaxClock]
  /\ home \in [Ents -> Kinds] /\ \A p \in Kinds : Range(lru[p]) \subseteq Ents
  /\ Range(chain) \subseteq Ents
  /\ \A e \in Ents : ent[e].key \in Keys \cup {Null} /\ Len(ent[e].bh) <= BhMax

\* Every entry is on the list of its partition once, or in transit in the hands of one thread; a
\* hashed entry is in use and listed; no name has two.  (The asserts of NC_INSLRU_LOCKED,
\* NC_RMLRU_LOCKED, SET_IN_TRANS, and of mfs_dncremove_one: "there can't be another identical
\* item".)  Two threads may enter the root version at once: it may be there twice.
ListsSound ==
  /\ \A e \in Ents :
       LET on == {<<p, i>> \in Kinds \X Ents : i <= Len(lru[p]) /\ lru[p][i] = e}
           who == {t \in Threads : loc[t].e = e /\ ~At(t, "take")}
       IN  IF ent[e].trans THEN on = {} /\ Cardinality(who) = 1
           ELSE who = {} /\ Cardinality(on) = 1 /\ \A x \in on : x[1] = home[e]
  /\ \A e \in Range(chain) : ent[e].used /\ ~ent[e].trans
  /\ \A k \in Names : Len(Found(k)) <= 1

\* An entry that is not hashed and not in transit holds nothing: no view, name or credentials.
NothingLeaks == \A e \in Ents : ent[e].used => ent[e].trans \/ e \in Range(chain)

\* The entries, their lists and what they hold stay in order, whatever lookups, adds, removals,
\* flushes and reuses of entries run at once.
CacheSound == TypeOK /\ ListsSound /\ NothingLeaks

\* A lookup is never answered with what was outdated, to this host's knowledge, when it began:
\* not after an operation of this host, a report of the view server, or a getattr that saw the
\* directory changed, even if that happened while the directory was out of memory or while
\* another thread was adding the name.
HitFresh == \A t \in Threads : At(t, "hit") /\ loc[t].k # Root => loc[t].at >= loc[t].low

\* When a flush ends, every translation that existed before it was called is gone: "guarantees 1
\* trip through the cache releasing all translations that existed before it was called".
FlushComplete == \A t \in Threads : At(t, "flushed") => loc[t].old = {}

\* The answer a lookup would be given, for the promise of NameCache
Visible(k, b) ==
  LET e == Find(k) IN
  IF e = Null \/ DirOf[k] \notin loaded THEN Null
  ELSE IF Usable(ent[e], b) /\ ent[e].gen = gen[DirOf[k]] THEN AnsweredAt(ent[e], b) ELSE Null

Adding(t) == \E s \in Range(todo[t]) : s.do \in {"add", "addrele", "lru", "take", "fill", "relock"}

NC == INSTANCE NameCache WITH
        Keys <- Names,
        asked <- [t \in Threads |-> IF Adding(t) /\ loc[t].k # Root
                                    THEN [k |-> loc[t].k, at |-> loc[t].at] ELSE Null],
        cache <- [q \in Names \X Bhs |-> Visible(q[1], q[2])]

\* The cache, with all its locking and reuse, keeps the promise of NameCache.
NameCacheSpec == NC!NSpec

=============================================================================
