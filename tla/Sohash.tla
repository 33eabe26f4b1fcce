------------------------------- MODULE Sohash -------------------------------
(* The lock-free split-ordered hash table of mvfs_sohash_table.c, which an    *)
(* option of the build (MVFS_USE_SPLIT_ORDERED_HASH) uses for the thread      *)
(* table: one sorted list of all entries, a sentinel per bucket in it, a      *)
(* delete bit in the next pointers, and hazard pointers that keep a retired   *)
(* node from being freed while some thread looks at it.                       *)
(* An action is the piece of a routine between two accesses to shared memory  *)
(* that another thread can tell apart; memory is sequentially consistent.     *)
(* The publication of a hazard pointer is one step with the validation that   *)
(* follows it: an earlier publication only keeps more nodes.                  *)
EXTENDS Integers, Sequences, FiniteSets, SequencesExt

CONSTANTS
    Threads,    \* threads that call the table
    MaxNodes,   \* bound: nodes of the instance, at the addresses 1 .. MaxNodes
    Jobs        \* the scenarios: entries present, calls of each thread, records

VARIABLES
    tbl,        \* sohash_table_t
    mem,        \* the nodes
    rec,        \* the hazard records, oldest first: the list is read from the end
    thr,        \* the threads and the locals of their calls
    present     \* history: the keys whose insert succeeded and no delete removed

vars == <<tbl, mem, rec, thr, present>>

Keys == 0 .. 3                            \* the split ordered keys, and the buckets
Ids == 0 .. 7                             \* the entries' owners; the key of an owner is not unique
SoKey(i) == i % 4
Addrs == 1 .. MaxNodes
Null == 0
Old == -1                                 \* a node retired before the instance
Ptr(a) == <<a, FALSE>>                    \* a pointer without the delete bit
NoDeleteBit(p) == p                       \* mutant: the delete bit is not set
SetDeleteBit(p) == <<p[1], TRUE>>

(* Two bits of key stand for the code's 31; the bit 31 that marks a regular   *)
(* key becomes the lowest of the reversed one.                                *)
ReverseBit(k) == 2 * (k % 2) + (k \div 2)
SentinelKey(k) == 2 * ReverseBit(k)
RegularKey(k) == SentinelKey(k) + 1
IsSentinel(rank) == rank % 2 = 0
UnsetMsb(i) == IF i < 2 THEN 0 ELSE i - 2

NoNode == [st |-> "free", key |-> 0, id |-> 0, next |-> Ptr(Null)]
NoHps == <<Ptr(Null), Ptr(Null), Ptr(Null)>>
Record(older) == [use |-> FALSE, hp |-> NoHps, rlist |-> << >>, older |-> older,
                  prev |-> <<"b", 0>>, cur |-> Null, next |-> Ptr(Null)]
Idle(ops) == [pc |-> "idle", ops |-> ops, rec |-> 0, idx |-> 0, todo |-> << >>,
              node |-> Null, sent |-> Null, plist |-> {}, res |-> "none", saw |-> {},
              nomem |-> FALSE]

(* A table that already holds the entries of a job: the sentinels of the      *)
(* initialised buckets and the entries, in the order of their ranks.          *)
Ranks(j) == {<<SentinelKey(b), 0>> : b \in j.buckets} \cup {<<RegularKey(SoKey(i)), i>> : i \in j.keys}
Before(x, y) == x[1] < y[1] \/ (x[1] = y[1] /\ x[2] < y[2])

InitTable(j) ==
    LET seq == SetToSortSeq(Ranks(j), Before)
        at(r) == CHOOSE i \in DOMAIN seq : seq[i] = <<r, 0>>
    IN /\ tbl = [state |-> "active", size |-> j.size, count |-> Cardinality(j.keys),
                 scount |-> Cardinality(j.buckets), total |-> 3 * Len(j.older),
                 slot |-> [b \in Keys |-> IF b \in j.buckets THEN at(SentinelKey(b)) ELSE Null]]
       /\ mem = [a \in Addrs |-> IF a > Len(seq) THEN NoNode
                    ELSE [st |-> "in", key |-> seq[a][1], id |-> seq[a][2],
                          next |-> Ptr(IF a = Len(seq) THEN Null ELSE a + 1)]]
       /\ rec = [i \in DOMAIN j.older |-> Record(j.older[i])]
       /\ thr = [t \in Threads |-> Idle(j.ops[t])]
       /\ present = j.keys

Init == \E j \in Jobs : InitTable(j)

-----------------------------------------------------------------------------
Op(t) == Head(thr[t].ops)[1]
Id(t) == Head(thr[t].ops)[2]
Key(t) == SoKey(Id(t))
Rec(t) == rec[thr[t].rec]
Goto(t, pc) == thr' = [thr EXCEPT ![t].pc = pc]
Finish(t, res) == thr' = [thr EXCEPT ![t].pc = "release", ![t].res = res]

(* A pointer cell is a bucket's slot or the next field of a node.             *)
Cell(c) == IF c[1] = "b" THEN Ptr(tbl.slot[c[2]]) ELSE mem[c[2]].next

(* The thread looks for its own key, or for the sentinel of the bucket it is  *)
(* initialising, in the list of that bucket's parent.                         *)
Sought(t) == IF thr[t].sent # Null THEN SentinelKey(Last(thr[t].todo)) ELSE RegularKey(Key(t))
ListHead(t) == IF thr[t].sent # Null THEN UnsetMsb(Last(thr[t].todo)) ELSE thr[t].idx

(* History: every thread whose call is about i sees whether it is present.    *)
Saw(i, v) == [u \in Threads |->
    IF thr[u].pc # "idle" /\ Id(u) = i THEN [thr[u] EXCEPT !.saw = @ \cup {v}] ELSE thr[u]]

(* sohash_alloc_node, which reuses the lowest address, and sohash_free_node.  *)
HasFree == \E a \in Addrs : mem[a].st = "free"
Fresh == CHOOSE a \in Addrs : mem[a].st = "free" /\ \A b \in Addrs : mem[b].st = "free" => a <= b
New(rank, i) == [mem EXCEPT ![Fresh] = [st |-> "new", key |-> rank, id |-> i, next |-> Ptr(Null)]]
Without(as) == [a \in Addrs |-> IF a \in as THEN NoNode ELSE mem[a]]

FirstFree == CHOOSE i \in DOMAIN rec : ~rec[i].use /\ \A k \in DOMAIN rec : ~rec[k].use => k <= i

Begin(t, r, pc) == thr' = [thr EXCEPT ![t].pc = pc, ![t].rec = r,
                                      ![t].saw = {Id(t) \in present}]

(* sohash_hp_get: the first free record of the list, newest first, or a new   *)
(* one, linked in before the total counts its pointers; without memory a      *)
(* search answers NULL as if there were no entry, and the others ENOMEM.      *)
NoMemory(t, pc, err) ==
    thr' = [thr EXCEPT ![t].pc = pc, ![t].nomem = TRUE, ![t].saw = @ \cup {Id(t) \in present},
                       ![t].res = IF Op(t) = "find" THEN "NULL" ELSE err]

HpGet(t) ==
    /\ thr[t].pc = "idle" /\ thr[t].ops # << >> /\ tbl.state = "active"
    /\ IF \E i \in DOMAIN rec : ~rec[i].use
       THEN Begin(t, FirstFree, "size") /\ rec' = [rec EXCEPT ![FirstFree].use = TRUE]
       ELSE \/ Begin(t, Len(rec) + 1, "total") /\ rec' = Append(rec, [Record(0) EXCEPT !.use = TRUE])
            \/ NoMemory(t, "return", "ENOMEM") /\ UNCHANGED rec
    /\ UNCHANGED <<tbl, mem, present>>

HpTotal(t) ==
    /\ thr[t].pc = "total"
    /\ tbl' = [tbl EXCEPT !.total = @ + 3] /\ Goto(t, "size")
    /\ UNCHANGED <<mem, rec, present>>

(* The bucket of the key under the current size; insert allocates its node.   *)
ToBucket(t, n) ==
    LET i == Key(t) % tbl.size
        ready == tbl.slot[i] # Null
    IN thr' = [thr EXCEPT ![t].idx = i, ![t].node = n,
                          ![t].pc = IF ready THEN "start" ELSE "bucket",
                          ![t].todo = IF ready THEN << >> ELSE <<i>>]

ReadSize(t) ==
    /\ thr[t].pc = "size"
    /\ IF Op(t) # "insert" THEN ToBucket(t, Null) /\ UNCHANGED mem
       ELSE \/ HasFree /\ mem' = New(RegularKey(Key(t)), Id(t)) /\ ToBucket(t, Fresh)
            \/ NoMemory(t, "release", "ENOMEM") /\ UNCHANGED mem
    /\ UNCHANGED <<tbl, rec, present>>

(* sohash_initialize_bucket: another thread did it; the parent first; or a    *)
(* sentinel to insert in the parent's list. Without memory a search answers   *)
(* NULL and the others EFAULT; a delete returns with its record in use.       *)
InitBucket(t) ==
    /\ thr[t].pc = "bucket"
    /\ LET i == Last(thr[t].todo)  p == UnsetMsb(i)
       IN IF tbl.slot[i] # Null
          THEN /\ thr' = [thr EXCEPT ![t].todo = Front(@),
                              ![t].pc = IF Len(thr[t].todo) = 1 THEN "start" ELSE "bucket"]
               /\ UNCHANGED mem
          ELSE IF tbl.slot[p] = Null
          THEN thr' = [thr EXCEPT ![t].todo = Append(@, p)] /\ UNCHANGED mem
          ELSE \/ /\ HasFree /\ mem' = New(SentinelKey(i), 0)
                  /\ thr' = [thr EXCEPT ![t].pc = "start", ![t].sent = Fresh]
               \/ /\ mem' = Without({thr[t].node})
                  /\ NoMemory(t, IF Op(t) = "delete" THEN "return" ELSE "release", "EFAULT")
    /\ UNCHANGED <<tbl, rec, present>>

-----------------------------------------------------------------------------
(* sohash_list_find, from the bucket's slot; a slot keeps its sentinel while  *)
(* the table is active, so that the check of line 1267 succeeds.              *)
FindStart(t) ==
    /\ thr[t].pc = "start"
    /\ LET s == tbl.slot[ListHead(t)]
       IN rec' = [rec EXCEPT ![thr[t].rec] = [@ EXCEPT !.prev = <<"b", ListHead(t)>>,
                                                  !.cur = s, !.hp[2] = Ptr(s)]]
    /\ Goto(t, "next")
    /\ UNCHANGED <<tbl, mem, present>>

(* What the caller does with the result of the search.                        *)
Found(t) ==
    IF thr[t].sent # Null
    THEN /\ thr' = [thr EXCEPT ![t].pc = "slot", ![t].sent = Rec(t).cur,
                               ![t].res = "EEXIST"]
         /\ mem' = Without({thr[t].sent})
    ELSE CASE Op(t) = "find"   -> Finish(t, "found") /\ UNCHANGED mem
           [] Op(t) = "insert" -> Finish(t, "EEXIST") /\ mem' = Without({thr[t].node})
           [] Op(t) = "delete" -> Goto(t, "mark") /\ UNCHANGED mem

NotFound(t) ==
    /\ IF thr[t].sent # Null \/ Op(t) = "insert" THEN Goto(t, "link")
       ELSE Finish(t, IF Op(t) = "find" THEN "NULL" ELSE "ENOENT")
    /\ UNCHANGED mem

ReadNext(t) ==
    /\ thr[t].pc = "next"
    /\ IF Rec(t).cur = Null THEN NotFound(t) /\ UNCHANGED rec
       ELSE /\ rec' = [rec EXCEPT ![thr[t].rec].next = mem[Rec(t).cur].next]
            /\ Goto(t, "hp0") /\ UNCHANGED mem
    /\ UNCHANGED <<tbl, present>>

SetHp0(t) ==
    /\ thr[t].pc = "hp0"
    /\ rec' = [rec EXCEPT ![thr[t].rec].hp[1] = Rec(t).next]
    /\ Goto(t, IF mem[Rec(t).cur].next = Rec(t).next THEN "check" ELSE "start")
    /\ UNCHANGED <<tbl, mem, present>>

(* Line 1284: the cell the walker came from still holds the node. Mutant:     *)
(* that is taken for granted.                                                 *)
TakenForGranted(r) == TRUE
StillThere(r) == Cell(r.prev) = Ptr(r.cur)

(* Keys of entries are not unique (SOKEY_UNIQUE_FALSE): the caller's routine  *)
(* tells whether an entry with the key is the one that is sought. Mutant: the *)
(* key alone decides.                                                         *)
KeyOnly(t, a) == TRUE
Verified(t, a) == thr[t].sent # Null \/ mem[a].id = Id(t)

(* The previous cell still holds the node, the node is not being deleted, and *)
(* its key is compared; the walk moves on with both nodes protected.          *)
Check(t) ==
    /\ thr[t].pc = "check"
    /\ LET r == Rec(t)  key == mem[r.cur].key
       IN IF ~StillThere(r) \/ r.next[2]
          THEN Goto(t, "start") /\ UNCHANGED <<mem, rec>>
          ELSE IF key = Sought(t) /\ Verified(t, r.cur) THEN Found(t) /\ UNCHANGED rec
          ELSE IF key > Sought(t) THEN NotFound(t) /\ UNCHANGED rec
          ELSE /\ rec' = [rec EXCEPT ![thr[t].rec] =
                            [@ EXCEPT !.prev = <<"n", r.cur>>, !.cur = r.next[1],
                                      !.hp = <<@[1], r.next, Ptr(r.cur)>>]]
               /\ Goto(t, "next") /\ UNCHANGED mem
    /\ UNCHANGED <<tbl, present>>

(* sohash_list_insert: the node is linked in when the cell still holds cur.   *)
Link(t) ==
    LET r == Rec(t)  n == IF thr[t].sent # Null THEN thr[t].sent ELSE thr[t].node
        regular == thr[t].sent = Null
    IN /\ thr[t].pc = "link"
       /\ IF Cell(r.prev) # Ptr(r.cur) THEN Goto(t, "start") /\ UNCHANGED <<mem, rec, present>>
          ELSE /\ mem' = [mem EXCEPT ![n].next = Ptr(r.cur), ![n].st = "in",
                                     ![r.prev[2]].next = Ptr(n)]
               /\ rec' = [rec EXCEPT ![thr[t].rec].hp = NoHps]
               /\ present' = present \cup (IF regular THEN {Id(t)} ELSE {})
               /\ thr' = [(IF regular THEN Saw(Id(t), TRUE) ELSE thr) EXCEPT
                             ![t].pc = IF regular THEN "count" ELSE "slot",
                             ![t].res = IF regular THEN "inserted" ELSE "new"]
       /\ UNCHANGED tbl

(* sohash_set_bucket: the first thread sets the slot, the one that inserted   *)
(* the sentinel counts it; the segment of the small indexes always exists.    *)
SetBucket(t) ==
    /\ thr[t].pc = "slot"
    /\ LET i == Last(thr[t].todo)
       IN tbl' = [tbl EXCEPT !.slot[i] = IF @ = Null THEN thr[t].sent ELSE @,
                             !.scount = @ + (IF thr[t].res = "new" THEN 1 ELSE 0)]
    /\ thr' = [thr EXCEPT ![t].todo = Front(@), ![t].sent = Null, ![t].res = "none",
                          ![t].pc = IF Len(thr[t].todo) = 1 THEN "start" ELSE "bucket"]
    /\ UNCHANGED <<mem, rec, present>>

(* The table doubles when it holds more than one entry per bucket.            *)
Count(t) ==
    /\ thr[t].pc = "count"
    /\ tbl' = [tbl EXCEPT !.count = @ + 1,
                          !.size = IF (tbl.count + 1) \div @ > 1 THEN 2 * @ ELSE @]
    /\ Goto(t, "release")
    /\ UNCHANGED <<mem, rec, present>>

-----------------------------------------------------------------------------
(* sohash_list_delete: mark the node, unlink it, retire it; a failed unlink   *)
(* takes the mark back and searches again.                                    *)
Mark(t) ==
    /\ thr[t].pc = "mark"
    /\ LET r == Rec(t)
       IN IF mem[r.cur].next = r.next
          THEN mem' = [mem EXCEPT ![r.cur].next = SetDeleteBit(r.next)] /\ Goto(t, "unlink")
          ELSE Goto(t, "start") /\ UNCHANGED mem
    /\ UNCHANGED <<tbl, rec, present>>

Unlink(t) ==
    /\ thr[t].pc = "unlink"
    /\ LET r == Rec(t)
       IN IF Cell(r.prev) = Ptr(r.cur)
          THEN /\ mem' = [mem EXCEPT ![r.prev[2]].next = r.next]
               /\ present' = present \ {Id(t)}
               /\ thr' = [Saw(Id(t), FALSE) EXCEPT ![t].pc = "retire", ![t].res = "deleted"]
          ELSE Goto(t, "unmark") /\ UNCHANGED <<mem, present>>
    /\ UNCHANGED <<tbl, rec>>

Unmark(t) ==
    /\ thr[t].pc = "unmark"
    /\ mem' = [mem EXCEPT ![Rec(t).cur].next = Rec(t).next] /\ Goto(t, "start")
    /\ UNCHANGED <<tbl, rec, present>>

(* sohash_retire_node: the next field of the node, delete bit included, is    *)
(* overwritten by the link of the record's list of retired nodes.             *)
RlistHead(r) == IF r.rlist # << >> THEN Head(r.rlist) ELSE IF r.older > 0 THEN Old ELSE Null

Retire(t) ==
    /\ thr[t].pc = "retire"
    /\ LET r == Rec(t)
       IN /\ mem' = [mem EXCEPT ![r.cur].next = Ptr(RlistHead(r)), ![r.cur].st = "retired"]
          /\ rec' = [rec EXCEPT ![thr[t].rec].rlist = <<r.cur>> \o @]
          /\ Goto(t, IF Len(r.rlist) + 1 + r.older >= tbl.total THEN "scan" ELSE "release")
    /\ UNCHANGED <<tbl, present>>

(* sohash_hprec_scan: the keys of all nodes the hazard pointers name; then    *)
(* the retired nodes with other keys are freed and the others kept for the    *)
(* next scan. The delete bit is masked.                                       *)
Hazards == UNION {Range(rec[i].hp) : i \in DOMAIN rec}
KeptList(kept) == Reverse(kept)

Scan(t) ==
    /\ thr[t].pc = "scan"
    /\ thr' = [thr EXCEPT ![t].pc = "reclaim",
                  ![t].plist = {mem[p[1]].key : p \in {q \in Hazards : q[1] \in Addrs}}]
    /\ UNCHANGED <<tbl, mem, rec, present>>

Reclaim(t) ==
    /\ thr[t].pc = "reclaim"
    /\ LET kept == SelectSeq(Rec(t).rlist, LAMBDA a : mem[a].key \in thr[t].plist)
       IN /\ mem' = Without(Range(Rec(t).rlist) \ Range(kept))
          /\ rec' = [rec EXCEPT ![thr[t].rec].rlist = KeptList(kept), ![thr[t].rec].older = 0]
    /\ thr' = [thr EXCEPT ![t].pc = "release", ![t].plist = {}]
    /\ UNCHANGED <<tbl, present>>

(* sohash_delete_entry_subr counts a delete after the node is retired.        *)
Uncounted(t) == IF thr[t].res = "deleted" THEN 1 ELSE 0

(* The end of a call.                                                         *)
Leave(t) == thr' = [thr EXCEPT ![t] = Idle(Tail(@.ops))]

(* The hazard pointers are cleared, a delete is counted, and the record is    *)
(* given back: sohash_hp_release and the ends of the three operations.        *)
Release(t) ==
    /\ thr[t].pc = "release"
    /\ rec' = [rec EXCEPT ![thr[t].rec] = [@ EXCEPT !.hp = NoHps, !.use = FALSE]]
    /\ tbl' = [tbl EXCEPT !.count = @ - Uncounted(t)]
    /\ Leave(t)
    /\ UNCHANGED <<mem, present>>

(* Without a record, or with the record that the delete leaves in use.        *)
Return(t) == thr[t].pc = "return" /\ Leave(t) /\ UNCHANGED <<tbl, mem, rec, present>>

-----------------------------------------------------------------------------
(* The list from the first sentinel on.                                       *)
Walk[n \in 0 .. MaxNodes] ==
    IF n = 0 THEN tbl.slot[0]
    ELSE LET a == Walk[n - 1] IN IF a \in Addrs THEN mem[a].next[1] ELSE Null
InList == {Walk[n] : n \in 0 .. MaxNodes} \ {Null, Old}
Regulars == {a \in InList : ~IsSentinel(mem[a].key)}

(* sohash_flush_hp_list frees the records with their retired nodes.           *)
FlushHpList == UNION {Range(rec[i].rlist) : i \in DOMAIN rec}

(* The table itself goes last.                                                *)
Gone == [tbl EXCEPT !.state = "gone", !.count = 0, !.scount = 0, !.slot = [b \in Keys |-> Null]]

(* sohash_cleanup_hashtable, once no thread uses the table (its caller frees  *)
(* the process data): from now on other calls are refused. Without a hazard   *)
(* record it gives up, and the table stays as it is for good: a second        *)
(* cleanup finds it in this state and answers EBUSY.                          *)
CleanupStart ==
    /\ tbl.state = "active" /\ \A t \in Threads : thr[t].pc = "idle" /\ thr[t].ops = << >>
    /\ \/ tbl' = [tbl EXCEPT !.state = "flush"]
       \/ (\A i \in DOMAIN rec : rec[i].use) /\ tbl' = [tbl EXCEPT !.state = "stuck"]
    /\ UNCHANGED <<mem, rec, thr, present>>

(* The buckets are emptied one by one into the retired list; the loop ends    *)
(* only when the two counts agree with the list. The search for a sentinel    *)
(* begins at the sentinel itself and does not fail (line 513).                *)
Cleanup ==
    /\ tbl.state = "flush"
    /\ tbl.count = Cardinality(Regulars) /\ tbl.scount = Cardinality(InList \ Regulars)
    /\ mem' = Without(InList \cup FlushHpList)
    /\ tbl' = Gone /\ rec' = << >>
    /\ UNCHANGED <<thr, present>>

Step(t) ==
    \/ HpGet(t) \/ HpTotal(t) \/ ReadSize(t) \/ InitBucket(t) \/ FindStart(t) \/ ReadNext(t)
    \/ SetHp0(t) \/ Check(t) \/ Link(t) \/ SetBucket(t) \/ Count(t) \/ Mark(t) \/ Unlink(t)
    \/ Unmark(t) \/ Retire(t) \/ Scan(t) \/ Reclaim(t) \/ Release(t) \/ Return(t)

Done == tbl.state \in {"gone", "stuck"} /\ UNCHANGED vars

Next == CleanupStart \/ Cleanup \/ Done \/ \E t \in Threads : Step(t)

Spec == Init /\ [][Next]_vars

-----------------------------------------------------------------------------
(* The list stays sorted, holds exactly the entries that were inserted and    *)
(* not deleted, every bucket points at its sentinel in it, and a node is      *)
(* retired once: no insert or delete is lost to another one at a neighbouring *)
(* node (lines 1221, 1370, 1465).                                             *)
ListSound ==
    tbl.state = "active" =>
        /\ \A n \in 1 .. MaxNodes : Walk[n] # Null =>
              /\ Walk[n] \in Addrs
              /\ mem[Walk[n - 1]].key <= mem[Walk[n]].key
              /\ IsSentinel(mem[Walk[n]].key) => mem[Walk[n - 1]].key < mem[Walk[n]].key
        /\ {mem[a].id : a \in Regulars} = present /\ Cardinality(Regulars) = Cardinality(present)
        /\ \A a \in Regulars : mem[a].key = RegularKey(SoKey(mem[a].id))
        /\ \A b \in Keys : tbl.slot[b] # Null =>
              tbl.slot[b] \in InList /\ mem[tbl.slot[b]].key = SentinelKey(b)
        /\ \A i, k \in DOMAIN rec : i # k => Range(rec[i].rlist) \cap Range(rec[k].rlist) = {}
        /\ \A i \in DOMAIN rec : IsInjective(rec[i].rlist)

(* A walker never looks at a node that has been freed: neither at the one it  *)
(* stands on nor at the one whose next field it came from (lines 1275-1284).  *)
SafeWalk ==
    \A t \in Threads : thr[t].pc \in {"next", "hp0", "check", "link", "mark", "unlink", "unmark"} =>
        /\ Rec(t).cur # Null => mem[Rec(t).cur].st # "free"
        /\ Rec(t).prev[1] = "n" => mem[Rec(t).prev[2]].st # "free"

(* An answer was true at some moment of the call: an entry reported missing   *)
(* was absent, one reported found, existing or deleted was there. Not so when *)
(* a search had no memory for a record (line 764) or a bucket (line 779): it  *)
(* answers the same for an entry that is there, and the thread that inserts   *)
(* itself upon that is told EEXIST (mvfs_procops.c 1147, line 697).           *)
ResultsTrue ==
    \A t \in Threads : thr[t].pc \in {"release", "return"} =>
        /\ thr[t].res \in {"found", "EEXIST", "deleted"} => TRUE \in thr[t].saw
        /\ thr[t].res \in {"NULL", "ENOENT", "inserted"} /\ ~thr[t].nomem => FALSE \in thr[t].saw

(* Emptying the table frees every node that was ever allocated (lines         *)
(* 425-616): no retired list, sentinel or refused insert keeps one. A         *)
(* cleanup that gives up at line 463 frees nothing and is not meant.          *)
NothingLeaks == tbl.state = "gone" => \A a \in Addrs : mem[a].st = "free"
=============================================================================
