# A TLA+ model of the ClearCase MVFS kernel module

`src/` is the Linux port of MVFS, the multi-version file system of ClearCase: a
kernel module that shows VOB (versioned object base) elements through a view.
Most of its difficulty is not in file operations but in the objects it keeps
between them: mnodes, which cache what a view server said about a file, vnodes
that come and go with the kernel's inodes, RPC client handles, name and
cleartext caches, and the rules by which several kernel threads find, count,
recycle and destroy these.

The repository has no tests. What the code promises is in its comments and
assertions (compiled out of production builds), and those are what the
properties below are taken from.

## Inventory of the system

| component | source | state | operations | what makes it hard, what makes it right |
|---|---|---|---|---|
| mnode table | `mvfs_mnode.c`, `mvfs_mnode.h` | `mnum_to_mnode`, `mfs_mncnt`, `mvfs_mtmhwm`, `mvfs_mtmpfs`, `mvfs_mnmax` | reserve, publish, free a slot, grow, scans | the table is reallocated with no lock held; the marks are kept incrementally and must stay exact |
| mnode life cycle | `mvfs_mnode.c` | hash chains, freelist chains, destroy list, `mn_hdr` of each mnode | `mfs_mnget`, `mfs_mnrele`, freelist management, flushes, destroy, scans, sync | six kinds of locks with an order; an mnode in flight between two lists is in neither; reference counts decide who frees |
| remote calls | `mvfs_rpcutl.c`, `mvfs_linux_rpcglue.c` | client handle cache, `mvfs_xid`, `mvfs_boottime`, the view's server binding | `mvfs_vwcall`, `mfscall`, `mvfs_bindsvr_port`, `mvfs_rpc_setcaches` | lost and late messages, rebinding that itself calls, transaction ids that must increase on a socket, a cache replaced while its handles are in use |
| vnode activation | `mvfs_mdep_linux.c`, `mvfs_vnodeops.c`, `mvfs_clnt.c`, `mvfs_linux_mdki.c` | `mn_hdr.vp`, `mcount`, inode counts, `vnlayer_inactive_waitq`, `mn_vob.rmv_name` | `mvfs_linux_vnget`, `mvfs_linux_inactive`, remove, rename out of the way, delayed remove | a lookup and an inactivation need each other's lock; wake-ups must not be missed; a removed file in use must be removed in the end |
| directory name cache | `mvfs_dncops.c` | hash chains, three LRU lists, in-transit bits, an old cache being phased out | add, lookup, remove, flush, invalidate, resize | entries are taken off their lists and completed with no lock; the count of entries in transit decides when the old cache is freed |
| lock-free hash table | `mvfs_sohash_table.c` | split-ordered list, bucket array, hazard pointers, retired nodes | find, insert, delete, retire, scan | compare-and-swap only; a retired node must outlive every reader |
| processes and threads | `mvfs_procops.c` | process and thread hash tables, view, audit and root of each | lookup or create, inherit, purge | a pid may be reused; state is inherited lazily from the parent |
| audit files | `mvfs_auditops.c` | list of audit files, reference counts, record buffers | get, hold, release, append, write | the last release writes and destroys with other threads searching the list |
| attribute cache | `mvfs_vnodeops.c`, `mvfs_mnode.c` | attributes, their time and generation | attach, expire, invalidate | replies arrive in another order than they were produced |
| directory block cache | `mvfs_rdc.c` | a few blocks for each directory | get, enter, flush | offset 0 has a slot of its own, the last slot is replaced |
| effective ACL cache | `mvfs_acl.c` | hash of handles with reference counts | get, validate, release | a pool lock is held across a remote call |
| cleartext and credential lists | `mvfs_clearops.c` | cleartext vnode of an mnode, list of credentials | open, drop, free | cached mnodes keep cleartexts, counted by the freelist |
| mounts | `mvfs_vfsops.c` | mount records, export table | mount, unmount, root, vget | unmount with active mnodes |
| views and the view directory | `mvfs_vwdirops.c`, `mvfs_ntvwops.c` | view tags, view mnodes | make, remove, rebind a view | a view is removed while mnodes of it are in use |
| client operations | `mvfs_clnt.c` | none of their own | one for each remote procedure | what they do with locks held is part of activation |
| vnode operations | `mvfs_vnodeops.c` | none of their own | open, close, read, write, getattr, create, choid... | compose all of the above |
| names on Linux | `mvfs_linux_iops.c`, `mvfs_linux_dops.c`, `mvfs_linux_utils.c`, `mvfs_linux_sops.c` | dentries in two trees, inode references | lookup, create, link, remove, rename, revalidate, NFS lookup | one object has a dentry under the view tag and another for processes with a view set; a change through one must show through the other |
| shadow inodes | `mvfs_linux_mvops.c`, `mvfs_linux_shadow.c`, `mvfs_linux_dops.c` | loopback dentries, cleartext vnodes, real dentries | walk, revalidate, remove, rename, attributes of what lies outside the VOBs | processes in the real directory change it at any time |
| open files on Linux | `mvfs_linux_mvops.c`, `mvfs_linux_fops.c` | cleartext files, write counts, two sets of POSIX locks, mappings | open, close, fork, lock, mmap | the module does for the cleartext file what the kernel does for other files, with every step able to fail |
| ioctl, tunables, allocator, utilities, XDR, credentials | `mvfs_mioctl.c`, `mvfs_transtype.c`, `mvfs_copy.c`, `mvfs_tunables.c`, `mvfs_kmem.c`, `mvfs_utils.c`, `xdr_*.c`, `credutl_kernel.c` | little | copying, conversion, dispatch | mostly straight-line; the cache-size clamps use unsigned arithmetic |

All of it runs in the kernel, in the context of whatever process made a system
call: many threads at once, preempted anywhere, sleeping in locks, allocations
and remote calls. There is no persistent state: a crash loses the module's
memory, so recovery is not an issue. Other hosts are: view servers restart,
move to another port, answer late or not at all.

How the parts meet: a vnode operation calls a client operation, which locks the
directory's mnode, makes a remote call, and turns the reply into an mnode
(`mfs_mnget`) and a vnode (`mvfs_linux_vnget`). The kernel drops the inode,
`mvfs_linux_inactive` unlinks vnode and mnode, and `mfs_mnrele` decides whether
the mnode is cached on the freelist or destroyed.

## Modules

| module | models | extends or instantiates |
|---|---|---|
| `MnodeTable` | the slot table as a monitor: each operation one step, as under `mfs_mnlock` | |
| `Mnode` | threads in `mfs_mnget`, `mfs_mnrele`, freelist management, flushes, view removal, scans and sync | extends `MnodeTable` |
| `Rpc` | threads in `mvfs_vwcall`, the handle cache, ids, rebinding; network and servers external | |
| `Activation` | threads that look up, find, remove and release one file | |
| `Audit` | tasks in the audit ioctls, entry and exit, inheritance, purge; audit files and their buffers | |
| `NameCache` | what the name cache promises: an answer comes from the view server and is not older than what this host was told | |
| `Dnc` | the name cache as written, with the client operations that fill it and the events that empty it | instantiates `NameCache` |
| `File` | one regular file: attributes and their generations, cleartext, copy-on-write, open, data, audit of changes | |
| `Dirs` | operations on names: lookup, create, link, rename, remove, listing, rebinding to another version; block cache | |
| `Vfs` | mounts, minor numbers, the subsystems and their unwinding | |
| `Views` | the view directory, view tags, export table, history mode views, views of processes, binding of VOB roots | extends `Vfs` |
| `Dcache` | the dentries of VOB objects in the two trees | |
| `Shadow` | loopback objects, their cleartext vnodes and real dentries | |
| `Ctxt` | open files, their cleartext files, locks and mappings | |
| `Linux` | the three above as one system | instantiates `Dcache`, `Shadow`, `Ctxt` |
| `Sohash` | the lock-free table, one step between two accesses to shared memory | |
| `Eacl` | the cache of effective ACLs | |
| `Tables` | the two above as one system | instantiates `Sohash`, `Eacl` |
| `MnodeTableProofs`, `ActivationProofs`, `AuditProofs`, `FileProofs`, `ViewsProofs`, `TablesProofs`, `RpcProofs` | theorems | extend the module of that name |
| `RpcIdProofs` | theorems on transaction ids and calls | extends `RpcProofs` |
| `MCMnode`, `MCRpc`, `MCActivation`, `MCAudit`, `MCDnc`, `MCFile`, `MCDirs`, `MCViews`, `MCLinux`, `MCTables` | constants and scenarios for TLC | |

A faulty variant of a definition stands before it, marked as such; it is used
nowhere, and shows with which mistake in the code a property would fail.

### MnodeTable and Mnode

`MnodeTable` is the abstract specification of the slot table: `Reserve`,
`Publish`, `Release` and `Grow` change `mnum_to_mnode` and the marks as
`mfs_mngetmnumslot`, `mfs_mnget`, `MFS_MN_FREE_SLOT` and `mvfs_mngrowtable_to` do.
`Mnode` uses the same operators inside the steps of its threads, and run
*MnodeLife* checks that what the threads do is `TableSpec`: no interleaving uses
the table in a way the monitor forbids.

In `Mnode` a step ends where the code releases a lock that another thread may be
waiting for, or may sleep. The hash chain locks, the header and mnode locks and
`mfs_mnlock` are variables with an owner, because threads hold one while they
wait for another; the innermost locks (freelist, destroy list) cover one step
each. An mnode structure is free or allocated; using a freed one is what
`NoDangling` looks for: every pointer a list, a table slot or a thread's local
variable holds is to an allocated mnode. A generation of 0 matches any, as
`MFS_UNK_GEN` does.

### Rpc

A thread has a stack of calls: `mvfs_vwcall`, and above it the call to the albd
that `mvfs_bindsvr_port` makes. `mvfs_alloc_xid` wraps in three steps, as
written; the boot time is read when a message is sent, as in `mfscall_int`. A history
variable, `torn`, has the handles whose call was between taking its id and its last
transmission when a wrap took place. The servers are external, modelled from how `mvfs_rpcutl.c` describes
them (lines 600-650): a server executes a transaction newer than the last one
of that socket, answers the last one again, and rejects an older one. A
message once sent may arrive at any time until its handle is given back, or never.

### Activation

One file in one directory. `VnDying`, `VnWait`, `VnNone`, `VnNew` are the stages of
`mvfs_linux_vnget` with the mnode locked, so the lock is what keeps an igrab
that failed, or a missing vnode, true until it is acted upon. `Final` and
`Finalize` are the unlinking and the wake-up of `mvfs_linux_inactive`. The rename
out of the way (`Rename`, `RenameFail`), the remove (`Unlink`) and the delayed remove (`Delayed`,
`DelayedFail`) may fail, and a call that failed may have been done at the view; `failed` records
that one of the calls responsible for the temporary name did. The
kernel's own references to inode and dentry (`I_COUNT > 2`, `D_COUNT > 1` in
`mdki_linux_rename_needed`) are left out: `RenameNeeded` asks for another user.
The `mcount` kept here is that of module `Mnode`; recycling of the mnode is there.

### Audit

A task has one `mvfs_proc_t` (`proc`), which stays until a purge finds the task
dead, and one `mvfs_thread_t` (`thr`), refreshed on every entry. What a task has
still to do in a call is a list of steps in `todo`, each of which runs under one
lock; a step may put its callees at the head of the list. Only `mfs_aflock` is
held across steps: between the test of `destroy` in `mfs_afpget` and the wait for the lock of
the structure (`AfpFind`, `AfpTake`). A record is the object it is about, `made` and `out`
count the records accepted and written. `mfs_isdupl` looks at the last
`duplsearchmax` records of the buffer; modification times are part of the object.
Task exit, and which files users set, are external: the `Keepers` are
builds that keep their audit file, so that with `AnyReuse` false an existing structure is
only looked for while somebody is sure to hold it.

### NameCache and Dnc

`NameCache` has four variables: the number of changes of the VOB, up to where this host
has been told of them, the answers on their way and the answers a lookup would find. In
`Dnc` the latter are state functions of the hash chains (`Visible`), and run *Dnc* checks
`NameCacheSpec`, the refinement. An entry is on a chain and an LRU list, or in transit
between them; `AddFind`, `AddLru`, `AddTake`, `AddFill` are the holds of the locks in
`mfs_dncadd_int`. A lookup keeps the directory locked from the request to the add, except
for "..". Events (another host's change, a flush, the end of the time-out) reach this host
as attributes of the directory, and `mfs_ac_modevents` decides what they invalidate.

### File

A step is one hold of the mnode lock. What runs inside is a chain of operators from a
state to the set of its outcomes (`GetCleartext`, `CopyOnWrite`, `ChoidOnly`...), one per function of
`mvfs_clearops.c` and `mvfs_vnodeops.c`, each of which may fail. `srv` is the view server
and the storage; the shared cleartext may be scrubbed, and another host may copy the
object. Data is a number that grows with every write. Attribute generations have the width
`GenMod`; `thr` also remembers what the marker of a thread stands for.

### Dirs

A call holds the mnode lock of its directory over the request and the use of the reply: it
is one step. A directory is a function from places to objects, so that a listing can
be cut at any place; the blocks of `mvfs_rdc.c` hold ranges of it. The name cache is used
through its specification. `KernelLocks` says that the kernel keeps the directories of a
changing operation locked. Every call may be answered with an error and have been done all
the same (`Unsure`); the name cache is then treated as each caller treats it. `loc.late` marks
an answer of `mfs_clnt_rebind_dir`, taken without the lock, that an event overtook before it was
stored. A stat of another process (`Getattr`) hears of events at any time.

### Vfs and Views

A mount runs under two locks and is one step whose point of failure is an input.
In `Views` a step is one hold of the lock of the view directory; references to view vnodes
are counted for slots, processes, operations and mnodes. Removing a view empties its slot,
unexports it, flushes its mnodes and clears its id in separate steps, as the code does.

### Dcache, Shadow, Ctxt

The kernel's part (dget, dput, d_move, d_invalidate, fput, posix locks) is
external and modelled from its use. `Dcache` has lookups and changes as separate steps under
the inode mutexes; a dentry nobody holds is discarded at once. A rename is four steps: the search for
the peers, the call, the moving of the peers, and the kernel's own move, with lookups of other threads
between them. A lookup that has no memory for attributes keeps its reference to the object for good, as the code does
(`mvfs_linux_iops.c` 821, 960); `dc.lost` counts these. mknod of a VOB object is always refused. `Shadow` has one step between
two holds of `vnlayer_cvn_spinlock`; a check of permissions reads the real inode in one step and uses it in
another. `Ctxt` has one step per call that another thread can
get between; POSIX locks are kept per inode and owner, and the lock of a file system without a lock method is
recorded with the MVFS file (`mvfs_linux_mvops.c` 2942). A thread that dereferences a null pointer goes to the state `oops` and stays there.

### Sohash and Eacl

`Sohash` works on addresses that are reused as soon as they are free, lowest first. Keys are
two bits reversed, and two entries may have the same key, as in the thread table, whose
callback tells them apart (`Verified`); `present` is the history the results are compared with. Every allocation may
fail; a search then answers NULL, as for an entry that is absent, and `nomem` remembers why. The cleanup is one step once it has
its hazard record; without one it leaves the table in its state for good. `Eacl` keeps the
pool lock across the fetch, block by block, and lets the server change the list between blocks.

## Runs

| run | instance | shows |
|---|---|---|
| MnodeLife | 2 threads, up to 3 mnodes, 3 identities, table of 3 or 4, two freelist chains; eight loads | `MnodesSound`: no dangling pointer, exact reference and mount counts, an idle mnode in one place, lists as the driver's own verification wants them; `TableSound`: count and marks exact; `NoResurrection`: an mnode on the destroy list is not used again; `TableSpec`: every step uses the table as the monitor allows |
| MnodeLive | 2 threads, 2 mnodes | `MnodeProgress`: destroys happen, `mfs_mnget` returns |
| RpcCalls | 2 threads, 2 calls, 3 handles, a fault, a cache of 2 replaced by one of 1, a wrap of ids at 3 | `HandlesSound`: handles are exclusive and not lost, marks agree with use; `AtMostOnce`: a call is executed once, and `XidsIncrease`: ids are in order on every socket, both through the wrap but for the calls it overtook |
| RpcSoft | 1 soft-mounted call, any number of faults, a restart, a wrap | `SoftReturns` |
| Activation | 3 threads, 3 inodes, 4 operations | `ActivationSound`: no dying vnode is used, references exact; `NoMissedWakeup`; `NoStrandedFile`: no temporary name left behind unless the call for it failed; `OpsReturn` |
| Audit | 3 tasks, 2 audit files, 2 objects, one too large for a buffer; 4 ioctls or accesses, any number of entries, exits and purges | `AfpsSound`: references exact, nothing freed under a user, one structure per file; `NothingLost`: every accepted record is written or its loss reported; `SyncComplete` |
| Dnc | 2 threads, 2 entries, 2 build handles, 2 changes, five loads | `CacheSound`: lists and counts; `HitFresh`: no answer older than what this host was told; `FlushComplete`; `NameCacheSpec` |
| File | 2 threads, one in an audit, 3 OIDs, 2 writes, six loads | `FileSound`: references and opens pair up; `CleartextSafe`: shared cleartext untouched, path resolved by each credential; `DataKept`; `MarkerFresh`; `ViewInformed`: the new OID is recorded before the data changes, times and size sent at close |
| Dirs | 2 threads, 2 versions of a directory, 3 names, 5 objects, eight loads | `ListingSound`: a listing has what was there all the time and nothing that never was; `RebindFresh`: operations are done on the version the view selects; `RemovedWhileOpen`: an open file keeps a name, a temporary name has somebody to remove it; `OpsReturn` |
| Views | 2 threads, 1 tag, 2 storages, 4 view vnodes, 2 VOBs, eight loads | `ViewsHeld`: references exact; `StaleRefused`: nothing is bound through a removed view; `NamesSound`: directory, export table and mounts agree |
| Linux | 2 threads, 5 dentries, 2 names; a native process; 3 tasks in 2 processes, 2 files | `NamesSound`: references exact, one object under one name in both trees; `RealHeld`: real dentries in use are held; `FilesSound`: references, write counts and mappings of open files add up, no lock outlives its file; `SameObject`: what a walk or a revalidation accepts is what the real name leads to |
| Tables | 2 threads, 4 keys, up to 2 retirements before a scan; 2 callers, 2 mnodes, 2 role maps | `NodesSound`, `ResultsTrue`, `EntriesSound`, `FreshAcl`; nobody waits for ever |

Several invariants of one component are checked as one conjunction; its
conjuncts have names and comments of their own in the module.

### Loads

Most modules take a set of loads (`Works`, `Workloads`, `Jobs`): which operations happen
together, from which state, and how many. Every load is a choice in `Init`; the union is
what the run covers. They keep apart what does not interact, and the following, which
would break a property for a reason listed under *Disagreements*:

* `Mnode`: with sync an idle mnode may be on no list; with gets of view mnodes the mount count may be too high.
* `Rpc`: *RpcCalls* has no failing handle initialisation, *RpcSoft* has. `XidsIncrease` and `AtMostOnce` leave out the handles in `torn`: those on which a call stood between taking its id and its last transmission when the ids wrapped.
* `Audit`: `AnyReuse` is false: a file is set again only while a keeper holds it. With true TLC finds `AfpsSound` violated.
* `Dnc`: creations for which no vnode can be made (`Failing`) meet no lookups.
* `File`: lookups by name (`Looking`) happen while the file is not open, without writes and markers; the theorems ask for the same (`LookupsApart`).
* `Dirs`: the time of a directory moves with every change; with times that stay the same (`coarse`) `OpsReturn` and `ListingSound` are false. `RebindFresh` leaves out answers that events overtook (`late`), and is false of them. A temporary name whose rename or remove was answered with an error is exempt from `TempsOwned`.
* `Activation`: a temporary name whose rename or remove failed is exempt from `NoStrandedFile`: the code gives it up (`mvfs_vnodeops.c` 4129).
* `Views`: commands on tags run one after another (`serial`) where `StaleRefused` and `NamesSound` look; `Full`, `Racing` and `NfsRace` are concurrent and for `ViewsHeld`.
* `Views`: no fault in `vobmount` (freed twice then) and `specdev` (leaves the root recorded).
* `Linux`: one walker where a real directory is replaced, since `RealHeld` is false with two; of the check of permissions it speaks only while the dentry keeps its cleartext vnode; links are not renamed natively; `SameObject` asks of a revalidated directory that its real dentry be hashed, and is false of others; a change by another host (`far`) is exempt from `NamesTrue` until it is noticed; references lost without memory are counted apart (`dc.lost`).
* `Ctxt`: where the cleartext file system has no lock method, `LocksGone` claims nothing once a lock of an MVFS file was refused.
* `Sohash`: the last entry of the list is not deleted, nor an entry and then its predecessor by the same record; a search without memory is exempt from `ResultsTrue`.

The loads of `Views`: `Removing` and `History` make, remove and recover views under processes
that have them set, or history mode views; `Full` has one slot; `Exporting` adds the export
table and NFS handles; `Mounting` mounts, unmounts and unloads with every fault; `Filling` runs out of minors.

### Bounds

Every bound is a constant. Two threads are enough for most of the properties of
`Mnode`, because a lock has one owner and the races are between a
searcher and a releaser; three mnodes let a table grow and keep a hole below
the high water mark. `Activation` has three threads: one that inactivates, one
that waits and one that comes between. `MaxOps` only counts operations begun;
inside one, retries are unbounded. In `Rpc`, `MaxCalls` and `MaxFaults` bound
what is started and what goes wrong; *RpcSoft* has no bound on faults, and its
state count is the same with a larger `MaxWraps`, so that bound is not met. In *RpcCalls*
two calls with a rebind and a limit of 3 put a wrap before, between and inside the calls of another thread.
In `Audit` four operations are
enough for a build to set a file, start, and stop while the process that
inherited the audit still records; entering and leaving the file system are not
counted. In `Dnc` two entries make every add of a third name take one that is in use.
In `File` three OIDs allow a change of OID during another one, and `MaxGen` above `GenMod` lets
generations wrap. In `Dirs` a load has one or two changes by others and up to three calls, so that two operations can come between the parts of a third; three names over blocks of two make a listing take two parts. In `Views`
four vnodes allow a view and its history mode view to be removed while held and made again.
*MnodeLive* has one generation: with two, `mfs_mnget` can restart for ever
while others keep replacing the mnode it finds, as the code can.
Symmetry is used in safety runs only, on sets whose members are alike.
Deadlock is checked except in the runs of *Activation*, *Rpc*, *File*, *Dirs*, *Views* and *Linux*, where the number of
operations begun is bounded and a thread may stop at a null pointer.

### Fairness

Nothing obliges a user to start or to release anything: no fairness on those
actions. A thread inside the driver is a kernel thread and runs (weak fairness
of its steps); Linux queues the waiters of a mutex, so one that wants a lock
gets it in the end (strong fairness of taking a lock). In `Mnode` steps and locks
are not told apart and every thread inside has strong fairness. In `Rpc` a
message to a server that listens is delivered in the end unless a timeout
comes first. In `Dirs` every step of a thread inside an operation has weak fairness, and the lookup
after a create that was answered EEXIST has strong fairness: a view server asked again and again
answers in the end, however often it fails before.

## Disagreements

What code and text disagree about, or where the code goes wrong, met while modelling.
The runs exclude the cause as described under *Loads*, or a hazard in `PROJECT.json` says so.

* `mvfs_mnode.c` 1325: two creators of a fid both miss it in the second search of `mfs_mnget` and hash two mnodes; the comment at 1322 says the search is there for this.
* `mvfs_mnode.c` 3829: `mvfs_mnclear_logbits` stops one slot below the high water mark. 1353: the mount count stays one too high when a view mnode's statistics cannot be allocated. 3432: sync leaves an mnode on no list when it cannot get its lock (its comment admits it). 2915: `mnmax - 200` wraps below 200.
* `mvfs_rpcutl.c` 1670: around a wrap of ids a message carries the new boot time and the old, large id, against the comment at 617; and a retry, which reads the boot time again against the comment at 1700, is executed twice. 312: a handle stays marked in use after `MDKI_CLNTKUDP_INIT` failed. 1135, 1230: the path of the albd's reply is freed twice. 1185: an old port is kept when no address of the wanted family is listed.
* `mvfs_auditops.c` 226: a task finds an audit file that is being released for the last time, takes a reference, and the structure is freed; the loop the comment at 366 refers to does not exist. 735: an access between a marker and the write after it is dropped as a duplicate.
* `mvfs_clnt.c` 1033: the ENOENT entry of a name stays when its file was created and no vnode could be made; `mvfs_vnodeops.c` 2690 makes the caller responsible. 885: a retried history-mode lookup uses the name it freed. 214: `dir_eof` survives two changes within a tick, against the comment at 207.
* `mvfs_vnodeops.c` 4950: a name that another host created within the tick in which it was cached as absent makes create and lookup repeat for ever (comment at 4945). 7396, 7548: an answer to a rebinding that a checkout overtook is stored and makes the rebind cache valid again, against the comment at 2686. 4103, 5123: when the delayed remove fails, or the rename out of the way is answered with an error though it was done, the temporary name stays in the view; the comment at 4129 accepts it.
* `mvfs_vnodeops.c` 1654: `mvfs_pre_rdwr` fails with its reference to the cleartext held. 7125: a lookup lets the cleartext of an open file go, against the comment at 7120. 2486: the late answer of a lookup counts as newer than a marker. 7047: a view reference is kept when `mfs_mnget` fails.
* `mvfs_dncops.c` 1172: the count of ENOENT entries with other flags is not corrected when one is added again. 706: a change of size needs an idle system, as its comment says.
* `mvfs_vfsops.c` 2204: an NFS request holds a null vnode when the view is being removed. `mvfs_vwdirops.c` 448: an mnode released between the flush and the invalidation of a removed view stays cached. Also: export against rmviewtag, removal of all tags that skips some, a tag made after its removal, an unmount that purges and then returns EBUSY, a failed `vobmount` initialisation that frees twice.
* `mvfs_linux_mvops.c` 2226: a removal dereferences a null real dentry, where the comment at 2196 skips the call. 2217-2225: it takes the real inode before the directory, a native unlink after. 2588: a rename meets the same null dentry. 2946: the refusal of a lock on the MVFS file is ignored. 3112: a mapping gives up its denial of writers too early.
* `mvfs_linux_iops.c` 914: a lookup of a directory passes no name. `mvfs_linux_shadow.c` 523: attributes of a shadow inode are copied in the wrong direction. 478: the check of permissions keeps no reference to the real inode it works on, and may find none.
* `mvfs_linux_dops.c` 254: two walkers that meet a moved directory may use a released dentry. 226: a removed directory in use is still in the list of its parent and accepted, against the comment at 197. `mvfs_linux_iops.c` 821, 960: a lookup without memory keeps its reference for ever.
* `mvfs_sohash_table.c` 1465: retiring a node loses its delete bit, and an insert behind it can be lost. 764, 779: a search without memory answers as if the entry were absent, and the driver stops the system when it then finds it present (`mvfs_procops.c` 1147; the assertion at 697 has no EEXIST either). 463: a cleanup without memory leaves the table neither in use nor free. 513: it unlinks a sentinel from a local variable only. 1567: a scan dereferences hazard pointers to freed nodes. 1108: a record is linked in before the total is raised. 839: a record is leaked when a bucket cannot be initialised. 483: the loop of the cleanup goes one segment too far. The Makefile (line 201) does not enable the option.
* `mvfs_procops.c` 831: audit state is inherited at the first entry into the file system, not at fork. `mvfs_mdep_linux.c` 368: a reused pid may be taken for a process that died. `mvfs_acl.c` 304: a list is read after the lock of its validation was released.

## Proofs

`MnodeTableProofs` proves, for every set of mnodes and every table size, the
conjuncts of `TableSound`, together as `TableCorrect`, and the action property `GrowKeepsSlots`. They are not
inductive one by one: that the high water mark is right after a release needs
that it was the highest used slot, that a slot is found needs the count and the
first free slot together. `TableInv` is their conjunction; there is one lemma for each
operation of the monitor.

`ActivationProofs` proves, for any number of threads, inodes and operations,
the safety invariants of *Activation* (`ActivationCorrect`, `WakeupCorrect`, `FileCorrect`). `ActiveInv` is the inductive invariant:
who is at which place has the mnode lock (`LockInv`), who has a vnode (`HasInv`), that
all who have one have the linked one (`LinkInv`), that the inode counts them and
at most one thread inactivates it (`CountInv`), and that what `vnget` saw stays true
under the lock (`SawInv`). `NoMissedWakeup` needs all of these: a dying vnode stays
dying because there is no holder left to release it and igrab fails, and it is
unlinked only under the lock. Reference counting adds `AloneInv` (an unlinked vnode
belongs to one thread), the delayed remove adds `FileInv` (only the
first rename finds the old name, and a temporary name nobody will remove is one whose rename or remove failed). The assumptions are that the threads
are finitely many and that `Null` and the name are none of them.

`AuditProofs` proves the three invariants of *Audit* for any number of tasks, audit files,
records and operations, with failing writes: `AfpsAreSound`, `NothingIsLost` and
`SyncIsComplete`. The hypothesis `~AnyReuse` is the one the run has: a file is set again only
while a keeper holds it. Without it the theorems are false (`mvfs_auditops.c` 226, see
*Disagreements*). What a task still has to do is a list, so the inductive invariant `AuditInv`
first says which step may come before which (`Ordered`) and which stand together (`Paired`: the
extra reference is taken just before the exchange, the buffer is written just before its error is
reaped); the lemmas on `IsList` and `Splice` carry this through every call and step. From the
steps still to come follows what the task has (`TaskInv`), in particular how much of what was
recorded when its call began is written (`SyncComplete` is its last conjunct). `KeeperInv` says
that a keeper never gives up its file; `FindInv`, that a file looked for is kept by somebody or has no
structure, and that a structure found stays, so that the wait of `mfs_afpget` is harmless. `AfpInv`
counts the references (`RefCount`: threads, processes, the extra one, those in steps) and has the
balance of records; it is needed for all audit files at once, because a release by one task writes
records of others. A step of one task leaves the others alone (`OtherTask`), which needs that an audit
file pointed to only grows (`Grows`); `RefStep` gives the count after any step. The
assumptions are that there are finitely many tasks and that `Null` is none of them and no structure.

`FileProofs` proves four of the five invariants of *File* for any number of threads, OIDs, writes and
markers and any width of a generation: `FileIsSound`, `CleartextIsSafe`, `DataIsKept` and `MarkersAreFresh`.
A step of `File` is a chain of operators, each from a state to the set of its outcomes, so most of
the proof is about these and not about states: `Good` is what holds of the mnode and the view together,
`Step` what every call made under the lock keeps (references against holders, the binding of an open file,
what the view knows), `Got` what getting the cleartext does besides, `Chosen` what a change of the OID does.
They are proved call by call along the call tree, from `mfs_clear_rele` up to `mvfs_change_oid_subr`.
The inductive invariant `FileInv` then adds what the threads remember between their holds of the
lock. `RefsHeld` and `OpensPaired` are inductive only together with the places of the threads
(`Locals`: who has a cleartext vnode in hand, who has the file open and how). `SharedIntact` needs that a thread
about to change data works on a private copy and that no copy turns shared again (`Copied`). `DataKept` is false
in the middle of a truncation, so `Data` says what the files hold meanwhile (`Cutting`), and that
without a private copy nothing was written. `MarkerFresh` needs that the generation of a live mnode and all
later ones are less than one turn apart (`Marks`, with `WordNext`), which the reset in
`mfs_mn_newattrgen` at a wrap brings about. TLC checks `FileInv` on the instance of the run. The hypothesis `LookupsApart` says that
lookups by name do not come while the file can be open or a marker set: otherwise `OpensPaired` and `MarkerFresh`
are false (`mvfs_vnodeops.c` 7125 and 2486, see *Disagreements*). The assumptions are that the threads are finitely many, that
the two cleartexts differ and `Null` is no vnode, and that a generation has at least two values.

`ViewsProofs` proves the three invariants of *Views* for any number of threads, views, tags, VOBs, slots and
minors: `ViewsAreHeld`, `StaleIsRefused` and `NamesAreSound`.
The count of a view is not touched by one place but by every handler, so the invariant `ViewsInv` is stated as a
balance: `Spare` is what the slot and the mnodes of a view leave of its count, `Taken` what processes and operations
hold (`Counts`). Every operator on the directory is first shown to change `Spare` by the holds it takes or gives up,
then every action to change the share of its thread by as much. This needs to know which threads have a view
at which step (`ThreadAt`), where two threads may remove or recover the same view, that a used mnode is one a
process stands in (`Nodes`), and that a view removed before an operation began and not brought back has no id
(`DeadGone`), since a bind compares ids.
`StaleRefused` and `NamesSound` hold where commands on tags run one after another, but not inside a command: a new
view has its slot before its id, a removed one is still exported after its slot was emptied. `NamesInv` therefore has the agreement of
slots, ids and export table up to the views some command is at work on (`DirTrue`, with `Inserting`, `Describing` and
`Unexporting`), that there is one such command (`OneAdmin`), and what each thread knows at its step of its view and
will rely on at the next (`Knows`): an NFS handle, say, leads to whatever view has its export id by now, so between `VgetNode` and the
end of the request the storage of that view has been compared. Operators that only move counts keep all this (`Alike`), and one lemma for each of the
others (`DirAdd`, `DirSet`, `DirExport` and so on) says what it makes true; TLC checks `NamesInv` on the run's instance.
The mounts need more than `MountsSound` says: `SysTrue` has that minors come from mounts, that the table has every mounted
VOB, and that the subsystems are up together (`Joined`, `Parted` and `Stays` are the three ways a mount or unmount can end).
`NamesAreSound` has the hypothesis of the run, no fault where the code frees the VOB mounts twice or leaves the view root
recorded (`FaultsApart`, `mvfs_vfsops.c` 501, see *Disagreements*): with such a fault `MountsSound` is false.
The assumptions (`ViewsAssumption`, `MountsAssumption`) are that threads and VOBs are
finitely many, that `Null` is none of the values it stands beside and the view root no VOB, that the map of minors has at least the
fixed pair, and that where a load begins with something mounted or exported there is something to mount or export.

`TablesProofs` proves the two invariants of the ACL cache in *Tables* for any number of threads,
objects, entries and blocks: `EntriesAreSound` and `AclIsFresh`. `AclInv` says what a thread holds by
where it is (`ThreadInv`), that the entry of an unlocked mnode is linked in and that of its role map (`MnodeInv`),
that an entry not linked in is being fetched under the hash lock (`EntryInv`), that a role map has
one entry (`OneEntry`) and that the references are exact (`RefInv`). Freshness needs in addition that the server's
times only grow, and that an ACL that still passes for valid was fetched after the last
invalidation: the floor of a check is compared when the check validates and stays under what it then uses.

`RpcProofs` proves `HandlesSound` for any number of threads, handles, calls, faults and any
cache sizes. The handles are exclusive only if the marks in the cache are right and the other way
round: `HandleInv` has both (`SlotTrue`, `HeldOnce`, `HeldLive`, `NoneLost`), that a handle
has one slot (`SlotOnce`) and that a new one is in no slot until its call inserts it (`NewUncached`).
`Shape` says what a thread's stack can look like and in which frames there is a handle. The hypothesis
`~InitFails` is the one of *RpcCalls*: with it false a failed initialisation leaves a handle marked in use
without a call (`mvfs_rpcutl.c` 312).

`RpcIdProofs` proves, on top of that, `XidsIncrease` and `AtMostOnce`. `IdInv` says of
every call in progress (`Ok`): what was sent on its socket is not newer than its transaction
(`NotNewer`); if the server executed it, that transaction is the last the server saw, executed with success
(`ExecutedLast`); its earlier transactions can no longer be executed (`OldDead`); and an answer that it was
denied is true, or the server has moved (`DeniedKnown`), which is what makes the new transaction
of `RetryUid` safe. `CallInv` says that what is under way belongs to a call in progress, so a handle is given to the next
call with nothing under way, and `FrameInv` that a call that may not rebind is on a soft mount, so no call to the view
server takes a new id after a timeout. `CallsOnce` has the hypothesis `[]NoWrap` (the counter stays below
`MVFS_XID_ULIMIT`) and then has it of every call, without the exception for handles in `torn`; `AtMostOnce` with a wrap is model-checked. `IdsNeverGoBack` has not: `OrderInv` says, through any number of
wraps, that on a handle that is not in `torn` what was sent and seen is not newer than the transaction of the call
that has it, or than the next id that will be given out. Outside `torn` the claim is false.

Only model-checked: the invariants of `Mnode`, `Dnc`, `Dirs` and `Linux` (with `Dcache`, `Shadow` and `Ctxt`), those of the lock-free table, `ViewInformed` of
`File` (whose second half is about the end of all activity and would need every path that
leaves the size unknown), the refinement of `NameCache`, and all liveness (`MnodeProgress`, `SoftReturns`,
`OpsReturn`): the prover has no rule for fairness or ENABLED. `Dnc`, `Ctxt` and `Sohash` use folds and sequence
operators of the community modules; what those compute for every input would need induction.
(`Audit` uses one, for the space taken in a buffer; its proofs need nothing about it.)
That `Mnode` implements `TableSpec` is checked by TLC; `TableCorrect` then carries over.

Worth proving next: the invariants of `Linux`, and the initial condition and steps of the refinement of `NameCache`.

## Not modelled

* ioctl dispatch and the copying of arguments between 32- and 64-bit callers
  (`mvfs_mioctl.c` but for the commands in `Views`, `Audit` and `Dnc`, `mvfs_transtype.c`,
  `mvfs_copy.c`), XDR, credential conversion, logging, the allocator: they
  convert, copy and forward, and keep no state that two threads could see in different orders.
* The sizes of tables and caches (`mvfs_tunables.c`, the clamps in `mvfs_mnode.c`): numbers
  computed once from other numbers; the models take the results as constants.
* Statistics, dumps and console messages of every component.
* Case-insensitive names, which nothing in this tree adds to the caches; the read-only
  directory of NT views; `HAVE_SHADOW_FILES`, which the build does not define.
* The evaluation of an access list against a credential, and mode bits: a function of the list.
* Address space operations and the encoding of NFS handles on Linux, poll and ioctl of files: they forward.
* Weak memory: all models are sequentially consistent. `Sohash` relies on the barriers of
  its compare-and-swap.
