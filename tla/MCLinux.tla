------------------------------ MODULE MCLinux -------------------------------
EXTENDS Linux, TLC
CONSTANTS t1, t2, n1, n2, d1, d2, f1, re, rs, l1, v1, s1, a1, a2, b1, p1, p2

\* Dcache: the calls of two threads, from a root with a directory and a file.
MCRootOf == [ext |-> re, set |-> rs]
DcJob(ops, max, full) == [ops |-> ops, max |-> max, full |-> full]
One == n1 :> d1 @@ n2 :> f1
Bare == n1 :> Null @@ n2 :> f1
Two == n1 :> d1 @@ n2 :> d2
MCJobs == {DcJob({}, 0, One),
           DcJob({"go", "unlink", "create"}, 3, One), DcJob({"symlink", "mknod", "unlink"}, 2, One), DcJob({"go", "rmdir", "mkdir"}, 3, One), DcJob({"go", "rename"}, 4, One),
           DcJob({"go", "rename"}, 3, Two), DcJob({"go", "link", "unlink", "rename"}, 3, Bare),
           DcJob({"go", "rename", "rmdir", "mkdir"}, 3, One), DcJob({"go", "nfs", "rename"}, 3, One),
           DcJob({"go", "nfs", "unlink", "reval", "flush"}, 3, One), DcJob({"go", "far", "reval", "nomem"}, 3, One),
           DcJob({"rename", "far"}, 2, One), DcJob({"go", "rename", "flush"}, 3, One)}

\* Shadow: a link and a device, or a directory.
LinkDev == n1 :> l1 @@ n2 :> v1
Dir == n1 :> s1 @@ n2 :> Null
ShJob(ops, who, max, native, nmax, full) ==
  [ops |-> ops, who |-> who, max |-> max, native |-> native, nmax |-> nmax, full |-> full]
Idle == ShJob({}, {}, 0, {}, 0, LinkDev)
MCShJobs == {Idle,
             ShJob({"unlink", "readlink", "permission", "symlink"}, {t1, t2}, 3, {"nunlink"}, 1, LinkDev),
             ShJob({"keep", "unlink", "symlink"}, {t1, t2}, 3, {"nunlink"}, 1, LinkDev),
             ShJob({"rename", "unlink", "symlink", "mknod", "keep"}, {t1, t2}, 3, {}, 0, LinkDev),
             ShJob({"rename", "readlink"}, {t1}, 3, {"nunlink"}, 2, LinkDev),
             ShJob({"rmdir", "mkdir", "setattr"}, {t1, t2}, 4, {"nunlink"}, 1, Dir),
             ShJob({"setattr", "keep"}, {t1}, 3, {"nmove"}, 1, Dir),
             ShJob({"rename", "keep", "mkdir"}, {t1}, 3, {"nunlink", "nmove"}, 2, Dir),
             ShJob({"unlink", "follow", "xattr"}, {t1, t2}, 2, {"nunlink"}, 1, LinkDev),
             ShJob({"getattr", "setattr", "unlink"}, {t1, t2}, 2, {"nattr", "nunlink"}, 1, LinkDev)}

\* Ctxt: two threads of one process and one of another.
MCProcOf == a1 :> p1 @@ a2 :> p1 @@ b1 :> p2
CtJob(ops, max, fails, method) == [ops |-> ops, max |-> max, fails |-> fails, method |-> method]
MCCtJobs == {CtJob({}, 0, FALSE, FALSE), CtJob({"open", "close", "mmap", "munmap"}, 5, FALSE, FALSE),
             CtJob({"open", "fork", "close", "lock"}, 5, TRUE, TRUE), CtJob({"open", "fork", "close", "lock"}, 5, FALSE, FALSE),
             CtJob({"open", "fork", "close", "lock", "unlock"}, 4, TRUE, TRUE),
             CtJob({"open", "close", "rdwr", "fsync", "llseek", "readdir"}, 3, FALSE, TRUE)}
=============================================================================
