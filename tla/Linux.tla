------------------------------- MODULE Linux --------------------------------
(***************************************************************************)
(* The entry points of the module on Linux: the names of VOB objects in    *)
(* the dentry cache (Dcache), the objects outside the VOBs under a view    *)
(* tag (Shadow) and open files (Ctxt).  The three keep state of their own; *)
(* a behaviour exercises one of them, the others having no calls to make.  *)
(***************************************************************************)
EXTENDS Integers, FiniteSets

CONSTANTS
  Null, Threads, Names,
  Root, Dirs, Files, Dents, RootOf, Jobs,
  Native, Links, Devs, Subdirs, RDir, LDir, RDents, Cvns, LDents, ShJobs,
  Tasks, ProcOf, Clears, Fps, Rfs, Maps, CtJobs

VARIABLES ns, dc, act, job, sh, pr, left, ct, tk, todo

Dentries == INSTANCE Dcache
Loopback == INSTANCE Shadow
OpenFiles == INSTANCE Ctxt

vars == <<ns, dc, act, job, sh, pr, left, ct, tk, todo>>

Busy == {j \in {job, left, todo} : j.max > 0}
Init == Dentries!DcInit /\ Loopback!ShInit /\ OpenFiles!CtInit /\ Cardinality(Busy) = 1

Next == \/ job.ops # {} /\ Dentries!DcNext /\ UNCHANGED <<sh, pr, left, ct, tk, todo>>
        \/ left.ops # {} /\ Loopback!ShNext /\ UNCHANGED <<ns, dc, act, job, ct, tk, todo>>
        \/ todo.ops # {} /\ OpenFiles!CtNext /\ UNCHANGED <<ns, dc, act, job, sh, pr, left>>

Spec == Init /\ [][Next]_vars

-----------------------------------------------------------------------------
\* References to dentries and inodes add up, no name has two dentries, and cached names
\* lead to the object the view selects, in both trees (Dcache).
NamesSound == job.ops # {} => Dentries!DentriesSound /\ Dentries!NamesTrue

\* References to real dentries and cleartext vnodes add up, and nobody works on a real
\* dentry that is gone (Shadow).
RealHeld == left.ops # {} => Loopback!RealHeld

\* A walk under the view tag ends at the object of the real directory (Shadow).
SameObject == Loopback!SameObject

\* Cleartext files are open as long as they are needed, write counts are exact, and no
\* cleartext lock outlives its file or its descriptor (Ctxt).
FilesSound == todo.ops # {} => OpenFiles!CtxtHeld /\ OpenFiles!LocksGone
=============================================================================
