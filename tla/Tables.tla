------------------------------- MODULE Tables -------------------------------
(* The two tables that hand out shared entries by key: the lock-free table    *)
(* of threads (Sohash) and the hash of effective ACLs (Eacl). They share no   *)
(* state; a behaviour exercises one of them, the other having no calls.       *)
EXTENDS Integers, Sequences, FiniteSets

CONSTANTS
    Threads, MaxNodes, Jobs,                     \* of Sohash
    Callers, Mnodes, MaxEnt, Blocks, Nobody, Works,   \* of Eacl
    NoJob, NoWork                                \* a scenario without calls

(* What the calls of a scenario of Eacl name: objects, or a role map or the   *)
(* policy (0) to invalidate.                                                  *)
AclOps == ({"attr", "check", "free"} \X Mnodes) \cup ({"inval"} \X (0 .. 2))

ASSUME EaclAssumption ==
    /\ IsFiniteSet(Callers) /\ IsFiniteSet(Mnodes)
    /\ Nobody \notin Callers
    /\ MaxEnt \in Nat /\ Blocks \in Nat
    /\ \A w \in Works \cup {NoWork} :
          /\ w.role \in [Mnodes -> 0 .. 2] /\ w.moves \in [Mnodes -> Seq(0 .. 2)]
          /\ w.changes \in Nat
          /\ w.ops \in [Callers -> Seq(AclOps)]

VARIABLES tbl, mem, rec, thr, present, srv, mn, ent, pool, cal, floor

LockFree == INSTANCE Sohash
Acls == INSTANCE Eacl

soVars == <<tbl, mem, rec, thr, present>>
eaVars == <<srv, mn, ent, pool, cal, floor>>

Init ==
    \/ LockFree!Init /\ Acls!EaclInit(NoWork)
    \/ LockFree!InitTable(NoJob) /\ Acls!Init

(* The table of threads is emptied when the module is unloaded, after the     *)
(* last call.                                                                 *)
Next ==
    \/ Acls!Next /\ UNCHANGED soVars
    \/ (\A t \in Callers : cal[t].ops = << >>) /\ LockFree!Next /\ UNCHANGED eaVars

Spec == Init /\ [][Next]_<<soVars, eaVars>>

-----------------------------------------------------------------------------
(* The list holds what was inserted and not deleted, in order; no thread     *)
(* looks at a node that was freed, and no node is lost (Sohash).              *)
NodesSound == LockFree!ListSound /\ LockFree!SafeWalk /\ LockFree!NothingLeaks

(* Every call returns what some order of the calls explains, or had no memory *)
(* (Sohash).                                                                  *)
ResultsTrue == LockFree!ResultsTrue

(* References to ACL entries add up, one entry per role map (Eacl).           *)
EntriesSound == Acls!EntriesSound

(* Access is decided by a current ACL (Eacl).                                 *)
FreshAcl == Acls!FreshAcl
=============================================================================
