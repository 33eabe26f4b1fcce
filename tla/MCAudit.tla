------------------------------- MODULE MCAudit -------------------------------
(* Instances of Audit: p is a build, c a process it started, k a build that *)
(* keeps its audit file; x is small, big has a record larger than a buffer. *)
EXTENDS Audit, TLC

CONSTANTS p, c, k, a1, a2, f1, f2, x, big

MCParent == [t \in Tasks |-> IF t = c THEN p ELSE Null]
MCSize == [o \in Objs |-> IF o = big THEN buflen + 1 ELSE 1]

Symmetry == Permutations(Afps) \cup Permutations(Files)
=============================================================================
