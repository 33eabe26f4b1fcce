------------------------------- MODULE MCMnode -------------------------------
(* Instances of Mnode: fids fa and fb are VOB objects of one view in two    *)
(* mounts, fr is a VOB root.                                                *)
EXTENDS Mnode

CONSTANTS t1, t2, t3, m1, m2, m3, fa, fb, fr, vw1, vw2, vfs1, vfs2

MCClass == [k \in Requests |-> IF k = NoFid THEN "VIEW" ELSE
                               IF k = fr THEN "VOBRT" ELSE "VOB"]
MCView == [k \in Requests |-> IF k = fb THEN vw2 ELSE vw1]
MCVfs == [k \in Requests |-> IF k = fb THEN vfs2 ELSE vfs1]
\* All VOB objects collide in one chain.
MCHashOf == [k \in Requests |-> IF k = NoFid THEN 0 ELSE 1]

Load(ops, fids, gens, memory) == [ops |-> ops, fids |-> fids, gens |-> gens, memory |-> memory]
\* Gets and releases against the removal of a view, flushes of everything or of
\* one mount or view, cleartext flushes, view mnodes, scans, and a second generation.
MCWorks == {
  Load({"get", "rmview"}, {fa, fr}, {0}, 2), Load({"get", "flush"}, {fa}, {0}, 2),
  Load({"get", "flush"}, {fa, fb}, {0}, 1), Load({"get", "cvp"}, {fa}, {0}, 3),
  Load({"get", "viewget"}, {fr}, {0}, 2), Load({"get", "log", "sync"}, {fa}, {0}, 2),
  Load({"get", "oid"}, {fa}, {0}, 2), Load({"get"}, {fa}, {0, 1}, 2)}
LiveWorks == {Load({"get"}, {fr}, {0}, 2), Load({"get"}, {fa}, {0}, 2)}
Symmetry == Permutations(Threads) \cup Permutations(Mnodes)
=============================================================================
