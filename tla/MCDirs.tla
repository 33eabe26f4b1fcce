------------------------------- MODULE MCDirs -------------------------------
(* Two threads under two build handles; d1 has two names, objects 1 and 2.   *)
EXTENDS Dirs

CONSTANTS t1, t2, b1, b2

MCBhOf == (t1 :> b1) @@ (t2 :> b2)
Work(ops, dirs, max) == [ops |-> ops, dirs |-> dirs, max |-> max, init |-> {1, 2}, others |-> 0, coarse |-> FALSE]
Listing == [Work({"readdir", "mkdir", "other"}, {d1}, 3) EXCEPT !.others = 1]
Rebinding == [Work({"lookup", "rebind", "checkout", "time", "stat"}, {d1}, 3) EXCEPT !.init = {1}]
Returning == [Work({"lookup", "rebind", "checkout"}, {d1, d2}, 2) EXCEPT !.init = {1}]
Unlinking == Work({"open", "remove", "rename", "intr"}, {d1}, 3)
Linking == Work({"link", "mkdir", "symlink", "rmdir", "open", "remove", "rename", "intr"}, {d1}, 2)
Creating == [Work({"create", "other", "time", "intr"}, {d1}, 2) EXCEPT !.others = 1, !.init = {1}]
Racing == [Work({"create", "other", "time"}, {d1}, 1) EXCEPT !.others = 2, !.init = {1}]
Moving == [Work({"rename", "mkdir"}, {d1, d2}, 2) EXCEPT !.init = {1}]
MCWorkloads == {Listing, Rebinding, Returning, Unlinking, Linking, Creating, Racing, Moving}
=============================================================================
