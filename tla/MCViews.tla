------------------------------ MODULE MCViews -------------------------------
(* Two threads, the view root and two VOBs; see the README for the workloads. *)
EXTENDS Views

Work(ops, max) == [ops |-> ops, max |-> max, serial |-> TRUE, mounted |-> TRUE, exported |-> FALSE, minors |-> 6, slots |-> 3]
Removing == Work({"mk", "rm", "view", "set", "bind"}, 6)
History == Work({"mk", "rm", "hm", "bind", "clean"}, 6)
Full == [Work({"mk", "rm", "hm"}, 4) EXCEPT !.serial = FALSE, !.slots = 1]
Exporting == [Work({"mk", "rm", "view", "export", "unexport", "bind", "vget"}, 5) EXCEPT !.exported = TRUE]
Racing == [Work({"mk", "rm", "rmall", "export", "hm"}, 5) EXCEPT !.serial = FALSE]
Mounting == [Work({"mk", "rm", "set", "bind", "mount", "unload"}, 6) EXCEPT !.mounted = FALSE]
Filling == [Work({"mount"}, 6) EXCEPT !.minors = 4, !.mounted = FALSE]
NfsRace == [Work({"rm", "vget", "bind"}, 3) EXCEPT !.serial = FALSE, !.exported = TRUE]
MCWorkloads == {NfsRace, Removing, History, Full, Exporting, Racing, Mounting, Filling}
=============================================================================
