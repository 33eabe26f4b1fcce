-------------------------------- MODULE MCDnc --------------------------------
(* One directory, dir1, with a name n, and "..".                                  *)
EXTENDS Dnc, TLC

CONSTANTS t1, t2, dir1, n, up, root, b1, b2, no, f

MCDirOf == [k \in Names |-> dir1]
MCRemoval == [k \in Names |-> <<k>>]
MCHashOf == [k \in Keys |-> IF k = Root THEN 1 ELSE 0]
MCKind == [a \in Answers |-> IF a = no THEN "noent" ELSE "dir"]
MCFidOf == [a \in Answers |-> IF a = no THEN no ELSE f]
\* The reference time of b1 is later than everything, that of b2 earlier.
MCRefTime == {b1} \X Answers
MCHomes == {<<"dir", "noent">>}
Changing == [keys |-> {n}, ops |-> {"lookup", "fill", "create", "remove", "inval", "getattr", "others"}]
Reloading == [keys |-> {n}, ops |-> {"lookup", "fill", "inval", "others", "reload"}]
Rooted == [keys |-> {up, root}, ops |-> {"lookup", "fill", "inval", "others", "rvc"}]
Sizing == [keys |-> {n}, ops |-> {"lookup", "fill", "invalobj", "invalvw", "flush", "resize", "select"}]
\* No vnode can be made for a created object; no lookup has entered that it is missing.
Failing == [keys |-> {n}, ops |-> {"create", "remove", "novnode", "reload"}]
MCWorkloads == {Changing, Reloading, Rooted, Sizing, Failing}
Symmetry == Permutations(Threads)
=============================================================================
