------------------------------ MODULE MCTables ------------------------------
(* Instances of Tables for TLC.                                               *)
EXTENDS Tables, TLC

CONSTANTS t1, t2, c1, c2, m1, m2

Job(keys, buckets, size, older, one, two) ==
    [keys |-> keys, buckets |-> buckets, size |-> size, older |-> older,
     ops |-> (t1 :> one @@ t2 :> two)]

(* A new table that grows; buckets initialised along a chain of parents.      *)
GrowJobs == {
    Job({}, {0}, 2, <<0>>, <<<<"insert", 0>>, <<"insert", 1>>>>, <<<<"insert", 1>>, <<"find", 0>>>>),
    Job({0, 1, 2}, {0, 1}, 2, <<0, 0>>, <<<<"insert", 3>>, <<"find", 2>>>>, <<<<"find", 3>>>>),
    Job({1, 2, 3}, {0}, 4, <<0, 0>>, <<<<"find", 3>>>>, <<<<"delete", 1>>, <<"find", 2>>>>)}

(* Deletes of neighbours and of the same entry, next to inserts and walks; a  *)
(* record that has retired four nodes scans at the second delete.             *)
ScanJobs == {
    Job({0, 1, 2}, {0, 1}, 2, <<4, 4>>, <<<<"find", 2>>>>, <<<<"delete", 0>>, <<"delete", 2>>>>),
    Job({0, 1, 2}, {0, 1}, 2, <<4, 4>>, <<<<"insert", 3>>>>, <<<<"delete", 2>>, <<"delete", 0>>>>),
    Job({0, 1}, {0, 1}, 2, <<0, 0>>, <<<<"insert", 2>>>>, <<<<"delete", 0>>>>),
    Job({0, 1, 2}, {0, 1}, 2, <<0, 0>>, <<<<"delete", 0>>, <<"insert", 0>>>>, <<<<"delete", 2>>>>),
    Job({0, 1, 2}, {0, 1}, 2, <<4, 4>>, <<<<"delete", 2>>, <<"insert", 2>>>>, <<<<"delete", 0>>, <<"delete", 2>>>>)}

(* Two owners with one key; a delete that leaves the only record in use.      *)
KeyJobs == {
    Job({0, 4, 1}, {0}, 2, <<0, 0>>, <<<<"find", 4>>, <<"delete", 4>>>>, <<<<"delete", 0>>>>),
    Job({0}, {0, 1}, 2, <<0, 0>>, <<<<"insert", 4>>>>, <<<<"delete", 0>>, <<"find", 4>>>>),
    Job({1}, {0}, 2, <<0>>, << >>, <<<<"delete", 1>>>>)}

MCJobs == GrowJobs \cup ScanJobs \cup KeyJobs
MCNoJob == Job({}, {0}, 2, <<0>>, << >>, << >>)

Work(r1, r2, moves, n, one, two) ==
    [role |-> (m1 :> r1 @@ m2 :> r2), moves |-> (m1 :> moves @@ m2 :> << >>),
     changes |-> n, ops |-> (c1 :> one @@ c2 :> two)]

(* Two objects with one role map that is changed and invalidated; an object   *)
(* whose role map is replaced and taken away; an invalidation of the policy.  *)
MCWorks == {
    Work(1, 1, << >>, 2, <<<<"attr", m1>>, <<"check", m1>>, <<"free", m1>>>>,
                         <<<<"attr", m2>>, <<"inval", 1>>, <<"check", m2>>>>),
    Work(1, 2, <<2, 0>>, 1, <<<<"attr", m1>>, <<"attr", m1>>, <<"check", m1>>>>,
                            <<<<"attr", m2>>, <<"check", m2>>, <<"free", m2>>>>),
    Work(1, 2, << >>, 1, <<<<"attr", m1>>, <<"check", m1>>>>,
                         <<<<"attr", m2>>, <<"inval", 0>>, <<"check", m1>>, <<"check", m2>>>>)}
MCNoWork == Work(1, 1, << >>, 0, << >>, << >>)
=============================================================================
