------------------------------- MODULE MCFile -------------------------------
(* Two threads; a1 runs an audited build, a2 does not.                       *)
EXTENDS File

CONSTANTS t1, t2, c1, c2, a1

MCCredOf == (t1 :> c1) @@ (t2 :> c2)
MCAuditOf == (t1 :> a1) @@ (t2 :> Null)
Transfers == [modes |-> {"r", "w"}, ops |-> {"open", "read", "write"}, barred |-> {}]
Scrubbing == [modes |-> {"r", "w"}, ops |-> {"open", "scrub", "time"}, barred |-> {}]
Barring == [modes |-> {}, ops |-> {"read", "trunc", "write", "scrub", "time"}, barred |-> {c2}]
Copying == [modes |-> {"r", "t"}, ops |-> {"open", "trunc", "cow", "protect", "inactive"}, barred |-> {}]
Attributes == [modes |-> {}, ops |-> {"mode", "getattr", "mark", "time", "protect"}, barred |-> {}]
\* Lookups by name, while the file is not open and no marker is set.
Looking == [modes |-> {}, ops |-> {"read", "cow", "lookup"}, barred |-> {}]
MCWorkloads == {Transfers, Scrubbing, Barring, Copying, Attributes, Looking}
=============================================================================
