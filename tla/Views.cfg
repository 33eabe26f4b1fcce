SPECIFICATION Spec
CONSTANTS
  Null = Null
  RootVfs = root
  Vobs = {m1, m2}
  Paths = {p1, p2}
  Faults = {"mdep", "minormap", "util", "mnode", "proc", "audit", "view", "dnc", "clnt", "acl", "cred", "none", "mmi", "copyin", "devnum", "rootnode"}
  Threads = {t1, t2}
  Tags = {a}
  Uuids = {u1, u2}
  Views = {v1, v2, v3, v4}
  Chunk = 2
  MaxExport = 3
  MaxMounts = 3
  Workloads <- MCWorkloads
INVARIANTS ViewsHeld StaleRefused NamesSound
CHECK_DEADLOCK FALSE
