SPECIFICATION Spec
CONSTANTS
  t1 = t1
  t2 = t2
  c1 = c1
  c2 = c2
  a1 = a1
  Null = Null
  Sh = Sh
  Pv = Pv
  Threads = {t1, t2}
  CredOf <- MCCredOf
  AuditOf <- MCAuditOf
  Workloads <- MCWorkloads
  MaxOid = 3
  MaxData = 2
  GenMod = 2
  MaxGen = 3
INVARIANTS FileSound CleartextSafe DataKept MarkerFresh ViewInformed
CHECK_DEADLOCK FALSE
