SPECIFICATION FairSpec
CONSTANTS
  t1 = t1
  t2 = t2
  b1 = b1
  b2 = b2
  d1 = d1
  d2 = d2
  Null = Null
  Threads = {t1, t2}
  BhOf <- MCBhOf
  Frozen = b2
  NameCount = 3
  TempCount = 2
  MaxObj = 5
  Blocks = 2
  KernelLocks = TRUE
  Workloads <- MCWorkloads
INVARIANTS ListingSound RebindFresh RemovedWhileOpen
PROPERTY OpsReturn
CHECK_DEADLOCK FALSE
