SPECIFICATION FairSpec
CONSTANTS
  t1 = t1
  t2 = t2
  t3 = t3
  v1 = v1
  v2 = v2
  v3 = v3
  Threads = {t1, t2, t3}
  Vnodes = {v1, v2, v3}
  Null = Null
  MaxOps = 4
INVARIANTS ActivationSound NoMissedWakeup NoStrandedFile
PROPERTY OpsReturn
CHECK_DEADLOCK FALSE
