SPECIFICATION FairSpec
CONSTANTS
  t1 = t1
  t2 = t2
  h1 = h1
  h2 = h2
  h3 = h3
  h4 = h4
  h5 = h5
  h6 = h6
  Threads = {t1}
  Handles = {h1, h2, h3, h4, h5, h6}
  Null = Null
  Soft = {t1}
  SetuidRoot = {}
  CacheSizes = {1, 2}
  InitCacheSize = 1
  XidLimit = 3
  Probes = TRUE
  InitFails = TRUE
  MaxCalls = 1
  MaxFaults <- Unlimited
  MaxRestarts = 1
  MaxWraps = 1
PROPERTY SoftReturns
CHECK_DEADLOCK FALSE
