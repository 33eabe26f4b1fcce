SPECIFICATION Spec
CONSTANTS
  t1 = t1
  t2 = t2
  h1 = h1
  h2 = h2
  h3 = h3
  h4 = h4
  h5 = h5
  h6 = h6
  Threads = {t1, t2}
  Handles = {h1, h2, h3}
  Null = Null
  Soft = {t1}
  SetuidRoot = {t2}
  CacheSizes = {1}
  InitCacheSize = 2
  XidLimit = 3
  Probes = FALSE
  InitFails = FALSE
  MaxCalls = 2
  MaxFaults = 1
  MaxRestarts = 0
  MaxWraps = 1
SYMMETRY Symmetry
INVARIANT HandlesSound
PROPERTIES AtMostOnce XidsIncrease
CHECK_DEADLOCK FALSE
