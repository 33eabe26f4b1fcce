SPECIFICATION Spec
CONSTANTS
  t1 = t1
  t2 = t2
  dir1 = dir1
  n = n
  up = up
  root = root
  b1 = b1
  b2 = b2
  no = no
  f = f
  Null = Null
  Threads = {t1, t2}
  Dirs = {dir1}
  Names = {n, up}
  Root = root
  DirOf <- MCDirOf
  Removal <- MCRemoval
  Up = {up}
  HashOf <- MCHashOf
  Answers = {no, f}
  Enoent = no
  Kind <- MCKind
  FidOf <- MCFidOf
  Bhs = {b1, b2}
  NullBh = b1
  RefTime <- MCRefTime
  BhMax = 1
  Ents = {1, 2}
  Homes <- MCHomes
  Workloads <- MCWorkloads
  MaxClock = 2
  MaxGen = 1
INVARIANTS CacheSound HitFresh FlushComplete
PROPERTY NameCacheSpec
SYMMETRY Symmetry
