SPECIFICATION Spec
CONSTANTS
  p = p
  c = c
  k = k
  a1 = a1
  a2 = a2
  f1 = f1
  f2 = f2
  x = x
  big = big
  Null = Null
  Tasks = {p, c, k}
  Parent <- MCParent
  Afps = {a1, a2}
  Files = {f1, f2}
  Objs = {x, big}
  Size <- MCSize
  buflen = 2
  duplsearchmax = 2
  Keepers = {k}
  AnyReuse = FALSE
  WriteFails = TRUE
  MaxOps = 4
INVARIANTS AfpsSound NothingLost SyncComplete
SYMMETRY Symmetry
