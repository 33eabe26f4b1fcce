SPECIFICATION Spec
CONSTANTS
  Null = Null
  Threads = {t1, t2}
  t1 = t1
  t2 = t2
  Names = {n1, n2}
  n1 = n1
  n2 = n2
  Root = R
  Dirs = {d1, d2}
  Files = {f1, f2}
  d1 = d1
  d2 = d2
  f1 = f1
  re = re
  rs = rs
  Dents = {e1, e2, e3, e4, e5}
  RootOf <- MCRootOf
  Jobs <- MCJobs
  Native = {p}
  Links = {l1, l2}
  Devs = {v1, v2}
  Subdirs = {s1, s2}
  l1 = l1
  v1 = v1
  s1 = s1
  RDir = RDir
  LDir = LDir
  RDents = {r1, r2, r3, r4, r5, r6}
  Cvns = {c1, c2, c3, c4}
  LDents = {e1, e2, e3, e4}
  ShJobs <- MCShJobs
  Tasks = {a1, a2, b1}
  a1 = a1
  a2 = a2
  b1 = b1
  p1 = p1
  p2 = p2
  ProcOf <- MCProcOf
  Clears = {x}
  Fps = {g1, g2}
  Rfs = {h1, h2}
  Maps = {m1, m2}
  CtJobs <- MCCtJobs
INVARIANTS NamesSound RealHeld FilesSound
PROPERTIES SameObject
CHECK_DEADLOCK FALSE
