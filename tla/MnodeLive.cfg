SPECIFICATION FairSpec
CONSTANTS
  t1 = t1
  t2 = t2
  t3 = t3
  m1 = m1
  m2 = m2
  m3 = m3
  fa = fa
  fb = fb
  fr = fr
  vw1 = vw1
  vw2 = vw2
  vfs1 = vfs1
  vfs2 = vfs2
  Null = Null
  InTrans = InTrans
  NoFid = NoFid
  Class <- MCClass
  View <- MCView
  Vfs <- MCVfs
  HashOf <- MCHashOf
  StkFreeQLen = 1
  MaxRetry = 1
  MnplistSize = 2
  MaxMmi = 3
  Threads = {t1, t2}
  Mnodes = {m1, m2}
  Fids = {fa, fb, fr}
  Gens = {0}
  InitMnMax = 3
  MaxMnMax = 4
  vobfreehashsize = 1
  vobfreemax = 1
  vobfreemin = 0
  cvpfreemax = 1
  cvpfreemin = 0
  Works <- LiveWorks
PROPERTY MnodeProgress
