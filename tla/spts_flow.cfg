SPECIFICATION FairSpec
CONSTANTS
  t = t  o = o
  pat = pat  cat = cat  pm1 = pm1  pm2 = pm2  e1 = e1  e2 = e2  e3 = e3
  Programs = {t, o}  Target = t
  Pids = {pat, cat, pm1, pm2, e1, e2, e3}
  PatPid = pat  CatPid = cat
  Pats <- MCPats  Pmts <- MCPmts  Versions = 32
  Loose = {e1}
  MaxBatch = 1  Capacity = 1  Timeout = 1
INVARIANTS
  TypeOK
  FollowsTables
PROPERTIES
  CatchesUp
  OrphanEnds
  UdpImplementsLife
  SptsImplementsLife
CHECK_DEADLOCK FALSE
