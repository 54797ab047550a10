SPECIFICATION StoreSpec
CONSTANTS
  d1 = d1
  d2 = d2
  t1 = t1
  t2 = t2
  f1 = f1
  f2 = f2
  v1 = v1
  x1 = x1
  x2 = x2
  NoDoc = NoDoc
  NoWrite = NoWrite
  Documents = {d1, d2}
  Tenants = {t1, t2}
  Names = {f1, f2}
  Sessions = {x1, x2}
  Contents = {v1}
  MaxRuns = 3
  MaxFaults = 1
SYMMETRY Interchangeable
INVARIANTS
  StoreTypeOK
  DocumentAndChunksAgree
  StaleChunksExplained
  
PROPERTIES
  RemovedByItsTenant
CHECK_DEADLOCK FALSE
