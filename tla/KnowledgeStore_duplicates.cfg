SPECIFICATION StoreSpec
CONSTANTS
  d1 = d1
  d2 = d2
  t1 = t1
  t2 = t2
  f1 = f1
  f2 = f2
  v1 = v1
  x1 = x1
  x2 = x2
  NoDoc = NoDoc
  NoWrite = NoWrite
  Documents = {d1, d2}
  Tenants = {t1}
  Names = {f1, f2}
  Sessions = {x1}
  Contents = {v1}
  MaxRuns = 2
  MaxFaults = 0
INVARIANTS
  NoDuplicates
CHECK_DEADLOCK FALSE
