SPECIFICATION Spec
CONSTANTS
  s1 = s1
  s2 = s2
  t1 = t1
  f1 = f1
  f2 = f2
  c1 = c1
  c2 = c2
  w1 = w1
  w2 = w2
  Absent = Absent
  Deleted = Deleted
  NoRequest = NoRequest
  NoDoc = NoDoc
  NoWrite = NoWrite
  NoJob = NoJob
  Sources = {s1, s2}
  FileNames = {f1, f2}
  Unsupported = {f2}
  Tenants = {t1}
  Clients = {c1, c2}
  Workers = {w1, w2}
  MaxRequests = 4
  MaxUploads = 2
  MaxFaults = 1
  MaxRuns = 2
SYMMETRY Interchangeable
INVARIANTS
  TypeOK
  
  OrphanExplained
  SyncedContentStored
PROPERTIES
  ContentNeverOlder
CHECK_DEADLOCK FALSE
