SPECIFICATION CollectorSpec
CONSTANTS
  n1 = n1
  e1 = e1
  e2 = e2
  e3 = e3
  e4 = e4
  c1 = c1
  c2 = c2
  Nothing = Nothing
  Tenants = {n1}
  Events = {e1, e2, e3, e4}
  Collectors = {c1, c2}
  TenantOf <- OneTenant
  CostOf <- CostOne
  MonthOf <- OneMonth
  MaxQueueLen = 1
  BatchSize = 1
  MaxRollups = 2
  MaxStops = 1
  MaxFaults = 1
  LastDay = 3
INVARIANTS
  TypeOK
  AuditConserved
  AuditNotDuplicated
  
  
PROPERTIES
  EventuallyAudited
CHECK_DEADLOCK FALSE
