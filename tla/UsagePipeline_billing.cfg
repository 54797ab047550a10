SPECIFICATION Spec
CONSTANTS
  n1 = n1
  e1 = e1
  e2 = e2
  e3 = e3
  e4 = e4
  c1 = c1
  c2 = c2
  Nothing = Nothing
  Tenants = {n1}
  Events = {e1}
  Collectors = {c1}
  TenantOf <- OneTenant
  CostOf <- CostOne
  MonthOf <- OneMonth
  MaxQueueLen = 2
  BatchSize = 1
  MaxRollups = 2
  MaxStops = 0
  MaxFaults = 0
  LastDay = 1
INVARIANTS
  DailyDescribesUsage
CHECK_DEADLOCK FALSE
