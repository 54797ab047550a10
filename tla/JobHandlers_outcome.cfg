SPECIFICATION Spec
CONSTANTS
  w1 = w1
  w2 = w2
  r1 = r1
  r2 = r2
  i1 = i1
  n1 = n1
  n2 = n2
  NoTask = NoTask
  Workers = {w1, w2}
  Tasks = {r1}
  ReportTasks = {r1}
  WebTasks = {r1}
  Tenants = {n1}
  TenantOf <- OneTenant
  MaxActive = 1
  MaxRetry = 1
  MaxFaults = 0
INVARIANTS
  OutcomeIsDurable
CHECK_DEADLOCK FALSE
