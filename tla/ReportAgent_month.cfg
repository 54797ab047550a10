SPECIFICATION Spec
CONSTANTS
  n1 = n1
  a1 = a1
  a2 = a2
  k1 = k1
  k2 = k2
  Tenants = {n1}
  Agents = {a1}
  TenantOf <- OneTenant
  Budget <- BudgetOne
  Costs = {2}
  ToolCalls = {k1}
  MaxToolCalls = 1
  MaxLLMCalls = 2
  MaxRetries = 0
  MaxBatch = 1
  MaxRuns = 2
  MaxEmbedded = 0
  MaxFaults = 0
  LastDay = 4
  MonthOf <- OneMonth
PROPERTIES
  MonthlyBudgetEnforced
CHECK_DEADLOCK FALSE
