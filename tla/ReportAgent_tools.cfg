SPECIFICATION FairSpec
CONSTANTS
  n1 = n1
  a1 = a1
  a2 = a2
  k1 = k1
  k2 = k2
  Tenants = {n1}
  Agents = {a1}
  TenantOf <- OneTenant
  Budget <- NoBudget
  Costs = {0, 1}
  ToolCalls = {k1, k2}
  MaxToolCalls = 2
  MaxLLMCalls = 3
  MaxRetries = 1
  MaxBatch = 3
  MaxRuns = 1
  MaxEmbedded = 1
  MaxFaults = 1
  LastDay = 4
  MonthOf <- OneMonth
INVARIANTS
  TypeOK
  ToolCallsDistinct
  AnswersComplete
  OnlySynthesisUncounted
PROPERTIES
  EveryRunEnds
CHECK_DEADLOCK FALSE
