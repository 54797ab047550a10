SPECIFICATION PortalSpec
CONSTANTS
  Users = {u1}
  Tenants = {t1}
  MaxKey = 2
  TenancyClients = {c1, c2}
  PageSize = 1
  DeleteBatch = 1
  MaxTenancyCalls = 5
  MaxTenancyFaults = 1
  NoCall = NoCall
  ScheduleIds = {s1, s2}
  Owners = {o1, o2}
  Types = {"daily", "weekly"}
  Crons = {x1}
  Editors = {d1, d2}
  Schedulers = {w1}
  MaxEdits = 3
  MaxStarts = 1
  MaxFirings = 1
  ReportAttempts = 2
  NoSchedule = NoSchedule
  Dropped = Dropped
  NoEdit = NoEdit
  People = {p1, p2}
  Workspaces = {k1}
  MaxVisits = 7
  MaxHops = 8
  MaxSessionFaults = 2
  Nobody = Nobody
  NoWorkspace = NoWorkspace
  NoPage = NoPage
  Rows = {1, 2, 3, 4, 5}
  PageRows = 2
  PeriodStart <- MCPeriodStart
  OffsetRange = 8
  PagesOpened = {1, 2, 5, 9}
  MaxListFaults = 1
  NoView = NoView
  NoFetch = NoFetch
  BillDays = {1, 2, 3, 4}
  LlmModels = {m1}
  Billers = {b1, b2}
  MaxInvoices = 2
  MaxRecords = 2
  NoBill = NoBill
  MaxWork = 3
  PageSources = {ps}
  PageSchedules = {pc}
  PageReports = {pr}
  PageInvoices = {pi}
  AccountKinds <- MCAccountKinds
  MaxDetours = 4
  MaxPageFaults = 1
  NoItem = NoItem
  Nowhere = Nowhere
  DefaultChunkSize = 5
  DefaultChunkOverlap = 2
  DashboardSources = 2
  NoStatus = NoStatus
INVARIANTS
  PortalTypeOK
  TenantsExplained
  
  
  
  InvoicesExplained
  
  ControlsWork
  
CHECK_DEADLOCK FALSE
