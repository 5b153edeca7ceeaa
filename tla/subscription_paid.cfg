SPECIFICATION JobsSpec
CONSTANTS
  All = All
  NoScope = NoScope
  Scopes = {1, 2}
  Sagas = {1, 2}
  Sweeps = {1, 2}
  Wanted <- OneThenAll
  GrandTotal = 2
  Captured = 2
  CardOrder <- NoCards
  Applied <- NothingApplied
  Voidable = {}
  MaxInFlight = 3
  MayRefuse = FALSE
  LateSettle = FALSE
  EventsNameOrder = FALSE
  Imports = {1, 2}
  FileOf <- JobFile
  Files <- FileRows
  Handles = {"a", "b", "c"}
  Invalid = {"a"}
  Pods = {1, 2}
  JobBatch = 2
  CheckpointEvery = 2
  MaxAsks = 2
  MaxImportMishaps = 1
  Addresses = {1, 2, 3}
  Refused = {2}
  AllCustomers = FALSE
  Senders = {1, 2}
  SendBatchSize = 2
  Allotment = 4
  MaxCampaignAsks = 3
  MaxSendMishaps = 1
  Extensions = {1, 2}
  ExtensionKey <- OneKey
  Target <- Ends
  Joins = {1, 2}
  PlanOf <- TwoPlans
  FirstEnd = 1
  LastDay = 2
  MaxTrialMishaps = 1
  Merchants = {"a", "b"}
  RetryCap = 2
  MaxBillEvents = 2
  MaxPeriods = 1
  MaxBillingMishaps = 1
PROPERTY PaidNotExpired
CHECK_DEADLOCK FALSE
