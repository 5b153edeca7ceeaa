SPECIFICATION MessageSpec
CONSTANTS
  Events = {1, 2, 3}
  Buckets = {"products", "orders"}
  BucketOf <- InBucket
  TenantOf <- InTenant
  Unreadable = {3}
  Orphans = {}
  Publishers = {p1, p2}
  BatchSize = 1
  MaxTransaction = 1
  LastInsert = 2
  MaxTime = 4
  MaxRequeues = 1
  MaxAborts = 1
  NoEvent = 0
  Subscriptions = {"s", "t"}
  Wants <- Matching
  Dispatchers = {r1, r2}
  DispatchBatch = 1
  Lookback = 2
  MaxTickFailures = 1
  Deliveries = {d1, d2}
  Hooks = {"s"}
  NoHook = "none"
  HookOf <- OneHook
  SendWorkers = {w1, w2}
  SendBatch = 2
  MaxSends = 2
  FailureThreshold = 2
  RequestTimeout = 1
  LeaseWindow = 3
  Backoff = 1
  MaxReplays = 1
  MaxEdits = 1
  MaxWorkerMishaps = 1
  Effects = {1, 2, 3}
  Unhandled = {3}
  Drainers = {n1, n2}
  DrainBatch = 2
  DrainAttempts = 2
  HandlerTime = 2
  Visibility = 3
  RetryDelay = 1
  FirstDelay = 1
  MaxDrainMishaps = 1
INVARIANT MessageTypeOK
INVARIANT OutboxSafe
INVARIANT DispatchSafe
INVARIANT WorkerSafe
INVARIANT DrainSafe
PROPERTY NothingUndone
PROPERTY EverythingArrives
CHECK_DEADLOCK FALSE
