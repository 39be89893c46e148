CONSTANTS
  r1 = r1 r2 = r2 r3 = r3 q1 = q1 q2 = q2 t1 = t1 t2 = t2 w1 = w1 w2 = w2
  Jobs = {j1}
  Requests = {r1}
  Quotas = {q1}
  QuotaOf <- OneMetered
  Resumable = {}
  Workers = {w1, w2}
  Threads = {t1, t2}
  WorkerOf <- TwoProcesses
  Clients = {c1}
  Maintenance = maint
  None = none
  MaxAttempts = 2
  MaxCrashes = 0
  AtomicHandlers = FALSE
  LeasesHold = TRUE
  ReservationsAge = FALSE
  HistoryCleanup = FALSE
SPECIFICATION Spec
PROPERTY TerminalImmutable
