SPECIFICATION FairSpec
CONSTANTS
  r1 = r1
  r2 = r2
  a1 = a1
  m1 = m1
  m2 = m2
  Request = {r1, a1}
  Model = {m1}
  ModelOf <- OneModel
  AutoExecute = {a1}
  Scheduled = {m1}
  CronRequireApproval = TRUE
  Worker = {w1, sched}
  Scheduler = sched
  Outcomes = {"completed", "failed"}
  MaxParallel = 1
  NoRequest = NoRequest
  Nobody = Nobody
  Orphan = Orphan
  MaxFaults = 1
  LockMayLapse = FALSE
PROPERTY DeferredIsRetried
