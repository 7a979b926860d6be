SPECIFICATION ViewsSpec
CONSTANTS
  NoData = NoData
  NoCall = NoCall
  Request = {r1, r2}
  MaxRequestChanges = 2
  Run = {n1}
  NoRun = NoRun
  MaxRunOps = 3
  LogPicks = {"AIOPS_CONGESTION", "KPI_HEALTH"}
  LogKinds = {"FAULT_CLEARED", "AIOPS_CONGESTION"}
  LogSources = {x1}
  LogLimit = 1
  MaxTime = 3
  MaxEvents = 3
  MaxFeedOps = 2
  NoLoad = NoLoad
  MaxMoves = 3
  Entity = {e1, e2}
  NoEntity = NoEntity
  MaxEntityOps = 2
  Operator = {o1, o2}
  MaxChatOps = 4
INVARIANTS ViewsTypeOK ShownBelongs
PROPERTIES ViewsComeToRest
CHECK_DEADLOCK FALSE
