SPECIFICATION LoopFairSpec
CONSTANTS
  k1 = k1
  k2 = k2
  Alert = {i1, i2}
  Key = {k1}
  Severity = {"HIGH"}
  Benign = "NONE"
  Operator = {h1}
  NoAlert = NoAlert
  Absent = Absent
  MaxEvents = 2
  MaxBatch = 1
  MaxCalls = 2
  MaxFaults = 0
  TypeOfKey <- Types
  Action = {a1, a2}
  PolicyThread = {t1}
  NoAction = NoAction
  Unsaved = Unsaved
  MaxMessages = 5
  MaxRead = 2
  MaxDecisions = 0
  MaxPolicyFaults = 0
INVARIANTS ActionsHaveAlerts
PROPERTIES ImplementsPolicy EverythingIsAnswered
