SPECIFICATION Spec
CONSTANTS
  Alert = {i1}
  Action = {a1, a2}
  AlertTypes = {"SLA_RISK"}
  Severities = {"LOW", "CRITICAL"}
  PolicyThread = {t1, t2}
  NoAction = NoAction
  Unsaved = Unsaved
  MaxMessages = 2
  MaxRead = 2
  MaxDecisions = 3
  MaxFaults = 0
PROPERTIES OnlyApprovedExecuted
