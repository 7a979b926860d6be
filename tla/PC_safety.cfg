SPECIFICATION Spec
CONSTANTS
  Alert = {i1}
  Action = {a1, a2}
  AlertTypes = {"SLA_RISK"}
  Severities = {"LOW", "HIGH", "CRITICAL"}
  PolicyThread = {t1, t2}
  NoAction = NoAction
  Unsaved = Unsaved
  MaxMessages = 2
  MaxRead = 2
  MaxDecisions = 3
  MaxFaults = 1
SYMMETRY Symmetric
INVARIANTS TypeOK ActuationIsApproved ExecutedIsActuated NothingToApprove LookupConsistent OneActionEach PendingIsLatest
