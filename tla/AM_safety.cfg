SPECIFICATION Spec
CONSTANTS
  Alert = {i1, i2, i3}
  Key = {k1}
  Severity = {"LOW"}
  Benign = "NONE"
  Operator = {h1, h2}
  NoAlert = NoAlert
  Absent = Absent
  MaxEvents = 3
  MaxBatch = 2
  MaxCalls = 3
  MaxFaults = 1
SYMMETRY Symmetric
INVARIANTS TypeOK CountsAreHonest CreatedFirst DuplicateNeedsResolve DedupConsistent
