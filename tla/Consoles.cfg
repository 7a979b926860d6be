SPECIFICATION ConsolesSpec
CONSTANTS
  NoData = NoData
  NoUser = NoUser
  User = {u1, u2}
  Self = u2
  MaxUserOps = 2
  Schedule = {s1}
  NoSchedule = NoSchedule
  Past = Past
  MaxScheduleOps = 3
  CtlAction = {a1}
  CtlType = {t1, t2}
  NoRow = NoRow
  MaxCtlOps = 4
  Model = {m1, m2}
  NoModel = NoModel
  MaxModelOps = 3
  NoPatch = NoPatch
  MaxRuntimeOps = 4
INVARIANTS ConsolesTypeOK ReportsAgree
PROPERTIES NothingUnseenIsChanged
CHECK_DEADLOCK FALSE
