SPECIFICATION PipelineSpec
CONSTANTS
  MaxTrainings = 2
  MaxPromotionFaults = 1
  Request = {r1, r2}
  Task = {t1, t2}
  Monitor = t1
  NoTask = NoTask
  NoRequest = NoRequest
  MaxIntakeFaults = 1
  Models = 1
  MaxTelemetry = 3
  MaxBatch = 2
  Paused = {1}
  MaxScoringFaults = 2
  MaxRead = 1
  Newest = Newest
  SimFault = {f1, f2}
  MaxEngineFaults = 2
INVARIANTS PipelineTypeOK CurrentIsBest NothingNewIsSame OneWaitsEach ScoresAreSound FaultsAreWatched
PROPERTIES PipelineProgresses
CHECK_DEADLOCK FALSE
