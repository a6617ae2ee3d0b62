SPECIFICATION PipelineSpec
CONSTANTS
  w1 = w1
  w2 = w2
  blur = blur
  other = other
  unknown = unknown
  Workers <- TwoWorkers
  Keys <- Effects
  Registered <- Known
  Smp <- Threaded
  MaxCalls = 3
  MaxNodes = 2
  MaxFrames = 2
  CounterRange = 4
SYMMETRY Symmetry
INVARIANTS VerdictFollowsReports
PROPERTIES FailureCounts
