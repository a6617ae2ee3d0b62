SPECIFICATION PipelineSpec
CONSTANTS
  w1 = w1
  w2 = w2
  blur = blur
  other = other
  unknown = unknown
  Workers <- TwoWorkers
  Keys <- Effects
  Registered <- Known
  Smp <- Threaded
  MaxCalls = 1
  MaxNodes = 2
  MaxFrames = 1
  CounterRange = 4
SYMMETRY Symmetry
INVARIANT TrueMeansAllSucceeded
