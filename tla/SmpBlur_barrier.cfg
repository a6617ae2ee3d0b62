SPECIFICATION BlurSpec
CONSTANTS
  Workers = {0, 1}
  MaxThreads = 2
  MaxCalls = 1
  CounterRange = 6
  MaxHeight = 3
  Columns = 2
  BlurSettings <- SmallestCase
  MaxRuns = 1
INVARIANT BarrierAfterCopy
