SPECIFICATION FairSpec
CONSTANTS
  w1 = w1
  w2 = w2
  w3 = w3
  Workers <- ThreeWorkers
  MaxCalls = 2
  CounterRange = 5
INVARIANTS NoLostWakeup CallerNotStranded NothingOutlivesPool
PROPERTIES StartsInsideCall DestructorReturns WorkGetsDone
