SPECIFICATION Spec
CONSTANTS
  w1 = w1
  w2 = w2
  w3 = w3
  Workers <- TwoWorkers
  MaxCalls = 1
  CounterRange = 5
INVARIANT OncePerThread
