SPECIFICATION BackendsSpec
CONSTANTS
  Heights = {1, 2}
  MaxValue = 1
  MaxPresents = 2
INVARIANTS AnyBackendWillDo
CHECK_DEADLOCK FALSE
