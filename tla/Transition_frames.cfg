SPECIFICATION TransitionSpec
CONSTANTS
  TransitionSizes <- ThreeSizes
  TransitionDurations = {3}
  Deltas = {1, 2}
  Steps = 4
  Eased <- SineTable
  Side = 2
  MaxFrameNumber = 6
PROPERTY AnimatesBetweenFrames
CHECK_DEADLOCK FALSE
