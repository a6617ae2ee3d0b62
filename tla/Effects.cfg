SPECIFICATION EffectsSpec
CONSTANTS
  Workers = {0, 1, 2}
  MaxThreads = 3
  MaxCalls = 2
  CounterRange = 6
  MaxHeight = 3
  Columns = 2
  BlurSettings <- BlurCases
  MaxRuns = 2
  HistoryMax = 3
  FrameDelayMax = 2
  BeatDelayMax = 2
  DefaultDelay = 1
  DelaysAsked = {1, 2, 3}
  FrameSizes = {0, 1, 2}
  MaxFrames = 6
  Instances = {e1, e2}
  Rings <- OneRing
  RingConfigs <- OneRingConfigs
  RingHistoryMax = 2
  Resolutions = {1, 2}
  MaxFrameIndex = 4
  MaxHold = 3
  BpmSettings <- AllModes
  Ticks <- FrameTimes
  MaxBpmFrames = 7
  Heights = {0, 1, 2}
  Slots = {A}
  Overlays = {0, 1}
  Durations = {0, 1, 2}
  MaxPictures = 3
  MaxFinished = 3
  TransitionSizes <- ThreeSizes
  TransitionDurations = {3}
  Deltas = {1, 2}
  Steps = 4
  Eased <- SineTable
  Side = 2
  MaxFrameNumber = 6
  nothing = nothing
  small = small
  big = big
  bad = bad
  Texts <- FourTexts
  Empty = nothing
  Compiles = {nothing, small, big}
  Cost <- TextCost
  Sets = {small, big}
  Budget = 5
  PixelCounts = {0, 3}
  ScriptBlocks <- FiveBlocks
  MaxScriptFrames = 3
  Versions <- ThreeVersions
  ScopeSizes = {0, 1}
  PointCounts <- PointsLeft
  MaxPoints = 4
  DefaultPoints = 3
  MaxEvents = 3
  Levels = {1, 3, 6}
  MaxLevel = 6
  WearFrames = {0, 2, 4}
INVARIANTS
  RowsFollowRuns OwnShareSafe
  OwnSizeOnly
  FetchedIsDelayed FetchedSinceEmptied
  PulsesExact GateWindow
  BlockSearchEnds PictureTiled
  StagesCurrent
  TableCurrent BeatsReachScripts
  BeatWearsOff
PROPERTIES ShownIsDelayed OverlaysLast RegistersFlow
CHECK_DEADLOCK FALSE
