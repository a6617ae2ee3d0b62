SPECIFICATION InputsSpec
CONSTANTS
  Ring = 4
  Window = 2
  Scope = 1
  MaxBlock = 3
  MaxSamples = 7
  MaxUnderflows = 3
  MaxStreak = 2
  RingSize = 4
  FftSize = 3
  MaxFrames = 5
  MaxTotal = 9
  Handles = {h1, h2}
  MaxStreams = 2
  Rates = {0, 1, 2, 3}
  MaxChannels = 2
  Names <- TwoNames
  Matches <- NameMatch
  MaxDevices = 2
  Presets <- ThreePresets
  Effects <- AllEffects
  Cells = {0, 1, 2, 3, 17, 21, 46, 128, 16384, 20000}
  Plugins = {2}
  Texts <- SomeTexts
  Factories <- SomeFactories
  Contexts = {"c1", "c2"}
  MaxDepth = 4
  Heights = {1, 2}
  MaxValue = 1
  MaxPresents = 2
INVARIANTS
  PublishedInPlace TornOnlyWhenLapped StoppedIsSilent
  WindowIsTail CallbacksFindTheirStream
  DevicesSound
  DamageConfined InsideList
  ChildrenAreConfigured TextIsUnderstood
  PicturesArrive
PROPERTIES
  StoppedOnlyForStreak FailureReported
CHECK_DEADLOCK FALSE
