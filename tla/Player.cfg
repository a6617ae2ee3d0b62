SPECIFICATION PlayerSpec
CONSTANTS
  InotifyWorks = TRUE
  Batch = 2
  MaxVersion = 3
  MaxQueue = 3
  Sizes = {0, 1, 2}
  Start = 1
  Chains <- SomeChains
INVARIANTS BlitFits
PROPERTIES OnePicture SettlesOnFile
