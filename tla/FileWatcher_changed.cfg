SPECIFICATION WatcherSpec
CONSTANTS
  InotifyWorks = TRUE
  Batch = 4
  MaxVersion = 3
  MaxQueue = 5
PROPERTY TrueMeansChanged
