SPECIFICATION FairSpec
CONSTANTS
  MaxThreads = 2
  NumSymbols = 2
  MaxIterations = 2
  EventLimit = 2
INVARIANTS TypeOK OneLoop TruthfulStatus OneLateCycle
PROPERTIES StopCompletes SessionImplemented
