SPECIFICATION Spec
CONSTANTS
  Candles <- SmallCandles
  TapeLength = 2
  HalfSpread = 1
  StopDistance = 3
  Stages = {"paper_to_demo"}
  Gates <- SmallGates
  Playbooks <- OnePlaybook
  MinTrained = 2
  Brains = {"rule", "llm"}
  MaxSteps = 3
  MaxSessions = 2
  MaxBacktests = 2
  MaxCuts = 1
  Markets = {"m1", "m2"}
  BaseConfigs <- SomeBases
  Yields <- SomeYields
  MaxRuns = 2
  MaxKills = 1
  MaxErrors = 1
  WithFrontend = TRUE
  WithBridge = TRUE
  MaxSlow = 1
INVARIANTS TypeOK  FairTrial NoneForgotten
PROPERTIES SessionEnds OneForAll
CHECK_DEADLOCK FALSE
