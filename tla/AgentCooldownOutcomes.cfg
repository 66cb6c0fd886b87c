SPECIFICATION Spec
CONSTANTS
  Symbols = {s1}
  NoSymbol = NoSymbol
  Settings <- EverySetting
  MaxDecisions = 2
  MaxFailures = 0
INVARIANT OutcomesRecorded
