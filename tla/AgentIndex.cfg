SPECIFICATION Spec
CONSTANTS
  Symbols = {s1}
  NoSymbol = NoSymbol
  Settings <- NoCooldown
  MaxDecisions = 2
  MaxFailures = 0
INVARIANT ExperienceIndexed
