SPECIFICATION Spec
CONSTANTS
  Symbols = {s1, s2}
  NoSymbol = NoSymbol
  Settings <- EverySetting
  MaxDecisions = 4
  MaxFailures = 2
SYMMETRY Symmetry
INVARIANTS TypeOK OnePositionPerSymbol OutcomeReportedOnce LossBounded
PROPERTIES UnreadableStopsTrading CooldownHonoured LedgerImplemented
