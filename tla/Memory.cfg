SPECIFICATION Spec
CONSTANTS
  Symbols = {s1, s2}
  RecentLimit = 2
  ShownLimit = 1
  MaxDecisions = 3
  MaxImports = 2
  Tickers = {s1, s2}
  Indexers = {p1, p2}
  MaxDocuments = 2
  TargetDocuments = 1
  MaxStamps = 5
  MaxAborts = 1
  Puts = {r1, r2}
  Patches <- EveryPatch
  Keys = {"k1", "k2"}
  ShellKey = "k1"
  TickLimit = 2
  MaxPatches = 3
  MaxTicks = 4
  MaxRestarts = 1
INVARIANTS TypeOK TablesAgree ImportKeepsContext FoundOrSummarized SearchWindow ServerMatchesDisk
PROPERTIES TerminalStays
CHECK_DEADLOCK FALSE
