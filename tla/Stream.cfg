CONSTANTS
  Clients = {c1, c2}
  Writers = {w1, w2}
  Workers = 1
  MaxChanges = 2
SPECIFICATION FairSpec
INVARIANTS TypeOK HeartbeatOwesNothing
PROPERTIES EveryConsoleServed
