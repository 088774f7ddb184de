SPECIFICATION FairSpec
CONSTANTS
  Clients = {c1, c2}
  MaxMessages = 3
INVARIANTS OneClientEach FreedOnce
PROPERTIES Drains DtorEnds
\* the destroyed object takes no step
CHECK_DEADLOCK FALSE
