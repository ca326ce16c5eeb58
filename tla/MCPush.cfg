CONSTANTS
  Units = {"feed", "pair", "stall", "churn", "sessions", "sender"}
  Clients = {c1, c2}
  Streams = {1, 2}
  Stalls = {c2}
  EventKinds = {"data", "empty"}
  LastIDs = {0, 2}
  EventBuf = 1
  ConnBuf = 1
  MaxEvents = 3
  Sessions = {s1, s2}
  Stalled = {s2}
  Endless = {s2}
  SendBuf = 1
  MaxSends = 3
SPECIFICATION SuiteSpec
INVARIANTS TypeOK NoGaps PeersAreRemoved
PROPERTIES PeersEnd
CHECK_DEADLOCK FALSE
