CONSTANTS
  Units = {"webrtc", "sfu", "client", "transport", "packet"}
  Sessions = {s1, s2}
  Steady = {s2}
  TrackIDs = {a}
  QueueCap = 1
  MaxConnects = 3
  Streams = {x1, x2}
  Frames = {"empty", "known", "unknown"}
  Stacks = {"websocket", "webrtc", "rtcclient", "webtransport"}
  Types = {"ping", "pong"}
  Handlers = {"h1", "h2"}
  MaxSent = 2
SPECIFICATION SuiteSpec

  
PROPERTIES
  PacketsReachTheirHandler
  SessionsEnd
CHECK_DEADLOCK FALSE
