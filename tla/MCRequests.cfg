CONSTANTS
  Units = {"retry", "timeout", "cache", "router", "health", "server", "cron", "asynq",
           "config", "registry"}
  Kinds = {"do", "http", "unary", "stream"}
  MaxAttempts = 4
  MaxTotalWait = 6
  Initial = 2
  Factor = 2
  Step = 1
  MaxDelay = 5
  Backoffs = {"fixed", "linear", "exponential"}
  Jitters = {"none", "full", "equal"}
  MaxWrites = 3
  CacheKeys = {k1, k2}
  Lockers = {c1, c2}
  TTLs = {0, 1, 3}
  DefaultTTL = 2
  Second = 2
  MaxTime = 5
  Reqs = {"r1", "r2"}
  Wrappers = {"w1", "w2"}
  Names = {"db", "mq"}
  MaxChecks = 1
  ServerKinds = {"std", "gin", "graphql", "websocket", "sse", "grpc", "mcp", "trpc",
                 "signalr", "socketio", "http3", "webrtc", "webtransport"}
  MaxStarts = 2
  Middlewares = {"m1", "m2"}
  MaxJobs = 2
  Types = {"mail", "bill"}
  MaxEntries = 2
  Sources = {"file", "http", "oss", "redis", "kubernetes", "nacos", "fallback"}
  MaxFails = 1
  Registries = {"kubernetes", "nacos"}
  MaxOps = 2
  MaxErrs = 1
SPECIFICATION SuiteSpec
INVARIANTS
  AllTypesOK
  ResultMatches
  AnswersAreTrue
  
PROPERTIES
  CallsReturn
CHECK_DEADLOCK FALSE
