CONSTANTS
  Units = {"link"}
  Subs = {s1}
  Topics = {t1}
  NoSub = NoSub
  MaxConnects = 1
  MaxDrops = 0
  MaxHalf = 0
  Keys = {}
  Starters = {p1, p2}
  MaxStarts = 0
  ServerKinds = {"rabbitmq", "kafka", "mqtt", "nats", "redis", "rocketmq"}
  MaxRegs = 3
  MaxRuns = 3
SPECIFICATION SuiteSpec
INVARIANT DisconnectDisconnects
CHECK_DEADLOCK FALSE
