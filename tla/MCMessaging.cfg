CONSTANTS
  Units = {"link", "subs", "server", "restart"}
  Subs = {s1, s2}
  Topics = {t1, t2}
  NoSub = NoSub
  MaxConnects = 1
  MaxDrops = 1
  MaxHalf = 1
  Keys = {k1, k2}
  Starters = {p1, p2}
  MaxStarts = 3
  ServerKinds = {"rabbitmq", "kafka", "mqtt", "nats", "redis", "rocketmq"}
  MaxRegs = 3
  MaxRuns = 3
SPECIFICATION SuiteSpec
INVARIANTS
  AllTypesOK
  WaitClosedOnce
  OpenIsKnown
  ServersServe
PROPERTIES
  LinkRecovers
CHECK_DEADLOCK FALSE
