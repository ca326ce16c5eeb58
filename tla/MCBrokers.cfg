SPECIFICATION SuiteSpec

CONSTANTS
  Units = {"kafka", "jetstream", "pubsub", "stream", "rocket", "push", "aliyun"}
  Length = 3
  BatchSizes = {0, 1, 2}
  MaxRestarts = 1
  Messages = {m1, m2}
  RocketMessages = {m1}
  PullBatch = 2
  MaxDials = 2
  Count = 2
  Topics = {t1}
  MaxConsumers = 2

INVARIANTS
  BookkeepingAgrees

PROPERTIES
  ConsumersDeliver
  ConsumersRun

CHECK_DEADLOCK FALSE
