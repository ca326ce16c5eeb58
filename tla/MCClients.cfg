CONSTANTS
  Units = {"writer", "producer", "nats", "mqtt", "map"}
  Publishers = {p1, p2}
  Topics = {t1, t2}
  Retries = 1
  MaxCalls = 3
  Subs = {s1, s2}
  NoSub = NoSub
  ProducerTopics = {t1}
  MaxProducers = 3
  MaxSends = 3
  MaxDials = 2
  MaxAsking = 1
  MaxSessions = 2
SPECIFICATION SuiteSpec
INVARIANTS
  SendersAgree
  SubscriptionsAgree
PROPERTIES
  CallsReturn
CHECK_DEADLOCK FALSE
