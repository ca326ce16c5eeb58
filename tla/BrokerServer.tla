---------------------------- MODULE BrokerServer ----------------------------
(***************************************************************************)
(* transport/{rabbitmq,kafka,redis,nats,mqtt,rocketmq}/server.go: the      *)
(* server that registers handlers with a message broker.  The six servers  *)
(* share this code; the source lines are those of rabbitmq/server.go.      *)
(*                                                                         *)
(* Start and Stop take no lock, RegisterSubscriber does, and each may be   *)
(* called while another runs; two Starts may overlap, Stops do not.  The   *)
(* broker is the abstract one: Connect and Subscribe may fail, Disconnect  *)
(* ends every subscription.                                                *)
(***************************************************************************)
EXTENDS Integers, FiniteSets

CONSTANTS Keys,               \* topics
          Starters,           \* goroutines that call Start
          MaxStarts           \* bound: calls of Start that get past its checks

VARIABLES started, failed,    \* s.started; s.err # nil
          opts, subscribers,  \* domains of s.subscriberOpts and s.subscribers
          up, live,           \* the broker: connected; topics with a subscription
          startAt, todo,      \* where each Start is; topics its loop has left
          stopAt,             \* where Stop is
          starts,
          wanted,             \* history: topics registered and not stopped since
          raced,              \* history: topics registered while Start or Stop ran,
                              \*          or before two Starts that overlapped
          excused             \* history: since the last Stop began a Start has failed
                              \*          or run beside that Stop

serverVars == <<started, failed, opts, subscribers, up, live, startAt, todo, stopAt,
                starts, wanted, raced, excused>>

Init ==
  /\ started = FALSE /\ failed = FALSE
  /\ opts = {} /\ subscribers = {} /\ up = FALSE /\ live = {}
  /\ startAt = [p \in Starters |-> "idle"] /\ todo = [p \in Starters |-> {}]
  /\ stopAt = "idle"
  /\ starts = 0 /\ wanted = {} /\ raced = {} /\ excused = FALSE

Starting == {p \in Starters : startAt[p] # "idle"}
Quiet    == Starting = {} /\ stopAt = "idle"

\* RegisterSubscriber: kept for Start, or subscribed at once, which may fail.  A
\* Start that walks the map meanwhile may meet the new topic or miss it.
RegisterSubscriber(k) ==
  /\ \/ /\ ~started
        /\ opts' = opts \union {k}
        /\ \E seen \in SUBSET {p \in Starting : startAt[p] # "connect"} :
             todo' = [p \in Starters |-> IF p \in seen THEN todo[p] \union {k} ELSE todo[p]]
        /\ UNCHANGED <<subscribers, live>>
     \/ /\ started /\ up
        /\ subscribers' = subscribers \union {k} /\ live' = live \union {k}
        /\ UNCHANGED <<opts, todo>>
  /\ wanted' = wanted \union {k}
  /\ raced' = IF Quiet THEN raced \ {k} ELSE raced \union {k}
  /\ UNCHANGED <<started, failed, up, startAt, stopAt, starts, excused>>

\* Start: a former error and a second Start return at once.
Start(p) ==
  /\ startAt[p] = "idle" /\ ~failed /\ ~started /\ starts < MaxStarts
  /\ starts' = starts + 1
  /\ startAt' = [startAt EXCEPT ![p] = "connect"]
  /\ raced' = IF Starting # {} THEN raced \union wanted ELSE raced
  /\ excused' = (excused \/ stopAt # "idle")
  /\ UNCHANGED <<started, failed, opts, subscribers, up, live, todo, stopAt, wanted>>

\* Start: Init and Connect, each of which assigns s.err.
StartConnects(p) ==
  /\ startAt[p] = "connect"
  /\ \/ /\ up' = TRUE /\ failed' = FALSE
        /\ startAt' = [startAt EXCEPT ![p] = "loop"]
        /\ todo' = [todo EXCEPT ![p] = opts]
        /\ UNCHANGED excused
     \/ /\ failed' = TRUE /\ excused' = TRUE
        /\ startAt' = [startAt EXCEPT ![p] = "idle"]
        /\ UNCHANGED <<up, todo>>
  /\ UNCHANGED <<started, opts, subscribers, live, stopAt, starts, wanted, raced>>

\* doRegisterSubscriberMap: one turn of the loop; an error is collected.
StartRegisters(p, k) ==
  /\ k \in todo[p]
  /\ todo' = [todo EXCEPT ![p] = @ \ {k}]
  /\ \/ /\ up /\ subscribers' = subscribers \union {k} /\ live' = live \union {k}
        /\ UNCHANGED startAt
     \/ startAt' = [startAt EXCEPT ![p] = "loopErr"] /\ UNCHANGED <<subscribers, live>>
  /\ UNCHANGED <<started, failed, opts, up, stopAt, starts, wanted, raced, excused>>

\* Faulty variant: an error of the loop is only logged.
StartEnds_IgnoresError(p) ==
  /\ startAt[p] \in {"loop", "loopErr"} /\ todo[p] = {}
  /\ opts' = {} /\ startAt' = [startAt EXCEPT ![p] = "idle"]
  /\ failed' = FALSE /\ started' = TRUE
  /\ UNCHANGED <<subscribers, up, live, todo, stopAt, starts, wanted, raced, excused>>

\* The end of doRegisterSubscriberMap and of Start.
StartEnds(p) ==
  /\ startAt[p] \in {"loop", "loopErr"} /\ todo[p] = {}
  /\ opts' = {} /\ startAt' = [startAt EXCEPT ![p] = "idle"]
  /\ IF startAt[p] = "loopErr"
     THEN failed' = TRUE /\ excused' = TRUE /\ UNCHANGED started
     ELSE failed' = FALSE /\ started' = TRUE /\ UNCHANGED excused
  /\ UNCHANGED <<subscribers, up, live, todo, stopAt, starts, wanted, raced>>

\* Stop: nothing unless started; every subscriber is unsubscribed and the maps
\* are made anew.
Stop ==
  /\ stopAt = "idle" /\ started
  /\ stopAt' = "mark"
  /\ live' = live \ subscribers
  /\ subscribers' = {} /\ opts' = {} /\ wanted' = {}
  /\ excused' = (Starting # {})
  /\ UNCHANGED <<started, failed, up, startAt, todo, starts, raced>>

\* Stop: started is reset, so a Start may begin now,
StopMarks ==
  /\ stopAt = "mark" /\ stopAt' = "disconnect" /\ started' = FALSE
  /\ UNCHANGED <<failed, opts, subscribers, up, live, startAt, todo, starts, wanted, raced,
                 excused>>

\* Faulty variant: the broker is left connected.
StopDisconnects_StaysUp ==
  /\ stopAt = "disconnect" /\ stopAt' = "clear"
  /\ UNCHANGED <<started, failed, opts, subscribers, up, live, startAt, todo, starts, wanted,
                 raced, excused>>

\* the broker is disconnected, under that Start if there is one,
StopDisconnects ==
  /\ stopAt = "disconnect" /\ stopAt' = "clear"
  /\ up' = FALSE /\ live' = {}
  /\ UNCHANGED <<started, failed, opts, subscribers, startAt, todo, starts, wanted, raced,
                 excused>>

\* and s.err is reset, that of a Start which has failed meanwhile included.
StopEnds ==
  /\ stopAt = "clear" /\ stopAt' = "idle" /\ failed' = FALSE
  /\ UNCHANGED <<started, opts, subscribers, up, live, startAt, todo, starts, wanted, raced,
                 excused>>

Next == \/ Stop \/ StopMarks \/ StopDisconnects \/ StopEnds
        \/ \E k \in Keys : RegisterSubscriber(k)
        \/ \E p \in Starters : \/ Start(p) \/ StartConnects(p) \/ StartEnds(p)
                               \/ \E k \in Keys : StartRegisters(p, k)

Spec == Init /\ [][Next]_serverVars

------------------------------------------------------------------------------
\* The type of the state; Start's loop runs to its end.
TypeOK ==
  /\ {started, failed, up, excused} \subseteq BOOLEAN
  /\ opts \subseteq Keys /\ subscribers \subseteq Keys /\ live \subseteq Keys
  /\ startAt \in [Starters -> {"idle", "connect", "loop", "loopErr"}]
  /\ todo \in [Starters -> SUBSET Keys]
  /\ \A p \in Starters : startAt[p] \in {"idle", "connect"} => todo[p] = {}
  /\ stopAt \in {"idle", "mark", "disconnect", "clear"}
  /\ starts \in 0 .. MaxStarts /\ wanted \subseteq Keys /\ raced \subseteq Keys

\* A server that says it is started has a live subscription for every topic
\* registered before Start or after it.  Only a registration made while Start or
\* Stop runs can be lost, or one that two overlapping Starts share: neither takes
\* the lock.
RegisteredIsServed == started /\ Quiet => wanted \ raced \subseteq live

\* A server that is not started holds no subscription and no connection, unless a
\* Start has failed since the last Stop began or has run beside that Stop.  Those
\* leave the broker connected, and the next Stop returns at once.
StoppedIsDown == ~started /\ Quiet /\ ~excused => ~up /\ live = {}

(***************************************************************************)
(* transport/{rabbitmq,kafka,mqtt,nats,redis,rocketmq}/server.go, each     *)
(* composed with the broker it drives: what a server that is stopped and   *)
(* started again delivers, and to whom.  The six servers share their code; *)
(* what differs is what Init, Connect, Subscribe, Unsubscribe(false) and   *)
(* Disconnect of the broker behind them do (redis: the pub/sub broker,     *)
(* rocketmq: the v5 one).  BrokerServer has the races between the calls;   *)
(* here each call runs to its end before the next.                         *)
(***************************************************************************)
CONSTANTS Kinds,          \* the servers
          Topics,
          MaxRegs,        \* bound: calls of RegisterSubscriber, the handlers' numbers
          MaxRuns         \* bound: calls of Start

VARIABLES kind,
          running, broken,    \* s.started; s.err # nil
          pending, held,      \* s.subscriberOpts, s.subscribers: topic -> handler, 0 none
          joined,             \* the broker: connected, its client connected, its pool made
          spent,              \* rabbitmq: waitConnection is closed; rocketmq: done is
          redial,             \* a reconnect loop: "no", of this client, of a "former" one
          table,              \* b.subscribers: topic -> handler, 0 none
          feeds,              \* <<topic, handler>> that messages are delivered to
          orphans,            \* rabbitmq: resubscribe loops nobody can end
          crashed,            \* a call panicked
          regs, runs,
          latest,             \* history: topic -> the handler registered last in this run
          doubled,            \* history: a topic was registered twice in a run
          slipped             \* history: Stop met a broker that was not connected

restartVars == <<kind, running, broken, pending, held, joined, spent, redial, table,
                 feeds, orphans, crashed, regs, runs, latest, doubled, slipped>>

Nobody == [t \in Topics |-> 0]

\* NewServer and init of the server of every kind.
RestartInit ==
  /\ kind \in Kinds
  /\ running = FALSE /\ broken = FALSE /\ pending = Nobody /\ held = Nobody
  /\ joined = FALSE /\ spent = FALSE /\ redial = "no" /\ table = Nobody
  /\ feeds = {} /\ orphans = {} /\ crashed = FALSE /\ regs = 0 /\ runs = 0
  /\ latest = Nobody /\ doubled = FALSE /\ slipped = FALSE

Entries(f) == {<<t, f[t]>> : t \in {t \in Topics : f[t] # 0}}
Merge(f, g, S) == [t \in Topics |-> IF t \in S /\ g[t] # 0 THEN g[t] ELSE f[t]]

\* What is delivered once the broker has subscribed for the entries of f.  An mqtt
\* client has one route to a topic and the v5 consumer looks the handler up in the
\* table; the others have a subscription of its own for every call.
Subscribed(F, f) ==
  IF kind \in {"mqtt", "rocketmq"}
    THEN {e \in F : f[e[1]] = 0} \union Entries(f)
    ELSE F \union Entries(f)

\* doRegisterSubscriber for the entries of f whose topic is in S: Subscribe adds to
\* the broker's table and the server overwrites its own entry.  The v5 consumer of
\* a broker whose done channel is closed receives nothing.
Register(f, S, F) ==
  LET g == Merge(Nobody, f, S) IN
  /\ held' = Merge(held, g, S) /\ table' = Merge(table, g, S)
  /\ feeds' = IF kind = "rocketmq" /\ spent THEN F ELSE Subscribed(F, g)

------------------------------------------------------------------------------
\* The second half of Start: doRegisterSubscriberMap, where every Subscribe may
\* fail; F is what the connected broker delivers already.
Begin(F) ==
  \E S \in SUBSET {t \in Topics : pending[t] # 0} :
    /\ Register(pending, S, F)
    /\ pending' = Nobody
    /\ IF \A t \in Topics : pending[t] # 0 => t \in S
         THEN running' = TRUE /\ broken' = FALSE
         ELSE running' = FALSE /\ broken' = TRUE

\* A Start that Init or Connect ends; the error is kept and every later Start
\* returns it.
GiveUp == /\ broken' = TRUE
          /\ UNCHANGED <<running, pending, held, table, feeds>>

Idle(k) == kind = k /\ ~running /\ ~broken /\ ~crashed /\ runs < MaxRuns
Counted == runs' = runs + 1 /\ UNCHANGED <<kind, regs, latest, doubled, slipped>>

\* Start over the rabbitmq broker: Connect returns at once if connected; otherwise
\* it dials and closes waitConnection, which panics if nobody made a new one.  A
\* resubscribe loop nobody ended consumes again.
RabbitmqStart ==
  /\ Idle("rabbitmq") /\ Counted
  /\ \/ /\ joined /\ Begin(feeds \union orphans)
        /\ UNCHANGED <<joined, spent, crashed>>
     \/ /\ ~joined /\ spent /\ crashed' = TRUE
        /\ UNCHANGED <<running, broken, pending, held, table, feeds, joined, spent>>
     \/ /\ ~joined /\ ~spent /\ joined' = TRUE /\ spent' = TRUE
        /\ Begin(feeds \union orphans) /\ UNCHANGED crashed
     \/ ~joined /\ GiveUp /\ UNCHANGED <<joined, spent, crashed>>
  /\ UNCHANGED <<redial, orphans>>

\* Start over the kafka broker: Init makes a new writer, Connect only marks the
\* broker connected.
KafkaStart ==
  /\ Idle("kafka") /\ Counted
  /\ joined' = TRUE /\ Begin(feeds)
  /\ UNCHANGED <<spent, redial, orphans, crashed>>

\* Start over the mqtt broker: Init refuses a connected client and makes a new one,
\* so that a reconnect loop goes on for a former client; onConnect subscribes for
\* everything in the table.
MqttStart ==
  /\ Idle("mqtt") /\ Counted
  /\ \/ joined /\ GiveUp /\ UNCHANGED <<joined, redial>>
     \/ /\ ~joined
        /\ redial' = IF redial = "own" THEN "former" ELSE redial
        /\ \/ joined' = TRUE /\ Begin(Entries(table))
           \/ GiveUp /\ UNCHANGED joined
  /\ UNCHANGED <<spent, orphans, crashed>>

\* Start over the nats broker: a new connection, or an error.
NatsStart ==
  /\ Idle("nats") /\ Counted
  /\ \/ joined' = TRUE /\ Begin(feeds)
     \/ GiveUp /\ UNCHANGED joined
  /\ UNCHANGED <<spent, redial, orphans, crashed>>

\* Start over the redis broker: Init refuses a broker that has its pool.
RedisStart ==
  /\ Idle("redis") /\ Counted
  /\ IF joined THEN GiveUp /\ UNCHANGED joined ELSE joined' = TRUE /\ Begin(feeds)
  /\ UNCHANGED <<spent, redial, orphans, crashed>>

\* Start over the rocketmq broker: Connect only marks it connected.
RocketmqStart ==
  /\ Idle("rocketmq") /\ Counted
  /\ joined' = TRUE /\ Begin(feeds)
  /\ UNCHANGED <<spent, redial, orphans, crashed>>

------------------------------------------------------------------------------
\* Faulty variant: the subscribers are forgotten without being unsubscribed.
Leave_Forgets(k, F) ==
  /\ kind = k /\ running /\ ~crashed
  /\ held' = Nobody /\ pending' = Nobody /\ latest' = Nobody
  /\ running' = FALSE /\ broken' = FALSE
  /\ feeds' = feeds
  /\ UNCHANGED <<kind, regs, runs, doubled>>

\* The first half of Stop, the same in every server: nothing unless started;
\* Unsubscribe(false) of the held subscribers ends their deliveries, the maps are
\* made anew.  F is what Disconnect ends besides.
Leave(k, F) ==
  /\ kind = k /\ running /\ ~crashed
  /\ held' = Nobody /\ pending' = Nobody /\ latest' = Nobody
  /\ running' = FALSE /\ broken' = FALSE
  /\ feeds' = feeds \ (Entries(held) \union F)
  /\ UNCHANGED <<kind, regs, runs, doubled>>

\* Stop over rabbitmq: Disconnect unsubscribes the table and closes the connection;
\* the reconnect goroutine sees close first, or the loss first and then dials again.
\* A loop that is not unsubscribed may miss close too.
RabbitmqStop ==
  /\ Leave("rabbitmq", feeds)
  /\ joined' = FALSE /\ table' = Nobody
  /\ \/ UNCHANGED <<spent, redial>>
     \/ spent' = FALSE /\ redial' = "own"
  /\ \E O \in SUBSET (orphans \union (feeds \ Entries(held))) : orphans' = O
  /\ UNCHANGED <<crashed, slipped>>

\* Stop over kafka: Disconnect closes the readers of the table.
KafkaStop ==
  /\ Leave("kafka", Entries(table))
  /\ joined' = FALSE /\ table' = Nobody
  /\ UNCHANGED <<spent, redial, orphans, crashed, slipped>>

\* Stop over mqtt: without a connection Unsubscribe fails, the error is dropped,
\* and Disconnect returns before it clears the table.
MqttStop ==
  /\ Leave("mqtt", IF joined THEN feeds ELSE {})
  /\ joined' = FALSE
  /\ table' = IF joined THEN Nobody ELSE table
  /\ slipped' = (slipped \/ ~joined)
  /\ UNCHANGED <<spent, redial, orphans, crashed>>

\* Stop over nats: the connection is drained or closed with all it carries.
NatsStop ==
  /\ Leave("nats", feeds)
  /\ joined' = FALSE /\ table' = Nobody
  /\ UNCHANGED <<spent, redial, orphans, crashed, slipped>>

\* Stop over redis: the pool is closed, which leaves the connections that
\* subscribers borrowed, and the table is cleared.
RedisStop ==
  /\ Leave("redis", Entries(table))
  /\ joined' = FALSE /\ table' = Nobody
  /\ UNCHANGED <<spent, redial, orphans, crashed, slipped>>

\* Stop over rocketmq: done is closed, which panics the second time, and the one
\* consumer is stopped; the table stays.
RocketmqStop ==
  /\ Leave("rocketmq", feeds)
  /\ IF spent THEN crashed' = TRUE /\ UNCHANGED <<spent, joined>>
              ELSE spent' = TRUE /\ joined' = FALSE /\ UNCHANGED crashed
  /\ UNCHANGED <<table, redial, orphans, slipped>>

------------------------------------------------------------------------------
\* RegisterSubscriber of every kind: kept for Start, or subscribed at once, which
\* may fail and leave nothing.
RegisterAt(k, t) ==
  /\ kind = k /\ ~crashed /\ regs < MaxRegs
  /\ regs' = regs + 1
  /\ LET f == [Nobody EXCEPT ![t] = regs + 1] IN
     \/ /\ ~running /\ pending' = Merge(pending, f, {t})
        /\ latest' = Merge(latest, f, {t})
        /\ UNCHANGED <<held, table, feeds, doubled>>
     \/ /\ running /\ joined /\ Register(f, {t}, feeds)
        /\ latest' = Merge(latest, f, {t})
        /\ doubled' = (doubled \/ held[t] # 0)
        /\ UNCHANGED pending
     \/ running /\ UNCHANGED <<pending, held, table, feeds, doubled, latest>>
  /\ UNCHANGED <<kind, running, broken, joined, spent, redial, orphans, crashed, runs,
                 slipped>>

RabbitmqRegister(t) == RegisterAt("rabbitmq", t)
KafkaRegister(t) == RegisterAt("kafka", t)
MqttRegister(t) == RegisterAt("mqtt", t)
NatsRegister(t) == RegisterAt("nats", t)
RedisRegister(t) == RegisterAt("redis", t)
RocketmqRegister(t) == RegisterAt("rocketmq", t)

------------------------------------------------------------------------------
\* mqtt: the connection is lost, and with it the clean session's subscriptions.
Lose ==
  /\ kind = "mqtt" /\ joined /\ redial = "no"
  /\ joined' = FALSE /\ feeds' = {} /\ redial' = "own"
  /\ UNCHANGED <<kind, running, broken, pending, held, spent, table, orphans, crashed,
                 regs, runs, latest, doubled, slipped>>

\* A reconnect loop gets through.  mqtt: onConnect subscribes for the table with
\* the broker's client; rabbitmq: tryConnect and close of waitConnection.
Redial ==
  /\ redial # "no" /\ redial' = "no" /\ ~crashed
  /\ joined' = (joined \/ redial = "own")
  /\ spent' = IF kind = "rabbitmq" THEN TRUE ELSE spent
  /\ crashed' = (kind = "rabbitmq" /\ spent)
  /\ feeds' = IF kind = "mqtt"
                THEN (IF joined' THEN Entries(table) ELSE feeds)
                ELSE feeds \union orphans
  /\ UNCHANGED <<kind, running, broken, pending, held, table, orphans, regs, runs, latest,
                 doubled, slipped>>

RestartNext ==
  \/ RabbitmqStart \/ KafkaStart \/ MqttStart \/ NatsStart \/ RedisStart \/ RocketmqStart
  \/ RabbitmqStop \/ KafkaStop \/ MqttStop \/ NatsStop \/ RedisStop \/ RocketmqStop
  \/ Lose \/ Redial
  \/ \E t \in Topics :
       \/ RabbitmqRegister(t) \/ KafkaRegister(t) \/ MqttRegister(t)
       \/ NatsRegister(t) \/ RedisRegister(t) \/ RocketmqRegister(t)

RestartSpec == RestartInit /\ [][RestartNext]_restartVars

------------------------------------------------------------------------------
\* The type of the state.
RestartTypeOK ==
  /\ kind \in Kinds /\ {running, broken, joined, spent, crashed} \subseteq BOOLEAN
  /\ {pending, held, table, latest} \subseteq [Topics -> 0..MaxRegs]
  /\ feeds \subseteq Topics \X (1..MaxRegs) /\ orphans \subseteq Topics \X (1..MaxRegs)
  /\ redial \in {"no", "own", "former"} /\ regs \in 0..MaxRegs /\ runs \in 0..MaxRuns

\* A server that was stopped, or not started yet, calls no handler: Stop of each
\* server unsubscribes and disconnects.  Three cases are left out because the code
\* gets them wrong: a topic registered twice in a run, whose first subscriber both
\* maps lose (kafka, redis, rabbitmq); an mqtt Stop during an outage; a Start that
\* failed after some subscriptions.
StoppedIsSilent == ~running /\ ~broken /\ ~doubled /\ ~slipped => feeds = {}

\* A started server delivers each registered topic to the handler registered last,
\* also after a Stop and a second Start.  Two exceptions: the rocketmq v5 broker
\* never makes its done channel anew, so its second run receives nothing; mqtt
\* waits for its reconnect loop.
RunningIsServed ==
  running /\ ~(kind = "rocketmq" /\ spent) /\ ~(kind = "mqtt" /\ ~joined)
    => Entries(latest) \subseteq feeds

\* Only a handler of the current run is called: no delivery reaches the handlers of
\* a run that Stop ended, with the exceptions of StoppedIsSilent.
OnlyThisRun ==
  running /\ ~doubled /\ ~slipped => feeds \subseteq Entries(latest)

\* Only rabbitmq (waitConnection) and rocketmq (done) can be stopped and started
\* into a close of a closed channel, and neither in its first run.
FirstRunIsSafe == crashed => kind \in {"rabbitmq", "rocketmq"} /\ runs > 1
==============================================================================
