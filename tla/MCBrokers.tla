----------------------------- MODULE MCBrokers -----------------------------
(***************************************************************************)
(* The consuming side of the brokers: the Kafka reader, JetStream, Redis   *)
(* Pub/Sub and streams, and the three RocketMQ clients.  unit names the    *)
(* one that runs; the others rest in an initial state.  The history of the *)
(* messages is common to all but Kafka, which has its own.                 *)
(***************************************************************************)
EXTENDS KafkaReader, Sequences, TLAPS

CONSTANTS Units, Messages, RocketMessages, PullBatch, MaxDials, Count, Topics, MaxConsumers

ASSUME RedisAssumption == Count \in Nat
ASSUME BrokersAssumption ==
  MaxDials \in Nat /\ MaxConsumers \in Nat /\ RocketMessages \subseteq Messages

VARIABLES unit, handed, tried, good, settled,
          jpull, jmanual, jconn, jopen, js, jup, jdials, jsub, jsubconn, jlisted, jclosed,
          jloop, batch, verdict, out,
          pool, wire, rclosed, rlisted, ended, recv, slipped, fell,
          spool, sclosed, slisted, auto, stream, cursor, pending, sloop, sbatch, judged, sfell,
          vup, vdone, leaving, halted, producer, consumer, nth, making, run, missed, vsub,
          views, opinion, hidden, vfell,
          sub, claimed, todo, hasError, pfell,
          client, aup, kept, main, answer, worker, result, aclosed, late, afell

------------------------------------------------------------------------------
(* The commit of the Kafka consumer, proved for a partition of any length,  *)
(* every batch size and any number of restarts.                             *)

\* What holds between the three positions: what is committed has been handled, what
\* is handled has been fetched, and a goroutine that is handling has something to
\* handle. An outcome is reported only for the message the handler just returned from.
PositionsAgree ==
  /\ committed <= next /\ next <= pos
  /\ 0 .. pos - 1 \subseteq khanded /\ 0 .. next - 1 \subseteq ktried
  /\ flushing => next < pos /\ loop \in {"select", "ack"}
  /\ loop = "ack" => flushing /\ next \in ktried

ReaderInv == TypeOK /\ PositionsAgree

\* No subscription yet: nothing is fetched, handled or committed.
LEMMA ReaderInit == Init => ReaderInv
<1> SUFFICES ASSUME Init PROVE ReaderInv
  OBVIOUS
<1>1. ticking \in BOOLEAN /\ flushing \in BOOLEAN /\ kclosed \in BOOLEAN /\ kdone \in BOOLEAN
  BY Zenon DEF Init
<1>2. TypeOK
  BY <1>1, KafkaReaderAssumption DEF Init, TypeOK
<1>3. PositionsAgree
  BY DEF Init, PositionsAgree
<1> QED
  BY <1>2, <1>3 DEF ReaderInv

\* Every step of the subscriber, its application and its process keeps it.
LEMMA ReaderStep == ReaderInv /\ [Next]_readerVars => ReaderInv'
<1> SUFFICES ASSUME ReaderInv, [Next]_readerVars PROVE ReaderInv'
  OBVIOUS
<1> USE KafkaReaderAssumption DEF ReaderInv, TypeOK, Offsets
<1>1. CASE Subscribe
  <2>1. TypeOK'
    BY <1>1 DEF Subscribe, config, history, PositionsAgree
  <2>2. 0 .. committed - 1 \subseteq khanded /\ 0 .. committed - 1 \subseteq ktried
    BY DEF PositionsAgree
  <2>3. PositionsAgree'
    BY <1>1, <2>2 DEF Subscribe, history, PositionsAgree
  <2> QED
    BY <2>1, <2>3
<1>2. CASE Listed
  BY <1>2 DEF Listed, config, history, PositionsAgree
<1>3. CASE SeesDone \/ FetchFails
  <2>1. kclosed' \in BOOLEAN
    BY <1>3, Zenon DEF SeesDone, FetchFails
  <2>2. TypeOK'
    BY <1>3, <2>1, Zenon DEF SeesDone, FetchFails, loopOnly, config, history
  <2>3. PositionsAgree'
    BY <1>3 DEF SeesDone, FetchFails, loopOnly, history, PositionsAgree
  <2> QED
    BY <2>2, <2>3
<1>4. CASE Tick
  BY <1>4 DEF Tick, loopOnly, config, history, PositionsAgree
<1>5. CASE Fetch
  <2>1. flushing' \in BOOLEAN
    BY <1>5, Zenon DEF Fetch
  <2>2. TypeOK'
    BY <1>5, <2>1 DEF Fetch, loopOnly, config
  <2>3. PositionsAgree'
    BY <1>5 DEF Fetch, loopOnly, PositionsAgree
  <2> QED
    BY <2>2, <2>3
<1>6. ASSUME NEW ok \in BOOLEAN, Handle(ok) PROVE ReaderInv'
  <2>0. next < pos
    BY <1>6 DEF Handle, PositionsAgree
  <2>1. flushing' \in BOOLEAN
    <3>1. CASE ok
      BY <1>6, <3>1 DEF Handle
    <3>2. CASE ~ok
      BY <1>6, <3>2 DEF Handle
    <3> QED
      BY <3>1, <3>2
  <2>2. TypeOK'
    <3>1. CASE ok
      BY <1>6, <2>0, <2>1, <3>1 DEF Handle, loopOnly, config
    <3>2. CASE ~ok
      BY <1>6, <2>0, <2>1, <3>2 DEF Handle, loopOnly, config
    <3> QED
      BY <3>1, <3>2
  <2>3. PositionsAgree'
    <3>1. CASE ok
      BY <1>6, <2>0, <3>1 DEF Handle, loopOnly, PositionsAgree
    <3>2. CASE ~ok
      BY <1>6, <2>0, <3>2 DEF Handle, loopOnly, PositionsAgree
    <3> QED
      BY <3>1, <3>2
  <2> QED
    BY <2>2, <2>3
<1>7. ASSUME NEW ok \in BOOLEAN, Ack(ok) PROVE ReaderInv'
  <2>0. next < pos /\ 0 .. next \subseteq ktried
    BY <1>7 DEF Ack, PositionsAgree
  <2>1. flushing' \in BOOLEAN
    BY <1>7 DEF Ack
  <2>2. TypeOK'
    BY <1>7, <2>0, <2>1 DEF Ack, config, history
  <2>3. PositionsAgree'
    BY <1>7, <2>0 DEF Ack, history, PositionsAgree
  <2> QED
    BY <2>2, <2>3
<1>8. CASE Unsubscribe \/ Cancel
  <2>1. kclosed' \in BOOLEAN /\ kdone' \in BOOLEAN
    BY <1>8, Zenon DEF Unsubscribe, Cancel
  <2>2. TypeOK'
    BY <1>8, <2>1, Zenon DEF Unsubscribe, Cancel, config, history
  <2>3. PositionsAgree'
    BY <1>8 DEF Unsubscribe, Cancel, history, PositionsAgree
  <2> QED
    BY <2>2, <2>3
<1>9. CASE Restart
  <2>0. flushing' \in BOOLEAN /\ kclosed' \in BOOLEAN /\ kdone' \in BOOLEAN
    BY <1>9, Zenon DEF Restart
  <2>1. TypeOK'
    BY <1>9, <2>0 DEF Restart, config, history
  <2>2. PositionsAgree'
    BY <1>9 DEF Restart, history, PositionsAgree
  <2> QED
    BY <2>1, <2>2
<1>10. CASE UNCHANGED readerVars
  BY <1>10 DEF readerVars, PositionsAgree
<1> QED
  BY <1>1, <1>2, <1>3, <1>4, <1>5, <1>6, <1>7, <1>8, <1>9, <1>10, Zenon DEF Next, Settling

\* The group's offset never passes a message that was not handed to the handler, and
\* the reader never handles one it has not fetched.
THEOREM OffsetsAgree == Spec => []ReaderInv
BY ReaderInit, ReaderStep, PTL DEF Spec

\* A step of the subscriber gives out, finishes or settles messages, or none of these.
LEMMA DeliveryStep == ReaderInv /\ [Next]_readerVars => [D!Next]_(D!deliveryVars)
<1> SUFFICES ASSUME ReaderInv, [Next]_readerVars PROVE [D!Next]_(D!deliveryVars)
  OBVIOUS
<1> USE KafkaReaderAssumption DEF ReaderInv, TypeOK, Offsets
<1>1. CASE Fetch
  <2>1. D!Give({pos})
    BY <1>1 DEF Fetch, D!Give, loopOnly, Settled, PositionsAgree
  <2> QED
    BY <1>1, <2>1 DEF Fetch, D!Next
<1>2. ASSUME NEW ok \in BOOLEAN, Handle(ok) PROVE D!Next
  <2>1. next \in Offsets /\ next \in khanded
    BY <1>2 DEF Handle, PositionsAgree
  <2>2. D!Finish(next, ok)
    BY <1>2, <2>1 DEF Handle, D!Finish, loopOnly, Settled
  <2> QED
    BY <2>1, <2>2 DEF D!Next
<1>3. ASSUME NEW ok \in BOOLEAN, Ack(ok) PROVE [D!Next]_(D!deliveryVars)
  <2>1. UNCHANGED history
    BY <1>3 DEF Ack
  <2>2. CASE ok
    <3>1. 0 .. next \subseteq ktried /\ 0 .. next \subseteq Offsets
      BY <1>3 DEF Ack, PositionsAgree
    <3>2. Settled' = Settled \union 0 .. next
      BY <1>3, <2>2 DEF Ack, Settled, PositionsAgree
    <3>3. D!Settle(0 .. next)
      BY <2>1, <3>1, <3>2 DEF D!Settle, history
    <3> QED
      BY <3>1, <3>3 DEF D!Next
  <2>3. CASE ~ok
    BY <1>3, <2>1, <2>3 DEF Ack, D!deliveryVars, history, Settled
  <2> QED
    BY <2>2, <2>3
<1>4. CASE UNCHANGED <<history, committed>>
  BY <1>4 DEF D!deliveryVars, history, Settled
<1> QED
  BY <1>1, <1>2, <1>3, <1>4, Zenon DEF Next, Settling, Subscribe, Listed, SeesDone, Tick, FetchFails,
     Unsubscribe, Cancel, Restart, loopOnly, readerVars, history

\* The Kafka consumer implements the contract of a consumer: with every batch size,
\* failing handlers, failing commits and restarts, a message may be handed out
\* again, and none is committed before a handler has seen it.
THEOREM KafkaRefinesDelivery == Spec => ImplementsDelivery
<1>1. Init => D!Init
  BY DEF Init, D!Init, Settled
<1>2. ReaderInv /\ [Next]_readerVars => [D!Next]_(D!deliveryVars)
  BY DeliveryStep
<1> QED
  BY <1>1, <1>2, OffsetsAgree, PTL DEF Spec, ImplementsDelivery, D!Spec

------------------------------------------------------------------------------
(* JetStream, for any set of messages, any batch size and any number of *)
(* connections.                                                          *)
J == INSTANCE JetStream

\* An open connection has a JetStream context, and so has one that is said to be
\* connected, open or not.
ContextInv == (jopen \/ jup) => js = jconn

\* It holds when the broker is made.
LEMMA ContextInit == J!Init => ContextInv
  BY DEF J!Init, ContextInv

\* Every step preserves it.
LEMMA ContextStep == ContextInv /\ [J!Next]_(J!jetVars) => ContextInv'
<1> SUFFICES ASSUME ContextInv, [J!Next]_(J!jetVars) PROVE ContextInv'
  OBVIOUS
<1>1. ASSUME NEW ok \in BOOLEAN, NEW jsOk \in BOOLEAN, J!Connect(ok, jsOk) PROVE ContextInv'
  <2>1. CASE jconn # 0 /\ jopen
    BY <1>1, <2>1 DEF J!Connect, ContextInv
  <2>2. CASE ~(jconn # 0 /\ jopen) /\ ~ok
    BY <1>1, <2>2 DEF J!Connect, ContextInv, J!jconnVars
  <2>3. CASE ~(jconn # 0 /\ jopen) /\ ok
    BY <1>1, <2>3 DEF J!Connect, ContextInv
  <2> QED
    BY <2>1, <2>2, <2>3
<1>2. CASE J!Disconnect \/ J!GiveUp
  BY <1>2 DEF J!Disconnect, J!GiveUp, ContextInv
<1>3. CASE UNCHANGED J!jconnVars
  BY <1>3 DEF J!jconnVars, ContextInv
<1> QED
  BY <1>1, <1>2, <1>3, Zenon DEF J!Next, J!Subscribe, J!Listed, J!Unsubscribe, J!Pulling, J!PullTop, J!PullFails,
     J!PullDone, J!Giving, J!Push, J!PullFetch, J!Answer, J!AckWaitOver, J!Callback, J!jetVars

\* Whatever sequence of Connect, failed Connect, Disconnect and lost connections: the
\* context in b.js belongs to the connection in b.conn.
THEOREM ContextStaysCurrent == J!Spec => []J!ContextIsCurrent
<1>1. ContextInv => J!ContextIsCurrent
  BY DEF ContextInv, J!ContextIsCurrent
<1> QED
  BY <1>1, ContextInit, ContextStep, PTL DEF J!Spec

\* What is inductive: a loop holds only messages it was given, and an answer that is
\* on its way is about a message the handler returned from, with its verdict.
HoldsGiven ==
  /\ batch \subseteq Messages /\ batch \subseteq handed
  /\ verdict # <<>> => verdict \in Messages \X BOOLEAN /\ (verdict[2] => verdict[1] \in good)

\* Every step keeps it and is a step of the contract, or none.
LEMMA JetStep ==
  HoldsGiven /\ [J!Next]_(J!jetVars) => HoldsGiven' /\ [J!D!Next]_(J!D!deliveryVars)
<1> SUFFICES ASSUME HoldsGiven, [J!Next]_(J!jetVars)
             PROVE  HoldsGiven' /\ [J!D!Next]_(J!D!deliveryVars)
  OBVIOUS
<1>1. ASSUME NEW m \in Messages, J!Push(m) PROVE HoldsGiven' /\ J!D!Next
  <2>1. J!D!Give({m}) /\ {m} \in SUBSET Messages
    BY <1>1 DEF J!Push, J!Ready, J!D!Give
  <2>2. HoldsGiven'
    BY <1>1 DEF J!Push, HoldsGiven
  <2> QED
    BY <2>1, <2>2 DEF J!D!Next
<1>2. ASSUME NEW S \in SUBSET Messages, J!PullFetch(S) PROVE HoldsGiven' /\ J!D!Next
  <2>1. J!D!Give(S)
    BY <1>2 DEF J!PullFetch, J!Ready, J!D!Give
  <2>2. HoldsGiven'
    BY <1>2 DEF J!PullFetch, HoldsGiven
  <2> QED
    BY <2>1, <2>2 DEF J!D!Next
<1>3. ASSUME NEW m \in Messages, NEW ok \in BOOLEAN, J!Callback(m, ok) PROVE HoldsGiven' /\ J!D!Next
  <2>1. J!D!Finish(m, ok)
    BY <1>3 DEF J!Callback, HoldsGiven, J!D!Finish
  <2>2. HoldsGiven'
    BY <1>3 DEF J!Callback, HoldsGiven
  <2> QED
    BY <2>1, <2>2 DEF J!D!Next
<1>4. CASE J!Answer
  <2>0. verdict # <<>> /\ verdict' = <<>> /\ batch' = batch /\ UNCHANGED J!history
    BY <1>4 DEF J!Answer
  <2>1. verdict \in Messages \X BOOLEAN /\ (verdict[2] => verdict[1] \in good)
    BY <2>0 DEF HoldsGiven
  <2>v. verdict[1] \in Messages
    BY <2>1
  <2>2. HoldsGiven'
    BY <2>0 DEF HoldsGiven, J!history
  <2>3. CASE verdict[2] /\ settled' = settled \union {verdict[1]}
    <3>1. J!D!Settle({verdict[1]})
      BY <2>0, <2>1, <2>3 DEF J!history, J!D!Settle
    <3> QED
      BY <2>v, <2>2, <3>1 DEF J!D!Next
  <2>4. CASE settled' = settled
    BY <2>0, <2>2, <2>4 DEF J!D!deliveryVars, J!history
  <2> QED
    BY <1>4, <2>3, <2>4 DEF J!Answer
<1>5. CASE UNCHANGED <<batch, verdict, J!history, settled>>
  BY <1>5 DEF HoldsGiven, J!D!deliveryVars, J!history
<1> QED
  BY <1>1, <1>2, <1>3, <1>4, <1>5, Zenon DEF J!Next, J!Connect, J!jetOnly, J!Disconnect, J!GiveUp, J!Subscribe,
     J!Listed, J!Unsubscribe, J!Pulling, J!PullTop, J!PullFails, J!PullDone, J!Giving, J!AckWaitOver, J!jetVars

\* The JetStream subscriber implements the contract of a consumer, pushed or pulled:
\* through redeliveries, lost answers and lost connections, what is acknowledged was
\* accepted by a handler.
THEOREM JetRefinesDelivery == J!Spec => J!ImplementsDelivery
<1>1. J!Init => HoldsGiven /\ J!D!Init
  BY DEF J!Init, HoldsGiven, J!D!Init
<1>2. HoldsGiven /\ [J!Next]_(J!jetVars) => HoldsGiven' /\ [J!D!Next]_(J!D!deliveryVars)
  BY JetStep
<1> QED
  BY <1>1, <1>2, PTL DEF J!Spec, J!ImplementsDelivery, J!D!Spec

\* The state of JetStream: its type, and its connections are counted.
JetTyped == J!TypeOK /\ jdials \in 0 .. MaxDials

\* It holds when the broker is made.
LEMMA JetTypedInit == J!Init => JetTyped
<1> SUFFICES ASSUME J!Init PROVE JetTyped
  OBVIOUS
<1>1. {jpull, jmanual, jopen, jup, jlisted, jclosed} \subseteq BOOLEAN
  BY Zenon DEF J!Init
<1> QED
  BY <1>1, BrokersAssumption DEF J!Init, JetTyped, J!TypeOK

\* Every step preserves it.
LEMMA JetTypedStep == JetTyped /\ [J!Next]_(J!jetVars) => JetTyped'
<1> SUFFICES ASSUME JetTyped, [J!Next]_(J!jetVars) PROVE JetTyped'
  OBVIOUS
<1> USE BrokersAssumption
<1>t. /\ jconn \in 0 .. MaxDials /\ js \in 0 .. MaxDials /\ jsubconn \in 0 .. MaxDials
      /\ jdials \in 0 .. MaxDials
      /\ jsub \in {"none", "made", "on"} /\ jloop \in {"none", "top", "fetch", "handle", "gone"}
      /\ verdict \in {<<>>} \union (Messages \X BOOLEAN)
      /\ batch \subseteq Messages /\ out \subseteq Messages /\ handed \subseteq Messages
      /\ tried \subseteq Messages /\ good \subseteq Messages /\ settled \subseteq Messages
  BY DEF JetTyped, J!TypeOK
<1>u. {jpull, jmanual, jopen, jup, jlisted, jclosed} \subseteq BOOLEAN
  BY DEF JetTyped, J!TypeOK
<1>1. {jpull', jmanual', jopen', jup', jlisted', jclosed'} \subseteq BOOLEAN
  BY <1>u, Zenon DEF J!Next, J!Connect, J!jconnVars, J!jetOnly, J!jsubVars, J!Disconnect, J!GiveUp, J!Subscribe,
     J!Listed, J!Unsubscribe, J!Pulling, J!PullTop, J!PullFails, J!PullDone, J!Giving, J!Push,
     J!PullFetch, J!Answer, J!AckWaitOver, J!Callback, J!jetVars
<1>2. ASSUME NEW ok \in BOOLEAN, NEW jsOk \in BOOLEAN, J!Connect(ok, jsOk) PROVE JetTyped'
  <2>1. /\ jconn' \in 0 .. MaxDials /\ js' \in 0 .. MaxDials /\ jdials' \in 0 .. MaxDials
    BY <1>t, <1>2 DEF J!Connect, J!jconnVars
  <2>2. UNCHANGED J!jetOnly
    BY <1>2 DEF J!Connect
  <2> QED
    BY <1>t, <1>1, <2>1, <2>2 DEF JetTyped, J!TypeOK, J!jetOnly, J!jsubVars, J!history
<1>3. ASSUME NEW m \in Messages, NEW ok \in BOOLEAN, J!Callback(m, ok) PROVE JetTyped'
  <2>1. /\ verdict' \in {<<>>} \union (Messages \X BOOLEAN) /\ batch' \subseteq Messages
        /\ tried' \subseteq Messages /\ good' \subseteq Messages
        /\ UNCHANGED <<J!jconnVars, J!jsubVars, out, handed, settled>>
    BY <1>t, <1>3 DEF J!Callback
  <2> QED
    BY <1>t, <1>1, <2>1 DEF JetTyped, J!TypeOK, J!jconnVars, J!jsubVars
<1>4. CASE J!Answer
  <2>0. verdict # <<>> /\ verdict' = <<>> /\ UNCHANGED <<J!jconnVars, J!jsubVars, batch, J!history>>
    BY <1>4 DEF J!Answer
  <2>1. verdict[1] \in Messages
    BY <1>t, <2>0
  <2>2. settled' \subseteq Messages /\ out' \subseteq Messages
    BY <1>t, <1>4, <2>1 DEF J!Answer
  <2> QED
    BY <1>t, <1>1, <2>0, <2>2 DEF JetTyped, J!TypeOK, J!jconnVars, J!jsubVars, J!history
<1>5. ASSUME NEW S \in SUBSET Messages, batch' = S, out' = out \union S, handed' = handed \union S,
             jloop' \in {jloop, "handle"},
             UNCHANGED <<J!jconnVars, jsub, jsubconn, verdict, tried, good, settled>>
      PROVE  JetTyped'
  BY <1>t, <1>1, <1>5 DEF JetTyped, J!TypeOK, J!jconnVars
<1>6. ASSUME NEW m \in Messages, J!Push(m) PROVE JetTyped'
  <2>1. {m} \in SUBSET Messages
    OBVIOUS
  <2> QED
    BY <1>5, <1>6, <2>1, Zenon DEF J!Push, J!jsubVars
<1>7. ASSUME NEW S \in SUBSET Messages, J!PullFetch(S) PROVE JetTyped'
  BY <1>5, <1>7, Zenon DEF J!PullFetch
<1>8. CASE J!Disconnect \/ J!GiveUp \/ J!Subscribe \/ J!Listed \/ J!Unsubscribe \/ J!Pulling
           \/ UNCHANGED J!jetVars \/ \E m \in Messages : J!AckWaitOver(m)
  <2>1. UNCHANGED <<jconn, js, jdials, batch, verdict, handed, tried, good, settled>>
    BY <1>8, Zenon DEF J!jconnVars, J!jetOnly, J!jsubVars, J!Disconnect, J!GiveUp, J!Subscribe,
     J!Listed, J!Unsubscribe, J!Pulling, J!PullTop, J!PullFails, J!PullDone, J!AckWaitOver, J!jetVars, J!history
  <2>2. /\ jsub' \in {jsub, "made", "on"} /\ jloop' \in {jloop, "none", "top", "fetch", "handle", "gone"}
        /\ jsubconn' \in {jsubconn, js} /\ out' \subseteq out
    BY <1>8, Zenon DEF J!jconnVars, J!jetOnly, J!jsubVars, J!Disconnect, J!GiveUp, J!Subscribe,
     J!Listed, J!Unsubscribe, J!Pulling, J!PullTop, J!PullFails, J!PullDone, J!AckWaitOver, J!jetVars
  <2> QED
    BY <1>t, <1>1, <2>1, <2>2 DEF JetTyped, J!TypeOK
<1> QED
  BY <1>2, <1>3, <1>4, <1>6, <1>7, <1>8, Zenon DEF J!Next, J!Giving

------------------------------------------------------------------------------
(* Redis Pub/Sub and streams, for any number of messages. *)
R == INSTANCE Redis

pubsubOwn == <<pool, wire, rclosed, rlisted, ended, recv, slipped, fell>>

\* A subscriber that is closed while recv has no connection and is past its check of
\* closed is the race that slipped records; before Subscribe nothing can be closed.
CloseIsSeen ==
  /\ recv = "none" => ~rclosed /\ ~rlisted
  /\ rclosed /\ recv = "conn" /\ wire = "none" => slipped

\* The inductive invariant of Redis Pub/Sub.
PubSubInv == R!TypeOK /\ R!ClosedIsDeaf /\ CloseIsSeen

\* Every step of Redis Pub/Sub preserves the invariant.
LEMMA PubSubStep == PubSubInv /\ [R!Next]_pubsubOwn => PubSubInv'
<1> SUFFICES ASSUME PubSubInv, [R!Next]_pubsubOwn PROVE PubSubInv'
  OBVIOUS
<1> USE DEF PubSubInv
<1>1. R!TypeOK'
  <2>1. {rclosed', rlisted', ended', slipped', fell'} \subseteq BOOLEAN
    BY Zenon DEF R!TypeOK, R!Next, R!Connect, R!Publish, R!Subscribe, R!Lose, R!Cancel, R!Recv, R!Top,
       R!Reconnect, R!PoolGone, R!ReceiveEnds, R!Wait, R!Unsubscribe, R!Unsubscribed, R!Disconnect,
       pubsubOwn
  <2>2. /\ pool' \in {"none", "open"} /\ wire' \in {"none", "live", "dead", "leaving"}
        /\ recv' \in {"none", "top", "conn", "receive", "wait", "end"}
    BY Zenon DEF R!TypeOK, R!Next, R!Connect, R!Publish, R!Subscribe, R!Lose, R!Cancel, R!Recv, R!Top,
       R!Reconnect, R!PoolGone, R!ReceiveEnds, R!Wait, R!Unsubscribe, R!Unsubscribed, R!Disconnect,
       pubsubOwn
  <2> QED
    BY <2>1, <2>2 DEF R!TypeOK
<1>2. CloseIsSeen' /\ R!ClosedIsDeaf'
  <2> USE DEF R!ClosedIsDeaf, CloseIsSeen
  <2>1. CASE R!Connect \/ R!Publish \/ R!Lose \/ R!Cancel \/ R!PoolGone
    BY <2>1 DEF R!Connect, R!Publish, R!Lose, R!Cancel, R!PoolGone
  <2>2. CASE R!Subscribe
    BY <2>2 DEF R!Subscribe
  <2>3. CASE R!Top \/ R!ReceiveEnds \/ R!Wait
    BY <2>3 DEF R!Top, R!ReceiveEnds, R!Wait
  <2>4. ASSUME NEW ok \in BOOLEAN, R!Reconnect(ok) PROVE CloseIsSeen' /\ R!ClosedIsDeaf'
    BY <2>4 DEF R!Reconnect
  <2>5. ASSUME R!Unsubscribed, recv # "none", recv' = recv, rlisted' = FALSE
        PROVE  CloseIsSeen' /\ R!ClosedIsDeaf'
    BY <2>5, Zenon DEF R!Unsubscribed
  <2>6. CASE R!Unsubscribe
    BY <2>5, <2>6, Zenon DEF R!Unsubscribe
  <2>7. CASE R!Disconnect
    <3>1. CASE pool # "none" /\ rlisted
      BY <2>5, <2>7, <3>1, Zenon DEF R!Disconnect
    <3>2. CASE ~(pool # "none" /\ rlisted)
      BY <2>7, <3>2 DEF R!Disconnect
    <3> QED
      BY <3>1, <3>2
  <2>8. CASE UNCHANGED pubsubOwn
    BY <2>8 DEF pubsubOwn
  <2> QED
    BY <2>1, <2>2, <2>3, <2>4, <2>6, <2>7, <2>8 DEF R!Next, R!Recv
<1> QED
  BY <1>1, <1>2

\* It holds when the broker is made.
LEMMA PubSubInit == R!Init => PubSubInv
  BY Zenon DEF R!Init, PubSubInv, R!TypeOK, R!ClosedIsDeaf, CloseIsSeen

\* A Redis Pub/Sub subscriber that was closed is not subscribed at the server, but for
\* the race between recv's check of closed and its reconnect.
THEOREM ClosedStaysDeaf == R!Spec => []R!ClosedIsDeaf
<1>1. R!Spec => R!Init /\ [][R!Next]_pubsubOwn
  BY DEF R!Spec, pubsubOwn, R!pubsubVars
<1>2. PubSubInv => R!ClosedIsDeaf
  BY DEF PubSubInv
<1> QED
  BY <1>1, <1>2, PubSubInit, PubSubStep, PTL

\* What the group has given out lies before its position; what a reply or the handler
\* holds was given out; what is acknowledged was handled without error.
GroupAgrees ==
  /\ handed \subseteq 1 .. cursor /\ cursor <= stream /\ (sloop # "none" => cursor >= 0)
  /\ good \subseteq handed /\ settled \subseteq good /\ pending = handed \ settled
  /\ \A i \in 1 .. Len(sbatch) : sbatch[i] \in handed

\* The inductive invariant of a stream's consumer group.
StreamInv == R!StreamTypeOK /\ GroupAgrees

\* It holds when the broker is made.
LEMMA StreamInit == R!StreamInit => StreamInv
<1> SUFFICES ASSUME R!StreamInit PROVE StreamInv
  OBVIOUS
<1>1. {spool, sclosed, slisted, auto, sfell} \subseteq BOOLEAN
  BY Zenon DEF R!StreamInit
<1>2. sbatch \in Seq(1 .. Length) /\ Len(sbatch) = 0
  BY DEF R!StreamInit
<1> QED
  BY <1>1, <1>2, KafkaReaderAssumption DEF R!StreamInit, StreamInv, R!StreamTypeOK, GroupAgrees, R!NoGroup

\* What the steps that neither read nor handle leave alone.
unreadVars == <<pending, sbatch, judged, handed, tried, good, settled>>

\* Steps of the connection, the publisher and the subscription: the group keeps what it
\* gave out, and its position, or it is made at the end of the stream.
LEMMA StreamQuiet ==
  ASSUME StreamInv, UNCHANGED unreadVars,
         {spool', sclosed', slisted', auto', sfell'} \subseteq BOOLEAN,
         sloop' \in {"none", "top", "read", "wait", "handle", "end"},
         stream' \in 0 .. Length, stream <= stream',
         \/ cursor' = cursor /\ (sloop' # "none" => sloop # "none" \/ cursor >= 0)
         \/ cursor = R!NoGroup /\ cursor' = stream /\ stream' = stream
  PROVE  StreamInv' /\ (\A m \in R!Range(sbatch') \ R!Range(sbatch) : m \notin handed)
<1>1. R!StreamTypeOK'
  BY DEF StreamInv, R!StreamTypeOK, unreadVars, R!NoGroup
<1>2. GroupAgrees'
  BY DEF StreamInv, R!StreamTypeOK, GroupAgrees, unreadVars, R!NoGroup
<1>3. R!Range(sbatch') \ R!Range(sbatch) = {}
  BY DEF unreadVars
<1> QED
  BY <1>1, <1>2, <1>3, Zenon DEF StreamInv

\* A read hands out messages the group has not given before.
LEMMA StreamRead ==
  ASSUME StreamInv, R!Read
  PROVE  StreamInv' /\ (\A m \in R!Range(sbatch') \ R!Range(sbatch) : m \notin handed)
<1> USE KafkaReaderAssumption, RedisAssumption
<1>0. /\ stream \in 0 .. Length /\ cursor \in 0 .. Length
      /\ pending \subseteq 1 .. Length /\ handed \subseteq 1 .. cursor
      /\ {spool, sclosed, slisted, auto, sfell} \subseteq BOOLEAN
      /\ good \subseteq handed /\ settled \subseteq good /\ pending = handed \ settled
  BY DEF StreamInv, R!StreamTypeOK, GroupAgrees, R!Read, R!NoGroup
<1>q. UNCHANGED <<spool, sclosed, slisted, auto, stream, judged, tried, good, settled>> /\ sloop = "read"
  BY DEF R!Read
<1>1. ASSUME UNCHANGED <<cursor, pending, sbatch, handed>>, sloop' \in {sloop, "top"}, {sfell'} \subseteq BOOLEAN
      PROVE  StreamInv' /\ (\A m \in R!Range(sbatch') \ R!Range(sbatch) : m \notin handed)
  <2>1. UNCHANGED unreadVars
    BY <1>1, <1>q DEF unreadVars
  <2> QED
    BY <1>0, <1>1, <1>q, <2>1, StreamQuiet
<1>2. ASSUME NEW n \in 1 .. (IF Count < stream - cursor THEN Count ELSE stream - cursor),
             sbatch' = [i \in 1 .. n |-> cursor + i], cursor' = cursor + n,
             pending' = pending \union (cursor + 1 .. cursor + n),
             handed' = handed \union (cursor + 1 .. cursor + n),
             sloop' = "handle", sfell' = sfell
      PROVE  StreamInv' /\ (\A m \in R!Range(sbatch') \ R!Range(sbatch) : m \notin handed)
  <2>1. n \in Nat /\ n > 0 /\ cursor + n <= stream
    BY <1>0, <1>2
  <2>2. sbatch' \in Seq(1 .. Length) /\ Len(sbatch') = n
    <3>1. sbatch' \in [1 .. n -> 1 .. Length]
      BY <1>0, <1>2, <2>1
    <3> QED
      BY <2>1, <3>1
  <2>3. \A i \in 1 .. Len(sbatch') : sbatch'[i] \in cursor + 1 .. cursor + n
    BY <1>0, <1>2, <2>1, <2>2
  <2>4. handed' \subseteq 1 .. cursor' /\ handed' \subseteq 1 .. Length /\ pending' \subseteq 1 .. Length
    BY <1>0, <1>2, <2>1
  <2>5. pending' = handed' \ settled'
    BY <1>0, <1>2, <1>q, <2>1, SMTT(30)
  <2>6. R!StreamTypeOK'
    BY <1>0, <1>2, <1>q, <2>1, <2>2, <2>4 DEF StreamInv, R!StreamTypeOK
  <2>7. GroupAgrees'
    BY <1>0, <1>2, <1>q, <2>1, <2>3, <2>4, <2>5 DEF GroupAgrees
  <2>8. R!Range(sbatch') = {sbatch'[i] : i \in 1 .. Len(sbatch')}
    BY <2>2 DEF R!Range
  <2>9. \A m \in R!Range(sbatch') : m \notin handed
    BY <1>0, <2>3, <2>8
  <2> QED
    BY <2>6, <2>7, <2>9 DEF StreamInv
<1>3. CASE /\ spool /\ cursor < stream /\ sloop' = "handle" /\ sfell' = sfell
           /\ \E n \in 1 .. (IF Count < stream - cursor THEN Count ELSE stream - cursor) :
                /\ sbatch' = [i \in 1 .. n |-> cursor + i] /\ cursor' = cursor + n
                /\ pending' = pending \union (cursor + 1 .. cursor + n)
                /\ handed' = handed \union (cursor + 1 .. cursor + n)
  BY <1>2, <1>3
<1>4. CASE /\ UNCHANGED <<cursor, pending, sbatch, handed>>
           /\ \/ sloop' = "top" /\ sfell' = sfell
              \/ sfell' = TRUE /\ sloop' = sloop
  <2>1. {sfell'} \subseteq BOOLEAN
    BY <1>0, <1>4, Zenon
  <2> QED
    BY <1>1, <1>4, <2>1
<1> QED
  BY <1>3, <1>4, ZenonT(30) DEF R!Read

\* The head and the tail of a sequence that is not empty.
LEMMA HeadAndTail ==
  ASSUME NEW S, NEW s \in Seq(S), s # <<>>
  PROVE  /\ Len(s) \in Nat /\ Len(s) > 0 /\ Head(s) \in S /\ Head(s) = s[1]
         /\ Tail(s) \in Seq(S) /\ Len(Tail(s)) = Len(s) - 1
         /\ \A i \in 1 .. Len(s) - 1 : Tail(s)[i] = s[i + 1]
         /\ {Tail(s)[i] : i \in DOMAIN Tail(s)} \subseteq {s[i] : i \in DOMAIN s}
<1>1. Len(s) \in Nat /\ Len(s) > 0
  OBVIOUS
<1>2. Head(s) \in S /\ Head(s) = s[1] /\ Tail(s) \in Seq(S) /\ Len(Tail(s)) = Len(s) - 1
  BY <1>1
<1>3. \A i \in 1 .. Len(s) - 1 : Tail(s)[i] = s[i + 1]
  BY <1>1
<1>4. {Tail(s)[i] : i \in DOMAIN Tail(s)} \subseteq {s[i] : i \in DOMAIN s}
  OBVIOUS
<1> QED
  BY <1>1, <1>2, <1>3, <1>4

\* The handler is called with the first message of the reply, or the rest is left.
LEMMA StreamHandle ==
  ASSUME StreamInv, NEW ok \in BOOLEAN, R!Handle(ok)
  PROVE  StreamInv' /\ (\A m \in R!Range(sbatch') \ R!Range(sbatch) : m \notin handed)
<1>0. /\ sbatch \in Seq(1 .. Length) /\ handed \subseteq 1 .. Length /\ good \subseteq handed
      /\ tried \subseteq 1 .. Length /\ \A i \in 1 .. Len(sbatch) : sbatch[i] \in handed
      /\ sloop = "handle" /\ sloop' \in {"end", "top", "handle"}
      /\ UNCHANGED <<spool, sclosed, slisted, auto, stream, cursor, pending, sfell, handed, settled>>
  BY Zenon DEF StreamInv, R!StreamTypeOK, GroupAgrees, R!Handle, R!server
<1>1. CASE UNCHANGED <<judged, tried, good>> /\ sbatch' \in {sbatch, <<>>}
  <2>1. /\ sbatch' \in Seq(1 .. Length) /\ (\A i \in 1 .. Len(sbatch') : sbatch'[i] \in handed)
        /\ R!Range(sbatch') \subseteq R!Range(sbatch)
    <3>1. CASE sbatch' = sbatch
      BY <1>0, <3>1
    <3>2. CASE sbatch' = <<>>
      BY <3>2 DEF R!Range
    <3> QED
      BY <1>1, <3>1, <3>2
  <2>2. R!StreamTypeOK'
    BY <1>0, <1>1, <2>1 DEF StreamInv, R!StreamTypeOK
  <2>3. GroupAgrees'
    BY <1>0, <1>1, <2>1 DEF StreamInv, GroupAgrees
  <2> QED
    BY <2>1, <2>2, <2>3 DEF StreamInv
<1>2. CASE /\ sbatch # <<>> /\ sloop' = sloop /\ judged' = <<Head(sbatch), ok>> /\ sbatch' = Tail(sbatch)
           /\ tried' = tried \union {Head(sbatch)}
           /\ good' = IF ok THEN good \union {Head(sbatch)} ELSE good
  <2>1. /\ Head(sbatch) \in 1 .. Length /\ Head(sbatch) \in handed /\ Tail(sbatch) \in Seq(1 .. Length)
        /\ Len(Tail(sbatch)) = Len(sbatch) - 1
        /\ \A i \in 1 .. Len(sbatch) - 1 : Tail(sbatch)[i] = sbatch[i + 1]
    <3>1. sbatch \in Seq(1 .. Length) /\ sbatch # <<>>
      BY <1>0, <1>2
    <3>2. /\ Len(sbatch) \in Nat /\ Len(sbatch) > 0
          /\ Head(sbatch) \in 1 .. Length /\ Head(sbatch) = sbatch[1]
          /\ Tail(sbatch) \in Seq(1 .. Length) /\ Len(Tail(sbatch)) = Len(sbatch) - 1
          /\ \A i \in 1 .. Len(sbatch) - 1 : Tail(sbatch)[i] = sbatch[i + 1]
      BY <3>1, HeadAndTail, Zenon
    <3> QED
      BY <1>0, <3>2
  <2>2. sbatch' \in Seq(1 .. Length) /\ (\A i \in 1 .. Len(sbatch') : sbatch'[i] \in handed)
    BY <1>0, <1>2, <2>1
  <2>3. R!Range(sbatch') \subseteq R!Range(sbatch)
    <3>1. {Tail(sbatch)[i] : i \in DOMAIN Tail(sbatch)} \subseteq {sbatch[i] : i \in DOMAIN sbatch}
      BY <1>0, <1>2, HeadAndTail
    <3> QED
      BY <1>2, <3>1, SMTT(30) DEF R!Range
  <2>4. judged' \in (1 .. Length) \X BOOLEAN
    BY <1>2, <2>1
  <2>5. good' \subseteq handed /\ good \subseteq good' /\ tried' \subseteq 1 .. Length
    BY <1>0, <1>2, <2>1, ZenonT(30)
  <2>6. R!StreamTypeOK'
    BY <1>0, <1>2, <2>2, <2>4, <2>5 DEF StreamInv, R!StreamTypeOK
  <2>7. GroupAgrees'
    BY <1>0, <1>2, <2>2, <2>5 DEF StreamInv, GroupAgrees
  <2> QED
    BY <2>3, <2>6, <2>7 DEF StreamInv
<1> QED
  BY <1>1, <1>2 DEF R!Handle

\* The id of a reply is no string, so XACK has none to acknowledge.
LEMMA ReplyHasNoId == ASSUME NEW m PROVE R!MsgID(R!ReplyId(m)) = R!NoId
  BY DEF R!MsgID, R!ReplyId

\* Every step of the stream's consumer preserves the invariant, and puts into a reply
\* only messages the group has not given before.
LEMMA StreamStep ==
  StreamInv /\ [R!StreamNext]_(R!streamVars) =>
    StreamInv' /\ (\A m \in R!Range(sbatch') \ R!Range(sbatch) : m \notin handed)
<1> SUFFICES ASSUME StreamInv, [R!StreamNext]_(R!streamVars)
             PROVE  StreamInv' /\ (\A m \in R!Range(sbatch') \ R!Range(sbatch) : m \notin handed)
  OBVIOUS
<1> USE KafkaReaderAssumption
<1>0. /\ {spool, sclosed, slisted, auto, sfell} \subseteq BOOLEAN
      /\ sloop \in {"none", "top", "read", "wait", "handle", "end"}
      /\ stream \in 0 .. Length /\ (sloop # "none" => cursor >= 0)
      /\ cursor \in {R!NoGroup} \union 0 .. Length
  BY SMTT(30) DEF StreamInv, R!StreamTypeOK, GroupAgrees
<1>1. CASE \/ R!StreamConnect \/ R!StreamPublish \/ R!StreamSubscribe \/ R!StreamTop \/ R!ReadFails
           \/ R!StreamWait \/ R!Cancelled \/ R!StreamUnsubscribe \/ R!StreamDisconnect
           \/ UNCHANGED R!streamVars
  <2>1. UNCHANGED unreadVars
    BY <1>1, Zenon DEF unreadVars, R!server, R!history, R!streamVars, R!StreamConnect, R!StreamPublish,
       R!StreamSubscribe, R!StreamTop, R!ReadFails, R!StreamWait, R!Cancelled, R!StreamUnsubscribe,
       R!StreamDisconnect
  <2>2. {spool', sclosed', slisted', auto', sfell'} \subseteq BOOLEAN
    BY <1>0, <1>1, Zenon DEF R!server, R!history, R!streamVars, R!StreamConnect, R!StreamPublish,
       R!StreamSubscribe, R!StreamTop, R!ReadFails, R!StreamWait, R!Cancelled, R!StreamUnsubscribe,
       R!StreamDisconnect
  <2>3. /\ sloop' \in {"none", "top", "read", "wait", "handle", "end"}
        /\ stream' \in 0 .. Length /\ stream <= stream'
        /\ \/ cursor' = cursor /\ (sloop' # "none" => sloop # "none" \/ cursor >= 0)
           \/ cursor = R!NoGroup /\ cursor' = stream /\ stream' = stream
    <3>1. CASE UNCHANGED <<stream, cursor>> /\ (sloop' # "none" => sloop # "none")
      <4>1. sloop' \in {sloop, "top", "read", "wait", "end"}
        BY <1>1, Zenon DEF R!streamVars, R!StreamConnect, R!StreamPublish, R!StreamSubscribe,
           R!StreamTop, R!ReadFails, R!StreamWait, R!Cancelled, R!StreamUnsubscribe, R!StreamDisconnect
      <4> QED
        BY <1>0, <3>1, <4>1
    <3>2. CASE R!StreamPublish
      BY <1>0, <3>2, SMTT(30) DEF R!StreamPublish
    <3>3. CASE R!StreamSubscribe \/ R!StreamWait
      BY <1>0, <3>3 DEF R!StreamSubscribe, R!StreamWait, R!EnsureGroup
    <3> QED
      BY <1>1, <3>1, <3>2, <3>3, Zenon DEF R!server, R!streamVars, R!StreamConnect, R!StreamTop, R!ReadFails,
         R!Cancelled, R!StreamUnsubscribe, R!StreamDisconnect
  <2> QED
    BY <2>1, <2>2, <2>3, StreamQuiet
<1>2. CASE R!Read
  BY <1>2, StreamRead
<1>3. ASSUME NEW ok \in BOOLEAN, R!Handle(ok)
      PROVE  StreamInv' /\ (\A m \in R!Range(sbatch') \ R!Range(sbatch) : m \notin handed)
  BY <1>3, StreamHandle
<1>4. ASSUME NEW ok \in BOOLEAN, R!Ack(ok)
      PROVE  StreamInv' /\ (\A m \in R!Range(sbatch') \ R!Range(sbatch) : m \notin handed)
  <2>1. /\ judged' = <<>> /\ UNCHANGED <<settled, pending>>
        /\ UNCHANGED <<spool, sclosed, slisted, auto, stream, cursor, sloop, sbatch, sfell, R!history>>
    BY <1>4, ReplyHasNoId, SMTT(30) DEF R!Ack
  <2>2. R!StreamTypeOK'
    BY <2>1 DEF StreamInv, R!StreamTypeOK, R!history
  <2>3. GroupAgrees'
    BY <2>1 DEF StreamInv, GroupAgrees, R!history
  <2> QED
    BY <2>1, <2>2, <2>3 DEF StreamInv
<1> QED
  BY <1>1, <1>2, <1>3, <1>4, Zenon DEF R!StreamNext, R!StreamRecv

\* However often reads fail and the reader starts again: the pending list of the group
\* is what was given out and not acknowledged, and what is acknowledged was handled
\* without error.
THEOREM PendingStaysOpen == R!StreamSpec => []R!PendingIsOpen
<1>1. StreamInv => R!PendingIsOpen
  BY DEF StreamInv, GroupAgrees, R!PendingIsOpen
<1> QED
  BY <1>1, StreamInit, StreamStep, PTL DEF R!StreamSpec

\* No message is given out twice by the group.
THEOREM StreamGivesOnce == R!StreamSpec => R!GivenOnce
<1>1. StreamInv /\ [R!StreamNext]_(R!streamVars) =>
        [\A m \in R!Range(sbatch') \ R!Range(sbatch) : m \notin handed]_(R!streamVars)
  BY StreamStep
<1> QED
  BY <1>1, StreamInit, StreamStep, PTL DEF R!StreamSpec, R!GivenOnce

------------------------------------------------------------------------------
(* The three clients of RocketMQ, proved for any messages, batches and consumers. *)

Q == INSTANCE RocketConsumers

\* Every step of the push consumer keeps it, and is one of the contract or none.
LEMMA PushStep == Q!BatchIsGiven /\ [Q!Next]_(Q!pushVars) => Q!BatchIsGiven' /\ [Q!D!Next]_(Q!D!deliveryVars)
<1> SUFFICES ASSUME Q!BatchIsGiven, [Q!Next]_(Q!pushVars)
             PROVE  Q!BatchIsGiven' /\ [Q!D!Next]_(Q!D!deliveryVars)
  OBVIOUS
<1>1. ASSUME NEW S \in SUBSET Messages, Q!Push(S) PROVE Q!BatchIsGiven' /\ Q!D!Next
  <2>1. Q!D!Give(S)
    BY <1>1 DEF Q!Push, Q!D!Give
  <2>2. hasError' \in BOOLEAN
    BY <1>1, Zenon DEF Q!Push
  <2>3. Q!BatchIsGiven'
    BY <1>1, <2>2 DEF Q!Push, Q!BatchIsGiven
  <2> QED
    BY <2>1, <2>3 DEF Q!D!Next
<1>2. ASSUME NEW m \in Messages, NEW ok \in BOOLEAN, Q!Handle(m, ok) PROVE Q!BatchIsGiven' /\ Q!D!Next
  <2>1. Q!D!Finish(m, ok)
    BY <1>2 DEF Q!Handle, Q!BatchIsGiven, Q!D!Finish
  <2>2. hasError' \in BOOLEAN
    BY <1>2 DEF Q!Handle, Q!BatchIsGiven
  <2>3. ~hasError' => claimed' \ todo' \subseteq good'
    BY <1>2, Zenon DEF Q!Handle, Q!BatchIsGiven
  <2>4. Q!BatchIsGiven'
    BY <1>2, <2>2, <2>3 DEF Q!Handle, Q!BatchIsGiven
  <2> QED
    BY <2>1, <2>4 DEF Q!D!Next
<1>3. CASE Q!Result
  <2>1. Q!BatchIsGiven'
    BY <1>3 DEF Q!Result, Q!BatchIsGiven
  <2>2. CASE hasError
    BY <1>3, <2>1, <2>2 DEF Q!Result, Q!D!deliveryVars
  <2>3. CASE ~hasError
    <3>1. Q!D!Settle(claimed)
      BY <1>3, <2>3 DEF Q!Result, Q!BatchIsGiven, Q!D!Settle
    <3> QED
      BY <2>1, <3>1 DEF Q!D!Next, Q!BatchIsGiven
  <2> QED
    BY <2>2, <2>3
<1>4. CASE UNCHANGED <<claimed, todo, hasError, handed, tried, good, settled>>
  BY <1>4 DEF Q!BatchIsGiven, Q!D!deliveryVars
<1> QED
  BY <1>1, <1>2, <1>3, <1>4, SMTT(30) DEF Q!Next, Q!Callback, Q!Subscribe, Q!Unsubscribe, Q!pushVars

\* The push consumer of rocketmq-client-go implements the contract of a consumer:
\* although the whole batch is reported at once, no message of it is consumed that a
\* handler refused.
THEOREM PushRefinesDelivery == Q!Spec => Q!ImplementsDelivery
<1>1. Q!Init => Q!BatchIsGiven /\ Q!D!Init
  BY Zenon DEF Q!Init, Q!BatchIsGiven, Q!D!Init
<1>2. Q!BatchIsGiven /\ [Q!Next]_(Q!pushVars) => Q!BatchIsGiven' /\ [Q!D!Next]_(Q!D!deliveryVars)
  BY PushStep
<1> QED
  BY <1>1, <1>2, PTL DEF Q!Spec, Q!ImplementsDelivery, Q!D!Spec

\* The push consumer of RocketMQ keeps its type.
LEMMA PushTyped == Q!TypeOK /\ [Q!Next]_(Q!pushVars) => Q!TypeOK'
<1> SUFFICES ASSUME Q!TypeOK, [Q!Next]_(Q!pushVars) PROVE Q!TypeOK'
  OBVIOUS
<1>1. {hasError', pfell'} \subseteq BOOLEAN
  BY Zenon DEF Q!TypeOK, Q!Next, Q!Callback, Q!Subscribe, Q!Push, Q!Handle, Q!Result, Q!Unsubscribe, Q!pushVars
<1>2. /\ sub' \in {"none", "on", "off"} /\ claimed' \subseteq Messages /\ todo' \subseteq Messages
      /\ handed' \subseteq Messages /\ tried' \subseteq Messages /\ good' \subseteq Messages
      /\ settled' \subseteq Messages
  BY DEF Q!TypeOK, Q!Next, Q!Callback, Q!Subscribe, Q!Push, Q!Handle, Q!Result, Q!Unsubscribe, Q!pushVars
<1> QED
  BY <1>1, <1>2 DEF Q!TypeOK

\* Every step of doConsume and its workers keeps it, and is one of the contract or none.
LEMMA AliyunStep ==
  Q!AnswerIsGiven /\ [Q!AliyunNext]_(Q!aliyunVars) => Q!AnswerIsGiven' /\ [Q!D!Next]_(Q!D!deliveryVars)
<1> SUFFICES ASSUME Q!AnswerIsGiven, [Q!AliyunNext]_(Q!aliyunVars)
             PROVE  Q!AnswerIsGiven' /\ [Q!D!Next]_(Q!D!deliveryVars)
  OBVIOUS
<1>1. ASSUME NEW S \in SUBSET (Messages \ settled), Q!Polled(S) PROVE Q!AnswerIsGiven' /\ Q!D!Next
  <2>1. Q!D!Give(S) /\ S \in SUBSET Messages
    BY <1>1 DEF Q!Polled, Q!D!Give
  <2>2. Q!AnswerIsGiven'
    BY <1>1 DEF Q!Polled, Q!AnswerIsGiven
  <2> QED
    BY <2>1, <2>2 DEF Q!D!Next
<1>2. ASSUME NEW m \in Messages, NEW ok \in BOOLEAN, Q!AliyunHandle(m, ok)
      PROVE  Q!AnswerIsGiven' /\ Q!D!Next
  <2>1. Q!D!Finish(m, ok)
    BY <1>2 DEF Q!AliyunHandle, Q!AnswerIsGiven, Q!D!Finish
  <2>2. Q!AnswerIsGiven'
    BY <1>2 DEF Q!AliyunHandle, Q!AnswerIsGiven
  <2> QED
    BY <2>1, <2>2 DEF Q!D!Next
<1>3. ASSUME NEW ok \in BOOLEAN, Q!Ack(ok) PROVE Q!AnswerIsGiven' /\ [Q!D!Next]_(Q!D!deliveryVars)
  <2>0. result # <<>> /\ result' = <<>> /\ answer' = answer /\ UNCHANGED Q!history
    BY <1>3 DEF Q!Ack
  <2>1. result \in Messages \X BOOLEAN /\ (result[2] => result[1] \in good)
    BY <2>0 DEF Q!AnswerIsGiven
  <2>2. Q!AnswerIsGiven'
    BY <2>0 DEF Q!AnswerIsGiven, Q!history
  <2>3. CASE result[2] /\ ok
    <3>1. settled' = settled \union {result[1]} /\ result[1] \in Messages
      BY <1>3, <2>1, <2>3 DEF Q!Ack
    <3>2. Q!D!Settle({result[1]})
      BY <2>0, <2>1, <2>3, <3>1 DEF Q!history, Q!D!Settle
    <3> QED
      BY <2>2, <3>1, <3>2 DEF Q!D!Next
  <2>4. CASE ~(result[2] /\ ok)
    <3>1. settled' = settled
      BY <1>3, <2>4 DEF Q!Ack
    <3> QED
      BY <2>0, <2>2, <3>1 DEF Q!D!deliveryVars, Q!history
  <2> QED
    BY <2>3, <2>4
<1>4. CASE UNCHANGED <<answer, result, Q!history, settled>>
  BY <1>4 DEF Q!AnswerIsGiven, Q!D!deliveryVars, Q!history
<1>5. CASE Q!Turn
  BY <1>5 DEF Q!Turn, Q!AnswerIsGiven, Q!D!deliveryVars, Q!history
<1> QED
  BY <1>1, <1>2, <1>3, <1>4, <1>5, Zenon DEF Q!AliyunNext, Q!Poll, Q!Work, Q!Connect, Q!Disconnect,
     Q!AliyunSubscribe, Q!Publish, Q!Take, Q!Timeout, Q!SeesDone, Q!Handled, Q!AliyunUnsubscribe, Q!aliyunVars

\* The long poll of aliyun implements the contract, however its answers and the timeouts
\* of its workers overtake each other.
THEOREM AliyunRefinesDelivery == Q!AliyunSpec => Q!ImplementsDelivery
<1>1. Q!AliyunInit => Q!AnswerIsGiven /\ Q!D!Init
  BY DEF Q!AliyunInit, Q!AnswerIsGiven, Q!D!Init
<1>2. Q!AnswerIsGiven /\ [Q!AliyunNext]_(Q!aliyunVars) => Q!AnswerIsGiven' /\ [Q!D!Next]_(Q!D!deliveryVars)
  BY AliyunStep
<1> QED
  BY <1>1, <1>2, PTL DEF Q!AliyunSpec, Q!ImplementsDelivery, Q!D!Spec

\* The long poll of aliyun keeps its type.
LEMMA AliyunTyped == Q!AliyunTypeOK /\ [Q!AliyunNext]_(Q!aliyunVars) => Q!AliyunTypeOK'
<1> SUFFICES ASSUME Q!AliyunTypeOK, [Q!AliyunNext]_(Q!aliyunVars) PROVE Q!AliyunTypeOK'
  OBVIOUS
<1>t. /\ {client, aup, kept, aclosed, late, afell} \subseteq BOOLEAN
      /\ main \in {"none", "poll", "resp", "err", "wait"}
      /\ worker \in {"none", "select", "handle", "end", "gone"}
      /\ result \in {<<>>} \union (Messages \X BOOLEAN)
      /\ answer \subseteq Messages /\ handed \subseteq Messages /\ tried \subseteq Messages
      /\ good \subseteq Messages /\ settled \subseteq Messages
  BY DEF Q!AliyunTypeOK
<1>1. {client', aup', kept', aclosed', late', afell'} \subseteq BOOLEAN
  BY <1>t, Zenon DEF Q!AliyunNext, Q!Poll, Q!Work, Q!Connect, Q!Disconnect, Q!Polled, Q!AliyunHandle, Q!Ack, Q!Turn,
     Q!AliyunSubscribe, Q!Publish, Q!Take, Q!Timeout, Q!SeesDone, Q!Handled, Q!AliyunUnsubscribe, Q!aliyunVars, Q!connVars
<1>2. /\ main' \in {"none", "poll", "resp", "err", "wait"}
      /\ worker' \in {"none", "select", "handle", "end", "gone"}
  BY <1>t, ZenonT(30) DEF Q!AliyunNext, Q!Poll, Q!Work, Q!Connect, Q!Disconnect, Q!Polled, Q!AliyunHandle, Q!Ack, Q!Turn,
     Q!AliyunSubscribe, Q!Publish, Q!Take, Q!Timeout, Q!SeesDone, Q!Handled, Q!AliyunUnsubscribe, Q!aliyunVars
<1> DEFINE Given == /\ result' \in {<<>>} \union (Messages \X BOOLEAN)
                    /\ answer' \subseteq Messages /\ handed' \subseteq Messages /\ tried' \subseteq Messages
                    /\ good' \subseteq Messages /\ settled' \subseteq Messages
<1>3. Given
  <2>1. ASSUME NEW S \in SUBSET (Messages \ settled), Q!Polled(S) PROVE Given
    BY <1>t, <2>1, SMTT(30) DEF Q!Polled
  <2>2. ASSUME NEW m \in Messages, NEW ok \in BOOLEAN, Q!AliyunHandle(m, ok) PROVE Given
    BY <1>t, <2>2 DEF Q!AliyunHandle
  <2>3. ASSUME NEW ok \in BOOLEAN, Q!Ack(ok) PROVE Given
    <3>1. result \in Messages \X BOOLEAN /\ result' = <<>>
      BY <1>t, <2>3, SMTT(30) DEF Q!Ack
    <3>2. settled' \subseteq Messages
      BY <1>t, <2>3, <3>1, SMTT(30) DEF Q!Ack
    <3> QED
      BY <1>t, <2>3, <3>1, <3>2, ZenonT(30) DEF Q!Ack, Q!history
  <2>4. CASE UNCHANGED <<answer, result, Q!history, settled>>
    BY <1>t, <2>4, SMTT(30) DEF Q!history
  <2>5. CASE Q!Turn
    BY <1>t, <2>5 DEF Q!Turn, Q!history
  <2>6. CASE Q!Connect \/ Q!Disconnect \/ Q!Take \/ Q!SeesDone \/ Q!Handled \/ Q!Timeout \/ Q!AliyunUnsubscribe
             \/ UNCHANGED Q!aliyunVars \/ \E b \in BOOLEAN : Q!AliyunSubscribe(b) \/ Q!Publish(b)
    <3>1. UNCHANGED <<answer, result, Q!history, settled>>
      BY <2>6, Zenon DEF Q!Connect, Q!Disconnect, Q!AliyunSubscribe, Q!Publish, Q!Take, Q!Timeout, Q!SeesDone, Q!Handled,
         Q!AliyunUnsubscribe, Q!aliyunVars
    <3> QED
      BY <2>4, <3>1
  <2> QED
    BY <2>1, <2>2, <2>3, <2>5, <2>6, Zenon DEF Q!AliyunNext, Q!Poll, Q!Work
<1> QED
  BY <1>1, <1>2, <1>3 DEF Q!AliyunTypeOK

\* Every step keeps it, and is one of the contract or none.
LEMMA SimpleStep ==
  Q!ViewsAreGiven /\ [Q!SimpleNext]_(Q!rocketVars)
    => Q!ViewsAreGiven' /\ [Q!SimpleD!Next]_(Q!SimpleD!deliveryVars)
<1> SUFFICES ASSUME Q!ViewsAreGiven, [Q!SimpleNext]_(Q!rocketVars)
             PROVE  Q!ViewsAreGiven' /\ [Q!SimpleD!Next]_(Q!SimpleD!deliveryVars)
  OBVIOUS
<1>0. CASE UNCHANGED <<views, opinion, Q!history, settled>>
  BY <1>0 DEF Q!ViewsAreGiven, Q!SimpleD!deliveryVars, Q!history
<1>1. ASSUME NEW c \in Q!Consumers, NEW S \in {{}, RocketMessages \ (settled \union hidden)},
             Q!Receive(c, S)
      PROVE  Q!ViewsAreGiven' /\ [Q!SimpleD!Next]_(Q!SimpleD!deliveryVars)
  <2>1. CASE consumer = 0
    <3>1. UNCHANGED <<views, opinion, Q!history, settled>>
      BY <1>1, <2>1 DEF Q!Receive, Q!history
    <3> QED
      BY <1>0, <3>1, SMTT(30)
  <2>2. CASE consumer # 0
    <3>1. S \in SUBSET RocketMessages /\ Q!SimpleD!Give(S)
      BY <1>1, <2>2 DEF Q!Receive, Q!SimpleD!Give
    <3>2. Q!ViewsAreGiven'
      BY <1>1, <2>2, <3>1, ZenonT(30) DEF Q!Receive, Q!ViewsAreGiven
    <3> QED
      BY <3>1, <3>2, SMTT(30) DEF Q!SimpleD!Next
  <2> QED
    BY <2>1, <2>2
<1>2. ASSUME NEW c \in Q!Consumers, NEW m \in RocketMessages, NEW ok \in BOOLEAN,
             Q!SimpleHandle(c, m, ok)
      PROVE  Q!ViewsAreGiven' /\ [Q!SimpleD!Next]_(Q!SimpleD!deliveryVars)
  <2>0. /\ views' \in [Q!Consumers -> SUBSET RocketMessages]
        /\ \A d \in Q!Consumers : views'[d] \subseteq handed'
    BY <1>2 DEF Q!SimpleHandle, Q!ViewsAreGiven
  <2>1. CASE vsub \in {"none", "reading"}
    <3>1. UNCHANGED <<opinion, Q!history, settled>>
      BY <1>2, <2>1, ZenonT(30) DEF Q!SimpleHandle, Q!history
    <3> QED
      BY <2>0, <3>1 DEF Q!ViewsAreGiven, Q!SimpleD!deliveryVars, Q!history
  <2>2. CASE vsub \notin {"none", "reading"}
    <3>1. Q!SimpleD!Finish(m, ok)
      BY <1>2, <2>2, SMTT(30) DEF Q!SimpleHandle, Q!ViewsAreGiven, Q!SimpleD!Finish
    <3>2. opinion' = [opinion EXCEPT ![c] = <<m, ok>>] /\ good \subseteq good' /\ (ok => m \in good')
      BY <1>2, <2>2 DEF Q!SimpleHandle
    <3>3. opinion' \in [Q!Consumers -> {<<>>} \union (RocketMessages \X BOOLEAN)]
      BY <3>2 DEF Q!ViewsAreGiven
    <3>4. \A d \in Q!Consumers : opinion'[d] # <<>> /\ opinion'[d][2] => opinion'[d][1] \in good'
      BY <3>2, SMTT(30) DEF Q!ViewsAreGiven
    <3> QED
      BY <2>0, <3>1, <3>3, <3>4, SMTT(30) DEF Q!SimpleD!Next, Q!ViewsAreGiven
  <2> QED
    BY <2>1, <2>2
<1>3. ASSUME NEW c \in Q!Consumers, NEW ok \in BOOLEAN, Q!SimpleAck(c, ok)
      PROVE  Q!ViewsAreGiven' /\ [Q!SimpleD!Next]_(Q!SimpleD!deliveryVars)
  <2>0. /\ opinion[c] # <<>> /\ opinion' = [opinion EXCEPT ![c] = <<>>]
        /\ views' = views /\ UNCHANGED Q!history
    BY <1>3 DEF Q!SimpleAck
  <2>1. opinion[c] \in RocketMessages \X BOOLEAN /\ (opinion[c][2] => opinion[c][1] \in good)
    BY <2>0 DEF Q!ViewsAreGiven
  <2>2. Q!ViewsAreGiven'
    BY <2>0 DEF Q!ViewsAreGiven, Q!history
  <2>3. CASE opinion[c][2] /\ ok
    <3>1. settled' = settled \union {opinion[c][1]} /\ opinion[c][1] \in RocketMessages
      BY <1>3, <2>1, <2>3 DEF Q!SimpleAck
    <3>2. Q!SimpleD!Settle({opinion[c][1]})
      BY <2>0, <2>1, <2>3, <3>1 DEF Q!history, Q!SimpleD!Settle
    <3> QED
      BY <2>2, <3>1, <3>2, ZenonT(30) DEF Q!SimpleD!Next
  <2>4. CASE ~(opinion[c][2] /\ ok)
    <3>1. settled' = settled
      BY <1>3, <2>4, SMTT(30) DEF Q!SimpleAck
    <3> QED
      BY <2>0, <2>2, <3>1 DEF Q!SimpleD!deliveryVars, Q!history
  <2> QED
    BY <2>3, <2>4, SMTT(30)
<1> QED
  BY <1>0, <1>1, <1>2, <1>3, ZenonT(30) DEF Q!SimpleNext, Q!Run, Q!SimpleConnect, Q!SimplePublish, Q!SimpleSubscribe,
     Q!Assign, Q!Added, Q!Top, Q!BatchDone, Q!Visible, Q!SimpleUnsubscribe, Q!DisconnectCheck, Q!DisconnectRun,
     Q!runVars, Q!rocketVars

\* The simple consumers of rocketmq-clients together implement the contract, although
\* Disconnect may take them away in the middle and several may poll at once.
THEOREM SimpleRefinesDelivery == Q!SimpleSpec => Q!SimpleImplementsDelivery
<1>1. Q!SimpleInit => Q!ViewsAreGiven /\ Q!SimpleD!Init
  BY SMTT(30) DEF Q!SimpleInit, Q!ViewsAreGiven, Q!SimpleD!Init
<1>2. Q!ViewsAreGiven /\ [Q!SimpleNext]_(Q!rocketVars)
        => Q!ViewsAreGiven' /\ [Q!SimpleD!Next]_(Q!SimpleD!deliveryVars)
  BY SimpleStep
<1> QED
  BY <1>1, <1>2, PTL DEF Q!SimpleSpec, Q!SimpleImplementsDelivery, Q!SimpleD!Spec

\* It holds when the broker is made.
LEMMA RocketInit == ASSUME MaxConsumers \in Nat, Q!SimpleInit PROVE Q!RocketInv
<1>1. {vup, vdone, halted, missed, vfell} \subseteq BOOLEAN
  BY Zenon DEF Q!SimpleInit
<1> QED
  BY <1>1 DEF Q!SimpleInit, Q!RocketInv, Q!CachedIsOpen

\* Every step preserves it.
LEMMA RocketStep == ASSUME MaxConsumers \in Nat, Q!RocketInv, [Q!SimpleNext]_(Q!rocketVars) PROVE Q!RocketInv'
<1> DEFINE IsPolled == consumer # 0 \/ making # 0
                       => (\E c \in Q!Consumers : run[c] \notin {"none", "end"}) \/ missed
           Typed == /\ leaving \in 0 .. 2 /\ producer \in [Topics -> {"none", "open", "stopped"}]
                    /\ consumer \in 0 .. MaxConsumers /\ nth \in 0 .. MaxConsumers /\ making \in 0 .. MaxConsumers
                    /\ run \in [Q!Consumers -> {"none", "top", "receive", "handle", "end"}]
                    /\ vsub \in {"none", "reading", "on"}
           Keeps == Typed' /\ Q!CachedIsOpen' /\ IsPolled'
<1>t. Typed /\ Q!CachedIsOpen /\ IsPolled
  BY Zenon DEF Q!RocketInv
<1>1. {vup', vdone', halted', missed', vfell'} \subseteq BOOLEAN
  <2>1. {vup, vdone, halted, missed, vfell} \subseteq BOOLEAN
    BY DEF Q!RocketInv
  <2>2. ASSUME NEW c \in Q!Consumers, Q!Run(c) PROVE {vup', vdone', halted', missed', vfell'} \subseteq BOOLEAN
    BY <2>1, <2>2, Zenon DEF Q!Run, Q!Top, Q!BatchDone, Q!Receive, Q!SimpleAck, Q!SimpleHandle, Q!pubVars
  <2>3. ASSUME NEW S \in SUBSET Topics, NEW ok \in BOOLEAN, Q!DisconnectRun(S, ok) PROVE {vup', vdone', halted', missed', vfell'} \subseteq BOOLEAN
    BY <2>1, <2>3, Zenon DEF Q!DisconnectRun, Q!runVars
  <2>4. CASE \/ Q!SimpleConnect \/ Q!SimpleSubscribe \/ Q!Assign \/ Q!Added \/ Q!SimpleUnsubscribe \/ Q!DisconnectCheck
             \/ UNCHANGED Q!rocketVars \/ \E m \in RocketMessages : Q!Visible(m)
    BY <2>1, <2>4, Zenon DEF Q!SimpleConnect, Q!SimpleSubscribe, Q!Assign, Q!Added, Q!SimpleUnsubscribe, Q!DisconnectCheck,
       Q!Visible, Q!rocketVars, Q!pubVars, Q!runVars
  <2>5. ASSUME NEW t \in Topics, NEW ok \in BOOLEAN, Q!SimplePublish(t, ok) PROVE {vup', vdone', halted', missed', vfell'} \subseteq BOOLEAN
    BY <2>1, <2>5, Zenon DEF Q!SimplePublish, Q!runVars
  <2> QED
    BY <2>2, <2>3, <2>4, <2>5, ZenonT(30) DEF Q!SimpleNext
<1> SUFFICES Keeps
  BY <1>1, Zenon DEF Q!RocketInv
<1>2. CASE UNCHANGED <<producer, halted, consumer, nth, making, run, missed>> /\ leaving' \in 0 .. 2
           /\ vsub' \in {"none", "reading", "on"}
  BY <1>t, <1>2 DEF Q!CachedIsOpen
<1>3. CASE Q!SimpleSubscribe
  <2>1. CASE consumer # 0
    BY <1>t, <1>3, <2>1, SMTT(30) DEF Q!SimpleSubscribe, Q!CachedIsOpen, Q!pubVars
  <2>2. CASE consumer = 0
    BY <1>t, <1>3, <2>2, SMTT(30) DEF Q!SimpleSubscribe, Q!CachedIsOpen, Q!pubVars, Q!Consumers
  <2> QED
    BY <2>1, <2>2, SMTT(30)
<1>4. CASE Q!Assign
  BY <1>t, <1>4 DEF Q!Assign, Q!CachedIsOpen, Q!pubVars, Q!runVars
<1>5. ASSUME NEW c \in Q!Consumers, Q!Top(c) PROVE Keeps
  BY <1>t, <1>5, ZenonT(30) DEF Q!Top, Q!CachedIsOpen, Q!pubVars
<1>6. ASSUME NEW c \in Q!Consumers, NEW to \in {"top", "handle"}, run' = [run EXCEPT ![c] = to],
             UNCHANGED <<producer, halted, consumer, nth, making, missed, leaving, vsub>>
      PROVE  Keeps
  BY <1>t, <1>6, SMTT(30) DEF Q!CachedIsOpen
<1>7. ASSUME NEW S \in SUBSET Topics, NEW ok \in BOOLEAN, Q!DisconnectRun(S, ok) PROVE Keeps
  <2>1. /\ leaving' \in 0 .. 2 /\ consumer' \in {consumer, 0} /\ UNCHANGED <<nth, making, run, missed, vsub>>
    BY <1>t, <1>7 DEF Q!DisconnectRun, Q!runVars
  <2>2. producer' \in [Topics -> {"none", "open", "stopped"}] /\ Q!CachedIsOpen'
    <3>1. CASE vdone \/ ok
      BY <1>t, <1>7, <3>1, SMTT(30) DEF Q!DisconnectRun, Q!CachedIsOpen
    <3>2. CASE ~(vdone \/ ok)
      BY <1>t, <1>7, <3>2, SMTT(30) DEF Q!DisconnectRun, Q!CachedIsOpen
    <3> QED
      BY <3>1, <3>2, SMTT(30)
  <2> QED
    BY <1>t, <2>1, <2>2, SMTT(30)
<1>8. ASSUME NEW t \in Topics, NEW ok \in BOOLEAN, Q!SimplePublish(t, ok) PROVE Keeps
  BY <1>t, <1>8, SMTT(30) DEF Q!SimplePublish, Q!CachedIsOpen, Q!runVars
<1>9. CASE Q!SimpleConnect \/ Q!Added \/ Q!SimpleUnsubscribe \/ Q!DisconnectCheck \/ UNCHANGED Q!rocketVars
           \/ \E m \in RocketMessages : Q!Visible(m)
  <2>1. <1>2!1
    <3>1. CASE Q!SimpleConnect
      BY <1>t, <3>1, SMTT(30) DEF Q!SimpleConnect, Q!pubVars, Q!runVars
    <3>2. CASE Q!Added
      BY <1>t, <3>2, SMTT(30) DEF Q!Added, Q!pubVars, Q!runVars
    <3>3. CASE Q!SimpleUnsubscribe
      BY <1>t, <3>3, SMTT(30) DEF Q!SimpleUnsubscribe, Q!pubVars, Q!runVars
    <3>4. CASE Q!DisconnectCheck
      BY <1>t, <3>4, SMTT(30) DEF Q!DisconnectCheck, Q!pubVars, Q!runVars
    <3>5. CASE UNCHANGED Q!rocketVars
      BY <1>t, <3>5, SMTT(30) DEF Q!rocketVars, Q!pubVars, Q!runVars, Q!history, Q!connVars
    <3>6. CASE \E m \in RocketMessages : Q!Visible(m)
      BY <1>t, <3>6 DEF Q!Visible, Q!pubVars, Q!runVars
    <3> QED
      BY <1>9, <3>1, <3>2, <3>3, <3>4, <3>5, <3>6, ZenonT(30)
  <2> QED
    BY <1>2, <2>1
<1>10. ASSUME NEW c \in Q!Consumers, Q!Run(c) PROVE Keeps
  <2>1. CASE Q!BatchDone(c)
    BY <1>6, <2>1, ZenonT(30) DEF Q!BatchDone, Q!pubVars
  <2>2. ASSUME NEW S \in {{}, RocketMessages \ (settled \union hidden)}, Q!Receive(c, S) PROVE Keeps
    <3>1. CASE consumer = 0
      BY <1>t, <1>2, <2>2, <3>1, ZenonT(30) DEF Q!Receive, Q!pubVars
    <3>2. CASE consumer # 0
      BY <1>6, <2>2, <3>2 DEF Q!Receive, Q!pubVars
    <3> QED
      BY <3>1, <3>2
  <2>3. ASSUME NEW ok \in BOOLEAN, Q!SimpleAck(c, ok) \/ \E m \in RocketMessages : Q!SimpleHandle(c, m, ok)
        PROVE  Keeps
    BY <1>t, <1>2, <2>3, Zenon DEF Q!SimpleAck, Q!SimpleHandle, Q!pubVars
  <2> QED
    BY <1>5, <1>10, <2>1, <2>2, <2>3, ZenonT(30) DEF Q!Run
<1>11. CASE Q!SimpleNext
  BY <1>3, <1>4, <1>7, <1>8, <1>9, <1>10, <1>11, Zenon DEF Q!SimpleNext
<1> QED
  BY <1>9, <1>11

\* Steps that leave its state alone preserve it.
LEMMA RocketRests == ASSUME Q!RocketInv, UNCHANGED Q!rocketOwn PROVE Q!RocketInv'
  BY Zenon DEF Q!RocketInv, Q!rocketOwn, Q!CachedIsOpen

\* Every step keeps to them.
LEMMA RocketKeepsTopic ==
  Q!ViewsAreGiven /\ Q!RocketHistory /\ [Q!SimpleNext]_(Q!rocketVars) => Q!RocketHistory'
<1> SUFFICES ASSUME Q!ViewsAreGiven, Q!RocketHistory, [Q!SimpleNext]_(Q!rocketVars) PROVE Q!RocketHistory'
  OBVIOUS
<1>0. CASE UNCHANGED <<Q!history, settled>> /\ hidden' \subseteq hidden
  BY <1>0 DEF Q!RocketHistory, Q!history
<1>1. ASSUME NEW c \in Q!Consumers, NEW S \in {{}, RocketMessages \ (settled \union hidden)}, Q!Receive(c, S)
      PROVE  Q!RocketHistory'
  <2>1. S \subseteq RocketMessages
    OBVIOUS
  <2> QED
    BY <1>1, <2>1 DEF Q!Receive, Q!RocketHistory
<1>2. ASSUME NEW c \in Q!Consumers, NEW m \in RocketMessages, NEW ok \in BOOLEAN, Q!SimpleHandle(c, m, ok)
      PROVE  Q!RocketHistory'
  BY <1>2, Zenon DEF Q!SimpleHandle, Q!RocketHistory
<1>3. ASSUME NEW c \in Q!Consumers, NEW ok \in BOOLEAN, Q!SimpleAck(c, ok) PROVE Q!RocketHistory'
  <2>1. opinion[c] \in RocketMessages \X BOOLEAN
    BY <1>3 DEF Q!SimpleAck, Q!ViewsAreGiven
  <2>2. settled' \subseteq RocketMessages /\ hidden' \subseteq RocketMessages /\ UNCHANGED Q!history
    BY <1>3, <2>1, Zenon DEF Q!SimpleAck, Q!RocketHistory
  <2> QED
    BY <2>2, SMTT(30) DEF Q!RocketHistory, Q!history
<1>4. CASE Q!SimpleConnect \/ Q!Added \/ Q!SimpleUnsubscribe \/ Q!DisconnectCheck \/ UNCHANGED Q!rocketVars
           \/ Q!SimpleSubscribe \/ Q!Assign
           \/ (\E m \in RocketMessages : Q!Visible(m))
           \/ (\E c \in Q!Consumers : Q!Top(c) \/ Q!BatchDone(c))
           \/ (\E t \in Topics, ok \in BOOLEAN : Q!SimplePublish(t, ok))
           \/ (\E S \in SUBSET Topics, ok \in BOOLEAN : Q!DisconnectRun(S, ok))
  <2>1. <1>0!1
    BY <1>4, Zenon DEF Q!SimpleConnect, Q!Added, Q!SimpleUnsubscribe, Q!DisconnectCheck, Q!rocketVars, Q!Visible,
       Q!SimpleSubscribe, Q!Assign, Q!Top, Q!BatchDone, Q!SimplePublish, Q!DisconnectRun, Q!pubVars, Q!runVars
  <2> QED
    BY <1>0, <2>1
<1> QED
  BY <1>1, <1>2, <1>3, <1>4, Zenon DEF Q!SimpleNext, Q!Run

------------------------------------------------------------------------------
(* The suite *)

messages == <<handed, tried, good, settled>>
jetOwn   == <<jpull, jmanual, jconn, jopen, js, jup, jdials, jsub, jsubconn, jlisted, jclosed,
              jloop, batch, verdict, out>>
streamOwn == <<spool, sclosed, slisted, auto, stream, cursor, pending, sloop, sbatch, judged, sfell>>
rocketOwn == <<vup, vdone, leaving, halted, producer, consumer, nth, making, run, missed, vsub,
               views, opinion, hidden, vfell>>
pushOwn   == <<sub, claimed, todo, hasError, pfell>>
aliyunOwn == <<client, aup, kept, main, answer, worker, result, aclosed, late, afell>>
suiteVars == <<unit, messages, readerVars, jetOwn, pubsubOwn, streamOwn, rocketOwn, pushOwn,
               aliyunOwn>>

SuiteInit ==
  /\ unit \in Units
  /\ Init /\ J!Init /\ R!Init /\ R!StreamInit /\ Q!SimpleInit /\ Q!Init /\ Q!AliyunInit
  /\ unit # "kafka" => batchSize = 0 /\ ~ticking
  /\ unit # "jetstream" => ~jpull /\ ~jmanual
  /\ unit # "stream" => ~auto

KafkaOnly(Act)  == /\ unit = "kafka" /\ Act
                   /\ UNCHANGED <<unit, messages, jetOwn, pubsubOwn, streamOwn, rocketOwn, pushOwn, aliyunOwn>>
JetOnly(Act)    == /\ unit = "jetstream" /\ Act
                   /\ UNCHANGED <<unit, readerVars, pubsubOwn, streamOwn, rocketOwn, pushOwn, aliyunOwn>>
PubSubOnly(Act) == /\ unit = "pubsub" /\ Act
                   /\ UNCHANGED <<unit, messages, readerVars, jetOwn, streamOwn, rocketOwn, pushOwn, aliyunOwn>>
StreamOnly(Act) == /\ unit = "stream" /\ Act
                   /\ UNCHANGED <<unit, readerVars, jetOwn, pubsubOwn, rocketOwn, pushOwn, aliyunOwn>>
RocketOnly(Act) == /\ unit = "rocket" /\ Act
                   /\ UNCHANGED <<unit, readerVars, jetOwn, pubsubOwn, streamOwn, pushOwn, aliyunOwn>>
PushOnly(Act)   == /\ unit = "push" /\ Act
                   /\ UNCHANGED <<unit, readerVars, jetOwn, pubsubOwn, streamOwn, rocketOwn, aliyunOwn>>
AliyunOnly(Act) == /\ unit = "aliyun" /\ Act
                   /\ UNCHANGED <<unit, readerVars, jetOwn, pubsubOwn, streamOwn, rocketOwn, pushOwn>>

SuiteNext ==
  \/ KafkaOnly(Next) \/ JetOnly(J!Next) \/ PubSubOnly(R!Next) \/ StreamOnly(R!StreamNext)
  \/ RocketOnly(Q!SimpleNext) \/ PushOnly(Q!Next) \/ AliyunOnly(Q!AliyunNext)

\* The fairness of the parts: one of them runs, so the first fair action of each can
\* share a conjunct, and so on.
SuiteFairness ==
  /\ WF_suiteVars(\/ KafkaOnly(Settling) \/ JetOnly(J!Pulling \/ J!Answer) \/ PubSubOnly(~fell /\ R!Recv)
                  \/ StreamOnly(~sfell /\ R!StreamRecv) \/ RocketOnly(~vfell /\ Q!Run(1))
                  \/ PushOnly(~pfell /\ Q!Callback) \/ AliyunOnly(~afell /\ Q!Poll))
  /\ WF_suiteVars(\/ KafkaOnly(Ending) \/ RocketOnly(~vfell /\ Q!Run(2)) \/ AliyunOnly(~afell /\ Q!Work)
                  \/ JetOnly(\E m \in Messages, ok \in BOOLEAN : J!Callback(m, ok)))
  /\ SF_suiteVars(\/ PubSubOnly(~fell /\ R!Reconnect(TRUE)) \/ StreamOnly(~sfell /\ R!Ack(TRUE))
                  \/ AliyunOnly(~afell /\ Q!SeesDone))
  /\ \A m \in Messages :
       /\ SF_suiteVars(JetOnly(J!GivingOne(m)) \/ PushOnly(~pfell /\ Q!PushOne(m)))
       /\ SF_suiteVars(JetOnly(J!Callback(m, TRUE)) \/ PushOnly(~pfell /\ Q!Handle(m, TRUE)))
       /\ WF_suiteVars(JetOnly(J!AckWaitOver(m) /\ m \notin batch))

SuiteSpec == SuiteInit /\ [][SuiteNext]_suiteVars /\ SuiteFairness

------------------------------------------------------------------------------
On(u, state) == unit = u /\ state

AllTypesOK ==
  /\ TypeOK /\ R!TypeOK
  /\ unit = "jetstream" => J!TypeOK
  /\ unit = "stream" => R!StreamTypeOK
  /\ unit = "rocket" => Q!SimpleTypeOK
  /\ unit = "push" => Q!TypeOK
  /\ unit = "aliyun" => Q!AliyunTypeOK

\* The parts keep their types, and what a broker keeps agrees with the service: the JetStream context is of the
\* connection, a closed Redis subscriber is not subscribed, the pending list of a
\* stream is what is handed out and not acknowledged, a cached producer is not
\* stopped, and a RocketMQ consumer is polled.
BookkeepingAgrees ==
  /\ AllTypesOK
  /\ J!ContextIsCurrent /\ R!ClosedIsDeaf /\ Q!CachedIsOpen /\ Q!ConsumerIsPolled
  /\ unit = "stream" => R!PendingIsOpen

C == INSTANCE Delivery WITH Messages <- Messages \union (1 .. Length), strict <- TRUE

\* Every consumer that acknowledges messages keeps the strict contract: given out
\* while not acknowledged, acknowledged after a handler accepted them.  Kafka's, whose
\* offsets are committed after a failed handler too, keeps the one of Delivery that
\* is not strict, and a Redis stream's group gives a message out once.
ConsumersDeliver == C!Spec /\ ImplementsDelivery /\ R!GivenOnce

\* Unsubscribe, Disconnect or the end of the context ends the goroutine that
\* consumes, but for the races the modules name.
ConsumersEnd ==
  (On("kafka", Closing) \/ On("jetstream", J!Closing) \/ rclosed \/ sclosed \/ vdone \/ aclosed)
  ~> (\/ On("kafka", Over) \/ On("jetstream", J!Over) \/ On("pubsub", R!Over)
      \/ On("stream", R!StreamOver) \/ On("rocket", Q!SimpleOver) \/ On("aliyun", Q!Over))

\* Consumers go on: JetStream gives a message until it is accepted, RocketMQ hands
\* every message to the handler, Redis Pub/Sub subscribes again after a loss, and
\* the Aliyun loop polls again.
ConsumersGoOn ==
  \A m \in Messages :
    (On("jetstream", m \in handed) \/ On("push", sub = "on") \/ recv = "wait" \/ Q!Busy)
    ~> (\/ On("jetstream", J!Accepted(m)) \/ On("push", m \in tried \/ sub = "off")
        \/ On("pubsub", R!Back) \/ On("aliyun", Q!Again))

\* What must end ends, and what must go on goes on.
ConsumersRun == ConsumersEnd /\ ConsumersGoOn

\* A message that AutoAck acknowledges leaves the stream's pending list.
StreamAckSettles == R!AckSettles

\* After Unsubscribe the goroutine of doConsume ends.
AliyunConsumeStops == Q!DoConsumeStops

------------------------------------------------------------------------------
(* Whichever broker runs, what the run checks of it holds. *)

\* The brokers' own bookkeeping holds of all; what is said of the history of the messages,
\* which they share, of the one that runs.
SuiteInv ==
  /\ ReaderInv /\ PubSubInv /\ ContextInv /\ Q!RocketInv
  /\ unit = "jetstream" => JetTyped /\ HoldsGiven
  /\ unit = "stream" => StreamInv
  /\ unit = "rocket" => Q!ViewsAreGiven /\ Q!RocketHistory
  /\ unit = "push" => Q!TypeOK /\ Q!BatchIsGiven
  /\ unit = "aliyun" => Q!AliyunTypeOK /\ Q!AnswerIsGiven

\* It holds initially.
LEMMA SuiteInvInit == SuiteInit => SuiteInv
<1> SUFFICES ASSUME SuiteInit PROVE SuiteInv
  OBVIOUS
<1>1. Init /\ J!Init /\ R!Init /\ R!StreamInit /\ Q!SimpleInit /\ Q!Init /\ Q!AliyunInit
  BY DEF SuiteInit
<1>2. ReaderInv /\ PubSubInv /\ ContextInv /\ Q!RocketInv /\ JetTyped /\ StreamInv
  BY <1>1, ReaderInit, PubSubInit, ContextInit, RocketInit, BrokersAssumption, JetTypedInit, StreamInit, SMTT(30)
<1>3. HoldsGiven
  BY <1>1 DEF J!Init, HoldsGiven
<1>4. Q!ViewsAreGiven /\ Q!RocketHistory
  BY <1>1, ZenonT(30) DEF Q!SimpleInit, Q!ViewsAreGiven, Q!RocketHistory
<1>5. Q!TypeOK /\ Q!BatchIsGiven
  <2>1. {hasError, pfell} \subseteq BOOLEAN
    BY <1>1, ZenonT(30) DEF Q!Init
  <2> QED
    BY <1>1, <2>1 DEF Q!Init, Q!TypeOK, Q!BatchIsGiven
<1>6. Q!AliyunTypeOK /\ Q!AnswerIsGiven
  <2>1. {client, aup, kept, aclosed, late, afell} \subseteq BOOLEAN
    BY <1>1, Zenon DEF Q!AliyunInit
  <2> QED
    BY <1>1, <2>1 DEF Q!AliyunInit, Q!AliyunTypeOK, Q!AnswerIsGiven
<1> QED
  BY <1>2, <1>3, <1>4, <1>5, <1>6, SMTT(30) DEF SuiteInv

\* The contract over all messages allows what it allows over some of them.
LEMMA ContractWidens ==
  /\ [J!D!Next]_(J!D!deliveryVars) => [C!Next]_(C!deliveryVars)
  /\ [Q!D!Next]_(Q!D!deliveryVars) => [C!Next]_(C!deliveryVars)
  /\ [Q!SimpleD!Next]_(Q!SimpleD!deliveryVars) => [C!Next]_(C!deliveryVars)
<1> USE BrokersAssumption
<1>1. [J!D!Next]_(J!D!deliveryVars) => [C!Next]_(C!deliveryVars)
  BY Zenon DEF J!D!Next, J!D!deliveryVars, J!D!Give, J!D!Finish, J!D!Settle,
         C!Next, C!deliveryVars, C!Give, C!Finish, C!Settle
<1>2. [Q!D!Next]_(Q!D!deliveryVars) => [C!Next]_(C!deliveryVars)
  BY Zenon DEF Q!D!Next, Q!D!deliveryVars, Q!D!Give, Q!D!Finish, Q!D!Settle,
         C!Next, C!deliveryVars, C!Give, C!Finish, C!Settle
<1>3. [Q!SimpleD!Next]_(Q!SimpleD!deliveryVars) => [C!Next]_(C!deliveryVars)
  BY Zenon DEF Q!SimpleD!Next, Q!SimpleD!deliveryVars, Q!SimpleD!Give, Q!SimpleD!Finish, Q!SimpleD!Settle,
         C!Next, C!deliveryVars, C!Give, C!Finish, C!Settle
<1> QED
  BY <1>1, <1>2, <1>3

\* A step of a stream's consumer is one of the contract, or none.
LEMMA StreamKeepsContract ==
  StreamInv /\ [R!StreamNext]_(R!streamVars) => [C!Next]_(C!deliveryVars)
<1> SUFFICES ASSUME StreamInv, [R!StreamNext]_(R!streamVars) PROVE [C!Next]_(C!deliveryVars)
  OBVIOUS
<1> USE KafkaReaderAssumption, RedisAssumption
<1>0. CASE UNCHANGED <<R!history, settled>>
  BY <1>0 DEF R!history, C!deliveryVars
<1>1. CASE \/ R!StreamConnect \/ R!StreamPublish \/ R!StreamSubscribe \/ R!StreamTop \/ R!ReadFails
           \/ R!StreamWait \/ R!Cancelled \/ R!StreamUnsubscribe \/ R!StreamDisconnect
           \/ UNCHANGED R!streamVars
  <2>1. UNCHANGED <<R!history, settled>>
    BY <1>1, Zenon DEF R!history, R!streamVars, R!StreamConnect, R!StreamPublish, R!StreamSubscribe, R!StreamTop,
       R!ReadFails, R!StreamWait, R!Cancelled, R!StreamUnsubscribe, R!StreamDisconnect
  <2> QED
    BY <1>0, <2>1
<1>2. CASE R!Read
  <2>1. /\ stream \in 0 .. Length /\ cursor \in 0 .. Length /\ handed \subseteq 1 .. cursor
        /\ settled \subseteq handed
    <3>1. sloop = "read"
      BY <1>2 DEF R!Read
    <3> QED
      BY <3>1, SMTT(30) DEF StreamInv, R!StreamTypeOK, GroupAgrees, R!NoGroup
  <2>2. ASSUME NEW n \in 1 .. (IF Count < stream - cursor THEN Count ELSE stream - cursor),
               handed' = handed \union (cursor + 1 .. cursor + n), UNCHANGED <<tried, good, settled>>
        PROVE  C!Next
    <3> DEFINE S == cursor + 1 .. cursor + n
    <3>1. n \in Nat /\ cursor + n <= stream
      BY <2>1, <2>2
    <3>2. S \subseteq (1 .. Length) \ settled
      BY <2>1, <3>1
    <3>3. C!Give(S) /\ S \in SUBSET (Messages \union (1 .. Length))
      BY <2>2, <3>2 DEF C!Give
    <3> QED
      BY <3>3, ZenonT(30) DEF C!Next
  <2>3. CASE UNCHANGED handed
    BY <1>0, <1>2, <2>3, Zenon DEF R!Read, R!history
  <2> QED
    BY <1>2, <2>2, <2>3, ZenonT(30) DEF R!Read
<1>3. ASSUME NEW ok \in BOOLEAN, R!Handle(ok) PROVE [C!Next]_(C!deliveryVars)
  <2>1. CASE sclosed \/ sbatch = <<>>
    BY <1>0, <1>3, <2>1, Zenon DEF R!Handle, R!history
  <2>2. CASE ~(sclosed \/ sbatch = <<>>)
    <3>1. sbatch \in Seq(1 .. Length) /\ sbatch # <<>>
      BY <2>2 DEF StreamInv, R!StreamTypeOK
    <3>2. /\ Len(sbatch) \in Nat /\ Len(sbatch) > 0
          /\ Head(sbatch) \in 1 .. Length /\ Head(sbatch) = sbatch[1]
      BY <3>1, HeadAndTail, Zenon
    <3>3. Head(sbatch) \in handed
      BY <3>2 DEF StreamInv, GroupAgrees
    <3>4. C!Finish(Head(sbatch), ok)
      BY <1>3, <2>2, <3>3 DEF R!Handle, C!Finish
    <3> QED
      BY <3>2, <3>4, ZenonT(30) DEF C!Next
  <2> QED
    BY <2>1, <2>2
<1>4. ASSUME NEW ok \in BOOLEAN, R!Ack(ok) PROVE [C!Next]_(C!deliveryVars)
  <2>1. UNCHANGED <<R!history, settled>>
    BY <1>4, ReplyHasNoId DEF R!Ack
  <2> QED
    BY <1>0, <2>1, SMTT(30)
<1> QED
  BY <1>1, <1>2, <1>3, <1>4, Zenon DEF R!StreamNext, R!StreamRecv

\* Steps of the other brokers leave a broker's own state alone, and those of Kafka and
\* of Pub/Sub the messages.
LEMMA OthersRest ==
  /\ UNCHANGED readerVars /\ ReaderInv => ReaderInv' /\ [D!Next]_(D!deliveryVars)
  /\ UNCHANGED jetOwn /\ ContextInv => ContextInv'
  /\ UNCHANGED pubsubOwn /\ PubSubInv => PubSubInv'
  /\ UNCHANGED rocketOwn /\ Q!RocketInv => Q!RocketInv'
  /\ UNCHANGED messages => [C!Next]_(C!deliveryVars)
  /\ UNCHANGED streamOwn => \A m \in R!Range(sbatch') \ R!Range(sbatch) : m \notin handed
<1>1. UNCHANGED readerVars /\ ReaderInv => ReaderInv' /\ [D!Next]_(D!deliveryVars)
  BY ReaderStep, DeliveryStep
<1>2. UNCHANGED jetOwn /\ ContextInv => ContextInv'
  BY DEF jetOwn, ContextInv
<1>3. UNCHANGED pubsubOwn /\ PubSubInv => PubSubInv'
  BY PubSubStep, SMTT(30)
<1>4. UNCHANGED rocketOwn /\ Q!RocketInv => Q!RocketInv'
  BY RocketRests DEF rocketOwn, Q!rocketOwn
<1>5. UNCHANGED messages => [C!Next]_(C!deliveryVars)
  BY DEF messages, C!deliveryVars
<1>6. UNCHANGED streamOwn => \A m \in R!Range(sbatch') \ R!Range(sbatch) : m \notin handed
  BY DEF streamOwn
<1> QED
  BY <1>1, <1>2, <1>3, <1>4, <1>5, <1>6

\* What every step of the suite does: it keeps the invariant and the contracts.
SuiteKeeps ==
  /\ SuiteInv' /\ [C!Next]_(C!deliveryVars) /\ [D!Next]_(D!deliveryVars)
  /\ \A m \in R!Range(sbatch') \ R!Range(sbatch) : m \notin handed

\* Each step is one of the broker that runs, or none.
LEMMA SuiteStep == SuiteInv /\ [SuiteNext]_suiteVars => SuiteKeeps
<1> SUFFICES ASSUME SuiteInv, [SuiteNext]_suiteVars PROVE SuiteKeeps
  OBVIOUS
<1>i. ReaderInv /\ PubSubInv /\ ContextInv /\ Q!RocketInv
  BY DEF SuiteInv
<1>1. CASE KafkaOnly(Next)
  <2>1. /\ unit = "kafka" /\ unit' = unit /\ [Next]_readerVars
        /\ UNCHANGED <<messages, jetOwn, pubsubOwn, streamOwn, rocketOwn>>
    BY <1>1 DEF KafkaOnly
  <2>2. ReaderInv' /\ [D!Next]_(D!deliveryVars)
    BY <1>i, <2>1, ReaderStep, DeliveryStep
  <2> QED
    BY <1>i, <2>1, <2>2, OthersRest, ZenonT(30) DEF SuiteKeeps, SuiteInv
<1>2. CASE JetOnly(J!Next)
  <2>1. /\ unit = "jetstream" /\ unit' = unit /\ [J!Next]_(J!jetVars)
        /\ UNCHANGED <<readerVars, pubsubOwn, streamOwn, rocketOwn>>
    BY <1>2 DEF JetOnly
  <2>2. ContextInv' /\ JetTyped' /\ HoldsGiven' /\ [C!Next]_(C!deliveryVars)
    BY <1>i, <2>1, ContextStep, JetTypedStep, JetStep, ContractWidens, SMTT(30) DEF SuiteInv
  <2> QED
    BY <1>i, <2>1, <2>2, OthersRest, ZenonT(30) DEF SuiteKeeps, SuiteInv
<1>3. CASE PubSubOnly(R!Next)
  <2>1. /\ unit = "pubsub" /\ unit' = unit /\ [R!Next]_pubsubOwn
        /\ UNCHANGED <<messages, readerVars, jetOwn, streamOwn, rocketOwn>>
    BY <1>3 DEF PubSubOnly
  <2>2. PubSubInv'
    BY <1>i, <2>1, PubSubStep
  <2> QED
    BY <1>i, <2>1, <2>2, OthersRest DEF SuiteKeeps, SuiteInv
<1>4. CASE StreamOnly(R!StreamNext)
  <2>1. /\ unit = "stream" /\ unit' = unit /\ [R!StreamNext]_(R!streamVars)
        /\ UNCHANGED <<readerVars, jetOwn, pubsubOwn, rocketOwn>>
    BY <1>4 DEF StreamOnly
  <2>2. /\ StreamInv' /\ [C!Next]_(C!deliveryVars)
        /\ \A m \in R!Range(sbatch') \ R!Range(sbatch) : m \notin handed
    BY <2>1, StreamStep, StreamKeepsContract DEF SuiteInv
  <2> QED
    BY <1>i, <2>1, <2>2, OthersRest, Zenon DEF SuiteKeeps, SuiteInv
<1>5. CASE RocketOnly(Q!SimpleNext)
  <2>1. /\ unit = "rocket" /\ unit' = unit /\ [Q!SimpleNext]_(Q!rocketVars)
        /\ UNCHANGED <<readerVars, jetOwn, pubsubOwn, streamOwn>>
    BY <1>5 DEF RocketOnly
  <2>2. Q!RocketInv' /\ Q!ViewsAreGiven' /\ Q!RocketHistory' /\ [C!Next]_(C!deliveryVars)
    BY <1>i, <2>1, RocketStep, BrokersAssumption, RocketKeepsTopic, SimpleStep, ContractWidens, SMTT(30) DEF SuiteInv
  <2> QED
    BY <1>i, <2>1, <2>2, OthersRest, Zenon DEF SuiteKeeps, SuiteInv
<1>6. CASE PushOnly(Q!Next)
  <2>1. /\ unit = "push" /\ unit' = unit /\ [Q!Next]_(Q!pushVars)
        /\ UNCHANGED <<readerVars, jetOwn, pubsubOwn, streamOwn, rocketOwn>>
    BY <1>6 DEF PushOnly
  <2>2. Q!TypeOK' /\ Q!BatchIsGiven' /\ [C!Next]_(C!deliveryVars)
    BY <2>1, PushTyped, PushStep, ContractWidens DEF SuiteInv
  <2> QED
    BY <1>i, <2>1, <2>2, OthersRest, ZenonT(30) DEF SuiteKeeps, SuiteInv
<1>7. CASE AliyunOnly(Q!AliyunNext)
  <2>1. /\ unit = "aliyun" /\ unit' = unit /\ [Q!AliyunNext]_(Q!aliyunVars)
        /\ UNCHANGED <<readerVars, jetOwn, pubsubOwn, streamOwn, rocketOwn>>
    BY <1>7 DEF AliyunOnly
  <2>2. Q!AliyunTypeOK' /\ Q!AnswerIsGiven' /\ [C!Next]_(C!deliveryVars)
    BY <2>1, AliyunTyped, AliyunStep, ContractWidens DEF SuiteInv
  <2> QED
    BY <1>i, <2>1, <2>2, OthersRest, Zenon DEF SuiteKeeps, SuiteInv
<1>8. CASE UNCHANGED suiteVars
  <2>1. /\ unit' = unit /\ UNCHANGED <<messages, readerVars, jetOwn, pubsubOwn, streamOwn, rocketOwn, pushOwn, aliyunOwn>>
    BY <1>8 DEF suiteVars
  <2>2. (JetTyped => JetTyped') /\ (HoldsGiven => HoldsGiven')
    BY <2>1, Zenon DEF JetTyped, J!TypeOK, HoldsGiven, messages, jetOwn
  <2>3. StreamInv => StreamInv'
    BY <2>1, Zenon DEF StreamInv, R!StreamTypeOK, GroupAgrees, messages, streamOwn
  <2>4. (Q!ViewsAreGiven => Q!ViewsAreGiven') /\ (Q!RocketHistory => Q!RocketHistory')
    BY <2>1, Zenon DEF Q!ViewsAreGiven, Q!RocketHistory, messages, rocketOwn
  <2>5. (Q!TypeOK => Q!TypeOK') /\ (Q!BatchIsGiven => Q!BatchIsGiven')
    BY <2>1 DEF Q!TypeOK, Q!BatchIsGiven, messages, pushOwn
  <2>6. (Q!AliyunTypeOK => Q!AliyunTypeOK') /\ (Q!AnswerIsGiven => Q!AnswerIsGiven')
    BY <2>1, Zenon DEF Q!AliyunTypeOK, Q!AnswerIsGiven, messages, aliyunOwn
  <2> QED
    BY <1>i, <2>1, <2>2, <2>3, <2>4, <2>5, <2>6, OthersRest, Zenon DEF SuiteKeeps, SuiteInv
<1> QED
  BY <1>1, <1>2, <1>3, <1>4, <1>5, <1>6, <1>7, <1>8, ZenonT(30) DEF SuiteNext

\* Whichever broker consumes: what it keeps has its type and agrees with the service.
THEOREM BookkeepingAlwaysAgrees == SuiteSpec => []BookkeepingAgrees
<1>1. SuiteInv => BookkeepingAgrees
  <2> SUFFICES ASSUME SuiteInv PROVE BookkeepingAgrees
    OBVIOUS
  <2>1. TypeOK /\ R!TypeOK /\ R!ClosedIsDeaf /\ J!ContextIsCurrent
    BY DEF SuiteInv, ReaderInv, PubSubInv, ContextInv, J!ContextIsCurrent
  <2>2. Q!CachedIsOpen /\ Q!ConsumerIsPolled
    BY Zenon DEF SuiteInv, Q!RocketInv, Q!ConsumerIsPolled
  <2>3. (unit = "jetstream" => J!TypeOK) /\ (unit = "stream" => R!StreamTypeOK /\ R!PendingIsOpen)
    BY DEF SuiteInv, JetTyped, StreamInv, GroupAgrees, R!PendingIsOpen
  <2>4. unit = "rocket" => Q!SimpleTypeOK
    BY Zenon DEF SuiteInv, Q!RocketInv, Q!ViewsAreGiven, Q!RocketHistory, Q!SimpleTypeOK
  <2>5. (unit = "push" => Q!TypeOK) /\ (unit = "aliyun" => Q!AliyunTypeOK)
    BY DEF SuiteInv
  <2> QED
    BY <2>1, <2>2, <2>3, <2>4, <2>5 DEF BookkeepingAgrees, AllTypesOK
<1>2. SuiteInv /\ [SuiteNext]_suiteVars => SuiteInv'
  BY SuiteStep DEF SuiteKeeps
<1> QED
  BY <1>1, <1>2, SuiteInvInit, PTL DEF SuiteSpec

\* Whichever broker consumes: it keeps the contract of Delivery, the strict one but for
\* Kafka, and the group of a Redis stream gives no message out twice.
THEOREM ConsumersAlwaysDeliver == SuiteSpec => ConsumersDeliver
<1>1. SuiteInit => SuiteInv /\ C!Init /\ D!Init
  <2>1. SuiteInit => C!Init
    BY DEF SuiteInit, Q!AliyunInit, C!Init
  <2>2. SuiteInit => D!Init
    BY DEF SuiteInit, Init, D!Init, Settled
  <2> QED
    BY <2>1, <2>2, SuiteInvInit
<1>2. SuiteInv /\ [SuiteNext]_suiteVars
        => /\ SuiteInv' /\ [C!Next]_(C!deliveryVars) /\ [D!Next]_(D!deliveryVars)
           /\ [\A m \in R!Range(sbatch') \ R!Range(sbatch) : m \notin handed]_(R!streamVars)
  BY SuiteStep DEF SuiteKeeps
<1> QED
  BY <1>1, <1>2, PTL DEF SuiteSpec, ConsumersDeliver, C!Spec, ImplementsDelivery, D!Spec, R!GivenOnce
=============================================================================
