--------------------------- MODULE RocketConsumers ---------------------------
(***************************************************************************)
(* broker/rocketmq, consuming, with its three clients.  The push consumer  *)
(* of rocketmq-client-go calls the callback with a batch; one message that *)
(* fails has the whole batch consumed again later, the ones that went well *)
(* included.  aliyun (Aliyun...) polls, and a worker goroutine takes each  *)
(* answer or its timeout.  rocketmq-clients (Simple...) has a run goroutine *)
(* for every simple consumer.                                              *)
(***************************************************************************)
EXTENDS Integers

CONSTANTS Messages

VARIABLES sub,              \* "none", "on", "off"
          claimed, todo,    \* the batch of the running callback; its messages still to handle
          hasError,
          pfell,            \* the program has panicked
          handed, tried, good, settled

pushVars == <<sub, claimed, todo, hasError, pfell, handed, tried, good, settled>>

Init ==
  /\ sub = "none" /\ claimed = {} /\ todo = {} /\ hasError = FALSE /\ pfell = FALSE
  /\ handed = {} /\ tried = {} /\ good = {} /\ settled = {}

\* Subscribe creates and starts a consumer; it is not added to b.subscribers, so
\* Disconnect does not end it.
Subscribe ==
  /\ sub = "none" /\ sub' = "on"
  /\ UNCHANGED <<claimed, todo, hasError, pfell, handed, tried, good, settled>>

\* The client calls back.
Push(S) ==
  /\ sub = "on" /\ claimed = {} /\ S # {} /\ S \subseteq Messages \ settled
  /\ claimed' = S /\ todo' = S /\ hasError' = FALSE /\ handed' = handed \union S
  /\ UNCHANGED <<sub, pfell, tried, good, settled>>

\* One message: decoding, handler, and Ack, which does nothing.
Handle(m, ok) ==
  /\ m \in todo /\ todo' = todo \ {m}
  /\ hasError' = (hasError \/ ~ok)
  /\ tried' = tried \union {m} /\ good' = IF ok THEN good \union {m} ELSE good
  /\ UNCHANGED <<sub, claimed, pfell, handed, settled>>

\* Faulty variant: the result of the last message decides.
Result_Success ==
  /\ claimed # {} /\ todo = {} /\ claimed' = {}
  /\ settled' = settled \union claimed
  /\ UNCHANGED <<sub, todo, hasError, pfell, handed, tried, good>>

\* ConsumeRetryLater, or ConsumeSuccess.
Result ==
  /\ claimed # {} /\ todo = {} /\ claimed' = {}
  /\ settled' = IF hasError THEN settled ELSE settled \union claimed
  /\ UNCHANGED <<sub, todo, hasError, pfell, handed, tried, good>>

\* Unsubscribe: removeFromManager reads s.r, which Subscribe does not set.
Unsubscribe(removeFromManager) ==
  /\ sub # "none" /\ sub' = "off" /\ pfell' = removeFromManager
  /\ UNCHANGED <<claimed, todo, hasError, handed, tried, good, settled>>

PushOne(m) == \E S \in SUBSET Messages : m \in S /\ Push(S)
Callback == Result \/ \E m \in Messages, ok \in BOOLEAN : Handle(m, ok)

Next ==
  /\ ~pfell
  /\ \/ Subscribe \/ Callback
     \/ \E S \in SUBSET Messages : Push(S)
     \/ \E r \in BOOLEAN : Unsubscribe(r)

\* The server pushes what is not consumed; handlers return, and accept a message
\* that comes often enough.
Fairness ==
  /\ WF_pushVars(~pfell /\ Callback)
  /\ \A m \in Messages : /\ SF_pushVars(~pfell /\ PushOne(m))
                         /\ SF_pushVars(~pfell /\ Handle(m, TRUE))

Spec == Init /\ [][Next]_pushVars /\ Fairness

------------------------------------------------------------------------------
\* The type of the state.
TypeOK ==
  /\ sub \in {"none", "on", "off"} /\ {hasError, pfell} \subseteq BOOLEAN
  /\ \A S \in {claimed, todo, handed, tried, good, settled} : S \subseteq Messages

\* A consumer of Delivery: nothing is consumed that a handler refused.
D == INSTANCE Delivery WITH strict <- TRUE
ImplementsDelivery == D!Spec

\* Every message reaches a handler while the subscription stands.
AtLeastOnce == \A m \in Messages : sub = "on" ~> (m \in tried \/ sub = "off")

------------------------------------------------------------------------------
(* Proofs, for any set of messages and any batch. *)

\* What is inductive of the push consumer: the callback works on messages it was given,
\* and as long as none failed, those it is done with were accepted.
BatchIsGiven ==
  /\ claimed \subseteq Messages /\ todo \subseteq claimed /\ claimed \subseteq handed
  /\ hasError \in BOOLEAN
  /\ ~hasError => claimed \ todo \subseteq good

(***************************************************************************)
(* broker/rocketmq/aliyun: doConsume, which for every long poll makes      *)
(* three unbuffered channels and a worker goroutine, lets ConsumeMessage   *)
(* send its answer to the worker, and then waits for the worker; with      *)
(* Connect, publish, Unsubscribe and Disconnect.                           *)
(*                                                                         *)
(* A message that is consumed comes again until it is acknowledged.        *)
(***************************************************************************)
VARIABLES client, aup,      \* b.client # nil; connected
          kept,             \* b.producers has the producer of the topic
          main,             \* doConsume: "none", "poll", "resp", "err", "wait", "end"
          answer,           \* the messages of the answer that is offered or handled
          worker,           \* its goroutine: "none", "select", "handle", "end", "gone"
          result,           \* the handler's result before the acknowledgement, or <<>>
          aclosed,          \* Subscriber.closed, done is closed
          late,             \* history: 35 s were over before the answer
          afell             \* the program has panicked

connVars  == <<client, aup, kept>>
history   == <<handed, tried, good>>
aliyunVars == <<connVars, main, answer, worker, result, aclosed, late, afell, history, settled>>

\* NewBroker, Init.
AliyunInit ==
  /\ client = FALSE /\ aup = FALSE /\ kept = FALSE
  /\ main = "none" /\ answer = {} /\ worker = "none" /\ result = <<>> /\ aclosed = FALSE
  /\ late = FALSE /\ afell = FALSE
  /\ handed = {} /\ tried = {} /\ good = {} /\ settled = {}

\* Connect.
Connect ==
  /\ ~aup /\ client' = TRUE /\ aup' = TRUE
  /\ UNCHANGED <<kept, main, answer, worker, result, aclosed, late, afell, history, settled>>

\* Disconnect drops the client; producers and consumers stay.
Disconnect ==
  /\ aup /\ client' = FALSE /\ aup' = FALSE
  /\ UNCHANGED <<kept, main, answer, worker, result, aclosed, late, afell, history, settled>>

\* publish: the client is asked for a producer under the lock, after the check of it.
Publish(stillThere) ==
  /\ client
  /\ IF kept \/ stillThere THEN kept' = TRUE /\ UNCHANGED afell ELSE afell' = TRUE /\ UNCHANGED kept
  /\ UNCHANGED <<client, aup, main, answer, worker, result, aclosed, late, history, settled>>

\* Subscribe asks the client for a consumer, after the check of it and without the lock,
\* and starts doConsume: the first turn.
AliyunSubscribe(stillThere) ==
  /\ client /\ main = "none"
  /\ IF stillThere THEN main' = "poll" /\ worker' = "select" /\ UNCHANGED afell
     ELSE afell' = TRUE /\ UNCHANGED <<main, worker>>
  /\ UNCHANGED <<connVars, answer, result, aclosed, late, history, settled>>

------------------------------------------------------------------------------
(* doConsume: ConsumeMessage, then the wait for the worker *)

\* The server answers with messages, or there is an error.
Polled(S) ==
  /\ main = "poll"
  /\ main' = IF S = {} THEN "err" ELSE "resp"
  /\ answer' = S /\ handed' = handed \union S
  /\ UNCHANGED <<connVars, worker, result, aclosed, late, afell, tried, good, settled>>

\* Faulty variant: an error is not taken.
Take_RespOnly ==
  /\ worker = "select" /\ main = "resp"
  /\ worker' = "handle" /\ main' = "wait"
  /\ UNCHANGED <<connVars, answer, result, aclosed, late, afell, history, settled>>

\* The worker takes the answer, or the error, after which it may pause 3 s.
Take ==
  /\ worker = "select" /\ main \in {"resp", "err"}
  /\ worker' = IF main = "resp" THEN "handle" ELSE "end"
  /\ main' = "wait"
  /\ UNCHANGED <<connVars, answer, result, aclosed, late, afell, history, settled>>

\* 35 s are over.
Timeout ==
  /\ worker = "select" /\ main \in {"poll", "resp", "err"}
  /\ worker' = "end" /\ late' = TRUE
  /\ UNCHANGED <<connVars, main, answer, result, aclosed, afell, history, settled>>

\* done is closed: the worker returns, and sends nothing on endChan.
SeesDone ==
  /\ worker = "select" /\ aclosed /\ worker' = "gone"
  /\ UNCHANGED <<connVars, main, answer, result, aclosed, late, afell, history, settled>>

\* A message: decoding and handler,
AliyunHandle(m, ok) ==
  /\ worker = "handle" /\ result = <<>> /\ m \in answer
  /\ answer' = answer \ {m} /\ result' = <<m, ok>>
  /\ tried' = tried \union {m} /\ good' = IF ok THEN good \union {m} ELSE good
  /\ UNCHANGED <<connVars, main, worker, aclosed, late, afell, handed, settled>>

\* Faulty variant: a refused message is acknowledged.
Ack_Refused(ok) ==
  /\ worker = "handle" /\ result # <<>> /\ result' = <<>>
  /\ settled' = IF ok THEN settled \union {result[1]} ELSE settled
  /\ UNCHANGED <<connVars, main, answer, worker, aclosed, late, afell, history>>

\* then AutoAck; an error pauses 3 s.
Ack(ok) ==
  /\ worker = "handle" /\ result # <<>> /\ result' = <<>>
  /\ settled' = IF result[2] /\ ok THEN settled \union {result[1]} ELSE settled
  /\ UNCHANGED <<connVars, main, answer, worker, aclosed, late, afell, history>>

Handled ==
  /\ worker = "handle" /\ result = <<>> /\ answer = {} /\ worker' = "end"
  /\ UNCHANGED <<connVars, main, answer, result, aclosed, late, afell, history, settled>>

\* endChan <- 1 meets <-endChan, and the next turn begins.
Turn ==
  /\ worker = "end" /\ main = "wait"
  /\ main' = "poll" /\ worker' = "select" /\ answer' = {}
  /\ UNCHANGED <<connVars, result, aclosed, late, afell, history, settled>>

\* Unsubscribe, "Signal doConsume goroutine to stop".
AliyunUnsubscribe ==
  /\ main # "none" /\ ~aclosed /\ aclosed' = TRUE
  /\ UNCHANGED <<connVars, main, answer, worker, result, late, afell, history, settled>>

Work ==
  \/ Take \/ SeesDone \/ Handled \/ Turn
  \/ \E ok \in BOOLEAN : Ack(ok) \/ \E m \in Messages : AliyunHandle(m, ok)

Poll == \E S \in SUBSET (Messages \ settled) : Polled(S)

AliyunNext ==
  /\ ~afell
  /\ \/ Connect \/ Disconnect \/ Poll \/ Work \/ Timeout \/ AliyunUnsubscribe
     \/ \E b \in BOOLEAN : AliyunSubscribe(b) \/ Publish(b)

\* Goroutines run and calls end; a select in which done is ready again and again
\* chooses it.
AliyunFairness ==
  /\ WF_aliyunVars(~afell /\ Poll) /\ WF_aliyunVars(~afell /\ Work)
  /\ SF_aliyunVars(~afell /\ SeesDone)

AliyunSpec == AliyunInit /\ [][AliyunNext]_aliyunVars /\ AliyunFairness

------------------------------------------------------------------------------
\* The type of the state.
AliyunTypeOK ==
  /\ {client, aup, kept, aclosed, late, afell} \subseteq BOOLEAN
  /\ main \in {"none", "poll", "resp", "err", "wait"}
  /\ worker \in {"none", "select", "handle", "end", "gone"}
  /\ result \in {<<>>} \union (Messages \X BOOLEAN)
  /\ \A S \in {answer, handed, tried, good, settled} : S \subseteq Messages

Busy  == main \in {"resp", "err", "wait"}
Again == main = "poll" \/ late \/ aclosed \/ afell

\* The turns of doConsume do not jam: it polls again, unless the timeout of a worker
\* overtook the answer of the poll, or the subscriber is closed.
KeepsPolling == Busy ~> Again

Over == worker = "gone" \/ late \/ afell

\* After Unsubscribe the worker comes to an end, and with it the handling of messages;
\* one whose timeout overtook the answer is stuck, and handles none either.
LoopEnds == aclosed ~> Over

\* "Signal doConsume goroutine to stop" (broker/rocketmq/aliyun/subscriber.go): after
\* Unsubscribe the goroutine of doConsume ends.
DoConsumeStops == aclosed ~> (main \in {"none", "end"} \/ afell)

------------------------------------------------------------------------------
(* Proofs, for any set of messages. *)

\* What is inductive of doConsume: it handles messages of an answer, and the result it
\* is about to acknowledge is the handler's.
AnswerIsGiven ==
  /\ answer \subseteq Messages /\ answer \subseteq handed
  /\ result # <<>> => result \in Messages \X BOOLEAN /\ (result[2] => result[1] \in good)

(***************************************************************************)
(* broker/rocketmq/rocketmq-clients: producers cached by topic, one simple *)
(* consumer created by the first Subscribe with a run goroutine that polls *)
(* it, and Disconnect, which closes done once and for all.                 *)
(*                                                                         *)
(* Messages are of the topic of the one subscriber.  A message that is     *)
(* received is invisible to other receives until it is acknowledged or     *)
(* invisibleDuration is over.                                              *)
(***************************************************************************)
CONSTANTS RocketMessages,         \* those of its topic
          Topics,
          MaxConsumers      \* bound: consumers created

VARIABLES vup, vdone,       \* connected; b.done is closed
          leaving,          \* Disconnect calls between their check and their lock
          halted,           \* history: a Disconnect ended at a producer's error
          producer,         \* b.producers
          consumer, nth,    \* b.consumer, 0 is nil; consumers made so far
          making,           \* Subscribe between createConsumer and the assignment
          run,              \* the run goroutine of each consumer
          missed,           \* history: a run saw no consumer, or done of a Disconnect before
          vsub,             \* the subscriber: "none", "reading", "on", "off"
          views, opinion,   \* messages of run still to handle; the handler's result, or <<>>
          hidden,           \* the server: invisible messages
          vfell             \* the program has panicked

pubVars  == <<producer, halted>>
runVars  == <<run, missed, views, opinion, hidden>>
rocketVars == <<vup, vdone, leaving, pubVars, consumer, nth, making, runVars, vsub, vfell,
                history, settled>>

Consumers == 1 .. MaxConsumers

\* NewBroker, Init.
SimpleInit ==
  /\ vup = FALSE /\ vdone = FALSE /\ leaving = 0 /\ halted = FALSE
  /\ producer = [t \in Topics |-> "none"]
  /\ consumer = 0 /\ nth = 0 /\ making = 0 /\ run = [c \in Consumers |-> "none"]
  /\ missed = FALSE /\ vsub = "none" /\ views = [c \in Consumers |-> {}]
  /\ opinion = [c \in Consumers |-> <<>>] /\ hidden = {} /\ vfell = FALSE
  /\ handed = {} /\ tried = {} /\ good = {} /\ settled = {}

\* Connect only sets the flag; done stays closed if it is.
SimpleConnect ==
  /\ ~vup /\ vup' = TRUE
  /\ UNCHANGED <<vdone, leaving, pubVars, consumer, nth, making, runVars, vsub, vfell, history, settled>>

\* publish: the producer of the topic, created and started if there is none, then
\* the send: sync, async or in a transaction.  Nobody asks whether b is connected.
SimplePublish(t, ok) ==
  /\ producer' = [producer EXCEPT ![t] = IF @ = "none" /\ ok THEN "open" ELSE @]
  /\ UNCHANGED <<vup, vdone, leaving, halted, consumer, nth, making, runVars, vsub, vfell, history, settled>>

------------------------------------------------------------------------------
(* SimpleSubscribe and the run goroutine *)

\* createConsumer starts run before b.consumer is assigned;
SimpleSubscribe ==
  /\ vsub = "none" /\ making = 0
  /\ IF consumer # 0 THEN vsub' = "reading" /\ UNCHANGED <<nth, making, run>>
     ELSE /\ nth < MaxConsumers /\ nth' = nth + 1 /\ making' = nth + 1
          /\ run' = [run EXCEPT ![nth + 1] = "top"] /\ UNCHANGED vsub
  /\ UNCHANGED <<vup, vdone, leaving, pubVars, consumer, missed, views, opinion, hidden, vfell,
                 history, settled>>

Assign ==
  /\ making # 0 /\ consumer' = making /\ making' = 0 /\ vsub' = "reading"
  /\ UNCHANGED <<vup, vdone, leaving, pubVars, nth, runVars, vfell, history, settled>>

\* then the topic is subscribed at the consumer, which may fail; Disconnect has it
\* dropped: a nil call.
Added ==
  /\ vsub = "reading"
  /\ IF consumer = 0 THEN vfell' = TRUE /\ UNCHANGED vsub
     ELSE vsub' \in {"on", "none"} /\ UNCHANGED vfell
  /\ UNCHANGED <<vup, vdone, leaving, pubVars, consumer, nth, making, runVars, history, settled>>

\* run: done, then a consumer that is nil.
Top(c) ==
  /\ run[c] = "top"
  /\ run' = [run EXCEPT ![c] = IF vdone \/ consumer = 0 THEN "end" ELSE "receive"]
  /\ missed' = (missed \/ vdone \/ consumer = 0)
  /\ UNCHANGED <<vup, vdone, leaving, pubVars, consumer, nth, making, views, opinion, hidden, vsub,
                 vfell, history, settled>>

\* Receive, of the consumer of the moment: an error, at once, and the next turn; a
\* consumer that Disconnect took away in between is a nil call.
Receive(c, S) ==
  /\ run[c] = "receive"
  /\ IF consumer = 0 THEN vfell' = TRUE /\ UNCHANGED <<run, views, hidden, handed>>
     ELSE /\ run' = [run EXCEPT ![c] = IF S = {} THEN "top" ELSE "handle"]
          /\ views' = [views EXCEPT ![c] = S]
          /\ hidden' = hidden \union S /\ handed' = handed \union S /\ UNCHANGED vfell
  /\ UNCHANGED <<vup, vdone, leaving, pubVars, consumer, nth, making, missed, opinion, vsub, tried,
                 good, settled>>

\* Faulty variant: a message without a subscriber is answered as well.
Handle_Orphans(c, m, ok) ==
  /\ run[c] = "handle" /\ m \in views[c] /\ opinion[c] = <<>>
  /\ views' = [views EXCEPT ![c] = @ \ {m}]
  /\ opinion' = [opinion EXCEPT ![c] = <<m, TRUE>>]
  /\ tried' = tried \union {m} /\ good' = IF ok THEN good \union {m} ELSE good
  /\ UNCHANGED <<vup, vdone, leaving, pubVars, consumer, nth, making, run, missed, hidden, vsub,
                 vfell, handed, settled>>

\* A message without a subscriber is left; the others go to onMessage: decoding and
\* the handler,
SimpleHandle(c, m, ok) ==
  /\ run[c] = "handle" /\ m \in views[c] /\ opinion[c] = <<>>
  /\ views' = [views EXCEPT ![c] = @ \ {m}]
  /\ IF vsub \in {"none", "reading"} THEN UNCHANGED <<opinion, tried, good>>
     ELSE /\ opinion' = [opinion EXCEPT ![c] = <<m, ok>>]
          /\ tried' = tried \union {m} /\ good' = IF ok THEN good \union {m} ELSE good
  /\ UNCHANGED <<vup, vdone, leaving, pubVars, consumer, nth, making, run, missed, hidden, vsub,
                 vfell, handed, settled>>

\* and Ack with AutoAck, which may fail.
SimpleAck(c, ok) ==
  /\ opinion[c] # <<>> /\ opinion' = [opinion EXCEPT ![c] = <<>>]
  /\ IF opinion[c][2] /\ ok
     THEN settled' = settled \union {opinion[c][1]} /\ hidden' = hidden \ {opinion[c][1]}
     ELSE UNCHANGED <<settled, hidden>>
  /\ UNCHANGED <<vup, vdone, leaving, pubVars, consumer, nth, making, run, missed, views, vsub, vfell,
                 history>>

\* The end of the batch and the pause.
BatchDone(c) ==
  /\ run[c] = "handle" /\ views[c] = {} /\ opinion[c] = <<>>
  /\ run' = [run EXCEPT ![c] = "top"]
  /\ UNCHANGED <<vup, vdone, leaving, pubVars, consumer, nth, making, missed, views, opinion, hidden,
                 vsub, vfell, history, settled>>

\* invisibleDuration is over.
Visible(m) ==
  /\ m \in hidden /\ hidden' = hidden \ {m}
  /\ UNCHANGED <<vup, vdone, leaving, pubVars, consumer, nth, making, run, missed, views, opinion,
                 vsub, vfell, history, settled>>

\* Unsubscribe(true): the entry of the map is dropped.
SimpleUnsubscribe ==
  /\ vsub = "on" /\ vsub' = "none"
  /\ UNCHANGED <<vup, vdone, leaving, pubVars, consumer, nth, making, runVars, vfell, history, settled>>

------------------------------------------------------------------------------
\* Disconnect reads connected under the read lock,
DisconnectCheck ==
  /\ vup /\ leaving < 2 /\ leaving' = leaving + 1
  /\ UNCHANGED <<vup, vdone, pubVars, consumer, nth, making, runVars, vsub, vfell, history, settled>>

\* Faulty variant: the producers stay in the map.
DisconnectRun_Keeps(S, ok) ==
  /\ leaving > 0 /\ leaving' = leaving - 1
  /\ S \subseteq {t \in Topics : producer[t] # "none"}
  /\ vdone' = TRUE /\ UNCHANGED vfell
  /\ producer' = [t \in Topics |-> IF producer[t] = "none" THEN "none" ELSE "stopped"]
  /\ consumer' = 0 /\ vup' = FALSE /\ UNCHANGED halted
  /\ UNCHANGED <<nth, making, runVars, vsub, history, settled>>

\* and then locks and closes done, which panics the second time.  A producer that
\* does not stop ends it: S are stopped, the rest of b stays as it was.
DisconnectRun(S, ok) ==
  /\ leaving > 0 /\ leaving' = leaving - 1
  /\ S \subseteq {t \in Topics : producer[t] # "none"}
  /\ vdone' = TRUE /\ vfell' = vdone
  /\ IF vdone THEN UNCHANGED <<producer, consumer, vup, halted>>
     ELSE IF ok THEN /\ producer' = [t \in Topics |-> "none"]
                     /\ consumer' = 0 /\ vup' = FALSE /\ UNCHANGED halted
     ELSE /\ S # {t \in Topics : producer[t] # "none"}
          /\ producer' = [t \in Topics |-> IF t \in S THEN "stopped" ELSE producer[t]]
          /\ halted' = TRUE /\ UNCHANGED <<consumer, vup>>
  /\ UNCHANGED <<nth, making, runVars, vsub, history, settled>>

\* Receive of at most maxMessageNum, here all that are visible, or an error.
Run(c) ==
  \/ Top(c) \/ BatchDone(c)
  \/ \E S \in {{}, RocketMessages \ (settled \union hidden)} : Receive(c, S)
  \/ \E ok \in BOOLEAN : SimpleAck(c, ok) \/ \E m \in RocketMessages : SimpleHandle(c, m, ok)

SimpleNext ==
  /\ ~vfell
  /\ \/ SimpleConnect \/ SimpleSubscribe \/ Assign \/ Added \/ SimpleUnsubscribe \/ DisconnectCheck
     \/ \E t \in Topics, ok \in BOOLEAN : SimplePublish(t, ok)
     \/ \E S \in SUBSET Topics, ok \in BOOLEAN : DisconnectRun(S, ok)
     \/ \E c \in Consumers : Run(c)
     \/ \E m \in RocketMessages : Visible(m)

\* Every run goroutine runs; calls of the client end.
SimpleFairness == \A c \in Consumers : WF_rocketVars(~vfell /\ Run(c))

SimpleSpec == SimpleInit /\ [][SimpleNext]_rocketVars /\ SimpleFairness

------------------------------------------------------------------------------
\* The type of the state.
SimpleTypeOK ==
  /\ {vup, vdone, halted, missed, vfell} \subseteq BOOLEAN /\ leaving \in 0 .. 2
  /\ producer \in [Topics -> {"none", "open", "stopped"}]
  /\ {consumer, nth, making} \subseteq 0 .. MaxConsumers
  /\ run \in [Consumers -> {"none", "top", "receive", "handle", "end"}]
  /\ vsub \in {"none", "reading", "on"}
  /\ views \in [Consumers -> SUBSET RocketMessages]
  /\ opinion \in [Consumers -> {<<>>} \union (RocketMessages \X BOOLEAN)]
  /\ \A S \in {hidden, handed, tried, good, settled} : S \subseteq RocketMessages

\* A producer of the map is not stopped, unless a Disconnect gave up half way.
CachedIsOpen == \A t \in Topics : producer[t] = "stopped" => halted

\* A consumer that is there is polled: its goroutine runs, or one of them saw no
\* consumer or the done of an earlier Disconnect.
ConsumerIsPolled ==
  consumer # 0 => (\E c \in Consumers : run[c] \notin {"none", "end"}) \/ missed

\* The consumer does what a consumer may.
SimpleD == INSTANCE Delivery WITH Messages <- RocketMessages, strict <- TRUE
SimpleImplementsDelivery == SimpleD!Spec

SimpleOver == vfell \/ \A c \in Consumers : run[c] \in {"none", "end"}

\* Disconnect ends every run goroutine.
SimpleLoopEnds == vdone ~> SimpleOver

------------------------------------------------------------------------------
(* Proofs, for any sets of messages and topics and any number of consumers. *)

\* What is inductive of the simple consumers, each with a run goroutine.
ViewsAreGiven ==
  /\ views \in [Consumers -> SUBSET RocketMessages]
  /\ \A c \in Consumers : views[c] \subseteq handed
  /\ opinion \in [Consumers -> {<<>>} \union (RocketMessages \X BOOLEAN)]
  /\ \A c \in Consumers : opinion[c] # <<>> /\ opinion[c][2] => opinion[c][1] \in good

\* The own state of the broker of rocketmq-clients: its type; a producer that is stopped
\* comes from a Disconnect that gave up; and a consumer that is there, or about to be
\* assigned, has a goroutine, or one has missed it.
RocketInv ==
  /\ {vup, vdone, halted, missed, vfell} \subseteq BOOLEAN /\ leaving \in 0 .. 2
  /\ producer \in [Topics -> {"none", "open", "stopped"}]
  /\ consumer \in 0 .. MaxConsumers /\ nth \in 0 .. MaxConsumers /\ making \in 0 .. MaxConsumers
  /\ run \in [Consumers -> {"none", "top", "receive", "handle", "end"}]
  /\ vsub \in {"none", "reading", "on"}
  /\ CachedIsOpen
  /\ consumer # 0 \/ making # 0
       => (\E c \in Consumers : run[c] \notin {"none", "end"}) \/ missed

\* What it is about.
rocketOwn == <<vup, vdone, leaving, halted, producer, consumer, nth, making, run, missed, vsub, vfell>>

\* Its messages: those of its topic.
RocketHistory == \A S \in {hidden, handed, tried, good, settled} : S \subseteq RocketMessages

=============================================================================
