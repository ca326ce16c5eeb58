-------------------------------- MODULE Redis --------------------------------
(***************************************************************************)
(* broker/redis.  pubsub: one subscriber with its recv goroutine, which    *)
(* takes a connection from the pool again when the one it has is lost,     *)
(* against Unsubscribe, Disconnect and the end of its context.  stream     *)
(* (Stream...): a consumer group and its pending list.                     *)
(***************************************************************************)
EXTENDS Integers, Sequences, Functions

VARIABLES pool,             \* b.pool: "none", "open"
          wire,             \* s.conn: "none", "live", "dead", "leaving" (unsubscribed)
          rclosed, rlisted, \* subscriber.closed; in b.subscribers
          ended,            \* the context of Subscribe is done
          recv,             \* the goroutine of recv
          slipped,          \* history: Unsubscribe found no connection to end
          fell              \* the program has panicked

pubsubVars == <<pool, wire, rclosed, rlisted, ended, recv, slipped, fell>>

\* NewBroker.
Init ==
  /\ pool = "none" /\ wire = "none" /\ rclosed = FALSE /\ rlisted = FALSE
  /\ ended = FALSE /\ recv = "none" /\ slipped = FALSE /\ fell = FALSE

\* Connect.
Connect ==
  /\ pool = "none" /\ pool' = "open"
  /\ UNCHANGED <<wire, rclosed, rlisted, ended, recv, slipped, fell>>

\* publish without a pool panics.
Publish ==
  /\ pool = "none" /\ fell' = TRUE
  /\ UNCHANGED <<pool, wire, rclosed, rlisted, ended, recv, slipped>>

\* Subscribe: the connection is subscribed, the subscriber added, recv started.
Subscribe ==
  /\ recv = "none"
  /\ IF pool = "none" THEN fell' = TRUE /\ UNCHANGED <<wire, rlisted, recv>>
     ELSE wire' = "live" /\ rlisted' = TRUE /\ recv' = "top" /\ fell' = FALSE
  /\ UNCHANGED <<pool, rclosed, ended, slipped>>

\* The network, or the server, ends the connection; a connection of a pool that is
\* closed stays in use.
Lose ==
  /\ wire \in {"live", "leaving"} /\ wire' = "dead"
  /\ UNCHANGED <<pool, rclosed, rlisted, ended, recv, slipped, fell>>

Cancel ==
  /\ ~ended /\ ended' = TRUE
  /\ UNCHANGED <<pool, wire, rclosed, rlisted, recv, slipped, fell>>

------------------------------------------------------------------------------
(* recv *)

\* The check of closed.
Top ==
  /\ recv = "top" /\ recv' = IF rclosed THEN "end" ELSE "conn"
  /\ UNCHANGED <<pool, wire, rclosed, rlisted, ended, slipped, fell>>

\* Faulty variant: reconnect takes the connection and does not subscribe.
Reconnect_Unsubscribed(ok) ==
  /\ recv = "conn"
  /\ IF wire # "none" THEN recv' = "receive" /\ UNCHANGED wire
     ELSE IF pool = "open" /\ ok THEN recv' = "receive" /\ wire' = "dead"
     ELSE recv' = "wait" /\ UNCHANGED wire
  /\ UNCHANGED <<pool, rclosed, rlisted, ended, slipped, fell>>

\* A connection is at hand, or reconnect takes one and subscribes.
Reconnect(ok) ==
  /\ recv = "conn"
  /\ IF wire # "none" THEN recv' = "receive" /\ UNCHANGED wire
     ELSE IF pool = "open" /\ ok THEN recv' = "receive" /\ wire' = "live"
     ELSE recv' = "wait" /\ UNCHANGED wire
  /\ UNCHANGED <<pool, rclosed, rlisted, ended, slipped, fell>>

\* Disconnect drops the pool between the check of reconnect and its use.
PoolGone ==
  /\ recv = "conn" /\ wire = "none" /\ pool = "open" /\ fell' = TRUE
  /\ UNCHANGED <<pool, wire, rclosed, rlisted, ended, recv, slipped>>

\* receiveLoop ends: on an error of Receive or of the ping; on the answer to
\* Unsubscribe; on the end of the context, seen after the next answer of the server.
\* Then the connection is closed, and an error without closed is waited out.
ReceiveEnds ==
  /\ recv = "receive"
  /\ \/ wire = "dead" /\ recv' = IF rclosed THEN "end" ELSE "wait"
     \/ wire = "leaving" /\ recv' = "end"
     \/ wire = "live" /\ ended /\ recv' = "end"
  /\ wire' = "none"
  /\ UNCHANGED <<pool, rclosed, rlisted, ended, slipped, fell>>

\* The delay, or the end of the context.
Wait ==
  /\ recv = "wait" /\ (recv' = "top" \/ (ended /\ recv' = "end"))
  /\ UNCHANGED <<pool, wire, rclosed, rlisted, ended, slipped, fell>>

------------------------------------------------------------------------------
\* Faulty variant: the connection is not told.
Unsubscribed_KeepsConn ==
  /\ rclosed' = TRUE
  /\ slipped' = (slipped \/ (wire = "none" /\ recv = "conn"))
  /\ UNCHANGED wire

\* Unsubscribe: closed is set, the connection, if there is one, unsubscribed.
Unsubscribed ==
  /\ rclosed' = TRUE
  /\ slipped' = (slipped \/ (wire = "none" /\ recv = "conn"))
  /\ wire' = IF wire = "live" THEN "leaving" ELSE wire

\* Unsubscribe(true).
Unsubscribe ==
  /\ recv # "none" /\ Unsubscribed
  /\ rlisted' = FALSE
  /\ UNCHANGED <<pool, ended, recv, fell>>

\* Disconnect: a nil pool panics; the pool is closed and dropped, Clear
\* unsubscribes what is listed.
Disconnect ==
  /\ IF pool = "none" THEN fell' = TRUE /\ UNCHANGED <<pool, rclosed, wire, slipped, rlisted>>
     ELSE /\ pool' = "none" /\ UNCHANGED fell
          /\ IF rlisted THEN Unsubscribed /\ rlisted' = FALSE
             ELSE UNCHANGED <<rclosed, wire, slipped, rlisted>>
  /\ UNCHANGED <<ended, recv>>

Recv == Top \/ PoolGone \/ ReceiveEnds \/ Wait \/ \E ok \in BOOLEAN : Reconnect(ok)

Next ==
  ~fell /\ (Connect \/ Publish \/ Subscribe \/ Lose \/ Cancel \/ Recv \/ Unsubscribe \/ Disconnect)

\* recv runs; the server answers, and takes a connection back in the end.
Fairness == WF_pubsubVars(~fell /\ Recv) /\ SF_pubsubVars(~fell /\ Reconnect(TRUE))

Spec == Init /\ [][Next]_pubsubVars /\ Fairness

------------------------------------------------------------------------------
\* The type of the state.
TypeOK ==
  /\ pool \in {"none", "open"} /\ wire \in {"none", "live", "dead", "leaving"}
  /\ recv \in {"none", "top", "conn", "receive", "wait", "end"}
  /\ {rclosed, rlisted, ended, slipped, fell} \subseteq BOOLEAN

\* A subscriber that is closed is not subscribed at the server, unless it was closed
\* between recv's check of closed and its reconnect: then it consumes on.
ClosedIsDeaf == rclosed /\ ~slipped => wire # "live"

Over == recv = "end" \/ slipped \/ fell

\* After Unsubscribe or Disconnect recv comes to an end, but for that race.
LoopEnds == rclosed ~> Over

Back == wire = "live" \/ rclosed \/ ended \/ pool = "none" \/ fell

\* "断线自动重连 指数退避 (1s→30s)" (broker/redis/README.md): a subscriber that lost its
\* connection is subscribed again while it may be.
Recovers == recv = "wait" ~> Back

(***************************************************************************)
(* broker/redis/stream: one subscriber that reads a stream as a consumer   *)
(* of a group.  The group hands every message out once (">"): a message    *)
(* that is read stays in the group's pending list until XACK.              *)
(*                                                                         *)
(* Messages are 1 .. Length, in the order of XADD.                         *)
(***************************************************************************)
CONSTANTS Length,           \* messages
          Count             \* COUNT of XREADGROUP

VARIABLES spool, sclosed, slisted,  \* b.pool # nil; subscriber.closed; in b.subscribers
          auto,                     \* AutoAck
          stream, cursor, pending,  \* the server: messages, the group's position, its pending list
          sloop, sbatch,            \* receiveLoop; messages of the reply still to handle
          judged,                   \* onMessage between the handler and its end, or <<>>
          sfell,                    \* the program has panicked
          handed, tried, good, settled

streamVars == <<spool, sclosed, slisted, auto, stream, cursor, pending, sloop, sbatch,
                judged, sfell, handed, tried, good, settled>>
server  == <<stream, cursor, pending>>
history == <<handed, tried, good>>

\* The position of a group that does not exist.
NoGroup == -1

\* NewBroker; AutoAck is an option, off by default.
StreamInit ==
  /\ spool = FALSE /\ sclosed = FALSE /\ slisted = FALSE /\ auto \in BOOLEAN
  /\ stream = 0 /\ cursor = NoGroup /\ pending = {}
  /\ sloop = "none" /\ sbatch = <<>> /\ judged = <<>> /\ sfell = FALSE
  /\ handed = {} /\ tried = {} /\ good = {} /\ settled = {}

\* Connect.
StreamConnect ==
  /\ ~spool /\ spool' = TRUE
  /\ UNCHANGED <<sclosed, slisted, auto, server, sloop, sbatch, judged, sfell, history, settled>>

\* publish: XADD; without a pool it panics.
StreamPublish ==
  /\ stream < Length
  /\ IF spool THEN stream' = stream + 1 /\ UNCHANGED sfell
     ELSE sfell' = TRUE /\ UNCHANGED stream
  /\ UNCHANGED <<spool, sclosed, slisted, auto, cursor, pending, sloop, sbatch, judged, history, settled>>

\* ensureGroup: XGROUP CREATE at "$"; that the group exists is no error.
EnsureGroup == cursor' = IF cursor = NoGroup THEN stream ELSE cursor

\* Subscribe.
StreamSubscribe ==
  /\ sloop = "none"
  /\ IF spool THEN EnsureGroup /\ slisted' = TRUE /\ sloop' = "top" /\ UNCHANGED sfell
     ELSE sfell' = TRUE /\ UNCHANGED <<cursor, slisted, sloop>>
  /\ UNCHANGED <<spool, sclosed, auto, stream, pending, sbatch, judged, history, settled>>

\* recv and receiveLoop check closed;
StreamTop ==
  /\ sloop = "top" /\ sloop' = IF sclosed THEN "end" ELSE "read"
  /\ UNCHANGED <<spool, sclosed, slisted, auto, server, sbatch, judged, sfell, history, settled>>

\* Faulty variant: the group is read from the start of its pending list.
Read_Pending ==
  /\ sloop = "read" /\ spool /\ cursor < stream
  /\ \E m \in (cursor + 1) .. stream \union pending :
       /\ sbatch' = <<m>> /\ pending' = pending \union {m} /\ handed' = handed \union {m}
  /\ sloop' = "handle" /\ UNCHANGED <<cursor, sfell>>
  /\ UNCHANGED <<spool, sclosed, slisted, auto, stream, judged, tried, good, settled>>

\* XREADGROUP ">" hands out what no consumer of the group has had; BLOCK ends without
\* a message; a pool that is nil panics.
Read ==
  /\ sloop = "read"
  /\ \/ /\ spool /\ cursor < stream
        /\ \E n \in 1 .. (IF Count < stream - cursor THEN Count ELSE stream - cursor) :
             /\ sbatch' = [i \in 1 .. n |-> cursor + i]
             /\ cursor' = cursor + n
             /\ pending' = pending \union (cursor + 1 .. cursor + n)
             /\ handed' = handed \union (cursor + 1 .. cursor + n)
        /\ sloop' = "handle" /\ UNCHANGED sfell
     \/ spool /\ cursor = stream /\ sloop' = "top" /\ UNCHANGED <<cursor, pending, sbatch, handed, sfell>>
     \/ ~spool /\ sfell' = TRUE /\ UNCHANGED <<cursor, pending, sbatch, handed, sloop>>
  /\ UNCHANGED <<spool, sclosed, slisted, auto, stream, judged, tried, good, settled>>

\* An error of XREADGROUP ends receiveLoop; recv returns if it is closed, and waits.
ReadFails ==
  /\ sloop = "read" /\ spool /\ sloop' = IF sclosed THEN "end" ELSE "wait"
  /\ UNCHANGED <<spool, sclosed, slisted, auto, server, sbatch, judged, sfell, history, settled>>

\* After the delay ensureGroup, closed or not.
StreamWait ==
  /\ sloop = "wait"
  /\ IF spool THEN sloop' = "top" /\ EnsureGroup /\ UNCHANGED sfell
     ELSE sfell' = TRUE /\ UNCHANGED <<sloop, cursor>>
  /\ UNCHANGED <<spool, sclosed, slisted, auto, stream, pending, sbatch, judged, history, settled>>

\* The end of the context, which recv sees before a read or in its delay.
Cancelled ==
  /\ sloop \in {"read", "wait"} /\ sloop' = "end"
  /\ UNCHANGED <<spool, sclosed, slisted, auto, server, sbatch, judged, sfell, history, settled>>

\* The messages of a reply, one by one: closed leaves the rest; decoding and handler.
Handle(ok) ==
  /\ sloop = "handle" /\ judged = <<>>
  /\ IF sclosed THEN sloop' = "end" /\ sbatch' = <<>> /\ UNCHANGED <<judged, tried, good>>
     ELSE IF sbatch = <<>> THEN sloop' = "top" /\ UNCHANGED <<sbatch, judged, tried, good>>
     ELSE /\ judged' = <<Head(sbatch), ok>> /\ sbatch' = Tail(sbatch)
          /\ tried' = tried \union {Head(sbatch)}
          /\ good' = IF ok THEN good \union {Head(sbatch)} ELSE good
          /\ UNCHANGED sloop
  /\ UNCHANGED <<spool, sclosed, slisted, auto, server, sfell, handed, settled>>

------------------------------------------------------------------------------
(* The reply of redigo and the acknowledgement *)

NoId == 0

\* redigo gives the strings of a reply as []byte.
ReplyId(m) == [kind |-> "bytes", value |-> m]

\* msgID, _ := msgData[0].(string): the assertion holds of a string only.
MsgID(reply) == IF reply.kind = "string" THEN reply.value ELSE NoId

\* Faulty variant: failed messages are acknowledged as well.
Ack_Always(redisOk) ==
  /\ judged # <<>>
  /\ settled' = settled \union {judged[1]} /\ pending' = pending \ {judged[1]}
  /\ judged' = <<>>
  /\ UNCHANGED <<spool, sclosed, slisted, auto, stream, cursor, sloop, sbatch, sfell, history>>

\* The end of onMessage: with AutoAck, after a handler that succeeded, XACK of the
\* message's id; an id that is none is an error of the server.
Ack(redisOk) ==
  /\ judged # <<>>
  /\ LET id == MsgID(ReplyId(judged[1])) IN
       IF auto /\ judged[2] /\ redisOk /\ id # NoId
       THEN settled' = settled \union {id} /\ pending' = pending \ {id}
       ELSE UNCHANGED <<settled, pending>>
  /\ judged' = <<>>
  /\ UNCHANGED <<spool, sclosed, slisted, auto, stream, cursor, sloop, sbatch, sfell, history>>

------------------------------------------------------------------------------
\* Unsubscribe(true).
StreamUnsubscribe ==
  /\ sloop # "none" /\ ~sclosed /\ sclosed' = TRUE /\ slisted' = FALSE
  /\ UNCHANGED <<spool, auto, server, sloop, sbatch, judged, sfell, history, settled>>

\* Disconnect: the pool is closed and dropped, Clear unsubscribes what is listed.
StreamDisconnect ==
  /\ spool /\ spool' = FALSE
  /\ sclosed' = (sclosed \/ slisted) /\ slisted' = FALSE
  /\ UNCHANGED <<auto, server, sloop, sbatch, judged, sfell, history, settled>>

StreamRecv == StreamTop \/ Read \/ ReadFails \/ StreamWait \/ \E ok \in BOOLEAN : Handle(ok) \/ Ack(ok)

StreamNext ==
  ~sfell /\ (StreamConnect \/ StreamPublish \/ StreamSubscribe \/ StreamRecv \/ Cancelled \/ StreamUnsubscribe \/ StreamDisconnect)

\* The goroutine runs: BLOCK and the delays end, handlers return; XACK does not
\* fail for ever.
StreamFairness ==
  /\ WF_streamVars(~sfell /\ StreamRecv)
  /\ SF_streamVars(~sfell /\ Ack(TRUE))

StreamSpec == StreamInit /\ [][StreamNext]_streamVars /\ StreamFairness

------------------------------------------------------------------------------
\* The type of the state.
StreamTypeOK ==
  /\ {spool, sclosed, slisted, auto, sfell} \subseteq BOOLEAN
  /\ stream \in 0 .. Length /\ cursor \in {NoGroup} \union 0 .. Length
  /\ pending \subseteq 1 .. Length /\ sbatch \in Seq(1 .. Length)
  /\ judged \in {<<>>} \union ((1 .. Length) \X BOOLEAN)
  /\ sloop \in {"none", "top", "read", "wait", "handle", "end"}
  /\ \A S \in {handed, tried, good, settled} : S \subseteq 1 .. Length

\* No message is handed out twice, however often the reader fails and starts again.
GivenOnce == [][\A m \in Range(sbatch') \ Range(sbatch) : m \notin handed]_streamVars

\* What is acknowledged was handled without error; what is handed out stays pending
\* until then.
PendingIsOpen == pending = handed \ settled /\ settled \subseteq good

StreamOver == sloop = "end" \/ sfell

\* After Unsubscribe or Disconnect the goroutine ends, or the broker panics on the
\* pool that is gone.
StreamLoopEnds == sclosed ~> StreamOver

\* "消费确认 (ACK) ✅ XACK" (broker/redis/README.md): a message that AutoAck acknowledges
\* leaves the pending list.
AckSettles ==
  \A m \in 1 .. Length : (m \in good /\ auto) ~> (m \in settled \/ sfell)
==============================================================================
