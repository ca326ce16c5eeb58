----------------------------- MODULE JetStream -----------------------------
(***************************************************************************)
(* broker/nats, the JetStream broker: the connection with its JetStream    *)
(* context, a push or a pull subscription, and the server, which gives a   *)
(* message out again after a Nak or when AckWait is over.                  *)
(*                                                                         *)
(* A connection is a number, 0 is nil.  The drain option is in Nats.       *)
(***************************************************************************)
EXTENDS Integers, FiniteSets

CONSTANTS Messages,
          PullBatch,        \* batchSize of the pull loop
          MaxDials          \* bound: connections

VARIABLES jpull, jmanual,           \* WithPull, WithManualAck
          jconn, jopen, js, jup,    \* b.conn, is it open, the connection of b.js, connected
          jdials,
          jsub, jsubconn,           \* the subscription; the connection it is made on
          jlisted, jclosed,         \* in b.subscribers; subscriber.closed
          jloop, batch,             \* pullLoop; messages it still holds
          verdict,                  \* fn between the handler and the answer, or <<>>
          out,                      \* the server: given out and not answered
          handed, tried, good, settled

jconnVars == <<jconn, jopen, js, jup, jdials>>
jsubVars  == <<jsub, jsubconn, jlisted, jclosed, jloop>>
history   == <<handed, tried, good>>
jetVars   == <<jpull, jmanual, jconnVars, jsubVars, batch, verdict, out, history, settled>>

Init ==
  /\ jpull \in BOOLEAN /\ jmanual \in BOOLEAN
  /\ jconn = 0 /\ jopen = FALSE /\ js = 0 /\ jup = FALSE /\ jdials = 0
  /\ jsub = "none" /\ jsubconn = 0 /\ jlisted = FALSE /\ jclosed = FALSE
  /\ jloop = "none" /\ batch = {} /\ verdict = <<>> /\ out = {}
  /\ handed = {} /\ tried = {} /\ good = {} /\ settled = {}

------------------------------------------------------------------------------
(* The connection; every operation holds b's lock. *)

jetOnly == <<jpull, jmanual, jsubVars, batch, verdict, out, history, settled>>

\* Faulty variant: connected is set before the JetStream context is there.
Connect_TooEarly(ok, jsOk) ==
  /\ ~jup /\ jdials < MaxDials
  /\ IF jconn # 0 /\ jopen THEN jup' = TRUE /\ UNCHANGED <<jconn, jopen, js, jdials>>
     ELSE IF ~ok THEN UNCHANGED jconnVars
     ELSE /\ jdials' = jdials + 1 /\ jconn' = jdials + 1
          /\ jopen' = jsOk /\ jup' = TRUE
          /\ js' = IF jsOk THEN jdials + 1 ELSE js
  /\ UNCHANGED jetOnly

\* Connect: a connection that is not closed is taken as it is, otherwise a new one
\* with a new JetStream context; if that fails the connection is closed and stays
\* in b.conn, and b.js keeps the old one.
Connect(ok, jsOk) ==
  /\ ~jup /\ jdials < MaxDials
  /\ IF jconn # 0 /\ jopen THEN jup' = TRUE /\ UNCHANGED <<jconn, jopen, js, jdials>>
     ELSE IF ~ok THEN UNCHANGED jconnVars
     ELSE /\ jdials' = jdials + 1 /\ jconn' = jdials + 1
          /\ jopen' = jsOk /\ jup' = jsOk
          /\ js' = IF jsOk THEN jdials + 1 ELSE js
  /\ UNCHANGED jetOnly

\* Disconnect without drain: Clear unsubscribes what is listed, then Close.
Disconnect ==
  /\ jconn # 0
  /\ jclosed' = (jclosed \/ jlisted) /\ jlisted' = FALSE
  /\ jopen' = FALSE /\ jup' = FALSE
  /\ UNCHANGED <<jpull, jmanual, jconn, js, jdials, jsub, jsubconn, jloop, batch, verdict, out,
                 history, settled>>

\* The client gives the connection up after its reconnects; connected stays.
GiveUp ==
  /\ jopen /\ jopen' = FALSE
  /\ UNCHANGED <<jetOnly, jconn, js, jup, jdials>>

\* The server is reached through the connection of the subscription.
Served == jsubconn # 0 /\ jsubconn = jconn /\ jopen

------------------------------------------------------------------------------
(* The subscription. *)

\* Subscribe, up to the RUnlock: the push subscription, or the pull subscription
\* with its goroutine.
Subscribe ==
  /\ jsub = "none" /\ js # 0 /\ js = jconn /\ jopen
  /\ jsub' = "made" /\ jsubconn' = js
  /\ jloop' = IF jpull THEN "top" ELSE "none"
  /\ UNCHANGED <<jpull, jmanual, jconnVars, jlisted, jclosed, batch, verdict, out,
                 history, settled>>

\* Subscribe: subscribers.Add.
Listed ==
  /\ jsub = "made" /\ jsub' = "on" /\ jlisted' = TRUE
  /\ UNCHANGED <<jpull, jmanual, jconnVars, jsubconn, jclosed, jloop, batch, verdict, out,
                 history, settled>>

\* Unsubscribe(true): closed, the server told, the entry of the topic removed.
Unsubscribe ==
  /\ jsub = "on" /\ ~jclosed
  /\ jclosed' = TRUE /\ jlisted' = FALSE
  /\ UNCHANGED <<jpull, jmanual, jconnVars, jsub, jsubconn, jloop, batch, verdict, out,
                 history, settled>>

\* The server has these messages to give.
Ready == Messages \ (settled \union out)

\* A push subscription: the callback gets one message at a time.
Push(m) ==
  /\ ~jpull /\ jsub # "none" /\ ~jclosed /\ Served /\ batch = {} /\ verdict = <<>> /\ m \in Ready
  /\ batch' = {m} /\ out' = out \union {m} /\ handed' = handed \union {m}
  /\ UNCHANGED <<jpull, jmanual, jconnVars, jsubVars, verdict, tried, good, settled>>

\* pullLoop: the test of IsClosed at the top of the loop.
PullTop ==
  /\ jloop = "top"
  /\ jloop' = IF jclosed THEN "gone" ELSE "fetch"
  /\ UNCHANGED <<jpull, jmanual, jconnVars, jsub, jsubconn, jlisted, jclosed, batch, verdict, out,
                 history, settled>>

\* pullLoop: Fetch returns up to batchSize messages;
PullFetch(S) ==
  /\ jloop = "fetch" /\ Served /\ ~jclosed /\ S # {} /\ S \subseteq Ready
  /\ Cardinality(S) <= PullBatch
  /\ jloop' = "handle" /\ batch' = S /\ out' = out \union S /\ handed' = handed \union S
  /\ UNCHANGED <<jpull, jmanual, jconnVars, jsub, jsubconn, jlisted, jclosed, verdict,
                 tried, good, settled>>

\* Faulty variant: an error ends the loop only.
PullFails_Returns ==
  /\ jloop = "fetch" /\ jloop' = "fetch"
  /\ UNCHANGED <<jpull, jmanual, jconnVars, jsub, jsubconn, jlisted, jclosed, batch, verdict, out,
                 history, settled>>

\* or an error (timeout, connection closed, any other): the loop goes on, or ends
\* if it sees that the subscriber is closed.
PullFails ==
  /\ jloop = "fetch" /\ jloop' = "top"
  /\ UNCHANGED <<jpull, jmanual, jconnVars, jsub, jsubconn, jlisted, jclosed, batch, verdict, out,
                 history, settled>>

\* pullLoop: the batch is done.
PullDone ==
  /\ jloop = "handle" /\ batch = {} /\ verdict = <<>> /\ jloop' = "top"
  /\ UNCHANGED <<jpull, jmanual, jconnVars, jsub, jsubconn, jlisted, jclosed, batch, verdict, out,
                 history, settled>>

\* The callback fn: decoding and the handler.
Callback(m, ok) ==
  /\ m \in batch /\ verdict = <<>>
  /\ batch' = batch \ {m} /\ verdict' = <<m, ok>>
  /\ tried' = tried \union {m}
  /\ good' = IF ok THEN good \union {m} ELSE good
  /\ UNCHANGED <<jpull, jmanual, jconnVars, jsubVars, out, handed, settled>>

\* Faulty variant: a message that is refused is acknowledged as well.
Answer_AcksAll ==
  /\ verdict # <<>> /\ verdict' = <<>>
  /\ \/ Served /\ settled' = settled \union {verdict[1]} /\ out' = out \ {verdict[1]}
     \/ ~Served /\ UNCHANGED <<settled, out>>
  /\ UNCHANGED <<jpull, jmanual, jconnVars, jsubVars, batch, history>>

\* The callback fn: what was refused or could not be decoded is Nak'ed, what was
\* accepted is acknowledged, with WithManualAck by the handler if it wants to.
\* Either call reaches the server if the connection is there.
Answer ==
  /\ verdict # <<>> /\ verdict' = <<>>
  /\ \/ Served /\ verdict[2] /\ settled' = settled \union {verdict[1]} /\ out' = out \ {verdict[1]}
     \/ Served /\ ~verdict[2] /\ out' = out \ {verdict[1]} /\ UNCHANGED settled
     \/ (~Served \/ (verdict[2] /\ jmanual)) /\ UNCHANGED <<settled, out>>
  /\ UNCHANGED <<jpull, jmanual, jconnVars, jsubVars, batch, history>>

\* The server: AckWait is over and the message may be given out again, even if its
\* handler is still running.
AckWaitOver(m) ==
  /\ m \in out /\ out' = out \ {m}
  /\ UNCHANGED <<jpull, jmanual, jconnVars, jsubVars, batch, verdict, history, settled>>

------------------------------------------------------------------------------
Pulling == PullTop \/ PullFails \/ PullDone
GivingOne(m) == Push(m) \/ \E S \in SUBSET Messages : m \in S /\ PullFetch(S)
Giving == \E m \in Messages : Push(m) \/ \E S \in SUBSET Messages : PullFetch(S)

Next ==
  \/ \E ok, jsOk \in BOOLEAN : Connect(ok, jsOk)
  \/ Disconnect \/ GiveUp \/ Subscribe \/ Listed \/ Unsubscribe
  \/ Pulling \/ Giving \/ Answer
  \/ \E m \in Messages : AckWaitOver(m) \/ \E ok \in BOOLEAN : Callback(m, ok)

\* The goroutines run and Fetch returns; the server gives out what it has, and a
\* handler that is given a message again and again accepts it in the end.
Fairness ==
  /\ WF_jetVars(Pulling \/ Answer)
  /\ WF_jetVars(\E m \in Messages, ok \in BOOLEAN : Callback(m, ok))
  /\ \A m \in Messages : /\ SF_jetVars(GivingOne(m))
                         /\ SF_jetVars(Callback(m, TRUE)) /\ WF_jetVars(AckWaitOver(m) /\ m \notin batch)

Spec == Init /\ [][Next]_jetVars /\ Fairness

------------------------------------------------------------------------------
\* The type of the state.
TypeOK ==
  /\ {jpull, jmanual, jopen, jup, jlisted, jclosed} \subseteq BOOLEAN
  /\ jconn \in 0 .. MaxDials /\ js \in 0 .. MaxDials /\ jsubconn \in 0 .. MaxDials
  /\ jsub \in {"none", "made", "on"} /\ jloop \in {"none", "top", "fetch", "handle", "gone"}
  /\ verdict \in {<<>>} \union (Messages \X BOOLEAN)
  /\ batch \subseteq Messages /\ out \subseteq Messages
  /\ handed \subseteq Messages /\ tried \subseteq Messages
  /\ good \subseteq Messages /\ settled \subseteq Messages

\* A broker that says it is connected has a JetStream context of the connection it
\* holds, not of one before: after any sequence of failed and repeated Connects.
ContextIsCurrent == jup => js = jconn

D == INSTANCE Delivery WITH strict <- TRUE

\* A message is acknowledged only after a handler accepted it, and one that was
\* acknowledged is not given out again.
ImplementsDelivery == D!Spec

Closing == jclosed /\ jpull
Over    == jloop = "gone"

\* The pull loop of a closed subscriber ends.
LoopEnds == Closing ~> Over

Accepted(m) == m \in settled \/ jclosed \/ ~Served \/ jmanual

\* README, "at least once": while the subscription lasts, a message that was given
\* out is accepted and acknowledged in the end, after refusals and expiries too.
AtLeastOnce == \A m \in Messages : m \in handed ~> Accepted(m)
=============================================================================
