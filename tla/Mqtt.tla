-------------------------------- MODULE Mqtt --------------------------------
(***************************************************************************)
(* broker/mqtt over a clean session: the broker forgets the subscriptions  *)
(* of a connection that is lost, onConnectionLost dials until it succeeds  *)
(* and onConnect, a goroutine per connection, subscribes again what the    *)
(* map holds, while the application subscribes, unsubscribes and           *)
(* disconnects.                                                            *)
(*                                                                         *)
(* Subscribers have a topic each.  A session is the number of the          *)
(* connection, 0 before the first.                                         *)
(***************************************************************************)
EXTENDS Integers

CONSTANTS Subs,
          MaxSessions       \* bound: connections

VARIABLES link,             \* is the client connected
          session,          \* number of the last connection
          redial,           \* loopConnect runs
          hook,             \* the goroutines of onConnect: what each still subscribes
          mapped,           \* m.subscribers
          served,           \* subscriptions the MQTT server holds
          leaving, clear,   \* inside Disconnect, before Clear; subscribers Clear still stops
          adding,           \* inside Subscribe, after doSubscribe: its session
          overtaken         \* history: the connection changed before Add, or a Clear that
                            \* was under way undid the subscription

mqttVars == <<link, session, redial, hook, mapped, served, leaving, clear, adding, overtaken>>

Sessions == 1 .. MaxSessions

\* A goroutine of onConnect: not started, before Foreach, or the rest of its list.
Hook == [at : {"none", "starting", "running"}, todo : SUBSET Subs]

\* newBroker, newClient.
Init ==
  /\ link = FALSE /\ session = 0 /\ redial = FALSE
  /\ hook = [n \in Sessions |-> [at |-> "none", todo |-> {}]]
  /\ mapped = {} /\ served = {} /\ leaving = FALSE /\ clear = {}
  /\ adding = [s \in Subs |-> 0] /\ overtaken = {}

\* The client is connected and starts onConnect.
Up == /\ session < MaxSessions /\ session' = session + 1 /\ link' = TRUE
      /\ hook' = [hook EXCEPT ![session + 1].at = "starting"]

\* Connect, which returns at once if connected.
Connect ==
  /\ ~link /\ Up
  /\ UNCHANGED <<redial, mapped, served, leaving, clear, adding, overtaken>>

\* The network: the session is gone and onConnectionLost runs.
Lose ==
  /\ link /\ link' = FALSE /\ served' = {} /\ redial' = TRUE
  /\ UNCHANGED <<session, hook, mapped, leaving, clear, adding, overtaken>>

\* Faulty variant: one attempt only.
LoopConnect_Once ==
  /\ redial /\ redial' = FALSE
  /\ UNCHANGED <<link, session, hook, mapped, served, leaving, clear, adding, overtaken>>

\* loopConnect: Connect until it succeeds, which it also does if the application
\* was faster.
LoopConnect ==
  /\ redial /\ redial' = FALSE
  /\ IF link THEN UNCHANGED <<link, session, hook>> ELSE Up
  /\ UNCHANGED <<mapped, served, leaving, clear, adding, overtaken>>

\* Faulty variant: onConnect only calls back.
Snapshot_Nothing(n) ==
  /\ hook[n].at = "starting"
  /\ hook' = [hook EXCEPT ![n] = [at |-> "running", todo |-> {}]]
  /\ UNCHANGED <<link, session, redial, mapped, served, leaving, clear, adding, overtaken>>

\* onConnect: Foreach takes a copy of the map,
Snapshot(n) ==
  /\ hook[n].at = "starting"
  /\ hook' = [hook EXCEPT ![n] = [at |-> "running", todo |-> mapped]]
  /\ UNCHANGED <<link, session, redial, mapped, served, leaving, clear, adding, overtaken>>

\* and subscribes one after the other, on the connection of the moment; an error is
\* logged.
Resubscribe(n, s) ==
  /\ s \in hook[n].todo
  /\ hook' = [hook EXCEPT ![n].todo = @ \ {s}]
  /\ served' = IF link THEN served \union {s} ELSE served
  /\ overtaken' = IF link THEN overtaken \ {s} ELSE overtaken
  /\ UNCHANGED <<link, session, redial, mapped, leaving, clear, adding>>

\* Subscribe: doSubscribe waits for the server,
Subscribe(s) ==
  /\ link /\ s \notin mapped /\ adding[s] = 0
  /\ served' = served \union {s} /\ adding' = [adding EXCEPT ![s] = session]
  /\ overtaken' = overtaken \ {s}
  /\ UNCHANGED <<link, session, redial, hook, mapped, leaving, clear>>

\* then Add.
Add(s) ==
  /\ adding[s] # 0
  /\ adding' = [adding EXCEPT ![s] = 0] /\ mapped' = mapped \union {s}
  /\ overtaken' = IF adding[s] = session THEN overtaken ELSE overtaken \union {s}
  /\ UNCHANGED <<link, session, redial, hook, served, leaving, clear>>

\* Unsubscribe(true): the client is told, its answer not waited for, and the entry
\* removed.
Unsubscribe(s) ==
  /\ s \in mapped
  /\ mapped' = mapped \ {s} /\ served' = served \ {s}
  /\ UNCHANGED <<link, session, redial, hook, leaving, clear, adding, overtaken>>

\* Disconnect does nothing while the client is not connected, loopConnect or not;
\* otherwise it ends the session,
Disconnect ==
  /\ link /\ ~leaving /\ link' = FALSE /\ served' = {} /\ leaving' = TRUE
  /\ UNCHANGED <<session, redial, hook, mapped, clear, adding, overtaken>>

\* empties the map,
Clear ==
  /\ leaving /\ leaving' = FALSE /\ clear' = clear \union mapped /\ mapped' = {}
  /\ UNCHANGED <<link, session, redial, hook, served, adding, overtaken>>

\* and calls Unsubscribe(false) on each, by topic and on the connection of the moment.
ClearOne(s) ==
  /\ s \in clear /\ clear' = clear \ {s} /\ served' = served \ {s}
  /\ overtaken' = overtaken \union {s}
  /\ UNCHANGED <<link, session, redial, hook, mapped, leaving, adding>>

Hooking == \E n \in Sessions : Snapshot(n) \/ \E s \in Subs : Resubscribe(n, s)

Next ==
  \/ Connect \/ Lose \/ LoopConnect \/ Disconnect \/ Clear \/ Hooking
  \/ \E s \in Subs : ClearOne(s) \/ Subscribe(s) \/ Add(s) \/ Unsubscribe(s)

\* Goroutines run; a dial that is repeated succeeds in the end.
Fairness == WF_mqttVars(LoopConnect) /\ WF_mqttVars(Hooking)

Spec == Init /\ [][Next]_mqttVars /\ Fairness

------------------------------------------------------------------------------
\* The type of the state.
TypeOK ==
  /\ {link, redial, leaving} \subseteq BOOLEAN /\ session \in 0 .. MaxSessions
  /\ hook \in [Sessions -> Hook]
  /\ mapped \subseteq Subs /\ served \subseteq Subs /\ clear \subseteq Subs /\ overtaken \subseteq Subs
  /\ adding \in [Subs -> 0 .. MaxSessions]

\* However often the connection is lost: when the onConnect of this session is
\* through, every subscriber of the map is subscribed at the server, unless a new
\* connection came between its doSubscribe and its Add, or the Clear of a Disconnect
\* that is not over yet unsubscribed its topic.
MappedIsServed ==
  link /\ session > 0 /\ hook[session].at = "running" =>
    mapped \subseteq served \union hook[session].todo \union overtaken

\* A connection that was lost comes back.
Reconnects == redial ~> (link \/ session = MaxSessions)
=============================================================================
