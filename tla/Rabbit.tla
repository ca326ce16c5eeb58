------------------------------- MODULE Rabbit -------------------------------
(***************************************************************************)
(* broker/rabbitmq: the connection with its reconnect goroutine, the       *)
(* resubscribe goroutine of every subscriber, the broker's map of          *)
(* subscribers, the lazily opened publish channel, and an application that *)
(* connects, subscribes, publishes, unsubscribes and disconnects while the *)
(* network drops connections.                                              *)
(*                                                                         *)
(* An amqp.Connection is a number (0 is nil); alive holds the ones that    *)
(* are up.  A Go channel that is only ever closed is a Boolean; r.close is *)
(* made again by Connect, so it has a generation.  A panic sets crashed    *)
(* and ends the program.                                                   *)
(***************************************************************************)
EXTENDS Integers, FiniteSets

CONSTANTS Subs, Topics,
          NoSub,            \* an empty entry of the map
          MaxConnects,      \* bound: calls of Connect that dial
          MaxDrops,         \* bound: connections the network drops
          MaxHalf           \* bound: dials that succeed and then fail to open a channel

ASSUME RabbitAssumption ==
  /\ NoSub \notin Subs /\ Topics # {}
  /\ MaxConnects \in Nat /\ MaxDrops \in Nat /\ MaxHalf \in Nat

VARIABLES connected, closeGen, closedGens, ready, link, exch,  \* rabbitConnection
          alive, dials, drops, halves,                            \* the network
          watcher,          \* the reconnect goroutines, one per Connect
          connects, pub,    \* the application: Connects so far; inside Publish?
          disc, toStop,     \* progress of Disconnect; subscribers Clear still stops
          sub,              \* the subscribers and their goroutines
          closed, busy,     \* subscribers: unsubscribed; inside a handler
          open, stored,     \* subscribers whose channel is open; is s.ch
          map,              \* b.subscribers
          crashed

connVars == <<connected, closeGen, closedGens, ready, link, exch, watcher>>
netVars  == <<alive, dials, drops, halves>>
appVars  == <<connects, pub, disc, toStop>>
subVars  == <<sub, closed, busy, open, stored>>
vars     == <<connVars, netVars, appVars, subVars, map, crashed>>

MaxDials == MaxConnects + MaxDrops + MaxHalf + 1
Watchers == 1 .. MaxConnects

NewSub(t, at) == [topic |-> t, pc |-> at, gen |-> 0, chan |-> 0]

Init ==
  /\ connected = FALSE /\ closeGen = 1 /\ closedGens = {} /\ ready = FALSE
  /\ link = 0 /\ exch = 0
  /\ alive = {} /\ dials = 0 /\ drops = 0 /\ halves = 0
  /\ watcher = [w \in Watchers |-> [pc |-> "none", link |-> 0, gen |-> 0]]
  /\ connects = 0 /\ pub = FALSE
  /\ disc = "no" /\ toStop = {}
  /\ sub = [s \in Subs |-> NewSub(CHOOSE t \in Topics : TRUE, "none")]
  /\ closed = {} /\ busy = {} /\ open = {} /\ stored = {}
  /\ map = [t \in Topics |-> NoSub]
  /\ crashed = "no"

------------------------------------------------------------------------------
(* The connection. *)

\* tryConnect: a connection with its channel; or DialConfig fails and leaves
\* r.Connection nil; or the channel cannot be opened on the new connection,
\* which nobody closes.
TryConnect(ok) ==
  IF ok THEN /\ dials < MaxDials
             /\ dials' = dials + 1 /\ link' = dials + 1 /\ alive' = alive \union {dials + 1}
             /\ UNCHANGED <<drops, halves>>
  ELSE \/ link' = 0 /\ UNCHANGED netVars
       \/ /\ halves < MaxHalf /\ halves' = halves + 1 /\ dials < MaxDials
          /\ dials' = dials + 1 /\ link' = dials + 1 /\ alive' = alive \union {dials + 1}
          /\ UNCHANGED drops

\* Connect: nil when connected; otherwise a closed r.close is made again and
\* connect dials once.
Connect ==
  /\ disc \in {"no", "done"} /\ ~connected /\ connects < MaxConnects
  /\ \A w \in Watchers : watcher[w].pc # "opening"
  /\ connects' = connects + 1
  /\ closeGen' = IF closeGen \in closedGens THEN closeGen + 1 ELSE closeGen
  /\ disc' = "no"
  /\ \E ok \in BOOLEAN :
       /\ TryConnect(ok)
       /\ watcher' = IF ok THEN [watcher EXCEPT ![connects + 1].pc = "opening"] ELSE watcher
  /\ UNCHANGED <<connected, ready, exch, closedGens, pub, toStop, subVars, map, crashed>>

\* What follows a successful tryConnect in connect and in reconnect, up to the
\* select: closing a waitConnection that is closed already is a panic, and so is
\* NotifyClose of a connection that the tryConnect of another Connect has set to nil.
Established(w) ==
  /\ watcher[w].pc \in {"opening", "dialled"}
  /\ watcher' = [watcher EXCEPT ![w] = [pc |-> "watch", link |-> link, gen |-> closeGen]]
  /\ connected' = TRUE /\ exch' = 0 /\ ready' = TRUE
  /\ crashed' = IF ready THEN "waitConnection" ELSE IF link = 0 THEN "notify" ELSE crashed
  /\ UNCHANGED <<closeGen, closedGens, link, netVars, appVars, subVars, map>>

\* Faulty variant: waitConnection is left closed.
WatchLost_KeepsWait(w) ==
  /\ watcher[w].pc = "watch" /\ watcher[w].link \notin alive
  /\ watcher' = [watcher EXCEPT ![w].pc = "dial"]
  /\ connected' = FALSE /\ exch' = 0
  /\ UNCHANGED <<closeGen, closedGens, ready, link, netVars, appVars, subVars, map, crashed>>

\* reconnect: notifyClose fires, after a drop as after Close.
WatchLost(w) ==
  /\ watcher[w].pc = "watch" /\ watcher[w].link \notin alive
  /\ watcher' = [watcher EXCEPT ![w].pc = "dial"]
  /\ connected' = FALSE /\ ready' = FALSE /\ exch' = 0
  /\ UNCHANGED <<closeGen, closedGens, link, netVars, appVars, subVars, map, crashed>>

\* reconnect: r.close fires.
WatchClosed(w) ==
  /\ watcher[w].pc = "watch" /\ watcher[w].gen \in closedGens
  /\ watcher' = [watcher EXCEPT ![w].pc = "gone"]
  /\ UNCHANGED <<connected, closeGen, closedGens, ready, link, exch, netVars, appVars,
                 subVars, map, crashed>>

\* reconnect: the next turn of the loop dials until it succeeds; r.close is not
\* looked at.
Redial(w, ok) ==
  /\ watcher[w].pc = "dial"
  /\ TryConnect(ok)
  /\ watcher' = IF ok THEN [watcher EXCEPT ![w].pc = "dialled"] ELSE watcher
  /\ UNCHANGED <<connected, closeGen, closedGens, ready, exch, appVars, subVars, map, crashed>>

\* The network drops a connection.
Drop(l) ==
  /\ l \in alive /\ drops < MaxDrops
  /\ alive' = alive \ {l} /\ drops' = drops + 1
  /\ UNCHANGED <<connVars, dials, halves, appVars, subVars, map, crashed>>

------------------------------------------------------------------------------
(* The subscribers. *)

\* The channel a subscriber's goroutine got from Consume is still delivering.
Live(s) == s \in open /\ sub[s].chan \in alive

Started(s) == sub[s].pc # "none"

subOnly == <<connVars, netVars, appVars, map, crashed>>

\* Subscribe: Add, then go resubscribe().
Subscribe(s, t) ==
  /\ connects > 0 /\ ~Started(s)
  /\ sub' = [sub EXCEPT ![s] = NewSub(t, "check")]
  /\ map' = [map EXCEPT ![t] = s]
  /\ UNCHANGED <<connVars, netVars, appVars, closed, busy, open, stored, crashed>>

\* What Unsubscribe does to a subscriber: closed, and s.ch closed if it is set.
Stopped(s) ==
  /\ closed' = closed \union {s}
  /\ open' = IF s \in stored THEN open \ {s} ELSE open
  /\ UNCHANGED <<sub, busy, stored>>

\* Faulty variant: the map is emptied.
Unsubscribe_DropsAll(s) ==
  /\ Started(s) /\ s \notin closed
  /\ Stopped(s)
  /\ map' = [t \in Topics |-> NoSub]
  /\ UNCHANGED <<connVars, netVars, appVars, crashed>>

\* Unsubscribe(true), called by the application: RemoveOnly goes by topic.
Unsubscribe(s) ==
  /\ Started(s) /\ s \notin closed
  /\ Stopped(s)
  /\ map' = [map EXCEPT ![sub[s].topic] = NoSub]
  /\ UNCHANGED <<connVars, netVars, appVars, crashed>>

\* resubscribe: the test of closed, and the channels the select then waits on.
Check(s) ==
  /\ sub[s].pc = "check"
  /\ sub' = [sub EXCEPT ![s].pc = IF s \in closed THEN "gone" ELSE "wait",
                        ![s].gen = closeGen]
  /\ UNCHANGED <<closed, busy, open, stored, subOnly>>

\* resubscribe: the select; either branch when both channels are closed.
Select(s) ==
  /\ sub[s].pc = "wait"
  /\ \/ sub[s].gen \in closedGens /\ sub' = [sub EXCEPT ![s].pc = "gone"]
     \/ ready /\ sub' = [sub EXCEPT ![s].pc = "consume"]
  /\ UNCHANGED <<closed, busy, open, stored, subOnly>>

\* resubscribe: b.mtx is taken, by one subscriber at a time, and r.connected read.
Consume(s) ==
  /\ sub[s].pc = "consume" /\ \A o \in Subs : sub[o].pc # "locked"
  /\ sub' = [sub EXCEPT ![s].pc = IF connected THEN "locked" ELSE "check"]
  /\ UNCHANGED <<closed, busy, open, stored, subOnly>>

\* resubscribe, Consume: r.Connection is used.  reconnect does not take b.mtx and
\* may have lost or replaced it since: a connection that is down gives an error, and
\* the loop starts again after a pause; a nil one is dereferenced.
ConsumeOpens(s) ==
  /\ sub[s].pc = "locked"
  /\ \/ /\ link \in alive
        /\ sub' = [sub EXCEPT ![s].pc = "store", ![s].chan = link]
        /\ open' = open \union {s} /\ stored' = stored \ {s}
        /\ UNCHANGED crashed
     \/ /\ link \notin alive
        /\ sub' = [sub EXCEPT ![s].pc = "check"]
        /\ crashed' = IF link = 0 THEN "consume" ELSE crashed
        /\ UNCHANGED <<open, stored>>
  /\ UNCHANGED <<closed, busy, connVars, netVars, appVars, map>>

\* Consume: the channel, the exchange, the queue or the binding is refused on a
\* connection that is up.
ConsumeFails(s) ==
  /\ sub[s].pc = "locked" /\ link \in alive
  /\ sub' = [sub EXCEPT ![s].pc = "check"]
  /\ UNCHANGED <<closed, busy, open, stored, subOnly>>

\* resubscribe: s.ch = ch.
Store(s) ==
  /\ sub[s].pc = "store"
  /\ sub' = [sub EXCEPT ![s].pc = "range"] /\ stored' = stored \union {s}
  /\ UNCHANGED <<closed, busy, open, subOnly>>

\* resubscribe: one turn of the range loop, wg.Add, fn, wg.Done.
Deliver(s) ==
  /\ sub[s].pc = "range" /\ Live(s) /\ s \notin busy
  /\ busy' = busy \union {s}
  /\ UNCHANGED <<sub, closed, open, stored, subOnly>>

\* Faulty variant: wg.Done is skipped for a subscriber that was unsubscribed.
Handled_SkipsDone(s) ==
  /\ s \in busy /\ s \notin closed
  /\ busy' = busy \ {s}
  /\ UNCHANGED <<sub, closed, open, stored, subOnly>>

Handled(s) ==
  /\ s \in busy
  /\ busy' = busy \ {s}
  /\ UNCHANGED <<sub, closed, open, stored, subOnly>>

\* Faulty variant: the goroutine ends with its deliveries.
RangeEnds_Returns(s) ==
  /\ sub[s].pc = "range" /\ ~Live(s) /\ s \notin busy
  /\ sub' = [sub EXCEPT ![s].pc = "gone"]
  /\ UNCHANGED <<closed, busy, open, stored, subOnly>>

\* resubscribe: the deliveries channel is closed and the outer loop starts again.
RangeEnds(s) ==
  /\ sub[s].pc = "range" /\ ~Live(s) /\ s \notin busy
  /\ sub' = [sub EXCEPT ![s].pc = "check"]
  /\ UNCHANGED <<closed, busy, open, stored, subOnly>>

------------------------------------------------------------------------------
(* Publishing, and Disconnect. *)

\* publish, lazyInitPublishChannel: a publish channel is opened on r.Connection
\* if there is none; a nil connection is dereferenced.
PublishStart ==
  /\ connects > 0 /\ ~pub
  /\ IF exch # 0 THEN pub' = TRUE /\ UNCHANGED <<exch, crashed>>
     ELSE IF link = 0 THEN crashed' = "publish" /\ UNCHANGED <<exch, pub>>
     ELSE link \in alive /\ exch' = link /\ pub' = TRUE /\ UNCHANGED crashed
  /\ UNCHANGED <<connected, closeGen, closedGens, ready, link, watcher, netVars,
                 connects, disc, toStop, subVars, map>>

\* Publish uses r.ExchangeChannel, read again without the lock.
PublishSend ==
  /\ pub /\ pub' = FALSE
  /\ crashed' = IF exch = 0 THEN "publish" ELSE crashed
  /\ UNCHANGED <<connVars, netVars, connects, disc, toStop, subVars, map>>

\* Faulty variant: Clear also takes the empty entries.
DisconnectStart_TakesNil ==
  /\ connects > 0 /\ disc = "no"
  /\ \A w \in Watchers : watcher[w].pc # "opening"
  /\ toStop' = {map[t] : t \in Topics}
  /\ map' = [t \in Topics |-> NoSub]
  /\ disc' = "clearing"
  /\ UNCHANGED <<connVars, netVars, connects, pub, subVars, crashed>>

\* Disconnect: Clear takes every subscriber out of the map,
DisconnectStart ==
  /\ connects > 0 /\ disc = "no"
  /\ \A w \in Watchers : watcher[w].pc # "opening"
  /\ toStop' = {map[t] : t \in Topics} \ {NoSub}
  /\ map' = [t \in Topics |-> NoSub]
  /\ disc' = "clearing"
  /\ UNCHANGED <<connVars, netVars, connects, pub, subVars, crashed>>

\* then calls Unsubscribe(false) on each;
ClearOne(s) ==
  /\ s \in toStop
  /\ toStop' = toStop \ {s}
  /\ Stopped(s)
  /\ UNCHANGED <<connVars, netVars, connects, pub, disc, map, crashed>>

\* conn.Close: nothing if r.close is closed already, otherwise r.close and the
\* current connection are closed;
CloseConn ==
  /\ disc = "clearing" /\ toStop = {}
  /\ disc' = "waiting"
  /\ closedGens' = closedGens \union {closeGen}
  /\ connected' = IF closeGen \in closedGens THEN connected ELSE FALSE
  /\ alive' = IF closeGen \in closedGens THEN alive ELSE alive \ {link}
  /\ UNCHANGED <<closeGen, ready, link, exch, watcher, dials, drops, halves,
                 connects, pub, toStop, subVars, map, crashed>>

\* and wg.Wait returns once no handler runs.
Waited ==
  /\ disc = "waiting" /\ busy = {}
  /\ disc' = "done"
  /\ UNCHANGED <<connVars, netVars, connects, pub, toStop, subVars, map, crashed>>

------------------------------------------------------------------------------
WatcherStep(w) == Established(w) \/ WatchLost(w) \/ WatchClosed(w) \/ Redial(w, TRUE)

SubStep(s) == \/ Check(s) \/ Select(s) \/ Consume(s) \/ ConsumeOpens(s) \/ Store(s)
              \/ Handled(s) \/ RangeEnds(s)

CloseStep == CloseConn \/ \E s \in Subs : ClearOne(s)

Next ==
  /\ crashed = "no"
  /\ \/ Connect \/ PublishStart \/ PublishSend \/ DisconnectStart \/ CloseStep \/ Waited
     \/ \E w \in Watchers : WatcherStep(w) \/ Redial(w, FALSE)
     \/ \E s \in Subs : SubStep(s) \/ ConsumeFails(s) \/ Deliver(s) \/ Unsubscribe(s)
     \/ \E s \in Subs, t \in Topics : Subscribe(s, t)
     \/ \E l \in 1 .. MaxDials : Drop(l)

Running == crashed = "no"

\* Goroutines that can run are scheduled; a dial that is retried, and a Consume that
\* is retried on a connection that is up, succeed in the end; handlers return; wg.Wait is released when the count reaches zero.
Fairness ==
  /\ \A w \in Watchers : WF_vars(Running /\ WatcherStep(w))
  /\ \A s \in Subs : WF_vars(Running /\ SubStep(s)) /\ SF_vars(Running /\ ConsumeOpens(s))
  /\ WF_vars(Running /\ CloseStep) /\ SF_vars(Running /\ Waited)

Spec == Init /\ [][Next]_vars /\ Fairness

------------------------------------------------------------------------------
(* Properties. *)

WatcherRec == [pc : {"none", "opening", "watch", "dial", "dialled", "gone"},
               link : 0 .. MaxDials, gen : Nat]

SubRec == [topic : Topics,
           pc : {"none", "check", "wait", "consume", "locked", "store", "range", "gone"},
           gen : Nat, chan : 0 .. MaxDials]

\* The type of the state.
TypeOK ==
  /\ connected \in BOOLEAN /\ ready \in BOOLEAN /\ pub \in BOOLEAN
  /\ closeGen \in Nat /\ closedGens \subseteq Nat
  /\ dials \in 0 .. MaxDials /\ link \in 0 .. MaxDials /\ exch \in 0 .. MaxDials
  /\ alive \subseteq 1 .. dials
  /\ drops \in 0 .. MaxDrops /\ halves \in 0 .. MaxHalf
  /\ connects \in 0 .. MaxConnects
  /\ watcher \in [Watchers -> WatcherRec]
  /\ disc \in {"no", "clearing", "waiting", "done"} /\ toStop \subseteq Subs
  /\ sub \in [Subs -> SubRec]
  /\ closed \subseteq Subs /\ busy \subseteq Subs /\ open \subseteq Subs /\ stored \subseteq Subs
  /\ map \in [Topics -> Subs \union {NoSub}]
  /\ crashed \in {"no", "waitConnection", "publish", "consume", "notify"}

\* Over one Connect, however often the connection is lost and dialled again,
\* reconnect never closes a waitConnection that is closed already (which panics).
WaitClosedOnce == crashed # "waitConnection"

\* A subscriber that is open can be found, and so stopped by Disconnect, unless
\* it shares its topic with another one: Add replaces and RemoveOnly removes by
\* topic, whoever owns the entry.
OpenIsKnown ==
  \A s \in Subs :
    Started(s) /\ s \notin closed /\ s \notin toStop =>
      \/ map[sub[s].topic] = s
      \/ \E o \in Subs \ {s} : Started(o) /\ sub[o].topic = sub[s].topic

\* A subscriber that is not unsubscribed comes back: after any number of lost
\* connections and failures of Consume its goroutine gets a live channel again, as
\* long as no panic (a nil connection used by Publish or Consume) ends the program.
Wanted(s) == /\ Started(s) /\ s \notin closed /\ disc = "no" /\ Running
             /\ \E w \in Watchers : watcher[w].pc # "none"
Resubscribes == \A s \in Subs : Wanted(s) ~> (~Wanted(s) \/ (sub[s].pc = "range" /\ Live(s)))

\* Disconnect returns: closing the connection ends the deliveries wg.Wait waits
\* for, unless reconnect has dialled again meanwhile.
DisconnectReturns ==
  (disc = "waiting" /\ alive = {}) ~> (disc = "done" \/ ~Running \/ alive # {})

\* "Disconnect disconnects from the broker" (broker/broker.go): once it has
\* returned and the reconnect goroutines have ended, no connection is up.
DisconnectDisconnects ==
  disc = "done" /\ (\A w \in Watchers : watcher[w].pc \in {"none", "gone"}) => alive = {}
=============================================================================
