---------------------------- MODULE RabbitProofs ----------------------------
(***************************************************************************)
(* Proofs about broker/rabbitmq for any number of subscribers, topics,     *)
(* connections, losses and failing dials.                                  *)
(***************************************************************************)
EXTENDS Rabbit, TLAPS

\* Disconnect has subscribers left to stop only inside Clear.
ToStopInClear == disc # "clearing" => toStop = {}

IInv == TypeOK /\ ToStopInClear /\ OpenIsKnown

\* The initial state has its type.
LEMMA TypeInit == Init => TypeOK
<1> SUFFICES ASSUME Init PROVE TypeOK
  OBVIOUS
<1>1. (CHOOSE t \in Topics : TRUE) \in Topics
  BY RabbitAssumption
<1>2. MaxDials \in Nat
  BY RabbitAssumption DEF MaxDials
<1>3. sub \in [Subs -> SubRec]
  BY <1>1, <1>2 DEF Init, NewSub, SubRec
<1>4. watcher \in [Watchers -> WatcherRec]
  BY <1>2 DEF Init, WatcherRec
<1>5. map \in [Topics -> Subs \union {NoSub}]
  BY DEF Init
<1>6. alive \subseteq 1 .. dials /\ toStop \subseteq Subs /\ closedGens \subseteq Nat
  BY DEF Init
<1>7. connected \in BOOLEAN /\ ready \in BOOLEAN /\ pub \in BOOLEAN
  BY Zenon DEF Init
<1>8. /\ closeGen \in Nat /\ dials \in 0 .. MaxDials /\ link \in 0 .. MaxDials
      /\ exch \in 0 .. MaxDials /\ drops \in 0 .. MaxDrops /\ halves \in 0 .. MaxHalf
      /\ connects \in 0 .. MaxConnects
  BY <1>2, RabbitAssumption DEF Init
<1>9. /\ disc \in {"no", "clearing", "waiting", "done"}
      /\ crashed \in {"no", "waitConnection", "publish", "consume", "notify"}
      /\ closed \subseteq Subs /\ busy \subseteq Subs /\ open \subseteq Subs /\ stored \subseteq Subs
  BY DEF Init
<1> QED
  BY <1>3, <1>4, <1>5, <1>6, <1>7, <1>8, <1>9 DEF TypeOK

\* A function of records with one field changed, whatever the sets of values.
LEMMA PcInWatchers ==
  ASSUME NEW D, NEW P, NEW L, NEW G, NEW f \in [D -> [pc : P, link : L, gen : G]],
         NEW w, NEW p \in P
  PROVE  [f EXCEPT ![w].pc = p] \in [D -> [pc : P, link : L, gen : G]]
OBVIOUS

\* The goroutine of reconnect goes on to another place of its loop.
LEMMA WatcherMoves ==
  ASSUME NEW f \in [Watchers -> WatcherRec], NEW w,
         NEW p \in {"none", "opening", "watch", "dial", "dialled", "gone"}
  PROVE  [f EXCEPT ![w].pc = p] \in [Watchers -> WatcherRec]
BY PcInWatchers, Zenon DEF WatcherRec

\* What a step of a subscriber's goroutine can do to its record: go on, look at the
\* connection, or take a channel.
SubMoves(s) ==
  \E p \in {"check", "wait", "consume", "locked", "store", "range", "gone"} :
     \/ sub' = [sub EXCEPT ![s].pc = p]
     \/ sub' = [sub EXCEPT ![s].pc = p, ![s].gen = closeGen]
     \/ sub' = [sub EXCEPT ![s].pc = p, ![s].chan = link]

\* Every step of a subscriber is one of these, of a subscriber that was started.
LEMMA StepMoves ==
  ASSUME NEW s \in Subs, SubStep(s) \/ ConsumeFails(s) \/ Deliver(s)
  PROVE  (SubMoves(s) /\ Started(s)) \/ sub' = sub
<1>1. CASE Check(s)
  <2>1. SubMoves(s)
    BY <1>1, Zenon DEF Check, SubMoves
  <2>2. Started(s)
    BY <1>1 DEF Check, Started
  <2> QED
    BY <2>1, <2>2
<1>2. CASE Select(s)
  <2>1. SubMoves(s)
    BY <1>2, Zenon DEF Select, SubMoves
  <2>2. Started(s)
    BY <1>2 DEF Select, Started
  <2> QED
    BY <2>1, <2>2
<1>3. CASE Consume(s)
  <2>1. SubMoves(s)
    BY <1>3, Zenon DEF Consume, SubMoves
  <2>2. Started(s)
    BY <1>3 DEF Consume, Started
  <2> QED
    BY <2>1, <2>2
<1>4. CASE ConsumeOpens(s)
  <2>1. SubMoves(s)
    BY <1>4, Zenon DEF ConsumeOpens, SubMoves
  <2>2. Started(s)
    BY <1>4 DEF ConsumeOpens, Started
  <2> QED
    BY <2>1, <2>2
<1>5. CASE ConsumeFails(s)
  <2>1. SubMoves(s)
    BY <1>5, Zenon DEF ConsumeFails, SubMoves
  <2>2. Started(s)
    BY <1>5 DEF ConsumeFails, Started
  <2> QED
    BY <2>1, <2>2
<1>6. CASE Store(s)
  <2>1. SubMoves(s)
    BY <1>6, Zenon DEF Store, SubMoves
  <2>2. Started(s)
    BY <1>6 DEF Store, Started
  <2> QED
    BY <2>1, <2>2
<1>7. CASE Deliver(s)
  BY <1>7, Zenon DEF Deliver
<1>8. CASE Handled(s)
  BY <1>8, Zenon DEF Handled
<1>9. CASE RangeEnds(s)
  <2>1. SubMoves(s)
    BY <1>9, Zenon DEF RangeEnds, SubMoves
  <2>2. Started(s)
    BY <1>9 DEF RangeEnds, Started
  <2> QED
    BY <2>1, <2>2
<1> QED
  BY <1>1, <1>2, <1>3, <1>4, <1>5, <1>6, <1>7, <1>8, <1>9, Zenon DEF SubStep

\* They keep the type, the topics and who is started.
LEMMA MovesKeep ==
  ASSUME sub \in [Subs -> SubRec], closeGen \in Nat, link \in 0 .. MaxDials,
         NEW s \in Subs, SubMoves(s), Started(s)
  PROVE  /\ sub' \in [Subs -> SubRec]
         /\ \A u \in Subs : sub'[u].topic = sub[u].topic /\ (Started(u)' <=> Started(u))
<1> DEFINE P == {"none", "check", "wait", "consume", "locked", "store", "range", "gone"}
           G == Nat
           C == 0 .. MaxDials
           R == [topic : Topics, pc : P, gen : G, chan : C]
<1>r. SubRec = R
  BY Zenon DEF SubRec
<1>0. sub \in [Subs -> R] /\ closeGen \in G /\ link \in C
  BY <1>r, Zenon
<1>p. PICK p \in {"check", "wait", "consume", "locked", "store", "range", "gone"} :
         \/ sub' = [sub EXCEPT ![s].pc = p]
         \/ sub' = [sub EXCEPT ![s].pc = p, ![s].gen = closeGen]
         \/ sub' = [sub EXCEPT ![s].pc = p, ![s].chan = link]
  BY Zenon DEF SubMoves
<1>q. p \in P /\ p # "none"
  OBVIOUS
<1> HIDE DEF P, G, C
<1> DEFINE Kept == /\ sub' \in [Subs -> R]
                   /\ \A u \in Subs : /\ sub'[u].topic = sub[u].topic
                                      /\ sub'[u].pc = IF u = s THEN p ELSE sub[u].pc
<1>1. ASSUME sub' = [sub EXCEPT ![s].pc = p] PROVE Kept
  <2>1. sub' \in [Subs -> R]
    BY <1>0, <1>q, <1>1, ZenonT(60)
  <2>2. \A u \in Subs : sub'[u].topic = sub[u].topic /\ sub'[u].pc = IF u = s THEN p ELSE sub[u].pc
    BY <1>0, <1>1, ZenonT(60)
  <2> QED
    BY <2>1, <2>2, Zenon
<1>2. ASSUME sub' = [sub EXCEPT ![s].pc = p, ![s].gen = closeGen] PROVE Kept
  <2>1. sub' \in [Subs -> R]
    BY <1>0, <1>q, <1>2, ZenonT(60)
  <2>2. \A u \in Subs : sub'[u].topic = sub[u].topic /\ sub'[u].pc = IF u = s THEN p ELSE sub[u].pc
    BY <1>0, <1>2, ZenonT(60)
  <2> QED
    BY <2>1, <2>2, Zenon
<1>3. ASSUME sub' = [sub EXCEPT ![s].pc = p, ![s].chan = link] PROVE Kept
  <2>1. sub' \in [Subs -> R]
    BY <1>0, <1>q, <1>3, ZenonT(60)
  <2>2. \A u \in Subs : sub'[u].topic = sub[u].topic /\ sub'[u].pc = IF u = s THEN p ELSE sub[u].pc
    BY <1>0, <1>3, ZenonT(60)
  <2> QED
    BY <2>1, <2>2, Zenon
<1> HIDE DEF Kept, R
<1>4. Kept
  BY <1>p, <1>1, <1>2, <1>3, Zenon
<1>5. \A u \in Subs : Started(u)' <=> Started(u)
  BY <1>4, <1>q, ZenonT(60) DEF Kept, Started
<1> QED
  BY <1>r, <1>4, <1>5, Zenon DEF Kept

\* Every step of the program keeps the types.
LEMMA TypeStep == TypeOK /\ [Next]_vars => TypeOK'
<1> SUFFICES ASSUME TypeOK, [Next]_vars PROVE TypeOK'
  OBVIOUS
<1>m. MaxDials \in Nat
  BY RabbitAssumption DEF MaxDials
<1> USE <1>m, RabbitAssumption
<1>1. CASE Connect
  <2> PICK ok \in BOOLEAN :
         /\ TryConnect(ok)
         /\ watcher' = IF ok THEN [watcher EXCEPT ![connects + 1].pc = "opening"] ELSE watcher
    BY <1>1 DEF Connect
  <2>1. watcher' \in [Watchers -> WatcherRec]
    BY WatcherMoves DEF TypeOK
  <2>2. /\ dials' \in 0 .. MaxDials /\ link' \in 0 .. MaxDials /\ alive' \subseteq 1 .. dials'
        /\ drops' \in 0 .. MaxDrops /\ halves' \in 0 .. MaxHalf
    BY DEF TryConnect, TypeOK, netVars
  <2> QED
    BY <1>1, <2>1, <2>2 DEF Connect, TypeOK, subVars
<1>2. CASE PublishStart
  BY <1>2 DEF PublishStart, TypeOK, netVars, subVars
<1>3. CASE PublishSend
  BY <1>3 DEF PublishSend, TypeOK, netVars, connVars, subVars
<1>4. CASE DisconnectStart
  BY <1>4 DEF DisconnectStart, TypeOK, netVars, connVars, subVars
<1>5. CASE CloseConn
  BY <1>5 DEF CloseConn, TypeOK, subVars
<1>6. ASSUME NEW s \in Subs, ClearOne(s) PROVE TypeOK'
  BY <1>6 DEF ClearOne, Stopped, TypeOK, netVars, connVars, subVars
<1>7. CASE Waited
  BY <1>7 DEF Waited, TypeOK, netVars, connVars, subVars
<1>8. ASSUME NEW w \in Watchers, Established(w) PROVE TypeOK'
  <2>1. watcher' \in [Watchers -> WatcherRec]
    BY <1>8 DEF Established, TypeOK, WatcherRec
  <2> QED
    BY <1>8, <2>1 DEF Established, TypeOK, netVars, appVars, subVars
<1>9. ASSUME NEW w \in Watchers, WatchLost(w) PROVE TypeOK'
  <2>1. watcher' \in [Watchers -> WatcherRec]
    BY <1>9, WatcherMoves DEF WatchLost, TypeOK
  <2>2. connected' \in BOOLEAN /\ ready' \in BOOLEAN /\ pub' \in BOOLEAN
    BY <1>9, Zenon DEF WatchLost, TypeOK, appVars
  <2> QED
    BY <1>9, <2>1, <2>2 DEF WatchLost, TypeOK, netVars, appVars, subVars
<1>10. ASSUME NEW w \in Watchers, WatchClosed(w) PROVE TypeOK'
  <2>1. watcher' \in [Watchers -> WatcherRec]
    BY <1>10, WatcherMoves DEF WatchClosed, TypeOK
  <2> QED
    BY <1>10, <2>1 DEF WatchClosed, TypeOK, netVars, appVars, subVars
<1>11. ASSUME NEW w \in Watchers, NEW ok \in BOOLEAN, Redial(w, ok) PROVE TypeOK'
  <2>1. watcher' \in [Watchers -> WatcherRec]
    BY <1>11, WatcherMoves DEF Redial, TypeOK
  <2>2. /\ dials' \in 0 .. MaxDials /\ link' \in 0 .. MaxDials /\ alive' \subseteq 1 .. dials'
        /\ drops' \in 0 .. MaxDrops /\ halves' \in 0 .. MaxHalf
    BY <1>11 DEF Redial, TryConnect, TypeOK, netVars
  <2> QED
    BY <1>11, <2>1, <2>2 DEF Redial, TypeOK, appVars, subVars
<1>12. ASSUME NEW s \in Subs, SubStep(s) \/ ConsumeFails(s) \/ Deliver(s) PROVE TypeOK'
  <2>0. /\ sub' \in [Subs -> SubRec]
        /\ closed' \subseteq Subs /\ busy' \subseteq Subs
        /\ open' \subseteq Subs /\ stored' \subseteq Subs
    <3>0. /\ sub \in [Subs -> SubRec] /\ closeGen \in Nat /\ link \in 0 .. MaxDials
          /\ closed \subseteq Subs /\ busy \subseteq Subs
          /\ open \subseteq Subs /\ stored \subseteq Subs
      BY DEF TypeOK
    <3>s. sub' \in [Subs -> SubRec]
      BY <1>12, <3>0, StepMoves, MovesKeep, Zenon
    <3>k. /\ closed' = closed
          /\ busy' \subseteq busy \union {s} /\ open' \subseteq open \union {s}
          /\ stored' \subseteq stored \union {s}
      BY <1>12 DEF SubStep, Check, Select, Consume, ConsumeOpens, ConsumeFails, Store, Deliver,
         Handled, RangeEnds
    <3> QED
      BY <3>0, <3>k, <3>s
  <2>1. /\ UNCHANGED <<connVars, netVars, appVars, map>>
        /\ crashed' \in {crashed, "consume"}
    BY <1>12 DEF SubStep, subOnly, Check, Select, Consume, ConsumeOpens, ConsumeFails, Store,
       Deliver, Handled, RangeEnds
  <2> QED
    BY <2>0, <2>1 DEF TypeOK, netVars, appVars, subVars, connVars
<1>13. ASSUME NEW s \in Subs, Unsubscribe(s) PROVE TypeOK'
  <2>2. map' \in [Topics -> Subs \union {NoSub}]
    BY <1>13 DEF Unsubscribe, TypeOK
  <2> QED
    BY <1>13, <2>2 DEF Unsubscribe, Stopped, TypeOK, netVars, appVars, subVars, connVars
<1>14. ASSUME NEW s \in Subs, NEW t \in Topics, Subscribe(s, t) PROVE TypeOK'
  <2>1. sub' \in [Subs -> SubRec]
    BY <1>14 DEF Subscribe, NewSub, TypeOK, SubRec
  <2> QED
    BY <1>14, <2>1 DEF Subscribe, TypeOK, netVars, appVars, subVars, connVars
<1>15. ASSUME NEW l \in 1 .. MaxDials, Drop(l) PROVE TypeOK'
  BY <1>15 DEF Drop, TypeOK, appVars, subVars, connVars
<1>16. CASE UNCHANGED vars
  BY <1>16 DEF vars, connVars, netVars, appVars, subVars, TypeOK
<1> QED
  BY <1>1, <1>2, <1>3, <1>4, <1>5, <1>6, <1>7, <1>8, <1>9, <1>10, <1>11, <1>12, <1>13,
     <1>14, <1>15, <1>16 DEF Next, CloseStep, WatcherStep

\* Every reachable state of the broker has its type.
THEOREM TypeCorrect == Spec => []TypeOK
<1>1. TypeOK /\ [Next]_vars => TypeOK'
  BY TypeStep
<1> QED
  BY <1>1, TypeInit, PTL DEF Spec

------------------------------------------------------------------------------
\* What Disconnect has left to stop it stops before it closes the connection.
LEMMA ToStopStep == TypeOK /\ ToStopInClear /\ [Next]_vars => ToStopInClear'
<1> SUFFICES ASSUME TypeOK, ToStopInClear, [Next]_vars PROVE ToStopInClear'
  OBVIOUS
<1>1. CASE UNCHANGED <<disc, toStop>>
  BY <1>1 DEF ToStopInClear
<1>2. CASE Connect
  BY <1>2 DEF Connect, ToStopInClear
<1>3. CASE DisconnectStart
  BY <1>3 DEF DisconnectStart, ToStopInClear
<1>4. CASE CloseStep
  BY <1>4 DEF CloseStep, CloseConn, ClearOne, ToStopInClear
<1>5. CASE Waited
  BY <1>5 DEF Waited, ToStopInClear
<1>6. CASE ~(Connect \/ DisconnectStart \/ CloseStep \/ Waited)
  <2>1. UNCHANGED <<disc, toStop>>
    BY <1>6 DEF Next, vars, appVars, PublishStart, PublishSend, WatcherStep, Established,
       WatchLost, WatchClosed, Redial, SubStep, subOnly, Check, Select, Consume, ConsumeOpens,
       ConsumeFails, Store, Deliver, Handled, RangeEnds, Unsubscribe, Subscribe, Drop
  <2> QED
    BY <1>1, <2>1
<1> QED
  BY <1>2, <1>3, <1>4, <1>5, <1>6

\* An open subscriber stays known: the step that takes it out of the map is its
\* own Unsubscribe, Clear, or a step of another subscriber of its topic.
LEMMA OpenStep == IInv /\ [Next]_vars => OpenIsKnown'
<1> SUFFICES ASSUME IInv, [Next]_vars, NEW s \in Subs,
                    Started(s)', s \notin closed', s \notin toStop'
             PROVE  (\/ map[sub[s].topic] = s
                     \/ \E o \in Subs \ {s} : Started(o) /\ sub[o].topic = sub[s].topic)'
  BY DEF OpenIsKnown
<1> DEFINE K == \/ map[sub[s].topic] = s
                \/ \E o \in Subs \ {s} : Started(o) /\ sub[o].topic = sub[s].topic
<1>t. /\ sub \in [Subs -> SubRec] /\ sub' \in [Subs -> SubRec]
      /\ map \in [Topics -> Subs \union {NoSub}]
  BY TypeStep DEF IInv, TypeOK
<1>k. ASSUME Started(s), s \notin closed, s \notin toStop PROVE K
  BY <1>k DEF IInv, OpenIsKnown
<1>1. ASSUME NEW o \in Subs, NEW t \in Topics, Subscribe(o, t) PROVE K'
  <2>1. CASE o = s
    BY <1>1, <1>t, <2>1 DEF Subscribe, NewSub
  <2>2. CASE o # s /\ sub[s].topic = t
    BY <1>1, <1>t, <2>2 DEF Subscribe, NewSub, Started
  <2>3. CASE o # s /\ sub[s].topic # t
    <3>1. K /\ sub'[s] = sub[s] /\ map'[sub[s].topic] = map[sub[s].topic]
      BY <1>1, <1>t, <1>k, <2>3 DEF Subscribe, Started, appVars, SubRec
    <3>2. \A u \in Subs : Started(u) => sub'[u] = sub[u]
      BY <1>1, <1>t DEF Subscribe, Started
    <3> QED
      BY <3>1, <3>2 DEF Started
  <2> QED
    BY <2>1, <2>2, <2>3
<1>2. ASSUME NEW o \in Subs, Unsubscribe(o) PROVE K'
  <2>1. o # s /\ K /\ sub' = sub /\ Started(o)
    BY <1>2, <1>k DEF Unsubscribe, Stopped, Started, appVars
  <2>2. CASE sub[o].topic = sub[s].topic
    BY <2>1, <2>2 DEF Started
  <2>3. CASE sub[o].topic # sub[s].topic
    <3>1. map'[sub[s].topic] = map[sub[s].topic]
      BY <1>2, <1>t, <2>3 DEF Unsubscribe, SubRec
    <3> QED
      BY <2>1, <3>1 DEF Started
  <2> QED
    BY <2>2, <2>3
<1>3. CASE DisconnectStart
  <2>1. toStop = {} /\ sub' = sub /\ closed' = closed
    BY <1>3 DEF DisconnectStart, IInv, ToStopInClear, subVars
  <2>2. K
    BY <1>k, <2>1 DEF Started
  <2>3. map[sub[s].topic] # s
    BY <1>3, <1>t, RabbitAssumption DEF DisconnectStart, SubRec
  <2> QED
    BY <2>1, <2>2, <2>3 DEF Started
<1>4. ASSUME NEW o \in Subs, ClearOne(o) PROVE K'
  <2>1. o # s /\ K /\ sub' = sub /\ map' = map
    BY <1>4, <1>k DEF ClearOne, Stopped, Started
  <2> QED
    BY <2>1 DEF Started
<1>5. CASE \/ UNCHANGED subVars /\ map' = map /\ toStop' = toStop
           \/ \E o \in Subs : SubStep(o) \/ ConsumeFails(o) \/ Deliver(o)
  <2> DEFINE Same == /\ map' = map /\ toStop' = toStop /\ closed' = closed
                     /\ \A u \in Subs : sub'[u].topic = sub[u].topic
                     /\ \A u \in Subs : Started(u)' <=> Started(u)
  <2>1. Same
    <3>1. CASE UNCHANGED subVars /\ map' = map /\ toStop' = toStop
      BY <3>1 DEF subVars, Started
    <3>2. ASSUME NEW o \in Subs, SubStep(o) \/ ConsumeFails(o) \/ Deliver(o) PROVE Same
      <4>1. UNCHANGED <<map, toStop, closed>>
        BY <3>2 DEF SubStep, subOnly, appVars, Check, Select, Consume, ConsumeOpens,
           ConsumeFails, Store, Deliver, Handled, RangeEnds
      <4>2. /\ \A u \in Subs : sub'[u].topic = sub[u].topic
            /\ \A u \in Subs : Started(u)' <=> Started(u)
        <5>1. CASE sub' = sub
          BY <5>1 DEF Started
        <5>2. closeGen \in Nat /\ link \in 0 .. MaxDials
          BY DEF IInv, TypeOK
        <5> QED
          BY <3>2, <1>t, <5>1, <5>2, StepMoves, MovesKeep, Zenon
      <4> QED
        BY <4>1, <4>2
    <3> HIDE DEF Same
    <3> QED
      BY <1>5, <3>1, <3>2
  <2>2. K
    <3>1. Started(s) /\ s \notin closed /\ s \notin toStop
      BY <2>1 DEF Same, Started
    <3> QED
      BY <3>1, <1>k
  <2>3. CASE map[sub[s].topic] = s
    BY <2>1, <2>3 DEF Same
  <2>4. ASSUME NEW o \in Subs \ {s}, Started(o), sub[o].topic = sub[s].topic PROVE K'
    <3>1. sub'[o].topic = sub'[s].topic /\ Started(o)'
      BY <2>1, <2>4 DEF Same, Started
    <3> QED
      BY <3>1 DEF Started
  <2> QED
    BY <2>2, <2>3, <2>4
<1> QED
  BY <1>1, <1>2, <1>3, <1>4, <1>5 DEF Next, vars, appVars, CloseStep, CloseConn, Waited, Connect,
     PublishStart, PublishSend, WatcherStep, Established, WatchLost, WatchClosed, Redial, Drop

\* Whatever the number of subscribers and topics and however subscribing,
\* unsubscribing, losing the connection and Disconnect interleave, an open
\* subscriber with a topic of its own is in the broker's map, where Clear finds
\* it, or in the set Clear is stopping.
THEOREM OpenKnown == Spec => []OpenIsKnown
<1>1. Init => IInv
  BY TypeInit DEF Init, IInv, ToStopInClear, OpenIsKnown, Started, NewSub
<1>2. IInv /\ [Next]_vars => IInv'
  BY TypeStep, ToStopStep, OpenStep DEF IInv
<1>3. IInv => OpenIsKnown
  BY DEF IInv
<1> QED
  BY <1>1, <1>2, <1>3, PTL DEF Spec
=============================================================================
