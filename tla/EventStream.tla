----------------------------- MODULE EventStream -----------------------------
(***************************************************************************)
(* transport/sse: one stream ID.  The stream of that ID may be removed and *)
(* created again, so there are several Streams over time; current is the   *)
(* one the StreamManager holds.  Each has a goroutine (run) that serves    *)
(* its channels; each client has the goroutine of its request, which reads *)
(* the client's connection channel, and one that waits for the request to  *)
(* end and deregisters it.                                                 *)
(*                                                                         *)
(* An event is known by its position among the events its stream took.     *)
(***************************************************************************)
EXTENDS Integers, FiniteSets, Sequences, SequencesExt

CONSTANTS Clients, Streams,       \* Streams = 1 .. n, in order of creation
          Stalls,                 \* clients that may stay connected and stop reading
          EventKinds, LastIDs,    \* events published; Last-Event-IDs sent, 0 for none
          EventBuf, ConnBuf,      \* capacities of the event and connection channels
          MaxEvents               \* bound: events published

ASSUME StallsAssumption == Stalls \subseteq Clients

VARIABLES modes,                  \* the options in use
          current,                \* streamMgr.streams[id], 0 if there is none
          loop,                   \* per stream: "none", "run" or "dead"
          quit,                   \* the streams that were closed
          queue, past,            \* per stream: its event channel; the events taken from it
          todo,                   \* per stream: the sends its goroutine still has to do
          subs, count,            \* per stream: subscribers, subscriberCount
          pc, my,                 \* per client: the request, and its stream
          last, from,             \* per client: Last-Event-ID; events before it registered
          conn, shut, got,        \* per client: its channel; those closed; events read
          gone, closer,           \* requests whose context is done; the closing goroutines
          pub, sent               \* the publisher; events published

managerVars == <<current, quit>>
loopVars    == <<loop, queue, past, todo, subs, count>>
clientVars  == <<pc, my, last, from, conn, shut, got, gone, closer>>
pubVars     == <<pub, sent>>
vars        == <<modes, managerVars, loopVars, clientVars, pubVars>>

\* autoStream and autoReplay are the server's options. "ends": events without
\* data and comment, which end the request that reads them, are published too.
AllModes == {"autoStream", "autoReplay", "ends"}

\* EventLog.Add keeps an event with an ID, data, a name or a retry.
Logged(kind) == kind \in {"data", "named"}

\* ServeHTTP leaves its loop at an event with neither data nor comment.
Ends(kind) == kind \in {"named", "empty"}

Idle == [at |-> 0, kind |-> "none", how |-> "none"]

Init ==
  /\ modes \in SUBSET AllModes
  /\ current \in {0, 1}          \* CreateStream may have been called before Start
  /\ loop = [i \in Streams |-> IF i = current THEN "run" ELSE "none"]
  /\ quit = {}
  /\ queue = [i \in Streams |-> << >>] /\ past = [i \in Streams |-> << >>]
  /\ todo = [i \in Streams |-> << >>]
  /\ subs = [i \in Streams |-> << >>] /\ count = [i \in Streams |-> 0]
  /\ pc = [c \in Clients |-> "idle"] /\ my = [c \in Clients |-> 0]
  /\ last \in [Clients -> LastIDs] /\ from = [c \in Clients |-> 0]
  /\ conn = [c \in Clients |-> << >>] /\ shut = {} /\ got = [c \in Clients |-> << >>]
  /\ gone = {} /\ closer = [c \in Clients |-> "none"]
  /\ pub = Idle /\ sent = 0

\* The mutex of the StreamManager, which Notify holds while it sends.
Unlocked == pub.how # "notify"

Moves(c, place) == pc' = [pc EXCEPT ![c] = place]

------------------------------------------------------------------------------
(* The request. *)

\* ServeHTTP looks the stream up.
Look(c) ==
  /\ pc[c] = "idle" /\ Unlocked
  /\ \/ current # 0 /\ Moves(c, "found") /\ my' = [my EXCEPT ![c] = current]
     \/ /\ current = 0 /\ UNCHANGED my
        /\ Moves(c, IF "autoStream" \in modes THEN "create" ELSE "done")
  /\ UNCHANGED <<modes, managerVars, loopVars, last, from, conn, shut, got, gone, closer, pubVars>>

\* CreateStream: looks again, and starts a stream if there is none.
Create(c) ==
  /\ pc[c] = "create" /\ Unlocked
  /\ \/ /\ current # 0 /\ Moves(c, "found") /\ my' = [my EXCEPT ![c] = current]
        /\ UNCHANGED loop
     \/ \E i \in Streams :
          /\ current = 0 /\ loop[i] = "none" /\ \A j \in Streams : j < i => loop[j] # "none"
          /\ Moves(c, "add") /\ my' = [my EXCEPT ![c] = i]
          /\ loop' = [loop EXCEPT ![i] = "run"]
  /\ UNCHANGED <<modes, managerVars, queue, past, todo, subs, count,
                 last, from, conn, shut, got, gone, closer, pubVars>>

\* StreamManager.Add: Exist; the stream that exists stays, the new one is used.
Exist(c) ==
  /\ pc[c] = "add" /\ Unlocked
  /\ Moves(c, IF current # 0 THEN "found" ELSE "store")
  /\ UNCHANGED <<modes, managerVars, loopVars, my, last, from, conn, shut, got, gone, closer, pubVars>>

\* StreamManager.Add: the store, under the lock again.
Store(c) ==
  /\ pc[c] = "store" /\ Unlocked
  /\ Moves(c, "found") /\ current' = my[c]
  /\ UNCHANGED <<modes, quit, loopVars, my, last, from, conn, shut, got, gone, closer, pubVars>>

\* addSubscriber: the count, before the send on register.
AddSubscriber(c) ==
  /\ pc[c] = "found" /\ Moves(c, "register")
  /\ count' = [count EXCEPT ![my[c]] = @ + 1]
  /\ UNCHANGED <<modes, managerVars, loop, queue, past, todo, subs,
                 my, last, from, conn, shut, got, gone, closer, pubVars>>

\* Faulty variant: the request stops reading once its context is done.
Take_StopsWhenGone(c) ==
  /\ pc[c] = "serving" /\ conn[c] # << >>
  /\ IF c \in gone THEN Moves(c, "done") /\ UNCHANGED <<got, conn>>
     ELSE /\ got' = [got EXCEPT ![c] = Append(@, Head(conn[c]))]
          /\ conn' = [conn EXCEPT ![c] = Tail(@)]
          /\ UNCHANGED pc
  /\ UNCHANGED <<modes, managerVars, loopVars, my, last, from, shut, gone, closer, pubVars>>

\* The request reads an event, and writes it unless it is older than eventTTL: what
\* it got off its channel is what counts here.  The write waits for the client to
\* read.  When the request returns, net/http ends its context.
Take(c) ==
  /\ pc[c] = "serving" /\ conn[c] # << >>
  /\ got' = [got EXCEPT ![c] = Append(@, Head(conn[c]))]
  /\ conn' = [conn EXCEPT ![c] = Tail(@)]
  /\ IF Ends(past[my[c]][Head(conn[c])])
     THEN Moves(c, "done") /\ gone' = gone \union {c}
     ELSE UNCHANGED <<pc, gone>>
  /\ UNCHANGED <<modes, managerVars, loopVars, my, last, from, shut, closer, pubVars>>

\* The connection channel is closed and empty.
Drained(c) ==
  /\ pc[c] = "serving" /\ conn[c] = << >> /\ c \in shut
  /\ Moves(c, "done") /\ gone' = gone \union {c}
  /\ UNCHANGED <<modes, managerVars, loopVars, my, last, from, conn, shut, got, closer, pubVars>>

\* The client goes away: the context of its request is done.
Leave(c) ==
  /\ pc[c] \notin {"idle", "done"} /\ c \notin gone /\ gone' = gone \union {c}
  /\ UNCHANGED <<modes, managerVars, loopVars, pc, my, last, from, conn, shut, got, closer, pubVars>>

------------------------------------------------------------------------------
(* The goroutine of a stream: it selects again when its sends are done. *)

Selecting(i) == loop[i] = "run" /\ todo[i] = << >>

\* EventLog.Replay: the positions kept, from the client's last one on.
Replayed(i, id) ==
  IF "autoReplay" \in modes
  THEN SelectSeq([p \in 1 .. Len(past[i]) |-> p], LAMBDA p : Logged(past[i][p]) /\ p >= id)
  ELSE << >>

SendsTo(c, positions) == [k \in 1 .. Len(positions) |-> <<c, positions[k]>>]

Register(i, c) ==
  /\ Selecting(i) /\ pc[c] = "register" /\ my[c] = i
  /\ subs' = [subs EXCEPT ![i] = Append(@, c)]
  /\ todo' = [todo EXCEPT ![i] = SendsTo(c, Replayed(i, last[c]))]
  /\ Moves(c, "serving") /\ closer' = [closer EXCEPT ![c] = "waiting"]
  /\ from' = [from EXCEPT ![c] = Len(past[i])]
  /\ UNCHANGED <<modes, managerVars, loop, queue, past, count, my, last, conn, shut, got, gone, pubVars>>

\* An event is logged and is to be sent to every subscriber.
Dispatch(i) ==
  /\ Selecting(i) /\ queue[i] # << >>
  /\ queue' = [queue EXCEPT ![i] = Tail(@)]
  /\ past' = [past EXCEPT ![i] = Append(@, Head(queue[i]))]
  /\ todo' = [todo EXCEPT ![i] = [k \in 1 .. Len(subs[i]) |-> <<subs[i][k], Len(past[i]) + 1>>]]
  /\ UNCHANGED <<modes, managerVars, loop, subs, count, clientVars, pubVars>>

\* Faulty variant: a client whose channel is full misses the event.
Deliver_Drops(i) ==
  /\ todo[i] # << >>
  /\ LET c == Head(todo[i])[1]
     IN  conn' = [conn EXCEPT ![c] = IF Len(@) < ConnBuf THEN Append(@, Head(todo[i])[2]) ELSE @]
  /\ todo' = [todo EXCEPT ![i] = Tail(@)]
  /\ UNCHANGED <<modes, managerVars, loop, queue, past, subs, count,
                 pc, my, last, from, shut, got, gone, closer, pubVars>>

\* Faulty variant: the channel has no limit.
Deliver_NoLimit(i) ==
  /\ todo[i] # << >>
  /\ LET c == Head(todo[i])[1] IN conn' = [conn EXCEPT ![c] = Append(@, Head(todo[i])[2])]
  /\ todo' = [todo EXCEPT ![i] = Tail(@)]
  /\ UNCHANGED <<modes, managerVars, loop, queue, past, subs, count,
                 pc, my, last, from, shut, got, gone, closer, pubVars>>

\* connection <- event, which waits while the channel is full.
Deliver(i) ==
  /\ todo[i] # << >>
  /\ LET c == Head(todo[i])[1]
     IN  Len(conn[c]) < ConnBuf /\ conn' = [conn EXCEPT ![c] = Append(@, Head(todo[i])[2])]
  /\ todo' = [todo EXCEPT ![i] = Tail(@)]
  /\ UNCHANGED <<modes, managerVars, loop, queue, past, subs, count,
                 pc, my, last, from, shut, got, gone, closer, pubVars>>

\* What the closing goroutine does once its subscriber is removed.
AfterRemoval == IF "autoStream" \in modes /\ "autoReplay" \notin modes THEN "counting" ELSE "end"

\* removeSubscriber; the removed channel has room, so the goroutine goes on.
Deregister(i, c) ==
  /\ Selecting(i) /\ closer[c] = "closing" /\ my[c] = i
  /\ subs' = [subs EXCEPT ![i] = Remove(@, c)] /\ shut' = shut \union {c}
  /\ count' = [count EXCEPT ![i] = @ - 1]
  /\ closer' = [closer EXCEPT ![c] = AfterRemoval]
  /\ UNCHANGED <<modes, managerVars, loop, queue, past, todo,
                 pc, my, last, from, conn, got, gone, pubVars>>

\* removeAllSubscribers, and the goroutine ends.
Quit(i) ==
  /\ Selecting(i) /\ i \in quit
  /\ loop' = [loop EXCEPT ![i] = "dead"]
  /\ shut' = shut \union Range(subs[i])
  /\ subs' = [subs EXCEPT ![i] = << >>] /\ count' = [count EXCEPT ![i] = 0]
  /\ UNCHANGED <<modes, managerVars, queue, past, todo,
                 pc, my, last, from, conn, got, gone, closer, pubVars>>

------------------------------------------------------------------------------
(* The closing goroutine of a request, and the StreamManager. *)

\* The request is over: sub.close() sends on the stream's deregister channel.
Closing(c) ==
  /\ closer[c] = "waiting" /\ c \in gone
  /\ closer' = [closer EXCEPT ![c] = "closing"]
  /\ UNCHANGED <<modes, managerVars, loopVars, pc, my, last, from, conn, shut, got, gone, pubVars>>

\* Faulty variant: the client still counts itself.
Counts_Itself(c) ==
  /\ closer[c] = "counting"
  /\ closer' = [closer EXCEPT ![c] = IF count[my[c]] = 1 THEN "removing" ELSE "end"]
  /\ UNCHANGED <<modes, managerVars, loopVars, pc, my, last, from, conn, shut, got, gone, pubVars>>

\* getSubscriberCount() == 0
Counts(c) ==
  /\ closer[c] = "counting"
  /\ closer' = [closer EXCEPT ![c] = IF count[my[c]] = 0 THEN "removing" ELSE "end"]
  /\ UNCHANGED <<modes, managerVars, loopVars, pc, my, last, from, conn, shut, got, gone, pubVars>>

\* RemoveWithID closes whatever stream has the ID by now.
CloseCurrent == /\ quit' = IF current = 0 THEN quit ELSE quit \union {current}
                /\ current' = 0

Removes(c) ==
  /\ closer[c] = "removing" /\ Unlocked /\ CloseCurrent
  /\ closer' = [closer EXCEPT ![c] = "end"]
  /\ UNCHANGED <<modes, loopVars, pc, my, last, from, conn, shut, got, gone, pubVars>>

\* RemoveStream, and the Clean of Stop and of Start's end.
RemoveStream ==
  /\ current # 0 /\ Unlocked /\ CloseCurrent
  /\ UNCHANGED <<modes, loopVars, clientVars, pubVars>>

------------------------------------------------------------------------------
(* A publisher. *)

\* Publish, TryPublish and Notify look the stream up.
Publish(kind, how) ==
  /\ pub = Idle /\ current # 0 /\ sent < MaxEvents
  /\ Ends(kind) => "ends" \in modes
  /\ pub' = [at |-> current, kind |-> kind, how |-> how] /\ sent' = sent + 1
  /\ UNCHANGED <<modes, managerVars, loopVars, clientVars>>

\* stream.event <- event
PublishSends ==
  /\ pub # Idle /\ Len(queue[pub.at]) < EventBuf
  /\ queue' = [queue EXCEPT ![pub.at] = Append(@, pub.kind)]
  /\ pub' = Idle
  /\ UNCHANGED <<modes, managerVars, loop, past, todo, subs, count, clientVars, sent>>

\* Faulty variant: nothing but room in the channel ends the wait.
PublishGivesUp_Never ==
  /\ pub # Idle /\ pub.how = "try" /\ Len(queue[pub.at]) = EventBuf
  /\ pub' = Idle /\ UNCHANGED <<modes, managerVars, loopVars, clientVars, sent>>

\* <-stream.quit, or the default of TryPublish
PublishGivesUp ==
  /\ pub # Idle
  /\ IF pub.how = "try" THEN Len(queue[pub.at]) = EventBuf ELSE pub.at \in quit
  /\ pub' = Idle /\ UNCHANGED <<modes, managerVars, loopVars, clientVars, sent>>

------------------------------------------------------------------------------
ManagerStep(c) == Look(c) \/ Create(c) \/ Exist(c) \/ Store(c) \/ Removes(c)

LocalStep(c) == AddSubscriber(c) \/ Drained(c) \/ Closing(c) \/ Counts(c)

\* A write to a client ends: the client reads, or has gone and the write fails.
Reads(c) == c \notin Stalls \/ c \in gone

LoopStep(i) == \/ Dispatch(i) \/ Deliver(i) \/ Quit(i)
               \/ \E c \in Clients : Register(i, c) \/ Deregister(i, c)

PubStep == PublishSends \/ PublishGivesUp

Next == \/ RemoveStream \/ PubStep
        \/ \E c \in Clients : ManagerStep(c) \/ LocalStep(c) \/ Take(c) \/ Leave(c)
        \/ \E i \in Streams : LoopStep(i)
        \/ \E kind \in EventKinds, how \in {"wait", "try", "notify"} : Publish(kind, how)

\* Every goroutine that can take a step takes one.  The server has no write timeout,
\* so a request that writes to a client of Stalls may wait as long as it is connected.
Fairness == /\ WF_vars(PubStep)
            /\ \A c \in Clients : /\ WF_vars(ManagerStep(c) /\ pc[c] # "idle")
                                  /\ WF_vars(LocalStep(c)) /\ WF_vars(Take(c) /\ Reads(c))
            /\ \A i \in Streams : WF_vars(LoopStep(i))

Spec == Init /\ [][Next]_vars /\ Fairness

------------------------------------------------------------------------------
(* Properties. *)

Places  == {"idle", "create", "add", "store", "found", "register", "serving", "done"}
Closers == {"none", "waiting", "closing", "counting", "removing", "end"}

\* The type of the state; no channel holds more than its capacity.
TypeOK ==
  /\ modes \subseteq AllModes /\ current \in Streams \union {0} /\ quit \subseteq Streams
  /\ loop \in [Streams -> {"none", "run", "dead"}]
  /\ \A i \in Streams : /\ queue[i] \in Seq(EventKinds) /\ Len(queue[i]) <= EventBuf
                        /\ past[i] \in Seq(EventKinds)
                        /\ todo[i] \in Seq(Clients \X Nat) /\ subs[i] \in Seq(Clients)
  /\ count \in [Streams -> Int]
  /\ pc \in [Clients -> Places] /\ my \in [Clients -> Streams \union {0}]
  /\ last \in [Clients -> LastIDs] /\ from \in [Clients -> Nat]
  /\ \A c \in Clients : /\ conn[c] \in Seq(Nat) /\ Len(conn[c]) <= ConnBuf
                        /\ got[c] \in Seq(Nat)
  /\ shut \subseteq Clients /\ gone \subseteq Clients /\ closer \in [Clients -> Closers]
  /\ pub \in [at : Streams \union {0}, kind : EventKinds \union {"none"},
              how : {"none", "wait", "try", "notify"}]
  /\ sent \in 0 .. MaxEvents

\* What a client is due: the replay of the log at the time it registered, then
\* every event since.
Due(c) ==
  LET i == my[c]
  IN  SelectSeq(Replayed(i, last[c]), LAMBDA p : p <= from[c])
        \o [k \in 1 .. Len(past[i]) - from[c] |-> from[c] + k]

\* What it was sent, read or not, and what its stream is about to send it.
Sent(c) ==
  got[c] \o conn[c]
    \o LET mine == SelectSeq(todo[my[c]], LAMBDA s : s[1] = c)
       IN  [k \in 1 .. Len(mine) |-> mine[k][2]]

\* On the way to the request, between the replay and the live events nothing is lost, doubled or reordered,
\* however slow a client is and however its registration falls between events: a
\* subscriber has all it is due, and one that was removed a beginning of it.
NoGaps ==
  \A c \in Clients : pc[c] = "serving" \/ closer[c] # "none" =>
    IF c \in Range(subs[my[c]]) THEN Sent(c) = Due(c) ELSE IsPrefix(Sent(c), Due(c))

\* With autoStream and without autoReplay, the last client to leave removes the
\* stream: one that clients have left has a client that is not done with it yet.
LastOneRemoves ==
  "autoStream" \in modes /\ "autoReplay" \notin modes /\ current # 0 =>
    ((\E c \in Clients : my[c] = current /\ closer[c] = "end")
       => \E c \in Clients : my[c] = current /\ closer[c] # "end")

\* The goroutine of a stream waits for room in the channel of a client that is
\* connected and does not read.
HeldUp == \E i \in Streams : /\ todo[i] # << >>
                             /\ LET c == Head(todo[i])[1]
                                IN  ~Reads(c) /\ Len(conn[c]) = ConnBuf

\* A client that goes away is taken off a stream that is not closed, unless another
\* client that stays and does not read holds a stream up, or an event without
\* content made some request stop reading before.
GoneIsRemoved ==
  \A c \in Clients :
    (c \in gone /\ closer[c] # "none" /\ "ends" \notin modes)
      ~> (my[c] \in quit \/ closer[c] = "end" \/ HeldUp)

\* Publish and Notify return, whatever clients come and go and whoever removes the
\* stream, with the same provisos.
PublishReturns == (pub # Idle /\ "ends" \notin modes) ~> (pub = Idle \/ HeldUp)
==============================================================================
