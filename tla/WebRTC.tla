------------------------------- MODULE WebRTC -------------------------------
(***************************************************************************)
(* transport/webrtc.  First SFURouter and MediaTrack, which forward the    *)
(* media tracks of one session to others: a track is <<owner, id>>; ids are *)
(* the client's, so two owners may use the same; every operation but       *)
(* Subscribe holds its mutex for writing.  Then the sessions of the server, *)
(* and last the client (Client...).                                        *)
(***************************************************************************)
EXTENDS Integers, Sequences

CONSTANTS Sessions, TrackIDs

VARIABLES tracks,           \* tracks in the router
          closed,           \* tracks that are closed
          subscribers,      \* track -> sessions its packets are written to
          subscriptions,    \* session -> track ids recorded by Subscribe
          recording,        \* sessions whose Subscribe is writing subscriptions
          torn              \* two of them wrote the map at once: the runtime aborts

sfuVars == <<tracks, closed, subscribers, subscriptions, recording, torn>>

Tracks == Sessions \X TrackIDs
TracksOf(p) == {t \in tracks : t[1] = p}

\* NewSFURouter.
SfuInit ==
  /\ tracks = {} /\ closed = {} /\ subscribers = [t \in Tracks |-> {}]
  /\ subscriptions = [s \in Sessions |-> {}] /\ recording = {} /\ torn = FALSE

\* MediaTrack.Close drops the subscribers.
Close(T) == /\ closed' = closed \union T
            /\ subscribers' = [t \in Tracks |-> IF t \in T THEN {} ELSE subscribers[t]]

\* AddTrack, with Start of the goroutine that forwards.
AddTrack(t) ==
  /\ t \notin tracks /\ t \notin closed /\ tracks' = tracks \union {t}
  /\ UNCHANGED <<closed, subscribers, subscriptions, recording, torn>>

RemoveTrack(t) ==
  /\ t \in tracks /\ tracks' = tracks \ {t} /\ Close({t})
  /\ subscriptions' = [s \in Sessions |-> subscriptions[s] \ {t[2]}]
  /\ UNCHANGED <<recording, torn>>

\* Faulty variant: the tracks leave the router without being closed.
RemoveSessionTracks_LeavesOpen(p) ==
  /\ tracks' = tracks \ TracksOf(p) /\ UNCHANGED <<closed, subscribers>>
  /\ subscriptions' = [subscriptions EXCEPT ![p] = {}]
  /\ UNCHANGED <<recording, torn>>

RemoveSessionTracks(p) ==
  /\ tracks' = tracks \ TracksOf(p) /\ Close(TracksOf(p))
  /\ subscriptions' = [subscriptions EXCEPT ![p] = {}]
  /\ UNCHANGED <<recording, torn>>

\* Subscribe writes subscriptions under the read lock: two calls may overlap.
SubscribeBegin(s) ==
  /\ s \notin recording /\ recording' = recording \union {s}
  /\ UNCHANGED <<tracks, closed, subscribers, subscriptions, torn>>
SubscribeEnd(s, p) ==
  /\ s \in recording /\ recording' = recording \ {s}
  /\ subscriptions' = [subscriptions EXCEPT ![s] = @ \union {t[2] : t \in TracksOf(p)}]
  /\ torn' \in {torn, torn \/ (recording' # {} /\ TracksOf(p) # {})}
  /\ UNCHANGED <<tracks, closed, subscribers>>

\* Unsubscribe: of the ids recorded for s, those p has a track for.
Unsubscribe(s, p) ==
  LET mine == {t \in TracksOf(p) : t[2] \in subscriptions[s]}
  IN /\ subscriptions' = [subscriptions EXCEPT ![s] = @ \ {t[2] : t \in mine}]
     /\ subscribers' = [t \in Tracks |-> IF t \in mine THEN subscribers[t] \ {s}
                                         ELSE subscribers[t]]
     /\ UNCHANGED <<tracks, closed, recording, torn>>

\* Faulty variant: AddSubscriber does not look whether the track is closed.
CreateLocalTrackForSubscriber_Closed(s, t) ==
  /\ subscribers' = [subscribers EXCEPT ![t] = @ \union {s}]
  /\ UNCHANGED <<tracks, closed, subscriptions, recording, torn>>

\* CreateLocalTrackForSubscriber: the local track, then AddSubscriber, which a track
\* closed meanwhile ignores.
CreateLocalTrackForSubscriber(s, t) ==
  /\ subscribers' = [subscribers EXCEPT ![t] = IF t \in closed THEN @ ELSE @ \union {s}]
  /\ UNCHANGED <<tracks, closed, subscriptions, recording, torn>>

\* forwardRTP: a read error closes the track; it stays in the router.
ForwardEnds(t) ==
  /\ t \in tracks \ closed /\ Close({t})
  /\ UNCHANGED <<tracks, subscriptions, recording, torn>>

SfuNext ==
  \/ \E t \in Tracks : \/ AddTrack(t) \/ RemoveTrack(t) \/ ForwardEnds(t)
                       \/ t \in tracks \union closed
                          /\ \E s \in Sessions : CreateLocalTrackForSubscriber(s, t)
  \/ \E s \in Sessions : \/ RemoveSessionTracks(s) \/ SubscribeBegin(s)
                         \/ \E p \in Sessions : SubscribeEnd(s, p) \/ Unsubscribe(s, p)

SfuSpec == SfuInit /\ [][SfuNext]_sfuVars

------------------------------------------------------------------------------
\* The type of the state.
SfuTypeOK ==
  /\ tracks \subseteq Tracks /\ closed \subseteq Tracks /\ torn \in BOOLEAN
  /\ subscribers \in [Tracks -> SUBSET Sessions] /\ recording \subseteq Sessions
  /\ subscriptions \in [Sessions -> SUBSET TrackIDs]

\* A closed track, and one that left the router, feeds nobody, whatever order
\* subscribers and the end of the track come in.
ClosedFeedsNobody == \A t \in Tracks : t \in closed \/ t \notin tracks => subscribers[t] = {}

(***************************************************************************)
(* transport/webrtc/server.go, session.go, session_manager.go: a session   *)
(* from the signalling request to its end, with the tracks it publishes    *)
(* above.                                                                  *)
(*                                                                         *)
(* The callbacks of the peer connection (data channel open, track, state)  *)
(* run in goroutines of the library, the write pump and the HTTP handlers  *)
(* in others; only closeOnce, openOnce, listenOnce and the concurrent map  *)
(* order them.  pion and the network are external.                         *)
(***************************************************************************)
CONSTANTS QueueCap,         \* bound: room of a session's send channel
          Steady            \* sessions whose data channel is open from the start

VARIABLES signal,           \* session -> "none", "offer", "answered": signalHandler
          opening,          \* session -> "no", "add", "tell", "listen", "end": OnOpen
          done,             \* sessions whose done channel is closed
          closing,          \* session -> "no", "conn", "tracks", "end": Close
          managed,          \* sessions in the session manager
          connected,        \* session -> times socketConnectHandler was told of it
          disconnected,     \* session -> times it was told of its end
          pump,             \* session -> "none", "run", "end"
          queue,            \* session -> messages in send
          cast,             \* sessions a broadcast has left
          joining,          \* SubscribeToPublisher: <<subscriber, tracks left, whether it is
                            \* in sendRenegotiation>> or <<>>
          stop, stopLeft,   \* Server.Stop: "no", "close", "wait", "end"; sessions it has left
          stray             \* history: sessions that were added, or published, outside of
                            \* what Close takes away

webrtcVars == <<sfuVars, signal, opening, done, closing, managed, connected, disconnected,
                pump, queue, cast, joining, stop, stopLeft, stray>>
sessionVars == <<signal, opening, done, closing, managed, connected, disconnected, pump,
                 queue>>

\* NewServer, NewSessionManager; the steady sessions have been through signalHandler.
Init ==
  /\ SfuInit
  /\ signal = [s \in Sessions |-> IF s \in Steady THEN "answered" ELSE "none"]
  /\ opening = [s \in Sessions |-> IF s \in Steady THEN "end" ELSE "no"]
  /\ pump = [s \in Sessions |-> IF s \in Steady THEN "run" ELSE "none"]
  /\ connected = [s \in Sessions |-> IF s \in Steady THEN 1 ELSE 0] /\ managed = Steady
  /\ disconnected = [s \in Sessions |-> 0] /\ queue = [s \in Sessions |-> 0]
  /\ done = {} /\ closing = [s \in Sessions |-> "no"]
  /\ cast = {} /\ joining = <<>> /\ stop = "no" /\ stopLeft = {} /\ stray = {}

At(f, s, v) == f' = [f EXCEPT ![s] = v]

\* signalHandler: NewPeerConnection, NewSession and the callbacks, ...
Offer(s) ==
  /\ signal[s] = "none" /\ stop = "no" /\ At(signal, s, "offer")
  /\ UNCHANGED <<opening, done, closing, managed, connected, disconnected, pump, queue, cast,
                 joining, stop, stopLeft, stray>> /\ UNCHANGED sfuVars

\* Session.Close, the winner of closeOnce: close(done).
Dead(s) == s \in done
BeginClose(s) == /\ done' = done \union {s}
                 /\ At(closing, s, IF Dead(s) THEN closing[s] ELSE "conn")

\* ... then the answer; an error closes the session.
Answer(s) ==
  /\ signal[s] = "offer" /\ At(signal, s, "answered")
  /\ \/ UNCHANGED <<done, closing>>
     \/ BeginClose(s)
  /\ UNCHANGED <<opening, managed, connected, disconnected, pump, queue, cast, joining, stop,
                 stopLeft, stray>> /\ UNCHANGED sfuVars

\* OnDataChannel, BindDataChannel: the data channel of the session opens (openOnce);
\* the callback may run late, when the session is closed.  A channel with another
\* label is closed and never opens.
ChannelOpens(s) ==
  /\ signal[s] # "none" /\ opening[s] = "no"
  /\ At(opening, s, "add")
  /\ UNCHANGED <<signal, done, closing, managed, connected, disconnected, pump, queue, cast,
                 joining, stop, stopLeft, stray>> /\ UNCHANGED sfuVars

\* addSession: into the map, ...
addSession(s) ==
  /\ opening[s] = "add" /\ At(opening, s, "tell") /\ managed' = managed \union {s}
  /\ stray' = (IF closing[s] \in {"tracks", "end"} THEN stray \union {s} ELSE stray)
  /\ UNCHANGED <<signal, done, closing, connected, disconnected, pump, queue, cast, joining,
                 stop, stopLeft>> /\ UNCHANGED sfuVars
\* ... the observer, ...
OnSessionAdded(s) ==
  /\ opening[s] = "tell" /\ At(opening, s, "listen") /\ At(connected, s, connected[s] + 1)
  /\ UNCHANGED <<signal, done, closing, managed, disconnected, pump, queue, cast, joining,
                 stop, stopLeft, stray>> /\ UNCHANGED sfuVars
\* ... and the write pump (listenOnce).
Listen(s) ==
  /\ opening[s] = "listen" /\ At(opening, s, "end") /\ At(pump, s, "run")
  /\ UNCHANGED <<signal, done, closing, managed, connected, disconnected, queue, cast, joining,
                 stop, stopLeft, stray>> /\ UNCHANGED sfuVars

\* OnTrack: into the router, then broadcastTrackAvailable to the sessions of now.
OnTrack(s, i) ==
  /\ signal[s] # "none" /\ cast = {}
  /\ AddTrack(<<s, i>>) /\ cast' = managed \ {s}
  /\ stray' = (IF s \notin managed THEN stray \union {s} ELSE stray)
  /\ UNCHANGED <<joining, stop, stopLeft>> /\ UNCHANGED sessionVars

\* The peer goes away: OnClose, OnError, OnConnectionStateChange.
PeerEnds(s) ==
  /\ signal[s] # "none" /\ ~Dead(s) /\ BeginClose(s)
  /\ UNCHANGED <<signal, opening, managed, connected, disconnected, pump, queue, cast, joining,
                 stop, stopLeft, stray>> /\ UNCHANGED sfuVars

\* Faulty variant: the observer is told although the session was not in the map.
removeSession_Always(s) ==
  /\ closing[s] = "conn" /\ managed' = managed \ {s} /\ At(closing, s, "tracks")
  /\ UNCHANGED <<signal, opening, done, connected, disconnected, pump, queue, cast, joining,
                 stop, stopLeft, stray>> /\ UNCHANGED sfuVars
\* The rest of Close: closeConnection closes the channel and the peer connection,
\* removeSession takes the session out of the map; only one that was in it goes on.
removeSession(s) ==
  /\ closing[s] = "conn" /\ managed' = managed \ {s}
  /\ At(closing, s, IF s \in managed THEN "tracks" ELSE "end")
  /\ UNCHANGED <<signal, opening, done, connected, disconnected, pump, queue, cast, joining,
                 stop, stopLeft, stray>> /\ UNCHANGED sfuVars
\* OnSessionRemoved: the handler is told and the tracks leave the router.
OnSessionRemoved(s) ==
  /\ closing[s] = "tracks" /\ At(closing, s, "end")
  /\ At(disconnected, s, disconnected[s] + 1) /\ RemoveSessionTracks(s)
  /\ UNCHANGED <<signal, opening, done, managed, connected, pump, queue, cast, joining, stop,
                 stopLeft, stray>>

------------------------------------------------------------------------------
\* Faulty variant: SendMessage only waits for room.
CastOne_NoDone(s) ==
  /\ s \in cast /\ queue[s] < QueueCap /\ cast' = cast \ {s} /\ At(queue, s, queue[s] + 1)
  /\ UNCHANGED <<signal, opening, done, closing, managed, connected, disconnected, pump,
                 joining, stop, stopLeft, stray>> /\ UNCHANGED sfuVars

\* Broadcast and broadcastTrackAvailable, one session at a time; SendMessage waits for
\* room or for done.
CastOne(s) ==
  /\ s \in cast /\ cast' = cast \ {s}
  /\ \/ queue[s] < QueueCap /\ At(queue, s, queue[s] + 1)
     \/ Dead(s) /\ UNCHANGED queue
  /\ UNCHANGED <<signal, opening, done, closing, managed, connected, disconnected, pump,
                 joining, stop, stopLeft, stray>> /\ UNCHANGED sfuVars
Broadcast ==
  /\ cast = {} /\ managed # {} /\ cast' = managed
  /\ UNCHANGED <<joining, stop, stopLeft, stray>> /\ UNCHANGED sessionVars
  /\ UNCHANGED sfuVars

\* writePump: done, or a message; no data channel or a failed send ends it, and its
\* end closes the session.
writePump(s) ==
  /\ pump[s] = "run"
  /\ \/ queue[s] > 0 /\ At(queue, s, queue[s] - 1) /\ closing[s] \in {"no", "conn"}
        /\ UNCHANGED <<pump, done, closing>>
     \/ queue[s] > 0 /\ At(queue, s, queue[s] - 1) /\ At(pump, s, "end") /\ BeginClose(s)
     \/ Dead(s) /\ At(pump, s, "end") /\ UNCHANGED <<queue, done, closing>>
  /\ UNCHANGED <<signal, opening, managed, connected, disconnected, cast, joining, stop,
                 stopLeft, stray>> /\ UNCHANGED sfuVars

\* SubscribeToPublisher: the tracks of p as they are now, ...
SubscribeToPublisher(s, p) ==
  /\ joining = <<>> /\ s \in managed /\ closing[s] \in {"no", "conn"} /\ TracksOf(p) # {}
  /\ joining' = <<s, TracksOf(p), FALSE>>
  /\ UNCHANGED <<cast, stop, stopLeft, stray>> /\ UNCHANGED sessionVars /\ UNCHANGED sfuVars
\* ... one by one: a local track and its registration, unless AddTrack fails on a
\* closed peer connection, ...
JoinsLeft(T) == IF T = {} THEN <<>> ELSE <<joining[1], T, FALSE>>
JoinOne ==
  /\ joining # <<>> /\ ~joining[3]
  /\ \E t \in joining[2] :
       \/ /\ CreateLocalTrackForSubscriber(joining[1], t)
          /\ joining' = <<joining[1], joining[2] \ {t}, TRUE>>
       \/ /\ Dead(joining[1]) /\ UNCHANGED sfuVars
          /\ joining' = JoinsLeft(joining[2] \ {t})
  /\ UNCHANGED <<cast, stop, stopLeft, stray>> /\ UNCHANGED sessionVars
\* ... and an answer for the subscriber, which may not come about; SendMessage waits.
sendRenegotiation ==
  /\ joining # <<>> /\ joining[3] /\ joining' = JoinsLeft(joining[2])
  /\ \/ queue[joining[1]] < QueueCap /\ At(queue, joining[1], queue[joining[1]] + 1)
     \/ UNCHANGED queue
  /\ UNCHANGED <<signal, opening, done, closing, managed, connected, disconnected, pump, cast,
                 stop, stopLeft, stray>> /\ UNCHANGED sfuVars
UnsubscribeFromPublisher(s, p) ==
  /\ Unsubscribe(s, p)
  /\ UNCHANGED <<cast, joining, stop, stopLeft, stray>> /\ UNCHANGED sessionVars

\* Stop: Shutdown of the HTTP server, which gives up on its handlers when the context
\* ends, then closeAllAndWait closes the sessions of the map, and waits for the pumps of
\* the sessions that are in the map by then.
Stop ==
  /\ stop = "no" /\ stop' = "close" /\ stopLeft' = managed
  /\ UNCHANGED <<cast, joining, stray>> /\ UNCHANGED sessionVars /\ UNCHANGED sfuVars
\* Close of a session returns when its end is dealt with, whoever closed it.
StopCloses ==
  /\ stop = "close"
  /\ \/ \E s \in stopLeft : ~Dead(s) /\ BeginClose(s) /\ UNCHANGED <<stop, stopLeft>>
     \/ \E s \in stopLeft : /\ closing[s] = "end" /\ stopLeft' = stopLeft \ {s}
                            /\ UNCHANGED <<stop, done, closing>>
     \/ /\ stopLeft = {} /\ stop' = "wait" /\ stopLeft' = managed
        /\ UNCHANGED <<done, closing>>
  /\ UNCHANGED <<signal, opening, managed, connected, disconnected, pump, queue, cast, joining,
                 stray>> /\ UNCHANGED sfuVars
StopWaits ==
  /\ stop = "wait" /\ \A s \in stopLeft : pump[s] # "run"
  /\ stop' = "end" /\ stopLeft' = {}
  /\ UNCHANGED <<cast, joining, stray>> /\ UNCHANGED sessionVars /\ UNCHANGED sfuVars

Callback(s) == \/ addSession(s) \/ OnSessionAdded(s) \/ Listen(s)
               \/ removeSession(s) \/ OnSessionRemoved(s)
Each(A(_)) == \E s \in Sessions : A(s)
Next ==
  \/ Each(Offer) \/ Each(Answer) \/ Each(ChannelOpens) \/ Each(PeerEnds) \/ Each(Callback)
  \/ Each(CastOne) \/ Each(writePump) \/ Broadcast \/ JoinOne
  \/ sendRenegotiation
  \/ \E s \in Sessions, i \in TrackIDs : OnTrack(s, i)
  \/ \E s, p \in Sessions : SubscribeToPublisher(s, p) \/ UnsubscribeFromPublisher(s, p)
  \/ \E t \in Tracks : ForwardEnds(t) /\ UNCHANGED <<cast, joining, stop, stopLeft, stray>>
                       /\ UNCHANGED sessionVars
  \/ Stop \/ StopCloses \/ StopWaits

\* Goroutines run: the callbacks, the pumps and the sender.  A channel serves the
\* goroutines that wait to send in turn, so a sender that finds room again and again
\* sends.
Spec == Init /\ [][Next]_webrtcVars
        /\ \A s \in Sessions : WF_webrtcVars(Callback(s)) /\ WF_webrtcVars(writePump(s))
        /\ SF_webrtcVars(Each(CastOne))

------------------------------------------------------------------------------
\* The type of the state.
TypeOK ==
  /\ SfuTypeOK /\ done \subseteq Sessions /\ managed \subseteq Sessions
  /\ \A s \in Sessions : /\ opening[s] \in {"no", "add", "tell", "listen", "end"}
                         /\ closing[s] \in {"no", "conn", "tracks", "end"}
                         /\ queue[s] \in 0..QueueCap

\* The handler hears of a session's start once and of its end once, and of the end
\* only of a session that was in the map.
ToldOnce ==
  \A s \in Sessions : connected[s] <= 1 /\ disconnected[s] <= 1
                      /\ (disconnected[s] = 1 => opening[s] \notin {"no", "add"})

\* A session whose Close has ended is gone: not in the map, and no track of it is in
\* the router, unless it was added after the Close or published before it was added.
ClosedIsGone ==
  \A s \in Sessions : closing[s] = "end" /\ s \notin stray =>
                        s \notin managed /\ TracksOf(s) = {}

\* A broadcast, and the track announcement of a publisher, ends: a session that is
\* slow or closed holds it up only for a while.
BroadcastEnds == (cast # {}) ~> (cast = {})

\* The write pump of a closed session ends.
PumpEnds == \A s \in Sessions : (Dead(s) /\ pump[s] = "run") ~> (pump[s] = "end")

\* server.go, "UnsubscribeFromPublisher: cancel the subscription": after the call the
\* tracks of p are not written to s.
UnsubscribeStops ==
  [][\A s, p \in Sessions : UnsubscribeFromPublisher(s, p) =>
       \A t \in Tracks : t[1] = p => s \notin subscribers'[t]]_webrtcVars

(***************************************************************************)
(* transport/webrtc/client.go: Connect, Disconnect and the callbacks of    *)
(* the peer connections a client makes one after another.  The state       *)
(* callback of a connection calls Disconnect, which closes whatever        *)
(* connection the client holds by then.  Closing a connection lets its     *)
(* state callback run later, in a goroutine of the library (external).     *)
(***************************************************************************)
CONSTANTS MaxConnects       \* bound: calls of Connect

VARIABLES attempt,          \* the connection Connect works on; 0: no call
          step,             \* "idle", "offer", "wait": where Connect is
          made,             \* connections made so far
          live,             \* connections that are not closed
          held,             \* c.pc: 0 for nil
          isOpen,           \* connections whose data channel opened
          callbacks,        \* connections whose state callback is to run
          announced,        \* connections that state change was seen for: it comes once
          returned,         \* connections whose Connect returned nil
          dropped,          \* history: connections closed by the callback of another one
          replaced          \* history: connections overwritten while they were held

clientVars == <<attempt, step, made, live, held, isOpen, callbacks, announced, returned,
                dropped, replaced>>

Conns == 1..MaxConnects

\* NewClient.
ClientInit ==
  /\ attempt = 0 /\ step = "idle" /\ made = 0 /\ live = {} /\ held = 0 /\ isOpen = {}
  /\ callbacks = {} /\ announced = {} /\ returned = {} /\ dropped = {} /\ replaced = {}

\* pc.Close: the connection is gone, its state callback will run (once).
Closes(c) == /\ live' = live \ {c}
             /\ callbacks' = IF c \in live \ announced THEN callbacks \union {c} ELSE callbacks
             /\ announced' = IF c \in live THEN announced \union {c} ELSE announced

\* Disconnect takes c.pc and closes it.
Disconnects == held' = 0 /\ Closes(held)

\* Connect: the peer connection, its callbacks and the offer; it does not ask whether
\* the client holds a connection.
Connect ==
  /\ step = "idle" /\ made < MaxConnects
  /\ made' = made + 1 /\ attempt' = made + 1 /\ step' = "offer" /\ live' = live \union {made + 1}
  /\ UNCHANGED <<held, isOpen, callbacks, announced, returned, dropped, replaced>>

\* sendOffer and the descriptions: an error closes this connection; else it becomes
\* the client's.
sendOffer ==
  /\ step = "offer"
  /\ \/ /\ step' = "idle" /\ attempt' = 0 /\ Closes(attempt)
        /\ UNCHANGED <<held, replaced>>
     \/ /\ step' = "wait" /\ held' = attempt
        /\ replaced' = (IF held = 0 THEN replaced ELSE replaced \union {held})
        /\ UNCHANGED <<attempt, live, callbacks, announced>>
  /\ UNCHANGED <<made, isOpen, returned, dropped>>

\* OnOpen of the data channel; late ones are ignored (openOnce, and nobody waits).
Opens(c) ==
  /\ c \in live \ isOpen /\ (c = attempt => step = "wait") /\ isOpen' = isOpen \union {c}
  /\ UNCHANGED <<attempt, step, made, live, held, callbacks, announced, returned, dropped,
                 replaced>>

\* Connect waits for the data channel or for connectTimeout, which disconnects
\* whatever the client holds.
ConnectReturns ==
  /\ step = "wait" /\ step' = "idle" /\ attempt' = 0
  /\ \/ /\ attempt \in isOpen /\ returned' = returned \union {attempt}
        /\ UNCHANGED <<live, held, callbacks, announced>>
     \/ Disconnects /\ UNCHANGED returned
  /\ UNCHANGED <<made, isOpen, dropped, replaced>>

\* Disconnect, called by the user.
Disconnect ==
  /\ step = "idle" /\ Disconnects
  /\ UNCHANGED <<attempt, step, made, isOpen, returned, dropped, replaced>>

\* The network: a connection fails or is disconnected; it stays open until closed.
Fails(c) ==
  /\ c \in live \ announced /\ callbacks' = callbacks \union {c}
  /\ announced' = announced \union {c}
  /\ UNCHANGED <<attempt, step, made, live, held, isOpen, returned, dropped, replaced>>

\* Faulty variant: the callback closes its own connection only, and forgets c.pc.
StateChange_Own(c) ==
  /\ c \in callbacks /\ live' = live \ {c} /\ callbacks' = callbacks \ {c}
  /\ UNCHANGED <<attempt, step, made, held, isOpen, announced, returned, dropped, replaced>>

\* OnConnectionStateChange: Closed, Failed or Disconnected disconnects the client.
StateChange(c) ==
  /\ c \in callbacks /\ held' = 0 /\ live' = live \ {held}
  /\ LET more == IF held \in live \ announced THEN {held} ELSE {}
     IN callbacks' = (callbacks \ {c}) \union more /\ announced' = announced \union more
  /\ dropped' = (IF held \notin {0, c} THEN dropped \union {held} ELSE dropped)
  /\ UNCHANGED <<attempt, step, made, isOpen, returned, replaced>>

ClientNext == \/ Connect \/ sendOffer \/ ConnectReturns \/ Disconnect
        \/ \E c \in Conns : Opens(c) \/ Fails(c) \/ StateChange(c)

\* The timer of Connect, the HTTP client's timeout and the library's goroutines run.
Runs == sendOffer \/ ConnectReturns \/ \E c \in Conns : StateChange(c)
ClientSpec == ClientInit /\ [][ClientNext]_clientVars /\ WF_clientVars(Runs)

------------------------------------------------------------------------------
\* The type of the state.
ClientTypeOK == /\ live \subseteq Conns /\ held \in {0} \union Conns /\ made \in 0..MaxConnects
          /\ step \in {"idle", "offer", "wait"} /\ attempt \in {0} \union Conns

\* Every connection that is not closed is the client's or is being made, unless
\* Connect was called while the client held one: then the old one is out of reach.
OpenIsHeld == \A c \in live : c = held \/ c = attempt \/ c \in replaced

\* The client never holds a closed connection.
HeldIsOpen == held # 0 => held \in live

\* A call of Connect returns, whether the peer answers or not.
ConnectEnds == (step # "idle") ~> (step = "idle")

\* A connection is closed by Disconnect, by a timeout of Connect or by its own state:
\* what the callback of an earlier connection, run late, breaks.
OwnEndOnly == dropped = {}
==============================================================================
