------------------------------- MODULE MCRtc -------------------------------
(***************************************************************************)
(* WebRTC and WebTransport on small instances.  unit names the part that   *)
(* runs; the others rest in their initial states.                          *)
(*   webrtc     the WebRTC server's sessions and the tracks they publish   *)
(*   sfu        the track router alone, with every call at any time        *)
(*   client     the WebRTC client                                          *)
(*   transport  the WebTransport server                                    *)
(*   packet     the message handlers of the four that exchange packets     *)
(***************************************************************************)
EXTENDS WebRTC, FiniteSets, TLAPS

CONSTANTS Units, Streams, Frames, Stacks, Types, Handlers, MaxSent

ASSUME RtcAssumption ==
  /\ QueueCap \in Nat /\ Steady \subseteq Sessions /\ MaxConnects \in Nat
  /\ IsFiniteSet(Streams) /\ MaxSent \in Nat

VARIABLES unit,
          handler, session, streamOpen, sessionCount, refCount, told, dispatched, serving,
          stopping, late,
          stack, sender, receiver, handlers, raw, wire, decoding, calls, sent, swapped

transportVars == <<handler, session, streamOpen, sessionCount, refCount, told, dispatched,
                   serving, stopping, late>>
packetVars    == <<stack, sender, receiver, handlers, raw, wire, decoding, calls, sent,
                   swapped>>
ownVars       == <<sessionVars, cast, joining, stop, stopLeft, stray>>
suiteVars     == <<unit, webrtcVars, clientVars, transportVars, packetVars>>

------------------------------------------------------------------------------
(* Proofs about the server with its router, for any number of sessions and tracks. *)

\* What is inductive of the router in the server: a subscriber that is being joined to
\* the tracks of a publisher holds tracks that are in the router, or were and are closed.
RouterInv ==
  /\ tracks \subseteq Tracks /\ closed \subseteq Tracks
  /\ subscribers \in [Tracks -> SUBSET Sessions]
  /\ ClosedFeedsNobody
  /\ joining # <<>> => joining[1] \in Sessions /\ joining[2] \subseteq tracks \union closed

\* The new server has no tracks.
LEMMA RouterInit == Init => RouterInv
BY DEF Init, SfuInit, RouterInv, ClosedFeedsNobody, Tracks

\* Every step of the server keeps it.
LEMMA RouterStep == RouterInv /\ [Next]_webrtcVars => RouterInv'
<1> SUFFICES ASSUME RouterInv, [Next]_webrtcVars PROVE RouterInv'
  OBVIOUS
<1>1. CASE UNCHANGED <<tracks, closed, subscribers, joining>>
  BY <1>1 DEF RouterInv, ClosedFeedsNobody
<1>2. ASSUME NEW s \in Sessions, NEW i \in TrackIDs, OnTrack(s, i) PROVE RouterInv'
  <2>1. <<s, i>> \in Tracks
    BY DEF Tracks
  <2> QED
    BY <1>2, <2>1 DEF OnTrack, AddTrack, RouterInv, ClosedFeedsNobody
<1>3. ASSUME NEW s \in Sessions, OnSessionRemoved(s) PROVE RouterInv'
  BY <1>3 DEF OnSessionRemoved, RemoveSessionTracks, Close, TracksOf, RouterInv, ClosedFeedsNobody
<1>4. ASSUME NEW t \in Tracks, ForwardEnds(t), UNCHANGED joining PROVE RouterInv'
  BY <1>4 DEF ForwardEnds, Close, RouterInv, ClosedFeedsNobody
<1>5. ASSUME NEW s \in Sessions, NEW p \in Sessions, UnsubscribeFromPublisher(s, p)
      PROVE  RouterInv'
  BY <1>5 DEF UnsubscribeFromPublisher, Unsubscribe, RouterInv, ClosedFeedsNobody
<1>6. ASSUME NEW s \in Sessions, NEW p \in Sessions, SubscribeToPublisher(s, p) PROVE RouterInv'
  <2>1. joining' = <<s, TracksOf(p), FALSE>> /\ UNCHANGED <<tracks, closed, subscribers>>
    BY <1>6 DEF SubscribeToPublisher, sfuVars
  <2>2. joining'[1] \in Sessions /\ joining'[2] \subseteq tracks \union closed
    BY <2>1 DEF TracksOf
  <2> QED
    BY <2>1, <2>2 DEF RouterInv, ClosedFeedsNobody
<1>7. CASE JoinOne
  <2>0. joining # <<>> /\ joining[1] \in Sessions /\ joining[2] \subseteq tracks \union closed
    BY <1>7 DEF JoinOne, RouterInv
  <2>1. PICK t \in joining[2] :
           \/ /\ CreateLocalTrackForSubscriber(joining[1], t)
              /\ joining' = <<joining[1], joining[2] \ {t}, TRUE>>
           \/ /\ Dead(joining[1]) /\ UNCHANGED sfuVars
              /\ joining' = JoinsLeft(joining[2] \ {t})
    BY <1>7, Zenon DEF JoinOne
  <2>2. joining' # <<>> => joining'[1] \in Sessions /\ joining'[2] \subseteq tracks \union closed
    <3>1. CASE joining' = <<joining[1], joining[2] \ {t}, TRUE>>
      BY <2>0, <3>1
    <3>2. CASE joining' = <<joining[1], joining[2] \ {t}, FALSE>>
      BY <2>0, <3>2
    <3> QED
      BY <2>1, <3>1, <3>2, Zenon DEF JoinsLeft
  <2>3. t \in Tracks /\ (t \in tracks \/ t \in closed) /\ UNCHANGED <<tracks, closed>>
    BY <2>0, <2>1, Zenon DEF RouterInv, CreateLocalTrackForSubscriber, sfuVars
  <2>4. subscribers' \in [Tracks -> SUBSET Sessions] /\ ClosedFeedsNobody'
    <3>1. CreateLocalTrackForSubscriber(joining[1], t) \/ UNCHANGED subscribers
      BY <2>1, Zenon DEF sfuVars
    <3> QED
      BY <2>0, <2>3, <3>1 DEF CreateLocalTrackForSubscriber, RouterInv, ClosedFeedsNobody
  <2> QED
    BY <2>2, <2>3, <2>4 DEF RouterInv
<1>11. CASE sendRenegotiation
  <2>1. joining' # <<>> => joining'[1] \in Sessions /\ joining'[2] \subseteq tracks \union closed
    <3>1. CASE joining' = <<joining[1], joining[2], FALSE>>
      BY <1>11, <3>1 DEF sendRenegotiation, RouterInv
    <3> QED
      BY <1>11, <3>1, Zenon DEF sendRenegotiation, JoinsLeft
  <2>2. UNCHANGED <<tracks, closed, subscribers>>
    BY <1>11 DEF sendRenegotiation, sfuVars
  <2> QED
    BY <2>1, <2>2 DEF RouterInv, ClosedFeedsNobody
<1>8. CASE Broadcast \/ Stop \/ StopCloses \/ StopWaits
  <2>1. UNCHANGED <<tracks, closed, subscribers, joining>>
    BY <1>8 DEF Broadcast, Stop, StopCloses, StopWaits, sfuVars
  <2> QED
    BY <1>1, <2>1
<1>9. ASSUME NEW s \in Sessions,
             Offer(s) \/ Answer(s) \/ ChannelOpens(s) \/ PeerEnds(s) \/ Callback(s) \/ CastOne(s)
               \/ writePump(s)
      PROVE  RouterInv'
  <2>1. CASE ~OnSessionRemoved(s)
    <3>1. UNCHANGED <<tracks, closed, subscribers, joining>>
      BY <1>9, <2>1, Zenon DEF Offer, Answer, ChannelOpens, PeerEnds, Callback, addSession,
         OnSessionAdded, Listen, removeSession, CastOne, writePump, sfuVars
    <3> QED
      BY <1>1, <3>1
  <2> QED
    BY <1>3, <2>1
<1>10. CASE UNCHANGED webrtcVars
  BY <1>1, <1>10 DEF webrtcVars, sfuVars
<1> QED
  BY <1>2, <1>4, <1>5, <1>6, <1>7, <1>8, <1>9, <1>10, <1>11 DEF Next, Each

\* However sessions come and go while others subscribe to their tracks: a track that is
\* closed or has left the router is written to nobody.
THEOREM ClosedTracksFeedNobody == Spec => []ClosedFeedsNobody
<1>1. RouterInv /\ [Next]_webrtcVars => RouterInv'
  BY RouterStep
<1>2. RouterInv => ClosedFeedsNobody
  BY DEF RouterInv
<1> QED
  BY <1>1, <1>2, RouterInit, PTL DEF Spec

\* What is inductive of the sessions: where OnOpen is tells how often the handler heard
\* of the session, and where Close is whether it is in the map and has tracks.
SessionInv ==
  /\ opening \in [Sessions -> {"no", "add", "tell", "listen", "end"}]
  /\ closing \in [Sessions -> {"no", "conn", "tracks", "end"}]
  /\ connected \in [Sessions -> Nat] /\ disconnected \in [Sessions -> Nat]
  /\ done \subseteq Sessions /\ managed \subseteq Sessions /\ stopLeft \subseteq Sessions
  /\ \A s \in Sessions :
       /\ s \notin done => closing[s] = "no"
       /\ connected[s] = IF opening[s] \in {"listen", "end"} THEN 1 ELSE 0
       /\ disconnected[s] <= 1 /\ (closing[s] # "end" => disconnected[s] = 0)
       /\ s \in managed \/ closing[s] = "tracks" \/ disconnected[s] = 1
            => opening[s] \notin {"no", "add"}
       /\ closing[s] \in {"tracks", "end"} /\ s \notin stray => s \notin managed
       /\ closing[s] # "tracks" /\ s \notin managed /\ s \notin stray => TracksOf(s) = {}

\* The new server has no sessions but the steady ones, which have been added.
LEMMA SessionInit == Init /\ Steady \subseteq Sessions => SessionInv
BY DEF Init, SfuInit, SessionInv, TracksOf

\* Every step of the server keeps it.
LEMMA SessionStep == SessionInv /\ [Next]_webrtcVars => SessionInv'
<1> SUFFICES ASSUME SessionInv, [Next]_webrtcVars PROVE SessionInv'
  OBVIOUS
<1> USE DEF SessionInv, At
<1>1. CASE /\ UNCHANGED <<opening, closing, connected, disconnected, done, managed, stray, tracks>>
           /\ stopLeft' \subseteq Sessions
  BY <1>1 DEF TracksOf
<1>2. ASSUME NEW s \in Sessions, BeginClose(s) \/ UNCHANGED <<done, closing>>,
             UNCHANGED <<opening, connected, disconnected, managed, stray, tracks>>,
             stopLeft' \subseteq Sessions
      PROVE  SessionInv'
  BY <1>2 DEF BeginClose, Dead, TracksOf
<1>3. ASSUME NEW s \in Sessions, ChannelOpens(s) \/ addSession(s) \/ OnSessionAdded(s) \/ Listen(s)
      PROVE  SessionInv'
  <2>1. CASE ChannelOpens(s)
    BY <2>1 DEF ChannelOpens, sfuVars, TracksOf
  <2>2. CASE addSession(s)
    BY <2>2 DEF addSession, sfuVars, TracksOf
  <2>3. CASE OnSessionAdded(s)
    BY <2>3 DEF OnSessionAdded, sfuVars, TracksOf
  <2>4. CASE Listen(s)
    BY <2>4 DEF Listen, sfuVars, TracksOf
  <2> QED
    BY <1>3, <2>1, <2>2, <2>3, <2>4
<1>4. ASSUME NEW s \in Sessions, removeSession(s) PROVE SessionInv'
  BY <1>4 DEF removeSession, sfuVars, TracksOf
<1>5. ASSUME NEW s \in Sessions, OnSessionRemoved(s) PROVE SessionInv'
  BY <1>5 DEF OnSessionRemoved, RemoveSessionTracks, TracksOf
<1>6. ASSUME NEW s \in Sessions, NEW i \in TrackIDs, OnTrack(s, i) PROVE SessionInv'
  BY <1>6 DEF OnTrack, AddTrack, sessionVars, TracksOf
<1>7. ASSUME NEW s \in Sessions, Offer(s) \/ CastOne(s) PROVE SessionInv'
  BY <1>1, <1>7 DEF Offer, CastOne, sfuVars
<1>8. ASSUME NEW s \in Sessions, Answer(s) \/ PeerEnds(s) \/ writePump(s) PROVE SessionInv'
  BY <1>2, <1>8 DEF Answer, PeerEnds, writePump, sfuVars
<1>9. CASE StopCloses
  <2>1. ASSUME NEW s \in stopLeft, BeginClose(s), UNCHANGED stopLeft PROVE SessionInv'
    <3>1. s \in Sessions /\ stopLeft' \subseteq Sessions
      BY <2>1
    <3> QED
      BY <1>2, <1>9, <2>1, <3>1 DEF StopCloses, sfuVars
  <2>2. CASE UNCHANGED <<done, closing>> /\ stopLeft' \subseteq Sessions
    BY <1>1, <1>9, <2>2 DEF StopCloses, sfuVars
  <2> QED
    BY <1>9, <2>1, <2>2 DEF StopCloses
<1>10. CASE Broadcast \/ Stop \/ StopWaits \/ JoinOne \/ sendRenegotiation
  BY <1>1, <1>10, Zenon DEF Broadcast, Stop, StopWaits, JoinOne, CreateLocalTrackForSubscriber,
     sendRenegotiation, sessionVars, sfuVars
<1>11. ASSUME NEW s \in Sessions, NEW p \in Sessions,
              SubscribeToPublisher(s, p) \/ UnsubscribeFromPublisher(s, p)
       PROVE  SessionInv'
  BY <1>1, <1>11, Zenon
     DEF SubscribeToPublisher, UnsubscribeFromPublisher, Unsubscribe, sessionVars, sfuVars
<1>12. ASSUME NEW t \in Tracks, ForwardEnds(t), UNCHANGED <<stopLeft, stray>>, UNCHANGED sessionVars
       PROVE  SessionInv'
  BY <1>1, <1>12 DEF ForwardEnds, sessionVars
<1>13. CASE UNCHANGED webrtcVars
  BY <1>1, <1>13 DEF webrtcVars, sfuVars
<1> QED
  BY <1>3, <1>4, <1>5, <1>6, <1>7, <1>8, <1>9, <1>10, <1>11, <1>12, <1>13, Zenon
     DEF Next, Each, Callback

\* For any number of sessions, in any order of their callbacks: the handler hears of the
\* start and of the end of a session at most once, and a session whose Close has ended is
\* out of the map and has no track in the router, but for the races stray records.
THEOREM SessionsAreTold ==
  Steady \subseteq Sessions => (Spec => []ToldOnce /\ []ClosedIsGone)
<1> SUFFICES ASSUME Steady \subseteq Sessions PROVE Spec => []ToldOnce /\ []ClosedIsGone
  OBVIOUS
<1>1. Init => SessionInv
  BY SessionInit
<1>2. SessionInv /\ [Next]_webrtcVars => SessionInv'
  BY SessionStep
<1>3. SessionInv => ToldOnce /\ ClosedIsGone
  BY DEF SessionInv, ToldOnce, ClosedIsGone
<1> QED
  BY <1>1, <1>2, <1>3, PTL DEF Spec
\* The rest of the types: what Subscribe records, and the room in the queues.
BooksInv ==
  /\ subscriptions \in [Sessions -> SUBSET TrackIDs]
  /\ recording \subseteq Sessions /\ torn \in BOOLEAN
  /\ queue \in [Sessions -> 0 .. QueueCap]

\* It holds in the new server.
LEMMA BooksInit == Init => BooksInv
<1> SUFFICES ASSUME Init PROVE BooksInv
  OBVIOUS
<1>1. torn \in BOOLEAN
  BY Zenon DEF Init, SfuInit
<1> QED
  BY <1>1, RtcAssumption DEF Init, SfuInit, BooksInv

\* Every step of the server keeps it: a send waits for room.
LEMMA BooksStep == RouterInv /\ BooksInv /\ [Next]_webrtcVars => BooksInv'
<1> SUFFICES ASSUME RouterInv, BooksInv, [Next]_webrtcVars PROVE BooksInv'
  OBVIOUS
<1> USE RtcAssumption DEF BooksInv, At
<1>1. CASE UNCHANGED sfuVars /\ UNCHANGED queue
  BY <1>1 DEF sfuVars
<1>2. ASSUME NEW s \in Sessions, CastOne(s) \/ writePump(s) PROVE BooksInv'
  <2>1. UNCHANGED <<subscriptions, recording, torn>>
    BY <1>2, Zenon DEF CastOne, writePump, sfuVars
  <2>2. queue' \in [Sessions -> 0 .. QueueCap]
    BY <1>2 DEF CastOne, writePump
  <2> QED
    BY <2>1, <2>2
<1>3. CASE sendRenegotiation
  <2>1. UNCHANGED <<subscriptions, recording, torn>> /\ joining[1] \in Sessions
    BY <1>3, Zenon DEF sendRenegotiation, RouterInv, sfuVars
  <2>2. queue' \in [Sessions -> 0 .. QueueCap]
    BY <1>3, <2>1 DEF sendRenegotiation
  <2> QED
    BY <2>1, <2>2
<1>4. ASSUME NEW s \in Sessions, OnSessionRemoved(s) PROVE BooksInv'
  BY <1>4 DEF OnSessionRemoved, RemoveSessionTracks
<1>5. ASSUME NEW s \in Sessions, NEW p \in Sessions, UnsubscribeFromPublisher(s, p) PROVE BooksInv'
  BY <1>5 DEF UnsubscribeFromPublisher, Unsubscribe, sessionVars
<1>6. ASSUME NEW s \in Sessions, NEW p \in Sessions, SubscribeToPublisher(s, p) PROVE BooksInv'
  BY <1>1, <1>6, Zenon DEF SubscribeToPublisher, sessionVars
<1>7. ASSUME NEW s \in Sessions, NEW i \in TrackIDs, OnTrack(s, i) PROVE BooksInv'
  BY <1>7 DEF OnTrack, AddTrack, sessionVars
<1>8. ASSUME NEW t \in Tracks, ForwardEnds(t), UNCHANGED sessionVars PROVE BooksInv'
  BY <1>8 DEF ForwardEnds, sessionVars
<1>9. CASE JoinOne
  <2>1. UNCHANGED <<subscriptions, recording, torn, queue>>
    BY <1>9, Zenon DEF JoinOne, CreateLocalTrackForSubscriber, sfuVars, sessionVars
  <2> QED
    BY <2>1
<1>10. CASE Broadcast \/ Stop \/ StopCloses \/ StopWaits
  BY <1>1, <1>10, Zenon DEF Broadcast, Stop, StopCloses, StopWaits, sessionVars
<1>11. ASSUME NEW s \in Sessions,
              \/ Offer(s) \/ Answer(s) \/ ChannelOpens(s) \/ PeerEnds(s)
              \/ addSession(s) \/ OnSessionAdded(s) \/ Listen(s) \/ removeSession(s)
       PROVE  BooksInv'
  BY <1>1, <1>11, Zenon DEF Offer, Answer, ChannelOpens, PeerEnds, addSession, OnSessionAdded,
     Listen, removeSession
<1>12. CASE UNCHANGED webrtcVars
  BY <1>1, <1>12 DEF webrtcVars
<1> QED
  BY <1>2, <1>3, <1>4, <1>5, <1>6, <1>7, <1>8, <1>9, <1>10, <1>11, <1>12, Zenon
     DEF Next, Each, Callback

\* The router alone, with every call at any time, keeps its part.
LEMMA SfuStep ==
  RouterInv /\ BooksInv /\ SfuNext /\ UNCHANGED ownVars /\ joining = <<>>
    => RouterInv' /\ BooksInv'
<1> SUFFICES ASSUME RouterInv, BooksInv, SfuNext, UNCHANGED ownVars, joining = <<>>
             PROVE  RouterInv' /\ BooksInv'
  OBVIOUS
<1> DEFINE G == RouterInv' /\ BooksInv'
<1>1. joining' = <<>> /\ queue' = queue
  BY Zenon DEF ownVars, sessionVars
<1> USE <1>1 DEF RouterInv, BooksInv, ClosedFeedsNobody
<1>2. ASSUME NEW t \in Tracks, AddTrack(t) PROVE G
  BY <1>2 DEF AddTrack
<1>3. ASSUME NEW t \in Tracks, RemoveTrack(t) PROVE G
  BY <1>3 DEF RemoveTrack, Close
<1>4. ASSUME NEW t \in Tracks, ForwardEnds(t) PROVE G
  BY <1>4 DEF ForwardEnds, Close
<1>5. ASSUME NEW t \in Tracks, t \in tracks \union closed, NEW s \in Sessions,
             CreateLocalTrackForSubscriber(s, t)
      PROVE  G
  BY <1>5 DEF CreateLocalTrackForSubscriber
<1>6. ASSUME NEW s \in Sessions, RemoveSessionTracks(s) PROVE G
  BY <1>6 DEF RemoveSessionTracks, Close, TracksOf
<1>7. ASSUME NEW s \in Sessions, SubscribeBegin(s) PROVE G
  BY <1>7 DEF SubscribeBegin
<1>8. ASSUME NEW s \in Sessions, NEW p \in Sessions, SubscribeEnd(s, p) PROVE G
  <2>1. torn' \in BOOLEAN
    BY <1>8, Zenon DEF SubscribeEnd
  <2>2. \A t \in TracksOf(p) : t[2] \in TrackIDs
    BY DEF TracksOf, Tracks
  <2> QED
    BY <1>8, <2>1, <2>2 DEF SubscribeEnd
<1>9. ASSUME NEW s \in Sessions, NEW p \in Sessions, Unsubscribe(s, p) PROVE G
  BY <1>9 DEF Unsubscribe
<1> HIDE DEF G
<1>10. G
  BY <1>2, <1>3, <1>4, <1>5, <1>6, <1>7, <1>8, <1>9, Zenon DEF SfuNext
<1> QED
  BY <1>10 DEF G

------------------------------------------------------------------------------
(* Proofs about the client, for any number of connections. *)

\* What is inductive of the client: the connection Connect works on is the newest one;
\* it is open until it becomes the client's, and from then on the client's or closed.
ClientInv ==
  /\ ClientTypeOK /\ OpenIsHeld /\ HeldIsOpen
  /\ live \subseteq 1 .. made /\ held <= made
  /\ step = "idle" => attempt = 0
  /\ step # "idle" => attempt = made /\ made > 0
  /\ step = "offer" => attempt \in live /\ attempt # held
  /\ step = "wait" => attempt = held \/ attempt \notin live

\* The new client holds nothing.
LEMMA ClientInvInit == ClientInit => ClientInv
BY RtcAssumption DEF ClientInit, ClientInv, ClientTypeOK, OpenIsHeld, HeldIsOpen, Conns

\* Every step of the client, and every callback of a connection, keeps it.
LEMMA ClientStep == ClientInv /\ [ClientNext]_clientVars => ClientInv'
<1> SUFFICES ASSUME ClientInv, [ClientNext]_clientVars PROVE ClientInv'
  OBVIOUS
<1> USE RtcAssumption DEF ClientInv, ClientTypeOK, OpenIsHeld, HeldIsOpen, Conns
<1>0. CASE UNCHANGED <<attempt, step, made, live, held, replaced>>
  BY <1>0
<1>1. CASE Connect
  BY <1>1 DEF Connect
<1>2. CASE sendOffer
  <2>1. made' = made /\ step = "offer"
    BY <1>2 DEF sendOffer
  <2>2. CASE /\ step' = "idle" /\ attempt' = 0 /\ live' = live \ {attempt}
             /\ UNCHANGED <<held, replaced>>
    BY <2>1, <2>2
  <2>3. CASE /\ step' = "wait" /\ held' = attempt /\ UNCHANGED <<attempt, live>>
             /\ replaced' = (IF held = 0 THEN replaced ELSE replaced \union {held})
    BY <2>1, <2>3
  <2> QED
    BY <1>2, <2>2, <2>3, Zenon DEF sendOffer, Closes
<1>3. CASE ConnectReturns
  <2>1. made' = made /\ step = "wait" /\ step' = "idle" /\ attempt' = 0 /\ replaced' = replaced
    BY <1>3 DEF ConnectReturns
  <2>2. CASE UNCHANGED <<live, held>>
    BY <2>1, <2>2
  <2>3. CASE held' = 0 /\ live' = live \ {held}
    BY <2>1, <2>3
  <2> QED
    BY <1>3, <2>2, <2>3, Zenon DEF ConnectReturns, Disconnects, Closes
<1>4. CASE Disconnect
  BY <1>4 DEF Disconnect, Disconnects, Closes
<1>5. ASSUME NEW c \in Conns, Opens(c) \/ Fails(c) PROVE ClientInv'
  BY <1>0, <1>5, Zenon DEF Opens, Fails
<1>6. ASSUME NEW c \in Conns, StateChange(c) PROVE ClientInv'
  BY <1>6 DEF StateChange
<1>7. CASE UNCHANGED clientVars
  BY <1>0, <1>7 DEF clientVars
<1> QED
  BY <1>1, <1>2, <1>3, <1>4, <1>5, <1>6, <1>7, Zenon DEF ClientNext

------------------------------------------------------------------------------
(* Proofs about the message layer, for any types, handlers and number of packets. *)

P == INSTANCE NetPacket

Packets == P!Modes \X Types \X Nat

\* Packets are numbered as they are sent and stay in order: what is on the wire is newer
\* than what is being decoded, which is newer than what was handed to a handler.
InOrder ==
  /\ wire \in Seq(Packets) /\ Len(wire) <= sent /\ sent \in Nat
  /\ \A i \in 1 .. Len(wire) : /\ wire[i][3] <= sent
                               /\ \A j \in 1 .. Len(wire) : i < j => wire[i][3] < wire[j][3]
  /\ decoding # <<>> => /\ decoding[3] \in 0 .. sent
                        /\ \A i \in 1 .. Len(wire) : decoding[3] < wire[i][3]
  /\ \A c \in calls : /\ c[4] \in 0 .. sent
                      /\ \A i \in 1 .. Len(wire) : c[4] < wire[i][3]
                      /\ decoding # <<>> => c[4] < decoding[3]

\* The payload being decoded was made by the handler that is registered for its type,
\* unless that has changed since.
MadeByFound ==
  decoding # <<>> => /\ decoding[1] \in Types
                     /\ handlers[decoding[1]] = decoding[2] \/ swapped

CalledOnce == \A c, d \in calls : c[4] = d[4] => c = d

PacketInv == sender \in P!Modes /\ P!TypeOK /\ InOrder /\ MadeByFound /\ CalledOnce

\* Nothing is sent at first.
LEMMA PacketInit == P!Init => PacketInv
<1> SUFFICES ASSUME P!Init PROVE PacketInv
  OBVIOUS
<1>1. swapped \in BOOLEAN
  BY Zenon DEF P!Init
<1>2. P!TypeOK
  BY <1>1, RtcAssumption DEF P!Init, P!TypeOK
<1> QED
  BY <1>2 DEF P!Init, PacketInv, InOrder, MadeByFound, CalledOnce

\* A change of the handlers is noted while a packet of that type is being decoded.
LEMMA SetsKeeps ==
  ASSUME PacketInv, NEW t \in Types, NEW h \in Handlers \union {"none"}, P!Sets(t, h)
  PROVE  PacketInv'
<1>1. swapped' \in BOOLEAN
  BY Zenon DEF P!Sets, PacketInv, P!TypeOK
<1>2. P!TypeOK'
  BY <1>1 DEF P!Sets, PacketInv, P!TypeOK
<1>3. InOrder' /\ CalledOnce'
  BY DEF P!Sets, PacketInv, InOrder, CalledOnce
<1>4. MadeByFound'
  BY Zenon DEF P!Sets, PacketInv, P!TypeOK, MadeByFound
<1>5. sender' = sender
  BY DEF P!Sets
<1> QED
  BY <1>2, <1>3, <1>4, <1>5 DEF PacketInv

\* A packet that is sent goes to the end of the wire with a number of its own.
LEMMA SendsKeeps ==
  ASSUME PacketInv, NEW t \in Types, NEW k, P!Sends(k, t)
  PROVE  PacketInv'
<1> DEFINE p == <<sender, t, sent + 1>>
<1>1. /\ wire' = Append(wire, p) /\ sent' = sent + 1 /\ sent < MaxSent
      /\ UNCHANGED <<stack, sender, receiver, handlers, raw, decoding, calls, swapped>>
  BY DEF P!Sends
<1>0. InOrder /\ sender \in P!Modes
  BY Zenon DEF PacketInv
<1>0a. wire \in Seq(Packets) /\ sent \in Nat
  BY <1>0 DEF InOrder
<1>2. p \in Packets /\ p[3] = sent + 1
  BY <1>0, <1>0a DEF Packets
<1> HIDE DEF p
<1>3. /\ wire \in Seq(Packets) /\ Len(wire) \in Nat /\ sent \in Nat
      /\ wire' \in Seq(Packets) /\ Len(wire') = Len(wire) + 1
      /\ \A i \in 1 .. Len(wire) : wire'[i] = wire[i]
      /\ wire'[Len(wire) + 1] = p
  BY <1>0a, <1>1, <1>2
<1>4. \A i \in 1 .. Len(wire) + 1 : \/ i \in 1 .. Len(wire) /\ wire'[i] = wire[i]
                                    \/ i = Len(wire) + 1 /\ wire'[i] = p
  BY <1>3
<1>5. \A i \in 1 .. Len(wire) : wire[i][3] \in Nat
  BY <1>3 DEF Packets
<1>6. InOrder'
  <2>1. \A i \in 1 .. Len(wire') :
          /\ wire'[i][3] <= sent'
          /\ \A j \in 1 .. Len(wire') : i < j => wire'[i][3] < wire'[j][3]
    BY <1>0, <1>1, <1>2, <1>3, <1>4, <1>5, SMTT(30) DEF InOrder
  <2>2. decoding' # <<>> => /\ decoding'[3] \in 0 .. sent'
                            /\ \A i \in 1 .. Len(wire') : decoding'[3] < wire'[i][3]
    BY <1>0, <1>1, <1>2, <1>3, <1>4, <1>5 DEF InOrder
  <2>3. \A c \in calls' : /\ c[4] \in 0 .. sent'
                          /\ \A i \in 1 .. Len(wire') : c[4] < wire'[i][3]
                          /\ decoding' # <<>> => c[4] < decoding'[3]
    BY <1>0, <1>1, <1>2, <1>3, <1>4, <1>5 DEF InOrder
  <2>4. wire' \in Seq(Packets) /\ Len(wire') <= sent' /\ sent' \in Nat
    BY <1>0, <1>1, <1>3, SMTT(30) DEF InOrder
  <2> QED
    BY <2>1, <2>2, <2>3, <2>4 DEF InOrder
<1>7. P!TypeOK'
  BY <1>1, <1>3, RtcAssumption DEF PacketInv, P!TypeOK, InOrder
<1>8. MadeByFound' /\ CalledOnce'
  BY <1>1 DEF PacketInv, MadeByFound, CalledOnce
<1> QED
  BY <1>1, <1>6, <1>7, <1>8 DEF PacketInv

\* A packet that is decoded is the oldest on the wire; its payload is made by the handler
\* found, or it is dropped.
LEMMA DecodesKeeps ==
  ASSUME PacketInv, NEW k, P!Decodes(k) PROVE PacketInv'
<1>1. /\ wire # <<>> /\ decoding = <<>> /\ wire' = Tail(wire) /\ swapped' = FALSE
      /\ UNCHANGED <<stack, sender, receiver, handlers, raw, calls, sent>>
      /\ \/ \E t \in Types : decoding' = <<t, handlers[t], wire[1][3]>>
         \/ decoding' = <<>>
  BY Zenon DEF P!Decodes
<1>0. InOrder
  BY Zenon DEF PacketInv
<1>0a. wire \in Seq(Packets) /\ sent \in Nat
  BY <1>0 DEF InOrder
<1>2. /\ wire \in Seq(Packets) /\ Len(wire) \in Nat /\ Len(wire) > 0 /\ sent \in Nat
      /\ wire' \in Seq(Packets) /\ Len(wire') = Len(wire) - 1
      /\ \A i \in 1 .. Len(wire') : i + 1 \in 1 .. Len(wire) /\ wire'[i] = wire[i + 1]
  BY <1>0a, <1>1
<1>3. wire[1][3] \in 0 .. sent /\ 1 \in 1 .. Len(wire)
  <2>1. 1 \in 1 .. Len(wire)
    BY <1>2
  <2>2. wire[1] \in Packets
    BY <1>2, <2>1
  <2>3. wire[1][3] <= sent
    BY <1>0, <2>1, SMTT(30) DEF InOrder
  <2> QED
    BY <1>2, <2>1, <2>2, <2>3 DEF Packets
<1>4. decoding' # <<>> => /\ decoding'[1] \in Types /\ decoding'[2] = handlers[decoding'[1]]
                          /\ decoding'[3] = wire[1][3]
  BY <1>1
<1>5. \A i \in 1 .. Len(wire') : wire[1][3] < wire'[i][3]
  BY <1>0, <1>2, <1>3, SMTT(30) DEF InOrder
<1>6. InOrder'
  <2>1. \A i \in 1 .. Len(wire') : /\ wire'[i][3] <= sent
                                   /\ \A j \in 1 .. Len(wire') : i < j => wire'[i][3] < wire'[j][3]
    <3> SUFFICES ASSUME NEW i \in 1 .. Len(wire')
                 PROVE  /\ wire'[i][3] <= sent
                        /\ \A j \in 1 .. Len(wire') : i < j => wire'[i][3] < wire'[j][3]
      OBVIOUS
    <3>1. i + 1 \in 1 .. Len(wire) /\ wire'[i] = wire[i + 1]
      BY <1>2
    <3>2. wire[i + 1][3] <= sent
      BY <1>0, <3>1 DEF InOrder
    <3>3. ASSUME NEW j \in 1 .. Len(wire'), i < j PROVE wire'[i][3] < wire'[j][3]
      <4>1. j + 1 \in 1 .. Len(wire) /\ wire'[j] = wire[j + 1] /\ i + 1 < j + 1
        BY <1>2, <3>3
      <4>2. wire[i + 1][3] < wire[j + 1][3]
        BY <1>0, <3>1, <4>1 DEF InOrder
      <4> QED
        BY <3>1, <4>1, <4>2
    <3> QED
      BY <3>1, <3>2, <3>3
  <2>2. \A c \in calls : /\ c[4] \in 0 .. sent /\ c[4] < wire[1][3]
                         /\ \A i \in 1 .. Len(wire') : c[4] < wire'[i][3]
    BY <1>0, <1>2, <1>3, SMTT(30) DEF InOrder
  <2> QED
    BY <1>1, <1>2, <1>3, <1>4, <1>5, <2>1, <2>2 DEF PacketInv, InOrder
<1>7. swapped' \in BOOLEAN
  BY <1>1, Zenon
<1>8. P!TypeOK'
  <2>1. Len(wire') <= MaxSent
    BY <1>2, RtcAssumption DEF PacketInv, P!TypeOK
  <2> QED
    BY <1>1, <1>7, <2>1 DEF PacketInv, P!TypeOK
<1>9. MadeByFound' /\ CalledOnce'
  BY <1>1, <1>4 DEF PacketInv, MadeByFound, CalledOnce
<1> QED
  BY <1>1, <1>6, <1>8, <1>9 DEF PacketInv

\* The call of a handler takes a payload no handler was given before, and unless it
\* changed meanwhile the handler called is the one that made the payload.
LEMMA CallsKeeps ==
  ASSUME PacketInv, decoding # <<>>, NEW h, P!Calls(h) PROVE PacketInv'
<1>1. /\ decoding' = <<>>
      /\ UNCHANGED <<stack, sender, receiver, handlers, raw, wire, sent, swapped>>
  BY DEF P!Calls
<1>2. P!TypeOK' /\ MadeByFound'
  BY <1>1 DEF PacketInv, P!TypeOK, MadeByFound
<1> DEFINE new == <<decoding[1], h, decoding[2], decoding[3]>>
<1>3. new[4] = decoding[3]
  OBVIOUS
<1>4. calls' \subseteq calls \union {new}
  BY DEF P!Calls
<1> HIDE DEF new
<1>0. InOrder
  BY Zenon DEF PacketInv
<1>5. \A c \in calls : c[4] # new[4]
  BY <1>0, <1>3 DEF InOrder
<1>6. CalledOnce'
  BY <1>4, <1>5 DEF PacketInv, CalledOnce
<1>7. InOrder'
  BY <1>0, <1>1, <1>3, <1>4, SMTT(30) DEF InOrder
<1> QED
  BY <1>1, <1>2, <1>6, <1>7 DEF PacketInv

\* Every step of the message layer keeps the invariant.
LEMMA PacketStep == PacketInv /\ [P!Next]_packetVars => PacketInv'
<1> SUFFICES ASSUME PacketInv, [P!Next]_packetVars PROVE PacketInv'
  OBVIOUS
<1>1. ASSUME NEW t \in Types, NEW h \in Handlers, P!RegisterMessageHandler(t, h) PROVE PacketInv'
  <2>1. P!Sets(t, h)
    BY <1>1, Zenon DEF P!RegisterMessageHandler, P!WebsocketRegister, P!WebrtcRegister,
       P!ClientRegister, P!WebtransportRegister, P!Registers
  <2> QED
    BY <2>1, SetsKeeps
<1>2. ASSUME NEW t \in Types, P!DeregisterMessageHandler(t) PROVE PacketInv'
  BY <1>2, SetsKeeps DEF P!DeregisterMessageHandler
<1>3. CASE P!SendMessage
  <2>1. CASE P!WebtransportSend
    <3>1. /\ sent < MaxSent /\ sent' = sent + 1
          /\ UNCHANGED <<stack, sender, receiver, handlers, raw, wire, decoding, calls, swapped>>
      BY <2>1 DEF P!WebtransportSend
    <3>2. P!TypeOK' /\ MadeByFound' /\ CalledOnce'
      BY <3>1, RtcAssumption DEF PacketInv, P!TypeOK, MadeByFound, CalledOnce
    <3>3. \A i \in 1 .. Len(wire) : wire[i][3] \in Nat
      BY SMTT(30) DEF PacketInv, InOrder, Packets
    <3>4. InOrder'
      <4>1. sent \in Nat /\ sent' = sent + 1 /\ Len(wire) \in Nat
        BY <3>1 DEF PacketInv, InOrder
      <4>2. \A n \in Nat : n <= sent => n <= sent' /\ n \in 0 .. sent'
        BY <4>1
      <4>3. \A n \in 0 .. sent : n \in 0 .. sent'
        BY <4>1
      <4>4. /\ \A i \in 1 .. Len(wire) : wire[i][3] <= sent'
            /\ decoding # <<>> => decoding[3] \in 0 .. sent'
            /\ \A c \in calls : c[4] \in 0 .. sent'
            /\ Len(wire) <= sent' /\ sent' \in Nat
        <5>1. sent' \in Nat
          BY <4>1
        <5> QED
          BY <3>3, <4>1, <4>2, <4>3, <5>1, Zenon DEF PacketInv, InOrder
      <4> QED
        BY <3>1, <4>4, Zenon DEF PacketInv, InOrder
    <3> QED
      BY <3>1, <3>2, <3>4 DEF PacketInv
  <2>2. CASE \E t \in Types : \E k \in Stacks \union {"websocket", "webrtc", "rtcclient", "webtransport"} :
               P!Sends(k, t)
    BY <2>2, SendsKeeps
  <2> QED
    BY <1>3, <2>1, <2>2, Zenon
       DEF P!SendMessage, P!WebsocketSend, P!ClientSend, P!WebrtcSend, P!PeerSends
<1>4. CASE P!Decode
  BY <1>4, DecodesKeeps, Zenon
     DEF P!Decode, P!WebsocketDecode, P!WebrtcDecode, P!ClientDecode, P!WebtransportDecode
<1>5. CASE P!Call
  BY <1>5, CallsKeeps, ZenonT(30)
     DEF P!Call, P!WebsocketCall, P!WebrtcCall, P!ClientCall, P!WebtransportCall
<1>6. CASE UNCHANGED packetVars
  BY <1>6 DEF packetVars, PacketInv, P!TypeOK, InOrder, MadeByFound, CalledOnce
<1> QED
  BY <1>1, <1>2, <1>3, <1>4, <1>5, <1>6, Zenon DEF P!Next

\* A step that calls a handler gives it what its own Creator made, unless the websocket
\* server's handler was changed between its two look-ups.
LEMMA CalleeStep ==
  PacketInv /\ [P!Next]_packetVars
    => \A c \in calls' \ calls : c[2] = c[3] \/ (stack = "websocket" /\ swapped)
<1> SUFFICES ASSUME PacketInv, [P!Next]_packetVars, NEW c \in calls' \ calls
             PROVE  c[2] = c[3] \/ (stack = "websocket" /\ swapped)
  OBVIOUS
<1>1. P!Call
  BY Zenon DEF packetVars, P!Next, P!RegisterMessageHandler, P!WebsocketRegister, P!WebrtcRegister,
     P!ClientRegister, P!WebtransportRegister, P!Registers, P!DeregisterMessageHandler, P!Sets,
     P!SendMessage, P!WebsocketSend, P!ClientSend, P!WebrtcSend, P!PeerSends, P!Sends,
     P!WebtransportSend, P!Decode, P!WebsocketDecode, P!WebrtcDecode, P!ClientDecode,
     P!WebtransportDecode, P!Decodes
<1>2. decoding # <<>> /\ \/ stack = "websocket" /\ P!Calls(handlers[decoding[1]])
                         \/ P!Calls(decoding[2])
  BY <1>1, Zenon DEF P!Call, P!WebsocketCall, P!WebrtcCall, P!ClientCall, P!WebtransportCall
<1>3. ASSUME NEW h, P!Calls(h) PROVE c[2] = h /\ c[3] = decoding[2]
  <2>1. c = <<decoding[1], h, decoding[2], decoding[3]>>
    BY <1>3, Zenon DEF P!Calls
  <2> QED
    BY <2>1
<1>4. CASE P!Calls(decoding[2])
  BY <1>3, <1>4
<1>5. CASE stack = "websocket" /\ P!Calls(handlers[decoding[1]])
  <2>1. c[2] = handlers[decoding[1]] /\ c[3] = decoding[2]
    BY <1>3, <1>5
  <2> QED
    BY <1>2, <1>5, <2>1 DEF PacketInv, MadeByFound
<1> QED
  BY <1>2, <1>4, <1>5

------------------------------------------------------------------------------
(* Proofs about the WebTransport server, for any finite set of streams. *)

T == INSTANCE WebTransport WITH Kinds <- Frames
F == INSTANCE FiniteSetTheorems

\* The goroutines that read a stream, and the sessions that sessionCount counts.
Readers == {s \in Streams : session[s] \in {"read", "handle", "left"}}
Counted == {s \in Streams : /\ handler[s] \in {"counted", "told"}
                               \/ session[s] \in {"read", "handle", "left"}}

\* What is inductive of the WebTransport server: a session begins after addHandler has
\* told of it, and how often the handler was told follows from where the two are.
TransportInv ==
  /\ handler \in [Streams -> {"none", "accepted", "counted", "told", "served"}]
  /\ session \in [Streams -> {"none", "read", "handle", "left", "end"}]
  /\ told \in [Streams -> [BOOLEAN -> Nat]]
  /\ \A s \in Streams :
       /\ handler[s] # "served" => session[s] = "none"
       /\ told[s][TRUE] = IF handler[s] = "told" \/ session[s] # "none" THEN 1 ELSE 0
       /\ told[s][FALSE] = IF session[s] = "end" THEN 1 ELSE 0
  /\ refCount = T!Cardinality(Readers) /\ sessionCount = T!Cardinality(Counted)
  /\ T!StoppedIsQuiet

\* Cardinality in the server's module is that of the library.
LEMMA SameCardinality == \A S : T!Cardinality(S) = F!Cardinality(S)
<1> SUFFICES ASSUME NEW S PROVE T!Cardinality(S) = F!Cardinality(S)
  OBVIOUS
<1> QED
  BY DEF T!Cardinality, F!Cardinality

\* A set of streams that gains or loses one counts one more or less.
LEMMA CountChanges ==
  ASSUME NEW S \in SUBSET Streams
  PROVE  /\ T!Cardinality(S) \in 0 .. T!Cardinality(Streams)
         /\ T!Cardinality(S) = 0 <=> S = {}
         /\ \A x \in Streams \ S : T!Cardinality(S \union {x}) = T!Cardinality(S) + 1
         /\ \A x \in S : T!Cardinality(S \ {x}) = T!Cardinality(S) - 1
<1>1. F!IsFiniteSet(S) /\ F!IsFiniteSet(Streams) /\ F!Cardinality(S) <= F!Cardinality(Streams)
  BY RtcAssumption, F!FS_Subset DEF IsFiniteSet, F!IsFiniteSet
<1>2. F!Cardinality(S) \in Nat /\ F!Cardinality(Streams) \in Nat
  BY <1>1, F!FS_CardinalityType
<1>3. F!Cardinality(S) = 0 <=> S = {}
  BY <1>1, F!FS_EmptySet
<1>4. \A x \in Streams \ S : F!Cardinality(S \union {x}) = F!Cardinality(S) + 1
  BY <1>1, F!FS_AddElement
<1>5. \A x \in S : F!Cardinality(S \ {x}) = F!Cardinality(S) - 1
  BY <1>1, F!FS_RemoveElement
<1> QED
  BY <1>1, <1>2, <1>3, <1>4, <1>5, SameCardinality

\* connectHandler is told once more of one stream.
LEMMA ToldMore ==
  ASSUME told \in [Streams -> [BOOLEAN -> Nat]], NEW s \in Streams, NEW b \in BOOLEAN, T!Told(s, b)
  PROVE  /\ told' \in [Streams -> [BOOLEAN -> Nat]]
         /\ told'[s][b] = told[s][b] + 1
         /\ \A u \in Streams : \A c \in BOOLEAN : u # s \/ c # b => told'[u][c] = told[u][c]
<1> DEFINE f == [told[s] EXCEPT ![b] = told[s][b] + 1]
<1>1. told' = [told EXCEPT ![s] = f]
  BY Zenon DEF T!Told
<1>2. /\ f \in [BOOLEAN -> Nat] /\ f[b] = told[s][b] + 1
      /\ \A c \in BOOLEAN : c # b => f[c] = told[s][c]
  OBVIOUS
<1> HIDE DEF f
<1> QED
  BY <1>1, <1>2

\* The new server has no sessions.
LEMMA TransportInit == T!Init => TransportInv
<1> SUFFICES ASSUME T!Init PROVE TransportInv
  OBVIOUS
<1>1. Readers = {} /\ Counted = {}
  BY DEF T!Init, Readers, Counted
<1>2. refCount = T!Cardinality(Readers) /\ sessionCount = T!Cardinality(Counted)
  BY <1>1, CountChanges DEF T!Init
<1> QED
  BY <1>2 DEF T!Init, TransportInv, T!StoppedIsQuiet

\* Every step of the server keeps it.
LEMMA TransportStep == TransportInv /\ [T!Next]_transportVars => TransportInv'
<1> SUFFICES ASSUME TransportInv, [T!Next]_transportVars PROVE TransportInv'
  OBVIOUS
<1> USE DEF TransportInv
<1>r. Readers \in SUBSET Streams /\ Counted \in SUBSET Streams
  BY DEF Readers, Counted
<1>1. ASSUME UNCHANGED <<handler, session, told, refCount, sessionCount>>,
             \/ UNCHANGED <<stopping, late>>
             \/ stopping' # "end"
             \/ \A s \in Streams : session[s] \in {"none", "end"}
      PROVE  TransportInv'
  BY <1>1, Zenon DEF Readers, Counted, T!StoppedIsQuiet
<1>2. ASSUME NEW s \in Streams, T!Accept(s) \/ T!Count(s) \/ T!Tell(s) PROVE TransportInv'
  <2>1. UNCHANGED <<session, refCount, stopping, late>> /\ Readers' = Readers
    BY <1>2, Zenon DEF T!Accept, T!Count, T!Tell, Readers
  <2>2. CASE T!Accept(s)
    <3>1. Counted' = Counted /\ sessionCount' = sessionCount
      BY <2>2 DEF T!Accept, Counted
    <3> QED
      BY <2>1, <2>2, <3>1, ZenonT(30) DEF T!Accept, T!StoppedIsQuiet
  <2>3. CASE T!Count(s)
    <3>1. Counted' = Counted \union {s} /\ s \notin Counted
      BY <2>3, Zenon DEF T!Count, Counted
    <3>2. sessionCount' = T!Cardinality(Counted')
      BY <1>r, <2>3, <3>1, CountChanges DEF T!Count
    <3> QED
      BY <2>1, <2>3, <3>2, Zenon DEF T!Count, T!StoppedIsQuiet
  <2>4. CASE T!Tell(s)
    <3>1. Counted' = Counted /\ sessionCount' = sessionCount
      BY <2>4 DEF T!Tell, Counted
    <3>2. T!Told(s, TRUE) /\ handler[s] = "counted" /\ handler' = [handler EXCEPT ![s] = "told"]
      BY <2>4, Zenon DEF T!Tell
    <3>3. /\ told' \in [Streams -> [BOOLEAN -> Nat]] /\ told'[s][TRUE] = told[s][TRUE] + 1
          /\ \A u \in Streams : u # s => told'[u][TRUE] = told[u][TRUE]
          /\ \A u \in Streams : told'[u][FALSE] = told[u][FALSE]
      BY <3>2, ToldMore, ZenonT(30)
    <3>4. session[s] = "none" /\ told[s][TRUE] = 0
      BY <3>2, Zenon
    <3>5. told'[s][TRUE] = 1
      BY <3>3, <3>4
    <3>6. \A u \in Streams :
            /\ handler'[u] # "served" => session[u] = "none"
            /\ told'[u][TRUE] = IF handler'[u] = "told" \/ session[u] # "none" THEN 1 ELSE 0
            /\ told'[u][FALSE] = IF session[u] = "end" THEN 1 ELSE 0
      <4>1. /\ \A u \in Streams : u # s => told'[u][TRUE] = told[u][TRUE]
            /\ \A u \in Streams : told'[u][FALSE] = told[u][FALSE]
        BY <3>3, Zenon
      <4>2. \A u \in Streams : handler'[u] # "served" => session[u] = "none"
        BY <3>2, <3>4, Zenon
      <4>3. \A u \in Streams : u # s => handler'[u] = handler[u]
        BY <3>2
      <4>4. \A u \in Streams :
              told'[u][TRUE] = IF handler'[u] = "told" \/ session[u] # "none" THEN 1 ELSE 0
        <5>1. handler'[s] = "told"
          BY <3>2
        <5> QED
          BY <3>5, <4>1, <4>3, <5>1, ZenonT(30)
      <4> QED
        BY <4>1, <4>2, <4>4, ZenonT(30)
    <3> QED
      BY <2>1, <3>1, <3>2, <3>3, <3>6, ZenonT(30) DEF T!StoppedIsQuiet
  <2> QED
    BY <1>2, <2>2, <2>3, <2>4, Zenon
<1>3. ASSUME NEW s \in Streams, T!Serve(s) PROVE TransportInv'
  <2>1. /\ Readers' = Readers \union {s} /\ s \notin Readers
        /\ Counted' = Counted
    BY <1>3, Zenon DEF T!Serve, Readers, Counted
  <2>2. refCount' = T!Cardinality(Readers') /\ sessionCount' = T!Cardinality(Counted')
    BY <1>r, <1>3, <2>1, CountChanges DEF T!Serve
  <2> QED
    BY <1>3, <2>2, Zenon DEF T!Serve, T!StoppedIsQuiet
<1>4. ASSUME NEW s \in Streams, T!Frame(s) \/ T!Handled(s) \/ T!ReadFails(s) PROVE TransportInv'
  <2>1. /\ UNCHANGED <<handler, told, refCount, sessionCount, stopping, late>>
        /\ session[s] \in {"read", "handle"}
        /\ \E v \in {"read", "handle", "left"} : session' = [session EXCEPT ![s] = v]
    BY <1>4, Zenon DEF T!Frame, T!Handled, T!ReadFails
  <2>2. Readers' = Readers /\ Counted' = Counted
    BY <2>1 DEF Readers, Counted
  <2> QED
    BY <2>1, <2>2, ZenonT(30) DEF T!StoppedIsQuiet
<1>5. ASSUME NEW s \in Streams, T!SessionEnds(s) PROVE TransportInv'
  <2>1. /\ Readers' = Readers \ {s} /\ s \in Readers
        /\ Counted' = Counted \ {s} /\ s \in Counted
    BY <1>5, Zenon DEF T!SessionEnds, Readers, Counted
  <2>2. refCount' = T!Cardinality(Readers') /\ sessionCount' = T!Cardinality(Counted')
    BY <1>r, <1>5, <2>1, CountChanges DEF T!SessionEnds
  <2>3. /\ T!Told(s, FALSE) /\ session[s] = "left" /\ session' = [session EXCEPT ![s] = "end"]
        /\ UNCHANGED <<handler, stopping, late>>
    BY <1>5, Zenon DEF T!SessionEnds
  <2>4. /\ told' \in [Streams -> [BOOLEAN -> Nat]] /\ told'[s][FALSE] = told[s][FALSE] + 1
        /\ \A u \in Streams : u # s => told'[u][FALSE] = told[u][FALSE]
        /\ \A u \in Streams : told'[u][TRUE] = told[u][TRUE]
    BY <2>3, ToldMore, Zenon
  <2>5. handler[s] = "served" /\ told[s][FALSE] = 0
    BY <2>3, Zenon
  <2>6. told'[s][FALSE] = 1
    BY <2>4, <2>5
  <2>7. \A u \in Streams :
          /\ handler[u] # "served" => session'[u] = "none"
          /\ told'[u][TRUE] = IF handler[u] = "told" \/ session'[u] # "none" THEN 1 ELSE 0
          /\ told'[u][FALSE] = IF session'[u] = "end" THEN 1 ELSE 0
    <3>1. /\ \A u \in Streams : u # s => told'[u][FALSE] = told[u][FALSE]
          /\ \A u \in Streams : told'[u][TRUE] = told[u][TRUE]
      BY <2>4, Zenon
    <3>2. \A u \in Streams : u # s => session'[u] = session[u]
      BY <2>3
    <3>3. session'[s] = "end" /\ "end" # "none" /\ session[s] # "none"
      BY <2>3
    <3>4. \A u \in Streams : handler[u] # "served" => session'[u] = "none"
      BY <2>5, <3>2, Zenon
    <3>5. \A u \in Streams :
            told'[u][TRUE] = IF handler[u] = "told" \/ session'[u] # "none" THEN 1 ELSE 0
      BY <3>1, <3>2, <3>3, ZenonT(30)
    <3>6. \A u \in Streams : told'[u][FALSE] = IF session'[u] = "end" THEN 1 ELSE 0
      BY <2>6, <3>1, <3>2, <3>3, ZenonT(30)
    <3> QED
      BY <3>4, <3>5, <3>6, Zenon
  <2>8. session' \in [Streams -> {"none", "read", "handle", "left", "end"}] /\ T!StoppedIsQuiet'
    BY <2>3 DEF T!StoppedIsQuiet
  <2> QED
    BY <2>2, <2>3, <2>4, <2>7, <2>8, Zenon
<1>6. ASSUME NEW s \in Streams, T!PeerCloses(s) PROVE TransportInv'
  BY <1>1, <1>6, Zenon DEF T!PeerCloses
<1>7. CASE T!Stop
  BY <1>1, <1>7, Zenon DEF T!Stop
<1>8. CASE T!StopReturns
  <2>1. Readers = {}
    BY <1>r, <1>8, CountChanges, Zenon DEF T!StopReturns
  <2>2. \A s \in Streams : session[s] \in {"none", "end"}
    BY <2>1 DEF Readers
  <2> QED
    BY <1>1, <1>8, <2>2, Zenon DEF T!StopReturns
<1>9. CASE UNCHANGED transportVars
  BY <1>1, <1>9, Zenon DEF transportVars
<1> QED
  BY <1>2, <1>3, <1>4, <1>5, <1>6, <1>7, <1>8, <1>9, ZenonT(30) DEF T!Next, T!Goroutine

\* What is checked of the server follows.
LEMMA TransportAgrees == TransportInv => T!TypeOK /\ T!CountsAgree /\ T!StoppedIsQuiet
<1> SUFFICES ASSUME TransportInv PROVE T!TypeOK /\ T!CountsAgree /\ T!StoppedIsQuiet
  OBVIOUS
<1>1. Readers \in SUBSET Streams /\ Counted \in SUBSET Streams
  BY DEF Readers, Counted
<1>2. T!TypeOK
  BY <1>1, CountChanges DEF TransportInv, T!TypeOK
<1>3. T!CountsAgree
  <2>1. \A s \in Streams : told[s][FALSE] <= told[s][TRUE] /\ told[s][TRUE] <= 1
    <3>1. \A s \in Streams : told[s][FALSE] \in {0, 1} /\ told[s][TRUE] \in {0, 1}
      BY Zenon DEF TransportInv
    <3>2. \A s \in Streams : told[s][FALSE] = 1 => told[s][TRUE] = 1
      BY Zenon DEF TransportInv
    <3>3. \A a, b \in {0, 1} : (a = 1 => b = 1) => a <= b /\ b <= 1
      OBVIOUS
    <3> QED
      BY <3>1, <3>2, <3>3, Zenon
  <2>2. /\ refCount = T!Cardinality({s \in Streams : session[s] \in {"read", "handle", "left"}})
        /\ sessionCount = T!Cardinality({s \in Streams :
                             /\ handler[s] \in {"counted", "told"}
                                \/ session[s] \in {"read", "handle", "left"}})
    BY Zenon DEF TransportInv, Readers, Counted
  <2> QED
    BY <2>1, <2>2, Zenon DEF TransportInv, T!CountsAgree, Readers, Counted
<1> QED
  BY <1>2, <1>3 DEF TransportInv

------------------------------------------------------------------------------
(* The composition. *)

SuiteInit == /\ unit \in Units
             /\ Init /\ ClientInit /\ T!Init /\ P!Init
             /\ unit # "packet" => /\ stack = "webtransport" /\ raw = {}

RtcOnly(A)       == unit = "webrtc" /\ A
                    /\ UNCHANGED <<unit, clientVars, transportVars, packetVars>>
SfuOnly(A)       == unit = "sfu" /\ A
                    /\ UNCHANGED <<unit, ownVars, clientVars, transportVars, packetVars>>
ClientOnly(A)    == unit = "client" /\ A
                    /\ UNCHANGED <<unit, webrtcVars, transportVars, packetVars>>
TransportOnly(A) == unit = "transport" /\ A
                    /\ UNCHANGED <<unit, webrtcVars, clientVars, packetVars>>
PacketOnly(A)    == unit = "packet" /\ A
                    /\ UNCHANGED <<unit, webrtcVars, clientVars, transportVars>>

\* Bounds of "webrtc": tracks are published by the session that comes and goes, and
\* neither under a Stop nor while a broadcast is under way; nobody subscribes under a
\* Stop.
Small ==
  /\ stop' # "no" => tracks' = {} /\ cast' = {} /\ joining' = <<>>
  /\ \A t \in tracks' : t[1] \notin Steady
  /\ tracks' # {} => cast' \subseteq cast \/ tracks = {}

SuiteNext == \/ RtcOnly(Next /\ Small) \/ SfuOnly(SfuNext) \/ ClientOnly(ClientNext)
             \/ TransportOnly(T!Next) \/ PacketOnly(P!Next)

\* Goroutines run: the callbacks, the pumps and the sender of webrtc, the client's
\* timers, the sessions of webtransport.  A channel serves its waiting senders in turn.
SuiteSpec ==
  /\ SuiteInit /\ [][SuiteNext]_suiteVars
  /\ \A s \in Sessions : /\ WF_suiteVars(RtcOnly(Callback(s) /\ Small))
                         /\ WF_suiteVars(RtcOnly(writePump(s) /\ Small))
  /\ SF_suiteVars(RtcOnly(Each(CastOne) /\ Small))
  /\ WF_suiteVars(ClientOnly(Runs) \/ TransportOnly(T!Works))

------------------------------------------------------------------------------
\* The parts keep their types, and what they keep of their peers is what there is:
\* handlers hear of each session
\* once, a closed session is nowhere, a closed track feeds nobody, the client holds
\* its open connection, the counters of webtransport count its sessions, and Stop
\* leaves none of them running.
PeersAgree ==
  /\ TypeOK /\ ClientTypeOK /\ T!TypeOK /\ P!TypeOK
  /\ ToldOnce /\ ClosedIsGone /\ ClosedFeedsNobody
  /\ OpenIsHeld /\ HeldIsOpen
  /\ T!CountsAgree /\ T!StoppedIsQuiet

\* A message handler is given a payload its own Creator made, and each packet reaches
\* at most one handler, once, when both ends agree on the format.
PacketsReachTheirHandler == P!MadeByCallee /\ []P!OneHandlerEach

On(u, A) == unit = u /\ A

\* A broadcast comes to its end although sessions stop reading, the pump of a closed
\* session ends, Connect returns, and so does Stop of webtransport.
SessionsEnd ==
  /\ PumpEnds
  /\ (On("webrtc", cast # {}) \/ On("client", step # "idle") \/ On("transport", stopping = "wait"))
     ~> (On("webrtc", cast = {}) \/ On("client", step = "idle") \/ On("transport", stopping = "end"))

------------------------------------------------------------------------------
(* Proofs about the composition. *)

\* The sessions while the router runs alone.
Resting ==
  /\ joining = <<>> /\ done \subseteq Sessions /\ managed \subseteq Sessions
  /\ \A s \in Sessions : /\ opening[s] \in {"no", "add", "tell", "listen", "end"}
                         /\ closing[s] = "no" /\ connected[s] <= 1 /\ disconnected[s] = 0

\* The invariants of the parts, which hold together.
SuiteInv ==
  /\ RouterInv /\ BooksInv /\ ClientInv /\ TransportInv /\ PacketInv
  /\ IF unit = "sfu" THEN Resting ELSE SessionInv

\* They hold at first.
LEMMA SuiteInvInit == SuiteInit => SuiteInv
<1>1. Init => Resting
  BY RtcAssumption DEF Init, Resting
<1> QED
  BY <1>1, RouterInit, BooksInit, ClientInvInit, TransportInit, PacketInit, SessionInit,
     RtcAssumption, ZenonT(30) DEF SuiteInit, SuiteInv

\* Every step of the composition is a step of one part, and the others rest.
LEMMA SuiteStep ==
  SuiteInv /\ [SuiteNext]_suiteVars => SuiteInv' /\ [P!Next]_packetVars
<1> SUFFICES ASSUME SuiteInv, [SuiteNext]_suiteVars PROVE SuiteInv' /\ [P!Next]_packetVars
  OBVIOUS
<1>1. ASSUME UNCHANGED webrtcVars PROVE RouterInv' /\ BooksInv' /\ (SessionInv => SessionInv')
  <2>1. [Next]_webrtcVars
    BY <1>1, SMTT(30)
  <2> QED
    BY <2>1, RouterStep, BooksStep, SessionStep, Zenon DEF SuiteInv
<1>2. ASSUME UNCHANGED ownVars, Resting PROVE Resting'
  BY <1>2 DEF ownVars, sessionVars, Resting
<1>3. UNCHANGED webrtcVars => UNCHANGED ownVars
  BY Zenon DEF webrtcVars, ownVars, sessionVars
<1>4. ASSUME UNCHANGED clientVars PROVE ClientInv'
  BY <1>4, ClientStep, Zenon DEF SuiteInv
<1>5. ASSUME UNCHANGED transportVars PROVE TransportInv'
  BY <1>5, TransportStep, Zenon DEF SuiteInv
<1>6. ASSUME UNCHANGED packetVars PROVE PacketInv' /\ [P!Next]_packetVars
  BY <1>6, PacketStep, Zenon DEF SuiteInv
<1> DEFINE Own == IF unit = "sfu" THEN Resting ELSE SessionInv
<1>7. ASSUME UNCHANGED unit, UNCHANGED webrtcVars PROVE RouterInv' /\ BooksInv' /\ Own'
  BY <1>1, <1>2, <1>3, <1>7, Zenon DEF SuiteInv
<1> HIDE DEF Own
<1> DEFINE G == SuiteInv' /\ [P!Next]_packetVars
<1>8. ASSUME RtcOnly(Next /\ Small) PROVE G
  <2>1. Next /\ unit # "sfu" /\ unit' # "sfu" /\ UNCHANGED <<clientVars, transportVars, packetVars>>
    BY <1>8 DEF RtcOnly
  <2>2. RouterInv' /\ BooksInv' /\ SessionInv'
    BY <2>1, RouterStep, BooksStep, SessionStep, Zenon DEF SuiteInv
  <2> QED
    BY <1>4, <1>5, <1>6, <2>1, <2>2, Zenon DEF SuiteInv
<1>9. ASSUME SfuOnly(SfuNext) PROVE G
  <2>1. /\ SfuNext /\ unit = "sfu" /\ unit' = "sfu" /\ UNCHANGED ownVars
        /\ UNCHANGED <<clientVars, transportVars, packetVars>>
    BY <1>9 DEF SfuOnly
  <2>2. Resting /\ joining = <<>>
    BY <2>1, Zenon DEF SuiteInv, Resting
  <2>3. RouterInv' /\ BooksInv' /\ Resting'
    BY <1>2, <2>1, <2>2, SfuStep, Zenon DEF SuiteInv
  <2> QED
    BY <1>4, <1>5, <1>6, <2>1, <2>3, Zenon DEF SuiteInv
<1>10. ASSUME ClientOnly(ClientNext) PROVE G
  <2>1. /\ ClientNext /\ UNCHANGED unit /\ UNCHANGED webrtcVars
        /\ UNCHANGED <<transportVars, packetVars>>
    BY <1>10 DEF ClientOnly
  <2>2. ClientInv'
    BY <2>1, ClientStep, Zenon DEF SuiteInv
  <2> QED
    BY <1>5, <1>6, <1>7, <2>1, <2>2, Zenon DEF SuiteInv, Own
<1>11. ASSUME TransportOnly(T!Next) PROVE G
  <2>1. /\ T!Next /\ UNCHANGED unit /\ UNCHANGED webrtcVars
        /\ UNCHANGED <<clientVars, packetVars>>
    BY <1>11 DEF TransportOnly
  <2>2. TransportInv'
    BY <2>1, TransportStep, Zenon DEF SuiteInv
  <2> QED
    BY <1>4, <1>6, <1>7, <2>1, <2>2, Zenon DEF SuiteInv, Own
<1>12. ASSUME PacketOnly(P!Next) PROVE G
  <2>1. /\ P!Next /\ UNCHANGED unit /\ UNCHANGED webrtcVars
        /\ UNCHANGED <<clientVars, transportVars>>
    BY <1>12 DEF PacketOnly
  <2>2. PacketInv' /\ [P!Next]_packetVars
    BY <2>1, PacketStep, Zenon DEF SuiteInv
  <2> QED
    BY <1>4, <1>5, <1>7, <2>1, <2>2, Zenon DEF SuiteInv, Own
<1>13. ASSUME UNCHANGED suiteVars PROVE G
  <2>1. /\ UNCHANGED unit /\ UNCHANGED webrtcVars
        /\ UNCHANGED <<clientVars, transportVars, packetVars>>
    BY <1>13 DEF suiteVars
  <2> QED
    BY <1>4, <1>5, <1>6, <1>7, <2>1, Zenon DEF SuiteInv, Own
<1> HIDE DEF G
<1>14. G
  BY <1>8, <1>9, <1>10, <1>11, <1>12, <1>13, Zenon DEF SuiteNext
<1> QED
  BY <1>14 DEF G

\* What is checked of the parts follows from their invariants.
LEMMA SuiteAgrees == SuiteInv => PeersAgree
<1> SUFFICES ASSUME SuiteInv PROVE PeersAgree
  OBVIOUS
<1>1. /\ done \subseteq Sessions /\ managed \subseteq Sessions
      /\ \A s \in Sessions : /\ opening[s] \in {"no", "add", "tell", "listen", "end"}
                             /\ closing[s] \in {"no", "conn", "tracks", "end"}
  BY DEF SuiteInv, Resting, SessionInv
<1>2. SfuTypeOK /\ \A s \in Sessions : queue[s] \in 0 .. QueueCap
  BY DEF SuiteInv, RouterInv, BooksInv, SfuTypeOK
<1>3. TypeOK
  BY <1>1, <1>2, Zenon DEF TypeOK
<1>4. ToldOnce /\ ClosedIsGone
  <2>1. CASE unit = "sfu"
    BY <2>1 DEF SuiteInv, Resting, ToldOnce, ClosedIsGone
  <2>2. CASE unit # "sfu"
    BY <2>2 DEF SuiteInv, SessionInv, ToldOnce, ClosedIsGone
  <2> QED
    BY <2>1, <2>2
<1>5. ClientTypeOK /\ OpenIsHeld /\ HeldIsOpen /\ P!TypeOK /\ ClosedFeedsNobody
  BY Zenon DEF SuiteInv, ClientInv, PacketInv, RouterInv
<1> QED
  BY <1>3, <1>4, <1>5, TransportAgrees, Zenon DEF SuiteInv, PeersAgree

\* For any numbers of sessions, tracks, connections, streams and packets, and whatever
\* the order of the callbacks: the handlers hear of a session once, a closed session and
\* a closed track are nowhere, the client holds its open connection, and the counters of
\* webtransport count its sessions.
THEOREM PeersAlwaysAgree == SuiteSpec => []PeersAgree
<1>1. SuiteInv /\ [SuiteNext]_suiteVars => SuiteInv'
  BY SuiteStep
<1> QED
  BY <1>1, SuiteInvInit, SuiteAgrees, PTL DEF SuiteSpec

\* In any of the four stacks a handler is given what its own Creator made, but for the
\* websocket server's second look-up, and a packet reaches one handler, once.
THEOREM PacketsAlwaysReach == SuiteSpec => PacketsReachTheirHandler
<1> DEFINE Made == \A c \in calls' \ calls : c[2] = c[3] \/ (stack = "websocket" /\ swapped)
<1>1. SuiteInv /\ [SuiteNext]_suiteVars => SuiteInv'
  BY SuiteStep
<1>2. SuiteInv /\ [SuiteNext]_suiteVars => [Made]_packetVars
  BY SuiteStep, CalleeStep DEF SuiteInv
<1>3. SuiteInv => P!OneHandlerEach
  BY Zenon DEF SuiteInv, PacketInv, CalledOnce, P!OneHandlerEach
<1>4. P!MadeByCallee <=> [][Made]_packetVars
  BY PTL DEF P!MadeByCallee, P!packetVars, packetVars
<1> QED
  BY <1>1, <1>2, <1>3, <1>4, SuiteInvInit, PTL DEF SuiteSpec, PacketsReachTheirHandler
==============================================================================
