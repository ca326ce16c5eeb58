------------------------------ MODULE NetPacket ------------------------------
(***************************************************************************)
(* The message layer of transport/websocket, webrtc and webtransport: a    *)
(* message type and a payload are packed into one packet, and the receiver *)
(* looks its handler up by the type, makes the payload with the handler's  *)
(* own Creator and calls it.  Handlers come and go meanwhile; the maps of  *)
(* webtransport have no lock and are filled before the first message.      *)
(*                                                                         *)
(* A packet is binary (a little-endian uint32 and the payload) or text     *)
(* (JSON); what a text receiver makes of a binary packet is an error, and  *)
(* a binary one reads some type out of the first bytes of a text packet.   *)
(***************************************************************************)
EXTENDS Integers, Sequences

CONSTANTS Stacks,           \* subset of {"websocket", "webrtc", "rtcclient", "webtransport"}:
                            \* who receives
          Types, Handlers, MaxSent

Modes == {"binary", "text"}

VARIABLES stack, sender, receiver,  \* the mode of either end
          handlers,         \* type -> handler or "none"
          raw,              \* handlers without a Creator: they take the bytes
          wire,             \* packets: <<mode, type, payload>>
          decoding,         \* <<>> or <<type, handler that made the payload, payload>>
          calls,            \* <<type, handler, made by, payload>> of every call so far
          sent, swapped     \* history: the handler of a type changed since the packet
                            \* under way was decoded

packetVars == <<stack, sender, receiver, handlers, raw, wire, decoding, calls, sent,
                swapped>>

\* The constructors and their options; webtransport is binary only.
Init ==
  /\ stack \in Stacks /\ sender \in Modes /\ receiver \in Modes
  /\ (stack = "webtransport" => sender = "binary" /\ receiver = "binary")
  /\ raw \in {{}, Handlers}
  /\ handlers = [t \in Types |-> "none"] /\ wire = <<>> /\ decoding = <<>> /\ calls = {}
  /\ sent = 0 /\ swapped = FALSE

MayChange == stack = "webtransport" => sent = 0

Sets(t, h) ==
  /\ MayChange /\ handlers' = [handlers EXCEPT ![t] = h]
  /\ swapped' = (swapped \/ (decoding # <<>> /\ decoding[1] = t))
  /\ UNCHANGED <<stack, sender, receiver, raw, wire, decoding, calls, sent>>

\* RegisterMessageHandler of each stack: the first one stays.
Registers(k, t, h) == stack = k /\ handlers[t] = "none" /\ Sets(t, h)
WebsocketRegister(t, h) == Registers("websocket", t, h)
WebrtcRegister(t, h) == Registers("webrtc", t, h)
ClientRegister(t, h) == Registers("rtcclient", t, h)
WebtransportRegister(t, h) == Registers("webtransport", t, h)
RegisterMessageHandler(t, h) ==
  \/ WebsocketRegister(t, h) \/ WebrtcRegister(t, h) \/ ClientRegister(t, h)
  \/ WebtransportRegister(t, h)

DeregisterMessageHandler(t) == handlers[t] # "none" /\ Sets(t, "none")

\* SendMessage: marshalMessage, then the session's queue or the data channel.
Sends(k, t) ==
  /\ stack = k /\ sent < MaxSent /\ sent' = sent + 1
  /\ wire' = Append(wire, <<sender, t, sent + 1>>)
  /\ UNCHANGED <<stack, sender, receiver, handlers, raw, decoding, calls, swapped>>
WebsocketSend(t) == Sends("websocket", t)
ClientSend(t) == Sends("webrtc", t)
WebrtcSend(t) == Sends("rtcclient", t)
\* A peer that is not this package's client, for webtransport.
PeerSends(t) == Sends("webtransport", t)
\* The webtransport client: its SendRawData drops what it is given.
WebtransportSend ==
  /\ stack = "webtransport" /\ sent < MaxSent /\ sent' = sent + 1
  /\ UNCHANGED <<stack, sender, receiver, handlers, raw, wire, decoding, calls, swapped>>
SendMessage ==
  \/ \E t \in Types : WebsocketSend(t) \/ ClientSend(t) \/ WebrtcSend(t) \/ PeerSends(t)
  \/ WebtransportSend

\* What the receiver takes for the type: an error gives none.
Read(mode, p) == CASE mode = p[1] -> {p[2]}
                   [] mode = "text" /\ p[1] = "binary" -> {}
                   [] OTHER -> Types \union {"other"}

\* Unmarshal and the look-up; without a handler, and if the payload does not fit the
\* handler's struct, the packet is dropped.  A raw handler takes any payload.
Decodes(k) ==
  /\ stack = k /\ wire # <<>> /\ decoding = <<>> /\ wire' = Tail(wire) /\ swapped' = FALSE
  /\ \/ \E t \in Read(receiver, wire[1]) \cap Types :
          /\ handlers[t] # "none"
          /\ t = wire[1][2] \/ handlers[t] \in raw
          /\ decoding' = <<t, handlers[t], wire[1][3]>>
     \/ /\ Read(receiver, wire[1]) = {} \/ receiver # wire[1][1]
           \/ \A t \in Read(receiver, wire[1]) \cap Types : handlers[t] = "none"
        /\ UNCHANGED decoding
  /\ UNCHANGED <<stack, sender, receiver, handlers, raw, calls, sent>>
WebsocketDecode == Decodes("websocket")
WebrtcDecode == Decodes("webrtc")
ClientDecode == Decodes("rtcclient")
WebtransportDecode == Decodes("webtransport")
Decode == WebsocketDecode \/ WebrtcDecode \/ ClientDecode \/ WebtransportDecode

Calls(h) ==
  /\ decoding' = <<>>
  /\ calls' = IF h = "none" THEN calls
              ELSE calls \union {<<decoding[1], h, decoding[2], decoding[3]>>}
  /\ UNCHANGED <<stack, sender, receiver, handlers, raw, wire, sent, swapped>>

\* websocket looks the handler up a second time and calls that one.
WebsocketCall == stack = "websocket" /\ decoding # <<>> /\ Calls(handlers[decoding[1]])

\* Faulty variant: webrtc looks it up a second time too.
WebrtcCall_Again == stack = "webrtc" /\ decoding # <<>> /\ Calls(handlers[decoding[1]])

\* The others call the handler found.
WebrtcCall == stack = "webrtc" /\ decoding # <<>> /\ Calls(decoding[2])
ClientCall == stack = "rtcclient" /\ decoding # <<>> /\ Calls(decoding[2])
WebtransportCall == stack = "webtransport" /\ decoding # <<>> /\ Calls(decoding[2])
Call == WebsocketCall \/ WebrtcCall \/ ClientCall \/ WebtransportCall

Next == \/ \E t \in Types : \/ \E h \in Handlers : RegisterMessageHandler(t, h)
                            \/ DeregisterMessageHandler(t)
        \/ SendMessage \/ Decode \/ Call
Spec == Init /\ [][Next]_packetVars

------------------------------------------------------------------------------
\* The type of the state.
TypeOK == /\ stack \in Stacks /\ sent \in 0..MaxSent /\ Len(wire) <= MaxSent
          /\ handlers \in [Types -> Handlers \union {"none"}] /\ swapped \in BOOLEAN

\* A handler is only given a payload its own Creator made, but for a websocket server
\* whose handler for the type was changed between the two look-ups.
MadeByCallee ==
  [][\A c \in calls' \ calls : c[2] = c[3] \/ (stack = "websocket" /\ swapped)]_packetVars

\* If both ends use the same packet format, a packet reaches at most one handler, and
\* reaches it once.
OneHandlerEach ==
  sender = receiver => \A c, d \in calls : c[4] = d[4] => c = d
===============================================================================
