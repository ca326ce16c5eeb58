------------------------------ MODULE WebSocket ------------------------------
(***************************************************************************)
(* transport/websocket: sessions, their read and write pumps, and the      *)
(* SessionManager.  Session.Close runs once: its steps belong to the       *)
(* session (closing), and every caller waits for the last of them.         *)
(***************************************************************************)
EXTENDS Integers, Sequences

CONSTANTS Sessions,
          Stalled,            \* sessions whose peer may stay connected and stop reading
          Endless,            \* sessions whose message handler may never return
          SendBuf,            \* capacity of the send channel
          MaxSends            \* bound: broadcasts

VARIABLES handler,            \* per session: wsHandler
          known,              \* sessionManager.sessions
          done, connected,    \* sessions whose done is closed; whose connection is open
          closing,            \* per session: how far Close has come
          writer, reader,     \* per session: the pumps
          send,               \* per session: messages in the send channel
          cleaning, toClose,  \* Clean, and the sessions it still has to close
          sender, sends,      \* sessions a Broadcast still has to send to; broadcasts
          removals            \* per session: calls of OnSessionRemoved

sessionVars == <<handler, known, done, connected, closing, writer, reader, send,
                 cleaning, toClose, sender, sends, removals>>

Init ==
  /\ handler = [s \in Sessions |-> "upgrade"] /\ known = {}
  /\ done = {} /\ connected = {}
  /\ closing = [s \in Sessions |-> "open"]
  /\ writer = [s \in Sessions |-> "none"] /\ reader = [s \in Sessions |-> "none"]
  /\ send = [s \in Sessions |-> 0]
  /\ cleaning = "no" /\ toClose = {}
  /\ sender = {} /\ sends = 0
  /\ removals = [s \in Sessions |-> 0]

------------------------------------------------------------------------------
(* wsHandler *)

\* Faulty variant: the pumps run before the session is added.
Upgrade_Listens(s) ==
  /\ handler[s] = "upgrade" /\ handler' = [handler EXCEPT ![s] = "add"]
  /\ connected' = connected \union {s}
  /\ writer' = [writer EXCEPT ![s] = "select"] /\ reader' = [reader EXCEPT ![s] = "read"]
  /\ UNCHANGED <<known, done, closing, send, cleaning, toClose, sender, sends, removals>>

Upgrade(s) ==
  /\ handler[s] = "upgrade" /\ handler' = [handler EXCEPT ![s] = "add"]
  /\ connected' = connected \union {s}
  /\ UNCHANGED <<known, done, closing, writer, reader, send, cleaning, toClose, sender, sends, removals>>

\* The store. A Clean under way may or may not come across the session.
AddSession(s) ==
  /\ handler[s] = "add" /\ handler' = [handler EXCEPT ![s] = "announce"]
  /\ known' = known \union {s}
  /\ toClose' \in {toClose} \union (IF cleaning = "range" THEN {toClose \union {s}} ELSE {})
  /\ UNCHANGED <<done, connected, closing, writer, reader, send, cleaning, sender, sends, removals>>

\* The connect handler is told, maybe after it was told of the disconnect.
OnSessionAdded(s) ==
  /\ handler[s] = "announce" /\ handler' = [handler EXCEPT ![s] = "listen"]
  /\ UNCHANGED <<known, done, connected, closing, writer, reader, send, cleaning, toClose, sender, sends, removals>>

Listen(s) ==
  /\ handler[s] = "listen" /\ handler' = [handler EXCEPT ![s] = "returned"]
  /\ writer' = [writer EXCEPT ![s] = "select"] /\ reader' = [reader EXCEPT ![s] = "read"]
  /\ UNCHANGED <<known, done, connected, closing, send, cleaning, toClose, sender, sends, removals>>

------------------------------------------------------------------------------
(* Session.Close *)

\* A pump or Clean enters closeOnce.Do; the first closes done.
Begin(s) == IF closing[s] = "open"
            THEN done' = done \union {s} /\ closing' = [closing EXCEPT ![s] = "disconnect"]
            ELSE UNCHANGED <<done, closing>>

\* closeConnect, removeSession's Delete, and OnSessionRemoved.
CloseConnect(s) ==
  /\ closing[s] = "disconnect" /\ closing' = [closing EXCEPT ![s] = "delete"]
  /\ connected' = connected \ {s}
  /\ UNCHANGED <<handler, known, done, writer, reader, send, cleaning, toClose, sender, sends, removals>>

RemoveSession(s) ==
  /\ closing[s] = "delete" /\ closing' = [closing EXCEPT ![s] = "notify"]
  /\ known' = known \ {s}
  /\ UNCHANGED <<handler, done, connected, writer, reader, send, cleaning, toClose, sender, sends, removals>>

OnSessionRemoved(s) ==
  /\ closing[s] = "notify" /\ closing' = [closing EXCEPT ![s] = "closed"]
  /\ removals' = [removals EXCEPT ![s] = @ + 1]
  /\ UNCHANGED <<handler, known, done, connected, writer, reader, send, cleaning, toClose, sender, sends>>

------------------------------------------------------------------------------
(* The pumps *)

\* Faulty variant: the write pump looks at done only when it has a message.
WriterStops_AtMessage(s) ==
  /\ writer[s] = "select" /\ s \in done /\ send[s] > 0
  /\ writer' = [writer EXCEPT ![s] = "closing"] /\ Begin(s)
  /\ UNCHANGED <<handler, known, connected, reader, send, cleaning, toClose, sender, sends, removals>>

\* The select of the write pump: done.
WriterStops(s) ==
  /\ writer[s] = "select" /\ s \in done
  /\ writer' = [writer EXCEPT ![s] = "closing"] /\ Begin(s)
  /\ UNCHANGED <<handler, known, connected, reader, send, cleaning, toClose, sender, sends, removals>>

\* The select of the write pump: a message.
WriterTakes(s) ==
  /\ writer[s] = "select" /\ send[s] > 0
  /\ writer' = [writer EXCEPT ![s] = "write"] /\ send' = [send EXCEPT ![s] = @ - 1]
  /\ UNCHANGED <<handler, known, done, connected, closing, reader, cleaning, toClose, sender, sends, removals>>

\* The message is written, once the peer has room for it, or dropped because s.conn is nil by now.
Written(s) ==
  /\ writer[s] = "write" /\ writer' = [writer EXCEPT ![s] = "select"]
  /\ UNCHANGED <<handler, known, done, connected, closing, reader, send, cleaning, toClose, sender, sends, removals>>

\* The write fails.
WriteFails(s) ==
  /\ writer[s] = "write" /\ writer' = [writer EXCEPT ![s] = "closing"] /\ Begin(s)
  /\ UNCHANGED <<handler, known, connected, reader, send, cleaning, toClose, sender, sends, removals>>

\* done, s.conn is nil, or ReadMessage fails because the connection is closed.
ReaderStops(s) ==
  /\ reader[s] = "read" /\ (s \in done \/ s \notin connected)
  /\ reader' = [reader EXCEPT ![s] = "closing"] /\ Begin(s)
  /\ UNCHANGED <<handler, known, connected, writer, send, cleaning, toClose, sender, sends, removals>>

\* The peer closes, or the network does: ReadMessage fails.
PeerCloses(s) ==
  /\ reader[s] = "read" /\ s \in connected
  /\ reader' = [reader EXCEPT ![s] = "closing"] /\ Begin(s)
  /\ UNCHANGED <<handler, known, connected, writer, send, cleaning, toClose, sender, sends, removals>>

\* ReadMessage returns a message: the application's handler runs in the read pump.
ReadMessage(s) ==
  /\ reader[s] = "read" /\ s \in connected
  /\ reader' = [reader EXCEPT ![s] = "handle"]
  /\ UNCHANGED <<handler, known, done, connected, closing, writer, send, cleaning, toClose, sender, sends, removals>>

\* handleSocketRawData returns; its error is ignored.
Handled(s) ==
  /\ reader[s] = "handle"
  /\ reader' = [reader EXCEPT ![s] = "read"]
  /\ UNCHANGED <<handler, known, done, connected, closing, writer, send, cleaning, toClose, sender, sends, removals>>

\* The deferred Close returns, then wg.Done.
WriterEnds(s) ==
  /\ writer[s] = "closing" /\ closing[s] = "closed" /\ writer' = [writer EXCEPT ![s] = "ended"]
  /\ UNCHANGED <<handler, known, done, connected, closing, reader, send, cleaning, toClose, sender, sends, removals>>

ReaderEnds(s) ==
  /\ reader[s] = "closing" /\ closing[s] = "closed" /\ reader' = [reader EXCEPT ![s] = "ended"]
  /\ UNCHANGED <<handler, known, done, connected, closing, writer, send, cleaning, toClose, sender, sends, removals>>

------------------------------------------------------------------------------
(* SessionManager.Clean, called by Stop and at the end of Start *)

Clean ==
  /\ cleaning = "no" /\ cleaning' = "range" /\ toClose' = known
  /\ UNCHANGED <<handler, known, done, connected, closing, writer, reader, send, sender, sends, removals>>

CleanCloses(s) ==
  /\ cleaning = "range" /\ s \in toClose /\ closing[s] = "open" /\ Begin(s)
  /\ UNCHANGED <<handler, known, connected, writer, reader, send, cleaning, toClose, sender, sends, removals>>

\* Close has returned to Clean.
CleanNext(s) ==
  /\ cleaning = "range" /\ s \in toClose /\ closing[s] = "closed"
  /\ toClose' = toClose \ {s}
  /\ UNCHANGED <<handler, known, done, connected, closing, writer, reader, send, cleaning, sender, sends, removals>>

\* sessions.Clear()
CleanEnds ==
  /\ cleaning = "range" /\ toClose = {} /\ cleaning' = "cleaned" /\ known' = {}
  /\ UNCHANGED <<handler, done, connected, closing, writer, reader, send, toClose, sender, sends, removals>>

------------------------------------------------------------------------------
(* SendMessage and Broadcast *)

\* RangeSessions takes a snapshot; SendMessage looks one session up.
Broadcast ==
  /\ sender = {} /\ sends < MaxSends /\ sends' = sends + 1
  /\ known # {} /\ sender' \in {known} \union {{s} : s \in known}
  /\ UNCHANGED <<handler, known, done, connected, closing, writer, reader, send, cleaning, toClose, removals>>

\* Session.SendMessage: s.send <- message
Sends(s) ==
  /\ s \in sender /\ send[s] < SendBuf
  /\ send' = [send EXCEPT ![s] = @ + 1] /\ sender' = sender \ {s}
  /\ UNCHANGED <<handler, known, done, connected, closing, writer, reader, cleaning, toClose, sends, removals>>

\* Faulty variant: the session's end is looked at only if there is room.
SendSkips_IfRoom(s) ==
  /\ s \in sender /\ s \in done /\ send[s] < SendBuf /\ sender' = sender \ {s}
  /\ UNCHANGED <<handler, known, done, connected, closing, writer, reader, send, cleaning, toClose, sends, removals>>

\* Session.SendMessage: <-s.done
SendSkips(s) ==
  /\ s \in sender /\ s \in done /\ sender' = sender \ {s}
  /\ UNCHANGED <<handler, known, done, connected, closing, writer, reader, send, cleaning, toClose, sends, removals>>

------------------------------------------------------------------------------
HandlerStep(s) == AddSession(s) \/ OnSessionAdded(s) \/ Listen(s)
CloseStep(s)   == CloseConnect(s) \/ RemoveSession(s) \/ OnSessionRemoved(s)
WriterStep(s)  == WriterStops(s) \/ WriterTakes(s) \/ WriterEnds(s)
WriteStep(s)   == Written(s) \/ WriteFails(s)
ReaderStep(s)  == ReaderStops(s) \/ ReaderEnds(s)

\* A write returns: the peer reads, or the connection is closed and the write fails.
Returns(s) == s \notin Stalled \/ s \notin connected
CleanStep      == CleanEnds \/ \E s \in Sessions : CleanCloses(s) \/ CleanNext(s)
SendStep       == \E s \in Sessions : Sends(s) \/ SendSkips(s)

Next == \/ Clean \/ CleanStep \/ Broadcast \/ SendStep
        \/ \E s \in Sessions : \/ Upgrade(s) \/ HandlerStep(s) \/ CloseStep(s)
                               \/ WriterStep(s) \/ WriteStep(s)
                               \/ ReaderStep(s) \/ PeerCloses(s)
                               \/ ReadMessage(s) \/ Handled(s)

\* Every goroutine that can take a step takes one.  There is no write deadline, so a
\* write to a peer of Stalled may last until the connection is closed; the handler
\* of a session of Endless may never return.
Fairness == /\ WF_sessionVars(CleanStep) /\ WF_sessionVars(SendStep)
            /\ \A s \in Sessions : /\ WF_sessionVars(HandlerStep(s)) /\ WF_sessionVars(CloseStep(s))
                                   /\ WF_sessionVars(WriterStep(s)) /\ WF_sessionVars(ReaderStep(s))
                                   /\ WF_sessionVars(WriteStep(s) /\ Returns(s))
                                   /\ WF_sessionVars(Handled(s) /\ s \notin Endless)

Spec == Init /\ [][Next]_sessionVars /\ Fairness

------------------------------------------------------------------------------
(* Properties. *)

\* A session that is closed is not in the manager's map, and its disconnect was
\* reported once: nothing puts a dead session back.
ClosedIsOut == \A s \in Sessions : closing[s] = "closed" => s \notin known /\ removals[s] = 1

\* Whoever ends a session, its disconnect is reported and both of its pumps end, the
\* read pump unless it is inside a handler that does not return; a write that waits
\* for the peer is ended by the closed connection.
SessionEnds ==
  \A s \in Sessions :
    s \in done ~> /\ closing[s] = "closed" /\ writer[s] = "ended"
                  /\ reader[s] = "ended" \/ (s \in Endless /\ reader[s] = "handle")

\* A Broadcast comes to its end, although sessions close with their channels full,
\* unless it has come to a session that is open, whose channel is full and whose
\* write pump waits for a peer that does not read.
SendReturns ==
  sender # {} ~>
    \/ sender = {}
    \/ \E s \in sender : s \notin done /\ send[s] = SendBuf /\ writer[s] = "write" /\ ~Returns(s)
==============================================================================
