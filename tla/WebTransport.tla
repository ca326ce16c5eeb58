----------------------------- MODULE WebTransport -----------------------------
(***************************************************************************)
(* transport/webtransport/server.go: a session is the goroutine that reads *)
(* the hijacked stream of a CONNECT request, counted by sessionCount and   *)
(* by the wait group refCount that Stop waits for.  The HTTP/3 server is   *)
(* external: Close ends the streams and the handlers that still run.       *)
(***************************************************************************)
EXTENDS Integers, FiniteSets

CONSTANTS Streams,          \* the CONNECT requests
          Kinds             \* frames a peer sends: subset of {"empty", "known", "unknown"}

VARIABLES handler,          \* stream -> "none", "accepted", "counted", "told", "served":
                            \* where addHandler is
          session,          \* stream -> "none", "read", "handle", "left", "end"
          streamOpen,       \* streams that are open
          sessionCount, refCount,
          told,             \* stream -> how often connectHandler heard TRUE, FALSE
          dispatched,       \* stream -> frames given to a message handler
          serving, stopping,  \* Server: serving; Stop: "no", "wait", "end"
          late              \* history: streams counted after Stop began to wait

transportVars == <<handler, session, streamOpen, sessionCount, refCount, told, dispatched,
                   serving, stopping, late>>

Told(s, b) == told' = [told EXCEPT ![s][b] = @ + 1]

\* NewServer, Start.
Init ==
  /\ handler = [s \in Streams |-> "none"] /\ session = [s \in Streams |-> "none"]
  /\ streamOpen = {} /\ sessionCount = 0 /\ refCount = 0
  /\ told = [s \in Streams |-> [b \in BOOLEAN |-> 0]]
  /\ dispatched = [s \in Streams |-> 0] /\ serving = TRUE /\ stopping = "no" /\ late = {}

\* addHandler: a CONNECT for webtransport is accepted, any other request refused.
Accept(s) ==
  /\ serving /\ handler[s] = "none"
  /\ \/ handler' = [handler EXCEPT ![s] = "accepted"] /\ streamOpen' = streamOpen \union {s}
     \/ handler' = [handler EXCEPT ![s] = "served"] /\ UNCHANGED streamOpen
  /\ UNCHANGED <<session, sessionCount, refCount, told, dispatched, serving, stopping, late>>
Count(s) ==
  /\ handler[s] = "accepted" /\ handler' = [handler EXCEPT ![s] = "counted"]
  /\ sessionCount' = sessionCount + 1
  /\ UNCHANGED <<session, streamOpen, refCount, told, dispatched, serving, stopping, late>>
Tell(s) ==
  /\ handler[s] = "counted" /\ handler' = [handler EXCEPT ![s] = "told"] /\ Told(s, TRUE)
  /\ UNCHANGED <<session, streamOpen, sessionCount, refCount, dispatched, serving, stopping,
                 late>>

\* refCount.Add and the goroutine: Stop may have begun to wait already.
Serve(s) ==
  /\ handler[s] = "told" /\ handler' = [handler EXCEPT ![s] = "served"]
  /\ refCount' = refCount + 1 /\ session' = [session EXCEPT ![s] = "read"]
  /\ late' = (IF stopping # "no" THEN late \union {s} ELSE late)
  /\ UNCHANGED <<streamOpen, sessionCount, told, dispatched, serving, stopping>>

\* serveSession: a frame; an empty one, and one without a handler, is passed over.
Frame(s) ==
  /\ session[s] = "read" /\ s \in streamOpen
  /\ \E k \in Kinds : session' = [session EXCEPT ![s] = IF k = "known" THEN "handle" ELSE "read"]
  /\ UNCHANGED <<handler, streamOpen, sessionCount, refCount, told, dispatched, serving,
                 stopping, late>>

\* messageHandler returns; its error is logged.  The frame count is kept up to one.
Handled(s) ==
  /\ session[s] = "handle" /\ session' = [session EXCEPT ![s] = "read"]
  /\ dispatched' = [dispatched EXCEPT ![s] = 1]
  /\ UNCHANGED <<handler, streamOpen, sessionCount, refCount, told, serving, stopping, late>>

\* The peer closes its stream.
PeerCloses(s) ==
  /\ s \in streamOpen /\ streamOpen' = streamOpen \ {s}
  /\ UNCHANGED <<handler, session, sessionCount, refCount, told, dispatched, serving,
                 stopping, late>>

\* A read error ends the loop; the deferred functions count down and tell.
ReadFails(s) ==
  /\ session[s] = "read" /\ s \notin streamOpen /\ session' = [session EXCEPT ![s] = "left"]
  /\ UNCHANGED <<handler, streamOpen, sessionCount, refCount, told, dispatched, serving,
                 stopping, late>>

\* Faulty variant: the wait group is not counted down.
SessionEnds_NoDone(s) ==
  /\ session[s] = "left" /\ session' = [session EXCEPT ![s] = "end"]
  /\ sessionCount' = sessionCount - 1 /\ Told(s, FALSE) /\ UNCHANGED refCount
  /\ UNCHANGED <<handler, streamOpen, dispatched, serving, stopping, late>>

SessionEnds(s) ==
  /\ session[s] = "left" /\ session' = [session EXCEPT ![s] = "end"]
  /\ sessionCount' = sessionCount - 1 /\ Told(s, FALSE) /\ refCount' = refCount - 1
  /\ UNCHANGED <<handler, streamOpen, dispatched, serving, stopping, late>>

\* Stop: Server.Close ends every stream, then refCount.Wait.
Stop ==
  /\ stopping = "no" /\ stopping' = "wait" /\ serving' = FALSE /\ streamOpen' = {}
  /\ UNCHANGED <<handler, session, sessionCount, refCount, told, dispatched, late>>
StopReturns ==
  /\ stopping = "wait" /\ refCount = 0 /\ stopping' = "end"
  /\ UNCHANGED <<handler, session, streamOpen, sessionCount, refCount, told, dispatched,
                 serving, late>>

Goroutine(s) == \/ Count(s) \/ Tell(s) \/ Serve(s) \/ Handled(s) \/ ReadFails(s)
                \/ SessionEnds(s)
Next == \/ \E s \in Streams : Accept(s) \/ Frame(s) \/ PeerCloses(s) \/ Goroutine(s)
        \/ Stop \/ StopReturns

Works == StopReturns \/ \E s \in Streams : Goroutine(s)
Spec == Init /\ [][Next]_transportVars /\ WF_transportVars(Works)

------------------------------------------------------------------------------
\* The type of the state.
TypeOK ==
  /\ refCount \in 0..Cardinality(Streams) /\ sessionCount \in 0..Cardinality(Streams)
  /\ \A s \in Streams : session[s] \in {"none", "read", "handle", "left", "end"}

\* sessionCount is the number of sessions whose start was counted and whose end was
\* not, refCount the number of goroutines; the connect handler hears of the end of
\* exactly the sessions it heard the start of.
CountsAgree ==
  /\ refCount = Cardinality({s \in Streams : session[s] \in {"read", "handle", "left"}})
  /\ sessionCount = Cardinality({s \in Streams :
                       /\ handler[s] \in {"counted", "told"}
                          \/ session[s] \in {"read", "handle", "left"}})
  /\ \A s \in Streams : told[s][FALSE] <= told[s][TRUE] /\ told[s][TRUE] <= 1

\* When Stop has returned no session runs, but for those of requests that were
\* between CONNECT and refCount.Add when it began.
StoppedIsQuiet ==
  stopping = "end" =>
    \A s \in Streams : session[s] \in {"none", "end"} \/ s \in late

\* Stop returns once the message handlers do.
StopEnds == (stopping = "wait") ~> (stopping = "end")
===============================================================================
