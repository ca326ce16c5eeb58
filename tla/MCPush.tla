------------------------------- MODULE MCPush -------------------------------
(***************************************************************************)
(* The servers that push to their clients: an SSE stream and WebSocket     *)
(* sessions.  unit names the part that runs; the other rests in an initial *)
(* state.                                                                  *)
(*   feed     one client of a stream, every event published by Publish     *)
(*   pair     two clients of a stream, one event published in any way      *)
(*   stall    two clients of a stream that stays, two events with data     *)
(*   churn    two clients, streams that come and go, no events             *)
(*   sessions WebSocket sessions, no broadcasts                            *)
(*   sender   one WebSocket session and broadcasts                         *)
(***************************************************************************)
EXTENDS EventStream

CONSTANTS Units, Sessions, Stalled, Endless, SendBuf, MaxSends

VARIABLES unit, handler, known, done, connected, closing, writer, reader, send,
          cleaning, toClose, sender, sends, removals

sessionVars == <<handler, known, done, connected, closing, writer, reader, send,
                 cleaning, toClose, sender, sends, removals>>
suiteVars   == <<unit, vars, sessionVars>>

W == INSTANCE WebSocket

SuiteInit == /\ unit \in Units
             /\ Init /\ W!Init
             /\ unit \in {"feed", "pair"} => "autoStream" \notin modes /\ current = 1
             /\ unit = "stall" => modes = {} /\ current = 1
             /\ unit = "churn" => "autoStream" \in modes /\ "ends" \notin modes
             /\ unit \in {"sessions", "sender"} => modes = {} /\ current = 0
             /\ unit # "feed" => \A c \in Clients : last[c] = 0
             /\ \A c, d \in Clients : last[c] = last[d]

\* What makes each of them small.
Scenario ==
  CASE unit = "feed"  -> /\ Cardinality({c \in Clients : pc'[c] # "idle"}) <= 1
                         /\ pub'.how \in {"none", "wait"}
    [] unit = "pair"  -> sent' <= 1
    [] unit = "stall" -> quit' = {} /\ sent' <= 2 /\ pub'.how \in {"none", "wait"}
    [] unit = "churn" -> sent' = 0
    [] unit = "sessions" -> sends' = 0
    [] unit = "sender"   -> Cardinality({s \in Sessions : handler'[s] # "upgrade"}) <= 1

StreamOnly(A)  == unit \in {"feed", "pair", "stall", "churn"} /\ A /\ Scenario /\ UNCHANGED <<unit, sessionVars>>
SessionOnly(A) == unit \in {"sessions", "sender"} /\ A /\ Scenario /\ UNCHANGED <<unit, vars>>

SuiteNext == StreamOnly(Next) \/ SessionOnly(W!Next)

SuiteFairness ==
  /\ WF_suiteVars(StreamOnly(PubStep))
  /\ \A c \in Clients : /\ WF_suiteVars(StreamOnly(ManagerStep(c) /\ pc[c] # "idle"))
                        /\ WF_suiteVars(StreamOnly(LocalStep(c)))
                        /\ WF_suiteVars(StreamOnly(Take(c) /\ Reads(c)))
  /\ \A i \in Streams : WF_suiteVars(StreamOnly(LoopStep(i)))
  /\ WF_suiteVars(SessionOnly(W!CleanStep)) /\ WF_suiteVars(SessionOnly(W!SendStep))
  /\ \A s \in Sessions : /\ WF_suiteVars(SessionOnly(W!HandlerStep(s)))
                         /\ WF_suiteVars(SessionOnly(W!CloseStep(s)))
                         /\ WF_suiteVars(SessionOnly(W!WriterStep(s)))
                         /\ WF_suiteVars(SessionOnly(W!ReaderStep(s)))
                         /\ WF_suiteVars(SessionOnly(W!WriteStep(s) /\ W!Returns(s)))
                         /\ WF_suiteVars(SessionOnly(W!Handled(s) /\ s \notin Endless))

SuiteSpec == SuiteInit /\ [][SuiteNext]_suiteVars /\ SuiteFairness

\* The last client of a stream removes it; a closed session is out of the manager's
\* map, its disconnect reported once.
PeersAreRemoved == LastOneRemoves /\ W!ClosedIsOut

\* A client that is gone is removed and a publish returns, unless a client that does
\* not read holds the stream up; a session that is being closed is closed and both of
\* its pumps end, unless its message handler does not return; a Broadcast comes to
\* its end, unless a peer that does not read holds it up.
PeersEnd == GoneIsRemoved /\ PublishReturns /\ W!SessionEnds /\ W!SendReturns
=============================================================================
