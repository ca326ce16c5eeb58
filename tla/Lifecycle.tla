------------------------------ MODULE Lifecycle ------------------------------
(***************************************************************************)
(* Start, Stop and the middleware chain of the servers that listen:        *)
(* transport/http with its std and gin drivers, graphql, websocket, sse,   *)
(* grpc, mcp, trpc, signalr, socketio, http3, webrtc and webtransport.     *)
(* Start and Stop run beside the goroutine that serves; the library        *)
(* servers (net/http, grpc-go, ...) are external: a server that was shut   *)
(* down serves no more, a graceful shutdown waits for the request that is  *)
(* being served.                                                           *)
(***************************************************************************)
EXTENDS Integers, Sequences, SequencesExt

CONSTANTS Kinds, MaxStarts,   \* bound: calls of Start
          Middlewares         \* bound: each is given to Use at most once

VARIABLES kind, tls,
          mws, chain,         \* given to Use; what the served handler is wrapped in
          service,            \* RegisterService or Handle: "none", "kept" or "lost"
          srv,                \* the library server: "none", "made", "down"
          loop,               \* its accept loop: "none", "run", "accept"
          bound,              \* the listener is open
          errChan,            \* "empty", "nil", "err"
          startAt, stopAt, ctxDone,
          started, sticky,    \* s.started or s.running; s.err # nil (mcp, trpc)
          req, path,          \* one request and the handlers it went through
          starts, stops       \* Starts; history: a Stop has been called

lifecycleVars == <<kind, tls, mws, chain, service, srv, loop, bound, errChan, startAt,
                   stopAt, ctxDone, started, sticky, req, path, starts, stops>>

setupVars == <<kind, tls, mws, service>>

\* The servers that wrap their handler when Start or the driver is called.
AtStart == {"graphql", "websocket", "sse", "signalr", "socketio"}

\* Those whose Start only serves and does not look at its context.
Deaf == {"trpc", "http3", "webrtc", "webtransport"}

\* Those whose Start shuts down gracefully when its context is done.
Graceful == {"std", "graphql", "websocket", "sse", "grpc"}

\* The constructors: the first make no library server; socketio, mcp, http3, webrtc
\* and webtransport do, the last three with a chain of what their options gave and
\* before any call of Use.  Only signalr and socketio treat TLS in a way of their own.
HttpNewServer == kind \in {"std", "gin"} /\ srv = "none" /\ tls = FALSE
GraphqlNewServer == kind = "graphql" /\ srv = "none" /\ tls = FALSE
WebsocketNewServer == kind = "websocket" /\ srv = "none" /\ tls = FALSE
SseNewServer == kind = "sse" /\ srv = "none" /\ tls = FALSE
GrpcNewServer == kind = "grpc" /\ srv = "none" /\ tls = FALSE
TrpcNewServer == kind = "trpc" /\ srv = "none" /\ tls = FALSE
SignalrNewServer == kind = "signalr" /\ srv = "none" /\ tls \in BOOLEAN
SocketioNewServer == kind = "socketio" /\ srv = "made" /\ tls \in BOOLEAN
McpNewServer == kind = "mcp" /\ srv = "made" /\ tls = FALSE
Http3NewServer == kind = "http3" /\ srv = "made" /\ tls = FALSE
WebrtcNewServer == kind = "webrtc" /\ srv = "made" /\ tls = FALSE
WebtransportNewServer == kind = "webtransport" /\ srv = "made" /\ tls = FALSE

Init ==
  /\ kind \in Kinds
  /\ \/ HttpNewServer \/ GraphqlNewServer \/ WebsocketNewServer \/ SseNewServer
     \/ GrpcNewServer \/ TrpcNewServer \/ SignalrNewServer \/ SocketioNewServer
     \/ McpNewServer \/ Http3NewServer \/ WebrtcNewServer \/ WebtransportNewServer
  /\ mws = <<>> /\ chain = <<>> /\ service = "none"
  /\ loop = "none" /\ bound = FALSE /\ errChan = "empty"
  /\ startAt = "idle" /\ stopAt = "idle" /\ ctxDone = FALSE
  /\ started = FALSE /\ sticky = FALSE /\ req = "none" /\ path = <<>>
  /\ starts = 0 /\ stops = FALSE

\* Faulty variant: the chain is built from the first to the last.
Wrap_Reversed(ms) == FoldLeft(LAMBDA h, m : <<m>> \o h, <<>>, ms)

\* wrapHandler, Chain and the loops of the Starts: from the last middleware to the
\* first, h = m(h); the handlers a request then meets.
Wrap(ms) == FoldRight(LAMBDA m, h : <<m>> \o h, ms, <<>>)

\* Use of every server.
Use(m) ==
  /\ kind # "mcp" /\ starts = 0 /\ m \notin Range(mws)
  /\ mws' = Append(mws, m)
  /\ UNCHANGED <<kind, tls, chain, service, srv, loop, bound, errChan, startAt, stopAt,
                 ctxDone, started, sticky, req, path, starts, stops>>

\* Handle of http: the route is wrapped in what Use was given so far.
Handle ==
  /\ kind \in {"std", "gin"} /\ service = "none"
  /\ service' = "kept" /\ chain' = Wrap(mws)
  /\ UNCHANGED <<kind, tls, mws, srv, loop, bound, errChan, startAt, stopAt, ctxDone,
                 started, sticky, req, path, starts, stops>>

\* grpc: the server is made once, with the interceptors of that moment.
ensureServer ==
  IF srv = "none" THEN srv' = "made" /\ chain' = Wrap(mws) ELSE UNCHANGED <<srv, chain>>

\* RegisterService of grpc.
GrpcRegisterService ==
  /\ kind = "grpc" /\ service = "none" /\ service' = "kept" /\ ensureServer
  /\ UNCHANGED <<kind, tls, mws, loop, bound, errChan, startAt, stopAt, ctxDone, started,
                 sticky, req, path, starts, stops>>

\* RegisterService of trpc: refused once started; a server is made for it.
TrpcRegisterService ==
  /\ kind = "trpc" /\ service = "none" /\ ~started /\ service' = "kept"
  /\ srv' = IF srv = "none" THEN "made" ELSE srv
  /\ UNCHANGED <<kind, tls, mws, chain, loop, bound, errChan, startAt, stopAt, ctxDone,
                 started, sticky, req, path, starts, stops>>

------------------------------------------------------------------------------
Fresh(k) == kind = k /\ startAt = "idle" /\ starts < MaxStarts /\ starts' = starts + 1
Waits == startAt' = "serving" /\ ctxDone' = FALSE /\ errChan' = "empty"

\* A listener, a goroutine that serves and Start's select.
Listens == /\ bound' = TRUE /\ loop' = "run" /\ Waits
           /\ UNCHANGED <<stopAt, started, sticky, req, path, stops>>

\* Start of http and of its drivers: a new http.Server every time.
StdStart == Fresh("std") /\ srv' = "made" /\ Listens /\ UNCHANGED <<setupVars, chain>>
GinStart == Fresh("gin") /\ srv' = "made" /\ Listens /\ UNCHANGED <<setupVars, chain>>

\* Start of graphql, websocket and sse: the chain is built, then as http.
WrapsAll(k) == Fresh(k) /\ srv' = "made" /\ chain' = Wrap(mws) /\ Listens /\ UNCHANGED setupVars
GraphqlStart == WrapsAll("graphql")
WebsocketStart == WrapsAll("websocket")
SseStart == WrapsAll("sse")

\* Start of grpc: ensureServer keeps the server there is, a stopped one too.
GrpcStart ==
  Fresh("grpc") /\ Listens /\ ensureServer /\ UNCHANGED setupVars

\* Start of signalr and socketio: with TLS, ServeTLS is called without the
\* certificates of tlsConf and returns at once; its error is dropped.
Drops(k) ==
  /\ Fresh(k) /\ bound' = TRUE /\ loop' = (IF tls THEN "none" ELSE "run") /\ Waits
  /\ chain' = Wrap(mws)
  /\ UNCHANGED <<setupVars, stopAt, started, sticky, req, path, stops>>
SignalrStart == Drops("signalr") /\ srv' = "made"
SocketioStart == Drops("socketio") /\ UNCHANGED srv

\* Start of http3 and webtransport: ListenAndServe, which knows nothing of ctx.
Http3Start == Fresh("http3") /\ Listens /\ UNCHANGED <<setupVars, chain, srv>>
WebtransportStart == Fresh("webtransport") /\ Listens /\ UNCHANGED <<setupVars, chain, srv>>

\* webrtc: the listener is made once and kept; Serve closes it when it returns, so
\* that a later Serve fails at once.
listenAndEndpoint ==
  IF starts = 0 THEN bound' = TRUE /\ loop' = "run" /\ errChan' = "empty"
  ELSE errChan' = (IF srv = "down" THEN "nil" ELSE "err") /\ UNCHANGED <<bound, loop>>

\* Start of webrtc: nothing while running; otherwise Serve.
WebrtcStart ==
  /\ Fresh("webrtc") /\ ~started /\ started' = TRUE
  /\ startAt' = "serving" /\ ctxDone' = FALSE /\ listenAndEndpoint
  /\ UNCHANGED <<setupVars, chain, srv, stopAt, sticky, req, path, stops>>

\* mcp: the goroutine that serves, over SSE or HTTP; a second one finds the address taken.
startMCPServer ==
  /\ bound' = TRUE
  /\ IF bound THEN sticky' = TRUE /\ UNCHANGED loop ELSE loop' = "run" /\ UNCHANGED sticky

\* Start of mcp: after a former error it returns that; otherwise a goroutine serves,
\* and Start returns.
McpStart ==
  /\ Fresh("mcp") /\ ~sticky
  /\ IF started THEN UNCHANGED <<started, loop, bound, sticky>>
     ELSE started' = TRUE /\ startMCPServer
  /\ UNCHANGED <<setupVars, chain, srv, errChan, startAt, stopAt, ctxDone, req, path, stops>>

\* Start of trpc: a new server, whatever RegisterService had registered with the
\* former one, with the filters of Use; trpcOptions still has those of the Starts
\* before.  Serve blocks before started is set.
TrpcStart ==
  /\ Fresh("trpc") /\ ~sticky /\ ~started
  /\ srv' = "made" /\ chain' = chain \o Wrap(mws)
  /\ service' = IF service = "kept" THEN "lost" ELSE service
  /\ Listens /\ UNCHANGED <<kind, tls, mws>>

------------------------------------------------------------------------------
\* The goroutine: Serve accepts, unless the server was shut down before.
Serve ==
  /\ loop = "run"
  /\ IF srv = "down" THEN loop' = "none" /\ bound' = FALSE /\ errChan' = "nil"
                     ELSE loop' = "accept" /\ UNCHANGED <<bound, errChan>>
  /\ UNCHANGED <<setupVars, chain, srv, startAt, stopAt, ctxDone, started, sticky, req, path,
                 starts, stops>>

\* Serve fails: mcp joins the error to s.err, signalr and socketio drop it, trpc
\* keeps it, the others hand it to Start.
ServeFails ==
  /\ loop = "accept" /\ loop' = "none" /\ bound' = FALSE
  /\ errChan' = IF kind \in {"mcp", "signalr", "socketio"} THEN errChan ELSE "err"
  /\ sticky' = (sticky \/ kind \in {"mcp", "trpc"})
  /\ UNCHANGED <<setupVars, chain, srv, startAt, stopAt, ctxDone, started, req, path, starts,
                 stops>>

\* trpc: Serve returns after a signal of the operating system.
TrpcSignal ==
  /\ kind = "trpc" /\ loop = "accept" /\ loop' = "none" /\ bound' = FALSE /\ srv' = "down"
  /\ errChan' = "nil"
  /\ UNCHANGED <<setupVars, chain, startAt, stopAt, ctxDone, started, sticky, req, path,
                 starts, stops>>

\* A request is accepted and served through the chain; it ends.
Request ==
  /\ loop = "accept" /\ req = "none" /\ req' = "active" /\ path' = chain
  /\ UNCHANGED <<setupVars, chain, srv, loop, bound, errChan, startAt, stopAt, ctxDone,
                 started, sticky, starts, stops>>
RequestEnds ==
  /\ req = "active" /\ req' = "done"
  /\ UNCHANGED <<setupVars, chain, srv, loop, bound, errChan, startAt, stopAt, ctxDone,
                 started, sticky, path, starts, stops>>

------------------------------------------------------------------------------
\* Shutdown of net/http and GracefulStop of grpc begin: the listener is closed and
\* Serve returns ErrServerClosed, which the goroutine turns into nil.
ShutsDown ==
  /\ srv' = "down" /\ bound' = FALSE /\ loop' = "none"
  /\ errChan' = IF loop = "none" THEN errChan ELSE "nil"

\* Only the listener is closed.
Unlistens == bound' = FALSE /\ loop' = "none" /\ UNCHANGED <<srv, errChan>>

Cancel ==
  /\ startAt = "serving" /\ ~ctxDone /\ ctxDone' = TRUE
  /\ UNCHANGED <<setupVars, chain, srv, loop, bound, errChan, startAt, stopAt, started,
                 sticky, req, path, starts, stops>>

\* Start's select on errChan; trpc's Serve and http3's ListenAndServe return, and
\* trpc is "started" from here on.
StartServed ==
  /\ startAt = "serving" /\ errChan # "empty" /\ startAt' = "idle"
  /\ started' = (kind = "trpc" /\ errChan = "nil")
  /\ UNCHANGED <<setupVars, chain, srv, loop, bound, errChan, stopAt, ctxDone, sticky, req,
                 path, starts, stops>>

\* Faulty variant: Start returns without waiting for the shutdown.
StartCancelled_Leaves ==
  /\ startAt = "serving" /\ ctxDone /\ kind \notin Deaf
  /\ ShutsDown /\ startAt' = "idle"
  /\ UNCHANGED <<setupVars, chain, stopAt, ctxDone, started, sticky, req, path, starts, stops>>

\* Start's select on ctx: the graceful ones shut down with a context of their own;
\* gin passes the context that is done already, which makes Shutdown return without
\* waiting; signalr and socketio close the listener.
StartCancelled ==
  /\ startAt = "serving" /\ ctxDone
  /\ \/ kind \in Graceful /\ ShutsDown /\ startAt' = "closing"
     \/ kind = "gin" /\ ShutsDown /\ startAt' = "idle"
     \/ kind \in {"signalr", "socketio"} /\ Unlistens /\ startAt' = "idle"
  /\ UNCHANGED <<setupVars, chain, stopAt, ctxDone, started, sticky, req, path, starts, stops>>

\* The graceful shutdown is over.
StartDrained ==
  /\ startAt = "closing" /\ req # "active" /\ startAt' = "idle"
  /\ UNCHANGED <<setupVars, chain, srv, loop, bound, errChan, stopAt, ctxDone, started,
                 sticky, req, path, starts, stops>>

\* Stop of the servers with an http.Server and of grpc: nothing before there is one,
\* its shutdown otherwise.
ShutdownStop(k) ==
  /\ kind = k /\ UNCHANGED <<started, sticky, req>>
  /\ IF srv = "none" THEN UNCHANGED <<srv, bound, loop, errChan, stopAt>>
                     ELSE ShutsDown /\ stopAt' = "closing"
StdStop == ShutdownStop("std")
GinStop == ShutdownStop("gin")
GraphqlStop == ShutdownStop("graphql")
WebsocketStop == ShutdownStop("websocket")
SseStop == ShutdownStop("sse")
GrpcStop == ShutdownStop("grpc")

\* Stop of signalr and socketio closes the listener.
ListenerStop(k) == kind = k /\ Unlistens /\ UNCHANGED <<stopAt, started, sticky, req>>
SignalrStop == ListenerStop("signalr")
SocketioStop == ListenerStop("socketio")

\* Stop of http3 and webtransport closes the server with the requests it has.
CloseStop(k) ==
  /\ kind = k /\ ShutsDown /\ UNCHANGED <<stopAt, started, sticky>>
  /\ req' = IF req = "active" THEN "killed" ELSE req
Http3Stop == CloseStop("http3")
WebtransportStop == CloseStop("webtransport")

\* Stop of webrtc: nothing unless running.
WebrtcStop ==
  \/ started /\ ShutdownStop("webrtc")
  \/ ~started /\ kind = "webrtc"
     /\ UNCHANGED <<srv, bound, loop, errChan, stopAt, started, sticky, req>>

\* Stop of mcp only resets started.
McpStop ==
  /\ kind = "mcp" /\ started' = FALSE
  /\ UNCHANGED <<srv, bound, loop, errChan, stopAt, sticky, req>>

\* Stop of trpc closes only what is started.
TrpcStop ==
  /\ kind = "trpc" /\ UNCHANGED <<stopAt, req>>
  /\ IF started THEN ShutsDown /\ started' = FALSE /\ sticky' = FALSE
                ELSE UNCHANGED <<srv, bound, loop, errChan, started, sticky>>

Stop ==
  /\ stopAt = "idle" /\ stops' = TRUE
  /\ \/ StdStop \/ GinStop \/ GraphqlStop \/ GrpcStop \/ SignalrStop \/ SocketioStop
     \/ WebsocketStop \/ SseStop \/ WebtransportStop \/ WebrtcStop \/ Http3Stop
     \/ McpStop \/ TrpcStop
  /\ UNCHANGED <<setupVars, chain, startAt, ctxDone, path, starts>>

\* The shutdown of Stop is over, or its context is: grpc then kills the request.
StopEnds ==
  /\ stopAt = "closing" /\ stopAt' = "idle"
  /\ \/ req # "active" /\ UNCHANGED req
     \/ req = "active" /\ req' = IF kind = "grpc" THEN "killed" ELSE req
  /\ started' = (started /\ kind # "webrtc")
  /\ UNCHANGED <<setupVars, chain, srv, loop, bound, errChan, startAt, ctxDone, sticky, path,
                 starts, stops>>

Next ==
  \/ \E m \in Middlewares : Use(m)
  \/ Handle \/ GrpcRegisterService \/ TrpcRegisterService
  \/ StdStart \/ GinStart \/ GraphqlStart \/ GrpcStart \/ SignalrStart
  \/ WebsocketStart \/ SseStart \/ WebtransportStart \/ WebrtcStart
  \/ SocketioStart \/ Http3Start \/ McpStart \/ TrpcStart
  \/ Serve \/ ServeFails \/ TrpcSignal \/ Request \/ RequestEnds
  \/ Cancel \/ StartServed \/ StartCancelled \/ StartDrained \/ Stop \/ StopEnds

StartWorks == StartServed \/ StartCancelled \/ StartDrained
Spec == /\ Init /\ [][Next]_lifecycleVars
        /\ WF_lifecycleVars(StartWorks) /\ WF_lifecycleVars(RequestEnds)

------------------------------------------------------------------------------
\* The type of the state.
TypeOK ==
  /\ kind \in Kinds /\ {tls, bound, ctxDone, started, sticky, stops} \subseteq BOOLEAN
  /\ srv \in {"none", "made", "down"} /\ loop \in {"none", "run", "accept"}
  /\ errChan \in {"empty", "nil", "err"} /\ service \in {"none", "kept", "lost"}
  /\ startAt \in {"idle", "serving", "closing"} /\ stopAt \in {"idle", "closing"}
  /\ req \in {"none", "active", "done", "killed"} /\ Range(path) \subseteq Middlewares

\* Requests meet the middlewares in the order Use got them (the comment of each
\* Use).  Some servers fix the chain earlier than Start: http in Handle, grpc in
\* RegisterService, http3, webrtc and webtransport in NewServer; there it is a
\* prefix of that order.  A trpc server that is started again meets them again.
ChainIsUse ==
  req # "none" =>
    /\ kind \in AtStart => path = mws
    /\ kind = "trpc" => IsPrefix(mws, path) /\ Range(path) = Range(mws)
    /\ kind \notin AtStart \union {"trpc"} => IsPrefix(path, mws)

\* When Start has returned because its context was done, nobody accepts and, where
\* the shutdown is graceful, no request is left, unless a Stop made Serve return
\* first.
ReturnedIsDown ==
  startAt = "idle" /\ starts > 0 /\ ctxDone =>
    /\ kind \notin Deaf \union {"mcp"} => loop # "accept"
    /\ kind \in Graceful /\ ~stops /\ errChan = "nil" => req # "active"

\* A Start that waits has somebody serving or about to, or has been told to end.
\* signalr and socketio with TLS are the exception, and their Serve may fail unseen.
WaitsForSomebody ==
  startAt = "serving" /\ loop = "none" =>
    errChan # "empty" \/ stops \/ kind \in {"signalr", "socketio"}

\* What trpc's comment says of Stop: it stops the server.
StopStops == [][Stop => loop' # "accept"]_lifecycleVars

Cancelled == startAt # "idle" /\ ctxDone /\ kind \notin Deaf

\* Start returns once its context is done: its graceful shutdown waits for requests
\* that end.  Four kinds do not look at the context.
CancelledReturns == Cancelled ~> startAt = "idle"
==============================================================================
