----------------------------- MODULE GrpcChain -----------------------------
(***************************************************************************)
(* transport/grpc/middleware: one RPC through the interceptors.  A unary   *)
(* RPC goes through the client's chain, the wire, the server's chain and   *)
(* back; the two streaming scenes are the creation and use of a client     *)
(* stream, and the handling of a server stream.  Level 1 is the outermost  *)
(* interceptor; "wire" stands in a unary chain where the sides meet; the   *)
(* handler (or the streamer) is at level Len(chain) + 1.                   *)
(*                                                                         *)
(* Each interceptor is one action per form (unary or stream, server or     *)
(* client), which covers what it does before it calls the next one         *)
(* (dir = "in") and after that one returned (dir = "out").                 *)
(***************************************************************************)
EXTENDS Integers, Sequences

CONSTANTS UnaryChains, ClientStreamChains, ServerStreamChains,
          MaxTries     \* attempts the Retrier allows

VARIABLES scene, chain, skip, \* skip: the interceptor that skips the method
          idempotent,         \* the method's name starts with Get, List or Search
          valid,              \* what Validate says of the message
          at, dir, err,
          ctx,                \* level -> the context it was called with
          told,               \* level -> the code it logged, counted or judged, in
                              \* the latest attempt
          spans, gauges,      \* levels with an open span; with a gauge at 1
          admitted,           \* levels of breakers with an unmarked Allow
          ends,               \* level of a retry -> the codes of its attempts
          ids, raised,        \* the request ID each run of the handler saw; the
                              \* error the last one returned
          late,               \* the deadline passed while the handler ran
          stream,             \* a client stream: none, open, cancelled, closed
          wired               \* the code the server put on the wire

given    == <<scene, chain, skip, idempotent, valid>>
noteVars == <<told, spans, gauges, admitted>>
pathVars == <<ends, ids, raised, late, stream, wired>>
rpcVars  == <<given, at, dir, err, ctx, noteVars, pathVars>>

------------------------------------------------------------------------------
(* Codes and errors.  An error is nil, a gRPC status, a framework          *)
(* *errors.Error that carries an HTTP status, or some other error.         *)

codes == [OK |-> 0, Canceled |-> 1, Unknown |-> 2, InvalidArgument |-> 3,
          DeadlineExceeded |-> 4, NotFound |-> 5, AlreadyExists |-> 6,
          PermissionDenied |-> 7, ResourceExhausted |-> 8, FailedPrecondition |-> 9,
          Aborted |-> 10, OutOfRange |-> 11, Unimplemented |-> 12, Internal |-> 13,
          Unavailable |-> 14, DataLoss |-> 15, Unauthenticated |-> 16]

Nil          == [kind |-> "nil", code |-> 0]
Status(c)    == [kind |-> "status", code |-> c]
Framework(h) == [kind |-> "framework", code |-> h]
Other        == [kind |-> "other", code |-> 0]

\* status.FromError(err).Code(): an error that is no status is Unknown.
CodeOf(e) == CASE e.kind = "nil"    -> codes.OK
               [] e.kind = "status" -> e.code
               [] OTHER             -> codes.Unknown

httpToGRPC == {<<200, codes.OK>>, <<400, codes.InvalidArgument>>, <<401, codes.Unauthenticated>>,
               <<403, codes.PermissionDenied>>, <<404, codes.NotFound>>, <<409, codes.Aborted>>,
               <<412, codes.FailedPrecondition>>, <<422, codes.InvalidArgument>>,
               <<429, codes.ResourceExhausted>>, <<500, codes.Internal>>,
               <<501, codes.Unimplemented>>, <<502, codes.Unavailable>>,
               <<503, codes.Unavailable>>, <<504, codes.DeadlineExceeded>>}

\* Faulty variant: most rows are missing, which makes their codes a 500.
grpcToHTTP_Short ==
  {<<codes.InvalidArgument, 400>>, <<codes.NotFound, 404>>, <<codes.Internal, 500>>}

grpcToHTTP == {<<codes.OK, 200>>, <<codes.Canceled, 499>>, <<codes.Unknown, 500>>,
               <<codes.InvalidArgument, 400>>, <<codes.DeadlineExceeded, 504>>,
               <<codes.NotFound, 404>>, <<codes.AlreadyExists, 409>>,
               <<codes.PermissionDenied, 403>>, <<codes.ResourceExhausted, 429>>,
               <<codes.FailedPrecondition, 400>>, <<codes.Aborted, 409>>,
               <<codes.OutOfRange, 400>>, <<codes.Unimplemented, 501>>,
               <<codes.Internal, 500>>, <<codes.Unavailable, 503>>,
               <<codes.DataLoss, 500>>, <<codes.Unauthenticated, 401>>}

Lookup(table, key, default) ==
  IF \E row \in table : row[1] = key THEN (CHOOSE row \in table : row[1] = key)[2] ELSE default

HTTPToGRPC(h) == Lookup(httpToGRPC, h, codes.Unknown)
GRPCToHTTP(c) == Lookup(grpcToHTTP, c, 500)

FromGRPCStatus(e) == Framework(GRPCToHTTP(e.code))
ToGRPCStatus(e)   == Status(HTTPToGRPC(e.code))

------------------------------------------------------------------------------
(* The path.                                                               *)

Handler == Len(chain) + 1
Levels  == 1 .. Len(chain)
WireAt  == IF \E i \in Levels : chain[i] = "wire" THEN CHOOSE i \in Levels : chain[i] = "wire"
           ELSE 0

\* Which of its forms the interceptor at level i runs in.
Form(i) == CASE scene = "clientstream" -> "streamClient"
             [] scene = "serverstream" -> "streamServer"
             [] i < WireAt             -> "unaryClient"
             [] OTHER                  -> "unaryServer"

On(m) == \E i \in Levels : chain[i] = m

\* A context: its deadline, the request ID and the configured key stored in it,
\* and both in the metadata (outgoing on a client, incoming on a server).
Contexts ==
  [deadline : {"none", "callers"},
   id  : IF scene = "serverstream" THEN {"none"} ELSE {"none", "callers"},
   key : IF On("metadata") /\ scene # "serverstream" THEN {"none", "value"} ELSE {"none"},
   mdID  : IF scene = "serverstream" THEN {<< >>, <<"callers">>} ELSE {<< >>},
   mdKey : IF On("metadata") /\ scene = "serverstream" THEN {<< >>, <<"value">>} ELSE {<< >>}]

ChainsOf(s) == CASE s = "unary"        -> UnaryChains
                 [] s = "clientstream" -> ClientStreamChains
                 [] s = "serverstream" -> ServerStreamChains

Skippers == {"logging", "metrics", "breaker", "ratelimit", "timeout", "retry", "validate"}

Init ==
  /\ scene \in {"unary", "clientstream", "serverstream"}
  /\ chain \in ChainsOf(scene)
  /\ skip \in {"none"} \cup (Skippers \cap {chain[i] : i \in Levels})
  /\ idempotent \in IF On("retry") THEN BOOLEAN ELSE {TRUE}
  /\ valid \in IF On("validate") THEN BOOLEAN ELSE {TRUE}
  /\ at = 1 /\ dir = "in" /\ err = Nil
  /\ \E c \in Contexts : ctx = [i \in 1 .. Handler |-> c]
  /\ told = [i \in Levels |-> -1] /\ spans = {} /\ gauges = {} /\ admitted = {}
  /\ ends = [i \in Levels |-> << >>] /\ ids = << >> /\ raised = Nil
  /\ late = FALSE /\ stream = "none" /\ wired = -1

\* handler(ctx, req): the next level runs in context c. The return of e.
Calls(c)   == at' = at + 1 /\ dir' = "in" /\ ctx' = [ctx EXCEPT ![at + 1] = c] /\ UNCHANGED err
Returns(e) == at' = at - 1 /\ dir' = "out" /\ err' = e /\ UNCHANGED ctx

Runs(m, form) == at \in Levels /\ dir \in {"in", "out"} /\ chain[at] = m /\ Form(at) = form
                 /\ skip # m

\* An interceptor told to skip the method calls the next and returns its result.
Skipped ==
  /\ at \in Levels /\ chain[at] = skip
  /\ \/ dir = "in"  /\ Calls(ctx[at])
     \/ dir = "out" /\ Returns(err)
  /\ ~(skip = "validate" /\ Form(at) = "streamServer")
  /\ UNCHANGED <<noteVars, pathVars>>

Tells == told' = [told EXCEPT ![at] = CodeOf(err)]

------------------------------------------------------------------------------
(* logging, tracing and metrics.                                           *)

Logs ==
  /\ \/ dir = "in"  /\ Calls(ctx[at]) /\ UNCHANGED told
     \/ dir = "out" /\ Returns(err) /\ Tells
  /\ UNCHANGED <<spans, gauges, admitted, pathVars>>

LoggingUnaryServer  == Runs("logging", "unaryServer")  /\ Logs
LoggingStreamServer == Runs("logging", "streamServer") /\ Logs
LoggingUnaryClient  == Runs("logging", "unaryClient")  /\ Logs
LoggingStreamClient == Runs("logging", "streamClient") /\ Logs

Traces ==
  /\ \/ dir = "in"  /\ Calls(ctx[at]) /\ spans' = spans \cup {at} /\ UNCHANGED told
     \/ dir = "out" /\ Returns(err) /\ spans' = spans \ {at} /\ Tells
  /\ UNCHANGED <<gauges, admitted, pathVars>>

TracingUnaryServer  == Runs("tracing", "unaryServer")  /\ Traces
TracingStreamServer == Runs("tracing", "streamServer") /\ Traces
TracingUnaryClient  == Runs("tracing", "unaryClient")  /\ Traces

\* The span of a client stream outlives the call, unless there is no stream.
TracingStreamClient ==
  /\ Runs("tracing", "streamClient")
  /\ \/ dir = "in" /\ Calls(ctx[at]) /\ spans' = spans \cup {at} /\ UNCHANGED told
     \/ dir = "out" /\ Returns(err) /\ err # Nil /\ spans' = spans \ {at} /\ Tells
     \/ dir = "out" /\ Returns(err) /\ err = Nil /\ UNCHANGED <<spans, told>>
  /\ UNCHANGED <<gauges, admitted, pathVars>>

Measures ==
  /\ \/ dir = "in"  /\ Calls(ctx[at]) /\ gauges' = gauges \cup {at} /\ UNCHANGED told
     \/ dir = "out" /\ Returns(err) /\ gauges' = gauges \ {at} /\ Tells
  /\ UNCHANGED <<spans, admitted, pathVars>>

MetricsUnaryServer  == Runs("metrics", "unaryServer")  /\ Measures
MetricsStreamServer == Runs("metrics", "streamServer") /\ Measures
MetricsUnaryClient  == Runs("metrics", "unaryClient")  /\ Measures

\* A stream that is created is neither counted nor taken off the gauge.
MetricsStreamClient ==
  /\ Runs("metrics", "streamClient")
  /\ \/ dir = "in" /\ Calls(ctx[at]) /\ gauges' = gauges \cup {at} /\ UNCHANGED told
     \/ dir = "out" /\ Returns(err) /\ err # Nil /\ gauges' = gauges \ {at} /\ Tells
     \/ dir = "out" /\ Returns(err) /\ err = Nil /\ UNCHANGED <<gauges, told>>
  /\ UNCHANGED <<spans, admitted, pathVars>>

------------------------------------------------------------------------------
(* breaker, rate limit and timeout.                                        *)

\* Faulty variant: a refused call is marked.
Breaks_MarksRefusal ==
  /\ \/ dir = "in" /\ Calls(ctx[at]) /\ UNCHANGED <<told, admitted>>
     \/ dir = "out" /\ Returns(err) /\ UNCHANGED <<told, admitted>>
     \/ /\ dir = "in" /\ Returns(Status(codes.Unavailable))
        /\ admitted' = admitted \cup {at} /\ UNCHANGED told
  /\ UNCHANGED <<spans, gauges, pathVars>>

\* cb.Allow decides; the call's code is marked, as a failure from Internal on.
Breaks ==
  /\ \/ dir = "in"  /\ Calls(ctx[at]) /\ admitted' = admitted \cup {at} /\ UNCHANGED told
     \/ dir = "in"  /\ Returns(Status(codes.Unavailable)) /\ UNCHANGED <<told, admitted>>
     \/ dir = "out" /\ Returns(err) /\ admitted' = admitted \ {at} /\ Tells
  /\ UNCHANGED <<spans, gauges, pathVars>>

BreakerUnaryServer  == Runs("breaker", "unaryServer")  /\ Breaks
BreakerStreamServer == Runs("breaker", "streamServer") /\ Breaks
BreakerUnaryClient  == Runs("breaker", "unaryClient")  /\ Breaks
BreakerStreamClient == Runs("breaker", "streamClient") /\ Breaks

Limits ==
  /\ \/ dir = "in"  /\ Calls(ctx[at])
     \/ dir = "in"  /\ Returns(Status(codes.ResourceExhausted))
     \/ dir = "out" /\ Returns(err)
  /\ UNCHANGED <<noteVars, pathVars>>

RatelimitUnaryServer  == Runs("ratelimit", "unaryServer")  /\ Limits
RatelimitStreamServer == Runs("ratelimit", "streamServer") /\ Limits
RatelimitUnaryClient  == Runs("ratelimit", "unaryClient")  /\ Limits
RatelimitStreamClient == Runs("ratelimit", "streamClient") /\ Limits

\* Faulty variant: the default replaces the caller's deadline.
WithDefault_Replaces(c) == [c EXCEPT !.deadline = "default"]

\* context.WithTimeout, only where there is no deadline yet.
WithDefault(c) == [c EXCEPT !.deadline = IF @ = "none" THEN "default" ELSE @]

\* The next level runs under a deadline; a new one has not passed.
Bounds(result) ==
  /\ \/ /\ dir = "in" /\ Calls(WithDefault(ctx[at]))
        /\ late' = (late /\ ctx[at].deadline # "none")
     \/ dir = "out" /\ Returns(result) /\ UNCHANGED late
  /\ UNCHANGED <<noteVars, ends, ids, raised, stream, wired>>

\* A result that comes after the deadline is replaced by DeadlineExceeded.
TimeoutUnaryServer ==
  Runs("timeout", "unaryServer")
    /\ Bounds(IF err = Nil /\ late THEN Status(codes.DeadlineExceeded) ELSE err)

TimeoutStreamServer == Runs("timeout", "streamServer") /\ Bounds(err)
TimeoutUnaryClient  == Runs("timeout", "unaryClient")  /\ Bounds(err)

\* The deferred cancel runs when the stream is handed to the caller.
TimeoutStreamClient ==
  /\ Runs("timeout", "streamClient")
  /\ \/ dir = "in" /\ Calls(WithDefault(ctx[at])) /\ UNCHANGED stream
     \/ /\ dir = "out" /\ Returns(err)
        /\ stream' = IF stream = "open" /\ ctx[at].deadline = "none" THEN "cancelled" ELSE stream
  /\ UNCHANGED <<noteVars, ends, ids, raised, late, wired>>

------------------------------------------------------------------------------
(* requestid, metadata, errors and validate.                               *)

\* Faulty variant: the server always makes an ID of its own.
Extracts_Own(c) == [c EXCEPT !.id = "made"]

\* extractFromIncoming, or a new ID.
Extracts(c) == [c EXCEPT !.id = IF c.mdID # << >> THEN c.mdID[1] ELSE "made"]

\* injectOutgoing: the context's ID, or a new one, which only the wire sees.
Injects(c) == [c EXCEPT !.mdID = Append(@, IF c.id = "none" THEN "made" ELSE c.id)]

Rewrites(c) ==
  /\ \/ dir = "in"  /\ Calls(c)
     \/ dir = "out" /\ Returns(err)
  /\ UNCHANGED <<noteVars, pathVars>>

RequestIDUnaryServer  == Runs("requestid", "unaryServer")  /\ Rewrites(Extracts(ctx[at]))
RequestIDStreamServer == Runs("requestid", "streamServer") /\ Rewrites(Extracts(ctx[at]))
RequestIDUnaryClient  == Runs("requestid", "unaryClient")  /\ Rewrites(Injects(ctx[at]))
RequestIDStreamClient == Runs("requestid", "streamClient") /\ Rewrites(Injects(ctx[at]))

\* extractToContext and injectFromContext: the first value of the key, if any.
ExtractsKey(c) == IF c.mdKey = << >> THEN c ELSE [c EXCEPT !.key = c.mdKey[1]]
InjectsKey(c)  == IF c.key = "none" THEN c ELSE [c EXCEPT !.mdKey = Append(@, c.key)]

MetadataUnaryServer  == Runs("metadata", "unaryServer")  /\ Rewrites(ExtractsKey(ctx[at]))
MetadataStreamServer == Runs("metadata", "streamServer") /\ Rewrites(ExtractsKey(ctx[at]))
MetadataUnaryClient  == Runs("metadata", "unaryClient")  /\ Rewrites(InjectsKey(ctx[at]))
MetadataStreamClient == Runs("metadata", "streamClient") /\ Rewrites(InjectsKey(ctx[at]))

Translates(e) ==
  /\ \/ dir = "in"  /\ Calls(ctx[at])
     \/ dir = "out" /\ Returns(e)
  /\ UNCHANGED <<noteVars, pathVars>>

\* The status OK is no error.
ErrOf(s)       == IF s.code = codes.OK THEN Nil ELSE s
ToStatus(e)    == IF e.kind = "framework" THEN ErrOf(ToGRPCStatus(e)) ELSE e
FromStatus(e)  == IF e.kind = "status" THEN FromGRPCStatus(e) ELSE e

ErrorsUnaryServer  == Runs("errors", "unaryServer")  /\ Translates(ToStatus(err))
ErrorsStreamServer == Runs("errors", "streamServer") /\ Translates(ToStatus(err))
ErrorsUnaryClient  == Runs("errors", "unaryClient")  /\ Translates(FromStatus(err))
ErrorsStreamClient == Runs("errors", "streamClient") /\ Translates(FromStatus(err))

ValidateUnaryServer ==
  /\ Runs("validate", "unaryServer")
  /\ \/ dir = "in"  /\ valid  /\ Calls(ctx[at])
     \/ dir = "in"  /\ ~valid /\ Returns(Status(codes.InvalidArgument))
     \/ dir = "out" /\ Returns(err)
  /\ UNCHANGED <<noteVars, pathVars>>

\* The messages are looked at when the handler receives them; the methods to
\* skip are not.
ValidateStreamServer ==
  /\ at \in Levels /\ chain[at] = "validate" /\ Form(at) = "streamServer"
  /\ \/ dir = "in"  /\ Calls(ctx[at])
     \/ dir = "out" /\ Returns(err)
  /\ UNCHANGED <<noteVars, pathVars>>

------------------------------------------------------------------------------
(* retry and recovery.                                                     *)

\* Faulty variant: what is not retryable is tried again too.
Again_Always == Len(ends[at]) + 1 < MaxTries /\ err # Nil

\* The loop of Retrier.Do goes on: the code is retryable and attempts are left.
Again == Len(ends[at]) + 1 < MaxTries /\ err # Nil /\ CodeOf(err) = codes.Unavailable

\* What Do may do after each attempt; it may also refuse to start, its context
\* cancelled, and then both lastResp and lastErr are nil.
Retries ==
  /\ \/ /\ dir = "in" /\ (Calls(ctx[at]) \/ (idempotent /\ Returns(Nil)))
        /\ ends' = [ends EXCEPT ![at] = << >>] /\ UNCHANGED told
     \/ dir = "out" /\ ~idempotent /\ Returns(err) /\ UNCHANGED <<ends, told>>
     \/ /\ dir = "out" /\ idempotent /\ ends' = [ends EXCEPT ![at] = Append(@, CodeOf(err))]
        /\ \/ /\ Again /\ Calls(ctx[at])
              /\ told' = [i \in Levels |-> IF i > at THEN -1 ELSE told[i]]
           \/ Returns(err) /\ UNCHANGED told
  /\ UNCHANGED <<spans, gauges, admitted, ids, raised, late, stream, wired>>

RetryUnaryServer  == Runs("retry", "unaryServer")  /\ Retries
RetryStreamServer == Runs("retry", "streamServer") /\ Retries
RetryUnaryClient  == Runs("retry", "unaryClient")  /\ Retries

Recovers ==
  \/ dir = "in"    /\ Calls(ctx[at])
  \/ dir = "out"   /\ Returns(err)
  \/ dir = "panic" /\ Returns(Status(codes.Internal))

RecoveryUnaryServer ==
  /\ at \in Levels /\ chain[at] = "recovery" /\ Form(at) = "unaryServer"
  /\ Recovers /\ UNCHANGED <<noteVars, pathVars>>

RecoveryStreamServer ==
  /\ at \in Levels /\ chain[at] = "recovery" /\ Form(at) = "streamServer"
  /\ Recovers /\ UNCHANGED <<noteVars, pathVars>>

\* A panic passes an interceptor: its deferred calls end the span and set the
\* gauge, the breaker is not told.
Unwind ==
  /\ dir = "panic" /\ at \in Levels /\ chain[at] \notin {"recovery", "wire"}
  /\ at' = at - 1 /\ spans' = spans \ {at} /\ gauges' = gauges \ {at}
  /\ UNCHANGED <<dir, err, ctx, told, admitted, pathVars>>

------------------------------------------------------------------------------
(* The ends of the path.                                                   *)

\* A handler's error carries the HTTP status of a failure.
Results == {Nil, Other} \cup {Status(c) : c \in {codes.NotFound, codes.Unavailable}}
           \cup {Framework(h) : h \in {row[1] : row \in httpToGRPC} \ {200}}

\* gRPC between the sides: the metadata and the deadline go over, the answer is
\* a status, and a deadline that passed is the client's answer whatever comes.
Wire ==
  /\ at \in Levels /\ chain[at] = "wire"
  /\ \/ /\ dir = "in" /\ Calls([ctx[at] EXCEPT !.id = "none", !.key = "none"])
        /\ UNCHANGED wired
     \/ dir = "in" /\ Returns(Status(codes.Unavailable)) /\ UNCHANGED wired
     \/ /\ dir = "out" /\ wired' = CodeOf(err)
        /\ Returns(CASE late /\ ctx[at].deadline # "none" -> Status(codes.DeadlineExceeded)
                     [] err = Nil                         -> Nil
                     [] OTHER                             -> Status(CodeOf(err)))
  /\ UNCHANGED <<noteVars, ends, ids, raised, late, stream>>

\* The service's method: it returns, in time or late, or panics.
Serve ==
  /\ at = Handler /\ dir = "in" /\ scene # "clientstream"
  /\ ids' = Append(ids, ctx[at].id)
  /\ late' \in IF ctx[at].deadline = "none" THEN {FALSE} ELSE {late, TRUE}
  /\ \/ dir' = "panic" /\ at' = at - 1 /\ raised' = Nil /\ UNCHANGED <<err, ctx>>
     \/ \E e \in Results : Returns(e) /\ raised' = e
     \/ /\ scene = "serverstream" /\ ~valid
        /\ Returns(Status(codes.InvalidArgument)) /\ raised' = err'
  /\ UNCHANGED <<noteVars, ends, stream, wired>>

\* The streamer makes the client's stream, or does not.
Open ==
  /\ at = Handler /\ dir = "in" /\ scene = "clientstream"
  /\ \/ Returns(Nil) /\ stream' = "open"
     \/ Returns(Status(codes.Unavailable)) /\ UNCHANGED stream
  /\ ids' = Append(ids, IF ctx[at].mdID = << >> THEN "none" ELSE ctx[at].mdID[1])
  /\ UNCHANGED <<noteVars, ends, raised, late, wired>>

\* The caller is done sending, or asks for a header that does not come: the
\* traced stream ends its span.
CloseSend ==
  /\ at = 0 /\ dir = "out" /\ stream \in {"open", "cancelled"}
  /\ stream' = "closed" /\ spans' = {}
  /\ UNCHANGED <<at, dir, err, ctx, told, gauges, admitted, ends, ids, raised, late, wired>>

Interceptor ==
  \/ LoggingUnaryServer \/ LoggingStreamServer \/ LoggingUnaryClient \/ LoggingStreamClient
  \/ TracingUnaryServer \/ TracingStreamServer \/ TracingUnaryClient \/ TracingStreamClient
  \/ MetricsUnaryServer \/ MetricsStreamServer \/ MetricsUnaryClient \/ MetricsStreamClient
  \/ BreakerUnaryServer \/ BreakerStreamServer \/ BreakerUnaryClient \/ BreakerStreamClient
  \/ RatelimitUnaryServer \/ RatelimitStreamServer \/ RatelimitUnaryClient
  \/ RatelimitStreamClient
  \/ TimeoutUnaryServer \/ TimeoutStreamServer \/ TimeoutUnaryClient \/ TimeoutStreamClient
  \/ RequestIDUnaryServer \/ RequestIDStreamServer \/ RequestIDUnaryClient
  \/ RequestIDStreamClient
  \/ MetadataUnaryServer \/ MetadataStreamServer \/ MetadataUnaryClient \/ MetadataStreamClient
  \/ ErrorsUnaryServer \/ ErrorsStreamServer \/ ErrorsUnaryClient \/ ErrorsStreamClient
  \/ ValidateUnaryServer \/ ValidateStreamServer
  \/ RetryUnaryServer \/ RetryStreamServer \/ RetryUnaryClient
  \/ RecoveryUnaryServer \/ RecoveryStreamServer \/ Unwind \/ Skipped

Next == (Interceptor \/ Wire \/ Serve \/ Open \/ CloseSend) /\ UNCHANGED given

Spec == Init /\ [][Next]_rpcVars

------------------------------------------------------------------------------
Done == at = 0 /\ dir = "out"

Has(m, form) == \E i \in Levels : chain[i] = m /\ Form(i) = form /\ skip # m

TypeOK ==
  /\ at \in 0 .. Handler /\ dir \in {"in", "out", "panic"}
  /\ told \in [Levels -> -1 .. 16]
  /\ spans \cup gauges \cup admitted \subseteq Levels
  /\ stream \in {"none", "open", "cancelled", "closed"}

\* The levels of i's side above it leave the result as it is.
Unaltered(i) == \A j \in (IF i > WireAt THEN WireAt + 1 ELSE 1) .. i - 1 :
                  chain[j] \notin {"errors", "timeout", "retry"} \/ chain[j] = skip

\* What an interceptor logged, counted or judged is the code its peer gets, on
\* the wire or in the caller's hands, unless an interceptor above it translates,
\* replaces or retries the result.
ToldIsSent ==
  Done => \A i \in Levels :
            told[i] # -1 /\ Unaltered(i) =>
              told[i] = IF i > WireAt /\ WireAt # 0 THEN wired ELSE CodeOf(err)

\* An admitted call is marked, unless a panic passed the breaker on its way to a
\* recovery interceptor that stands above it.
AdmittedIsMarked ==
  Done => \A i \in admitted : \E j \in 1 .. i - 1 : chain[j] = "recovery"

\* No span stays open and no gauge stays set once a unary call or a server
\* stream is over, or the client closed its stream.
NothingLeftOpen ==
  /\ Done /\ stream \notin {"open", "cancelled"} => spans = {}
  /\ Done /\ scene # "clientstream" => gauges = {}

\* A method is run again only when it is idempotent and the attempt before was
\* answered Unavailable, and the caller gets the last attempt's answer.
RetriesAreSafe ==
  \A i \in Levels :
    /\ Len(ends[i]) > 0 => idempotent /\ chain[i] = "retry"
    /\ Len(ends[i]) <= MaxTries
    /\ \A k \in 1 .. Len(ends[i]) - 1 : ends[i][k] = codes.Unavailable

\* What the caller's context carries, the request ID or a configured key, reaches
\* every run of the handler, over the wire and through retries, when both sides
\* have the interceptor for it.
ContextSurvives ==
  scene = "unary" =>
    /\ ctx[1].id = "callers" /\ Has("requestid", "unaryClient") /\ Has("requestid", "unaryServer")
       => \A k \in DOMAIN ids : ids[k] = "callers"
    /\ at = Handler /\ Has("metadata", "unaryClient") /\ Has("metadata", "unaryServer")
       => ctx[at].key = ctx[1].key

\* The handler runs under the caller's deadline when there is one, and under some
\* deadline when a timeout interceptor is on its way.
DeadlineKept ==
  at = Handler =>
    /\ ctx[1].deadline = "callers" => ctx[at].deadline = "callers"
    /\ (\E i \in Levels : chain[i] = "timeout" /\ skip # "timeout") => ctx[at].deadline # "none"

\* A framework error keeps its class, the client's fault or the server's, from
\* the handler through both translations.
ClassSurvives ==
  Done /\ raised.kind = "framework" /\ wired = HTTPToGRPC(raised.code) /\ ~late
    /\ Has("errors", "unaryClient") /\ Has("errors", "unaryServer")
    => err.code \div 100 = raised.code \div 100

\* A client stream that was created can be used: its context is not cancelled.
StreamIsUsable == Done => stream # "cancelled"
=============================================================================
