----------------------------- MODULE MCHystrix -----------------------------
(***************************************************************************)
(* The Hystrix breaker under concurrent callers, and what stands between a *)
(* breaker and a request: the chains of HTTP middlewares and of gRPC       *)
(* interceptors.  unit names the part that runs; the others rest in an     *)
(* initial state.                                                          *)
(***************************************************************************)
EXTENDS Hystrix, Sequences, TLC

CONSTANTS Units, MaxTries

VARIABLES unit,
          chain, skip, request, at, dir, readers, body, mark, ctx, seen, out, told, spans,
          admitted, tries,
          scene, rchain, rskip, idempotent, valid, rat, rdir, err, rctx, rtold, rspans,
          gauges, radmitted, ends, ids, raised, late, stream, wired

httpVars == <<chain, skip, request, at, dir, readers, body, mark, ctx, seen, out, told, spans,
              admitted, tries>>
grpcVars == <<scene, rchain, rskip, idempotent, valid, rat, rdir, err, rctx, rtold, rspans,
              gauges, radmitted, ends, ids, raised, late, stream, wired>>
suiteVars == <<unit, vars, httpVars, grpcVars>>

\* Orders of the HTTP middlewares: every one of them, each of those that look at the
\* answer above and below recovery, retry and crypto.
Chains == {
  <<"recovery", "logging", "errors">>, <<"metrics", "recovery", "breaker">>,
  <<"breaker", "recovery", "tracing">>, <<"recovery", "retry", "crypto", "codec">>,
  <<"crypto", "retry", "codec">>, <<"logging", "retry", "metrics">>,
  <<"retry", "requestid", "codec">>, <<"requestid", "retry", "codec">>,
  <<"metrics", "cors", "metadata">>, <<"tracing", "validate", "ratelimit">>,
  <<"logging", "crypto", "breaker">>, <<"breaker", "retry", "recovery">>,
  <<"retry", "breaker">>, <<"recovery", "crypto", "metrics">>}

\* A unary call passes the client's interceptors, the wire and the server's; streams
\* are looked at on one side.
UnaryChains == {
  <<"errors", "retry", "wire", "recovery", "metrics">>,
  <<"retry", "requestid", "wire", "requestid", "errors">>,
  <<"metrics", "breaker", "wire", "breaker", "recovery">>,
  <<"requestid", "timeout", "wire", "requestid", "timeout", "logging">>,
  <<"logging", "ratelimit", "wire", "errors", "tracing">>,
  <<"tracing", "metadata", "wire", "ratelimit", "metadata">>,
  <<"errors", "wire", "validate", "errors">>, <<"wire", "retry", "breaker", "logging">>,
  <<"wire", "recovery", "breaker">>, <<"retry", "errors", "wire">>}
ClientStreamChains == {
  <<"metrics", "tracing">>, <<"errors", "logging", "breaker">>, <<"timeout">>,
  <<"requestid", "metadata", "ratelimit">>}
ServerStreamChains == {
  <<"recovery", "breaker", "metrics">>, <<"errors", "tracing", "validate">>,
  <<"retry", "logging", "timeout">>, <<"requestid", "metadata", "ratelimit">>}

H == INSTANCE HttpChain
G == INSTANCE GrpcChain WITH chain <- rchain, skip <- rskip, at <- rat, dir <- rdir,
                             ctx <- rctx, told <- rtold, spans <- rspans,
                             admitted <- radmitted

SuiteInit ==
  /\ unit \in Units
  /\ Init
  /\ unit # "http" => chain = CHOOSE c \in Chains : TRUE
  /\ H!Init
  /\ unit # "http" => skip = "none" /\ request = CHOOSE r \in H!Requests : r.body = "none"
  /\ unit # "grpc" => scene = "unary" /\ rchain = CHOOSE c \in UnaryChains : TRUE
  /\ G!Init
  /\ unit # "grpc" => rskip = "none" /\ idempotent /\ valid
  /\ unit # "grpc" => rctx[1] = CHOOSE c \in G!Contexts : TRUE

BreakerOnly(A) == unit = "breaker" /\ A /\ UNCHANGED <<unit, httpVars, grpcVars>>
HttpOnly(A)    == unit = "http" /\ A /\ UNCHANGED <<unit, vars, grpcVars>>
GrpcOnly(A)    == unit = "grpc" /\ A /\ UNCHANGED <<unit, vars, httpVars>>

SuiteNext == BreakerOnly(Next) \/ HttpOnly(H!Next) \/ GrpcOnly(G!Next)

SuiteSpec == SuiteInit /\ [][SuiteNext]_suiteVars

CallerSymmetry == Permutations(Callers)

\* The types of the three parts.
AllTypesOK == TypeOK /\ H!TypeOK /\ G!TypeOK

\* What a middleware or an interceptor logs, counts, traces or reports to its breaker
\* is what was sent, whatever stands above and below it; every admitted call is
\* marked, every span ended and every gauge reset, unless a panic passes by.
ObserversAgree ==
  /\ H!RecordedIsSent /\ H!AdmittedIsMarked /\ H!SpansEnd
  /\ G!ToldIsSent /\ G!AdmittedIsMarked /\ G!NothingLeftOpen

\* Through an HTTP chain a handler reads what the client meant and the client gets
\* one attempt's answer under the request ID that the handler saw.  Through the gRPC
\* interceptors of both sides the request ID, the metadata and the deadline reach
\* every run of the handler, an error keeps its class, and only an idempotent call
\* is run again.
ChainsKeep ==
  /\ H!OneAttempt /\ H!HandlerReadsPlain /\ H!EchoIsSeen /\ H!PanicIsAnswered
  /\ G!RetriesAreSafe /\ G!ContextSurvives /\ G!DeadlineKept /\ G!ClassSurvives
=============================================================================
