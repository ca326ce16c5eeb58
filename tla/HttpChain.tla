----------------------------- MODULE HttpChain -----------------------------
(***************************************************************************)
(* transport/http/middleware: one request on its way through a chain of    *)
(* middlewares to the handler and back.  chain[1] is the outermost; the    *)
(* handler stands at level Len(chain) + 1.  Each middleware is what it     *)
(* does before next.ServeHTTP (its Enter), what it does after it returned  *)
(* (its Leave) and what its deferred calls do when a panic passes it.      *)
(*                                                                         *)
(* The middlewares that look at the answer wrap the ResponseWriter, so a   *)
(* write made at level d passes the writers of the levels above it: the    *)
(* recorders note the status, crypto keeps the body until it returns, and  *)
(* the retry recorder keeps everything.  The timeout middleware runs the   *)
(* handler in a goroutine of its own and is in HttpRequests.               *)
(***************************************************************************)
EXTENDS Integers, Sequences, SequencesExt

CONSTANTS Chains,    \* the sequences of middlewares, each without repetition
          MaxTries   \* attempts the Retrier allows

VARIABLES chain, skip,    \* skip: the middleware whose skipFunc is true, or "none"
          request,        \* what the client sent
          at, dir,        \* the level that runs next, and which part of it
          readers, body,  \* the readers made so far, and the one r.Body is
          mark,           \* the one it was when the retry middleware was entered
          ctx, seen,      \* the values in the request's context; what the handler read
          out,            \* every writer's state, and what the client got
          told,           \* level -> the status it reported, 0 if it did not
          spans, admitted, \* levels with an open span (or gauge); unmarked Allows
          tries

chainVars == <<chain, skip, request, at, dir, readers, body, mark, ctx, seen, out, told,
               spans, admitted, tries>>
answerVars == <<out, told, spans, admitted>>
bodyVars   == <<readers, body, mark, seen>>
fixed      == <<chain, skip, request>>

Recorders == {"logging", "metrics", "tracing", "breaker"}
Handler   == Len(chain) + 1
On(i, m)  == chain[i] = m /\ skip # m
Has(m)    == \E i \in 1 .. Len(chain) : On(i, m)
Level(m)  == CHOOSE i \in 1 .. Len(chain) : chain[i] = m

------------------------------------------------------------------------------
(* The writers.                                                            *)

\* Where a write made at level d ends: in the recorder of the running attempt
\* when the retry middleware is above d, or at the client (level 0).
Sink(d) == IF tries > 0 /\ Level("retry") < d THEN Level("retry") ELSE 0

Above(d) == {i \in 1 .. Len(chain) : Sink(d) < i /\ i < d}

\* Faulty variant: the recorders pass the status on without noting it.
PutHeader_Unnoted(o, d, code) ==
  IF Sink(d) # 0 THEN [o EXCEPT !.retry.status = code]
  ELSE [o EXCEPT !.wire.status = IF @ = 0 THEN code ELSE @, !.twice = @ \/ o.wire.status # 0]

\* w.WriteHeader(code): statusRecorder and responseWriter keep the last code,
\* so does retryRecorder; net/http sends the first.
PutHeader(o, d, code) ==
  LET noted == [i \in DOMAIN o.rec |->
                  IF i \in Above(d) /\ \E m \in Recorders : On(i, m) THEN code ELSE o.rec[i]]
  IN  IF Sink(d) # 0 THEN [o EXCEPT !.rec = noted, !.retry.status = code]
      ELSE [o EXCEPT !.rec = noted, !.wire.status = IF @ = 0 THEN code ELSE @,
                     !.twice = @ \/ o.wire.status # 0]

\* w.Write(chunks): the encryptingWriter buffers, the rest pass it on.
PutBody(o, d, chunks) ==
  CASE chunks = << >>                          -> o
    [] \E i \in Above(d) : On(i, "crypto")     -> [o EXCEPT !.held = @ \o chunks]
    [] OTHER ->
         IF Sink(d) # 0 THEN [o EXCEPT !.retry.body = @ \o chunks]
         ELSE [o EXCEPT !.wire.status = IF @ = 0 THEN 200 ELSE @, !.wire.body = @ \o chunks]

PutID(o, d, id) == IF Sink(d) # 0 THEN [o EXCEPT !.retry.id = id] ELSE [o EXCEPT !.wire.id = id]

Chunk(d) == <<[by |-> d, try |-> tries, form |-> "plain"]>>

\* http.Error and the Respond helpers: a status and a body.
Answer(o, d, code) == PutBody(PutHeader(o, d, code), d, Chunk(d))

EmptyAnswer == [status |-> 0, body |-> << >>, id |-> "none"]

\* newRetryRecorder: a status of its own, 200 until it is set.
newRetryRecorder == [EmptyAnswer EXCEPT !.status = 200]

------------------------------------------------------------------------------
(* The request.                                                            *)

\* What a chain can tell apart; an attribute nobody looks at has one value.
Choice(m, values, default) == IF \E i \in 1 .. Len(chain) : chain[i] = m THEN values ELSE {default}

Requests == [method : {"GET", "POST", "OPTIONS"},
             origin : Choice("cors", {"none", "allowed", "other"}, "none"),
             body   : {"none", "plain"} \cup Choice("crypto", {"cipher", "bad"}, "none"),
             mime   : Choice("codec", {"json", "avro", "odd"}, "json"),
             codecs : Choice("codec", {{}, {"json"}, {"json", "avro"}}, {"json"}),
             valid  : Choice("validate", {"ok", "header", "type", "size", "custom"}, "ok"),
             key    : Choice("metadata", {"none", "value"}, "none"),
             id     : Choice("requestid", {"none", "given"}, "none")]

Init ==
  /\ chain \in Chains
  /\ skip \in {"none"} \cup (Range(chain) \ {"recovery", "tracing", "errors", "cors", "requestid",
                                             "metadata", "codec", "validate"})
  /\ request \in Requests
  /\ request.body = "plain" => ~Has("crypto")
  /\ at = 1 /\ dir = "in"
  /\ readers = <<[text |-> request.body, kind |-> "net", read |-> FALSE]>>
  /\ body = 1 /\ mark = 1 /\ ctx = [id |-> "none", key |-> "none", codec |-> "none", errors |-> FALSE] /\ seen = << >>
  /\ out = [rec |-> [i \in 1 .. Len(chain) |-> 0], held |-> << >>, twice |-> FALSE,
            retry |-> EmptyAnswer, wire |-> EmptyAnswer]
  /\ told = [i \in 1 .. Len(chain) |-> 0]
  /\ spans = {} /\ admitted = {} /\ tries = 0

\* io.ReadAll of the body, which the caller closes: the server's body refuses
\* to be read again, a NopCloser around bytes.Reader is just at its end.
Reads(b) == CASE readers[b].text = "none" -> "none"
              [] ~readers[b].read         -> readers[b].text
              [] readers[b].kind = "net"  -> "error"
              [] OTHER                    -> "none"

Consumed(b) == [readers EXCEPT ![b].read = TRUE]

Restored(b, text) == Append(Consumed(b), [text |-> text, kind |-> "buf", read |-> FALSE])

------------------------------------------------------------------------------
(* The way in.                                                             *)

\* next.ServeHTTP(w, r), and the return without it.
Next_      == at' = at + 1 /\ dir' = "in"
Returns    == at' = at - 1 /\ dir' = "out"
Refuses(c) == Returns /\ out' = Answer(out, at, c)

Enters(m) == dir = "in" /\ at <= Len(chain) /\ chain[at] = m /\ skip # m

Skipped == /\ dir = "in" /\ at <= Len(chain) /\ chain[at] = skip
           /\ Next_
           /\ UNCHANGED <<bodyVars, ctx, answerVars, tries>>

Wraps == out' = [out EXCEPT !.rec[at] = 200]

RecoveryEnter == /\ Enters("recovery") /\ Next_
                 /\ UNCHANGED <<bodyVars, ctx, answerVars, tries>>

LoggingEnter == /\ Enters("logging") /\ Next_ /\ Wraps
                /\ UNCHANGED <<bodyVars, ctx, told, spans, admitted, tries>>

\* The gauge is set to 1 and a deferred call sets it to 0.
MetricsEnter == /\ Enters("metrics") /\ Next_ /\ Wraps
                /\ spans' = spans \cup {at}
                /\ UNCHANGED <<bodyVars, ctx, told, admitted, tries>>

TracingEnter == /\ Enters("tracing") /\ Next_ /\ Wraps
                /\ spans' = spans \cup {at}
                /\ UNCHANGED <<bodyVars, ctx, told, admitted, tries>>

\* cb.Allow decides; a refusal is a 503.
BreakerEnter ==
  /\ Enters("breaker")
  /\ \/ Next_ /\ Wraps /\ admitted' = admitted \cup {at}
     \/ Refuses(503) /\ UNCHANGED admitted
  /\ UNCHANGED <<bodyVars, ctx, told, spans, tries>>

\* limiter.Allow or, in wait mode, limiter.Wait decides.
RatelimitEnter ==
  /\ Enters("ratelimit")
  /\ \/ Next_ /\ UNCHANGED out
     \/ Refuses(429)
  /\ UNCHANGED <<bodyVars, ctx, told, spans, admitted, tries>>

\* The body builder of errors.Respond, and the configured headers, go into the
\* context of the request.
ErrorsEnter == /\ Enters("errors") /\ Next_ /\ ctx' = [ctx EXCEPT !.errors = TRUE]
               /\ UNCHANGED <<bodyVars, answerVars, tries>>

MetadataEnter == /\ Enters("metadata") /\ Next_ /\ ctx' = [ctx EXCEPT !.key = request.key]
                 /\ UNCHANGED <<bodyVars, answerVars, tries>>

\* A preflight of an allowed origin is answered here.
CorsEnter ==
  /\ Enters("cors")
  /\ IF request.origin = "allowed" /\ request.method = "OPTIONS"
     THEN Returns /\ out' = PutHeader(out, at, 204)
     ELSE Next_ /\ UNCHANGED out
  /\ UNCHANGED <<bodyVars, ctx, told, spans, admitted, tries>>

\* Faulty variant: the echoed ID is not the one put in the context.
RequestIDEnter_Twice ==
  /\ Enters("requestid") /\ Next_
  /\ ctx' = [ctx EXCEPT !.id = IF request.id = "none" THEN <<"made", tries>> ELSE "given"]
  /\ out' = PutID(out, at, request.id)
  /\ UNCHANGED <<bodyVars, told, spans, admitted, tries>>

\* The client's ID, or a new one, is echoed in the answer and put in the context.
RequestIDEnter ==
  /\ Enters("requestid") /\ Next_
  /\ ctx' = [ctx EXCEPT !.id = IF request.id = "none" THEN <<"made", tries>> ELSE "given"]
  /\ out' = PutID(out, at, ctx'.id)
  /\ UNCHANGED <<bodyVars, told, spans, admitted, tries>>

\* A MIME type the table does not know stands for json.
codecNameFromMIME(mime) == IF mime = "odd" THEN "json" ELSE mime

\* The codec of the content type, or the default one.
CodecEnter ==
  /\ Enters("codec")
  /\ LET name == codecNameFromMIME(request.mime)
     IN  CASE name \in request.codecs   -> Next_ /\ ctx' = [ctx EXCEPT !.codec = name] /\ UNCHANGED out
           [] name \notin request.codecs /\ "json" \in request.codecs
                                       -> Next_ /\ ctx' = [ctx EXCEPT !.codec = "json"] /\ UNCHANGED out
           [] OTHER                    -> Refuses(415) /\ UNCHANGED ctx
  /\ UNCHANGED <<bodyVars, told, spans, admitted, tries>>

ValidateEnter ==
  /\ Enters("validate")
  /\ CASE request.valid = "ok"                   -> Next_ /\ UNCHANGED out
       [] request.valid \in {"header", "custom"} -> Refuses(400)
       [] request.valid = "type"                 -> Refuses(415)
       [] request.valid = "size"                 -> Refuses(413)
  /\ UNCHANGED <<bodyVars, ctx, told, spans, admitted, tries>>

\* Faulty variant: the plaintext is not put back into the request.
CryptoEnter_KeepsBody ==
  /\ Enters("crypto") /\ Next_ /\ out' = [out EXCEPT !.held = << >>]
  /\ UNCHANGED <<bodyVars, ctx, told, spans, admitted, tries>>

\* The request's body is read, decrypted and put back; an empty one is left.
CryptoEnter ==
  /\ Enters("crypto")
  /\ LET text == Reads(body)
     IN  CASE text = "none"   -> /\ Next_ /\ out' = [out EXCEPT !.held = << >>]
                                 /\ readers' = Consumed(body) /\ UNCHANGED body
           [] text = "cipher" -> /\ Next_ /\ out' = [out EXCEPT !.held = << >>]
                                 /\ readers' = Restored(body, "plain")
                                 /\ body' = Len(readers')
           [] OTHER           -> /\ Refuses(400)
                                 /\ readers' = Consumed(body) /\ UNCHANGED body
  /\ UNCHANGED <<mark, seen, ctx, told, spans, admitted, tries>>

\* Faulty variant: one recorder serves all attempts.
StartsAttempt_SameRecorder(o) ==
  [o EXCEPT !.retry.status = 200, !.retry.body = IF tries = 0 THEN << >> ELSE @]

\* An attempt: a copy of the request, which shares the body, and a recorder.
StartsAttempt(o) == [o EXCEPT !.retry = newRetryRecorder]

\* A method that is not idempotent passes; Do may refuse at once, its context
\* cancelled, and then nothing is flushed.
RetryEnter ==
  /\ Enters("retry")
  /\ \/ request.method = "POST" /\ Next_ /\ UNCHANGED <<out, mark, tries>>
     \/ /\ request.method # "POST" /\ Next_
        /\ tries' = 1 /\ mark' = body /\ out' = StartsAttempt(out)
     \/ request.method # "POST" /\ Returns /\ UNCHANGED <<out, mark, tries>>
  /\ UNCHANGED <<readers, body, seen, ctx, told, spans, admitted>>

------------------------------------------------------------------------------
(* The handler.                                                            *)

\* codec.ReadBody reads, closes and restores, unless reading failed; without the
\* codec middleware the handler gets ErrCodecNotFound.
ReadBody ==
  /\ ctx.codec # "none"
  /\ seen' = Append(seen, Reads(body))
  /\ IF Reads(body) = "error" THEN UNCHANGED <<readers, body>>
     ELSE readers' = Restored(body, Reads(body)) /\ body' = Len(readers')

\* What a handler writes: nothing; a body; a status and a body by codec.Respond;
\* an error by errors.Respond; a status it has second thoughts about.
Writes(d) == {out, PutBody(out, d, Chunk(d))}
             \cup {Answer(out, d, code) : code \in {200, 404, 500, 503}}
             \cup {Answer(PutHeader(out, d, 200), d, 500)}

\* codec.Respond: nothing is written when the value cannot be marshalled.
Respond == {out, Answer(out, Handler, 200)}

\* errors.Respond: the framework's errors carry their code, others are a 500.
ErrorsRespond == {Answer(out, Handler, code) : code \in {404, 500, 503}}

ServeHTTP ==
  /\ dir = "in" /\ at = Handler
  /\ ReadBody \/ UNCHANGED <<readers, body, seen>>
  /\ out' \in Writes(at) \cup Respond \cup ErrorsRespond
  /\ dir' \in {"out", "panic"} /\ at' = Len(chain)
  /\ UNCHANGED <<mark, ctx, told, spans, admitted, tries>>

------------------------------------------------------------------------------
(* The way back.                                                           *)

Leaves(m) == dir = "out" /\ at >= 1 /\ On(at, m) /\ Returns

\* A middleware that has nothing to do once the next returned.
Passes ==
  /\ dir = "out" /\ at >= 1 /\ Returns
  /\ \/ chain[at] = skip
     \/ chain[at] \notin Recorders \cup {"crypto", "retry"}
     \/ chain[at] = "retry" /\ tries = 0
  /\ UNCHANGED <<bodyVars, ctx, answerVars, tries>>

Tells == told' = [told EXCEPT ![at] = out.rec[at]]

LoggingLeave == /\ Leaves("logging") /\ Tells
                /\ UNCHANGED <<bodyVars, ctx, out, spans, admitted, tries>>

MetricsLeave == /\ Leaves("metrics") /\ Tells
                /\ spans' = spans \ {at}
                /\ UNCHANGED <<bodyVars, ctx, out, admitted, tries>>

TracingLeave == /\ Leaves("tracing") /\ Tells
                /\ spans' = spans \ {at}
                /\ UNCHANGED <<bodyVars, ctx, out, admitted, tries>>

\* Faulty variant: only a failure is marked.
BreakerLeave_FailuresOnly ==
  /\ Leaves("breaker") /\ Tells
  /\ admitted' = IF out.rec[at] >= 500 THEN admitted \ {at} ELSE admitted
  /\ UNCHANGED <<bodyVars, ctx, out, spans, tries>>

\* MarkFailure or MarkSuccess, by the status recorded.
BreakerLeave == /\ Leaves("breaker") /\ Tells
                /\ admitted' = admitted \ {at}
                /\ UNCHANGED <<bodyVars, ctx, out, spans, tries>>

\* flush: the body goes on encrypted, in plaintext if that fails.
CryptoLeave ==
  /\ Leaves("crypto")
  /\ \E form \in {"enc", "plain"} :
       out' = PutBody([out EXCEPT !.held = << >>], at,
                      [k \in DOMAIN out.held |-> [out.held[k] EXCEPT !.form = form]])
  /\ UNCHANGED <<bodyVars, ctx, told, spans, admitted, tries>>

\* flushTo: the headers, the status and the body of the kept answer.
flushTo(o, d) ==
  LET named == IF o.retry.id = "none" THEN o ELSE PutID(o, d, o.retry.id)
  IN  PutBody(PutHeader(named, d, o.retry.status), d, o.retry.body)

\* A retryable status asks for another attempt; the Retrier may have none left.
\* Then, and after any other status, the last answer is flushed.
RetryLeave ==
  /\ dir = "out" /\ at >= 1 /\ On(at, "retry") /\ tries > 0
  /\ \/ /\ out.retry.status = 503 /\ tries < MaxTries
        /\ Next_ /\ tries' = tries + 1 /\ out' = StartsAttempt(out) /\ body' = mark
     \/ Returns /\ out' = flushTo(out, at) /\ UNCHANGED <<tries, body>>
  /\ UNCHANGED <<readers, mark, seen, ctx, told, spans, admitted>>

\* Faulty variant: the span and the gauge are left as they are by a panic.
Unwind_NoDefer ==
  /\ dir = "panic" /\ at >= 1 /\ chain[at] # "recovery"
  /\ at' = at - 1
  /\ UNCHANGED <<dir, bodyVars, ctx, answerVars, tries>>

\* A panic passes a middleware: only its deferred calls run.
Unwind ==
  /\ dir = "panic" /\ at >= 1 /\ chain[at] # "recovery"
  /\ at' = at - 1 /\ spans' = spans \ {at}
  /\ UNCHANGED <<dir, bodyVars, ctx, out, told, admitted, tries>>

\* The recovery middleware answers with a 500; headersWritten is always false.
Recover ==
  /\ dir = "panic" /\ at >= 1 /\ chain[at] = "recovery"
  /\ Refuses(500)
  /\ UNCHANGED <<bodyVars, ctx, told, spans, admitted, tries>>

\* net/http ends the answer; after a panic it drops the connection.
Finish ==
  /\ at = 0 /\ dir \in {"out", "panic"}
  /\ dir' = IF dir = "out" THEN "done" ELSE "aborted"
  /\ out' = IF dir = "out" /\ out.wire.status = 0 THEN [out EXCEPT !.wire.status = 200] ELSE out
  /\ UNCHANGED <<at, bodyVars, ctx, told, spans, admitted, tries>>

Enter == \/ Skipped \/ RecoveryEnter \/ LoggingEnter \/ MetricsEnter \/ TracingEnter
         \/ BreakerEnter \/ RatelimitEnter \/ ErrorsEnter \/ MetadataEnter \/ CorsEnter
         \/ RequestIDEnter \/ CodecEnter \/ ValidateEnter \/ CryptoEnter \/ RetryEnter

Leave == \/ Passes \/ LoggingLeave \/ MetricsLeave \/ TracingLeave \/ BreakerLeave
         \/ CryptoLeave \/ RetryLeave \/ Unwind \/ Recover \/ Finish

Next == (Enter \/ ServeHTTP \/ Leave) /\ UNCHANGED fixed

Spec == Init /\ [][Next]_chainVars

------------------------------------------------------------------------------
Over == dir \in {"done", "aborted"}

TypeOK ==
  /\ at \in 0 .. Handler /\ dir \in {"in", "out", "panic", "done", "aborted"}
  /\ body \in DOMAIN readers /\ mark \in DOMAIN readers
  /\ tries \in 0 .. MaxTries
  /\ spans \cup admitted \subseteq 1 .. Len(chain)

\* What the log, the metrics, the span and the breaker were told is the status
\* the client got, in any order of the middlewares: it may differ only when two
\* statuses were written, and below the retry middleware, where it is the
\* attempt's.
RecordedIsSent ==
  dir = "done" /\ ~out.twice =>
    \A i \in 1 .. Len(chain) :
      told[i] # 0 /\ Sink(i) = 0 => told[i] = out.wire.status

\* The breaker hears of every request it admitted, unless a panic passed it: the
\* recovery middleware then has to stand below it.
AdmittedIsMarked ==
  dir = "done" => \A i \in admitted : \E j \in 1 .. i - 1 : chain[j] = "recovery"

\* Spans are ended and gauges reset however the request ends, panics included.
SpansEnd == Over => spans = {}

\* The client is never given parts of two attempts: what the levels below the
\* retry middleware sent is the last attempt's.
OneAttempt ==
  Over /\ tries > 0 =>
    \A k \in DOMAIN out.wire.body :
      out.wire.body[k].by > Level("retry") => out.wire.body[k].try = tries

\* With the crypto middleware a handler never reads ciphertext, and its first
\* attempt reads the body the client encrypted.
HandlerReadsPlain ==
  Has("crypto") =>
    /\ \A k \in DOMAIN seen : seen[k] \notin {"cipher", "bad"}
    /\ seen # << >> /\ request.body = "cipher" => seen[1] = "plain"

\* The echoed request ID is the one the handler that answered saw; only an answer
\* that a panic keeps the retry middleware from flushing has none.
EchoIsSeen ==
  dir = "done" /\ ctx.id # "none" =>
    ctx.id = out.wire.id \/ (out.wire.id = "none" /\ Sink(Level("requestid")) # 0)

\* Under the recovery middleware as the outermost one every request is answered
\* and no connection is dropped.
PanicIsAnswered ==
  chain # << >> /\ chain[1] = "recovery" => dir # "aborted"
=============================================================================
