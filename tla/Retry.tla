------------------------------- MODULE Retry -------------------------------
(***************************************************************************)
(* retry: one call of Retrier.Do, made directly ("do") or by the HTTP      *)
(* middleware ("http") or the gRPC server interceptors ("unary" and        *)
(* "stream").  The first two of the three hold an attempt's response back  *)
(* until it is the one to send; a stream's handler writes to the client.   *)
(*                                                                         *)
(* An attempt ends "ok", "transient", "fatal" (an error that is not        *)
(* retried: by the classifier's choice, or the middleware's) or "declined" *)
(* (the middleware would retry it, the classifier does not).               *)
(* Time is in ticks: elapsed is r.now().Sub(start), counted no further     *)
(* than MaxTotalWait, the only value it is compared with.                  *)
(***************************************************************************)
EXTENDS Integers, Sequences, FiniteSetsExt, TLAPS

CONSTANTS Kinds,                  \* who calls Do
          MaxAttempts, MaxTotalWait,
          Initial, Factor, Step, MaxDelay,   \* of the backoffs
          Backoffs,               \* some of "fixed", "linear", "exponential"
          Jitters                 \* some of "none", "full", "equal"

ASSUME RetryAssumption == MaxAttempts \in Nat \ {0}

VARIABLES kind, pc,
          ctxDone,        \* the context is cancelled
          elapsed, left,  \* time since Do was called; what is left of the sleep
          calls,          \* attempts so far
          last,           \* how the last one ended (lastErr, lastRW, lastResp)
          result,         \* what Do returned
          sent,           \* the attempts whose responses the client was given
          body,           \* the request's body: "full", or "read" by a handler
          stale           \* history: an attempt began with a body already read

vars == <<kind, pc, ctxDone, elapsed, left, calls, last, result, sent, body, stale>>

Ends == {"ok", "fatal", "declined", "transient"}

Init ==
  /\ kind \in Kinds /\ pc = "enter"
  /\ ctxDone \in BOOLEAN
  /\ elapsed = 0 /\ left = 0 /\ calls = 0
  /\ last = "none" /\ result = "none" /\ sent = << >>
  /\ body = "full" /\ stale = FALSE

Cancel ==
  /\ ~ctxDone /\ pc # "done" /\ ctxDone' = TRUE
  /\ UNCHANGED <<kind, pc, elapsed, left, calls, last, result, sent, body, stale>>

Tick ==
  /\ pc = "running" \/ (pc = "sleeping" /\ left > 0)
  /\ elapsed' = Min({elapsed + 1, MaxTotalWait})
  /\ left' = IF pc = "sleeping" THEN left - 1 ELSE left
  /\ UNCHANGED <<kind, pc, ctxDone, calls, last, result, sent, body, stale>>

------------------------------------------------------------------------------
\* The delay before attempt n + 2: ExponentialBackoff multiplies in a loop that
\* stops at the cap.
Capped(d) == IF MaxDelay > 0 /\ d > MaxDelay THEN MaxDelay ELSE d

ExponentialDelay(n) ==
  LET grown[i \in 0 .. n] == IF i = 0 THEN Initial ELSE Capped(grown[i - 1] * Factor)
  IN  Capped(grown[n])

LinearDelay(n) == Capped(Initial + Step * n)

Delay(b, n) == CASE b = "fixed"       -> Initial
                 [] b = "linear"      -> LinearDelay(n)
                 [] b = "exponential" -> ExponentialDelay(n)

\* What a jitter can make of a delay; the random number is below 1.
Jittered(j, d) ==
  LET below(x) == IF x = 0 THEN {0} ELSE 0 .. x - 1
  IN  CASE j = "none"  -> {d}
        [] j = "full"  -> below(d)
        [] j = "equal" -> {d \div 2 + x : x \in below(d \div 2)}

Drawn(n) == UNION {Jittered(j, Delay(b, n)) : j \in Jitters, b \in Backoffs}

\* The sleep before attempt n + 1.
Waits(n) ==
  LET remaining == MaxTotalWait - elapsed
  IN  {IF MaxTotalWait > 0 /\ w > remaining THEN remaining ELSE w : w \in Drawn(n)}

OutOfTime == MaxTotalWait > 0 /\ MaxTotalWait - elapsed <= 0

------------------------------------------------------------------------------
\* The middlewares pass a request that is not idempotent, or that they are told
\* to skip, straight to the handler: no loop, the handler answers the client.
Bypass ==
  /\ pc = "enter" /\ kind # "do"
  /\ \E end \in {"ok", "fatal", "transient"} : last' = end /\ sent' = <<end>>
  /\ pc' = "done" /\ result' = "bypassed" /\ calls' = 1
  /\ UNCHANGED <<kind, ctxDone, elapsed, left, body, stale>>

\* Do returns. A middleware ignores the error; it still has to answer.
Return(r) == result' = r /\ pc' = IF kind = "do" THEN "done" ELSE "answer"

\* The head of the loop: ctx.Err(), then fn.
Attempt ==
  /\ pc \in {"enter", "check"}
  /\ IF ctxDone THEN Return("canceled") /\ UNCHANGED <<calls, stale>>
     ELSE /\ pc' = "running" /\ calls' = calls + 1
          /\ stale' = (stale \/ body = "read")
          /\ UNCHANGED result
  /\ UNCHANGED <<kind, ctxDone, elapsed, left, last, sent, body>>

\* Faulty variant: the attempts are counted from one.
Exhausted_OneMore == calls = MaxAttempts + 1

\* Faulty variant: the last attempt is not made.
Exhausted_OneLess == calls >= MaxAttempts - 1

Exhausted == calls = MaxAttempts

\* What Do does with a retryable error: no sleep after the last attempt, none
\* when the time is up.
Backoff ==
  \/ Exhausted /\ Return("max") /\ UNCHANGED left
  \/ ~Exhausted /\ OutOfTime /\ Return("timeout") /\ UNCHANGED left
  \/ /\ ~Exhausted /\ ~OutOfTime
     /\ pc' = "sleeping" /\ left' \in Waits(calls - 1)
     /\ UNCHANGED result

\* What the client has once an attempt ends.  The HTTP middleware flushes the
\* buffered response unless it is to be retried; a stream's handler has sent its
\* messages itself, or failed before the first.
Flushed(end) ==
  CASE kind = "http" /\ end \in {"ok", "fatal"} -> {Append(sent, end)}
    [] kind = "stream" -> {sent, Append(sent, end)}
    [] OTHER -> {sent}

\* An attempt ends, having read the body or not. The middlewares return nil to Do
\* for an error that is not to be retried.
Ended(end) ==
  /\ pc = "running"
  /\ last' = end /\ sent' \in Flushed(end)
  /\ \/ end = "ok" /\ Return("ok") /\ UNCHANGED left
     \/ end = "fatal" /\ Return(IF kind = "do" THEN "fatal" ELSE "ok") /\ UNCHANGED left
     \/ end = "declined" /\ kind # "do" /\ Return("fatal") /\ UNCHANGED left
     \/ end = "transient" /\ Backoff
  /\ body' \in {body, "read"}
  /\ UNCHANGED <<kind, ctxDone, elapsed, calls, stale>>

\* Faulty variant: only the context ends the sleep.
Wake_OnlyContext ==
  /\ pc = "sleeping" /\ ctxDone /\ Return("canceled")
  /\ UNCHANGED <<kind, ctxDone, elapsed, left, calls, last, sent, body, stale>>

\* The select: the timer or the context; either when both are ready.
Wake ==
  /\ pc = "sleeping"
  /\ \/ left = 0 /\ pc' = "check" /\ UNCHANGED result
     \/ ctxDone /\ Return("canceled")
  /\ UNCHANGED <<kind, ctxDone, elapsed, left, calls, last, sent, body, stale>>

\* Faulty variant: the flag of the flush is forgotten.
Unanswered_Forgets == kind # "stream"

\* "http": nothing flushed yet (without an attempt there is no recorder to flush, and
\* net/http answers with an empty response); "unary": the last response and error,
\* nil and nil without an attempt; "stream": the error only.
Unanswered == (kind = "http" /\ sent = << >>) \/ kind = "unary"

\* What a middleware does after Do.
Answer ==
  /\ pc = "answer" /\ pc' = "done"
  /\ sent' = IF Unanswered THEN Append(sent, last) ELSE sent
  /\ UNCHANGED <<kind, ctxDone, elapsed, left, calls, last, result, body, stale>>

Next == Cancel \/ Tick \/ Bypass \/ Attempt \/ Wake \/ Answer \/ \E end \in Ends : Ended(end)

\* Time passes, the calling goroutine runs, and every attempt ends.
Progress == Attempt \/ Wake \/ Answer \/ \E end \in Ends : Ended(end)

Fairness == WF_vars(Tick /\ pc = "sleeping") /\ WF_vars(Progress)

Spec == Init /\ [][Next]_vars /\ Fairness

------------------------------------------------------------------------------
(* Properties. *)

\* The type of the state; no more than MaxAttempts attempts are made.
TypeOK ==
  /\ kind \in Kinds /\ pc \in {"enter", "check", "running", "sleeping", "answer", "done"}
  /\ ctxDone \in BOOLEAN /\ stale \in BOOLEAN /\ body \in {"full", "read"}
  /\ elapsed \in Nat /\ left \in Nat
  /\ calls \in 0 .. MaxAttempts
  /\ last \in Ends \union {"none"} /\ sent \in Seq(Ends \union {"none"})
  /\ result \in {"none", "bypassed", "ok", "fatal", "max", "timeout", "canceled"}

\* Do's result tells how the last attempt ended: nil only after a success (or, for
\* a middleware, an error it does not retry), ErrMaxAttempts only after that many
\* failures, ErrTimeout only when the time is up, and the context's error only
\* when the context is done.
ResultMatches ==
  pc \in {"answer", "done"} =>
    CASE result = "bypassed" -> kind # "do"
      [] result = "ok"       -> last = "ok" \/ (kind # "do" /\ last = "fatal")
      [] result = "fatal"    -> last = IF kind = "do" THEN "fatal" ELSE "declined"
      [] result = "max"      -> last = "transient" /\ calls = MaxAttempts
      [] result = "timeout"  -> last = "transient" /\ OutOfTime /\ calls < MaxAttempts
      [] result = "canceled" -> ctxDone /\ last \in {"none", "transient"}
      [] OTHER -> FALSE

\* The HTTP middleware and the unary interceptor answer their client once, with the
\* response of the last attempt, whichever way the loop ends, and with an empty one
\* ("none") if the context was done before the first; the responses of earlier
\* attempts are discarded.  Of the stream interceptor this is false.
AnsweredOnce == pc = "done" /\ kind \in {"http", "unary"} => sent = <<last>>

\* Do returns, and the middleware answers, whatever the attempts return.
Terminates == <>(pc = "done")

\* "Create a fresh request with the retrier's context": every attempt of a
\* middleware begins with the body of the request unread.
FreshRequest == kind = "http" => ~stale

------------------------------------------------------------------------------
(* Proofs for any number of attempts, any time limit, any backoff and any  *)
(* jitter: none of the facts below looks at how long a sleep is.           *)

\* The middlewares that hold a response back.
Buffered == kind \in {"http", "unary"}

\* What is known at each place of the loop: how many attempts were made, how the
\* last one ended, and that nothing was sent that could be overtaken by a retry.
Phase ==
  /\ pc \in {"enter", "check", "running", "sleeping", "answer", "done"}
  /\ calls \in 0 .. MaxAttempts
  /\ pc = "enter" => calls = 0 /\ last = "none" /\ sent = << >>
  /\ pc \in {"check", "sleeping"} =>
       calls \in 1 .. MaxAttempts - 1 /\ last = "transient" /\ (Buffered => sent = << >>)
  /\ pc = "running" =>
       calls \in 1 .. MaxAttempts /\ last \in {"none", "transient"} /\ (Buffered => sent = << >>)
  /\ pc = "answer" =>
       /\ kind # "do"
       /\ calls = 0 <=> last = "none"
       /\ Buffered => sent = IF kind = "http" /\ result = "ok" THEN <<last>> ELSE << >>

IInv == Phase /\ ResultMatches /\ AnsweredOnce

\* A response appended to nothing is the only one.
LEMMA AppendEmpty == \A x : Append(<< >>, x) = <<x>>
  OBVIOUS

LEMMA InvInit == Init => IInv
  BY RetryAssumption DEF Init, IInv, Phase, ResultMatches, AnsweredOnce

\* Do's return leaves the result that matches the last attempt.
LEMMA EndedStep == ASSUME IInv, NEW end \in Ends, Ended(end) PROVE IInv'
<1> USE RetryAssumption
<1>1. /\ pc = "running" /\ calls \in 1 .. MaxAttempts /\ (Buffered => sent = << >>)
      /\ last' = end /\ calls' = calls /\ kind' = kind /\ elapsed' = elapsed
  BY DEF Ended, IInv, Phase
<1>2. Buffered' => sent' = IF kind = "http" /\ end \in {"ok", "fatal"} THEN <<end>> ELSE << >>
  BY <1>1, AppendEmpty DEF Ended, Flushed, Buffered
<1> USE DEF Buffered
<1>3. CASE end = "transient" /\ pc' = "sleeping"
  <2>1. calls < MaxAttempts
    BY <1>1, <1>3 DEF Ended, Backoff, Exhausted, Return
  <2> QED
    BY <1>1, <1>2, <1>3, <2>1 DEF IInv, Phase, ResultMatches, AnsweredOnce
<1>4. CASE /\ pc' = IF kind = "do" THEN "done" ELSE "answer"
           /\ \/ end = "ok" /\ result' = "ok"
              \/ end = "fatal" /\ result' = IF kind = "do" THEN "fatal" ELSE "ok"
              \/ end = "declined" /\ kind # "do" /\ result' = "fatal"
              \/ end = "transient" /\ result' = "max" /\ calls = MaxAttempts
              \/ end = "transient" /\ result' = "timeout" /\ calls # MaxAttempts /\ OutOfTime
  <2>1. OutOfTime' <=> OutOfTime
    BY <1>1 DEF OutOfTime
  <2>2. ResultMatches'
    BY <1>1, <1>4, <2>1 DEF ResultMatches
  <2>3. Phase'
    BY <1>1, <1>2, <1>4 DEF Phase, Ends
  <2>4. AnsweredOnce'
    BY <1>1, <1>2, <1>4 DEF AnsweredOnce
  <2> QED
    BY <2>2, <2>3, <2>4 DEF IInv
<1> QED
  BY <1>1, <1>3, <1>4 DEF Ended, Backoff, Exhausted, Return, Ends

\* Every step keeps the invariant.
LEMMA InvStep == IInv /\ [Next]_vars => IInv'
<1> SUFFICES ASSUME IInv, [Next]_vars PROVE IInv'
  OBVIOUS
<1> USE RetryAssumption DEF Buffered
<1>1. CASE Cancel
  BY <1>1 DEF Cancel, IInv, Phase, ResultMatches, AnsweredOnce, OutOfTime
<1>2. CASE Tick
  BY <1>2 DEF Tick, IInv, Phase, ResultMatches, AnsweredOnce
<1>3. CASE Bypass
  BY <1>3 DEF Bypass, IInv, Phase, ResultMatches, AnsweredOnce
<1>4. CASE Attempt
  BY <1>4 DEF Attempt, Return, IInv, Phase, ResultMatches, AnsweredOnce
<1>5. CASE Wake
  BY <1>5 DEF Wake, Return, IInv, Phase, ResultMatches, AnsweredOnce
<1>6. CASE Answer
  BY <1>6, AppendEmpty DEF Answer, Unanswered, IInv, Phase, ResultMatches, AnsweredOnce, OutOfTime
<1>7. ASSUME NEW end \in Ends, Ended(end) PROVE IInv'
  BY <1>7, EndedStep
<1>8. CASE UNCHANGED vars
  BY <1>8 DEF vars, IInv, Phase, ResultMatches, AnsweredOnce, OutOfTime
<1> QED
  BY <1>1, <1>2, <1>3, <1>4, <1>5, <1>6, <1>7, <1>8 DEF Next

\* The invariant holds throughout.
LEMMA InvAlways == Spec => []IInv
  BY InvInit, InvStep, PTL DEF Spec

\* What Do returns tells how its last attempt ended, for any policy.
THEOREM ResultIsTrue == Spec => []ResultMatches
<1>1. IInv => ResultMatches
  BY DEF IInv
<1> QED
  BY <1>1, InvAlways, PTL

\* The HTTP middleware and the unary interceptor send one answer, that of the last
\* attempt, for any policy.
THEOREM OneAnswer == Spec => []AnsweredOnce
<1>1. IInv => AnsweredOnce
  BY DEF IInv
<1> QED
  BY <1>1, InvAlways, PTL
==============================================================================
