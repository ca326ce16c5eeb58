---------------------------- MODULE HttpRequests ----------------------------
(***************************************************************************)
(* Single requests.  transport/http/middleware/timeout: the handler runs   *)
(* in a goroutine of its own and shares the ResponseWriter with the        *)
(* middleware.  transport/http3 (Router...): requests that share the pool  *)
(* of contexts.                                                            *)
(***************************************************************************)
EXTENDS Integers, Sequences, Naturals

CONSTANT MaxWrites          \* bound: writes of the handler

VARIABLES mw,               \* "enter", "inline" (no timeout), "select" or "returned"
          handler,          \* "none", "running" or "done"
          late,             \* the deadline of ctx has passed, or its parent is done
          response          \* who wrote to w, in order

timeoutVars == <<mw, handler, late, response>>

Init == mw = "enter" /\ handler = "none" /\ late = FALSE /\ response = << >>

\* A request that is skipped or has no timeout is served inline.
ServeInline == /\ mw = "enter" /\ mw' = "inline" /\ handler' = "running"
               /\ UNCHANGED <<late, response>>

ServeTimed == /\ mw = "enter" /\ mw' = "select" /\ handler' = "running"
              /\ UNCHANGED <<late, response>>

HandlerWrites ==
  /\ handler = "running" /\ Len(response) < MaxWrites
  /\ response' = Append(response, "handler")
  /\ UNCHANGED <<mw, handler, late>>

\* The handler returns; inline, so does the middleware.
HandlerDone ==
  /\ handler = "running" /\ handler' = "done"
  /\ mw' = IF mw = "inline" THEN "returned" ELSE mw
  /\ UNCHANGED <<late, response>>

Deadline == /\ mw = "select" /\ ~late /\ late' = TRUE
            /\ UNCHANGED <<mw, handler, response>>

\* The select: the handler is done.
SeesDone == /\ mw = "select" /\ handler = "done" /\ mw' = "returned"
            /\ UNCHANGED <<handler, late, response>>

\* The select: ctx is done and http.Error writes, while the handler goes on.
TimesOut == /\ mw = "select" /\ late
            /\ response' = Append(response, "timeout") /\ mw' = "returned"
            /\ UNCHANGED <<handler, late>>

Next == \/ ServeInline \/ ServeTimed \/ HandlerWrites \/ HandlerDone
        \/ Deadline \/ SeesDone \/ TimesOut

Fairness == WF_timeoutVars(ServeTimed) /\ WF_timeoutVars(Deadline)
            /\ WF_timeoutVars(SeesDone \/ TimesOut)

Spec == Init /\ [][Next]_timeoutVars /\ Fairness

------------------------------------------------------------------------------
\* A request with a timeout is answered even if its handler never returns.
Responds == mw = "select" ~> mw = "returned"

(***************************************************************************)
(* transport/http3: the handlers of a Router, which share a sync.Pool of   *)
(* contexts.  A context (wrapper) keeps the request, its ResponseWriter    *)
(* and a writer of its own that holds the status until the first Write;    *)
(* requests run side by side and hand the wrappers on to each other.       *)
(***************************************************************************)
CONSTANTS Reqs, Wrappers

VARIABLES pool,      \* the wrappers in the pool
          fresh,     \* those pool.New has not made yet
          wrapper,   \* wrapper -> its request (or "nil") and the status it holds
          held,      \* request -> the wrapper its handler uses, or "none"
          stage,     \* new, running, failed (h returned an error), done
          wanted,    \* history: the status the handler chose, 0 before it did
          sent,      \* the status the client got
          leaked     \* history: a call on a context met another request's state

routerVars == <<pool, fresh, wrapper, held, stage, wanted, sent, leaked>>

Codes == {200, 201, 404}

RouterInit ==
  /\ pool = {} /\ fresh = Wrappers
  /\ wrapper = [w \in Wrappers |-> [req |-> "nil", code |-> 200]]
  /\ held = [r \in Reqs |-> "none"] /\ stage = [r \in Reqs |-> "new"]
  /\ wanted = [r \in Reqs |-> 0] /\ sent = [r \in Reqs |-> 0] /\ leaked = FALSE

\* Faulty variant: only the request is replaced.
Reset_KeepsCode(w, r) == wrapper' = [wrapper EXCEPT ![w].req = r]

\* wrapper.Reset, and responseWriter.rest in it.
Reset(w, r) == wrapper' = [wrapper EXCEPT ![w] = [req |-> r, code |-> 200]]

\* Get: a pooled wrapper, or a new one (the pool may have dropped any).
Begin(r) ==
  /\ stage[r] = "new"
  /\ \E w \in pool \cup fresh :
       /\ pool' = pool \ {w} /\ fresh' = fresh \ {w}
       /\ Reset(w, r) /\ held' = [held EXCEPT ![r] = w]
  /\ stage' = [stage EXCEPT ![r] = "running"]
  /\ UNCHANGED <<wanted, sent, leaked>>

\* What net/http sends is the first status.
Sends(r, code) == sent' = [sent EXCEPT ![r] = IF @ = 0 THEN code ELSE @]

Answers(r) == stage[r] = "running" /\ wanted[r] = 0
Uses(r)    == leaked' = (leaked \/ wrapper[held[r]].req # r)

\* Returns(v, nil): the value is encoded under the status the writer holds, which
\* nobody set.
ReturnsValue(r) ==
  /\ Answers(r) /\ Uses(r)
  /\ wanted' = [wanted EXCEPT ![r] = 200] /\ Sends(r, wrapper[held[r]].code)
  /\ UNCHANGED <<pool, fresh, wrapper, held, stage>>

\* Result(code, v): the status is held, then sent with the first Write.
Result(r) ==
  /\ Answers(r) /\ Uses(r)
  /\ \E code \in Codes :
       /\ wrapper' = [wrapper EXCEPT ![held[r]].code = code]
       /\ wanted' = [wanted EXCEPT ![r] = code] /\ Sends(r, code)
  /\ UNCHANGED <<pool, fresh, held, stage>>

\* The handler returns an error: its own, by Returns(v, err), or that of a value that
\* Result(code, v) cannot encode, when the status stays held.
ResultFails(r) ==
  /\ Answers(r) /\ Uses(r)
  /\ \/ \E code \in Codes : wrapper' = [wrapper EXCEPT ![held[r]].code = code]
     \/ UNCHANGED wrapper
  /\ stage' = [stage EXCEPT ![r] = "failed"] /\ wanted' = [wanted EXCEPT ![r] = 500]
  /\ UNCHANGED <<pool, fresh, held, sent>>

\* JSON, XML, String, Blob and Stream write to the ResponseWriter itself.
Writes(r) ==
  /\ Answers(r) /\ Uses(r)
  /\ \E code \in Codes : wanted' = [wanted EXCEPT ![r] = code] /\ Sends(r, code)
  /\ UNCHANGED <<pool, fresh, wrapper, held, stage>>

\* ctx.Reset(nil, nil) and pool.Put.
Put(r) == pool' = pool \cup {held[r]} /\ Reset(held[r], "nil")

\* The error is sent past the wrapper, under a status of its own.
DefaultErrorEncoder(r) == Sends(r, 500)

\* h returns: an error is encoded first, then the wrapper goes back.
End(r) ==
  /\ stage[r] = "failed" \/ (stage[r] = "running" /\ wanted[r] # 0)
  /\ IF stage[r] = "failed" THEN DefaultErrorEncoder(r) ELSE UNCHANGED sent
  /\ Put(r) /\ held' = [held EXCEPT ![r] = "none"]
  /\ stage' = [stage EXCEPT ![r] = "done"]
  /\ UNCHANGED <<fresh, wanted, leaked>>

\* h panics: the wrapper is lost to the pool, and the garbage collector's.
Panic(r) ==
  /\ stage[r] = "running"
  /\ fresh' = fresh \cup {held[r]} /\ Reset(held[r], "nil")
  /\ held' = [held EXCEPT ![r] = "none"] /\ stage' = [stage EXCEPT ![r] = "done"]
  /\ wanted' = [wanted EXCEPT ![r] = sent[r]]
  /\ UNCHANGED <<pool, sent, leaked>>

\* The pool forgets a wrapper between two collections.
Forget == /\ \E w \in pool : pool' = pool \ {w} /\ fresh' = fresh \cup {w}
                             /\ Reset(w, "nil")
          /\ UNCHANGED <<held, stage, wanted, sent, leaked>>

RouterNext == \/ \E r \in Reqs : \/ Begin(r) \/ ReturnsValue(r) \/ Result(r) \/ ResultFails(r)
                           \/ Writes(r) \/ End(r) \/ Panic(r)
        \/ Forget

RouterSpec == RouterInit /\ [][RouterNext]_routerVars

------------------------------------------------------------------------------
TypeOK ==
  /\ pool \cup fresh \subseteq Wrappers /\ pool \cap fresh = {}
  /\ \A r \in Reqs : held[r] \in Wrappers \cup {"none"} /\ sent[r] \in Codes \cup {0, 500}

\* A request's context is its own while its handler runs, whatever request used
\* the wrapper before or uses another now, and no two share one.
ContextIsOwn ==
  /\ ~leaked
  /\ \A r \in Reqs : stage[r] \in {"running", "failed"} => wrapper[held[r]].req = r

\* The client gets the status its own request's handler chose, never one a
\* request before it left in the wrapper.
StatusIsOwn == \A r \in Reqs : stage[r] = "done" => sent[r] = wanted[r]
==============================================================================
