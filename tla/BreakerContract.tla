-------------------------- MODULE BreakerContract --------------------------
(***************************************************************************)
(* What circuitbreaker.CircuitBreaker promises its callers, whatever the   *)
(* algorithm behind it: which state changes may happen, in which states a  *)
(* request may be admitted (Circuit), and how many of them while the       *)
(* circuit is HalfOpen (Trials).                                           *)
(***************************************************************************)
EXTENDS Naturals

CONSTANTS Callers,          \* goroutines that call Execute
          TrialLimit        \* "a limited number of trial requests are allowed"

VARIABLES state,            \* State()
          closed,           \* Close() was called
          inflight,         \* callers whose Allow() succeeded and who are not done
          tried             \* requests admitted since the circuit became HalfOpen

circuit == <<state, closed, inflight>>
vars    == <<circuit, tried>>

Init == /\ state = "Closed"
        /\ closed = FALSE
        /\ inflight = {}

\* Allow() returns nil: never while the circuit is Open, never after Close().
Admit(c) == /\ ~closed
            /\ state # "Open"
            /\ c \notin inflight
            /\ inflight' = inflight \union {c}
            /\ UNCHANGED <<state, closed>>

\* The caller of an admitted request reports its outcome, exactly once; a latency
\* (Vegas) it may report before that.  The report may move the circuit: trip it,
\* recover it or open it again.  A late report may also end the Open state (Vegas),
\* but only towards HalfOpen.
Report(c) == /\ c \in inflight
             /\ inflight' \in {inflight, inflight \ {c}}
             /\ \/ state' = state
                \/ state = "Closed" /\ state' = "Open"
                \/ state = "Open" /\ state' = "HalfOpen"
                \/ state = "HalfOpen" /\ state' \in {"Closed", "Open"}
             /\ UNCHANGED closed

\* The request dies without an outcome (Execute does not recover a panic).
Abandon(c) == /\ c \in inflight
              /\ inflight' = inflight \ {c}
              /\ UNCHANGED <<state, closed>>

\* The sleep of an open circuit is over.
Expire == /\ state = "Open"
          /\ state' = "HalfOpen"
          /\ UNCHANGED <<closed, inflight>>

Close == closed' = TRUE /\ UNCHANGED <<state, inflight>>

Next == \/ \E c \in Callers : Admit(c) \/ Report(c) \/ Abandon(c)
        \/ Expire
        \/ Close

\* The circuit and its admissions, without the limit on trials.
Circuit == Init /\ [][Next]_circuit

\* Each visit to HalfOpen admits TrialLimit requests at most.
Try == /\ tried' = IF state' # state THEN 0
                   ELSE IF state = "HalfOpen" /\ inflight' \ inflight # {} THEN tried + 1
                   ELSE tried
       /\ tried' <= TrialLimit
Trials == tried = 0 /\ [][Try]_vars

Spec == Circuit /\ Trials
=============================================================================
