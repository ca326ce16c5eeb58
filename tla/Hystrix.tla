------------------------------ MODULE Hystrix ------------------------------
(***************************************************************************)
(* circuitbreaker/hystrix: the three-state breaker over a sliding window,  *)
(* driven by concurrent callers of Execute.  Every method of the breaker   *)
(* holds b.mu for its whole body, so each is one atomic action; what       *)
(* interleaves is the time a caller spends in fn between its Allow and its *)
(* Mark, the clock, and State() and Close() called from anywhere.          *)
(***************************************************************************)
EXTENDS SlidingWindow

CONSTANTS Callers,          \* goroutines that call Execute
          SleepWindow,      \* cfg.sleepWindow, in clock ticks
          Volume,           \* cfg.requestVolumeThreshold
          ErrNum, ErrDen,   \* cfg.errorThreshold = ErrNum / ErrDen
          MaxTime,          \* bound of the model: the last instant
          MaxCalls          \* bound of the model: how many calls are admitted

ASSUME HystrixAssumption ==
  /\ SleepWindow \in Nat \ {0} /\ Volume \in Nat \ {0}
  /\ ErrNum \in Nat \ {0} /\ ErrDen \in Nat \ {0} /\ ErrNum <= ErrDen
  /\ MaxTime \in Nat /\ MaxCalls \in Nat

VARIABLES
  now,                      \* time.Now()
  buckets, lastRotate,      \* the sliding window
  state, openedAt,          \* b.state, b.openedAt
  halfOpenIn,               \* b.halfOpenIn
  closed,                   \* b.closed
  running,                  \* callers between Allow() = nil and their Mark
  calls,                    \* how many calls were admitted: numbers them
  call,                     \* history: number and time of each caller's last admission
  trials                    \* history: calls admitted since HalfOpen was entered

window  == <<buckets, lastRotate>>
breaker == <<state, openedAt, halfOpenIn, closed>>
history == <<calls, call, trials>>
vars    == <<now, window, breaker, running, history>>

\* New(): the window is created at any phase of the wall clock's buckets.
Init == /\ now \in 0 .. BucketDuration - 1
        /\ buckets = ZeroBuckets
        /\ lastRotate = now
        /\ state = "Closed" /\ openedAt = 0
        /\ halfOpenIn = FALSE /\ closed = FALSE
        /\ running = {} /\ calls = 0
        /\ call = [c \in Callers |-> [id |-> 0, at |-> 0]]
        /\ trials = {}

Tick == /\ now < MaxTime
        /\ now' = now + 1
        /\ UNCHANGED <<window, breaker, running, history>>

------------------------------------------------------------------------------
SleepOver == now - openedAt >= SleepWindow

\* Allow() returns nil and the caller goes on to fn.
Admit(c) == /\ calls < MaxCalls
            /\ running' = running \union {c}
            /\ calls' = calls + 1
            /\ call' = [call EXCEPT ![c] = [id |-> calls + 1, at |-> now]]

\* Open, sleep over.  The case falls through into the HalfOpen one with
\* halfOpenIn already set, so the call that ends the sleep is itself rejected.
AllowOpen(c) == /\ state = "Open" /\ SleepOver
                /\ state' = "HalfOpen"
                /\ halfOpenIn' = TRUE
                /\ trials' = {}
                /\ UNCHANGED <<running, calls, call>>

\* Faulty variant: the slot is tested and never taken.
AllowHalfOpen_SlotNotTaken(c) == /\ state = "HalfOpen" /\ ~halfOpenIn
                                 /\ Admit(c)
                                 /\ trials' = trials \union {calls + 1}
                                 /\ UNCHANGED <<state, halfOpenIn>>

AllowHalfOpen(c) == /\ state = "HalfOpen" /\ ~halfOpenIn
                    /\ halfOpenIn' = TRUE
                    /\ Admit(c)
                    /\ trials' = trials \union {calls + 1}
                    /\ UNCHANGED state

\* Faulty variant: an Open circuit is not told apart from a Closed one.
AllowClosed_AlsoOpen(c) == /\ state \in {"Closed", "Open"}
                           /\ Admit(c)
                           /\ UNCHANGED <<state, halfOpenIn, trials>>

AllowClosed(c) == /\ state = "Closed"
                  /\ Admit(c)
                  /\ UNCHANGED <<state, halfOpenIn, trials>>

\* Allow: a rejection that changes nothing is a stuttering step.
Allow(c) == /\ c \notin running
            /\ ~closed
            /\ AllowOpen(c) \/ AllowHalfOpen(c) \/ AllowClosed(c)
            /\ UNCHANGED <<now, window, openedAt, closed>>

------------------------------------------------------------------------------
rotateLocked == RotatedBuckets(buckets, lastRotate, now)

\* The trip condition of evaluateLocked on the given buckets.
Unhealthy(b) == /\ TotalRequests(b) >= Volume
                /\ TotalRequests(b) # 0
                /\ TotalErrors(b) * ErrDen >= ErrNum * TotalRequests(b)

\* Faulty variant: evaluates in every state.
evaluateLocked_AnyState(b) ==
  IF Unhealthy(b) THEN state' = "Open" /\ openedAt' = now
                  ELSE UNCHANGED <<state, openedAt>>

\* Faulty variant: stores when the sleep ends instead of when it began.
evaluateLocked_StoresDeadline(b) ==
  IF state = "Closed" /\ Unhealthy(b)
    THEN state' = "Open" /\ openedAt' = now + SleepWindow
    ELSE UNCHANGED <<state, openedAt>>

\* evaluateLocked, on the window the enclosing Mark has just written.
evaluateLocked(b) ==
  IF state = "Closed" /\ Unhealthy(b)
    THEN state' = "Open" /\ openedAt' = now
    ELSE UNCHANGED <<state, openedAt>>

\* Faulty variant: recovery forgets to reset the window.
resetBucketsLocked_Skipped == rotateLocked

resetBucketsLocked == ZeroBuckets

\* Outside HalfOpen both Marks count the outcome, then evaluate the window.
CountAndEvaluate(c, success) ==
  LET outcome == [id |-> call[c].id, at |-> now, ok |-> success]
      counted == Counted(rotateLocked, now, outcome)
  IN  /\ buckets' = counted
      /\ evaluateLocked(counted)
      /\ UNCHANGED <<halfOpenIn, trials>>

\* MarkSuccess in HalfOpen.  ANY success recovers the circuit: the breaker does
\* not know whether the reporting call is the trial.
Recover == /\ state' = "Closed"
           /\ halfOpenIn' = FALSE
           /\ trials' = {}
           /\ buckets' = resetBucketsLocked
           /\ UNCHANGED openedAt

\* Faulty variant: the trial slot is not given back.
Reopen_KeepsSlot == /\ state' = "Open"
                    /\ openedAt' = now
                    /\ trials' = {}
                    /\ buckets' = rotateLocked
                    /\ UNCHANGED halfOpenIn

\* MarkFailure in HalfOpen.
Reopen == /\ state' = "Open"
          /\ openedAt' = now
          /\ halfOpenIn' = FALSE
          /\ trials' = {}
          /\ buckets' = rotateLocked

\* fn returned nil.
MarkSuccess(c) ==
  /\ c \in running
  /\ running' = running \ {c}
  /\ lastRotate' = RotatedAt(lastRotate, now)
  /\ IF state = "HalfOpen" THEN Recover ELSE CountAndEvaluate(c, TRUE)
  /\ UNCHANGED <<now, closed, calls, call>>

\* fn returned an error.
MarkFailure(c) ==
  /\ c \in running
  /\ running' = running \ {c}
  /\ lastRotate' = RotatedAt(lastRotate, now)
  /\ IF state = "HalfOpen" THEN Reopen ELSE CountAndEvaluate(c, FALSE)
  /\ UNCHANGED <<now, closed, calls, call>>

\* fn panicked and someone above Execute recovered: no Mark is ever called.
FnPanics(c) ==
  /\ c \in running
  /\ running' = running \ {c}
  /\ UNCHANGED <<now, window, breaker, history>>

------------------------------------------------------------------------------
\* Faulty variant: the lazy transition closes the circuit without a trial.
State_Closes ==
  /\ state = "Open" /\ SleepOver
  /\ state' = "Closed"
  /\ UNCHANGED <<now, window, openedAt, halfOpenIn, closed, running, history>>

\* State(): the lazy transition leaves halfOpenIn as it is.
State ==
  /\ state = "Open" /\ SleepOver
  /\ state' = "HalfOpen"
  /\ trials' = {}
  /\ UNCHANGED <<now, window, openedAt, halfOpenIn, closed, running, calls, call>>

Close ==
  /\ ~closed
  /\ closed' = TRUE
  /\ UNCHANGED <<now, window, state, openedAt, halfOpenIn, running, history>>

Next == \/ Tick
        \/ \E c \in Callers : \/ Allow(c)
                              \/ MarkSuccess(c) \/ MarkFailure(c) \/ FnPanics(c)
        \/ State
        \/ Close

Spec == Init /\ [][Next]_vars

------------------------------------------------------------------------------
ClockType   == /\ now \in Nat /\ lastRotate \in Nat /\ openedAt \in Nat /\ calls \in Nat
               /\ lastRotate <= now /\ openedAt <= now
WindowType  == buckets \in [Buckets -> SUBSET [id : Nat, at : Nat, ok : BOOLEAN]]
BreakerType == /\ state \in {"Closed", "Open", "HalfOpen"}
               /\ halfOpenIn \in BOOLEAN /\ closed \in BOOLEAN
CallerType  == /\ running \subseteq Callers
               /\ call \in [Callers -> [id : Nat, at : Nat]]
               /\ trials \subseteq Nat

\* Types of the breaker's fields; its timestamps lie in the past.
TypeOK == ClockType /\ WindowType /\ BreakerType /\ CallerType

\* While the circuit is Closed its window never satisfies the trip condition:
\* every way into Closed, and every outcome counted there, re-establishes it
\* (evaluateLocked after each count, resetBucketsLocked on recovery).
ClosedIsHealthy == state = "Closed" => ~Unhealthy(buckets)

\* One visit to HalfOpen admits at most one call ("a single trial request is
\* allowed"), however Allow, State and late Marks interleave.
SingleTrial == Cardinality(trials) <= 1

\* The trial slot is taken only in HalfOpen, and an admitted trial holds it:
\* no transition leaves the slot behind for the next visit.
SlotBelongsToHalfOpen == /\ halfOpenIn => state = "HalfOpen"
                         /\ trials # {} => halfOpenIn

\* Every call that is still running while the circuit is Open was admitted
\* before it opened: nothing gets in between the trip and the end of the sleep.
OpenAdmitsNobody == state = "Open" => \A c \in running : call[c].at <= openedAt

\* Late outcomes that arrive while the circuit is Open do not restart its
\* sleep: openedAt moves only on the way into Open.
SleepNotExtended == [][state = "Open" /\ state' = "Open" => openedAt' = openedAt]_vars

\* The doc of the halfOpenIn field: "true if a half-open trial is in progress".
TrialInProgress == halfOpenIn => \E c \in running : call[c].id \in trials

------------------------------------------------------------------------------
\* The breaker implements the contract of the CircuitBreaker interface, with one
\* trial per visit to HalfOpen.
Contract == INSTANCE BreakerContract
              WITH inflight <- running, tried <- Cardinality(trials), TrialLimit <- 1
ImplementsContract == Contract!Spec
=============================================================================
