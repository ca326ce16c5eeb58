-------------------------------- MODULE Sre --------------------------------
(***************************************************************************)
(* circuitbreaker/sres: the breaker that admits each call with probability *)
(* max(0, (requests - K * errors) / (requests + 1)).  Every method holds   *)
(* b.mu, so each is one action; a probability strictly between 0 and 1 is  *)
(* a nondeterministic choice.                                              *)
(*                                                                         *)
(* The window only looks at the wall clock modulo its own length and at    *)
(* the time since the last rotation up to its length, so those two are     *)
(* kept instead of the clock and time is unbounded in this model.          *)
(***************************************************************************)
EXTENDS SlidingWindow

CONSTANTS Callers,          \* goroutines that call Execute
          KNum, KDen,       \* cfg.k = KNum / KDen
          MaxCounted        \* bound of the model: outcomes the window holds at once

VARIABLES phase,            \* time.Now() modulo the window
          since,            \* time since lastRotate, at most the window
          buckets,
          closed,
          running,          \* callers between Allow() = nil and their Mark
          verdict           \* history: what the last Allow answered, on which totals

vars == <<phase, since, buckets, closed, running, verdict>>

Window == BucketCount * BucketDuration
Slots  == 1 .. MaxCounted
NoVerdict == [admitted |-> TRUE, requests |-> 0, errors |-> 0]

\* An instant with this phase, and the last rotation before it.
Now        == phase + Window
LastRotate == Now - since

Init == /\ phase \in 0 .. Window - 1
        /\ since = 0
        /\ buckets = ZeroBuckets
        /\ closed = FALSE
        /\ running = {}
        /\ verdict = NoVerdict

Tick == /\ phase' = (phase + 1) % Window
        /\ since' = IF since = Window THEN Window ELSE since + 1
        /\ UNCHANGED <<buckets, closed, running, verdict>>

------------------------------------------------------------------------------
rotateLocked == RotatedBuckets(buckets, LastRotate, Now)
RotateClock  == since' = Now - RotatedAt(LastRotate, Now)

\* The numerator of the acceptance probability, times KDen.
Margin(b) == KDen * TotalRequests(b) - KNum * TotalErrors(b)

\* accept = 1 without data, and never again: requests / (requests + 1) < 1.
Certain(b)  == TotalRequests(b) = 0
Possible(b) == Certain(b) \/ Margin(b) > 0

\* Counting gives the outcome a number that is free in the window.
FreeSlot(b) == CHOOSE i \in Slots : \A o \in WindowOutcomes(b) : o.id # i
Count(b, success) ==
  /\ TotalRequests(b) < MaxCounted
  /\ buckets' = Counted(b, Now, [id |-> FreeSlot(b), ok |-> success])

Verdict(b, ok) == verdict' = [admitted |-> ok, requests |-> TotalRequests(b),
                              errors |-> TotalErrors(b)]

\* Faulty variant: a rejected call is counted as a failure.
AllowRejects_Counts(c) == /\ ~Certain(rotateLocked)
                          /\ Count(rotateLocked, FALSE)
                          /\ Verdict(rotateLocked, FALSE)
                          /\ UNCHANGED running

\* Allow() draws a number that is not below the acceptance probability ...
AllowRejects(c) == /\ ~Certain(rotateLocked)
                   /\ buckets' = rotateLocked
                   /\ Verdict(rotateLocked, FALSE)
                   /\ UNCHANGED running

\* ... or one that is.
AllowAdmits(c) == /\ Possible(rotateLocked)
                  /\ buckets' = rotateLocked
                  /\ running' = running \union {c}
                  /\ Verdict(rotateLocked, TRUE)

\* After Close() Allow answers ErrCircuitOpen before it looks at the window.
Allow(c) == /\ c \notin running
            /\ ~closed
            /\ AllowRejects(c) \/ AllowAdmits(c)
            /\ RotateClock
            /\ UNCHANGED <<phase, closed>>

MarkSuccess(c) == /\ c \in running
                  /\ running' = running \ {c}
                  /\ Count(rotateLocked, TRUE)
                  /\ RotateClock
                  /\ UNCHANGED <<phase, closed, verdict>>

MarkFailure(c) == /\ c \in running
                  /\ running' = running \ {c}
                  /\ Count(rotateLocked, FALSE)
                  /\ RotateClock
                  /\ UNCHANGED <<phase, closed, verdict>>

\* fn panicked: no Mark is called.
FnPanics(c) == /\ c \in running
               /\ running' = running \ {c}
               /\ UNCHANGED <<phase, since, buckets, closed, verdict>>

Close == /\ ~closed
         /\ closed' = TRUE
         /\ UNCHANGED <<phase, since, buckets, running, verdict>>

Next == \/ Tick
        \/ \E c \in Callers : \/ Allow(c)
                              \/ MarkSuccess(c) \/ MarkFailure(c) \/ FnPanics(c)
        \/ Close

Spec == Init /\ [][Next]_vars

\* Time passes.
FairSpec == Spec /\ WF_vars(Tick)

\* Time passes and a client that is turned away comes back.
PollSpec == FairSpec /\ \A c \in Callers : WF_vars(Allow(c))

------------------------------------------------------------------------------
\* The window holds numbered outcomes, each counted in one bucket.
TypeOK == /\ phase \in 0 .. Window - 1
          /\ since \in 0 .. Window
          /\ buckets \in [Buckets -> SUBSET [id : Slots, ok : BOOLEAN]]
          /\ \A o, p \in WindowOutcomes(buckets) : o.id = p.id => o = p
          /\ running \subseteq Callers

\* No call can be admitted at this moment.
Saturated == ~Possible(rotateLocked)

\* Whatever the callers do, after a breaker could only reject there comes a
\* moment at which it could admit: only admitted calls are counted, and no
\* pattern of rotations keeps a failure counted at every instant.
Recovers == Saturated ~> ~Saturated

\* The last call was rejected, and no number drawn could have admitted it.
CutOff == /\ ~closed /\ ~verdict.admitted
          /\ KDen * verdict.requests <= KNum * verdict.errors

\* The package comment promises "graceful degradation without abrupt service
\* cutoff": a client that keeps coming back is not rejected with certainty
\* for ever.
NoCutoff == []<>~CutOff
=============================================================================
