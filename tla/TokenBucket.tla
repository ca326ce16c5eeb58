---------------------------- MODULE TokenBucket ----------------------------
(***************************************************************************)
(* ratelimit/tokenbucket: the limiter and goroutines blocked in Wait.      *)
(*                                                                         *)
(* The clock ticks in units of time.Duration.  The float64 token count of  *)
(* the code is an integer number of units: a token is Token units, Rate of *)
(* them arrive per tick, and what a credit or a quotient computes may be   *)
(* off by up to Slop of them.  Taking a token off is exact in float64.     *)
(* takeLocked runs under l.mu, so one try is one action; a waiter sleeps   *)
(* outside the lock.                                                       *)
(***************************************************************************)
EXTENDS Integers, FiniteSets

CONSTANTS Waiters,          \* goroutines that call Wait
          Token, Rate,      \* units in one token; units that arrive per tick
          Burst,            \* l.burst, in units
          Slop,             \* the largest rounding error of one operation, in units
          MaxTime,          \* bound of the model: the last instant
          MaxAdmitted       \* bound of the model: how many calls are admitted

ASSUME TokenBucketAssumption ==
  /\ Token \in Nat \ {0} /\ Rate \in Nat \ {0} /\ Burst \in Nat \ {0}
  /\ Slop \in Nat /\ 3 * Slop <= Rate
  /\ MaxTime \in Nat /\ MaxAdmitted \in Nat

VARIABLES now,              \* l.clock()
          tokens, last,     \* l.tokens in units, l.last
          limiterClosed,    \* l.closed
          blocked,          \* waiters in the select of Wait
          until,            \* when the timer of each of them fires
          admitted,         \* history: how many calls were admitted
          paid,             \* history: how many of them took a token off
          unpaid, unpaidAt, \* history: at how many instants since the last of those a
                            \* call was admitted that took none, and the latest one
          atBlock           \* history: admitted when the waiter went to sleep

bucket  == <<tokens, last>>
waiting == <<blocked, until, atBlock>>
history == <<admitted, paid, unpaid, unpaidAt>>
limiterVars    == <<now, bucket, limiterClosed, waiting, history>>

\* New: the bucket starts full.
LimiterInit == /\ now = 0
               /\ tokens = Burst /\ last = 0
               /\ limiterClosed = FALSE
               /\ blocked = {}
               /\ until = [w \in Waiters |-> 0]
               /\ admitted = 0 /\ paid = 0 /\ unpaid = 0 /\ unpaidAt = 0
               /\ atBlock = [w \in Waiters |-> 0]

Tick == /\ now < MaxTime
        /\ now' = now + 1
        /\ UNCHANGED <<bucket, limiterClosed, waiting, history>>

------------------------------------------------------------------------------
Rounding == -Slop .. Slop

\* Faulty variant: the bucket overflows its capacity.
Replenished_NoCap(e) ==
  IF now = last THEN tokens ELSE tokens + (now - last) * Rate + e

\* The tokens after the time since the last call was credited, with an error of e.
Replenished(e) == LET filled == tokens + (now - last) * Rate + e
                  IN  IF now = last THEN tokens
                      ELSE IF filled > Burst THEN Burst ELSE filled

\* Faulty variant: half of the time that is missing.
WaitTime_Half(e, d) == IF Replenished(e) >= Token THEN 0
                       ELSE (Token - Replenished(e) + d) \div (2 * Rate)

\* How long takeLocked tells the caller to wait: a quotient with an error of d,
\* truncated to whole ticks.  It may be 0 although the token is not there yet.
WaitTime(e, d) == IF Replenished(e) >= Token THEN 0
                  ELSE (Token - Replenished(e) + d) \div Rate

\* Faulty variant: the credited time is credited again by the next call.
takeLocked_KeepsLast(e) ==
  /\ tokens' = IF Replenished(e) >= Token THEN Replenished(e) - Token ELSE Replenished(e)
  /\ UNCHANGED last

\* takeLocked(1): credit the elapsed time, then consume a token if there is one.
takeLocked(e) ==
  /\ tokens' = IF Replenished(e) >= Token THEN Replenished(e) - Token ELSE Replenished(e)
  /\ last' = now

\* takeLocked found a token or told the caller not to wait: the call is admitted.
Admitted ==
  /\ admitted < MaxAdmitted
  /\ admitted' = admitted + 1
  /\ \E e, d \in Rounding :
       /\ WaitTime(e, d) <= 0
       /\ takeLocked(e)
       /\ IF Replenished(e) >= Token
            THEN paid' = paid + 1 /\ unpaid' = 0 /\ UNCHANGED unpaidAt
            ELSE /\ unpaid' = IF unpaid > 0 /\ unpaidAt = now THEN unpaid ELSE unpaid + 1
                 /\ unpaidAt' = now
                 /\ UNCHANGED paid

\* Allow() consumes a token ...
AllowAdmits == /\ ~limiterClosed
               /\ Admitted
               /\ UNCHANGED <<now, limiterClosed, waiting>>

\* ... or is rejected, which still credits the elapsed time.
AllowRejects == /\ ~limiterClosed
                /\ \E e, d \in Rounding : WaitTime(e, d) > 0 /\ takeLocked(e)
                /\ UNCHANGED <<now, limiterClosed, waiting, history>>

\* A turn of the loop of Wait: on entry, or when the timer of the select fired.
\* Nothing is ever sent to l.notify, so its case never wakes anybody.
CanTry(w) == w \in blocked => now >= until[w]

WaitAdmits(w) == /\ CanTry(w) /\ ~limiterClosed
                 /\ Admitted
                 /\ blocked' = blocked \ {w}
                 /\ UNCHANGED <<now, limiterClosed, until, atBlock>>

WaitSleeps(w) == /\ CanTry(w) /\ ~limiterClosed
                 /\ \E e, d \in Rounding :
                      /\ WaitTime(e, d) > 0
                      /\ takeLocked(e)
                      /\ until' = [until EXCEPT ![w] = now + WaitTime(e, d)]
                 /\ blocked' = blocked \union {w}
                 /\ atBlock' = [atBlock EXCEPT ![w] = admitted]
                 /\ UNCHANGED <<now, limiterClosed, history>>

\* The waiter finds the limiter closed and returns ErrLimited.
WaitLimited(w) == /\ w \in blocked /\ CanTry(w) /\ limiterClosed
                  /\ blocked' = blocked \ {w}
                  /\ UNCHANGED <<now, bucket, limiterClosed, until, atBlock, history>>

\* ctx.Done() fires in the select.
WaitCancelled(w) == /\ w \in blocked
                    /\ blocked' = blocked \ {w}
                    /\ UNCHANGED <<now, bucket, limiterClosed, until, atBlock, history>>

LimiterClose == /\ ~limiterClosed
                /\ limiterClosed' = TRUE
                /\ UNCHANGED <<now, bucket, waiting, history>>

LimiterNext == \/ Tick \/ AllowAdmits \/ AllowRejects \/ LimiterClose
               \/ \E w \in Waiters : \/ WaitAdmits(w) \/ WaitSleeps(w)
                                     \/ WaitLimited(w) \/ WaitCancelled(w)

LimiterSpec == LimiterInit /\ [][LimiterNext]_limiterVars

------------------------------------------------------------------------------
\* Types; the bucket never exceeds its capacity, its clock never runs ahead.
LimiterTypeOK == /\ now \in Nat /\ last \in Nat /\ last <= now
                 /\ tokens \in 0 .. Burst
                 /\ limiterClosed \in BOOLEAN
                 /\ blocked \subseteq Waiters
                 /\ until \in [Waiters -> Nat] /\ atBlock \in [Waiters -> Nat]
                 /\ admitted \in Nat /\ paid \in Nat /\ unpaid \in Nat /\ unpaidAt \in Nat

\* The rate limit as far as the code keeps it.  What was paid and what is left never
\* exceed the burst and what the rate delivered, rounding included.  A wait that is
\* cut to zero admits a call for nothing, but between two calls that pay this happens
\* at two instants at most, so that calls that come one by one are at most three
\* times too many.
RateRespected ==
  /\ paid * Token + tokens <= Burst + last * (Rate + Slop)
  /\ Burst >= Token => unpaid <= 2

\* The time a waiter is told to sleep is enough but for a tick: if nobody was admitted
\* in the meantime, no more than what a tick brings is missing for a token when its
\* timer fires, and one rounding for each tick of the sleep.
SleepIsEnough ==
  \A w \in blocked :
    Burst >= Token /\ now >= until[w] /\ admitted = atBlock[w]
      => \A e \in Rounding :
           Token - Replenished(e) <= Rate + (Token \div Rate + 1) * Slop
=============================================================================
