------------------------------ MODULE MCLimits ------------------------------
(***************************************************************************)
(* The two adaptive breakers, the window they share with the others, and   *)
(* the two rate limiters: in each behaviour one of them (unit) is driven   *)
(* and the others rest in their initial states.                            *)
(***************************************************************************)
EXTENDS Vegas, TokenBucket

CONSTANTS Units,
          SreCallers, SreBucketCount, KNum, KDen, SreMaxCounted,       \* Sre
          WindowMaxTime, MaxOutcomes,                                  \* RequestWindow
          Requests, CallsDone, RTTs, BbrBucketCount, Second, CpuNum,   \* Bbr
          CpuDen, MinQPS, BbrMaxCounted,
          BucketDuration

VARIABLES unit,
          phase, since, sreBuckets, sreClosed, sreRunning, verdict,
          wnow, buckets, lastRotate, log,
          bbrPhase, bbrSince, bbrBuckets, inflight, maxInflight, bbrClosed, serving, peak

S == INSTANCE Sre WITH Callers <- SreCallers, BucketCount <- SreBucketCount,
                       MaxCounted <- SreMaxCounted, buckets <- sreBuckets,
                       closed <- sreClosed, running <- sreRunning
W == INSTANCE RequestWindow WITH BucketCount <- SreBucketCount, MaxTime <- WindowMaxTime,
                                 now <- wnow
B == INSTANCE Bbr WITH BucketCount <- BbrBucketCount, MaxCounted <- BbrMaxCounted,
                       phase <- bbrPhase, since <- bbrSince, buckets <- bbrBuckets,
                       closed <- bbrClosed

sreVars    == <<phase, since, sreBuckets, sreClosed, sreRunning, verdict>>
windowVars == <<wnow, buckets, lastRotate, log>>
bbrVars    == <<bbrPhase, bbrSince, bbrBuckets, inflight, maxInflight, bbrClosed, serving,
                peak>>
suiteVars  == <<unit, vars, limiterVars, sreVars, windowVars, bbrVars>>

SuiteInit == /\ unit \in Units
             /\ Init /\ LimiterInit /\ S!Init /\ W!Init /\ B!Init
             /\ unit # "sre" => phase = 0
             /\ unit # "window" => wnow = 0
             /\ unit # "bbr" => bbrPhase = 0

VegasOnly(A)  == unit = "vegas" /\ A
                 /\ UNCHANGED <<unit, limiterVars, sreVars, windowVars, bbrVars>>
SreOnly(A)    == unit = "sre" /\ A
                 /\ UNCHANGED <<unit, vars, limiterVars, windowVars, bbrVars>>
WindowOnly(A) == unit = "window" /\ A
                 /\ UNCHANGED <<unit, vars, limiterVars, sreVars, bbrVars>>
BucketOnly(A) == unit = "tokenbucket" /\ A
                 /\ UNCHANGED <<unit, vars, sreVars, windowVars, bbrVars>>
BbrOnly(A)    == unit = "bbr" /\ A
                 /\ UNCHANGED <<unit, vars, limiterVars, sreVars, windowVars>>

SuiteNext == \/ VegasOnly(Next) \/ SreOnly(S!Next) \/ WindowOnly(W!Next)
             \/ BucketOnly(LimiterNext) \/ BbrOnly(B!Next)
SuiteSpec == SuiteInit /\ [][SuiteNext]_suiteVars

\* Time passes, and every request that BBR admitted is over at some point.
FairSuite == /\ SuiteSpec
             /\ WF_suiteVars(SreOnly(S!Tick) \/ BbrOnly(B!Tick))
             /\ \A r \in Requests : WF_suiteVars(BbrOnly(B!Finish(r)))

\* The types of the five parts: the window counts nothing that did not happen, the
\* bucket holds at most its burst, no rotation clock runs ahead of the time.
AllTypesOK == TypeOK /\ LimiterTypeOK /\ S!TypeOK /\ W!TypeOK /\ B!TypeOK

\* An outcome whose own arrival rotated the window is not swept away early.
WindowKeepsRotatingOutcome == W!RotatingOutcomeKept

\* BBR counts in flight exactly the requests that were admitted and are not over.
BbrInflightIsServed == B!InflightIsServed

\* ... and never more than some Allow has computed as the limit; for a waiter of the
\* token bucket that slept as long as it was told, no more than a tick's worth of a
\* token is missing, if nobody came before it.
LimitersAccount == BbrInflightIsServed /\ B!InflightBounded /\ SleepIsEnough

On(u, P) == unit = u /\ P

\* After an SRE breaker could only reject comes a moment at which it could admit; a
\* full BBR limiter gets room again.
LimitersRecover == (On("sre", S!Saturated) \/ On("bbr", B!Full))
                   ~> (On("sre", ~S!Saturated) \/ On("bbr", ~B!Full))
=============================================================================
