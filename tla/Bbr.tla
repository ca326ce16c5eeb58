-------------------------------- MODULE Bbr --------------------------------
(***************************************************************************)
(* ratelimit/bbr: the adaptive limiter, used directly (Allow ... Done) or  *)
(* through the ratelimit.Limiter interface by the HTTP and gRPC rate-limit *)
(* middlewares, which know nothing of Done.  Every method holds l.mu.      *)
(*                                                                         *)
(* Latencies and the window are in clock ticks, Second ticks make a        *)
(* second.  The limit is computed on exact fractions and rounded down once *)
(* for each term; rounding down commutes with the minimum and maximum the  *)
(* code takes of the unrounded terms.                                      *)
(***************************************************************************)
EXTENDS SlidingWindow, FiniteSetsExt

CONSTANTS Requests,         \* requests in progress at the same time
          CallsDone,        \* TRUE: the caller calls Done; FALSE: a middleware
          RTTs,             \* latencies of the requests
          Second,           \* ticks in a second
          CpuNum, CpuDen,   \* cfg.cpuThreshold
          MinQPS,           \* cfg.minQPS
          MaxCounted        \* bound of the model: results the window holds at once

VARIABLES phase, since,     \* the clock modulo the window; time since the rotation
          buckets,          \* count and totalRTT of a bucket: the set of its results
          inflight,         \* l.inflight
          maxInflight,      \* l.maxInflight
          closed,
          serving,          \* requests admitted and not finished
          peak              \* history: the largest limit ever computed

vars == <<phase, since, buckets, inflight, maxInflight, closed, serving, peak>>

Window == BucketCount * BucketDuration
Slots  == 1 .. MaxCounted
Now        == phase + Window
LastRotate == Now - since

Init == /\ phase \in 0 .. Window - 1 /\ since = 0
        /\ buckets = ZeroBuckets
        /\ inflight = 0 /\ maxInflight = 0 /\ peak = 0
        /\ closed = FALSE
        /\ serving = {}

Tick == /\ phase' = (phase + 1) % Window
        /\ since' = IF since = Window THEN Window ELSE since + 1
        /\ UNCHANGED <<buckets, inflight, maxInflight, closed, serving, peak>>

------------------------------------------------------------------------------
rotateLocked == RotatedBuckets(buckets, LastRotate, Now)
RotateClock  == since' = Now - RotatedAt(LastRotate, Now)

Results(b) == {i \in Buckets : b[i] # {}}

\* time.Duration(totalRTT / count) of a bucket that counted something.
AvgRTT(results) == MapThenSumSet(LAMBDA r : r.rtt, results) \div Cardinality(results)
minRTT(b)       == Min({AvgRTT(b[i]) : i \in Results(b)})

\* max(min(max(qps, minQPS), maxPass), minQPS)
Estimate(qps, pass, least) == Max({Min({Max({qps, least}), pass}), least})

\* int64(maxQPS * cpuThreshold), where maxQPS is estimateMaxQPSLocked.
Scaled(b) ==
  LET least == (CpuNum * MinQPS) \div CpuDen
      qps   == (CpuNum * TotalRequests(b) * Second) \div (CpuDen * Window)
      pass  == (CpuNum * Window) \div (CpuDen * minRTT(b))
  IN  IF Results(b) = {} THEN least
      ELSE IF minRTT(b) <= 0 THEN least ELSE Estimate(qps, pass, least)

\* Faulty variant: the limit may be rounded down to zero.
InflightLimit_Zero(b) == Scaled(b)

\* The number of requests Allow lets be in flight.
InflightLimit(b) == Max({Scaled(b), 1})

------------------------------------------------------------------------------
\* Faulty variant: off by one.
HasRoom_OffByOne(limit) == inflight <= limit

HasRoom(limit) == inflight < limit

\* Allow, also as the body of the loop of Wait (which ignores closed and polls
\* on until its context ends): rotate, recompute the limit, admit or drop.
Allow(r) ==
  /\ r \notin serving /\ ~closed
  /\ buckets' = rotateLocked
  /\ RotateClock
  /\ maxInflight' = InflightLimit(rotateLocked)
  /\ peak' = Max({peak, maxInflight'})
  /\ \/ /\ HasRoom(maxInflight')
        /\ inflight' = inflight + 1
        /\ serving' = serving \union {r}
     \/ /\ ~HasRoom(maxInflight')
        /\ UNCHANGED <<inflight, serving>>
  /\ UNCHANGED <<phase, closed>>

\* A number for the result that is free in the window.
FreeSlot(b) == CHOOSE i \in Slots : \A o \in WindowOutcomes(b) : o.id # i

\* Faulty variant: the result is counted and the slot kept.
Done_KeepsSlot(rtt) ==
  /\ TotalRequests(rotateLocked) < MaxCounted
  /\ buckets' = Counted(rotateLocked, Now, [id |-> FreeSlot(rotateLocked), rtt |-> rtt])
  /\ RotateClock
  /\ UNCHANGED inflight

\* Done(rtt): give the slot back and count the result.
Done(rtt) ==
  /\ TotalRequests(rotateLocked) < MaxCounted
  /\ inflight' = inflight - 1
  /\ buckets' = Counted(rotateLocked, Now, [id |-> FreeSlot(rotateLocked), rtt |-> rtt])
  /\ RotateClock

\* The request is over.  The middlewares hold a ratelimit.Limiter, which has
\* Allow, Wait and Close: they never call Done.
Finish(r) ==
  /\ r \in serving
  /\ serving' = serving \ {r}
  /\ IF CallsDone THEN \E rtt \in RTTs : Done(rtt)
                  ELSE UNCHANGED <<buckets, since, inflight>>
  /\ UNCHANGED <<phase, maxInflight, closed, peak>>

Close == /\ ~closed
         /\ closed' = TRUE
         /\ UNCHANGED <<phase, since, buckets, inflight, maxInflight, serving, peak>>

Next == \/ Tick \/ Close
        \/ \E r \in Requests : Allow(r) \/ Finish(r)

Spec == Init /\ [][Next]_vars

\* Time passes and every admitted request is over at some point.
FairSpec == Spec /\ WF_vars(Tick) /\ \A r \in Requests : WF_vars(Finish(r))

------------------------------------------------------------------------------
\* Types: the rotation clock never runs ahead of the time.
TypeOK == /\ phase \in 0 .. Window - 1 /\ since \in 0 .. Window
          /\ buckets \in [Buckets -> SUBSET [id : Slots, rtt : RTTs]]
          /\ inflight \in Nat /\ maxInflight \in Nat /\ peak \in Nat
          /\ serving \subseteq Requests /\ closed \in BOOLEAN

\* l.inflight is the number of requests that were admitted and are not over.
InflightIsServed == inflight = Cardinality(serving)

\* However the estimate moves, no more requests are in flight than some Allow
\* has computed as the limit.
InflightBounded == inflight <= peak

\* At this moment Allow would drop every request.
Full == ~closed /\ ~HasRoom(InflightLimit(rotateLocked))

\* A full limiter gets room again: it never jams.
Unjams == Full ~> ~Full
=============================================================================
