--------------------------- MODULE SlidingWindow ---------------------------
(***************************************************************************)
(* The bucketed sliding window that the Hystrix and SRE circuit breakers   *)
(* and the BBR rate limiter each carry a copy of.                          *)
(*                                                                         *)
(* A bucket of the code is a pair of counters.  Here it is the set of the  *)
(* outcomes counted in it, so that a counter is a cardinality and the age  *)
(* of what is still counted can be talked about.  Time is an integer       *)
(* number of clock ticks; BucketDuration ticks make a bucket.              *)
(***************************************************************************)
EXTENDS Integers, FiniteSets

CONSTANTS BucketCount,      \* len(b.buckets)
          BucketDuration    \* window / bucketCount, in ticks

ASSUME WindowAssumption == /\ BucketCount \in Nat \ {0}
                           /\ BucketDuration \in Nat \ {0}

Buckets == 0 .. BucketCount - 1

\* The bucket a moment falls into: aligned to the wall clock.
bucketIndexLocked(now) == (now \div BucketDuration) % BucketCount

\* Whole bucket durations since the last rotation: counted from lastRotate,
\* which is NOT aligned to the wall clock.
RotateSteps(lastRotate, now) == (now - lastRotate) \div BucketDuration

\* Faulty variant: without the "+ 1" the loop clears one bucket too early.
ClearedBuckets_OffByOne(lastRotate, now) ==
  LET steps == RotateSteps(lastRotate, now) IN
  IF steps >= BucketCount
    THEN Buckets
    ELSE {(bucketIndexLocked(now) - steps + i + BucketCount) % BucketCount :
            i \in 0 .. steps - 1}

\* The indices the rotation loop clears.
ClearedBuckets(lastRotate, now) ==
  LET steps == RotateSteps(lastRotate, now) IN
  IF steps >= BucketCount
    THEN Buckets
    ELSE {(bucketIndexLocked(now) - steps + i + 1 + BucketCount) % BucketCount :
            i \in 0 .. steps - 1}

\* rotateLocked: what it leaves in the buckets ...
RotatedBuckets(buckets, lastRotate, now) ==
  [i \in Buckets |-> IF i \in ClearedBuckets(lastRotate, now) THEN {} ELSE buckets[i]]

\* Faulty variant: keeps the end of the last whole bucket, rounded up.
RotatedAt_RoundsUp(lastRotate, now) ==
  IF RotateSteps(lastRotate, now) <= 0
    THEN lastRotate
    ELSE lastRotate + (RotateSteps(lastRotate, now) + 1) * BucketDuration

\* ... and in lastRotate.
RotatedAt(lastRotate, now) ==
  IF RotateSteps(lastRotate, now) <= 0 THEN lastRotate ELSE now

\* buckets[idx].requests++ (and .errors++ when the outcome is a failure).
Counted(buckets, now, outcome) ==
  [buckets EXCEPT ![bucketIndexLocked(now)] = @ \union {outcome}]

\* A freshly made, or reset, slice of buckets.
ZeroBuckets == [i \in Buckets |-> {}]

\* Everything the window counts, and the two totals the loops add up.
WindowOutcomes(buckets) == UNION {buckets[i] : i \in Buckets}
TotalRequests(buckets)  == Cardinality(WindowOutcomes(buckets))
TotalErrors(buckets)    == Cardinality({o \in WindowOutcomes(buckets) : ~o.ok})
=============================================================================
