--------------------------- MODULE RequestWindow ---------------------------
(***************************************************************************)
(* The sliding window of SlidingWindow as it is used: outcomes arrive at   *)
(* any time, each rotates the window and is counted; Allow() of the SRE    *)
(* breaker and of BBR also rotates it before it reads the totals.  The log *)
(* remembers every outcome, so that what the window counts can be compared *)
(* with what happened in the last BucketCount * BucketDuration ticks.      *)
(***************************************************************************)
EXTENDS SlidingWindow

CONSTANTS MaxTime,          \* bound of the model: the last instant
          MaxOutcomes       \* bound of the model: how many outcomes arrive

VARIABLES now, buckets, lastRotate,
          log               \* history: every outcome, and whether it rotated

vars == <<now, buckets, lastRotate, log>>

Init == /\ now \in 0 .. BucketDuration - 1
        /\ buckets = ZeroBuckets
        /\ lastRotate = now
        /\ log = {}

Tick == /\ now < MaxTime
        /\ now' = now + 1
        /\ UNCHANGED <<buckets, lastRotate, log>>

Rotate == /\ buckets' = RotatedBuckets(buckets, lastRotate, now)
          /\ lastRotate' = RotatedAt(lastRotate, now)

\* MarkSuccess / MarkFailure: rotate, then count.
Mark == /\ Cardinality(log) < MaxOutcomes
        /\ lastRotate' = RotatedAt(lastRotate, now)
        /\ LET outcome == [id |-> Cardinality(log), at |-> now, rotated |-> lastRotate' = now]
           IN  /\ buckets' = Counted(RotatedBuckets(buckets, lastRotate, now), now, outcome)
               /\ log' = log \union {outcome}
        /\ UNCHANGED now

\* Allow: rotate, then read.
Read == /\ Rotate
        /\ UNCHANGED <<now, log>>

Next == Tick \/ Mark \/ Read

Spec == Init /\ [][Next]_vars

------------------------------------------------------------------------------
Window == BucketCount * BucketDuration

\* Timestamps lie in the past and the window counts nothing that did not happen.
TypeOK == /\ now \in 0 .. MaxTime
          /\ lastRotate \in 0 .. now
          /\ buckets \in [Buckets -> SUBSET log]

\* Whatever the phase of the clock, an outcome whose own arrival rotated the
\* window is counted for at least BucketCount - 1 bucket durations: only
\* outcomes that arrive within a bucket duration of the previous rotation can
\* be swept away early by rotateLocked.
RotatingOutcomeKept ==
  \A o \in log : o.rotated /\ now - o.at < Window - BucketDuration
                   => o \in WindowOutcomes(buckets)
=============================================================================
