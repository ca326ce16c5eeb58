---------------------------- MODULE VegasProofs ----------------------------
(***************************************************************************)
(* Proofs about the Vegas breaker for every number of callers, every set   *)
(* of latencies, every filter, warmup and pair of thresholds.              *)
(***************************************************************************)
EXTENDS Vegas, TLAPS

\* What is inductive: the checked invariants, and that the two latencies are
\* set together, by the first sample.
BothOrNone == /\ baseRTT = 0 <=> currentRTT = 0
              /\ sampleCount # 0 => baseRTT # 0

IInv == /\ TypeOK /\ BothOrNone /\ BaseBelowCurrent
        /\ WarmupRespected /\ ClosedIsNotInflated

\* Smoothing stays between the two values it mixes, truncation included.
LEMMA SmoothedBetween ==
  ASSUME NEW lo \in Int, NEW hi \in Int, NEW a \in lo .. hi, NEW b \in lo .. hi
  PROVE  (7 * a + b) \div 8 \in lo .. hi
<1> DEFINE q == (7 * a + b) \div 8
<1>1. q \in Int /\ 8 * q <= 7 * a + b /\ 7 * a + b < 8 * q + 8
  OBVIOUS
<1>2. 8 * lo <= 7 * a + b /\ 7 * a + b <= 8 * hi
  OBVIOUS
<1> HIDE DEF q
<1>3. q \in lo .. hi
  BY <1>1, <1>2
<1> QED
  BY <1>3 DEF q

\* A sample keeps the latencies typed, set together and in order.
LEMMA UpdateStep ==
  ASSUME IInv, NEW rtt \in Nat, updateRTTLocked(rtt)
  PROVE  /\ baseRTT' \in {0} \union MinRTT .. MaxRTT
         /\ currentRTT' \in {0} \union MinRTT .. MaxRTT
         /\ sampleCount' \in 0 .. Warmup /\ sampleCount <= sampleCount'
         /\ BothOrNone' /\ BaseBelowCurrent'
<1> USE VegasAssumption
<1>1. CASE rtt < MinRTT \/ rtt > MaxRTT
  BY <1>1 DEF updateRTTLocked, rtts, IInv, TypeOK, BothOrNone, BaseBelowCurrent
<1>2. CASE ~(rtt < MinRTT \/ rtt > MaxRTT)
  <2>1. sampleCount' \in 0 .. Warmup /\ sampleCount <= sampleCount'
    BY <1>2 DEF updateRTTLocked, CountUp, IInv, TypeOK
  <2>2. CASE currentRTT = 0
    BY <1>2, <2>1, <2>2 DEF updateRTTLocked, IInv, TypeOK, BothOrNone, BaseBelowCurrent
  <2>3. CASE currentRTT # 0
    <3>1. baseRTT \in MinRTT .. MaxRTT /\ currentRTT \in baseRTT .. MaxRTT
      BY <2>3 DEF IInv, TypeOK, BothOrNone, BaseBelowCurrent
    <3>2. baseRTT' \in MinRTT .. MaxRTT /\ baseRTT' <= rtt /\ baseRTT' <= baseRTT
      BY <1>2, <3>1 DEF updateRTTLocked
    <3>3. currentRTT' = (7 * currentRTT + rtt) \div 8
      BY <1>2, <2>3 DEF updateRTTLocked
    <3>4. currentRTT' \in baseRTT' .. MaxRTT
      BY <1>2, <3>1, <3>2, <3>3, SmoothedBetween
    <3> QED
      BY <2>1, <3>2, <3>4 DEF BothOrNone, BaseBelowCurrent
  <2> QED
    BY <2>2, <2>3
<1> QED
  BY <1>1, <1>2

\* Evaluating from any state but HalfOpen leaves a Closed circuit that has
\* warmed up without inflation, and moves nothing before the warmup.
LEMMA EvaluateStep ==
  ASSUME NEW s \in {"Closed", "Open"}, NEW base \in Nat, NEW current \in Nat,
         NEW samples \in 0 .. Warmup, samples = Warmup => base # 0
  PROVE  LET e == evaluateLocked(s, base, current, samples)
         IN  /\ e \in {"Closed", "Open", "HalfOpen"}
             /\ samples # Warmup => e = s
             /\ e = "Closed" /\ samples = Warmup => ~Inflated(base, current)
BY VegasAssumption DEF evaluateLocked, Warm

\* A report that samples a latency and evaluates from Closed or Open keeps the
\* invariant.
LEMMA SampleStep ==
  ASSUME IInv, NEW rtt \in Nat, updateRTTLocked(rtt), NEW s \in {"Closed", "Open"},
         state # "HalfOpen" => s = state,
         state' = evaluateLocked(s, baseRTT', currentRTT', sampleCount'),
         closed' \in BOOLEAN, running' \subseteq Callers
  PROVE  IInv'
<1> USE VegasAssumption
<1>1. /\ baseRTT' \in {0} \union MinRTT .. MaxRTT
      /\ currentRTT' \in {0} \union MinRTT .. MaxRTT
      /\ sampleCount' \in 0 .. Warmup /\ sampleCount <= sampleCount'
      /\ BothOrNone' /\ BaseBelowCurrent'
  BY UpdateStep
<1>2. sampleCount' = Warmup => baseRTT' # 0
  BY <1>1 DEF BothOrNone
<1>3. /\ state' \in {"Closed", "Open", "HalfOpen"}
      /\ sampleCount' # Warmup => state' = s
      /\ state' = "Closed" /\ sampleCount' = Warmup => ~Inflated(baseRTT', currentRTT')
  <2>1. baseRTT' \in Nat /\ currentRTT' \in Nat
    BY <1>1
  <2> QED
    BY <1>1, <1>2, <2>1, EvaluateStep
<1>4. TypeOK'
  BY <1>1, <1>3 DEF TypeOK
<1>5. WarmupRespected'
  <2> SUFFICES ASSUME state' # "Closed", sampleCount' # Warmup PROVE FALSE
    BY DEF WarmupRespected
  <2>1. s = "Open"
    BY <1>3
  <2>2. state # "Closed"
    BY <2>1
  <2>3. sampleCount = Warmup
    BY <2>2 DEF IInv, WarmupRespected
  <2> QED
    BY <1>1, <2>3
<1>6. ClosedIsNotInflated'
  BY <1>3 DEF ClosedIsNotInflated, Inflated
<1> QED
  BY <1>1, <1>4, <1>5, <1>6 DEF IInv

\* A step that leaves the latencies alone and does not enter Closed keeps the
\* invariant.
LEMMA QuietStep ==
  ASSUME IInv, UNCHANGED rtts, state' = state \/ (state = "HalfOpen" /\ state' = "Open"),
         closed' \in BOOLEAN, running' \subseteq Callers
  PROVE  IInv'
<1>1. TypeOK'
  BY DEF IInv, TypeOK, rtts
<1>2. BothOrNone' /\ BaseBelowCurrent'
  BY DEF IInv, BothOrNone, BaseBelowCurrent, rtts
<1>3. WarmupRespected'
  BY DEF IInv, WarmupRespected, rtts
<1>4. ClosedIsNotInflated'
  BY DEF IInv, ClosedIsNotInflated, Inflated, rtts
<1> QED
  BY <1>1, <1>2, <1>3, <1>4 DEF IInv

\* Every step of the breaker keeps the inductive invariant.
LEMMA NextPreserves == IInv /\ [Next]_vars => IInv'
<1> SUFFICES ASSUME IInv, [Next]_vars PROVE IInv'
  OBVIOUS
<1> USE VegasAssumption
<1>0. running \subseteq Callers /\ state \in {"Closed", "Open", "HalfOpen"}
  BY DEF IInv, TypeOK
<1>00. closed \in BOOLEAN
  BY DEF IInv, TypeOK
<1>1. ASSUME NEW c \in Callers, Allow(c) PROVE IInv'
  BY <1>0, <1>00, <1>1, QuietStep DEF Allow
<1>2. ASSUME NEW c \in Callers, MarkFailure(c) PROVE IInv'
  <2>0. closed' \in BOOLEAN /\ running' \subseteq Callers
    BY <1>0, <1>00, <1>2 DEF MarkFailure
  <2>1. CASE state = "HalfOpen"
    BY <1>2, <2>0, <2>1, QuietStep DEF MarkFailure
  <2>2. CASE state # "HalfOpen"
    <3>1. state \in {"Closed", "Open"}
      BY <1>0, <2>2
    <3> QED
      BY <1>2, <2>0, <2>2, <3>1, SampleStep DEF MarkFailure
  <2> QED
    BY <2>1, <2>2
<1>3. ASSUME NEW c \in Callers, NEW rtt \in Latencies,
             RecordLatency(c, rtt) \/ RecordLatencyAlso(c, rtt)
      PROVE  IInv'
  <2> DEFINE s == IF state = "HalfOpen" THEN "Closed" ELSE state
  <2>0. closed' \in BOOLEAN /\ running' \subseteq Callers
    BY <1>0, <1>00, <1>3 DEF RecordLatency, RecordLatencyAlso
  <2>1. s \in {"Closed", "Open"} /\ rtt \in Nat
    BY <1>0
  <2>2. updateRTTLocked(rtt) /\ state' = evaluateLocked(s, baseRTT', currentRTT', sampleCount')
    BY <1>3 DEF RecordLatency, RecordLatencyAlso, Recovered
  <2>3. state # "HalfOpen" => s = state
    OBVIOUS
  <2> HIDE DEF s
  <2> QED
    BY <2>0, <2>1, <2>2, <2>3, SampleStep
<1>4. ASSUME NEW c \in Callers, FnPanics(c) PROVE IInv'
  BY <1>0, <1>00, <1>4, QuietStep DEF FnPanics
<1>5. CASE Close
  BY <1>0, <1>5, QuietStep DEF Close
<1>6. CASE UNCHANGED vars
  BY <1>0, <1>00, <1>6, QuietStep DEF vars
<1> QED
  BY <1>1, <1>2, <1>3, <1>4, <1>5, <1>6 DEF Next, Report

\* The inductive invariant holds in every reachable state.
THEOREM Inductive == Spec => []IInv
<1>1. ASSUME Init PROVE IInv
  <2>1. TypeOK
    <3>1. closed \in BOOLEAN
      BY <1>1 DEF Init
    <3> QED
      BY <1>1, <3>1, VegasAssumption DEF Init, TypeOK
  <2>2. BothOrNone /\ BaseBelowCurrent /\ WarmupRespected
    BY <1>1 DEF Init, BothOrNone, BaseBelowCurrent, WarmupRespected
  <2>3. ClosedIsNotInflated
    BY <1>1, VegasAssumption DEF Init, ClosedIsNotInflated
  <2> QED
    BY <2>1, <2>2, <2>3 DEF IInv
<1> QED
  BY <1>1, NextPreserves, PTL DEF Spec

\* The latencies stay within the filter's limits and the circuit in its states.
THEOREM TypeCorrect == Spec => []TypeOK
<1>1. IInv => TypeOK
  BY DEF IInv
<1> QED
  BY <1>1, Inductive, PTL

\* Inflation is never negative, for every smoothing and every truncation.
THEOREM InflationIsNotNegative == Spec => []BaseBelowCurrent
<1>1. IInv => BaseBelowCurrent
  BY DEF IInv
<1> QED
  BY <1>1, Inductive, PTL

\* The circuit does not move before warmupSamples latencies were accepted.
THEOREM NoMoveBeforeWarmup == Spec => []WarmupRespected
<1>1. IInv => WarmupRespected
  BY DEF IInv
<1> QED
  BY <1>1, Inductive, PTL

\* A Closed circuit that has warmed up is never inflated above alpha, even
\* right after a recovery.
THEOREM ClosedStaysBelowAlpha == Spec => []ClosedIsNotInflated
<1>1. IInv => ClosedIsNotInflated
  BY DEF IInv
<1> QED
  BY <1>1, Inductive, PTL
=============================================================================
