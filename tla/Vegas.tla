------------------------------- MODULE Vegas -------------------------------
(***************************************************************************)
(* circuitbreaker/vegas: the breaker that trips on latency inflation.      *)
(* Latencies are integers in the unit of time.Duration; the smoothed       *)
(* latency is truncated to it as the conversion in updateRTTLocked does.   *)
(* Every method holds b.mu, so each is one action.                         *)
(***************************************************************************)
EXTENDS Integers, FiniteSets

CONSTANTS Callers,            \* goroutines that call Execute
          MinRTT, MaxRTT,     \* cfg.minRTT, cfg.maxRTT
          AlphaNum, AlphaDen, \* cfg.alpha
          BetaNum, BetaDen,   \* cfg.beta
          Warmup,             \* cfg.warmupSamples
          Latencies           \* what calls may take, outliers included

ASSUME VegasAssumption ==
  /\ MinRTT \in Nat \ {0} /\ MaxRTT \in Nat /\ MinRTT <= MaxRTT
  /\ AlphaNum \in Nat \ {0} /\ AlphaDen \in Nat \ {0}
  /\ BetaNum \in Nat \ {0} /\ BetaDen \in Nat \ {0}
  /\ Warmup \in Nat \ {0}
  /\ Latencies \subseteq Nat

VARIABLES baseRTT, currentRTT,
          sampleCount,        \* b.sampleCount, up to Warmup: beyond it nothing looks
          state, closed,
          running             \* callers between Allow() = nil and their report

rtts == <<baseRTT, currentRTT, sampleCount>>
vars == <<rtts, state, closed, running>>

Init == /\ baseRTT = 0 /\ currentRTT = 0 /\ sampleCount = 0
        /\ state = "Closed" /\ closed = FALSE
        /\ running = {}

CountUp(n) == IF n < Warmup THEN n + 1 ELSE n

------------------------------------------------------------------------------
Allow(c) == /\ c \notin running
            /\ ~closed
            /\ state # "Open"
            /\ running' = running \union {c}
            /\ UNCHANGED <<rtts, state, closed>>

\* Faulty variant: smooths with the old minimum only, never lowers it.
updateRTTLocked_KeepsBase(rtt) ==
  IF rtt < MinRTT \/ rtt > MaxRTT
    THEN UNCHANGED rtts
    ELSE /\ sampleCount' = CountUp(sampleCount)
         /\ currentRTT' = IF currentRTT = 0 THEN rtt ELSE (7 * currentRTT + rtt) \div 8
         /\ baseRTT' = IF baseRTT = 0 THEN rtt ELSE baseRTT

updateRTTLocked(rtt) ==
  IF rtt < MinRTT \/ rtt > MaxRTT
    THEN UNCHANGED rtts
    ELSE /\ sampleCount' = CountUp(sampleCount)
         /\ currentRTT' = IF currentRTT = 0 THEN rtt ELSE (7 * currentRTT + rtt) \div 8
         /\ baseRTT' = IF baseRTT = 0 \/ rtt < baseRTT THEN rtt ELSE baseRTT

\* inflation > alpha, inflation < beta for a base and a smoothed latency.
Inflated(base, current) == (current - base) * AlphaDen > AlphaNum * base
Healed(base, current)   == (current - base) * BetaDen < BetaNum * base

\* evaluateLocked looks at the latencies only after the warmup.
Warm(base, samples) == samples >= Warmup /\ base # 0

\* evaluateLocked in state s: the state it leaves.
evaluateLocked(s, base, current, samples) ==
  IF ~Warm(base, samples) THEN s
  ELSE CASE s = "Closed"   -> IF Inflated(base, current) THEN "Open" ELSE "Closed"
         [] s = "Open"     -> IF Healed(base, current) THEN "HalfOpen" ELSE "Open"
         [] s = "HalfOpen" -> IF Healed(base, current) THEN "Closed"
                              ELSE IF Inflated(base, current) THEN "Open" ELSE "HalfOpen"

\* Faulty variant: the recovering report is not evaluated.
Recovered_Unchecked(rtt) ==
  /\ updateRTTLocked(rtt)
  /\ state' = IF state = "HalfOpen" THEN "Closed"
              ELSE evaluateLocked(state, baseRTT', currentRTT', sampleCount')

\* RecordLatency: a report in HalfOpen recovers the circuit, and the circuit it
\* recovers is then evaluated on the new latencies.
Recovered(rtt) ==
  /\ updateRTTLocked(rtt)
  /\ state' = evaluateLocked(IF state = "HalfOpen" THEN "Closed" ELSE state,
                             baseRTT', currentRTT', sampleCount')

\* Execute after fn returned nil; MarkSuccess is RecordLatency(0).
RecordLatency(c, rtt) ==
  /\ c \in running
  /\ running' = running \ {c}
  /\ Recovered(rtt)
  /\ UNCHANGED closed

\* A caller reports a latency by itself, from inside fn or before its Mark: Execute
\* or the Mark then reports once more.
RecordLatencyAlso(c, rtt) ==
  /\ c \in running
  /\ Recovered(rtt)
  /\ UNCHANGED <<closed, running>>

\* fn failed: a failure in HalfOpen opens the circuit, any other one counts as
\* a latency of maxRTT.
MarkFailure(c) ==
  /\ c \in running
  /\ running' = running \ {c}
  /\ UNCHANGED closed
  /\ \/ /\ state = "HalfOpen"
        /\ state' = "Open"
        /\ UNCHANGED rtts
     \/ /\ state # "HalfOpen"
        /\ updateRTTLocked(MaxRTT)
        /\ state' = evaluateLocked(state, baseRTT', currentRTT', sampleCount')

\* Faulty variant: a dead call is taken for the recovery of the circuit.
FnPanics_Heals(c) ==
  /\ c \in running
  /\ running' = running \ {c}
  /\ state' = "Closed"
  /\ UNCHANGED <<rtts, closed>>

\* fn panicked: nothing is reported.
FnPanics(c) ==
  /\ c \in running
  /\ running' = running \ {c}
  /\ UNCHANGED <<rtts, state, closed>>

Close == /\ ~closed
         /\ closed' = TRUE
         /\ UNCHANGED <<rtts, state, running>>

Report(c) == MarkFailure(c) \/ \E rtt \in Latencies : RecordLatency(c, rtt)

Next == \/ \E c \in Callers : Allow(c) \/ Report(c) \/ FnPanics(c)
        \/ \E c \in Callers, rtt \in Latencies : RecordLatencyAlso(c, rtt)
        \/ Close

Spec == Init /\ [][Next]_vars

\* Callers keep calling and every admitted call ends.
FairSpec == Spec /\ \A c \in Callers : WF_vars(Allow(c)) /\ WF_vars(Report(c))

------------------------------------------------------------------------------
\* Types; the latencies lie between the filter's limits once there are samples.
TypeOK == /\ baseRTT \in {0} \union MinRTT .. MaxRTT
          /\ currentRTT \in {0} \union MinRTT .. MaxRTT
          /\ sampleCount \in 0 .. Warmup
          /\ state \in {"Closed", "Open", "HalfOpen"}
          /\ closed \in BOOLEAN
          /\ running \subseteq Callers

\* The baseline never exceeds the smoothed latency, truncation included, so the
\* inflation the breaker compares with alpha and beta is never negative.
BaseBelowCurrent == baseRTT <= currentRTT

\* Nothing happens to the circuit before the warmup is over.
WarmupRespected == state # "Closed" => sampleCount = Warmup

\* A Closed circuit that has warmed up is not inflated: the recovery from
\* HalfOpen is itself evaluated, and every change of the baseline is.
ClosedIsNotInflated ==
  state = "Closed" /\ sampleCount = Warmup => ~Inflated(baseRTT, currentRTT)

\* The circuit moves and admits as the CircuitBreaker interface says, but for the
\* limit on trials: Allow admits everybody in HalfOpen.
Contract == INSTANCE BreakerContract WITH inflight <- running, tried <- 0, TrialLimit <- 0
ImplementsCircuit == Contract!Circuit

\* The package comment: "When it recovers below betaThreshold, the circuit
\* heals."
OpenHeals == (state = "Open") ~> (state # "Open" \/ closed)
=============================================================================
