------------------------- MODULE TokenBucketProofs -------------------------
(***************************************************************************)
(* The rate limit of the token bucket, for every number of waiters, every  *)
(* rate and burst, and every rounding error of at most a third of what     *)
(* arrives in a tick.                                                      *)
(***************************************************************************)
EXTENDS TokenBucket, TLAPS

CounterType == /\ now \in Nat /\ last \in Nat /\ last <= now
               /\ tokens \in 0 .. Burst
               /\ paid \in Nat /\ unpaid \in Nat /\ unpaidAt \in Nat

\* What was paid and what is left come from the burst and the rate.
Conserved == paid * Token + tokens <= Burst + last * (Rate + Slop)

\* After a call that was admitted for nothing less than a tick's worth is missing,
\* rounding aside; after a second one, less than two rounding errors.
AlmostFull ==
  Burst >= Token =>
    /\ unpaid <= 2
    /\ unpaid >= 1 => unpaidAt = last /\ tokens > Token - Rate - Slop
    /\ unpaid = 2 => tokens > Token - 2 * Slop

IInv == CounterType /\ Conserved /\ AlmostFull

\* A quotient is cut to zero exactly when the dividend is below the divisor.
LEMMA DivCut ==
  ASSUME NEW x \in Int, NEW r \in Nat \ {0}
  PROVE  /\ x \div r <= 0 => x < r
         /\ x \div r > 0 => x >= r
<1> DEFINE q == x \div r
<1>1. q \in Int /\ r * q <= x /\ x < r * q + r
  OBVIOUS
<1> HIDE DEF q
<1>2. q <= 0 => r * q <= 0
  BY <1>1
<1>3. q > 0 => r * q >= r
  BY <1>1
<1> QED
  BY <1>1, <1>2, <1>3 DEF q

\* Crediting the elapsed time stays within the capacity, adds no more than the rate
\* and the rounding allow, and after a tick or more adds a tick's worth, rounding
\* aside, or fills the bucket.
LEMMA Credit ==
  ASSUME IInv, NEW e \in Rounding
  PROVE  /\ Replenished(e) \in 0 .. Burst
         /\ Replenished(e) <= tokens + now * (Rate + Slop) - last * (Rate + Slop)
         /\ now = last => Replenished(e) = tokens
         /\ now # last => Replenished(e) = Burst \/ Replenished(e) >= tokens + Rate - Slop
<1> USE TokenBucketAssumption
<1> DEFINE n == now - last
           g == n * Rate
           h == n * Slop
<1>1. n \in Nat /\ tokens \in 0 .. Burst /\ e \in -Slop .. Slop
  BY DEF IInv, CounterType, Rounding
<1>2. g \in Nat /\ h \in Nat
  BY <1>1
<1>3. n # 0 => g >= Rate /\ h >= Slop
  BY <1>1
<1>4. now * (Rate + Slop) - last * (Rate + Slop) = g + h
  BY DEF IInv, CounterType
<1>5. Replenished(e) = IF n = 0 THEN tokens
                       ELSE IF tokens + g + e > Burst THEN Burst ELSE tokens + g + e
  BY DEF Replenished, IInv, CounterType
<1>6. now = last <=> n = 0
  BY DEF IInv, CounterType
<1>7. tokens + now * (Rate + Slop) - last * (Rate + Slop) = tokens + (g + h)
  <2>1. now * (Rate + Slop) \in Int /\ last * (Rate + Slop) \in Int /\ tokens \in Int
    BY DEF IInv, CounterType
  <2> QED
    BY <1>2, <1>4, <2>1
<1> HIDE DEF n, g, h
<1>8. CASE n = 0
  BY <1>1, <1>2, <1>5, <1>6, <1>7, <1>8
<1>9. CASE n # 0
  BY <1>1, <1>2, <1>3, <1>5, <1>6, <1>7, <1>9
<1> QED
  BY <1>8, <1>9

\* takeLocked keeps what it credits and takes a token only for a call that pays.
LEMMA ConservedStep ==
  ASSUME IInv, NEW e \in Rounding, takeLocked(e), now' = now,
         paid' = IF Replenished(e) >= Token THEN paid + 1 ELSE paid,
         unpaid' \in Nat, unpaidAt' \in Nat
  PROVE  CounterType' /\ Conserved'
<1> USE TokenBucketAssumption
<1> DEFINE R == Replenished(e)
           p == paid * Token
           a == last * (Rate + Slop)
           b == now * (Rate + Slop)
<1>1. R \in 0 .. Burst /\ R <= tokens + b - a
  BY Credit
<1>2. p \in Int /\ a \in Int /\ b \in Int /\ tokens \in Int /\ p + tokens <= Burst + a
  BY DEF IInv, CounterType, Conserved
<1>3. tokens' = (IF R >= Token THEN R - Token ELSE R) /\ last' = now
  BY DEF takeLocked
<1>4. paid' * Token = IF R >= Token THEN p + Token ELSE p
  <2>1. (paid + 1) * Token = paid * Token + Token
    BY DEF IInv, CounterType
  <2> QED
    BY <2>1
<1>5. last' * (Rate + Slop) = b
  BY <1>3
<1>6. CounterType'
  <2>1. tokens' \in 0 .. Burst
    BY <1>1, <1>3
  <2>2. paid' \in Nat
    BY DEF IInv, CounterType
  <2> QED
    BY <1>3, <2>1, <2>2 DEF IInv, CounterType
<1> HIDE DEF R, p, a, b
<1>7. paid' * Token + tokens' <= Burst + last' * (Rate + Slop)
  <2>1. p + R <= Burst + b
    BY <1>1, <1>2
  <2>2. paid' * Token + tokens' = p + R
    BY <1>1, <1>2, <1>3, <1>4
  <2> QED
    BY <1>5, <2>1, <2>2
<1> QED
  BY <1>6, <1>7 DEF Conserved

\* What a wait that is cut to zero, and one that is not, say of what is missing.
LEMMA Missing ==
  ASSUME IInv, NEW e \in Rounding, NEW d \in Rounding
  PROVE  /\ WaitTime(e, d) <= 0 => Replenished(e) > Token - Rate - Slop
         /\ WaitTime(e, d) > 0 => /\ Replenished(e) < Token
                                  /\ Replenished(e) <= Token - Rate + Slop
<1> USE TokenBucketAssumption
<1>1. Replenished(e) \in Int /\ d \in -Slop .. Slop
  BY Credit DEF Rounding
<1>2. CASE Replenished(e) >= Token
  BY <1>1, <1>2 DEF WaitTime
<1>3. CASE Replenished(e) < Token
  <2> DEFINE x == Token - Replenished(e) + d
  <2>1. x \in Int /\ WaitTime(e, d) = x \div Rate
    BY <1>1, <1>3 DEF WaitTime
  <2>2. (x \div Rate <= 0 => x < Rate) /\ (x \div Rate > 0 => x >= Rate)
    BY <2>1, DivCut
  <2> QED
    BY <1>1, <1>3, <2>1, <2>2
<1> QED
  BY <1>1, <1>2, <1>3

\* An admitted call keeps the invariant.
LEMMA AdmitStep ==
  ASSUME IInv, Admitted, now' = now
  PROVE  IInv'
<1> USE TokenBucketAssumption
<1> PICK e \in Rounding, d \in Rounding :
      /\ WaitTime(e, d) <= 0
      /\ takeLocked(e)
      /\ IF Replenished(e) >= Token
           THEN paid' = paid + 1 /\ unpaid' = 0 /\ UNCHANGED unpaidAt
           ELSE /\ unpaid' = IF unpaid > 0 /\ unpaidAt = now THEN unpaid ELSE unpaid + 1
                /\ unpaidAt' = now
                /\ UNCHANGED paid
  BY DEF Admitted
<1>1. unpaid' \in Nat /\ unpaidAt' \in Nat
  BY DEF IInv, CounterType
<1>2. CounterType' /\ Conserved'
  BY <1>1, ConservedStep
<1>3. AlmostFull'
  <2> SUFFICES ASSUME Burst >= Token
               PROVE  /\ unpaid' <= 2
                      /\ unpaid' >= 1 => unpaidAt' = last' /\ tokens' > Token - Rate - Slop
                      /\ unpaid' = 2 => tokens' > Token - 2 * Slop
    BY DEF AlmostFull
  <2>0. /\ unpaid \in 0 .. 2
        /\ unpaid >= 1 => unpaidAt = last /\ tokens > Token - Rate - Slop
        /\ unpaid = 2 => tokens > Token - 2 * Slop
    BY DEF IInv, AlmostFull, CounterType
  <2>1. CASE Replenished(e) >= Token
    BY <2>1
  <2>2. CASE ~(Replenished(e) >= Token)
    <3>1. tokens' = Replenished(e) /\ last' = now /\ unpaidAt' = now
      BY <2>2 DEF takeLocked
    <3>2. Replenished(e) > Token - Rate - Slop /\ Replenished(e) \in 0 .. Burst
      BY Missing, Credit
    <3>3. CASE now = last
      <4>1. Replenished(e) = tokens
        BY <3>3, Credit
      <4>2. unpaid' = IF unpaid > 0 THEN unpaid ELSE 1
        BY <2>0, <2>2, <3>3
      <4> QED
        BY <2>0, <3>1, <3>2, <4>1, <4>2
    <3>4. CASE now # last
      <4>1. Replenished(e) >= tokens + Rate - Slop /\ tokens \in Int
        BY <2>2, <3>2, <3>4, Credit DEF IInv, CounterType
      <4>2. unpaid' = unpaid + 1
        BY <2>0, <2>2, <3>4
      <4>3. unpaid # 2
        BY <2>0, <2>2, <3>2, <4>1
      <4>4. unpaid = 1 => Replenished(e) > Token - 2 * Slop
        BY <2>0, <3>2, <4>1
      <4> QED
        BY <2>0, <3>1, <3>2, <4>2, <4>3, <4>4
    <3> QED
      BY <3>3, <3>4
  <2> QED
    BY <2>1, <2>2
<1> QED
  BY <1>2, <1>3 DEF IInv

\* A call that is turned away keeps the invariant: it only credits the time, and at
\* a later instant than a call that was admitted for nothing there is no such call.
LEMMA RejectStep ==
  ASSUME IInv, NEW e \in Rounding, NEW d \in Rounding, WaitTime(e, d) > 0, takeLocked(e),
         UNCHANGED <<now, paid, unpaid, unpaidAt>>
  PROVE  IInv'
<1> USE TokenBucketAssumption
<1>1. /\ Replenished(e) < Token /\ Replenished(e) <= Token - Rate + Slop
      /\ Replenished(e) \in 0 .. Burst
  BY Missing, Credit
<1>2. tokens' = Replenished(e) /\ last' = now
  BY <1>1 DEF takeLocked
<1>3. CounterType' /\ Conserved'
  BY <1>1, ConservedStep DEF IInv, CounterType
<1>4. AlmostFull'
  <2>1. CASE now = last
    <3>1. tokens' = tokens /\ last' = last
      BY <1>2, <2>1, Credit
    <3> QED
      BY <3>1 DEF IInv, AlmostFull
  <2>2. CASE now # last
    <3>1. Burst >= Token => Replenished(e) >= tokens + Rate - Slop /\ tokens \in Int
      BY <1>1, <2>2, Credit DEF IInv, CounterType
    <3>2. Burst >= Token => unpaid = 0
      BY <1>1, <3>1 DEF IInv, AlmostFull, CounterType
    <3> QED
      BY <3>2 DEF AlmostFull
  <2> QED
    BY <2>1, <2>2
<1> QED
  BY <1>3, <1>4 DEF IInv

\* A step that leaves the bucket alone keeps the invariant.
LEMMA QuietStep ==
  ASSUME IInv, UNCHANGED <<tokens, last, paid, unpaid, unpaidAt>>, now' \in Nat, now <= now'
  PROVE  IInv'
BY DEF IInv, CounterType, Conserved, AlmostFull

\* Every step of the limiter and its waiters keeps the invariant.
LEMMA NextPreserves == IInv /\ [LimiterNext]_limiterVars => IInv'
<1> SUFFICES ASSUME IInv, [LimiterNext]_limiterVars PROVE IInv'
  OBVIOUS
<1>0. now \in Nat
  BY DEF IInv, CounterType
<1>1. CASE Tick
  BY <1>0, <1>1, QuietStep DEF Tick, bucket, history
<1>2. CASE AllowAdmits
  BY <1>2, AdmitStep DEF AllowAdmits
<1>3. CASE AllowRejects
  BY <1>3, RejectStep DEF AllowRejects, history
<1>4. CASE LimiterClose
  BY <1>0, <1>4, QuietStep DEF LimiterClose, bucket, history
<1>5. CASE \E w \in Waiters : WaitAdmits(w)
  BY <1>5, AdmitStep DEF WaitAdmits
<1>6. CASE \E w \in Waiters : WaitSleeps(w)
  BY <1>6, RejectStep DEF WaitSleeps, history
<1>7. CASE \E w \in Waiters : WaitLimited(w) \/ WaitCancelled(w)
  BY <1>0, <1>7, QuietStep DEF WaitLimited, WaitCancelled, bucket, history
<1>8. CASE UNCHANGED limiterVars
  BY <1>0, <1>8, QuietStep DEF limiterVars, bucket, history
<1> QED
  BY <1>1, <1>2, <1>3, <1>4, <1>5, <1>6, <1>7, <1>8 DEF LimiterNext

\* However Allow, Wait, timers, cancellations and Close interleave, and whatever the
\* rounding, takeLocked hands out no more than the burst and what the rate delivered,
\* and lets calls through for nothing at two instants at most between two that pay.
THEOREM RateLimit == LimiterSpec => []RateRespected
<1>1. LimiterInit => IInv
  BY TokenBucketAssumption DEF LimiterInit, IInv, CounterType, Conserved, AlmostFull
<1>2. IInv /\ [LimiterNext]_limiterVars => IInv'
  BY NextPreserves
<1>3. IInv => RateRespected
  BY DEF IInv, Conserved, AlmostFull, RateRespected
<1> QED
  BY <1>1, <1>2, <1>3, PTL DEF LimiterSpec
=============================================================================
