--------------------------- MODULE HystrixProofs ---------------------------
(***************************************************************************)
(* Proofs about the Hystrix breaker for every number of callers, every     *)
(* window, sleep, volume and error threshold, and without the bounds on    *)
(* time and calls playing any role.                                        *)
(***************************************************************************)
EXTENDS Hystrix, FiniteSetTheorems, TLAPS

\* What is inductive: the checked invariants together, with the fact that
\* every admission lies in the past, which OpenAdmitsNobody needs when the
\* circuit trips.
AdmissionsInThePast == \A c \in Callers : call[c].at <= now

IInv == /\ TypeOK
        /\ AdmissionsInThePast
        /\ ClosedIsHealthy
        /\ SlotBelongsToHalfOpen
        /\ SingleTrial
        /\ OpenAdmitsNobody

\* An empty window never trips the breaker: resetBucketsLocked makes the
\* circuit healthy.
LEMMA EmptyWindowIsHealthy == ~Unhealthy(ZeroBuckets)
<1>1. WindowOutcomes(ZeroBuckets) = {}
  BY DEF WindowOutcomes, ZeroBuckets
<1>2. TotalRequests(ZeroBuckets) = 0
  BY <1>1, FS_EmptySet DEF TotalRequests
<1> QED
  BY <1>2 DEF Unhealthy

\* A rotation keeps the shape of the buckets.
LEMMA RotationType ==
  ASSUME NEW Elt, NEW b \in [Buckets -> SUBSET Elt], NEW l \in Nat, NEW t \in Nat
  PROVE  RotatedBuckets(b, l, t) \in [Buckets -> SUBSET Elt]
BY DEF RotatedBuckets

\* Counting an outcome keeps the shape of the buckets.
LEMMA CountedType ==
  ASSUME NEW Elt, NEW b \in [Buckets -> SUBSET Elt], NEW t \in Nat, NEW o \in Elt
  PROVE  Counted(b, t, o) \in [Buckets -> SUBSET Elt]
BY DEF Counted

\* RotatedAt returns the old rotation time or the present.
LEMMA RotatedAtType ==
  ASSUME NEW l \in Nat, NEW t \in Nat, l <= t
  PROVE  RotatedAt(l, t) \in Nat /\ RotatedAt(l, t) <= t
BY DEF RotatedAt

\* The inductive invariant holds of a new breaker.
LEMMA InitEstablishes == Init => IInv
<1> SUFFICES ASSUME Init PROVE IInv
  OBVIOUS
<1> USE HystrixAssumption, WindowAssumption
<1>1. TypeOK
  <2>1. ClockType
    BY DEF Init, ClockType
  <2>2. WindowType
    BY DEF Init, WindowType, ZeroBuckets
  <2>3. BreakerType
    BY DEF Init, BreakerType
  <2>4. CallerType
    BY DEF Init, CallerType
  <2> QED
    BY <2>1, <2>2, <2>3, <2>4 DEF TypeOK
<1>2. ClosedIsHealthy
  BY EmptyWindowIsHealthy DEF Init, ClosedIsHealthy
<1>3. SingleTrial
  BY FS_EmptySet DEF Init, SingleTrial
<1>4. AdmissionsInThePast
  BY DEF Init, AdmissionsInThePast
<1> QED
  BY <1>1, <1>2, <1>3, <1>4 DEF Init, IInv, SlotBelongsToHalfOpen, OpenAdmitsNobody

\* Steps that touch neither the window, the circuit, the callers' calls nor the
\* trials keep the invariant: time may pass, calls may end.
LEMMA QuietStep ==
  ASSUME IInv, now' \in Nat, now <= now', running' \subseteq running,
         UNCHANGED <<buckets, lastRotate, state, openedAt, halfOpenIn, calls, call, trials>>,
         closed' \in BOOLEAN
  PROVE  IInv'
<1>1. ClockType'
  BY DEF IInv, TypeOK, ClockType
<1>2. WindowType'
  BY DEF IInv, TypeOK, WindowType
<1>3. BreakerType'
  BY DEF IInv, TypeOK, BreakerType
<1>4. CallerType'
  BY DEF IInv, TypeOK, CallerType
<1>5. AdmissionsInThePast'
  BY DEF IInv, TypeOK, ClockType, CallerType, AdmissionsInThePast
<1>6. ClosedIsHealthy'
  BY DEF IInv, ClosedIsHealthy, Unhealthy
<1>7. SlotBelongsToHalfOpen'
  BY DEF IInv, SlotBelongsToHalfOpen
<1>8. SingleTrial' /\ OpenAdmitsNobody'
  BY DEF IInv, SingleTrial, OpenAdmitsNobody
<1> QED
  BY <1>1, <1>2, <1>3, <1>4, <1>5, <1>6, <1>7, <1>8 DEF IInv, TypeOK

\* The sleep ends (in Allow or in State): HalfOpen is entered with no trial.
LEMMA ExpireStep ==
  ASSUME IInv, state = "Open", state' = "HalfOpen", halfOpenIn' \in BOOLEAN, trials' = {},
         UNCHANGED <<now, buckets, lastRotate, openedAt, closed, running, calls, call>>
  PROVE  IInv'
<1>1. ClockType'
  BY DEF IInv, TypeOK, ClockType
<1>2. WindowType'
  BY DEF IInv, TypeOK, WindowType
<1>3. BreakerType'
  BY DEF IInv, TypeOK, BreakerType
<1>4. CallerType'
  BY DEF IInv, TypeOK, CallerType
<1>5. AdmissionsInThePast'
  BY DEF IInv, AdmissionsInThePast
<1>6. ClosedIsHealthy' /\ OpenAdmitsNobody'
  BY DEF ClosedIsHealthy, OpenAdmitsNobody
<1>7. SlotBelongsToHalfOpen'
  BY DEF SlotBelongsToHalfOpen
<1>8. SingleTrial'
  BY FS_EmptySet DEF SingleTrial
<1> QED
  BY <1>1, <1>2, <1>3, <1>4, <1>5, <1>6, <1>7, <1>8 DEF IInv, TypeOK

\* A call is admitted, in Closed or as the trial of HalfOpen.
LEMMA AdmitStep ==
  ASSUME IInv, NEW c \in Callers, Admit(c), state \in {"Closed", "HalfOpen"},
         \/ state = "Closed" /\ UNCHANGED <<halfOpenIn, trials>>
         \/ state = "HalfOpen" /\ ~halfOpenIn /\ halfOpenIn' = TRUE
            /\ trials' = trials \union {calls + 1},
         UNCHANGED <<now, buckets, lastRotate, state, openedAt, closed>>
  PROVE  IInv'
<1>1. ClockType'
  BY DEF IInv, TypeOK, ClockType, Admit
<1>2. WindowType'
  BY DEF IInv, TypeOK, WindowType
<1>3. BreakerType'
  BY DEF IInv, TypeOK, BreakerType
<1>4. CallerType'
  <2>1. running' \subseteq Callers
    BY DEF IInv, TypeOK, CallerType, Admit
  <2>4. trials' \subseteq Nat
    <3>1. trials \subseteq Nat /\ calls + 1 \in Nat
      BY DEF IInv, TypeOK, ClockType, CallerType
    <3>2. trials' = trials \/ trials' = trials \union {calls + 1}
      OBVIOUS
    <3> QED
      BY <3>1, <3>2
  <2>2. [id |-> calls + 1, at |-> now] \in [id : Nat, at : Nat]
    BY DEF IInv, TypeOK, ClockType
  <2>3. call' \in [Callers -> [id : Nat, at : Nat]]
    BY <2>2 DEF IInv, TypeOK, CallerType, Admit
  <2> QED
    BY <2>1, <2>3, <2>4 DEF CallerType
<1>5. AdmissionsInThePast'
  BY DEF IInv, TypeOK, ClockType, CallerType, AdmissionsInThePast, Admit
<1>6. ClosedIsHealthy' /\ OpenAdmitsNobody'
  BY DEF IInv, ClosedIsHealthy, Unhealthy, OpenAdmitsNobody
<1>7. SlotBelongsToHalfOpen'
  BY DEF IInv, SlotBelongsToHalfOpen
<1>8. SingleTrial'
  <2>1. CASE state = "Closed"
    BY <2>1 DEF IInv, SingleTrial
  <2>2. CASE state = "HalfOpen"
    <3>1. trials' = {calls + 1}
      BY <2>2 DEF IInv, SlotBelongsToHalfOpen
    <3> QED
      BY <3>1, FS_Singleton DEF SingleTrial
  <2> QED
    BY <2>1, <2>2
<1> QED
  BY <1>1, <1>2, <1>3, <1>4, <1>5, <1>6, <1>7, <1>8 DEF IInv, TypeOK

\* Outside HalfOpen a Mark counts the outcome and evaluates the new window:
\* a Closed circuit stays Closed only on a healthy window.
LEMMA CountStep ==
  ASSUME IInv, NEW c \in running, NEW success \in BOOLEAN, state # "HalfOpen",
         CountAndEvaluate(c, success),
         running' = running \ {c}, lastRotate' = RotatedAt(lastRotate, now),
         UNCHANGED <<now, closed, calls, call>>
  PROVE  IInv'
<1> DEFINE Outcome == [id |-> call[c].id, at |-> now, ok |-> success]
           Counts  == Counted(rotateLocked, now, Outcome)
<1>1. /\ buckets' = Counts
      /\ evaluateLocked(Counts)
      /\ UNCHANGED <<halfOpenIn, trials>>
  BY DEF CountAndEvaluate
<1> HIDE DEF Counts
<1>2. ClockType'
  <2>1. openedAt' \in Nat /\ openedAt' <= now
    BY <1>1 DEF IInv, TypeOK, ClockType, evaluateLocked
  <2> QED
    BY <2>1, RotatedAtType DEF IInv, TypeOK, ClockType
<1>3. WindowType'
  <2>1. Outcome \in [id : Nat, at : Nat, ok : BOOLEAN]
    BY DEF IInv, TypeOK, ClockType, CallerType
  <2>2. rotateLocked \in [Buckets -> SUBSET [id : Nat, at : Nat, ok : BOOLEAN]]
    BY RotationType DEF IInv, TypeOK, ClockType, WindowType, rotateLocked
  <2>3. Counts \in [Buckets -> SUBSET [id : Nat, at : Nat, ok : BOOLEAN]]
    BY <2>1, <2>2, CountedType DEF IInv, TypeOK, ClockType, Counts
  <2> QED
    BY <1>1, <2>3 DEF WindowType
<1>4. state' \in {state, "Open"}
  BY <1>1 DEF evaluateLocked
<1>5. BreakerType'
  BY <1>1, <1>4 DEF IInv, TypeOK, BreakerType
<1>6. CallerType'
  BY <1>1 DEF IInv, TypeOK, CallerType
<1>7. AdmissionsInThePast'
  BY DEF IInv, AdmissionsInThePast
<1>8. ClosedIsHealthy'
  <2> SUFFICES ASSUME state' = "Closed" PROVE ~Unhealthy(Counts)
    BY <1>1 DEF ClosedIsHealthy, Unhealthy
  <2>1. state = "Closed"
    BY <1>4
  <2> QED
    BY <1>1, <2>1 DEF evaluateLocked
<1>9. SlotBelongsToHalfOpen' /\ SingleTrial'
  BY <1>1, <1>4 DEF IInv, SlotBelongsToHalfOpen, SingleTrial
<1>10. OpenAdmitsNobody'
  <2>1. CASE state = "Open"
    BY <1>1, <2>1 DEF IInv, OpenAdmitsNobody, evaluateLocked
  <2>2. CASE state = "Closed"
    BY <1>1, <2>2 DEF IInv, TypeOK, CallerType, AdmissionsInThePast, OpenAdmitsNobody, evaluateLocked
  <2> QED
    BY <2>1, <2>2 DEF IInv, TypeOK, BreakerType
<1> QED
  BY <1>2, <1>3, <1>5, <1>6, <1>7, <1>8, <1>9, <1>10 DEF IInv, TypeOK

\* Leaving HalfOpen gives the slot back; recovery empties the window.
LEMMA ResolveStep ==
  ASSUME IInv, NEW c \in running, state = "HalfOpen", Recover \/ Reopen,
         running' = running \ {c}, lastRotate' = RotatedAt(lastRotate, now),
         UNCHANGED <<now, closed, calls, call>>
  PROVE  IInv'
<1>1. ClockType'
  BY RotatedAtType DEF IInv, TypeOK, ClockType, Recover, Reopen
<1>2. WindowType'
  <2>1. ZeroBuckets \in [Buckets -> SUBSET [id : Nat, at : Nat, ok : BOOLEAN]]
    BY DEF ZeroBuckets
  <2>2. rotateLocked \in [Buckets -> SUBSET [id : Nat, at : Nat, ok : BOOLEAN]]
    BY RotationType DEF IInv, TypeOK, ClockType, WindowType, rotateLocked
  <2> QED
    BY <2>1, <2>2 DEF WindowType, Recover, Reopen, resetBucketsLocked
<1>3. BreakerType'
  BY DEF IInv, TypeOK, BreakerType, Recover, Reopen
<1>4. CallerType'
  BY DEF IInv, TypeOK, CallerType, Recover, Reopen
<1>5. AdmissionsInThePast'
  BY DEF IInv, AdmissionsInThePast
<1>6. ClosedIsHealthy'
  <2>1. CASE Recover
    BY <2>1, EmptyWindowIsHealthy DEF Recover, resetBucketsLocked, ClosedIsHealthy, Unhealthy
  <2>2. CASE Reopen
    BY <2>2 DEF Reopen, ClosedIsHealthy
  <2> QED
    BY <2>1, <2>2
<1>7. SlotBelongsToHalfOpen'
  BY DEF SlotBelongsToHalfOpen, Recover, Reopen
<1>8. SingleTrial'
  BY FS_EmptySet DEF SingleTrial, Recover, Reopen
<1>9. OpenAdmitsNobody'
  BY DEF IInv, TypeOK, CallerType, AdmissionsInThePast, OpenAdmitsNobody, Recover, Reopen
<1> QED
  BY <1>1, <1>2, <1>3, <1>4, <1>5, <1>6, <1>7, <1>8, <1>9 DEF IInv, TypeOK

\* Every step of the breaker keeps the inductive invariant.
LEMMA NextPreserves == IInv /\ [Next]_vars => IInv'
<1> SUFFICES ASSUME IInv, [Next]_vars PROVE IInv'
  OBVIOUS
<1>0. now \in Nat /\ closed \in BOOLEAN
  BY DEF IInv, TypeOK, ClockType, BreakerType
<1>1. CASE Tick
  BY <1>0, <1>1, QuietStep DEF Tick, window, breaker, history
<1>2. ASSUME NEW c \in Callers, Allow(c) PROVE IInv'
  <2>1. CASE AllowOpen(c)
    BY <1>2, <2>1, ExpireStep DEF Allow, AllowOpen, window
  <2>2. CASE AllowHalfOpen(c)
    BY <1>2, <2>2, AdmitStep DEF Allow, AllowHalfOpen, window
  <2>3. CASE AllowClosed(c)
    BY <1>2, <2>3, AdmitStep DEF Allow, AllowClosed, window
  <2> QED
    BY <1>2, <2>1, <2>2, <2>3 DEF Allow
<1>3. ASSUME NEW c \in Callers, MarkSuccess(c) PROVE IInv'
  <2>1. CASE state = "HalfOpen"
    BY <1>3, <2>1, ResolveStep DEF MarkSuccess
  <2>2. CASE state # "HalfOpen"
    BY <1>3, <2>2, CountStep DEF MarkSuccess
  <2> QED
    BY <2>1, <2>2
<1>4. ASSUME NEW c \in Callers, MarkFailure(c) PROVE IInv'
  <2>1. CASE state = "HalfOpen"
    BY <1>4, <2>1, ResolveStep DEF MarkFailure
  <2>2. CASE state # "HalfOpen"
    BY <1>4, <2>2, CountStep DEF MarkFailure
  <2> QED
    BY <2>1, <2>2
<1>5. ASSUME NEW c \in Callers, FnPanics(c) PROVE IInv'
  BY <1>0, <1>5, QuietStep DEF FnPanics, window, breaker, history
<1>6. CASE State
  <2>1. halfOpenIn \in BOOLEAN
    BY DEF IInv, TypeOK, BreakerType
  <2> QED
    BY <1>6, <2>1, ExpireStep DEF State, window
<1>7. CASE Close
  BY <1>0, <1>7, QuietStep DEF Close, window, history
<1>8. CASE UNCHANGED vars
  BY <1>0, <1>8, QuietStep DEF vars, window, breaker, history
<1> QED
  BY <1>1, <1>2, <1>3, <1>4, <1>5, <1>6, <1>7, <1>8 DEF Next

\* The inductive invariant holds in every reachable state.
THEOREM Inductive == Spec => []IInv
BY InitEstablishes, NextPreserves, PTL DEF Spec

\* The breaker's fields keep their types and its timestamps lie in the past.
THEOREM TypeCorrect == Spec => []TypeOK
<1>1. IInv => TypeOK
  BY DEF IInv
<1> QED
  BY <1>1, Inductive, PTL

\* A Closed circuit never sits on a window that should have tripped it,
\* whatever rotation, late outcomes and recovery did to the window.
THEOREM ClosedStaysHealthy == Spec => []ClosedIsHealthy
<1>1. IInv => ClosedIsHealthy
  BY DEF IInv
<1> QED
  BY <1>1, Inductive, PTL

\* A visit to HalfOpen admits at most one call, for any number of callers.
THEOREM AtMostOneTrial == Spec => []SingleTrial
<1>1. IInv => SingleTrial
  BY DEF IInv
<1> QED
  BY <1>1, Inductive, PTL

\* halfOpenIn is set only in HalfOpen, and is set for an admitted trial.
THEOREM SlotAccounting == Spec => []SlotBelongsToHalfOpen
<1>1. IInv => SlotBelongsToHalfOpen
  BY DEF IInv
<1> QED
  BY <1>1, Inductive, PTL

\* No call is admitted between the trip and the end of the sleep.
THEOREM NoAdmissionWhileOpen == Spec => []OpenAdmitsNobody
<1>1. IInv => OpenAdmitsNobody
  BY DEF IInv
<1> QED
  BY <1>1, Inductive, PTL

\* Outcomes that arrive while the circuit is Open leave openedAt alone.
THEOREM SleepIsNotExtended == Spec => SleepNotExtended
<1>1. ASSUME [Next]_vars, state = "Open", state' = "Open" PROVE openedAt' = openedAt
  <2>1. CASE \E c \in Callers : Allow(c)
    BY <2>1 DEF Allow
  <2>2. CASE \E c \in Callers : MarkSuccess(c) \/ MarkFailure(c)
    BY <1>1, <2>2 DEF MarkSuccess, MarkFailure, CountAndEvaluate, evaluateLocked
  <2>3. CASE Tick \/ State \/ Close \/ UNCHANGED vars \/ \E c \in Callers : FnPanics(c)
    BY <2>3 DEF Tick, State, Close, vars, FnPanics, breaker
  <2> QED
    BY <1>1, <2>1, <2>2, <2>3 DEF Next
<1>2. [Next]_vars => [state = "Open" /\ state' = "Open" => openedAt' = openedAt]_vars
  BY <1>1
<1> QED
  BY <1>2, PTL DEF Spec, SleepNotExtended

\* The breaker implements the CircuitBreaker contract: Allow admits nobody in
\* Open or after Close() and one call per visit to HalfOpen, every admitted call
\* reports at most once, and the circuit only moves along the contract's edges.
THEOREM RefinesContract == Spec => ImplementsContract
<1>1. Init => Contract!Init /\ Cardinality(trials) = 0
  BY FS_EmptySet DEF Init, Contract!Init
<1>2. ASSUME [Next]_vars PROVE [Contract!Next]_(Contract!circuit)
  <2> USE DEF Contract!circuit
  <2>1. ASSUME NEW c \in Callers, Allow(c) PROVE Contract!Admit(c) \/ Contract!Expire
    BY <2>1 DEF Allow, AllowOpen, AllowHalfOpen, AllowClosed, Admit, Contract!Admit, Contract!Expire
  <2>2. ASSUME NEW c \in Callers, MarkSuccess(c) \/ MarkFailure(c) PROVE Contract!Report(c)
    <3>1. /\ c \in running /\ running' = running \ {c} /\ UNCHANGED closed
      BY <2>2 DEF MarkSuccess, MarkFailure
    <3>2. CASE state = "HalfOpen"
      BY <2>2, <3>1, <3>2 DEF MarkSuccess, MarkFailure, Recover, Reopen, Contract!Report
    <3>3. CASE state # "HalfOpen"
      <4>1. state' = state \/ (state = "Closed" /\ state' = "Open")
        BY <2>2, <3>3 DEF MarkSuccess, MarkFailure, CountAndEvaluate, evaluateLocked
      <4> QED
        BY <3>1, <4>1 DEF Contract!Report
    <3> QED
      BY <3>2, <3>3
  <2>3. ASSUME NEW c \in Callers, FnPanics(c) PROVE Contract!Abandon(c)
    BY <2>3 DEF FnPanics, breaker, Contract!Abandon
  <2>4. CASE Tick \/ UNCHANGED vars
    BY <2>4 DEF Tick, vars, breaker
  <2>5. CASE State
    BY <2>5 DEF State, Contract!Expire, Contract!Next
  <2>6. CASE Close
    BY <2>6 DEF Close, Contract!Close, Contract!Next
  <2> QED
    BY <1>2, <2>1, <2>2, <2>3, <2>4, <2>5, <2>6 DEF Next, Contract!Next
<1>3. ASSUME IInv, [Next]_vars PROVE [Contract!Try]_(Contract!vars)
  <2>0. Cardinality({}) = 0 /\ \A x : Cardinality({x}) = 1
    BY FS_EmptySet, FS_Singleton
  <2>a. trials # {} => state = "HalfOpen" /\ halfOpenIn
    BY <1>3 DEF IInv, SlotBelongsToHalfOpen
  <2>b. Cardinality(trials) <= 1
    BY <1>3 DEF IInv, SingleTrial
  <2>1. ASSUME NEW c \in Callers, Allow(c) PROVE Contract!Try
    <3>1. CASE AllowOpen(c)
      BY <2>0, <3>1 DEF AllowOpen, Contract!Try
    <3>2. CASE AllowHalfOpen(c)
      <4>1. trials = {} /\ trials' = {calls + 1}
        BY <2>a, <3>2 DEF AllowHalfOpen
      <4>2. running' \ running # {} /\ state = "HalfOpen" /\ state' = state
        BY <2>1, <3>2 DEF Allow, AllowHalfOpen, Admit
      <4>3. Cardinality(trials) = 0 /\ Cardinality(trials') = 1
        BY <2>0, <4>1
      <4> QED
        BY <4>2, <4>3 DEF Contract!Try
    <3>3. CASE AllowClosed(c)
      BY <2>b, <3>3 DEF AllowClosed, Contract!Try
    <3> QED
      BY <2>1, <3>1, <3>2, <3>3 DEF Allow
  <2>2. ASSUME NEW c \in Callers, MarkSuccess(c) \/ MarkFailure(c) PROVE Contract!Try
    <3>0. running' \ running = {}
      BY <2>2 DEF MarkSuccess, MarkFailure
    <3>1. CASE state = "HalfOpen"
      <4>1. trials' = {} /\ state' # state
        BY <2>2, <3>1 DEF MarkSuccess, MarkFailure, Recover, Reopen
      <4> QED
        BY <2>0, <4>1 DEF Contract!Try
    <3>2. CASE state # "HalfOpen"
      <4>1. trials = {} /\ trials' = {}
        BY <2>2, <2>a, <3>2 DEF MarkSuccess, MarkFailure, CountAndEvaluate
      <4> QED
        BY <2>0, <3>0, <3>2, <4>1 DEF Contract!Try
    <3> QED
      BY <3>1, <3>2
  <2>3. ASSUME NEW c \in Callers, FnPanics(c) PROVE Contract!Try
    BY <2>3, <2>b DEF FnPanics, breaker, history, Contract!Try
  <2>4. CASE Tick \/ UNCHANGED vars
    BY <2>4 DEF Tick, vars, breaker, history, Contract!vars, Contract!circuit
  <2>5. CASE State
    BY <2>0, <2>5 DEF State, Contract!Try
  <2>6. CASE Close
    BY <2>6, <2>b DEF Close, history, Contract!Try
  <2> QED
    BY <1>3, <2>1, <2>2, <2>3, <2>4, <2>5, <2>6 DEF Next
<1> QED
  BY <1>1, <1>2, <1>3, Inductive, PTL
     DEF Spec, ImplementsContract, Contract!Spec, Contract!Circuit, Contract!Trials
=============================================================================
