----------------------- MODULE ExecutionPipelineProofs -----------------------
(***************************************************************************)
(* Theorems about ExecutionPipeline for every number of slots, every key   *)
(* assignment, every window size, threshold and cooldown.                  *)
(***************************************************************************)
EXTENDS ExecutionPipeline, TLAPS

-----------------------------------------------------------------------------
(* Facts about the operators of the breaker.                               *)

\* What _pushResult returns: a window that is not overfull and ends in the result.
LEMMA PushResultFacts ==
  ASSUME NEW w \in Seq(Result), Len(w) <= WindowSize, NEW r \in Result
  PROVE  /\ PushResult(w, r) \in Seq(Result)
         /\ Len(PushResult(w, r)) <= WindowSize
         /\ Len(PushResult(w, r)) > 0
         /\ PushResult(w, r)[Len(PushResult(w, r))] = r
<1> DEFINE a == Append(w, r)
<1>1. a \in Seq(Result) /\ Len(a) = Len(w) + 1 /\ a[Len(w) + 1] = r
  OBVIOUS
<1>2. CASE Len(w) < WindowSize
  BY <1>1, <1>2, BreakerAssumption DEF PushResult
<1>3. CASE ~(Len(w) < WindowSize)
  <2>1. Len(w) = WindowSize /\ Len(w) > 0
    BY <1>3, BreakerAssumption
  <2>2. /\ Tail(a) \in Seq(Result)
        /\ Len(Tail(a)) = Len(w)
        /\ \A i \in 1..Len(w) : Tail(a)[i] = a[i + 1]
    BY <1>1, <2>1
  <2>3. QED
    BY <1>1, <1>3, <2>1, <2>2, BreakerAssumption DEF PushResult
<1>4. QED
  BY <1>2, <1>3

\* A cooldown that backs off never shrinks and never passes the cap.
LEMMA BackedOffFacts ==
  ASSUME NEW c \in Cooldown..MaxCooldown
  PROVE  BackedOff(c) \in Cooldown..MaxCooldown /\ BackedOff(c) >= c
<1>1. c \in Nat /\ (3 * c) \div 2 >= c /\ (3 * c) \div 2 \in Nat
  BY BreakerAssumption
<1>2. QED
  BY <1>1, BreakerAssumption DEF BackedOff, AtMost

-----------------------------------------------------------------------------
(* Type correctness.                                                       *)

LEMMA EmptyWindow == <<>> \in Seq(Result) /\ Len(<<>>) = 0
OBVIOUS

LEMMA InitTypeOK == Init => TypeOK
<1> SUFFICES ASSUME Init PROVE TypeOK
  OBVIOUS
<1>1. window \in Seq(Result) /\ Len(window) <= WindowSize
  BY EmptyWindow, BreakerAssumption DEF Init, BreakerInit
<1>2. state \in CircuitState /\ halfOpenProbeInFlight \in BOOLEAN
  BY DEF Init, BreakerInit, CircuitState
<1>3. consecutiveFailures \in 0..ConsecutiveThreshold /\ tripCount \in 0..2
  BY BreakerAssumption DEF Init, BreakerInit
<1>4. currentCooldown \in Cooldown..MaxCooldown /\ elapsed \in 0..MaxCooldown
  BY BreakerAssumption DEF Init, BreakerInit
<1>5. probeCount \in Nat
  BY DEF Init, BreakerInit
<1>6. BreakerTypeOK
  BY <1>1, <1>2, <1>3, <1>4, <1>5 DEF BreakerTypeOK
<1>7. QED
  BY <1>6 DEF Init, TypeOK, Stages

\* The methods of the breaker keep its types.
LEMMA CheckExecutionType == BreakerTypeOK /\ CheckExecution => BreakerTypeOK'
<1> SUFFICES ASSUME BreakerTypeOK, CheckExecution PROVE BreakerTypeOK'
  OBVIOUS
<1>1. state' \in CircuitState /\ halfOpenProbeInFlight' \in BOOLEAN
  BY DEF BreakerTypeOK, CheckExecution, CircuitState
<1>2. probeCount' \in Nat
  BY DEF BreakerTypeOK, CheckExecution, CircuitState
<1>3. QED
  BY <1>1, <1>2 DEF BreakerTypeOK, CheckExecution

LEMMA RecordSuccessType == BreakerTypeOK /\ RecordSuccess => BreakerTypeOK'
<1> SUFFICES ASSUME BreakerTypeOK, RecordSuccess PROVE BreakerTypeOK'
  OBVIOUS
<1>1. window' \in Seq(Result) /\ Len(window') <= WindowSize
  BY PushResultFacts DEF BreakerTypeOK, RecordSuccess, Result
<1>2. state' \in CircuitState /\ halfOpenProbeInFlight' \in BOOLEAN
  BY DEF BreakerTypeOK, RecordSuccess, CircuitState
<1>3. currentCooldown' \in Cooldown..MaxCooldown /\ consecutiveFailures' \in 0..ConsecutiveThreshold
  BY BreakerAssumption DEF BreakerTypeOK, RecordSuccess
<1>4. QED
  BY <1>1, <1>2, <1>3 DEF BreakerTypeOK, RecordSuccess

LEMMA RecordFailureType == BreakerTypeOK /\ RecordFailure => BreakerTypeOK'
<1> SUFFICES ASSUME BreakerTypeOK, RecordFailure PROVE BreakerTypeOK'
  OBVIOUS
<1>1. window' \in Seq(Result) /\ Len(window') <= WindowSize
  BY PushResultFacts DEF BreakerTypeOK, RecordFailure, Result
<1>2. state' \in CircuitState /\ halfOpenProbeInFlight' \in BOOLEAN
  BY DEF BreakerTypeOK, RecordFailure, CircuitState
<1>3. currentCooldown' \in Cooldown..MaxCooldown
  BY BackedOffFacts DEF BreakerTypeOK, RecordFailure
<1>4. consecutiveFailures' \in 0..ConsecutiveThreshold /\ tripCount' \in 0..2
  BY BreakerAssumption DEF BreakerTypeOK, RecordFailure, AtMost
<1>5. elapsed' \in 0..MaxCooldown /\ probeCount' \in Nat
  BY BreakerAssumption DEF BreakerTypeOK, RecordFailure
<1>6. QED
  BY <1>1, <1>2, <1>3, <1>4, <1>5 DEF BreakerTypeOK

LEMMA ResetType == BreakerTypeOK /\ Reset => BreakerTypeOK'
<1> SUFFICES ASSUME BreakerTypeOK, Reset PROVE BreakerTypeOK'
  OBVIOUS
<1>1. window' \in Seq(Result) /\ Len(window') <= WindowSize
  BY EmptyWindow, BreakerAssumption DEF Reset
<1>2. /\ state' \in CircuitState /\ consecutiveFailures' \in 0..ConsecutiveThreshold
      /\ currentCooldown' \in Cooldown..MaxCooldown /\ halfOpenProbeInFlight' \in BOOLEAN
      /\ tripCount' = tripCount /\ elapsed' = elapsed /\ probeCount' = probeCount
  <2>1. 0 \in 0..ConsecutiveThreshold /\ Cooldown \in Cooldown..MaxCooldown
    BY BreakerAssumption
  <2>2. QED
    BY <2>1 DEF Reset, CircuitState
<1>3. QED
  BY <1>1, <1>2 DEF BreakerTypeOK

LEMMA TickType == BreakerTypeOK /\ Tick => BreakerTypeOK'
BY BreakerAssumption DEF BreakerTypeOK, Tick

\* Taking and releasing a trade lock keeps the types of the lock table.
LEMMA LockType ==
  ASSUME TypeOK, NEW t \in Trades, AcquireTradeLock(t) \/ ReleaseTradeLock(t)
  PROVE  activeTrades' \subseteq Keys /\ activeTrading' \in BOOLEAN
<1>1. KeyOf[t] \in Keys
  BY PipelineAssumption
<1>2. CASE AcquireTradeLock(t)
  BY <1>1, <1>2 DEF TypeOK, AcquireTradeLock
<1>3. CASE ReleaseTradeLock(t)
  BY <1>3 DEF TypeOK, ReleaseTradeLock
<1>4. QED
  BY <1>2, <1>3

\* Every step of the pipeline keeps the type invariant.
LEMMA NextTypeOK == TypeOK /\ [Next]_vars => TypeOK'
<1> SUFFICES ASSUME TypeOK, [Next]_vars PROVE TypeOK'
  OBVIOUS
<1> USE DEF TypeOK
<1>1. ASSUME NEW t \in Trades, Start(t) PROVE TypeOK'
  BY <1>1, LockType DEF Start, MoveTo, Stages, breakerVars, BreakerTypeOK
<1>2. ASSUME NEW t \in Trades, Turnedback(t) \/ Reject(t) PROVE TypeOK'
  BY <1>2, LockType DEF Turnedback, Reject, MoveTo, Stages, breakerVars, BreakerTypeOK
<1>3. ASSUME NEW t \in Trades, Admit(t) PROVE TypeOK'
  BY <1>3, CheckExecutionType DEF Admit, MoveTo, Stages
<1>4. ASSUME NEW t \in Trades, Succeed(t) PROVE TypeOK'
  BY <1>4, LockType, RecordSuccessType DEF Succeed, MoveTo, Stages
<1>5. ASSUME NEW t \in Trades, Fail(t) PROVE TypeOK'
  <2>1. BreakerTypeOK'
    BY <1>5, RecordFailureType DEF Fail, FailureRecorded, breakerVars, BreakerTypeOK
  <2>2. QED
    BY <1>5, <2>1, LockType DEF Fail, MoveTo, Stages
<1>6. CASE TimePasses
  BY <1>6, TickType DEF TimePasses, tradeVars
<1>7. CASE ResetBreaker
  BY <1>7, ResetType DEF ResetBreaker, tradeVars
<1>8. CASE UNCHANGED vars
  BY <1>8 DEF vars, breakerVars, tradeVars, BreakerTypeOK
<1>9. QED
  BY <1>1, <1>2, <1>3, <1>4, <1>5, <1>6, <1>7, <1>8 DEF Next

\* The state of the pipeline is well typed for every instance of it.
THEOREM TypeCorrect == Spec => []TypeOK
<1>1. QED
  BY InitTypeOK, NextTypeOK, PTL DEF Spec

-----------------------------------------------------------------------------
(* The probe budget.  ProbeBudget is not inductive: that the gate admits a  *)
(* second execution and no third rests on the in-flight flag being raised   *)
(* by exactly the second one, and on its being down whenever the circuit    *)
(* half opens.                                                              *)

FlagMeansHalfOpen == halfOpenProbeInFlight => state = "HALF_OPEN"

CountMatchesFlag ==
  state = "HALF_OPEN" => probeCount = IF halfOpenProbeInFlight THEN 2 ELSE 1

ProbeInv == TypeOK /\ FlagMeansHalfOpen /\ CountMatchesFlag

LEMMA ProbeInvInit == Init => ProbeInv
BY InitTypeOK DEF Init, BreakerInit, ProbeInv, FlagMeansHalfOpen, CountMatchesFlag

\* Every step keeps the flag and the count together.
LEMMA ProbeInvStep == ProbeInv /\ [Next]_vars => ProbeInv'
<1> SUFFICES ASSUME ProbeInv, [Next]_vars
             PROVE  FlagMeansHalfOpen' /\ CountMatchesFlag'
  BY NextTypeOK DEF ProbeInv
<1> USE DEF ProbeInv, FlagMeansHalfOpen, CountMatchesFlag
<1>1. ASSUME CheckExecution PROVE FlagMeansHalfOpen' /\ CountMatchesFlag'
  <2>1. CASE state = "CLOSED"
    BY <1>1, <2>1 DEF CheckExecution
  <2>2. CASE state = "OPEN"
    BY <1>1, <2>2 DEF CheckExecution
  <2>3. CASE state = "HALF_OPEN"
    <3>1. ~halfOpenProbeInFlight /\ probeCount = 1
      BY <1>1, <2>3 DEF CheckExecution, Allows, CooledDown
    <3>2. state' = "HALF_OPEN" /\ halfOpenProbeInFlight' = TRUE
      BY <1>1, <2>3 DEF CheckExecution
    <3>3. probeCount' = 2
      BY <1>1, <2>3, <3>1 DEF CheckExecution
    <3>4. QED
      BY <3>2, <3>3
  <2>4. QED
    BY <2>1, <2>2, <2>3 DEF TypeOK, BreakerTypeOK, CircuitState
<1>2. ASSUME RecordSuccess PROVE FlagMeansHalfOpen' /\ CountMatchesFlag'
  BY <1>2 DEF RecordSuccess
<1>3. ASSUME RecordFailure PROVE FlagMeansHalfOpen' /\ CountMatchesFlag'
  <2>1. state # "HALF_OPEN" => state' # "HALF_OPEN"
    BY <1>3 DEF RecordFailure
  <2>2. state = "HALF_OPEN" => state' = "OPEN"
    BY <1>3 DEF RecordFailure, TripsOnFailure
  <2>3. QED
    BY <1>3, <2>1, <2>2 DEF RecordFailure
<1>4. ASSUME Reset PROVE FlagMeansHalfOpen' /\ CountMatchesFlag'
  BY <1>4 DEF Reset
<1>5. ASSUME UNCHANGED breakerVars PROVE FlagMeansHalfOpen' /\ CountMatchesFlag'
  BY <1>5 DEF breakerVars
<1>6. ASSUME Tick PROVE FlagMeansHalfOpen' /\ CountMatchesFlag'
  BY <1>6 DEF Tick
<1>7. \/ CheckExecution \/ RecordSuccess \/ RecordFailure \/ Reset
      \/ Tick \/ UNCHANGED breakerVars
  BY DEF Next, vars, Start, Turnedback, Admit, Reject, Succeed, Fail,
         FailureRecorded, TimePasses, ResetBreaker
<1>8. QED
  BY <1>1, <1>2, <1>3, <1>4, <1>5, <1>6, <1>7

\* A half-open circuit never lets a third execution through.
THEOREM ProbeBudgetHolds == Spec => []ProbeBudget
<1>1. ProbeInv => ProbeBudget
  BY DEF ProbeInv, CountMatchesFlag, ProbeBudget
<1>2. QED
  BY <1>1, ProbeInvInit, ProbeInvStep, PTL DEF Spec

-----------------------------------------------------------------------------
(* The trade locks.  That no two operations hold one key needs the lock     *)
(* table to be exactly the keys of the operations under way.               *)

Busy(t) == t \in Locking /\ stage[t] # "idle"

LocksAreHeld == \A t \in Trades : Busy(t) => KeyOf[t] \in activeTrades
LocksAreOwned == \A k \in activeTrades : \E t \in Trades : Busy(t) /\ KeyOf[t] = k
OneOwner == \A t, u \in Trades : Busy(t) /\ Busy(u) /\ KeyOf[t] = KeyOf[u] => t = u
PollsFast == activeTrading <=> activeTrades # {}

LockInv == TypeOK /\ LocksAreHeld /\ LocksAreOwned /\ OneOwner /\ PollsFast

LEMMA LockInvInit == Init => LockInv
BY InitTypeOK DEF Init, LockInv, LocksAreHeld, LocksAreOwned, OneOwner, PollsFast, Busy

\* Starting an execution takes a key nobody holds.
LEMMA StartKeepsLocks ==
  ASSUME LockInv, NEW t \in Trades, Start(t), TypeOK'
  PROVE  LockInv'
<1> USE DEF LockInv, LocksAreHeld, LocksAreOwned, OneOwner, PollsFast, Busy
<1>1. stage' = [stage EXCEPT ![t] = "gate"] /\ stage[t] = "idle"
  BY DEF Start, MoveTo
<1>2. \A u \in Trades : stage'[u] = IF u = t THEN "gate" ELSE stage[u]
  BY <1>1 DEF TypeOK
<1>3. CASE t \in Locking
  <2>1. /\ KeyOf[t] \notin activeTrades /\ activeTrading' = TRUE
        /\ activeTrades' = activeTrades \union {KeyOf[t]}
    BY <1>3 DEF Start, AcquireTradeLock
  <2>2. QED
    BY <1>2, <1>3, <2>1
<1>4. CASE t \notin Locking
  <2>1. UNCHANGED <<activeTrades, activeTrading>>
    BY <1>4 DEF Start, AcquireTradeLock
  <2>2. QED
    BY <1>2, <1>4, <2>1
<1>5. QED
  BY <1>3, <1>4

\* An execution that ends gives back its own key and no other.
LEMMA EndKeepsLocks ==
  ASSUME LockInv, NEW t \in Trades, stage[t] # "idle",
         ReleaseTradeLock(t), MoveTo(t, "idle"), TypeOK'
  PROVE  LockInv'
<1> USE DEF LockInv, LocksAreHeld, LocksAreOwned, OneOwner, PollsFast, Busy
<1>1. \A u \in Trades : stage'[u] = IF u = t THEN "idle" ELSE stage[u]
  BY DEF MoveTo, TypeOK
<1>2. CASE t \in Locking
  <2>1. /\ activeTrades' = activeTrades \ {KeyOf[t]}
        /\ activeTrading' = (activeTrading /\ activeTrades' # {})
    BY <1>2 DEF ReleaseTradeLock
  <2>2. KeyOf[t] \in activeTrades
    BY <1>2
  <2>3. PollsFast'
    BY <2>1, <2>2
  <2>4. LocksAreHeld' /\ OneOwner'
    BY <1>1, <1>2, <2>1
  <2>5. LocksAreOwned'
    <3> SUFFICES ASSUME NEW k \in activeTrades'
                 PROVE  \E u \in Trades : Busy(u)' /\ KeyOf[u] = k
      OBVIOUS
    <3>1. PICK u \in Trades : Busy(u) /\ KeyOf[u] = k
      BY <2>1
    <3>2. u # t
      BY <2>1, <3>1
    <3>3. QED
      BY <1>1, <3>1, <3>2
  <2>6. QED
    BY <2>3, <2>4, <2>5
<1>3. CASE t \notin Locking
  <2>1. UNCHANGED <<activeTrades, activeTrading>>
    BY <1>3 DEF ReleaseTradeLock
  <2>2. QED
    BY <1>1, <1>3, <2>1
<1>4. QED
  BY <1>2, <1>3

LEMMA LockInvStep == LockInv /\ [Next]_vars => LockInv'
<1> SUFFICES ASSUME LockInv, [Next]_vars PROVE LockInv'
  OBVIOUS
<1>1. TypeOK'
  BY NextTypeOK DEF LockInv
<1>2. ASSUME NEW t \in Trades, Start(t) PROVE LockInv'
  BY <1>1, <1>2, StartKeepsLocks
<1>3. ASSUME NEW t \in Trades, Turnedback(t) \/ Reject(t) \/ Succeed(t) \/ Fail(t)
      PROVE  LockInv'
  <2>1. stage[t] # "idle" /\ ReleaseTradeLock(t) /\ MoveTo(t, "idle")
    BY <1>3 DEF Turnedback, Reject, Succeed, Fail, Executing
  <2>2. QED
    BY <1>1, <2>1, EndKeepsLocks
<1>4. ASSUME NEW t \in Trades, Admit(t) PROVE LockInv'
  <2>1. UNCHANGED <<activeTrades, activeTrading>>
    BY <1>4 DEF Admit
  <2>2. \A u \in Trades : stage'[u] = "idle" <=> stage[u] = "idle"
    BY <1>4 DEF Admit, MoveTo, LockInv, TypeOK
  <2>3. QED
    BY <1>1, <2>1, <2>2
       DEF LockInv, LocksAreHeld, LocksAreOwned, OneOwner, PollsFast, Busy
<1>5. ASSUME UNCHANGED tradeVars PROVE LockInv'
  BY <1>1, <1>5 DEF LockInv, LocksAreHeld, LocksAreOwned, OneOwner, PollsFast, Busy, tradeVars
<1>6. QED
  BY <1>2, <1>3, <1>4, <1>5 DEF Next, vars, TimePasses, ResetBreaker

\* No two locked operations on one market and side overlap, for any number of
\* slots and keys, and slots are polled fast exactly while one is under way.
THEOREM TradeMutexHolds == Spec => []TradeMutex
<1>1. LockInv => TradeMutex
  <2> SUFFICES ASSUME LockInv PROVE TradeMutex
    OBVIOUS
  <2> USE DEF LockInv, LocksAreHeld, LocksAreOwned, OneOwner, PollsFast, Busy
  <2>1. Locking \subseteq Trades
    BY PipelineAssumption
  <2>2. QED
    BY <2>1 DEF TradeMutex
<1>2. QED
  BY <1>1, LockInvInit, LockInvStep, PTL DEF Spec

-----------------------------------------------------------------------------
(* The circuit is closed only while it is healthy.                         *)

LEMMA HealthyInit == Init => ClosedIsHealthy
BY EmptyWindow, BreakerAssumption DEF Init, BreakerInit, ClosedIsHealthy, Overheated

LEMMA HealthyStep == TypeOK /\ ClosedIsHealthy /\ [Next]_vars => ClosedIsHealthy'
<1> SUFFICES ASSUME TypeOK, ClosedIsHealthy, [Next]_vars PROVE ClosedIsHealthy'
  OBVIOUS
<1> USE DEF ClosedIsHealthy
<1>1. ASSUME RecordSuccess PROVE ClosedIsHealthy'
  <2>1. window' = PushResult(window, "ok") /\ consecutiveFailures' = 0
    BY <1>1 DEF RecordSuccess
  <2>2. window'[Len(window')] = "ok"
    BY <2>1, PushResultFacts DEF TypeOK, BreakerTypeOK, Result
  <2>3. QED
    BY <2>1, <2>2, BreakerAssumption
<1>2. ASSUME RecordFailure, state' = "CLOSED" PROVE ClosedIsHealthy'
  <2>1. state = "CLOSED" /\ ~TripsOnFailure
    BY <1>2 DEF RecordFailure
  <2>2. /\ consecutiveFailures + 1 < ConsecutiveThreshold
        /\ ~Overheated(PushResult(window, "fail"))
    BY <2>1, BreakerAssumption DEF TripsOnFailure, TypeOK, BreakerTypeOK
  <2>3. window' = PushResult(window, "fail") /\ consecutiveFailures' = consecutiveFailures + 1
    BY <1>2, <2>2 DEF RecordFailure, AtMost
  <2>4. ~Overheated(window)'
    BY <2>2, <2>3 DEF Overheated, RateExceeded, Failures
  <2>5. QED
    BY <2>2, <2>3, <2>4
<1>3. ASSUME Reset PROVE ClosedIsHealthy'
  <2>1. Len(window') = 0 /\ consecutiveFailures' = 0
    BY <1>3, EmptyWindow DEF Reset
  <2>2. ~Overheated(window)'
    BY <2>1, BreakerAssumption DEF Overheated
  <2>3. QED
    BY <2>1, <2>2, BreakerAssumption
<1>4. ASSUME CheckExecution \/ Tick \/ UNCHANGED breakerVars PROVE ClosedIsHealthy'
  <2>1. UNCHANGED <<window, consecutiveFailures>> /\ (state' = "CLOSED" => state = "CLOSED")
    BY <1>4 DEF CheckExecution, Tick, breakerVars
  <2>2. QED
    BY <2>1 DEF Overheated, RateExceeded, Failures
<1>5. \/ CheckExecution \/ RecordSuccess \/ RecordFailure \/ Reset
      \/ Tick \/ UNCHANGED breakerVars
  BY DEF Next, vars, Start, Turnedback, Admit, Reject, Succeed, Fail,
         FailureRecorded, TimePasses, ResetBreaker
<1>6. QED
  BY <1>1, <1>2, <1>3, <1>4, <1>5

\* Whatever the thresholds, the circuit is never left closed above one of them
\* except by a success.
THEOREM ClosedIsHealthyHolds == Spec => []ClosedIsHealthy
<1>1. QED
  BY HealthyInit, HealthyStep, TypeCorrect, PTL DEF Spec

-----------------------------------------------------------------------------
(* Backoff and refinement.                                                 *)

\* The cooldown shrinks only when the circuit closes.
THEOREM BackoffKeptHolds == Spec => BackoffKept
<1>1. TypeOK /\ [Next]_vars => [currentCooldown' < currentCooldown => state' = "CLOSED"]_vars
  <2> SUFFICES ASSUME TypeOK, [Next]_vars
               PROVE  currentCooldown' < currentCooldown => state' = "CLOSED"
    OBVIOUS
  <2>1. /\ currentCooldown \in Cooldown..MaxCooldown
        /\ currentCooldown \in Nat /\ currentCooldown' \in Nat
    BY NextTypeOK, BreakerAssumption DEF TypeOK, BreakerTypeOK
  <2>2. ASSUME RecordFailure PROVE currentCooldown' >= currentCooldown
    BY <2>1, <2>2, BackedOffFacts DEF RecordFailure
  <2>3. ASSUME RecordSuccess \/ Reset
        PROVE  currentCooldown' = currentCooldown \/ state' = "CLOSED"
    BY <2>3 DEF RecordSuccess, Reset
  <2>4. ASSUME CheckExecution \/ Tick \/ UNCHANGED breakerVars
        PROVE  currentCooldown' = currentCooldown
    BY <2>4 DEF CheckExecution, Tick, breakerVars
  <2>5. \/ CheckExecution \/ RecordSuccess \/ RecordFailure \/ Reset
        \/ Tick \/ UNCHANGED breakerVars
    BY DEF Next, vars, Start, Turnedback, Admit, Reject, Succeed, Fail,
           FailureRecorded, TimePasses, ResetBreaker
  <2>6. QED
    BY <2>1, <2>2, <2>3, <2>4, <2>5
<1>2. QED
  BY <1>1, TypeCorrect, PTL DEF Spec, BackoffKept

\* The pipeline's breaker implements the abstract gate with two probes: every
\* initial state is one of the gate, every step a step of the gate or a stutter.
THEOREM ImplementsProbeGate == Spec => ImplementsGate
<1>1. Init => Gate!GateInit
  BY DEF Init, BreakerInit, Gate!GateInit
<1>2. ProbeInv /\ [Next]_vars => [Gate!GateNext]_<<state, probeCount>>
  <2> SUFFICES ASSUME ProbeInv, [Next]_vars
               PROVE  Gate!GateNext \/ UNCHANGED <<state, probeCount>>
    OBVIOUS
  <2> USE DEF Gate!GateNext, Gate!Trip, Gate!HalfOpen, Gate!Probe, Gate!Settle, Gate!ForceClose
  <2>1. state \in CircuitState
    BY DEF ProbeInv, TypeOK, BreakerTypeOK
  <2>2. ASSUME CheckExecution PROVE Gate!GateNext \/ UNCHANGED <<state, probeCount>>
    <3>1. CASE state = "CLOSED"
      BY <2>2, <3>1 DEF CheckExecution
    <3>2. CASE state = "OPEN"
      BY <2>2, <3>2 DEF CheckExecution
    <3>3. CASE state = "HALF_OPEN"
      <4>1. probeCount = 1
        BY <2>2, <3>3 DEF CheckExecution, Allows, CooledDown, ProbeInv, CountMatchesFlag
      <4>2. state' = state /\ probeCount' = probeCount + 1
        BY <2>2, <3>3 DEF CheckExecution
      <4>3. QED
        BY <3>3, <4>1, <4>2
    <3>4. QED
      BY <2>1, <3>1, <3>2, <3>3 DEF CircuitState
  <2>3. ASSUME RecordSuccess PROVE Gate!GateNext \/ UNCHANGED <<state, probeCount>>
    BY <2>3 DEF RecordSuccess
  <2>4. ASSUME RecordFailure PROVE Gate!GateNext \/ UNCHANGED <<state, probeCount>>
    BY <2>4 DEF RecordFailure, TripsOnFailure
  <2>5. ASSUME ResetBreaker PROVE Gate!GateNext \/ UNCHANGED <<state, probeCount>>
    BY <2>5 DEF ResetBreaker, Reset
  <2>6. ASSUME Tick \/ UNCHANGED breakerVars PROVE UNCHANGED <<state, probeCount>>
    BY <2>6 DEF Tick, breakerVars
  <2>7. \/ CheckExecution \/ RecordSuccess \/ RecordFailure \/ ResetBreaker
        \/ Tick \/ UNCHANGED breakerVars
    BY DEF Next, vars, Start, Turnedback, Admit, Reject, Succeed, Fail,
           FailureRecorded, TimePasses
  <2>8. QED
    BY <2>2, <2>3, <2>4, <2>5, <2>6, <2>7
<1>3. QED
  BY <1>1, <1>2, ProbeInvInit, ProbeInvStep, PTL
     DEF Spec, ImplementsGate, Gate!GateSpec, Gate!gateVars
=============================================================================
