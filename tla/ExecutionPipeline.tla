-------------------------- MODULE ExecutionPipeline --------------------------
(***************************************************************************)
(* The trade executions of client/flash-client.ts: openPosition,           *)
(* closePosition, addCollateral, removeCollateral, cancelTriggerOrder and  *)
(* reversePosition.  Each is an asynchronous procedure; several run at the *)
(* same time, interleaved at their awaits, and share the trade locks       *)
(* (activeTrades) and the execution breaker.                               *)
(*                                                                         *)
(* A trade is a slot a caller uses again and again.  Its stage is          *)
(*   "idle"     not running                                                *)
(*   "gate"     lock taken; awaiting getPositions and checkApiHealth       *)
(*   "running"  let through by a CLOSED breaker; building, signing,        *)
(*              broadcasting and confirming                                *)
(*   "probing"  the same, let through by an OPEN or HALF_OPEN breaker      *)
(***************************************************************************)
EXTENDS ExecutionBreaker

CONSTANTS
  Trades,       \* slots for concurrent executions
  Keys,         \* market:side pairs
  KeyOf,        \* the key each slot trades
  Locking,      \* slots whose operation takes the trade lock (all but cancelTriggerOrder)
  Reversals,    \* slots that call reversePosition
  ManualReset   \* whether someone may call reset()

ASSUME PipelineAssumption ==
  /\ KeyOf \in [Trades -> Keys]
  /\ Locking \subseteq Trades /\ Reversals \subseteq Locking
  /\ ManualReset \in BOOLEAN

VARIABLES
  stage,          \* what each slot is doing
  activeTrades,   \* FlashClient.activeTrades: the keys locked
  activeTrading   \* LeaderRouter.activeTrading: polls slots fast while TRUE

tradeVars == <<stage, activeTrades, activeTrading>>
vars == <<breakerVars, tradeVars>>

Stages == {"idle", "gate", "running", "probing"}
Executing == {"running", "probing"}

-----------------------------------------------------------------------------
\* Mutant: the lock is set without asking who holds it.
AcquireTradeLockUnchecked(t) ==
  IF t \in Locking
    THEN activeTrades' = activeTrades \union {KeyOf[t]} /\ activeTrading' = TRUE
    ELSE UNCHANGED <<activeTrades, activeTrading>>

\* acquireTradeLock: refused while the key is held.
AcquireTradeLock(t) ==
  IF t \in Locking
    THEN /\ KeyOf[t] \notin activeTrades
         /\ activeTrades' = activeTrades \union {KeyOf[t]}
         /\ activeTrading' = TRUE
    ELSE UNCHANGED <<activeTrades, activeTrading>>

\* releaseTradeLock, run by the finally block on every way out.
ReleaseTradeLock(t) ==
  IF t \in Locking
    THEN /\ activeTrades' = activeTrades \ {KeyOf[t]}
         /\ activeTrading' = (activeTrading /\ activeTrades' # {})
    ELSE UNCHANGED <<activeTrades, activeTrading>>

MoveTo(t, s) == stage' = [stage EXCEPT ![t] = s]

\* A caller starts an execution.  A held lock throws and changes nothing.
Start(t) ==
  /\ stage[t] = "idle"
  /\ AcquireTradeLock(t)
  /\ MoveTo(t, "gate")
  /\ UNCHANGED breakerVars

\* There is no such position, or checkApiHealth rejects.  Neither is recorded.
Turnedback(t) ==
  /\ stage[t] = "gate"
  /\ ReleaseTradeLock(t)
  /\ MoveTo(t, "idle")
  /\ UNCHANGED breakerVars

\* checkCircuitBreaker() lets the execution through ...
Admit(t) ==
  /\ stage[t] = "gate"
  /\ CheckExecution
  /\ MoveTo(t, IF state = "CLOSED" THEN "running" ELSE "probing")
  /\ UNCHANGED <<activeTrades, activeTrading>>

\* Mutant: a refused execution leaves without its finally block.
RejectKeepingLock(t) ==
  stage[t] = "gate" /\ ~Allows /\ MoveTo(t, "idle")
  /\ UNCHANGED <<breakerVars, activeTrades, activeTrading>>

\* ... or throws.  It stands before the try block: nothing is recorded.
Reject(t) ==
  /\ stage[t] = "gate"
  /\ ~Allows
  /\ ReleaseTradeLock(t)
  /\ MoveTo(t, "idle")
  /\ UNCHANGED breakerVars

\* The transaction is confirmed: the result is recorded, then the lock released.
Succeed(t) ==
  /\ stage[t] \in Executing
  /\ RecordSuccess
  /\ ReleaseTradeLock(t)
  /\ MoveTo(t, "idle")

\* Mutant: the failure of a probe is not reported to the breaker.
ProbeFailureUnrecorded(t) ==
  IF t \in Reversals \/ stage[t] = "probing" THEN UNCHANGED breakerVars ELSE RecordFailure

\* Build, validation, signing, broadcast or confirmation failed.  Every execute*
\* method records it in its catch block; reversePosition has no catch block.
FailureRecorded(t) == IF t \in Reversals THEN UNCHANGED breakerVars ELSE RecordFailure

Fail(t) ==
  /\ stage[t] \in Executing
  /\ FailureRecorded(t)
  /\ ReleaseTradeLock(t)
  /\ MoveTo(t, "idle")

TimePasses == Tick /\ UNCHANGED tradeVars

ResetBreaker == ManualReset /\ Reset /\ UNCHANGED tradeVars

-----------------------------------------------------------------------------
Init ==
  /\ BreakerInit
  /\ stage = [t \in Trades |-> "idle"]
  /\ activeTrades = {}
  /\ activeTrading = FALSE

Next ==
  \/ \E t \in Trades : \/ Start(t) \/ Turnedback(t) \/ Admit(t)
                       \/ Reject(t) \/ Succeed(t) \/ Fail(t)
  \/ TimePasses
  \/ ResetBreaker

Spec == Init /\ [][Next]_vars

\* The clock runs, and every await of an execution has a timeout of its own
\* (fetch 8 s, health check 5 s, confirmation at most 90 s), so an execution
\* that has started ends.  Nobody is obliged to start one, or to reset.
Fairness ==
  /\ WF_vars(TimePasses)
  /\ \A t \in Trades : /\ WF_vars(Turnedback(t) \/ Admit(t) \/ Reject(t))
                       /\ WF_vars(Succeed(t) \/ Fail(t))

FairSpec == Spec /\ Fairness

-----------------------------------------------------------------------------
TypeOK ==
  /\ BreakerTypeOK
  /\ stage \in [Trades -> Stages]
  /\ activeTrades \subseteq Keys
  /\ activeTrading \in BOOLEAN

\* At most one locked operation per market and side is between its lock and its
\* release (acquireTradeLock, releaseTradeLock), and the leader router polls fast
\* exactly while one of any key is.
TradeMutex ==
  /\ \A t, u \in Locking :
       stage[t] # "idle" /\ stage[u] # "idle" /\ KeyOf[t] = KeyOf[u] => t = u
  /\ activeTrading <=> \E t \in Locking : stage[t] # "idle"

\* A half-open circuit lets through the execution that found the cooldown over
\* and one more, however many ask and in whatever order stale results of earlier
\* executions arrive (checkExecution, recordSuccess, recordFailure).
ProbeBudget == state = "HALF_OPEN" => probeCount <= 2

\* An overheated window is tolerated by a closed circuit only right after a
\* success: recordFailure never leaves the circuit closed above a threshold, and
\* closing after a probe forgives the window only until the next failure.
ClosedIsHealthy ==
  state = "CLOSED" =>
    /\ consecutiveFailures < ConsecutiveThreshold
    /\ Overheated(window) => window[Len(window)] = "ok"

\* The cooldown only shrinks when the circuit closes: a stale success that
\* arrives while it is OPEN, or a half-open failure, never shortens the wait.
BackoffKept == [][currentCooldown' < currentCooldown => state' = "CLOSED"]_vars

\* Every trade lock taken is released (the finally blocks).
LocksReleased == \A k \in Keys : k \in activeTrades ~> k \notin activeTrades

\* Execution is never refused for good: again and again there is a moment at
\* which checkExecution would let a caller through.
AdmissionsResume == []<>Allows

\* The breaker keeps the promise of ProbeGate for two probes: the call that half opens
\* the circuit does not raise the in-flight flag, so one more follows it, and never a
\* third (checkExecution, recordSuccess, recordFailure).
Gate == INSTANCE ProbeGate WITH MaxProbes <- 2, ManualClose <- ManualReset,
                                gate <- state, probes <- probeCount
ImplementsGate == Gate!GateSpec

\* What is documented of checkExecution: a half-open circuit lets exactly one probe
\* through.
DocumentedGate == INSTANCE ProbeGate WITH MaxProbes <- 1, ManualClose <- ManualReset,
                                          gate <- state, probes <- probeCount
SingleProbe == DocumentedGate!GateSpec
=============================================================================
