--------------------------- MODULE ExecutionBreaker ---------------------------
(***************************************************************************)
(* The execution circuit breaker (core/execution-circuit-breaker.ts): the  *)
(* singleton every trade execution consults before it builds, signs and    *)
(* broadcasts a transaction.  This module is the breaker alone: its state  *)
(* and one operator per method.  ExecutionPipeline drives it.              *)
(*                                                                         *)
(* Data abstractions.  A window entry is its outcome only.  consecutive-   *)
(* Failures is only ever compared with its threshold and tripCount with 1, *)
(* so both saturate there.  Date.now() - openedAt is `elapsed', counted in *)
(* ticks of an arbitrary length while the circuit is open.                 *)
(***************************************************************************)
EXTENDS Naturals, Sequences, FiniteSets

CONSTANTS
  WindowSize,             \* WINDOW_SIZE: results remembered
  MinSamples,             \* results needed before the rate counts (5 in the code)
  RateNum, RateDen,       \* FAILURE_RATE_THRESHOLD as a fraction
  ConsecutiveThreshold,   \* CONSECUTIVE_FAILURE_THRESHOLD
  Cooldown, MaxCooldown   \* COOLDOWN_MS and MAX_COOLDOWN_MS, in ticks

ASSUME BreakerAssumption ==
  /\ WindowSize \in Nat \ {0} /\ MinSamples \in Nat \ {0}
  /\ RateNum \in Nat \ {0} /\ RateDen \in Nat \ {0}
  /\ ConsecutiveThreshold \in Nat \ {0}
  /\ Cooldown \in Nat \ {0} /\ MaxCooldown \in Nat /\ Cooldown <= MaxCooldown

VARIABLES
  state,                  \* "CLOSED", "OPEN" or "HALF_OPEN"
  window,                 \* the last results, oldest first
  consecutiveFailures,    \* saturates at ConsecutiveThreshold
  tripCount,              \* saturates at 2
  currentCooldown,        \* currentCooldownMs
  elapsed,                \* time since openedAt, counted while OPEN
  halfOpenProbeInFlight,
  probeCount              \* history: executions allowed since the circuit half opened

breakerVars == <<state, window, consecutiveFailures, tripCount,
                 currentCooldown, elapsed, halfOpenProbeInFlight, probeCount>>

CircuitState == {"CLOSED", "OPEN", "HALF_OPEN"}
Result == {"ok", "fail"}

AtMost(n, cap) == IF n < cap THEN n ELSE cap

-----------------------------------------------------------------------------
\* Mutant: the window is never shifted.
PushResultUnshifted(w, r) == Append(w, r)

\* _pushResult: append, then shift out the oldest entry of an overfull window.
PushResult(w, r) ==
  IF Len(w) < WindowSize THEN Append(w, r) ELSE Tail(Append(w, r))

Failures(w) == Cardinality({i \in 1..Len(w) : w[i] = "fail"})

\* getFailureRate() > FAILURE_RATE_THRESHOLD, without the division.
RateExceeded(w) == RateDen * Failures(w) > RateNum * Len(w)

\* The rate only counts once enough results are in the window.
Overheated(w) == Len(w) >= MinSamples /\ RateExceeded(w)

\* COOLDOWN_MULTIPLIER is 1.5.  With a tick of 1.875 s the code's cooldowns
\* 30, 45, 67.5, 101.25 and 120 s are the integers 16, 24, 36, 54 and 64.
BackedOff(c) == AtMost((3 * c) \div 2, MaxCooldown)

-----------------------------------------------------------------------------
BreakerInit ==
  /\ state = "CLOSED"
  /\ window = <<>>
  /\ consecutiveFailures = 0
  /\ tripCount = 0
  /\ currentCooldown = Cooldown
  /\ elapsed = 0
  /\ halfOpenProbeInFlight = FALSE
  /\ probeCount = 0

\* Time passes; what it was before or after an open period is never read.
Tick ==
  /\ state = "OPEN" /\ elapsed < currentCooldown
  /\ elapsed' = elapsed + 1
  /\ UNCHANGED <<state, window, consecutiveFailures, tripCount,
                 currentCooldown, halfOpenProbeInFlight, probeCount>>

CooledDown == state = "OPEN" /\ elapsed >= currentCooldown

\* checkExecution would return rather than throw.
Allows == \/ state = "CLOSED"
          \/ CooledDown
          \/ state = "HALF_OPEN" /\ ~halfOpenProbeInFlight

\* checkExecution when it returns.  The call that finds the cooldown over half
\* opens the circuit and is let through without raising the in-flight flag.
CheckExecution ==
  /\ Allows
  /\ state' = IF state = "OPEN" THEN "HALF_OPEN" ELSE state
  /\ halfOpenProbeInFlight' = (halfOpenProbeInFlight \/ state = "HALF_OPEN")
  /\ probeCount' = CASE state = "CLOSED" -> probeCount
                     [] state = "OPEN" -> 1
                     [] state = "HALF_OPEN" -> probeCount + 1
  /\ UNCHANGED <<window, consecutiveFailures, tripCount, currentCooldown, elapsed>>

\* recordSuccess: any success closes a half-open circuit.
RecordSuccess ==
  /\ consecutiveFailures' = 0
  /\ window' = PushResult(window, "ok")
  /\ state' = IF state = "HALF_OPEN" THEN "CLOSED" ELSE state
  /\ halfOpenProbeInFlight' = (halfOpenProbeInFlight /\ state # "HALF_OPEN")
  /\ currentCooldown' = IF state = "HALF_OPEN" THEN Cooldown ELSE currentCooldown
  /\ UNCHANGED <<tripCount, elapsed, probeCount>>

\* recordFailure trips a half-open circuit at once, and a closed one on either
\* threshold; while OPEN it only counts.
TripsOnFailure ==
  \/ state = "HALF_OPEN"
  \/ /\ state = "CLOSED"
     /\ \/ consecutiveFailures + 1 >= ConsecutiveThreshold
        \/ Overheated(PushResult(window, "fail"))

\* Mutant: a failed probe frees the flag and leaves the circuit half open.
RecordFailureKeepsProbing ==
  /\ consecutiveFailures' = AtMost(consecutiveFailures + 1, ConsecutiveThreshold)
  /\ window' = PushResult(window, "fail")
  /\ halfOpenProbeInFlight' = FALSE
  /\ IF TripsOnFailure /\ state # "HALF_OPEN"
       THEN state' = "OPEN" /\ elapsed' = 0
       ELSE UNCHANGED <<state, elapsed>>
  /\ UNCHANGED <<tripCount, currentCooldown, probeCount>>

\* recordFailure with _trip: the cooldown grows from the second trip on.
RecordFailure ==
  /\ consecutiveFailures' = AtMost(consecutiveFailures + 1, ConsecutiveThreshold)
  /\ window' = PushResult(window, "fail")
  /\ halfOpenProbeInFlight' = (halfOpenProbeInFlight /\ state # "HALF_OPEN")
  /\ IF TripsOnFailure
       THEN /\ state' = "OPEN"
            /\ elapsed' = 0
            /\ tripCount' = AtMost(tripCount + 1, 2)
            /\ currentCooldown' = IF tripCount >= 1 THEN BackedOff(currentCooldown)
                                                    ELSE currentCooldown
       ELSE UNCHANGED <<state, elapsed, tripCount, currentCooldown>>
  /\ UNCHANGED probeCount

\* reset(): manual intervention.  openedAt and tripCount survive it.
Reset ==
  /\ state' = "CLOSED"
  /\ consecutiveFailures' = 0
  /\ currentCooldown' = Cooldown
  /\ halfOpenProbeInFlight' = FALSE
  /\ window' = <<>>
  /\ UNCHANGED <<tripCount, elapsed, probeCount>>

-----------------------------------------------------------------------------
BreakerTypeOK ==
  /\ state \in CircuitState
  /\ window \in Seq(Result) /\ Len(window) <= WindowSize
  /\ consecutiveFailures \in 0..ConsecutiveThreshold
  /\ tripCount \in 0..2
  /\ currentCooldown \in Cooldown..MaxCooldown
  /\ elapsed \in 0..MaxCooldown
  /\ halfOpenProbeInFlight \in BOOLEAN
  /\ probeCount \in Nat
=============================================================================
