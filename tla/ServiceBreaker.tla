--------------------------- MODULE ServiceBreaker ---------------------------
(***************************************************************************)
(* The generic service circuit breaker (core/circuit-breaker-service.ts),  *)
(* as operators on one breaker's record:                                   *)
(*   state     "CLOSED", "OPEN" or "HALF_OPEN"                             *)
(*   failures  consecutiveFailures, saturating at the threshold            *)
(*   tripped   tripCount > 0: all that open() needs beside the cooldown    *)
(*   cooldown  currentCooldownMs, in ticks                                 *)
(*   wait      opensUntil - Date.now(), in ticks, at least 0               *)
(*   probes    history: requests allowed since the circuit half opened     *)
(* cfg is the breaker's configuration: threshold, base and cap.  Every     *)
(* service of the program uses cooldownMultiplier 2.                       *)
(***************************************************************************)
EXTENDS Naturals

Lesser(m, n) == IF m < n THEN m ELSE n

BreakerConfig(threshold, base, cap) ==
  [threshold |-> threshold, base |-> base, cap |-> cap]

BreakerRecord(cfg) ==
  [state : {"CLOSED", "OPEN", "HALF_OPEN"}, failures : 0..cfg.threshold,
   tripped : BOOLEAN, cooldown : cfg.base..cfg.cap, wait : 0..cfg.cap, probes : Nat]

NewBreaker(cfg) ==
  [state |-> "CLOSED", failures |-> 0, tripped |-> FALSE,
   cooldown |-> cfg.base, wait |-> 0, probes |-> 0]

\* Mutant: a half-open breaker lets every request through.
PermitsHalfOpen(b) == b.state # "OPEN" \/ b.wait = 0

\* allowRequest() returns true: while HALF_OPEN it does not.
Permits(b) == b.state = "CLOSED" \/ (b.state = "OPEN" /\ b.wait = 0)

\* allowRequest() when it returns true: an OPEN breaker half opens.  Every request let
\* through since then is counted.
AllowRequest(b) ==
  CASE b.state = "CLOSED" -> b
    [] b.state = "OPEN" -> [b EXCEPT !.state = "HALF_OPEN", !.probes = 1]
    [] b.state = "HALF_OPEN" -> [b EXCEPT !.probes = @ + 1]

\* Mutant: the doubled cooldown is not capped.
OpenedUncapped(cfg, b) ==
  LET cooldown == IF b.tripped THEN 2 * b.cooldown ELSE cfg.base
  IN  [b EXCEPT !.state = "OPEN", !.tripped = TRUE,
                !.cooldown = cooldown, !.wait = cooldown]

\* open(): the first trip waits the base cooldown, each later one twice the last.
Opened(cfg, b) ==
  LET cooldown == IF b.tripped THEN Lesser(2 * b.cooldown, cfg.cap) ELSE cfg.base
  IN  [b EXCEPT !.state = "OPEN", !.tripped = TRUE,
                !.cooldown = cooldown, !.wait = cooldown]

\* close()
Closed(cfg, b) ==
  [b EXCEPT !.state = "CLOSED", !.failures = 0, !.tripped = FALSE, !.cooldown = cfg.base]

\* recordSuccess(): only a half-open breaker closes.
RecordSuccess(cfg, b) ==
  IF b.state = "HALF_OPEN" THEN Closed(cfg, b) ELSE [b EXCEPT !.failures = 0]

\* recordFailure(): also in an OPEN breaker, where a late failure at or past the
\* threshold opens it again and doubles its cooldown.
RecordFailure(cfg, b) ==
  LET counted == [b EXCEPT !.failures = Lesser(b.failures + 1, cfg.threshold)]
  IN  IF b.state = "HALF_OPEN" \/ counted.failures >= cfg.threshold
      THEN Opened(cfg, counted) ELSE counted

\* One tick of the clock.
Cooled(b) == [b EXCEPT !.wait = IF b.wait > 0 THEN b.wait - 1 ELSE 0]
=============================================================================
