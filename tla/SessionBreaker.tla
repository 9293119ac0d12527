--------------------------- MODULE SessionBreaker ---------------------------
(***************************************************************************)
(* The session circuit breaker (security/circuit-breaker.ts) as operators  *)
(* on its state:                                                           *)
(*   tripped   tripped: no trade until the process restarts                *)
(*   loss      sessionLossUsd, in units of loss                            *)
(*   trades    sessionTradeCount                                           *)
(* cfg holds the two maxima (0: not configured).  dailyLossUsd is a second *)
(* counter of the same losses with a maximum of its own that a new day     *)
(* sets back; reset() has no caller.                                       *)
(***************************************************************************)
EXTENDS Naturals

NewLimits == [tripped |-> FALSE, loss |-> 0, trades |-> 0]

SessionLimits == [tripped : BOOLEAN, loss : Nat, trades : Nat]

\* Mutant: the maximum itself is still allowed.
ReachedLate(cfg, limits) ==
  \/ cfg.maxLoss > 0 /\ limits.loss > cfg.maxLoss
  \/ cfg.maxTrades > 0 /\ limits.trades > cfg.maxTrades

\* One of the configured maxima is reached.
Reached(cfg, limits) ==
  \/ cfg.maxLoss > 0 /\ limits.loss >= cfg.maxLoss
  \/ cfg.maxTrades > 0 /\ limits.trades >= cfg.maxTrades

\* The state check() leaves; trading is allowed iff it is not tripped.
CheckLimits(cfg, limits) == [limits EXCEPT !.tripped = @ \/ Reached(cfg, limits)]

\* recordTrade(pnl): counted, and checked at once.
RecordTrade(cfg, limits, lost) ==
  CheckLimits(cfg, [limits EXCEPT !.trades = @ + 1, !.loss = @ + lost])

\* Mutant: an open is only counted when it is closed.
RecordOpenNever(cfg, limits) == limits

\* recordOpen(): only the number of trades can trip it here.
RecordOpen(cfg, limits) ==
  LET counted == [limits EXCEPT !.trades = @ + 1]
  IN  [counted EXCEPT !.tripped = @ \/ (cfg.maxTrades > 0 /\ counted.trades >= cfg.maxTrades)]
=============================================================================
