---------------------------- MODULE SigningGuard ----------------------------
(***************************************************************************)
(* The rate limit of the signing guard (security/signing-guard.ts) as      *)
(* operators on its state:                                                 *)
(*   waiting   less than minDelayBetweenTradesMs since lastSigningTime     *)
(*   slots     signingTimestamps of the last minute                        *)
(* cfg.delay: a minimum delay is configured; cfg.max: maxTradesPerMinute   *)
(* (0: no limit).  The cap of 100 timestamps is above every maximum.       *)
(***************************************************************************)
EXTENDS Naturals

NewGuard == [waiting |-> FALSE, slots |-> 0]

Guards == [waiting : BOOLEAN, slots : Nat]

\* checkRateLimit(): what it answers...
RateAllows(cfg, guard) ==
  /\ ~(cfg.delay /\ guard.waiting)
  /\ cfg.max > 0 => guard.slots < cfg.max

\* ... and the state it leaves when it answers yes: the slot is taken at once.
Reserve(guard) == [waiting |-> TRUE, slots |-> guard.slots + 1]

\* recordSigning()
RecordSigning(guard) == [guard EXCEPT !.waiting = TRUE]

\* Time passes.
DelayPassed(guard) == [guard EXCEPT !.waiting = FALSE]
SlotPassed(guard) == [guard EXCEPT !.slots = @ - 1]
=============================================================================
