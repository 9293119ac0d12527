------------------------------ MODULE Session -------------------------------
(***************************************************************************)
(* A session of the terminal trades in one of three ways, chosen at its    *)
(* start and locked until its end (cli/terminal.ts, tradingMode and        *)
(* modeLocked):                                                            *)
(*   "simulation"  on paper: PaperTrading                                  *)
(*   "live"        on chain, with a copy of the positions that passes keep *)
(*                 up to date: Reconciler                                  *)
(*   "magic"       on the ephemeral rollup: MagicTrade                     *)
(* What belongs to another mode is not touched: `magic' commands and the   *)
(* periodic passes are refused or never started outside their mode, and a  *)
(* trade on paper or on chain is refused in magic mode.                    *)
(***************************************************************************)
EXTENDS PaperTrading, Reconciler, MagicTrade

VARIABLE mode       \* config.tradingMode

sessionVars == <<mode, paperVars, reconcilerVars, magicVars>>

-----------------------------------------------------------------------------
\* showModeSelection(), or the mode an agent was started with.  What a mode does not
\* use starts in one way only.
SessionInit ==
  /\ mode \in {"simulation", "live", "magic"}
  /\ PaperInit /\ ReconcilerInit /\ MagicInit
  /\ mode # "live" => wallet = CHOOSE w \in Wallets : TRUE
  /\ mode # "magic" => conf = (CHOOSE f \in Configs : TRUE) /\ task = (CHOOSE t \in Tasks : TRUE)

OnPaper == mode = "simulation" /\ PaperNext /\ UNCHANGED <<mode, reconcilerVars, magicVars>>
OnChain == mode = "live" /\ ReconcilerNext /\ UNCHANGED <<mode, paperVars, magicVars>>
OnRollup == mode = "magic" /\ MagicNext /\ UNCHANGED <<mode, paperVars, reconcilerVars>>

SessionNext == OnPaper \/ OnChain \/ OnRollup

SessionSpec == SessionInit /\ [][SessionNext]_sessionVars

\* The fairness of each part, the timer of the periodic pass in a live session only.
FairSessionSpec ==
  /\ SessionSpec
  /\ \A c \in Calls : WF_paperVars(Step(c))
  /\ \A c \in Slots : WF_reconcilerVars(Answered(c))
  /\ WF_reconcilerVars(mode = "live" /\ \E c \in Slots : Reconcile(c))
=============================================================================
