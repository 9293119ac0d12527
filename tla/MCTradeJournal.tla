--------------------------- MODULE MCTradeJournal ---------------------------
(***************************************************************************)
(* Three trades, a journal of two entries and one crash: the third trade   *)
(* overflows the journal, and recovery meets entries of the session before *)
(* beside trades of its own.                                               *)
(***************************************************************************)
EXTENDS TradeJournal, TLC

CONSTANTS t1, t2, t3

MCTrades == {t1, t2, t3}
Symmetry == Permutations(MCTrades)
=============================================================================
