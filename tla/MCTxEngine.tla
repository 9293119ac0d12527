----------------------------- MODULE MCTxEngine -----------------------------
(***************************************************************************)
(* Two submissions through the engine and one without it.  Two attempts    *)
(* are enough for late detection, late landing and exhaustion.             *)
(***************************************************************************)
EXTENDS TxEngine

CONSTANTS engine1, engine2, direct1
=============================================================================
