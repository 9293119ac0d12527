------------------------- MODULE MCExecutionPipeline -------------------------
(***************************************************************************)
(* Small instances of ExecutionPipeline.  Two slots share a market and     *)
(* side, so that lock contention occurs; the others trade another one, and *)
(* cancellations take no lock, so that three executions can run at once.   *)
(***************************************************************************)
EXTENDS ExecutionPipeline

CONSTANTS open1, close1, cancel2, cancel3, reverse2, longSOL, shortETH

KeyOfTrades == [t \in Trades |-> IF t \in {open1, close1} THEN longSOL ELSE shortETH]
=============================================================================
