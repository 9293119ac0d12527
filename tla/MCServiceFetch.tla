--------------------------- MODULE MCServiceFetch ---------------------------
(***************************************************************************)
(* A small instance of ServiceFetch: two price requests and one direct     *)
(* request share the breaker of the Flash API, so that late results,       *)
(* nested refusals and retries during an open period all occur; one more   *)
(* caller reads analytics.                                                 *)
(***************************************************************************)
EXTENDS ServiceFetch

CONSTANTS flashApi, flashApiPrices, fstats, price1, price2, build1, stats1

MCConfig == [s \in Services |->
  IF s = fstats THEN BreakerConfig(1, 1, 1) ELSE BreakerConfig(2, 1, 2)]

MCServiceOf == [c \in Callers |-> IF c = stats1 THEN fstats ELSE flashApi]
=============================================================================
