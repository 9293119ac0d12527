----------------------------- MODULE MCTerminal -----------------------------
(***************************************************************************)
(* Terminal with three commands: trades that compete for the limits, a     *)
(* switch or a loss of the wallet, and an "exit" amid a trade.             *)
(***************************************************************************)
EXTENDS Terminal

CONSTANTS t1, t2, t3

Session(m, k1, k2, k3, keys) ==
  [mode |-> m, keyed |-> keys,
   kind |-> [c \in Commands |-> CASE c = t1 -> k1 [] c = t2 -> k2 [] OTHER -> k3]]

MCSessions ==
  {Session("live", "open", "open", "close", {})}
    \cup {Session("sim", "open", "open", k, {}) : k \in {"use", "exit"}}
    \cup {Session("agent", k, "close_all", "change", {}) : k \in {"open", "exit"}}
    \cup {Session("live", "open", "use", k, {}) : k \in {"disconnect", "exit"}}
    \cup {Session("agent", "close", "close", k, {}) : k \in {"close", "use"}}
    \cup {Session("live", "open", "use", "disconnect", keys) : keys \in {{t1}, {t2, t3}}}

MCLimits == [maxLoss |-> 1, maxTrades |-> 2]
=============================================================================
