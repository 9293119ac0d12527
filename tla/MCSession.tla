----------------------------- MODULE MCSession ------------------------------
(***************************************************************************)
(* Sessions of each mode.                                                  *)
(*                                                                         *)
(* On paper, four calls on one market: two opens that may merge or trade   *)
(* opposite sides, a change of the first position, and a getPositions that *)
(* may find triggers hit.                                                  *)
(*                                                                         *)
(* On chain, two overlapping calls, two wallets, two positions and one     *)
(* corrupt entry.  One wallet has a position open, the other none, so that *)
(* a late answer for the one leaves positions behind that the other never  *)
(* had.                                                                    *)
(*                                                                         *)
(* On the rollup, two commands: repeated trades, opens that differ in      *)
(* their numbers or in their token only, reversals, resizing and orders.   *)
(***************************************************************************)
EXTENDS Session

CONSTANTS open1, open2, change, look, SOL

Buy(side, collateral, leverage) ==
  [op |-> "open", market |-> SOL, side |-> side, collateral |-> collateral, leverage |-> leverage]
Sell(side, percent, amount) ==
  [op |-> "close", market |-> SOL, side |-> side, percent |-> percent, amount |-> amount]

MCRequests == [c \in Calls |->
  CASE c = open1 -> {Buy("long", 4, 2)}
    [] c = open2 -> {Buy("long", 3, 2), Buy("short", 3, 3)}
    [] c = change -> {Sell("long", 100, 0), Sell("long", 50, 0), Sell("long", 100, 7),
                      [op |-> "add", market |-> SOL, side |-> "long", amount |-> 2],
                      [op |-> "remove", market |-> SOL, side |-> "long", amount |-> 1]}
    [] c = look -> {[op |-> "positions"]}]

-----------------------------------------------------------------------------
CONSTANTS call1, call2, main, other, longSOL, shortBTC, garbled

MCOpen == [w \in Wallets |-> IF w = main THEN {longSOL} ELSE {}]

-----------------------------------------------------------------------------
CONSTANTS c1, c2, small, large, usdc, sol

Do(op, side, args) == [op |-> op, side |-> side, args |-> args, token |-> usdc]

Both(p1, p2) == [c \in Commands |-> IF c = c1 THEN p1 ELSE p2]

OpenLong == Do("open", "long", small)
ReverseLong == Do("reverse", "long", small)

MCTasks ==
  {Both(OpenLong, OpenLong),
   Both(OpenLong, Do("open", "long", large)),
   Both(OpenLong, [OpenLong EXCEPT !.token = sol]),
   Both(ReverseLong, Do("close", "long", large)),
   Both(ReverseLong, Do("open", "short", small)),
   Both(Do("add", "long", small), Do("remove", "long", small)),
   Both(Do("increase", "long", small), Do("decrease", "long", small)),
   Both(Do("order", "long", Nothing), OpenLong)}

Conf(fast, delay) == [fast |-> fast, delay |-> delay, max |-> 2]

MCConfigs == {Conf(TRUE, TRUE), Conf(TRUE, FALSE), Conf(FALSE, FALSE)}
=============================================================================
