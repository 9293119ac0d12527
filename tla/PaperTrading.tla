---------------------------- MODULE PaperTrading ----------------------------
(***************************************************************************)
(* SimulatedFlashClient (client/simulation.ts): the paper-trading account. *)
(* Every operation that changes the account runs inside withTradeLock, a   *)
(* chain of promises that lets one in at a time, first come first served;  *)
(* between its awaits prices move and other calls run.  Amounts are        *)
(* integers: a division rounds where the code's numbers do.                *)
(*                                                                         *)
(* A call's stage is                                                       *)
(*   "idle"      not made yet                                              *)
(*   "looking"   getPositions, awaiting its refreshPrices, without the lock*)
(*   "queued"    waiting for tradeLock                                     *)
(*   "scanning"  in checkTpSlTriggers                                      *)
(*   "pricing"   holding the lock, awaiting refreshPrices                  *)
(*   "charging"  holding the lock, awaiting getProtocolFeeRates            *)
(*   "done"      resolved or rejected                                      *)
(***************************************************************************)
EXTENDS Integers, Sequences, FiniteSetsExt

CONSTANTS
  Calls,             \* the calls made on the client
  Requests,          \* what each of them may ask for
  Markets,           \* the markets traded
  Prices,            \* the prices they may have
  Targets,           \* the take profits and stop losses a user may set
  InitialBalance,
  Slippage,          \* getSlippageBps, as an amount
  FeePercent,        \* fee rate
  MarginPercent,     \* maintenanceMarginRate + closeFeeRate
  Leverages,         \* those getLeverageLimits and getMaxLeverage allow
  Dust               \* a remainder below it is closed too

Sides == {"long", "short"}
None == 0   \* no price, no trigger
Positive == Nat \ {0}

\* What may be asked for: the rest is refused by the tools' schema, by validateTrade or
\* by the operation itself before it has an effect.
RequestRecords ==
  [op : {"open"}, market : Markets, side : Sides, collateral : Positive, leverage : Nat]
  \union [op : {"close"}, market : Markets, side : Sides, percent : 0..100, amount : Nat]
  \union [op : {"add", "remove"}, market : Markets, side : Sides, amount : Positive]
  \union [op : {"positions"}]

\* Slippage is a small part of any price.
ASSUME PaperAssumption ==
  /\ Prices \subseteq Positive /\ Targets \subseteq Positive /\ InitialBalance \in Nat
  /\ Slippage \in Nat /\ \A p \in Prices : Slippage < p
  /\ FeePercent \in Nat /\ MarginPercent \in Nat
  /\ Leverages \subseteq Positive /\ Dust \in Positive
  /\ \A c \in Calls : Requests[c] \subseteq RequestRecords

VARIABLES
  balance,      \* state.balance
  positions,    \* state.positions, in order
  realized,     \* state.totalRealizedPnl
  fees,         \* state.totalFeesPaid
  forgiven,     \* history: losses beyond what a close could take back
  price,        \* livePrices
  lock,         \* the calls in the chain of tradeLock: its head is inside
  stage,
  request,      \* the arguments of each call
  plan          \* the local variables a call keeps across an await

account == <<balance, positions, realized, fees, forgiven>>
paperVars == <<account, price, lock, stage, request, plan>>

Stages == {"idle", "looking", "queued", "scanning", "pricing", "charging", "done"}
NoPlan == [none |-> TRUE]

-----------------------------------------------------------------------------
Percent(rate, amount) == (rate * amount) \div 100
Greater(m, n) == IF m > n THEN m ELSE n

\* The entry price, moved against the trader.
FillPrice(side, p) == IF side = "long" THEN p + Slippage ELSE p - Slippage

\* Mutant: a position is looked up by its market and the price it was opened at.
MatchesEntry(market, side) == {i \in DOMAIN positions :
                                 /\ positions[i].market = market /\ positions[i].side = side
                                 /\ positions[i].entry = FillPrice(side, price[market])}

\* positions.find((p) => p.market === market && p.side === side)
Matches(market, side) == {i \in DOMAIN positions :
                            positions[i].market = market /\ positions[i].side = side}
Exists(market, side) == Matches(market, side) # {}
IndexOf(market, side) == Min(Matches(market, side))

Without(s, i) == SubSeq(s, 1, i - 1) \o SubSeq(s, i + 1, Len(s))

FullPnl(pos, p) ==
  LET gain == ((p - pos.entry) * pos.size) \div pos.entry
  IN  IF pos.side = "long" THEN gain ELSE -gain

\* computeSimulationLiquidationPrice: 0 also where the formula has no answer.
LiquidationPrice(side, entry, size, collateral) ==
  LET available == collateral - Percent(MarginPercent, size)
      move == (available * entry) \div size
  IN  IF available <= 0 THEN 0
      ELSE IF side = "long" THEN Greater(entry - move, 0) ELSE entry + move

-----------------------------------------------------------------------------
MoveTo(c, s) == stage' = [stage EXCEPT ![c] = s]
Inside(c) == lock # <<>> /\ Head(lock) = c

\* Mutant: the lock is not asked for.
HoldsUnchecked(c) == stage[c] = "queued"

\* await prev: every call before it in the chain has left.
Holds(c) == stage[c] = "queued" /\ Inside(c)

Place(c) == CHOOSE i \in DOMAIN lock : lock[i] = c

\* Mutant: a call that throws leaves the chain blocked.
LeaveOnSuccess(c, ok) ==
  MoveTo(c, "done") /\ lock' = IF ok THEN Without(lock, Place(c)) ELSE lock

\* The finally block of withTradeLock, whether fn returned (ok) or threw.
Leave(c, ok) == MoveTo(c, "done") /\ lock' = Without(lock, Place(c))

\* A call: getPositions refreshes the prices first, the others take their place.
Call(c) ==
  /\ stage[c] = "idle"
  /\ \E r \in Requests[c] : request' = [request EXCEPT ![c] = r]
  /\ IF request'[c].op = "positions"
       THEN MoveTo(c, "looking") /\ UNCHANGED lock
       ELSE MoveTo(c, "queued") /\ lock' = Append(lock, c)
  /\ UNCHANGED <<account, price, plan>>

\* refreshPrices: some market has moved, or got its first price, or none did.
Refreshed == price' = price \/ \E m \in Markets, p \in Prices : price' = [price EXCEPT ![m] = p]

Looked(c) ==
  /\ stage[c] = "looking"
  /\ Refreshed
  /\ MoveTo(c, "queued") /\ lock' = Append(lock, c)
  /\ UNCHANGED <<account, request, plan>>

\* The lock is granted: each operation but addCollateral refreshes the prices.
Enter(c) ==
  /\ Holds(c) /\ request[c].op # "add"
  /\ IF request[c].op = "positions"
       THEN MoveTo(c, "scanning") /\ plan' = [plan EXCEPT ![c] = [cursor |-> Len(positions)]]
       ELSE MoveTo(c, "pricing") /\ UNCHANGED plan
  /\ UNCHANGED <<account, price, lock, request>>

-----------------------------------------------------------------------------
\* _openPosition up to its second await.
PriceOpen(c) ==
  LET r == request[c]
  IN  IF /\ r.leverage \in Leverages /\ r.collateral <= balance
         /\ price'[r.market] # None
        THEN /\ plan' = [plan EXCEPT ![c] = [fill |-> FillPrice(r.side, price'[r.market]),
                                            size |-> r.collateral * r.leverage]]
             /\ MoveTo(c, "charging")
             /\ UNCHANGED lock
        ELSE Leave(c, FALSE) /\ UNCHANGED plan

\* _openPosition after the fee rates: refuse, or pay, then merge or append.
CommitOpen(c) ==
  LET r == request[c]
      o == plan[c]
      fee == Percent(FeePercent, o.size)
      opened == [market |-> r.market, side |-> r.side, entry |-> o.fill, size |-> o.size,
                 collateral |-> r.collateral, tp |-> None, sl |-> None]
      Merged(p) ==
        [p EXCEPT !.entry = (p.entry * p.size + o.fill * o.size) \div (p.size + o.size),
                  !.size = @ + o.size, !.collateral = @ + r.collateral]
      liquidation == LiquidationPrice(r.side, o.fill, o.size, r.collateral)
  IN  IF liquidation \in {0, o.fill} \/ r.collateral + fee > balance
        THEN Leave(c, FALSE) /\ UNCHANGED account
        ELSE /\ balance' = balance - (r.collateral + fee)
             /\ fees' = fees + fee
             /\ positions' = IF Exists(r.market, r.side)
                               THEN [positions EXCEPT ![IndexOf(r.market, r.side)] = Merged(@)]
                               ELSE Append(positions, opened)
             /\ Leave(c, TRUE)
             /\ UNCHANGED <<realized, forgiven>>

\* A fraction of 0.999 and above is taken for the whole.
NearlyAll(asked, size) == 1000 * asked >= 999 * size

\* _closePosition up to its second await: what to close and what it is worth.
\* A close asks for a share of the position, or for an amount of it.
PriceClose(c, market, side, percent, amount) ==
  LET i == IndexOf(market, side)
      pos == positions[i]
      asked == IF percent = 100 /\ amount > 0 THEN amount ELSE Percent(percent, pos.size)
      full == pos.size - asked < Dust \/ NearlyAll(asked, pos.size)
      Part(x) == IF full THEN x ELSE (x * asked) \div pos.size
  IN  IF Exists(market, side) /\ price'[market] # None /\ asked <= pos.size
        THEN /\ plan' = [plan EXCEPT ![c] =
                  [index |-> i, full |-> full, size |-> Part(pos.size),
                   collateral |-> Part(pos.collateral), pnl |-> Part(FullPnl(pos, price'[market])),
                   cursor |-> IF request[c].op = "positions" THEN plan[c].cursor ELSE 0]]
             /\ MoveTo(c, "charging")
             /\ UNCHANGED lock
        ELSE Leave(c, FALSE) /\ UNCHANGED plan

\* Mutant: a partial close gives back the whole collateral.
ReducedBy(pos, x) == [pos EXCEPT !.size = @ - x.size]

\* What a partial close leaves.
Reduced(pos, x) == [pos EXCEPT !.size = @ - x.size, !.collateral = @ - x.collateral]

\* Mutant: the balance is not kept from being charged more than the collateral.
ReturnUnfloored(x, fee) == x.collateral + x.pnl - fee

\* Math.max(returnAmount, 0)
Return(x, fee) == Greater(x.collateral + x.pnl - fee, 0)

\* _closePosition after the fee rates.
SettleClose(c) ==
  LET x == plan[c]
      fee == Percent(FeePercent, x.size)
  IN  /\ balance' = balance + Return(x, fee)
      /\ fees' = fees + fee
      /\ realized' = realized + x.pnl
      /\ forgiven' = forgiven + Greater(fee - x.collateral - x.pnl, 0)
      /\ positions' = IF x.full THEN Without(positions, x.index)
                      ELSE [positions EXCEPT ![x.index] = Reduced(@, x)]

\* _removeCollateral after the prices: refused where it would be liquidated.
Remove(c) ==
  LET r == request[c]
      i == IndexOf(r.market, r.side)
      pos == positions[i]
      rest == pos.collateral - r.amount
      now == IF price'[r.market] = None THEN pos.entry ELSE price'[r.market]
      liquidation == LiquidationPrice(r.side, pos.entry, pos.size, rest)
  IN  IF /\ Exists(r.market, r.side) /\ rest > 0
         /\ liquidation \notin {0, pos.entry}
         /\ IF r.side = "long" THEN liquidation < now ELSE liquidation > now
        THEN /\ positions' = [positions EXCEPT ![i].collateral = rest]
             /\ balance' = balance + r.amount
             /\ Leave(c, TRUE)
             /\ UNCHANGED <<realized, fees, forgiven>>
        ELSE Leave(c, FALSE) /\ UNCHANGED account

-----------------------------------------------------------------------------
\* The prices are there: each operation goes on to its next await or its end.
Priced(c) ==
  /\ stage[c] = "pricing"
  /\ Refreshed
  /\ UNCHANGED request
  /\ CASE request[c].op = "open" -> PriceOpen(c) /\ UNCHANGED account
       [] request[c].op = "close" ->
            /\ PriceClose(c, request[c].market, request[c].side,
                             request[c].percent, request[c].amount)
            /\ UNCHANGED account
       [] request[c].op = "positions" ->
            /\ PriceClose(c, plan[c].market, plan[c].side, 100, 0)
            /\ UNCHANGED account
       [] request[c].op = "remove" -> Remove(c) /\ UNCHANGED plan

\* The fee rates are there: the operation commits, and a scan goes on.
Charged(c) ==
  /\ stage[c] = "charging"
  /\ CASE request[c].op = "open" -> CommitOpen(c) /\ UNCHANGED plan
       [] request[c].op = "close" -> SettleClose(c) /\ Leave(c, TRUE) /\ UNCHANGED plan
       [] request[c].op = "positions" ->
            /\ SettleClose(c) /\ MoveTo(c, "scanning")
            /\ plan' = [plan EXCEPT ![c] = [cursor |-> plan[c].cursor]]
            /\ UNCHANGED lock
  /\ UNCHANGED <<price, request>>

\* _addCollateral awaits nothing but the lock.
Add(c) ==
  /\ Holds(c) /\ request[c].op = "add"
  /\ LET r == request[c]
     IN  IF r.amount <= balance /\ Exists(r.market, r.side)
           THEN /\ balance' = balance - r.amount
                /\ positions' = [positions EXCEPT ![IndexOf(r.market, r.side)].collateral = @ + r.amount]
                /\ Leave(c, TRUE)
                /\ UNCHANGED <<realized, fees, forgiven>>
           ELSE Leave(c, FALSE) /\ UNCHANGED account
  /\ UNCHANGED <<price, request, plan>>

\* The take profit or the stop loss of a position is hit at the current price.
Hit(pos) ==
  LET p == price[pos.market]
      Reached(target, above) == target # None /\ IF above THEN p >= target ELSE p <= target
  IN  /\ p # None
      /\ Reached(pos.tp, pos.side = "long") \/ Reached(pos.sl, pos.side = "short")

\* checkTpSlTriggers: from the end of the list to the next position that is hit,
\* which is closed by the unlocked _closePosition, or to the end of the scan.
Scan(c) ==
  /\ stage[c] = "scanning"
  /\ LET hits == {i \in DOMAIN positions : i <= plan[c].cursor /\ Hit(positions[i])}
     IN  IF hits = {} THEN Leave(c, TRUE) /\ UNCHANGED plan
         ELSE /\ LET i == Max(hits)
                 IN  plan' = [plan EXCEPT ![c] = [cursor |-> i - 1, market |-> positions[i].market,
                                                  side |-> positions[i].side]]
              /\ MoveTo(c, "pricing")
              /\ UNCHANGED lock
  /\ UNCHANGED <<account, price, request>>

\* setTpSl and removeTpSl do not take the lock.
SetTpSl(i, tp, sl) ==
  /\ positions' = [positions EXCEPT ![i].tp = IF tp = None THEN @ ELSE tp,
                                    ![i].sl = IF sl = None THEN @ ELSE sl]
  /\ UNCHANGED <<balance, realized, fees, forgiven, price, lock, stage, request, plan>>

RemoveTpSl(i) ==
  /\ positions' = [positions EXCEPT ![i].tp = None, ![i].sl = None]
  /\ UNCHANGED <<balance, realized, fees, forgiven, price, lock, stage, request, plan>>

-----------------------------------------------------------------------------
PaperInit ==
  /\ balance = InitialBalance /\ positions = <<>>
  /\ realized = 0 /\ fees = 0 /\ forgiven = 0
  /\ price = [m \in Markets |-> None]
  /\ lock = <<>>
  /\ stage = [c \in Calls |-> "idle"]
  /\ request = [c \in Calls |-> [op |-> "none"]]
  /\ plan = [c \in Calls |-> NoPlan]

\* What a call that was made does next.
Step(c) ==
  Looked(c) \/ Enter(c) \/ Priced(c) \/ Charged(c) \/ Add(c) \/ Scan(c)

PaperNext ==
  \/ \E c \in Calls : Call(c) \/ Step(c)
  \/ \E i \in DOMAIN positions : \/ \E tp, sl \in Targets \union {None} : SetTpSl(i, tp, sl)
                                 \/ RemoveTpSl(i)

PaperSpec == PaperInit /\ [][PaperNext]_paperVars

\* The fetches behind refreshPrices have timeouts, and the fee rates come from a
\* cache or from defaults: a call that was made goes on.
FairPaperSpec == PaperSpec /\ \A c \in Calls : WF_paperVars(Step(c))

-----------------------------------------------------------------------------
PaperTypeOK ==
  /\ balance \in Int /\ realized \in Int /\ fees \in Nat /\ forgiven \in Nat
  /\ price \in [Markets -> Prices \union {None}]
  /\ stage \in [Calls -> Stages]
  /\ \A i \in DOMAIN positions :
       /\ positions[i].market \in Markets /\ positions[i].side \in Sides
       /\ \A j \in DOMAIN positions :
            positions[i].market = positions[j].market /\ positions[i].side = positions[j].side => i = j

\* What the positions s hold together.
Pledged(s) ==
  LET upto[n \in 0..Len(s)] == IF n = 0 THEN 0 ELSE upto[n - 1] + s[n].collateral
  IN  upto[Len(s)]

\* No money is made or lost: through merges, partial closes, triggers and overlapping
\* calls, what is in the account is what was paid in, plus realized profit, minus
\* fees, plus the losses the floor of a close forgave (_openPosition, _closePosition).
Conservation ==
  balance + Pledged(positions) = InitialBalance + realized - fees + forgiven

\* The balance never goes below zero, and what is open has a size and collateral
\* (_openPosition's second check of the balance, Math.max, the dust rule).
Solvent ==
  /\ balance >= 0
  /\ \A i \in DOMAIN positions : positions[i].size > 0 /\ positions[i].collateral > 0

\* A close that was priced settles the position it was priced for: the index it
\* keeps across the await still names it (_closePosition).
PlanIsCurrent ==
  \A c \in Calls :
    stage[c] = "charging" /\ request[c].op = "close" =>
      /\ plan[c].index \in DOMAIN positions
      /\ positions[plan[c].index].market = request[c].market
      /\ positions[plan[c].index].side = request[c].side
      /\ plan[c].size <= positions[plan[c].index].size

\* One call is inside the lock at a time, and the chain holds exactly the calls that
\* wait for it or are inside, each once: whichever of them throw, none blocks the rest
\* (withTradeLock).
ChainKept ==
  /\ \A c \in Calls : stage[c] \in {"scanning", "pricing", "charging"} => Inside(c)
  /\ \A c \in Calls : stage[c] \in {"queued", "scanning", "pricing", "charging"}
                        <=> \E i \in DOMAIN lock : lock[i] = c
  /\ \A i, j \in DOMAIN lock : lock[i] = lock[j] => i = j

\* The positions without their triggers.
Holdings == [i \in DOMAIN positions |->
  <<positions[i].market, positions[i].side, positions[i].entry, positions[i].size,
    positions[i].collateral>>]

\* Only the call inside moves money and positions: beside it, setTpSl and removeTpSl
\* change triggers and nothing else (withTradeLock, setTpSl).
MovesInside ==
  [][\/ UNCHANGED <<balance, realized, fees, forgiven, Holdings>>
     \/ \E c \in Calls : Inside(c) /\ stage'[c] # stage[c]]_paperVars

\* Every call that was made ends, whichever of them throw, and the triggers close
\* positions from inside the lock without asking for it again (withTradeLock).
CallsEnd == \A c \in Calls : stage[c] # "idle" ~> stage[c] = "done"
=============================================================================
