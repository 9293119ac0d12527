----------------------------- MODULE MagicTrade -----------------------------
(***************************************************************************)
(* Trades on the ephemeral rollup (client/magic-client.ts, called through  *)
(* tools/magic-tools.ts by one terminal command at a time): the rate       *)
(* limit, the trade locks, the signatures kept for a minute so that a      *)
(* repeated trade is not sent again, one retry when the blockhash was too  *)
(* old, and two ways to send: fast (the signature is the result, whatever  *)
(* becomes of the transaction) and confirmed.                              *)
(*                                                                         *)
(* One market; prices, quotes and amounts are left out.  phase[c]:         *)
(*   "new"                                                                 *)
(*   "pricing"    awaits the oracle price                                  *)
(*   "building"   awaits the SDK's instructions                            *)
(*   "sending"    the transaction is out, no answer yet                    *)
(*   "second"     a reversal has closed and is about to open               *)
(*   "done"       reported as done                                         *)
(*   "failed"     reported as failed, or cut off by the end of the process *)
(***************************************************************************)
EXTENDS SigningGuard, FiniteSets

CONSTANTS
  Commands, Tasks, Configs, Nothing,
  Args,       \* amounts and leverages, as the numbers a command gives
  Tokens,     \* what an amount is counted in, or paid out in ...
  Default     \* ... unless the command says otherwise: USDC

Directions == {"long", "short"}
Deduped == {"open", "close", "add", "remove"}
Resizing == {"increase", "decrease"}
Orders == {"order"}         \* triggers, limit orders, cancellations, liquidations
Operations == [op : Deduped \cup Resizing \cup Orders \cup {"reverse"},
               side : Directions, args : Args \cup {Nothing}, token : Tokens]

\* The transactions of a command, by leg and try.
Txs == Commands \X {1, 2} \X {1, 2}

MagicAssumption ==
  /\ Tasks \subseteq [Commands -> Operations]
  /\ Configs \subseteq [fast : BOOLEAN, delay : BOOLEAN, max : Nat]
  /\ Nothing \notin Commands \cup Txs /\ Default \in Tokens

ASSUME MagicAssumption

VARIABLES conf, task,   \* fixed for a session
          running,      \* the command in progress, or Nothing
          phase,
          leg,          \* 2 in the opening half of a reversal
          try,          \* 2 after a blockhash that was too old
          locks,        \* activeTrades
          recent,       \* recentTrades: [key, tx]
          guard,
          tx,           \* the transactions, by command, leg and try
          report,       \* the transaction whose signature was reported for a leg
          forgotten     \* transactions that recentTrades has forgotten

session == <<conf, task>>
progress == <<running, phase, leg, try>>
memory == <<locks, recent, guard, forgotten>>
magicVars == <<session, progress, memory, tx, report>>

Keys == [op : Deduped, side : Directions, args : Args \cup {Nothing}]

MagicTypeOK ==
  /\ conf \in Configs /\ task \in Tasks
  /\ running \in Commands \cup {Nothing}
  /\ phase \in [Commands -> {"new", "pricing", "building", "sending", "second", "done", "failed"}]
  /\ leg \in [Commands -> {1, 2}] /\ try \in [Commands -> {1, 2}]
  /\ locks \subseteq Directions
  /\ recent \subseteq [key : Keys, tx : Txs]
  /\ guard \in Guards
  /\ tx \in [Txs -> {"none", "pending", "landed", "dropped"}]
  /\ report \in [Commands \X {1, 2} -> Txs \cup {Nothing}]
  /\ forgotten \subseteq Txs

MagicInit ==
  /\ conf \in Configs /\ task \in Tasks
  /\ running = Nothing /\ phase = [c \in Commands |-> "new"]
  /\ leg = [c \in Commands |-> 1] /\ try = [c \in Commands |-> 1]
  /\ locks = {} /\ recent = {} /\ guard = NewGuard /\ forgotten = {}
  /\ tx = [t \in Txs |-> "none"]
  /\ report = [r \in Commands \X {1, 2} |-> Nothing]

-----------------------------------------------------------------------------
\* What a command does

Opposite(side) == IF side = "long" THEN "short" ELSE "long"

\* The operation of a leg: flipPosition() closes and opens the other side, without
\* naming a token.
LegOf(c, n) ==
  IF task[c].op # "reverse" THEN task[c]
  ELSE IF n = 1
    THEN [op |-> "close", side |-> task[c].side, args |-> Nothing, token |-> Default]
    ELSE [op |-> "open", side |-> Opposite(task[c].side), args |-> task[c].args,
          token |-> Default]

Leg(c) == LegOf(c, leg[c])

\* Mutant: a key without the operation.
KeyOfSide(operation) == [op |-> "close", side |-> operation.side, args |-> Nothing]

\* cacheKey: the numbers of a command but for a close, which has none that count, and
\* never the token: neither the one a close pays out nor the one an open pays in.
KeyOf(operation) ==
  [op |-> operation.op, side |-> operation.side,
   args |-> IF operation.op = "close" THEN Nothing ELSE operation.args]

\* Mutant: nothing is ever found.
RecentNever(operation) == {}

\* checkRecentTrade()
Recent(operation) ==
  {r \in recent : operation.op \in Deduped /\ r.key = KeyOf(operation)}

\* Mutant: every operation is remembered, under a key of its own.
RememberEvery(operation, t) ==
  recent' = {r \in recent : r.key # KeyOf(operation)} \cup {[key |-> KeyOf(operation), tx |-> t]}

\* recordRecentTrade(): one signature per key.
Remember(operation, t) ==
  recent' = IF operation.op \in Deduped
            THEN {r \in recent : r.key # KeyOf(operation)} \cup {[key |-> KeyOf(operation), tx |-> t]}
            ELSE recent

Guarded(operation) == operation.op \notin Orders

-----------------------------------------------------------------------------
\* The end of a command or of a leg

Finish(c, how) == phase' = [phase EXCEPT ![c] = how] /\ running' = Nothing

Unlock(c) == locks' = IF Guarded(Leg(c)) THEN locks \ {Leg(c).side} ELSE locks

Failed(c) ==
  /\ Finish(c, "failed") /\ Unlock(c)
  /\ UNCHANGED <<session, leg, try, recent, guard, forgotten, report>>

\* The leg has the signature of t; a reversal goes on with its second leg.
Reported(c, t) ==
  /\ report' = [report EXCEPT ![<<c, leg[c]>>] = t]
  /\ IF task[c].op = "reverse" /\ leg[c] = 1
     THEN /\ phase' = [phase EXCEPT ![c] = "second"]
          /\ leg' = [leg EXCEPT ![c] = 2] /\ try' = [try EXCEPT ![c] = 1]
          /\ running' = c
     ELSE Finish(c, "done") /\ UNCHANGED <<leg, try>>

-----------------------------------------------------------------------------
\* Steps of a command

\* Rate limit, lock and recent signatures, without an await between them.  The
\* slot of the rate limit is taken although the lock refuses.  `valid` stands for
\* a known market and trade limits that are kept.
Admit(c, valid) ==
  LET operation == Leg(c)
      allowed == valid /\ RateAllows(conf, guard)
  IN  /\ guard' = IF allowed THEN Reserve(guard) ELSE guard
      /\ IF ~allowed \/ operation.side \in locks
         THEN Finish(c, "failed") /\ UNCHANGED <<leg, try, locks, report>>
         ELSE IF Recent(operation) # {}
              THEN /\ \E r \in Recent(operation) : Reported(c, r.tx)
                   /\ UNCHANGED locks
              ELSE /\ phase' = [phase EXCEPT ![c] = "building"] /\ running' = c
                   /\ locks' = locks \cup {operation.side}
                   /\ UNCHANGED <<leg, try, report>>
      /\ UNCHANGED <<session, recent, forgotten, tx>>

\* The operations that ask the rate limit in the turn in which they are called.
OpenPosition(c) == task[c].op = "open" /\ \E valid \in BOOLEAN : Admit(c, valid)
ClosePosition(c) == task[c].op = "close" /\ \E valid \in BOOLEAN : Admit(c, valid)
AddCollateral(c) == task[c].op = "add" /\ \E valid \in BOOLEAN : Admit(c, valid)
RemoveCollateral(c) == task[c].op = "remove" /\ \E valid \in BOOLEAN : Admit(c, valid)

\* A reversal calls closePosition() first.
FlipPosition(c) == task[c].op = "reverse" /\ \E valid \in BOOLEAN : Admit(c, valid)

\* Resizing looks up the price before anything else.
AwaitPrice(c) ==
  /\ running' = c /\ phase' = [phase EXCEPT ![c] = "pricing"]
  /\ UNCHANGED <<session, leg, try, memory, tx, report>>

DecreasePosition(c) == task[c].op = "decrease" /\ AwaitPrice(c)
IncreasePosition(c) == task[c].op = "increase" /\ AwaitPrice(c)
Resize(c) == DecreasePosition(c) \/ IncreasePosition(c)

\* An order command goes through no rate limit and takes no lock.
PlaceOrder(c) ==
  /\ task[c].op \in Orders
  /\ running' = c /\ phase' = [phase EXCEPT ![c] = "building"]
  /\ UNCHANGED <<session, leg, try, memory, tx, report>>

\* The tool of a command calls the client, one command at a time.
Start(c) ==
  /\ running = Nothing /\ phase[c] = "new"
  /\ \/ OpenPosition(c) \/ ClosePosition(c) \/ AddCollateral(c) \/ RemoveCollateral(c)
     \/ FlipPosition(c) \/ Resize(c) \/ PlaceOrder(c)

QuotePriced(c) == phase[c] = "pricing" /\ \E valid \in BOOLEAN : Admit(c, valid)

\* openPosition() of a reversal runs in the same turn as the end of the close.
Second(c) == phase[c] = "second" /\ \E valid \in BOOLEAN : Admit(c, valid)

Build(c) ==
  /\ phase[c] = "building"
  /\ \/ /\ phase' = [phase EXCEPT ![c] = "sending"]
        /\ tx' = [tx EXCEPT ![<<c, leg[c], try[c]>>] = "pending"]
        /\ UNCHANGED <<session, running, leg, try, memory, report>>
     \/ Failed(c) /\ UNCHANGED tx

\* Mutant: every error is taken for an old blockhash.
RetryAnyError(c) ==
  /\ phase[c] = "sending" /\ try[c] = 1
  /\ tx' = [tx EXCEPT ![<<c, leg[c], 2>>] = "pending"]
  /\ try' = [try EXCEPT ![c] = 2]
  /\ UNCHANGED <<session, running, phase, leg, memory, report>>

\* "Blockhash not found": the transaction was refused, the cached blockhash is
\* dropped and the second, last attempt is sent.
SendAgain(c) ==
  /\ phase[c] = "sending" /\ try[c] = 1
  /\ tx[<<c, leg[c], 1>>] = "pending"
  /\ tx' = [tx EXCEPT ![<<c, leg[c], 1>>] = "dropped", ![<<c, leg[c], 2>>] = "pending"]
  /\ try' = [try EXCEPT ![c] = 2]
  /\ UNCHANGED <<session, running, phase, leg, memory, report>>

\* Refused, or no answer about a transaction that may land all the same; sent with
\* confirmation, also failed on chain or not confirmed within ten seconds.
Refused(c) ==
  /\ phase[c] = "sending"
  /\ \/ UNCHANGED tx
     \/ /\ tx[<<c, leg[c], try[c]>>] = "pending"
        /\ tx' = [tx EXCEPT ![<<c, leg[c], try[c]>>] = "dropped"]
  /\ Failed(c)

\* The signature is recorded; fast, nobody has looked whether it landed.
Signed(c) ==
  LET t == <<c, leg[c], try[c]>>
  IN  /\ phase[c] = "sending"
      /\ conf.fast \/ tx[t] = "landed"
      /\ Remember(Leg(c), t)
      /\ guard' = IF Guarded(Leg(c)) THEN RecordSigning(guard) ELSE guard
      /\ Unlock(c) /\ Reported(c, t)
      /\ UNCHANGED <<session, forgotten, tx>>

Advance(c) == QuotePriced(c) \/ Second(c) \/ Build(c) \/ SendAgain(c) \/ Refused(c) \/ Signed(c)

-----------------------------------------------------------------------------
\* Around the commands

\* External: a transaction that was sent is executed, or fails or gets lost.
Outcome(t) ==
  /\ tx[t] = "pending"
  /\ \E outcome \in {"landed", "dropped"} : tx' = [tx EXCEPT ![t] = outcome]
  /\ UNCHANGED <<session, progress, memory, report>>

\* No time passes between the two legs of a reversal.
TimePasses ==
  /\ \A c \in Commands : phase[c] # "second"
  /\ \/ guard.waiting /\ guard' = DelayPassed(guard) /\ UNCHANGED <<recent, forgotten>>
     \/ guard.slots > 0 /\ guard' = SlotPassed(guard) /\ UNCHANGED <<recent, forgotten>>
     \/ \E r \in recent :
          /\ recent' = recent \ {r} /\ forgotten' = forgotten \cup {r.tx}
          /\ UNCHANGED guard
  /\ UNCHANGED <<session, progress, locks, tx, report>>

\* buildMagicClient() for another wallet and back: a new client, the same guard.
Replace ==
  /\ running = Nothing /\ recent # {}
  /\ recent' = {} /\ forgotten' = forgotten \cup {r.tx : r \in recent}
  /\ UNCHANGED <<session, progress, locks, guard, tx, report>>

\* The process ends and is started again.
Restart ==
  /\ running # Nothing
  /\ phase' = [phase EXCEPT ![running] = "failed"] /\ running' = Nothing
  /\ locks' = {} /\ guard' = NewGuard
  /\ recent' = {} /\ forgotten' = forgotten \cup {r.tx : r \in recent}
  /\ UNCHANGED <<session, leg, try, tx, report>>

MagicNext ==
  \/ \E c \in Commands : Start(c) \/ Advance(c)
  \/ \E t \in Txs : Outcome(t)
  \/ TimePasses \/ Replace \/ Restart

MagicSpec == MagicInit /\ [][MagicNext]_magicVars

-----------------------------------------------------------------------------
\* Properties

\* The same trade but for its token.
Alike(o, p) == o.op = p.op /\ o.side = p.side /\ (o.op # "close" => o.args = p.args)

Alive(t) == tx[t] \in {"pending", "landed"}

\* A trade is executed at most once, its retry included (sendErIxs(), which retries
\* only what was refused).
EffectOnce == \A c \in Commands, n \in {1, 2} : ~(Alive(<<c, n, 1>>) /\ Alive(<<c, n, 2>>))

\* A signature that is reported belongs to a transaction that was sent for the same
\* operation on the same side with the same numbers, of whatever token: an open of one
\* USDC may be reported for an open of one SOL (recentTrades and its keys).
SignatureMatches ==
  \A c \in Commands, n \in {1, 2} :
    LET t == report[<<c, n>>]
    IN  t # Nothing => tx[t] # "none" /\ Alike(LegOf(t[1], t[2]), LegOf(c, n))

OwnReported == {t \in Txs : report[<<t[1], t[2]>>] = t}

\* Of the deduplicated trades whose signature is known and not forgotten, no two are
\* alike: a repeated one is not sent (checkRecentTrade() under the lock).
SentOnceAMinute ==
  \A t, u \in OwnReported \ forgotten :
    LET operation == LegOf(t[1], t[2])
    IN  t # u /\ operation.op \in Deduped => ~Alike(operation, LegOf(u[1], u[2]))

\* A lock is held for the leg in progress only, on every way out.
LocksReleased ==
  locks = IF running # Nothing /\ phase[running] \in {"building", "sending"} /\ Guarded(Leg(running))
          THEN {Leg(running).side} ELSE {}
=============================================================================
