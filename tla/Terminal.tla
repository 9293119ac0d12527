------------------------------ MODULE Terminal ------------------------------
(***************************************************************************)
(* The terminal's dialogue (cli/terminal.ts) around trades: lines typed by *)
(* the user, one command at a time, questions with a deadline, commands    *)
(* given up on after two minutes whose execution goes on, the wallet, and  *)
(* the limits the trade tools ask before and tell after a trade.           *)
(*                                                                         *)
(* mode is fixed for a session: "live" (a person, real trades), "sim" (a   *)
(* person, paper trades), "agent" (NO_DNA: never asks).  stage[c] is where *)
(* command c awaits:                                                       *)
(*   "new"         not typed yet                                           *)
(*   "parsing"     interpreter, RPC health, position look-up               *)
(*   "query"       asks "Execute?" or "Continue anyway?"                   *)
(*   "cleared"     about to be dispatched to its tool                      *)
(*   "exposure"    flash_open_position awaits the open positions           *)
(*   "fees"        the tool awaits fee rates or the position preview       *)
(*   "summary"     asks for consent, the summary on the screen             *)
(*   "agreed"      consented, yields once before executeAction             *)
(*   "executing"   executeAction builds, nothing is signed                 *)
(*   "sent"        signed and sent, not answered                           *)
(*   "rebuilding"  a wallet was connected, the client is being replaced    *)
(*   "leaving"     asks "Exit Flash Terminal?"                             *)
(*   "ending"      has its result, `processing` still up                   *)
(*   "over"                                                                *)
(***************************************************************************)
EXTENDS SessionBreaker, FiniteSets

CONSTANTS Commands,     \* the lines of a session that are commands; each is typed once
          Sessions,     \* what the commands of a session are
          Wallets,
          Home,         \* the wallet of the session's start
          Registered,   \* wallets the wallet store knows by name
          MaxExposure, Limits,
          None

Kinds == {"open", "close", "close_all", "change", "use", "disconnect", "exit"}
Modes == {"live", "sim", "agent"}
Stages == {"new", "parsing", "query", "cleared", "exposure", "fees", "summary",
           "agreed", "executing", "sent", "rebuilding", "leaving", "ending", "over"}

TerminalAssumption ==
  /\ Sessions \subseteq [mode : Modes, kind : [Commands -> Kinds], keyed : SUBSET Commands]
  /\ Home \in Wallets
  /\ Registered \subseteq Wallets
  /\ None \notin Wallets \cup Commands
  /\ MaxExposure \in Nat
  /\ Limits \in [maxLoss : Nat, maxTrades : Nat]

ASSUME TerminalAssumption

VARIABLES mode,
          kind,         \* what each command does
          keyed,        \* the commands typed with --key
          alive,        \* the process runs
          running,      \* the command that holds `processing`, or None
          stage,
          pending,      \* whose callback is in pendingConfirmation, or None
          buffer,       \* bufferedLine: "none", "yes" or "no" (any other line)
          manager,      \* the wallet whose keypair the wallet manager holds, or None
          shown,        \* context.walletAddress, or None
          signer,       \* the wallet context.flashClient was built with
          restore,      \* walletRestoreData of the running command, or None
          misbuilt,     \* history: a client could not be rebuilt for its wallet
          summary,      \* the wallet a command's summary shows, while it matters
          client,       \* the wallet of the client a command executes with
          limits,       \* the session breaker
          positions,    \* the opens with a position on chain
          abandoned,    \* commands given up on while executing
          blind,        \* commands executed on a "yes" typed before their question
          misled,       \* opens let through on an answer that showed too few positions
          unconfirmed,  \* opens reported as failed that may still land
          late,         \* opens that landed after they were reported as failed
          traded,       \* opens and closes that were reported as done
          losing        \* closes that were reported with a loss

session == <<mode, kind, keyed>>
question == <<pending, buffer>>
wallet == <<manager, shown, signer, restore, misbuilt>>
consent == <<summary, client, blind>>
account == <<limits, positions, unconfirmed, late, abandoned, misled, traded, losing>>
vars == <<session, alive, running, stage, question, wallet, consent, account>>

Executing == {"executing", "sent"}
Person == mode # "agent"

TypeOK ==
  /\ [mode |-> mode, kind |-> kind, keyed |-> keyed] \in Sessions
  /\ alive \in BOOLEAN
  /\ running \in Commands \cup {None}
  /\ stage \in [Commands -> Stages]
  /\ pending \in Commands \cup {None}
  /\ buffer \in {"none", "yes", "no"}
  /\ manager \in Wallets \cup {None}
  /\ shown \in Wallets \cup {None}
  /\ signer \in Wallets
  /\ restore \in {None} \cup [wallet : Wallets \cup {None}]
  /\ misbuilt \in BOOLEAN
  /\ summary \in [Commands -> Wallets \cup {None}]
  /\ client \in [Commands -> Wallets \cup {None}]
  /\ limits \in SessionLimits
  /\ positions \subseteq Commands
  /\ {abandoned, blind, misled, unconfirmed, late, traded, losing} \subseteq SUBSET Commands

Init ==
  /\ \E s \in Sessions : mode = s.mode /\ kind = s.kind /\ keyed = s.keyed
  /\ alive = TRUE
  /\ running = None /\ stage = [c \in Commands |-> "new"]
  /\ pending = None /\ buffer = "none"
  /\ manager = Home /\ shown = Home /\ signer = Home /\ restore = None
  /\ misbuilt = FALSE
  /\ summary = [c \in Commands |-> None] /\ client = [c \in Commands |-> None]
  /\ limits = NewLimits /\ positions = {}
  /\ abandoned = {} /\ blind = {} /\ misled = {} /\ unconfirmed = {} /\ late = {}
  /\ traded = {} /\ losing = {}

-----------------------------------------------------------------------------
\* Helpers

Goes(c, to) == stage' = [stage EXCEPT ![c] = to]

Asking == {"query", "summary", "leaving"}

\* What the answer to a command's question leads to.  "exit" does not hold
\* `processing`, so a refused one is over.
After(c, yes) ==
  CASE stage[c] = "query" -> IF yes THEN "cleared" ELSE "ending"
    [] stage[c] = "summary" -> IF yes THEN "agreed" ELSE "ending"
    [] OTHER -> "over"

\* Mutant: confirm() takes a line typed ahead in live mode, too.
AskTakesBuffer(c, where) ==
  IF buffer # "none"
  THEN /\ Goes(c, IF buffer = "no" THEN "ending" ELSE IF where = "query" THEN "cleared" ELSE "agreed")
       /\ blind' = IF buffer = "yes" THEN blind \cup {c} ELSE blind
       /\ buffer' = "none" /\ UNCHANGED pending
  ELSE Goes(c, where) /\ pending' = c /\ UNCHANGED <<buffer, blind>>

\* confirm(): a line typed ahead is the answer in simulation mode and is
\* discarded in live mode.  The callback replaces the one of any other question.
Ask(c, where) ==
  IF buffer # "none" /\ mode = "sim"
  THEN /\ Goes(c, IF buffer = "no" THEN "ending" ELSE IF where = "query" THEN "cleared" ELSE "agreed")
       /\ blind' = IF buffer = "yes" THEN blind \cup {c} ELSE blind
       /\ buffer' = "none" /\ UNCHANGED pending
  ELSE Goes(c, where) /\ pending' = c /\ buffer' = "none" /\ UNCHANGED blind

\* restoreWallet(): a wallet connected by its path is not reloaded.
RestoreWallet ==
  /\ restore' = None
  /\ shown' = IF restore = None THEN shown ELSE restore.wallet
  /\ manager' = IF restore # None /\ restore.wallet \in Registered THEN restore.wallet ELSE manager
  /\ UNCHANGED <<signer, misbuilt>>

\* The `finally` of the line handler.
Release == running' = None /\ buffer' = "none"

-----------------------------------------------------------------------------
\* Lines typed by the user

\* A line while a question is pending is its answer, whatever it says.
Answer(line) ==
  /\ alive /\ pending # None
  /\ pending' = None
  /\ Goes(pending, After(pending, line = "yes"))
  /\ alive' = ~(stage[pending] = "leaving" /\ line = "yes")
  /\ UNCHANGED <<session, running, buffer, wallet, consent, account>>

\* A line while a command is in progress is kept for its next question.
TypeAhead(line) ==
  /\ alive /\ pending = None /\ running # None
  /\ buffer' = line
  /\ UNCHANGED <<session, alive, running, stage, pending, wallet, consent, account>>

\* Mutant: a second command starts beside the one in progress.
TypeCommandAlways(c) ==
  /\ alive /\ pending = None
  /\ stage[c] = "new" /\ kind[c] # "exit"
  /\ running' = c
  /\ Goes(c, "parsing")
  /\ UNCHANGED <<session, alive, question, wallet, consent, account>>

TypeCommand(c) ==
  /\ alive /\ pending = None /\ running = None
  /\ stage[c] = "new" /\ kind[c] # "exit"
  /\ running' = c
  /\ Goes(c, "parsing")
  /\ UNCHANGED <<session, alive, question, wallet, consent, account>>

\* "exit" asks in live mode, even while a command is in progress.
TypeExit(c) ==
  /\ alive /\ pending = None
  /\ stage[c] = "new" /\ kind[c] = "exit"
  /\ \/ /\ mode = "live"
        /\ Goes(c, "leaving") /\ pending' = c /\ buffer' = "none"
        /\ UNCHANGED alive
     \/ /\ mode # "live"
        /\ Goes(c, "over") /\ alive' = FALSE
        /\ UNCHANGED question
  /\ UNCHANGED <<session, running, wallet, consent, account>>

\* Mutant: the deadline only counts while its own callback is pending.
DeadlineIfPending(c) ==
  /\ alive /\ stage[c] \in Asking /\ pending = c
  /\ pending' = None
  /\ Goes(c, After(c, FALSE))
  /\ UNCHANGED <<session, alive, running, buffer, wallet, consent, account>>

\* A question's two minutes are over.  pendingConfirmation is cleared although it
\* may be the callback of another question by now.
Deadline(c) ==
  /\ alive /\ stage[c] \in Asking
  /\ pending' = None
  /\ Goes(c, After(c, FALSE))
  /\ UNCHANGED <<session, alive, running, buffer, wallet, consent, account>>

-----------------------------------------------------------------------------
\* A command in progress

\* handleInput() up to the dispatch: understood or not, the RPC healthy or not.
Parsed(c) ==
  /\ alive /\ running = c /\ stage[c] = "parsing"
  /\ \/ \E to \in {"cleared", "ending"} : Goes(c, to) /\ UNCHANGED <<pending, buffer, blind>>
     \/ Person /\ Ask(c, "query")
  /\ UNCHANGED <<session, alive, running, wallet, summary, client, account>>

\* --key loads another wallet for the length of the command.
Override(c) ==
  \/ c \notin keyed /\ UNCHANGED wallet
  \/ /\ c \in keyed
     /\ \E w \in Wallets : manager' = w /\ shown' = w
     /\ restore' = [wallet |-> shown]
     /\ UNCHANGED <<signer, misbuilt>>

\* Degraded mode, health, kill switch or a parameter refuse a trade, or there is
\* no wallet to sign with (validateLiveTradeContext).
Refuse(c) == Override(c) /\ Goes(c, "ending") /\ UNCHANGED limits

\* The tool asks the session breaker, then awaits fee rates or a preview.
AskLimits(c) ==
  /\ limits' = CheckLimits(Limits, limits)
  /\ Goes(c, IF limits'.tripped THEN "ending" ELSE "fees")

\* An open awaits the positions before it asks the session breaker.
BeginOpen(c) == kind[c] = "open" /\ Goes(c, "exposure") /\ UNCHANGED limits

BeginClose(c) == kind[c] = "close" /\ AskLimits(c)
BeginCloseAll(c) == kind[c] = "close_all" /\ AskLimits(c)

\* Adding or removing collateral, and reversing.
BeginChange(c) == kind[c] = "change" /\ AskLimits(c)

BeginTrade(c) ==
  /\ kind[c] \notin {"use", "disconnect"}
  /\ \/ Refuse(c)
     \/ /\ Override(c)
        /\ mode = "sim" \/ manager' # None
        /\ BeginOpen(c) \/ BeginClose(c) \/ BeginCloseAll(c) \/ BeginChange(c)

\* wallet use, import and connect: the manager and the context change at once,
\* the client is rebuilt after an await, and in live mode only.
BeginUse(c) ==
  /\ kind[c] = "use"
  /\ \E w \in Wallets : manager' = w /\ shown' = w
  /\ restore' = IF c \in keyed THEN [wallet |-> shown] ELSE None
  /\ Goes(c, IF mode = "sim" THEN "ending" ELSE "rebuilding")
  /\ UNCHANGED <<signer, misbuilt, limits>>

\* Mutant: the client is dropped with the wallet.
BeginDisconnectDropsClient(c) ==
  /\ kind[c] = "disconnect"
  /\ manager' = None /\ shown' = None /\ signer' = None
  /\ restore' = IF c \in keyed THEN [wallet |-> shown] ELSE None
  /\ Goes(c, "ending")
  /\ UNCHANGED <<misbuilt, limits>>

BeginDisconnect(c) ==
  /\ kind[c] = "disconnect"
  /\ manager' = None /\ shown' = None
  /\ restore' = IF c \in keyed THEN [wallet |-> shown] ELSE None
  /\ Goes(c, "ending")
  /\ UNCHANGED <<signer, misbuilt, limits>>

Begin(c) ==
  /\ alive /\ running = c /\ stage[c] = "cleared"
  /\ BeginTrade(c) \/ BeginUse(c) \/ BeginDisconnect(c)
  /\ UNCHANGED <<session, alive, running, question, consent,
                 positions, unconfirmed, late, abandoned, misled, traded, losing>>

\* Mutant: the client keeps signing with the wallet it was built with.
RebuildKeepsClient(c) ==
  /\ alive /\ running = c /\ stage[c] = "rebuilding"
  /\ Goes(c, "ending")
  /\ UNCHANGED <<session, alive, running, question, wallet, consent, account>>

\* handleWalletReconnected(): the new client takes the manager's keypair.  Where its
\* import or its constructor throws, as it does without a keypair, the old client stays
\* although the context shows the new wallet already.
Rebuild(c) ==
  /\ alive /\ running = c /\ stage[c] = "rebuilding"
  /\ \/ /\ manager # None
        /\ shown' = manager /\ signer' = manager
        /\ UNCHANGED misbuilt
     \/ misbuilt' = TRUE /\ UNCHANGED <<shown, signer>>
  /\ Goes(c, "ending")
  /\ UNCHANGED <<session, alive, running, question, manager, restore, consent, account>>

\* Mutant: the new position itself is not counted.
FitsWithoutNew(answer) == MaxExposure = 0 \/ Cardinality(answer) <= MaxExposure

\* checkExposure() adds up what the answer lists; every position has the size 1.
Fits(answer) == MaxExposure = 0 \/ Cardinality(answer) + 1 <= MaxExposure

\* What getPositions() may answer: the positions as the API's indexer knows them, which
\* lags, without the entries that could not be read, and none at all on a failure.
Listings == SUBSET (positions \cup {o \in traded : kind[o] = "open"})

\* The answer to checkExposure() refuses the open or lets it pass; then the session
\* breaker is asked in the same step.
ExposureKnown(c) ==
  /\ alive /\ running = c /\ stage[c] = "exposure"
  /\ \E answer \in Listings :
       IF Fits(answer)
       THEN /\ AskLimits(c)
            /\ misled' = IF Cardinality(answer) < Cardinality(positions)
                         THEN misled \cup {c} ELSE misled
       ELSE Goes(c, "ending") /\ UNCHANGED <<limits, misled>>
  /\ UNCHANGED <<session, alive, running, question, wallet, consent,
                 positions, unconfirmed, late, abandoned, traded, losing>>

\* The terminal shows the summary and asks; an agent's trade is confirmed without
\* a question.
Consent(c) ==
  \/ Person /\ Ask(c, "summary")
  \/ ~Person /\ Goes(c, "agreed") /\ UNCHANGED <<pending, buffer, blind>>

\* The tool's summary, or its refusal (trade limits, rate limit, bad fee rates, no
\* position).
Summarize(c) ==
  /\ alive /\ running = c /\ stage[c] = "fees"
  /\ \/ Goes(c, "ending") /\ UNCHANGED <<summary, pending, buffer, blind>>
     \/ summary' = [summary EXCEPT ![c] = shown] /\ Consent(c)
  /\ UNCHANGED <<session, alive, running, wallet, client, account>>

\* executeAction() calls the client the context holds now.
Execute(c) ==
  /\ alive /\ running = c /\ stage[c] = "agreed"
  /\ Goes(c, "executing")
  /\ client' = [client EXCEPT ![c] = signer]
  /\ UNCHANGED <<session, alive, running, question, wallet, summary, blind, account>>

\* withTimeout() on the dispatch: what the tool still does has no effect.
GiveUpDispatch(c) ==
  /\ alive /\ running = c /\ stage[c] \in {"exposure", "fees"}
  /\ Goes(c, "ending")
  /\ UNCHANGED <<session, alive, running, question, wallet, consent, account>>

\* withTimeout() on executeAction: the execution goes on without the terminal.
GiveUp(c) ==
  /\ alive /\ running = c /\ stage[c] \in Executing
  /\ abandoned' = abandoned \cup {c}
  /\ Release /\ RestoreWallet
  /\ UNCHANGED <<session, alive, stage, pending, consent,
                 limits, positions, unconfirmed, late, misled, traded, losing>>

End(c) ==
  /\ alive /\ running = c /\ stage[c] = "ending"
  /\ Goes(c, "over")
  /\ summary' = [summary EXCEPT ![c] = None]
  /\ Release /\ RestoreWallet
  /\ UNCHANGED <<session, alive, pending, client, blind, account>>

-----------------------------------------------------------------------------
\* An execution, with or without the terminal waiting for it

\* The execution of c is over, and with it what it kept in locals.
Answered(c) ==
  /\ Goes(c, IF running = c THEN "ending" ELSE "over")
  /\ summary' = [summary EXCEPT ![c] = None]
  /\ client' = [client EXCEPT ![c] = None]
  /\ UNCHANGED blind

\* sendTx() refuses to sign when the manager has no keypair.  It signs with the
\* keypair the client was built with.
Send(c) ==
  /\ alive /\ stage[c] = "executing"
  /\ mode = "sim" \/ manager # None
  /\ Goes(c, "sent")
  /\ UNCHANGED <<session, alive, running, question, wallet, consent, account>>

\* Refused, not built, rejected or expired: nothing is recorded.  An SDK transaction
\* of a client that was replaced meanwhile ends here, too: the transaction engine is
\* shared and signs with the new client's wallet, which is not the owner it names.
Fail(c) ==
  /\ alive /\ stage[c] \in Executing
  /\ Answered(c)
  /\ UNCHANGED <<session, alive, running, question, wallet, account>>

\* Reported as failed, but the transaction may still land.
Unsure(c) ==
  /\ alive /\ stage[c] = "sent" /\ kind[c] = "open"
  /\ Answered(c)
  /\ unconfirmed' = unconfirmed \cup {c}
  /\ UNCHANGED <<session, alive, running, question, wallet,
                 limits, positions, late, abandoned, misled, traded, losing>>

LandLate(c) ==
  /\ alive /\ c \in unconfirmed
  /\ positions' = positions \cup {c}
  /\ unconfirmed' = unconfirmed \ {c}
  /\ late' = late \cup {c}
  /\ UNCHANGED <<session, alive, running, stage, question, wallet, consent,
                 limits, abandoned, misled, traded, losing>>

SucceedOpen(c) ==
  /\ kind[c] = "open"
  /\ positions' = positions \cup {c}
  /\ limits' = RecordOpen(Limits, limits)
  /\ traded' = traded \cup {c}
  /\ UNCHANGED losing

\* A close, of a part or of all of a position, settles with a loss (of 1) or not.
SucceedClose(c) ==
  /\ kind[c] = "close"
  /\ positions' = positions \/ \E p \in positions : positions' = positions \ {p}
  /\ \E lost \in {0, 1} :
       /\ limits' = RecordTrade(Limits, limits, lost)
       /\ losing' = IF lost = 1 THEN losing \cup {c} ELSE losing
  /\ traded' = traded \cup {c}

\* Closing all positions, some of which may fail, is told to nobody; neither is
\* changing one.
SucceedCloseAll(c) ==
  /\ kind[c] = "close_all"
  /\ positions' \in SUBSET positions
  /\ UNCHANGED <<limits, traded, losing>>

SucceedChange(c) ==
  /\ kind[c] = "change"
  /\ UNCHANGED <<positions, limits, traded, losing>>

Succeed(c) ==
  /\ alive /\ stage[c] = "sent"
  /\ SucceedOpen(c) \/ SucceedClose(c) \/ SucceedCloseAll(c) \/ SucceedChange(c)
  /\ Answered(c)
  /\ UNCHANGED <<session, alive, running, question, wallet,
                 unconfirmed, late, abandoned, misled>>

-----------------------------------------------------------------------------
\* Fifteen minutes without a line: the wallet manager drops the keypair, the
\* context goes on showing its address.
IdleTimeout ==
  /\ alive /\ running = None /\ manager # None
  /\ manager' = None
  /\ UNCHANGED <<session, alive, running, stage, question, shown, signer, restore, misbuilt,
                 consent, account>>

Step(c) ==
  \/ Parsed(c) \/ Begin(c) \/ Rebuild(c) \/ ExposureKnown(c) \/ Summarize(c)
  \/ Execute(c) \/ GiveUpDispatch(c) \/ GiveUp(c) \/ End(c)

Background(c) == Send(c) \/ Fail(c) \/ Unsure(c) \/ LandLate(c) \/ Succeed(c)

Next ==
  \/ \E line \in {"yes", "no"} : Answer(line) \/ TypeAhead(line)
  \/ \E c \in Commands :
       TypeCommand(c) \/ TypeExit(c) \/ Deadline(c) \/ Step(c) \/ Background(c)
  \/ IdleTimeout

\* The terminal's own timers and microtasks; neither the user nor the network.
Fairness ==
  \A c \in Commands : WF_vars(Step(c)) /\ WF_vars(Deadline(c))

Spec == Init /\ [][Next]_vars /\ Fairness

-----------------------------------------------------------------------------
\* Properties

\* In live mode no trade is executed on a "yes" that was typed before its question
\* was on the screen (confirm(), which discards bufferedLine).
ConfirmedAfterShown == mode = "live" => blind = {}

Agreed == {c \in Commands : stage[c] \in {"agreed"} \cup Executing}

\* At most one trade is between consent and answer, beside those the terminal gave
\* up on (the `processing` flag and withTimeout).
OneExecution == Cardinality(Agreed \ abandoned) <= 1

\* A session's limits on trades and losses are exceeded by no more than the
\* executions the terminal gave up on and let go on (check() before a trade,
\* recordOpen() and recordTrade() after it).
LimitsHold ==
  /\ Limits.maxTrades > 0 => Cardinality(traded) <= Limits.maxTrades + Cardinality(abandoned)
  /\ Limits.maxLoss > 0 => Cardinality(losing) <= Limits.maxLoss + Cardinality(abandoned)

\* The exposure limit is exceeded by no more than the trades given up on, the ones
\* that landed after they were reported as failed, and the ones let through on an
\* answer that showed fewer positions than there were: a late, short or failed one
\* (checkExposure(), which asks an indexer; getPositions(), empty on a failure).
ExposureHolds ==
  MaxExposure > 0 =>
    Cardinality(positions) <= MaxExposure + Cardinality(abandoned \cup late \cup misled)

Sent == {c \in Commands : stage[c] = "sent"}

\* In a session without --key, switches of the wallet and losses of it included, a
\* transaction is signed by the wallet its summary showed ("Wallet: ..."), as long as
\* every new wallet got its client (handleWalletReconnected()).
SignedAsShown ==
  keyed = {} /\ mode # "sim" /\ ~misbuilt => \A c \in Sent : client[c] = summary[c]

\* Every command ends, and so does every question, even when questions took each
\* other's callback away: each has a deadline of its own.
CommandsEnd ==
  \A c \in Commands :
    running = c \/ stage[c] \in Asking
      ~> (running # c /\ stage[c] \notin Asking) \/ ~alive
=============================================================================
