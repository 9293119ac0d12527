# FlashEdge in TLA+

FlashEdge (`src/`) is a terminal for leveraged trading on Flash Trade, a Solana protocol. It is a
single Node.js process: nothing is parallel, but every request, delay and confirmation is an
`await`, and a dozen activities overlap at their awaits. The modules in this directory model the
parts where that overlap, failures of the network and of the process, and retries decide whether
the program is right. TypeScript paths below are relative to `src/src/`.

## 1. The system

| Component | State it keeps | Operations | Talks to |
|---|---|---|---|
| Execution circuit breaker `core/execution-circuit-breaker.ts` | state, window of results, counters, cooldown, probe flag | checkExecution, recordSuccess, recordFailure, reset | called by every trade execution |
| Trade executions `client/flash-client.ts` | `activeTrades` (locks per market:side) | open, close, add/remove collateral, reverse, cancel trigger | breaker, health guard, Flash API, leader router, RPC |
| Submission `client/flash-client.ts` sendTx, `core/ultra-tx-engine.ts` | attempt, last signature, submission in progress | submit, late detection, broadcast, confirm, retry | RPC endpoints, websocket, TPU |
| Trade journal `journal/trade-journal.ts` | entries, `pending-trades.json` | recordPending/Sent/Confirmed, remove, prune, flush, load | trade tools, recovery |
| Recovery `runtime/recovery-engine.ts` | entries still to verify | recover, verifyEntry | journal, RPC |
| Trade tools `tools/flash-tools.ts` | - | preview, limits, confirm, executeAction | limits, client, journal |
| Service breakers `core/circuit-breaker-service.ts` | one breaker per service | allowRequest, recordSuccess, recordFailure | API clients |
| API clients `data/flash-api.ts`, `data/prices.ts`, `data/fstats.ts` | response caches | fetch with timeout and one retry | service breakers |
| Paper account `client/simulation.ts` | balance, positions, totals, trade lock, prices | open, close, collateral, TP/SL, getPositions | price service, fee rates |
| State reconciler `core/state-reconciliation.ts` | known positions, mismatch cycles, warning | reconcile, verifyTrade, setClient | client, scheduler, wallet flows |
| Session limits and signing guard `security/*.ts` | losses and trades of the session, tripped; delay, slots of the last minute | check, recordOpen, recordTrade; checkExposure; checkRateLimit, recordSigning | trade tools, magic client |
| RPC manager `network/rpc-manager.ts` | endpoints, active index, connection, cooldown, failover in flight, `_allEndpointsDown` | failover, switchTo, add/removeEndpoint, health monitor | submission, terminal, clients |
| Terminal `cli/terminal.ts`, `cli/wallet-flows.ts` | command in progress, pending question, line typed ahead, wallet to restore, degraded mode | read a line, dispatch, confirm, execute, switch wallets, each with a deadline | everything |
| Magic client `client/magic-client.ts`, `tools/magic-tools.ts` | trade locks, signatures of the last minute, session with the rollup | open, close, collateral, resize, reverse, orders; send with one retry | rollup, signing guard |
| Order engines `orders/`, `risk/tp-sl-engine.ts` | orders, targets, polls | evaluate, execute | only tests use them at this commit |
| Infrastructure `core/scheduler.ts`, `core/api-health-guard.ts`, `core/state-cache.ts` | timers, caches | tick, watchdog, refresh | everything |

The rest (markets, configuration, scanners, strategies, earn, plugins, rendering) is
listed component by component in `PROJECT.json` with what it is and why it is or is not modelled.

A trade goes through: tool preview and limits -> the user confirms -> journal entry -> trade lock ->
health check -> execution breaker -> build (through a service breaker) -> simulate -> sign ->
broadcast -> poll -> record with the breaker -> release the lock -> update the journal ->
verify with the reconciler.

**What is hard here.** Results that arrive after the state they were asked in is gone (breakers,
caches, reconciliation, failovers). A flag raised on the way in that one way out forgets to lower. Two
submissions, or a submission and a recovery, working on one transaction that may land late or
never. A crash between a broadcast and the note that it happened. A retry of something that
succeeded. A limit that is checked before a question and an execution, and told after them. A
dialogue whose lines, deadlines and wallet switches arrive in any order. Everything else is
sequential. `PROJECT.json` lists these hazards line by line with the
properties that would catch them.

**What makes each component correct.** Breakers: closed only below their thresholds, a bounded
number of probes, a backoff nothing shortens, and never shut for good. Executions: exclusive per
market and side, every lock released. Submissions: one outcome, a signature only for what landed.
Journal: written ahead, nothing left behind, nothing forgotten. Paper account: money is conserved,
calls do not settle each other's positions. Reconciler: no loss on a single short answer, and
agreement with the chain in the end. Terminal: consent after the summary, one trade at a time,
limits kept, the wallet shown is the one that signs. Magic client: no trade twice, signatures of the
trade they are reported for. RPC manager: it uses the endpoint it names, raises no false alarm, and
comes back.

## 2. Modules

| Module | Models | State and actions in the code |
|---|---|---|
| `ProbeGate` | abstract promise of a circuit breaker | - |
| `ExecutionBreaker` | the execution breaker's methods | `state`, `window`, ... are the class's fields; one operator per method |
| `ExecutionPipeline` | overlapping executions around locks and breaker; EXTENDS `ExecutionBreaker` | `stage[t]` is where a call of openPosition, ... awaits; `Start` is acquireTradeLock, `Admit`/`Reject` checkCircuitBreaker, `Succeed`/`Fail` the rest with its recording and `finally` |
| `ServiceBreaker` | one service breaker as operators on a record | allowRequest, recordSuccess, recordFailure, open, close |
| `ServiceFetch` | the registry and nested requests; EXTENDS `ServiceBreaker` | `stage[c]` is the attempt a request awaits; the outer price breaker and the inner API breaker are asked in one step, as in the code |
| `TradeJournal` | trades, journal, crash, restart, recovery | `entries` in memory, `disk` the file; every change flushes or fails to; `Crash` may tear the three flushes of a confirmation |
| `TxEngine` | sendTx and UltraTxEngine | one transaction on chain per attempt; `current` is submitInProgressPromise |
| `PaperTrading` | the paper account | `lock` is the chain of promises of withTradeLock; `plan[c]` the locals a call keeps over the await of the fee rates |
| `Reconciler` | reconcile, verifyTrade, setClient | `known` is lastKnownPositions together with the wallet it is about |
| `SessionBreaker` | the session's limits as operators on a record | check, recordOpen, recordTrade |
| `SigningGuard` | the signing guard's rate limit as operators on a record | checkRateLimit with the slot it reserves, recordSigning |
| `Terminal` | lines, questions, commands, executions, wallets and limits; EXTENDS `SessionBreaker` | `stage[c]` is where command c awaits; `running` is the `processing` flag, `pending` the owner of pendingConfirmation, `buffer` bufferedLine, `manager`, `shown` and `signer` the three places that know a wallet; actions follow the line handler, handleInput and the tools |
| `MagicTrade` | trades on the rollup; EXTENDS `SigningGuard` | `locks` is activeTrades, `recent` recentTrades, `KeyOf` cacheKey; one action per operation of the client, then `Build`, `SendAgain`, `Refused`, `Signed` for what they share |
| `Session` | a session in its mode; EXTENDS `PaperTrading`, `Reconciler`, `MagicTrade` | `mode` is config.tradingMode, chosen at the start and locked: each mode steps its own part and leaves the others alone |
| `RpcFailover` | the RPC manager with its monitor, failing trades, rpc commands and degraded mode | `failover` is the promise in flight with the locals of _doFailover; every health check is a step that asks and a step that goes on; `ahead` is what slotHistory knows against a lagging endpoint |

`ExecutionPipeline` and `ServiceFetch` both implement `ProbeGate` under a refinement mapping (their
breaker state and a history counter of probes), with two probes and with one. `ProbeGate` counts the
requests let through while half open, and so do both breakers: what lets one more through adds one. The `MC*` modules give
the constants their small values; the `*Proofs` modules hold the theorems (`PositionsProofs` those of
`PaperTrading` and of `Reconciler`). Mutated operators, marked
`\* Mutant:`, stand above the operator they are a plausible wrong version of; nothing uses them
except when a property is tried against them.

Data is abstracted to what the control depends on: a window entry is ok/fail, a transaction is one of
none/inflight/landed/erred, a position in the reconciler is its key, times are ticks. History
variables are read by properties only: `probeCount`, `probes`, `evicted`, `inherited`, `recovered`,
`saved`, `rejected`, `forgiven`; `blind`, `abandoned`, `misled`, `misbuilt`, `late`, `traded`,
`losing` of `Terminal`; `forgotten` of `MagicTrade`; `disturbed` and a failover's `found` and `edited` of
`RpcFailover`.

## 3. What is checked

| Run | Instance | Shows |
|---|---|---|
| `pipeline` | 4 executions, 2 of them on one key, 2 without lock; window 5, threshold 2, rate 2/5, cooldown 2..4 | `TradeMutex`, `LocksReleased`, `AdmissionsResume`, `ImplementsGate` |
| `pipeline_wedge` | a reversal among them, no manual reset | **violated** `AdmissionsResume`: a probing reversal that fails is never recorded |
| `pipeline_probe` | the executions of `pipeline` | **violated** `SingleProbe`: a half-open circuit lets two executions through |
| `service` | 3 services, 2 nested price requests, 1 direct, 1 analytics | `ImplementsGate`, `PricesResume` |
| `service_wedge` | the same | **violated** `EveryProbeIsHeard`: a breaker whose probe was answered 4xx hears of no result and blocks for good |
| `journal` | 3 trades, 2 entries at most, 1 crash | `ConfirmedLanded`, `WrittenAhead`, `NoLeftovers` |
| `journal_forgotten` | the same | **violated** `NothingForgotten`: a failed trade that lands has no entry any more |
| `tx` | 2 submissions through the engine, 1 direct, 2 attempts | `SuccessLanded`, `OneAtATime`, `OutcomeFinal`, `SubmissionsEnd` |
| `tx_twice` | the same | **violated** `LandsOnce`: a retry and the attempt it replaces both execute |
| `session` | on paper: 2 opens (merge or opposite sides), 1 change, 1 getPositions, 2 prices, triggers; on chain: 2 overlapping calls, 2 wallets, 2 positions, 1 corrupt entry, 3 cycles; on the rollup: 2 commands in 8 pairs, fast or confirmed, with and without a delay, 2 trades a minute, restarts | `Conservation`, `Solvent`, `PlanIsCurrent`, `CallsEnd`; `ShrinksAfterCycles`, `Converges`; `EffectOnce`, `SignatureMatches`, `SentOnceAMinute` |
| `terminal` | 11 sessions of 3 commands: live, simulated, agent, with and without `--key`; 2 wallets, at most 1 loss, 2 trades, exposure 1 | `ConfirmedAfterShown`, `OneExecution`, `LimitsHold`, `ExposureHolds`, `SignedAsShown`, `CommandsEnd` |
| `rpc` | 1 to 3 endpoints, 3 changes of health (slow, lagging, down, good), 1 failing trade, 1 change of the list | `ActiveIsConnected`, `NoFalseAlarm`, `Recovers` |

Every passing run also checks its module's `TypeOK` (`session` the type invariants of its three parts). The violations are disagreements between what
the code does and what its comments or documents say of it; each is a finding in `PROJECT.json` with
the quoted line. `ProbeBudget`, `ClosedIsHealthy`, `BackoffKept`, `ClosedBelowThreshold`,
`RejectedNotSent`, `LocksReleased` of `MagicTrade`, `ChainKept` and `MovesInside` are proved (section 4)
and in no run: `ImplementsGate` and the other properties of their modules cover the small instances.

**Bounds and why they are enough.**
* `pipeline`: contention needs two calls on one key; the probe budget needs three callers at a
  half-open breaker (two let through, one refused) and a stale one besides. A window of 5 with a
  minimum of 3 has every case of shifting, of too few samples and of a rate that trips without the
  consecutive threshold. Cooldown 2 grows to 3 and 4, which is the cap.
* `service`: two price requests and a direct one on a shared inner breaker make late failures, nested
  refusals and retries into an open period; the inner threshold is 2, so that closed, half way and
  tripped differ. Cooldown 1 doubles to its cap 2.
* `journal`: the third trade overflows two entries. After one crash recovery meets old and new
  entries; a second crash repeats that with the same kinds of entries. The trades are symmetric.
* `tx`: two attempts contain a first, a retry with late detection, and exhaustion. Two engine
  submissions share a promise, the direct one has none.
* `session`, on paper: amounts are small integers; fees, partial closes and prices are chosen so that a merge, a
  dust close, a loss beyond the collateral, a refused removal and a triggered close all occur.
* `session`, on chain: the code's own three cycles; two calls already overlap in every pair of stages.
* `terminal`: one command is given up on, one runs beside it and a third takes the wallet away,
  leaves, or uses up the limit. Each session is a combination of which those three are; with limits
  of one loss, two trades and one position the third trade meets each limit exactly reached. All
  positions have the size 1 and a loss is 1, so that a limit is a count.
* `session`, on the rollup: a pair of commands is a trade and its repetition, one that its key must
  tell apart, or one that it does not (another token); a reversal is two legs by itself. One market suffices because locks and keys name the market.
* `rpc`: with three endpoints a removal can be before, at or behind the position a failover holds.
  Three changes of health are a failure, a second one while the failover asks, and a recovery. One
  change of the list can meet a failover at each of its awaits; `rpc test` is not bounded.

**Fairness.** Weak fairness on what the code's own timers or timeouts drive: the clock; the next step
of an execution, request, submission or call that is under way (each await has a timeout: fetch 8 s,
health check 5 s, confirmation at most 90 s, or is served from a cache or defaults); the 60-second
reconciliation of a live session; the ticks and health checks of the RPC monitor, its cooldown and the degraded-mode
check, and that the chain overtakes a slot recorded long ago; the terminal's own steps and the deadlines of its questions, dispatches and executions. Users
are never obliged to act, the chain is never obliged to settle, `Reset` is never obliged to happen,
no trade has to fail in order to force a failover. `TradeJournal` and `MagicTrade` state no liveness.
Where the commands, calls or trades of an instance are a finite set that ends, deadlock checking is
off (`journal`, `tx`, `session`, `terminal`, and `rpc`, whose changes are bounded).

## 4. What is proved

Proofs hold for all values of the constants that satisfy the named assumptions.

`ExecutionPipelineProofs` (from `BreakerAssumption`, `PipelineAssumption`):
* `TypeCorrect`: `TypeOK` is inductive by itself; one lemma per breaker method, then a case per action.
* `ProbeBudgetHolds`: `ProbeBudget` is not inductive, because how many probes are out depends on the
  flag. `ProbeInv` adds that the flag is only up while half open (`FlagMeansHalfOpen`) and that in a
  half-open circuit the count is 2 if the flag is up and 1 if not (`CountMatchesFlag`).
* `TradeMutexHolds`: `LockInv` adds that the locks are exactly the keys of the busy executions and
  that the leader router's flag is up exactly while some key is locked.
* `ClosedIsHealthyHolds`, `BackoffKeptHolds` from type correctness.
* `ImplementsProbeGate`: the initial states map to initial states and each step, by its kind, to a
  step of `ProbeGate` with two probes or a stutter; the count's bound comes from `ProbeInv`. Two is
  what the code keeps, one more than its documents say (run `pipeline_probe`).

`ServiceFetchProofs` (from `FetchAssumption`): every operation on a breaker record is a "move"
(`BreakerMoves`: stays in its type, below its threshold while closed, never shortens a cooldown, and
is a step or stutter of `ProbeGate`), one lemma for each operation; every action of the registry
makes moves only. A half-open breaker permits nothing, so that the requests it has counted are
the one that half opened it. `TypeCorrect`, `ClosedBelowThresholdHolds`, `BackoffKeptHolds` and
`ImplementsProbeGate` follow.

`TxEngineProofs` (from `SubmissionAssumption`): none of the properties is inductive. `IInv` adds that
an attempt not made yet has sent nothing (`Unsent`, so that a broadcast never overwrites an earlier
transaction's fate), that a result is there exactly when the submission is over (`Answered`), that a
submission in its loop has made an attempt and one that checks has a signature to ask about
(`Counted`), that the engine's guard never names a direct submission (`Guarded`), and that a
rejected submission of the engine is over (`RejectedOver`). Every step of a submission either ends it
(`FinishInv`) or keeps it in its loop (`LoopInv`, `NextAttemptInv`), so that each action is one of
these with what it sends. `TypeCorrect`, `SuccessLandedHolds`, `OneAtATimeHolds`,
`RejectedNotSentHolds` and the action property `OutcomeFinalHolds` follow.

`TerminalProofs` (from `TerminalAssumption`), for any sessions of any number of commands, any wallets
and any limits. The properties say what holds after an execution; the invariant says why the
dialogue before it keeps them true. Until it is given up on, whatever a command does it does while
it holds `processing` (`OneRunning`), and a pending callback is one of a question that is being asked
(`PendingAsks`). Hence nothing else moves manager, context and client between a summary and the
execution it leads to (`WalletTrue`), and what a trade was let through for is still free when it is
done, but for trades given up on, landed late or let through on an answer that showed too few
positions (`Room`, over counts of `FiniteSets`). An answer is any set the indexer may give: nothing is
assumed of how old or how complete it is. `TypeCorrect`, `ConfirmedAfterShownHolds`, `OneExecutionHolds`, `LimitsAreKept`,
`ExposureIsKept` and `SignedAsShownHolds` follow.

`MagicTradeProofs` (from `MagicAssumption`), in three layers:
* `SendInv`: only the running command is under way (`OneRunning`); a leg has sent exactly what its
  phase says (`SentSoFar`), so that a retry follows a transaction that was dropped
  (`RetryOfDropped`). `TypeCorrect` and `EffectOnceHolds`.
* `MemoryInv`: every remembered signature belongs to a transaction of the operation its key names,
  one for each key (`MemoryTrue`); an operation and its key name the same kind, side and numbers,
  of whatever token; a leg about to be sent is not remembered (`NotRemembered`); what
  was answered is remembered until it is forgotten (`AnswersKept`). `SignatureMatchesHolds` and
  `SentOnceAMinuteHolds`.
* `LockInv`: who waits for a price is resizing and who waits for a second leg is reversing
  (`WaitsFor`), so that each way out gives back the lock its way in took. `LocksReleasedHolds`.

`RpcFailoverProofs` (from `RpcAssumption`), for any endpoints and any number of failures and commands:
a failover that asks an endpoint knows its position unless a removal disturbed it (`KnowsPosition`),
and unless the list was changed it has asked every endpoint of the rounds that are over (`Thorough`).
That the rounds reach every endpoint is arithmetic modulo the length of the list (`EveryRound`).
`TypeCorrect`, `ActiveIsConnectedHolds` and the action property `NoFalseAlarmHolds` follow.

`PositionsProofs`, for `Reconciler` (from `ReconcilerAssumption`): `ReconcilerTypeCorrect`, and from
it the action property `ShrinksAfterCyclesHolds`: the only step that shortens the known positions is
the one that has counted the configured number of mismatches.

`PositionsProofs`, for `PaperTrading` (from `PaperAssumption`), for any number of overlapping calls and
any markets, prices, rates and amounts. None of the properties is inductive; `PaperInv` is, in four
parts, each of them checked by TLC before it was proved:
* `Queue`: the chain holds each call that waits once, and a call in one of the stages inside the lock
  is its head. Hence, of all that wait for prices or fee rates, one may change the account.
* `Asked`: which operation can be in which stage.
* `Planned`: what a close was priced at is a part of the position its index names. Only the call
  inside could move that position, and it is the one that waits; setTpSl and removeTpSl, which ignore
  the lock, keep size, collateral and order (`TriggersTrue`).
* `Accounted`: the amounts are whole, positions have a positive entry, size and collateral, one for
  a market and a side, and the money adds up.

`PaperTypeCorrect`, `ConservationHolds`, `SolventHolds`, `PlanIsCurrentHolds`, `ChainKeptHolds` and the
action property `MovesInsideHolds` follow. What carries them besides:
* arithmetic of rounding: a proportional part is between nothing and the whole, and less than the
  whole where the share is (`ShareTrue`), so that what the dust rule leaves open is never empty; the
  average of two prices is a price (`AverageTrue`);
* `Pledged`, the collateral of a list, is a sum over a sequence. Its lemmas (`PledgedAppend`,
  `PledgedUpdate`, `PledgedWithout`) go through a set of the indices for which two partial sums agree,
  and `UpTo`: a set of numbers that has 0 and is closed under successors up to n has all up to n. That is
  a consequence of the library's theorem that < is well founded, which takes no operator for an
  argument.

`PaperAssumption` asks what the code refuses otherwise or is configured to: prices are positive (a
price of 0 is none: getPrice throws), slippage is a few basis points of a price, leverages and
requested collateral are positive (`types/index.ts:1315-1318`, `client/simulation.ts:420`, `454`), a
close is for at most all (`tools/flash-tools.ts:550`), and dust is a positive amount.

`TradeJournalProofs` (from `JournalAssumption`), in two invariants:
* `IInv`: only a trade that is being built broadcasts (`NotSent`), so that nothing overwrites a
  transaction that landed. `ConfirmedLandedHolds`.
* `JournalInv`: after a write that went through, the file has the entries the memory has (`InStep`); a
  running trade has its entry, unless the limit or recovery removed it (`Journaled`); a trade that was
  not asked for is nowhere (`Unasked`); entries and records are distinct and within the limit
  (`FileTyped`). `TypeCorrect`, `WrittenAheadHolds` and `NoLeftoversHolds`.
The journal's filter is `Only`, which places each member by its rank among those kept; that it keeps
members, distinctness and type (`OnlyTrue`) rests on the ranks being 1, 2, ... without a gap (`Ranks`).
It is the library's `SelectSeq`, whose recursive definition cannot be reasoned about here.

Only model-checked: the liveness properties (`LocksReleased` of the pipeline, `AdmissionsResume`,
`PricesResume`, `SubmissionsEnd`, `CallsEnd`, `Converges`, `CommandsEnd`, `Recovers`). Liveness under
fairness and ENABLED are out of the prover's reach. Every safety property and action property of a
passing run is proved.

## 5. Observations without a run

What the modelling met besides the findings; each is in the model as the code has it.

* `verifyTrade` replaces the known positions by a single response, an empty one included
  (`core/state-reconciliation.ts:395`), although a comparison of positions says "Never remove local
  positions on a single RPC response" (`:213`). `ShrinksAfterCycles` is about passes.
* A reversal on the rollup (`client/magic-client.ts:876`) opens the other side in the turn in which
  its close ended, so that the signing guard's default delay of 3 s always refuses it; `README.md:325`
  calls it atomic. The model keeps both configurations, with and without a delay.
* Orders, cancellations and liquidations on the rollup go through no rate limit and no lock,
  although `README.md:361-364` says every signing path does.
* A close on the rollup is remembered by market and side for a minute (`client/magic-client.ts:737`):
  closing a position that was opened again is answered with the old signature and sends nothing. A
  fast signature may belong to a transaction that fails.
* An endpoint that is removed while a failover asks it becomes the connection all the same, and
  activeIndex may lie behind the end of the list (`network/rpc-manager.ts:104-115`, `352-362`). The
  variable `disturbed` marks the case; the properties say nothing after it.
* `walletRebuilding` is set on a copy of the terminal's state (`cli/terminal.ts:1195-1210`,
  `cli/wallet-flows.ts:509`) that is written back when the rebuild is over, so that the checks at
  `cli/terminal.ts:3686-3697` never see it. `SignedAsShown` holds without them, because one command
  runs at a time.
* An open on the rollup is remembered by market, side, amount and leverage, without the token the
  amount is in (`client/magic-client.ts:584`): "open 1 USDC" and then "open 1 SOL" within a minute
  gets the first signature and sends nothing, although `README.md:365` speaks of the same trade.
  `SignatureMatches` therefore promises the same numbers, of whatever token.
* The exposure check believes an indexer that may lag behind a confirmed trade
  (`cli/terminal.ts:3447`), and `getPositions` answers a failure with an empty list
  (`client/flash-client.ts:2382-2384`): two opens in a row can exceed the limit with nothing gone
  wrong. `ExposureHolds` counts the trades let through on such an answer (`misled`).
* A client whose constructor throws is logged and the old one stays, with the new wallet already in
  the context (`cli/wallet-flows.ts:519-522`). `SignedAsShown` says nothing after it (`misbuilt`).
* An endpoint's lag is measured against slots recorded for the others, and the monitor refreshes only
  the active endpoint's (`network/rpc-manager.ts:189-206`, `252-255`, `466`). A lagging endpoint soon
  overtakes them, reads as lag 0 and is kept, where `CHANGELOG.md:185` (of `src/`) promises "automatic
  switching on slot lag". `Recovers` ends on an endpoint that is good, slow when no other is good, or
  lagging.
* `--key` changes the wallet that is shown and not the client that signs
  (`cli/terminal.ts:3489`, `client/flash-client.ts:470-479`). `SignedAsShown` leaves those sessions out.
* A question's deadline clears whatever callback is pending (`cli/terminal.ts:4119`): an `exit` typed
  during a trade's question takes its place. `CommandsEnd` shows that both still end.
* Closing all positions, changing collateral and reversing are checked against the session's limits
  and not counted by them; `LimitsHold` is about opens and closes.
* The scheduler's watchdog releases a task that has run for 60 s; when the old run ends it clears the
  flag of the new one (`core/scheduler.ts:195`). The tasks modelled end within their own timeouts.

## 6. Done and left

Done: breakers, executions, service fetches, submission, journal and recovery, paper account,
reconciler, terminal with session limits and wallets, trades on the rollup, RPC failover; proofs of
the safety of all of them.

Left, in order of what it would add:
1. The scheduler with its watchdog, the cached health check and the state cache, as a module under
   the periodic actions of `RpcFailover` and `Reconciler`.
2. The journal composed with `TxEngine`, in place of the journal's own broadcast and confirmation.
3. The two-step flows of the rollup's vault (deposit, settle, withdraw).

## 7. Not modelled, and why

* Reading the chain, building instructions, validating them, signing, key storage: pure functions or
  I/O with one caller; they appear as steps that succeed or fail.
* Formatting, menus, prompts, rendering, help, logging, metrics, and the interpretation of a line:
  most of the terminal, the interpreter and the tools by size, and nothing decides on them. This is
  why the share of lines modelled is small beside the share of state.
* `submitTransactionAsync` and `prebuildTransaction` of the engine, which nothing calls at this commit.
* A failover while a wallet switch rebuilds the client on a copy of the terminal's state. Endpoints
  listed twice: `RpcFailover` starts with distinct ones, `buildRpcEndpoints` does not enforce it.
* The flushes of one outcome in the journal are one step, but for the confirmation, which may be torn.
* The reconciler's single pass at the start of a simulated session, on a copy nobody trades with.
* Market scanners, strategies, portfolio and risk scores: numeric functions of data read once.
* Numbers are exact integers where amounts matter (`PaperTrading`): rounding of doubles is not.
* Time is ticks; a process that is suspended is one in which nothing happens.
* Event monitor, SQLite journal, limit order and TP/SL engines are not instantiated outside the tests
  at this commit.
