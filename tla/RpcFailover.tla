---------------------------- MODULE RpcFailover ----------------------------
(***************************************************************************)
(* The RPC manager (network/rpc-manager.ts) with those who use it: the     *)
(* health monitor, failing trades that force a failover (sendTx() in       *)
(* client/flash-client.ts and core/ultra-tx-engine.ts), the `rpc` commands *)
(* of the terminal and its degraded mode.                                  *)
(*                                                                         *)
(* A health check is a step that asks and a step that goes on with the     *)
(* answer; anything may happen in between.  An endpoint is "good", "slow"  *)
(* (above the latency threshold), "lagging" (too many slots behind the     *)
(* others) or "down".  That one lags is only seen against the slots that   *)
(* checks recorded for others, and those age: nobody but a failover, `rpc  *)
(* test' and the warmup checks an endpoint that is not the active one.     *)
(***************************************************************************)
EXTENDS Naturals, Sequences, SequencesExt

CONSTANTS Urls,         \* a set
          Starts,       \* the lists of endpoints a session may start with
          MaxChanges,   \* bounds of the model: changes of an endpoint's health,
          MaxTrades,    \* trades that fail,
          MaxEdits,     \* commands that change the list
          None

Healths == {"good", "slow", "lagging", "down"}

\* What the monitor makes of a check.
Readings == {"good", "slow", "down"}

\* A failover in flight: the round i of its loop, the endpoint it asked (idx, url), the
\* answer it will get; history: who gave none, and whether the list was changed.
Failovers ==
  [phase : {"look", "recheck"}, i : Nat, idx : Nat, url : Urls, seen : Healths,
   found : SUBSET Urls, edited : BOOLEAN]

RpcAssumption ==
  /\ Starts \subseteq {s \in UNION {[1 .. n -> Urls] : n \in 1 .. 3} : IsInjective(s)}
  /\ MaxChanges \in Nat /\ MaxTrades \in Nat /\ MaxEdits \in Nat
  /\ None \notin Failovers

ASSUME RpcAssumption

VARIABLES endpoints, active,  \* a sequence of urls and a position in it
          connection,         \* the url of _connection
          client,             \* the url of the connection the trading client has
          cooling,            \* less than FAILOVER_COOLDOWN_MS since lastFailoverTime
          allDown,            \* _allEndpointsDown: "no", "fresh", or "old" (more than 60 s)
          failover,           \* the failover in flight, or None
          monitor,            \* [at: "idle", "checking", "waiting"; seen]
          trade,              \* "idle", or "waiting" for a failover
          degraded,           \* the terminal's degradedMode
          health,             \* of the urls
          ahead,              \* the urls whose slot in slotHistory a lagging one is behind
          disturbed,          \* a position was removed under a failover's feet
          changes, trades, edits

list == <<endpoints, active, connection, client>>
counters == <<changes, trades, edits>>
vars == <<list, cooling, allDown, failover, monitor, trade, degraded, health, ahead, disturbed, counters>>

TypeOK ==
  /\ endpoints \in Seq(Urls) /\ IsInjective(endpoints) /\ endpoints # <<>>
  /\ connection \in Urls /\ client \in Urls
  /\ disturbed \/ active \in DOMAIN endpoints
  /\ cooling \in BOOLEAN /\ allDown \in {"no", "fresh", "old"}
  /\ failover \in Failovers \cup {None}
  /\ monitor \in [at : {"idle", "checking", "waiting"}, seen : Readings]
  /\ trade \in {"idle", "waiting"}
  /\ failover = None => monitor.at # "waiting" /\ trade = "idle"
  /\ degraded \in BOOLEAN /\ health \in [Urls -> Healths] /\ disturbed \in BOOLEAN
  /\ ahead \subseteq Urls
  /\ changes \in 0 .. MaxChanges /\ trades \in 0 .. MaxTrades /\ edits \in 0 .. MaxEdits

Init ==
  /\ endpoints \in Starts /\ active = 1
  /\ connection = endpoints[1] /\ client = connection
  /\ cooling = FALSE /\ allDown = "no" /\ failover = None
  /\ monitor = [at |-> "idle", seen |-> "good"] /\ trade = "idle"
  /\ degraded = FALSE /\ health = [u \in Urls |-> "good"] /\ disturbed = FALSE
  /\ ahead = {}
  /\ changes = 0 /\ trades = 0 /\ edits = 0

-----------------------------------------------------------------------------
\* The connection

\* After a removal at the wrong moment activeIndex can lie behind the end: then
\* activeEndpoint is undefined and whatever reads its url throws.
ActiveExists == active \in DOMAIN endpoints

\* Mutant: the client is not told.
ConnectAlone(position, url) ==
  /\ active' = position /\ connection' = url /\ degraded' = FALSE /\ UNCHANGED client

\* A new connection; the callback hands it to the client and ends degraded mode.
Connect(position, url) ==
  /\ active' = position /\ connection' = url /\ client' = url /\ degraded' = FALSE

-----------------------------------------------------------------------------
\* Health checks

\* checkHealth() records the slot of an endpoint that answers, unless that is refused
\* as too far ahead of the recorded ones, or is not given.
Check(url) ==
  CASE health[url] \in {"good", "slow"} -> ahead' \in {ahead, ahead \cup {url}}
    [] health[url] = "lagging" -> ahead' = ahead \ {url}
    [] health[url] = "down" -> UNCHANGED ahead

\* What it answers: without a recorded slot ahead of its own, a lagging endpoint has
\* lag zero.
Reading(url) ==
  IF health[url] # "lagging" THEN health[url]
  ELSE IF ahead \ {url} # {} THEN "slow" ELSE "good"

-----------------------------------------------------------------------------
\* The failover in flight

\* Callers that share the promise all go on.
FailoverEnds ==
  /\ failover' = None
  /\ monitor' = IF monitor.at = "waiting" THEN [monitor EXCEPT !.at = "idle"] ELSE monitor
  /\ trade' = "idle"

\* idx of a round of the loop.
Idx(n) == ((active + n) % Len(endpoints)) + 1

\* Mutant: the loop ends one endpoint too early.
RoundLeftOfFewer(n) == n < Len(endpoints) - 2

\* The loop's condition; the active endpoint is skipped.  The number of endpoints and
\* the active one are read again in every round.
RoundLeft(n) == n < Len(endpoints)
NextRound(i) == IF Idx(i) = active THEN i + 1 ELSE i

\* The check of the next endpoint, or of the active one when all were tried.
NextCheck(i, found, edited) ==
  LET n == NextRound(i)
      idx == IF RoundLeft(n) THEN Idx(n) ELSE active
  IN  [phase |-> IF RoundLeft(n) THEN "look" ELSE "recheck",
       i |-> n, idx |-> idx, url |-> endpoints[idx],
       seen |-> health[endpoints[idx]], found |-> found, edited |-> edited]

\* A healthy backup: it becomes the active one, at the position it had when it was
\* asked.  Logging the label of an active endpoint that is not there throws.
SwitchOver ==
  /\ failover # None /\ failover.phase = "look" /\ failover.seen # "down"
  /\ IF ActiveExists
     THEN Connect(failover.idx, failover.url) /\ cooling' = TRUE /\ allDown' = "no"
     ELSE UNCHANGED <<active, connection, client, degraded, cooling, allDown>>
  /\ FailoverEnds
  /\ UNCHANGED <<endpoints, health, ahead, disturbed, counters>>

TryNext ==
  /\ failover # None /\ failover.phase = "look" /\ failover.seen = "down"
  /\ IF RoundLeft(NextRound(failover.i + 1)) \/ ActiveExists
     THEN /\ failover' = NextCheck(failover.i + 1, failover.found \cup {failover.url}, failover.edited)
          /\ Check(failover'.url)
          /\ UNCHANGED <<monitor, trade>>
     ELSE FailoverEnds /\ UNCHANGED ahead
  /\ UNCHANGED <<list, cooling, allDown, degraded, health, disturbed, counters>>

\* The active endpoint has recovered, or all are down.
Recheck ==
  /\ failover # None /\ failover.phase = "recheck"
  /\ allDown' = CASE failover.seen = "down" -> "fresh"
                  [] failover.seen # "down" /\ ActiveExists -> "no"
                  [] OTHER -> allDown
  /\ FailoverEnds
  /\ UNCHANGED <<list, cooling, degraded, health, ahead, disturbed, counters>>

\* failover(): joins the one in flight; unforced, it does nothing while cooling.
Wanted(force) == failover # None \/ force \/ ~cooling

RequestFailover ==
  IF failover # None THEN UNCHANGED <<failover, ahead>>
  ELSE failover' = NextCheck(0, {}, FALSE) /\ Check(failover'.url)

-----------------------------------------------------------------------------
\* The monitor

\* The scheduler's tick, skipped while a check is in progress.
MonitorTick ==
  /\ monitor.at = "idle" /\ ActiveExists
  /\ monitor' = [at |-> "checking", seen |-> Reading(endpoints[active])]
  /\ Check(endpoints[active])
  /\ UNCHANGED <<list, cooling, allDown, failover, trade, degraded, health, disturbed, counters>>

MonitorGood ==
  /\ monitor.at = "checking" /\ monitor.seen = "good"
  /\ monitor' = [monitor EXCEPT !.at = "idle"]
  /\ allDown' = IF ActiveExists THEN "no" ELSE allDown
  /\ UNCHANGED <<list, cooling, failover, trade, degraded, health, ahead, disturbed, counters>>

\* Mutant: a slow endpoint is put up with.
SlowIsFine == monitor.seen = "down"

\* Down, or slow or seen to lag with a backup to go to.
Complains == monitor.seen = "down" \/ (monitor.seen = "slow" /\ Len(endpoints) > 1)

MonitorBad ==
  /\ monitor.at = "checking" /\ monitor.seen # "good"
  /\ IF Complains /\ Wanted(FALSE) /\ ActiveExists
     THEN RequestFailover /\ monitor' = [monitor EXCEPT !.at = "waiting"]
     ELSE monitor' = [monitor EXCEPT !.at = "idle"] /\ UNCHANGED <<failover, ahead>>
  /\ UNCHANGED <<list, cooling, allDown, trade, degraded, health, disturbed, counters>>

-----------------------------------------------------------------------------
\* The trades and the terminal

\* A trade meets a network error and forces a failover before it tries again.
TradeFails ==
  /\ trade = "idle" /\ trades < MaxTrades /\ trades' = trades + 1
  /\ Len(endpoints) > 1 /\ ActiveExists
  /\ RequestFailover /\ trade' = "waiting"
  /\ UNCHANGED <<list, cooling, allDown, monitor, degraded, health, disturbed, changes, edits>>

Edit ==
  /\ edits < MaxEdits /\ edits' = edits + 1
  /\ UNCHANGED <<cooling, allDown, monitor, trade, health, changes, trades>>

Edited == IF failover = None THEN None ELSE [failover EXCEPT !.edited = TRUE]

\* rpc add
RpcAdd(url) ==
  /\ ~Contains(endpoints, url)
  /\ endpoints' = Append(endpoints, url) /\ failover' = Edited
  /\ UNCHANGED <<active, connection, client, degraded, ahead, disturbed>>
  /\ Edit

\* rpc set: added when it is new, and switched to.
RpcSet(url) ==
  /\ endpoints' = IF Contains(endpoints, url) THEN endpoints ELSE Append(endpoints, url)
  /\ LET position == CHOOSE p \in DOMAIN endpoints' : endpoints'[p] = url
     IN  position # active /\ Connect(position, url)
  /\ failover' = Edited
  /\ UNCHANGED <<ahead, disturbed>>
  /\ Edit

\* Mutant: the active index is not adjusted.
KeepIndex(position) == active

IndexWithout(position) == IF active > position THEN active - 1 ELSE active

\* rpc remove, not of the active endpoint.  A failover that waits for an endpoint
\* at this position or behind it goes on with the position it had.
RpcRemove(position) ==
  /\ ActiveExists /\ position # active
  /\ endpoints' = RemoveAt(endpoints, position) /\ active' = IndexWithout(position)
  /\ ahead' = ahead \ {endpoints[position]}
  /\ failover' = Edited
  /\ disturbed' = \/ disturbed
                  \/ failover # None /\ failover.phase = "look" /\ position <= failover.idx
  /\ UNCHANGED <<connection, client, degraded>>
  /\ Edit

\* The check for degraded mode reads allEndpointsDown, which forgets after 60 s.
DegradedCheck ==
  /\ (degraded # (allDown = "fresh")) \/ allDown = "old"
  /\ degraded' = (allDown = "fresh")
  /\ allDown' = IF allDown = "old" THEN "no" ELSE allDown
  /\ UNCHANGED <<list, cooling, failover, monitor, trade, health, ahead, disturbed, counters>>

\* rpc test
RpcTest ==
  /\ LET tested(h) == {u \in ToSet(endpoints) : health[u] \in h}
     IN  ahead' = (ahead \cup tested({"good", "slow"})) \ tested({"lagging"})
  /\ UNCHANGED <<list, cooling, allDown, failover, monitor, trade, degraded, health, disturbed, counters>>

-----------------------------------------------------------------------------
\* The environment

CooledDown ==
  /\ cooling /\ cooling' = FALSE
  /\ UNCHANGED <<list, allDown, failover, monitor, trade, degraded, health, ahead, disturbed, counters>>

AlarmAges ==
  /\ allDown = "fresh" /\ allDown' = "old"
  /\ UNCHANGED <<list, cooling, failover, monitor, trade, degraded, health, ahead, disturbed, counters>>

\* The slots recorded are overtaken, by the lagging endpoints too.
SlotsAge ==
  /\ ahead # {} /\ \E u \in ahead : ahead' = ahead \ {u}
  /\ UNCHANGED <<list, cooling, allDown, failover, monitor, trade, degraded, health, disturbed, counters>>

\* External: an endpoint slows down, falls behind, fails or recovers.
HealthChanges(url) ==
  /\ changes < MaxChanges /\ changes' = changes + 1
  /\ \E h \in Healths \ {health[url]} : health' = [health EXCEPT ![url] = h]
  /\ UNCHANGED <<list, cooling, allDown, failover, monitor, trade, degraded, ahead, disturbed, trades, edits>>

Manager == SwitchOver \/ TryNext \/ Recheck

Next ==
  \/ Manager
  \/ MonitorTick \/ MonitorGood \/ MonitorBad
  \/ TradeFails
  \/ \E url \in Urls : RpcAdd(url) \/ RpcSet(url) \/ HealthChanges(url)
  \/ \E position \in DOMAIN endpoints : RpcRemove(position)
  \/ DegradedCheck \/ RpcTest
  \/ CooledDown \/ AlarmAges \/ SlotsAge

\* Health checks end within their timeouts, the scheduler ticks, time passes; no
\* trade has to fail and nobody has to type a command.
Fairness ==
  /\ WF_vars(Manager)
  /\ WF_vars(MonitorTick) /\ WF_vars(MonitorGood \/ MonitorBad)
  /\ WF_vars(DegradedCheck) /\ WF_vars(CooledDown) /\ WF_vars(AlarmAges)
  /\ WF_vars(SlotsAge)

Spec == Init /\ [][Next]_vars /\ Fairness

-----------------------------------------------------------------------------
\* Properties

\* The endpoint the manager names is the one it is connected to, and the client has
\* the same connection, however commands, the monitor and failing trades overlap
\* (_doFailover(), switchTo(), removeEndpoint()); but for a removal under a failover.
ActiveIsConnected ==
  ~disturbed => ActiveExists /\ endpoints[active] = connection /\ client = connection

\* All endpoints are declared down only when every one of them gave no answer since
\* the failover began, unless the list was changed meanwhile (_doFailover()).
NoFalseAlarm ==
  [][allDown' = "fresh" /\ allDown # "fresh" /\ ~failover.edited =>
       ToSet(endpoints) \subseteq failover.found \cup {failover.url}]_vars

Listed(h) == \E n \in DOMAIN endpoints : health[endpoints[n]] = h

\* The worst that may be kept: a slow endpoint only without a good one, a lagging one
\* with any.
Kept == (IF Listed("good") THEN {"good"} ELSE {"slow"}) \cup {"lagging"}

\* "Trading will automatically resume once connection is restored" (terminal.ts:726):
\* when health stays as it is and some endpoint answers, the manager ends up connected
\* to one that answers, no slow one if there is a good one, and the terminal leaves
\* degraded mode.  It may end up on a lagging one: the slots that would show it age.
Recovers ==
  <>[](~disturbed /\ (\E n \in DOMAIN endpoints : health[endpoints[n]] # "down") =>
         health[connection] \in Kept /\ ~degraded)
=============================================================================
