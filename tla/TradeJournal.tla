---------------------------- MODULE TradeJournal ----------------------------
(***************************************************************************)
(* A trade from its confirmation by the user to its outcome, the journal   *)
(* that should survive a crash in between, and the recovery that reads it  *)
(* at the next start.                                                      *)
(*                                                                         *)
(* The executeAction closures of tools/flash-tools.ts record a pending     *)
(* entry, call the client (which builds, signs, broadcasts and polls for   *)
(* the confirmation: sendApiTransaction of client/flash-client.ts) and     *)
(* update the journal (journal/trade-journal.ts) when it returns.  The     *)
(* recovery engine (runtime/recovery-engine.ts) is started by a timer of   *)
(* cli/terminal.ts and runs beside the trades of the new session.          *)
(*                                                                         *)
(* Every trade is executed at most once.  Its stage is                     *)
(*   "idle"       not yet asked for                                        *)
(*   "building"   journaled; the client has not broadcast it               *)
(*   "awaiting"   broadcast; polling for its confirmation                  *)
(*   "over"       its outcome was told to the user (verdict)               *)
(*   "lost"       the process died while it was running                    *)
(* A journal entry is the trade's name and its status; an entry has a      *)
(* signature exactly from recordSent on.                                   *)
(***************************************************************************)
EXTENDS Naturals, Sequences, FiniteSets

CONSTANTS
  Trades,        \* the trades asked for over all sessions
  MaxEntries,    \* MAX_ENTRIES of the journal
  MaxCrashes     \* bound on the crashes of a behaviour

ASSUME JournalAssumption == MaxEntries \in Nat \ {0} /\ MaxCrashes \in Nat

VARIABLES
  up,            \* whether the process runs
  stage,         \* the stage of each trade
  verdict,       \* what the user was told: "none", "confirmed" or "failed"
  chain,         \* the transaction on chain: "none", "inflight", "landed", "erred", "expired"
  age,           \* of the entry: "fresh", "old" (5 minutes), "stale" (24 hours)
  entries,       \* TradeJournal.entries: the trades journaled, oldest first
  status,        \* the status of each trade's entry object in memory
  disk,          \* pending-trades.json: a sequence of [trade, status]
  saved,         \* history: whether the last flush reached the disk
  recovery,      \* "due", "running" or "over" in this session
  queue,         \* the entries recovery has still to verify
  recovered,     \* history: trades recovery reported as confirmed on chain
  inherited,     \* history: trades loaded from the disk at the last start
  evicted,       \* history: entries recovery or the size limit removed
  crashes        \* crashes so far

tradeVars == <<stage, verdict>>
journalVars == <<entries, status, disk, saved, evicted>>
recoveryVars == <<recovery, queue, recovered>>
vars == <<up, tradeVars, chain, age, journalVars, recoveryVars, inherited, crashes>>

Stages == {"idle", "building", "awaiting", "over", "lost"}
Running == {"building", "awaiting"}
Statuses == {"pending", "sent", "confirmed"}
ChainStates == {"none", "inflight", "landed", "erred", "expired"}

Names(s) == {s[i] : i \in 1..Len(s)}

\* Array.filter: the members of s that are in K, in their order.  The one that comes
\* k-th is the one with k kept members up to it.
Only(s, K) ==
  LET kept == {i \in 1..Len(s) : s[i] \in K}
      Rank(i) == Cardinality({j \in kept : j <= i})
  IN  [k \in 1..Cardinality(kept) |-> s[CHOOSE i \in kept : Rank(i) = k]]

-----------------------------------------------------------------------------
(* The journal.  Every change of it ends in a flush. *)

\* What is written for the entries e whose objects have the statuses st.
Written(e, st) == [i \in 1..Len(e) |-> [trade |-> e[i], status |-> st[e[i]]]]

\* flush(): a new file by an atomic rename; a failure to write is swallowed.
Flush(e, st) ==
  /\ entries' = e /\ status' = st
  /\ \/ disk' = Written(e, st) /\ saved' = TRUE
     \/ disk' = disk /\ saved' = FALSE

\* Mutant: the limit is off by one.
LimitedByOneMore(e) ==
  IF Len(e) > MaxEntries + 1 THEN SubSeq(e, Len(e) - MaxEntries, Len(e)) ELSE e

\* enforceLimit(): the most recent MaxEntries entries.
Limited(e) ==
  IF Len(e) > MaxEntries THEN SubSeq(e, Len(e) - MaxEntries + 1, Len(e)) ELSE e

Without(e, t) == Only(e, Trades \ {t})

\* Mutant: the pending entry is not flushed.
RecordPendingUnflushed(t) ==
  /\ entries' = Limited(Append(entries, t)) /\ status' = [status EXCEPT ![t] = "pending"]
  /\ evicted' = evicted \union (Names(entries) \ Names(Limited(Append(entries, t))))
  /\ UNCHANGED <<disk, saved>>

\* recordPending()
RecordPending(t) ==
  LET e == Limited(Append(entries, t))
  IN  /\ Flush(e, [status EXCEPT ![t] = "pending"])
      /\ evicted' = evicted \union (Names(entries) \ Names(e))

\* remove(): nothing is written when there is no such entry.
Remove(t) ==
  IF t \in Names(entries) THEN Flush(Without(entries, t), status)
                          ELSE UNCHANGED <<entries, status, disk, saved>>

\* recordSent, recordConfirmed and remove in a row, with no await between.  Each
\* finds the entry or does nothing.
RecordOutcome(t) ==
  IF t \in Names(entries) THEN Flush(Without(entries, t), [status EXCEPT ![t] = "confirmed"])
                          ELSE UNCHANGED <<entries, status, disk, saved>>

-----------------------------------------------------------------------------
(* Trades. *)

MoveTo(t, s) == stage' = [stage EXCEPT ![t] = s]
Told(t, v) == MoveTo(t, "over") /\ verdict' = [verdict EXCEPT ![t] = v]

\* The user confirms: executeAction journals the trade and calls the client.
Begin(t) ==
  /\ up /\ stage[t] = "idle"
  /\ RecordPending(t)
  /\ MoveTo(t, "building")
  /\ UNCHANGED <<up, verdict, chain, age, recoveryVars, inherited, crashes>>

\* sendApiTransaction broadcasts.  The journal is not told of the signature.
Broadcast(t) ==
  /\ up /\ stage[t] = "building"
  /\ chain' = [chain EXCEPT ![t] = "inflight"]
  /\ MoveTo(t, "awaiting")
  /\ UNCHANGED <<up, verdict, age, journalVars, recoveryVars, inherited, crashes>>

\* Mutant: a failed trade stays in the journal.
FailKeepingEntry(t) ==
  /\ up /\ stage[t] \in Running
  /\ stage[t] = "building" => \/ chain' = chain
                              \/ chain' = [chain EXCEPT ![t] = "inflight"]
  /\ stage[t] = "awaiting" => UNCHANGED chain
  /\ Told(t, "failed")
  /\ UNCHANGED <<up, age, journalVars, recoveryVars, inherited, crashes>>

\* The client throws and the catch block removes the entry.  Before the broadcast:
\* build, validation or signing failed, or the primary endpoint refused the
\* transaction after the backup endpoints were sent it.  After it: an error on
\* chain, a failed status poll, or the confirmation timeout, whatever the
\* transaction does next.
Fail(t) ==
  /\ up /\ stage[t] \in Running
  /\ \/ UNCHANGED chain
     \/ stage[t] = "building" /\ chain' = [chain EXCEPT ![t] = "inflight"]
  /\ Remove(t)
  /\ Told(t, "failed")
  /\ UNCHANGED <<up, age, evicted, recoveryVars, inherited, crashes>>

\* Mutant: any status will do, a failed transaction's too.
SeenOnChainAnyStatus(t) == chain[t] \in {"landed", "erred"}

\* A status poll finds the transaction confirmed, without an error.
SeenOnChain(t) == chain[t] = "landed"

\* The client returns the signature.
Confirm(t) ==
  /\ up /\ stage[t] = "awaiting"
  /\ SeenOnChain(t)
  /\ RecordOutcome(t)
  /\ Told(t, "confirmed")
  /\ UNCHANGED <<up, chain, age, evicted, recoveryVars, inherited, crashes>>

-----------------------------------------------------------------------------
(* The chain and the clock. *)

Settle(t) ==
  /\ chain[t] = "inflight"
  /\ \E outcome \in {"landed", "erred", "expired"} : chain' = [chain EXCEPT ![t] = outcome]
  /\ UNCHANGED <<up, tradeVars, age, journalVars, recoveryVars, inherited, crashes>>

\* Five minutes, then a day, for what is still on file.  By then the trade no
\* longer runs (every await of it has a timeout) and its blockhash has expired.
Age(t) ==
  /\ stage[t] \in {"over", "lost"} /\ chain[t] # "inflight" /\ age[t] # "stale"
  /\ \E i \in 1..Len(disk) : disk[i].trade = t
  /\ age' = [age EXCEPT ![t] = IF @ = "fresh" THEN "old" ELSE "stale"]
  /\ UNCHANGED <<up, tradeVars, chain, journalVars, recoveryVars, inherited, crashes>>

-----------------------------------------------------------------------------
(* Crashes and restarts. *)

\* What the disk may hold when the process dies: mostly what it held, but the
\* process may also die between the three flushes of a confirmation.
Torn(t) ==
  /\ t \in Names(entries) /\ stage[t] = "awaiting" /\ SeenOnChain(t)
  /\ \E s \in {"sent", "confirmed"} : disk' = Written(entries, [status EXCEPT ![t] = s])

Crash ==
  /\ up /\ crashes < MaxCrashes
  /\ up' = FALSE /\ crashes' = crashes + 1
  /\ stage' = [t \in Trades |-> IF stage[t] \in Running THEN "lost" ELSE stage[t]]
  /\ disk' = disk \/ \E t \in Trades : Torn(t)
  /\ entries' = <<>> /\ queue' = <<>>
  /\ status' = [t \in Trades |-> "pending"]
  /\ recovery' = "due" /\ inherited' = {} /\ evicted' = {}
  /\ UNCHANGED <<verdict, chain, age, saved, recovered>>

\* A new process loads the file.  Recovery is due three seconds later.
Restart ==
  /\ ~up /\ up' = TRUE
  /\ entries' = [i \in 1..Len(disk) |-> disk[i].trade]
  /\ status' = [t \in Trades |->
       IF \E i \in 1..Len(disk) : disk[i].trade = t
       THEN disk[CHOOSE i \in 1..Len(disk) : disk[i].trade = t].status ELSE status[t]]
  /\ inherited' = Names(entries')
  /\ saved' = TRUE
  /\ UNCHANGED <<tradeVars, chain, age, disk, recoveryVars, evicted, crashes>>

-----------------------------------------------------------------------------
(* Recovery, once in every session and beside its trades. *)

\* pruneStale, then getPendingEntries.  Without a connection it ends here.
BeginRecovery ==
  /\ up /\ recovery = "due"
  /\ LET kept == Only(entries, {t \in Trades : age[t] # "stale"})
     IN  /\ IF kept = entries THEN UNCHANGED <<entries, status, disk, saved>>
                              ELSE Flush(kept, status)
         /\ evicted' = evicted \union (Names(entries) \ Names(kept))
         /\ \/ /\ queue' = Only(kept, {t \in Trades : status[t] # "confirmed"})
               /\ recovery' = "running"
            \/ queue' = <<>> /\ recovery' = "over"
  /\ UNCHANGED <<up, tradeVars, chain, age, recovered, inherited, crashes>>

\* verifyEntry for an entry without a signature: removed as never broadcast.
DropUnsigned(t) ==
  /\ status[t] = "pending"
  /\ Remove(t)
  /\ evicted' = evicted \union {t}
  /\ UNCHANGED recovered

\* The chain confirms the signature ...
ReportConfirmed(t) ==
  /\ status[t] # "pending" /\ SeenOnChain(t)
  /\ RecordOutcome(t)
  /\ recovered' = recovered \union {t}
  /\ evicted' = evicted \union {t}

\* ... or shows an error, or answers null five minutes on: a node asked without
\* searchTransactionHistory has forgotten even what landed ...
ReportFailed(t) ==
  /\ status[t] # "pending"
  /\ chain[t] = "erred" \/ age[t] # "fresh"
  /\ Remove(t)
  /\ evicted' = evicted \union {t}
  /\ UNCHANGED recovered

\* ... or does not know it yet, or the request fails: the entry is kept.
KeepEntry(t) == status[t] # "pending" /\ UNCHANGED <<journalVars, recovered>>

VerifyEntry ==
  /\ up /\ recovery = "running" /\ queue # <<>>
  /\ LET t == Head(queue)
     IN  DropUnsigned(t) \/ ReportConfirmed(t) \/ ReportFailed(t) \/ KeepEntry(t)
  /\ queue' = Tail(queue)
  /\ UNCHANGED <<up, tradeVars, chain, age, recovery, inherited, crashes>>

\* All entries are verified, or three seconds have passed.
EndRecovery ==
  /\ up /\ recovery = "running"
  /\ recovery' = "over" /\ queue' = <<>>
  /\ UNCHANGED <<up, tradeVars, chain, age, journalVars, recovered, inherited, crashes>>

-----------------------------------------------------------------------------
Init ==
  /\ up = TRUE
  /\ stage = [t \in Trades |-> "idle"]
  /\ verdict = [t \in Trades |-> "none"]
  /\ chain = [t \in Trades |-> "none"]
  /\ age = [t \in Trades |-> "fresh"]
  /\ entries = <<>> /\ disk = <<>> /\ saved = TRUE
  /\ status = [t \in Trades |-> "pending"]
  /\ recovery = "due" /\ queue = <<>>
  /\ recovered = {} /\ inherited = {} /\ evicted = {}
  /\ crashes = 0

Next ==
  \/ \E t \in Trades : \/ Begin(t) \/ Broadcast(t) \/ Fail(t) \/ Confirm(t)
                       \/ Settle(t) \/ Age(t)
  \/ Crash \/ Restart
  \/ BeginRecovery \/ VerifyEntry \/ EndRecovery

Spec == Init /\ [][Next]_vars

-----------------------------------------------------------------------------
TypeOK ==
  /\ up \in BOOLEAN /\ saved \in BOOLEAN
  /\ stage \in [Trades -> Stages]
  /\ verdict \in [Trades -> {"none", "confirmed", "failed"}]
  /\ chain \in [Trades -> ChainStates]
  /\ age \in [Trades -> {"fresh", "old", "stale"}]
  /\ entries \in Seq(Trades) /\ Len(entries) <= MaxEntries
  /\ Cardinality(Names(entries)) = Len(entries)
  /\ status \in [Trades -> Statuses]
  /\ disk \in Seq([trade : Trades, status : Statuses]) /\ Len(disk) <= MaxEntries
  /\ recovery \in {"due", "running", "over"}
  /\ queue \in Seq(Trades)
  /\ recovered \subseteq Trades /\ inherited \subseteq Trades /\ evicted \subseteq Trades
  /\ crashes \in 0..MaxCrashes

\* Nobody is told that a trade is confirmed, by the trade itself or by the recovery
\* of a later session, unless it landed without an error (sendApiTransaction,
\* verifyEntry).
ConfirmedLanded ==
  \A t \in Trades : verdict[t] = "confirmed" \/ t \in recovered => chain[t] = "landed"

\* Write-ahead: from before its broadcast until its outcome a trade is in the file,
\* unless the file could not be written, or the limit or this session's recovery
\* has removed the entry (recordPending, flush, remove).
WrittenAhead ==
  \A t \in Trades :
    up /\ stage[t] \in Running /\ saved /\ t \notin evicted
      => \E i \in 1..Len(disk) : disk[i].trade = t

\* An entry in memory is a running trade's or was inherited from the file: no path
\* out of executeAction leaves its entry behind.
NoLeftovers ==
  up => \A t \in Names(entries) : stage[t] \in Running \/ t \in inherited

\* The documented purpose: a trade that landed without the user being told stays
\* in the file until recovery reports it.
NothingForgotten ==
  \A t \in Trades :
    chain[t] = "landed" =>
      \/ verdict[t] = "confirmed" \/ t \in recovered
      \/ ~saved
      \/ \E i \in 1..Len(disk) : disk[i].trade = t
=============================================================================
