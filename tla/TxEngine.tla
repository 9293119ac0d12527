------------------------------ MODULE TxEngine ------------------------------
(***************************************************************************)
(* The submission of SDK-built transactions: FlashClient.sendTx (client/   *)
(* flash-client.ts) and UltraTxEngine.submitTransaction (core/ultra-tx-    *)
(* engine.ts), which sendTx hands over to when the engine exists.  Both    *)
(* make up to three attempts; each attempt compiles the instructions with  *)
(* a fresh blockhash and signs them again, so that it is a transaction of  *)
(* its own on chain.                                                       *)
(*                                                                         *)
(* A submission's stage is                                                 *)
(*   "idle"      not submitted                                             *)
(*   "sharing"   awaiting the promise of the engine's current submission   *)
(*   "checking"  before a retry: asking whether the last signature landed  *)
(*   "building"  fetching a blockhash, simulating, signing, broadcasting   *)
(*   "waiting"   broadcast; awaiting its confirmation                      *)
(*   "over"      resolved or rejected                                      *)
(***************************************************************************)
EXTENDS Naturals, FiniteSets

CONSTANTS
  Submissions,    \* calls of sendTx
  Direct,         \* those made while there is no engine
  NoSubmission,   \* not a submission: null
  MaxAttempts     \* MAX_ATTEMPTS, 3 in the code

ASSUME SubmissionAssumption ==
  /\ Direct \subseteq Submissions
  /\ NoSubmission \notin Submissions
  /\ MaxAttempts \in Nat \ {0}

VARIABLES
  stage,       \* the stage of each submission
  attempt,     \* its loop counter
  last,        \* the attempt whose signature lastSignature holds, 0 for none
  tx,          \* its transactions on chain, one for each attempt
  result,      \* what the caller got: Pending, Failed or Signature(s, a)
  rejected,    \* history: the simulation found a program error
  current,     \* submitInProgressPromise, as the submission it belongs to
  shared       \* the submission whose promise a sharing one awaits

vars == <<stage, attempt, last, tx, result, rejected, current, shared>>

Attempts == 1..MaxAttempts
Stages == {"idle", "sharing", "checking", "building", "waiting", "over"}
InLoop == {"checking", "building", "waiting"}
ChainStates == {"none", "inflight", "landed", "erred"}

Pending == [kind |-> "pending"]
Failed == [kind |-> "failed"]
Signature(s, a) == [kind |-> "signature", of |-> s, attempt |-> a]
Results == {Pending, Failed} \union {Signature(s, a) : s \in Submissions, a \in Attempts}

-----------------------------------------------------------------------------
MoveTo(s, st) == stage' = [stage EXCEPT ![s] = st]

\* Mutant: the outcome is told but the loop goes on.
FinishLooping(s, r) ==
  /\ MoveTo(s, "building")
  /\ result' = [result EXCEPT ![s] = r]
  /\ UNCHANGED <<attempt, current>>

\* The promise settles; the engine's guard is cleared in its finally.
Finish(s, r) ==
  /\ MoveTo(s, "over")
  /\ result' = [result EXCEPT ![s] = r]
  /\ current' = IF current = s THEN NoSubmission ELSE current
  /\ UNCHANGED attempt

\* Mutant: one attempt too many.
NextAttemptOneMore(s) ==
  IF attempt[s] <= MaxAttempts
    THEN /\ attempt' = [attempt EXCEPT ![s] = @ + 1]
         /\ MoveTo(s, IF last'[s] > 0 THEN "checking" ELSE "building")
         /\ UNCHANGED <<result, current>>
    ELSE Finish(s, Failed)

\* The head of the loop: another attempt, or the final error.
NextAttempt(s) ==
  IF attempt[s] < MaxAttempts
    THEN /\ attempt' = [attempt EXCEPT ![s] = @ + 1]
         /\ MoveTo(s, IF last'[s] > 0 THEN "checking" ELSE "building")
         /\ UNCHANGED <<result, current>>
    ELSE Finish(s, Failed)

-----------------------------------------------------------------------------
\* Mutant: the engine does not look whether a submission is in progress.
SubmitUnguarded(s) ==
  /\ stage[s] = "idle"
  /\ MoveTo(s, "building") /\ attempt' = [attempt EXCEPT ![s] = 1]
  /\ current' = IF s \in Direct THEN current ELSE s
  /\ UNCHANGED <<last, tx, result, rejected, shared>>

\* sendTx is called.  The engine hands a second caller the promise of the first.
Submit(s) ==
  /\ stage[s] = "idle"
  /\ IF s \in Direct \/ current = NoSubmission
       THEN /\ MoveTo(s, "building")
            /\ attempt' = [attempt EXCEPT ![s] = 1]
            /\ current' = IF s \in Direct THEN current ELSE s
            /\ UNCHANGED shared
       ELSE /\ MoveTo(s, "sharing")
            /\ shared' = [shared EXCEPT ![s] = current]
            /\ UNCHANGED <<attempt, current>>
  /\ UNCHANGED <<last, tx, result, rejected>>

\* Mutant: a sharer is only woken by a success.
ShareSuccess(s) ==
  /\ stage[s] = "sharing" /\ result[shared[s]] \notin {Pending, Failed}
  /\ Finish(s, result[shared[s]])
  /\ UNCHANGED <<last, tx, rejected, shared>>

\* The shared promise settles, for the sharer too.
Share(s) ==
  /\ stage[s] = "sharing" /\ result[shared[s]] # Pending
  /\ Finish(s, result[shared[s]])
  /\ UNCHANGED <<last, tx, rejected, shared>>

\* Mutant: a status without a look at its error.
SeenLandedAnyStatus(s, a) == tx[s][a] \in {"landed", "erred"}

\* getSignatureStatuses shows the transaction confirmed, without an error.
SeenLanded(s, a) == tx[s][a] = "landed"

\* Late detection before a retry ...
LateDetection(s) ==
  /\ stage[s] = "checking"
  /\ SeenLanded(s, last[s])
  /\ Finish(s, Signature(s, last[s]))
  /\ UNCHANGED <<last, tx, rejected, shared>>

\* ... is best effort: the transaction may land later, the node may not know of it
\* yet, the request may fail.  An error on chain is not looked at either.
NotDetected(s) ==
  /\ stage[s] = "checking"
  /\ MoveTo(s, "building")
  /\ UNCHANGED <<attempt, last, tx, result, rejected, current, shared>>

\* The first attempt simulates, and a program error is thrown.  The engine ends
\* there; the catch block of sendTx only ends at "failed on-chain" and goes on
\* to the next attempt, which does not simulate.
SimulationRejects(s) ==
  /\ stage[s] = "building" /\ attempt[s] = 1
  /\ rejected' = [rejected EXCEPT ![s] = TRUE]
  /\ UNCHANGED <<last, tx, shared>>
  /\ IF s \in Direct THEN NextAttempt(s) ELSE Finish(s, Failed)

\* No blockhash, the signing fails, or sendTx starts over with more compute units:
\* nothing was sent.
BuildFails(s) ==
  /\ stage[s] = "building"
  /\ UNCHANGED <<last, tx, rejected, shared>>
  /\ NextAttempt(s)

\* At least one endpoint returned the signature.
Broadcast(s) ==
  /\ stage[s] = "building"
  /\ tx' = [tx EXCEPT ![s][attempt[s]] = "inflight"]
  /\ last' = [last EXCEPT ![s] = attempt[s]]
  /\ MoveTo(s, "waiting")
  /\ UNCHANGED <<attempt, result, rejected, current, shared>>

\* Every endpoint failed, after any of them (or a leader's TPU) may have taken the
\* transaction.  lastSignature is not updated.
BroadcastFails(s) ==
  /\ stage[s] = "building"
  /\ tx' = tx \/ tx' = [tx EXCEPT ![s][attempt[s]] = "inflight"]
  /\ UNCHANGED <<last, rejected, shared>>
  /\ NextAttempt(s)

\* The websocket, a poll or the final check shows it confirmed.
Confirm(s) ==
  /\ stage[s] = "waiting"
  /\ SeenLanded(s, attempt[s])
  /\ Finish(s, Signature(s, attempt[s]))
  /\ UNCHANGED <<last, tx, rejected, shared>>

\* It failed on chain: terminal.
FailsOnChain(s) ==
  /\ stage[s] = "waiting" /\ tx[s][attempt[s]] = "erred"
  /\ Finish(s, Failed)
  /\ UNCHANGED <<last, tx, rejected, shared>>

\* The timeout, or (in sendTx) an RPC error while polling, whatever became of the
\* transaction.
TimesOut(s) ==
  /\ stage[s] = "waiting"
  /\ UNCHANGED <<last, tx, rejected, shared>>
  /\ NextAttempt(s)

\* A transaction lands or fails, whatever the client is doing by then.  One that
\* expires with its blockhash stays "inflight": nobody can tell the difference.
Settle(s, a) ==
  /\ tx[s][a] = "inflight"
  /\ \E outcome \in {"landed", "erred"} : tx' = [tx EXCEPT ![s][a] = outcome]
  /\ UNCHANGED <<stage, attempt, last, result, rejected, current, shared>>

-----------------------------------------------------------------------------
Init ==
  /\ stage = [s \in Submissions |-> "idle"]
  /\ attempt = [s \in Submissions |-> 0]
  /\ last = [s \in Submissions |-> 0]
  /\ tx = [s \in Submissions |-> [a \in Attempts |-> "none"]]
  /\ result = [s \in Submissions |-> Pending]
  /\ rejected = [s \in Submissions |-> FALSE]
  /\ current = NoSubmission
  /\ shared = [s \in Submissions |-> NoSubmission]

\* What a submission's own code does next.
Step(s) ==
  \/ Share(s) \/ LateDetection(s) \/ NotDetected(s)
  \/ SimulationRejects(s) \/ BuildFails(s) \/ Broadcast(s) \/ BroadcastFails(s)
  \/ Confirm(s) \/ FailsOnChain(s) \/ TimesOut(s)

Next ==
  \E s \in Submissions :
    \/ Submit(s) \/ Step(s)
    \/ \E a \in Attempts : Settle(s, a)

Spec == Init /\ [][Next]_vars

\* Every await of a submission has a timeout, so that it goes on.  Nothing is
\* assumed of the chain: a transaction may stay in flight.
FairSpec == Spec /\ \A s \in Submissions : WF_vars(Step(s))

-----------------------------------------------------------------------------
TypeOK ==
  /\ stage \in [Submissions -> Stages]
  /\ attempt \in [Submissions -> 0..MaxAttempts]
  /\ last \in [Submissions -> 0..MaxAttempts]
  /\ tx \in [Submissions -> [Attempts -> ChainStates]]
  /\ result \in [Submissions -> Results]
  /\ rejected \in [Submissions -> BOOLEAN]
  /\ current \in Submissions \union {NoSubmission}
  /\ shared \in [Submissions -> Submissions \union {NoSubmission}]

\* A signature handed to a caller is that of a transaction that landed without an
\* error, through late detection and shared promises too (sendTx,
\* submitTransaction, waitForConfirmation).
SuccessLanded ==
  \A s \in Submissions :
    result[s].kind = "signature" => tx[result[s].of][result[s].attempt] = "landed"

\* The engine works on one submission at a time (submitInProgressPromise).
OneAtATime ==
  \A s \in Submissions \ Direct : stage[s] \in InLoop <=> current = s

\* A program error in the simulation is terminal in the engine: no attempt of that
\* submission is ever sent (_submitTransactionInner, simulateTransaction).
RejectedNotSent ==
  \A s \in Submissions \ Direct :
    rejected[s] => \A a \in Attempts : tx[s][a] = "none"

\* An outcome is final: what a caller was told does not change, and nothing more
\* is sent for it.
OutcomeFinal ==
  [][\A s \in Submissions : result[s] # Pending =>
       /\ result'[s] = result[s]
       /\ \A a \in Attempts : tx[s][a] = "none" => tx'[s][a] = "none"]_vars

\* Every submission is answered, those that share a promise too.
SubmissionsEnd == \A s \in Submissions : stage[s] # "idle" ~> stage[s] = "over"

\* The documented purpose of late detection: the instructions of one submission
\* are not executed twice.
LandsOnce ==
  \A s \in Submissions : Cardinality({a \in Attempts : tx[s][a] = "landed"}) <= 1
=============================================================================
