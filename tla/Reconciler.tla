----------------------------- MODULE Reconciler -----------------------------
(***************************************************************************)
(* StateReconciler (core/state-reconciliation.ts): the copy of the         *)
(* wallet's positions that the terminal keeps, and the asynchronous passes *)
(* that bring it up to date.  A pass is started at startup, by the         *)
(* scheduler, by a command, or after a wallet was connected; passes and    *)
(* the verifications of finished trades overlap at their awaits.           *)
(*                                                                         *)
(* A position is its key, market:side.  What the API answers is what its   *)
(* node knows: until `settled' any selection of entries, old, partial or   *)
(* corrupt ones among them, and nothing at all when the request fails      *)
(* (FlashClient.getPositions answers an empty list then).  From `settled'  *)
(* on nobody trades or connects a wallet and every answer is complete.     *)
(*                                                                         *)
(* A call's stage is                                                       *)
(*   "idle"                                                                *)
(*   "asking"      reconcile, awaiting its first response                  *)
(*   "delaying"    a response with fewer positions: RPC_RETRY_DELAY_MS     *)
(*   "retrying"    awaiting the second response                            *)
(*   "verifying"   verifyTrade, awaiting its only response                 *)
(***************************************************************************)
EXTENDS Naturals, FiniteSets

CONSTANTS
  Slots,        \* slots for overlapping calls
  Wallets,
  Entries,      \* what a response may list ...
  Corrupt,      \* ... the entries among them without proper numbers
  Open,         \* the positions each wallet has open throughout
  Cycles        \* MISMATCH_CYCLES_BEFORE_REMOVAL, 3 in the code

ASSUME ReconcilerAssumption ==
  /\ IsFiniteSet(Entries) /\ Corrupt \subseteq Entries
  /\ Open \in [Wallets -> SUBSET (Entries \ Corrupt)]
  /\ Cycles \in Nat \ {0}

VARIABLES
  known,        \* lastKnownPositions, and the wallet it was fetched for
  mismatches,   \* consecutiveMismatchCycles, saturating at Cycles
  warned,       \* reconcileWarningShown
  wallet,       \* the wallet connected: walletManager.publicKey
  rebuilding,   \* a wallet was connected and setClient not yet called
  call,         \* what each call awaits and the local variables it keeps
  settled

reconcilerVars == <<known, mismatches, warned, wallet, rebuilding, call, settled>>

View(owner, keys) == [of |-> owner, keys |-> keys]
Views == [of : Wallets, keys : SUBSET (Entries \ Corrupt)]
Size(v) == Cardinality(v.keys)

Idle == [stage |-> "idle"]
CallRecords ==
  {Idle} \union [stage : {"asking", "verifying"}, owner : Wallets]
         \union [stage : {"delaying"}, first : Views]
         \union [stage : {"retrying"}, first : Views, owner : Wallets]

-----------------------------------------------------------------------------
Now(c, record) == call' = [call EXCEPT ![c] = record]
End(c) == Now(c, Idle)

\* What getPositionsByOwner may answer.
Answers(owner) ==
  IF settled THEN {Open[owner] \union bad : bad \in SUBSET Corrupt} ELSE SUBSET Entries

\* Mutant: the numbers are not looked at.
ValidUnchecked(entries) == entries

\* The numeric integrity checks.
Valid(entries) == entries \ Corrupt

\* Recovered: the response is adopted and mismatch tracking starts over.
Adopt(v) == known' = v /\ mismatches' = 0 /\ warned' = FALSE

-----------------------------------------------------------------------------
\* reconcile() and verifyTrade() are called: the owner is read from the wallet.
Reconcile(c) ==
  /\ call[c] = Idle
  /\ Now(c, [stage |-> "asking", owner |-> wallet])
  /\ UNCHANGED <<known, mismatches, warned, wallet, rebuilding, settled>>

Verify(c) ==
  /\ call[c] = Idle
  /\ Now(c, [stage |-> "verifying", owner |-> wallet])
  /\ UNCHANGED <<known, mismatches, warned, wallet, rebuilding, settled>>

\* Mutant: a short first response is adopted.
FirstAnswerAdopted(c) ==
  /\ call[c].stage = "asking"
  /\ \E answer \in Answers(call[c].owner) : Adopt(View(call[c].owner, Valid(answer)))
  /\ End(c)
  /\ UNCHANGED <<wallet, rebuilding, settled>>

\* The first response: short of the known positions, it is not believed yet.
FirstAnswer(c) ==
  /\ call[c].stage = "asking"
  /\ \E answer \in Answers(call[c].owner) :
       LET v == View(call[c].owner, Valid(answer))
       IN  IF Size(v) < Size(known)
             THEN /\ Now(c, [stage |-> "delaying", first |-> v])
                  /\ UNCHANGED <<known, mismatches, warned>>
             ELSE Adopt(v) /\ End(c)
  /\ UNCHANGED <<wallet, rebuilding, settled>>

\* The delay is over: the client asks again, for the wallet it has now.
Retry(c) ==
  /\ call[c].stage = "delaying"
  /\ Now(c, [stage |-> "retrying", first |-> call[c].first, owner |-> wallet])
  /\ UNCHANGED <<known, mismatches, warned, wallet, rebuilding, settled>>

\* Mutant: preserving the local state starts the count over.
MismatchForgotten(c) ==
  /\ mismatches' = IF mismatches + 1 < Cycles THEN 1 ELSE Cycles
  /\ warned' = TRUE
  /\ known' = IF mismatches' >= Cycles THEN call[c].first ELSE known
  /\ End(c)

\* The mismatch persists: after enough cycles the first response of this pass,
\* not its second, is accepted.  The count is not reset by that.
Mismatch(c) ==
  /\ mismatches' = IF mismatches < Cycles THEN mismatches + 1 ELSE Cycles
  /\ warned' = TRUE
  /\ known' = IF mismatches' >= Cycles THEN call[c].first ELSE known
  /\ End(c)

\* The second response is compared with the positions known by then.
RetryAnswer(c) ==
  /\ call[c].stage = "retrying"
  /\ \E answer \in Answers(call[c].owner) :
       LET v == View(call[c].owner, Valid(answer))
       IN  IF Size(v) >= Size(known) THEN Adopt(v) /\ End(c) ELSE Mismatch(c)
  /\ UNCHANGED <<wallet, rebuilding, settled>>

\* The client throws: a pass ends, a retry counts as a mismatch, a verification
\* reports failure.
Fails(c) ==
  /\ call[c].stage \in {"asking", "retrying", "verifying"} /\ ~settled
  /\ IF call[c].stage = "retrying" THEN Mismatch(c)
     ELSE End(c) /\ UNCHANGED <<known, mismatches, warned>>
  /\ UNCHANGED <<wallet, rebuilding, settled>>

\* verifyTrade adopts its one response, whatever was known before.
VerifyAnswer(c) ==
  /\ call[c].stage = "verifying"
  /\ \E answer \in Answers(call[c].owner) : known' = View(call[c].owner, Valid(answer))
  /\ End(c)
  /\ UNCHANGED <<mismatches, warned, wallet, rebuilding, settled>>

\* The wallet manager connects another wallet ...
Connect(w) ==
  /\ ~settled /\ ~rebuilding /\ w # wallet
  /\ wallet' = w /\ rebuilding' = TRUE
  /\ UNCHANGED <<known, mismatches, warned, call, settled>>

\* ... and, an import later, the reconciler is told and a pass is started.
SetClient(c) ==
  /\ rebuilding /\ rebuilding' = FALSE
  /\ Adopt(View(wallet, {}))
  /\ call[c] = Idle /\ Now(c, [stage |-> "asking", owner |-> wallet])
  /\ UNCHANGED <<wallet, settled>>

Settle ==
  /\ ~settled /\ ~rebuilding /\ settled' = TRUE
  /\ UNCHANGED <<known, mismatches, warned, wallet, rebuilding, call>>

-----------------------------------------------------------------------------
ReconcilerInit ==
  /\ wallet \in Wallets /\ known = View(wallet, {})
  /\ mismatches = 0 /\ warned = FALSE /\ rebuilding = FALSE /\ settled = FALSE
  /\ call = [c \in Slots |-> Idle]

Answered(c) == FirstAnswer(c) \/ Retry(c) \/ RetryAnswer(c) \/ Fails(c) \/ VerifyAnswer(c)

ReconcilerNext ==
  \/ \E c \in Slots : Reconcile(c) \/ Verify(c) \/ Answered(c) \/ SetClient(c)
  \/ \E w \in Wallets : Connect(w)
  \/ Settle

ReconcilerSpec == ReconcilerInit /\ [][ReconcilerNext]_reconcilerVars

\* Requests have timeouts, the delay is a timer, and the scheduler starts a pass
\* every 60 seconds of an active session.
FairReconcilerSpec ==
  /\ ReconcilerSpec
  /\ \A c \in Slots : WF_reconcilerVars(Answered(c))
  /\ WF_reconcilerVars(\E c \in Slots : Reconcile(c))

-----------------------------------------------------------------------------
ReconcilerTypeOK ==
  /\ known \in Views
  /\ mismatches \in 0..Cycles /\ warned \in BOOLEAN
  /\ wallet \in Wallets /\ rebuilding \in BOOLEAN /\ settled \in BOOLEAN
  /\ call \in [Slots -> CallRecords]

\* A pass lowers the number of known positions only after Cycles mismatches in a
\* row, overlapping passes and changes made while it waited included (reconcile).
ShrinksAfterCycles ==
  [][\A c \in Slots :
       /\ call[c].stage \in {"asking", "retrying"} /\ call'[c] = Idle
       /\ Size(known') < Size(known)
       => mismatches' >= Cycles]_reconcilerVars

\* The blockchain is authoritative in the end: once trading and the API settle, the
\* known positions become those of the connected wallet and stay so, whatever late
\* answers, of another wallet too, were adopted before (reconcile, setClient).
Converges == settled ~> [](known = View(wallet, Open[wallet]))
=============================================================================
