-------------------------- MODULE PositionsProofs ---------------------------
(***************************************************************************)
(* What is guaranteed of the positions a session shows: the wallet's as    *)
(* the reconciler copies them (Reconciler), and the paper account's, where *)
(* the session trades on paper (PaperTrading).                             *)
(*                                                                         *)
(* Behind the paper account: a call that waits inside the lock is the head *)
(* of the chain (Queue), so that what it priced is still there when it     *)
(* settles (Planned), and every amount stays positive and accounted for    *)
(* (Accounted).                                                            *)
(***************************************************************************)
EXTENDS PaperTrading, Reconciler, FiniteSetTheorems, SequenceTheorems, WellFoundedInduction, TLAPS

-----------------------------------------------------------------------------
\* Reconciler: views and calls

LEMMA SizeTrue == \A v \in Views : Size(v) \in Nat
<1> SUFFICES ASSUME NEW v \in Views PROVE Size(v) \in Nat
  OBVIOUS
<1>1. v.keys \subseteq Entries
  BY DEF Views
<1>2. IsFiniteSet(v.keys)
  BY <1>1, ReconcilerAssumption, FS_Subset
<1> QED  BY <1>2, FS_CardinalityType DEF Size

\* What the checks leave of a response is a view.
LEMMA ValidTrue ==
  ASSUME NEW owner \in Wallets, NEW answer \in Answers(owner)
  PROVE  View(owner, Valid(answer)) \in Views
<1>1. answer \subseteq Entries
  <2>1. Open[owner] \subseteq Entries
    BY ReconcilerAssumption
  <2> QED  BY <2>1, ReconcilerAssumption DEF Answers
<1> QED  BY <1>1 DEF View, Valid, Views

LEMMA CallTrue ==
  ASSUME ReconcilerTypeOK, NEW c \in Slots
  PROVE  /\ call[c].stage \in {"asking", "verifying", "retrying"} => call[c].owner \in Wallets
         /\ call[c].stage \in {"delaying", "retrying"} => call[c].first \in Views
         /\ Idle.stage = "idle"
<1>1. call[c] \in CallRecords
  BY DEF ReconcilerTypeOK
<1>2. CASE call[c] = Idle
  BY <1>2 DEF Idle
<1>3. CASE call[c] \in [stage : {"asking", "verifying"}, owner : Wallets]
  BY <1>3 DEF Idle
<1>4. CASE call[c] \in [stage : {"delaying"}, first : Views]
  BY <1>4 DEF Idle
<1>5. CASE call[c] \in [stage : {"retrying"}, first : Views, owner : Wallets]
  BY <1>5 DEF Idle
<1> QED  BY <1>1, <1>2, <1>3, <1>4, <1>5 DEF CallRecords

LEMMA NowTrue ==
  ASSUME ReconcilerTypeOK, NEW c \in Slots, NEW record \in CallRecords, Now(c, record)
  PROVE  /\ call' \in [Slots -> CallRecords]
         /\ call'[c] = record /\ \A d \in Slots : d # c => call'[d] = call[d]
BY DEF Now, ReconcilerTypeOK

LEMMA MismatchTrue ==
  ASSUME ReconcilerTypeOK, NEW c \in Slots, call[c].stage = "retrying", Mismatch(c)
  PROVE  /\ known' \in Views /\ mismatches' \in 0 .. Cycles /\ warned' \in BOOLEAN
         /\ call' \in [Slots -> CallRecords]
         /\ known' = known \/ mismatches' >= Cycles
         /\ Now(c, Idle)
<1>1. Cycles \in Nat /\ Cycles > 0
  BY ReconcilerAssumption
<1>2. mismatches' \in 0 .. Cycles
  BY <1>1 DEF Mismatch, ReconcilerTypeOK
<1>3. known' \in Views /\ (known' = known \/ mismatches' >= Cycles)
  BY CallTrue DEF Mismatch, ReconcilerTypeOK
<1>4. call' \in [Slots -> CallRecords]
  BY NowTrue DEF Mismatch, End, CallRecords
<1> QED  BY <1>2, <1>3, <1>4 DEF Mismatch, End

-----------------------------------------------------------------------------
\* Reconciler: types

LEMMA ReconcilerTypeInit == ReconcilerInit => ReconcilerTypeOK
<1> SUFFICES ASSUME ReconcilerInit PROVE ReconcilerTypeOK
  OBVIOUS
<1>1. Idle \in CallRecords /\ View(wallet, {}) \in Views /\ 0 \in 0 .. Cycles
  BY ReconcilerAssumption DEF ReconcilerInit, View, Views, CallRecords
<1> QED  BY <1>1 DEF ReconcilerInit, ReconcilerTypeOK

LEMMA ReconcilerTypeStep == ReconcilerTypeOK /\ [ReconcilerNext]_reconcilerVars => ReconcilerTypeOK'
<1> SUFFICES ASSUME ReconcilerTypeOK, [ReconcilerNext]_reconcilerVars PROVE ReconcilerTypeOK'
  OBVIOUS
<1>0. Idle \in CallRecords /\ wallet \in Wallets /\ 0 \in 0 .. Cycles
  BY ReconcilerAssumption DEF CallRecords, ReconcilerTypeOK
<1>1. ASSUME NEW c \in Slots, Reconcile(c) \/ Verify(c) PROVE ReconcilerTypeOK'
  <2>1. /\ [stage |-> "asking", owner |-> wallet] \in CallRecords
        /\ [stage |-> "verifying", owner |-> wallet] \in CallRecords
    BY <1>0 DEF CallRecords
  <2>2. call' \in [Slots -> CallRecords]
    BY <1>1, <2>1, NowTrue DEF Reconcile, Verify
  <2> QED  BY <1>1, <2>2 DEF Reconcile, Verify, ReconcilerTypeOK
<1>2. ASSUME NEW c \in Slots, FirstAnswer(c) PROVE ReconcilerTypeOK'
  <2>1. PICK answer \in Answers(call[c].owner) :
          LET v == View(call[c].owner, Valid(answer))
          IN  IF Size(v) < Size(known)
                THEN /\ Now(c, [stage |-> "delaying", first |-> v])
                     /\ UNCHANGED <<known, mismatches, warned>>
                ELSE Adopt(v) /\ End(c)
    BY <1>2 DEF FirstAnswer
  <2> DEFINE v == View(call[c].owner, Valid(answer))
  <2>2. v \in Views
    BY <1>2, ValidTrue, CallTrue DEF FirstAnswer
  <2> HIDE DEF v
  <2>3. CASE Now(c, [stage |-> "delaying", first |-> v]) /\ UNCHANGED <<known, mismatches, warned>>
    <3>1. [stage |-> "delaying", first |-> v] \in CallRecords
      BY <2>2 DEF CallRecords
    <3>2. call' \in [Slots -> CallRecords]
      BY <2>3, <3>1, NowTrue
    <3> QED  BY <1>2, <2>3, <3>2 DEF FirstAnswer, ReconcilerTypeOK
  <2>4. CASE Adopt(v) /\ End(c)
    BY <1>0, <1>2, <2>2, <2>4, NowTrue DEF FirstAnswer, Adopt, End, ReconcilerTypeOK
  <2> QED  BY <2>1, <2>3, <2>4 DEF v
<1>3. ASSUME NEW c \in Slots, Retry(c) PROVE ReconcilerTypeOK'
  <2>1. [stage |-> "retrying", first |-> call[c].first, owner |-> wallet] \in CallRecords
    BY <1>0, <1>3, CallTrue DEF Retry, CallRecords
  <2>2. call' \in [Slots -> CallRecords]
    BY <1>3, <2>1, NowTrue DEF Retry
  <2> QED  BY <1>3, <2>2 DEF Retry, ReconcilerTypeOK
<1>4. ASSUME NEW c \in Slots, RetryAnswer(c) PROVE ReconcilerTypeOK'
  <2>1. PICK answer \in Answers(call[c].owner) :
          \/ Adopt(View(call[c].owner, Valid(answer))) /\ End(c)
          \/ Mismatch(c)
    BY <1>4 DEF RetryAnswer
  <2>2. View(call[c].owner, Valid(answer)) \in Views
    BY <1>4, ValidTrue, CallTrue DEF RetryAnswer
  <2>3. CASE Adopt(View(call[c].owner, Valid(answer))) /\ End(c)
    BY <1>0, <1>4, <2>2, <2>3, NowTrue DEF RetryAnswer, Adopt, End, ReconcilerTypeOK
  <2>4. CASE Mismatch(c)
    BY <1>4, <2>4, MismatchTrue DEF RetryAnswer, ReconcilerTypeOK
  <2> QED  BY <2>1, <2>3, <2>4
<1>5. ASSUME NEW c \in Slots, Fails(c) PROVE ReconcilerTypeOK'
  <2>1. CASE call[c].stage = "retrying"
    BY <1>5, <2>1, MismatchTrue DEF Fails, ReconcilerTypeOK
  <2>2. CASE call[c].stage # "retrying"
    BY <1>0, <1>5, <2>2, NowTrue DEF Fails, End, ReconcilerTypeOK
  <2> QED  BY <2>1, <2>2
<1>6. ASSUME NEW c \in Slots, VerifyAnswer(c) PROVE ReconcilerTypeOK'
  <2>1. known' \in Views
    BY <1>6, ValidTrue, CallTrue DEF VerifyAnswer
  <2> QED  BY <1>0, <1>6, <2>1, NowTrue DEF VerifyAnswer, End, ReconcilerTypeOK
<1>7. ASSUME NEW c \in Slots, SetClient(c) PROVE ReconcilerTypeOK'
  <2>1. View(wallet, {}) \in Views /\ [stage |-> "asking", owner |-> wallet] \in CallRecords
    BY <1>0 DEF View, Views, CallRecords
  <2>2. call' \in [Slots -> CallRecords]
    BY <1>7, <2>1, NowTrue DEF SetClient
  <2> QED  BY <1>0, <1>7, <2>1, <2>2 DEF SetClient, Adopt, ReconcilerTypeOK
<1>8. ASSUME NEW w \in Wallets, Connect(w) PROVE ReconcilerTypeOK'
  BY <1>8 DEF Connect, ReconcilerTypeOK
<1>9. ASSUME Settle \/ UNCHANGED reconcilerVars PROVE ReconcilerTypeOK'
  BY <1>9 DEF Settle, reconcilerVars, ReconcilerTypeOK
<1> QED
  BY <1>1, <1>2, <1>3, <1>4, <1>5, <1>6, <1>7, <1>8, <1>9 DEF ReconcilerNext, Answered

\* The reconciler's state keeps its type (StateReconciler).
THEOREM ReconcilerTypeCorrect == ReconcilerSpec => []ReconcilerTypeOK
BY ReconcilerTypeInit, ReconcilerTypeStep, PTL DEF ReconcilerSpec

-----------------------------------------------------------------------------
\* Reconciler: what a pass may do

Shrinks(c) ==
  /\ call[c].stage \in {"asking", "retrying"} /\ call'[c] = Idle
  /\ Size(known') < Size(known)

\* Only the call that moves can return.
LEMMA OthersWait ==
  ASSUME ReconcilerTypeOK, NEW c \in Slots, NEW d \in Slots, NEW record \in CallRecords, Now(c, record),
         Shrinks(d)
  PROVE  d = c
BY NowTrue, CallTrue DEF Shrinks

\* A pass forgets positions only after enough mismatches in a row, whatever other
\* passes, verifications and wallet changes do meanwhile (reconcile()).
THEOREM ShrinksAfterCyclesHolds == ReconcilerSpec => ShrinksAfterCycles
<1>1. ReconcilerTypeOK /\ ReconcilerTypeOK' /\ [ReconcilerNext]_reconcilerVars => [\A c \in Slots : Shrinks(c) => mismatches' >= Cycles]_reconcilerVars
  <2> SUFFICES ASSUME ReconcilerTypeOK, ReconcilerTypeOK', ReconcilerNext, NEW d \in Slots, Shrinks(d) PROVE mismatches' >= Cycles
    OBVIOUS
  <2>0. /\ Size(known) \in Nat /\ Size(known') \in Nat /\ Size(known') < Size(known)
        /\ known' # known /\ call' # call
    <3>1. Size(known) \in Nat /\ Size(known') \in Nat
      BY SizeTrue DEF ReconcilerTypeOK
    <3>2. call'[d] # call[d]
      BY CallTrue DEF Shrinks
    <3> QED  BY <3>1, <3>2 DEF Shrinks
  <2>1. ASSUME NEW c \in Slots, FirstAnswer(c) PROVE mismatches' >= Cycles
    <3>1. PICK answer \in Answers(call[c].owner) :
            \/ UNCHANGED known
            \/ /\ known' = View(call[c].owner, Valid(answer))
               /\ ~(Size(View(call[c].owner, Valid(answer))) < Size(known))
      BY <2>1 DEF FirstAnswer, Adopt
    <3> QED  BY <2>0, <3>1
  <2>2. ASSUME NEW c \in Slots, RetryAnswer(c) PROVE mismatches' >= Cycles
    <3>1. PICK answer \in Answers(call[c].owner) :
            \/ /\ known' = View(call[c].owner, Valid(answer))
               /\ Size(View(call[c].owner, Valid(answer))) >= Size(known)
            \/ Mismatch(c)
      BY <2>2 DEF RetryAnswer, Adopt
    <3>2. CASE Mismatch(c)
      BY <2>0, <2>2, <3>2, MismatchTrue DEF RetryAnswer
    <3> QED  BY <2>0, <3>1, <3>2
  <2>3. ASSUME NEW c \in Slots, Fails(c) PROVE mismatches' >= Cycles
    BY <2>0, <2>3, MismatchTrue DEF Fails
  <2>4. ASSUME NEW c \in Slots, VerifyAnswer(c) PROVE mismatches' >= Cycles
    <3>1. Now(c, Idle) /\ Idle \in CallRecords /\ call[c].stage = "verifying"
      BY <2>4 DEF VerifyAnswer, End, CallRecords
    <3>2. d = c
      BY <3>1, OthersWait
    <3> QED  BY <3>1, <3>2 DEF Shrinks
  <2>5. ASSUME NEW c \in Slots, SetClient(c) PROVE mismatches' >= Cycles
    <3>1. /\ Now(c, [stage |-> "asking", owner |-> wallet]) /\ call[c] = Idle
          /\ [stage |-> "asking", owner |-> wallet] \in CallRecords
      BY <2>5 DEF SetClient, CallRecords, ReconcilerTypeOK
    <3>2. d = c
      BY <3>1, OthersWait
    <3> QED  BY <3>1, <3>2, CallTrue DEF Shrinks
  <2>6. \E c \in Slots :
          FirstAnswer(c) \/ RetryAnswer(c) \/ Fails(c) \/ VerifyAnswer(c) \/ SetClient(c)
    BY <2>0 DEF ReconcilerNext, Answered, Reconcile, Verify, Retry, Connect, Settle
  <2> QED  BY <2>1, <2>2, <2>3, <2>4, <2>5, <2>6
<1>2. [\A c \in Slots : Shrinks(c) => mismatches' >= Cycles]_reconcilerVars
      => [\A c \in Slots :
            /\ call[c].stage \in {"asking", "retrying"} /\ call'[c] = Idle
            /\ Size(known') < Size(known)
            => mismatches' >= Cycles]_reconcilerVars
  BY DEF Shrinks
<1> QED  BY <1>1, <1>2, ReconcilerTypeCorrect, PTL DEF ReconcilerSpec, ShrinksAfterCycles

-----------------------------------------------------------------------------
\* Numbers

\* Induction up to n, for a set.
LEMMA UpTo ==
  ASSUME NEW n \in Nat, NEW P, 0 \in P, \A k \in 0 .. (n - 1) : k \in P => k + 1 \in P
  PROVE  0 .. n \subseteq P
<1> SUFFICES ASSUME NEW m \in 0 .. n, m \notin P PROVE FALSE
  OBVIOUS
<1> DEFINE T == {k \in 0 .. n : k \notin P}
<1>1. T \subseteq Nat /\ T # {}
  OBVIOUS
<1> HIDE DEF T
<1>2. PICK x \in T : \A y \in T : ~(<<y, x>> \in OpToRel(<, Nat))
  BY <1>1, NatLessThanWellFounded, WFMin
<1>3. x \in 0 .. n /\ x \notin P /\ x # 0
  BY <1>2 DEF T
<1>4. x - 1 \in 0 .. (n - 1) /\ (x - 1) + 1 = x
  BY <1>3
<1>5. x - 1 \in T
  BY <1>3, <1>4 DEF T
<1>6. <<x - 1, x>> \in OpToRel(<, Nat)
  BY <1>1, <1>3, <1>5 DEF OpToRel
<1> QED  BY <1>2, <1>5, <1>6

\* A set of indices that is not empty has a last one.
LEMMA MaxTrue ==
  ASSUME NEW n \in Nat, NEW S \in SUBSET (1 .. n), S # {}
  PROVE  Max(S) \in S
<1> DEFINE P == {k \in Nat : \A R \in SUBSET (1 .. k) : R # {} => \E x \in R : \A y \in R : x >= y}
<1>1. 0 \in P
  <2>1. SUBSET (1 .. 0) = {{}}
    OBVIOUS
  <2> QED  BY <2>1
<1>2. ASSUME NEW k \in 0 .. (n - 1), k \in P PROVE k + 1 \in P
  <2> SUFFICES ASSUME NEW R \in SUBSET (1 .. (k + 1)), R # {}
               PROVE  \E x \in R : \A y \in R : x >= y
    OBVIOUS
  <2>1. CASE k + 1 \in R
    BY <2>1
  <2>2. CASE k + 1 \notin R
    <3>1. R \in SUBSET (1 .. k)
      BY <2>2
    <3> QED  BY <1>2, <3>1
  <2> QED  BY <2>1, <2>2
<1> HIDE DEF P
<1>3. n \in P
  BY <1>1, <1>2, UpTo
<1>4. \E x \in S : \A y \in S : x >= y
  BY <1>3 DEF P
<1> QED  BY <1>4 DEF Max

\* A part of an amount, in proportion: (x * a) \div s of x.
LEMMA ShareTrue ==
  ASSUME NEW x \in Nat, NEW a \in Nat, NEW s \in Positive, a <= s
  PROVE  /\ (x * a) \div s \in 0 .. x
         /\ a < s /\ x > 0 => (x * a) \div s < x
<1> DEFINE q == (x * a) \div s
<1>1. s \in Nat /\ s > 0 /\ x * a \in Nat
  BY DEF Positive, None
<1>2. q \in Int /\ s * q <= x * a /\ x * a < s * q + s
  BY <1>1
<1>3. q >= 0
  BY <1>1, <1>2
<1>4. x * a <= x * s
  <2> DEFINE r == s - a
  <2>1. r \in Nat /\ s = a + r
    BY <1>1
  <2> HIDE DEF r
  <2>2. x * s = x * a + x * r /\ x * r >= 0
    BY <2>1
  <2> QED  BY <1>1, <2>1, <2>2
<1>5. q <= x
  BY <1>1, <1>2, <1>4
<1>6. a < s /\ x > 0 => q < x
  BY <1>1, <1>2, <1>4
<1> HIDE DEF q
<1> QED  BY <1>2, <1>3, <1>5, <1>6 DEF q

-----------------------------------------------------------------------------
\* PaperTrading: the collateral of a list of positions

Position ==
  [market : Markets, side : Sides, entry : Positive, size : Positive, collateral : Positive,
   tp : Targets \union {None}, sl : Targets \union {None}]

\* f holds the partial sums.
IsSum(f, s) ==
  /\ f \in [0 .. Len(s) -> Int] /\ f[0] = 0
  /\ \A n \in 1 .. Len(s) : f[n] = f[n - 1] + s[n].collateral

LEMMA CollateralTyped ==
  ASSUME NEW s \in Seq(Position)
  PROVE  Len(s) \in Nat /\ \A n \in 1 .. Len(s) : s[n] \in Position /\ s[n].collateral \in Positive
<1>1. Len(s) \in Nat /\ \A n \in 1 .. Len(s) : s[n] \in Position
  OBVIOUS
<1>2. \A x \in Position : x.collateral \in Positive
  BY DEF Position
<1> QED  BY <1>1, <1>2

LEMMA SumExists ==
  ASSUME NEW s \in Seq(Position)
  PROVE  \E f : IsSum(f, s)
<1> DEFINE Partial(f, k) ==
             /\ f \in [0 .. k -> Int] /\ f[0] = 0
             /\ \A n \in 1 .. k : f[n] = f[n - 1] + s[n].collateral
<1> DEFINE P == {k \in 0 .. Len(s) : \E f : Partial(f, k)}
<1>1. Len(s) \in Nat /\ \A n \in 1 .. Len(s) : s[n].collateral \in Int
  BY CollateralTyped DEF Positive
<1>2. 0 \in P
  <2>1. Partial([n \in 0 .. 0 |-> 0], 0)
    OBVIOUS
  <2> HIDE DEF Partial
  <2> QED  BY <1>1, <2>1
<1>3. ASSUME NEW k \in 0 .. (Len(s) - 1), k \in P PROVE k + 1 \in P
  <2>1. PICK f : Partial(f, k)
    BY <1>3
  <2> DEFINE g == [n \in 0 .. (k + 1) |-> IF n = k + 1 THEN f[k] + s[k + 1].collateral ELSE f[n]]
  <2>2. k \in Nat /\ k + 1 \in 1 .. Len(s) /\ s[k + 1].collateral \in Int /\ f[k] \in Int
    BY <1>1, <2>1
  <2>3. g \in [0 .. (k + 1) -> Int] /\ g[0] = 0
    BY <2>1, <2>2
  <2>4. \A n \in 1 .. (k + 1) : g[n] = g[n - 1] + s[n].collateral
    <3> SUFFICES ASSUME NEW n \in 1 .. (k + 1) PROVE g[n] = g[n - 1] + s[n].collateral
      OBVIOUS
    <3>1. CASE n = k + 1
      BY <2>2, <3>1
    <3>2. CASE n \in 1 .. k
      BY <2>1, <2>2, <3>2
    <3> QED  BY <2>2, <3>1, <3>2
  <2>5. Partial(g, k + 1)
    BY <2>3, <2>4
  <2> HIDE DEF Partial, g
  <2> QED  BY <1>1, <2>2, <2>5
<1> HIDE DEF P
<1>4. Len(s) \in P
  <2>1. 0 .. Len(s) \subseteq P
    BY <1>1, <1>2, <1>3, UpTo
  <2> QED  BY <1>1, <2>1
<1> QED  BY <1>4 DEF P, IsSum

LEMMA PledgedIsSum ==
  ASSUME NEW s \in Seq(Position)
  PROVE  \E f : IsSum(f, s) /\ Pledged(s) = f[Len(s)]
<1> DEFINE Equation(f) ==
             f = [n \in 0 .. Len(s) |-> IF n = 0 THEN 0 ELSE f[n - 1] + s[n].collateral]
<1> DEFINE F == CHOOSE f : Equation(f)
<1>1. Len(s) \in Nat /\ \A n \in 1 .. Len(s) : s[n].collateral \in Int
  BY CollateralTyped DEF Positive
<1>2. \E f : Equation(f)
  <2>1. PICK f : IsSum(f, s)
    BY SumExists
  <2>2. Equation(f)
    BY <1>1, <2>1 DEF IsSum
  <2> QED  BY <2>2
<1>3. Equation(F)
  <2> HIDE DEF Equation
  <2> QED  BY <1>2
<1>4. Pledged(s) = F[Len(s)]
  BY DEF Pledged
<1> HIDE DEF F
<1>5. F[0] = 0 /\ \A n \in 1 .. Len(s) : F[n] = F[n - 1] + s[n].collateral
  BY <1>1, <1>3
<1>6. \A n \in 0 .. Len(s) : F[n] \in Int
  <2> DEFINE P == {k \in 0 .. Len(s) : F[k] \in Int}
  <2>1. 0 \in P
    BY <1>1, <1>5
  <2>2. ASSUME NEW k \in 0 .. (Len(s) - 1), k \in P PROVE k + 1 \in P
    <3>1. k + 1 \in 1 .. Len(s) /\ (k + 1) - 1 = k /\ F[k] \in Int
      BY <1>1, <2>2
    <3>2. F[k + 1] = F[k] + s[k + 1].collateral
      BY <1>5, <3>1
    <3> QED  BY <1>1, <3>1, <3>2
  <2> HIDE DEF P
  <2>3. 0 .. Len(s) \subseteq P
    BY <1>1, <2>1, <2>2, UpTo
  <2> QED  BY <2>3 DEF P
<1>7. F \in [0 .. Len(s) -> Int]
  BY <1>3, <1>6
<1> HIDE DEF Equation
<1> QED  BY <1>4, <1>5, <1>7 DEF IsSum

LEMMA PledgedEmpty == Pledged(<<>>) = 0
<1>1. <<>> \in Seq(Position) /\ Len(<<>>) = 0
  BY EmptySeq
<1>2. PICK f : IsSum(f, <<>>) /\ Pledged(<<>>) = f[Len(<<>>)]
  BY <1>1, PledgedIsSum
<1> QED  BY <1>1, <1>2 DEF IsSum

LEMMA PledgedAppend ==
  ASSUME NEW s \in Seq(Position), NEW t \in Seq(Position), Len(t) = Len(s) + 1,
         \A j \in 1 .. Len(s) : t[j] = s[j]
  PROVE  Pledged(t) = Pledged(s) + t[Len(t)].collateral
<1>1. PICK f : IsSum(f, s) /\ Pledged(s) = f[Len(s)]
  BY PledgedIsSum
<1>2. PICK g : IsSum(g, t) /\ Pledged(t) = g[Len(t)]
  BY PledgedIsSum
<1>3. Len(s) \in Nat
  OBVIOUS
<1> DEFINE P == {k \in 0 .. Len(s) : g[k] = f[k]}
<1>4. 0 \in P
  BY <1>1, <1>2, <1>3 DEF IsSum
<1>5. ASSUME NEW k \in 0 .. (Len(s) - 1), k \in P PROVE k + 1 \in P
  <2>1. k + 1 \in 1 .. Len(s) /\ k + 1 \in 1 .. Len(t) /\ (k + 1) - 1 = k /\ g[k] = f[k]
    BY <1>3, <1>5
  <2>2. g[k + 1] = g[k] + t[k + 1].collateral /\ f[k + 1] = f[k] + s[k + 1].collateral
    BY <1>1, <1>2, <2>1 DEF IsSum
  <2> QED  BY <2>1, <2>2
<1> HIDE DEF P
<1>6. Len(s) \in P
  <2>1. 0 .. Len(s) \subseteq P
    BY <1>3, <1>4, <1>5, UpTo
  <2> QED  BY <1>3, <2>1
<1>7. g[Len(t)] = g[Len(s)] + t[Len(t)].collateral
  <2>1. Len(t) \in 1 .. Len(t) /\ Len(t) - 1 = Len(s)
    BY <1>3
  <2> QED  BY <1>2, <2>1 DEF IsSum
<1> QED  BY <1>1, <1>2, <1>6, <1>7 DEF P

LEMMA PledgedUpdate ==
  ASSUME NEW s \in Seq(Position), NEW t \in Seq(Position), Len(t) = Len(s), NEW i \in 1 .. Len(s),
         \A j \in 1 .. Len(s) : j # i => t[j] = s[j]
  PROVE  Pledged(t) = Pledged(s) - s[i].collateral + t[i].collateral
<1>1. PICK f : IsSum(f, s) /\ Pledged(s) = f[Len(s)]
  BY PledgedIsSum
<1>2. PICK g : IsSum(g, t) /\ Pledged(t) = g[Len(t)]
  BY PledgedIsSum
<1>3. /\ Len(s) \in Nat /\ \A j \in 1 .. Len(s) : s[j].collateral \in Int /\ t[j].collateral \in Int
      /\ \A k \in 0 .. Len(s) : f[k] \in Int /\ g[k] \in Int
  BY <1>1, <1>2, CollateralTyped DEF Positive, IsSum
<1> DEFINE more(k) == IF k < i THEN 0 ELSE t[i].collateral - s[i].collateral
<1> DEFINE P == {k \in 0 .. Len(s) : g[k] = f[k] + more(k)}
<1>4. 0 \in P
  BY <1>1, <1>2, <1>3 DEF IsSum
<1>5. ASSUME NEW k \in 0 .. (Len(s) - 1), k \in P PROVE k + 1 \in P
  <2>1. k + 1 \in 1 .. Len(s) /\ (k + 1) - 1 = k /\ g[k] = f[k] + more(k)
    BY <1>3, <1>5
  <2>2. g[k + 1] = g[k] + t[k + 1].collateral /\ f[k + 1] = f[k] + s[k + 1].collateral
    BY <1>1, <1>2, <2>1 DEF IsSum
  <2>3. g[k + 1] = f[k + 1] + more(k + 1)
    <3>1. CASE k + 1 = i
      <4>1. more(k) = 0 /\ more(k + 1) = t[k + 1].collateral - s[k + 1].collateral
        BY <2>1, <3>1
      <4>2. f[k] \in Int /\ s[k + 1].collateral \in Int /\ t[k + 1].collateral \in Int
        BY <1>3, <2>1
      <4> HIDE DEF more
      <4> QED  BY <2>1, <2>2, <4>1, <4>2
    <3>2. CASE k + 1 # i
      <4>1. t[k + 1].collateral = s[k + 1].collateral /\ more(k + 1) = more(k)
        BY <1>3, <2>1, <3>2
      <4>2. more(k) \in Int /\ f[k] \in Int /\ s[k + 1].collateral \in Int
        BY <1>3, <2>1
      <4> HIDE DEF more
      <4> QED  BY <2>1, <2>2, <4>1, <4>2
    <3> QED  BY <3>1, <3>2
  <2> HIDE DEF more
  <2> QED  BY <2>1, <2>3
<1> HIDE DEF P
<1>6. Len(s) \in P
  <2>1. 0 .. Len(s) \subseteq P
    BY <1>3, <1>4, <1>5, UpTo
  <2> QED  BY <1>3, <2>1
<1>7. more(Len(s)) = t[i].collateral - s[i].collateral
  BY <1>3
<1>8. g[Len(s)] = f[Len(s)] + more(Len(s))
  BY <1>6 DEF P
<1> HIDE DEF more
<1> QED  BY <1>1, <1>2, <1>3, <1>7, <1>8

LEMMA WithoutTrue ==
  ASSUME NEW S, NEW s \in Seq(S), NEW i \in 1 .. Len(s)
  PROVE  /\ Without(s, i) \in Seq(S) /\ Len(Without(s, i)) = Len(s) - 1
         /\ \A j \in 1 .. (Len(s) - 1) : Without(s, i)[j] = IF j < i THEN s[j] ELSE s[j + 1]
<1> DEFINE a == SubSeq(s, 1, i - 1)
<1> DEFINE b == SubSeq(s, i + 1, Len(s))
<1>0. Len(s) \in Nat /\ \A j \in 1 .. Len(s) : s[j] \in S
  OBVIOUS
<1>1. a \in Seq(S) /\ Len(a) = i - 1 /\ \A j \in 1 .. (i - 1) : a[j] = s[j]
  BY <1>0, SubSeqProperties
<1>2. b \in Seq(S) /\ Len(b) = Len(s) - i /\ \A j \in 1 .. (Len(s) - i) : b[j] = s[i + j]
  BY <1>0, SubSeqProperties
<1>3. Without(s, i) = a \o b
  BY DEF Without
<1> HIDE DEF a, b
<1>4. /\ a \o b \in Seq(S) /\ Len(a \o b) = Len(a) + Len(b)
      /\ \A j \in 1 .. (Len(a) + Len(b)) : (a \o b)[j] = IF j <= Len(a) THEN a[j] ELSE b[j - Len(a)]
  BY <1>1, <1>2, ConcatProperties
<1>5. ASSUME NEW j \in 1 .. (Len(s) - 1)
      PROVE  (a \o b)[j] = IF j < i THEN s[j] ELSE s[j + 1]
  <2>0. j \in 1 .. (Len(a) + Len(b)) /\ Len(a) = i - 1 /\ i \in Int /\ j \in Int
    BY <1>0, <1>1, <1>2
  <2>1. CASE j < i
    <3>1. j \in 1 .. (i - 1) /\ j <= Len(a)
      BY <2>0, <2>1
    <3> QED  BY <1>1, <1>4, <2>0, <2>1, <3>1
  <2>2. CASE ~(j < i)
    <3>1. ~(j <= Len(a)) /\ j - Len(a) \in 1 .. (Len(s) - i) /\ i + (j - Len(a)) = j + 1
      BY <1>0, <2>0, <2>2
    <3> QED  BY <1>2, <1>4, <2>0, <2>2, <3>1
  <2> QED  BY <2>1, <2>2
<1> QED  BY <1>0, <1>1, <1>2, <1>3, <1>4, <1>5

LEMMA PledgedWithout ==
  ASSUME NEW s \in Seq(Position), NEW i \in 1 .. Len(s)
  PROVE  Pledged(Without(s, i)) = Pledged(s) - s[i].collateral
<1> DEFINE t == Without(s, i)
<1>0. /\ t \in Seq(Position) /\ Len(t) = Len(s) - 1 /\ Len(s) \in Nat
      /\ \A j \in 1 .. (Len(s) - 1) : t[j] = IF j < i THEN s[j] ELSE s[j + 1]
  BY WithoutTrue
<1> HIDE DEF t
<1>1. PICK f : IsSum(f, s) /\ Pledged(s) = f[Len(s)]
  BY PledgedIsSum
<1>2. PICK g : IsSum(g, t) /\ Pledged(t) = g[Len(t)]
  BY <1>0, PledgedIsSum
<1>3. /\ \A j \in 1 .. Len(s) : s[j].collateral \in Int
      /\ \A k \in 0 .. Len(s) : f[k] \in Int
      /\ \A k \in 0 .. Len(t) : g[k] \in Int
  <2>1. \A j \in 1 .. Len(s) : s[j].collateral \in Int
    BY CollateralTyped DEF Positive
  <2> QED  BY <1>1, <1>2, <2>1 DEF IsSum
<1> DEFINE part(k) == IF k < i THEN f[k] ELSE f[k + 1] - s[i].collateral
<1> DEFINE P == {k \in 0 .. Len(t) : g[k] = part(k)}
<1>4. 0 \in P
  BY <1>0, <1>1, <1>2 DEF IsSum
<1>5. ASSUME NEW k \in 0 .. (Len(t) - 1), k \in P PROVE k + 1 \in P
  <2>1. /\ k + 1 \in 1 .. Len(t) /\ (k + 1) - 1 = k /\ k + 2 \in 1 .. Len(s) /\ (k + 2) - 1 = k + 1
        /\ k + 1 \in 1 .. Len(s) /\ (k + 1) + 1 = k + 2 /\ g[k] = part(k)
    BY <1>0, <1>5
  <2>2. g[k + 1] = g[k] + t[k + 1].collateral
    BY <1>2, <2>1 DEF IsSum
  <2>3. /\ f[k + 1] = f[k] + s[k + 1].collateral
        /\ f[k + 2] = f[k + 1] + s[k + 2].collateral
    <3>1. \A n \in 1 .. Len(s) : f[n] = f[n - 1] + s[n].collateral
      BY <1>1 DEF IsSum
    <3> QED  BY <2>1, <3>1
  <2>4. /\ f[k] \in Int /\ f[k + 1] \in Int /\ f[k + 2] \in Int
        /\ s[k + 1].collateral \in Int /\ s[k + 2].collateral \in Int /\ s[i].collateral \in Int
    BY <1>0, <1>3, <2>1
  <2>5. g[k + 1] = part(k + 1)
    <3>1. CASE k + 1 < i
      <4>1. t[k + 1] = s[k + 1] /\ part(k + 1) = f[k + 1] /\ part(k) = f[k]
        BY <1>0, <2>1, <3>1
      <4> QED  BY <2>1, <2>2, <2>3, <4>1
    <3>2. CASE k + 1 = i
      <4>1. t[k + 1] = s[k + 2] /\ part(k + 1) = f[k + 2] - s[k + 1].collateral /\ part(k) = f[k]
        BY <1>0, <2>1, <3>2
      <4> HIDE DEF part
      <4> QED  BY <2>1, <2>2, <2>3, <2>4, <4>1
    <3>3. CASE k + 1 > i
      <4>1. /\ t[k + 1] = s[k + 2] /\ part(k + 1) = f[k + 2] - s[i].collateral
            /\ part(k) = f[k + 1] - s[i].collateral
        BY <1>0, <2>1, <3>3
      <4> HIDE DEF part
      <4> QED  BY <2>1, <2>2, <2>3, <2>4, <4>1
    <3> QED  BY <2>1, <3>1, <3>2, <3>3
  <2> HIDE DEF part
  <2> QED  BY <2>1, <2>5
<1> HIDE DEF P
<1>6. Len(t) \in P
  <2>0. Len(t) \in Nat
    BY <1>0
  <2>1. 0 .. Len(t) \subseteq P
    BY <1>4, <1>5, <2>0, UpTo
  <2> QED  BY <1>0, <2>1
<1>7. g[Len(t)] = part(Len(t))
  BY <1>6 DEF P
<1>8. part(Len(t)) = f[Len(s)] - s[i].collateral
  <2>1. CASE i = Len(s)
    <3>1. f[Len(s)] = f[Len(s) - 1] + s[Len(s)].collateral
      BY <1>0, <1>1, <2>1 DEF IsSum
    <3>2. f[Len(s) - 1] \in Int /\ s[Len(s)].collateral \in Int
      BY <1>0, <1>3, <2>1
    <3> QED  BY <1>0, <2>1, <3>1, <3>2
  <2>2. CASE i < Len(s)
    BY <1>0, <2>2
  <2> QED  BY <1>0, <2>1, <2>2
<1> HIDE DEF part
<1> QED  BY <1>1, <1>2, <1>7, <1>8 DEF t

LEMMA PledgedTyped == ASSUME NEW s \in Seq(Position) PROVE Pledged(s) \in Int
<1>1. PICK f : IsSum(f, s) /\ Pledged(s) = f[Len(s)]
  BY PledgedIsSum
<1> QED  BY <1>1 DEF IsSum

\* One position for a market and a side.
Distinct(s) == \A i, j \in DOMAIN s : s[i].market = s[j].market /\ s[i].side = s[j].side => i = j

\* Where s holds m less, and n more, it is t.
Worth(s, m, n, t) == Pledged(t) = Pledged(s) - m + n

LEMMA ChangeTrue ==
  ASSUME NEW s \in Seq(Position), Distinct(s), NEW i \in DOMAIN s, NEW q \in Position,
         q.market = s[i].market, q.side = s[i].side, NEW t, t = [s EXCEPT ![i] = q]
  PROVE  /\ t \in Seq(Position) /\ DOMAIN t = DOMAIN s /\ t[i] = q /\ Distinct(t)
         /\ \A j \in DOMAIN s : j # i => t[j] = s[j]
         /\ Worth(s, s[i].collateral, q.collateral, t)
<1>1. t \in Seq(Position) /\ Len(t) = Len(s) /\ DOMAIN s = 1 .. Len(s) /\ DOMAIN t = 1 .. Len(s)
  OBVIOUS
<1>2. t[i] = q /\ \A j \in DOMAIN s : j # i => t[j] = s[j]
  OBVIOUS
<1>3. Distinct(t)
  BY <1>1, <1>2 DEF Distinct
<1>4. Worth(s, s[i].collateral, q.collateral, t)
  BY <1>1, <1>2, PledgedUpdate DEF Worth
<1> QED  BY <1>1, <1>2, <1>3, <1>4

LEMMA AddTrue ==
  ASSUME NEW s \in Seq(Position), Distinct(s), NEW q \in Position,
         ~ \E i \in DOMAIN s : s[i].market = q.market /\ s[i].side = q.side
  PROVE  /\ Append(s, q) \in Seq(Position) /\ Distinct(Append(s, q))
         /\ Worth(s, 0, q.collateral, Append(s, q))
<1> DEFINE t == Append(s, q)
<1>1. /\ t \in Seq(Position) /\ Len(t) = Len(s) + 1 /\ Len(s) \in Nat
      /\ DOMAIN s = 1 .. Len(s) /\ DOMAIN t = 1 .. (Len(s) + 1)
      /\ t[Len(s) + 1] = q /\ \A j \in 1 .. Len(s) : t[j] = s[j]
  OBVIOUS
<1> HIDE DEF t
<1>2. Distinct(t)
  BY <1>1 DEF Distinct
<1>3. Worth(s, 0, q.collateral, t)
  <2>1. Pledged(t) = Pledged(s) + q.collateral
    BY <1>1, PledgedAppend
  <2>2. Pledged(s) \in Int /\ q.collateral \in Int
    <3>1. \A x \in Position : x.collateral \in Int
      BY DEF Position, Positive
    <3> QED  BY <3>1, PledgedTyped
  <2> DEFINE P == Pledged(s)
  <2> HIDE DEF P
  <2>3. P - 0 + q.collateral = P + q.collateral
    BY <2>2 DEF P
  <2> QED  BY <2>1, <2>3 DEF P, Worth
<1> QED  BY <1>1, <1>2, <1>3 DEF t

LEMMA DropTrue ==
  ASSUME NEW s \in Seq(Position), Distinct(s), NEW i \in DOMAIN s
  PROVE  /\ Without(s, i) \in Seq(Position) /\ Distinct(Without(s, i))
         /\ Worth(s, s[i].collateral, 0, Without(s, i))
<1> DEFINE t == Without(s, i)
<1>1. DOMAIN s = 1 .. Len(s) /\ Len(s) \in Nat
  OBVIOUS
<1>2. /\ t \in Seq(Position) /\ Len(t) = Len(s) - 1
      /\ \A j \in 1 .. (Len(s) - 1) : t[j] = IF j < i THEN s[j] ELSE s[j + 1]
      /\ Pledged(t) = Pledged(s) - s[i].collateral
  BY <1>1, WithoutTrue, PledgedWithout
<1> HIDE DEF t
<1>3. DOMAIN t = 1 .. (Len(s) - 1)
  BY <1>1, <1>2
<1> DEFINE from(j) == IF j < i THEN j ELSE j + 1
<1>4. \A j \in DOMAIN t : from(j) \in DOMAIN s /\ t[j] = s[from(j)]
  BY <1>1, <1>2, <1>3
<1>5. \A j, k \in DOMAIN t : from(j) = from(k) => j = k
  BY <1>1, <1>3
<1> HIDE DEF from
<1>6. Distinct(t)
  BY <1>4, <1>5 DEF Distinct
<1>7. Worth(s, s[i].collateral, 0, t)
  BY <1>1, <1>2, PledgedTyped, CollateralTyped DEF Worth, Positive
<1> QED  BY <1>2, <1>6, <1>7 DEF t

\* The position of a market and a side is where it is found.
LEMMA IndexTrue ==
  ASSUME positions \in Seq(Position), Distinct(positions), NEW market, NEW side, Exists(market, side)
  PROVE  /\ IndexOf(market, side) \in DOMAIN positions
         /\ positions[IndexOf(market, side)] \in Position
         /\ positions[IndexOf(market, side)].market = market
         /\ positions[IndexOf(market, side)].side = side
<1>1. PICK i \in DOMAIN positions : positions[i].market = market /\ positions[i].side = side
  BY DEF Exists, Matches
<1>2. Matches(market, side) = {i} /\ i \in Int /\ positions[i] \in Position
  BY <1>1 DEF Matches, Distinct
<1>3. IndexOf(market, side) = i
  BY <1>2 DEF IndexOf, Min
<1> QED  BY <1>1, <1>2, <1>3

LEMMA PercentTrue == ASSUME NEW r \in Nat, NEW x \in Nat PROVE Percent(r, x) \in Nat
<1>1. r * x \in Nat
  OBVIOUS
<1> HIDE DEF Percent
<1>2. \A y \in Nat : y \div 100 \in Nat
  OBVIOUS
<1> QED  BY <1>1, <1>2 DEF Percent

LEMMA ProductTrue == ASSUME NEW x \in Positive, NEW y \in Positive PROVE x * y \in Positive
BY DEF Positive

\* The average of two prices, weighted by sizes, is a price.
LEMMA AverageTrue ==
  ASSUME NEW e \in Positive, NEW s \in Positive, NEW f \in Positive, NEW o \in Positive
  PROVE  (e * s + f * o) \div (s + o) \in Positive
<1> DEFINE a == e * s + f * o
<1> DEFINE m == s + o
<1> DEFINE q == a \div m
<1>1. e * s \in Nat /\ f * o \in Nat /\ e * s >= s /\ f * o >= o /\ m \in Nat /\ m > 0
  <2>1. ASSUME NEW x \in Positive, NEW y \in Positive PROVE x * y \in Nat /\ x * y >= y
    <3>1. (x - 1) * y >= 0 /\ x * y = (x - 1) * y + y
      BY DEF Positive
    <3> QED  BY <3>1 DEF Positive
  <2> QED  BY <2>1 DEF Positive
<1>2. a \in Nat /\ a >= m
  BY <1>1 DEF Positive
<1> HIDE DEF a, m
<1>3. q \in Int /\ a < m * q + m
  BY <1>1, <1>2
<1>4. q > 0
  <2>1. CASE q <= 0
    <3>1. m * q <= 0
      BY <1>1, <1>3, <2>1
    <3> QED  BY <1>1, <1>2, <1>3, <3>1
  <2> QED  BY <1>3, <2>1
<1> HIDE DEF q
<1>5. q \in Positive
  BY <1>3, <1>4 DEF Positive
<1> QED  BY <1>5 DEF q, a, m

-----------------------------------------------------------------------------
\* PaperTrading: the inductive invariant

\* The stages of a call that is inside the lock and waits for something there.
Awaiting == {"scanning", "pricing", "charging"}

\* The amounts are positive, the positions well formed, and the money accounted for.
Accounted ==
  /\ balance \in Nat /\ realized \in Int /\ fees \in Nat /\ forgiven \in Nat
  /\ price \in [Markets -> Prices \union {None}]
  /\ positions \in Seq(Position) /\ Distinct(positions)
  /\ Conservation

\* The chain of tradeLock holds each call that waits once, and only its head is inside.
Queue ==
  /\ lock \in Seq(Calls)
  /\ \A i, j \in DOMAIN lock : lock[i] = lock[j] => i = j
  /\ stage \in [Calls -> Stages]
  /\ \A i \in DOMAIN lock : stage[lock[i]] \in {"queued"} \union Awaiting
  /\ \A c \in Calls : stage[c] = "queued" => \E i \in DOMAIN lock : lock[i] = c
  /\ \A c \in Calls : stage[c] \in Awaiting => Inside(c)

Asked ==
  /\ request \in [Calls -> RequestRecords \union {[op |-> "none"]}]
  /\ \A c \in Calls :
       /\ stage[c] # "idle" => request[c] \in RequestRecords
       /\ stage[c] = "scanning" => request[c].op = "positions"
       /\ stage[c] = "pricing" => request[c].op # "add"
       /\ stage[c] = "charging" => request[c].op \in {"open", "close", "positions"}

Opens(x) == x.fill \in Positive /\ x.size \in Positive

\* What a close was priced at is a part of the position it names.
Closes(x) ==
  /\ x.index \in DOMAIN positions /\ x.full \in BOOLEAN /\ x.pnl \in Int
  /\ x.size \in Nat /\ x.collateral \in Nat
  /\ IF x.full
       THEN /\ x.size = positions[x.index].size
            /\ x.collateral = positions[x.index].collateral
       ELSE /\ x.size < positions[x.index].size
            /\ x.collateral < positions[x.index].collateral

Ready(c) ==
  /\ request[c].op = "open" => Opens(plan[c])
  /\ request[c].op \in {"close", "positions"} => Closes(plan[c])
  /\ request[c].op = "close" =>
       /\ positions[plan[c].index].market = request[c].market
       /\ positions[plan[c].index].side = request[c].side

Planned ==
  /\ plan = [c \in Calls |-> plan[c]]
  /\ \A c \in Calls : stage[c] = "charging" => Ready(c)

PaperInv == Accounted /\ Queue /\ Asked /\ Planned

-----------------------------------------------------------------------------
\* PaperTrading: the chain of calls

LEMMA InsideTrue ==
  ASSUME Queue, NEW c \in Calls, Inside(c)
  PROVE  /\ 1 \in DOMAIN lock /\ lock[1] = c /\ Len(lock) \in Nat /\ DOMAIN lock = 1 .. Len(lock)
         /\ Place(c) = 1
         /\ \A d \in Calls : d # c => stage[d] \notin Awaiting
<1>1. Len(lock) \in Nat /\ DOMAIN lock = 1 .. Len(lock) /\ lock # <<>>
  BY DEF Queue, Inside
<1>2. 1 \in DOMAIN lock /\ lock[1] = c
  BY <1>1 DEF Queue, Inside
<1>3. Place(c) = 1
  BY <1>2 DEF Place, Queue
<1>4. \A d \in Calls : Inside(d) => d = c
  BY DEF Inside
<1> QED  BY <1>1, <1>2, <1>3, <1>4 DEF Queue

LEMMA MoveTrue ==
  ASSUME Queue, NEW c \in Calls, NEW s \in Stages, MoveTo(c, s)
  PROVE  /\ stage' \in [Calls -> Stages] /\ stage'[c] = s
         /\ \A d \in Calls : d # c => stage'[d] = stage[d]
BY DEF Queue, MoveTo

LEMMA StayTrue ==
  ASSUME Queue, NEW c \in Calls, Inside(c), NEW s \in Awaiting, MoveTo(c, s), UNCHANGED lock
  PROVE  Queue'
<1>1. s \in Stages
  BY DEF Awaiting, Stages
<1> QED  BY <1>1, MoveTrue, InsideTrue DEF Queue, Inside

LEMMA JoinTrue ==
  ASSUME Queue, NEW c \in Calls, stage[c] \in {"idle", "looking"}, MoveTo(c, "queued"),
         lock' = Append(lock, c)
  PROVE  Queue'
<1>1. /\ stage' \in [Calls -> Stages] /\ stage'[c] = "queued"
      /\ \A d \in Calls : d # c => stage'[d] = stage[d]
  <2>1. "queued" \in Stages
    BY DEF Stages
  <2> QED  BY <2>1, MoveTrue
<1>2. /\ lock' \in Seq(Calls) /\ Len(lock') = Len(lock) + 1 /\ Len(lock) \in Nat
      /\ DOMAIN lock = 1 .. Len(lock) /\ DOMAIN lock' = 1 .. (Len(lock) + 1)
      /\ lock'[Len(lock) + 1] = c /\ \A j \in 1 .. Len(lock) : lock'[j] = lock[j]
  BY DEF Queue
<1>3. \A i \in DOMAIN lock : lock[i] # c /\ lock[i] \in Calls
  BY DEF Queue, Awaiting
<1>4. \A i, j \in DOMAIN lock' : lock'[i] = lock'[j] => i = j
  BY <1>2, <1>3 DEF Queue
<1>5. \A i \in DOMAIN lock' : stage'[lock'[i]] \in {"queued"} \union Awaiting
  BY <1>1, <1>2, <1>3 DEF Queue
<1>6. ASSUME NEW d \in Calls, stage'[d] \in Awaiting PROVE Inside(d)'
  <2>1. stage[d] \in Awaiting
    BY <1>1, <1>6 DEF Awaiting
  <2>2. Inside(d)
    BY <2>1 DEF Queue
  <2>3. lock'[1] = d
    BY <1>2, <2>2, InsideTrue
  <2> QED  BY <1>2, <2>3 DEF Inside
<1>7. ASSUME NEW d \in Calls, stage'[d] = "queued" PROVE \E i \in DOMAIN lock' : lock'[i] = d
  <2>1. CASE d = c
    BY <1>2, <2>1
  <2>2. CASE d # c
    <3>1. PICK i \in DOMAIN lock : lock[i] = d
      BY <1>1, <1>7, <2>2 DEF Queue
    <3> QED  BY <1>2, <3>1
  <2> QED  BY <2>1, <2>2
<1> QED  BY <1>1, <1>2, <1>4, <1>5, <1>6, <1>7 DEF Queue

LEMMA LeaveTrue ==
  ASSUME Queue, NEW c \in Calls, Inside(c), NEW ok, Leave(c, ok)
  PROVE  Queue'
<1>1. /\ stage' \in [Calls -> Stages] /\ stage'[c] = "done"
      /\ \A d \in Calls : d # c => stage'[d] = stage[d]
  <2>1. "done" \in Stages
    BY DEF Stages
  <2> QED  BY <2>1, MoveTrue DEF Leave
<1>2. /\ 1 \in 1 .. Len(lock) /\ lock[1] = c /\ Len(lock) \in Nat /\ DOMAIN lock = 1 .. Len(lock)
      /\ lock' = Without(lock, 1) /\ lock \in Seq(Calls)
  BY InsideTrue DEF Leave, Queue
<1>3. /\ lock' \in Seq(Calls) /\ Len(lock') = Len(lock) - 1
      /\ \A j \in 1 .. (Len(lock) - 1) : lock'[j] = lock[j + 1]
  <2>1. /\ Without(lock, 1) \in Seq(Calls) /\ Len(Without(lock, 1)) = Len(lock) - 1
        /\ \A j \in 1 .. (Len(lock) - 1) : Without(lock, 1)[j] = IF j < 1 THEN lock[j] ELSE lock[j + 1]
    BY <1>2, WithoutTrue
  <2>2. \A j \in 1 .. (Len(lock) - 1) : ~(j < 1)
    OBVIOUS
  <2>3. lock' = Without(lock, 1)
    BY <1>2
  <2> QED  BY <2>1, <2>2, <2>3
<1>4. DOMAIN lock' = 1 .. (Len(lock) - 1)
  BY <1>2, <1>3
<1>5. \A j \in DOMAIN lock' : j + 1 \in DOMAIN lock /\ lock[j + 1] # c /\ lock[j + 1] \in Calls
  BY <1>2, <1>4 DEF Queue
<1>6. \A i, j \in DOMAIN lock' : lock'[i] = lock'[j] => i = j
  BY <1>2, <1>3, <1>4, <1>5 DEF Queue
<1>7. \A i \in DOMAIN lock' : stage'[lock'[i]] \in {"queued"} \union Awaiting
  BY <1>1, <1>3, <1>4, <1>5 DEF Queue
<1>8. \A d \in Calls : stage'[d] \notin Awaiting
  BY <1>1, InsideTrue DEF Awaiting
<1>9. ASSUME NEW d \in Calls, stage'[d] = "queued" PROVE \E i \in DOMAIN lock' : lock'[i] = d
  <2>1. d # c /\ stage[d] = "queued"
    BY <1>1, <1>9
  <2>2. PICK i \in 1 .. Len(lock) : lock[i] = d
    BY <1>2, <2>1 DEF Queue
  <2>3. i - 1 \in 1 .. (Len(lock) - 1) /\ (i - 1) + 1 = i
    BY <1>2, <2>1, <2>2
  <2> QED  BY <1>3, <1>4, <2>2, <2>3
<1> QED  BY <1>1, <1>3, <1>6, <1>7, <1>8, <1>9 DEF Queue

\* A call that is inside moves on: only what it is about to do is to be shown.
LEMMA MovedTrue ==
  ASSUME Queue, Asked, Planned, NEW c \in Calls, Inside(c), stage[c] # "idle",
         NEW s \in Stages, MoveTo(c, s), UNCHANGED request, plan' = [d \in Calls |-> plan'[d]],
         s = "scanning" => request[c].op = "positions",
         s = "pricing" => request[c].op # "add",
         s = "charging" => request[c].op \in {"open", "close", "positions"} /\ Ready(c)'
  PROVE  Asked' /\ Planned'
<1>1. stage'[c] = s /\ \A d \in Calls : d # c => stage'[d] = stage[d] /\ stage'[d] \notin Awaiting
  BY MoveTrue, InsideTrue
<1>2. Asked'
  BY <1>1 DEF Asked
<1>3. ASSUME NEW d \in Calls, stage'[d] = "charging" PROVE Ready(d)'
  BY <1>1, <1>3 DEF Awaiting
<1> QED  BY <1>2, <1>3 DEF Planned

LEMMA LeftTrue ==
  ASSUME Queue, Asked, Planned, NEW c \in Calls, Inside(c), stage[c] # "idle", NEW ok, Leave(c, ok),
         UNCHANGED <<request, plan>>
  PROVE  Queue' /\ Asked' /\ Planned'
<1>1. MoveTo(c, "done") /\ "done" \in Stages
  BY DEF Leave, Stages
<1>2. plan' = [d \in Calls |-> plan'[d]]
  BY DEF Planned
<1> QED  BY <1>1, <1>2, LeaveTrue, MovedTrue

LEMMA RefreshedTrue ==
  ASSUME Accounted, Refreshed
  PROVE  price' \in [Markets -> Prices \union {None}]
BY DEF Accounted, Refreshed

\* The account is as it was.
LEMMA KeptTrue ==
  ASSUME Accounted, UNCHANGED account, price' \in [Markets -> Prices \union {None}]
  PROVE  Accounted'
BY DEF Accounted, account, Conservation

\* Where the positions hold m less and n more, the rest of the account agrees.
Balanced(m, n) ==
  balance' - balance + n - m = (realized' - realized) - (fees' - fees) + (forgiven' - forgiven)

LEMMA BalanceTrue ==
  ASSUME balance \in Int, realized \in Int, fees \in Int, forgiven \in Int,
         balance' \in Int, realized' \in Int, fees' \in Int, forgiven' \in Int,
         Pledged(positions) \in Int, NEW m \in Int, NEW n \in Int,
         Conservation, Worth(positions, m, n, positions'), Balanced(m, n)
  PROVE  Conservation'
<1> DEFINE P == Pledged(positions)
<1> DEFINE P2 == Pledged(positions')
<1>1. P2 = P - m + n /\ P \in Int /\ balance + P = InitialBalance + realized - fees + forgiven
  BY DEF Worth, Conservation
<1>2. balance' - balance + n - m = (realized' - realized) - (fees' - fees) + (forgiven' - forgiven)
  BY DEF Balanced
<1>3. InitialBalance \in Int
  BY PaperAssumption
<1> HIDE DEF P, P2
<1>4. balance' + P2 = InitialBalance + realized' - fees' + forgiven'
  BY <1>1, <1>2, <1>3
<1> QED  BY <1>4 DEF Conservation, P2

\* The money follows the collateral.
LEMMA MoneyTrue ==
  ASSUME Accounted, positions' \in Seq(Position), Distinct(positions'),
         NEW m \in Int, NEW n \in Int, Worth(positions, m, n, positions'), Balanced(m, n),
         balance' \in Nat, realized' \in Int, fees' \in Nat, forgiven' \in Nat,
         price' \in [Markets -> Prices \union {None}]
  PROVE  Accounted'
<1>1. Pledged(positions) \in Int
  BY PledgedTyped DEF Accounted
<1>2. /\ balance \in Int /\ realized \in Int /\ fees \in Int /\ forgiven \in Int
      /\ balance' \in Int /\ realized' \in Int /\ fees' \in Int /\ forgiven' \in Int
  BY DEF Accounted
<1>3. Conservation'
  BY <1>1, <1>2, BalanceTrue DEF Accounted
<1> QED  BY <1>3 DEF Accounted

-----------------------------------------------------------------------------
\* PaperTrading: the steps

LEMMA PaperStart == PaperInit => PaperInv
<1> SUFFICES ASSUME PaperInit PROVE PaperInv
  OBVIOUS
<1>1. Accounted
  <2>1. positions \in Seq(Position) /\ Distinct(positions) /\ Pledged(positions) = 0
    BY PledgedEmpty, EmptySeq DEF PaperInit, Distinct
  <2>2. price \in [Markets -> Prices \union {None}]
    BY DEF PaperInit
  <2>3. balance + Pledged(positions) = InitialBalance + realized - fees + forgiven
    BY <2>1, PaperAssumption DEF PaperInit
  <2> QED  BY <2>1, <2>2, <2>3, PaperAssumption DEF PaperInit, Accounted, Conservation
<1>2. Queue
  BY EmptySeq DEF PaperInit, Queue, Stages, Awaiting
<1>3. Asked
  BY DEF PaperInit, Asked
<1>4. Planned
  BY DEF PaperInit, Planned
<1> QED  BY <1>1, <1>2, <1>3, <1>4 DEF PaperInv

LEMMA CallStep == ASSUME PaperInv, NEW c \in Calls, Call(c) PROVE PaperInv'
<1> USE DEF PaperInv
<1>1. PICK r \in Requests[c] : request' = [request EXCEPT ![c] = r]
  BY DEF Call
<1>2. r \in RequestRecords /\ stage[c] = "idle" /\ UNCHANGED <<account, price, plan>>
  BY PaperAssumption DEF Call
<1>3. request' \in [Calls -> RequestRecords \union {[op |-> "none"]}]
  BY <1>1, <1>2 DEF Asked
<1>4. request'[c] = r /\ \A d \in Calls : d # c => request'[d] = request[d]
  BY <1>1 DEF Asked
<1>5. \/ MoveTo(c, "looking") /\ UNCHANGED lock
      \/ MoveTo(c, "queued") /\ lock' = Append(lock, c)
  BY DEF Call
<1>6. /\ stage' \in [Calls -> Stages] /\ stage'[c] \in {"looking", "queued"}
      /\ \A d \in Calls : d # c => stage'[d] = stage[d]
  <2>1. "looking" \in Stages /\ "queued" \in Stages
    BY DEF Stages
  <2> QED  BY <1>5, <2>1, MoveTrue
<1>7. Queue'
  <2>1. CASE MoveTo(c, "queued") /\ lock' = Append(lock, c)
    BY <1>2, <2>1, JoinTrue
  <2>2. CASE UNCHANGED lock /\ MoveTo(c, "looking")
    <3>1. \A i \in DOMAIN lock : lock[i] # c /\ lock[i] \in Calls
      BY <1>2 DEF Queue, Awaiting
    <3> QED  BY <1>6, <2>2, <3>1, MoveTrue DEF Queue, Inside, Awaiting, Stages
  <2> QED  BY <1>5, <2>1, <2>2
<1>8. Accounted'
  BY <1>2, KeptTrue DEF Accounted
<1>9. Asked'
  BY <1>2, <1>3, <1>4, <1>6 DEF Asked
<1>10. Planned'
  <2>1. ASSUME NEW d \in Calls, stage'[d] = "charging" PROVE Ready(d)'
    <3>1. d # c /\ stage[d] = "charging" /\ request'[d] = request[d] /\ UNCHANGED <<plan, positions>>
      BY <1>2, <1>4, <1>6, <2>1 DEF account
    <3> QED  BY <3>1 DEF Planned, Ready, Closes, Opens
  <2> QED  BY <1>2, <2>1 DEF Planned
<1> QED  BY <1>7, <1>8, <1>9, <1>10

LEMMA LookedStep == ASSUME PaperInv, NEW c \in Calls, Looked(c) PROVE PaperInv'
<1> USE DEF PaperInv
<1>1. /\ stage[c] = "looking" /\ MoveTo(c, "queued") /\ lock' = Append(lock, c)
      /\ UNCHANGED <<account, request, plan>> /\ Refreshed
  BY DEF Looked
<1>2. /\ stage' \in [Calls -> Stages] /\ stage'[c] = "queued"
      /\ \A d \in Calls : d # c => stage'[d] = stage[d]
  <2>1. "queued" \in Stages
    BY DEF Stages
  <2> QED  BY <1>1, <2>1, MoveTrue
<1>3. Queue'
  BY <1>1, JoinTrue
<1>4. Accounted'
  BY <1>1, RefreshedTrue, KeptTrue
<1>5. Asked'
  BY <1>1, <1>2 DEF Asked
<1>6. Planned'
  <2>1. ASSUME NEW d \in Calls, stage'[d] = "charging" PROVE Ready(d)'
    <3>1. d # c /\ stage[d] = "charging" /\ UNCHANGED <<request, plan, positions>>
      BY <1>1, <1>2, <2>1 DEF account
    <3> QED  BY <3>1 DEF Planned, Ready, Closes, Opens
  <2> QED  BY <1>1, <2>1 DEF Planned
<1> QED  BY <1>3, <1>4, <1>5, <1>6

\* A call that is inside gives up.
LEMMA RefusedStep ==
  ASSUME PaperInv, NEW c \in Calls, Inside(c), stage[c] # "idle", NEW ok, Leave(c, ok),
         UNCHANGED account, UNCHANGED <<request, plan>>,
         price' \in [Markets -> Prices \union {None}]
  PROVE  PaperInv'
BY LeftTrue, KeptTrue DEF PaperInv

LEMMA EnterStep == ASSUME PaperInv, NEW c \in Calls, Enter(c) PROVE PaperInv'
<1> USE DEF PaperInv
<1>1. /\ Inside(c) /\ stage[c] = "queued" /\ request[c].op # "add"
      /\ UNCHANGED <<account, price, lock, request>>
  BY DEF Enter, Holds
<1>2. PICK s \in {"scanning", "pricing"} :
        /\ MoveTo(c, s) /\ plan' = [d \in Calls |-> plan'[d]]
        /\ s = "scanning" => request[c].op = "positions"
  <2>1. CASE request[c].op = "positions"
    BY <2>1 DEF Enter, Planned
  <2>2. CASE request[c].op # "positions"
    BY <2>2 DEF Enter, Planned
  <2> QED  BY <2>1, <2>2
<1>3. s \in Awaiting /\ s \in Stages /\ s # "charging"
  BY DEF Awaiting, Stages
<1>4. Queue'
  BY <1>1, <1>2, <1>3, StayTrue
<1>5. Asked' /\ Planned'
  BY <1>1, <1>2, <1>3, MovedTrue
<1>6. Accounted'
  BY <1>1, KeptTrue DEF Accounted
<1> QED  BY <1>4, <1>5, <1>6

LEMMA ScanStep == ASSUME PaperInv, NEW c \in Calls, Scan(c) PROVE PaperInv'
<1> USE DEF PaperInv
<1>1. /\ stage[c] = "scanning" /\ Inside(c) /\ request[c].op = "positions"
      /\ UNCHANGED <<account, price, request>>
  BY DEF Scan, Queue, Asked, Awaiting
<1>2. CASE Leave(c, TRUE) /\ UNCHANGED plan
  BY <1>1, <1>2, RefusedStep DEF Accounted
<1>3. CASE MoveTo(c, "pricing") /\ UNCHANGED lock /\ plan' = [d \in Calls |-> plan'[d]]
  <2>1. "pricing" \in Awaiting /\ "pricing" \in Stages
    BY DEF Awaiting, Stages
  <2>2. Queue'
    BY <1>1, <1>3, <2>1, StayTrue
  <2>3. Asked' /\ Planned'
    BY <1>1, <1>3, <2>1, MovedTrue
  <2>4. Accounted'
    BY <1>1, KeptTrue DEF Accounted
  <2> QED  BY <2>2, <2>3, <2>4
<1>4. \/ Leave(c, TRUE) /\ UNCHANGED plan
      \/ MoveTo(c, "pricing") /\ UNCHANGED lock /\ \E v : plan' = [plan EXCEPT ![c] = v]
  BY DEF Scan
<1> QED  BY <1>2, <1>3, <1>4 DEF Planned

\* What is asked for, and the prices, where an operation is priced.
LEMMA RequestTrue ==
  ASSUME Asked, NEW c \in Calls, stage[c] # "idle"
  PROVE  /\ request[c].op \in {"open", "close", "add", "remove", "positions"}
         /\ request[c].op \in {"open", "close", "add", "remove"} =>
              request[c].market \in Markets /\ request[c].side \in Sides
         /\ request[c].op = "open" => request[c].collateral \in Positive
         /\ request[c].op = "close" => request[c].percent \in Nat /\ request[c].amount \in Nat
         /\ request[c].op \in {"add", "remove"} => request[c].amount \in Positive
<1>1. request[c] \in RequestRecords
  BY DEF Asked
<1>2. ASSUME NEW r \in RequestRecords
      PROVE  /\ r.op \in {"open", "close", "add", "remove", "positions"}
             /\ r.op \in {"open", "close", "add", "remove"} => r.market \in Markets /\ r.side \in Sides
             /\ r.op = "open" => r.collateral \in Positive
             /\ r.op = "close" => r.percent \in Nat /\ r.amount \in Nat
             /\ r.op \in {"add", "remove"} => r.amount \in Positive
  <2>1. CASE r \in [op : {"open"}, market : Markets, side : Sides, collateral : Positive, leverage : Nat]
    BY <2>1
  <2>2. CASE r \in [op : {"close"}, market : Markets, side : Sides, percent : 0..100, amount : Nat]
    BY <2>2
  <2>3. CASE r \in [op : {"add", "remove"}, market : Markets, side : Sides, amount : Positive]
    BY <2>3
  <2>4. CASE r \in [op : {"positions"}]
    BY <2>4
  <2> QED  BY <1>2, <2>1, <2>2, <2>3, <2>4 DEF RequestRecords
<1> QED  BY <1>1, <1>2

LEMMA FillTrue ==
  ASSUME NEW p \in Prices, NEW side PROVE FillPrice(side, p) \in Positive
BY PaperAssumption DEF FillPrice, Positive

LEMMA PriceOpenStep ==
  ASSUME PaperInv, NEW c \in Calls, stage[c] = "pricing", Refreshed, UNCHANGED request,
         request[c].op = "open", PriceOpen(c), UNCHANGED account
  PROVE  PaperInv'
<1> USE DEF PaperInv
<1> DEFINE r == request[c]
<1>1. Inside(c) /\ price' \in [Markets -> Prices \union {None}]
  BY RefreshedTrue DEF Queue, Awaiting
<1>2. CASE Leave(c, FALSE) /\ UNCHANGED plan
  BY <1>1, <1>2, RefusedStep
<1>3. CASE /\ r.leverage \in Leverages /\ price'[r.market] # None
           /\ plan' = [plan EXCEPT ![c] = [fill |-> FillPrice(r.side, price'[r.market]),
                                           size |-> r.collateral * r.leverage]]
           /\ MoveTo(c, "charging") /\ UNCHANGED lock
  <2>1. r.market \in Markets /\ r.collateral \in Positive /\ r.leverage \in Positive
    BY <1>3, RequestTrue, PaperAssumption
  <2>2. price'[r.market] \in Prices
    BY <1>1, <1>3, <2>1
  <2>3. r.collateral * r.leverage \in Positive
    BY <2>1, ProductTrue
  <2>4. plan'[c].fill \in Positive /\ plan'[c].size \in Positive /\ plan' = [d \in Calls |-> plan'[d]]
    BY <1>3, <2>2, <2>3, FillTrue DEF Planned
  <2>5. Ready(c)'
    BY <2>4 DEF Ready, Opens
  <2>6. "charging" \in Awaiting /\ "charging" \in Stages
    BY DEF Awaiting, Stages
  <2>7. Queue'
    BY <1>1, <1>3, <2>6, StayTrue
  <2>8. Asked' /\ Planned'
    BY <1>1, <1>3, <2>4, <2>5, <2>6, MovedTrue
  <2>9. Accounted'
    BY <1>1, KeptTrue
  <2> QED  BY <2>7, <2>8, <2>9
<1> QED  BY <1>2, <1>3 DEF PriceOpen

LEMMA PnlTrue ==
  ASSUME NEW pos \in Position, NEW p \in Int
  PROVE  FullPnl(pos, p) \in Int
<1>1. pos.entry \in Int /\ pos.entry > 0 /\ pos.size \in Int
  BY DEF Position, Positive
<1>2. (p - pos.entry) * pos.size \in Int
  BY <1>1
<1>3. ((p - pos.entry) * pos.size) \div pos.entry \in Int
  <2> DEFINE n == (p - pos.entry) * pos.size
  <2>1. n \in Int
    BY <1>2
  <2> HIDE DEF n
  <2>2. n \div pos.entry \in Int
    BY <1>1, <2>1
  <2> QED  BY <2>2 DEF n
<1> DEFINE g == ((p - pos.entry) * pos.size) \div pos.entry
<1>4. FullPnl(pos, p) = IF pos.side = "long" THEN g ELSE -g
  BY DEF FullPnl
<1>5. g \in Int
  BY <1>3
<1> HIDE DEF g
<1> QED  BY <1>4, <1>5

LEMMA PriceCloseStep ==
  ASSUME PaperInv, NEW c \in Calls, stage[c] = "pricing", Refreshed, UNCHANGED request,
         request[c].op \in {"close", "positions"},
         NEW market, NEW side, NEW percent \in Nat, NEW amount \in Nat,
         request[c].op = "close" => market = request[c].market /\ side = request[c].side,
         PriceClose(c, market, side, percent, amount), UNCHANGED account
  PROVE  PaperInv'
<1> USE DEF PaperInv
<1> DEFINE i == IndexOf(market, side)
<1> DEFINE pos == positions[i]
<1> DEFINE asked == IF percent = 100 /\ amount > 0 THEN amount ELSE Percent(percent, pos.size)
<1> DEFINE full == pos.size - asked < Dust \/ NearlyAll(asked, pos.size)
<1> DEFINE size == IF full THEN pos.size ELSE (pos.size * asked) \div pos.size
<1> DEFINE collateral == IF full THEN pos.collateral ELSE (pos.collateral * asked) \div pos.size
<1> DEFINE whole == FullPnl(pos, price'[market])
<1> DEFINE pnl == IF full THEN whole ELSE (whole * asked) \div pos.size
<1> DEFINE cursor == IF request[c].op = "positions" THEN plan[c].cursor ELSE 0
<1>1. Inside(c) /\ price' \in [Markets -> Prices \union {None}]
  BY RefreshedTrue DEF Queue, Awaiting
<1>2. CASE Leave(c, FALSE) /\ UNCHANGED plan
  BY <1>1, <1>2, RefusedStep
<1>3. CASE /\ Exists(market, side) /\ price'[market] # None /\ asked <= pos.size
           /\ plan' = [plan EXCEPT ![c] = [index |-> i, full |-> full, size |-> size,
                                           collateral |-> collateral, pnl |-> pnl, cursor |-> cursor]]
           /\ MoveTo(c, "charging") /\ UNCHANGED lock
  <2>1. /\ i \in DOMAIN positions /\ pos \in Position
        /\ pos.market = market /\ pos.side = side
    BY <1>3, IndexTrue DEF Accounted
  <2>2. pos.size \in Positive /\ pos.collateral \in Positive /\ market \in Markets
    BY <2>1 DEF Position
  <2>3. asked \in Nat
    BY <2>2, PercentTrue DEF Positive
  <2>4. whole \in Int
    <3>1. price'[market] \in Int
      BY <1>1, <1>3, <2>2, PaperAssumption DEF Positive
    <3> QED  BY <2>1, <3>1, PnlTrue
  <2>5. Dust \in Nat /\ Dust > 0
    BY PaperAssumption DEF Positive
  <2> HIDE DEF i, pos, asked, whole
  <2>6. full \in BOOLEAN
    OBVIOUS
  <2>7. IF full THEN size = pos.size /\ collateral = pos.collateral
        ELSE /\ size \in Nat /\ size < pos.size
             /\ collateral \in Nat /\ collateral < pos.collateral
    <3>1. CASE full
      BY <3>1
    <3>2. CASE ~full
      <4>1. asked < pos.size /\ asked <= pos.size /\ pos.size > 0 /\ pos.collateral > 0
        BY <2>2, <2>3, <2>5, <3>2 DEF Positive
      <4>2. /\ (pos.size * asked) \div pos.size \in 0 .. pos.size
            /\ (pos.size * asked) \div pos.size < pos.size
        BY <2>2, <2>3, <4>1, ShareTrue DEF Positive
      <4>3. /\ (pos.collateral * asked) \div pos.size \in 0 .. pos.collateral
            /\ (pos.collateral * asked) \div pos.size < pos.collateral
        BY <2>2, <2>3, <4>1, ShareTrue DEF Positive
      <4> QED  BY <2>2, <3>2, <4>2, <4>3 DEF Positive
    <3> QED  BY <3>1, <3>2
  <2>8. pnl \in Int
    <3> DEFINE n == whole * asked
    <3>1. n \in Int
      BY <2>3, <2>4
    <3> HIDE DEF n
    <3>2. n \div pos.size \in Int
      BY <2>2, <3>1 DEF Positive
    <3> QED  BY <2>4, <3>2 DEF n
  <2> HIDE DEF full, size, collateral, pnl, cursor
  <2>9. /\ plan'[c].index = i /\ plan'[c].full = full /\ plan'[c].size = size
        /\ plan'[c].collateral = collateral /\ plan'[c].pnl = pnl
        /\ plan' = [d \in Calls |-> plan'[d]]
    BY <1>3 DEF Planned
  <2>10. positions' = positions /\ pos = positions[i]
    BY DEF account, pos
  <2>11. Closes(plan[c])'
    BY <2>1, <2>2, <2>6, <2>7, <2>8, <2>9, <2>10 DEF Closes, Positive
  <2>12. Ready(c)'
    BY <2>1, <2>9, <2>10, <2>11 DEF Ready
  <2>13. "charging" \in Awaiting /\ "charging" \in Stages
    BY DEF Awaiting, Stages
  <2>14. Queue'
    BY <1>1, <1>3, <2>13, StayTrue
  <2>15. Asked' /\ Planned'
    BY <1>1, <1>3, <2>9, <2>12, <2>13, MovedTrue
  <2>16. Accounted'
    BY <1>1, KeptTrue
  <2> QED  BY <2>14, <2>15, <2>16
<1> QED  BY <1>2, <1>3 DEF PriceClose

\* A close takes its part of the position, and the account gets what it is worth.
LEMMA SettleTrue ==
  ASSUME Accounted, NEW c \in Calls, Closes(plan[c]), SettleClose(c), UNCHANGED price
  PROVE  Accounted'
<1> DEFINE x == plan[c]
<1> DEFINE fee == Percent(FeePercent, x.size)
<1> DEFINE pos == positions[x.index]
<1>1. /\ positions \in Seq(Position) /\ Distinct(positions) /\ x.index \in DOMAIN positions
      /\ pos \in Position
  BY DEF Accounted, Closes
<1>2. pos.size \in Positive /\ pos.collateral \in Positive
  BY <1>1 DEF Position
<1>3. x.size \in Nat /\ x.collateral \in Nat /\ x.pnl \in Int /\ x.full \in BOOLEAN
  BY DEF Closes
<1>4. fee \in Nat
  BY <1>3, PercentTrue, PaperAssumption
<1>5. /\ positions' \in Seq(Position) /\ Distinct(positions')
      /\ \E m, n \in Int : m - n = x.collateral /\ Worth(positions, m, n, positions')
  <2>1. CASE x.full
    <3>1. positions' = Without(positions, x.index) /\ x.collateral = pos.collateral
      BY <2>1 DEF SettleClose, Closes
    <3>2. /\ positions' \in Seq(Position) /\ Distinct(positions')
          /\ Worth(positions, pos.collateral, 0, positions')
      BY <1>1, <3>1, DropTrue
    <3>3. pos.collateral \in Int /\ 0 \in Int /\ pos.collateral - 0 = x.collateral
      BY <1>2, <3>1 DEF Positive
    <3> QED  BY <3>2, <3>3
  <2>2. CASE ~x.full
    <3> DEFINE q == [pos EXCEPT !.size = @ - x.size, !.collateral = @ - x.collateral]
    <3>1. positions' = [positions EXCEPT ![x.index] = q]
      BY <1>1, <2>2 DEF SettleClose, Reduced
    <3>2. x.size < pos.size /\ x.collateral < pos.collateral
      BY <2>2 DEF Closes
    <3>3. pos.size - x.size \in Positive /\ pos.collateral - x.collateral \in Positive
      BY <1>2, <1>3, <3>2 DEF Positive
    <3>4. q \in Position /\ q.market = pos.market /\ q.side = pos.side
      BY <1>1, <3>3 DEF Position
    <3>5. q.collateral = pos.collateral - x.collateral
      BY <1>1 DEF Position
    <3> HIDE DEF q
    <3> DEFINE i == x.index
    <3>6. /\ positions' \in Seq(Position) /\ Distinct(positions')
          /\ Worth(positions, pos.collateral, q.collateral, positions')
      <4>1. /\ positions \in Seq(Position) /\ Distinct(positions) /\ i \in DOMAIN positions
            /\ pos = positions[i] /\ positions' = [positions EXCEPT ![i] = q]
        BY <1>1, <3>1
      <4> HIDE DEF i, pos
      <4> QED  BY <3>4, <4>1, ChangeTrue
    <3>7. pos.collateral \in Int /\ q.collateral \in Int /\ pos.collateral - q.collateral = x.collateral
      BY <1>2, <1>3, <3>5 DEF Positive
    <3> QED  BY <3>6, <3>7
  <2> QED  BY <1>3, <2>1, <2>2
<1>6. PICK m, n \in Int : m - n = x.collateral /\ Worth(positions, m, n, positions')
  BY <1>5
<1>7. /\ balance' = balance + Greater(x.collateral + x.pnl - fee, 0) /\ fees' = fees + fee
      /\ realized' = realized + x.pnl /\ forgiven' = forgiven + Greater(fee - x.collateral - x.pnl, 0)
  BY DEF SettleClose, Return
<1>8. balance \in Nat /\ realized \in Int /\ fees \in Nat /\ forgiven \in Nat
  BY DEF Accounted
<1> HIDE DEF x, fee
<1>9. balance' \in Nat /\ realized' \in Int /\ fees' \in Nat /\ forgiven' \in Nat
  BY <1>3, <1>4, <1>7, <1>8 DEF Greater
<1>10. Balanced(m, n)
  BY <1>3, <1>4, <1>6, <1>7, <1>8 DEF Greater, Balanced
<1>11. price' \in [Markets -> Prices \union {None}]
  BY DEF Accounted
<1> QED  BY <1>5, <1>6, <1>9, <1>10, <1>11, MoneyTrue

LEMMA ChargedCloseStep ==
  ASSUME PaperInv, NEW c \in Calls, Charged(c), request[c].op \in {"close", "positions"}
  PROVE  PaperInv'
<1> USE DEF PaperInv
<1>1. /\ stage[c] = "charging" /\ Inside(c) /\ Closes(plan[c]) /\ SettleClose(c)
      /\ UNCHANGED <<price, request>>
  BY DEF Charged, Queue, Awaiting, Planned, Ready
<1>2. Accounted'
  BY <1>1, SettleTrue
<1>3. CASE Leave(c, TRUE) /\ UNCHANGED plan
  BY <1>1, <1>2, <1>3, LeftTrue
<1>4. CASE /\ MoveTo(c, "scanning") /\ UNCHANGED lock /\ request[c].op = "positions"
           /\ plan' = [plan EXCEPT ![c] = [cursor |-> plan[c].cursor]]
  <2>1. "scanning" \in Awaiting /\ "scanning" \in Stages
    BY DEF Awaiting, Stages
  <2>2. Queue'
    BY <1>1, <1>4, <2>1, StayTrue
  <2>3. plan' = [d \in Calls |-> plan'[d]]
    BY <1>4 DEF Planned
  <2>4. Asked' /\ Planned'
    BY <1>1, <1>4, <2>1, <2>3, MovedTrue
  <2> QED  BY <1>2, <2>2, <2>4
<1> QED  BY <1>3, <1>4 DEF Charged

LEMMA CommitOpenStep ==
  ASSUME PaperInv, NEW c \in Calls, Charged(c), request[c].op = "open"
  PROVE  PaperInv'
<1> USE DEF PaperInv
<1> DEFINE r == request[c]
<1> DEFINE o == plan[c]
<1> DEFINE fee == Percent(FeePercent, o.size)
<1> DEFINE opened == [market |-> r.market, side |-> r.side, entry |-> o.fill, size |-> o.size,
                      collateral |-> r.collateral, tp |-> None, sl |-> None]
<1> DEFINE Merged(p) ==
             [p EXCEPT !.entry = (p.entry * p.size + o.fill * o.size) \div (p.size + o.size),
                       !.size = @ + o.size, !.collateral = @ + r.collateral]
<1>1. /\ stage[c] = "charging" /\ Inside(c) /\ CommitOpen(c) /\ UNCHANGED plan
      /\ UNCHANGED <<price, request>>
  BY DEF Charged, Queue, Awaiting
<1>2. o.fill \in Positive /\ o.size \in Positive
  BY <1>1 DEF Planned, Ready, Opens
<1>3. r.market \in Markets /\ r.side \in Sides /\ r.collateral \in Positive
  BY <1>1, RequestTrue
<1>4. fee \in Nat
  BY <1>2, PercentTrue, PaperAssumption DEF Positive
<1>5. /\ positions \in Seq(Position) /\ Distinct(positions) /\ balance \in Nat /\ fees \in Nat
      /\ realized \in Int /\ forgiven \in Nat /\ price' \in [Markets -> Prices \union {None}]
  BY <1>1 DEF Accounted
<1>6. CASE Leave(c, FALSE) /\ UNCHANGED account
  BY <1>1, <1>5, <1>6, RefusedStep
<1>7. CASE /\ ~(r.collateral + fee > balance)
           /\ balance' = balance - (r.collateral + fee) /\ fees' = fees + fee
           /\ positions' = IF Exists(r.market, r.side)
                             THEN [positions EXCEPT ![IndexOf(r.market, r.side)] = Merged(@)]
                             ELSE Append(positions, opened)
           /\ Leave(c, TRUE) /\ UNCHANGED <<realized, forgiven>>
  <2>1. /\ positions' \in Seq(Position) /\ Distinct(positions')
        /\ \E m, n \in Int : n - m = r.collateral /\ Worth(positions, m, n, positions')
    <3>1. CASE Exists(r.market, r.side)
      <4> DEFINE i == IndexOf(r.market, r.side)
      <4> DEFINE pos == positions[i]
      <4> DEFINE q == Merged(pos)
      <4>1. i \in DOMAIN positions /\ pos \in Position
        BY <1>5, <3>1, IndexTrue
      <4>2. positions' = [positions EXCEPT ![i] = q]
        BY <1>7, <3>1, <4>1
      <4>3. pos.size \in Positive /\ pos.collateral \in Positive /\ pos.entry \in Positive
        BY <4>1 DEF Position
      <4> HIDE DEF i, pos, r, o
      <4>4. (pos.entry * pos.size + o.fill * o.size) \div (pos.size + o.size) \in Positive
        BY <1>2, <4>3, AverageTrue
      <4>5. pos.size + o.size \in Positive /\ pos.collateral + r.collateral \in Positive
        BY <1>2, <1>3, <4>3 DEF Positive
      <4>6. /\ q \in Position /\ q.market = pos.market /\ q.side = pos.side
            /\ q.collateral = pos.collateral + r.collateral
        BY <4>1, <4>4, <4>5 DEF Position
      <4> HIDE DEF q
      <4>7. /\ positions' \in Seq(Position) /\ Distinct(positions')
            /\ Worth(positions, pos.collateral, q.collateral, positions')
        BY <1>5, <4>1, <4>2, <4>6, ChangeTrue DEF pos
      <4>8. /\ pos.collateral \in Int /\ q.collateral \in Int
            /\ q.collateral - pos.collateral = r.collateral
        BY <1>3, <4>3, <4>6 DEF Positive
      <4> QED  BY <4>7, <4>8
    <3>2. CASE ~Exists(r.market, r.side)
      <4>1. positions' = Append(positions, opened)
        BY <1>7, <3>2
      <4>2. opened \in Position
        BY <1>2, <1>3 DEF Position
      <4>3. ~ \E i \in DOMAIN positions :
                positions[i].market = opened.market /\ positions[i].side = opened.side
        BY <3>2 DEF Exists, Matches
      <4>4. opened.collateral = r.collateral
        OBVIOUS
      <4> HIDE DEF opened
      <4>5. /\ positions' \in Seq(Position) /\ Distinct(positions')
            /\ Worth(positions, 0, opened.collateral, positions')
        BY <1>5, <4>1, <4>2, <4>3, AddTrue
      <4>6. 0 \in Int /\ opened.collateral \in Int /\ opened.collateral - 0 = r.collateral
        BY <1>3, <4>4 DEF Positive
      <4> QED  BY <4>5, <4>6
    <3> QED  BY <3>1, <3>2
  <2>2. PICK m, n \in Int : n - m = r.collateral /\ Worth(positions, m, n, positions')
    BY <2>1
  <2> HIDE DEF r, o, fee
  <2>3. balance' \in Nat /\ fees' \in Nat /\ realized' \in Int /\ forgiven' \in Nat
    BY <1>3, <1>4, <1>5, <1>7 DEF Positive
  <2>4. Balanced(m, n)
    BY <1>3, <1>4, <1>5, <1>7, <2>2 DEF Balanced, Positive
  <2>5. Accounted'
    BY <1>5, <2>1, <2>2, <2>3, <2>4, MoneyTrue
  <2>6. Queue' /\ Asked' /\ Planned'
    BY <1>1, <1>7, LeftTrue
  <2> QED  BY <2>5, <2>6
<1> QED  BY <1>1, <1>6, <1>7 DEF CommitOpen

LEMMA RemoveStep ==
  ASSUME PaperInv, NEW c \in Calls, stage[c] = "pricing", Refreshed, UNCHANGED request,
         request[c].op = "remove", Remove(c), UNCHANGED plan
  PROVE  PaperInv'
<1> USE DEF PaperInv
<1> DEFINE r == request[c]
<1> DEFINE i == IndexOf(r.market, r.side)
<1> DEFINE pos == positions[i]
<1>1. Inside(c) /\ price' \in [Markets -> Prices \union {None}]
  BY RefreshedTrue DEF Queue, Awaiting
<1>2. CASE Leave(c, FALSE) /\ UNCHANGED account
  BY <1>1, <1>2, RefusedStep
<1>3. CASE /\ Exists(r.market, r.side) /\ pos.collateral - r.amount > 0
           /\ positions' = [positions EXCEPT ![i].collateral = pos.collateral - r.amount]
           /\ balance' = balance + r.amount
           /\ Leave(c, TRUE) /\ UNCHANGED <<realized, fees, forgiven>>
  <2> DEFINE q == [pos EXCEPT !.collateral = pos.collateral - r.amount]
  <2>1. /\ positions \in Seq(Position) /\ Distinct(positions)
        /\ i \in DOMAIN positions /\ pos \in Position /\ r.amount \in Positive
    BY <1>3, IndexTrue, RequestTrue DEF Accounted
  <2>2. pos.collateral \in Positive /\ pos.collateral - r.amount \in Positive
    <3>1. pos.collateral \in Positive
      BY <2>1 DEF Position
    <3> QED  BY <1>3, <2>1, <3>1 DEF Positive
  <2>3. positions' = [positions EXCEPT ![i] = q]
    BY <1>3, <2>1
  <2>4. q \in Position /\ q.market = pos.market /\ q.side = pos.side
    BY <2>1, <2>2 DEF Position
  <2>5. q.collateral = pos.collateral - r.amount
    BY <2>1 DEF Position
  <2> HIDE DEF q, i
  <2>6. /\ positions' \in Seq(Position) /\ Distinct(positions')
        /\ Worth(positions, pos.collateral, q.collateral, positions')
    BY <2>1, <2>3, <2>4, ChangeTrue
  <2> DEFINE m == pos.collateral
  <2> DEFINE n == q.collateral
  <2>7. m \in Int /\ n \in Int /\ n - m = -r.amount
    BY <2>1, <2>2, <2>5 DEF Positive
  <2>8. /\ balance \in Nat /\ realized \in Int /\ fees \in Nat /\ forgiven \in Nat
        /\ r.amount \in Nat
    BY <2>1 DEF Accounted, Positive
  <2> HIDE DEF m, n, r, pos
  <2>9. balance' \in Nat /\ realized' \in Int /\ fees' \in Nat /\ forgiven' \in Nat
    BY <1>3, <2>8
  <2>10. Balanced(m, n)
    BY <1>3, <2>7, <2>8 DEF Balanced
  <2>11. Accounted'
    BY <1>1, <2>6, <2>7, <2>9, <2>10, MoneyTrue DEF m, n
  <2>12. Queue' /\ Asked' /\ Planned'
    BY <1>1, <1>3, LeftTrue
  <2> QED  BY <2>11, <2>12
<1> QED  BY <1>2, <1>3 DEF Remove

LEMMA AddStep == ASSUME PaperInv, NEW c \in Calls, Add(c) PROVE PaperInv'
<1> USE DEF PaperInv
<1> DEFINE r == request[c]
<1> DEFINE i == IndexOf(r.market, r.side)
<1> DEFINE pos == positions[i]
<1>1. /\ Inside(c) /\ stage[c] = "queued" /\ r.op = "add" /\ UNCHANGED <<price, request, plan>>
      /\ price' \in [Markets -> Prices \union {None}]
  BY DEF Add, Holds, Accounted
<1>2. CASE Leave(c, FALSE) /\ UNCHANGED account
  BY <1>1, <1>2, RefusedStep
<1>3. CASE /\ r.amount <= balance /\ Exists(r.market, r.side)
           /\ balance' = balance - r.amount
           /\ positions' = [positions EXCEPT ![i].collateral = @ + r.amount]
           /\ Leave(c, TRUE) /\ UNCHANGED <<realized, fees, forgiven>>
  <2> DEFINE q == [pos EXCEPT !.collateral = pos.collateral + r.amount]
  <2>1. /\ positions \in Seq(Position) /\ Distinct(positions)
        /\ i \in DOMAIN positions /\ pos \in Position /\ r.amount \in Positive
    BY <1>1, <1>3, IndexTrue, RequestTrue DEF Accounted
  <2>2. pos.collateral \in Positive /\ pos.collateral + r.amount \in Positive
    <3>1. pos.collateral \in Positive
      BY <2>1 DEF Position
    <3> QED  BY <2>1, <3>1 DEF Positive
  <2>3. positions' = [positions EXCEPT ![i] = q]
    BY <1>3, <2>1
  <2>4. q \in Position /\ q.market = pos.market /\ q.side = pos.side
    BY <2>1, <2>2 DEF Position
  <2>5. q.collateral = pos.collateral + r.amount
    BY <2>1 DEF Position
  <2> HIDE DEF q, i
  <2>6. /\ positions' \in Seq(Position) /\ Distinct(positions')
        /\ Worth(positions, pos.collateral, q.collateral, positions')
    BY <2>1, <2>3, <2>4, ChangeTrue
  <2> DEFINE m == pos.collateral
  <2> DEFINE n == q.collateral
  <2>7. m \in Int /\ n \in Int /\ n - m = r.amount
    BY <2>1, <2>2, <2>5 DEF Positive
  <2>8. /\ balance \in Nat /\ realized \in Int /\ fees \in Nat /\ forgiven \in Nat
        /\ r.amount \in Nat
    BY <2>1 DEF Accounted, Positive
  <2> HIDE DEF m, n, r, pos
  <2>9. balance' \in Nat /\ realized' \in Int /\ fees' \in Nat /\ forgiven' \in Nat
    BY <1>3, <2>8
  <2>10. Balanced(m, n)
    BY <1>3, <2>7, <2>8 DEF Balanced
  <2>11. Accounted'
    BY <1>1, <2>6, <2>7, <2>9, <2>10, MoneyTrue DEF m, n
  <2>12. Queue' /\ Asked' /\ Planned'
    BY <1>1, <1>3, LeftTrue
  <2> QED  BY <2>11, <2>12
<1> QED  BY <1>1, <1>2, <1>3 DEF Add

\* New triggers change nothing else, whoever is inside.
LEMMA TriggersTrue ==
  ASSUME PaperInv, NEW i \in DOMAIN positions, NEW q \in Position,
         q.market = positions[i].market, q.side = positions[i].side,
         q.size = positions[i].size, q.collateral = positions[i].collateral,
         positions' = [positions EXCEPT ![i] = q],
         UNCHANGED <<balance, realized, fees, forgiven, price, lock, stage, request, plan>>
  PROVE  PaperInv'
<1> USE DEF PaperInv
<1>1. positions \in Seq(Position) /\ Distinct(positions) /\ positions[i] \in Position
  BY DEF Accounted
<1>2. /\ positions' \in Seq(Position) /\ DOMAIN positions' = DOMAIN positions /\ Distinct(positions')
      /\ positions'[i] = q /\ \A j \in DOMAIN positions : j # i => positions'[j] = positions[j]
      /\ Worth(positions, positions[i].collateral, q.collateral, positions')
  BY <1>1, ChangeTrue
<1>3. Accounted'
  <2> DEFINE m == q.collateral
  <2>1. m \in Int
    BY DEF Position, Positive
  <2>2. Worth(positions, m, m, positions')
    BY <1>2
  <2>3. /\ balance \in Nat /\ realized \in Int /\ fees \in Nat /\ forgiven \in Nat
        /\ balance' \in Nat /\ realized' \in Int /\ fees' \in Nat /\ forgiven' \in Nat
        /\ price' \in [Markets -> Prices \union {None}]
    BY DEF Accounted
  <2> HIDE DEF m
  <2>4. Balanced(m, m)
    BY <2>1, <2>3 DEF Balanced
  <2> QED  BY <1>2, <2>1, <2>2, <2>3, <2>4, MoneyTrue
<1>4. Queue'
  BY DEF Queue, Inside
<1>5. Asked'
  BY DEF Asked
<1>6. Planned'
  <2> SUFFICES ASSUME NEW c \in Calls, stage[c] = "charging" PROVE Ready(c)'
    BY DEF Planned
  <2>1. Ready(c)
    BY DEF Planned
  <2>2. \A j \in DOMAIN positions :
           /\ positions'[j].market = positions[j].market /\ positions'[j].side = positions[j].side
           /\ positions'[j].size = positions[j].size
           /\ positions'[j].collateral = positions[j].collateral
    BY <1>2
  <2>3. Closes(plan[c]) => Closes(plan[c])'
    BY <1>2, <2>2 DEF Closes
  <2>4. request[c].op = "close" => plan[c].index \in DOMAIN positions
    BY <2>1 DEF Ready, Closes
  <2> QED  BY <2>1, <2>2, <2>3, <2>4 DEF Ready, Opens
<1> QED  BY <1>3, <1>4, <1>5, <1>6

LEMMA TpSlStep ==
  ASSUME PaperInv, NEW i \in DOMAIN positions,
         NEW tp \in Targets \union {None}, NEW sl \in Targets \union {None},
         SetTpSl(i, tp, sl) \/ RemoveTpSl(i)
  PROVE  PaperInv'
<1> DEFINE pos == positions[i]
<1>1. positions \in Seq(Position) /\ pos \in Position
  BY DEF PaperInv, Accounted
<1>2. PICK t, l \in Targets \union {None} : positions' = [positions EXCEPT ![i] = [pos EXCEPT !.tp = t, !.sl = l]]
  <2>1. CASE SetTpSl(i, tp, sl)
    <3> DEFINE t == IF tp = None THEN pos.tp ELSE tp
    <3> DEFINE l == IF sl = None THEN pos.sl ELSE sl
    <3>1. t \in Targets \union {None} /\ l \in Targets \union {None}
      BY <1>1 DEF Position
    <3>2. positions' = [positions EXCEPT ![i] = [pos EXCEPT !.tp = t, !.sl = l]]
      BY <1>1, <2>1 DEF SetTpSl, Position
    <3> QED  BY <3>1, <3>2
  <2>2. CASE RemoveTpSl(i)
    BY <1>1, <2>2 DEF RemoveTpSl, Position
  <2> QED  BY <2>1, <2>2
<1> DEFINE q == [pos EXCEPT !.tp = t, !.sl = l]
<1>3. /\ q \in Position /\ q.market = pos.market /\ q.side = pos.side
      /\ q.size = pos.size /\ q.collateral = pos.collateral
  BY <1>1 DEF Position
<1>4. UNCHANGED <<balance, realized, fees, forgiven, price, lock, stage, request, plan>>
  BY DEF SetTpSl, RemoveTpSl
<1> HIDE DEF q
<1> QED  BY <1>2, <1>3, <1>4, TriggersTrue DEF q

LEMMA PricedStep == ASSUME PaperInv, NEW c \in Calls, Priced(c) PROVE PaperInv'
<1>1. /\ stage[c] = "pricing" /\ Refreshed /\ UNCHANGED request
      /\ request[c].op \in {"open", "close", "remove", "positions"}
  BY RequestTrue DEF Priced, PaperInv, Asked
<1>2. CASE request[c].op = "open"
  BY <1>1, <1>2, PriceOpenStep DEF Priced
<1>3. CASE request[c].op = "close"
  <2> DEFINE r == request[c]
  <2>1. PriceClose(c, r.market, r.side, r.percent, r.amount) /\ UNCHANGED account
    BY <1>3 DEF Priced
  <2>2. PICK market, side, percent, amount :
          market = r.market /\ side = r.side /\ percent = r.percent /\ amount = r.amount
    OBVIOUS
  <2>3. percent \in Nat /\ amount \in Nat
    BY <1>1, <1>3, <2>2, RequestTrue DEF PaperInv
  <2>4. PriceClose(c, market, side, percent, amount)
    BY <2>1, <2>2
  <2> QED  BY <1>1, <1>3, <2>1, <2>2, <2>3, <2>4, PriceCloseStep
<1>4. CASE request[c].op = "positions"
  <2>1. PriceClose(c, plan[c].market, plan[c].side, 100, 0) /\ UNCHANGED account
    BY <1>4 DEF Priced
  <2>2. PICK market, side : market = plan[c].market /\ side = plan[c].side
    OBVIOUS
  <2>3. PriceClose(c, market, side, 100, 0)
    BY <2>1, <2>2
  <2>4. 100 \in Nat /\ 0 \in Nat /\ request[c].op \in {"close", "positions"} /\ request[c].op # "close"
    BY <1>4
  <2> QED  BY <1>1, <2>1, <2>3, <2>4, PriceCloseStep
<1>5. CASE request[c].op = "remove"
  BY <1>1, <1>5, RemoveStep DEF Priced
<1> QED  BY <1>1, <1>2, <1>3, <1>4, <1>5

LEMMA PaperStep == PaperInv /\ [PaperNext]_paperVars => PaperInv'
<1> SUFFICES ASSUME PaperInv, [PaperNext]_paperVars PROVE PaperInv'
  OBVIOUS
<1>1. ASSUME NEW c \in Calls, Charged(c) PROVE PaperInv'
  <2>1. request[c].op \in {"open", "close", "positions"}
    BY <1>1 DEF Charged, PaperInv, Asked
  <2> QED  BY <1>1, <2>1, CommitOpenStep, ChargedCloseStep
<1>2. ASSUME NEW c \in Calls, Call(c) \/ Step(c) PROVE PaperInv'
  BY <1>1, <1>2, CallStep, LookedStep, EnterStep, PricedStep, AddStep, ScanStep DEF Step
<1>3. ASSUME NEW i \in DOMAIN positions,
             (\E tp, sl \in Targets \union {None} : SetTpSl(i, tp, sl)) \/ RemoveTpSl(i)
      PROVE  PaperInv'
  BY <1>3, TpSlStep
<1>4. CASE UNCHANGED paperVars
  <2>1. UNCHANGED <<balance, positions, realized, fees, forgiven, price, lock, stage, request, plan>>
    BY <1>4 DEF paperVars, account
  <2> QED  BY <2>1 DEF PaperInv, Accounted, Queue, Asked, Planned, Ready, Opens, Closes, Conservation, Inside
<1> QED  BY <1>2, <1>3, <1>4 DEF PaperNext

LEMMA PaperHolds == PaperSpec => []PaperInv
BY PaperStart, PaperStep, PTL DEF PaperSpec

-----------------------------------------------------------------------------
\* PaperTrading: what follows

\* The account keeps its type, with one position for a market and a side.
THEOREM PaperTypeCorrect == PaperSpec => []PaperTypeOK
<1>1. PaperInv => PaperTypeOK
  <2> SUFFICES ASSUME PaperInv PROVE PaperTypeOK
    OBVIOUS
  <2>1. \A i \in DOMAIN positions : positions[i].market \in Markets /\ positions[i].side \in Sides
    <3>1. \A i \in DOMAIN positions : positions[i] \in Position
      BY DEF PaperInv, Accounted
    <3> QED  BY <3>1 DEF Position
  <2> QED  BY <2>1 DEF PaperInv, Accounted, Queue, Distinct, PaperTypeOK
<1> QED  BY <1>1, PaperHolds, PTL

\* No money is made or lost, through merges, partial closes, triggers and overlapping
\* calls (_openPosition, _closePosition, _removeCollateral, _addCollateral).
THEOREM ConservationHolds == PaperSpec => []Conservation
<1>1. PaperInv => Conservation
  BY DEF PaperInv, Accounted
<1> QED  BY <1>1, PaperHolds, PTL

\* The balance never goes below zero, and what is open has a size and collateral.
THEOREM SolventHolds == PaperSpec => []Solvent
<1>1. PaperInv => Solvent
  <2> SUFFICES ASSUME PaperInv PROVE Solvent
    OBVIOUS
  <2>1. \A i \in DOMAIN positions : positions[i].size > 0 /\ positions[i].collateral > 0
    <3>1. \A i \in DOMAIN positions : positions[i] \in Position
      BY DEF PaperInv, Accounted
    <3>2. \A q \in Position : q.size > 0 /\ q.collateral > 0
      BY DEF Position, Positive
    <3> QED  BY <3>1, <3>2
  <2> QED  BY <2>1 DEF PaperInv, Accounted, Solvent
<1> QED  BY <1>1, PaperHolds, PTL

\* A close settles the position it was priced for: nobody moves the positions while
\* it waits for the fee rates (_closePosition).
THEOREM PlanIsCurrentHolds == PaperSpec => []PlanIsCurrent
<1>1. PaperInv => PlanIsCurrent
  <2> SUFFICES ASSUME PaperInv, NEW c \in Calls, stage[c] = "charging", request[c].op = "close"
               PROVE  /\ plan[c].index \in DOMAIN positions
                      /\ positions[plan[c].index].market = request[c].market
                      /\ positions[plan[c].index].side = request[c].side
                      /\ plan[c].size <= positions[plan[c].index].size
    BY DEF PlanIsCurrent
  <2>1. Ready(c) /\ Closes(plan[c])
    BY DEF PaperInv, Planned, Ready
  <2>2. plan[c].size <= positions[plan[c].index].size
    <3>1. positions[plan[c].index].size \in Nat /\ plan[c].size \in Nat
      <4>1. positions[plan[c].index] \in Position
        BY <2>1 DEF PaperInv, Accounted, Closes
      <4> QED  BY <2>1, <4>1 DEF Position, Positive, Closes
    <3> QED  BY <2>1, <3>1 DEF Closes
  <2> QED  BY <2>1, <2>2 DEF Ready, Closes
<1> QED  BY <1>1, PaperHolds, PTL

\* One call at a time is inside the lock, and none that waits is left out of the chain
\* or blocked in it by one that has left (withTradeLock).
THEOREM ChainKeptHolds == PaperSpec => []ChainKept
<1>1. PaperInv => ChainKept
  <2> SUFFICES ASSUME PaperInv PROVE ChainKept
    OBVIOUS
  <2>1. ASSUME NEW c \in Calls, stage[c] \in Awaiting PROVE \E i \in DOMAIN lock : lock[i] = c
    <3>1. Inside(c)
      BY <2>1 DEF PaperInv, Queue
    <3> QED  BY <3>1, InsideTrue DEF PaperInv
  <2> QED  BY <2>1 DEF PaperInv, Queue, ChainKept, Awaiting
<1> QED  BY <1>1, PaperHolds, PTL

LEMMA TriggersKeepHoldings ==
  ASSUME PaperInv, NEW i \in DOMAIN positions,
         (\E tp, sl \in Targets \union {None} : SetTpSl(i, tp, sl)) \/ RemoveTpSl(i)
  PROVE  UNCHANGED <<balance, realized, fees, forgiven, Holdings>>
<1>1. positions \in Seq(Position) /\ \A j \in DOMAIN positions : positions[j] \in Position
  BY DEF PaperInv, Accounted
<1>2. PICK t, l : positions' = [positions EXCEPT ![i].tp = t, ![i].sl = l]
  BY DEF SetTpSl, RemoveTpSl
<1>3. DOMAIN positions' = DOMAIN positions
  BY <1>1, <1>2
<1>4. \A j \in DOMAIN positions :
         /\ positions'[j].market = positions[j].market /\ positions'[j].side = positions[j].side
         /\ positions'[j].entry = positions[j].entry /\ positions'[j].size = positions[j].size
         /\ positions'[j].collateral = positions[j].collateral
  BY <1>1, <1>2 DEF Position
<1>5. UNCHANGED Holdings
  BY <1>3, <1>4 DEF Holdings
<1> QED  BY <1>5 DEF SetTpSl, RemoveTpSl

\* Only the call inside moves money and positions, whatever else is called meanwhile
\* (withTradeLock, setTpSl, removeTpSl).
THEOREM MovesInsideHolds == PaperSpec => MovesInside
<1> DEFINE Moves == \/ UNCHANGED <<balance, realized, fees, forgiven, Holdings>>
                    \/ \E c \in Calls : Inside(c) /\ stage'[c] # stage[c]
<1>1. PaperInv /\ [PaperNext]_paperVars => [Moves]_paperVars
  <2> SUFFICES ASSUME PaperInv, PaperNext PROVE Moves
    OBVIOUS
  <2>1. ASSUME UNCHANGED account PROVE UNCHANGED <<balance, realized, fees, forgiven, Holdings>>
    BY <2>1 DEF account, Holdings
  <2>2. ASSUME NEW c \in Calls, Inside(c), NEW s \in Stages, MoveTo(c, s), s # stage[c] PROVE Moves
    <3>1. stage'[c] = s
      BY <2>2, MoveTrue DEF PaperInv
    <3> QED  BY <2>2, <3>1
  <2>3. ASSUME NEW c \in Calls, Charged(c) \/ Add(c) \/ Priced(c) PROVE Moves
    <3>1. Inside(c) /\ stage[c] \in {"queued", "pricing", "charging"}
      BY <2>3 DEF Charged, Add, Priced, Holds, PaperInv, Queue, Awaiting
    <3>2. \/ MoveTo(c, "done")
          \/ stage[c] = "pricing" /\ MoveTo(c, "charging")
          \/ stage[c] = "charging" /\ MoveTo(c, "scanning")
      <4>1. CASE Charged(c)
        <5>1. request[c].op \in {"open", "close", "positions"}
          BY <4>1 DEF Charged, PaperInv, Asked
        <5> QED  BY <4>1, <5>1 DEF Charged, CommitOpen, Leave
      <4>2. CASE Add(c)
        BY <4>2 DEF Add, Leave
      <4>3. CASE Priced(c)
        <5>1. request[c].op \in {"open", "close", "remove", "positions"}
          BY <4>3, RequestTrue DEF Priced, PaperInv, Asked
        <5> QED  BY <4>3, <5>1 DEF Priced, PriceOpen, PriceClose, Remove, Leave
      <4> QED  BY <2>3, <4>1, <4>2, <4>3
    <3>3. "done" \in Stages /\ "charging" \in Stages /\ "scanning" \in Stages
      BY DEF Stages
    <3> QED  BY <2>2, <3>1, <3>2, <3>3
  <2>4. ASSUME NEW c \in Calls, Call(c) \/ Looked(c) \/ Enter(c) \/ Scan(c) PROVE Moves
    <3>1. UNCHANGED account
      BY <2>4 DEF Call, Looked, Enter, Scan
    <3> QED  BY <2>1, <3>1
  <2>5. ASSUME NEW i \in DOMAIN positions,
               (\E tp, sl \in Targets \union {None} : SetTpSl(i, tp, sl)) \/ RemoveTpSl(i)
        PROVE  Moves
    BY <2>5, TriggersKeepHoldings
  <2> QED  BY <2>3, <2>4, <2>5 DEF PaperNext, Step
<1> QED  BY <1>1, PaperHolds, PTL DEF PaperSpec, MovesInside
=============================================================================
