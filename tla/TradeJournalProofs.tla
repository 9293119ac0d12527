------------------------- MODULE TradeJournalProofs -------------------------
(***************************************************************************)
(* What TradeJournal guarantees for any trades, crashes and sessions.      *)
(*                                                                         *)
(* What landed stays landed, because only a trade that is being built      *)
(* broadcasts (NotSent).  The file says what the memory does whenever the  *)
(* last write went through (InStep), and a running trade has its entry     *)
(* unless it was removed (Journaled), through every filter, limit, crash   *)
(* and restart (JournalInv).                                               *)
(***************************************************************************)
EXTENDS TradeJournal, FiniteSetTheorems, SequenceTheorems, TLAPS

-----------------------------------------------------------------------------
\* Filtering

Distinct(s) == \A i, j \in 1 .. Len(s) : s[i] = s[j] => i = j

\* Every rank up to the number of indices kept is that of exactly one of them.
LEMMA Ranks ==
  ASSUME NEW n \in Nat, NEW kept \in SUBSET (1 .. n),
         NEW rank, rank = [i \in kept |-> Cardinality({j \in kept : j <= i})]
  PROVE  /\ Cardinality(kept) \in 0 .. n
         /\ rank \in Bijection(kept, 1 .. Cardinality(kept))
<1> DEFINE N == Cardinality(kept)
<1> DEFINE upto(i) == {j \in kept : j <= i}
<1>1. IsFiniteSet(kept) /\ N \in 0 .. n
  <2>1. IsFiniteSet(1 .. n) /\ Cardinality(1 .. n) = n
    BY FS_Interval
  <2>2. IsFiniteSet(kept) /\ N <= n
    BY <2>1, FS_Subset
  <2> QED  BY <2>2, FS_CardinalityType
<1>2. \A i \in kept : IsFiniteSet(upto(i)) /\ Cardinality(upto(i)) \in 1 .. N
  <2> SUFFICES ASSUME NEW i \in kept
               PROVE  IsFiniteSet(upto(i)) /\ Cardinality(upto(i)) \in 1 .. N
    OBVIOUS
  <2>1. upto(i) \in SUBSET kept /\ i \in upto(i)
    OBVIOUS
  <2> HIDE DEF upto, N
  <2>2. IsFiniteSet(upto(i)) /\ Cardinality(upto(i)) <= N
    BY <1>1, <2>1, FS_Subset DEF N
  <2>3. Cardinality(upto(i)) \in Nat /\ Cardinality(upto(i)) # 0
    BY <2>1, <2>2, FS_CardinalityType, FS_EmptySet
  <2> QED  BY <1>1, <2>2, <2>3
<1>3. ASSUME NEW i \in kept, NEW j \in kept, i < j
      PROVE  Cardinality(upto(i)) # Cardinality(upto(j))
  <2>1. upto(i) \in SUBSET upto(j) /\ upto(i) # upto(j)
    <3>1. j \in upto(j) /\ j \notin upto(i)
      BY <1>3
    <3>2. ASSUME NEW x \in upto(i) PROVE x \in upto(j)
      <4>1. x \in Int /\ i \in Int /\ j \in Int /\ x <= i
        OBVIOUS
      <4> QED  BY <1>3, <4>1
    <3> HIDE DEF upto
    <3> QED  BY <3>1, <3>2
  <2> HIDE DEF upto
  <2> QED  BY <1>2, <2>1, FS_Subset
<1>4. rank \in [kept -> 1 .. N]
  BY <1>2
<1>5. \A i, j \in kept : rank[i] = rank[j] => i = j
  <2> SUFFICES ASSUME NEW i \in kept, NEW j \in kept, i # j PROVE rank[i] # rank[j]
    OBVIOUS
  <2>1. rank[i] = Cardinality(upto(i)) /\ rank[j] = Cardinality(upto(j))
    OBVIOUS
  <2> HIDE DEF upto
  <2>2. i < j \/ j < i
    OBVIOUS
  <2> QED  BY <1>3, <2>1, <2>2
<1>6. rank \in Injection(kept, 1 .. N)
  BY <1>4, <1>5 DEF Injection, IsInjective
<1>7. IsFiniteSet(1 .. N) /\ Cardinality(1 .. N) = N
  BY <1>1, FS_Interval
<1>8. rank \in Surjection(kept, 1 .. N)
  <2> HIDE DEF N
  <2> QED  BY <1>6, <1>7, FS_Injection DEF N
<1> QED  BY <1>1, <1>6, <1>8 DEF Bijection

\* What a filter leaves: the members that are in K, none of them twice.
LEMMA OnlyTrue ==
  ASSUME NEW S, NEW s \in Seq(S), NEW K, Distinct(s)
  PROVE  /\ Only(s, K) \in Seq(S) /\ Len(Only(s, K)) \in 0 .. Len(s)
         /\ Names(Only(s, K)) = Names(s) \intersect K
         /\ Distinct(Only(s, K))
<1> DEFINE kept == {i \in 1 .. Len(s) : s[i] \in K}
<1> DEFINE rank == [i \in kept |-> Cardinality({j \in kept : j <= i})]
<1> DEFINE N == Cardinality(kept)
<1> DEFINE at == [k \in 1 .. N |-> CHOOSE i \in kept : Cardinality({j \in kept : j <= i}) = k]
<1>1. Len(s) \in Nat /\ kept \in SUBSET (1 .. Len(s)) /\ \A i \in kept : s[i] \in S /\ s[i] \in K
  OBVIOUS
<1>2. N \in 0 .. Len(s) /\ rank \in Bijection(kept, 1 .. N)
  <2> HIDE DEF kept
  <2> QED  BY <1>1, Ranks
<1>3. Only(s, K) = [k \in 1 .. N |-> s[at[k]]]
  BY DEF Only
<1>4. /\ \A k \in 1 .. N : at[k] \in kept /\ rank[at[k]] = k
      /\ \A i \in kept : rank[i] \in 1 .. N /\ at[rank[i]] = i
  <2>0. \A i \in kept : rank[i] = Cardinality({j \in kept : j <= i})
    OBVIOUS
  <2> HIDE DEF kept, N, rank
  <2>1. /\ \A k \in 1 .. N : \E i \in kept : rank[i] = k
        /\ \A i \in kept : rank[i] \in 1 .. N
        /\ \A i, j \in kept : rank[i] = rank[j] => i = j
    BY <1>2 DEF Bijection, Injection, Surjection, IsInjective
  <2>2. \A k \in 1 .. N : at[k] \in kept /\ rank[at[k]] = k
    <3> SUFFICES ASSUME NEW k \in 1 .. N PROVE at[k] \in kept /\ rank[at[k]] = k
      OBVIOUS
    <3>1. \E i \in kept : Cardinality({j \in kept : j <= i}) = k
      BY <2>0, <2>1
    <3>2. at[k] \in kept /\ Cardinality({j \in kept : j <= at[k]}) = k
      BY <3>1
    <3> HIDE DEF at
    <3> QED  BY <2>0, <3>2
  <2>3. ASSUME NEW i \in kept PROVE rank[i] \in 1 .. N /\ at[rank[i]] = i
    <3> HIDE DEF at
    <3> QED  BY <2>1, <2>2
  <2> QED  BY <2>2, <2>3
<1> HIDE DEF rank, at, N
<1> DEFINE r == [k \in 1 .. N |-> s[at[k]]]
<1>5. r \in Seq(S) /\ Len(r) = N /\ \A k \in 1 .. N : r[k] = s[at[k]]
  <2> HIDE DEF kept
  <2>1. \A k \in 1 .. N : s[at[k]] \in S
    BY <1>1, <1>4
  <2> QED  BY <1>2, <2>1
<1>6. Names(r) = Names(s) \intersect K
  <2>1. ASSUME NEW k \in 1 .. N PROVE r[k] \in Names(s) \intersect K
    BY <1>4, <1>5 DEF Names
  <2>2. ASSUME NEW x \in Names(s) \intersect K PROVE x \in Names(r)
    <3>1. PICK i \in 1 .. Len(s) : s[i] = x
      BY DEF Names
    <3>2. i \in kept
      BY <3>1
    <3>3. rank[i] \in 1 .. N /\ at[rank[i]] = i
      BY <1>4, <3>2
    <3> HIDE DEF r
    <3>4. r[rank[i]] = x /\ rank[i] \in 1 .. Len(r)
      BY <1>5, <3>1, <3>3
    <3> QED  BY <3>4 DEF Names
  <2> HIDE DEF r
  <2> QED  BY <1>5, <2>1, <2>2 DEF Names
<1>7. \A i, j \in 1 .. N : r[i] = r[j] => i = j
  BY <1>1, <1>4, <1>5 DEF Distinct
<1> HIDE DEF r
<1>8. Only(s, K) = r
  BY <1>3 DEF r
<1> QED  BY <1>2, <1>5, <1>6, <1>7, <1>8 DEF Distinct

-----------------------------------------------------------------------------
\* Confirmations

Typed ==
  /\ stage \in [Trades -> Stages]
  /\ verdict \in [Trades -> {"none", "confirmed", "failed"}]
  /\ chain \in [Trades -> ChainStates]

\* A trade has broadcast nothing before it was built.
NotSent == \A t \in Trades : stage[t] \in {"idle", "building"} => chain[t] = "none"

IInv == Typed /\ NotSent /\ ConfirmedLanded

LEMMA Initially == Init => IInv
BY DEF Init, IInv, Typed, NotSent, ConfirmedLanded, Stages, ChainStates

\* A step of trade t moves its stage and its verdict, sends, and is never unsent.
LEMMA TradeMoves ==
  ASSUME IInv, NEW t \in Trades, NEW s \in Stages \ {"idle"}, MoveTo(t, s), UNCHANGED recovered,
         s = "building" => stage[t] = "idle",
         \/ UNCHANGED chain
         \/ stage[t] = "building" /\ s # "building" /\ chain' = [chain EXCEPT ![t] = "inflight"],
         \/ UNCHANGED verdict
         \/ \E v \in {"confirmed", "failed"} :
              verdict' = [verdict EXCEPT ![t] = v] /\ (v = "confirmed" => chain[t] = "landed")
  PROVE  IInv'
<1> USE DEF IInv
<1>1. stage'[t] = s /\ \A u \in Trades : u # t => stage'[u] = stage[u]
  BY DEF MoveTo, Typed
<1>2. Typed'
  BY DEF Typed, MoveTo, ChainStates
<1>3. \A u \in Trades : u # t => chain'[u] = chain[u] /\ verdict'[u] = verdict[u]
  BY DEF Typed
<1>4. chain[t] = "landed" => chain' = chain
  BY DEF NotSent
<1>5. NotSent'
  <2> SUFFICES ASSUME NEW u \in Trades, stage'[u] \in {"idle", "building"} PROVE chain'[u] = "none"
    BY DEF NotSent
  <2>1. CASE u = t
    BY <1>1, <2>1 DEF NotSent
  <2>2. CASE u # t
    BY <1>1, <1>3, <2>2 DEF NotSent
  <2> QED  BY <2>1, <2>2
<1>6. ConfirmedLanded'
  <2> SUFFICES ASSUME NEW u \in Trades, verdict'[u] = "confirmed" \/ u \in recovered'
               PROVE  chain'[u] = "landed"
    BY DEF ConfirmedLanded
  <2>1. CASE u = t
    <3>1. chain[t] = "landed"
      BY <2>1 DEF ConfirmedLanded, Typed
    <3> QED  BY <1>4, <2>1, <3>1
  <2>2. CASE u # t
    BY <1>3, <2>2 DEF ConfirmedLanded
  <2> QED  BY <2>1, <2>2
<1> QED  BY <1>2, <1>5, <1>6

LEMMA Inductive == IInv /\ [Next]_vars => IInv'
<1> SUFFICES ASSUME IInv, [Next]_vars PROVE IInv'
  OBVIOUS
<1> USE DEF Stages, Running
<1>1. ASSUME NEW t \in Trades, Begin(t) PROVE IInv'
  BY <1>1, TradeMoves DEF Begin, recoveryVars
<1>2. ASSUME NEW t \in Trades, Broadcast(t) PROVE IInv'
  BY <1>2, TradeMoves DEF Broadcast, recoveryVars
<1>3. ASSUME NEW t \in Trades, Fail(t) PROVE IInv'
  BY <1>3, TradeMoves DEF Fail, Told, recoveryVars
<1>4. ASSUME NEW t \in Trades, Confirm(t) PROVE IInv'
  BY <1>4, TradeMoves DEF Confirm, Told, SeenOnChain, recoveryVars
<1>5. ASSUME NEW t \in Trades, Settle(t) PROVE IInv'
  <2>1. chain[t] = "inflight" /\ chain' \in [Trades -> ChainStates]
        /\ \A u \in Trades : u # t => chain'[u] = chain[u]
    BY <1>5 DEF Settle, IInv, Typed, ChainStates
  <2>2. UNCHANGED <<stage, verdict, recovered>>
    BY <1>5 DEF Settle, tradeVars, recoveryVars
  <2> QED  BY <2>1, <2>2 DEF IInv, Typed, NotSent, ConfirmedLanded
<1>6. ASSUME UNCHANGED <<stage, verdict, chain, recovered>> PROVE IInv'
  BY <1>6 DEF IInv, Typed, NotSent, ConfirmedLanded
<1>7. ASSUME Crash PROVE IInv'
  BY <1>7 DEF Crash, IInv, Typed, NotSent, ConfirmedLanded
<1>8. ASSUME VerifyEntry PROVE IInv'
  <2>1. UNCHANGED <<stage, verdict, chain>>
    BY <1>8 DEF VerifyEntry, tradeVars
  <2>2. \A t \in recovered' : t \in recovered \/ chain[t] = "landed"
    BY <1>8 DEF VerifyEntry, DropUnsigned, ReportConfirmed, ReportFailed, KeepEntry, SeenOnChain
  <2> QED  BY <2>1, <2>2 DEF IInv, Typed, NotSent, ConfirmedLanded
<1>9. \/ UNCHANGED <<stage, verdict, chain, recovered>>
      \/ Crash \/ VerifyEntry
      \/ \E t \in Trades : Begin(t) \/ Broadcast(t) \/ Fail(t) \/ Confirm(t) \/ Settle(t)
  BY DEF Next, Age, Restart, BeginRecovery, EndRecovery, vars, tradeVars, recoveryVars
<1> QED  BY <1>1, <1>2, <1>3, <1>4, <1>5, <1>6, <1>7, <1>8, <1>9

\* Nobody is told that a trade is confirmed unless it landed, through crashes and
\* recoveries (sendApiTransaction, verifyEntry).
THEOREM ConfirmedLandedHolds == Spec => []ConfirmedLanded
<1>1. IInv => ConfirmedLanded
  BY DEF IInv
<1> QED  BY <1>1, Initially, Inductive, PTL DEF Spec

-----------------------------------------------------------------------------
\* The file and the entries in memory

LEMMA DistinctCount ==
  ASSUME NEW S, NEW s \in Seq(S), Distinct(s)
  PROVE  Cardinality(Names(s)) = Len(s)
<1>1. Len(s) \in Nat /\ s \in [1 .. Len(s) -> Names(s)]
  BY DEF Names
<1>2. s \in Bijection(1 .. Len(s), Names(s))
  BY <1>1 DEF Names, Distinct, Bijection, Injection, Surjection, IsInjective
<1> QED  BY <1>1, <1>2, FS_CountingElements DEF ExistsBijection

\* The size limit drops from the front and keeps what was just appended.
LEMMA LimitedTrue ==
  ASSUME NEW S, NEW s \in Seq(S), NEW t \in S, Len(s) <= MaxEntries, Distinct(s), t \notin Names(s)
  PROVE  LET e == Limited(Append(s, t))
         IN  /\ e \in Seq(S) /\ Len(e) <= MaxEntries /\ Distinct(e)
             /\ t \in Names(e) /\ Names(e) \subseteq Names(s) \union {t}
<1> DEFINE a == Append(s, t)
<1> DEFINE e == Limited(a)
<1> USE JournalAssumption
<1>1. /\ a \in Seq(S) /\ Len(a) = Len(s) + 1 /\ a[Len(a)] = t
      /\ \A i \in 1 .. Len(s) : a[i] = s[i]
  BY AppendProperties
<1>2. Distinct(a) /\ Names(a) \subseteq Names(s) \union {t}
  <2> HIDE DEF a
  <2>1. \A i \in 1 .. Len(a) : i \in 1 .. Len(s) \/ i = Len(a)
    BY <1>1
  <2>2. \A i \in 1 .. Len(s) : a[i] # t
    BY <1>1 DEF Names
  <2> QED  BY <1>1, <2>1, <2>2 DEF Distinct, Names
<1> HIDE DEF a
<1>3. CASE Len(a) <= MaxEntries
  <2>1. e = a /\ Len(a) \in 1 .. Len(a)
    BY <1>1, <1>3 DEF Limited
  <2> HIDE DEF e
  <2> QED  BY <1>1, <1>2, <1>3, <2>1 DEF Names, a, e
<1>4. CASE Len(a) > MaxEntries
  <2>1. e = SubSeq(a, 2, Len(a)) /\ Len(a) = MaxEntries + 1 /\ Len(a) >= 2
    BY <1>1, <1>4 DEF Limited
  <2>2. /\ e \in Seq(S) /\ Len(e) = MaxEntries
        /\ \A i \in 1 .. MaxEntries : e[i] = a[i + 1]
    BY <1>1, <2>1, SubSeqProperties
  <2> HIDE DEF e
  <2>3. \A i \in 1 .. MaxEntries : i + 1 \in 1 .. Len(a) /\ e[i] = a[i + 1]
    BY <2>1, <2>2
  <2>4. Distinct(e)
    <3> SUFFICES ASSUME NEW i \in 1 .. MaxEntries, NEW j \in 1 .. MaxEntries, e[i] = e[j]
                 PROVE  i = j
      BY <2>2 DEF Distinct
    <3>1. i + 1 \in 1 .. Len(a) /\ j + 1 \in 1 .. Len(a) /\ a[i + 1] = a[j + 1]
      BY <2>3
    <3>2. i + 1 = j + 1
      BY <1>2, <3>1 DEF Distinct
    <3> QED  BY <3>2
  <2>5. Names(e) \subseteq Names(a)
    BY <2>2, <2>3 DEF Names
  <2>6. e[MaxEntries] = t
    BY <1>1, <2>1, <2>2
  <2>7. t \in Names(e)
    BY <2>2, <2>6 DEF Names
  <2> QED  BY <1>2, <2>2, <2>4, <2>5, <2>7 DEF a, e
<1> QED  BY <1>1, <1>3, <1>4

\* The trades in a file, and that each is in it once.
InFile(d) == {d[i].trade : i \in 1 .. Len(d)}
OnceInFile(d) == \A i, j \in 1 .. Len(d) : d[i].trade = d[j].trade => i = j
FileRecords == [trade : Trades, status : Statuses]

FileTyped ==
  /\ entries \in Seq(Trades) /\ Len(entries) <= MaxEntries /\ Distinct(entries)
  /\ status \in [Trades -> Statuses]
  /\ disk \in Seq(FileRecords) /\ Len(disk) <= MaxEntries /\ OnceInFile(disk)
  /\ saved \in BOOLEAN

LEMMA WrittenTrue ==
  ASSUME NEW e \in Seq(Trades), Distinct(e), NEW st \in [Trades -> Statuses]
  PROVE  /\ Written(e, st) \in Seq(FileRecords) /\ Len(Written(e, st)) = Len(e)
         /\ OnceInFile(Written(e, st)) /\ InFile(Written(e, st)) = Names(e)
<1> DEFINE d == Written(e, st)
<1>1. /\ d \in Seq(FileRecords) /\ Len(d) = Len(e)
      /\ \A i \in 1 .. Len(e) : d[i].trade = e[i]
  BY DEF Written, FileRecords
<1> HIDE DEF d
<1>2. OnceInFile(d) /\ InFile(d) = Names(e)
  BY <1>1 DEF Distinct, Names, OnceInFile, InFile
<1> QED  BY <1>1, <1>2 DEF d

LEMMA FlushTrue ==
  ASSUME FileTyped, NEW e \in Seq(Trades), Len(e) <= MaxEntries, Distinct(e),
         NEW st \in [Trades -> Statuses], Flush(e, st)
  PROVE  /\ FileTyped' /\ entries' = e
         /\ saved' => InFile(disk') = Names(e)
         /\ InFile(disk') = Names(e) \/ disk' = disk
<1>0. entries' = e /\ status' = st
  BY DEF Flush
<1>1. CASE disk' = Written(e, st) /\ saved' = TRUE
  BY <1>0, <1>1, WrittenTrue DEF FileTyped
<1>2. CASE disk' = disk /\ saved' = FALSE
  BY <1>0, <1>2 DEF FileTyped
<1> QED  BY <1>1, <1>2 DEF Flush

\* A step that keeps the entries in K: what it writes, or that it writes nothing.
KeepsOnly(K) ==
  /\ FileTyped' /\ Names(entries') = Names(entries) \intersect K
  /\ InFile(disk') \subseteq InFile(disk) \union Names(entries)
  /\ saved' => \/ InFile(disk') = Names(entries')
               \/ saved /\ UNCHANGED <<disk, entries>>

LEMMA NamesTyped == FileTyped => Names(entries) \subseteq Trades
BY DEF FileTyped, Names

LEMMA UntouchedTrue ==
  ASSUME FileTyped, UNCHANGED <<entries, status, disk, saved>>
  PROVE  KeepsOnly(Trades)
BY NamesTyped DEF FileTyped, KeepsOnly, Names, InFile, Distinct, OnceInFile

LEMMA FlushOnlyTrue ==
  ASSUME FileTyped, NEW K, NEW st \in [Trades -> Statuses], Flush(Only(entries, K), st)
  PROVE  KeepsOnly(K)
<1> DEFINE e == Only(entries, K)
<1>1. e \in Seq(Trades) /\ Len(e) <= MaxEntries /\ Distinct(e)
      /\ Names(e) = Names(entries) \intersect K
  <2>1. e \in Seq(Trades) /\ Len(e) \in 0 .. Len(entries) /\ Distinct(e)
        /\ Names(e) = Names(entries) \intersect K
    BY OnlyTrue DEF FileTyped
  <2> QED  BY <2>1, JournalAssumption DEF FileTyped
<1> HIDE DEF e
<1>2. FileTyped' /\ entries' = e /\ (saved' => InFile(disk') = Names(e))
      /\ (InFile(disk') = Names(e) \/ disk' = disk)
  BY <1>1, FlushTrue DEF e
<1> QED  BY <1>1, <1>2 DEF KeepsOnly

\* remove() and its callers leave exactly the other entries.
LEMMA RemoveTrue ==
  ASSUME FileTyped, NEW t \in Trades, Remove(t) \/ RecordOutcome(t)
  PROVE  KeepsOnly(Trades \ {t})
<1>1. CASE t \in Names(entries)
  <2>1. [status EXCEPT ![t] = "confirmed"] \in [Trades -> Statuses] /\ status \in [Trades -> Statuses]
    BY DEF FileTyped, Statuses
  <2> QED  BY <1>1, <2>1, FlushOnlyTrue DEF Remove, RecordOutcome, Without
<1>2. CASE t \notin Names(entries)
  <2>1. KeepsOnly(Trades)
    BY <1>2, UntouchedTrue DEF Remove, RecordOutcome
  <2> QED  BY <1>2, <2>1, NamesTyped DEF KeepsOnly
<1> QED  BY <1>1, <1>2

-----------------------------------------------------------------------------
\* The journal and the trades

\* A trade that was not asked for is nowhere.
Unasked == \A t \in Trades : stage[t] = "idle" => t \notin Names(entries) /\ t \notin InFile(disk)

\* A running trade has its entry, unless it was removed; nothing runs while down.
Journaled ==
  \A t \in Trades : stage[t] \in Running => up /\ (t \in Names(entries) \/ t \in evicted)

InStep == up /\ saved => InFile(disk) = Names(entries)

JournalInv == Typed /\ FileTyped /\ Unasked /\ Journaled /\ InStep /\ NoLeftovers

\* A step that only removes entries, those of the trades it ends or gives up.
LEMMA KeepsInv ==
  ASSUME JournalInv, Typed', NEW K, KeepsOnly(K), UNCHANGED <<up, inherited>>,
         \A u \in Trades :
           \/ stage'[u] = stage[u]
           \/ stage[u] \in Running /\ stage'[u] \in Running
           \/ stage[u] \in Running /\ stage'[u] = "over" /\ u \notin K,
         evicted \subseteq evicted',
         \A u \in Names(entries) \ K : u \in evicted' \/ stage'[u] = "over"
  PROVE  JournalInv'
<1> USE DEF JournalInv, Running
<1>1. FileTyped' /\ Names(entries) \subseteq Trades
  BY NamesTyped DEF KeepsOnly
<1>2. Unasked'
  BY <1>1 DEF Unasked, KeepsOnly
<1>3. Journaled'
  BY <1>1 DEF Journaled, KeepsOnly
<1>4. InStep'
  BY DEF InStep, KeepsOnly
<1>5. NoLeftovers'
  BY <1>1 DEF NoLeftovers, KeepsOnly
<1> QED  BY <1>1, <1>2, <1>3, <1>4, <1>5

LEMMA JournalInit == Init => JournalInv
<1> SUFFICES ASSUME Init PROVE JournalInv
  OBVIOUS
<1>1. Typed
  BY DEF Init, Typed, Stages, ChainStates
<1>2. entries = <<>> /\ disk = <<>> /\ Len(entries) = 0 /\ Len(disk) = 0
  BY DEF Init
<1>3. FileTyped
  BY <1>2, JournalAssumption DEF Init, FileTyped, Statuses, Distinct, OnceInFile
<1>4. Names(entries) = {} /\ InFile(disk) = {}
  BY <1>2 DEF Names, InFile
<1> QED
  BY <1>1, <1>3, <1>4 DEF Init, JournalInv, Unasked, Journaled, InStep, NoLeftovers, Running

LEMMA BeginInv ==
  ASSUME JournalInv, Typed', NEW t \in Trades, Begin(t)
  PROVE  JournalInv'
<1> DEFINE e == Limited(Append(entries, t))
<1> USE DEF JournalInv
<1>0. /\ up /\ up' = up /\ stage[t] = "idle" /\ inherited' = inherited
      /\ Flush(e, [status EXCEPT ![t] = "pending"])
      /\ evicted' = evicted \union (Names(entries) \ Names(e))
      /\ stage'[t] = "building" /\ \A u \in Trades : u # t => stage'[u] = stage[u]
  BY DEF Begin, RecordPending, MoveTo, Typed
<1>1. t \notin Names(entries) /\ t \notin InFile(disk)
  BY <1>0 DEF Unasked
<1>2. /\ e \in Seq(Trades) /\ Len(e) <= MaxEntries /\ Distinct(e)
      /\ t \in Names(e) /\ Names(e) \subseteq Names(entries) \union {t}
  BY <1>1, LimitedTrue DEF FileTyped
<1> HIDE DEF e
<1>3. [status EXCEPT ![t] = "pending"] \in [Trades -> Statuses]
  BY DEF FileTyped, Statuses
<1>4. FileTyped' /\ entries' = e /\ (saved' => InFile(disk') = Names(e))
      /\ (InFile(disk') = Names(e) \/ disk' = disk)
  BY <1>0, <1>2, <1>3, FlushTrue
<1>5. Unasked'
  BY <1>0, <1>2, <1>4 DEF Unasked
<1>6. Journaled'
  BY <1>0, <1>2, <1>4 DEF Journaled, Running
<1>7. InStep'
  BY <1>4 DEF InStep
<1>8. NoLeftovers'
  BY <1>0, <1>2, <1>4, NamesTyped DEF NoLeftovers, Running
<1> QED  BY <1>4, <1>5, <1>6, <1>7, <1>8

\* What the disk may hold after a crash names the trades it held, each once.
LEMMA CrashInv ==
  ASSUME JournalInv, Typed', Crash
  PROVE  JournalInv'
<1> USE DEF JournalInv
<1>0. /\ up /\ ~up' /\ entries' = <<>> /\ saved' = saved
      /\ status' \in [Trades -> Statuses]
      /\ \A t \in Trades : stage'[t] = IF stage[t] \in Running THEN "lost" ELSE stage[t]
  BY DEF Crash, Statuses
<1>1. /\ disk' \in Seq(FileRecords) /\ Len(disk') <= MaxEntries /\ OnceInFile(disk')
      /\ InFile(disk') \subseteq InFile(disk) \union Names(entries)
  <2>1. CASE disk' = disk
    BY <2>1 DEF FileTyped
  <2>2. CASE \E t \in Trades : Torn(t)
    <3>0. PICK t \in Trades : Torn(t)
      BY <2>2
    <3>1. PICK s \in {"sent", "confirmed"} : disk' = Written(entries, [status EXCEPT ![t] = s])
      BY <3>0 DEF Torn
    <3>2. [status EXCEPT ![t] = s] \in [Trades -> Statuses]
      BY DEF FileTyped, Statuses
    <3> QED  BY <3>1, <3>2, WrittenTrue DEF FileTyped
  <2> QED  BY <2>1, <2>2 DEF Crash
<1>2. entries' \in Seq(Trades) /\ Len(entries') = 0 /\ Distinct(entries') /\ Names(entries') = {}
  BY <1>0 DEF Distinct, Names
<1>3. FileTyped'
  BY <1>0, <1>1, <1>2, JournalAssumption DEF FileTyped
<1>4. Unasked'
  BY <1>0, <1>1, <1>2 DEF Unasked, Running
<1>5. Journaled' /\ InStep' /\ NoLeftovers'
  BY <1>0 DEF Journaled, InStep, NoLeftovers, Running, Typed, Stages
<1> QED  BY <1>3, <1>4, <1>5

\* A new process has read what the file names, each trade once.
LEMMA RestartInv ==
  ASSUME JournalInv, Typed', Restart
  PROVE  JournalInv'
<1> USE DEF JournalInv
<1>0. /\ ~up /\ up' /\ entries' = [i \in 1 .. Len(disk) |-> disk[i].trade]
      /\ inherited' = Names(entries') /\ saved' = TRUE /\ disk' = disk /\ stage' = stage
  BY DEF Restart, tradeVars
<1>1. /\ Len(disk) \in Nat
      /\ \A i \in 1 .. Len(disk) : disk[i].trade \in Trades /\ disk[i].status \in Statuses
  <2>1. Len(disk) \in Nat /\ \A i \in 1 .. Len(disk) : disk[i] \in FileRecords
    BY DEF FileTyped
  <2>2. \A x \in FileRecords : x.trade \in Trades /\ x.status \in Statuses
    BY DEF FileRecords
  <2> QED  BY <2>1, <2>2
<1>2. /\ entries' \in Seq(Trades) /\ Len(entries') = Len(disk)
      /\ \A i \in 1 .. Len(disk) : entries'[i] = disk[i].trade
  BY <1>0, <1>1
<1>3. Distinct(entries') /\ Names(entries') = InFile(disk)
  BY <1>2 DEF FileTyped, Distinct, OnceInFile, Names, InFile
<1>4. status' \in [Trades -> Statuses]
  <2>1. ASSUME NEW t \in Trades, \E i \in 1 .. Len(disk) : disk[i].trade = t
        PROVE  disk[CHOOSE i \in 1 .. Len(disk) : disk[i].trade = t].status \in Statuses
    <3>1. (CHOOSE i \in 1 .. Len(disk) : disk[i].trade = t) \in 1 .. Len(disk)
      BY <2>1
    <3> QED  BY <1>1, <3>1
  <2>2. \A t \in Trades : status[t] \in Statuses
    BY DEF FileTyped
  <2> QED  BY <2>1, <2>2 DEF Restart
<1>5. FileTyped'
  BY <1>0, <1>2, <1>3, <1>4 DEF FileTyped
<1>6. Unasked' /\ Journaled' /\ InStep' /\ NoLeftovers'
  BY <1>0, <1>3 DEF Unasked, Journaled, InStep, NoLeftovers, Running
<1> QED  BY <1>5, <1>6

LEMMA JournalStep == JournalInv /\ Typed' /\ [Next]_vars /\ queue \in Seq(Trades) => JournalInv'
<1> SUFFICES ASSUME JournalInv, Typed', [Next]_vars, queue \in Seq(Trades) PROVE JournalInv'
  OBVIOUS
<1>0. FileTyped /\ \A u \in Names(entries) : u \in Trades
  BY NamesTyped DEF JournalInv
<1>1. ASSUME NEW t \in Trades, Begin(t) PROVE JournalInv'
  BY <1>1, BeginInv
<1>2. ASSUME NEW t \in Trades, Broadcast(t) PROVE JournalInv'
  <2>1. /\ KeepsOnly(Trades) /\ UNCHANGED <<up, inherited, evicted>>
        /\ stage[t] \in Running /\ stage'[t] \in Running
        /\ \A u \in Trades : u # t => stage'[u] = stage[u]
    BY <1>0, <1>2, UntouchedTrue DEF Broadcast, MoveTo, Running, journalVars, JournalInv, Typed
  <2> QED  BY <1>0, <2>1, KeepsInv
<1>3. ASSUME NEW t \in Trades, Fail(t) \/ Confirm(t) PROVE JournalInv'
  <2>1. /\ (Remove(t) \/ RecordOutcome(t)) /\ UNCHANGED <<up, inherited, evicted>>
        /\ stage[t] \in Running /\ stage'[t] = "over"
        /\ \A u \in Trades : u # t => stage'[u] = stage[u]
    BY <1>3 DEF Fail, Confirm, Told, MoveTo, Running, JournalInv, Typed
  <2>2. KeepsOnly(Trades \ {t})
    BY <1>0, <2>1, RemoveTrue
  <2> HIDE DEF JournalInv
  <2> QED  BY <1>0, <2>1, <2>2, KeepsInv
<1>4. CASE UNCHANGED <<up, stage, journalVars, inherited>>
  BY <1>0, <1>4, UntouchedTrue, KeepsInv DEF journalVars
<1>5. CASE Crash
  BY <1>5, CrashInv
<1>6. CASE Restart
  BY <1>6, RestartInv
<1>7. CASE BeginRecovery
  <2> DEFINE K == {t \in Trades : age[t] # "stale"}
  <2>0. /\ UNCHANGED <<up, stage, inherited>>
        /\ \/ Only(entries, K) = entries /\ UNCHANGED <<entries, status, disk, saved>>
           \/ Flush(Only(entries, K), status)
        /\ evicted' = evicted \union (Names(entries) \ Names(Only(entries, K)))
    BY <1>7 DEF BeginRecovery, tradeVars
  <2> HIDE DEF K
  <2>1. Names(Only(entries, K)) = Names(entries) \intersect K /\ status \in [Trades -> Statuses]
    BY <1>0, OnlyTrue DEF FileTyped
  <2>2. KeepsOnly(K)
    <3>1. CASE Only(entries, K) = entries /\ UNCHANGED <<entries, status, disk, saved>>
      BY <1>0, <2>1, <3>1, UntouchedTrue DEF KeepsOnly
    <3>2. CASE Flush(Only(entries, K), status)
      BY <1>0, <2>1, <3>2, FlushOnlyTrue
    <3> QED  BY <2>0, <3>1, <3>2
  <2> QED  BY <2>0, <2>1, <2>2, KeepsInv
<1>8. CASE VerifyEntry
  <2> DEFINE t == Head(queue)
  <2>0. /\ UNCHANGED <<up, stage, inherited>> /\ t \in Trades
        /\ \/ (Remove(t) \/ RecordOutcome(t)) /\ evicted' = evicted \union {t}
           \/ UNCHANGED journalVars
    BY <1>8, HeadTailProperties
       DEF VerifyEntry, tradeVars, DropUnsigned, ReportConfirmed, ReportFailed, KeepEntry
  <2> HIDE DEF t
  <2>1. CASE (Remove(t) \/ RecordOutcome(t)) /\ evicted' = evicted \union {t}
    <3>1. KeepsOnly(Trades \ {t})
      BY <1>0, <2>0, <2>1, RemoveTrue
    <3> QED  BY <1>0, <2>0, <2>1, <3>1, KeepsInv
  <2>2. CASE UNCHANGED journalVars
    BY <1>4, <2>0, <2>2
  <2> QED  BY <2>0, <2>1, <2>2
<1>9. ASSUME NEW t \in Trades, Settle(t) \/ Age(t) PROVE JournalInv'
  BY <1>4, <1>9 DEF Settle, Age, tradeVars
<1>10. CASE EndRecovery \/ UNCHANGED vars
  BY <1>4, <1>10 DEF EndRecovery, vars, tradeVars
<1> QED  BY <1>1, <1>2, <1>3, <1>5, <1>6, <1>7, <1>8, <1>9, <1>10 DEF Next

-----------------------------------------------------------------------------
\* The rest of the types

RestTyped ==
  /\ up \in BOOLEAN /\ age \in [Trades -> {"fresh", "old", "stale"}]
  /\ recovery \in {"due", "running", "over"} /\ queue \in Seq(Trades)
  /\ recovered \subseteq Trades /\ inherited \subseteq Trades /\ evicted \subseteq Trades
  /\ crashes \in 0 .. MaxCrashes

LEMMA RestInit == Init => RestTyped
BY JournalAssumption DEF Init, RestTyped

LEMMA RestStep == FileTyped /\ FileTyped' /\ RestTyped /\ [Next]_vars => RestTyped'
<1> SUFFICES ASSUME FileTyped, FileTyped', RestTyped, [Next]_vars PROVE RestTyped'
  OBVIOUS
<1> USE DEF RestTyped
<1>0. Names(entries) \subseteq Trades /\ Names(entries') \subseteq Trades
  BY DEF FileTyped, Names
<1>1. ASSUME NEW t \in Trades, Begin(t) PROVE RestTyped'
  <2>1. /\ UNCHANGED <<up, age, recoveryVars, inherited, crashes>>
        /\ evicted' \subseteq evicted \union Names(entries)
    BY <1>1 DEF Begin, RecordPending
  <2> QED  BY <1>0, <2>1 DEF recoveryVars
<1>2. ASSUME NEW t \in Trades, Broadcast(t) \/ Fail(t) \/ Confirm(t) \/ Settle(t) PROVE RestTyped'
  BY <1>2 DEF Broadcast, Fail, Confirm, Settle, journalVars, recoveryVars
<1>3. ASSUME NEW t \in Trades, Age(t) PROVE RestTyped'
  BY <1>3 DEF Age, journalVars, recoveryVars
<1>4. CASE Crash
  <2>1. crashes' \in 0 .. MaxCrashes /\ queue' = <<>> /\ UNCHANGED <<age, recovered>>
        /\ recovery' = "due" /\ inherited' = {} /\ evicted' = {} /\ up' = FALSE
    BY <1>4, JournalAssumption DEF Crash
  <2> QED  BY <2>1, EmptySeq
<1>5. CASE Restart
  BY <1>0, <1>5 DEF Restart, recoveryVars
<1>6. CASE BeginRecovery
  <2>1. /\ UNCHANGED <<up, age, recovered, inherited, crashes>>
        /\ recovery' \in {"running", "over"} /\ evicted' \subseteq evicted \union Names(entries)
    BY <1>6 DEF BeginRecovery
  <2>2. queue' \in Seq(Trades)
    <3> DEFINE kept == Only(entries, {t \in Trades : age[t] # "stale"})
    <3>1. kept \in Seq(Trades) /\ Distinct(kept)
      BY OnlyTrue DEF FileTyped
    <3>2. queue' = Only(kept, {t \in Trades : status[t] # "confirmed"}) \/ queue' = <<>>
      BY <1>6 DEF BeginRecovery
    <3> HIDE DEF kept
    <3>3. Only(kept, {t \in Trades : status[t] # "confirmed"}) \in Seq(Trades)
      BY <3>1, OnlyTrue
    <3> QED  BY <3>2, <3>3, EmptySeq
  <2> QED  BY <1>0, <2>1, <2>2
<1>7. CASE VerifyEntry
  <2>1. Head(queue) \in Trades /\ Tail(queue) \in Seq(Trades)
    BY <1>7, HeadTailProperties DEF VerifyEntry
  <2>2. /\ recovered' \subseteq recovered \union {Head(queue)}
        /\ evicted' \subseteq evicted \union {Head(queue)}
    BY <1>7 DEF VerifyEntry, DropUnsigned, ReportConfirmed, ReportFailed, KeepEntry, journalVars
  <2> QED  BY <1>7, <2>1, <2>2 DEF VerifyEntry
<1>8. CASE EndRecovery \/ UNCHANGED vars
  BY <1>8, EmptySeq DEF EndRecovery, vars, journalVars, recoveryVars
<1> QED  BY <1>1, <1>2, <1>3, <1>4, <1>5, <1>6, <1>7, <1>8 DEF Next

-----------------------------------------------------------------------------
\* The journal's theorems

AllInv == IInv /\ JournalInv /\ RestTyped

LEMMA AllHolds == Spec => []AllInv
<1>1. Init => AllInv
  BY Initially, JournalInit, RestInit DEF AllInv
<1>2. AllInv /\ [Next]_vars => AllInv'
  <2> SUFFICES ASSUME AllInv, [Next]_vars PROVE AllInv'
    OBVIOUS
  <2>1. IInv'
    BY Inductive DEF AllInv
  <2>2. JournalInv'
    BY <2>1, JournalStep DEF AllInv, IInv, RestTyped
  <2>3. RestTyped'
    BY <2>2, RestStep DEF AllInv, JournalInv
  <2> QED  BY <2>1, <2>2, <2>3 DEF AllInv
<1> QED  BY <1>1, <1>2, PTL DEF Spec

\* Every variable keeps its type, the journal its limit, and no trade is journaled
\* twice, through evictions, failed writes, crashes and recoveries (enforceLimit).
THEOREM TypeCorrect == Spec => []TypeOK
<1>1. AllInv => TypeOK
  <2> SUFFICES ASSUME AllInv PROVE TypeOK
    OBVIOUS
  <2>1. Cardinality(Names(entries)) = Len(entries)
    BY DistinctCount DEF AllInv, JournalInv, FileTyped
  <2> QED
    BY <2>1 DEF AllInv, IInv, Typed, JournalInv, FileTyped, FileRecords, RestTyped, TypeOK
<1> QED  BY <1>1, AllHolds, PTL

\* From before its broadcast until its outcome a trade is in the file, unless the last
\* write failed or its entry was removed (recordPending, flush, remove).
THEOREM WrittenAheadHolds == Spec => []WrittenAhead
<1>1. AllInv => WrittenAhead
  BY DEF AllInv, JournalInv, Journaled, InStep, InFile, WrittenAhead
<1> QED  BY <1>1, AllHolds, PTL

\* No path out of executeAction leaves its entry in memory behind (remove).
THEOREM NoLeftoversHolds == Spec => []NoLeftovers
<1>1. AllInv => NoLeftovers
  BY DEF AllInv, JournalInv
<1> QED  BY <1>1, AllHolds, PTL
=============================================================================
