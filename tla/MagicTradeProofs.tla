-------------------------- MODULE MagicTradeProofs --------------------------
(***************************************************************************)
(* What MagicTrade guarantees for all commands, plans and configurations.  *)
(*                                                                         *)
(* The invariant behind it: only the running command is under way          *)
(* (OneRunning); a leg has sent exactly what its phase says (SentSoFar),   *)
(* so that a retry follows a transaction that was dropped (RetryOfDropped);*)
(* every remembered signature belongs to a transaction of the operation    *)
(* that its key names, one for each key (MemoryTrue); a leg that is about  *)
(* to be sent is not remembered (NotRemembered); and what was answered is  *)
(* remembered until it is forgotten (AnswersKept).  For the locks: who     *)
(* waits for a price or for a second leg is no order (WaitsFor).           *)
(***************************************************************************)
EXTENDS MagicTrade, TLAPS

UnderWay == {"pricing", "building", "sending", "second"}
Unsent == {"new", "pricing", "building", "second"}
Legs == {1, 2}

\* The operation of a transaction's leg.
OperationOf(t) == LegOf(t[1], t[2])

OneRunning == \A c \in Commands : phase[c] \in UnderWay <=> running = c

SentSoFar ==
  \A c \in Commands :
    /\ phase[c] = "new" => leg[c] = 1
    /\ phase[c] \in Unsent =>
         try[c] = 1 /\ tx[<<c, leg[c], 1>>] = "none" /\ tx[<<c, leg[c], 2>>] = "none"
    /\ phase[c] = "sending" =>
         /\ tx[<<c, leg[c], try[c]>>] # "none"
         /\ try[c] = 1 => tx[<<c, leg[c], 2>>] = "none"
         /\ try[c] = 2 => tx[<<c, leg[c], 1>>] = "dropped"
    /\ leg[c] = 1 => tx[<<c, 2, 1>>] = "none" /\ tx[<<c, 2, 2>>] = "none"

RetryOfDropped ==
  \A c \in Commands, n \in Legs : tx[<<c, n, 2>>] # "none" => tx[<<c, n, 1>>] = "dropped"

MemoryTrue ==
  /\ \A r \in recent : /\ tx[r.tx] # "none"
                       /\ OperationOf(r.tx).op \in Deduped
                       /\ r.key = KeyOf(OperationOf(r.tx))
  /\ \A r, s \in recent : r.key = s.key => r = s

NotRemembered ==
  \A c \in Commands :
    phase[c] \in {"building", "sending"} => Recent(Leg(c)) = {}

AnswersKept ==
  \A t \in OwnReported \ forgotten :
    OperationOf(t).op \in Deduped => \E r \in recent : r.tx = t

SendInv == MagicTypeOK /\ OneRunning /\ SentSoFar /\ RetryOfDropped

MemoryInv == SendInv /\ MemoryTrue /\ SignatureMatches /\ NotRemembered /\ AnswersKept

\* What waits for a price is a resizing, what waits for its second leg a reversal.
WaitsFor ==
  \A c \in Commands : /\ phase[c] = "pricing" => task[c].op \in Resizing
                      /\ phase[c] = "second" => task[c].op = "reverse"

LockInv == SendInv /\ WaitsFor /\ LocksReleased

-----------------------------------------------------------------------------
\* Operators

\* The operations of the legs, and the keys they are remembered under.
LEMMA LegType ==
  ASSUME MagicTypeOK, NEW c \in Commands, NEW n \in Legs
  PROVE  /\ LegOf(c, n).op \in Deduped \cup Resizing \cup Orders
         /\ LegOf(c, n).side \in Directions
         /\ LegOf(c, n).op \in Deduped => KeyOf(LegOf(c, n)) \in Keys
<1>1. task[c] \in Operations
  BY MagicAssumption DEF MagicTypeOK, MagicAssumption
<1>2. task[c].op \in Deduped \cup Resizing \cup Orders \cup {"reverse"} /\ task[c].side \in Directions
      /\ task[c].args \in Args \cup {Nothing}
  BY <1>1 DEF Operations
<1>3. CASE task[c].op # "reverse"
  <2>1. LegOf(c, n) = task[c]
    BY <1>3 DEF LegOf
  <2>2. task[c].op \in Deduped => KeyOf(task[c]) \in Keys
    BY <1>1, <1>2 DEF KeyOf, Keys, Operations
  <2> QED  BY <1>2, <1>3, <2>1, <2>2
<1>4. CASE task[c].op = "reverse"
  <2>1. LegOf(c, n) = IF n = 1
                      THEN [op |-> "close", side |-> task[c].side, args |-> Nothing, token |-> Default]
                      ELSE [op |-> "open", side |-> Opposite(task[c].side), args |-> task[c].args,
                            token |-> Default]
    BY <1>4 DEF LegOf
  <2>2. Opposite(task[c].side) \in Directions
    BY <1>2 DEF Opposite, Directions
  <2> QED  BY <1>2, <2>1, <2>2 DEF KeyOf, Keys, Deduped
<1> QED  BY <1>3, <1>4

LEMMA GuardType ==
  ASSUME NEW g \in Guards
  PROVE  /\ Reserve(g) \in Guards /\ RecordSigning(g) \in Guards /\ DelayPassed(g) \in Guards
         /\ g.slots > 0 => SlotPassed(g) \in Guards
<1>1. g.slots \in Nat /\ g.waiting \in BOOLEAN
  BY DEF Guards
<1>2. Reserve(g) \in Guards
  BY <1>1 DEF Guards, Reserve
<1>3. RecordSigning(g) \in Guards /\ DelayPassed(g) \in Guards
  BY DEF Guards, RecordSigning, DelayPassed
<1>4. ASSUME g.slots > 0 PROVE SlotPassed(g) \in Guards
  <2>1. g.slots - 1 \in Nat
    BY <1>1, <1>4
  <2> QED  BY <2>1 DEF Guards, SlotPassed
<1> QED  BY <1>2, <1>3, <1>4

\* A step that enters the rate limit ends the command, reports a remembered
\* signature, or goes on to build.
EnterRefused(c) == Finish(c, "failed") /\ UNCHANGED <<leg, try, locks, report>>
EnterRemembered(c) ==
  Recent(Leg(c)) # {} /\ UNCHANGED locks /\ \E r \in Recent(Leg(c)) : Reported(c, r.tx)
EnterBuilds(c) ==
  /\ Recent(Leg(c)) = {} /\ Leg(c).side \notin locks
  /\ phase' = [phase EXCEPT ![c] = "building"] /\ running' = c
  /\ locks' = locks \cup {Leg(c).side}
  /\ UNCHANGED <<leg, try, report>>

\* The instructions were built: the first attempt is sent.
Sent(c) ==
  /\ phase' = [phase EXCEPT ![c] = "sending"]
  /\ tx' = [tx EXCEPT ![<<c, leg[c], try[c]>>] = "pending"]
  /\ UNCHANGED <<session, running, leg, try, memory, report>>

\* The three ways into Admit.
Enters(c) ==
  /\ EnterRefused(c) \/ EnterRemembered(c) \/ EnterBuilds(c)
  /\ guard' \in {guard, Reserve(guard)}
  /\ UNCHANGED <<session, recent, forgotten, tx>>

LEMMA EnterCases ==
  ASSUME NEW c \in Commands, NEW valid \in BOOLEAN, Admit(c, valid)
  PROVE  Enters(c)
BY Zenon DEF Admit, Enters, EnterRefused, EnterRemembered, EnterBuilds

\* What every step does, one disjunct for each kind.
LEMMA NextCases ==
  ASSUME MagicNext
  PROVE  \/ \E c \in Commands :
              \/ /\ phase[c] \in {"new", "pricing", "second"}
                 /\ phase[c] = "new" => running = Nothing /\ task[c].op \in Deduped \cup {"reverse"}
                 /\ Enters(c)
              \/ running = Nothing /\ phase[c] = "new" /\ (Resize(c) \/ PlaceOrder(c))
              \/ Build(c) \/ SendAgain(c) \/ Refused(c) \/ Signed(c)
         \/ \E t \in Txs : Outcome(t)
         \/ TimePasses \/ Replace \/ Restart
<1>1. ASSUME NEW c \in Commands, Start(c)
      PROVE  /\ running = Nothing /\ phase[c] = "new"
             /\ \/ Enters(c) /\ task[c].op \in Deduped \cup {"reverse"}
                \/ Resize(c) \/ PlaceOrder(c)
  BY <1>1, EnterCases
     DEF Start, OpenPosition, ClosePosition, AddCollateral, RemoveCollateral, FlipPosition, Deduped
<1>2. ASSUME NEW c \in Commands, QuotePriced(c) \/ Second(c)
      PROVE  phase[c] \in {"pricing", "second"} /\ Enters(c)
  BY <1>2, EnterCases DEF QuotePriced, Second
<1> QED  BY <1>1, <1>2 DEF MagicNext, Advance

-----------------------------------------------------------------------------
\* Type correctness

\* The end of a command and the report of a signature.
LEMMA ReportedType ==
  ASSUME MagicTypeOK, NEW c \in Commands, NEW t \in Txs, Reported(c, t)
  PROVE  /\ running' \in Commands \cup {Nothing}
         /\ phase' \in [Commands -> {"new", "pricing", "building", "sending", "second", "done", "failed"}]
         /\ leg' \in [Commands -> {1, 2}] /\ try' \in [Commands -> {1, 2}]
         /\ report' \in [Commands \X {1, 2} -> Txs \cup {Nothing}]
<1>1. <<c, leg[c]>> \in Commands \X {1, 2}
  BY DEF MagicTypeOK
<1>2. report' \in [Commands \X {1, 2} -> Txs \cup {Nothing}]
  BY <1>1 DEF MagicTypeOK, Reported
<1> QED  BY <1>2 DEF MagicTypeOK, Reported, Finish

LEMMA FailedType ==
  ASSUME MagicTypeOK, NEW c \in Commands, Failed(c)
  PROVE  /\ running' \in Commands \cup {Nothing}
         /\ phase' \in [Commands -> {"new", "pricing", "building", "sending", "second", "done", "failed"}]
         /\ locks' \subseteq Directions
BY DEF MagicTypeOK, Failed, Finish, Unlock

LEMMA TypeInit == MagicInit => MagicTypeOK
<1>1. MagicInit => guard \in Guards
  BY DEF MagicInit, NewGuard, Guards
<1> QED  BY <1>1 DEF MagicInit, MagicTypeOK

LEMMA TypeStep == MagicTypeOK /\ [MagicNext]_magicVars => MagicTypeOK'
<1> SUFFICES ASSUME MagicTypeOK, [MagicNext]_magicVars PROVE MagicTypeOK'
  OBVIOUS
<1>1. ASSUME NEW c \in Commands, Enters(c) PROVE MagicTypeOK'
  <2>1. guard' \in Guards
    BY <1>1, GuardType DEF Enters, MagicTypeOK
  <2>2. CASE EnterRefused(c)
    BY <1>1, <2>1, <2>2 DEF Enters, EnterRefused, Finish, MagicTypeOK, session
  <2>3. CASE EnterRemembered(c)
    <3>1. PICK r \in Recent(Leg(c)) : Reported(c, r.tx)
      BY <2>3 DEF EnterRemembered
    <3>2. r.tx \in Txs
      BY DEF Recent, MagicTypeOK
    <3> QED  BY <1>1, <2>1, <2>3, <3>1, <3>2, ReportedType DEF Enters, EnterRemembered, MagicTypeOK, session
  <2>4. CASE EnterBuilds(c)
    <3>1. Leg(c).side \in Directions
      BY LegType DEF Leg, Legs, MagicTypeOK
    <3> QED  BY <1>1, <2>1, <2>4, <3>1 DEF Enters, EnterBuilds, MagicTypeOK, session
  <2> QED  BY <1>1, <2>2, <2>3, <2>4 DEF Enters
<1>2. ASSUME NEW c \in Commands, Resize(c) \/ PlaceOrder(c) PROVE MagicTypeOK'
  BY <1>2 DEF Resize, DecreasePosition, IncreasePosition, AwaitPrice, Resizing, PlaceOrder, MagicTypeOK, session, memory
<1>3. ASSUME NEW c \in Commands, Build(c) PROVE MagicTypeOK'
  <2>1. <<c, leg[c], try[c]>> \in Txs
    BY DEF MagicTypeOK, Txs
  <2>2. CASE Failed(c) /\ UNCHANGED tx
    BY <2>2, FailedType DEF Failed, MagicTypeOK, session
  <2>3. CASE Sent(c)
    BY <2>1, <2>3 DEF Sent, MagicTypeOK, session, memory
  <2> QED  BY <1>3, <2>2, <2>3 DEF Build, Sent
<1>4. ASSUME NEW c \in Commands, SendAgain(c) PROVE MagicTypeOK'
  <2>1. <<c, leg[c], 1>> \in Txs /\ <<c, leg[c], 2>> \in Txs
    BY DEF MagicTypeOK, Txs
  <2> QED  BY <1>4, <2>1 DEF SendAgain, MagicTypeOK, session, memory
<1>5. ASSUME NEW c \in Commands, Refused(c) PROVE MagicTypeOK'
  <2>1. tx' \in [Txs -> {"none", "pending", "landed", "dropped"}]
    BY <1>5 DEF Refused, MagicTypeOK
  <2> QED  BY <1>5, <2>1, FailedType DEF Refused, Failed, MagicTypeOK, session
<1>6. ASSUME NEW c \in Commands, Signed(c) PROVE MagicTypeOK'
  <2> DEFINE t == <<c, leg[c], try[c]>>
  <2>1. t \in Txs
    BY DEF MagicTypeOK, Txs
  <2>2. recent' \subseteq [key : Keys, tx : Txs]
    BY <1>6, <2>1, LegType DEF Signed, Remember, Leg, Legs, MagicTypeOK
  <2>3. guard' \in Guards
    BY <1>6, GuardType DEF Signed, MagicTypeOK
  <2>4. locks' \subseteq Directions
    BY <1>6 DEF Signed, Unlock, MagicTypeOK
  <2> QED  BY <1>6, <2>1, <2>2, <2>3, <2>4, ReportedType DEF Signed, MagicTypeOK, session
<1>7. ASSUME NEW t \in Txs, Outcome(t) PROVE MagicTypeOK'
  BY <1>7 DEF Outcome, MagicTypeOK, session, progress, memory
<1>8. ASSUME TimePasses PROVE MagicTypeOK'
  <2>1. guard' \in Guards
    BY <1>8, GuardType DEF TimePasses, MagicTypeOK
  <2>2. recent' \subseteq [key : Keys, tx : Txs]
    BY <1>8 DEF TimePasses, MagicTypeOK
  <2>3. forgotten' \subseteq Txs
    BY <1>8 DEF TimePasses, MagicTypeOK
  <2>4. UNCHANGED <<session, progress, locks, tx, report>>
    BY <1>8 DEF TimePasses
  <2> QED  BY <2>1, <2>2, <2>3, <2>4 DEF MagicTypeOK, session, progress
<1>9. ASSUME Replace PROVE MagicTypeOK'
  BY <1>9 DEF Replace, MagicTypeOK, session, progress
<1>10. ASSUME Restart PROVE MagicTypeOK'
  <2>1. NewGuard \in Guards
    BY DEF NewGuard, Guards
  <2> QED  BY <1>10, <2>1 DEF Restart, MagicTypeOK, session
<1>11. ASSUME UNCHANGED magicVars PROVE MagicTypeOK'
  BY <1>11 DEF magicVars, session, progress, memory, MagicTypeOK
<1> QED
  BY <1>1, <1>2, <1>3, <1>4, <1>5, <1>6, <1>7, <1>8, <1>9, <1>10, <1>11, NextCases

\* Every variable of the rollup's trades keeps its type, the rate limit's count and
\* the remembered signatures included.
THEOREM TypeCorrect == MagicSpec => []MagicTypeOK
BY TypeInit, TypeStep, PTL DEF MagicSpec

-----------------------------------------------------------------------------
\* What has been sent

\* A command that ends or goes on to the second leg of a reversal, after its leg
\* was sent or found in the memory.
LEMMA LegOver ==
  ASSUME SendInv, NEW c \in Commands, running \in {Nothing, c},
         tx' = tx, UNCHANGED session,
         \/ Failed(c)
         \/ EnterRefused(c)
         \/ \E t \in Txs : Reported(c, t)
  PROVE  OneRunning' /\ SentSoFar' /\ RetryOfDropped'
<1> USE DEF SendInv, MagicTypeOK
<1>1. \A d \in Commands \ {c} : phase[d] \notin UnderWay
  BY MagicAssumption DEF OneRunning, MagicAssumption
<1>2. CASE Failed(c) \/ EnterRefused(c) \/ \E t \in Txs : Reported(c, t) /\ Finish(c, "done") /\ UNCHANGED <<leg, try>>
  <2>1. /\ running' = Nothing /\ leg' = leg /\ try' = try
        /\ phase' = [phase EXCEPT ![c] = "done"] \/ phase' = [phase EXCEPT ![c] = "failed"]
    BY <1>2 DEF Failed, EnterRefused, Finish
  <2>2. OneRunning'
    BY <1>1, <2>1, MagicAssumption DEF OneRunning, UnderWay, MagicAssumption
  <2>3. SentSoFar'
    <3> SUFFICES ASSUME NEW d \in Commands PROVE SentSoFar!(d)'
      BY DEF SentSoFar
    <3>1. CASE d = c
      BY <2>1, <3>1 DEF SentSoFar, Unsent
    <3>2. CASE d # c
      BY <2>1, <3>2 DEF SentSoFar, Unsent
    <3> QED  BY <3>1, <3>2
  <2> QED  BY <2>2, <2>3 DEF RetryOfDropped
<1>3. CASE \E t \in Txs : Reported(c, t) /\ leg[c] = 1 /\ phase' = [phase EXCEPT ![c] = "second"]
  <2>1. /\ leg' = [leg EXCEPT ![c] = 2] /\ try' = [try EXCEPT ![c] = 1] /\ running' = c
        /\ leg[c] = 1 /\ phase' = [phase EXCEPT ![c] = "second"]
    BY <1>3 DEF Reported, Finish
  <2>2. OneRunning'
    BY <1>1, <2>1, MagicAssumption DEF OneRunning, UnderWay, MagicAssumption
  <2>3. SentSoFar'
    <3> SUFFICES ASSUME NEW d \in Commands PROVE SentSoFar!(d)'
      BY DEF SentSoFar
    <3>1. CASE d = c
      BY <2>1, <3>1 DEF SentSoFar, Unsent
    <3>2. CASE d # c
      BY <2>1, <3>2 DEF SentSoFar, Unsent
    <3> QED  BY <3>1, <3>2
  <2> QED  BY <2>2, <2>3 DEF RetryOfDropped
<1> QED  BY <1>2, <1>3 DEF Reported

\* A command that a step leaves alone.
LEMMA SentFrame ==
  ASSUME SendInv, NEW d \in Commands,
         phase'[d] = phase[d], leg'[d] = leg[d], try'[d] = try[d],
         \A n \in Legs, k \in {1, 2} : tx'[<<d, n, k>>] = tx[<<d, n, k>>]
  PROVE  SentSoFar!(d)'
<1>1. leg[d] \in Legs /\ try[d] \in {1, 2}
  BY DEF SendInv, MagicTypeOK, Legs
<1>2. SentSoFar!(d)
  BY DEF SendInv, SentSoFar
<1>3. /\ tx'[<<d, leg[d], 1>>] = tx[<<d, leg[d], 1>>] /\ tx'[<<d, leg[d], 2>>] = tx[<<d, leg[d], 2>>]
      /\ tx'[<<d, 2, 1>>] = tx[<<d, 2, 1>>] /\ tx'[<<d, 2, 2>>] = tx[<<d, 2, 2>>]
      /\ tx'[<<d, leg[d], try[d]>>] = tx[<<d, leg[d], try[d]>>]
  BY <1>1 DEF Legs
<1> QED  BY <1>2, <1>3

LEMMA SendInit == MagicInit => OneRunning /\ SentSoFar /\ RetryOfDropped
<1> SUFFICES ASSUME MagicInit PROVE OneRunning /\ SentSoFar /\ RetryOfDropped
  OBVIOUS
<1>1. \A c \in Commands, n \in Legs, k \in {1, 2} : tx[<<c, n, k>>] = "none"
  BY DEF MagicInit, Txs, Legs
<1> QED
  BY <1>1, MagicAssumption
  DEF MagicInit, OneRunning, SentSoFar, RetryOfDropped, UnderWay, Unsent, Legs, MagicAssumption

LEMMA SendStep == SendInv /\ [MagicNext]_magicVars => OneRunning' /\ SentSoFar' /\ RetryOfDropped'
<1> SUFFICES ASSUME SendInv, [MagicNext]_magicVars PROVE OneRunning' /\ SentSoFar' /\ RetryOfDropped'
  OBVIOUS
<1> USE DEF SendInv
<1>1. ASSUME NEW c \in Commands, Enters(c),
             phase[c] \in {"new", "pricing", "second"}, phase[c] = "new" => running = Nothing
      PROVE  OneRunning' /\ SentSoFar' /\ RetryOfDropped'
  <2>1. running \in {Nothing, c}
    BY <1>1 DEF OneRunning, UnderWay
  <2>2. CASE EnterRefused(c)
    BY <1>1, <2>1, <2>2, LegOver DEF Enters
  <2>3. CASE EnterRemembered(c)
    <3>1. PICK r \in Recent(Leg(c)) : Reported(c, r.tx)
      BY <2>3 DEF EnterRemembered
    <3>2. r.tx \in Txs
      BY DEF Recent, MagicTypeOK
    <3> QED  BY <1>1, <2>1, <3>1, <3>2, LegOver DEF Enters
  <2>4. CASE EnterBuilds(c)
    <3>1. \A d \in Commands \ {c} : phase[d] \notin UnderWay
      BY <2>1, MagicAssumption DEF OneRunning, MagicAssumption
    <3>2. OneRunning'
      BY <2>4, <3>1 DEF EnterBuilds, OneRunning, UnderWay, MagicTypeOK
    <3>3. SentSoFar'
      BY <1>1, <2>4 DEF Enters, EnterBuilds, SentSoFar, Unsent, MagicTypeOK
    <3> QED  BY <1>1, <3>2, <3>3 DEF Enters, RetryOfDropped
  <2> QED  BY <1>1, <2>2, <2>3, <2>4 DEF Enters
<1>2. ASSUME NEW c \in Commands, running = Nothing, phase[c] = "new", Resize(c) \/ PlaceOrder(c)
      PROVE  OneRunning' /\ SentSoFar' /\ RetryOfDropped'
  <2>1. /\ running' = c /\ UNCHANGED <<leg, try, tx>>
        /\ phase' = [phase EXCEPT ![c] = "pricing"] \/ phase' = [phase EXCEPT ![c] = "building"]
    BY <1>2 DEF Resize, DecreasePosition, IncreasePosition, AwaitPrice, Resizing, PlaceOrder
  <2>2. \A d \in Commands : phase[d] \notin UnderWay
    BY <1>2, MagicAssumption DEF OneRunning, MagicAssumption
  <2>3. OneRunning'
    BY <2>1, <2>2 DEF OneRunning, UnderWay, MagicTypeOK
  <2>4. SentSoFar'
    <3> SUFFICES ASSUME NEW d \in Commands PROVE SentSoFar!(d)'
      BY DEF SentSoFar
    <3>1. CASE d = c
      <4>1. SentSoFar!(c)
        BY DEF SentSoFar
      <4>2. phase'[c] \in {"pricing", "building"}
        BY <2>1 DEF MagicTypeOK
      <4> QED  BY <1>2, <2>1, <3>1, <4>1, <4>2 DEF Unsent
    <3>2. CASE d # c
      <4>1. phase'[d] = phase[d] /\ UNCHANGED <<leg, try, tx>>
        BY <2>1, <3>2 DEF MagicTypeOK
      <4> QED  BY <4>1, SentFrame
    <3> QED  BY <3>1, <3>2
  <2> QED  BY <2>1, <2>3, <2>4 DEF RetryOfDropped
<1>3. ASSUME NEW c \in Commands, Build(c)
      PROVE  OneRunning' /\ SentSoFar' /\ RetryOfDropped'
  <2>1. running = c
    BY <1>3 DEF Build, OneRunning, UnderWay
  <2>2. CASE Failed(c) /\ UNCHANGED tx
    BY <2>1, <2>2, LegOver DEF Failed
  <2>3. CASE Sent(c)
    <3>1. /\ try[c] = 1 /\ leg[c] \in Legs
          /\ tx[<<c, leg[c], 1>>] = "none" /\ tx[<<c, leg[c], 2>>] = "none"
      BY <1>3 DEF Build, SentSoFar, Unsent, MagicTypeOK, Legs
    <3>2. \A d \in Commands, n \in Legs, k \in {1, 2} :
            tx'[<<d, n, k>>] = IF d = c /\ n = leg[c] /\ k = 1 THEN "pending" ELSE tx[<<d, n, k>>]
      BY <2>3, <3>1 DEF Sent, MagicTypeOK, Txs, Legs
    <3>3. OneRunning'
      BY <1>3, <2>3 DEF Build, Sent, OneRunning, UnderWay, MagicTypeOK
    <3>4. SentSoFar'
      <4> SUFFICES ASSUME NEW d \in Commands PROVE SentSoFar!(d)'
        BY DEF SentSoFar
      <4>1. CASE d = c
        <5>1. phase'[c] = "sending" /\ leg' = leg /\ try' = try
          BY <2>3 DEF Sent, MagicTypeOK
        <5>2. tx'[<<c, leg[c], 1>>] = "pending" /\ tx'[<<c, leg[c], 2>>] = "none"
          BY <3>1, <3>2
        <5>3. leg[c] = 1 => tx'[<<c, 2, 1>>] = "none" /\ tx'[<<c, 2, 2>>] = "none"
          <6>1. leg[c] = 1 => tx[<<c, 2, 1>>] = "none" /\ tx[<<c, 2, 2>>] = "none"
            BY DEF SentSoFar
          <6>2. ASSUME leg[c] = 1, NEW k \in {1, 2} PROVE tx'[<<c, 2, k>>] = tx[<<c, 2, k>>]
            <7>1. 2 \in Legs /\ 2 # leg[c]
              BY <6>2 DEF Legs
            <7> QED  BY <3>2, <7>1
          <6> QED  BY <6>1, <6>2
        <5> QED  BY <3>1, <4>1, <5>1, <5>2, <5>3 DEF Unsent
      <4>2. CASE d # c
        <5>1. phase'[d] = phase[d] /\ leg' = leg /\ try' = try
          BY <2>3, <4>2 DEF Sent, MagicTypeOK
        <5> QED  BY <3>2, <4>2, <5>1, SentFrame
      <4> QED  BY <4>1, <4>2
    <3>5. RetryOfDropped'
      <4> SUFFICES ASSUME NEW d \in Commands, NEW n \in Legs, tx'[<<d, n, 2>>] # "none"
                   PROVE  tx'[<<d, n, 1>>] = "dropped"
        BY DEF RetryOfDropped
      <4>1. tx[<<d, n, 2>>] # "none" /\ tx[<<d, n, 1>>] = "dropped"
        BY <3>2 DEF RetryOfDropped
      <4>2. ~(d = c /\ n = leg[c])
        BY <3>1, <4>1
      <4> QED  BY <3>2, <4>1, <4>2
    <3> QED  BY <3>3, <3>4, <3>5
  <2> QED  BY <1>3, <2>2, <2>3 DEF Build, Sent
<1>4. ASSUME NEW c \in Commands, SendAgain(c)
      PROVE  OneRunning' /\ SentSoFar' /\ RetryOfDropped'
  <2> DEFINE first == <<c, leg[c], 1>>
             second == <<c, leg[c], 2>>
  <2>0. first \in Txs /\ second \in Txs /\ first # second /\ leg[c] \in Legs
    BY DEF MagicTypeOK, Txs, Legs
  <2>a. \A t \in Txs : tx'[t] = IF t = second THEN "pending" ELSE IF t = first THEN "dropped" ELSE tx[t]
    <3> HIDE DEF first, second
    <3>1. tx' = [tx EXCEPT ![first] = "dropped", ![second] = "pending"]
      BY <1>4 DEF SendAgain, first, second
    <3> QED  BY <2>0, <3>1 DEF MagicTypeOK
  <2>1. \A d \in Commands, n \in Legs, k \in {1, 2} :
          tx'[<<d, n, k>>] = IF d = c /\ n = leg[c] THEN (IF k = 1 THEN "dropped" ELSE "pending")
                             ELSE tx[<<d, n, k>>]
    <3> TAKE d \in Commands, n \in Legs, k \in {1, 2}
    <3>1. <<d, n, k>> \in Txs
      BY DEF Txs, Legs
    <3> QED  BY <2>a, <3>1
  <2>2. OneRunning'
    BY <1>4 DEF SendAgain, OneRunning
  <2>3. SentSoFar'
    <3> SUFFICES ASSUME NEW d \in Commands PROVE SentSoFar!(d)'
      BY DEF SentSoFar
    <3>1. leg[c] \in Legs /\ leg[d] \in Legs /\ phase[c] = "sending" /\ try' = [try EXCEPT ![c] = 2]
          /\ tx[<<c, leg[c], 1>>] = "pending" /\ UNCHANGED <<phase, leg>>
      BY <1>4 DEF SendAgain, MagicTypeOK, Legs
    <3>2. CASE d = c
      <4>1. try'[c] = 2
        BY <3>1 DEF MagicTypeOK
      <4>2. tx'[<<c, leg[c], 1>>] = "dropped" /\ tx'[<<c, leg[c], 2>>] = "pending"
        BY <2>1, <3>1
      <4>3. leg[c] = 1 => tx'[<<c, 2, 1>>] = "none" /\ tx'[<<c, 2, 2>>] = "none"
        <5>1. leg[c] = 1 => tx[<<c, 2, 1>>] = "none" /\ tx[<<c, 2, 2>>] = "none"
          BY DEF SentSoFar
        <5>2. ASSUME leg[c] = 1, NEW k \in {1, 2} PROVE tx'[<<c, 2, k>>] = tx[<<c, 2, k>>]
          <6>1. 2 \in Legs /\ 2 # leg[c]
            BY <5>2 DEF Legs
          <6> QED  BY <2>1, <6>1
        <5> QED  BY <5>1, <5>2
      <4> QED  BY <3>1, <3>2, <4>1, <4>2, <4>3 DEF Unsent
    <3>3. CASE d # c
      <4>1. phase'[d] = phase[d] /\ leg'[d] = leg[d] /\ try'[d] = try[d]
        BY <3>1, <3>3 DEF MagicTypeOK
      <4> QED  BY <2>1, <3>3, <4>1, SentFrame
    <3> QED  BY <3>2, <3>3
  <2>4. RetryOfDropped'
    <3> SUFFICES ASSUME NEW d \in Commands, NEW n \in Legs, tx'[<<d, n, 2>>] # "none"
                 PROVE  tx'[<<d, n, 1>>] = "dropped"
      BY DEF RetryOfDropped
    <3>1. CASE d = c /\ n = leg[c]
      BY <2>1, <3>1
    <3>2. CASE ~(d = c /\ n = leg[c])
      BY <2>1, <3>2 DEF RetryOfDropped
    <3> QED  BY <3>1, <3>2
  <2> QED  BY <2>2, <2>3, <2>4
<1>5. ASSUME NEW c \in Commands, Signed(c)
      PROVE  OneRunning' /\ SentSoFar' /\ RetryOfDropped'
  <2>1. running = c
    BY <1>5 DEF Signed, OneRunning, UnderWay
  <2>2. <<c, leg[c], try[c]>> \in Txs
    BY DEF MagicTypeOK, Txs
  <2> QED  BY <1>5, <2>1, <2>2, LegOver DEF Signed
<1>6. ASSUME NEW t \in Txs, Outcome(t)
      PROVE  OneRunning' /\ SentSoFar' /\ RetryOfDropped'
  <2>1. tx[t] = "pending" /\ UNCHANGED progress
        /\ (tx' = [tx EXCEPT ![t] = "landed"] \/ tx' = [tx EXCEPT ![t] = "dropped"])
    BY <1>6 DEF Outcome
  <2>2. \A u \in Txs : /\ tx[u] # "none" <=> tx'[u] # "none"
                       /\ tx[u] = "dropped" => tx'[u] = "dropped"
    BY <2>1 DEF MagicTypeOK
  <2>3. \A c \in Commands, n \in Legs, k \in {1, 2} : <<c, n, k>> \in Txs
    BY DEF Txs, Legs
  <2>4. \A c \in Commands : leg[c] \in Legs /\ try[c] \in {1, 2}
    BY DEF MagicTypeOK, Legs
  <2>5. SentSoFar'
    <3> SUFFICES ASSUME NEW d \in Commands PROVE SentSoFar!(d)'
      BY DEF SentSoFar
    <3>1. UNCHANGED <<phase, leg, try>>
      BY <2>1 DEF progress
    <3>2. SentSoFar!(d)
      BY DEF SentSoFar
    <3>3. {<<d, leg[d], 1>>, <<d, leg[d], 2>>, <<d, leg[d], try[d]>>, <<d, 2, 1>>, <<d, 2, 2>>} \subseteq Txs
      BY <2>3, <2>4 DEF Legs
    <3> QED  BY <2>2, <3>1, <3>2, <3>3
  <2>6. RetryOfDropped'
    BY <2>2, <2>3 DEF RetryOfDropped
  <2> QED  BY <2>1, <2>5, <2>6 DEF OneRunning, progress
<1>7. ASSUME NEW c \in Commands, Refused(c)
      PROVE  OneRunning' /\ SentSoFar' /\ RetryOfDropped'
  <2>1. running = c /\ phase[c] = "sending" /\ Failed(c)
    BY <1>7 DEF Refused, OneRunning, UnderWay
  <2>2. \A d \in Commands \ {c} : phase[d] \notin UnderWay
    BY <2>1 DEF OneRunning
  <2>3. /\ running' = Nothing /\ UNCHANGED <<leg, try>> /\ phase' = [phase EXCEPT ![c] = "failed"]
    BY <2>1 DEF Failed, Finish
  <2>4. \A u \in Txs : /\ tx[u] # "none" <=> tx'[u] # "none"
                       /\ tx[u] = "dropped" => tx'[u] = "dropped"
    BY <1>7 DEF Refused, MagicTypeOK
  <2>5. \A d \in Commands, n \in Legs, k \in {1, 2} : <<d, n, k>> \in Txs
    BY DEF Txs, Legs
  <2>6. OneRunning'
    BY <2>2, <2>3, MagicAssumption DEF OneRunning, UnderWay, MagicAssumption, MagicTypeOK
  <2>7. SentSoFar'
    <3> SUFFICES ASSUME NEW d \in Commands PROVE SentSoFar!(d)'
      BY DEF SentSoFar
    <3>1. leg[d] \in Legs /\ try[d] \in {1, 2}
      BY DEF MagicTypeOK, Legs
    <3>2. CASE d = c
      BY <2>1, <2>3, <2>4, <2>5, <3>1, <3>2 DEF SentSoFar, Unsent, MagicTypeOK, Legs
    <3>3. CASE d # c
      BY <2>3, <2>4, <2>5, <3>1, <3>3 DEF SentSoFar, Unsent, MagicTypeOK, Legs
    <3> QED  BY <3>2, <3>3
  <2>8. RetryOfDropped'
    BY <2>4, <2>5 DEF RetryOfDropped
  <2> QED  BY <2>6, <2>7, <2>8
<1>8. ASSUME TimePasses \/ Replace \/ UNCHANGED magicVars
      PROVE  OneRunning' /\ SentSoFar' /\ RetryOfDropped'
  <2>1. UNCHANGED <<progress, tx>>
    BY <1>8 DEF TimePasses, Replace, magicVars
  <2> QED  BY <2>1 DEF OneRunning, SentSoFar, RetryOfDropped, progress
<1>9. ASSUME Restart
      PROVE  OneRunning' /\ SentSoFar' /\ RetryOfDropped'
  <2>1. running' = Nothing /\ phase' = [phase EXCEPT ![running] = "failed"] /\ UNCHANGED <<leg, try, tx>>
    BY <1>9 DEF Restart
  <2>2. \A c \in Commands : phase'[c] = IF c = running THEN "failed" ELSE phase[c]
    BY <2>1 DEF MagicTypeOK
  <2>3. OneRunning'
    BY <2>1, <2>2, MagicAssumption DEF OneRunning, UnderWay, MagicAssumption
  <2>4. SentSoFar'
    <3> SUFFICES ASSUME NEW d \in Commands PROVE SentSoFar!(d)'
      BY DEF SentSoFar
    <3>1. SentSoFar!(d)
      BY DEF SentSoFar
    <3>2. CASE d = running
      BY <2>1, <2>2, <3>1, <3>2 DEF Unsent
    <3>3. CASE d # running
      BY <2>1, <2>2, <3>1, <3>3
    <3> QED  BY <3>2, <3>3
  <2> QED  BY <2>1, <2>3, <2>4 DEF RetryOfDropped
<1> QED
  BY <1>1, <1>2, <1>3, <1>4, <1>5, <1>6, <1>7, <1>8, <1>9, NextCases

\* A trade is executed at most once: the second attempt is only sent when the first
\* was refused (sendErIxs()).
THEOREM EffectOnceHolds == MagicSpec => []EffectOnce
<1>1. SendInv => EffectOnce
  BY DEF SendInv, RetryOfDropped, EffectOnce, Alive, Legs
<1>2. MagicInit => SendInv
  BY TypeInit, SendInit DEF SendInv
<1>3. SendInv /\ [MagicNext]_magicVars => SendInv'
  BY TypeStep, SendStep DEF SendInv
<1> QED  BY <1>1, <1>2, <1>3, PTL DEF MagicSpec
-----------------------------------------------------------------------------
\* What is remembered

\* An operation of a leg.
LegOperations ==
  [op : Deduped \cup Resizing \cup Orders, side : Directions, args : Args \cup {Nothing},
   token : Tokens]

LEMMA LegRecord ==
  ASSUME MagicTypeOK, NEW c \in Commands, NEW n \in Legs
  PROVE  LegOf(c, n) \in LegOperations
<1>1. task[c] \in Operations
  BY MagicAssumption DEF MagicTypeOK, MagicAssumption
<1>2. CASE task[c].op # "reverse"
  BY <1>1, <1>2 DEF LegOf, Operations, LegOperations
<1>3. CASE task[c].op = "reverse"
  <2>1. /\ Opposite(task[c].side) \in Directions /\ task[c].side \in Directions
        /\ task[c].args \in Args \cup {Nothing} /\ Default \in Tokens
    BY <1>1, MagicAssumption DEF Operations, Opposite, Directions, MagicAssumption
  <2> QED  BY <1>3, <2>1 DEF LegOf, Deduped, LegOperations
<1> QED  BY <1>2, <1>3

\* Two operations have one key if and only if they are alike.
LEMMA OneKey ==
  ASSUME NEW o \in LegOperations, NEW p \in LegOperations
  PROVE  KeyOf(o) = KeyOf(p) <=> Alike(o, p)
BY DEF KeyOf, Alike

\* A step that reports nothing and remembers nothing new.
Keeps ==
  /\ report' = report /\ recent' \subseteq recent /\ forgotten \subseteq forgotten'
  /\ \A r \in recent \ recent' : r.tx \in forgotten'
  /\ \A c \in Commands : phase'[c] \in {"building", "sending"} =>
       leg'[c] = leg[c] /\ (phase[c] \in {"building", "sending"} \/ Recent(Leg(c)) = {})

\* A step that reports the signature of an earlier trade.
Recalls(c) ==
  /\ phase[c] \in {"new", "pricing", "second"} /\ (phase[c] = "new" => running = Nothing)
  /\ Enters(c) /\ EnterRemembered(c)

LEMMA SentForGood ==
  ASSUME MagicTypeOK, [MagicNext]_magicVars
  PROVE  task' = task /\ \A t \in Txs : tx[t] # "none" => tx'[t] # "none"
<1>1. ASSUME NEW c \in Commands, SendAgain(c)
      PROVE  task' = task /\ \A t \in Txs : tx[t] # "none" => tx'[t] # "none"
  <2> DEFINE first == <<c, leg[c], 1>>
             second == <<c, leg[c], 2>>
  <2>1. tx' = [tx EXCEPT ![first] = "dropped", ![second] = "pending"] /\ task' = task
    BY <1>1 DEF SendAgain, session
  <2>2. first \in Txs /\ second \in Txs
    BY DEF MagicTypeOK, Txs
  <2> HIDE DEF first, second
  <2> QED  BY <2>1, <2>2 DEF MagicTypeOK
<1>2. ASSUME NEW c \in Commands, Build(c) \/ Refused(c)
      PROVE  task' = task /\ \A t \in Txs : tx[t] # "none" => tx'[t] # "none"
  <2> DEFINE u == <<c, leg[c], try[c]>>
  <2>1. task' = task /\ (tx' = tx \/ tx' = [tx EXCEPT ![u] = "pending"] \/ tx' = [tx EXCEPT ![u] = "dropped"])
    BY <1>2 DEF Build, Refused, Failed, session
  <2>2. u \in Txs
    BY DEF MagicTypeOK, Txs
  <2> HIDE DEF u
  <2> QED  BY <2>1, <2>2 DEF MagicTypeOK
<1>3. ASSUME NEW t \in Txs, Outcome(t)
      PROVE  task' = task /\ \A u \in Txs : tx[u] # "none" => tx'[u] # "none"
  BY <1>3 DEF Outcome, session, MagicTypeOK
<1>4. ASSUME NEW c \in Commands, Enters(c) \/ Resize(c) \/ PlaceOrder(c) \/ Signed(c)
      PROVE  task' = task /\ tx' = tx
  BY <1>4 DEF Enters, Resize, DecreasePosition, IncreasePosition, AwaitPrice, PlaceOrder, Signed, session
<1>5. ASSUME TimePasses \/ Replace \/ Restart \/ UNCHANGED magicVars
      PROVE  task' = task /\ tx' = tx
  BY <1>5 DEF TimePasses, Replace, Restart, magicVars, session
<1> QED  BY <1>1, <1>2, <1>3, <1>4, <1>5, NextCases

LEMMA StepKinds ==
  ASSUME MagicTypeOK, [MagicNext]_magicVars
  PROVE  (\E c \in Commands : Signed(c) \/ Recalls(c)) \/ Keeps
<1>1. ASSUME NEW c \in Commands, Enters(c),
             phase[c] \in {"new", "pricing", "second"}, phase[c] = "new" => running = Nothing
      PROVE  Recalls(c) \/ Keeps
  <2>1. CASE EnterRefused(c)
    BY <1>1, <2>1 DEF Enters, EnterRefused, Finish, Keeps, MagicTypeOK
  <2>2. CASE EnterBuilds(c)
    BY <1>1, <2>2 DEF Enters, EnterBuilds, Keeps, MagicTypeOK
  <2> QED  BY <1>1, <2>1, <2>2 DEF Enters, Recalls
<1>2. ASSUME NEW c \in Commands, Resize(c) PROVE Keeps
  BY <1>2 DEF Resize, DecreasePosition, IncreasePosition, AwaitPrice, Resizing, Keeps, memory, MagicTypeOK
<1>3. ASSUME NEW c \in Commands, PlaceOrder(c) PROVE Keeps
  <2>1. Recent(Leg(c)) = {}
    BY <1>3 DEF PlaceOrder, Recent, Leg, LegOf, Orders, Deduped
  <2> QED  BY <1>3, <2>1 DEF PlaceOrder, Keeps, memory, MagicTypeOK
<1>4. ASSUME NEW c \in Commands, Build(c) PROVE Keeps
  BY <1>4 DEF Build, Failed, Finish, Keeps, memory, MagicTypeOK
<1>5. ASSUME NEW c \in Commands, SendAgain(c) PROVE Keeps
  BY <1>5 DEF SendAgain, Keeps, memory
<1>6. ASSUME NEW c \in Commands, Refused(c) PROVE Keeps
  BY <1>6 DEF Refused, Failed, Finish, Keeps, MagicTypeOK
<1>7. ASSUME NEW t \in Txs, Outcome(t) PROVE Keeps
  BY <1>7 DEF Outcome, Keeps, memory, progress
<1>8. ASSUME TimePasses PROVE Keeps
  BY <1>8 DEF TimePasses, Keeps, progress
<1>9. ASSUME Replace PROVE Keeps
  BY <1>9 DEF Replace, Keeps, progress
<1>10. ASSUME Restart PROVE Keeps
  BY <1>10 DEF Restart, Keeps, MagicTypeOK
<1>11. ASSUME UNCHANGED magicVars PROVE Keeps
  BY <1>11 DEF magicVars, Keeps, memory, progress
<1> QED
  BY <1>1, <1>2, <1>3, <1>4, <1>5, <1>6, <1>7, <1>8, <1>9, <1>10, <1>11, NextCases

LEMMA MemoryInit == MagicInit => MemoryTrue /\ SignatureMatches /\ NotRemembered /\ AnswersKept
<1>1. MagicInit => \A t \in Txs : report[<<t[1], t[2]>>] = Nothing
  BY DEF MagicInit, Txs
<1>2. MagicInit => OwnReported = {} /\ recent = {}
  BY <1>1, MagicAssumption DEF OwnReported, MagicAssumption, MagicInit
<1> QED
  BY <1>2 DEF MagicInit, MemoryTrue, SignatureMatches, NotRemembered, AnswersKept

\* The transaction of the leg in progress, when it is signed.
LEMMA OwnTx ==
  ASSUME SendInv, NEW c \in Commands, Signed(c)
  PROVE  LET t == <<c, leg[c], try[c]>>
         IN  /\ t \in Txs /\ tx[t] # "none" /\ t[1] = c /\ t[2] = leg[c] /\ leg[c] \in Legs
             /\ Remember(Leg(c), t) /\ OperationOf(t) = Leg(c)
             /\ report' = [report EXCEPT ![<<c, leg[c]>>] = t]
             /\ UNCHANGED <<forgotten, tx, task>>
<1>1. <<c, leg[c], try[c]>> \in Txs /\ leg[c] \in Legs
  BY DEF SendInv, MagicTypeOK, Txs, Legs
<1>2. tx[<<c, leg[c], try[c]>>] # "none"
  BY DEF SendInv, SentSoFar, Signed
<1> QED  BY <1>1, <1>2 DEF Signed, Reported, OperationOf, Leg, session

\* The transaction whose signature is recalled.
LEMMA OldTx ==
  ASSUME SendInv, MemoryTrue, NEW c \in Commands, Recalls(c)
  PROVE  /\ leg[c] \in Legs
         /\ UNCHANGED <<recent, forgotten, tx, task>>
         /\ \E r \in recent : /\ report' = [report EXCEPT ![<<c, leg[c]>>] = r.tx]
                              /\ r.tx \in Txs /\ tx[r.tx] # "none"
                              /\ Alike(OperationOf(r.tx), LegOf(c, leg[c]))
<1>1. leg[c] \in Legs
  BY DEF SendInv, MagicTypeOK, Legs
<1>2. PICK r \in Recent(Leg(c)) : Reported(c, r.tx)
  BY DEF Recalls, EnterRemembered
<1>3. r \in recent /\ r.key = KeyOf(Leg(c)) /\ Leg(c).op \in Deduped
  BY DEF Recent
<1>4. r.tx \in Txs /\ tx[r.tx] # "none" /\ r.key = KeyOf(OperationOf(r.tx))
  BY <1>3 DEF MemoryTrue, SendInv, MagicTypeOK
<1>5. r.tx[1] \in Commands /\ r.tx[2] \in Legs
  BY <1>4 DEF Txs, Legs
<1>6. Alike(OperationOf(r.tx), LegOf(c, leg[c]))
  BY <1>1, <1>3, <1>4, <1>5, OneKey, LegRecord DEF OperationOf, Leg, SendInv
<1>7. UNCHANGED <<recent, forgotten, tx, task>>
  BY DEF Recalls, Enters, session
<1> QED  BY <1>1, <1>2, <1>3, <1>4, <1>6, <1>7 DEF Reported

LEMMA SameLegs ==
  ASSUME task' = task
  PROVE  /\ \A c \in Commands, n \in Legs : LegOf(c, n)' = LegOf(c, n)
         /\ \A t \in Txs : OperationOf(t)' = OperationOf(t)
BY DEF LegOf, OperationOf

LEMMA MemoryTrueStep == MemoryInv /\ [MagicNext]_magicVars => MemoryTrue'
<1> SUFFICES ASSUME MemoryInv, [MagicNext]_magicVars PROVE MemoryTrue'
  OBVIOUS
<1> USE DEF MemoryInv, SendInv
<1>1. task' = task /\ \A t \in Txs : tx[t] # "none" => tx'[t] # "none"
  BY SentForGood
<1>2. \A t \in Txs : OperationOf(t)' = OperationOf(t)
  BY <1>1, SameLegs
<1>3. \A r \in recent : r.tx \in Txs
  BY DEF MagicTypeOK
<1>4. CASE recent' \subseteq recent
  <2>1. \A r \in recent' : /\ tx'[r.tx] # "none"
                            /\ OperationOf(r.tx)'.op \in Deduped
                            /\ r.key = KeyOf(OperationOf(r.tx)')
    BY <1>1, <1>2, <1>3, <1>4 DEF MemoryTrue
  <2> QED  BY <1>4, <2>1 DEF MemoryTrue, KeyOf
<1>5. ASSUME NEW c \in Commands, Signed(c) PROVE MemoryTrue'
  <2> DEFINE t == <<c, leg[c], try[c]>>
  <2>1. /\ t \in Txs /\ tx[t] # "none" /\ OperationOf(t) = Leg(c)
        /\ Remember(Leg(c), t)
    BY <1>5, OwnTx
  <2> HIDE DEF t
  <2>2. CASE Leg(c).op \notin Deduped
    BY <1>4, <2>1, <2>2 DEF Remember
  <2>3. CASE Leg(c).op \in Deduped
    <3>1. recent' = {r \in recent : r.key # KeyOf(Leg(c))} \cup {[key |-> KeyOf(Leg(c)), tx |-> t]}
      BY <2>1, <2>3 DEF Remember
    <3>2. \A r \in recent' : /\ tx'[r.tx] # "none"
                              /\ OperationOf(r.tx)'.op \in Deduped
                              /\ r.key = KeyOf(OperationOf(r.tx)')
      BY <1>1, <1>2, <1>3, <2>1, <2>3, <3>1 DEF MemoryTrue
    <3>3. \A r, s \in recent' : r.key = s.key => r = s
      BY <3>1 DEF MemoryTrue
    <3> QED  BY <3>2, <3>3 DEF MemoryTrue, KeyOf
  <2> QED  BY <2>2, <2>3
<1> QED  BY <1>4, <1>5, StepKinds, OldTx DEF Keeps

LEMMA SignatureStep == MemoryInv /\ [MagicNext]_magicVars => SignatureMatches'
<1> SUFFICES ASSUME MemoryInv, [MagicNext]_magicVars,
                    NEW d \in Commands, NEW n \in Legs,
                    NEW t, t = report'[<<d, n>>], t # Nothing
             PROVE  tx'[t] # "none" /\ Alike(OperationOf(t)', LegOf(d, n)')
  BY DEF SignatureMatches, OperationOf, Alike, Legs
<1> USE DEF MemoryInv, SendInv
<1>1. task' = task /\ \A u \in Txs : tx[u] # "none" => tx'[u] # "none"
  BY SentForGood
<1>2. <<d, n>> \in Commands \X {1, 2} /\ report \in [Commands \X {1, 2} -> Txs \cup {Nothing}]
  BY DEF Legs, MagicTypeOK
<1>3. LegOf(d, n)' = LegOf(d, n) /\ \A u \in Txs : OperationOf(u)' = OperationOf(u)
  BY <1>1, SameLegs
<1>4. SUFFICES t \in Txs /\ tx[t] # "none" /\ Alike(OperationOf(t), LegOf(d, n))
  BY <1>1, <1>3
<1>5. CASE t = report[<<d, n>>]
  BY <1>2, <1>5 DEF SignatureMatches, OperationOf, Legs
<1>6. ASSUME NEW c \in Commands, Signed(c), t # report[<<d, n>>]
      PROVE  t \in Txs /\ tx[t] # "none" /\ Alike(OperationOf(t), LegOf(d, n))
  <2> DEFINE u == <<c, leg[c], try[c]>>
  <2>1. /\ u \in Txs /\ tx[u] # "none" /\ OperationOf(u) = Leg(c)
        /\ report' = [report EXCEPT ![<<c, leg[c]>>] = u]
    BY <1>6, OwnTx
  <2> HIDE DEF u
  <2>2. <<d, n>> = <<c, leg[c]>> /\ t = u
    BY <1>2, <1>6, <2>1
  <2>3. d = c /\ n = leg[c]
    BY <2>2
  <2> QED  BY <2>1, <2>2, <2>3 DEF Alike, Leg
<1>7. ASSUME NEW c \in Commands, Recalls(c), t # report[<<d, n>>]
      PROVE  t \in Txs /\ tx[t] # "none" /\ Alike(OperationOf(t), LegOf(d, n))
  <2>1. PICK r \in recent : /\ report' = [report EXCEPT ![<<c, leg[c]>>] = r.tx]
                            /\ r.tx \in Txs /\ tx[r.tx] # "none"
                            /\ Alike(OperationOf(r.tx), LegOf(c, leg[c]))
    BY <1>7, OldTx
  <2>2. <<d, n>> = <<c, leg[c]>> /\ t = r.tx
    BY <1>2, <1>7, <2>1
  <2>3. d = c /\ n = leg[c]
    BY <2>2
  <2> QED  BY <2>1, <2>2, <2>3
<1> QED  BY <1>5, <1>6, <1>7, StepKinds DEF Keeps

\* A leg that is about to be sent was not found in the memory, and nobody else
\* adds to the memory while it is under way.
LEMMA NotRememberedStep == MemoryInv /\ [MagicNext]_magicVars => NotRemembered'
<1> SUFFICES ASSUME MemoryInv, [MagicNext]_magicVars,
                    NEW d \in Commands, phase'[d] \in {"building", "sending"}
             PROVE  Recent(Leg(d))' = {}
  BY DEF NotRemembered
<1> USE DEF MemoryInv, SendInv
<1>1. ASSUME NEW c \in Commands, Signed(c) \/ Recalls(c) PROVE FALSE
  <2>1. running \in {Nothing, c}
    BY <1>1 DEF Signed, Recalls, OneRunning, UnderWay
  <2>2. d # c => phase[d] \notin UnderWay
    BY <2>1, MagicAssumption DEF OneRunning, MagicAssumption
  <2>3. PICK t : Reported(c, t)
    BY <1>1 DEF Signed, Recalls, EnterRemembered
  <2>4. phase' = [phase EXCEPT ![c] = "second"] \/ phase' = [phase EXCEPT ![c] = "done"]
    BY <2>3 DEF Reported, Finish
  <2> QED  BY <2>2, <2>4 DEF UnderWay, MagicTypeOK
<1>2. CASE Keeps
  <2>1. Recent(Leg(d)) = {}
    BY <1>2 DEF Keeps, NotRemembered
  <2>2. leg'[d] = leg[d] /\ recent' \subseteq recent /\ task' = task
    BY <1>2, SentForGood DEF Keeps
  <2>3. Leg(d)' = Leg(d)
    BY <2>2 DEF Leg, LegOf
  <2> QED  BY <2>1, <2>2, <2>3 DEF Recent, KeyOf
<1> QED  BY <1>1, <1>2, StepKinds

LEMMA AnswersStep == MemoryInv /\ [MagicNext]_magicVars => AnswersKept'
<1> SUFFICES ASSUME MemoryInv, [MagicNext]_magicVars,
                    NEW t \in Txs, t = report'[<<t[1], t[2]>>], t \notin forgotten',
                    OperationOf(t)'.op \in Deduped
             PROVE  \E r \in recent' : r.tx = t
  BY DEF AnswersKept, OwnReported, Txs
<1> USE DEF MemoryInv, SendInv
<1>1. task' = task /\ OperationOf(t)' = OperationOf(t)
  BY SentForGood, SameLegs
<1>2. <<t[1], t[2]>> \in Commands \X {1, 2} /\ report \in [Commands \X {1, 2} -> Txs \cup {Nothing}]
  BY DEF Txs, MagicTypeOK
<1>3. ASSUME t = report[<<t[1], t[2]>>], t \notin forgotten
      PROVE  \E r \in recent : r.tx = t
  BY <1>1, <1>3 DEF AnswersKept, OwnReported
<1>4. CASE Keeps
  <2>1. PICK r \in recent : r.tx = t
    BY <1>3, <1>4 DEF Keeps
  <2> QED  BY <1>4, <2>1 DEF Keeps
<1>5. ASSUME NEW c \in Commands, Signed(c) PROVE \E r \in recent' : r.tx = t
  <2> DEFINE u == <<c, leg[c], try[c]>>
  <2>1. /\ u \in Txs /\ OperationOf(u) = Leg(c) /\ Remember(Leg(c), u) /\ forgotten' = forgotten
        /\ report' = [report EXCEPT ![<<c, leg[c]>>] = u]
    BY <1>5, OwnTx
  <2>2. Leg(c).op \in Deduped => \A r \in recent : r.key # KeyOf(Leg(c))
    BY <1>5 DEF Signed, NotRemembered, Recent
  <2> HIDE DEF u
  <2>3. CASE t = report[<<t[1], t[2]>>]
    BY <1>3, <2>1, <2>2, <2>3 DEF Remember
  <2>4. CASE t # report[<<t[1], t[2]>>]
    <3>1. t = u
      BY <1>2, <2>1, <2>4
    <3>2. [key |-> KeyOf(Leg(c)), tx |-> u] \in recent'
      BY <1>1, <2>1, <3>1 DEF Remember
    <3> QED  BY <3>1, <3>2
  <2> QED  BY <2>3, <2>4
<1>6. ASSUME NEW c \in Commands, Recalls(c) PROVE \E r \in recent' : r.tx = t
  <2>1. UNCHANGED <<recent, forgotten>>
    BY <1>6, OldTx
  <2>2. PICK r \in recent : report' = [report EXCEPT ![<<c, leg[c]>>] = r.tx]
    BY <1>6, OldTx
  <2>3. CASE t = report[<<t[1], t[2]>>]
    BY <1>3, <2>1, <2>3
  <2>4. CASE t # report[<<t[1], t[2]>>]
    BY <1>2, <2>1, <2>2, <2>4
  <2> QED  BY <2>3, <2>4
<1> QED  BY <1>4, <1>5, <1>6, StepKinds

LEMMA MemoryInvariant == MagicSpec => []MemoryInv
<1>1. MagicInit => MemoryInv
  BY TypeInit, SendInit, MemoryInit DEF MemoryInv, SendInv
<1>2. MemoryInv /\ [MagicNext]_magicVars => MemoryInv'
  BY TypeStep, SendStep, MemoryTrueStep, SignatureStep, NotRememberedStep, AnswersStep
  DEF MemoryInv, SendInv
<1> QED  BY <1>1, <1>2, PTL DEF MagicSpec

\* A reported signature is that of a transaction sent for the same operation, side and
\* numbers: the memory is asked by a key that operations share when only their tokens
\* differ (checkRecentTrade()).
THEOREM SignatureMatchesHolds == MagicSpec => []SignatureMatches
BY MemoryInvariant, PTL DEF MemoryInv

\* As long as recentTrades remembers it, an answered trade is not sent again: its leg
\* was looked up before it was built, and no other ran in between.
THEOREM SentOnceAMinuteHolds == MagicSpec => []SentOnceAMinute
<1>1. MemoryInv => SentOnceAMinute
  <2> SUFFICES ASSUME MemoryInv, NEW t \in OwnReported \ forgotten, NEW u \in OwnReported \ forgotten,
                      OperationOf(t).op \in Deduped, Alike(OperationOf(t), OperationOf(u))
               PROVE  t = u
    BY DEF SentOnceAMinute, OperationOf
  <2>1. t \in Txs /\ u \in Txs
    BY DEF OwnReported
  <2>2. t[1] \in Commands /\ t[2] \in Legs /\ u[1] \in Commands /\ u[2] \in Legs
    BY <2>1 DEF Txs, Legs
  <2>3. OperationOf(u).op \in Deduped
    BY DEF Alike
  <2>4. PICK r \in recent : r.tx = t
    BY DEF MemoryInv, AnswersKept
  <2>5. PICK s \in recent : s.tx = u
    BY <2>3 DEF MemoryInv, AnswersKept
  <2>6. KeyOf(OperationOf(t)) = KeyOf(OperationOf(u))
    BY <2>2, OneKey, LegRecord DEF OperationOf, MemoryInv, SendInv
  <2>7. r.key = s.key
    BY <2>4, <2>5, <2>6 DEF MemoryInv, MemoryTrue
  <2> QED  BY <2>4, <2>5, <2>7 DEF MemoryInv, MemoryTrue
<1> QED  BY <1>1, MemoryInvariant, PTL

-----------------------------------------------------------------------------
\* The trade locks

LEMMA WaitsForStep == LockInv /\ [MagicNext]_magicVars => WaitsFor'
<1> SUFFICES ASSUME LockInv, [MagicNext]_magicVars, NEW d \in Commands
             PROVE  /\ phase'[d] = "pricing" => task[d].op \in Resizing
                    /\ phase'[d] = "second" => task[d].op = "reverse"
  BY SentForGood DEF WaitsFor, LockInv, SendInv
<1> USE DEF LockInv, SendInv
<1>1. CASE phase'[d] = phase[d]
  BY <1>1 DEF WaitsFor
<1>2. ASSUME NEW c \in Commands, NEW t, Reported(c, t)
      PROVE  phase'[d] \in {phase[d], "done"} \/ (phase'[d] = "second" /\ task[d].op = "reverse")
  BY <1>2 DEF Reported, Finish, MagicTypeOK
<1>3. ASSUME NEW c \in Commands, Enters(c)
      PROVE  phase'[d] \in {phase[d], "done", "failed", "building"}
             \/ (phase'[d] = "second" /\ task[d].op = "reverse")
  BY <1>2, <1>3 DEF Enters, EnterRefused, EnterRemembered, EnterBuilds, Finish, MagicTypeOK
<1>4. ASSUME NEW c \in Commands, Resize(c) \/ PlaceOrder(c)
      PROVE  phase'[d] \in {phase[d], "building"} \/ (phase'[d] = "pricing" /\ task[d].op \in Resizing)
  BY <1>4 DEF Resize, DecreasePosition, IncreasePosition, AwaitPrice, Resizing, PlaceOrder, MagicTypeOK
<1>5. ASSUME NEW c \in Commands, Build(c) \/ SendAgain(c) \/ Refused(c)
      PROVE  phase'[d] \in {phase[d], "sending", "failed"}
  BY <1>5 DEF Build, SendAgain, Refused, Failed, Finish, MagicTypeOK
<1>6. ASSUME NEW c \in Commands, Signed(c)
      PROVE  phase'[d] \in {phase[d], "done"} \/ (phase'[d] = "second" /\ task[d].op = "reverse")
  BY <1>2, <1>6 DEF Signed
<1>7. ASSUME (\E t \in Txs : Outcome(t)) \/ TimePasses \/ Replace \/ Restart \/ UNCHANGED magicVars
      PROVE  phase'[d] \in {phase[d], "failed"}
  BY <1>7 DEF Outcome, TimePasses, Replace, Restart, magicVars, progress, MagicTypeOK
<1> QED
  BY <1>1, <1>3, <1>4, <1>5, <1>6, <1>7, NextCases

\* Entered from outside, a leg takes a lock; an order takes none.
LEMMA EntersGuarded ==
  ASSUME LockInv, NEW c \in Commands, phase[c] \in {"new", "pricing", "second"},
         phase[c] = "new" => task[c].op \in Deduped \cup {"reverse"}
  PROVE  Guarded(Leg(c))
<1>1. task[c].op \in Deduped \cup Resizing \cup {"reverse"}
  BY DEF LockInv, WaitsFor
<1> QED  BY <1>1 DEF Guarded, Leg, LegOf, Deduped, Resizing, Orders

LEMMA LocksStep == LockInv /\ [MagicNext]_magicVars => LocksReleased'
<1> SUFFICES ASSUME LockInv, [MagicNext]_magicVars PROVE LocksReleased'
  OBVIOUS
<1> USE DEF LockInv, SendInv
<1>1. task' = task /\ (leg' = leg => \A c \in Commands : Leg(c)' = Leg(c))
  BY SentForGood DEF Leg, LegOf
<1>2. \A c \in Commands : c # Nothing
  BY MagicAssumption DEF MagicAssumption
<1>3. ASSUME running' = Nothing, locks' = {} PROVE LocksReleased'
  BY <1>3 DEF LocksReleased
<1>4. ASSUME NEW c \in Commands, running' = c, phase'[c] \notin {"building", "sending"}, locks' = {}
      PROVE  LocksReleased'
  BY <1>4 DEF LocksReleased
<1>5. ASSUME NEW c \in Commands, running = c, Unlock(c), running' = Nothing \/ phase'[c] = "second"
      PROVE  locks' = {}
  <2>1. locks \subseteq {Leg(c).side} /\ (~Guarded(Leg(c)) => locks = {})
    BY <1>5 DEF LocksReleased
  <2> QED  BY <1>5, <2>1 DEF Unlock
<1>6. ASSUME NEW c \in Commands, NEW t, Reported(c, t), locks' = {} PROVE LocksReleased'
  <2>1. running' = Nothing \/ (running' = c /\ phase'[c] = "second")
    BY <1>6 DEF Reported, Finish, MagicTypeOK
  <2> QED  BY <1>3, <1>4, <1>6, <2>1
<1>7. ASSUME NEW c \in Commands, Enters(c), phase[c] \in {"new", "pricing", "second"},
             phase[c] = "new" => running = Nothing /\ task[c].op \in Deduped \cup {"reverse"}
      PROVE  LocksReleased'
  <2>1. locks = {}
    <3>1. running \in {Nothing, c}
      BY <1>7 DEF OneRunning, UnderWay
    <3> QED  BY <1>7, <3>1 DEF LocksReleased
  <2>2. CASE EnterRefused(c)
    BY <1>3, <2>1, <2>2 DEF EnterRefused, Finish
  <2>3. CASE EnterRemembered(c)
    BY <1>6, <2>1, <2>3 DEF EnterRemembered
  <2>4. CASE EnterBuilds(c)
    <3>1. Guarded(Leg(c)) /\ Leg(c)' = Leg(c)
      BY <1>1, <1>7, <2>4, EntersGuarded DEF EnterBuilds
    <3>2. Guarded(Leg(c))' /\ Leg(c).side' = Leg(c).side
      BY <3>1 DEF Guarded
    <3>3. running' = c /\ phase'[c] = "building" /\ locks' = {Leg(c).side}
      BY <2>1, <2>4 DEF EnterBuilds, MagicTypeOK
    <3> QED  BY <1>2, <3>1, <3>2, <3>3 DEF LocksReleased
  <2> QED  BY <1>7, <2>2, <2>3, <2>4 DEF Enters
<1>8. ASSUME NEW c \in Commands, running = Nothing, Resize(c) PROVE LocksReleased'
  <2>1. locks' = {} /\ running' = c /\ phase'[c] = "pricing"
    BY <1>8 DEF Resize, DecreasePosition, IncreasePosition, AwaitPrice, Resizing, LocksReleased, memory, MagicTypeOK
  <2> QED  BY <1>4, <2>1
<1>9. ASSUME NEW c \in Commands, running = Nothing, PlaceOrder(c) PROVE LocksReleased'
  <2>1. locks' = {} /\ running' = c
    BY <1>9 DEF PlaceOrder, LocksReleased, memory
  <2>2. ~Guarded(Leg(c))'
    BY <1>1, <1>9 DEF PlaceOrder, Guarded, Leg, LegOf, Orders
  <2> QED  BY <2>1, <2>2 DEF LocksReleased
<1>10. ASSUME NEW c \in Commands, running = c, Failed(c) PROVE LocksReleased'
  <2>1. running' = Nothing /\ Unlock(c)
    BY <1>10 DEF Failed, Finish
  <2> QED  BY <1>3, <1>5, <1>10, <2>1
<1>11. ASSUME UNCHANGED <<running, phase, leg, locks>> PROVE LocksReleased'
  BY <1>1, <1>11 DEF LocksReleased, Leg, LegOf, Guarded
<1>12. ASSUME NEW c \in Commands, Build(c) PROVE LocksReleased'
  <2>1. running = c
    BY <1>12 DEF Build, OneRunning, UnderWay
  <2>2. CASE Sent(c)
    <3>1. running' = c /\ phase'[c] = "sending" /\ locks' = locks /\ leg' = leg
      BY <2>1, <2>2 DEF Sent, memory, MagicTypeOK
    <3>2. Leg(c)' = Leg(c) /\ (Guarded(Leg(c))' <=> Guarded(Leg(c)))
      BY <1>1, <3>1 DEF Guarded
    <3>3. locks = IF Guarded(Leg(c)) THEN {Leg(c).side} ELSE {}
      BY <1>2, <1>12, <2>1 DEF LocksReleased, Build
    <3> QED  BY <1>2, <3>1, <3>2, <3>3 DEF LocksReleased
  <2> QED  BY <1>10, <1>12, <2>1, <2>2 DEF Build, Sent
<1>13. ASSUME NEW c \in Commands, Signed(c) PROVE LocksReleased'
  <2>1. running = c /\ Unlock(c) /\ Reported(c, <<c, leg[c], try[c]>>)
    BY <1>13 DEF Signed, OneRunning, UnderWay
  <2>2. running' = Nothing \/ phase'[c] = "second"
    BY <2>1 DEF Reported, Finish, MagicTypeOK
  <2> QED  BY <1>5, <1>6, <2>1, <2>2
<1>14. ASSUME NEW c \in Commands, Refused(c) PROVE LocksReleased'
  <2>1. running = c /\ Failed(c)
    BY <1>14 DEF Refused, OneRunning, UnderWay
  <2> QED  BY <1>10, <2>1
<1>15. ASSUME (\E c \in Commands : SendAgain(c)) \/ (\E t \in Txs : Outcome(t))
              \/ TimePasses \/ Replace \/ UNCHANGED magicVars
       PROVE  LocksReleased'
  BY <1>11, <1>15 DEF SendAgain, Outcome, TimePasses, Replace, magicVars, progress, memory
<1>16. ASSUME Restart PROVE LocksReleased'
  BY <1>3, <1>16 DEF Restart
<1> QED
  BY <1>7, <1>8, <1>9, <1>12, <1>13, <1>14, <1>15, <1>16, NextCases

\* A trade lock is held for the leg in progress and for nothing else: every way out of
\* a trade gives it back (releaseTradeLock() in the finally blocks).
THEOREM LocksReleasedHolds == MagicSpec => []LocksReleased
<1>1. MagicInit => LockInv
  BY TypeInit, SendInit DEF MagicInit, LockInv, SendInv, WaitsFor, LocksReleased
<1>2. LockInv /\ [MagicNext]_magicVars => LockInv'
  BY TypeStep, SendStep, WaitsForStep, LocksStep DEF LockInv, SendInv
<1> QED  BY <1>1, <1>2, PTL DEF MagicSpec, LockInv
=============================================================================
