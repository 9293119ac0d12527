--------------------------- MODULE TerminalProofs ---------------------------
(***************************************************************************)
(* What Terminal guarantees for any sessions of any number of commands,    *)
(* any wallets and any limits.                                             *)
(*                                                                         *)
(* The invariant behind it: whatever a command does before it is given up  *)
(* on, it holds `processing` (OneRunning).  So nothing moves the wallet    *)
(* between a summary and the execution it leads to (WalletTrue), and       *)
(* what a trade was let through for is still free when it is done, but     *)
(* for the trades that were given up on (Room).                            *)
(***************************************************************************)
EXTENDS Terminal, FiniteSetTheorems, TLAPS

\* The stages of a command the terminal waits for.
Awaited == {"parsing", "query", "cleared", "exposure", "fees", "summary", "agreed",
            "rebuilding", "ending"}

OneRunning ==
  \A c \in Commands :
    stage[c] \in Awaited \/ (stage[c] \in Executing /\ c \notin abandoned) => running = c

\* A pending callback is one of a question that is being asked.
PendingAsks == pending # None => stage[pending] \in Asking

WalletTrue ==
  keyed = {} /\ mode # "sim" /\ ~misbuilt =>
    /\ restore = None
    /\ manager = None \/ shown = signer \/ \E c \in Commands : stage[c] = "rebuilding"
    /\ \A c \in Commands :
         /\ stage[c] \in {"exposure", "fees", "summary", "agreed", "rebuilding"} => manager # None
         /\ stage[c] \in {"summary", "agreed"} => summary[c] = shown
         /\ stage[c] \in Executing => client[c] = summary[c]

\* A trade that was let through and not given up on.
LetThrough(c) ==
  stage[c] \in {"fees", "summary", "agreed"} \cup Executing /\ c \notin abandoned

\* What counts against a limit, without what was let go.
Counted == traded \ abandoned
Lost == losing \ abandoned
\* One more position keeps the exposure limit.
HasRoom == MaxExposure = 0 \/ Cardinality(positions) + 1 <= MaxExposure

Exposed == positions \ (abandoned \cup late \cup misled)

FiniteSets ==
  /\ IsFiniteSet(positions) /\ IsFiniteSet(abandoned) /\ IsFiniteSet(late)
  /\ IsFiniteSet(misled) /\ IsFiniteSet(traded) /\ IsFiniteSet(losing)

Room ==
  /\ Cardinality(Counted) <= limits.trades
  /\ Cardinality(Lost) <= limits.loss
  /\ Limits.maxTrades > 0 =>
       /\ Cardinality(Counted) <= Limits.maxTrades
       /\ \A c \in Commands : LetThrough(c) => Cardinality(Counted) < Limits.maxTrades
  /\ Limits.maxLoss > 0 =>
       /\ Cardinality(Lost) <= Limits.maxLoss
       /\ \A c \in Commands : LetThrough(c) => Cardinality(Lost) < Limits.maxLoss
  /\ MaxExposure > 0 =>
       /\ Cardinality(Exposed) <= MaxExposure
       /\ \A c \in Commands : LetThrough(c) /\ kind[c] = "open" /\ c \notin misled =>
            Cardinality(Exposed) < MaxExposure

IInv == TypeOK /\ OneRunning /\ PendingAsks /\ WalletTrue /\ FiniteSets /\ Room

-----------------------------------------------------------------------------
\* What the helpers do

LEMMA AskTrue ==
  ASSUME TypeOK, NEW c \in Commands, NEW where \in {"query", "summary"}, Ask(c, where)
  PROVE  /\ \E to \in {"ending", where, IF where = "query" THEN "cleared" ELSE "agreed"} :
              Goes(c, to)
         /\ pending' \in Commands \cup {None} /\ buffer' = "none"
         /\ blind' \subseteq Commands
         /\ mode = "live" => blind' = blind
BY DEF Ask, TypeOK

LEMMA AfterTrue ==
  ASSUME NEW c \in Commands, NEW yes \in BOOLEAN
  PROVE  /\ After(c, yes) \in {"cleared", "agreed", "ending", "over"}
         /\ After(c, yes) \in Awaited => stage[c] \in {"query", "summary"}
         /\ After(c, yes) = "agreed" => stage[c] = "summary"
BY DEF After, Awaited

LEMMA Tripping ==
  ASSUME NEW l \in SessionLimits, NEW b \in BOOLEAN
  PROVE  /\ [l EXCEPT !.tripped = b] \in SessionLimits
         /\ [l EXCEPT !.tripped = b].tripped = b
         /\ [l EXCEPT !.tripped = b].trades = l.trades /\ [l EXCEPT !.tripped = b].loss = l.loss
BY DEF SessionLimits

LEMMA CheckTrue ==
  ASSUME NEW l \in SessionLimits
  PROVE  /\ CheckLimits(Limits, l) \in SessionLimits
         /\ CheckLimits(Limits, l).trades = l.trades /\ CheckLimits(Limits, l).loss = l.loss
         /\ ~CheckLimits(Limits, l).tripped => ~Reached(Limits, l)
<1> DEFINE b == l.tripped \/ Reached(Limits, l)
<1>1. b \in BOOLEAN /\ (~b => ~Reached(Limits, l))
  OBVIOUS
<1>2. CheckLimits(Limits, l) = [l EXCEPT !.tripped = b]
  BY DEF CheckLimits
<1> HIDE DEF b
<1> QED  BY <1>1, <1>2, Tripping

LEMMA RecordOpenTrue ==
  ASSUME NEW l \in SessionLimits
  PROVE  /\ RecordOpen(Limits, l) \in SessionLimits
         /\ RecordOpen(Limits, l).trades = l.trades + 1 /\ RecordOpen(Limits, l).loss = l.loss
<1> DEFINE n == [l EXCEPT !.trades = @ + 1]
           b == n.tripped \/ (Limits.maxTrades > 0 /\ n.trades >= Limits.maxTrades)
<1>1. n \in SessionLimits /\ n.trades = l.trades + 1 /\ n.loss = l.loss
  BY DEF SessionLimits
<1>2. b \in BOOLEAN
  OBVIOUS
<1>3. RecordOpen(Limits, l) = [n EXCEPT !.tripped = b]
  BY DEF RecordOpen
<1> HIDE DEF n, b
<1> QED  BY <1>1, <1>2, <1>3, Tripping

LEMMA RecordTradeTrue ==
  ASSUME NEW l \in SessionLimits, NEW lost \in {0, 1}
  PROVE  /\ RecordTrade(Limits, l, lost) \in SessionLimits
         /\ RecordTrade(Limits, l, lost).trades = l.trades + 1
         /\ RecordTrade(Limits, l, lost).loss = l.loss + lost
<1> DEFINE n == [l EXCEPT !.trades = @ + 1, !.loss = @ + lost]
<1>1. n \in SessionLimits /\ n.trades = l.trades + 1 /\ n.loss = l.loss + lost
  <2>1. l.trades + 1 \in Nat /\ l.loss + lost \in Nat
    BY DEF SessionLimits
  <2>2. n = [l EXCEPT !.trades = l.trades + 1, !.loss = l.loss + lost]
    BY DEF SessionLimits
  <2>3. n \in SessionLimits
    BY <2>1, <2>2 DEF SessionLimits
  <2>4. n.trades = l.trades + 1
    BY DEF SessionLimits
  <2>5. n.loss = l.loss + lost
    BY DEF SessionLimits
  <2> QED  BY <2>3, <2>4, <2>5
<1>2. RecordTrade(Limits, l, lost) = CheckLimits(Limits, n)
  BY DEF RecordTrade
<1> HIDE DEF n
<1> QED  BY <1>1, <1>2, CheckTrue

LEMMA RestoreTrue ==
  ASSUME TypeOK, RestoreWallet
  PROVE  /\ restore' = None /\ signer' = signer /\ misbuilt' = misbuilt
         /\ shown' \in Wallets \cup {None} /\ manager' \in Wallets \cup {None}
         /\ restore = None => shown' = shown /\ manager' = manager
BY TerminalAssumption DEF TypeOK, RestoreWallet, TerminalAssumption

-----------------------------------------------------------------------------
\* Types

LEMMA GoesTyped ==
  ASSUME TypeOK, NEW c \in Commands, NEW to \in Stages, Goes(c, to)
  PROVE  /\ stage' \in [Commands -> Stages]
         /\ stage'[c] = to /\ \A d \in Commands : d # c => stage'[d] = stage[d]
BY DEF Goes, TypeOK

LEMMA AskLimitsTrue ==
  ASSUME TypeOK, NEW c \in Commands, AskLimits(c)
  PROVE  /\ limits' \in SessionLimits
         /\ limits'.trades = limits.trades /\ limits'.loss = limits.loss
         /\ \E to \in {"ending", "fees"} :
              Goes(c, to) /\ (to = "fees" => ~Reached(Limits, limits))
<1>1. limits \in SessionLimits /\ limits' = CheckLimits(Limits, limits)
  BY DEF TypeOK, AskLimits
<1>2. Goes(c, IF limits'.tripped THEN "ending" ELSE "fees")
  BY DEF AskLimits
<1> QED  BY <1>1, <1>2, CheckTrue

\* What a command's dispatch does to the wallet and to its stage.
LEMMA OverrideTrue ==
  ASSUME TypeOK, NEW c \in Commands, Override(c)
  PROVE  /\ manager' \in Wallets \cup {None} /\ shown' \in Wallets \cup {None}
         /\ restore' \in {None} \cup [wallet : Wallets \cup {None}]
         /\ signer' = signer /\ misbuilt' = misbuilt
         /\ c \notin keyed => UNCHANGED wallet
BY DEF Override, TypeOK, wallet

BeginStage(c, to) ==
  /\ Goes(c, to)
  /\ to = "fees" => kind[c] # "open" /\ ~Reached(Limits, limits)
  /\ to = "rebuilding" => kind[c] = "use" /\ manager' # None
  /\ to \in {"exposure", "fees"} =>
       kind[c] \notin {"use", "disconnect"} /\ (mode = "sim" \/ manager' # None)

LEMMA BeginTrue ==
  ASSUME TypeOK, NEW c \in Commands, Begin(c)
  PROVE  /\ manager' \in Wallets \cup {None} /\ shown' \in Wallets \cup {None}
         /\ restore' \in {None} \cup [wallet : Wallets \cup {None}]
         /\ signer' = signer /\ misbuilt' = misbuilt
         /\ limits' \in SessionLimits
         /\ limits'.trades = limits.trades /\ limits'.loss = limits.loss
         /\ \E to \in {"ending", "exposure", "fees", "rebuilding"} : BeginStage(c, to)
         /\ c \notin keyed =>
              \/ UNCHANGED wallet
              \/ restore' = None /\ manager' = None
              \/ restore' = None /\ (mode = "sim" \/ Goes(c, "rebuilding"))
<1>0. limits \in SessionLimits
  BY DEF TypeOK
<1>1. CASE BeginTrade(c)
  <2>0. kind[c] \notin {"use", "disconnect"}
    BY <1>1 DEF BeginTrade
  <2>1. CASE Refuse(c)
    <3>1. Override(c) /\ Goes(c, "ending") /\ limits' = limits
      BY <2>1 DEF Refuse
    <3>2. BeginStage(c, "ending")
      BY <3>1 DEF BeginStage
    <3> QED  BY <1>0, <3>1, <3>2, OverrideTrue
  <2>2. CASE Override(c) /\ (mode = "sim" \/ manager' # None) /\ BeginOpen(c)
    <3>1. Goes(c, "exposure") /\ limits' = limits
      BY <2>2 DEF BeginOpen
    <3>2. BeginStage(c, "exposure")
      BY <2>0, <2>2, <3>1 DEF BeginStage
    <3> QED  BY <1>0, <2>2, <3>1, <3>2, OverrideTrue
  <2>3. CASE Override(c) /\ (mode = "sim" \/ manager' # None) /\ kind[c] # "open" /\ AskLimits(c)
    <3>1. PICK to \in {"ending", "fees"} :
            Goes(c, to) /\ (to = "fees" => ~Reached(Limits, limits))
      BY <2>3, AskLimitsTrue
    <3>2. BeginStage(c, to)
      BY <2>0, <2>3, <3>1 DEF BeginStage
    <3> QED  BY <2>3, <3>2, AskLimitsTrue, OverrideTrue
  <2>4. \/ Refuse(c)
        \/ Override(c) /\ (mode = "sim" \/ manager' # None) /\ BeginOpen(c)
        \/ Override(c) /\ (mode = "sim" \/ manager' # None) /\ kind[c] # "open" /\ AskLimits(c)
    BY <1>1 DEF BeginTrade, BeginClose, BeginCloseAll, BeginChange
  <2> QED  BY <2>1, <2>2, <2>3, <2>4
<1>2. CASE BeginUse(c)
  <2>1. PICK to \in {"ending", "rebuilding"} :
          Goes(c, to) /\ (to # "rebuilding" => mode = "sim")
    BY <1>2 DEF BeginUse
  <2>2. manager' \in Wallets /\ shown' \in Wallets /\ kind[c] = "use" /\ limits' = limits
        /\ signer' = signer /\ misbuilt' = misbuilt
        /\ restore' = IF c \in keyed THEN [wallet |-> shown] ELSE None
    BY <1>2 DEF BeginUse
  <2>3. manager' # None
    BY <2>2, TerminalAssumption DEF TerminalAssumption
  <2>4. BeginStage(c, to)
    BY <2>1, <2>2, <2>3 DEF BeginStage
  <2> QED  BY <1>0, <2>1, <2>2, <2>4 DEF TypeOK
<1>3. CASE BeginDisconnect(c)
  <2>1. BeginStage(c, "ending")
    BY <1>3 DEF BeginDisconnect, BeginStage
  <2> QED  BY <1>0, <1>3, <2>1 DEF BeginDisconnect, TypeOK
<1> QED  BY <1>1, <1>2, <1>3 DEF Begin

LEMMA AnsweredTrue ==
  ASSUME TypeOK, NEW c \in Commands, Answered(c)
  PROVE  /\ \E to \in {"ending", "over"} : Goes(c, to) /\ (to = "ending" => running = c)
         /\ summary' = [summary EXCEPT ![c] = None] /\ client' = [client EXCEPT ![c] = None]
         /\ summary' \in [Commands -> Wallets \cup {None}]
         /\ client' \in [Commands -> Wallets \cup {None}]
         /\ blind' = blind
BY DEF Answered, TypeOK

LEMMA TypeInit == Init => TypeOK
<1> SUFFICES ASSUME Init PROVE TypeOK
  OBVIOUS
<1> USE TerminalAssumption DEF TerminalAssumption
<1>1. [mode |-> mode, kind |-> kind, keyed |-> keyed] \in Sessions
  <2>1. PICK s \in Sessions : mode = s.mode /\ kind = s.kind /\ keyed = s.keyed
    BY DEF Init
  <2>2. s \in [mode : Modes, kind : [Commands -> Kinds], keyed : SUBSET Commands]
    OBVIOUS
  <2>3. s = [mode |-> mode, kind |-> kind, keyed |-> keyed]
    BY <2>1, <2>2
  <2> QED  BY <2>3
<1>2. limits \in SessionLimits
  BY DEF Init, NewLimits, SessionLimits
<1> QED  BY <1>1, <1>2 DEF Init, TypeOK, Stages

LEMMA TypeStep == TypeOK /\ [Next]_vars => TypeOK'
<1> SUFFICES ASSUME TypeOK, [Next]_vars PROVE TypeOK'
  OBVIOUS
<1> USE TerminalAssumption DEF TerminalAssumption, Stages
<1>1. ASSUME NEW line \in {"yes", "no"}, Answer(line) PROVE TypeOK'
  <2>1. pending \in Commands /\ (line = "yes") \in BOOLEAN
    BY <1>1 DEF Answer, TypeOK
  <2>2. After(pending, line = "yes") \in Stages
    BY <2>1, AfterTrue
  <2>3. stage' \in [Commands -> Stages]
    BY <1>1, <2>1, <2>2, GoesTyped DEF Answer
  <2> QED  BY <1>1, <2>3 DEF Answer, TypeOK, session, wallet, consent, account
<1>2. ASSUME NEW line \in {"yes", "no"}, TypeAhead(line) PROVE TypeOK'
  BY <1>2 DEF TypeAhead, TypeOK, session, wallet, consent, account
<1>3. ASSUME NEW c \in Commands, TypeCommand(c) PROVE TypeOK'
  BY <1>3, GoesTyped DEF TypeCommand, TypeOK, session, question, wallet, consent, account
<1>4. ASSUME NEW c \in Commands, TypeExit(c) PROVE TypeOK'
  BY <1>4, GoesTyped DEF TypeExit, TypeOK, session, question, wallet, consent, account
<1>5. ASSUME NEW c \in Commands, Deadline(c) PROVE TypeOK'
  <2>1. After(c, FALSE) \in Stages
    BY AfterTrue
  <2>2. stage' \in [Commands -> Stages]
    BY <1>5, <2>1, GoesTyped DEF Deadline
  <2> QED  BY <1>5, <2>2 DEF Deadline, TypeOK, session, wallet, consent, account
<1>6. ASSUME NEW c \in Commands, Parsed(c) PROVE TypeOK'
  <2>1. /\ pending' \in Commands \cup {None} /\ buffer' \in {"none", "yes", "no"}
        /\ blind' \subseteq Commands /\ \E to \in Stages : Goes(c, to)
    <3>1. CASE Ask(c, "query")
      BY <3>1, AskTrue
    <3>2. CASE ~Ask(c, "query")
      BY <1>6, <3>2 DEF Parsed, TypeOK
    <3> QED  BY <3>1, <3>2
  <2>2. stage' \in [Commands -> Stages]
    BY <2>1, GoesTyped
  <2> QED  BY <1>6, <2>1, <2>2 DEF Parsed, TypeOK, session, wallet, consent, account
<1>7. ASSUME NEW c \in Commands, Begin(c) PROVE TypeOK'
  <2>1. \E to \in Stages : Goes(c, to)
    BY <1>7, BeginTrue DEF BeginStage
  <2>2. stage' \in [Commands -> Stages]
    BY <2>1, GoesTyped
  <2>3. /\ manager' \in Wallets \cup {None} /\ shown' \in Wallets \cup {None}
        /\ signer' = signer /\ misbuilt' = misbuilt
        /\ restore' \in {None} \cup [wallet : Wallets \cup {None}]
        /\ limits' \in SessionLimits
    BY <1>7, BeginTrue
  <2> QED  BY <1>7, <2>2, <2>3 DEF Begin, TypeOK, session, question, consent
<1>8. ASSUME NEW c \in Commands, Rebuild(c) PROVE TypeOK'
  BY <1>8, GoesTyped DEF Rebuild, TypeOK, session, question, consent, account
<1>9. ASSUME NEW c \in Commands, ExposureKnown(c) PROVE TypeOK'
  <2>1. /\ limits' \in SessionLimits /\ misled' \subseteq Commands
        /\ \E to \in Stages : Goes(c, to)
    <3>1. CASE AskLimits(c)
      BY <1>9, <3>1, AskLimitsTrue DEF ExposureKnown, TypeOK
    <3>2. CASE ~AskLimits(c)
      BY <1>9, <3>2 DEF ExposureKnown, TypeOK
    <3> QED  BY <3>1, <3>2
  <2>2. stage' \in [Commands -> Stages]
    BY <2>1, GoesTyped
  <2> QED  BY <1>9, <2>1, <2>2 DEF ExposureKnown, TypeOK, session, question, wallet, consent
<1>10. ASSUME NEW c \in Commands, Summarize(c) PROVE TypeOK'
  <2>1. /\ pending' \in Commands \cup {None} /\ buffer' \in {"none", "yes", "no"}
        /\ blind' \subseteq Commands /\ \E to \in Stages : Goes(c, to)
    <3>1. CASE Ask(c, "summary")
      BY <3>1, AskTrue
    <3>2. CASE ~Ask(c, "summary")
      BY <1>10, <3>2 DEF Summarize, Consent, TypeOK
    <3> QED  BY <3>1, <3>2
  <2>2. stage' \in [Commands -> Stages]
    BY <2>1, GoesTyped
  <2>3. summary' \in [Commands -> Wallets \cup {None}]
    BY <1>10 DEF Summarize, TypeOK
  <2> QED  BY <1>10, <2>1, <2>2, <2>3 DEF Summarize, TypeOK, session, wallet, account
<1>11. ASSUME NEW c \in Commands, Execute(c) PROVE TypeOK'
  BY <1>11, GoesTyped DEF Execute, TypeOK, session, question, wallet, account
<1>12. ASSUME NEW c \in Commands, GiveUpDispatch(c) PROVE TypeOK'
  BY <1>12, GoesTyped DEF GiveUpDispatch, TypeOK, session, question, wallet, consent, account
<1>13. ASSUME NEW c \in Commands, GiveUp(c) PROVE TypeOK'
  BY <1>13, RestoreTrue DEF GiveUp, Release, TypeOK, session, consent
<1>14. ASSUME NEW c \in Commands, End(c) PROVE TypeOK'
  BY <1>14, RestoreTrue, GoesTyped DEF End, Release, TypeOK, session, account
<1>15. ASSUME NEW c \in Commands, Send(c) PROVE TypeOK'
  BY <1>15, GoesTyped DEF Send, TypeOK, session, question, wallet, consent, account
<1>16. ASSUME NEW c \in Commands, Fail(c) PROVE TypeOK'
  BY <1>16, AnsweredTrue, GoesTyped DEF Fail, TypeOK, session, question, wallet, account
<1>17. ASSUME NEW c \in Commands, Unsure(c) PROVE TypeOK'
  BY <1>17, AnsweredTrue, GoesTyped DEF Unsure, TypeOK, session, question, wallet
<1>18. ASSUME NEW c \in Commands, LandLate(c) PROVE TypeOK'
  BY <1>18 DEF LandLate, TypeOK, session, question, wallet, consent
<1>19. ASSUME NEW c \in Commands, Succeed(c) PROVE TypeOK'
  <2>1. /\ positions' \subseteq Commands /\ limits' \in SessionLimits
        /\ traded' \subseteq Commands /\ losing' \subseteq Commands
    <3>0. limits \in SessionLimits /\ positions \subseteq Commands
          /\ traded \subseteq Commands /\ losing \subseteq Commands
      BY DEF TypeOK
    <3>1. CASE SucceedOpen(c)
      BY <3>0, <3>1, RecordOpenTrue DEF SucceedOpen
    <3>2. CASE SucceedClose(c)
      BY <3>0, <3>2, RecordTradeTrue DEF SucceedClose
    <3>3. CASE SucceedCloseAll(c) \/ SucceedChange(c)
      BY <3>0, <3>3 DEF SucceedCloseAll, SucceedChange
    <3> QED  BY <1>19, <3>1, <3>2, <3>3 DEF Succeed
  <2>2. /\ stage' \in [Commands -> Stages] /\ blind' = blind
        /\ summary' \in [Commands -> Wallets \cup {None}]
        /\ client' \in [Commands -> Wallets \cup {None}]
    BY <1>19, AnsweredTrue, GoesTyped DEF Succeed
  <2> QED  BY <1>19, <2>1, <2>2 DEF Succeed, TypeOK, session, question, wallet
<1>20. ASSUME IdleTimeout PROVE TypeOK'
  BY <1>20 DEF IdleTimeout, TypeOK, session, question, consent, account
<1>21. ASSUME UNCHANGED vars PROVE TypeOK'
  BY <1>21 DEF vars, TypeOK, session, question, wallet, consent, account
<1> QED
  BY <1>1, <1>2, <1>3, <1>4, <1>5, <1>6, <1>7, <1>8, <1>9, <1>10, <1>11, <1>12, <1>13, <1>14,
     <1>15, <1>16, <1>17, <1>18, <1>19, <1>20, <1>21 DEF Next, Step, Background

-----------------------------------------------------------------------------
\* One command holds `processing`

\* A step of c moves only c's stage; as long as it holds `processing`, it alone may.
LEMMA OneMoves ==
  ASSUME TypeOK, OneRunning, NEW c \in Commands, NEW to \in Stages, Goes(c, to),
         running' = running, abandoned \subseteq abandoned',
         to \in Awaited \/ (to \in Executing /\ c \notin abandoned') => running = c
  PROVE  OneRunning'
BY GoesTyped DEF OneRunning

LEMMA RunStep == TypeOK /\ OneRunning /\ [Next]_vars => OneRunning'
<1> SUFFICES ASSUME TypeOK, OneRunning, [Next]_vars PROVE OneRunning'
  OBVIOUS
<1> USE DEF Stages, Executing
<1>1. ASSUME NEW line \in {"yes", "no"}, Answer(line) PROVE OneRunning'
  <2>1. pending \in Commands /\ (line = "yes") \in BOOLEAN
    BY <1>1 DEF Answer, TypeOK
  <2>2. /\ After(pending, line = "yes") \in {"cleared", "agreed", "ending", "over"}
        /\ After(pending, line = "yes") \in Awaited => stage[pending] \in {"query", "summary"}
    BY <2>1, AfterTrue
  <2>3. After(pending, line = "yes") \in Awaited => running = pending
    BY <2>1, <2>2 DEF OneRunning, Awaited
  <2>4. Goes(pending, After(pending, line = "yes")) /\ running' = running /\ abandoned' = abandoned
    BY <1>1 DEF Answer, account
  <2> QED  BY <2>1, <2>2, <2>3, <2>4, OneMoves
<1>2. ASSUME NEW line \in {"yes", "no"}, TypeAhead(line) PROVE OneRunning'
  BY <1>2 DEF TypeAhead, OneRunning, account
<1>3. ASSUME NEW c \in Commands, TypeCommand(c) PROVE OneRunning'
  <2>1. \A d \in Commands : running # d
    BY <1>3, TerminalAssumption DEF TypeCommand, TerminalAssumption
  <2>2. Goes(c, "parsing") /\ running' = c /\ abandoned' = abandoned
    BY <1>3 DEF TypeCommand, account
  <2> QED  BY <2>1, <2>2, GoesTyped DEF OneRunning
<1>4. ASSUME NEW c \in Commands, TypeExit(c) PROVE OneRunning'
  BY <1>4, OneMoves DEF TypeExit, Awaited, account
<1>5. ASSUME NEW c \in Commands, Deadline(c) PROVE OneRunning'
  <2>1. /\ After(c, FALSE) \in {"cleared", "agreed", "ending", "over"}
        /\ After(c, FALSE) \in Awaited => running = c
    BY AfterTrue DEF OneRunning, Awaited
  <2> QED  BY <1>5, <2>1, OneMoves DEF Deadline, account
<1>6. ASSUME NEW c \in Commands, Parsed(c) PROVE OneRunning'
  <2>1. \E to \in Stages : Goes(c, to)
    <3>1. CASE Ask(c, "query")
      BY <3>1, AskTrue
    <3>2. CASE ~Ask(c, "query")
      BY <1>6, <3>2 DEF Parsed
    <3> QED  BY <3>1, <3>2
  <2> QED  BY <1>6, <2>1, OneMoves DEF Parsed, account
<1>7. ASSUME NEW c \in Commands, Begin(c) PROVE OneRunning'
  <2>1. \E to \in Stages : Goes(c, to)
    BY <1>7, BeginTrue DEF BeginStage
  <2> QED  BY <1>7, <2>1, OneMoves DEF Begin
<1>8. ASSUME NEW c \in Commands, Rebuild(c) \/ Execute(c) \/ GiveUpDispatch(c) PROVE OneRunning'
  BY <1>8, OneMoves DEF Rebuild, Execute, GiveUpDispatch, account
<1>9. ASSUME NEW c \in Commands, ExposureKnown(c) PROVE OneRunning'
  <2>1. \E to \in Stages : Goes(c, to)
    <3>1. CASE AskLimits(c)
      BY <3>1, AskLimitsTrue
    <3>2. CASE ~AskLimits(c)
      BY <1>9, <3>2 DEF ExposureKnown
    <3> QED  BY <3>1, <3>2
  <2> QED  BY <1>9, <2>1, OneMoves DEF ExposureKnown
<1>10. ASSUME NEW c \in Commands, Summarize(c) PROVE OneRunning'
  <2>1. \E to \in Stages : Goes(c, to)
    <3>1. CASE Ask(c, "summary")
      BY <3>1, AskTrue
    <3>2. CASE ~Ask(c, "summary")
      BY <1>10, <3>2 DEF Summarize, Consent
    <3> QED  BY <3>1, <3>2
  <2> QED  BY <1>10, <2>1, OneMoves DEF Summarize, account
<1>11. ASSUME NEW c \in Commands, GiveUp(c) PROVE OneRunning'
  BY <1>11 DEF GiveUp, Release, OneRunning, Awaited
<1>12. ASSUME NEW c \in Commands, End(c) PROVE OneRunning'
  <2>1. Goes(c, "over") /\ running = c /\ running' = None /\ abandoned' = abandoned
    BY <1>12 DEF End, Release, account
  <2> QED  BY <2>1, GoesTyped DEF OneRunning, Awaited
<1>13. ASSUME NEW c \in Commands, Send(c) PROVE OneRunning'
  BY <1>13, OneMoves DEF Send, account, OneRunning, Awaited
<1>14. ASSUME NEW c \in Commands, Fail(c) \/ Unsure(c) \/ Succeed(c) PROVE OneRunning'
  <2>1. Answered(c) /\ running' = running /\ abandoned' = abandoned
    BY <1>14 DEF Fail, Unsure, Succeed, account
  <2>2. \E to \in {"ending", "over"} : Goes(c, to) /\ (to = "ending" => running = c)
    BY <2>1, AnsweredTrue
  <2> QED  BY <2>1, <2>2, OneMoves DEF Awaited
<1>15. ASSUME NEW c \in Commands, LandLate(c) PROVE OneRunning'
  BY <1>15 DEF LandLate, OneRunning
<1>16. ASSUME IdleTimeout PROVE OneRunning'
  BY <1>16 DEF IdleTimeout, OneRunning, account
<1>17. ASSUME UNCHANGED vars PROVE OneRunning'
  BY <1>17 DEF vars, OneRunning, account
<1> QED
  BY <1>1, <1>2, <1>3, <1>4, <1>5, <1>6, <1>7, <1>8, <1>9, <1>10, <1>11, <1>12, <1>13, <1>14,
     <1>15, <1>16, <1>17 DEF Next, Step, Background

-----------------------------------------------------------------------------
\* The wallet

\* WalletTrue after a step of c that leaves the wallet and what commands show and
\* execute with alone.
LEMMA WalletKept ==
  ASSUME TypeOK, WalletTrue, NEW c \in Commands, NEW to \in Stages, Goes(c, to),
         UNCHANGED <<session, wallet, summary, client>>,
         stage[c] # "rebuilding" \/ to = "rebuilding",
         keyed = {} /\ mode # "sim" /\ ~misbuilt /\ to \in {"exposure", "fees", "summary", "agreed", "rebuilding"} =>
           manager # None,
         to \in {"summary", "agreed"} => stage[c] \in {"summary", "agreed"},
         to \in Executing => stage[c] \in Executing
  PROVE  WalletTrue'
<1>1. stage'[c] = to /\ \A d \in Commands : d # c => stage'[d] = stage[d]
  BY GoesTyped
<1> SUFFICES ASSUME keyed = {} /\ mode # "sim" /\ ~misbuilt' PROVE WalletTrue'
  BY DEF WalletTrue, session
<1>2. restore' = None
  BY DEF WalletTrue, wallet
<1>3. manager' = None \/ shown' = signer' \/ \E d \in Commands : stage'[d] = "rebuilding"
  BY <1>1 DEF WalletTrue, wallet
<1>4. ASSUME NEW d \in Commands
      PROVE  /\ stage'[d] \in {"exposure", "fees", "summary", "agreed", "rebuilding"} => manager' # None
             /\ stage'[d] \in {"summary", "agreed"} => summary'[d] = shown'
             /\ stage'[d] \in Executing => client'[d] = summary'[d]
  <2>1. CASE d = c
    BY <1>1, <2>1 DEF WalletTrue, wallet
  <2>2. CASE d # c
    BY <1>1, <2>2 DEF WalletTrue, wallet
  <2> QED  BY <2>1, <2>2
<1> QED  BY <1>2, <1>3, <1>4 DEF WalletTrue

\* While c holds `processing`, no other command is between its dispatch and consent.
LEMMA NoOther ==
  ASSUME OneRunning, NEW c \in Commands, NEW d \in Commands, running = c \/ running = None, d # c
  PROVE  stage[d] \notin Awaited
BY TerminalAssumption DEF OneRunning, TerminalAssumption

LEMMA WalletStep == TypeOK /\ OneRunning /\ PendingAsks /\ WalletTrue /\ [Next]_vars => WalletTrue'
<1> SUFFICES ASSUME TypeOK, OneRunning, PendingAsks, WalletTrue, [Next]_vars PROVE WalletTrue'
  OBVIOUS
<1> USE DEF Stages, Executing
<1>1. ASSUME NEW line \in {"yes", "no"}, Answer(line) PROVE WalletTrue'
  <2>1. pending \in Commands /\ (line = "yes") \in BOOLEAN
    BY <1>1 DEF Answer, TypeOK
  <2>2. /\ After(pending, line = "yes") \in {"cleared", "agreed", "ending", "over"}
        /\ After(pending, line = "yes") = "agreed" => stage[pending] = "summary"
    BY <2>1, AfterTrue
  <2>3. Goes(pending, After(pending, line = "yes")) /\ UNCHANGED <<session, wallet, summary, client>>
    BY <1>1 DEF Answer, consent
  <2>4. stage[pending] \in Asking
    BY <1>1 DEF Answer, PendingAsks
  <2>5. keyed = {} /\ mode # "sim" /\ ~misbuilt /\ After(pending, line = "yes") = "agreed" => manager # None
    BY <2>1, <2>2 DEF WalletTrue
  <2> QED  BY <2>1, <2>2, <2>3, <2>4, <2>5, WalletKept DEF Asking
<1>2. ASSUME NEW line \in {"yes", "no"}, TypeAhead(line) PROVE WalletTrue'
  BY <1>2 DEF TypeAhead, WalletTrue, session, wallet, consent
<1>3. ASSUME NEW c \in Commands, TypeCommand(c) PROVE WalletTrue'
  BY <1>3, WalletKept DEF TypeCommand, consent
<1>4. ASSUME NEW c \in Commands, TypeExit(c) PROVE WalletTrue'
  BY <1>4, WalletKept DEF TypeExit, consent
<1>5. ASSUME NEW c \in Commands, Deadline(c) PROVE WalletTrue'
  <2>1. /\ After(c, FALSE) \in {"cleared", "agreed", "ending", "over"}
        /\ After(c, FALSE) = "agreed" => stage[c] = "summary"
    BY AfterTrue
  <2>2. keyed = {} /\ mode # "sim" /\ ~misbuilt /\ After(c, FALSE) = "agreed" => manager # None
    BY <2>1 DEF WalletTrue
  <2> QED  BY <1>5, <2>1, <2>2, WalletKept DEF Deadline, consent, Asking
<1>6. ASSUME NEW c \in Commands, Parsed(c) PROVE WalletTrue'
  <2>1. \E to \in {"ending", "query", "cleared"} : Goes(c, to)
    <3>1. CASE Ask(c, "query")
      BY <3>1, AskTrue
    <3>2. CASE ~Ask(c, "query")
      BY <1>6, <3>2 DEF Parsed
    <3> QED  BY <3>1, <3>2
  <2> QED  BY <1>6, <2>1, WalletKept DEF Parsed
<1>7. ASSUME NEW c \in Commands, Begin(c) PROVE WalletTrue'
  <2> SUFFICES ASSUME keyed = {} /\ mode # "sim" /\ ~misbuilt' PROVE WalletTrue'
    BY <1>7 DEF WalletTrue, Begin, session
  <2>1. PICK to \in {"ending", "exposure", "fees", "rebuilding"} : BeginStage(c, to)
    BY <1>7, BeginTrue
  <2>2. /\ stage[c] = "cleared" /\ running = c
        /\ UNCHANGED <<session, summary, client>>
    BY <1>7 DEF Begin, consent
  <2>3. CASE UNCHANGED wallet
    <3>1. to \in {"exposure", "fees", "rebuilding"} => manager # None
      BY <2>1, <2>3 DEF BeginStage, wallet
    <3> QED  BY <2>1, <2>2, <2>3, <3>1, WalletKept DEF BeginStage
  <2>4. CASE restore' = None /\ (manager' = None \/ Goes(c, "rebuilding"))
    <3>1. stage'[c] = to /\ \A d \in Commands : d # c => stage'[d] = stage[d]
      BY <2>1, GoesTyped DEF BeginStage
    <3>2. manager' = None \/ to = "rebuilding"
      BY <2>4, <3>1, GoesTyped
    <3>3. to \in {"exposure", "fees", "rebuilding"} => manager' # None
      BY <2>1 DEF BeginStage
    <3>4. \A d \in Commands : d # c => stage[d] \notin Awaited
      BY <2>2, NoOther
    <3>5. ~misbuilt
      BY <1>7, BeginTrue
    <3> QED  BY <2>2, <2>4, <3>1, <3>2, <3>3, <3>4, <3>5 DEF WalletTrue, Awaited
  <2> QED  BY <1>7, <2>3, <2>4, BeginTrue
<1>8. ASSUME NEW c \in Commands, Rebuild(c) PROVE WalletTrue'
  <2> SUFFICES ASSUME keyed = {} /\ mode # "sim" /\ ~misbuilt' PROVE WalletTrue'
    BY <1>8 DEF WalletTrue, Rebuild, session
  <2>1. /\ manager # None /\ shown' = manager /\ signer' = manager
        /\ UNCHANGED <<session, manager, restore, misbuilt, summary, client>>
    BY <1>8 DEF Rebuild, WalletTrue, consent
  <2>2. stage'[c] = "ending" /\ \A d \in Commands : d # c => stage'[d] = stage[d]
    BY <1>8, GoesTyped DEF Rebuild
  <2>3. \A d \in Commands : d # c => stage[d] \notin Awaited
    BY <1>8, NoOther DEF Rebuild
  <2> QED  BY <2>1, <2>2, <2>3 DEF WalletTrue, Awaited
<1>9. ASSUME NEW c \in Commands, ExposureKnown(c) PROVE WalletTrue'
  <2>1. \E to \in {"ending", "fees"} : Goes(c, to)
    <3>1. CASE AskLimits(c)
      BY <3>1, AskLimitsTrue
    <3>2. CASE ~AskLimits(c)
      BY <1>9, <3>2 DEF ExposureKnown
    <3> QED  BY <3>1, <3>2
  <2>2. keyed = {} /\ mode # "sim" /\ ~misbuilt => manager # None
    BY <1>9 DEF ExposureKnown, WalletTrue
  <2>3. stage[c] = "exposure" /\ UNCHANGED <<session, wallet, summary, client>>
    BY <1>9 DEF ExposureKnown, consent
  <2> QED  BY <2>1, <2>2, <2>3, WalletKept DEF WalletTrue, session
<1>10. ASSUME NEW c \in Commands, Summarize(c) PROVE WalletTrue'
  <2> SUFFICES ASSUME keyed = {} /\ mode # "sim" /\ ~misbuilt' PROVE WalletTrue'
    BY <1>10 DEF WalletTrue, Summarize, session
  <2>1. PICK to \in {"ending", "summary", "agreed"} :
          Goes(c, to) /\ (to # "ending" => summary'[c] = shown)
    <3>1. CASE Ask(c, "summary")
      BY <1>10, <3>1, AskTrue DEF Summarize, TypeOK
    <3>2. CASE ~Ask(c, "summary")
      BY <1>10, <3>2 DEF Summarize, Consent, TypeOK
    <3> QED  BY <3>1, <3>2
  <2>2. stage'[c] = to /\ \A d \in Commands : d # c => stage'[d] = stage[d]
    BY <2>1, GoesTyped
  <2>3. \A d \in Commands : d # c => summary'[d] = summary[d]
    BY <1>10 DEF Summarize, TypeOK
  <2>4. stage[c] = "fees" /\ UNCHANGED <<session, wallet, client>>
    BY <1>10 DEF Summarize
  <2> QED  BY <2>1, <2>2, <2>3, <2>4 DEF WalletTrue, wallet, session
<1>11. ASSUME NEW c \in Commands, Execute(c) PROVE WalletTrue'
  <2> SUFFICES ASSUME keyed = {} /\ mode # "sim" /\ ~misbuilt' PROVE WalletTrue'
    BY <1>11 DEF WalletTrue, Execute, session
  <2>1. stage'[c] = "executing" /\ \A d \in Commands : d # c => stage'[d] = stage[d]
    BY <1>11, GoesTyped DEF Execute
  <2>2. client'[c] = signer /\ \A d \in Commands : d # c => client'[d] = client[d]
    BY <1>11 DEF Execute, TypeOK
  <2>3. stage[c] = "agreed" /\ UNCHANGED <<session, wallet, summary>> /\ ~misbuilt
    BY <1>11 DEF Execute, wallet
  <2>4. \A d \in Commands : d # c => stage[d] \notin Awaited
    BY <1>11, NoOther DEF Execute
  <2>5. summary[c] = shown /\ shown = signer
    BY <2>3, <2>4 DEF WalletTrue, Awaited
  <2> QED  BY <2>1, <2>2, <2>3, <2>5 DEF WalletTrue, wallet, session
<1>12. ASSUME NEW c \in Commands, GiveUpDispatch(c) PROVE WalletTrue'
  BY <1>12, WalletKept DEF GiveUpDispatch, consent
<1>13. ASSUME NEW c \in Commands, GiveUp(c) PROVE WalletTrue'
  BY <1>13, RestoreTrue DEF GiveUp, WalletTrue, session, consent
<1>14. ASSUME NEW c \in Commands, End(c) PROVE WalletTrue'
  <2>1. stage'[c] = "over" /\ \A d \in Commands : d # c => stage'[d] = stage[d]
    BY <1>14, GoesTyped DEF End
  <2>2. \A d \in Commands : d # c => summary'[d] = summary[d]
    BY <1>14 DEF End, TypeOK
  <2> QED  BY <1>14, <2>1, <2>2, RestoreTrue DEF End, WalletTrue, session
<1>15. ASSUME NEW c \in Commands, Send(c) PROVE WalletTrue'
  BY <1>15, WalletKept DEF Send, consent
<1>16. ASSUME NEW c \in Commands, Fail(c) \/ Unsure(c) \/ Succeed(c) PROVE WalletTrue'
  <2>1. Answered(c) /\ stage[c] \in Executing /\ UNCHANGED <<session, wallet>>
    BY <1>16 DEF Fail, Unsure, Succeed
  <2>2. PICK to \in {"ending", "over"} : Goes(c, to)
    BY <2>1, AnsweredTrue
  <2>3. stage'[c] = to /\ \A d \in Commands : d # c => stage'[d] = stage[d]
    BY <2>2, GoesTyped
  <2>4. \A d \in Commands : d # c => summary'[d] = summary[d] /\ client'[d] = client[d]
    BY <2>1 DEF Answered, TypeOK
  <2> QED  BY <2>1, <2>3, <2>4 DEF WalletTrue, wallet, session
<1>17. ASSUME NEW c \in Commands, LandLate(c) PROVE WalletTrue'
  BY <1>17 DEF LandLate, WalletTrue, session, wallet, consent
<1>18. ASSUME IdleTimeout PROVE WalletTrue'
  <2>1. \A d \in Commands : stage[d] \notin Awaited
    BY <1>18, TerminalAssumption DEF IdleTimeout, OneRunning, TerminalAssumption
  <2> QED  BY <1>18, <2>1 DEF IdleTimeout, WalletTrue, Awaited, session, consent
<1>19. ASSUME UNCHANGED vars PROVE WalletTrue'
  BY <1>19 DEF vars, WalletTrue, session, wallet, consent
<1> QED
  BY <1>1, <1>2, <1>3, <1>4, <1>5, <1>6, <1>7, <1>8, <1>9, <1>10, <1>11, <1>12, <1>13, <1>14,
     <1>15, <1>16, <1>17, <1>18, <1>19 DEF Next, Step, Background

LEMMA PendingStep == TypeOK /\ PendingAsks /\ [Next]_vars => PendingAsks'
<1> SUFFICES ASSUME TypeOK, PendingAsks, [Next]_vars PROVE PendingAsks'
  OBVIOUS
<1> USE DEF Stages, Executing, Asking
<1>1. ASSUME NEW c \in Commands, NEW to \in Stages, Goes(c, to), stage[c] \notin Asking,
             pending' \in {pending, None}
      PROVE  PendingAsks'
  BY <1>1, GoesTyped DEF PendingAsks, TypeOK
<1>2. ASSUME NEW c \in Commands, NEW where \in {"query", "summary"}, Ask(c, where), stage[c] \notin Asking
      PROVE  PendingAsks'
  <2>1. CASE buffer # "none" /\ mode = "sim"
    <3>1. pending' = pending /\ \E to \in Stages : Goes(c, to)
      BY <1>2, <2>1, AskTrue DEF Ask
    <3> QED  BY <1>1, <1>2, <3>1
  <2>2. CASE ~(buffer # "none" /\ mode = "sim")
    <3>1. Goes(c, where) /\ pending' = c
      BY <1>2, <2>2 DEF Ask
    <3> QED  BY <3>1, GoesTyped DEF PendingAsks
  <2> QED  BY <2>1, <2>2
<1>3. ASSUME stage' = stage, pending' = pending PROVE PendingAsks'
  BY <1>3 DEF PendingAsks
<1>4. ASSUME NEW line \in {"yes", "no"}, Answer(line) PROVE PendingAsks'
  BY <1>4 DEF Answer, PendingAsks
<1>5. ASSUME NEW line \in {"yes", "no"}, TypeAhead(line) PROVE PendingAsks'
  BY <1>3, <1>5 DEF TypeAhead
<1>6. ASSUME NEW c \in Commands, TypeCommand(c) PROVE PendingAsks'
  BY <1>1, <1>6 DEF TypeCommand, question
<1>7. ASSUME NEW c \in Commands, TypeExit(c) PROVE PendingAsks'
  BY <1>7, GoesTyped DEF TypeExit, PendingAsks, question
<1>8. ASSUME NEW c \in Commands, Deadline(c) PROVE PendingAsks'
  BY <1>8 DEF Deadline, PendingAsks
<1>9. ASSUME NEW c \in Commands, Parsed(c) PROVE PendingAsks'
  <2>1. CASE Ask(c, "query")
    BY <1>2, <1>9, <2>1 DEF Parsed
  <2>2. CASE ~Ask(c, "query")
    BY <1>1, <1>9, <2>2 DEF Parsed
  <2> QED  BY <2>1, <2>2
<1>10. ASSUME NEW c \in Commands, Begin(c) PROVE PendingAsks'
  BY <1>1, <1>10, BeginTrue DEF Begin, BeginStage, question
<1>11. ASSUME NEW c \in Commands, Rebuild(c) \/ Execute(c) \/ GiveUpDispatch(c) PROVE PendingAsks'
  BY <1>1, <1>11 DEF Rebuild, Execute, GiveUpDispatch, question
<1>12. ASSUME NEW c \in Commands, ExposureKnown(c) PROVE PendingAsks'
  <2>1. CASE AskLimits(c)
    BY <1>1, <1>12, <2>1, AskLimitsTrue DEF ExposureKnown, question
  <2>2. CASE ~AskLimits(c)
    BY <1>1, <1>12, <2>2 DEF ExposureKnown, question
  <2> QED  BY <2>1, <2>2
<1>13. ASSUME NEW c \in Commands, Summarize(c) PROVE PendingAsks'
  <2>1. CASE Ask(c, "summary")
    BY <1>2, <1>13, <2>1 DEF Summarize
  <2>2. CASE ~Ask(c, "summary")
    BY <1>1, <1>13, <2>2 DEF Summarize, Consent
  <2> QED  BY <2>1, <2>2
<1>14. ASSUME NEW c \in Commands, GiveUp(c) \/ LandLate(c) PROVE PendingAsks'
  BY <1>3, <1>14 DEF GiveUp, LandLate, question
<1>15. ASSUME NEW c \in Commands, End(c) PROVE PendingAsks'
  BY <1>1, <1>15 DEF End
<1>16. ASSUME NEW c \in Commands, Send(c) PROVE PendingAsks'
  BY <1>1, <1>16 DEF Send, question
<1>17. ASSUME NEW c \in Commands, Fail(c) \/ Unsure(c) \/ Succeed(c) PROVE PendingAsks'
  <2>1. Answered(c) /\ stage[c] \in Executing /\ pending' = pending
    BY <1>17 DEF Fail, Unsure, Succeed, question
  <2> QED  BY <1>1, <2>1, AnsweredTrue
<1>18. ASSUME IdleTimeout \/ UNCHANGED vars PROVE PendingAsks'
  BY <1>3, <1>18 DEF IdleTimeout, vars, question
<1> QED
  BY <1>4, <1>5, <1>6, <1>7, <1>8, <1>9, <1>10, <1>11, <1>12, <1>13, <1>14, <1>15, <1>16, <1>17,
     <1>18 DEF Next, Step, Background

-----------------------------------------------------------------------------
\* Limits

LEMMA Shrinks ==
  ASSUME NEW S, IsFiniteSet(S), NEW T \in SUBSET S
  PROVE  Cardinality(T) \in Nat /\ Cardinality(S) \in Nat /\ Cardinality(T) <= Cardinality(S)
BY FS_Subset, FS_CardinalityType

LEMMA Grows ==
  ASSUME NEW S, IsFiniteSet(S), NEW x, NEW T \in SUBSET (S \cup {x})
  PROVE  Cardinality(T) \in Nat /\ Cardinality(S) \in Nat /\ Cardinality(T) <= Cardinality(S) + 1
<1>1. IsFiniteSet(S \cup {x}) /\ Cardinality(S) \in Nat
      /\ Cardinality(S \cup {x}) \in {Cardinality(S), Cardinality(S) + 1}
  BY FS_AddElement, FS_CardinalityType
<1>2. Cardinality(T) \in Nat /\ Cardinality(T) <= Cardinality(S \cup {x})
  BY <1>1, Shrinks
<1> QED  BY <1>1, <1>2

LEMMA Parts ==
  ASSUME NEW S, NEW T, IsFiniteSet(S), IsFiniteSet(T)
  PROVE  Cardinality(S) <= Cardinality(S \ T) + Cardinality(T)
<1>1. /\ IsFiniteSet(S \ T) /\ IsFiniteSet((S \ T) \cup T) /\ IsFiniteSet((S \ T) \cap T)
      /\ Cardinality((S \ T) \cup T) = Cardinality(S \ T) + Cardinality(T) - Cardinality((S \ T) \cap T)
  <2>1. IsFiniteSet(S \ T)
    BY FS_Subset
  <2>2. (S \ T) \cap T = {}
    OBVIOUS
  <2> QED  BY <2>1, <2>2, FS_Union, FS_EmptySet
<1>2. (S \ T) \cap T = {} /\ S \subseteq (S \ T) \cup T
  OBVIOUS
<1>3. /\ Cardinality(S) \in Nat /\ Cardinality((S \ T) \cup T) \in Nat
      /\ Cardinality(S) <= Cardinality((S \ T) \cup T)
  BY <1>1, <1>2, Shrinks
<1>4. Cardinality(S \ T) \in Nat /\ Cardinality(T) \in Nat /\ Cardinality((S \ T) \cap T) = 0
  BY <1>1, <1>2, FS_CardinalityType, FS_EmptySet
<1> QED  BY <1>1, <1>3, <1>4

LEMMA FiniteStep == TypeOK /\ FiniteSets /\ [Next]_vars => FiniteSets'
<1> SUFFICES ASSUME TypeOK, FiniteSets, [Next]_vars PROVE FiniteSets'
  OBVIOUS
<1>1. CASE UNCHANGED <<positions, abandoned, late, misled, traded, losing>>
  BY <1>1 DEF FiniteSets
<1>2. ASSUME NEW c \in Commands, ExposureKnown(c) PROVE FiniteSets'
  BY <1>2, FS_AddElement DEF ExposureKnown, FiniteSets
<1>3. ASSUME NEW c \in Commands, GiveUp(c) PROVE FiniteSets'
  BY <1>3, FS_AddElement DEF GiveUp, FiniteSets
<1>4. ASSUME NEW c \in Commands, LandLate(c) PROVE FiniteSets'
  BY <1>4, FS_AddElement DEF LandLate, FiniteSets
<1>5. ASSUME NEW c \in Commands, Succeed(c) PROVE FiniteSets'
  <2>1. IsFiniteSet(positions') /\ IsFiniteSet(traded') /\ IsFiniteSet(losing')
    <3>1. CASE SucceedOpen(c)
      BY <3>1, FS_AddElement DEF SucceedOpen, FiniteSets
    <3>2. CASE SucceedClose(c)
      BY <3>2, FS_AddElement, FS_RemoveElement DEF SucceedClose, FiniteSets
    <3>3. CASE SucceedCloseAll(c) \/ SucceedChange(c)
      BY <3>3, FS_Subset DEF SucceedCloseAll, SucceedChange, FiniteSets
    <3> QED  BY <1>5, <3>1, <3>2, <3>3 DEF Succeed
  <2> QED  BY <1>5, <2>1 DEF Succeed, FiniteSets
<1>6. ASSUME NEW c \in Commands, Begin(c) \/ Unsure(c) PROVE FiniteSets'
  BY <1>1, <1>6 DEF Begin, Unsure
<1>7. ASSUME UNCHANGED account PROVE FiniteSets'
  BY <1>1, <1>7 DEF account
<1>8. \/ UNCHANGED account
      \/ \E c \in Commands :
           ExposureKnown(c) \/ GiveUp(c) \/ LandLate(c) \/ Succeed(c) \/ Begin(c) \/ Unsure(c)
  BY DEF Next, Step, Background, Answer, TypeAhead, TypeCommand, TypeExit, Deadline, Parsed, Rebuild,
         Summarize, Execute, GiveUpDispatch, End, Send, Fail, IdleTimeout, vars
<1> QED  BY <1>2, <1>3, <1>4, <1>5, <1>6, <1>7, <1>8

\* Nothing more counts, and nothing else is let through.
LEMMA RoomKept ==
  ASSUME TypeOK, FiniteSets, Room,
         Counted' \subseteq Counted, Lost' \subseteq Lost, Exposed' \subseteq Exposed,
         limits' \in SessionLimits, limits'.trades >= limits.trades, limits'.loss >= limits.loss,
         kind' = kind,
         \A c \in Commands : LetThrough(c)' =>
           LetThrough(c) /\ (c \notin misled' => c \notin misled)
  PROVE  Room'
<1>1. IsFiniteSet(Counted) /\ IsFiniteSet(Lost) /\ IsFiniteSet(Exposed)
  BY FS_Subset DEF FiniteSets, Counted, Lost, Exposed
<1>2. /\ Cardinality(Counted') \in Nat /\ Cardinality(Counted) \in Nat
      /\ Cardinality(Counted') <= Cardinality(Counted)
  BY <1>1, Shrinks
<1>3. /\ Cardinality(Lost') \in Nat /\ Cardinality(Lost) \in Nat
      /\ Cardinality(Lost') <= Cardinality(Lost)
  BY <1>1, Shrinks
<1>4. /\ Cardinality(Exposed') \in Nat /\ Cardinality(Exposed) \in Nat
      /\ Cardinality(Exposed') <= Cardinality(Exposed)
  BY <1>1, Shrinks
<1>5. /\ limits.trades \in Nat /\ limits.loss \in Nat /\ MaxExposure \in Nat
      /\ limits'.trades \in Nat /\ limits'.loss \in Nat
      /\ Limits.maxTrades \in Nat /\ Limits.maxLoss \in Nat
  BY TerminalAssumption DEF TypeOK, SessionLimits, TerminalAssumption
<1>6. /\ Cardinality(Counted') <= limits'.trades
      /\ Limits.maxTrades > 0 =>
           /\ Cardinality(Counted') <= Limits.maxTrades
           /\ \A c \in Commands : LetThrough(c)' => Cardinality(Counted') < Limits.maxTrades
  BY <1>2, <1>5 DEF Room
<1>7. /\ Cardinality(Lost') <= limits'.loss
      /\ Limits.maxLoss > 0 =>
           /\ Cardinality(Lost') <= Limits.maxLoss
           /\ \A c \in Commands : LetThrough(c)' => Cardinality(Lost') < Limits.maxLoss
  BY <1>3, <1>5 DEF Room
<1>8. MaxExposure > 0 =>
        /\ Cardinality(Exposed') <= MaxExposure
        /\ \A c \in Commands : LetThrough(c)' /\ kind'[c] = "open" /\ c \notin misled' =>
             Cardinality(Exposed') < MaxExposure
  BY <1>4, <1>5 DEF Room
<1> QED  BY <1>6, <1>7, <1>8 DEF Room

\* A step of c that leaves the account alone and lets nothing through.
LEMMA RoomMoves ==
  ASSUME TypeOK, FiniteSets, Room, NEW c \in Commands, NEW to \in Stages, Goes(c, to),
         UNCHANGED <<session, account>>,
         to \in {"fees", "summary", "agreed"} \cup Executing =>
           stage[c] \in {"fees", "summary", "agreed"} \cup Executing
  PROVE  Room'
<1>1. stage'[c] = to /\ \A d \in Commands : d # c => stage'[d] = stage[d]
  BY GoesTyped
<1>2. \A d \in Commands : LetThrough(d)' => LetThrough(d)
  BY <1>1 DEF LetThrough, account
<1>3. /\ Counted' = Counted /\ Lost' = Lost /\ Exposed' = Exposed
      /\ limits' = limits /\ kind' = kind /\ misled' = misled
  BY DEF Counted, Lost, Exposed, account, session
<1>4. limits \in SessionLimits /\ limits.trades \in Nat /\ limits.loss \in Nat
  BY DEF TypeOK, SessionLimits
<1> QED  BY <1>2, <1>3, <1>4, RoomKept

\* No other trade is let through and not given up on while one is.
LEMMA OnlyOne ==
  ASSUME OneRunning, NEW c \in Commands, NEW d \in Commands, LetThrough(d), running = c
  PROVE  d = c
BY DEF OneRunning, LetThrough, Awaited

\* An answer that shows at least as many positions as there are is right about the room.
LEMMA FitsTrue ==
  ASSUME TypeOK, FiniteSets, NEW answer \in Listings, Fits(answer),
         ~(Cardinality(answer) < Cardinality(positions))
  PROVE  HasRoom
<1>1. IsFiniteSet(positions) /\ IsFiniteSet(traded)
  BY DEF FiniteSets
<1>2. IsFiniteSet({o \in traded : kind[o] = "open"})
  BY <1>1, FS_Subset
<1>3. IsFiniteSet(answer)
  BY <1>1, <1>2, FS_Union, FS_Subset DEF Listings
<1>4. Cardinality(answer) \in Nat /\ Cardinality(positions) \in Nat /\ MaxExposure \in Nat
  BY <1>1, <1>3, FS_CardinalityType, TerminalAssumption DEF TerminalAssumption
<1> QED  BY <1>4 DEF Fits, HasRoom

\* c is let through: no limit is reached.
LEMMA RoomFound ==
  ASSUME TypeOK, OneRunning, FiniteSets, Room, NEW c \in Commands, Goes(c, "fees"), running = c,
         kind' = kind, UNCHANGED <<positions, abandoned, late, traded, losing>>,
         misled' \in {misled, misled \cup {c}},
         limits' \in SessionLimits, limits'.trades = limits.trades, limits'.loss = limits.loss,
         ~Reached(Limits, limits), kind[c] = "open" /\ c \notin misled' => HasRoom
  PROVE  Room'
<1>1. stage'[c] = "fees" /\ \A d \in Commands : d # c => stage'[d] = stage[d]
  BY GoesTyped DEF Stages
<1>2. \A d \in Commands : LetThrough(d)' => d = c
  BY <1>1, OnlyOne DEF LetThrough
<1>3. /\ limits.trades \in Nat /\ limits.loss \in Nat /\ MaxExposure \in Nat
      /\ Limits.maxTrades \in Nat /\ Limits.maxLoss \in Nat
  BY TerminalAssumption DEF TypeOK, SessionLimits, TerminalAssumption
<1>4. /\ IsFiniteSet(Counted) /\ IsFiniteSet(Lost) /\ IsFiniteSet(Exposed)
      /\ Counted' = Counted /\ Lost' = Lost /\ Exposed' \subseteq Exposed
      /\ Exposed \subseteq positions /\ IsFiniteSet(positions)
  BY FS_Subset DEF FiniteSets, Counted, Lost, Exposed
<1>5. Cardinality(Counted) \in Nat /\ Cardinality(Lost) \in Nat
  BY <1>4, FS_CardinalityType
<1>6. /\ Cardinality(Exposed') \in Nat /\ Cardinality(Exposed) \in Nat /\ Cardinality(positions) \in Nat
      /\ Cardinality(Exposed') <= Cardinality(Exposed) /\ Cardinality(Exposed) <= Cardinality(positions)
  BY <1>4, Shrinks
<1>7. /\ Limits.maxTrades > 0 => limits.trades < Limits.maxTrades
      /\ Limits.maxLoss > 0 => limits.loss < Limits.maxLoss
  BY <1>3 DEF Reached
<1>8. /\ Cardinality(Counted') <= limits'.trades
      /\ Limits.maxTrades > 0 => Cardinality(Counted') < Limits.maxTrades
  BY <1>3, <1>4, <1>5, <1>7 DEF Room
<1>9. /\ Cardinality(Lost') <= limits'.loss
      /\ Limits.maxLoss > 0 => Cardinality(Lost') < Limits.maxLoss
  BY <1>3, <1>4, <1>5, <1>7 DEF Room
<1>10. MaxExposure > 0 =>
         /\ Cardinality(Exposed') <= MaxExposure
         /\ kind[c] = "open" /\ c \notin misled' => Cardinality(Exposed') < MaxExposure
  BY <1>3, <1>6 DEF Room, HasRoom
<1>11. Cardinality(Counted') \in Nat /\ Cardinality(Lost') \in Nat
  BY <1>4, <1>5
<1>12. Limits.maxTrades > 0 => Cardinality(Counted') <= Limits.maxTrades
  BY <1>3, <1>8, <1>11
<1>13. Limits.maxLoss > 0 => Cardinality(Lost') <= Limits.maxLoss
  BY <1>3, <1>9, <1>11
<1> QED  BY <1>2, <1>8, <1>9, <1>10, <1>12, <1>13 DEF Room

\* What a trade that is done counts for.
LEMMA SucceedTrue ==
  ASSUME TypeOK, NEW c \in Commands, Succeed(c)
  PROVE  /\ limits' \in SessionLimits
         /\ limits'.trades >= limits.trades /\ limits'.loss >= limits.loss
         /\ \/ traded' = traded
            \/ traded' = traded \cup {c} /\ limits'.trades = limits.trades + 1
         /\ \/ losing' = losing
            \/ losing' = losing \cup {c} /\ limits'.loss = limits.loss + 1
         /\ \/ positions' \subseteq positions
            \/ positions' = positions \cup {c} /\ kind[c] = "open"
<1>0. limits \in SessionLimits /\ limits.trades \in Nat /\ limits.loss \in Nat
  BY DEF TypeOK, SessionLimits
<1>1. CASE SucceedOpen(c)
  BY <1>0, <1>1, RecordOpenTrue DEF SucceedOpen
<1>2. CASE SucceedClose(c)
  <2>1. PICK lost \in {0, 1} :
          /\ limits' = RecordTrade(Limits, limits, lost)
          /\ losing' = IF lost = 1 THEN losing \cup {c} ELSE losing
    BY <1>2 DEF SucceedClose
  <2> QED  BY <1>0, <1>2, <2>1, RecordTradeTrue DEF SucceedClose
<1>3. CASE SucceedCloseAll(c) \/ SucceedChange(c)
  BY <1>0, <1>3 DEF SucceedCloseAll, SucceedChange
<1> QED  BY <1>1, <1>2, <1>3 DEF Succeed

LEMMA RoomSucceeds ==
  ASSUME TypeOK, OneRunning, FiniteSets, Room, NEW c \in Commands, Succeed(c)
  PROVE  Room'
<1>1. /\ stage[c] = "sent" /\ kind' = kind
      /\ UNCHANGED <<late, abandoned, misled>>
  BY DEF Succeed, session
<1>2. PICK to \in {"ending", "over"} : Goes(c, to)
  BY AnsweredTrue DEF Succeed
<1>3. stage'[c] = to /\ \A d \in Commands : d # c => stage'[d] = stage[d]
  BY <1>2, GoesTyped DEF Stages
<1>4. \A d \in Commands : LetThrough(d)' => d # c /\ LetThrough(d)
  BY <1>1, <1>3 DEF LetThrough, Executing
<1>5. /\ limits.trades \in Nat /\ limits.loss \in Nat /\ MaxExposure \in Nat
      /\ limits'.trades \in Nat /\ limits'.loss \in Nat
      /\ Limits.maxTrades \in Nat /\ Limits.maxLoss \in Nat
  BY SucceedTrue, TerminalAssumption DEF TypeOK, SessionLimits, TerminalAssumption
<1>6. CASE c \in abandoned
  <2>1. Counted' \subseteq Counted /\ Lost' \subseteq Lost /\ Exposed' \subseteq Exposed
    BY <1>1, <1>6, SucceedTrue DEF Counted, Lost, Exposed
  <2> QED  BY <1>1, <1>4, <2>1, SucceedTrue, RoomKept
<1>7. CASE c \notin abandoned
  <2>1. LetThrough(c) /\ running = c
    BY <1>1, <1>7 DEF LetThrough, OneRunning, Executing
  <2>2. \A d \in Commands : ~LetThrough(d)'
    BY <1>4, <2>1, OnlyOne
  <2>3. IsFiniteSet(Counted) /\ IsFiniteSet(Lost) /\ IsFiniteSet(Exposed)
    BY FS_Subset DEF FiniteSets, Counted, Lost, Exposed
  <2>4. /\ Cardinality(Counted') <= limits'.trades
        /\ Limits.maxTrades > 0 => Cardinality(Counted') <= Limits.maxTrades
    <3>1. CASE traded' = traded
      <4>1. Counted' = Counted /\ Cardinality(Counted) \in Nat
        BY <1>1, <2>3, <3>1, FS_CardinalityType DEF Counted
      <4> QED  BY <1>5, <4>1, SucceedTrue DEF Room
    <3>2. CASE traded' = traded \cup {c} /\ limits'.trades = limits.trades + 1
      <4>1. Counted' \subseteq Counted \cup {c}
        BY <1>1, <3>2 DEF Counted
      <4>2. /\ Cardinality(Counted') \in Nat /\ Cardinality(Counted) \in Nat
            /\ Cardinality(Counted') <= Cardinality(Counted) + 1
        BY <2>3, <4>1, Grows
      <4> QED  BY <1>5, <2>1, <3>2, <4>2 DEF Room
    <3> QED  BY <3>1, <3>2, SucceedTrue
  <2>5. /\ Cardinality(Lost') <= limits'.loss
        /\ Limits.maxLoss > 0 => Cardinality(Lost') <= Limits.maxLoss
    <3>1. CASE losing' = losing
      <4>1. Lost' = Lost /\ Cardinality(Lost) \in Nat
        BY <1>1, <2>3, <3>1, FS_CardinalityType DEF Lost
      <4> QED  BY <1>5, <4>1, SucceedTrue DEF Room
    <3>2. CASE losing' = losing \cup {c} /\ limits'.loss = limits.loss + 1
      <4>1. Lost' \subseteq Lost \cup {c}
        BY <1>1, <3>2 DEF Lost
      <4>2. /\ Cardinality(Lost') \in Nat /\ Cardinality(Lost) \in Nat
            /\ Cardinality(Lost') <= Cardinality(Lost) + 1
        BY <2>3, <4>1, Grows
      <4> QED  BY <1>5, <2>1, <3>2, <4>2 DEF Room
    <3> QED  BY <3>1, <3>2, SucceedTrue
  <2>6. MaxExposure > 0 => Cardinality(Exposed') <= MaxExposure
    <3>1. CASE Exposed' \subseteq Exposed
      BY <1>5, <2>3, <3>1, Shrinks DEF Room
    <3>2. CASE positions' = positions \cup {c} /\ kind[c] = "open" /\ c \notin misled
      <4>1. Exposed' \subseteq Exposed \cup {c}
        BY <1>1, <3>2 DEF Exposed
      <4>2. /\ Cardinality(Exposed') \in Nat /\ Cardinality(Exposed) \in Nat
            /\ Cardinality(Exposed') <= Cardinality(Exposed) + 1
        BY <2>3, <4>1, Grows
      <4> QED  BY <1>5, <2>1, <3>2, <4>2 DEF Room
    <3>3. Exposed' \subseteq Exposed
          \/ (positions' = positions \cup {c} /\ kind[c] = "open" /\ c \notin misled)
      BY <1>1, SucceedTrue DEF Exposed
    <3> QED  BY <3>1, <3>2, <3>3
  <2> QED  BY <2>2, <2>4, <2>5, <2>6 DEF Room
<1> QED  BY <1>6, <1>7

LEMMA RoomStep == TypeOK /\ OneRunning /\ PendingAsks /\ FiniteSets /\ Room /\ [Next]_vars => Room'
<1> SUFFICES ASSUME TypeOK, OneRunning, PendingAsks, FiniteSets, Room, [Next]_vars PROVE Room'
  OBVIOUS
<1> USE DEF Stages
<1>0. limits \in SessionLimits /\ limits.trades \in Nat /\ limits.loss \in Nat
  BY DEF TypeOK, SessionLimits
<1>1. ASSUME NEW line \in {"yes", "no"}, Answer(line) PROVE Room'
  <2>1. pending \in Commands /\ (line = "yes") \in BOOLEAN
    BY <1>1 DEF Answer, TypeOK
  <2>2. /\ After(pending, line = "yes") \in {"cleared", "agreed", "ending", "over"}
        /\ After(pending, line = "yes") = "agreed" => stage[pending] = "summary"
    BY <2>1, AfterTrue
  <2> QED  BY <1>1, <2>1, <2>2, RoomMoves DEF Answer, Executing
<1>2. ASSUME UNCHANGED <<session, stage, account>> PROVE Room'
  <2>1. /\ Counted' = Counted /\ Lost' = Lost /\ Exposed' = Exposed
        /\ limits' = limits /\ kind' = kind /\ misled' = misled
        /\ \A d \in Commands : LetThrough(d)' = LetThrough(d)
    BY <1>2 DEF Counted, Lost, Exposed, LetThrough, account, session
  <2> QED  BY <1>0, <2>1, RoomKept
<1>3. ASSUME NEW c \in Commands, TypeCommand(c) PROVE Room'
  BY <1>3, RoomMoves DEF TypeCommand, Executing
<1>4. ASSUME NEW c \in Commands, TypeExit(c) PROVE Room'
  BY <1>4, RoomMoves DEF TypeExit, Executing
<1>5. ASSUME NEW c \in Commands, Deadline(c) PROVE Room'
  <2>1. /\ After(c, FALSE) \in {"cleared", "agreed", "ending", "over"}
        /\ After(c, FALSE) = "agreed" => stage[c] = "summary"
    BY AfterTrue
  <2> QED  BY <1>5, <2>1, RoomMoves DEF Deadline, Executing
<1>6. ASSUME NEW c \in Commands, Parsed(c) PROVE Room'
  <2>1. \E to \in {"ending", "query", "cleared"} : Goes(c, to)
    <3>1. CASE Ask(c, "query")
      BY <3>1, AskTrue
    <3>2. CASE ~Ask(c, "query")
      BY <1>6, <3>2 DEF Parsed
    <3> QED  BY <3>1, <3>2
  <2> QED  BY <1>6, <2>1, RoomMoves DEF Parsed, Executing
<1>7. ASSUME NEW c \in Commands, Begin(c) PROVE Room'
  <2>1. PICK to \in {"ending", "exposure", "fees", "rebuilding"} : BeginStage(c, to)
    BY <1>7, BeginTrue
  <2>2. /\ running = c /\ kind' = kind
        /\ UNCHANGED <<positions, unconfirmed, late, abandoned, misled, traded, losing>>
    BY <1>7 DEF Begin, session
  <2>3. /\ limits' \in SessionLimits
        /\ limits'.trades = limits.trades /\ limits'.loss = limits.loss
    BY <1>7, BeginTrue
  <2>4. CASE to = "fees"
    BY <2>1, <2>2, <2>3, <2>4, RoomFound DEF BeginStage
  <2>5. CASE to # "fees"
    <3>1. stage'[c] = to /\ \A d \in Commands : d # c => stage'[d] = stage[d]
      BY <2>1, GoesTyped DEF BeginStage
    <3>2. \A d \in Commands : LetThrough(d)' => LetThrough(d)
      BY <2>2, <2>5, <3>1 DEF LetThrough, Executing
    <3>3. Counted' = Counted /\ Lost' = Lost /\ Exposed' = Exposed
      BY <2>2 DEF Counted, Lost, Exposed
    <3> QED  BY <1>0, <2>2, <2>3, <3>2, <3>3, RoomKept
  <2> QED  BY <2>4, <2>5
<1>8. ASSUME NEW c \in Commands, Rebuild(c) \/ GiveUpDispatch(c) PROVE Room'
  BY <1>8, RoomMoves DEF Rebuild, GiveUpDispatch, Executing
<1>9. ASSUME NEW c \in Commands, ExposureKnown(c) PROVE Room'
  <2>1. /\ running = c /\ kind' = kind
        /\ UNCHANGED <<positions, late, abandoned, traded, losing>>
        /\ misled' \in {misled, misled \cup {c}}
    BY <1>9 DEF ExposureKnown, session
  <2>0. PICK answer \in Listings :
          IF Fits(answer)
          THEN /\ AskLimits(c)
               /\ misled' = IF Cardinality(answer) < Cardinality(positions)
                            THEN misled \cup {c} ELSE misled
          ELSE Goes(c, "ending") /\ UNCHANGED <<limits, misled>>
    BY <1>9 DEF ExposureKnown
  <2>2. CASE AskLimits(c) /\ (c \notin misled' => HasRoom)
    <3>1. /\ limits' \in SessionLimits
          /\ limits'.trades = limits.trades /\ limits'.loss = limits.loss
      BY <2>2, AskLimitsTrue
    <3>2. CASE Goes(c, "fees") /\ ~Reached(Limits, limits)
      BY <2>1, <2>2, <3>1, <3>2, RoomFound
    <3>3. CASE Goes(c, "ending")
      <4>1. stage'[c] = "ending" /\ \A d \in Commands : d # c => stage'[d] = stage[d]
        BY <3>3, GoesTyped
      <4>2. \A d \in Commands : LetThrough(d)' => LetThrough(d) /\ (d \notin misled' => d \notin misled)
        BY <2>1, <4>1 DEF LetThrough, Executing
      <4>3. Counted' = Counted /\ Lost' = Lost /\ Exposed' \subseteq Exposed
        BY <2>1 DEF Counted, Lost, Exposed
      <4> QED  BY <1>0, <2>1, <3>1, <4>2, <4>3, RoomKept
    <3> QED  BY <2>2, <3>2, <3>3, AskLimitsTrue
  <2>3. CASE Goes(c, "ending") /\ UNCHANGED <<limits, misled>>
    BY <1>9, <2>1, <2>3, RoomMoves DEF ExposureKnown, account, Executing
  <2>4. (AskLimits(c) /\ (c \notin misled' => HasRoom)) \/ (Goes(c, "ending") /\ UNCHANGED <<limits, misled>>)
    BY <2>0, FitsTrue
  <2> QED  BY <2>2, <2>3, <2>4
<1>10. ASSUME NEW c \in Commands, Summarize(c) PROVE Room'
  <2>1. \E to \in {"ending", "summary", "agreed"} : Goes(c, to)
    <3>1. CASE Ask(c, "summary")
      BY <3>1, AskTrue
    <3>2. CASE ~Ask(c, "summary")
      BY <1>10, <3>2 DEF Summarize, Consent
    <3> QED  BY <3>1, <3>2
  <2> QED  BY <1>10, <2>1, RoomMoves DEF Summarize
<1>11. ASSUME NEW c \in Commands, Execute(c) PROVE Room'
  BY <1>11, RoomMoves DEF Execute
<1>12. ASSUME NEW c \in Commands, GiveUp(c) PROVE Room'
  <2>1. /\ abandoned' = abandoned \cup {c} /\ kind' = kind
        /\ UNCHANGED <<stage, limits, positions, late, misled, traded, losing>>
    BY <1>12 DEF GiveUp, session
  <2>2. /\ Counted' \subseteq Counted /\ Lost' \subseteq Lost /\ Exposed' \subseteq Exposed
        /\ \A d \in Commands : LetThrough(d)' => LetThrough(d)
    BY <2>1 DEF Counted, Lost, Exposed, LetThrough
  <2> QED  BY <1>0, <2>1, <2>2, RoomKept
<1>13. ASSUME NEW c \in Commands, End(c) PROVE Room'
  BY <1>13, RoomMoves DEF End, Executing
<1>14. ASSUME NEW c \in Commands, Send(c) PROVE Room'
  BY <1>14, RoomMoves DEF Send, Executing
<1>15. ASSUME NEW c \in Commands, Fail(c) PROVE Room'
  BY <1>15, RoomMoves, AnsweredTrue DEF Fail, Executing
<1>16. ASSUME NEW c \in Commands, Unsure(c) PROVE Room'
  <2>1. /\ kind' = kind /\ UNCHANGED <<limits, positions, late, abandoned, misled, traded, losing>>
    BY <1>16 DEF Unsure, session
  <2>2. PICK to \in {"ending", "over"} : Goes(c, to)
    BY <1>16, AnsweredTrue DEF Unsure
  <2>3. stage'[c] = to /\ \A d \in Commands : d # c => stage'[d] = stage[d]
    BY <2>2, GoesTyped
  <2>4. /\ Counted' = Counted /\ Lost' = Lost /\ Exposed' = Exposed
        /\ \A d \in Commands : LetThrough(d)' => LetThrough(d)
    BY <2>1, <2>3 DEF Counted, Lost, Exposed, LetThrough, Executing
  <2> QED  BY <1>0, <2>1, <2>4, RoomKept
<1>17. ASSUME NEW c \in Commands, LandLate(c) PROVE Room'
  <2>1. /\ positions' = positions \cup {c} /\ late' = late \cup {c} /\ kind' = kind
        /\ UNCHANGED <<stage, limits, abandoned, misled, traded, losing>>
    BY <1>17 DEF LandLate, session
  <2>2. /\ Counted' = Counted /\ Lost' = Lost /\ Exposed' \subseteq Exposed
        /\ \A d \in Commands : LetThrough(d)' = LetThrough(d)
    BY <2>1 DEF Counted, Lost, Exposed, LetThrough
  <2> QED  BY <1>0, <2>1, <2>2, RoomKept
<1>18. ASSUME (\E line \in {"yes", "no"} : TypeAhead(line)) \/ IdleTimeout \/ UNCHANGED vars PROVE Room'
  BY <1>2, <1>18 DEF TypeAhead, IdleTimeout, vars
<1> QED
  BY <1>1, <1>3, <1>4, <1>5, <1>6, <1>7, <1>8, <1>9, <1>10, <1>11, <1>12, <1>13, <1>14,
     <1>15, <1>16, <1>17, <1>18, RoomSucceeds DEF Next, Step, Background

-----------------------------------------------------------------------------
\* Theorems

LEMMA Initially == Init => IInv
<1> SUFFICES ASSUME Init PROVE IInv
  OBVIOUS
<1>1. TypeOK
  BY TypeInit
<1>2. OneRunning /\ PendingAsks /\ WalletTrue
  BY DEF Init, OneRunning, PendingAsks, WalletTrue, Awaited, Executing
<1>3. FiniteSets
  BY FS_EmptySet DEF Init, FiniteSets
<1>4. Room
  <2>1. Counted = {} /\ Lost = {} /\ Exposed = {} /\ \A c \in Commands : ~LetThrough(c)
    BY DEF Init, Counted, Lost, Exposed, LetThrough, Executing
  <2>2. limits.trades = 0 /\ limits.loss = 0
    BY DEF Init, NewLimits
  <2>3. Cardinality(Counted) = 0 /\ Cardinality(Lost) = 0 /\ Cardinality(Exposed) = 0
    BY <2>1, FS_EmptySet
  <2>4. Limits.maxTrades \in Nat /\ Limits.maxLoss \in Nat /\ MaxExposure \in Nat
    BY TerminalAssumption DEF TerminalAssumption
  <2> QED  BY <2>1, <2>2, <2>3, <2>4 DEF Room
<1> QED  BY <1>1, <1>2, <1>3, <1>4 DEF IInv

LEMMA Inductive == IInv /\ [Next]_vars => IInv'
BY TypeStep, RunStep, PendingStep, WalletStep, FiniteStep, RoomStep DEF IInv

LEMMA InvHolds == Spec => []IInv
BY Initially, Inductive, PTL DEF Spec

\* The terminal's state keeps its type (FlashTerminal).
THEOREM TypeCorrect == Spec => []TypeOK
<1>1. IInv => TypeOK
  BY DEF IInv
<1> QED  BY <1>1, InvHolds, PTL

\* In live mode nobody consents to what is not on the screen yet (confirm()).
THEOREM ConfirmedAfterShownHolds == Spec => []ConfirmedAfterShown
<1>1. Init => ConfirmedAfterShown
  BY DEF Init, ConfirmedAfterShown
<1>2. ConfirmedAfterShown /\ TypeOK /\ [Next]_vars => ConfirmedAfterShown'
  <2> SUFFICES ASSUME ConfirmedAfterShown, TypeOK, [Next]_vars PROVE ConfirmedAfterShown'
    OBVIOUS
  <2>1. ASSUME UNCHANGED <<mode, blind>> PROVE ConfirmedAfterShown'
    BY <2>1 DEF ConfirmedAfterShown
  <2>2. ASSUME NEW c \in Commands, Parsed(c) PROVE ConfirmedAfterShown'
    BY <2>2, AskTrue DEF Parsed, ConfirmedAfterShown, session
  <2>3. ASSUME NEW c \in Commands, Summarize(c) PROVE ConfirmedAfterShown'
    BY <2>3, AskTrue DEF Summarize, Consent, ConfirmedAfterShown, session
  <2>4. \/ UNCHANGED <<mode, blind>>
        \/ \E c \in Commands : Parsed(c) \/ Summarize(c)
    BY DEF Next, Step, Background, Answer, TypeAhead, TypeCommand, TypeExit, Deadline, Begin, Rebuild,
           ExposureKnown, Execute, GiveUpDispatch, GiveUp, End, Send, Fail, Unsure, LandLate, Succeed,
           Answered, IdleTimeout, vars, consent, session
  <2> QED  BY <2>1, <2>2, <2>3, <2>4
<1> QED  BY <1>1, <1>2, TypeCorrect, PTL DEF Spec

\* One trade at a time is between consent and answer, but for those given up on
\* (the `processing` flag and withTimeout).
THEOREM OneExecutionHolds == Spec => []OneExecution
<1>1. IInv => OneExecution
  <2> SUFFICES ASSUME IInv PROVE OneExecution
    OBVIOUS
  <2>1. Agreed \ abandoned \subseteq {running}
    BY DEF IInv, OneRunning, Agreed, Awaited, Executing
  <2>2. IsFiniteSet({running}) /\ Cardinality({running}) = 1
    BY FS_Singleton
  <2>3. Cardinality(Agreed \ abandoned) <= 1
    BY <2>1, <2>2, Shrinks
  <2> QED  BY <2>3 DEF OneExecution
<1> QED  BY <1>1, InvHolds, PTL

\* The session's limits hold but for what was given up on (check(), recordOpen(),
\* recordTrade()).
THEOREM LimitsAreKept == Spec => []LimitsHold
<1>1. IInv => LimitsHold
  <2> SUFFICES ASSUME IInv PROVE LimitsHold
    OBVIOUS
  <2>1. Limits.maxTrades \in Nat /\ Limits.maxLoss \in Nat
    BY TerminalAssumption DEF TerminalAssumption
  <2>2. /\ IsFiniteSet(abandoned) /\ IsFiniteSet(traded) /\ IsFiniteSet(losing)
        /\ IsFiniteSet(Counted) /\ IsFiniteSet(Lost)
    BY FS_Subset DEF IInv, FiniteSets, Counted, Lost
  <2>3. /\ Cardinality(abandoned) \in Nat /\ Cardinality(traded) \in Nat /\ Cardinality(losing) \in Nat
        /\ Cardinality(Counted) \in Nat /\ Cardinality(Lost) \in Nat
    BY <2>2, FS_CardinalityType
  <2>4. /\ Cardinality(traded) <= Cardinality(Counted) + Cardinality(abandoned)
        /\ Cardinality(losing) <= Cardinality(Lost) + Cardinality(abandoned)
    BY <2>2, Parts DEF Counted, Lost
  <2>5. /\ Limits.maxTrades > 0 => Cardinality(Counted) <= Limits.maxTrades
        /\ Limits.maxLoss > 0 => Cardinality(Lost) <= Limits.maxLoss
    BY DEF IInv, Room
  <2> QED  BY <2>1, <2>3, <2>4, <2>5 DEF LimitsHold
<1> QED  BY <1>1, InvHolds, PTL

\* The exposure limit holds but for what was given up on, landed late or was let
\* through on an answer that showed too few positions (checkExposure()).
THEOREM ExposureIsKept == Spec => []ExposureHolds
<1>1. IInv => ExposureHolds
  <2> SUFFICES ASSUME IInv, MaxExposure > 0
               PROVE  Cardinality(positions) <= MaxExposure + Cardinality(abandoned \cup late \cup misled)
    BY DEF ExposureHolds
  <2> DEFINE let == abandoned \cup late \cup misled
  <2>1. IsFiniteSet(positions) /\ IsFiniteSet(let) /\ IsFiniteSet(positions \ let)
    BY FS_Union, FS_Subset DEF IInv, FiniteSets
  <2>2. Cardinality(positions) <= Cardinality(positions \ let) + Cardinality(let)
    BY <2>1, Parts
  <2>3. /\ Cardinality(positions) \in Nat /\ Cardinality(let) \in Nat
        /\ Cardinality(positions \ let) \in Nat /\ MaxExposure \in Nat
    BY <2>1, FS_CardinalityType, TerminalAssumption DEF TerminalAssumption
  <2>4. Cardinality(positions \ let) <= MaxExposure
    BY DEF IInv, Room, Exposed
  <2> HIDE DEF let
  <2>5. Cardinality(positions) <= MaxExposure + Cardinality(let)
    BY <2>2, <2>3, <2>4
  <2> QED  BY <2>5 DEF let
<1> QED  BY <1>1, InvHolds, PTL

\* Without --key, and as long as every wallet that was switched to got its client, the
\* wallet that signs a trade is the one its summary showed.
THEOREM SignedAsShownHolds == Spec => []SignedAsShown
<1>1. IInv => SignedAsShown
  BY DEF IInv, WalletTrue, SignedAsShown, Sent, Executing
<1> QED  BY <1>1, InvHolds, PTL

=============================================================================
