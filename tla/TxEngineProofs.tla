--------------------------- MODULE TxEngineProofs ---------------------------
(***************************************************************************)
(* What TxEngine guarantees for every number of submissions and attempts.  *)
(*                                                                         *)
(* The invariant behind it: an attempt that was not made yet has sent      *)
(* nothing (Unsent), so that a broadcast never overwrites what is known of *)
(* an earlier transaction; a result is there exactly when the submission   *)
(* is over (Answered); the engine's guard names the one submission of the  *)
(* engine that is in its loop (Guarded); and a rejected simulation ended   *)
(* its submission before anything was sent (RejectedOver).                 *)
(***************************************************************************)
EXTENDS TxEngine, TLAPS

Unsent ==
  \A s \in Submissions, a \in Attempts :
    a > attempt[s] \/ (a = attempt[s] /\ stage[s] \in {"building", "checking"})
      => tx[s][a] = "none"

Answered == \A s \in Submissions : result[s] # Pending <=> stage[s] = "over"

\* Where a submission is, its counters agree.
Counted ==
  \A s \in Submissions :
    /\ stage[s] = "idle" => attempt[s] = 0
    /\ stage[s] \in InLoop => attempt[s] > 0
    /\ stage[s] = "checking" => last[s] > 0
    /\ stage[s] = "sharing" => shared[s] \in Submissions

Guarded ==
  /\ OneAtATime
  /\ current \notin Direct

RejectedOver ==
  \A s \in Submissions \ Direct :
    rejected[s] => stage[s] = "over" /\ \A a \in Attempts : tx[s][a] = "none"

IInv == /\ TypeOK /\ Unsent /\ Answered /\ Counted
        /\ Guarded /\ RejectedOver /\ SuccessLanded

-----------------------------------------------------------------------------
\* The kinds of results differ, and a signature names its attempt.
LEMMA ResultTypes ==
  /\ Pending \in Results /\ Failed \in Results /\ Failed # Pending
  /\ Pending.kind # "signature" /\ Failed.kind # "signature"
  /\ \A s \in Submissions, a \in Attempts :
       /\ Signature(s, a) \in Results /\ Signature(s, a) # Pending
       /\ Signature(s, a).of = s /\ Signature(s, a).attempt = a
  /\ \A r \in Results : r.kind = "signature" => r.of \in Submissions /\ r.attempt \in Attempts
<1>1. Pending.kind = "pending" /\ Failed.kind = "failed"
  BY DEF Pending, Failed
<1>2. \A s, a : /\ Signature(s, a).kind = "signature"
                /\ Signature(s, a).of = s /\ Signature(s, a).attempt = a
  BY DEF Signature
<1>3. Pending \in Results /\ Failed \in Results
  BY DEF Results
<1>4. \A s \in Submissions, a \in Attempts : Signature(s, a) \in Results
  BY DEF Results
<1>5. ASSUME NEW r \in Results, r.kind = "signature"
      PROVE  r.of \in Submissions /\ r.attempt \in Attempts
  <2>1. PICK s \in Submissions, a \in Attempts : r = Signature(s, a)
    BY <1>1, <1>5 DEF Results
  <2>2. QED BY <2>1, <1>2
<1>6. Failed # Pending /\ \A s, a : Signature(s, a) # Pending
  BY <1>1, <1>2
<1> QED BY <1>1, <1>2, <1>3, <1>4, <1>5, <1>6

LEMMA InitInv == Init => IInv
<1> SUFFICES ASSUME Init PROVE IInv
  OBVIOUS
<1> USE SubmissionAssumption, ResultTypes DEF Init
<1>1. TypeOK
  BY DEF TypeOK, Stages, Attempts, ChainStates
<1>2. Unsent /\ Answered /\ Counted
  BY DEF Unsent, Answered, Counted, InLoop
<1>3. Guarded /\ RejectedOver /\ SuccessLanded
  BY DEF Guarded, OneAtATime, RejectedOver, SuccessLanded, InLoop
<1> QED BY <1>1, <1>2, <1>3 DEF IInv

-----------------------------------------------------------------------------
(* What a step of submission s may do to the chain and to the history.          *)

\* Nothing but the transaction of the current attempt changes, and no landed one.
SendsOnly(s) ==
  /\ tx' \in [Submissions -> [Attempts -> ChainStates]]
  /\ \A u \in Submissions, a \in Attempts :
       /\ ~(u = s /\ a = attempt[s]) => tx'[u][a] = tx[u][a]
       /\ tx[u][a] = "landed" => tx'[u][a] = "landed"

LEMMA NothingSent ==
  ASSUME TypeOK, UNCHANGED tx, NEW s \in Submissions PROVE SendsOnly(s)
BY DEF TypeOK, SendsOnly

\* A broadcast is the first its attempt makes.
LEMMA FirstSent ==
  ASSUME TypeOK, Unsent, Counted, NEW s \in Submissions, stage[s] = "building",
         tx' = [tx EXCEPT ![s][attempt[s]] = "inflight"]
  PROVE  SendsOnly(s)
<1>1. attempt[s] \in Attempts
  BY SubmissionAssumption DEF TypeOK, Counted, InLoop, Attempts
<1>2. tx[s][attempt[s]] = "none"
  BY <1>1 DEF Unsent
<1>3. tx[s] \in [Attempts -> ChainStates] /\ "inflight" \in ChainStates
  BY DEF TypeOK, ChainStates
<1>4. tx' = [tx EXCEPT ![s] = [tx[s] EXCEPT ![attempt[s]] = "inflight"]]
  OBVIOUS
<1>5. [tx[s] EXCEPT ![attempt[s]] = "inflight"] \in [Attempts -> ChainStates]
  BY <1>3
<1>6. tx' \in [Submissions -> [Attempts -> ChainStates]]
  BY <1>4, <1>5 DEF TypeOK
<1>7. ASSUME NEW u \in Submissions, NEW a \in Attempts
      PROVE  /\ ~(u = s /\ a = attempt[s]) => tx'[u][a] = tx[u][a]
             /\ tx[u][a] = "landed" => tx'[u][a] = "landed"
  BY <1>1, <1>2, <1>3, <1>4 DEF TypeOK
<1> QED BY <1>6, <1>7 DEF SendsOnly

\* Only a submission without the engine goes on after a rejected simulation, and the
\* engine's has sent nothing.
NotesOnly(s) ==
  \/ UNCHANGED rejected
  \/ /\ rejected' = [rejected EXCEPT ![s] = TRUE]
     /\ s \in Direct \/ (stage'[s] = "over" /\ \A a \in Attempts : tx'[s][a] = "none")

\* A submission that is in its loop, or sharing, is told r.
LEMMA FinishInv ==
  ASSUME IInv, NEW s \in Submissions, NEW r \in Results, r # Pending,
         stage[s] \in InLoop \union {"sharing"}, Finish(s, r), UNCHANGED <<last, shared>>,
         SendsOnly(s), NotesOnly(s),
         r.kind = "signature" => tx[r.of][r.attempt] = "landed"
  PROVE  IInv'
<1>1. /\ TypeOK /\ Unsent /\ Answered /\ Counted /\ Guarded /\ RejectedOver /\ SuccessLanded
      /\ last' = last /\ shared' = shared
  BY DEF IInv
<1>2. /\ stage' = [stage EXCEPT ![s] = "over"] /\ result' = [result EXCEPT ![s] = r]
      /\ current' = IF current = s THEN NoSubmission ELSE current
      /\ attempt' = attempt
  BY DEF Finish, MoveTo
<1>3. stage' \in [Submissions -> Stages] /\ result' \in [Submissions -> Results]
  BY <1>1, <1>2 DEF TypeOK, Stages
<1>4. rejected' \in [Submissions -> BOOLEAN]
  BY <1>1 DEF TypeOK, NotesOnly
<1>5. current' \in Submissions \union {NoSubmission}
  BY <1>1, <1>2 DEF TypeOK
<1>6. TypeOK'
  BY <1>1, <1>2, <1>3, <1>4, <1>5 DEF TypeOK, SendsOnly
<1>7. \A u \in Submissions : u # s => stage'[u] = stage[u] /\ result'[u] = result[u]
  BY <1>1, <1>2 DEF TypeOK
<1>8. stage'[s] = "over" /\ result'[s] = r
  BY <1>1, <1>2 DEF TypeOK
<1>9. Unsent'
  BY <1>1, <1>2, <1>7, <1>8 DEF Unsent, SendsOnly, TypeOK, Attempts
<1>10. Answered' /\ Counted'
  BY <1>1, <1>2, <1>7, <1>8 DEF Answered, Counted, InLoop
<1>11. Guarded'
  BY <1>1, <1>2, <1>7, <1>8, SubmissionAssumption DEF Guarded, OneAtATime, InLoop, TypeOK
<1>12. RejectedOver'
  <2> SUFFICES ASSUME NEW u \in Submissions \ Direct, rejected'[u]
               PROVE  stage'[u] = "over" /\ \A a \in Attempts : tx'[u][a] = "none"
    BY DEF RejectedOver
  <2>1. CASE u = s
    BY <1>1, <1>2, <2>1 DEF RejectedOver, NotesOnly, InLoop
  <2>2. CASE u # s
    BY <1>1, <1>7, <2>2 DEF RejectedOver, NotesOnly, SendsOnly, TypeOK
  <2> QED BY <2>1, <2>2
<1>13. SuccessLanded'
  BY <1>1, <1>7, <1>8, ResultTypes DEF SuccessLanded, SendsOnly, TypeOK
<1> QED BY <1>6, <1>9, <1>10, <1>11, <1>12, <1>13 DEF IInv

\* A submission goes on in its loop: its next attempt, its broadcast is awaited, or
\* its late detection found nothing.
Loops(s) ==
  /\ stage' = [stage EXCEPT ![s] = stage'[s]] /\ stage'[s] \in InLoop
  /\ attempt' = [attempt EXCEPT ![s] = attempt'[s]] /\ attempt'[s] \in Attempts
  /\ attempt'[s] >= attempt[s]
  /\ stage'[s] = "building" /\ attempt'[s] = attempt[s] => stage[s] = "checking" /\ UNCHANGED tx
  /\ stage'[s] = "checking" => attempt'[s] > attempt[s] /\ last'[s] > 0
  /\ UNCHANGED <<result, current, shared>>

LEMMA LoopInv ==
  ASSUME IInv, NEW s \in Submissions, stage[s] \in InLoop, Loops(s),
         last' \in [Submissions -> 0..MaxAttempts],
         \A u \in Submissions : u # s => last'[u] = last[u],
         SendsOnly(s), NotesOnly(s)
  PROVE  IInv'
<1>1. TypeOK /\ Unsent /\ Answered /\ Counted /\ Guarded /\ RejectedOver /\ SuccessLanded
  BY DEF IInv
<1>2. result' = result /\ current' = current /\ shared' = shared
  BY DEF Loops
<1>3. \A u \in Submissions : u # s => stage'[u] = stage[u] /\ attempt'[u] = attempt[u]
  BY <1>1 DEF TypeOK, Loops
<1>4. stage' \in [Submissions -> Stages] /\ attempt' \in [Submissions -> 0..MaxAttempts]
  <2>1. stage'[s] \in Stages /\ attempt'[s] \in 0..MaxAttempts
    BY SubmissionAssumption DEF Loops, InLoop, Stages, Attempts
  <2>2. stage' \in [Submissions -> Stages]
    <3> DEFINE st == stage'[s]
    <3>1. stage' = [stage EXCEPT ![s] = st] /\ st \in Stages
      BY <2>1 DEF Loops
    <3> HIDE DEF st
    <3> QED BY <1>1, <3>1 DEF TypeOK
  <2>3. attempt' \in [Submissions -> 0..MaxAttempts]
    <3> DEFINE at == attempt'[s]
    <3>1. attempt' = [attempt EXCEPT ![s] = at] /\ at \in 0..MaxAttempts
      BY <2>1 DEF Loops
    <3> HIDE DEF at
    <3> QED BY <1>1, <3>1 DEF TypeOK
  <2> QED BY <2>2, <2>3
<1>5. rejected' \in [Submissions -> BOOLEAN]
  BY <1>1 DEF TypeOK, NotesOnly
<1>6. TypeOK'
  BY <1>1, <1>2, <1>4, <1>5 DEF TypeOK, SendsOnly
<1>7. Unsent'
  <2> SUFFICES ASSUME NEW u \in Submissions, NEW a \in Attempts,
                      \/ a > attempt'[u]
                      \/ a = attempt'[u] /\ stage'[u] \in {"building", "checking"}
               PROVE  tx'[u][a] = "none"
    BY DEF Unsent
  <2>1. CASE u # s
    BY <1>1, <1>3, <2>1 DEF Unsent, SendsOnly
  <2>2. CASE u = s
    <3>1. attempt[s] \in 0..MaxAttempts /\ attempt'[s] \in Attempts /\ a \in Nat
      BY <1>1 DEF TypeOK, Loops, Attempts
    <3>2. CASE a > attempt[s]
      BY <1>1, <2>2, <3>1, <3>2 DEF Unsent, SendsOnly
    <3>3. CASE a = attempt[s]
      BY <1>1, <2>2, <3>1, <3>3 DEF Unsent, Loops, Attempts
    <3> QED BY <2>2, <3>1, <3>2, <3>3 DEF Loops, Attempts
  <2> QED BY <2>1, <2>2
<1>8. Answered'
  BY <1>1, <1>2, <1>3 DEF Answered, Loops, InLoop
<1>9. Counted'
  BY <1>1, <1>2, <1>3 DEF Counted, Loops, InLoop, Attempts
<1>10. Guarded'
  BY <1>1, <1>2, <1>3 DEF Guarded, OneAtATime, Loops
<1>11. RejectedOver'
  <2> SUFFICES ASSUME NEW u \in Submissions \ Direct, rejected'[u]
               PROVE  stage'[u] = "over" /\ \A a \in Attempts : tx'[u][a] = "none"
    BY DEF RejectedOver
  <2>1. CASE u = s
    BY <1>1, <2>1 DEF RejectedOver, NotesOnly, InLoop, Loops
  <2>2. CASE u # s
    BY <1>1, <1>3, <2>2 DEF RejectedOver, NotesOnly, SendsOnly, TypeOK
  <2> QED BY <2>1, <2>2
<1>12. SuccessLanded'
  BY <1>1, <1>2, ResultTypes DEF SuccessLanded, SendsOnly, TypeOK
<1> QED BY <1>6, <1>7, <1>8, <1>9, <1>10, <1>11, <1>12 DEF IInv

\* The head of the loop, after an attempt that is given up.
LEMMA NextAttemptInv ==
  ASSUME IInv, NEW s \in Submissions, stage[s] \in InLoop, NextAttempt(s),
         UNCHANGED <<last, shared>>, SendsOnly(s),
         \/ UNCHANGED rejected
         \/ rejected' = [rejected EXCEPT ![s] = TRUE] /\ s \in Direct
  PROVE  IInv'
<1>1. TypeOK /\ last' = last /\ NotesOnly(s)
  BY DEF IInv, NotesOnly
<1>2. CASE attempt[s] < MaxAttempts
  <2>1. attempt[s] \in 0..MaxAttempts
    BY <1>1 DEF TypeOK
  <2>2. /\ attempt' = [attempt EXCEPT ![s] = attempt[s] + 1]
        /\ stage' = [stage EXCEPT ![s] = IF last'[s] > 0 THEN "checking" ELSE "building"]
        /\ UNCHANGED <<result, current>>
    BY <1>2 DEF NextAttempt, MoveTo
  <2>3. /\ attempt'[s] = attempt[s] + 1
        /\ stage'[s] = IF last'[s] > 0 THEN "checking" ELSE "building"
    BY <1>1, <2>2 DEF TypeOK
  <2>4. /\ stage' = [stage EXCEPT ![s] = stage'[s]]
        /\ attempt' = [attempt EXCEPT ![s] = attempt'[s]]
    BY <2>2, <2>3
  <2>5. /\ attempt'[s] \in Attempts /\ attempt'[s] > attempt[s] /\ attempt'[s] >= attempt[s]
        /\ attempt'[s] # attempt[s]
    BY <1>2, <2>1, <2>3, SubmissionAssumption DEF Attempts
  <2>6. Loops(s)
    BY <2>2, <2>3, <2>4, <2>5 DEF Loops, InLoop
  <2>7. last' \in [Submissions -> 0..MaxAttempts] /\ \A u \in Submissions : last'[u] = last[u]
    BY <1>1 DEF TypeOK
  <2> QED BY <1>1, <2>6, <2>7, LoopInv
<1>3. CASE ~(attempt[s] < MaxAttempts)
  <2>1. Finish(s, Failed)
    BY <1>3 DEF NextAttempt
  <2> QED BY <1>1, <2>1, FinishInv, ResultTypes
<1> QED BY <1>2, <1>3

\* A transaction in flight lands or fails; that of an attempt not made is not in flight.
LEMMA SettleInv ==
  ASSUME IInv, NEW s \in Submissions, NEW a \in Attempts, Settle(s, a)
  PROVE  IInv'
<1>1. /\ TypeOK /\ Unsent /\ Answered /\ Counted /\ Guarded /\ RejectedOver /\ SuccessLanded
      /\ UNCHANGED <<stage, attempt, last, result, rejected, current, shared>>
  BY DEF IInv, Settle
<1>2. PICK outcome \in {"landed", "erred"} : tx' = [tx EXCEPT ![s][a] = outcome]
  BY DEF Settle
<1>3. tx[s] \in [Attempts -> ChainStates] /\ outcome \in ChainStates /\ tx[s][a] = "inflight"
  BY <1>1 DEF TypeOK, ChainStates, Settle
<1>4. tx' = [tx EXCEPT ![s] = [tx[s] EXCEPT ![a] = outcome]]
  BY <1>2
<1>5. [tx[s] EXCEPT ![a] = outcome] \in [Attempts -> ChainStates]
  BY <1>3
<1>6. tx' \in [Submissions -> [Attempts -> ChainStates]]
  BY <1>1, <1>4, <1>5 DEF TypeOK
<1>7. \A u \in Submissions, b \in Attempts : tx[u][b] # "inflight" => tx'[u][b] = tx[u][b]
  BY <1>1, <1>3, <1>4 DEF TypeOK
<1>8. TypeOK'
  BY <1>1, <1>6 DEF TypeOK
<1>9. Unsent' /\ Answered' /\ Counted'
  BY <1>1, <1>7 DEF Unsent, Answered, Counted
<1>10. Guarded' /\ RejectedOver'
  BY <1>1, <1>7 DEF Guarded, OneAtATime, RejectedOver
<1>11. SuccessLanded'
  <2> SUFFICES ASSUME NEW u \in Submissions, result[u].kind = "signature"
               PROVE  tx'[result[u].of][result[u].attempt] = "landed"
    BY <1>1 DEF SuccessLanded
  <2>1. result[u].of \in Submissions /\ result[u].attempt \in Attempts
    BY <1>1, ResultTypes DEF TypeOK
  <2>2. tx[result[u].of][result[u].attempt] = "landed"
    BY <1>1 DEF SuccessLanded
  <2> QED BY <1>7, <2>1, <2>2
<1> QED BY <1>8, <1>9, <1>10, <1>11 DEF IInv

\* A call starts its loop, or joins the one in progress.
LEMMA SubmitInv ==
  ASSUME IInv, NEW s \in Submissions, Submit(s)
  PROVE  IInv'
<1>1. /\ TypeOK /\ Unsent /\ Answered /\ Counted /\ Guarded /\ RejectedOver /\ SuccessLanded
      /\ UNCHANGED <<last, tx, result, rejected>> /\ stage[s] = "idle"
  BY DEF IInv, Submit
<1>2. RejectedOver' /\ SuccessLanded'
  <2>1. \A u \in Submissions : stage[u] = "over" => stage'[u] = "over"
    BY <1>1 DEF TypeOK, Submit, MoveTo
  <2> QED BY <1>1, <2>1 DEF RejectedOver, SuccessLanded
<1>3. CASE s \in Direct \/ current = NoSubmission
  <2>1. /\ stage' = [stage EXCEPT ![s] = "building"] /\ attempt' = [attempt EXCEPT ![s] = 1]
        /\ current' = IF s \in Direct THEN current ELSE s
        /\ shared' = shared
    BY <1>3 DEF Submit, MoveTo
  <2>2. 1 \in 0..MaxAttempts
    BY SubmissionAssumption
  <2>3. TypeOK'
    BY <1>1, <2>1, <2>2 DEF TypeOK, Stages
  <2>4. /\ stage'[s] = "building" /\ attempt'[s] = 1
        /\ \A u \in Submissions : u # s => stage'[u] = stage[u] /\ attempt'[u] = attempt[u]
    BY <1>1, <2>1 DEF TypeOK
  <2>5. Unsent'
    <3> SUFFICES ASSUME NEW u \in Submissions, NEW a \in Attempts,
                        \/ a > attempt'[u]
                        \/ a = attempt'[u] /\ stage'[u] \in {"building", "checking"}
                 PROVE  tx[u][a] = "none"
      BY <1>1 DEF Unsent
    <3>1. CASE u # s
      BY <1>1, <2>4, <3>1 DEF Unsent
    <3>2. CASE u = s
      BY <1>1, <3>2 DEF Unsent, Counted, Attempts
    <3> QED BY <3>1, <3>2
  <2>6. Answered' /\ Counted'
    BY <1>1, <2>1, <2>4 DEF Answered, Counted, InLoop
  <2>7. Guarded'
    BY <1>1, <1>3, <2>1, <2>4, SubmissionAssumption DEF Guarded, OneAtATime, InLoop
  <2> QED BY <1>2, <2>3, <2>5, <2>6, <2>7 DEF IInv
<1>4. CASE ~(s \in Direct \/ current = NoSubmission)
  <2>1. /\ stage' = [stage EXCEPT ![s] = "sharing"] /\ shared' = [shared EXCEPT ![s] = current]
        /\ UNCHANGED <<attempt, current>>
    BY <1>4 DEF Submit, MoveTo
  <2>2. current \in Submissions /\ current # s
    BY <1>1, <1>4 DEF TypeOK, Guarded, OneAtATime, InLoop
  <2>3. TypeOK'
    BY <1>1, <2>1, <2>2 DEF TypeOK, Stages
  <2>4. /\ stage'[s] = "sharing" /\ shared'[s] = current
        /\ \A u \in Submissions : u # s => stage'[u] = stage[u] /\ shared'[u] = shared[u]
    BY <1>1, <2>1 DEF TypeOK
  <2>5. Unsent' /\ Answered' /\ Counted'
    BY <1>1, <2>1, <2>2, <2>4 DEF Unsent, Answered, Counted, InLoop
  <2>6. Guarded'
    BY <1>1, <2>1, <2>2, <2>4 DEF Guarded, OneAtATime, InLoop
  <2> QED BY <1>2, <2>3, <2>5, <2>6 DEF IInv
<1> QED BY <1>3, <1>4

LEMMA StepInv ==
  ASSUME IInv, NEW s \in Submissions, Step(s)
  PROVE  IInv'
<1>1. TypeOK /\ Unsent /\ Counted /\ SuccessLanded /\ RejectedOver
  BY DEF IInv
<1>2. CASE Share(s)
  <2>1. /\ stage[s] = "sharing" /\ result[shared[s]] # Pending
        /\ Finish(s, result[shared[s]]) /\ UNCHANGED <<last, tx, rejected, shared>>
    BY <1>2 DEF Share
  <2>2. shared[s] \in Submissions
    BY <1>1, <2>1 DEF Counted
  <2>3. /\ result[shared[s]] \in Results
        /\ result[shared[s]].kind = "signature" =>
             tx[result[shared[s]].of][result[shared[s]].attempt] = "landed"
    BY <1>1, <2>2 DEF TypeOK, SuccessLanded
  <2>4. SendsOnly(s) /\ NotesOnly(s)
    BY <1>1, <2>1, NothingSent DEF NotesOnly
  <2> QED BY <2>1, <2>3, <2>4, FinishInv
<1>3. CASE LateDetection(s)
  <2>1. /\ stage[s] \in InLoop /\ tx[s][last[s]] = "landed" /\ last[s] \in Attempts
        /\ Finish(s, Signature(s, last[s])) /\ UNCHANGED <<last, tx, rejected, shared>>
    BY <1>1, <1>3 DEF LateDetection, SeenLanded, InLoop, Counted, TypeOK, Attempts
  <2>2. SendsOnly(s) /\ NotesOnly(s)
    BY <1>1, <2>1, NothingSent DEF NotesOnly
  <2> QED BY <2>1, <2>2, FinishInv, ResultTypes
<1>4. CASE NotDetected(s)
  <2>1. /\ stage[s] = "checking" /\ stage' = [stage EXCEPT ![s] = "building"]
        /\ UNCHANGED <<attempt, last, tx, result, rejected, current, shared>>
    BY <1>4 DEF NotDetected, MoveTo
  <2>2. stage'[s] = "building" /\ attempt[s] \in Attempts
    BY <1>1, <2>1, SubmissionAssumption DEF TypeOK, Counted, InLoop, Attempts
  <2>3. /\ stage' = [stage EXCEPT ![s] = stage'[s]]
        /\ attempt' = [attempt EXCEPT ![s] = attempt'[s]]
    BY <1>1, <2>1, <2>2 DEF TypeOK
  <2>4. Loops(s)
    BY <2>1, <2>2, <2>3 DEF Loops, InLoop, Attempts
  <2>5. SendsOnly(s) /\ NotesOnly(s)
    BY <1>1, <2>1, NothingSent DEF NotesOnly
  <2>6. /\ last' \in [Submissions -> 0..MaxAttempts] /\ stage[s] \in InLoop
        /\ \A u \in Submissions : last'[u] = last[u]
    BY <1>1, <2>1 DEF TypeOK, InLoop
  <2> QED BY <2>4, <2>5, <2>6, LoopInv
<1>5. CASE SimulationRejects(s)
  <2>1. /\ stage[s] = "building" /\ attempt[s] = 1 /\ UNCHANGED <<last, tx, shared>>
        /\ rejected' = [rejected EXCEPT ![s] = TRUE] /\ SendsOnly(s) /\ stage[s] \in InLoop
    BY <1>1, <1>5, NothingSent DEF SimulationRejects, InLoop
  <2>2. CASE s \in Direct
    <3>1. NextAttempt(s)
      BY <1>5, <2>2 DEF SimulationRejects
    <3> QED BY <2>1, <2>2, <3>1, NextAttemptInv
  <2>3. CASE s \notin Direct
    <3>1. Finish(s, Failed)
      BY <1>5, <2>3 DEF SimulationRejects
    <3>2. stage'[s] = "over" /\ \A a \in Attempts : tx'[s][a] = "none"
      BY <1>1, <2>1, <3>1 DEF Finish, MoveTo, TypeOK, Unsent, Attempts
    <3> QED BY <2>1, <3>1, <3>2, FinishInv, ResultTypes DEF NotesOnly
  <2> QED BY <2>2, <2>3
<1>6. CASE BuildFails(s)
  BY <1>1, <1>6, NothingSent, NextAttemptInv DEF BuildFails, InLoop
<1>7. CASE Broadcast(s)
  <2>1. /\ stage[s] = "building" /\ stage' = [stage EXCEPT ![s] = "waiting"]
        /\ tx' = [tx EXCEPT ![s][attempt[s]] = "inflight"]
        /\ last' = [last EXCEPT ![s] = attempt[s]]
        /\ UNCHANGED <<attempt, result, rejected, current, shared>>
    BY <1>7 DEF Broadcast, MoveTo
  <2>2. stage'[s] = "waiting" /\ attempt[s] \in Attempts /\ attempt[s] \in 0..MaxAttempts
    BY <1>1, <2>1, SubmissionAssumption DEF TypeOK, Counted, InLoop, Attempts
  <2>3. /\ stage' = [stage EXCEPT ![s] = stage'[s]]
        /\ attempt' = [attempt EXCEPT ![s] = attempt'[s]]
    BY <1>1, <2>1, <2>2 DEF TypeOK
  <2>4. Loops(s)
    BY <2>1, <2>2, <2>3 DEF Loops, InLoop, Attempts
  <2>5. SendsOnly(s) /\ NotesOnly(s) /\ stage[s] \in InLoop
    BY <1>1, <2>1, FirstSent DEF NotesOnly, InLoop
  <2>6. /\ last' \in [Submissions -> 0..MaxAttempts]
        /\ \A u \in Submissions : u # s => last'[u] = last[u]
    BY <1>1, <2>1, <2>2 DEF TypeOK
  <2> QED BY <2>4, <2>5, <2>6, LoopInv
<1>8. CASE BroadcastFails(s)
  <2>1. SendsOnly(s)
    BY <1>1, <1>8, NothingSent, FirstSent DEF BroadcastFails
  <2> QED BY <1>8, <2>1, NextAttemptInv DEF BroadcastFails, InLoop
<1>9. CASE Confirm(s)
  <2>1. /\ stage[s] \in InLoop /\ tx[s][attempt[s]] = "landed" /\ attempt[s] \in Attempts
        /\ Finish(s, Signature(s, attempt[s])) /\ UNCHANGED <<last, tx, rejected, shared>>
    BY <1>1, <1>9, SubmissionAssumption DEF Confirm, SeenLanded, InLoop, Counted, TypeOK, Attempts
  <2>2. SendsOnly(s) /\ NotesOnly(s)
    BY <1>1, <2>1, NothingSent DEF NotesOnly
  <2> QED BY <2>1, <2>2, FinishInv, ResultTypes
<1>10. CASE FailsOnChain(s)
  <2>1. /\ stage[s] \in InLoop /\ Finish(s, Failed) /\ UNCHANGED <<last, tx, rejected, shared>>
    BY <1>10 DEF FailsOnChain, InLoop
  <2>2. SendsOnly(s) /\ NotesOnly(s)
    BY <1>1, <2>1, NothingSent DEF NotesOnly
  <2> QED BY <2>1, <2>2, FinishInv, ResultTypes
<1>11. CASE TimesOut(s)
  BY <1>1, <1>11, NothingSent, NextAttemptInv DEF TimesOut, InLoop
<1> QED BY <1>2, <1>3, <1>4, <1>5, <1>6, <1>7, <1>8, <1>9, <1>10, <1>11 DEF Step

LEMMA NextInv == IInv /\ [Next]_vars => IInv'
<1> SUFFICES ASSUME IInv, [Next]_vars PROVE IInv'
  OBVIOUS
<1>1. CASE UNCHANGED vars
  BY <1>1 DEF IInv, vars, TypeOK, Unsent, Answered, Counted, Guarded, OneAtATime,
              RejectedOver, SuccessLanded
<1>2. CASE Next
  BY <1>2, SubmitInv, StepInv, SettleInv DEF Next
<1> QED BY <1>1, <1>2

LEMMA Invariance == Spec => []IInv
<1> QED BY InitInv, NextInv, PTL DEF Spec

-----------------------------------------------------------------------------
\* The stages, counters and results of sendTx and submitTransaction stay in their
\* ranges: no submission makes more than MAX_ATTEMPTS attempts.
THEOREM TypeCorrect == Spec => []TypeOK
<1>1. IInv => TypeOK
  BY DEF IInv
<1> QED BY <1>1, Invariance, PTL

\* A caller is only given the signature of a transaction that landed without an
\* error, whoever's promise it awaited and however the landing was noticed.
THEOREM SuccessLandedHolds == Spec => []SuccessLanded
<1>1. IInv => SuccessLanded
  BY DEF IInv
<1> QED BY <1>1, Invariance, PTL

\* submitInProgressPromise names exactly the one submission the engine works on.
THEOREM OneAtATimeHolds == Spec => []OneAtATime
<1>1. IInv => OneAtATime
  BY DEF IInv, Guarded
<1> QED BY <1>1, Invariance, PTL

\* The engine sends nothing of a submission whose simulation met a program error.
THEOREM RejectedNotSentHolds == Spec => []RejectedNotSent
<1>1. IInv => RejectedNotSent
  BY DEF IInv, RejectedOver, RejectedNotSent
<1> QED BY <1>1, Invariance, PTL

\* What a caller was told does not change, and nothing more is sent for it: a step of
\* a submission is a step of one that was not answered yet, and the chain settles
\* only what was sent.
THEOREM OutcomeFinalHolds == Spec => OutcomeFinal
<1> DEFINE Final(u) == result[u] # Pending =>
             /\ result'[u] = result[u]
             /\ \A a \in Attempts : tx[u][a] = "none" => tx'[u][a] = "none"
<1>1. ASSUME IInv, [Next]_vars, NEW u \in Submissions, result[u] # Pending PROVE Final(u)
  <2>1. TypeOK /\ stage[u] = "over"
    BY <1>1 DEF IInv, Answered
  <2>2. CASE UNCHANGED vars
    BY <2>2 DEF vars
  <2>3. ASSUME NEW s \in Submissions, Submit(s) PROVE Final(u)
    BY <2>3 DEF Submit
  <2>4. ASSUME NEW s \in Submissions, Step(s) PROVE Final(u)
    <3>1. s # u
      BY <2>1, <2>4 DEF Step, Share, LateDetection, NotDetected, SimulationRejects, BuildFails,
                        Broadcast, BroadcastFails, Confirm, FailsOnChain, TimesOut
    <3>2. result' = result \/ \E r : result' = [result EXCEPT ![s] = r]
      BY <2>4 DEF Step, Share, LateDetection, NotDetected, SimulationRejects, BuildFails,
                  Broadcast, BroadcastFails, Confirm, FailsOnChain, TimesOut, NextAttempt, Finish
    <3>3. tx' = tx \/ tx' = [tx EXCEPT ![s][attempt[s]] = "inflight"]
      BY <2>4 DEF Step, Share, LateDetection, NotDetected, SimulationRejects, BuildFails,
                  Broadcast, BroadcastFails, Confirm, FailsOnChain, TimesOut
    <3> QED BY <2>1, <3>1, <3>2, <3>3 DEF TypeOK
  <2>5. ASSUME NEW s \in Submissions, NEW b \in Attempts, Settle(s, b) PROVE Final(u)
    <3>1. result' = result /\ tx[s][b] = "inflight"
      BY <2>5 DEF Settle
    <3>2. PICK outcome : tx' = [tx EXCEPT ![s][b] = outcome]
      BY <2>5 DEF Settle
    <3>3. \A a \in Attempts : tx[u][a] = "none" => tx'[u][a] = "none"
      BY <2>1, <3>1, <3>2 DEF TypeOK
    <3> QED BY <3>1, <3>3
  <2> QED BY <1>1, <2>2, <2>3, <2>4, <2>5 DEF Next
<1>2. IInv /\ [Next]_vars =>
        [\A s \in Submissions : result[s] # Pending =>
           /\ result'[s] = result[s]
           /\ \A a \in Attempts : tx[s][a] = "none" => tx'[s][a] = "none"]_vars
  BY <1>1
<1> QED BY <1>2, Invariance, PTL DEF Spec, OutcomeFinal

=============================================================================
