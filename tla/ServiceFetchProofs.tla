-------------------------- MODULE ServiceFetchProofs --------------------------
(***************************************************************************)
(* Theorems about ServiceFetch, for any registry of services, any number   *)
(* of callers and any thresholds and cooldowns.                            *)
(*                                                                         *)
(* Everything follows from what one method call does to one breaker.       *)
(* BreakerOK is the inductive invariant of a breaker and BreakerMoves the  *)
(* relation every method keeps between a breaker before and after it; the  *)
(* lemmas about the methods establish both, and StepMoves carries them to  *)
(* the whole registry, where each action touches at most two breakers.     *)
(***************************************************************************)
EXTENDS ServiceFetch, TLAPS

ConfigOK(cfg) == /\ cfg.threshold \in Nat \ {0} /\ cfg.base \in Nat \ {0}
                 /\ cfg.cap \in Nat /\ cfg.base <= cfg.cap

\* ~tripped pins the cooldown to its base: without it the first trip after a
\* recovery could shorten a cooldown.
BreakerOK(cfg, b) ==
  /\ b \in BreakerRecord(cfg)
  /\ b.state = "CLOSED" => b.failures < cfg.threshold
  /\ ~b.tripped => b.cooldown = cfg.base

GateMoves(b, c) ==
  \/ b.state \in {"CLOSED", "HALF_OPEN"} /\ c.state = "OPEN" /\ c.probes = b.probes
  \/ b.state = "OPEN" /\ c.state = "HALF_OPEN" /\ c.probes = 1
  \/ b.state = "HALF_OPEN" /\ c.state = "CLOSED" /\ c.probes = b.probes
  \/ c.state = b.state /\ c.probes = b.probes

BreakerMoves(cfg, b, c) ==
  /\ BreakerOK(cfg, c)
  /\ c.cooldown < b.cooldown => c.state = "CLOSED"
  /\ GateMoves(b, c)

-----------------------------------------------------------------------------
LEMMA NewBreakerOK ==
  ASSUME NEW cfg, ConfigOK(cfg) PROVE BreakerOK(cfg, NewBreaker(cfg))
BY DEF ConfigOK, BreakerOK, NewBreaker, BreakerRecord

LEMMA UnmovedMoves ==
  ASSUME NEW cfg, ConfigOK(cfg), NEW b, BreakerOK(cfg, b) PROVE BreakerMoves(cfg, b, b)
BY DEF ConfigOK, BreakerOK, BreakerMoves, GateMoves, BreakerRecord

LEMMA AllowRequestMoves ==
  ASSUME NEW cfg, ConfigOK(cfg), NEW b, BreakerOK(cfg, b), Permits(b)
  PROVE  BreakerMoves(cfg, b, AllowRequest(b))
<1>1. CASE b.state = "CLOSED"
  BY <1>1, UnmovedMoves DEF AllowRequest
<1>2. CASE b.state = "OPEN"
  <2> DEFINE c == [b EXCEPT !.state = "HALF_OPEN", !.probes = 1]
  <2>0. b \in BreakerRecord(cfg)
    BY DEF BreakerOK
  <2>1. /\ c \in BreakerRecord(cfg)
        /\ c.state = "HALF_OPEN" /\ c.probes = 1
        /\ c.cooldown = b.cooldown /\ c.tripped = b.tripped
    BY <2>0 DEF BreakerRecord
  <2>2. AllowRequest(b) = c
    BY <1>2 DEF AllowRequest
  <2> HIDE DEF c
  <2> QED  BY <1>2, <2>1, <2>2 DEF BreakerOK, BreakerMoves, GateMoves, ConfigOK, BreakerRecord
<1> QED  BY <1>1, <1>2 DEF Permits

LEMMA RecordSuccessMoves ==
  ASSUME NEW cfg, ConfigOK(cfg), NEW b, BreakerOK(cfg, b)
  PROVE  BreakerMoves(cfg, b, RecordSuccess(cfg, b))
<1>1. CASE b.state = "HALF_OPEN"
  <2> DEFINE c == [b EXCEPT !.state = "CLOSED", !.failures = 0, !.tripped = FALSE,
                            !.cooldown = cfg.base]
  <2>0. 0 \in 0..cfg.threshold /\ cfg.base \in cfg.base..cfg.cap /\ b \in BreakerRecord(cfg)
    BY DEF ConfigOK, BreakerOK
  <2>1. /\ c \in BreakerRecord(cfg)
        /\ c.state = "CLOSED" /\ c.probes = b.probes
        /\ c.failures = 0 /\ c.cooldown = cfg.base
    BY <2>0 DEF BreakerRecord
  <2>2. RecordSuccess(cfg, b) = c
    BY <1>1 DEF RecordSuccess, Closed
  <2> HIDE DEF c
  <2> QED  BY <1>1, <2>1, <2>2 DEF BreakerOK, BreakerMoves, GateMoves, ConfigOK
<1>2. CASE b.state # "HALF_OPEN"
  <2> DEFINE c == [b EXCEPT !.failures = 0]
  <2>1. /\ c \in BreakerRecord(cfg)
        /\ c.state = b.state /\ c.probes = b.probes
        /\ c.failures = 0 /\ c.cooldown = b.cooldown /\ c.tripped = b.tripped
    BY DEF ConfigOK, BreakerOK, BreakerRecord
  <2>2. RecordSuccess(cfg, b) = c
    BY <1>2 DEF RecordSuccess
  <2> HIDE DEF c
  <2> QED  BY <2>1, <2>2 DEF BreakerOK, BreakerMoves, GateMoves, ConfigOK, BreakerRecord
<1> QED  BY <1>1, <1>2

LEMMA OpenedMoves ==
  ASSUME NEW cfg, ConfigOK(cfg), NEW b \in BreakerRecord(cfg), ~b.tripped => b.cooldown = cfg.base
  PROVE  BreakerMoves(cfg, b, Opened(cfg, b))
<1> DEFINE cooldown == IF b.tripped THEN Lesser(2 * b.cooldown, cfg.cap) ELSE cfg.base
           c == [b EXCEPT !.state = "OPEN", !.tripped = TRUE,
                          !.cooldown = cooldown, !.wait = cooldown]
<1>1. cooldown \in cfg.base..cfg.cap /\ cooldown \in 0..cfg.cap /\ cooldown >= b.cooldown
  BY DEF ConfigOK, BreakerRecord, Lesser
<1> HIDE DEF cooldown
<1>2. /\ c \in BreakerRecord(cfg)
      /\ c.state = "OPEN" /\ c.tripped /\ c.probes = b.probes /\ c.cooldown = cooldown
  BY <1>1 DEF BreakerRecord
<1>3. Opened(cfg, b) = c
  BY DEF Opened, cooldown
<1> HIDE DEF c
<1>4. b.state \in {"CLOSED", "OPEN", "HALF_OPEN"} /\ b.cooldown \in Nat
  BY DEF BreakerRecord, ConfigOK
<1> QED  BY <1>1, <1>2, <1>3, <1>4 DEF BreakerOK, BreakerMoves, GateMoves, ConfigOK

LEMMA RecordFailureMoves ==
  ASSUME NEW cfg, ConfigOK(cfg), NEW b, BreakerOK(cfg, b)
  PROVE  BreakerMoves(cfg, b, RecordFailure(cfg, b))
<1> DEFINE counted == [b EXCEPT !.failures = Lesser(b.failures + 1, cfg.threshold)]
<1>1. /\ counted \in BreakerRecord(cfg)
      /\ counted.state = b.state /\ counted.probes = b.probes
      /\ counted.cooldown = b.cooldown /\ counted.tripped = b.tripped
  BY DEF ConfigOK, BreakerOK, BreakerRecord, Lesser
<1>2. CASE b.state = "HALF_OPEN" \/ counted.failures >= cfg.threshold
  <2>1. RecordFailure(cfg, b) = Opened(cfg, counted)
    BY <1>2 DEF RecordFailure
  <2>2. ~counted.tripped => counted.cooldown = cfg.base
    BY <1>1 DEF BreakerOK
  <2>3. BreakerMoves(cfg, counted, Opened(cfg, counted))
    BY <1>1, <2>2, OpenedMoves
  <2> HIDE DEF counted
  <2> QED  BY <1>1, <2>1, <2>3 DEF BreakerMoves, GateMoves
<1>3. CASE ~(b.state = "HALF_OPEN" \/ counted.failures >= cfg.threshold)
  <2>1. RecordFailure(cfg, b) = counted
    BY <1>3 DEF RecordFailure
  <2>2. counted.failures < cfg.threshold
    BY <1>1, <1>3 DEF ConfigOK, BreakerRecord
  <2> HIDE DEF counted
  <2> QED  BY <1>1, <2>1, <2>2 DEF BreakerMoves, GateMoves, BreakerOK, ConfigOK, BreakerRecord
<1> QED  BY <1>2, <1>3

LEMMA CooledMoves ==
  ASSUME NEW cfg, ConfigOK(cfg), NEW b, BreakerOK(cfg, b) PROVE BreakerMoves(cfg, b, Cooled(b))
BY DEF ConfigOK, BreakerOK, BreakerMoves, GateMoves, BreakerRecord, Cooled

-----------------------------------------------------------------------------
\* The inductive invariant of the registry.
RegistryOK ==
  /\ breaker = [s \in Services |-> breaker[s]]
  /\ \A s \in Services : BreakerOK(Config[s], breaker[s])
  /\ stage \in [Callers -> Stages]

RegistryMoves == \A s \in Services : BreakerMoves(Config[s], breaker[s], breaker'[s])

LEMMA ConfigsOK == \A s \in Services : ConfigOK(Config[s])
BY FetchAssumption DEF ConfigOK

LEMMA InitRegistry == Init => RegistryOK
BY ConfigsOK, NewBreakerOK DEF Init, RegistryOK, Stages

\* One breaker is replaced by one that it may become, the others stay.
LEMMA OneMoves ==
  ASSUME RegistryOK, NEW s \in Services, NEW b, BreakerMoves(Config[s], breaker[s], b),
         breaker' = [breaker EXCEPT ![s] = b]
  PROVE  RegistryMoves /\ breaker' = [r \in Services |-> breaker'[r]]
<1>1. breaker' = [r \in Services |-> IF r = s THEN b ELSE breaker[r]]
  BY DEF RegistryOK
<1> QED  BY <1>1, ConfigsOK, UnmovedMoves DEF RegistryOK, RegistryMoves

\* Every step moves every breaker only as BreakerMoves allows.
LEMMA StepMoves ==
  ASSUME RegistryOK, [Next]_vars
  PROVE  /\ RegistryMoves
         /\ breaker' = [s \in Services |-> breaker'[s]]
         /\ stage' \in [Callers -> Stages]
<1> USE FetchAssumption
<1> DEFINE Goal == /\ RegistryMoves
                   /\ breaker' = [s \in Services |-> breaker'[s]]
                   /\ stage' \in [Callers -> Stages]
<1>0. CASE UNCHANGED breaker /\ stage' \in [Callers -> Stages]
  BY <1>0, ConfigsOK, UnmovedMoves DEF RegistryOK, RegistryMoves
<1>1. ASSUME NEW c \in Callers, Ask(c) PROVE Goal
  <2>1. BreakerMoves(Config[ServiceOf[c]], breaker[ServiceOf[c]], AllowRequest(breaker[ServiceOf[c]]))
    BY <1>1, ConfigsOK, AllowRequestMoves DEF Ask, RegistryOK
  <2>2. stage' \in [Callers -> Stages]
    BY <1>1 DEF Ask, MoveTo, RegistryOK, Stages
  <2> QED  BY <1>1, <2>1, <2>2, OneMoves DEF Ask
<1>2. ASSUME NEW c \in Callers, AskForPrices(c) PROVE Goal
  <2> DEFINE p == PriceBreaker
             i == ServiceOf[c]
             asked == [breaker EXCEPT ![p] = AllowRequest(@)]
  <2>1. BreakerMoves(Config[p], breaker[p], AllowRequest(breaker[p]))
    BY <1>2, ConfigsOK, AllowRequestMoves DEF AskForPrices, RegistryOK
  <2>2. stage' \in [Callers -> Stages]
    BY <1>2 DEF AskForPrices, MoveTo, RegistryOK, Stages
  <2>3. CASE ~Permits(breaker[i])
    <3>1. breaker' = asked
      BY <1>2, <2>3 DEF AskForPrices
    <3> QED  BY <2>1, <2>2, <3>1, OneMoves
  <2>4. CASE Permits(breaker[i])
    <3>1. i \in Services /\ p \in Services /\ i # p
      OBVIOUS
    <3>2. BreakerMoves(Config[i], breaker[i], AllowRequest(breaker[i]))
      BY <2>4, <3>1, ConfigsOK, AllowRequestMoves DEF RegistryOK
    <3>3. breaker' = [asked EXCEPT ![i] = AllowRequest(@)]
      BY <1>2, <2>4 DEF AskForPrices
    <3>4. breaker' = [s \in Services |-> IF s = i THEN AllowRequest(breaker[i])
                                         ELSE IF s = p THEN AllowRequest(breaker[p])
                                         ELSE breaker[s]]
      BY <3>1, <3>3 DEF RegistryOK
    <3>5. \A s \in Services : BreakerMoves(Config[s], breaker[s], breaker'[s])
      BY <2>1, <3>1, <3>2, <3>4, ConfigsOK, UnmovedMoves DEF RegistryOK
    <3> QED  BY <2>2, <3>4, <3>5 DEF RegistryMoves
  <2> QED  BY <2>3, <2>4
<1>3. ASSUME NEW c \in Callers, Retry(c) PROVE Goal
  BY <1>0, <1>3 DEF Retry, MoveTo, RegistryOK, Stages
<1>4. ASSUME NEW c \in Callers, Answered(c) PROVE Goal
  <2>1. stage' \in [Callers -> Stages]
    BY <1>4 DEF Answered, Deliver, MoveTo, RegistryOK, Stages
  <2>2. BreakerMoves(Config[ServiceOf[c]], breaker[ServiceOf[c]],
                     RecordSuccess(Config[ServiceOf[c]], breaker[ServiceOf[c]]))
    BY ConfigsOK, RecordSuccessMoves DEF RegistryOK
  <2>3. CASE Recorded(c)
    BY <1>4, <2>1, <2>2, <2>3, OneMoves DEF Answered
  <2>4. CASE ~Recorded(c)
    BY <1>0, <1>4, <2>1, <2>4 DEF Answered
  <2> QED  BY <2>3, <2>4
<1>5. ASSUME NEW c \in Callers, Dropped(c) PROVE Goal
  BY <1>0, <1>5 DEF Dropped, Deliver, MoveTo, RegistryOK, Stages
<1>6. ASSUME NEW c \in Callers, Failed(c) PROVE Goal
  <2>1. stage' \in [Callers -> Stages]
    BY <1>6 DEF Failed, Deliver, MoveTo, RegistryOK, Stages
  <2>2. BreakerMoves(Config[ServiceOf[c]], breaker[ServiceOf[c]],
                     RecordFailure(Config[ServiceOf[c]], breaker[ServiceOf[c]]))
    BY ConfigsOK, RecordFailureMoves DEF RegistryOK
  <2> QED  BY <1>6, <2>1, <2>2, OneMoves DEF Failed
<1>7. ASSUME NEW c \in Callers, PricesParsed(c) PROVE Goal
  <2>1. stage' \in [Callers -> Stages]
    BY <1>7 DEF PricesParsed, MoveTo, RegistryOK, Stages
  <2>2. BreakerMoves(Config[PriceBreaker], breaker[PriceBreaker],
                     RecordSuccess(Config[PriceBreaker], breaker[PriceBreaker]))
    BY ConfigsOK, RecordSuccessMoves DEF RegistryOK
  <2> QED  BY <1>7, <2>1, <2>2, OneMoves DEF PricesParsed
<1>8. ASSUME NEW c \in Callers, PricesMissing(c) PROVE Goal
  <2>1. stage' \in [Callers -> Stages]
    BY <1>8 DEF PricesMissing, MoveTo, RegistryOK, Stages
  <2>2. BreakerMoves(Config[PriceBreaker], breaker[PriceBreaker],
                     RecordFailure(Config[PriceBreaker], breaker[PriceBreaker]))
    BY ConfigsOK, RecordFailureMoves DEF RegistryOK
  <2> QED  BY <1>8, <2>1, <2>2, OneMoves DEF PricesMissing
<1>9. CASE TimePasses
  BY <1>9, ConfigsOK, CooledMoves DEF TimePasses, RegistryOK, RegistryMoves
<1>10. CASE UNCHANGED vars
  BY <1>0, <1>10 DEF vars, RegistryOK
<1> QED  BY <1>1, <1>2, <1>3, <1>4, <1>5, <1>6, <1>7, <1>8, <1>9, <1>10 DEF Next

LEMMA RegistryInvariant == Spec => []RegistryOK
<1>1. ASSUME RegistryOK, [Next]_vars PROVE RegistryOK'
  BY <1>1, StepMoves DEF RegistryOK, RegistryMoves, BreakerMoves
<1> QED  BY InitRegistry, <1>1, PTL DEF Spec

-----------------------------------------------------------------------------
\* Every variable keeps its type: no counter, cooldown or timer of any breaker
\* leaves its range, and no request loses its stage.
THEOREM TypeCorrect == Spec => []TypeOK
<1>1. RegistryOK => TypeOK
  BY DEF RegistryOK, BreakerOK, TypeOK
<1> QED  BY <1>1, RegistryInvariant, PTL

\* Whatever requests overlap, a closed breaker has fewer consecutive failures than
\* its threshold (recordFailure).
THEOREM ClosedBelowThresholdHolds == Spec => []ClosedBelowThreshold
<1>1. RegistryOK => ClosedBelowThreshold
  BY DEF RegistryOK, BreakerOK, ClosedBelowThreshold
<1> QED  BY <1>1, RegistryInvariant, PTL

\* No late result and no failed probe shortens a cooldown (open, close).
THEOREM BackoffKeptHolds == Spec => BackoffKept
<1> DEFINE Kept == \A s \in Services :
             breaker'[s].cooldown < breaker[s].cooldown => breaker'[s].state = "CLOSED"
<1>1. RegistryOK /\ [Next]_vars => [Kept]_vars
  BY StepMoves DEF RegistryMoves, BreakerMoves
<1> QED  BY <1>1, RegistryInvariant, PTL DEF Spec, BackoffKept

\* Every breaker of the registry keeps the single-probe promise of ProbeGate
\* (allowRequest), for any number of overlapping requests.
THEOREM ImplementsProbeGate == Spec => ImplementsGate
<1> DEFINE Kept == \A s \in Services : Gate(s)!GateNext \/ UNCHANGED Gate(s)!gateVars
<1>1. Init => \A s \in Services : Gate(s)!GateInit
  BY DEF Init, NewBreaker, Gate!GateInit
<1>2. ASSUME RegistryOK, [Next]_vars PROVE [Kept]_vars
  <2>1. SUFFICES ASSUME NEW s \in Services
                 PROVE  Gate(s)!GateNext \/ UNCHANGED Gate(s)!gateVars
    OBVIOUS
  <2>2. GateMoves(breaker[s], breaker'[s])
    BY <1>2, StepMoves DEF RegistryMoves, BreakerMoves
  <2> QED  BY <2>2 DEF GateMoves, Gate!GateNext, Gate!Trip, Gate!HalfOpen, Gate!Probe,
                       Gate!Settle, Gate!ForceClose, Gate!gateVars
<1> QED  BY <1>1, <1>2, RegistryInvariant, PTL DEF Spec, ImplementsGate
=============================================================================
