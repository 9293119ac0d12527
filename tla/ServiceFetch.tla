---------------------------- MODULE ServiceFetch ----------------------------
(***************************************************************************)
(* HTTP requests behind service breakers.  flashApiFetch (data/flash-      *)
(* api.ts) guards every call of the Flash API with the breaker             *)
(* 'flash-api'; safeFetchJson (data/fstats.ts) guards the analytics API    *)
(* with 'fstats'; PriceService.fetchFromFlashApi (data/prices.ts) puts a   *)
(* breaker of its own, 'flash-api-prices', around a call of the first.     *)
(*                                                                         *)
(* Callers are slots for concurrent requests.  A caller's stage is         *)
(*   "idle"    no request                                                  *)
(*   "first"   awaiting the first attempt                                  *)
(*   "second"  awaiting the attempt made after a transient network error   *)
(*             (flash-api) or after a 429 (fstats)                         *)
(*   "data", "nothing"   a price request that got an answer, or null, from *)
(*             the client and has not told the outer breaker yet           *)
(* A request a breaker refuses changes nothing but the outer breaker, and  *)
(* a refused direct request is not an action.                              *)
(***************************************************************************)
EXTENDS ServiceBreaker

CONSTANTS
  Services,       \* names in the registry
  Config,         \* their configurations
  Callers,        \* slots for concurrent requests
  ServiceOf,      \* the service whose breaker guards a caller's fetch
  PriceCallers,   \* callers that come through PriceService ...
  PriceBreaker,   \* ... and the breaker it adds
  Stats           \* the services fetched by safeFetchJson

ASSUME FetchAssumption ==
  /\ PriceBreaker \in Services /\ PriceCallers \subseteq Callers
  /\ ServiceOf \in [Callers -> Services \ {PriceBreaker}]
  /\ \A s \in Services :
       /\ Config[s].threshold \in Nat \ {0} /\ Config[s].base \in Nat \ {0}
       /\ Config[s].cap \in Nat /\ Config[s].base <= Config[s].cap

VARIABLES breaker,    \* the registry: one breaker record for each service
          stage       \* what each caller awaits

vars == <<breaker, stage>>

Stages == {"idle", "first", "second", "data", "nothing"}
Fetching == {"first", "second"}

-----------------------------------------------------------------------------
MoveTo(c, s) == stage' = [stage EXCEPT ![c] = s]

\* What the client hands back: to PriceService, or to the user of the data.
Deliver(c, answer) == MoveTo(c, IF c \in PriceCallers THEN answer ELSE "idle")

\* A direct request is let through.
Ask(c) ==
  /\ stage[c] = "idle" /\ c \notin PriceCallers
  /\ Permits(breaker[ServiceOf[c]])
  /\ breaker' = [breaker EXCEPT ![ServiceOf[c]] = AllowRequest(@)]
  /\ MoveTo(c, "first")

\* fetchFromFlashApi asks its own breaker, then the client asks the inner one,
\* with no await between: a refusal by the inner one is null to the outer.
AskForPrices(c) ==
  /\ stage[c] = "idle" /\ c \in PriceCallers
  /\ Permits(breaker[PriceBreaker])
  /\ LET asked == [breaker EXCEPT ![PriceBreaker] = AllowRequest(@)]
     IN  IF Permits(breaker[ServiceOf[c]])
         THEN /\ breaker' = [asked EXCEPT ![ServiceOf[c]] = AllowRequest(@)]
              /\ MoveTo(c, "first")
         ELSE breaker' = asked /\ MoveTo(c, "nothing")

\* One more attempt, without asking the breaker again.
Retry(c) ==
  /\ stage[c] = "first"
  /\ MoveTo(c, "second")
  /\ UNCHANGED breaker

\* safeFetchJson returns the answer of its second attempt without recording it.
Recorded(c) == ~(ServiceOf[c] \in Stats /\ stage[c] = "second")

\* A well-formed answer.
Answered(c) ==
  /\ stage[c] \in Fetching
  /\ breaker' = IF Recorded(c)
                  THEN [breaker EXCEPT ![ServiceOf[c]] = RecordSuccess(Config[ServiceOf[c]], @)]
                  ELSE breaker
  /\ Deliver(c, "data")

\* An answer the code drops without recording: a 4xx status or a response too
\* large (flash-api), a response too large or not JSON (fstats, first attempt).
Dropped(c) ==
  /\ stage[c] \in Fetching /\ Recorded(c)
  /\ Deliver(c, "nothing")
  /\ UNCHANGED breaker

\* A 5xx status, malformed JSON, or no answer at all: recorded.
Failed(c) ==
  /\ stage[c] \in Fetching
  /\ breaker' = [breaker EXCEPT ![ServiceOf[c]] = RecordFailure(Config[ServiceOf[c]], @)]
  /\ Deliver(c, "nothing")

\* PriceService parses the prices and tells its own breaker.
PricesParsed(c) ==
  /\ stage[c] = "data"
  /\ breaker' = [breaker EXCEPT ![PriceBreaker] = RecordSuccess(Config[PriceBreaker], @)]
  /\ MoveTo(c, "idle")

\* Mutant: null from the client is not taken for a failure.
PricesMissingUnrecorded(c) ==
  /\ stage[c] \in {"data", "nothing"}
  /\ breaker' = IF stage[c] = "nothing" THEN breaker
                ELSE [breaker EXCEPT ![PriceBreaker] = RecordFailure(Config[PriceBreaker], @)]
  /\ MoveTo(c, "idle")

\* The client returned null, or the answer was no table of prices.
PricesMissing(c) ==
  /\ stage[c] \in {"data", "nothing"}
  /\ breaker' = [breaker EXCEPT ![PriceBreaker] = RecordFailure(Config[PriceBreaker], @)]
  /\ MoveTo(c, "idle")

TimePasses ==
  /\ \E s \in Services : breaker[s].wait > 0
  /\ breaker' = [s \in Services |-> Cooled(breaker[s])]
  /\ UNCHANGED stage

-----------------------------------------------------------------------------
Init ==
  /\ breaker = [s \in Services |-> NewBreaker(Config[s])]
  /\ stage = [c \in Callers |-> "idle"]

Next ==
  \/ \E c \in Callers : \/ Ask(c) \/ AskForPrices(c) \/ Retry(c)
                        \/ Answered(c) \/ Dropped(c) \/ Failed(c)
                        \/ PricesParsed(c) \/ PricesMissing(c)
  \/ TimePasses

Spec == Init /\ [][Next]_vars

\* The clock runs, and a request that was sent ends: every attempt has an
\* AbortController timeout and there are at most two.  Nobody has to ask.
Fairness ==
  /\ WF_vars(TimePasses)
  /\ \A c \in Callers :
       /\ WF_vars(Answered(c) \/ Dropped(c) \/ Failed(c))
       /\ WF_vars(PricesParsed(c) \/ PricesMissing(c))

FairSpec == Spec /\ Fairness

-----------------------------------------------------------------------------
TypeOK ==
  /\ DOMAIN breaker = Services
  /\ \A s \in Services : breaker[s] \in BreakerRecord(Config[s])
  /\ stage \in [Callers -> Stages]

\* However requests overlap and however late their results come, a breaker is
\* closed only below its failure threshold (recordFailure, close).
ClosedBelowThreshold ==
  \A s \in Services :
    breaker[s].state = "CLOSED" => breaker[s].failures < Config[s].threshold

\* A cooldown shrinks only when its breaker closes: late results that arrive while
\* it is open, or a failed probe, never shorten the wait (open, close).
BackoffKept ==
  [][\A s \in Services :
       breaker'[s].cooldown < breaker[s].cooldown => breaker'[s].state = "CLOSED"]_vars

\* Each breaker keeps the promise of ProbeGate for a single probe: of the requests
\* counted since it half opened there is never a second, whatever the other breakers
\* do, however requests overlap and however late results arrive (allowRequest).
Gate(s) == INSTANCE ProbeGate WITH MaxProbes <- 1, ManualClose <- FALSE,
                                   gate <- breaker[s].state, probes <- breaker[s].probes
ImplementsGate ==
  /\ \A s \in Services : Gate(s)!GateInit
  /\ [][\A s \in Services : Gate(s)!GateNext \/ UNCHANGED Gate(s)!gateVars]_vars

\* A breaker is half open, and no request is under way that could tell it an outcome.
Unheard(s) ==
  /\ breaker[s].state = "HALF_OPEN"
  /\ \A c \in Callers : ServiceOf[c] = s => stage[c] \notin Fetching

\* Whatever the API answers, the breaker of PriceService lets a request through again
\* and again, because every request it lets through is recorded; so does the breaker
\* of the client behind it, unless the answer to its probe was dropped unrecorded and
\* left it half open with nobody to hear from (fetchFromFlashApi, flashApiFetch).
PricesResume ==
  /\ []<>Permits(breaker[PriceBreaker])
  /\ \A c \in PriceCallers :
       []<>(Permits(breaker[ServiceOf[c]]) \/ Unheard(ServiceOf[c]))

\* What is documented of allowRequest: a half-open breaker blocks until the result of
\* its request, so that, every request having a timeout, none blocks for good.
EveryProbeIsHeard == \A s \in Services : []<>Permits(breaker[s])
=============================================================================
