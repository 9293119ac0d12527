------------------------- MODULE RpcFailoverProofs -------------------------
(***************************************************************************)
(* What RpcFailover guarantees for any endpoints and any number of         *)
(* failures, failing trades and commands.                                  *)
(*                                                                         *)
(* The invariant behind it: a failover that asks an endpoint knows its     *)
(* position, unless a removal disturbed it (KnowsPosition), and, as long   *)
(* as the list is not changed under it, has asked every endpoint of the    *)
(* rounds that are over (Thorough).                                        *)
(***************************************************************************)
EXTENDS RpcFailover, SequenceTheorems, TLAPS

\* activeIndex is a number even when it lies behind the end.
TypeInv == TypeOK /\ active \in Nat

KnowsPosition ==
  failover # None /\ failover.phase = "look" /\ ~disturbed =>
    failover.idx \in DOMAIN endpoints /\ endpoints[failover.idx] = failover.url

\* The endpoints of the rounds before i, but for the active one, gave no answer.
Asked(i, found) == \A m \in 0 .. i - 1 : Idx(m) # active => endpoints[Idx(m)] \in found

Thorough ==
  failover # None /\ ~failover.edited =>
    /\ ActiveExists
    /\ Asked(failover.i, failover.found)
    /\ failover.phase = "look" =>
         failover.idx = Idx(failover.i) /\ failover.url = endpoints[failover.idx]
    /\ failover.phase = "recheck" =>
         failover.i >= Len(endpoints) /\ failover.url = endpoints[active]

IInv == TypeInv /\ KnowsPosition /\ ActiveIsConnected /\ Thorough

-----------------------------------------------------------------------------
\* Lists and rounds

\* What is left of a list when one of its elements is removed.
LEMMA Removal ==
  ASSUME NEW S, NEW s \in Seq(S), NEW p \in 1 .. Len(s)
  PROVE  /\ RemoveAt(s, p) \in Seq(S) /\ Len(RemoveAt(s, p)) = Len(s) - 1
         /\ \A n \in 1 .. Len(s) - 1 : RemoveAt(s, p)[n] = IF n < p THEN s[n] ELSE s[n + 1]
<1> DEFINE before == SubSeq(s, 1, p - 1)
           after == SubSeq(s, p + 1, Len(s))
<1>0. p \in Nat /\ Len(s) \in Nat /\ p <= Len(s) /\ p >= 1
  OBVIOUS
<1>1. before \in Seq(S) /\ Len(before) = p - 1 /\ \A n \in 1 .. p - 1 : before[n] = s[n]
  BY SubSeqProperties
<1>2. after \in Seq(S) /\ Len(after) = Len(s) - p /\ \A n \in 1 .. Len(s) - p : after[n] = s[n + p]
  BY SubSeqProperties
<1>3. RemoveAt(s, p) = before \o after
  BY DEF RemoveAt
<1> HIDE DEF before, after
<1>4. /\ before \o after \in Seq(S) /\ Len(before \o after) = Len(s) - 1
      /\ \A n \in 1 .. Len(s) - 1 :
           (before \o after)[n] = IF n <= p - 1 THEN before[n] ELSE after[n - (p - 1)]
  <2>1. /\ before \o after \in Seq(S) /\ Len(before \o after) = Len(before) + Len(after)
        /\ \A n \in 1 .. Len(before) + Len(after) :
             (before \o after)[n] = IF n <= Len(before) THEN before[n] ELSE after[n - Len(before)]
    BY <1>1, <1>2, ConcatProperties
  <2>2. Len(before) + Len(after) = Len(s) - 1
    BY <1>1, <1>2, <1>0
  <2> QED  BY <1>1, <2>1, <2>2
<1>5. ASSUME NEW n \in 1 .. Len(s) - 1
      PROVE  (before \o after)[n] = IF n < p THEN s[n] ELSE s[n + 1]
  <2>1. CASE n < p
    <3>1. n \in 1 .. p - 1 /\ n <= p - 1
      BY <1>0, <2>1
    <3> QED  BY <1>1, <1>4, <2>1, <3>1
  <2>2. CASE n >= p
    <3>1. n - (p - 1) \in 1 .. Len(s) - p /\ n - (p - 1) + p = n + 1 /\ ~(n <= p - 1) /\ ~(n < p)
      BY <1>0, <2>2
    <3>2. after[n - (p - 1)] = s[n - (p - 1) + p]
      BY <1>2, <3>1
    <3>3. after[n - (p - 1)] = s[n + 1]
      BY <3>1, <3>2
    <3>4. (before \o after)[n] = after[n - (p - 1)]
      BY <1>4, <3>1
    <3> QED  BY <3>1, <3>3, <3>4
  <2>3. n < p \/ n >= p
    BY <1>0
  <2> QED  BY <2>1, <2>2, <2>3
<1> QED  BY <1>3, <1>4, <1>5

\* A round asks an endpoint of the list.
LEMMA RoundInList ==
  ASSUME NEW n \in Nat, active \in Nat, endpoints \in Seq(Urls), endpoints # <<>>
  PROVE  Idx(n) \in DOMAIN endpoints
<1>1. Len(endpoints) \in Nat \ {0}
  BY EmptySeq
<1>2. (active + n) % Len(endpoints) \in 0 .. Len(endpoints) - 1
  BY <1>1
<1> QED  BY <1>1, <1>2 DEF Idx

\* The rounds of the loop reach every endpoint.
LEMMA EveryRound ==
  ASSUME active \in DOMAIN endpoints, endpoints \in Seq(Urls), NEW p \in DOMAIN endpoints
  PROVE  \E m \in 0 .. Len(endpoints) - 1 : Idx(m) = p
<1> DEFINE L == Len(endpoints)
           m == IF p > active THEN p - 1 - active ELSE p - 1 - active + L
<1>1. L \in Nat \ {0} /\ active \in 1 .. L /\ p \in 1 .. L
  OBVIOUS
<1>2. m \in 0 .. L - 1 /\ (active + m = p - 1 \/ active + m = p - 1 + L)
  BY <1>1
<1>3. (p - 1) % L = p - 1 /\ (p - 1 + L) % L = p - 1
  BY <1>1
<1>4. (active + m) % L = p - 1
  BY <1>2, <1>3
<1>5. Idx(m) = p
  BY <1>1, <1>4 DEF Idx
<1> HIDE DEF m, L
<1> QED  BY <1>2, <1>5 DEF L

\* What the next check of the loop, or the recheck after it, knows.
LEMMA NextCheckTrue ==
  ASSUME TypeInv, NEW i \in Nat, NEW found \in SUBSET Urls, NEW edited \in BOOLEAN,
         RoundLeft(NextRound(i)) \/ ActiveExists
  PROVE  LET f == NextCheck(i, found, edited)
         IN  /\ f \in Failovers /\ f.edited = edited /\ f.found = found
             /\ f.idx \in DOMAIN endpoints /\ f.url = endpoints[f.idx]
             /\ Asked(i, found) => Asked(f.i, found)
             /\ f.phase = "look" => f.idx = Idx(f.i)
             /\ f.phase = "recheck" => f.i >= Len(endpoints) /\ f.idx = active
<1> DEFINE n == NextRound(i)
           idx == IF RoundLeft(n) THEN Idx(n) ELSE active
<1>1. n \in Nat /\ Len(endpoints) \in Nat
  BY DEF NextRound, TypeInv, TypeOK
<1>2. idx \in DOMAIN endpoints
  BY <1>1, RoundInList DEF TypeInv, TypeOK, ActiveExists
<1>3. idx \in Nat /\ endpoints[idx] \in Urls /\ health[endpoints[idx]] \in Healths
  BY <1>2 DEF TypeInv, TypeOK
<1>4. Asked(i, found) => Asked(n, found)
  <2> SUFFICES ASSUME Asked(i, found), NEW m \in 0 .. n - 1, Idx(m) # active
               PROVE  endpoints[Idx(m)] \in found
    BY DEF Asked
  <2>1. CASE m \in 0 .. i - 1
    BY <2>1 DEF Asked
  <2>2. CASE m \notin 0 .. i - 1
    <3>1. n = i + 1 /\ m = i
      BY <1>1, <2>2 DEF NextRound
    <3>2. Idx(i) = active
      BY <3>1 DEF NextRound
    <3> QED  BY <3>1, <3>2
  <2> QED  BY <2>1, <2>2
<1>5. ~RoundLeft(n) => n >= Len(endpoints)
  BY <1>1 DEF RoundLeft
<1>6. NextCheck(i, found, edited) =
        [phase |-> IF RoundLeft(n) THEN "look" ELSE "recheck",
         i |-> n, idx |-> idx, url |-> endpoints[idx],
         seen |-> health[endpoints[idx]], found |-> found, edited |-> edited]
  BY DEF NextCheck
<1>7. idx = IF RoundLeft(n) THEN Idx(n) ELSE active
  OBVIOUS
<1> HIDE DEF n, idx
<1> QED  BY <1>1, <1>2, <1>3, <1>4, <1>5, <1>6, <1>7 DEF Failovers

-----------------------------------------------------------------------------
\* Types

LEMMA TypeInit == Init => TypeInv
<1> SUFFICES ASSUME Init PROVE TypeInv
  OBVIOUS
<1>1. PICK n \in 1 .. 3 : endpoints \in [1 .. n -> Urls] /\ IsInjective(endpoints)
  BY RpcAssumption DEF Init, RpcAssumption
<1>2. endpoints \in Seq(Urls) /\ Len(endpoints) = n /\ DOMAIN endpoints = 1 .. n
  BY <1>1
<1>3. endpoints # <<>> /\ endpoints[1] \in Urls /\ 1 \in DOMAIN endpoints
  BY <1>1, <1>2
<1>4. health \in [Urls -> Healths] /\ monitor \in [at : {"idle", "checking", "waiting"}, seen : Readings]
      /\ ahead \subseteq Urls
  BY DEF Init, Healths, Readings
<1>5. changes \in 0 .. MaxChanges /\ trades \in 0 .. MaxTrades /\ edits \in 0 .. MaxEdits
  BY RpcAssumption DEF Init, RpcAssumption
<1>6. active \in Nat /\ active \in DOMAIN endpoints
  BY <1>3 DEF Init
<1>7. failover = None => monitor.at # "waiting" /\ trade = "idle"
  BY DEF Init
<1> QED
  BY <1>1, <1>2, <1>3, <1>4, <1>5, <1>6, <1>7 DEF Init, TypeInv, TypeOK

\* What a check records and answers.
LEMMA CheckTyped ==
  ASSUME TypeInv, NEW url \in Urls
  PROVE  Reading(url) \in Readings /\ (Check(url) => ahead' \subseteq Urls)
<1>1. health[url] \in Healths /\ ahead \subseteq Urls
  BY DEF TypeInv, TypeOK
<1>2. Reading(url) \in Readings
  BY <1>1 DEF Reading, Readings, Healths
<1>3. ASSUME Check(url) PROVE ahead' \subseteq Urls
  <2>1. ahead' \in {ahead, ahead \cup {url}, ahead \ {url}}
    <3>1. CASE health[url] \in {"good", "slow"}
      BY <1>3, <3>1 DEF Check
    <3>2. CASE health[url] = "lagging"
      BY <1>3, <3>2 DEF Check
    <3>3. CASE health[url] = "down"
      BY <1>3, <3>3 DEF Check
    <3> QED  BY <1>1, <3>1, <3>2, <3>3 DEF Healths
  <2> QED  BY <1>1, <2>1
<1> QED  BY <1>2, <1>3

\* Whoever wants a failover waits for one afterwards.
LEMMA RequestTrue ==
  ASSUME TypeInv, ActiveExists, RequestFailover
  PROVE  /\ failover' \in Failovers /\ failover' # None
         /\ failover' = failover \/ failover' = NextCheck(0, {}, FALSE)
         /\ ahead' \subseteq Urls
<1>1. NextCheck(0, {}, FALSE) \in Failovers
  BY NextCheckTrue
<1>2. CASE failover # None
  BY <1>2 DEF RequestFailover, TypeInv, TypeOK
<1>3. CASE failover = None
  <2>1. failover' = NextCheck(0, {}, FALSE) /\ Check(failover'.url)
    BY <1>3 DEF RequestFailover
  <2>2. failover'.url \in Urls
    BY <1>1, <2>1 DEF Failovers
  <2> QED  BY <1>1, <2>1, <2>2, CheckTyped, RpcAssumption DEF RpcAssumption
<1> QED  BY <1>2, <1>3

\* A url that is appended or looked up.
LEMMA Appended ==
  ASSUME TypeInv, NEW url \in Urls, ~Contains(endpoints, url)
  PROVE  LET longer == Append(endpoints, url)
         IN  /\ longer \in Seq(Urls) /\ IsInjective(longer) /\ longer # <<>>
             /\ Len(longer) = Len(endpoints) + 1 /\ longer[Len(longer)] = url
             /\ \A n \in DOMAIN endpoints : n \in DOMAIN longer /\ longer[n] = endpoints[n]
<1> DEFINE longer == Append(endpoints, url)
<1>1. endpoints \in Seq(Urls) /\ IsInjective(endpoints) /\ Len(endpoints) \in Nat
  BY DEF TypeInv, TypeOK
<1>2. /\ longer \in Seq(Urls) /\ Len(longer) = Len(endpoints) + 1
      /\ \A n \in 1 .. Len(endpoints) : longer[n] = endpoints[n]
      /\ longer[Len(endpoints) + 1] = url
  BY <1>1, AppendProperties
<1>3. \A n \in 1 .. Len(endpoints) : endpoints[n] # url
  BY DEF Contains
<1> HIDE DEF longer
<1>4. IsInjective(longer)
  <2> SUFFICES ASSUME NEW a \in DOMAIN longer, NEW b \in DOMAIN longer, longer[a] = longer[b]
               PROVE  a = b
    BY DEF IsInjective
  <2>1. /\ a \in 1 .. Len(endpoints) \/ a = Len(endpoints) + 1
        /\ b \in 1 .. Len(endpoints) \/ b = Len(endpoints) + 1
    BY <1>1, <1>2
  <2>2. CASE a \in 1 .. Len(endpoints) /\ b \in 1 .. Len(endpoints)
    BY <1>1, <1>2, <2>2 DEF IsInjective
  <2> QED  BY <1>2, <1>3, <2>1, <2>2
<1>5. longer # <<>> /\ \A n \in DOMAIN endpoints : n \in DOMAIN longer
  BY <1>1, <1>2
<1> QED  BY <1>1, <1>2, <1>4, <1>5 DEF longer

LEMMA Shorter ==
  ASSUME TypeInv, NEW p \in DOMAIN endpoints, Len(endpoints) > 1
  PROVE  LET shorter == RemoveAt(endpoints, p)
         IN  /\ shorter \in Seq(Urls) /\ IsInjective(shorter) /\ shorter # <<>>
             /\ Len(shorter) = Len(endpoints) - 1
             /\ \A n \in 1 .. Len(endpoints) - 1 :
                  shorter[n] = IF n < p THEN endpoints[n] ELSE endpoints[n + 1]
<1> DEFINE shorter == RemoveAt(endpoints, p)
<1>1. endpoints \in Seq(Urls) /\ IsInjective(endpoints) /\ Len(endpoints) \in Nat
      /\ p \in 1 .. Len(endpoints)
  BY DEF TypeInv, TypeOK
<1>2. /\ shorter \in Seq(Urls) /\ Len(shorter) = Len(endpoints) - 1
      /\ \A n \in 1 .. Len(endpoints) - 1 :
           shorter[n] = IF n < p THEN endpoints[n] ELSE endpoints[n + 1]
  BY <1>1, Removal
<1> HIDE DEF shorter
<1>3. IsInjective(shorter)
  <2> SUFFICES ASSUME NEW a \in DOMAIN shorter, NEW b \in DOMAIN shorter, shorter[a] = shorter[b]
               PROVE  a = b
    BY DEF IsInjective
  <2> DEFINE old(n) == IF n < p THEN n ELSE n + 1
  <2>1. a \in 1 .. Len(endpoints) - 1 /\ b \in 1 .. Len(endpoints) - 1
    BY <1>1, <1>2
  <2>2. old(a) \in DOMAIN endpoints /\ old(b) \in DOMAIN endpoints
    BY <1>1, <2>1
  <2>3. shorter[a] = endpoints[old(a)] /\ shorter[b] = endpoints[old(b)]
    BY <1>2, <2>1
  <2>4. old(a) = old(b)
    BY <1>1, <2>2, <2>3 DEF IsInjective
  <2> QED  BY <1>1, <2>1, <2>4
<1>4. shorter # <<>>
  BY <1>1, <1>2
<1> QED  BY <1>2, <1>3, <1>4 DEF shorter

\* The end of a failover, whatever came of it.
LEMMA EndsTyped ==
  ASSUME TypeInv, FailoverEnds
  PROVE  /\ failover' = None /\ trade' = "idle"
         /\ monitor' \in [at : {"idle", "checking"}, seen : Readings]
<1>1. CASE monitor.at = "waiting"
  BY <1>1 DEF FailoverEnds, TypeInv, TypeOK
<1>2. CASE monitor.at # "waiting"
  BY <1>2 DEF FailoverEnds, TypeInv, TypeOK
<1> QED  BY <1>1, <1>2 DEF FailoverEnds

LEMMA RemovalTyped ==
  ASSUME TypeInv, NEW position \in DOMAIN endpoints, ActiveExists, position # active,
         endpoints' = RemoveAt(endpoints, position), active' = IndexWithout(position)
  PROVE  /\ endpoints' \in Seq(Urls) /\ IsInjective(endpoints') /\ endpoints' # <<>>
         /\ active' \in DOMAIN endpoints' /\ active' \in Nat
         /\ endpoints'[active'] = endpoints[active]
         /\ Len(endpoints') = Len(endpoints) - 1
         /\ \A n \in 1 .. Len(endpoints) - 1 :
              endpoints'[n] = IF n < position THEN endpoints[n] ELSE endpoints[n + 1]
<1>1. /\ Len(endpoints) \in Nat /\ active \in 1 .. Len(endpoints) /\ position \in 1 .. Len(endpoints)
      /\ Len(endpoints) > 1
  BY DEF TypeInv, TypeOK, ActiveExists
<1>2. /\ endpoints' \in Seq(Urls) /\ IsInjective(endpoints') /\ endpoints' # <<>>
      /\ Len(endpoints') = Len(endpoints) - 1
      /\ \A n \in 1 .. Len(endpoints) - 1 :
           endpoints'[n] = IF n < position THEN endpoints[n] ELSE endpoints[n + 1]
  BY <1>1, Shorter
<1>3. CASE active > position
  <2>1. active' = active - 1 /\ active' \in 1 .. Len(endpoints) - 1 /\ ~(active' < position)
        /\ active' + 1 = active
    BY <1>1, <1>3 DEF IndexWithout
  <2>2. active' \in DOMAIN endpoints'
    BY <1>2, <2>1
  <2> QED  BY <1>2, <2>1, <2>2
<1>4. CASE active < position
  <2>1. active' = active /\ active' \in 1 .. Len(endpoints) - 1 /\ active' < position
    BY <1>1, <1>4 DEF IndexWithout
  <2>2. active' \in DOMAIN endpoints'
    BY <1>2, <2>1
  <2> QED  BY <1>2, <2>1, <2>2
<1>5. active > position \/ active < position
  BY <1>1
<1> QED  BY <1>3, <1>4, <1>5

\* The position of a url that is in the list.
LEMMA SetTyped ==
  ASSUME TypeInv, NEW url \in Urls, RpcSet(url)
  PROVE  /\ endpoints' \in Seq(Urls) /\ IsInjective(endpoints') /\ endpoints' # <<>>
         /\ active' \in DOMAIN endpoints' /\ active' \in Nat /\ endpoints'[active'] = url
         /\ connection' = url /\ client' = url
         /\ \A n \in DOMAIN endpoints : n \in DOMAIN endpoints' /\ endpoints'[n] = endpoints[n]
<1>1. CASE Contains(endpoints, url)
  <2>1. endpoints' = endpoints /\ \E p \in DOMAIN endpoints : endpoints[p] = url
    BY <1>1 DEF RpcSet, Contains, TypeInv, TypeOK
  <2>2. active' = CHOOSE p \in DOMAIN endpoints' : endpoints'[p] = url
    BY DEF RpcSet, Connect
  <2>3. active' \in DOMAIN endpoints' /\ endpoints'[active'] = url
    BY <2>1, <2>2
  <2> QED  BY <2>1, <2>3 DEF RpcSet, Connect, TypeInv, TypeOK
<1>2. CASE ~Contains(endpoints, url)
  <2>1. endpoints' = Append(endpoints, url)
    BY <1>2 DEF RpcSet
  <2>2. /\ endpoints' \in Seq(Urls) /\ IsInjective(endpoints') /\ endpoints' # <<>>
        /\ Len(endpoints') = Len(endpoints) + 1 /\ endpoints'[Len(endpoints')] = url
        /\ \A n \in DOMAIN endpoints : n \in DOMAIN endpoints' /\ endpoints'[n] = endpoints[n]
    BY <1>2, <2>1, Appended
  <2>3. Len(endpoints') \in DOMAIN endpoints'
    BY <2>2 DEF TypeInv, TypeOK
  <2>4. active' = CHOOSE p \in DOMAIN endpoints' : endpoints'[p] = url
    BY DEF RpcSet, Connect
  <2>5. active' \in DOMAIN endpoints' /\ endpoints'[active'] = url
    BY <2>2, <2>3, <2>4
  <2> QED  BY <2>2, <2>5 DEF RpcSet, Connect
<1> QED  BY <1>1, <1>2

LEMMA EditedTyped ==
  ASSUME TypeInv, failover' = Edited
  PROVE  /\ failover' \in Failovers \cup {None} /\ (failover' = None <=> failover = None)
         /\ failover # None => /\ failover'.edited /\ failover'.phase = failover.phase
                              /\ failover'.idx = failover.idx /\ failover'.url = failover.url
<1>1. CASE failover = None
  BY <1>1 DEF Edited
<1>2. CASE failover # None
  <2>1. failover \in Failovers /\ failover' = [failover EXCEPT !.edited = TRUE]
    BY <1>2 DEF Edited, TypeInv, TypeOK
  <2>2. /\ failover' \in Failovers /\ failover'.edited /\ failover'.phase = failover.phase
        /\ failover'.idx = failover.idx /\ failover'.url = failover.url
    BY <2>1 DEF Failovers
  <2> QED  BY <1>2, <2>2, RpcAssumption DEF RpcAssumption
<1> QED  BY <1>1, <1>2

LEMMA TypeStep == TypeInv /\ KnowsPosition /\ [Next]_vars => TypeInv'
<1> SUFFICES ASSUME TypeInv, KnowsPosition, [Next]_vars PROVE TypeInv'
  OBVIOUS
<1> USE RpcAssumption DEF RpcAssumption
<1>1. ASSUME SwitchOver PROVE TypeInv'
  <2>1. failover \in Failovers
    BY <1>1 DEF SwitchOver, TypeInv, TypeOK
  <2>2. failover.idx \in Nat /\ failover.url \in Urls
    BY <2>1 DEF Failovers
  <2>3. failover.phase = "look" /\ FailoverEnds /\ UNCHANGED <<endpoints, health, ahead, disturbed, counters>>
    BY <1>1 DEF SwitchOver
  <2>4. /\ failover' = None /\ trade' = "idle" /\ monitor' \in [at : {"idle", "checking"}, seen : Readings]
    BY <2>3, EndsTyped
  <2>5. active' \in Nat /\ (disturbed' \/ active' \in DOMAIN endpoints')
        /\ connection' \in Urls /\ client' \in Urls
        /\ cooling' \in BOOLEAN /\ allDown' \in {"no", "fresh", "old"} /\ degraded' \in BOOLEAN
    <3>1. CASE ActiveExists
      <4>1. /\ active' = failover.idx /\ connection' = failover.url /\ client' = failover.url
            /\ degraded' = FALSE /\ cooling' = TRUE /\ allDown' = "no"
        BY <1>1, <3>1 DEF SwitchOver, Connect
      <4>2. disturbed \/ failover.idx \in DOMAIN endpoints
        BY <1>1 DEF SwitchOver, KnowsPosition
      <4> QED  BY <2>2, <2>3, <4>1, <4>2
    <3>2. CASE ~ActiveExists
      BY <1>1, <3>2 DEF SwitchOver, TypeInv, TypeOK
    <3> QED  BY <3>1, <3>2
  <2> QED  BY <2>3, <2>4, <2>5 DEF TypeInv, TypeOK, counters
<1>2. ASSUME TryNext PROVE TypeInv'
  <2>1. failover \in Failovers /\ failover.i + 1 \in Nat
    BY <1>2 DEF TryNext, TypeInv, TypeOK, Failovers
  <2>2. CASE FailoverEnds /\ UNCHANGED ahead
    BY <1>2, <2>2, EndsTyped DEF TryNext, TypeInv, TypeOK, list, counters
  <2>3. CASE /\ RoundLeft(NextRound(failover.i + 1)) \/ ActiveExists
             /\ UNCHANGED <<monitor, trade>> /\ Check(failover'.url)
             /\ failover' = NextCheck(failover.i + 1, failover.found \cup {failover.url}, failover.edited)
    <3>1. failover.found \cup {failover.url} \in SUBSET Urls /\ failover.edited \in BOOLEAN
      BY <2>1 DEF Failovers
    <3>2. failover' \in Failovers
      BY <2>1, <2>3, <3>1, NextCheckTrue
    <3>3. failover'.url \in Urls
      BY <3>2 DEF Failovers
    <3>4. ahead' \subseteq Urls
      BY <2>3, <3>3, CheckTyped
    <3> QED  BY <1>2, <2>3, <3>2, <3>4 DEF TryNext, TypeInv, TypeOK, list, counters
  <2> QED  BY <1>2, <2>2, <2>3 DEF TryNext
<1>3. ASSUME Recheck PROVE TypeInv'
  <2>1. allDown' \in {"no", "fresh", "old"}
    BY <1>3 DEF Recheck, TypeInv, TypeOK
  <2> QED  BY <1>3, <2>1, EndsTyped DEF Recheck, TypeInv, TypeOK, list, counters
<1>4. ASSUME MonitorTick PROVE TypeInv'
  <2>1. endpoints[active] \in Urls
    BY <1>4 DEF MonitorTick, TypeInv, TypeOK, ActiveExists
  <2>2. Reading(endpoints[active]) \in Readings /\ ahead' \subseteq Urls
    BY <1>4, <2>1, CheckTyped DEF MonitorTick
  <2> QED  BY <1>4, <2>2 DEF MonitorTick, TypeInv, TypeOK, list, counters
<1>5. ASSUME MonitorGood PROVE TypeInv'
  BY <1>5 DEF MonitorGood, TypeInv, TypeOK, list, counters
<1>6. ASSUME MonitorBad PROVE TypeInv'
  <2>1. /\ failover' \in Failovers \cup {None}
        /\ failover' = None => failover = None
        /\ \/ monitor' = [monitor EXCEPT !.at = "waiting"] /\ failover' # None
           \/ monitor' = [monitor EXCEPT !.at = "idle"]
        /\ ahead' \subseteq Urls
    BY <1>6, RequestTrue DEF MonitorBad, TypeInv, TypeOK
  <2>2. UNCHANGED <<list, cooling, allDown, trade, degraded, health, disturbed, counters>>
    BY <1>6 DEF MonitorBad
  <2> QED  BY <2>1, <2>2 DEF TypeInv, TypeOK, list, counters
<1>7. ASSUME TradeFails PROVE TypeInv'
  <2>1. failover' \in Failovers /\ failover' # None /\ ahead' \subseteq Urls
    BY <1>7, RequestTrue DEF TradeFails
  <2>2. trades' \in 0 .. MaxTrades
    BY <1>7 DEF TradeFails, TypeInv, TypeOK
  <2> QED  BY <1>7, <2>1, <2>2 DEF TradeFails, TypeInv, TypeOK, list
<1>8. ASSUME NEW url \in Urls, RpcAdd(url) PROVE TypeInv'
  <2>1. endpoints' \in Seq(Urls) /\ IsInjective(endpoints') /\ endpoints' # <<>>
        /\ \A n \in DOMAIN endpoints : n \in DOMAIN endpoints'
    BY <1>8, Appended DEF RpcAdd
  <2>2. failover' \in Failovers \cup {None} /\ (failover' = None <=> failover = None)
    BY <1>8, EditedTyped DEF RpcAdd
  <2>3. edits' \in 0 .. MaxEdits
    BY <1>8 DEF RpcAdd, Edit, TypeInv, TypeOK
  <2> QED  BY <1>8, <2>1, <2>2, <2>3 DEF RpcAdd, Edit, TypeInv, TypeOK
<1>9. ASSUME NEW url \in Urls, RpcSet(url) PROVE TypeInv'
  <2>1. failover' \in Failovers \cup {None} /\ (failover' = None <=> failover = None)
    BY <1>9, EditedTyped DEF RpcSet
  <2>2. edits' \in 0 .. MaxEdits
    BY <1>9 DEF RpcSet, Edit, TypeInv, TypeOK
  <2>3. degraded' = FALSE /\ UNCHANGED <<ahead, disturbed, cooling, allDown, monitor, trade, health, changes, trades>>
    BY <1>9 DEF RpcSet, Edit, Connect
  <2> QED  BY <1>9, <2>1, <2>2, <2>3, SetTyped DEF TypeInv, TypeOK
<1>10. ASSUME NEW position \in DOMAIN endpoints, RpcRemove(position) PROVE TypeInv'
  <2>1. /\ endpoints' \in Seq(Urls) /\ IsInjective(endpoints') /\ endpoints' # <<>>
        /\ active' \in DOMAIN endpoints' /\ active' \in Nat
    BY <1>10, RemovalTyped DEF RpcRemove
  <2>2. failover' \in Failovers \cup {None} /\ (failover' = None <=> failover = None)
    BY <1>10, EditedTyped DEF RpcRemove
  <2>3. edits' \in 0 .. MaxEdits /\ disturbed' \in BOOLEAN /\ ahead' \subseteq Urls
    BY <1>10 DEF RpcRemove, Edit, TypeInv, TypeOK
  <2> QED  BY <1>10, <2>1, <2>2, <2>3 DEF RpcRemove, Edit, TypeInv, TypeOK
<1>11. ASSUME DegradedCheck \/ CooledDown \/ AlarmAges PROVE TypeInv'
  BY <1>11 DEF DegradedCheck, CooledDown, AlarmAges, TypeInv, TypeOK, list, counters
<1>14. ASSUME RpcTest \/ SlotsAge PROVE TypeInv'
  <2>1. ahead' \subseteq Urls
    <3>1. ToSet(endpoints) \subseteq Urls /\ ahead \subseteq Urls
      BY DEF ToSet, TypeInv, TypeOK
    <3> QED  BY <1>14, <3>1 DEF RpcTest, SlotsAge
  <2>2. UNCHANGED <<list, cooling, allDown, failover, monitor, trade, degraded, health, disturbed, counters>>
    BY <1>14 DEF RpcTest, SlotsAge
  <2> QED  BY <2>1, <2>2 DEF TypeInv, TypeOK, list, counters
<1>12. ASSUME NEW url \in Urls, HealthChanges(url) PROVE TypeInv'
  <2>1. health' \in [Urls -> Healths] /\ changes' \in 0 .. MaxChanges
    BY <1>12 DEF HealthChanges, TypeInv, TypeOK
  <2> QED  BY <1>12, <2>1 DEF HealthChanges, TypeInv, TypeOK, list
<1>13. ASSUME UNCHANGED vars PROVE TypeInv'
  BY <1>13 DEF vars, TypeInv, TypeOK, list, counters
<1> QED
  BY <1>1, <1>2, <1>3, <1>4, <1>5, <1>6, <1>7, <1>8, <1>9, <1>10, <1>11, <1>12, <1>13,
     <1>14
  DEF Next, Manager

-----------------------------------------------------------------------------
\* The failover in flight and the connection

\* A failover begins, or goes on to the next endpoint.
Begins == failover = None /\ ActiveExists /\ failover' = NextCheck(0, {}, FALSE)
GoesOn ==
  /\ failover # None /\ failover.phase = "look"
  /\ RoundLeft(NextRound(failover.i + 1)) \/ ActiveExists
  /\ failover' = NextCheck(failover.i + 1, failover.found \cup {failover.url}, failover.edited)

LEMMA StepKinds ==
  ASSUME [Next]_vars
  PROVE  \/ SwitchOver
         \/ \E url \in Urls : RpcAdd(url) \/ RpcSet(url)
         \/ \E position \in DOMAIN endpoints : RpcRemove(position)
         \/ UNCHANGED <<list, disturbed>> /\ (failover' = failover \/ failover' = None \/ Begins \/ GoesOn)
<1>1. ASSUME RequestFailover, ActiveExists PROVE failover' = failover \/ Begins
  BY <1>1 DEF RequestFailover, Begins
<1>2. ASSUME TryNext PROVE UNCHANGED <<list, disturbed>> /\ (failover' = None \/ GoesOn)
  BY <1>2 DEF TryNext, FailoverEnds, GoesOn
<1>3. ASSUME Recheck PROVE UNCHANGED <<list, disturbed>> /\ failover' = None
  BY <1>3 DEF Recheck, FailoverEnds
<1>4. ASSUME MonitorBad \/ TradeFails
      PROVE  UNCHANGED <<list, disturbed>> /\ (failover' = failover \/ Begins)
  BY <1>1, <1>4 DEF MonitorBad, TradeFails
<1>5. ASSUME \/ MonitorTick \/ MonitorGood \/ DegradedCheck \/ CooledDown \/ AlarmAges
             \/ RpcTest \/ SlotsAge
             \/ \E url \in Urls : HealthChanges(url)
             \/ UNCHANGED vars
      PROVE  UNCHANGED <<list, disturbed, failover>>
  BY <1>5 DEF MonitorTick, MonitorGood, DegradedCheck, CooledDown, AlarmAges, RpcTest, SlotsAge,
              HealthChanges, vars
<1> QED  BY <1>2, <1>3, <1>4, <1>5 DEF Next, Manager

\* What a failover knows when it has just asked.
LEMMA AskedTrue ==
  ASSUME TypeInv, Begins \/ GoesOn
  PROVE  /\ failover' \in Failovers
         /\ failover'.idx \in DOMAIN endpoints /\ failover'.url = endpoints[failover'.idx]
<1>1. CASE Begins
  BY <1>1, NextCheckTrue DEF Begins
<1>2. CASE GoesOn
  <2>1. failover \in Failovers
    BY <1>2 DEF GoesOn, TypeInv, TypeOK
  <2>2. failover.i + 1 \in Nat /\ failover.found \cup {failover.url} \in SUBSET Urls /\ failover.edited \in BOOLEAN
    BY <2>1 DEF Failovers
  <2> QED  BY <1>2, <2>2, NextCheckTrue DEF GoesOn
<1> QED  BY <1>1, <1>2

LEMMA ConnectedStep ==
  TypeInv /\ KnowsPosition /\ ActiveIsConnected /\ [Next]_vars => KnowsPosition' /\ ActiveIsConnected'
<1> SUFFICES ASSUME TypeInv, KnowsPosition, ActiveIsConnected, [Next]_vars
             PROVE  KnowsPosition' /\ ActiveIsConnected'
  OBVIOUS
<1>1. CASE SwitchOver
  <2>1. failover' = None /\ UNCHANGED <<endpoints, disturbed>>
    BY <1>1 DEF SwitchOver, FailoverEnds
  <2>2. CASE ActiveExists
    <3>1. active' = failover.idx /\ connection' = failover.url /\ client' = failover.url
      BY <1>1, <2>2 DEF SwitchOver, Connect
    <3>2. ~disturbed => failover.idx \in DOMAIN endpoints /\ endpoints[failover.idx] = failover.url
      BY <1>1 DEF SwitchOver, KnowsPosition
    <3> QED  BY <2>1, <3>1, <3>2 DEF KnowsPosition, ActiveIsConnected, ActiveExists
  <2>3. CASE ~ActiveExists
    <3>1. UNCHANGED <<active, connection, client>>
      BY <1>1, <2>3 DEF SwitchOver
    <3> QED  BY <2>1, <3>1 DEF KnowsPosition, ActiveIsConnected, ActiveExists
  <2> QED  BY <2>2, <2>3
<1>2. ASSUME NEW url \in Urls, RpcAdd(url) PROVE KnowsPosition' /\ ActiveIsConnected'
  <2>1. /\ \A n \in DOMAIN endpoints : n \in DOMAIN endpoints' /\ endpoints'[n] = endpoints[n]
        /\ UNCHANGED <<active, connection, client, disturbed>>
    BY <1>2, Appended DEF RpcAdd
  <2>2. KnowsPosition'
    BY <1>2, <2>1, EditedTyped DEF RpcAdd, KnowsPosition
  <2> QED  BY <2>1, <2>2 DEF ActiveIsConnected, ActiveExists
<1>3. ASSUME NEW url \in Urls, RpcSet(url) PROVE KnowsPosition' /\ ActiveIsConnected'
  <2>1. failover' = Edited /\ disturbed' = disturbed
    BY <1>3 DEF RpcSet
  <2>2. KnowsPosition'
    BY <1>3, <2>1, SetTyped, EditedTyped DEF KnowsPosition
  <2> QED  BY <1>3, <2>2, SetTyped DEF ActiveIsConnected, ActiveExists
<1>4. ASSUME NEW position \in DOMAIN endpoints, RpcRemove(position)
      PROVE  KnowsPosition' /\ ActiveIsConnected'
  <2>1. /\ ActiveExists /\ position # active
        /\ endpoints' = RemoveAt(endpoints, position) /\ active' = IndexWithout(position)
        /\ failover' = Edited /\ UNCHANGED <<connection, client>>
        /\ disturbed' = (disturbed \/ (failover # None /\ failover.phase = "look" /\ position <= failover.idx))
    BY <1>4 DEF RpcRemove
  <2>2. /\ active' \in DOMAIN endpoints' /\ endpoints'[active'] = endpoints[active]
        /\ endpoints' \in Seq(Urls) /\ Len(endpoints') = Len(endpoints) - 1
        /\ \A n \in 1 .. Len(endpoints) - 1 :
             endpoints'[n] = IF n < position THEN endpoints[n] ELSE endpoints[n + 1]
    BY <2>1, RemovalTyped
  <2>3. ActiveIsConnected'
    BY <2>1, <2>2 DEF ActiveIsConnected, ActiveExists
  <2>4. ASSUME failover' # None, failover'.phase = "look", ~disturbed'
        PROVE  failover'.idx \in DOMAIN endpoints' /\ endpoints'[failover'.idx] = failover'.url
    <3>1. /\ failover # None /\ failover.phase = "look" /\ ~disturbed
          /\ failover'.idx = failover.idx /\ failover'.url = failover.url
      BY <2>1, <2>4, EditedTyped
    <3>2. /\ failover.idx \in DOMAIN endpoints /\ endpoints[failover.idx] = failover.url
          /\ ~(position <= failover.idx)
      BY <2>1, <2>4, <3>1 DEF KnowsPosition
    <3>3. /\ failover.idx \in 1 .. Len(endpoints) - 1 /\ failover.idx < position
          /\ DOMAIN endpoints' = 1 .. Len(endpoints) - 1
      BY <2>2, <3>2 DEF TypeInv, TypeOK
    <3> QED  BY <2>2, <3>1, <3>2, <3>3
  <2> QED  BY <2>3, <2>4 DEF KnowsPosition
<1>5. ASSUME UNCHANGED <<list, disturbed>>,
             failover' = failover \/ failover' = None \/ Begins \/ GoesOn
      PROVE  KnowsPosition' /\ ActiveIsConnected'
  <2>1. ActiveIsConnected'
    BY <1>5 DEF list, ActiveIsConnected, ActiveExists
  <2>2. CASE failover' = failover \/ failover' = None
    BY <1>5, <2>1, <2>2 DEF list, KnowsPosition
  <2>3. CASE Begins \/ GoesOn
    BY <1>5, <2>1, <2>3, AskedTrue DEF list, KnowsPosition
  <2> QED  BY <1>5, <2>1, <2>2, <2>3
<1> QED  BY <1>1, <1>2, <1>3, <1>4, <1>5, StepKinds

LEMMA ConnectedInit == Init => KnowsPosition /\ ActiveIsConnected
<1> SUFFICES ASSUME Init PROVE KnowsPosition /\ ActiveIsConnected
  OBVIOUS
<1>1. active \in DOMAIN endpoints
  BY TypeInit DEF Init, TypeInv, TypeOK
<1> QED  BY <1>1 DEF Init, KnowsPosition, ActiveIsConnected, ActiveExists

-----------------------------------------------------------------------------
\* What a failover has asked

LEMMA ThoroughStep == IInv /\ [Next]_vars => Thorough'
<1> SUFFICES ASSUME IInv, [Next]_vars, failover' # None, ~failover'.edited PROVE
             /\ ActiveExists'
             /\ Asked(failover.i, failover.found)'
             /\ failover'.phase = "look" =>
                  failover'.idx = Idx(failover.i)' /\ failover'.url = endpoints'[failover'.idx]
             /\ failover'.phase = "recheck" =>
                  failover'.i >= Len(endpoints') /\ failover'.url = endpoints'[active']
  BY DEF Thorough
<1> USE DEF IInv
<1>1. ~SwitchOver
  BY DEF SwitchOver, FailoverEnds
<1>2. ASSUME failover' = Edited PROVE FALSE
  BY <1>2, EditedTyped
<1>3. /\ UNCHANGED <<list, disturbed>>
      /\ failover' = failover \/ Begins \/ GoesOn
  BY <1>1, <1>2, StepKinds DEF RpcAdd, RpcSet, RpcRemove
<1>4. UNCHANGED <<endpoints, active>>
  BY <1>3 DEF list
<1>5. CASE failover' = failover
  BY <1>4, <1>5 DEF Thorough, ActiveExists, Asked, Idx
<1>6. ASSUME NEW i \in Nat, NEW found \in SUBSET Urls, NEW edited \in BOOLEAN,
             ActiveExists, Asked(i, found), failover' = NextCheck(i, found, edited)
      PROVE  /\ ActiveExists'
             /\ Asked(failover.i, failover.found)'
             /\ failover'.phase = "look" =>
                  failover'.idx = Idx(failover.i)' /\ failover'.url = endpoints'[failover'.idx]
             /\ failover'.phase = "recheck" =>
                  failover'.i >= Len(endpoints') /\ failover'.url = endpoints'[active']
  <2>1. /\ failover'.found = found /\ failover'.url = endpoints[failover'.idx]
        /\ Asked(failover'.i, found)
        /\ failover'.phase = "look" => failover'.idx = Idx(failover'.i)
        /\ failover'.phase = "recheck" => failover'.i >= Len(endpoints) /\ failover'.idx = active
    BY <1>6, NextCheckTrue
  <2> QED  BY <1>4, <1>6, <2>1 DEF ActiveExists, Asked, Idx
<1>7. CASE Begins
  <2>1. Asked(0, {})
    BY DEF Asked
  <2> QED  BY <1>6, <1>7, <2>1 DEF Begins
<1>8. CASE GoesOn
  <2>1. failover \in Failovers
    BY <1>8 DEF GoesOn, TypeInv, TypeOK
  <2>2. /\ failover.i + 1 \in Nat /\ failover.found \cup {failover.url} \in SUBSET Urls
        /\ failover.edited \in BOOLEAN /\ failover.i \in Nat
    BY <2>1 DEF Failovers
  <2>3. ~failover.edited
    BY <1>8, <2>2, NextCheckTrue DEF GoesOn
  <2>4. /\ ActiveExists /\ Asked(failover.i, failover.found)
        /\ failover.url = endpoints[Idx(failover.i)]
    BY <1>8, <2>3 DEF GoesOn, Thorough
  <2>5. Asked(failover.i + 1, failover.found \cup {failover.url})
    <3> SUFFICES ASSUME NEW m \in 0 .. (failover.i + 1) - 1, Idx(m) # active
                 PROVE  endpoints[Idx(m)] \in failover.found \cup {failover.url}
      BY DEF Asked
    <3>1. m \in 0 .. failover.i - 1 \/ m = failover.i
      BY <2>2
    <3> QED  BY <2>4, <3>1 DEF Asked
  <2> QED  BY <1>6, <1>8, <2>2, <2>4, <2>5 DEF GoesOn
<1> QED  BY <1>3, <1>5, <1>7, <1>8

LEMMA IInvariant == Spec => []IInv
<1>1. Init => IInv
  BY TypeInit, ConnectedInit DEF Init, IInv, Thorough
<1>2. IInv /\ [Next]_vars => IInv'
  BY TypeStep, ConnectedStep, ThoroughStep DEF IInv
<1> QED  BY <1>1, <1>2, PTL DEF Spec

\* The endpoints, the failover in flight and the counters keep their types; activeIndex
\* names an endpoint unless one was removed while a failover asked for it.
THEOREM TypeCorrect == Spec => []TypeOK
BY IInvariant, PTL DEF IInv, TypeInv

\* The endpoint the manager names is the one it and the client are connected to.
THEOREM ActiveIsConnectedHolds == Spec => []ActiveIsConnected
BY IInvariant, PTL DEF IInv

\* All endpoints are declared down only by a failover that asked each of them, unless
\* the list was changed under it.
THEOREM NoFalseAlarmHolds == Spec => NoFalseAlarm
<1> DEFINE Alarm == allDown' = "fresh" /\ allDown # "fresh" /\ ~failover.edited =>
                      ToSet(endpoints) \subseteq failover.found \cup {failover.url}
<1>1. IInv /\ [Next]_vars => [Alarm]_vars
  <2> SUFFICES ASSUME IInv, [Next]_vars, allDown' = "fresh", allDown # "fresh", ~failover.edited,
                      NEW p \in DOMAIN endpoints
               PROVE  endpoints[p] \in failover.found \cup {failover.url}
    BY DEF ToSet
  <2> USE DEF IInv
  <2>1. Recheck
    BY DEF Next, Manager, SwitchOver, TryNext, MonitorTick, MonitorGood, MonitorBad, TradeFails,
           RpcAdd, RpcSet, RpcRemove, Edit, DegradedCheck, CooledDown, AlarmAges, RpcTest, SlotsAge,
           HealthChanges, vars
  <2>2. /\ ActiveExists /\ Asked(failover.i, failover.found)
        /\ failover.i >= Len(endpoints) /\ failover.url = endpoints[active]
        /\ failover \in Failovers
    BY <2>1 DEF Recheck, Thorough, TypeInv, TypeOK
  <2>3. PICK m \in 0 .. Len(endpoints) - 1 : Idx(m) = p
    BY <2>2, EveryRound DEF ActiveExists, TypeInv, TypeOK
  <2>4. m \in 0 .. failover.i - 1
    BY <2>2 DEF Failovers, TypeInv, TypeOK
  <2>5. p # active => endpoints[p] \in failover.found
    BY <2>2, <2>3, <2>4 DEF Asked
  <2> QED  BY <2>2, <2>5
<1>2. NoFalseAlarm <=> [][Alarm]_vars
  BY DEF NoFalseAlarm
<1> QED  BY <1>1, <1>2, IInvariant, PTL DEF Spec
=============================================================================
