-------------------------- MODULE RequestsProofs ---------------------------
(***************************************************************************)
(* How requests are let in and answered, for any callers, tokens, queries  *)
(* and loads: a rate limiter whose visitors are forgotten grants what one  *)
(* bucket per client would (provided a silent client has refilled before   *)
(* it is forgotten, LimiterAssumption); no answer shows anybody what is not*)
(* theirs; and a loader gives each waiter its own, fresh enough, answer.   *)
(***************************************************************************)
EXTENDS RateLimiter, GraphServer, Loaders, FiniteSetTheorems, TLAPS

-----------------------------------------------------------------------------
(* The rate limiter                                                        *)

\* The inductive invariant.  A forgotten visitor must have been full (from
\* SilentRefilled), and a request must take its token from the bucket its client
\* has now (AskedIsMapped) and from no other's (OwnLimiters).
LimiterInv == LimiterTypeOK /\ OwnLimiters /\ AskedIsMapped /\ SilentRefilled

\* The product is never computed: all that matters is that a full limiter has at
\* least one token and is refilled within Idle, less a slow request's pause.
LEMMA FullFacts == Full \in Nat /\ Full >= Period /\ Full + Stall <= Idle
<1>1. Burst \in Nat /\ Period \in Nat /\ Burst >= 1
  BY LimiterAssumption
<1>2. \A b, p \in Nat : b >= 1 => b * p \in Nat /\ b * p >= p
  OBVIOUS
<1> QED BY <1>1, <1>2, LimiterAssumption DEF Full

LEMMA RefilledFacts ==
  ASSUME NEW n \in 0 .. Full
  PROVE  /\ Refilled(n) \in 0 .. Full /\ Refilled(n) >= n
         /\ Refilled(n) = Full \/ Refilled(n) = n + 1
BY FullFacts DEF Refilled

\* The type invariant's conjuncts, so that each is proved where it is disturbed.
CallerType == [at : {"idle", "looked", "granted", "refused"}, key : Keys \cup {NoLimiter},
               limiter : Limiters \cup {NoLimiter}, age : 0 .. Stall]

LEMMA IdlingType == \A a \in {"idle", "granted", "refused"} :
                      [Idling EXCEPT !.at = a] \in CallerType
BY LimiterAssumption DEF Idling, CallerType

LEMMA InitInv == LimiterInit => LimiterInv
<1> SUFFICES ASSUME LimiterInit PROVE LimiterInv
  OBVIOUS
<1>1. visitors \in [Keys -> Limiters \cup {NoLimiter}] /\ stopped \in BOOLEAN
  BY DEF LimiterInit
<1>2. lastSeen \in [Keys -> 0 .. Idle + 1]
  BY LimiterAssumption DEF LimiterInit
<1>3. credit \in [Limiters -> 0 .. Full]
  BY FullFacts DEF LimiterInit
<1>4. Idling \in CallerType
  BY LimiterAssumption DEF Idling, CallerType
<1>5. caller \in [Callers -> CallerType]
  BY <1>4 DEF LimiterInit
<1>6. LimiterTypeOK
  BY <1>1, <1>2, <1>3, <1>5 DEF LimiterTypeOK, CallerType
<1>7. OwnLimiters /\ SilentRefilled
  BY DEF LimiterInit, OwnLimiters, SilentRefilled
<1>8. AskedIsMapped
  BY DEF LimiterInit, AskedIsMapped, Idling
<1> QED BY <1>6, <1>7, <1>8 DEF LimiterInv

LEMMA GetVisitorKeepsInv ==
  ASSUME LimiterInv, NEW c \in Callers, NEW k \in Keys, GetVisitor(c, k)
  PROVE  LimiterInv'
<1> PICK l \in Limiters :
         /\ Known(k, l) \/ NewVisitor(k, l)
         /\ caller' = [caller EXCEPT ![c] = [at |-> "looked", key |-> k, limiter |-> l, age |-> 0]]
  BY DEF GetVisitor
<1> USE LimiterAssumption
<1>1. /\ visitors \in [Keys -> Limiters \cup {NoLimiter}] /\ lastSeen \in [Keys -> 0 .. Idle + 1]
      /\ credit \in [Limiters -> 0 .. Full] /\ caller \in [Callers -> CallerType]
  BY DEF LimiterInv, LimiterTypeOK, CallerType
<1>2. /\ visitors' \in [Keys -> Limiters \cup {NoLimiter}] /\ visitors'[k] = l
      /\ \A j \in Keys : visitors[j] # NoLimiter => visitors'[j] = visitors[j]
      /\ \A j \in Keys \ {k} : visitors'[j] = visitors[j]
  BY <1>1 DEF Known, NewVisitor
<1>3. lastSeen' = [lastSeen EXCEPT ![k] = 0] /\ lastSeen' \in [Keys -> 0 .. Idle + 1]
  BY <1>1 DEF Known, NewVisitor
<1>4. /\ credit' \in [Limiters -> 0 .. Full]
      /\ \A j \in Keys : visitors[j] # NoLimiter => credit'[visitors[j]] = credit[visitors[j]]
  BY <1>1, FullFacts DEF Known, NewVisitor, SpareLimiter
<1>5. [at |-> "looked", key |-> k, limiter |-> l, age |-> 0] \in CallerType
  BY DEF CallerType
<1>6. caller' \in [Callers -> CallerType]
  BY <1>1, <1>5
<1>7. stopped' \in BOOLEAN
  BY DEF GetVisitor, LimiterInv, LimiterTypeOK
<1>8. LimiterTypeOK'
  BY <1>2, <1>3, <1>4, <1>6, <1>7 DEF LimiterTypeOK, CallerType
<1>9. OwnLimiters'
  BY <1>1, <1>2 DEF OwnLimiters, LimiterInv, Known, NewVisitor, SpareLimiter
<1>10. AskedIsMapped'
  <2> SUFFICES ASSUME NEW d \in Callers, caller'[d].at = "looked"
               PROVE  /\ caller'[d].key \in Keys /\ caller'[d].limiter \in Limiters
                      /\ visitors'[caller'[d].key] = caller'[d].limiter
                      /\ lastSeen'[caller'[d].key] <= caller'[d].age
    BY DEF AskedIsMapped
  <2>1. CASE d = c
    BY <2>1, <1>1, <1>2, <1>3
  <2>2. CASE d # c
    <3>1. caller'[d] = caller[d] /\ caller[d] \in CallerType
      BY <2>2, <1>1
    <3>2. /\ caller[d].key \in Keys /\ caller[d].limiter \in Limiters
          /\ visitors[caller[d].key] = caller[d].limiter
          /\ lastSeen[caller[d].key] <= caller[d].age
      BY <3>1 DEF LimiterInv, AskedIsMapped
    <3>3. caller[d].age \in 0 .. Stall
      BY <3>1 DEF CallerType
    <3>4. lastSeen'[caller[d].key] <= caller[d].age
      BY <1>1, <1>3, <3>2, <3>3
    <3> QED BY <1>2, <3>1, <3>2, <3>4
  <2> QED BY <2>1, <2>2
<1>11. SilentRefilled'
  <2> SUFFICES ASSUME NEW j \in Keys, visitors'[j] # NoLimiter
               PROVE  credit'[visitors'[j]] = Full \/ credit'[visitors'[j]] + Stall >= lastSeen'[j]
    BY DEF SilentRefilled
  <2>1. CASE j = k
    <3>1. lastSeen'[j] = 0 /\ credit'[visitors'[j]] \in 0 .. Full
      BY <2>1, <1>1, <1>2, <1>3, <1>4
    <3> QED BY <3>1, FullFacts
  <2>2. CASE j # k
    <3>1. visitors'[j] = visitors[j] /\ lastSeen'[j] = lastSeen[j]
      BY <2>2, <1>1, <1>2, <1>3
    <3> QED BY <3>1, <1>4 DEF SilentRefilled, LimiterInv
  <2> QED BY <2>1, <2>2
<1> QED BY <1>8, <1>9, <1>10, <1>11 DEF LimiterInv
LEMMA AllowKeepsInv ==
  ASSUME LimiterInv, NEW c \in Callers, Allow(c)
  PROVE  LimiterInv'
<1> DEFINE l == caller[c].limiter
           k == caller[c].key
<1> USE LimiterAssumption
<1>1. /\ visitors \in [Keys -> Limiters \cup {NoLimiter}] /\ lastSeen \in [Keys -> 0 .. Idle + 1]
      /\ credit \in [Limiters -> 0 .. Full] /\ caller \in [Callers -> CallerType]
  BY DEF LimiterInv, LimiterTypeOK, CallerType
<1>2. /\ k \in Keys /\ l \in Limiters /\ visitors[k] = l
      /\ lastSeen[k] <= caller[c].age /\ caller[c].age \in 0 .. Stall
  BY <1>1 DEF Allow, LimiterInv, AskedIsMapped, CallerType
<1>3. UNCHANGED <<visitors, lastSeen, stopped>>
  BY DEF Allow
<1>4. /\ credit' \in [Limiters -> 0 .. Full]
      /\ \A m \in Limiters \ {l} : credit'[m] = credit[m]
  BY <1>1, <1>2, FullFacts DEF Allow
<1>5. PICK a \in {"granted", "refused"} : caller' = [caller EXCEPT ![c] = [Idling EXCEPT !.at = a]]
  BY DEF Allow, Answered
<1>6. caller' \in [Callers -> CallerType]
  BY <1>1, <1>5, IdlingType
<1>7. LimiterTypeOK'
  BY <1>1, <1>3, <1>4, <1>6 DEF LimiterTypeOK, CallerType, LimiterInv
<1>8. OwnLimiters'
  BY <1>3 DEF OwnLimiters, LimiterInv
<1>9. AskedIsMapped'
  <2>1. \A d \in Callers : caller'[d].at = "looked" => d # c /\ caller'[d] = caller[d]
    BY <1>1, <1>5 DEF Idling
  <2> QED BY <1>3, <2>1 DEF AskedIsMapped, LimiterInv
<1>10. SilentRefilled'
  <2> SUFFICES ASSUME NEW j \in Keys, visitors[j] # NoLimiter
               PROVE  credit'[visitors[j]] = Full \/ credit'[visitors[j]] + Stall >= lastSeen[j]
    BY <1>3 DEF SilentRefilled
  <2>1. CASE j = k
    <3>1. credit'[visitors[j]] \in 0 .. Full /\ lastSeen[j] \in 0 .. Stall
      BY <2>1, <1>1, <1>2, <1>4
    <3> QED BY <3>1, FullFacts
  <2>2. CASE j # k
    <3>1. visitors[j] \in Limiters \ {l}
      BY <2>2, <1>1, <1>2 DEF LimiterInv, OwnLimiters
    <3> QED BY <3>1, <1>4 DEF LimiterInv, SilentRefilled
  <2> QED BY <2>1, <2>2
<1> QED BY <1>7, <1>8, <1>9, <1>10 DEF LimiterInv

LEMMA DoneKeepsInv ==
  ASSUME LimiterInv, NEW c \in Callers, Done(c)
  PROVE  LimiterInv'
<1>1. caller' = [caller EXCEPT ![c] = [Idling EXCEPT !.at = "idle"]]
  BY DEF Done, Answered
<1>2. UNCHANGED <<visitors, lastSeen, credit, stopped>>
  BY DEF Done
<1>3. caller \in [Callers -> CallerType]
  BY DEF LimiterInv, LimiterTypeOK, CallerType
<1>4. caller' \in [Callers -> CallerType]
  BY <1>1, <1>3, IdlingType
<1>5. LimiterTypeOK'
  BY <1>2, <1>4 DEF LimiterInv, LimiterTypeOK, CallerType
<1>6. OwnLimiters' /\ SilentRefilled'
  BY <1>2 DEF LimiterInv, OwnLimiters, SilentRefilled
<1>7. AskedIsMapped'
  <2>1. \A d \in Callers : caller'[d].at = "looked" => caller'[d] = caller[d]
    BY <1>1, <1>3 DEF Idling
  <2> QED BY <1>2, <2>1 DEF LimiterInv, AskedIsMapped
<1> QED BY <1>5, <1>6, <1>7 DEF LimiterInv

\* The cleanup touches only visitors silent for longer than any request pauses,
\* so none of them is being asked.
LEMMA CleanupKeepsInv ==
  ASSUME LimiterInv, Cleanup
  PROVE  LimiterInv'
<1> USE LimiterAssumption
<1>1. /\ visitors \in [Keys -> Limiters \cup {NoLimiter}] /\ lastSeen \in [Keys -> 0 .. Idle + 1]
      /\ credit \in [Limiters -> 0 .. Full] /\ caller \in [Callers -> CallerType]
  BY DEF LimiterInv, LimiterTypeOK, CallerType
<1>2. UNCHANGED <<credit, caller, stopped>>
  BY DEF Cleanup
<1>3. /\ visitors' = [k \in Keys |-> IF lastSeen[k] > Idle THEN NoLimiter ELSE visitors[k]]
      /\ lastSeen' = [k \in Keys |-> IF lastSeen[k] > Idle THEN 0 ELSE lastSeen[k]]
  BY DEF Cleanup
<1>4. \A k \in Keys : visitors'[k] # NoLimiter =>
         visitors'[k] = visitors[k] /\ lastSeen'[k] = lastSeen[k]
  BY <1>3
<1>5. LimiterTypeOK'
  <2>1. visitors' \in [Keys -> Limiters \cup {NoLimiter}]
    BY <1>1, <1>3
  <2>2. lastSeen' \in [Keys -> 0 .. Idle + 1]
    BY <1>1, <1>3
  <2> QED BY <1>2, <2>1, <2>2 DEF LimiterTypeOK, LimiterInv
<1>6. OwnLimiters' /\ SilentRefilled'
  BY <1>2, <1>4 DEF LimiterInv, OwnLimiters, SilentRefilled
<1>7. AskedIsMapped'
  <2> SUFFICES ASSUME NEW d \in Callers, caller[d].at = "looked"
               PROVE  /\ caller[d].key \in Keys /\ caller[d].limiter \in Limiters
                      /\ visitors'[caller[d].key] = caller[d].limiter
                      /\ lastSeen'[caller[d].key] <= caller[d].age
    BY <1>2 DEF AskedIsMapped
  <2>1. /\ caller[d].key \in Keys /\ caller[d].limiter \in Limiters
        /\ visitors[caller[d].key] = caller[d].limiter
        /\ lastSeen[caller[d].key] <= caller[d].age
    BY DEF LimiterInv, AskedIsMapped
  <2>2. caller[d].age \in 0 .. Stall
    BY <1>1 DEF CallerType
  <2>3. ~(lastSeen[caller[d].key] > Idle)
    BY <1>1, <2>1, <2>2, FullFacts
  <2> QED BY <1>3, <2>1, <2>3
<1> QED BY <1>5, <1>6, <1>7 DEF LimiterInv

LEMMA TickKeepsInv ==
  ASSUME LimiterInv, Tick
  PROVE  LimiterInv'
<1> USE LimiterAssumption
<1>1. /\ visitors \in [Keys -> Limiters \cup {NoLimiter}] /\ lastSeen \in [Keys -> 0 .. Idle + 1]
      /\ credit \in [Limiters -> 0 .. Full] /\ caller \in [Callers -> CallerType]
  BY DEF LimiterInv, LimiterTypeOK, CallerType
<1>2. /\ UNCHANGED <<visitors, stopped>>
      /\ credit' = [l \in Limiters |-> Refilled(credit[l])]
  BY DEF Tick
<1>3. /\ lastSeen' \in [Keys -> 0 .. Idle + 1]
      /\ \A k \in Keys : lastSeen'[k] <= lastSeen[k] + 1
  BY <1>1 DEF Tick
<1>4. credit' \in [Limiters -> 0 .. Full]
  BY <1>1, <1>2, RefilledFacts
<1>5. /\ caller' \in [Callers -> CallerType]
      /\ \A d \in Callers : caller'[d].at = "looked" =>
           /\ caller[d].at = "looked" /\ caller'[d].age = caller[d].age + 1
           /\ caller'[d].key = caller[d].key /\ caller'[d].limiter = caller[d].limiter
  <2> SUFFICES ASSUME NEW d \in Callers
               PROVE  /\ caller'[d] \in CallerType
                      /\ caller'[d].at = "looked" =>
                           /\ caller[d].at = "looked" /\ caller'[d].age = caller[d].age + 1
                           /\ caller'[d].key = caller[d].key /\ caller'[d].limiter = caller[d].limiter
    BY DEF Tick
  <2>1. caller[d] \in CallerType
    BY <1>1
  <2>2. CASE caller[d].at = "looked"
    <3>1. caller'[d] = [caller[d] EXCEPT !.age = @ + 1] /\ caller[d].age < Stall
      BY <2>2 DEF Tick
    <3> QED BY <2>1, <2>2, <3>1 DEF CallerType
  <2>3. CASE caller[d].at # "looked"
    <3>1. caller'[d] = caller[d]
      BY <2>3 DEF Tick
    <3> QED BY <2>1, <2>3, <3>1
  <2> QED BY <2>2, <2>3
<1>6. LimiterTypeOK'
  BY <1>1, <1>2, <1>3, <1>4, <1>5 DEF LimiterTypeOK, CallerType, LimiterInv
<1>7. OwnLimiters'
  BY <1>2 DEF OwnLimiters, LimiterInv
<1>8. AskedIsMapped'
  <2> SUFFICES ASSUME NEW d \in Callers, caller'[d].at = "looked"
               PROVE  /\ caller'[d].key \in Keys /\ caller'[d].limiter \in Limiters
                      /\ visitors[caller'[d].key] = caller'[d].limiter
                      /\ lastSeen'[caller'[d].key] <= caller'[d].age
    BY <1>2 DEF AskedIsMapped
  <2>1. /\ caller[d].key \in Keys /\ caller[d].limiter \in Limiters
        /\ visitors[caller[d].key] = caller[d].limiter
        /\ lastSeen[caller[d].key] <= caller[d].age
    BY <1>5 DEF LimiterInv, AskedIsMapped
  <2>2. caller[d].age \in 0 .. Stall /\ lastSeen[caller[d].key] \in 0 .. Idle + 1
    BY <1>1, <2>1 DEF CallerType
  <2>3. lastSeen'[caller[d].key] \in 0 .. Idle + 1
    BY <1>3, <2>1
  <2>4. lastSeen'[caller[d].key] <= caller[d].age + 1
    BY <1>3, <2>1, <2>2, <2>3
  <2> QED BY <1>5, <2>1, <2>4
<1>9. SilentRefilled'
  <2> SUFFICES ASSUME NEW k \in Keys, visitors[k] # NoLimiter
               PROVE  credit'[visitors[k]] = Full \/ credit'[visitors[k]] + Stall >= lastSeen'[k]
    BY <1>2 DEF SilentRefilled
  <2>1. visitors[k] \in Limiters /\ credit[visitors[k]] \in 0 .. Full /\ lastSeen[k] \in 0 .. Idle + 1
    BY <1>1
  <2>2. credit[visitors[k]] = Full \/ credit[visitors[k]] + Stall >= lastSeen[k]
    BY DEF LimiterInv, SilentRefilled
  <2>3. credit'[visitors[k]] = Refilled(credit[visitors[k]])
    BY <1>2, <2>1
  <2>4. lastSeen'[k] <= lastSeen[k] + 1 /\ lastSeen'[k] \in 0 .. Idle + 1
    BY <1>3
  <2>5. CASE credit[visitors[k]] = Full
    <3>1. Refilled(credit[visitors[k]]) = Full
      BY <2>5, FullFacts DEF Refilled
    <3> QED BY <2>3, <3>1
  <2>6. CASE credit[visitors[k]] # Full
    <3>1. Refilled(credit[visitors[k]]) = credit[visitors[k]] + 1
      BY <2>1, <2>6, FullFacts DEF Refilled
    <3> QED BY <2>1, <2>2, <2>3, <2>4, <2>6, <3>1, FullFacts
  <2> QED BY <2>5, <2>6
<1> QED BY <1>6, <1>7, <1>8, <1>9 DEF LimiterInv

LEMMA StepKeepsInv == LimiterInv /\ [LimiterNext]_limiterVars => LimiterInv'
<1> SUFFICES ASSUME LimiterInv, [LimiterNext]_limiterVars PROVE LimiterInv'
  OBVIOUS
<1>1. CASE UNCHANGED limiterVars
  BY <1>1 DEF limiterVars, LimiterInv, LimiterTypeOK, OwnLimiters, AskedIsMapped, SilentRefilled
<1>2. CASE Stop
  <2>1. UNCHANGED <<visitors, lastSeen, credit, caller>> /\ stopped' \in BOOLEAN
    BY <1>2 DEF Stop
  <2> QED BY <2>1 DEF LimiterInv, LimiterTypeOK, OwnLimiters, AskedIsMapped, SilentRefilled
<1> QED
  BY <1>1, <1>2, GetVisitorKeepsInv, AllowKeepsInv, DoneKeepsInv, CleanupKeepsInv, TickKeepsInv
  DEF LimiterNext

\* The type invariant and its strengthening hold in every reachable state.
THEOREM LimiterInvariant == LimiterSpec => []LimiterInv
<1> QED BY InitInv, StepKeepsInv, PTL DEF LimiterSpec
-----------------------------------------------------------------------------
\* What the refinement needs to know of a step: the bucket of every client, and
\* what every request has been answered.
LEMMA SameBucket == Bucket!Full = Full /\ \A n : Bucket!Refilled(n) = Refilled(n)
BY DEF Full, Bucket!Full, Refilled, Bucket!Refilled

LEMMA BucketsTyped ==
  ASSUME LimiterInv
  PROVE  bucketOf \in [Keys -> 0 .. Full]
BY FullFacts DEF bucketOf, LimiterInv, LimiterTypeOK

LEMMA GetVisitorIsInvisible ==
  ASSUME LimiterInv, NEW c \in Callers, NEW k \in Keys, GetVisitor(c, k)
  PROVE  bucketOf' = bucketOf /\ answerOf' = answerOf
<1> PICK l \in Limiters :
         /\ Known(k, l) \/ NewVisitor(k, l)
         /\ caller' = [caller EXCEPT ![c] = [at |-> "looked", key |-> k, limiter |-> l, age |-> 0]]
  BY DEF GetVisitor
<1>1. /\ visitors \in [Keys -> Limiters \cup {NoLimiter}]
      /\ credit \in [Limiters -> 0 .. Full] /\ caller \in [Callers -> CallerType]
  BY DEF LimiterInv, LimiterTypeOK, CallerType
<1>2. bucketOf' = bucketOf
  <2>1. CASE Known(k, l)
    BY <2>1 DEF Known, bucketOf
  <2>2. CASE NewVisitor(k, l)
    <3> SUFFICES ASSUME NEW j \in Keys
                 PROVE  (IF visitors'[j] = NoLimiter THEN Full ELSE credit'[visitors'[j]])
                        = (IF visitors[j] = NoLimiter THEN Full ELSE credit[visitors[j]])
      BY DEF bucketOf
    <3>1. CASE j = k
      BY <3>1, <2>2, <1>1, LimiterAssumption DEF NewVisitor
    <3>2. CASE j # k
      BY <3>2, <2>2, <1>1 DEF NewVisitor, SpareLimiter
    <3> QED BY <3>1, <3>2
  <2> QED BY <2>1, <2>2
<1>3. answerOf' = answerOf
  <2>1. \A d \in Callers : caller'[d].at # caller[d].at =>
          caller[d].at = "idle" /\ caller'[d].at = "looked"
    BY <1>1 DEF GetVisitor
  <2> QED BY <2>1 DEF answerOf
<1> QED BY <1>2, <1>3

LEMMA AllowIsADecision ==
  ASSUME LimiterInv, NEW c \in Callers, Allow(c)
  PROVE  \E k \in Keys : Bucket!Grant(c, k) \/ Bucket!Refuse(c, k)
<1> DEFINE l == caller[c].limiter
           k == caller[c].key
<1>1. /\ visitors \in [Keys -> Limiters \cup {NoLimiter}]
      /\ credit \in [Limiters -> 0 .. Full] /\ caller \in [Callers -> CallerType]
  BY DEF LimiterInv, LimiterTypeOK, CallerType
<1>2. /\ k \in Keys /\ l \in Limiters /\ visitors[k] = l /\ l # NoLimiter
  BY LimiterAssumption DEF Allow, LimiterInv, AskedIsMapped
<1>3. answerOf[c] = "none" /\ bucketOf[k] = credit[l] /\ visitors' = visitors
  BY <1>2 DEF answerOf, bucketOf, Allow
<1>4. ASSUME NEW a \in {"granted", "refused"}, Answered(c, a)
      PROVE  answerOf' = [answerOf EXCEPT ![c] = a]
  <2>1. \A d \in Callers : caller'[d] = IF d = c THEN [Idling EXCEPT !.at = a] ELSE caller[d]
    BY <1>1, <1>4 DEF Answered
  <2>2. [Idling EXCEPT !.at = a].at = a
    BY DEF Idling
  <2> QED BY <2>1, <2>2 DEF answerOf
<1>5. CASE /\ credit[l] >= Period /\ credit' = [credit EXCEPT ![l] = @ - Period]
           /\ Answered(c, "granted")
  <2>1. \A j \in Keys \ {k} : visitors[j] # NoLimiter => visitors[j] # l
    BY <1>2 DEF LimiterInv, OwnLimiters
  <2>2. bucketOf' = [bucketOf EXCEPT ![k] = @ - Period]
    <3> SUFFICES ASSUME NEW j \in Keys
                 PROVE  bucketOf'[j] = IF j = k THEN bucketOf[k] - Period ELSE bucketOf[j]
      BY DEF bucketOf
    <3>1. bucketOf'[j] = IF visitors[j] = NoLimiter THEN Full ELSE credit'[visitors[j]]
      BY <1>3 DEF bucketOf
    <3>2. CASE j = k
      BY <3>1, <3>2, <1>1, <1>2, <1>3, <1>5
    <3>3. CASE j # k
      BY <3>1, <3>3, <2>1, <1>1, <1>5 DEF bucketOf
    <3> QED BY <3>2, <3>3
  <2>3. Bucket!Grant(c, k)
    BY <2>2, <1>3, <1>4, <1>5 DEF Bucket!Grant
  <2> QED BY <2>3, <1>2
<1>6. CASE credit[l] < Period /\ Answered(c, "refused") /\ UNCHANGED credit
  <2>1. bucketOf' = bucketOf
    BY <1>3, <1>6 DEF bucketOf
  <2>2. Bucket!Refuse(c, k)
    BY <2>1, <1>3, <1>4, <1>6 DEF Bucket!Refuse
  <2> QED BY <2>2, <1>2
<1> QED BY <1>5, <1>6 DEF Allow

LEMMA DoneIsAFinish ==
  ASSUME LimiterInv, NEW c \in Callers, Done(c)
  PROVE  Bucket!Finish(c)
<1>1. caller \in [Callers -> CallerType] /\ caller' = [caller EXCEPT ![c] = [Idling EXCEPT !.at = "idle"]]
  BY DEF LimiterInv, LimiterTypeOK, CallerType, Done, Answered
<1>2. \A d \in Callers : caller'[d] = IF d = c THEN [Idling EXCEPT !.at = "idle"] ELSE caller[d]
  BY <1>1
<1>3. [Idling EXCEPT !.at = "idle"].at = "idle"
  BY DEF Idling
<1>4. answerOf' = [answerOf EXCEPT ![c] = "none"]
  BY <1>2, <1>3 DEF answerOf
<1>5. bucketOf' = bucketOf
  BY DEF Done, bucketOf
<1> QED BY <1>4, <1>5 DEF Bucket!Finish

\* A visitor is forgotten only when its bucket is full anyway.
LEMMA CleanupIsInvisible ==
  ASSUME LimiterInv, Cleanup
  PROVE  bucketOf' = bucketOf /\ answerOf' = answerOf
<1> SUFFICES ASSUME NEW k \in Keys
             PROVE  (IF visitors'[k] = NoLimiter THEN Full ELSE credit[visitors'[k]])
                    = (IF visitors[k] = NoLimiter THEN Full ELSE credit[visitors[k]])
  BY DEF Cleanup, bucketOf, answerOf
<1>1. visitors'[k] = IF lastSeen[k] > Idle THEN NoLimiter ELSE visitors[k]
  BY DEF Cleanup
<1>2. /\ visitors[k] \in Limiters \cup {NoLimiter} /\ lastSeen[k] \in 0 .. Idle + 1
      /\ visitors[k] # NoLimiter => credit[visitors[k]] \in 0 .. Full
  BY DEF LimiterInv, LimiterTypeOK
<1>3. visitors[k] # NoLimiter =>
        credit[visitors[k]] = Full \/ credit[visitors[k]] + Stall >= lastSeen[k]
  BY DEF LimiterInv, SilentRefilled
<1>4. visitors[k] # NoLimiter /\ lastSeen[k] > Idle => credit[visitors[k]] = Full
  BY <1>2, <1>3, FullFacts, LimiterAssumption
<1> QED BY <1>1, <1>4

LEMMA TickIsARefill ==
  ASSUME LimiterInv, Tick
  PROVE  Bucket!Refill
<1>1. \A d \in Callers : caller'[d].at = caller[d].at
  BY DEF Tick, LimiterInv, LimiterTypeOK
<1>2. answerOf' = answerOf
  BY <1>1 DEF answerOf
<1>3. Refilled(Full) = Full
  BY FullFacts DEF Refilled
<1>4. bucketOf' = [k \in Keys |-> Bucket!Refilled(bucketOf[k])]
  <2> SUFFICES ASSUME NEW k \in Keys
               PROVE  bucketOf'[k] = Refilled(bucketOf[k])
    BY SameBucket DEF bucketOf
  <2>1. visitors[k] \in Limiters \cup {NoLimiter}
    BY DEF LimiterInv, LimiterTypeOK
  <2>2. bucketOf'[k] = IF visitors[k] = NoLimiter THEN Full ELSE Refilled(credit[visitors[k]])
    BY <2>1 DEF bucketOf, Tick
  <2> QED BY <2>2, <1>3 DEF bucketOf
<1> QED BY <1>2, <1>4 DEF Bucket!Refill

LEMMA StepIsABucketStep ==
  LimiterInv /\ [LimiterNext]_limiterVars => [Bucket!BucketNext]_(Bucket!bucketVars)
<1> SUFFICES ASSUME LimiterInv, [LimiterNext]_limiterVars
             PROVE  [Bucket!BucketNext]_(Bucket!bucketVars)
  OBVIOUS
<1>1. CASE UNCHANGED limiterVars \/ Stop
  <2>1. UNCHANGED <<visitors, credit, caller>>
    BY <1>1 DEF limiterVars, Stop
  <2> QED BY <2>1 DEF bucketOf, answerOf, Bucket!bucketVars
<1>2. ASSUME NEW c \in Callers, NEW k \in Keys, GetVisitor(c, k)
      PROVE  UNCHANGED Bucket!bucketVars
  BY <1>2, GetVisitorIsInvisible DEF Bucket!bucketVars
<1>3. ASSUME NEW c \in Callers, Allow(c) \/ Done(c)
      PROVE  Bucket!BucketNext
  BY <1>3, AllowIsADecision, DoneIsAFinish DEF Bucket!BucketNext
<1>4. CASE Cleanup
  BY <1>4, CleanupIsInvisible DEF Bucket!bucketVars
<1>5. CASE Tick
  BY <1>5, TickIsARefill DEF Bucket!BucketNext
<1> QED BY <1>1, <1>2, <1>3, <1>4, <1>5 DEF LimiterNext

\* Forgetting idle visitors grants nobody more than the limit, and nobody less.
THEOREM ImplementsBuckets == LimiterSpec => LimitsHold
<1>1. LimiterInit => Bucket!BucketInit
  BY SameBucket DEF LimiterInit, Bucket!BucketInit, bucketOf, answerOf, Idling
<1> QED
  BY <1>1, LimiterInvariant, StepIsABucketStep, PTL DEF LimiterSpec, LimitsHold, Bucket!BucketSpec

-----------------------------------------------------------------------------
(* The answers                                                             *)

Types == DOMAIN FieldsOf
Names == {"data"} \cup UNION {DOMAIN FieldsOf[t] : t \in Types}
Persons == People \cup {"public", ""} \cup {t.subject : t \in Bearers}
FrameRow == [type : Types, field : Names, owner : Persons, void : BOOLEAN, error : BOOLEAN]

\* Whether a user may be shown an object of a type and an owner.
Shown(type, owner, p) ==
  /\ owner \in {"public", p.user} \/ p.admin
  /\ type \in Personal => owner # "public"
  /\ type \in BackOffice => p.admin
  /\ owner = "public" => type \in Shared \cup Operations

Root == IF serving = "stream" THEN "Subscription" ELSE serving

\* The outermost object is the operation's, and every other one a field of the
\* object above it.
Nested ==
  \A i \in DOMAIN frames :
    IF i = 1 THEN frames[i].type = Root /\ frames[i].owner = "public"
    ELSE /\ frames[i].field \in DOMAIN FieldsOf[frames[i - 1].type]
         /\ frames[i].type = FieldsOf[frames[i - 1].type][frames[i].field].to

FramesInv ==
  /\ frames \in Seq(FrameRow)
  /\ frames # <<>> => Root \in Operations
  /\ serving = "Subscription" => Len(frames) <= 1
  /\ Nested
  /\ \A i \in DOMAIN frames : Shown(frames[i].type, frames[i].owner, session.principal)

SessionInv ==
  /\ Genuine(session.principal) /\ session.principal.user \in Persons \ {"public"}
  /\ serving = "stream" =>
       /\ stream.field \in DOMAIN FieldsOf.Subscription /\ stream.owner \in Persons
       /\ Shown(FieldsOf.Subscription[stream.field].to, stream.owner, session.principal)
  /\ ran \in DOMAIN FieldsOf.Mutation => session.principal.user # ""
  /\ serving = "none" => ran = "none"

GraphInv == FramesInv /\ SessionInv

-----------------------------------------------------------------------------
\* Nobody is taken for somebody else.
LEMMA BearersAreGenuine ==
  ASSUME NEW request \in Credentials
  PROVE  /\ Genuine(OptionalAuth(request)) /\ Genuine(InitFunc(request).principal)
<1>1. \A t \in Bearers : /\ Genuine(VerifyAndSetContext(t)) /\ Genuine(TryVerifyAppJWT(t))
                         /\ Genuine(VerifyToken(t))
  BY DEF Genuine, VerifyAndSetContext, TryVerifyAppJWT, VerifyToken, Unresolved
<1>2. Genuine(Nobody)
  BY DEF Genuine
<1>3. Genuine(OptionalAuth(request))
  BY <1>1, <1>2 DEF OptionalAuth, ExtractToken, Credentials
<1>4. Genuine(InitFunc(request).principal)
  BY <1>1, <1>3 DEF InitFunc, Credentials
<1> QED BY <1>3, <1>4

LEMMA GenuineUser ==
  ASSUME NEW p, Genuine(p)
  PROVE  p.user \in Persons \ {"public"}
<1>1. CASE p = Nobody
  BY <1>1 DEF Nobody, Persons
<1>2. ASSUME NEW t \in Bearers, p = Principal(t.subject, TRUE, t) \/ p = Principal(t.subject, t.admin, t)
      PROVE  p.user \in Persons \ {"public"}
  <2>1. p.user = t.subject /\ t.subject \in {b.subject : b \in Bearers}
    BY <1>2 DEF Principal
  <2>2. t.subject # "public"
    BY <2>1, PeopleAssumption
  <2> QED BY <2>1, <2>2 DEF Persons
<1> QED BY <1>1, <1>2 DEF Genuine

\* What a directive lets through.
LEMMA Permitted ==
  ASSUME NEW by, NEW p, NEW expired, Permits(by, p, expired)
  PROVE  /\ by \in {"admin", "staff"} => p.admin
         /\ by \in {"auth", "admin", "staff"} => p.user # ""
  BY DEF Permits, Staff, Admin, Auth

\* A root field returns only what its caller may be shown.
LEMMA RootFieldShows ==
  ASSUME SessionInv, NEW t \in Operations, NEW f \in DOMAIN FieldsOf[t],
         Permits(FieldsOf[t][f].by, session.principal, lapsed), NEW s \in Owners(f),
         FieldsOf[t][f].to # "scalar"
  PROVE  s \in Persons /\ Shown(FieldsOf[t][f].to, s, session.principal)
<1> DEFINE p == session.principal
           to == FieldsOf[t][f].to
<1>1. /\ t \in DOMAIN FieldsOf
      /\ f \in StaffFields => FieldsOf[t][f].by \in {"admin", "staff"}
      /\ f \in StaffFields \cup LookedUpFields \cup OwnFields \/ to \in Shared
      /\ to \in BackOffice => FieldsOf[t][f].by \in {"admin", "staff"}
  BY SchemaAssumption DEF Operations, BackOffice
<1>2. /\ f \in StaffFields => p.admin
      /\ to \in BackOffice => p.admin
  BY <1>1, Permitted
<1>3. p.user \in Persons \ {"public"} /\ "public" \notin People
  BY PeopleAssumption DEF SessionInv
<1>4. to \in Shared => to \notin Personal
  BY DEF Shared
<1>5. \/ s = p.user
      \/ f \in StaffFields /\ s \in People
      \/ f \notin StaffFields \cup LookedUpFields \cup OwnFields /\ s = "public"
  BY DEF Owners, OwnerIs
<1> HIDE DEF p, to
<1>6. s \in Persons /\ (s = "public" => to \in Shared)
  BY <1>1, <1>3, <1>5 DEF Persons
<1>7. s \in {"public", p.user} \/ p.admin
  BY <1>2, <1>5
<1> QED BY <1>2, <1>4, <1>6, <1>7 DEF Shown, p, to

\* A field below the root returns what belongs to the same owner.
LEMMA FieldBelowShows ==
  ASSUME NEW p, NEW expired, NEW t \in Types \ Operations, NEW f \in DOMAIN FieldsOf[t],
         Permits(FieldsOf[t][f].by, p, expired), NEW s, Shown(t, s, p),
         FieldsOf[t][f].to # "scalar"
  PROVE  Shown(FieldsOf[t][f].to, s, p)
<1> DEFINE to == FieldsOf[t][f].to
<1>1. /\ t \in Shared => to \in Shared
      /\ to \in BackOffice => t \in BackOffice \/ FieldsOf[t][f].by \in {"admin", "staff"}
  BY SchemaAssumption DEF Types
<1>2. to \in BackOffice => p.admin
  BY <1>1, Permitted DEF Shown
<1>3. to \in Shared => to \notin Personal
  BY DEF Shared
<1> QED BY <1>1, <1>2, <1>3 DEF Shown

-----------------------------------------------------------------------------
\* What a field of an object leads to.
LEMMA FieldLeads ==
  ASSUME NEW t \in Types, NEW f \in DOMAIN FieldsOf[t]
  PROVE  /\ FieldsOf[t][f].required \in BOOLEAN
         /\ FieldsOf[t][f].to \in (Types \ Operations) \cup {"scalar"}
  BY SchemaAssumption, Zenon DEF Types

\* An object that has only its nulls changed.
SameObject(f, g) ==
  /\ g \in FrameRow /\ g.type = f.type /\ g.field = f.field /\ g.owner = f.owner

LEMMA NullCounted ==
  ASSUME NEW f \in FrameRow, NEW void \in BOOLEAN, NEW failed \in BOOLEAN,
         NEW g, g = [f EXCEPT !.void = @ \/ void, !.error = @ \/ failed]
  PROVE  SameObject(f, g)
BY DEF FrameRow, SameObject

-----------------------------------------------------------------------------
(* The stack of objects                                                    *)

LEMMA Topmost ==
  ASSUME frames \in Seq(FrameRow), frames # <<>>
  PROVE  /\ Len(frames) \in Nat /\ Len(frames) >= 1 /\ DOMAIN frames = 1..Len(frames)
         /\ Top \in FrameRow /\ Top.type \in Types
<1>1. Len(frames) \in Nat /\ Len(frames) >= 1 /\ DOMAIN frames = 1..Len(frames)
  OBVIOUS
<1>2. Top \in FrameRow
  BY <1>1 DEF Top
<1> QED BY <1>1, <1>2 DEF FrameRow

LEMMA OneObjectChanges ==
  ASSUME NEW s \in Seq(FrameRow), NEW i \in 1..Len(s), NEW f \in FrameRow,
         NEW t, t = [s EXCEPT ![i] = f]
  PROVE  /\ t \in Seq(FrameRow) /\ Len(t) = Len(s) /\ DOMAIN t = 1..Len(s)
         /\ \A j \in 1..Len(s) : t[j] = IF j = i THEN f ELSE s[j]
<1>1. Len(s) \in Nat /\ s \in [1..Len(s) -> FrameRow]
  OBVIOUS
<1>2. t \in [1..Len(s) -> FrameRow] /\ \A j \in 1..Len(s) : t[j] = IF j = i THEN f ELSE s[j]
  BY <1>1
<1>3. t \in Seq(FrameRow) /\ Len(t) = Len(s)
  BY <1>1, <1>2
<1> QED BY <1>2, <1>3

\* The object on top counts a null.
LEMMA TopCounts ==
  ASSUME FramesInv, frames # <<>>, UNCHANGED <<session, serving>>,
         NEW g, frames' = WithTop(g), SameObject(Top, g)
  PROVE  FramesInv'
<1> DEFINE n == Len(frames)
<1>1. frames \in Seq(FrameRow) /\ n \in Nat /\ n >= 1 /\ DOMAIN frames = 1..n /\ g \in FrameRow
  BY Topmost DEF FramesInv, SameObject
<1>2. /\ frames' \in Seq(FrameRow) /\ Len(frames') = n /\ DOMAIN frames' = 1..n
      /\ \A i \in 1..n : frames'[i] = IF i = n THEN g ELSE frames[i]
  BY <1>1 DEF WithTop
<1>3. \A i \in 1..n : /\ frames'[i].type = frames[i].type /\ frames'[i].field = frames[i].field
                      /\ frames'[i].owner = frames[i].owner
  BY <1>2 DEF SameObject, Top
<1>5. \A i \in 1..n : Shown(frames'[i].type, frames'[i].owner, session'.principal)
  BY <1>1, <1>3 DEF FramesInv
<1>6. Root' = Root /\ frames' # <<>>
  <2>1. Root' = Root
    BY DEF Root
  <2> HIDE DEF n
  <2>2. Len(frames') # Len(<<>>)
    BY <1>1, <1>2
  <2> QED BY <2>1, <2>2
<1>7. \A i \in 1..n : i # 1 => i - 1 \in 1..n
  BY <1>1
<1> HIDE DEF n
<1>8. Nested'
  BY <1>1, <1>2, <1>3, <1>6, <1>7 DEF Nested, FramesInv
<1> QED BY <1>1, <1>2, <1>5, <1>6, <1>8 DEF FramesInv, n

\* An object is entered.
LEMMA Entered ==
  ASSUME FramesInv, frames # <<>>, UNCHANGED <<session, serving>>, serving # "Subscription",
         NEW field \in DOMAIN FieldsOf[Top.type], NEW owner \in Persons, Descend(field, owner),
         FieldsOf[Top.type][field].to # "scalar",
         Shown(FieldsOf[Top.type][field].to, owner, session.principal)
  PROVE  FramesInv'
<1> DEFINE n == Len(frames)
           to == FieldsOf[Top.type][field].to
           g == Frame(to, field, owner)
<1>1. frames \in Seq(FrameRow) /\ n \in Nat /\ n >= 1 /\ DOMAIN frames = 1..n /\ Top.type \in Types
  BY Topmost DEF FramesInv
<1>2. to \in Types /\ field \in Names
  BY <1>1, FieldLeads DEF Names
<1>3. g \in FrameRow /\ g.type = to /\ g.field = field /\ g.owner = owner
  BY <1>2 DEF Frame, FrameRow
<1>4. frames' = Append(frames, g)
  BY DEF Descend
<1> HIDE DEF g, to
<1>5. /\ frames' \in Seq(FrameRow) /\ Len(frames') = n + 1 /\ DOMAIN frames' = 1..(n + 1)
      /\ \A i \in 1..n : frames'[i] = frames[i]
      /\ frames'[n + 1] = g
  BY <1>1, <1>3, <1>4
<1>6. \A i \in 1..(n + 1) : /\ i \in 1..n \/ i = n + 1
                            /\ i # 1 => i - 1 \in 1..n
                            /\ i = n + 1 => i # 1 /\ i - 1 = n
  BY <1>1
<1>7. frames[n] = Top
  BY DEF Top
<1> HIDE DEF n
<1>8. \A i \in 1..(n + 1) : Shown(frames'[i].type, frames'[i].owner, session'.principal)
  BY <1>1, <1>3, <1>5, <1>6 DEF FramesInv, to
<1>9. Root' = Root /\ frames' # <<>>
  <2>1. Root' = Root
    BY DEF Root
  <2>2. Len(frames') # Len(<<>>)
    BY <1>1, <1>5
  <2> QED BY <2>1, <2>2
<1>10. Nested'
  BY <1>1, <1>3, <1>5, <1>6, <1>7, <1>9 DEF Nested, FramesInv, to
<1> QED BY <1>1, <1>5, <1>8, <1>9, <1>10 DEF FramesInv

\* An object is complete, and the one above it counts its null.
LEMMA CompleteKeeps ==
  ASSUME GraphInv, Complete
  PROVE  GraphInv'
<1> DEFINE n == Len(frames)
           below == SubSeq(frames, 1, n - 1)
           parent == below[Len(below)]
           g == [parent EXCEPT !.void = @ \/ (Top.void /\ Top.field \in VoidsOf[parent.type]),
                               !.error = @ \/ Top.error]
<1>1. /\ frames' = [below EXCEPT ![Len(below)] = g] /\ n > 1
      /\ UNCHANGED <<session, lapsed, serving, stream, picks, ran>>
  <2>1. n > 1 /\ UNCHANGED <<session, lapsed, serving, stream, picks, ran>>
    BY DEF Complete, who
  <2>2. frames' = [below EXCEPT ![Len(below)] = g]
    BY DEF Complete
  <2> QED BY <2>1, <2>2
<1>2. frames \in Seq(FrameRow) /\ frames # <<>> /\ n \in Nat /\ DOMAIN frames = 1..n
  <2>1. frames \in Seq(FrameRow)
    BY DEF GraphInv, FramesInv
  <2> QED BY <1>1, <2>1
<1>3. /\ below \in Seq(FrameRow) /\ Len(below) = n - 1 /\ \A i \in 1..(n - 1) : below[i] = frames[i]
      /\ n - 1 \in 1..(n - 1) /\ n - 1 \in 1..n /\ n \in 1..n /\ n # 1
  BY <1>1, <1>2
<1>4. /\ parent = frames[n - 1] /\ parent \in FrameRow /\ Top = frames[n] /\ Top \in FrameRow
  <2>1. parent = frames[n - 1] /\ Top = frames[n]
    BY <1>3 DEF Top
  <2> QED BY <1>2, <1>3, <2>1
<1> HIDE DEF parent, below
<1>5. SameObject(parent, g)
  <2> DEFINE void == Top.void /\ Top.field \in VoidsOf[parent.type]
             error == Top.error
  <2>1. void \in BOOLEAN /\ error \in BOOLEAN
    BY <1>4 DEF FrameRow
  <2>2. g = [parent EXCEPT !.void = @ \/ void, !.error = @ \/ error]
    OBVIOUS
  <2> HIDE DEF void, error, g
  <2> QED BY <1>4, <2>1, <2>2, NullCounted
<1> HIDE DEF g
<1>6. /\ frames' \in Seq(FrameRow) /\ Len(frames') = n - 1 /\ DOMAIN frames' = 1..(n - 1)
      /\ \A i \in 1..(n - 1) : frames'[i] = IF i = n - 1 THEN g ELSE frames[i]
  <2>2. below \in Seq(FrameRow) /\ Len(below) \in 1..Len(below) /\ g \in FrameRow
    BY <1>3, <1>5 DEF SameObject
  <2> HIDE DEF n
  <2>3. /\ frames' \in Seq(FrameRow) /\ Len(frames') = Len(below) /\ DOMAIN frames' = 1..Len(below)
        /\ \A j \in 1..Len(below) : frames'[j] = IF j = Len(below) THEN g ELSE below[j]
    BY <1>1, <2>2, OneObjectChanges
  <2> QED BY <1>3, <2>3
<1>7. \A i \in 1..(n - 1) : /\ i \in 1..n
                            /\ i # 1 => i - 1 \in 1..(n - 1)
  BY <1>2
<1>8. \A i \in 1..(n - 1) : /\ frames'[i].type = frames[i].type /\ frames'[i].field = frames[i].field
                            /\ frames'[i].owner = frames[i].owner
  BY <1>4, <1>5, <1>6 DEF SameObject
<1>9. Root' = Root
  BY <1>1 DEF Root
<1>10. n - 1 <= 1 \/ serving # "Subscription"
  BY <1>1, <1>2 DEF GraphInv, FramesInv
<1> HIDE DEF n
<1>11. Nested'
  BY <1>2, <1>6, <1>7, <1>8, <1>9 DEF Nested, GraphInv, FramesInv
<1>12. \A i \in 1..(n - 1) : Shown(frames'[i].type, frames'[i].owner, session'.principal)
  BY <1>1, <1>2, <1>6, <1>7, <1>8 DEF GraphInv, FramesInv
<1>13. FramesInv'
  BY <1>1, <1>2, <1>6, <1>9, <1>10, <1>11, <1>12 DEF GraphInv, FramesInv
<1>14. SessionInv'
  BY <1>1 DEF GraphInv, SessionInv
<1> QED BY <1>13, <1>14 DEF GraphInv

-----------------------------------------------------------------------------
(* The steps                                                               *)

LEMMA GraphStart == GraphInit => GraphInv
<1> SUFFICES ASSUME GraphInit PROVE GraphInv
  OBVIOUS
<1>1. FramesInv
  BY DEF GraphInit, FramesInv, Nested
<1>2. ran \notin DOMAIN FieldsOf.Mutation
  BY SchemaAssumption DEF GraphInit
<1>3. SessionInv
  BY <1>2 DEF GraphInit, SessionInv, Genuine, Nobody, Persons
<1> QED BY <1>1, <1>3 DEF GraphInv

\* Without objects only the session counts.
LEMMA NoFrames == frames = <<>> => FramesInv
  BY DEF FramesInv, Nested

\* An operation begins, of whatever kind and for whomever.
LEMMA OperationBegins ==
  ASSUME NEW operation \in Operations, serving' = operation,
         frames' = <<Frame(operation, "data", "public")>>
  PROVE  FramesInv'
<1> DEFINE f == Frame(operation, "data", "public")
<1>1. frames' = <<f>>
  OBVIOUS
<1>2. f \in FrameRow /\ f.type = operation /\ f.owner = "public"
  BY SchemaAssumption DEF Frame, FrameRow, Types, Names, Persons
<1>3. operation \notin Personal \cup BackOffice
  BY DEF Operations, Personal, BackOffice
<1>4. Shown(f.type, f.owner, session'.principal)
  BY <1>2, <1>3 DEF Shown
<1> HIDE DEF f
<1> QED BY <1>1, <1>2, <1>4 DEF FramesInv, Nested, Root, Operations

LEMMA ServeKeeps ==
  ASSUME GraphInv, NEW request \in Credentials, NEW operation \in Operations, Serve(request, operation)
  PROVE  GraphInv'
<1>1. Genuine(session'.principal)
  BY BearersAreGenuine DEF Serve
<1>2. session'.principal.user \in Persons \ {"public"}
  BY <1>1, GenuineUser
<1>3. FramesInv'
  BY OperationBegins DEF Serve
<1>4. ran' \notin DOMAIN FieldsOf.Mutation
  BY SchemaAssumption DEF Serve, GraphInv, SessionInv
<1>5. serving' \notin {"stream", "none"}
  BY DEF Serve, Operations
<1> QED BY <1>1, <1>2, <1>3, <1>4, <1>5 DEF GraphInv, SessionInv

LEMMA ConnectKeeps ==
  ASSUME GraphInv, NEW request \in Credentials, Connect(request)
  PROVE  GraphInv'
<1>1. Genuine(session'.principal)
  BY BearersAreGenuine DEF Connect
<1>2. session'.principal.user \in Persons \ {"public"}
  BY <1>1, GenuineUser
<1>3. frames' = <<>>
  BY DEF Connect, GraphInv, FramesInv, Root, Operations
<1>4. FramesInv'
  BY <1>3 DEF FramesInv, Nested
<1>5. ran' \notin DOMAIN FieldsOf.Mutation
  BY SchemaAssumption DEF Connect, GraphInv, SessionInv
<1>6. serving' = "open"
  BY DEF Connect
<1> QED BY <1>1, <1>2, <1>4, <1>5, <1>6 DEF GraphInv, SessionInv

LEMMA OperateKeeps ==
  ASSUME GraphInv, NEW operation \in Operations, Operate(operation)
  PROVE  GraphInv'
<1>1. FramesInv'
  BY OperationBegins DEF Operate
<1>2. session' = session /\ serving' \notin {"stream", "none"} /\ ran' = "none"
  BY DEF Operate, Operations, who
<1>3. "none" \notin DOMAIN FieldsOf.Mutation
  BY SchemaAssumption
<1> QED BY <1>1, <1>2, <1>3 DEF GraphInv, SessionInv

LEMMA NullKeeps ==
  ASSUME GraphInv, frames # <<>>, Top.type # "Subscription", NEW field \in DOMAIN FieldsOf[Top.type],
         NEW failed \in BOOLEAN, Null(field, failed), UNCHANGED <<session, serving>>
  PROVE  FramesInv'
<1> DEFINE void == field \in VoidsOf[Top.type]
           error == failed \/ FieldsOf[Top.type][field].required
           g == [Top EXCEPT !.void = @ \/ void, !.error = @ \/ error]
<1>1. Top \in FrameRow /\ Top.type \in Types
  BY Topmost DEF GraphInv, FramesInv
<1>2. void \in BOOLEAN /\ error \in BOOLEAN
  BY <1>1, FieldLeads
<1>3. frames' = WithTop(g)
  BY DEF Null
<1>4. g = [Top EXCEPT !.void = @ \/ void, !.error = @ \/ error]
  OBVIOUS
<1> HIDE DEF void, error, g
<1>5. SameObject(Top, g)
  BY <1>1, <1>2, <1>4, NullCounted
<1> QED BY <1>3, <1>5, TopCounts DEF GraphInv

LEMMA ResolveFieldKeeps ==
  ASSUME GraphInv, frames # <<>>, NEW field \in DOMAIN FieldsOf[Top.type], ResolveField(field)
  PROVE  GraphInv'
<1> DEFINE p == session.principal
           f == FieldsOf[Top.type][field]
           n == Len(frames)
<1>0. GraphInv /\ FramesInv /\ SessionInv
  BY DEF GraphInv
<1>1. UNCHANGED <<session, lapsed, serving, stream>> /\ Top.type # "Subscription"
  BY DEF ResolveField, who
<1>2. /\ n \in Nat /\ n >= 1 /\ DOMAIN frames = 1..n /\ Top \in FrameRow /\ Top.type \in Types /\ Top = frames[n]
  BY <1>0, Topmost DEF FramesInv, Top
<1>3. /\ n = 1 => Top.type = serving /\ serving \in {"Query", "Mutation"} /\ Top.type \in Operations
      /\ serving # "Subscription"
      /\ n # 1 => Top.type \notin Operations
  <2>1. CASE n = 1
    <3>1. Top.type = Root /\ Root \in Operations
      BY <1>0, <1>2, <2>1 DEF FramesInv, Nested
    <3> QED BY <1>1, <2>1, <3>1 DEF Root, Operations
  <2>2. CASE n # 1
    <3>1. n - 1 \in 1..n /\ n \in 1..n
      BY <1>2, <2>2
    <3>2. /\ frames[n - 1].type \in Types /\ Top.field \in DOMAIN FieldsOf[frames[n - 1].type]
          /\ Top.type = FieldsOf[frames[n - 1].type][Top.field].to
      <4>1. /\ Top.field \in DOMAIN FieldsOf[frames[n - 1].type]
            /\ Top.type = FieldsOf[frames[n - 1].type][Top.field].to
        BY <1>0, <1>2, <2>2, <3>1 DEF FramesInv, Nested
      <4>2. frames[n - 1] \in FrameRow
        BY <1>0, <1>2, <3>1 DEF FramesInv
      <4> QED BY <4>1, <4>2 DEF FrameRow
    <3>3. Top.type \notin Operations
      BY <1>2, <3>2, FieldLeads, SchemaAssumption DEF Types
    <3>4. serving # "Subscription"
      BY <1>0, <1>2, <2>2 DEF FramesInv
    <3> QED BY <2>2, <3>3, <3>4
  <2> QED BY <2>1, <2>2
<1>4. CASE Permits(f.by, p, lapsed)
  <2>1. \/ \E failed \in BOOLEAN : Null(field, failed)
        \/ frames' = frames
        \/ f.to # "scalar" /\ \E s \in OwnersBelow(field) : Descend(field, s)
    BY <1>4 DEF ResolveField
  <2>2. FramesInv'
    <3>1. CASE \E failed \in BOOLEAN : Null(field, failed)
      BY <1>0, <1>1, <3>1, NullKeeps
    <3>2. CASE frames' = frames
      BY <1>0, <1>1, <3>2 DEF FramesInv, Nested, Root
    <3>3. ASSUME f.to # "scalar", NEW s \in OwnersBelow(field), Descend(field, s)
          PROVE  FramesInv'
      <4>1. s \in Persons /\ Shown(f.to, s, p)
        <5>1. CASE n = 1
          <6>1. Top.type \in Operations /\ s \in Owners(field)
            BY <1>3, <3>3, <5>1 DEF OwnersBelow
          <6> QED BY <1>0, <1>4, <3>3, <6>1, RootFieldShows
        <5>2. CASE n # 1
          <6>1. s = Top.owner /\ Top.type \in Types \ Operations
            BY <1>2, <1>3, <3>3, <5>2 DEF OwnersBelow
          <6>2. Shown(Top.type, s, p) /\ s \in Persons
            BY <1>0, <1>2, <6>1 DEF FramesInv, FrameRow
          <6> QED BY <1>4, <3>3, <6>1, <6>2, FieldBelowShows
        <5> QED BY <5>1, <5>2
      <4> QED BY <1>0, <1>1, <1>3, <3>3, <4>1, Entered
    <3> QED BY <2>1, <3>1, <3>2, <3>3
  <2>3. ran' = ran \/ (n = 1 /\ ran' = field)
    BY <1>4 DEF ResolveField, Ran
  <2>4. n = 1 /\ field \in DOMAIN FieldsOf.Mutation => p.user # ""
    <3>1. ASSUME n = 1, field \in DOMAIN FieldsOf.Mutation
          PROVE  p.user # ""
      <4>1. field \notin DOMAIN FieldsOf.Query
        BY <3>1, SchemaAssumption
      <4>2. Top.type = "Mutation"
        BY <1>3, <3>1, <4>1
      <4>3. f.by \in {"auth", "admin", "staff"}
        BY <3>1, <4>2, SchemaAssumption
      <4> QED BY <1>4, <4>3, Permitted
    <3> QED BY <3>1
  <2>5. SessionInv'
    <3>1. serving # "none" \/ n # 1
      BY <1>3
    <3>2. serving # "none"
      BY <1>0 DEF FramesInv, Root, Operations
    <3> QED BY <1>0, <1>1, <2>3, <2>4, <3>2 DEF SessionInv
  <2> QED BY <2>2, <2>5 DEF GraphInv
<1>5. CASE ~Permits(f.by, p, lapsed)
  <2>1. Null(field, TRUE) /\ UNCHANGED ran
    BY <1>5 DEF ResolveField
  <2>2. FramesInv'
    BY <1>0, <1>1, <2>1, NullKeeps
  <2>3. SessionInv'
    BY <1>0, <1>1, <2>1 DEF SessionInv
  <2> QED BY <2>2, <2>3 DEF GraphInv
<1> QED BY <1>4, <1>5

LEMMA BadArgumentsKeeps ==
  ASSUME GraphInv, frames # <<>>, NEW field \in DOMAIN FieldsOf[Top.type], BadArguments(field)
  PROVE  GraphInv'
<1>1. /\ UNCHANGED <<session, lapsed, serving, stream, ran>> /\ Null(field, TRUE)
      /\ Len(frames) = 1 /\ serving \in {"Query", "Mutation"}
  BY DEF BadArguments, who
<1>2. Top.type # "Subscription"
  <2>1. 1 \in DOMAIN frames /\ Top = frames[1]
    BY <1>1 DEF GraphInv, FramesInv, Top
  <2> QED BY <1>1, <2>1 DEF GraphInv, FramesInv, Nested, Root
<1>3. FramesInv'
  BY <1>1, <1>2, NullKeeps
<1>4. SessionInv'
  BY <1>1 DEF GraphInv, SessionInv
<1> QED BY <1>3, <1>4 DEF GraphInv

LEMMA SubscribeKeeps ==
  ASSUME GraphInv, serving = "Subscription", NEW field \in DOMAIN FieldsOf.Subscription, Subscribe(field)
  PROVE  GraphInv'
<1> DEFINE f == FieldsOf.Subscription[field]
<1>1. frames' = <<>> /\ UNCHANGED <<session, lapsed>>
  BY DEF Subscribe, who
<1>2. FramesInv'
  BY <1>1 DEF FramesInv, Nested
<1>3. SessionInv /\ field \notin DOMAIN FieldsOf.Mutation
  BY SchemaAssumption DEF GraphInv
<1>4. ran' = ran \/ ran' = field
  BY DEF Subscribe, Ran
<1>5. \/ serving' \in {"open", "done"} /\ UNCHANGED stream
      \/ /\ serving' = "stream" /\ Permits(f.by, session.principal, lapsed)
         /\ \E s \in Owners(field) : stream' = [field |-> field, owner |-> s]
  BY DEF Subscribe, AfterOperation
<1>6. CASE serving' \in {"open", "done"}
  BY <1>1, <1>2, <1>3, <1>4, <1>6 DEF SessionInv, GraphInv
<1>7. ASSUME serving' = "stream", Permits(f.by, session.principal, lapsed), NEW s \in Owners(field),
             stream' = [field |-> field, owner |-> s]
      PROVE  GraphInv'
  <2>1. "Subscription" \in Operations /\ f.to # "scalar"
    BY SchemaAssumption DEF Operations
  <2>2. s \in Persons /\ Shown(f.to, s, session.principal)
    BY <1>3, <1>7, <2>1, RootFieldShows
  <2> QED BY <1>1, <1>2, <1>3, <1>4, <1>7, <2>2 DEF SessionInv, GraphInv
<1> QED BY <1>5, <1>6, <1>7

LEMMA EventKeeps == GraphInv /\ Event => GraphInv'
<1> SUFFICES ASSUME GraphInv, Event PROVE GraphInv'
  OBVIOUS
<1> DEFINE to == FieldsOf.Subscription[stream.field].to
           e == Frame("Subscription", "data", "public")
           f == Frame(to, stream.field, stream.owner)
<1>1. SessionInv /\ serving = "stream" /\ UNCHANGED <<session, serving, stream, ran>>
      /\ frames' = <<e, f>>
  BY DEF Event, GraphInv, who
<1>2. /\ "Subscription" \in Types /\ stream.field \in DOMAIN FieldsOf.Subscription
      /\ to # "scalar" /\ stream.owner \in Persons
      /\ Shown(to, stream.owner, session.principal)
  BY <1>1, SchemaAssumption DEF SessionInv, Types, Operations
<1>3. to \in Types /\ stream.field \in Names
  BY <1>2, FieldLeads DEF Names
<1>4. /\ e \in FrameRow /\ f \in FrameRow
      /\ e.type = "Subscription" /\ e.owner = "public"
      /\ f.type = to /\ f.field = stream.field /\ f.owner = stream.owner
  BY <1>2, <1>3 DEF Frame, FrameRow, Names, Persons
<1>5. Shown("Subscription", "public", session.principal)
  BY DEF Shown, Personal, BackOffice, Operations
<1> HIDE DEF e, f, to
<1>6. /\ frames' \in Seq(FrameRow) /\ DOMAIN frames' = 1..2 /\ frames'[1] = e /\ frames'[2] = f
      /\ 2 - 1 = 1 /\ \A i \in 1..2 : i = 1 \/ i = 2
  BY <1>1, <1>4
<1>7. Root' = "Subscription"
  BY <1>1 DEF Root
<1>8. Nested'
  BY <1>2, <1>4, <1>6, <1>7 DEF Nested, to
<1>9. FramesInv'
  BY <1>1, <1>2, <1>4, <1>5, <1>6, <1>7, <1>8 DEF FramesInv, Operations
<1>10. SessionInv'
  BY <1>1 DEF SessionInv
<1> QED BY <1>9, <1>10 DEF GraphInv

LEMMA GraphStepKeeps == GraphInv /\ [GraphNext]_graphVars => GraphInv'
<1> SUFFICES ASSUME GraphInv, [GraphNext]_graphVars PROVE GraphInv'
  OBVIOUS
<1>0. FramesInv /\ SessionInv
  BY DEF GraphInv
<1>1. CASE Expires \/ UNCHANGED graphVars
  <2>1. UNCHANGED <<session, serving, stream, frames, ran>>
    BY <1>1 DEF Expires, graphVars, who
  <2> QED BY <1>0, <2>1 DEF GraphInv, FramesInv, Nested, Root, SessionInv
<1>2. CASE Deadline \/ Unsubscribe \/ SendResponse
  <2>1. frames' = <<>> /\ UNCHANGED <<session, ran>>
    BY <1>2 DEF Deadline, Unsubscribe, SendResponse, who
  <2>2. serving' # "none" /\ (serving' = "stream" => serving = "stream" /\ stream' = stream)
    BY <1>2 DEF Deadline, Unsubscribe, SendResponse, AfterOperation
  <2>3. FramesInv'
    BY <2>1 DEF FramesInv, Nested
  <2>4. SessionInv'
    BY <1>0, <2>1, <2>2 DEF SessionInv
  <2> QED BY <2>3, <2>4 DEF GraphInv
<1> QED BY <1>1, <1>2, ServeKeeps, ConnectKeeps, OperateKeeps, EventKeeps, CompleteKeeps, ResolveFieldKeeps,
           BadArgumentsKeeps, SubscribeKeeps DEF GraphNext

\* Whatever path a document takes and whoever asks, the data of a customer is shown to
\* that customer and the restaurant only, what the restaurant keeps to itself to nobody
\* else, nobody unknown runs a mutation, and no one is taken for somebody else.
THEOREM NobodySeesElsesData == GraphSpec => []NobodyElsesData
<1>1. GraphInv => NobodyElsesData
  BY DEF GraphInv, FramesInv, SessionInv, NobodyElsesData, Shown
<1> QED BY <1>1, GraphStart, GraphStepKeeps, PTL DEF GraphSpec

-----------------------------------------------------------------------------
(* The data loaders                                                        *)

(* The inductive invariant: a key that is waited for is in exactly one of  *)
(* the three places.                                                       *)

InBatch(c, k) == k \in KeysOf(batch[c])
InFlight(c, k) == \E f \in flights : f.on = c /\ k \in KeysOf(f.keys)
Joining(c, k) == <<c, k>> \in joining

Flight == [on : Connections, keys : Seq(LoadKeys)]

Remembered == [at : {"unasked", "pending", "failed", "answered"},
               of : LoadKeys \cup {"nothing"}, version : Nat]

LoadersTyped ==
  /\ rowsOf \in [LoadKeys -> Nat] /\ begun \subseteq LoadOps
  /\ floor \in [LoadOps -> [LoadKeys -> Nat]]
  /\ thunks \in [Connections -> [LoadKeys -> Remembered]]
  /\ joining \subseteq Connections \X LoadKeys
  /\ batch \in [Connections -> Seq(LoadKeys)] /\ flights \subseteq Flight
  /\ fetches \in [Connections -> [LoadKeys -> Nat]]

OnePlace(c, k) ==
  /\ thunks[c][k] = Pending <=> Joining(c, k) \/ InBatch(c, k) \/ InFlight(c, k)
  /\ ~(Joining(c, k) /\ InBatch(c, k)) /\ ~(Joining(c, k) /\ InFlight(c, k))
  /\ ~(InBatch(c, k) /\ InFlight(c, k))

NoDuplicates(s) == \A i, j \in DOMAIN s : s[i] = s[j] => i = j
FlightsApart ==
  \A f, g \in flights : f.on = g.on /\ KeysOf(f.keys) \cap KeysOf(g.keys) # {} => f = g

FetchedOnce(c, k) == fetches[c][k] = IF thunks[c][k] \in {Unasked, Pending} THEN 0 ELSE 1

\* Who is alone on a connection is the one who asked, and asked after it began.
AskedInTime ==
  /\ \A o \in LoadOps, k \in LoadKeys : floor[o][k] <= rowsOf[k]
  /\ \A o \in LoadOps, k \in LoadKeys :
       Alone(o) /\ thunks[ConnectionOf[o]][k] # Unasked => o \in begun

LoadersInv ==
  /\ LoadersTyped
  /\ \A c \in Connections, k \in LoadKeys : OnePlace(c, k) /\ FetchedOnce(c, k)
  /\ \A c \in Connections : NoDuplicates(batch[c])
  /\ FlightsApart
  /\ AskedInTime /\ OwnRows /\ FreshRows

LEMMA OnConnection == \A o \in LoadOps : LoaderOf(o) = ConnectionOf[o] /\ ConnectionOf[o] \in Connections
  BY DEF LoaderOf, Connections

LEMMA Distinct ==
  /\ Unasked # Pending /\ Failed \notin {Unasked, Pending}
  /\ \A k, n : Answer(k, n) \notin {Unasked, Pending}
  BY DEF Unasked, Pending, Failed, Answer

LEMMA KeysOfAppend ==
  ASSUME NEW s \in Seq(LoadKeys), NEW k \in LoadKeys
  PROVE  /\ Append(s, k) \in Seq(LoadKeys) /\ KeysOf(Append(s, k)) = KeysOf(s) \cup {k}
         /\ NoDuplicates(s) /\ k \notin KeysOf(s) => NoDuplicates(Append(s, k))
<1>1. /\ Append(s, k) \in Seq(LoadKeys) /\ DOMAIN s = 1..Len(s)
      /\ DOMAIN Append(s, k) = 1..(Len(s) + 1) /\ Len(s) \in Nat
      /\ \A i \in 1..Len(s) : Append(s, k)[i] = s[i]
      /\ Append(s, k)[Len(s) + 1] = k
  OBVIOUS
<1>2. \A i \in 1..(Len(s) + 1) : i \in 1..Len(s) \/ i = Len(s) + 1
  BY <1>1
<1>3. \A i \in 1..Len(s) : i \in 1..(Len(s) + 1)
  BY <1>1
<1>4. Len(s) + 1 \in 1..(Len(s) + 1)
  BY <1>1
<1> DEFINE t == Append(s, k)
           n == Len(s) + 1
<1> HIDE DEF t, n
<1>5. /\ DOMAIN t = 1..n /\ (\A i \in DOMAIN s : t[i] = s[i]) /\ t[n] = k /\ n \in 1..n
      /\ \A i \in 1..n : i \in DOMAIN s \/ i = n
      /\ \A i \in DOMAIN s : i \in 1..n
  BY <1>1, <1>2, <1>3, <1>4 DEF t, n
<1>6. KeysOf(t) = KeysOf(s) \cup {k}
  BY <1>5 DEF KeysOf
<1>7. ASSUME NoDuplicates(s), k \notin KeysOf(s) PROVE NoDuplicates(t)
  <2>1. \A i \in DOMAIN s : t[i] # k
    <3>1. \A i \in DOMAIN s : s[i] \in KeysOf(s)
      BY DEF KeysOf
    <3> QED BY <1>5, <1>7, <3>1
  <2>2. \A i, j \in DOMAIN s : t[i] = t[j] => i = j
    BY <1>5, <1>7 DEF NoDuplicates
  <2>3. \A i \in 1..n : i \in DOMAIN s \/ (i = n /\ t[i] = k)
    BY <1>5
  <2> QED BY <1>5, <2>1, <2>2, <2>3, Zenon DEF NoDuplicates
<1> QED BY <1>1, <1>6, <1>7 DEF t

LEMMA KeysOfNone == KeysOf(<<>>) = {} /\ NoDuplicates(<<>>) /\ <<>> \in Seq(LoadKeys)
<1>1. DOMAIN <<>> = {} /\ <<>> \in Seq(LoadKeys)
  OBVIOUS
<1> QED BY <1>1 DEF KeysOf, NoDuplicates

LEMMA LoadersStart == LoadersInit => LoadersInv
<1> SUFFICES ASSUME LoadersInit PROVE LoadersInv
  OBVIOUS
<1>1. LoadersTyped
  <2>1. Unasked \in Remembered
    BY DEF Unasked, Remembered
  <2>2. <<>> \in Seq(LoadKeys)
    BY KeysOfNone
  <2> QED BY <2>1, <2>2 DEF LoadersInit, LoadersTyped
<1>2. \A c \in Connections, k \in LoadKeys : thunks[c][k] = Unasked /\ fetches[c][k] = 0
  BY DEF LoadersInit
<1>3. \A c \in Connections, k \in LoadKeys : ~InBatch(c, k) /\ ~InFlight(c, k) /\ ~Joining(c, k)
  BY KeysOfNone DEF LoadersInit, InBatch, InFlight, Joining
<1>4. \A c \in Connections, k \in LoadKeys : OnePlace(c, k) /\ FetchedOnce(c, k)
  BY <1>2, <1>3, Distinct DEF OnePlace, FetchedOnce
<1>5. \A c \in Connections : NoDuplicates(batch[c])
  BY KeysOfNone DEF LoadersInit
<1>6. FlightsApart
  BY DEF FlightsApart, LoadersInit
<1>7. AskedInTime
  BY <1>2, OnConnection DEF AskedInTime, LoadersInit
<1>8. OwnRows
  BY <1>2 DEF OwnRows, Unasked
<1>9. FreshRows
  BY DEF FreshRows, LoadersInit
<1> QED BY <1>1, <1>4, <1>5, <1>6, <1>7, <1>8, <1>9 DEF LoadersInv

\* A key whose places and whose thunk a step leaves alone.
LEMMA ElsewhereKeeps ==
  ASSUME NEW c \in Connections, NEW k \in LoadKeys, OnePlace(c, k), FetchedOnce(c, k),
         Joining(c, k)' <=> Joining(c, k), InBatch(c, k)' <=> InBatch(c, k), InFlight(c, k)' <=> InFlight(c, k),
         thunks'[c][k] = thunks[c][k], fetches'[c][k] = fetches[c][k]
  PROVE  (OnePlace(c, k) /\ FetchedOnce(c, k))'
  BY Zenon DEF OnePlace, FetchedOnce

LEMMA PlacesStay ==
  ASSUME LoadersInv, UNCHANGED <<thunks, joining, batch, flights, fetches>>
  PROVE  \A c \in Connections, k \in LoadKeys : (OnePlace(c, k) /\ FetchedOnce(c, k))'
<1>1. TAKE c \in Connections, k \in LoadKeys
<1>2. /\ Joining(c, k)' <=> Joining(c, k)
      /\ InBatch(c, k)' <=> InBatch(c, k)
      /\ InFlight(c, k)' <=> InFlight(c, k)
  BY Zenon DEF Joining, InBatch, InFlight
<1>3. OnePlace(c, k) /\ FetchedOnce(c, k) /\ thunks'[c][k] = thunks[c][k] /\ fetches'[c][k] = fetches[c][k]
  BY DEF LoadersInv
<1> QED BY <1>2, <1>3, ElsewhereKeeps

\* What a step keeps that neither asks nor answers: who is alone, and how fresh answers are.
LEMMA TimesStay ==
  ASSUME LoadersInv, UNCHANGED <<begun, floor, thunks>>, \A k \in LoadKeys : rowsOf[k] <= rowsOf'[k],
         rowsOf' \in [LoadKeys -> Nat]
  PROVE  (AskedInTime /\ OwnRows /\ FreshRows)'
<1>1. AskedInTime'
  BY DEF LoadersInv, LoadersTyped, AskedInTime, Alone
<1>2. OwnRows'
  BY DEF LoadersInv, OwnRows
<1>3. FreshRows'
  BY DEF LoadersInv, FreshRows, LoaderOf, Alone
<1> QED BY <1>1, <1>2, <1>3

LEMMA WriteKeeps ==
  ASSUME LoadersInv, NEW k \in LoadKeys, WriteRows(k)
  PROVE  LoadersInv'
<1>1. rowsOf' \in [LoadKeys -> Nat] /\ \A l \in LoadKeys : rowsOf[l] <= rowsOf'[l]
  BY DEF WriteRows, LoadersInv, LoadersTyped
<1>2. UNCHANGED <<begun, floor, thunks, joining, batch, flights, fetches>>
  BY DEF WriteRows
<1>3. LoadersTyped' /\ FlightsApart' /\ \A c \in Connections : NoDuplicates(batch'[c])
  BY <1>1, <1>2 DEF LoadersInv, LoadersTyped, FlightsApart
<1>4. \A c \in Connections, l \in LoadKeys : (OnePlace(c, l) /\ FetchedOnce(c, l))'
  BY <1>2, PlacesStay
<1>5. (AskedInTime /\ OwnRows /\ FreshRows)'
  BY <1>1, <1>2, TimesStay
<1> QED BY <1>3, <1>4, <1>5 DEF LoadersInv

LEMMA BeginKeeps ==
  ASSUME LoadersInv, NEW o \in LoadOps, BeginOperation(o)
  PROVE  LoadersInv'
<1>1. /\ o \notin begun /\ begun' = begun \cup {o} /\ floor' = [floor EXCEPT ![o] = rowsOf]
      /\ UNCHANGED <<rowsOf, thunks, joining, batch, flights, fetches>>
  BY DEF BeginOperation
<1>2. LoadersTyped'
  BY <1>1 DEF LoadersInv, LoadersTyped
<1>3. FlightsApart' /\ \A c \in Connections : NoDuplicates(batch'[c])
  BY <1>1 DEF LoadersInv, FlightsApart
<1>4. \A c \in Connections, l \in LoadKeys : (OnePlace(c, l) /\ FetchedOnce(c, l))'
  BY <1>1, PlacesStay
<1>5. \A p \in LoadOps : floor'[p] = IF p = o THEN rowsOf ELSE floor[p]
  BY <1>1 DEF LoadersInv, LoadersTyped
<1>6. AskedInTime'
  <2>1. \A p \in LoadOps, k \in LoadKeys : floor'[p][k] <= rowsOf'[k]
    BY <1>1, <1>5 DEF LoadersInv, LoadersTyped, AskedInTime
  <2>2. \A p \in LoadOps, k \in LoadKeys : Alone(p) /\ thunks'[ConnectionOf[p]][k] # Unasked => p \in begun'
    BY <1>1 DEF LoadersInv, AskedInTime
  <2> QED BY <2>1, <2>2 DEF AskedInTime, Alone
<1>7. OwnRows'
  BY <1>1 DEF LoadersInv, OwnRows
<1>8. FreshRows'
  <2> SUFFICES ASSUME NEW p \in LoadOps, NEW k \in LoadKeys, Alone(p), p \in begun',
                      thunks[ConnectionOf[p]][k].at = "answered"
               PROVE  thunks[ConnectionOf[p]][k].version >= floor'[p][k]
    BY <1>1 DEF FreshRows, LoaderOf, Alone
  <2>1. thunks[ConnectionOf[p]][k] # Unasked
    BY DEF Unasked
  <2>2. p \in begun
    BY <2>1 DEF LoadersInv, AskedInTime
  <2>3. p # o
    BY <1>1, <2>2
  <2> QED BY <1>5, <2>2, <2>3 DEF LoadersInv, FreshRows, LoaderOf
<1> QED BY <1>2, <1>3, <1>4, <1>6, <1>7, <1>8 DEF LoadersInv

LEMMA LoadKeeps ==
  ASSUME LoadersInv, NEW o \in LoadOps, NEW k \in LoadKeys, Load(o, k)
  PROVE  LoadersInv'
<1> DEFINE c == ConnectionOf[o]
<1>1. /\ c \in Connections /\ o \in begun /\ thunks[c][k] = Unasked
      /\ thunks' = [thunks EXCEPT ![c][k] = Pending]
      /\ joining' = joining \cup {<<c, k>>}
      /\ UNCHANGED <<rowsOf, begun, floor, batch, flights, fetches>>
  BY OnConnection DEF Load
<1> HIDE DEF c
<1>2. \A b \in Connections, l \in LoadKeys :
        thunks'[b][l] = IF b = c /\ l = k THEN Pending ELSE thunks[b][l]
  BY <1>1 DEF LoadersInv, LoadersTyped
<1>3. LoadersTyped'
  <2>1. Pending \in Remembered
    BY DEF Pending, Remembered
  <2>2. thunks' \in [Connections -> [LoadKeys -> Remembered]]
    BY <1>1, <2>1 DEF LoadersInv, LoadersTyped
  <2> QED BY <1>1, <2>2 DEF LoadersInv, LoadersTyped
<1>4. FlightsApart' /\ \A b \in Connections : NoDuplicates(batch'[b])
  BY <1>1 DEF LoadersInv, FlightsApart
<1>5. ASSUME NEW b \in Connections, NEW l \in LoadKeys
      PROVE  (OnePlace(b, l) /\ FetchedOnce(b, l))'
  <2>1. OnePlace(b, l) /\ FetchedOnce(b, l)
    BY DEF LoadersInv
  <2>2. (InBatch(b, l)' <=> InBatch(b, l)) /\ (InFlight(b, l)' <=> InFlight(b, l)) /\ fetches'[b][l] = fetches[b][l]
    BY <1>1 DEF InBatch, InFlight
  <2>3. Joining(b, l)' <=> Joining(b, l) \/ (b = c /\ l = k)
    BY <1>1 DEF Joining
  <2>4. CASE b = c /\ l = k
    <3>1. ~Joining(b, l) /\ ~InBatch(b, l) /\ ~InFlight(b, l) /\ fetches[b][l] = 0
      BY <1>1, <2>1, <2>4, Distinct DEF OnePlace, FetchedOnce
    <3> QED BY <1>2, <2>2, <2>3, <2>4, <3>1 DEF OnePlace, FetchedOnce
  <2>5. CASE ~(b = c /\ l = k)
    <3>1. thunks'[b][l] = thunks[b][l] /\ (Joining(b, l)' <=> Joining(b, l))
      BY <1>2, <2>3, <2>5
    <3> QED BY <2>1, <2>2, <3>1, ElsewhereKeeps
  <2> QED BY <2>4, <2>5
<1>6. AskedInTime'
  <2>1. ASSUME NEW p \in LoadOps, NEW l \in LoadKeys, Alone(p), thunks'[ConnectionOf[p]][l] # Unasked
        PROVE  p \in begun
    <3>1. CASE ConnectionOf[p] = c
      BY <1>1, <2>1, <3>1 DEF Alone, c
    <3>2. CASE ConnectionOf[p] # c
      BY <1>2, <2>1, <3>2, OnConnection DEF LoadersInv, AskedInTime
    <3> QED BY <3>1, <3>2
  <2> QED BY <1>1, <2>1 DEF LoadersInv, AskedInTime, Alone
<1>7. OwnRows'
  BY <1>2 DEF LoadersInv, OwnRows, Pending
<1>8. FreshRows'
  <2> SUFFICES ASSUME NEW p \in LoadOps, NEW l \in LoadKeys, Alone(p), p \in begun,
                      thunks'[ConnectionOf[p]][l].at = "answered"
               PROVE  thunks'[ConnectionOf[p]][l].version >= floor[p][l]
    BY <1>1 DEF FreshRows, LoaderOf, Alone
  <2>1. thunks'[ConnectionOf[p]][l] = thunks[ConnectionOf[p]][l]
    BY <1>2, OnConnection DEF Pending
  <2> QED BY <2>1 DEF LoadersInv, FreshRows, LoaderOf
<1> QED BY <1>3, <1>4, <1>5, <1>6, <1>7, <1>8 DEF LoadersInv

\* A batch that leaves shares no key with those that are under way.
LEMMA DepartsApart ==
  ASSUME LoadersInv, NEW c \in Connections, NEW s, KeysOf(s) \subseteq LoadKeys,
         \A l \in KeysOf(s) : ~InFlight(c, l), flights' = flights \cup {[on |-> c, keys |-> s]}
  PROVE  /\ FlightsApart'
         /\ \A b \in Connections, l \in LoadKeys :
              InFlight(b, l)' <=> InFlight(b, l) \/ (b = c /\ l \in KeysOf(s))
<1> DEFINE f == [on |-> c, keys |-> s]
<1>1. f.on = c /\ f.keys = s /\ flights' = flights \cup {f}
  OBVIOUS
<1> HIDE DEF f
<1>2. ASSUME NEW g \in flights, g.on = f.on PROVE KeysOf(g.keys) \cap KeysOf(f.keys) = {}
  BY <1>1, <1>2 DEF InFlight
<1>3. FlightsApart'
  BY <1>1, <1>2 DEF FlightsApart, LoadersInv
<1>4. \A b \in Connections, l \in LoadKeys :
        InFlight(b, l)' <=> InFlight(b, l) \/ (b = c /\ l \in KeysOf(s))
  BY <1>1 DEF InFlight
<1> QED BY <1>3, <1>4

LEMMA JoinKeeps ==
  ASSUME LoadersInv, NEW c \in Connections, NEW k \in LoadKeys, JoinBatch(c, k)
  PROVE  LoadersInv'
<1> DEFINE s == Append(batch[c], k)
<1>1. /\ <<c, k>> \in joining /\ joining' = joining \ {<<c, k>>}
      /\ UNCHANGED <<rowsOf, begun, floor, thunks, fetches>>
      /\ \/ batch' = [batch EXCEPT ![c] = <<>>] /\ flights' = flights \cup {[on |-> c, keys |-> s]}
         \/ batch' = [batch EXCEPT ![c] = s] /\ flights' = flights
  BY DEF JoinBatch
<1>2. batch[c] \in Seq(LoadKeys) /\ OnePlace(c, k) /\ NoDuplicates(batch[c])
  BY DEF LoadersInv, LoadersTyped
<1>3. Joining(c, k) /\ k \notin KeysOf(batch[c]) /\ ~InFlight(c, k)
  BY <1>1, <1>2 DEF OnePlace, Joining, InBatch
<1>4. s \in Seq(LoadKeys) /\ KeysOf(s) = KeysOf(batch[c]) \cup {k} /\ NoDuplicates(s)
  BY <1>2, <1>3, KeysOfAppend
<1>5. (AskedInTime /\ OwnRows /\ FreshRows)'
  <2>1. rowsOf' \in [LoadKeys -> Nat] /\ \A l \in LoadKeys : rowsOf[l] <= rowsOf'[l]
    BY <1>1 DEF LoadersInv, LoadersTyped
  <2> QED BY <1>1, <2>1, TimesStay
<1> HIDE DEF s
<1>6. \A b \in Connections, l \in LoadKeys : Joining(b, l)' <=> Joining(b, l) /\ ~(b = c /\ l = k)
  BY <1>1 DEF Joining
<1>7. KeysOf(batch[c]) \subseteq LoadKeys /\ \A l \in KeysOf(s) : ~InFlight(c, l)
  <2>1. KeysOf(batch[c]) \subseteq LoadKeys
    BY <1>2 DEF KeysOf
  <2>2. \A l \in LoadKeys : l \in KeysOf(batch[c]) => ~InFlight(c, l)
    BY DEF LoadersInv, OnePlace, InBatch
  <2> QED BY <1>3, <1>4, <2>1, <2>2
<1>8. CASE batch' = [batch EXCEPT ![c] = <<>>] /\ flights' = flights \cup {[on |-> c, keys |-> s]}
  <2>1. FlightsApart' /\ \A b \in Connections, l \in LoadKeys :
                           InFlight(b, l)' <=> InFlight(b, l) \/ (b = c /\ l \in KeysOf(s))
    BY <1>4, <1>7, <1>8, DepartsApart
  <2>2. \A b \in Connections : batch'[b] = IF b = c THEN <<>> ELSE batch[b]
    BY <1>8 DEF LoadersInv, LoadersTyped
  <2>3. \A b \in Connections, l \in LoadKeys : InBatch(b, l)' <=> InBatch(b, l) /\ b # c
    BY <2>2, KeysOfNone DEF InBatch
  <2>4. \A b \in Connections : NoDuplicates(batch'[b])
    BY <2>2, KeysOfNone DEF LoadersInv
  <2>5. LoadersTyped'
    <3>1. [on |-> c, keys |-> s] \in Flight
      BY <1>4 DEF Flight
    <3>2. batch' \in [Connections -> Seq(LoadKeys)]
      BY <1>8, KeysOfNone DEF LoadersInv, LoadersTyped
    <3> QED BY <1>1, <1>8, <3>1, <3>2 DEF LoadersInv, LoadersTyped
  <2>6. ASSUME NEW b \in Connections, NEW l \in LoadKeys
        PROVE  (OnePlace(b, l) /\ FetchedOnce(b, l))'
    <3>1. OnePlace(b, l) /\ FetchedOnce(b, l) /\ OnePlace(c, l)
      BY DEF LoadersInv
    <3>2. thunks'[b][l] = thunks[b][l] /\ fetches'[b][l] = fetches[b][l]
      BY <1>1
    <3>3. /\ Joining(b, l)' <=> Joining(b, l) /\ ~(b = c /\ l = k)
          /\ InBatch(b, l)' <=> InBatch(b, l) /\ b # c
          /\ InFlight(b, l)' <=> InFlight(b, l) \/ (b = c /\ (InBatch(c, l) \/ l = k))
      BY <1>4, <1>6, <2>1, <2>3 DEF InBatch
    <3> QED BY <1>3, <3>1, <3>2, <3>3 DEF OnePlace, FetchedOnce
  <2> QED BY <1>5, <2>1, <2>4, <2>5, <2>6 DEF LoadersInv
<1>9. CASE batch' = [batch EXCEPT ![c] = s] /\ flights' = flights
  <2>1. FlightsApart' /\ \A b \in Connections, l \in LoadKeys : InFlight(b, l)' <=> InFlight(b, l)
    BY <1>9 DEF LoadersInv, FlightsApart, InFlight
  <2>2. \A b \in Connections : batch'[b] = IF b = c THEN s ELSE batch[b]
    BY <1>9 DEF LoadersInv, LoadersTyped
  <2>3. \A b \in Connections, l \in LoadKeys : InBatch(b, l)' <=> InBatch(b, l) \/ (b = c /\ l = k)
    BY <1>4, <2>2 DEF InBatch
  <2>4. \A b \in Connections : NoDuplicates(batch'[b])
    BY <1>4, <2>2 DEF LoadersInv
  <2>5. LoadersTyped'
    BY <1>1, <1>4, <1>9 DEF LoadersInv, LoadersTyped
  <2>6. ASSUME NEW b \in Connections, NEW l \in LoadKeys
        PROVE  (OnePlace(b, l) /\ FetchedOnce(b, l))'
    <3>1. OnePlace(b, l) /\ FetchedOnce(b, l)
      BY DEF LoadersInv
    <3>2. thunks'[b][l] = thunks[b][l] /\ fetches'[b][l] = fetches[b][l]
      BY <1>1
    <3>3. /\ Joining(b, l)' <=> Joining(b, l) /\ ~(b = c /\ l = k)
          /\ InBatch(b, l)' <=> InBatch(b, l) \/ (b = c /\ l = k)
          /\ InFlight(b, l)' <=> InFlight(b, l)
      BY <1>6, <2>1, <2>3
    <3> QED BY <1>3, <3>1, <3>2, <3>3 DEF OnePlace, FetchedOnce
  <2> QED BY <1>5, <2>1, <2>4, <2>5, <2>6 DEF LoadersInv
<1> QED BY <1>1, <1>8, <1>9

LEMMA CloseKeeps ==
  ASSUME LoadersInv, NEW c \in Connections, CloseBatch(c)
  PROVE  LoadersInv'
<1>1. /\ batch' = [batch EXCEPT ![c] = <<>>] /\ flights' = flights \cup {[on |-> c, keys |-> batch[c]]}
      /\ UNCHANGED <<rowsOf, begun, floor, thunks, joining, fetches>>
  BY DEF CloseBatch
<1>2. batch[c] \in Seq(LoadKeys) /\ KeysOf(batch[c]) \subseteq LoadKeys
  <2>1. batch[c] \in Seq(LoadKeys)
    BY DEF LoadersInv, LoadersTyped
  <2> QED BY <2>1 DEF KeysOf
<1>3. \A l \in KeysOf(batch[c]) : ~InFlight(c, l)
  BY <1>2 DEF LoadersInv, OnePlace, InBatch
<1>4. FlightsApart' /\ \A b \in Connections, l \in LoadKeys :
                         InFlight(b, l)' <=> InFlight(b, l) \/ (b = c /\ l \in KeysOf(batch[c]))
  BY <1>1, <1>2, <1>3, DepartsApart
<1>5. \A b \in Connections : batch'[b] = IF b = c THEN <<>> ELSE batch[b]
  BY <1>1 DEF LoadersInv, LoadersTyped
<1>6. \A b \in Connections, l \in LoadKeys : InBatch(b, l)' <=> InBatch(b, l) /\ b # c
  BY <1>5, KeysOfNone DEF InBatch
<1>7. \A b \in Connections : NoDuplicates(batch'[b])
  BY <1>5, KeysOfNone DEF LoadersInv
<1>8. LoadersTyped'
  <2>1. [on |-> c, keys |-> batch[c]] \in Flight
    BY <1>2 DEF Flight
  <2>2. batch' \in [Connections -> Seq(LoadKeys)]
    BY <1>1, KeysOfNone DEF LoadersInv, LoadersTyped
  <2> QED BY <1>1, <2>1, <2>2 DEF LoadersInv, LoadersTyped
<1>9. (AskedInTime /\ OwnRows /\ FreshRows)'
  <2>1. rowsOf' \in [LoadKeys -> Nat] /\ \A l \in LoadKeys : rowsOf[l] <= rowsOf'[l]
    BY <1>1 DEF LoadersInv, LoadersTyped
  <2> QED BY <1>1, <2>1, TimesStay
<1>10. ASSUME NEW b \in Connections, NEW l \in LoadKeys
       PROVE  (OnePlace(b, l) /\ FetchedOnce(b, l))'
  <2>1. OnePlace(b, l) /\ FetchedOnce(b, l)
    BY DEF LoadersInv
  <2>2. thunks'[b][l] = thunks[b][l] /\ fetches'[b][l] = fetches[b][l]
    BY <1>1
  <2>3. /\ Joining(b, l)' <=> Joining(b, l)
        /\ InBatch(b, l)' <=> InBatch(b, l) /\ b # c
        /\ InFlight(b, l)' <=> InFlight(b, l) \/ (b = c /\ InBatch(b, l))
    BY <1>1, <1>4, <1>6 DEF Joining, InBatch
  <2> QED BY <2>1, <2>2, <2>3 DEF OnePlace, FetchedOnce
<1> QED BY <1>4, <1>7, <1>8, <1>9, <1>10 DEF LoadersInv

-----------------------------------------------------------------------------
(* The query                                                               *)

\* What a key may be given by a query: its rows, none because there are none, an error.
IsAnswerFor(k, t) ==
  t = Failed \/ t = Answer(k, rowsOf[k]) \/ (t = NoRows /\ rowsOf[k] = 0)

LEMMA ResultsAnswer ==
  ASSUME NEW keys, KeysOf(keys) \subseteq LoadKeys, rowsOf \in [LoadKeys -> Nat],
         NEW results \in {Results(keys), Failures(keys)}, NEW k \in KeysOf(keys)
  PROVE  IsAnswerFor(k, results[CHOOSE i \in DOMAIN keys : keys[i] = k])
<1>1. PICK i : i = CHOOSE j \in DOMAIN keys : keys[j] = k
  OBVIOUS
<1>2. i \in DOMAIN keys /\ keys[i] = k
  <2>1. \E j \in DOMAIN keys : keys[j] = k
    BY DEF KeysOf
  <2> QED BY <1>1, <2>1
<1>3. IsAnswerFor(k, results[i])
  <2>1. CASE results = Failures(keys)
    BY <1>2, <2>1 DEF Failures, IsAnswerFor
  <2>2. CASE results = Results(keys)
    <3> DEFINE data == RowsByKey(KeysOf(keys))
    <3>1. results[i] = IF k \in DOMAIN data THEN data[k] ELSE NoRows
      BY <1>2, <2>2 DEF Results
    <3>2. DOMAIN data = {l \in KeysOf(keys) : rowsOf[l] > 0}
      BY DEF RowsByKey
    <3>3. k \in DOMAIN data => data[k] = Answer(k, rowsOf[k])
      BY <3>2 DEF RowsByKey
    <3>4. k \notin DOMAIN data => rowsOf[k] = 0
      BY <3>2
    <3> QED BY <3>1, <3>3, <3>4 DEF IsAnswerFor
  <2> QED BY <2>1, <2>2
<1> QED BY <1>1, <1>3

LEMMA AnswersTyped ==
  ASSUME NEW k \in LoadKeys, rowsOf \in [LoadKeys -> Nat], NEW t, IsAnswerFor(k, t)
  PROVE  /\ t \in Remembered /\ t \notin {Unasked, Pending} /\ t.of \in {k, "nothing"}
         /\ t.at = "answered" => t.version = rowsOf[k]
  BY DEF IsAnswerFor, Failed, Answer, NoRows, Unasked, Pending, Remembered

LEMMA FetchKeeps ==
  ASSUME LoadersInv, NEW f \in flights, Fetch(f)
  PROVE  LoadersInv'
<1>1. f.on \in Connections /\ f.keys \in Seq(LoadKeys) /\ rowsOf \in [LoadKeys -> Nat]
  BY DEF LoadersInv, LoadersTyped, Flight
<1>2. PICK results \in {Results(f.keys), Failures(f.keys)} :
        thunks' = [thunks EXCEPT ![f.on] =
          [k \in LoadKeys |->
             IF k \in KeysOf(f.keys)
             THEN results[CHOOSE i \in DOMAIN f.keys : f.keys[i] = k] ELSE @[k]]]
  BY DEF Fetch
<1>3. /\ flights' = flights \ {f} /\ UNCHANGED <<rowsOf, begun, floor, joining, batch>>
      /\ fetches' = [fetches EXCEPT ![f.on] =
           [k \in LoadKeys |-> IF k \in KeysOf(f.keys) THEN @[k] + 1 ELSE @[k]]]
  BY DEF Fetch
<1> DEFINE Fetched(c, k) == c = f.on /\ k \in KeysOf(f.keys)
<1>4. KeysOf(f.keys) \subseteq LoadKeys
  BY <1>1 DEF KeysOf
<1>5. \A c \in Connections, k \in LoadKeys :
        IF Fetched(c, k) THEN IsAnswerFor(k, thunks'[c][k]) ELSE thunks'[c][k] = thunks[c][k]
  <2>1. \A k \in KeysOf(f.keys) : IsAnswerFor(k, results[CHOOSE i \in DOMAIN f.keys : f.keys[i] = k])
    BY <1>1, <1>4, ResultsAnswer
  <2> DEFINE Of(k) == results[CHOOSE i \in DOMAIN f.keys : f.keys[i] = k]
  <2>2. thunks' = [thunks EXCEPT ![f.on] =
          [k \in LoadKeys |-> IF k \in KeysOf(f.keys) THEN Of(k) ELSE @[k]]]
    BY <1>2
  <2>3. \A k \in KeysOf(f.keys) : IsAnswerFor(k, Of(k))
    BY <2>1
  <2> HIDE DEF Of
  <2>4. \A c \in Connections, k \in LoadKeys :
          thunks'[c][k] = IF Fetched(c, k) THEN Of(k) ELSE thunks[c][k]
    BY <2>2 DEF LoadersInv, LoadersTyped
  <2> QED BY <2>3, <2>4
<1>6. \A c \in Connections, k \in LoadKeys :
        fetches'[c][k] = IF Fetched(c, k) THEN fetches[c][k] + 1 ELSE fetches[c][k]
  BY <1>3 DEF LoadersInv, LoadersTyped
<1>7. \A c \in Connections, k \in LoadKeys :
        /\ Fetched(c, k) => InFlight(c, k)
        /\ InFlight(c, k)' <=> InFlight(c, k) /\ ~Fetched(c, k)
  BY <1>1, <1>3, <1>4 DEF InFlight, LoadersInv, FlightsApart
<1> HIDE DEF Fetched
<1>8. LoadersTyped'
  <2>1. \A c \in Connections, k \in LoadKeys : thunks'[c][k] \in Remembered
    <3>1. TAKE c \in Connections, k \in LoadKeys
    <3>2. CASE Fetched(c, k)
      BY <1>1, <1>5, <3>2, AnswersTyped
    <3>3. CASE ~Fetched(c, k)
      BY <1>5, <3>3 DEF LoadersInv, LoadersTyped
    <3> QED BY <3>2, <3>3
  <2>2. thunks' \in [Connections -> [LoadKeys -> Remembered]]
    BY <1>2, <2>1 DEF LoadersInv, LoadersTyped
  <2>3. fetches' \in [Connections -> [LoadKeys -> Nat]]
    <3>1. \A k \in LoadKeys : fetches[f.on][k] \in Nat /\ fetches[f.on][k] + 1 \in Nat
      BY <1>1 DEF LoadersInv, LoadersTyped
    <3>2. [k \in LoadKeys |-> IF k \in KeysOf(f.keys) THEN fetches[f.on][k] + 1 ELSE fetches[f.on][k]]
            \in [LoadKeys -> Nat]
      BY <3>1
    <3> QED BY <1>3, <3>2 DEF LoadersInv, LoadersTyped
  <2> QED BY <1>3, <2>2, <2>3 DEF LoadersInv, LoadersTyped
<1>9. FlightsApart' /\ \A c \in Connections : NoDuplicates(batch'[c])
  BY <1>3 DEF LoadersInv, FlightsApart
<1>10. ASSUME NEW c \in Connections, NEW k \in LoadKeys
       PROVE  (OnePlace(c, k) /\ FetchedOnce(c, k))'
  <2>1. OnePlace(c, k) /\ FetchedOnce(c, k)
    BY DEF LoadersInv
  <2>2. (Joining(c, k)' <=> Joining(c, k)) /\ (InBatch(c, k)' <=> InBatch(c, k))
    BY <1>3 DEF Joining, InBatch
  <2>3. CASE Fetched(c, k)
    <3>1. thunks[c][k] = Pending /\ ~Joining(c, k) /\ ~InBatch(c, k) /\ fetches[c][k] = 0
      BY <1>7, <2>1, <2>3 DEF OnePlace, FetchedOnce
    <3>2. thunks'[c][k] \notin {Unasked, Pending} /\ fetches'[c][k] = 1 /\ ~InFlight(c, k)'
      BY <1>1, <1>5, <1>6, <1>7, <2>3, <3>1, AnswersTyped
    <3> QED BY <2>2, <3>1, <3>2 DEF OnePlace, FetchedOnce
  <2>4. CASE ~Fetched(c, k)
    <3>1. thunks'[c][k] = thunks[c][k] /\ fetches'[c][k] = fetches[c][k] /\ (InFlight(c, k)' <=> InFlight(c, k))
      BY <1>5, <1>6, <1>7, <2>4
    <3> QED BY <2>1, <2>2, <3>1, ElsewhereKeeps
  <2> QED BY <2>3, <2>4
<1>11. AskedInTime'
  <2>1. ASSUME NEW p \in LoadOps, NEW k \in LoadKeys, Alone(p), thunks'[ConnectionOf[p]][k] # Unasked
        PROVE  p \in begun
    <3>1. thunks[ConnectionOf[p]][k] # Unasked
      <4>1. CASE Fetched(ConnectionOf[p], k)
        BY <1>7, <4>1, OnConnection, Distinct DEF LoadersInv, OnePlace
      <4>2. CASE ~Fetched(ConnectionOf[p], k)
        BY <1>5, <2>1, <4>2, OnConnection
      <4> QED BY <4>1, <4>2
    <3> QED BY <2>1, <3>1 DEF LoadersInv, AskedInTime
  <2> QED BY <1>3, <2>1 DEF LoadersInv, AskedInTime, Alone
<1>12. OwnRows'
  BY <1>1, <1>5, AnswersTyped DEF LoadersInv, OwnRows
<1>13. FreshRows'
  <2> SUFFICES ASSUME NEW p \in LoadOps, NEW k \in LoadKeys, Alone(p), p \in begun,
                      thunks'[ConnectionOf[p]][k].at = "answered"
               PROVE  thunks'[ConnectionOf[p]][k].version >= floor[p][k]
    BY <1>3 DEF FreshRows, LoaderOf, Alone
  <2>1. CASE Fetched(ConnectionOf[p], k)
    <3>1. thunks'[ConnectionOf[p]][k].version = rowsOf[k]
      BY <1>1, <1>5, <2>1, OnConnection, AnswersTyped
    <3>2. floor[p][k] <= rowsOf[k] /\ floor[p][k] \in Nat /\ rowsOf[k] \in Nat
      BY DEF LoadersInv, LoadersTyped, AskedInTime
    <3> QED BY <3>1, <3>2
  <2>2. CASE ~Fetched(ConnectionOf[p], k)
    <3>1. thunks'[ConnectionOf[p]][k] = thunks[ConnectionOf[p]][k]
      BY <1>5, <2>2, OnConnection
    <3> QED BY <3>1 DEF LoadersInv, FreshRows, LoaderOf
  <2> QED BY <2>1, <2>2
<1> QED BY <1>8, <1>9, <1>10, <1>11, <1>12, <1>13 DEF LoadersInv

LEMMA LoadersStepKeeps == LoadersInv /\ [LoadersNext]_loaderVars => LoadersInv'
<1> SUFFICES ASSUME LoadersInv, [LoadersNext]_loaderVars PROVE LoadersInv'
  OBVIOUS
<1>1. CASE UNCHANGED loaderVars
  <2>1. UNCHANGED <<rowsOf, begun, floor, thunks, joining, batch, flights, fetches>>
    BY <1>1 DEF loaderVars
  <2>2. LoadersTyped' /\ FlightsApart' /\ \A c \in Connections : NoDuplicates(batch'[c])
    BY <2>1 DEF LoadersInv, LoadersTyped, FlightsApart
  <2>3. (AskedInTime /\ OwnRows /\ FreshRows)'
    <3>1. rowsOf' \in [LoadKeys -> Nat] /\ \A k \in LoadKeys : rowsOf[k] <= rowsOf'[k]
      BY <2>1 DEF LoadersInv, LoadersTyped
    <3> QED BY <2>1, <3>1, TimesStay
  <2> QED BY <2>1, <2>2, <2>3, PlacesStay DEF LoadersInv
<1>2. CASE LoadersNext
  BY <1>2, BeginKeeps, LoadKeeps, CloseKeeps, JoinKeeps, FetchKeeps, WriteKeeps DEF LoadersNext
<1> QED BY <1>1, <1>2

\* One place is one element of Places.
LEMMA PlacesCounted ==
  ASSUME LoadersInv, NEW c \in Connections, NEW k \in LoadKeys
  PROVE  /\ thunks[c][k] = Pending => Cardinality(Places(c, k)) = 1
         /\ thunks[c][k] # Pending => Places(c, k) = {}
<1> DEFINE J == {<<"joining">> : p \in joining \cap {<<c, k>>}}
           B == {<<"batch", i>> : i \in {j \in DOMAIN batch[c] : batch[c][j] = k}}
           F == {<<"flight", f>> : f \in {g \in flights : g.on = c /\ k \in KeysOf(g.keys)}}
<1>1. Places(c, k) = J \cup B \cup F
  BY DEF Places
<1>2. OnePlace(c, k) /\ NoDuplicates(batch[c]) /\ FlightsApart
  BY DEF LoadersInv
<1>3. J = IF Joining(c, k) THEN {<<"joining">>} ELSE {}
  BY DEF Joining
<1>4. (B # {} <=> InBatch(c, k)) /\ \A x, y \in B : x = y
  BY <1>2 DEF InBatch, KeysOf, NoDuplicates
<1>5. (F # {} <=> InFlight(c, k)) /\ \A x, y \in F : x = y
  BY <1>2 DEF InFlight, FlightsApart
<1> HIDE DEF J, B, F
<1>6. CASE thunks[c][k] # Pending
  BY <1>1, <1>2, <1>3, <1>4, <1>5, <1>6 DEF OnePlace
<1>7. CASE thunks[c][k] = Pending
  <2>1. \E x : J \cup B \cup F = {x}
    <3>1. CASE Joining(c, k)
      BY <1>2, <1>3, <1>4, <1>5, <3>1 DEF OnePlace
    <3>2. CASE InBatch(c, k)
      <4>1. J = {} /\ F = {} /\ B # {}
        BY <1>2, <1>3, <1>4, <1>5, <3>2 DEF OnePlace
      <4> QED BY <1>4, <4>1
    <3>3. CASE InFlight(c, k)
      <4>1. J = {} /\ B = {} /\ F # {}
        BY <1>2, <1>3, <1>4, <1>5, <3>3 DEF OnePlace
      <4> QED BY <1>5, <4>1
    <3> QED BY <1>2, <1>7, <3>1, <3>2, <3>3 DEF OnePlace
  <2>2. PICK x : Places(c, k) = {x}
    BY <1>1, <2>1
  <2> QED BY <1>7, <2>2, FS_Singleton
<1> QED BY <1>6, <1>7

LEMMA LoadersInvSound == LoadersInv => LoadsSound
<1> SUFFICES ASSUME LoadersInv PROVE LoadsSound
  OBVIOUS
<1>1. \A c \in Connections, k \in LoadKeys : fetches[c][k] <= 1
  BY DEF LoadersInv, FetchedOnce
<1>2. NobodyForgotten
  BY <1>1, PlacesCounted DEF NobodyForgotten
<1> QED BY <1>2 DEF LoadersInv, LoadsSound

(* For any operations, connections, keys, batches and writes: whoever      *)
(* asks a loader is answered once its batch is, with the rows of the key   *)
(* it asked for, and an operation alone on its connection never with rows  *)
(* older than itself.                                                      *)
THEOREM LoadersAreSound == LoadersSpec => []LoadsSound
<1>1. LoadersInv /\ [LoadersNext]_loaderVars => LoadersInv'
  BY LoadersStepKeeps
<1> QED BY LoadersStart, LoadersInvSound, <1>1, PTL DEF LoadersSpec
=============================================================================
