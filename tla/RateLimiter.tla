----------------------------- MODULE RateLimiter -----------------------------
(***************************************************************************)
(* internal/shared/middleware/ratelimit.go: one limiter per client, made   *)
(* on its first request and forgotten by a background goroutine once the   *)
(* client has been silent for a while.                                     *)
(*                                                                         *)
(* A request takes its client's limiter under the mutex and asks it for a  *)
(* token in a later step, when the map may no longer hold that limiter.    *)
(* Time is counted in ticks of which a token takes Period to come back.    *)
(***************************************************************************)
EXTENDS Naturals

CONSTANTS Keys,        \* client addresses, or the user identifiers of AllowKey
          Callers,     \* requests
          Limiters,    \* rate.Limiter objects
          NoLimiter,
          Burst,       \* tokens a limiter starts with and holds at most
          Period,      \* ticks per token
          Idle,        \* silence after which a visitor is forgotten: 3 minutes
          Stall        \* longest pause between getVisitor and Allow

\* A client silent for Idle has all its tokens back, whatever a request that was
\* slow to ask had taken.  Every limiter main.go builds refills within a minute.
ASSUME LimiterAssumption ==
  /\ Burst \in Nat \ {0} /\ Period \in Nat \ {0} /\ Idle \in Nat /\ Stall \in Nat
  /\ Burst * Period + Stall <= Idle
  /\ NoLimiter \notin Limiters

VARIABLES visitors,    \* [Keys -> Limiters or NoLimiter], the map
          lastSeen,    \* [Keys -> ticks since the visitor was last looked up]
          credit,      \* [Limiters -> 0 .. Full]
          caller,      \* [Callers -> [at, key, limiter, age]]
          stopped      \* the done channel is closed

limiterVars == <<visitors, lastSeen, credit, caller, stopped>>

Full == Burst * Period
Refilled(n) == IF n < Full THEN n + 1 ELSE n
Idling == [at |-> "idle", key |-> NoLimiter, limiter |-> NoLimiter, age |-> 0]

LimiterInit ==
  /\ visitors = [k \in Keys |-> NoLimiter]
  /\ lastSeen = [k \in Keys |-> 0]
  /\ credit = [l \in Limiters |-> Full]
  /\ caller = [c \in Callers |-> Idling]
  /\ stopped = FALSE

SpareLimiter(l) ==
  (\A k \in Keys : visitors[k] # l) /\ (\A c \in Callers : caller[c].limiter # l)

\* Mutant of Known: the time stamp of a known visitor is not refreshed.
KnownOnce(k, l) ==
  /\ visitors[k] = l /\ l # NoLimiter
  /\ UNCHANGED <<visitors, lastSeen, credit>>

\* The visitor's limiter and what the map holds of it afterwards.
Known(k, l) ==
  /\ visitors[k] = l /\ l # NoLimiter
  /\ lastSeen' = [lastSeen EXCEPT ![k] = 0]
  /\ UNCHANGED <<visitors, credit>>

NewVisitor(k, l) ==
  /\ visitors[k] = NoLimiter /\ SpareLimiter(l)
  /\ visitors' = [visitors EXCEPT ![k] = l]
  /\ lastSeen' = [lastSeen EXCEPT ![k] = 0]
  /\ credit' = [credit EXCEPT ![l] = Full]

GetVisitor(c, k) ==
  /\ caller[c].at = "idle"
  /\ \E l \in Limiters :
       /\ Known(k, l) \/ NewVisitor(k, l)
       /\ caller' = [caller EXCEPT ![c] =
                       [at |-> "looked", key |-> k, limiter |-> l, age |-> 0]]
  /\ UNCHANGED stopped

Answered(c, a) == caller' = [caller EXCEPT ![c] = [Idling EXCEPT !.at = a]]

\* Limiter.Allow: Middleware lets the request pass or answers 429, AllowKey
\* returns true or false.
Allow(c) ==
  LET l == caller[c].limiter IN
  /\ caller[c].at = "looked"
  /\ \/ /\ credit[l] >= Period
        /\ credit' = [credit EXCEPT ![l] = @ - Period]
        /\ Answered(c, "granted")
     \/ /\ credit[l] < Period
        /\ Answered(c, "refused")
        /\ UNCHANGED credit
  /\ UNCHANGED <<visitors, lastSeen, stopped>>

Done(c) ==
  /\ caller[c].at \in {"granted", "refused"}
  /\ Answered(c, "idle")
  /\ UNCHANGED <<visitors, lastSeen, credit, stopped>>

\* One turn of the cleanup goroutine, whenever its ticker fires.
Cleanup ==
  /\ ~stopped /\ \E k \in Keys : visitors[k] # NoLimiter /\ lastSeen[k] > Idle
  /\ visitors' = [k \in Keys |-> IF lastSeen[k] > Idle THEN NoLimiter ELSE visitors[k]]
  /\ lastSeen' = [k \in Keys |-> IF lastSeen[k] > Idle THEN 0 ELSE lastSeen[k]]
  /\ UNCHANGED <<credit, caller, stopped>>

Stop ==
  /\ ~stopped /\ stopped' = TRUE
  /\ UNCHANGED <<visitors, lastSeen, credit, caller>>

\* Time passes, and every limiter gains a part of a token.  No request pauses
\* for more than Stall between its two steps.
Tick ==
  /\ \A c \in Callers : caller[c].at = "looked" => caller[c].age < Stall
  /\ lastSeen' = [k \in Keys |->
                    IF visitors[k] # NoLimiter /\ lastSeen[k] <= Idle
                    THEN lastSeen[k] + 1 ELSE lastSeen[k]]
  /\ credit' = [l \in Limiters |-> Refilled(credit[l])]
  /\ caller' = [c \in Callers |->
                  IF caller[c].at = "looked" THEN [caller[c] EXCEPT !.age = @ + 1]
                  ELSE caller[c]]
  /\ UNCHANGED <<visitors, stopped>>

LimiterNext ==
  \/ \E c \in Callers : Allow(c) \/ Done(c) \/ \E k \in Keys : GetVisitor(c, k)
  \/ Cleanup \/ Stop \/ Tick

LimiterSpec == LimiterInit /\ [][LimiterNext]_limiterVars
-----------------------------------------------------------------------------
LimiterTypeOK ==
  /\ visitors \in [Keys -> Limiters \cup {NoLimiter}]
  /\ lastSeen \in [Keys -> 0 .. Idle + 1]
  /\ credit \in [Limiters -> 0 .. Full]
  /\ caller \in [Callers -> [at : {"idle", "looked", "granted", "refused"},
                             key : Keys \cup {NoLimiter},
                             limiter : Limiters \cup {NoLimiter}, age : 0 .. Stall]]
  /\ stopped \in BOOLEAN

\* Two clients never share a limiter.
OwnLimiters ==
  \A j, k \in Keys : visitors[j] = visitors[k] /\ visitors[k] # NoLimiter => j = k

\* The limiter a request asks is still its client's, and has been looked up no
\* longer ago than the request did.
AskedIsMapped ==
  \A c \in Callers : caller[c].at = "looked" =>
    /\ caller[c].key \in Keys /\ caller[c].limiter \in Limiters
    /\ visitors[caller[c].key] = caller[c].limiter
    /\ lastSeen[caller[c].key] <= caller[c].age

\* What a silent client has got back.
SilentRefilled ==
  \A k \in Keys : visitors[k] # NoLimiter =>
    \/ credit[visitors[k]] = Full
    \/ credit[visitors[k]] + Stall >= lastSeen[k]

\* The buckets as a client sees them: one that was forgotten is full.
bucketOf == [k \in Keys |-> IF visitors[k] = NoLimiter THEN Full ELSE credit[visitors[k]]]
answerOf == [c \in Callers |-> IF caller[c].at \in {"granted", "refused"}
                               THEN caller[c].at ELSE "none"]
Bucket == INSTANCE TokenBucket WITH bucket <- bucketOf, answer <- answerOf

\* Forgetting visitors is invisible: whatever the cleanup deletes while requests
\* are between getVisitor and Allow, each client is granted what one bucket that
\* is never forgotten would grant it.
LimitsHold == Bucket!BucketSpec
==============================================================================
