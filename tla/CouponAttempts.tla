--------------------------- MODULE CouponAttempts ---------------------------
(***************************************************************************)
(* ValidateCoupon of the coupon service, for one customer: the number of   *)
(* failed attempts of the day is read in one statement, the code looked up *)
(* in others and a failure counted in a last one, while the customer's     *)
(* other requests do the same.  The counter is best effort: when it cannot *)
(* be read everybody passes, when it cannot be written the attempt is not  *)
(* counted.                                                                *)
(***************************************************************************)
EXTENDS Integers, FiniteSets

CONSTANTS Requests,          \* requests of the customer that can overlap
          MaxFailedAttempts, \* MaxFailedCouponAttemptsPerDay
          MaxTries,          \* bound: validations of the whole run
          MaxCounterFaults,  \* bound: counter reads and writes that fail
          MaxDays            \* bound: midnights

ASSUME AttemptsAssumption ==
  /\ IsFiniteSet(Requests)
  /\ MaxFailedAttempts \in Nat \ {0} /\ MaxTries \in Nat
  /\ MaxCounterFaults \in Nat /\ MaxDays \in Nat

VARIABLES failed,    \* today's row of coupon_validation_attempts
          at,        \* where each request is: "idle", "lookup", "record"
          guesses,   \* wrong codes looked up today
          uncounted, \* attempts the counter missed or let through today
          counterFaults, tries, days

attemptVars == <<failed, at, guesses, uncounted, counterFaults, tries, days>>

AttemptsInit ==
  /\ failed = 0 /\ guesses = 0 /\ uncounted = 0
  /\ at = [r \in Requests |-> "idle"]
  /\ counterFaults = 0 /\ tries = 0 /\ days = 0

CounterFault ==
  /\ counterFaults < MaxCounterFaults
  /\ counterFaults' = counterFaults + 1
  /\ uncounted' = uncounted + 1

CountFailedAttempts(r) ==
  /\ at[r] = "idle" /\ tries < MaxTries
  /\ tries' = tries + 1
  /\ \/ /\ failed < MaxFailedAttempts
        /\ at' = [at EXCEPT ![r] = "lookup"]
        /\ UNCHANGED <<counterFaults, uncounted>>
     \/ /\ failed >= MaxFailedAttempts           \* DailyAttemptLimitError
        /\ UNCHANGED <<at, counterFaults, uncounted>>
     \/ /\ CounterFault                          \* fail open
        /\ at' = [at EXCEPT ![r] = "lookup"]
  /\ UNCHANGED <<failed, guesses, days>>

(* A code that is right, or right but for the minimum amount, does not     *)
(* count; a failing usage query ends the request uncounted too, without    *)
(* an answer about the code.                                               *)
LookUpCode(r) ==
  /\ at[r] = "lookup"
  /\ \/ at' = [at EXCEPT ![r] = "idle"] /\ UNCHANGED guesses
     \/ at' = [at EXCEPT ![r] = "record"] /\ guesses' = guesses + 1
  /\ UNCHANGED <<failed, uncounted, counterFaults, tries, days>>

RecordNothing(r) ==
  /\ at[r] = "record"
  /\ at' = [at EXCEPT ![r] = "idle"]
  /\ UNCHANGED <<failed, guesses, uncounted, counterFaults, tries, days>>

RecordFailedAttempt(r) ==
  /\ at[r] = "record"
  /\ at' = [at EXCEPT ![r] = "idle"]
  /\ \/ failed' = failed + 1 /\ UNCHANGED <<counterFaults, uncounted>>
     \/ CounterFault /\ UNCHANGED failed
  /\ UNCHANGED <<guesses, tries, days>>

(* Midnight in Brussels: a new row.  A request on its way was let through  *)
(* by yesterday's.                                                         *)
Midnight ==
  /\ days < MaxDays
  /\ days' = days + 1
  /\ failed' = 0 /\ guesses' = 0 /\ uncounted' = 0
  /\ UNCHANGED <<at, counterFaults, tries>>

AttemptsNext ==
  \/ \E r \in Requests : CountFailedAttempts(r) \/ LookUpCode(r) \/ RecordFailedAttempt(r)
  \/ Midnight

AttemptsSpec == AttemptsInit /\ [][AttemptsNext]_attemptVars

(* Parallel requests can all pass the same count, but no more than that:   *)
(* a customer tries at most the daily limit of wrong codes, one more per   *)
(* request in parallel, and those a failing counter lets through.          *)
GuessesBounded ==
  guesses <= MaxFailedAttempts + (Cardinality(Requests) - 1) + uncounted
=============================================================================
