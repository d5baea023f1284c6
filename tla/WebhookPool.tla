------------------------------ MODULE WebhookPool ------------------------------
(***************************************************************************)
(* WithPaymentLock and the connection pool behind it.  Every delivery      *)
(* takes a pooled connection for its session advisory lock, waits for the  *)
(* lock on that connection, and runs the handler, whose queries each       *)
(* borrow a second connection from the same admin pool; the lock is        *)
(* released and the connection handed back when the handler returns.       *)
(*                                                                         *)
(* Mollie gives a delivery up after a while and the request's context is   *)
(* cancelled: whatever the delivery waits for fails, and database/sql      *)
(* returns or closes its connections, which ends the session's lock.       *)
(***************************************************************************)
EXTENDS Naturals, FiniteSets

CONSTANTS
  Delivery,
  Payment,
  PaymentOf,     \* [Delivery -> Payment]
  PoolSize,      \* SetMaxOpenConns of the admin pool
  MaxQueries     \* bound on the queries of one handler run

ASSUME PoolAssumption ==
  /\ IsFiniteSet(Delivery)
  /\ PaymentOf \in [Delivery -> Payment]
  /\ PoolSize \in Nat /\ MaxQueries \in Nat

VARIABLES
  poolAt,            \* where each delivery is in WithPaymentLock
  queries        \* how many queries its handler has finished

poolVars == <<poolAt, queries>>

PoolPhase == {"idle", "connecting", "connected", "inside", "querying", "leaving", "done"}

\* Those that hold the connection of their lock, and the lock itself.
Connected == {d \in Delivery : poolAt[d] \in {"connected", "inside", "querying", "leaving"}}
Locked == {d \in Delivery : poolAt[d] \in {"inside", "querying", "leaving"}}
Querying == {d \in Delivery : poolAt[d] = "querying"}

InUse == Cardinality(Connected) + Cardinality(Querying)

PoolInit ==
  /\ poolAt = [d \in Delivery |-> "idle"]
  /\ queries = [d \in Delivery |-> 0]

PoolGoto(d, phase) == poolAt' = [poolAt EXCEPT ![d] = phase]

Arrive(d) ==
  /\ poolAt[d] = "idle"
  /\ PoolGoto(d, "connecting")
  /\ UNCHANGED queries

\* Connx: a connection of the pool, or wait for one.
Connect(d) ==
  /\ poolAt[d] = "connecting" /\ InUse < PoolSize
  /\ PoolGoto(d, "connected")
  /\ UNCHANGED queries

NoneLocked(p) == \A e \in Locked : PaymentOf[e] # p

\* pg_advisory_lock(hashtext(id)), keyed on the payment.
AcquireLock(d) ==
  /\ poolAt[d] = "connected"
  /\ NoneLocked(PaymentOf[d])
  /\ PoolGoto(d, "inside")
  /\ UNCHANGED queries

\* "fn's own queries go through the pool as usual"
BeginQuery(d) ==
  /\ poolAt[d] = "inside" /\ queries[d] < MaxQueries
  /\ InUse < PoolSize
  /\ PoolGoto(d, "querying")
  /\ UNCHANGED queries

EndQuery(d) ==
  /\ poolAt[d] = "querying"
  /\ PoolGoto(d, "inside")
  /\ queries' = [queries EXCEPT ![d] = @ + 1]

FinishHandler(d) ==
  /\ poolAt[d] = "inside" /\ queries[d] = MaxQueries
  /\ PoolGoto(d, "leaving")
  /\ UNCHANGED queries

\* Mutant of Leave: the lock is released after the handler, but not deferred.
LeaveFinished(d) ==
  /\ poolAt[d] = "leaving" /\ queries[d] = MaxQueries
  /\ PoolGoto(d, "done")
  /\ UNCHANGED queries

\* pg_advisory_unlock and Close, deferred in this order.
Leave(d) ==
  /\ poolAt[d] = "leaving"
  /\ PoolGoto(d, "done")
  /\ UNCHANGED queries

Waiting(d) == poolAt[d] \in {"connecting", "connected", "inside"}

\* The context is cancelled while the delivery waits for a connection or a lock.
HangUp(d) ==
  /\ Waiting(d)
  /\ PoolGoto(d, IF poolAt[d] = "inside" THEN "leaving" ELSE "done")
  /\ UNCHANGED queries

PoolStep(d) ==
  \/ Connect(d) \/ AcquireLock(d) \/ BeginQuery(d) \/ EndQuery(d)
  \/ FinishHandler(d) \/ Leave(d)

PoolNext == \E d \in Delivery : Arrive(d) \/ PoolStep(d) \/ HangUp(d)

PoolSpec == PoolInit /\ [][PoolNext]_poolVars

\* database/sql serves its waiters in order and Postgres its lock queue, and a
\* query ends: nobody who could go on for ever is passed over for ever.
PoolFairness == \A d \in Delivery : SF_poolVars(PoolStep(d))

\* Mollie hangs up on every delivery that is not answered.
HangUpFairness == \A d \in Delivery : WF_poolVars(HangUp(d))

PatientSpec == PoolInit /\ [][\E d \in Delivery : Arrive(d) \/ PoolStep(d)]_poolVars /\ PoolFairness
HangUpSpec == PoolSpec /\ PoolFairness /\ HangUpFairness
--------------------------------------------------------------------------------
(* Properties                                                              *)

PoolTypeOK ==
  /\ poolAt \in [Delivery -> PoolPhase]
  /\ queries \in [Delivery -> 0 .. MaxQueries]

\* The critical section of the webhook runs one at a time per payment.
OneAtATime == \A d, e \in Locked : PaymentOf[d] = PaymentOf[e] => d = e

\* The code's comment: deliveries "block here until the holder releases".
EveryDeliveryEnds == \A d \in Delivery : poolAt[d] = "connecting" ~> poolAt[d] = "done"
================================================================================
