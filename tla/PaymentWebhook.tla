----------------------------- MODULE PaymentWebhook -----------------------------
(***************************************************************************)
(* One online payment: the webhook handler (payment/interfaces) with the   *)
(* service calls it makes, Mollie's notifications and retries, and a staff *)
(* cancellation with its refund.                                           *)
(*                                                                         *)
(* Deliveries overlap; WithPaymentLock admits one of them at a time        *)
(* (WebhookPool models the lock and the connections it needs).  The        *)
(* handler looks the payment up, fetches Mollie's status, runs the order   *)
(* logic, persists the status and publishes, one step per call, and any    *)
(* step may fail or be cut short.  The model starts when CreatePayment has *)
(* returned the checkout link: before that nobody can pay.                 *)
(*                                                                         *)
(* environment says what the surroundings of a behaviour may do:           *)
(*   faults     a call of the handler fails, with or without its effect,   *)
(*              or the answer to Mollie is lost                            *)
(*   crashes    a process dies inside a request, a refund is refused       *)
(*   history    staff also update unpaid orders, which the live listing    *)
(*              hides and the order history shows                          *)
(*   overrides  an admin writes payment statuses by hand                   *)
(***************************************************************************)
EXTENDS Naturals, OrderStatus

CONSTANTS
  Delivery,      \* webhook calls that may be in progress together
  Nobody,        \* the holder of the free payment lock
  MaxFaults,     \* bound on the failed calls, crashes and overrides of a behaviour
  StaffStatus,   \* statuses staff move the order to, besides CANCELLED
  Environments   \* the environments a behaviour may have

ASSUME WebhookAssumption ==
  /\ Nobody \notin Delivery /\ MaxFaults \in Nat
  /\ StaffStatus \subseteq Status \ {"CANCELLED"}

VARIABLES
  mollie,        \* Mollie's status of the payment
  unacked,       \* statuses whose notification Mollie still has to deliver
  stored,        \* mollie_payments.status, the commit marker
  status,        \* orders.order_status
  isTest,        \* orders.is_test
  hook,          \* [Delivery -> a call of UpdatePaymentStatusHandler]
  lock,          \* the delivery inside WithPaymentLock
  announced,     \* how often the order was published as created
  emailed,       \* how often the customer got the "order received" mail
  staff,         \* a staff cancellation: "idle", or "cancelled" before its refund
  refunded,      \* Mollie has refunded the payment
  faults,
  environment,
  swallowed      \* history: a delivery stored "paid" and ended before it announced

vars == <<mollie, unacked, stored, status, isTest, hook, lock, announced, emailed,
          staff, refunded, faults, environment, swallowed>>

fixed == <<isTest, environment, swallowed>>

May(hazard) == hazard \in environment

Abstract == INSTANCE PaymentLedger WITH
  announced <- announced > 0, overridable <- May("overrides")

PaymentStatus == Abstract!PaymentStatus
PaymentDead == Abstract!PaymentDead

Inside == {"locked", "found", "fetched", "handled", "persisted", "acked"}
Idle == [at |-> "idle"]
Call == [at: {"waiting"} \cup Inside, about: PaymentStatus,
         known: PaymentStatus, fetched: PaymentStatus]

Init ==
  /\ mollie = "open" /\ unacked = {} /\ stored = "open"
  /\ status = "PENDING" /\ isTest \in BOOLEAN
  /\ hook = [d \in Delivery |-> Idle] /\ lock = Nobody
  /\ announced = 0 /\ emailed = 0
  /\ staff = "idle" /\ refunded = FALSE /\ faults = 0
  /\ environment \in Environments /\ swallowed = FALSE

At(d, phase) == hook[d].at = phase

---------------------------------------------------------------------------------
(* Mollie *)

MollieMoves ==
  /\ mollie' \in Abstract!Moves[mollie]
  /\ unacked' = unacked \cup {mollie'}
  /\ UNCHANGED <<stored, status, fixed, hook, lock, announced, emailed, staff,
                 refunded, faults>>

\* A first delivery or a retry; retries of one notification may overlap.  The
\* body carries nothing but the payment id.
Deliver(d) ==
  /\ At(d, "idle")
  /\ \E s \in unacked :
       hook' = [hook EXCEPT ![d] = [at |-> "waiting", about |-> s,
                                    known |-> "open", fetched |-> "open"]]
  /\ UNCHANGED <<mollie, unacked, stored, status, fixed, lock, announced, emailed,
                 staff, refunded, faults>>

---------------------------------------------------------------------------------
(* UpdatePaymentStatusHandler *)

\* Mutant of LockFree: the handler before it took the lock.
NoLock == TRUE

LockFree == lock = Nobody

Lock(d) ==
  /\ At(d, "waiting") /\ LockFree
  /\ lock' = d
  /\ hook' = [hook EXCEPT ![d].at = "locked"]
  /\ UNCHANGED <<mollie, unacked, stored, status, fixed, announced, emailed, staff,
                 refunded, faults>>

\* GetPaymentByExternalID
LookUp(d) ==
  /\ At(d, "locked")
  /\ hook' = [hook EXCEPT ![d].at = "found", ![d].known = stored]
  /\ UNCHANGED <<mollie, unacked, stored, status, fixed, lock, announced, emailed,
                 staff, refunded, faults>>

\* Mutant of AlreadyProcessed: every delivery runs the order logic.
NeverProcessed(d) == FALSE

AlreadyProcessed(d) == hook[d].known = mollie

\* FetchMollieStatus and the idempotency check.
Fetch(d) ==
  /\ At(d, "found")
  /\ hook' = [hook EXCEPT ![d].fetched = mollie,
                          ![d].at = IF AlreadyProcessed(d) THEN "acked" ELSE "fetched"]
  /\ UNCHANGED <<mollie, unacked, stored, status, fixed, lock, announced, emailed,
                 staff, refunded, faults>>

\* Mutant of AfterFailure: the cancellation is left to staff.
KeepStatus(d) == status
\* HandlePaymentFailed cancels the order whatever its status is.
AfterFailure(d) == IF hook[d].fetched \in PaymentDead THEN "CANCELLED" ELSE status

\* HandlePaymentPaid, HandlePaymentFailed, or nothing for the other statuses.
Handle(d) ==
  /\ At(d, "fetched")
  /\ status' = AfterFailure(d)
  /\ emailed' = IF hook[d].fetched = "paid" THEN emailed + 1 ELSE emailed
  /\ hook' = [hook EXCEPT ![d].at = "handled"]
  /\ UNCHANGED <<mollie, unacked, stored, fixed, lock, announced, staff, refunded,
                 faults>>

\* Mutant of Persist: the status is fetched again when it is written.
PersistLatest(d) ==
  /\ At(d, "handled")
  /\ stored' = mollie
  /\ hook' = [hook EXCEPT ![d].at = "persisted"]
  /\ UNCHANGED <<mollie, unacked, status, fixed, lock, announced, emailed, staff,
                 refunded, faults>>

\* PersistPaymentStatus writes what was fetched, after the order logic.
Persist(d) ==
  /\ At(d, "handled")
  /\ stored' = hook[d].fetched
  /\ hook' = [hook EXCEPT ![d].at = "persisted"]
  /\ UNCHANGED <<mollie, unacked, status, fixed, lock, announced, emailed, staff,
                 refunded, faults>>

\* Mutant of Announces: the event is sent for every settled payment.
AnnouncesAny(d) == ~isTest

\* orderCreated and the push to staff, except for store-review test orders.
Announces(d) == hook[d].fetched = "paid" /\ ~isTest

Publish(d) ==
  /\ At(d, "persisted")
  /\ announced' = IF Announces(d) THEN announced + 1 ELSE announced
  /\ hook' = [hook EXCEPT ![d].at = "acked"]
  /\ UNCHANGED <<mollie, unacked, stored, status, fixed, lock, emailed, staff,
                 refunded, faults>>

\* 200: the lock is released and Mollie takes the notification as delivered.
Ack(d) ==
  /\ At(d, "acked")
  /\ unacked' = unacked \ {hook[d].about}
  /\ lock' = Nobody
  /\ hook' = [hook EXCEPT ![d] = Idle]
  /\ UNCHANGED <<mollie, stored, status, fixed, announced, emailed, staff, refunded,
                 faults>>

\* What a delivery that ends here still had to announce, nobody will: the retries
\* find the marker written.
Swallows(d) == swallowed \/ (At(d, "persisted") /\ Announces(d))

\* Mutant of GiveUp: a failed call is logged and answered with 200.
GiveUpWith200(d) ==
  /\ ~At(d, "idle") /\ faults < MaxFaults
  /\ May("crashes") \/ May("faults")
  /\ faults' = faults + 1
  /\ unacked' = unacked \ {hook[d].about}
  /\ lock' = IF lock = d THEN Nobody ELSE lock
  /\ hook' = [hook EXCEPT ![d] = Idle]
  /\ swallowed' = Swallows(d)
  /\ UNCHANGED <<mollie, stored, status, isTest, environment, announced, emailed, staff,
                 refunded>>

\* A call fails and the handler answers 500, or Mollie misses the answer, or the
\* process dies.  A failed call may have had its effect: PersistPaymentStatus that
\* commits and reports an error is answered 500 with the marker written.
GiveUp(d) ==
  /\ ~At(d, "idle") /\ faults < MaxFaults
  /\ May("crashes") \/ May("faults")
  /\ faults' = faults + 1
  /\ lock' = IF lock = d THEN Nobody ELSE lock
  /\ hook' = [hook EXCEPT ![d] = Idle]
  /\ swallowed' = Swallows(d)
  /\ UNCHANGED <<mollie, unacked, stored, status, isTest, environment, announced, emailed,
                 staff, refunded>>

Step(d) ==
  \/ Lock(d) \/ LookUp(d) \/ Fetch(d) \/ Handle(d) \/ Persist(d) \/ Publish(d) \/ Ack(d)

---------------------------------------------------------------------------------
(* updateOrder by staff, and the sweep *)

\* FindPaginated shows an online order only once its payment is stored as paid.
Visible == ~isTest /\ (stored = "paid" \/ May("history"))

StaffProgress ==
  /\ Visible
  /\ status' \in StaffStatus
  /\ UNCHANGED <<mollie, unacked, stored, fixed, hook, lock, announced, emailed, staff,
                 refunded, faults>>

StaffCancels ==
  /\ Visible /\ staff = "idle"      \* a cancelled order may be cancelled again
  /\ status' = "CANCELLED"
  /\ staff' = "cancelled"
  /\ UNCHANGED <<mollie, unacked, stored, fixed, hook, lock, announced, emailed,
                 refunded, faults>>

\* Mutant of Refundable: a payment is refundable until it is captured.
RefundableAuthorized == stored = "authorized"

\* CreateFullRefund refuses a payment that is not stored as paid.
Refundable == stored = "paid"

Refund ==
  /\ staff = "cancelled"
  /\ staff' = "idle"
  /\ refunded' = (refunded \/ Refundable)
  /\ UNCHANGED <<mollie, unacked, stored, status, fixed, hook, lock, announced,
                 emailed, faults>>

\* Mollie's call fails, or the process dies: the cancellation is committed, and
\* only staff who cancel again try the refund again.
RefundFails ==
  /\ staff = "cancelled" /\ May("crashes") /\ faults < MaxFaults
  /\ staff' = "idle"
  /\ faults' = faults + 1
  /\ UNCHANGED <<mollie, unacked, stored, status, fixed, hook, lock, announced,
                 emailed, refunded>>

\* CancelStaleTestOrders: neither payment nor refund is looked at.
CancelStaleTestOrder ==
  /\ isTest /\ status \notin {"CANCELLED", "FAILED"}
  /\ status' = "CANCELLED"
  /\ UNCHANGED <<mollie, unacked, stored, fixed, hook, lock, announced, emailed, staff,
                 refunded, faults>>

\* updatePaymentStatus: an admin sets the stored status, past the payment lock.
OverrideStatus ==
  /\ May("overrides") /\ faults < MaxFaults
  /\ stored' \in PaymentStatus
  /\ faults' = faults + 1
  /\ UNCHANGED <<mollie, unacked, status, fixed, hook, lock, announced, emailed, staff,
                 refunded>>

Next ==
  \/ MollieMoves
  \/ \E d \in Delivery : Deliver(d) \/ Step(d) \/ GiveUp(d)
  \/ StaffProgress \/ StaffCancels \/ Refund \/ RefundFails
  \/ CancelStaleTestOrder \/ OverrideStatus

Spec == Init /\ [][Next]_vars

\* Mollie retries until a delivery is acknowledged, a handler that runs goes on
\* to its end, a delivery that keeps finding the lock free gets it, and staff's
\* own request goes on to its refund.  Nobody has to pay or to cancel.
Fairness ==
  /\ \A d \in Delivery : WF_vars(Deliver(d)) /\ SF_vars(Step(d))
  /\ WF_vars(Refund)

FairSpec == Spec /\ Fairness

---------------------------------------------------------------------------------
(* Properties *)

TypeOK ==
  /\ mollie \in PaymentStatus /\ stored \in PaymentStatus
  /\ unacked \subseteq PaymentStatus
  /\ status \in Status /\ isTest \in BOOLEAN
  /\ hook \in [Delivery -> Call \cup {Idle}]
  /\ lock \in Delivery \cup {Nobody}
  /\ announced \in Nat /\ emailed \in Nat
  /\ staff \in {"idle", "cancelled"}
  /\ refunded \in BOOLEAN
  /\ faults \in 0 .. MaxFaults
  /\ environment \in Environments /\ swallowed \in BOOLEAN

\* One delivery at a time is between the lock and its answer.
OneInside == \A d \in Delivery : hook[d].at \in Inside <=> lock = d

\* However deliveries overlap, fail and are repeated, the stored status never
\* goes back to one that Mollie's had already left.
StoredMovesForward == [][~May("overrides") => Abstract!Reaches(stored, stored')]_vars

\* The dashboard hears of an order once, although Mollie may call many times.
AnnouncedAtMostOnce == ~May("overrides") => announced <= 1

\* The order logic, of which the mail is the visible part, runs once per
\* transition unless a delivery broke off before its commit marker.
LogicRepeatsOnlyAfterFault == ~May("overrides") => emailed <= 1 + faults

\* A payment stored as dead leaves no order behind that the kitchen would cook:
\* the order logic is done before the commit marker is written.
DeadIsCancelled ==
  environment \subseteq {"faults"} => (stored \in PaymentDead => status = "CANCELLED")

\* A paid order reaches the dashboard, after any number of failed deliveries,
\* unless one of them had written the marker when it failed or died: the single
\* point at which a retry does not make up for what was missed.
PaidIsAnnounced ==
  ~May("overrides") /\ mollie = "paid" /\ ~isTest ~> announced > 0 \/ swallowed

\* The order of a payment that failed at Mollie is cancelled in the end.
FailureIsStored ==
  environment \subseteq {"faults"} /\ mollie \in PaymentDead
    ~> stored = mollie /\ status = "CANCELLED"

\* The restaurant does not keep the money of an order that stays cancelled:
\* updateOrder promises "If new status is CANCELED, refund".
CancelledIsRefunded ==
  environment \subseteq {"faults"} /\ mollie = "paid" /\ status = "CANCELLED" /\ ~isTest
    ~> refunded \/ status # "CANCELLED"

\* The handler, its lock and its retries implement the abstract payment.
LedgerSpec == Abstract!Spec

\* Mollie's retries carry every outcome to its end: a paid order is announced unless
\* its announcement was swallowed, and where calls merely fail a dead payment is
\* stored and its order cancelled.
OutcomesArrive == PaidIsAnnounced /\ FailureIsStored
=================================================================================
