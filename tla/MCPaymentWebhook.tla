--------------------------- MODULE MCPaymentWebhook ---------------------------
(* Instances of PaymentWebhook for TLC: two deliveries that may overlap.   *)
EXTENDS PaymentWebhook

CONSTANTS d1, d2

\* Failing calls alone; everything but an admin's hand; the hand alone.
MCEnvironments ==
  {{"faults"}, {"faults", "crashes", "history"}, {"overrides"}}
MCCrashes == {{"faults", "crashes"}}
MCHistory == {{"history"}}

\* The handler takes a stored status that "already matches Mollie" to say that
\* "the work for this transition was done": a payment known to be paid at both
\* ends has been, or will be, announced.
MarkerMeansDone == stored = "paid" /\ mollie = "paid" /\ ~isTest ~> announced > 0

\* updateOrder's "If new status is CANCELED, refund": whoever pays for an order
\* that was cancelled gets the money back.
CancelledPaidIsRefunded ==
  mollie = "paid" /\ status = "CANCELLED" /\ ~isTest ~> refunded \/ status # "CANCELLED"
===============================================================================
