---------------------------- MODULE MCWebhookPool ----------------------------
(* Instances of WebhookPool for TLC: two deliveries of one payment, a third*)
(* of another, and a pool of two connections.                              *)
EXTENDS WebhookPool, TLC

CONSTANTS d1, d2, d3, p, q

MCDelivery == {d1, d2, d3}
MCPaymentOf == d1 :> p @@ d2 :> p @@ d3 :> q
===============================================================================
