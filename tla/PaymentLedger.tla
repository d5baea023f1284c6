----------------------------- MODULE PaymentLedger -----------------------------
(***************************************************************************)
(* What staff may rely on about an online payment, with no webhooks, locks *)
(* or retries: the stored status follows Mollie's, never overtakes it and  *)
(* never goes back, and the order appears on the dashboard once, after its *)
(* payment was stored as paid.                                             *)
(*                                                                         *)
(* Mollie's own status machine is external; Moves is its graph as far as   *)
(* the payment domain names its statuses.                                  *)
(***************************************************************************)
PaymentStatus == {"open", "pending", "authorized", "paid", "canceled", "expired", "failed"}

PaymentDead == {"canceled", "expired", "failed"}

Moves ==
  [s \in PaymentStatus |->
     CASE s = "open"       -> PaymentStatus \ {"open"}
       [] s = "pending"    -> {"authorized", "paid"} \cup PaymentDead
       [] s = "authorized" -> {"paid"} \cup PaymentDead
       [] OTHER            -> {}]

\* Moves is transitive: t is s or lies ahead of s.
Reaches(s, t) == s = t \/ t \in Moves[s]

VARIABLES mollie,      \* the authoritative status
          stored,      \* mollie_payments.status
          announced,   \* the order has been published to staff
          overridable  \* an admin may set stored by hand

paymentVars == <<mollie, stored, announced, overridable>>

Init == mollie = "open" /\ stored = "open" /\ announced = FALSE /\ overridable \in BOOLEAN

MollieMoves ==
  /\ mollie' \in Moves[mollie]
  /\ UNCHANGED <<stored, announced, overridable>>

Store ==
  /\ stored' \in Moves[stored]
  /\ Reaches(stored', mollie)
  /\ UNCHANGED <<mollie, announced, overridable>>

Announce ==
  /\ stored = "paid" /\ ~announced
  /\ announced' = TRUE
  /\ UNCHANGED <<mollie, stored, overridable>>

\* Once the stored status may be set by hand, it promises nothing any more.
Override ==
  /\ overridable
  /\ stored' \in PaymentStatus /\ announced' \in BOOLEAN
  /\ UNCHANGED <<mollie, overridable>>

Next == MollieMoves \/ Store \/ Announce \/ Override

Spec == Init /\ [][Next]_paymentVars
================================================================================
