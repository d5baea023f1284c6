------------------------------- MODULE MCLocks -------------------------------
(***************************************************************************)
(* Three small parts that wait for a row lock, an advisory lock and a      *)
(* provider, each explored on its own: the initial state picks one and the *)
(* others stay as they began.                                              *)
(***************************************************************************)
EXTENDS CouponTx, WebhookPool, StaffAlerts, TLC

CONSTANTS Parts, alice, bob, r1, r2, r3, d1, d2, d3, p, q
VARIABLE part

\* Two customers, one of whom holds two reservations; caps an admin may move.
MCUser == {alice, bob}
MCReservation == {r1, r2, r3}
MCOwner == r1 :> alice @@ r2 :> alice @@ r3 :> bob
MCMaxUses == {NoCap, 2}
MCMaxPerUser == {NoCap, 1}
\* Two deliveries of one payment and a third of another.
MCDelivery == {d1, d2, d3}
MCPaymentOf == d1 :> p @@ d2 :> p @@ d3 :> q

allVars == <<part, vars, poolVars, staffVars>>

NoCouponTx == coupon = [active |-> FALSE, maxUses |-> NoCap, maxPerUser |-> NoCap, used |-> 0]
NoStaff ==
  /\ \A h \in Handhelds : handhelds[h].fcm = NoToken
  /\ reachable = Handhelds /\ pushClients = {"fcm"}

MCInit ==
  /\ part \in Parts
  /\ Init /\ PoolInit /\ StaffInit
  /\ part # "coupon" => NoCouponTx
  /\ part # "staff" => NoStaff
MCNext ==
  /\ UNCHANGED part
  /\ \/ part = "coupon" /\ Next /\ UNCHANGED <<poolVars, staffVars>>
     \/ part = "pool" /\ PoolNext /\ UNCHANGED <<vars, staffVars>>
     \/ part = "staff" /\ StaffNext /\ UNCHANGED <<vars, poolVars>>

\* In a frozen part no fair action is enabled.
MCSpec ==
  /\ MCInit /\ [][MCNext]_allVars
  /\ Fairness /\ PoolFairness /\ HangUpFairness /\ StaffFairness
==============================================================================
