----------------------------- MODULE CouponLedger -----------------------------
(***************************************************************************)
(* What the coupon component promises, with no counters, no row locks and  *)
(* no transactions: a coupon is a set of uses currently held, a use is     *)
(* taken only below both caps, and it is given back once.                  *)
(*                                                                         *)
(* A use is identified by the reservation that took it.  CouponTx shows    *)
(* that the row-level transactions implement this, CouponOrders that the   *)
(* checkout and cancellation code does.                                    *)
(***************************************************************************)
EXTENDS CouponRow, FiniteSets

CONSTANTS User,          \* customers
          Reservation,   \* attempts to use the coupon
          Owner          \* [Reservation -> User]

VARIABLES caps,          \* [active, maxUses, maxPerUser], edited by admins
          holders        \* the reservations whose use is counted

ledgerVars == <<caps, holders>>

HoldersOf(u) == {r \in holders : Owner[r] = u}

Take(r) ==
  /\ r \notin holders
  /\ caps.active
  /\ Below(Cardinality(holders), caps.maxUses)
  /\ Below(Cardinality(HoldersOf(Owner[r])), caps.maxPerUser)
  /\ holders' = holders \cup {r}
  /\ UNCHANGED caps

GiveBack(r) ==
  /\ r \in holders
  /\ holders' = holders \ {r}
  /\ UNCHANGED caps

\* An admin changes the caps; the uses already held stay.
EditCaps == UNCHANGED holders

Init == holders = {}

Next ==
  \/ \E r \in Reservation : Take(r) \/ GiveBack(r)
  \/ EditCaps

Spec == Init /\ [][Next]_ledgerVars
===============================================================================
