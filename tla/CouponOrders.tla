------------------------------ MODULE CouponOrders ------------------------------
(***************************************************************************)
(* One coupon in the life of the orders that use it: the createOrder       *)
(* resolver with its compensations, order.Service.UpdateOrder as called by *)
(* staff, the POS and the payment webhook, and the sweep that cancels      *)
(* store-review test orders.                                               *)
(*                                                                         *)
(* RedeemAtomic and DecrementUsageAtomic are single steps here: CouponTx   *)
(* shows that their transactions are atomic.  The checkout is one step per *)
(* call it makes, and UpdateOrder reads the order, writes it back and      *)
(* rolls the coupon back in three steps, because that is where two callers *)
(* interleave.                                                             *)
(*                                                                         *)
(* Environment names what the surroundings may do; the README says which   *)
(* property needs which of these to be absent:                             *)
(*   concurrentUpdates  two UpdateOrder calls on an order overlap          *)
(*   leavesCancelled    a caller moves a CANCELLED order to another status *)
(*   cancelsEarly       a caller cancels an order whose checkout has not   *)
(*                      ended: createOrder undoes what it reserved without *)
(*                      looking at the status, so the use comes back twice *)
(*   storageFails       a statement fails, or its acknowledgement is lost  *)
(*   crashes            the process stops between two steps of a checkout  *)
(*   renames            an admin changes the coupon's code                 *)
(***************************************************************************)
EXTENDS CouponRow, OrderStatus, FiniteSets

CONSTANTS
  User, Order,
  Owner,               \* [Order -> User]: one checkout per order
  CouponOrder,         \* the orders that carry the coupon's code
  OnlineOrder,         \* the orders paid through Mollie
  TestOrder,           \* orders of the store reviewers
  Request,             \* UpdateOrder calls, each made at most once
  StaffStatus,         \* the statuses a caller asks for
  KeepStatus,          \* asked for when only the ready time is set
  MaxUses, MaxPerUser, \* the coupon's caps
  Environment

ASSUME OrderAssumption ==
  /\ IsFiniteSet(Order) /\ IsFiniteSet(User)
  /\ Owner \in [Order -> User]
  /\ CouponOrder \subseteq Order /\ OnlineOrder \subseteq Order /\ TestOrder \subseteq Order
ASSUME StatusAssumption == StaffStatus \subseteq Status /\ KeepStatus \notin Status
ASSUME CapAssumption == MaxUses \in Nat \cup {NoCap} /\ MaxPerUser \in Nat \cup {NoCap}

VARIABLES
  status,      \* orders.order_status, or NoOrder
  checkout,    \* what each createOrder call did last
  used,        \* coupons.used_count
  usedBy,      \* [User -> coupon_users.used_count or NoRow]
  renamed,     \* the code stored in the orders no longer names the coupon
  update,      \* [Request -> an UpdateOrder call]
  took,        \* history: the orders whose checkout took a use
  returned     \* history: how often each order's use was given back

storage == <<status, used, usedBy, renamed>>
vars == <<status, checkout, used, usedBy, renamed, update, took, returned>>

CheckoutPhase == {"idle", "validated", "cleared", "reserved", "saved", "undoDelete",
                  "undo", "done", "rejected", "crashed"}
UpdatePhase == {"idle", "read", "written", "done"}

NoUpdate == [at |-> "idle"]
UpdateCall == [at: UpdatePhase \ {"idle"}, order: Order,
               asked: StaffStatus \cup {KeepStatus}, seen: Status]

Init ==
  /\ status = [o \in Order |-> NoOrder]
  /\ checkout = [o \in Order |-> "idle"]
  /\ used = 0
  /\ usedBy = [u \in User |-> NoRow]
  /\ renamed = FALSE
  /\ update = [w \in Request |-> NoUpdate]
  /\ took = {}
  /\ returned = [o \in Order |-> 0]

May(hazard) == hazard \in Environment

OrdersOf(u) == {o \in Order : Owner[o] = u}

\* The non-terminal orders of u that carry a coupon code.
ActiveCouponOrders(u) == {o \in OrdersOf(u) \cap CouponOrder : status[o] \in Active}

HasActiveCouponOrder(u) == ActiveCouponOrders(u) # {}

\* Mutant of IndexConflict: the pre-check is all there is.
NoIndexConflict(o) == FALSE

\* The partial unique index refuses o as a further active coupon order.
IndexConflict(o) ==
  o \in CouponOrder /\ ActiveCouponOrders(Owner[o]) \ {o} # {}

\* Mutant of DecrementUsage: the coupon's own row is forgotten.
DecrementUserUsage(o) ==
  /\ usedBy' = [usedBy EXCEPT ![Owner[o]] = Dropped(@)]
  /\ returned' = [returned EXCEPT ![o] = @ + 1]
  /\ UNCHANGED used

\* DecrementUsageAtomic: each counter is decremented unless it is at zero.
DecrementUsage(o) ==
  /\ used' = Dropped(used)
  /\ usedBy' = [usedBy EXCEPT ![Owner[o]] = Dropped(@)]
  /\ returned' = [returned EXCEPT ![o] = @ + 1]

KeepUsage == UNCHANGED <<used, usedBy, returned>>

---------------------------------------------------------------------------------
(* createOrder                                                             *)

Goto(o, phase) == checkout' = [checkout EXCEPT ![o] = phase]

\* ValidateCoupon looks the coupon up by its code and reads both counters.
ValidateCoupon(o) ==
  /\ checkout[o] = "idle"
  /\ \/ o \notin CouponOrder /\ Goto(o, "reserved")
     \/ /\ o \in CouponOrder /\ ~renamed
        /\ Below(used, MaxUses) /\ Below(UsageCount(usedBy[Owner[o]]), MaxPerUser)
        /\ Goto(o, "validated")
     \/ /\ o \in CouponOrder
        /\ \/ renamed \/ May("storageFails") \/ ~Below(used, MaxUses)
           \/ ~Below(UsageCount(usedBy[Owner[o]]), MaxPerUser)
        /\ Goto(o, "rejected")
  /\ UNCHANGED <<storage, update, took, returned>>

CheckActive(o) ==
  /\ checkout[o] = "validated"
  /\ \/ ~HasActiveCouponOrder(Owner[o]) /\ Goto(o, "cleared")
     \/ (HasActiveCouponOrder(Owner[o]) \/ May("storageFails")) /\ Goto(o, "rejected")
  /\ UNCHANGED <<storage, update, took, returned>>

\* Mutant of CanRedeem: the per-user cap is left to ValidateCoupon.
CanRedeemGlobally(o) == Below(used, MaxUses)

CanRedeem(o) == Below(used, MaxUses) /\ UserRedeemable(usedBy[Owner[o]], MaxPerUser)

\* IncrementUsageAtomic, by coupon id.  A reservation whose commit went through
\* unacknowledged is an error to createOrder, which refuses and leaves it counted.
Reserve(o) ==
  /\ checkout[o] = "cleared"
  /\ \/ /\ CanRedeem(o)
        /\ used' = used + 1
        /\ usedBy' = [usedBy EXCEPT ![Owner[o]] = Bumped(@)]
        /\ took' = took \cup {o}
        /\ Goto(o, "reserved") \/ (May("storageFails") /\ Goto(o, "rejected"))
     \/ /\ ~CanRedeem(o) \/ May("storageFails")
        /\ Goto(o, "rejected")
        /\ UNCHANGED <<used, usedBy, took>>
  /\ UNCHANGED <<status, renamed, update, returned>>

\* Mutant of GiveUp: an early return before the compensation.
GiveUpAtOnce(o) == Goto(o, "rejected")

\* The checkout gives up: what it reserved has to be undone.
GiveUp(o) == Goto(o, IF o \in CouponOrder THEN "undo" ELSE "rejected")

\* OrderService.CreateOrder.  A failed save is undone even when the commit went
\* through and only its acknowledgement was lost.
SaveOrder(o) ==
  /\ checkout[o] = "reserved"
  /\ \/ /\ ~IndexConflict(o)
        /\ status' = [status EXCEPT ![o] = "PENDING"]
        /\ \/ Goto(o, IF o \in OnlineOrder THEN "saved" ELSE "done")
           \/ May("storageFails") /\ GiveUp(o)
     \/ /\ IndexConflict(o) \/ May("storageFails")
        /\ GiveUp(o)
        /\ UNCHANGED status
  /\ UNCHANGED <<used, usedBy, renamed, update, took, returned>>

\* PaymentService.CreatePayment succeeds, or the order is cleaned up.
CreatePayment(o) ==
  /\ checkout[o] = "saved"
  /\ Goto(o, "done") \/ Goto(o, "undoDelete")
  /\ UNCHANGED <<storage, update, took, returned>>

\* A failed deletion is logged and the coupon is given back all the same.
DeleteOrder(o) ==
  /\ checkout[o] = "undoDelete"
  /\ \/ status' = [status EXCEPT ![o] = NoOrder]
     \/ May("storageFails") /\ UNCHANGED status
  /\ GiveUp(o)
  /\ UNCHANGED <<used, usedBy, renamed, update, took, returned>>

\* The rollback of the reservation; its failure is only logged.
Undo(o) ==
  /\ checkout[o] = "undo"
  /\ DecrementUsage(o) \/ (May("storageFails") /\ KeepUsage)
  /\ Goto(o, "rejected")
  /\ UNCHANGED <<status, renamed, update, took>>

\* Nothing of the checkout is persisted: a restarted process forgets it.
CrashCheckout(o) ==
  /\ May("crashes")
  /\ checkout[o] \notin {"idle", "done", "rejected", "crashed"}
  /\ Goto(o, "crashed")
  /\ UNCHANGED <<storage, update, took, returned>>

Checkout(o) ==
  \/ ValidateCoupon(o) \/ CheckActive(o) \/ Reserve(o) \/ SaveOrder(o)
  \/ CreatePayment(o) \/ DeleteOrder(o) \/ Undo(o)

---------------------------------------------------------------------------------
(* order.Service.UpdateOrder                                               *)

InFlight(w) == update[w].at \in {"read", "written"}

\* Any row can be updated, an unpaid order's as well: updateOrder takes any id,
\* and the order history lists the orders nobody has paid yet.
Updatable(o) == status[o] # NoOrder

\* createOrder has returned, or its process has died: nothing will be undone.
CheckoutOver(o) == checkout[o] \in {"done", "rejected", "crashed"}

ReadOrder(w) ==
  /\ update[w] = NoUpdate
  /\ \E o \in Order, asked \in StaffStatus \cup {KeepStatus} :
       /\ Updatable(o)
       /\ May("concurrentUpdates")
            \/ \A v \in Request : InFlight(v) => update[v].order # o
       /\ May("leavesCancelled")
            \/ (status[o] = "CANCELLED" => asked \in {"CANCELLED", KeepStatus})
       /\ May("cancelsEarly") \/ (asked = "CANCELLED" => CheckoutOver(o))
       /\ update' = [update EXCEPT ![w] =
            [at |-> "read", order |-> o, asked |-> asked, seen |-> status[o]]]
  /\ UNCHANGED <<storage, checkout, took, returned>>

Becomes(w) == IF update[w].asked = KeepStatus THEN update[w].seen ELSE update[w].asked

IndexRefuses(w) == Becomes(w) \in Active /\ IndexConflict(update[w].order)

\* What the statement leaves in the rows: it names the order by its id, so for an
\* order deleted meanwhile it changes no row, which is no error.
Stored(w) ==
  LET o == update[w].order IN
  [status EXCEPT ![o] = IF @ = NoOrder THEN NoOrder ELSE Becomes(w)]

\* UPDATE orders SET order_status, unconditional: whatever was read is written
\* back.  The partial unique index may refuse it.
WriteOrder(w) ==
  LET gone == status[update[w].order] = NoOrder IN
  /\ update[w].at = "read"
  /\ \/ /\ gone \/ ~IndexRefuses(w)
        /\ status' = Stored(w)
        /\ \/ update' = [update EXCEPT ![w].at = "written"]
           \/ May("storageFails") /\ update' = [update EXCEPT ![w].at = "done"]
     \/ /\ (~gone /\ IndexRefuses(w)) \/ May("storageFails")
        /\ update' = [update EXCEPT ![w].at = "done"]
        /\ UNCHANGED status
  /\ UNCHANGED <<checkout, used, usedBy, renamed, took, returned>>

\* Mutants of RollsBack: without the transition guard, and for every status
\* that frees the partial index.
RollsBackAgain(w) == Becomes(w) = "CANCELLED" /\ update[w].order \in CouponOrder
RollsBackTerminal(w) ==
  /\ Becomes(w) \in Terminal /\ update[w].seen \notin Terminal
  /\ update[w].order \in CouponOrder

\* Only a transition into CANCELLED, as this call saw it, rolls the coupon back.
RollsBack(w) ==
  /\ Becomes(w) = "CANCELLED" /\ update[w].seen # "CANCELLED"
  /\ update[w].order \in CouponOrder

\* GetCouponByCode finds nothing once the code has been changed; a failure of
\* it, or of the rollback, is only logged.
RollBackCoupon(w) ==
  /\ update[w].at = "written"
  /\ IF RollsBack(w)
     THEN \/ ~renamed /\ DecrementUsage(update[w].order)
          \/ (renamed \/ May("storageFails")) /\ KeepUsage
     ELSE KeepUsage
  /\ update' = [update EXCEPT ![w].at = "done"]
  /\ UNCHANGED <<status, checkout, renamed, took>>

UpdateOrder(w) == WriteOrder(w) \/ RollBackCoupon(w)

---------------------------------------------------------------------------------
(* Background sweep and admins                                             *)

\* Test orders of a checkout that ended ten minutes ago, whatever they became.
Stale(o) ==
  /\ o \in TestOrder
  /\ status[o] \in Status \ {"CANCELLED", "FAILED"}
  /\ CheckoutOver(o)

CancelStaleTestOrders ==
  /\ \E o \in Order : Stale(o)
  /\ status' = [o \in Order |-> IF Stale(o) THEN "CANCELLED" ELSE status[o]]
  /\ UNCHANGED <<checkout, used, usedBy, renamed, update, took, returned>>

RenameCoupon ==
  /\ May("renames") /\ ~renamed
  /\ renamed' = TRUE
  /\ UNCHANGED <<status, checkout, used, usedBy, update, took, returned>>

Next ==
  \/ \E o \in Order : Checkout(o) \/ CrashCheckout(o)
  \/ \E w \in Request : ReadOrder(w) \/ UpdateOrder(w)
  \/ CancelStaleTestOrders
  \/ RenameCoupon

Spec == Init /\ [][Next]_vars

\* A request that was accepted is run to its end; nobody has to make one, and
\* the sweep runs every minute.
Fairness ==
  /\ \A o \in Order : WF_vars(checkout[o] # "idle" /\ Checkout(o))
  /\ \A w \in Request : WF_vars(UpdateOrder(w))
  /\ WF_vars(CancelStaleTestOrders)

FairSpec == Spec /\ Fairness

---------------------------------------------------------------------------------
(* Properties                                                              *)

TypeOK ==
  /\ status \in [Order -> Status \cup {NoOrder}]
  /\ checkout \in [Order -> CheckoutPhase]
  /\ used \in Nat
  /\ usedBy \in [User -> Nat \cup {NoRow}]
  /\ renamed \in BOOLEAN
  /\ update \in [Request -> UpdateCall \cup {NoUpdate}]
  /\ took \subseteq CouponOrder
  /\ returned \in [Order -> Nat]

Holders == {o \in took : returned[o] = 0}
HoldersOf(u) == Holders \cap OrdersOf(u)

\* "One coupon at a time": racing checkouts, stale status writes and reopened
\* orders never leave a user with two active coupon orders (the partial index).
OneActiveCouponOrder == \A u \in User : Cardinality(ActiveCouponOrders(u)) <= 1

\* The counters count exactly the uses taken and not given back.
CountersMatchHolders ==
  /\ used = Cardinality(Holders)
  /\ \A u \in User : UsageCount(usedBy[u]) = Cardinality(HoldersOf(u))

\* The uses the customers' rows speak of: the first, the second, ... of each.
CountedForUsers == UNION {{u} \X (1 .. UsageCount(usedBy[u])) : u \in User}

\* Whatever overlaps, fails or repeats, the global counter never exceeds the sum
\* of the per-user counters: a coupon does not look exhausted by uses nobody has.
GlobalNeverAhead == used <= Cardinality(CountedForUsers)

\* A duplicate cancellation never decrements twice (service.go, UpdateOrder).
ReturnedAtMostOnce == \A o \in Order : returned[o] <= 1

\* A use is given back only when its order is gone: deleted, never saved, or
\* cancelled.  An order that is cooked keeps what it was discounted with.
ReturnedOnlyIfDead ==
  \A o \in Order : returned[o] > 0 => status[o] \in {NoOrder, "CANCELLED"}

\* The orders that enjoy the discount are within both of the coupon's caps.
DiscountsWithinCaps ==
  LET Discounted == {o \in CouponOrder : status[o] \notin {NoOrder, "CANCELLED"}} IN
  /\ MaxUses # NoCap => Cardinality(Discounted) <= MaxUses
  /\ MaxPerUser # NoCap =>
       \A u \in User : Cardinality(Discounted \cap OrdersOf(u)) <= MaxPerUser

\* The checkout or the order behind a use has come to nothing.
Dead(o) == checkout[o] \in {"undo", "rejected"} \/ (checkout[o] = "done" /\ status[o] = "CANCELLED")

\* The use of a checkout that fell through and of an order that was cancelled
\* comes back: UpdateOrder is "the single source of cancel-time rollback".
NoUseLost == \A o \in Order : o \in took /\ Dead(o) ~> returned[o] > 0

Ledger == INSTANCE CouponLedger WITH
  Reservation <- Order, holders <- Holders,
  caps <- [active |-> TRUE, maxUses |-> MaxUses, maxPerUser |-> MaxPerUser]

\* Checkouts and cancellations implement the abstract ledger of held uses.
LedgerSpec == Ledger!Spec

\* The account of a coupon's uses in the careful surroundings (no overlapping updates,
\* reopened or early cancelled orders, failing statements): the counters are exact, a
\* use comes back once and only from a dead order, the discounts stay within the caps.
UsesAccounted ==
  CountersMatchHolders /\ ReturnedAtMostOnce /\ ReturnedOnlyIfDead /\ DiscountsWithinCaps
=================================================================================
