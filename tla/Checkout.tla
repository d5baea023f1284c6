------------------------------ MODULE Checkout ------------------------------
(***************************************************************************)
(* createOrder from the cart to the answer: what it reads, what it charges *)
(* and what it has to undo when a later step fails.  The steps in order    *)
(*                                                                         *)
(*   products, choices, address, coupon   read and price the cart          *)
(*   reserve, save                        take the coupon, store the order *)
(*   mollie, store                        create the payment and keep it   *)
(*   undoOrder, undoCoupon                what a failure after that undoes *)
(*                                                                         *)
(* are database statements or calls to Mollie, so other checkouts and the  *)
(* menu's editor act in between, and each of them may fail.  Redemption    *)
(* counters are modelled in CouponTx and CouponOrders; here a reservation  *)
(* is held or it is not.                                                   *)
(***************************************************************************)
EXTENDS Pricing, Sequences

CONSTANTS Checkouts,    \* concurrent requests
          Carts,        \* carts a client may send
          Menus,        \* catalogues, of which one is in force at a time
          MaxMenuEdits, \* bound on the catalogue's changes
          MaxFaults     \* bound on failing statements and calls

\* A menu has prices, a cart has lines; neither need be one the shop would accept.
MenuRow(m) ==
  /\ m = [products |-> m.products, choices |-> m.choices, groups |-> m.groups]
  /\ \A p \in DOMAIN m.products : m.products[p].price \in Int
  /\ \A ch \in DOMAIN m.choices : m.choices[ch].modifier \in Int
CartRow(k) ==
  /\ IsFiniteSet(DOMAIN k.lines)
  /\ \A i \in DOMAIN k.lines :
       LET picks == k.lines[i].picks
       IN  IsFiniteSet(DOMAIN picks) /\ \A ch \in DOMAIN picks : picks[ch] \in Int
  /\ k.coupon # None => k.coupon.kind \in {"percentage", "fixed"} /\ k.coupon.value \in Int
  /\ k.distance \in Nat

ASSUME CheckoutAssumption ==
  /\ \A m \in Menus : MenuRow(m)
  /\ \A k \in Carts : CartRow(k)
  /\ MaxMenuEdits \in Nat /\ MaxFaults \in Nat

VARIABLES menu,        \* the catalogue in force
          menuEdits,
          request,     \* each checkout's step, cart and what it has computed
          orders,      \* the order row of a checkout, or NoRow
          reserved,    \* checkouts whose coupon use is counted
          molliePayments, \* Mollie's payment for a checkout, or NoRow
          payments,    \* the local mollie_payments row, or NoRow
          announced,   \* checkouts published to the dashboard
          faults

checkoutVars == <<menu, menuEdits, request, orders, reserved, molliePayments,
                  payments, announced, faults>>

NoRow == [status |-> "none"]
NoQuote == [items |-> <<>>, fee |-> 0, takeaway |-> 0, coupon |-> 0, surcharge |-> 0]

CheckoutInit ==
  /\ menu \in Menus
  /\ menuEdits = 0
  /\ request \in [Checkouts -> {[step |-> "products", cart |-> k, products |-> None,
                                 quote |-> NoQuote, harmed |-> FALSE] : k \in Carts}]
  /\ orders = [c \in Checkouts |-> NoRow]
  /\ reserved = {}
  /\ molliePayments = [c \in Checkouts |-> NoRow]
  /\ payments = [c \in Checkouts |-> NoRow]
  /\ announced = {}
  /\ faults = 0

stores == <<orders, reserved, molliePayments, payments, announced>>

EditMenu ==
  /\ menuEdits < MaxMenuEdits
  /\ menuEdits' = menuEdits + 1
  /\ menu' \in Menus \ {menu}
  /\ UNCHANGED <<request, stores, faults>>

Cart(c) == request[c].cart
Quote(c) == request[c].quote
AtStep(c, step) == request[c].step = step
Become(c, r) == request' = [request EXCEPT ![c] = r] /\ UNCHANGED <<menu, menuEdits>>
Goto(c, step) == Become(c, [request[c] EXCEPT !.step = step])
Fault == faults < MaxFaults /\ faults' = faults + 1

(* A statement or call that fails with nothing stored; a reservation that  *)
(* was stored all the same is in Reserve.                                  *)
CallFails(c) ==
  /\ request[c].step \in {"products", "choices", "address", "coupon", "reserve"}
  /\ Fault
  /\ Goto(c, "refused")
  /\ UNCHANGED stores

(* One statement says that no product is unavailable, the next one reads   *)
(* them; the model takes both at once.  Lunch-only products need a lunch   *)
(* slot.                                                                   *)
ReadProducts(c) ==
  LET wanted == {Cart(c).lines[i].product : i \in DOMAIN Cart(c).lines}
      found == wanted \cap DOMAIN menu.products
      refused == \/ Len(Cart(c).lines) \notin 1..50
                 \/ \E p \in found : ~menu.products[p].available
                 \/ \E p \in found : menu.products[p].lunchOnly /\ ~Cart(c).lunchSlot
  IN  /\ AtStep(c, "products")
      /\ IF refused THEN Goto(c, "refused")
         ELSE Become(c, [request[c] EXCEPT !.step = "choices",
                           !.products = [p \in found |-> menu.products[p]]])
      /\ UNCHANGED <<stores, faults>>

(* The choices and their groups come from later statements than the prices.*)
PriceItems(c) ==
  LET seen == [menu EXCEPT !.products = request[c].products]
      lines == Cart(c).lines
      items == [i \in DOMAIN lines |->
                 [total |-> LineTotal(lines[i], seen),
                  discountable |-> seen.products[lines[i].product].discountable]]
      accepted == /\ \A i \in DOMAIN lines : LineAccepted(lines[i], seen)
                  /\ Cart(c).type = "DELIVERY" => ItemsTotal(items) >= 2500
  IN  /\ AtStep(c, "choices")
      /\ IF ~accepted THEN Goto(c, "refused")
         ELSE Become(c, [request[c] EXCEPT !.step = "address",
                           !.quote = [Quote(c) EXCEPT !.items = items]])
      /\ UNCHANGED <<stores, faults>>

ResolveAddress(c) ==
  /\ AtStep(c, "address")
  /\ LET k == Cart(c)
         q == [Quote(c) EXCEPT !.takeaway = TakeawayDiscount(k, Quote(c).items),
                               !.surcharge = Surcharge(k)]
         refused == k.type = "DELIVERY" /\ (k.place = None \/ k.distance >= 9000 \/ k.excluded)
     IN  IF refused THEN Goto(c, "refused")
         ELSE Become(c, [request[c] EXCEPT !.step = "coupon", !.quote =
                [q EXCEPT !.fee = IF k.type = "DELIVERY"
                                  THEN DeliveryFeeFromDistance(k.distance) ELSE 0]])
  /\ UNCHANGED <<stores, faults>>

(* The coupon is validated against the total with the fee; a second active *)
(* order with a coupon is refused.  Then the discounts are fitted to the   *)
(* total.                                                                  *)
ApplyCoupon(c) ==
  LET k == Cart(c)
      total == ItemsTotal(Quote(c).items) + Quote(c).fee
      d == Scaled(Quote(c).takeaway, CouponDiscount(k.coupon, total), total)
      refused == k.coupon # None
                   /\ (total < k.coupon.min \/ \E o \in Checkouts : orders[o] # NoRow
                                                   /\ orders[o].withCoupon
                                                   /\ orders[o].status = "PENDING")
  IN  /\ AtStep(c, "coupon")
      /\ IF refused THEN Goto(c, "refused")
         ELSE Become(c, [request[c] EXCEPT
                !.step = IF k.coupon = None THEN "save" ELSE "reserve",
                !.quote = [Quote(c) EXCEPT !.takeaway = d.takeaway, !.coupon = d.coupon]])
      /\ UNCHANGED <<stores, faults>>

Reserve(c) ==
  /\ AtStep(c, "reserve")
  /\ \/ Goto(c, "save") /\ reserved' = reserved \cup {c} /\ UNCHANGED faults
     \/ Goto(c, "refused") /\ UNCHANGED <<reserved, faults>>   \* no use left
     \/ /\ reserved' = reserved \cup {c}           \* committed, answer lost
        /\ Become(c, [request[c] EXCEPT !.step = "refused", !.harmed = TRUE])
        /\ Fault
  /\ UNCHANGED <<orders, molliePayments, payments, announced>>

IndexRefuses(c) ==
  /\ Cart(c).coupon # None
  /\ \E o \in Checkouts \ {c} :
       orders[o] # NoRow /\ orders[o].withCoupon /\ orders[o].status = "PENDING"

OrderRow(c) ==
  LET q == Quote(c)
  IN  [items |-> q.items, fee |-> q.fee, takeaway |-> q.takeaway, coupon |-> q.coupon,
       surcharge |-> q.surcharge, total |-> StoredTotal(q), status |-> "PENDING",
       withCoupon |-> Cart(c).coupon # None]

AfterSaveAlways(c) == "announce"
AfterSave(c) == IF Cart(c).online THEN "mollie" ELSE "announce"

SaveOrder(c) ==
  /\ AtStep(c, "save")
  /\ \/ /\ ~IndexRefuses(c)
        /\ orders' = [orders EXCEPT ![c] = OrderRow(c)]
        /\ Goto(c, AfterSave(c))
        /\ UNCHANGED faults
     \/ /\ ~IndexRefuses(c)                        \* committed, answer lost
        /\ orders' = [orders EXCEPT ![c] = OrderRow(c)]
        /\ Become(c, [request[c] EXCEPT !.step = "undoCoupon", !.harmed = TRUE])
        /\ Fault
     \/ /\ \/ IndexRefuses(c) /\ UNCHANGED faults
           \/ Fault
        /\ Goto(c, "undoCoupon")
        /\ UNCHANGED orders
  /\ UNCHANGED <<reserved, molliePayments, payments, announced>>

(* Mollie refuses a payment whose lines do not add up to the amount.  A    *)
(* payment it did create may still be answered with an error.              *)
CreateMolliePayment(c) ==
  LET lines == MollieLines(orders[c])
      payment == [amount |-> orders[c].total, lines |-> lines]
  IN  /\ AtStep(c, "mollie")
      /\ \/ /\ SumOfLines(lines) = orders[c].total
            /\ molliePayments' = [molliePayments EXCEPT ![c] = payment]
            /\ \/ Goto(c, "store") /\ UNCHANGED faults
               \/ Goto(c, "undoOrder") /\ Fault
         \/ /\ \/ SumOfLines(lines) # orders[c].total /\ UNCHANGED faults
               \/ Fault
            /\ Goto(c, "undoOrder")
            /\ UNCHANGED molliePayments
      /\ UNCHANGED <<orders, reserved, payments, announced>>

SavePaymentBlindly(c) ==
  /\ AtStep(c, "store")
  /\ \/ payments' = [payments EXCEPT ![c] = [amount |-> molliePayments[c].amount, status |-> "open"]]
        /\ UNCHANGED faults
     \/ UNCHANGED payments /\ Fault
  /\ Goto(c, "done")
  /\ UNCHANGED <<orders, reserved, molliePayments, announced>>

(* A commit whose acknowledgement is lost is an error to the caller.       *)
SavePayment(c) ==
  LET stored == [payments EXCEPT ![c] = [amount |-> molliePayments[c].amount, status |-> "open"]]
  IN  /\ AtStep(c, "store")
      /\ \/ payments' = stored /\ Goto(c, "done") /\ UNCHANGED faults
         \/ payments' = stored /\ Goto(c, "undoOrder") /\ Fault
         \/ UNCHANGED payments /\ Goto(c, "undoOrder") /\ Fault
      /\ UNCHANGED <<orders, reserved, molliePayments, announced>>

SkipDeletingOrder(c) ==
  /\ AtStep(c, "undoOrder")
  /\ Goto(c, "undoCoupon")
  /\ UNCHANGED <<stores, faults>>

(* Deleting the order cascades to its payment; a failure is only logged.   *)
DeleteOrder(c) ==
  /\ AtStep(c, "undoOrder")
  /\ \/ /\ orders' = [orders EXCEPT ![c] = NoRow]
        /\ payments' = [payments EXCEPT ![c] = NoRow]
        /\ Goto(c, "undoCoupon")
        /\ UNCHANGED faults
     \/ /\ Fault
        /\ Become(c, [request[c] EXCEPT !.step = "undoCoupon", !.harmed = TRUE])
        /\ UNCHANGED <<orders, payments>>
  /\ UNCHANGED <<reserved, molliePayments, announced>>

RollBackCoupon(c) ==
  /\ AtStep(c, "undoCoupon")
  /\ \/ Goto(c, "refused") /\ reserved' = reserved \ {c} /\ UNCHANGED faults
     \/ /\ c \in reserved /\ Fault
        /\ Become(c, [request[c] EXCEPT !.step = "refused", !.harmed = TRUE])
        /\ UNCHANGED reserved
  /\ UNCHANGED <<orders, molliePayments, payments, announced>>

(* Offline orders are published here, store-review orders never are.       *)
Announce(c) ==
  /\ AtStep(c, "announce")
  /\ Goto(c, "done")
  /\ announced' = IF Cart(c).test THEN announced ELSE announced \cup {c}
  /\ UNCHANGED <<orders, reserved, molliePayments, payments, faults>>

(* Staff end an order that was placed; the webhook of an online order is   *)
(* the subject of PaymentWebhook.                                          *)
EndOrder(c) ==
  /\ AtStep(c, "done")
  /\ orders[c].status = "PENDING"
  /\ \E s \in {"DELIVERED", "PICKED_UP", "CANCELLED"} :
       orders' = [orders EXCEPT ![c].status = s]
  /\ UNCHANGED <<menu, menuEdits, request, reserved, molliePayments, payments, announced, faults>>

CheckoutStep(c) ==
  \/ ReadProducts(c) \/ PriceItems(c) \/ ResolveAddress(c) \/ ApplyCoupon(c)
  \/ Reserve(c) \/ SaveOrder(c) \/ CreateMolliePayment(c) \/ SavePayment(c)
  \/ DeleteOrder(c) \/ RollBackCoupon(c) \/ Announce(c) \/ CallFails(c)

CheckoutNext == EditMenu \/ \E c \in Checkouts : CheckoutStep(c) \/ EndOrder(c)

CheckoutSpec == CheckoutInit /\ [][CheckoutNext]_checkoutVars

(***************************************************************************)
(* Properties.                                                             *)
(***************************************************************************)
\* The state keeps its type; what an order is charged is in tens of cents.
CheckoutTypeOK ==
  /\ menu \in Menus /\ menuEdits \in 0..MaxMenuEdits /\ faults \in 0..MaxFaults
  /\ DOMAIN request = Checkouts
  /\ \A c \in Checkouts :
       /\ request[c].step \in {"products", "choices", "address", "coupon", "reserve", "save",
             "mollie", "store", "undoOrder", "undoCoupon", "announce", "done", "refused"}
       /\ request[c].cart \in Carts
       /\ orders[c] # NoRow => orders[c].total % 10 = 0
       /\ payments[c] # NoRow => payments[c].amount \in Int
  /\ reserved \subseteq Checkouts /\ announced \subseteq Checkouts

(* "Ensure combined discounts never exceed the order total": the comment   *)
(* in createOrder on what the scaling is for.                              *)
DiscountsWithinTotal ==
  \A c \in Checkouts : orders[c] # NoRow =>
    orders[c].takeaway + orders[c].coupon <= ItemsTotal(orders[c].items) + orders[c].fee

(* However the two discounts meet, what they take is at most the order's   *)
(* total rounded to ten cents: an order never owes the customer more than  *)
(* the five cents of that rounding.                                        *)
DiscountsNearTotal ==
  \A c \in Checkouts : orders[c] # NoRow =>
    orders[c].takeaway + orders[c].coupon <= ItemsTotal(orders[c].items) + orders[c].fee + 5

(* The lines sent to Mollie sum to the amount charged, whatever rounding   *)
(* happened to total and discounts: Mollie refuses the payment otherwise,  *)
(* and the customer loses the order.                                       *)
LinesAddUp ==
  \A c \in Checkouts : AtStep(c, "mollie") =>
    SumOfLines(MollieLines(orders[c])) = orders[c].total

(* A checkout answered with an error leaves no order, no local payment and *)
(* no coupon use, unless the undoing itself failed or the commit of the    *)
(* reservation or the order was not acknowledged.  A payment that Mollie   *)
(* created stays there: nothing in the code cancels it.                    *)
RefusedLeavesNothing ==
  \A c \in Checkouts : AtStep(c, "refused") /\ ~request[c].harmed =>
    orders[c] = NoRow /\ payments[c] = NoRow /\ c \notin reserved

(* A customer who is sent on to pay has an order and a payment that the    *)
(* webhook will find, both with the amount Mollie charges.                 *)
LinkIsBacked ==
  \A c \in Checkouts : AtStep(c, "done") /\ Cart(c).online =>
    /\ orders[c] # NoRow /\ payments[c] # NoRow /\ molliePayments[c] # NoRow
    /\ orders[c].total = payments[c].amount /\ payments[c].amount = molliePayments[c].amount

(* What the staff are shown is there to stay: an order that awaits its     *)
(* payment, or is deleted because that could not be created, is not shown. *)
AnnouncedIsPlaced ==
  \A c \in announced : orders[c] # NoRow /\ ~Cart(c).online /\ ~Cart(c).test

(* The invoice, which may have to recompute the total, is within the       *)
(* rounding of what was charged.                                           *)
InvoiceNearCharge ==
  \A c \in Checkouts : orders[c] # NoRow /\ InvoiceIssued(orders[c]) =>
    InvoiceTotal(orders[c]) - orders[c].total \in -5..5

\* What is charged, the payment's lines and the invoice agree up to the rounding
\* of discounts to ten cents; the charge itself is in tens of cents.
ChargesAddUp == CheckoutTypeOK /\ DiscountsNearTotal /\ LinesAddUp /\ InvoiceNearCharge

\* A checkout is all or nothing here, whichever call fails: refused without a trace
\* in the database, but for lost answers and failed undoing (see above), or placed with a payment that Mollie knows, and announced only then.
CheckoutKept == RefusedLeavesNothing /\ LinkIsBacked /\ AnnouncedIsPlaced
=============================================================================
