------------------------------ MODULE Pricing ------------------------------
(***************************************************************************)
(* The money of an order, in cents: prices of lines with their choices,    *)
(* delivery fee, the two discounts, the stored total, the lines sent to    *)
(* Mollie and the invoice.                                                 *)
(*                                                                         *)
(* A menu is a record of three functions                                   *)
(*   products : id -> [price, available, lunchOnly, discountable, vat]     *)
(*   choices  : id -> [product, group, modifier]                           *)
(*   groups   : id -> [product, min, max]                                  *)
(* and a line of a cart is [product, qty, choice, picks]: the deprecated   *)
(* single choice, and how often each choice is selected.                   *)
(***************************************************************************)
EXTENDS Integers, FiniteSets, FiniteSetsExt

CONSTANT None

TransactionFee == 30

(* Half away from zero, as decimal.Round does: the quotient n/d in cents.  *)
RoundDiv(n, d) == IF n >= 0 THEN (2 * n + d) \div (2 * d)
                            ELSE -((d - 2 * n) \div (2 * d))

(* To a multiple of ten cents: 1..4 go down, 5..9 go up.                   *)
Snap(c) == IF c >= 0 THEN 10 * ((c + 5) \div 10) ELSE -(10 * ((5 - c) \div 10))

RoundToNearest10Cents(n, d) == Snap(RoundDiv(n, d))

AtLeastZero(n) == IF n < 0 THEN 0 ELSE n
AtMost(n, bound) == IF n > bound THEN bound ELSE n

\* The sum of a function's values.
SumOf(f) == MapThenSumSet(LAMBDA x : f[x], DOMAIN f)

(***************************************************************************)
(* Lines.                                                                  *)
(***************************************************************************)
Selections(line) ==
  [ch \in DOMAIN line.picks \cup ({line.choice} \ {None}) |->
     (IF ch \in DOMAIN line.picks THEN line.picks[ch] ELSE 0)
       + (IF ch = line.choice THEN 1 ELSE 0)]

PickedOf(line, menu, g) ==
  LET s == Selections(line)
  IN  SumOf([ch \in {x \in DOMAIN s : menu.choices[x].group = g} |-> s[ch]])

(* Price reductions are ignored; the surcharges of all selections of the   *)
(* line enter the price of each piece.                                     *)
UnitPrice(line, menu) ==
  LET s == Selections(line)
  IN  menu.products[line.product].price
        + SumOf([ch \in DOMAIN s |-> AtLeastZero(menu.choices[ch].modifier) * s[ch]])

(* Every selected choice exists and is the product's; every group of the   *)
(* product gets between min and max selections for each of the qty pieces; *)
(* and a piece does not cost less than nothing.                            *)
LineAccepted(line, menu) ==
  /\ line.product \in DOMAIN menu.products
  /\ line.qty \in 1..99
  /\ \A ch \in DOMAIN line.picks : line.picks[ch] > 0
  /\ \A ch \in DOMAIN Selections(line) :
       ch \in DOMAIN menu.choices /\ menu.choices[ch].product = line.product
  /\ \A g \in DOMAIN menu.groups : menu.groups[g].product = line.product =>
       /\ PickedOf(line, menu, g) >= menu.groups[g].min * line.qty
       /\ PickedOf(line, menu, g) <= menu.groups[g].max * line.qty
  /\ UnitPrice(line, menu) >= 0

LineTotal(line, menu) == UnitPrice(line, menu) * line.qty

ItemsTotal(items) == SumOf([i \in DOMAIN items |-> items[i].total])

(***************************************************************************)
(* Fees and discounts.                                                     *)
(***************************************************************************)
DeliveryFeeFromDistance(metres) ==
  IF metres < 3000 THEN 0 ELSE 100 * (metres \div 1000 - 2)

(* A tenth of the discountable items of a pickup order from 20 euros.      *)
TakeawayDiscount(cart, items) ==
  IF cart.type = "PICKUP" /\ ItemsTotal(items) >= 2000
  THEN RoundToNearest10Cents(
         SumOf([i \in {x \in DOMAIN items : items[x].discountable} |-> items[i].total]), 10)
  ELSE 0

CalculateDiscount(coupon, amount) ==
  CASE coupon.kind = "percentage" -> AtMost(RoundDiv(amount * coupon.value, 100), amount)
    [] coupon.kind = "fixed" -> AtMost(coupon.value, amount)

CouponDiscount(coupon, amount) ==
  IF coupon = None THEN 0
  ELSE RoundToNearest10Cents(CalculateDiscount(coupon, amount), 1)

Unscaled(takeaway, coupon, total) == [takeaway |-> takeaway, coupon |-> coupon]

(* Discounts that together exceed the total are scaled down to it and      *)
(* rounded again.                                                          *)
Scaled(takeaway, coupon, total) ==
  IF takeaway + coupon <= total
  THEN [takeaway |-> takeaway, coupon |-> coupon]
  ELSE LET t == RoundToNearest10Cents(takeaway * total, takeaway + coupon)
       IN  [takeaway |-> t, coupon |-> RoundToNearest10Cents(total - t, 1)]

(***************************************************************************)
(* The stored order, the payment and the invoice.                          *)
(***************************************************************************)
Surcharge(cart) == IF cart.online THEN TransactionFee ELSE 0

Components(q) == ItemsTotal(q.items) + q.fee - (q.takeaway + q.coupon) + q.surcharge

RawTotal(q) == Components(q)
StoredTotal(q) == Snap(Components(q))

(* What Mollie is asked to charge: a line per item, one for each of the    *)
(* fee, the discounts and the surcharge unless it is zero, and one more    *)
(* for what is then still missing from the total.                          *)
LinesWithoutCorrection(order) ==
  {[kind |-> "item", nr |-> i, amount |-> order.items[i].total] : i \in DOMAIN order.items}
    \cup {l \in {[kind |-> "fee", nr |-> 0, amount |-> order.fee],
                 [kind |-> "takeaway", nr |-> 0, amount |-> -AtLeastZero(order.takeaway)],
                 [kind |-> "coupon", nr |-> 0, amount |-> -AtLeastZero(order.coupon)],
                 [kind |-> "surcharge", nr |-> 0, amount |-> order.surcharge]} : l.amount # 0}

SumOfLines(lines) == SumOf([l \in lines |-> l.amount])

RoundingCorrection(order, lines) ==
  {l \in {[kind |-> "correction", nr |-> 0, amount |-> order.total - SumOfLines(lines)]} :
     l.amount # 0}

MollieLines(order) ==
  LET lines == LinesWithoutCorrection(order)
  IN  lines \cup RoundingCorrection(order, lines)

InvoiceTotalWithoutFee(order) ==
  IF order.total = 0 /\ ItemsTotal(order.items) # 0
  THEN ItemsTotal(order.items) - order.takeaway - order.coupon
  ELSE order.total

(* The invoice prints the stored total, or recomputes it when that is zero.*)
InvoiceTotal(order) ==
  IF order.total = 0 /\ ItemsTotal(order.items) # 0
  THEN ItemsTotal(order.items) - order.takeaway - order.coupon + order.fee
  ELSE order.total

InvoiceIssued(order) ==
  /\ order.status \in {"DELIVERED", "PICKED_UP"}
  /\ ItemsTotal(order.items) # 0
  /\ InvoiceTotal(order) # 0
=============================================================================
