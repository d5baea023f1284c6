----------------------------- MODULE MCOrdering -----------------------------
(***************************************************************************)
(* The three parts of placing an order, and how a GraphQL request is       *)
(* answered, each explored on its own: the initial state picks a part and  *)
(* the others stay as they began.                                          *)
(***************************************************************************)
EXTENDS Checkout, Storefront, CouponAttempts, GraphServer, Loaders

CONSTANTS Parts
VARIABLE part
Product(p, d, l) == [price |-> p, available |-> TRUE, lunchOnly |-> l, discountable |-> d, vat |-> "food"]
MCMenu(p) ==
  [products |-> [x \in {"roll", "set"} |-> IF x = "roll" THEN Product(p, TRUE, FALSE)
                                           ELSE Product(1095, FALSE, TRUE)],
   choices |-> [x \in {"sauce", "rice"} |-> [product |-> "set", group |-> "side",
                                             modifier |-> IF x = "sauce" THEN 50 ELSE -100]],
   groups |-> [x \in {"side"} |-> [product |-> "set", min |-> 1, max |-> 1]]]
MCMenus == {MCMenu(1004), MCMenu(2235),
            [MCMenu(-1004) EXCEPT !.products["set"].available = FALSE]}

Line(p, q) == [product |-> p, qty |-> q, choice |-> None, picks |-> <<>>]
SetLine(q, ch) == [product |-> "set", qty |-> q, choice |-> None, picks |-> (ch :> q)]
OneSet == [product |-> "set", qty |-> 1, choice |-> "rice", picks |-> <<>>]
Pickup(lines, online, coupon) ==
  [type |-> "PICKUP", lines |-> lines, online |-> online, coupon |-> coupon, test |-> FALSE,
   lunchSlot |-> TRUE, place |-> None, distance |-> 0, excluded |-> FALSE]
Delivery(lines, online, coupon, d) ==
  [Pickup(lines, online, coupon) EXCEPT !.type = "DELIVERY", !.place = "home", !.distance = d]
Percent(v) == [kind |-> "percentage", value |-> v, min |-> 0]
Fixed(v, m) == [kind |-> "fixed", value |-> v, min |-> m]
MCCarts ==
  {Pickup(<<Line("roll", 1)>>, FALSE, Percent(100)),
   Pickup(<<Line("roll", 2), SetLine(2, "sauce")>>, TRUE, Fixed(7000, 2000)),
   Delivery(<<Line("roll", 3)>>, FALSE, Fixed(10000, 0), 4200),
   Delivery(<<Line("roll", 3), OneSet>>, TRUE, Percent(15), 8999),
   Delivery(<<Line("roll", 1)>>, TRUE, None, 9000),
   [Pickup(<<OneSet>>, FALSE, None) EXCEPT !.test = TRUE],
   [Pickup(<<SetLine(3, "rice")>>, FALSE, None) EXCEPT !.lunchSlot = FALSE]}

Service(o, c, do, dc) == [open |-> o, close |-> c, dinnerOpen |-> do, dinnerClose |-> dc]
TwoServices == Service(690, 765, 1080, 1140)
EveningOnly == Service(1080, 1140, Unset, Unset)
MCHours == {[d \in 0..6 |-> IF d = 1 THEN Closed ELSE TwoServices],
            [d \in 0..6 |-> IF d \in {0, 4} THEN EveningOnly ELSE Closed]}
\* Dinner stored where lunch belongs: the code refuses nothing.
Backwards == Service(1080, 1140, 690, 765)
MCSpecials == {Closed, EveningOnly, Backwards}
MCSettings == {[enabled |-> TRUE, opening |-> h, ordering |-> Unset, prep |-> 60] : h \in MCHours}
MCHorizon == 0..14
\* Friday before lunch, during it, on and off the minute, in the evening; Saturday
MCInstants == {4 * DayLength + 690 * Minute,
               4 * DayLength + 705 * Minute + 1, 4 * DayLength + 1050 * Minute,
               5 * DayLength + 705 * Minute}
\* between two services
MCOtherTimes == {4 * DayLength + 780 * Minute}

\* Two customers, the owner, a till, and tokens that are worth nothing: one whose
\* subject has no user, one that does not verify.
MCToken(issuer, subject, admin, known) ==
  [issuer |-> issuer, subject |-> subject, admin |-> admin, known |-> known,
   expires |-> issuer # "pos"]
MCTokens ==
  {MCToken("zitadel", "ann", FALSE, TRUE), MCToken("zitadel", "boss", TRUE, TRUE),
   MCToken("pos", "till", FALSE, FALSE), MCToken("zitadel", "eve", TRUE, FALSE),
   MCToken("nobody", "bob", FALSE, FALSE)}
MCNoToken == [MCToken("nobody", "none", FALSE, FALSE) EXCEPT !.expires = FALSE]

\* Two operations on a websocket and a request of its own.
MCConnectionOf == [o \in LoadOps |-> IF o = "query" THEN "http" ELSE "socket"]

vars == <<part, checkoutVars, storefrontVars, attemptVars, graphVars, loaderVars>>
NoCheckout ==
  /\ menu = CHOOSE m \in Menus : TRUE
  /\ menuEdits = 0 /\ faults = 0 /\ reserved = {} /\ announced = {}
  /\ request = [c \in Checkouts |->
       [step |-> "refused", cart |-> CHOOSE k \in Carts : TRUE, products |-> None,
        quote |-> NoQuote, harmed |-> FALSE]]
  /\ orders = [c \in Checkouts |-> NoRow]
  /\ molliePayments = [c \in Checkouts |-> NoRow]
  /\ payments = [c \in Checkouts |-> NoRow]
MCInit ==
  /\ part \in Parts
  /\ IF part = "checkout" THEN CheckoutInit ELSE NoCheckout
  /\ StorefrontInit
  /\ part # "storefront" => settings = CHOOSE s \in InitialSettings : TRUE
  /\ AttemptsInit /\ GraphInit /\ LoadersInit
MCNext ==
  /\ UNCHANGED part
  /\ \/ /\ part = "checkout" /\ CheckoutNext
        /\ UNCHANGED <<storefrontVars, attemptVars, graphVars, loaderVars>>
     \/ /\ part = "storefront" /\ StorefrontNext
        /\ UNCHANGED <<checkoutVars, attemptVars, graphVars, loaderVars>>
     \/ /\ part = "attempts" /\ AttemptsNext
        /\ UNCHANGED <<checkoutVars, storefrontVars, graphVars, loaderVars>>
     \/ /\ part = "graph" /\ GraphNext
        /\ UNCHANGED <<checkoutVars, storefrontVars, attemptVars, loaderVars>>
     \/ /\ part = "loaders" /\ LoadersNext
        /\ UNCHANGED <<checkoutVars, storefrontVars, attemptVars, graphVars>>
MCSpec == MCInit /\ [][MCNext]_vars

=============================================================================
