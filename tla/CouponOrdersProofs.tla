-------------------------- MODULE CouponOrdersProofs --------------------------
(***************************************************************************)
(* CouponOrders for any number of customers, orders and updates and any    *)
(* caps.  What holds whatever the environment does (one active coupon      *)
(* order, the counters' relation) comes first; then the account of uses    *)
(* and the refinement of CouponLedger, for which updates of an order do    *)
(* not overlap, a CANCELLED order stays so, nobody cancels an order before *)
(* its checkout has ended and no statement fails.                          *)
(***************************************************************************)
EXTENDS CouponOrders, FiniteSetTheorems, TLAPS

-------------------------------------------------------------------------------
(* Rows and statuses *)

\* What the statements do to a count, in terms of the count a reader sees.
LEMMA RowFacts ==
  ASSUME NEW row \in Nat \cup {NoRow}
  PROVE  /\ UsageCount(row) \in Nat
         /\ Bumped(row) \in Nat \cup {NoRow}
         /\ UsageCount(Bumped(row)) = UsageCount(row) + 1
         /\ Dropped(row) \in Nat \cup {NoRow}
         /\ UsageCount(Dropped(row)) = IF UsageCount(row) = 0 THEN 0 ELSE UsageCount(row) - 1
BY DEF UsageCount, Bumped, Dropped, NoRow

\* What separates the statuses from each other and from a missing row.
LEMMA StatusFacts ==
  /\ NoOrder \notin Status /\ "PENDING" \in Status /\ "CANCELLED" \in Status
  /\ "CANCELLED" \notin Active /\ NoOrder \notin Active /\ Active \subseteq Status
BY DEF NoOrder, Status, Active, Terminal

\* A decrement changes the counters of the order's customer by at most one.
LEMMA DecrementType ==
  ASSUME TypeOK, NEW o \in Order, DecrementUsage(o)
  PROVE  /\ used' \in Nat /\ usedBy' \in [User -> Nat \cup {NoRow}]
         /\ returned' \in [Order -> Nat]
<1>1. Owner[o] \in User /\ Dropped(usedBy[Owner[o]]) \in Nat \cup {NoRow}
  BY OrderAssumption, RowFacts DEF TypeOK
<1>2. Dropped(used) \in Nat
  BY DEF TypeOK, Dropped
<1> QED BY <1>1, <1>2 DEF TypeOK, DecrementUsage

-------------------------------------------------------------------------------
(* Types *)

\* TypeOK is not inductive: that only coupon orders take a use needs that only
\* they are validated.
Validated == \A o \in Order : checkout[o] \in {"validated", "cleared"} => o \in CouponOrder

Typed == TypeOK /\ Validated

LEMMA InitTyped == Init => Typed
<1> SUFFICES ASSUME Init PROVE Typed
  OBVIOUS
<1>1. status \in [Order -> Status \cup {NoOrder}] /\ checkout \in [Order -> CheckoutPhase]
  BY DEF Init, CheckoutPhase
<1>2. usedBy \in [User -> Nat \cup {NoRow}] /\ update \in [Request -> UpdateCall \cup {NoUpdate}]
  BY DEF Init
<1> QED BY <1>1, <1>2 DEF Init, Typed, TypeOK, Validated

\* A checkout that goes to another phase keeps the types of all the rest.
LEMMA GotoType ==
  ASSUME TypeOK, NEW o \in Order, NEW phase \in CheckoutPhase, Goto(o, phase)
  PROVE  checkout' \in [Order -> CheckoutPhase]
BY DEF TypeOK, Goto

LEMMA CheckoutTypeOK ==
  ASSUME Typed, NEW o \in Order, Checkout(o) \/ CrashCheckout(o)
  PROVE  TypeOK'
<1> USE DEF CheckoutPhase, Typed
<1>1. CASE ValidateCoupon(o)
  BY <1>1, GotoType DEF ValidateCoupon, TypeOK, storage
<1>2. CASE CheckActive(o)
  BY <1>2, GotoType DEF CheckActive, TypeOK, storage
<1>3. CASE Reserve(o)
  <2>1. CASE CanRedeem(o)
    <3>1. Owner[o] \in User /\ Bumped(usedBy[Owner[o]]) \in Nat \cup {NoRow}
      BY OrderAssumption, RowFacts DEF TypeOK
    <3>2. used' \in Nat /\ usedBy' \in [User -> Nat \cup {NoRow}]
      BY <1>3, <2>1, <3>1 DEF Reserve, TypeOK
    <3>3. checkout' \in [Order -> CheckoutPhase]
      BY <1>3, <2>1, GotoType DEF Reserve
    <3> QED BY <1>3, <2>1, <3>2, <3>3 DEF Reserve, TypeOK, Validated
  <2>2. CASE UNCHANGED <<used, usedBy, took>>
    <3>1. checkout' \in [Order -> CheckoutPhase]
      BY <1>3, GotoType DEF Reserve
    <3> QED BY <1>3, <2>2, <3>1 DEF Reserve, TypeOK
  <2> QED BY <1>3, <2>1, <2>2 DEF Reserve
<1>4. CASE SaveOrder(o)
  <2>1. checkout' \in [Order -> CheckoutPhase]
    BY <1>4, GotoType DEF SaveOrder, GiveUp
  <2>2. status' \in [Order -> Status \cup {NoOrder}]
    BY <1>4, StatusFacts DEF SaveOrder, TypeOK
  <2> QED BY <1>4, <2>1, <2>2 DEF SaveOrder, TypeOK
<1>5. CASE CreatePayment(o)
  BY <1>5, GotoType DEF CreatePayment, TypeOK, storage
<1>6. CASE DeleteOrder(o)
  <2>1. checkout' \in [Order -> CheckoutPhase]
    BY <1>6, GotoType DEF DeleteOrder, GiveUp
  <2>2. status' \in [Order -> Status \cup {NoOrder}]
    BY <1>6 DEF DeleteOrder, TypeOK
  <2> QED BY <1>6, <2>1, <2>2 DEF DeleteOrder, TypeOK
<1>7. CASE Undo(o)
  <2>1. checkout' \in [Order -> CheckoutPhase]
    BY <1>7, GotoType DEF Undo
  <2>2. /\ used' \in Nat /\ usedBy' \in [User -> Nat \cup {NoRow}]
        /\ returned' \in [Order -> Nat]
    BY <1>7, DecrementType DEF Undo, KeepUsage, TypeOK
  <2> QED BY <1>7, <2>1, <2>2 DEF Undo, TypeOK
<1>8. CASE CrashCheckout(o)
  BY <1>8, GotoType DEF CrashCheckout, TypeOK, storage
<1> QED BY <1>1, <1>2, <1>3, <1>4, <1>5, <1>6, <1>7, <1>8 DEF Checkout

\* A call under way is a record of its fields.
LEMMA InFlightCall ==
  ASSUME TypeOK, NEW w \in Request, update[w].at \in {"read", "written"}
  PROVE  /\ update[w] \in UpdateCall /\ update[w].order \in Order
         /\ update[w].seen \in Status /\ Becomes(w) \in Status
<1>1. update[w] \in UpdateCall
  BY DEF TypeOK, NoUpdate
<1>2. update[w].order \in Order /\ update[w].seen \in Status
      /\ update[w].asked \in StaffStatus \cup {KeepStatus}
  BY <1>1 DEF UpdateCall
<1> QED BY <1>1, <1>2, StatusAssumption DEF Becomes

\* What an update writes: its order, if it still has a row, and no other.
LEMMA StoredIs ==
  ASSUME TypeOK, NEW w \in Request, NEW o \in Order, o = update[w].order, status' = Stored(w)
  PROVE  /\ status' = [status EXCEPT ![o] = IF status[o] = NoOrder THEN NoOrder ELSE Becomes(w)]
         /\ status[o] = NoOrder => status'[o] = NoOrder
         /\ status[o] # NoOrder => status'[o] = Becomes(w)
         /\ \A p \in Order \ {o} : status'[p] = status[p]
<1>1. status' = [status EXCEPT ![o] = IF status[o] = NoOrder THEN NoOrder ELSE Becomes(w)]
  BY DEF Stored
<1> QED BY <1>1 DEF TypeOK

LEMMA UpdateTypeOK ==
  ASSUME TypeOK, NEW w \in Request, ReadOrder(w) \/ UpdateOrder(w)
  PROVE  TypeOK'
<1>1. CASE ReadOrder(w)
  <2>1. PICK o \in Order, asked \in StaffStatus \cup {KeepStatus} :
          /\ status[o] # NoOrder
          /\ update' = [update EXCEPT ![w] =
               [at |-> "read", order |-> o, asked |-> asked, seen |-> status[o]]]
    BY <1>1 DEF ReadOrder, Updatable
  <2>2. [at |-> "read", order |-> o, asked |-> asked, seen |-> status[o]] \in UpdateCall
    BY <2>1 DEF UpdateCall, UpdatePhase, TypeOK
  <2>3. update' \in [Request -> UpdateCall \cup {NoUpdate}]
    BY <2>1, <2>2 DEF TypeOK
  <2> QED BY <1>1, <2>3 DEF ReadOrder, TypeOK, storage
<1>2. CASE WriteOrder(w)
  <2>1. update[w] \in UpdateCall /\ update[w].order \in Order /\ Becomes(w) \in Status
    BY <1>2, InFlightCall DEF WriteOrder
  <2>2. status' \in [Order -> Status \cup {NoOrder}]
    BY <1>2, <2>1, StoredIs DEF WriteOrder, TypeOK
  <2>3. \A phase \in {"written", "done"} : [update[w] EXCEPT !.at = phase] \in UpdateCall
    BY <2>1 DEF UpdateCall, UpdatePhase
  <2>4. update' \in [Request -> UpdateCall \cup {NoUpdate}]
    BY <1>2, <2>3 DEF WriteOrder, TypeOK
  <2> QED BY <1>2, <2>2, <2>4 DEF WriteOrder, TypeOK
<1>3. CASE RollBackCoupon(w)
  <2>1. update[w] \in UpdateCall /\ update[w].order \in Order
    BY <1>3, InFlightCall DEF RollBackCoupon
  <2>2. [update[w] EXCEPT !.at = "done"] \in UpdateCall
    BY <2>1 DEF UpdateCall, UpdatePhase
  <2>3. update' \in [Request -> UpdateCall \cup {NoUpdate}]
    BY <1>3, <2>2 DEF RollBackCoupon, TypeOK
  <2>4. /\ used' \in Nat /\ usedBy' \in [User -> Nat \cup {NoRow}]
        /\ returned' \in [Order -> Nat]
    BY <1>3, <2>1, DecrementType DEF RollBackCoupon, KeepUsage, TypeOK
  <2> QED BY <1>3, <2>3, <2>4 DEF RollBackCoupon, TypeOK
<1> QED BY <1>1, <1>2, <1>3 DEF UpdateOrder

\* Only ValidateCoupon starts a checkout with a coupon.
LEMMA NextValidated ==
  ASSUME Typed, Next
  PROVE  Validated'
<1> USE DEF Typed
<1>1. ASSUME NEW o \in Order, Checkout(o) \/ CrashCheckout(o)
      PROVE  Validated'
  <2>1. \A p \in Order \ {o} : checkout'[p] = checkout[p]
    BY <1>1 DEF Checkout, ValidateCoupon, CheckActive, Reserve, SaveOrder, CreatePayment,
                DeleteOrder, Undo, CrashCheckout, Goto, GiveUp, TypeOK
  <2>2. checkout'[o] \in {"validated", "cleared"} => o \in CouponOrder
    BY <1>1 DEF Checkout, ValidateCoupon, CheckActive, Reserve, SaveOrder, CreatePayment,
                DeleteOrder, Undo, CrashCheckout, Goto, GiveUp, TypeOK, Validated
  <2> QED BY <2>1, <2>2 DEF Validated
<1>2. ASSUME UNCHANGED checkout PROVE Validated'
  BY <1>2 DEF Validated
<1> QED BY <1>1, <1>2 DEF Next, ReadOrder, UpdateOrder, WriteOrder, RollBackCoupon,
                          CancelStaleTestOrders, RenameCoupon

LEMMA NextTyped == Typed /\ [Next]_vars => Typed'
<1> SUFFICES ASSUME Typed, [Next]_vars PROVE Typed'
  OBVIOUS
<1> USE DEF Typed
<1>1. CASE CancelStaleTestOrders
  BY <1>1, NextValidated, StatusFacts DEF CancelStaleTestOrders, TypeOK, Next
<1>2. CASE RenameCoupon
  BY <1>2, NextValidated DEF RenameCoupon, TypeOK, Next
<1>3. CASE UNCHANGED vars
  BY <1>3 DEF vars, TypeOK, Validated
<1> QED BY <1>1, <1>2, <1>3, CheckoutTypeOK, UpdateTypeOK, NextValidated DEF Next

LEMMA AlwaysTyped == Spec => []Typed
BY InitTyped, NextTyped, PTL DEF Spec

\* Whatever fails, crashes or overlaps, every value keeps its type: no counter of
\* the coupon tables goes below zero.
THEOREM TypeCorrect == Spec => []TypeOK
<1>1. Typed => TypeOK
  BY DEF Typed
<1> QED BY <1>1, AlwaysTyped, PTL
-------------------------------------------------------------------------------
(* One active coupon order *)

\* Two active coupon orders of a customer are the same order.
SingleActive ==
  \A o, p \in CouponOrder :
    Owner[o] = Owner[p] /\ status[o] \in Active /\ status[p] \in Active => o = p

\* Orders that become inactive, or keep their status, endanger nothing.
LEMMA EndingKeepsSingle ==
  ASSUME SingleActive, \A o \in Order : status'[o] = status[o] \/ status'[o] \notin Active
  PROVE  SingleActive'
BY OrderAssumption DEF SingleActive

\* A status written with the unique index's consent.
LEMMA WritingKeepsSingle ==
  ASSUME TypeOK, SingleActive, NEW o \in Order, NEW s,
         status' = [status EXCEPT ![o] = s], s \in Active => ~IndexConflict(o)
  PROVE  SingleActive'
<1>1. CASE s \notin Active
  BY <1>1, EndingKeepsSingle DEF TypeOK
<1>2. CASE s \in Active
  <2>1. o \in CouponOrder => \A p \in CouponOrder \ {o} :
          Owner[p] = Owner[o] => status[p] \notin Active
    BY <1>2, OrderAssumption DEF IndexConflict, ActiveCouponOrders, OrdersOf
  <2>2. \A p \in Order \ {o} : status'[p] = status[p]
    BY DEF TypeOK
  <2> QED BY <2>1, <2>2, OrderAssumption DEF SingleActive
<1> QED BY <1>1, <1>2

LEMMA NextKeepsSingle == TypeOK /\ SingleActive /\ [Next]_vars => SingleActive'
<1> SUFFICES ASSUME TypeOK, SingleActive, [Next]_vars PROVE SingleActive'
  OBVIOUS
<1>1. CASE UNCHANGED status
  BY <1>1 DEF SingleActive
<1>2. ASSUME NEW o \in Order, SaveOrder(o) PROVE SingleActive'
  BY <1>1, <1>2, WritingKeepsSingle DEF SaveOrder
<1>3. ASSUME NEW o \in Order, DeleteOrder(o) PROVE SingleActive'
  BY <1>1, <1>3, WritingKeepsSingle, StatusFacts DEF DeleteOrder
<1>4. ASSUME NEW w \in Request, WriteOrder(w) PROVE SingleActive'
  <2>1. PICK o \in Order : o = update[w].order
    BY <1>4, InFlightCall DEF WriteOrder
  <2>2. CASE status' = Stored(w) /\ status[o] # NoOrder /\ ~IndexRefuses(w)
    <3>1. status' = [status EXCEPT ![o] = Becomes(w)]
      BY <2>1, <2>2, StoredIs
    <3> QED BY <2>1, <2>2, <3>1, WritingKeepsSingle DEF IndexRefuses
  <2>3. CASE status' = Stored(w) /\ status[o] = NoOrder
    <3>1. \A p \in Order : status'[p] = status[p]
      BY <2>1, <2>3, StoredIs
    <3> QED BY <3>1, EndingKeepsSingle
  <2> QED BY <1>1, <1>4, <2>1, <2>2, <2>3 DEF WriteOrder
<1>5. CASE CancelStaleTestOrders
  <2>1. \A o \in Order : status'[o] \in {"CANCELLED", status[o]}
    BY <1>5 DEF CancelStaleTestOrders
  <2> QED BY <2>1, StatusFacts, EndingKeepsSingle
<1> QED
  BY <1>1, <1>2, <1>3, <1>4, <1>5
  DEF Next, vars, storage, Checkout, ValidateCoupon, CheckActive, Reserve, CreatePayment,
      Undo, CrashCheckout, ReadOrder, UpdateOrder, RollBackCoupon, RenameCoupon

\* However checkouts race, stale statuses are written back and cancelled orders are
\* reopened, nobody has two active coupon orders: the partial unique index decides,
\* not the check that createOrder makes before.
THEOREM OneAtATime == Spec => []OneActiveCouponOrder
<1>1. Init => SingleActive
  BY StatusFacts, OrderAssumption DEF Init, SingleActive
<1>2. TypeOK /\ SingleActive => OneActiveCouponOrder
  <2> SUFFICES ASSUME SingleActive, NEW u \in User
               PROVE  Cardinality(ActiveCouponOrders(u)) <= 1
    BY DEF OneActiveCouponOrder
  <2>1. \A o, p \in ActiveCouponOrders(u) : o = p
    BY DEF ActiveCouponOrders, OrdersOf, SingleActive
  <2>2. CASE ActiveCouponOrders(u) = {}
    BY <2>2, FS_EmptySet
  <2>3. CASE ActiveCouponOrders(u) # {}
    <3>1. PICK o : ActiveCouponOrders(u) = {o}
      BY <2>1, <2>3
    <3>2. Cardinality(ActiveCouponOrders(u)) = 1
      BY <3>1, FS_Singleton
    <3> QED BY <3>2
  <2> QED BY <2>2, <2>3
<1> QED BY <1>1, <1>2, NextKeepsSingle, TypeCorrect, PTL DEF Spec

-------------------------------------------------------------------------------
(* The global counter and the customers' *)

\* The uses a row speaks of are numbered from one.
LEMMA CountFacts ==
  ASSUME TypeOK, NEW u \in User
  PROVE  UsageCount(usedBy[u]) \in Nat /\ usedBy[u] \in Nat \cup {NoRow}
<1>1. usedBy[u] \in Nat \cup {NoRow}
  BY DEF TypeOK
<1> QED BY <1>1, RowFacts

\* One number more, or one less.
LEMMA Numbered ==
  ASSUME NEW n \in Nat
  PROVE  /\ 1 .. (n + 1) = (1 .. n) \cup {n + 1}
         /\ n + 1 \notin 1 .. n
         /\ 1 .. (IF n = 0 THEN 0 ELSE n - 1) = (1 .. n) \ {n}
OBVIOUS

\* The uses in the customers' rows are finitely many, and a row's part of them.
LEMMA CountedFinite ==
  ASSUME TypeOK
  PROVE  IsFiniteSet(CountedForUsers) /\ Cardinality(CountedForUsers) \in Nat
<1>1. \A u \in User : IsFiniteSet({u} \X (1 .. UsageCount(usedBy[u])))
  <2> SUFFICES ASSUME NEW u \in User PROVE IsFiniteSet({u} \X (1 .. UsageCount(usedBy[u])))
    OBVIOUS
  <2>1. UsageCount(usedBy[u]) \in Int /\ 1 \in Int
    BY CountFacts
  <2>2. IsFiniteSet(1 .. UsageCount(usedBy[u]))
    BY <2>1, FS_Interval
  <2>3. IsFiniteSet({u})
    BY FS_Singleton
  <2> QED BY <2>2, <2>3, FS_Product
<1>2. IsFiniteSet({{u} \X (1 .. UsageCount(usedBy[u])) : u \in User})
  <2> DEFINE f == [u \in User |-> {u} \X (1 .. UsageCount(usedBy[u]))]
             T == {{u} \X (1 .. UsageCount(usedBy[u])) : u \in User}
  <2>1. f \in Surjection(User, T)
    BY DEF Surjection
  <2> QED BY <2>1, FS_Surjection, OrderAssumption
<1>3. IsFiniteSet(CountedForUsers)
  BY <1>1, <1>2, FS_UNION DEF CountedForUsers
<1> QED BY <1>3, FS_CardinalityType

\* Which uses a row speaks of.
LEMMA CountedMember ==
  ASSUME TypeOK, NEW u, NEW n
  PROVE  <<u, n>> \in CountedForUsers <=> u \in User /\ n \in 1 .. UsageCount(usedBy[u])
BY DEF CountedForUsers

\* A bumped row counts one use more.
LEMMA CountedBumped ==
  ASSUME TypeOK, TypeOK', NEW u \in User, usedBy' = [usedBy EXCEPT ![u] = Bumped(@)]
  PROVE  Cardinality(CountedForUsers') = Cardinality(CountedForUsers) + 1
<1> DEFINE n == UsageCount(usedBy[u]) + 1
<1>0. usedBy'[u] = Bumped(usedBy[u]) /\ \A v \in User \ {u} : usedBy'[v] = usedBy[v]
  BY DEF TypeOK
<1>1. n \in Nat /\ UsageCount(usedBy'[u]) = n
  BY <1>0, RowFacts, CountFacts
<1>2. CountedForUsers' = CountedForUsers \cup {<<u, n>>}
  <2>1. 1 .. UsageCount(usedBy'[u]) = (1 .. UsageCount(usedBy[u])) \cup {n}
    BY <1>1, CountFacts, Numbered
  <2> HIDE DEF n
  <2> QED BY <1>0, <1>1, <2>1 DEF CountedForUsers
<1>3. <<u, n>> \notin CountedForUsers
  <2>1. n \notin 1 .. UsageCount(usedBy[u])
    BY CountFacts, Numbered
  <2> HIDE DEF n
  <2> QED BY <2>1, CountedMember
<1> HIDE DEF n
<1> QED BY <1>2, <1>3, CountedFinite, FS_AddElement

\* A dropped row counts at most one use less, and none less if it counted none.
LEMMA CountedDropped ==
  ASSUME TypeOK, TypeOK', NEW u \in User, usedBy' = [usedBy EXCEPT ![u] = Dropped(@)]
  PROVE  /\ Cardinality(CountedForUsers') \in Nat
         /\ Cardinality(CountedForUsers') >= Cardinality(CountedForUsers) - 1
<1> DEFINE n == UsageCount(usedBy[u])
<1>0. usedBy'[u] = Dropped(usedBy[u]) /\ \A v \in User \ {u} : usedBy'[v] = usedBy[v]
  BY DEF TypeOK
<1>1. n \in Nat /\ UsageCount(usedBy'[u]) = IF n = 0 THEN 0 ELSE n - 1
  BY <1>0, RowFacts, CountFacts
<1>2. CountedForUsers' = CountedForUsers \ {<<u, n>>}
  <2>1. 1 .. UsageCount(usedBy'[u]) = (1 .. UsageCount(usedBy[u])) \ {n}
    BY <1>1, Numbered
  <2> HIDE DEF n
  <2> QED BY <1>0, <1>1, <2>1 DEF CountedForUsers
<1>3. /\ IsFiniteSet(CountedForUsers')
      /\ Cardinality(CountedForUsers') \in {Cardinality(CountedForUsers), Cardinality(CountedForUsers) - 1}
  <2> HIDE DEF n
  <2> QED BY <1>2, CountedFinite, FS_RemoveElement
<1>4. Cardinality(CountedForUsers') \in Nat
  BY <1>3, FS_CardinalityType
<1> QED BY <1>3, <1>4, CountedFinite

LEMMA NextKeepsBehind == TypeOK /\ TypeOK' /\ GlobalNeverAhead /\ [Next]_vars => GlobalNeverAhead'
<1> SUFFICES ASSUME TypeOK, TypeOK', GlobalNeverAhead, [Next]_vars PROVE GlobalNeverAhead'
  OBVIOUS
<1>1. CASE UNCHANGED <<used, usedBy>>
  BY <1>1 DEF GlobalNeverAhead, CountedForUsers
<1>2. ASSUME NEW o \in Order, DecrementUsage(o) PROVE GlobalNeverAhead'
  <2>1. /\ Cardinality(CountedForUsers') \in Nat
        /\ Cardinality(CountedForUsers') >= Cardinality(CountedForUsers) - 1
    BY <1>2, CountedDropped, OrderAssumption DEF DecrementUsage
  <2>2. used' = Dropped(used) /\ used \in Nat
    BY <1>2 DEF DecrementUsage, TypeOK
  <2>3. Cardinality(CountedForUsers) \in Nat
    BY CountedFinite
  <2> QED BY <2>1, <2>2, <2>3 DEF GlobalNeverAhead, Dropped
<1>3. ASSUME NEW o \in Order, Reserve(o) PROVE GlobalNeverAhead'
  <2>1. CASE UNCHANGED <<used, usedBy, took>>
    BY <1>1, <2>1
  <2>2. CASE used' = used + 1 /\ usedBy' = [usedBy EXCEPT ![Owner[o]] = Bumped(@)]
    <3>1. Cardinality(CountedForUsers') = Cardinality(CountedForUsers) + 1
      BY <2>2, CountedBumped, OrderAssumption
    <3> QED BY <2>2, <3>1, CountedFinite DEF GlobalNeverAhead, TypeOK
  <2> QED BY <1>3, <2>1, <2>2 DEF Reserve
<1>4. ASSUME NEW w \in Request, RollBackCoupon(w) PROVE GlobalNeverAhead'
  <2>1. update[w].order \in Order
    BY <1>4, InFlightCall DEF RollBackCoupon
  <2> QED BY <1>1, <1>2, <1>4, <2>1 DEF RollBackCoupon, KeepUsage
<1> QED
  BY <1>1, <1>2, <1>3, <1>4
  DEF Next, vars, storage, Checkout, ValidateCoupon, CheckActive, SaveOrder, CreatePayment,
      DeleteOrder, Undo, KeepUsage, CrashCheckout, ReadOrder, UpdateOrder, WriteOrder,
      CancelStaleTestOrders, RenameCoupon

\* Whatever is undone twice, late or not at all, the coupon's own counter is not
\* ahead of its customers': a coupon never runs out on uses nobody has.
THEOREM NeverAhead == Spec => []GlobalNeverAhead
<1>1. TypeOK /\ Init => GlobalNeverAhead
  <2> SUFFICES ASSUME TypeOK, Init PROVE GlobalNeverAhead
    OBVIOUS
  <2> QED BY CountedFinite DEF Init, GlobalNeverAhead
<1> QED BY <1>1, NextKeepsBehind, TypeCorrect, PTL DEF Spec
-------------------------------------------------------------------------------
(* The account of uses                                                     *)
(*                                                                         *)
(* CountersMatchHolders is not inductive: it has to be known that an order *)
(* whose use is given back holds one, which depends on where its checkout  *)
(* is and on what the updates under way have read of it.                   *)

\* Updates of an order do not overlap, a CANCELLED order stays so, nobody cancels an
\* order before its checkout has ended and no statement fails.  Crashes and renames
\* are allowed, and so is every other update of an order that is not paid yet.
Orderly ==
  Environment \cap {"concurrentUpdates", "leavesCancelled", "cancelsEarly", "storageFails"} = {}

\* What the phase of o's checkout says of its row, its use and its rollback.
PlainOrder(o) ==
  /\ checkout[o] \in {"idle", "validated", "cleared"} => o \notin took
  /\ checkout[o] \in {"reserved", "saved", "undoDelete", "undo", "done"} /\ o \in CouponOrder
       => o \in took
  /\ checkout[o] \in {"idle", "validated", "cleared", "reserved", "undo", "rejected"}
       => status[o] = NoOrder
  /\ checkout[o] \in {"saved", "undoDelete", "done"} => status[o] # NoOrder
  /\ checkout[o] \in {"validated", "cleared"} => o \in CouponOrder /\ MaxPerUser # 0
  /\ checkout[o] \in {"saved", "undoDelete"} => o \in OnlineOrder
  /\ checkout[o] = "undo" => o \in CouponOrder
  /\ checkout[o] = "crashed" /\ status[o] # NoOrder =>
       o \in OnlineOrder /\ (o \in CouponOrder => o \in took)
  /\ status[o] = "CANCELLED" => checkout[o] \in {"done", "crashed"}
  /\ returned[o] # 0 =>
       /\ returned[o] = 1 /\ o \in took
       /\ checkout[o] = "rejected" \/ status[o] = "CANCELLED"

\* What an update under way knows of its order: a checkout may still be undone
\* beneath it, but not beneath one that cancels.
PlainUpdate(w) ==
  InFlight(w) =>
    LET o == update[w].order IN
    /\ checkout[o] \in {"saved", "undoDelete", "undo", "done", "rejected", "crashed"}
    /\ \A v \in Request : InFlight(v) /\ update[v].order = o => v = w
    /\ returned[o] # 0 => update[w].seen = "CANCELLED" \/ checkout[o] = "rejected"
    /\ update[w].seen = "CANCELLED" => Becomes(w) = "CANCELLED"
    /\ Becomes(w) = "CANCELLED" =>
         /\ checkout[o] \in {"done", "crashed"} /\ status[o] # NoOrder
         /\ update[w].at = "written" => status[o] = "CANCELLED"

OrdersPlain == \A o \in Order : PlainOrder(o)
UpdatesPlain == \A w \in Request : PlainUpdate(w)

CountersWithinCaps ==
  /\ MaxUses # NoCap => used <= MaxUses
  /\ MaxPerUser # NoCap => \A u \in User : UsageCount(usedBy[u]) <= MaxPerUser

IndInv == TypeOK /\ CountersMatchHolders /\ CountersWithinCaps /\ OrdersPlain /\ UpdatesPlain

LEMMA InitIndInv == Init => IndInv
<1> SUFFICES ASSUME Init PROVE IndInv
  OBVIOUS
<1>1. TypeOK
  BY InitTyped DEF Typed
<1>2. Holders = {} /\ \A u \in User : HoldersOf(u) = {}
  BY DEF Init, Holders, HoldersOf
<1>3. CountersMatchHolders
  BY <1>2, FS_EmptySet DEF Init, CountersMatchHolders, UsageCount
<1>4. CountersWithinCaps
  BY CapAssumption DEF Init, CountersWithinCaps, UsageCount
<1>5. OrdersPlain
  BY StatusFacts DEF Init, OrdersPlain, PlainOrder
<1>6. UpdatesPlain
  BY DEF Init, UpdatesPlain, PlainUpdate, InFlight, NoUpdate
<1> QED BY <1>1, <1>3, <1>4, <1>5, <1>6 DEF IndInv

-------------------------------------------------------------------------------
(* Orders stay plain *)

\* An order a step does not touch stays as it was.
LEMMA UntouchedOrder ==
  ASSUME NEW o \in Order, PlainOrder(o),
         checkout'[o] = checkout[o], status'[o] = status[o], returned'[o] = returned[o],
         o \in took' <=> o \in took
  PROVE  PlainOrder(o)'
BY DEF PlainOrder

\* One action of createOrder, or a crash in it.
LEMMA CheckoutOrder ==
  ASSUME TypeOK, OrdersPlain, Orderly, NEW o \in Order, Checkout(o) \/ CrashCheckout(o)
  PROVE  OrdersPlain'
<1>1. ASSUME NEW p \in Order, p # o PROVE PlainOrder(p)'
  <2>1. /\ checkout'[p] = checkout[p] /\ status'[p] = status[p]
        /\ returned'[p] = returned[p] /\ (p \in took' <=> p \in took)
    BY <1>1 DEF Checkout, ValidateCoupon, CheckActive, Reserve, SaveOrder, CreatePayment,
                DeleteOrder, Undo, CrashCheckout, Goto, GiveUp, DecrementUsage, KeepUsage,
                storage, TypeOK
  <2> QED BY <2>1, UntouchedOrder DEF OrdersPlain
<1>2. PlainOrder(o)'
  <2>0. PlainOrder(o)
    BY DEF OrdersPlain
  <2> USE DEF PlainOrder
  <2> USE StatusFacts
  <2>1. CASE ValidateCoupon(o)
    <3>1. o \in CouponOrder /\ checkout'[o] = "validated" => MaxPerUser # 0
      BY <2>1, CountFacts, OrderAssumption DEF ValidateCoupon, Goto, TypeOK, Below, NoCap
    <3> QED BY <2>0, <2>1, <3>1 DEF ValidateCoupon, Goto, storage, TypeOK
  <2>2. CASE CheckActive(o)
    BY <2>0, <2>2 DEF CheckActive, Goto, storage, TypeOK
  <2>3. CASE Reserve(o)
    BY <2>0, <2>3 DEF Reserve, Goto, TypeOK, Orderly, May
  <2>4. CASE SaveOrder(o)
    BY <2>0, <2>4, StatusFacts DEF SaveOrder, GiveUp, Goto, TypeOK, Orderly, May
  <2>5. CASE CreatePayment(o)
    BY <2>0, <2>5 DEF CreatePayment, Goto, storage, TypeOK
  <2>6. CASE DeleteOrder(o)
    BY <2>0, <2>6 DEF DeleteOrder, GiveUp, Goto, TypeOK, Orderly, May
  <2>7. CASE Undo(o)
    BY <2>0, <2>7 DEF Undo, DecrementUsage, KeepUsage, Goto, TypeOK
  <2>8. CASE CrashCheckout(o)
    BY <2>0, <2>8 DEF CrashCheckout, Goto, storage, TypeOK, CheckoutPhase
  <2> QED BY <2>1, <2>2, <2>3, <2>4, <2>5, <2>6, <2>7, <2>8 DEF Checkout
<1> QED BY <1>1, <1>2 DEF OrdersPlain

LEMMA NextOrders == IndInv /\ Orderly /\ [Next]_vars => OrdersPlain'
<1> SUFFICES ASSUME IndInv, Orderly, [Next]_vars PROVE OrdersPlain'
  OBVIOUS
<1>a. TypeOK /\ OrdersPlain /\ UpdatesPlain
  BY DEF IndInv
<1>1. ASSUME UNCHANGED <<status, checkout, took, returned>> PROVE OrdersPlain'
  BY <1>1, <1>a DEF OrdersPlain, PlainOrder
<1>2. ASSUME NEW w \in Request, WriteOrder(w) PROVE OrdersPlain'
  <2>0. PICK o \in Order : o = update[w].order
    BY <1>2, <1>a, InFlightCall DEF WriteOrder
  <2>1. Becomes(w) \in Status /\ InFlight(w)
    BY <1>2, <1>a, InFlightCall DEF WriteOrder, InFlight
  <2>2. /\ Becomes(w) = "CANCELLED" => checkout[o] \in {"done", "crashed"}
        /\ returned[o] # 0 => Becomes(w) = "CANCELLED" \/ checkout[o] = "rejected"
    BY <2>0, <2>1, <1>a DEF UpdatesPlain, PlainUpdate
  <2>3. /\ status'[o] = status[o] \/ (status[o] # NoOrder /\ status'[o] = Becomes(w))
        /\ \A p \in Order \ {o} : status'[p] = status[p]
    BY <1>2, <2>0, <1>a, StoredIs DEF WriteOrder
  <2>4. PlainOrder(o)'
    <3>1. PlainOrder(o)
      BY <1>a DEF OrdersPlain
    <3>2. CASE status'[o] = status[o]
      BY <1>2, <3>1, <3>2, UntouchedOrder DEF WriteOrder
    <3>3. CASE status[o] # NoOrder /\ status'[o] = Becomes(w)
      BY <1>2, <2>1, <2>2, <3>1, <3>3, StatusFacts DEF WriteOrder, PlainOrder
    <3> QED BY <2>3, <3>2, <3>3
  <2>5. ASSUME NEW p \in Order \ {o} PROVE PlainOrder(p)'
    BY <1>2, <2>3, <1>a, UntouchedOrder DEF WriteOrder, OrdersPlain
  <2> QED BY <2>4, <2>5 DEF OrdersPlain
<1>3. ASSUME NEW w \in Request, RollBackCoupon(w) PROVE OrdersPlain'
  <2>0. PICK o \in Order : o = update[w].order
    BY <1>3, <1>a, InFlightCall DEF RollBackCoupon
  <2>1. InFlight(w)
    BY <1>3 DEF RollBackCoupon, InFlight
  <2>2. CASE UNCHANGED returned
    BY <1>1, <1>3, <2>2 DEF RollBackCoupon
  <2>3. CASE RollsBack(w) /\ DecrementUsage(o)
    <3>1. /\ checkout[o] \in {"done", "crashed"} /\ status[o] = "CANCELLED"
          /\ returned[o] = 0 /\ o \in CouponOrder
      BY <1>3, <2>0, <2>1, <2>3, <1>a DEF RollBackCoupon, RollsBack, UpdatesPlain, PlainUpdate, TypeOK
    <3>2. returned'[o] = 1 /\ \A p \in Order \ {o} : returned'[p] = returned[p]
      BY <2>1, <2>3, <3>1, <1>a DEF DecrementUsage, TypeOK
    <3>3. PlainOrder(o)'
      BY <1>3, <2>1, <3>1, <3>2, <1>a, StatusFacts DEF RollBackCoupon, OrdersPlain, PlainOrder
    <3>4. ASSUME NEW p \in Order \ {o} PROVE PlainOrder(p)'
      BY <1>3, <3>2, <1>a, UntouchedOrder DEF RollBackCoupon, OrdersPlain
    <3> QED BY <3>3, <3>4 DEF OrdersPlain
  <2> QED BY <1>3, <2>0, <2>2, <2>3 DEF RollBackCoupon, KeepUsage
<1>4. ASSUME CancelStaleTestOrders PROVE OrdersPlain'
  <2>1. \A o \in Order : \/ status'[o] = status[o]
                         \/ status'[o] = "CANCELLED" /\ status[o] # NoOrder /\ CheckoutOver(o)
    BY <1>4, StatusFacts DEF CancelStaleTestOrders, Stale
  <2> QED BY <1>4, <2>1, <1>a, StatusFacts
          DEF CancelStaleTestOrders, CheckoutOver, OrdersPlain, PlainOrder
<1> QED
  BY <1>1, <1>2, <1>3, <1>4, <1>a, CheckoutOrder
  DEF Next, vars, storage, ReadOrder, UpdateOrder, RenameCoupon
-------------------------------------------------------------------------------
(* What updates know stays true *)

\* An update that a step does not touch, of an order whose facts do not change.
LEMMA UntouchedUpdate ==
  ASSUME NEW w \in Request, PlainUpdate(w), update' = update,
         InFlight(w) =>
           LET o == update[w].order IN
           /\ checkout'[o] = checkout[o]
           /\ status'[o] = status[o] \/ status'[o] = "CANCELLED"
           /\ returned'[o] = returned[o]
  PROVE  PlainUpdate(w)'
BY StatusFacts DEF PlainUpdate, InFlight, Becomes

\* An update whose order's checkout goes on, or is undone, beneath it.
LEMMA CheckoutBeneath ==
  ASSUME TypeOK, OrdersPlain, Orderly, NEW w \in Request, PlainUpdate(w), InFlight(w),
         NEW o \in Order, o = update[w].order, Checkout(o) \/ CrashCheckout(o)
  PROVE  PlainUpdate(w)'
<1>1. /\ checkout[o] \in {"saved", "undoDelete", "undo"} /\ Becomes(w) # "CANCELLED"
      /\ update' = update
  BY DEF Checkout, ValidateCoupon, CheckActive, Reserve, SaveOrder, CreatePayment, DeleteOrder,
         Undo, CrashCheckout, PlainUpdate
<1>2. returned[o] = 0
  BY <1>1, StatusFacts DEF OrdersPlain, PlainOrder
<1>3. /\ checkout'[o] \in {"saved", "undoDelete", "undo", "done", "rejected", "crashed"}
      /\ returned'[o] # 0 => checkout'[o] = "rejected"
  <2>1. CASE CreatePayment(o) \/ DeleteOrder(o) \/ CrashCheckout(o)
    BY <2>1, <1>2 DEF CreatePayment, DeleteOrder, CrashCheckout, GiveUp, Goto, TypeOK
  <2>2. CASE Undo(o)
    BY <2>2 DEF Undo, Goto, TypeOK
  <2> QED BY <1>1, <2>1, <2>2
          DEF Checkout, ValidateCoupon, CheckActive, Reserve, SaveOrder
<1> QED BY <1>1, <1>3 DEF PlainUpdate, InFlight, Becomes

LEMMA NextUpdates == IndInv /\ Orderly /\ [Next]_vars => UpdatesPlain'
<1> SUFFICES ASSUME IndInv, Orderly, [Next]_vars PROVE UpdatesPlain'
  OBVIOUS
<1>a. TypeOK /\ OrdersPlain /\ UpdatesPlain
  BY DEF IndInv
<1>b. \A w \in Request : InFlight(w) => update[w].order \in Order
  BY <1>a, InFlightCall DEF InFlight
<1>1. ASSUME UNCHANGED <<status, checkout, update, returned>> PROVE UpdatesPlain'
  BY <1>1, <1>a, <1>b, UntouchedUpdate DEF UpdatesPlain
<1>2. ASSUME NEW o \in Order, Checkout(o) \/ CrashCheckout(o) PROVE UpdatesPlain'
  <2>1. update' = update
    BY <1>2 DEF Checkout, ValidateCoupon, CheckActive, Reserve, SaveOrder, CreatePayment,
                DeleteOrder, Undo, CrashCheckout
  <2>2. \A p \in Order \ {o} : /\ checkout'[p] = checkout[p] /\ status'[p] = status[p]
                               /\ returned'[p] = returned[p]
    BY <1>2, <1>a DEF Checkout, ValidateCoupon, CheckActive, Reserve, SaveOrder, CreatePayment,
                      DeleteOrder, Undo, CrashCheckout, Goto, GiveUp, DecrementUsage, KeepUsage,
                      storage, TypeOK
  <2>3. ASSUME NEW w \in Request PROVE PlainUpdate(w)'
    <3>1. CASE InFlight(w) /\ update[w].order = o
      BY <1>2, <1>a, <3>1, CheckoutBeneath DEF UpdatesPlain
    <3>2. CASE ~(InFlight(w) /\ update[w].order = o)
      BY <2>1, <2>2, <3>2, <1>a, <1>b, UntouchedUpdate DEF UpdatesPlain
    <3> QED BY <3>1, <3>2
  <2> QED BY <2>3 DEF UpdatesPlain
<1>3. ASSUME NEW w \in Request, ReadOrder(w) PROVE UpdatesPlain'
  <2>1. PICK o \in Order, asked \in StaffStatus \cup {KeepStatus} :
          /\ Updatable(o)
          /\ \A v \in Request : InFlight(v) => update[v].order # o
          /\ status[o] = "CANCELLED" => asked \in {"CANCELLED", KeepStatus}
          /\ asked = "CANCELLED" => CheckoutOver(o)
          /\ update' = [update EXCEPT ![w] =
               [at |-> "read", order |-> o, asked |-> asked, seen |-> status[o]]]
    BY <1>3 DEF ReadOrder, Orderly, May
  <2>2. /\ checkout[o] \in {"saved", "undoDelete", "done", "crashed"} /\ status[o] # NoOrder
        /\ CheckoutOver(o) => checkout[o] \in {"done", "crashed"}
        /\ status[o] = "CANCELLED" => checkout[o] \in {"done", "crashed"}
    BY <2>1, <1>a DEF Updatable, CheckoutOver, CheckoutPhase, OrdersPlain, PlainOrder, TypeOK
  <2>3. returned[o] # 0 => status[o] = "CANCELLED"
    BY <2>2, <1>a DEF OrdersPlain, PlainOrder
  <2>4. /\ update'[w] = [at |-> "read", order |-> o, asked |-> asked, seen |-> status[o]]
        /\ \A v \in Request \ {w} : update'[v] = update[v]
    BY <2>1, <1>a DEF TypeOK
  <2>5. PlainUpdate(w)'
    BY <1>3, <2>1, <2>2, <2>3, <2>4 DEF ReadOrder, storage, PlainUpdate, InFlight, Becomes
  <2>6. ASSUME NEW v \in Request \ {w} PROVE PlainUpdate(v)'
    BY <1>3, <2>1, <2>4, <1>a DEF ReadOrder, storage, UpdatesPlain, PlainUpdate, InFlight, Becomes
  <2> QED BY <2>5, <2>6 DEF UpdatesPlain
<1>4. ASSUME NEW w \in Request, WriteOrder(w) PROVE UpdatesPlain'
  <2>1. PICK o \in Order : o = update[w].order
    BY <1>4, <1>a, InFlightCall DEF WriteOrder
  <2>2. PICK phase \in {"written", "done"} :
          /\ update' = [update EXCEPT ![w].at = phase]
          /\ phase = "written" => status' = Stored(w)
          /\ phase = "done" => UNCHANGED status
    BY <1>4, <2>1 DEF WriteOrder, Orderly, May
  <2>3. /\ update'[w].at = phase /\ update'[w].order = o /\ update'[w].asked = update[w].asked
        /\ update'[w].seen = update[w].seen
        /\ \A v \in Request \ {w} : update'[v] = update[v]
    BY <1>4, <2>1, <2>2, <1>a, InFlightCall DEF WriteOrder, UpdateCall, TypeOK
  <2>4. Becomes(w)' = Becomes(w)
    BY <2>3 DEF Becomes
  <2>5. /\ phase = "written" /\ status[o] # NoOrder => status'[o] = Becomes(w)
        /\ \A p \in Order \ {o} : status'[p] = status[p]
    BY <2>1, <2>2, <1>a, StoredIs
  <2>6. InFlight(w) /\ \A v \in Request \ {w} : InFlight(v) => update[v].order # o
    BY <1>4, <2>1, <1>a DEF WriteOrder, InFlight, UpdatesPlain, PlainUpdate
  <2>7. PlainUpdate(w)'
    <3>1. phase = "done" => ~InFlight(w)'
      BY <2>3 DEF InFlight
    <3>2. UNCHANGED <<checkout, returned>>
      BY <1>4 DEF WriteOrder
    <3> QED BY <2>1, <2>3, <2>4, <2>5, <2>6, <3>1, <3>2, <1>a, StatusFacts
            DEF UpdatesPlain, PlainUpdate, InFlight
  <2>8. ASSUME NEW v \in Request \ {w} PROVE PlainUpdate(v)'
    BY <1>4, <2>3, <2>5, <2>6, <1>a, <1>b
    DEF WriteOrder, UpdatesPlain, PlainUpdate, InFlight, Becomes
  <2> QED BY <2>7, <2>8 DEF UpdatesPlain
<1>5. ASSUME NEW w \in Request, RollBackCoupon(w) PROVE UpdatesPlain'
  <2>1. PICK o \in Order : o = update[w].order
    BY <1>5, <1>a, InFlightCall DEF RollBackCoupon
  <2>2. /\ update'[w].at = "done" /\ \A v \in Request \ {w} : update'[v] = update[v]
    BY <1>5, <1>a, InFlightCall DEF RollBackCoupon, UpdateCall, TypeOK
  <2>3. \A p \in Order \ {o} : returned'[p] = returned[p]
    BY <1>5, <2>1, <1>a DEF RollBackCoupon, DecrementUsage, KeepUsage, TypeOK
  <2>4. \A v \in Request \ {w} : InFlight(v) => update[v].order # o
    BY <1>5, <2>1, <1>a DEF RollBackCoupon, InFlight, UpdatesPlain, PlainUpdate
  <2>5. PlainUpdate(w)'
    BY <2>2 DEF PlainUpdate, InFlight
  <2>6. ASSUME NEW v \in Request \ {w} PROVE PlainUpdate(v)'
    BY <1>5, <2>2, <2>3, <2>4, <1>a, <1>b
    DEF RollBackCoupon, UpdatesPlain, PlainUpdate, InFlight, Becomes
  <2> QED BY <2>5, <2>6 DEF UpdatesPlain
<1>6. ASSUME CancelStaleTestOrders PROVE UpdatesPlain'
  <2>1. \A o \in Order : status'[o] = status[o] \/ status'[o] = "CANCELLED"
    BY <1>6 DEF CancelStaleTestOrders
  <2> QED BY <1>6, <2>1, <1>a, <1>b, UntouchedUpdate DEF CancelStaleTestOrders, UpdatesPlain
<1> QED
  BY <1>1, <1>2, <1>3, <1>4, <1>5, <1>6
  DEF Next, vars, storage, UpdateOrder, RenameCoupon

-------------------------------------------------------------------------------
(* Counters and caps *)

\* The holders of a use are finitely many, and so are a customer's.
LEMMA HoldersFinite ==
  ASSUME TypeOK
  PROVE  /\ IsFiniteSet(Holders) /\ Cardinality(Holders) \in Nat
         /\ \A u : IsFiniteSet(HoldersOf(u)) /\ Cardinality(HoldersOf(u)) \in Nat
<1>1. Holders \subseteq Order /\ \A u : HoldersOf(u) \subseteq Order
  BY OrderAssumption DEF TypeOK, Holders, HoldersOf
<1>2. IsFiniteSet(Holders) /\ \A u : IsFiniteSet(HoldersOf(u))
  BY <1>1, OrderAssumption, FS_Subset
<1> QED BY <1>2, FS_CardinalityType

\* o takes a use.
LEMMA HolderJoins ==
  ASSUME TypeOK, CountersMatchHolders, NEW o \in Order, o \notin Holders,
         Holders' = Holders \cup {o},
         used' = used + 1, usedBy' = [usedBy EXCEPT ![Owner[o]] = Bumped(@)]
  PROVE  CountersMatchHolders'
<1>1. PICK u \in User : u = Owner[o]
  BY OrderAssumption
<1>2. /\ HoldersOf(u)' = HoldersOf(u) \cup {o} /\ o \notin HoldersOf(u)
      /\ \A v \in User \ {u} : HoldersOf(v)' = HoldersOf(v)
  BY <1>1 DEF HoldersOf, OrdersOf
<1>3. Cardinality(Holders') = Cardinality(Holders) + 1
  BY HoldersFinite, FS_AddElement
<1>4. Cardinality(HoldersOf(u)') = Cardinality(HoldersOf(u)) + 1
  BY <1>2, HoldersFinite, FS_AddElement
<1>5. UsageCount(usedBy'[u]) = UsageCount(usedBy[u]) + 1
      /\ \A v \in User \ {u} : usedBy'[v] = usedBy[v]
  BY <1>1, CountFacts, RowFacts DEF TypeOK
<1> QED BY <1>2, <1>3, <1>4, <1>5 DEF CountersMatchHolders

\* o gives its use back.
LEMMA HolderLeaves ==
  ASSUME TypeOK, CountersMatchHolders, NEW o \in Holders, DecrementUsage(o), UNCHANGED took
  PROVE  CountersMatchHolders' /\ Holders' = Holders \ {o}
<1>0. o \in Order
  BY OrderAssumption DEF TypeOK, Holders
<1>1. PICK u \in User : u = Owner[o]
  BY <1>0, OrderAssumption
<1>2. returned'[o] # 0 /\ \A p \in Order \ {o} : returned'[p] = returned[p]
  BY <1>0 DEF DecrementUsage, TypeOK, Holders
<1>3. Holders' = Holders \ {o}
  BY <1>2, OrderAssumption DEF Holders, TypeOK
<1>4. /\ HoldersOf(u)' = HoldersOf(u) \ {o} /\ o \in HoldersOf(u)
      /\ \A v \in User \ {u} : HoldersOf(v)' = HoldersOf(v)
  BY <1>0, <1>1, <1>3 DEF HoldersOf, OrdersOf
<1>5. Cardinality(Holders') = Cardinality(Holders) - 1
  BY <1>3, HoldersFinite, FS_RemoveElement
<1>6. Cardinality(HoldersOf(u)') = Cardinality(HoldersOf(u)) - 1
  BY <1>4, HoldersFinite, FS_RemoveElement
<1>7. Cardinality(Holders) # 0 /\ Cardinality(HoldersOf(u)) # 0
  BY <1>4, HoldersFinite, FS_EmptySet
<1>8. used \in Nat /\ used # 0 /\ UsageCount(usedBy[u]) # 0
  BY <1>7 DEF CountersMatchHolders, TypeOK
<1>9. used' = used - 1
  BY <1>8 DEF DecrementUsage, Dropped
<1>10. UsageCount(usedBy'[u]) = UsageCount(usedBy[u]) - 1
       /\ \A v \in User \ {u} : usedBy'[v] = usedBy[v]
  BY <1>1, <1>8, CountFacts, RowFacts DEF DecrementUsage, TypeOK
<1> QED BY <1>3, <1>4, <1>5, <1>6, <1>9, <1>10 DEF CountersMatchHolders

\* What a step does to the uses held: nothing, or one more or one less of them,
\* with the counters.
LEMMA UsesStep ==
  ASSUME IndInv, Orderly, [Next]_vars
  PROVE  \/ UNCHANGED <<used, usedBy, took, returned>>
         \/ \E o \in CouponOrder : o \notin Holders /\ Reserve(o) /\ CanRedeem(o)
         \/ \E o \in Holders : DecrementUsage(o) /\ UNCHANGED took
<1>a. TypeOK /\ OrdersPlain /\ UpdatesPlain
  BY DEF IndInv
<1>1. ASSUME NEW o \in Order, Reserve(o), CanRedeem(o)
      PROVE  o \in CouponOrder /\ o \notin Holders
  BY <1>1, <1>a DEF Reserve, OrdersPlain, PlainOrder, Holders
<1>2. ASSUME NEW o \in Order, Undo(o) PROVE o \in Holders /\ UNCHANGED took
  BY <1>2, <1>a DEF Undo, OrdersPlain, PlainOrder, Holders
<1>3. ASSUME NEW w \in Request, RollBackCoupon(w), RollsBack(w)
      PROVE  update[w].order \in Holders /\ UNCHANGED took
  <2>1. PICK o \in Order : o = update[w].order
    BY <1>3, <1>a, InFlightCall DEF RollBackCoupon
  <2>2. /\ checkout[o] \in {"done", "crashed"} /\ status[o] = "CANCELLED"
        /\ returned[o] = 0 /\ o \in CouponOrder
    BY <1>3, <2>1, <1>a DEF RollBackCoupon, RollsBack, InFlight, UpdatesPlain, PlainUpdate
  <2> QED BY <1>3, <2>1, <2>2, <1>a, StatusFacts DEF RollBackCoupon, OrdersPlain, PlainOrder, Holders
<1>4. ASSUME NEW o \in Order, Reserve(o), ~CanRedeem(o)
      PROVE  UNCHANGED <<used, usedBy, took, returned>>
  BY <1>4 DEF Reserve
<1>5. ASSUME NEW o \in Order, Checkout(o) \/ CrashCheckout(o)
      PROVE  Reserve(o) \/ Undo(o) \/ UNCHANGED <<used, usedBy, took, returned>>
  BY <1>5 DEF Checkout, ValidateCoupon, CheckActive, SaveOrder, CreatePayment, DeleteOrder,
              CrashCheckout, storage
<1>6. ASSUME NEW o \in Order, Undo(o)
      PROVE  \/ DecrementUsage(o)
             \/ UNCHANGED <<used, usedBy, took, returned>>
  BY <1>6 DEF Undo, KeepUsage
<1>7. ASSUME NEW w \in Request, RollBackCoupon(w)
      PROVE  \/ RollsBack(w) /\ DecrementUsage(update[w].order)
             \/ UNCHANGED <<used, usedBy, took, returned>>
  BY <1>7 DEF RollBackCoupon, KeepUsage
<1> QED
  BY <1>1, <1>2, <1>3, <1>4, <1>5, <1>6, <1>7
  DEF Next, vars, storage, ReadOrder, UpdateOrder, WriteOrder, CancelStaleTestOrders,
      RenameCoupon

LEMMA ReserveAddsHolder ==
  ASSUME TypeOK, OrdersPlain, Orderly, NEW o \in CouponOrder, Reserve(o), CanRedeem(o)
  PROVE  o \notin Holders /\ Holders' = Holders \cup {o}
<1>1. o \notin took /\ returned[o] = 0
  BY OrderAssumption DEF Reserve, OrdersPlain, PlainOrder
<1> QED BY <1>1 DEF Reserve, Holders, Orderly, May

LEMMA NextCounters == IndInv /\ Orderly /\ [Next]_vars => CountersMatchHolders'
<1> SUFFICES ASSUME IndInv, Orderly, [Next]_vars PROVE CountersMatchHolders'
  OBVIOUS
<1>a. TypeOK /\ CountersMatchHolders /\ OrdersPlain
  BY DEF IndInv
<1>1. CASE UNCHANGED <<used, usedBy, took, returned>>
  BY <1>1, <1>a DEF CountersMatchHolders, Holders, HoldersOf
<1>2. ASSUME NEW o \in CouponOrder, Reserve(o), CanRedeem(o) PROVE CountersMatchHolders'
  BY <1>2, <1>a, ReserveAddsHolder, HolderJoins, OrderAssumption DEF Reserve, Orderly, May
<1>3. ASSUME NEW o \in Holders, DecrementUsage(o), UNCHANGED took PROVE CountersMatchHolders'
  BY <1>3, <1>a, HolderLeaves
<1> QED BY <1>1, <1>2, <1>3, UsesStep

\* A redemption finds both counters below the caps.
LEMMA RedeemsBelow ==
  ASSUME IndInv, NEW o \in CouponOrder, Reserve(o), CanRedeem(o)
  PROVE  Below(used, MaxUses) /\ Below(UsageCount(usedBy[Owner[o]]), MaxPerUser)
<1>1. o \in Order /\ Owner[o] \in User /\ MaxPerUser # 0
  BY OrderAssumption DEF IndInv, OrdersPlain, PlainOrder, Reserve
<1>2. usedBy[Owner[o]] \in Nat \cup {NoRow}
  BY <1>1 DEF IndInv, TypeOK
<1>3. Below(UsageCount(usedBy[Owner[o]]), MaxPerUser)
  BY <1>1, <1>2, CapAssumption DEF CanRedeem, UserRedeemable, UsageCount, Below, NoCap, NoRow
<1> QED BY <1>3 DEF CanRedeem

LEMMA NextCaps == IndInv /\ Orderly /\ [Next]_vars => CountersWithinCaps'
<1> SUFFICES ASSUME IndInv, Orderly, [Next]_vars PROVE CountersWithinCaps'
  OBVIOUS
<1>a. TypeOK /\ CountersWithinCaps
  BY DEF IndInv
<1>1. CASE UNCHANGED <<used, usedBy, took, returned>>
  BY <1>1, <1>a DEF CountersWithinCaps
<1>2. ASSUME NEW o \in CouponOrder, Reserve(o), CanRedeem(o) PROVE CountersWithinCaps'
  <2>1. PICK u \in User : u = Owner[o]
    BY OrderAssumption
  <2>2. Below(used, MaxUses) /\ Below(UsageCount(usedBy[u]), MaxPerUser)
    BY <1>2, <2>1, RedeemsBelow
  <2>3. used \in Nat /\ used' = used + 1 /\ usedBy' = [usedBy EXCEPT ![u] = Bumped(@)]
    BY <1>2, <1>a, <2>1 DEF Reserve, TypeOK, Orderly, May
  <2>4. /\ UsageCount(usedBy[u]) \in Nat /\ UsageCount(usedBy'[u]) = UsageCount(usedBy[u]) + 1
        /\ \A v \in User \ {u} : usedBy'[v] = usedBy[v]
    BY <1>a, <2>3, CountFacts, RowFacts DEF TypeOK
  <2>5. MaxUses # NoCap => used' <= MaxUses
    BY <2>2, <2>3, CapAssumption DEF Below
  <2>6. MaxPerUser # NoCap => UsageCount(usedBy'[u]) <= MaxPerUser
    BY <2>2, <2>4, CapAssumption DEF Below
  <2> QED BY <1>a, <2>4, <2>5, <2>6 DEF CountersWithinCaps
<1>3. ASSUME NEW o \in Holders, DecrementUsage(o) PROVE CountersWithinCaps'
  <2>1. PICK u \in User : u = Owner[o]
    BY <1>a, OrderAssumption DEF Holders, TypeOK
  <2>2. used \in Nat /\ used' \in {used, used - 1} /\ usedBy' = [usedBy EXCEPT ![u] = Dropped(@)]
    BY <1>3, <1>a, <2>1 DEF DecrementUsage, Dropped, TypeOK
  <2>3. /\ UsageCount(usedBy[u]) \in Nat
        /\ UsageCount(usedBy'[u]) \in {UsageCount(usedBy[u]), UsageCount(usedBy[u]) - 1}
        /\ \A v \in User \ {u} : usedBy'[v] = usedBy[v]
    BY <1>a, <2>2, CountFacts, RowFacts DEF TypeOK
  <2>4. MaxUses # NoCap => used' <= MaxUses
    BY <1>a, <2>2, CapAssumption DEF CountersWithinCaps
  <2>5. MaxPerUser # NoCap => UsageCount(usedBy'[u]) <= MaxPerUser
    BY <1>a, <2>3, CapAssumption DEF CountersWithinCaps
  <2> QED BY <1>a, <2>3, <2>4, <2>5 DEF CountersWithinCaps
<1> QED BY <1>1, <1>2, <1>3, UsesStep

LEMMA NextIndInv == IndInv /\ Orderly /\ [Next]_vars => IndInv'
<1> SUFFICES ASSUME IndInv, Orderly, [Next]_vars PROVE IndInv'
  OBVIOUS
<1>1. Validated
  BY DEF IndInv, OrdersPlain, PlainOrder, Validated
<1>2. TypeOK'
  BY <1>1, NextTyped DEF IndInv, Typed
<1> QED BY <1>2, NextCounters, NextCaps, NextOrders, NextUpdates DEF IndInv

LEMMA Inductive ==
  ASSUME Orderly
  PROVE  Spec => []IndInv
<1>1. IndInv /\ [Next]_vars => IndInv'
  BY NextIndInv
<1> QED BY <1>1, InitIndInv, PTL DEF Spec

\* An order that enjoys the discount holds a use, so the caps bound the discounts.
LEMMA DiscountsCapped == IndInv => DiscountsWithinCaps
<1> SUFFICES ASSUME IndInv PROVE DiscountsWithinCaps
  OBVIOUS
<1>a. TypeOK /\ CountersMatchHolders /\ CountersWithinCaps /\ OrdersPlain
  BY DEF IndInv
<1> DEFINE Discounted == {o \in CouponOrder : status[o] \notin {NoOrder, "CANCELLED"}}
<1>1. Discounted \subseteq Holders
  <2> SUFFICES ASSUME NEW o \in CouponOrder, status[o] \notin {NoOrder, "CANCELLED"}
               PROVE  o \in took /\ returned[o] = 0
    BY DEF Holders
  <2> QED BY <1>a, OrderAssumption DEF OrdersPlain, PlainOrder, TypeOK, CheckoutPhase
<1>2. Cardinality(Discounted) <= used
  BY <1>1, <1>a, HoldersFinite, FS_Subset, FS_CardinalityType DEF CountersMatchHolders
<1>3. ASSUME NEW u \in User
      PROVE  Cardinality(Discounted \cap OrdersOf(u)) <= UsageCount(usedBy[u])
  <2>1. Discounted \cap OrdersOf(u) \subseteq HoldersOf(u)
    BY <1>1 DEF HoldersOf
  <2> HIDE DEF Discounted
  <2> QED BY <2>1, <1>a, HoldersFinite, FS_Subset, FS_CardinalityType DEF CountersMatchHolders
<1>4. Cardinality(Discounted) \in Nat /\ used \in Nat
  BY <1>1, <1>a, HoldersFinite, FS_Subset, FS_CardinalityType DEF TypeOK
<1>5. ASSUME NEW u \in User
      PROVE  Cardinality(Discounted \cap OrdersOf(u)) \in Nat /\ UsageCount(usedBy[u]) \in Nat
  <2>1. Discounted \cap OrdersOf(u) \subseteq Holders
    BY <1>1
  <2>2. Cardinality(Discounted \cap OrdersOf(u)) \in Nat
    BY <2>1, <1>a, HoldersFinite, FS_Subset, FS_CardinalityType
  <2> QED BY <2>2, <1>a, CountFacts
<1> HIDE DEF Discounted
<1>6. MaxUses # NoCap => Cardinality(Discounted) <= MaxUses
  BY <1>2, <1>4, <1>a, CapAssumption DEF CountersWithinCaps, NoCap
<1>7. MaxPerUser # NoCap =>
        \A u \in User : Cardinality(Discounted \cap OrdersOf(u)) <= MaxPerUser
  BY <1>3, <1>5, <1>a, CapAssumption DEF CountersWithinCaps, NoCap
<1> QED BY <1>6, <1>7 DEF DiscountsWithinCaps, Discounted

\* With updates of an order one after the other, cancelled orders left cancelled and
\* no failing statement, the counters are exact, every use comes back at most once
\* and only from a dead order, and the discounts stay within both caps, although
\* checkouts race, crash half way and lose the coupon's code to a rename.
THEOREM Accounted ==
  ASSUME Orderly
  PROVE  Spec => []UsesAccounted
<1>1. IndInv => UsesAccounted
  <2> SUFFICES ASSUME IndInv PROVE UsesAccounted
    OBVIOUS
  <2>1. ReturnedAtMostOnce /\ ReturnedOnlyIfDead
    BY DEF IndInv, OrdersPlain, PlainOrder, TypeOK, ReturnedAtMostOnce, ReturnedOnlyIfDead
  <2> QED BY <2>1, DiscountsCapped DEF IndInv, UsesAccounted
<1> QED BY <1>1, Inductive, PTL

-------------------------------------------------------------------------------
(* Refinement                                                              *)

LEMMA StepRefines == IndInv /\ Orderly /\ [Next]_vars => [Ledger!Next]_(Ledger!ledgerVars)
<1> SUFFICES ASSUME IndInv, Orderly, [Next]_vars PROVE [Ledger!Next]_(Ledger!ledgerVars)
  OBVIOUS
<1>a. TypeOK /\ CountersMatchHolders /\ OrdersPlain
  BY DEF IndInv
<1>1. CASE UNCHANGED <<used, usedBy, took, returned>>
  BY <1>1 DEF Ledger!Next, Ledger!EditCaps, Holders
<1>2. ASSUME NEW o \in CouponOrder, Reserve(o), CanRedeem(o) PROVE Ledger!Next
  <2>1. o \notin Holders /\ Holders' = Holders \cup {o}
    BY <1>2, <1>a, ReserveAddsHolder
  <2>2. o \in Order /\ Owner[o] \in User
    BY OrderAssumption
  <2>3. /\ Below(Cardinality(Holders), MaxUses)
        /\ Below(Cardinality(HoldersOf(Owner[o])), MaxPerUser)
    BY <1>2, <1>a, <2>2, RedeemsBelow DEF CountersMatchHolders
  <2>4. Ledger!HoldersOf(Owner[o]) = HoldersOf(Owner[o])
    BY <1>a, OrderAssumption DEF Ledger!HoldersOf, HoldersOf, OrdersOf, Holders, TypeOK
  <2>5. /\ Ledger!Cardinality(Holders) = Cardinality(Holders)
        /\ Ledger!Cardinality(HoldersOf(Owner[o])) = Cardinality(HoldersOf(Owner[o]))
    BY DEF Ledger!Cardinality, Cardinality
  <2>6. /\ Ledger!Below(Ledger!Cardinality(Holders), MaxUses)
        /\ Ledger!Below(Ledger!Cardinality(Ledger!HoldersOf(Owner[o])), MaxPerUser)
    BY <2>3, <2>4, <2>5 DEF Ledger!Below, Below, Ledger!NoCap, NoCap
  <2>7. Ledger!Take(o)
    BY <2>1, <2>6 DEF Ledger!Take
  <2> QED BY <2>2, <2>7 DEF Ledger!Next
<1>3. ASSUME NEW o \in Holders, DecrementUsage(o), UNCHANGED took PROVE Ledger!Next
  <2>1. o \in Order /\ Holders' = Holders \ {o}
    BY <1>3, <1>a, HolderLeaves, OrderAssumption DEF Holders, TypeOK
  <2>2. Ledger!GiveBack(o)
    BY <2>1 DEF Ledger!GiveBack
  <2> QED BY <2>1, <2>2 DEF Ledger!Next
<1> QED BY <1>1, <1>2, <1>3, UsesStep

\* In the same surroundings, createOrder with its compensations and UpdateOrder
\* implement the ledger of held uses, which has no counters to get wrong.
THEOREM ImplementsLedger ==
  ASSUME Orderly
  PROVE  Spec => LedgerSpec
<1>1. Init => Ledger!Init
  BY DEF Init, Ledger!Init, Holders
<1>2. IndInv /\ [Next]_vars => [Ledger!Next]_(Ledger!ledgerVars)
  BY StepRefines
<1> QED BY <1>1, <1>2, Inductive, PTL DEF Spec, LedgerSpec, Ledger!Spec
===============================================================================
