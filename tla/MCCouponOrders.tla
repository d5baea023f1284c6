---------------------------- MODULE MCCouponOrders ----------------------------
(***************************************************************************)
(* Instances of CouponOrders for TLC.  alice makes two checkouts, bob and  *)
(* carol one each: the per-user cap stops alice, the global cap the third  *)
(* customer.  Careful (MCNone): updates of an order do not overlap, a      *)
(* CANCELLED order stays so, nobody cancels an order before its checkout   *)
(* has ended, nothing fails and nothing crashes.  Wild: everything the     *)
(* environment may do.                                                     *)
(***************************************************************************)
EXTENDS CouponOrders, TLC

CONSTANTS alice, bob, carol, o1, o2, o3, o4, w1, w2

MCUser == {alice, bob, carol}
MCOwner == o1 :> alice @@ o2 :> alice @@ o3 :> bob @@ o4 :> carol
MCOwnerOfTwo == o1 :> alice @@ o2 :> alice @@ o3 :> bob
MCSomeOnline == {o2}
MCAll == {o1, o2, o3, o4}
MCTwoUsers == {o1, o2, o3}
MCNone == {}
MCStatus == {"CONFIRMED", "DELIVERED", "CANCELLED"}
MCReopen == {"CONFIRMED", "CANCELLED"}
MCOneTest == {o1}

MCWild == {"concurrentUpdates", "leavesCancelled", "cancelsEarly", "storageFails",
           "crashes", "renames"}
MCConcurrent == {"concurrentUpdates"}
===============================================================================
