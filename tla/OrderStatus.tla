------------------------------ MODULE OrderStatus ------------------------------
(***************************************************************************)
(* The statuses of an order, shared by every module that moves one.        *)
(* NoOrder stands for a row that does not exist: not saved yet, or deleted *)
(* after its payment could not be created.                                 *)
(***************************************************************************)
NoOrder == "NO_ORDER"

Status == {"PENDING", "CONFIRMED", "PREPARING", "AWAITING_PICK_UP", "PICKED_UP",
           "OUT_FOR_DELIVERY", "DELIVERED", "CANCELLED", "FAILED"}

\* order_status NOT IN (...) of HasActiveCouponOrder, of the partial unique
\* index one_active_coupon_order_per_user and of UpdateActiveOrdersLanguage.
Terminal == {"DELIVERED", "PICKED_UP", "CANCELLED", "FAILED"}

Active == Status \ Terminal
================================================================================
