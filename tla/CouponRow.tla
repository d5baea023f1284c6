------------------------------ MODULE CouponRow ------------------------------
(***************************************************************************)
(* The two database rows behind a coupon and what a single SQL statement   *)
(* does to them.  A coupon has one row in `coupons`                        *)
(*                                                                         *)
(*     [active, maxUses, maxPerUser, used]                                 *)
(*                                                                         *)
(* (code, discount, minimum amount and validity dates are abstracted:      *)
(* `active` stands for "is_active and inside the validity window"), and    *)
(* at most one row per user in `coupon_users`, of which only used_count is *)
(* kept; NoRow says that the row does not exist yet.                       *)
(***************************************************************************)
EXTENDS Integers

NoCap == -1     \* max_uses or max_uses_per_user is NULL
NoRow == -1     \* the user has no row in coupon_users

\* used_count is below the cap, a NULL cap being no cap.
Below(n, cap) == cap = NoCap \/ n < cap

\* The used_count a reader sees: a missing row counts as zero.
UsageCount(row) == IF row = NoRow THEN 0 ELSE row

\* WHERE is_active AND (max_uses IS NULL OR used_count < max_uses) AND ...
Redeemable(coupon) == coupon.active /\ Below(coupon.used, coupon.maxUses)

\* Mutant of UserRedeemable: the upsert of a coupon without per-user cap.
UserRedeemableAlways(row, cap) == TRUE

\* INSERT ... VALUES (.., 1) ON CONFLICT DO UPDATE ... WHERE used_count < cap:
\* the cap is looked at only when the row already exists.
UserRedeemable(row, cap) == row = NoRow \/ Below(row, cap)

Bumped(row) == IF row = NoRow THEN 1 ELSE row + 1

\* SET used_count = used_count - 1 WHERE used_count > 0
Dropped(row) == IF row > 0 THEN row - 1 ELSE row
==============================================================================
