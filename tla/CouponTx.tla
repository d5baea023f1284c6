------------------------------- MODULE CouponTx -------------------------------
(***************************************************************************)
(* The coupon repository (internal/modules/coupon/infrastructure) at the   *)
(* grain of SQL statements.  RedeemAtomic and DecrementUsageAtomic are     *)
(* transactions of several statements under READ COMMITTED: a statement    *)
(* that matches a row takes the row's lock, the lock is kept to the end of *)
(* the transaction, and a statement whose WHERE clause does not match the  *)
(* committed row neither waits nor locks.                                  *)
(*                                                                         *)
(* One coupon is modelled: transactions on different coupons share no row. *)
(* A reservation is one checkout's use of the coupon: it is redeemed once  *)
(* and, if the order falls through or is cancelled, rolled back.           *)
(***************************************************************************)
EXTENDS CouponRow, FiniteSets

CONSTANTS
  User, Reservation, Owner,
  Nobody,              \* the holder of a free lock
  MaxUsesValues,       \* caps an admin may choose
  MaxPerUserValues

ASSUME OwnerAssumption == Owner \in [Reservation -> User]
ASSUME NobodyAssumption == Nobody \notin Reservation
ASSUME CapsAssumption ==
  /\ MaxUsesValues \subseteq Nat \cup {NoCap}
  /\ MaxPerUserValues \subseteq Nat \cup {NoCap}
ASSUME FiniteAssumption == IsFiniteSet(Reservation)

VARIABLES
  coupon,       \* the committed `coupons` row
  usedBy,       \* the committed `coupon_users` rows: [User -> count or NoRow]
  couponLock,   \* who has locked the `coupons` row
  userLock,     \* who has locked each user's `coupon_users` row
  pc            \* last statement each reservation completed

vars == <<coupon, usedBy, couponLock, userLock, pc>>

Redeeming == {"couponLocked", "userBumped", "globalBumped"}
Releasing == {"userDropped", "globalDropped"}
Phase == {"idle", "held", "refused", "failed", "released", "leaked"}
           \cup Redeeming \cup Releasing

LockHolder == Reservation \cup {Nobody}

Init ==
  /\ coupon \in [active: BOOLEAN, maxUses: MaxUsesValues,
                 maxPerUser: MaxPerUserValues, used: {0}]
  /\ usedBy = [u \in User |-> NoRow]
  /\ couponLock = Nobody
  /\ userLock = [u \in User |-> Nobody]
  /\ pc = [r \in Reservation |-> "idle"]

Goto(r, phase) == pc' = [pc EXCEPT ![r] = phase]

\* Mutant of FreeLocks: an early return leaves the transaction open.
FreeCouponLock(r) ==
  /\ couponLock' = IF couponLock = r THEN Nobody ELSE couponLock
  /\ UNCHANGED userLock

\* COMMIT, ROLLBACK and a lost connection all free the locks of r.
FreeLocks(r) ==
  /\ couponLock' = IF couponLock = r THEN Nobody ELSE couponLock
  /\ userLock' = [u \in User |-> IF userLock[u] = r THEN Nobody ELSE userLock[u]]

-------------------------------------------------------------------------------
(* RedeemAtomic                                                            *)

\* Mutant of LockCoupon: the SELECT without FOR UPDATE.
ReadCoupon(r) ==
  /\ pc[r] = "idle"
  /\ Goto(r, IF Redeemable(coupon) THEN "couponLocked" ELSE "refused")
  /\ UNCHANGED <<coupon, usedBy, couponLock, userLock>>

\* SELECT ... FOR UPDATE: no matching row means "no longer available".
LockCoupon(r) ==
  /\ pc[r] = "idle"
  /\ IF Redeemable(coupon)
     THEN /\ couponLock = Nobody
          /\ couponLock' = r
          /\ Goto(r, "couponLocked")
     ELSE /\ Goto(r, "refused")
          /\ UNCHANGED couponLock
  /\ UNCHANGED <<coupon, usedBy, userLock>>

\* The per-user upsert.  ON CONFLICT locks the row before it looks at WHERE.
BumpUser(r) ==
  LET u == Owner[r] IN
  /\ pc[r] = "couponLocked"
  /\ userLock[u] = Nobody
  /\ IF UserRedeemable(usedBy[u], coupon.maxPerUser)
     THEN /\ userLock' = [userLock EXCEPT ![u] = r]
          /\ Goto(r, "userBumped")
          /\ UNCHANGED couponLock
     ELSE /\ FreeLocks(r)
          /\ Goto(r, "refused")
  /\ UNCHANGED <<coupon, usedBy>>

\* The global bump, gated by the cap a second time.
BumpGlobal(r) ==
  /\ pc[r] = "userBumped"
  /\ IF Below(coupon.used, coupon.maxUses)
     THEN Goto(r, "globalBumped") /\ UNCHANGED <<couponLock, userLock>>
     ELSE Goto(r, "refused") /\ FreeLocks(r)
  /\ UNCHANGED <<coupon, usedBy>>

\* Mutant of CommitRedeem: the global bump is left to a second transaction.
CommitUserBump(r) ==
  /\ pc[r] = "globalBumped"
  /\ usedBy' = [usedBy EXCEPT ![Owner[r]] = Bumped(@)]
  /\ FreeLocks(r)
  /\ Goto(r, "held")
  /\ UNCHANGED coupon

\* COMMIT.  When its acknowledgement is lost the caller reports a failed
\* reservation although the use is counted, and nobody will give it back.
CommitRedeem(r) ==
  /\ pc[r] = "globalBumped"
  /\ coupon' = [coupon EXCEPT !.used = @ + 1]
  /\ usedBy' = [usedBy EXCEPT ![Owner[r]] = Bumped(@)]
  /\ FreeLocks(r)
  /\ \/ Goto(r, "held")
     \/ Goto(r, "leaked")

-------------------------------------------------------------------------------
(* DecrementUsageAtomic                                                    *)

\* A use is rolled back by the checkout that took it or by a cancellation.
DropUser(r) ==
  LET u == Owner[r] IN
  /\ pc[r] = "held"
  /\ IF usedBy[u] > 0
     THEN userLock[u] = Nobody /\ userLock' = [userLock EXCEPT ![u] = r]
     ELSE UNCHANGED userLock
  /\ Goto(r, "userDropped")
  /\ UNCHANGED <<coupon, usedBy, couponLock>>

DropGlobal(r) ==
  /\ pc[r] = "userDropped"
  /\ IF coupon.used > 0
     THEN couponLock = Nobody /\ couponLock' = r
     ELSE UNCHANGED couponLock
  /\ Goto(r, "globalDropped")
  /\ UNCHANGED <<coupon, usedBy, userLock>>

\* Only the rows r locked were matched, so only they are decremented.
CommitRelease(r) ==
  LET u == Owner[r] IN
  /\ pc[r] = "globalDropped"
  /\ usedBy' = IF userLock[u] = r THEN [usedBy EXCEPT ![u] = Dropped(@)] ELSE usedBy
  /\ coupon' = IF couponLock = r THEN [coupon EXCEPT !.used = Dropped(@)] ELSE coupon
  /\ FreeLocks(r)
  /\ Goto(r, "released")

-------------------------------------------------------------------------------
(* Failures                                                                *)

InTx(r) == pc[r] \in Redeeming \cup Releasing

\* The transaction is rolled back.  A failed redemption fails the checkout; a
\* failed rollback is only logged, so the use stays counted.
RollBackTx(r) ==
  /\ InTx(r)
  /\ FreeLocks(r)
  /\ Goto(r, IF pc[r] \in Redeeming THEN "failed" ELSE "leaked")
  /\ UNCHANGED <<coupon, usedBy>>

\* The lock r is waiting for, held by another transaction.
WaitsFor(r, s) ==
  \/ pc[r] = "couponLocked" /\ userLock[Owner[r]] = s
  \/ pc[r] = "userDropped" /\ coupon.used > 0 /\ couponLock = s

Deadlocked(r) == \E s \in Reservation : WaitsFor(r, s) /\ WaitsFor(s, r)

\* Postgres aborts one transaction of a waiting cycle.
DeadlockAbort(r) == Deadlocked(r) /\ RollBackTx(r)

\* The request is cancelled, the connection drops, or a statement errors.
Fail(r) == ~Deadlocked(r) /\ RollBackTx(r)

-------------------------------------------------------------------------------
\* UPDATE coupons by an admin: every column but used_count.
UpdateCoupon ==
  /\ couponLock = Nobody
  /\ \E active \in BOOLEAN, maxUses \in MaxUsesValues, maxPerUser \in MaxPerUserValues :
       coupon' = [coupon EXCEPT !.active = active, !.maxUses = maxUses,
                                !.maxPerUser = maxPerUser]
  /\ UNCHANGED <<usedBy, couponLock, userLock, pc>>

Step(r) ==
  \/ LockCoupon(r) \/ BumpUser(r) \/ BumpGlobal(r) \/ CommitRedeem(r)
  \/ DropUser(r) \/ DropGlobal(r) \/ CommitRelease(r)
  \/ DeadlockAbort(r)

Next ==
  \/ \E r \in Reservation : Step(r) \/ Fail(r)
  \/ UpdateCoupon

Spec == Init /\ [][Next]_vars

\* A client runs its transaction to the end once it has begun, and Postgres
\* resolves deadlocks.  Nothing obliges a client to begin or to fail, nor an
\* admin to edit the coupon.
Fairness == \A r \in Reservation : WF_vars(InTx(r) /\ Step(r))

FairSpec == Spec /\ Fairness

-------------------------------------------------------------------------------
(* Properties                                                              *)

TypeOK ==
  /\ coupon \in [active: BOOLEAN, maxUses: MaxUsesValues,
                 maxPerUser: MaxPerUserValues, used: Nat]
  /\ usedBy \in [User -> Nat \cup {NoRow}]
  /\ couponLock \in LockHolder
  /\ userLock \in [User -> LockHolder]
  /\ pc \in [Reservation -> Phase]

\* The reservations whose use is counted: those not rolled back, and those
\* whose rollback, or whose commit acknowledgement, was lost.
Holders == {r \in Reservation : pc[r] \in {"held", "leaked"} \cup Releasing}

HoldersOf(u) == {r \in Holders : Owner[r] = u}

\* Who may hold which lock when, and what a redemption may rely on while it
\* holds the coupon's: the caps it checked are those it commits against, and a
\* rollback always finds both of its rows to decrement.
LockDiscipline ==
  /\ \A r \in Reservation :
       /\ couponLock = r => pc[r] \in Redeeming \cup {"globalDropped"}
       /\ pc[r] \in Redeeming => couponLock = r /\ Redeemable(coupon)
       /\ pc[r] \in {"userBumped", "globalBumped"} =>
            /\ userLock[Owner[r]] = r
            /\ UserRedeemable(usedBy[Owner[r]], coupon.maxPerUser)
       /\ pc[r] \in Releasing => userLock[Owner[r]] = r
       /\ pc[r] = "globalDropped" => couponLock = r
  /\ \A u \in User, r \in Reservation : userLock[u] = r =>
       Owner[r] = u /\ pc[r] \in {"userBumped", "globalBumped"} \cup Releasing

\* The global counter and every per-user counter say how many uses are held:
\* RedeemAtomic and DecrementUsageAtomic move the two rows together, whatever
\* the order in which transactions lock, wait, abort and commit.
CountersMatchHolders ==
  /\ coupon.used = Cardinality(Holders)
  /\ \A u \in User : UsageCount(usedBy[u]) = Cardinality(HoldersOf(u))

\* Nobody can raise a counter past the cap in force when it is raised, however
\* many checkouts race and whenever an admin lowers the cap.
WithinCaps ==
  /\ coupon'.used > coupon.used
       => (coupon'.maxUses = NoCap \/ coupon'.used <= coupon'.maxUses)
  /\ \A u \in User : usedBy'[u] > usedBy[u]
       => (coupon'.maxPerUser = NoCap \/ usedBy'[u] <= coupon'.maxPerUser)

RedeemWithinCaps == [][WithinCaps]_vars

\* Every transaction ends: a waiter gets its lock or is aborted, although
\* redemption locks coupon then user and rollback locks user then coupon.
TransactionsEnd == \A r \in Reservation : InTx(r) ~> ~InTx(r)

Caps == [active |-> coupon.active, maxUses |-> coupon.maxUses,
         maxPerUser |-> coupon.maxPerUser]

Ledger == INSTANCE CouponLedger WITH caps <- Caps, holders <- Holders

\* The transactions implement the abstract ledger of held uses.
LedgerSpec == Ledger!Spec
===============================================================================
