---------------------------- MODULE LocksProofs ----------------------------
(***************************************************************************)
(* Locks, for any number of customers, reservations, deliveries and        *)
(* connections, and any caps: the coupon counters equal the uses held, no  *)
(* redemption passes a cap, and the transactions implement CouponLedger;   *)
(* webhook deliveries of a payment run one at a time.                      *)
(***************************************************************************)
EXTENDS CouponTx, WebhookPool, FiniteSetTheorems, TLAPS

-----------------------------------------------------------------------------
(* Coupon transactions.  CountersMatchHolders is not inductive: a rollback *)
(* decrements only the rows it could lock, so it must be known that it has *)
(* locked both.  That is part of LockDiscipline, which in turn needs the   *)
(* counters (a counter that counts the use being rolled back is positive,  *)
(* so the statement matches its row).  The three conjuncts of IndInv are   *)
(* inductive together.                                                     *)

IndInv == TypeOK /\ LockDiscipline /\ CountersMatchHolders

HolderPhase == {"held", "leaked"} \cup Releasing

-------------------------------------------------------------------------------
(* Rows *)

\* What the statements do to a count, in terms of the count a reader sees.
LEMMA RowFacts ==
  ASSUME NEW row \in Nat \cup {NoRow}
  PROVE  /\ UsageCount(row) \in Nat
         /\ Bumped(row) \in Nat
         /\ UsageCount(Bumped(row)) = UsageCount(row) + 1
         /\ Dropped(row) \in Nat \cup {NoRow}
         /\ row > 0 => UsageCount(Dropped(row)) = UsageCount(row) - 1
BY DEF UsageCount, Bumped, Dropped, NoRow

\* One reservation more or less.
LEMMA HoldersFinite ==
  /\ IsFiniteSet(Holders)
  /\ \A u \in User : IsFiniteSet(HoldersOf(u))
<1>1. Holders \subseteq Reservation
  BY DEF Holders
<1>2. \A u : HoldersOf(u) \subseteq Reservation
  BY DEF Holders, HoldersOf
<1> QED BY <1>1, <1>2, FiniteAssumption, FS_Subset

\* A holder's counters are positive: they count at least its own use.
LEMMA HolderCounted ==
  ASSUME TypeOK, CountersMatchHolders, NEW r \in Holders
  PROVE  coupon.used > 0 /\ usedBy[Owner[r]] > 0
<1>1. r \in Reservation /\ Owner[r] \in User
  BY OwnerAssumption DEF Holders
<1>2. r \in HoldersOf(Owner[r])
  BY DEF HoldersOf
<1>3. Cardinality(Holders) # 0 /\ Cardinality(HoldersOf(Owner[r])) # 0
  BY <1>1, <1>2, HoldersFinite, FS_EmptySet
<1>4. Cardinality(Holders) \in Nat /\ Cardinality(HoldersOf(Owner[r])) \in Nat
  BY <1>1, HoldersFinite, FS_CardinalityType
<1>5. UsageCount(usedBy[Owner[r]]) > 0 /\ coupon.used > 0
  BY <1>1, <1>3, <1>4 DEF CountersMatchHolders
<1> QED BY <1>1, <1>5 DEF TypeOK, UsageCount, NoRow

-------------------------------------------------------------------------------
(* Types *)

LEMMA InitTypeOK == Init => TypeOK
BY DEF Init, TypeOK, LockHolder, Phase

\* FreeLocks keeps the types of the two lock variables.
LEMMA FreeLocksType ==
  ASSUME TypeOK, NEW r \in Reservation, FreeLocks(r)
  PROVE  couponLock' \in LockHolder /\ userLock' \in [User -> LockHolder]
BY DEF TypeOK, FreeLocks, LockHolder

LEMMA NextTypeOK == TypeOK /\ [Next]_vars => TypeOK'
<1> SUFFICES ASSUME TypeOK, [Next]_vars PROVE TypeOK'
  OBVIOUS
<1> USE DEF Phase, Redeeming, Releasing
<1>1. ASSUME NEW r \in Reservation, LockCoupon(r) PROVE TypeOK'
  BY <1>1 DEF LockCoupon, Goto, TypeOK, LockHolder
<1>2. ASSUME NEW r \in Reservation, BumpUser(r) PROVE TypeOK'
  <2>1. couponLock' \in LockHolder /\ userLock' \in [User -> LockHolder]
    BY <1>2, FreeLocksType DEF BumpUser, TypeOK, LockHolder
  <2> QED BY <1>2, <2>1 DEF BumpUser, Goto, TypeOK
<1>3. ASSUME NEW r \in Reservation, BumpGlobal(r) PROVE TypeOK'
  <2>1. couponLock' \in LockHolder /\ userLock' \in [User -> LockHolder]
    BY <1>3, FreeLocksType DEF BumpGlobal, TypeOK
  <2> QED BY <1>3, <2>1 DEF BumpGlobal, Goto, TypeOK
<1>4. ASSUME NEW r \in Reservation, CommitRedeem(r) PROVE TypeOK'
  <2>1. couponLock' \in LockHolder /\ userLock' \in [User -> LockHolder]
    BY <1>4, FreeLocksType DEF CommitRedeem
  <2>2. Owner[r] \in User /\ Bumped(usedBy[Owner[r]]) \in Nat
    BY OwnerAssumption, RowFacts DEF TypeOK
  <2>3. usedBy' \in [User -> Nat \cup {NoRow}]
    BY <1>4, <2>2 DEF CommitRedeem, TypeOK
  <2>4. coupon' \in [active: BOOLEAN, maxUses: MaxUsesValues,
                     maxPerUser: MaxPerUserValues, used: Nat]
    BY <1>4 DEF CommitRedeem, TypeOK
  <2> QED BY <1>4, <2>1, <2>3, <2>4 DEF CommitRedeem, Goto, TypeOK
<1>5. ASSUME NEW r \in Reservation, DropUser(r) PROVE TypeOK'
  BY <1>5 DEF DropUser, Goto, TypeOK, LockHolder
<1>6. ASSUME NEW r \in Reservation, DropGlobal(r) PROVE TypeOK'
  BY <1>6 DEF DropGlobal, Goto, TypeOK, LockHolder
<1>7. ASSUME NEW r \in Reservation, CommitRelease(r) PROVE TypeOK'
  <2>1. couponLock' \in LockHolder /\ userLock' \in [User -> LockHolder]
    BY <1>7, FreeLocksType DEF CommitRelease
  <2>2. Owner[r] \in User /\ Dropped(usedBy[Owner[r]]) \in Nat \cup {NoRow}
    BY OwnerAssumption, RowFacts DEF TypeOK
  <2>3. usedBy' \in [User -> Nat \cup {NoRow}]
    BY <1>7, <2>2 DEF CommitRelease, TypeOK
  <2>4. Dropped(coupon.used) \in Nat
    BY DEF TypeOK, Dropped
  <2>5. coupon' \in [active: BOOLEAN, maxUses: MaxUsesValues,
                     maxPerUser: MaxPerUserValues, used: Nat]
    BY <1>7, <2>4 DEF CommitRelease, TypeOK
  <2> QED BY <1>7, <2>1, <2>3, <2>5 DEF CommitRelease, Goto, TypeOK
<1>8. ASSUME NEW r \in Reservation, RollBackTx(r) PROVE TypeOK'
  <2>1. couponLock' \in LockHolder /\ userLock' \in [User -> LockHolder]
    BY <1>8, FreeLocksType DEF RollBackTx
  <2> QED BY <1>8, <2>1 DEF RollBackTx, Goto, TypeOK
<1>9. ASSUME UpdateCoupon PROVE TypeOK'
  BY <1>9 DEF UpdateCoupon, TypeOK
<1>10. ASSUME UNCHANGED vars PROVE TypeOK'
  BY <1>10 DEF vars, TypeOK
<1> QED
  BY <1>1, <1>2, <1>3, <1>4, <1>5, <1>6, <1>7, <1>8, <1>9, <1>10
  DEF Next, Step, DeadlockAbort, Fail

\* Every reachable value is of its type: whatever its transactions do, a counter
\* of the coupon tables never goes below zero (DecrementUsageAtomic).
THEOREM TypeCorrect == Spec => []TypeOK
<1>1. Init => TypeOK
  BY InitTypeOK
<1>2. TypeOK /\ [Next]_vars => TypeOK'
  BY NextTypeOK
<1> QED BY <1>1, <1>2, PTL DEF Spec
-------------------------------------------------------------------------------
(* Locks *)

LEMMA InitLocks == Init => LockDiscipline
BY NobodyAssumption DEF Init, LockDiscipline, Redeeming, Releasing

\* The end of a transaction that leaves the rows it has not locked alone: only
\* the locks and the phase of r change, and r is out of its transaction.
LEMMA EndKeepsLocks ==
  ASSUME TypeOK, LockDiscipline, NEW r \in Reservation, NEW phase,
         phase \in {"held", "refused", "failed", "released", "leaked"},
         FreeLocks(r), Goto(r, phase),
         \A s \in Reservation \ {r} :
           /\ pc[s] \in Redeeming => Redeemable(coupon')
           /\ pc[s] \in {"userBumped", "globalBumped"} =>
                UserRedeemable(usedBy'[Owner[s]], coupon'.maxPerUser)
  PROVE  LockDiscipline'
<1> USE DEF Redeeming, Releasing
<1>1. pc'[r] = phase /\ \A s \in Reservation \ {r} : pc'[s] = pc[s]
  BY DEF Goto, TypeOK
<1>2. /\ couponLock' # r
      /\ \A s \in Reservation \ {r} : couponLock' = s <=> couponLock = s
  BY NobodyAssumption DEF FreeLocks
<1>3. \A u \in User :
        /\ userLock'[u] # r
        /\ \A s \in Reservation \ {r} : userLock'[u] = s <=> userLock[u] = s
  BY NobodyAssumption DEF FreeLocks
<1>4. \A s \in Reservation : Owner[s] \in User
  BY OwnerAssumption
<1> QED BY <1>1, <1>2, <1>3, <1>4 DEF LockDiscipline

LEMMA NextLocks == IndInv /\ [Next]_vars => LockDiscipline'
<1> SUFFICES ASSUME IndInv, [Next]_vars PROVE LockDiscipline'
  OBVIOUS
<1>a. TypeOK /\ LockDiscipline /\ CountersMatchHolders
  BY DEF IndInv
<1>b. \A s \in Reservation : Owner[s] \in User /\ s # Nobody
  BY OwnerAssumption, NobodyAssumption
<1>1. ASSUME NEW r \in Reservation, LockCoupon(r) PROVE LockDiscipline'
  BY <1>1, <1>a, <1>b DEF LockCoupon, Goto, TypeOK, LockDiscipline, Redeeming, Releasing
<1>2. ASSUME NEW r \in Reservation, BumpUser(r) PROVE LockDiscipline'
  <2>1. CASE UserRedeemable(usedBy[Owner[r]], coupon.maxPerUser)
    BY <1>2, <2>1, <1>a, <1>b
    DEF BumpUser, Goto, TypeOK, LockDiscipline, Redeeming, Releasing
  <2>2. CASE ~UserRedeemable(usedBy[Owner[r]], coupon.maxPerUser)
    BY <1>2, <2>2, <1>a, EndKeepsLocks DEF BumpUser, LockDiscipline
  <2> QED BY <2>1, <2>2
<1>3. ASSUME NEW r \in Reservation, BumpGlobal(r) PROVE LockDiscipline'
  <2>1. CASE Below(coupon.used, coupon.maxUses)
    BY <1>3, <2>1, <1>a, <1>b
    DEF BumpGlobal, Goto, TypeOK, LockDiscipline, Redeeming, Releasing
  <2>2. CASE ~Below(coupon.used, coupon.maxUses)
    BY <1>3, <2>2, <1>a, EndKeepsLocks DEF BumpGlobal, LockDiscipline
  <2> QED BY <2>1, <2>2
<1>4. ASSUME NEW r \in Reservation, CommitRedeem(r) PROVE LockDiscipline'
  <2>1. couponLock = r /\ userLock[Owner[r]] = r
    BY <1>4, <1>a DEF CommitRedeem, LockDiscipline, Redeeming
  <2>2. \A s \in Reservation \ {r} : pc[s] \notin Redeeming
    BY <2>1, <1>a DEF LockDiscipline
  <2> QED BY <1>4, <2>2, <1>a, EndKeepsLocks DEF CommitRedeem, Redeeming
<1>5. ASSUME NEW r \in Reservation, DropUser(r) PROVE LockDiscipline'
  <2>1. usedBy[Owner[r]] > 0
    BY <1>5, <1>a, HolderCounted DEF DropUser, Holders
  <2> QED
    BY <1>5, <2>1, <1>a, <1>b
    DEF DropUser, Goto, TypeOK, LockDiscipline, Redeeming, Releasing
<1>6. ASSUME NEW r \in Reservation, DropGlobal(r) PROVE LockDiscipline'
  <2>1. coupon.used > 0
    BY <1>6, <1>a, HolderCounted DEF DropGlobal, Holders, Releasing
  <2> QED
    BY <1>6, <2>1, <1>a, <1>b
    DEF DropGlobal, Goto, TypeOK, LockDiscipline, Redeeming, Releasing
<1>7. ASSUME NEW r \in Reservation, CommitRelease(r) PROVE LockDiscipline'
  <2>1. couponLock = r /\ userLock[Owner[r]] = r
    BY <1>7, <1>a DEF CommitRelease, LockDiscipline, Releasing
  <2>2. \A s \in Reservation \ {r} : pc[s] \notin Redeeming
    BY <2>1, <1>a DEF LockDiscipline
  <2> QED BY <1>7, <2>2, <1>a, EndKeepsLocks DEF CommitRelease, Redeeming
<1>8. ASSUME NEW r \in Reservation, RollBackTx(r) PROVE LockDiscipline'
  BY <1>8, <1>a, EndKeepsLocks DEF RollBackTx, LockDiscipline
<1>9. ASSUME UpdateCoupon PROVE LockDiscipline'
  <2>1. \A s \in Reservation : pc[s] \notin Redeeming
    BY <1>9, <1>a, <1>b DEF UpdateCoupon, LockDiscipline
  <2> QED BY <1>9, <2>1, <1>a DEF UpdateCoupon, LockDiscipline, Redeeming
<1>10. ASSUME UNCHANGED vars PROVE LockDiscipline'
  BY <1>10, <1>a DEF vars, LockDiscipline
<1> QED
  BY <1>1, <1>2, <1>3, <1>4, <1>5, <1>6, <1>7, <1>8, <1>9, <1>10
  DEF Next, Step, DeadlockAbort, Fail
-------------------------------------------------------------------------------
(* Counters *)

LEMMA InitCounters == Init => CountersMatchHolders
<1> SUFFICES ASSUME Init PROVE CountersMatchHolders
  OBVIOUS
<1>1. Holders = {} /\ \A u \in User : HoldersOf(u) = {}
  BY DEF Init, Holders, HoldersOf, Releasing
<1> QED BY <1>1, FS_EmptySet DEF Init, CountersMatchHolders, UsageCount

\* A step that moves one reservation changes no other's being a holder.
LEMMA HoldersAfter ==
  ASSUME TypeOK, NEW r \in Reservation, NEW phase, Goto(r, phase)
  PROVE  /\ Holders' = IF phase \in HolderPhase THEN Holders \cup {r} ELSE Holders \ {r}
         /\ \A u : HoldersOf(u)' = IF Owner[r] # u THEN HoldersOf(u)
                                   ELSE IF phase \in HolderPhase THEN HoldersOf(u) \cup {r}
                                   ELSE HoldersOf(u) \ {r}
<1>1. pc'[r] = phase /\ \A s \in Reservation \ {r} : pc'[s] = pc[s]
  BY DEF Goto, TypeOK
<1>2. Holders' = IF phase \in HolderPhase THEN Holders \cup {r} ELSE Holders \ {r}
  BY <1>1 DEF Holders, HolderPhase
<1> QED BY <1>2 DEF HoldersOf

\* A step that moves r but neither counters nor r's being a holder.
LEMMA SameCounters ==
  ASSUME TypeOK, CountersMatchHolders, NEW r \in Reservation, NEW phase, Goto(r, phase),
         phase \in HolderPhase <=> pc[r] \in HolderPhase,
         coupon'.used = coupon.used, usedBy' = usedBy
  PROVE  CountersMatchHolders'
<1>1. r \in Holders <=> phase \in HolderPhase
  BY DEF Holders, HolderPhase
<1>2. Holders' = Holders /\ \A u : HoldersOf(u)' = HoldersOf(u)
  BY <1>1, HoldersAfter DEF HoldersOf
<1> QED BY <1>2 DEF CountersMatchHolders

LEMMA NextCounters == IndInv /\ [Next]_vars => CountersMatchHolders'
<1> SUFFICES ASSUME IndInv, [Next]_vars PROVE CountersMatchHolders'
  OBVIOUS
<1>a. TypeOK /\ LockDiscipline /\ CountersMatchHolders
  BY DEF IndInv
<1>b. ASSUME NEW r \in Reservation PROVE Owner[r] \in User
  BY OwnerAssumption
<1> USE DEF HolderPhase, Redeeming, Releasing
<1>1. ASSUME NEW r \in Reservation, LockCoupon(r) PROVE CountersMatchHolders'
  BY <1>1, <1>a, SameCounters DEF LockCoupon
<1>2. ASSUME NEW r \in Reservation, BumpUser(r) PROVE CountersMatchHolders'
  BY <1>2, <1>a, SameCounters DEF BumpUser
<1>3. ASSUME NEW r \in Reservation, BumpGlobal(r) PROVE CountersMatchHolders'
  BY <1>3, <1>a, SameCounters DEF BumpGlobal
<1>4. ASSUME NEW r \in Reservation, CommitRedeem(r) PROVE CountersMatchHolders'
  <2> DEFINE u == Owner[r]
  <2>1. PICK phase \in {"held", "leaked"} : Goto(r, phase)
    BY <1>4 DEF CommitRedeem
  <2>2. r \notin Holders
    BY <1>4 DEF CommitRedeem, Holders
  <2>3. Holders' = Holders \cup {r}
    BY <2>1, <1>a, HoldersAfter
  <2>4. HoldersOf(u)' = HoldersOf(u) \cup {r}
         /\ \A v \in User \ {u} : HoldersOf(v)' = HoldersOf(v)
    BY <2>1, <1>a, HoldersAfter
  <2>5. Cardinality(Holders') = Cardinality(Holders) + 1
    BY <2>2, <2>3, HoldersFinite, FS_AddElement
  <2>6. Cardinality(HoldersOf(u)') = Cardinality(HoldersOf(u)) + 1
    <3>1. r \notin HoldersOf(u)
      BY <2>2 DEF HoldersOf
    <3>2. IsFiniteSet(HoldersOf(u))
      BY <1>b, HoldersFinite
    <3>3. Cardinality(HoldersOf(u) \cup {r}) = Cardinality(HoldersOf(u)) + 1
      BY <3>1, <3>2, FS_AddElement
    <3> QED BY <2>4, <3>3
  <2>7. coupon'.used = coupon.used + 1
    BY <1>4, <1>a DEF CommitRedeem, TypeOK
  <2>8. usedBy' = [usedBy EXCEPT ![u] = Bumped(usedBy[u])]
    BY <1>4 DEF CommitRedeem
  <2>9. UsageCount(usedBy'[u]) = UsageCount(usedBy[u]) + 1
         /\ \A v \in User \ {u} : usedBy'[v] = usedBy[v]
    BY <2>8, <1>a, <1>b, RowFacts DEF TypeOK
  <2> QED BY <2>3, <2>4, <2>5, <2>6, <2>7, <2>9, <1>a DEF CountersMatchHolders
<1>5. ASSUME NEW r \in Reservation, DropUser(r) PROVE CountersMatchHolders'
  BY <1>5, <1>a, SameCounters DEF DropUser
<1>6. ASSUME NEW r \in Reservation, DropGlobal(r) PROVE CountersMatchHolders'
  BY <1>6, <1>a, SameCounters DEF DropGlobal
<1>7. ASSUME NEW r \in Reservation, CommitRelease(r) PROVE CountersMatchHolders'
  <2> DEFINE u == Owner[r]
  <2>1. couponLock = r /\ userLock[u] = r
    BY <1>7, <1>a DEF CommitRelease, LockDiscipline
  <2>2. r \in Holders
    BY <1>7 DEF CommitRelease, Holders
  <2>3. coupon.used > 0 /\ usedBy[u] > 0
    BY <2>2, <1>a, HolderCounted
  <2>4. Holders' = Holders \ {r}
    BY <1>7, <1>a, HoldersAfter DEF CommitRelease
  <2>5. HoldersOf(u)' = HoldersOf(u) \ {r}
         /\ \A v \in User \ {u} : HoldersOf(v)' = HoldersOf(v)
    BY <1>7, <1>a, HoldersAfter DEF CommitRelease
  <2>6. Cardinality(Holders') = Cardinality(Holders) - 1
    BY <2>2, <2>4, HoldersFinite, FS_RemoveElement
  <2>7. Cardinality(HoldersOf(u)') = Cardinality(HoldersOf(u)) - 1
    <3>1. r \in HoldersOf(u)
      BY <2>2 DEF HoldersOf
    <3>2. IsFiniteSet(HoldersOf(u))
      BY <1>b, HoldersFinite
    <3>3. Cardinality(HoldersOf(u) \ {r}) = Cardinality(HoldersOf(u)) - 1
      BY <3>1, <3>2, FS_RemoveElement
    <3> QED BY <2>5, <3>3
  <2>8. coupon'.used = coupon.used - 1
    BY <1>7, <2>1, <2>3, <1>a DEF CommitRelease, TypeOK, Dropped
  <2>9. usedBy' = [usedBy EXCEPT ![u] = Dropped(usedBy[u])]
    BY <1>7, <2>1 DEF CommitRelease
  <2>10. UsageCount(usedBy'[u]) = UsageCount(usedBy[u]) - 1
          /\ \A v \in User \ {u} : usedBy'[v] = usedBy[v]
    BY <2>3, <2>9, <1>a, <1>b, RowFacts DEF TypeOK
  <2> QED BY <2>4, <2>5, <2>6, <2>7, <2>8, <2>10, <1>a DEF CountersMatchHolders
<1>8. ASSUME NEW r \in Reservation, RollBackTx(r) PROVE CountersMatchHolders'
  BY <1>8, <1>a, SameCounters DEF RollBackTx, InTx
<1>9. ASSUME UpdateCoupon PROVE CountersMatchHolders'
  <2>1. coupon'.used = coupon.used /\ usedBy' = usedBy /\ pc' = pc
    BY <1>9, <1>a DEF UpdateCoupon, TypeOK
  <2> QED BY <2>1, <1>a DEF CountersMatchHolders, Holders, HoldersOf
<1>10. ASSUME UNCHANGED vars PROVE CountersMatchHolders'
  BY <1>10, <1>a DEF vars, CountersMatchHolders, Holders, HoldersOf
<1> QED
  BY <1>1, <1>2, <1>3, <1>4, <1>5, <1>6, <1>7, <1>8, <1>9, <1>10
  DEF Next, Step, DeadlockAbort, Fail

LEMMA Inductive == Spec => []IndInv
<1>1. Init => IndInv
  BY InitTypeOK, InitLocks, InitCounters DEF IndInv
<1>2. IndInv /\ [Next]_vars => IndInv'
  BY NextTypeOK, NextLocks, NextCounters DEF IndInv
<1> QED BY <1>1, <1>2, PTL DEF Spec

\* The two counters of RedeemAtomic and DecrementUsageAtomic always say how many
\* uses are held, globally and per user.
THEOREM CountersCorrect == Spec => []CountersMatchHolders
<1>1. IndInv => CountersMatchHolders
  BY DEF IndInv
<1> QED BY <1>1, Inductive, PTL

\* Row locks protect the caps a redemption has checked and the rows a rollback
\* is about to decrement.
THEOREM LocksCorrect == Spec => []LockDiscipline
<1>1. IndInv => LockDiscipline
  BY DEF IndInv
<1> QED BY <1>1, Inductive, PTL
-------------------------------------------------------------------------------
(* Caps *)

\* At its commit a redemption is still below both caps, provided that no admin
\* sets a per-user cap of zero (which the first upsert of a user ignores).
LEMMA BelowAtCommit ==
  ASSUME 0 \notin MaxPerUserValues, TypeOK, LockDiscipline,
         NEW r \in Reservation, pc[r] = "globalBumped"
  PROVE  /\ coupon.active
         /\ Below(coupon.used, coupon.maxUses)
         /\ Below(UsageCount(usedBy[Owner[r]]), coupon.maxPerUser)
<1>1. Redeemable(coupon) /\ UserRedeemable(usedBy[Owner[r]], coupon.maxPerUser)
  BY DEF LockDiscipline, Redeeming
<1>2. coupon.maxPerUser \in Nat \cup {NoCap} /\ coupon.maxPerUser # 0
  BY CapsAssumption DEF TypeOK
<1> QED BY <1>1, <1>2 DEF Redeemable, UserRedeemable, UsageCount, Below, NoRow, NoCap

LEMMA CommitAddsOne ==
  ASSUME TypeOK, NEW r \in Reservation, CommitRedeem(r)
  PROVE  /\ coupon' = [coupon EXCEPT !.used = coupon.used + 1]
         /\ coupon'.used = coupon.used + 1 /\ coupon'.maxUses = coupon.maxUses
         /\ coupon'.active = coupon.active /\ coupon'.maxPerUser = coupon.maxPerUser
         /\ usedBy'[Owner[r]] = UsageCount(usedBy[Owner[r]]) + 1
         /\ \A u \in User \ {Owner[r]} : usedBy'[u] = usedBy[u]
<1>1. Owner[r] \in User
  BY OwnerAssumption
<1>2. coupon' = [coupon EXCEPT !.used = coupon.used + 1]
  BY DEF CommitRedeem
<1>3. usedBy' = [usedBy EXCEPT ![Owner[r]] = Bumped(usedBy[Owner[r]])]
  BY DEF CommitRedeem
<1>4. Bumped(usedBy[Owner[r]]) = UsageCount(usedBy[Owner[r]]) + 1
  BY <1>1 DEF Bumped, UsageCount, NoRow
<1> QED BY <1>1, <1>2, <1>3, <1>4 DEF TypeOK

LEMMA StepWithinCaps ==
  ASSUME 0 \notin MaxPerUserValues
  PROVE  IndInv /\ [Next]_vars => [WithinCaps]_vars
<1> SUFFICES ASSUME IndInv, Next PROVE WithinCaps
  OBVIOUS
<1>a. TypeOK /\ LockDiscipline
  BY DEF IndInv
<1>b. coupon.used \in Nat /\ \A u \in User : usedBy[u] \in Nat \cup {NoRow}
  BY <1>a DEF TypeOK
<1>1. ASSUME coupon'.used = coupon.used, usedBy' = usedBy PROVE WithinCaps
  BY <1>1, <1>b DEF WithinCaps, NoRow
<1>2. ASSUME NEW r \in Reservation, CommitRedeem(r) PROVE WithinCaps
  <2>1. Below(coupon.used, coupon.maxUses)
         /\ Below(UsageCount(usedBy[Owner[r]]), coupon.maxPerUser)
    BY <1>2, <1>a, BelowAtCommit DEF CommitRedeem
  <2>2. coupon.maxUses \in Nat \cup {NoCap} /\ coupon.maxPerUser \in Nat \cup {NoCap}
    BY <1>a, CapsAssumption DEF TypeOK
  <2>3. UsageCount(usedBy[Owner[r]]) \in Nat
    BY <1>b, OwnerAssumption, RowFacts
  <2>4. coupon'.maxUses = NoCap \/ coupon'.used <= coupon'.maxUses
    BY <1>2, <1>a, <1>b, <2>1, <2>2, CommitAddsOne DEF Below, NoCap
  <2>5. coupon'.maxPerUser = NoCap \/ usedBy'[Owner[r]] <= coupon'.maxPerUser
    BY <1>2, <1>a, <2>1, <2>2, <2>3, CommitAddsOne DEF Below, NoCap
  <2>6. \A u \in User \ {Owner[r]} : ~(usedBy'[u] > usedBy[u])
    BY <1>2, <1>a, <1>b, CommitAddsOne DEF NoRow
  <2> QED BY <2>4, <2>5, <2>6 DEF WithinCaps
<1>3. ASSUME NEW r \in Reservation, CommitRelease(r) PROVE WithinCaps
  <2>1. ~(coupon'.used > coupon.used)
    BY <1>3, <1>a DEF CommitRelease, TypeOK, Dropped
  <2>2. \A u \in User : ~(usedBy'[u] > usedBy[u])
    BY <1>3, <1>a, <1>b, OwnerAssumption DEF CommitRelease, TypeOK, Dropped, NoRow
  <2> QED BY <2>1, <2>2 DEF WithinCaps
<1>4. ASSUME UpdateCoupon PROVE WithinCaps
  BY <1>1, <1>4, <1>a DEF UpdateCoupon, TypeOK
<1> QED
  BY <1>1, <1>2, <1>3, <1>4
  DEF Next, Step, DeadlockAbort, Fail, LockCoupon, BumpUser, BumpGlobal, DropUser,
      DropGlobal, RollBackTx

\* However redemptions, rollbacks and edits of the caps interleave, no counter is
\* raised past the cap in force (RedeemAtomic), if no per-user cap is zero.
THEOREM CapsRespected ==
  ASSUME 0 \notin MaxPerUserValues
  PROVE  Spec => RedeemWithinCaps
<1>1. IndInv /\ [Next]_vars => [WithinCaps]_vars
  BY StepWithinCaps
<1> QED BY <1>1, Inductive, PTL DEF Spec, RedeemWithinCaps

-------------------------------------------------------------------------------
(* Refinement *)

LEMMA InitRefines == Init => Ledger!Init
BY DEF Init, Ledger!Init, Holders, Releasing

LEMMA StepRefines ==
  ASSUME 0 \notin MaxPerUserValues
  PROVE  IndInv /\ [Next]_vars => [Ledger!Next]_(Ledger!ledgerVars)
<1> SUFFICES ASSUME IndInv, [Next]_vars PROVE [Ledger!Next]_(Ledger!ledgerVars)
  OBVIOUS
<1>a. TypeOK /\ LockDiscipline /\ CountersMatchHolders
  BY DEF IndInv
<1>1. ASSUME Holders' = Holders PROVE Ledger!Next
  BY <1>1 DEF Ledger!Next, Ledger!EditCaps
<1>2. ASSUME NEW r \in Reservation, NEW phase, Goto(r, phase),
             phase \in HolderPhase <=> pc[r] \in HolderPhase
      PROVE  Holders' = Holders
  BY <1>2, <1>a, HoldersAfter DEF Holders, HolderPhase
<1>3. ASSUME NEW r \in Reservation, CommitRedeem(r) PROVE Ledger!Next
  <2>1. r \notin Holders /\ Holders' = Holders \cup {r}
    BY <1>3, <1>a, HoldersAfter DEF CommitRedeem, Holders, HolderPhase, Releasing
  <2>2. Caps.active /\ Below(Cardinality(Holders), Caps.maxUses)
         /\ Below(Cardinality(HoldersOf(Owner[r])), Caps.maxPerUser)
    BY <1>3, <1>a, BelowAtCommit, OwnerAssumption
    DEF CommitRedeem, CountersMatchHolders, Caps
  <2>3. Caps' = Caps
    BY <1>3, <1>a, CommitAddsOne DEF Caps
  <2>4. /\ Ledger!HoldersOf(Owner[r]) = HoldersOf(Owner[r])
         /\ Ledger!Cardinality(Holders) = Cardinality(Holders)
         /\ Ledger!Cardinality(HoldersOf(Owner[r])) = Cardinality(HoldersOf(Owner[r]))
    BY DEF Ledger!HoldersOf, HoldersOf, Ledger!Cardinality, Cardinality
  <2>5. /\ Ledger!Below(Ledger!Cardinality(Holders), Caps.maxUses)
         /\ Ledger!Below(Ledger!Cardinality(Ledger!HoldersOf(Owner[r])), Caps.maxPerUser)
    BY <2>2, <2>4 DEF Ledger!Below, Below, Ledger!NoCap, NoCap
  <2>6. Ledger!Take(r)
    BY <2>1, <2>3, <2>2, <2>5 DEF Ledger!Take
  <2> QED BY <2>6 DEF Ledger!Next
<1>4. ASSUME NEW r \in Reservation, CommitRelease(r) PROVE Ledger!Next
  <2>1. r \in Holders /\ Holders' = Holders \ {r}
    BY <1>4, <1>a, HoldersAfter DEF CommitRelease, Holders, HolderPhase, Releasing
  <2>2. Caps' = Caps
    BY <1>4, <1>a DEF CommitRelease, Caps, TypeOK
  <2>3. Ledger!GiveBack(r)
    BY <2>1, <2>2 DEF Ledger!GiveBack
  <2> QED BY <2>3 DEF Ledger!Next
<1>5. ASSUME NEW r \in Reservation,
             LockCoupon(r) \/ BumpUser(r) \/ BumpGlobal(r) \/ DropUser(r)
               \/ DropGlobal(r) \/ RollBackTx(r)
      PROVE  Ledger!Next
  <2>1. \E phase : Goto(r, phase)
                     /\ (phase \in HolderPhase <=> pc[r] \in HolderPhase)
    BY <1>5 DEF LockCoupon, BumpUser, BumpGlobal, DropUser, DropGlobal, RollBackTx,
                InTx, HolderPhase, Redeeming, Releasing
  <2> QED BY <2>1, <1>1, <1>2
<1>6. ASSUME UpdateCoupon PROVE Ledger!Next
  BY <1>6, <1>1 DEF UpdateCoupon, Holders
<1>7. ASSUME UNCHANGED vars PROVE UNCHANGED Ledger!ledgerVars
  BY <1>7 DEF vars, Ledger!ledgerVars, Holders, Caps
<1> QED
  BY <1>3, <1>4, <1>5, <1>6, <1>7 DEF Next, Step, DeadlockAbort, Fail

\* RedeemAtomic and DecrementUsageAtomic, with their row locks and failures,
\* implement the ledger of held uses, if no per-user cap is zero.
THEOREM ImplementsLedger ==
  ASSUME 0 \notin MaxPerUserValues
  PROVE  Spec => LedgerSpec
<1>1. IndInv /\ [Next]_vars => [Ledger!Next]_(Ledger!ledgerVars)
  BY StepRefines
<1> QED BY <1>1, InitRefines, Inductive, PTL DEF Spec, LedgerSpec, Ledger!Spec

-----------------------------------------------------------------------------
(* The webhook's connections.  PoolTypeOK alone is not inductive, because a*)
(* query that ends is counted: a delivery that runs one must not have run  *)
(* them all.                                                               *)

QueriesBelowBound == \A d \in Querying : queries[d] < MaxQueries

PoolInv == PoolTypeOK /\ QueriesBelowBound /\ OneAtATime

LEMMA InitPoolInv == PoolInit => PoolInv
BY PoolAssumption
DEF PoolInit, PoolInv, PoolTypeOK, PoolPhase, QueriesBelowBound, Querying, OneAtATime, Locked

LEMMA PoolTypesKept == PoolInv /\ [PoolNext]_poolVars => (PoolTypeOK /\ QueriesBelowBound)'
<1> SUFFICES ASSUME PoolTypeOK, QueriesBelowBound, [PoolNext]_poolVars
             PROVE  (PoolTypeOK /\ QueriesBelowBound)'
  BY DEF PoolInv
<1> USE PoolAssumption DEF PoolTypeOK, PoolPhase, QueriesBelowBound, Querying, PoolGoto
<1>1. CASE UNCHANGED poolVars
  BY <1>1 DEF poolVars
<1>2. ASSUME NEW d \in Delivery, Arrive(d) \/ Connect(d) \/ AcquireLock(d)
      PROVE  (PoolTypeOK /\ QueriesBelowBound)'
  BY <1>2 DEF Arrive, Connect, AcquireLock
<1>3. ASSUME NEW d \in Delivery, BeginQuery(d)
      PROVE  (PoolTypeOK /\ QueriesBelowBound)'
  BY <1>3 DEF BeginQuery
<1>4. ASSUME NEW d \in Delivery, EndQuery(d)
      PROVE  (PoolTypeOK /\ QueriesBelowBound)'
  BY <1>4 DEF EndQuery
<1>5. ASSUME NEW d \in Delivery, FinishHandler(d) \/ Leave(d) \/ HangUp(d)
      PROVE  (PoolTypeOK /\ QueriesBelowBound)'
  BY <1>5 DEF FinishHandler, Leave, HangUp, Waiting
<1> QED
  BY <1>1, <1>2, <1>3, <1>4, <1>5 DEF PoolNext, PoolStep

\* Only AcquireLock adds a delivery to those that hold the lock of their payment.
LEMMA PoolExclusionKept == PoolInv /\ [PoolNext]_poolVars => OneAtATime'
<1> SUFFICES ASSUME PoolTypeOK, OneAtATime, [PoolNext]_poolVars
             PROVE  OneAtATime'
  BY DEF PoolInv
<1>1. ASSUME Locked' \subseteq Locked
      PROVE  OneAtATime'
  BY <1>1 DEF OneAtATime
<1>2. CASE UNCHANGED poolVars
  BY <1>1, <1>2 DEF poolVars, Locked
<1>3. ASSUME NEW d \in Delivery, AcquireLock(d)
      PROVE  OneAtATime'
  <2>1. Locked' = Locked \cup {d}
    BY <1>3 DEF AcquireLock, PoolGoto, Locked, PoolTypeOK
  <2>2. \A e \in Locked : PaymentOf[e] # PaymentOf[d]
    BY <1>3 DEF AcquireLock, NoneLocked
  <2> QED BY <2>1, <2>2 DEF OneAtATime
<1>4. ASSUME NEW d \in Delivery,
             Arrive(d) \/ Connect(d) \/ BeginQuery(d) \/ EndQuery(d)
               \/ FinishHandler(d) \/ Leave(d) \/ HangUp(d)
      PROVE  Locked' \subseteq Locked
  BY <1>4
  DEF Arrive, Connect, BeginQuery, EndQuery, FinishHandler, Leave, HangUp, Waiting,
      PoolGoto, Locked, PoolTypeOK
<1> QED
  BY <1>1, <1>2, <1>3, <1>4 DEF PoolNext, PoolStep

LEMMA AlwaysPoolInv == PoolSpec => []PoolInv
<1>1. PoolInv /\ [PoolNext]_poolVars => PoolInv'
  BY PoolTypesKept, PoolExclusionKept DEF PoolInv
<1> QED BY InitPoolInv, <1>1, PTL DEF PoolSpec

\* The phases and the query counts of the deliveries keep their types
\* (WithPaymentLock).
THEOREM PoolTypeCorrect == PoolSpec => []PoolTypeOK
BY AlwaysPoolInv, PTL DEF PoolInv

\* However many deliveries of however many payments share the pool, and whoever
\* hangs up, at most one per payment is between lock and unlock (WithPaymentLock).
THEOREM PoolExclusion == PoolSpec => []OneAtATime
BY AlwaysPoolInv, PTL DEF PoolInv
=============================================================================
