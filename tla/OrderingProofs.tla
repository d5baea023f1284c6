--------------------------- MODULE OrderingProofs ---------------------------
(***************************************************************************)
(* Proofs about ordering, for any carts, shoppers, schedules, mutations    *)
(* and failures: what is offered and accepted agrees with the schedule,    *)
(* the dashboards end up with what is stored, a checkout leaves everything *)
(* it promised or nothing, and guesses of coupon codes are bounded.        *)
(***************************************************************************)
EXTENDS Checkout, Storefront, CouponAttempts, FiniteSetTheorems, WellFoundedInduction, TLAPS
-----------------------------------------------------------------------------
(* Instants and times                                                      *)

LEMMA Units == Minute = 2 /\ DayLength = 2880 /\ Quarter = 30
  BY DEF Minute, Hour, DayLength, Quarter

\* An instant is its day, a time of that day, and a half-minute or none.
IsTime(t, day, minutes, half) ==
  /\ t \in Int /\ day \in Int /\ minutes \in 0..1439 /\ half \in 0..1
  /\ t = day * 2880 + 2 * minutes + half

LEMMA DayAndTime ==
  ASSUME NEW t \in Int
  PROVE  IsTime(t, DayOf(t), MinuteOf(t), t % 2)
<1>1. PICK q \in Int : q = t \div 2880
  OBVIOUS
<1>2. PICK m \in 0..2879 : m = t % 2880
  OBVIOUS
<1>3. PICK h \in Int : h = m \div 2 /\ 2 * h <= m /\ m <= 2 * h + 1
  OBVIOUS
<1>4. PICK r \in 0..1 : r = m % 2
  OBVIOUS
<1>5. t = q * 2880 + m /\ m = 2 * h + r
  BY <1>1, <1>2, <1>3, <1>4
<1>6. t = q * 2880 + 2 * h + r /\ r = t % 2
  BY <1>5
<1>7. IsTime(t, q, h, r)
  <2>1. h \in 0..1439
    BY <1>3
  <2> QED BY <1>6, <2>1 DEF IsTime
<1>8. DayOf(t) = q
  BY <1>1, Units DEF DayOf
<1>9. MinuteOf(t) = h
  BY <1>2, <1>3, Units DEF MinuteOf
<1> QED BY <1>6, <1>7, <1>8, <1>9

LEMMA DayAndTimeTypes ==
  ASSUME NEW t \in Int
  PROVE  DayOf(t) \in Int /\ MinuteOf(t) \in TimeOfDay
<1>1. IsTime(t, DayOf(t), MinuteOf(t), t % 2)
  BY DayAndTime
<1> QED BY <1>1 DEF IsTime, TimeOfDay

\* An instant has one day and one minute.
LEMMA OneDayAndTime ==
  ASSUME NEW t, NEW d, NEW m, NEW r, NEW D, NEW M, NEW s, IsTime(t, d, m, r), IsTime(t, D, M, s)
  PROVE  D = d /\ M = m
<1>1. /\ t \in Int /\ d \in Int /\ m \in 0..1439 /\ r \in 0..1 /\ D \in Int /\ M \in 0..1439 /\ s \in 0..1
      /\ t = d * 2880 + 2 * m + r /\ t = D * 2880 + 2 * M + s
  BY DEF IsTime
<1>2. D = d
  BY <1>1
<1> QED BY <1>1, <1>2

LEMMA TimeOfADay ==
  ASSUME NEW t, NEW d, NEW m, NEW r, IsTime(t, d, m, r)
  PROVE  DayOf(t) = d /\ MinuteOf(t) = m
<1>1. t \in Int
  BY DEF IsTime
<1>2. IsTime(t, DayOf(t), MinuteOf(t), t % 2)
  BY <1>1, DayAndTime
<1> QED BY <1>2, OneDayAndTime

\* `At' puts a time into the day of an instant, d days later too.
LEMMA AtTime ==
  ASSUME NEW t \in Int, NEW d \in Int, NEW m \in TimeOfDay
  PROVE  /\ DayOf(t + d * DayLength) = DayOf(t) + d
         /\ IsTime(At(t + d * DayLength, m), DayOf(t) + d, m, 0)
<1>0. IsTime(t, DayOf(t), MinuteOf(t), t % 2)
  BY DayAndTime
<1>1. \A q, h, r : IsTime(t, q, h, r) => IsTime(t + d * DayLength, q + d, h, r)
  BY Units DEF IsTime
<1>2. DayOf(t + d * DayLength) = DayOf(t) + d
  BY <1>0, <1>1, TimeOfADay
<1>3. DayOf(t) \in Int
  BY <1>0 DEF IsTime
<1>4. \A q \in Int : IsTime((q + d) * 2880 + m * 2, q + d, m, 0)
  BY DEF IsTime, TimeOfDay
<1>5. At(t + d * DayLength, m) = (DayOf(t) + d) * 2880 + m * 2
  BY <1>2, Units DEF At
<1> QED BY <1>2, <1>3, <1>4, <1>5

LEMMA AtToday ==
  ASSUME NEW t \in Int, NEW m \in TimeOfDay
  PROVE  IsTime(At(t, m), DayOf(t), m, 0)
<1>1. DayOf(t) \in Int
  BY DayAndTime DEF IsTime
<1>2. \A q \in Int : IsTime(q * 2880 + m * 2, q, m, 0)
  BY DEF IsTime, TimeOfDay
<1>3. At(t, m) = DayOf(t) * 2880 + m * 2
  BY Units DEF At
<1> QED BY <1>1, <1>2, <1>3

\* Of two instants the later one has the later day, and the later minute of one day.
LEMMA InstantsInOrder ==
  ASSUME NEW t, NEW d, NEW m, NEW r, NEW u, NEW D, NEW M, NEW s, IsTime(t, d, m, r), IsTime(u, D, M, s)
  PROVE  /\ t <= u => d <= D
         /\ t <= u /\ d = D => m <= M
         /\ d = D /\ m <= M /\ r = 0 => t <= u
<1>1. /\ t \in Int /\ d \in Int /\ m \in 0..1439 /\ r \in 0..1
      /\ u \in Int /\ D \in Int /\ M \in 0..1439 /\ s \in 0..1
      /\ t = d * 2880 + 2 * m + r /\ u = D * 2880 + 2 * M + s
  BY DEF IsTime
<1> QED BY <1>1

\* Rounding never goes back over a whole minute.
NoEarlier(u, t) == \A g \in Int : 2 * g <= t => 2 * g <= u

LEMMA RoundsUp ==
  ASSUME NEW t \in Int
  PROVE  /\ RoundUpToNextQuarter(t) \in Int
         /\ NoEarlier(RoundUpToNextQuarter(t), t)
<1> DEFINE whole == t - (t % 2)
<1>1. whole \in Int
  OBVIOUS
<1>2. whole % 30 \in 0..29
  BY <1>1
<1> HIDE DEF whole
<1>3. RoundUpToNextQuarter(t) = IF whole % 30 = 0 THEN whole ELSE whole + 30 - (whole % 30)
  BY Units DEF RoundUpToNextQuarter, whole
<1>4. whole <= RoundUpToNextQuarter(t) /\ RoundUpToNextQuarter(t) \in Int
  BY <1>1, <1>2, <1>3
<1>5. ASSUME NEW g \in Int, 2 * g <= t PROVE 2 * g <= whole
  BY <1>5 DEF whole
<1> QED BY <1>1, <1>4, <1>5 DEF NoEarlier

\* A set of instants has an earliest one.
LEMMA SomeLeast ==
  ASSUME NEW S, S \subseteq Nat, S # {}
  PROVE  \E n \in S : \A m \in S : n <= m
<1> DEFINE Less == {ss \in Nat \X Nat : ss[1] < ss[2]}
<1>1. IsWellFoundedOn(Less, Nat)
  BY NatLessThanWellFounded, Zenon DEF OpToRel
<1>2. PICK n \in S : \A m \in S : <<m, n>> \notin Less
  <2> HIDE DEF Less
  <2> QED BY <1>1, WFMin
<1>3. \A m \in S : ~(m < n)
  BY <1>2
<1> QED BY <1>3
-----------------------------------------------------------------------------
(* Schedules                                                               *)

Overrides == [Horizon -> {Unset, Closed} \cup DaySchedules]

\* The schedule and the weekday depend on the day alone.
LEMMA SameDaySameSchedule ==
  ASSUME NEW t, NEW u, DayOf(t) = DayOf(u), NEW config, NEW ovs
  PROVE  /\ OrderingSchedule(t, config, ovs) = OrderingSchedule(u, config, ovs)
         /\ IsWeekday(t) = IsWeekday(u)
  BY DEF OrderingSchedule, ResolveDaySchedule, Weekday, IsWeekday

LEMMA ResolvedSchedule ==
  ASSUME NEW t \in Int, NEW hours \in WeeklyHours, NEW ovs \in Overrides, DayOf(t) \in Horizon
  PROVE  ResolveDaySchedule(t, hours, ovs) \in {Closed} \cup DaySchedules
<1>1. DayOf(t) \in Int
  BY DayAndTime DEF IsTime
<1>2. Weekday(t) \in 0..6
  BY <1>1 DEF Weekday
<1> QED BY <1>2 DEF ResolveDaySchedule, Overrides, WeeklyHours

LEMMA OrderingScheduleType ==
  ASSUME NEW t \in Int, NEW config \in SettingsRows, NEW ovs \in Overrides, DayOf(t) \in Horizon
  PROVE  OrderingSchedule(t, config, ovs) \in {Closed} \cup DaySchedules
<1>1. HoursForOrders(config) \in WeeklyHours
  BY DEF HoursForOrders, SettingsRows
<1> QED BY <1>1, ResolvedSchedule DEF OrderingSchedule

\* The services of a day, in order.
LEMMA ServicesInOrder ==
  ASSUME NEW s \in DaySchedules
  PROVE  /\ s # Closed
         /\ s.open \in TimeOfDay /\ s.close \in TimeOfDay
         /\ \A iv \in Intervals(s) : /\ iv.open \in TimeOfDay /\ iv.close \in TimeOfDay /\ iv.open < iv.close
                                     /\ iv.first => iv.open = s.open /\ iv.close = s.close
                                     /\ ~iv.first => s.close < iv.open
                                     /\ iv.first \in BOOLEAN
         /\ \E iv \in Intervals(s) : iv.first
<1>1. /\ s \in [open : TimeOfDay, close : TimeOfDay,
               dinnerOpen : {Unset} \cup TimeOfDay, dinnerClose : {Unset} \cup TimeOfDay]
      /\ InOrder(s) /\ s # Closed
  BY SchedulesAssumption DEF DaySchedules
<1>3. HasDinner(s) => s.dinnerOpen \in TimeOfDay /\ s.dinnerClose \in TimeOfDay
  BY <1>1 DEF HasDinner
<1> DEFINE lunch == [open |-> s.open, close |-> s.close, first |-> TRUE]
           dinner == [open |-> s.dinnerOpen, close |-> s.dinnerClose, first |-> FALSE]
<1>4. lunch \in Intervals(s) /\ \A iv \in Intervals(s) : iv = lunch \/ (HasDinner(s) /\ iv = dinner)
  BY DEF Intervals
<1>5. s.open \in TimeOfDay /\ s.close \in TimeOfDay /\ s.open < s.close
  BY <1>1 DEF InOrder
<1>6. HasDinner(s) => s.close < s.dinnerOpen /\ s.dinnerOpen < s.dinnerClose
  BY <1>1 DEF InOrder
<1>7. ASSUME NEW iv \in Intervals(s)
      PROVE  /\ iv.open \in TimeOfDay /\ iv.close \in TimeOfDay /\ iv.open < iv.close
             /\ iv.first => iv.open = s.open /\ iv.close = s.close
             /\ ~iv.first => s.close < iv.open
             /\ iv.first \in BOOLEAN
  <2>1. CASE iv = lunch
    BY <1>5, <2>1
  <2>2. CASE HasDinner(s) /\ iv = dinner
    BY <1>3, <1>6, <2>2
  <2> QED BY <1>4, <2>1, <2>2
<1>8. lunch.first
  OBVIOUS
<1> HIDE DEF lunch
<1> QED BY <1>1, <1>4, <1>5, <1>7, <1>8

\* A slot of a service leaves the kitchen its time after the opening, and after now.
SlotAt(c, t, open, close, p, m) ==
  /\ IsTime(c, DayOf(t), m, 0) /\ m % 15 = 0
  /\ open + p <= m /\ m <= close
  /\ t % 2 = 0 => t + 2 * p <= c

LEMMA SlotOfService ==
  ASSUME NEW iv, NEW open \in TimeOfDay, NEW close \in TimeOfDay, iv.open = open, iv.close = close,
         NEW t \in Int, NEW config, NEW p \in 1..240, config.prep = p, NEW c \in SlotsOf(iv, t, config)
  PROVE  \E m \in TimeOfDay : SlotAt(c, t, open, close, p, m)
<1>1. PICK k \in 0..95 : c = At(t, 15 * k) /\ FirstSlot(iv, t, config) <= c /\ c <= At(t, close)
  BY DEF SlotsOf
<1>2. PICK m \in 0..1439 : m = 15 * k
  OBVIOUS
<1>0. m \in TimeOfDay /\ m % 15 = 0 /\ open \in 0..1439 /\ close \in 0..1439
  BY <1>2 DEF TimeOfDay
<1>3. IsTime(At(t, m), DayOf(t), m, 0)
  BY <1>0, AtToday
<1>4. IsTime(At(t, close), DayOf(t), close, 0)
  BY <1>0, AtToday
<1>5. PICK D \in Int : D = DayOf(t)
  BY <1>4 DEF IsTime
<1>6. PICK C \in Int : C = c /\ C = D * 2880 + 2 * m
  BY <1>1, <1>2, <1>3, <1>5 DEF IsTime
<1>7. PICK e \in Int : e = At(t, close) /\ e = D * 2880 + 2 * close
  BY <1>4, <1>5 DEF IsTime
<1>8. C <= e
  BY <1>1, <1>6, <1>7
<1>9. m <= close
  BY <1>0, <1>6, <1>7, <1>8
<1>10. Prep(config) = p
  BY DEF Prep
<1>11. PICK h \in Int : h = D * 1440 + open + p
  BY <1>0
<1>12. PICK q \in Int : q = open + p
  BY <1>0
<1>13. 2 * h = D * 2880 + q * 2
  BY <1>0, <1>11, <1>12
<1>14. 2 * h = At(t, open + Prep(config))
  BY <1>5, <1>10, <1>12, <1>13, Units DEF At
<1>15. PICK n \in Int : n = t + p * 2
  OBVIOUS
<1>16. PICK y \in Int : y = RoundUpToNextQuarter(n) /\ NoEarlier(y, n)
  BY RoundsUp
<1>17. PICK z \in Int : z = Later(2 * h, y) /\ 2 * h <= z /\ y <= z
  BY DEF Later
<1>18. PICK f \in Int : f = RoundUpToNextQuarter(z) /\ NoEarlier(f, z)
  BY RoundsUp
<1>19. f = FirstSlot(iv, t, config)
  BY <1>10, <1>14, <1>15, <1>16, <1>17, <1>18, Units DEF FirstSlot
<1>20. f <= C
  BY <1>1, <1>6, <1>19
<1>22. 2 * h <= C
  BY <1>17, <1>18, <1>20 DEF NoEarlier
<1>23. open + p <= m
  BY <1>0, <1>6, <1>11, <1>22
<1>24. ASSUME t % 2 = 0 PROVE n <= C
  <2>1. PICK g \in Int : t = 2 * g
    BY <1>24
  <2>2. PICK i \in Int : i = g + p
    OBVIOUS
  <2>3. n = 2 * i
    BY <1>15, <2>1, <2>2
  <2>4. n <= y
    BY <1>16, <2>3 DEF NoEarlier
  <2>5. 2 * i <= z
    BY <1>17, <2>3, <2>4
  <2>6. 2 * i <= f
    BY <1>18, <2>5 DEF NoEarlier
  <2> QED BY <1>20, <2>3, <2>6
<1>25. n = t + 2 * p
  BY <1>15
<1>26. IsTime(c, DayOf(t), m, 0)
  BY <1>1, <1>2, <1>3
<1>27. SlotAt(c, t, open, close, p, m)
  BY <1>0, <1>26, <1>6, <1>9, <1>23, <1>24, <1>25 DEF SlotAt
<1> QED BY <1>0, <1>27

\* What is offered lies in a service of today, after the kitchen's time.
LEMMA OfferedSlot ==
  ASSUME NEW t \in Int, NEW config \in SettingsRows, NEW ovs \in Overrides, DayOf(t) \in Horizon,
         NEW s \in AvailableSlotsToday(t, config, ovs)
  PROVE  LET sch == OrderingSchedule(t, config, ovs) IN
         /\ sch \in DaySchedules
         /\ s.lunch \in BOOLEAN
         /\ s.lunch <=> IsWeekday(s.at) /\ \E iv \in Intervals(sch) : iv.first /\ s.at \in SlotsOf(iv, t, config)
         /\ \E iv \in Intervals(sch) : s.at \in SlotsOf(iv, t, config)
<1> DEFINE sch == OrderingSchedule(t, config, ovs)
<1>1. sch # Closed /\ sch \in DaySchedules
  BY OrderingScheduleType DEF AvailableSlotsToday
<1>2. PICK c \in UNION {SlotsOf(iv, t, config) : iv \in Intervals(sch)} :
        s = [at |-> c, lunch |-> IsWeekday(c) /\ \E iv \in {i \in Intervals(sch) : i.first} :
                                                     c \in SlotsOf(iv, t, config)]
  BY <1>1 DEF AvailableSlotsToday
<1> HIDE DEF sch
<1>3. s.at = c /\ s.lunch \in BOOLEAN /\ (s.lunch <=> IsWeekday(c) /\ \E iv \in Intervals(sch) : iv.first /\ c \in SlotsOf(iv, t, config))
  BY <1>2
<1>4. \E iv \in Intervals(sch) : c \in SlotsOf(iv, t, config)
  BY <1>2
<1> QED BY <1>1, <1>3, <1>4 DEF sch

\* The same, for a service of the schedule in force.
LEMMA SlotInNumbers ==
  ASSUME NEW t \in Int, NEW config \in SettingsRows, NEW sch \in DaySchedules, NEW iv \in Intervals(sch),
         NEW c \in SlotsOf(iv, t, config)
  PROVE  \E m \in TimeOfDay : SlotAt(c, t, iv.open, iv.close, config.prep, m)
<1>1. config.prep \in 1..240
  BY DEF SettingsRows
<1>2. iv.open \in TimeOfDay /\ iv.close \in TimeOfDay
  BY ServicesInOrder
<1> QED BY <1>1, <1>2, SlotOfService

\* Between quarters of an hour, more than one is two.
LEMMA QuartersApart ==
  ASSUME NEW a \in 0..1439, NEW b \in Int, a % 15 = 0, b % 15 = 0, a + 15 < b
  PROVE  a + 30 <= b
  OBVIOUS

\* Where the margins agree, createOrder accepts what availableSlots offers.
LEMMA OfferedIsAccepted ==
  ASSUME NEW t \in Int, NEW config \in SettingsRows, NEW ovs \in Overrides, DayOf(t) \in Horizon,
         NEW s \in AvailableSlotsToday(t, config, ovs), t % Minute = 0,
         MarginsAgree(config, OrderingSchedule(t, config, ovs))
  PROVE  PreferredReadyTimeAccepted(s.at, t, config, ovs)
<1> DEFINE sch == OrderingSchedule(t, config, ovs)
<1>1. sch \in DaySchedules /\ sch # Closed
  BY OfferedSlot, ServicesInOrder
<1>2. PICK iv \in Intervals(sch) : s.at \in SlotsOf(iv, t, config)
  BY OfferedSlot
<1> HIDE DEF sch
<1>3. PICK m \in TimeOfDay : SlotAt(s.at, t, iv.open, iv.close, config.prep, m)
  BY <1>1, <1>2, SlotInNumbers
<1>4. PICK c : c = s.at
  OBVIOUS
<1>5. PICK p \in 1..240 : p = config.prep
  BY DEF SettingsRows
<1>6. iv.open \in TimeOfDay /\ iv.close \in TimeOfDay
  BY <1>1, ServicesInOrder
<1>7. PICK open \in TimeOfDay : open = iv.open
  BY <1>6
<1>8. PICK close \in TimeOfDay : close = iv.close
  BY <1>6
<1>9. SlotAt(c, t, open, close, p, m)
  BY <1>3, <1>4, <1>5, <1>7, <1>8
<1>10. IsTime(c, DayOf(t), m, 0) /\ DayOf(c) = DayOf(t) /\ MinuteOf(c) = m
  BY <1>9, TimeOfADay DEF SlotAt
<1>11. c \in Int /\ DayOf(t) \in Int /\ c = DayOf(t) * 2880 + 2 * m
  BY <1>10 DEF IsTime
<1>12. m \in Int /\ m % 15 = 0 /\ open \in 0..1439 /\ close \in 0..1439 /\ open + p <= m /\ m <= close
       /\ t + 2 * p <= c
  BY <1>9, Units DEF SlotAt, TimeOfDay
<1>13. p >= 30 \/ (p > 15 /\ open % 15 = 0)
  BY <1>2, <1>5, <1>7 DEF MarginsAgree, sch
<1>14. open + 30 <= m
  <2>1. CASE p >= 30
    BY <1>12, <2>1
  <2>2. CASE p > 15 /\ open % 15 = 0
    <3>1. open + 15 < m
      BY <1>12, <2>2
    <3> QED BY <1>12, <2>2, <3>1, QuartersApart
  <2> QED BY <1>13, <2>1, <2>2
<1>15. c % 30 = 0
  <2>1. PICK D \in Int : D = DayOf(t)
    BY <1>11
  <2>2. PICK k \in Int : m = 15 * k
    BY <1>12
  <2>3. PICK e \in Int : e = D * 96 + k
    OBVIOUS
  <2>4. c = 30 * e
    BY <1>11, <2>1, <2>2, <2>3
  <2> QED BY <2>4
<1>16. c >= t + Later(p, 15) * Minute
  BY <1>11, <1>12, <1>13, Units DEF Later
<1>17. IsSlotInAllowedInterval(c, sch)
  BY <1>2, <1>7, <1>8, <1>10, <1>12, <1>14 DEF IsSlotInAllowedInterval
<1>18. c # Unset
  BY <1>11, SchedulesAssumption
<1> QED BY <1>1, <1>4, <1>5, <1>10, <1>15, <1>16, <1>17, <1>18, Units DEF PreferredReadyTimeAccepted, sch

\* A slot's lunch flag is what createOrder decides for its time.
LEMMA FlagIsTheAnswer ==
  ASSUME NEW t \in Int, NEW config \in SettingsRows, NEW ovs \in Overrides, DayOf(t) \in Horizon,
         NEW s \in AvailableSlotsToday(t, config, ovs)
  PROVE  s.lunch <=> IsLunchOnlyAllowed(s.at, config, ovs)
<1> DEFINE sch == OrderingSchedule(t, config, ovs)
<1>1. sch \in DaySchedules /\ sch # Closed
  BY OfferedSlot, ServicesInOrder
<1>2. PICK iv \in Intervals(sch) : s.at \in SlotsOf(iv, t, config)
  BY OfferedSlot
<1>3. s.lunch <=> IsWeekday(s.at) /\ \E i \in Intervals(sch) : i.first /\ s.at \in SlotsOf(i, t, config)
  BY OfferedSlot
<1> HIDE DEF sch
<1>4. ASSUME NEW i \in Intervals(sch), s.at \in SlotsOf(i, t, config)
      PROVE  /\ DayOf(s.at) = DayOf(t) /\ MinuteOf(s.at) \in Int
             /\ i.open <= MinuteOf(s.at) /\ MinuteOf(s.at) <= i.close
  <2>1. PICK m \in TimeOfDay : SlotAt(s.at, t, i.open, i.close, config.prep, m)
    BY <1>1, <1>4, SlotInNumbers
  <2>2. DayOf(s.at) = DayOf(t) /\ MinuteOf(s.at) = m
    BY <2>1, TimeOfADay DEF SlotAt
  <2>3. PICK open \in TimeOfDay : open = i.open
    BY <1>1, <1>4, ServicesInOrder
  <2>4. PICK p \in 1..240 : p = config.prep
    BY DEF SettingsRows
  <2>5. open + p <= m /\ m <= i.close
    BY <2>1, <2>3, <2>4 DEF SlotAt
  <2>6. open <= m
    BY <2>5 DEF TimeOfDay
  <2> QED BY <2>2, <2>3, <2>5, <2>6 DEF TimeOfDay
<1>5. OrderingSchedule(s.at, config, ovs) = sch
  BY <1>2, <1>4, SameDaySameSchedule DEF sch
<1>6. IsLunchOnlyAllowed(s.at, config, ovs) <=>
        IsWeekday(s.at) /\ sch.open <= MinuteOf(s.at) /\ MinuteOf(s.at) <= sch.close
  BY <1>1, <1>5 DEF IsLunchOnlyAllowed
<1>7. ASSUME s.lunch PROVE IsLunchOnlyAllowed(s.at, config, ovs)
  <2>1. PICK i \in Intervals(sch) : i.first /\ s.at \in SlotsOf(i, t, config)
    BY <1>3, <1>7
  <2>2. i.open = sch.open /\ i.close = sch.close
    BY <1>1, <2>1, ServicesInOrder
  <2> QED BY <1>3, <1>4, <1>6, <1>7, <2>1, <2>2
<1>8. ASSUME IsLunchOnlyAllowed(s.at, config, ovs) PROVE s.lunch
  <2>1. iv.first
    <3>1. PICK m \in Int : m = MinuteOf(s.at)
      BY <1>2, <1>4
    <3>2. iv.open <= m /\ m <= sch.close
      BY <1>2, <1>4, <1>6, <1>8, <3>1
    <3>3. iv.open \in TimeOfDay /\ sch.close \in TimeOfDay /\ (~iv.first => sch.close < iv.open)
      BY <1>1, ServicesInOrder
    <3>4. PICK open \in TimeOfDay : open = iv.open
      BY <3>3
    <3>5. PICK close \in TimeOfDay : close = sch.close
      BY <3>3
    <3>6. ~(close < open)
      BY <3>2, <3>4, <3>5 DEF TimeOfDay
    <3> QED BY <3>3, <3>4, <3>5, <3>6
  <2> QED BY <1>2, <1>3, <1>6, <1>8, <2>1
<1>9. s.lunch \in BOOLEAN
  BY OfferedSlot
<1> QED BY <1>7, <1>8, <1>9

\* When an accepted order is for.
When(p, t) == IF p = Unset THEN t ELSE p

\* A ready time that is accepted lies in a service, or at its very end.
LEMMA AcceptedInService ==
  ASSUME NEW t \in Int, NEW config \in SettingsRows, NEW ovs \in Overrides, DayOf(t) \in Horizon,
         NEW p \in Int \cup {Unset}, PreferredReadyTimeAccepted(p, t, config, ovs)
  PROVE  LET s == OrderingSchedule(When(p, t), config, ovs) IN
         /\ When(p, t) \in Int /\ DayOf(When(p, t)) = DayOf(t)
         /\ \/ IsOrderingCurrentlyOpen(When(p, t), config, ovs)
            \/ s # Closed /\ MinuteOf(When(p, t)) \in {iv.close : iv \in Intervals(s)}
         /\ p # Unset => p - t >= Prep(config) * Minute
<1>1. CASE p = Unset
  BY <1>1 DEF When, PreferredReadyTimeAccepted
<1>2. CASE p # Unset
  <2> DEFINE s == OrderingSchedule(t, config, ovs)
  <2>1. /\ p \in Int /\ When(p, t) = p /\ DayOf(p) = DayOf(t)
        /\ p >= t + Later(config.prep, 15) * Minute
        /\ s # Closed /\ IsSlotInAllowedInterval(p, s)
    BY <1>2 DEF When, PreferredReadyTimeAccepted
  <2>2. s \in DaySchedules /\ OrderingSchedule(p, config, ovs) = s
    BY <2>1, OrderingScheduleType, SameDaySameSchedule
  <2> HIDE DEF s
  <2>3. PICK iv \in Intervals(s) : iv.open + 30 <= MinuteOf(p) /\ MinuteOf(p) <= iv.close
    BY <2>1 DEF IsSlotInAllowedInterval
  <2>4. PICK open \in TimeOfDay : open = iv.open
    BY <2>2, <2>3, ServicesInOrder
  <2>5. PICK close \in TimeOfDay : close = iv.close
    BY <2>2, <2>3, ServicesInOrder
  <2>6. PICK m \in TimeOfDay : m = MinuteOf(p)
    <3>1. MinuteOf(p) \in TimeOfDay
      BY <2>1, DayAndTimeTypes
    <3> QED BY <3>1
  <2>7. open <= m /\ m <= close
    BY <2>3, <2>4, <2>5, <2>6 DEF TimeOfDay
  <2>8. m < close => IsOrderingCurrentlyOpen(p, config, ovs)
    BY <2>1, <2>2, <2>3, <2>4, <2>5, <2>6, <2>7 DEF IsOrderingCurrentlyOpen, IsWithinSchedule
  <2>9. m = close => s # Closed /\ MinuteOf(p) \in {i.close : i \in Intervals(s)}
    BY <2>1, <2>3, <2>5, <2>6
  <2>10. m < close \/ m = close
    BY <2>7 DEF TimeOfDay
  <2>11. p - t >= Prep(config) * Minute
    <3>1. PICK q \in 1..240 : q = config.prep
      BY DEF SettingsRows
    <3>2. Prep(config) = q /\ Later(config.prep, 15) \in Int /\ q <= Later(config.prep, 15)
      BY <3>1 DEF Prep, Later
    <3>3. PICK l \in Int : l = Later(config.prep, 15) /\ q <= l
      BY <3>2
    <3>4. p >= t + l * 2
      BY <2>1, <3>3, Units
    <3>5. p - t >= q * 2
      BY <2>1, <3>3, <3>4
    <3> QED BY <3>2, <3>5, Units
  <2>12. When(p, t) \in Int /\ DayOf(When(p, t)) = DayOf(t) /\ When(p, t) = p
    BY <2>1
  <2>13. \/ IsOrderingCurrentlyOpen(p, config, ovs)
         \/ s # Closed /\ MinuteOf(p) \in {i.close : i \in Intervals(s)}
    BY <2>8, <2>9, <2>10
  <2> QED BY <2>2, <2>11, <2>12, <2>13
<1> QED BY <1>1, <1>2

LEMMA AcceptedToday ==
  ASSUME NEW t \in Int, NEW config \in SettingsRows, NEW ovs \in Overrides, DayOf(t) \in Horizon,
         NEW p \in Int \cup {Unset}, PreferredReadyTimeAccepted(p, t, config, ovs)
  PROVE  When(p, t) \in Int /\ DayOf(When(p, t)) = DayOf(t)
  BY AcceptedInService

\* Lunch is allowed on weekdays only, and before dinner opens.
LEMMA LunchBeforeDinner ==
  ASSUME NEW t \in Int, NEW config \in SettingsRows, NEW ovs \in Overrides, DayOf(t) \in Horizon,
         IsLunchOnlyAllowed(t, config, ovs)
  PROVE  LET s == OrderingSchedule(t, config, ovs) IN
         IsWeekday(t) /\ (HasDinner(s) => MinuteOf(t) < s.dinnerOpen)
<1> DEFINE s == OrderingSchedule(t, config, ovs)
<1>1. IsWeekday(t) /\ s # Closed /\ MinuteOf(t) <= s.close
  BY DEF IsLunchOnlyAllowed
<1>2. s \in DaySchedules
  BY <1>1, OrderingScheduleType
<1> HIDE DEF s
<1>3. ASSUME HasDinner(s) PROVE MinuteOf(t) < s.dinnerOpen
  <2>1. s.close \in TimeOfDay /\ s.dinnerOpen \in TimeOfDay /\ s.close < s.dinnerOpen
    BY <1>2, <1>3 DEF DaySchedules, InOrder, HasDinner
  <2>2. PICK m \in TimeOfDay : m = MinuteOf(t)
    <3>1. MinuteOf(t) \in TimeOfDay
      BY DayAndTimeTypes
    <3> QED BY <3>1
  <2>3. PICK c \in TimeOfDay : c = s.close
    BY <2>1
  <2>4. PICK d \in TimeOfDay : d = s.dinnerOpen
    BY <2>1
  <2>5. m < d
    BY <1>1, <2>1, <2>2, <2>3, <2>4 DEF TimeOfDay
  <2> QED BY <2>2, <2>4, <2>5
<1> QED BY <1>1, <1>3 DEF s

-----------------------------------------------------------------------------
(* The next opening                                                        *)

\* The openings of the day d days ahead, and those of the week that are to come.
Openings(t, d, config, ovs) ==
  LET s == ResolveDaySchedule(t + d * DayLength, config.opening, ovs)
  IN  IF s = Closed THEN {}
      ELSE {At(t + d * DayLength, m) : m \in {s.open, s.dinnerOpen} \ {Unset}}
\* What the search looks at: a day's first service, and its second once that began.
Looked(t, d, config, ovs) ==
  LET day == t + d * DayLength
      s == ResolveDaySchedule(day, config.opening, ovs)
  IN  IF s = Closed THEN {}
      ELSE {At(day, m) : m \in IF At(day, s.open) > t THEN {s.open} ELSE {s.dinnerOpen} \ {Unset}}
FutureOpenings(t, config, ovs) == {c \in UNION {Looked(t, d, config, ovs) : d \in 0..6} : c > t}

LEMMA NextIsLeast ==
  ASSUME NEW t, NEW config, NEW ovs
  PROVE  NextOpeningAt(t, config, ovs) =
           LET Future == FutureOpenings(t, config, ovs)
           IN  IF Future = {} THEN Unset ELSE CHOOSE c \in Future : \A o \in Future : c <= o
  BY DEF NextOpeningAt, FutureOpenings, Looked

\* The services of a day, by their openings.
LEMMA UnsetIsNoTime == Unset \notin TimeOfDay
  BY SchedulesAssumption DEF TimeOfDay

LEMMA OpeningsOfServices ==
  ASSUME NEW s \in DaySchedules
  PROVE  {s.open, s.dinnerOpen} \ {Unset} = {iv.open : iv \in Intervals(s)}
<1>1. s.open # Unset
  <2>1. s.open \in TimeOfDay
    BY DEF DaySchedules
  <2> QED BY <2>1, UnsetIsNoTime
<1>2. HasDinner(s) <=> s.dinnerOpen # Unset
  BY DEF DaySchedules, InOrder, HasDinner
<1>3. CASE HasDinner(s)
  <2>1. Intervals(s) = {[open |-> s.open, close |-> s.close, first |-> TRUE],
                        [open |-> s.dinnerOpen, close |-> s.dinnerClose, first |-> FALSE]}
    BY <1>3 DEF Intervals
  <2>2. \A x : (\E iv \in Intervals(s) : x = iv.open) <=> x = s.open \/ x = s.dinnerOpen
    BY <2>1
  <2> QED BY <1>1, <1>2, <1>3, <2>2
<1>4. CASE ~HasDinner(s)
  <2>1. Intervals(s) = {[open |-> s.open, close |-> s.close, first |-> TRUE]}
    BY <1>4 DEF Intervals
  <2>2. \A x : (\E iv \in Intervals(s) : x = iv.open) <=> x = s.open
    BY <2>1
  <2> QED BY <1>1, <1>2, <1>4, <2>2
<1> QED BY <1>3, <1>4

\* An opening of the week ahead is one: the restaurant is open at that instant.
LEMMA OpeningIsOpen ==
  ASSUME NEW t \in Int, NEW d \in Int, NEW config \in SettingsRows, NEW ovs \in Overrides,
         DayOf(t) + d \in Horizon, NEW c \in Openings(t, d, config, ovs)
  PROVE  c \in Int /\ DayOf(c) = DayOf(t) + d /\ IsCurrentlyOpen(c, config, ovs)
<1> DEFINE u == t + d * DayLength
           s == ResolveDaySchedule(u, config.opening, ovs)
<1>1. u \in Int /\ DayOf(u) = DayOf(t) + d
  <2>1. 0 \in TimeOfDay
    BY DEF TimeOfDay
  <2>2. DayOf(u) = DayOf(t) + d
    BY <2>1, AtTime
  <2> QED BY <2>2, Units
<1>2. s \in {Closed} \cup DaySchedules
  <2>1. config.opening \in WeeklyHours
    BY DEF SettingsRows
  <2> QED BY <1>1, <2>1, ResolvedSchedule
<1>3. s # Closed /\ c \in {At(u, m) : m \in {s.open, s.dinnerOpen} \ {Unset}}
  BY DEF Openings
<1> HIDE DEF s
<1>4. PICK iv \in Intervals(s) : c = At(u, iv.open)
  <2>1. PICK m \in {s.open, s.dinnerOpen} \ {Unset} : c = At(u, m)
    BY <1>3
  <2> QED BY <1>2, <1>3, <2>1, OpeningsOfServices
<1>5. PICK open \in TimeOfDay : open = iv.open
  BY <1>2, <1>3, ServicesInOrder
<1>6. PICK close \in TimeOfDay : close = iv.close /\ open < close
  BY <1>2, <1>3, <1>5, ServicesInOrder
<1>7. IsTime(c, DayOf(t) + d, open, 0)
  BY <1>4, <1>5, AtTime
<1>8. c \in Int /\ DayOf(c) = DayOf(t) + d /\ MinuteOf(c) = open
  <2>1. c \in Int
    BY <1>7 DEF IsTime
  <2>2. \A day : IsTime(c, day, open, 0) => DayOf(c) = day /\ MinuteOf(c) = open
    BY TimeOfADay, Zenon
  <2> QED BY <1>7, <2>1, <2>2
<1>9. ResolveDaySchedule(c, config.opening, ovs) = s
  BY <1>1, <1>8 DEF ResolveDaySchedule, Weekday, s
<1>10. iv.open <= MinuteOf(c) /\ MinuteOf(c) < iv.close
  BY <1>5, <1>6, <1>8 DEF TimeOfDay
<1> QED BY <1>3, <1>8, <1>9, <1>10 DEF IsCurrentlyOpen, IsWithinSchedule

\* An opening is a service's, and found that many days ahead.
LEMMA OpeningOfService ==
  ASSUME NEW t \in Int, NEW d \in Int, NEW config \in SettingsRows, NEW ovs \in Overrides,
         DayOf(t) + d \in Horizon, NEW x \in Int, DayOf(x) = DayOf(t) + d, IsCurrentlyOpen(x, config, ovs)
  PROVE  \E o \in Openings(t, d, config, ovs) :
           /\ o \in Int /\ o <= x /\ DayOf(o) = DayOf(x)
           /\ \A y \in Int : DayOf(y) = DayOf(x) /\ o <= y /\ y <= x => IsCurrentlyOpen(y, config, ovs)
<1> DEFINE u == t + d * DayLength
           s == ResolveDaySchedule(u, config.opening, ovs)
<1>1. u \in Int /\ DayOf(u) = DayOf(x)
  <2>1. 0 \in TimeOfDay
    BY DEF TimeOfDay
  <2>2. DayOf(u) = DayOf(t) + d
    BY <2>1, AtTime
  <2> QED BY <2>2, Units
<1>2. s \in {Closed} \cup DaySchedules
  <2>1. config.opening \in WeeklyHours
    BY DEF SettingsRows
  <2> QED BY <1>1, <2>1, ResolvedSchedule
<1>3. \A y : DayOf(y) = DayOf(x) => ResolveDaySchedule(y, config.opening, ovs) = s
  BY <1>1 DEF ResolveDaySchedule, Weekday
<1>4. Openings(t, d, config, ovs) =
        IF s = Closed THEN {} ELSE {At(u, m) : m \in {s.open, s.dinnerOpen} \ {Unset}}
  BY DEF Openings
<1> HIDE DEF s
<1>5. s # Closed /\ \E iv \in Intervals(s) : iv.open <= MinuteOf(x) /\ MinuteOf(x) < iv.close
  BY <1>3 DEF IsCurrentlyOpen, IsWithinSchedule
<1>6. PICK iv \in Intervals(s) : iv.open <= MinuteOf(x) /\ MinuteOf(x) < iv.close
  BY <1>5
<1>7. PICK open \in TimeOfDay : open = iv.open
  BY <1>2, <1>5, ServicesInOrder
<1>8. PICK close \in TimeOfDay : close = iv.close
  BY <1>2, <1>5, ServicesInOrder
<1> DEFINE o == At(u, open)
<1>9. o \in Openings(t, d, config, ovs)
  <2>1. open \in {s.open, s.dinnerOpen} \ {Unset}
    <3>1. s \in DaySchedules
      BY <1>2, <1>5
    <3>2. open \in {i.open : i \in Intervals(s)}
      BY <1>7
    <3> QED BY <3>1, <3>2, OpeningsOfServices, Zenon
  <2> QED BY <1>4, <1>5, <2>1
<1>10. IsTime(o, DayOf(x), open, 0)
  <2>1. IsTime(At(u, open), DayOf(u), open, 0)
    BY <1>1, AtToday
  <2> QED BY <1>1, <2>1
<1> HIDE DEF o
<1>11. o \in Int /\ DayOf(o) = DayOf(x)
  <2>1. \A day : IsTime(o, day, open, 0) => DayOf(o) = day
    BY TimeOfADay, Zenon
  <2> QED BY <1>10, <2>1 DEF IsTime
<1>12. o <= x
  <2>1. IsTime(x, DayOf(x), MinuteOf(x), x % 2)
    BY DayAndTime
  <2>2. PICK m \in TimeOfDay : m = MinuteOf(x)
    BY <2>1 DEF IsTime, TimeOfDay
  <2>3. open <= m
    BY <1>6, <1>7, <2>2
  <2>4. IsTime(x, DayOf(x), m, x % 2)
    BY <2>1, <2>2
  <2> QED BY <1>10, <2>3, <2>4, InstantsInOrder
<1>13. ASSUME NEW y \in Int, DayOf(y) = DayOf(x), o <= y, y <= x
       PROVE  IsCurrentlyOpen(y, config, ovs)
  <2>1. IsTime(x, DayOf(x), MinuteOf(x), x % 2)
    BY DayAndTime
  <2>2. IsTime(y, DayOf(x), MinuteOf(y), y % 2)
    <3>1. IsTime(y, DayOf(y), MinuteOf(y), y % 2)
      BY DayAndTime
    <3> QED BY <1>13, <3>1
  <2>3. open <= MinuteOf(y) /\ MinuteOf(y) <= MinuteOf(x)
    BY <1>10, <1>13, <2>1, <2>2, InstantsInOrder
  <2>4. PICK m \in TimeOfDay : m = MinuteOf(x)
    BY <2>1 DEF IsTime, TimeOfDay
  <2>5. PICK k \in TimeOfDay : k = MinuteOf(y)
    BY <2>2 DEF IsTime, TimeOfDay
  <2>6. open <= k /\ k < close
    <3>1. k <= m /\ m < close
      BY <1>6, <1>8, <2>3, <2>4, <2>5
    <3> QED BY <2>3, <2>5, <3>1 DEF TimeOfDay
  <2>7. open <= MinuteOf(y) /\ MinuteOf(y) < close
    BY <2>5, <2>6
  <2>8. ResolveDaySchedule(y, config.opening, ovs) = s
    BY <1>3, <1>13
  <2> QED BY <1>5, <1>7, <1>8, <2>7, <2>8 DEF IsCurrentlyOpen, IsWithinSchedule
<1> QED BY <1>9, <1>11, <1>12, <1>13

\* What is looked at are openings, and an opening to come is no earlier than one.
LEMMA LookedAtFirst ==
  ASSUME NEW t \in Int, NEW d \in Int, NEW config \in SettingsRows, NEW ovs \in Overrides,
         DayOf(t) + d \in Horizon
  PROVE  /\ Looked(t, d, config, ovs) \subseteq Openings(t, d, config, ovs)
         /\ \A o \in Openings(t, d, config, ovs) : o > t =>
              \E e \in Looked(t, d, config, ovs) : e > t /\ e <= o
<1> DEFINE u == t + d * DayLength
           s == ResolveDaySchedule(u, config.opening, ovs)
<1>1. u \in Int /\ DayOf(u) = DayOf(t) + d
  <2>1. 0 \in TimeOfDay
    BY DEF TimeOfDay
  <2>2. DayOf(u) = DayOf(t) + d
    BY <2>1, AtTime
  <2> QED BY <2>2, Units
<1>2. s \in {Closed} \cup DaySchedules
  <2>1. config.opening \in WeeklyHours
    BY DEF SettingsRows
  <2> QED BY <1>1, <2>1, ResolvedSchedule
<1>3. /\ Openings(t, d, config, ovs) =
           IF s = Closed THEN {} ELSE {At(u, m) : m \in {s.open, s.dinnerOpen} \ {Unset}}
      /\ Looked(t, d, config, ovs) =
           IF s = Closed THEN {}
           ELSE {At(u, m) : m \in IF At(u, s.open) > t THEN {s.open} ELSE {s.dinnerOpen} \ {Unset}}
  BY DEF Openings, Looked
<1> HIDE DEF s, u
<1>4. CASE s = Closed
  BY <1>3, <1>4
<1>5. CASE s # Closed
  <2>1. s.open \in TimeOfDay /\ s.open # Unset
    <3>1. s.open \in TimeOfDay
      BY <1>2, <1>5 DEF DaySchedules
    <3> QED BY <3>1, UnsetIsNoTime
  <2>2. s.dinnerOpen # Unset => s.dinnerOpen \in TimeOfDay /\ s.open < s.dinnerOpen
    <3>1. s.dinnerOpen # Unset => HasDinner(s)
      BY <1>2, <1>5 DEF DaySchedules, InOrder, HasDinner
    <3>2. HasDinner(s) => /\ s.close \in TimeOfDay /\ s.dinnerOpen \in TimeOfDay
                          /\ s.open < s.close /\ s.close < s.dinnerOpen
      BY <1>2, <1>5 DEF DaySchedules, InOrder, HasDinner
    <3>3. ASSUME s.dinnerOpen # Unset PROVE s.dinnerOpen \in TimeOfDay /\ s.open < s.dinnerOpen
      <4>1. PICK i \in TimeOfDay : i = s.open
        BY <2>1
      <4>2. PICK k \in TimeOfDay : k = s.close
        BY <3>1, <3>2, <3>3
      <4>3. PICK j \in TimeOfDay : j = s.dinnerOpen
        BY <3>1, <3>2, <3>3
      <4>4. i < k /\ k < j
        BY <3>1, <3>2, <3>3, <4>1, <4>2, <4>3
      <4>5. i < j
        BY <4>4 DEF TimeOfDay
      <4> QED BY <4>1, <4>3, <4>5
    <3> QED BY <3>3
  <2>3. Looked(t, d, config, ovs) \subseteq Openings(t, d, config, ovs)
    BY <1>3, <1>5, <2>1
  <2>4. ASSUME NEW o \in Openings(t, d, config, ovs), o > t
        PROVE  \E e \in Looked(t, d, config, ovs) : e > t /\ e <= o
    <3>1. PICK m \in {s.open, s.dinnerOpen} \ {Unset} : o = At(u, m)
      BY <1>3, <1>5
    <3>2. PICK i \in TimeOfDay : i = s.open
      BY <2>1
    <3>3. PICK j \in TimeOfDay : j = m /\ i <= j
      <4>1. CASE m = s.open
        <5>1. i <= i
          BY DEF TimeOfDay
        <5> QED BY <3>2, <4>1, <5>1
      <4>2. CASE m = s.dinnerOpen
        <5>1. m \in TimeOfDay /\ i < m
          BY <2>2, <3>1, <3>2, <4>2
        <5>2. PICK j \in TimeOfDay : j = m /\ i < j
          BY <5>1
        <5>3. i <= j
          BY <5>2 DEF TimeOfDay
        <5> QED BY <5>2, <5>3
      <4> QED BY <3>1, <4>1, <4>2
    <3>4. At(u, i) \in Int /\ At(u, j) \in Int /\ At(u, i) <= At(u, j)
      <4>1. IsTime(At(u, i), DayOf(u), i, 0) /\ IsTime(At(u, j), DayOf(u), j, 0)
        BY <1>1, AtToday
      <4> QED BY <3>3, <4>1 DEF IsTime, TimeOfDay
    <3>5. CASE At(u, s.open) > t
      BY <1>3, <1>5, <3>1, <3>2, <3>3, <3>4, <3>5
    <3>6. CASE ~(At(u, s.open) > t)
      <4>1. m = s.dinnerOpen
        BY <2>4, <3>1, <3>6
      <4>2. o \in Looked(t, d, config, ovs) /\ o \in Int
        BY <1>3, <1>5, <3>1, <3>3, <3>4, <3>6, <4>1
      <4> QED BY <2>4, <4>2
    <3> QED BY <3>5, <3>6
  <2> QED BY <2>3, <2>4
<1> QED BY <1>4, <1>5

\* The next opening is open, and nothing between is if the restaurant is closed now.
LEMMA NextOpens ==
  ASSUME NEW t \in Nat, NEW config \in SettingsRows, NEW ovs \in Overrides,
         DayOf(t)..(DayOf(t) + 6) \subseteq Horizon,
         NEW next, next = NextOpeningAt(t, config, ovs), next # Unset
  PROVE  /\ next \in Int /\ IsCurrentlyOpen(next, config, ovs)
         /\ ~IsCurrentlyOpen(t, config, ovs) =>
              \A d \in 0..(DayOf(next) - DayOf(t)), x \in Int :
                DayOf(x) = DayOf(t) + d /\ t < x /\ x < next => ~IsCurrentlyOpen(x, config, ovs)
<1> DEFINE Future == FutureOpenings(t, config, ovs)
<1>0. PICK day \in Int : day = DayOf(t)
  BY DayAndTimeTypes
<1>1. \A d \in 0..6 : DayOf(t) + d \in Horizon
  BY <1>0
<1>2. \A c \in Future : /\ c \in Int /\ c > t /\ IsCurrentlyOpen(c, config, ovs)
                        /\ \E d \in 0..6 : DayOf(c) = DayOf(t) + d
  <2>1. TAKE c \in Future
  <2>2. PICK d \in 0..6 : c \in Openings(t, d, config, ovs)
    <3>1. PICK d \in 0..6 : c \in Looked(t, d, config, ovs)
      BY <2>1 DEF FutureOpenings
    <3> QED BY <1>1, <3>1, LookedAtFirst
  <2>3. c > t
    BY <2>1 DEF FutureOpenings
  <2>4. c \in Int /\ DayOf(c) = DayOf(t) + d /\ IsCurrentlyOpen(c, config, ovs)
    BY <1>1, <2>2, OpeningIsOpen
  <2> QED BY <2>3, <2>4
<1>3. Future # {} /\ next = CHOOSE c \in Future : \A o \in Future : c <= o
  BY NextIsLeast
<1>4. next \in Future /\ \A o \in Future : next <= o
  <2> HIDE DEF Future
  <2>1. Future \subseteq Nat
    BY <1>2
  <2>2. \E c \in Future : \A o \in Future : c <= o
    BY <1>3, <2>1, SomeLeast
  <2> QED BY <1>3, <2>2
<1>5. PICK n \in 0..6 : DayOf(next) = DayOf(t) + n
  BY <1>2, <1>4
<1>6. ASSUME ~IsCurrentlyOpen(t, config, ovs), NEW d \in 0..(DayOf(next) - DayOf(t)), NEW x \in Int,
             DayOf(x) = DayOf(t) + d, t < x, x < next, IsCurrentlyOpen(x, config, ovs)
      PROVE  FALSE
  <2>1. d \in 0..6
    BY <1>0, <1>5, <1>6
  <2>2. PICK o \in Openings(t, d, config, ovs) :
             /\ o \in Int /\ o <= x /\ DayOf(o) = DayOf(x)
             /\ \A y \in Int : DayOf(y) = DayOf(x) /\ o <= y /\ y <= x => IsCurrentlyOpen(y, config, ovs)
    BY <1>1, <1>6, <2>1, OpeningOfService
  <2>3. CASE o > t
    <3>1. PICK e \in Looked(t, d, config, ovs) : e > t /\ e <= o
      BY <1>1, <2>1, <2>2, <2>3, LookedAtFirst
    <3>2. e \in Future
      BY <2>1, <3>1 DEF FutureOpenings
    <3> QED BY <1>2, <1>4, <1>6, <2>2, <3>1, <3>2
  <2>4. CASE ~(o > t)
    <3>1. o <= t /\ t <= x
      BY <1>6, <2>2, <2>4
    <3>2. DayOf(t) = DayOf(x)
      <4>1. IsTime(t, DayOf(t), MinuteOf(t), t % 2) /\ IsTime(o, DayOf(o), MinuteOf(o), o % 2)
        BY <2>2, DayAndTime
      <4>2. DayOf(o) <= DayOf(t)
        BY <3>1, <4>1, InstantsInOrder
      <4>3. PICK e \in Int : e = d /\ 0 <= e
        BY <2>1
      <4>4. DayOf(x) = day + e
        BY <1>0, <1>6, <4>3
      <4> QED BY <1>0, <2>2, <4>2, <4>3, <4>4
    <3>3. IsCurrentlyOpen(t, config, ovs)
      BY <2>2, <3>1, <3>2
    <3> QED BY <1>6, <3>3
  <2> QED BY <2>3, <2>4
<1> QED BY <1>2, <1>4, <1>6
-----------------------------------------------------------------------------
(* The inductive invariant: a request carries the settings it read, and an *)
(* answer is the answer for what it read.                                  *)

Preferences == Int \cup {Unset}

\* A record of a visit, its fields taken from some set.
VisitRowOver(v, S) ==
  v \in [pc : S, config : S, preferred : S, slots : S, at : S, overrides : S, lunch : S]
IsVisitRow(v) == \E S : VisitRowOver(v, S)

\* What a request has read, where that is services in order.
HasRead(v) == v.config \in SettingsRows /\ v.at \in Instants /\ v.overrides \in Overrides

VisitOk(c, v) ==
  /\ IsVisitRow(v)
  /\ v.pc = "offered" /\ c \notin Reviewers =>
       v.at \in Instants /\ v.slots = AvailableSlotsToday(v.at, v.config, v.overrides)
  /\ v.pc = "gate" => v.preferred \in Preferences
  /\ v.pc = "accepted" /\ c \notin Reviewers =>
       /\ v.at \in Instants /\ v.preferred \in Preferences
       /\ PreferredReadyTimeAccepted(v.preferred, v.at, v.config, v.overrides)
       /\ v.lunch = IsLunchOnlyAllowed(When(v.preferred, v.at), v.config, v.overrides)

ShopInv ==
  /\ clock \in Instants
  /\ visit = [c \in Shoppers |-> visit[c]]
  /\ \A c \in Shoppers : VisitOk(c, visit[c])

\* An instant of the clock, and the week it can look ahead to.
LEMMA InstantTypes ==
  ASSUME NEW t \in Instants
  PROVE  t \in Nat /\ t \in Int /\ DayOf(t) \in Horizon
<1>1. t \in Nat
  BY StorefrontAssumption
<1>2. PICK d \in Int : d = DayOf(t)
  BY <1>1, DayAndTimeTypes
<1>3. d \in d..(d + 6)
  OBVIOUS
<1> QED BY <1>1, <1>2, <1>3, StorefrontAssumption

LEMMA EmptyVisit == \A c : VisitOk(c, NoVisit)
<1>1. VisitRowOver(NoVisit, {"idle", Unset, {}, FALSE})
  BY DEF VisitRowOver, NoVisit
<1>2. NoVisit.pc = "idle"
  BY DEF NoVisit
<1> QED BY <1>1, <1>2 DEF VisitOk, IsVisitRow

LEMMA ShopInit == StorefrontInit => ShopInv
<1> SUFFICES ASSUME StorefrontInit PROVE ShopInv
  OBVIOUS
<1>3. clock \in Instants
  <2>1. \E t \in Instants : \A u \in Instants : t <= u
    BY StorefrontAssumption, SomeLeast
  <2> QED BY <2>1 DEF StorefrontInit
<1>4. visit = [c \in Shoppers |-> visit[c]] /\ \A c \in Shoppers : visit[c] = NoVisit
  BY DEF StorefrontInit
<1>5. \A c : VisitOk(c, NoVisit)
  BY EmptyVisit
<1> QED BY <1>3, <1>4, <1>5 DEF ShopInv

\* One request moves on.
LEMMA VisitKeeps ==
  ASSUME ShopInv, NEW c \in Shoppers, NEW v, Visit(c, v), VisitOk(c, v)
  PROVE  ShopInv'
<1>1. clock' = clock
  BY DEF Visit
<1>2. visit' = [visit EXCEPT ![c] = v]
  BY DEF Visit
<1>3. visit' = [b \in Shoppers |-> IF b = c THEN v ELSE visit[b]]
  BY <1>2 DEF ShopInv
<1>4. visit' = [b \in Shoppers |-> visit'[b]] /\ \A b \in Shoppers : VisitOk(b, visit'[b])
  BY <1>3 DEF ShopInv
<1>5. \A b \in Shoppers : VisitOk(b, visit[b])'
  BY <1>4 DEF VisitOk, IsVisitRow
<1> QED BY <1>1, <1>4, <1>5 DEF ShopInv

\* What an offered slot's time is, whatever the schedule.
LEMMA SlotTimes ==
  ASSUME NEW t \in Instants, NEW config, NEW ovs, NEW s \in AvailableSlotsToday(t, config, ovs)
  PROVE  s.at \in Int
<1>1. PICK iv, c : c \in SlotsOf(iv, t, config) /\ s.at = c
  BY DEF AvailableSlotsToday
<1>2. PICK k \in 0..95 : s.at = At(t, 15 * k)
  BY <1>1 DEF SlotsOf
<1>3. 15 * k \in TimeOfDay
  BY DEF TimeOfDay
<1>4. IsTime(At(t, 15 * k), DayOf(t), 15 * k, 0)
  BY <1>3, InstantTypes, AtToday
<1> QED BY <1>2, <1>4 DEF IsTime

LEMMA ShopStep == ShopInv /\ [StorefrontNext]_storefrontVars => ShopInv'
<1> SUFFICES ASSUME ShopInv, [StorefrontNext]_storefrontVars PROVE ShopInv'
  OBVIOUS
<1>1. ASSUME clock' \in Instants, visit' = visit
      PROVE  ShopInv'
  BY <1>1 DEF ShopInv, VisitOk, IsVisitRow
<1>2. ASSUME Tick PROVE ShopInv'
  BY <1>1, <1>2 DEF Tick, ShopInv
<1>3. ASSUME NEW a \in Admins,
             \/ UpdateOrderingEnabled(a) \/ UpdateOpeningHours(a) \/ UpdateOrderingHours(a)
             \/ UpdatePreparationMinutes(a)
      PROVE  ShopInv'
  <2>1. \E row : StoreSettings(a, row)
    BY <1>3 DEF UpdateOrderingEnabled, UpdateOpeningHours, UpdateOrderingHours, UpdatePreparationMinutes
  <2> QED BY <1>1, <2>1 DEF StoreSettings, ShopInv
<1>8. ASSUME NEW a \in Admins, UpsertScheduleOverride(a) \/ DeleteScheduleOverride(a) PROVE ShopInv'
  <2>1. \E d, value : StoreOverride(a, d, value)
    BY <1>8 DEF UpsertScheduleOverride, DeleteScheduleOverride
  <2> QED BY <1>1, <2>1 DEF StoreOverride, ShopInv
<1>9. ASSUME NEW a \in Admins, \/ ListOverrides(a) \/ PublishOverrides(a) \/ RereadSettings(a)
                               \/ PublishSettings(a) \/ ReadFails(a)
      PROVE  ShopInv'
  <2>1. UNCHANGED <<clock, visit>>
    BY <1>9 DEF ListOverrides, PublishOverrides, RereadSettings, PublishSettings, ReadFails, Step
  <2> QED BY <1>1, <2>1 DEF ShopInv
<1>10. ASSUME NEW c \in Shoppers, AskSlots(c) PROVE ShopInv'
  <2>1. VisitOk(c, [NoVisit EXCEPT !.pc = "slots", !.config = settings])
    <3> DEFINE v == [NoVisit EXCEPT !.pc = "slots", !.config = settings]
    <3>1. VisitRowOver(v, {"slots", settings, Unset, {}, FALSE})
      BY DEF VisitRowOver, NoVisit
    <3>2. v.pc = "slots" /\ v.config = settings
      BY DEF NoVisit
    <3> HIDE DEF v
    <3>3. VisitOk(c, v)
      BY <3>1, <3>2 DEF VisitOk, IsVisitRow, ShopInv
    <3> QED BY <3>3 DEF v
  <2> QED BY <1>10, <2>1, VisitKeeps DEF AskSlots
<1>11. ASSUME NEW c \in Shoppers, AvailableSlots(c) PROVE ShopInv'
  <2> DEFINE slots == AvailableSlotsToday(clock, visit[c].config, overrides)
             shown == IF slots = {} /\ c \in Reviewers THEN ReviewSlotsToday(clock, visit[c].config) ELSE slots
             v == [visit[c] EXCEPT !.pc = "offered", !.at = clock, !.overrides = overrides, !.slots = shown]
  <2>1. visit[c].pc = "slots" /\ Visit(c, v)
    BY <1>11 DEF AvailableSlots
  <2>2. IsVisitRow(visit[c])
    BY <2>1 DEF ShopInv, VisitOk
  <2>3. c \notin Reviewers => shown = slots
    OBVIOUS
  <2> HIDE DEF shown
  <2>4. /\ v.pc = "offered" /\ v.at = clock /\ v.overrides = overrides /\ v.slots = shown
        /\ v.config = visit[c].config /\ IsVisitRow(v)
    <3>1. PICK S : VisitRowOver(visit[c], S)
      BY <2>2 DEF IsVisitRow
    <3>2. VisitRowOver(v, S \cup {"offered", clock, overrides, shown})
      BY <3>1 DEF VisitRowOver
    <3>3. /\ v.pc = "offered" /\ v.at = clock /\ v.overrides = overrides /\ v.slots = shown
          /\ v.config = visit[c].config
      BY <3>1 DEF VisitRowOver
    <3> QED BY <3>2, <3>3 DEF IsVisitRow
  <2> HIDE DEF v
  <2>5. VisitOk(c, v)
    BY <2>3, <2>4 DEF VisitOk, ShopInv
  <2> QED BY <2>1, <2>5, VisitKeeps
<1>12. ASSUME NEW c \in Shoppers, CheckOut(c) PROVE ShopInv'
  <2>1. visit[c].pc = "offered" /\ VisitOk(c, visit[c])
    BY <1>12 DEF CheckOut, ShopInv
  <2>2. PICK p \in {s.at : s \in visit[c].slots} \cup OtherTimes \cup {Unset} :
          Visit(c, IF c \in Reviewers
                   THEN [visit[c] EXCEPT !.pc = "accepted", !.preferred = p, !.at = clock, !.lunch = TRUE]
                   ELSE [NoVisit EXCEPT !.pc = "gate", !.config = settings, !.preferred = p])
    BY <1>12 DEF CheckOut
  <2>3. CASE c \in Reviewers
    <3> DEFINE v == [visit[c] EXCEPT !.pc = "accepted", !.preferred = p, !.at = clock, !.lunch = TRUE]
    <3>1. v.pc = "accepted" /\ IsVisitRow(v)
      <4>1. PICK S : VisitRowOver(visit[c], S)
        BY <2>1 DEF VisitOk, IsVisitRow
      <4>2. VisitRowOver(v, S \cup {"accepted", p, clock, TRUE}) /\ v.pc = "accepted"
        BY <4>1 DEF VisitRowOver
      <4> QED BY <4>2 DEF IsVisitRow
    <3>2. Visit(c, v)
      BY <2>2, <2>3
    <3> HIDE DEF v
    <3>3. VisitOk(c, v)
      BY <2>3, <3>1 DEF VisitOk
    <3> QED BY <3>2, <3>3, VisitKeeps
  <2>4. CASE c \notin Reviewers
    <3>1. \A s \in visit[c].slots : s.at \in Int
      BY <2>1, <2>4, SlotTimes DEF VisitOk
    <3>2. p \in Preferences
      BY <2>2, <3>1, StorefrontAssumption DEF Preferences
    <3>3. VisitOk(c, [NoVisit EXCEPT !.pc = "gate", !.config = settings, !.preferred = p])
      <4> DEFINE v == [NoVisit EXCEPT !.pc = "gate", !.config = settings, !.preferred = p]
      <4>1. VisitRowOver(v, {"gate", settings, p, Unset, {}, FALSE})
        BY DEF VisitRowOver, NoVisit
      <4>2. v.pc = "gate" /\ v.config = settings /\ v.preferred = p
        BY DEF NoVisit
      <4> HIDE DEF v
      <4>3. VisitOk(c, v)
        BY <3>2, <4>1, <4>2 DEF VisitOk, IsVisitRow, ShopInv
      <4> QED BY <4>3 DEF v
    <3> QED BY <2>2, <2>4, <3>3, VisitKeeps
  <2> QED BY <2>3, <2>4
<1>13. ASSUME NEW c \in Shoppers, Gate(c) PROVE ShopInv'
  <2> DEFINE p == visit[c].preferred
             config == visit[c].config
             lunch == IsLunchOnlyAllowed(When(p, clock), config, overrides)
             v == [visit[c] EXCEPT !.pc = "accepted", !.at = clock, !.overrides = overrides, !.lunch = lunch]
  <2>1. /\ visit[c].pc = "gate"
        /\ Visit(c, IF config.enabled /\ PreferredReadyTimeAccepted(p, clock, config, overrides) THEN v ELSE NoVisit)
    BY <1>13 DEF Gate, When
  <2>2. IsVisitRow(visit[c]) /\ p \in Preferences
    BY <2>1 DEF ShopInv, VisitOk
  <2>3. /\ v.pc = "accepted" /\ v.at = clock /\ v.overrides = overrides /\ v.lunch = lunch
        /\ v.preferred = p /\ v.config = config /\ IsVisitRow(v)
    <3> HIDE DEF lunch
    <3>1. PICK S : VisitRowOver(visit[c], S)
      BY <2>2 DEF IsVisitRow
    <3>2. VisitRowOver(v, S \cup {"accepted", clock, overrides, lunch})
      BY <3>1 DEF VisitRowOver
    <3>3. /\ v.pc = "accepted" /\ v.at = clock /\ v.overrides = overrides /\ v.lunch = lunch
          /\ v.preferred = p /\ v.config = config
      BY <3>1 DEF VisitRowOver
    <3> QED BY <3>2, <3>3 DEF IsVisitRow
  <2>4. CASE PreferredReadyTimeAccepted(p, clock, config, overrides) /\ Visit(c, v)
    <3> HIDE DEF v
    <3>1. VisitOk(c, v)
      BY <2>2, <2>3, <2>4 DEF VisitOk, ShopInv
    <3> QED BY <2>4, <3>1, VisitKeeps
  <2>5. CASE Visit(c, NoVisit)
    <3>1. VisitOk(c, NoVisit)
      BY EmptyVisit
    <3> QED BY <2>5, <3>1, VisitKeeps
  <2> QED BY <2>1, <2>4, <2>5
<1>14. CASE UNCHANGED storefrontVars
  BY <1>1, <1>14 DEF storefrontVars, ShopInv
<1> QED BY <1>2, <1>3, <1>8, <1>9, <1>10, <1>11, <1>12, <1>13, <1>14 DEF StorefrontNext

\* The answers a request carries are right for what it read.
LEMMA ShopHonours == ShopInv => SlotsHonoured
<1> SUFFICES ASSUME ShopInv PROVE SlotsHonoured
  OBVIOUS
<1>1. \A c \in Shoppers : Offered(c) =>
        /\ HasRead(visit[c])
        /\ visit[c].slots = AvailableSlotsToday(visit[c].at, visit[c].config, visit[c].overrides)
  BY DEF ShopInv, VisitOk, Offered, ReadRegular, Regular, HasRead, Overrides
<1>2. \A c \in Shoppers : Accepted(c) =>
        LET v == visit[c]
        IN  /\ HasRead(v) /\ v.preferred \in Preferences
            /\ PreferredReadyTimeAccepted(v.preferred, v.at, v.config, v.overrides)
            /\ v.lunch = IsLunchOnlyAllowed(When(v.preferred, v.at), v.config, v.overrides)
  BY DEF ShopInv, VisitOk, Accepted, ReadRegular, Regular, HasRead, Overrides
<1>3. \A v : HasRead(v) => /\ v.at \in Int /\ DayOf(v.at) \in Horizon
                           /\ v.config \in SettingsRows /\ v.overrides \in Overrides
  BY InstantTypes DEF HasRead
<1>4. OfferedIsBookableOnTheMinute
  BY <1>1, <1>3, OfferedIsAccepted DEF OfferedIsBookableOnTheMinute
<1>5. LunchFlagsAgree
  BY <1>1, <1>3, FlagIsTheAnswer DEF LunchFlagsAgree
<1>6. AcceptedWhileOpen
  <2> SUFFICES ASSUME NEW c \in Shoppers, Accepted(c)
               PROVE  LET v == visit[c]
                          when == When(v.preferred, v.at)
                          s == OrderingSchedule(when, v.config, v.overrides)
                      IN  /\ \/ IsOrderingCurrentlyOpen(when, v.config, v.overrides)
                             \/ s # Closed /\ MinuteOf(when) \in {iv.close : iv \in Intervals(s)}
                          /\ v.preferred # Unset => v.preferred - v.at >= Prep(v.config) * Minute
    BY DEF AcceptedWhileOpen, When
  <2> QED BY <1>2, <1>3, AcceptedInService DEF Preferences
<1>7. LunchOnlyBeforeDinner
  <2> SUFFICES ASSUME NEW c \in Shoppers, Accepted(c), visit[c].lunch
               PROVE  LET v == visit[c]
                          when == When(v.preferred, v.at)
                          s == OrderingSchedule(when, v.config, v.overrides)
                      IN  IsWeekday(when) /\ (HasDinner(s) => MinuteOf(when) < s.dinnerOpen)
    BY DEF LunchOnlyBeforeDinner, When
  <2>1. PICK v : v = visit[c]
    OBVIOUS
  <2>2. PICK when : when = When(v.preferred, v.at)
    OBVIOUS
  <2>3. when \in Int /\ DayOf(when) \in Horizon /\ IsLunchOnlyAllowed(when, v.config, v.overrides)
    <3>1. /\ HasRead(v) /\ v.preferred \in Preferences /\ v.lunch = IsLunchOnlyAllowed(when, v.config, v.overrides)
          /\ PreferredReadyTimeAccepted(v.preferred, v.at, v.config, v.overrides)
      BY <1>2, <2>1, <2>2
    <3>2. when \in Int /\ DayOf(when) = DayOf(v.at)
      <4>1. PICK config : config = v.config
        OBVIOUS
      <4>2. PICK ovs : ovs = v.overrides
        OBVIOUS
      <4>3. PICK t : t = v.at
        OBVIOUS
      <4>4. PICK p : p = v.preferred
        OBVIOUS
      <4>5. /\ t \in Int /\ DayOf(t) \in Horizon /\ config \in SettingsRows /\ ovs \in Overrides
            /\ p \in Int \cup {Unset} /\ PreferredReadyTimeAccepted(p, t, config, ovs)
        BY <1>3, <3>1, <4>1, <4>2, <4>3, <4>4 DEF Preferences
      <4>6. When(p, t) \in Int /\ DayOf(When(p, t)) = DayOf(t)
        BY <4>5, AcceptedToday, Zenon
      <4> QED BY <2>2, <4>3, <4>4, <4>6
    <3> QED BY <1>3, <2>1, <3>1, <3>2
  <2> QED BY <1>2, <1>3, <2>1, <2>2, <2>3, LunchBeforeDinner
<1>8. NextOpeningOpens
  <2> SUFFICES ASSUME Regular(settings, overrides) PROVE NextOpeningOpens
    BY DEF NextOpeningOpens
  <2> DEFINE next == NextOpeningAt(clock, settings, overrides)
  <2>1. /\ clock \in Nat /\ clock \in Int /\ settings \in SettingsRows /\ overrides \in Overrides
        /\ DayOf(clock)..(DayOf(clock) + 6) \subseteq Horizon
    BY InstantTypes, StorefrontAssumption DEF ShopInv, Regular, Overrides
  <2>2. next # Unset =>
          /\ next \in Int /\ IsCurrentlyOpen(next, settings, overrides)
          /\ ~IsCurrentlyOpen(clock, settings, overrides) =>
               \A d \in 0..(DayOf(next) - DayOf(clock)), x \in Int :
                 DayOf(x) = DayOf(clock) + d /\ clock < x /\ x < next => ~IsCurrentlyOpen(x, settings, overrides)
    BY <2>1, NextOpens
  <2> HIDE DEF next
  <2> DEFINE Then(d, k) == At(clock + d * DayLength, 15 * k)
  <2>3. \A d \in Int, k \in 0..95 : Then(d, k) \in Int /\ DayOf(Then(d, k)) = DayOf(clock) + d
    <3>1. TAKE d \in Int, k \in 0..95
    <3>2. PICK m \in TimeOfDay : m = 15 * k
      BY <3>1 DEF TimeOfDay
    <3>3. IsTime(At(clock + d * DayLength, m), DayOf(clock) + d, m, 0)
      BY <2>1, <3>1, AtTime
    <3>4. \A x, day : IsTime(x, day, m, 0) => x \in Int /\ DayOf(x) = day
      <4>1. \A x, day : IsTime(x, day, m, 0) => DayOf(x) = day
        BY TimeOfADay, Zenon
      <4>2. \A x, day : IsTime(x, day, m, 0) => x \in Int
        BY DEF IsTime
      <4> QED BY <4>1, <4>2
    <3> QED BY <3>2, <3>3, <3>4
  <2>4. next # Unset =>
          /\ IsCurrentlyOpen(next, settings, overrides)
          /\ ~IsCurrentlyOpen(clock, settings, overrides) =>
               \A d \in 0..(DayOf(next) - DayOf(clock)), k \in 0..95 :
                 clock < Then(d, k) /\ Then(d, k) < next => ~IsCurrentlyOpen(Then(d, k), settings, overrides)
    <3> HIDE DEF Then
    <3>1. ASSUME next # Unset, ~IsCurrentlyOpen(clock, settings, overrides),
                 NEW d \in 0..(DayOf(next) - DayOf(clock)), NEW k \in 0..95,
                 clock < Then(d, k), Then(d, k) < next
          PROVE  ~IsCurrentlyOpen(Then(d, k), settings, overrides)
      <4>1. d \in Int
        OBVIOUS
      <4>2. PICK x \in Int : x = Then(d, k) /\ DayOf(x) = DayOf(clock) + d
        BY <2>3, <4>1
      <4>3. clock < x /\ x < next
        BY <3>1, <4>2
      <4>4. ~IsCurrentlyOpen(x, settings, overrides)
        BY <2>2, <3>1, <4>2, <4>3
      <4> QED BY <4>2, <4>4
    <3> QED BY <2>2, <3>1
  <2> QED BY <2>4 DEF NextOpeningOpens, next
<1> QED BY <1>4, <1>5, <1>6, <1>7, <1>8 DEF SlotsHonoured

\* Whatever hours and overrides are stored, for the requests that read services in
\* order, and however mutations and requests interleave: offered slots are bookable
\* where the margins agree, accepted times lie in a service and leave the preparation
\* time, lunch products stop at dinner on a day with two services, lunch flags are the
\* answers createOrder gives, and the next opening announced is the next one.
THEOREM SlotsAreHonoured == StorefrontSpec => []SlotsHonoured
<1>1. ShopInv /\ [StorefrontNext]_storefrontVars => ShopInv'
  BY ShopStep
<1> QED BY ShopInit, ShopHonours, <1>1, PTL DEF StorefrontSpec
-----------------------------------------------------------------------------
(* The dashboards.  Every mutation broadcasts what it read last; only one  *)
(* that is alone is known to have read what is stored.                     *)

EditPhase == {"idle", "list", "publishList", "reread", "publish"}
Editing(a) == edit[a].pc # "idle"

BoardTypes ==
  /\ edit = [a \in Admins |-> edit[a]]
  /\ \A a \in Admins : edit[a].pc \in EditPhase
  /\ board = [settings |-> board.settings, overrides |-> board.overrides]

\* Mutations that overlap are marked; one that is alone broadcasts what is stored,
\* or has yet to read what it will broadcast.
BoardFollows ==
  /\ \A a, b \in Admins : a # b /\ Editing(a) /\ Editing(b) => {"settings", "overrides"} \subseteq disturbed
  /\ "settings" \notin disturbed =>
       \/ board.settings = settings
       \/ \E a \in Admins : edit[a].pc \in {"list", "publishList", "reread", "publish"}
  /\ "settings" \notin disturbed => \A a \in Admins : edit[a].pc = "publish" => edit[a].row = settings
  /\ "overrides" \notin disturbed =>
       \/ board.overrides = overrides
       \/ \E a \in Admins : edit[a].pc \in {"list", "publishList"}
  /\ "overrides" \notin disturbed => \A a \in Admins : edit[a].pc = "publishList" => edit[a].row = overrides

BoardInv == BoardTypes /\ BoardFollows

LEMMA InitBoard == StorefrontInit => BoardInv
<1> SUFFICES ASSUME StorefrontInit PROVE BoardInv
  OBVIOUS
<1>1. \A a \in Admins : edit[a] = [pc |-> "idle", row |-> Unset]
  BY DEF StorefrontInit, Resting
<1>2. BoardTypes
  BY <1>1 DEF StorefrontInit, BoardTypes, EditPhase
<1>3. BoardFollows
  BY <1>1 DEF StorefrontInit, BoardFollows, Editing
<1> QED BY <1>2, <1>3 DEF BoardInv

LEMMA StepOfOneAdmin ==
  ASSUME BoardTypes, NEW a \in Admins, NEW e, e.pc \in EditPhase, edit' = [edit EXCEPT ![a] = e]
  PROVE  /\ edit'[a] = e /\ \A b \in Admins \ {a} : edit'[b] = edit[b]
         /\ edit' = [b \in Admins |-> edit'[b]]
         /\ \A b \in Admins : edit'[b].pc \in EditPhase
<1>1. edit' = [b \in Admins |-> IF b = a THEN e ELSE edit[b]]
  BY DEF BoardTypes
<1> QED BY <1>1 DEF BoardTypes

\* A mutation that begins beside another marks everything, one that begins alone
\* clears what it is about to broadcast.
LEMMA BeginKeeps ==
  ASSUME BoardInv, NEW a \in Admins,
         \/ \E row : StoreSettings(a, row)
         \/ \E d, value : StoreOverride(a, d, value)
  PROVE  BoardInv'
<1>0. BoardTypes /\ BoardFollows
  BY DEF BoardInv
<1>1. PICK e, rebroadcast :
        /\ Begin(a, e, rebroadcast)
        /\ \/ /\ e = [pc |-> "publish", row |-> settings'] /\ rebroadcast = {"settings"}
              /\ UNCHANGED overrides
           \/ /\ e = [pc |-> "list", row |-> Unset] /\ rebroadcast = {"settings", "overrides"}
              /\ UNCHANGED settings
        /\ UNCHANGED board
  <2>1. CASE \E row : StoreSettings(a, row)
    BY <2>1 DEF StoreSettings
  <2>2. CASE \E d, value : StoreOverride(a, d, value)
    BY <2>2 DEF StoreOverride
  <2> QED BY <2>1, <2>2
<1>2. /\ edit'[a] = e /\ \A b \in Admins \ {a} : edit'[b] = edit[b]
      /\ edit' = [b \in Admins |-> edit'[b]]
      /\ \A b \in Admins : edit'[b].pc \in EditPhase
  <2>1. e.pc \in EditPhase /\ edit' = [edit EXCEPT ![a] = e]
    BY <1>1 DEF Begin, EditPhase
  <2> QED BY <1>0, <2>1, StepOfOneAdmin
<1>3. BoardTypes'
  BY <1>0, <1>1, <1>2 DEF BoardTypes
<1>4. CASE \E b \in Admins \ {a} : Editing(b)
  <2>1. disturbed' = {"settings", "overrides"}
    BY <1>1, <1>4 DEF Begin, Editing
  <2> QED BY <1>3, <2>1 DEF BoardInv, BoardFollows
<1>5. CASE \A b \in Admins \ {a} : ~Editing(b)
  <2>1. disturbed' = disturbed \ rebroadcast /\ \A b \in Admins : edit[b].pc = "idle"
    BY <1>1, <1>5 DEF Begin, Editing
  <2>2. \A b \in Admins \ {a} : edit'[b].pc = "idle"
    BY <1>2, <2>1
  <2>3. "overrides" \notin disturbed => board.overrides = overrides
    BY <1>0, <2>1 DEF BoardFollows
  <2>4. BoardFollows'
    <3>1. CASE e = [pc |-> "publish", row |-> settings'] /\ rebroadcast = {"settings"} /\ UNCHANGED overrides
      BY <1>1, <1>2, <2>1, <2>2, <2>3, <3>1 DEF BoardFollows, Editing
    <3>2. CASE e = [pc |-> "list", row |-> Unset] /\ rebroadcast = {"settings", "overrides"}
      BY <1>1, <1>2, <2>1, <2>2, <3>2 DEF BoardFollows, Editing
    <3> QED BY <1>1, <3>1, <3>2
  <2> QED BY <1>3, <2>4 DEF BoardInv
<1> QED BY <1>4, <1>5

\* The steps of a broadcast.
LEMMA BroadcastKeeps ==
  ASSUME BoardInv, NEW a \in Admins,
         ListOverrides(a) \/ PublishOverrides(a) \/ RereadSettings(a) \/ PublishSettings(a) \/ ReadFails(a)
  PROVE  BoardInv'
<1>0. BoardTypes /\ BoardFollows
  BY DEF BoardInv
<1>1. PICK from, e : Step(a, from, e) /\ e.pc \in EditPhase /\ from # "idle"
  BY DEF ListOverrides, PublishOverrides, RereadSettings, PublishSettings, ReadFails, Resting, EditPhase
<1>2. /\ edit'[a] = e /\ \A b \in Admins \ {a} : edit'[b] = edit[b]
      /\ edit' = [b \in Admins |-> edit'[b]]
      /\ \A b \in Admins : edit'[b].pc \in EditPhase
  BY <1>0, <1>1, StepOfOneAdmin DEF Step
<1>3. UNCHANGED <<settings, overrides>> /\ disturbed \subseteq disturbed' /\ edit[a].pc = from
      /\ edit' = [edit EXCEPT ![a] = e]
  BY <1>1 DEF Step, ListOverrides, PublishOverrides, RereadSettings, PublishSettings, ReadFails
<1>4. \A b, c \in Admins : b # c /\ Editing(b)' /\ Editing(c)' => {"settings", "overrides"} \subseteq disturbed'
  <2>1. \A b \in Admins : Editing(b)' => Editing(b)
    BY <1>1, <1>2, <1>3 DEF Editing
  <2> QED BY <1>0, <1>3, <2>1 DEF BoardFollows
<1>5. \/ "settings" \in disturbed' /\ "overrides" \in disturbed'
      \/ \A b \in Admins \ {a} : edit'[b].pc = "idle" /\ edit[b].pc = "idle"
  <2>1. Editing(a)
    BY <1>1, <1>3 DEF Editing
  <2>2. (\E b \in Admins \ {a} : Editing(b)) => {"settings", "overrides"} \subseteq disturbed
    BY <1>0, <2>1 DEF BoardFollows
  <2> QED BY <1>2, <1>3, <2>2 DEF Editing
<1>6. CASE "settings" \in disturbed' /\ "overrides" \in disturbed'
  <2>1. BoardTypes'
    BY <1>0, <1>2 DEF BoardTypes, ListOverrides, PublishOverrides, RereadSettings, PublishSettings, ReadFails
  <2> QED BY <1>4, <1>6, <2>1 DEF BoardInv, BoardFollows
<1>7. CASE \A b \in Admins \ {a} : edit'[b].pc = "idle" /\ edit[b].pc = "idle"
  <2>1. CASE ListOverrides(a)
    <3>1. edit'[a] = [pc |-> "publishList", row |-> overrides] /\ UNCHANGED <<board, disturbed>>
      BY <1>0, <2>1 DEF ListOverrides, Step, BoardTypes
    <3> QED BY <1>0, <1>2, <1>3, <1>4, <1>7, <3>1 DEF BoardInv, BoardTypes, BoardFollows
  <2>2. CASE PublishOverrides(a)
    <3>1. /\ edit'[a] = [pc |-> "reread", row |-> Unset] /\ edit[a].pc = "publishList" /\ UNCHANGED disturbed
          /\ board' = [settings |-> board.settings, overrides |-> edit[a].row]
      BY <1>0, <2>2 DEF PublishOverrides, Step, BoardTypes
    <3> QED BY <1>0, <1>2, <1>3, <1>4, <1>7, <3>1 DEF BoardInv, BoardTypes, BoardFollows
  <2>3. CASE RereadSettings(a)
    <3>1. /\ edit'[a] = [pc |-> "publish", row |-> settings] /\ edit[a].pc = "reread"
          /\ UNCHANGED <<board, disturbed>>
      BY <1>0, <2>3 DEF RereadSettings, Step, BoardTypes
    <3> QED BY <1>0, <1>2, <1>3, <1>4, <1>7, <3>1 DEF BoardInv, BoardTypes, BoardFollows
  <2>4. CASE PublishSettings(a)
    <3>1. /\ edit'[a].pc = "idle" /\ edit[a].pc = "publish" /\ UNCHANGED disturbed
          /\ board' = [settings |-> edit[a].row, overrides |-> board.overrides]
      BY <1>0, <2>4 DEF PublishSettings, Step, BoardTypes, Resting
    <3> QED BY <1>0, <1>2, <1>3, <1>4, <1>7, <3>1 DEF BoardInv, BoardTypes, BoardFollows
  <2>5. CASE ReadFails(a)
    <3>0. UNCHANGED board
      BY <2>5 DEF ReadFails
    <3>1. \/ /\ edit'[a].pc = "reread" /\ edit[a].pc = "list" /\ disturbed' = disturbed \cup {"overrides"}
          \/ /\ edit'[a].pc = "idle" /\ edit[a].pc = "reread" /\ disturbed' = disturbed \cup {"settings"}
      BY <1>0, <2>5 DEF ReadFails, Step, BoardTypes, Resting
    <3> QED BY <1>0, <1>2, <1>3, <1>4, <1>7, <3>0, <3>1 DEF BoardInv, BoardTypes, BoardFollows
  <2> QED BY <2>1, <2>2, <2>3, <2>4, <2>5
<1> QED BY <1>5, <1>6, <1>7

\* Once every mutation is over, the dashboards were last sent what is stored: always,
\* but for a part whose last broadcast overlapped another mutation or failed to read.
THEOREM BoardsSettle == StorefrontSpec => []BoardSettles
<1>1. BoardInv => BoardSettles
  BY DEF BoardInv, BoardFollows, BoardSettles
<1>2. BoardInv /\ [StorefrontNext]_storefrontVars => BoardInv'
  <2> SUFFICES ASSUME BoardInv, [StorefrontNext]_storefrontVars PROVE BoardInv'
    OBVIOUS
  <2>1. CASE UNCHANGED <<settings, overrides, edit, board, disturbed>>
    BY <2>1 DEF BoardInv, BoardTypes, BoardFollows, Editing
  <2>2. ASSUME NEW a \in Admins,
               \/ UpdateOrderingEnabled(a) \/ UpdateOpeningHours(a) \/ UpdateOrderingHours(a)
               \/ UpdatePreparationMinutes(a) \/ UpsertScheduleOverride(a) \/ DeleteScheduleOverride(a)
        PROVE  BoardInv'
    <3>1. (\E row : StoreSettings(a, row)) \/ (\E d, value : StoreOverride(a, d, value))
      BY <2>2 DEF UpdateOrderingEnabled, UpdateOpeningHours, UpdateOrderingHours,
                  UpdatePreparationMinutes, UpsertScheduleOverride, DeleteScheduleOverride
    <3> QED BY <3>1, BeginKeeps
  <2>3. ASSUME NEW c \in Shoppers, AskSlots(c) \/ AvailableSlots(c) \/ CheckOut(c) \/ Gate(c)
        PROVE  UNCHANGED <<settings, overrides, edit, board, disturbed>>
    BY <2>3 DEF AskSlots, AvailableSlots, CheckOut, Gate, Visit
  <2>4. CASE StorefrontNext
    BY <2>1, <2>2, <2>3, <2>4, BroadcastKeeps DEF StorefrontNext, Tick
  <2> QED BY <2>1, <2>4 DEF storefrontVars
<1> QED BY <1>1, <1>2, InitBoard, PTL DEF StorefrontSpec
-----------------------------------------------------------------------------
(* Checkouts.  A checkout alone writes its rows, so what is stored for it  *)
(* follows from its step and from whether an undoing of it has failed.     *)

\* Rows and requests are records, whatever their amounts.
RowOver(o, S) ==
  o \in [items : S, fee : S, takeaway : S, coupon : S, surcharge : S, total : S, status : S, withCoupon : S]
IsRow(o) == o # NoRow /\ \E S : RowOver(o, S)
RequestOver(r, S) == r \in [step : S, cart : S, products : S, quote : S, harmed : S]
IsRequest(r) == \E S : RequestOver(r, S)

Reading == {"products", "choices", "address", "coupon", "reserve"}

(* What a checkout c, with request r, order o, Mollie's payment m and the  *)
(* local payment p, has stored in each step.                               *)
Kept(c, r, o, m, p, held, shown) ==
  /\ r.step \in Reading => o = NoRow /\ p = NoRow /\ c \notin held
  /\ r.step = "save" => o = NoRow /\ p = NoRow
  /\ r.step = "mollie" => IsRow(o) /\ p = NoRow /\ r.cart.online
  /\ r.step = "store" =>
       IsRow(o) /\ p = NoRow /\ r.cart.online /\ m # NoRow /\ m.amount = o.total
  /\ r.step = "undoCoupon" /\ ~r.harmed => o = NoRow /\ p = NoRow
  /\ r.step = "announce" => IsRow(o) /\ ~r.cart.online
  /\ r.step = "done" =>
       /\ IsRow(o)
       /\ r.cart.online => p # NoRow /\ m # NoRow /\ p.amount = o.total /\ m.amount = o.total
  /\ r.step = "refused" /\ ~r.harmed => o = NoRow /\ p = NoRow /\ c \notin held
  /\ c \in shown => r.step = "done" /\ ~r.cart.online /\ ~r.cart.test

StoredSoFar(c) ==
  Kept(c, request[c], orders[c], molliePayments[c], payments[c], reserved, announced)

Tables ==
  /\ request = [c \in Checkouts |-> request[c]]
  /\ orders = [c \in Checkouts |-> orders[c]]
  /\ molliePayments = [c \in Checkouts |-> molliePayments[c]]
  /\ payments = [c \in Checkouts |-> payments[c]]
  /\ announced \subseteq Checkouts
CheckoutInv ==
  Tables /\ \A c \in Checkouts : IsRequest(request[c]) /\ StoredSoFar(c)

\* Only c moves: its rows change, the others' stay.
OnlyMoves(c, r, o, m, p) ==
  /\ request' = [request EXCEPT ![c] = r]
  /\ orders' = [orders EXCEPT ![c] = o]
  /\ molliePayments' = [molliePayments EXCEPT ![c] = m]
  /\ payments' = [payments EXCEPT ![c] = p]
  /\ reserved' \subseteq reserved \cup {c} /\ reserved \subseteq reserved' \cup {c}
  /\ announced' \subseteq announced \cup {c} /\ announced \subseteq announced' \cup {c}

LEMMA OneMoves ==
  ASSUME CheckoutInv, NEW c \in Checkouts, NEW r, NEW o, NEW m, NEW p, OnlyMoves(c, r, o, m, p),
         IsRequest(r), Kept(c, r, o, m, p, reserved', announced')
  PROVE  CheckoutInv'
<1>1. /\ request' = [b \in Checkouts |-> IF b = c THEN r ELSE request[b]]
      /\ orders' = [b \in Checkouts |-> IF b = c THEN o ELSE orders[b]]
      /\ molliePayments' = [b \in Checkouts |-> IF b = c THEN m ELSE molliePayments[b]]
      /\ payments' = [b \in Checkouts |-> IF b = c THEN p ELSE payments[b]]
  BY DEF OnlyMoves, CheckoutInv, Tables
<1>2. Tables'
  BY <1>1 DEF Tables, OnlyMoves, CheckoutInv
<1>3. ASSUME NEW b \in Checkouts
      PROVE  IsRequest(request'[b])
             /\ Kept(b, request'[b], orders'[b], molliePayments'[b], payments'[b], reserved', announced')
  <2>1. CASE b = c
    BY <1>1, <2>1
  <2>2. CASE b # c
    <3>1. /\ request'[b] = request[b] /\ orders'[b] = orders[b]
          /\ molliePayments'[b] = molliePayments[b] /\ payments'[b] = payments[b]
      BY <1>1, <2>2
    <3>2. (b \in reserved' <=> b \in reserved) /\ (b \in announced' <=> b \in announced)
      BY <2>2 DEF OnlyMoves
    <3>3. IsRequest(request[b]) /\ Kept(b, request[b], orders[b], molliePayments[b], payments[b], reserved, announced)
      BY DEF CheckoutInv, StoredSoFar
    <3> QED BY <3>1, <3>2, <3>3 DEF Kept
  <2> QED BY <2>1, <2>2
<1>4. \A b \in Checkouts : (IsRequest(request[b]) /\ StoredSoFar(b))'
  BY <1>3 DEF StoredSoFar, IsRequest, RequestOver
<1> QED BY <1>2, <1>4 DEF CheckoutInv

\* A step of c that only goes on, for any rows it writes.
LEMMA GoesOn ==
  ASSUME CheckoutInv, NEW c \in Checkouts, NEW s, NEW o, NEW m, NEW p,
         OnlyMoves(c, [request[c] EXCEPT !.step = s], o, m, p),
         \A r : r.step = s /\ r.cart = request[c].cart /\ r.harmed = request[c].harmed
                  => Kept(c, r, o, m, p, reserved', announced')
  PROVE  CheckoutInv'
<1> DEFINE r == [request[c] EXCEPT !.step = s]
<1>1. PICK S : RequestOver(request[c], S)
  BY DEF CheckoutInv, IsRequest
<1>2. RequestOver(r, S \cup {s}) /\ r.step = s /\ r.cart = request[c].cart /\ r.harmed = request[c].harmed
  BY <1>1 DEF RequestOver
<1> HIDE DEF r
<1>3. IsRequest(r) /\ Kept(c, r, o, m, p, reserved', announced')
  BY <1>2 DEF IsRequest
<1> QED BY <1>3, OneMoves DEF r

\* The same, of a step that undoes in vain.
LEMMA GoesOnHarmed ==
  ASSUME CheckoutInv, NEW c \in Checkouts, NEW s, NEW o, NEW m, NEW p,
         OnlyMoves(c, [request[c] EXCEPT !.step = s, !.harmed = TRUE], o, m, p),
         \A r : r.step = s /\ r.cart = request[c].cart /\ r.harmed = TRUE
                  => Kept(c, r, o, m, p, reserved', announced')
  PROVE  CheckoutInv'
<1> DEFINE r == [request[c] EXCEPT !.step = s, !.harmed = TRUE]
<1>1. PICK S : RequestOver(request[c], S)
  BY DEF CheckoutInv, IsRequest
<1>2. RequestOver(r, S \cup {s, TRUE}) /\ r.step = s /\ r.cart = request[c].cart /\ r.harmed = TRUE
  BY <1>1 DEF RequestOver
<1> HIDE DEF r
<1>3. IsRequest(r) /\ Kept(c, r, o, m, p, reserved', announced')
  BY <1>2 DEF IsRequest
<1> QED BY <1>3, OneMoves DEF r

\* A step that stores nothing.
LEMMA NothingStored ==
  ASSUME CheckoutInv, NEW c \in Checkouts, NEW r, Become(c, r), UNCHANGED stores
  PROVE  OnlyMoves(c, r, orders[c], molliePayments[c], payments[c])
  BY DEF Become, stores, OnlyMoves, CheckoutInv, Tables

LEMMA CheckoutStart == CheckoutInit => CheckoutInv
<1> SUFFICES ASSUME CheckoutInit PROVE CheckoutInv
  OBVIOUS
<1>1. Tables
  BY DEF CheckoutInit, Tables
<1>2. ASSUME NEW c \in Checkouts PROVE IsRequest(request[c]) /\ StoredSoFar(c)
  <2>1. PICK k : request[c] = [step |-> "products", cart |-> k, products |-> None,
                               quote |-> NoQuote, harmed |-> FALSE]
    BY DEF CheckoutInit
  <2>2. RequestOver(request[c], {"products", k, None, NoQuote, FALSE}) /\ request[c].step = "products"
    BY <2>1 DEF RequestOver
  <2>3. orders[c] = NoRow /\ payments[c] = NoRow /\ c \notin reserved /\ c \notin announced
    BY DEF CheckoutInit
  <2> QED BY <2>2, <2>3 DEF IsRequest, StoredSoFar, Kept, Reading
<1> QED BY <1>1, <1>2 DEF CheckoutInv

\* While it reads, a checkout stores nothing, refused or not.
LEMMA ReadingKeeps ==
  ASSUME CheckoutInv, NEW c \in Checkouts, NEW r, Become(c, r), UNCHANGED stores,
         request[c].step \in Reading, IsRequest(r), r.step \in Reading \cup {"save", "refused"}
  PROVE  CheckoutInv'
<1>1. /\ orders[c] = NoRow /\ payments[c] = NoRow /\ c \notin reserved /\ c \notin announced
      /\ reserved' = reserved /\ announced' = announced
  BY DEF CheckoutInv, StoredSoFar, Kept, Reading, stores
<1>2. Kept(c, r, orders[c], molliePayments[c], payments[c], reserved', announced')
  BY <1>1 DEF Kept, Reading
<1> QED BY <1>2, NothingStored, OneMoves

\* Refusing, or reading on.
LEMMA GotoKeeps ==
  ASSUME CheckoutInv, NEW c \in Checkouts, NEW s, Goto(c, s), UNCHANGED stores,
         request[c].step \in Reading, s \in Reading \cup {"save", "refused"}
  PROVE  CheckoutInv'
<1> DEFINE r == [request[c] EXCEPT !.step = s]
<1>1. PICK S : RequestOver(request[c], S)
  BY DEF CheckoutInv, IsRequest
<1>2. RequestOver(r, S \cup {s}) /\ r.step = s /\ Become(c, r)
  BY <1>1 DEF RequestOver, Goto
<1> HIDE DEF r
<1> QED BY <1>2, ReadingKeeps DEF IsRequest

\* The next step, with what this one read or computed.
ReadOn(c, s, x, q) ==
  Become(c, [request[c] EXCEPT !.step = s, !.products = x])
    \/ Become(c, [request[c] EXCEPT !.step = s, !.quote = q])

LEMMA ReadOnKeeps ==
  ASSUME CheckoutInv, NEW c \in Checkouts, NEW s, NEW x, NEW q, ReadOn(c, s, x, q), UNCHANGED stores,
         request[c].step \in Reading, s \in Reading \cup {"save"}
  PROVE  CheckoutInv'
<1>0. PICK S : RequestOver(request[c], S)
  BY DEF CheckoutInv, IsRequest
<1>1. ASSUME NEW r, r \in {[request[c] EXCEPT !.step = s, !.products = x],
                            [request[c] EXCEPT !.step = s, !.quote = q]}
      PROVE  IsRequest(r) /\ r.step = s
  <2>1. RequestOver(r, S \cup {s, x, q}) /\ r.step = s
    BY <1>0, <1>1 DEF RequestOver
  <2> QED BY <2>1 DEF IsRequest
<1> QED BY <1>1, ReadingKeeps DEF ReadOn

LEMMA ReadProductsKeeps ==
  ASSUME CheckoutInv, NEW c \in Checkouts, ReadProducts(c)
  PROVE  CheckoutInv'
<1> DEFINE wanted == {Cart(c).lines[i].product : i \in DOMAIN Cart(c).lines}
           found == wanted \cap DOMAIN menu.products
           refused == \/ Len(Cart(c).lines) \notin 1..50
                      \/ \E p \in found : ~menu.products[p].available
                      \/ \E p \in found : menu.products[p].lunchOnly /\ ~Cart(c).lunchSlot
           products == [p \in found |-> menu.products[p]]
<1>1. /\ AtStep(c, "products")
      /\ IF refused THEN Goto(c, "refused")
         ELSE Become(c, [request[c] EXCEPT !.step = "choices", !.products = products])
      /\ UNCHANGED <<stores, faults>>
  BY DEF ReadProducts
<1> HIDE DEF refused, products
<1>2. request[c].step \in Reading /\ UNCHANGED stores
  BY <1>1 DEF AtStep, Reading
<1>3. CASE Goto(c, "refused")
  BY <1>2, <1>3, GotoKeeps
<1>4. ASSUME NEW x, Become(c, [request[c] EXCEPT !.step = "choices", !.products = x])
      PROVE  CheckoutInv'
  BY <1>2, <1>4, ReadOnKeeps DEF ReadOn, Reading
<1> QED BY <1>1, <1>3, <1>4

LEMMA PriceItemsKeeps ==
  ASSUME CheckoutInv, NEW c \in Checkouts, PriceItems(c)
  PROVE  CheckoutInv'
<1> DEFINE seen == [menu EXCEPT !.products = request[c].products]
           lines == Cart(c).lines
           items == [i \in DOMAIN lines |->
                      [total |-> LineTotal(lines[i], seen),
                       discountable |-> seen.products[lines[i].product].discountable]]
           accepted == /\ \A i \in DOMAIN lines : LineAccepted(lines[i], seen)
                       /\ Cart(c).type = "DELIVERY" => ItemsTotal(items) >= 2500
           quote == [Quote(c) EXCEPT !.items = items]
<1>1. /\ AtStep(c, "choices")
      /\ IF ~accepted THEN Goto(c, "refused")
         ELSE Become(c, [request[c] EXCEPT !.step = "address", !.quote = quote])
      /\ UNCHANGED <<stores, faults>>
  BY DEF PriceItems
<1> HIDE DEF accepted, quote
<1>2. request[c].step \in Reading /\ UNCHANGED stores
  BY <1>1 DEF AtStep, Reading
<1>3. CASE Goto(c, "refused")
  BY <1>2, <1>3, GotoKeeps
<1>4. ASSUME NEW q, Become(c, [request[c] EXCEPT !.step = "address", !.quote = q])
      PROVE  CheckoutInv'
  BY <1>2, <1>4, ReadOnKeeps DEF ReadOn, Reading
<1> QED BY <1>1, <1>3, <1>4

LEMMA ResolveAddressKeeps ==
  ASSUME CheckoutInv, NEW c \in Checkouts, ResolveAddress(c)
  PROVE  CheckoutInv'
<1> DEFINE k == Cart(c)
           q == [Quote(c) EXCEPT !.takeaway = TakeawayDiscount(k, Quote(c).items),
                                 !.surcharge = Surcharge(k)]
           refused == k.type = "DELIVERY" /\ (k.place = None \/ k.distance >= 9000 \/ k.excluded)
           quote == [q EXCEPT !.fee = IF k.type = "DELIVERY"
                                      THEN DeliveryFeeFromDistance(k.distance) ELSE 0]
<1>1. /\ AtStep(c, "address")
      /\ IF refused THEN Goto(c, "refused")
         ELSE Become(c, [request[c] EXCEPT !.step = "coupon", !.quote = quote])
      /\ UNCHANGED <<stores, faults>>
  BY DEF ResolveAddress
<1> HIDE DEF refused, quote
<1>2. request[c].step \in Reading /\ UNCHANGED stores
  BY <1>1 DEF AtStep, Reading
<1>3. CASE Goto(c, "refused")
  BY <1>2, <1>3, GotoKeeps
<1>4. ASSUME NEW z, Become(c, [request[c] EXCEPT !.step = "coupon", !.quote = z])
      PROVE  CheckoutInv'
  BY <1>2, <1>4, ReadOnKeeps DEF ReadOn, Reading
<1> QED BY <1>1, <1>3, <1>4

LEMMA ApplyCouponKeeps ==
  ASSUME CheckoutInv, NEW c \in Checkouts, ApplyCoupon(c)
  PROVE  CheckoutInv'
<1> DEFINE k == Cart(c)
           total == ItemsTotal(Quote(c).items) + Quote(c).fee
           d == Scaled(Quote(c).takeaway, CouponDiscount(k.coupon, total), total)
           refused == k.coupon # None
                        /\ (total < k.coupon.min \/ \E o \in Checkouts : orders[o] # NoRow
                                                        /\ orders[o].withCoupon
                                                        /\ orders[o].status = "PENDING")
           next == IF k.coupon = None THEN "save" ELSE "reserve"
           quote == [Quote(c) EXCEPT !.takeaway = d.takeaway, !.coupon = d.coupon]
<1>1. /\ AtStep(c, "coupon")
      /\ IF refused THEN Goto(c, "refused")
         ELSE Become(c, [request[c] EXCEPT !.step = next, !.quote = quote])
      /\ UNCHANGED <<stores, faults>>
  BY DEF ApplyCoupon
<1>2. next \in {"save", "reserve"}
  OBVIOUS
<1> HIDE DEF refused, next, quote
<1>3. request[c].step \in Reading /\ UNCHANGED stores
  BY <1>1 DEF AtStep, Reading
<1>4. CASE Goto(c, "refused")
  BY <1>3, <1>4, GotoKeeps
<1>5. ASSUME NEW s \in {"save", "reserve"}, NEW q, Become(c, [request[c] EXCEPT !.step = s, !.quote = q])
      PROVE  CheckoutInv'
  BY <1>3, <1>5, ReadOnKeeps DEF ReadOn, Reading
<1> QED BY <1>1, <1>2, <1>4, <1>5

LEMMA ReadingSteps ==
  ASSUME CheckoutInv, NEW c \in Checkouts,
         CallFails(c) \/ ReadProducts(c) \/ PriceItems(c) \/ ResolveAddress(c) \/ ApplyCoupon(c)
  PROVE  CheckoutInv'
<1>1. CASE CallFails(c)
  BY <1>1, GotoKeeps DEF CallFails, Reading
<1> QED BY <1>1, ReadProductsKeeps, PriceItemsKeeps, ResolveAddressKeeps, ApplyCouponKeeps

\* What the rest of the proof takes of an order row that is written.
LEMMA SavedIsRow ==
  ASSUME NEW c
  PROVE  IsRow(OrderRow(c))
<1>1. OrderRow(c).status # NoRow.status
  BY DEF OrderRow, NoRow
<1>2. \E S : RowOver(OrderRow(c), S)
  <2> DEFINE o == OrderRow(c)
  <2>1. RowOver(o, {o.items, o.fee, o.takeaway, o.coupon, o.surcharge, o.total, o.status, o.withCoupon})
    BY DEF OrderRow, RowOver
  <2> QED BY <2>1
<1> QED BY <1>1, <1>2 DEF IsRow

LEMMA PaymentIsRow ==
  ASSUME NEW a, NEW l
  PROVE  [amount |-> a, lines |-> l] # NoRow /\ [amount |-> a, status |-> "open"] # NoRow
  BY DEF NoRow

\* The row of an order that staff ended keeps what it charges.
LEMMA EndedIsRow ==
  ASSUME NEW o, IsRow(o), NEW s \in {"DELIVERED", "PICKED_UP", "CANCELLED"}
  PROVE  LET e == [o EXCEPT !.status = s] IN IsRow(e) /\ e.total = o.total
<1> DEFINE e == [o EXCEPT !.status = s]
<1>1. PICK S : RowOver(o, S)
  BY DEF IsRow
<1>2. RowOver(e, S \cup {s}) /\ e.total = o.total /\ e.status = s
  BY <1>1 DEF RowOver
<1> HIDE DEF e
<1>3. e # NoRow
  BY <1>2 DEF NoRow
<1> QED BY <1>2, <1>3 DEF IsRow, e

\* What the step a checkout is in says of it.
LEMMA StoredThere ==
  ASSUME CheckoutInv, NEW c \in Checkouts
  PROVE  /\ IsRequest(request[c])
         /\ Kept(c, request[c], orders[c], molliePayments[c], payments[c], reserved, announced)
  BY DEF CheckoutInv, StoredSoFar

LEMMA ReserveKeeps ==
  ASSUME CheckoutInv, NEW c \in Checkouts, Reserve(c)
  PROVE  CheckoutInv'
<1>1. request[c].step = "reserve"
  BY DEF Reserve, AtStep
<1>2. orders[c] = NoRow /\ payments[c] = NoRow /\ c \notin reserved /\ c \notin announced
  BY <1>1, StoredThere DEF Kept, Reading
<1>3. CASE Goto(c, "save") /\ reserved' = reserved \cup {c}
  <2>1. OnlyMoves(c, [request[c] EXCEPT !.step = "save"], orders[c], molliePayments[c], payments[c])
    BY <1>3 DEF Reserve, Goto, Become, OnlyMoves, CheckoutInv, Tables
  <2>2. \A r : r.step = "save" =>
          Kept(c, r, orders[c], molliePayments[c], payments[c], reserved', announced')
    BY <1>2 DEF Kept, Reading, Reserve
  <2> QED BY <2>1, <2>2, GoesOn
<1>4. CASE Goto(c, "refused") /\ UNCHANGED reserved
  <2>1. UNCHANGED stores
    BY <1>4 DEF Reserve, stores
  <2> QED BY <1>1, <1>4, <2>1, GotoKeeps DEF Reading
<1>5. CASE /\ reserved' = reserved \cup {c}
           /\ Become(c, [request[c] EXCEPT !.step = "refused", !.harmed = TRUE])
  <2>1. OnlyMoves(c, [request[c] EXCEPT !.step = "refused", !.harmed = TRUE],
                  orders[c], molliePayments[c], payments[c])
    BY <1>5 DEF Reserve, Become, OnlyMoves, CheckoutInv, Tables
  <2>2. \A r : r.step = "refused" /\ r.harmed = TRUE =>
          Kept(c, r, orders[c], molliePayments[c], payments[c], reserved', announced')
    BY <1>2 DEF Kept, Reading, Reserve
  <2> QED BY <2>1, <2>2, GoesOnHarmed
<1> QED BY <1>3, <1>4, <1>5 DEF Reserve

LEMMA SaveOrderKeeps ==
  ASSUME CheckoutInv, NEW c \in Checkouts, SaveOrder(c)
  PROVE  CheckoutInv'
<1>1. request[c].step = "save"
  BY DEF SaveOrder, AtStep
<1>2. orders[c] = NoRow /\ payments[c] = NoRow /\ c \notin announced
  BY <1>1, StoredThere DEF Kept
<1>3. CASE orders' = [orders EXCEPT ![c] = OrderRow(c)] /\ Goto(c, AfterSave(c))
  <2>1. OnlyMoves(c, [request[c] EXCEPT !.step = AfterSave(c)], OrderRow(c), molliePayments[c], payments[c])
    BY <1>3 DEF SaveOrder, Goto, Become, OnlyMoves, CheckoutInv, Tables
  <2>2. ASSUME NEW r, r.step = AfterSave(c), r.cart = request[c].cart
        PROVE  Kept(c, r, OrderRow(c), molliePayments[c], payments[c], reserved', announced')
    <3>1. r.step = IF r.cart.online THEN "mollie" ELSE "announce"
      BY <2>2 DEF AfterSave, Cart
    <3>2. IsRow(OrderRow(c)) /\ c \notin announced'
      BY <1>2, SavedIsRow DEF SaveOrder
    <3> QED BY <1>2, <3>1, <3>2 DEF Kept, Reading
  <2> QED BY <2>1, <2>2, GoesOn
<1>4. CASE /\ orders' = [orders EXCEPT ![c] = OrderRow(c)]
           /\ Become(c, [request[c] EXCEPT !.step = "undoCoupon", !.harmed = TRUE])
  <2>1. OnlyMoves(c, [request[c] EXCEPT !.step = "undoCoupon", !.harmed = TRUE],
                  OrderRow(c), molliePayments[c], payments[c])
    BY <1>4 DEF SaveOrder, Become, OnlyMoves, CheckoutInv, Tables
  <2>2. \A r : r.step = "undoCoupon" /\ r.harmed = TRUE =>
          Kept(c, r, OrderRow(c), molliePayments[c], payments[c], reserved', announced')
    BY <1>2 DEF Kept, Reading, SaveOrder
  <2> QED BY <2>1, <2>2, GoesOnHarmed
<1>5. CASE Goto(c, "undoCoupon") /\ UNCHANGED orders
  <2>1. OnlyMoves(c, [request[c] EXCEPT !.step = "undoCoupon"], orders[c], molliePayments[c], payments[c])
    BY <1>5 DEF SaveOrder, Goto, Become, OnlyMoves, CheckoutInv, Tables
  <2>2. \A r : r.step = "undoCoupon" =>
          Kept(c, r, orders[c], molliePayments[c], payments[c], reserved', announced')
    BY <1>2 DEF Kept, Reading, SaveOrder
  <2> QED BY <2>1, <2>2, GoesOn
<1> QED BY <1>3, <1>4, <1>5 DEF SaveOrder

LEMMA CreateMolliePaymentKeeps ==
  ASSUME CheckoutInv, NEW c \in Checkouts, CreateMolliePayment(c)
  PROVE  CheckoutInv'
<1> DEFINE lines == MollieLines(orders[c])
           payment == [amount |-> orders[c].total, lines |-> lines]
<1>1. request[c].step = "mollie"
  BY DEF CreateMolliePayment, AtStep
<1>2. IsRow(orders[c]) /\ payments[c] = NoRow /\ request[c].cart.online /\ c \notin announced
  BY <1>1, StoredThere DEF Kept, Cart
<1>3. UNCHANGED <<orders, reserved, payments, announced>>
  BY DEF CreateMolliePayment
<1>4. payment # NoRow /\ payment.amount = orders[c].total
  BY PaymentIsRow
<1>5. \/ molliePayments' = [molliePayments EXCEPT ![c] = payment] /\ (Goto(c, "store") \/ Goto(c, "undoOrder"))
      \/ UNCHANGED molliePayments /\ Goto(c, "undoOrder")
  <2> HIDE DEF lines
  <2> QED BY DEF CreateMolliePayment, lines
<1> HIDE DEF payment
<1>6. CASE molliePayments' = [molliePayments EXCEPT ![c] = payment] /\ Goto(c, "store")
  <2>1. OnlyMoves(c, [request[c] EXCEPT !.step = "store"], orders[c], payment, payments[c])
    BY <1>3, <1>6 DEF Goto, Become, OnlyMoves, CheckoutInv, Tables
  <2>2. \A r : r.step = "store" /\ r.cart = request[c].cart =>
          Kept(c, r, orders[c], payment, payments[c], reserved', announced')
    BY <1>2, <1>3, <1>4 DEF Kept, Reading
  <2> QED BY <2>1, <2>2, GoesOn
<1>7. CASE molliePayments' = [molliePayments EXCEPT ![c] = payment] /\ Goto(c, "undoOrder")
  <2>1. OnlyMoves(c, [request[c] EXCEPT !.step = "undoOrder"], orders[c], payment, payments[c])
    BY <1>3, <1>7 DEF Goto, Become, OnlyMoves, CheckoutInv, Tables
  <2>2. \A r : r.step = "undoOrder" => Kept(c, r, orders[c], payment, payments[c], reserved', announced')
    BY <1>2, <1>3 DEF Kept, Reading
  <2> QED BY <2>1, <2>2, GoesOn
<1>8. CASE UNCHANGED molliePayments /\ Goto(c, "undoOrder")
  <2>1. OnlyMoves(c, [request[c] EXCEPT !.step = "undoOrder"], orders[c], molliePayments[c], payments[c])
    BY <1>3, <1>8 DEF Goto, Become, OnlyMoves, CheckoutInv, Tables
  <2>2. \A r : r.step = "undoOrder" => Kept(c, r, orders[c], molliePayments[c], payments[c], reserved', announced')
    BY <1>2, <1>3 DEF Kept, Reading
  <2> QED BY <2>1, <2>2, GoesOn
<1> QED BY <1>5, <1>6, <1>7, <1>8

LEMMA SavePaymentKeeps ==
  ASSUME CheckoutInv, NEW c \in Checkouts, SavePayment(c)
  PROVE  CheckoutInv'
<1> DEFINE payment == [amount |-> molliePayments[c].amount, status |-> "open"]
<1>1. request[c].step = "store"
  BY DEF SavePayment, AtStep
<1>2. /\ IsRow(orders[c]) /\ request[c].cart.online /\ c \notin announced
      /\ molliePayments[c] # NoRow /\ molliePayments[c].amount = orders[c].total
  BY <1>1, StoredThere DEF Kept
<1>3. UNCHANGED <<orders, reserved, molliePayments, announced>>
  BY DEF SavePayment
<1>4. payment # NoRow /\ payment.amount = orders[c].total
  BY <1>2, PaymentIsRow
<1>5. \/ payments' = [payments EXCEPT ![c] = payment] /\ Goto(c, "done")
      \/ (payments' = [payments EXCEPT ![c] = payment] \/ UNCHANGED payments) /\ Goto(c, "undoOrder")
  BY DEF SavePayment
<1> HIDE DEF payment
<1>6. CASE payments' = [payments EXCEPT ![c] = payment] /\ Goto(c, "done")
  <2>1. OnlyMoves(c, [request[c] EXCEPT !.step = "done"], orders[c], molliePayments[c], payment)
    BY <1>3, <1>6 DEF Goto, Become, OnlyMoves, CheckoutInv, Tables
  <2>2. \A r : r.step = "done" /\ r.cart = request[c].cart =>
          Kept(c, r, orders[c], molliePayments[c], payment, reserved', announced')
    BY <1>2, <1>3, <1>4 DEF Kept, Reading
  <2> QED BY <2>1, <2>2, GoesOn
<1>7. ASSUME NEW p, payments' = [payments EXCEPT ![c] = p], Goto(c, "undoOrder")
      PROVE  CheckoutInv'
  <2>1. OnlyMoves(c, [request[c] EXCEPT !.step = "undoOrder"], orders[c], molliePayments[c], p)
    BY <1>3, <1>7 DEF Goto, Become, OnlyMoves, CheckoutInv, Tables
  <2>2. \A r : r.step = "undoOrder" => Kept(c, r, orders[c], molliePayments[c], p, reserved', announced')
    BY <1>2, <1>3 DEF Kept, Reading
  <2> QED BY <2>1, <2>2, GoesOn
<1>8. UNCHANGED payments => payments' = [payments EXCEPT ![c] = payments[c]]
  BY DEF CheckoutInv, Tables
<1> QED BY <1>5, <1>6, <1>7, <1>8

LEMMA UndoKeeps ==
  ASSUME CheckoutInv, NEW c \in Checkouts, DeleteOrder(c) \/ RollBackCoupon(c)
  PROVE  CheckoutInv'
<1>1. request[c].step \in {"undoOrder", "undoCoupon"}
  BY DEF DeleteOrder, RollBackCoupon, AtStep
<1>2. c \notin announced /\ announced' = announced /\ molliePayments' = molliePayments
  BY <1>1, StoredThere DEF Kept, DeleteOrder, RollBackCoupon
<1>3. CASE /\ orders' = [orders EXCEPT ![c] = NoRow] /\ payments' = [payments EXCEPT ![c] = NoRow]
           /\ Goto(c, "undoCoupon") /\ UNCHANGED reserved
  <2>1. OnlyMoves(c, [request[c] EXCEPT !.step = "undoCoupon"], NoRow, molliePayments[c], NoRow)
    BY <1>2, <1>3 DEF Goto, Become, OnlyMoves, CheckoutInv, Tables
  <2>2. \A r : r.step = "undoCoupon" => Kept(c, r, NoRow, molliePayments[c], NoRow, reserved', announced')
    BY <1>2 DEF Kept, Reading
  <2> QED BY <2>1, <2>2, GoesOn
<1>4. ASSUME NEW s \in {"undoCoupon", "refused"}, UNCHANGED <<orders, payments, reserved>>,
             Become(c, [request[c] EXCEPT !.step = s, !.harmed = TRUE])
      PROVE  CheckoutInv'
  <2>1. OnlyMoves(c, [request[c] EXCEPT !.step = s, !.harmed = TRUE],
                  orders[c], molliePayments[c], payments[c])
    BY <1>2, <1>4 DEF Become, OnlyMoves, CheckoutInv, Tables
  <2>2. \A r : r.step = s /\ r.harmed = TRUE =>
          Kept(c, r, orders[c], molliePayments[c], payments[c], reserved', announced')
    BY <1>2 DEF Kept, Reading
  <2> QED BY <2>1, <2>2, GoesOnHarmed
<1>5. CASE /\ request[c].step = "undoCoupon" /\ Goto(c, "refused") /\ reserved' = reserved \ {c}
           /\ UNCHANGED <<orders, payments>>
  <2>1. OnlyMoves(c, [request[c] EXCEPT !.step = "refused"], orders[c], molliePayments[c], payments[c])
    BY <1>2, <1>5 DEF Goto, Become, OnlyMoves, CheckoutInv, Tables
  <2>2. ~request[c].harmed => orders[c] = NoRow /\ payments[c] = NoRow
    BY <1>5, StoredThere DEF Kept
  <2>3. \A r : r.step = "refused" /\ r.harmed = request[c].harmed =>
          Kept(c, r, orders[c], molliePayments[c], payments[c], reserved', announced')
    BY <1>2, <1>5, <2>2 DEF Kept, Reading
  <2> QED BY <2>1, <2>3, GoesOn
<1>6. CASE DeleteOrder(c)
  BY <1>3, <1>4, <1>6 DEF DeleteOrder
<1>7. CASE RollBackCoupon(c)
  BY <1>4, <1>5, <1>7 DEF RollBackCoupon, AtStep
<1> QED BY <1>6, <1>7

LEMMA AnnounceKeeps ==
  ASSUME CheckoutInv, NEW c \in Checkouts, Announce(c)
  PROVE  CheckoutInv'
<1>1. request[c].step = "announce"
  BY DEF Announce, AtStep
<1>2. IsRow(orders[c]) /\ ~request[c].cart.online /\ c \notin announced
  BY <1>1, StoredThere DEF Kept
<1>3. OnlyMoves(c, [request[c] EXCEPT !.step = "done"], orders[c], molliePayments[c], payments[c])
  BY DEF Announce, Goto, Become, OnlyMoves, CheckoutInv, Tables
<1>4. \A r : r.step = "done" /\ r.cart = request[c].cart =>
        Kept(c, r, orders[c], molliePayments[c], payments[c], reserved', announced')
  BY <1>2 DEF Kept, Reading, Announce, Cart
<1> QED BY <1>3, <1>4, GoesOn

LEMMA EndOrderKeeps ==
  ASSUME CheckoutInv, NEW c \in Checkouts, EndOrder(c)
  PROVE  CheckoutInv'
<1>1. request[c].step = "done"
  BY DEF EndOrder, AtStep
<1>2. PICK s \in {"DELIVERED", "PICKED_UP", "CANCELLED"} : orders' = [orders EXCEPT ![c].status = s]
  BY DEF EndOrder
<1> DEFINE e == [orders[c] EXCEPT !.status = s]
<1>3. orders' = [orders EXCEPT ![c] = e]
  BY <1>2
<1>4. IsRequest(request[c]) /\ Kept(c, request[c], orders[c], molliePayments[c], payments[c], reserved, announced)
  BY StoredThere
<1>5. IsRow(e) /\ e.total = orders[c].total
  BY <1>1, <1>4, EndedIsRow DEF Kept
<1> HIDE DEF e
<1>6. Kept(c, request[c], e, molliePayments[c], payments[c], reserved', announced')
  BY <1>1, <1>4, <1>5 DEF Kept, Reading, EndOrder
<1>7. OnlyMoves(c, request[c], e, molliePayments[c], payments[c])
  BY <1>3 DEF EndOrder, OnlyMoves, CheckoutInv, Tables
<1> QED BY <1>4, <1>6, <1>7, OneMoves

\* The invariant is inductive.
LEMMA CheckoutStepKeeps == CheckoutInv /\ [CheckoutNext]_checkoutVars => CheckoutInv'
<1> SUFFICES ASSUME CheckoutInv, [CheckoutNext]_checkoutVars PROVE CheckoutInv'
  OBVIOUS
<1>1. ASSUME UNCHANGED <<request, stores>> PROVE CheckoutInv'
  BY <1>1 DEF stores, CheckoutInv, Tables, StoredSoFar, Kept, IsRequest, RequestOver, IsRow, RowOver
<1>2. CASE EditMenu
  BY <1>1, <1>2 DEF EditMenu
<1>3. ASSUME NEW c \in Checkouts, CheckoutStep(c) PROVE CheckoutInv'
  BY <1>3, ReadingSteps, ReserveKeeps, SaveOrderKeeps, CreateMolliePaymentKeeps, SavePaymentKeeps,
     UndoKeeps, AnnounceKeeps DEF CheckoutStep
<1>4. ASSUME NEW c \in Checkouts, EndOrder(c) PROVE CheckoutInv'
  BY <1>4, EndOrderKeeps
<1>5. CASE UNCHANGED checkoutVars
  BY <1>1, <1>5 DEF checkoutVars, stores
<1> QED BY <1>2, <1>3, <1>4, <1>5 DEF CheckoutNext

LEMMA InvKeepsCheckouts == CheckoutInv => CheckoutKept
<1> SUFFICES ASSUME CheckoutInv PROVE CheckoutKept
  OBVIOUS
<1>1. \A c \in Checkouts : Kept(c, request[c], orders[c], molliePayments[c], payments[c], reserved, announced)
  BY DEF CheckoutInv, StoredSoFar
<1>2. RefusedLeavesNothing
  BY <1>1 DEF RefusedLeavesNothing, AtStep, Kept
<1>3. LinkIsBacked
  BY <1>1 DEF LinkIsBacked, AtStep, Cart, Kept, IsRow
<1>4. AnnouncedIsPlaced
  BY <1>1 DEF AnnouncedIsPlaced, Cart, Kept, IsRow, CheckoutInv, Tables
<1> QED BY <1>2, <1>3, <1>4 DEF CheckoutKept

\* However checkouts, changes of the menu and failures interleave: a refused checkout
\* has left nothing stored (but where an undoing failed), a checkout that ends with a
\* payment link has its order, its payment row and Mollie's payment for the same
\* amount, and an order is announced only if it was placed to be paid on the spot.
THEOREM CheckoutsAreKept == CheckoutSpec => []CheckoutKept
<1>1. CheckoutInv /\ [CheckoutNext]_checkoutVars => CheckoutInv'
  BY CheckoutStepKeeps
<1> QED BY CheckoutStart, InvKeepsCheckouts, <1>1, PTL DEF CheckoutSpec
-----------------------------------------------------------------------------
(* Sums.  A fold is a recursive function over the subsets of a domain; that *)
(* there is one, and that it does not matter in which order it adds, is     *)
(* shown by a least counterexample among the sizes of the subsets.          *)

First(s) == CHOOSE x \in s : TRUE
Numbers(f) == IsFiniteSet(DOMAIN f) /\ \A x \in DOMAIN f : f[x] \in Int

\* One step of the fold, and the functions that are folds on sets of up to n elements.
Folded(f, g) == [s \in SUBSET DOMAIN f |-> IF s = {} THEN 0 ELSE f[First(s)] + g[s \ {First(s)}]]
FoldsTo(f, g, n) ==
  /\ g \in [SUBSET DOMAIN f -> Int]
  /\ \A s \in SUBSET DOMAIN f : Cardinality(s) <= n => g[s] = Folded(f, g)[s]
Adds(f) == CHOOSE g : g = Folded(f, g)

LEMMA FirstOfSet ==
  ASSUME NEW s, s # {}
  PROVE  First(s) \in s
  BY DEF First

LEMMA SubsetsCounted ==
  ASSUME NEW D, IsFiniteSet(D), NEW s \in SUBSET D
  PROVE  /\ IsFiniteSet(s) /\ Cardinality(s) \in Nat /\ Cardinality(s) <= Cardinality(D)
         /\ (Cardinality(s) = 0 <=> s = {})
         /\ \A x \in s : s \ {x} \in SUBSET D /\ Cardinality(s \ {x}) = Cardinality(s) - 1
<1>1. IsFiniteSet(s) /\ Cardinality(s) \in Nat /\ Cardinality(s) <= Cardinality(D)
  BY FS_Subset, FS_CardinalityType
<1>2. \A x \in s : Cardinality(s \ {x}) = Cardinality(s) - 1
  BY <1>1, FS_RemoveElement
<1> QED BY <1>1, <1>2, FS_EmptySet

LEMMA FoldStep ==
  ASSUME NEW f, Numbers(f), NEW n \in Nat, NEW g, FoldsTo(f, g, n)
  PROVE  FoldsTo(f, Folded(f, g), n + 1)
<1> DEFINE D == DOMAIN f
           h == Folded(f, g)
<1>1. \A s \in SUBSET D : s # {} => First(s) \in s /\ s \ {First(s)} \in SUBSET D
  BY FirstOfSet
<1>2. h \in [SUBSET D -> Int]
  BY <1>1 DEF Numbers, FoldsTo, Folded
<1>3. ASSUME NEW s \in SUBSET D, Cardinality(s) <= n + 1 PROVE h[s] = Folded(f, h)[s]
  <2>1. CASE s = {}
    BY <2>1 DEF Folded
  <2>2. CASE s # {}
    <3> DEFINE r == s \ {First(s)}
    <3>1. r \in SUBSET D /\ Cardinality(r) <= n
      BY <1>1, <1>3, <2>2, SubsetsCounted DEF Numbers
    <3>2. g[r] = h[r]
      BY <3>1 DEF FoldsTo
    <3> QED BY <2>2, <3>2, <3>1 DEF Folded
  <2> QED BY <2>1, <2>2
<1> QED BY <1>2, <1>3 DEF FoldsTo

LEMMA FoldExists ==
  ASSUME NEW f, Numbers(f), NEW n \in Nat
  PROVE  \E g : FoldsTo(f, g, n)
<1> DEFINE Without == {k \in Nat : ~\E g : FoldsTo(f, g, k)}
<1> SUFFICES ASSUME Without # {} PROVE FALSE
  OBVIOUS
<1>1. PICK k \in Without : \A l \in Without : k <= l
  BY SomeLeast
<1>2. k \in Nat /\ ~\E g : FoldsTo(f, g, k)
  OBVIOUS
<1>3. k # 0
  <2> DEFINE zero == [s \in SUBSET DOMAIN f |-> 0]
  <2>1. \A s \in SUBSET DOMAIN f : Cardinality(s) <= 0 => s = {}
    BY SubsetsCounted DEF Numbers
  <2>2. FoldsTo(f, zero, 0)
    BY <2>1 DEF FoldsTo, Folded
  <2> QED BY <1>2, <2>2
<1>4. k - 1 \in Nat /\ k - 1 \notin Without
  BY <1>1, <1>2, <1>3
<1>5. PICK g : FoldsTo(f, g, k - 1)
  BY <1>4
<1>6. FoldsTo(f, Folded(f, g), (k - 1) + 1)
  BY <1>4, <1>5, FoldStep
<1>7. (k - 1) + 1 = k
  BY <1>2
<1> QED BY <1>2, <1>6, <1>7

LEMMA AddsIsFold ==
  ASSUME NEW f, Numbers(f)
  PROVE  Adds(f) = Folded(f, Adds(f))
<1> DEFINE n == Cardinality(DOMAIN f)
<1>1. n \in Nat
  BY FS_CardinalityType DEF Numbers
<1>2. PICK g : FoldsTo(f, g, n)
  BY <1>1, FoldExists
<1>3. \A s \in SUBSET DOMAIN f : g[s] = Folded(f, g)[s]
  BY <1>2, SubsetsCounted DEF FoldsTo, Numbers
<1>4. g = [s \in SUBSET DOMAIN f |-> g[s]]
  BY <1>2 DEF FoldsTo
<1>5. Folded(f, g) = [s \in SUBSET DOMAIN f |-> Folded(f, g)[s]]
  BY DEF Folded
<1>6. g = Folded(f, g)
  BY <1>3, <1>4, <1>5
<1> QED BY <1>6 DEF Adds

LEMMA SumIsAdds ==
  ASSUME NEW f
  PROVE  SumOf(f) = Adds(f)[DOMAIN f]
  BY DEF SumOf, MapThenSumSet, MapThenFoldSet, Adds, Folded, First

LEMMA AddsStep ==
  ASSUME NEW f, Numbers(f), NEW s \in SUBSET DOMAIN f
  PROVE  Adds(f)[s] = IF s = {} THEN 0 ELSE f[First(s)] + Adds(f)[s \ {First(s)}]
<1>1. Folded(f, Adds(f))[s] = IF s = {} THEN 0 ELSE f[First(s)] + Adds(f)[s \ {First(s)}]
  BY DEF Folded
<1> QED BY <1>1, AddsIsFold

\* Among the subsets of a finite set that are not in a given set, one is smallest.
LEMMA SmallestOutside ==
  ASSUME NEW D, IsFiniteSet(D), NEW Good, ~(SUBSET D \subseteq Good)
  PROVE  \E s \in SUBSET D : s \notin Good /\ \A r \in SUBSET D : Cardinality(r) < Cardinality(s) => r \in Good
<1> DEFINE Sizes == {Cardinality(s) : s \in (SUBSET D) \ Good}
<1>1. Sizes \subseteq Nat /\ Sizes # {}
  BY SubsetsCounted
<1>2. PICK n \in Sizes : \A m \in Sizes : n <= m
  BY <1>1, SomeLeast
<1>3. PICK s \in (SUBSET D) \ Good : n = Cardinality(s)
  BY <1>2
<1>4. ASSUME NEW r \in SUBSET D, Cardinality(r) < Cardinality(s), r \notin Good PROVE FALSE
  <2>1. Cardinality(r) \in Nat /\ Cardinality(s) \in Nat
    BY SubsetsCounted
  <2>2. Cardinality(s) <= Cardinality(r)
    BY <1>2, <1>3, <1>4
  <2> QED BY <1>4, <2>1, <2>2
<1> QED BY <1>3, <1>4

LEMMA AddsTyped ==
  ASSUME NEW f, Numbers(f), NEW t \in SUBSET DOMAIN f
  PROVE  Adds(f)[t] \in Int
<1> DEFINE Good == {s \in SUBSET DOMAIN f : Adds(f)[s] \in Int}
<1> SUFFICES ASSUME ~(SUBSET DOMAIN f \subseteq Good) PROVE FALSE
  OBVIOUS
<1>1. PICK s \in SUBSET DOMAIN f :
        s \notin Good /\ \A r \in SUBSET DOMAIN f : Cardinality(r) < Cardinality(s) => r \in Good
  <2>1. IsFiniteSet(DOMAIN f)
    BY DEF Numbers
  <2> HIDE DEF Good
  <2> QED BY <2>1, SmallestOutside
<1>2. s # {}
  <2>1. s = {} => Adds(f)[s] = 0
    BY AddsStep
  <2> QED BY <1>1, <2>1
<1>3. First(s) \in s
  BY <1>2, FirstOfSet
<1>4. s \ {First(s)} \in SUBSET DOMAIN f /\ Cardinality(s \ {First(s)}) < Cardinality(s)
  BY <1>3, SubsetsCounted DEF Numbers
<1>5. Adds(f)[s \ {First(s)}] \in Int /\ f[First(s)] \in Int
  BY <1>1, <1>3, <1>4 DEF Numbers
<1>6. Adds(f)[s] = f[First(s)] + Adds(f)[s \ {First(s)}]
  BY <1>2, AddsStep
<1> QED BY <1>1, <1>5, <1>6

\* Any element may be the one that is added last.
LEMMA AddsAny ==
  ASSUME NEW f, Numbers(f), NEW t \in SUBSET DOMAIN f, NEW z \in t
  PROVE  Adds(f)[t] = f[z] + Adds(f)[t \ {z}]
<1> DEFINE a == Adds(f)
           Good == {s \in SUBSET DOMAIN f : \A x \in s : Adds(f)[s] = f[x] + Adds(f)[s \ {x}]}
<1> SUFFICES ASSUME ~(SUBSET DOMAIN f \subseteq Good) PROVE FALSE
  OBVIOUS
<1>1. PICK s \in SUBSET DOMAIN f :
        s \notin Good /\ \A r \in SUBSET DOMAIN f : Cardinality(r) < Cardinality(s) => r \in Good
  <2>1. IsFiniteSet(DOMAIN f)
    BY DEF Numbers
  <2> HIDE DEF Good
  <2> QED BY <2>1, SmallestOutside
<1>2. PICK x \in s : a[s] # f[x] + a[s \ {x}]
  BY <1>1
<1>3. PICK c : c = First(s)
  OBVIOUS
<1>4. c \in s /\ a[s] = f[c] + a[s \ {c}]
  BY <1>2, <1>3, FirstOfSet, AddsStep
<1>5. c # x
  BY <1>2, <1>4
<1>6. /\ s \ {c} \in SUBSET DOMAIN f /\ s \ {x} \in SUBSET DOMAIN f
      /\ Cardinality(s \ {c}) < Cardinality(s) /\ Cardinality(s \ {x}) < Cardinality(s)
  BY <1>4, SubsetsCounted DEF Numbers
<1>7. a[s \ {c}] = f[x] + a[(s \ {c}) \ {x}]
  BY <1>1, <1>5, <1>6
<1>8. a[s \ {x}] = f[c] + a[(s \ {x}) \ {c}]
  BY <1>1, <1>4, <1>5, <1>6
<1>9. (s \ {x}) \ {c} = (s \ {c}) \ {x}
  OBVIOUS
<1>10. f[c] \in Int /\ f[x] \in Int /\ a[(s \ {c}) \ {x}] \in Int
  BY <1>4, <1>6, AddsTyped DEF Numbers
<1>11. PICK rest \in Int : rest = a[(s \ {c}) \ {x}]
  BY <1>10
<1>12. a[s] = f[c] + (f[x] + rest) /\ f[x] + a[s \ {x}] = f[x] + (f[c] + rest)
  BY <1>4, <1>7, <1>8, <1>9, <1>11
<1>13. f[c] + (f[x] + rest) = f[x] + (f[c] + rest)
  BY <1>10
<1> QED BY <1>2, <1>12, <1>13

LEMMA AddsPart ==
  ASSUME NEW f, Numbers(f), NEW D \in SUBSET DOMAIN f, NEW t \in SUBSET D
  PROVE  Adds([x \in D |-> f[x]])[t] = Adds(f)[t]
<1> DEFINE h == [x \in D |-> f[x]]
           Good == {s \in SUBSET D : Adds(h)[s] = Adds(f)[s]}
<1> SUFFICES ASSUME ~(SUBSET D \subseteq Good) PROVE FALSE
  OBVIOUS
<1>a. IsFiniteSet(D)
  BY FS_Subset DEF Numbers
<1>0. Numbers(h) /\ DOMAIN h = D
  BY <1>a DEF Numbers
<1>1. PICK s \in SUBSET D :
        s \notin Good /\ \A r \in SUBSET D : Cardinality(r) < Cardinality(s) => r \in Good
  <2> HIDE DEF Good
  <2> QED BY <1>a, SmallestOutside
<1>2. Adds(h)[s] = IF s = {} THEN 0 ELSE h[First(s)] + Adds(h)[s \ {First(s)}]
  <2> HIDE DEF h
  <2> QED BY <1>0, AddsStep
<1>3. Adds(f)[s] = IF s = {} THEN 0 ELSE f[First(s)] + Adds(f)[s \ {First(s)}]
  BY AddsStep
<1>4. s # {}
  BY <1>1, <1>2, <1>3
<1>5. First(s) \in s
  BY <1>4, FirstOfSet
<1>6. s \ {First(s)} \in SUBSET D /\ Cardinality(s \ {First(s)}) < Cardinality(s)
  BY <1>a, <1>5, SubsetsCounted
<1>7. h[First(s)] = f[First(s)]
  BY <1>5
<1>8. Adds(h)[s \ {First(s)}] = Adds(f)[s \ {First(s)}]
  BY <1>1, <1>6
<1> HIDE DEF h
<1>9. Adds(h)[s] = Adds(f)[s]
  BY <1>2, <1>3, <1>4, <1>7, <1>8
<1> QED BY <1>1, <1>9

LEMMA SumTyped ==
  ASSUME NEW f, Numbers(f)
  PROVE  SumOf(f) \in Int
BY SumIsAdds, AddsTyped

\* Taking one element out of a sum.
LEMMA SumSplits ==
  ASSUME NEW f, Numbers(f), NEW z \in DOMAIN f
  PROVE  SumOf(f) = f[z] + SumOf([x \in DOMAIN f \ {z} |-> f[x]])
<1>0. PICK D \in SUBSET DOMAIN f : D = DOMAIN f \ {z}
  OBVIOUS
<1> DEFINE h == [x \in D |-> f[x]]
<1>1. SumOf(h) = Adds(h)[D]
  <2>1. DOMAIN h = D
    OBVIOUS
  <2> HIDE DEF h
  <2> QED BY <2>1, SumIsAdds
<1>2. Adds(h)[D] = Adds(f)[D]
  BY AddsPart
<1>3. SumOf(f) = f[z] + Adds(f)[D]
  <2>1. Adds(f)[DOMAIN f] = f[z] + Adds(f)[DOMAIN f \ {z}]
    BY AddsAny
  <2>2. SumOf(f) = Adds(f)[DOMAIN f]
    BY SumIsAdds
  <2> QED BY <1>0, <2>1, <2>2
<1>4. [x \in DOMAIN f \ {z} |-> f[x]] = h
  BY <1>0
<1> HIDE DEF h
<1> QED BY <1>1, <1>2, <1>3, <1>4

LEMMA SumOfNats ==
  ASSUME NEW f, Numbers(f), \A x \in DOMAIN f : f[x] \in Nat
  PROVE  SumOf(f) \in Nat
<1> DEFINE Good == {s \in SUBSET DOMAIN f : Adds(f)[s] \in Nat}
<1> SUFFICES ASSUME ~(SUBSET DOMAIN f \subseteq Good) PROVE FALSE
  BY SumIsAdds
<1>1. PICK s \in SUBSET DOMAIN f :
        s \notin Good /\ \A r \in SUBSET DOMAIN f : Cardinality(r) < Cardinality(s) => r \in Good
  <2>1. IsFiniteSet(DOMAIN f)
    BY DEF Numbers
  <2> HIDE DEF Good
  <2> QED BY <2>1, SmallestOutside
<1>2. s # {}
  <2>1. s = {} => Adds(f)[s] = 0
    BY AddsStep
  <2> QED BY <1>1, <2>1
<1>3. First(s) \in s
  BY <1>2, FirstOfSet
<1>4. s \ {First(s)} \in SUBSET DOMAIN f /\ Cardinality(s \ {First(s)}) < Cardinality(s)
  BY <1>3, SubsetsCounted DEF Numbers
<1>5. Adds(f)[s \ {First(s)}] \in Nat /\ f[First(s)] \in Nat
  BY <1>1, <1>3, <1>4
<1>6. Adds(f)[s] = f[First(s)] + Adds(f)[s \ {First(s)}]
  BY <1>2, AddsStep
<1> QED BY <1>1, <1>5, <1>6

-----------------------------------------------------------------------------
(* Money.  What a checkout charges follows from what it has priced so far. *)

LEMMA Rounding ==
  ASSUME NEW n \in Int, NEW d \in Nat \ {0}
  PROVE  RoundDiv(n, d) \in Int /\ (d = 1 => RoundDiv(n, d) = n)
<1>1. \A a \in Int : a \div (2 * d) \in Int
  OBVIOUS
<1>2. RoundDiv(n, d) \in Int
  <2>1. 2 * n + d \in Int /\ d - 2 * n \in Int
    OBVIOUS
  <2> QED BY <1>1, <2>1 DEF RoundDiv
<1>3. RoundDiv(n, 1) = n
  BY DEF RoundDiv
<1> QED BY <1>2, <1>3

\* To ten cents, by at most five.
LEMMA Snapping ==
  ASSUME NEW c \in Int
  PROVE  /\ Snap(c) \in Int /\ Snap(c) % 10 = 0
         /\ c - 5 <= Snap(c) /\ Snap(c) <= c + 5
         /\ Snap(c) = 0 => c \in -4..4
<1>1. CASE c >= 0
  <2>1. PICK q \in Int : q = (c + 5) \div 10
    OBVIOUS
  <2>2. 10 * q <= c + 5 /\ c + 5 < 10 * q + 10
    BY <2>1
  <2>3. Snap(c) = 10 * q
    BY <1>1, <2>1 DEF Snap
  <2>4. (10 * q) % 10 = 0
    OBVIOUS
  <2> QED BY <1>1, <2>2, <2>3, <2>4
<1>2. CASE c < 0
  <2>1. PICK q \in Int : q = (5 - c) \div 10
    OBVIOUS
  <2>2. 10 * q <= 5 - c /\ 5 - c < 10 * q + 10
    BY <2>1
  <2>3. Snap(c) = -(10 * q)
    BY <1>2, <2>1 DEF Snap
  <2>4. (-(10 * q)) % 10 = 0
    OBVIOUS
  <2> QED BY <1>2, <2>2, <2>3, <2>4
<1> QED BY <1>1, <1>2

\* Both discounts together, fitted to the total and rounded.
LEMMA Fitting ==
  ASSUME NEW t \in Int, NEW c \in Int, NEW total \in Nat
  PROVE  LET d == Scaled(t, c, total)
         IN  d.takeaway \in Int /\ d.coupon \in Int /\ d.takeaway + d.coupon <= total + 5
<1>1. CASE t + c <= total
  BY <1>1 DEF Scaled
<1>2. CASE ~(t + c <= total)
  <2>1. t + c \in Nat \ {0} /\ t * total \in Int
    BY <1>2
  <2>2. PICK r \in Int : r = RoundDiv(t * total, t + c)
    BY <2>1, Rounding
  <2>3. PICK u \in Int : u = Snap(r)
    BY Snapping
  <2>4. RoundDiv(total - u, 1) = total - u
    BY Rounding
  <2>5. PICK v \in Int : v = Snap(total - u) /\ v <= (total - u) + 5
    BY Snapping
  <2>6. Scaled(t, c, total) = [takeaway |-> u, coupon |-> v]
    BY <1>2, <2>2, <2>3, <2>4, <2>5 DEF Scaled, RoundToNearest10Cents
  <2> QED BY <2>5, <2>6
<1> QED BY <1>1, <1>2

\* The items of a priced cart.
Items(items) == IsFiniteSet(DOMAIN items) /\ \A i \in DOMAIN items : items[i].total \in Nat

LEMMA ItemsAdd ==
  ASSUME NEW items, Items(items)
  PROVE  ItemsTotal(items) \in Nat
<1> DEFINE f == [i \in DOMAIN items |-> items[i].total]
<1>1. Numbers(f) /\ \A i \in DOMAIN f : f[i] \in Nat
  BY DEF Items, Numbers
<1> HIDE DEF f
<1>2. SumOf(f) \in Nat
  BY <1>1, SumOfNats
<1> QED BY <1>2 DEF ItemsTotal, f

LEMMA TakeawayTyped ==
  ASSUME NEW cart, NEW items, Items(items)
  PROVE  TakeawayDiscount(cart, items) \in Int
<1> DEFINE f == [i \in {x \in DOMAIN items : items[x].discountable} |-> items[i].total]
<1>1. Numbers(f)
  <2>1. IsFiniteSet({x \in DOMAIN items : items[x].discountable})
    BY FS_Subset DEF Items
  <2> QED BY <2>1 DEF Numbers, Items
<1> HIDE DEF f
<1>2. SumOf(f) \in Int
  BY <1>1, SumTyped
<1>3. Snap(RoundDiv(SumOf(f), 10)) \in Int
  BY <1>2, Rounding, Snapping
<1> QED BY <1>3 DEF TakeawayDiscount, RoundToNearest10Cents, f

LEMMA CouponTyped ==
  ASSUME NEW k \in Carts, NEW amount \in Nat
  PROVE  CouponDiscount(k.coupon, amount) \in Int
<1>1. CASE k.coupon = None
  BY <1>1 DEF CouponDiscount
<1>2. CASE k.coupon # None
  <2>1. k.coupon.kind \in {"percentage", "fixed"} /\ k.coupon.value \in Int
    BY <1>2, CheckoutAssumption DEF CartRow
  <2>2. RoundDiv(amount * k.coupon.value, 100) \in Int
    <3>1. amount * k.coupon.value \in Int
      BY <2>1
    <3> QED BY <3>1, Rounding
  <2>3. CalculateDiscount(k.coupon, amount) \in Int
    BY <2>1, <2>2 DEF CalculateDiscount, AtMost
  <2>4. Snap(RoundDiv(CalculateDiscount(k.coupon, amount), 1)) \in Int
    BY <2>3, Rounding, Snapping
  <2> QED BY <1>2, <2>4 DEF CouponDiscount, RoundToNearest10Cents
<1> QED BY <1>1, <1>2

LEMMA FeeTyped ==
  ASSUME NEW metres \in Nat
  PROVE  DeliveryFeeFromDistance(metres) \in Nat
<1>1. PICK q \in Int : q = metres \div 1000
  OBVIOUS
<1>2. metres >= 3000 => q >= 3
  BY <1>1
<1> QED BY <1>1, <1>2 DEF DeliveryFeeFromDistance

\* A line that is accepted costs no less than nothing.
LEMMA LinePriced ==
  ASSUME NEW line, NEW m, IsFiniteSet(DOMAIN line.picks), \A ch \in DOMAIN line.picks : line.picks[ch] \in Int,
         \A p \in DOMAIN m.products : m.products[p].price \in Int,
         \A ch \in DOMAIN m.choices : m.choices[ch].modifier \in Int,
         LineAccepted(line, m)
  PROVE  LineTotal(line, m) \in Nat
<1> DEFINE s == Selections(line)
           f == [ch \in DOMAIN s |-> AtLeastZero(m.choices[ch].modifier) * s[ch]]
<1>1. DOMAIN s = DOMAIN line.picks \cup ({line.choice} \ {None}) /\ IsFiniteSet(DOMAIN s)
  <2>1. DOMAIN s = DOMAIN line.picks \cup ({line.choice} \ {None})
    BY DEF Selections
  <2>2. IsFiniteSet({line.choice} \ {None})
    BY FS_Singleton, FS_Subset
  <2> QED BY <2>1, <2>2, FS_Union
<1>2. \A ch \in DOMAIN s : s[ch] \in Int
  BY DEF Selections
<1>3. \A ch \in DOMAIN s : AtLeastZero(m.choices[ch].modifier) \in Int
  BY DEF LineAccepted, AtLeastZero
<1>4. Numbers(f)
  <2> HIDE DEF s
  <2> QED BY <1>1, <1>2, <1>3 DEF Numbers
<1> HIDE DEF f
<1>5. SumOf(f) \in Int
  BY <1>4, SumTyped
<1>6. m.products[line.product].price \in Int
  BY DEF LineAccepted
<1>7. UnitPrice(line, m) = m.products[line.product].price + SumOf(f)
  BY DEF UnitPrice, f
<1>8. UnitPrice(line, m) \in Nat /\ line.qty \in Nat
  <2>1. UnitPrice(line, m) \in Int
    BY <1>5, <1>6, <1>7
  <2> QED BY <2>1 DEF LineAccepted
<1> QED BY <1>8 DEF LineTotal

(* What a checkout charges is right once its discounts are fitted.         *)
Charged(q) ==
  /\ Items(q.items) /\ q.fee \in Nat /\ q.takeaway \in Int /\ q.coupon \in Int
  /\ q.surcharge \in {0, TransactionFee}
  /\ q.takeaway + q.coupon <= ItemsTotal(q.items) + q.fee + 5
OrderPriced(o) == Charged(o) /\ o.total = StoredTotal(o)

LEMMA TotalTyped ==
  ASSUME NEW q, Charged(q)
  PROVE  /\ Components(q) \in Int /\ StoredTotal(q) \in Int /\ StoredTotal(q) % 10 = 0
         /\ Components(q) - q.surcharge >= -5
         /\ StoredTotal(q) = 0 => Components(q) \in -4..4 /\ q.surcharge = 0
<1>1. ItemsTotal(q.items) \in Nat
  BY ItemsAdd DEF Charged
<1>2. q.surcharge \in {0, 30}
  BY DEF Charged, TransactionFee
<1>3. Components(q) \in Int /\ Components(q) - q.surcharge >= -5
  BY <1>1, <1>2 DEF Components, Charged
<1>4. /\ StoredTotal(q) \in Int /\ StoredTotal(q) % 10 = 0
      /\ StoredTotal(q) = 0 => Components(q) \in -4..4
  BY <1>3, Snapping DEF StoredTotal
<1> QED BY <1>2, <1>3, <1>4

\* The lines for Mollie add up to the total, by their last one.
LEMMA LinesSum ==
  ASSUME NEW o, OrderPriced(o)
  PROVE  SumOfLines(MollieLines(o)) = o.total
<1> DEFINE L == LinesWithoutCorrection(o)
           d == o.total - SumOfLines(L)
           corr == [kind |-> "correction", nr |-> 0, amount |-> d]
           parts == {[kind |-> "item", nr |-> i, amount |-> o.items[i].total] : i \in DOMAIN o.items}
           extra == {l \in {[kind |-> "fee", nr |-> 0, amount |-> o.fee],
                            [kind |-> "takeaway", nr |-> 0, amount |-> -AtLeastZero(o.takeaway)],
                            [kind |-> "coupon", nr |-> 0, amount |-> -AtLeastZero(o.coupon)],
                            [kind |-> "surcharge", nr |-> 0, amount |-> o.surcharge]} : l.amount # 0}
<1>1. L = parts \cup extra
  BY DEF LinesWithoutCorrection
<1>2. IsFiniteSet(L)
  <2>1. IsFiniteSet(parts)
    <3> DEFINE f == [i \in DOMAIN o.items |-> [kind |-> "item", nr |-> i, amount |-> o.items[i].total]]
    <3>1. f \in Surjection(DOMAIN o.items, parts)
      BY DEF Surjection
    <3>2. IsFiniteSet(DOMAIN o.items)
      BY DEF OrderPriced, Charged, Items
    <3> HIDE DEF f, parts
    <3> QED BY <3>1, <3>2, FS_Surjection
  <2>2. IsFiniteSet(extra)
    <3>1. \A v, w, x, y : IsFiniteSet({v, w, x, y})
      <4> TAKE v, w, x, y
      <4>1. {v, w, x, y} = ({v} \cup {w}) \cup ({x} \cup {y})
        OBVIOUS
      <4>2. \A A, B : IsFiniteSet(A) /\ IsFiniteSet(B) => IsFiniteSet(A \cup B)
        BY FS_Union
      <4>3. IsFiniteSet({v} \cup {w}) /\ IsFiniteSet({x} \cup {y})
        BY <4>2, FS_Singleton
      <4>4. IsFiniteSet(({v} \cup {w}) \cup ({x} \cup {y}))
        BY <4>2, <4>3
      <4> QED BY <4>1, <4>4
    <3>2. extra \subseteq {[kind |-> "fee", nr |-> 0, amount |-> o.fee],
                          [kind |-> "takeaway", nr |-> 0, amount |-> -AtLeastZero(o.takeaway)],
                          [kind |-> "coupon", nr |-> 0, amount |-> -AtLeastZero(o.coupon)],
                          [kind |-> "surcharge", nr |-> 0, amount |-> o.surcharge]}
      OBVIOUS
    <3> HIDE DEF extra
    <3> QED BY <3>1, <3>2, FS_Subset
  <2> HIDE DEF parts, extra
  <2> QED BY <1>1, <2>1, <2>2, FS_Union
<1>3. \A l \in L : l.amount \in Int /\ l.kind # "correction"
  <2>1. \A l \in parts : l.amount \in Int /\ l.kind # "correction"
    BY DEF OrderPriced, Charged, Items
  <2>2. \A l \in extra : l.amount \in Int /\ l.kind # "correction"
    BY DEF OrderPriced, Charged, AtLeastZero, TransactionFee
  <2> HIDE DEF parts, extra
  <2> QED BY <1>1, <2>1, <2>2
<1> HIDE DEF L, parts, extra
<1>4. SumOfLines(L) \in Int
  <2>1. Numbers([l \in L |-> l.amount])
    BY <1>2, <1>3 DEF Numbers
  <2> QED BY <2>1, SumTyped DEF SumOfLines
<1>5. o.total \in Int
  BY TotalTyped DEF OrderPriced
<1>6. d \in Int
  BY <1>4, <1>5
<1>7. MollieLines(o) = L \cup {l \in {corr} : l.amount # 0}
  BY DEF MollieLines, RoundingCorrection, L
<1>8. CASE d = 0
  <2>1. MollieLines(o) = L
    BY <1>7, <1>8
  <2> QED BY <1>4, <1>5, <1>8, <2>1
<1>9. CASE d # 0
  <2> HIDE DEF d
  <2>1. corr.amount = d /\ corr.kind = "correction"
    OBVIOUS
  <2> HIDE DEF corr
  <2>2. MollieLines(o) = L \cup {corr} /\ corr \notin L
    BY <1>3, <1>7, <1>9, <2>1
  <2> DEFINE M == L \cup {corr}
             f == [l \in M |-> l.amount]
  <2>3. Numbers(f) /\ DOMAIN f = M /\ f[corr] = d
    <3>1. IsFiniteSet(M)
      BY <1>2, FS_AddElement
    <3> QED BY <1>3, <1>6, <2>1, <3>1 DEF Numbers
  <2>4. M \ {corr} = L
    BY <2>2
  <2>5. [l \in M \ {corr} |-> f[l]] = [l \in L |-> l.amount]
    BY <2>4
  <2> HIDE DEF f, M
  <2>6. corr \in DOMAIN f
    BY <2>3 DEF M
  <2>7. SumOf(f) = d + SumOf([l \in L |-> l.amount])
    BY <2>3, <2>5, <2>6, SumSplits
  <2>8. SumOfLines(MollieLines(o)) = d + SumOfLines(L)
    BY <2>2, <2>7 DEF SumOfLines, f, M
  <2> QED BY <1>4, <1>5, <2>8 DEF d
<1> QED BY <1>8, <1>9

\* The invoice recomputes a total that is zero, and is then within the rounding of it:
\* an online order is never free, for the surcharge comes after the discounts.
LEMMA InvoiceNear ==
  ASSUME NEW o, OrderPriced(o)
  PROVE  InvoiceTotal(o) - o.total \in -5..5
<1>1. o.total \in Int /\ (o.total = 0 => Components(o) \in -4..4 /\ o.surcharge = 0)
  BY TotalTyped DEF OrderPriced
<1>2. ItemsTotal(o.items) \in Nat
  BY ItemsAdd DEF OrderPriced, Charged
<1>3. CASE o.total = 0
  BY <1>1, <1>2, <1>3 DEF InvoiceTotal, Components, OrderPriced, Charged
<1>4. CASE o.total # 0
  BY <1>1, <1>4 DEF InvoiceTotal
<1> QED BY <1>3, <1>4

(* The invariant: what a checkout has priced by each step, and that what it *)
(* stores is charged rightly.                                              *)
QuoteRow(q) ==
  q = [items |-> q.items, fee |-> q.fee, takeaway |-> q.takeaway, coupon |-> q.coupon,
       surcharge |-> q.surcharge]
Steps == {"products", "choices", "address", "coupon", "reserve", "save",
          "mollie", "store", "undoOrder", "undoCoupon", "announce", "done", "refused"}
PricingSteps == {"choices", "address", "coupon", "reserve", "save"}

RequestPriced(r) ==
  /\ r.step \in Steps /\ r.cart \in Carts /\ QuoteRow(r.quote)
  /\ r.step = "choices" => \A p \in DOMAIN r.products : r.products[p].price \in Int
  /\ r.step = "address" => Items(r.quote.items)
  /\ r.step = "coupon" =>
       /\ Items(r.quote.items) /\ r.quote.fee \in Nat /\ r.quote.takeaway \in Int
       /\ r.quote.surcharge \in {0, TransactionFee}
  /\ r.step \in {"reserve", "save"} => Charged(r.quote)
RowPriced(o) == o # NoRow => OrderPriced(o)
PaymentPriced(p) == p # NoRow => p.amount \in Int

Bounds ==
  /\ menu \in Menus /\ menuEdits \in 0..MaxMenuEdits /\ faults \in 0..MaxFaults
  /\ reserved \subseteq Checkouts /\ announced \subseteq Checkouts
MoneyInv ==
  /\ CheckoutInv /\ Bounds
  /\ \A c \in Checkouts :
       RequestPriced(request[c]) /\ RowPriced(orders[c]) /\ PaymentPriced(payments[c])

LEMMA MoneyStart == CheckoutInit => MoneyInv
<1> SUFFICES ASSUME CheckoutInit PROVE MoneyInv
  OBVIOUS
<1>1. CheckoutInv
  BY CheckoutStart
<1>2. Bounds
  BY CheckoutAssumption DEF CheckoutInit, Bounds
<1>3. ASSUME NEW c \in Checkouts
      PROVE  RequestPriced(request[c]) /\ RowPriced(orders[c]) /\ PaymentPriced(payments[c])
  <2>1. PICK k \in Carts : request[c] = [step |-> "products", cart |-> k, products |-> None,
                                         quote |-> NoQuote, harmed |-> FALSE]
    BY DEF CheckoutInit
  <2>2. RequestPriced(request[c])
    <3>1. request[c].step = "products" /\ request[c].cart = k /\ request[c].quote = NoQuote
      BY <2>1
    <3>2. QuoteRow(NoQuote)
      BY DEF QuoteRow, NoQuote
    <3> QED BY <3>1, <3>2 DEF RequestPriced, Steps
  <2> QED BY <2>2 DEF CheckoutInit, RowPriced, PaymentPriced
<1> QED BY <1>1, <1>2, <1>3 DEF MoneyInv

\* The catalogue, the faults and the sets are kept within their bounds.
OneStep(c) ==
  /\ UNCHANGED <<menu, menuEdits>> /\ (Fault \/ UNCHANGED faults)
  /\ reserved' \subseteq reserved \cup {c} /\ announced' \subseteq announced \cup {c}

LEMMA StepsAreBounded ==
  ASSUME NEW c \in Checkouts, CheckoutStep(c)
  PROVE  OneStep(c)
<1>1. CASE CallFails(c)
  BY <1>1 DEF CallFails, Goto, Become, stores, OneStep
<1>2. CASE ReadProducts(c)
  BY <1>2 DEF ReadProducts, Goto, Become, stores, OneStep
<1>3. CASE PriceItems(c)
  BY <1>3 DEF PriceItems, Goto, Become, stores, OneStep
<1>4. CASE ResolveAddress(c)
  BY <1>4 DEF ResolveAddress, Goto, Become, stores, OneStep
<1>5. CASE ApplyCoupon(c)
  BY <1>5 DEF ApplyCoupon, Goto, Become, stores, OneStep
<1>6. CASE Reserve(c)
  BY <1>6 DEF Reserve, Goto, Become, OneStep
<1>7. CASE SaveOrder(c)
  BY <1>7 DEF SaveOrder, Goto, Become, OneStep
<1>8. CASE CreateMolliePayment(c)
  BY <1>8 DEF CreateMolliePayment, Goto, Become, OneStep
<1>9. CASE SavePayment(c)
  BY <1>9 DEF SavePayment, Goto, Become, OneStep
<1>10. CASE DeleteOrder(c)
  BY <1>10 DEF DeleteOrder, Goto, Become, OneStep
<1>11. CASE RollBackCoupon(c)
  BY <1>11 DEF RollBackCoupon, Goto, Become, OneStep
<1>12. CASE Announce(c)
  BY <1>12 DEF Announce, Goto, Become, OneStep
<1> QED BY <1>1, <1>2, <1>3, <1>4, <1>5, <1>6, <1>7, <1>8, <1>9, <1>10, <1>11, <1>12 DEF CheckoutStep

LEMMA BoundsKept ==
  ASSUME Bounds, NEW c \in Checkouts, CheckoutStep(c)
  PROVE  Bounds'
<1>1. OneStep(c)
  BY StepsAreBounded
<1>2. faults' \in 0..MaxFaults
  BY <1>1, CheckoutAssumption DEF OneStep, Fault, Bounds
<1> QED BY <1>1, <1>2 DEF OneStep, Bounds

\* What c is changed to: its request r, its order o and its payment p.
Rows(c, r, o, p) ==
  /\ request' = [request EXCEPT ![c] = r]
  /\ orders' = [orders EXCEPT ![c] = o]
  /\ payments' = [payments EXCEPT ![c] = p]

LEMMA MoneyMoves ==
  ASSUME MoneyInv, CheckoutInv', Bounds', NEW c \in Checkouts, NEW r, NEW o, NEW p, Rows(c, r, o, p),
         RequestPriced(r), RowPriced(o), PaymentPriced(p)
  PROVE  MoneyInv'
<1>1. /\ request' = [b \in Checkouts |-> IF b = c THEN r ELSE request[b]]
      /\ orders' = [b \in Checkouts |-> IF b = c THEN o ELSE orders[b]]
      /\ payments' = [b \in Checkouts |-> IF b = c THEN p ELSE payments[b]]
  BY DEF Rows, MoneyInv, CheckoutInv, Tables
<1>2. ASSUME NEW b \in Checkouts
      PROVE  RequestPriced(request'[b]) /\ RowPriced(orders'[b]) /\ PaymentPriced(payments'[b])
  <2>1. CASE b = c
    BY <1>1, <2>1
  <2>2. CASE b # c
    <3>1. request'[b] = request[b] /\ orders'[b] = orders[b] /\ payments'[b] = payments[b]
      BY <1>1, <2>2
    <3> QED BY <3>1 DEF MoneyInv
  <2> QED BY <2>1, <2>2
<1>3. \A b \in Checkouts : (RequestPriced(request[b]) /\ RowPriced(orders[b]) /\ PaymentPriced(payments[b]))'
  BY <1>2
<1> QED BY <1>3 DEF MoneyInv

\* What the request of c says, before any step.
LEMMA PricedSoFar ==
  ASSUME MoneyInv, NEW c \in Checkouts
  PROVE  /\ RequestPriced(request[c]) /\ RowPriced(orders[c]) /\ PaymentPriced(payments[c])
         /\ IsRequest(request[c])
         /\ Kept(c, request[c], orders[c], molliePayments[c], payments[c], reserved, announced)
<1>1. CheckoutInv
  BY DEF MoneyInv
<1> QED BY <1>1, StoredThere DEF MoneyInv

LEMMA RowsStay ==
  ASSUME MoneyInv, NEW c \in Checkouts
  PROVE  /\ UNCHANGED orders => orders' = [orders EXCEPT ![c] = orders[c]]
         /\ UNCHANGED payments => payments' = [payments EXCEPT ![c] = payments[c]]
  BY DEF MoneyInv, CheckoutInv, Tables

\* A step that only goes on keeps what is priced.
Onward(c, s) == {[request[c] EXCEPT !.step = s], [request[c] EXCEPT !.step = s, !.harmed = TRUE]}

LEMMA PricedOn ==
  ASSUME MoneyInv, NEW c \in Checkouts, NEW s \in Steps, NEW r \in Onward(c, s),
         s \notin PricingSteps \/ (s = "save" /\ request[c].step = "reserve")
  PROVE  RequestPriced(r)
<1>1. PICK S : RequestOver(request[c], S)
  BY PricedSoFar DEF IsRequest
<1>2. /\ r.step = s /\ r.cart = request[c].cart /\ r.quote = request[c].quote
      /\ r.products = request[c].products
  BY <1>1 DEF RequestOver, Onward
<1>3. RequestPriced(request[c])
  BY PricedSoFar
<1> QED BY <1>2, <1>3 DEF RequestPriced, PricingSteps

\* A step that computes no amount and stores none.
LEMMA MoneyGoesOn ==
  ASSUME MoneyInv, CheckoutInv', Bounds', NEW c \in Checkouts, NEW s \in Steps,
         Goto(c, s) \/ Become(c, [request[c] EXCEPT !.step = s, !.harmed = TRUE]),
         UNCHANGED <<orders, payments>>,
         s \notin PricingSteps \/ (s = "save" /\ request[c].step = "reserve")
  PROVE  MoneyInv'
<1>1. PICK r \in Onward(c, s) : Become(c, r)
  BY DEF Goto, Onward
<1>2. RequestPriced(r)
  BY <1>1, PricedOn
<1>3. Rows(c, r, orders[c], payments[c])
  BY <1>1, RowsStay DEF Rows, Become
<1> QED BY <1>2, <1>3, MoneyMoves, PricedSoFar

LEMMA MoneyReadProducts ==
  ASSUME MoneyInv, CheckoutInv', Bounds', NEW c \in Checkouts, ReadProducts(c)
  PROVE  MoneyInv'
<1> DEFINE wanted == {Cart(c).lines[i].product : i \in DOMAIN Cart(c).lines}
           found == wanted \cap DOMAIN menu.products
           products == [p \in found |-> menu.products[p]]
           r == [request[c] EXCEPT !.step = "choices", !.products = products]
<1>1. UNCHANGED <<orders, payments>> /\ (Goto(c, "refused") \/ Become(c, r))
  BY DEF ReadProducts, stores
<1>2. CASE Goto(c, "refused")
  BY <1>1, <1>2, MoneyGoesOn DEF Steps, PricingSteps
<1>3. CASE Become(c, r)
  <2>1. PICK S : RequestOver(request[c], S)
    BY PricedSoFar DEF IsRequest
  <2>2. r.step = "choices" /\ r.cart = request[c].cart /\ r.quote = request[c].quote /\ r.products = products
    BY <2>1 DEF RequestOver
  <2>3. \A p \in DOMAIN products : products[p].price \in Int
    BY CheckoutAssumption DEF MoneyInv, Bounds, MenuRow
  <2> HIDE DEF r, products
  <2>4. RequestPriced(r)
    BY <2>2, <2>3, PricedSoFar DEF RequestPriced, Steps
  <2>5. Rows(c, r, orders[c], payments[c])
    BY <1>1, <1>3, RowsStay DEF Rows, Become
  <2> QED BY <2>4, <2>5, MoneyMoves, PricedSoFar
<1> QED BY <1>1, <1>2, <1>3

\* A quote with other amounts.
WithFee(q, t, u, f) == [[q EXCEPT !.takeaway = t, !.surcharge = u] EXCEPT !.fee = f]
WithDiscounts(q, t, u) == [q EXCEPT !.takeaway = t, !.coupon = u]

LEMMA QuotePriced ==
  ASSUME NEW q, QuoteRow(q), NEW t, NEW u, NEW f
  PROVE  LET a == WithFee(q, t, u, f)
         IN  QuoteRow(a) /\ a.items = q.items /\ a.fee = f /\ a.takeaway = t /\ a.surcharge = u
<1> DEFINE a == WithFee(q, t, u, f)
           S == {q.items, q.fee, q.takeaway, q.coupon, q.surcharge, t, u, f}
           Over == [items : S, fee : S, takeaway : S, coupon : S, surcharge : S]
           p == [q EXCEPT !.takeaway = t, !.surcharge = u]
<1>1. q \in Over
  BY DEF QuoteRow
<1>2. t \in S /\ u \in S /\ f \in S
  OBVIOUS
<1> HIDE DEF S
<1>3. p \in Over /\ p.items = q.items /\ p.takeaway = t /\ p.surcharge = u
  BY <1>1, <1>2
<1>4. a = [p EXCEPT !.fee = f]
  BY DEF WithFee
<1> HIDE DEF p, a
<1>5. a \in Over /\ a.items = q.items /\ a.fee = f /\ a.takeaway = t /\ a.surcharge = u
  BY <1>2, <1>3, <1>4
<1>6. QuoteRow(a)
  BY <1>5 DEF QuoteRow
<1> QED BY <1>5, <1>6 DEF a

LEMMA QuoteDiscounted ==
  ASSUME NEW q, QuoteRow(q), NEW t, NEW u
  PROVE  LET b == WithDiscounts(q, t, u)
         IN  /\ QuoteRow(b) /\ b.items = q.items /\ b.fee = q.fee /\ b.takeaway = t /\ b.coupon = u
             /\ b.surcharge = q.surcharge
<1> DEFINE b == WithDiscounts(q, t, u)
           S == {q.items, q.fee, q.takeaway, q.coupon, q.surcharge, t, u}
           Over == [items : S, fee : S, takeaway : S, coupon : S, surcharge : S]
<1>1. q \in Over
  BY DEF QuoteRow
<1>2. t \in S /\ u \in S
  OBVIOUS
<1> HIDE DEF S
<1>3. /\ b \in Over /\ b.items = q.items /\ b.fee = q.fee /\ b.takeaway = t /\ b.coupon = u
      /\ b.surcharge = q.surcharge
  BY <1>1, <1>2 DEF WithDiscounts
<1> HIDE DEF b
<1>4. QuoteRow(b)
  BY <1>3 DEF QuoteRow
<1> QED BY <1>3, <1>4 DEF b

\* A step of c that goes on with another quote.
LEMMA MoneyQuotes ==
  ASSUME MoneyInv, CheckoutInv', Bounds', NEW c \in Checkouts, NEW s \in Steps \ {"choices"}, NEW q,
         Become(c, [request[c] EXCEPT !.step = s, !.quote = q]), UNCHANGED <<orders, payments>>,
         QuoteRow(q), s = "address" => Items(q.items),
         s = "coupon" => /\ Items(q.items) /\ q.fee \in Nat /\ q.takeaway \in Int
                         /\ q.surcharge \in {0, TransactionFee},
         s \in {"reserve", "save"} => Charged(q)
  PROVE  MoneyInv'
<1> DEFINE r == [request[c] EXCEPT !.step = s, !.quote = q]
<1>1. PICK S : RequestOver(request[c], S)
  BY PricedSoFar DEF IsRequest
<1>2. r.step = s /\ r.cart = request[c].cart /\ r.quote = q
  BY <1>1 DEF RequestOver
<1>3. Rows(c, r, orders[c], payments[c])
  BY RowsStay DEF Rows, Become
<1> HIDE DEF r
<1>4. RequestPriced(r)
  BY <1>2, PricedSoFar DEF RequestPriced
<1> QED BY <1>3, <1>4, MoneyMoves, PricedSoFar

LEMMA MoneyPriceItems ==
  ASSUME MoneyInv, CheckoutInv', Bounds', NEW c \in Checkouts, PriceItems(c)
  PROVE  MoneyInv'
<1> DEFINE seen == [menu EXCEPT !.products = request[c].products]
           lines == Cart(c).lines
           items == [i \in DOMAIN lines |->
                      [total |-> LineTotal(lines[i], seen),
                       discountable |-> seen.products[lines[i].product].discountable]]
           quote == [Quote(c) EXCEPT !.items = items]
<1>0. request[c].step = "choices" /\ RequestPriced(request[c])
  <2>1. request[c].step = "choices"
    BY DEF PriceItems, AtStep
  <2> QED BY <2>1, PricedSoFar
<1>1. UNCHANGED <<orders, payments>>
  BY DEF PriceItems, stores
<1>2. \/ Goto(c, "refused")
      \/ /\ Become(c, [request[c] EXCEPT !.step = "address", !.quote = quote])
         /\ \A i \in DOMAIN lines : LineAccepted(lines[i], seen)
  BY DEF PriceItems
<1>3. CASE Goto(c, "refused")
  BY <1>1, <1>3, MoneyGoesOn DEF Steps, PricingSteps
<1>4. CASE /\ Become(c, [request[c] EXCEPT !.step = "address", !.quote = quote])
           /\ \A i \in DOMAIN lines : LineAccepted(lines[i], seen)
  <2>1. /\ \A p \in DOMAIN seen.products : seen.products[p].price \in Int
        /\ \A ch \in DOMAIN seen.choices : seen.choices[ch].modifier \in Int
    <3>1. MenuRow(menu)
      BY CheckoutAssumption DEF MoneyInv, Bounds
    <3>2. seen.products = request[c].products /\ seen.choices = menu.choices
      BY <3>1 DEF MenuRow
    <3> HIDE DEF seen
    <3> QED BY <1>0, <3>1, <3>2 DEF MenuRow, RequestPriced
  <2>2. CartRow(Cart(c))
    BY <1>0, CheckoutAssumption DEF RequestPriced, Cart
  <2> HIDE DEF seen
  <2>3. \A i \in DOMAIN lines : LineTotal(lines[i], seen) \in Nat
    BY <1>4, <2>1, <2>2, LinePriced DEF CartRow
  <2>4. Items(items)
    BY <2>2, <2>3 DEF Items, CartRow
  <2> HIDE DEF items
  <2>5. QuoteRow(quote) /\ quote.items = items
    BY <1>0 DEF RequestPriced, QuoteRow, Quote
  <2> HIDE DEF quote
  <2>6. Items(quote.items)
    BY <2>4, <2>5
  <2> HIDE DEF lines
  <2>7. PICK s \in Steps \ {"choices"} : s = "address"
    BY DEF Steps
  <2>8. Become(c, [request[c] EXCEPT !.step = s, !.quote = quote])
    BY <1>4, <2>7
  <2> QED BY <1>1, <2>5, <2>6, <2>7, <2>8, MoneyQuotes
<1> QED BY <1>2, <1>3, <1>4

LEMMA MoneyResolveAddress ==
  ASSUME MoneyInv, CheckoutInv', Bounds', NEW c \in Checkouts, ResolveAddress(c)
  PROVE  MoneyInv'
<1> DEFINE k == Cart(c)
           q == [Quote(c) EXCEPT !.takeaway = TakeawayDiscount(k, Quote(c).items),
                                 !.surcharge = Surcharge(k)]
           fee == IF k.type = "DELIVERY" THEN DeliveryFeeFromDistance(k.distance) ELSE 0
           quote == [q EXCEPT !.fee = fee]
<1>1. request[c].step = "address" /\ RequestPriced(request[c])
  <2>1. request[c].step = "address"
    BY DEF ResolveAddress, AtStep
  <2> QED BY <2>1, PricedSoFar
<1>2. UNCHANGED <<orders, payments>>
  BY DEF ResolveAddress, stores
<1>3. \/ Goto(c, "refused")
      \/ Become(c, [request[c] EXCEPT !.step = "coupon", !.quote = quote])
  BY DEF ResolveAddress
<1>4. CASE Goto(c, "refused")
  BY <1>2, <1>4, MoneyGoesOn DEF Steps, PricingSteps
<1>5. CASE Become(c, [request[c] EXCEPT !.step = "coupon", !.quote = quote])
  <2>1. Items(Quote(c).items) /\ QuoteRow(Quote(c)) /\ k \in Carts
    BY <1>1 DEF RequestPriced, Quote, Cart
  <2>2. TakeawayDiscount(k, Quote(c).items) \in Int
    BY <2>1, TakeawayTyped
  <2>3. fee \in Nat
    BY <2>1, CheckoutAssumption, FeeTyped DEF CartRow
  <2>4. Surcharge(k) \in {0, TransactionFee}
    BY DEF Surcharge
  <2> HIDE DEF fee, k
  <2>5. /\ QuoteRow(quote) /\ quote.items = Quote(c).items /\ quote.fee = fee
        /\ quote.takeaway = TakeawayDiscount(k, Quote(c).items) /\ quote.surcharge = Surcharge(k)
    <3>1. quote = WithFee(Quote(c), TakeawayDiscount(k, Quote(c).items), Surcharge(k), fee)
      BY DEF WithFee
    <3> HIDE DEF quote
    <3> QED BY <2>1, <3>1, QuotePriced
  <2> HIDE DEF quote
  <2>6. /\ Items(quote.items) /\ quote.fee \in Nat /\ quote.takeaway \in Int
        /\ quote.surcharge \in {0, TransactionFee}
    BY <2>1, <2>2, <2>3, <2>4, <2>5
  <2>7. PICK s \in Steps \ {"choices"} : s = "coupon"
    BY DEF Steps
  <2>8. Become(c, [request[c] EXCEPT !.step = s, !.quote = quote])
    BY <1>5, <2>7
  <2> QED BY <1>2, <2>5, <2>6, <2>7, <2>8, MoneyQuotes
<1> QED BY <1>3, <1>4, <1>5

LEMMA MoneyApplyCoupon ==
  ASSUME MoneyInv, CheckoutInv', Bounds', NEW c \in Checkouts, ApplyCoupon(c)
  PROVE  MoneyInv'
<1> DEFINE k == Cart(c)
           total == ItemsTotal(Quote(c).items) + Quote(c).fee
           d == Scaled(Quote(c).takeaway, CouponDiscount(k.coupon, total), total)
           next == IF k.coupon = None THEN "save" ELSE "reserve"
           quote == [Quote(c) EXCEPT !.takeaway = d.takeaway, !.coupon = d.coupon]
<1>1. request[c].step = "coupon" /\ RequestPriced(request[c])
  <2>1. request[c].step = "coupon"
    BY DEF ApplyCoupon, AtStep
  <2> QED BY <2>1, PricedSoFar
<1>2. UNCHANGED <<orders, payments>>
  BY DEF ApplyCoupon, stores
<1>3. Goto(c, "refused") \/ Become(c, [request[c] EXCEPT !.step = next, !.quote = quote])
  BY DEF ApplyCoupon
<1>4. CASE Goto(c, "refused")
  BY <1>2, <1>4, MoneyGoesOn DEF Steps, PricingSteps
<1>5. CASE Become(c, [request[c] EXCEPT !.step = next, !.quote = quote])
  <2>1. /\ Items(Quote(c).items) /\ QuoteRow(Quote(c)) /\ Quote(c).fee \in Nat /\ Quote(c).takeaway \in Int
        /\ Quote(c).surcharge \in {0, TransactionFee} /\ k \in Carts
    BY <1>1 DEF RequestPriced, Quote, Cart
  <2>2. total \in Nat
    BY <2>1, ItemsAdd
  <2>3. CouponDiscount(k.coupon, total) \in Int
    <3> HIDE DEF total, k
    <3> QED BY <2>1, <2>2, CouponTyped
  <2>4. d.takeaway \in Int /\ d.coupon \in Int /\ d.takeaway + d.coupon <= total + 5
    <3> HIDE DEF total, k
    <3> QED BY <2>1, <2>2, <2>3, Fitting
  <2> HIDE DEF d
  <2>5. /\ QuoteRow(quote) /\ quote.items = Quote(c).items /\ quote.fee = Quote(c).fee
        /\ quote.takeaway = d.takeaway /\ quote.coupon = d.coupon /\ quote.surcharge = Quote(c).surcharge
    <3>1. quote = WithDiscounts(Quote(c), d.takeaway, d.coupon)
      BY DEF WithDiscounts
    <3> HIDE DEF quote
    <3> QED BY <2>1, <3>1, QuoteDiscounted
  <2>6. next \in {"save", "reserve"}
    OBVIOUS
  <2> HIDE DEF quote, next
  <2>7. Charged(quote)
    BY <2>1, <2>4, <2>5 DEF Charged
  <2> QED BY <1>2, <1>5, <2>5, <2>6, <2>7, MoneyQuotes DEF Steps
<1> QED BY <1>3, <1>4, <1>5

\* An order row charges what its request was quoted.
LEMMA OrderRowPriced ==
  ASSUME NEW c, Charged(Quote(c))
  PROVE  OrderPriced(OrderRow(c))
<1> DEFINE q == Quote(c)
           o == OrderRow(c)
<1>1. /\ o.items = q.items /\ o.fee = q.fee /\ o.takeaway = q.takeaway /\ o.coupon = q.coupon
      /\ o.surcharge = q.surcharge /\ o.total = StoredTotal(q)
  BY DEF OrderRow
<1> HIDE DEF o, q
<1>2. Charged(q)
  BY DEF q
<1>3. Charged(o) /\ StoredTotal(o) = StoredTotal(q)
  BY <1>1, <1>2 DEF Charged, StoredTotal, Components
<1>4. OrderPriced(o)
  BY <1>1, <1>3 DEF OrderPriced
<1> QED BY <1>4 DEF o

LEMMA EndedIsPriced ==
  ASSUME NEW o, IsRow(o), OrderPriced(o), NEW s
  PROVE  OrderPriced([o EXCEPT !.status = s])
<1> DEFINE e == [o EXCEPT !.status = s]
<1>1. PICK S : RowOver(o, S)
  BY DEF IsRow
<1>2. /\ e.items = o.items /\ e.fee = o.fee /\ e.takeaway = o.takeaway /\ e.coupon = o.coupon
      /\ e.surcharge = o.surcharge /\ e.total = o.total
  BY <1>1 DEF RowOver
<1> HIDE DEF e
<1>3. OrderPriced(e)
  BY <1>2 DEF OrderPriced, Charged, StoredTotal, Components
<1> QED BY <1>3 DEF e

\* A step that writes the order o and the payment p, and computes no amount.
LEMMA MoneyWrites ==
  ASSUME MoneyInv, CheckoutInv', Bounds', NEW c \in Checkouts, NEW s \in Steps \ PricingSteps, NEW o, NEW p,
         Goto(c, s) \/ Become(c, [request[c] EXCEPT !.step = s, !.harmed = TRUE]),
         orders' = [orders EXCEPT ![c] = o], payments' = [payments EXCEPT ![c] = p],
         RowPriced(o), PaymentPriced(p)
  PROVE  MoneyInv'
<1>1. PICK r \in Onward(c, s) : Become(c, r)
  BY DEF Goto, Onward
<1>2. RequestPriced(r)
  BY <1>1, PricedOn
<1>3. Rows(c, r, o, p)
  BY <1>1 DEF Rows, Become
<1> QED BY <1>2, <1>3, MoneyMoves

LEMMA MoneySaveOrder ==
  ASSUME MoneyInv, CheckoutInv', Bounds', NEW c \in Checkouts, SaveOrder(c)
  PROVE  MoneyInv'
<1>1. Charged(Quote(c)) /\ PaymentPriced(payments[c])
  BY PricedSoFar DEF SaveOrder, AtStep, RequestPriced, Quote
<1>2. RowPriced(OrderRow(c))
  BY <1>1, OrderRowPriced DEF RowPriced
<1>3. payments' = [payments EXCEPT ![c] = payments[c]]
  BY RowsStay DEF SaveOrder
<1>4. \/ UNCHANGED <<orders, payments>> /\ Goto(c, "undoCoupon")
      \/ /\ orders' = [orders EXCEPT ![c] = OrderRow(c)]
         /\ Goto(c, AfterSave(c)) \/ Become(c, [request[c] EXCEPT !.step = "undoCoupon", !.harmed = TRUE])
  BY DEF SaveOrder
<1>5. AfterSave(c) \in Steps \ PricingSteps /\ "undoCoupon" \in Steps \ PricingSteps
  BY DEF AfterSave, Steps, PricingSteps
<1>6. CASE UNCHANGED <<orders, payments>> /\ Goto(c, "undoCoupon")
  BY <1>5, <1>6, MoneyGoesOn
<1>7. CASE /\ orders' = [orders EXCEPT ![c] = OrderRow(c)]
           /\ Goto(c, AfterSave(c)) \/ Become(c, [request[c] EXCEPT !.step = "undoCoupon", !.harmed = TRUE])
  BY <1>1, <1>2, <1>3, <1>5, <1>7, MoneyWrites
<1> QED BY <1>4, <1>6, <1>7

LEMMA MoneySavePayment ==
  ASSUME MoneyInv, CheckoutInv', Bounds', NEW c \in Checkouts, SavePayment(c)
  PROVE  MoneyInv'
<1> DEFINE payment == [amount |-> molliePayments[c].amount, status |-> "open"]
<1>1. IsRow(orders[c]) /\ molliePayments[c].amount = orders[c].total /\ RowPriced(orders[c])
  BY PricedSoFar DEF SavePayment, AtStep, Kept
<1>2. orders[c].total \in Int
  BY <1>1, TotalTyped DEF IsRow, RowPriced, OrderPriced
<1>3. PaymentPriced(payment)
  BY <1>1, <1>2 DEF PaymentPriced
<1>4. orders' = [orders EXCEPT ![c] = orders[c]] /\ UNCHANGED orders
  BY RowsStay DEF SavePayment
<1>5. PICK s \in {"done", "undoOrder"} :
        Goto(c, s) /\ (payments' = [payments EXCEPT ![c] = payment] \/ UNCHANGED payments)
  BY DEF SavePayment
<1>6. s \in Steps \ PricingSteps
  BY DEF Steps, PricingSteps
<1> HIDE DEF payment
<1>7. CASE payments' = [payments EXCEPT ![c] = payment]
  BY <1>1, <1>3, <1>4, <1>5, <1>6, <1>7, MoneyWrites
<1>8. CASE UNCHANGED payments
  BY <1>4, <1>5, <1>6, <1>8, MoneyGoesOn
<1> QED BY <1>5, <1>7, <1>8

LEMMA MoneyDeleteOrder ==
  ASSUME MoneyInv, CheckoutInv', Bounds', NEW c \in Checkouts, DeleteOrder(c)
  PROVE  MoneyInv'
<1>1. "undoCoupon" \in Steps \ PricingSteps
  BY DEF Steps, PricingSteps
<1>2. RowPriced(NoRow) /\ PaymentPriced(NoRow)
  BY DEF RowPriced, PaymentPriced
<1>3. \/ /\ orders' = [orders EXCEPT ![c] = NoRow] /\ payments' = [payments EXCEPT ![c] = NoRow]
         /\ Goto(c, "undoCoupon")
      \/ /\ UNCHANGED <<orders, payments>>
         /\ Become(c, [request[c] EXCEPT !.step = "undoCoupon", !.harmed = TRUE])
  BY DEF DeleteOrder
<1> QED BY <1>1, <1>2, <1>3, MoneyWrites, MoneyGoesOn

\* The steps that neither compute an amount nor write one.
LEMMA MoneyElsewhere ==
  ASSUME MoneyInv, CheckoutInv', Bounds', NEW c \in Checkouts,
         CallFails(c) \/ Reserve(c) \/ CreateMolliePayment(c) \/ RollBackCoupon(c) \/ Announce(c)
  PROVE  MoneyInv'
<1>1. UNCHANGED <<orders, payments>>
  BY DEF CallFails, Reserve, CreateMolliePayment, RollBackCoupon, Announce, stores
<1>2. ASSUME NEW s \in Steps, s \notin PricingSteps \/ (s = "save" /\ request[c].step = "reserve"),
             Goto(c, s) \/ Become(c, [request[c] EXCEPT !.step = s, !.harmed = TRUE])
      PROVE  MoneyInv'
  BY <1>1, <1>2, MoneyGoesOn
<1>3. CASE CallFails(c)
  BY <1>2, <1>3 DEF CallFails, Steps, PricingSteps
<1>4. CASE Reserve(c)
  BY <1>2, <1>4 DEF Reserve, AtStep, Steps, PricingSteps
<1>5. CASE CreateMolliePayment(c)
  <2>1. Goto(c, "store") \/ Goto(c, "undoOrder")
    BY <1>5 DEF CreateMolliePayment
  <2> QED BY <1>2, <2>1 DEF Steps, PricingSteps
<1>6. CASE RollBackCoupon(c)
  BY <1>2, <1>6 DEF RollBackCoupon, Steps, PricingSteps
<1>7. CASE Announce(c)
  BY <1>2, <1>7 DEF Announce, Steps, PricingSteps
<1> QED BY <1>3, <1>4, <1>5, <1>6, <1>7

LEMMA MoneyEndOrder ==
  ASSUME MoneyInv, CheckoutInv', NEW c \in Checkouts, EndOrder(c)
  PROVE  MoneyInv'
<1>1. PICK s \in {"DELIVERED", "PICKED_UP", "CANCELLED"} : orders' = [orders EXCEPT ![c].status = s]
  BY DEF EndOrder
<1> DEFINE e == [orders[c] EXCEPT !.status = s]
<1>2. orders' = [orders EXCEPT ![c] = e]
  BY <1>1
<1>3. IsRow(orders[c]) /\ RowPriced(orders[c])
  BY PricedSoFar DEF EndOrder, AtStep, Kept
<1>4. RowPriced(e)
  BY <1>3, EndedIsPriced DEF IsRow, RowPriced
<1> HIDE DEF e
<1>5. Bounds'
  BY DEF EndOrder, MoneyInv, Bounds
<1>6. Rows(c, request[c], e, payments[c])
  BY <1>2 DEF Rows, EndOrder, MoneyInv, CheckoutInv, Tables
<1> QED BY <1>4, <1>5, <1>6, MoneyMoves, PricedSoFar

\* The invariant is inductive.
LEMMA MoneyKept == MoneyInv /\ [CheckoutNext]_checkoutVars => MoneyInv'
<1> SUFFICES ASSUME MoneyInv, [CheckoutNext]_checkoutVars PROVE MoneyInv'
  OBVIOUS
<1>1. CheckoutInv'
  BY CheckoutStepKeeps DEF MoneyInv
<1>2. ASSUME UNCHANGED <<request, orders, payments>>, Bounds' PROVE MoneyInv'
  BY <1>1, <1>2 DEF MoneyInv
<1>3. CASE EditMenu
  <2>1. Bounds'
    BY <1>3, CheckoutAssumption DEF EditMenu, MoneyInv, Bounds, stores
  <2> QED BY <1>2, <1>3, <2>1 DEF EditMenu, stores
<1>4. ASSUME NEW c \in Checkouts, CheckoutStep(c) PROVE MoneyInv'
  <2>1. Bounds'
    BY <1>4, BoundsKept DEF MoneyInv
  <2> QED BY <1>1, <1>4, <2>1, MoneyReadProducts, MoneyPriceItems, MoneyResolveAddress, MoneyApplyCoupon,
             MoneySaveOrder, MoneySavePayment, MoneyDeleteOrder, MoneyElsewhere DEF CheckoutStep
<1>5. ASSUME NEW c \in Checkouts, EndOrder(c) PROVE MoneyInv'
  BY <1>1, <1>5, MoneyEndOrder
<1>6. CASE UNCHANGED checkoutVars
  <2>1. Bounds'
    BY <1>6 DEF checkoutVars, MoneyInv, Bounds
  <2> QED BY <1>2, <1>6, <2>1 DEF checkoutVars
<1> QED BY <1>3, <1>4, <1>5, <1>6 DEF CheckoutNext

LEMMA MoneyAddsUp == MoneyInv => ChargesAddUp
<1> SUFFICES ASSUME MoneyInv PROVE ChargesAddUp
  OBVIOUS
<1>1. ASSUME NEW c \in Checkouts, orders[c] # NoRow
      PROVE  OrderPriced(orders[c])
  BY <1>1 DEF MoneyInv, RowPriced
<1>2. CheckoutTypeOK
  <2>1. ASSUME NEW c \in Checkouts, orders[c] # NoRow PROVE orders[c].total % 10 = 0
    BY <1>1, <2>1, TotalTyped DEF OrderPriced
  <2>2. DOMAIN request = Checkouts
    BY DEF MoneyInv, CheckoutInv, Tables
  <2>3. \A c \in Checkouts : request[c].step \in Steps /\ request[c].cart \in Carts
                               /\ (payments[c] # NoRow => payments[c].amount \in Int)
    BY DEF MoneyInv, RequestPriced, PaymentPriced
  <2> QED BY <2>1, <2>2, <2>3 DEF CheckoutTypeOK, MoneyInv, Bounds, Steps
<1>3. DiscountsNearTotal
  BY <1>1 DEF DiscountsNearTotal, OrderPriced, Charged
<1>4. LinesAddUp
  <2> SUFFICES ASSUME NEW c \in Checkouts, request[c].step = "mollie"
               PROVE  SumOfLines(MollieLines(orders[c])) = orders[c].total
    BY DEF LinesAddUp, AtStep
  <2>1. orders[c] # NoRow
    BY PricedSoFar DEF Kept, IsRow
  <2> QED BY <1>1, <2>1, LinesSum
<1>5. InvoiceNearCharge
  BY <1>1, InvoiceNear DEF InvoiceNearCharge
<1> QED BY <1>2, <1>3, <1>4, <1>5 DEF ChargesAddUp

\* Whatever is ordered from whatever menu, and however the menu changes meanwhile: the
\* charge is in tens of cents, the discounts take no more than the order's total and
\* the rounding of five cents, the lines that Mollie is sent sum to the amount it is
\* to charge, and the invoice, which recomputes a total of zero, is within five cents
\* of what was charged.
THEOREM ChargesAlwaysAddUp == CheckoutSpec => []ChargesAddUp
BY MoneyStart, MoneyKept, MoneyAddsUp, PTL DEF CheckoutSpec
-----------------------------------------------------------------------------
(* Coupon codes                                                            *)

\* The requests in a phase.
RequestsAt(s) == {r \in Requests : at[r] = s}

AttemptsTypes ==
  /\ failed \in Nat /\ guesses \in Nat /\ uncounted \in Nat /\ counterFaults \in Nat
  /\ at \in [Requests -> {"idle", "lookup", "record"}]

\* What is known of today's wrong codes: all are counted but those the counter
\* missed and those still to be recorded; and the codes yet to be looked up
\* leave room for themselves.
AttemptsCounted ==
  /\ guesses <= failed + uncounted + Cardinality(RequestsAt("record"))
  /\ guesses + Cardinality(RequestsAt("lookup")) <= MaxFailedAttempts + (Cardinality(Requests) - 1) + uncounted

AttemptsInv == AttemptsTypes /\ AttemptsCounted

LEMMA DisjointCount ==
  ASSUME NEW S, NEW T, IsFiniteSet(S), IsFiniteSet(T), S \cap T = {}
  PROVE  /\ IsFiniteSet(S \cup T)
         /\ Cardinality(S \cup T) = Cardinality(S) + Cardinality(T)
<1>1. Cardinality(S \cap T) = 0
  BY FS_EmptySet
<1>2. Cardinality(S) \in Nat /\ Cardinality(T) \in Nat
  BY FS_CardinalityType
<1>3. IsFiniteSet(S \cup T) /\ Cardinality(S \cup T) = Cardinality(S) + Cardinality(T) - Cardinality(S \cap T)
  BY FS_Union
<1> QED BY <1>1, <1>2, <1>3

LEMMA PhasesCounted ==
  ASSUME AttemptsTypes
  PROVE  /\ \A s \in {"idle", "lookup", "record"} : IsFiniteSet(RequestsAt(s)) /\ Cardinality(RequestsAt(s)) \in Nat
         /\ Cardinality(Requests) \in Nat
         /\ Cardinality(RequestsAt("lookup")) + Cardinality(RequestsAt("record")) <= Cardinality(Requests)
         /\ RequestsAt("idle") # {} =>
              Cardinality(RequestsAt("lookup")) + Cardinality(RequestsAt("record")) <= Cardinality(Requests) - 1
<1>1. \A s \in {"idle", "lookup", "record"} :
        IsFiniteSet(RequestsAt(s)) /\ Cardinality(RequestsAt(s)) \in Nat /\ (RequestsAt(s) # {} => Cardinality(RequestsAt(s)) > 0)
  <2> SUFFICES ASSUME NEW s \in {"idle", "lookup", "record"}
               PROVE  IsFiniteSet(RequestsAt(s)) /\ Cardinality(RequestsAt(s)) \in Nat /\ (RequestsAt(s) # {} => Cardinality(RequestsAt(s)) > 0)
    OBVIOUS
  <2>1. IsFiniteSet(RequestsAt(s))
    BY AttemptsAssumption, FS_Subset DEF RequestsAt
  <2> QED BY <2>1, FS_CardinalityType, FS_EmptySet
<1>2. /\ IsFiniteSet(RequestsAt("lookup") \cup RequestsAt("record"))
      /\ Cardinality(RequestsAt("lookup") \cup RequestsAt("record")) = Cardinality(RequestsAt("lookup")) + Cardinality(RequestsAt("record"))
  <2>1. RequestsAt("lookup") \cap RequestsAt("record") = {}
    BY DEF RequestsAt
  <2> QED BY <1>1, <2>1, DisjointCount
<1>3. Cardinality(Requests) = Cardinality(RequestsAt("lookup") \cup RequestsAt("record")) + Cardinality(RequestsAt("idle"))
  <2>1. (RequestsAt("lookup") \cup RequestsAt("record")) \cap RequestsAt("idle") = {}
    BY DEF RequestsAt
  <2>2. (RequestsAt("lookup") \cup RequestsAt("record")) \cup RequestsAt("idle") = Requests
    BY DEF RequestsAt, AttemptsTypes
  <2> QED BY <1>1, <1>2, <2>1, <2>2, DisjointCount
<1> QED BY <1>1, <1>2, <1>3

\* A request goes from one phase to another.
LEMMA PhaseStep ==
  ASSUME AttemptsTypes, NEW r \in Requests, NEW s \in {"idle", "lookup", "record"},
         NEW t \in {"idle", "lookup", "record"}, s # t, at[r] = s, at' = [at EXCEPT ![r] = t]
  PROVE  /\ Cardinality(RequestsAt(s)') = Cardinality(RequestsAt(s)) - 1
         /\ Cardinality(RequestsAt(t)') = Cardinality(RequestsAt(t)) + 1
         /\ \A u \in {"idle", "lookup", "record"} \ {s, t} : RequestsAt(u)' = RequestsAt(u)
         /\ at' \in [Requests -> {"idle", "lookup", "record"}]
<1>1. at' \in [Requests -> {"idle", "lookup", "record"}]
  BY DEF AttemptsTypes
<1>2. RequestsAt(s)' = RequestsAt(s) \ {r} /\ r \in RequestsAt(s) /\ RequestsAt(t)' = RequestsAt(t) \cup {r} /\ r \notin RequestsAt(t)
  BY DEF RequestsAt, AttemptsTypes
<1>3. \A u \in {"idle", "lookup", "record"} \ {s, t} : RequestsAt(u)' = RequestsAt(u)
  BY DEF RequestsAt, AttemptsTypes
<1>4. IsFiniteSet(RequestsAt(s)) /\ IsFiniteSet(RequestsAt(t)) /\ Cardinality(RequestsAt(s)) \in Nat /\ Cardinality(RequestsAt(t)) \in Nat
  BY PhasesCounted
<1>5. Cardinality(RequestsAt(s) \ {r}) = Cardinality(RequestsAt(s)) - 1
  BY <1>2, <1>4, FS_RemoveElement
<1>6. Cardinality(RequestsAt(t) \cup {r}) = Cardinality(RequestsAt(t)) + 1
  BY <1>2, <1>4, FS_AddElement
<1> QED BY <1>1, <1>2, <1>3, <1>5, <1>6

LEMMA InitAttempts == AttemptsInit => AttemptsInv
<1> SUFFICES ASSUME AttemptsInit PROVE AttemptsInv
  OBVIOUS
<1>1. AttemptsTypes
  BY DEF AttemptsInit, AttemptsTypes
<1>2. RequestsAt("record") = {} /\ RequestsAt("lookup") = {}
  BY DEF AttemptsInit, RequestsAt
<1>3. Cardinality(Requests) - 1 >= -1
  BY <1>1, PhasesCounted
<1> QED BY <1>1, <1>2, <1>3, FS_EmptySet, PhasesCounted, AttemptsAssumption
    DEF AttemptsInit, AttemptsInv, AttemptsCounted

LEMMA StepAttempts == AttemptsInv /\ [AttemptsNext]_attemptVars => AttemptsInv'
<1> SUFFICES ASSUME AttemptsInv, [AttemptsNext]_attemptVars PROVE AttemptsInv'
  OBVIOUS
<1> USE AttemptsAssumption
<1>0. AttemptsTypes /\ AttemptsCounted
  BY DEF AttemptsInv
<1>1. ASSUME NEW r \in Requests, CountFailedAttempts(r) PROVE AttemptsInv'
  <2>0. UNCHANGED <<failed, guesses>>
    BY <1>1 DEF CountFailedAttempts
  <2>1. CASE UNCHANGED at
    <3>1. UNCHANGED <<uncounted, counterFaults>>
      <4>1. at[r] = "idle" /\ at[r] # "lookup"
        BY <1>1 DEF CountFailedAttempts
      <4>2. at' # [at EXCEPT ![r] = "lookup"]
        BY <1>0, <2>1, <4>1 DEF AttemptsTypes
      <4> QED BY <1>1, <4>2 DEF CountFailedAttempts
    <3> QED BY <1>0, <2>0, <2>1, <3>1 DEF AttemptsInv, AttemptsTypes, AttemptsCounted, RequestsAt
  <2>2. CASE at' = [at EXCEPT ![r] = "lookup"]
    <3>1. at[r] = "idle" /\ RequestsAt("idle") # {}
      BY <1>1 DEF CountFailedAttempts, RequestsAt
    <3>2. /\ Cardinality(RequestsAt("lookup")') = Cardinality(RequestsAt("lookup")) + 1
          /\ RequestsAt("record")' = RequestsAt("record") /\ at' \in [Requests -> {"idle", "lookup", "record"}]
      BY <1>0, <2>2, <3>1, PhaseStep
    <3>3. \/ failed < MaxFailedAttempts /\ UNCHANGED <<uncounted, counterFaults>>
          \/ uncounted' = uncounted + 1 /\ counterFaults' = counterFaults + 1
          \/ UNCHANGED at
      BY <1>1 DEF CountFailedAttempts, CounterFault
    <3>4. at' # at
      BY <1>0, <2>2, <3>1 DEF AttemptsTypes
    <3>5. AttemptsTypes'
      BY <1>0, <2>0, <3>2, <3>3, <3>4 DEF AttemptsTypes
    <3>6. AttemptsCounted'
      BY <1>0, <2>0, <3>1, <3>2, <3>3, <3>4, PhasesCounted DEF AttemptsTypes, AttemptsCounted
    <3> QED BY <3>5, <3>6 DEF AttemptsInv
  <2> QED BY <1>1, <2>1, <2>2 DEF CountFailedAttempts
<1>2. ASSUME NEW r \in Requests, LookUpCode(r) PROVE AttemptsInv'
  <2>1. at[r] = "lookup" /\ UNCHANGED <<failed, uncounted, counterFaults>>
    BY <1>2 DEF LookUpCode
  <2>2. PICK t \in {"idle", "record"} : /\ at' = [at EXCEPT ![r] = t]
                                        /\ guesses' = IF t = "record" THEN guesses + 1 ELSE guesses
    BY <1>2 DEF LookUpCode
  <2>3. /\ Cardinality(RequestsAt("lookup")') = Cardinality(RequestsAt("lookup")) - 1
        /\ Cardinality(RequestsAt(t)') = Cardinality(RequestsAt(t)) + 1
        /\ t = "idle" => RequestsAt("record")' = RequestsAt("record")
        /\ at' \in [Requests -> {"idle", "lookup", "record"}]
    BY <1>0, <2>1, <2>2, PhaseStep
  <2>4. AttemptsTypes'
    BY <1>0, <2>1, <2>2, <2>3 DEF AttemptsTypes
  <2>5. AttemptsCounted'
    BY <1>0, <2>1, <2>2, <2>3, PhasesCounted DEF AttemptsTypes, AttemptsCounted
  <2> QED BY <2>4, <2>5 DEF AttemptsInv
<1>3. ASSUME NEW r \in Requests, RecordFailedAttempt(r) PROVE AttemptsInv'
  <2>1. at[r] = "record" /\ at' = [at EXCEPT ![r] = "idle"] /\ UNCHANGED guesses
    BY <1>3 DEF RecordFailedAttempt
  <2>2. \/ failed' = failed + 1 /\ UNCHANGED <<counterFaults, uncounted>>
        \/ uncounted' = uncounted + 1 /\ counterFaults' = counterFaults + 1 /\ UNCHANGED failed
    BY <1>3 DEF RecordFailedAttempt, CounterFault
  <2>3. /\ Cardinality(RequestsAt("record")') = Cardinality(RequestsAt("record")) - 1
        /\ RequestsAt("lookup")' = RequestsAt("lookup")
        /\ at' \in [Requests -> {"idle", "lookup", "record"}]
    BY <1>0, <2>1, PhaseStep
  <2>4. AttemptsTypes'
    BY <1>0, <2>1, <2>2, <2>3 DEF AttemptsTypes
  <2>5. AttemptsCounted'
    BY <1>0, <2>1, <2>2, <2>3, PhasesCounted DEF AttemptsTypes, AttemptsCounted
  <2> QED BY <2>4, <2>5 DEF AttemptsInv
<1>4. CASE Midnight
  <2>1. AttemptsTypes' /\ UNCHANGED at /\ RequestsAt("lookup")' = RequestsAt("lookup") /\ RequestsAt("record")' = RequestsAt("record")
    BY <1>0, <1>4 DEF Midnight, AttemptsTypes, RequestsAt
  <2> QED BY <1>0, <1>4, <2>1, PhasesCounted DEF Midnight, AttemptsInv, AttemptsCounted
<1>5. CASE UNCHANGED attemptVars
  BY <1>0, <1>5 DEF attemptVars, AttemptsInv, AttemptsTypes, AttemptsCounted, RequestsAt
<1> QED BY <1>1, <1>2, <1>3, <1>4, <1>5 DEF AttemptsNext

\* However many requests of a customer overlap, across midnight too, the wrong codes
\* looked up in a day exceed the daily limit by at most the other requests and
\* those a failing counter let through.
THEOREM GuessesAreBounded == AttemptsSpec => []GuessesBounded
<1>1. AttemptsInv => GuessesBounded
  <2> SUFFICES ASSUME AttemptsInv PROVE GuessesBounded
    OBVIOUS
  <2> QED BY PhasesCounted, AttemptsAssumption DEF AttemptsInv, AttemptsTypes, AttemptsCounted, GuessesBounded
<1> QED BY <1>1, InitAttempts, StepAttempts, PTL DEF AttemptsSpec
=============================================================================
