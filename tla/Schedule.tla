------------------------------ MODULE Schedule ------------------------------
(***************************************************************************)
(* The pure part of the restaurant's calendar: which schedule is in force, *)
(* which slots a customer is offered and which ready times are accepted.   *)
(* Instants are half-minutes since a Monday at midnight, in the            *)
(* restaurant's own time zone: half a minute is enough to tell a clock     *)
(* that stands between two minutes from one that does not.  Wall-clock     *)
(* times "HH:MM" are minutes since midnight.                               *)
(***************************************************************************)
EXTENDS Integers, FiniteSets

CONSTANTS Closed,       \* a day without a schedule (nil)
          Unset         \* no override, no ordering hours, no preferred time

Minute == 2
Hour == 60 * Minute
DayLength == 24 * Hour
Quarter == 15 * Minute

DayOf(t) == t \div DayLength
MinuteOf(t) == (t % DayLength) \div Minute
At(t, minutes) == DayOf(t) * DayLength + minutes * Minute
Weekday(t) == DayOf(t) % 7
IsWeekday(t) == Weekday(t) < 5

Later(a, b) == IF a > b THEN a ELSE b

RoundUpToNextQuarter(t) ==
  LET whole == t - (t % Minute)
      rem == whole % Quarter
  IN  IF rem = 0 THEN whole ELSE whole + Quarter - rem

(* An override of the day wins over the weekly hours, even when it is      *)
(* stored without a schedule.                                              *)
ResolveDaySchedule(t, hours, overrides) ==
  LET ov == overrides[DayOf(t)]
  IN  IF ov # Unset THEN ov ELSE hours[Weekday(t)]

HoursForOrders(config) ==
  IF config.ordering # Unset THEN config.ordering ELSE config.opening

OrderingSchedule(t, config, overrides) ==
  ResolveDaySchedule(t, HoursForOrders(config), overrides)

HasDinner(s) == s.dinnerOpen # Unset /\ s.dinnerClose # Unset

Intervals(s) ==
  {[open |-> s.open, close |-> s.close, first |-> TRUE]} \cup
  {iv \in {[open |-> s.dinnerOpen, close |-> s.dinnerClose, first |-> FALSE]} :
     HasDinner(s)}

IsWithinSchedule(s, t) ==
  /\ s # Closed
  /\ \E iv \in Intervals(s) : iv.open <= MinuteOf(t) /\ MinuteOf(t) < iv.close

IsCurrentlyOpen(t, config, overrides) ==
  IsWithinSchedule(ResolveDaySchedule(t, config.opening, overrides), t)

IsOrderingCurrentlyOpen(t, config, overrides) ==
  IsWithinSchedule(OrderingSchedule(t, config, overrides), t)

Prep(config) == IF config.prep <= 0 THEN 30 ELSE config.prep

FirstSlotFromOpening(iv, t, config) ==
  RoundUpToNextQuarter(
    Later(At(t, iv.open), RoundUpToNextQuarter(t + Prep(config) * Minute)))

FirstSlot(iv, t, config) ==
  RoundUpToNextQuarter(
    Later(At(t, iv.open + Prep(config)),
          RoundUpToNextQuarter(t + Prep(config) * Minute)))

SlotsOf(iv, t, config) ==
  {c \in {At(t, 15 * k) : k \in 0..95} :
     FirstSlot(iv, t, config) <= c /\ c <= At(t, iv.close)}

AvailableSlotsToday(t, config, overrides) ==
  LET s == OrderingSchedule(t, config, overrides)
      Lunch == {iv \in Intervals(s) : iv.first}
  IN  IF s = Closed THEN {}
      ELSE {[at |-> c, lunch |-> IsWeekday(c) /\ \E iv \in Lunch : c \in SlotsOf(iv, t, config)] :
              c \in UNION {SlotsOf(iv, t, config) : iv \in Intervals(s)}}

ReviewSlotsToday(t, config) ==
  LET start == RoundUpToNextQuarter(t + Prep(config) * Minute)
  IN  {[at |-> start + i * Quarter, lunch |-> TRUE] : i \in 0..7}

IsLunchOnlyAnyService(t, config, overrides) ==
  IsWeekday(t) /\ IsWithinSchedule(OrderingSchedule(t, config, overrides), t)

IsLunchOnlyAllowed(t, config, overrides) ==
  LET s == OrderingSchedule(t, config, overrides)
  IN  /\ IsWeekday(t)
      /\ s # Closed
      /\ s.open <= MinuteOf(t) /\ MinuteOf(t) <= s.close

NextWeeklyOpeningAt(t, config, overrides) ==
  LET Future == {c \in {At(t + d * DayLength, m) : d \in 0..6,
                           m \in {h.open : h \in {config.opening[w] : w \in 0..6} \ {Closed}}} :
                   c > t}
  IN  IF Future = {} THEN Unset
      ELSE CHOOSE c \in Future : \A o \in Future : c <= o

(* The search stops after seven days: today and the next six.  The second  *)
(* service of a day is looked at when the first has opened.                *)
NextOpeningAt(t, config, overrides) ==
  LET Openings(d) ==
        LET day == t + d * DayLength
            s == ResolveDaySchedule(day, config.opening, overrides)
        IN  IF s = Closed THEN {}
            ELSE {At(day, m) : m \in IF At(day, s.open) > t THEN {s.open}
                                     ELSE {s.dinnerOpen} \ {Unset}}
      Future == {c \in UNION {Openings(d) : d \in 0..6} : c > t}
  IN  IF Future = {} THEN Unset
      ELSE CHOOSE c \in Future : \A o \in Future : c <= o

IsSlotAfterAnOpening(c, s) ==
  \E iv \in Intervals(s) : iv.open + 30 <= MinuteOf(c)

IsSlotInAllowedInterval(c, s) ==
  \E iv \in Intervals(s) : iv.open + 30 <= MinuteOf(c) /\ MinuteOf(c) <= iv.close

(* createOrder's check of the ready time: the minimum preparation window   *)
(* is the configured time and at least a quarter of an hour, the margin    *)
(* after opening is half an hour whatever the configured time.             *)
PreferredReadyTimeAccepted(preferred, t, config, overrides) ==
  IF preferred = Unset
  THEN IsOrderingCurrentlyOpen(t, config, overrides)
  ELSE LET s == OrderingSchedule(t, config, overrides)
       IN  /\ DayOf(preferred) = DayOf(t)
           /\ preferred >= t + Later(config.prep, 15) * Minute
           /\ preferred % Quarter = 0
           /\ s # Closed
           /\ IsSlotInAllowedInterval(preferred, s)
=============================================================================
