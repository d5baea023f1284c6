----------------------------- MODULE Storefront -----------------------------
(***************************************************************************)
(* The restaurant's settings, the dashboard that edits them, the customers *)
(* who ask for slots and the gate at the top of createOrder.               *)
(*                                                                         *)
(* Every reader takes the settings in two statements (the config row, then *)
(* the overrides) and looks at the clock afterwards; every mutation writes *)
(* in one statement and broadcasts in another, so edits and requests       *)
(* interleave in between.                                                  *)
(***************************************************************************)
EXTENDS Schedule

CONSTANTS Admins,         \* concurrent mutations of the settings
          Shoppers,       \* customers
          Reviewers,      \* the ones with a store-review account
          Hours,          \* weekly hours an admin may store: anything
          Specials,       \* schedules an override may store: anything, Closed included
          PrepTimes,      \* preparation minutes an admin may store
          InitialSettings,\* the config row to begin with
          OverrideDays,   \* days an admin may override
          Horizon,        \* days of the calendar that exist in the model
          OtherTimes,     \* ready times a client may send that were not on screen
          Instants,       \* values the clock takes, in order of time
          MaxEdits        \* bound on the mutations

(* Preparation times are what updatePreparationMinutes lets through.       *)
(* Schedules are stored as they are sent: that their times are times, and  *)
(* the services of a day in order, nothing checks.  The operators of       *)
(* Schedule read "HH:MM" in any order; what a property needs of the        *)
(* schedules that were read is a condition of it, Regular.                 *)
TimeOfDay == 0..(24 * 60 - 1)
InOrder(s) ==
  /\ s.open < s.close
  /\ s.dinnerOpen = Unset <=> s.dinnerClose = Unset
  /\ HasDinner(s) => s.close < s.dinnerOpen /\ s.dinnerOpen < s.dinnerClose
DaySchedules ==
  {s \in [open : TimeOfDay, close : TimeOfDay,
          dinnerOpen : {Unset} \cup TimeOfDay, dinnerClose : {Unset} \cup TimeOfDay] : InOrder(s)}
WeeklyHours == [0..6 -> {Closed} \cup DaySchedules]
SettingsRows == [enabled : BOOLEAN, opening : WeeklyHours, ordering : {Unset} \cup WeeklyHours,
                 prep : 1..240]
Regular(config, ovs) ==
  config \in SettingsRows /\ ovs \in [Horizon -> {Unset, Closed} \cup DaySchedules]

ASSUME StorefrontAssumption ==
  /\ Reviewers \subseteq Shoppers
  /\ OverrideDays \subseteq Horizon
  /\ PrepTimes \subseteq 1..240
  /\ Instants \subseteq Nat /\ Instants # {} /\ OtherTimes \subseteq Nat
  /\ \A t \in Instants : DayOf(t)..(DayOf(t) + 6) \subseteq Horizon

\* No day and no special day are no schedules.
ASSUME SchedulesAssumption ==
  /\ Closed # Unset /\ Unset \notin Int /\ Unset \notin WeeklyHours
  /\ {Closed, Unset} \cap DaySchedules = {}

VARIABLES settings,   \* the row of restaurant_config
          overrides,  \* restaurant_schedule_overrides, by day
          clock,      \* wall clock, in half-minutes
          edit,       \* each admin's mutation: how far it is and what it read
          board,      \* what the dashboards were last sent
          disturbed,  \* what overlapping mutations or a lost read may have left stale
          edits,      \* mutations begun
          visit       \* each shopper's request and its outcome

storefrontVars == <<settings, overrides, clock, edit, board, disturbed, edits, visit>>

NoVisit == [pc |-> "idle", config |-> Unset, preferred |-> Unset,
            slots |-> {}, at |-> Unset, overrides |-> Unset, lunch |-> FALSE]
Resting == [pc |-> "idle", row |-> Unset]

StorefrontInit ==
  /\ settings \in InitialSettings
  /\ overrides = [d \in Horizon |-> Unset]
  /\ clock = CHOOSE t \in Instants : \A u \in Instants : t <= u
  /\ edit = [a \in Admins |-> Resting]
  /\ board = [settings |-> settings, overrides |-> overrides]
  /\ disturbed = {}
  /\ edits = 0
  /\ visit = [c \in Shoppers |-> NoVisit]

Tick ==
  /\ \E t \in Instants :
       /\ t > clock
       /\ \A u \in Instants : u > clock => t <= u
       /\ clock' = t
  /\ UNCHANGED <<settings, overrides, edit, board, disturbed, edits, visit>>

(***************************************************************************)
(* The dashboard's mutations.                                              *)
(***************************************************************************)
Begin(a, e, rebroadcast) ==
  /\ edit[a].pc = "idle"
  /\ edits < MaxEdits
  /\ edits' = edits + 1
  /\ edit' = [edit EXCEPT ![a] = e]
  /\ disturbed' = IF \E b \in Admins \ {a} : edit[b].pc # "idle"
                  THEN {"settings", "overrides"} ELSE disturbed \ rebroadcast

StoreSettingsStale(a, row) ==
  /\ Begin(a, [pc |-> "publish", row |-> settings], {"settings"})
  /\ settings' = row
  /\ UNCHANGED <<overrides, clock, board, visit>>

(* UPDATE ... RETURNING: the row that will be broadcast is the one this    *)
(* statement left.                                                         *)
StoreSettings(a, row) ==
  /\ Begin(a, [pc |-> "publish", row |-> row], {"settings"})
  /\ settings' = row
  /\ UNCHANGED <<overrides, clock, board, visit>>

UpdateOrderingEnabled(a) ==
  StoreSettings(a, [settings EXCEPT !.enabled = ~@])
UpdateOpeningHours(a) ==
  \E h \in Hours : StoreSettings(a, [settings EXCEPT !.opening = h])
UpdateOrderingHours(a) ==
  \E h \in Hours : StoreSettings(a, [settings EXCEPT !.ordering = h])
UpdatePreparationMinutes(a) ==
  \E p \in PrepTimes : StoreSettings(a, [settings EXCEPT !.prep = p])

StoreOverride(a, d, value) ==
  /\ Begin(a, [pc |-> "list", row |-> Unset], {"settings", "overrides"})
  /\ overrides' = [overrides EXCEPT ![d] = value]
  /\ UNCHANGED <<settings, clock, board, visit>>

UpsertScheduleOverride(a) ==
  \E d \in OverrideDays, s \in Specials : StoreOverride(a, d, s)
DeleteScheduleOverride(a) ==
  \E d \in OverrideDays : StoreOverride(a, d, Unset)

Step(a, from, e) ==
  /\ edit[a].pc = from
  /\ edit' = [edit EXCEPT ![a] = e]
  /\ UNCHANGED <<settings, overrides, clock, edits, visit>>

(* A read that fails ends this part of the broadcast without a word.       *)
ReadFails(a) ==
  /\ \/ /\ Step(a, "list", [pc |-> "reread", row |-> Unset])
        /\ disturbed' = disturbed \cup {"overrides"}
     \/ /\ Step(a, "reread", Resting)
        /\ disturbed' = disturbed \cup {"settings"}
  /\ UNCHANGED board

ListOverrides(a) ==
  /\ Step(a, "list", [pc |-> "publishList", row |-> overrides])
  /\ UNCHANGED <<board, disturbed>>

PublishOverrides(a) ==
  /\ Step(a, "publishList", [pc |-> "reread", row |-> Unset])
  /\ board' = [board EXCEPT !.overrides = edit[a].row]
  /\ UNCHANGED disturbed

RereadSettings(a) ==
  /\ Step(a, "reread", [pc |-> "publish", row |-> settings])
  /\ UNCHANGED <<board, disturbed>>

PublishSettings(a) ==
  /\ Step(a, "publish", Resting)
  /\ board' = [board EXCEPT !.settings = edit[a].row]
  /\ UNCHANGED disturbed

(***************************************************************************)
(* The customers' requests.                                                *)
(***************************************************************************)
Visit(c, v) ==
  /\ visit' = [visit EXCEPT ![c] = v]
  /\ UNCHANGED <<settings, overrides, clock, edit, board, disturbed, edits>>

AskSlots(c) ==
  /\ visit[c].pc = "idle"
  /\ Visit(c, [NoVisit EXCEPT !.pc = "slots", !.config = settings])

(* A store-review account is offered slots where nobody else is.           *)
AvailableSlots(c) ==
  LET slots == AvailableSlotsToday(clock, visit[c].config, overrides)
  IN  /\ visit[c].pc = "slots"
      /\ Visit(c, [visit[c] EXCEPT !.pc = "offered", !.at = clock, !.overrides = overrides,
                     !.slots = IF slots = {} /\ c \in Reviewers
                               THEN ReviewSlotsToday(clock, visit[c].config)
                               ELSE slots])

(* A checkout without a ready time, with one of the slots on screen, which *)
(* may have been there for a while, or with a time of the client's own.    *)
CheckOut(c) ==
  /\ visit[c].pc = "offered"
  /\ \E p \in {s.at : s \in visit[c].slots} \cup OtherTimes \cup {Unset} :
       Visit(c, IF c \in Reviewers
                THEN [visit[c] EXCEPT !.pc = "accepted", !.preferred = p, !.at = clock,
                                      !.lunch = TRUE]
                ELSE [NoVisit EXCEPT !.pc = "gate", !.config = settings, !.preferred = p])

Gate(c) ==
  LET p == visit[c].preferred
      config == visit[c].config
      slotTime == IF p = Unset THEN clock ELSE p
  IN  /\ visit[c].pc = "gate"
      /\ Visit(c, IF config.enabled /\ PreferredReadyTimeAccepted(p, clock, config, overrides)
                  THEN [visit[c] EXCEPT !.pc = "accepted", !.at = clock, !.overrides = overrides,
                          !.lunch = IsLunchOnlyAllowed(slotTime, config, overrides)]
                  ELSE NoVisit)

StorefrontNext ==
  \/ Tick
  \/ \E a \in Admins :
       \/ UpdateOrderingEnabled(a) \/ UpdateOpeningHours(a) \/ UpdateOrderingHours(a)
       \/ UpdatePreparationMinutes(a)
       \/ UpsertScheduleOverride(a) \/ DeleteScheduleOverride(a)
       \/ ListOverrides(a) \/ PublishOverrides(a) \/ RereadSettings(a)
       \/ PublishSettings(a) \/ ReadFails(a)
  \/ \E c \in Shoppers : AskSlots(c) \/ AvailableSlots(c) \/ CheckOut(c) \/ Gate(c)

StorefrontSpec == StorefrontInit /\ [][StorefrontNext]_storefrontVars

(***************************************************************************)
(* Properties.                                                             *)
(***************************************************************************)
\* Where the schedules a request read are services in order.
ReadRegular(c) == Regular(visit[c].config, visit[c].overrides)
Offered(c) == visit[c].pc = "offered" /\ c \notin Reviewers /\ ReadRegular(c)
Accepted(c) == visit[c].pc = "accepted" /\ c \notin Reviewers /\ ReadRegular(c)

(* AvailableSlotsToday promises slots that are "still bookable"; it rounds *)
(* the preparation window down to the minute and takes the margin after    *)
(* opening from the preparation time, createOrder does neither.            *)
OfferedIsBookable ==
  \A c \in Shoppers : Offered(c) =>
    \A s \in visit[c].slots :
      PreferredReadyTimeAccepted(s.at, visit[c].at, visit[c].config, visit[c].overrides)

(* The margins agree where preparation takes half an hour, or more than a  *)
(* quarter and services open on a quarter.                                 *)
MarginsAgree(config, s) ==
  \/ config.prep >= 30
  \/ config.prep > 15 /\ \A iv \in Intervals(s) : iv.open % 15 = 0

(* Where the two agree on both (and the clock is on the minute), every     *)
(* offered slot is bookable at the instant it is offered, whatever         *)
(* overrides, dinner breaks and fallback from ordering to opening hours    *)
(* are in force.                                                           *)
OfferedIsBookableOnTheMinute ==
  \A c \in Shoppers :
    Offered(c) /\ visit[c].at % Minute = 0 =>
      \A s \in visit[c].slots :
        MarginsAgree(visit[c].config, OrderingSchedule(visit[c].at, visit[c].config, visit[c].overrides)) =>
          PreferredReadyTimeAccepted(s.at, visit[c].at, visit[c].config, visit[c].overrides)

(* The flag shown with a slot is the answer createOrder gives for it.      *)
LunchFlagsAgree ==
  \A c \in Shoppers : Offered(c) =>
    \A s \in visit[c].slots :
      s.lunch <=> IsLunchOnlyAllowed(s.at, visit[c].config, visit[c].overrides)

(* An accepted order is for a moment at which the restaurant, asked then,  *)
(* would say that it takes orders, or for the very end of a service; and   *)
(* a fixed time leaves the kitchen its preparation time, however long the  *)
(* slot was on the customer's screen.                                      *)
AcceptedWhileOpen ==
  \A c \in Shoppers : Accepted(c) =>
    LET v == visit[c]
        when == IF v.preferred = Unset THEN v.at ELSE v.preferred
        s == OrderingSchedule(when, v.config, v.overrides)
    IN  /\ \/ IsOrderingCurrentlyOpen(when, v.config, v.overrides)
           \/ s # Closed /\ MinuteOf(when) \in {iv.close : iv \in Intervals(s)}
        /\ v.preferred # Unset => v.preferred - v.at >= Prep(v.config) * Minute

(* A lunch-only product gets through the gate on a weekday only, and on a  *)
(* day with two services never from the second one's opening on.  The only *)
(* service of a day counts as lunch whatever its hour, also in the evening:*)
(* createOrder promises "a weekday lunch slot" there and does not keep it. *)
LunchOnlyBeforeDinner ==
  \A c \in Shoppers : Accepted(c) /\ visit[c].lunch =>
    LET v == visit[c]
        when == IF v.preferred = Unset THEN v.at ELSE v.preferred
        s == OrderingSchedule(when, v.config, v.overrides)
    IN  IsWeekday(when) /\ (HasDinner(s) => MinuteOf(when) < s.dinnerOpen)

(* The next opening announced to a customer is one: the restaurant is open *)
(* at that instant, and if it is closed now it stays closed until then.    *)
NextOpeningOpens ==
  LET next == NextOpeningAt(clock, settings, overrides)
  IN  Regular(settings, overrides) /\ next # Unset =>
        /\ IsCurrentlyOpen(next, settings, overrides)
        /\ ~IsCurrentlyOpen(clock, settings, overrides) =>
             \A d \in 0..(DayOf(next) - DayOf(clock)), k \in 0..95 :
               LET t == At(clock + d * DayLength, 15 * k)
               IN  clock < t /\ t < next => ~IsCurrentlyOpen(t, settings, overrides)

(* Once the mutations are over, the dashboards show what is stored, unless *)
(* the last broadcast of it overlapped another mutation or its read failed.*)
BoardSettles ==
  (\A a \in Admins : edit[a].pc = "idle") =>
    /\ "settings" \notin disturbed => board.settings = settings
    /\ "overrides" \notin disturbed => board.overrides = overrides

\* What the shop shows and what it accepts agree where the schedules are services
\* in order: slots offered on the minute are bookable, accepted times are inside a
\* service, lunch products stop at dinner, and the flags and the next opening tell
\* the same story.
SlotsHonoured ==
  /\ OfferedIsBookableOnTheMinute /\ AcceptedWhileOpen /\ LunchOnlyBeforeDinner
  /\ LunchFlagsAgree /\ NextOpeningOpens
=============================================================================
