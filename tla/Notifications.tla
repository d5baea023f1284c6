--------------------------- MODULE Notifications ---------------------------
(***************************************************************************)
(* What the devices of a customer are told about one order.  UpdateOrder   *)
(* and the language switch hand over to goroutines that read the tokens    *)
(* later, send one push after the other and clean up, so successive        *)
(* updates overlap.                                                        *)
(*                                                                         *)
(* A goroutine is a record [kind, nr, status, lang, at, todo]: what it     *)
(* captured, where it is, and the tokens it has still to push to.          *)
(***************************************************************************)
EXTENDS OrderStatus, Integers, FiniteSets

CONSTANTS Phones,          \* the customer's devices
          IPhones,         \* those of them that run iOS
          Households,      \* sets of phones a customer may have
          Updaters,        \* updateOrder calls that can overlap
          Statuses,        \* statuses staff set
          Languages,
          MaxEvents,       \* bound: updates, language switches, registrations and the like
          MaxPushFaults    \* bound: failing reads, pushes and refunds

ASSUME NotesAssumption == IPhones \subseteq Phones

VARIABLES clients,     \* the push providers that are configured
          build,       \* the APNs environment of each iPhone's token
          orderState,  \* [status, lang, late (well after the ready time)] of the order
          update,      \* each updateOrder call: where it is and what it read
          goroutines,
          registered,  \* device_push_tokens
          wanted,      \* devices whose owner wants pushes
          installed,   \* devices whose token the provider still knows
          activity,    \* live_activity_tokens: "none", "fresh" or "expired"
          surface,     \* what the live surface of each phone shows
          overlapped,  \* has anything begun before the last thing was done?
          events,
          pushFaults

noteVars == <<clients, build, orderState, update, goroutines, registered, wanted, installed,
              activity, surface, overlapped, events, pushFaults>>
tokenState == <<registered, wanted, installed>>

NoSurface == [status |-> NoOrder, lang |-> "none"]
SurfaceOver == [status |-> NoOrder, lang |-> "over"]
NoUpdate == [at |-> "idle", old |-> NoOrder]

NoteInit ==
  /\ clients \in {{"apns", "fcm"}, {"fcm"}}
  /\ build \in [IPhones -> {"prod", "dev"}]
  /\ orderState \in [status : {"PENDING", "OUT_FOR_DELIVERY"}, lang : {CHOOSE l \in Languages : TRUE},
                     late : BOOLEAN]
  /\ update = [u \in Updaters |-> NoUpdate]
  /\ goroutines = {}
  /\ installed \in Households /\ wanted = installed /\ registered = installed
  /\ activity = [d \in IPhones |-> IF d \in installed THEN "fresh" ELSE "none"]
  /\ surface = [d \in Phones |-> IF d \in installed
                                 THEN [status |-> orderState.status, lang |-> orderState.lang]
                                 ELSE NoSurface]
  /\ overlapped = FALSE
  /\ events = 0 /\ pushFaults = 0

PushFault == pushFaults < MaxPushFaults /\ pushFaults' = pushFaults + 1

Quiet == goroutines = {} /\ \A u \in Updaters : update[u] = NoUpdate

(* Everything that begins says whether something else is still going on.   *)
EventBegins ==
  /\ events < MaxEvents /\ events' = events + 1
  /\ overlapped' = (overlapped \/ ~Quiet)

NewJob(kind, nr) ==
  [kind |-> kind, nr |-> nr, status |-> orderState.status, lang |-> orderState.lang,
   at |-> "read", todo |-> {}]

(***************************************************************************)
(* The push clients.                                                       *)
(***************************************************************************)
(* One endpoint's reply to a token: a token of the other environment is    *)
(* answered BadDeviceToken, as one of a removed app may be.                *)
EndpointReply(endpoint, d) ==
  IF d \in IPhones /\ build[d] # endpoint THEN "BadDeviceToken"
  ELSE IF d \in installed THEN "sent" ELSE "Unregistered"

PushToOnce(d) == EndpointReply("prod", d)

(* A wrong-environment reply is retried against the other endpoint, whose  *)
(* answer counts.  Firebase has one endpoint.                              *)
PushTo(d) == IF EndpointReply("prod", d) = "BadDeviceToken" THEN EndpointReply("dev", d)
             ELSE EndpointReply("prod", d)

TokenInvalid(d) == PushTo(d) # "sent"

(***************************************************************************)
(* updateOrder.                                                            *)
(***************************************************************************)
ReadOldOrder(u) ==
  /\ update[u] = NoUpdate
  /\ update' = [update EXCEPT ![u] = [at |-> "write", old |-> orderState.status]]
  /\ EventBegins
  /\ UNCHANGED <<clients, build, orderState, goroutines, tokenState, activity, surface,
                 pushFaults>>

WriteOrder(u) ==
  /\ update[u].at = "write"
  /\ \E s \in Statuses : orderState' = [orderState EXCEPT !.status = s]
  /\ update' = [update EXCEPT ![u].at = "notify"]
  /\ UNCHANGED <<clients, build, goroutines, tokenState, activity, surface, overlapped,
                 events, pushFaults>>

(* An alert is noise when the driver hands the food over, and long after   *)
(* the ready time; a pending order has no text.                            *)
AlertDue(old, new) ==
  /\ old # new /\ new # "PENDING"
  /\ ~(old = "OUT_FOR_DELIVERY" /\ new = "DELIVERED")
  /\ ~orderState.late \/ new \in {"CANCELLED", "FAILED"}

SurfaceDueWithAlert(old, new) == AlertDue(old, new)
SurfaceDue(old, new) == old # new

Notified(old, new, nr) ==
  {g \in {NewJob("alert", nr), NewJob("activity", nr), NewJob("data", nr)} :
     \/ g.kind = "alert" /\ "apns" \in clients /\ AlertDue(old, new)
     \/ g.kind = "activity" /\ "apns" \in clients /\ SurfaceDue(old, new)
     \/ g.kind = "data" /\ "fcm" \in clients /\ SurfaceDue(old, new)}

(* The order is read back, after which a cancellation whose refund fails   *)
(* is answered with an error.                                              *)
Notify(u) ==
  /\ update[u].at = "notify"
  /\ \/ /\ goroutines' = goroutines \cup Notified(update[u].old, orderState.status, events)
        /\ UNCHANGED pushFaults
     \/ orderState.status = "CANCELLED" /\ PushFault /\ UNCHANGED goroutines
  /\ update' = [update EXCEPT ![u] = NoUpdate]
  /\ UNCHANGED <<clients, build, orderState, tokenState, activity, surface, overlapped, events>>

(***************************************************************************)
(* Other ways in.                                                          *)
(***************************************************************************)
UpdateMyOrdersLanguage ==
  /\ orderState.status \notin Terminal
  /\ \E l \in Languages \ {orderState.lang} :
       /\ orderState' = [orderState EXCEPT !.lang = l]
       /\ goroutines' = goroutines \cup
            {[NewJob(k, events) EXCEPT !.lang = l, !.at = IF k = "langData" THEN "wait" ELSE @] :
               k \in IF orderState.status = "PENDING" THEN {}
                     ELSE (IF "apns" \in clients THEN {"langActivity"} ELSE {}) \cup {"langData"}}
  /\ EventBegins
  /\ UNCHANGED <<clients, build, update, tokenState, activity, surface, pushFaults>>

ShowsNow(d) == [surface EXCEPT ![d] = [status |-> orderState.status, lang |-> orderState.lang]]

RegisterLiveActivityToken(d) ==
  /\ d \in installed
  /\ EventBegins
  /\ activity' = [activity EXCEPT ![d] = "fresh"]
  /\ surface' = ShowsNow(d)
  /\ UNCHANGED <<clients, build, orderState, update, goroutines, tokenState, pushFaults>>

(* On Android the app shows the order itself when it is opened.            *)
RegisterDeviceToken(d) ==
  /\ d \in installed
  /\ EventBegins
  /\ wanted' = wanted \cup {d} /\ registered' = registered \cup {d}
  /\ surface' = IF d \in Phones \ IPhones THEN ShowsNow(d) ELSE surface
  /\ UNCHANGED <<clients, build, orderState, update, goroutines, installed, activity,
                 pushFaults>>

(* The row stays.                                                          *)
UnregisterNothing(d) ==
  /\ d \in wanted
  /\ wanted' = wanted \ {d}
  /\ EventBegins
  /\ UNCHANGED <<clients, build, orderState, update, goroutines, registered, installed, activity,
                 surface, pushFaults>>

UnregisterDeviceToken(d) ==
  /\ d \in wanted
  /\ wanted' = wanted \ {d} /\ registered' = registered \ {d}
  /\ EventBegins
  /\ UNCHANGED <<clients, build, orderState, update, goroutines, installed, activity,
                 surface, pushFaults>>

Uninstall(d) ==
  /\ d \in installed
  /\ installed' = installed \ {d}
  /\ UNCHANGED <<clients, build, orderState, update, goroutines, registered, wanted, activity,
                 surface, overlapped, events, pushFaults>>

(* Twelve hours after its registration; iOS has removed the activity, too. *)
ActivityExpires(d) ==
  /\ activity[d] = "fresh"
  /\ activity' = [activity EXCEPT ![d] = "expired"]
  /\ surface' = [surface EXCEPT ![d] = NoSurface]
  /\ UNCHANGED <<clients, build, orderState, update, goroutines, tokenState,
                 overlapped, events, pushFaults>>

PurgeFresh ==
  /\ \E d \in IPhones : activity[d] = "fresh"
  /\ activity' = [d \in IPhones |-> IF activity[d] = "fresh" THEN "none" ELSE activity[d]]
  /\ UNCHANGED <<clients, build, orderState, update, goroutines, tokenState, surface,
                 overlapped, events, pushFaults>>

PurgeExpired ==
  /\ \E d \in IPhones : activity[d] = "expired"
  /\ activity' = [d \in IPhones |-> IF activity[d] = "expired" THEN "none" ELSE activity[d]]
  /\ UNCHANGED <<clients, build, orderState, update, goroutines, tokenState, surface,
                 overlapped, events, pushFaults>>

(***************************************************************************)
(* The goroutines.                                                         *)
(***************************************************************************)
Tokens(g) ==
  CASE g.kind \in {"activity", "langActivity"} -> {d \in IPhones : activity[d] = "fresh"}
    [] g.kind = "alert" -> {d \in registered \cap Phones : d \in IPhones \/ "fcm" \in clients}
    [] g.kind \in {"data", "langData"} ->
         IF "fcm" \in clients THEN (registered \cap Phones) \ IPhones ELSE {}

(* Clearing the activity tokens follows the last push at the end of the    *)
(* order.                                                                  *)
NextJob(g) == IF g.kind = "activity" /\ g.status \in Terminal /\ g.at = "send"
              THEN {[g EXCEPT !.at = "clear"]} ELSE {}

(* The Android part of a language switch follows the iOS part.             *)
Ready(g) ==
  \/ g.at = "read"
  \/ g.at = "wait" /\ ~\E h \in goroutines : h.kind = "langActivity" /\ h.nr = g.nr

(* Without tokens, or if they cannot be read, there is nothing to do.      *)
ReadTokens(g) ==
  /\ Ready(g)
  /\ \/ /\ goroutines' = (goroutines \ {g}) \cup
             (IF Tokens(g) = {} THEN NextJob(g) ELSE {[g EXCEPT !.at = "send", !.todo = Tokens(g)]})
        /\ UNCHANGED pushFaults
     \/ goroutines' = (goroutines \ {g}) \cup NextJob(g) /\ PushFault
  /\ UNCHANGED <<clients, build, orderState, update, tokenState, activity, surface,
                 overlapped, events>>

Served(g, d) ==
  LET rest == [g EXCEPT !.todo = @ \ {d}]
  IN  (goroutines \ {g}) \cup (IF rest.todo = {} THEN NextJob(g) ELSE {rest})

ShownBy(g) == IF g.status \in Terminal /\ g.kind \in {"activity", "data", "langData"} THEN SurfaceOver
              ELSE [status |-> g.status, lang |-> g.lang]

(* A surface that was ended, or was never begun, ignores what comes later. *)
Shows(g, d) ==
  IF g.kind \in {"activity", "langActivity", "data", "langData"} /\ d \in installed
     /\ surface[d] \notin {NoSurface, SurfaceOver}
  THEN [surface EXCEPT ![d] = ShownBy(g)] ELSE surface

(* Only the alerts and UpdateOrder's data messages unregister a token the  *)
(* provider calls invalid.                                                 *)
SendPush(g, d) ==
  /\ g.at = "send" /\ d \in g.todo
  /\ goroutines' = Served(g, d)
  /\ \/ /\ ~TokenInvalid(d)
        /\ surface' = Shows(g, d)
        /\ UNCHANGED <<registered, pushFaults>>
     \/ /\ TokenInvalid(d)
        /\ registered' = IF g.kind \in {"alert", "data"} THEN registered \ {d} ELSE registered
        /\ UNCHANGED <<surface, pushFaults>>
     \/ /\ PushFault
        /\ UNCHANGED <<surface, registered>>
  /\ UNCHANGED <<clients, build, orderState, update, wanted, installed, activity,
                 overlapped, events>>

ClearActivityTokens(g) ==
  /\ g.at = "clear"
  /\ goroutines' = goroutines \ {g}
  /\ \/ activity' = [d \in IPhones |-> "none"] /\ UNCHANGED pushFaults
     \/ PushFault /\ UNCHANGED activity
  /\ UNCHANGED <<clients, build, orderState, update, tokenState, surface, overlapped, events>>

GoroutineStep == \E g \in goroutines :
  ReadTokens(g) \/ (\E d \in g.todo : SendPush(g, d)) \/ ClearActivityTokens(g)

NoteNext ==
  \/ \E u \in Updaters : ReadOldOrder(u) \/ WriteOrder(u) \/ Notify(u)
  \/ UpdateMyOrdersLanguage \/ PurgeExpired
  \/ \E d \in IPhones : RegisterLiveActivityToken(d) \/ ActivityExpires(d)
  \/ \E d \in Phones :
       RegisterDeviceToken(d) \/ UnregisterDeviceToken(d) \/ Uninstall(d)
  \/ GoroutineStep

NoteSpec == NoteInit /\ [][NoteNext]_noteVars

(***************************************************************************)
(* Properties.                                                             *)
(***************************************************************************)
NoteTypeOK ==
  /\ orderState.status \in Status /\ orderState.lang \in Languages
  /\ \A g \in goroutines : /\ g.at \in {"read", "wait", "send", "clear"}
                           /\ g.todo \subseteq Phones
  /\ registered \subseteq wanted
  /\ \A d \in IPhones : activity[d] \in {"none", "fresh", "expired"}

(* A device that can still be reached stays registered until its owner     *)
(* says otherwise, whichever of Apple's environments its token is of: the  *)
(* push client's second endpoint is there for that.                        *)
LiveTokenKept == wanted \cap installed \subseteq registered

(* When everything has run one after the other and nothing failed, a live  *)
(* surface shows the order's status in its language, or was ended with the *)
(* order; a late or suppressed alert changes nothing about that.  (A       *)
(* pending order has no text to translate.)                                *)
Current(shown) ==
  /\ shown.status = orderState.status
  /\ shown.lang = orderState.lang \/ shown.status = "PENDING"

SurfaceSettles ==
  Quiet /\ ~overlapped /\ pushFaults = 0 =>
    \A d \in Phones \cap installed : surface[d] \notin {NoSurface, SurfaceOver} =>
      IF d \in IPhones
      THEN "apns" \in clients => activity[d] = "fresh" /\ Current(surface[d])
      ELSE d \in registered => Current(surface[d])

\* The devices of a customer: tokens in use stay registered, and surfaces end up
\* showing the order.
DevicesTold == LiveTokenKept /\ SurfaceSettles
=============================================================================
