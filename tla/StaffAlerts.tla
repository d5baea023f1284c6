---------------------------- MODULE StaffAlerts ----------------------------
(***************************************************************************)
(* The handhelds in the kitchen: their login, their push tokens, their     *)
(* revocation, and the push that tells them and the admins' phones of a    *)
(* new order.  A call proves itself with a keyed hash over its fields and  *)
(* the time it was made; the service checks the device it read and writes  *)
(* in a later statement.                                                   *)
(***************************************************************************)
EXTENDS Integers, FiniteSets

CONSTANTS Handhelds,       \* rows of pos_devices
          AdminPhones,     \* tokens registered with the role "admin"
          AndroidAdmins,   \* those of them that are served by Firebase
          FcmTokens,
          MaxStaffFaults   \* bound: failing reads and pushes

ASSUME StaffAssumption == AndroidAdmins \subseteq AdminPhones /\ FcmTokens # {} /\ "none" \notin FcmTokens

VARIABLES handhelds,     \* [revoked, fcm] of each handheld
          calls,         \* a call of each handheld: [at, kind, good, fcm]
          accessToken,   \* handhelds that hold a valid access token
          adminTokens,   \* admins' registered tokens
          reachable,     \* tokens the provider still knows
          pushClients,
          placed,        \* has the order been placed, or paid?
          orderPush,     \* SendNewOrderPush's goroutine: [at, todo]
          told,          \* who has been told of the order
          expecting,     \* handhelds that nothing but the push keeps from being told
          staffFaults

staffVars == <<handhelds, calls, accessToken, adminTokens, reachable, pushClients, placed, orderPush,
               told, expecting, staffFaults>>
pushState == <<adminTokens, reachable, pushClients, placed, orderPush, told, staffFaults>>

NoToken == "none"
NoCall == [at |-> "idle", kind |-> "login", good |-> FALSE, fcm |-> NoToken]
NoPush == [at |-> "idle", todo |-> {}]

StaffInit ==
  /\ handhelds \in [Handhelds -> [revoked : {FALSE}, fcm : {NoToken, CHOOSE t \in FcmTokens : TRUE}]]
  /\ calls = [h \in Handhelds |-> NoCall]
  /\ accessToken = {}
  /\ adminTokens = AdminPhones
  /\ reachable \in {Handhelds, AdminPhones \cup Handhelds}
  /\ pushClients \in {{"apns"}, {"fcm"}, {"apns", "fcm"}}
  /\ placed = FALSE /\ orderPush = NoPush /\ told = {} /\ expecting = {}
  /\ staffFaults = 0

ActiveTokens == {h \in Handhelds : ~handhelds[h].revoked /\ handhelds[h].fcm # NoToken}

(***************************************************************************)
(* The device endpoints.                                                   *)
(***************************************************************************)
(* A call is good if its hash is right and its clock is at most a minute   *)
(* off.                                                                    *)
DeviceCalls(h) ==
  /\ calls[h] = NoCall
  /\ calls' \in {[calls EXCEPT ![h] = [at |-> "verify", kind |-> kind, good |-> good, fcm |-> t]] :
                   kind \in {"login", "fcm"}, good \in BOOLEAN, t \in FcmTokens}
  /\ UNCHANGED <<handhelds, accessToken, expecting, pushState>>

VerifiedByHash(h) == calls[h].good
Verified(h) == calls[h].good /\ ~handhelds[h].revoked

VerifyDeviceRequest(h) ==
  /\ calls[h].at = "verify"
  /\ calls' = [calls EXCEPT ![h] = IF Verified(h) THEN [@ EXCEPT !.at = "write"] ELSE NoCall]
  /\ UNCHANGED <<handhelds, accessToken, expecting, pushState>>

\* (The time a handheld was last seen is stored too, and read by nobody here.)
DeviceLogin(h) ==
  /\ calls[h].at = "write" /\ calls[h].kind = "login"
  /\ accessToken' = accessToken \cup {h}
  /\ calls' = [calls EXCEPT ![h] = NoCall]
  /\ UNCHANGED <<handhelds, expecting, pushState>>

(* The statement skips a revoked device.                                   *)
StoredTokenAlways(h) == calls[h].fcm
StoredToken(h) == IF handhelds[h].revoked THEN handhelds[h].fcm ELSE calls[h].fcm

UpdateFCMToken(h) ==
  /\ calls[h].at = "write" /\ calls[h].kind = "fcm"
  /\ handhelds' = [handhelds EXCEPT ![h].fcm = StoredToken(h)]
  /\ calls' = [calls EXCEPT ![h] = NoCall]
  /\ UNCHANGED <<accessToken, expecting, pushState>>

(* Eight hours after it was issued; an access token is not looked up.      *)
AccessTokenExpires(h) ==
  /\ h \in accessToken
  /\ accessToken' = accessToken \ {h}
  /\ UNCHANGED <<handhelds, calls, expecting, pushState>>

(* By hand, in the database: nothing in the program writes revoked_at.     *)
Revoke(h) ==
  /\ ~handhelds[h].revoked
  /\ handhelds' = [handhelds EXCEPT ![h].revoked = TRUE]
  /\ expecting' = expecting \ {h}
  /\ UNCHANGED <<calls, accessToken, pushState>>

(***************************************************************************)
(* SendNewOrderPush.                                                       *)
(***************************************************************************)
StaffFault == staffFaults < MaxStaffFaults /\ staffFaults' = staffFaults + 1
deviceState == <<handhelds, calls, accessToken, reachable, pushClients>>

SendNewOrderPush ==
  /\ ~placed /\ placed' = TRUE
  /\ orderPush' = [NoPush EXCEPT !.at = "readAdmins"]
  /\ expecting' = IF "fcm" \in pushClients THEN ActiveTokens \cap reachable ELSE {}
  /\ UNCHANGED <<deviceState, adminTokens, told, staffFaults>>

Pushable(d) == IF d \in AndroidAdmins THEN "fcm" \in pushClients ELSE "apns" \in pushClients

AfterSomeAdmins(todo) == IF todo = {} THEN NoPush ELSE [at |-> "admins", todo |-> todo]

(* Neither an empty list of admins nor one that cannot be read keeps the   *)
(* handhelds from being told.                                              *)
AfterAdmins(todo) == IF todo = {} THEN [at |-> "readHandhelds", todo |-> {}]
                     ELSE [at |-> "admins", todo |-> todo]

ReadAdmins ==
  /\ orderPush.at = "readAdmins"
  /\ \/ orderPush' = AfterAdmins({d \in adminTokens : Pushable(d)}) /\ UNCHANGED staffFaults
     \/ orderPush' = AfterAdmins({}) /\ StaffFault
  /\ UNCHANGED <<deviceState, adminTokens, placed, told, expecting>>

(* A token the provider calls invalid is unregistered.                     *)
AlertAdmin(d) ==
  /\ orderPush.at = "admins" /\ d \in orderPush.todo
  /\ orderPush' = AfterAdmins(orderPush.todo \ {d})
  /\ \/ d \in reachable /\ told' = told \cup {d} /\ UNCHANGED <<adminTokens, staffFaults>>
     \/ d \notin reachable /\ adminTokens' = adminTokens \ {d} /\ UNCHANGED <<told, staffFaults>>
     \/ StaffFault /\ UNCHANGED <<adminTokens, told>>
  /\ UNCHANGED <<deviceState, placed, expecting>>

AfterHandhelds(todo) == IF todo = {} THEN NoPush ELSE [at |-> "handhelds", todo |-> todo]

ReadHandhelds ==
  /\ orderPush.at = "readHandhelds"
  /\ \/ /\ orderPush' = AfterHandhelds(IF "fcm" \in pushClients THEN ActiveTokens ELSE {})
        /\ UNCHANGED <<staffFaults, expecting>>
     \/ orderPush' = NoPush /\ StaffFault /\ expecting' = {}
  /\ UNCHANGED <<deviceState, adminTokens, placed, told>>

(* A handheld that cannot be reached keeps its token.                      *)
AlertHandheld(h) ==
  /\ orderPush.at = "handhelds" /\ h \in orderPush.todo
  /\ orderPush' = AfterHandhelds(orderPush.todo \ {h})
  /\ \/ told' = told \cup ({h} \cap reachable) /\ UNCHANGED <<staffFaults, expecting>>
     \/ StaffFault /\ expecting' = expecting \ {h} /\ UNCHANGED told
  /\ UNCHANGED <<deviceState, adminTokens, placed>>

StaffNext ==
  \/ SendNewOrderPush \/ ReadAdmins \/ ReadHandhelds
  \/ \E d \in AdminPhones : AlertAdmin(d)
  \/ \E h \in Handhelds : \/ DeviceCalls(h) \/ VerifyDeviceRequest(h) \/ DeviceLogin(h)
                          \/ UpdateFCMToken(h) \/ AccessTokenExpires(h) \/ Revoke(h)
                          \/ AlertHandheld(h)

(* Requests end, and tokens run out.                                       *)
StaffFairness ==
  \A h \in Handhelds : /\ WF_staffVars(VerifyDeviceRequest(h))
                       /\ WF_staffVars(DeviceLogin(h) \/ UpdateFCMToken(h))
                       /\ WF_staffVars(AccessTokenExpires(h))

StaffSpec == StaffInit /\ [][StaffNext]_staffVars /\ StaffFairness

(***************************************************************************)
(* Properties.                                                             *)
(***************************************************************************)
StaffTypeOK ==
  /\ \A h \in Handhelds : handhelds[h].fcm \in {NoToken} \cup FcmTokens
                          /\ calls[h].at \in {"idle", "verify", "write"}
  /\ accessToken \subseteq Handhelds /\ adminTokens \subseteq AdminPhones
  /\ orderPush.todo \subseteq IF orderPush.at = "admins" THEN adminTokens ELSE Handhelds
  /\ told \subseteq AdminPhones \cup Handhelds

(* Whatever becomes of the admins' phones (none registered, the list not   *)
(* readable, a dead token, a failing push), a handheld that was active and *)
(* reachable when the order came in and still is, is told of the order:    *)
(* only its own push, or reading the handhelds, can fail it.               *)
KitchenTold == placed /\ orderPush = NoPush => expecting \subseteq told

(* The token of a revoked device stays as it was, although the call that   *)
(* would replace it was verified before the revocation.                    *)
RevokedStaysAsItWas ==
  [][\A h \in Handhelds : handhelds[h].revoked => handhelds'[h] = handhelds[h]]_staffVars

(* Access tokens are never checked against the revocation; a revoked       *)
(* handheld is locked out for good all the same, once the last token it    *)
(* was issued has run out.                                                 *)
RevokedIsLockedOut ==
  \A h \in Handhelds : <>handhelds[h].revoked => <>[](h \notin accessToken)

\* A revocation is final: no call in flight writes to the device's row, and its
\* last access token runs out.
RevokedStaysOut == RevokedStaysAsItWas /\ RevokedIsLockedOut
=============================================================================
