----------------------------- MODULE MCAccounts -----------------------------
(***************************************************************************)
(* Signing in, the accounts behind it, the rate limiters in front of it,   *)
(* and what a customer's devices and mailbox are sent, each explored on    *)
(* its own: the initial state picks a part and the others stay as they     *)
(* began.                                                                  *)
(***************************************************************************)
EXTENDS UserIdentity, Login, IdempotencyGate, Notifications, RateLimiter, Suppression,
        TLC

CONSTANTS Parts, k1, k2, c1, c2, q1, q2, q3, q4
VARIABLE part

MCMailboxes == {[z \in Identities |-> "e"]}
\* A retry (q1, q2), another code on the same key, and a request of a second
\* key whose arrival may collect the first key's entry.
MCKeyOf == q1 :> k1 @@ q2 :> k1 @@ q3 :> k1 @@ q4 :> k2
MCCodeOf == q1 :> c1 @@ q2 :> c1 @@ q3 :> c2 @@ q4 :> c1

allVars == <<part, userVars, loginVars, gateVars, noteVars, limiterVars, mailVars>>

MCInit ==
  /\ part \in Parts
  /\ UserInit /\ LoginInit /\ GateInit /\ NoteInit /\ LimiterInit /\ SuppressionInit
  /\ part # "users" => \A i \in RowIds : users[i] = Vacant
  /\ part # "login" => \A m \in LoginNames : account[m] = NoAccount
  /\ part # "gate" => liveCode = [k \in Key |-> NoCode] /\ ~expiry
  /\ part # "notifications" =>
       /\ clients = {"fcm"} /\ installed = {"a"} /\ build = [d \in IPhones |-> "prod"]
       /\ orderState.status = "PENDING" /\ ~orderState.late
MCNext ==
  /\ UNCHANGED part
  /\ \/ /\ part = "users" /\ UserNext
        /\ UNCHANGED <<loginVars, gateVars, noteVars, limiterVars, mailVars>>
     \/ /\ part = "login" /\ LoginNext
        /\ UNCHANGED <<userVars, gateVars, noteVars, limiterVars, mailVars>>
     \/ /\ part = "gate" /\ GateNext
        /\ UNCHANGED <<userVars, loginVars, noteVars, limiterVars, mailVars>>
     \/ /\ part = "notifications" /\ NoteNext
        /\ UNCHANGED <<userVars, loginVars, gateVars, limiterVars, mailVars>>
     \/ /\ part = "limiter" /\ LimiterNext
        /\ UNCHANGED <<userVars, loginVars, gateVars, noteVars, mailVars>>
     \/ /\ part = "mail" /\ SuppressionNext
        /\ UNCHANGED <<userVars, loginVars, gateVars, noteVars, limiterVars>>
MCSpec == MCInit /\ [][MCNext]_allVars

\* The state of every part keeps its type.
AccountsTypeOK ==
  UsersTypeOK /\ LoginTypeOK /\ GateTypeOK /\ NoteTypeOK /\ SuppressionTypeOK
=============================================================================
