---------------------------- MODULE UserIdentity ----------------------------
(***************************************************************************)
(* The rows of users and the Zitadel identities behind them: the first     *)
(* request of an identity makes or links its row, updateMe edits it,       *)
(* deleteMe removes the identity and then erases the row.  Every statement *)
(* and every call to Zitadel is a step of its own, and requests of one or  *)
(* two identities overlap.  Zitadel is external: an access token is        *)
(* checked locally and outlives its identity.                              *)
(***************************************************************************)
EXTENDS Integers, FiniteSets

CONSTANTS Identities,      \* Zitadel users
          Profiled,        \* those whose tokens carry the profile, not the identity alone
          Mailboxes,       \* [Identities -> e-mail address]: the possible assignments
          RowIds,            \* bound: ids of rows; an erased row's address is made from its id
          MaxUserRequests, \* bound: requests of a run, numbered in the order they begin
          EditedEmails,    \* addresses typed into updateMe
          MaxUserFaults    \* bound: statements and calls that fail

\* What Zitadel can send as an address.
MailAddress == {m[z] : m \in Mailboxes, z \in Identities}

ASSUME UserAssumption ==
  /\ MaxUserRequests \in Nat /\ Identities # {} /\ "" \notin Identities
  /\ RowIds \cap (MailAddress \cup {"", "none", "vacant"}) = {}
  /\ MailAddress \cap {"", "vacant"} = {} /\ "vacant" \notin EditedEmails

VARIABLES mailbox,        \* the address of each identity
          zitadel,        \* each identity: "unborn", "alive" or "gone"
          users,          \* table users: [id -> row, or Vacant]
          req,            \* each request: what it does, where it is, what it read, its answer
          disturbed,      \* rows whose erasure another request overlapped, or that were
                          \* given an address which is not their owner's to type
          userFaults

userVars == <<mailbox, zitadel, users, req, disturbed, userFaults>>

UserRequests == 1..MaxUserRequests
NoRow == "none"
Vacant == [identity |-> "", email |-> "vacant", name |-> "", erased |-> ""]
NewRow(z, e, n) == [identity |-> z, email |-> e, name |-> n, erased |-> ""]
NotBegun == [op |-> "none", at |-> "waiting", identity |-> "", email |-> "", name |-> "", row |-> NoRow,
            copy |-> Vacant]
RequestEnded(answer, z, row) == [NotBegun EXCEPT !.op = answer, !.at = "ended", !.identity = z, !.row = row]

FirstVacant(taken) == CHOOSE i \in RowIds : i \notin taken

UserInit ==
  /\ mailbox \in Mailboxes
  /\ zitadel = [z \in Identities |-> "unborn"]
  \* a migrated row that no identity is linked to yet
  /\ users \in {[i \in RowIds |-> Vacant],
                [[i \in RowIds |-> Vacant] EXCEPT ![FirstVacant({})] = NewRow("", mailbox[CHOOSE z \in Identities : TRUE], "")]}
  /\ req = [r \in UserRequests |-> NotBegun]
  /\ disturbed = {} /\ userFaults = 0

SetRequest(r, fields) == req' = [req EXCEPT ![r] = fields]
RequestGoes(r, at) == SetRequest(r, [req[r] EXCEPT !.at = at])
OnlyReq == UNCHANGED <<mailbox, zitadel, users, disturbed, userFaults>>

AnswerRequest(r, answer, row) == SetRequest(r, RequestEnded(answer, req[r].identity, row))

UserFault == userFaults < MaxUserFaults /\ userFaults' = userFaults + 1

(* A failing statement or call ends the request.  One that failed after it *)
(* took effect is one that succeeded, and a failure of the next.           *)
Fails(r) ==
  /\ UserFault
  /\ AnswerRequest(r, "error", NoRow)
  /\ UNCHANGED <<mailbox, zitadel, users, disturbed>>

FindByZitadelID(z) == {i \in RowIds : users[i] # Vacant /\ users[i].identity = z}
FindByEmail(e) == {i \in RowIds : users[i] # Vacant /\ users[i].email = e}
Incomplete(u) == u.email = "" \/ u.name = ""

(***************************************************************************)
(* The OIDC middleware: every request first resolves the identity of its   *)
(* token.  A token may carry the profile, or nothing but the identity.     *)
(***************************************************************************)
Alive(z) == zitadel[z] = "alive"

(* A mailbox has one identity at a time; a new one may follow a deleted    *)
(* one.                                                                    *)
LogIn(z) ==
  /\ zitadel[z] = "unborn"
  /\ \A y \in Identities \ {z} : Alive(y) => mailbox[y] # mailbox[z]
  /\ zitadel' = [zitadel EXCEPT ![z] = "alive"]
  /\ UNCHANGED <<mailbox, users, req, disturbed, userFaults>>

RequestBegins(r, z) ==
  /\ req[r] = NotBegun /\ zitadel[z] # "unborn"
  /\ \A s \in UserRequests : s < r => req[s] # NotBegun
  /\ \E op \in {"read", "update", "delete"} :
       SetRequest(r, [NotBegun EXCEPT !.op = op, !.at = "findIdentity", !.identity = z,
                              !.email = IF z \in Profiled THEN mailbox[z] ELSE "",
                              !.name = IF z \in Profiled THEN "real" ELSE ""])
  /\ OnlyReq

(* What the request does once it knows its row.                            *)
Resolved(r, row) ==
  IF req[r].op = "read" THEN AnswerRequest(r, "ok", row)
  ELSE SetRequest(r, [req[r] EXCEPT !.at = "load", !.row = row])

(* A look-up that fails is taken for one that found nothing.               *)
Sees(found, seen) ==
  \/ seen = found /\ UNCHANGED userFaults
  \/ seen = {} /\ UserFault

FindIdentity(r) ==
  /\ req[r].at = "findIdentity"
  /\ \E seen \in {{}, FindByZitadelID(req[r].identity)} :
       /\ Sees(FindByZitadelID(req[r].identity), seen)
       /\ IF seen = {} THEN RequestGoes(r, "enrich")
          ELSE \E i \in seen :
                 IF Incomplete(users[i])
                 THEN SetRequest(r, [req[r] EXCEPT !.at = "enrich", !.row = i, !.copy = users[i]])
                 ELSE Resolved(r, i)
  /\ UNCHANGED <<mailbox, zitadel, users, disturbed>>

Filled(u, r, email, name) ==
  [u EXCEPT !.email = IF @ = "" THEN email ELSE @, !.name = IF @ = "" THEN name ELSE @]

(* Missing profile fields are fetched from Zitadel, if that works.         *)
Enrich(r) ==
  /\ req[r].at = "enrich"
  /\ \E fetched \in BOOLEAN :
       LET known == Incomplete(req[r]) /\ fetched /\ Alive(req[r].identity)
           email == IF req[r].email = "" /\ known THEN mailbox[req[r].identity] ELSE req[r].email
           name == IF req[r].name = "" /\ known THEN "real" ELSE req[r].name
           copy == Filled(req[r].copy, r, email, name)
           next == [req[r] EXCEPT !.email = email, !.name = name]
       IN  /\ IF fetched \/ ~Incomplete(req[r]) THEN UNCHANGED userFaults ELSE UserFault
           /\ IF req[r].row = NoRow
              THEN SetRequest(r, [next EXCEPT !.at = IF email = "" THEN "insert" ELSE "findEmail"])
              ELSE IF copy = req[r].copy THEN Resolved(r, req[r].row)
              ELSE SetRequest(r, [next EXCEPT !.at = "link", !.copy = copy])
  /\ UNCHANGED <<mailbox, zitadel, users, disturbed>>

(* Bookkeeping of disturbed: a row that a deletion has read and is still to    *)
(* erase is met by the address of a request of another identity.           *)
BeingErased(i) ==
  \E s \in UserRequests : req[s].row = i /\ req[s].at \in {"dropIdentity", "anonymise"}
Meets(r, e) ==
  disturbed' = disturbed \cup {i \in FindByEmail(e) : BeingErased(i) /\ users[i].identity # req[r].identity}

FindEmail(r) ==
  /\ req[r].at = "findEmail" /\ Meets(r, req[r].email)
  /\ \E seen \in {{}, FindByEmail(req[r].email)} :
       /\ Sees(FindByEmail(req[r].email), seen)
       /\ IF seen = {} THEN RequestGoes(r, "insert")
          ELSE \E i \in seen :
                 SetRequest(r, [req[r] EXCEPT !.at = "link", !.row = i,
                           !.copy = [Filled(users[i], r, "", req[r].name) EXCEPT !.identity = req[r].identity]])
  /\ UNCHANGED <<mailbox, zitadel, users>>

(* The unique constraints on email and zitadel_user_id.                    *)
ClashesByEmail(i, u) == \E j \in RowIds \ {i} : users[j] # Vacant /\ users[j].email = u.email
Clashes(i, u) ==
  \E j \in RowIds \ {i} : users[j] # Vacant
    /\ (users[j].email = u.email \/ (u.identity # "" /\ users[j].identity = u.identity))

(* UpdateUser writes back every column of the copy.  The field erased is   *)
(* no column: it remembers whose row an erasure wiped.                     *)
WriteBackProfile(i, u) == [users EXCEPT ![i] = [u EXCEPT !.erased = users[i].erased, !.identity = ""]]
WriteBack(i, u) == [users EXCEPT ![i] = [u EXCEPT !.erased = users[i].erased]]

LinkRow(r) ==
  /\ req[r].at = "link" /\ Meets(r, req[r].copy.email)
  /\ IF Clashes(req[r].row, req[r].copy)
     THEN AnswerRequest(r, "error", NoRow) /\ UNCHANGED users
     ELSE users' = WriteBack(req[r].row, req[r].copy) /\ Resolved(r, req[r].row)
  /\ UNCHANGED <<mailbox, zitadel, userFaults>>

FailOnDuplicate(r) == AnswerRequest(r, "error", NoRow)

(* The loser of a race looks for the winner's row.                         *)
AfterDuplicate(r) == RequestGoes(r, "recover")

InsertRow(r) ==
  /\ req[r].at = "insert" /\ \E i \in RowIds : users[i] = Vacant
  /\ Meets(r, req[r].email)
  /\ LET new == NewRow(req[r].identity, req[r].email, req[r].name) IN
       IF Clashes(NoRow, new) THEN AfterDuplicate(r) /\ UNCHANGED users
       ELSE LET i == FirstVacant({j \in RowIds : users[j] # Vacant}) IN
              users' = [users EXCEPT ![i] = new] /\ Resolved(r, i)
  /\ UNCHANGED <<mailbox, zitadel, userFaults>>

Recover(r) ==
  /\ req[r].at = "recover" /\ Meets(r, req[r].email)
  /\ LET byIdentity == FindByZitadelID(req[r].identity)
         byEmail == IF req[r].email = "" THEN {} ELSE FindByEmail(req[r].email)
         Seen == IF byIdentity # {} THEN byIdentity ELSE byEmail
     IN  \/ /\ IF Seen # {} THEN \E i \in Seen : Resolved(r, i)
               ELSE AnswerRequest(r, "error", NoRow)
            /\ UNCHANGED userFaults
         \/ /\ byEmail # {} /\ \E i \in byEmail : Resolved(r, i)
            /\ UserFault
         \/ AnswerRequest(r, "error", NoRow) /\ UserFault
  /\ UNCHANGED <<mailbox, zitadel, users>>

(***************************************************************************)
(* updateMe and deleteMe.                                                  *)
(***************************************************************************)
LoadUser(r) ==
  /\ req[r].at = "load"
  /\ SetRequest(r, [req[r] EXCEPT !.copy = users[req[r].row],
                           !.at = IF req[r].op = "update" THEN "store" ELSE "dropIdentity"])
  /\ OnlyReq

(* Bookkeeping of disturbed: any address is accepted.  One that an         *)
(* identity signs in with is another's, unless the row's own identity is   *)
(* alive and signs in with it; one made from the id of a row, or none, is  *)
(* nobody's.                                                               *)
Foreign(e, z) ==
  /\ e \in MailAddress \cup RowIds \cup {""}
  /\ \A y \in Identities : y = z /\ Alive(y) => e # mailbox[y]

UpdateMe(r) ==
  /\ req[r].at = "store"
  /\ \E u \in {req[r].copy} \cup {[req[r].copy EXCEPT !.email = e, !.name = "typed"] : e \in EditedEmails} :
       IF Clashes(req[r].row, u) THEN AnswerRequest(r, "refused", NoRow) /\ UNCHANGED <<users, disturbed>>
       ELSE /\ users' = WriteBack(req[r].row, u) /\ AnswerRequest(r, "ok", req[r].row)
            /\ disturbed' = IF u.email # req[r].copy.email /\ Foreign(u.email, req[r].copy.identity)
                            THEN disturbed \cup {req[r].row} ELSE disturbed
  /\ UNCHANGED <<mailbox, zitadel, userFaults>>

EraseFirst(r) ==
  /\ req[r].at = "dropIdentity"
  /\ RequestGoes(r, "anonymise")
  /\ UNCHANGED <<mailbox, zitadel, users, disturbed, userFaults>>

(* Deleting an identity that is gone already is a success.                 *)
DropIdentity(r) ==
  /\ req[r].at = "dropIdentity"
  /\ zitadel' = [z \in Identities |-> IF z = req[r].copy.identity THEN "gone" ELSE zitadel[z]]
  /\ RequestGoes(r, "anonymise")
  /\ UNCHANGED <<mailbox, users, disturbed, userFaults>>

(* Somebody who read the row is still to write it, or has linked it to     *)
(* another identity since the deletion read it.                            *)
Raced(r) ==
  LET i == req[r].row IN
    \/ \E s \in UserRequests : req[s].at \in {"enrich", "link", "store"} /\ req[s].row = i
    \/ users[i].identity # req[r].copy.identity

Deleted(i) == i
AnonymisedWithoutSub(i) == [identity |-> "", email |-> Deleted(i), name |-> "Anonyme", erased |-> users[i].identity]
(* The identity stays on the row, for tokens that outlive it.              *)
Anonymised(i) ==
  [AnonymisedWithoutSub(i) EXCEPT !.identity = users[i].identity]

(* Somebody may have typed the address that the erasure makes up.          *)
Anonymise(r) ==
  /\ req[r].at = "anonymise"
  /\ IF ClashesByEmail(req[r].row, Anonymised(req[r].row))
     THEN AnswerRequest(r, "error", NoRow) /\ UNCHANGED <<users, disturbed>>
     ELSE /\ users' = [users EXCEPT ![req[r].row] = Anonymised(req[r].row)]
          /\ disturbed' = IF Raced(r) THEN disturbed \cup {req[r].row} ELSE disturbed
          /\ RequestGoes(r, "dropPushTokens")
  /\ UNCHANGED <<mailbox, zitadel, userFaults>>

DropPushTokens(r) ==
  /\ req[r].at = "dropPushTokens"
  /\ AnswerRequest(r, "ok", req[r].row)
  /\ UNCHANGED <<mailbox, zitadel, users, disturbed, userFaults>>

UserStep(r) ==
  \/ FindIdentity(r) \/ Enrich(r) \/ FindEmail(r) \/ LinkRow(r) \/ InsertRow(r) \/ Recover(r)
  \/ LoadUser(r) \/ UpdateMe(r) \/ DropIdentity(r) \/ Anonymise(r) \/ DropPushTokens(r)
  \/ req[r].at \in {"link", "insert", "load", "store", "dropIdentity", "anonymise", "dropPushTokens"}
     /\ Fails(r)

UserNext == \/ \E z \in Identities : LogIn(z) \/ (\E r \in UserRequests : RequestBegins(r, z))
            \/ \E r \in UserRequests : UserStep(r)

UserSpec == UserInit /\ [][UserNext]_userVars

(***************************************************************************)
(* Properties.                                                             *)
(***************************************************************************)
UsersTypeOK ==
  /\ \A z \in Identities : zitadel[z] \in {"unborn", "alive", "gone"}
  /\ \A i, j \in RowIds : i # j /\ users[i] # Vacant /\ users[j] # Vacant =>
       users[i].email # users[j].email
       /\ (users[i].identity = users[j].identity => users[i].identity = "")
  /\ \A r \in UserRequests : req[r].row \in RowIds \cup {NoRow}

(* However the first requests of an identity overlap, with each other and  *)
(* with those of a second identity of the same mailbox, they all find the  *)
(* same row: orders do not scatter over two accounts.  (An erasure that    *)
(* another request overlapped may cost an identity its row, and so may one *)
(* that failed half-way, which leaves the row for a successor to link.)    *)
OneRowPerIdentity ==
  disturbed = {} => \A r, s \in UserRequests :
    req[r].at = "ended" /\ req[s].at = "ended" /\ req[r].identity = req[s].identity
    /\ req[r].row # NoRow /\ req[s].row # NoRow => req[r].row = req[s].row

(* Where nothing fails and no erasure is overlapped, nobody is turned away *)
(* but who was deleted: the loser of a race between two first requests     *)
(* finds the winner's row.  (One failing look-up of the                    *)
(* profile can leave a row without an address that can never be completed, *)
(* because another row has the address: its owner is turned away ever      *)
(* after.)                                                                 *)
NobodyTurnedAway ==
  userFaults = 0 /\ disturbed = {} =>
    \A r \in UserRequests : req[r].op = "error" => zitadel[req[r].identity] = "gone"

(* What was erased stays erased, and a token that outlived its identity    *)
(* brings nothing back, unless another request overlapped the erasure.     *)
(* (What is typed afterwards is new.)                                      *)
ErasedStaysErased ==
  \A i \in RowIds : users[i].erased # "" /\ i \notin disturbed =>
    /\ users[i].email \in {Deleted(i)} \cup EditedEmails /\ users[i].name \in {"Anonyme", "typed"}
    /\ \A j \in RowIds : users[j] # Vacant /\ users[j].erased = "" =>
         users[j].identity # users[i].erased

(* "A partial failure can never leave a still-loginable account whose PII  *)
(* we've already wiped."                                                   *)
WipedCannotLogIn ==
  \A i \in RowIds : users[i].erased # "" /\ i \notin disturbed =>
    \A z \in Identities : users[i].identity = z => ~Alive(z)

\* FindOrCreateByZitadelID under overlapping requests: an identity has one
\* account and its owner is never refused it.
OneAccountEach == (userFaults = 0 => OneRowPerIdentity) /\ NobodyTurnedAway

\* DeleteMe: what is erased stays so, and nobody can sign in to it.
ErasureHolds == ErasedStaysErased /\ WipedCannotLogIn
=============================================================================
