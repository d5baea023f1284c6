------------------------- MODULE UserIdentityProofs -------------------------
(***************************************************************************)
(* UserIdentity for any identities, mailboxes, rows, requests and faults:  *)
(* what an erasure promises, and that an identity has one account.         *)
(***************************************************************************)
EXTENDS UserIdentity, TLAPS
-----------------------------------------------------------------------------
(* Rows and identities                                                     *)

\* The addresses that nobody signs in with, and no erasure makes up.
Plain == EditedEmails \ (MailAddress \cup RowIds \cup {""})

RowEmail == MailAddress \cup EditedEmails \cup RowIds \cup {"", "vacant"}
UserRow == [identity: Identities \cup {""}, email: RowEmail,
            name: {"", "real", "typed", "Anonyme"}, erased: Identities \cup {""}]

Seeking == {"findIdentity", "enrich", "findEmail", "link", "insert", "recover"}
Erasing == {"dropIdentity", "anonymise", "dropPushTokens"}
\* Where a request works on the row it found.
OnRow == {"load", "store"} \cup Erasing

UserCall == [op: {"none", "read", "update", "delete", "ok", "error", "refused"},
             at: {"waiting", "ended"} \cup Seeking \cup OnRow,
             identity: Identities \cup {""}, email: MailAddress \cup {""}, name: {"", "real"},
             row: RowIds \cup {NoRow}, copy: UserRow]

UserTypes ==
  /\ mailbox \in Mailboxes
  /\ zitadel \in [Identities -> {"unborn", "alive", "gone"}]
  /\ users \in [RowIds -> UserRow]
  /\ req \in [UserRequests -> UserCall]
  /\ disturbed \subseteq RowIds /\ userFaults \in Nat

IsRow(i) == users[i].email # "vacant"

\* The unique columns; an address made from an id is that row's, if it was not typed.
RowsUnique ==
  /\ \A i \in RowIds : users[i].email = "vacant" => users[i] = Vacant
  /\ \A i, j \in RowIds : i # j /\ IsRow(i) /\ IsRow(j) =>
       /\ users[i].email # users[j].email
       /\ users[i].identity = users[j].identity => users[i].identity = ""
  /\ \A i \in RowIds \ disturbed : users[i].email \in RowIds => users[i].email = i

\* A copy is of the row it will be written to.
CopyOf(c) ==
  c.row \in RowIds /\ IsRow(c.row) /\ c.copy.email # "vacant"
  /\ (c.copy.email \in RowIds => c.copy.email = c.row \/ c.row \in disturbed)

CallShape(c) ==
  /\ c.at = "waiting" => c = NotBegun
  /\ c.at # "waiting" => c.identity \in Identities /\ zitadel[c.identity] # "unborn"
  /\ c.at \in Seeking => c.email \in {"", mailbox[c.identity]} /\ c.op \in {"read", "update", "delete"}
  /\ c.at = "findEmail" => c.email # ""
  /\ c.at \in {"findIdentity", "findEmail", "insert", "recover"} => c.row = NoRow
  /\ c.at = "enrich" => c.row = NoRow \/ (CopyOf(c) /\ c.copy.identity = c.identity)
  /\ c.at = "link" => CopyOf(c) /\ c.copy.identity = c.identity
  /\ c.at \in OnRow => c.row \in RowIds /\ IsRow(c.row)
  /\ c.at = "store" => CopyOf(c)
  /\ c.at \in OnRow => c.op \in {"update", "delete"}
  /\ c.at = "anonymise" /\ c.copy.identity # "" => zitadel[c.copy.identity] = "gone"
  /\ c.at = "ended" => c.op \in {"ok", "error", "refused"}

CallsShaped == \A r \in UserRequests : CallShape(req[r])

\* What of an erased row can be said, unless another request overlapped the erasure.
ErasedRow(u, i) ==
  /\ u.email \in {i} \cup Plain /\ u.name \in {"Anonyme", "typed"}

ErasedKept ==
  \A i \in RowIds : users[i].erased # "" /\ i \notin disturbed =>
    /\ users[i].identity = users[i].erased /\ ErasedRow(users[i], i)
    /\ zitadel[users[i].erased] = "gone"
    /\ \A s \in UserRequests : req[s].row = i =>
         /\ req[s].at \notin {"enrich", "link"}
         /\ req[s].at = "store" =>
              req[s].copy.identity = users[i].identity /\ ErasedRow(req[s].copy, i)

UserInv == UserTypes /\ RowsUnique /\ CallsShaped /\ ErasedKept

\* The values apart that the invariant tells apart.
LEMMA UserValues ==
  /\ NotBegun \in UserCall /\ Vacant \in UserRow /\ Vacant.email = "vacant"
  /\ NotBegun.at = "waiting" /\ NotBegun.row = NoRow /\ NotBegun.op = "none"
  /\ Vacant.identity = "" /\ Vacant.erased = ""
  /\ NoRow \notin RowIds /\ "" \notin RowIds /\ "vacant" \notin RowIds /\ NoRow # ""
  /\ "" \notin MailAddress /\ "vacant" \notin MailAddress /\ RowIds \cap MailAddress = {}
  /\ "" \notin Identities /\ "vacant" \notin EditedEmails
<1>1. Vacant \in UserRow /\ Vacant.email = "vacant" /\ Vacant.identity = "" /\ Vacant.erased = ""
  BY DEF Vacant, UserRow, RowEmail
<1>2. /\ NotBegun \in UserCall /\ NotBegun.at = "waiting" /\ NotBegun.row = NoRow
      /\ NotBegun.op = "none"
  BY <1>1 DEF NotBegun, UserCall
<1> QED BY <1>1, <1>2, UserAssumption DEF NoRow

\* A row there is has another address than the vacant one.
LEMMA RowsThere == RowsUnique => \A i \in RowIds : users[i] # Vacant <=> IsRow(i)
BY UserValues DEF RowsUnique, IsRow

\* A step of r leaves the other requests alone.
CallMoves(r) ==
  /\ req' \in [UserRequests -> UserCall]
  /\ \A q \in UserRequests \ {r} : req'[q] = req[q]

\* A request becomes another call.
LEMMA SetFacts ==
  ASSUME UserTypes, NEW r \in UserRequests, NEW c \in UserCall, SetRequest(r, c)
  PROVE  CallMoves(r) /\ req'[r] = c
BY DEF SetRequest, UserTypes, CallMoves

\* A request goes on.
LEMMA GoesFacts ==
  ASSUME UserTypes, NEW r \in UserRequests, NEW at \in Seeking \cup OnRow, RequestGoes(r, at)
  PROVE  /\ CallMoves(r) /\ req'[r].at = at /\ req'[r].op = req[r].op
         /\ req'[r].identity = req[r].identity /\ req'[r].email = req[r].email
         /\ req'[r].name = req[r].name /\ req'[r].row = req[r].row /\ req'[r].copy = req[r].copy
<1> DEFINE c == [req[r] EXCEPT !.at = at]
<1>1. /\ c \in UserCall /\ c.at = at /\ c.op = req[r].op /\ c.identity = req[r].identity
      /\ c.email = req[r].email /\ c.name = req[r].name /\ c.row = req[r].row
      /\ c.copy = req[r].copy
  BY DEF UserTypes, UserCall
<1>2. SetRequest(r, c)
  BY DEF RequestGoes
<1> HIDE DEF c
<1> QED BY <1>1, <1>2, SetFacts

\* A request answers.
LEMMA AnswerFacts ==
  ASSUME UserTypes, NEW r \in UserRequests, NEW answer \in {"ok", "error", "refused"},
         NEW row \in RowIds \cup {NoRow}, AnswerRequest(r, answer, row)
  PROVE  /\ CallMoves(r) /\ req'[r].at = "ended" /\ req'[r].op = answer
         /\ req'[r].identity = req[r].identity /\ req'[r].row = row
<1> DEFINE c == RequestEnded(answer, req[r].identity, row)
<1>1. /\ c \in UserCall /\ c.at = "ended" /\ c.op = answer /\ c.identity = req[r].identity
      /\ c.row = row
  BY UserValues DEF RequestEnded, UserTypes, UserCall, NotBegun
<1>2. SetRequest(r, c)
  BY DEF AnswerRequest
<1> HIDE DEF c
<1> QED BY <1>1, <1>2, SetFacts

\* A request has found its row: it answers, or goes on to load it.
LEMMA ResolvedFacts ==
  ASSUME UserTypes, NEW r \in UserRequests, NEW row \in RowIds, Resolved(r, row),
         req[r].op \in {"read", "update", "delete"}
  PROVE  /\ CallMoves(r) /\ req'[r].identity = req[r].identity /\ req'[r].row = row
         /\ \/ req'[r].at = "load" /\ req'[r].op \in {"update", "delete"}
            \/ req'[r].at = "ended" /\ req'[r].op = "ok"
<1>1. CASE req[r].op = "read"
  BY <1>1, AnswerFacts DEF Resolved
<1>2. CASE req[r].op # "read"
  <2> DEFINE c == [req[r] EXCEPT !.at = "load", !.row = row]
  <2>1. /\ c \in UserCall /\ c.at = "load" /\ c.op = req[r].op
        /\ c.identity = req[r].identity /\ c.row = row
    BY DEF UserTypes, UserCall, OnRow
  <2>2. SetRequest(r, c)
    BY <1>2 DEF Resolved
  <2> HIDE DEF c
  <2> QED BY <1>2, <2>1, <2>2, SetFacts
<1> QED BY <1>1, <1>2

\* What no step takes back.
UsersGrow ==
  /\ mailbox' = mailbox /\ disturbed \subseteq disturbed' /\ disturbed' \subseteq RowIds
  /\ zitadel' \in [Identities -> {"unborn", "alive", "gone"}] /\ userFaults' \in Nat
  /\ \A z \in Identities : /\ zitadel[z] # "unborn" => zitadel'[z] # "unborn"
                           /\ zitadel[z] = "gone" => zitadel'[z] = "gone"
  /\ \A i \in RowIds : IsRow(i) => IsRow(i)'

\* A request that stays as it is keeps its shape.
LEMMA StillShaped ==
  ASSUME UserInv, UsersGrow, NEW q \in UserRequests, req'[q] = req[q]
  PROVE  CallShape(req[q])'
<1>1. PICK c \in UserCall : c = req[q] /\ c = req'[q]
  BY DEF UserInv, UserTypes
<1>2. CallShape(c) /\ c.copy.identity \in Identities \cup {""}
  BY <1>1 DEF UserInv, CallsShaped, UserCall, UserRow
<1>3. /\ mailbox' = mailbox
      /\ \A z \in Identities : /\ zitadel[z] # "unborn" => zitadel'[z] # "unborn"
                               /\ zitadel[z] = "gone" => zitadel'[z] = "gone"
      /\ \A i \in RowIds : users[i].email # "vacant" => users'[i].email # "vacant"
  BY DEF UsersGrow, IsRow
<1>4. /\ c.at # "waiting" => c.identity \in Identities /\ zitadel'[c.identity] # "unborn"
      /\ c.at = "anonymise" /\ c.copy.identity # "" => zitadel'[c.copy.identity] = "gone"
      /\ c.at \in OnRow => c.row \in RowIds /\ users'[c.row].email # "vacant"
  BY <1>2, <1>3 DEF CallShape, IsRow
<1>5. CopyOf(c) => c.row \in RowIds /\ users'[c.row].email # "vacant" /\ c.copy.email # "vacant"
                   /\ (c.copy.email \in RowIds => c.copy.email = c.row \/ c.row \in disturbed')
  BY <1>3 DEF CopyOf, IsRow, UsersGrow
<1>6. CASE c.at \in OnRow
  BY <1>1, <1>2, <1>4, <1>5, <1>6 DEF CallShape, CopyOf, IsRow, OnRow, Erasing, Seeking
<1>7. CASE c.at \notin OnRow
  BY <1>1, <1>2, <1>3, <1>4, <1>5, <1>7 DEF CallShape, CopyOf, IsRow, OnRow, Erasing
<1> QED BY <1>6, <1>7

\* What is left to show of a step of r that writes no row.
LEMMA UserInvAfter ==
  ASSUME UserInv, NEW r \in UserRequests, CallMoves(r), users' = users, UsersGrow,
         CallShape(req[r])',
         \A i \in RowIds : users[i].erased # "" /\ i \notin disturbed' /\ req'[r].row = i =>
           /\ req'[r].at \notin {"enrich", "link"}
           /\ req'[r].at = "store" =>
                req'[r].copy.identity = users[i].identity /\ ErasedRow(req'[r].copy, i)
  PROVE  UserInv'
<1>1. UserTypes'
  BY DEF UserInv, UserTypes, UsersGrow, CallMoves
<1>2. RowsUnique'
  BY DEF UserInv, RowsUnique, IsRow, UsersGrow
<1>3. CallsShaped'
  BY StillShaped DEF CallsShaped, CallMoves
<1>4. ErasedKept'
  <2> SUFFICES ASSUME NEW i \in RowIds, users[i].erased # "", i \notin disturbed'
               PROVE  /\ users[i].identity = users[i].erased /\ ErasedRow(users[i], i)
                      /\ zitadel'[users[i].erased] = "gone"
                      /\ \A s \in UserRequests : req'[s].row = i =>
                           /\ req'[s].at \notin {"enrich", "link"}
                           /\ req'[s].at = "store" =>
                                req'[s].copy.identity = users[i].identity
                                /\ ErasedRow(req'[s].copy, i)
    BY DEF ErasedKept, ErasedRow
  <2>1. i \notin disturbed /\ users[i].erased \in Identities
    BY DEF UsersGrow, UserInv, UserTypes, UserRow
  <2>2. /\ users[i].identity = users[i].erased /\ ErasedRow(users[i], i)
        /\ zitadel'[users[i].erased] = "gone"
    BY <2>1 DEF UserInv, ErasedKept, UsersGrow
  <2>3. ASSUME NEW s \in UserRequests \ {r}, req'[s].row = i
        PROVE  /\ req'[s].at \notin {"enrich", "link"}
               /\ req'[s].at = "store" =>
                    req'[s].copy.identity = users[i].identity /\ ErasedRow(req'[s].copy, i)
    <3>1. req'[s] = req[s]
      BY DEF CallMoves
    <3>2. req[s].row = i => /\ req[s].at \notin {"enrich", "link"}
                            /\ req[s].at = "store" =>
                                 req[s].copy.identity = users[i].identity
                                 /\ ErasedRow(req[s].copy, i)
      BY <2>1 DEF UserInv, ErasedKept
    <3> QED BY <2>3, <3>1, <3>2
  <2> QED BY <2>2, <2>3
<1> QED BY <1>1, <1>2, <1>3, <1>4 DEF UserInv

\* No row, and no identity, is taken back by a step that changes neither.
LEMMA NothingWritten ==
  ASSUME UserInv, UNCHANGED <<mailbox, zitadel, users>>, disturbed \subseteq disturbed',
         disturbed' \subseteq RowIds, userFaults' \in Nat
  PROVE  UsersGrow
BY DEF UserInv, UserTypes, UsersGrow, IsRow

\* What a request that is at work knows.
LEMMA WorkingCall ==
  ASSUME UserInv, NEW r \in UserRequests, req[r].at # "waiting"
  PROVE  /\ req[r] \in UserCall /\ CallShape(req[r]) /\ req[r].identity \in Identities
         /\ zitadel[req[r].identity] # "unborn" /\ mailbox[req[r].identity] \in MailAddress
         /\ \A i \in RowIds : users[i] \in UserRow
<1>1. req[r] \in UserCall /\ CallShape(req[r]) /\ mailbox \in Mailboxes
      /\ \A i \in RowIds : users[i] \in UserRow
  BY DEF UserInv, UserTypes, CallsShaped
<1>2. \A z \in Identities : mailbox[z] \in MailAddress
  BY <1>1 DEF MailAddress
<1>3. req[r].identity \in Identities /\ zitadel[req[r].identity] # "unborn"
  BY <1>1 DEF CallShape
<1> QED BY <1>1, <1>2, <1>3

\* Every identity has an address.
WorkingMailbox == \A z \in Identities : mailbox[z] \in MailAddress
LEMMA WorkingMailboxes == UserInv => WorkingMailbox
BY DEF UserInv, UserTypes, MailAddress, WorkingMailbox

\* An erased row is complete, and has no address of Zitadel.
LEMMA ErasedComplete ==
  ASSUME UserInv, NEW i \in RowIds, users[i].erased # "", i \notin disturbed
  PROVE  ~Incomplete(users[i]) /\ users[i].email \notin MailAddress
BY UserValues DEF UserInv, ErasedKept, ErasedRow, Incomplete, Plain

\* The invariant holds at first.
LEMMA InitUserInv == UserInit => UserInv
<1> SUFFICES ASSUME UserInit PROVE UserInv
  OBVIOUS
<1> DEFINE m0 == mailbox[CHOOSE z \in Identities : TRUE]
           migrated == NewRow("", m0, "")
<1>1. m0 \in MailAddress
  <2>1. \A z \in Identities : mailbox[z] \in MailAddress
    <3>1. mailbox \in Mailboxes
      BY DEF UserInit
    <3> QED BY <3>1 DEF MailAddress
  <2>2. (CHOOSE z \in Identities : TRUE) \in Identities
    <3>1. \E z \in Identities : TRUE
      BY UserAssumption
    <3> QED BY <3>1, Zenon
  <2> QED BY <2>1, <2>2
<1> HIDE DEF m0
<1>2. /\ migrated \in UserRow /\ migrated.email = m0 /\ migrated.erased = ""
  BY <1>1 DEF NewRow, UserRow, RowEmail
<1> HIDE DEF migrated
<1>3. \A r \in UserRequests : req[r] = NotBegun
  BY DEF UserInit
<1>4. \A i \in RowIds : users[i] \in {Vacant, migrated}
  BY DEF UserInit, migrated, m0
<1>5. users \in [RowIds -> UserRow]
  BY <1>2, UserValues DEF UserInit, migrated, m0
<1>6. UserTypes
  BY <1>5, UserValues DEF UserInit, UserTypes
<1>7. \A i, j \in RowIds : i # j => users[i] = Vacant \/ users[j] = Vacant
  BY DEF UserInit
<1>8. RowsUnique
  BY <1>1, <1>2, <1>4, <1>7, UserValues DEF RowsUnique, IsRow
<1>9. CallsShaped
  BY <1>3, UserValues DEF CallsShaped, CallShape, Seeking, OnRow, Erasing
<1>10. ErasedKept
  BY <1>2, <1>4, UserValues DEF ErasedKept
<1> QED BY <1>6, <1>8, <1>9, <1>10 DEF UserInv

\* What a request looks for, and where it goes with what it found.
LEMMA FindIdentityFacts ==
  ASSUME UserInv, NEW r \in UserRequests, FindIdentity(r)
  PROVE  /\ CallMoves(r) /\ req'[r].identity = req[r].identity
         /\ \/ /\ req'[r].at = "enrich" /\ req'[r].op = req[r].op /\ req'[r].email = req[r].email
               /\ \/ req'[r].row = NoRow
                  \/ \E i \in RowIds : /\ IsRow(i) /\ users[i].identity = req[r].identity
                                       /\ Incomplete(users[i]) /\ req'[r].row = i
                                       /\ req'[r].copy = users[i]
            \/ \E i \in RowIds : /\ IsRow(i) /\ users[i].identity = req[r].identity
                                 /\ Resolved(r, i)
<1>0. /\ UserTypes /\ req[r].at = "findIdentity" /\ req[r] \in UserCall /\ req[r].row = NoRow
      /\ req[r].op \in {"read", "update", "delete"}
  BY WorkingCall DEF FindIdentity, UserInv, CallShape, Seeking
<1>1. CASE RequestGoes(r, "enrich")
  BY <1>0, <1>1, GoesFacts DEF Seeking
<1>2. CASE \E i \in FindByZitadelID(req[r].identity) : Resolved(r, i)
  <2>1. PICK i \in RowIds : users[i] # Vacant /\ users[i].identity = req[r].identity /\ Resolved(r, i)
    BY <1>2 DEF FindByZitadelID
  <2>2. IsRow(i)
    BY <2>1, RowsThere DEF UserInv
  <2> QED BY <1>0, <2>1, <2>2, ResolvedFacts
<1>3. CASE \E i \in FindByZitadelID(req[r].identity) :
             /\ Incomplete(users[i])
             /\ SetRequest(r, [req[r] EXCEPT !.at = "enrich", !.row = i, !.copy = users[i]])
  <2>1. PICK i \in RowIds : /\ users[i] # Vacant /\ users[i].identity = req[r].identity
                            /\ Incomplete(users[i])
          /\ SetRequest(r, [req[r] EXCEPT !.at = "enrich", !.row = i, !.copy = users[i]])
    BY <1>3 DEF FindByZitadelID
  <2>2. IsRow(i) /\ users[i] \in UserRow
    BY <1>0, <2>1, RowsThere DEF UserInv, UserTypes
  <2> DEFINE c == [req[r] EXCEPT !.at = "enrich", !.row = i, !.copy = users[i]]
  <2>3. /\ c \in UserCall /\ c.at = "enrich" /\ c.row = i /\ c.copy = users[i]
        /\ c.identity = req[r].identity /\ c.op = req[r].op /\ c.email = req[r].email
    BY <1>0, <2>2 DEF UserCall, Seeking
  <2>4. SetRequest(r, c)
    BY <2>1
  <2> HIDE DEF c
  <2>5. CallMoves(r) /\ req'[r] = c
    BY <1>0, <2>3, <2>4, SetFacts
  <2> QED BY <2>1, <2>2, <2>3, <2>5
<1> QED BY <1>1, <1>2, <1>3 DEF FindIdentity

\* A copy whose blanks are filled in.
LEMMA FilledFacts ==
  ASSUME NEW u \in UserRow, NEW r, NEW email \in MailAddress \cup {""}, NEW name \in {"", "real"}
  PROVE  /\ Filled(u, r, email, name) \in UserRow
         /\ Filled(u, r, email, name).identity = u.identity
         /\ Filled(u, r, email, name).erased = u.erased
         /\ Filled(u, r, email, name).email = (IF u.email = "" THEN email ELSE u.email)
         /\ Filled(u, r, email, name).name = (IF u.name = "" THEN name ELSE u.name)
BY DEF Filled, UserRow, RowEmail

\* Where enrich leads with the address and the name it has by then.
EnrichedTo(r, email, name) ==
  /\ req'[r].identity = req[r].identity
  /\ \/ /\ req[r].row = NoRow /\ req'[r].row = NoRow /\ req'[r].op = req[r].op
        /\ req'[r].at = (IF email = "" THEN "insert" ELSE "findEmail")
        /\ req'[r].email = email /\ req'[r].name = name
     \/ req[r].row # NoRow /\ Resolved(r, req[r].row)
     \/ /\ req[r].row # NoRow /\ req'[r].row = req[r].row /\ req'[r].op = req[r].op
        /\ req'[r].at = "link" /\ req'[r].email = email
        /\ req'[r].copy = Filled(req[r].copy, r, email, name)

\* Enriching, where nothing fails, brings what an identity that is alive has in Zitadel.
LEMMA EnrichFacts ==
  ASSUME UserInv, NEW r \in UserRequests, Enrich(r)
  PROVE  /\ CallMoves(r) /\ userFaults' \in Nat
         /\ \E email \in {"", mailbox[req[r].identity]}, name \in {"", "real"} :
              /\ EnrichedTo(r, email, name)
              /\ userFaults' = 0 /\ zitadel[req[r].identity] # "gone" =>
                   userFaults = 0 /\ email = mailbox[req[r].identity] /\ name = "real"
<1> DEFINE z == req[r].identity
<1>0. /\ UserTypes /\ req[r].at = "enrich" /\ req[r] \in UserCall /\ z \in Identities
      /\ mailbox[z] \in MailAddress /\ req[r].email \in {"", mailbox[z]}
      /\ req[r].op \in {"read", "update", "delete"} /\ zitadel[z] # "unborn"
  BY WorkingCall DEF Enrich, UserInv, CallShape, Seeking
<1>1. PICK fetched \in BOOLEAN :
       LET known == Incomplete(req[r]) /\ fetched /\ Alive(z)
           email == IF req[r].email = "" /\ known THEN mailbox[z] ELSE req[r].email
           name == IF req[r].name = "" /\ known THEN "real" ELSE req[r].name
           copy == Filled(req[r].copy, r, email, name)
           next == [req[r] EXCEPT !.email = email, !.name = name]
       IN  /\ IF fetched \/ ~Incomplete(req[r]) THEN UNCHANGED userFaults ELSE UserFault
           /\ IF req[r].row = NoRow
              THEN SetRequest(r, [next EXCEPT !.at = IF email = "" THEN "insert" ELSE "findEmail"])
              ELSE IF copy = req[r].copy THEN Resolved(r, req[r].row)
              ELSE SetRequest(r, [next EXCEPT !.at = "link", !.copy = copy])
  BY DEF Enrich
<1> DEFINE known == Incomplete(req[r]) /\ fetched /\ Alive(z)
           email == IF req[r].email = "" /\ known THEN mailbox[z] ELSE req[r].email
           name == IF req[r].name = "" /\ known THEN "real" ELSE req[r].name
           copy == Filled(req[r].copy, r, email, name)
           next == [req[r] EXCEPT !.email = email, !.name = name]
<1>2. /\ email \in {"", mailbox[z]} /\ name \in {"", "real"}
      /\ (fetched \/ ~Incomplete(req[r])) /\ zitadel[z] # "gone" => email = mailbox[z] /\ name = "real"
  BY <1>0 DEF Incomplete, Alive, UserCall, UserTypes
<1>3. /\ IF fetched \/ ~Incomplete(req[r]) THEN UNCHANGED userFaults ELSE UserFault
      /\ IF req[r].row = NoRow
         THEN SetRequest(r, [next EXCEPT !.at = IF email = "" THEN "insert" ELSE "findEmail"])
         ELSE IF copy = req[r].copy THEN Resolved(r, req[r].row)
         ELSE SetRequest(r, [next EXCEPT !.at = "link", !.copy = copy])
  BY <1>1
<1> HIDE DEF known, email, name
<1>4. /\ userFaults' \in Nat
      /\ userFaults' = 0 => userFaults = 0 /\ (fetched \/ ~Incomplete(req[r]))
  <2>1. IF fetched \/ ~Incomplete(req[r]) THEN userFaults' = userFaults ELSE UserFault
    BY <1>3
  <2>2. userFaults \in Nat
    BY <1>0 DEF UserTypes
  <2>3. CASE fetched \/ ~Incomplete(req[r])
    BY <2>1, <2>2, <2>3
  <2>4. CASE ~(fetched \/ ~Incomplete(req[r]))
    BY <2>1, <2>2, <2>4 DEF UserFault
  <2> QED BY <2>3, <2>4
<1>5. next \in UserCall /\ next.email = email /\ next.name = name
      /\ next.identity = req[r].identity /\ next.row = req[r].row /\ next.op = req[r].op
      /\ next.copy = req[r].copy
  BY <1>0, <1>2 DEF UserCall
<1>6. copy \in UserRow
  BY <1>0, <1>2, FilledFacts DEF UserCall
<1> HIDE DEF next
<1>7. CallMoves(r) /\ EnrichedTo(r, email, name)
  <2>1. CASE req[r].row = NoRow
    <3> DEFINE c == [next EXCEPT !.at = IF email = "" THEN "insert" ELSE "findEmail"]
    <3>1. /\ c \in UserCall /\ c.at = (IF email = "" THEN "insert" ELSE "findEmail")
          /\ c.email = email /\ c.name = name /\ c.identity = req[r].identity
          /\ c.row = req[r].row /\ c.op = req[r].op
      BY <1>5 DEF UserCall, Seeking
    <3>2. SetRequest(r, c)
      BY <1>3, <2>1
    <3> HIDE DEF c
    <3>3. CallMoves(r) /\ req'[r] = c
      BY <1>0, <3>1, <3>2, SetFacts
    <3> QED BY <2>1, <3>1, <3>3 DEF EnrichedTo
  <2>2. CASE req[r].row # NoRow /\ Resolved(r, req[r].row)
    <3>1. req[r].row \in RowIds
      BY <1>0, <2>2 DEF UserCall
    <3> QED BY <1>0, <2>2, <3>1, ResolvedFacts DEF EnrichedTo
  <2>3. CASE req[r].row # NoRow /\ SetRequest(r, [next EXCEPT !.at = "link", !.copy = copy])
    <3> HIDE DEF copy
    <3> DEFINE c == [next EXCEPT !.at = "link", !.copy = copy]
    <3>1. /\ c \in UserCall /\ c.at = "link" /\ c.copy = copy /\ c.identity = req[r].identity
          /\ c.row = req[r].row /\ c.op = req[r].op /\ c.email = email
      BY <1>5, <1>6 DEF UserCall, Seeking
    <3>2. SetRequest(r, c)
      BY <2>3
    <3> HIDE DEF c
    <3>3. CallMoves(r) /\ req'[r] = c
      BY <1>0, <3>1, <3>2, SetFacts
    <3> QED BY <2>3, <3>1, <3>3 DEF EnrichedTo, copy
  <2> QED BY <1>3, <2>1, <2>2, <2>3
<1> QED BY <1>2, <1>4, <1>7

\* FindEmail finds no row of the address, or one to link.
LEMMA FindEmailFacts ==
  ASSUME UserInv, NEW r \in UserRequests, FindEmail(r)
  PROVE  /\ CallMoves(r) /\ req'[r].identity = req[r].identity /\ req'[r].op = req[r].op
         /\ req'[r].email = req[r].email /\ req'[r].name = req[r].name
         /\ \/ /\ req'[r].at = "insert" /\ req'[r].row = NoRow
               /\ UserFault \/ \A i \in RowIds : IsRow(i) => users[i].email # req[r].email
            \/ \E i \in RowIds :
                 /\ IsRow(i) /\ users[i].email = req[r].email
                 /\ req'[r].at = "link" /\ req'[r].row = i
                 /\ req'[r].copy.email = req[r].email
                 /\ req'[r].copy.identity = req[r].identity
                 /\ req'[r].copy.name = (IF users[i].name = "" THEN req[r].name ELSE users[i].name)
<1>0. /\ UserTypes /\ req[r].at = "findEmail" /\ req[r] \in UserCall /\ req[r].row = NoRow
      /\ req[r].identity \in Identities /\ req[r].email # ""
  BY WorkingCall DEF FindEmail, UserInv, CallShape
<1>1. CASE RequestGoes(r, "insert") /\ (UserFault \/ FindByEmail(req[r].email) = {})
  <2>1. UserFault \/ \A i \in RowIds : IsRow(i) => users[i].email # req[r].email
    BY <1>1, RowsThere DEF FindByEmail, UserInv
  <2> QED BY <1>0, <1>1, <2>1, GoesFacts DEF Seeking
<1>2. CASE \E i \in FindByEmail(req[r].email) :
             SetRequest(r, [req[r] EXCEPT !.at = "link", !.row = i,
               !.copy = [Filled(users[i], r, "", req[r].name) EXCEPT !.identity = req[r].identity]])
  <2>1. PICK i \in RowIds : /\ users[i] # Vacant /\ users[i].email = req[r].email
          /\ SetRequest(r, [req[r] EXCEPT !.at = "link", !.row = i,
               !.copy = [Filled(users[i], r, "", req[r].name) EXCEPT !.identity = req[r].identity]])
    BY <1>2 DEF FindByEmail
  <2> DEFINE f == Filled(users[i], r, "", req[r].name)
             u == [f EXCEPT !.identity = req[r].identity]
             c == [req[r] EXCEPT !.at = "link", !.row = i, !.copy = u]
  <2>2. IsRow(i) /\ users[i] \in UserRow /\ req[r].name \in {"", "real"}
    BY <1>0, <2>1, RowsThere DEF UserInv, UserTypes, UserCall
  <2>3. /\ f \in UserRow /\ f.email = users[i].email
        /\ f.name = (IF users[i].name = "" THEN req[r].name ELSE users[i].name)
    <3>1. /\ f \in UserRow /\ f.email = (IF users[i].email = "" THEN "" ELSE users[i].email)
          /\ f.name = (IF users[i].name = "" THEN req[r].name ELSE users[i].name)
      <4>1. PICK w \in UserRow, n \in {"", "real"} : w = users[i] /\ n = req[r].name
        BY <2>2
      <4>2. f = Filled(w, r, "", n)
        BY <4>1
      <4> HIDE DEF f
      <4>3. f \in UserRow /\ f.email = (IF w.email = "" THEN "" ELSE w.email)
            /\ f.name = (IF w.name = "" THEN n ELSE w.name)
        <5>1. "" \in MailAddress \cup {""}
          OBVIOUS
        <5> QED BY <5>1, <4>2, FilledFacts, Zenon
      <4> QED BY <4>1, <4>3
    <3> QED BY <3>1
  <2> HIDE DEF f
  <2>4. /\ u \in UserRow /\ u.email = f.email /\ u.name = f.name /\ u.identity = req[r].identity
    BY <1>0, <2>3 DEF UserRow
  <2>5. SetRequest(r, c)
    BY <2>1 DEF f
  <2> HIDE DEF u
  <2>6. /\ c \in UserCall /\ c.at = "link" /\ c.row = i /\ c.copy = u /\ c.op = req[r].op
        /\ c.identity = req[r].identity /\ c.email = req[r].email /\ c.name = req[r].name
    BY <1>0, <2>4 DEF UserCall, Seeking
  <2> HIDE DEF c
  <2>7. CallMoves(r) /\ req'[r] = c
    BY <1>0, <2>5, <2>6, SetFacts
  <2> QED BY <2>1, <2>2, <2>3, <2>4, <2>6, <2>7
<1> QED BY <1>1, <1>2 DEF FindEmail, Sees

\* The row is read to be edited or erased.
LEMMA LoadFacts ==
  ASSUME UserInv, NEW r \in UserRequests, LoadUser(r)
  PROVE  /\ CallMoves(r) /\ req'[r].identity = req[r].identity /\ req'[r].row = req[r].row
         /\ req'[r].op = req[r].op /\ req'[r].copy = users[req[r].row]
         /\ req'[r].at = (IF req[r].op = "update" THEN "store" ELSE "dropIdentity")
<1>0. /\ UserTypes /\ req[r].at = "load" /\ req[r] \in UserCall /\ req[r].row \in RowIds
  BY WorkingCall DEF LoadUser, UserInv, CallShape, OnRow
<1> DEFINE c == [req[r] EXCEPT !.copy = users[req[r].row],
                   !.at = IF req[r].op = "update" THEN "store" ELSE "dropIdentity"]
<1>1. /\ c \in UserCall /\ c.copy = users[req[r].row] /\ c.row = req[r].row /\ c.op = req[r].op
      /\ c.identity = req[r].identity
      /\ c.at = (IF req[r].op = "update" THEN "store" ELSE "dropIdentity")
  BY <1>0 DEF UserTypes, UserCall, OnRow, Erasing
<1>2. SetRequest(r, c)
  BY DEF LoadUser
<1> HIDE DEF c
<1> QED BY <1>0, <1>1, <1>2, SetFacts

-----------------------------------------------------------------------------
(* What was erased stays erased                                            *)

\* What is left to show of a step of r that writes row i, and nothing else after it.
LEMMA UserInvWritten ==
  ASSUME UserInv, NEW r \in UserRequests, CallMoves(r), UsersGrow, NEW i \in RowIds,
         users' \in [RowIds -> UserRow], \A j \in RowIds \ {i} : users'[j] = users[j],
         RowsUnique', CallShape(req[r])', req'[r].row = i,
         req'[r].at \notin {"enrich", "link", "store"},
         users'[i].erased # "" /\ i \notin disturbed' =>
           /\ users'[i].identity = users'[i].erased /\ ErasedRow(users'[i], i)
           /\ zitadel'[users'[i].erased] = "gone"
           /\ \A s \in UserRequests \ {r} : req[s].row = i =>
                /\ req[s].at \notin {"enrich", "link"}
                /\ req[s].at = "store" =>
                     req[s].copy.identity = users'[i].identity /\ ErasedRow(req[s].copy, i)
  PROVE  UserInv'
<1>1. UserTypes'
  BY DEF UserInv, UserTypes, UsersGrow, CallMoves
<1>2. CallsShaped'
  BY StillShaped DEF CallsShaped, CallMoves
<1>3. ErasedKept'
  <2> SUFFICES ASSUME NEW j \in RowIds, users'[j].erased # "", j \notin disturbed'
               PROVE  /\ users'[j].identity = users'[j].erased /\ ErasedRow(users'[j], j)
                      /\ zitadel'[users'[j].erased] = "gone"
                      /\ \A s \in UserRequests : req'[s].row = j =>
                           /\ req'[s].at \notin {"enrich", "link"}
                           /\ req'[s].at = "store" =>
                                req'[s].copy.identity = users'[j].identity
                                /\ ErasedRow(req'[s].copy, j)
    BY DEF ErasedKept, ErasedRow
  <2>1. \A s \in UserRequests \ {r} : req'[s] = req[s]
    BY DEF CallMoves
  <2>2. CASE j = i
    BY <2>1, <2>2
  <2>3. CASE j # i
    <3>1. users'[j] = users[j] /\ j \notin disturbed /\ users[j].erased \in Identities
      BY <2>3 DEF UsersGrow, UserInv, UserTypes, UserRow
    <3>2. /\ users[j].identity = users[j].erased /\ ErasedRow(users[j], j)
          /\ zitadel[users[j].erased] = "gone"
          /\ \A s \in UserRequests : req[s].row = j =>
               /\ req[s].at \notin {"enrich", "link"}
               /\ req[s].at = "store" =>
                    req[s].copy.identity = users[j].identity /\ ErasedRow(req[s].copy, j)
      BY <3>1 DEF UserInv, ErasedKept
    <3>3. zitadel'[users[j].erased] = "gone"
      BY <3>1, <3>2 DEF UsersGrow
    <3> QED BY <2>1, <2>3, <3>1, <3>2, <3>3
  <2> QED BY <2>2, <2>3
<1> QED BY <1>1, <1>2, <1>3 DEF UserInv

\* A row written back: the unique columns let it through.
LEMMA WriteBackFacts ==
  ASSUME UserInv, NEW i \in RowIds, IsRow(i), NEW u \in UserRow, u.email # "vacant",
         disturbed \subseteq disturbed', u.email \in RowIds => u.email = i \/ i \in disturbed',
         ~Clashes(i, u), users' = WriteBack(i, u)
  PROVE  /\ users' \in [RowIds -> UserRow] /\ RowsUnique'
         /\ \A j \in RowIds \ {i} : users'[j] = users[j]
         /\ users'[i].identity = u.identity /\ users'[i].email = u.email
         /\ users'[i].name = u.name /\ users'[i].erased = users[i].erased
         /\ \A j \in RowIds : IsRow(j)' <=> IsRow(j)
<1> DEFINE w == [u EXCEPT !.erased = users[i].erased]
<1>1. /\ w \in UserRow /\ w.identity = u.identity /\ w.email = u.email /\ w.name = u.name
      /\ w.erased = users[i].erased
  BY DEF UserInv, UserTypes, UserRow
<1>2. users' = [users EXCEPT ![i] = w]
  BY DEF WriteBack
<1> HIDE DEF w
<1>3. /\ users' \in [RowIds -> UserRow] /\ users'[i] = w
      /\ \A j \in RowIds \ {i} : users'[j] = users[j]
  BY <1>1, <1>2 DEF UserInv, UserTypes
<1>4. \A j \in RowIds : IsRow(j)' <=> IsRow(j)
  BY <1>1, <1>3 DEF IsRow
<1>5. \A j \in RowIds \ {i} : IsRow(j) =>
        users[j].email # w.email /\ (users[j].identity = w.identity => w.identity = "")
  BY <1>1, RowsThere DEF Clashes, UserInv
<1>6. RowsUnique'
  <2>1. \A j \in RowIds : users'[j].email = "vacant" => users'[j] = Vacant
    BY <1>1, <1>3 DEF UserInv, RowsUnique
  <2>2. \A j, k \in RowIds : j # k /\ IsRow(j)' /\ IsRow(k)' =>
          /\ users'[j].email # users'[k].email
          /\ users'[j].identity = users'[k].identity => users'[j].identity = ""
    <3> SUFFICES ASSUME NEW j \in RowIds, NEW k \in RowIds, j # k, IsRow(j), IsRow(k)
                 PROVE  /\ users'[j].email # users'[k].email
                        /\ users'[j].identity = users'[k].identity => users'[j].identity = ""
      BY <1>4
    <3>1. CASE j = i
      BY <1>3, <1>5, <3>1
    <3>2. CASE k = i
      BY <1>3, <1>5, <3>2
    <3>3. CASE j # i /\ k # i
      <4>1. users'[j] = users[j] /\ users'[k] = users[k]
        BY <1>3, <3>3
      <4>2. RowsUnique
        BY DEF UserInv
      <4> QED BY <4>1, <4>2 DEF RowsUnique
    <3> QED BY <3>1, <3>2, <3>3
  <2>3. \A j \in RowIds \ disturbed' : users'[j].email \in RowIds => users'[j].email = j
    BY <1>1, <1>3 DEF UserInv, RowsUnique
  <2> QED BY <2>1, <2>2, <2>3 DEF RowsUnique
<1> QED BY <1>1, <1>3, <1>4, <1>6

\* A look-up may count a fault.
LEMMA SeesFacts == UserInv /\ (\E found, seen : Sees(found, seen)) => userFaults' \in Nat
BY DEF Sees, UserFault, UserInv, UserTypes

\* FindIdentity keeps the invariant: an erased row is complete, and not enriched.
LEMMA FindIdentityUserInv ==
  ASSUME UserInv, NEW r \in UserRequests, FindIdentity(r)
  PROVE  UserInv'
<1>0. /\ req[r].at = "findIdentity" /\ req[r] \in UserCall /\ CallShape(req[r])
      /\ UNCHANGED <<mailbox, zitadel, users, disturbed>> /\ userFaults' \in Nat /\ CallMoves(r)
      /\ req[r].identity \in Identities /\ zitadel[req[r].identity] # "unborn"
  <2>1. /\ req[r].at = "findIdentity" /\ UNCHANGED <<mailbox, zitadel, users, disturbed>>
        /\ \E found, seen : Sees(found, seen)
    BY DEF FindIdentity
  <2> QED BY <2>1, SeesFacts, WorkingCall, FindIdentityFacts
<1>1. UsersGrow
  BY <1>0, NothingWritten DEF UserInv, UserTypes
<1>2. CASE /\ req'[r].at = "enrich" /\ req'[r].op = req[r].op /\ req'[r].email = req[r].email
           /\ req'[r].identity = req[r].identity
           /\ \/ req'[r].row = NoRow
              \/ \E i \in RowIds : /\ IsRow(i) /\ users[i].identity = req[r].identity
                                   /\ Incomplete(users[i]) /\ req'[r].row = i
                                   /\ req'[r].copy = users[i]
  <2>1. CallShape(req[r])'
    <3>1. req'[r].row # NoRow => CopyOf(req[r])' /\ req'[r].copy.identity = req[r].identity
      BY <1>0, <1>2 DEF CopyOf, IsRow, UserInv, RowsUnique
    <3>2. req[r].email \in {"", mailbox[req[r].identity]} /\ req[r].op \in {"read", "update", "delete"}
      BY <1>0 DEF CallShape, Seeking
    <3> QED BY <1>0, <1>2, <3>1, <3>2 DEF CallShape, Seeking, OnRow, Erasing
  <2>2. \A i \in RowIds : users[i].erased # "" /\ i \notin disturbed' => req'[r].row # i
    BY <1>0, <1>2, ErasedComplete, UserValues
  <2> QED BY <1>0, <1>1, <2>1, <2>2, UserInvAfter
<1>3. ASSUME NEW i \in RowIds, IsRow(i), req'[r].identity = req[r].identity, Resolved(r, i)
      PROVE  UserInv'
  <2>1. /\ req'[r].row = i
        /\ \/ req'[r].at = "load" /\ req'[r].op \in {"update", "delete"}
           \/ req'[r].at = "ended" /\ req'[r].op = "ok"
    BY <1>0, <1>3, ResolvedFacts DEF UserInv, CallShape, Seeking
  <2>2. CallShape(req[r])'
    BY <1>0, <1>3, <2>1 DEF CallShape, IsRow, Seeking, OnRow, Erasing
  <2> QED BY <1>0, <1>1, <2>1, <2>2, UserInvAfter
<1> QED BY <1>2, <1>3, FindIdentityFacts

\* A request that has found its row, and writes none, keeps it.
LEMMA ResolvedUserInv ==
  ASSUME UserInv, NEW r \in UserRequests, req[r].at \in Seeking, NEW i \in RowIds, IsRow(i),
         Resolved(r, i), UNCHANGED <<mailbox, zitadel, users>>, disturbed \subseteq disturbed',
         disturbed' \subseteq RowIds, userFaults' \in Nat
  PROVE  UserInv'
<1>0. /\ req[r] \in UserCall /\ CallShape(req[r]) /\ UserTypes
      /\ req[r].identity \in Identities /\ zitadel[req[r].identity] # "unborn"
  BY WorkingCall DEF Seeking, UserInv
<1>1. UsersGrow
  BY NothingWritten
<1>2. /\ CallMoves(r) /\ req'[r].identity = req[r].identity /\ req'[r].row = i
      /\ \/ req'[r].at = "load" /\ req'[r].op \in {"update", "delete"}
         \/ req'[r].at = "ended" /\ req'[r].op = "ok"
  BY <1>0, ResolvedFacts DEF CallShape
<1>3. CallShape(req[r])'
  BY <1>0, <1>2 DEF CallShape, IsRow, Seeking, OnRow, Erasing
<1> QED BY <1>1, <1>2, <1>3, UserInvAfter

\* A request that ends, and writes no row, keeps it.
LEMMA AnswerUserInv ==
  ASSUME UserInv, NEW r \in UserRequests, req[r].at # "waiting",
         NEW answer \in {"ok", "error", "refused"}, NEW row \in RowIds \cup {NoRow},
         AnswerRequest(r, answer, row), UNCHANGED <<mailbox, zitadel, users>>,
         disturbed \subseteq disturbed', disturbed' \subseteq RowIds, userFaults' \in Nat
  PROVE  UserInv'
<1>0. /\ req[r] \in UserCall /\ UserTypes
      /\ req[r].identity \in Identities /\ zitadel[req[r].identity] # "unborn"
  BY WorkingCall DEF UserInv
<1>1. UsersGrow
  BY NothingWritten
<1>2. /\ CallMoves(r) /\ req'[r].identity = req[r].identity
      /\ req'[r].at = "ended" /\ req'[r].op = answer
  BY <1>0, AnswerFacts
<1>3. CallShape(req[r])'
  BY <1>0, <1>2 DEF CallShape, Seeking, OnRow, Erasing
<1> QED BY <1>1, <1>2, <1>3, UserInvAfter

\* Enriching keeps it: no erased row is enriched.
LEMMA EnrichUserInv ==
  ASSUME UserInv, NEW r \in UserRequests, Enrich(r)
  PROVE  UserInv'
<1>0. /\ req[r].at = "enrich" /\ req[r] \in UserCall /\ CallShape(req[r]) /\ UserTypes
      /\ UNCHANGED <<mailbox, zitadel, users, disturbed>> /\ CallMoves(r) /\ userFaults' \in Nat
      /\ req[r].identity \in Identities /\ zitadel[req[r].identity] # "unborn"
      /\ mailbox[req[r].identity] \in MailAddress
  BY WorkingCall, EnrichFacts DEF Enrich, UserInv
<1>1. UsersGrow
  BY <1>0, NothingWritten DEF UserTypes
<1>2. PICK email \in {"", mailbox[req[r].identity]}, name \in {"", "real"} :
        EnrichedTo(r, email, name)
  BY EnrichFacts
<1>3. CASE /\ req[r].row = NoRow /\ req'[r].row = NoRow /\ req'[r].op = req[r].op
           /\ req'[r].at = (IF email = "" THEN "insert" ELSE "findEmail")
           /\ req'[r].email = email /\ req'[r].identity = req[r].identity
  <2>1. CallShape(req[r])'
    BY <1>0, <1>2, <1>3 DEF CallShape, Seeking, OnRow, Erasing
  <2> QED BY <1>0, <1>1, <1>3, <2>1, UserValues, UserInvAfter
<1>4. CASE req[r].row # NoRow /\ Resolved(r, req[r].row)
  <2>1. req[r].row \in RowIds /\ IsRow(req[r].row)
    BY <1>0, <1>4 DEF CallShape, CopyOf
  <2> QED BY <1>0, <1>4, <2>1, ResolvedUserInv DEF UserTypes, Seeking
<1>5. CASE /\ req[r].row # NoRow /\ req'[r].row = req[r].row /\ req'[r].op = req[r].op
           /\ req'[r].at = "link" /\ req'[r].email = email
           /\ req'[r].copy = Filled(req[r].copy, r, email, name)
           /\ req'[r].identity = req[r].identity
  <2>1. CopyOf(req[r]) /\ req[r].copy.identity = req[r].identity /\ req[r].copy \in UserRow
    BY <1>0, <1>5 DEF CallShape, UserCall
  <2>2. /\ req'[r].copy.identity = req[r].identity
        /\ req'[r].copy.email = (IF req[r].copy.email = "" THEN email ELSE req[r].copy.email)
    <3>1. email \in MailAddress \cup {""}
      BY <1>0
    <3>2. PICK u \in UserRow : u = req[r].copy
      BY <2>1
    <3>3. req'[r].copy = Filled(u, r, email, name)
      BY <1>5, <3>2
    <3>4. /\ Filled(u, r, email, name).identity = u.identity
          /\ Filled(u, r, email, name).email = (IF u.email = "" THEN email ELSE u.email)
      BY <3>1, FilledFacts, Zenon
    <3> QED BY <2>1, <3>2, <3>3, <3>4
  <2>3. CopyOf(req[r])'
    BY <1>0, <1>5, <2>1, <2>2, UserValues DEF CopyOf, IsRow
  <2>4. CallShape(req[r])'
    BY <1>0, <1>2, <1>5, <2>2, <2>3 DEF CallShape, Seeking, OnRow, Erasing
  <2>5. \A i \in RowIds : users[i].erased # "" /\ i \notin disturbed' => req'[r].row # i
    BY <1>0, <1>5 DEF UserInv, ErasedKept
  <2> QED BY <1>0, <1>1, <2>4, <2>5, UserInvAfter
<1> QED BY <1>2, <1>3, <1>4, <1>5 DEF EnrichedTo

\* The rows that an address meets are rows.
LEMMA MeetsFacts ==
  ASSUME UserInv, NEW r \in UserRequests, NEW e, Meets(r, e)
  PROVE  disturbed \subseteq disturbed' /\ disturbed' \subseteq RowIds
BY DEF Meets, FindByEmail, UserInv, UserTypes

\* FindEmail keeps it: an erased row has no address of Zitadel.
LEMMA FindEmailUserInv ==
  ASSUME UserInv, NEW r \in UserRequests, FindEmail(r)
  PROVE  UserInv'
<1>0. /\ req[r].at = "findEmail" /\ req[r] \in UserCall /\ CallShape(req[r]) /\ UserTypes
      /\ UNCHANGED <<mailbox, zitadel, users>> /\ userFaults' \in Nat /\ CallMoves(r)
      /\ disturbed \subseteq disturbed' /\ disturbed' \subseteq RowIds
      /\ req[r].identity \in Identities /\ zitadel[req[r].identity] # "unborn"
      /\ req[r].email = mailbox[req[r].identity] /\ req[r].email \in MailAddress
  <2>1. /\ req[r].at = "findEmail" /\ req[r] \in UserCall /\ CallShape(req[r]) /\ UserTypes
        /\ UNCHANGED <<mailbox, zitadel, users>> /\ userFaults' \in Nat /\ Meets(r, req[r].email)
        /\ req[r].identity \in Identities /\ zitadel[req[r].identity] # "unborn"
        /\ mailbox[req[r].identity] \in MailAddress
    <3>1. /\ req[r].at = "findEmail" /\ UNCHANGED <<mailbox, zitadel, users>> /\ UserTypes
          /\ Meets(r, req[r].email) /\ \E found, seen : Sees(found, seen)
      BY DEF FindEmail, UserInv
    <3> QED BY <3>1, SeesFacts, WorkingCall
  <2>2. req[r].email = mailbox[req[r].identity]
    BY <2>1 DEF CallShape, Seeking
  <2> QED BY <2>1, <2>2, MeetsFacts, FindEmailFacts
<1>1. UsersGrow
  BY <1>0, NothingWritten DEF UserTypes
<1>2. CASE /\ req'[r].at = "insert" /\ req'[r].row = NoRow /\ req'[r].op = req[r].op
           /\ req'[r].email = req[r].email /\ req'[r].identity = req[r].identity
  <2>1. CallShape(req[r])'
    BY <1>0, <1>2 DEF CallShape, Seeking, OnRow, Erasing
  <2> QED BY <1>0, <1>1, <1>2, <2>1, UserValues, UserInvAfter
<1>3. ASSUME NEW i \in RowIds, IsRow(i), users[i].email = req[r].email,
             req'[r].at = "link", req'[r].row = i, req'[r].copy.email = req[r].email,
             req'[r].copy.identity = req[r].identity, req'[r].op = req[r].op,
             req'[r].email = req[r].email, req'[r].identity = req[r].identity
      PROVE  UserInv'
  <2>1. CopyOf(req[r])'
    BY <1>0, <1>3, UserValues DEF CopyOf, IsRow
  <2>2. CallShape(req[r])'
    BY <1>0, <1>3, <2>1 DEF CallShape, Seeking, OnRow, Erasing
  <2>3. users[i].erased # "" => i \in disturbed
    BY <1>0, <1>3, ErasedComplete
  <2> QED BY <1>0, <1>1, <1>3, <2>2, <2>3, UserInvAfter
<1> QED BY <1>2, <1>3, FindEmailFacts

\* A step of r that has written row i, which is no erased row, and has found it.
LEMMA FoundUserInv ==
  ASSUME UserInv, NEW r \in UserRequests, req[r].at \in Seeking, NEW i \in RowIds, Resolved(r, i),
         UNCHANGED <<mailbox, zitadel>>, disturbed \subseteq disturbed', disturbed' \subseteq RowIds,
         userFaults' \in Nat, users' \in [RowIds -> UserRow],
         \A j \in RowIds \ {i} : users'[j] = users[j], \A j \in RowIds : IsRow(j) => IsRow(j)',
         RowsUnique', IsRow(i)', users'[i].erased = "" \/ i \in disturbed'
  PROVE  UserInv'
<1>0. /\ req[r] \in UserCall /\ CallShape(req[r]) /\ UserTypes
      /\ req[r].identity \in Identities /\ zitadel[req[r].identity] # "unborn"
  BY WorkingCall DEF Seeking, UserInv
<1>1. UsersGrow
  BY <1>0 DEF UsersGrow, UserTypes
<1>2. /\ CallMoves(r) /\ req'[r].identity = req[r].identity /\ req'[r].row = i
      /\ \/ req'[r].at = "load" /\ req'[r].op \in {"update", "delete"}
         \/ req'[r].at = "ended" /\ req'[r].op = "ok"
  BY <1>0, ResolvedFacts DEF CallShape
<1>3. CallShape(req[r])'
  BY <1>0, <1>2 DEF CallShape, Seeking, OnRow, Erasing, IsRow
<1>4. req'[r].at \notin {"enrich", "link", "store"}
  BY <1>2
<1> QED BY <1>1, <1>2, <1>3, <1>4, UserInvWritten

\* Linking a row keeps the invariant: an erased row is linked to nobody.
LEMMA LinkRowUserInv ==
  ASSUME UserInv, NEW r \in UserRequests, LinkRow(r)
  PROVE  UserInv'
<1>0. /\ req[r].at = "link" /\ req[r] \in UserCall /\ CallShape(req[r]) /\ UserTypes
      /\ UNCHANGED <<mailbox, zitadel, userFaults>>
      /\ disturbed \subseteq disturbed' /\ disturbed' \subseteq RowIds
  BY WorkingCall, MeetsFacts DEF LinkRow, UserInv
<1>1. CASE AnswerRequest(r, "error", NoRow) /\ UNCHANGED users
  BY <1>0, <1>1, AnswerUserInv DEF UserTypes
<1>2. CASE /\ ~Clashes(req[r].row, req[r].copy) /\ users' = WriteBack(req[r].row, req[r].copy)
           /\ Resolved(r, req[r].row)
  <2>1. PICK i \in RowIds : i = req[r].row
    BY <1>0 DEF CallShape, CopyOf
  <2>2. PICK u \in UserRow : u = req[r].copy
    BY <1>0 DEF UserCall
  <2>3. /\ IsRow(i) /\ u.email # "vacant"
        /\ u.email \in RowIds => u.email = i \/ i \in disturbed'
    BY <1>0, <2>1, <2>2 DEF CallShape, CopyOf
  <2>4. /\ users' \in [RowIds -> UserRow] /\ RowsUnique'
        /\ \A j \in RowIds \ {i} : users'[j] = users[j]
        /\ users'[i].erased = users[i].erased /\ \A j \in RowIds : IsRow(j)' <=> IsRow(j)
    BY <1>0, <1>2, <2>1, <2>2, <2>3, WriteBackFacts
  <2>5. users[i].erased # "" => i \in disturbed'
    BY <1>0, <2>1 DEF UserInv, ErasedKept
  <2>6. Resolved(r, i) /\ IsRow(i)' /\ req[r].at \in Seeking /\ userFaults' \in Nat
    BY <1>0, <1>2, <2>1, <2>3, <2>4 DEF Seeking, UserTypes
  <2> QED BY <1>0, <2>4, <2>5, <2>6, FoundUserInv
<1> QED BY <1>1, <1>2 DEF LinkRow

\* A row for whoever found none.
LEMMA InsertFacts ==
  ASSUME UserInv, NEW r \in UserRequests, InsertRow(r)
  PROVE  /\ UNCHANGED <<mailbox, zitadel, userFaults>> /\ Meets(r, req[r].email)
         /\ \/ /\ RequestGoes(r, "recover") /\ UNCHANGED users
               /\ \E j \in RowIds : /\ IsRow(j)
                                    /\ \/ users[j].email = req[r].email
                                       \/ users[j].identity = req[r].identity
            \/ \E i \in RowIds :
                 /\ ~IsRow(i) /\ Resolved(r, i) /\ users' \in [RowIds -> UserRow]
                 /\ \A j \in RowIds \ {i} : users'[j] = users[j]
                 /\ users'[i].identity = req[r].identity /\ users'[i].email = req[r].email
                 /\ users'[i].name = req[r].name /\ users'[i].erased = ""
                 /\ \A j \in RowIds : IsRow(j) =>
                      users[j].email # req[r].email /\ users[j].identity # req[r].identity
<1> DEFINE new == NewRow(req[r].identity, req[r].email, req[r].name)
           taken == {j \in RowIds : users[j] # Vacant}
<1>0. /\ req[r].at = "insert" /\ req[r] \in UserCall /\ UserTypes /\ RowsUnique
      /\ req[r].identity \in Identities
      /\ UNCHANGED <<mailbox, zitadel, userFaults>> /\ Meets(r, req[r].email)
  BY WorkingCall DEF InsertRow, UserInv
<1>1. /\ new \in UserRow /\ new.identity = req[r].identity /\ new.email = req[r].email
      /\ new.name = req[r].name /\ new.erased = ""
  BY <1>0 DEF NewRow, UserRow, RowEmail, UserCall
<1>2. new.identity # ""
  BY <1>0, <1>1, UserValues
<1>3. PICK i \in RowIds : i = FirstVacant(taken) /\ ~IsRow(i)
  <2>1. \E i \in RowIds : i \notin taken
    BY DEF InsertRow
  <2>2. (CHOOSE i \in RowIds : i \notin taken) \in RowIds
        /\ (CHOOSE i \in RowIds : i \notin taken) \notin taken
    BY <2>1, Zenon
  <2>3. FirstVacant(taken) \in RowIds /\ FirstVacant(taken) \notin taken
    BY <2>2 DEF FirstVacant
  <2> QED BY <1>0, <2>3, RowsThere
<1>4. CASE Clashes(NoRow, new) /\ RequestGoes(r, "recover") /\ UNCHANGED users
  <2>1. PICK j \in RowIds : users[j] # Vacant
          /\ (users[j].email = new.email \/ users[j].identity = new.identity)
    BY <1>4 DEF Clashes
  <2> QED BY <1>0, <1>1, <1>4, <2>1, RowsThere
<1>5. CASE ~Clashes(NoRow, new) /\ users' = [users EXCEPT ![FirstVacant(taken)] = new]
           /\ Resolved(r, FirstVacant(taken))
  <2>1. \A j \in RowIds : IsRow(j) =>
          users[j].email # new.email /\ users[j].identity # new.identity
    BY <1>0, <1>2, <1>5, RowsThere, UserValues DEF Clashes
  <2>2. users' = [users EXCEPT ![i] = new] /\ Resolved(r, i)
    BY <1>3, <1>5
  <2> HIDE DEF new, taken
  <2>3. /\ users' \in [RowIds -> UserRow] /\ users'[i] = new
        /\ \A j \in RowIds \ {i} : users'[j] = users[j]
    BY <1>0, <1>1, <2>2 DEF UserTypes
  <2> QED BY <1>0, <1>1, <1>3, <2>1, <2>2, <2>3
<1> QED BY <1>0, <1>4, <1>5 DEF InsertRow, AfterDuplicate

\* A new row keeps the invariant: neither its identity nor its address had one.
LEMMA InsertRowUserInv ==
  ASSUME UserInv, NEW r \in UserRequests, InsertRow(r)
  PROVE  UserInv'
<1>0. /\ req[r].at = "insert" /\ req[r] \in UserCall /\ CallShape(req[r]) /\ UserTypes
      /\ UNCHANGED <<mailbox, zitadel, userFaults>>
      /\ disturbed \subseteq disturbed' /\ disturbed' \subseteq RowIds
      /\ req[r].identity \in Identities /\ zitadel[req[r].identity] # "unborn"
      /\ req[r].email \in MailAddress \cup {""}
  <2>1. Meets(r, req[r].email)
    BY DEF InsertRow
  <2> QED BY <2>1, WorkingCall, MeetsFacts DEF InsertRow, UserInv, UserCall
<1>1. CASE RequestGoes(r, "recover") /\ UNCHANGED users
  <2>1. /\ CallMoves(r) /\ req'[r].at = "recover" /\ req'[r].op = req[r].op
        /\ req'[r].row = req[r].row /\ req'[r].identity = req[r].identity
        /\ req'[r].email = req[r].email
    BY <1>0, <1>1, GoesFacts DEF Seeking
  <2>2. CallShape(req[r])'
    BY <1>0, <2>1 DEF CallShape, Seeking, OnRow, Erasing
  <2>3. UsersGrow
    BY <1>0, <1>1, NothingWritten DEF UserTypes
  <2> QED BY <1>0, <1>1, <2>1, <2>2, <2>3, UserInvAfter
<1>2. ASSUME NEW i \in RowIds, ~IsRow(i), Resolved(r, i), users' \in [RowIds -> UserRow],
             \A j \in RowIds \ {i} : users'[j] = users[j],
             users'[i].identity = req[r].identity, users'[i].email = req[r].email,
             users'[i].erased = "",
             \A j \in RowIds : IsRow(j) =>
               users[j].email # req[r].email /\ users[j].identity # req[r].identity
      PROVE  UserInv'
  <2>1. IsRow(i)' /\ users'[i].email \notin RowIds
    BY <1>0, <1>2, UserValues DEF IsRow
  <2>2. \A j \in RowIds \ {i} : IsRow(j)' <=> IsRow(j)
    BY <1>2 DEF IsRow
  <2>3. RowsUnique'
    <3>1. \A j \in RowIds : users'[j].email = "vacant" => users'[j] = Vacant
      BY <1>2, <2>1 DEF UserInv, RowsUnique, IsRow
    <3>2. \A j, k \in RowIds : j # k /\ IsRow(j)' /\ IsRow(k)' =>
            /\ users'[j].email # users'[k].email
            /\ users'[j].identity = users'[k].identity => users'[j].identity = ""
      <4> SUFFICES ASSUME NEW j \in RowIds, NEW k \in RowIds, j # k, IsRow(j)', IsRow(k)'
                   PROVE  /\ users'[j].email # users'[k].email
                          /\ users'[j].identity = users'[k].identity => users'[j].identity = ""
        OBVIOUS
      <4>1. CASE j = i
        BY <1>2, <2>2, <4>1
      <4>2. CASE k = i
        BY <1>2, <2>2, <4>2
      <4>3. CASE j # i /\ k # i
        <5>1. users'[j] = users[j] /\ users'[k] = users[k]
          BY <1>2, <4>3
        <5>2. IsRow(j) /\ IsRow(k) /\ RowsUnique
          BY <5>1 DEF IsRow, UserInv
        <5> QED BY <5>1, <5>2 DEF RowsUnique
      <4> QED BY <4>1, <4>2, <4>3
    <3>3. \A j \in RowIds \ disturbed' : users'[j].email \in RowIds => users'[j].email = j
      BY <1>0, <1>2, <2>1 DEF UserInv, RowsUnique
    <3> QED BY <3>1, <3>2, <3>3 DEF RowsUnique
  <2>4. req[r].at \in Seeking /\ userFaults' \in Nat /\ \A j \in RowIds : IsRow(j) => IsRow(j)'
    BY <1>0, <2>1, <2>2 DEF Seeking, UserTypes
  <2> QED BY <1>0, <1>2, <2>1, <2>3, <2>4, FoundUserInv
<1> QED BY <1>1, <1>2, InsertFacts

\* The loser of a race finds a row, or none.
LEMMA RecoverFacts ==
  ASSUME UserInv, NEW r \in UserRequests, Recover(r)
  PROVE  /\ UNCHANGED <<mailbox, zitadel, users>> /\ Meets(r, req[r].email)
         /\ req[r].at = "recover" /\ (userFaults' = userFaults \/ UserFault)
         /\ \/ \E i \in RowIds : /\ IsRow(i) /\ Resolved(r, i)
                                 /\ \/ users[i].identity = req[r].identity
                                    \/ /\ users[i].email = req[r].email
                                       /\ UserFault \/ \A j \in RowIds : IsRow(j) =>
                                                         users[j].identity # req[r].identity
            \/ /\ AnswerRequest(r, "error", NoRow)
               /\ UserFault \/ \A j \in RowIds : IsRow(j) => users[j].identity # req[r].identity
<1> DEFINE byIdentity == FindByZitadelID(req[r].identity)
           byEmail == IF req[r].email = "" THEN {} ELSE FindByEmail(req[r].email)
           Seen == IF byIdentity # {} THEN byIdentity ELSE byEmail
<1>1. \A i \in RowIds : i \in byIdentity <=> IsRow(i) /\ users[i].identity = req[r].identity
  BY RowsThere DEF FindByZitadelID, UserInv
<1>2. \A i \in byEmail : i \in RowIds /\ IsRow(i) /\ users[i].email = req[r].email
  BY RowsThere DEF FindByEmail, UserInv
<1>3. byIdentity \subseteq RowIds
  BY DEF FindByZitadelID
<1>4. \/ /\ IF Seen # {} THEN \E i \in Seen : Resolved(r, i) ELSE AnswerRequest(r, "error", NoRow)
         /\ userFaults' = userFaults
      \/ (\E i \in byEmail : Resolved(r, i)) /\ UserFault
      \/ AnswerRequest(r, "error", NoRow) /\ UserFault
  BY DEF Recover
<1>5. UNCHANGED <<mailbox, zitadel, users>> /\ Meets(r, req[r].email) /\ req[r].at = "recover"
  BY DEF Recover
<1> HIDE DEF byIdentity, byEmail
<1>6. CASE /\ IF Seen # {} THEN \E i \in Seen : Resolved(r, i) ELSE AnswerRequest(r, "error", NoRow)
           /\ userFaults' = userFaults
  BY <1>1, <1>2, <1>3, <1>5, <1>6
<1>7. CASE (\E i \in byEmail : Resolved(r, i)) /\ UserFault
  BY <1>2, <1>5, <1>7
<1>8. CASE AnswerRequest(r, "error", NoRow) /\ UserFault
  BY <1>5, <1>8
<1> QED BY <1>4, <1>6, <1>7, <1>8

\* Recovering keeps the invariant.
LEMMA RecoverUserInv ==
  ASSUME UserInv, NEW r \in UserRequests, Recover(r)
  PROVE  UserInv'
<1>0. /\ req[r].at = "recover" /\ UserTypes
      /\ UNCHANGED <<mailbox, zitadel, users>> /\ userFaults' \in Nat
      /\ disturbed \subseteq disturbed' /\ disturbed' \subseteq RowIds
  BY RecoverFacts, MeetsFacts DEF UserInv, UserTypes, UserFault
<1>1. ASSUME NEW i \in RowIds, IsRow(i), Resolved(r, i) PROVE UserInv'
  BY <1>0, <1>1, ResolvedUserInv DEF UserTypes, Seeking
<1>2. CASE AnswerRequest(r, "error", NoRow)
  BY <1>0, <1>2, AnswerUserInv DEF UserTypes
<1> QED BY <1>1, <1>2, RecoverFacts

\* Reading the row to edit or erase keeps it: the copy is what the row says.
LEMMA LoadUserInv ==
  ASSUME UserInv, NEW r \in UserRequests, LoadUser(r)
  PROVE  UserInv'
<1>0. /\ req[r].at = "load" /\ req[r] \in UserCall /\ CallShape(req[r]) /\ UserTypes
      /\ UNCHANGED <<mailbox, zitadel, users, disturbed, userFaults>>
      /\ req[r].identity \in Identities /\ zitadel[req[r].identity] # "unborn"
  BY WorkingCall DEF LoadUser, UserInv, OnlyReq
<1>1. /\ CallMoves(r) /\ req'[r].identity = req[r].identity /\ req'[r].row = req[r].row
      /\ req'[r].op = req[r].op /\ req'[r].copy = users[req[r].row]
      /\ req'[r].at \in {"store", "dropIdentity"}
  BY LoadFacts
<1>2. UsersGrow
  BY <1>0, NothingWritten DEF UserTypes
<1>3. PICK i \in RowIds : i = req[r].row /\ IsRow(i)
  BY <1>0 DEF CallShape, OnRow
<1>4. CallShape(req[r])'
  <2>1. CopyOf(req[r])' /\ IsRow(i)'
    BY <1>0, <1>1, <1>3 DEF CopyOf, IsRow, UserInv, RowsUnique
  <2>2. req[r].op \in {"update", "delete"}
    BY <1>0 DEF CallShape, OnRow
  <2> QED BY <1>0, <1>1, <1>3, <2>1, <2>2 DEF CallShape, Seeking, OnRow, Erasing
<1>5. \A j \in RowIds : users[j].erased # "" /\ j \notin disturbed' /\ req'[r].row = j =>
        /\ req'[r].at \notin {"enrich", "link"}
        /\ req'[r].copy.identity = users[j].identity /\ ErasedRow(req'[r].copy, j)
  <2> SUFFICES ASSUME NEW j \in RowIds, users[j].erased # "", j \notin disturbed', req'[r].row = j
               PROVE  /\ req'[r].at \notin {"enrich", "link"}
                      /\ req'[r].copy.identity = users[j].identity /\ ErasedRow(req'[r].copy, j)
    OBVIOUS
  <2>1. j = req[r].row /\ req'[r].copy = users[j] /\ j \notin disturbed
    BY <1>0, <1>1
  <2>2. ErasedRow(users[j], j)
    BY <2>1 DEF UserInv, ErasedKept
  <2> QED BY <1>1, <2>1, <2>2 DEF ErasedRow
<1> QED BY <1>0, <1>1, <1>2, <1>4, <1>5, UserInvAfter

\* updateMe keeps it: it writes what it read, or what was typed, to a row of the same identity.
LEMMA UpdateMeUserInv ==
  ASSUME UserInv, NEW r \in UserRequests, UpdateMe(r)
  PROVE  UserInv'
<1>0. /\ req[r].at = "store" /\ req[r] \in UserCall /\ CallShape(req[r]) /\ UserTypes
      /\ UNCHANGED <<mailbox, zitadel, userFaults>>
      /\ req[r].identity \in Identities /\ zitadel[req[r].identity] # "unborn"
  BY WorkingCall DEF UpdateMe, UserInv
<1>1. CASE AnswerRequest(r, "refused", NoRow) /\ UNCHANGED <<users, disturbed>>
  BY <1>0, <1>1, AnswerUserInv DEF UserTypes
<1>2. ASSUME NEW u \in {req[r].copy} \cup
                         {[req[r].copy EXCEPT !.email = e, !.name = "typed"] : e \in EditedEmails},
             ~Clashes(req[r].row, u), users' = WriteBack(req[r].row, u),
             AnswerRequest(r, "ok", req[r].row),
             disturbed' = IF u.email # req[r].copy.email /\ Foreign(u.email, req[r].copy.identity)
                          THEN disturbed \cup {req[r].row} ELSE disturbed
      PROVE  UserInv'
  <2>1. PICK i \in RowIds : i = req[r].row
    BY <1>0 DEF CallShape, CopyOf
  <2>2. /\ IsRow(i) /\ req[r].copy \in UserRow /\ req[r].copy.email # "vacant"
        /\ req[r].copy.email \in RowIds => req[r].copy.email = i \/ i \in disturbed
    BY <1>0, <2>1 DEF CallShape, CopyOf, UserCall
  <2>3. /\ u \in UserRow /\ u.identity = req[r].copy.identity
        /\ \/ u.email = req[r].copy.email /\ u.name = req[r].copy.name
           \/ u.email \in EditedEmails /\ u.name = "typed"
    BY <2>2 DEF UserRow, RowEmail
  <2>4. /\ u.email # "vacant" /\ disturbed \subseteq disturbed'
        /\ u.email \in RowIds => u.email = i \/ i \in disturbed'
    <3>1. u.email # "vacant" /\ disturbed \subseteq disturbed'
      BY <1>2, <2>2, <2>3, UserValues
    <3>2. u.email \in RowIds /\ u.email # req[r].copy.email => i \in disturbed'
      <4>1. WorkingMailbox
        BY WorkingMailboxes
      <4> QED BY <1>2, <2>1, <4>1, UserValues DEF Foreign, WorkingMailbox
    <3> QED BY <2>2, <3>1, <3>2
  <2>5. /\ users' \in [RowIds -> UserRow] /\ RowsUnique'
        /\ \A j \in RowIds \ {i} : users'[j] = users[j]
        /\ users'[i].identity = u.identity /\ users'[i].email = u.email
        /\ users'[i].name = u.name /\ users'[i].erased = users[i].erased
        /\ \A j \in RowIds : IsRow(j)' <=> IsRow(j)
    BY <1>2, <2>1, <2>2, <2>3, <2>4, WriteBackFacts
  <2>6. UsersGrow
    BY <1>0, <1>2, <2>1, <2>5 DEF UsersGrow, UserTypes
  <2>7. /\ CallMoves(r) /\ req'[r].identity = req[r].identity /\ req'[r].row = i
        /\ req'[r].at = "ended" /\ req'[r].op = "ok"
    BY <1>0, <1>2, <2>1, AnswerFacts
  <2>8. CallShape(req[r])'
    BY <1>0, <2>7 DEF CallShape, Seeking, OnRow, Erasing
  <2>9. users'[i].erased # "" /\ i \notin disturbed' =>
          /\ users'[i].identity = users'[i].erased /\ ErasedRow(users'[i], i)
          /\ zitadel'[users'[i].erased] = "gone"
          /\ \A s \in UserRequests \ {r} : req[s].row = i =>
               /\ req[s].at \notin {"enrich", "link"}
               /\ req[s].at = "store" =>
                    req[s].copy.identity = users'[i].identity /\ ErasedRow(req[s].copy, i)
    <3> SUFFICES ASSUME users[i].erased # "", i \notin disturbed'
                 PROVE  /\ users'[i].identity = users[i].erased /\ ErasedRow(users'[i], i)
                        /\ zitadel[users[i].erased] = "gone"
                        /\ \A s \in UserRequests \ {r} : req[s].row = i =>
                             /\ req[s].at \notin {"enrich", "link"}
                             /\ req[s].at = "store" =>
                                  req[s].copy.identity = users'[i].identity
                                  /\ ErasedRow(req[s].copy, i)
      BY <1>0, <2>5
    <3>0. i \notin disturbed
          /\ ~(u.email # req[r].copy.email /\ Foreign(u.email, req[r].copy.identity))
      BY <1>2, <2>1
    <3>1. /\ users[i].identity = users[i].erased /\ zitadel[users[i].erased] = "gone"
          /\ \A s \in UserRequests : req[s].row = i =>
               /\ req[s].at \notin {"enrich", "link"}
               /\ req[s].at = "store" =>
                    req[s].copy.identity = users[i].identity /\ ErasedRow(req[s].copy, i)
      BY <3>0 DEF UserInv, ErasedKept
    <3>2. req[r].copy.identity = users[i].identity /\ ErasedRow(req[r].copy, i)
      BY <1>0, <2>1, <3>1
    <3>3. u.email \in EditedEmails /\ u.email # req[r].copy.email => u.email \in Plain
      BY <3>0, <3>1, <3>2 DEF Foreign, Alive, Plain
    <3>4. ErasedRow(users'[i], i)
      BY <2>3, <2>5, <3>2, <3>3 DEF ErasedRow
    <3> QED BY <2>3, <2>5, <3>1, <3>2, <3>4
  <2> QED BY <2>5, <2>6, <2>7, <2>8, <2>9, UserInvWritten
<1> QED BY <1>1, <1>2 DEF UpdateMe

\* Deleting the identity keeps it: whatever was gone stays gone.
LEMMA DropIdentityUserInv ==
  ASSUME UserInv, NEW r \in UserRequests, DropIdentity(r)
  PROVE  UserInv'
<1>0. /\ req[r].at = "dropIdentity" /\ req[r] \in UserCall /\ CallShape(req[r]) /\ UserTypes
      /\ UNCHANGED <<mailbox, users, disturbed, userFaults>> /\ RequestGoes(r, "anonymise")
      /\ zitadel' = [z \in Identities |-> IF z = req[r].copy.identity THEN "gone" ELSE zitadel[z]]
      /\ req[r].identity \in Identities /\ zitadel[req[r].identity] # "unborn"
  BY WorkingCall DEF DropIdentity, UserInv
<1>1. UsersGrow
  BY <1>0 DEF UsersGrow, UserTypes, IsRow
<1>2. /\ CallMoves(r) /\ req'[r].at = "anonymise" /\ req'[r].op = req[r].op
      /\ req'[r].identity = req[r].identity /\ req'[r].row = req[r].row
      /\ req'[r].copy = req[r].copy
  BY <1>0, GoesFacts DEF OnRow, Erasing
<1>3. req[r].copy.identity \in Identities \cup {""}
  BY <1>0 DEF UserCall, UserRow
<1>4. req[r].copy.identity # "" => zitadel'[req[r].copy.identity] = "gone"
  BY <1>0, <1>3
<1>5. zitadel'[req[r].identity] # "unborn" /\ (req[r].row \in RowIds => users' = users)
  BY <1>0, <1>1 DEF UsersGrow
<1>6. CallShape(req[r])'
  BY <1>0, <1>2, <1>4, <1>5 DEF CallShape, Seeking, OnRow, Erasing, IsRow
<1> QED BY <1>0, <1>1, <1>2, <1>6, UserInvAfter

\* Erasing keeps it: where no other request overlaps, nobody is left to write the row back,
\* and it is the identity that was deleted that stays on it.
LEMMA AnonymisedUserInv ==
  ASSUME UserInv, NEW r \in UserRequests, Anonymise(r),
         ~ClashesByEmail(req[r].row, Anonymised(req[r].row))
  PROVE  UserInv'
<1>0. /\ req[r].at = "anonymise" /\ req[r] \in UserCall /\ CallShape(req[r]) /\ UserTypes
      /\ UNCHANGED <<mailbox, zitadel, userFaults>> /\ RequestGoes(r, "dropPushTokens")
      /\ disturbed' = IF Raced(r) THEN disturbed \cup {req[r].row} ELSE disturbed
      /\ users' = [users EXCEPT ![req[r].row] = Anonymised(req[r].row)]
      /\ req[r].identity \in Identities /\ zitadel[req[r].identity] # "unborn"
  BY WorkingCall DEF Anonymise, UserInv
<1>1. PICK i \in RowIds : i = req[r].row /\ IsRow(i)
  BY <1>0 DEF CallShape, OnRow, Erasing
<1>2. PICK w : w = Anonymised(i)
  OBVIOUS
<1>3. /\ w \in UserRow /\ w.identity = users[i].identity /\ w.email = i /\ w.name = "Anonyme"
      /\ w.erased = users[i].identity
  BY <1>0, <1>1, <1>2 DEF Anonymised, AnonymisedWithoutSub, Deleted, UserTypes, UserRow, RowEmail
<1>4. \A j \in RowIds \ {i} : IsRow(j) => users[j].email # i
  BY <1>1, <1>2, <1>3, RowsThere DEF ClashesByEmail, UserInv
<1>5. /\ users' \in [RowIds -> UserRow] /\ users'[i] = w
      /\ \A j \in RowIds \ {i} : users'[j] = users[j]
  BY <1>0, <1>1, <1>2, <1>3 DEF UserTypes
<1>6. \A j \in RowIds : IsRow(j)' <=> IsRow(j)
  BY <1>1, <1>3, <1>5, UserValues DEF IsRow
<1>7. RowsUnique'
  <2>1. ASSUME NEW j \in RowIds, users'[j].email = "vacant" PROVE users'[j] = Vacant
    <3>1. j # i
      BY <1>3, <1>5, <2>1, UserValues
    <3>2. users'[j] = users[j]
      BY <1>5, <3>1
    <3> QED BY <2>1, <3>2 DEF UserInv, RowsUnique
  <2>2. \A j, k \in RowIds : j # k /\ IsRow(j)' /\ IsRow(k)' =>
          /\ users'[j].email # users'[k].email
          /\ users'[j].identity = users'[k].identity => users'[j].identity = ""
    <3> SUFFICES ASSUME NEW j \in RowIds, NEW k \in RowIds, j # k, IsRow(j), IsRow(k)
                 PROVE  /\ users'[j].email # users'[k].email
                        /\ users'[j].identity = users'[k].identity => users'[j].identity = ""
      BY <1>6
    <3>1. /\ users[j].identity = users[k].identity => users[j].identity = ""
          /\ users[j].email # users[k].email
      BY DEF UserInv, RowsUnique
    <3>2. users'[j].identity = users[j].identity /\ users'[k].identity = users[k].identity
      BY <1>3, <1>5
    <3>3. users'[j].email # users'[k].email
      <4>1. CASE j = i
        BY <1>4, <1>3, <1>5, <4>1
      <4>2. CASE k = i
        BY <1>4, <1>3, <1>5, <4>2
      <4>3. CASE j # i /\ k # i
        BY <1>5, <3>1, <4>3
      <4> QED BY <4>1, <4>2, <4>3
    <3> QED BY <3>1, <3>2, <3>3
  <2>3. ASSUME NEW j \in RowIds \ disturbed', users'[j].email \in RowIds PROVE users'[j].email = j
    <3>1. CASE j = i
      BY <1>3, <1>5, <3>1
    <3>2. CASE j # i
      <4>1. users'[j] = users[j] /\ j \notin disturbed
        BY <1>0, <1>5, <3>2
      <4> QED BY <2>3, <4>1 DEF UserInv, RowsUnique
    <3> QED BY <3>1, <3>2
  <2> QED BY <2>1, <2>2, <2>3 DEF RowsUnique
<1>8. UsersGrow
  BY <1>0, <1>1, <1>6 DEF UsersGrow, UserTypes
<1>9. /\ CallMoves(r) /\ req'[r].at = "dropPushTokens" /\ req'[r].op = req[r].op
      /\ req'[r].identity = req[r].identity /\ req'[r].row = i
  BY <1>0, <1>1, GoesFacts DEF OnRow, Erasing
<1>10. CallShape(req[r])'
  BY <1>0, <1>1, <1>6, <1>9 DEF CallShape, Seeking, OnRow, Erasing, IsRow
<1>11. users'[i].erased # "" /\ i \notin disturbed' =>
         /\ users'[i].identity = users'[i].erased /\ ErasedRow(users'[i], i)
         /\ zitadel'[users'[i].erased] = "gone"
         /\ \A s \in UserRequests \ {r} : req[s].row = i =>
              /\ req[s].at \notin {"enrich", "link"}
              /\ req[s].at = "store" =>
                   req[s].copy.identity = users'[i].identity /\ ErasedRow(req[s].copy, i)
  <2> SUFFICES ASSUME users'[i].erased # "", i \notin disturbed'
               PROVE  /\ users'[i].identity = users'[i].erased /\ ErasedRow(users'[i], i)
                      /\ zitadel'[users'[i].erased] = "gone"
                      /\ \A s \in UserRequests : req[s].row = i =>
                           req[s].at \notin {"enrich", "link", "store"}
    OBVIOUS
  <2>1. ~Raced(r)
    BY <1>0, <1>1
  <2>2. /\ users[i].identity = req[r].copy.identity
        /\ \A s \in UserRequests : req[s].row = i => req[s].at \notin {"enrich", "link", "store"}
    BY <1>1, <2>1 DEF Raced
  <2>3. zitadel[users[i].identity] = "gone"
    BY <1>0, <1>3, <1>5, <2>2 DEF CallShape
  <2> QED BY <1>0, <1>3, <1>5, <2>2, <2>3 DEF ErasedRow
<1>12. req'[r].at \notin {"enrich", "link", "store"}
  BY <1>9
<1> QED BY <1>5, <1>7, <1>8, <1>9, <1>10, <1>11, <1>12, UserInvWritten

\* An erasure that the unique address refuses keeps it as well.
LEMMA AnonymiseUserInv ==
  ASSUME UserInv, NEW r \in UserRequests, Anonymise(r)
  PROVE  UserInv'
<1>1. CASE ~ClashesByEmail(req[r].row, Anonymised(req[r].row))
  BY <1>1, AnonymisedUserInv
<1>2. CASE AnswerRequest(r, "error", NoRow) /\ UNCHANGED <<users, disturbed>>
  <2>1. /\ req[r].at = "anonymise" /\ UNCHANGED <<mailbox, zitadel, userFaults>>
        /\ disturbed \subseteq RowIds /\ userFaults \in Nat
    BY DEF Anonymise, UserInv, UserTypes
  <2> QED BY <1>2, <2>1, AnswerUserInv
<1> QED BY <1>1, <1>2 DEF Anonymise

\* A request that begins keeps it.
LEMMA BeginsFacts ==
  ASSUME UserInv, NEW r \in UserRequests, NEW z \in Identities, RequestBegins(r, z)
  PROVE  /\ CallMoves(r) /\ UNCHANGED <<mailbox, zitadel, users, disturbed, userFaults>>
         /\ req[r] = NotBegun /\ zitadel[z] # "unborn"
         /\ req'[r].at = "findIdentity" /\ req'[r].identity = z /\ req'[r].row = NoRow
         /\ req'[r].op \in {"read", "update", "delete"} /\ req'[r].email \in {"", mailbox[z]}
<1>0. UserTypes /\ mailbox[z] \in MailAddress /\ req[r] = NotBegun /\ zitadel[z] # "unborn"
  <2>1. mailbox \in Mailboxes
    BY DEF UserInv, UserTypes
  <2> QED BY <2>1 DEF UserInv, MailAddress, RequestBegins
<1>1. PICK op \in {"read", "update", "delete"}, email \in {"", mailbox[z]}, name \in {"", "real"} :
        SetRequest(r, [NotBegun EXCEPT !.op = op, !.at = "findIdentity", !.identity = z,
                                       !.email = email, !.name = name])
  BY DEF RequestBegins
<1> DEFINE c == [NotBegun EXCEPT !.op = op, !.at = "findIdentity", !.identity = z,
                                 !.email = email, !.name = name]
<1>2. /\ c \in UserCall /\ c.at = "findIdentity" /\ c.identity = z /\ c.row = NoRow /\ c.op = op
      /\ c.email = email
  BY <1>0, UserValues DEF UserCall, NotBegun, Seeking
<1>3. SetRequest(r, c)
  BY <1>1
<1> HIDE DEF c
<1>4. CallMoves(r) /\ req'[r] = c
  BY <1>0, <1>2, <1>3, SetFacts
<1> QED BY <1>0, <1>2, <1>4 DEF RequestBegins, OnlyReq

\* Every step keeps the invariant.
LEMMA NextUserInv == UserInv /\ [UserNext]_userVars => UserInv'
<1> SUFFICES ASSUME UserInv, [UserNext]_userVars PROVE UserInv'
  OBVIOUS
<1>1. ASSUME NEW z \in Identities, LogIn(z) PROVE UserInv'
  <2>1. UsersGrow /\ UNCHANGED <<users, req, disturbed>>
    BY <1>1 DEF LogIn, UsersGrow, UserInv, UserTypes, IsRow
  <2>2. UserTypes'
    BY <2>1 DEF UsersGrow, UserInv, UserTypes
  <2>3. RowsUnique'
    BY <2>1 DEF UserInv, RowsUnique, IsRow
  <2>4. CallsShaped'
    BY <2>1, StillShaped DEF CallsShaped
  <2>5. ErasedKept'
    <3>1. \A i \in RowIds : users[i].erased \in Identities \cup {""}
      BY DEF UserInv, UserTypes, UserRow
    <3> QED BY <2>1, <3>1 DEF UserInv, ErasedKept, UsersGrow, ErasedRow
  <2> QED BY <2>2, <2>3, <2>4, <2>5 DEF UserInv
<1>2. ASSUME NEW z \in Identities, NEW r \in UserRequests, RequestBegins(r, z) PROVE UserInv'
  <2>1. /\ CallMoves(r) /\ UNCHANGED <<mailbox, zitadel, users, disturbed, userFaults>>
        /\ zitadel[z] # "unborn"
        /\ req'[r].at = "findIdentity" /\ req'[r].identity = z /\ req'[r].row = NoRow
        /\ req'[r].op \in {"read", "update", "delete"} /\ req'[r].email \in {"", mailbox[z]}
    BY <1>2, BeginsFacts
  <2>2. UsersGrow
    BY <2>1, NothingWritten DEF UserInv, UserTypes
  <2>3. CallShape(req[r])'
    BY <2>1 DEF CallShape, Seeking, OnRow, Erasing
  <2> QED BY <2>1, <2>2, <2>3, UserInvAfter
<1>3. ASSUME NEW r \in UserRequests, DropPushTokens(r) PROVE UserInv'
  <2>1. /\ req[r].at = "dropPushTokens" /\ req[r].row \in RowIds /\ userFaults \in Nat
        /\ disturbed \subseteq RowIds
    BY <1>3 DEF DropPushTokens, UserInv, UserTypes, CallsShaped, CallShape, OnRow, Erasing
  <2> QED BY <1>3, <2>1, AnswerUserInv DEF DropPushTokens
<1>4. ASSUME NEW r \in UserRequests, Fails(r), req[r].at # "waiting" PROVE UserInv'
  <2>1. userFaults' \in Nat /\ disturbed \subseteq RowIds
    BY <1>4 DEF Fails, UserFault, UserInv, UserTypes
  <2> QED BY <1>4, <2>1, AnswerUserInv DEF Fails
<1>5. CASE UNCHANGED userVars
  <2>1. /\ mailbox' = mailbox /\ zitadel' = zitadel /\ users' = users /\ req' = req
        /\ disturbed' = disturbed /\ userFaults' = userFaults
    BY <1>5 DEF userVars
  <2>2. UserTypes' /\ RowsUnique'
    BY <2>1 DEF UserInv, UserTypes, RowsUnique, IsRow
  <2>3. UsersGrow
    BY <2>1, NothingWritten DEF UserInv, UserTypes
  <2>4. CallsShaped'
    BY <2>1, <2>3, StillShaped DEF CallsShaped
  <2>5. ErasedKept'
    <3>1. ErasedKept
      BY DEF UserInv
    <3> QED BY <2>1, <3>1 DEF ErasedKept, ErasedRow
  <2> QED BY <2>2, <2>4, <2>5 DEF UserInv
<1>6. ASSUME NEW r \in UserRequests, UserStep(r) PROVE UserInv'
  BY <1>3, <1>4, <1>6, FindIdentityUserInv, EnrichUserInv, FindEmailUserInv, LinkRowUserInv,
     InsertRowUserInv, RecoverUserInv, LoadUserInv, UpdateMeUserInv, DropIdentityUserInv,
     AnonymiseUserInv
  DEF UserStep
<1> QED BY <1>1, <1>2, <1>5, <1>6 DEF UserNext

\* The invariant of rows and requests.
LEMMA AlwaysUserInv == UserSpec => []UserInv
BY InitUserInv, NextUserInv, PTL DEF UserSpec

\* However deletions, first requests, edits and outliving tokens interleave, fail half-way
\* and are repeated: a row that was erased without another request overlapping it holds
\* nothing of its owner, the owner gets no second row, and nobody can sign in to it.
THEOREM ErasureStands == UserSpec => []ErasureHolds
<1>1. UserInv => ErasureHolds
  <2> SUFFICES ASSUME UserInv, NEW i \in RowIds, users[i].erased # "", i \notin disturbed
               PROVE  /\ users[i].email \in {Deleted(i)} \cup EditedEmails
                      /\ users[i].name \in {"Anonyme", "typed"}
                      /\ \A j \in RowIds : users[j] # Vacant /\ users[j].erased = "" =>
                           users[j].identity # users[i].erased
                      /\ \A z \in Identities : users[i].identity = z => ~Alive(z)
    BY DEF ErasureHolds, ErasedStaysErased, WipedCannotLogIn
  <2>1. /\ users[i].identity = users[i].erased /\ ErasedRow(users[i], i)
        /\ zitadel[users[i].erased] = "gone"
    BY DEF UserInv, ErasedKept
  <2>2. IsRow(i)
    BY <2>1, UserValues DEF ErasedRow, IsRow, Plain
  <2>3. ASSUME NEW j \in RowIds, users[j] # Vacant, users[j].erased = ""
        PROVE  users[j].identity # users[i].erased
    <3>1. IsRow(j) /\ j # i
      BY <2>3, RowsThere DEF UserInv
    <3> QED BY <2>1, <2>2, <3>1 DEF UserInv, RowsUnique
  <2>4. ASSUME NEW z \in Identities, users[i].identity = z PROVE ~Alive(z)
    BY <2>1, <2>4 DEF Alive
  <2> QED BY <2>1, <2>3, <2>4 DEF ErasedRow, Deleted, Plain
<1> QED BY <1>1, AlwaysUserInv, PTL
-----------------------------------------------------------------------------
(* One account each                                                        *)

Quiet == userFaults = 0 /\ disturbed = {}

Born(z) == zitadel[z] # "unborn"
Gone(z) == zitadel[z] = "gone"
Complete(u) == u.email # "" /\ u.name # ""

\* A mailbox has one living identity.
OneAlive ==
  \A y, z \in Identities : y # z /\ mailbox[y] = mailbox[z] => ~(Alive(y) /\ Alive(z))

\* The rows: an address of Zitadel is that of the identity; a migrated row keeps its own.
RowsMailed ==
  \A i \in RowIds : IsRow(i) =>
    LET z == users[i].identity IN
    IF z = "" THEN users[i].email \in MailAddress /\ users[i].erased = ""
    ELSE /\ Born(z)
         /\ users[i].email \in MailAddress => users[i].email = mailbox[z]
         /\ ~Gone(z) => Complete(users[i])

\* Whoever is gone keeps the row, erased or about to be.
GoneKept ==
  \A z \in Identities : Gone(z) => \E k \in RowIds :
    /\ users[k].identity = z
    /\ \/ users[k].erased = z
       \/ \E s \in UserRequests : req[s].at = "anonymise" /\ req[s].row = k

\* A row that no identity has yet, of the address of one that has another row: that
\* identity is gone.
UnlinkedMet ==
  \A i, j \in RowIds : IsRow(i) /\ users[i].identity = "" /\ users[j].identity # ""
    /\ users[i].email = mailbox[users[j].identity] => Gone(users[j].identity)

\* Where nothing fails and no erasure is overlapped, what a request knows stays so.
CallQuiet(c) ==
  LET z == c.identity IN
  /\ c.at \in OnRow \/ (c.at = "ended" /\ c.row # NoRow) => users[c.row].identity = z
  /\ c.at \in {"store", "dropIdentity", "anonymise"} =>
       /\ c.copy.identity = z /\ (c.copy.email \in MailAddress => c.copy.email = mailbox[z])
       /\ ~Gone(z) => Complete(c.copy)
  /\ c.at = "enrich" /\ c.row # NoRow =>
       /\ Gone(z) /\ users[c.row].identity = z
       /\ c.copy.email \in MailAddress => c.copy.email = mailbox[z]
  /\ c.at \in {"findEmail", "insert"} =>
       Gone(z) \/ (c.email = mailbox[z] /\ c.name # "")
  /\ c.at = "link" =>
       /\ c.copy.email \in MailAddress => c.copy.email = mailbox[z]
       /\ Gone(z) \/ (c.copy.email = mailbox[z] /\ c.copy.name # "")
       /\ LET y == users[c.row].identity IN
            \/ y = z
            \/ y = "" /\ users[c.row].email = mailbox[z]
            \/ y # "" /\ mailbox[y] = mailbox[z] /\ Gone(z)
  /\ c.at \in {"insert", "recover"} /\ c.email # "" =>
       \A i \in RowIds : IsRow(i) /\ users[i].identity = "" => users[i].email # c.email
  /\ c.at = "recover" => \E i \in RowIds : users[i].identity = z
  /\ c.op = "error" => Gone(z)

CallsQuiet == \A r \in UserRequests : CallQuiet(req[r])

Accounts == OneAlive /\ RowsMailed /\ GoneKept /\ UnlinkedMet /\ CallsQuiet
QuietInv == Quiet => Accounts

\* What no step takes from a row while nothing overlaps: its identity; and a row without
\* one is as it was.
RowsKept ==
  /\ mailbox' = mailbox
  /\ \A z \in Identities : Gone(z) => Gone(z)'
  /\ \A j \in RowIds : IsRow(j) => IsRow(j)'
  /\ \A j \in RowIds : users[j].identity # "" => users'[j].identity = users[j].identity
  /\ \A j \in RowIds : IsRow(j)' /\ users'[j].identity = "" => IsRow(j) /\ users'[j] = users[j]

\* What a request knows of the row it is to link.
LinkKnows(z, i) ==
  LET y == users[i].identity IN
  \/ y = z
  \/ y = "" /\ users[i].email = mailbox[z]
  \/ y # "" /\ mailbox[y] = mailbox[z] /\ Gone(z)

\* A request that stays where it is still knows what it knew.
LEMMA StillQuiet ==
  ASSUME UserInv, RowsKept, NEW q \in UserRequests, CallQuiet(req[q]), req'[q] = req[q],
         req[q].at = "link" => LinkKnows(req[q].identity, req[q].row)'
  PROVE  CallQuiet(req[q])'
<1>1. PICK c \in UserCall : c = req[q] /\ c = req'[q]
  BY DEF UserInv, UserTypes
<1>2. CASE c.at \in {"waiting", "findIdentity"}
  <2>1. c.op # "error" \/ Gone(c.identity)
    BY <1>1 DEF CallQuiet
  <2>2. c.at = "waiting" => c.op = "none"
    BY <1>1, UserValues DEF UserInv, CallsShaped, CallShape
  <2>3. c.at = "findIdentity" => c.op # "error"
    BY <1>1 DEF UserInv, CallsShaped, CallShape, Seeking
  <2> QED BY <1>1, <1>2, <2>2, <2>3 DEF CallQuiet, OnRow, Erasing
<1>3. CASE c.at \notin {"waiting", "findIdentity"}
  <2>1. PICK z \in Identities : z = c.identity
    BY <1>1, <1>3 DEF UserInv, CallsShaped, CallShape
  <2>2. z # "" /\ mailbox'[z] = mailbox[z] /\ (Gone(z) => Gone(z)')
    BY UserValues DEF RowsKept
  <2>3. c.row # NoRow => c.row \in RowIds
    BY DEF UserCall
  <2>4. /\ c.at \in OnRow => c.row \in RowIds
        /\ c.at = "enrich" /\ c.row # NoRow => c.row \in RowIds
    BY <1>1, <2>3 DEF UserInv, CallsShaped, CallShape
  <2>5. c.at \in OnRow \/ (c.at = "ended" /\ c.row # NoRow) => users'[c.row].identity = z
    BY <1>1, <2>1, <2>2, <2>3, <2>4 DEF CallQuiet, RowsKept
  <2>6. c.at = "enrich" /\ c.row # NoRow => Gone(z)' /\ users'[c.row].identity = z
    BY <1>1, <2>1, <2>2, <2>4 DEF CallQuiet, RowsKept
  <2>7. c.at \in {"insert", "recover"} /\ c.email # "" =>
          \A i \in RowIds : IsRow(i)' /\ users'[i].identity = "" => users'[i].email # c.email
    BY <1>1 DEF CallQuiet, RowsKept
  <2>8. c.at = "recover" => \E i \in RowIds : users'[i].identity = z
    BY <1>1, <2>1, <2>2 DEF CallQuiet, RowsKept
  <2>9. c.at = "link" =>
          /\ c.copy.email \in MailAddress => c.copy.email = mailbox[z]
          /\ Gone(z)' \/ (c.copy.email = mailbox[z] /\ c.copy.name # "")
          /\ LET y == users'[c.row].identity IN
               \/ y = z
               \/ y = "" /\ users'[c.row].email = mailbox'[z]
               \/ y # "" /\ mailbox'[y] = mailbox'[z] /\ Gone(z)'
    BY <1>1, <2>1, <2>2 DEF CallQuiet, LinkKnows
  <2>10. /\ c.at \in {"store", "dropIdentity", "anonymise"} =>
              /\ c.copy.identity = z /\ (c.copy.email \in MailAddress => c.copy.email = mailbox[z])
              /\ ~Gone(z)' => Complete(c.copy)
         /\ c.at = "enrich" /\ c.row # NoRow =>
              (c.copy.email \in MailAddress => c.copy.email = mailbox[z])
         /\ c.at \in {"findEmail", "insert"} => Gone(z)' \/ (c.email = mailbox[z] /\ c.name # "")
         /\ c.op = "error" => Gone(z)'
    BY <1>1, <2>1, <2>2 DEF CallQuiet
  <2>11. CASE c.at = "link"
    BY <1>1, <2>1, <2>2, <2>9, <2>10, <2>11 DEF CallQuiet, OnRow, Erasing
  <2>12. CASE c.at \in {"enrich", "findEmail", "insert", "recover"}
    BY <1>1, <2>1, <2>2, <2>6, <2>7, <2>8, <2>10, <2>12 DEF CallQuiet, OnRow, Erasing
  <2>13. CASE c.at \in OnRow \cup {"ended"}
    BY <1>1, <2>1, <2>2, <2>5, <2>10, <2>13 DEF CallQuiet, Complete, OnRow, Erasing
  <2>14. c.at \in {"link", "enrich", "findEmail", "insert", "recover"} \cup OnRow \cup {"ended"}
    BY <1>3 DEF UserCall, Seeking
  <2> QED BY <2>11, <2>12, <2>13, <2>14
<1> QED BY <1>2, <1>3

\* A step of r that writes neither rows nor identities.
LEMMA ReadOnlyAccounts ==
  ASSUME UserInv, Accounts, NEW r \in UserRequests, CallMoves(r),
         UNCHANGED <<mailbox, zitadel, users>>, req[r].at # "anonymise", CallQuiet(req[r])'
  PROVE  Accounts'
<1>1. RowsKept
  BY DEF RowsKept, Gone, IsRow
<1>2. CallsQuiet'
  <2> SUFFICES ASSUME NEW q \in UserRequests, q # r PROVE CallQuiet(req[q])'
    BY DEF CallsQuiet
  <2>1. req'[q] = req[q] /\ CallQuiet(req[q])
    BY DEF CallMoves, Accounts, CallsQuiet
  <2>2. req[q].at = "link" => LinkKnows(req[q].identity, req[q].row)'
    BY <2>1 DEF CallQuiet, LinkKnows, Gone
  <2> QED BY <1>1, <2>1, <2>2, StillQuiet
<1>3. GoneKept'
  BY DEF Accounts, GoneKept, Gone, CallMoves
<1>4. OneAlive' /\ RowsMailed' /\ UnlinkedMet'
  BY DEF Accounts, OneAlive, RowsMailed, UnlinkedMet, Alive, Born, Gone, IsRow, Complete
<1> QED BY <1>2, <1>3, <1>4 DEF Accounts

\* While nothing fails, nothing does.
LEMMA NoFault == ASSUME Quiet, Quiet' PROVE ~UserFault
BY DEF Quiet, UserFault

\* What a request that is at work knows of its identity.
LEMMA WorkingQuiet ==
  ASSUME UserInv, Accounts, NEW r \in UserRequests, req[r].at # "waiting"
  PROVE  /\ req[r] \in UserCall /\ CallShape(req[r]) /\ CallQuiet(req[r]) /\ UserTypes /\ RowsUnique
         /\ req[r].identity \in Identities /\ req[r].identity # ""
         /\ mailbox[req[r].identity] \in MailAddress /\ mailbox[req[r].identity] # ""
         /\ Gone(req[r].identity) \/ Alive(req[r].identity)
<1>1. /\ req[r].identity \in Identities /\ zitadel[req[r].identity] # "unborn"
      /\ req[r] \in UserCall /\ CallShape(req[r]) /\ mailbox[req[r].identity] \in MailAddress
  BY WorkingCall
<1> QED BY <1>1, UserValues DEF UserInv, UserTypes, Accounts, CallsQuiet, Gone, Alive

\* A row of another identity, met by an address of Zitadel: its identity is alive, and
\* has the mailbox.
LEMMA OtherMet ==
  ASSUME UserInv, Accounts, Quiet, Quiet', NEW r \in UserRequests,
         NEW e \in MailAddress, Meets(r, e), NEW i \in RowIds, IsRow(i), users[i].email = e,
         users[i].identity # req[r].identity, users[i].identity # ""
  PROVE  /\ users[i].identity \in Identities /\ Alive(users[i].identity)
         /\ mailbox[users[i].identity] = e
<1>1. PICK y \in Identities : y = users[i].identity
  BY DEF UserInv, UserTypes, UserRow
<1>2. Born(y) /\ mailbox[y] = e
  BY <1>1 DEF Accounts, RowsMailed
<1>3. ~Gone(y)
  <2> SUFFICES ASSUME Gone(y) PROVE FALSE
    OBVIOUS
  <2>1. PICK k \in RowIds : /\ users[k].identity = y
                            /\ \/ users[k].erased = y
                               \/ \E s \in UserRequests : req[s].at = "anonymise" /\ req[s].row = k
    BY DEF Accounts, GoneKept
  <2>2. k = i
    <3>1. users[k] # Vacant
      BY <1>1, <2>1, UserValues
    <3>2. IsRow(k)
      BY <3>1, RowsThere DEF UserInv
    <3> QED BY <1>1, <2>1, <3>2 DEF UserInv, RowsUnique
  <2>3. CASE users[i].erased = y
    <3>1. users[i].erased # "" /\ i \notin disturbed
      BY <1>1, <2>3 DEF Quiet
    <3> QED BY <3>1, ErasedComplete
  <2>4. CASE \E s \in UserRequests : req[s].at = "anonymise" /\ req[s].row = i
    <3>1. BeingErased(i)
      BY <2>4 DEF BeingErased
    <3>2. i \in FindByEmail(e)
      BY RowsThere DEF FindByEmail, UserInv
    <3>3. i \in disturbed'
      BY <3>1, <3>2 DEF Meets
    <3> QED BY <3>3 DEF Quiet
  <2> QED BY <2>1, <2>2, <2>3, <2>4
<1>4. Alive(y)
  BY <1>2, <1>3 DEF Born, Gone, Alive, UserInv, UserTypes
<1> QED BY <1>1, <1>2, <1>4

\* A step of r by which r resolves to a row of its identity, without writing one.
LEMMA ResolvedAccounts ==
  ASSUME UserInv, Accounts, NEW r \in UserRequests, req[r].at \in Seeking, NEW i \in RowIds,
         users[i].identity = req[r].identity, Resolved(r, i), UNCHANGED <<mailbox, zitadel, users>>
  PROVE  Accounts'
<1>0. /\ req[r].op \in {"read", "update", "delete"} /\ UserTypes /\ req[r].at # "anonymise"
  BY WorkingQuiet DEF Seeking, CallShape
<1>1. /\ CallMoves(r) /\ req'[r].identity = req[r].identity /\ req'[r].row = i
      /\ \/ req'[r].at = "load" /\ req'[r].op \in {"update", "delete"}
         \/ req'[r].at = "ended" /\ req'[r].op = "ok"
  BY <1>0, ResolvedFacts
<1>2. CallQuiet(req[r])'
  BY <1>1 DEF CallQuiet, OnRow, Erasing
<1> QED BY <1>0, <1>1, <1>2, ReadOnlyAccounts

\* FindIdentity: a row that is incomplete is of an identity that is gone.
LEMMA FindIdentityAccounts ==
  ASSUME UserInv, Accounts, NEW r \in UserRequests, FindIdentity(r)
  PROVE  Accounts'
<1>0. /\ req[r].at = "findIdentity" /\ UNCHANGED <<mailbox, zitadel, users>> /\ CallMoves(r)
      /\ req[r].identity # "" /\ CallShape(req[r]) /\ req[r].op \in {"read", "update", "delete"}
  BY WorkingQuiet, FindIdentityFacts DEF FindIdentity, CallShape, Seeking
<1>1. ASSUME NEW i \in RowIds, users[i].identity = req[r].identity, Resolved(r, i)
      PROVE  Accounts'
  BY <1>0, <1>1, ResolvedAccounts DEF Seeking
<1>2. CASE /\ req'[r].at = "enrich" /\ req'[r].op = req[r].op
           /\ req'[r].identity = req[r].identity
           /\ \/ req'[r].row = NoRow
              \/ \E i \in RowIds : /\ IsRow(i) /\ users[i].identity = req[r].identity
                                   /\ Incomplete(users[i]) /\ req'[r].row = i
                                   /\ req'[r].copy = users[i]
  <2>1. CASE req'[r].row = NoRow
    <3>1. CallQuiet(req[r])'
      BY <1>0, <1>2, <2>1 DEF CallQuiet, OnRow, Erasing
    <3> QED BY <1>0, <3>1, ReadOnlyAccounts
  <2>2. ASSUME NEW i \in RowIds, IsRow(i), users[i].identity = req[r].identity,
               Incomplete(users[i]), req'[r].row = i, req'[r].copy = users[i]
        PROVE  Accounts'
    <3>1. /\ Gone(req[r].identity)
          /\ users[i].email \in MailAddress => users[i].email = mailbox[req[r].identity]
      BY <1>0, <2>2 DEF Accounts, RowsMailed, Incomplete, Complete
    <3>2. Gone(req[r].identity)'
      BY <1>0, <1>2, <3>1 DEF Gone
    <3>3. CallQuiet(req[r])'
      BY <1>0, <1>2, <2>2, <3>1, <3>2 DEF CallQuiet, OnRow, Erasing
    <3> QED BY <1>0, <3>3, ReadOnlyAccounts
  <2> QED BY <1>2, <2>1, <2>2
<1> QED BY <1>1, <1>2, FindIdentityFacts

\* Enriching: where no call fails, a living identity brings its address and its name.
LEMMA EnrichAccounts ==
  ASSUME UserInv, Accounts, Quiet', NEW r \in UserRequests, Enrich(r)
  PROVE  Accounts'
<1> DEFINE z == req[r].identity
<1>0. /\ req[r].at = "enrich" /\ req[r] \in UserCall /\ CallShape(req[r]) /\ CallQuiet(req[r])
      /\ UNCHANGED <<mailbox, zitadel, users>> /\ CallMoves(r)
      /\ z \in Identities /\ z # "" /\ mailbox[z] \in MailAddress /\ mailbox[z] # ""
      /\ req[r].op \in {"read", "update", "delete"}
  BY WorkingQuiet, EnrichFacts DEF Enrich, CallShape, Seeking
<1>1. PICK email \in {"", mailbox[z]}, name \in {"", "real"} :
        /\ EnrichedTo(r, email, name)
        /\ userFaults' = 0 /\ zitadel[z] # "gone" =>
             userFaults = 0 /\ email = mailbox[z] /\ name = "real"
  BY EnrichFacts
<1>2. /\ Gone(z) \/ (email = mailbox[z] /\ name = "real")
      /\ Gone(z)' <=> Gone(z)
  BY <1>0, <1>1 DEF Gone, Quiet, EnrichedTo
<1>3. CASE /\ req[r].row = NoRow /\ req'[r].row = NoRow /\ req'[r].op = req[r].op
           /\ req'[r].at = (IF email = "" THEN "insert" ELSE "findEmail")
           /\ req'[r].email = email /\ req'[r].name = name /\ req'[r].identity = z
  <2>1. CallQuiet(req[r])'
    BY <1>0, <1>2, <1>3 DEF CallQuiet, OnRow, Erasing
  <2> QED BY <1>0, <2>1, ReadOnlyAccounts
<1>4. CASE req[r].row # NoRow /\ Resolved(r, req[r].row)
  <2>1. req[r].row \in RowIds /\ users[req[r].row].identity = z
    BY <1>0, <1>4 DEF CallQuiet, UserCall
  <2> QED BY <1>0, <1>4, <2>1, ResolvedAccounts DEF Seeking
<1>5. CASE /\ req[r].row # NoRow /\ req'[r].row = req[r].row /\ req'[r].op = req[r].op
           /\ req'[r].at = "link" /\ req'[r].identity = z
           /\ req'[r].copy = Filled(req[r].copy, r, email, name)
  <2>1. /\ Gone(z) /\ users[req[r].row].identity = z
        /\ req[r].copy.email \in MailAddress => req[r].copy.email = mailbox[z]
    BY <1>0, <1>5 DEF CallQuiet
  <2>2. req'[r].copy.email = (IF req[r].copy.email = "" THEN email ELSE req[r].copy.email)
    <3>1. email \in MailAddress \cup {""}
      BY <1>0
    <3>2. PICK u \in UserRow : u = req[r].copy
      BY <1>0 DEF UserCall
    <3>3. req'[r].copy = Filled(u, r, email, name)
      BY <1>5, <3>2
    <3>4. Filled(u, r, email, name).email = (IF u.email = "" THEN email ELSE u.email)
      BY <3>1, FilledFacts, Zenon
    <3> QED BY <3>2, <3>3, <3>4
  <2>3. req'[r].copy.email \in MailAddress => req'[r].copy.email = mailbox[z]
    BY <2>1, <2>2, UserValues
  <2>4. CallQuiet(req[r])'
    BY <1>0, <1>2, <1>5, <2>1, <2>3 DEF CallQuiet, OnRow, Erasing
  <2> QED BY <1>0, <2>4, ReadOnlyAccounts
<1> QED BY <1>1, <1>3, <1>4, <1>5 DEF EnrichedTo

\* FindEmail: a row of another identity of the mailbox that is alive is found only for an
\* identity that is gone.
LEMMA FindEmailAccounts ==
  ASSUME UserInv, Accounts, Quiet, Quiet', NEW r \in UserRequests, FindEmail(r)
  PROVE  Accounts'
<1> DEFINE z == req[r].identity
<1>0. /\ req[r].at = "findEmail" /\ req[r] \in UserCall /\ CallShape(req[r]) /\ CallQuiet(req[r])
      /\ UNCHANGED <<mailbox, zitadel, users>> /\ CallMoves(r) /\ Meets(r, req[r].email)
      /\ z \in Identities /\ z # "" /\ mailbox[z] \in MailAddress
      /\ Gone(z) \/ Alive(z)
      /\ req[r].op \in {"read", "update", "delete"} /\ req[r].email \in {"", mailbox[z]}
      /\ req[r].email # "" /\ req'[r].identity = z
  BY WorkingQuiet, FindEmailFacts DEF FindEmail, CallShape, Seeking
<1>1. /\ req[r].email = mailbox[z] /\ (Gone(z)' <=> Gone(z))
      /\ Gone(z) \/ req[r].name # ""
  BY <1>0 DEF CallQuiet, Gone
<1>2. CASE /\ req'[r].at = "insert" /\ req'[r].row = NoRow /\ req'[r].op = req[r].op
           /\ req'[r].email = req[r].email /\ req'[r].name = req[r].name /\ req'[r].identity = z
           /\ \A i \in RowIds : IsRow(i) => users[i].email # req[r].email
  <2>1. \A i \in RowIds : IsRow(i)' => users'[i].email # req'[r].email
    BY <1>0, <1>2 DEF IsRow
  <2>2. CallQuiet(req[r])'
    BY <1>0, <1>1, <1>2, <2>1 DEF CallQuiet, OnRow, Erasing
  <2> QED BY <1>0, <2>2, ReadOnlyAccounts
<1>3. ASSUME NEW i \in RowIds, IsRow(i), users[i].email = req[r].email,
             req'[r].at = "link", req'[r].row = i, req'[r].copy.email = req[r].email,
             req'[r].copy.name = (IF users[i].name = "" THEN req[r].name ELSE users[i].name),
             req'[r].op = req[r].op, req'[r].identity = z
      PROVE  Accounts'
  <2>1. LinkKnows(z, i)
    <3>1. CASE users[i].identity \in {"", z}
      BY <1>1, <1>3, <3>1 DEF LinkKnows
    <3>2. CASE users[i].identity \notin {"", z}
      <4>0. /\ Meets(r, mailbox[z]) /\ users[i].email = mailbox[z] /\ mailbox[z] \in MailAddress
            /\ users[i].identity # req[r].identity /\ users[i].identity # ""
        BY <1>0, <1>1, <1>3, <3>2
      <4>1. PICK y \in Identities : y = users[i].identity /\ Alive(y) /\ mailbox[y] = mailbox[z]
        BY <1>3, <4>0, OtherMet
      <4>2. Gone(z)
        BY <1>0, <3>2, <4>1 DEF Accounts, OneAlive
      <4> QED BY <3>2, <4>1, <4>2 DEF LinkKnows
    <3> QED BY <3>1, <3>2
  <2>2. Gone(z) \/ (req'[r].copy.email = mailbox[z] /\ req'[r].copy.name # "")
    BY <1>1, <1>3
  <2>3. CallQuiet(req[r])'
    BY <1>0, <1>1, <1>3, <2>1, <2>2 DEF CallQuiet, LinkKnows, OnRow, Erasing
  <2> QED BY <1>0, <2>3, ReadOnlyAccounts
<1> QED BY <1>2, <1>3, NoFault, FindEmailFacts

\* The loser of a race always finds the row of its identity.
LEMMA RecoverAccounts ==
  ASSUME UserInv, Accounts, Quiet, Quiet', NEW r \in UserRequests, Recover(r)
  PROVE  Accounts'
<1>0. /\ req[r].at = "recover" /\ UNCHANGED <<mailbox, zitadel, users>>
      /\ CallQuiet(req[r]) /\ req[r].identity # ""
  BY RecoverFacts, WorkingQuiet
<1>1. PICK k \in RowIds : users[k].identity = req[r].identity
  BY <1>0 DEF CallQuiet
<1>2. IsRow(k)
  <2>1. users[k] # Vacant
    BY <1>0, <1>1, UserValues
  <2> QED BY <2>1, RowsThere DEF UserInv
<1>3. PICK i \in RowIds : Resolved(r, i) /\ users[i].identity = req[r].identity
  BY <1>1, <1>2, NoFault, RecoverFacts
<1> QED BY <1>0, <1>3, ResolvedAccounts DEF Seeking

\* What is read is the identity's own row.
LEMMA LoadUserAccounts ==
  ASSUME UserInv, Accounts, NEW r \in UserRequests, LoadUser(r)
  PROVE  Accounts'
<1> DEFINE z == req[r].identity
<1>0. /\ req[r].at = "load" /\ CallShape(req[r]) /\ CallQuiet(req[r])
      /\ UNCHANGED <<mailbox, zitadel, users>> /\ z \in Identities /\ z # ""
  BY WorkingQuiet DEF LoadUser, OnlyReq
<1>1. /\ CallMoves(r) /\ req'[r].identity = z /\ req'[r].row = req[r].row
      /\ req'[r].op = req[r].op /\ req'[r].copy = users[req[r].row]
      /\ req'[r].at \in {"store", "dropIdentity"}
  BY LoadFacts
<1>2. PICK i \in RowIds : /\ i = req[r].row /\ IsRow(i) /\ users[i].identity = z
                          /\ req[r].op # "error"
  BY <1>0 DEF CallShape, CallQuiet, OnRow
<1>3. /\ users[i].email \in MailAddress => users[i].email = mailbox[z]
      /\ ~Gone(z) => Complete(users[i])
  BY <1>0, <1>2 DEF Accounts, RowsMailed
<1>4. Gone(z)' <=> Gone(z)
  BY <1>0, <1>1 DEF Gone
<1>5. CallQuiet(req[r])'
  BY <1>0, <1>1, <1>2, <1>3, <1>4 DEF CallQuiet, Complete, OnRow, Erasing
<1> QED BY <1>0, <1>1, <1>5, ReadOnlyAccounts

\* A step of r that writes the row of identity z, and leaves it that identity.
LEMMA OwnRowAccounts ==
  ASSUME UserInv, Accounts, NEW r \in UserRequests, CallMoves(r), UNCHANGED <<mailbox, zitadel>>,
         NEW i \in RowIds, IsRow(i), IsRow(i)', \A j \in RowIds \ {i} : users'[j] = users[j],
         NEW z \in Identities, users[i].identity = z, users'[i].identity = z,
         users'[i].email \in MailAddress => users'[i].email = mailbox[z],
         ~Gone(z) => Complete(users'[i]),
         Gone(z) => users'[i].erased = z
                    \/ (users'[i].erased = users[i].erased /\ req[r].at # "anonymise"),
         req[r].at = "anonymise" => req[r].row = i, CallQuiet(req[r])'
  PROVE  Accounts'
<1>0. z # "" /\ (Gone(z)' <=> Gone(z)) /\ (Born(z)' <=> Born(z))
  BY UserValues DEF Gone, Born
<1>1. RowsKept
  BY <1>0 DEF RowsKept, Gone, IsRow
<1>2. CallsQuiet'
  <2> SUFFICES ASSUME NEW q \in UserRequests, q # r PROVE CallQuiet(req[q])'
    BY DEF CallsQuiet
  <2>1. req'[q] = req[q] /\ CallQuiet(req[q])
    BY DEF CallMoves, Accounts, CallsQuiet
  <2>2. req[q].at = "link" => LinkKnows(req[q].identity, req[q].row)'
    <3> SUFFICES ASSUME req[q].at = "link" PROVE LinkKnows(req[q].identity, req[q].row)'
      OBVIOUS
    <3>1. PICK k \in RowIds : k = req[q].row
      BY DEF UserInv, CallsShaped, CallShape, CopyOf
    <3>2. LinkKnows(req[q].identity, k)
      BY <2>1, <3>1 DEF CallQuiet, LinkKnows
    <3>3. users'[k].identity = users[k].identity /\ (users[k].identity = "" => users'[k] = users[k])
      BY <1>0
    <3>4. mailbox' = mailbox /\ zitadel' = zitadel
      OBVIOUS
    <3>5. CASE users[k].identity = ""
      <4>1. users'[k] = users[k]
        BY <3>3, <3>5
      <4> QED BY <2>1, <3>1, <3>2, <3>4, <3>5, <4>1 DEF LinkKnows
    <3>6. CASE users[k].identity # ""
      BY <2>1, <3>1, <3>2, <3>3, <3>4, <3>6 DEF LinkKnows, Gone
    <3> QED BY <3>5, <3>6
  <2> QED BY <1>1, <2>1, <2>2, StillQuiet
<1>3. RowsMailed'
  <2> SUFFICES ASSUME NEW j \in RowIds, IsRow(j)'
               PROVE  LET x == users'[j].identity IN
                      IF x = "" THEN users'[j].email \in MailAddress /\ users'[j].erased = ""
                      ELSE /\ zitadel[x] # "unborn"
                           /\ users'[j].email \in MailAddress => users'[j].email = mailbox[x]
                           /\ zitadel[x] # "gone" => Complete(users'[j])
    BY <1>0 DEF RowsMailed, Born, Gone, Complete
  <2>1. CASE j = i
    <3>1. Born(z)
      BY <1>0 DEF Accounts, RowsMailed
    <3> QED BY <1>0, <2>1, <3>1 DEF Born, Gone
  <2>2. CASE j # i
    <3>1. users'[j] = users[j]
      BY <2>2
    <3>2. IsRow(j)
      BY <3>1 DEF IsRow
    <3> QED BY <3>1, <3>2 DEF Accounts, RowsMailed, Born, Gone
  <2> QED BY <2>1, <2>2
<1>4. GoneKept'
  <2> SUFFICES ASSUME NEW x \in Identities, Gone(x)
               PROVE  \E k \in RowIds : /\ users'[k].identity = x
                        /\ \/ users'[k].erased = x
                           \/ \E s \in UserRequests : req'[s].at = "anonymise" /\ req'[s].row = k
    BY DEF GoneKept, Gone
  <2>1. PICK k \in RowIds : /\ users[k].identity = x
                            /\ \/ users[k].erased = x
                               \/ \E s \in UserRequests : req[s].at = "anonymise" /\ req[s].row = k
    BY DEF Accounts, GoneKept
  <2>2. users'[k].identity = x
    BY <2>1
  <2>3. CASE users[k].erased = x
    <3>1. CASE k = i
      BY <2>1, <2>2, <2>3, <3>1
    <3>2. CASE k # i
      BY <2>2, <2>3, <3>2
    <3> QED BY <3>1, <3>2
  <2>4. ASSUME NEW s \in UserRequests, req[s].at = "anonymise", req[s].row = k
        PROVE  \/ users'[k].erased = x
               \/ \E q \in UserRequests : req'[q].at = "anonymise" /\ req'[q].row = k
    <3>1. CASE s = r
      BY <2>1, <2>4, <3>1
    <3>2. CASE s # r
      <4>1. req'[s] = req[s]
        BY <3>2 DEF CallMoves
      <4> QED BY <2>4, <4>1
    <3> QED BY <3>1, <3>2
  <2> QED BY <2>1, <2>2, <2>3, <2>4
<1>5. UnlinkedMet'
  <2> SUFFICES ASSUME NEW a \in RowIds, NEW b \in RowIds, IsRow(a)', users'[a].identity = "",
                      users'[b].identity # "", users'[a].email = mailbox'[users'[b].identity]
               PROVE  zitadel'[users'[b].identity] = "gone"
    BY DEF UnlinkedMet, Gone
  <2>1. users'[a] = users[a] /\ users'[b].identity = users[b].identity
    BY <1>0
  <2>2. IsRow(a)
    BY <2>1 DEF IsRow
  <2>3. Gone(users[b].identity)
    BY <2>1, <2>2 DEF Accounts, UnlinkedMet
  <2> QED BY <2>1, <2>3 DEF Gone
<1>6. OneAlive'
  BY DEF Accounts, OneAlive, Alive
<1> QED BY <1>2, <1>3, <1>4, <1>5, <1>6 DEF Accounts

\* A request that answers with the row of its identity, or is refused, without writing.
LEMMA AnswerAccounts ==
  ASSUME UserInv, Accounts, NEW r \in UserRequests, req[r].at \notin {"waiting", "anonymise"},
         NEW answer \in {"ok", "refused"}, NEW row \in RowIds \cup {NoRow},
         AnswerRequest(r, answer, row), UNCHANGED <<mailbox, zitadel, users>>,
         row # NoRow => users[row].identity = req[r].identity
  PROVE  Accounts'
<1>1. /\ CallMoves(r) /\ req'[r].identity = req[r].identity
      /\ req'[r].at = "ended" /\ req'[r].op = answer /\ req'[r].row = row
  BY AnswerFacts DEF UserInv
<1>2. CallQuiet(req[r])'
  BY <1>1 DEF CallQuiet, OnRow, Erasing
<1> QED BY <1>1, <1>2, ReadOnlyAccounts

\* updateMe leaves a row its identity, and its owner an address and a name.
LEMMA UpdateMeAccounts ==
  ASSUME UserInv, Accounts, Quiet, Quiet', NEW r \in UserRequests, UpdateMe(r)
  PROVE  Accounts'
<1>0. /\ req[r].at = "store" /\ req[r] \in UserCall /\ CallShape(req[r]) /\ CallQuiet(req[r])
      /\ UNCHANGED <<mailbox, zitadel>> /\ UserTypes
      /\ req[r].identity \in Identities /\ req[r].identity # ""
  BY WorkingQuiet DEF UpdateMe
<1>1. CASE AnswerRequest(r, "refused", NoRow) /\ UNCHANGED <<users, disturbed>>
  BY <1>0, <1>1, AnswerAccounts
<1>2. ASSUME NEW u \in {req[r].copy} \cup
                         {[req[r].copy EXCEPT !.email = e, !.name = "typed"] : e \in EditedEmails},
             ~Clashes(req[r].row, u), users' = WriteBack(req[r].row, u),
             AnswerRequest(r, "ok", req[r].row),
             disturbed' = IF u.email # req[r].copy.email /\ Foreign(u.email, req[r].copy.identity)
                          THEN disturbed \cup {req[r].row} ELSE disturbed
      PROVE  Accounts'
  <2>1. PICK i \in RowIds : i = req[r].row
    BY <1>0 DEF CallShape, CopyOf
  <2>0. PICK z \in Identities : z = req[r].identity /\ z # ""
    BY <1>0
  <2>2. /\ IsRow(i) /\ req[r].copy \in UserRow /\ req[r].copy.email # "vacant"
        /\ users[i].identity = z /\ req[r].copy.identity = z
        /\ req[r].copy.email \in RowIds => req[r].copy.email = i \/ i \in disturbed
        /\ req[r].copy.email \in MailAddress => req[r].copy.email = mailbox[z]
        /\ ~Gone(z) => Complete(req[r].copy)
    BY <1>0, <2>0, <2>1 DEF CallShape, CopyOf, UserCall, CallQuiet, OnRow
  <2>3. /\ u \in UserRow /\ u.identity = req[r].copy.identity
        /\ \/ u.email = req[r].copy.email /\ u.name = req[r].copy.name
           \/ u.email \in EditedEmails /\ u.name = "typed"
    BY <2>2 DEF UserRow, RowEmail
  <2>4. /\ u.email # "vacant" /\ disturbed \subseteq disturbed'
        /\ u.email \in RowIds => u.email = i \/ i \in disturbed'
        /\ u.email \in MailAddress => u.email = mailbox[z]
        /\ ~Gone(z) => u.email # "" /\ u.name # ""
    <3>1. u.email = req[r].copy.email \/ ~Foreign(u.email, z)
      BY <1>2, <2>1, <2>2 DEF Quiet
    <3>2. ~Foreign(u.email, z) => u.email = mailbox[z] \/ u.email \notin MailAddress \cup RowIds \cup {""}
      BY <2>0 DEF Foreign
    <3>3. mailbox[z] \in MailAddress
      BY WorkingMailboxes DEF WorkingMailbox
    <3>4. disturbed \subseteq disturbed' /\ disturbed = {}
      BY DEF Quiet
    <3> QED BY <2>2, <2>3, <3>1, <3>2, <3>3, <3>4, UserValues DEF Complete
  <2>5. /\ \A j \in RowIds \ {i} : users'[j] = users[j]
        /\ users'[i].identity = u.identity /\ users'[i].email = u.email
        /\ users'[i].name = u.name /\ users'[i].erased = users[i].erased
        /\ IsRow(i)'
    BY <1>2, <2>1, <2>2, <2>3, <2>4, WriteBackFacts
  <2>6. /\ CallMoves(r) /\ req'[r].identity = z /\ req'[r].row = i
        /\ req'[r].at = "ended" /\ req'[r].op = "ok"
    BY <1>0, <1>2, <2>0, <2>1, AnswerFacts
  <2>7. users'[i].identity = z /\ (~Gone(z) => Complete(users'[i]))
    BY <2>2, <2>3, <2>4, <2>5 DEF Complete
  <2>8. CallQuiet(req[r])'
    BY <2>6, <2>7 DEF CallQuiet, OnRow, Erasing
  <2>9. users'[i].email \in MailAddress => users'[i].email = mailbox[z]
    BY <2>4, <2>5
  <2> QED BY <1>0, <2>2, <2>5, <2>6, <2>7, <2>8, <2>9, OwnRowAccounts
<1> QED BY <1>1, <1>2 DEF UpdateMe

\* Erasing a row leaves it the identity that is gone.
LEMMA AnonymiseAccounts ==
  ASSUME UserInv, Accounts, Quiet, Quiet', NEW r \in UserRequests, Anonymise(r)
  PROVE  Accounts'
<1>0. /\ req[r].at = "anonymise" /\ CallShape(req[r]) /\ CallQuiet(req[r]) /\ UserTypes
      /\ UNCHANGED <<mailbox, zitadel>>
      /\ req[r].identity \in Identities /\ req[r].identity # ""
  BY WorkingQuiet DEF Anonymise
<1>1. PICK i \in RowIds, z \in Identities : i = req[r].row /\ IsRow(i) /\ z = req[r].identity
  BY <1>0 DEF CallShape, OnRow, Erasing
<1>9. ~ClashesByEmail(i, Anonymised(i))
  <2>1. Anonymised(i).email = i
    BY DEF Anonymised, AnonymisedWithoutSub, Deleted
  <2>2. \A j \in RowIds : users[j].email = i => j = i
    BY DEF Quiet, UserInv, RowsUnique
  <2> QED BY <2>1, <2>2 DEF ClashesByEmail
<1>10. RequestGoes(r, "dropPushTokens") /\ users' = [users EXCEPT ![i] = Anonymised(i)]
  BY <1>1, <1>9 DEF Anonymise
<1>2. users[i].identity = z /\ Gone(z) /\ z # "" /\ req[r].op # "error"
  BY <1>0, <1>1 DEF CallShape, CallQuiet, OnRow, Erasing, Gone
<1>3. PICK w : w = Anonymised(i)
  OBVIOUS
<1>4. w.identity = z /\ w.email = i /\ w.name = "Anonyme" /\ w.erased = z
  BY <1>2, <1>3 DEF Anonymised, AnonymisedWithoutSub, Deleted
<1>5. users'[i] = w /\ \A j \in RowIds \ {i} : users'[j] = users[j]
  BY <1>0, <1>3, <1>10 DEF UserTypes
<1>6. IsRow(i)' /\ users'[i].email \notin MailAddress
  BY <1>4, <1>5, UserValues DEF IsRow
<1>7. /\ CallMoves(r) /\ req'[r].at = "dropPushTokens" /\ req'[r].op = req[r].op
      /\ req'[r].identity = z /\ req'[r].row = i
  BY <1>0, <1>1, <1>10, GoesFacts DEF OnRow, Erasing
<1>8. CallQuiet(req[r])'
  BY <1>2, <1>4, <1>5, <1>7 DEF CallQuiet, OnRow, Erasing
<1> QED BY <1>0, <1>1, <1>2, <1>4, <1>5, <1>6, <1>7, <1>8, OwnRowAccounts

\* Deleting the identity leaves the row that is about to be erased.
LEMMA DropIdentityAccounts ==
  ASSUME UserInv, UserInv', Accounts, NEW r \in UserRequests, DropIdentity(r)
  PROVE  Accounts'
<1>0. /\ req[r].at = "dropIdentity" /\ CallShape(req[r]) /\ CallQuiet(req[r]) /\ UserTypes
      /\ UNCHANGED <<mailbox, users>> /\ RequestGoes(r, "anonymise")
      /\ zitadel' = [z \in Identities |-> IF z = req[r].copy.identity THEN "gone" ELSE zitadel[z]]
      /\ req[r].identity \in Identities /\ req[r].identity # ""
  BY WorkingQuiet DEF DropIdentity
<1>1. PICK i \in RowIds, z \in Identities : i = req[r].row /\ IsRow(i) /\ z = req[r].identity
  BY <1>0 DEF CallShape, OnRow, Erasing
<1>2. /\ users[i].identity = z /\ z # "" /\ req[r].op # "error" /\ req[r].copy.identity = z
      /\ req[r].copy.email \in MailAddress => req[r].copy.email = mailbox[z]
      /\ ~Gone(z) => Complete(req[r].copy)
  BY <1>0, <1>1 DEF CallShape, CallQuiet, OnRow, Erasing
<1>3. /\ zitadel'[z] = "gone" /\ \A x \in Identities \ {z} : zitadel'[x] = zitadel[x]
      /\ zitadel' \in [Identities -> {"unborn", "alive", "gone"}]
  BY <1>0, <1>2 DEF UserTypes
<1>4. /\ CallMoves(r) /\ req'[r].at = "anonymise" /\ req'[r].op = req[r].op
      /\ req'[r].identity = z /\ req'[r].row = i /\ req'[r].copy = req[r].copy
  BY <1>0, <1>1, GoesFacts DEF OnRow, Erasing
<1>5. RowsKept
  BY <1>0, <1>3 DEF RowsKept, Gone, IsRow
<1>6. CallsQuiet'
  <2>1. CallQuiet(req[r])'
    BY <1>0, <1>2, <1>3, <1>4 DEF CallQuiet, Gone, OnRow, Erasing
  <2>2. ASSUME NEW q \in UserRequests, q # r PROVE CallQuiet(req[q])'
    <3>1. req'[q] = req[q] /\ CallQuiet(req[q])
      BY <1>4, <2>2 DEF CallMoves, Accounts, CallsQuiet
    <3>2. req[q].at = "link" => LinkKnows(req[q].identity, req[q].row)'
      <4> SUFFICES ASSUME req[q].at = "link" PROVE LinkKnows(req[q].identity, req[q].row)'
        OBVIOUS
      <4>1. PICK x \in Identities : x = req[q].identity
        BY DEF UserInv, CallsShaped, CallShape
      <4>2. LinkKnows(x, req[q].row) /\ (Gone(x) => Gone(x)')
        BY <1>5, <3>1, <4>1 DEF CallQuiet, LinkKnows, RowsKept
      <4> QED BY <1>0, <3>1, <4>1, <4>2 DEF LinkKnows
    <3> QED BY <1>5, <3>1, <3>2, StillQuiet
  <2> QED BY <2>1, <2>2 DEF CallsQuiet
<1>7. GoneKept'
  <2> SUFFICES ASSUME NEW x \in Identities, Gone(x)'
               PROVE  \E k \in RowIds : /\ users'[k].identity = x
                        /\ \/ users'[k].erased = x
                           \/ \E s \in UserRequests : req'[s].at = "anonymise" /\ req'[s].row = k
    BY DEF GoneKept
  <2>1. CASE x = z
    BY <1>0, <1>1, <1>2, <1>4, <2>1
  <2>2. CASE x # z
    <3>1. Gone(x)
      BY <1>3, <2>2 DEF Gone
    <3>2. PICK k \in RowIds : /\ users[k].identity = x
                              /\ \/ users[k].erased = x
                                 \/ \E s \in UserRequests : req[s].at = "anonymise" /\ req[s].row = k
      BY <3>1 DEF Accounts, GoneKept
    <3>3. \A s \in UserRequests : req[s].at = "anonymise" => req'[s] = req[s]
      BY <1>0, <1>4 DEF CallMoves
    <3> QED BY <1>0, <3>2, <3>3
  <2> QED BY <2>1, <2>2
<1>8. RowsMailed'
  <2>1. \A x \in Identities : (Born(x) => Born(x)') /\ (Gone(x) => Gone(x)')
    BY <1>3 DEF Born, Gone
  <2>2. \A j \in RowIds : users[j].identity \in Identities \cup {""}
    BY <1>0 DEF UserTypes, UserRow
  <2>3. ASSUME NEW j \in RowIds, IsRow(j), NEW x \in Identities, x = users[j].identity, x # ""
        PROVE  /\ Born(x)' /\ (users[j].email \in MailAddress => users[j].email = mailbox[x])
               /\ ~Gone(x)' => Complete(users[j])
    BY <2>1, <2>3 DEF Accounts, RowsMailed
  <2>4. ASSUME NEW j \in RowIds, IsRow(j), users[j].identity = ""
        PROVE  users[j].email \in MailAddress /\ users[j].erased = ""
    BY <2>4 DEF Accounts, RowsMailed
  <2> QED BY <1>0, <2>2, <2>3, <2>4 DEF RowsMailed, IsRow, Born, Gone, Complete
<1>9. OneAlive' /\ UnlinkedMet'
  <2>1. \A x \in Identities : Alive(x)' => Alive(x)
    BY <1>3 DEF Alive
  <2>2. OneAlive'
    BY <1>0, <2>1 DEF Accounts, OneAlive
  <2>3. \A j \in RowIds : users[j].identity \in Identities \cup {""}
    BY <1>0 DEF UserTypes, UserRow
  <2>4. \A x \in Identities : zitadel[x] = "gone" => zitadel'[x] = "gone"
    BY <1>3
  <2>5. UnlinkedMet'
    BY <1>0, <2>3, <2>4 DEF Accounts, UnlinkedMet, IsRow, Gone
  <2> QED BY <2>2, <2>5
<1> QED BY <1>6, <1>7, <1>8, <1>9 DEF Accounts

\* A request resolves to the row of its identity.
LEMMA ResolvedQuiet ==
  ASSUME UserTypes, NEW r \in UserRequests, NEW i \in RowIds, Resolved(r, i),
         req[r].op \in {"read", "update", "delete"}, users'[i].identity = req[r].identity
  PROVE  CallMoves(r) /\ CallQuiet(req[r])'
<1>1. /\ CallMoves(r) /\ req'[r].identity = req[r].identity /\ req'[r].row = i
      /\ \/ req'[r].at = "load" /\ req'[r].op \in {"update", "delete"}
         \/ req'[r].at = "ended" /\ req'[r].op = "ok"
  BY ResolvedFacts
<1> QED BY <1>1 DEF CallQuiet, OnRow, Erasing

\* A row that had no identity, new or migrated, gets one that is alive.
LEMMA NewOwnerAccounts ==
  ASSUME UserInv, Accounts, NEW r \in UserRequests, CallMoves(r), UNCHANGED <<mailbox, zitadel>>,
         req[r].at # "anonymise", CallQuiet(req[r])',
         NEW i \in RowIds, users[i].identity = "",
         IsRow(i) => users[i].email = mailbox'[users'[i].identity],
         IsRow(i)', \A j \in RowIds \ {i} : users'[j] = users[j],
         NEW z \in Identities, Alive(z), users'[i].identity = z, users'[i].email = mailbox[z],
         Complete(users'[i]), \A j \in RowIds \ {i} : IsRow(j) => users[j].email # mailbox[z]
  PROVE  Accounts'
<1>0. /\ z # "" /\ mailbox' = mailbox /\ zitadel' = zitadel /\ (IsRow(i) => users[i].email = mailbox[z])
  BY UserValues
<1>1. RowsKept
  BY <1>0 DEF RowsKept, Gone, IsRow
<1>2. CallsQuiet'
  <2> SUFFICES ASSUME NEW q \in UserRequests, q # r PROVE CallQuiet(req[q])'
    BY DEF CallsQuiet
  <2>1. req'[q] = req[q] /\ CallQuiet(req[q])
    BY DEF CallMoves, Accounts, CallsQuiet
  <2>2. req[q].at = "link" => LinkKnows(req[q].identity, req[q].row)'
    <3> SUFFICES ASSUME req[q].at = "link" PROVE LinkKnows(req[q].identity, req[q].row)'
      OBVIOUS
    <3>1. PICK k \in RowIds, x \in Identities :
            /\ k = req[q].row /\ x = req[q].identity /\ IsRow(k) /\ x # "" /\ zitadel[x] # "unborn"
      BY UserValues DEF UserInv, CallsShaped, CallShape, CopyOf
    <3>2. LinkKnows(x, k)
      BY <2>1, <3>1 DEF CallQuiet, LinkKnows
    <3>3. CASE k # i
      <4>1. users'[k] = users[k]
        BY <3>3
      <4> QED BY <1>0, <2>1, <3>1, <3>2, <4>1 DEF LinkKnows, Gone
    <3>4. CASE k = i
      <4>1. mailbox[x] = mailbox[z]
        BY <1>0, <3>1, <3>2, <3>4 DEF LinkKnows
      <4>2. x = z \/ Gone(x)
        BY <3>1, <4>1 DEF Accounts, OneAlive, Alive, Gone, UserInv, UserTypes
      <4> QED BY <1>0, <2>1, <3>1, <3>4, <4>1, <4>2 DEF LinkKnows, Gone
    <3> QED BY <3>3, <3>4
  <2> QED BY <1>1, <2>1, <2>2, StillQuiet
<1>3. RowsMailed'
  <2>1. Born(z)
    BY DEF Alive, Born
  <2>2. ASSUME NEW j \in RowIds \ {i}, IsRow(j)
        PROVE  LET x == users[j].identity IN
               IF x = "" THEN users[j].email \in MailAddress /\ users[j].erased = ""
               ELSE /\ Born(x) /\ (users[j].email \in MailAddress => users[j].email = mailbox[x])
                    /\ ~Gone(x) => Complete(users[j])
    BY <2>2 DEF Accounts, RowsMailed
  <2> SUFFICES ASSUME NEW j \in RowIds, IsRow(j)'
               PROVE  LET x == users'[j].identity IN
                      IF x = "" THEN users'[j].email \in MailAddress /\ users'[j].erased = ""
                      ELSE /\ zitadel[x] # "unborn"
                           /\ users'[j].email \in MailAddress => users'[j].email = mailbox[x]
                           /\ zitadel[x] # "gone" => Complete(users'[j])
    BY <1>0 DEF RowsMailed, Born, Gone, Complete
  <2>3. CASE j = i
    BY <1>0, <2>1, <2>3 DEF Born
  <2>4. CASE j # i
    <3>1. users'[j] = users[j]
      BY <2>4
    <3>2. IsRow(j)
      BY <3>1 DEF IsRow
    <3> QED BY <2>2, <2>4, <3>1, <3>2 DEF Born, Gone
  <2> QED BY <2>3, <2>4
<1>4. GoneKept'
  <2> SUFFICES ASSUME NEW x \in Identities, Gone(x)
               PROVE  \E k \in RowIds : /\ users'[k].identity = x
                        /\ \/ users'[k].erased = x
                           \/ \E s \in UserRequests : req'[s].at = "anonymise" /\ req'[s].row = k
    BY <1>0 DEF GoneKept, Gone
  <2>1. PICK k \in RowIds : /\ users[k].identity = x
                            /\ \/ users[k].erased = x
                               \/ \E s \in UserRequests : req[s].at = "anonymise" /\ req[s].row = k
    BY DEF Accounts, GoneKept
  <2>2. users'[k] = users[k]
    BY <2>1, UserValues
  <2>3. ASSUME NEW s \in UserRequests, req[s].at = "anonymise" PROVE req'[s] = req[s]
    BY <2>3 DEF CallMoves
  <2>4. CASE users[k].erased = x
    BY <2>1, <2>2, <2>4
  <2>5. ASSUME NEW s \in UserRequests, req[s].at = "anonymise", req[s].row = k
        PROVE  req'[s].at = "anonymise" /\ req'[s].row = k
    BY <2>3, <2>5
  <2> QED BY <2>1, <2>2, <2>4, <2>5
<1>5. UnlinkedMet'
  <2> SUFFICES ASSUME NEW a \in RowIds, NEW b \in RowIds, IsRow(a)', users'[a].identity = "",
                      users'[b].identity # "", users'[a].email = mailbox'[users'[b].identity]
               PROVE  zitadel'[users'[b].identity] = "gone"
    BY DEF UnlinkedMet, Gone
  <2>1. a # i /\ users'[a] = users[a]
    BY <1>0
  <2>2. IsRow(a)
    BY <2>1 DEF IsRow
  <2>3. b # i
    BY <1>0, <2>1, <2>2
  <2>4. users'[b] = users[b]
    BY <2>3
  <2>5. Gone(users[b].identity)
    BY <1>0, <2>1, <2>2, <2>4 DEF Accounts, UnlinkedMet
  <2> QED BY <1>0, <2>4, <2>5 DEF Gone
<1>6. OneAlive'
  BY <1>0 DEF Accounts, OneAlive, Alive
<1> QED BY <1>2, <1>3, <1>4, <1>5, <1>6 DEF Accounts

\* Whoever is gone has a row.
LEMMA GoneHasRow ==
  ASSUME UserInv, Accounts, NEW z \in Identities, Gone(z)
  PROVE  \E k \in RowIds : users[k].identity = z /\ IsRow(k)
<1>1. PICK k \in RowIds : users[k].identity = z
  BY DEF Accounts, GoneKept
<1>2. IsRow(k)
  <2>1. users[k] # Vacant
    BY <1>1, UserValues
  <2> QED BY <2>1, RowsThere DEF UserInv
<1> QED BY <1>1, <1>2

\* What a request knows when it is about to link.
LEMMA LinkingQuiet ==
  ASSUME UserInv, Accounts, NEW r \in UserRequests, req[r].at = "link"
  PROVE  \E i \in RowIds, z \in Identities, w \in UserRow :
           /\ i = req[r].row /\ z = req[r].identity /\ w = req[r].copy
           /\ IsRow(i) /\ z # "" /\ w.identity = z /\ w.email # "vacant"
           /\ w.email \in RowIds => w.email = i \/ i \in disturbed
           /\ w.email \in MailAddress => w.email = mailbox[z]
           /\ mailbox[z] \in MailAddress /\ mailbox[z] # ""
           /\ Gone(z) \/ (Alive(z) /\ w.email = mailbox[z] /\ w.name # "")
           /\ LinkKnows(z, i) /\ req[r].op \in {"read", "update", "delete"}
<1>1. /\ req[r] \in UserCall /\ CallShape(req[r]) /\ CallQuiet(req[r])
      /\ req[r].identity \in Identities /\ req[r].identity # ""
      /\ mailbox[req[r].identity] \in MailAddress /\ mailbox[req[r].identity] # ""
      /\ Gone(req[r].identity) \/ Alive(req[r].identity)
  BY WorkingQuiet
<1>2. PICK i \in RowIds, z \in Identities, w \in UserRow :
        i = req[r].row /\ z = req[r].identity /\ w = req[r].copy
  BY <1>1 DEF CallShape, CopyOf, UserCall
<1>3. /\ IsRow(i) /\ w.identity = z /\ w.email # "vacant"
      /\ w.email \in RowIds => w.email = i \/ i \in disturbed
      /\ req[r].op \in {"read", "update", "delete"}
  BY <1>1, <1>2 DEF CallShape, CopyOf, Seeking
<1>4. /\ w.email \in MailAddress => w.email = mailbox[z]
      /\ Gone(z) \/ (Alive(z) /\ w.email = mailbox[z] /\ w.name # "")
      /\ LinkKnows(z, i)
  BY <1>1, <1>2 DEF CallQuiet, LinkKnows
<1> QED BY <1>1, <1>2, <1>3, <1>4

\* Who cannot be linked is gone.
LEMMA LinkClash ==
  ASSUME UserInv, Accounts, Quiet, Quiet', NEW r \in UserRequests, LinkRow(r),
         Clashes(req[r].row, req[r].copy)
  PROVE  Gone(req[r].identity)
<1>1. req[r].at = "link" /\ Meets(r, req[r].copy.email)
  BY DEF LinkRow
<1>2. PICK i \in RowIds, z \in Identities, w \in UserRow :
        /\ i = req[r].row /\ z = req[r].identity /\ w = req[r].copy
        /\ IsRow(i) /\ z # "" /\ w.identity = z
        /\ mailbox[z] \in MailAddress /\ mailbox[z] # ""
        /\ Gone(z) \/ (Alive(z) /\ w.email = mailbox[z])
        /\ LinkKnows(z, i)
  BY <1>1, LinkingQuiet
<1> SUFFICES ASSUME ~Gone(z) PROVE FALSE
  BY <1>2
<1>3. Alive(z) /\ w.email = mailbox[z]
  BY <1>2
<1>4. users[i].identity = z \/ (users[i].identity = "" /\ users[i].email = mailbox[z])
  BY <1>2 DEF LinkKnows
<1>5. PICK j \in RowIds \ {i} : IsRow(j) /\ (users[j].email = mailbox[z] \/ users[j].identity = z)
  <2>1. PICK j \in RowIds \ {i} : /\ users[j] # Vacant
                                  /\ users[j].email = w.email \/ users[j].identity = z
    BY <1>2 DEF Clashes
  <2>2. IsRow(j)
    BY <2>1, RowsThere DEF UserInv
  <2> QED BY <1>3, <2>1, <2>2
<1>6. users[i].email # users[j].email
      /\ (users[i].identity = users[j].identity => users[i].identity = "")
  BY <1>2, <1>5 DEF UserInv, RowsUnique
<1>7. CASE users[i].identity = z
  <2>1. users[j].email = mailbox[z] /\ users[j].identity # z
    BY <1>2, <1>5, <1>6, <1>7
  <2>2. CASE users[j].identity = ""
    BY <1>2, <1>5, <1>7, <2>1, <2>2 DEF Accounts, UnlinkedMet
  <2>3. CASE users[j].identity # ""
    <3>1. Meets(r, mailbox[z]) /\ users[j].identity # req[r].identity
      BY <1>1, <1>2, <1>3, <2>1
    <3>2. PICK y \in Identities : y = users[j].identity /\ Alive(y) /\ mailbox[y] = mailbox[z]
      BY <1>2, <1>5, <2>1, <2>3, <3>1, OtherMet
    <3> QED BY <1>3, <2>1, <3>2 DEF Accounts, OneAlive
  <2> QED BY <2>2, <2>3
<1>8. CASE users[i].identity = "" /\ users[i].email = mailbox[z]
  <2>1. users[j].identity = z
    BY <1>5, <1>6, <1>8
  <2> QED BY <1>2, <1>8, <2>1 DEF Accounts, UnlinkedMet
<1> QED BY <1>4, <1>7, <1>8

\* LinkRow links a row to its own identity, or to the first that it gets.
LEMMA LinkRowAccounts ==
  ASSUME UserInv, Accounts, Quiet, Quiet', NEW r \in UserRequests, LinkRow(r)
  PROVE  Accounts'
<1>0. req[r].at = "link" /\ UNCHANGED <<mailbox, zitadel>> /\ UserTypes
  BY DEF LinkRow, UserInv
<1>1. CASE Clashes(req[r].row, req[r].copy)
  <2>1. AnswerRequest(r, "error", NoRow) /\ UNCHANGED users /\ Gone(req[r].identity)
    BY <1>1, LinkClash DEF LinkRow
  <2>2. /\ CallMoves(r) /\ req'[r].identity = req[r].identity
        /\ req'[r].at = "ended" /\ req'[r].row = NoRow
    BY <1>0, <2>1, AnswerFacts
  <2>3. Gone(req[r].identity)'
    BY <1>0, <2>1, <2>2 DEF Gone
  <2>4. CallQuiet(req[r])'
    BY <2>2, <2>3 DEF CallQuiet, OnRow, Erasing
  <2> QED BY <1>0, <2>1, <2>2, <2>4, ReadOnlyAccounts
<1>2. CASE ~Clashes(req[r].row, req[r].copy)
  <2>1. PICK i \in RowIds, z \in Identities, w \in UserRow :
           /\ i = req[r].row /\ z = req[r].identity /\ w = req[r].copy
           /\ IsRow(i) /\ z # "" /\ w.identity = z /\ w.email # "vacant"
           /\ w.email \in RowIds => w.email = i \/ i \in disturbed
           /\ w.email \in MailAddress => w.email = mailbox[z]
           /\ mailbox[z] \in MailAddress /\ mailbox[z] # ""
           /\ Gone(z) \/ (Alive(z) /\ w.email = mailbox[z] /\ w.name # "")
           /\ LinkKnows(z, i) /\ req[r].op \in {"read", "update", "delete"}
    BY <1>0, LinkingQuiet
  <2>2. ~Clashes(i, w) /\ users' = WriteBack(i, w) /\ Resolved(r, i)
    BY <1>2, <2>1 DEF LinkRow
  <2>3. /\ \A j \in RowIds \ {i} : users'[j] = users[j]
        /\ users'[i].identity = z /\ users'[i].email = w.email /\ users'[i].name = w.name
        /\ users'[i].erased = users[i].erased /\ IsRow(i)'
    <3>1. disturbed \subseteq disturbed' /\ disturbed = {}
      BY DEF Quiet
    <3> QED BY <2>1, <2>2, <3>1, WriteBackFacts
  <2>4. CallMoves(r) /\ CallQuiet(req[r])'
    BY <1>0, <2>1, <2>2, <2>3, ResolvedQuiet
  <2>5. \A j \in RowIds \ {i} : IsRow(j) => users[j].email # w.email /\ users[j].identity # z
    BY <2>1, <2>2, RowsThere DEF Clashes, UserInv
  <2>6. ~Gone(z) => Complete(users'[i])
    BY <2>1, <2>3 DEF Complete
  <2>7. CASE users[i].identity = z
    BY <1>0, <2>1, <2>3, <2>4, <2>6, <2>7, OwnRowAccounts
  <2>8. CASE users[i].identity # z
    <3>1. ~Gone(z)
      BY <2>1, <2>5, <2>8, GoneHasRow
    <3>2. Alive(z) /\ users[i].identity = "" /\ users[i].email = mailbox[z] /\ w.email = mailbox[z]
      BY <2>1, <2>8, <3>1 DEF LinkKnows
    <3>3. users[i].email = mailbox'[users'[i].identity]
      BY <1>0, <2>3, <3>2
    <3>4. users'[i].email = mailbox[z] /\ Complete(users'[i])
      BY <2>3, <2>6, <3>1, <3>2
    <3>5. \A j \in RowIds \ {i} : IsRow(j) => users[j].email # mailbox[z]
      BY <2>5, <3>2
    <3>6. req[r].at # "anonymise"
      BY <1>0
    <3> QED BY <1>0, <2>3, <2>4, <3>2, <3>3, <3>4, <3>5, <3>6, NewOwnerAccounts
  <2> QED BY <2>7, <2>8
<1> QED BY <1>1, <1>2

\* InsertRow gives an identity that is alive its row; the loser of the race finds one.
LEMMA InsertRowAccounts ==
  ASSUME UserInv, Accounts, Quiet, Quiet', NEW r \in UserRequests, InsertRow(r)
  PROVE  Accounts'
<1>0. /\ req[r].at = "insert" /\ UNCHANGED <<mailbox, zitadel>> /\ UserTypes
      /\ Meets(r, req[r].email) /\ CallQuiet(req[r]) /\ req[r].identity \in Identities
      /\ req[r].identity # "" /\ mailbox[req[r].identity] \in MailAddress
      /\ mailbox[req[r].identity] # "" /\ req[r].op \in {"read", "update", "delete"}
      /\ Gone(req[r].identity) \/ Alive(req[r].identity)
  BY WorkingQuiet DEF InsertRow, CallShape, Seeking
<1>1. PICK z \in Identities : z = req[r].identity
  BY <1>0
<1>2. /\ Gone(z) \/ (Alive(z) /\ req[r].email = mailbox[z] /\ req[r].name # "")
      /\ req[r].email # "" => \A i \in RowIds :
           IsRow(i) /\ users[i].identity = "" => users[i].email # req[r].email
      /\ z # "" /\ mailbox[z] \in MailAddress /\ mailbox[z] # ""
  BY <1>0, <1>1 DEF CallQuiet
<1>3. CASE /\ RequestGoes(r, "recover") /\ UNCHANGED users
           /\ \E j \in RowIds : /\ IsRow(j)
                                /\ \/ users[j].email = req[r].email
                                   \/ users[j].identity = req[r].identity
  <2>1. \E i \in RowIds : users[i].identity = z
    <3>1. CASE Gone(z)
      BY <3>1, GoneHasRow
    <3>2. CASE ~Gone(z)
      <4>1. PICK j \in RowIds : IsRow(j) /\ (users[j].email = mailbox[z] \/ users[j].identity = z)
        BY <1>1, <1>2, <1>3, <3>2
      <4>2. CASE users[j].identity \notin {"", z}
        <5>1. Meets(r, mailbox[z]) /\ users[j].identity # req[r].identity
              /\ users[j].email = mailbox[z]
          BY <1>0, <1>1, <1>2, <3>2, <4>1, <4>2
        <5>2. PICK y \in Identities : y = users[j].identity /\ Alive(y) /\ mailbox[y] = mailbox[z]
          BY <1>2, <4>1, <4>2, <5>1, OtherMet
        <5> QED BY <1>2, <3>2, <4>2, <5>2 DEF Accounts, OneAlive
      <4>3. users[j].identity # ""
        BY <1>2, <3>2, <4>1
      <4> QED BY <4>2, <4>3
    <3> QED BY <3>1, <3>2
  <2>2. /\ CallMoves(r) /\ req'[r].at = "recover" /\ req'[r].op = req[r].op
        /\ req'[r].identity = z /\ req'[r].email = req[r].email
    BY <1>0, <1>1, <1>3, GoesFacts DEF Seeking
  <2>3. /\ \E i \in RowIds : users'[i].identity = z
        /\ req[r].email # "" => \A i \in RowIds :
             IsRow(i)' /\ users'[i].identity = "" => users'[i].email # req[r].email
    BY <1>2, <1>3, <2>1 DEF IsRow
  <2>4. CallQuiet(req[r])'
    BY <1>0, <2>2, <2>3 DEF CallQuiet, OnRow, Erasing
  <2> QED BY <1>0, <1>3, <2>2, <2>4, ReadOnlyAccounts
<1>4. ASSUME NEW i \in RowIds, ~IsRow(i), Resolved(r, i),
             \A j \in RowIds \ {i} : users'[j] = users[j],
             users'[i].identity = req[r].identity, users'[i].email = req[r].email,
             users'[i].name = req[r].name,
             \A j \in RowIds : IsRow(j) =>
               users[j].email # req[r].email /\ users[j].identity # req[r].identity
      PROVE  Accounts'
  <2>1. Alive(z) /\ req[r].email = mailbox[z] /\ req[r].name # ""
    BY <1>1, <1>2, <1>4, GoneHasRow
  <2>2. users[i].identity = ""
    BY <1>4, UserValues DEF UserInv, RowsUnique, IsRow
  <2>3. /\ users'[i].identity = z /\ users'[i].email = mailbox[z] /\ Complete(users'[i])
        /\ \A j \in RowIds \ {i} : IsRow(j) => users[j].email # mailbox[z]
    BY <1>1, <1>2, <1>4, <2>1 DEF Complete
  <2>4. IsRow(i)'
    BY <1>2, <2>3, UserValues DEF IsRow
  <2>5. CallMoves(r) /\ CallQuiet(req[r])'
    BY <1>0, <1>4, ResolvedQuiet
  <2>6. req[r].at # "anonymise" /\ (IsRow(i) => users[i].email = mailbox'[users'[i].identity])
    BY <1>0, <1>4
  <2> QED BY <1>0, <1>4, <2>1, <2>2, <2>3, <2>4, <2>5, <2>6, NewOwnerAccounts
<1> QED BY <1>3, <1>4, InsertFacts

\* A login: the mailbox has no other identity.
LEMMA LogInAccounts ==
  ASSUME UserInv, Accounts, NEW z \in Identities, LogIn(z)
  PROVE  Accounts'
<1>1. /\ mailbox' = mailbox /\ users' = users /\ req' = req /\ zitadel'[z] = "alive"
      /\ zitadel[z] = "unborn" /\ \A x \in Identities \ {z} : zitadel'[x] = zitadel[x]
      /\ \A y \in Identities \ {z} : Alive(y) => mailbox[y] # mailbox[z]
  BY DEF LogIn, UserInv, UserTypes
<1>2. \A x \in Identities : (zitadel'[x] = "gone" <=> zitadel[x] = "gone")
                            /\ (zitadel[x] # "unborn" => zitadel'[x] # "unborn")
  BY <1>1
<1>3. RowsKept
  BY <1>1, <1>2 DEF RowsKept, Gone, IsRow
<1>4. CallsQuiet'
  <2> SUFFICES ASSUME NEW q \in UserRequests PROVE CallQuiet(req[q])'
    BY DEF CallsQuiet
  <2>1. req'[q] = req[q] /\ CallQuiet(req[q])
    BY <1>1 DEF Accounts, CallsQuiet
  <2>2. req[q].at = "link" => LinkKnows(req[q].identity, req[q].row)'
    <3> SUFFICES ASSUME req[q].at = "link" PROVE LinkKnows(req[q].identity, req[q].row)'
      OBVIOUS
    <3>1. PICK x \in Identities : x = req[q].identity
      BY DEF UserInv, CallsShaped, CallShape
    <3>2. LinkKnows(x, req[q].row)
      BY <2>1, <3>1 DEF CallQuiet, LinkKnows
    <3> QED BY <1>1, <1>2, <3>1, <3>2 DEF LinkKnows, Gone
  <2> QED BY <1>3, <2>1, <2>2, StillQuiet
<1>5. \A j \in RowIds : users[j].identity \in Identities \cup {""}
  BY DEF UserInv, UserTypes, UserRow
<1>6. RowsMailed'
  <2> SUFFICES ASSUME NEW j \in RowIds, IsRow(j)
               PROVE  LET x == users[j].identity IN
                      IF x = "" THEN users[j].email \in MailAddress /\ users[j].erased = ""
                      ELSE /\ zitadel'[x] # "unborn"
                           /\ users[j].email \in MailAddress => users[j].email = mailbox[x]
                           /\ zitadel'[x] # "gone" => Complete(users[j])
    BY <1>1 DEF RowsMailed, Born, Gone, IsRow, Complete
  <2>1. LET x == users[j].identity IN
        IF x = "" THEN users[j].email \in MailAddress /\ users[j].erased = ""
        ELSE /\ zitadel[x] # "unborn"
             /\ users[j].email \in MailAddress => users[j].email = mailbox[x]
             /\ zitadel[x] # "gone" => Complete(users[j])
    BY DEF Accounts, RowsMailed, Born, Gone
  <2> QED BY <1>2, <1>5, <2>1
<1>7. GoneKept'
  BY <1>1, <1>2 DEF Accounts, GoneKept, Gone
<1>8. UnlinkedMet'
  BY <1>1, <1>2, <1>5 DEF Accounts, UnlinkedMet, Gone, IsRow
<1>9. OneAlive'
  <2> SUFFICES ASSUME NEW x \in Identities, NEW y \in Identities, x # y, mailbox[x] = mailbox[y],
                      zitadel'[x] = "alive", zitadel'[y] = "alive"
               PROVE  FALSE
    BY <1>1 DEF OneAlive, Alive
  <2> QED BY <1>1 DEF Accounts, OneAlive, Alive
<1> QED BY <1>4, <1>6, <1>7, <1>8, <1>9 DEF Accounts

\* A request that begins knows nothing yet.
LEMMA BeginsAccounts ==
  ASSUME UserInv, Accounts, NEW r \in UserRequests, NEW z \in Identities, RequestBegins(r, z)
  PROVE  Accounts'
<1>1. /\ CallMoves(r) /\ UNCHANGED <<mailbox, zitadel, users>> /\ req[r] = NotBegun
      /\ req'[r].at = "findIdentity" /\ req'[r].op \in {"read", "update", "delete"}
  BY BeginsFacts
<1>2. CallQuiet(req[r])' /\ req[r].at # "anonymise"
  BY <1>1, UserValues DEF CallQuiet, OnRow, Erasing
<1> QED BY <1>1, <1>2, ReadOnlyAccounts

\* Faults and overlapped erasures are not forgotten.
LEMMA QuietBefore ==
  ASSUME UserInv, [UserNext]_userVars, Quiet'
  PROVE  Quiet
<1>1. userFaults \in Nat /\ disturbed \subseteq RowIds
  BY DEF UserInv, UserTypes
<1>2. CASE UNCHANGED <<disturbed, userFaults>>
  BY <1>2 DEF Quiet
<1>3. ASSUME NEW r \in UserRequests, FindEmail(r) \/ LinkRow(r) \/ InsertRow(r) \/ Recover(r)
      PROVE  Quiet
  <2>1. (userFaults' = userFaults \/ UserFault) /\ disturbed \subseteq disturbed'
    BY <1>3 DEF FindEmail, Sees, LinkRow, InsertRow, Recover, Meets
  <2> QED BY <1>1, <2>1 DEF Quiet, UserFault
<1>4. ASSUME NEW r \in UserRequests, Enrich(r) \/ FindIdentity(r) PROVE Quiet
  <2>1. disturbed' = disturbed /\ (userFaults' = userFaults \/ UserFault)
    BY <1>4 DEF Enrich, FindIdentity, Sees
  <2> QED BY <1>1, <2>1 DEF Quiet, UserFault
<1>5. ASSUME NEW r \in UserRequests, Anonymise(r) \/ UpdateMe(r) PROVE Quiet
  <2>1. userFaults' = userFaults /\ disturbed \subseteq disturbed'
    BY <1>5 DEF Anonymise, UpdateMe
  <2> QED BY <2>1 DEF Quiet
<1>6. ASSUME NEW r \in UserRequests, Fails(r) PROVE Quiet
  BY <1>1, <1>6 DEF Fails, UserFault, Quiet
<1>7. ASSUME NEW z \in Identities, LogIn(z) \/ \E r \in UserRequests : RequestBegins(r, z)
      PROVE  Quiet
  BY <1>2, <1>7 DEF LogIn, RequestBegins, OnlyReq
<1>8. ASSUME NEW r \in UserRequests, LoadUser(r) \/ DropIdentity(r) \/ DropPushTokens(r)
      PROVE  Quiet
  BY <1>2, <1>8 DEF LoadUser, OnlyReq, DropIdentity, DropPushTokens
<1>9. CASE UNCHANGED userVars
  BY <1>2, <1>9 DEF userVars
<1> QED BY <1>3, <1>4, <1>5, <1>6, <1>7, <1>8, <1>9 DEF UserNext, UserStep

\* The invariant of accounts holds at first.
LEMMA InitAccounts == UserInit => QuietInv
<1> SUFFICES ASSUME UserInit PROVE Accounts
  BY DEF QuietInv
<1> DEFINE m0 == mailbox[CHOOSE z \in Identities : TRUE]
           migrated == NewRow("", m0, "")
<1>1. m0 \in MailAddress
  <2>1. \A z \in Identities : mailbox[z] \in MailAddress
    <3>1. mailbox \in Mailboxes
      BY DEF UserInit
    <3> QED BY <3>1 DEF MailAddress
  <2>2. (CHOOSE z \in Identities : TRUE) \in Identities
    <3>1. \E z \in Identities : TRUE
      BY UserAssumption
    <3> QED BY <3>1, Zenon
  <2> QED BY <2>1, <2>2
<1> HIDE DEF m0
<1>2. migrated.identity = "" /\ migrated.email = m0 /\ migrated.erased = ""
  BY DEF NewRow
<1> HIDE DEF migrated
<1>3. \A i \in RowIds : users[i] \in {Vacant, migrated}
  BY DEF UserInit, migrated, m0
<1>4. \A z \in Identities : zitadel[z] = "unborn"
  BY DEF UserInit
<1>5. \A i \in RowIds : /\ users[i].identity = ""
                        /\ IsRow(i) => users[i].email \in MailAddress /\ users[i].erased = ""
  BY <1>1, <1>2, <1>3, UserValues DEF IsRow
<1>6. RowsMailed /\ UnlinkedMet
  BY <1>5 DEF RowsMailed, UnlinkedMet
<1>7. OneAlive /\ GoneKept
  BY <1>4 DEF OneAlive, GoneKept, Alive, Gone
<1>8. CallsQuiet
  <2> SUFFICES ASSUME NEW r \in UserRequests PROVE CallQuiet(req[r])
    BY DEF CallsQuiet
  <2>1. req[r] = NotBegun
    BY DEF UserInit
  <2> QED BY <2>1, UserValues DEF CallQuiet, OnRow, Erasing
<1> QED BY <1>6, <1>7, <1>8 DEF Accounts

\* Every step keeps it, while nothing fails and no erasure is overlapped.
LEMMA NextAccounts ==
  UserInv /\ UserInv' /\ QuietInv /\ [UserNext]_userVars => QuietInv'
<1> SUFFICES ASSUME UserInv, UserInv', QuietInv, [UserNext]_userVars, Quiet'
             PROVE  Accounts'
  BY DEF QuietInv
<1>0. Quiet /\ Accounts
  BY QuietBefore DEF QuietInv
<1>1. ASSUME NEW z \in Identities, LogIn(z) PROVE Accounts'
  BY <1>0, <1>1, LogInAccounts
<1>2. ASSUME NEW z \in Identities, NEW r \in UserRequests, RequestBegins(r, z) PROVE Accounts'
  BY <1>0, <1>2, BeginsAccounts
<1>3. ASSUME NEW r \in UserRequests, UserStep(r) PROVE Accounts'
  <2>1. CASE FindIdentity(r)
    BY <1>0, <2>1, FindIdentityAccounts
  <2>2. CASE Enrich(r)
    BY <1>0, <2>2, EnrichAccounts
  <2>3. CASE FindEmail(r)
    BY <1>0, <2>3, FindEmailAccounts
  <2>4. CASE LinkRow(r)
    BY <1>0, <2>4, LinkRowAccounts
  <2>5. CASE InsertRow(r)
    BY <1>0, <2>5, InsertRowAccounts
  <2>6. CASE Recover(r)
    BY <1>0, <2>6, RecoverAccounts
  <2>7. CASE LoadUser(r)
    BY <1>0, <2>7, LoadUserAccounts
  <2>8. CASE UpdateMe(r)
    BY <1>0, <2>8, UpdateMeAccounts
  <2>9. CASE DropIdentity(r)
    BY <1>0, <2>9, DropIdentityAccounts
  <2>10. CASE Anonymise(r)
    BY <1>0, <2>10, AnonymiseAccounts
  <2>11. CASE DropPushTokens(r)
    <3>1. /\ req[r].at = "dropPushTokens" /\ AnswerRequest(r, "ok", req[r].row)
          /\ UNCHANGED <<mailbox, zitadel, users>>
      BY <2>11 DEF DropPushTokens
    <3>2. CallShape(req[r]) /\ CallQuiet(req[r])
      BY <1>0, <3>1, WorkingQuiet
    <3>3. req[r].row \in RowIds /\ users[req[r].row].identity = req[r].identity
      BY <3>1, <3>2 DEF CallShape, CallQuiet, OnRow, Erasing
    <3> QED BY <1>0, <3>1, <3>3, AnswerAccounts
  <2>12. CASE Fails(r)
    BY <2>12 DEF Fails, UserFault, Quiet, UserInv, UserTypes
  <2> QED BY <1>3, <2>1, <2>2, <2>3, <2>4, <2>5, <2>6, <2>7, <2>8, <2>9, <2>10, <2>11, <2>12
          DEF UserStep
<1>4. CASE UNCHANGED userVars
  <2>0. /\ mailbox' = mailbox /\ zitadel' = zitadel /\ users' = users /\ req' = req
    BY <1>4 DEF userVars
  <2>1. OneAlive' /\ RowsMailed' /\ GoneKept' /\ UnlinkedMet'
    <3>1. OneAlive'
      BY <1>0, <2>0 DEF Accounts, OneAlive, Alive
    <3>2. RowsMailed'
      BY <1>0, <2>0 DEF Accounts, RowsMailed, IsRow, Born, Gone, Complete
    <3>3. GoneKept'
      BY <1>0, <2>0 DEF Accounts, GoneKept, Gone
    <3>4. UnlinkedMet'
      BY <1>0, <2>0 DEF Accounts, UnlinkedMet, IsRow, Gone
    <3> QED BY <3>1, <3>2, <3>3, <3>4
  <2>2. CallsQuiet'
    <3> SUFFICES ASSUME NEW r \in UserRequests PROVE CallQuiet(req[r])'
      BY DEF CallsQuiet
    <3>1. CallQuiet(req[r]) /\ req'[r] = req[r]
      BY <1>0, <2>0 DEF Accounts, CallsQuiet
    <3>2. RowsKept
      BY <2>0 DEF RowsKept, Gone, IsRow
    <3>3. req[r].at = "link" => LinkKnows(req[r].identity, req[r].row)'
      BY <2>0, <3>1 DEF CallQuiet, LinkKnows, Gone
    <3> QED BY <3>1, <3>2, <3>3, StillQuiet
  <2> QED BY <2>1, <2>2 DEF Accounts
<1> QED BY <1>1, <1>2, <1>3, <1>4 DEF UserNext

\* An identity has one account: all the requests that a token of it ever began and that found
\* a row found the same, and where nothing failed and no erasure was overlapped only who was
\* deleted was turned away.
THEOREM OneAccount == UserSpec => []OneAccountEach
<1>1. UserInv /\ QuietInv => OneAccountEach
  <2> SUFFICES ASSUME UserInv, Accounts PROVE OneRowPerIdentity /\ NobodyTurnedAway
    BY DEF QuietInv, Quiet, OneAccountEach, OneRowPerIdentity, NobodyTurnedAway
  <2>1. OneRowPerIdentity
    <3> SUFFICES ASSUME NEW r \in UserRequests, NEW s \in UserRequests,
                        req[r].at = "ended", req[s].at = "ended",
                        req[r].identity = req[s].identity, req[r].row # NoRow, req[s].row # NoRow
                 PROVE  req[r].row = req[s].row
      BY DEF OneRowPerIdentity
    <3>1. PICK i \in RowIds, j \in RowIds : i = req[r].row /\ j = req[s].row
      BY DEF UserInv, UserTypes, UserCall
    <3>2. users[i].identity = req[r].identity /\ users[j].identity = req[r].identity
      BY <3>1 DEF Accounts, CallsQuiet, CallQuiet
    <3>3. req[r].identity # ""
      BY WorkingQuiet
    <3>4. users[i] # Vacant /\ users[j] # Vacant
      BY <3>2, <3>3, UserValues
    <3>5. IsRow(i) /\ IsRow(j)
      BY <3>4, RowsThere DEF UserInv
    <3> QED BY <3>1, <3>2, <3>3, <3>5 DEF UserInv, RowsUnique
  <2>2. NobodyTurnedAway
    BY DEF NobodyTurnedAway, Accounts, CallsQuiet, CallQuiet, Gone
  <2> QED BY <2>1, <2>2
<1>2. UserSpec => []UserInv
  BY AlwaysUserInv
<1>3. UserSpec => []QuietInv
  <2>1. UserInit => QuietInv
    BY InitAccounts
  <2>2. UserInv /\ UserInv' /\ QuietInv /\ [UserNext]_userVars => QuietInv'
    BY NextAccounts
  <2> QED BY <1>2, <2>1, <2>2, PTL DEF UserSpec
<1> QED BY <1>1, <1>2, <1>3, PTL
=============================================================================
