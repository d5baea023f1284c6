--------------------------- MODULE AccountsProofs ---------------------------
(***************************************************************************)
(* Proofs about the accounts: that the idempotency gate serializes and     *)
(* replays the requests of a key, and that a sign-in ends as it would have *)
(* alone and its last code is the one Zitadel accepts, for any requests.   *)
(***************************************************************************)
EXTENDS Login, IdempotencyGate, TLAPS
-----------------------------------------------------------------------------
(* Signing in                                                              *)

FirstPhase == {"find", "create", "intent", "findIdp", "createIdp", "poll"}
Within == {"resend", "verify", "profile"}

LoginOp == {"none", "otp", "idp"} \cup Within
LoginPhase == {"waiting", "enroll", "session", "link", "deliver", "needs"}
                \cup FirstPhase \cup Within \cup Answers

\* What a request asks for decides where it can be.
OpAt(op, at) ==
  /\ at \in {"find", "create", "enroll"} => op = "otp"
  /\ at \in {"intent", "findIdp", "createIdp", "link"} => op = "idp"
  /\ at \in {"poll", "session"} => op \in {"otp", "idp"}
  /\ at = "deliver" => op \in {"otp", "resend"}
  /\ at = "needs" => op \in {"verify", "idp"}
  /\ at \in Within => op = at

LoginCall == [op: LoginOp, at: LoginPhase, login: LoginNames \cup {""},
              session: LoginRequests \cup {0}, code: Nat, told: BOOLEAN]
Account == [exists: BOOLEAN, visible: BOOLEAN, enrolled: BOOLEAN, linked: BOOLEAN,
            name: {"", "real", Placeholder}]
Session == [login: LoginNames \cup {""}, code: Nat, verified: BOOLEAN]

LoginTypes ==
  /\ account \in [LoginNames -> Account]
  /\ sessions \in [LoginRequests -> Session]
  /\ login \in [LoginRequests -> LoginCall]
  /\ codes \in Nat
  /\ inbox \in [LoginRequests -> Nat]
  /\ stash \in [ReviewLogins -> [code: Nat, session: LoginRequests \cup {0}]]
  /\ loginFaults \in Nat

\* What a request and the account and session it is about know of each other.
CallKnows(r) ==
  LET c == login[r] IN
  /\ c.op = "none" => c = Unsent
  /\ OpAt(c.op, c.at)
  /\ c.op \in {"otp", "idp"} => c.login \in LoginNames /\ c.session = r
  /\ c.op \in {"otp", "idp"} /\ c.at \in {"deliver", "needs", "ok"} =>
       sessions[r].login = c.login /\ account[c.login].visible
  /\ c.op \in Within =>
       /\ c.session \in LoginRequests \ {r}
       /\ login[c.session].op \in {"otp", "idp"} /\ login[c.session].at = "ok"
       /\ c.login = login[c.session].login
  /\ c.at \in {"poll", "enroll", "link"} => account[c.login].exists

CallsKnow == \A r \in LoginRequests : CallKnows(r)

AccountsExist ==
  \A m \in LoginNames :
    account[m].visible \/ account[m].enrolled \/ account[m].linked => account[m].exists

LoginInv == LoginTypes /\ CallsKnow /\ AccountsExist

\* The types of the constants the state starts from.
LEMMA LoginValues ==
  /\ Unsent \in LoginCall /\ OpAt("none", "waiting") /\ Unsent.op = "none"
  /\ Unsent.at = "waiting" /\ Unsent.session = 0 /\ Unsent.code = NoOtp
  /\ NoAccount \in Account /\ KnownAccount("real") \in Account /\ NoSession \in Session
  /\ FirstPhase \cup Within \cup Answers \cup {"enroll", "session", "link", "deliver", "needs"}
       \subseteq LoginPhase
<1>1. Unsent \in LoginCall /\ OpAt("none", "waiting")
  BY DEF Unsent, LoginCall, LoginOp, LoginPhase, OpAt, NoOtp, Within
<1>2. NoAccount \in Account /\ KnownAccount("real") \in Account /\ NoSession \in Session
  BY DEF Account, NoAccount, KnownAccount, Session, NoSession, NoOtp
<1> QED BY <1>1, <1>2 DEF Unsent, LoginPhase

\* The invariant holds at first.
LEMMA InitLoginInv == LoginInit => LoginInv
<1> SUFFICES ASSUME LoginInit PROVE LoginInv
  OBVIOUS
<1>1. /\ account \in [LoginNames -> Account] /\ sessions \in [LoginRequests -> Session]
      /\ login \in [LoginRequests -> LoginCall]
  BY LoginValues DEF LoginInit
<1>2. /\ codes \in Nat /\ inbox \in [LoginRequests -> Nat] /\ loginFaults \in Nat
      /\ stash \in [ReviewLogins -> [code: Nat, session: LoginRequests \cup {0}]]
  BY DEF LoginInit, NoOtp
<1>3. \A r \in LoginRequests : login[r] = Unsent
  BY DEF LoginInit
<1>4. CallsKnow
  BY <1>3, LoginValues DEF CallsKnow, CallKnows, Within
<1>5. AccountsExist
  <2>1. \A m \in LoginNames : account[m] = NoAccount \/ account[m] = KnownAccount("real")
    BY DEF LoginInit
  <2>2. /\ ~NoAccount.visible /\ ~NoAccount.enrolled /\ ~NoAccount.linked
        /\ KnownAccount("real").exists
    BY DEF NoAccount, KnownAccount
  <2> QED BY <2>1, <2>2 DEF AccountsExist
<1> QED BY <1>1, <1>2, <1>4, <1>5 DEF LoginInv, LoginTypes

\* A step of r leaves the other requests alone, and of r what it asks for.
LoginMoves(r) ==
  /\ login' \in [LoginRequests -> LoginCall]
  /\ \A q \in LoginRequests \ {r} : login'[q] = login[q]
  /\ login'[r].op = login[r].op /\ login'[r].login = login[r].login
  /\ login'[r].session = login[r].session

\* A request with another place, code or answer is a request.
LEMMA CallFields ==
  ASSUME NEW c \in LoginCall, NEW at \in LoginPhase
  PROVE  /\ [c EXCEPT !.at = at] \in LoginCall
         /\ \A code \in Nat : [c EXCEPT !.at = at, !.code = code] \in LoginCall
         /\ \A told \in BOOLEAN : [c EXCEPT !.at = at, !.told = told] \in LoginCall
BY DEF LoginCall

\* A request goes on, or answers.
LEMMA AtFacts ==
  ASSUME LoginTypes, NEW r \in LoginRequests, NEW at \in LoginPhase, LoginAt(r, at)
  PROVE  /\ LoginMoves(r) /\ login'[r].at = at
         /\ login'[r].code = login[r].code /\ login'[r].told = login[r].told
<1>1. login[r] \in LoginCall /\ [login[r] EXCEPT !.at = at] \in LoginCall
  BY CallFields DEF LoginTypes
<1>2. login' = [login EXCEPT ![r] = [login[r] EXCEPT !.at = at]]
  BY <1>1 DEF LoginAt, LoginTypes
<1>3. /\ login' \in [LoginRequests -> LoginCall] /\ login'[r] = [login[r] EXCEPT !.at = at]
      /\ \A q \in LoginRequests \ {r} : login'[q] = login[q]
  BY <1>1, <1>2 DEF LoginTypes
<1> QED BY <1>1, <1>3 DEF LoginMoves, LoginCall

\* A request that answers.
LEMMA RespondFacts ==
  ASSUME LoginTypes, NEW r \in LoginRequests, NEW answer \in Answers, Respond(r, answer)
  PROVE  LoginMoves(r) /\ login'[r].at = answer /\ login'[r].told = login[r].told
<1>1. login[r] \in LoginCall /\ [login[r] EXCEPT !.at = answer, !.code = NoOtp] \in LoginCall
  BY CallFields, LoginValues DEF LoginTypes, NoOtp
<1>2. login' = [login EXCEPT ![r] = [login[r] EXCEPT !.at = answer, !.code = NoOtp]]
  BY <1>1 DEF Respond, LoginTypes
<1>3. /\ login' \in [LoginRequests -> LoginCall]
      /\ login'[r] = [login[r] EXCEPT !.at = answer, !.code = NoOtp]
      /\ \A q \in LoginRequests \ {r} : login'[q] = login[q]
  BY <1>1, <1>2 DEF LoginTypes
<1> QED BY <1>1, <1>3 DEF LoginMoves, LoginCall

\* What accounts only gain.
AccountsGrow ==
  /\ account' \in [LoginNames -> Account]
  /\ \A m \in LoginNames :
       /\ account[m].exists => account'[m].exists
       /\ account[m].visible => account'[m].visible
       /\ account[m].enrolled => account'[m].enrolled
       /\ account[m].linked => account'[m].linked
       /\ account[m].exists /\ account[m].name # Placeholder => account'[m].name # Placeholder
       /\ account'[m].visible \/ account'[m].enrolled \/ account'[m].linked
            => account'[m].exists

\* A step that writes no account takes nothing from one.
LEMMA SameAccounts ==
  ASSUME LoginInv, account' = account
  PROVE  AccountsGrow
BY DEF LoginInv, LoginTypes, AccountsExist, AccountsGrow

\* An account is enrolled, linked, named, seen or made.
LEMMA AccountFields ==
  ASSUME NEW a \in Account
  PROVE  /\ [a EXCEPT !.enrolled = TRUE] \in Account /\ [a EXCEPT !.linked = TRUE] \in Account
         /\ [a EXCEPT !.visible = TRUE] \in Account /\ [a EXCEPT !.name = "real"] \in Account
BY DEF Account

\* A step that writes the account of one login.
LEMMA OneAccountGrows ==
  ASSUME LoginInv, NEW m \in LoginNames, NEW a \in Account, account' = [account EXCEPT ![m] = a],
         a.exists, account[m].exists =>
           /\ account[m].visible => a.visible
           /\ account[m].enrolled => a.enrolled
           /\ account[m].linked => a.linked
           /\ account[m].name # Placeholder => a.name # Placeholder
  PROVE  AccountsGrow /\ account'[m] = a
<1>1. /\ account' \in [LoginNames -> Account] /\ account'[m] = a
      /\ \A n \in LoginNames \ {m} : account'[n] = account[n]
  BY DEF LoginInv, LoginTypes
<1>2. AccountsExist
  BY DEF LoginInv
<1> QED BY <1>1, <1>2 DEF AccountsGrow, AccountsExist

\* The sessions of other requests stay theirs.
SessionsStay(r) ==
  /\ sessions' \in [LoginRequests -> Session]
  /\ \A s \in LoginRequests \ {r} : sessions'[s].login = sessions[s].login

\* A step of r that is about its own account and session keeps what all know.
LEMMA CallsKnowAfter ==
  ASSUME LoginInv, NEW r \in LoginRequests, LoginMoves(r), AccountsGrow, SessionsStay(r),
         login[r].at # "ok", login[r].op # "none",
         OpAt(login[r].op, login'[r].at),
         login[r].op \in {"otp", "idp"} /\ login'[r].at \in {"deliver", "needs", "ok"} =>
           sessions'[r].login = login[r].login /\ account'[login[r].login].visible,
         login'[r].at \in {"poll", "enroll", "link"} => account'[login[r].login].exists
  PROVE  CallsKnow'
<1>a. CallsKnow
  BY DEF LoginInv
<1>1. CallKnows(r)'
  BY <1>a DEF CallsKnow, CallKnows, LoginMoves
<1>2. ASSUME NEW q \in LoginRequests \ {r} PROVE CallKnows(q)'
  <2>0. CallKnows(q) /\ login'[q] = login[q]
    BY <1>a DEF CallsKnow, LoginMoves
  <2>1. login[q].op \in {"otp", "idp"} => login[q].login \in LoginNames
    BY <2>0 DEF CallKnows
  <2>2. login[q].at \in {"poll", "enroll", "link"} => account'[login[q].login].exists
    <3> SUFFICES ASSUME login[q].at \in {"poll", "enroll", "link"}
                 PROVE  account'[login[q].login].exists
      OBVIOUS
    <3>1. login[q].op \in {"otp", "idp"}
      BY <2>0 DEF CallKnows, OpAt
    <3> QED BY <2>0, <2>1, <3>1 DEF CallKnows, AccountsGrow
  <2>3. login[q].op \in {"otp", "idp"} /\ login[q].at \in {"deliver", "needs", "ok"} =>
          sessions'[q].login = login[q].login /\ account'[login[q].login].visible
    BY <2>0, <2>1 DEF CallKnows, SessionsStay, AccountsGrow
  <2>4. login[q].op \in Within => login'[login[q].session] = login[login[q].session]
    BY <2>0 DEF CallKnows, LoginMoves
  <2> QED BY <2>0, <2>2, <2>3, <2>4 DEF CallKnows
<1> QED BY <1>1, <1>2 DEF CallsKnow

\* What is left to show of a step of r.
LEMMA LoginInvAfter ==
  ASSUME NEW r \in LoginRequests, LoginMoves(r), CallsKnow', AccountsGrow, SessionsStay(r),
         codes' \in Nat, inbox' \in [LoginRequests -> Nat], loginFaults' \in Nat,
         stash' \in [ReviewLogins -> [code: Nat, session: LoginRequests \cup {0}]]
  PROVE  LoginInv'
BY DEF LoginMoves, AccountsGrow, SessionsStay, LoginInv, LoginTypes, AccountsExist

\* What a request that steps knows.
LEMMA SteppingCall ==
  ASSUME LoginInv, NEW r \in LoginRequests, login[r].at \notin Answers \cup {"waiting"}
  PROVE  /\ login[r].op # "none" /\ login[r].login \in LoginNames /\ login[r].at # "ok"
         /\ login[r].op \in {"otp", "idp"} \cup Within
         /\ login[r].op \in Within => login[r].session \in LoginRequests \ {r}
         /\ login[r].op \in {"otp", "idp"} => login[r].session = r
         /\ account[login[r].login] \in Account
<1>1. CallKnows(r) /\ login[r] \in LoginCall
  BY DEF LoginInv, CallsKnow, LoginTypes
<1>2. login[r].op # "none"
  BY <1>1, LoginValues DEF CallKnows
<1>3. login[r].op \in {"otp", "idp"} \cup Within
  BY <1>1, <1>2 DEF LoginCall, LoginOp
<1>4. login[r].login \in LoginNames
  <2>1. CASE login[r].op \in {"otp", "idp"}
    BY <1>1, <2>1 DEF CallKnows
  <2>2. CASE login[r].op \in Within
    <3>1. login[r].session \in LoginRequests /\ login[login[r].session].op \in {"otp", "idp"}
          /\ login[r].login = login[login[r].session].login
      BY <1>1, <2>2 DEF CallKnows
    <3> QED BY <3>1 DEF LoginInv, CallsKnow, CallKnows
  <2> QED BY <1>3, <2>1, <2>2
<1> QED BY <1>1, <1>2, <1>3, <1>4 DEF CallKnows, Answers, LoginInv, LoginTypes

\* What every step of r leaves as it was.
LoginFrame(r) == LoginMoves(r) /\ AccountsGrow /\ SessionsStay(r)

\* The look-up of the address keeps the invariant.
LEMMA FindUserInv ==
  ASSUME LoginInv, NEW r \in LoginRequests, NEW found, NEW unknown, FindUser(r, found, unknown),
         \/ login[r].at = "find" /\ found = "enroll" /\ unknown = "create"
         \/ login[r].at = "findIdp" /\ found = "link" /\ unknown = "createIdp"
  PROVE  LoginInv' /\ LoginFrame(r)
<1>1. /\ login[r].op # "none" /\ login[r].login \in LoginNames /\ login[r].at # "ok"
  BY SteppingCall DEF Answers
<1>2. PICK at \in {found, unknown} :
        LoginAt(r, at) /\ (at = found => account[login[r].login].visible)
  BY DEF FindUser
<1>3. LoginMoves(r) /\ login'[r].at = at
  BY <1>2, AtFacts, LoginValues DEF LoginInv, FirstPhase
<1>4. AccountsGrow /\ SessionsStay(r)
  BY SameAccounts DEF FindUser, UnchangedZitadel, LoginInv, LoginTypes, SessionsStay
<1>5. OpAt(login[r].op, at)
  BY <1>2 DEF OpAt, LoginInv, CallsKnow, CallKnows, Within
<1>6. at = found => account'[login[r].login].exists
  BY <1>1, <1>2, <1>4 DEF AccountsGrow
<1>7. CallsKnow'
  BY <1>1, <1>2, <1>3, <1>4, <1>5, <1>6, CallsKnowAfter
<1> QED
  BY <1>3, <1>4, <1>7, LoginInvAfter
  DEF FindUser, UnchangedZitadel, UnchangedMail, LoginFault, NoLoginFault, LoginInv, LoginTypes,
      LoginFrame

\* Creating the user keeps it.
LEMMA CreateUserInv ==
  ASSUME LoginInv, NEW r \in LoginRequests, NEW name \in {"real", Placeholder},
         NEW linked \in BOOLEAN, NEW refusal \in Answers \ {"ok"},
         CreateUser(r, name, linked, refusal), login[r].at \in {"create", "createIdp"}
  PROVE  LoginInv' /\ LoginFrame(r)
<1> DEFINE m == login[r].login
<1>1. /\ login[r].op \in {"otp", "idp"} /\ m \in LoginNames /\ login[r].at # "ok"
  BY SteppingCall DEF Answers, LoginInv, CallsKnow, CallKnows, OpAt
<1>2. CASE account[m].exists
  <2>1. LoginMoves(r) /\ login'[r].at = refusal
    BY <1>2, RespondFacts DEF CreateUser, LoginInv
  <2>2. AccountsGrow /\ SessionsStay(r)
    BY <1>2, SameAccounts DEF CreateUser, LoginInv, LoginTypes, SessionsStay
  <2>3. OpAt(login[r].op, refusal) /\ refusal \notin {"poll", "enroll", "link", "deliver", "needs", "ok"}
    BY DEF OpAt, Answers, Within
  <2>4. CallsKnow'
    BY <1>1, <2>1, <2>2, <2>3, CallsKnowAfter
  <2> QED
    BY <2>1, <2>2, <2>4, LoginInvAfter
    DEF CreateUser, UnchangedMail, NoLoginFault, LoginInv, LoginTypes, LoginFrame
<1>3. CASE ~account[m].exists
  <2> DEFINE new == [KnownAccount(name) EXCEPT !.visible = FALSE, !.linked = linked]
  <2>1. new \in Account /\ new.exists
    BY DEF KnownAccount, Account
  <2>2. account' = [account EXCEPT ![m] = new]
    BY <1>3 DEF CreateUser
  <2> HIDE DEF new
  <2>3. AccountsGrow /\ account'[m] = new
    BY <1>1, <1>3, <2>1, <2>2, OneAccountGrows
  <2>4. LoginMoves(r) /\ login'[r].at = "poll"
    BY <1>3, AtFacts, LoginValues DEF CreateUser, LoginInv, FirstPhase
  <2>5. SessionsStay(r)
    BY DEF CreateUser, LoginInv, LoginTypes, SessionsStay
  <2>6. CallsKnow'
    BY <1>1, <2>1, <2>3, <2>4, <2>5, CallsKnowAfter DEF OpAt, Within
  <2> QED
    BY <2>3, <2>4, <2>5, <2>6, LoginInvAfter
    DEF CreateUser, UnchangedMail, NoLoginFault, LoginInv, LoginTypes, LoginFrame
<1> QED BY <1>2, <1>3

\* Waiting for the projection keeps it.
LEMMA PollInv ==
  ASSUME LoginInv, NEW r \in LoginRequests, PollProjection(r)
  PROVE  LoginInv' /\ LoginFrame(r)
<1>1. /\ login[r].op \in {"otp", "idp"} /\ login[r].login \in LoginNames
      /\ login[r].at = "poll" /\ account[login[r].login].exists
  BY SteppingCall DEF PollProjection, Answers, LoginInv, CallsKnow, CallKnows, OpAt
<1>2. PICK at \in {"enroll", "session"} :
        LoginAt(r, at) /\ (at = "enroll" <=> login[r].op = "otp")
  BY DEF PollProjection, WaitForProjection
<1>3. LoginMoves(r) /\ login'[r].at = at
  BY <1>2, AtFacts, LoginValues DEF LoginInv
<1>4. AccountsGrow /\ SessionsStay(r)
  BY SameAccounts DEF PollProjection, UnchangedZitadel, LoginInv, LoginTypes, SessionsStay
<1>5. CallsKnow'
  BY <1>1, <1>2, <1>3, <1>4, CallsKnowAfter DEF OpAt, Within, AccountsGrow
<1> QED
  BY <1>3, <1>4, <1>5, LoginInvAfter
  DEF PollProjection, WaitForProjection, UnchangedZitadel, UnchangedMail, LoginFault,
      NoLoginFault, LoginInv, LoginTypes, LoginFrame

\* Enrolling the e-mail factor keeps it.
LEMMA EnrollInv ==
  ASSUME LoginInv, NEW r \in LoginRequests, EnsureOtpEmail(r)
  PROVE  LoginInv' /\ LoginFrame(r)
<1> DEFINE m == login[r].login
<1>1. /\ login[r].op = "otp" /\ m \in LoginNames /\ login[r].at = "enroll"
      /\ account[m].exists /\ account[m] \in Account
  BY SteppingCall DEF EnsureOtpEmail, Answers, LoginInv, CallsKnow, CallKnows, OpAt
<1>2. LoginMoves(r) /\ login'[r].at = "session"
  BY AtFacts, LoginValues DEF EnsureOtpEmail, LoginInv
<1>3. AccountsGrow
  <2>1. CASE account' = [account EXCEPT ![m].enrolled = TRUE]
    <3> DEFINE new == [account[m] EXCEPT !.enrolled = TRUE]
    <3>1. new \in Account /\ new.exists /\ new.enrolled
          /\ new.visible = account[m].visible /\ new.linked = account[m].linked
          /\ new.name = account[m].name
      BY <1>1 DEF Account
    <3>2. account' = [account EXCEPT ![m] = new]
      BY <2>1
    <3> HIDE DEF new
    <3> QED BY <1>1, <3>1, <3>2, OneAccountGrows
  <2> QED BY <2>1, SameAccounts DEF EnsureOtpEmail
<1>4. SessionsStay(r)
  BY DEF EnsureOtpEmail, LoginInv, LoginTypes, SessionsStay
<1>5. CallsKnow'
  BY <1>1, <1>2, <1>3, <1>4, CallsKnowAfter DEF OpAt, Within
<1> QED
  BY <1>2, <1>3, <1>4, <1>5, LoginInvAfter
  DEF EnsureOtpEmail, UnchangedMail, LoginFault, NoLoginFault, LoginInv, LoginTypes, LoginFrame

\* A request that only goes on or answers.
LEMMA OnlyGoes ==
  ASSUME LoginInv, NEW r \in LoginRequests, LoginMoves(r), UNCHANGED <<account, sessions>>,
         login[r].op # "none", login[r].at # "ok", OpAt(login[r].op, login'[r].at),
         login[r].op \in {"otp", "idp"} => login'[r].at \notin {"poll", "enroll", "link"},
         login[r].op \in {"otp", "idp"} /\ login'[r].at \in {"deliver", "needs", "ok"} =>
           login[r].at \in {"deliver", "needs"}
  PROVE  CallsKnow' /\ AccountsGrow /\ SessionsStay(r)
<1>1. AccountsGrow /\ SessionsStay(r)
  BY SameAccounts DEF LoginInv, LoginTypes, SessionsStay
<1>2. login[r].op \in {"otp", "idp"} /\ login'[r].at \in {"deliver", "needs", "ok"} =>
        sessions'[r].login = login[r].login /\ account'[login[r].login].visible
  BY DEF LoginInv, CallsKnow, CallKnows
<1>3. login'[r].at \notin {"poll", "enroll", "link"}
  BY DEF OpAt
<1> QED BY <1>1, <1>2, <1>3, CallsKnowAfter

\* A session of a given login, fresh or proven.
LEMMA SessionFields ==
  ASSUME NEW v \in Session
  PROVE  /\ \A m \in LoginNames, code \in Nat :
              /\ [v EXCEPT !.login = m, !.code = code] \in Session
              /\ [v EXCEPT !.login = m, !.code = code].login = m
              /\ [v EXCEPT !.login = m, !.code = code].code = code
         /\ [v EXCEPT !.code = NoOtp, !.verified = TRUE] \in Session
         /\ [v EXCEPT !.code = NoOtp, !.verified = TRUE].login = v.login
         /\ [v EXCEPT !.code = NoOtp, !.verified = TRUE].code = NoOtp
BY DEF Session, NoOtp

\* A new code for session s.
LEMMA NewCodeFacts ==
  ASSUME LoginInv, NEW s \in LoginRequests, NEW m \in LoginNames, NewCode(s, m)
  PROVE  /\ codes' = codes + 1 /\ codes' \in Nat /\ sessions' \in [LoginRequests -> Session]
         /\ sessions'[s].login = m /\ sessions'[s].code = codes + 1
         /\ \A t \in LoginRequests \ {s} : sessions'[t] = sessions[t]
<1>1. codes + 1 \in Nat /\ sessions[s] \in Session
  BY DEF LoginInv, LoginTypes
<1> DEFINE v == [sessions[s] EXCEPT !.login = m, !.code = codes + 1]
<1>2. v \in Session /\ v.login = m /\ v.code = codes + 1
  BY <1>1 DEF Session
<1>3. sessions' = [sessions EXCEPT ![s] = v] /\ codes' = codes + 1
  BY DEF NewCode
<1> HIDE DEF v
<1> QED BY <1>1, <1>2, <1>3 DEF LoginInv, LoginTypes

\* The request that asked for it carries it on.
LEMMA ChallengeFacts ==
  ASSUME LoginInv, NEW r \in LoginRequests, NEW s \in LoginRequests, NEW m \in LoginNames,
         Challenge(r, s, m)
  PROVE  /\ LoginMoves(r) /\ login'[r].at = "deliver" /\ login'[r].code = codes + 1
         /\ login'[r].told = login[r].told
         /\ codes' = codes + 1 /\ sessions' \in [LoginRequests -> Session]
         /\ sessions'[s].login = m /\ sessions'[s].code = codes + 1
         /\ \A t \in LoginRequests \ {s} : sessions'[t] = sessions[t]
<1>1. codes + 1 \in Nat /\ login[r] \in LoginCall
  BY DEF LoginInv, LoginTypes
<1> DEFINE c == [login[r] EXCEPT !.at = "deliver", !.code = codes + 1]
<1>2. /\ c \in LoginCall /\ c.at = "deliver" /\ c.code = codes + 1 /\ c.told = login[r].told
      /\ c.op = login[r].op /\ c.login = login[r].login /\ c.session = login[r].session
  BY <1>1, LoginValues DEF LoginCall
<1>3. login' = [login EXCEPT ![r] = c] /\ NewCode(s, m)
  BY DEF Challenge
<1> HIDE DEF c
<1> QED BY <1>2, <1>3, NewCodeFacts DEF LoginInv, LoginTypes, LoginMoves

\* Creating the session keeps the invariant.
LEMMA CreateSessionInv ==
  ASSUME LoginInv, NEW r \in LoginRequests, CreateSession(r)
  PROVE  LoginInv' /\ LoginFrame(r)
<1> DEFINE m == login[r].login
<1>1. /\ login[r].op \in {"otp", "idp"} /\ m \in LoginNames /\ login[r].at = "session"
  BY SteppingCall DEF CreateSession, Answers
<1>2. AccountsGrow
  BY SameAccounts DEF CreateSession
<1>3. CASE login[r].op = "otp" /\ account[m].visible /\ account[m].enrolled
             /\ Challenge(r, r, m) /\ NoLoginFault
  <2>1. /\ LoginMoves(r) /\ login'[r].at = "deliver" /\ SessionsStay(r)
        /\ sessions'[r].login = m /\ codes' \in Nat
    BY <1>1, <1>3, ChallengeFacts DEF SessionsStay, LoginInv, LoginTypes
  <2>2. account'[m].visible
    BY <1>1, <1>2, <1>3 DEF AccountsGrow
  <2>3. CallsKnow'
    BY <1>1, <1>2, <1>3, <2>1, <2>2, CallsKnowAfter DEF OpAt, Within
  <2> QED
    BY <1>2, <1>3, <2>1, <2>3, LoginInvAfter
    DEF CreateSession, UnchangedMail, NoLoginFault, LoginInv, LoginTypes, LoginFrame
<1>4. CASE /\ login[r].op = "idp" /\ account[m].visible /\ account[m].linked
           /\ sessions' = [sessions EXCEPT ![r] = [NoSession EXCEPT !.login = m, !.verified = TRUE]]
           /\ LoginAt(r, "needs") /\ UNCHANGED codes /\ NoLoginFault
  <2> DEFINE v == [NoSession EXCEPT !.login = m, !.verified = TRUE]
  <2>1. v \in Session /\ v.login = m
    BY <1>1 DEF Session, NoSession, NoOtp
  <2> HIDE DEF v
  <2>2. SessionsStay(r) /\ sessions'[r].login = m
    BY <1>4, <2>1 DEF SessionsStay, LoginInv, LoginTypes, v
  <2>3. LoginMoves(r) /\ login'[r].at = "needs"
    BY <1>4, AtFacts, LoginValues DEF LoginInv
  <2>4. account'[m].visible
    BY <1>1, <1>2, <1>4 DEF AccountsGrow
  <2>5. CallsKnow'
    BY <1>1, <1>2, <1>4, <2>2, <2>3, <2>4, CallsKnowAfter DEF OpAt, Within
  <2> QED
    BY <1>2, <1>4, <2>2, <2>3, <2>5, LoginInvAfter
    DEF CreateSession, UnchangedMail, NoLoginFault, LoginInv, LoginTypes, LoginFrame
<1>5. CASE /\ Respond(r, "empty") \/ Respond(r, "error")
           /\ UNCHANGED <<sessions, codes>> /\ loginFaults' \in Nat
  <2>1. LoginMoves(r) /\ login'[r].at \in {"empty", "error"}
    BY <1>5, RespondFacts DEF LoginInv, Answers
  <2>2. CallsKnow' /\ AccountsGrow /\ SessionsStay(r)
    BY <1>1, <1>5, <2>1, OnlyGoes DEF CreateSession, OpAt, Within
  <2> QED
    BY <1>5, <2>1, <2>2, LoginInvAfter
    DEF CreateSession, UnchangedMail, LoginInv, LoginTypes, LoginFrame
<1> QED
  BY <1>3, <1>4, <1>5 DEF CreateSession, NoLoginFault, LoginFault, LoginInv, LoginTypes

\* Mailing or stashing the code keeps it.
LEMMA DeliverInv ==
  ASSUME LoginInv, NEW r \in LoginRequests, Deliver(r)
  PROVE  LoginInv' /\ LoginFrame(r)
<1>1. /\ login[r].op # "none" /\ login[r].at = "deliver" /\ login[r].login \in LoginNames
      /\ login[r].session \in LoginRequests /\ login[r].code \in Nat
  BY SteppingCall DEF Deliver, Answers, LoginInv, LoginTypes, LoginCall
<1>2. LoginMoves(r) /\ login'[r].at = "ok"
  BY RespondFacts DEF Deliver, LoginInv, Answers
<1>3. CallsKnow' /\ AccountsGrow /\ SessionsStay(r)
  BY <1>1, <1>2, OnlyGoes DEF Deliver, UnchangedZitadel, OpAt, Within
<1>4. /\ inbox' \in [LoginRequests -> Nat]
      /\ stash' \in [ReviewLogins -> [code: Nat, session: LoginRequests \cup {0}]]
  <2>1. CASE StashOrMail(r)
    BY <1>1, <2>1 DEF StashOrMail, LoginInv, LoginTypes
  <2> QED BY <2>1 DEF Deliver, LoginInv, LoginTypes
<1> QED
  BY <1>2, <1>3, <1>4, LoginInvAfter
  DEF Deliver, UnchangedZitadel, LoginFault, NoLoginFault, LoginInv, LoginTypes, LoginFrame

\* A resend keeps it: it challenges the session of a login that was answered.
LEMMA ResendInv ==
  ASSUME LoginInv, NEW r \in LoginRequests, ResendOtp(r)
  PROVE  LoginInv' /\ LoginFrame(r)
<1> DEFINE s == login[r].session
<1>1. /\ login[r].op = "resend" /\ login[r].at = "resend" /\ s \in LoginRequests \ {r}
      /\ sessions[s].login \in LoginNames
  <2>1. /\ login[r].op = "resend" /\ s \in LoginRequests \ {r} /\ login[s].at = "ok"
        /\ login[s].op \in {"otp", "idp"}
    BY SteppingCall DEF ResendOtp, Answers, LoginInv, CallsKnow, CallKnows, OpAt, Within
  <2> QED BY <2>1 DEF ResendOtp, LoginInv, CallsKnow, CallKnows
<1>2. AccountsGrow
  BY SameAccounts DEF ResendOtp
<1>3. CASE Challenge(r, s, sessions[s].login) /\ NoLoginFault
  <2>1. /\ LoginMoves(r) /\ login'[r].at = "deliver" /\ SessionsStay(r) /\ codes' \in Nat
    BY <1>1, <1>3, ChallengeFacts DEF SessionsStay, LoginInv, LoginTypes
  <2>2. CallsKnow'
    BY <1>1, <1>2, <2>1, CallsKnowAfter DEF OpAt, Within
  <2> QED
    BY <1>2, <1>3, <2>1, <2>2, LoginInvAfter
    DEF ResendOtp, NoLoginFault, LoginInv, LoginTypes, LoginFrame
<1>4. CASE /\ Respond(r, "error") /\ LoginFault
           /\ \/ UNCHANGED <<sessions, codes, untidy>>
              \/ NewCode(s, sessions[s].login) /\ untidy' = untidy \cup {s}
  <2>1. LoginMoves(r) /\ login'[r].at = "error"
    BY <1>4, RespondFacts DEF LoginInv, Answers
  <2>2. /\ codes' \in Nat /\ sessions' \in [LoginRequests -> Session]
        /\ \A t \in LoginRequests : sessions'[t].login = sessions[t].login
    BY <1>1, <1>4, NewCodeFacts DEF LoginInv, LoginTypes
  <2>3. SessionsStay(r)
    BY <1>1, <2>2 DEF SessionsStay
  <2>4. CallsKnow'
    BY <1>1, <1>2, <2>1, <2>3, CallsKnowAfter DEF OpAt, Within
  <2> QED
    BY <1>2, <1>4, <2>1, <2>2, <2>3, <2>4, LoginInvAfter
    DEF ResendOtp, LoginFault, LoginInv, LoginTypes, LoginFrame
<1> QED BY <1>3, <1>4 DEF ResendOtp

\* Verifying a code keeps it.
LEMMA VerifyInv ==
  ASSUME LoginInv, NEW r \in LoginRequests, VerifyOtp(r)
  PROVE  LoginInv' /\ LoginFrame(r)
<1> DEFINE s == login[r].session
<1>1. login[r].op = "verify" /\ login[r].at = "verify" /\ s \in LoginRequests \ {r}
  BY SteppingCall DEF VerifyOtp, Answers, LoginInv, CallsKnow, CallKnows, OpAt, Within
<1>2. AccountsGrow
  BY SameAccounts DEF VerifyOtp
<1>3. CASE /\ sessions' = [sessions EXCEPT ![s].code = NoOtp, ![s].verified = TRUE]
           /\ LoginAt(r, "needs") \/ Respond(r, "error")
           /\ loginFaults' \in Nat
  <2> DEFINE v == [sessions[s] EXCEPT !.code = NoOtp, !.verified = TRUE]
  <2>1. v \in Session /\ v.login = sessions[s].login
    BY <1>1, SessionFields DEF LoginInv, LoginTypes
  <2>2. sessions' = [sessions EXCEPT ![s] = v]
    BY <1>1, <1>3 DEF LoginInv, LoginTypes
  <2> HIDE DEF v
  <2>3. SessionsStay(r)
    BY <1>1, <2>1, <2>2 DEF SessionsStay, LoginInv, LoginTypes
  <2>4. LoginMoves(r) /\ login'[r].at \in {"needs", "error"}
    BY <1>3, AtFacts, RespondFacts, LoginValues DEF LoginInv, Answers
  <2>5. CallsKnow'
    BY <1>1, <1>2, <2>3, <2>4, CallsKnowAfter DEF OpAt, Within
  <2> QED
    BY <1>2, <1>3, <2>3, <2>4, <2>5, LoginInvAfter
    DEF VerifyOtp, UnchangedMail, LoginInv, LoginTypes, LoginFrame
<1>4. CASE /\ Respond(r, "invalid") \/ Respond(r, "error")
           /\ UNCHANGED sessions /\ loginFaults' \in Nat
  <2>1. LoginMoves(r) /\ login'[r].at \in {"invalid", "error"}
    BY <1>4, RespondFacts DEF LoginInv, Answers
  <2>2. CallsKnow' /\ AccountsGrow /\ SessionsStay(r)
    BY <1>1, <1>4, <2>1, OnlyGoes DEF VerifyOtp, OpAt, Within
  <2> QED
    BY <1>4, <2>1, <2>2, LoginInvAfter
    DEF VerifyOtp, UnchangedMail, LoginInv, LoginTypes, LoginFrame
<1> QED BY <1>3, <1>4 DEF VerifyOtp, NoLoginFault, LoginFault, LoginInv, LoginTypes

\* Asking whether the profile is complete keeps it.
LEMMA NeedsProfileInv ==
  ASSUME LoginInv, NEW r \in LoginRequests, UserNeedsProfileCompletion(r)
  PROVE  /\ LoginInv' /\ LoginFrame(r) /\ login'[r].at = "ok"
         /\ loginFaults' = 0 => login'[r].told = NeedsProfile(r)
<1>1. login[r].op \in {"verify", "idp"} /\ login[r].at = "needs"
  BY SteppingCall DEF UserNeedsProfileCompletion, Answers, LoginInv, CallsKnow, CallKnows, OpAt
<1>2. /\ LoginMoves(r) /\ login'[r].at = "ok"
      /\ loginFaults' = 0 => login'[r].told = NeedsProfile(r)
  <2>1. CASE login' = [login EXCEPT ![r].at = "ok", ![r].told = NeedsProfile(r)]
    <3> DEFINE c == [login[r] EXCEPT !.at = "ok", !.told = NeedsProfile(r)]
    <3>1. NeedsProfile(r) \in BOOLEAN /\ login[r] \in LoginCall /\ "ok" \in LoginPhase
      BY LoginValues DEF NeedsProfile, LoginInv, LoginTypes, Answers
    <3>2. /\ c \in LoginCall /\ c.at = "ok" /\ c.op = login[r].op
          /\ c.login = login[r].login /\ c.session = login[r].session
          /\ c.told = NeedsProfile(r)
      BY <3>1, CallFields DEF LoginCall
    <3>3. login' = [login EXCEPT ![r] = c]
      BY <2>1 DEF LoginInv, LoginTypes
    <3> HIDE DEF c
    <3> QED BY <3>2, <3>3 DEF LoginInv, LoginTypes, LoginMoves
  <2>2. CASE Respond(r, "ok") /\ LoginFault
    <3>1. loginFaults' # 0
      BY <2>2 DEF LoginFault, LoginInv, LoginTypes
    <3> QED BY <2>2, <3>1, RespondFacts DEF LoginInv, Answers
  <2> QED BY <2>1, <2>2 DEF UserNeedsProfileCompletion
<1>3. CallsKnow' /\ AccountsGrow /\ SessionsStay(r)
  BY <1>1, <1>2, OnlyGoes DEF UserNeedsProfileCompletion, UnchangedZitadel, OpAt, Within
<1> QED
  BY <1>2, <1>3, LoginInvAfter
  DEF UserNeedsProfileCompletion, UnchangedZitadel, UnchangedMail, LoginFault, NoLoginFault,
      LoginInv, LoginTypes, LoginFrame

\* Completing the profile keeps it.
LEMMA ProfileInv ==
  ASSUME LoginInv, NEW r \in LoginRequests, CompleteProfile(r)
  PROVE  LoginInv' /\ LoginFrame(r)
<1> DEFINE m == login[r].login
<1>1. /\ login[r].op = "profile" /\ login[r].at = "profile" /\ m \in LoginNames
      /\ account[m] \in Account /\ account[m].exists
  <2>1. /\ login[r].op = "profile" /\ login[r].at = "profile" /\ m \in LoginNames
        /\ account[m] \in Account
    BY SteppingCall DEF CompleteProfile, Answers, LoginInv, CallsKnow, CallKnows, OpAt, Within
  <2>2. PICK s \in LoginRequests : s = login[r].session /\ login[s].op \in {"otp", "idp"}
          /\ login[s].at = "ok" /\ login[s].login = m
    BY <2>1 DEF LoginInv, CallsKnow, CallKnows, Within
  <2>3. account[m].visible
    BY <2>2 DEF LoginInv, CallsKnow, CallKnows
  <2> QED BY <2>1, <2>3 DEF LoginInv, AccountsExist
<1>2. LoginMoves(r) /\ login'[r].at \in {"ok", "error"}
  BY RespondFacts DEF CompleteProfile, LoginInv, Answers
<1>3. AccountsGrow
  <2>1. CASE account' = [account EXCEPT ![m].name = "real"]
    <3> DEFINE new == [account[m] EXCEPT !.name = "real"]
    <3>1. new \in Account /\ new.exists /\ new.name # Placeholder
          /\ new.visible = account[m].visible /\ new.linked = account[m].linked
          /\ new.enrolled = account[m].enrolled
      BY <1>1 DEF Account, Placeholder
    <3>2. account' = [account EXCEPT ![m] = new]
      BY <2>1
    <3> HIDE DEF new
    <3> QED BY <1>1, <3>1, <3>2, OneAccountGrows
  <2> QED BY <2>1, SameAccounts DEF CompleteProfile
<1>4. SessionsStay(r)
  BY DEF CompleteProfile, LoginInv, LoginTypes, SessionsStay
<1>5. CallsKnow'
  BY <1>1, <1>2, <1>3, <1>4, CallsKnowAfter DEF OpAt, Within
<1> QED
  BY <1>2, <1>3, <1>4, <1>5, LoginInvAfter
  DEF CompleteProfile, UnchangedMail, LoginFault, NoLoginFault, LoginInv, LoginTypes, LoginFrame

\* Reading the social provider's intent keeps it.
LEMMA IntentInv ==
  ASSUME LoginInv, NEW r \in LoginRequests, RetrieveIntent(r)
  PROVE  LoginInv' /\ LoginFrame(r)
<1>1. login[r].op = "idp" /\ login[r].at = "intent"
  BY SteppingCall DEF RetrieveIntent, Answers, LoginInv, CallsKnow, CallKnows, OpAt
<1>2. LoginMoves(r) /\ login'[r].at \in {"session", "findIdp", "error"}
  BY AtFacts, RespondFacts, LoginValues DEF RetrieveIntent, LoginInv, Answers, FirstPhase
<1>3. CallsKnow' /\ AccountsGrow /\ SessionsStay(r)
  BY <1>1, <1>2, OnlyGoes DEF RetrieveIntent, UnchangedZitadel, OpAt, Within
<1> QED
  BY <1>2, <1>3, LoginInvAfter
  DEF RetrieveIntent, UnchangedZitadel, UnchangedMail, LoginFault, NoLoginFault, LoginInv,
      LoginTypes, LoginFrame

\* Linking the provider, or creating its user, keeps it.
LEMMA LinkInv ==
  ASSUME LoginInv, NEW r \in LoginRequests, LinkIdP(r)
  PROVE  LoginInv' /\ LoginFrame(r)
<1> DEFINE m == login[r].login
<1>1. /\ login[r].op = "idp" /\ m \in LoginNames /\ login[r].at = "link"
      /\ account[m].exists /\ account[m] \in Account
  BY SteppingCall DEF LinkIdP, Answers, LoginInv, CallsKnow, CallKnows, OpAt
<1>2. LoginMoves(r) /\ login'[r].at \in {"session", "error"}
  BY AtFacts, RespondFacts, LoginValues DEF LinkIdP, LoginInv, Answers
<1>3. AccountsGrow
  <2>1. CASE account' = [account EXCEPT ![m].linked = TRUE]
    <3> DEFINE new == [account[m] EXCEPT !.linked = TRUE]
    <3>1. new \in Account /\ new.exists /\ new.linked
          /\ new.visible = account[m].visible /\ new.enrolled = account[m].enrolled
          /\ new.name = account[m].name
      BY <1>1 DEF Account
    <3>2. account' = [account EXCEPT ![m] = new]
      BY <2>1
    <3> HIDE DEF new
    <3> QED BY <1>1, <3>1, <3>2, OneAccountGrows
  <2> QED BY <2>1, SameAccounts DEF LinkIdP
<1>4. SessionsStay(r)
  BY DEF LinkIdP, LoginInv, LoginTypes, SessionsStay
<1>5. CallsKnow'
  BY <1>1, <1>2, <1>3, <1>4, CallsKnowAfter DEF OpAt, Within
<1> QED
  BY <1>2, <1>3, <1>4, <1>5, LoginInvAfter
  DEF LinkIdP, UnchangedMail, LoginFault, NoLoginFault, LoginInv, LoginTypes, LoginFrame

\* Every step of a request.
LEMMA LoginStepInv ==
  ASSUME LoginInv, NEW r \in LoginRequests, LoginStep(r)
  PROVE  LoginInv' /\ LoginFrame(r)
<1>1. CASE login[r].at = "find" /\ FindUser(r, "enroll", "create")
  BY <1>1, FindUserInv
<1>2. CASE login[r].at = "create" /\ CreateUser(r, Placeholder, FALSE, "empty")
  BY <1>2, CreateUserInv DEF Answers
<1>3. CASE login[r].at = "findIdp" /\ FindUser(r, "link", "createIdp")
  BY <1>3, FindUserInv
<1>4. CASE CreateIdPUser(r)
  BY <1>4, CreateUserInv DEF CreateIdPUser, Answers
<1> QED
  BY <1>1, <1>2, <1>3, <1>4, PollInv, EnrollInv, CreateSessionInv, DeliverInv, ResendInv,
     VerifyInv, NeedsProfileInv, ProfileInv, IntentInv, LinkInv
  DEF LoginStep

\* c is what r begins with: a sign-in, or something about a session handed out.
BeginsWith(r, c) ==
  /\ login' = [login EXCEPT ![r] = c]
  /\ c.at \in {"find", "intent"} \cup Within /\ OpAt(c.op, c.at) /\ c.op # "none"
  /\ \/ c.op \in {"otp", "idp"} /\ c.login \in LoginNames /\ c.session = r
     \/ /\ c.op \in Within /\ c.session \in LoginRequests \ {r}
        /\ login[c.session].op \in {"otp", "idp"} /\ login[c.session].at = "ok"
        /\ c.login = login[c.session].login

\* A request begins with nothing done.
LEMMA BeginInv ==
  ASSUME LoginInv, NEW r \in LoginRequests, BeginRequest(r)
  PROVE  /\ LoginInv' /\ AccountsGrow /\ login[r] = Unsent
         /\ UNCHANGED <<account, sessions, inbox, stash, loginFaults>>
         /\ login'[r].at \in {"find", "intent"} \cup Within
         /\ login'[r].op # "none"
         /\ \A q \in LoginRequests \ {r} : login'[q] = login[q]
<1>a. LoginTypes /\ CallsKnow /\ login[r] = Unsent
  BY DEF LoginInv, BeginRequest
<1>1. PICK c \in LoginCall : BeginsWith(r, c)
  <2>1. ASSUME NEW op \in {"otp", "idp"}, NEW m \in LoginNames, BeginLogin(r, op, m)
        PROVE  \E c \in LoginCall : BeginsWith(r, c)
    <3> DEFINE c == [Unsent EXCEPT !.op = op, !.login = m, !.session = r,
                                   !.at = IF op = "otp" THEN "find" ELSE "intent"]
    <3>1. /\ c \in LoginCall /\ c.op = op /\ c.login = m /\ c.session = r
          /\ c.at = IF op = "otp" THEN "find" ELSE "intent"
      BY LoginValues DEF Unsent, LoginCall, LoginOp, FirstPhase
    <3>2. login' = [login EXCEPT ![r] = c]
      BY <2>1 DEF BeginLogin
    <3> HIDE DEF c
    <3> QED BY <3>1, <3>2 DEF BeginsWith, OpAt, Within
  <2>2. ASSUME NEW op \in Within, NEW s \in LoginRequests, BeginWithin(r, op, s)
        PROVE  \E c \in LoginCall : BeginsWith(r, c)
    <3>1. s # r /\ login[s].op \in {"otp", "idp"} /\ login[s].at = "ok"
          /\ sessions[s].login = login[s].login /\ login[s].login \in LoginNames
      <4>1. login[s].session = s /\ login[s].at = "ok" /\ login[s] \in LoginCall /\ CallKnows(s)
        BY <2>2, <1>a DEF BeginWithin, LoginTypes, CallsKnow
      <4>2. s # r
        BY <4>1, <1>a, LoginValues
      <4>3. login[s].op \in {"otp", "idp"}
        BY <4>1, LoginValues DEF LoginCall, LoginOp, CallKnows
      <4> QED BY <4>1, <4>2, <4>3 DEF CallKnows
    <3> DEFINE c == [Unsent EXCEPT !.op = op, !.login = sessions[s].login,
                                   !.session = s, !.at = op]
    <3>2. /\ c \in LoginCall /\ c.op = op /\ c.login = sessions[s].login /\ c.session = s
          /\ c.at = op
      BY <3>1, LoginValues DEF Unsent, LoginCall, LoginOp
    <3>3. login' = [login EXCEPT ![r] = c]
      BY <2>2 DEF BeginWithin
    <3> HIDE DEF c
    <3> QED BY <3>1, <3>2, <3>3 DEF BeginsWith, OpAt, Within
  <2>3. Providers \subseteq LoginNames
    BY LoginAssumption
  <2> QED BY <2>1, <2>2, <2>3 DEF BeginRequest, Within
<1>2. /\ login' \in [LoginRequests -> LoginCall] /\ login'[r] = c
      /\ \A q \in LoginRequests \ {r} : login'[q] = login[q]
  BY <1>1, <1>a DEF BeginsWith, LoginTypes
<1>3. UNCHANGED <<account, sessions, codes, inbox, stash, loginFaults>>
  BY DEF BeginRequest, BeginLogin, BeginWithin, UnchangedZitadel, UnchangedMail, NoLoginFault
<1>4. AccountsGrow
  BY <1>3, SameAccounts
<1>5. CallKnows(r)'
  BY <1>1, <1>2 DEF BeginsWith, CallKnows, Within
<1>6. ASSUME NEW q \in LoginRequests \ {r} PROVE CallKnows(q)'
  <2>1. CallKnows(q) /\ login'[q] = login[q]
    BY <1>2, <1>a DEF CallsKnow
  <2>2. login[q].op \in Within => login'[login[q].session] = login[login[q].session]
    BY <2>1, <1>2, <1>a, LoginValues DEF CallKnows
  <2> QED BY <1>3, <2>1, <2>2 DEF CallKnows
<1>7. LoginInv'
  BY <1>2, <1>3, <1>5, <1>6, <1>a DEF LoginInv, LoginTypes, CallsKnow, AccountsExist
<1> QED BY <1>1, <1>2, <1>3, <1>4, <1>7, <1>a DEF BeginsWith

\* The projection catching up keeps it.
LEMMA ProjectionInv ==
  ASSUME LoginInv, NEW m \in LoginNames, ProjectionCatchesUp(m)
  PROVE  LoginInv' /\ AccountsGrow
<1>1. account[m] \in Account /\ account[m].exists
  BY DEF ProjectionCatchesUp, LoginInv, LoginTypes
<1> DEFINE new == [account[m] EXCEPT !.visible = TRUE]
<1>2. new \in Account /\ new.exists /\ new.visible /\ new.linked = account[m].linked
      /\ new.enrolled = account[m].enrolled /\ new.name = account[m].name
  BY <1>1 DEF Account
<1>3. account' = [account EXCEPT ![m] = new]
  BY DEF ProjectionCatchesUp
<1> HIDE DEF new
<1>4. AccountsGrow
  BY <1>1, <1>2, <1>3, OneAccountGrows
<1>5. ASSUME NEW q \in LoginRequests PROVE CallKnows(q)'
  <2>1. CallKnows(q)
    BY DEF LoginInv, CallsKnow
  <2>2. login[q].at \in {"poll", "enroll", "link"} => login[q].login \in LoginNames
    BY <2>1 DEF CallKnows, OpAt
  <2> QED BY <1>4, <2>1, <2>2 DEF ProjectionCatchesUp, CallKnows, AccountsGrow
<1> QED
  BY <1>4, <1>5 DEF ProjectionCatchesUp, UnchangedMail, NoLoginFault, LoginInv, LoginTypes,
                    CallsKnow, AccountsGrow, AccountsExist

\* A challenge running out keeps it.
LEMMA ExpiryInv ==
  ASSUME LoginInv, NEW m \in ReviewLogins, StashExpires(m)
  PROVE  LoginInv' /\ AccountsGrow
<1>1. UNCHANGED <<account, sessions, codes, login, inbox, loginFaults>>
  BY DEF StashExpires, UnchangedZitadel, NoLoginFault
<1>2. stash' \in [ReviewLogins -> [code: Nat, session: LoginRequests \cup {0}]]
  BY DEF StashExpires, LoginInv, LoginTypes, NoOtp
<1> QED BY <1>1, <1>2, SameAccounts DEF LoginInv, LoginTypes, CallsKnow, CallKnows, AccountsExist

\* Every step keeps the invariant, and no account loses what it had.
LEMMA NextLoginInv == LoginInv /\ [LoginNext]_loginVars => LoginInv' /\ AccountsGrow
<1> SUFFICES ASSUME LoginInv, [LoginNext]_loginVars PROVE LoginInv' /\ AccountsGrow
  OBVIOUS
<1>1. CASE UNCHANGED loginVars
  BY <1>1, SameAccounts DEF loginVars, LoginInv, LoginTypes, CallsKnow, CallKnows, AccountsExist
<1> QED
  BY <1>1, BeginInv, LoginStepInv, ProjectionInv, ExpiryInv DEF LoginNext, LoginFrame
-----------------------------------------------------------------------------
(* The code that arrived last                                              *)

\* The code Zitadel accepts is where its customer finds it.
Arrived(s) ==
  LET m == sessions[s].login IN
  IF m \in ReviewLogins THEN stash[m].session = s => stash[m].code = sessions[s].code
  ELSE inbox[s] = sessions[s].code

\* Of a session whose codes did not overlap, one code at most is on its way; it is the
\* one Zitadel accepts, if any, and before it is sent the last one is.
CodeKnown(s) ==
  /\ \A p, q \in InFlight(s) : p = q
  /\ \A q \in InFlight(s) :
       login[q].at = "deliver" => sessions[s].code \in {NoOtp, login[q].code}
  /\ (\A q \in InFlight(s) : login[q].at # "deliver") /\ sessions[s].code # NoOtp => Arrived(s)

CodesKnown == \A s \in LoginRequests \ untidy : CodeKnown(s)

\* A step that sends nothing for s and makes no new code for it.
LEMMA CodeUntouched ==
  ASSUME NEW s \in LoginRequests, CodeKnown(s), InFlight(s)' = InFlight(s),
         \A q \in InFlight(s) : login'[q] = login[q],
         sessions'[s].code = NoOtp \/ sessions'[s] = sessions[s],
         inbox'[s] = inbox[s], \A m \in ReviewLogins : stash'[m] = stash[m] \/ stash'[m].session # s
  PROVE  CodeKnown(s)'
BY DEF CodeKnown, Arrived

\* A step of r that has nothing to do with the mail.
LEMMA QuietStep ==
  ASSUME LoginInv, CodesKnown, NEW r \in LoginRequests,
         \A q \in LoginRequests \ {r} : login'[q] = login[q],
         login[r].at \notin {"resend", "deliver"}, login'[r].at \notin {"resend", "deliver"},
         \A s \in LoginRequests : sessions'[s].code = NoOtp \/ sessions'[s] = sessions[s],
         UnchangedMail
  PROVE  CodesKnown'
<1> SUFFICES ASSUME NEW s \in LoginRequests \ untidy PROVE CodeKnown(s)'
  BY DEF CodesKnown, UnchangedMail
<1>1. InFlight(s)' = InFlight(s) /\ \A q \in InFlight(s) : login'[q] = login[q]
  BY DEF InFlight
<1> QED BY <1>1, CodeUntouched DEF CodesKnown, UnchangedMail

\* A new code goes on its way.
LEMMA ChallengeCode ==
  ASSUME LoginInv, CodesKnown, NEW r \in LoginRequests, NEW s \in LoginRequests,
         NEW m \in LoginNames, Challenge(r, s, m), UnchangedMail, login[r].session = s,
         s \notin untidy => InFlight(s) \subseteq {r},
         \A t \in LoginRequests \ {s} : r \notin InFlight(t)
  PROVE  CodesKnown'
<1>1. /\ LoginMoves(r) /\ login'[r].at = "deliver" /\ login'[r].code = codes + 1
      /\ sessions'[s].code = codes + 1
      /\ \A t \in LoginRequests \ {s} : sessions'[t] = sessions[t]
  BY ChallengeFacts
<1> SUFFICES ASSUME NEW t \in LoginRequests \ untidy PROVE CodeKnown(t)'
  BY DEF CodesKnown, UnchangedMail
<1>2. CASE t = s
  <2>1. InFlight(s)' = {r}
    BY <1>1, <1>2 DEF InFlight, LoginMoves
  <2> QED BY <1>1, <1>2, <2>1 DEF CodeKnown
<1>3. CASE t # s
  <2>1. InFlight(t)' = InFlight(t) /\ \A q \in InFlight(t) : login'[q] = login[q]
    BY <1>1, <1>3 DEF InFlight, LoginMoves
  <2> QED BY <1>1, <1>3, <2>1, CodeUntouched DEF CodesKnown, UnchangedMail
<1> QED BY <1>2, <1>3

\* A new session's code is the newest one, and nobody has it yet.
LEMMA CreateSessionCode ==
  ASSUME LoginInv, CodesKnown, NEW r \in LoginRequests, CreateSession(r)
  PROVE  CodesKnown'
<1>1. /\ login[r].op \in {"otp", "idp"} /\ login[r].login \in LoginNames
      /\ login[r].at = "session" /\ login[r].session = r
  BY SteppingCall DEF CreateSession, Answers
<1>2. CASE Challenge(r, r, login[r].login)
  <2>1. InFlight(r) = {}
    <3> SUFFICES ASSUME NEW q \in InFlight(r) PROVE FALSE
      OBVIOUS
    <3>1. q \in LoginRequests \ {r} /\ login[q].session = r /\ login[q].at \in {"resend", "deliver"}
      BY <1>1 DEF InFlight
    <3>2. login[q].op \in {"otp", "resend"} /\ login[q].op # "otp"
      BY <3>1 DEF LoginInv, CallsKnow, CallKnows, OpAt, Within
    <3>3. login[r].at = "ok"
      BY <3>1, <3>2 DEF LoginInv, CallsKnow, CallKnows, Within
    <3> QED BY <1>1, <3>3
  <2>2. \A t \in LoginRequests : r \notin InFlight(t)
    BY <1>1 DEF InFlight
  <2> QED BY <1>1, <1>2, <2>1, <2>2, ChallengeCode DEF CreateSession
<1>3. CASE ~Challenge(r, r, login[r].login)
  <2>1. LoginMoves(r)
    BY CreateSessionInv DEF LoginFrame
  <2>2. login'[r].at \in {"needs", "empty", "error"}
    BY <1>3, AtFacts, RespondFacts, LoginValues DEF CreateSession, LoginInv, Answers
  <2>3. \A s \in LoginRequests : sessions'[s].code = NoOtp \/ sessions'[s] = sessions[s]
    BY <1>3 DEF CreateSession, LoginInv, LoginTypes, NoSession
  <2> QED BY <1>1, <2>1, <2>2, <2>3, QuietStep DEF CreateSession, LoginMoves
<1> QED BY <1>2, <1>3

\* A resend's code replaces the session's.
LEMMA ResendCode ==
  ASSUME LoginInv, CodesKnown, NEW r \in LoginRequests, ResendOtp(r)
  PROVE  CodesKnown'
<1>1. PICK s \in LoginRequests : s = login[r].session
  BY SteppingCall DEF ResendOtp, Answers, LoginInv, CallsKnow, CallKnows, OpAt, Within
<1>2. /\ login[r].at = "resend" /\ r \in InFlight(s) /\ sessions[s].login \in LoginNames
      /\ \A t \in LoginRequests \ {s} : r \notin InFlight(t)
  <2>1. login[r].at = "resend" /\ r \in InFlight(s)
        /\ \A t \in LoginRequests \ {s} : r \notin InFlight(t)
    BY <1>1 DEF ResendOtp, InFlight
  <2>2. login[r].op = "resend"
    BY <2>1 DEF LoginInv, CallsKnow, CallKnows, OpAt, Within
  <2>3. login[s].op \in {"otp", "idp"} /\ login[s].at = "ok"
    BY <1>1, <2>2 DEF LoginInv, CallsKnow, CallKnows, Within
  <2>4. sessions[s].login \in LoginNames
    BY <2>3 DEF LoginInv, CallsKnow, CallKnows
  <2> QED BY <2>1, <2>4
<1>3. s \notin untidy => InFlight(s) \subseteq {r}
  BY <1>2 DEF CodesKnown, CodeKnown
<1>4. CASE Challenge(r, s, sessions[s].login)
  <2>1. UnchangedMail
    BY <1>1, <1>4, RespondFacts, ChallengeFacts, <1>2 DEF ResendOtp, LoginInv, Answers, UnchangedMail
  <2> QED BY <1>1, <1>2, <1>3, <1>4, <2>1, ChallengeCode
<1>5. CASE Respond(r, "error") /\ UNCHANGED <<sessions, untidy>>
  <2>1. LoginMoves(r) /\ login'[r].at = "error"
    BY <1>5, RespondFacts DEF LoginInv, Answers
  <2> SUFFICES ASSUME NEW t \in LoginRequests \ untidy PROVE CodeKnown(t)'
    BY <1>5 DEF CodesKnown
  <2>2. CASE t = s
    <3>1. InFlight(s)' = {}
      BY <1>3, <2>1, <2>2 DEF InFlight, LoginMoves
    <3>2. sessions[s].code # NoOtp => Arrived(s)
      BY <1>2, <1>3, <2>2 DEF CodesKnown, CodeKnown
    <3> QED BY <1>5, <2>2, <3>1, <3>2 DEF CodeKnown, Arrived, ResendOtp
  <2>3. CASE t # s
    <3>1. InFlight(t)' = InFlight(t) /\ \A q \in InFlight(t) : login'[q] = login[q]
      BY <1>1, <2>1, <2>3 DEF InFlight, LoginMoves
    <3> QED BY <1>5, <3>1, CodeUntouched DEF CodesKnown, ResendOtp
  <2> QED BY <2>2, <2>3
<1>6. CASE Respond(r, "error") /\ NewCode(s, sessions[s].login) /\ untidy' = untidy \cup {s}
  <2>1. LoginMoves(r) /\ login'[r].at = "error"
    BY <1>6, RespondFacts DEF LoginInv, Answers
  <2> SUFFICES ASSUME NEW t \in LoginRequests \ untidy' PROVE CodeKnown(t)'
    BY DEF CodesKnown
  <2>2. t # s /\ t \notin untidy /\ sessions'[t] = sessions[t]
    BY <1>2, <1>6, NewCodeFacts
  <2>3. InFlight(t)' = InFlight(t) /\ \A q \in InFlight(t) : login'[q] = login[q]
    BY <1>1, <2>1, <2>2 DEF InFlight, LoginMoves
  <2> QED BY <2>2, <2>3, CodeUntouched DEF CodesKnown, ResendOtp
<1> QED BY <1>1, <1>4, <1>5, <1>6 DEF ResendOtp

\* Where a code is delivered that no other overlapped, it is the session's.
LEMMA DeliverCode ==
  ASSUME LoginInv, CodesKnown, NEW r \in LoginRequests, Deliver(r)
  PROVE  CodesKnown'
<1>1. PICK s \in LoginRequests : s = login[r].session
  BY SteppingCall DEF Deliver, Answers, LoginInv, CallsKnow, CallKnows, OpAt, Within
<1>2. /\ login[r].at = "deliver" /\ r \in InFlight(s)
      /\ \A t \in LoginRequests \ {s} : r \notin InFlight(t)
  BY <1>1 DEF Deliver, InFlight
<1>3. PICK m \in LoginNames : m = login[r].login
  BY <1>2, SteppingCall DEF Answers
<1>4. sessions[s].login = m
  <2>1. login[r].op \in {"otp", "resend"}
    BY <1>2 DEF LoginInv, CallsKnow, CallKnows, OpAt
  <2>2. CASE login[r].op = "otp"
    BY <1>1, <1>2, <1>3, <2>2 DEF LoginInv, CallsKnow, CallKnows
  <2>3. CASE login[r].op = "resend"
    <3>1. login[s].op \in {"otp", "idp"} /\ login[s].at = "ok" /\ m = login[s].login
      BY <1>1, <1>3, <2>3 DEF LoginInv, CallsKnow, CallKnows, Within
    <3> QED BY <3>1 DEF LoginInv, CallsKnow, CallKnows
  <2> QED BY <2>1, <2>2, <2>3
<1>5. LoginMoves(r) /\ login'[r].at = "ok" /\ UNCHANGED sessions
  BY RespondFacts DEF Deliver, LoginInv, Answers, UnchangedZitadel
<1>6. untidy \subseteq untidy' /\ (s \notin untidy' => StashOrMail(r))
  BY <1>1 DEF Deliver
<1>7. /\ \A t \in LoginRequests \ {s} : inbox'[t] = inbox[t]
      /\ \A n \in ReviewLogins : stash'[n] = stash[n] \/ stash'[n].session = s
  BY <1>1, <1>3 DEF Deliver, StashOrMail, LoginInv, LoginTypes
<1> SUFFICES ASSUME NEW t \in LoginRequests \ untidy' PROVE CodeKnown(t)'
  BY DEF CodesKnown
<1>8. CASE t = s
  <2>1. s \notin untidy /\ CodeKnown(s)
    BY <1>6, <1>8 DEF CodesKnown
  <2>2. InFlight(s)' = {}
    BY <1>2, <1>5, <2>1 DEF CodeKnown, InFlight, LoginMoves
  <2>3. sessions[s].code \in {NoOtp, login[r].code}
    BY <1>2, <2>1 DEF CodeKnown
  <2>4. IF m \in ReviewLogins THEN stash'[m] = [code |-> login[r].code, session |-> s]
        ELSE inbox'[s] = login[r].code
    BY <1>1, <1>3, <1>6, <1>8 DEF StashOrMail, LoginInv, LoginTypes
  <2> QED BY <1>4, <1>5, <1>8, <2>2, <2>3, <2>4 DEF CodeKnown, Arrived
<1>9. CASE t # s
  <2>1. InFlight(t)' = InFlight(t) /\ \A q \in InFlight(t) : login'[q] = login[q]
    BY <1>2, <1>5, <1>9 DEF InFlight, LoginMoves
  <2> QED BY <1>5, <1>6, <1>7, <1>9, <2>1, CodeUntouched DEF CodesKnown
<1> QED BY <1>8, <1>9

\* No step of a request disturbs what is known of the codes.
LEMMA LoginStepCode ==
  ASSUME LoginInv, CodesKnown, NEW r \in LoginRequests, LoginStep(r)
  PROVE  CodesKnown'
<1>0. LoginMoves(r)
  BY LoginStepInv DEF LoginFrame
<1>1. CASE login[r].at \in {"session", "deliver", "resend"}
  BY <1>1, CreateSessionCode, DeliverCode, ResendCode
  DEF LoginStep, PollProjection, EnsureOtpEmail, VerifyOtp, UserNeedsProfileCompletion,
      CompleteProfile, RetrieveIntent, LinkIdP, CreateIdPUser
<1>2. CASE VerifyOtp(r)
  <2>1. login[r].at = "verify" /\ login'[r].at \in {"needs", "invalid", "error"}
    BY <1>2, AtFacts, RespondFacts, LoginValues DEF VerifyOtp, LoginInv, Answers
  <2>2. \A s \in LoginRequests : sessions'[s].code = NoOtp \/ sessions'[s] = sessions[s]
    <3> SUFFICES ASSUME NEW s \in LoginRequests, sessions' # sessions
                 PROVE  sessions'[s].code = NoOtp \/ sessions'[s] = sessions[s]
      OBVIOUS
    <3>1. PICK t \in LoginRequests : t = login[r].session
      BY <2>1, SteppingCall DEF Answers, LoginInv, CallsKnow, CallKnows, OpAt, Within
    <3>2. sessions' = [sessions EXCEPT ![t] = [sessions[t] EXCEPT !.code = NoOtp, !.verified = TRUE]]
      BY <1>2, <3>1 DEF VerifyOtp, LoginInv, LoginTypes
    <3> QED BY <3>2, SessionFields DEF LoginInv, LoginTypes
  <2> QED BY <1>0, <1>2, <2>1, <2>2, QuietStep DEF VerifyOtp, LoginMoves
<1>3. CASE UserNeedsProfileCompletion(r)
  <2>1. login[r].at = "needs" /\ login'[r].at = "ok"
    BY <1>3, NeedsProfileInv DEF UserNeedsProfileCompletion
  <2> QED BY <1>0, <1>3, <2>1, QuietStep DEF UserNeedsProfileCompletion, UnchangedZitadel, LoginMoves
<1>4. CASE /\ login[r].at \in {"find", "findIdp", "create", "createIdp", "poll", "enroll",
                               "profile", "intent", "link"}
           /\ ~VerifyOtp(r) /\ ~UserNeedsProfileCompletion(r)
  <2>1. UNCHANGED sessions /\ UnchangedMail
    BY <1>4 DEF LoginStep, FindUser, CreateUser, PollProjection, EnsureOtpEmail, CompleteProfile,
                RetrieveIntent, LinkIdP, CreateIdPUser, UnchangedZitadel, CreateSession, Deliver,
                ResendOtp
  <2>2. \E at \in {"enroll", "create", "link", "createIdp", "session", "findIdp", "poll"} \cup Answers :
          LoginAt(r, at) \/ (at \in Answers /\ Respond(r, at))
    BY <1>4 DEF LoginStep, FindUser, CreateUser, PollProjection, WaitForProjection, EnsureOtpEmail,
                CompleteProfile, RetrieveIntent, LinkIdP, CreateIdPUser, CreateSession, Deliver,
                ResendOtp, Answers
  <2>3. login'[r].at \notin {"resend", "deliver"}
    BY <2>2, AtFacts, RespondFacts, LoginValues DEF LoginInv, Answers, FirstPhase
  <2> QED BY <1>0, <1>4, <2>1, <2>3, QuietStep DEF LoginMoves
<1> QED
  BY <1>1, <1>2, <1>3, <1>4
  DEF LoginStep, PollProjection, EnsureOtpEmail, CreateSession, Deliver, ResendOtp,
      CompleteProfile, RetrieveIntent, LinkIdP, CreateIdPUser

\* Nor does a request that begins.
LEMMA BeginCode ==
  ASSUME LoginInv, CodesKnown, NEW r \in LoginRequests, BeginRequest(r)
  PROVE  CodesKnown'
<1>1. /\ login[r] = Unsent /\ \A q \in LoginRequests \ {r} : login'[q] = login[q]
      /\ UNCHANGED <<account, sessions, inbox, stash, loginFaults>>
      /\ login'[r].at \in {"find", "intent"} \cup Within
  BY BeginInv
<1>2. \A s : r \notin InFlight(s)
  BY <1>1, LoginValues DEF InFlight
<1>3. untidy \subseteq untidy'
  BY DEF BeginRequest, BeginLogin, BeginWithin, UnchangedMail
<1>4. ASSUME NEW s \in LoginRequests, r \in InFlight(s)', s \notin untidy'
      PROVE  InFlight(s) = {} /\ login'[r].at = "resend"
  <2>0. Unsent \in LoginCall /\ "resend" \in LoginPhase
    BY LoginValues DEF Within
  <2>1. ASSUME NEW op \in {"otp", "idp"}, NEW m \in LoginNames, BeginLogin(r, op, m) PROVE FALSE
    <3>1. login'[r].at = IF op = "otp" THEN "find" ELSE "intent"
      BY <2>1 DEF BeginLogin, LoginInv, LoginTypes, Unsent
    <3> QED BY <1>4, <3>1 DEF InFlight
  <2>2. ASSUME NEW op \in Within, NEW t \in LoginRequests, BeginWithin(r, op, t)
        PROVE  InFlight(s) = {} /\ login'[r].at = "resend"
    <3>1. login'[r].at = op /\ login'[r].session = t
      BY <2>2 DEF BeginWithin, LoginInv, LoginTypes, Unsent
    <3>2. op = "resend" /\ t = s
      BY <1>4, <3>1 DEF InFlight, Within
    <3> QED BY <1>4, <2>2, <3>1, <3>2 DEF BeginWithin
  <2> QED BY <2>1, <2>2, LoginAssumption DEF BeginRequest, Within
<1> SUFFICES ASSUME NEW s \in LoginRequests \ untidy' PROVE CodeKnown(s)'
  BY DEF CodesKnown
<1>5. CodeKnown(s)
  BY <1>3 DEF CodesKnown
<1>6. CASE r \in InFlight(s)'
  <2>1. InFlight(s)' = {r}
    BY <1>1, <1>4, <1>6 DEF InFlight
  <2> QED BY <1>1, <1>4, <1>5, <1>6, <2>1 DEF CodeKnown, Arrived
<1>7. CASE r \notin InFlight(s)'
  <2>1. InFlight(s)' = InFlight(s) /\ \A q \in InFlight(s) : login'[q] = login[q]
    BY <1>1, <1>2, <1>7 DEF InFlight
  <2> QED BY <1>1, <1>5, <2>1, CodeUntouched
<1> QED BY <1>6, <1>7

\* Every step keeps what is known of the codes.
LEMMA NextCode == LoginInv /\ CodesKnown /\ [LoginNext]_loginVars => CodesKnown'
<1> SUFFICES ASSUME LoginInv, CodesKnown, [LoginNext]_loginVars PROVE CodesKnown'
  OBVIOUS
<1>1. ASSUME NEW m \in LoginNames, ProjectionCatchesUp(m) PROVE CodesKnown'
  BY <1>1 DEF ProjectionCatchesUp, UnchangedMail, CodesKnown, CodeKnown, Arrived, InFlight
<1>2. ASSUME NEW m \in ReviewLogins, StashExpires(m) PROVE CodesKnown'
  <2>1. UNCHANGED <<sessions, login, inbox, untidy>>
    BY <1>2 DEF StashExpires, UnchangedZitadel
  <2>2. \A n \in ReviewLogins : stash'[n] = stash[n] \/ stash'[n].session = 0
    BY <1>2 DEF StashExpires, LoginInv, LoginTypes
  <2>3. \A s \in LoginRequests : InFlight(s)' = InFlight(s) /\ s # 0
    BY <2>1, LoginAssumption DEF InFlight, LoginRequests
  <2> SUFFICES ASSUME NEW s \in LoginRequests \ untidy PROVE CodeKnown(s)'
    BY <2>1 DEF CodesKnown
  <2> QED BY <2>1, <2>2, <2>3, CodeUntouched DEF CodesKnown
<1>3. CASE UNCHANGED loginVars
  BY <1>3 DEF loginVars, CodesKnown, CodeKnown, Arrived, InFlight
<1> QED BY <1>1, <1>2, <1>3, BeginCode, LoginStepCode DEF LoginNext

\* However resends, verifications and sign-ins interleave and the review stash
\* expires, the code that arrived last for a session is the one Zitadel accepts,
\* unless two of its codes overlapped or a mail was lost.
THEOREM CodesStayLive == LoginSpec => []LastCodeIsLive
<1>1. LoginInit => CodesKnown
  <2> SUFFICES ASSUME LoginInit, NEW s \in LoginRequests PROVE CodeKnown(s)
    BY DEF CodesKnown
  <2>1. sessions[s].code = NoOtp
    BY DEF LoginInit, NoSession
  <2>2. InFlight(s) = {}
    BY LoginValues DEF LoginInit, InFlight
  <2> QED BY <2>1, <2>2 DEF CodeKnown
<1>2. CodesKnown => LastCodeIsLive
  BY DEF CodesKnown, CodeKnown, Arrived, LastCodeIsLive
<1>3. LoginInv /\ [LoginNext]_loginVars => LoginInv'
  BY NextLoginInv
<1> QED BY <1>1, <1>2, <1>3, InitLoginInv, NextCode, PTL DEF LoginSpec
-----------------------------------------------------------------------------
(* Every sign-in is answered as it would have been alone                   *)

\* Two first logins of an address nobody has seen yet have crossed.
FirstLoginsCross ==
  \A p, q \in LoginRequests :
    /\ p # q /\ login[p].at \in FirstPhase /\ login[q].at \in FirstPhase
    /\ login[p].login = login[q].login /\ ~account[login[p].login].visible
    => login[p].login \in crossed

\* An account the projection does not show yet is waited for by whoever made it.
NewAccountsAwaited ==
  \A m \in LoginNames : account[m].exists /\ ~account[m].visible =>
    \E r \in LoginRequests : login[r].login = m /\ login[r].at = "poll"

\* What a request in which no call failed relies on in its account.
CallServed(r) ==
  LET c == login[r]
      a == account[c.login]
  IN
  /\ c.at \in {"create", "createIdp"} /\ a.exists => c.login \in crossed
  /\ c.at \in {"enroll", "link"} => a.visible
  /\ c.op = "otp" /\ c.at = "session" => a.visible /\ a.enrolled
  /\ c.op = "idp" /\ c.at = "session" => (a.visible /\ a.linked) \/ c.login \in crossed
  /\ c.op = "idp" /\ c.at = "poll" => a.linked
  /\ c.op \in {"otp", "idp"} /\ c.at \in {"empty", "error"} => c.login \in crossed
  /\ c.op \in {"verify", "idp"} /\ c.at = "ok" /\ ~c.told => a.name # Placeholder

CallsServed == \A r \in LoginRequests : CallServed(r)
Served == loginFaults = 0 => FirstLoginsCross /\ NewAccountsAwaited /\ CallsServed

\* Where a request relies on an account, it is one of the accounts, and known.
LEMMA ServedAccount ==
  ASSUME LoginInv, NEW q \in LoginRequests
  PROVE  /\ login[q].op \in {"otp", "idp"} => login[q].login \in LoginNames
         /\ login[q].op \in {"verify", "idp"} /\ login[q].at = "ok" =>
              login[q].login \in LoginNames /\ account[login[q].login].exists
<1>1. CallKnows(q)
  BY DEF LoginInv, CallsKnow
<1>2. ASSUME NEW p \in LoginRequests, login[p].op \in {"otp", "idp"}, login[p].at = "ok"
      PROVE  login[p].login \in LoginNames /\ account[login[p].login].exists
  BY <1>2 DEF LoginInv, CallsKnow, CallKnows, AccountsExist
<1>3. login[q].op = "verify" => login[q].login = login[login[q].session].login
        /\ login[q].session \in LoginRequests /\ login[login[q].session].op \in {"otp", "idp"}
        /\ login[login[q].session].at = "ok"
  BY <1>1 DEF CallKnows, Within
<1> QED BY <1>1, <1>2, <1>3 DEF CallKnows

\* Accounts that grow take nothing from a request that stays.
LEMMA StillServed ==
  ASSUME LoginInv, NEW q \in LoginRequests, CallServed(q), login'[q] = login[q],
         AccountsGrow, crossed \subseteq crossed',
         login[q].at \in {"create", "createIdp"} /\ account'[login[q].login].exists =>
           login[q].login \in crossed'
  PROVE  CallServed(q)'
<1>1. CallKnows(q)
  BY DEF LoginInv, CallsKnow
<1>2. login[q].at \in {"enroll", "link"} => login[q].op \in {"otp", "idp"}
  BY <1>1 DEF CallKnows, OpAt
<1> QED BY <1>2, ServedAccount DEF CallServed, AccountsGrow

\* What is left to show of a step of r in which no call fails.
LEMMA ServedAfter ==
  ASSUME LoginInv, Served, loginFaults = 0, NEW r \in LoginRequests, LoginMoves(r), AccountsGrow,
         crossed' = crossed, CallServed(r)',
         login'[r].at \in FirstPhase => login[r].at \in FirstPhase,
         login[r].at = "poll" => account[login[r].login].visible,
         \A m \in LoginNames : account'[m].exists /\ ~account[m].exists =>
           m = login[r].login /\ login'[r].at = "poll"
  PROVE  Served'
<1>1. FirstLoginsCross /\ NewAccountsAwaited /\ CallsServed
  BY DEF Served
<1>2. ASSUME NEW q \in LoginRequests, login[q].at \in FirstPhase
      PROVE  /\ login[q].login \in LoginNames
             /\ account'[login[q].login].visible \/ ~account[login[q].login].visible
  <2>1. login[q].op \in {"otp", "idp"}
    BY <1>2 DEF LoginInv, CallsKnow, CallKnows, OpAt, FirstPhase
  <2> QED BY <2>1, ServedAccount DEF AccountsGrow
<1>3. FirstLoginsCross'
  BY <1>1, <1>2 DEF FirstLoginsCross, LoginMoves
<1>4. NewAccountsAwaited'
  <2> SUFFICES ASSUME NEW m \in LoginNames, account'[m].exists, ~account'[m].visible
               PROVE  \E q \in LoginRequests : login'[q].login = m /\ login'[q].at = "poll"
    BY DEF NewAccountsAwaited
  <2>1. CASE ~account[m].exists
    BY <2>1 DEF LoginMoves
  <2>2. CASE account[m].exists
    <3>1. ~account[m].visible
      BY DEF AccountsGrow
    <3>2. PICK q \in LoginRequests : login[q].login = m /\ login[q].at = "poll"
      BY <1>1, <2>2, <3>1 DEF NewAccountsAwaited
    <3> QED BY <3>1, <3>2 DEF LoginMoves
  <2> QED BY <2>1, <2>2
<1>5. ASSUME NEW q \in LoginRequests \ {r} PROVE CallServed(q)'
  <2>1. login'[q] = login[q] /\ CallServed(q)
    BY <1>1 DEF LoginMoves, CallsServed
  <2>2. ASSUME login[q].at \in {"create", "createIdp"}, account'[login[q].login].exists
        PROVE  login[q].login \in crossed
    <3>1. login[q].login \in LoginNames /\ login[q].at \in FirstPhase
      BY <1>2, <2>2 DEF FirstPhase
    <3>2. CASE account[login[q].login].exists
      BY <2>1, <2>2, <3>2 DEF CallServed
    <3>3. CASE ~account[login[q].login].exists
      <4>1. login[q].login = login[r].login /\ login[r].at \in FirstPhase
        BY <2>2, <3>1, <3>3 DEF FirstPhase
      <4>2. ~account[login[q].login].visible
        BY <3>1, <3>3 DEF LoginInv, AccountsExist
      <4> QED BY <1>1, <3>1, <4>1, <4>2 DEF FirstLoginsCross
    <3> QED BY <3>2, <3>3
  <2> QED BY <2>1, <2>2, StillServed
<1> QED BY <1>3, <1>4, <1>5 DEF Served, CallsServed

\* No step takes a failed call back.
LEMMA FaultsStay == LoginInv /\ LoginFault => loginFaults' # 0
BY DEF LoginFault, LoginInv, LoginTypes

\* An account that is there already, and that r does not wait for yet, is seen, or r's
\* first login crossed the one that made it.
LEMMA MadeByAnother ==
  ASSUME LoginInv, Served, loginFaults = 0, NEW r \in LoginRequests,
         login[r].at \in FirstPhase \ {"poll"}, account[login[r].login].exists
  PROVE  account[login[r].login].visible \/ login[r].login \in crossed
<1>1. login[r].login \in LoginNames
  BY ServedAccount DEF LoginInv, CallsKnow, CallKnows, OpAt, FirstPhase
<1> SUFFICES ASSUME ~account[login[r].login].visible PROVE login[r].login \in crossed
  OBVIOUS
<1>2. PICK q \in LoginRequests : login[q].login = login[r].login /\ login[q].at = "poll"
  BY <1>1 DEF Served, NewAccountsAwaited
<1>3. q # r /\ login[q].at \in FirstPhase
  BY <1>2 DEF FirstPhase
<1> QED BY <1>2, <1>3 DEF Served, FirstLoginsCross

\* The look-up refuses nobody but as the invariant allows.
LEMMA FindUserServed ==
  ASSUME LoginInv, Served, loginFaults' = 0, NEW r \in LoginRequests, NEW found, NEW unknown,
         FindUser(r, found, unknown),
         \/ login[r].at = "find" /\ found = "enroll" /\ unknown = "create"
         \/ login[r].at = "findIdp" /\ found = "link" /\ unknown = "createIdp"
  PROVE  Served'
<1>1. loginFaults = 0 /\ LoginAt(r, IF account[login[r].login].visible THEN found ELSE unknown)
      /\ UNCHANGED <<account, crossed>>
  BY FaultsStay DEF FindUser, NoLoginFault, UnchangedZitadel
<1>2. LoginFrame(r)
  BY FindUserInv
<1>3. /\ login'[r].at = IF account[login[r].login].visible THEN found ELSE unknown
      /\ login[r].at \in FirstPhase \ {"poll"} /\ login'[r].at \notin {"session", "ok", "error", "empty", "poll"}
  BY <1>1, AtFacts, LoginValues DEF LoginInv, FirstPhase
<1>4. account[login[r].login].exists => account[login[r].login].visible \/ login[r].login \in crossed
  BY <1>1, <1>3, MadeByAnother
<1>5. CallServed(r)'
  BY <1>1, <1>2, <1>3, <1>4 DEF CallServed, LoginFrame, LoginMoves
<1> QED BY <1>1, <1>2, <1>3, <1>5, ServedAfter DEF LoginFrame

\* Nor does creating the user: a conflict means that another request made it.
LEMMA CreateUserServed ==
  ASSUME LoginInv, Served, loginFaults' = 0, NEW r \in LoginRequests,
         NEW name \in {"real", Placeholder}, NEW linked \in BOOLEAN, NEW refusal,
         CreateUser(r, name, linked, refusal),
         \/ login[r].at = "create" /\ refusal = "empty"
         \/ login[r].at = "createIdp" /\ refusal = "error" /\ linked
  PROVE  Served'
<1> DEFINE m == login[r].login
<1>1. loginFaults = 0 /\ crossed' = crossed
  BY DEF CreateUser, NoLoginFault
<1>2. /\ LoginFrame(r) /\ login[r].at \in FirstPhase
      /\ login[r].op = (IF login[r].at = "create" THEN "otp" ELSE "idp")
  BY CreateUserInv DEF Answers, FirstPhase, LoginInv, CallsKnow, CallKnows, OpAt
<1>3. m \in LoginNames
  BY <1>2, ServedAccount
<1>4. CASE account[m].exists
  <2>1. login'[r].at = refusal /\ account' = account
    BY <1>4, RespondFacts DEF CreateUser, LoginInv, Answers
  <2>2. m \in crossed
    BY <1>1, <1>4 DEF Served, CallsServed, CallServed
  <2>3. CallServed(r)'
    BY <1>1, <1>2, <2>1, <2>2 DEF CallServed, LoginFrame, LoginMoves
  <2> QED BY <1>1, <1>2, <2>1, <2>3, ServedAfter DEF LoginFrame, FirstPhase
<1>5. CASE ~account[m].exists
  <2>1. login'[r].at = "poll"
    BY <1>5, AtFacts, LoginValues DEF CreateUser, LoginInv, FirstPhase
  <2>2. /\ account'[m].linked = linked
        /\ \A n \in LoginNames \ {m} : account'[n] = account[n]
    <3> DEFINE new == [KnownAccount(name) EXCEPT !.visible = FALSE, !.linked = linked]
    <3>1. new.linked = linked
      BY DEF KnownAccount
    <3>2. account' = [account EXCEPT ![m] = new]
      BY <1>5 DEF CreateUser
    <3> HIDE DEF new
    <3> QED BY <1>3, <3>1, <3>2 DEF LoginInv, LoginTypes
  <2>3. CallServed(r)'
    BY <1>2, <2>1, <2>2 DEF CallServed, LoginFrame, LoginMoves
  <2> QED BY <1>1, <1>2, <2>1, <2>2, <2>3, ServedAfter DEF LoginFrame
<1> QED BY <1>4, <1>5

\* Nor the wait for the projection.
LEMMA PollServed ==
  ASSUME LoginInv, Served, loginFaults' = 0, NEW r \in LoginRequests, PollProjection(r)
  PROVE  Served'
<1>1. /\ loginFaults = 0 /\ UNCHANGED <<account, crossed>> /\ login[r].at = "poll"
      /\ account[login[r].login].visible
      /\ LoginAt(r, IF login[r].op = "otp" THEN "enroll" ELSE "session")
  BY FaultsStay DEF PollProjection, WaitForProjection, NoLoginFault, UnchangedZitadel
<1>2. LoginFrame(r)
  BY PollInv
<1>3. /\ login'[r].at = IF login[r].op = "otp" THEN "enroll" ELSE "session"
      /\ login[r].op \in {"otp", "idp"}
  BY <1>1, AtFacts, LoginValues DEF LoginInv, CallsKnow, CallKnows, OpAt
<1>4. CallServed(r)
  BY <1>1 DEF Served, CallsServed
<1>5. CallServed(r)'
  BY <1>1, <1>2, <1>3, <1>4 DEF CallServed, LoginFrame, LoginMoves
<1> QED BY <1>1, <1>2, <1>3, <1>5, ServedAfter DEF LoginFrame, FirstPhase

\* Nor the enrolment.
LEMMA EnrollServed ==
  ASSUME LoginInv, Served, loginFaults' = 0, NEW r \in LoginRequests, EnsureOtpEmail(r)
  PROVE  Served'
<1> DEFINE m == login[r].login
<1>1. /\ loginFaults = 0 /\ crossed' = crossed /\ login[r].at = "enroll" /\ login[r].op = "otp"
      /\ account' = [account EXCEPT ![m].enrolled = TRUE] /\ m \in LoginNames
  BY FaultsStay, ServedAccount
  DEF EnsureOtpEmail, NoLoginFault, LoginInv, CallsKnow, CallKnows, OpAt
<1>2. LoginFrame(r)
  BY EnrollInv
<1>3. login'[r].at = "session"
  BY AtFacts, LoginValues DEF EnsureOtpEmail, LoginInv
<1>4. account[m].visible /\ account[m] \in Account
  BY <1>1 DEF Served, CallsServed, CallServed, LoginInv, LoginTypes
<1>5. /\ account'[m].enrolled /\ account'[m].visible /\ account'[m].exists = account[m].exists
      /\ \A n \in LoginNames \ {m} : account'[n] = account[n]
  BY <1>1, <1>4 DEF LoginInv, LoginTypes, Account
<1>6. CallServed(r)'
  BY <1>1, <1>2, <1>3, <1>5 DEF CallServed, LoginFrame, LoginMoves
<1> QED BY <1>1, <1>2, <1>3, <1>5, <1>6, ServedAfter DEF LoginFrame, FirstPhase

\* A step that goes on, answers or names the account, where r relies on nothing new.
LEMMA PlainServed ==
  ASSUME LoginInv, Served, loginFaults' = 0, loginFaults = 0, NEW r \in LoginRequests,
         LoginFrame(r), crossed' = crossed, CallServed(r)',
         login'[r].at \notin FirstPhase, login[r].at # "poll",
         \A m \in LoginNames : account'[m].exists => account[m].exists
  PROVE  Served'
BY ServedAfter DEF LoginFrame

\* Nor the session.
LEMMA CreateSessionServed ==
  ASSUME LoginInv, Served, loginFaults' = 0, NEW r \in LoginRequests, CreateSession(r)
  PROVE  Served'
<1> DEFINE m == login[r].login
<1>1. /\ login[r].at = "session" /\ login[r].op \in {"otp", "idp"} /\ m \in LoginNames
      /\ UNCHANGED <<account, crossed>> /\ loginFaults = 0 /\ CallServed(r)
  BY FaultsStay, ServedAccount DEF CreateSession, NoLoginFault, Served, CallsServed
<1>2. LoginFrame(r)
  BY CreateSessionInv
<1>3. \/ login'[r].at \in {"deliver", "needs"}
      \/ login'[r].at \in {"empty", "error"} /\ m \in crossed
  <2>1. CASE login[r].op = "otp" /\ Challenge(r, r, m)
    BY <1>1, <2>1, ChallengeFacts
  <2>2. CASE login[r].op = "idp" /\ LoginAt(r, "needs")
    BY <2>2, AtFacts, LoginValues DEF LoginInv
  <2>3. CASE login[r].op = "idp" /\ Respond(r, "error") /\ ~(account[m].visible /\ account[m].linked)
    BY <1>1, <2>3, RespondFacts DEF LoginInv, Answers, CallServed
  <2>4. login[r].op = "otp" => account[m].visible /\ account[m].enrolled
    BY <1>1 DEF CallServed
  <2> QED BY <2>1, <2>2, <2>3, <2>4, FaultsStay DEF CreateSession
<1>4. CallServed(r)'
  BY <1>1, <1>2, <1>3 DEF CallServed, LoginFrame, LoginMoves
<1> QED BY <1>1, <1>2, <1>3, <1>4, PlainServed DEF FirstPhase

\* The steps of a request about a session, and those after the session is made.
LEMMA WithinServed ==
  ASSUME LoginInv, Served, loginFaults' = 0, NEW r \in LoginRequests,
         Deliver(r) \/ ResendOtp(r) \/ VerifyOtp(r) \/ CompleteProfile(r)
  PROVE  Served'
<1>1. /\ login[r].at \in {"deliver", "resend", "verify", "profile"} /\ crossed' = crossed
      /\ loginFaults = 0
      /\ login[r].op \in {"otp", "resend", "verify", "profile"} /\ login[r].op # "idp"
  BY FaultsStay DEF Deliver, ResendOtp, VerifyOtp, CompleteProfile, NoLoginFault, LoginInv, CallsKnow, CallKnows, OpAt, Within
<1>2. LoginFrame(r)
  BY DeliverInv, ResendInv, VerifyInv, ProfileInv
<1>3. login'[r].at \notin FirstPhase /\ login'[r].at \notin {"create", "createIdp", "enroll", "link", "session"}
      /\ (login[r].op = "otp" => login'[r].at \notin {"empty", "error"})
      /\ (login[r].op = "verify" => login'[r].at # "ok")
  <2>1. CASE Deliver(r)
    <3>1. login[r].op # "verify"
      BY <2>1 DEF Deliver, LoginInv, CallsKnow, CallKnows, OpAt
    <3> QED BY <2>1, <3>1, RespondFacts DEF Deliver, LoginInv, Answers, FirstPhase
  <2>2. CASE ResendOtp(r)
    <3>1. login[r].op = "resend"
      BY <2>2 DEF ResendOtp, LoginInv, CallsKnow, CallKnows, OpAt, Within
    <3>2. login[r].session \in LoginRequests
      BY <3>1 DEF LoginInv, CallsKnow, CallKnows, Within
    <3>3. sessions[login[r].session].login \in LoginNames
      BY <3>1 DEF LoginInv, CallsKnow, CallKnows, Within
    <3>4. login'[r].at \in {"deliver", "error"}
      BY <2>2, <3>2, <3>3, ChallengeFacts, RespondFacts DEF ResendOtp, LoginInv, Answers
    <3> QED BY <3>1, <3>4 DEF FirstPhase
  <2>3. CASE VerifyOtp(r)
    <3>1. login[r].op = "verify"
      BY <2>3 DEF VerifyOtp, LoginInv, CallsKnow, CallKnows, OpAt, Within
    <3>2. login'[r].at \in {"needs", "invalid", "error"}
      BY <2>3, AtFacts, RespondFacts, LoginValues DEF VerifyOtp, LoginInv, Answers
    <3> QED BY <3>1, <3>2 DEF FirstPhase
  <2>4. CASE CompleteProfile(r)
    <3>1. login[r].op = "profile"
      BY <2>4 DEF CompleteProfile, LoginInv, CallsKnow, CallKnows, OpAt, Within
    <3>2. login'[r].at \in {"ok", "error"}
      BY <2>4, RespondFacts DEF CompleteProfile, LoginInv, Answers
    <3> QED BY <3>1, <3>2 DEF FirstPhase
  <2> QED BY <2>1, <2>2, <2>3, <2>4
<1>4. CallServed(r)'
  BY <1>1, <1>2, <1>3 DEF CallServed, LoginFrame, LoginMoves
<1>5. \A m \in LoginNames : account'[m].exists => account[m].exists
  <2>1. CASE UNCHANGED account
    BY <2>1
  <2>2. CASE account' = [account EXCEPT ![login[r].login].name = "real"]
    <3> SUFFICES ASSUME NEW m \in LoginNames PROVE account'[m].exists = account[m].exists
      OBVIOUS
    <3>1. account \in [LoginNames -> Account]
      BY DEF LoginInv, LoginTypes
    <3>2. CASE m = login[r].login
      BY <2>2, <3>1, <3>2 DEF Account
    <3>3. CASE m # login[r].login
      BY <2>2, <3>1, <3>3
    <3> QED BY <3>2, <3>3
  <2> QED BY <2>1, <2>2 DEF Deliver, ResendOtp, VerifyOtp, CompleteProfile, UnchangedZitadel
<1> QED BY <1>1, <1>2, <1>3, <1>4, <1>5, PlainServed DEF FirstPhase

\* A nameless account is told that its profile is missing.
LEMMA NeedsProfileServed ==
  ASSUME LoginInv, Served, loginFaults' = 0, NEW r \in LoginRequests, UserNeedsProfileCompletion(r)
  PROVE  Served'
<1>1. /\ login[r].at = "needs" /\ UNCHANGED <<account, crossed>> /\ loginFaults = 0
  BY FaultsStay DEF UserNeedsProfileCompletion, NoLoginFault, UnchangedZitadel
<1>2. LoginFrame(r) /\ login'[r].at = "ok" /\ login'[r].told = NeedsProfile(r)
  BY NeedsProfileInv
<1>3. CallServed(r)'
  BY <1>1, <1>2 DEF CallServed, LoginFrame, LoginMoves, NeedsProfile
<1> QED BY <1>1, <1>2, <1>3, PlainServed DEF FirstPhase

\* The provider's intent refuses nobody either.
LEMMA IntentServed ==
  ASSUME LoginInv, Served, loginFaults' = 0, NEW r \in LoginRequests, RetrieveIntent(r)
  PROVE  Served'
<1> DEFINE m == login[r].login
<1>1. /\ login[r].at = "intent" /\ UNCHANGED <<account, crossed>> /\ loginFaults = 0
      /\ LoginAt(r, IF account[m].linked THEN "session" ELSE "findIdp")
  BY FaultsStay DEF RetrieveIntent, NoLoginFault, UnchangedZitadel
<1>2. LoginFrame(r) /\ login[r].op = "idp" /\ m \in LoginNames
  BY <1>1, IntentInv, ServedAccount DEF LoginInv, CallsKnow, CallKnows, OpAt
<1>3. login'[r].at = IF account[m].linked THEN "session" ELSE "findIdp"
  BY <1>1, AtFacts, LoginValues DEF LoginInv, FirstPhase
<1>4. account[m].linked => account[m].visible \/ m \in crossed
  BY <1>1, <1>2, MadeByAnother DEF LoginInv, AccountsExist, FirstPhase
<1>5. CallServed(r)'
  BY <1>1, <1>2, <1>3, <1>4 DEF CallServed, LoginFrame, LoginMoves
<1> QED BY <1>1, <1>2, <1>3, <1>5, ServedAfter DEF LoginFrame, FirstPhase

\* Nor does linking.
LEMMA LinkServed ==
  ASSUME LoginInv, Served, loginFaults' = 0, NEW r \in LoginRequests, LinkIdP(r)
  PROVE  Served'
<1> DEFINE m == login[r].login
<1>1. /\ loginFaults = 0 /\ crossed' = crossed /\ login[r].at = "link" /\ login[r].op = "idp"
      /\ account' = [account EXCEPT ![m].linked = TRUE] /\ m \in LoginNames
      /\ LoginAt(r, "session")
  BY FaultsStay, ServedAccount
  DEF LinkIdP, LinkAccepted, NoLoginFault, LoginInv, CallsKnow, CallKnows, OpAt
<1>2. LoginFrame(r)
  BY LinkInv
<1>3. login'[r].at = "session"
  BY <1>1, AtFacts, LoginValues DEF LoginInv
<1>4. account[m].visible /\ account[m] \in Account
  BY <1>1 DEF Served, CallsServed, CallServed, LoginInv, LoginTypes
<1>5. /\ account'[m].linked /\ account'[m].visible /\ account'[m].exists = account[m].exists
      /\ \A n \in LoginNames \ {m} : account'[n] = account[n]
  BY <1>1, <1>4 DEF LoginInv, LoginTypes, Account
<1>6. CallServed(r)'
  BY <1>1, <1>2, <1>3, <1>5 DEF CallServed, LoginFrame, LoginMoves
<1> QED BY <1>1, <1>2, <1>3, <1>5, <1>6, ServedAfter DEF LoginFrame, FirstPhase

\* No step of a request turns anybody away but as the invariant allows.
LEMMA LoginStepServed ==
  ASSUME LoginInv, Served, NEW r \in LoginRequests, LoginStep(r)
  PROVE  Served'
<1> SUFFICES ASSUME loginFaults' = 0 PROVE Served'
  BY DEF Served
<1>1. CASE login[r].at = "find" /\ FindUser(r, "enroll", "create")
  BY <1>1, FindUserServed
<1>2. CASE login[r].at = "create" /\ CreateUser(r, Placeholder, FALSE, "empty")
  BY <1>2, CreateUserServed
<1>3. CASE login[r].at = "findIdp" /\ FindUser(r, "link", "createIdp")
  BY <1>3, FindUserServed
<1>4. CASE CreateIdPUser(r)
  BY <1>4, CreateUserServed DEF CreateIdPUser
<1> QED
  BY <1>1, <1>2, <1>3, <1>4, PollServed, EnrollServed, CreateSessionServed, WithinServed,
     NeedsProfileServed, IntentServed, LinkServed
  DEF LoginStep

\* A request that begins has turned nobody away.
LEMMA BeginServed ==
  ASSUME LoginInv, Served, NEW r \in LoginRequests, BeginRequest(r)
  PROVE  Served'
<1>1. /\ login[r] = Unsent /\ \A q \in LoginRequests \ {r} : login'[q] = login[q]
      /\ UNCHANGED <<account, sessions, inbox, stash, loginFaults>> /\ AccountsGrow
      /\ login'[r].at \in {"find", "intent"} \cup Within
  BY BeginInv
<1> SUFFICES ASSUME loginFaults = 0 PROVE FirstLoginsCross' /\ NewAccountsAwaited' /\ CallsServed'
  BY <1>1 DEF Served
<1>2. FirstLoginsCross /\ NewAccountsAwaited /\ CallsServed
  BY DEF Served
<1>3. crossed \subseteq crossed'
  BY DEF BeginRequest, BeginLogin, BeginWithin
<1>4. ASSUME login'[r].at \in FirstPhase, NEW q \in LoginRequests \ {r}, login[q].at \in FirstPhase,
             login[q].login = login'[r].login, ~account[login[q].login].visible
      PROVE  login[q].login \in crossed'
  <2>1. ASSUME NEW op, NEW m \in LoginNames, BeginLogin(r, op, m)
        PROVE  login[q].login \in crossed'
    <3>1. login'[r].login = m
      BY <2>1 DEF BeginLogin, LoginInv, LoginTypes, Unsent
    <3>2. FirstLogin(m)
      BY <1>4, <3>1 DEF FirstLogin, FirstPhase
    <3> QED BY <1>4, <2>1, <3>1, <3>2 DEF BeginLogin
  <2>2. ASSUME NEW op \in Within, NEW s \in LoginRequests, BeginWithin(r, op, s) PROVE FALSE
    <3>1. login'[r].at = op
      BY <2>2 DEF BeginWithin, LoginInv, LoginTypes, Unsent
    <3> QED BY <1>4, <3>1 DEF FirstPhase, Within
  <2> QED BY <2>1, <2>2, LoginAssumption DEF BeginRequest, Within
<1>5. FirstLoginsCross'
  BY <1>1, <1>2, <1>3, <1>4 DEF FirstLoginsCross
<1>6. NewAccountsAwaited'
  BY <1>1, <1>2, LoginValues DEF NewAccountsAwaited
<1>7. ASSUME NEW q \in LoginRequests \ {r} PROVE CallServed(q)'
  BY <1>1, <1>2, <1>3, StillServed DEF CallsServed, CallServed
<1>8. CallServed(r)'
  BY <1>1 DEF CallServed, Within
<1> QED BY <1>5, <1>6, <1>7, <1>8 DEF CallsServed

\* The projection catching up turns nobody away.
LEMMA ProjectionServed ==
  ASSUME LoginInv, Served, NEW m \in LoginNames, ProjectionCatchesUp(m)
  PROVE  Served'
<1>1. /\ UNCHANGED <<login, crossed, loginFaults>> /\ account[m].exists /\ AccountsGrow
      /\ \A n \in LoginNames \ {m} : account'[n] = account[n]
      /\ account'[m].visible
  <2>1. account'[m].visible
    BY DEF ProjectionCatchesUp, LoginInv, LoginTypes, Account
  <2> QED BY <2>1, ProjectionInv DEF ProjectionCatchesUp, NoLoginFault, LoginInv, LoginTypes
<1> SUFFICES ASSUME loginFaults = 0 PROVE FirstLoginsCross' /\ NewAccountsAwaited' /\ CallsServed'
  BY <1>1 DEF Served
<1>2. FirstLoginsCross /\ NewAccountsAwaited /\ CallsServed
  BY DEF Served
<1>3. ASSUME NEW q \in LoginRequests, login[q].at \in FirstPhase
      PROVE  login[q].login \in LoginNames
  BY <1>3, ServedAccount DEF LoginInv, CallsKnow, CallKnows, OpAt, FirstPhase
<1>4. FirstLoginsCross'
  BY <1>1, <1>2, <1>3 DEF FirstLoginsCross
<1>5. NewAccountsAwaited'
  BY <1>1, <1>2 DEF NewAccountsAwaited
<1>6. ASSUME NEW q \in LoginRequests PROVE CallServed(q)'
  <2>1. CallServed(q)
    BY <1>2 DEF CallsServed
  <2>2. login[q].at \in {"create", "createIdp"} /\ account'[login[q].login].exists =>
          login[q].login \in crossed'
    BY <1>1, <1>3, <2>1 DEF CallServed, FirstPhase
  <2> QED BY <1>1, <2>1, <2>2, StillServed
<1> QED BY <1>4, <1>5, <1>6 DEF CallsServed

\* Every step keeps the invariant.
LEMMA NextServed == LoginInv /\ Served /\ [LoginNext]_loginVars => Served'
<1> SUFFICES ASSUME LoginInv, Served, [LoginNext]_loginVars PROVE Served'
  OBVIOUS
<1>1. ASSUME UNCHANGED <<account, login, crossed, loginFaults>> PROVE Served'
  BY <1>1 DEF Served, FirstLoginsCross, NewAccountsAwaited, CallsServed, CallServed
<1>2. ASSUME NEW m \in ReviewLogins, StashExpires(m) PROVE Served'
  BY <1>1, <1>2 DEF StashExpires, UnchangedZitadel, NoLoginFault
<1>3. CASE UNCHANGED loginVars
  BY <1>1, <1>3 DEF loginVars
<1> QED BY <1>2, <1>3, BeginServed, LoginStepServed, ProjectionServed DEF LoginNext

\* Nobody is turned away at first.
LEMMA InitServed == LoginInit => Served
<1> SUFFICES ASSUME LoginInit PROVE FirstLoginsCross /\ NewAccountsAwaited /\ CallsServed
  BY DEF Served
<1>1. \A r \in LoginRequests : login[r] = Unsent
  BY DEF LoginInit
<1>2. \A m \in LoginNames : account[m].exists => account[m].visible
  <2>1. \A m \in LoginNames : account[m] = NoAccount \/ account[m] = KnownAccount("real")
    BY DEF LoginInit
  <2>2. ~NoAccount.exists /\ KnownAccount("real").visible
    BY DEF NoAccount, KnownAccount
  <2> QED BY <2>1, <2>2
<1>3. FirstLoginsCross
  BY <1>1, LoginValues DEF FirstLoginsCross, FirstPhase
<1>4. CallsServed
  BY <1>1, LoginValues DEF CallsServed, CallServed
<1> QED BY <1>2, <1>3, <1>4 DEF NewAccountsAwaited

\* Whatever the lag of the projection and however sign-ins, first logins, resends and
\* verifications interleave: without a failed call, only a sign-in that crossed another first
\* login of its address is turned away, and whoever is still without a name is asked for one.
THEOREM SignInsServed == LoginSpec => []LoginsAnswered
<1>1. LoginInv /\ [LoginNext]_loginVars => LoginInv'
  BY NextLoginInv
<1>2. Served => LoginsAnswered
  BY DEF Served, CallsServed, CallServed, LoginsAnswered, LoginServed, NamelessAreTold
<1> QED BY <1>1, <1>2, InitLoginInv, InitServed, NextServed, PTL DEF LoginSpec
--------------------------------------------------------------------------------
(* The gate                                                                *)

\* The requests refer to entries that were made, and so does the map.
GateRefs ==
  /\ \A k \in Key : entries[k] \in allocated \cup {NoEntry}
  /\ \A r \in Request : entry[r] \in allocated \cup {NoEntry}
  /\ \A e \in Entry : cached[e] # NoCode => e \in allocated

\* An entry's mutex is held by the one request that is at work on it.
GateMutex ==
  /\ \A e \in Entry : holder[e] # NoRequest => Busy(holder[e]) /\ entry[holder[e]] = e
  /\ \A r \in Request : Busy(r) => holder[entry[r]] = r

\* Where no response expires, no entry is collected: a key keeps its entry.
GateKeeps ==
  ~expiry => /\ expired = {}
             /\ \A r \in Request : entry[r] # NoEntry => entry[r] = entries[KeyOf[r]]

\* Who asks Zitadel has missed the cache, and nobody else fills it meanwhile.
GateMissed == \A r \in Request : gateAt[r] = "upstream" => ~Hit(r)

\* An entry serves one key for good.
GateKeys ==
  /\ \A k, l \in Key : entries[k] = entries[l] /\ entries[k] # NoEntry => k = l
  /\ \A r \in Request, k \in Key : entries[k] = entry[r] /\ entry[r] # NoEntry => k = KeyOf[r]
  /\ \A r, s \in Request : entry[r] = entry[s] /\ entry[r] # NoEntry => KeyOf[r] = KeyOf[s]

\* A response that is cached was given to a request.
GateEarned ==
  \A e \in Entry : cached[e] # NoCode =>
    \E s \in Request : entry[s] = e /\ CodeOf[s] = cached[e] /\ gateAt[s] = "ok"

GateInv == GateTypeOK /\ GateRefs /\ GateMutex /\ GateKeeps /\ GateMissed /\ GateKeys /\ GateEarned

\* The invariant holds at first.
LEMMA InitGateInv == GateInit => GateInv
BY DEF GateInit, GateInv, GateTypeOK, GatePhase, GateAnswer, GateRefs, GateMutex, GateKeeps,
       GateMissed, GateKeys, GateEarned, Busy

\* What acquire does to the map: a key that has an entry keeps it unless it is
\* collected, and a new entry has never been used.
LEMMA LookupFacts ==
  ASSUME GateTypeOK, GateRefs, GateKeeps, NEW r \in Request, Acquire(r)
  PROVE  \E e \in Entry :
           /\ entry' = [entry EXCEPT ![r] = e]
           /\ entries' \in [Key -> Entry \cup {NoEntry}]
           /\ entries'[KeyOf[r]] = e
           /\ allocated' = allocated \cup {e}
           /\ \A k \in Key \ {KeyOf[r]} : entries'[k] \in {entries[k], NoEntry}
           /\ e = entries[KeyOf[r]] \/ e \notin allocated
           /\ ~expiry => \A k \in Key : entries[k] # NoEntry => entries'[k] = entries[k]
<1>1. PICK e \in Entry : Lookup(r, e)
  BY DEF Acquire
<1>2. Kept[KeyOf[r]] = NoEntry => Unused \in Entry /\ Unused \notin allocated
  BY DEF Acquire, Unused, GateTypeOK
<1>3. Kept \in [Key -> Entry \cup {NoEntry}]
  BY DEF Kept, GateTypeOK
<1>4. \A k \in Key : Kept[k] \in {entries[k], NoEntry}
  BY DEF Kept
<1>5. ~expiry => \A k \in Key : Kept[k] = entries[k]
  BY DEF Kept, Collected, GateKeeps
<1>6. KeyOf[r] \in Key
  BY GateAssumption
<1>7. entries' = [Kept EXCEPT ![KeyOf[r]] = e] /\ entry' = [entry EXCEPT ![r] = e]
  BY <1>1 DEF Lookup
<1>8. entries' \in [Key -> Entry \cup {NoEntry}] /\ entries'[KeyOf[r]] = e
      /\ \A k \in Key \ {KeyOf[r]} : entries'[k] = Kept[k]
  BY <1>3, <1>6, <1>7
<1>9. allocated' = allocated \cup {e}
  BY <1>1, <1>4, <1>6 DEF Lookup, GateRefs
<1>10. ~expiry /\ entries[KeyOf[r]] # NoEntry => e = entries[KeyOf[r]]
  BY <1>1, <1>5, <1>6 DEF Lookup
<1>11. e = entries[KeyOf[r]] \/ e \notin allocated
  BY <1>1, <1>2, <1>4, <1>6 DEF Lookup
<1> QED BY <1>4, <1>5, <1>6, <1>7, <1>8, <1>9, <1>10, <1>11

\* acquire keeps the invariant: it hands out the entry the map has, or a fresh one.
LEMMA AcquireGateInv ==
  ASSUME GateInv, NEW r \in Request, Acquire(r)
  PROVE  GateInv'
<1>a. GateTypeOK /\ GateRefs /\ GateMutex /\ GateKeeps /\ GateMissed /\ GateKeys /\ GateEarned
  BY DEF GateInv
<1>1. PICK e \in Entry :
        /\ entry' = [entry EXCEPT ![r] = e]
        /\ entries' \in [Key -> Entry \cup {NoEntry}]
        /\ entries'[KeyOf[r]] = e
        /\ allocated' = allocated \cup {e}
        /\ \A k \in Key \ {KeyOf[r]} : entries'[k] \in {entries[k], NoEntry}
        /\ e = entries[KeyOf[r]] \/ e \notin allocated
        /\ ~expiry => \A k \in Key : entries[k] # NoEntry => entries'[k] = entries[k]
  BY <1>a, LookupFacts
<1>2. /\ gateAt[r] = "idle" /\ gateAt' = [gateAt EXCEPT ![r] = "waiting"]
      /\ UNCHANGED <<cached, expired, holder, liveCode, expiry>>
  BY DEF Acquire, GateGoto
<1>3. /\ entry'[r] = e /\ gateAt'[r] = "waiting"
      /\ \A s \in Request \ {r} : entry'[s] = entry[s] /\ gateAt'[s] = gateAt[s]
  BY <1>1, <1>2, <1>a DEF GateTypeOK
<1>4. GateTypeOK'
  BY <1>1, <1>2, <1>3, <1>a, GateAssumption DEF GateTypeOK, GatePhase
<1>5. GateRefs'
  BY <1>1, <1>2, <1>3, <1>a DEF GateRefs
<1>6. GateMutex'
  BY <1>2, <1>3, <1>a DEF GateMutex, Busy, GateTypeOK
<1>7. GateKeeps'
  <2> SUFFICES ASSUME ~expiry, NEW s \in Request, entry'[s] # NoEntry
               PROVE  entry'[s] = entries'[KeyOf[s]]
    BY <1>2, <1>a DEF GateKeeps
  <2> QED BY <1>1, <1>2, <1>3, <1>a, GateAssumption DEF GateKeeps, GateTypeOK
<1>8. GateMissed'
  BY <1>2, <1>3, <1>a DEF GateMissed, Hit
<1>9. GateKeys'
  <2>1. \A k \in Key : k # KeyOf[r] => entries'[k] # e
    BY <1>1, <1>a, GateAssumption DEF GateKeys, GateRefs
  <2>2. \A s \in Request : entry[s] = e => KeyOf[s] = KeyOf[r]
    BY <1>1, <1>a, GateAssumption DEF GateKeys, GateRefs
  <2>3. \A k, l \in Key : entries'[k] = entries'[l] /\ entries'[k] # NoEntry => k = l
    BY <1>1, <1>a, <2>1, GateAssumption DEF GateKeys
  <2>4. ASSUME NEW s \in Request, NEW k \in Key, entries'[k] = entry'[s], entry'[s] # NoEntry
        PROVE  k = KeyOf[s]
    BY <1>1, <1>3, <1>a, <2>1, <2>2, <2>4, GateAssumption DEF GateKeys
  <2>5. ASSUME NEW s \in Request, NEW q \in Request, entry'[s] = entry'[q], entry'[s] # NoEntry
        PROVE  KeyOf[s] = KeyOf[q]
    BY <1>3, <1>a, <2>2, <2>5 DEF GateKeys
  <2> QED BY <2>3, <2>4, <2>5 DEF GateKeys
<1>10. GateEarned'
  <2>1. gateAt[r] # "ok"
    BY <1>2
  <2> QED BY <1>2, <1>3, <1>a, <2>1 DEF GateEarned
<1> QED BY <1>4, <1>5, <1>6, <1>7, <1>8, <1>9, <1>10 DEF GateInv

\* Locking the entry's mutex keeps it.
LEMMA EnterGateInv ==
  ASSUME GateInv, NEW r \in Request, Enter(r)
  PROVE  GateInv'
<1>a. GateTypeOK /\ GateRefs /\ GateMutex /\ GateKeeps /\ GateMissed /\ GateKeys /\ GateEarned
  BY DEF GateInv
<1>1. PICK e \in Entry : e = entry[r]
  BY <1>a DEF Enter, GateTypeOK
<1>2. /\ holder[e] = NoRequest /\ holder'[e] = r /\ gateAt'[r] = "holding"
      /\ \A s \in Request \ {r} : gateAt'[s] = gateAt[s]
      /\ \A d \in Entry \ {e} : holder'[d] = holder[d]
  BY <1>1, <1>a DEF Enter, Free, GateGoto, GateTypeOK
<1>3. GateTypeOK'
  BY <1>1, <1>a DEF Enter, GateGoto, GateTypeOK, GatePhase
<1>4. GateMutex'
  BY <1>1, <1>2, <1>a, GateAssumption DEF GateMutex, Busy, GateTypeOK, Enter
<1>5. GateRefs' /\ GateKeeps' /\ GateMissed'
  BY <1>2, <1>a DEF Enter, GateRefs, GateKeeps, GateMissed, Hit
<1>6. GateKeys' /\ GateEarned'
  <2>1. gateAt[r] # "ok"
    BY DEF Enter
  <2> QED BY <1>2, <1>a, <2>1 DEF Enter, GateKeys, GateEarned
<1> QED BY <1>3, <1>4, <1>5, <1>6 DEF GateInv

\* A request that leaves the gate gives its entry's mutex back.
LEMMA ReleaseMutex ==
  ASSUME GateTypeOK, GateMutex, NEW r \in Request, Busy(r), NEW phase \in GateAnswer,
         GateGoto(r, phase), Release(r), UNCHANGED entry
  PROVE  /\ GateMutex' /\ holder' \in [Entry -> Request \cup {NoRequest}]
         /\ gateAt'[r] = phase /\ \A s \in Request \ {r} : gateAt'[s] = gateAt[s]
<1>1. PICK e \in Entry : e = entry[r]
  BY DEF Busy, GateTypeOK
<1>2. /\ holder'[e] = NoRequest /\ gateAt'[r] = phase
      /\ \A s \in Request \ {r} : gateAt'[s] = gateAt[s]
      /\ \A d \in Entry \ {e} : holder'[d] = holder[d]
  BY <1>1 DEF GateGoto, Release, GateTypeOK
<1>3. holder[e] = r /\ ~Busy(r)'
  BY <1>1, <1>2 DEF GateMutex, Busy, GateAnswer
<1>4. \A s \in Request \ {r} : Busy(s) => entry[s] \in Entry \ {e}
  BY <1>1, <1>3 DEF GateMutex, Busy, GateTypeOK
<1>5. GateMutex'
  BY <1>1, <1>2, <1>3, <1>4 DEF GateMutex, Busy, GateTypeOK
<1>6. holder' \in [Entry -> Request \cup {NoRequest}]
  BY DEF Release, GateTypeOK
<1> QED BY <1>2, <1>5, <1>6

\* So does looking in the entry, whether its response is still good or not.
LEMMA CheckCacheGateInv ==
  ASSUME GateInv, NEW r \in Request, CheckCache(r)
  PROVE  GateInv'
<1>a. GateTypeOK /\ GateRefs /\ GateMutex /\ GateKeeps /\ GateMissed /\ GateKeys /\ GateEarned
  BY DEF GateInv
<1>1. CASE Hit(r)
  <2>1. GateGoto(r, "ok") /\ Release(r) /\ Busy(r) /\ UNCHANGED entry /\ "ok" \in GateAnswer
    BY <1>1 DEF CheckCache, Busy, GateAnswer
  <2>2. /\ GateMutex' /\ holder' \in [Entry -> Request \cup {NoRequest}]
        /\ gateAt'[r] = "ok" /\ \A s \in Request \ {r} : gateAt'[s] = gateAt[s]
    BY <2>1, <1>a, ReleaseMutex
  <2>3. GateTypeOK'
    BY <2>1, <2>2, <1>a DEF CheckCache, GateGoto, GateTypeOK, GatePhase
  <2>4. GateRefs' /\ GateKeeps' /\ GateMissed'
    BY <2>2, <1>a DEF CheckCache, GateRefs, GateKeeps, GateMissed, Hit
  <2>5. GateKeys' /\ GateEarned'
    BY <2>2, <1>a DEF CheckCache, GateKeys, GateEarned
  <2> QED BY <2>2, <2>3, <2>4, <2>5 DEF GateInv
<1>2. CASE ~Hit(r)
  <2>1. /\ gateAt'[r] = "upstream" /\ \A s \in Request \ {r} : gateAt'[s] = gateAt[s]
    BY <1>2, <1>a DEF CheckCache, GateGoto, GateTypeOK
  <2>2. GateTypeOK'
    BY <1>2, <1>a DEF CheckCache, GateGoto, GateTypeOK, GatePhase
  <2>3. GateMutex'
    BY <1>2, <2>1, <1>a DEF CheckCache, GateMutex, Busy, GateTypeOK
  <2>4. GateRefs' /\ GateKeeps' /\ GateMissed'
    BY <1>2, <2>1, <1>a DEF CheckCache, GateRefs, GateKeeps, GateMissed, Hit
  <2>5. GateKeys' /\ GateEarned'
    <3>1. gateAt[r] # "ok"
      BY DEF CheckCache
    <3> QED BY <2>1, <3>1, <1>a DEF CheckCache, GateKeys, GateEarned
  <2> QED BY <2>2, <2>3, <2>4, <2>5 DEF GateInv
<1> QED BY <1>1, <1>2

\* Zitadel has answered, or has not.
LEMMA UpstreamGateInv ==
  ASSUME GateInv, NEW r \in Request, Succeed(r) \/ Refuse(r) \/ Unavailable(r)
  PROVE  GateInv'
<1>a. GateTypeOK /\ GateRefs /\ GateMutex /\ GateKeeps /\ GateMissed /\ GateKeys /\ GateEarned
  BY DEF GateInv
<1>1. PICK e \in Entry : e = entry[r]
  BY <1>a DEF GateTypeOK, Succeed, Refuse, Unavailable
<1>2. PICK phase \in GateAnswer : GateGoto(r, phase)
  BY DEF Succeed, Refuse, Unavailable, GateAnswer
<1>3. /\ GateMutex' /\ holder' \in [Entry -> Request \cup {NoRequest}]
      /\ gateAt'[r] = phase /\ \A s \in Request \ {r} : gateAt'[s] = gateAt[s]
  BY <1>2, <1>a, ReleaseMutex DEF Succeed, Refuse, Unavailable, Busy
<1>4. /\ cached' \in [Entry -> Code \cup {NoCode}] /\ expired' \subseteq expired
      /\ \A d \in Entry \ {e} : cached'[d] = cached[d] /\ (d \in expired' <=> d \in expired)
  BY <1>1, <1>a, GateAssumption DEF Succeed, Refuse, Unavailable, GateTypeOK
<1>5. liveCode' \in [Key -> Code \cup {NoCode}]
  BY <1>a DEF Succeed, Refuse, Unavailable, GateTypeOK
<1>6. UNCHANGED <<entries, allocated, entry, expiry>>
  BY DEF Succeed, Refuse, Unavailable
<1>7. GateTypeOK'
  <2>1. gateAt' \in [Request -> GatePhase]
    BY <1>2, <1>a DEF GateGoto, GateTypeOK, GatePhase
  <2>2. \A s \in Request : gateAt'[s] # "idle" => entry[s] # NoEntry
    BY <1>1, <1>3, <1>a, GateAssumption DEF GateTypeOK
  <2> QED BY <1>3, <1>4, <1>5, <1>6, <2>1, <2>2, <1>a DEF GateTypeOK
<1>8. e \in allocated
  BY <1>1, <1>a, GateAssumption DEF GateRefs
<1>9. GateRefs'
  BY <1>4, <1>6, <1>8, <1>a DEF GateRefs
<1>10. GateKeeps'
  BY <1>1, <1>3, <1>4, <1>6, <1>a DEF GateKeeps, Succeed, Refuse, Unavailable
<1>11. GateMissed'
  <2> SUFFICES ASSUME NEW s \in Request, gateAt'[s] = "upstream" PROVE ~Hit(s)'
    BY DEF GateMissed
  <2>1. s # r /\ gateAt[s] = "upstream"
    BY <1>3 DEF GateAnswer
  <2>2. entry[s] \in Entry \ {e}
    BY <1>1, <2>1, <1>a DEF GateMutex, Busy, GateTypeOK, Succeed, Refuse, Unavailable
  <2> QED BY <1>4, <1>6, <2>1, <2>2, <1>a DEF GateMissed, Hit
<1>12. GateKeys'
  BY <1>6, <1>a DEF GateKeys
<1>13. GateEarned'
  <2>1. gateAt[r] = "upstream"
    BY DEF Succeed, Refuse, Unavailable
  <2>2. ASSUME NEW d \in Entry, cached'[d] # NoCode, cached'[d] = cached[d]
        PROVE  \E s \in Request : entry'[s] = d /\ CodeOf[s] = cached'[d] /\ gateAt'[s] = "ok"
    BY <1>3, <1>6, <2>1, <2>2, <1>a DEF GateEarned
  <2>3. cached'[e] = cached[e] \/ (cached'[e] = CodeOf[r] /\ gateAt'[r] = "ok")
    <3>1. CASE Succeed(r)
      BY <3>1, <1>1, <1>a DEF Succeed, GateTypeOK, GateGoto
    <3>2. CASE Refuse(r) \/ Unavailable(r)
      BY <3>2 DEF Refuse, Unavailable
    <3> QED BY <3>1, <3>2
  <2> QED BY <1>1, <1>4, <1>6, <2>2, <2>3 DEF GateEarned
<1> QED BY <1>3, <1>7, <1>9, <1>10, <1>11, <1>12, <1>13 DEF GateInv

\* Every step keeps the invariant.
LEMMA NextGateInv == GateInv /\ [GateNext]_gateVars => GateInv'
<1> SUFFICES ASSUME GateInv, [GateNext]_gateVars PROVE GateInv'
  OBVIOUS
<1>a. GateTypeOK /\ GateRefs /\ GateMutex /\ GateKeeps /\ GateMissed /\ GateKeys /\ GateEarned
  BY DEF GateInv
<1>1. ASSUME NEW e \in Entry, ExpireResponse(e) PROVE GateInv'
  <2>1. GateTypeOK'
    BY <1>1, <1>a DEF ExpireResponse, GateTypeOK, GateRefs
  <2>2. GateRefs' /\ GateMutex' /\ GateKeeps' /\ GateMissed'
    BY <1>1, <1>a DEF ExpireResponse, GateRefs, GateMutex, GateKeeps, GateMissed, Hit, Busy
  <2>3. GateKeys' /\ GateEarned'
    BY <1>1, <1>a DEF ExpireResponse, GateKeys, GateEarned
  <2> QED BY <2>1, <2>2, <2>3 DEF GateInv
<1>2. ASSUME NEW k \in Key, Issue(k) PROVE GateInv'
  <2>1. liveCode' \in [Key -> Code \cup {NoCode}]
    BY <1>2, <1>a DEF Issue, GateTypeOK
  <2>2. GateTypeOK'
    BY <1>2, <2>1, <1>a DEF Issue, GateTypeOK
  <2>3. GateRefs' /\ GateMutex' /\ GateKeeps' /\ GateMissed'
    BY <1>2, <1>a DEF Issue, GateRefs, GateMutex, GateKeeps, GateMissed, Hit, Busy
  <2>4. GateKeys' /\ GateEarned'
    BY <1>2, <1>a DEF Issue, GateKeys, GateEarned
  <2> QED BY <2>2, <2>3, <2>4 DEF GateInv
<1>3. CASE UNCHANGED gateVars
  BY <1>3, <1>a DEF gateVars, GateInv, GateTypeOK, GateRefs, GateMutex, GateKeeps, GateMissed,
                    GateKeys, GateEarned, Hit, Busy
<1> QED
  BY <1>1, <1>2, <1>3, AcquireGateInv, EnterGateInv, CheckCacheGateInv, UpstreamGateInv
  DEF GateNext, GateStep

\* The gate's invariant.
LEMMA AlwaysGateInv == GateSpec => []GateInv
BY InitGateInv, NextGateInv, PTL DEF GateSpec

\* However requests interleave with each other and with the collection of entries,
\* those of a key pass the gate one at a time (if no response expires meanwhile)
\* and whoever holds an entry's mutex is still at work.
THEOREM GateIsSound == GateSpec => []GateSound
<1>1. GateInv => GateSound
  <2> SUFFICES ASSUME GateInv PROVE GateSound
    OBVIOUS
  <2>1. Serialized
    BY DEF GateInv, GateTypeOK, GateKeeps, GateMutex, Serialized, Busy
  <2>2. MutexGivenBack
    BY DEF GateInv, GateMutex, MutexGivenBack
  <2> QED BY <2>1, <2>2 DEF GateSound
<1> QED BY <1>1, AlwaysGateInv, PTL

\* Only the request that gets an answer ends, and each answer has one step.
LEMMA GateAnswers ==
  ASSUME GateTypeOK, [GateNext]_gateVars, NEW r \in Request
  PROVE  /\ gateAt'[r] = "refused" /\ gateAt[r] # "refused" => Refuse(r)
         /\ gateAt'[r] = "ok" /\ gateAt[r] # "ok" => Succeed(r) \/ (CheckCache(r) /\ Hit(r))
<1>1. CASE UNCHANGED gateAt
  BY <1>1
<1>2. ASSUME NEW s \in Request, Acquire(s) \/ GateStep(s), s # r PROVE gateAt'[r] = gateAt[r]
  BY <1>2 DEF GateTypeOK, GateStep, Acquire, Enter, CheckCache, Succeed, Refuse, Unavailable,
              GateGoto
<1>3. CASE Acquire(r) \/ Enter(r)
  BY <1>3 DEF GateTypeOK, Acquire, Enter, GateGoto
<1>4. CASE CheckCache(r)
  BY <1>4 DEF GateTypeOK, CheckCache, GateGoto
<1>5. CASE Succeed(r)
  BY <1>5 DEF GateTypeOK, Succeed, GateGoto
<1>6. CASE Refuse(r)
  BY <1>6 DEF GateTypeOK, Refuse, GateGoto
<1>7. CASE Unavailable(r)
  BY <1>7 DEF GateTypeOK, Unavailable, GateGoto
<1> QED
  BY <1>1, <1>2, <1>3, <1>4, <1>5, <1>6, <1>7
  DEF GateNext, GateStep, gateVars, ExpireResponse, Issue

\* The retry of a request that succeeded is not refused, and who succeeds without
\* the live code repeats an earlier success with the same code and key.
THEOREM EarnsAnswers == GateSpec => AnswersEarned
<1>1. GateInv /\ [GateNext]_gateVars =>
        [\A r \in Request : gateAt'[r] = "refused" /\ gateAt[r] # "refused" /\ ~expiry
           => ~Fresh(KeyOf[r], CodeOf[r])]_gateVars
  <2> SUFFICES ASSUME GateInv, [GateNext]_gateVars, NEW r \in Request,
                      gateAt'[r] = "refused", gateAt[r] # "refused", ~expiry
               PROVE  ~Fresh(KeyOf[r], CodeOf[r])
    OBVIOUS
  <2>a. GateTypeOK /\ GateRefs /\ GateKeeps /\ GateMissed
    BY DEF GateInv
  <2>1. gateAt[r] = "upstream"
    BY <2>a, GateAnswers DEF Refuse
  <2>2. ~Hit(r) /\ entry[r] = entries[KeyOf[r]] /\ expired = {}
    BY <2>1, <2>a DEF GateMissed, GateKeeps, GateTypeOK
  <2>3. cached[entry[r]] # CodeOf[r]
    BY <2>2 DEF Hit
  <2>4. ASSUME NEW s \in Request, KeyOf[s] = KeyOf[r], entry[s] # NoEntry
        PROVE  entry[s] = entry[r]
    BY <2>2, <2>4, <2>a DEF GateKeeps
  <2> QED BY <2>3, <2>4 DEF Fresh
<1>2. GateInv /\ [GateNext]_gateVars =>
        [\A r \in Request : gateAt'[r] = "ok" /\ gateAt[r] # "ok"
           => Repeats(r) \/ liveCode[KeyOf[r]] = CodeOf[r]]_gateVars
  <2> SUFFICES ASSUME GateInv, [GateNext]_gateVars, NEW r \in Request,
                      gateAt'[r] = "ok", gateAt[r] # "ok"
               PROVE  Repeats(r) \/ liveCode[KeyOf[r]] = CodeOf[r]
    OBVIOUS
  <2>1. Succeed(r) \/ (CheckCache(r) /\ Hit(r))
    BY GateAnswers DEF GateInv
  <2>2. CASE Succeed(r)
    BY <2>2 DEF Succeed, Accepted
  <2>3. CASE CheckCache(r) /\ Hit(r)
    <3>1. PICK e \in Entry : e = entry[r] /\ cached[e] = CodeOf[r] /\ CodeOf[r] # NoCode
      BY <2>3, GateAssumption DEF CheckCache, Hit, GateInv, GateTypeOK
    <3>2. PICK s \in Request : entry[s] = e /\ CodeOf[s] = cached[e] /\ gateAt[s] = "ok"
      BY <3>1 DEF GateInv, GateEarned
    <3>3. KeyOf[s] = KeyOf[r]
      BY <3>1, <3>2, GateAssumption DEF GateInv, GateKeys
    <3> QED BY <2>3, <3>1, <3>2, <3>3 DEF CheckCache, Repeats
  <2> QED BY <2>1, <2>2, <2>3
<1> QED
  BY <1>1, <1>2, AlwaysGateInv, PTL DEF GateSpec, AnswersEarned, DuplicateNotRefused, OkIsEarned
=============================================================================
