------------------------------- MODULE Login -------------------------------
(***************************************************************************)
(* Signing in by a mailed code or by Google or Apple: the handlers of      *)
(* internal/api/auth around Zitadel, which is external.  Zitadel answers   *)
(* commands at once but its queries, and the creation of a session, read a *)
(* projection that lags behind.  Every call to it is a step of its own;    *)
(* what IdempotencyGate adds to the verification of a code is left to that *)
(* module.                                                                 *)
(***************************************************************************)
EXTENDS Naturals, FiniteSets

CONSTANTS LoginNames,      \* mailboxes that sign in
          ReviewLogins,    \* those of store reviewers: their code is stashed, not mailed
          Providers,       \* subset of LoginNames that may also sign in through a provider
          MaxLoginRequests,\* bound: requests, numbered in the order they begin
          MaxLoginFaults   \* bound: calls that fail and waits that time out

ASSUME LoginAssumption ==
  /\ MaxLoginRequests \in Nat
  /\ ReviewLogins \subseteq LoginNames /\ Providers \subseteq LoginNames

VARIABLES account,      \* Zitadel, by mailbox: [exists, visible, enrolled, linked, name]
          sessions,     \* Zitadel, by the request that made it: [login, code, verified]
          login,        \* each request: [op, at, login, session, code, told]
          codes,        \* codes issued so far
          inbox,        \* the last code mailed for each session
          stash,        \* reviewOtpStore: [code, session]
          crossed,      \* mailboxes whose first logins overlapped
          untidy,       \* sessions whose codes overlapped, or whose mail or resend failed
          loginFaults

loginVars == <<account, sessions, login, codes, inbox, stash, crossed, untidy, loginFaults>>

LoginRequests == 1..MaxLoginRequests
NoOtp == 0
Placeholder == "-"
NoAccount == [exists |-> FALSE, visible |-> FALSE, enrolled |-> FALSE, linked |-> FALSE, name |-> ""]
KnownAccount(name) == [exists |-> TRUE, visible |-> TRUE, enrolled |-> FALSE, linked |-> FALSE, name |-> name]
NoSession == [login |-> "", code |-> NoOtp, verified |-> FALSE]
Unsent == [op |-> "none", at |-> "waiting", login |-> "", session |-> 0, code |-> NoOtp, told |-> FALSE]

LoginInit ==
  /\ account \in [LoginNames -> {NoAccount, KnownAccount("real")}]
  /\ sessions = [s \in LoginRequests |-> NoSession]
  /\ login = [r \in LoginRequests |-> Unsent]
  /\ codes = 0
  /\ inbox = [s \in LoginRequests |-> NoOtp]
  /\ stash = [m \in ReviewLogins |-> [code |-> NoOtp, session |-> 0]]
  /\ crossed = {} /\ untidy = {} /\ loginFaults = 0

LoginAt(r, at) == login' = [login EXCEPT ![r].at = at]
Respond(r, answer) == login' = [login EXCEPT ![r].at = answer, ![r].code = NoOtp]
Answers == {"ok", "empty", "invalid", "error"}
LoginFault == loginFaults < MaxLoginFaults /\ loginFaults' = loginFaults + 1
NoLoginFault == UNCHANGED loginFaults
UnchangedZitadel == UNCHANGED <<account, sessions, codes>>
UnchangedMail == UNCHANGED <<inbox, stash, untidy>>

FirstLogin(m) ==
  \E r \in LoginRequests : login[r].login = m /\ login[r].at \in 
    {"find", "create", "intent", "findIdp", "createIdp", "poll"}

BeginLogin(r, op, m) ==
  /\ login' = [login EXCEPT ![r] = [Unsent EXCEPT !.op = op, !.login = m, !.session = r,
                                      !.at = IF op = "otp" THEN "find" ELSE "intent"]]
  /\ crossed' = IF FirstLogin(m) /\ ~account[m].visible THEN crossed \cup {m} ELSE crossed
  /\ UnchangedZitadel /\ UnchangedMail /\ NoLoginFault

(* A resend, a verification or a profile belongs to a session that was     *)
(* handed out.                                                             *)
InFlight(s) == {q \in LoginRequests : login[q].session = s /\ login[q].at \in {"resend", "deliver"}}
BeginWithin(r, op, s) ==
  /\ login[s].session = s /\ login[s].at = "ok"
  /\ (op # "profile" => login[s].op = "otp")
  /\ login' = [login EXCEPT ![r] = [Unsent EXCEPT !.op = op, !.login = sessions[s].login,
                                      !.session = s, !.at = op]]
  /\ untidy' = IF op = "resend" /\ InFlight(s) # {} THEN untidy \cup {s} ELSE untidy
  /\ UnchangedZitadel /\ UNCHANGED <<inbox, stash, crossed>> /\ NoLoginFault

BeginRequest(r) ==
  /\ login[r] = Unsent /\ \A q \in LoginRequests : q < r => login[q] # Unsent
  /\ \/ \E m \in LoginNames : BeginLogin(r, "otp", m)
     \/ \E m \in Providers : BeginLogin(r, "idp", m)
     \/ \E op \in {"resend", "verify", "profile"}, s \in LoginRequests : BeginWithin(r, op, s)

(* A search that fails is taken for an unknown address.                    *)
FindUser(r, ifFound, ifNot) ==
  /\ \/ LoginAt(r, IF account[login[r].login].visible THEN ifFound ELSE ifNot) /\ NoLoginFault
     \/ LoginAt(r, ifNot) /\ LoginFault
  /\ UnchangedZitadel /\ UnchangedMail /\ UNCHANGED crossed

(* Zitadel refuses a second user of a name.                                *)
CreateUser(r, name, linked, refusal) ==
  LET m == login[r].login IN
  /\ IF account[m].exists
     THEN Respond(r, refusal) /\ UNCHANGED account
     ELSE /\ account' = [account EXCEPT ![m] = [KnownAccount(name) EXCEPT !.visible = FALSE, !.linked = linked]]
          /\ LoginAt(r, "poll")
  /\ UNCHANGED <<sessions, codes, crossed>> /\ UnchangedMail /\ NoLoginFault

DontWait(r) ==
  /\ LoginAt(r, IF login[r].op = "otp" THEN "enroll" ELSE "session")
  /\ NoLoginFault
(* waitForZitadelUserProjection polls, and proceeds when it gives up.      *)
WaitForProjection(r) ==
  /\ LoginAt(r, IF login[r].op = "otp" THEN "enroll" ELSE "session")
  /\ IF account[login[r].login].visible THEN NoLoginFault ELSE LoginFault

PollProjection(r) ==
  /\ login[r].at = "poll"
  /\ WaitForProjection(r)
  /\ UnchangedZitadel /\ UnchangedMail /\ UNCHANGED crossed

(* The factor may be enrolled already; a failure is ignored.               *)
EnsureOtpEmail(r) ==
  /\ login[r].at = "enroll"
  /\ \/ account' = [account EXCEPT ![login[r].login].enrolled = TRUE] /\ NoLoginFault
     \/ LoginFault /\ UNCHANGED account
  /\ LoginAt(r, "session")
  /\ UNCHANGED <<sessions, codes, crossed>> /\ UnchangedMail

(* A new code replaces the one before.                                     *)
NewCode(s, m) ==
  /\ codes' = codes + 1
  /\ sessions' = [sessions EXCEPT ![s] = [@ EXCEPT !.login = m, !.code = codes + 1]]

Challenge(r, s, m) ==
  /\ NewCode(s, m)
  /\ login' = [login EXCEPT ![r].at = "deliver", ![r].code = codes + 1]

CreateSession(r) ==
  /\ login[r].at = "session" /\ login[r].op \in {"otp", "idp"} /\ sessions[r] = NoSession
  /\ LET m == login[r].login IN
     \/ /\ login[r].op = "otp"
        /\ IF account[m].visible /\ account[m].enrolled THEN Challenge(r, r, m)
           ELSE Respond(r, "empty") /\ UNCHANGED <<sessions, codes>>
        /\ NoLoginFault
     \/ /\ login[r].op = "idp"
        /\ IF account[m].visible /\ account[m].linked
           THEN /\ sessions' = [sessions EXCEPT ![r] = [NoSession EXCEPT !.login = m, !.verified = TRUE]]
                /\ LoginAt(r, "needs")
           ELSE Respond(r, "error") /\ UNCHANGED sessions
        /\ UNCHANGED codes /\ NoLoginFault
     \/ Respond(r, "error") /\ LoginFault /\ UNCHANGED <<sessions, codes>>
  /\ UNCHANGED <<account, crossed>> /\ UnchangedMail

(* The code goes to the reviewers' stash or by mail.                       *)
StashForAll(r) ==
  /\ stash' = [m \in ReviewLogins |-> [code |-> login[r].code, session |-> login[r].session]]
  /\ UNCHANGED inbox

StashOnce(r) ==
  IF login[r].login \in ReviewLogins
  THEN stash' = [stash EXCEPT ![login[r].login] =
                   IF @.code # NoOtp THEN @ ELSE [code |-> login[r].code, session |-> login[r].session]]
       /\ UNCHANGED inbox
  ELSE inbox' = [inbox EXCEPT ![login[r].session] = login[r].code] /\ UNCHANGED stash

StashOrMail(r) ==
  LET m == login[r].login
      s == login[r].session
  IN IF m \in ReviewLogins
     THEN stash' = [stash EXCEPT ![m] = [code |-> login[r].code, session |-> s]] /\ UNCHANGED inbox
     ELSE inbox' = [inbox EXCEPT ![s] = login[r].code] /\ UNCHANGED stash

(* A resend looks up whose session it is first; when that or the mail      *)
(* fails, the answer is the same.                                          *)
Deliver(r) ==
  /\ login[r].at = "deliver"
  /\ \/ StashOrMail(r) /\ NoLoginFault /\ UNCHANGED untidy
     \/ LoginFault /\ untidy' = untidy \cup {login[r].session} /\ UNCHANGED <<inbox, stash>>
  /\ Respond(r, "ok")
  /\ UnchangedZitadel /\ UNCHANGED crossed

(* A call that fails may have replaced the code all the same: nobody has   *)
(* the new one.                                                            *)
ResendOtp(r) ==
  /\ login[r].at = "resend"
  /\ LET s == login[r].session IN
     \/ Challenge(r, s, sessions[s].login) /\ NoLoginFault /\ UNCHANGED untidy
     \/ /\ Respond(r, "error") /\ LoginFault
        /\ \/ UNCHANGED <<sessions, codes, untidy>>
           \/ NewCode(s, sessions[s].login) /\ untidy' = untidy \cup {s}
  /\ UNCHANGED <<account, crossed, inbox, stash>>

(* The customer types the code that arrived last, or another.              *)
Typed(s) ==
  {NoOtp, IF sessions[s].login \in ReviewLogins THEN stash[sessions[s].login].code ELSE inbox[s]}

(* A call that fails may have spent the code.                              *)
VerifyOtp(r) ==
  /\ login[r].at = "verify"
  /\ LET s == login[r].session IN
     \/ \E code \in Typed(s) :
          IF code # NoOtp /\ code = sessions[s].code
          THEN /\ sessions' = [sessions EXCEPT ![s].code = NoOtp, ![s].verified = TRUE]
               /\ \/ LoginAt(r, "needs") /\ NoLoginFault
                  \/ Respond(r, "error") /\ LoginFault
          ELSE Respond(r, "invalid") /\ UNCHANGED sessions /\ NoLoginFault
     \/ Respond(r, "error") /\ LoginFault /\ UNCHANGED sessions
  /\ UNCHANGED <<account, codes, crossed>> /\ UnchangedMail

NeedsProfileUnlessSocial(r) == login[r].op = "verify" /\ account[login[r].login].name = Placeholder
NeedsProfile(r) == account[login[r].login].name = Placeholder

(* A failed look-up never blocks a login: the answer asks for no profile.  *)
UserNeedsProfileCompletion(r) ==
  /\ login[r].at = "needs"
  /\ \/ login' = [login EXCEPT ![r].at = "ok", ![r].told = NeedsProfile(r)] /\ NoLoginFault
     \/ Respond(r, "ok") /\ LoginFault
  /\ UnchangedZitadel /\ UnchangedMail /\ UNCHANGED crossed

CompleteProfile(r) ==
  /\ login[r].at = "profile"
  /\ \/ account' = [account EXCEPT ![login[r].login].name = "real"] /\ Respond(r, "ok") /\ NoLoginFault
     \/ Respond(r, "error") /\ LoginFault /\ UNCHANGED account
  /\ UNCHANGED <<sessions, codes, crossed>> /\ UnchangedMail

RetrieveIntent(r) ==
  /\ login[r].at = "intent"
  /\ \/ LoginAt(r, IF account[login[r].login].linked THEN "session" ELSE "findIdp") /\ NoLoginFault
     \/ Respond(r, "error") /\ LoginFault
  /\ UnchangedZitadel /\ UnchangedMail /\ UNCHANGED crossed

LinkUnlessLinked(m, r) == ~account[m].linked
(* "already exists" is a success.                                          *)
LinkAccepted(m, r) == TRUE

LinkIdP(r) ==
  /\ login[r].at = "link"
  /\ LET m == login[r].login IN
     \/ /\ IF LinkAccepted(m, r)
           THEN account' = [account EXCEPT ![m].linked = TRUE] /\ LoginAt(r, "session")
           ELSE Respond(r, "error") /\ UNCHANGED account
        /\ NoLoginFault
     \/ Respond(r, "error") /\ LoginFault /\ UNCHANGED account
  /\ UNCHANGED <<sessions, codes, crossed>> /\ UnchangedMail

(* A provider that leaves the name out gets the placeholder.               *)
CreateIdPUser(r) ==
  /\ login[r].at = "createIdp"
  /\ \E name \in {"real", Placeholder} : CreateUser(r, name, TRUE, "error")

LoginStep(r) ==
  \/ login[r].at = "find" /\ FindUser(r, "enroll", "create")
  \/ login[r].at = "create" /\ CreateUser(r, Placeholder, FALSE, "empty")
  \/ login[r].at = "findIdp" /\ FindUser(r, "link", "createIdp")
  \/ PollProjection(r) \/ EnsureOtpEmail(r) \/ CreateSession(r) \/ Deliver(r) \/ ResendOtp(r) \/ VerifyOtp(r)
  \/ UserNeedsProfileCompletion(r) \/ CompleteProfile(r)
  \/ RetrieveIntent(r) \/ LinkIdP(r) \/ CreateIdPUser(r)

ProjectionCatchesUp(m) ==
  /\ account[m].exists /\ ~account[m].visible
  /\ account' = [account EXCEPT ![m].visible = TRUE]
  /\ UNCHANGED <<sessions, login, codes, crossed>> /\ UnchangedMail /\ NoLoginFault

(* ReviewLastOtpHandler shows a code for ten minutes.                      *)
StashExpires(m) ==
  /\ stash[m].code # NoOtp
  /\ stash' = [stash EXCEPT ![m] = [code |-> NoOtp, session |-> 0]]
  /\ UnchangedZitadel /\ UNCHANGED <<login, inbox, crossed, untidy>> /\ NoLoginFault

LoginNext ==
  \/ \E r \in LoginRequests : BeginRequest(r) \/ LoginStep(r)
  \/ \E m \in LoginNames : ProjectionCatchesUp(m)
  \/ \E m \in ReviewLogins : StashExpires(m)

LoginSpec == LoginInit /\ [][LoginNext]_loginVars

(***************************************************************************)
(* Properties.                                                             *)
(***************************************************************************)
LoginTypeOK ==
  /\ \A m \in LoginNames : account[m].visible \/ account[m].enrolled \/ account[m].linked => account[m].exists
  /\ \A m \in ReviewLogins : stash[m].code # NoOtp => sessions[stash[m].session].login = m
  /\ \A s \in LoginRequests : sessions[s].code <= codes /\ inbox[s] <= codes
  /\ \A s \in LoginRequests : sessions[s].code # NoOtp => account[sessions[s].login].enrolled

(* A sign-in is not turned away for the lag of the projection, for a link  *)
(* that exists already or for a factor enrolled before: unless a call      *)
(* failed, or two sign-ins of an address nobody knew crossed each other    *)
(* (the second finds the name taken), everyone gets a session.             *)
LoginServed ==
  loginFaults = 0 => \A r \in LoginRequests :
    login[r].op \in {"otp", "idp"} /\ login[r].at \in {"empty", "error"} => login[r].login \in crossed

(* Once nothing is on its way, the code that arrived last is the one       *)
(* Zitadel accepts, however resends and verifications interleave: only     *)
(* resends that overlap, a mail that failed, or a resend whose answer was  *)
(* lost, leave a dead code.                                                *)
LastCodeIsLive ==
  \A s \in LoginRequests \ untidy :
    sessions[s].code # NoOtp /\ InFlight(s) = {} =>
      LET m == sessions[s].login IN
        IF m \in ReviewLogins THEN stash[m].session = s => stash[m].code = sessions[s].code
        ELSE inbox[s] = sessions[s].code

(* Who has signed in to an account made without a name was told to give    *)
(* one, by whatever way the account was made.                              *)
NamelessAreTold ==
  loginFaults = 0 => \A r \in LoginRequests :
    login[r].op \in {"verify", "idp"} /\ login[r].at = "ok" /\ ~login[r].told =>
      account[login[r].login].name # Placeholder

\* A sign-in that overlaps others, or meets a lagging projection, ends as it
\* would have alone, and whoever still has a placeholder name is asked for one.
LoginsAnswered == LoginServed /\ NamelessAreTold
=============================================================================
