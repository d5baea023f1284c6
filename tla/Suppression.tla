----------------------------- MODULE Suppression -----------------------------
(***************************************************************************)
(* The suppression list: every hour the service asks its mail provider     *)
(* which mails of the last two days failed, and lists the recipients that  *)
(* can never be reached; a mail to a listed address is not sent.           *)
(*                                                                         *)
(* The provider may learn hours after the sending that a mail failed.  The *)
(* poll starts with the hour and ends within it; it fails when a page      *)
(* cannot be read or while the service is down, and what it could not      *)
(* write is left to the next one.                                          *)
(***************************************************************************)
EXTENDS Integers, Sequences, FiniteSets

CONSTANTS Mailees,        \* normalised addresses
          BounceWindow,   \* hours looked back, 48 in the code
          BouncePageSize, \* 100 in the code
          MaxMails, MaxHours, MaxMailFaults

ASSUME SuppressionAssumption ==
  BounceWindow \in Nat /\ BouncePageSize \in Nat \ {0}

VARIABLES mails,      \* in the order of sending
          listed,     \* the table email_suppressions
          hour,
          bouncePage, \* pages this hour's poll has read
          polled,     \* it is over
          mailFaults

mailVars == <<mails, listed, hour, bouncePage, polled, mailFaults>>

Mail(a) == [to |-> a, sentAt |-> hour, state |-> "underway", flagAge |-> 0]

SuppressionInit ==
  /\ mails = <<>> /\ listed = {} /\ mailFaults = 0
  /\ hour = 0 /\ bouncePage = 0 /\ polled = FALSE
-----------------------------------------------------------------------------
\* A failed look-up is taken for an address that is not listed.
IsSuppressed(a, fails) == a \in listed /\ ~fails

Dispatch(a) ==
  \E fails \in BOOLEAN :
    /\ fails => mailFaults < MaxMailFaults
    /\ ~IsSuppressed(a, fails) /\ Len(mails) < MaxMails
    /\ mails' = Append(mails, Mail(a))
    /\ mailFaults' = IF fails THEN mailFaults + 1 ELSE mailFaults
    /\ UNCHANGED <<listed, hour, bouncePage, polled>>

\* The provider learns that a mail failed, for now or for good.
Flag(i, outcome) ==
  /\ mails[i].state = "underway"
  /\ mails' = [mails EXCEPT ![i].state = outcome,
                           ![i].flagAge = IF outcome = "hard" THEN hour - mails[i].sentAt ELSE 0]
  /\ UNCHANGED <<listed, hour, bouncePage, polled, mailFaults>>
-----------------------------------------------------------------------------
\* Mutant of Since: every poll takes up where the last one began.
SinceLastPoll == hour - 1

\* How far a poll looks back.
Since == hour - BounceWindow

\* Mutant of HasHardBounceFlag: whatever failed.
AnyFailure(mail) == mail.state \in {"soft", "hard"}

HasHardBounceFlag(mail) == mail.state = "hard"

\* The mails the provider lists as failed.
FailedMails == {i \in DOMAIN mails : mails[i].state \in {"soft", "hard"} /\ mails[i].sentAt >= Since}

\* It lists the latest first: so many mails come before mail i.
Place(i) == Cardinality({j \in FailedMails : j > i})

Page(n) == {i \in FailedMails : Place(i) \in n * BouncePageSize .. (n + 1) * BouncePageSize - 1}

\* A page that is not full is the last one.
FullPage(n) == Cardinality(FailedMails) >= (n + 1) * BouncePageSize

\* One page; a recipient that cannot be written is passed over.
PollHardBounces ==
  LET bounced == {mails[i].to : i \in {j \in Page(bouncePage) : HasHardBounceFlag(mails[j])}}
  IN /\ ~polled
     /\ \E lost \in SUBSET bounced :
          /\ lost # {} => mailFaults < MaxMailFaults
          /\ listed' = listed \cup (bounced \ lost)
          /\ mailFaults' = IF lost = {} THEN mailFaults ELSE mailFaults + 1
     /\ polled' = ~FullPage(bouncePage)
     /\ bouncePage' = IF FullPage(bouncePage) THEN bouncePage + 1 ELSE 0
     /\ UNCHANGED <<mails, hour>>

\* A page that cannot be read ends the poll; while the service is down there is none.
PollFails ==
  /\ ~polled /\ mailFaults < MaxMailFaults
  /\ mailFaults' = mailFaults + 1 /\ polled' = TRUE /\ bouncePage' = 0
  /\ UNCHANGED <<mails, listed, hour>>

NextHour ==
  /\ polled /\ hour < MaxHours
  /\ hour' = hour + 1 /\ polled' = FALSE
  /\ UNCHANGED <<mails, listed, bouncePage, mailFaults>>

SuppressionNext ==
  \/ \E a \in Mailees : Dispatch(a)
  \/ \E i \in DOMAIN mails, outcome \in {"soft", "hard"} : Flag(i, outcome)
  \/ PollHardBounces \/ PollFails \/ NextHour

SuppressionSpec == SuppressionInit /\ [][SuppressionNext]_mailVars
-----------------------------------------------------------------------------
SuppressionTypeOK ==
  /\ listed \subseteq Mailees /\ hour \in 0..MaxHours
  /\ bouncePage \in 0..MaxMails /\ polled \in BOOLEAN /\ mailFaults \in 0..MaxMailFaults
  /\ Len(mails) <= MaxMails
  /\ \A i \in DOMAIN mails :
       mails[i] \in [to : Mailees, sentAt : 0..MaxHours, flagAge : 0..MaxHours,
                     state : {"underway", "soft", "hard"}]

Bounced(mail) == mail.state = "hard"

\* The bounces a poll is promised to see: the mail is still in the window after one
\* more poll, and after as many as failed.
SeenInTime(mail) == Bounced(mail) /\ mail.flagAge + 1 + mailFaults <= BounceWindow

\* However late a bounce becomes known, and whichever polls fail, its recipient is
\* listed before the mail leaves the window.
BouncesLand ==
  \A i \in DOMAIN mails :
    LET due == mails[i].flagAge + 1 + mailFaults
        age == hour - mails[i].sentAt
    IN SeenInTime(mails[i]) /\ (age > due \/ (age = due /\ polled)) => mails[i].to \in listed

\* Nobody is listed for a failure that may pass.
OnlyUnreachable ==
  \A a \in listed : \E i \in DOMAIN mails : mails[i].to = a /\ Bounced(mails[i])

\* An address that bounced is not written to again later than an hour after the
\* bounce became known, unless a call failed.
NotMailedAgain ==
  \A i, j \in DOMAIN mails :
    SeenInTime(mails[i]) /\ mails[j].to = mails[i].to
      /\ mails[j].sentAt > mails[i].sentAt + mails[i].flagAge + 1
    => mailFaults > 0

\* The list keeps up with the bounces, and holds nothing else.
SuppressionSound == BouncesLand /\ OnlyUnreachable /\ NotMailedAgain
=============================================================================
