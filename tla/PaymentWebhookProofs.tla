-------------------------- MODULE PaymentWebhookProofs --------------------------
(***************************************************************************)
(* PaymentWebhook for any number of deliveries and faults: deliveries run  *)
(* one at a time, the stored status moves forward, an order is announced   *)
(* at most once, a payment stored as dead leaves a cancelled order, and    *)
(* the handler implements PaymentLedger.                                   *)
(*                                                                         *)
(* What makes it work is that a delivery decides on what it has read under *)
(* the lock: Agrees says what its local variables still tell of the stored *)
(* status at every step, and MailsAccounted where the mail that is not     *)
(* covered by a fault is.  Neither is inductive without OneInside, which   *)
(* keeps every other delivery from writing in between.                     *)
(***************************************************************************)
EXTENDS PaymentWebhook, TLAPS

Moves == Abstract!Moves

\* What delivery d has read, against what is stored now.
Agrees(d) ==
  /\ hook[d].at \in {"found", "fetched", "handled"} => hook[d].known = stored
  /\ hook[d].at \in {"fetched", "handled"} =>
       /\ hook[d].fetched \in Moves[stored]
       /\ Abstract!Reaches(hook[d].fetched, mollie)
  /\ hook[d].at = "persisted" =>
       /\ hook[d].fetched = stored
       /\ stored = "paid" => announced = 0

MailPending == \E d \in Delivery : At(d, "handled") /\ hook[d].fetched = "paid"

\* Every mail but one was followed by a fault, and every one until the payment
\* is paid and the delivery that sent the last one is under way or has stored it.
MailsAccounted ==
  /\ emailed <= 1 + faults
  /\ emailed <= faults \/ stored = "paid" \/ MailPending

Consistent ==
  /\ Abstract!Reaches(stored, mollie)
  /\ announced <= 1
  /\ announced > 0 => stored = "paid"
  /\ \A d \in Delivery : Agrees(d)
  /\ MailsAccounted

\* A delivery that is about to store a dead payment has cancelled the order.
DeathHandled ==
  /\ stored \in PaymentDead => status = "CANCELLED"
  /\ \A d \in Delivery :
       At(d, "handled") /\ hook[d].fetched \in PaymentDead => status = "CANCELLED"

IndInv ==
  /\ TypeOK
  /\ OneInside
  /\ ~May("overrides") => Consistent
  /\ environment \subseteq {"faults"} => DeathHandled

---------------------------------------------------------------------------------
(* Mollie's statuses *)

\* Moves is a strict order with the settled statuses at its end.
LEMMA MovesFacts ==
  /\ \A s \in PaymentStatus : Moves[s] \subseteq PaymentStatus /\ s \notin Moves[s]
  /\ \A s, t \in PaymentStatus : t \in Moves[s] => Moves[t] \subseteq Moves[s]
  /\ Moves["paid"] = {}
  /\ \A s \in PaymentDead : Moves[s] = {}
BY DEF Moves, PaymentStatus, PaymentDead,
       Abstract!Moves, Abstract!PaymentStatus, Abstract!PaymentDead

---------------------------------------------------------------------------------
(* Calls of the handler *)

\* A delivery in progress is a call with all its fields.
LEMMA CallTyped ==
  ASSUME TypeOK, NEW d \in Delivery, hook[d].at # "idle"
  PROVE  hook[d] \in Call
BY DEF TypeOK, Idle

\* Changing a call's phase keeps the types and everything else.
LEMMA Advanced ==
  ASSUME TypeOK, NEW d \in Delivery, hook[d].at # "idle",
         NEW phase \in {"waiting"} \cup Inside,
         hook' = [hook EXCEPT ![d].at = phase]
  PROVE  /\ hook' \in [Delivery -> Call \cup {Idle}]
         /\ hook'[d].at = phase
         /\ hook'[d].known = hook[d].known
         /\ hook'[d].fetched = hook[d].fetched
         /\ \A e \in Delivery \ {d} : hook'[e] = hook[e]
<1>1. hook[d] \in Call
  BY CallTyped
<1>2. [hook[d] EXCEPT !.at = phase] \in Call
  BY <1>1 DEF Call
<1>3. hook' = [hook EXCEPT ![d] = [hook[d] EXCEPT !.at = phase]]
  OBVIOUS
<1>4. hook \in [Delivery -> Call \cup {Idle}]
  BY DEF TypeOK
<1>5. hook'[d] = [hook[d] EXCEPT !.at = phase] /\ \A e \in Delivery \ {d} : hook'[e] = hook[e]
  BY <1>3, <1>4
<1>6. hook' \in [Delivery -> Call \cup {Idle}]
  BY <1>2, <1>3, <1>4
<1> QED BY <1>1, <1>5, <1>6 DEF Call

\* LookUp and Fetch also set a field.
LEMMA AdvancedKnown ==
  ASSUME TypeOK, NEW d \in Delivery, hook[d].at # "idle",
         hook' = [hook EXCEPT ![d].at = "found", ![d].known = stored]
  PROVE  /\ hook' \in [Delivery -> Call \cup {Idle}]
         /\ hook'[d].at = "found" /\ hook'[d].known = stored
         /\ \A e \in Delivery \ {d} : hook'[e] = hook[e]
<1>1. hook[d] \in Call
  BY CallTyped
<1> DEFINE call == [hook[d] EXCEPT !.at = "found", !.known = stored]
<1>2. call \in Call /\ call.at = "found" /\ call.known = stored
  BY <1>1 DEF Call, Inside, TypeOK
<1>3. hook \in [Delivery -> Call \cup {Idle}]
  BY DEF TypeOK
<1>4. hook' = [hook EXCEPT ![d] = call]
  BY <1>1, <1>3 DEF Call
<1> HIDE DEF call
<1>5. hook'[d] = call /\ \A e \in Delivery \ {d} : hook'[e] = hook[e]
  BY <1>3, <1>4
<1>6. hook' \in [Delivery -> Call \cup {Idle}]
  BY <1>2, <1>3, <1>4
<1> QED BY <1>2, <1>5, <1>6

LEMMA AdvancedFetched ==
  ASSUME TypeOK, NEW d \in Delivery, hook[d].at # "idle",
         NEW phase \in Inside,
         hook' = [hook EXCEPT ![d].fetched = mollie, ![d].at = phase]
  PROVE  /\ hook' \in [Delivery -> Call \cup {Idle}]
         /\ hook'[d].at = phase /\ hook'[d].fetched = mollie
         /\ hook'[d].known = hook[d].known
         /\ \A e \in Delivery \ {d} : hook'[e] = hook[e]
<1>1. hook[d] \in Call
  BY CallTyped
<1> DEFINE call == [hook[d] EXCEPT !.fetched = mollie, !.at = phase]
<1>2. call \in Call /\ call.at = phase /\ call.fetched = mollie /\ call.known = hook[d].known
  BY <1>1 DEF Call, TypeOK
<1>3. hook \in [Delivery -> Call \cup {Idle}]
  BY DEF TypeOK
<1>4. hook' = [hook EXCEPT ![d] = call]
  BY <1>1, <1>3 DEF Call
<1> HIDE DEF call
<1>5. hook'[d] = call /\ \A e \in Delivery \ {d} : hook'[e] = hook[e]
  BY <1>3, <1>4
<1>6. hook' \in [Delivery -> Call \cup {Idle}]
  BY <1>2, <1>3, <1>4
<1> QED BY <1>2, <1>5, <1>6

\* A delivery comes or goes.
LEMMA Replaced ==
  ASSUME TypeOK, NEW d \in Delivery, NEW call \in Call \cup {Idle},
         hook' = [hook EXCEPT ![d] = call]
  PROVE  /\ hook' \in [Delivery -> Call \cup {Idle}]
         /\ hook'[d] = call
         /\ \A e \in Delivery \ {d} : hook'[e] = hook[e]
BY DEF TypeOK

\* While one delivery is inside, no other is.
LEMMA Alone ==
  ASSUME OneInside, NEW d \in Delivery, hook[d].at \in Inside
  PROVE  lock = d /\ \A e \in Delivery \ {d} : hook[e].at \notin Inside
BY DEF OneInside

---------------------------------------------------------------------------------
(* Types *)

\* The steps of a call: d is where the action requires it to be.
LEMMA TypesKeptByStep ==
  ASSUME TypeOK, NEW d \in Delivery, Step(d)
  PROVE  TypeOK'
<1>1. mollie \in PaymentStatus /\ stored \in PaymentStatus
  BY DEF TypeOK
<1>2. ASSUME Lock(d) PROVE TypeOK'
  <2>1. hook' \in [Delivery -> Call \cup {Idle}]
    BY <1>2, Advanced DEF Lock, At, Inside
  <2> QED BY <2>1, <1>2 DEF Lock, TypeOK, fixed
<1>3. ASSUME LookUp(d) PROVE TypeOK'
  <2>1. hook' \in [Delivery -> Call \cup {Idle}]
    BY <1>3, AdvancedKnown DEF LookUp, At
  <2> QED BY <2>1, <1>3 DEF LookUp, TypeOK, fixed
<1>4. ASSUME Fetch(d) PROVE TypeOK'
  <2>1. hook' \in [Delivery -> Call \cup {Idle}]
    BY <1>4, AdvancedFetched DEF Fetch, At, Inside
  <2> QED BY <2>1, <1>4 DEF Fetch, TypeOK, fixed
<1>5. ASSUME Handle(d) PROVE TypeOK'
  <2>1. hook' \in [Delivery -> Call \cup {Idle}]
    BY <1>5, Advanced DEF Handle, At, Inside
  <2> QED BY <2>1, <1>5 DEF Handle, AfterFailure, TypeOK, fixed, Status
<1>6. ASSUME Persist(d) PROVE TypeOK'
  <2>1. hook' \in [Delivery -> Call \cup {Idle}]
    BY <1>6, Advanced DEF Persist, At, Inside
  <2>2. hook[d].fetched \in PaymentStatus
    BY <1>6, CallTyped DEF Persist, At, Call
  <2> QED BY <2>1, <2>2, <1>6 DEF Persist, TypeOK, fixed
<1>7. ASSUME Publish(d) PROVE TypeOK'
  <2>1. hook' \in [Delivery -> Call \cup {Idle}]
    BY <1>7, Advanced DEF Publish, At, Inside
  <2> QED BY <2>1, <1>7 DEF Publish, TypeOK, fixed
<1>8. ASSUME Ack(d) PROVE TypeOK'
  <2>1. hook' \in [Delivery -> Call \cup {Idle}]
    BY <1>8, Replaced DEF Ack
  <2> QED BY <2>1, <1>8 DEF Ack, TypeOK, fixed
<1> QED BY <1>2, <1>3, <1>4, <1>5, <1>6, <1>7, <1>8 DEF Step

LEMMA TypesKept == TypeOK /\ [Next]_vars => TypeOK'
<1> SUFFICES ASSUME TypeOK, [Next]_vars PROVE TypeOK'
  OBVIOUS
<1>1. CASE UNCHANGED vars
  BY <1>1 DEF vars, TypeOK
<1>2. ASSUME MollieMoves PROVE TypeOK'
  BY <1>2, MovesFacts DEF MollieMoves, TypeOK, fixed, Moves
<1>3. ASSUME NEW d \in Delivery, Deliver(d) PROVE TypeOK'
  <2>1. PICK s \in unacked :
          hook' = [hook EXCEPT ![d] = [at |-> "waiting", about |-> s,
                                       known |-> "open", fetched |-> "open"]]
    BY <1>3 DEF Deliver
  <2>2. [at |-> "waiting", about |-> s, known |-> "open", fetched |-> "open"] \in Call
    BY <2>1 DEF TypeOK, Call, PaymentStatus, Abstract!PaymentStatus
  <2>3. hook' \in [Delivery -> Call \cup {Idle}]
    BY <2>1, <2>2, Replaced
  <2> QED BY <2>3, <1>3 DEF Deliver, TypeOK, fixed
<1>4. ASSUME NEW d \in Delivery, GiveUp(d) PROVE TypeOK'
  <2>1. hook' \in [Delivery -> Call \cup {Idle}]
    BY <1>4, Replaced DEF GiveUp
  <2>2. swallowed' \in BOOLEAN
    BY <1>4 DEF GiveUp, Swallows, TypeOK
  <2> QED BY <2>1, <2>2, <1>4, WebhookAssumption DEF GiveUp, TypeOK
<1>5. ASSUME StaffProgress \/ StaffCancels \/ CancelStaleTestOrder PROVE TypeOK'
  BY <1>5, WebhookAssumption
  DEF StaffProgress, StaffCancels, CancelStaleTestOrder, TypeOK, fixed, Status
<1>6. ASSUME RefundFails \/ OverrideStatus PROVE TypeOK'
  BY <1>6, WebhookAssumption DEF RefundFails, OverrideStatus, TypeOK, fixed
<1>7. ASSUME Refund PROVE TypeOK'
  <2>1. refunded' \in BOOLEAN
    BY <1>7, Zenon DEF Refund
  <2> QED BY <2>1, <1>7 DEF Refund, TypeOK, fixed
<1> QED BY <1>1, <1>2, <1>3, <1>4, <1>5, <1>6, <1>7, TypesKeptByStep DEF Next

---------------------------------------------------------------------------------
(* Mutual exclusion *)

LEMMA ExclusionKept == TypeOK /\ OneInside /\ [Next]_vars => OneInside'
<1> SUFFICES ASSUME TypeOK, OneInside, [Next]_vars PROVE OneInside'
  OBVIOUS
<1>1. ASSUME UNCHANGED <<hook, lock>> PROVE OneInside'
  BY <1>1 DEF OneInside
<1>2. ASSUME NEW d \in Delivery, lock' = lock,
             \A e \in Delivery \ {d} : hook'[e] = hook[e],
             hook'[d].at \in Inside <=> hook[d].at \in Inside
      PROVE  OneInside'
  BY <1>2 DEF OneInside
<1>3. ASSUME NEW d \in Delivery, hook' = [hook EXCEPT ![d] = Idle],
             lock' = IF lock = d THEN Nobody ELSE lock
      PROVE  OneInside'
  <2>1. hook'[d] = Idle /\ \A e \in Delivery \ {d} : hook'[e] = hook[e]
    BY <1>3, Replaced
  <2>2. Idle.at \notin Inside
    BY DEF Idle, Inside
  <2> QED BY <2>1, <2>2, <1>3, WebhookAssumption DEF OneInside
<1>4. ASSUME NEW d \in Delivery, Deliver(d) PROVE OneInside'
  <2>1. PICK s \in unacked :
          hook' = [hook EXCEPT ![d] = [at |-> "waiting", about |-> s,
                                       known |-> "open", fetched |-> "open"]]
    BY <1>4 DEF Deliver
  <2>2. [at |-> "waiting", about |-> s, known |-> "open", fetched |-> "open"] \in Call
    BY <2>1 DEF TypeOK, Call, PaymentStatus, Abstract!PaymentStatus
  <2>3. hook'[d].at = "waiting" /\ \A e \in Delivery \ {d} : hook'[e] = hook[e]
    BY <2>1, <2>2, Replaced
  <2> QED BY <2>3, <1>2, <1>4 DEF Deliver, At, Inside
<1>5. ASSUME NEW d \in Delivery, Lock(d) PROVE OneInside'
  <2>1. hook'[d].at = "locked" /\ \A e \in Delivery \ {d} : hook'[e] = hook[e]
    BY <1>5, Advanced DEF Lock, At, Inside
  <2>2. \A e \in Delivery : hook[e].at \notin Inside
    BY <1>5, WebhookAssumption DEF Lock, LockFree, OneInside
  <2> QED BY <2>1, <2>2, <1>5 DEF Lock, OneInside, Inside
<1>6. ASSUME NEW d \in Delivery, LookUp(d) PROVE OneInside'
  BY <1>2, <1>6, AdvancedKnown DEF LookUp, At, Inside
<1>7. ASSUME NEW d \in Delivery, Fetch(d) PROVE OneInside'
  BY <1>2, <1>7, AdvancedFetched DEF Fetch, At, Inside
<1>8. ASSUME NEW d \in Delivery, Handle(d) \/ Persist(d) \/ Publish(d) PROVE OneInside'
  BY <1>2, <1>8, Advanced DEF Handle, Persist, Publish, At, Inside
<1>9. ASSUME NEW d \in Delivery, Ack(d) PROVE OneInside'
  BY <1>3, <1>9, Alone DEF Ack, At, Inside
<1>10. ASSUME NEW d \in Delivery, GiveUp(d) PROVE OneInside'
  BY <1>3, <1>10 DEF GiveUp
<1>11. ASSUME MollieMoves \/ StaffProgress \/ StaffCancels \/ Refund \/ RefundFails
                \/ CancelStaleTestOrder \/ OverrideStatus \/ UNCHANGED vars
       PROVE  OneInside'
  BY <1>1, <1>11
  DEF MollieMoves, StaffProgress, StaffCancels, Refund, RefundFails,
      CancelStaleTestOrder, OverrideStatus, vars
<1> QED
  BY <1>4, <1>5, <1>6, <1>7, <1>8, <1>9, <1>10, <1>11 DEF Next, Step

---------------------------------------------------------------------------------
(* What a delivery has read *)

\* Steps outside the handler, and those that begin or break off a call.
LEMMA ConsistentKeptOutside ==
  ASSUME TypeOK, OneInside, ~May("overrides"), Consistent,
         \/ MollieMoves \/ StaffProgress \/ StaffCancels \/ Refund \/ RefundFails
         \/ CancelStaleTestOrder \/ UNCHANGED vars
  PROVE  Consistent'
<1>1. UNCHANGED <<stored, hook, announced, emailed>> /\ faults' \in {faults, faults + 1}
  BY DEF MollieMoves, StaffProgress, StaffCancels, Refund, RefundFails,
         CancelStaleTestOrder, vars
<1>2. Abstract!Reaches(mollie, mollie')
  BY DEF MollieMoves, StaffProgress, StaffCancels, Refund, RefundFails,
         CancelStaleTestOrder, vars, Abstract!Reaches
<1>3. ASSUME NEW s \in PaymentStatus, Abstract!Reaches(s, mollie)
      PROVE  Abstract!Reaches(s, mollie')
  BY <1>2, <1>3, MovesFacts DEF Abstract!Reaches, Moves, TypeOK
<1>4. Abstract!Reaches(stored', mollie')
  BY <1>1, <1>3 DEF Consistent, TypeOK
<1>5. ASSUME NEW d \in Delivery PROVE Agrees(d)'
  <2>1. hook[d].at # "idle" => hook[d].fetched \in PaymentStatus
    BY CallTyped DEF Call
  <2> QED BY <1>1, <1>3, <2>1 DEF Consistent, Agrees
<1>6. MailsAccounted'
  <2>1. MailPending => MailPending'
    BY <1>1 DEF MailPending, At
  <2>2. faults \in Nat /\ emailed \in Nat
    BY WebhookAssumption DEF TypeOK
  <2>3. /\ emailed <= 1 + faults => emailed' <= 1 + faults'
        /\ emailed <= faults => emailed' <= faults'
    <3>1. emailed' = emailed /\ (faults' = faults \/ faults' = faults + 1)
      BY <1>1
    <3> QED BY <2>2, <3>1
  <2> QED BY <1>1, <2>1, <2>3 DEF Consistent, MailsAccounted
<1> QED BY <1>1, <1>4, <1>5, <1>6 DEF Consistent

\* A call that was not inside and is not, or is there only to read, tells
\* nothing yet.
LEMMA NothingRead ==
  ASSUME NEW d \in Delivery,
         hook'[d].at \in {"idle", "waiting", "locked", "acked"}
  PROVE  Agrees(d)'
BY DEF Agrees

\* Delivery d moves on without a mail, a publication or a change of status.
LEMMA ConsistentKeptByCall ==
  ASSUME TypeOK, OneInside, Consistent, NEW d \in Delivery,
         UNCHANGED <<mollie, stored, announced, emailed>>,
         faults' = faults \/ (faults' = faults + 1 /\ hook'[d] = Idle),
         \A e \in Delivery \ {d} : hook'[e] = hook[e],
         Agrees(d)',
         hook[d].at = "handled" => hook'[d] = Idle /\ faults' = faults + 1
  PROVE  Consistent'
<1>1. \A e \in Delivery \ {d} : Agrees(e)'
  BY DEF Consistent, Agrees
<1>2. MailsAccounted'
  <2>1. CASE hook[d].at = "handled"
    <3>1. faults \in Nat /\ emailed \in Nat /\ faults' = faults + 1
      BY <2>1, WebhookAssumption DEF TypeOK
    <3>2. emailed' <= faults'
      BY <3>1 DEF Consistent, MailsAccounted
    <3>3. emailed' <= 1 + faults'
      BY <3>1, <3>2
    <3> QED BY <3>2, <3>3 DEF MailsAccounted
  <2>2. CASE hook[d].at # "handled"
    <3>1. MailPending => MailPending'
      BY <2>2 DEF MailPending, At
    <3>2. faults \in Nat /\ emailed \in Nat
      BY WebhookAssumption DEF TypeOK
    <3>3. /\ emailed <= 1 + faults => emailed' <= 1 + faults'
          /\ emailed <= faults => emailed' <= faults'
      BY <3>2
    <3> QED BY <3>1, <3>3 DEF Consistent, MailsAccounted
  <2> QED BY <2>1, <2>2
<1> QED BY <1>1, <1>2 DEF Consistent

LEMMA ConsistentKeptByReads ==
  ASSUME TypeOK, OneInside, Consistent, NEW d \in Delivery,
         Deliver(d) \/ Lock(d) \/ LookUp(d) \/ Fetch(d) \/ Ack(d) \/ GiveUp(d)
  PROVE  Consistent'
<1>1. ASSUME Deliver(d) PROVE Consistent'
  <2>1. PICK s \in unacked :
          hook' = [hook EXCEPT ![d] = [at |-> "waiting", about |-> s,
                                       known |-> "open", fetched |-> "open"]]
    BY <1>1 DEF Deliver
  <2>2. [at |-> "waiting", about |-> s, known |-> "open", fetched |-> "open"] \in Call
    BY <2>1 DEF TypeOK, Call, PaymentStatus, Abstract!PaymentStatus
  <2>3. hook'[d].at = "waiting" /\ \A e \in Delivery \ {d} : hook'[e] = hook[e]
    BY <2>1, <2>2, Replaced
  <2> QED BY <2>3, <1>1, NothingRead, ConsistentKeptByCall DEF Deliver, At
<1>2. ASSUME Lock(d) PROVE Consistent'
  <2>1. hook'[d].at = "locked" /\ \A e \in Delivery \ {d} : hook'[e] = hook[e]
    BY <1>2, Advanced DEF Lock, At, Inside
  <2> QED BY <2>1, <1>2, NothingRead, ConsistentKeptByCall DEF Lock, At
<1>3. ASSUME LookUp(d) PROVE Consistent'
  <2>1. /\ hook'[d].at = "found" /\ hook'[d].known = stored
        /\ \A e \in Delivery \ {d} : hook'[e] = hook[e]
    BY <1>3, AdvancedKnown DEF LookUp, At
  <2>2. Agrees(d)'
    BY <2>1, <1>3 DEF LookUp, Agrees
  <2> QED BY <2>1, <2>2, <1>3, ConsistentKeptByCall DEF LookUp, At
<1>4. ASSUME Fetch(d) PROVE Consistent'
  <2> DEFINE phase == IF AlreadyProcessed(d) THEN "acked" ELSE "fetched"
  <2>1. /\ hook'[d].at = phase /\ hook'[d].fetched = mollie
        /\ hook'[d].known = hook[d].known
        /\ \A e \in Delivery \ {d} : hook'[e] = hook[e]
    BY <1>4, AdvancedFetched DEF Fetch, At, Inside
  <2>2. ASSUME ~AlreadyProcessed(d) PROVE Agrees(d)'
    <3>1. hook[d].known = stored /\ stored # mollie
      BY <1>4, <2>2 DEF Fetch, At, Consistent, Agrees, AlreadyProcessed
    <3>2. mollie \in Moves[stored]
      BY <3>1 DEF Consistent, Abstract!Reaches, Moves
    <3> QED BY <2>1, <2>2, <3>1, <3>2, <1>4 DEF Agrees, Abstract!Reaches, Fetch
  <2>3. Agrees(d)'
    BY <2>1, <2>2, NothingRead
  <2> QED BY <2>1, <2>3, <1>4, ConsistentKeptByCall DEF Fetch, At
<1>5. ASSUME Ack(d) \/ GiveUp(d) PROVE Consistent'
  <2>1. hook' = [hook EXCEPT ![d] = Idle]
    BY <1>5 DEF Ack, GiveUp
  <2>2. hook'[d] = Idle /\ \A e \in Delivery \ {d} : hook'[e] = hook[e]
    BY <2>1, Replaced
  <2>3. Agrees(d)'
    BY <2>2, NothingRead DEF Idle
  <2> QED BY <2>2, <2>3, <1>5, ConsistentKeptByCall DEF Ack, GiveUp, At
<1> QED BY <1>1, <1>2, <1>3, <1>4, <1>5

\* The delivery that runs the order logic is the only one that can have a mail
\* pending, and the stored status it is about to leave is not settled.
LEMMA HandleKeeps ==
  ASSUME TypeOK, OneInside, Consistent, NEW d \in Delivery, Handle(d)
  PROVE  Consistent'
<1>1. hook[d].at = "fetched"
  BY DEF Handle, At
<1>2. /\ hook'[d].at = "handled" /\ hook'[d].fetched = hook[d].fetched
      /\ hook'[d].known = hook[d].known
      /\ \A e \in Delivery \ {d} : hook'[e] = hook[e]
  BY <1>1, Advanced DEF Handle, Inside
<1>3. \A e \in Delivery : Agrees(e)'
  BY <1>1, <1>2 DEF Consistent, Agrees, Handle
<1>4. emailed <= faults
  <2>1. stored # "paid"
    BY <1>1, MovesFacts DEF Consistent, Agrees
  <2>2. ~MailPending
    BY <1>1, Alone DEF MailPending, At, Inside
  <2> QED BY <2>1, <2>2 DEF Consistent, MailsAccounted
<1>5. emailed \in Nat /\ faults \in Nat /\ faults' = faults
  BY WebhookAssumption DEF TypeOK, Handle
<1>6. MailsAccounted'
  <2>1. CASE hook[d].fetched = "paid"
    <3>1. MailPending'
      BY <1>2, <2>1 DEF MailPending, At
    <3>2. emailed' <= 1 + faults'
      BY <1>4, <1>5, <2>1 DEF Handle
    <3> QED BY <3>1, <3>2 DEF MailsAccounted
  <2>2. CASE hook[d].fetched # "paid"
    <3>1. emailed' <= faults' /\ emailed' <= 1 + faults'
      BY <1>4, <1>5, <2>2 DEF Handle
    <3> QED BY <3>1 DEF MailsAccounted
  <2> QED BY <2>1, <2>2
<1> QED BY <1>3, <1>6 DEF Consistent, Handle

\* What is stored was fetched after what was stored before.
LEMMA PersistForward ==
  ASSUME TypeOK, Consistent, NEW d \in Delivery, Persist(d)
  PROVE  /\ stored' = hook[d].fetched /\ stored' \in Moves[stored]
         /\ Abstract!Reaches(stored', mollie)
         /\ stored # "paid" /\ announced = 0
<1>1. hook[d].at = "handled" /\ stored' = hook[d].fetched
  BY DEF Persist, At
<1>2. stored' \in Moves[stored] /\ Abstract!Reaches(stored', mollie)
  BY <1>1 DEF Consistent, Agrees
<1>3. stored # "paid"
  BY <1>2, MovesFacts
<1> QED BY <1>1, <1>2, <1>3 DEF Consistent, TypeOK

LEMMA PersistKeeps ==
  ASSUME TypeOK, OneInside, Consistent, NEW d \in Delivery, Persist(d)
  PROVE  Consistent'
<1>1. hook[d].at = "handled"
  BY DEF Persist, At
<1>2. /\ hook'[d].at = "persisted" /\ hook'[d].fetched = hook[d].fetched
      /\ \A e \in Delivery \ {d} : hook'[e] = hook[e]
  BY <1>1, Advanced DEF Persist, Inside
<1>3. /\ stored' = hook[d].fetched /\ Abstract!Reaches(stored', mollie)
      /\ stored # "paid" /\ announced = 0
  BY PersistForward
<1>4. announced' = announced /\ emailed' = emailed /\ faults' = faults /\ mollie' = mollie
  BY DEF Persist
<1>5. Abstract!Reaches(stored', mollie')
  BY <1>3, <1>4 DEF Abstract!Reaches
<1>6. ASSUME NEW e \in Delivery PROVE Agrees(e)'
  <2>1. CASE e = d
    BY <1>2, <1>3, <1>4, <2>1 DEF Agrees
  <2>2. CASE e # d
    <3>1. hook'[e].at \notin Inside
      BY <1>1, <1>2, <2>2, Alone DEF Inside
    <3> QED BY <3>1 DEF Agrees, Inside
  <2> QED BY <2>1, <2>2
<1>7. MailsAccounted'
  <2>1. MailPending => stored' = "paid"
    BY <1>1, <1>3, Alone DEF MailPending, At, Inside
  <2>2. emailed <= 1 + faults /\ (emailed <= faults \/ MailPending)
    BY <1>3 DEF Consistent, MailsAccounted
  <2> QED BY <1>4, <2>1, <2>2 DEF MailsAccounted
<1> QED BY <1>3, <1>4, <1>5, <1>6, <1>7 DEF Consistent

LEMMA PublishKeeps ==
  ASSUME TypeOK, OneInside, Consistent, NEW d \in Delivery, Publish(d)
  PROVE  Consistent'
<1>1. hook[d].at = "persisted"
  BY DEF Publish, At
<1>2. hook'[d].at = "acked" /\ \A e \in Delivery \ {d} : hook'[e] = hook[e]
  BY <1>1, Advanced DEF Publish, Inside
<1>3. UNCHANGED <<mollie, stored, emailed, faults>>
  BY DEF Publish
<1>4. Announces(d) => stored = "paid" /\ announced = 0
  BY <1>1 DEF Announces, Consistent, Agrees
<1>5. announced' <= 1 /\ (announced' > 0 => stored' = "paid")
  BY <1>3, <1>4 DEF Publish, Consistent
<1>6. ASSUME NEW e \in Delivery PROVE Agrees(e)'
  <2>1. hook'[e].at \notin Inside \/ hook'[e].at = "acked"
    BY <1>1, <1>2, Alone DEF Inside
  <2> QED BY <2>1 DEF Agrees, Inside
<1>7. MailsAccounted'
  <2>1. MailPending => MailPending'
    BY <1>1, <1>2 DEF MailPending, At
  <2> QED BY <1>3, <2>1 DEF Consistent, MailsAccounted
<1>8. Abstract!Reaches(stored', mollie')
  BY <1>3 DEF Consistent, Abstract!Reaches
<1> QED BY <1>5, <1>6, <1>7, <1>8 DEF Consistent

LEMMA ConsistentKept ==
  ASSUME TypeOK, OneInside, ~May("overrides"), Consistent, [Next]_vars
  PROVE  Consistent'
<1>1. ~OverrideStatus
  BY DEF OverrideStatus
<1> QED
  BY <1>1, ConsistentKeptOutside, ConsistentKeptByReads, HandleKeeps, PersistKeeps,
     PublishKeeps DEF Next, Step

---------------------------------------------------------------------------------
(* Dead payments *)

LEMMA DeathsKept ==
  ASSUME TypeOK, OneInside, environment \subseteq {"faults"}, Consistent, DeathHandled,
         [Next]_vars
  PROVE  DeathHandled'
<1>1. ~May("overrides") /\ ~May("history")
  BY DEF May
<1>2. ASSUME NEW d \in Delivery, At(d, "handled"), hook[d].fetched \in PaymentDead
      PROVE  stored # "paid"
  BY <1>2, MovesFacts DEF At, Consistent, Agrees
<1>3. ASSUME UNCHANGED <<stored, hook>>, status' = status \/ status' = "CANCELLED"
      PROVE  DeathHandled'
  BY <1>3 DEF DeathHandled, At
<1>4. ASSUME UNCHANGED <<stored, status>>, NEW d \in Delivery,
             \A e \in Delivery \ {d} : hook'[e] = hook[e], hook'[d].at # "handled"
      PROVE  DeathHandled'
  BY <1>4 DEF DeathHandled, At
<1>5. ASSUME MollieMoves \/ StaffCancels \/ Refund \/ RefundFails
               \/ CancelStaleTestOrder \/ UNCHANGED vars
      PROVE  DeathHandled'
  BY <1>3, <1>5 DEF MollieMoves, StaffCancels, Refund, RefundFails,
                     CancelStaleTestOrder, vars
<1>6. ASSUME StaffProgress PROVE DeathHandled'
  <2>1. stored = "paid" /\ UNCHANGED <<stored, hook>>
    BY <1>1, <1>6 DEF StaffProgress, Visible
  <2>2. "paid" \notin PaymentDead
    BY DEF PaymentDead, Abstract!PaymentDead
  <2> QED BY <1>2, <2>1, <2>2 DEF DeathHandled, At
<1>7. ASSUME NEW d \in Delivery, Deliver(d) PROVE DeathHandled'
  <2>1. PICK s \in unacked :
          hook' = [hook EXCEPT ![d] = [at |-> "waiting", about |-> s,
                                       known |-> "open", fetched |-> "open"]]
    BY <1>7 DEF Deliver
  <2>2. [at |-> "waiting", about |-> s, known |-> "open", fetched |-> "open"] \in Call
    BY <2>1 DEF TypeOK, Call, PaymentStatus, Abstract!PaymentStatus
  <2>3. hook'[d].at = "waiting" /\ \A e \in Delivery \ {d} : hook'[e] = hook[e]
    BY <2>1, <2>2, Replaced
  <2> QED BY <1>4, <1>7, <2>3 DEF Deliver
<1>8. ASSUME NEW d \in Delivery, Lock(d) \/ Publish(d) PROVE DeathHandled'
  <2>1. hook'[d].at # "handled" /\ \A e \in Delivery \ {d} : hook'[e] = hook[e]
    BY <1>8, Advanced DEF Lock, Publish, At, Inside
  <2> QED BY <1>4, <1>8, <2>1 DEF Lock, Publish
<1>9. ASSUME NEW d \in Delivery, LookUp(d) PROVE DeathHandled'
  BY <1>4, <1>9, AdvancedKnown DEF LookUp, At
<1>10. ASSUME NEW d \in Delivery, Fetch(d) PROVE DeathHandled'
  BY <1>4, <1>10, AdvancedFetched DEF Fetch, At, Inside
<1>11. ASSUME NEW d \in Delivery, Ack(d) \/ GiveUp(d) PROVE DeathHandled'
  <2>1. hook'[d] = Idle /\ \A e \in Delivery \ {d} : hook'[e] = hook[e]
    BY <1>11, Replaced DEF Ack, GiveUp
  <2> QED BY <1>4, <1>11, <2>1 DEF Ack, GiveUp, Idle
<1>12. ASSUME NEW d \in Delivery, Handle(d) PROVE DeathHandled'
  <2>1. /\ hook[d].at = "fetched" /\ stored' = stored
        /\ hook'[d].fetched = hook[d].fetched
        /\ \A e \in Delivery \ {d} : hook'[e] = hook[e]
    BY <1>12, Advanced DEF Handle, At, Inside
  <2> QED BY <1>12, <2>1 DEF Handle, AfterFailure, DeathHandled, At
<1>13. ASSUME NEW d \in Delivery, Persist(d) PROVE DeathHandled'
  <2>1. /\ hook[d].at = "handled" /\ hook'[d].at = "persisted"
        /\ \A e \in Delivery \ {d} : hook'[e] = hook[e]
        /\ status' = status /\ stored' = hook[d].fetched
    BY <1>13, Advanced DEF Persist, At, Inside
  <2> QED BY <2>1 DEF DeathHandled, At
<1>14. ~OverrideStatus
  BY <1>1 DEF OverrideStatus
<1> QED
  BY <1>5, <1>6, <1>7, <1>8, <1>9, <1>10, <1>11, <1>12, <1>13, <1>14 DEF Next, Step

---------------------------------------------------------------------------------
(* The inductive invariant *)

LEMMA InitIndInv == Init => IndInv
<1> SUFFICES ASSUME Init PROVE IndInv
  OBVIOUS
<1>1. \A d \in Delivery : hook[d] = Idle
  BY DEF Init
<1>2. TypeOK
  <2>1. hook \in [Delivery -> Call \cup {Idle}]
    BY DEF Init
  <2>2. mollie \in PaymentStatus /\ stored \in PaymentStatus /\ status \in Status
    BY DEF Init, PaymentStatus, Abstract!PaymentStatus, Status
  <2>3. refunded \in BOOLEAN /\ isTest \in BOOLEAN
    BY Zenon DEF Init
  <2>4. faults \in 0 .. MaxFaults /\ announced \in Nat /\ emailed \in Nat
    BY WebhookAssumption DEF Init
  <2> QED BY <2>1, <2>2, <2>3, <2>4 DEF Init, TypeOK
<1>3. OneInside
  BY <1>1, WebhookAssumption DEF Init, OneInside, Idle, Inside
<1>4. Consistent
  <2>1. emailed = 0 /\ faults = 0 /\ announced = 0 /\ stored = mollie
    BY DEF Init
  <2>2. MailsAccounted
    BY <2>1 DEF MailsAccounted
  <2>3. \A d \in Delivery : Agrees(d)
    BY <1>1 DEF Agrees, Idle
  <2> QED BY <2>1, <2>2, <2>3 DEF Consistent, Abstract!Reaches
<1>5. DeathHandled
  BY <1>1 DEF Init, DeathHandled, At, Idle, PaymentDead, Abstract!PaymentDead
<1> QED BY <1>2, <1>3, <1>4, <1>5 DEF IndInv

\* No step changes what the surroundings may do.
LEMMA SameEnvironment == [Next]_vars => environment' = environment
BY DEF Next, Step, vars, fixed, MollieMoves, Deliver, Lock, LookUp, Fetch, Handle,
       Persist, Publish, Ack, GiveUp, StaffProgress, StaffCancels, Refund, RefundFails,
       CancelStaleTestOrder, OverrideStatus

LEMMA Inductive == Spec => []IndInv
<1>1. ASSUME IndInv, [Next]_vars PROVE IndInv'
  <2>1. environment' = environment
    BY <1>1, SameEnvironment
  <2>2. TypeOK' /\ OneInside'
    BY <1>1, TypesKept, ExclusionKept DEF IndInv
  <2>3. ASSUME ~May("overrides")' PROVE Consistent'
    BY <1>1, <2>1, <2>3, ConsistentKept DEF IndInv, May
  <2>4. ASSUME environment' \subseteq {"faults"} PROVE DeathHandled'
    BY <1>1, <2>1, <2>4, DeathsKept DEF IndInv, May
  <2> QED BY <2>2, <2>3, <2>4 DEF IndInv
<1> QED BY InitIndInv, <1>1, PTL DEF Spec

---------------------------------------------------------------------------------
(* Theorems *)

\* Every variable keeps its type.
THEOREM TypeCorrect == Spec => []TypeOK
<1>1. IndInv => TypeOK
  BY DEF IndInv
<1> QED BY <1>1, Inductive, PTL

\* WithPaymentLock lets one delivery at a time work on the payment, whichever
\* deliveries fail, die or are repeated.
THEOREM MutualExclusion == Spec => []OneInside
<1>1. IndInv => OneInside
  BY DEF IndInv
<1> QED BY <1>1, Inductive, PTL

\* The handler publishes orderCreated at most once, however often and in however
\* many overlapping calls Mollie reports the payment.
THEOREM AnnouncedOnce == Spec => []AnnouncedAtMostOnce
<1>1. IndInv => AnnouncedAtMostOnce
  BY DEF IndInv, Consistent, AnnouncedAtMostOnce
<1> QED BY <1>1, Inductive, PTL

\* Every "order received" mail but one is followed by a failed delivery: the
\* order logic is repeated only where the commit marker was not reached.
THEOREM RepeatsOnlyAfterFault == Spec => []LogicRepeatsOnlyAfterFault
<1>1. IndInv => LogicRepeatsOnlyAfterFault
  BY DEF IndInv, Consistent, MailsAccounted, LogicRepeatsOnlyAfterFault
<1> QED BY <1>1, Inductive, PTL

\* HandlePaymentFailed has cancelled the order before the payment is stored as
\* dead, and nobody revives the order afterwards.
THEOREM DeadOrdersCancelled == Spec => []DeadIsCancelled
<1>1. IndInv => DeadIsCancelled
  BY DEF IndInv, DeathHandled, DeadIsCancelled
<1> QED BY <1>1, Inductive, PTL

---------------------------------------------------------------------------------
(* The abstract payment *)

\* Only PersistPaymentStatus and an admin's override write the stored status, and
\* only the publication counts as one.
LEMMA OthersLeaveLedger ==
  ASSUME Next, \A d \in Delivery : ~Persist(d) /\ ~Publish(d),
         ~MollieMoves, ~OverrideStatus
  PROVE  UNCHANGED <<mollie, stored, announced, environment>>
BY DEF Next, Step, fixed, Deliver, Lock, LookUp, Fetch, Handle, Ack, GiveUp,
       StaffProgress, StaffCancels, Refund, RefundFails, CancelStaleTestOrder

LEMMA AbstractInit == Init => Abstract!Init
BY DEF Init, Abstract!Init, May

\* With overrides the abstract payment only asks for Mollie's status to move as
\* Mollie's does, by itself.
LEMMA AbstractOverride ==
  ASSUME TypeOK, May("overrides"), [Next]_vars
  PROVE  [Abstract!Next]_(Abstract!paymentVars)
<1>1. May("overrides")' = May("overrides")
  BY SameEnvironment DEF May
<1>2. CASE MollieMoves
  <2>1. mollie' \in Abstract!Moves[mollie] /\ stored' = stored /\ announced' = announced
    BY <1>2 DEF MollieMoves
  <2> QED BY <1>1, <2>1, Zenon DEF Abstract!Next, Abstract!MollieMoves
<1>3. CASE ~MollieMoves
  <2>1. mollie' = mollie
    BY <1>3 DEF Next, Step, vars, Deliver, Lock, LookUp, Fetch, Handle, Persist,
                Publish, Ack, GiveUp, StaffProgress, StaffCancels, Refund,
                RefundFails, CancelStaleTestOrder, OverrideStatus
  <2>2. stored' \in Abstract!PaymentStatus
    BY TypesKept DEF TypeOK, PaymentStatus
  <2>3. (announced > 0)' \in BOOLEAN
    BY TypesKept DEF TypeOK
  <2> QED
    BY <1>1, <2>1, <2>2, <2>3, Zenon DEF Abstract!Next, Abstract!Override
<1> QED BY <1>2, <1>3

\* Without them, the handler's commit marker is the abstract Store, the first
\* publication the abstract Announce, and everything else stutters.
LEMMA AbstractStep ==
  ASSUME TypeOK, ~May("overrides"), Consistent, [Next]_vars
  PROVE  [Abstract!Next]_(Abstract!paymentVars)
<1>1. May("overrides")' = May("overrides")
  BY SameEnvironment DEF May
<1>2. ASSUME UNCHANGED <<mollie, stored, announced>>
      PROVE  UNCHANGED Abstract!paymentVars
  <2>1. mollie' = mollie /\ stored' = stored /\ (announced > 0)' = (announced > 0)
    BY <1>2
  <2> QED BY <1>1, <2>1, Zenon DEF Abstract!paymentVars
<1>3. ASSUME MollieMoves PROVE Abstract!Next
  <2>1. mollie' \in Abstract!Moves[mollie] /\ stored' = stored
    BY <1>3 DEF MollieMoves
  <2>2. (announced > 0)' = (announced > 0)
    BY <1>3 DEF MollieMoves
  <2> QED BY <1>1, <2>1, <2>2, Zenon DEF Abstract!Next, Abstract!MollieMoves
<1>4. ASSUME NEW d \in Delivery, Persist(d) PROVE Abstract!Next
  <2>1. stored' \in Abstract!Moves[stored] /\ Abstract!Reaches(stored', mollie)
    BY <1>4, PersistForward DEF Moves
  <2>2. mollie' = mollie /\ (announced > 0)' = (announced > 0)
    BY <1>4 DEF Persist
  <2> QED BY <1>1, <2>1, <2>2, Zenon DEF Abstract!Next, Abstract!Store
<1>5. ASSUME NEW d \in Delivery, Publish(d) PROVE [Abstract!Next]_(Abstract!paymentVars)
  <2>1. mollie' = mollie /\ stored' = stored
    BY <1>5 DEF Publish
  <2>2. CASE Announces(d)
    <3>1. stored = "paid" /\ announced = 0
      BY <1>5, <2>2 DEF Publish, At, Announces, Consistent, Agrees
    <3>2. ~(announced > 0) /\ (announced > 0)' = TRUE
      BY <1>5, <2>2, <3>1 DEF Publish
    <3> QED BY <1>1, <2>1, <3>1, <3>2, Zenon DEF Abstract!Next, Abstract!Announce
  <2>3. CASE ~Announces(d)
    BY <1>2, <1>5, <2>1, <2>3 DEF Publish
  <2> QED BY <2>2, <2>3
<1>6. ~OverrideStatus
  BY DEF OverrideStatus
<1>7. CASE UNCHANGED vars
  BY <1>2, <1>7 DEF vars
<1> QED BY <1>2, <1>3, <1>4, <1>5, <1>6, <1>7, OthersLeaveLedger

\* The stored status never goes back: only PersistPaymentStatus writes it, with a
\* status fetched under the lock after the one that is stored.
THEOREM StatusForward == Spec => StoredMovesForward
<1>1. ASSUME IndInv, [Next]_vars, ~May("overrides")
      PROVE  Abstract!Reaches(stored, stored')
  <2>1. CASE \E d \in Delivery : Persist(d)
    BY <1>1, <2>1, PersistForward DEF IndInv, Abstract!Reaches, Moves
  <2>2. CASE ~\E d \in Delivery : Persist(d)
    <3>1. stored' = stored
      BY <1>1, <2>2 DEF Next, Step, vars, MollieMoves, Deliver, Lock, LookUp, Fetch,
           Handle, Publish, Ack, GiveUp, StaffProgress, StaffCancels, Refund,
           RefundFails, CancelStaleTestOrder, OverrideStatus
    <3> QED BY <3>1 DEF Abstract!Reaches
  <2> QED BY <2>1, <2>2
<1>2. IndInv /\ [Next]_vars =>
        [~May("overrides") => Abstract!Reaches(stored, stored')]_vars
  BY <1>1
<1> QED BY <1>2, Inductive, PTL DEF Spec, StoredMovesForward

\* The webhook handler with its lock, its retries and its failures implements the
\* payment that staff see.
THEOREM ImplementsLedger == Spec => LedgerSpec
<1>1. IndInv /\ [Next]_vars => [Abstract!Next]_(Abstract!paymentVars)
  BY AbstractStep, AbstractOverride DEF IndInv
<1> QED BY <1>1, AbstractInit, Inductive, PTL DEF Spec, LedgerSpec, Abstract!Spec
================================================================================
