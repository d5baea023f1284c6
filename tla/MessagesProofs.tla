-------------------------- MODULE MessagesProofs ---------------------------
(***************************************************************************)
(* What is sent, for any number of publishers, subscribers, devices and    *)
(* mails: the broker closes no channel twice and keeps each publisher's    *)
(* order, the kitchen and the customer's devices learn what they must, and *)
(* the suppression list keeps up with the bounces and holds nothing else.  *)
(***************************************************************************)
EXTENDS PubSub, StaffAlerts, Notifications, Suppression, SequenceTheorems,
        FiniteSetTheorems, TLAPS

-----------------------------------------------------------------------------
(* The broker                                                              *)

Message == Publisher \X (Nat \ {0})
Box == {<<>>} \cup {<<m>> : m \in Message}

\* The number of the publisher's message in a box, 0 if there is none.
Num(box, p) == IF box # <<>> /\ box[1][1] = p THEN box[1][2] ELSE 0

BrokerShape ==
  /\ topic \in Seq(Subscriber) /\ offering \in [Publisher -> Seq(Subscriber)]
  /\ inbox \in [Subscriber -> Box] /\ carried \in [Subscriber -> Box]
  /\ outbox \in [Subscriber -> Box]
  /\ received \in [Subscriber -> [Publisher -> Nat]]
  /\ published \in Nat /\ current \in [Publisher -> Nat]
  /\ readers \subseteq Publisher /\ closed \subseteq Subscriber
  /\ forwarder \in [Subscriber -> ForwarderPhase]

\* A channel is listed once and open, and was subscribed.
Listed ==
  /\ \A i, j \in DOMAIN topic : topic[i] = topic[j] => i = j
  /\ \A i \in DOMAIN topic : topic[i] \notin closed /\ forwarder[topic[i]] # "none"
  /\ \A s \in closed : forwarder[s] # "none"

\* While a publisher reads it has a message, and nobody closes the channels it has still to offer to.
Offered ==
  \A p \in readers : current[p] # 0 /\ \A i \in DOMAIN offering[p] :
    /\ offering[p][i] \notin closed
    /\ \A j \in DOMAIN offering[p] : offering[p][i] = offering[p][j] => i = j

SafeInv == BrokerShape /\ Listed /\ Offered /\ ~panicked

\* At the start nobody subscribes or publishes.
LEMMA InitSafe == BrokerInit => SafeInv
<1> SUFFICES ASSUME BrokerInit PROVE SafeInv
  OBVIOUS
<1>1. inbox \in [Subscriber -> Box] /\ carried \in [Subscriber -> Box]
      /\ outbox \in [Subscriber -> Box]
  BY DEF BrokerInit, Box
<1>2. topic \in Seq(Subscriber) /\ offering \in [Publisher -> Seq(Subscriber)]
  BY DEF BrokerInit
<1>3. received \in [Subscriber -> [Publisher -> Nat]] /\ published \in Nat
      /\ current \in [Publisher -> Nat]
  BY DEF BrokerInit
<1>4. readers \subseteq Publisher /\ closed \subseteq Subscriber
      /\ forwarder \in [Subscriber -> ForwarderPhase]
  BY DEF BrokerInit, ForwarderPhase
<1>5. BrokerShape
  BY <1>1, <1>2, <1>3, <1>4 DEF BrokerShape
<1> QED BY <1>5 DEF BrokerInit, SafeInv, Listed, Offered

\* Taking one channel out of the list leaves the others where they were or moves
\* them down by one.
LEMMA RemoveAtFacts ==
  ASSUME NEW S, NEW q \in Seq(S), NEW i \in DOMAIN q
  PROVE  /\ RemoveAt(q, i) \in Seq(S)
         /\ \A j \in DOMAIN RemoveAt(q, i) :
              RemoveAt(q, i)[j] = q[IF j < i THEN j ELSE j + 1]
              /\ (IF j < i THEN j ELSE j + 1) \in DOMAIN q \ {i}
<1> DEFINE a == SubSeq(q, 1, i - 1)
           b == SubSeq(q, i + 1, Len(q))
           at(j) == IF j < i THEN j ELSE j + 1
<1>1. i \in 1 .. Len(q) /\ Len(q) \in Nat /\ DOMAIN q = 1 .. Len(q)
  OBVIOUS
<1>2. a \in Seq(S) /\ Len(a) = i - 1 /\ \A j \in 1 .. i - 1 : a[j] = q[j]
  BY <1>1, SubSeqProperties
<1>3. b \in Seq(S) /\ Len(b) = Len(q) - i /\ \A j \in 1 .. Len(q) - i : b[j] = q[i + j]
  BY <1>1, SubSeqProperties
<1>4. RemoveAt(q, i) = a \o b
  BY DEF RemoveAt
<1> HIDE DEF a, b
<1>5. /\ a \o b \in Seq(S) /\ Len(a \o b) = Len(a) + Len(b)
      /\ \A j \in 1 .. Len(a) + Len(b) : (a \o b)[j] = IF j <= Len(a) THEN a[j] ELSE b[j - Len(a)]
  BY <1>2, <1>3, ConcatProperties
<1>6. Len(a) + Len(b) = Len(q) - 1 /\ DOMAIN (a \o b) = 1 .. Len(q) - 1
  <2>1. Len(a) + Len(b) = Len(q) - 1
    BY <1>1, <1>2, <1>3
  <2>2. DOMAIN (a \o b) = 1 .. Len(a \o b)
    BY <1>5
  <2> QED BY <1>5, <2>1, <2>2
<1>7. ASSUME NEW j \in 1 .. Len(q) - 1
      PROVE  (a \o b)[j] = q[at(j)] /\ at(j) \in 1 .. Len(q) /\ at(j) # i
  <2>1. (a \o b)[j] = IF j <= i - 1 THEN a[j] ELSE b[j - (i - 1)]
    BY <1>2, <1>5, <1>6
  <2>2. CASE j < i
    BY <1>1, <1>2, <2>1, <2>2
  <2>3. CASE ~(j < i)
    <3>1. (a \o b)[j] = b[j - (i - 1)] /\ j - (i - 1) \in 1 .. Len(q) - i
      BY <1>1, <2>1, <2>3
    <3>2. b[j - (i - 1)] = q[i + (j - (i - 1))] /\ i + (j - (i - 1)) = j + 1
      BY <1>1, <1>3, <3>1
    <3> QED BY <1>1, <2>3, <3>1, <3>2
  <2> QED BY <2>2, <2>3
<1> HIDE DEF at
<1>8. RemoveAt(q, i) \in Seq(S) /\ DOMAIN RemoveAt(q, i) = 1 .. Len(q) - 1
  BY <1>4, <1>5, <1>6
<1>9. \A j \in DOMAIN RemoveAt(q, i) : RemoveAt(q, i)[j] = q[at(j)] /\ at(j) \in DOMAIN q \ {i}
  BY <1>1, <1>4, <1>7, <1>8
<1> QED BY <1>8, <1>9 DEF at

\* The steps that leave the list, the closed channels and the publishers alone.
LEMMA QuietKeepsSafe ==
  ASSUME SafeInv, BrokerShape', UNCHANGED <<topic, closed, panicked, offering, current, readers>>,
         \A s \in Subscriber : forwarder[s] # "none" => forwarder'[s] # "none"
  PROVE  SafeInv'
<1>1. \A i \in DOMAIN topic : topic[i] \in Subscriber
  BY DEF SafeInv, BrokerShape
<1>2. closed \subseteq Subscriber
  BY DEF SafeInv, BrokerShape
<1>3. Listed'
  BY <1>1, <1>2 DEF SafeInv, Listed
<1>4. Offered'
  BY DEF SafeInv, Offered
<1> QED BY <1>3, <1>4 DEF SafeInv

\* What is in a box, and what emptying it leaves.
LEMMA BoxFacts ==
  ASSUME NEW box \in Box, box # <<>>
  PROVE  /\ box[1] \in Message /\ box[1][1] \in Publisher /\ box[1][2] \in Nat \ {0}
         /\ Head(box) = box[1] /\ Tail(box) = <<>> /\ <<Head(box)>> = box
<1>1. PICK m \in Message : box = <<m>>
  BY DEF Box
<1> QED BY <1>1 DEF Message

\* A new channel is open and not listed yet.
LEMMA SubscribeKeepsSafe ==
  ASSUME SafeInv, NEW s \in Subscriber, Subscribe(s)
  PROVE  SafeInv'
<1> USE DEF SafeInv
<1>1. BrokerShape'
  BY DEF BrokerShape, Subscribe, ForwarderGoes, ForwarderPhase, Client, Publishing
<1>2. Listed'
  <2>1. /\ topic' = Append(topic, s) /\ closed' = closed /\ forwarder[s] = "none"
        /\ forwarder' = [forwarder EXCEPT ![s] = "listening"]
    BY DEF Subscribe, ForwarderGoes
  <2>2. /\ DOMAIN topic' = 1 .. Len(topic) + 1 /\ DOMAIN topic = 1 .. Len(topic)
        /\ Len(topic) \in Nat /\ topic'[Len(topic) + 1] = s
        /\ \A i \in 1 .. Len(topic) : topic'[i] = topic[i] /\ topic[i] \in Subscriber
    BY <2>1 DEF BrokerShape
  <2>3. \A i \in 1 .. Len(topic) : topic[i] # s /\ forwarder'[topic[i]] # "none"
    BY <2>1, <2>2 DEF Listed, BrokerShape
  <2>4. s \notin closed
    BY <2>1 DEF Listed
  <2>5. forwarder'[s] # "none"
    BY <2>1 DEF BrokerShape
  <2>6. \A i, j \in DOMAIN topic' : topic'[i] = topic'[j] => i = j
    BY <2>2, <2>3 DEF Listed
  <2>7. \A i \in DOMAIN topic' : topic'[i] \notin closed' /\ forwarder'[topic'[i]] # "none"
    BY <2>1, <2>2, <2>3, <2>4, <2>5 DEF Listed
  <2>8. \A t \in closed' : forwarder'[t] # "none"
    BY <2>1 DEF Listed, BrokerShape
  <2> QED BY <2>6, <2>7, <2>8 DEF Listed
<1>3. Offered'
  BY DEF Subscribe, Publishing, Offered
<1>4. ~panicked'
  BY DEF Subscribe
<1> QED BY <1>1, <1>2, <1>3, <1>4

\* A publisher starts from the list as it is, all of it open.
LEMMA BeginPublishKeepsSafe ==
  ASSUME SafeInv, NEW p \in Publisher, BeginPublish(p)
  PROVE  SafeInv'
<1> USE DEF SafeInv
<1>1. BrokerShape'
  BY DEF BrokerShape, BeginPublish, Broker, Client
<1>2. Listed' /\ ~panicked'
  BY DEF BeginPublish, Broker, Listed
<1>3. Offered'
  BY DEF BeginPublish, Broker, Listed, Offered, BrokerShape
<1> QED BY <1>1, <1>2, <1>3

\* The tail of a sequence is the sequence moved down by one.
LEMMA TailFacts ==
  ASSUME NEW S, NEW q \in Seq(S), q # <<>>
  PROVE  /\ Head(q) = q[1] /\ 1 \in DOMAIN q /\ Tail(q) \in Seq(S)
         /\ \A i \in DOMAIN Tail(q) : Tail(q)[i] = q[i + 1] /\ i + 1 \in DOMAIN q \ {1}
OBVIOUS

\* The channel a publisher sends to is open, for it is still to be offered.
LEMMA OfferKeepsSafe ==
  ASSUME SafeInv, NEW p \in Publisher, Offer(p)
  PROVE  SafeInv'
<1> USE DEF SafeInv
<1> DEFINE s == Head(offering[p])
<1>1. /\ p \in readers /\ offering[p] \in Seq(Subscriber) /\ offering[p] # <<>>
  BY DEF Offer, BrokerShape
<1>2. /\ s = offering[p][1] /\ s \in Subscriber /\ s \notin closed
  BY <1>1, TailFacts DEF Offered
<1>3. Tail(offering[p]) \in Seq(Subscriber)
  BY <1>1, TailFacts
<1>4. /\ UNCHANGED <<topic, closed, published, current, readers, forwarder, carried, outbox, received>>
      /\ offering' = [offering EXCEPT ![p] = Tail(offering[p])]
      /\ panicked' = (panicked \/ s \in closed)
      /\ inbox' = IF inbox[s] = <<>> /\ s \notin closed
                  THEN [inbox EXCEPT ![s] = Append(inbox[s], <<p, current[p]>>)] ELSE inbox
  BY DEF Offer, Accepts, Client
<1>5. inbox' \in [Subscriber -> Box]
  <2>1. <<p, current[p]>> \in Message
    BY <1>1 DEF BrokerShape, Offered, Message
  <2>2. Append(<<>>, <<p, current[p]>>) \in Box
    BY <2>1 DEF Box
  <2> QED BY <1>2, <1>4, <2>2 DEF BrokerShape
<1>6. BrokerShape'
  BY <1>3, <1>4, <1>5 DEF BrokerShape
<1>7. Listed'
  BY <1>4 DEF Listed
<1>8. Offered'
  <2>1. \A i \in DOMAIN offering'[p] : offering'[p][i] = offering[p][i + 1] /\ i + 1 \in DOMAIN offering[p] /\ i \in Nat
    BY <1>1, <1>4, TailFacts DEF BrokerShape
  <2>2. \A q \in readers \ {p} : offering'[q] = offering[q]
    BY <1>4 DEF BrokerShape
  <2> QED BY <1>4, <2>1, <2>2 DEF Offered
<1>9. ~panicked'
  BY <1>2, <1>4
<1> QED BY <1>6, <1>7, <1>8, <1>9

\* A publisher that ends stops reading.
LEMMA EndPublishKeepsSafe ==
  ASSUME SafeInv, NEW p \in Publisher, EndPublish(p)
  PROVE  SafeInv'
<1> USE DEF SafeInv
<1>1. BrokerShape'
  BY DEF BrokerShape, EndPublish, Broker, Client
<1>2. Listed' /\ ~panicked'
  BY DEF EndPublish, Broker, Listed
<1>3. Offered'
  BY DEF EndPublish, Broker, Offered, BrokerShape
<1> QED BY <1>1, <1>2, <1>3

\* The channel a subscriber closes is open, for it is listed, and nobody is publishing.
LEMMA UnsubscribeKeepsSafe ==
  ASSUME SafeInv, NEW s \in Subscriber, Unsubscribe(s)
  PROVE  SafeInv'
<1> USE DEF SafeInv
<1>1. /\ readers = {} /\ readers' = {} /\ forwarder' = [forwarder EXCEPT ![s] = "ended"]
      /\ UNCHANGED <<inbox, published, current, offering, carried, outbox, received>>
  BY DEF Unsubscribe, WriteLock, Publishing, Client, ForwarderGoes
<1>2. Offered'
  BY <1>1 DEF Offered
<1>3. \A t \in Subscriber : forwarder[t] # "none" => forwarder'[t] # "none"
  BY <1>1 DEF BrokerShape
<1>4. CASE UNCHANGED <<topic, closed, panicked>>
  <2>1. BrokerShape'
    BY <1>1, <1>4 DEF BrokerShape, ForwarderPhase
  <2> QED BY <1>1, <1>3, <1>4, <2>1, QuietKeepsSafe
<1>5. CASE ~UNCHANGED <<topic, closed, panicked>>
  <2>1. PICK i \in DOMAIN topic :
          /\ topic[i] = s /\ topic' = RemoveAt(topic, i) /\ closed' = closed \cup {s}
          /\ panicked' = (panicked \/ s \in closed)
    BY <1>5 DEF Unsubscribe
  <2>2. /\ topic' \in Seq(Subscriber)
        /\ \A j \in DOMAIN topic' :
             topic'[j] = topic[IF j < i THEN j ELSE j + 1]
             /\ (IF j < i THEN j ELSE j + 1) \in DOMAIN topic \ {i}
    BY <2>1, RemoveAtFacts DEF BrokerShape
  <2>3. BrokerShape'
    BY <1>1, <2>1, <2>2 DEF BrokerShape, ForwarderPhase
  <2>4. s \notin closed /\ ~panicked'
    BY <2>1 DEF Listed
  <2>5. \A j \in DOMAIN topic' : topic'[j] # s /\ topic'[j] \notin closed
                                /\ topic'[j] \in Subscriber /\ forwarder[topic'[j]] # "none"
    BY <2>1, <2>2 DEF Listed, BrokerShape
  <2>6. \A j \in DOMAIN topic' : topic'[j] \notin closed' /\ forwarder'[topic'[j]] # "none"
    BY <1>3, <2>1, <2>5
  <2>7. \A j, k \in DOMAIN topic' : topic'[j] = topic'[k] => j = k
    <3> SUFFICES ASSUME NEW j \in DOMAIN topic', NEW k \in DOMAIN topic', topic'[j] = topic'[k]
                 PROVE  j = k
      OBVIOUS
    <3>1. (IF j < i THEN j ELSE j + 1) = (IF k < i THEN k ELSE k + 1)
      BY <2>2 DEF Listed
    <3>2. i \in Nat /\ j \in Nat /\ k \in Nat
      BY <2>2 DEF BrokerShape
    <3> QED BY <3>1, <3>2
  <2>8. \A t \in closed' : forwarder'[t] # "none"
    BY <1>1, <2>1 DEF Listed, BrokerShape
  <2> QED BY <1>2, <2>3, <2>4, <2>6, <2>7, <2>8 DEF Listed
<1> QED BY <1>4, <1>5

\* A shutdown closes what is listed, and lists nothing afterwards.
LEMMA ShutdownKeepsSafe == SafeInv /\ Shutdown => SafeInv'
<1> SUFFICES ASSUME SafeInv, Shutdown PROVE SafeInv'
  OBVIOUS
<1> USE DEF SafeInv
<1>1. /\ readers = {} /\ topic' = <<>> /\ closed' = closed \cup ToSet(topic)
      /\ panicked' = (panicked \/ ToSet(topic) \cap closed # {})
      /\ UNCHANGED <<inbox, published, current, offering, readers, forwarder, carried, outbox, received>>
  BY DEF Shutdown, WriteLock, Publishing, Client, AfterShutdown
<1>2. \A s \in ToSet(topic) : s \in Subscriber /\ s \notin closed /\ forwarder[s] # "none"
  BY DEF ToSet, Listed, BrokerShape
<1>3. BrokerShape'
  BY <1>1, <1>2 DEF BrokerShape
<1>4. Listed'
  BY <1>1, <1>2 DEF Listed
<1>5. Offered'
  BY <1>1 DEF Offered
<1>6. ~panicked'
  BY <1>1, <1>2
<1> QED BY <1>3, <1>4, <1>5, <1>6

\* The goroutine and its client.
LEMMA ForwarderKeepsSafe ==
  ASSUME SafeInv, NEW s \in Subscriber,
         Receive(s) \/ Forward(s) \/ Abandon(s) \/ ClientReads(s) \/ ClientGone(s)
  PROVE  SafeInv'
<1> USE DEF SafeInv
<1>1. UNCHANGED <<topic, closed, panicked, offering, current, readers, published>>
  BY DEF Receive, Forward, Abandon, ClientReads, ClientGone, Broker, Publishing
<1>2. \A t \in Subscriber : forwarder[t] # "none" => forwarder'[t] # "none"
  BY DEF Receive, Forward, Abandon, ClientReads, ClientGone, ForwarderGoes, BrokerShape
<1>3. forwarder' \in [Subscriber -> ForwarderPhase]
  BY DEF Receive, Forward, Abandon, ClientReads, ClientGone, ForwarderGoes, BrokerShape, ForwarderPhase
<1>4. <<>> \in Box
  BY DEF Box
<1>5. /\ inbox' \in [Subscriber -> Box] /\ carried' \in [Subscriber -> Box]
      /\ outbox' \in [Subscriber -> Box] /\ received' \in [Subscriber -> [Publisher -> Nat]]
  <2>1. CASE Receive(s)
    <3>1. CASE inbox[s] # <<>>
      <4>1. inbox[s] \in Box
        BY DEF BrokerShape
      <4>2. <<Head(inbox[s])>> = inbox[s] /\ Tail(inbox[s]) = <<>>
        BY <3>1, <4>1, BoxFacts
      <4>3. <<Head(inbox[s])>> \in Box /\ Tail(inbox[s]) \in Box
        BY <1>4, <4>1, <4>2
      <4> QED BY <2>1, <4>3 DEF Receive, Client, BrokerShape
    <3> QED BY <2>1, <3>1 DEF Receive, Client, BrokerShape
  <2>2. CASE Forward(s)
    BY <1>4, <2>2 DEF Forward, Broker, BrokerShape
  <2>3. CASE Abandon(s) \/ ClientGone(s)
    BY <2>3 DEF Abandon, ClientGone, Broker, Client, BrokerShape
  <2>4. CASE ClientReads(s)
    <3>1. Head(outbox[s])[1] \in Publisher /\ Head(outbox[s])[2] \in Nat
      BY <2>4, BoxFacts DEF ClientReads, BrokerShape
    <3> QED BY <1>4, <2>4, <3>1 DEF ClientReads, Broker, BrokerShape
  <2> QED BY <2>1, <2>2, <2>3, <2>4
<1>6. BrokerShape'
  BY <1>1, <1>3, <1>5 DEF BrokerShape
<1> QED BY <1>1, <1>2, <1>6, QuietKeepsSafe

\* Every step keeps the invariant.
LEMMA NextKeepsSafe == SafeInv /\ [BrokerNext]_brokerVars => SafeInv'
<1> SUFFICES ASSUME SafeInv, [BrokerNext]_brokerVars PROVE SafeInv'
  OBVIOUS
<1>1. CASE UNCHANGED brokerVars
  BY <1>1 DEF brokerVars, SafeInv, BrokerShape, Listed, Offered
<1>2. ASSUME NEW p \in Publisher, BeginPublish(p) \/ Publish(p) PROVE SafeInv'
  BY <1>2, BeginPublishKeepsSafe, OfferKeepsSafe, EndPublishKeepsSafe DEF Publish
<1>3. ASSUME NEW s \in Subscriber,
             Subscribe(s) \/ ForwarderStep(s) \/ ClientReads(s) \/ ClientGone(s)
      PROVE  SafeInv'
  BY <1>3, SubscribeKeepsSafe, UnsubscribeKeepsSafe, ForwarderKeepsSafe DEF ForwarderStep
<1> QED BY <1>1, <1>2, <1>3, ShutdownKeepsSafe DEF BrokerNext

\* No interleaving of publishers, subscribers that leave and a shutdown sends to a
\* closed channel or closes one twice (pubsub.go, Publish: "cannot close a
\* subscriber channel mid-send").
THEOREM NoPanic == BrokerSpec => []NeverPanics
<1>1. SafeInv => NeverPanics
  BY DEF SafeInv, NeverPanics
<1> QED BY <1>1, InitSafe, NextKeepsSafe, PTL DEF BrokerSpec
-------------------------------------------------------------------------------
\* Order.  Message numbers only grow, and on its way to a client a message passes
\* four places: inbox, carried, outbox, received.

\* Everything the publisher has sent to the subscriber is older than n.
Passed(s, p, n) ==
  /\ received[s][p] < n /\ Num(outbox[s], p) < n
  /\ Num(carried[s], p) < n /\ Num(inbox[s], p) < n

\* The further a message has come, the older it is.
InLine(s, p) ==
  /\ Num(outbox[s], p) # 0 => received[s][p] < Num(outbox[s], p)
  /\ Num(carried[s], p) # 0 => /\ received[s][p] < Num(carried[s], p)
                               /\ Num(outbox[s], p) < Num(carried[s], p)
  /\ Num(inbox[s], p) # 0 => /\ received[s][p] < Num(inbox[s], p)
                             /\ Num(outbox[s], p) < Num(inbox[s], p)
                             /\ Num(carried[s], p) < Num(inbox[s], p)

OrderInv ==
  /\ \A s \in Subscriber, p \in Publisher : InLine(s, p) /\ Passed(s, p, published + 1)
  /\ \A p \in Publisher : current[p] <= published
  /\ \A p \in readers : \A i \in DOMAIN offering[p] : Passed(offering[p][i], p, current[p])

\* A message's number is a number.
LEMMA NumType == \A box \in Box, p \in Publisher : Num(box, p) \in Nat
<1> SUFFICES ASSUME NEW box \in Box, NEW p \in Publisher PROVE Num(box, p) \in Nat
  OBVIOUS
<1>1. CASE box = <<>>
  BY <1>1 DEF Num
<1>2. CASE box # <<>>
  BY <1>2, BoxFacts DEF Num
<1> QED BY <1>1, <1>2

\* An empty box holds message 0.
LEMMA NumEmpty == \A p \in Publisher : Num(<<>>, p) = 0
BY DEF Num

\* All numbers that are compared below are natural.
LEMMA Numbers ==
  ASSUME BrokerShape, NEW s \in Subscriber, NEW p \in Publisher
  PROVE  /\ received[s][p] \in Nat /\ Num(outbox[s], p) \in Nat
         /\ Num(carried[s], p) \in Nat /\ Num(inbox[s], p) \in Nat
         /\ published \in Nat /\ current[p] \in Nat
BY NumType DEF BrokerShape

\* At the start nothing is on its way.
LEMMA InitOrder == BrokerInit => OrderInv
<1> SUFFICES ASSUME BrokerInit PROVE OrderInv
  OBVIOUS
<1>1. ASSUME NEW s \in Subscriber, NEW p \in Publisher
      PROVE  /\ received[s][p] = 0 /\ Num(outbox[s], p) = 0
             /\ Num(carried[s], p) = 0 /\ Num(inbox[s], p) = 0
  BY NumEmpty DEF BrokerInit
<1>2. published = 0 /\ readers = {} /\ \A p \in Publisher : current[p] = 0
  BY DEF BrokerInit
<1> QED BY <1>1, <1>2 DEF OrderInv, InLine, Passed

\* What a step of the goroutine or the client does to the messages of one publisher:
\* nothing, or the oldest but one place moves on.
Along(s, p) ==
  \/ /\ Num(inbox'[s], p) = Num(inbox[s], p) /\ Num(carried'[s], p) = Num(carried[s], p)
     /\ Num(outbox'[s], p) = Num(outbox[s], p) /\ received'[s][p] = received[s][p]
  \/ /\ Num(inbox'[s], p) = 0 /\ Num(carried'[s], p) = Num(inbox[s], p)
     /\ Num(outbox'[s], p) = Num(outbox[s], p) /\ received'[s][p] = received[s][p]
  \/ /\ Num(inbox'[s], p) = Num(inbox[s], p) /\ Num(carried'[s], p) = 0
     /\ Num(outbox'[s], p) = Num(carried[s], p) /\ received'[s][p] = received[s][p]
  \/ /\ Num(inbox'[s], p) = Num(inbox[s], p) /\ Num(carried'[s], p) = Num(carried[s], p)
     /\ Num(outbox[s], p) # 0 /\ Num(outbox'[s], p) = 0
     /\ received'[s][p] = Num(outbox[s], p)

\* Moving messages along, dropping them included, keeps the order.
LEMMA AlongKeepsOrder ==
  ASSUME SafeInv, OrderInv, UNCHANGED <<published, current, offering, readers>>,
         \A s \in Subscriber, p \in Publisher : Along(s, p)
  PROVE  OrderInv'
<1>1. ASSUME NEW s \in Subscriber, NEW p \in Publisher PROVE InLine(s, p)'
  <2>1. InLine(s, p) /\ Along(s, p)
    BY DEF OrderInv
  <2> QED BY <2>1, Numbers DEF InLine, Along, SafeInv
<1>2. ASSUME NEW s \in Subscriber, NEW p \in Publisher, NEW n \in Nat, Passed(s, p, n)
      PROVE  /\ received'[s][p] < n /\ Num(outbox'[s], p) < n
             /\ Num(carried'[s], p) < n /\ Num(inbox'[s], p) < n
  <2>1. Along(s, p)
    OBVIOUS
  <2> QED BY <1>2, <2>1, Numbers DEF Passed, Along, SafeInv
<1>3. ASSUME NEW s \in Subscriber, NEW p \in Publisher PROVE Passed(s, p, published + 1)'
  BY <1>2 DEF OrderInv, Passed, SafeInv, BrokerShape
<1>4. ASSUME NEW p \in readers', NEW i \in DOMAIN offering'[p]
      PROVE  Passed(offering[p][i], p, current[p])'
  <2>1. /\ p \in readers /\ i \in DOMAIN offering[p] /\ p \in Publisher
        /\ offering[p][i] \in Subscriber /\ current[p] \in Nat
    BY <1>4 DEF SafeInv, BrokerShape
  <2>2. Passed(offering[p][i], p, current[p])
    BY <2>1 DEF OrderInv
  <2> QED BY <1>2, <2>1, <2>2 DEF Passed
<1> QED BY <1>1, <1>3, <1>4 DEF OrderInv

\* A goroutine that moves a message along, and a client that reads one.
LEMMA ForwarderKeepsOrder ==
  ASSUME SafeInv, OrderInv, NEW s \in Subscriber,
         Receive(s) \/ Forward(s) \/ Abandon(s) \/ ClientReads(s) \/ ClientGone(s)
  PROVE  OrderInv'
<1>1. UNCHANGED <<published, current, offering, readers>>
  BY DEF Receive, Forward, Abandon, ClientReads, ClientGone, Broker, Publishing
<1> SUFFICES ASSUME NEW t \in Subscriber, NEW p \in Publisher PROVE Along(t, p)
  BY <1>1, AlongKeepsOrder
<1>2. CASE Receive(s)
  <2>1. CASE t = s /\ inbox[s] # <<>>
    <3>1. inbox[s] \in Box
      BY DEF SafeInv, BrokerShape
    <3>2. /\ inbox'[s] = <<>> /\ carried'[s] = inbox[s]
          /\ outbox' = outbox /\ received' = received
      BY <1>2, <2>1, <3>1, BoxFacts DEF Receive, Client, SafeInv, BrokerShape
    <3> QED BY <2>1, <3>2, NumEmpty DEF Along
  <2>2. CASE ~(t = s /\ inbox[s] # <<>>)
    <3>1. /\ inbox'[t] = inbox[t] /\ carried'[t] = carried[t]
          /\ outbox' = outbox /\ received' = received
      BY <1>2, <2>2 DEF Receive, Client, SafeInv, BrokerShape
    <3> QED BY <3>1 DEF Along
  <2> QED BY <2>1, <2>2
<1>3. CASE Forward(s)
  <2>1. CASE t = s
    <3>1. /\ inbox' = inbox /\ carried'[s] = <<>> /\ outbox'[s] = carried[s] /\ received' = received
      BY <1>3 DEF Forward, Broker, SafeInv, BrokerShape
    <3> QED BY <2>1, <3>1, NumEmpty DEF Along
  <2>2. CASE t # s
    <3>1. /\ inbox' = inbox /\ carried'[t] = carried[t] /\ outbox'[t] = outbox[t] /\ received' = received
      BY <1>3, <2>2 DEF Forward, Broker, SafeInv, BrokerShape
    <3> QED BY <3>1 DEF Along
  <2> QED BY <2>1, <2>2
<1>4. CASE Abandon(s) \/ ClientGone(s)
  BY <1>4 DEF Abandon, ClientGone, Broker, Client, Along
<1>5. CASE ClientReads(s)
  <2>1. /\ outbox[s] \in Box /\ outbox[s] # <<>> /\ Head(outbox[s]) = outbox[s][1]
        /\ outbox[s][1][1] \in Publisher /\ outbox[s][1][2] \in Nat \ {0}
    BY <1>5, BoxFacts DEF ClientReads, SafeInv, BrokerShape
  <2>2. /\ inbox' = inbox /\ carried' = carried /\ outbox' = [outbox EXCEPT ![s] = <<>>]
        /\ received' = [received EXCEPT ![s][outbox[s][1][1]] = outbox[s][1][2]]
    BY <1>5, <2>1 DEF ClientReads, Broker
  <2>3. CASE t = s /\ p = outbox[s][1][1]
    <3>1. Num(outbox[s], p) = outbox[s][1][2] /\ outbox'[s] = <<>>
          /\ received'[s][p] = outbox[s][1][2]
      BY <2>1, <2>2, <2>3 DEF Num, SafeInv, BrokerShape
    <3> QED BY <2>1, <2>2, <2>3, <3>1, NumEmpty DEF Along
  <2>4. CASE t = s /\ p # outbox[s][1][1]
    <3>1. Num(outbox[s], p) = 0 /\ outbox'[s] = <<>> /\ received'[s][p] = received[s][p]
      BY <2>1, <2>2, <2>4 DEF Num, SafeInv, BrokerShape
    <3> QED BY <2>2, <2>4, <3>1, NumEmpty DEF Along
  <2>5. CASE t # s
    BY <2>2, <2>5 DEF Along, SafeInv, BrokerShape
  <2> QED BY <2>3, <2>4, <2>5
<1> QED BY <1>2, <1>3, <1>4, <1>5

\* What is offered is younger than all the publisher sent to that channel before.
LEMMA OfferKeepsOrder ==
  ASSUME SafeInv, OrderInv, NEW p \in Publisher, Offer(p)
  PROVE  OrderInv'
<1> DEFINE s == Head(offering[p])
<1>1. /\ p \in readers /\ offering[p] \in Seq(Subscriber) /\ offering[p] # <<>>
      /\ readers \subseteq Publisher
  BY DEF Offer, SafeInv, BrokerShape
<1>2. s = offering[p][1] /\ s \in Subscriber /\ 1 \in DOMAIN offering[p]
  BY <1>1, TailFacts
<1>3. /\ UNCHANGED <<published, current, readers, carried, outbox, received>>
      /\ offering' = [offering EXCEPT ![p] = Tail(offering[p])]
      /\ inbox' = IF inbox[s] = <<>> /\ s \notin closed
                  THEN [inbox EXCEPT ![s] = Append(inbox[s], <<p, current[p]>>)] ELSE inbox
  BY DEF Offer, Accepts, Client
<1>4. Passed(s, p, current[p]) /\ current[p] \in Nat \ {0} /\ current[p] <= published
  BY <1>1, <1>2 DEF OrderInv, SafeInv, BrokerShape, Offered
<1> HIDE DEF s
<1>5. ASSUME NEW t \in Subscriber, NEW q \in Publisher
      PROVE  \/ Num(inbox'[t], q) = Num(inbox[t], q)
             \/ (t = s /\ Num(inbox'[t], q) = IF q = p THEN current[p] ELSE 0)
  <2>1. CASE t = s /\ inbox[s] = <<>> /\ s \notin closed
    <3>1. inbox'[s] = Append(<<>>, <<p, current[p]>>)
      BY <1>2, <1>3, <2>1 DEF SafeInv, BrokerShape
    <3>2. inbox'[s] = <<<<p, current[p]>>>>
      BY <3>1
    <3>3. inbox'[s] # <<>> /\ inbox'[s][1][1] = p /\ inbox'[s][1][2] = current[p]
      BY <3>2
    <3> QED BY <2>1, <3>3 DEF Num
  <2>2. CASE ~(t = s /\ inbox[s] = <<>> /\ s \notin closed)
    <3>1. inbox'[t] = inbox[t]
      BY <1>3, <2>2 DEF SafeInv, BrokerShape
    <3> QED BY <3>1
  <2> QED BY <2>1, <2>2
<1>6. ASSUME NEW t \in Subscriber, NEW q \in Publisher PROVE InLine(t, q)'
  <2>1. InLine(t, q)
    BY DEF OrderInv
  <2> QED BY <1>3, <1>4, <1>5, <2>1, Numbers DEF InLine, Passed, SafeInv
<1>7. ASSUME NEW t \in Subscriber, NEW q \in Publisher PROVE Passed(t, q, published + 1)'
  <2>1. Passed(t, q, published + 1)
    BY DEF OrderInv
  <2>2. /\ received[t][q] \in Nat /\ Num(outbox[t], q) \in Nat /\ Num(carried[t], q) \in Nat
        /\ Num(inbox[t], q) \in Nat /\ published \in Nat
    BY Numbers DEF SafeInv
  <2>3. Num(inbox'[t], q) < published + 1
    BY <1>4, <1>5, <2>1, <2>2 DEF Passed
  <2> QED BY <1>3, <2>1, <2>3 DEF Passed
<1>8. ASSUME NEW q \in readers', NEW i \in DOMAIN offering'[q]
      PROVE  Passed(offering[q][i], q, current[q])'
  <2>1. q \in readers /\ q \in Publisher /\ current[q] \in Nat \ {0}
    BY <1>1, <1>3 DEF SafeInv, BrokerShape, Offered
  <2>2. CASE q = p
    <3>1. /\ offering'[p][i] = offering[p][i + 1] /\ i + 1 \in DOMAIN offering[p]
          /\ i \in Nat /\ i + 1 # 1
      BY <1>1, <1>3, <2>2, TailFacts DEF SafeInv, BrokerShape
    <3>2. offering[p][i + 1] # s /\ offering[p][i + 1] \in Subscriber
      BY <1>1, <1>2, <3>1 DEF SafeInv, Offered
    <3>3. Passed(offering[p][i + 1], p, current[p])
      BY <1>1, <3>1 DEF OrderInv
    <3>4. inbox'[offering[p][i + 1]] = inbox[offering[p][i + 1]]
      BY <1>3, <3>2 DEF SafeInv, BrokerShape
    <3> QED BY <1>3, <2>2, <3>1, <3>3, <3>4 DEF Passed
  <2>3. CASE q # p
    <3>1. offering'[q] = offering[q] /\ i \in DOMAIN offering[q] /\ offering[q][i] \in Subscriber
      BY <1>3, <2>1, <2>3 DEF SafeInv, BrokerShape
    <3>2. Passed(offering[q][i], q, current[q])
      BY <2>1, <3>1 DEF OrderInv
    <3>3. Num(inbox'[offering[q][i]], q) < current[q]
      BY <1>5, <2>1, <2>3, <3>1, <3>2 DEF Passed
    <3> QED BY <1>3, <3>1, <3>2, <3>3 DEF Passed
  <2> QED BY <2>2, <2>3
<1> QED BY <1>3, <1>6, <1>7, <1>8 DEF OrderInv

\* A new message is younger than everything sent.
LEMMA BeginPublishKeepsOrder ==
  ASSUME SafeInv, OrderInv, NEW p \in Publisher, BeginPublish(p)
  PROVE  OrderInv'
<1>1. /\ published' = published + 1 /\ current' = [current EXCEPT ![p] = published + 1]
      /\ offering' = [offering EXCEPT ![p] = topic] /\ readers' = readers \cup {p}
      /\ UNCHANGED <<topic, inbox, carried, outbox, received>>
  BY DEF BeginPublish, Broker, Client
<1>2. published \in Nat /\ current \in [Publisher -> Nat] /\ readers \subseteq Publisher
      /\ offering \in [Publisher -> Seq(Subscriber)] /\ topic \in Seq(Subscriber)
  BY DEF SafeInv, BrokerShape
<1>3. ASSUME NEW t \in Subscriber, NEW q \in Publisher
      PROVE  InLine(t, q)' /\ Passed(t, q, published + 1)'
  <2>1. InLine(t, q) /\ Passed(t, q, published + 1)
    BY DEF OrderInv
  <2>2. /\ received[t][q] \in Nat /\ Num(outbox[t], q) \in Nat /\ Num(carried[t], q) \in Nat
        /\ Num(inbox[t], q) \in Nat /\ published \in Nat
    BY Numbers DEF SafeInv
  <2>3. InLine(t, q)'
    BY <1>1, <2>1 DEF InLine
  <2>4. Passed(t, q, published + 2)
    BY <2>1, <2>2 DEF Passed
  <2>5. published' + 1 = published + 2
    BY <1>1, <1>2
  <2> QED BY <1>1, <2>3, <2>4, <2>5 DEF Passed
<1>4. \A q \in Publisher : current'[q] <= published'
  BY <1>1, <1>2 DEF OrderInv
<1>5. ASSUME NEW q \in readers', NEW i \in DOMAIN offering'[q]
      PROVE  Passed(offering[q][i], q, current[q])'
  <2>1. CASE q = p
    <3>1. offering'[p] = topic /\ topic[i] \in Subscriber /\ current'[p] = published + 1
      BY <1>1, <1>2, <2>1
    <3> QED BY <1>1, <2>1, <3>1 DEF OrderInv, Passed
  <2>2. CASE q # p
    <3>1. offering'[q] = offering[q] /\ current'[q] = current[q] /\ q \in readers
      BY <1>1, <1>2, <2>2
    <3> QED BY <1>1, <3>1 DEF OrderInv, Passed
  <2> QED BY <2>1, <2>2
<1> QED BY <1>3, <1>4, <1>5 DEF OrderInv

\* Nothing moves when a publisher ends.
LEMMA EndPublishKeepsOrder ==
  ASSUME SafeInv, OrderInv, NEW p \in Publisher, EndPublish(p)
  PROVE  OrderInv'
<1>1. /\ readers' = readers \ {p} /\ current' = [current EXCEPT ![p] = 0]
      /\ UNCHANGED <<published, offering, inbox, carried, outbox, received>>
  BY DEF EndPublish, Broker, Client
<1>2. published \in Nat /\ current \in [Publisher -> Nat] /\ readers \subseteq Publisher
  BY DEF SafeInv, BrokerShape
<1> QED BY <1>1, <1>2 DEF OrderInv, InLine, Passed

\* Every step keeps the order.
LEMMA NextKeepsOrder == SafeInv /\ OrderInv /\ [BrokerNext]_brokerVars => OrderInv'
<1> SUFFICES ASSUME SafeInv, OrderInv, [BrokerNext]_brokerVars PROVE OrderInv'
  OBVIOUS
<1>1. ASSUME UNCHANGED <<published, current, offering, readers, inbox, carried, outbox, received>>
      PROVE  OrderInv'
  BY <1>1 DEF OrderInv, InLine, Passed
<1>2. CASE UNCHANGED brokerVars
  BY <1>1, <1>2 DEF brokerVars
<1>3. ASSUME NEW p \in Publisher, BeginPublish(p) \/ Publish(p) PROVE OrderInv'
  BY <1>3, BeginPublishKeepsOrder, OfferKeepsOrder, EndPublishKeepsOrder DEF Publish
<1>4. ASSUME NEW s \in Subscriber,
             Subscribe(s) \/ ForwarderStep(s) \/ ClientReads(s) \/ ClientGone(s)
      PROVE  OrderInv'
  <2>1. CASE Subscribe(s) \/ Unsubscribe(s)
    BY <1>1, <2>1 DEF Subscribe, Unsubscribe, Publishing, Client
  <2> QED BY <1>4, <2>1, ForwarderKeepsOrder DEF ForwarderStep
<1>5. CASE Shutdown
  BY <1>1, <1>5 DEF Shutdown, Publishing, Client
<1> QED BY <1>2, <1>3, <1>4, <1>5 DEF BrokerNext

\* A client that takes a message out of its channel has not had it, nor a younger
\* one of the same publisher.
LEMMA TakesInOrder ==
  ASSUME SafeInv, OrderInv, NEW s \in Subscriber, outbox[s] # <<>>
  PROVE  LET m == Head(outbox[s]) IN m[2] > received[s][m[1]]
<1> DEFINE m == outbox[s][1]
<1>1. Head(outbox[s]) = m /\ m[1] \in Publisher /\ m[2] \in Nat \ {0}
  BY BoxFacts DEF SafeInv, BrokerShape
<1>2. Num(outbox[s], m[1]) = m[2]
  BY DEF Num
<1>3. InLine(s, m[1]) /\ received[s][m[1]] \in Nat
  BY <1>1 DEF OrderInv, SafeInv, BrokerShape
<1> QED BY <1>1, <1>2, <1>3 DEF InLine

\* Some messages may be dropped on the way to a client, but what it gets from one
\* publisher is in the order of publication, each message at most once.
THEOREM InOrder == BrokerSpec => InOrderPerPublisher
<1>1. SafeInv /\ OrderInv /\ [BrokerNext]_brokerVars =>
        [\A s \in Subscriber : outbox[s] # <<>> /\ outbox'[s] = <<>>
           => LET m == Head(outbox[s]) IN m[2] > received[s][m[1]]]_brokerVars
  BY TakesInOrder
<1> QED BY <1>1, InitSafe, InitOrder, NextKeepsSafe, NextKeepsOrder, PTL
        DEF BrokerSpec, InOrderPerPublisher

-----------------------------------------------------------------------------
(* The staff's devices                                                     *)

PushPhase == {"idle", "readAdmins", "admins", "readHandhelds", "handhelds"}

\* A call carries a token from the app, and nothing else is stored.
StaffTypes ==
  /\ handhelds \in [Handhelds -> [revoked : BOOLEAN, fcm : {NoToken} \cup FcmTokens]]
  /\ calls \in [Handhelds -> [at : {"idle", "verify", "write"}, kind : {"login", "fcm"},
                              good : BOOLEAN, fcm : {NoToken} \cup FcmTokens]]
  /\ \A h \in Handhelds : calls[h].at # "idle" => calls[h].fcm \in FcmTokens
  /\ orderPush.at \in PushPhase
  /\ orderPush.at \notin {"admins", "handhelds"} => orderPush = [at |-> orderPush.at, todo |-> {}]
  /\ ~placed => orderPush = NoPush /\ expecting = {}

\* Whoever expects the push still has it coming, or got it.
KitchenServed ==
  /\ expecting \subseteq reachable \cap ActiveTokens
  /\ expecting # {} => "fcm" \in pushClients
  /\ orderPush.at = "handhelds" => expecting \subseteq told \cup orderPush.todo
  /\ placed /\ orderPush.at = "idle" => expecting \subseteq told

KitchenInv == StaffTypes /\ KitchenServed

LEMMA InitKitchen == StaffInit => KitchenInv
<1> SUFFICES ASSUME StaffInit PROVE KitchenInv
  OBVIOUS
<1>1. handhelds \in [Handhelds -> [revoked : BOOLEAN, fcm : {NoToken} \cup FcmTokens]]
  <2>1. (CHOOSE t \in FcmTokens : TRUE) \in FcmTokens
    BY StaffAssumption
  <2> QED BY <2>1 DEF StaffInit
<1>2. \A h \in Handhelds : calls[h] = NoCall
  BY DEF StaffInit
<1>3. calls = [h \in Handhelds |-> NoCall] /\ NoCall \in [at : {"idle", "verify", "write"}, kind : {"login", "fcm"},
                              good : BOOLEAN, fcm : {NoToken} \cup FcmTokens]
  BY DEF NoCall, StaffInit
<1> QED BY <1>1, <1>2, <1>3 DEF StaffInit, KitchenInv, StaffTypes, KitchenServed, NoPush, PushPhase, NoCall

\* A device's call changes at most its own row, to a token; whoever was active stays so.
LEMMA DeviceKeeps ==
  ASSUME KitchenInv, NEW h \in Handhelds,
         DeviceCalls(h) \/ VerifyDeviceRequest(h) \/ DeviceLogin(h) \/ UpdateFCMToken(h)
           \/ AccessTokenExpires(h) \/ Revoke(h)
  PROVE  KitchenInv'
<1> DEFINE Row == [revoked : BOOLEAN, fcm : {NoToken} \cup FcmTokens]
           Call == [at : {"idle", "verify", "write"}, kind : {"login", "fcm"},
                    good : BOOLEAN, fcm : {NoToken} \cup FcmTokens]
<1>0. StaffTypes /\ KitchenServed /\ NoToken \notin FcmTokens /\ handhelds[h] \in Row /\ calls[h] \in Call
  BY StaffAssumption DEF KitchenInv, StaffTypes, NoToken
<1>1. UNCHANGED <<reachable, pushClients, placed, orderPush, told>>
  BY DEF DeviceCalls, VerifyDeviceRequest, DeviceLogin, UpdateFCMToken, AccessTokenExpires, Revoke,
         pushState
<1>2. /\ calls' \in [Handhelds -> Call]
      /\ \A k \in Handhelds : calls'[k].at # "idle" => calls'[k].fcm \in FcmTokens
  <2>1. CASE DeviceCalls(h)
    <3>1. PICK kind \in {"login", "fcm"}, good \in BOOLEAN, t \in FcmTokens :
            calls' = [calls EXCEPT ![h] = [at |-> "verify", kind |-> kind, good |-> good, fcm |-> t]]
      BY <2>1 DEF DeviceCalls
    <3> QED BY <1>0, <3>1 DEF StaffTypes
  <2>2. CASE UNCHANGED calls
    BY <1>0, <2>2 DEF StaffTypes
  <2>3. CASE VerifyDeviceRequest(h) \/ DeviceLogin(h) \/ UpdateFCMToken(h)
    <3>1. PICK c \in {NoCall, [calls[h] EXCEPT !.at = "write"]} : calls' = [calls EXCEPT ![h] = c]
      BY <2>3 DEF VerifyDeviceRequest, DeviceLogin, UpdateFCMToken
    <3>2. calls[h].at # "idle"
      BY <2>3 DEF VerifyDeviceRequest, DeviceLogin, UpdateFCMToken
    <3>3. c \in Call /\ (c.at # "idle" => c.fcm \in FcmTokens)
      <4>1. CASE c = NoCall
        BY <4>1 DEF NoCall
      <4>2. CASE c = [calls[h] EXCEPT !.at = "write"]
        <5>1. calls[h].fcm \in FcmTokens
          BY <1>0, <3>2 DEF StaffTypes
        <5> QED BY <1>0, <4>2, <5>1
      <4> QED BY <4>1, <4>2
    <3> QED BY <1>0, <3>1, <3>3 DEF StaffTypes
  <2>4. DeviceCalls(h) \/ UNCHANGED calls \/ VerifyDeviceRequest(h) \/ DeviceLogin(h) \/ UpdateFCMToken(h)
    BY DEF AccessTokenExpires, Revoke
  <2> HIDE DEF Call
  <2> QED BY <2>1, <2>2, <2>3, <2>4
<1>3. handhelds' \in [Handhelds -> Row]
  <2>1. CASE UpdateFCMToken(h)
    <3>1. StoredToken(h) \in {NoToken} \cup FcmTokens
      BY <1>0 DEF StoredToken
    <3> QED BY <1>0, <2>1, <3>1 DEF StaffTypes, UpdateFCMToken
  <2>2. CASE Revoke(h)
    BY <1>0, <2>2 DEF StaffTypes, Revoke
  <2>3. CASE UNCHANGED handhelds
    BY <1>0, <2>3 DEF StaffTypes
  <2> QED BY <2>1, <2>2, <2>3 DEF DeviceCalls, VerifyDeviceRequest, DeviceLogin, AccessTokenExpires
<1>4. expecting' \subseteq expecting /\ expecting' \subseteq ActiveTokens'
  <2>1. CASE Revoke(h)
    BY <1>0, <2>1 DEF StaffTypes, KitchenServed, ActiveTokens, Revoke
  <2>2. CASE UpdateFCMToken(h)
    <3>1. expecting' = expecting /\ StoredToken(h) \in {NoToken} \cup FcmTokens
          /\ (~handhelds[h].revoked => StoredToken(h) \in FcmTokens)
          /\ handhelds' = [handhelds EXCEPT ![h].fcm = StoredToken(h)]
      BY <1>0, <2>2 DEF StaffTypes, UpdateFCMToken, StoredToken
    <3> QED BY <1>0, <3>1 DEF StaffTypes, KitchenServed, ActiveTokens
  <2>3. CASE UNCHANGED <<handhelds, expecting>>
    BY <1>0, <2>3 DEF KitchenServed, ActiveTokens
  <2> QED BY <2>1, <2>2, <2>3 DEF DeviceCalls, VerifyDeviceRequest, DeviceLogin, AccessTokenExpires
<1> HIDE DEF Row, Call
<1>5. StaffTypes'
  BY <1>0, <1>1, <1>2, <1>3, <1>4 DEF StaffTypes, Row, Call
<1>6. KitchenServed'
  BY <1>0, <1>1, <1>4 DEF KitchenServed
<1> QED BY <1>5, <1>6 DEF KitchenInv

\* The push on its way from target to target.
LEMMA PushKeeps ==
  ASSUME KitchenInv,
         SendNewOrderPush \/ ReadAdmins \/ ReadHandhelds \/ (\E d \in AdminPhones : AlertAdmin(d))
           \/ (\E h \in Handhelds : AlertHandheld(h))
  PROVE  KitchenInv'
<1>0. StaffTypes /\ KitchenServed
  BY DEF KitchenInv
<1>1. UNCHANGED <<handhelds, calls, reachable, pushClients>> /\ (placed => placed') /\ placed'
      /\ ActiveTokens' = ActiveTokens
  <2>1. UNCHANGED deviceState /\ (placed' \/ (placed' = placed /\ orderPush.at # "idle"))
    BY DEF SendNewOrderPush, ReadAdmins, ReadHandhelds, AlertAdmin, AlertHandheld
  <2>2. orderPush.at # "idle" => placed
    BY <1>0 DEF StaffTypes, NoPush
  <2> QED BY <2>1, <2>2 DEF deviceState, ActiveTokens
<1>2. CASE SendNewOrderPush
  BY <1>0, <1>1, <1>2 DEF KitchenInv, StaffTypes, KitchenServed, SendNewOrderPush, NoPush, PushPhase
<1>3. CASE ReadAdmins \/ \E d \in AdminPhones : AlertAdmin(d)
  <2>1. expecting' = expecting /\ told \subseteq told'
        /\ \E todo : orderPush' = AfterAdmins(todo)
    BY <1>3 DEF ReadAdmins, AlertAdmin
  <2>2. /\ orderPush'.at \in {"admins", "readHandhelds"}
        /\ orderPush'.at = "readHandhelds" => orderPush' = [at |-> "readHandhelds", todo |-> {}]
    BY <2>1 DEF AfterAdmins
  <2> QED BY <1>0, <1>1, <2>1, <2>2 DEF KitchenInv, StaffTypes, KitchenServed, PushPhase
<1>4. CASE ReadHandhelds
  <2>1. CASE orderPush' = NoPush /\ expecting' = {}
    BY <1>0, <1>1, <2>1 DEF KitchenInv, StaffTypes, KitchenServed, PushPhase, NoPush
  <2>2. CASE orderPush' = AfterHandhelds(IF "fcm" \in pushClients THEN ActiveTokens ELSE {}) /\ expecting' = expecting
    <3> DEFINE todo == IF "fcm" \in pushClients THEN ActiveTokens ELSE {}
    <3>1. expecting \subseteq todo
      BY <1>0 DEF KitchenServed
    <3>2. orderPush' = IF todo = {} THEN NoPush ELSE [at |-> "handhelds", todo |-> todo]
      BY <2>2 DEF AfterHandhelds
    <3>3. told' = told /\ orderPush'.at \in {"idle", "handhelds"} /\ (orderPush'.at = "idle" => orderPush' = NoPush)
          /\ expecting' \subseteq (IF orderPush'.at = "idle" THEN {} ELSE orderPush'.todo)
      BY <1>4, <2>2, <3>1, <3>2 DEF ReadHandhelds, NoPush
    <3> HIDE DEF todo
    <3>4. StaffTypes'
      BY <1>0, <1>1, <2>2, <3>3 DEF StaffTypes, PushPhase, NoPush
    <3>5. KitchenServed'
      BY <1>0, <1>1, <2>2, <3>3 DEF KitchenServed
    <3> QED BY <3>4, <3>5 DEF KitchenInv
  <2> QED BY <1>4, <2>1, <2>2 DEF ReadHandhelds
<1>5. CASE \E h \in Handhelds : AlertHandheld(h)
  <2>1. PICK h \in Handhelds : AlertHandheld(h)
    BY <1>5
  <2>2. orderPush.at = "handhelds" /\ expecting \subseteq told \cup orderPush.todo
    BY <1>0, <2>1 DEF AlertHandheld, KitchenServed
  <2>3. expecting' \subseteq told' \cup (orderPush.todo \ {h}) /\ expecting' \subseteq expecting
    BY <1>0, <2>1, <2>2 DEF AlertHandheld, KitchenServed
  <2>4. orderPush' = IF orderPush.todo \ {h} = {} THEN NoPush ELSE [at |-> "handhelds", todo |-> orderPush.todo \ {h}]
    BY <2>1 DEF AlertHandheld, AfterHandhelds
  <2> QED BY <1>0, <1>1, <2>3, <2>4 DEF KitchenInv, StaffTypes, KitchenServed, PushPhase, NoPush
<1> QED BY <1>2, <1>3, <1>4, <1>5

\* A handheld that was active and reachable when the order came in is told of it,
\* whatever becomes of the admins' phones and of the calls of other handhelds; only
\* its own push, its revocation or the reading of the handhelds can fail it.
THEOREM KitchenIsTold == StaffSpec => []KitchenTold
<1>1. KitchenInv => KitchenTold
  BY DEF KitchenInv, KitchenServed, KitchenTold, NoPush
<1>2. KitchenInv /\ [StaffNext]_staffVars => KitchenInv'
  <2> SUFFICES ASSUME KitchenInv, [StaffNext]_staffVars PROVE KitchenInv'
    OBVIOUS
  <2>1. CASE UNCHANGED staffVars
    BY <2>1 DEF staffVars, KitchenInv, StaffTypes, KitchenServed, ActiveTokens
  <2> QED BY <2>1, DeviceKeeps, PushKeeps DEF StaffNext
<1> QED BY <1>1, <1>2, InitKitchen, PTL DEF StaffSpec

\* A revocation is final: a call that was verified before it does not change the
\* device's row.
THEOREM RevocationHolds == StaffSpec => RevokedStaysAsItWas
<1>1. KitchenInv /\ [StaffNext]_staffVars => \A h \in Handhelds : handhelds[h].revoked => handhelds'[h] = handhelds[h]
  <2> SUFFICES ASSUME KitchenInv, [StaffNext]_staffVars, NEW h \in Handhelds, handhelds[h].revoked
               PROVE  handhelds'[h] = handhelds[h]
    OBVIOUS
  <2>0. handhelds \in [Handhelds -> [revoked : BOOLEAN, fcm : {NoToken} \cup FcmTokens]]
    BY DEF KitchenInv, StaffTypes
  <2>1. CASE UNCHANGED handhelds
    BY <2>1
  <2>2. ASSUME NEW k \in Handhelds, UpdateFCMToken(k) PROVE handhelds'[h] = handhelds[h]
    <3>1. handhelds' = [handhelds EXCEPT ![k] = [handhelds[k] EXCEPT !.fcm = StoredToken(k)]]
      BY <2>2 DEF UpdateFCMToken
    <3>2. CASE k = h
      <4>1. StoredToken(k) = handhelds[h].fcm
        BY <3>2 DEF StoredToken
      <4> QED BY <2>0, <3>1, <3>2, <4>1
    <3> QED BY <2>0, <3>1, <3>2
  <2>3. ASSUME NEW k \in Handhelds, Revoke(k) PROVE handhelds'[h] = handhelds[h]
    BY <2>0, <2>3 DEF Revoke
  <2>4. UNCHANGED handhelds \/ \E k \in Handhelds : UpdateFCMToken(k) \/ Revoke(k)
    <3>1. CASE StaffNext
      <4>1. CASE SendNewOrderPush \/ ReadAdmins \/ ReadHandhelds \/ \E d \in AdminPhones : AlertAdmin(d)
        BY <4>1 DEF SendNewOrderPush, ReadAdmins, ReadHandhelds, AlertAdmin, deviceState
      <4>2. ASSUME NEW k \in Handhelds, DeviceCalls(k) \/ VerifyDeviceRequest(k) \/ DeviceLogin(k)
                                          \/ AccessTokenExpires(k) \/ AlertHandheld(k)
            PROVE  UNCHANGED handhelds
        BY <4>2 DEF DeviceCalls, VerifyDeviceRequest, DeviceLogin, AccessTokenExpires, AlertHandheld, deviceState
      <4> QED BY <3>1, <4>1, <4>2 DEF StaffNext
    <3> QED BY <3>1 DEF staffVars
  <2> QED BY <2>1, <2>2, <2>3, <2>4
<1>2. KitchenInv /\ [StaffNext]_staffVars => KitchenInv'
  <2> SUFFICES ASSUME KitchenInv, [StaffNext]_staffVars PROVE KitchenInv'
    OBVIOUS
  <2>1. CASE UNCHANGED staffVars
    BY <2>1 DEF staffVars, KitchenInv, StaffTypes, KitchenServed, ActiveTokens
  <2> QED BY <2>1, DeviceKeeps, PushKeeps DEF StaffNext
<1> QED BY <1>1, <1>2, InitKitchen, PTL DEF StaffSpec, RevokedStaysAsItWas

-----------------------------------------------------------------------------
(* The customer's devices.  While one thing is done after the other, a     *)
(* surface that is not current has its push still coming.                  *)

AnyStatus == Statuses \cup {"PENDING", "OUT_FOR_DELIVERY"}
AnyLanguage == Languages \cup {CHOOSE l \in Languages : TRUE}
IosKinds == {"activity", "langActivity"}
AndroidKinds == {"data", "langData"}
Job == [kind : IosKinds \cup AndroidKinds \cup {"alert"}, nr : Nat, status : AnyStatus,
        lang : AnyLanguage, at : {"read", "wait", "send", "clear"}, todo : SUBSET Phones]

NotesTyped ==
  /\ "fcm" \in clients /\ build \in [IPhones -> {"prod", "dev"}]
  /\ orderState \in [status : AnyStatus, lang : AnyLanguage, late : BOOLEAN]
  /\ update \in [Updaters -> [at : {"idle", "write", "notify"}, old : AnyStatus \cup {NoOrder}]]
  /\ goroutines \subseteq Job
  /\ \A g \in goroutines : g.kind \in IosKinds => "apns" \in clients
  /\ \A g \in goroutines : g.at = "clear" => g.kind = "activity" /\ g.status \in Terminal
  /\ activity \in [IPhones -> {"none", "fresh", "expired"}]
  /\ surface = [d \in Phones |-> surface[d]]
  /\ overlapped \in BOOLEAN /\ events \in Nat /\ pushFaults \in Nat

(* A live surface that is not current has its push coming: it is to be     *)
(* handed over, or a goroutine has yet to send it.                         *)
Live(d) == d \in Phones \cap installed /\ surface[d] \notin {NoSurface, SurfaceOver}
Coming(g, d) ==
  /\ g.kind \in IF d \in IPhones THEN IosKinds ELSE AndroidKinds
  /\ g.at \in {"read", "wait"} \/ (g.at = "send" /\ d \in g.todo)
Outdated(u, d) ==
  /\ update[u].at = "notify" /\ update[u].old = surface[d].status
  /\ surface[d].lang = orderState.lang \/ surface[d].status = "PENDING"
Follows(d) ==
  \/ Current(surface[d])
  \/ \E u \in Updaters : Outdated(u, d)
  \/ \E g \in goroutines : Coming(g, d)
Expects(d) == IF d \in IPhones THEN "apns" \in clients ELSE d \in registered

\* While one thing is done after the other.
InTurn ==
  /\ goroutines # {} => \A u \in Updaters : update[u] = NoUpdate
  /\ \A u, v \in Updaters : update[u] # NoUpdate /\ update[v] # NoUpdate => u = v
  /\ \A u \in Updaters : update[u].at = "write" => update[u].old = orderState.status
  /\ \A g \in goroutines : g.status = orderState.status /\ g.lang = orderState.lang
  /\ \A g \in goroutines : \A d \in IPhones :
       g.kind = "activity" /\ g.status \in Terminal /\ Live(d) =>
         /\ g.at = "send" => d \in g.todo
         /\ g.at # "clear"
  /\ \A d \in Phones : Live(d) /\ Expects(d) => Follows(d) /\ (d \in IPhones => activity[d] = "fresh")

Orderly == ~overlapped /\ pushFaults = 0
NotesInv == NotesTyped /\ LiveTokenKept /\ (Orderly => InTurn)

-----------------------------------------------------------------------------
LEMMA NotesStart == NoteInit => NotesInv
<1> SUFFICES ASSUME NoteInit PROVE NotesInv
  OBVIOUS
<1>1. orderState \in [status : AnyStatus, lang : AnyLanguage, late : BOOLEAN]
  BY DEF NoteInit, AnyStatus, AnyLanguage
<1>2. update \in [Updaters -> [at : {"idle", "write", "notify"}, old : AnyStatus \cup {NoOrder}]]
      /\ \A u \in Updaters : update[u] = NoUpdate
  BY DEF NoteInit, NoUpdate
<1>3. NotesTyped
  BY <1>1, <1>2 DEF NoteInit, NotesTyped
<1>4. LiveTokenKept
  BY DEF NoteInit, LiveTokenKept
<1>5. ASSUME NEW d \in Phones, Live(d)
      PROVE  Current(surface[d]) /\ (d \in IPhones => activity[d] = "fresh")
  BY <1>5 DEF NoteInit, Live, Current
<1>6. InTurn
  BY <1>2, <1>5 DEF NoteInit, NoUpdate, InTurn, Follows
<1> QED BY <1>3, <1>4, <1>6 DEF NotesInv

\* What begins in turn begins when all is quiet, and then every surface is current.
LEMMA QuietIsCurrent ==
  ASSUME NotesInv, EventBegins, pushFaults' = pushFaults, Orderly'
  PROVE  /\ Orderly /\ InTurn /\ goroutines = {} /\ \A u \in Updaters : update[u] = NoUpdate
         /\ \A d \in Phones : Live(d) /\ Expects(d) =>
              Current(surface[d]) /\ (d \in IPhones => activity[d] = "fresh")
<1>1. Orderly /\ Quiet
  BY DEF EventBegins, Orderly
<1>2. InTurn /\ goroutines = {} /\ \A u \in Updaters : update[u] = NoUpdate
  BY <1>1 DEF NotesInv, Quiet
<1> QED BY <1>1, <1>2 DEF InTurn, Follows, Outdated, NoUpdate

\* The steps in turn of which nothing else begins or is left to do.
LEMMA CurrentIsInTurn ==
  ASSUME goroutines' = {}, \A u \in Updaters : update'[u] = NoUpdate,
         (\A d \in Phones : Live(d) /\ Expects(d) =>
            Current(surface[d]) /\ (d \in IPhones => activity[d] = "fresh"))'
  PROVE  InTurn'
  BY DEF InTurn, NoUpdate, Follows

LEMMA ReadOldOrderKeeps ==
  ASSUME NotesInv, NEW u \in Updaters, ReadOldOrder(u)
  PROVE  NotesInv'
<1>1. /\ update' = [update EXCEPT ![u] = [at |-> "write", old |-> orderState.status]] /\ EventBegins
      /\ UNCHANGED <<clients, build, orderState, goroutines, registered, wanted, installed, activity,
                     surface, pushFaults>>
  BY DEF ReadOldOrder, tokenState
<1>2. NotesTyped' /\ LiveTokenKept'
  BY <1>1 DEF NotesInv, NotesTyped, LiveTokenKept, EventBegins
<1>3. ASSUME Orderly' PROVE InTurn'
  <2>1. /\ goroutines = {} /\ \A v \in Updaters : update[v] = NoUpdate
        /\ \A d \in Phones : Live(d) /\ Expects(d) =>
              Current(surface[d]) /\ (d \in IPhones => activity[d] = "fresh")
    BY <1>1, <1>3, QuietIsCurrent
  <2>2. \A v \in Updaters : update'[v] = IF v = u THEN [at |-> "write", old |-> orderState.status] ELSE NoUpdate
    BY <1>1, <2>1 DEF NotesInv, NotesTyped
  <2>3. \A d \in Phones : (Live(d) /\ Expects(d))' =>
              Current(surface[d])' /\ (d \in IPhones => activity'[d] = "fresh")
    BY <1>1, <2>1 DEF Live, Expects, Current
  <2> QED BY <1>1, <2>1, <2>2, <2>3 DEF InTurn, Follows, NoUpdate
<1> QED BY <1>2, <1>3 DEF NotesInv

LEMMA WriteOrderKeeps ==
  ASSUME NotesInv, NEW u \in Updaters, WriteOrder(u)
  PROVE  NotesInv'
<1>0. NotesTyped /\ LiveTokenKept
  BY DEF NotesInv
<1>1. PICK s \in Statuses : orderState' = [orderState EXCEPT !.status = s]
  BY DEF WriteOrder
<1>2. /\ update[u].at = "write" /\ update' = [update EXCEPT ![u].at = "notify"]
      /\ UNCHANGED <<clients, build, goroutines, registered, wanted, installed, activity, surface, overlapped,
                     events, pushFaults>>
  BY DEF WriteOrder, tokenState
<1>3. /\ \A v \in Updaters : v # u => update'[v] = update[v]
      /\ update'[u].at = "notify" /\ update'[u].old = update[u].old
      /\ update' \in [Updaters -> [at : {"idle", "write", "notify"}, old : AnyStatus \cup {NoOrder}]]
  BY <1>0, <1>2 DEF NotesTyped
<1>4. /\ orderState' \in [status : AnyStatus, lang : AnyLanguage, late : BOOLEAN]
      /\ orderState'.lang = orderState.lang
  BY <1>0, <1>1 DEF NotesTyped, AnyStatus
<1>5. NotesTyped'
  BY <1>0, <1>2, <1>3, <1>4 DEF NotesTyped
<1>6. LiveTokenKept'
  BY <1>0, <1>2 DEF LiveTokenKept
<1>7. ASSUME Orderly' PROVE InTurn'
  <2>1. InTurn /\ update[u] # NoUpdate
    BY <1>2, <1>7 DEF NotesInv, Orderly, NoUpdate
  <2>2. goroutines = {} /\ \A v \in Updaters : v # u => update[v] = NoUpdate
    BY <2>1 DEF InTurn
  <2>3. update[u].old = orderState.status
    BY <1>2, <2>1 DEF InTurn
  <2>4. ASSUME NEW d \in Phones, (Live(d) /\ Expects(d))'
        PROVE  Follows(d)' /\ (d \in IPhones => activity'[d] = "fresh")
    <3>1. Live(d) /\ Expects(d) /\ surface' = surface
      BY <1>2, <2>4 DEF Live, Expects
    <3>2. Current(surface[d]) /\ (d \in IPhones => activity[d] = "fresh")
      BY <1>2, <2>1, <2>2, <3>1 DEF InTurn, Follows, Outdated, NoUpdate
    <3>3. Outdated(u, d)'
      BY <1>3, <1>4, <2>3, <3>1, <3>2 DEF Outdated, Current
    <3> QED BY <1>2, <3>2, <3>3 DEF Follows
  <2> QED BY <1>2, <1>3, <2>2, <2>4 DEF InTurn, NoUpdate
<1> QED BY <1>5, <1>6, <1>7 DEF NotesInv

LEMMA NotifiedJobs ==
  ASSUME NotesTyped, NEW old, NEW g \in Notified(old, orderState.status, events)
  PROVE  /\ g \in Job /\ g.at = "read" /\ g.status = orderState.status /\ g.lang = orderState.lang
         /\ g.kind \in IosKinds => "apns" \in clients
<1>1. PICK kind \in {"alert", "activity", "data"} :
        /\ g = NewJob(kind, events) /\ (kind = "activity" => "apns" \in clients)
  BY DEF Notified, NewJob
<1>2. orderState.status \in AnyStatus /\ orderState.lang \in AnyLanguage /\ events \in Nat
  BY DEF NotesTyped
<1>3. g \in Job /\ g.at = "read" /\ g.status = orderState.status /\ g.lang = orderState.lang /\ g.kind = kind
  BY <1>1, <1>2 DEF NewJob, Job, IosKinds, AndroidKinds
<1> QED BY <1>1, <1>3 DEF IosKinds

\* A change of the status brings every surface its push.
LEMMA ChangeIsNotified ==
  ASSUME NotesTyped, NEW d \in Phones, Expects(d), NEW old, old # orderState.status
  PROVE  \E g \in Notified(old, orderState.status, events) : Coming(g, d)
<1>1. CASE d \in IPhones
  <2>1. NewJob("activity", events) \in Notified(old, orderState.status, events)
    BY <1>1 DEF Notified, SurfaceDue, NewJob, Expects
  <2>2. Coming(NewJob("activity", events), d)
    BY <1>1 DEF Coming, NewJob, IosKinds
  <2> QED BY <2>1, <2>2
<1>2. CASE d \notin IPhones
  <2>1. NewJob("data", events) \in Notified(old, orderState.status, events)
    BY <1>2 DEF Notified, SurfaceDue, NewJob, NotesTyped
  <2>2. Coming(NewJob("data", events), d)
    BY <1>2 DEF Coming, NewJob, AndroidKinds
  <2> QED BY <2>1, <2>2
<1> QED BY <1>1, <1>2

LEMMA NotifyKeeps ==
  ASSUME NotesInv, NEW u \in Updaters, Notify(u)
  PROVE  NotesInv'
<1> DEFINE old == update[u].old
           N == Notified(old, orderState.status, events)
<1>0. NotesTyped /\ LiveTokenKept
  BY DEF NotesInv
<1>1. /\ update[u].at = "notify" /\ update' = [update EXCEPT ![u] = NoUpdate]
      /\ UNCHANGED <<clients, build, orderState, registered, wanted, installed, activity, surface, overlapped,
                     events>>
  BY DEF Notify, tokenState
<1>2. \/ goroutines' = goroutines \cup N /\ UNCHANGED pushFaults
      \/ pushFaults' = pushFaults + 1 /\ UNCHANGED goroutines
  BY DEF Notify, PushFault
<1>3. \A v \in Updaters : update'[v] = IF v = u THEN NoUpdate ELSE update[v]
  BY <1>0, <1>1 DEF NotesTyped
<1>4. \A g \in N : /\ g \in Job /\ g.at = "read" /\ g.status = orderState.status
                   /\ g.lang = orderState.lang /\ (g.kind \in IosKinds => "apns" \in clients)
  BY <1>0, NotifiedJobs
<1> HIDE DEF N
<1>5. goroutines' \subseteq Job /\ pushFaults' \in Nat
      /\ \A g \in goroutines' : /\ g.kind \in IosKinds => "apns" \in clients
                                /\ g.at = "clear" => g.kind = "activity" /\ g.status \in Terminal
  BY <1>0, <1>2, <1>4 DEF NotesTyped
<1>6. update' \in [Updaters -> [at : {"idle", "write", "notify"}, old : AnyStatus \cup {NoOrder}]]
  BY <1>0, <1>1 DEF NotesTyped, NoUpdate
<1>7. NotesTyped'
  BY <1>0, <1>1, <1>5, <1>6 DEF NotesTyped
<1>8. LiveTokenKept'
  BY <1>0, <1>1 DEF LiveTokenKept
<1>9. ASSUME Orderly' PROVE InTurn'
  <2>1. goroutines' = goroutines \cup N /\ Orderly
    BY <1>0, <1>1, <1>2, <1>9 DEF Orderly, NotesTyped
  <2>2. InTurn /\ update[u] # NoUpdate
    BY <1>1, <2>1 DEF NotesInv, NoUpdate
  <2>3. goroutines = {} /\ \A v \in Updaters : v # u => update[v] = NoUpdate
    BY <2>2 DEF InTurn
  <2>4. \A v \in Updaters : update'[v] = NoUpdate
    BY <1>3, <2>3
  <2>5. goroutines' = N
    BY <2>1, <2>3
  <2>6. ASSUME NEW d \in Phones, (Live(d) /\ Expects(d))'
        PROVE  Follows(d)' /\ (d \in IPhones => activity'[d] = "fresh")
    <3>1. Live(d) /\ Expects(d)
      BY <1>1, <2>6 DEF Live, Expects
    <3>2. Current(surface[d]) \/ Outdated(u, d)
      BY <2>2, <2>3, <3>1 DEF InTurn, Follows, Outdated, NoUpdate
    <3>3. d \in IPhones => activity[d] = "fresh"
      BY <2>2, <3>1 DEF InTurn
    <3>4. CASE Current(surface[d])
      BY <1>1, <3>3, <3>4 DEF Follows, Current
    <3>5. CASE Outdated(u, d) /\ old = orderState.status
      BY <1>1, <3>3, <3>5 DEF Follows, Current, Outdated
    <3>6. CASE Outdated(u, d) /\ old # orderState.status
      <4>1. \E g \in N : Coming(g, d)
        BY <1>0, <3>1, <3>6, ChangeIsNotified DEF N
      <4> QED BY <1>1, <2>5, <3>3, <4>1 DEF Follows, Coming
    <3> QED BY <3>2, <3>4, <3>5, <3>6
  <2> QED BY <1>1, <1>4, <2>4, <2>5, <2>6 DEF InTurn, NoUpdate
<1> QED BY <1>7, <1>8, <1>9 DEF NotesInv

LEMMA LanguageKeeps == NotesInv /\ UpdateMyOrdersLanguage => NotesInv'
<1> SUFFICES ASSUME NotesInv, UpdateMyOrdersLanguage PROVE NotesInv'
  OBVIOUS
<1>0. NotesTyped /\ LiveTokenKept
  BY DEF NotesInv
<1>1. PICK l \in Languages :
        /\ orderState' = [orderState EXCEPT !.lang = l]
        /\ goroutines' = goroutines \cup
             {[NewJob(k, events) EXCEPT !.lang = l, !.at = IF k = "langData" THEN "wait" ELSE @] :
                k \in IF orderState.status = "PENDING" THEN {}
                      ELSE (IF "apns" \in clients THEN {"langActivity"} ELSE {}) \cup {"langData"}}
  BY DEF UpdateMyOrdersLanguage
<1> DEFINE J(k) == [NewJob(k, events) EXCEPT !.lang = l, !.at = IF k = "langData" THEN "wait" ELSE @]
           K == IF orderState.status = "PENDING" THEN {}
                ELSE (IF "apns" \in clients THEN {"langActivity"} ELSE {}) \cup {"langData"}
<1>2. /\ EventBegins
      /\ UNCHANGED <<clients, build, update, registered, wanted, installed, activity, surface, pushFaults>>
  BY DEF UpdateMyOrdersLanguage, tokenState
<1>3. orderState' \in [status : AnyStatus, lang : AnyLanguage, late : BOOLEAN]
      /\ orderState'.status = orderState.status /\ orderState'.lang = l
      /\ orderState.status \in AnyStatus /\ l \in AnyLanguage /\ events \in Nat
  BY <1>0, <1>1 DEF NotesTyped, AnyLanguage
<1>4. \A k \in {"langActivity", "langData"} :
        /\ J(k) \in Job /\ J(k).kind = k /\ J(k).at \in {"read", "wait"}
        /\ J(k).status = orderState.status /\ J(k).lang = l
  BY <1>3 DEF NewJob, Job, IosKinds, AndroidKinds
<1>5. goroutines' = goroutines \cup {J(k) : k \in K}
  BY <1>1
<1> HIDE DEF J
<1>6. K \subseteq {"langActivity", "langData"} /\ ("langActivity" \in K => "apns" \in clients)
  OBVIOUS
<1>7. goroutines' \subseteq Job
      /\ \A g \in goroutines' : /\ g.kind \in IosKinds => "apns" \in clients
                                /\ g.at = "clear" => g.kind = "activity" /\ g.status \in Terminal
  <2>1. \A k \in K : /\ J(k) \in Job /\ J(k).at # "clear"
                     /\ J(k).kind \in IosKinds => "apns" \in clients
    BY <1>4, <1>6 DEF IosKinds
  <2> HIDE DEF K
  <2>2. ASSUME NEW g \in goroutines'
        PROVE  /\ g \in Job /\ (g.kind \in IosKinds => "apns" \in clients)
               /\ g.at = "clear" => g.kind = "activity" /\ g.status \in Terminal
    <3>1. CASE g \in goroutines
      BY <1>0, <3>1 DEF NotesTyped
    <3>2. ASSUME NEW k \in K, g = J(k)
          PROVE  g \in Job /\ g.at # "clear" /\ (g.kind \in IosKinds => "apns" \in clients)
      BY <2>1, <3>2
    <3>3. g \in goroutines \/ \E k \in K : g = J(k)
      BY <1>5
    <3> QED BY <3>1, <3>2, <3>3
  <2> QED BY <2>2
<1>8. NotesTyped'
  BY <1>0, <1>2, <1>3, <1>7 DEF NotesTyped, EventBegins
<1>9. LiveTokenKept'
  BY <1>0, <1>2 DEF LiveTokenKept
<1>10. ASSUME Orderly' PROVE InTurn'
  <2>1. /\ goroutines = {} /\ \A u \in Updaters : update[u] = NoUpdate
        /\ \A d \in Phones : Live(d) /\ Expects(d) =>
              Current(surface[d]) /\ (d \in IPhones => activity[d] = "fresh")
    BY <1>2, <1>10, QuietIsCurrent
  <2>2. ASSUME NEW d \in Phones, (Live(d) /\ Expects(d))'
        PROVE  Follows(d)' /\ (d \in IPhones => activity'[d] = "fresh")
    <3>1. Live(d) /\ Expects(d)
      BY <1>2, <2>2 DEF Live, Expects
    <3>2. Current(surface[d]) /\ (d \in IPhones => activity[d] = "fresh")
      BY <2>1, <3>1
    <3>3. CASE orderState.status = "PENDING"
      BY <1>2, <1>3, <3>2, <3>3 DEF Follows, Current
    <3>4. CASE orderState.status # "PENDING"
      <4>1. CASE d \in IPhones
        <5>1. "langActivity" \in K
          BY <3>1, <3>4, <4>1 DEF Expects
        <5>2. J("langActivity") \in goroutines'
          BY <1>5, <5>1
        <5>3. Coming(J("langActivity"), d)
          BY <1>4, <4>1 DEF Coming, IosKinds
        <5> QED BY <1>2, <3>2, <5>2, <5>3 DEF Follows, Coming
      <4>2. CASE d \notin IPhones
        <5>1. J("langData") \in goroutines'
          BY <1>5, <3>4
        <5>2. Coming(J("langData"), d)
          BY <1>4, <4>2 DEF Coming, AndroidKinds
        <5> QED BY <1>2, <4>2, <5>1, <5>2 DEF Follows, Coming
      <4> QED BY <4>1, <4>2
    <3> QED BY <3>3, <3>4
  <2>3. \A g \in goroutines' : g.status = orderState'.status /\ g.lang = orderState'.lang /\ g.kind # "activity"
    <3>1. \A k \in K : /\ J(k).status = orderState'.status /\ J(k).lang = orderState'.lang
                       /\ J(k).kind # "activity"
      BY <1>3, <1>4, <1>6
    <3> HIDE DEF K
    <3> QED BY <1>5, <2>1, <3>1
  <2>4. \A u \in Updaters : update'[u] = NoUpdate
    BY <1>2, <2>1
  <2> QED BY <2>2, <2>3, <2>4 DEF InTurn, NoUpdate
<1> QED BY <1>8, <1>9, <1>10 DEF NotesInv

\* What a registration or its withdrawal leaves: what was, or what is now.
LEMMA EventsAreCurrent ==
  ASSUME NotesInv, EventBegins, UNCHANGED <<clients, orderState, update, goroutines, pushFaults>>,
         \A d \in Phones : (Live(d) /\ Expects(d))' =>
           \/ /\ Live(d) /\ Expects(d) /\ surface'[d] = surface[d]
              /\ d \in IPhones => activity'[d] = activity[d]
           \/ /\ surface'[d] = [status |-> orderState.status, lang |-> orderState.lang]
              /\ d \in IPhones => activity'[d] = "fresh"
  PROVE  Orderly' => InTurn'
<1> SUFFICES ASSUME Orderly' PROVE InTurn'
  OBVIOUS
<1>1. /\ goroutines = {} /\ \A u \in Updaters : update[u] = NoUpdate
      /\ \A d \in Phones : Live(d) /\ Expects(d) =>
            Current(surface[d]) /\ (d \in IPhones => activity[d] = "fresh")
  BY QuietIsCurrent
<1>2. goroutines' = {} /\ \A u \in Updaters : update'[u] = NoUpdate
  BY <1>1
<1>3. \A d \in Phones : (Live(d) /\ Expects(d))' =>
            Current(surface[d])' /\ (d \in IPhones => activity'[d] = "fresh")
  BY <1>1 DEF Current
<1> QED BY <1>2, <1>3, CurrentIsInTurn

LEMMA NowShown ==
  ASSUME NotesTyped, NEW d \in Phones, surface' = ShowsNow(d)
  PROVE  /\ \A e \in Phones : surface'[e] = IF e = d THEN [status |-> orderState.status, lang |-> orderState.lang]
                                            ELSE surface[e]
         /\ surface' = [e \in Phones |-> surface'[e]]
  BY DEF NotesTyped, ShowsNow

LEMMA RegisterLiveActivityTokenKeeps ==
  ASSUME NotesInv, NEW d \in IPhones, RegisterLiveActivityToken(d)
  PROVE  NotesInv'
<1>0. NotesTyped /\ LiveTokenKept /\ d \in Phones
  BY NotesAssumption DEF NotesInv
<1>1. /\ EventBegins /\ activity' = [activity EXCEPT ![d] = "fresh"] /\ surface' = ShowsNow(d)
      /\ UNCHANGED <<clients, build, orderState, update, goroutines, registered, wanted, installed, pushFaults>>
  BY DEF RegisterLiveActivityToken, tokenState
<1>2. NotesTyped'
  <2>1. surface' = [e \in Phones |-> surface'[e]]
    BY <1>0, <1>1, NowShown
  <2> QED BY <1>0, <1>1, <2>1 DEF NotesTyped, EventBegins
<1>3. LiveTokenKept'
  BY <1>0, <1>1 DEF LiveTokenKept
<1>4. ASSUME NEW e \in Phones, (Live(e) /\ Expects(e))'
      PROVE  \/ /\ Live(e) /\ Expects(e) /\ surface'[e] = surface[e]
                /\ e \in IPhones => activity'[e] = activity[e]
             \/ /\ surface'[e] = [status |-> orderState.status, lang |-> orderState.lang]
                /\ e \in IPhones => activity'[e] = "fresh"
  <2>1. CASE e = d
    BY <1>0, <1>1, <2>1, NowShown DEF NotesTyped
  <2>2. CASE e # d
    <3>1. surface'[e] = surface[e] /\ (e \in IPhones => activity'[e] = activity[e])
      BY <1>0, <1>1, <2>2, NowShown DEF NotesTyped
    <3> QED BY <1>1, <1>4, <3>1 DEF Live, Expects
  <2> QED BY <2>1, <2>2
<1>5. Orderly' => InTurn'
  BY <1>1, <1>4, EventsAreCurrent
<1> QED BY <1>2, <1>3, <1>5 DEF NotesInv

LEMMA RegisterDeviceTokenKeeps ==
  ASSUME NotesInv, NEW d \in Phones, RegisterDeviceToken(d)
  PROVE  NotesInv'
<1>0. NotesTyped /\ LiveTokenKept
  BY DEF NotesInv
<1>1. /\ EventBegins /\ wanted' = wanted \cup {d} /\ registered' = registered \cup {d}
      /\ surface' = IF d \in Phones \ IPhones THEN ShowsNow(d) ELSE surface
      /\ UNCHANGED <<clients, build, orderState, update, goroutines, installed, activity, pushFaults>>
  BY DEF RegisterDeviceToken
<1>2. /\ d \notin IPhones => surface'[d] = [status |-> orderState.status, lang |-> orderState.lang]
      /\ \A e \in Phones : e # d \/ e \in IPhones => surface'[e] = surface[e]
      /\ surface' = [e \in Phones |-> surface'[e]]
  <2>1. CASE d \in IPhones
    BY <1>0, <1>1, <2>1 DEF NotesTyped
  <2>2. CASE d \notin IPhones
    BY <1>0, <1>1, <2>2, NowShown
  <2> QED BY <2>1, <2>2
<1>3. NotesTyped'
  BY <1>0, <1>1, <1>2 DEF NotesTyped, EventBegins
<1>4. LiveTokenKept'
  BY <1>0, <1>1 DEF LiveTokenKept
<1>5. ASSUME NEW e \in Phones, (Live(e) /\ Expects(e))'
      PROVE  \/ /\ Live(e) /\ Expects(e) /\ surface'[e] = surface[e]
                /\ e \in IPhones => activity'[e] = activity[e]
             \/ /\ surface'[e] = [status |-> orderState.status, lang |-> orderState.lang]
                /\ e \in IPhones => activity'[e] = "fresh"
  <2>1. CASE e # d \/ e \in IPhones
    BY <1>1, <1>2, <1>5, <2>1 DEF Live, Expects
  <2>2. CASE e = d /\ e \notin IPhones
    BY <1>2, <2>2
  <2> QED BY <2>1, <2>2
<1>6. Orderly' => InTurn'
  BY <1>1, <1>5, EventsAreCurrent
<1> QED BY <1>3, <1>4, <1>6 DEF NotesInv

LEMMA UnregisterDeviceTokenKeeps ==
  ASSUME NotesInv, NEW d \in Phones, UnregisterDeviceToken(d)
  PROVE  NotesInv'
<1>0. NotesTyped /\ LiveTokenKept
  BY DEF NotesInv
<1>1. /\ EventBegins /\ wanted' = wanted \ {d} /\ registered' = registered \ {d}
      /\ UNCHANGED <<clients, build, orderState, update, goroutines, installed, activity, surface, pushFaults>>
  BY DEF UnregisterDeviceToken
<1>2. NotesTyped'
  BY <1>0, <1>1 DEF NotesTyped, EventBegins
<1>3. LiveTokenKept'
  BY <1>0, <1>1 DEF LiveTokenKept
<1>4. \A e \in Phones : (Live(e) /\ Expects(e))' =>
        Live(e) /\ Expects(e) /\ surface'[e] = surface[e] /\ (e \in IPhones => activity'[e] = activity[e])
  BY <1>1 DEF Live, Expects
<1>5. Orderly' => InTurn'
  BY <1>1, <1>4, EventsAreCurrent
<1> QED BY <1>2, <1>3, <1>5 DEF NotesInv

\* An app or an activity that is gone expects nothing.
LEMMA GoneKeeps ==
  ASSUME NotesInv, (\E d \in Phones : Uninstall(d)) \/ (\E d \in IPhones : ActivityExpires(d)) \/ PurgeExpired
  PROVE  NotesInv'
<1>0. NotesTyped /\ LiveTokenKept
  BY DEF NotesInv
<1>1. /\ UNCHANGED <<clients, build, orderState, update, goroutines, registered, wanted, overlapped, events, pushFaults>>
      /\ installed' \subseteq installed
  BY DEF Uninstall, ActivityExpires, PurgeExpired, tokenState
<1> DEFINE StillLive ==
        /\ activity' \in [IPhones -> {"none", "fresh", "expired"}]
        /\ surface' = [d \in Phones |-> surface'[d]]
        /\ \A d \in Phones : Live(d)' =>
             /\ Live(d) /\ surface'[d] = surface[d]
             /\ d \in IPhones /\ activity[d] = "fresh" => activity'[d] = "fresh"
<1>2. StillLive
  <2>1. ASSUME NEW d \in Phones, Uninstall(d)
        PROVE  StillLive
    BY <1>0, <1>1, <2>1 DEF Uninstall, NotesTyped, Live
  <2>2. ASSUME NEW d \in IPhones, ActivityExpires(d)
        PROVE  StillLive
    <3>1. /\ \A e \in Phones : surface'[e] = IF e = d THEN NoSurface ELSE surface[e]
          /\ surface' = [e \in Phones |-> surface'[e]]
          /\ \A e \in IPhones : activity'[e] = IF e = d THEN "expired" ELSE activity[e]
          /\ activity' \in [IPhones -> {"none", "fresh", "expired"}]
      BY <1>0, <2>2 DEF ActivityExpires, NotesTyped
    <3> QED BY <1>1, <3>1 DEF Live
  <2>3. CASE PurgeExpired
    <3>1. /\ UNCHANGED surface /\ \A e \in IPhones : activity[e] = "fresh" => activity'[e] = "fresh"
          /\ activity' \in [IPhones -> {"none", "fresh", "expired"}]
      BY <1>0, <2>3 DEF PurgeExpired, NotesTyped
    <3> QED BY <1>0, <1>1, <3>1 DEF Live, NotesTyped
  <2> QED BY <2>1, <2>2, <2>3
<1>3. NotesTyped' /\ LiveTokenKept'
  BY <1>0, <1>1, <1>2 DEF NotesTyped, LiveTokenKept
<1>4. ASSUME Orderly' PROVE InTurn'
  <2>1. InTurn
    BY <1>1, <1>4 DEF Orderly, NotesInv
  <2>2. \A d \in Phones : (Live(d) /\ Expects(d))' => Live(d) /\ Expects(d) /\ surface'[d] = surface[d]
    BY <1>1, <1>2 DEF Expects
  <2>3. \A d \in Phones : (Live(d) /\ Expects(d))' => (Follows(d)' /\ (d \in IPhones => activity'[d] = "fresh"))
    BY <1>1, <1>2, <2>1, <2>2 DEF InTurn, Follows, Outdated, Coming, Current
  <2>4. \A d \in IPhones : Live(d)' => Live(d)
    BY <1>2, NotesAssumption
  <2> QED BY <1>1, <2>1, <2>3, <2>4 DEF InTurn
<1> QED BY <1>3, <1>4 DEF NotesInv

-----------------------------------------------------------------------------
(* The goroutines                                                          *)

\* A goroutine goes on: its job is replaced by others of the same status and language.
LEMMA ReadTokensKeeps ==
  ASSUME NotesInv, NEW g \in goroutines, ReadTokens(g)
  PROVE  NotesInv'
<1> DEFINE sending == [g EXCEPT !.at = "send", !.todo = Tokens(g)]
<1>0. NotesTyped /\ LiveTokenKept /\ g \in Job /\ Ready(g) /\ g.at \in {"read", "wait"}
  BY DEF NotesInv, NotesTyped, ReadTokens, Ready
<1>1. UNCHANGED <<clients, build, orderState, update, registered, wanted, installed, activity, surface,
                  overlapped, events>>
  BY DEF ReadTokens, tokenState
<1>2. NextJob(g) = {}
  BY <1>0 DEF NextJob
<1>3. \/ /\ goroutines' = (goroutines \ {g}) \cup (IF Tokens(g) = {} THEN {} ELSE {sending})
         /\ UNCHANGED pushFaults
      \/ goroutines' = goroutines \ {g} /\ pushFaults' = pushFaults + 1
  BY <1>2 DEF ReadTokens, PushFault
<1>4. Tokens(g) \subseteq Phones
  BY <1>0, NotesAssumption DEF Tokens, Job, IosKinds, AndroidKinds
<1>5. /\ sending \in Job /\ sending.kind = g.kind /\ sending.status = g.status /\ sending.lang = g.lang
      /\ sending.at = "send" /\ sending.todo = Tokens(g)
  BY <1>0, <1>4 DEF Job
<1> HIDE DEF sending
<1>6. NotesTyped'
  <2>1. goroutines' \subseteq goroutines \cup {sending} /\ pushFaults' \in Nat
    BY <1>0, <1>3 DEF NotesTyped
  <2>2. \A h \in goroutines' : /\ h \in Job /\ (h.kind \in IosKinds => "apns" \in clients)
                               /\ h.at = "clear" => h.kind = "activity" /\ h.status \in Terminal
    BY <1>0, <1>5, <2>1 DEF NotesTyped
  <2>3. goroutines' \subseteq Job
    BY <2>2
  <2> QED BY <1>0, <1>1, <2>1, <2>2, <2>3 DEF NotesTyped
<1>7. LiveTokenKept'
  BY <1>0, <1>1 DEF LiveTokenKept
<1>8. ASSUME Orderly' PROVE InTurn'
  <2>1. /\ InTurn
        /\ goroutines' = (goroutines \ {g}) \cup (IF Tokens(g) = {} THEN {} ELSE {sending})
    BY <1>0, <1>1, <1>3, <1>8 DEF Orderly, NotesTyped, NotesInv
  <2>2. \A u \in Updaters : update[u] = NoUpdate
    BY <2>1 DEF InTurn
  <2>3. \A h \in goroutines' : h = sending \/ h \in goroutines
    BY <2>1
  <2>4. \A h \in goroutines : h # g => h \in goroutines'
    BY <2>1
  <2>5. Tokens(g) # {} => sending \in goroutines'
    BY <2>1
  <2>6. \A h \in goroutines' : h.status = orderState.status /\ h.lang = orderState.lang
    BY <1>5, <2>1, <2>3 DEF InTurn
  <2>7. ASSUME NEW d \in Phones, Live(d), Expects(d)
        PROVE  /\ Follows(d)' /\ (d \in IPhones => activity[d] = "fresh")
               /\ g.kind \in (IF d \in IPhones THEN IosKinds ELSE AndroidKinds) => d \in Tokens(g)
    <3>1. Follows(d) /\ (d \in IPhones => activity[d] = "fresh")
      BY <2>1, <2>7 DEF InTurn
    <3>2. g.kind \in (IF d \in IPhones THEN IosKinds ELSE AndroidKinds) => d \in Tokens(g)
      BY <1>0, <2>7, <3>1 DEF Tokens, IosKinds, AndroidKinds, Expects, NotesTyped
    <3>3. ASSUME Current(surface[d]) PROVE Follows(d)'
      <4>1. Current(surface[d])'
        BY <1>1, <3>3 DEF Current
      <4> QED BY <4>1 DEF Follows
    <3>4. ASSUME NEW h \in goroutines, Coming(h, d)
          PROVE  Follows(d)'
      <4>1. CASE h # g
        BY <1>1, <2>4, <3>4, <4>1 DEF Follows, Coming
      <4>2. CASE h = g
        <5>1. d \in Tokens(g)
          BY <3>2, <3>4, <4>2 DEF Coming
        <5> QED BY <1>5, <2>5, <3>4, <4>2, <5>1 DEF Follows, Coming
      <4> QED BY <4>1, <4>2
    <3>5. \A u \in Updaters : ~Outdated(u, d)
      BY <2>2 DEF Outdated, NoUpdate
    <3>6. Follows(d)'
      BY <3>1, <3>3, <3>4, <3>5 DEF Follows
    <3> QED BY <3>1, <3>2, <3>6
  <2>8. ASSUME NEW h \in goroutines', NEW d \in IPhones, h.kind = "activity", h.status \in Terminal, Live(d)
        PROVE  (h.at = "send" => d \in h.todo) /\ h.at # "clear"
    <3>1. CASE h \in goroutines
      BY <2>1, <2>8, <3>1 DEF InTurn
    <3>2. CASE h = sending
      <4>1. "apns" \in clients /\ d \in Phones /\ g.kind = "activity"
        BY <1>0, <1>5, <2>8, <3>2, NotesAssumption DEF NotesTyped, IosKinds
      <4>2. d \in Tokens(g)
        BY <2>7, <2>8, <4>1 DEF Expects, IosKinds
      <4> QED BY <1>5, <3>2, <4>2
    <3> QED BY <2>3, <3>1, <3>2
  <2>9. \A d : (Live(d)' <=> Live(d)) /\ (Expects(d)' <=> Expects(d))
    BY <1>1 DEF Live, Expects
  <2> QED BY <1>1, <2>2, <2>6, <2>7, <2>8, <2>9 DEF InTurn, NoUpdate
<1> QED BY <1>6, <1>7, <1>8 DEF NotesInv

\* A device whose app is installed is reached, whichever environment its token is of.
LEMMA InstalledIsReached ==
  ASSUME NotesTyped, NEW d \in installed
  PROVE  ~TokenInvalid(d)
<1>1. d \in IPhones => build[d] \in {"prod", "dev"}
  BY DEF NotesTyped
<1> QED BY <1>1 DEF TokenInvalid, PushTo, EndpointReply

\* One push shows what its goroutine captured, or leaves the surface.
LEMMA PushShows ==
  ASSUME NotesTyped, NEW g \in goroutines, NEW d \in Phones
  PROVE  /\ Shows(g, d) = [e \in Phones |-> Shows(g, d)[e]]
         /\ \A e \in Phones : e # d => Shows(g, d)[e] = surface[e]
         /\ ~Live(d) => Shows(g, d)[d] = surface[d]
         /\ g.kind = "alert" => Shows(g, d)[d] = surface[d]
         /\ g.kind # "alert" /\ Live(d) => Shows(g, d)[d] = ShownBy(g)
<1>1. g.kind \in {"activity", "langActivity", "data", "langData", "alert"}
  BY DEF NotesTyped, Job, IosKinds, AndroidKinds
<1>2. CASE g.kind # "alert" /\ Live(d)
  <2>1. Shows(g, d) = [surface EXCEPT ![d] = ShownBy(g)]
    BY <1>1, <1>2 DEF Shows, Live
  <2> QED BY <1>2, <2>1 DEF NotesTyped
<1>3. CASE ~(g.kind # "alert" /\ Live(d))
  <2>1. Shows(g, d) = surface
    BY <1>1, <1>3 DEF Shows, Live
  <2> QED BY <1>3, <2>1 DEF NotesTyped
<1> QED BY <1>2, <1>3

LEMMA SendPushKeeps ==
  ASSUME NotesInv, NEW g \in goroutines, NEW d \in g.todo, SendPush(g, d)
  PROVE  NotesInv'
<1> DEFINE rest == [g EXCEPT !.todo = @ \ {d}]
           clear == [g EXCEPT !.at = "clear"]
<1>0. NotesTyped /\ LiveTokenKept /\ g \in Job /\ g.at = "send" /\ d \in Phones
  BY DEF NotesInv, NotesTyped, SendPush, Job
<1>1. UNCHANGED <<clients, build, orderState, update, wanted, installed, activity, overlapped, events>>
  BY DEF SendPush
<1>2. /\ rest \in Job /\ rest.kind = g.kind /\ rest.status = g.status /\ rest.lang = g.lang
      /\ rest.at = "send" /\ rest.todo = g.todo \ {d}
      /\ clear \in Job /\ clear.kind = g.kind /\ clear.status = g.status /\ clear.lang = g.lang
      /\ clear.at = "clear"
  BY <1>0 DEF Job
<1>3. goroutines' = (goroutines \ {g}) \cup
        (IF g.todo \ {d} # {} THEN {rest}
         ELSE IF g.kind = "activity" /\ g.status \in Terminal THEN {clear} ELSE {})
  BY <1>0, <1>2 DEF SendPush, Served, NextJob
<1> HIDE DEF rest, clear
<1>4. \/ /\ d \in installed \/ registered' = registered
         /\ surface' = Shows(g, d) /\ registered' = registered /\ pushFaults' = pushFaults
      \/ /\ d \notin installed /\ registered' \in {registered, registered \ {d}}
         /\ surface' = surface /\ pushFaults' = pushFaults
      \/ surface' = surface /\ registered' = registered /\ pushFaults' = pushFaults + 1
  BY <1>0, InstalledIsReached DEF SendPush, PushFault
<1>5. \A h \in goroutines' : h \in goroutines \/ (h = rest /\ g.todo \ {d} # {})
        \/ (h = clear /\ g.todo \subseteq {d} /\ g.kind = "activity" /\ g.status \in Terminal)
  BY <1>3
<1>6. NotesTyped'
  <2>1. surface' = [e \in Phones |-> surface'[e]] /\ pushFaults' \in Nat
    BY <1>0, <1>4, PushShows DEF NotesTyped
  <2>2. \A h \in goroutines' : /\ h \in Job /\ (h.kind \in IosKinds => "apns" \in clients)
                               /\ h.at = "clear" => h.kind = "activity" /\ h.status \in Terminal
    BY <1>0, <1>2, <1>5 DEF NotesTyped
  <2>3. goroutines' \subseteq Job
    BY <2>2
  <2> QED BY <1>0, <1>1, <2>1, <2>2, <2>3 DEF NotesTyped
<1>7. LiveTokenKept'
  BY <1>0, <1>1, <1>4 DEF LiveTokenKept
<1>8. ASSUME Orderly' PROVE InTurn'
  <2>1. InTurn /\ pushFaults' = pushFaults
    BY <1>0, <1>1, <1>4, <1>8 DEF Orderly, NotesTyped, NotesInv
  <2>2. (\A u \in Updaters : update[u] = NoUpdate) /\ g.status = orderState.status /\ g.lang = orderState.lang
    BY <2>1 DEF InTurn
  <2>3. /\ \A e \in Phones : e # d => surface'[e] = surface[e]
        /\ ~Live(d) \/ g.kind = "alert" => surface'[d] = surface[d]
        /\ Live(d) /\ g.kind # "alert" => surface'[d] = ShownBy(g)
        /\ registered' \subseteq registered
    <3>1. CASE surface' = Shows(g, d) /\ registered' = registered
      BY <1>0, <3>1, PushShows
    <3>2. CASE d \notin installed /\ registered' \subseteq registered /\ surface' = surface
      BY <3>2 DEF Live
    <3> QED BY <1>0, <1>4, <2>1, <3>1, <3>2 DEF NotesTyped
  <2>4. \A e \in Phones : /\ Live(e)' => Live(e)
                          /\ (Live(e) /\ Expects(e))' => Live(e) /\ Expects(e)
    BY <1>1, <2>3 DEF Live, Expects
  <2>5. \A h \in goroutines' : h.status = orderState.status /\ h.lang = orderState.lang
    BY <1>2, <1>5, <2>1, <2>2 DEF InTurn
  <2>6. ASSUME Live(d)', g.kind # "alert"
        PROVE  surface'[d] = [status |-> g.status, lang |-> g.lang]
               /\ ~(g.kind = "activity" /\ g.status \in Terminal)
    <3>1. Live(d) /\ surface'[d] = ShownBy(g) /\ ShownBy(g) # SurfaceOver
      BY <1>0, <2>3, <2>4, <2>6 DEF Live
    <3> QED BY <3>1 DEF ShownBy
  <2>7. ASSUME NEW h \in goroutines', NEW e \in IPhones, h.kind = "activity", h.status \in Terminal, Live(e)'
        PROVE  (h.at = "send" => e \in h.todo) /\ h.at # "clear"
    <3>1. Live(e) /\ e \in Phones
      BY <2>4, <2>7, NotesAssumption
    <3>2. CASE h \in goroutines
      BY <2>1, <2>7, <3>1, <3>2 DEF InTurn
    <3>3. CASE h \in {rest, clear} /\ g.kind = "activity" /\ g.status \in Terminal
      <4>1. e \in g.todo
        BY <1>0, <2>1, <3>1, <3>3 DEF InTurn
      <4>2. e # d
        BY <2>6, <2>7, <3>3
      <4> QED BY <1>2, <1>5, <3>2, <4>1, <4>2
    <3> QED BY <1>2, <1>5, <2>7, <3>2, <3>3
  <2>8. ASSUME NEW e \in Phones, (Live(e) /\ Expects(e))'
        PROVE  Follows(e)' /\ (e \in IPhones => activity'[e] = "fresh")
    <3>1. Follows(e) /\ Live(e) /\ (e \in IPhones => activity[e] = "fresh")
      BY <2>1, <2>4, <2>8 DEF InTurn
    <3>2. ASSUME e = d, g.kind # "alert" PROVE Follows(e)'
      <4>1. Current(surface[e])'
        BY <1>1, <2>2, <2>6, <2>8, <3>2 DEF Current
      <4> QED BY <4>1 DEF Follows
    <3>3. ASSUME Current(surface[e]), surface'[e] = surface[e] PROVE Follows(e)'
      <4>1. Current(surface[e])'
        BY <1>1, <3>3 DEF Current
      <4> QED BY <4>1 DEF Follows
    <3>4. ASSUME NEW h \in goroutines, Coming(h, e), h # g PROVE Follows(e)'
      <4>1. h \in goroutines' /\ Coming(h, e)'
        BY <1>3, <3>4 DEF Coming
      <4> QED BY <4>1 DEF Follows
    <3>5. ASSUME Coming(g, e), e # d PROVE Follows(e)'
      <4>1. rest \in goroutines' /\ Coming(rest, e)'
        BY <1>0, <1>2, <1>3, <3>5 DEF Coming
      <4> QED BY <4>1 DEF Follows
    <3>6. ~(Coming(g, e) /\ g.kind = "alert") /\ \A u \in Updaters : ~Outdated(u, e)
      BY <2>2 DEF Coming, Outdated, NoUpdate, IosKinds, AndroidKinds
    <3>7. e # d \/ g.kind = "alert" => surface'[e] = surface[e]
      BY <2>3
    <3>8. Follows(e)'
      BY <3>1, <3>2, <3>3, <3>4, <3>5, <3>6, <3>7 DEF Follows
    <3> QED BY <1>1, <3>1, <3>8
  <2> QED BY <1>1, <2>2, <2>5, <2>7, <2>8 DEF InTurn, NoUpdate
<1> QED BY <1>6, <1>7, <1>8 DEF NotesInv

\* The tokens are cleared when no surface lives on them.
LEMMA ClearActivityTokensKeeps ==
  ASSUME NotesInv, NEW g \in goroutines, ClearActivityTokens(g)
  PROVE  NotesInv'
<1>0. NotesTyped /\ LiveTokenKept /\ g \in Job /\ g.at = "clear" /\ g.kind = "activity" /\ g.status \in Terminal
  BY DEF NotesInv, NotesTyped, ClearActivityTokens
<1>1. /\ UNCHANGED <<clients, build, orderState, update, registered, wanted, installed, surface,
                     overlapped, events>>
      /\ goroutines' = goroutines \ {g}
  BY DEF ClearActivityTokens, tokenState
<1>2. \/ activity' = [d \in IPhones |-> "none"] /\ pushFaults' = pushFaults
      \/ activity' = activity /\ pushFaults' = pushFaults + 1
  BY DEF ClearActivityTokens, PushFault
<1>3. NotesTyped' /\ LiveTokenKept'
  BY <1>0, <1>1, <1>2 DEF NotesTyped, LiveTokenKept
<1>4. ASSUME Orderly' PROVE InTurn'
  <2>1. InTurn
    BY <1>0, <1>1, <1>2, <1>4 DEF Orderly, NotesTyped, NotesInv
  <2>2. \A d \in IPhones : ~Live(d)
    BY <1>0, <2>1 DEF InTurn
  <2>3. \A d \in Phones : (Live(d)' <=> Live(d)) /\ (Expects(d)' <=> Expects(d))
    BY <1>1 DEF Live, Expects
  <2>4. \A u \in Updaters : update[u] = NoUpdate
    BY <2>1 DEF InTurn
  <2>5. ASSUME NEW d \in Phones, Live(d), Expects(d) PROVE d \notin IPhones /\ Follows(d)'
    <3>1. d \notin IPhones /\ Follows(d)
      BY <2>1, <2>2, <2>5 DEF InTurn
    <3>2. ASSUME Current(surface[d]) PROVE Follows(d)'
      <4>1. Current(surface[d])'
        BY <1>1, <3>2 DEF Current
      <4> QED BY <4>1 DEF Follows
    <3>3. ASSUME NEW h \in goroutines, Coming(h, d) PROVE Follows(d)'
      <4>1. h \in goroutines' /\ Coming(h, d)'
        BY <1>0, <1>1, <3>3 DEF Coming
      <4> QED BY <4>1 DEF Follows
    <3>4. \A u \in Updaters : ~Outdated(u, d)
      BY <2>4 DEF Outdated, NoUpdate
    <3> QED BY <3>1, <3>2, <3>3, <3>4 DEF Follows
  <2>6. \A d \in Phones : (Live(d) /\ Expects(d))' => Follows(d)' /\ (d \in IPhones => activity'[d] = "fresh")
    BY <2>3, <2>5
  <2>7. \A h \in goroutines' : h \in goroutines
    BY <1>1
  <2>8. \A d \in IPhones : ~Live(d)'
    BY <2>2, <2>3, NotesAssumption
  <2> QED BY <1>1, <2>1, <2>4, <2>6, <2>7, <2>8 DEF InTurn, NoUpdate
<1> QED BY <1>3, <1>4 DEF NotesInv

-----------------------------------------------------------------------------
LEMMA NotesStep == NotesInv /\ [NoteNext]_noteVars => NotesInv'
<1> SUFFICES ASSUME NotesInv, [NoteNext]_noteVars PROVE NotesInv'
  OBVIOUS
<1>1. ASSUME NEW u \in Updaters, ReadOldOrder(u) \/ WriteOrder(u) \/ Notify(u)
      PROVE  NotesInv'
  BY <1>1, ReadOldOrderKeeps, WriteOrderKeeps, NotifyKeeps
<1>2. CASE UpdateMyOrdersLanguage
  BY <1>2, LanguageKeeps
<1>3. ASSUME NEW d \in IPhones, RegisterLiveActivityToken(d)
      PROVE  NotesInv'
  BY <1>3, RegisterLiveActivityTokenKeeps
<1>4. ASSUME NEW d \in Phones, RegisterDeviceToken(d) \/ UnregisterDeviceToken(d)
      PROVE  NotesInv'
  BY <1>4, RegisterDeviceTokenKeeps, UnregisterDeviceTokenKeeps
<1>5. CASE (\E d \in Phones : Uninstall(d)) \/ (\E d \in IPhones : ActivityExpires(d)) \/ PurgeExpired
  BY <1>5, GoneKeeps
<1>6. ASSUME NEW g \in goroutines,
             ReadTokens(g) \/ (\E d \in g.todo : SendPush(g, d)) \/ ClearActivityTokens(g)
      PROVE  NotesInv'
  BY <1>6, ReadTokensKeeps, SendPushKeeps, ClearActivityTokensKeeps
<1>7. CASE UNCHANGED noteVars
  <2>1. UNCHANGED <<clients, build, orderState, update, goroutines, registered, wanted, installed, activity,
                    surface, overlapped, events, pushFaults>>
    BY <1>7 DEF noteVars
  <2>2. NotesTyped' /\ LiveTokenKept' /\ (Orderly' <=> Orderly)
    BY <2>1 DEF NotesInv, NotesTyped, LiveTokenKept, Orderly
  <2>3. InTurn => InTurn'
    BY <2>1 DEF InTurn, Live, Expects, Follows, Current, Outdated, Coming
  <2> QED BY <2>2, <2>3 DEF NotesInv
<1> QED BY <1>1, <1>2, <1>3, <1>4, <1>5, <1>6, <1>7 DEF NoteNext, GoroutineStep

LEMMA NotesInvTells == NotesInv => DevicesTold
<1> SUFFICES ASSUME NotesInv PROVE DevicesTold
  OBVIOUS
<1>1. ASSUME Quiet, ~overlapped, pushFaults = 0, NEW d \in Phones \cap installed,
             surface[d] \notin {NoSurface, SurfaceOver}
      PROVE  IF d \in IPhones
             THEN "apns" \in clients => activity[d] = "fresh" /\ Current(surface[d])
             ELSE d \in registered => Current(surface[d])
  <2>1. InTurn /\ Live(d)
    BY <1>1 DEF NotesInv, Orderly, Live
  <2>2. Expects(d) => Current(surface[d]) /\ (d \in IPhones => activity[d] = "fresh")
    BY <1>1, <2>1 DEF InTurn, Follows, Quiet, Outdated, NoUpdate
  <2> QED BY <2>2 DEF Expects
<1>2. SurfaceSettles
  BY <1>1 DEF SurfaceSettles
<1> QED BY <1>2 DEF NotesInv, DevicesTold

(* For any number of phones, updates and language switches: a token that   *)
(* is in use stays registered whatever the interleaving, and when things   *)
(* have run one after the other and nothing failed, every live surface     *)
(* shows the order as it is, or was ended with it.                         *)
THEOREM DevicesAreTold == NoteSpec => []DevicesTold
<1>1. NotesInv /\ [NoteNext]_noteVars => NotesInv'
  BY NotesStep
<1> QED BY <1>1, NotesStart, NotesInvTells, PTL DEF NoteSpec

-----------------------------------------------------------------------------
(* The suppression list.  A bounce that is not listed is still to be read, *)
(* so long as its mail stays in the window.                                *)

MailRow == [to : Mailees, sentAt : Nat, flagAge : Nat, state : {"underway", "soft", "hard"}]

MailsTyped ==
  /\ mails \in Seq(MailRow)
  /\ hour \in Nat /\ bouncePage \in Nat /\ mailFaults \in Nat /\ polled \in BOOLEAN
  /\ \A i \in DOMAIN mails : mails[i].sentAt + mails[i].flagAge <= hour
  /\ polled => bouncePage = 0

\* A bounce that is not listed is still to be read: in a later hour, or on a page
\* of this hour's poll that has not been read.
StillToRead(i) ==
  LET due == mails[i].flagAge + 1 + mailFaults
      age == hour - mails[i].sentAt
  IN age < due \/ (age = due /\ ~polled /\ Place(i) >= bouncePage * BouncePageSize)

Awaited ==
  \A i \in DOMAIN mails : SeenInTime(mails[i]) /\ mails[i].to \notin listed => StillToRead(i)

MailInv == MailsTyped /\ Awaited /\ OnlyUnreachable /\ NotMailedAgain

-----------------------------------------------------------------------------
\* Places on a list of the members of F, the greatest first.
LEMMA PlacesIn ==
  ASSUME NEW n \in Nat, NEW F \in SUBSET (1..n), NEW i \in 1..n
  PROVE  /\ Cardinality(F) \in Nat
         /\ Cardinality({j \in F : j > i}) \in Nat
         /\ i \in F => Cardinality({j \in F : j > i}) < Cardinality(F)
         /\ \A E \in SUBSET F : Cardinality({j \in E : j > i}) <= Cardinality({j \in F : j > i})
<1> DEFINE Before == {j \in F : j > i}
<1>1. IsFiniteSet(1..n)
  BY FS_Interval
<1>2. IsFiniteSet(F)
  BY <1>1, FS_Subset
<1>3. Before \subseteq F /\ i \notin Before
  OBVIOUS
<1>4. ASSUME NEW E \in SUBSET F PROVE {j \in E : j > i} \subseteq Before
  OBVIOUS
<1> HIDE DEF Before
<1>5. /\ IsFiniteSet(Before) /\ Cardinality(Before) <= Cardinality(F)
      /\ Cardinality(F) = Cardinality(Before) => F = Before
  BY <1>2, <1>3, FS_Subset
<1>6. Cardinality(F) \in Nat /\ Cardinality(Before) \in Nat
  BY <1>2, <1>5, FS_CardinalityType
<1>7. i \in F => Cardinality(Before) < Cardinality(F)
  BY <1>3, <1>5, <1>6
<1>8. \A E \in SUBSET F : Cardinality({j \in E : j > i}) <= Cardinality(Before)
  BY <1>4, <1>5, FS_Subset
<1> QED BY <1>6, <1>7, <1>8 DEF Before

\* A failed mail has a place on the provider's list.
LEMMA PlacesOnList ==
  ASSUME MailsTyped, NEW i \in DOMAIN mails
  PROVE  /\ Place(i) \in Nat /\ Cardinality(FailedMails) \in Nat
         /\ i \in FailedMails => Place(i) < Cardinality(FailedMails)
<1>1. DOMAIN mails = 1..Len(mails) /\ Len(mails) \in Nat
  BY DEF MailsTyped
<1>2. FailedMails \in SUBSET (1..Len(mails))
  BY <1>1 DEF FailedMails
<1> QED BY <1>1, <1>2, PlacesIn DEF Place

\* What happens to one mail moves no other mail forward.
LEMMA PlacesGrow ==
  ASSUME MailsTyped, DOMAIN mails' = DOMAIN mails, FailedMails \subseteq FailedMails', NEW i \in DOMAIN mails
  PROVE  Place(i) <= Place(i)' /\ Place(i) \in Nat /\ Place(i)' \in Nat
<1>1. DOMAIN mails = 1..Len(mails) /\ Len(mails) \in Nat
  BY DEF MailsTyped
<1>2. FailedMails' \in SUBSET (1..Len(mails)) /\ FailedMails \in SUBSET (1..Len(mails))
  BY <1>1 DEF FailedMails
<1>3. /\ Cardinality({j \in FailedMails : j > i}) \in Nat
      /\ Cardinality({j \in FailedMails' : j > i}) \in Nat
      /\ Cardinality({j \in FailedMails : j > i}) <= Cardinality({j \in FailedMails' : j > i})
  BY <1>1, <1>2, PlacesIn
<1> QED BY <1>3 DEF Place

LEMMA MailStart == SuppressionInit => MailInv
<1> SUFFICES ASSUME SuppressionInit PROVE MailInv
  OBVIOUS
<1>1. DOMAIN mails = {} /\ mails \in Seq(MailRow)
  BY DEF SuppressionInit
<1> QED BY <1>1 DEF SuppressionInit, MailInv, MailsTyped, Awaited, OnlyUnreachable, NotMailedAgain

LEMMA DispatchKeeps ==
  ASSUME MailInv, NEW a \in Mailees, Dispatch(a)
  PROVE  MailInv'
<1> DEFINE n == Len(mails)
<1>0. MailsTyped /\ n \in Nat /\ DOMAIN mails = 1..n
  BY DEF MailInv, MailsTyped
<1>1. PICK fails \in BOOLEAN :
        /\ ~IsSuppressed(a, fails) /\ mails' = Append(mails, Mail(a))
        /\ mailFaults' = IF fails THEN mailFaults + 1 ELSE mailFaults
        /\ UNCHANGED <<listed, hour, bouncePage, polled>>
  BY DEF Dispatch
<1>2. Mail(a) \in MailRow /\ Mail(a).to = a /\ Mail(a).sentAt = hour /\ Mail(a).state = "underway" /\ Mail(a).flagAge = 0
  BY <1>0 DEF Mail, MailRow, MailsTyped
<1>3. /\ mails' \in Seq(MailRow) /\ DOMAIN mails' = 1..(n + 1)
      /\ mails'[n + 1] = Mail(a) /\ \A i \in 1..n : mails'[i] = mails[i]
  BY <1>0, <1>1, <1>2 DEF MailsTyped
<1> HIDE DEF n
<1>4. \A i \in 1..(n + 1) : i \in 1..n \/ i = n + 1
  BY <1>0
<1>5. mailFaults' \in Nat /\ mailFaults <= mailFaults'
  BY <1>0, <1>1 DEF MailsTyped
<1>6. MailsTyped'
  BY <1>0, <1>1, <1>2, <1>3, <1>4, <1>5 DEF MailsTyped
<1>7. FailedMails' = FailedMails
  BY <1>0, <1>1, <1>2, <1>3, <1>4 DEF FailedMails, Since
<1>8. \A i \in 1..n : Place(i)' = Place(i)
  BY <1>7 DEF Place
<1>9. /\ \A i \in 1..n : mails[i].sentAt \in Nat /\ mails[i].flagAge \in Nat
      /\ hour \in Nat /\ mailFaults \in Nat /\ BounceWindow \in Nat /\ bouncePage * BouncePageSize \in Int
  <2>1. \A i \in 1..n : mails[i] \in MailRow
    BY <1>0 DEF MailsTyped
  <2>2. \A i \in 1..n : mails[i].sentAt \in Nat /\ mails[i].flagAge \in Nat
    BY <2>1 DEF MailRow
  <2> QED BY <1>0, <2>2, SuppressionAssumption DEF MailsTyped
<1>10. ASSUME NEW i \in 1..(n + 1), SeenInTime(mails[i])'
       PROVE  i \in 1..n /\ SeenInTime(mails[i]) /\ mails'[i] = mails[i]
  <2>1. i # n + 1
    BY <1>2, <1>3, <1>10 DEF SeenInTime, Bounced
  <2>2. i \in 1..n /\ mails'[i] = mails[i]
    BY <1>3, <1>4, <2>1
  <2> QED BY <1>5, <1>9, <1>10, <2>2 DEF SeenInTime
<1>11. Awaited'
  <2> SUFFICES ASSUME NEW i \in 1..(n + 1), SeenInTime(mails[i])', mails'[i].to \notin listed'
               PROVE  StillToRead(i)'
    BY <1>3 DEF Awaited
  <2>1. StillToRead(i) /\ i \in 1..n /\ mails'[i] = mails[i]
    BY <1>0, <1>1, <1>10 DEF MailInv, Awaited
  <2>2. UNCHANGED <<hour, polled, bouncePage>> /\ Place(i)' = Place(i)
    BY <1>1, <1>8, <2>1
  <2>3. mails[i].sentAt \in Nat /\ mails[i].flagAge \in Nat /\ hour \in Nat /\ mailFaults \in Nat
    BY <1>9, <2>1
  <2> QED BY <1>5, <2>1, <2>2, <2>3 DEF StillToRead
<1>12. OnlyUnreachable'
  BY <1>0, <1>1, <1>3, <1>4 DEF MailInv, OnlyUnreachable, Bounced
<1>13. NotMailedAgain'
  <2> SUFFICES ASSUME NEW i \in 1..(n + 1), NEW j \in 1..(n + 1), SeenInTime(mails[i])',
                      mails'[j].to = mails'[i].to,
                      mails'[j].sentAt > mails'[i].sentAt + mails'[i].flagAge + 1
               PROVE  mailFaults' > 0
    BY <1>3 DEF NotMailedAgain
  <2>1. i \in 1..n /\ SeenInTime(mails[i]) /\ mails'[i] = mails[i]
    BY <1>10
  <2>2. CASE j \in 1..n
    BY <1>0, <1>3, <1>5, <2>1, <2>2 DEF MailInv, NotMailedAgain, MailsTyped
  <2>3. CASE j = n + 1 /\ mailFaults' = 0
    <3>1. mails[i].to = a /\ hour > mails[i].sentAt + mails[i].flagAge + 1 /\ a \notin listed /\ mailFaults = 0
      BY <1>0, <1>1, <1>2, <1>3, <1>5, <2>1, <2>3 DEF IsSuppressed, MailsTyped
    <3>2. StillToRead(i)
      BY <1>0, <2>1, <3>1 DEF MailInv, Awaited
    <3> QED BY <1>9, <2>1, <3>1, <3>2 DEF StillToRead
  <2> QED BY <1>4, <1>5, <2>2, <2>3
<1> QED BY <1>6, <1>11, <1>12, <1>13 DEF MailInv

LEMMA FlagKeeps ==
  ASSUME MailInv, NEW k \in DOMAIN mails, NEW outcome \in {"soft", "hard"}, Flag(k, outcome)
  PROVE  MailInv'
<1> DEFINE flagged == [mails[k] EXCEPT !.state = outcome,
                                      !.flagAge = IF outcome = "hard" THEN hour - mails[k].sentAt ELSE 0]
<1>0. /\ MailsTyped /\ mails[k].state = "underway" /\ \A i \in DOMAIN mails : mails[i] \in MailRow
      /\ \A i \in DOMAIN mails : mails[i].sentAt \in Nat /\ mails[i].flagAge \in Nat
                               /\ mails[i].sentAt + mails[i].flagAge <= hour
      /\ hour \in Nat /\ hour - mails[k].sentAt \in Nat
      /\ mailFaults \in Nat /\ bouncePage * BouncePageSize \in Int
  <2>1. MailsTyped /\ mails[k].state = "underway" /\ \A i \in DOMAIN mails : mails[i] \in MailRow
    BY DEF MailInv, MailsTyped, Flag
  <2> QED BY <2>1, SuppressionAssumption DEF MailsTyped, MailRow
<1>1. UNCHANGED <<listed, hour, bouncePage, polled, mailFaults>>
  BY DEF Flag
<1>2. /\ flagged \in MailRow /\ flagged.to = mails[k].to /\ flagged.sentAt = mails[k].sentAt
      /\ flagged.state = outcome
      /\ flagged.flagAge = IF outcome = "hard" THEN hour - mails[k].sentAt ELSE 0
  BY <1>0 DEF MailRow
<1>3. mails' = [mails EXCEPT ![k] = flagged]
  BY DEF Flag
<1> HIDE DEF flagged
<1>4. /\ mails' \in Seq(MailRow) /\ DOMAIN mails' = DOMAIN mails
      /\ \A i \in DOMAIN mails : mails'[i] = IF i = k THEN flagged ELSE mails[i]
  BY <1>0, <1>2, <1>3 DEF MailsTyped
<1>5. MailsTyped'
  <2>1. \A i \in DOMAIN mails : mails'[i].sentAt + mails'[i].flagAge <= hour
    BY <1>0, <1>2, <1>4
  <2> QED BY <1>0, <1>1, <1>4, <2>1 DEF MailsTyped
<1>6. FailedMails \subseteq FailedMails'
  BY <1>0, <1>1, <1>2, <1>4 DEF FailedMails, Since
<1>7. \A i \in DOMAIN mails : Place(i) <= Place(i)' /\ Place(i) \in Nat /\ Place(i)' \in Nat
  BY <1>0, <1>4, <1>6, PlacesGrow
<1>8. Awaited'
  <2> SUFFICES ASSUME NEW i \in DOMAIN mails, SeenInTime(mails[i])', mails'[i].to \notin listed'
               PROVE  StillToRead(i)'
    BY <1>4 DEF Awaited
  <2>1. CASE i = k
    <3>1. mails'[i] = flagged /\ outcome = "hard"
      BY <1>2, <1>4, <2>1 DEF SeenInTime, Bounced
    <3>2. mails'[i].sentAt = mails[k].sentAt /\ mails'[i].flagAge = hour - mails[k].sentAt
      BY <1>2, <3>1
    <3> QED BY <1>0, <1>1, <3>2 DEF StillToRead
  <2>2. CASE i # k
    <3>1. StillToRead(i) /\ mails'[i] = mails[i]
      BY <1>1, <1>4, <2>2 DEF SeenInTime, MailInv, Awaited
    <3> QED BY <1>0, <1>1, <1>7, <3>1 DEF StillToRead
  <2> QED BY <2>1, <2>2
<1>9. OnlyUnreachable'
  <2> SUFFICES ASSUME NEW a \in listed' PROVE \E i \in DOMAIN mails' : mails'[i].to = a /\ Bounced(mails'[i])
    BY DEF OnlyUnreachable
  <2>1. PICK i \in DOMAIN mails : mails[i].to = a /\ Bounced(mails[i])
    BY <1>1 DEF MailInv, OnlyUnreachable
  <2> QED BY <1>0, <1>4, <2>1 DEF Bounced
<1>10. NotMailedAgain'
  <2> SUFFICES ASSUME NEW i \in DOMAIN mails, NEW j \in DOMAIN mails, SeenInTime(mails[i])',
                      mails'[j].to = mails'[i].to,
                      mails'[j].sentAt > mails'[i].sentAt + mails'[i].flagAge + 1
               PROVE  mailFaults' > 0
    BY <1>4 DEF NotMailedAgain
  <2>1. mails'[j].to = mails[j].to /\ mails'[j].sentAt = mails[j].sentAt
    BY <1>2, <1>4
  <2>2. i # k
    <3> SUFFICES ASSUME i = k PROVE FALSE
      OBVIOUS
    <3>1. mails'[i].sentAt + mails'[i].flagAge = hour
      BY <1>0, <1>2, <1>4 DEF SeenInTime, Bounced
    <3> QED BY <1>0, <2>1, <3>1
  <2> QED BY <1>1, <1>4, <2>1, <2>2 DEF MailInv, NotMailedAgain, SeenInTime
<1> QED BY <1>5, <1>8, <1>9, <1>10 DEF MailInv

\* A bounce that a poll passes over is listed, or its writing has failed.
LEMMA PollHardBouncesKeeps == MailInv /\ PollHardBounces => MailInv'
<1> SUFFICES ASSUME MailInv, PollHardBounces PROVE MailInv'
  OBVIOUS
<1> DEFINE hard == {j \in Page(bouncePage) : HasHardBounceFlag(mails[j])}
           bounced == {mails[i].to : i \in hard}
           start == bouncePage * BouncePageSize
           next == (bouncePage + 1) * BouncePageSize
<1>0. /\ MailsTyped /\ \A i \in DOMAIN mails : mails[i].sentAt \in Nat /\ mails[i].flagAge \in Nat
      /\ hour \in Nat /\ mailFaults \in Nat /\ BounceWindow \in Nat /\ bouncePage \in Nat
      /\ start \in Int /\ next \in Int
  <2>1. MailsTyped /\ \A i \in DOMAIN mails : mails[i] \in MailRow
    BY DEF MailInv, MailsTyped
  <2>2. \A i \in DOMAIN mails : mails[i].sentAt \in Nat /\ mails[i].flagAge \in Nat
    BY <2>1 DEF MailRow
  <2> QED BY <2>1, <2>2, SuppressionAssumption DEF MailsTyped
<1>1. PICK lost \in SUBSET bounced :
        /\ listed' = listed \cup (bounced \ lost)
        /\ mailFaults' = IF lost = {} THEN mailFaults ELSE mailFaults + 1
  BY DEF PollHardBounces
<1>2. /\ ~polled /\ polled' = ~FullPage(bouncePage)
      /\ bouncePage' = IF FullPage(bouncePage) THEN bouncePage + 1 ELSE 0
      /\ UNCHANGED <<mails, hour>>
  BY DEF PollHardBounces
<1>3. mailFaults' \in Nat /\ mailFaults <= mailFaults' /\ (lost # {} => mailFaults' = mailFaults + 1)
  BY <1>0, <1>1
<1>4. bouncePage' \in Nat /\ (polled' => bouncePage' = 0) /\ polled' \in BOOLEAN
      /\ (~polled' => bouncePage' * BouncePageSize = next)
  <2>1. CASE FullPage(bouncePage)
    <3>1. polled' = FALSE /\ bouncePage' = bouncePage + 1
      BY <1>2, <2>1
    <3>2. polled' \in BOOLEAN /\ ~polled'
      BY <3>1
    <3>3. bouncePage' * BouncePageSize = next
      BY <3>1
    <3>4. bouncePage' \in Nat
      BY <1>0, <3>1
    <3> QED BY <3>2, <3>3, <3>4
  <2>2. CASE ~FullPage(bouncePage)
    <3>1. polled' = TRUE /\ bouncePage' = 0
      BY <1>2, <2>2
    <3> QED BY <3>1
  <2> QED BY <2>1, <2>2
<1>5. MailsTyped'
  BY <1>0, <1>2, <1>3, <1>4 DEF MailsTyped
<1>6. hard \subseteq DOMAIN mails /\ \A i \in hard : Bounced(mails[i])
  BY DEF Page, FailedMails, HasHardBounceFlag, Bounced
<1>7. \A i \in DOMAIN mails : Bounced(mails[i]) /\ Since <= mails[i].sentAt /\ start <= Place(i) =>
        i \in hard \/ (next <= Place(i) /\ Place(i) < Cardinality(FailedMails))
  <2> SUFFICES ASSUME NEW i \in DOMAIN mails, Bounced(mails[i]), Since <= mails[i].sentAt, start <= Place(i),
                      i \notin hard
               PROVE  next <= Place(i) /\ Place(i) < Cardinality(FailedMails)
    OBVIOUS
  <2>1. Since \in Int
    BY <1>0 DEF Since
  <2>2. i \in FailedMails
    BY <1>0, <2>1 DEF FailedMails, Bounced
  <2>3. Place(i) \in Nat /\ Place(i) < Cardinality(FailedMails)
    BY <1>0, <2>2, PlacesOnList
  <2>4. Place(i) \notin start .. next - 1
    BY <2>2 DEF Page, HasHardBounceFlag, Bounced
  <2> HIDE DEF start, next
  <2> QED BY <1>0, <2>3, <2>4
<1>8. \A i \in DOMAIN mails : next <= Place(i) /\ Place(i) < Cardinality(FailedMails) => ~polled'
  <2> SUFFICES ASSUME NEW i \in DOMAIN mails, next <= Place(i), Place(i) < Cardinality(FailedMails)
               PROVE  FullPage(bouncePage)
    BY <1>2
  <2>1. Place(i) \in Nat /\ Cardinality(FailedMails) \in Nat
    BY <1>0, PlacesOnList
  <2>2. next <= Cardinality(FailedMails)
    <3> HIDE DEF next
    <3> QED BY <1>0, <2>1
  <2> QED BY <2>2 DEF FullPage
<1>9. FailedMails' = FailedMails
  BY <1>2 DEF FailedMails, Since
<1>10. \A i \in DOMAIN mails : Place(i)' = Place(i)
  BY <1>9 DEF Place
<1>11. Awaited'
  <2> SUFFICES ASSUME NEW i \in DOMAIN mails, SeenInTime(mails[i])', mails[i].to \notin listed'
               PROVE  StillToRead(i)'
    BY <1>2 DEF Awaited
  <2>1. SeenInTime(mails[i]) /\ mails[i].to \notin listed
    BY <1>0, <1>1, <1>2, <1>3 DEF SeenInTime
  <2>2. StillToRead(i)
    BY <2>1 DEF MailInv, Awaited
  <2> DEFINE due == mails[i].flagAge + 1 + mailFaults
             age == hour - mails[i].sentAt
             dueThen == mails[i].flagAge + 1 + mailFaults'
  <2>3. age \in Int /\ due \in Int /\ dueThen \in Int /\ due <= dueThen /\ (lost # {} => due < dueThen)
    BY <1>0, <1>3
  <2>4. StillToRead(i)' <=> age < dueThen \/ (age = dueThen /\ ~polled' /\ bouncePage' * BouncePageSize <= Place(i))
    <3>1. Place(i) \in Nat /\ bouncePage' * BouncePageSize \in Int
      BY <1>0, <1>4, SuppressionAssumption, PlacesOnList
    <3> QED BY <1>2, <1>10, <3>1 DEF StillToRead
  <2>5. age < due \/ (age = due /\ start <= Place(i))
    <3>1. Place(i) \in Nat
      BY <1>0, PlacesOnList
    <3> QED BY <1>0, <2>2, <3>1 DEF StillToRead
  <2>6. due <= BounceWindow
    BY <2>1 DEF SeenInTime
  <2> HIDE DEF dueThen, start, next, bounced, hard
  <2>7. CASE age < due
    <3> HIDE DEF age, due
    <3> QED BY <2>3, <2>4, <2>7
  <2>8. CASE age = due /\ start <= Place(i)
    <3>1. Since <= mails[i].sentAt
      BY <1>0, <1>3, <2>6, <2>8 DEF Since
    <3>2. CASE i \in hard
      <4>1. lost # {}
        BY <1>1, <3>2 DEF bounced
      <4> HIDE DEF age, due
      <4> QED BY <2>3, <2>4, <2>8, <4>1
    <3>3. CASE next <= Place(i) /\ Place(i) < Cardinality(FailedMails)
      <4>1. ~polled' /\ bouncePage' * BouncePageSize <= Place(i)
        BY <1>4, <1>8, <3>3
      <4> HIDE DEF age, due
      <4> QED BY <2>3, <2>4, <2>8, <4>1
    <3>4. Bounced(mails[i])
      BY <2>1 DEF SeenInTime
    <3> QED BY <1>7, <2>8, <3>1, <3>2, <3>3, <3>4
  <2> QED BY <2>5, <2>7, <2>8
<1>12. OnlyUnreachable'
  <2>1. \A a \in bounced : \E i \in DOMAIN mails : mails[i].to = a /\ Bounced(mails[i])
    BY <1>6
  <2> QED BY <1>1, <1>2, <2>1 DEF MailInv, OnlyUnreachable
<1>13. NotMailedAgain'
  <2>1. \A i \in DOMAIN mails : SeenInTime(mails[i])' => SeenInTime(mails[i])
    BY <1>0, <1>2, <1>3 DEF SeenInTime
  <2>2. mailFaults > 0 => mailFaults' > 0
    BY <1>0, <1>3
  <2> QED BY <1>2, <2>1, <2>2 DEF MailInv, NotMailedAgain
<1> QED BY <1>5, <1>11, <1>12, <1>13 DEF MailInv

\* A poll that fails is counted, and a new hour polls from the first page.
LEMMA PollEndsKeeps == MailInv /\ (PollFails \/ NextHour) => MailInv'
<1> SUFFICES ASSUME MailInv, PollFails \/ NextHour PROVE MailInv'
  OBVIOUS
<1>0. /\ MailsTyped /\ \A i \in DOMAIN mails : mails[i].sentAt \in Nat /\ mails[i].flagAge \in Nat
      /\ hour \in Nat /\ mailFaults \in Nat
  <2>1. MailsTyped /\ \A i \in DOMAIN mails : mails[i] \in MailRow
    BY DEF MailInv, MailsTyped
  <2> QED BY <2>1 DEF MailsTyped, MailRow
<1>1. UNCHANGED <<mails, listed>>
  BY DEF PollFails, NextHour
<1>2. /\ mailFaults' \in Nat /\ mailFaults <= mailFaults'
      /\ MailsTyped'
  <2>1. CASE PollFails
    BY <1>0, <1>1, <2>1 DEF PollFails, MailsTyped
  <2>2. CASE NextHour
    <3>1. /\ hour' = hour + 1 /\ polled' = FALSE
          /\ UNCHANGED <<mails, bouncePage, mailFaults>>
      BY <2>2 DEF NextHour
    <3>2. \A i \in DOMAIN mails : mails[i].sentAt + mails[i].flagAge <= hour + 1
      BY <1>0 DEF MailsTyped
    <3>3. polled' \in BOOLEAN /\ ~polled'
      BY <3>1, Zenon
    <3>4. hour' \in Nat
      BY <1>0, <3>1
    <3> QED BY <1>0, <3>1, <3>2, <3>3, <3>4 DEF MailsTyped
  <2> QED BY <2>1, <2>2
<1>3. \A i \in DOMAIN mails : SeenInTime(mails[i])' => SeenInTime(mails[i])
  BY <1>0, <1>1, <1>2, SuppressionAssumption DEF SeenInTime
<1>4. ASSUME NEW i \in DOMAIN mails, StillToRead(i)
      PROVE  StillToRead(i)'
  <2>1. CASE PollFails
    BY <1>0, <1>1, <1>4, <2>1 DEF PollFails, StillToRead
  <2>2. CASE NextHour
    <3>1. bouncePage' * BouncePageSize = 0
      BY <1>0, <2>2, SuppressionAssumption DEF NextHour, MailsTyped
    <3>2. Place(i)' \in Nat
      <4>1. DOMAIN mails = 1..Len(mails) /\ Len(mails) \in Nat
        BY <1>0 DEF MailsTyped
      <4>2. FailedMails' \in SUBSET (1..Len(mails))
        BY <1>1, <4>1 DEF FailedMails
      <4> QED BY <4>1, <4>2, PlacesIn DEF Place
    <3> QED BY <1>0, <1>1, <1>4, <2>2, <3>1, <3>2 DEF NextHour, StillToRead
  <2> QED BY <2>1, <2>2
<1>5. Awaited'
  BY <1>1, <1>3, <1>4 DEF MailInv, Awaited
<1>6. OnlyUnreachable' /\ NotMailedAgain'
  <2>1. mailFaults > 0 => mailFaults' > 0
    BY <1>0, <1>2
  <2> QED BY <1>1, <1>3, <2>1 DEF MailInv, OnlyUnreachable, NotMailedAgain
<1> QED BY <1>2, <1>5, <1>6 DEF MailInv

LEMMA MailStep == MailInv /\ [SuppressionNext]_mailVars => MailInv'
<1> SUFFICES ASSUME MailInv, [SuppressionNext]_mailVars PROVE MailInv'
  OBVIOUS
<1>1. CASE UNCHANGED mailVars
  <2>1. UNCHANGED <<mails, listed, hour, bouncePage, polled, mailFaults>>
    BY <1>1 DEF mailVars
  <2> QED BY <2>1 DEF MailInv, MailsTyped, Awaited, OnlyUnreachable, NotMailedAgain, SeenInTime,
                      StillToRead, Place, FailedMails, Since
<1> QED BY <1>1, DispatchKeeps, FlagKeeps, PollHardBouncesKeeps, PollEndsKeeps DEF SuppressionNext

LEMMA AwaitedLand == MailInv => BouncesLand
<1> SUFFICES ASSUME MailInv, NEW i \in DOMAIN mails, SeenInTime(mails[i]), mails[i].to \notin listed,
                    LET due == mails[i].flagAge + 1 + mailFaults
                        age == hour - mails[i].sentAt
                    IN age > due \/ (age = due /\ polled)
             PROVE  FALSE
  BY DEF BouncesLand
<1>1. StillToRead(i)
  BY DEF MailInv, Awaited
<1>2. mails[i] \in MailRow /\ hour \in Nat /\ mailFaults \in Nat
  BY DEF MailInv, MailsTyped
<1>3. mails[i].sentAt \in Nat /\ mails[i].flagAge \in Nat
  BY <1>2 DEF MailRow
<1> QED BY <1>1, <1>2, <1>3 DEF StillToRead

(* For any number of mails, hours and faults, and any window and page      *)
(* size: a bounce is listed by the first poll after it became known, or    *)
(* one poll later for each fault, as long as its mail is still in the      *)
(* window then; nobody else is listed; and without a fault no mail goes to *)
(* an address an hour after its bounce became known.                       *)
THEOREM SuppressionIsSound == SuppressionSpec => []SuppressionSound
<1>1. MailInv /\ [SuppressionNext]_mailVars => MailInv'
  BY MailStep
<1>2. MailInv => SuppressionSound
  BY AwaitedLand DEF MailInv, SuppressionSound
<1> QED BY <1>1, <1>2, MailStart, PTL DEF SuppressionSpec
=============================================================================
