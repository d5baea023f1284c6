-------------------------------- MODULE PubSub --------------------------------
(***************************************************************************)
(* The in-process broker (pkg/pubsub) and the subscription goroutines of   *)
(* the resolvers (OrderCreated, OrderUpdated, MyOrderUpdated, ...), which  *)
(* all have one shape.  Topics share nothing but the broker's lock, so one *)
(* topic is modelled.                                                      *)
(*                                                                         *)
(* Publish holds the read lock while it offers the message to one channel  *)
(* after the other; an offer to a full channel is dropped.  Subscribe,     *)
(* Unsubscribe and Shutdown run under the write lock, one step each.       *)
(***************************************************************************)
EXTENDS Naturals, SequencesExt

CONSTANTS Publisher, Subscriber,
          MaxMessages      \* bound on the messages published

ASSUME PubSubAssumption == MaxMessages \in Nat

VARIABLES
  topic,       \* the channels of the topic, a sequence of subscribers
  inbox,       \* [Subscriber -> contents of its broker channel], capacity 1
  closed,      \* broker channels that have been closed
  down,        \* main has called Shutdown
  panicked,    \* a closed channel was sent to or closed again
  published,       \* number of messages so far: each has a number of its own
  current,     \* [Publisher -> the message it publishes, or 0]
  offering,    \* [Publisher -> channels still to be offered the message]
  readers,     \* publishers holding the read lock
  forwarder,   \* [Subscriber -> the resolver goroutine]
  carried,     \* [Subscriber -> the message its goroutine took from inbox]
  outbox,      \* [Subscriber -> contents of the channel to the client], capacity 1
  received,    \* [Subscriber -> the last message of each publisher its client got]
  cancelled    \* subscribers whose context is done

brokerVars == <<topic, inbox, closed, down, panicked, published, current, offering, readers,
          forwarder, carried, outbox, received, cancelled>>

ForwarderPhase == {"none", "listening", "sending", "leaving", "ended"}

BrokerInit ==
  /\ topic = <<>> /\ closed = {} /\ down = FALSE /\ panicked = FALSE
  /\ inbox = [s \in Subscriber |-> <<>>] /\ outbox = inbox
  /\ received = [s \in Subscriber |-> [p \in Publisher |-> 0]]
  /\ carried = inbox
  /\ published = 0 /\ current = [p \in Publisher |-> 0] /\ offering = [p \in Publisher |-> <<>>]
  /\ readers = {}
  /\ forwarder = [s \in Subscriber |-> "none"]
  /\ cancelled = {}

Broker == <<topic, inbox, closed, down, panicked>>
Publishing == <<published, current, offering, readers>>
Client == <<outbox, received>>

ForwarderGoes(s, phase) == forwarder' = [forwarder EXCEPT ![s] = phase]

\* Mutant of WriteLock: the lock is dropped around the sends.
NoWriteLock == TRUE

WriteLock == readers = {}

--------------------------------------------------------------------------------
(* Broker                                                                  *)

\* Mutant of Subscribe: the channel is registered by two callers.
SubscribeTwice(s) ==
  /\ forwarder[s] = "none" /\ WriteLock
  /\ topic' = topic \o <<s, s>>
  /\ ForwarderGoes(s, "listening")
  /\ UNCHANGED <<inbox, closed, down, panicked, Publishing, carried, Client, cancelled>>

Subscribe(s) ==
  /\ forwarder[s] = "none" /\ WriteLock
  /\ topic' = Append(topic, s)
  /\ ForwarderGoes(s, "listening")
  /\ UNCHANGED <<inbox, closed, down, panicked, Publishing, carried, Client, cancelled>>

BeginPublish(p) ==
  /\ p \notin readers /\ published < MaxMessages
  /\ published' = published + 1
  /\ current' = [current EXCEPT ![p] = published']
  /\ offering' = [offering EXCEPT ![p] = topic]
  /\ readers' = readers \cup {p}
  /\ UNCHANGED <<Broker, forwarder, carried, Client, cancelled>>

\* The channel's buffer holds one message.
Accepts(s) == inbox[s] = <<>>

\* select { case ch <- msg: default: }
Offer(p) ==
  /\ p \in readers /\ offering[p] # <<>>
  /\ LET s == Head(offering[p]) IN
       /\ panicked' = (panicked \/ s \in closed)
       /\ inbox' = IF Accepts(s) /\ s \notin closed
                   THEN [inbox EXCEPT ![s] = Append(@, <<p, current[p]>>)] ELSE inbox
  /\ offering' = [offering EXCEPT ![p] = Tail(@)]
  /\ UNCHANGED <<topic, closed, down, published, current, readers, forwarder, carried, Client, cancelled>>

EndPublish(p) ==
  /\ p \in readers /\ offering[p] = <<>>
  /\ readers' = readers \ {p}
  /\ current' = [current EXCEPT ![p] = 0]
  /\ UNCHANGED <<Broker, published, offering, forwarder, carried, Client, cancelled>>

\* A channel that Shutdown has already taken out of the topic is left alone.
Unsubscribe(s) ==
  /\ forwarder[s] = "leaving" /\ WriteLock
  /\ \/ /\ ~Contains(topic, s)
        /\ UNCHANGED <<topic, closed, panicked>>
     \/ \E i \in DOMAIN topic :
          /\ topic[i] = s /\ \A j \in 1 .. i - 1 : topic[j] # s
          /\ topic' = RemoveAt(topic, i)
          /\ closed' = closed \cup {s}
          /\ panicked' = (panicked \/ s \in closed)
  /\ ForwarderGoes(s, "ended")
  /\ UNCHANGED <<inbox, down, Publishing, carried, Client, cancelled>>

\* Mutant of AfterShutdown: the channels are closed but stay in the topic.
KeepTopic == topic

AfterShutdown == <<>>

Shutdown ==
  /\ WriteLock /\ ~down
  /\ down' = TRUE
  /\ panicked' = (panicked \/ ToSet(topic) \cap closed # {})
  /\ closed' = closed \cup ToSet(topic)
  /\ topic' = AfterShutdown
  /\ UNCHANGED <<inbox, Publishing, forwarder, carried, Client, cancelled>>

--------------------------------------------------------------------------------
(* Subscription goroutine and client                                       *)

\* case msg, ok := <-sub.  A closed channel still yields what it buffers.
Receive(s) ==
  /\ forwarder[s] = "listening"
  /\ \/ /\ inbox[s] # <<>>
        /\ carried' = [carried EXCEPT ![s] = <<Head(inbox[s])>>]
        /\ inbox' = [inbox EXCEPT ![s] = Tail(@)]
        /\ ForwarderGoes(s, "sending")
     \/ /\ inbox[s] = <<>> /\ s \in closed
        /\ ForwarderGoes(s, "leaving")
        /\ UNCHANGED <<inbox, carried>>
  /\ UNCHANGED <<topic, closed, down, panicked, Publishing, Client, cancelled>>

\* case ch <- o
Forward(s) ==
  /\ forwarder[s] = "sending" /\ outbox[s] = <<>>
  /\ outbox' = [outbox EXCEPT ![s] = carried[s]]
  /\ carried' = [carried EXCEPT ![s] = <<>>]
  /\ ForwarderGoes(s, "listening")
  /\ UNCHANGED <<Broker, Publishing, received, cancelled>>

\* Mutant of SeesCancel: the inner select does not watch the context.
SeesCancelIdle(s) == forwarder[s] = "listening"

SeesCancel(s) == forwarder[s] \in {"listening", "sending"}

\* case <-ctx.Done()
Abandon(s) ==
  /\ s \in cancelled /\ SeesCancel(s)
  /\ ForwarderGoes(s, "leaving")
  /\ UNCHANGED <<Broker, Publishing, carried, Client, cancelled>>

\* The websocket transport, external: it reads until the context is done.
ClientReads(s) ==
  /\ outbox[s] # <<>> /\ s \notin cancelled
  /\ LET m == Head(outbox[s]) IN received' = [received EXCEPT ![s][m[1]] = m[2]]
  /\ outbox' = [outbox EXCEPT ![s] = <<>>]
  /\ UNCHANGED <<Broker, Publishing, forwarder, carried, cancelled>>

ClientGone(s) ==
  /\ forwarder[s] # "none" /\ s \notin cancelled
  /\ cancelled' = cancelled \cup {s}
  /\ UNCHANGED <<Broker, Publishing, forwarder, carried, Client>>

Publish(p) == Offer(p) \/ EndPublish(p)
ForwarderStep(s) == Receive(s) \/ Forward(s) \/ Abandon(s) \/ Unsubscribe(s)

BrokerNext ==
  \/ \E p \in Publisher : BeginPublish(p) \/ Publish(p)
  \/ \E s \in Subscriber : Subscribe(s) \/ ForwarderStep(s) \/ ClientReads(s) \/ ClientGone(s)
  \/ Shutdown

BrokerSpec == BrokerInit /\ [][BrokerNext]_brokerVars

\* Goroutines are scheduled, a waiting writer is not overtaken for ever by
\* readers (sync.RWMutex), and a client reads while its connection is up.
BrokerFairness ==
  /\ \A p \in Publisher : WF_brokerVars(Publish(p))
  /\ \A s \in Subscriber :
       /\ WF_brokerVars(Receive(s) \/ Forward(s)) /\ SF_brokerVars(Abandon(s))
       /\ SF_brokerVars(Unsubscribe(s)) /\ WF_brokerVars(ClientReads(s))

BrokerFairSpec == BrokerSpec /\ BrokerFairness

--------------------------------------------------------------------------------
(* Properties                                                              *)

IsMessage(m) == m[1] \in Publisher /\ m[2] \in 1 .. MaxMessages

AtMostOne(box) == \A s \in Subscriber : Len(box[s]) <= 1 /\ \A m \in ToSet(box[s]) : IsMessage(m)

BrokerTypeOK ==
  /\ ToSet(topic) \subseteq Subscriber /\ IsInjective(topic)
  /\ AtMostOne(inbox) /\ AtMostOne(outbox) /\ AtMostOne(carried)
  /\ closed \subseteq Subscriber /\ cancelled \subseteq Subscriber
  /\ down \in BOOLEAN /\ panicked \in BOOLEAN
  /\ published \in 0 .. MaxMessages /\ current \in [Publisher -> 0 .. MaxMessages]
  /\ readers \subseteq Publisher
  /\ forwarder \in [Subscriber -> ForwarderPhase]

\* "cannot close a subscriber channel mid-send": no interleaving of publishers,
\* leaving subscribers and shutdown sends to a closed channel or closes twice.
NeverPanics == ~panicked

\* What a client gets from one publisher comes in order and once, although
\* some of it may be dropped on the way.
InOrderPerPublisher ==
  [][\A s \in Subscriber : outbox[s] # <<>> /\ outbox'[s] = <<>>
       => LET m == Head(outbox[s]) IN m[2] > received[s][m[1]]]_brokerVars

\* A subscription's goroutine ends when its client has gone and when the broker,
\* which main shuts down before it waits for connections, has closed its channel;
\* whether it is waiting for a message or for room in the client's channel.
GoroutineEnds == \A s \in Subscriber : s \in cancelled \cup closed ~> forwarder[s] = "ended"
================================================================================
