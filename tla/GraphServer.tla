----------------------------- MODULE GraphServer -----------------------------
(***************************************************************************)
(* A GraphQL request as the generated server runs it: who asks is settled  *)
(* by the middleware, then the selected fields are resolved object by      *)
(* object, each behind its directive, and a null where the schema has none *)
(* takes its object with it.                                               *)
(*                                                                         *)
(* A websocket carries one operation after the other, of every kind, for   *)
(* whoever it was opened for.  Operations that run side by side on it      *)
(* share nothing but that and the loaders (see Loaders): the model follows *)
(* one at a time.                                                          *)
(*                                                                         *)
(* The document is not fixed beforehand: at each object a step picks the   *)
(* next field, so every path of the schema is taken.  Fields of one object *)
(* are resolved side by side in the code; each of them only touches its    *)
(* own value, the count of nulls and the list of errors, so that an order  *)
(* of picks stands for the fields it picks.  Of a list one element is      *)
(* followed.                                                               *)
(***************************************************************************)
EXTENDS GraphSchema, Requests, Sequences, Naturals

CONSTANTS People,      \* customers, who are the owners of orders
          MaxPicks     \* fields of a document that are null or objects

VARIABLES session,     \* [principal, deadline] of the request or connection
          socket,      \* the request is a websocket's
          lapsed,      \* the token's expiry has passed
          serving,     \* the operation that runs, or "none", "open", "stream", "done"
          stream,      \* what a subscription delivers: a field and its owner
          frames,      \* the objects being executed, outermost first
          picks,
          ran          \* the root field whose resolver ran last

graphVars == <<session, socket, lapsed, serving, stream, frames, picks, ran>>
who == <<session, socket>>

Operations == {"Query", "Mutation", "Subscription"}
Credentials == [header : Bearers \cup {NoBearer}, cookie : Bearers \cup {NoBearer},
                params : Bearers \cup {NoBearer}]
NoStream == [field |-> "none", owner |-> "public"]
Frame(type, field, owner) ==
  [type |-> type, field |-> field, owner |-> owner, void |-> FALSE, error |-> FALSE]
Top == frames[Len(frames)]
WithTop(f) == [frames EXCEPT ![Len(frames)] = f]

GraphInit ==
  /\ session = [principal |-> Nobody, deadline |-> FALSE] /\ socket = FALSE
  /\ lapsed = FALSE /\ serving = "none" /\ stream = NoStream
  /\ frames = <<>> /\ picks = 0 /\ ran = "none"

\* POST and GET carry one query or mutation.
Serve(request, operation) ==
  /\ serving = "none" /\ operation # "Subscription"
  /\ session' = [principal |-> OptionalAuth(request), deadline |-> FALSE]
  /\ serving' = operation
  /\ frames' = <<Frame(operation, "data", "public")>>
  /\ UNCHANGED <<socket, lapsed, stream, picks, ran>>

\* A websocket is opened: who asks is settled now.
Connect(request) ==
  /\ serving = "none"
  /\ session' = InitFunc(request) /\ socket' = TRUE
  /\ serving' = "open"
  /\ UNCHANGED <<lapsed, stream, frames, picks, ran>>

\* The next operation of a websocket.
Operate(operation) ==
  /\ serving = "open"
  /\ serving' = operation
  /\ frames' = <<Frame(operation, "data", "public")>>
  /\ picks' = 0 /\ ran' = "none"
  /\ UNCHANGED <<who, lapsed, stream>>

\* What becomes of the request when an operation has ended.
AfterOperation == IF socket THEN "open" ELSE "done"

Expires ==
  /\ serving # "none" /\ session.principal.expires /\ ~lapsed
  /\ lapsed' = TRUE
  /\ UNCHANGED <<who, serving, stream, frames, picks, ran>>

\* The deadline of a connection that brought its token itself: whatever runs on it
\* is cancelled.
Deadline ==
  /\ serving # "done" /\ lapsed /\ session.deadline
  /\ serving' = "done" /\ stream' = NoStream /\ frames' = <<>>
  /\ UNCHANGED <<who, lapsed, picks, ran>>

\* The client ends its subscription.
Unsubscribe ==
  /\ serving = "stream" /\ frames = <<>>
  /\ serving' = AfterOperation /\ stream' = NoStream
  /\ UNCHANGED <<who, lapsed, frames, picks, ran>>
-----------------------------------------------------------------------------
\* Mutant of OwnerIs: the resolver trusts the identifier it was given.
OwnerAny(owner) == TRUE

\* myOrder and myOrderUpdated look an order up by its identifier.
OwnerIs(owner) == owner = session.principal.user

\* The root fields that return what is the caller's, what is looked up, and what is
\* the restaurant's to see.
OwnFields == {"me", "updateMe", "myOrders", "createOrder"}
LookedUpFields == {"myOrder", "myOrderUpdated"}
StaffFields ==
  {"orders", "order", "customerOrders", "orderHistory", "customerStats", "updateOrder",
   "updatePaymentStatus", "orderCreated", "orderUpdated"}

\* Whose data a root field returns.
Owners(field) ==
  CASE field \in OwnFields -> {session.principal.user}
    [] field \in LookedUpFields -> {s \in People : OwnerIs(s)}
    [] field \in StaffFields -> People
    [] OTHER -> {"public"}

\* What hangs off an object belongs to the same owner: the loaders are keyed on it.
OwnersBelow(field) == IF Len(frames) = 1 THEN Owners(field) ELSE {Top.owner}

\* A null where a value is required is reported, whoever returned it, and counted
\* by the object's executor.
Null(field, failed) ==
  LET required == FieldsOf[Top.type][field].required IN
  frames' = WithTop([Top EXCEPT !.void = @ \/ field \in VoidsOf[Top.type],
                                !.error = @ \/ failed \/ required])

Descend(field, owner) ==
  frames' = Append(frames, Frame(FieldsOf[Top.type][field].to, field, owner))


\* The resolver of a root field ran.
Ran(field) == ran' = IF Len(frames) = 1 THEN field ELSE ran

\* One field of the object on top.  A scalar that is there changes nothing.
ResolveField(field) ==
  LET f == FieldsOf[Top.type][field] IN
  /\ Top.type # "Subscription"
  /\ picks < MaxPicks /\ picks' = picks + 1
  /\ IF Permits(f.by, session.principal, lapsed)
     THEN /\ Ran(field)
          /\ \/ f.asks /\ Null(field, TRUE)
             \/ Null(field, FALSE)
             \/ f.to = "scalar" /\ frames' = frames
             \/ f.to # "scalar" /\ \E s \in OwnersBelow(field) : Descend(field, s)
     ELSE Null(field, TRUE) /\ UNCHANGED ran
  /\ UNCHANGED <<who, lapsed, serving, stream>>

\* The arguments do not fit the field's: its resolver is not asked.
BadArguments(field) ==
  /\ Len(frames) = 1 /\ serving \in {"Query", "Mutation"}
  /\ picks < MaxPicks /\ picks' = picks + 1
  /\ Null(field, TRUE)
  /\ UNCHANGED <<who, lapsed, serving, stream, ran>>

\* A subscription has exactly one field; its directive and its resolver run once,
\* when it starts.
Subscribe(field) ==
  LET f == FieldsOf.Subscription[field] IN
  /\ serving = "Subscription" /\ frames' = <<>>
  /\ IF Permits(f.by, session.principal, lapsed)
     THEN \/ \E s \in Owners(field) :
               /\ serving' = "stream" /\ stream' = [field |-> field, owner |-> s]
               /\ Ran(field)
          \/ serving' = AfterOperation /\ Ran(field) /\ UNCHANGED stream
     ELSE serving' = AfterOperation /\ UNCHANGED <<stream, ran>>
  /\ UNCHANGED <<who, lapsed, picks>>

\* A published object is executed for one subscriber, every time anew.
Event ==
  /\ serving = "stream" /\ frames = <<>>
  /\ picks' = 0
  /\ frames' = <<Frame("Subscription", "data", "public"),
                 Frame(FieldsOf.Subscription[stream.field].to, stream.field, stream.owner)>>
  /\ UNCHANGED <<who, lapsed, serving, stream, ran>>

\* An object is complete.  One with a null it must not have is null itself, and so
\* is the list it is an element of.
Complete ==
  /\ Len(frames) > 1
  /\ LET below == SubSeq(frames, 1, Len(frames) - 1)
         parent == below[Len(below)]
     IN frames' = [below EXCEPT ![Len(below)] =
          [parent EXCEPT !.void = @ \/ (Top.void /\ Top.field \in VoidsOf[parent.type]),
                         !.error = @ \/ Top.error]]
  /\ UNCHANGED <<who, lapsed, serving, stream, picks, ran>>

\* The response: data is null if the root object is.  A websocket stays open.
SendResponse ==
  /\ Len(frames) = 1 /\ serving \in {"Query", "Mutation", "stream"}
  /\ frames' = <<>>
  /\ serving' = IF serving = "stream" THEN "stream" ELSE AfterOperation
  /\ UNCHANGED <<who, lapsed, stream, picks, ran>>

GraphNext ==
  \/ \E request \in Credentials :
       Connect(request) \/ \E operation \in Operations : Serve(request, operation)
  \/ \E operation \in Operations : Operate(operation)
  \/ Expires \/ Deadline \/ Unsubscribe \/ Event \/ Complete \/ SendResponse
  \/ frames # <<>> /\ \E field \in DOMAIN FieldsOf[Top.type] : ResolveField(field) \/ BadArguments(field)
  \/ serving = "Subscription" /\ \E field \in DOMAIN FieldsOf.Subscription : Subscribe(field)

GraphSpec == GraphInit /\ [][GraphNext]_graphVars
-----------------------------------------------------------------------------
\* What customers have, what only the restaurant sees, and what is nobody's.
Personal == {"User", "Order", "OrderItem", "Payment", "OrderItemSelection"}
BackOffice ==
  {"Coupon", "OrderStatusHistory", "OrderHistoryResponse", "OrderHistorySummary",
   "CustomerStatsResponse", "CustomerStatsSummary", "CustomerStats"}
Shared == DOMAIN FieldsOf \ (Personal \cup {"OrderHistoryResponse"} \cup Operations)

\* The facts of the schema that keep data apart; TLC evaluates them.  The types of
\* nobody's data lead to no others, what only the restaurant sees is behind its
\* directives, and so are the fields that return anybody's data; executors and
\* fields agree on which nulls are errors.
ASSUME SchemaAssumption ==
  /\ Operations \subseteq DOMAIN FieldsOf /\ "scalar" \notin DOMAIN FieldsOf
  /\ \A t \in DOMAIN FieldsOf : \A f \in DOMAIN FieldsOf[t] :
       /\ FieldsOf[t][f].to \in (DOMAIN FieldsOf \ Operations) \cup {"scalar"}
       /\ FieldsOf[t][f].required \in BOOLEAN
       /\ t # "Subscription" => (f \in VoidsOf[t] <=> FieldsOf[t][f].required)
       /\ t \in Shared => FieldsOf[t][f].to \in Shared \cup {"scalar"}
       /\ FieldsOf[t][f].to \in BackOffice =>
            t \in BackOffice \/ FieldsOf[t][f].by \in {"admin", "staff"}
  /\ \A t \in Operations : \A f \in DOMAIN FieldsOf[t] :
       /\ f \in StaffFields => FieldsOf[t][f].by \in {"admin", "staff"}
       /\ f \in StaffFields \cup LookedUpFields \cup OwnFields
            \/ FieldsOf[t][f].to \in Shared \cup {"scalar"}
  /\ \A f \in DOMAIN FieldsOf.Mutation :
       /\ FieldsOf.Mutation[f].by \in {"auth", "admin", "staff"}
       /\ f \notin DOMAIN FieldsOf.Query \cup DOMAIN FieldsOf.Subscription \cup {"none"}
  /\ \A f \in DOMAIN FieldsOf.Subscription : FieldsOf.Subscription[f].to # "scalar"
  /\ VoidsOf.Subscription = {}

\* "public" is nobody's identifier.
ASSUME PeopleAssumption ==
  "public" \notin People \cup {t.subject : t \in Bearers} /\ NoBearer \notin Bearers

-----------------------------------------------------------------------------
GraphTypeOK ==
  /\ session \in [principal : [user : STRING, admin : BOOLEAN, expires : BOOLEAN],
                  deadline : BOOLEAN]
  /\ socket \in BOOLEAN /\ lapsed \in BOOLEAN /\ picks \in 0..MaxPicks
  /\ serving \in {"none", "open", "stream", "done"} \cup Operations
  /\ stream.field \in DOMAIN FieldsOf.Subscription \cup {"none"}
  /\ ran \in {"none"} \cup UNION {DOMAIN FieldsOf[t] : t \in Operations}
  /\ \A i \in DOMAIN frames :
       /\ frames[i].type \in DOMAIN FieldsOf
       /\ {frames[i].void, frames[i].error} \subseteq BOOLEAN
  \* A field leads to the type of the object above it.
  /\ \A i \in 2..Len(frames) :
       FieldsOf[frames[i - 1].type][frames[i].field].to = frames[i].type

\* Who may really be behind a request: the devices and the customers with a user.
Genuine(p) ==
  p = Nobody \/ \E t \in Bearers :
    \/ t.issuer = "pos" /\ p = Principal(t.subject, TRUE, t)
    \/ t.issuer = "zitadel" /\ t.known /\ p = Principal(t.subject, t.admin, t)

\* Whatever path a document takes through the schema, and whether it is answered
\* once or streamed, the data of a customer is only shown to that customer and to
\* the restaurant, what the restaurant keeps to itself is shown to nobody else, and
\* nobody unknown runs a mutation; and no one is taken for somebody whose token was
\* not verified and resolved to a user.
NobodyElsesData ==
  LET p == session.principal IN
  /\ Genuine(p)
  /\ \A i \in DOMAIN frames :
       /\ frames[i].type \in Personal => frames[i].owner # "public"
       /\ frames[i].owner \in {"public", p.user} \/ p.admin
       /\ frames[i].type \in BackOffice => p.admin
  /\ ran \in DOMAIN FieldsOf.Mutation => p.user # ""
=============================================================================
