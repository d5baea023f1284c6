------------------------------- MODULE Loaders -------------------------------
(***************************************************************************)
(* The data loaders (pkg/db/dataloader.go): resolvers that ask for what    *)
(* belongs to an order, a product or a user are answered together, by one  *)
(* query for all their keys.                                               *)
(*                                                                         *)
(* The middleware gives every HTTP request loaders of its own; a websocket *)
(* is one request, so that all the operations on it share them.  A loader  *)
(* remembers what it was asked for as long as it lives, also while the     *)
(* query runs, and also the errors.  Its locks, its batch and the sleeper  *)
(* that closes the batch are the library's.                                *)
(***************************************************************************)
EXTENDS Naturals, Sequences, FiniteSets

CONSTANTS LoadOps,        \* operations: queries, or events of a subscription
          ConnectionOf,   \* the request or the websocket each one is part of
          LoadKeys,       \* identifiers of orders
          BatchCapacity,  \* 100 in the code
          MaxWrites       \* writes to the rows of one key

Connections == {ConnectionOf[o] : o \in LoadOps}

VARIABLES rowsOf,     \* per key the version of its rows, 0 while there are none
          begun,      \* the operations that have begun
          floor,      \* what an operation found in the database when it began
          thunks,     \* per connection and key: what the loader remembers
          joining,    \* keys remembered, but in no batch yet
          batch,      \* per connection the batch that is filling
          flights,    \* batches being fetched
          fetches     \* per connection and key: how often it was fetched

loaderVars == <<rowsOf, begun, floor, thunks, joining, batch, flights, fetches>>

Unasked == [at |-> "unasked", of |-> "nothing", version |-> 0]
Pending == [at |-> "pending", of |-> "nothing", version |-> 0]
Failed == [at |-> "failed", of |-> "nothing", version |-> 0]
Answer(k, n) == [at |-> "answered", of |-> k, version |-> n]
NoRows == Answer("nothing", 0)

LoadersInit ==
  /\ rowsOf = [k \in LoadKeys |-> 0]
  /\ begun = {}
  /\ floor = [o \in LoadOps |-> [k \in LoadKeys |-> 0]]
  /\ thunks = [c \in Connections |-> [k \in LoadKeys |-> Unasked]]
  /\ joining = {}
  /\ batch = [c \in Connections |-> <<>>]
  /\ flights = {}
  /\ fetches = [c \in Connections |-> [k \in LoadKeys |-> 0]]
-----------------------------------------------------------------------------
\* Mutant of LoaderOf: the loaders are made once, for everybody.
SharedLoader(o) == CHOOSE c \in Connections : TRUE

\* The loaders an operation finds in its context.
LoaderOf(o) == ConnectionOf[o]

BeginOperation(o) ==
  /\ o \notin begun /\ begun' = begun \cup {o}
  /\ floor' = [floor EXCEPT ![o] = rowsOf]
  /\ UNCHANGED <<rowsOf, thunks, joining, batch, flights, fetches>>

\* A resolver asks for a key.  What the loader remembers, it does not fetch.
Load(o, k) ==
  LET c == LoaderOf(o) IN
  /\ o \in begun /\ thunks[c][k] = Unasked
  /\ thunks' = [thunks EXCEPT ![c][k] = Pending]
  /\ joining' = joining \cup {<<c, k>>}
  /\ UNCHANGED <<rowsOf, begun, floor, batch, flights, fetches>>

\* Its key joins the batch; a full batch leaves at once.
JoinBatch(c, k) ==
  LET full == Len(batch[c]) + 1 = BatchCapacity IN
  /\ <<c, k>> \in joining /\ joining' = joining \ {<<c, k>>}
  /\ batch' = [batch EXCEPT ![c] = IF full THEN <<>> ELSE Append(@, k)]
  /\ flights' = IF full THEN flights \cup {[on |-> c, keys |-> Append(batch[c], k)]}
                ELSE flights
  /\ UNCHANGED <<rowsOf, begun, floor, thunks, fetches>>

\* The others leave when the window closes.
CloseBatch(c) ==
  /\ batch[c] # <<>>
  /\ batch' = [batch EXCEPT ![c] = <<>>]
  /\ flights' = flights \cup {[on |-> c, keys |-> batch[c]]}
  /\ UNCHANGED <<rowsOf, begun, floor, thunks, joining, fetches>>
-----------------------------------------------------------------------------
\* The rows the database has for some keys, by key.
RowsByKey(keys) == [k \in {l \in keys : rowsOf[l] > 0} |-> Answer(k, rowsOf[k])]

KeysOf(s) == {s[i] : i \in DOMAIN s}

\* Mutant of Results: they are put together from the rows that were found.
ResultsFound(keys) ==
  LET data == RowsByKey(KeysOf(keys))
      found == SelectSeq(keys, LAMBDA k : k \in DOMAIN data)
  IN [i \in DOMAIN keys |-> IF i <= Len(found) THEN data[found[i]] ELSE NoRows]

\* One result per key, in the order of the keys, whatever the database has.
Results(keys) ==
  LET data == RowsByKey(KeysOf(keys))
  IN [i \in DOMAIN keys |-> IF keys[i] \in DOMAIN data THEN data[keys[i]] ELSE NoRows]

\* A query that fails, fails for all its keys: the database may be away, or the
\* operation that opened the batch be cancelled.
Failures(keys) == [i \in DOMAIN keys |-> Failed]

Fetch(f) ==
  /\ flights' = flights \ {f}
  /\ \E results \in {Results(f.keys), Failures(f.keys)} :
       thunks' = [thunks EXCEPT ![f.on] =
         [k \in LoadKeys |->
            IF k \in KeysOf(f.keys)
            THEN results[CHOOSE i \in DOMAIN f.keys : f.keys[i] = k] ELSE @[k]]]
  /\ fetches' = [fetches EXCEPT ![f.on] =
       [k \in LoadKeys |-> IF k \in KeysOf(f.keys) THEN @[k] + 1 ELSE @[k]]]
  /\ UNCHANGED <<rowsOf, begun, floor, joining, batch>>

\* Anybody writes to the database meanwhile.
WriteRows(k) ==
  /\ rowsOf[k] < MaxWrites
  /\ rowsOf' = [rowsOf EXCEPT ![k] = @ + 1]
  /\ UNCHANGED <<begun, floor, thunks, joining, batch, flights, fetches>>

LoadersNext ==
  \/ \E o \in LoadOps : BeginOperation(o) \/ \E k \in LoadKeys : Load(o, k)
  \/ \E c \in Connections : CloseBatch(c) \/ \E k \in LoadKeys : JoinBatch(c, k)
  \/ \E f \in flights : Fetch(f)
  \/ \E k \in LoadKeys : WriteRows(k)

LoadersSpec == LoadersInit /\ [][LoadersNext]_loaderVars
-----------------------------------------------------------------------------
Thunk == [at : {"unasked", "pending", "failed", "answered"},
          of : LoadKeys \cup {"nothing"}, version : 0..MaxWrites]

LoadersTypeOK ==
  /\ rowsOf \in [LoadKeys -> 0..MaxWrites]
  /\ begun \subseteq LoadOps
  /\ floor \in [LoadOps -> [LoadKeys -> 0..MaxWrites]]
  /\ thunks \in [Connections -> [LoadKeys -> Thunk]]
  /\ joining \subseteq Connections \X LoadKeys
  /\ \A c \in Connections : KeysOf(batch[c]) \subseteq LoadKeys
  /\ \A f \in flights : f.on \in Connections /\ KeysOf(f.keys) \subseteq LoadKeys

\* Where a key that is waited for may be.
Places(c, k) ==
  {<<"joining">> : p \in joining \cap {<<c, k>>}}
  \cup {<<"batch", i>> : i \in {j \in DOMAIN batch[c] : batch[c][j] = k}}
  \cup {<<"flight", f>> : f \in {g \in flights : g.on = c /\ k \in KeysOf(g.keys)}}

\* Nobody waits for a key that no query will answer, and no key is fetched twice.
NobodyForgotten ==
  \A c \in Connections, k \in LoadKeys :
    /\ thunks[c][k] = Pending => Cardinality(Places(c, k)) = 1
    /\ thunks[c][k] # Pending => Places(c, k) = {}
    /\ fetches[c][k] <= 1

\* Rows are handed to those who asked for them, not to their neighbours in a batch.
OwnRows ==
  \A c \in Connections, k \in LoadKeys : thunks[c][k].of \in {k, "nothing"}

\* An operation that has its connection for itself is not shown data older than
\* itself.  (On a websocket an operation may be: see the README.)
Alone(o) == \A p \in LoadOps : ConnectionOf[p] = ConnectionOf[o] => p = o
FreshRows ==
  \A o \in LoadOps, k \in LoadKeys :
    LET t == thunks[LoaderOf(o)][k] IN
    o \in begun /\ Alone(o) /\ t.at = "answered" => t.version >= floor[o][k]

\* What resolvers get from the loaders is complete, theirs and fresh, whoever else
\* asks at the same moment and whatever is written meanwhile.
LoadsSound == NobodyForgotten /\ OwnRows /\ FreshRows
=============================================================================
