---------------------------- MODULE IdempotencyGate ----------------------------
(***************************************************************************)
(* internal/api/auth/idempotency.go and the two handlers behind it         *)
(* (VerifyOtpHandler, FinalizeOIDCHandler).  A request finds the entry of  *)
(* its key under the gate's mutex, then waits for the entry's own mutex,   *)
(* and between the two a garbage collection may drop the entry.  Upstream  *)
(* is Zitadel, external: it accepts the live code of a key once.           *)
(*                                                                         *)
(* Codes stand for the fingerprints: the OTP code of a session, or the     *)
(* session that finalizes an auth request.  expiry says whether a          *)
(* behaviour is long enough for a cached response to expire.               *)
(***************************************************************************)
EXTENDS Naturals

CONSTANTS Key, Code, Entry, Request,
          KeyOf,               \* [Request -> Key]
          CodeOf,              \* [Request -> Code]
          NoEntry, NoCode, NoRequest

ASSUME GateAssumption ==
  /\ KeyOf \in [Request -> Key] /\ CodeOf \in [Request -> Code]
  /\ NoEntry \notin Entry /\ NoCode \notin Code /\ NoRequest \notin Request

VARIABLES
  entries,     \* the gate's map: [Key -> Entry or NoEntry]
  cached,      \* [Entry -> fingerprint of its response, or NoCode]
  expired,     \* the entries whose response is too old
  holder,      \* [Entry -> the request that holds its mutex]
  allocated,   \* entries created so far: a dropped one may still be referenced
  gateAt,          \* where each request is
  entry,       \* the entry each request looked up
  liveCode,        \* Zitadel: [Key -> the code it would accept now, or NoCode]
  expiry

gateVars == <<entries, cached, expired, holder, allocated, gateAt, entry, liveCode, expiry>>

GateAnswer == {"ok", "refused", "unavailable"}
GatePhase == {"idle", "waiting", "holding", "upstream"} \cup GateAnswer

GateInit ==
  /\ entries = [k \in Key |-> NoEntry]
  /\ cached = [e \in Entry |-> NoCode] /\ expired = {}
  /\ holder = [e \in Entry |-> NoRequest]
  /\ allocated = {}
  /\ gateAt = [r \in Request |-> "idle"] /\ entry = [r \in Request |-> NoEntry]
  /\ liveCode \in [Key -> Code \cup {NoCode}]
  /\ expiry \in BOOLEAN

GateGoto(r, phase) == gateAt' = [gateAt EXCEPT ![r] = phase]

\* gcLocked: TryLock skips the entries that are held.
Collected(k) ==
  entries[k] # NoEntry /\ holder[entries[k]] = NoRequest /\ entries[k] \in expired

Kept == [k \in Key |-> IF Collected(k) THEN NoEntry ELSE entries[k]]

\* Mutant of Lookup: a missing entry is not created.
LookupOnly(r, e) ==
  /\ entry' = [entry EXCEPT ![r] = Kept[KeyOf[r]]]
  /\ entries' = Kept
  /\ UNCHANGED allocated

\* Entries are interchangeable: which one is new does not matter.
Unused == CHOOSE e \in Entry : e \notin allocated

\* The entry of the request's key, a new one if there is none.
Lookup(r, e) ==
  LET k == KeyOf[r] IN
  /\ IF Kept[k] # NoEntry
     THEN e = Kept[k] /\ UNCHANGED allocated
     ELSE e = Unused /\ allocated' = allocated \cup {e}
  /\ entries' = [Kept EXCEPT ![k] = e]
  /\ entry' = [entry EXCEPT ![r] = e]

\* acquire, under g.mu.
Acquire(r) ==
  /\ gateAt[r] = "idle"
  /\ Kept[KeyOf[r]] # NoEntry \/ allocated # Entry
  /\ \E e \in Entry : Lookup(r, e)
  /\ GateGoto(r, "waiting")
  /\ UNCHANGED <<cached, expired, holder, liveCode, expiry>>

\* Mutant of Free: the entry has no mutex of its own.
AlwaysFree(e) == TRUE

Free(e) == holder[e] = NoRequest

\* acquire, e.mu.Lock() after g.mu has been released.
Enter(r) ==
  /\ gateAt[r] = "waiting" /\ Free(entry[r])
  /\ holder' = [holder EXCEPT ![entry[r]] = r]
  /\ GateGoto(r, "holding")
  /\ UNCHANGED <<entries, cached, expired, allocated, entry, liveCode, expiry>>

\* Mutants of Hit: the cache is not consulted; the fingerprint is not compared.
AlwaysMiss(r) == FALSE
HitAny(r) == cached[entry[r]] # NoCode /\ entry[r] \notin expired

Hit(r) == cached[entry[r]] = CodeOf[r] /\ entry[r] \notin expired

\* Mutant of Release: the early return of a hit is not covered by a defer.
ReleaseUnlessHit(r) ==
  holder' = IF gateAt[r] = "holding" THEN holder ELSE [holder EXCEPT ![entry[r]] = NoRequest]

Release(r) == holder' = [holder EXCEPT ![entry[r]] = NoRequest]

CheckCache(r) ==
  /\ gateAt[r] = "holding"
  /\ IF Hit(r) THEN GateGoto(r, "ok") /\ Release(r)
               ELSE GateGoto(r, "upstream") /\ UNCHANGED holder
  /\ UNCHANGED <<entries, cached, expired, allocated, entry, liveCode, expiry>>

\* Mutant of Accepted: the upstream status is not looked at.
AcceptedAny(r) == TRUE

Accepted(r) == liveCode[KeyOf[r]] = CodeOf[r]

\* The code is consumed, the response cached, and the mutex released.
Succeed(r) ==
  /\ gateAt[r] = "upstream" /\ Accepted(r)
  /\ liveCode' = [liveCode EXCEPT ![KeyOf[r]] = NoCode]
  /\ cached' = [cached EXCEPT ![entry[r]] = CodeOf[r]]
  /\ expired' = expired \ {entry[r]}
  /\ GateGoto(r, "ok") /\ Release(r)
  /\ UNCHANGED <<entries, allocated, entry, expiry>>

\* A failure is not cached.
Refuse(r) ==
  /\ gateAt[r] = "upstream" /\ ~Accepted(r)
  /\ GateGoto(r, "refused") /\ Release(r)
  /\ UNCHANGED <<entries, cached, expired, allocated, entry, liveCode, expiry>>

\* Upstream cannot be reached, or its answer is lost after it took the code.
Unavailable(r) ==
  /\ gateAt[r] = "upstream"
  /\ \/ UNCHANGED liveCode
     \/ Accepted(r) /\ liveCode' = [liveCode EXCEPT ![KeyOf[r]] = NoCode]
  /\ GateGoto(r, "unavailable") /\ Release(r)
  /\ UNCHANGED <<entries, cached, expired, allocated, entry, expiry>>

ExpireResponse(e) ==
  /\ expiry /\ cached[e] # NoCode
  /\ expired' = expired \cup {e}
  /\ UNCHANGED <<entries, cached, holder, allocated, gateAt, entry, liveCode, expiry>>

\* Zitadel sends the customer a new code.
Issue(k) ==
  /\ liveCode' \in {[liveCode EXCEPT ![k] = c] : c \in Code}
  /\ UNCHANGED <<entries, cached, expired, holder, allocated, gateAt, entry, expiry>>

GateStep(r) == Enter(r) \/ CheckCache(r) \/ Succeed(r) \/ Refuse(r) \/ Unavailable(r)

GateNext ==
  \/ \E r \in Request : Acquire(r) \/ GateStep(r)
  \/ \E e \in Entry : ExpireResponse(e)
  \/ \E k \in Key : Issue(k)

GateSpec == GateInit /\ [][GateNext]_gateVars

--------------------------------------------------------------------------------
(* Properties                                                              *)

GateTypeOK ==
  /\ entries \in [Key -> Entry \cup {NoEntry}]
  /\ cached \in [Entry -> Code \cup {NoCode}]
  /\ expired \subseteq allocated /\ allocated \subseteq Entry
  /\ holder \in [Entry -> Request \cup {NoRequest}]
  /\ gateAt \in [Request -> GatePhase]
  /\ entry \in [Request -> Entry \cup {NoEntry}]
  /\ \A r \in Request : gateAt[r] # "idle" => entry[r] # NoEntry
  /\ liveCode \in [Key -> Code \cup {NoCode}]
  /\ expiry \in BOOLEAN

Busy(r) == gateAt[r] \in {"holding", "upstream"}

\* "idempotencyGate serializes concurrent operations sharing the same primary
\* key": two requests of one key are never both past the gate, as long as no
\* response expires.
Serialized ==
  \A r, s \in Request : Busy(r) /\ Busy(s) /\ KeyOf[r] = KeyOf[s] => r = s \/ expiry

\* Some entry that a request of key k found holds the response to code c.
Fresh(k, c) ==
  \E r \in Request : KeyOf[r] = k /\ entry[r] # NoEntry
                       /\ cached[entry[r]] = c /\ entry[r] \notin expired

\* A duplicate of a request that succeeded a moment ago is not refused.
DuplicateNotRefused ==
  [][\A r \in Request : gateAt'[r] = "refused" /\ gateAt[r] # "refused" /\ ~expiry
        => ~Fresh(KeyOf[r], CodeOf[r])]_gateVars

\* r repeats, with the same key and code, a request that Zitadel accepted.
Repeats(r) ==
  \E s \in Request \ {r} : KeyOf[s] = KeyOf[r] /\ CodeOf[s] = CodeOf[r] /\ gateAt[s] = "ok"

\* Only Zitadel says "ok", to a request or to an earlier one that it repeats: a
\* wrong code never profits from the right one's response, nor from another key's,
\* however entries are collected, made anew and expire.
OkIsEarned ==
  [][\A r \in Request : gateAt'[r] = "ok" /\ gateAt[r] # "ok"
        => Repeats(r) \/ liveCode[KeyOf[r]] = CodeOf[r]]_gateVars

\* Whoever holds an entry's mutex is still at work: every way out of the gate,
\* hit or miss, success or failure, gives it back, so nobody waits for ever.
MutexGivenBack == \A e \in Entry : holder[e] # NoRequest => Busy(holder[e])

\* The gate lets one request of a key in at a time and leaves no entry locked.
GateSound == Serialized /\ MutexGivenBack

\* Answers are earned: a duplicate of a success is not refused, and nobody
\* succeeds on the response to another code.
AnswersEarned == DuplicateNotRefused /\ OkIsEarned
================================================================================
