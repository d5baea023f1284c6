----------------------------- MODULE TokenBucket -----------------------------
(***************************************************************************)
(* What a rate limiter promises: every key has a bucket that is never      *)
(* forgotten.  It holds at most Burst tokens and gains one every Period    *)
(* ticks of the clock; a request is granted exactly when a whole token is  *)
(* left, and takes it.  The bucket counts in parts of a token, one per     *)
(* tick.                                                                   *)
(***************************************************************************)
EXTENDS Naturals

CONSTANTS Keys,      \* client addresses or user identifiers
          Callers,   \* requests
          Burst, Period

VARIABLES bucket,    \* [Keys -> 0 .. Full]
          answer     \* [Callers -> "none" | "granted" | "refused"]

bucketVars == <<bucket, answer>>

Full == Burst * Period
Refilled(n) == IF n < Full THEN n + 1 ELSE n

BucketInit ==
  /\ bucket = [k \in Keys |-> Full]
  /\ answer = [c \in Callers |-> "none"]

Grant(c, k) ==
  /\ answer[c] = "none" /\ bucket[k] >= Period
  /\ bucket' = [bucket EXCEPT ![k] = @ - Period]
  /\ answer' = [answer EXCEPT ![c] = "granted"]

Refuse(c, k) ==
  /\ answer[c] = "none" /\ bucket[k] < Period
  /\ answer' = [answer EXCEPT ![c] = "refused"]
  /\ UNCHANGED bucket

Finish(c) ==
  /\ answer' = [answer EXCEPT ![c] = "none"]
  /\ UNCHANGED bucket

Refill ==
  /\ bucket' = [k \in Keys |-> Refilled(bucket[k])]
  /\ UNCHANGED answer

BucketNext ==
  \/ \E c \in Callers : Finish(c) \/ \E k \in Keys : Grant(c, k) \/ Refuse(c, k)
  \/ Refill

BucketSpec == BucketInit /\ [][BucketNext]_bucketVars
==============================================================================
