-------------------------- MODULE MCIdempotencyGate --------------------------
(***************************************************************************)
(* Instances of IdempotencyGate for TLC: a retry (r1, r2) and a request    *)
(* with another code (r3) on one key, and a request on a second key, whose *)
(* arrival may collect the first key's entry.                              *)
(***************************************************************************)
EXTENDS IdempotencyGate, TLC

CONSTANTS k1, k2, c1, c2, r1, r2, r3, r4, e1, e2, e3, e4

MCKeyOf == r1 :> k1 @@ r2 :> k1 @@ r3 :> k1 @@ r4 :> k2
MCCodeOf == r1 :> c1 @@ r2 :> c1 @@ r3 :> c2 @@ r4 :> c1

\* The gate's own claim, with no regard to expiry: it "serializes concurrent
\* operations sharing the same primary key".
OperationsSerialized ==
  \A r, s \in Request : Busy(r) /\ Busy(s) /\ KeyOf[r] = KeyOf[s] => r = s
===============================================================================
