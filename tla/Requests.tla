------------------------------ MODULE Requests ------------------------------
(***************************************************************************)
(* Whom a request speaks for: the middleware's tokens (oidc.go), the       *)
(* connection parameters of a websocket (resolver.go, InitFunc) and the    *)
(* directives in front of the resolvers (directives/).                     *)
(*                                                                         *)
(* A token is [issuer, subject, admin, known, expires]: who signed it      *)
(* ("zitadel", "pos", or "nobody" if it does not verify), for which user   *)
(* or device, whether it carries the admin role, whether its subject can   *)
(* be resolved to a user, and whether it has a readable expiry.            *)
(***************************************************************************)
CONSTANTS Bearers, NoBearer

Nobody == [user |-> "", admin |-> FALSE, expires |-> FALSE]

Principal(user, admin, token) ==
  [user |-> user, admin |-> admin, expires |-> token.expires]

\* The Authorization header, and the cookie only if there is none.
ExtractToken(request) ==
  IF request.header # NoBearer THEN request.header ELSE request.cookie

VerifyAndSetContext(token) ==
  IF token.issuer = "zitadel" /\ token.known
  THEN Principal(token.subject, token.admin, token) ELSE Nobody

\* A handheld is an administrator.
TryVerifyAppJWT(token) ==
  IF token.issuer = "pos" THEN Principal(token.subject, TRUE, token) ELSE Nobody

OptionalAuth(request) ==
  LET token == ExtractToken(request) IN
  IF token = NoBearer THEN Nobody
  ELSE IF VerifyAndSetContext(token) # Nobody THEN VerifyAndSetContext(token)
       ELSE TryVerifyAppJWT(token)

\* Mutant of Unresolved: the provider's own identifier is taken for the user's.
UnresolvedSubject(token) == Principal(token.subject, token.admin, token)

\* A subject that has no user is not let in under the provider's identifier.
Unresolved(token) == Nobody

VerifyToken(token) ==
  CASE token.issuer = "pos" -> TryVerifyAppJWT(token)
    [] token.issuer = "zitadel" ->
         IF token.known THEN VerifyAndSetContext(token) ELSE Unresolved(token)
    [] OTHER -> Nobody

\* A websocket keeps the user of its HTTP request; only one that brings its token
\* in the connection parameters ends with it (deadline).
InitFunc(request) ==
  LET http == OptionalAuth(request) IN
  IF http.user # "" \/ request.params = NoBearer
  THEN [principal |-> http, deadline |-> FALSE]
  ELSE LET p == VerifyToken(request.params)
       IN [principal |-> p, deadline |-> p.expires]

\* The directives, in the order of their checks.
Auth(p, expired) == p.user # "" /\ ~(p.expires /\ expired)
Admin(p, expired) == Auth(p, expired) /\ p.admin
Staff(p, expired) == Admin(p, expired)
Permits(directive, p, expired) ==
  CASE directive = "auth" -> Auth(p, expired)
    [] directive = "admin" -> Admin(p, expired)
    [] directive = "staff" -> Staff(p, expired)
    [] OTHER -> TRUE
=============================================================================
