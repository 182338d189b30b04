------------------------------- MODULE Access -------------------------------
(***************************************************************************)
(* Who may call what: API tokens, HTTP authentication and the role check.  *)
(*                                                                         *)
(* A token is a row of api_tokens: the roles and scopes it was created     *)
(* with, an expiry or none, and whether it was revoked.  A request         *)
(* presents a token, the administrator's credential or nothing, and takes  *)
(* the identity it gets through its whole call.  A guarded tool needs a    *)
(* role that the caller selects, that the identity has and that the tool   *)
(* allows.  Credentials are compared by their hash: a presented token is   *)
(* the row it belongs to.                                                  *)
(***************************************************************************)
EXTENDS Integers

CONSTANTS Role,   \* well-formed role names
          Token   \* rows that api_tokens may hold

\* What a request may present, and what it may select as its role: nothing,
\* or a value that is no role name or stands where the route does not take it.
Credentials == Token \cup {"admin", "none"}
Selectors   == Role \cup {"absent", "malformed"}

-----------------------------------------------------------------------------
(* Tokens *)

\* expires is 0 for a token without an expiry.
NoRow == [stored |-> FALSE, roles |-> {}, scopes |-> {}, expires |-> 0, revoked |-> FALSE]

mayCreate(request, now) == request.expires = 0 \/ request.expires > now

CreateToken(tokens, t, request) ==
  [tokens EXCEPT ![t] = [stored |-> TRUE, roles |-> request.roles, scopes |-> request.scopes,
                         expires |-> request.expires, revoked |-> FALSE]]

RevokeToken(tokens, t) == [tokens EXCEPT ![t].revoked = TRUE]

\* Mutation of LookupToken: a token is still good at the instant it expires.
LookupTokenInclusive(tokens, t, now) ==
  /\ tokens[t].stored /\ ~tokens[t].revoked
  /\ tokens[t].expires = 0 \/ tokens[t].expires >= now

LookupToken(tokens, t, now) ==
  /\ tokens[t].stored /\ ~tokens[t].revoked
  /\ tokens[t].expires = 0 \/ tokens[t].expires > now

-----------------------------------------------------------------------------
(* Authentication *)

Rejected  == [status |-> "rejected", known |-> FALSE, roles |-> {}]
Anonymous == [status |-> "ok", known |-> FALSE, roles |-> {}]
Identity(roles) == [status |-> "ok", known |-> TRUE, roles |-> roles]

\* config.enabled: API_AUTH_TOKEN is set; config.valid: API_AUTH_ADMIN_ROLES
\* parses; config.roles: the roles it gives the administrator.
authenticateHTTP(config, tokens, now, presented, scope, adminOnly) ==
  CASE ~config.enabled       -> Anonymous
    [] config.enabled /\ (~config.valid \/ presented = "none") -> Rejected
    [] config.enabled /\ config.valid /\ presented = "admin"   -> Identity(config.roles)
    [] OTHER ->
         IF LookupToken(tokens, presented, now) /\ ~adminOnly /\ scope \in tokens[presented].scopes
         THEN Identity(tokens[presented].roles) ELSE Rejected

-----------------------------------------------------------------------------
(* Role authorization *)

authorizeRole(identity, allowed, role) ==
  identity.known /\ role \in identity.roles /\ role \in allowed

\* A tools/call selects the role in its arguments; after a direct invoke it
\* is already in the context.
RoleAuthzMiddleware(identity, allowed, selector) ==
  \/ allowed = {}
  \/ selector \in Role /\ authorizeRole(identity, allowed, selector)

\* A direct invoke selects it in a header, and not in the arguments.
authorizeDirectInvoke(identity, allowed, selector) ==
  \/ allowed = {}
  \/ selector \in Role /\ authorizeRole(identity, allowed, selector)
=============================================================================
