------------------------------- MODULE Access -------------------------------
(***************************************************************************)
(* The start of the service up to its servers (cmd/serve.go), beside the     *)
(* commands that fill the authorization store (Bootstrap), and which         *)
(* requests then reach a handler: the JWT verifier of pkg/authentication     *)
(* behind the HTTP middleware of the groups and authorization APIs and       *)
(* behind the gRPC interceptor of the mapping service.                       *)
(*                                                                           *)
(* The two requests carry the same Authorization header, one over HTTP and   *)
(* one over gRPC. The signature, the issuer and the expiry of a token are    *)
(* checked by go-oidc: a token is good for it or not. A part of the          *)
(* configuration is chosen at the stage that first reads it.                 *)
(***************************************************************************)
EXTENDS Bootstrap

CONSTANTS
  Subjects,
  Scopes,
  Blank      \* the empty string

ASSUME BlankIsNoName == Blank \notin Subjects \cup Scopes

\* A token without the claim sub decodes to an empty subject. The words of the
\* claim scope are not empty; a member of the claim scp may be.
Token ==
  [good : BOOLEAN, sub : Subjects \cup {Blank},
   scope : SUBSET Scopes, scp : SUBSET (Scopes \cup {Blank})]

Header == {"none", "basic", "bearer"}

Transports == {"http", "grpc"}

\* subjects: what stands between the commas of AUTHENTICATION_ALLOWED_SUBJECTS,
\* without the spaces around it. A comma at the end, or a second one, leaves a
\* blank.
Config ==
  [enabled : BOOLEAN, issuer : BOOLEAN, subjects : SUBSET (Subjects \cup {Blank}),
   requiredScope : Scopes \cup {Blank}]

\* Authorization is off, or uses the model of a store. Either id may be
\* missing, and so may the scheme, the host or the token of the API.
Authorization ==
  [enabled : {FALSE}] \cup
  [enabled : {TRUE}, api : BOOLEAN, store : Stores \cup {NoId}, model : ModelIds \cup {NoId}]

Request == [header : Header, token : Token]

Stages == {"database", "model", "tenants", "verifier"}

VARIABLES
  settings,  \* the configuration of authorization
  config,    \* the configuration of authentication
  serving,   \* the stage of the start, then "serving" or "failed"
  request,   \* what both requests carry
  outcome    \* for each transport: "pending", "admitted" or "refused"

serveVars == <<settings, config, serving, request, outcome>>

accessVars == <<stores, models, command, storeId,
                settings, config, serving, request, outcome>>

Unread == [enabled |-> FALSE]

NoRequest == [header |-> "unsent"]

TypeOK ==
  /\ BootTypes
  /\ settings \in Authorization
  /\ config \in Config \cup {Unread}
  /\ serving \in Stages \cup {"serving", "failed"}
  /\ request \in Request \cup {NoRequest}
  /\ outcome \in [Transports -> {"pending", "admitted", "refused"}]

Init ==
  /\ BootInit
  /\ settings = Unread
  /\ config = Unread
  /\ serving = "database"
  /\ request = NoRequest
  /\ outcome = [t \in Transports |-> "pending"]

-----------------------------------------------------------------------------
\* A stage of serve ends: with `ok` the next one follows, without it serve
\* returns an error or panics, and no server ever listens.
EndStage(stage, ok, next) ==
  /\ serving = stage
  /\ serving' = IF ok THEN next ELSE "failed"
  /\ UNCHANGED <<bootVars, request, outcome>>

\* NewDBClient makes the pool and pings the database, or fails.
OpenDatabase ==
  /\ \E ok \in BOOLEAN : EndStage("database", ok, "model")
  /\ UNCHANGED <<settings, config>>

\* The code as it is: equal type definitions are the ones that are refused.
CompareModel(m) == m.is.sameSchema /\ ~m.is.sameTypes

\* Variant of ValidateModel: the answer of CompareModel is dropped.
ValidateModelErrorOnly(a, read) == read /\ ModelAt(a.store, a.model) # {}

\* `read`: the store answered. It has no answer for ids that it does not know.
ValidateModel(a, read) == read /\ \E m \in ModelAt(a.store, a.model) : CompareModel(m)

\* NewConfig rejects a missing field, and NewClient panics without a config.
NewClient(a) == a.api /\ NoId \notin {a.store, a.model}

\* Without authorization the noop client is used and nothing is compared.
CheckModel ==
  /\ \E read \in BOOLEAN, a \in Authorization :
       /\ settings' = a
       /\ EndStage("model", a.enabled => NewClient(a) /\ ValidateModel(a, read), "tenants")
  /\ UNCHANGED config

\* The connection to the tenant service, if an address is configured.
ConnectTenants ==
  /\ \E ok \in BOOLEAN : EndStage("tenants", ok, "verifier")
  /\ UNCHANGED <<settings, config>>

\* NewJWTAuthenticator needs an issuer, and a provider that can be reached.
NewJWTAuthenticator(c, reached) == c.issuer /\ reached

CreateVerifier ==
  /\ \E reached \in BOOLEAN, c \in Config :
       /\ config' = c
       /\ EndStage("verifier", c.enabled => NewJWTAuthenticator(c, reached), "serving")
  /\ UNCHANGED settings

\* A client sends the same header to both transports.
Send ==
  /\ serving = "serving" /\ request = NoRequest
  /\ request' \in Request
  /\ UNCHANGED <<bootVars, settings, config, serving, outcome>>

\* Variant of AllowedSubjects: blanks are kept.
SplitSubjects == config.subjects

\* serve splits the list at its commas and drops the blanks.
AllowedSubjects == config.subjects \ {Blank}

\* A subject that is allowed needs no scope, and a scope is a word of the claim
\* scope or a member of the claim scp.
VerifyToken ==
  /\ request.token.good
  /\ \/ request.token.sub \in AllowedSubjects
     \/ /\ config.requiredScope # Blank
        /\ config.requiredScope \in request.token.scope \cup request.token.scp

\* The verifier is the noop one unless authentication is enabled.
Verified == ~config.enabled \/ VerifyToken

\* Without authentication the middleware is not installed.
Authenticate == ~config.enabled \/ (request.header = "bearer" /\ Verified)

\* The interceptor is always installed.
StreamAuthenticate == request.header = "bearer" /\ Verified

Decide(t, admits) ==
  /\ request # NoRequest /\ outcome[t] = "pending"
  /\ outcome' = [outcome EXCEPT ![t] = IF admits THEN "admitted" ELSE "refused"]
  /\ UNCHANGED <<bootVars, settings, config, serving, request>>

HttpRequest == Decide("http", Authenticate)

GrpcStream == Decide("grpc", StreamAuthenticate)

Next ==
  \/ OpenDatabase \/ CheckModel \/ ConnectTenants \/ CreateVerifier
  \/ Send \/ HttpRequest \/ GrpcStream
  \/ BootNext /\ UNCHANGED serveVars

Spec == Init /\ [][Next]_accessVars

-----------------------------------------------------------------------------
\* Someone is named by the configuration and by the token alike.
Named ==
  \/ Subjects \cap config.subjects \cap {request.token.sub} # {}
  \/ Scopes \cap {config.requiredScope} \cap (request.token.scope \cup request.token.scp) # {}

\* With authentication enabled, a request is admitted on either transport only
\* with a good token that names a subject or a scope of the configuration: a
\* setting that is empty or has blank entries, and a token that lacks a claim
\* or has a blank one, do not match each other, wherever along the start and
\* the request the blanks are dropped (serve, VerifyToken, Authenticate,
\* StreamAuthenticate).
AdmittedByName ==
  config.enabled =>
    \A t \in Transports : outcome[t] = "admitted" => request.token.good /\ Named

\* With authorization enabled, a request is decided only by a service whose
\* configured ids name a model of the embedded schema version, whatever the
\* commands and others have written before or after the check: a start that
\* found another one ends before any server listens (serve, ValidateModel,
\* CompareModel). The type definitions give no such guarantee: CompareModel
\* accepts the ones that differ.
ModelCheckedBeforeServing ==
  (settings.enabled /\ \E t \in Transports : outcome[t] # "pending") =>
    \E m \in ModelAt(settings.store, settings.model) : m.is.sameSchema

(***************************************************************************)
(* Inductive strengthening of the two: a request is there only once the      *)
(* service listens and is decided only once it is there, and from the check  *)
(* on the model stays in its store.                                          *)
(***************************************************************************)
AccessInv ==
  /\ config \in Config \cup {Unread}
  /\ request \in Request \cup {NoRequest}
  /\ outcome \in [Transports -> {"pending", "admitted", "refused"}]
  /\ request # NoRequest => serving = "serving"
  /\ \A t \in Transports : outcome[t] # "pending" => request # NoRequest
  /\ settings.enabled /\ serving \in {"tenants", "verifier", "serving"} =>
       \E m \in ModelAt(settings.store, settings.model) : m.is.sameSchema
  /\ AdmittedByName
=============================================================================
