---------------------------- MODULE AccessProofs ----------------------------
(***************************************************************************)
(* What Access promises, proved for every set of subjects, scopes, stores    *)
(* and models: a run of TLC has two of each at most.                         *)
(***************************************************************************)
EXTENDS Access, TLAPS

\* A model that is in a store stays there: no step of a command, or of anyone
\* else who writes, takes one away.
LEMMA ModelsGrow ==
  ASSUME BootNext
  PROVE  models \subseteq models'
BY DEF BootNext, RunCommand, CreateStore, CreateStoreFails, WriteModel,
       WriteModelFails, OtherModel, Written

\* A step of the start or of a request leaves the commands and the store alone.
LEMMA ServeLeavesStores ==
  ASSUME OpenDatabase \/ CheckModel \/ ConnectTenants \/ CreateVerifier
           \/ Send \/ HttpRequest \/ GrpcStream
  PROVE  UNCHANGED bootVars
BY DEF OpenDatabase, CheckModel, ConnectTenants, CreateVerifier, EndStage, Send,
       HttpRequest, GrpcStream, Decide

-----------------------------------------------------------------------------
\* Whom VerifyToken lets pass is named: blanks match nothing.
LEMMA VerifiedIsNamed ==
  ASSUME request \in Request, config \in Config \cup {Unread}, config.enabled, Verified
  PROVE  request.token.good /\ Named
<1>1. config \in Config
  BY DEF Unread
<1>2. config.subjects \subseteq Subjects \cup {Blank} /\ config.requiredScope \in Scopes \cup {Blank}
  BY <1>1 DEF Config
<1>3. request.token.good /\ VerifyToken
  BY Zenon DEF Verified, VerifyToken
<1>4. CASE request.token.sub \in AllowedSubjects
  BY <1>2, <1>3, <1>4, Zenon DEF AllowedSubjects, Named
<1>5. CASE /\ config.requiredScope # Blank
           /\ config.requiredScope \in request.token.scope \cup request.token.scp
  BY <1>2, <1>3, <1>5, Zenon DEF Named
<1> QED BY <1>3, <1>4, <1>5, Zenon DEF VerifyToken

\* Nothing has been decided, so there is nothing to agree on.
LEMMA Undecided ==
  ASSUME AccessInv, request = NoRequest
  PROVE  \A t \in Transports : outcome[t] = "pending"
BY DEF AccessInv

\* A stage of the start ends while there is no request.
LEMMA StageStep ==
  ASSUME AccessInv, NEW stage \in Stages, NEW ok \in BOOLEAN,
         NEW next \in {"model", "tenants", "verifier", "serving"},
         EndStage(stage, ok, next), config' \in Config \cup {Unread},
         settings'.enabled /\ serving' \in {"tenants", "verifier", "serving"} =>
           \E m \in ModelAt(settings'.store, settings'.model) : m.is.sameSchema
  PROVE  AccessInv'
<1>1. serving # "serving"
  BY DEF EndStage, Stages
<1>2. request = NoRequest
  BY <1>1 DEF AccessInv
<1>3. UNCHANGED <<models, request, outcome>>
  BY DEF EndStage, bootVars
<1>4. \A t \in Transports : outcome'[t] = "pending"
  BY <1>2, <1>3, Undecided
<1>5. AdmittedByName'
  BY <1>4 DEF AdmittedByName
<1>6. settings'.enabled /\ serving' \in {"tenants", "verifier", "serving"} =>
        \E m \in ModelAt(settings.store, settings.model)' : m.is.sameSchema
  BY <1>3 DEF ModelAt
<1> QED BY <1>2, <1>3, <1>4, <1>5, <1>6 DEF AccessInv

\* A transport decides: the other one's decision stays.
LEMMA DecideStep ==
  ASSUME AccessInv, NEW t \in Transports, NEW admits \in BOOLEAN, Decide(t, admits),
         config.enabled /\ admits => request.token.good /\ Named
  PROVE  AccessInv'
<1>1. UNCHANGED <<models, settings, config, serving, request>>
  BY DEF Decide, bootVars
<1>2. /\ outcome'[t] = IF admits THEN "admitted" ELSE "refused"
      /\ \A u \in Transports : u # t => outcome'[u] = outcome[u]
      /\ outcome' \in [Transports -> {"pending", "admitted", "refused"}]
  BY DEF Decide, AccessInv
<1>3. (request.token.good /\ Named)' <=> request.token.good /\ Named
  BY <1>1, Zenon DEF Named
<1>4. AdmittedByName'
  <2> SUFFICES ASSUME config.enabled, NEW u \in Transports, outcome'[u] = "admitted"
               PROVE  request.token.good /\ Named
    BY <1>1, <1>3, Zenon DEF AdmittedByName
  <2>1. CASE u = t
    BY <1>2, <2>1
  <2>2. CASE u # t
    BY <1>2, <2>2, Zenon DEF AccessInv, AdmittedByName
  <2> QED BY <2>1, <2>2
<1>5. \A u \in Transports : outcome'[u] # "pending" => request' # NoRequest
  BY <1>1 DEF Decide, AccessInv
<1>6. settings'.enabled /\ serving' \in {"tenants", "verifier", "serving"} =>
        \E m \in ModelAt(settings.store, settings.model)' : m.is.sameSchema
  BY <1>1 DEF AccessInv, ModelAt
<1> QED BY <1>1, <1>2, <1>4, <1>5, <1>6 DEF AccessInv

\* The check of the model: what it found is in the store, or serve has failed.
LEMMA CheckModelStep ==
  ASSUME AccessInv, CheckModel
  PROVE  AccessInv'
<1>1. PICK read \in BOOLEAN, a \in Authorization :
        /\ settings' = a
        /\ EndStage("model", a.enabled => NewClient(a) /\ ValidateModel(a, read), "tenants")
  BY DEF CheckModel
<1> DEFINE ok == a.enabled => NewClient(a) /\ ValidateModel(a, read)
<1>2. settings'.enabled /\ serving' \in {"tenants", "verifier", "serving"} => ok
  BY <1>1, Zenon DEF EndStage
<1>3. settings'.enabled /\ serving' \in {"tenants", "verifier", "serving"} =>
        \E m \in ModelAt(settings'.store, settings'.model) : m.is.sameSchema
  BY <1>1, <1>2, Zenon DEF ValidateModel, CompareModel
<1>4. ok \in BOOLEAN /\ EndStage("model", ok, "tenants")
  BY <1>1, Zenon
<1>5. config' \in Config \cup {Unread}
  BY Zenon DEF CheckModel, AccessInv
<1> HIDE DEF ok
<1> QED BY <1>3, <1>4, <1>5, StageStep DEF Stages

\* The other stages leave the configuration of authorization alone.
LEMMA OtherStageStep ==
  ASSUME AccessInv, OpenDatabase \/ ConnectTenants \/ CreateVerifier
  PROVE  AccessInv'
<1>1. UNCHANGED settings
  BY DEF OpenDatabase, ConnectTenants, CreateVerifier
<1>2. PICK s \in {<<"database", "model">>, <<"tenants", "verifier">>, <<"verifier", "serving">>},
           ok \in BOOLEAN :
        EndStage(s[1], ok, s[2])
  <2>1. CASE OpenDatabase
    BY <2>1 DEF OpenDatabase
  <2>2. CASE ConnectTenants
    BY <2>2 DEF ConnectTenants
  <2>3. CASE CreateVerifier
    <3>1. PICK reached \in BOOLEAN, c \in Config :
            EndStage("verifier", c.enabled => NewJWTAuthenticator(c, reached), "serving")
      BY <2>3, Zenon DEF CreateVerifier
    <3> DEFINE started == c.enabled => NewJWTAuthenticator(c, reached)
    <3>2. started \in BOOLEAN /\ EndStage("verifier", started, "serving")
      BY <3>1, Zenon
    <3> HIDE DEF started
    <3> QED BY <3>2
  <2> QED BY <2>1, <2>2, <2>3
<1>3. s[1] \in Stages /\ s[2] \in {"model", "tenants", "verifier", "serving"}
  BY DEF Stages
<1>4. settings'.enabled /\ serving' \in {"tenants", "verifier", "serving"} =>
        \E m \in ModelAt(settings'.store, settings'.model) : m.is.sameSchema
  <2> SUFFICES ASSUME settings.enabled, serving' \in {"tenants", "verifier", "serving"}
               PROVE  serving \in {"tenants", "verifier", "serving"}
    BY <1>1, Zenon DEF AccessInv
  <2> QED BY <1>2 DEF EndStage
<1>5. config' \in Config \cup {Unread}
  BY Zenon DEF OpenDatabase, ConnectTenants, CreateVerifier, AccessInv
<1> QED BY <1>2, <1>3, <1>4, <1>5, StageStep

\* AccessInv holds always.
THEOREM AccessInvariant == Spec => []AccessInv
<1>1. Init => AccessInv
  <2> SUFFICES ASSUME Init PROVE AccessInv
    OBVIOUS
  <2>1. /\ request = NoRequest /\ serving = "database" /\ config = Unread
        /\ outcome = [t \in Transports |-> "pending"]
    BY DEF Init
  <2>2. AdmittedByName
    BY <2>1 DEF AdmittedByName
  <2> QED BY <2>1, <2>2 DEF AccessInv
<1>2. AccessInv /\ [Next]_accessVars => AccessInv'
  <2> SUFFICES ASSUME AccessInv, [Next]_accessVars PROVE AccessInv'
    OBVIOUS
  <2>1. CASE OpenDatabase \/ ConnectTenants \/ CreateVerifier
    BY <2>1, OtherStageStep
  <2>2. CASE CheckModel
    BY <2>2, CheckModelStep
  <2>3. CASE Send
    <3>1. UNCHANGED <<models, settings, config, serving, outcome>> /\ request' \in Request
      BY <2>3 DEF Send, bootVars
    <3>2. serving = "serving" /\ \A t \in Transports : outcome'[t] = "pending"
      BY <2>3, <3>1, Undecided DEF Send
    <3>3. AdmittedByName'
      BY <3>2 DEF AdmittedByName
    <3>4. settings'.enabled /\ serving' \in {"tenants", "verifier", "serving"} =>
            \E m \in ModelAt(settings.store, settings.model)' : m.is.sameSchema
      BY <3>1 DEF AccessInv, ModelAt
    <3> QED BY <3>1, <3>2, <3>3, <3>4 DEF AccessInv
  <2>4. CASE HttpRequest \/ GrpcStream
    <3>1. request \in Request
      BY <2>4 DEF HttpRequest, GrpcStream, Decide, AccessInv
    <3>2. config.enabled /\ (Authenticate \/ StreamAuthenticate) => request.token.good /\ Named
      BY <3>1, VerifiedIsNamed, Zenon DEF Authenticate, StreamAuthenticate, AccessInv
    <3>3. PICK t \in Transports, admits \in BOOLEAN :
            Decide(t, admits) /\ (config.enabled /\ admits => request.token.good /\ Named)
      <4>1. Authenticate \in BOOLEAN /\ StreamAuthenticate \in BOOLEAN
        BY Zenon DEF Authenticate, StreamAuthenticate
      <4> QED BY <2>4, <3>2, <4>1, Zenon DEF HttpRequest, GrpcStream, Transports
    <3> QED BY <3>3, DecideStep
  <2>5. CASE BootNext /\ UNCHANGED serveVars
    <3>1. models \subseteq models' /\ UNCHANGED <<settings, config, serving, request, outcome>>
      BY <2>5, ModelsGrow DEF serveVars
    <3>2. AdmittedByName'
      BY <3>1, Zenon DEF AccessInv, AdmittedByName, Named
    <3>3. settings'.enabled /\ serving' \in {"tenants", "verifier", "serving"} =>
            \E m \in ModelAt(settings.store, settings.model)' : m.is.sameSchema
      BY <3>1 DEF AccessInv, ModelAt
    <3> QED BY <3>1, <3>2, <3>3 DEF AccessInv
  <2>6. CASE UNCHANGED accessVars
    BY <2>6, Zenon DEF accessVars, AccessInv, ModelAt, AdmittedByName, Named
  <2> QED BY <2>1, <2>2, <2>3, <2>4, <2>5, <2>6 DEF Next
<1> QED BY <1>1, <1>2, PTL DEF Spec

\* With authentication enabled, whoever is admitted over HTTP or gRPC is named
\* by the configuration and by a good token, for every set of subjects and of
\* scopes: blanks match nothing (serve, VerifyToken, Authenticate,
\* StreamAuthenticate).
THEOREM OnlyTheNamedEnter == Spec => []AdmittedByName
<1>1. AccessInv => AdmittedByName
  BY DEF AccessInv
<1> QED BY <1>1, AccessInvariant, PTL

\* A service with authorization decides requests only on ids that name a model
\* of the embedded schema version, whatever is written beside it (serve,
\* ValidateModel, CompareModel).
THEOREM ServesCheckedModel == Spec => []ModelCheckedBeforeServing
<1>1. AccessInv => ModelCheckedBeforeServing
  BY Zenon DEF AccessInv, ModelCheckedBeforeServing
<1> QED BY <1>1, AccessInvariant, PTL
=============================================================================
