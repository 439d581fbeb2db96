------------------------------ MODULE TokenHook ------------------------------
(***************************************************************************)
(* The Hydra token hook: handleHydraHook (pkg/hooks/handlers.go) and        *)
(* ProcessRequest (pkg/hooks/service.go), which sends the group lookup and  *)
(* the tenant validation of a request to the worker pool and decides, from  *)
(* their answers and from the authorization check, whether Hydra may issue  *)
(* the token and with which claims.                                         *)
(***************************************************************************)
EXTENDS Integers, Sequences, FiniteSets

CONSTANTS
  Requests,   \* hook requests, each one handler goroutine
  Workers,    \* the workers of the pool
  Groups,     \* groups a user may be in
  Arrivals,   \* what the requests may carry
  NoJob,
  NoAnswer

ASSUME WorkersFinite == IsFiniteSet(Workers)

(***************************************************************************)
(* A request dispatches at most two jobs. The group lookup answers with     *)
(* groups or an error, the tenant validation with nil (verdict "ok"),       *)
(* ErrNotMember or another error.                                           *)
(***************************************************************************)
Jobs == Requests \X {"groups", "tenant"}

GroupsJob(r) == <<r, "groups">>

TenantJob(r) == <<r, "tenant">>

Answers == [verdict : {"ok", "error", "notMember"}, groups : SUBSET Groups]

Failure(v) == [verdict |-> v, groups |-> {}]

FetchAnswers ==
  [verdict : {"ok"}, groups : SUBSET Groups] \cup {Failure("error")}

ValidateAnswers ==
  {Failure(v) : v \in {"error", "notMember"}} \cup {[verdict |-> "ok", groups |-> {}]}

(***************************************************************************)
(* What the handler takes from a request: whether the session carries a     *)
(* _tenant_id, how AuthorizeRequest treats the account, and the groups      *)
(* claim a previous hook left in the session ({} when there is none).       *)
(***************************************************************************)
Accounts == {"user", "service", "serviceNoAudience"}

ASSUME NoJobIsNotAJob == NoJob \notin Jobs

ASSUME NoAnswerIsNotAnAnswer == NoAnswer \notin Answers

RequestData == [tenant : BOOLEAN, account : Accounts, claim : SUBSET Groups]

ASSUME ArrivalsAreRequests == Arrivals \subseteq RequestData

VARIABLES
  queue, shutdown, stopper, poolWg, worker, holds, value,
  client, jobWg, results, closed, received,
  pc,        \* where the handler of each request is
  req,       \* the data of the request
  outcome,   \* what ProcessRequest is about to return
  reply,     \* the HTTP response
  told       \* history: what the function of each job returned

Pool == INSTANCE WorkerPool

poolVars == <<queue, shutdown, stopper, poolWg, worker, holds, value,
              client, jobWg, results, closed, received>>

hookVars == <<pc, req, outcome, reply>>

vars == <<queue, shutdown, stopper, poolWg, worker, holds, value, client,
          jobWg, results, closed, received, pc, req, outcome, reply, told>>

(***************************************************************************)
(* The places of a handler, named for the call of ProcessRequest that is    *)
(* next; "drain" is the deferred waitTenant and "respond" the rest of       *)
(* handleHydraHook.                                                         *)
(***************************************************************************)
Places == {"idle", "submitGroups", "submitTenant", "waitGroups",
           "authorize", "waitTenant", "drain", "respond", "done"}

Outcomes == {"none", "tooBusy", "failed", "notMember", "tenantInternal", "ok"}

NoRequest == [tenant |-> FALSE, account |-> "user", claim |-> {}]

\* A response without claims.
Rejection(s) == [status |-> s, groups |-> {}, tenant |-> FALSE]

NoReply == Rejection(0)

TypeOK ==
  /\ Pool!TypeOK
  /\ pc \in [Requests -> Places]
  /\ req \in [Requests -> RequestData]
  /\ outcome \in [Requests -> Outcomes]
  /\ reply \in [Requests -> [status : {0, 200, 400, 401, 403, 429, 500},
                             groups : SUBSET Groups, tenant : BOOLEAN]]
  /\ told \in [Jobs -> Answers \cup {NoAnswer}]

Init ==
  /\ Pool!Init
  /\ pc = [r \in Requests |-> "idle"]
  /\ req = [r \in Requests |-> NoRequest]
  /\ outcome = [r \in Requests |-> "none"]
  /\ reply = [r \in Requests |-> NoReply]
  /\ told = [j \in Jobs |-> NoAnswer]

-----------------------------------------------------------------------------
Goto(r, place) == pc' = [pc EXCEPT ![r] = place]

\* ProcessRequest returns o, after its deferred waitTenant.
Decide(r, o) == Goto(r, "drain") /\ outcome' = [outcome EXCEPT ![r] = o]

\* AuthMiddleware refuses the Authorization header (401), or the handler
\* cannot read or parse the body (400).
Refuse(r) ==
  /\ pc[r] = "idle"
  /\ \E s \in {400, 401} : reply' = [reply EXCEPT ![r].status = s]
  /\ Goto(r, "done")
  /\ UNCHANGED <<req, outcome, told>>
  /\ UNCHANGED poolVars

\* The handler calls ProcessRequest, which extracts the tenant ID and makes
\* the channels and the WaitGroups.
Arrive(r) ==
  /\ pc[r] = "idle"
  /\ \E d \in Arrivals : req' = [req EXCEPT ![r] = d]
  /\ Goto(r, "submitGroups")
  /\ UNCHANGED <<outcome, reply, told>>
  /\ UNCHANGED poolVars

SubmitGroups(r) ==
  /\ pc[r] = "submitGroups"
  /\ \/ /\ Pool!Accept(GroupsJob(r))
        /\ Goto(r, IF req[r].tenant THEN "submitTenant" ELSE "waitGroups")
        /\ UNCHANGED outcome
     \/ /\ Pool!Refuse(GroupsJob(r))
        /\ Decide(r, "tooBusy")
  /\ UNCHANGED <<req, reply, told>>

\* The refusal of the tenant job leaves the group lookup to be waited for.
SubmitTenant(r) ==
  /\ pc[r] = "submitTenant"
  /\ Pool!Accept(TenantJob(r)) \/ Pool!Refuse(TenantJob(r))
  /\ Goto(r, "waitGroups")
  /\ UNCHANGED <<req, outcome, reply, told>>

TenantRefused(r) == client[TenantJob(r)] = "rejected"

\* Variant of WaitGroups: a failed lookup is reported as ErrTooBusy too.
WaitGroupsAnyFailureBusy(r) ==
  /\ pc[r] = "waitGroups"
  /\ Pool!Collect(GroupsJob(r))
  /\ LET g == received'[GroupsJob(r)] IN
       IF TenantRefused(r) \/ g = NoAnswer \/ g.verdict # "ok" THEN Decide(r, "tooBusy")
       ELSE Goto(r, "authorize") /\ UNCHANGED outcome
  /\ UNCHANGED <<req, reply, told>>

\* The handler waits for the group lookup. It then gives up with ErrTooBusy
\* when the tenant job was refused or the lookup left no result; a lookup that
\* failed is an error that becomes a 403.
WaitGroups(r) ==
  /\ pc[r] = "waitGroups"
  /\ Pool!Collect(GroupsJob(r))
  /\ LET g == received'[GroupsJob(r)] IN
       IF TenantRefused(r) \/ g = NoAnswer THEN Decide(r, "tooBusy")
       ELSE IF g.verdict # "ok" THEN Decide(r, "failed")
       ELSE Goto(r, "authorize") /\ UNCHANGED outcome
  /\ UNCHANGED <<req, reply, told>>

\* The answers of the authorization store to one check.
CanAccess == {"allowed", "denied", "error"}

\* BatchCheck turns the denial of any one check into an error.
BatchCanAccess == {IF v = "allowed" THEN "allowed" ELSE "error" : v \in CanAccess}

\* What AuthorizeRequest may return: a service account without a granted
\* audience is allowed without a check.
AuthorizeRequest(account) ==
  CASE account = "user" -> CanAccess
    [] account = "service" -> BatchCanAccess
    [] account = "serviceNoAudience" -> {"allowed"}

Authorize(r) ==
  /\ pc[r] = "authorize"
  /\ \E v \in AuthorizeRequest(req[r].account) :
       IF v = "allowed" THEN Goto(r, "waitTenant") /\ UNCHANGED outcome
                        ELSE Decide(r, "failed")
  /\ UNCHANGED <<req, reply, told>>
  /\ UNCHANGED poolVars

\* Variant of TenantOutcome: only ErrNotMember stops the request.
TenantOutcomeOpen(answer) ==
  IF answer # NoAnswer /\ answer.verdict = "notMember" THEN "notMember" ELSE "ok"

\* tenantErr stays nil when the tenant job left no result.
TenantOutcome(answer) ==
  IF answer = NoAnswer \/ answer.verdict = "ok" THEN "ok"
  ELSE IF answer.verdict = "notMember" THEN "notMember"
  ELSE "tenantInternal"

\* The explicit call of waitTenant: the deferred one is then a no-op.
WaitTenant(r) ==
  /\ pc[r] = "waitTenant"
  /\ IF req[r].tenant
     THEN /\ Pool!Collect(TenantJob(r))
          /\ outcome' = [outcome EXCEPT ![r] = TenantOutcome(received'[TenantJob(r)])]
     ELSE /\ outcome' = [outcome EXCEPT ![r] = "ok"]
          /\ UNCHANGED poolVars
  /\ Goto(r, "respond")
  /\ UNCHANGED <<req, reply, told>>

\* Variant of Drain: waitTenant is not deferred.
DrainSkipped(r) ==
  /\ pc[r] = "drain"
  /\ Goto(r, "respond")
  /\ UNCHANGED <<req, outcome, reply, told>>
  /\ UNCHANGED poolVars

\* Variant of Drain: the channel is closed without waiting for the job.
DrainWithoutWait(r) ==
  /\ pc[r] = "drain"
  /\ closed' = [closed EXCEPT ![TenantJob(r)] = TRUE]
  /\ Goto(r, "respond")
  /\ UNCHANGED <<req, outcome, reply, told, queue, shutdown, stopper, poolWg,
                 worker, holds, value, client, jobWg, results, received>>

\* The deferred waitTenant of the error paths: the WaitGroup of a tenant job
\* that was never accepted is zero.
Drain(r) ==
  /\ pc[r] = "drain"
  /\ IF client[TenantJob(r)] = "submitted"
     THEN Pool!Collect(TenantJob(r))
     ELSE UNCHANGED poolVars
  /\ Goto(r, "respond")
  /\ UNCHANGED <<req, outcome, reply, told>>

Status(o) ==
  CASE o = "ok" -> 200
    [] o = "tooBusy" -> 429
    [] o = "tenantInternal" -> 500
    [] OTHER -> 403

\* newHookResponse sets the groups claim only when the user has groups, over
\* a copy of the claims that the session carries.
GroupsClaim(fetched, claim) == IF fetched = {} THEN claim ELSE fetched

\* handleHydraHook maps the error to a status or composes the response, from
\* strings and from claims that were decoded from JSON: json.Marshal of these
\* does not fail.
Respond(r) ==
  /\ pc[r] = "respond"
  /\ reply' = [reply EXCEPT ![r] =
       IF outcome[r] = "ok"
       THEN [status |-> 200,
             groups |-> GroupsClaim(received[GroupsJob(r)].groups, req[r].claim),
             tenant |-> req[r].tenant]
       ELSE Rejection(Status(outcome[r]))]
  /\ Goto(r, "done")
  /\ UNCHANGED <<req, outcome, told>>
  /\ UNCHANGED poolVars

-----------------------------------------------------------------------------
HandlerStep(r) ==
  \/ SubmitGroups(r)
  \/ SubmitTenant(r)
  \/ WaitGroups(r)
  \/ Authorize(r)
  \/ WaitTenant(r)
  \/ Drain(r)
  \/ Respond(r)

\* FetchUserGroups and ValidateMembership, run by a worker.
JobReturns(w) ==
  /\ \E a \in IF holds[w] \in {GroupsJob(r) : r \in Requests}
              THEN FetchAnswers ELSE ValidateAnswers :
       /\ Pool!Return(w, a)
       /\ told' = [told EXCEPT ![holds[w]] = a]
  /\ UNCHANGED hookVars

\* The other steps of a worker.
WorkerMoves(w) ==
  /\ \/ Pool!TakeJob(w)
     \/ Pool!GoDown(w)
     \/ Pool!CheckShutdown(w)
     \/ Pool!Send(w)
     \/ Pool!Finish(w)
     \/ Pool!Recover(w)
  /\ UNCHANGED <<hookVars, told>>

JobPanics(w) == Pool!Panic(w) /\ UNCHANGED <<hookVars, told>>

StartPool == Pool!Start /\ UNCHANGED <<hookVars, told>>

StopPool == (Pool!Stop \/ Pool!StopReturns) /\ UNCHANGED <<hookVars, told>>

Next ==
  \/ StartPool
  \/ StopPool
  \/ \E w \in Workers : JobReturns(w) \/ WorkerMoves(w) \/ JobPanics(w)
  \/ \E r \in Requests : Refuse(r) \/ Arrive(r) \/ HandlerStep(r)

Spec == Init /\ [][Next]_vars

\* A goroutine of the pool, a worker or a handler runs.
Runs ==
  \/ StartPool
  \/ \E w \in Workers : JobReturns(w) \/ WorkerMoves(w)
  \/ \E r \in Requests : HandlerStep(r)

\* Go does not leave the processor idle while a goroutine can run, and the
\* functions of the jobs return: the calls they make have deadlines. No order
\* among the goroutines is assumed.
Fairness == WF_vars(Runs)

\* Stop need never be called.
FairSpec == Spec /\ Fairness

-----------------------------------------------------------------------------
Verdict(j) == IF told[j] = NoAnswer THEN "none" ELSE told[j].verdict

\* The reply is the one that the answers of this request's own jobs call for,
\* whichever worker computed them and in whatever order. A token is issued
\* only over groups that were fetched and never against a refusal or a failed
\* lookup of the tenant service; it carries the fetched groups and the tenant
\* of the request. A 500 means that the tenant lookup failed, a 403 that the
\* groups could not be fetched, the check did not allow the request, or the
\* user is not a member.
ReplyMatchesAnswers ==
  \A r \in Requests :
    LET g == Verdict(GroupsJob(r))
        t == Verdict(TenantJob(r))
    IN  CASE reply[r].status = 200 ->
               /\ g = "ok"
               /\ t \notin {"notMember", "error"}
               /\ told[GroupsJob(r)].groups # {} =>
                    reply[r].groups = told[GroupsJob(r)].groups
               /\ reply[r].tenant = req[r].tenant
          [] reply[r].status = 403 ->
               \/ g = "error"
               \/ g = "ok" /\ req[r].account # "serviceNoAudience"
               \/ g = "ok" /\ t = "notMember"
          [] reply[r].status = 500 -> g = "ok" /\ t = "error"
          [] OTHER -> TRUE

\* When ProcessRequest has returned, neither job of the request is in the
\* channel or in the hands of a worker: the jobs use the request's context
\* and its database transaction, which end with the handler.
JobsEndWithRequest ==
  \A r \in Requests :
    pc[r] \in {"respond", "done"} =>
      \A j \in {GroupsJob(r), TenantJob(r)} :
        ~Pool!InQueue(j) /\ Pool!Holders(j) = {}

\* The pool has not been stopped and has not lost a worker to a panic.
Healthy ==
  ~shutdown /\ \A w \in Workers : worker[w] \notin {"panicking", "recovering", "gone"}

\* While the pool is healthy, a 429 is sent only when the channel had no room
\* for a job of the request.
BusyMeansRefused ==
  \A r \in Requests :
    reply[r].status = 429 =>
      ~Healthy \/ \E j \in {GroupsJob(r), TenantJob(r)} : client[j] = "rejected"

\* A token that carries a tenant is issued only when the tenant service
\* confirmed the membership.
TenantConfirmed ==
  \A r \in Requests :
    reply[r].status = 200 /\ reply[r].tenant => Verdict(TenantJob(r)) = "ok"

\* Only a pool that was stopped, or lost a worker to a panic, can lose the
\* verdict of the tenant service and have a token issued without it.
TenantConfirmedWhileHealthy == Healthy => TenantConfirmed

\* The handlers use the pool as WorkerPool assumes: what holds of the pool
\* holds here.
UsesPool == Pool!Spec

\* With panics and with Stop, a request is answered unless no worker is left
\* to finish, or to abort, its jobs.
AnsweredOrPoolDead ==
  \A r \in Requests :
    (pc[r] = "submitGroups") ~>
      (pc[r] = "done" \/ \A w \in Workers : worker[w] = "gone")
-----------------------------------------------------------------------------
(***************************************************************************)
(* The inductive invariant of the handlers, over that of the pool.          *)
(***************************************************************************)

\* What the function of a job returned is on its way to the caller, with the
\* worker or in the channel, or has been received by the caller of this job.
AnswerIsTold(j) ==
  /\ client[j] = "collected" => received[j] = told[j]
  /\ client[j] # "collected" => received[j] = NoAnswer
  /\ client[j] \in {"fresh", "rejected"} \/ Pool!InQueue(j) => told[j] = NoAnswer
  /\ results[j] # <<>> => Head(results[j]) = told[j]
  /\ client[j] = "submitted" /\ results[j] = <<>> /\ told[j] # NoAnswer =>
       \E w \in Workers : holds[w] = j /\ worker[w] = "sending"

AnswersAreTold ==
  /\ \A j \in Jobs : AnswerIsTold(j)
  /\ \A w \in Workers :
       /\ worker[w] = "sending" => value[w] = told[holds[w]]
       /\ worker[w] \in {"picked", "running"} => told[holds[w]] = NoAnswer
  /\ \A r \in Requests :
       /\ told[GroupsJob(r)] \in FetchAnswers \cup {NoAnswer}
       /\ told[TenantJob(r)] \in ValidateAnswers \cup {NoAnswer}

\* A healthy pool loses no job that it accepted.
NotLost(j) ==
  /\ client[j] = "submitted" /\ results[j] = <<>> /\ ~Pool!InQueue(j) =>
       \E w \in Workers : holds[w] = j /\ worker[w] \in {"picked", "running", "sending"}
  /\ client[j] = "collected" => received[j] # NoAnswer

LossNeedsFault == Healthy => \A j \in Jobs : NotLost(j)

\* Where the two jobs of a request are when its handler is at a place.
TenantJobIs(r, state) == client[TenantJob(r)] = IF req[r].tenant THEN state ELSE "fresh"

JobsFollow(r) ==
  LET g == client[GroupsJob(r)]
      t == client[TenantJob(r)]
  IN
  /\ pc[r] \in {"idle", "submitGroups"} => g = "fresh" /\ t = "fresh"
  /\ pc[r] = "submitTenant" => g = "submitted" /\ t = "fresh" /\ req[r].tenant
  /\ pc[r] = "waitGroups" =>
       g = "submitted" /\ (TenantJobIs(r, "submitted") \/ t = "rejected")
  /\ pc[r] \in {"authorize", "waitTenant"} =>
       /\ g = "collected" /\ received[GroupsJob(r)] # NoAnswer
       /\ received[GroupsJob(r)].verdict = "ok"
       /\ TenantJobIs(r, "submitted")
  /\ pc[r] = "drain" => g \in {"rejected", "collected"}
  /\ pc[r] \in {"respond", "done"} => g # "submitted" /\ t # "submitted"

\* What ProcessRequest has received when it returns an outcome.
OutcomeFollows(r) ==
  LET g == received[GroupsJob(r)]
      t == received[TenantJob(r)]
  IN
  /\ pc[r] \in {"drain", "respond"} => outcome[r] # "none"
  /\ pc[r] \notin {"drain", "respond", "done"} => outcome[r] = "none"
  /\ outcome[r] = "tooBusy" =>
       \/ \E j \in {GroupsJob(r), TenantJob(r)} : client[j] = "rejected"
       \/ client[GroupsJob(r)] = "collected" /\ g = NoAnswer
  /\ outcome[r] = "failed" =>
       /\ g # NoAnswer /\ client[GroupsJob(r)] = "collected"
       /\ g.verdict = "ok" => req[r].account # "serviceNoAudience"
  /\ outcome[r] \in {"ok", "notMember", "tenantInternal"} =>
       /\ pc[r] \in {"respond", "done"}
       /\ g # NoAnswer /\ client[GroupsJob(r)] = "collected"
       /\ g.verdict = "ok"
       /\ TenantJobIs(r, "collected")
       /\ outcome[r] = TenantOutcome(t)

\* The reply is made from the outcome, at the very end.
ReplyFollows(r) ==
  /\ pc[r] # "done" => reply[r] = NoReply
  /\ pc[r] = "done" =>
       IF outcome[r] = "none" THEN reply[r].status \in {400, 401}
       ELSE /\ reply[r].status = Status(outcome[r])
            /\ outcome[r] = "ok" =>
                 /\ received[GroupsJob(r)].groups # {} =>
                      reply[r].groups = received[GroupsJob(r)].groups
                 /\ reply[r].tenant = req[r].tenant

\* Everything that the safety properties of the hook rest on.
HookInv ==
  /\ TypeOK
  /\ Pool!PoolInv
  /\ AnswersAreTold
  /\ LossNeedsFault
  /\ \A r \in Requests : JobsFollow(r) /\ OutcomeFollows(r) /\ ReplyFollows(r)
=============================================================================
