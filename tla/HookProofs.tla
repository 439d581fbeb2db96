----------------------------- MODULE HookProofs -----------------------------
(***************************************************************************)
(* Proofs about TokenHook and Serve. The handlers use the worker pool as    *)
(* WorkerPool assumes, so that its proved invariant holds here too; over it *)
(* HookInv is an invariant of the handlers, and ServeInv of the serve       *)
(* command around them.                                                     *)
(***************************************************************************)
EXTENDS Serve, TLAPS

-----------------------------------------------------------------------------
(***************************************************************************)
(* The handlers use the pool as its specification assumes.                  *)
(***************************************************************************)

\* The group lookup and the tenant check of a request are jobs of the pool.
LEMMA JobsOfRequests ==
  ASSUME NEW r \in Requests
  PROVE  GroupsJob(r) \in Jobs /\ TenantJob(r) \in Jobs
BY Zenon DEF GroupsJob, TenantJob, Jobs

\* The answers of both kinds of jobs are answers.
LEMMA AnswersOfJobs == FetchAnswers \subseteq Answers /\ ValidateAnswers \subseteq Answers
BY DEF FetchAnswers, ValidateAnswers, Answers, Failure

\* A step of the hook is a step of the pool, or none.
LEMMA StepUsesPool ==
  ASSUME [Next]_vars
  PROVE  [Pool!Next]_poolVars
<1>1. CASE StartPool
  BY <1>1, Zenon DEF StartPool, Pool!Next
<1>2. CASE StopPool
  BY <1>2, Zenon DEF StopPool, Pool!Next
<1>3. ASSUME NEW w \in Workers, JobReturns(w)
      PROVE  Pool!Next
  <2>1. PICK a \in IF holds[w] \in {GroupsJob(r) : r \in Requests}
                   THEN FetchAnswers ELSE ValidateAnswers : Pool!Return(w, a)
    BY <1>3, Zenon DEF JobReturns
  <2>2. a \in Answers
    BY AnswersOfJobs, Zenon
  <2> QED
    BY <2>1, <2>2, Zenon DEF Pool!Next, Pool!WorkerStep, Answers
<1>4. ASSUME NEW w \in Workers, WorkerMoves(w) \/ JobPanics(w)
      PROVE  Pool!Next
  BY <1>4, Zenon DEF WorkerMoves, JobPanics, Pool!Next, Pool!WorkerStep
<1>5. ASSUME NEW r \in Requests, Refuse(r) \/ Arrive(r) \/ Authorize(r) \/ Respond(r)
      PROVE  UNCHANGED poolVars
  BY <1>5, Zenon DEF Refuse, Arrive, Authorize, Respond
<1>6. ASSUME NEW r \in Requests,
             \/ SubmitGroups(r) \/ SubmitTenant(r)
             \/ WaitGroups(r) \/ WaitTenant(r) \/ Drain(r)
      PROVE  [Pool!Next]_poolVars
  <2>1. \/ UNCHANGED poolVars
        \/ \E j \in {GroupsJob(r), TenantJob(r)} : Pool!CallerStep(j)
    BY <1>6, Zenon DEF SubmitGroups, SubmitTenant, WaitGroups, WaitTenant, Drain,
       Pool!CallerStep
  <2>2. \A j \in {GroupsJob(r), TenantJob(r)} : j \in Requests \X {"groups", "tenant"}
    BY JobsOfRequests, Zenon DEF Jobs
  <2> QED
    BY <2>1, <2>2, Zenon DEF Pool!Next, Jobs
<1>7. CASE UNCHANGED vars
  BY <1>7, Zenon DEF vars, poolVars
<1> QED
  BY <1>1, <1>2, <1>3, <1>4, <1>5, <1>6, <1>7, Zenon DEF Next, HandlerStep

\* Whatever the handlers do is something that the pool's specification lets its
\* callers do: a job is submitted once, collected once, and only after it was
\* accepted, on every path of ProcessRequest, its deferred waitTenant included.
THEOREM HookUsesPool == Spec => UsesPool
<1>1. Init => Pool!Init
  BY Zenon DEF Init
<1>2. [Next]_vars => [Pool!Next]_(Pool!poolVars)
  BY StepUsesPool, Zenon DEF poolVars, Pool!poolVars
<1> QED
  BY <1>1, <1>2, PTL DEF Spec, UsesPool, Pool!Spec
-----------------------------------------------------------------------------
(***************************************************************************)
(* The handlers: type correctness, and where the jobs, the outcome and the  *)
(* reply of a request are.                                                  *)
(***************************************************************************)

Follows(r) == JobsFollow(r) /\ OutcomeFollows(r) /\ ReplyFollows(r)

\* What is known of a request and of its jobs in a state of HookInv.
LEMMA RequestFacts ==
  ASSUME HookInv, NEW r \in Requests
  PROVE  /\ Follows(r)
         /\ pc[r] \in Places /\ req[r] \in RequestData /\ outcome[r] \in Outcomes
         /\ \A j \in {GroupsJob(r), TenantJob(r)} :
              /\ j \in Jobs
              /\ client[j] \in {"fresh", "submitted", "rejected", "collected"}
              /\ received[j] \in Answers \cup {NoAnswer}
              /\ received[j] # NoAnswer =>
                   /\ received[j].verdict \in {"ok", "error", "notMember"}
                   /\ received[j].groups \subseteq Groups
         /\ GroupsJob(r) # TenantJob(r)
<1>1. GroupsJob(r) \in Jobs /\ TenantJob(r) \in Jobs /\ GroupsJob(r) # TenantJob(r)
  BY JobsOfRequests, Zenon DEF GroupsJob, TenantJob
<1>2. /\ client \in [Jobs -> {"fresh", "submitted", "rejected", "collected"}]
      /\ received \in [Jobs -> Answers \cup {NoAnswer}]
  BY ZenonT(30) DEF HookInv, TypeOK, Pool!TypeOK, Jobs, Answers
<1>3. \A a \in Answers : a.verdict \in {"ok", "error", "notMember"} /\ a.groups \subseteq Groups
  BY Zenon DEF Answers
<1> QED
  BY <1>1, <1>2, <1>3 DEF HookInv, TypeOK, Follows

\* Every step keeps the types.
LEMMA NextHookTypes ==
  ASSUME HookInv, [Next]_vars, Pool!PoolInv'
  PROVE  TypeOK'
<1>2. Pool!TypeOK'
  BY Zenon DEF Pool!PoolInv
<1>3. /\ pc \in [Requests -> Places] /\ req \in [Requests -> RequestData]
      /\ outcome \in [Requests -> Outcomes]
      /\ reply \in [Requests -> [status : {0, 200, 400, 401, 403, 429, 500},
                                 groups : SUBSET Groups, tenant : BOOLEAN]]
      /\ told \in [Jobs -> Answers \cup {NoAnswer}]
  BY ZenonT(30) DEF HookInv, TypeOK
<1>4. ASSUME UNCHANGED <<hookVars, told>>
      PROVE  TypeOK'
  BY <1>2, <1>3, <1>4, ZenonT(30) DEF TypeOK, hookVars
<1>5. CASE StartPool \/ StopPool \/ UNCHANGED vars
  BY <1>4, <1>5, Zenon DEF StartPool, StopPool, vars, hookVars
<1>6. ASSUME NEW w \in Workers, WorkerMoves(w) \/ JobPanics(w)
      PROVE  TypeOK'
  BY <1>4, <1>6, Zenon DEF WorkerMoves, JobPanics
<1>7. ASSUME NEW w \in Workers, JobReturns(w)
      PROVE  TypeOK'
  <2>1. PICK a \in Answers : told' = [told EXCEPT ![holds[w]] = a]
    BY <1>7, AnswersOfJobs, Zenon DEF JobReturns
  <2> DEFINE A == Answers \cup {NoAnswer}
  <2>2. told \in [Jobs -> A] /\ a \in A
    BY <1>3, Zenon
  <2>3. told' \in [Jobs -> A]
    <3> HIDE DEF A
    <3> QED  BY <2>1, <2>2, Zenon
  <2> QED
    BY <1>2, <1>3, <1>7, <2>3, ZenonT(30) DEF JobReturns, TypeOK, hookVars
<1>8. ASSUME NEW r \in Requests, Refuse(r)
      PROVE  TypeOK'
  <2> DEFINE R == [status : {0, 200, 400, 401, 403, 429, 500},
                   groups : SUBSET Groups, tenant : BOOLEAN]
  <2>1. pc' \in [Requests -> Places]
    BY <1>3, <1>8 DEF Refuse, Goto, Places
  <2>2. reply \in [Requests -> R]
    BY <1>3
  <2>3. PICK c \in {400, 401} : reply' = [reply EXCEPT ![r].status = c]
    BY <1>8, Zenon DEF Refuse
  <2>4. [reply[r] EXCEPT !.status = c] \in R
    BY <2>2, SMT
  <2>5. reply' \in [Requests -> R]
    <3> HIDE DEF R
    <3> QED  BY <2>2, <2>3, <2>4, SMT
  <2> QED
    BY <1>2, <1>3, <1>8, <2>1, <2>5, ZenonT(30) DEF Refuse, TypeOK
<1>9. ASSUME NEW r \in Requests, Arrive(r)
      PROVE  TypeOK'
  BY <1>2, <1>3, <1>9, ArrivalsAreRequests DEF Arrive, TypeOK, Goto, Places
<1>10. ASSUME NEW r \in Requests,
              \/ SubmitGroups(r) \/ SubmitTenant(r)
              \/ WaitGroups(r) \/ Authorize(r) \/ Drain(r)
       PROVE  TypeOK'
  <2>1. pc' \in [Requests -> Places] /\ outcome' \in [Requests -> Outcomes]
    BY <1>3, <1>10 DEF SubmitGroups, SubmitTenant, WaitGroups,
                       Authorize, Drain, Goto, Decide, Places, Outcomes
  <2>2. UNCHANGED <<req, reply, told>>
    BY <1>10, Zenon DEF SubmitGroups, SubmitTenant, WaitGroups, Authorize, Drain
  <2> QED
    BY <1>2, <1>3, <2>1, <2>2, ZenonT(30) DEF TypeOK
<1>11. ASSUME NEW r \in Requests, WaitTenant(r)
       PROVE  TypeOK'
  BY <1>2, <1>3, <1>11 DEF WaitTenant, TypeOK, Goto, Places, Outcomes, TenantOutcome
<1>12. ASSUME NEW r \in Requests, Respond(r)
       PROVE  TypeOK'
  <2>1. outcome[r] = "ok" => received[GroupsJob(r)].groups \subseteq Groups
    BY RequestFacts, Zenon DEF Follows, OutcomeFollows
  <2>2. req[r].claim \subseteq Groups /\ req[r].tenant \in BOOLEAN
    BY RequestFacts, Zenon DEF RequestData
  <2>3. Status(outcome[r]) \in {200, 403, 429, 500}
    BY DEF Status
  <2> DEFINE R == [status : {0, 200, 400, 401, 403, 429, 500},
                   groups : SUBSET Groups, tenant : BOOLEAN]
             issued == [status |-> 200,
                        groups |-> GroupsClaim(received[GroupsJob(r)].groups, req[r].claim),
                        tenant |-> req[r].tenant]
  <2>9. ASSUME NEW n \in {200, 403, 429, 500}, NEW c \in SUBSET Groups, NEW b \in BOOLEAN
        PROVE  [status |-> n, groups |-> c, tenant |-> b] \in R
    OBVIOUS
  <2>4. outcome[r] = "ok" => GroupsClaim(received[GroupsJob(r)].groups, req[r].claim) \in SUBSET Groups
    BY <2>1, <2>2, Zenon DEF GroupsClaim
  <2>5. outcome[r] = "ok" => issued \in R
    BY <2>2, <2>4, <2>9, ZenonT(30)
  <2>6. Rejection(Status(outcome[r])) \in R
    <3>1. ASSUME NEW n \in {200, 403, 429, 500}
          PROVE  Rejection(n) \in R
      BY DEF Rejection
    <3> QED BY <2>3, <3>1
  <2>7. reply' = [reply EXCEPT ![r] = IF outcome[r] = "ok" THEN issued ELSE Rejection(Status(outcome[r]))]
    BY <1>12, Zenon DEF Respond
  <2>8. reply' \in [Requests -> R]
    <3> HIDE DEF R, issued
    <3> reply \in [Requests -> R]
      BY <1>3, ZenonT(30) DEF R
    <3> QED BY <2>5, <2>6, <2>7, Zenon
  <2> QED
    BY <1>2, <1>3, <1>12, <2>8 DEF Respond, TypeOK, Goto, Places
<1> QED
  BY <1>5, <1>6, <1>7, <1>8, <1>9, <1>10, <1>11, <1>12, Zenon DEF Next, HandlerStep

\* Nothing happens to request s.
SameRequest(s) ==
  /\ pc'[s] = pc[s] /\ req'[s] = req[s]
  /\ outcome'[s] = outcome[s] /\ reply'[s] = reply[s]
  /\ \A j \in {GroupsJob(s), TenantJob(s)} : client'[j] = client[j] /\ received'[j] = received[j]

\* A request that a step leaves as it was stays in order.
LEMMA SameFollows ==
  ASSUME NEW s \in Requests, SameRequest(s), Follows(s)
  PROVE  Follows(s)'
<1>1. JobsFollow(s)'
  BY Zenon DEF Follows, SameRequest, JobsFollow, TenantJobIs
<1>2. OutcomeFollows(s)'
  BY Zenon DEF Follows, SameRequest, OutcomeFollows, TenantJobIs
<1>3. ReplyFollows(s)'
  BY DEF Follows, SameRequest, ReplyFollows
<1> QED
  BY <1>1, <1>2, <1>3, Zenon DEF Follows

\* The steps of the pool are nothing to a request.
LEMMA PoolSideSame ==
  ASSUME NEW s \in Requests,
         \/ StartPool \/ StopPool \/ UNCHANGED vars
         \/ \E w \in Workers : JobReturns(w) \/ WorkerMoves(w) \/ JobPanics(w)
  PROVE  SameRequest(s)
<1>1. UNCHANGED <<client, received, hookVars>>
  BY Zenon DEF StartPool, StopPool, JobReturns, WorkerMoves, JobPanics, vars, hookVars, Pool!Start,
     Pool!Stop, Pool!StopReturns, Pool!TakeJob, Pool!GoDown, Pool!CheckShutdown, Pool!Return,
     Pool!Panic, Pool!Send, Pool!Finish, Pool!Recover
<1> QED
  BY <1>1, Zenon DEF SameRequest, hookVars

\* The steps of a handler are nothing to the other requests.
LEMMA OthersSame ==
  ASSUME HookInv, NEW r \in Requests, NEW s \in Requests \ {r},
         Refuse(r) \/ Arrive(r) \/ HandlerStep(r)
  PROVE  SameRequest(s)
<1>1. UNCHANGED <<pc[s], req[s], outcome[s], reply[s]>>
  BY DEF HookInv, TypeOK, Refuse, Arrive, HandlerStep, SubmitGroups, SubmitTenant,
         WaitGroups, Authorize, WaitTenant, Drain, Respond, Goto, Decide
<1>2. \/ UNCHANGED <<client, received>>
      \/ \E j \in {GroupsJob(r), TenantJob(r)} :
           \/ Pool!Accept(j) \/ Pool!Refuse(j) \/ Pool!Collect(j)
  BY ZenonT(30) DEF Refuse, Arrive, HandlerStep, SubmitGroups, SubmitTenant,
       WaitGroups, Authorize, WaitTenant, Drain, Respond, poolVars
<1>3. \A j \in {GroupsJob(r), TenantJob(r)}, k \in {GroupsJob(s), TenantJob(s)} : j # k
  BY DEF GroupsJob, TenantJob
<1>4. \A k \in {GroupsJob(s), TenantJob(s)} : k \in Jobs
  BY JobsOfRequests, Zenon
<1>5. client \in [Jobs -> {"fresh", "submitted", "rejected", "collected"}]
      /\ received \in [Jobs -> Answers \cup {NoAnswer}]
  BY ZenonT(30) DEF HookInv, TypeOK, Pool!TypeOK, Jobs, Answers
<1>6. \A k \in {GroupsJob(s), TenantJob(s)} : client'[k] = client[k] /\ received'[k] = received[k]
  BY <1>2, <1>3, <1>4, <1>5, Zenon DEF Pool!Accept, Pool!Refuse, Pool!Collect
<1> QED
  BY <1>1, <1>6, Zenon DEF SameRequest
\* What the three calls of a caller do to the clients and to what they received.
LEMMA CallEffect ==
  ASSUME HookInv, NEW r \in Requests, NEW j \in {GroupsJob(r), TenantJob(r)}
  PROVE  /\ Pool!Accept(j) => client'[j] = "submitted"
         /\ Pool!Refuse(j) => client'[j] = "rejected"
         /\ Pool!Collect(j) => client'[j] = "collected"
         /\ Pool!Accept(j) \/ Pool!Refuse(j) => received' = received
         /\ Pool!Accept(j) \/ Pool!Refuse(j) \/ Pool!Collect(j) =>
              \A k \in {GroupsJob(r), TenantJob(r)} \ {j} :
                client'[k] = client[k] /\ received'[k] = received[k]
<1>1. client \in [Jobs -> {"fresh", "submitted", "rejected", "collected"}]
      /\ received \in [Jobs -> Answers \cup {NoAnswer}]
  BY ZenonT(30) DEF HookInv, TypeOK, Pool!TypeOK, Jobs, Answers
<1>2. GroupsJob(r) \in Jobs /\ TenantJob(r) \in Jobs
  BY JobsOfRequests, Zenon
<1> QED
  BY <1>1, <1>2 DEF Pool!Accept, Pool!Refuse, Pool!Collect

\* A handler that has not answered has nothing to account for.
LEMMA StillOpen ==
  ASSUME NEW r \in Requests, ReplyFollows(r), pc[r] # "done", pc'[r] # "done", reply' = reply
  PROVE  ReplyFollows(r)'
BY Zenon DEF ReplyFollows

\* What a step of a handler starts from.
LEMMA OwnTypes ==
  ASSUME HookInv
  PROVE  /\ pc \in [Requests -> Places]
         /\ outcome \in [Requests -> Outcomes]
         /\ DOMAIN reply = Requests
BY ZenonT(30) DEF HookInv, TypeOK

\* The invariant, for one request.
LEMMA OwnFacts ==
  ASSUME HookInv, NEW r \in Requests
  PROVE  /\ JobsFollow(r) /\ OutcomeFollows(r) /\ ReplyFollows(r)
         /\ GroupsJob(r) # TenantJob(r)
<1>1. Follows(r) /\ GroupsJob(r) # TenantJob(r)
  BY RequestFacts, Zenon
<1> QED
  BY <1>1, Zenon DEF Follows

(***************************************************************************)
(* A step of a handler leaves its own request in order.                     *)
(***************************************************************************)
LEMMA RefuseFollows ==
  ASSUME HookInv, NEW r \in Requests, Refuse(r)
  PROVE  Follows(r)'
<1> DEFINE g == GroupsJob(r)
           t == TenantJob(r)
<1>1. UNCHANGED <<client, received, req, outcome>>
  BY Zenon DEF Refuse, poolVars
<1>2. /\ pc[r] = "idle" /\ pc'[r] = "done"
      /\ reply'[r].status \in {400, 401}
  BY OwnTypes DEF Refuse, Goto
<1>jobs. JobsFollow(r)'
  BY OwnFacts, <1>1, <1>2, ZenonT(30) DEF JobsFollow, TenantJobIs
<1>outcome. OutcomeFollows(r)' /\ outcome'[r] = "none"
  BY OwnFacts, <1>1, <1>2 DEF OutcomeFollows, TenantJobIs
<1>reply. ReplyFollows(r)'
  BY <1>2, <1>outcome, Zenon DEF ReplyFollows
<1> QED
  BY <1>jobs, <1>outcome, <1>reply, Zenon DEF Follows

\* A request arrives.
LEMMA ArriveFollows ==
  ASSUME HookInv, NEW r \in Requests, Arrive(r)
  PROVE  Follows(r)'
<1> DEFINE g == GroupsJob(r)
           t == TenantJob(r)
<1>1. UNCHANGED <<client, received, outcome, reply>>
  BY Zenon DEF Arrive, poolVars
<1>2. pc[r] = "idle" /\ pc'[r] = "submitGroups"
  BY OwnTypes, Zenon DEF Arrive, Goto
<1>jobs. JobsFollow(r)'
  BY OwnFacts, <1>1, <1>2, Zenon DEF JobsFollow, TenantJobIs
<1>outcome. OutcomeFollows(r)'
  BY OwnFacts, <1>1, <1>2, Zenon DEF OutcomeFollows, TenantJobIs
<1>reply. ReplyFollows(r)'
  BY OwnFacts, <1>1, <1>2, StillOpen, Zenon
<1> QED
  BY <1>jobs, <1>outcome, <1>reply, Zenon DEF Follows

\* It submits the job that fetches the groups.
LEMMA SubmitGroupsFollows ==
  ASSUME HookInv, NEW r \in Requests, SubmitGroups(r)
  PROVE  Follows(r)'
<1> DEFINE g == GroupsJob(r)
           t == TenantJob(r)
<1>1. UNCHANGED <<req, reply>> /\ pc[r] = "submitGroups"
  BY Zenon DEF SubmitGroups
<1>2. CASE Pool!Accept(g) /\ Goto(r, IF req[r].tenant THEN "submitTenant" ELSE "waitGroups")
           /\ UNCHANGED outcome
  <2>1. pc'[r] = IF req[r].tenant THEN "submitTenant" ELSE "waitGroups"
    BY OwnTypes, <1>2, Zenon DEF Goto
  <2>2. client'[g] = "submitted" /\ client'[t] = client[t]
    BY OwnFacts, <1>2, CallEffect, Zenon
  <2>jobs. JobsFollow(r)'
    BY OwnFacts, <1>1, <1>2, <2>1, <2>2, Zenon DEF JobsFollow, TenantJobIs
  <2>outcome. OutcomeFollows(r)'
    BY OwnFacts, <1>1, <1>2, <2>1, <2>2, Zenon DEF OutcomeFollows, TenantJobIs
  <2>reply. ReplyFollows(r)'
    BY OwnFacts, <1>1, <1>2, <2>1, <2>2, StillOpen, Zenon
  <2> QED
    BY <2>jobs, <2>outcome, <2>reply, Zenon DEF Follows
<1>3. CASE Pool!Refuse(g) /\ Decide(r, "tooBusy")
  <2>1. pc'[r] = "drain" /\ outcome'[r] = "tooBusy"
    BY OwnTypes, <1>3, Zenon DEF Decide, Goto
  <2>2. client'[g] = "rejected" /\ client'[t] = client[t]
    BY OwnFacts, <1>3, CallEffect, Zenon
  <2>jobs. JobsFollow(r)'
    BY OwnFacts, <1>1, <2>1, <2>2, Zenon DEF JobsFollow, TenantJobIs
  <2>outcome. OutcomeFollows(r)'
    BY OwnFacts, <1>1, <2>1, <2>2, Zenon DEF OutcomeFollows, TenantJobIs
  <2>reply. ReplyFollows(r)'
    BY OwnFacts, <1>1, <2>1, <2>2, StillOpen, Zenon
  <2> QED
    BY <2>jobs, <2>outcome, <2>reply, Zenon DEF Follows
<1> QED
  BY <1>2, <1>3, Zenon DEF SubmitGroups

\* It submits the job that validates the tenant.
LEMMA SubmitTenantFollows ==
  ASSUME HookInv, NEW r \in Requests, SubmitTenant(r)
  PROVE  Follows(r)'
<1> DEFINE g == GroupsJob(r)
           t == TenantJob(r)
<1>1. UNCHANGED <<req, reply, outcome>> /\ pc[r] = "submitTenant"
  BY Zenon DEF SubmitTenant
<1>2. client'[g] = client[g] /\ received' = received
  BY OwnFacts, CallEffect, Zenon DEF SubmitTenant
<1>3. client'[t] \in {"submitted", "rejected"} /\ pc'[r] = "waitGroups"
  BY OwnTypes, CallEffect, Zenon DEF SubmitTenant, Goto
<1>jobs. JobsFollow(r)'
  BY OwnFacts, <1>1, <1>2, <1>3, Zenon DEF JobsFollow, TenantJobIs
<1>outcome. OutcomeFollows(r)'
  BY OwnFacts, <1>1, <1>2, <1>3, Zenon DEF OutcomeFollows, TenantJobIs
<1>reply. ReplyFollows(r)'
  BY OwnFacts, <1>1, <1>2, <1>3, StillOpen, Zenon
<1> QED
  BY <1>jobs, <1>outcome, <1>reply, Zenon DEF Follows

\* It receives the groups.
LEMMA WaitGroupsFollows ==
  ASSUME HookInv, NEW r \in Requests, WaitGroups(r)
  PROVE  Follows(r)'
<1> DEFINE g == GroupsJob(r)
           t == TenantJob(r)
<1>1. UNCHANGED <<req, reply>> /\ pc[r] = "waitGroups"
  BY Zenon DEF WaitGroups
<1>2. client'[g] = "collected" /\ client'[t] = client[t] /\ received'[t] = received[t]
  BY OwnFacts, CallEffect, Zenon DEF WaitGroups
<1>3. \/ /\ client[t] = "rejected" \/ received'[g] = NoAnswer
         /\ pc'[r] = "drain" /\ outcome'[r] = "tooBusy"
      \/ /\ received'[g] # NoAnswer /\ received'[g].verdict # "ok"
         /\ pc'[r] = "drain" /\ outcome'[r] = "failed"
      \/ /\ received'[g] # NoAnswer /\ received'[g].verdict = "ok"
         /\ client[t] # "rejected"
         /\ pc'[r] = "authorize" /\ outcome' = outcome
  BY OwnTypes, Zenon DEF WaitGroups, TenantRefused, Decide, Goto
<1>jobs. JobsFollow(r)'
  BY OwnFacts, <1>1, <1>2, <1>3, Zenon DEF JobsFollow, TenantJobIs
<1>outcome. OutcomeFollows(r)'
  BY OwnFacts, <1>1, <1>2, <1>3, Zenon DEF OutcomeFollows, TenantJobIs
<1>reply. ReplyFollows(r)'
  BY OwnFacts, <1>1, <1>2, <1>3, StillOpen, Zenon
<1> QED
  BY <1>jobs, <1>outcome, <1>reply, Zenon DEF Follows

\* It is authorized, or not.
LEMMA AuthorizeFollows ==
  ASSUME HookInv, NEW r \in Requests, Authorize(r)
  PROVE  Follows(r)'
<1> DEFINE g == GroupsJob(r)
           t == TenantJob(r)
<1>1. UNCHANGED <<req, reply, client, received>> /\ pc[r] = "authorize"
  BY Zenon DEF Authorize, poolVars
<1>2. \/ pc'[r] = "waitTenant" /\ outcome' = outcome
      \/ /\ req[r].account # "serviceNoAudience"
         /\ pc'[r] = "drain" /\ outcome'[r] = "failed"
  BY OwnTypes, Zenon DEF Authorize, Decide, Goto, AuthorizeRequest
<1>3. received[g] # NoAnswer /\ client[g] = "collected"
  BY OwnFacts, <1>1, Zenon DEF JobsFollow
<1>jobs. JobsFollow(r)'
  BY OwnFacts, <1>1, <1>2, ZenonT(30) DEF JobsFollow, TenantJobIs
<1>outcome. OutcomeFollows(r)'
  BY OwnFacts, <1>1, <1>2, <1>3, Zenon DEF OutcomeFollows
<1>reply. ReplyFollows(r)'
  BY OwnFacts, <1>1, <1>2, StillOpen, Zenon
<1> QED
  BY <1>jobs, <1>outcome, <1>reply, Zenon DEF Follows

\* It receives the answer about the tenant.
LEMMA WaitTenantFollows ==
  ASSUME HookInv, NEW r \in Requests, WaitTenant(r)
  PROVE  Follows(r)'
<1> DEFINE g == GroupsJob(r)
           t == TenantJob(r)
<1>1. UNCHANGED <<req, reply>> /\ pc[r] = "waitTenant" /\ pc'[r] = "respond"
  BY OwnTypes, Zenon DEF WaitTenant, Goto
<1>2. received[g] # NoAnswer /\ received[g].verdict = "ok" /\ client[g] = "collected"
      /\ client[t] = IF req[r].tenant THEN "submitted" ELSE "fresh"
  BY OwnFacts, <1>1, Zenon DEF Follows, JobsFollow, TenantJobIs
<1>3. CASE req[r].tenant
  <2>1. /\ client'[t] = "collected" /\ client'[g] = client[g] /\ received'[g] = received[g]
        /\ outcome'[r] = TenantOutcome(received'[t])
    <3>1. /\ Pool!Collect(t)
          /\ outcome' = [outcome EXCEPT ![r] = TenantOutcome(received'[t])]
      BY <1>3, Zenon DEF WaitTenant
    <3>2. outcome'[r] = TenantOutcome(received'[t])
      BY <3>1, OwnTypes, Zenon
    <3> QED
      BY <3>1, <3>2, OwnFacts, CallEffect, Zenon
  <2>2. outcome'[r] \in {"ok", "notMember", "tenantInternal"}
    BY <2>1, Zenon DEF TenantOutcome
  <2>jobs. JobsFollow(r)'
    BY OwnFacts, <1>1, <1>2, <1>3, <2>1, <2>2, Zenon DEF JobsFollow, TenantJobIs
  <2>outcome. OutcomeFollows(r)'
    BY OwnFacts, <1>1, <1>2, <1>3, <2>1, <2>2, ZenonT(30) DEF OutcomeFollows, TenantJobIs
  <2>reply. ReplyFollows(r)'
    BY OwnFacts, <1>1, <1>2, <1>3, <2>1, <2>2, StillOpen, Zenon
  <2> QED
    BY <2>jobs, <2>outcome, <2>reply, Zenon DEF Follows
<1>4. CASE ~req[r].tenant
  <2>1. outcome'[r] = "ok" /\ UNCHANGED <<client, received>>
    <3>1. outcome' = [outcome EXCEPT ![r] = "ok"] /\ UNCHANGED poolVars
      BY <1>4, Zenon DEF WaitTenant
    <3> QED
      BY <3>1, OwnTypes, Zenon DEF poolVars
  <2>2. received[t] = NoAnswer
    BY <1>2, <1>4, JobsOfRequests, Zenon DEF HookInv, AnswersAreTold, AnswerIsTold
  <2>jobs. JobsFollow(r)'
    BY OwnFacts, <1>1, <1>2, <1>4, <2>1, <2>2, Zenon DEF JobsFollow, TenantJobIs
       <2>outcome. OutcomeFollows(r)' BY OwnFacts, <1>1, <1>2, <1>4, <2>1, <2>2, Zenon DEF OutcomeFollows, TenantJobIs, TenantOutcome
  <2>reply. ReplyFollows(r)'
    BY OwnFacts, <1>1, <1>2, <1>4, <2>1, <2>2, StillOpen, Zenon
  <2> QED
    BY <2>jobs, <2>outcome, <2>reply, Zenon DEF Follows
<1> QED
  BY <1>3, <1>4, Zenon

\* An error path waits for the tenant job, if there is one.
LEMMA DrainFollows ==
  ASSUME HookInv, NEW r \in Requests, Drain(r)
  PROVE  Follows(r)'
<1> DEFINE g == GroupsJob(r)
           t == TenantJob(r)
<1>1. UNCHANGED <<req, reply, outcome>> /\ pc[r] = "drain" /\ pc'[r] = "respond"
  BY OwnTypes, Zenon DEF Drain, Goto
<1>2. /\ client'[g] = client[g] /\ received'[g] = received[g]
      /\ client'[t] # "submitted"
      /\ client[t] # "submitted" => client'[t] = client[t]
  BY OwnFacts, CallEffect, Zenon DEF Drain, poolVars
<1>jobs. JobsFollow(r)'
  BY OwnFacts, <1>1, <1>2, ZenonT(30) DEF JobsFollow, TenantJobIs
<1>outcome. OutcomeFollows(r)'
  BY OwnFacts, <1>1, <1>2, ZenonT(30) DEF OutcomeFollows, TenantJobIs
<1>reply. ReplyFollows(r)'
  BY OwnFacts, <1>1, <1>2, StillOpen, Zenon
<1> QED
  BY <1>jobs, <1>outcome, <1>reply, Zenon DEF Follows

\* It responds.
LEMMA RespondFollows ==
  ASSUME HookInv, NEW r \in Requests, Respond(r)
  PROVE  Follows(r)'
<1> DEFINE g == GroupsJob(r)
           t == TenantJob(r)
<1>1. /\ UNCHANGED <<req, outcome, client, received>>
      /\ pc[r] = "respond" /\ pc'[r] = "done"
  BY OwnTypes, Zenon DEF Respond, Goto, poolVars
<1>2. CASE outcome[r] = "ok"
  <2>1. /\ reply'[r].status = 200
        /\ reply'[r].groups = GroupsClaim(received[g].groups, req[r].claim)
        /\ reply'[r].tenant = req[r].tenant
    BY OwnTypes, <1>2, Zenon DEF Respond
  <2>jobs. JobsFollow(r)'
    BY OwnFacts, <1>1, <1>2, <2>1, Zenon DEF JobsFollow, TenantJobIs
  <2>outcome. OutcomeFollows(r)'
    BY OwnFacts, <1>1, <1>2, <2>1, Zenon DEF OutcomeFollows, TenantJobIs
  <2>2. Status(outcome[r]) = 200
    BY <1>2, Zenon DEF Status
  <2>3. received[g].groups # {} => reply'[r].groups = received[g].groups
    BY <2>1, ZenonT(30) DEF GroupsClaim
  <2>reply. ReplyFollows(r)'
    BY <1>1, <1>2, <2>1, <2>2, <2>3, ZenonT(30) DEF ReplyFollows
  <2> QED
    BY <2>jobs, <2>outcome, <2>reply, Zenon DEF Follows
<1>3. CASE outcome[r] # "ok"
  <2>1. reply'[r].status = Status(outcome[r])
    BY OwnTypes, <1>3, ZenonT(30) DEF Respond, Rejection
  <2>jobs. JobsFollow(r)'
    BY OwnFacts, <1>1, <1>3, <2>1, Zenon DEF JobsFollow, TenantJobIs
  <2>outcome. OutcomeFollows(r)'
    BY OwnFacts, <1>1, <1>3, <2>1, Zenon DEF OutcomeFollows, TenantJobIs
  <2>reply. ReplyFollows(r)'
    BY OwnFacts, <1>1, <1>3, <2>1, ZenonT(30) DEF OutcomeFollows, ReplyFollows
  <2> QED
    BY <2>jobs, <2>outcome, <2>reply, Zenon DEF Follows
<1> QED
  BY <1>2, <1>3, Zenon

\* Every step of a request.
LEMMA OwnFollows ==
  ASSUME HookInv, NEW r \in Requests, Refuse(r) \/ Arrive(r) \/ HandlerStep(r)
  PROVE  Follows(r)'
BY RefuseFollows, ArriveFollows, SubmitGroupsFollows, SubmitTenantFollows,
   WaitGroupsFollows, AuthorizeFollows, WaitTenantFollows, DrainFollows, RespondFollows, Zenon DEF
   HandlerStep

-----------------------------------------------------------------------------
(***************************************************************************)
(* The answers: from the function of a job to the caller of that job.       *)
(***************************************************************************)

Honest == AnswersAreTold /\ LossNeedsFault

\* What is known of the pool in a state of HookInv.
LEMMA PoolFacts ==
  ASSUME HookInv
  PROVE  /\ Pool!TypeOK /\ queue \in Seq(Jobs)
         /\ worker \in [Workers -> Pool!Places]
         /\ holds \in [Workers -> Jobs \cup {NoJob}]
         /\ value \in [Workers -> Answers \cup {NoAnswer}]
         /\ client \in [Jobs -> {"fresh", "submitted", "rejected", "collected"}]
         /\ results \in [Jobs -> Seq(Answers)]
         /\ received \in [Jobs -> Answers \cup {NoAnswer}]
         /\ told \in [Jobs -> Answers \cup {NoAnswer}]
         /\ Honest
BY ZenonT(30) DEF HookInv, TypeOK, Pool!TypeOK, Jobs, Answers, Honest

\* The invariant of the pool, for one job.
LEMMA JobFacts ==
  ASSUME HookInv, NEW j \in Jobs
  PROVE  /\ Pool!InQueue(j) => client[j] = "submitted" /\ results[j] = <<>>
         /\ jobWg[j] = 0 => ~Pool!InQueue(j) /\ \A w \in Workers : holds[w] # j
         /\ results[j] # <<>> => client[j] = "submitted" /\ Len(results[j]) = 1
         /\ results[j] \in Seq(Answers)
<1>1. /\ Pool!InQueue(j) \/ Pool!Holders(j) # {} => client[j] = "submitted"
      /\ jobWg[j] = IF Pool!InQueue(j) \/ Pool!Holders(j) # {} THEN 1 ELSE 0
      /\ Len(results[j]) <= 1
      /\ results[j] # <<>> => client[j] = "submitted"
      /\ Pool!InQueue(j) => results[j] = <<>>
  BY Zenon DEF HookInv, Pool!PoolInv, Pool!JobInOnePlace, Pool!HandsMatchPlaces,
     Pool!ChannelsInOrder, Jobs
<1>2. results[j] \in Seq(Answers)
  BY PoolFacts, Zenon
<1>3. results[j] # <<>> => Len(results[j]) = 1
  <2> SUFFICES ASSUME results[j] # <<>> PROVE Len(results[j]) = 1
    BY Zenon
  <2>1. Len(results[j]) \in Nat /\ Len(results[j]) # 0
    BY <1>2
  <2>2. Len(results[j]) <= 1
    BY <1>1, Zenon
  <2>3. \A n \in Nat : n # 0 /\ n <= 1 => n = 1
    OBVIOUS
  <2> QED
    BY <2>1, <2>2, <2>3, Zenon
<1> QED
  BY <1>1, <1>2, <1>3 DEF Pool!Holders

\* The invariant of the pool, for one worker.
LEMMA WorkerFacts ==
  ASSUME HookInv, NEW w \in Workers, worker[w] \in Pool!Busy
  PROVE  /\ holds[w] \in Jobs /\ client[holds[w]] = "submitted"
         /\ ~Pool!InQueue(holds[w])
         /\ \A x \in Workers : holds[x] = holds[w] => x = w
         /\ ~closed[holds[w]]
         /\ worker[w] \in {"picked", "running", "sending", "panicking"} => results[holds[w]] = <<>>
<1>1. holds[w] \in Jobs
  BY PoolFacts, Zenon DEF HookInv, Pool!PoolInv, Pool!HandsMatchPlaces
<1>2. w \in Pool!Holders(holds[w])
  BY Zenon DEF Pool!Holders
<1>3. client[holds[w]] = "submitted"
  BY <1>1, <1>2, Zenon DEF HookInv, Pool!PoolInv, Pool!HandsMatchPlaces, Jobs
<1>4. /\ ~Pool!InQueue(holds[w])
      /\ \A x, y \in Pool!Holders(holds[w]) : x = y
  BY <1>1, <1>2, Zenon DEF HookInv, Pool!PoolInv, Pool!JobInOnePlace, Jobs
<1>5. /\ ~closed[holds[w]]
      /\ worker[w] \in {"picked", "running", "sending", "panicking"} => results[holds[w]] = <<>>
  BY <1>1, <1>3, Zenon DEF HookInv, Pool!PoolInv, Pool!ChannelsInOrder, Jobs
<1> QED
  BY <1>1, <1>2, <1>3, <1>4, <1>5, Zenon DEF Pool!Holders

\* The channel of the pool: Submit appends, a worker takes the head.
LEMMA QueueGrows ==
  ASSUME queue \in Seq(Jobs), NEW j \in Jobs, queue' = Append(queue, j)
  PROVE  \A k : Pool!InQueue(k)' <=> Pool!InQueue(k) \/ k = j
BY DEF Pool!InQueue

\* A job leaves the queue.
LEMMA QueueShrinks ==
  ASSUME queue \in Seq(Jobs), queue # <<>>, queue' = Tail(queue)
  PROVE  /\ Head(queue) \in Jobs /\ Pool!InQueue(Head(queue))
         /\ \A k : Pool!InQueue(k) <=> Pool!InQueue(k)' \/ k = Head(queue)
<1>1. /\ Len(queue) \in Nat \ {0} /\ Len(queue') = Len(queue) - 1
      /\ Head(queue) = queue[1] /\ Head(queue) \in Jobs
      /\ \A i \in 1..Len(queue') : queue'[i] = queue[i + 1]
  OBVIOUS
<1>2. \A i \in 2..Len(queue) : i - 1 \in 1..Len(queue') /\ queue'[i - 1] = queue[i]
  BY <1>1
<1>3. ASSUME NEW k, Pool!InQueue(k)
      PROVE  Pool!InQueue(k)' \/ k = Head(queue)
  <2>1. PICK i \in 1..Len(queue) : queue[i] = k
    BY <1>3, Zenon DEF Pool!InQueue
  <2>2. i = 1 \/ i \in 2..Len(queue)
    BY <1>1
  <2> QED
    BY <1>1, <1>2, <2>1, <2>2, Zenon DEF Pool!InQueue
<1>4. ASSUME NEW k, Pool!InQueue(k)'
      PROVE  Pool!InQueue(k)
  BY <1>1, <1>4 DEF Pool!InQueue
<1>5. Pool!InQueue(Head(queue))
  BY <1>1 DEF Pool!InQueue
<1> QED
  BY <1>1, <1>3, <1>4, <1>5, Zenon
\* A fault of the pool is never undone.
LEMMA FaultsStay ==
  ASSUME HookInv, [Pool!Next]_poolVars, Healthy'
  PROVE  Healthy
<1>1. worker \in [Workers -> Pool!Places]
  BY PoolFacts, Zenon
<1>2. shutdown => shutdown'
  BY Zenon DEF Pool!Next, Pool!Start, Pool!Stop, Pool!StopReturns, Pool!WorkerStep, Pool!TakeJob,
         Pool!GoDown, Pool!CheckShutdown, Pool!Return, Pool!Panic, Pool!Send, Pool!Finish,
         Pool!Recover, Pool!CallerStep, Pool!Accept, Pool!Refuse, Pool!Collect, poolVars
<1>3. ASSUME NEW w \in Workers, worker[w] \in {"panicking", "recovering", "gone"}
      PROVE  worker'[w] \in {"panicking", "recovering", "gone"}
  BY <1>1, <1>3, Zenon
  DEF Pool!Next, Pool!Start, Pool!Stop, Pool!StopReturns, Pool!WorkerStep, Pool!TakeJob,
      Pool!GoDown, Pool!CheckShutdown, Pool!Return, Pool!Panic, Pool!Send, Pool!Finish,
      Pool!Recover, Pool!CallerStep, Pool!Accept, Pool!Refuse, Pool!Collect, poolVars
<1> QED
  BY <1>2, <1>3, Zenon DEF Healthy

\* Nothing happens to the jobs, and no worker starts, ends or breaks off the
\* function of one: GoDown, Recover, CheckShutdown without a shutdown, the
\* steps of Stop, and the steps of the handlers outside of the pool.
LEMMA QuietStep ==
  ASSUME HookInv, [Pool!Next]_poolVars,
         UNCHANGED <<queue, holds, value, client, results, received, told>>,
         \A w \in Workers :
           /\ worker[w] = "sending" <=> worker'[w] = "sending"
           /\ worker'[w] \in {"picked", "running"} => worker[w] \in {"picked", "running"}
           /\ Healthy' /\ worker[w] \in {"picked", "running"} => worker'[w] \in {"picked", "running"}
  PROVE  Honest'
<1>1. AnswersAreTold'
  BY PoolFacts, ZenonT(30) DEF Honest, AnswersAreTold, AnswerIsTold, Pool!InQueue
<1>2. LossNeedsFault'
  BY PoolFacts, FaultsStay, ZenonT(30) DEF Honest, LossNeedsFault, NotLost, Pool!InQueue
<1> QED
  BY <1>1, <1>2, Zenon DEF Honest

\* A worker takes a job.
LEMMA TakeJobHonest ==
  ASSUME HookInv, NEW w \in Workers, Pool!TakeJob(w), told' = told, [Pool!Next]_poolVars
  PROVE  Honest'
<1> DEFINE h == Head(queue)
<1>1. /\ worker[w] = "select" /\ worker' = [worker EXCEPT ![w] = "picked"]
      /\ holds' = [holds EXCEPT ![w] = h] /\ queue # <<>> /\ queue' = Tail(queue)
      /\ UNCHANGED <<value, client, results, received>>
  BY Zenon DEF Pool!TakeJob
<1>2. h \in Jobs /\ Pool!InQueue(h) /\ \A k : Pool!InQueue(k) <=> Pool!InQueue(k)' \/ k = h
  BY <1>1, PoolFacts, QueueShrinks, Zenon
<1>3. /\ worker'[w] = "picked" /\ holds'[w] = h
      /\ \A x \in Workers \ {w} : worker'[x] = worker[x] /\ holds'[x] = holds[x]
  BY <1>1, PoolFacts, Zenon
<1>4. told[h] = NoAnswer
  BY <1>2, PoolFacts, Zenon DEF Honest, AnswersAreTold, AnswerIsTold
<1> HIDE DEF h
<1>5. AnswersAreTold'
  <2>1. ASSUME NEW j \in Jobs PROVE AnswerIsTold(j)'
    BY <1>1, <1>2, <1>3, <1>4, PoolFacts, Zenon DEF Honest, AnswersAreTold, AnswerIsTold
  <2> QED
    BY <1>1, <1>3, <1>4, <2>1, PoolFacts, Zenon DEF Honest, AnswersAreTold
<1>6. LossNeedsFault'
  <2> SUFFICES ASSUME Healthy', NEW j \in Jobs PROVE NotLost(j)'
    BY Zenon DEF LossNeedsFault
  <2>1. NotLost(j)
    BY PoolFacts, FaultsStay, Zenon DEF Honest, LossNeedsFault
  <2> QED
    BY <1>1, <1>2, <1>3, <2>1, Zenon DEF NotLost
<1> QED
  BY <1>5, <1>6, Zenon DEF Honest

\* A job returns.
LEMMA ReturnHonest ==
  ASSUME HookInv, NEW w \in Workers, JobReturns(w), [Pool!Next]_poolVars
  PROVE  Honest'
<1> DEFINE h == holds[w]
<1>1. PICK a \in Answers :
        /\ worker[w] = "running" /\ worker' = [worker EXCEPT ![w] = "sending"]
        /\ value' = [value EXCEPT ![w] = a] /\ told' = [told EXCEPT ![h] = a]
        /\ \A r \in Requests : h = GroupsJob(r) => a \in FetchAnswers
        /\ (\A r \in Requests : h # GroupsJob(r)) => a \in ValidateAnswers
  <2>1. PICK a \in IF h \in {GroupsJob(r) : r \in Requests} THEN FetchAnswers ELSE ValidateAnswers :
          Pool!Return(w, a) /\ told' = [told EXCEPT ![h] = a]
    BY Zenon DEF JobReturns
  <2> QED
    BY <2>1, AnswersOfJobs, Zenon DEF Pool!Return
<1>2. UNCHANGED <<queue, holds, client, results, received>>
  BY Zenon DEF JobReturns, Pool!Return
<1>3. /\ h \in Jobs /\ client[h] = "submitted" /\ ~Pool!InQueue(h)
      /\ \A x \in Workers : holds[x] = h => x = w
      /\ results[h] = <<>>
  BY <1>1, WorkerFacts, Zenon DEF Pool!Busy
<1>4. /\ worker'[w] = "sending" /\ value'[w] = a /\ told'[h] = a
      /\ \A x \in Workers \ {w} : worker'[x] = worker[x] /\ value'[x] = value[x]
      /\ \A j \in Jobs \ {h} : told'[j] = told[j]
  BY <1>1, <1>3, PoolFacts, Zenon
<1>5. AnswersAreTold'
  <2>1. ASSUME NEW j \in Jobs PROVE AnswerIsTold(j)'
    BY <1>1, <1>2, <1>3, <1>4, PoolFacts DEF Honest, AnswersAreTold, AnswerIsTold, Pool!InQueue
  <2>2. ASSUME NEW x \in Workers
        PROVE  /\ worker'[x] = "sending" => value'[x] = told'[holds'[x]]
               /\ worker'[x] \in {"picked", "running"} => told'[holds'[x]] = NoAnswer
    <3>1. CASE x = w
      BY <1>2, <1>4, <3>1, ZenonT(30)
    <3>2. CASE x # w /\ worker[x] \in Pool!Busy
      <4>1. holds[x] \in Jobs \ {h}
        BY <1>3, <3>2, WorkerFacts, Zenon
      <4> QED
        BY <1>2, <1>4, <3>2, <4>1, PoolFacts, Zenon DEF Honest, AnswersAreTold
    <3>3. CASE x # w /\ worker[x] \notin Pool!Busy
      BY <1>4, <3>3, Zenon DEF Pool!Busy
    <3> QED
      BY <3>1, <3>2, <3>3, Zenon
  <2>3. ASSUME NEW r \in Requests
        PROVE  /\ told'[GroupsJob(r)] \in FetchAnswers \cup {NoAnswer}
               /\ told'[TenantJob(r)] \in ValidateAnswers \cup {NoAnswer}
    <3>1. TenantJob(r) = h => \A s \in Requests : h # GroupsJob(s)
      BY DEF TenantJob, GroupsJob
    <3>2. /\ told[GroupsJob(r)] \in FetchAnswers \cup {NoAnswer}
          /\ told[TenantJob(r)] \in ValidateAnswers \cup {NoAnswer}
      BY PoolFacts, Zenon DEF Honest, AnswersAreTold
    <3> QED
      BY <1>1, <1>4, <3>1, <3>2, JobsOfRequests, Zenon
  <2> QED
    BY <2>1, <2>2, <2>3, Zenon DEF AnswersAreTold
<1>6. LossNeedsFault'
  <2> SUFFICES ASSUME Healthy', NEW j \in Jobs PROVE NotLost(j)'
    BY Zenon DEF LossNeedsFault
  <2>1. NotLost(j)
    BY PoolFacts, FaultsStay, Zenon DEF Honest, LossNeedsFault
  <2> QED
    BY <1>2, <1>4, <2>1, Zenon DEF NotLost, Pool!InQueue
<1> QED
  BY <1>5, <1>6, Zenon DEF Honest
\* A worker sends the answer of a job.
LEMMA SendHonest ==
  ASSUME HookInv, NEW w \in Workers, Pool!Send(w), told' = told, [Pool!Next]_poolVars
  PROVE  Honest'
<1> DEFINE h == holds[w]
<1>1. worker[w] = "sending" /\ UNCHANGED <<queue, holds, client, received>>
  BY Zenon DEF Pool!Send
<1>2. /\ h \in Jobs /\ client[h] = "submitted" /\ ~Pool!InQueue(h) /\ ~closed[h]
      /\ \A x \in Workers : holds[x] = h => x = w
      /\ results[h] = <<>>
  BY <1>1, WorkerFacts, Zenon DEF Pool!Busy
<1>3. value[w] = told[h]
  BY <1>1, PoolFacts, Zenon DEF Honest, AnswersAreTold
<1>4. /\ worker' = [worker EXCEPT ![w] = "finishing"]
      /\ value' = [value EXCEPT ![w] = NoAnswer]
      /\ results' = [results EXCEPT ![h] = Append(results[h], value[w])]
  BY <1>2, PoolFacts, Zenon DEF Pool!Send
<1>5. /\ worker'[w] = "finishing"
      /\ \A x \in Workers \ {w} : worker'[x] = worker[x] /\ value'[x] = value[x]
      /\ \A j \in Jobs \ {h} : results'[j] = results[j]
      /\ results'[h] = Append(<<>>, told[h])
  BY <1>2, <1>3, <1>4, PoolFacts, Zenon
<1>6. results'[h] # <<>> /\ Head(results'[h]) = told[h]
  BY <1>5
<1> HIDE DEF h
<1>7. AnswersAreTold'
  <2>1. ASSUME NEW j \in Jobs PROVE AnswerIsTold(j)'
    <3>1. AnswerIsTold(j)
      BY PoolFacts, Zenon DEF Honest, AnswersAreTold
    <3>2. CASE j = h
      BY <1>1, <1>2, <1>6, <3>1, <3>2, Zenon DEF AnswerIsTold, Pool!InQueue
    <3>3. CASE j # h
      <4>1. \A x \in Workers : holds[x] = j => x # w
        BY <3>3, Zenon DEF h
      <4> QED
        BY <1>1, <1>5, <3>1, <3>3, <4>1, Zenon DEF AnswerIsTold, Pool!InQueue
    <3> QED
      BY <3>2, <3>3, Zenon
  <2> QED
    BY <1>1, <1>5, <2>1, PoolFacts, Zenon DEF Honest, AnswersAreTold
<1>8. LossNeedsFault'
  <2> SUFFICES ASSUME Healthy', NEW j \in Jobs PROVE NotLost(j)'
    BY Zenon DEF LossNeedsFault
  <2>1. NotLost(j)
    BY PoolFacts, FaultsStay, Zenon DEF Honest, LossNeedsFault
  <2>2. CASE j = h
    BY <1>1, <1>2, <1>6, <2>2, ZenonT(30) DEF NotLost
  <2>3. CASE j # h
    <3>1. \A x \in Workers : holds[x] = j => x # w
      BY <2>3, Zenon DEF h
    <3> QED
      BY <1>1, <1>5, <2>1, <2>3, <3>1, Zenon DEF NotLost, Pool!InQueue
  <2> QED
    BY <2>2, <2>3, Zenon
<1> QED
  BY <1>7, <1>8, Zenon DEF Honest

\* A worker is done with a job.
LEMMA FinishHonest ==
  ASSUME HookInv, NEW w \in Workers, Pool!Finish(w), told' = told, [Pool!Next]_poolVars
  PROVE  Honest'
<1> DEFINE h == holds[w]
<1>1. /\ worker[w] \in {"finishing", "panicking"}
      /\ UNCHANGED <<queue, value, client, results, received>>
      /\ holds' = [holds EXCEPT ![w] = NoJob]
      /\ worker' = [worker EXCEPT ![w] =
                      IF worker[w] = "finishing" THEN "select" ELSE "recovering"]
  BY Zenon DEF Pool!Finish
<1>2. h \in Jobs /\ \A x \in Workers : holds[x] = h => x = w
  BY <1>1, WorkerFacts, Zenon DEF Pool!Busy
<1>3. /\ worker'[w] \in {"select", "recovering"}
      /\ \A x \in Workers \ {w} : worker'[x] = worker[x] /\ holds'[x] = holds[x]
  BY <1>1, PoolFacts, Zenon
<1> HIDE DEF h
<1>4. AnswersAreTold'
  <2>1. ASSUME NEW j \in Jobs PROVE AnswerIsTold(j)'
    BY <1>1, <1>3, PoolFacts, Zenon DEF Honest, AnswersAreTold, AnswerIsTold, Pool!InQueue
  <2> QED
    BY <1>1, <1>3, <2>1, PoolFacts, Zenon DEF Honest, AnswersAreTold
<1>5. LossNeedsFault'
  <2> SUFFICES ASSUME Healthy', NEW j \in Jobs PROVE NotLost(j)'
    BY Zenon DEF LossNeedsFault
  <2>1. NotLost(j)
    BY PoolFacts, FaultsStay, Zenon DEF Honest, LossNeedsFault
  <2> QED
    BY <1>1, <1>3, <2>1, Zenon DEF NotLost, Pool!InQueue
<1> QED
  BY <1>4, <1>5, Zenon DEF Honest

\* A request submits a job.
LEMMA SubmitHonest ==
  ASSUME HookInv, NEW j \in Jobs, Pool!Accept(j) \/ Pool!Refuse(j), told' = told,
         [Pool!Next]_poolVars
  PROVE  Honest'
<1>1. /\ client[j] = "fresh" /\ client'[j] \in {"submitted", "rejected"}
      /\ \A k \in Jobs \ {j} : client'[k] = client[k]
      /\ UNCHANGED <<worker, holds, value, results, received>>
  BY PoolFacts, Zenon DEF Pool!Accept, Pool!Refuse
<1>2. \A k \in Jobs : Pool!InQueue(k)' <=> Pool!InQueue(k) \/ (k = j /\ client'[j] = "submitted")
  <2>1. CASE Pool!Accept(j)
    BY <2>1, PoolFacts, QueueGrows, Zenon DEF Pool!Accept
  <2>2. CASE Pool!Refuse(j)
    BY <2>2, PoolFacts, Zenon DEF Pool!Refuse, Pool!InQueue
  <2> QED
    BY <2>1, <2>2, Zenon
<1>3. told[j] = NoAnswer /\ received[j] = NoAnswer
  BY <1>1, PoolFacts, Zenon DEF Honest, AnswersAreTold, AnswerIsTold
<1>4. AnswersAreTold'
  <2>1. ASSUME NEW k \in Jobs PROVE AnswerIsTold(k)'
    <3>1. AnswerIsTold(k)
      BY PoolFacts, Zenon DEF Honest, AnswersAreTold
    <3> QED
      BY <1>1, <1>2, <1>3, <3>1, Zenon DEF AnswerIsTold
  <2> QED
    BY <1>1, <2>1, PoolFacts, Zenon DEF Honest, AnswersAreTold
<1>5. LossNeedsFault'
  <2> SUFFICES ASSUME Healthy', NEW k \in Jobs PROVE NotLost(k)'
    BY Zenon DEF LossNeedsFault
  <2>1. NotLost(k)
    BY PoolFacts, FaultsStay, Zenon DEF Honest, LossNeedsFault
  <2> QED
    BY <1>1, <1>2, <2>1, Zenon DEF NotLost
<1> QED
  BY <1>4, <1>5, Zenon DEF Honest

\* A request receives an answer.
LEMMA CollectHonest ==
  ASSUME HookInv, NEW j \in Jobs, Pool!Collect(j), told' = told, [Pool!Next]_poolVars,
         Pool!PoolInv'
  PROVE  Honest'
<1>1. /\ client[j] = "submitted" /\ jobWg[j] = 0
      /\ UNCHANGED <<queue, worker, holds, value>>
  BY Zenon DEF Pool!Collect
<1>2. /\ ~Pool!InQueue(j) /\ \A w \in Workers : holds[w] # j
      /\ results[j] # <<>> => Len(results[j]) = 1
      /\ results[j] \in Seq(Answers)
  BY <1>1, JobFacts, Zenon
<1>3. /\ client'[j] = "collected"
      /\ received'[j] = IF results[j] = <<>> THEN NoAnswer ELSE Head(results[j])
      /\ results'[j] = IF results[j] = <<>> THEN results[j] ELSE Tail(results[j])
      /\ \A k \in Jobs \ {j} :
           client'[k] = client[k] /\ received'[k] = received[k] /\ results'[k] = results[k]
  BY PoolFacts, Zenon DEF Pool!Collect
<1>4. results'[j] = <<>>
  BY <1>3, Zenon DEF Pool!PoolInv, Pool!ChannelsInOrder, Jobs
<1>5. received'[j] = told[j]
  BY <1>1, <1>2, <1>3, PoolFacts, Zenon DEF Honest, AnswersAreTold, AnswerIsTold
<1>6. Healthy => received'[j] # NoAnswer
  <2> SUFFICES ASSUME Healthy PROVE received'[j] # NoAnswer
    BY Zenon
  <2>1. results[j] # <<>>
    BY <1>1, <1>2, PoolFacts, Zenon DEF Honest, LossNeedsFault, NotLost
  <2>2. Head(results[j]) \in Answers
    BY <1>2, <2>1
  <2> QED
    BY <1>3, <2>1, <2>2, NoAnswerIsNotAnAnswer, Zenon
<1>7. AnswersAreTold'
  <2>1. ASSUME NEW k \in Jobs PROVE AnswerIsTold(k)'
    <3>1. AnswerIsTold(k)
      BY PoolFacts, Zenon DEF Honest, AnswersAreTold
    <3>2. CASE k = j
      BY <1>1, <1>2, <1>3, <1>4, <1>5, <3>2, ZenonT(30) DEF AnswerIsTold, Pool!InQueue
    <3>3. CASE k # j
      BY <1>1, <1>3, <3>1, <3>3, Zenon DEF AnswerIsTold, Pool!InQueue
    <3> QED
      BY <3>2, <3>3, Zenon
  <2> QED
    BY <1>1, <2>1, PoolFacts, Zenon DEF Honest, AnswersAreTold
<1>8. LossNeedsFault'
  <2> SUFFICES ASSUME Healthy', NEW k \in Jobs PROVE NotLost(k)'
    BY Zenon DEF LossNeedsFault
  <2>1. NotLost(k) /\ Healthy
    BY PoolFacts, FaultsStay, Zenon DEF Honest, LossNeedsFault
  <2> QED
    BY <1>1, <1>3, <1>6, <2>1, Zenon DEF NotLost, Pool!InQueue
<1> QED
  BY <1>7, <1>8, Zenon DEF Honest

\* Every step keeps the answers honest.
LEMMA NextHonest ==
  ASSUME HookInv, [Next]_vars, Pool!PoolInv'
  PROVE  Honest'
<1>1. [Pool!Next]_poolVars
  BY StepUsesPool, Zenon
<1>2. ASSUME UNCHANGED <<queue, worker, shutdown, holds, value, client, results, received, told>>
      PROVE  Honest'
  BY <1>1, <1>2, QuietStep, Zenon
<1>3. CASE StartPool
  BY <1>1, <1>3, QuietStep, Zenon DEF StartPool, Pool!Start
<1>4. CASE StopPool
  BY <1>1, <1>4, QuietStep, Zenon DEF StopPool, Pool!Stop, Pool!StopReturns
<1>5. ASSUME NEW w \in Workers, JobReturns(w)
      PROVE  Honest'
  BY <1>1, <1>5, ReturnHonest, Zenon
<1>6. ASSUME NEW w \in Workers, WorkerMoves(w)
      PROVE  Honest'
  <2>1. told' = told
    BY <1>6, Zenon DEF WorkerMoves
  <2>2. CASE Pool!TakeJob(w)
    BY <1>1, <2>1, <2>2, TakeJobHonest, Zenon
  <2>3. CASE Pool!GoDown(w) \/ Pool!Recover(w)
    BY <1>1, <2>1, <2>3, QuietStep, PoolFacts, Zenon DEF Pool!GoDown, Pool!Recover
  <2>4. CASE Pool!CheckShutdown(w)
    <3>1. worker[w] = "picked"
          /\ worker' = [worker EXCEPT ![w] = IF shutdown THEN "finishing" ELSE "running"]
          /\ UNCHANGED <<queue, shutdown, holds, value, client, results, received>>
      BY <2>4, Zenon DEF Pool!CheckShutdown
    <3>2. Healthy' => ~shutdown
      BY <3>1, Zenon DEF Healthy
    <3> QED
      BY <1>1, <2>1, <3>1, <3>2, QuietStep, PoolFacts, Zenon
  <2>5. CASE Pool!Send(w)
    BY <1>1, <2>1, <2>5, SendHonest, Zenon
  <2>6. CASE Pool!Finish(w)
    BY <1>1, <2>1, <2>6, FinishHonest, Zenon
  <2> QED
    BY <1>6, <2>2, <2>3, <2>4, <2>5, <2>6, Zenon DEF WorkerMoves
<1>7. ASSUME NEW w \in Workers, JobPanics(w)
      PROVE  Honest'
  <2>1. /\ worker[w] = "running" /\ worker' = [worker EXCEPT ![w] = "panicking"]
        /\ UNCHANGED <<queue, holds, value, client, results, received, told>>
    BY <1>7, Zenon DEF JobPanics, Pool!Panic
  <2>2. ~Healthy'
    BY <2>1, PoolFacts, Zenon DEF Healthy
  <2> QED
    BY <1>1, <2>1, <2>2, QuietStep, PoolFacts, Zenon
<1>8. ASSUME NEW r \in Requests, Refuse(r) \/ Arrive(r) \/ HandlerStep(r)
      PROVE  Honest'
  <2>1. told' = told
    BY <1>8, Zenon DEF Refuse, Arrive, HandlerStep, SubmitGroups, SubmitTenant,
       WaitGroups, Authorize, WaitTenant, Drain, Respond
  <2>2. \/ UNCHANGED poolVars
        \/ \E j \in {GroupsJob(r), TenantJob(r)} :
             Pool!Accept(j) \/ Pool!Refuse(j) \/ Pool!Collect(j)
    BY <1>8, Zenon DEF Refuse, Arrive, HandlerStep, SubmitGroups, SubmitTenant,
       WaitGroups, Authorize, WaitTenant, Drain, Respond
  <2>3. CASE UNCHANGED poolVars
    BY <1>2, <2>1, <2>3, Zenon DEF poolVars
  <2> QED
    BY <1>1, <2>1, <2>2, <2>3, SubmitHonest, CollectHonest, JobsOfRequests, Zenon
<1>9. CASE UNCHANGED vars
  BY <1>2, <1>9, Zenon DEF vars
<1> QED
  BY <1>3, <1>4, <1>5, <1>6, <1>7, <1>8, <1>9, Zenon DEF Next
-----------------------------------------------------------------------------
(***************************************************************************)
(* The invariant of the handlers, and what follows from it.                 *)
(***************************************************************************)

\* The invariant holds before the first request.
LEMMA InitHookInv ==
  ASSUME Init, Pool!PoolInv
  PROVE  HookInv
<1>1. TypeOK
  <2>1. NoRequest \in RequestData
    BY Zenon DEF NoRequest, RequestData, Accounts
  <2>2. NoReply \in [status : {0, 200, 400, 401, 403, 429, 500},
                     groups : SUBSET Groups, tenant : BOOLEAN]
    BY ZenonT(30) DEF NoReply, Rejection
  <2> QED
    BY <2>1, <2>2 DEF Init, TypeOK, Pool!PoolInv, Places, Outcomes
<1>2. queue = <<>> /\ \A j \in Jobs : client[j] = "fresh" /\ results[j] = <<>> /\ received[j] = NoAnswer
  BY Zenon DEF Init, Pool!Init, Jobs
<1>3. \A j \in Jobs : ~Pool!InQueue(j) /\ told[j] = NoAnswer
  BY <1>2 DEF Init, Pool!InQueue
<1>4. \A w \in Workers : worker[w] = "unborn"
  BY Zenon DEF Init, Pool!Init
<1>5. AnswersAreTold /\ LossNeedsFault
  BY <1>2, <1>3, <1>4, JobsOfRequests, Zenon DEF AnswersAreTold, AnswerIsTold, LossNeedsFault,
     NotLost
<1>6. ASSUME NEW r \in Requests
      PROVE  JobsFollow(r) /\ OutcomeFollows(r) /\ ReplyFollows(r)
  BY <1>2, JobsOfRequests, Zenon DEF Init, JobsFollow, OutcomeFollows, ReplyFollows
<1> QED
  BY <1>1, <1>5, <1>6, Zenon DEF HookInv

\* Every step keeps the invariant.
LEMMA NextHookInv ==
  ASSUME HookInv, [Next]_vars, Pool!PoolInv'
  PROVE  HookInv'
<1>1. TypeOK' /\ Honest'
  BY NextHookTypes, NextHonest, Zenon
<1>2. ASSUME NEW s \in Requests
      PROVE  Follows(s)'
  <2>1. Follows(s)
    BY RequestFacts, Zenon
  <2>2. CASE \/ StartPool \/ StopPool \/ UNCHANGED vars
             \/ \E w \in Workers : JobReturns(w) \/ WorkerMoves(w) \/ JobPanics(w)
    BY <2>1, <2>2, PoolSideSame, SameFollows, Zenon
  <2>3. ASSUME NEW r \in Requests, Refuse(r) \/ Arrive(r) \/ HandlerStep(r)
        PROVE  Follows(s)'
    <3>1. CASE r = s
      BY <1>1, <2>3, <3>1, OwnFollows, Zenon
    <3>2. CASE r # s
      BY <2>1, <2>3, <3>2, OthersSame, SameFollows, Zenon
    <3> QED
      BY <3>1, <3>2, Zenon
  <2> QED
    BY <2>2, <2>3, Zenon DEF Next
<1> QED
  BY <1>1, <1>2, Zenon DEF HookInv, Honest, Follows

\* What a request was told, in terms of what it received.
LEMMA VerdictFacts ==
  ASSUME HookInv, NEW r \in Requests, NEW j \in {GroupsJob(r), TenantJob(r)}
  PROVE  /\ client[j] = "collected" /\ received[j] = NoAnswer => Verdict(j) = "none"
         /\ client[j] = "collected" /\ received[j] # NoAnswer => Verdict(j) = received[j].verdict
         /\ client[j] = "fresh" => Verdict(j) = "none" /\ received[j] = NoAnswer
         /\ client[j] = "collected" => told[j] = received[j]
BY RequestFacts, Zenon DEF HookInv, AnswersAreTold, AnswerIsTold, Verdict

\* What ReplyFollows says of the status, and of the claims of a token.
LEMMA ReplyStatus ==
  ASSUME NEW r \in Requests, ReplyFollows(r)
  PROVE  /\ pc[r] # "done" => reply[r] = NoReply
         /\ pc[r] = "done" /\ outcome[r] = "none" => reply[r].status \in {400, 401}
         /\ pc[r] = "done" /\ outcome[r] # "none" => reply[r].status = Status(outcome[r])
BY ZenonT(30) DEF ReplyFollows

\* What a successful reply claims.
LEMMA ReplyClaims ==
  ASSUME NEW r \in Requests, ReplyFollows(r), pc[r] = "done", outcome[r] = "ok"
  PROVE  /\ received[GroupsJob(r)].groups # {} =>
              reply[r].groups = received[GroupsJob(r)].groups
         /\ reply[r].tenant = req[r].tenant
BY Zenon DEF ReplyFollows

\* A reply other than a refusal of the request itself is made from an outcome.
LEMMA ReplyFacts ==
  ASSUME HookInv, NEW r \in Requests, reply[r].status \in {200, 403, 429, 500}
  PROVE  /\ pc[r] = "done" /\ outcome[r] # "none"
         /\ reply[r].status = Status(outcome[r])
         /\ JobsFollow(r) /\ OutcomeFollows(r) /\ ReplyFollows(r)
         /\ reply[r].status = 200 <=> outcome[r] = "ok"
         /\ reply[r].status = 403 <=> outcome[r] \in {"failed", "notMember"}
         /\ reply[r].status = 429 <=> outcome[r] = "tooBusy"
         /\ reply[r].status = 500 <=> outcome[r] = "tenantInternal"
<1>1. JobsFollow(r) /\ OutcomeFollows(r) /\ ReplyFollows(r) /\ outcome[r] \in Outcomes
  <2>1. Follows(r) /\ outcome[r] \in Outcomes
    BY RequestFacts, ZenonT(30)
  <2> QED
    BY <2>1, ZenonT(30) DEF Follows
<1>2. NoReply.status = 0
  BY SMT DEF NoReply, Rejection
<1>3. pc[r] = "done" /\ outcome[r] # "none" /\ reply[r].status = Status(outcome[r])
  BY <1>1, <1>2, ReplyStatus
<1>4. \A o \in Outcomes \ {"none"} :
        /\ Status(o) = 200 <=> o = "ok"
        /\ Status(o) = 403 <=> o \in {"failed", "notMember"}
        /\ Status(o) = 429 <=> o = "tooBusy"
        /\ Status(o) = 500 <=> o = "tenantInternal"
  BY DEF Status, Outcomes
<1> QED
  BY <1>1, <1>3, <1>4

\* The reply is made of the answers.
LEMMA InvReplyMatches == HookInv => ReplyMatchesAnswers
<1> SUFFICES ASSUME HookInv PROVE ReplyMatchesAnswers
  BY Zenon
<1>2. ASSUME NEW r \in Requests, reply[r].status = 200
      PROVE  /\ Verdict(GroupsJob(r)) = "ok"
             /\ Verdict(TenantJob(r)) \notin {"notMember", "error"}
             /\ told[GroupsJob(r)].groups # {} =>
                  reply[r].groups = told[GroupsJob(r)].groups
             /\ reply[r].tenant = req[r].tenant
  <2>1. outcome[r] = "ok" /\ pc[r] = "done" /\ OutcomeFollows(r) /\ ReplyFollows(r)
    BY ReplyFacts, <1>2
  <2>2. /\ received[GroupsJob(r)] # NoAnswer /\ client[GroupsJob(r)] = "collected"
        /\ received[GroupsJob(r)].verdict = "ok"
        /\ client[TenantJob(r)] \in {"collected", "fresh"}
        /\ TenantOutcome(received[TenantJob(r)]) = "ok"
    BY <2>1, Zenon DEF OutcomeFollows, TenantJobIs
  <2>3. Verdict(TenantJob(r)) \notin {"notMember", "error"}
    BY <2>2, VerdictFacts, ZenonT(30) DEF TenantOutcome
  <2>4. Verdict(GroupsJob(r)) = "ok" /\ told[GroupsJob(r)] = received[GroupsJob(r)]
    BY <2>2, VerdictFacts, Zenon
  <2> QED
    BY ReplyClaims, <2>1, <2>3, <2>4, ZenonT(30)
<1>3. ASSUME NEW r \in Requests, reply[r].status = 403
      PROVE  \/ Verdict(GroupsJob(r)) = "error"
             \/ Verdict(GroupsJob(r)) = "ok" /\ req[r].account # "serviceNoAudience"
             \/ Verdict(GroupsJob(r)) = "ok" /\ Verdict(TenantJob(r)) = "notMember"
  <2>1. outcome[r] \in {"failed", "notMember"} /\ OutcomeFollows(r)
    BY ReplyFacts, <1>3
  <2>2. CASE outcome[r] = "failed"
    <3>1. /\ received[GroupsJob(r)] # NoAnswer /\ client[GroupsJob(r)] = "collected"
          /\ received[GroupsJob(r)].verdict = "ok" => req[r].account # "serviceNoAudience"
      BY <2>1, <2>2, Zenon DEF OutcomeFollows
    <3>2. /\ told[GroupsJob(r)] = received[GroupsJob(r)]
          /\ Verdict(GroupsJob(r)) = received[GroupsJob(r)].verdict
      BY <3>1, VerdictFacts, Zenon
    <3>3. received[GroupsJob(r)] \in FetchAnswers
      BY <3>1, <3>2, Zenon DEF HookInv, AnswersAreTold
    <3>4. received[GroupsJob(r)].verdict \in {"ok", "error"}
      BY <3>3 DEF FetchAnswers, Failure
    <3> QED
      BY <3>1, <3>2, <3>4, Zenon
  <2>3. CASE outcome[r] = "notMember"
    <3>1. /\ received[GroupsJob(r)] # NoAnswer /\ client[GroupsJob(r)] = "collected"
          /\ received[GroupsJob(r)].verdict = "ok"
          /\ client[TenantJob(r)] \in {"collected", "fresh"}
          /\ TenantOutcome(received[TenantJob(r)]) = "notMember"
      BY <2>1, <2>3, ZenonT(30) DEF OutcomeFollows, TenantJobIs
    <3>2. Verdict(TenantJob(r)) = "notMember"
      BY <3>1, VerdictFacts, Zenon DEF TenantOutcome
    <3> QED
      BY <3>1, <3>2, VerdictFacts, Zenon
  <2> QED
    BY <2>1, <2>2, <2>3, Zenon
<1>4. ASSUME NEW r \in Requests, reply[r].status = 500
      PROVE  Verdict(GroupsJob(r)) = "ok" /\ Verdict(TenantJob(r)) = "error"
  <2>1. outcome[r] = "tenantInternal" /\ OutcomeFollows(r)
    BY ReplyFacts, <1>4
  <2>2. /\ received[GroupsJob(r)] # NoAnswer /\ client[GroupsJob(r)] = "collected"
        /\ received[GroupsJob(r)].verdict = "ok"
        /\ client[TenantJob(r)] \in {"collected", "fresh"}
        /\ TenantOutcome(received[TenantJob(r)]) = "tenantInternal"
    BY <2>1, Zenon DEF OutcomeFollows, TenantJobIs
  <2>3. Verdict(TenantJob(r)) = "error"
    BY <2>2, VerdictFacts, RequestFacts, Zenon DEF TenantOutcome
  <2> QED
    BY <2>2, <2>3, VerdictFacts, ZenonT(30)
<1> QED
  BY <1>2, <1>3, <1>4, ZenonT(30) DEF ReplyMatchesAnswers

\* No job outlives its request.
LEMMA InvJobsEnd == HookInv => JobsEndWithRequest
<1> SUFFICES ASSUME HookInv, NEW r \in Requests, pc[r] \in {"respond", "done"},
                    NEW j \in {GroupsJob(r), TenantJob(r)}
             PROVE  ~Pool!InQueue(j) /\ Pool!Holders(j) = {}
  BY Zenon DEF JobsEndWithRequest
<1>1. client[j] # "submitted" /\ j \in Jobs
  BY RequestFacts, Zenon DEF Follows, JobsFollow
<1> QED
  BY <1>1, Zenon DEF HookInv, Pool!PoolInv, Pool!HandsMatchPlaces, Jobs

\* A full queue refuses.
LEMMA InvBusy == HookInv => BusyMeansRefused
<1> SUFFICES ASSUME HookInv, NEW r \in Requests, reply[r].status = 429, Healthy
             PROVE  \E j \in {GroupsJob(r), TenantJob(r)} : client[j] = "rejected"
  BY ZenonT(30) DEF BusyMeansRefused
<1>1. outcome[r] = "tooBusy" /\ OutcomeFollows(r)
  BY ReplyFacts
<1>2. ~(client[GroupsJob(r)] = "collected" /\ received[GroupsJob(r)] = NoAnswer)
  BY JobsOfRequests, ZenonT(30) DEF HookInv, LossNeedsFault, NotLost
<1> QED
  BY <1>1, <1>2, Zenon DEF OutcomeFollows

\* The tenant was confirmed.
LEMMA InvTenantConfirmed == HookInv => TenantConfirmedWhileHealthy
<1> SUFFICES ASSUME HookInv, Healthy, NEW r \in Requests, reply[r].status = 200, reply[r].tenant
             PROVE  Verdict(TenantJob(r)) = "ok"
  BY Zenon DEF TenantConfirmedWhileHealthy, TenantConfirmed
<1>1. outcome[r] = "ok" /\ OutcomeFollows(r) /\ ReplyFollows(r) /\ pc[r] = "done"
  BY ReplyFacts
<1>2. req[r].tenant
  BY <1>1, Zenon DEF ReplyFollows
<1>3. TenantJobIs(r, "collected") /\ TenantOutcome(received[TenantJob(r)]) = "ok"
  BY <1>1, Zenon DEF OutcomeFollows
<1>collected. client[TenantJob(r)] = "collected"
  BY <1>2, <1>3, ZenonT(30) DEF TenantJobIs
<1>4. received[TenantJob(r)] # NoAnswer
  BY <1>collected, JobsOfRequests DEF HookInv, LossNeedsFault, NotLost
<1> QED
  BY <1>3, <1>collected, <1>4, VerdictFacts, Zenon DEF TenantOutcome
-----------------------------------------------------------------------------
(***************************************************************************)
(* The serve command. Its steps are steps of TokenHook, so that HookInv     *)
(* holds under it; ShutdownInOrder adds the order of the shutdown.          *)
(***************************************************************************)

\* A step of the server is a step of the hook, or none.
LEMMA ServeStepIsHookStep == [ServeNext]_allVars => [Next]_vars
<1> SUFFICES ASSUME [ServeNext]_allVars PROVE [Next]_vars
  BY Zenon
<1>1. CASE HookStep
  BY <1>1, Zenon DEF HookStep, Next
<1>2. CASE EgWaitReturns \/ PoolStopped
  BY <1>2, Zenon DEF EgWaitReturns, PoolStopped, Next, StopPool
<1>3. CASE \/ Signal \/ HttpFails \/ GrpcFails \/ HttpShutdown \/ HttpDrained
           \/ HttpTimeout \/ GrpcStops \/ CloseDb \/ Exit \/ UNCHANGED allVars
  BY <1>3, Zenon DEF Signal, HttpFails, GrpcFails, HttpShutdown, HttpDrained, HttpTimeout,
     GrpcStops, CloseDb, Exit, allVars
<1> QED
  BY <1>1, <1>2, <1>3, Zenon DEF ServeNext

\* A worker that starts or ends a function does not panic: the only other way
\* to panic, a send on a closed channel, is excluded by the pool's invariant.
LEMMA NoPanicInServe ==
  ASSUME ServeInv, HookStep
  PROVE  \A w \in Workers :
           /\ worker'[w] \notin {"panicking", "recovering"}
           /\ worker'[w] = "gone" => shutdown
<1>1. /\ HookInv /\ worker \in [Workers -> Pool!Places]
      /\ \A w \in Workers : worker[w] \notin {"panicking", "recovering"}
      /\ \A w \in Workers : worker[w] = "gone" => shutdown
  BY PoolFacts, Zenon DEF ServeInv, ShutdownInOrder
<1>2. CASE StartPool
  BY <1>1, <1>2, Zenon DEF StartPool, Pool!Start
<1>3. ASSUME NEW x \in Workers, JobReturns(x)
      PROVE  worker' = [worker EXCEPT ![x] = "sending"]
  BY <1>3, Zenon DEF JobReturns, Pool!Return
<1>4. ASSUME NEW x \in Workers, WorkerMoves(x)
      PROVE  \/ \E p \in {"picked", "running", "finishing", "select"} :
                  worker' = [worker EXCEPT ![x] = p]
             \/ worker' = [worker EXCEPT ![x] = "gone"] /\ shutdown
  <2>1. Pool!Send(x) => ~closed[holds[x]]
    BY <1>1, WorkerFacts, Zenon DEF Pool!Send, Pool!Busy
  <2> QED
    BY <1>1, <1>4, <2>1, Zenon
    DEF WorkerMoves, Pool!TakeJob, Pool!GoDown, Pool!CheckShutdown, Pool!Send, Pool!Finish,
        Pool!Recover
<1>5. ASSUME NEW r \in Requests, HandlerStep(r) \/ Arrive(r) \/ Refuse(r)
      PROVE  worker' = worker
  BY <1>5, Zenon DEF HandlerStep, SubmitGroups, SubmitTenant, WaitGroups,
              Authorize, WaitTenant, Drain, Respond, Arrive, Refuse, poolVars,
              Pool!Accept, Pool!Refuse, Pool!Collect
<1> QED
  BY <1>1, <1>2, <1>3, <1>4, <1>5, Zenon DEF HookStep

\* No request comes into flight when the HTTP server does not accept, and the
\* jobs of a request that is not in flight are not collected.
LEMMA FlightInServe ==
  ASSUME ServeInv, HookStep
  PROVE  /\ UNCHANGED <<serveVars, shutdown, stopper>>
         /\ ~Accepting /\ InFlight = {} => InFlight' = {}
         /\ InFlight = {} => UNCHANGED <<client, received>>
<1>1. pc \in [Requests -> Places]
  BY ZenonT(30) DEF ServeInv, HookInv, TypeOK
<1>2. UNCHANGED serveVars
  BY Zenon DEF HookStep
<1>3. CASE StartPool
  BY <1>2, <1>3, Zenon DEF StartPool, hookVars, Pool!Start, InFlight
<1>4. ASSUME NEW w \in Workers, JobReturns(w) \/ WorkerMoves(w)
      PROVE  UNCHANGED <<shutdown, stopper, client, received, hookVars>>
  BY <1>4, Zenon DEF JobReturns, WorkerMoves, Pool!Return, Pool!TakeJob, Pool!GoDown,
              Pool!CheckShutdown, Pool!Send, Pool!Finish, Pool!Recover, hookVars
<1>5. ASSUME NEW r \in Requests, HandlerStep(r)
      PROVE  InFlight # {} /\ UNCHANGED <<shutdown, stopper>>
  <2>1. r \in InFlight
    BY <1>5, Zenon DEF HandlerStep, SubmitGroups, SubmitTenant, WaitGroups,
                Authorize, WaitTenant, Drain, Respond, InFlight
  <2> QED
    BY <1>5, <2>1, Zenon DEF HandlerStep, SubmitGroups, SubmitTenant, WaitGroups,
                Authorize, WaitTenant, Drain, Respond, poolVars,
                Pool!Accept, Pool!Refuse, Pool!Collect
<1>6. ASSUME NEW r \in Requests, Arrive(r) \/ Refuse(r)
      PROVE  UNCHANGED <<shutdown, stopper, client, received>>
  BY <1>6, ZenonT(30) DEF Arrive, Refuse, poolVars
<1> QED
  BY <1>2, <1>3, <1>4, <1>5, <1>6, Zenon DEF HookStep, InFlight, hookVars

\* Every step of the server keeps the invariant.
LEMMA NextServeInv ==
  ASSUME ServeInv, [ServeNext]_allVars, Pool!PoolInv'
  PROVE  ServeInv'
<1>1. HookInv'
  BY ServeStepIsHookStep, NextHookInv, Zenon DEF ServeInv
<1>2. TypeOK'
  BY <1>1, Zenon DEF HookInv
<1>3. ServeTypeOK /\ HookInv /\ ShutdownInOrder /\ LossNeedsForcedShutdown
  BY Zenon DEF ServeInv
<1>4. ServeTypeOK'
  BY <1>2, <1>3, Zenon
  DEF ServeTypeOK, ServeNext, HookStep, Signal, HttpFails, GrpcFails, HttpShutdown,
      HttpDrained, HttpTimeout, GrpcStops, EgWaitReturns, PoolStopped, CloseDb, Exit,
      allVars, serveVars
<1>5. ShutdownInOrder'
  <2>1. CASE HookStep
    BY <1>3, <2>1, NoPanicInServe, FlightInServe DEF ShutdownInOrder, serveVars, Accepting
  <2>2. CASE EgWaitReturns
    BY <1>3, <2>2, Zenon DEF ShutdownInOrder, EgWaitReturns, Pool!Stop, hookVars, InFlight
  <2>3. CASE PoolStopped
    BY <1>3, <2>3, Zenon DEF ShutdownInOrder, PoolStopped, Pool!StopReturns, hookVars, serveVars,
       InFlight
  <2>4. CASE Signal \/ HttpFails \/ GrpcFails \/ HttpShutdown \/ GrpcStops
    <3>1. CASE Signal \/ HttpFails
      BY <1>3, <3>1 DEF ShutdownInOrder, Signal, HttpFails, vars, InFlight
    <3>2. CASE GrpcFails \/ GrpcStops
      BY <1>3, <3>2 DEF ShutdownInOrder, GrpcFails, GrpcStops, vars, InFlight
    <3>3. CASE HttpShutdown
      BY <1>3, <3>3, Zenon DEF ShutdownInOrder, HttpShutdown, vars, InFlight
    <3> QED BY <2>4, <3>1, <3>2, <3>3, Zenon
  <2>5. CASE HttpDrained \/ HttpTimeout
    BY <1>3, <2>5 DEF ShutdownInOrder, HttpDrained, HttpTimeout, vars, InFlight
  <2>6. CASE CloseDb \/ Exit \/ UNCHANGED allVars
    <3>1. stopper = "returned" => shutdown
      BY <1>3, Zenon DEF HookInv, Pool!PoolInv, Pool!StopInOrder
    <3> QED BY <1>3, <2>6, <3>1 DEF ShutdownInOrder, CloseDb, Exit, allVars, serveVars, vars,
               InFlight, Running, ServeTypeOK
  <2> QED
    BY <2>1, <2>2, <2>3, <2>4, <2>5, <2>6, Zenon DEF ServeNext
<1>6. LossNeedsForcedShutdown'
  <2>1. CASE HookStep
    <3> SUFFICES ASSUME ~forced' PROVE \A j \in Jobs : client'[j] = "collected" => received'[j] # NoAnswer
      BY Zenon DEF LossNeedsForcedShutdown
    <3>1. ~forced /\ UNCHANGED <<http, shutdown>>
      BY <2>1, FlightInServe DEF serveVars
    <3>2. CASE shutdown
      <4>1. InFlight = {}
        BY <1>3, <3>1, <3>2, Zenon DEF ShutdownInOrder
      <4> QED
        BY <1>3, <2>1, <3>1, <4>1, FlightInServe, Zenon DEF LossNeedsForcedShutdown
    <3>3. CASE ~shutdown
      <4>1. Healthy'
        BY <2>1, <3>1, <3>3, NoPanicInServe, Zenon DEF Healthy
      <4> QED
        BY <1>1, <4>1, Zenon DEF HookInv, LossNeedsFault, NotLost
    <3> QED
      BY <3>2, <3>3, Zenon
  <2>2. CASE ~HookStep
    BY <1>3, <2>2, Zenon
    DEF LossNeedsForcedShutdown, ServeNext, Signal, HttpFails, GrpcFails, HttpShutdown,
        HttpDrained, HttpTimeout, GrpcStops, EgWaitReturns, PoolStopped, CloseDb, Exit,
        allVars, serveVars, vars, Pool!Stop, Pool!StopReturns
  <2> QED
    BY <2>1, <2>2, Zenon
<1> QED
  BY <1>1, <1>4, <1>5, <1>6, Zenon DEF ServeInv

\* The invariant holds when the server starts.
LEMMA InitServeInv ==
  ASSUME ServeInit, Pool!PoolInv
  PROVE  ServeInv
<1>1. HookInv
  BY InitHookInv, Zenon DEF ServeInit
<1>2. \A w \in Workers : worker[w] = "unborn"
  BY Zenon DEF ServeInit, Init, Pool!Init
<1>3. shutdown = FALSE /\ \A j \in Jobs : client[j] = "fresh"
  BY Zenon DEF ServeInit, Init, Pool!Init, Jobs
<1> QED
  BY <1>1, <1>2, <1>3, Zenon DEF ServeInit, ServeInv, ServeTypeOK, HookInv, ShutdownInOrder,
     LossNeedsForcedShutdown

\* The database is open while a job runs.
LEMMA InvDbOpen == ServeInv => DbOpenWhileWorking
BY Zenon DEF ServeInv, HookInv, ShutdownInOrder, DbOpenWhileWorking, Pool!PoolInv, Pool!StopInOrder

-----------------------------------------------------------------------------
(***************************************************************************)
(* The pool of TokenHook is the pool of WorkerPoolProofs, so that its       *)
(* invariant holds here.                                                    *)
(***************************************************************************)

PoolTheorems == INSTANCE WorkerPoolProofs

\* The two instances count alike.
LEMMA SameCount == \A S : PoolTheorems!Cardinality(S) = Pool!Cardinality(S)
BY Zenon DEF Pool!Cardinality, PoolTheorems!Cardinality

\* The workers are finitely many for the instance too.
LEMMA SameFinite == PoolTheorems!IsFiniteSet(Workers)
BY WorkersFinite, ZenonT(30) DEF IsFiniteSet, PoolTheorems!IsFiniteSet

\* The invariants of the two instances agree.
LEMMA SameInv == Pool!PoolInv <=> PoolTheorems!PoolInv
<1>1. Pool!TypeOK <=> PoolTheorems!TypeOK
  BY ZenonT(30) DEF Pool!TypeOK, PoolTheorems!TypeOK, Pool!Places, PoolTheorems!Places, Pool!Alive,
     PoolTheorems!Alive, Pool!Busy, PoolTheorems!Busy
<1>2. Pool!JobInOnePlace <=> PoolTheorems!JobInOnePlace
  BY ZenonT(30) DEF Pool!JobInOnePlace, PoolTheorems!JobInOnePlace, Pool!InQueue,
     PoolTheorems!InQueue, Pool!Holders, PoolTheorems!Holders
<1>3. Pool!HandsMatchPlaces <=> PoolTheorems!HandsMatchPlaces
  BY ZenonT(30) DEF Pool!HandsMatchPlaces, PoolTheorems!HandsMatchPlaces, Pool!InQueue,
     PoolTheorems!InQueue, Pool!Holders, PoolTheorems!Holders, Pool!Busy, PoolTheorems!Busy
<1>4. Pool!ChannelsInOrder <=> PoolTheorems!ChannelsInOrder
  BY ZenonT(30) DEF Pool!ChannelsInOrder, PoolTheorems!ChannelsInOrder, Pool!InQueue,
     PoolTheorems!InQueue
<1>5. Pool!StopInOrder <=> PoolTheorems!StopInOrder
  BY Zenon DEF Pool!StopInOrder, PoolTheorems!StopInOrder
<1>6. Pool!PoolBounds <=> PoolTheorems!PoolBounds
  BY SameCount, ZenonT(30) DEF Pool!PoolBounds, PoolTheorems!PoolBounds, Pool!QueueCapacity,
     PoolTheorems!QueueCapacity, Pool!Alive, PoolTheorems!Alive, Pool!Busy, PoolTheorems!Busy
<1> QED
  BY <1>1, <1>2, <1>3, <1>4, <1>5, <1>6, ZenonT(30) DEF Pool!PoolInv, PoolTheorems!PoolInv

\* The steps of the two instances agree.
LEMMA SameNext == [Pool!Next]_poolVars <=> [PoolTheorems!Next]_(PoolTheorems!poolVars)
<1>1. Pool!Next <=> PoolTheorems!Next
  BY SameCount, ZenonT(30)
  DEF Pool!Next, PoolTheorems!Next, Pool!Start, PoolTheorems!Start,
      Pool!Stop, PoolTheorems!Stop, Pool!StopReturns, PoolTheorems!StopReturns,
      Pool!WorkerStep, PoolTheorems!WorkerStep, Pool!TakeJob, PoolTheorems!TakeJob,
      Pool!GoDown, PoolTheorems!GoDown, Pool!CheckShutdown, PoolTheorems!CheckShutdown,
      Pool!Return, PoolTheorems!Return, Pool!Panic, PoolTheorems!Panic,
      Pool!Send, PoolTheorems!Send, Pool!Finish, PoolTheorems!Finish,
      Pool!Recover, PoolTheorems!Recover, Pool!CallerStep, PoolTheorems!CallerStep,
      Pool!Accept, PoolTheorems!Accept, Pool!Refuse, PoolTheorems!Refuse,
      Pool!Collect, PoolTheorems!Collect, Pool!HasRoom, PoolTheorems!HasRoom,
      Pool!QueueCapacity, PoolTheorems!QueueCapacity
<1> QED
  BY <1>1, ZenonT(30) DEF poolVars, PoolTheorems!poolVars

\* The invariant of the pool holds at the start ...
LEMMA PoolStart == Pool!Init => Pool!PoolInv
<1>1. Pool!Init => PoolTheorems!Init
  BY Zenon DEF Pool!Init, PoolTheorems!Init
<1>2. PoolTheorems!Init => PoolTheorems!PoolInv
  BY PoolTheorems!InitPoolInv, SameFinite, NoJobIsNotAJob, NoAnswerIsNotAnAnswer, ZenonT(30) DEF
     Jobs, Answers
<1> QED
  BY <1>1, <1>2, SameInv, ZenonT(30)

\* ... and every step of the pool keeps it.
LEMMA PoolStep ==
  ASSUME Pool!PoolInv, [Pool!Next]_poolVars
  PROVE  Pool!PoolInv'
<1>1. PoolTheorems!PoolInv /\ [PoolTheorems!Next]_(PoolTheorems!poolVars)
  BY SameInv, SameNext, ZenonT(30)
<1>2. PoolTheorems!PoolInv'
  BY <1>1, PoolTheorems!NextPoolInv, SameFinite, NoJobIsNotAJob, NoAnswerIsNotAnAnswer, ZenonT(30)
     DEF Jobs, Answers
<1>3. (Pool!PoolInv <=> PoolTheorems!PoolInv)'
  BY SameInv, PTL
<1> QED
  BY <1>2, <1>3, ZenonT(30)

-----------------------------------------------------------------------------
(***************************************************************************)
(* The theorems.                                                            *)
(***************************************************************************)

\* HookInv holds in every state, for any requests, finite set of workers and
\* groups, whatever panics and whenever the pool is stopped.
THEOREM HookInvariant == Spec => []HookInv
<1>1. Init => HookInv
  BY PoolStart, InitHookInv, ZenonT(30) DEF Init
<1>2. HookInv /\ [Next]_vars => HookInv'
  <2> SUFFICES ASSUME HookInv, [Next]_vars PROVE HookInv'
    BY Zenon
  <2>1. Pool!PoolInv'
    BY StepUsesPool, PoolStep, ZenonT(30) DEF HookInv
  <2> QED
    BY <2>1, NextHookInv, ZenonT(30)
<1> QED
  BY <1>1, <1>2, PTL DEF Spec

\* The state of the hook is well typed.
THEOREM HookTypeCorrect == Spec => []TypeOK
<1>1. HookInv => TypeOK
  BY Zenon DEF HookInv
<1> QED
  BY HookInvariant, <1>1, PTL

\* The status and the claims of every reply are those that the answers of the
\* request's own jobs call for: workers never mix up requests.
THEOREM RepliesMatchAnswers == Spec => []ReplyMatchesAnswers
<1>1. HookInv => ReplyMatchesAnswers
  BY InvReplyMatches, ZenonT(30)
<1> QED
  BY HookInvariant, <1>1, PTL

\* When ProcessRequest has returned, no job of the request is in the channel or
\* in the hands of a worker, on any of its paths.
THEOREM NoJobOutlivesItsRequest == Spec => []JobsEndWithRequest
<1>1. HookInv => JobsEndWithRequest
  BY InvJobsEnd, ZenonT(30)
<1> QED
  BY HookInvariant, <1>1, PTL

\* In a pool that was not stopped and lost no worker, ErrTooBusy means that the
\* channel had no room.
THEOREM BusyOnlyWhenFull == Spec => []BusyMeansRefused
<1>1. HookInv => BusyMeansRefused
  BY InvBusy, ZenonT(30)
<1> QED
  BY HookInvariant, <1>1, PTL

\* In such a pool a token that carries a tenant was confirmed by the tenant
\* service.
THEOREM TenantIsConfirmed == Spec => []TenantConfirmedWhileHealthy
<1>1. HookInv => TenantConfirmedWhileHealthy
  BY InvTenantConfirmed, Zenon
<1> QED
  BY HookInvariant, <1>1, PTL

\* The serve command runs the token hook as TokenHook describes it: what holds of
\* the hook holds under serve.
THEOREM ServeRunsHook == ServeSpec => Spec
<1>1. ServeInit => Init
  BY ZenonT(30) DEF ServeInit
<1> QED
  BY <1>1, ServeStepIsHookStep, PTL DEF ServeSpec, Spec

\* ServeInv holds in every state of serve.
THEOREM ServeInvariant == ServeSpec => []ServeInv
<1>1. ServeInit => ServeInv
  BY PoolStart, InitServeInv, ZenonT(30) DEF ServeInit, Init
<1>2. ServeInv /\ [ServeNext]_allVars => ServeInv'
  <2> SUFFICES ASSUME ServeInv, [ServeNext]_allVars PROVE ServeInv'
    BY Zenon
  <2>1. Pool!PoolInv'
    BY ServeStepIsHookStep, StepUsesPool, PoolStep, ZenonT(30) DEF ServeInv, HookInv
  <2> QED
    BY <2>1, NextServeInv, ZenonT(30)
<1> QED
  BY <1>1, <1>2, PTL DEF ServeSpec

\* No job runs when dbClient is closed, for any number of workers and requests,
\* with and without handlers that outlive the deadline.
THEOREM NoJobOnClosedDatabase == ServeSpec => []DbOpenWhileWorking
<1>1. ServeInv => DbOpenWhileWorking
  BY InvDbOpen, Zenon
<1> QED
  BY ServeInvariant, <1>1, PTL

\* An accepted job that ends without a result means that the HTTP server was left
\* with requests in flight.
THEOREM GracefulShutdownLosesNothing == ServeSpec => []LossNeedsForcedShutdown
<1>1. ServeInv => LossNeedsForcedShutdown
  BY Zenon DEF ServeInv
<1> QED
  BY ServeInvariant, <1>1, PTL
=============================================================================
