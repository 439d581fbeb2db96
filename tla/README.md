# Formal models of the hook service

TLA+ models of the Hydra token hook service: its worker pool, the token hook,
the start and stop of the process, the administration of groups and grants, the
importer, those who read what the administrators write, the read path to the
database, the bootstrap of the authorization store and the authentication of
requests. TLC checks each model on small instances; TLAPS proves every safety
property that the passing runs check for every value of the constants, among them that
the pool keeps its contract and the hook uses the pool as it must.
`PROJECT.json` names, for every definition, the source lines it stands for.

## The system

| Part | Code | State it keeps | Module |
| --- | --- | --- | --- |
| Worker pool | `internal/pool` | job channel, workers, WaitGroups, shutdown | `WorkerPool`, promise: `JobContract` |
| Token hook | `pkg/hooks` | one handler per request, two jobs each | `TokenHook` |
| Process life | `cmd/serve.go` | HTTP and gRPC servers, signal, deferred closes | `Serve`, the stages of the start: `Access` |
| Tables | `internal/storage` | groups, members, grants | `Tables` |
| Group and grant APIs, users/groups commands | `pkg/groups`, `pkg/authorization`, `internal/authorization`, `internal/openfga`, `cmd/users.go`, `cmd/groups_cmd.go` | rows, tuples, one transaction per request | `AdminApi` |
| Transactions | `internal/db/middleware.go`, `storage.go` | lazy transaction, commit, rollback | `AdminApi` |
| Replica routing, mapping streams | `internal/db/storage.go`, `pkg/groups/mapping_grpc_handlers.go` | lag sample, monitor, requests | `ReadPath` |
| GET handlers, the reads of the hook | `pkg/groups`, `pkg/authorization`, `pkg/hooks` | a replica, one question per client | `Readers` |
| Importer | `internal/importer`, `cmd/import.go` | a run over both stores | `Importer` |
| Store and model bootstrap | `cmd/createFgaModel.go`, `internal/openfga` | stores, models | `Bootstrap` |
| Authentication | `pkg/authentication` | configuration, one token | `Access` |

Hydra calls the token hook. The handler submits the group lookup and, for a
request with a tenant, the tenant validation to the pool, waits for both, asks
OpenFGA whether the user may use the client, and answers with the claims. The
groups come from the tables and the permissions from OpenFGA; both are written
by the administration APIs, by the commands and by the importer. `Serve` starts
and stops the pool, the servers and the database around all this.

### Not modelled

- The API key middleware of the hook: one comparison of a header with a key.
- Migrations: goose decides which versions are applied and in which order. What
  `cmd/migrate.go` adds is an exit code (1 for pending versions in the text format,
  0 in JSON), and the service looks at no version when it starts.
- `AddAllowedApps` and `AddAllowedGroupsForApp` of the storage, and `Offset` and
  `PageSize` of the database: nothing calls them.
- The text of the embedded authorization model and its parser.
- Status and metrics endpoints, logging, tracing and monitoring (no decision reads
  them), struct mappers, generated protocol code, the parsing of flags and of the
  environment.
- Requests that a handler of the administration refuses for their arguments, before it
  touches a store. The name in a group update is modelled, since it decides what the
  update erases.
- The 500 of the token hook for a response that `json.Marshal` refuses
  (`pkg/hooks/handlers.go:119`): it is made of strings and of claims that were decoded
  from JSON, which can be encoded again.

## Modules and how they fit together

`WorkerPool` has one action per point at which goroutines can interleave:
`Start`, `TakeJob`, `GoDown`, `CheckShutdown`, `Return`, `Panic`, `Send`,
`Finish` (the deferred `wg.Done`), `Recover`, `Stop`, `StopReturns`, and on the
side of the caller `Accept`, `Refuse` and `Collect`. A panic ends its worker and
nobody replaces it, as in the code. `JobContract` is what callers may rely on;
`KeepsContract` is the refinement.

`TokenHook` instantiates `WorkerPool` with two jobs per request and adds the
program counter of `ProcessRequest`, including the deferred `waitTenant` on
every return path. `UsesPool` shows that the handlers are a client that
`WorkerPool` allows, so what is proved of the pool holds under the hook.
`Serve` extends `TokenHook` with the errgroup, the fifteen-second deadline and
the order of the deferred calls.

`Tables` gives each SQL statement as the rows it waits for, deletes, inserts and
the constraint it violates. `AdminApi` runs the handlers on it: a transaction
begins with the first statement, its writes are visible to others on commit,
tuple writes take effect at once and no rollback undoes them; a failing begin or
commit, a transaction that expires after its sixty seconds while the handler goes
on, and an OpenFGA write that is applied and reported as failed, are faults.
Paged deletions take one page per step. `Revokes` has the pairs of a group and an
application that a call is to revoke and `Covers` those whose tuples its calls to
OpenFGA name; they differ for `RemoveAllowedGroupsForApp`. `Readers` extends `AdminApi` with clients:
the GET handlers, which may be answered by the replica, and the token hook, which
reads the groups of the user on the primary and asks OpenFGA for them at a later
moment, with writers between the two. `Importer` runs on the same tables with
one commit per statement, beside administrators whose requests are single steps.

`ReadPath` abstracts a database to the number of writes it has. Its clock ticks;
the monitor waits, samples and stores; a lag with a fraction of a millisecond does
not fit the integer it is scanned into and counts as an error. `Bootstrap` is the
command `create-fga-model`: it makes a store unless it is given one, writes the
embedded model; either call may fail, also after it took
effect, and other programs write models too. `Access` extends it. It goes through
the stages of the start (database, authorization model, tenant connection, verifier), any of which
may end it, and then decides one header over HTTP and one over gRPC for every
configuration. A list of subjects may have blank entries, and a token may lack a
subject or have a blank among its scopes: `Blank` is the empty string.

## Runs

Each `MC` module holds the instances; each `.cfg` is one run.

| Run | Instance | Shows |
| --- | --- | --- |
| `pool` | 2 workers, 5 jobs (channel of 4 overfills), 2 answers | a worker never sends on a closed or full channel; a job is in one place and its WaitGroup agrees; the channel and the worker count stay in bounds; nothing runs after `Stop`; the inductive invariant; the refinement of `JobContract` |
| `hook` | 2 requests, 2 workers, panics, `Stop` | no job outlives its request; tokens only for confirmed tenants while the pool is healthy; a request is answered unless every worker is gone: one panic, or two jobs of one request that panic on different workers, and a `Stop` that only some workers have seen, leave nobody waiting |
| `serve` | 2 requests, 1 worker (channel of 2), handlers that hang | replies match the answers; 429 only for a full channel while the pool is healthy; the handlers are a client of the pool; no job on a closed database; jobs are lost only by a forced shutdown; the process exits |
| `admin_grants` | 3 requests on one group with 2 applications, page size 1, transactions that cannot begin, expire or lose their commit, late answers | a confirmed revocation leaves none of the tuples that its call covers; a confirmed grant has its tuple; a stray tuple needs a fault or a `RemoveAllowedGroupsForApp`; but for that call, calm requests keep the stores equal |
| `admin_members` | 2 requests and a command on 2 groups and a fresh one | keys and unique names hold; the last durable write on a membership wins |
| `readers` | 2 writing requests, 1 client that calls the hook or a GET handler, a replica, transactions that cannot begin, expire or lose their commit | a read on the primary sees what was committed and answered before it; the hook, with two reads at two moments, allows through no removed membership or grant and denies nobody who held both throughout |
| `import` | 2 imports and an edit of an administrator or of the source, faults | a sync that succeeds alone reconciles the tables; a stray tuple has an explanation; keys hold; groups that never had the prefix are untouched |
| `read` | 1 request of every kind, a replica that stops and starts | a replica read is at most `MaxLag + 2 QueryTimeout + Period` behind; non-read-only requests see every earlier write; a stream that ends OK is complete; a replica that stays up is used again, whatever failed before |
| `access_rules` | 2 subjects, 1 scope, blanks, all configurations; 1 store, 2 models, commands and other writers beside the start | with authentication on, HTTP and gRPC admit only a good token whose subject or scope the configuration names, and a blank names nobody; with authorization on, requests are decided only over a model of the embedded schema version |

The bound of `read` is tight: TLC refutes it when it is lowered by one.

Three runs expect a violation. Each states a sentence of the repository that the
code does not keep:

| Run | Sentence | What the model shows |
| --- | --- | --- |
| `serve_tenant` | tokens are never issued without tenant validation (`openspec/specs/tenant-grpc-client/spec.md:9`) | an aborted tenant job is read as success |
| `admin_replace` | replaces all group memberships (`internal/storage/groups.go:316`) | concurrent replacements leave the union |
| `admin_for_app` | removes all allowed groups for an app (`pkg/authorization/grpc_handlers.go:218`) | the rows are deleted, the tuples stay, and the answer is 200 |

The last one is a defect of `internal/authorization/authorization.go:121`: the loop
reads the tuples with the user `GroupMemberTuple("")`, that is `group:#member`, and
OpenFGA matches a user exactly. No group has an empty id, so no tuple is found and
none deleted: the groups keep their access, and a later `AddAllowedAppToGroup` of such a
pair fails, since its tuple exists. The other properties of `AdminApi` therefore except
this call by name (`Covers`, `LeftBehind`) and promise nothing of its tuples.

Other behaviours of the code that the models contain and no run singles out:

- With no group left, the groups claim of the session stays in the token
  (`pkg/hooks/handlers.go:174`); `ReplyMatchesAnswers` speaks of non-empty groups.
- After a failed BEGIN a statement commits by itself, and no later error undoes
  it (`internal/db/storage.go:160`); the error of COMMIT is dropped
  (`internal/db/middleware.go:28`), so that a request is answered with success and its
  rows are lost, although "the transaction is committed if the handler completes
  successfully" (`internal/db/middleware.go:14`). `StrayTupleNeedsFault` names both as
  causes, `RevokedMeansNoTuple` and `GrantedMeansTuple` hold of the tuples all the same,
  and `CommittedIsSeen` and the memberships of `HookHonoursRemovals` and
  `HookHonoursGrants` are about requests whose commit succeeded.
- When OpenFGA fails while a `Sync` deletes a stale group, the rows are gone and the
  failure is reported; later runs no longer find the group, and its tuples stay
  (`internal/importer/importer.go:167`), although the sync mode "ensures the database and
  authorization state converge" (`openspec/specs/import-sync/spec.md:5`).
  `StrayTupleExplained` counts such a run as an explanation.
- The handler of UpdateGroup says "group name cannot be updated"
  (`pkg/groups/grpc_handlers.go:192`), but the statement writes every column: an
  update without a name erases it (`internal/storage/groups.go:150`).
- `Sync` deletes by ids that it listed earlier; a group whose name an update has
  erased meanwhile is deleted although it has no prefix any more.
  `OthersUntouched` is therefore about groups that never had the prefix.
- A GET that the replica answers may miss what its own client was told a moment
  ago; `CommittedIsSeen` speaks of the primary, and of the hook always.
- While the replica reports a lag that is not a whole number of milliseconds, no
  read goes to it (`internal/db/storage.go:437`).
- Until the next sample, reads go to a replica that is down, and fail.
- `CompareModel` refuses the model whose type definitions equal the embedded
  ones and accepts those that differ (`internal/openfga/client.go:133`), although
  the refusal is logged as "invalid authorization model type definitions".
  `ModelCheckedBeforeServing` is therefore about the schema version only.
- With authentication off, HTTP admits everything while the gRPC interceptor
  refuses a stream without a bearer header; `AdmittedByName` assumes it on.

### Bounds

A full channel needs one job more than twice the workers, which `pool` and `serve`
have. In `hook` there are two workers instead: after a panic one of them is left to do
the work, so that "every worker is gone" takes two steps of two workers. Its channel of
four holds the jobs of both requests, so that refused jobs, the tenant job of a request
whose group lookup is already queued among them, are met in `serve` and not in `hook`. Two actors suffice for
each race in the list of hazards; a third request in `admin_grants` meets what
the first two left. Page size one makes every paged deletion with two tuples
interruptible. `MaxWrites`, `MaxBehind` and `MaxEdits` bound the environment;
`MaxBehind` lies above the staleness bound, so the bound of the clock does not
hide a violation. One request suffices in `read`: requests meet only through the
databases, whose writes come from the environment. One client suffices in
`readers`, since clients write nothing; its replica replays in one step all that
is committed, and earlier states of it are reached by replaying earlier. One store
suffices in `access_rules`: a command may be given its id before or after it
exists, and the second model is that of another writer or of a second command.
One scope suffices there: what is compared is one required scope with the scopes of one
token, and a blank stands beside it.
All inductive invariants were checked by TLC on these or smaller instances before
they were proved. Symmetry is used for interchangeable workers,
jobs, answers, requests, imports, subjects and fresh ids, and only in runs
without liveness.

### Fairness

In `hook` and `serve` weak fairness of one action that is the disjunction of the steps of
the goroutines: the Go scheduler runs one of those that can run, and no order among
them is assumed. The functions of jobs are assumed to return. The tenant lookup has a deadline of its
own and a transaction one of sixty seconds, but a query on the pool outside a
transaction relies on the driver. A panic, an arrival, a signal and `Stop` are
never forced. In `serve` handlers get no fairness: the shutdown ends even when
they hang. In `read` the replica replays while it is up, the goroutine of the
monitor takes its samples, and `StoreLag` is strongly fair: queries of the monitor
may fail again and again, but not every one of them for ever. Deadlock is not checked
where all jobs may be over, all requests answered or the process gone.

## Proofs

Each proof module holds for every value of the constants that meets the named
assumptions, which TLC evaluates on every instance. A safety property is seldom
inductive: each component has an invariant that is, next to its properties, and the
proof module shows action by action that a step keeps it.

`WorkerPoolProofs`, for any finite set of workers and any jobs and answers
(`WorkersFinite`, `NoJobIsNotAJob`, `NoAnswerIsNotAnAnswer`):

- `PoolInvariant`: `Spec => []PoolInv`. That a worker finds its result channel
  empty needs `ChannelsInOrder` (a queued job has sent nothing, a channel is
  closed by its caller only) and `HandsMatchPlaces` (a busy worker holds exactly
  the job its caller waits for); that no function runs after `Stop` needs
  `StopInOrder`, which says where a worker may be once `Stop` has returned,
  including workers that were spawned late. `JobInOnePlace` ties the WaitGroup
  of a job to the places it is in, so it cannot be collected early.
- `TypeCorrect`, `JobsRunOnce`, `PoolBounded`, `SendNeverBlocks`, `StopIsFinal`
  follow from it.
- `PoolKeepsContract`: `Spec => KeepsContract`. The mapping reads the fate of a job
  off the place it is in, so the proof shows for each action that the fate of one
  job changes as the contract allows and all others stay (`Same`, `OneChanges`).
  `PoolInv` is needed to know that the job a worker gives up is in no other place.

`HookProofs`, for any requests, workers and groups (`ArrivalsAreRequests` and the
assumptions of the pool):

- `HookUsesPool`: `Spec => UsesPool`. Every step of `TokenHook` is a step of the pool
  or leaves it alone, so `PoolInv` holds under the hook.
- `HookInvariant`: `Spec => []HookInv`. Over `PoolInv` it says which jobs a handler has
  submitted and collected at each place (`JobsFollow`), what it has received when it
  returns an outcome (`OutcomeFollows`), and what the reply is made of
  (`ReplyFollows`). `AnswersAreTold` follows the value that the function of a job
  returned, from the worker through the channel to the caller; `LossNeedsFault` says
  that a pool that was not stopped and lost no worker loses no job. From it:
  `HookTypeCorrect`, `RepliesMatchAnswers`, `NoJobOutlivesItsRequest`,
  `BusyOnlyWhenFull`, `TenantIsConfirmed`.
- `ServeRunsHook`: `ServeSpec => Spec`, and `ServeInvariant`: `ServeSpec => []ServeInv`.
  `ShutdownInOrder` says how far the servers, the pool and the database are, given
  how far the shutdown is, and that no request is in flight once the HTTP server has
  drained. From it: `NoJobOnClosedDatabase`, `GracefulShutdownLosesNothing`.

`TablesProofs` has what the others need of the statements: what each one does to
consistent tables and which group it touches; and that the locks a statement waits for
put the transaction that executes it `Apart` from every other open one.

`AdminApiProofs`, for any requests, commands, groups, users and applications, any page
size and any faults (`PageSizePositive`, `CallsExist`, `CallsTyped`,
`InitialRowsConsistent`, `NoNameIsAName`):

- `GrantInvariant`: `Spec => [](Domains /\ GrantInv)`, about the tuples; the tables play
  no part in it. A request confirms when it replies what it did steps before.
  `ClaimHolds` says what is true of the tuples that a request is about to confirm, by
  the place where it is; the rest of `GrantInv` says that no request in flight can undo
  it, because two requests that oppose each other on a pair confirm neither. The paged
  deletion needs that the last page holds all that is left. What a request claims to
  have revoked are the pairs it covers, so `RemoveAllowedGroupsForApp` claims none. From it:
  `RevokedStaysRevoked`, `GrantedStaysGranted`.
- `AdminInvariant`: `Spec => []AdminInv`, from `GrantInv`; it is the conjunction of the
  types and four invariants. `TablesInv`: what every open transaction sees is consistent, and any
  two of them are `Apart`, so that it stays consistent when another one commits.
  `KeptInv`: a transaction that will commit holds the memberships that its request
  asks for. `StrayInv`: unless a fault happened, a tuple was left behind by a
  committed `RemoveAllowedGroupsForApp` or has its row in the table or in
  a transaction that will commit, and a transaction that will commit has deleted the
  tuples that its call covers of the grants it takes out. `CalmInv`: a row without a tuple is one that the
  only request in flight is about to take out. From it: `AdminTypes`,
  `TablesStayConsistent`, `LastWriteStays`, `StrayTakesFault`, `CalmStoresAgree`.

`ReadersProofs`, for any clients and questions beside those requests
(`QuestionsExist`):

- `ReadersInvariant`: `ReadersSpec => []ReadersInv`. `present` and `absent` are the rows
  that requests have put in or taken out which were committed and answered with success,
  and that no later request is about.
  `SettledInv` says that the committed rows agree with them: a transaction takes and
  adds only rows of its call (`OwnRows`), none of which is settled while the request is
  in flight, and what a request will confirm is true of the rows that it sees, but for
  the rows of the calls beside it (`Cleared`, `Filled`). `ReaderInv` says that what a
  client waits for is settled, and, between the two reads of the hook, that it has read
  the memberships of its user. From it: `CommittedStaysSeen`, `RemovalsStayHonoured`,
  `GrantsStayHonoured`. The last two also use `GrantInv`, since `ReadersSpec` implements
  the `Spec` of `AdminApi` (`ReadersImplementSpec`).

`ImporterProofs`, for any imports, groups, users, applications and names, any page
size, faults and edits (`ImportedRows`, `SourceRecords`, `CommandsExist`,
`NamesOfGroups`, `NoNameIsAName`, `ImportBounds`):

- `ImportInvariant`: `Spec => [](Shape /\ ImportInv)`. An import acts on what it looked
  up many steps before, so `HandInv` says what it has in hand at each place: a group
  that once had the prefix, and, once the rows of that group are deleted, that the
  group never comes back and that the last page has all of its tuples. There is one
  lemma per step.
- `ImportTypes`, `TablesStayConsistent`, `StrayTuplesExplained` and the action property
  `ImportsLeaveOthers` (`Spec => OthersUntouched`) follow.
- `SyncsProgress`: `Spec => [](\A i \in Imports : SyncInv(i))`. Of a Sync that met no
  failure and beside which no one wrote, `SyncInv` says how far it is. In the loop over the
  groups of the driver (`FillingInv`), the names that are done have their group with
  exactly the members of the driver, and every other group with the prefix is one it has
  listed. In the loop over the stale groups (`EmptyingInv`), the groups beside those of
  the driver are the ones still to be deleted, and the deleted ones have no tuples but for
  the one in hand. That no statement disturbs a name that is done rests on the
  uniqueness of names and ids (`TablesConsistent`) and on fresh ids.
- `SyncsReconcile`: `Spec => SyncReconciles`. A Sync returns nil only at the end of the
  second loop and with no failure (`SuccessIsSyncDone`); there `SyncInv` is `Reconciled`.

`ReadPathProofs`, for all durations and any requests (`Durations`, `KindsExist`,
`ReadFaults`):

- `LagInvariant`: types and `LagInv`, which bounds how far the replica may be
  behind the stored sample in each phase of the monitor.
- `ReplicaStalenessBounded`: `Spec => []StalenessBounded`.
- `RequestsInvariant`: what a request has seen and sent at each place; it gives
  `TransactionsSeeEverything` and `OkStreamsAreComplete`.

`AccessProofs`, for any stores, models, subjects and scopes (`BlankIsNoName`):

- `AccessInvariant`: `Spec => []AccessInv`. It says that a request is decided only by a
  service that listens, and that a checked model stays in its store from the check
  on, whoever writes meanwhile. `OnlyTheNamedEnter` and `ServesCheckedModel` follow;
  the former rests on `VerifiedIsNamed`, that what the verifier accepts matches a name.

Only model-checked: all liveness (`AnsweredOrPoolDead`, `ShutdownEnds`,
`ReplicaUsedAgain`), since fairness and ENABLED are beyond the prover.

## Assumptions about what is outside

- OpenFGA refuses to write a tuple that exists and to delete one that does not;
  a read returns any page of matching tuples, with a token while more remain.
- A SQL statement takes effect at one moment, waits for row locks of open
  transactions, and sees what is committed (READ COMMITTED).
- Group ids are never reused. An administrator's request is one step for the
  importer, since its locks are held until commit.
- `pg_stat_replication` is taken at its word and the monitor runs on time.
- go-oidc accepts a token or not. A killed import dies between two calls
  and loses what it had in memory.
- An OpenFGA Read matches the user exactly and, when the object is a type without an
  id, every object of that type: `ClientTuple("")` stands for every application of a
  group, `GroupMemberTuple("")` for no group.
- `pg_stat_replication` is a system view: a server that has it keeps it.

## Plan

Put the importer beside the clients of `Readers`.
