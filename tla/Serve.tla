-------------------------------- MODULE Serve --------------------------------
(***************************************************************************)
(* The life of the serve command (cmd/serve.go) around the token hook: the  *)
(* errgroup of the HTTP server, the gRPC server and the signal handler; the *)
(* graceful shutdown with its deadline of 15 seconds; and the deferred      *)
(* calls that stop the pool and then close the tenant connection and the    *)
(* database, in that order.                                                 *)
(* Handlers that outlive the deadline keep running until the process exits. *)
(***************************************************************************)
EXTENDS TokenHook

VARIABLES
  server,   \* where serve() is
  http,     \* the HTTP server: it accepts requests while it is "up"
  grpc,     \* the gRPC server
  db,       \* the connection pools of dbClient
  forced    \* history: the HTTP server was left with requests in flight

serveVars == <<server, http, grpc, db, forced>>

allVars == <<vars, serveVars>>

ServeTypeOK ==
  /\ TypeOK
  /\ server \in {"serving", "cancelled", "returning", "exited"}
  /\ http \in {"up", "failed", "draining", "over"}
  /\ grpc \in {"up", "over"}
  /\ db \in {"open", "closed"}
  /\ forced \in BOOLEAN

ServeInit ==
  /\ Init
  /\ server = "serving"
  /\ http = "up"
  /\ grpc = "up"
  /\ db = "open"
  /\ forced = FALSE

-----------------------------------------------------------------------------
Running == server # "exited"

\* Connections accepted before the listener failed still carry requests.
Accepting == http \in {"up", "failed"}

InFlight == {r \in Requests : pc[r] \notin {"idle", "done"}}

\* The signal goroutine returns errShutdownSignal: the errgroup cancels its
\* context.
Signal ==
  /\ server = "serving"
  /\ server' = "cancelled"
  /\ UNCHANGED <<vars, http, grpc, db, forced>>

\* ListenAndServe fails: the HTTP goroutine returns the error, which cancels
\* the context, and Shutdown is not called. Its select takes this case even
\* when the context is cancelled already.
HttpFails ==
  /\ server \in {"serving", "cancelled"}
  /\ http = "up"
  /\ server' = "cancelled"
  /\ http' = "failed"
  /\ forced' = TRUE
  /\ UNCHANGED <<vars, grpc, db>>

\* The HTTP goroutine sees the cancelled context and calls Shutdown, which
\* closes the listener.
HttpShutdown ==
  /\ server = "cancelled"
  /\ http = "up"
  /\ http' = "draining"
  /\ UNCHANGED <<vars, server, grpc, db, forced>>

\* grpcSrv.Serve fails: the gRPC goroutine returns the error.
GrpcFails ==
  /\ server \in {"serving", "cancelled"}
  /\ grpc = "up"
  /\ server' = "cancelled"
  /\ grpc' = "over"
  /\ UNCHANGED <<vars, http, db, forced>>

\* Shutdown returns once no request is in flight.
HttpDrained ==
  /\ http = "draining"
  /\ InFlight = {}
  /\ http' = "over"
  /\ UNCHANGED <<vars, server, grpc, db, forced>>

\* Variant of HttpTimeout: Shutdown without a deadline.
HttpNeverTimesOut ==
  /\ http = "draining"
  /\ InFlight = {}
  /\ http' = "over"
  /\ UNCHANGED <<vars, server, grpc, db, forced>>

\* Shutdown returns at its deadline, the handlers still running.
HttpTimeout ==
  /\ http = "draining"
  /\ InFlight # {}
  /\ http' = "over"
  /\ forced' = TRUE
  /\ UNCHANGED <<vars, server, grpc, db>>

\* GracefulStop ends, or Stop cuts it off at the deadline.
GrpcStops ==
  /\ server = "cancelled"
  /\ grpc = "up"
  /\ grpc' = "over"
  /\ UNCHANGED <<vars, server, http, db, forced>>

\* Variant of EgWaitReturns: the HTTP server is not waited for.
EgWaitIgnoresHttp ==
  /\ server = "cancelled"
  /\ grpc = "over"
  /\ server' = "returning"
  /\ Pool!Stop
  /\ UNCHANGED <<hookVars, told, http, grpc, db, forced>>

\* eg.Wait() returns; the deferred wpool.Stop cancels the workers.
EgWaitReturns ==
  /\ server = "cancelled"
  /\ http \in {"failed", "over"}
  /\ grpc = "over"
  /\ server' = "returning"
  /\ Pool!Stop
  /\ UNCHANGED <<hookVars, told, http, grpc, db, forced>>

PoolStopped ==
  /\ server = "returning"
  /\ Pool!StopReturns
  /\ UNCHANGED <<hookVars, told, serveVars>>

\* Variant of CloseDb: the deferred calls in the wrong order.
CloseDbFirst ==
  /\ server = "returning"
  /\ db = "open"
  /\ db' = "closed"
  /\ UNCHANGED <<vars, server, http, grpc, forced>>

\* The deferred tenantServiceConn.Close and dbClient.Close.
CloseDb ==
  /\ server = "returning"
  /\ stopper = "returned"
  /\ db = "open"
  /\ db' = "closed"
  /\ UNCHANGED <<vars, server, http, grpc, forced>>

\* serve() has returned, and with it the process.
Exit ==
  /\ db = "closed"
  /\ server' = "exited"
  /\ Running
  /\ UNCHANGED <<vars, http, grpc, db, forced>>

-----------------------------------------------------------------------------
HookStep ==
  /\ Running
  /\ \/ StartPool
     \/ \E w \in Workers : JobReturns(w) \/ WorkerMoves(w)
     \/ \E r \in Requests : HandlerStep(r) \/ (Accepting /\ (Arrive(r) \/ Refuse(r)))
  /\ UNCHANGED serveVars

ServeNext ==
  \/ HookStep
  \/ Signal \/ HttpFails \/ GrpcFails
  \/ HttpShutdown \/ HttpDrained \/ HttpTimeout \/ GrpcStops
  \/ EgWaitReturns \/ PoolStopped \/ CloseDb \/ Exit

\* The goroutines of serve and of the pool run; a handler may hang.
ServeRuns ==
  \/ HttpShutdown \/ HttpDrained \/ HttpTimeout \/ GrpcStops
  \/ EgWaitReturns \/ PoolStopped \/ CloseDb \/ Exit
  \/ /\ Running
     /\ StartPool \/ \E w \in Workers : JobReturns(w) \/ WorkerMoves(w)
     /\ UNCHANGED serveVars

\* The deadlines pass, the functions of the jobs return, and Go runs one of
\* these goroutines as long as one of them can run.
ServeFairness == WF_allVars(ServeRuns)

ServeSpec == ServeInit /\ [][ServeNext]_allVars

FairServeSpec == ServeSpec /\ ServeFairness

-----------------------------------------------------------------------------
\* No job runs on a closed database: the pool is stopped, and has waited for
\* its workers, before dbClient.Close. A group lookup is inside GetGroupsForUser
\* while its worker is running.
DbOpenWhileWorking ==
  db = "closed" => \A w \in Workers : worker[w] # "running"

\* A shutdown in which the HTTP server drained loses no work: a job that was
\* accepted and ended without a result means that handlers were left in
\* flight, by the deadline or by a failed listener.
LossNeedsForcedShutdown ==
  (\E j \in Jobs : client[j] = "collected" /\ received[j] = NoAnswer) => forced

\* Once the context is cancelled, serve returns and the process exits.
ShutdownEnds == (server = "cancelled") ~> (server = "exited")
-----------------------------------------------------------------------------
\* The order of the shutdown: the pool is stopped when both servers have
\* returned, and the database is closed when the pool has stopped. No worker
\* panics, and none leaves before the shutdown. When the HTTP server drained,
\* no request is in flight from then on.
ShutdownInOrder ==
  /\ shutdown <=> server \in {"returning", "exited"}
  /\ shutdown => http \in {"failed", "over"}
  /\ db = "closed" => stopper = "returned"
  /\ http = "failed" => forced
  /\ http = "over" /\ ~forced => InFlight = {}
  /\ \A w \in Workers : worker[w] \notin {"panicking", "recovering"}
  /\ \A w \in Workers : worker[w] = "gone" => shutdown

\* Everything that the safety properties of serve rest on.
ServeInv ==
  /\ ServeTypeOK
  /\ HookInv
  /\ ShutdownInOrder
  /\ LossNeedsForcedShutdown
=============================================================================
