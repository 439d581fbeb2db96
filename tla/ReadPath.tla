------------------------------ MODULE ReadPath ------------------------------
(***************************************************************************)
(* The route of a request to a database: TransactionMiddleware and the gRPC  *)
(* interceptors of internal/db, the choice of Statement between the primary  *)
(* and its read-only replica, the goroutine that samples the replication     *)
(* lag, and the streams of the groups mapping service.                       *)
(*                                                                           *)
(* The contents of a database are abstracted to the number of writes it has. *)
(* Time passes in ticks of the unit of MaxLag.                               *)
(***************************************************************************)
EXTENDS Naturals

CONSTANTS
  Requests,
  Kinds,         \* subset of {"get", "post", "stream"}
  MaxLag,        \* maxLagMs
  Period,        \* the time between two samples of the lag
  QueryTimeout,  \* the time a sample may take
  StreamRows,    \* the rows that a stream has to send
  Faults,        \* what may go wrong
  MaxWrites,     \* bound on the writes
  MaxBehind      \* bound on how far the replica falls behind

ASSUME Durations ==
  /\ MaxLag \in Nat /\ Period \in Nat /\ QueryTimeout \in Nat
  /\ MaxWrites \in Nat /\ MaxBehind \in Nat /\ StreamRows \in Nat

ASSUME KindsExist == Kinds \subseteq {"get", "post", "stream"}

\* "query": a sample of the lag fails. "down": the replica stops. "stream": the
\* client goes away or the stream times out.
ASSUME ReadFaults == Faults \subseteq {"query", "down", "stream"}

VARIABLES
  primary,   \* the writes of the primary
  replica,   \* the writes that the replica has replayed
  behind,    \* the age of the oldest write that the replica has not replayed
  up,        \* the replica answers, and streams from the primary
  hasView,   \* the primary has pg_stat_replication
  runner,    \* the DBClient has a replicaRunner
  lag,       \* replicaLagMs; the unlimited lag is UnknownLag
  monitor,   \* "off", "waiting", "querying" or "stopped"
  sample,    \* the lag the server has returned, not yet stored
  waited,    \* how long the monitor has been waiting or querying
  pc,        \* where each request is
  kind,      \* what it is
  target,    \* the database of its statement
  seen,      \* the writes that its query saw
  arrived,   \* history: the writes of the primary when it arrived
  sent       \* the rows it has streamed

dbVars == <<primary, replica, behind, up, hasView>>

lagVars == <<runner, lag, monitor, sample, waited>>

reqVars == <<pc, kind, target, seen, arrived, sent>>

readVars == <<primary, replica, behind, up, hasView, runner, lag, monitor, sample,
              waited, pc, kind, target, seen, arrived, sent>>

\* math.MaxInt64: above any lag the server reports.
UnknownLag == MaxLag + MaxBehind + 1

DatabaseTypes ==
  /\ primary \in 0..MaxWrites
  /\ replica \in 0..primary
  /\ behind \in 0..MaxBehind
  /\ up \in BOOLEAN
  /\ hasView \in BOOLEAN
  /\ runner \in BOOLEAN
  /\ lag \in 0..MaxBehind \cup {UnknownLag}
  /\ monitor \in {"off", "waiting", "querying", "stopped"}
  /\ sample \in 0..MaxBehind \cup {UnknownLag}
  /\ waited \in 0..(Period + QueryTimeout)

RequestTypes ==
  /\ pc \in [Requests -> {"idle", "statement", "query", "sending", "ok", "failed"}]
  /\ kind \in [Requests -> {"get", "post", "stream"}]
  /\ target \in [Requests -> {"primary", "replica"}]
  /\ seen \in [Requests -> 0..MaxWrites]
  /\ arrived \in [Requests -> 0..MaxWrites]
  /\ sent \in [Requests -> 0..StreamRows]

TypeOK == DatabaseTypes /\ RequestTypes

(***************************************************************************)
(* NewDBClient: without a replica DSN, or when the replica cannot be parsed, *)
(* opened or pinged, the client has no replicaRunner and no monitor. The lag *)
(* is unknown until the first sample.                                        *)
(***************************************************************************)
NewDBClient ==
  /\ runner \in BOOLEAN
  /\ runner => up
  /\ lag = UnknownLag
  /\ monitor = IF runner THEN "waiting" ELSE "off"

Init ==
  /\ primary = 0 /\ replica = 0 /\ behind = 0
  /\ up \in BOOLEAN /\ hasView \in BOOLEAN
  /\ NewDBClient
  /\ sample = UnknownLag
  /\ waited = 0
  /\ pc = [r \in Requests |-> "idle"]
  /\ kind = [r \in Requests |-> "get"]
  /\ target = [r \in Requests |-> "primary"]
  /\ seen = [r \in Requests |-> 0]
  /\ arrived = [r \in Requests |-> 0]
  /\ sent = [r \in Requests |-> 0]

-----------------------------------------------------------------------------
(***************************************************************************)
(* The databases and the clock (external).                                  *)
(***************************************************************************)
Write ==
  /\ primary < MaxWrites
  /\ primary' = primary + 1
  /\ UNCHANGED <<replica, behind, up, hasView, lagVars, reqVars>>

\* The replica replays some of the writes; the ones that remain are younger.
Replay ==
  /\ up /\ replica < primary
  /\ \E n \in (replica + 1)..primary :
       /\ replica' = n
       /\ \/ n = primary /\ behind' = 0
          \/ n < primary /\ behind' \in 0..behind
  /\ UNCHANGED <<primary, up, hasView, lagVars, reqVars>>

ReplicaStops ==
  /\ "down" \in Faults /\ up
  /\ up' = FALSE
  /\ UNCHANGED <<primary, replica, behind, hasView, lagVars, reqVars>>

ReplicaStarts ==
  /\ ~up
  /\ up' = TRUE
  /\ UNCHANGED <<primary, replica, behind, hasView, lagVars, reqVars>>

\* The monitor is on time: it does not wait longer than Period for its next
\* sample, and a sample does not take longer than QueryTimeout.
Tick ==
  /\ behind < MaxBehind
  /\ monitor = "waiting" => waited < Period
  /\ monitor = "querying" => waited < QueryTimeout
  /\ behind' = IF replica < primary THEN behind + 1 ELSE behind
  /\ waited' = IF monitor \in {"waiting", "querying"} THEN waited + 1 ELSE waited
  /\ UNCHANGED <<primary, replica, up, hasView, runner, lag, monitor, sample, reqVars>>

-----------------------------------------------------------------------------
(***************************************************************************)
(* monitorReplicationLag. The server computes the lag at one moment and the  *)
(* goroutine stores it at a later one. Without a streaming replica the lag   *)
(* is unknown. pg_stat_replication is taken at its word: the lag that it     *)
(* shows is the true one when it is read.                                    *)
(***************************************************************************)
SampleLag ==
  /\ monitor = "waiting" /\ hasView
  /\ monitor' = "querying"
  /\ sample' = IF up THEN behind ELSE UnknownLag
  /\ waited' = 0
  /\ UNCHANGED <<runner, lag, dbVars, reqVars>>

StoreLag ==
  /\ monitor = "querying"
  /\ lag' = sample
  /\ monitor' = "waiting"
  /\ waited' = 0
  /\ UNCHANGED <<runner, sample, dbVars, reqVars>>

\* The query fails; or its answer, in milliseconds, has a fraction, which Scan
\* does not convert to an int64.
SampleRefused ==
  \/ "query" \in Faults /\ monitor \in {"waiting", "querying"}
  \/ monitor = "querying" /\ sample \notin {0, UnknownLag}

\* Variant of SampleFails: the last sample is kept.
SampleFailsKeepsLag ==
  /\ SampleRefused
  /\ monitor' = "waiting"
  /\ waited' = 0
  /\ UNCHANGED <<runner, lag, sample, dbVars, reqVars>>

\* Variant of SampleFails: every error ends the goroutine.
SampleFailsStops ==
  /\ SampleRefused
  /\ lag' = UnknownLag
  /\ monitor' = "stopped"
  /\ waited' = 0
  /\ UNCHANGED <<runner, sample, dbVars, reqVars>>

SampleFails ==
  /\ SampleRefused
  /\ lag' = UnknownLag
  /\ monitor' = "waiting"
  /\ waited' = 0
  /\ UNCHANGED <<runner, sample, dbVars, reqVars>>

\* On a server without pg_stat_replication the goroutine ends. A system view
\* does not go away while the server runs.
MonitorStops ==
  /\ monitor = "waiting" /\ ~hasView
  /\ monitor' = "stopped"
  /\ UNCHANGED <<runner, lag, sample, waited, dbVars, reqVars>>

-----------------------------------------------------------------------------
\* TransactionMiddleware and StreamReplicaRoutingInterceptor: a GET and a Get*
\* stream are read-only, any other request gets a lazy transaction.
ReadOnly(r) == kind[r] \in {"get", "stream"}

Arrive(r) ==
  /\ pc[r] = "idle"
  /\ \E k \in Kinds : kind' = [kind EXCEPT ![r] = k]
  /\ pc' = [pc EXCEPT ![r] = "statement"]
  /\ arrived' = [arrived EXCEPT ![r] = primary]
  /\ UNCHANGED <<target, seen, sent, dbVars, lagVars>>

\* Variant of Chosen: a transaction does not override the routing.
ChosenIgnoringTx(r) == IF runner /\ lag <= MaxLag THEN "replica" ELSE "primary"

Chosen(r) == IF ReadOnly(r) /\ runner /\ lag <= MaxLag THEN "replica" ELSE "primary"

\* Statement picks the database from the last stored lag.
Statement(r) ==
  /\ pc[r] = "statement"
  /\ target' = [target EXCEPT ![r] = Chosen(r)]
  /\ pc' = [pc EXCEPT ![r] = "query"]
  /\ UNCHANGED <<kind, seen, arrived, sent, dbVars, lagVars>>

Reached(r) == target[r] = "primary" \/ up

\* The statement runs on a snapshot of the database that was picked.
Query(r) ==
  /\ pc[r] = "query" /\ Reached(r)
  /\ seen' = [seen EXCEPT ![r] = IF target[r] = "primary" THEN primary ELSE replica]
  /\ pc' = [pc EXCEPT ![r] = IF kind[r] = "stream" THEN "sending" ELSE "ok"]
  /\ UNCHANGED <<kind, target, arrived, sent, dbVars, lagVars>>

\* Nothing is retried: without an answer the request fails.
QueryFails(r) ==
  /\ pc[r] = "query" /\ ~Reached(r)
  /\ pc' = [pc EXCEPT ![r] = "failed"]
  /\ UNCHANGED <<kind, target, seen, arrived, sent, dbVars, lagVars>>

\* Variant of SendRow: the end of the rows does not end the loop.
SendRowForever(r) ==
  /\ pc[r] = "sending" /\ Reached(r)
  /\ sent' = [sent EXCEPT ![r] = @ + 1]
  /\ UNCHANGED <<pc, kind, target, seen, arrived, dbVars, lagVars>>

SendRow(r) ==
  /\ pc[r] = "sending" /\ sent[r] < StreamRows /\ Reached(r)
  /\ sent' = [sent EXCEPT ![r] = @ + 1]
  /\ UNCHANGED <<pc, kind, target, seen, arrived, dbVars, lagVars>>

\* The rows end early, which rows.Err reports, or the client or the timeout
\* ends the stream.
Broken(r) == ~Reached(r) \/ "stream" \in Faults

\* Variant of EndStream: the error of the iteration is not looked at.
EndStreamUnchecked(r) ==
  /\ pc[r] = "sending"
  /\ sent[r] = StreamRows \/ Broken(r)
  /\ pc' = [pc EXCEPT ![r] = "ok"]
  /\ UNCHANGED <<kind, target, seen, arrived, sent, dbVars, lagVars>>

\* The loop over the rows has ended: rows.Err tells whether they were all read.
EndStream(r) ==
  /\ pc[r] = "sending"
  /\ \/ sent[r] = StreamRows /\ pc' = [pc EXCEPT ![r] = "ok"]
     \/ sent[r] < StreamRows /\ Broken(r) /\ pc' = [pc EXCEPT ![r] = "failed"]
  /\ UNCHANGED <<kind, target, seen, arrived, sent, dbVars, lagVars>>

Serve(r) ==
  Arrive(r) \/ Statement(r) \/ Query(r) \/ QueryFails(r) \/ SendRow(r) \/ EndStream(r)

Databases == Write \/ Replay \/ ReplicaStops \/ ReplicaStarts \/ Tick

Monitor == SampleLag \/ StoreLag \/ SampleFails \/ MonitorStops

Next == Databases \/ Monitor \/ \E r \in Requests : Serve(r)

Spec == Init /\ [][Next]_readVars

\* The replica replays while it is up. The goroutine of the monitor runs, and
\* its queries do not all fail.
Fairness ==
  /\ WF_readVars(Replay)
  /\ WF_readVars(SampleLag)
  /\ SF_readVars(StoreLag)

FairSpec == Spec /\ Fairness

-----------------------------------------------------------------------------
(***************************************************************************)
(* Inductive strengthening of StalenessBounded: how far the replica may be   *)
(* behind the stored lag and behind the sample on its way, by the phase of   *)
(* the monitor.                                                              *)
(***************************************************************************)
LagInv ==
  /\ runner => monitor # "off"
  /\ monitor = "waiting" => waited <= Period
  /\ monitor = "querying" => waited <= QueryTimeout
  /\ monitor = "querying" /\ sample # UnknownLag => behind <= sample + waited
  /\ lag # UnknownLag =>
       /\ monitor = "waiting" => behind <= lag + QueryTimeout + waited
       /\ monitor = "querying" => behind <= lag + QueryTimeout + Period + waited
       /\ monitor # "stopped"
  /\ ~hasView => lag = UnknownLag /\ monitor # "querying"

\* A statement that Statement sends to the replica is at most this much behind
\* the primary: the threshold, the time the sample took to be stored, and the
\* time until the next one is stored.
StalenessBound == MaxLag + QueryTimeout + Period + QueryTimeout

\* Statement routes to a replica only when it was in reach of the primary at
\* the last sample and is not further behind than the threshold and the age of
\* that sample (Statement and monitorReplicationLag in storage.go).
StalenessBounded ==
  \A r \in Requests :
    pc[r] = "statement" /\ Chosen(r) = "replica" => behind <= StalenessBound

(***************************************************************************)
(* Inductive strengthening of TransactionsSeeAll and OkStreamIsComplete: what *)
(* a request has seen and sent, by the place where it is.                    *)
(***************************************************************************)
RequestInv(r) ==
  /\ arrived[r] <= primary
  /\ kind[r] = "post" /\ pc[r] = "query" => target[r] = "primary"
  /\ kind[r] = "post" /\ pc[r] \in {"sending", "ok"} => seen[r] >= arrived[r]
  /\ kind[r] = "stream" /\ pc[r] = "ok" => sent[r] = StreamRows

RequestsInv == \A r \in Requests : RequestInv(r)

\* A request that is not read-only, such as the token hook, sees every write
\* that was committed before it arrived, whatever the replica does
\* (TransactionMiddleware and Statement).
TransactionsSeeAll ==
  \A r \in Requests :
    kind[r] = "post" /\ pc[r] = "ok" => seen[r] >= arrived[r]

\* A stream that ends without an error has sent all of its rows (StreamGroupsForUser
\* and StreamUsersInGroup in internal/storage).
OkStreamIsComplete ==
  \A r \in Requests : kind[r] = "stream" /\ pc[r] = "ok" => sent[r] = StreamRows

\* No failure of the replica or of the monitor keeps reads away from a replica
\* for good: when it stays up and has caught up, a sample below the threshold
\* is stored again and again (monitorReplicationLag goes on after an error).
ReplicaUsedAgain ==
  runner /\ hasView /\ <>[]up => []<>(lag <= MaxLag)
=============================================================================
