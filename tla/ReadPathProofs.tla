--------------------------- MODULE ReadPathProofs ---------------------------
(***************************************************************************)
(* Proofs about ReadPath, for every number of requests and every threshold,  *)
(* period and timeout: the types, and the bound on the staleness of a replica *)
(* that Statement chooses.                                                   *)
(***************************************************************************)
EXTENDS ReadPath, TLAPS

\* The initial state has its types and satisfies LagInv.
LEMMA InitInv == Init => TypeOK /\ LagInv
  BY Durations, SMT DEF Init, NewDBClient, TypeOK, DatabaseTypes, RequestTypes, LagInv, UnknownLag

\* A step of the databases or of the clock keeps LagInv: the lag grows with the
\* clock, and so does the time the monitor has waited.
LEMMA DatabasesKeepInv ==
  ASSUME TypeOK, LagInv, Databases
  PROVE  TypeOK' /\ LagInv'
<1>1. RequestTypes'
  BY DEF TypeOK, RequestTypes, Databases, Write, Replay, ReplicaStops, ReplicaStarts, Tick,
         reqVars
<1>2. CASE Write
  BY <1>1, <1>2, Durations, SMT DEF TypeOK, DatabaseTypes, LagInv, Write, lagVars, UnknownLag
<1>3. CASE Replay
  BY <1>1, <1>3, Durations, SMT DEF TypeOK, DatabaseTypes, LagInv, Replay, lagVars, UnknownLag
<1>4. CASE ReplicaStops \/ ReplicaStarts
  <2>1. up' \in BOOLEAN
    BY <1>4, Zenon DEF ReplicaStops, ReplicaStarts
  <2>2. UNCHANGED <<primary, replica, behind, hasView, runner, lag, monitor, sample, waited>>
    BY <1>4 DEF ReplicaStops, ReplicaStarts, lagVars
  <2> QED BY <1>1, <2>1, <2>2, Zenon DEF TypeOK, DatabaseTypes, LagInv, UnknownLag
<1>5. CASE Tick
  BY <1>1, <1>5, Durations, SMT DEF TypeOK, DatabaseTypes, LagInv, Tick, UnknownLag
<1> QED BY <1>2, <1>3, <1>4, <1>5 DEF Databases

\* A step of the goroutine that samples the lag keeps LagInv: a sample is at
\* most QueryTimeout old when it is stored.
LEMMA MonitorKeepsInv ==
  ASSUME TypeOK, LagInv, Monitor
  PROVE  TypeOK' /\ LagInv'
<1>1. RequestTypes'
  BY DEF TypeOK, RequestTypes, Monitor, SampleLag, StoreLag, SampleFails, MonitorStops, reqVars
<1>2. CASE SampleLag
  BY <1>1, <1>2, Durations, SMT DEF TypeOK, DatabaseTypes, LagInv, SampleLag, dbVars, UnknownLag
<1>3. CASE StoreLag
  BY <1>1, <1>3, Durations, SMT DEF TypeOK, DatabaseTypes, LagInv, StoreLag, dbVars, UnknownLag
<1>4. CASE SampleFails
  BY <1>1, <1>4, Durations, SMT DEF TypeOK, DatabaseTypes, LagInv, SampleFails, dbVars, UnknownLag
<1>5. CASE MonitorStops
  BY <1>1, <1>5, Durations, SMT DEF TypeOK, DatabaseTypes, LagInv, MonitorStops, dbVars, UnknownLag
<1> QED BY <1>2, <1>3, <1>4, <1>5 DEF Monitor

\* A step of a request leaves the databases and the monitor alone.
LEMMA RequestsKeepInv ==
  ASSUME TypeOK, LagInv, NEW r \in Requests, Serve(r)
  PROVE  TypeOK' /\ LagInv'
<1>1. UNCHANGED <<primary, replica, behind, up, hasView, runner, lag, monitor, sample, waited>>
  BY DEF Serve, Arrive, Statement, Query, QueryFails, SendRow, EndStream, dbVars, lagVars
<1>2. DatabaseTypes' /\ LagInv'
  BY <1>1, Zenon DEF TypeOK, DatabaseTypes, LagInv, UnknownLag
<1>3. primary \in 0..MaxWrites /\ replica \in 0..MaxWrites /\ RequestTypes
  BY Durations, SMT DEF TypeOK, DatabaseTypes
<1>4. ASSUME Arrive(r) PROVE RequestTypes'
  BY <1>3, <1>4, KindsExist, SMT DEF RequestTypes, Arrive
<1>5. ASSUME Statement(r) PROVE RequestTypes'
  <2>1. Chosen(r) \in {"primary", "replica"}
    BY DEF Chosen
  <2> QED BY <1>3, <1>5, <2>1, SMT DEF RequestTypes, Statement
<1>6. ASSUME Query(r) PROVE RequestTypes'
  BY <1>3, <1>6, SMT DEF RequestTypes, Query
<1>7. ASSUME QueryFails(r) PROVE RequestTypes'
  BY <1>3, <1>7, SMT DEF RequestTypes, QueryFails
<1>8. ASSUME SendRow(r) PROVE RequestTypes'
  BY <1>3, <1>8, Durations, SMT DEF RequestTypes, SendRow
<1>9. ASSUME EndStream(r) PROVE RequestTypes'
  BY <1>3, <1>9, SMT DEF RequestTypes, EndStream
<1>10. RequestTypes'
  BY <1>4, <1>5, <1>6, <1>7, <1>8, <1>9 DEF Serve
<1> QED BY <1>2, <1>10 DEF TypeOK

\* Every step keeps the types and LagInv.
LEMMA StepInv == TypeOK /\ LagInv /\ [Next]_readVars => TypeOK' /\ LagInv'
<1> SUFFICES ASSUME TypeOK, LagInv, [Next]_readVars PROVE TypeOK' /\ LagInv'
  OBVIOUS
<1>1. CASE Databases
  BY <1>1, DatabasesKeepInv
<1>2. CASE Monitor
  BY <1>2, MonitorKeepsInv
<1>3. CASE \E r \in Requests : Serve(r)
  BY <1>3, RequestsKeepInv
<1>4. CASE UNCHANGED readVars
  BY <1>4, Zenon DEF TypeOK, DatabaseTypes, RequestTypes, LagInv, readVars, UnknownLag
<1> QED BY <1>1, <1>2, <1>3, <1>4 DEF Next

\* The types and LagInv hold always.
THEOREM LagInvariant == Spec => [](TypeOK /\ LagInv)
  BY InitInv, StepInv, PTL DEF Spec

\* When a statement goes to the replica, the stored lag is a sample that is at
\* most the threshold, so the bound follows from LagInv.
LEMMA InvGivesBound == TypeOK /\ LagInv => StalenessBounded
<1> SUFFICES ASSUME TypeOK, LagInv, NEW r \in Requests, Chosen(r) = "replica"
             PROVE  behind <= StalenessBound
  BY DEF StalenessBounded
<1>1. runner /\ lag <= MaxLag
  BY DEF Chosen
<1>2. lag # UnknownLag /\ lag \in Nat /\ behind \in Nat /\ waited \in Nat
  BY <1>1, Durations, SMT DEF UnknownLag, TypeOK, DatabaseTypes
<1>3. monitor \in {"waiting", "querying"}
  BY <1>1, <1>2, SMT DEF LagInv, TypeOK, DatabaseTypes
<1> QED BY <1>1, <1>2, <1>3, Durations, SMT DEF LagInv, StalenessBound

\* A statement never goes to a replica that is further behind than the
\* threshold and the age that a sample can have (Statement and
\* monitorReplicationLag in storage.go).
THEOREM ReplicaStalenessBounded == Spec => []StalenessBounded
  BY LagInvariant, InvGivesBound, PTL

-----------------------------------------------------------------------------
\* The writes of the primary only grow, and a step of the databases or of the
\* monitor leaves the requests alone.
LEMMA BackgroundKeepsRequests ==
  ASSUME TypeOK, RequestsInv, Databases \/ Monitor
  PROVE  RequestsInv'
<1>1. UNCHANGED <<pc, kind, target, seen, arrived, sent>>
  BY DEF Databases, Write, Replay, ReplicaStops, ReplicaStarts, Tick,
         Monitor, SampleLag, StoreLag, SampleFails, MonitorStops, reqVars
<1>2. primary' \in {primary, primary + 1}
  BY DEF Databases, Write, Replay, ReplicaStops, ReplicaStarts, Tick,
         Monitor, SampleLag, StoreLag, SampleFails, MonitorStops, dbVars
<1>3. primary \in Nat /\ \A r \in Requests : arrived[r] \in Nat
  BY Durations, SMT DEF TypeOK, DatabaseTypes, RequestTypes
<1> QED BY <1>1, <1>2, <1>3, SMT DEF RequestsInv, RequestInv

\* A step of a request moves no other request, and leaves the databases alone.
LEMMA ServeKeepsRequests ==
  ASSUME TypeOK, RequestsInv, NEW r \in Requests, Serve(r)
  PROVE  RequestsInv'
<1>1. UNCHANGED <<primary, replica, up, runner, lag>>
  BY DEF Serve, Arrive, Statement, Query, QueryFails, SendRow, EndStream, dbVars, lagVars
<1>2. RequestTypes /\ primary \in Nat
  BY Durations, SMT DEF TypeOK, DatabaseTypes
<1>3. SUFFICES ASSUME NEW t \in Requests PROVE RequestInv(t)'
  BY DEF RequestsInv
<1>4. RequestInv(t) /\ RequestInv(r)
  BY DEF RequestsInv
<1>5. CASE Arrive(r)
  BY <1>1, <1>2, <1>4, <1>5, SMT DEF RequestInv, RequestTypes, Arrive
<1>6. CASE Statement(r)
  BY <1>1, <1>2, <1>4, <1>6, SMT DEF RequestInv, RequestTypes, Statement, Chosen, ReadOnly
<1>7. CASE Query(r)
  BY <1>1, <1>2, <1>4, <1>7, SMT DEF RequestInv, RequestTypes, Query
<1>8. CASE QueryFails(r)
  BY <1>1, <1>2, <1>4, <1>8, SMT DEF RequestInv, RequestTypes, QueryFails
<1>9. CASE SendRow(r)
  BY <1>1, <1>2, <1>4, <1>9, Durations, SMT DEF RequestInv, RequestTypes, SendRow
<1>10. CASE EndStream(r)
  BY <1>1, <1>2, <1>4, <1>10, SMT DEF RequestInv, RequestTypes, EndStream
<1> QED BY <1>5, <1>6, <1>7, <1>8, <1>9, <1>10 DEF Serve

\* RequestsInv holds always.
THEOREM RequestsInvariant == Spec => []RequestsInv
<1>1. Init => RequestsInv
  <2> SUFFICES ASSUME Init, NEW r \in Requests PROVE RequestInv(r)
    BY Zenon DEF RequestsInv
  <2>1. primary = 0 /\ arrived[r] = 0 /\ pc[r] = "idle" /\ kind[r] = "get"
    BY Zenon DEF Init
  <2> QED BY <2>1, SMT DEF RequestInv
<1>2. TypeOK /\ RequestsInv /\ [Next]_readVars => RequestsInv'
  <2> SUFFICES ASSUME TypeOK, RequestsInv, [Next]_readVars PROVE RequestsInv'
    OBVIOUS
  <2>1. CASE Databases \/ Monitor
    BY <2>1, BackgroundKeepsRequests
  <2>2. CASE \E r \in Requests : Serve(r)
    BY <2>2, ServeKeepsRequests
  <2>3. CASE UNCHANGED readVars
    BY <2>3, Zenon DEF RequestsInv, RequestInv, readVars
  <2> QED BY <2>1, <2>2, <2>3 DEF Next
<1> QED BY <1>1, <1>2, LagInvariant, PTL DEF Spec

\* A request that is not read-only, such as the token hook, sees every write
\* that was committed before it arrived, for every number of requests and
\* whatever the replica and the monitor do (TransactionMiddleware, Statement).
THEOREM TransactionsSeeEverything == Spec => []TransactionsSeeAll
<1>1. RequestsInv => TransactionsSeeAll
  BY DEF RequestsInv, RequestInv, TransactionsSeeAll
<1> QED BY <1>1, RequestsInvariant, PTL

\* A stream that ends without an error has sent all of its rows, however many
\* there are (StreamGroupsForUser and StreamUsersInGroup).
THEOREM OkStreamsAreComplete == Spec => []OkStreamIsComplete
<1>1. RequestsInv => OkStreamIsComplete
  BY DEF RequestsInv, RequestInv, OkStreamIsComplete
<1> QED BY <1>1, RequestsInvariant, PTL
=============================================================================
