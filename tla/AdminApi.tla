------------------------------ MODULE AdminApi ------------------------------
(***************************************************************************)
(* The administration of groups, memberships and allowed applications:      *)
(* the gRPC-gateway handlers and services of pkg/groups and                  *)
(* pkg/authorization behind TransactionMiddleware, and the users and groups  *)
(* commands of the CLI, which run without a transaction. A request works on  *)
(* two stores: the tables (Tables) and the tuples of OpenFGA that the token  *)
(* hook checks. The table writes are in a transaction that the first         *)
(* statement begins; the tuple writes happen before its commit and are not   *)
(* undone by a rollback.                                                     *)
(***************************************************************************)
EXTENDS Tables, Naturals, FiniteSets

CONSTANTS
  Requests,     \* HTTP requests and CLI commands
  Cli,          \* the ones among them that are CLI commands
  Calls,        \* what the requests may ask for
  InitialRows,  \* the contents the tables may start with
  PageSize,     \* the tuples in a page of a Read
  Faults        \* the faults that may happen, besides refused calls

ASSUME CliAreRequests == Cli \subseteq Requests

ASSUME InitialRowsConsistent ==
  \A V \in InitialRows : V \subseteq Row /\ Consistent(V)

ASSUME PageSizePositive == PageSize \in Nat \ {0}

(***************************************************************************)
(* "begin": BeginTx fails where the statement after it does not.            *)
(* "commit": Commit fails. "timeout": a transaction reaches its deadline     *)
(* while its request still runs. "late": OpenFGA applies a write and the     *)
(* caller gets an error.                                                     *)
(***************************************************************************)
ASSUME KnownFaults == Faults \subseteq {"begin", "commit", "timeout", "late"}

\* The calls of pkg/groups that write.
GroupsCalls ==
  {"CreateGroup", "UpdateGroup", "RemoveGroup", "AddUsersToGroup",
   "RemoveUsersFromGroup", "AddUserToGroups", "RemoveUserFromAllGroups"}

\* The calls of pkg/authorization that write.
AuthorizationCalls ==
  {"AddAllowedAppToGroup", "RemoveAllowedAppFromGroup",
   "RemoveAllowedAppsFromGroup", "RemoveAllowedGroupsForApp"}

OneGrantCalls == {"AddAllowedAppToGroup", "RemoveAllowedAppFromGroup"}

\* The commands users delete, users set-groups, groups add-users and groups
\* remove-users.
UsersCommands == {"RemoveUserFromAllGroups", "AddUserToGroups"}

GroupsCommands == {"AddUsersToGroup", "RemoveUsersFromGroup"}

ASSUME CallsExist ==
  \A o \in Calls :
    IF o.cli THEN o.call \in UsersCommands \cup GroupsCommands
             ELSE o.call \in (GroupsCalls \ {"RemoveUserFromAllGroups"}) \cup AuthorizationCalls

\* The arguments that the handlers and storage look at.
ASSUME CallsTyped ==
  \A o \in Calls :
    /\ o.call = "CreateGroup" => o.name \in Names
    /\ o.call \in {"UpdateGroup", "RemoveGroup", "RemoveAllowedAppsFromGroup"}
         \cup GroupsCommands \cup OneGrantCalls => o.group \in Groups
    /\ o.call \in GroupsCommands => o.users \subseteq Users
    /\ o.call \in UsersCommands => o.user \in Users
    /\ o.call = "AddUserToGroups" => o.groups \subseteq Groups
    /\ o.call \in {"RemoveAllowedGroupsForApp"} \cup OneGrantCalls => o.app \in Apps

VARIABLES
  rows,      \* the committed rows
  tuples,    \* the tuples of OpenFGA: pairs of a group and an application
  pc,        \* where each request is
  op,        \* what it asks for
  started,   \* lazyTx.isStarted()
  adds,      \* the rows its open transaction has added or updated
  drops,     \* the rows its open transaction has deleted
  page,      \* the tuples of the page it has read
  more,      \* that page came with a continuation token
  status,    \* the HTTP status; 0 while there is none
  \* history
  faulty,    \* one of Faults has happened
  calm,      \* no request has overlapped another and no call has failed
  ended,     \* how the transaction of each request ended
  named,     \* the ids and names given to groups: an id is used once
  kept,      \* the memberships that the last writer of each asked for
  claims,    \* the grants that a request decides, with no opposing request beside it
  granted,   \* the grants confirmed and not revoked since
  revoked    \* the grants revoked, or never made, and not asked for since

dbVars == <<rows, started, adds, drops>>

fgaVars == <<tuples, page, more>>

pairVars == <<claims, granted, revoked>>

vars == <<rows, tuples, pc, op, started, adds, drops, page, more, status,
          faulty, calm, ended, named, kept, claims, granted, revoked>>

Idle == [call |-> "none"]

TypeOK ==
  /\ rows \subseteq Row
  /\ tuples \subseteq Groups \X Apps
  /\ pc \in [Requests -> {"idle", "db", "upsert", "write", "delete", "read",
                          "deletePage", "reply", "finish", "done"}]
  /\ op \in [Requests -> Calls \cup {Idle}]
  /\ started \in [Requests -> BOOLEAN]
  /\ adds \in [Requests -> SUBSET Row]
  /\ drops \in [Requests -> SUBSET Row]
  /\ page \in [Requests -> SUBSET (Groups \X Apps)]
  /\ more \in [Requests -> BOOLEAN]
  /\ status \in [Requests -> {0, 200, 400, 404, 409, 500}]
  /\ faulty \in BOOLEAN
  /\ calm \in BOOLEAN
  /\ ended \in [Requests -> {"no", "expired", "unused", "committed", "rolledback", "lost"}]
  /\ named \subseteq Groups \X Names
  /\ kept \subseteq Groups \X Users
  /\ claims \in [Requests -> SUBSET (Groups \X Apps)]
  /\ granted \subseteq Groups \X Apps
  /\ revoked \subseteq Groups \X Apps

Init ==
  /\ rows \in InitialRows
  /\ tuples = Grants(rows)
  /\ pc = [r \in Requests |-> "idle"]
  /\ op = [r \in Requests |-> Idle]
  /\ started = [r \in Requests |-> FALSE]
  /\ adds = [r \in Requests |-> {}]
  /\ drops = [r \in Requests |-> {}]
  /\ page = [r \in Requests |-> {}]
  /\ more = [r \in Requests |-> FALSE]
  /\ status = [r \in Requests |-> 0]
  /\ faulty = FALSE
  /\ calm = TRUE
  /\ ended = [r \in Requests |-> "no"]
  /\ named = {<<x[2], x[3]>> : x \in rows \cap GroupRows(Groups, Names)}
  /\ kept = Members(rows)
  /\ claims = [r \in Requests |-> {}]
  /\ granted = tuples
  /\ revoked = (Groups \X Apps) \ tuples

-----------------------------------------------------------------------------
\* The pairs of a group and an application that a request is to revoke.
Revokes(o) ==
  CASE o.call = "RemoveAllowedAppFromGroup"  -> {<<o.group, o.app>>}
    [] o.call = "RemoveAllowedAppsFromGroup" -> {o.group} \X Apps
    [] o.call = "RemoveGroup"                -> {o.group} \X Apps
    [] o.call = "RemoveAllowedGroupsForApp"  -> Groups \X {o.app}
    [] OTHER                                 -> {}

\* The pairs among them whose tuples its calls to OpenFGA name. A Read gives
\* the tuples with exactly the user that it is called with, and
\* RemoveAllAllowedGroupsForApp calls it with GroupMemberTuple(""): no group
\* has an empty id, so that no tuple matches.
Covers(o) == IF o.call = "RemoveAllowedGroupsForApp" THEN {} ELSE Revokes(o)

\* The pair that a request grants.
Grantees(o) ==
  IF o.call = "AddAllowedAppToGroup" THEN {<<o.group, o.app>>} ELSE {}

\* The pairs that one request grants and the other revokes.
Opposed(o, p) == (Revokes(o) \cap Grantees(p)) \cup (Grantees(o) \cap Revokes(p))

InFlight == {r \in Requests : pc[r] \notin {"idle", "done"}}

\* A request reaches its handler. A call with an empty list of users returns
\* at once; a group update that names the group is refused. The other requests
\* that are refused for their arguments change nothing, and are not in Calls.
Arrive(r) ==
  /\ pc[r] = "idle"
  /\ \E o \in Calls :
       /\ r \in Cli <=> o.cli
       /\ op' = [op EXCEPT ![r] = o]
       /\ LET refused == o.call = "UpdateGroup" /\ o.name # NoName
              noop == o.call = "AddUsersToGroup" /\ o.users = {}
          IN /\ pc' = [pc EXCEPT ![r] = IF refused \/ noop THEN "reply" ELSE "db"]
             /\ status' = [status EXCEPT ![r] = IF refused THEN 400 ELSE 0]
       /\ claims' = [t \in Requests |->
            IF t = r
              THEN (Covers(o) \cup Grantees(o)) \ UNION {Opposed(o, op[i]) : i \in InFlight}
              ELSE claims[t] \ Opposed(o, op[t])]
       /\ granted' = granted \ Revokes(o)
       /\ revoked' = revoked \ Grantees(o)
  /\ calm' = (calm /\ InFlight = {})
  /\ UNCHANGED <<dbVars, fgaVars, faulty, ended, named, kept>>

-----------------------------------------------------------------------------
\* What the statements of r see.
View(r) == (rows \ drops[r]) \cup adds[r]

\* mapErrorToStatus of pkg/groups, after the service has named the error.
GroupsStatus(call, error) ==
  CASE error = "none" -> 0
    [] error = "notFound" -> 404
    [] error = "duplicate" /\ call = "CreateGroup" -> 409
    [] error = "foreignKey" -> 400
    [] OTHER -> 500

\* Variant of AuthorizationStatus: the gRPC codes instead of the HTTP statuses.
AuthorizationCode(error) ==
  CASE error = "none" -> 0
    [] error = "duplicate" -> 6
    [] OTHER -> 13

\* mapErrorToStatus of pkg/authorization, which has no case for an invalid
\* group id.
AuthorizationStatus(error) ==
  CASE error = "none" -> 0
    [] error = "duplicate" -> 409
    [] OTHER -> 500

StatusOf(call, error) ==
  IF call \in GroupsCalls THEN GroupsStatus(call, error) ELSE AuthorizationStatus(error)

\* The memberships that a request asks for.
Asks(o) ==
  CASE o.call = "AddUsersToGroup" -> {o.group} \X o.users
    [] o.call = "AddUserToGroups" -> o.groups \X {o.user}
    [] OTHER -> {}

\* The memberships that r withdraws when its deletes are durable.
Withdraws(r, old) ==
  Members(old) \cup IF op[r].call = "AddUserToGroups" THEN Groups \X {op[r].user} ELSE {}

\* Statement: the first one begins the transaction; when that fails it is
\* logged and the statement runs on its own, as the statements of a CLI
\* command do. An error ends the handler.
Exec(r, s, next) ==
  /\ \A t \in Requests \ {r} : (adds[t] \cup drops[t]) \cap s.needs = {}
  /\ pc' = [pc EXCEPT ![r] = IF s.error = "none" THEN next ELSE "reply"]
  /\ status' = [status EXCEPT ![r] = StatusOf(op[r].call, s.error)]
  /\ \/ /\ r \notin Cli /\ ended[r] = "no"
        /\ started' = [started EXCEPT ![r] = TRUE]
        /\ IF s.error = "none"
             THEN /\ adds' = [adds EXCEPT ![r] = (@ \ s.drops) \cup s.adds]
                  /\ drops' = [drops EXCEPT ![r] = @ \cup s.drops]
             ELSE UNCHANGED <<adds, drops>>
        /\ UNCHANGED <<rows, faulty, kept>>
     \/ /\ r \in Cli \/ ("begin" \in Faults /\ ~started[r])
        /\ faulty' = (faulty \/ r \notin Cli)
        /\ IF s.error = "none"
             THEN /\ rows' = (rows \ s.drops) \cup s.adds
                  /\ kept' = (kept \ Withdraws(r, s.drops))
                               \cup IF next = "reply" THEN Asks(op[r]) ELSE {}
             ELSE UNCHANGED <<rows, kept>>
        /\ UNCHANGED <<started, adds, drops>>
  /\ calm' = (calm /\ s.error = "none" /\ faulty' = faulty)
  /\ UNCHANGED <<fgaVars, op, ended, pairVars>>

\* A statement, or the BeginTx before it, fails.
StatementFails(r) ==
  /\ pc[r] \in {"db", "upsert"}
  /\ pc' = [pc EXCEPT ![r] = "reply"]
  /\ status' = [status EXCEPT ![r] = 500]
  /\ started' \in IF r \in Cli THEN {started}
                  ELSE {started, [started EXCEPT ![r] = TRUE]}
  /\ calm' = FALSE
  /\ UNCHANGED <<fgaVars, rows, adds, drops, op, faulty, ended, named, kept, pairVars>>

\* The deadline that lazyTx.get has set passes: the transaction is rolled back
\* and its locks are free, while lt.tx stays and refuses what follows.
TxExpires(r) ==
  /\ "timeout" \in Faults
  /\ started[r] /\ ended[r] = "no"
  /\ ended' = [ended EXCEPT ![r] = "expired"]
  /\ adds' = [adds EXCEPT ![r] = {}]
  /\ drops' = [drops EXCEPT ![r] = {}]
  /\ faulty' = TRUE
  /\ calm' = FALSE
  /\ UNCHANGED <<fgaVars, rows, started, pc, op, status, named, kept, pairVars>>

At(r, call, place) == op[r].call = call /\ pc[r] = place

-----------------------------------------------------------------------------
\* pkg/groups

\* The id is a new UUID.
CreateGroup(r) ==
  /\ At(r, "CreateGroup", "db")
  /\ \E g \in Groups \ {p[1] : p \in named} :
       LET s == InsertGroup(View(r), g, op[r].name) IN
       /\ Exec(r, s, "reply")
       /\ named' = IF s.error = "none" THEN named \cup {<<g, op[r].name>>} ELSE named

\* The handler passes a group without a name; storage sets it.
UpdateGroup(r) ==
  /\ At(r, "UpdateGroup", "db")
  /\ Exec(r, RenameGroup(View(r), op[r].group, NoName), "reply")
  /\ UNCHANGED named

DeleteGroup(r) ==
  /\ At(r, "RemoveGroup", "db")
  /\ Exec(r, DropGroup(View(r), op[r].group), "read")
  /\ UNCHANGED named

AddUsersToGroup(r) ==
  /\ At(r, "AddUsersToGroup", "db")
  /\ Exec(r, Upsert(View(r), MemberRows({op[r].group}, op[r].users)), "reply")
  /\ UNCHANGED named

RemoveUsersFromGroup(r) ==
  /\ At(r, "RemoveUsersFromGroup", "db")
  /\ Exec(r, DeleteMembers(View(r), op[r].group, op[r].users), "reply")
  /\ UNCHANGED named

\* users delete: a command of the CLI only.
RemoveUserFromAllGroups(r) ==
  /\ At(r, "RemoveUserFromAllGroups", "db")
  /\ Exec(r, DeleteMemberships(View(r), op[r].user), "reply")
  /\ UNCHANGED named

\* UpdateGroupsForUser deletes the memberships that are not asked for ...
UpdateGroupsForUser(r) ==
  /\ At(r, "AddUserToGroups", "db")
  /\ Exec(r, DeleteOtherMemberships(View(r), op[r].user, op[r].groups),
          IF op[r].groups = {} THEN "reply" ELSE "upsert")
  /\ UNCHANGED named

\* ... and upserts the others.
UpsertGroupsForUser(r) ==
  /\ At(r, "AddUserToGroups", "upsert")
  /\ Exec(r, Upsert(View(r), MemberRows(op[r].groups, {op[r].user})), "reply")
  /\ UNCHANGED named

-----------------------------------------------------------------------------
\* pkg/authorization: each service call writes the tables and then OpenFGA.

AfterTables ==
  [c \in AuthorizationCalls |->
     CASE c = "AddAllowedAppToGroup"      -> "write"
       [] c = "RemoveAllowedAppFromGroup" -> "delete"
       [] OTHER                           -> "read"]

\* Variant of AddAllowedApp: the tuple is not written.
AddAllowedAppTablesOnly(r) ==
  /\ At(r, "AddAllowedAppToGroup", "db")
  /\ Exec(r, Insert(View(r), GrantRows({op[r].group}, {op[r].app})), "reply")
  /\ UNCHANGED named

AddAllowedApp(r) ==
  /\ At(r, "AddAllowedAppToGroup", "db")
  /\ Exec(r, Insert(View(r), GrantRows({op[r].group}, {op[r].app})),
          AfterTables[op[r].call])
  /\ UNCHANGED named

RemoveAllowedApp(r) ==
  /\ At(r, "RemoveAllowedAppFromGroup", "db")
  /\ Exec(r, DeleteGrant(View(r), op[r].group, op[r].app),
          AfterTables[op[r].call])
  /\ UNCHANGED named

RemoveAllowedApps(r) ==
  /\ At(r, "RemoveAllowedAppsFromGroup", "db")
  /\ Exec(r, DeleteAllowedApps(View(r), op[r].group),
          AfterTables[op[r].call])
  /\ UNCHANGED named

RemoveAllAllowedGroupsForApp(r) ==
  /\ At(r, "RemoveAllowedGroupsForApp", "db")
  /\ Exec(r, DeleteAllowedGroups(View(r), op[r].app),
          AfterTables[op[r].call])
  /\ UNCHANGED named

-----------------------------------------------------------------------------
\* internal/authorization and internal/openfga

\* A call to OpenFGA that is meant to change the tuples to new and is accepted
\* when ok. It may also fail, or be applied and still return an error.
Call(r, ok, new, next) ==
  \/ /\ ok
     /\ tuples' = new
     /\ pc' = [pc EXCEPT ![r] = next]
     /\ UNCHANGED <<status, faulty, calm>>
  \/ /\ pc' = [pc EXCEPT ![r] = "reply"]
     /\ status' = [status EXCEPT ![r] = 500]
     /\ calm' = FALSE
     /\ \/ UNCHANGED <<tuples, faulty>>
        \/ /\ ok /\ "late" \in Faults
           /\ tuples' = new
           /\ faulty' = TRUE

\* A Write refuses a tuple that exists.
WriteTuple(r) ==
  /\ pc[r] = "write"
  /\ LET t == <<op[r].group, op[r].app>>
     IN Call(r, t \notin tuples, tuples \cup {t}, "reply")
  /\ UNCHANGED <<dbVars, page, more, op, ended, named, kept, pairVars>>

\* A Write refuses to delete a tuple that does not exist.
DeleteTuple(r) ==
  /\ pc[r] = "delete"
  /\ LET t == <<op[r].group, op[r].app>>
     IN Call(r, t \in tuples, tuples \ {t}, "reply")
  /\ UNCHANGED <<dbVars, page, more, op, ended, named, kept, pairVars>>

\* The loop of RemoveAllAllowedAppsFromGroup and RemoveAllAllowedGroupsForApp
\* reads a page of the matching tuples ...
ReadTuples(r) ==
  /\ pc[r] = "read"
  /\ LET matching == Covers(op[r]) \cap tuples
     IN \E p \in SUBSET matching :
          /\ Cardinality(p) = PageSize \/ (p = matching /\ Cardinality(p) < PageSize)
          /\ page' = [page EXCEPT ![r] = p]
          /\ more' = [more EXCEPT ![r] = p # matching]
          /\ pc' = [pc EXCEPT ![r] = IF p = {} THEN "reply" ELSE "deletePage"]
  /\ UNCHANGED <<dbVars, tuples, op, status, faulty, calm, ended, named, kept, pairVars>>

ReadFails(r) ==
  /\ pc[r] = "read"
  /\ pc' = [pc EXCEPT ![r] = "reply"]
  /\ status' = [status EXCEPT ![r] = 500]
  /\ calm' = FALSE
  /\ UNCHANGED <<dbVars, fgaVars, op, faulty, ended, named, kept, pairVars>>

\* Variant of DeleteTuples: the continuation token is ignored.
DeleteTuplesFirstPage(r) ==
  /\ pc[r] = "deletePage"
  /\ Call(r, page[r] \subseteq tuples, tuples \ page[r], "reply")
  /\ UNCHANGED <<dbVars, page, more, op, ended, named, kept, pairVars>>

\* ... deletes it, and goes on while there is a continuation token.
DeleteTuples(r) ==
  /\ pc[r] = "deletePage"
  /\ Call(r, page[r] \subseteq tuples, tuples \ page[r], IF more[r] THEN "read" ELSE "reply")
  /\ UNCHANGED <<dbVars, page, more, op, ended, named, kept, pairVars>>

-----------------------------------------------------------------------------
\* The handler writes its response: before the middleware ends the
\* transaction.
Reply(r) ==
  /\ pc[r] = "reply"
  /\ LET code == IF status[r] = 0 THEN 200 ELSE status[r]
         ok == code < 400
     IN /\ status' = [status EXCEPT ![r] = code]
        /\ granted' = IF ok THEN granted \cup (claims[r] \cap Grantees(op[r])) ELSE granted
        /\ revoked' = IF ok THEN revoked \cup (claims[r] \cap Revokes(op[r])) ELSE revoked
  /\ claims' = [claims EXCEPT ![r] = {}]
  /\ page' = [page EXCEPT ![r] = {}]
  /\ more' = [more EXCEPT ![r] = FALSE]
  /\ pc' = [pc EXCEPT ![r] = "finish"]
  /\ UNCHANGED <<dbVars, tuples, op, faulty, calm, ended, named, kept>>

\* The transaction is over, one way or another.
EndTx(r, how) ==
  /\ pc[r] = "finish"
  /\ pc' = [pc EXCEPT ![r] = "done"]
  /\ ended' = [ended EXCEPT ![r] = how]
  /\ started' = [started EXCEPT ![r] = FALSE]
  /\ adds' = [adds EXCEPT ![r] = {}]
  /\ drops' = [drops EXCEPT ![r] = {}]
  /\ UNCHANGED <<fgaVars, op, status, named, pairVars>>

\* WithTx commits a transaction that was started, when the status is below 400.
Commit(r) ==
  /\ started[r] /\ ended[r] = "no"
  /\ status[r] < 400
  /\ rows' = View(r)
  /\ kept' = (kept \ Withdraws(r, drops[r])) \cup Asks(op[r])
  /\ EndTx(r, "committed")
  /\ UNCHANGED <<faulty, calm>>

\* The error of Commit is returned by WithTx and dropped by the middleware.
CommitFails(r) ==
  /\ started[r]
  /\ status[r] < 400
  /\ \/ ended[r] = "expired" /\ UNCHANGED faulty
     \/ "commit" \in Faults /\ faulty' = TRUE
  /\ calm' = FALSE
  /\ EndTx(r, "lost")
  /\ UNCHANGED <<rows, kept>>

\* Variant of Rollback: the status of the handler is not looked at.
RollbackForgotten(r) ==
  /\ started[r]
  /\ status[r] >= 400
  /\ rows' = View(r)
  /\ kept' = (kept \ Withdraws(r, drops[r])) \cup Asks(op[r])
  /\ EndTx(r, "committed")
  /\ UNCHANGED <<faulty, calm>>

Rollback(r) ==
  /\ started[r]
  /\ status[r] >= 400
  /\ EndTx(r, "rolledback")
  /\ UNCHANGED <<rows, kept, faulty, calm>>

\* No statement has begun a transaction.
NoTx(r) ==
  /\ ~started[r]
  /\ EndTx(r, "unused")
  /\ UNCHANGED <<rows, kept, faulty, calm>>

-----------------------------------------------------------------------------
DbStep(r) ==
  \/ CreateGroup(r) \/ UpdateGroup(r) \/ DeleteGroup(r)
  \/ AddUsersToGroup(r) \/ RemoveUsersFromGroup(r) \/ RemoveUserFromAllGroups(r)
  \/ UpdateGroupsForUser(r) \/ UpsertGroupsForUser(r)
  \/ AddAllowedApp(r) \/ RemoveAllowedApp(r)
  \/ RemoveAllowedApps(r) \/ RemoveAllAllowedGroupsForApp(r)
  \/ StatementFails(r) \/ TxExpires(r)

FgaStep(r) ==
  WriteTuple(r) \/ DeleteTuple(r) \/ ReadTuples(r) \/ ReadFails(r) \/ DeleteTuples(r)

EndStep(r) == Commit(r) \/ CommitFails(r) \/ Rollback(r) \/ NoTx(r)

Next == \E r \in Requests : Arrive(r) \/ DbStep(r) \/ FgaStep(r) \/ Reply(r) \/ EndStep(r)

Spec == Init /\ [][Next]_vars

-----------------------------------------------------------------------------
\* A revoked grant gives no access: once RemoveAllowedAppFromGroup,
\* RemoveAllowedAppsFromGroup or RemoveGroup was answered with success,
\* OpenFGA has none of the tuples it covers until somebody asks for the grant
\* again, whatever failed and whatever ran beside it. Nor is there a tuple that
\* nobody has asked for. RemoveAllowedGroupsForApp covers no tuple and promises
\* nothing here: see AllowedGroupsRemoved.
RevokedMeansNoTuple == revoked \cap tuples = {}

\* A confirmed grant gives access: once AddAllowedAppToGroup was answered with
\* success, OpenFGA has the tuple until somebody asks to revoke it, even when
\* the commit of the table row failed.
GrantedMeansTuple == granted \subseteq tuples

(***************************************************************************)
(* Inductive strengthening of the two. What a request is about to confirm is *)
(* already true of the tuples, and no request beside it can undo it: a pair  *)
(* that two requests oppose each other on is claimed by neither.             *)
(***************************************************************************)
ClaimHolds(r) ==
  /\ pc[r] = "write" => op[r].call = "AddAllowedAppToGroup"
  /\ pc[r] = "delete" => op[r].call = "RemoveAllowedAppFromGroup"
  /\ pc[r] \in {"read", "deletePage"} =>
       op[r].call \in {"RemoveGroup", "RemoveAllowedAppsFromGroup", "RemoveAllowedGroupsForApp"}
  /\ pc[r] \in {"write", "delete", "read", "deletePage"} => status[r] = 0
  /\ pc[r] = "reply" => status[r] \in {0, 400, 404, 409, 500}
  /\ pc[r] \in {"idle", "finish", "done"} => claims[r] = {}
  /\ claims[r] \subseteq Covers(op[r]) \cup Grantees(op[r])
  /\ pc[r] = "deletePage" =>
       /\ page[r] \subseteq Revokes(op[r])
       /\ ~more[r] => claims[r] \cap tuples \subseteq page[r]
  /\ pc[r] = "reply" /\ status[r] = 0 =>
       /\ claims[r] \cap Grantees(op[r]) \subseteq tuples
       /\ claims[r] \cap Revokes(op[r]) \cap tuples = {}

GrantInv ==
  /\ \A r \in Requests : ClaimHolds(r)
  /\ \A r \in Requests, i \in InFlight :
       r # i => claims[r] \cap Opposed(op[r], op[i]) = {}
  /\ \A i \in InFlight : granted \cap Revokes(op[i]) = {}
  /\ \A i \in InFlight : revoked \cap Grantees(op[i]) = {}
  /\ RevokedMeansNoTuple
  /\ GrantedMeansTuple

\* The pairs whose rows a committed request has deleted without a look at
\* their tuples: the ones of RemoveAllowedGroupsForApp.
LeftBehind ==
  UNION {Revokes(op[r]) \ Covers(op[r]) : r \in {t \in Requests : ended[t] = "committed"}}

\* Between requests, a tuple without its row in application_groups was left
\* behind by a committed RemoveAllowedGroupsForApp, or is the work of a lost
\* commit or an expired transaction, of a write that was applied and reported
\* as failed, or of a statement that ran outside its transaction: refused
\* calls, failed statements and any interleaving of the other calls cannot
\* leave one.
StrayTupleNeedsFault ==
  InFlight = {} => (tuples \subseteq Grants(rows) \cup LeftBehind \/ faulty)

\* Requests that run one at a time and meet no error leave the tuples equal
\* to application_groups, but for the tuples that RemoveAllowedGroupsForApp
\* leaves behind.
StoresAgreeWhenCalm ==
  calm /\ InFlight = {} =>
    /\ Grants(rows) \subseteq tuples
    /\ tuples \ Grants(rows) \subseteq LeftBehind

\* RemoveAllowedGroupsForApp "handles the gRPC request to remove all allowed
\* groups for an app": when it has committed and nothing has failed or
\* overlapped, no group has access to the application, unless a request asked
\* for it.
AllowedGroupsRemoved ==
  \A r \in Requests :
    calm /\ op[r].call = "RemoveAllowedGroupsForApp" /\ ended[r] = "committed" =>
      tuples \cap Revokes(op[r]) \subseteq UNION {Grantees(op[t]) : t \in Requests}

\* The last durable write on a membership wins: what AddUsersToGroup or
\* AddUserToGroups put into group_members is there until a later durable
\* write takes it out, however the deletes and upserts of the transactions
\* interleave.
LastWriteHolds == kept \subseteq Members(rows)

\* The committed rows keep the foreign keys and the unique names of the schema
\* while transactions that create, update and delete the same groups overlap.
TablesConsistent == Consistent(rows)

(***************************************************************************)
(* Inductive strengthening of TablesConsistent: what a transaction sees of   *)
(* the tables is consistent, and stays so when another one commits, since    *)
(* the locks keep two open transactions apart.                               *)
(***************************************************************************)
NoOpenTx(r) == adds[r] = {} /\ drops[r] = {}

TxInv(r) ==
  /\ pc[r] # "idle" => op[r] \in Calls /\ (r \in Cli <=> op[r].cli)
  /\ pc[r] = "upsert" => op[r].call = "AddUserToGroups"
  /\ r \in Cli \/ pc[r] \in {"idle", "db", "done"} => ~started[r]
  /\ ~started[r] \/ ended[r] # "no" => NoOpenTx(r)

UsedIds == {p[1] : p \in named}

LocksInv ==
  /\ \A r \in Requests :
       Consistent(View(r)) /\ GroupIds(adds[r] \cup drops[r]) \subseteq UsedIds
  /\ \A r, t \in Requests : r # t => Apart(adds[r], drops[r], adds[t], drops[t])
  /\ GroupIds(rows) \subseteq UsedIds
  /\ TablesConsistent

TablesInv == (\A r \in Requests : TxInv(r)) /\ LocksInv

\* Inductive strengthening of LastWriteHolds: a transaction that will commit
\* holds the memberships that its request asks for.
Settled(r) == pc[r] \in {"reply", "finish"} /\ status[r] < 400

KeptInv ==
  /\ \A r \in Requests :
       Settled(r) /\ started[r] /\ ended[r] = "no" => Asks(op[r]) \subseteq Members(adds[r])
  /\ LastWriteHolds

(***************************************************************************)
(* Inductive strengthening of StrayTupleNeedsFault: a tuple was left behind, *)
(* or has its row in application_groups or in a transaction that will        *)
(* commit; and a transaction that will commit has deleted the tuples that    *)
(* its call covers of the grants that it takes out.                          *)
(***************************************************************************)
StrayInv ==
  /\ \A r \in Requests :
       Grants(drops[r]) \subseteq Revokes(op[r]) /\ Grants(adds[r]) \subseteq Grantees(op[r])
  /\ faulty \/
       /\ \A p \in tuples \ (Grants(rows) \cup LeftBehind) :
            \E r \in Requests : Settled(r) /\ p \in Grants(adds[r])
       /\ \A r \in Requests :
            /\ ended[r] \notin {"expired", "lost"} /\ (ended[r] = "committed" => pc[r] = "done")
            /\ Settled(r) => tuples \cap Grants(drops[r]) \cap Covers(op[r]) = {}
            /\ pc[r] = "write" => Grantees(op[r]) \subseteq Grants(adds[r])
            /\ pc[r] = "deletePage" /\ ~more[r] =>
                 tuples \cap Grants(drops[r]) \cap Covers(op[r]) \subseteq page[r]

(***************************************************************************)
(* Inductive strengthening of StoresAgreeWhenCalm: a row without a tuple is  *)
(* one that the only request in flight is about to take out.                 *)
(***************************************************************************)
CalmInv ==
  calm =>
    /\ ~faulty
    /\ \A r, i \in InFlight : r = i
    /\ \A p \in Grants(rows) \ tuples : \E r \in Requests : p \in Grants(drops[r])
    /\ \A r \in Requests :
         /\ Settled(r) => Grants(adds[r]) \subseteq tuples
         /\ pc[r] \in {"reply", "finish"} /\ ~Settled(r) => NoOpenTx(r)
         /\ pc[r] \in {"delete", "read", "deletePage"} =>
              Grants(rows) \cap Revokes(op[r]) \subseteq Grants(drops[r])

\* UpdateGroupsForUser "replaces all group memberships for a user with the
\* specified groups": when only such requests have run, a user is in the
\* groups that one of them specified.
ReplacedExactly ==
  \A u \in Users :
    LET replacing == {r \in Requests : op[r].call = "AddUserToGroups" /\ op[r].user = u}
    IN /\ InFlight = {} /\ replacing # {}
       /\ \A r \in Requests : op[r] = Idle \/ (r \in replacing /\ ended[r] = "committed")
       => \E r \in replacing : {g \in Groups : <<g, u>> \in Members(rows)} = op[r].groups
=============================================================================
