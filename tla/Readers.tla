------------------------------ MODULE Readers ------------------------------
(***************************************************************************)
(* Those who read what AdminApi writes: the GET handlers of pkg/groups and   *)
(* pkg/authorization, and the token hook, which decides with two reads at    *)
(* two moments: the groups of the user from the tables, then the tuples of   *)
(* OpenFGA for those groups. A GET may be answered by the replica; the hook  *)
(* is a POST, whose transaction is on the primary.                           *)
(***************************************************************************)
EXTENDS AdminApi

CONSTANTS
  Clients,    \* the requests that read
  Questions   \* what they may ask

\* The reading calls of pkg/groups and pkg/authorization.
GetCalls ==
  {"ListGroups", "GetGroup", "ListUsersInGroup", "ListUserGroups",
   "GetAllowedAppsInGroup", "GetAllowedGroupsForApp"}

ASSUME QuestionsExist == \A q \in Questions : q.call \in GetCalls \cup {"TokenHook"}

VARIABLES
  replica,   \* the rows on the replica
  reader,    \* the state of each client
  \* history
  present,   \* rows there at first or by a committed request, and not asked to be
             \* removed since
  absent,    \* rows not there at first or removed by a committed request, and that
             \* nobody asked for since
  beside     \* the requests that were in flight together with each request

readVars == <<replica, reader, present, absent, beside>>

allVars == <<vars, readVars>>

Nobody ==
  [at |-> "idle", asks |-> Idle, from |-> "none", rows |-> {},
   due |-> {}, gone |-> {}, sure |-> {}, barred |-> {}]

Reader ==
  [at : {"idle", "query", "check", "answered", "allowed", "denied", "notFound", "failed"},
   asks : Questions \cup {Idle}, from : {"none", "primary", "replica"}, rows : SUBSET Row,
   due : SUBSET Row, gone : SUBSET Row,
   sure : SUBSET (Groups \X Apps), barred : SUBSET (Groups \X Apps)]

ReadersTypeOK ==
  /\ replica \subseteq Row
  /\ reader \in [Clients -> Reader]
  /\ present \subseteq Row /\ absent \subseteq Row
  /\ beside \in [Requests -> SUBSET Requests]

ReadersInit ==
  /\ Init
  /\ replica = rows
  /\ reader = [x \in Clients |-> Nobody]
  /\ present = rows
  /\ absent = Row \ rows
  /\ beside = [r \in Requests |-> {}]

-----------------------------------------------------------------------------
\* The rows that a request asks for.
Puts(o) ==
  {<<"member", p[1], p[2]>> : p \in Asks(o)} \cup {<<"grant", p[1], p[2]>> : p \in Grantees(o)}
  \cup (IF o.call = "UpdateGroup" THEN GroupRows({o.group}, {NoName}) ELSE {})

\* The rows that a request may add: the id of a new group is not known before.
MayPut(o) == Puts(o) \cup IF o.call = "CreateGroup" THEN GroupRows(Groups, {o.name}) ELSE {}

\* The rows that a request asks to remove or to change.
Takes(o) ==
  {<<"grant", p[1], p[2]>> : p \in Revokes(o)} \cup
  CASE o.call = "RemoveGroup"             -> OfGroup(o.group)
    [] o.call = "UpdateGroup"             -> GroupRows({o.group}, Names \ {NoName})
    [] o.call = "RemoveUsersFromGroup"    -> MemberRows({o.group}, o.users)
    [] o.call = "AddUserToGroups"         -> MemberRows(Groups \ o.groups, {o.user})
    [] o.call = "RemoveUserFromAllGroups" -> MemberRows(Groups, {o.user})
    [] OTHER                              -> {}

\* A request arrives: what it asks for is no longer settled.
Unsettle(r) ==
  LET o == op'[r] IN
  /\ present' = present \ Takes(o)
  /\ absent' = absent \ MayPut(o)
  /\ beside' = [t \in Requests |->
       IF t = r THEN InFlight ELSE beside[t] \cup (IF t \in InFlight THEN {r} ELSE {})]
  /\ reader' = [x \in Clients |->
       [reader[x] EXCEPT !.due = @ \ Takes(o), !.gone = @ \ MayPut(o),
                         !.sure = @ \ Revokes(o), !.barred = @ \ Grantees(o)]]
  /\ UNCHANGED replica

\* The response of a request leaves. A response with success whose commit was
\* lost, or whose transaction had expired, is sent all the same (WithTx drops
\* the error of Commit) and settles nothing. Another response with success
\* settles what no request beside it opposes: the rows it asks for, with the
\* group that CreateGroup has made, and the ones it asks to remove.
Settle(r) ==
  LET o == op[r]
      ok == status[r] < 400 /\ ended'[r] # "lost"
  IN
  /\ present' = IF ok THEN present \cup
                              ((Puts(o) \cup adds[r]) \ UNION {Takes(op[t]) : t \in beside[r]})
                      ELSE present
  /\ absent' = IF ok THEN absent \cup (Takes(o) \ UNION {MayPut(op[t]) : t \in beside[r]})
                     ELSE absent
  /\ UNCHANGED <<replica, reader, beside>>

AdminStep(r) ==
  \/ Arrive(r) /\ Unsettle(r)
  \/ (DbStep(r) \/ FgaStep(r) \/ Reply(r)) /\ UNCHANGED readVars
  \/ EndStep(r) /\ Settle(r)

\* The replica replays what the primary has committed.
Replay ==
  /\ replica # rows
  /\ replica' = rows
  /\ UNCHANGED <<vars, reader, present, absent, beside>>

-----------------------------------------------------------------------------
\* What a question selects from the rows V.
Selected(V, q) ==
  CASE q.call = "ListGroups"                     -> SelectGroups(V)
    [] q.call = "GetGroup"                       -> SelectGroup(V, q.group)
    [] q.call = "ListUsersInGroup"               -> SelectUsersInGroup(V, q.group)
    [] q.call \in {"ListUserGroups", "TokenHook"} -> SelectGroupsForUser(V, q.user)
    [] q.call = "GetAllowedAppsInGroup"          -> SelectAllowedApps(V, q.group)
    [] q.call = "GetAllowedGroupsForApp"         -> SelectAllowedGroupsForApp(V, q.app)

Ask(x) ==
  /\ reader[x].at = "idle"
  /\ \E q \in Questions :
       reader' = [reader EXCEPT ![x] =
         [Nobody EXCEPT !.at = "query", !.asks = q,
                        !.due = Selected(Row, q) \cap present,
                        !.gone = Selected(Row, q) \cap absent,
                        !.sure = IF q.call = "TokenHook" THEN granted ELSE {},
                        !.barred = IF q.call = "TokenHook" THEN revoked ELSE {}]]
  /\ UNCHANGED <<vars, replica, present, absent, beside>>

\* Variant of Routes: the method of the request is not looked at.
RoutesAny(q) == {"primary", "replica"}

\* The databases that Statement may use.
Routes(q) == IF q.call = "TokenHook" THEN {"primary"} ELSE {"primary", "replica"}

Move(x, new) ==
  /\ reader' = [reader EXCEPT ![x] = new]
  /\ UNCHANGED <<vars, replica, present, absent, beside>>

\* The query of a handler, with its place after an answer and after none.
Query(x, call, found, empty) ==
  /\ reader[x].at = "query"
  /\ reader[x].asks.call = call
  /\ \E from \in Routes(reader[x].asks) :
       LET R == Selected(IF from = "primary" THEN rows ELSE replica, reader[x].asks)
       IN Move(x, [reader[x] EXCEPT !.from = from, !.rows = R,
                                    !.at = IF R = {} THEN empty ELSE found])

\* GET handlers
ListGroups(x) == Query(x, "ListGroups", "answered", "answered")

GetGroup(x) == Query(x, "GetGroup", "answered", "notFound")

ListUsersInGroup(x) == Query(x, "ListUsersInGroup", "answered", "answered")

ListUserGroups(x) == Query(x, "ListUserGroups", "answered", "answered")

GetAllowedAppsInGroup(x) == Query(x, "GetAllowedAppsInGroup", "answered", "answered")

GetAllowedGroupsForApp(x) == Query(x, "GetAllowedGroupsForApp", "answered", "answered")

\* The token hook reads the groups of the user ...
FetchUserGroups(x) == Query(x, "TokenHook", "check", "check")

\* Variant of CanAccess: the groups of the user are not looked at.
CanAccessAnyGroup(groups, apps) == \A a \in apps : \E g \in Groups : <<g, a>> \in tuples

\* The tuples give access to all of apps to a member of the groups.
CanAccess(groups, apps) == \A a \in apps : \E g \in groups : <<g, a>> \in tuples

\* Variant of AuthorizeRequest: the check reads application_groups.
AuthorizeByRows(x) ==
  /\ reader[x].at = "check"
  /\ LET q == reader[x].asks
         groups == {y[2] : y \in reader[x].rows}
         ok == \A a \in q.apps : \E g \in groups : <<g, a>> \in Grants(rows)
     IN Move(x, [reader[x] EXCEPT !.at = IF ok THEN "allowed" ELSE "denied"])

\* ... and asks OpenFGA: for the client, or for every application of the
\* audience of a service account, which may be empty.
AuthorizeRequest(x) ==
  /\ reader[x].at = "check"
  /\ LET q == reader[x].asks
         groups == {y[2] : y \in reader[x].rows}
     IN Move(x, [reader[x] EXCEPT !.at = IF CanAccess(groups, q.apps) THEN "allowed" ELSE "denied"])

\* The database or OpenFGA does not answer, or a row cannot be scanned.
ReadError(x) ==
  /\ reader[x].at \in {"query", "check"}
  /\ Move(x, [Nobody EXCEPT !.at = "failed"])

ClientStep(x) ==
  \/ Ask(x)
  \/ ListGroups(x) \/ GetGroup(x) \/ ListUsersInGroup(x) \/ ListUserGroups(x)
  \/ GetAllowedAppsInGroup(x) \/ GetAllowedGroupsForApp(x)
  \/ FetchUserGroups(x) \/ AuthorizeRequest(x)
  \/ ReadError(x)

ReadersNext ==
  \/ \E r \in Requests : AdminStep(r)
  \/ \E x \in Clients : ClientStep(x)
  \/ Replay

ReadersSpec == ReadersInit /\ [][ReadersNext]_allVars

-----------------------------------------------------------------------------
\* A read on the primary sees what was committed and answered before it came:
\* the rows that no later request asks to take out are in the answer, and the
\* removed rows that no later request asks for are not, whatever else fails,
\* expires or rolls back meanwhile. The group fetch of the token hook is always
\* such a read. A request that was answered with success and whose commit was
\* lost, or whose transaction had expired, promises nothing here.
CommittedIsSeen ==
  \A x \in Clients :
    /\ reader[x].at \in {"answered", "notFound", "check", "allowed", "denied"}
    /\ reader[x].from = "primary" \/ reader[x].asks.call = "TokenHook"
    => /\ reader[x].due \subseteq reader[x].rows
       /\ reader[x].gone \cap reader[x].rows = {}

\* The hook allows a user through a group only when neither the membership nor
\* the grant was removed, or had never been there, before the hook was called:
\* both reads of one decision respect the removals before it, though they are
\* made at two moments. A membership is removed by a committed request, and a
\* grant by a request that was answered with success, whatever became of its
\* transaction; RemoveAllowedGroupsForApp removes none (AllowedGroupsRemoved).
HookHonoursRemovals ==
  \A x \in Clients :
    reader[x].at = "allowed" =>
      \A a \in reader[x].asks.apps : \E g \in Groups :
        /\ <<"member", g, reader[x].asks.user>> \notin reader[x].gone
        /\ <<g, a>> \notin reader[x].barred

\* The hook denies no user who was a member of a group with the grant before
\* the hook was called, by a committed membership and a grant that was answered
\* with success, when nobody has asked to take the membership or the grant away.
HookHonoursGrants ==
  \A x \in Clients :
    reader[x].at = "denied" =>
      \E a \in reader[x].asks.apps : \A g \in Groups :
        ~(/\ <<"member", g, reader[x].asks.user>> \in reader[x].due
          /\ <<g, a>> \in reader[x].sure)

(***************************************************************************)
(* Inductive strengthening of the three. A transaction takes and adds only   *)
(* rows of its call, which are not settled while it is in flight. What a     *)
(* request will confirm is true of the rows that it sees, but for the rows   *)
(* of the calls beside it.                                                   *)
(***************************************************************************)
OwnRows(r) ==
  drops[r] \subseteq Takes(op[r]) \cup adds[r] /\ adds[r] \subseteq MayPut(op[r])

\* r has executed a statement, and will confirm it.
Carried(r) ==
  pc[r] \notin {"idle", "db", "done"} /\ status[r] < 400 /\ ended[r] # "expired"

Cleared(r) ==
  (Takes(op[r]) \ UNION {MayPut(op[t]) : t \in beside[r]}) \cap View(r) = {}

Filled(r) ==
  Puts(op[r]) \ UNION {Takes(op[t]) : t \in beside[r]} \subseteq View(r)

SettledAt(r) ==
  /\ OwnRows(r)
  /\ pc[r] = "upsert" => status[r] = 0
  /\ Carried(r) => Cleared(r) /\ (pc[r] # "upsert" => Filled(r))
  /\ ended[r] = "expired" => started[r]
  /\ beside[r] \subseteq {t \in Requests : pc[t] # "idle"}

SettledInv ==
  /\ \A r \in Requests : SettledAt(r)
  /\ \A r, t \in InFlight : r # t => t \in beside[r]
  /\ \A r \in InFlight : present \cap Takes(op[r]) = {} /\ absent \cap MayPut(op[r]) = {}
  /\ present \subseteq rows
  /\ absent \cap rows = {}

\* What a client waits for is settled.
ReaderInv(x) ==
  /\ reader[x].due \subseteq present /\ reader[x].gone \subseteq absent
  /\ reader[x].sure \subseteq granted /\ reader[x].barred \subseteq revoked
  /\ reader[x].at = "query" =>
       /\ reader[x].asks \in Questions
       /\ reader[x].due \subseteq Selected(Row, reader[x].asks)
  /\ reader[x].at = "check" =>
       /\ reader[x].asks.call = "TokenHook"
       /\ reader[x].rows \subseteq MemberRows(Groups, {reader[x].asks.user})

ReadersInv ==
  /\ ReadersTypeOK
  /\ SettledInv
  /\ \A x \in Clients : ReaderInv(x)
  /\ CommittedIsSeen /\ HookHonoursRemovals /\ HookHonoursGrants
=============================================================================
