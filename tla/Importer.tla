------------------------------ MODULE Importer ------------------------------
(***************************************************************************)
(* The import command: internal/importer run by cmd/import.go. An import    *)
(* copies the teams and departments of an external source into the tables,  *)
(* either adding to them (Run) or reconciling them (Sync). It runs without  *)
(* a transaction: each statement commits by itself. Sync also removes the    *)
(* tuples of the groups that it deletes. Several imports may overlap, one    *)
(* may be killed, and administrators work on the same tables meanwhile.      *)
(***************************************************************************)
EXTENDS Tables, Naturals, FiniteSets

CONSTANTS
  Imports,      \* executions of the import command
  Commands,     \* the flags an import may be started with
  Teams,        \* names of teams and departments in the source
  Sources,      \* the sets of records that the source may hold
  InitialRows,  \* the contents the tables may start with
  PageSize,     \* the tuples in a page of a Read
  Faults,       \* what may go wrong
  Edits,        \* what administrators may do
  MaxEdits,     \* bound on what they do, and on the changes of the source
  NoGroup

\* "db": a statement fails. "fga": a call to OpenFGA fails. "late": either
\* takes effect and the caller gets an error. "kill": the process is killed.
ASSUME ImportFaults == Faults \subseteq {"db", "fga", "late", "kill"}

ASSUME ImportEdits == Edits \subseteq {"create", "grant", "rename", "delete", "join"}

\* The --sync flag, and whether --openfga-host is given.
Command == [mode : {"run", "sync"}, authz : {"openfga", "noop"}]

ASSUME CommandsExist == Commands \subseteq Command

ASSUME NoGroupIsNoGroup == NoGroup \notin Groups

ASSUME ImportedRows == \A V \in InitialRows : V \subseteq Row /\ Consistent(V)

ASSUME SourceRecords ==
  \A S \in Sources : \A r \in S :
    r.email \in Users \cup {NoName} /\ {r.department, r.team} \subseteq Teams \cup {NoName}

ASSUME ImportBounds == PageSize \in Nat \ {0} /\ MaxEdits \in Nat

\* The name of the group of a team.
Named(t) == <<"salesforce", t>>

Prefixed == {Named(t) : t \in Teams}

ASSUME NamesOfGroups == Prefixed \subseteq Names

\* Variant of FetchAllUserGroups: records without an email are not skipped.
FetchWithoutEmail(S) ==
  {<<Named(r.department), r.email>> : r \in {x \in S : x.department # NoName}}
  \cup {<<Named(r.team), r.email>> : r \in {x \in S : x.team # NoName}}

\* A record of a source has an email, a department and a team; each may be
\* empty.
FetchAllUserGroups(S) ==
  LET known == {r \in S : r.email # NoName}
  IN  {<<Named(r.department), r.email>> : r \in {x \in known : x.department # NoName}}
      \cup {<<Named(r.team), r.email>> : r \in {x \in known : x.team # NoName}}

\* Variant of ListGroupsByPrefix: the groups of the tenant.
ListGroups(V) == V \cap GroupRows(Groups, Names)

ListGroupsByPrefix(V) == V \cap GroupRows(Groups, Prefixed)

VARIABLES
  rows,    \* the rows of the tables
  tuples,  \* the tuples of OpenFGA: pairs of a group and an application
  source,  \* the records the source holds
  imp,     \* the state of each import
  edits,   \* how many edits have been made
  calm,    \* history: no one else has written since the import fetched
  used,    \* history: the ids of all groups so far
  ever     \* history: the groups that have had a name with the prefix

importVars == <<rows, tuples, source, imp, edits, calm, used, ever>>

NotStarted ==
  [pc |-> "fetch", mode |-> "run", authz |-> "noop", data |-> {}, existing |-> {},
   todo |-> {}, name |-> NoName, group |-> NoGroup, page |-> {}, more |-> FALSE,
   failures |-> FALSE]

Places ==
  {"fetch", "list", "groups", "create", "add", "sync", "upsert", "stale", "drop",
   "read", "delete", "ok", "error", "killed"}

Execution ==
  [pc : Places, mode : {"run", "sync"}, authz : {"openfga", "noop"},
   data : SUBSET (Prefixed \X Users), existing : SUBSET GroupRows(Groups, Prefixed),
   todo : SUBSET Prefixed, name : Names, group : Groups \cup {NoGroup},
   page : SUBSET (Groups \X Apps), more : BOOLEAN, failures : BOOLEAN]

TypeOK ==
  /\ rows \subseteq Row
  /\ tuples \subseteq Groups \X Apps
  /\ source \in Sources
  /\ imp \in [Imports -> Execution]
  /\ edits \in 0..MaxEdits
  /\ calm \in [Imports -> BOOLEAN]
  /\ used \subseteq Groups
  /\ ever \subseteq used

Init ==
  /\ rows \in InitialRows
  /\ tuples = Grants(rows)
  /\ source \in Sources
  /\ imp = [i \in Imports |-> NotStarted]
  /\ edits = 0
  /\ calm = [i \in Imports |-> TRUE]
  /\ used = GroupIds(rows)
  /\ ever = GroupIds(rows \cap GroupRows(Groups, Prefixed))

-----------------------------------------------------------------------------
At(i, place) == imp[i].pc = place

Becomes(i, state) == imp' = [imp EXCEPT ![i] = state]

Goes(i, place) == Becomes(i, [imp[i] EXCEPT !.pc = place])

\* The names the driver returned.
DataNames(i) == {m[1] : m \in imp[i].data}

UsersOf(i) == {m[2] : m \in {x \in imp[i].data : x[1] = imp[i].name}}

\* The head of the loop that the import is in.
Loop(i) == IF At(i, "drop") \/ At(i, "read") \/ At(i, "delete") THEN "stale" ELSE "groups"

\* The next iteration. Sync counts the failures, Run only logs them.
Continued(i, failed) ==
  [imp[i] EXCEPT !.pc = Loop(i), !.todo = @ \ {imp[i].name}, !.name = NoName,
                 !.group = NoGroup, !.page = {}, !.more = FALSE,
                 !.failures = @ \/ (failed /\ imp[i].mode = "sync")]

\* A statement, committed at once, after which the import is in state next.
Exec(i, statement, next) ==
  /\ \/ /\ statement.error = "none"
        /\ rows' = (rows \ statement.drops) \cup statement.adds
        /\ \/ Becomes(i, next)
           \/ "late" \in Faults /\ Becomes(i, Continued(i, TRUE))
     \/ /\ statement.error # "none" \/ "db" \in Faults
        /\ UNCHANGED rows
        /\ Becomes(i, Continued(i, TRUE))
  /\ UNCHANGED tuples

-----------------------------------------------------------------------------
\* The query of the source; without an answer the import ends.
Fetch(i) ==
  /\ At(i, "fetch")
  /\ \E c \in Commands :
       LET data == FetchAllUserGroups(source)
       IN  Becomes(i, [imp[i] EXCEPT
             !.pc = IF c.mode = "sync" THEN "list" ELSE "groups",
             !.mode = c.mode, !.authz = c.authz, !.data = data,
             !.todo = {m[1] : m \in data}])
  /\ UNCHANGED <<rows, tuples>>

FetchFails(i) ==
  /\ At(i, "fetch")
  /\ Goes(i, "error")
  /\ UNCHANGED <<rows, tuples>>

\* Sync reads the groups of the driver once, before it changes any of them.
List(i) ==
  /\ At(i, "list")
  /\ \/ Becomes(i, [imp[i] EXCEPT !.pc = "groups", !.existing = ListGroupsByPrefix(rows)])
     \/ "db" \in Faults /\ Goes(i, "error")
  /\ UNCHANGED <<rows, tuples>>

\* Run looks the group up by its name, and takes an error for its absence.
GetGroupByName(i) ==
  /\ At(i, "groups") /\ imp[i].mode = "run"
  /\ \E n \in imp[i].todo :
       LET found == GroupIds(rows \cap GroupRows(Groups, {n}))
       IN  \/ \E g \in found :
                Becomes(i, [imp[i] EXCEPT !.pc = "add", !.name = n, !.group = g])
           \/ /\ found = {} \/ "db" \in Faults
              /\ Becomes(i, [imp[i] EXCEPT !.pc = "create", !.name = n])
  /\ UNCHANGED <<rows, tuples>>

\* Sync looks it up in the groups that it has read.
ExistingByName(i) ==
  /\ At(i, "groups") /\ imp[i].mode = "sync"
  /\ \E n \in imp[i].todo :
       LET found == GroupIds(imp[i].existing \cap GroupRows(Groups, {n}))
       IN  \/ \E g \in found :
                Becomes(i, [imp[i] EXCEPT !.pc = "sync", !.name = n, !.group = g])
           \/ found = {} /\ Becomes(i, [imp[i] EXCEPT !.pc = "create", !.name = n])
  /\ UNCHANGED <<rows, tuples>>

\* The id of the new group is a fresh UUID.
CreateGroup(i) ==
  /\ At(i, "create")
  /\ \E g \in Groups \ used :
       Exec(i, InsertGroup(rows, g, imp[i].name), [imp[i] EXCEPT !.pc = "add", !.group = g])

AddUsersToGroup(i) ==
  /\ At(i, "add")
  /\ Exec(i, Upsert(rows, MemberRows({imp[i].group}, UsersOf(i))), Continued(i, FALSE))

\* Variant of SyncGroupMembers: the members who have left are kept.
SyncGroupMembersKeep(i) ==
  /\ At(i, "sync")
  /\ Exec(i, Delete(rows, {}), [imp[i] EXCEPT !.pc = "upsert"])

\* SyncGroupMembers first removes the members that the driver did not return,
\* then inserts the ones that it did.
SyncGroupMembers(i) ==
  /\ At(i, "sync")
  /\ Exec(i, Delete(rows, MemberRows({imp[i].group}, Users \ UsersOf(i))),
          [imp[i] EXCEPT !.pc = "upsert"])

UpsertGroupMembers(i) ==
  /\ At(i, "upsert")
  /\ Exec(i, Upsert(rows, MemberRows({imp[i].group}, UsersOf(i))), Continued(i, FALSE))

\* The end of the loop over the driver's groups. Run is done, with or without
\* failures; Sync turns to the groups that the driver no longer has.
GroupsDone(i) ==
  /\ At(i, "groups") /\ imp[i].todo = {}
  /\ IF imp[i].mode = "run"
     THEN Goes(i, "ok")
     ELSE Becomes(i, [imp[i] EXCEPT !.pc = "stale",
                        !.todo = {x[3] : x \in imp[i].existing} \ DataNames(i)])
  /\ UNCHANGED <<rows, tuples>>

StaleGroup(i) ==
  /\ At(i, "stale")
  /\ \E x \in imp[i].existing :
       /\ x[3] \in imp[i].todo
       /\ Becomes(i, [imp[i] EXCEPT !.pc = "drop", !.name = x[3], !.group = x[2]])
  /\ UNCHANGED <<rows, tuples>>

\* Variant of DeleteGroup: the tuples of the group are left behind.
DeleteGroupTablesOnly(i) ==
  /\ At(i, "drop")
  /\ Exec(i, DropGroup(rows, imp[i].group), Continued(i, FALSE))

\* The rows of the group go first, then its tuples.
DeleteGroup(i) ==
  /\ At(i, "drop")
  /\ Exec(i, DropGroup(rows, imp[i].group), [imp[i] EXCEPT !.pc = "read"])

\* A page of the tuples of the group. The noop authorizer reads none.
ReadTuples(i) ==
  /\ At(i, "read")
  /\ LET found == IF imp[i].authz = "noop" THEN {}
                  ELSE {t \in tuples : t[1] = imp[i].group}
     IN  \/ found = {} /\ Becomes(i, Continued(i, FALSE))
         \/ \E page \in SUBSET found :
              /\ page # {}
              /\ Cardinality(page) = PageSize \/ (page = found /\ Cardinality(page) < PageSize)
              /\ Becomes(i, [imp[i] EXCEPT !.pc = "delete", !.page = page,
                                           !.more = page # found])
         \/ /\ "fga" \in Faults /\ imp[i].authz = "openfga"
            /\ Becomes(i, Continued(i, TRUE))
  /\ UNCHANGED <<rows, tuples>>

\* The delete of a page is refused when one of its tuples is gone.
DeleteTuples(i) ==
  /\ At(i, "delete")
  /\ \/ /\ imp[i].page \subseteq tuples
        /\ tuples' = tuples \ imp[i].page
        /\ \/ Becomes(i, IF imp[i].more THEN [imp[i] EXCEPT !.pc = "read", !.page = {}]
                                        ELSE Continued(i, FALSE))
           \/ "late" \in Faults /\ Becomes(i, Continued(i, TRUE))
     \/ /\ ~(imp[i].page \subseteq tuples) \/ "fga" \in Faults
        /\ UNCHANGED tuples
        /\ Becomes(i, Continued(i, TRUE))
  /\ UNCHANGED rows

SyncDone(i) ==
  /\ At(i, "stale") /\ imp[i].todo = {}
  /\ Goes(i, IF imp[i].failures THEN "error" ELSE "ok")
  /\ UNCHANGED <<rows, tuples>>

\* The commands install no signal handler: a signal ends the process, and what
\* it had in memory is gone.
Kill(i) ==
  /\ "kill" \in Faults
  /\ imp[i].pc \notin {"fetch", "ok", "error", "killed"}
  /\ Becomes(i, [NotStarted EXCEPT !.pc = "killed"])
  /\ UNCHANGED <<rows, tuples>>

Step(i) ==
  \/ Fetch(i) \/ FetchFails(i) \/ List(i) \/ GetGroupByName(i) \/ ExistingByName(i)
  \/ CreateGroup(i) \/ AddUsersToGroup(i) \/ SyncGroupMembers(i) \/ UpsertGroupMembers(i)
  \/ GroupsDone(i) \/ StaleGroup(i) \/ DeleteGroup(i) \/ ReadTuples(i) \/ DeleteTuples(i)
  \/ SyncDone(i) \/ Kill(i)

-----------------------------------------------------------------------------
(***************************************************************************)
(* What administrators do through the API (AdminApi), each request as one   *)
(* step: a request keeps the locks of its rows until it has written its      *)
(* tuples and commits.                                                       *)
(***************************************************************************)
Commit(statement) ==
  statement.error = "none" /\ rows' = (rows \ statement.drops) \cup statement.adds

AdminCreate ==
  /\ "create" \in Edits
  /\ \E g \in Groups \ used, n \in Names : Commit(InsertGroup(rows, g, n))
  /\ UNCHANGED tuples

AdminGrant ==
  /\ "grant" \in Edits
  /\ \E g \in Groups, a \in Apps :
       /\ Commit(Insert(rows, GrantRows({g}, {a})))
       /\ tuples' = tuples \cup {<<g, a>>}

AdminJoin ==
  /\ "join" \in Edits
  /\ \E g \in Groups, u \in Users : Commit(Upsert(rows, MemberRows({g}, {u})))
  /\ UNCHANGED tuples

\* UpdateGroup writes the name of its argument, which is empty.
AdminRename ==
  /\ "rename" \in Edits
  /\ \E g \in Groups : Commit(RenameGroup(rows, g, NoName))
  /\ UNCHANGED tuples

\* The tuples are cleaned up whether or not the group is there.
AdminDelete ==
  /\ "delete" \in Edits
  /\ \E g \in Groups :
       /\ Commit(DropGroup(rows, g))
       /\ tuples' = {t \in tuples : t[1] # g}

SourceChanges ==
  /\ source' \in Sources \ {source}
  /\ UNCHANGED <<rows, tuples>>

Import(i) ==
  /\ Step(i)
  /\ calm' = [j \in Imports |-> calm[j] /\ (j = i \/ At(j, "fetch") \/ UNCHANGED <<rows, tuples>>)]
  /\ UNCHANGED <<source, edits>>

Admin ==
  /\ AdminCreate \/ AdminGrant \/ AdminJoin \/ AdminRename \/ AdminDelete
  /\ calm' = [j \in Imports |-> calm[j] /\ (At(j, "fetch") \/ UNCHANGED <<rows, tuples>>)]
  /\ UNCHANGED source

Environment ==
  /\ edits < MaxEdits
  /\ edits' = edits + 1
  /\ Admin \/ (SourceChanges /\ UNCHANGED calm)
  /\ UNCHANGED imp

Next ==
  /\ Environment \/ \E i \in Imports : Import(i)
  /\ used' = used \cup GroupIds(rows')
  /\ ever' = ever \cup GroupIds(rows' \cap GroupRows(Groups, Prefixed))

Spec == Init /\ [][Next]_importVars

-----------------------------------------------------------------------------
\* The members of the groups with the prefix, by the names of the groups.
MembersByName ==
  LET pairs == {p \in ListGroupsByPrefix(rows) \X Members(rows) : p[1][2] = p[2][1]}
  IN  {<<p[1][3], p[2][2]>> : p \in pairs}

Reconciled(i) ==
  /\ {x[3] : x \in ListGroupsByPrefix(rows)} = DataNames(i)
  /\ MembersByName = imp[i].data
  /\ imp[i].authz = "openfga" =>
       \A t \in tuples : t[1] \in GroupIds(imp[i].existing) => t[1] \in GroupIds(rows)

Succeeds(i) == imp[i].pc # "ok" /\ imp'[i].pc = "ok"

\* When Sync returns nil, and no one else wrote while it ran, the tables hold
\* exactly the groups and the members that the driver returned, and the groups
\* it deleted have no tuples: no failed statement or call goes unreported
\* (importer.go, Sync).
SyncReconciles ==
  [][\A i \in Imports :
       Succeeds(i) /\ imp[i].mode = "sync" /\ calm[i] => Reconciled(i)']_importVars

\* An import never writes to a group that has never had a name with the prefix
\* of the driver, whatever becomes of the groups between the time Sync lists
\* them and the time it writes (importer.go, Sync).
OthersUntouched ==
  [][edits' = edits =>
       \A g \in used \ ever : rows \cap OfGroup(g) = rows' \cap OfGroup(g)]_importVars

\* Overlapping imports and administrators leave the foreign keys and the unique
\* names of the groups intact.
TablesConsistent == Consistent(rows)

\* The import is about to delete the tuple, reported an error, was killed, or
\* had no OpenFGA host.
Explains(i, t) ==
  \/ imp[i].pc \in {"read", "delete"} /\ imp[i].group = t[1]
  \/ imp[i].pc \in {"error", "killed"} \/ imp[i].failures
  \/ imp[i].mode = "sync" /\ imp[i].authz = "noop"

\* A tuple outlives its group only while an import is about to delete it, or
\* when an import reported an error, was killed, or had no OpenFGA host
\* (importer.go, Sync).
StrayTupleExplained ==
  \A t \in tuples : t[1] \in GroupIds(rows) \/ \E i \in Imports : Explains(i, t)

(***************************************************************************)
(* Inductive strengthening of OthersUntouched and StrayTupleExplained. What   *)
(* an import has in hand, by the place where it is: the names come from the  *)
(* driver, the group has had one of them, and once its rows are deleted it   *)
(* never comes back, so the last page has all of its tuples.                 *)
(***************************************************************************)
HandInv(i) ==
  /\ imp[i].mode \in {"run", "sync"}
  /\ imp[i].data \subseteq Prefixed \X Users
  /\ imp[i].todo \subseteq Prefixed
  /\ imp[i].existing \subseteq GroupRows(ever, Prefixed)
  /\ imp[i].pc = "fetch" => imp[i].mode = "run" /\ ~imp[i].failures
  /\ imp[i].pc = "create" => imp[i].name \in Prefixed
  /\ imp[i].pc \in {"add", "sync", "upsert", "drop", "read", "delete"} => imp[i].group \in ever
  /\ imp[i].pc \in {"drop", "read", "delete", "stale"} => imp[i].mode = "sync"
  /\ imp[i].pc \in {"read", "delete"} => imp[i].group \notin GroupIds(rows)
  /\ imp[i].pc = "delete" /\ ~imp[i].more =>
       {t \in tuples : t[1] = imp[i].group} \subseteq imp[i].page

ImportInv ==
  /\ \A i \in Imports : HandInv(i)
  /\ GroupIds(rows) \subseteq used
  /\ GroupIds(rows \cap GroupRows(Groups, Prefixed)) \subseteq ever
  /\ ever \subseteq used /\ used \subseteq Groups
  /\ edits \in Nat /\ source \in Sources /\ rows \subseteq Row
  /\ StrayTupleExplained
  /\ TablesConsistent

(***************************************************************************)
(* Inductive strengthening of SyncReconciles: how far a Sync is that met no  *)
(* failure and beside which no one else has written. It first fills the      *)
(* groups that the driver returned, then empties the stale ones.             *)
(***************************************************************************)
Alone(i) == imp[i].mode = "sync" /\ calm[i] /\ ~imp[i].failures

Filling == {"groups", "create", "add", "sync", "upsert"}

Emptying == {"stale", "drop", "read", "delete"}

\* The names that the import has done.
Filled(i) == IF imp[i].pc \in Filling THEN DataNames(i) \ imp[i].todo ELSE DataNames(i)

\* The row of the group in hand.
InHand(i) == <<"group", imp[i].group, imp[i].name>>

MembersMatch(i, x) ==
  \A u \in Users : <<"member", x[2], u>> \in rows <=> <<x[3], u>> \in imp[i].data

\* The names that are done have their groups, with the members of the driver.
FilledInv(i) ==
  /\ \A n \in Filled(i) : \E x \in ListGroupsByPrefix(rows) : x[3] = n
  /\ \A x \in ListGroupsByPrefix(rows) : x[3] \in Filled(i) => MembersMatch(i, x)

\* The groups that have been read are there, and the others are its own.
FillingInv(i) ==
  /\ imp[i].todo \subseteq DataNames(i)
  /\ imp[i].existing \subseteq rows
  /\ \A x \in ListGroupsByPrefix(rows) \ imp[i].existing :
       x[3] \in Filled(i) \/ (imp[i].pc = "add" /\ x[3] = imp[i].name)
  /\ imp[i].pc # "groups" => imp[i].name \in imp[i].todo
  /\ imp[i].pc \in {"sync", "upsert", "add"} => InHand(i) \in rows
  /\ imp[i].pc \in {"add", "upsert"} =>
       \A u \in Users : <<"member", imp[i].group, u>> \in rows => <<imp[i].name, u>> \in imp[i].data

\* Beside the groups of the driver there are the stale ones yet to be deleted,
\* and the tuples of those that are deleted are gone, or about to go.
EmptyingInv(i) ==
  LET gone == imp[i].pc \in {"read", "delete"} IN
  /\ imp[i].todo \cap DataNames(i) = {}
  /\ \A x \in ListGroupsByPrefix(rows) :
       x[3] \in DataNames(i) \/ (x[3] \in imp[i].todo /\ ~(gone /\ x[3] = imp[i].name))
  /\ \A x \in imp[i].existing :
       x[3] \in imp[i].todo => x \in rows \/ (gone /\ x[2] = imp[i].group)
  /\ imp[i].pc # "stale" => InHand(i) \in imp[i].existing /\ imp[i].name \in imp[i].todo
  /\ imp[i].authz = "openfga" =>
       \A t \in tuples : t[1] \in GroupIds(imp[i].existing) =>
         t[1] \in GroupIds(rows) \/ (gone /\ t[1] = imp[i].group)

Progress(i) ==
  /\ imp[i].pc = "list" => imp[i].todo = DataNames(i)
  /\ imp[i].pc \in Filling \cup Emptying =>
       FilledInv(i) /\ \A x, y \in imp[i].existing : x[2] = y[2] <=> x[3] = y[3]
  /\ imp[i].pc \in Filling => FillingInv(i)
  /\ imp[i].pc \in Emptying => EmptyingInv(i)

SyncInv(i) == Alone(i) => Progress(i)
=============================================================================
