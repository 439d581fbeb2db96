--------------------------- MODULE ImporterProofs ---------------------------
(***************************************************************************)
(* Overlapping imports and administrators, for every number of them: the     *)
(* tables stay consistent, an import writes to no group of others, a tuple    *)
(* without its group has an explanation, and a Sync reconciles.              *)
(***************************************************************************)
EXTENDS Importer, TablesProofs

-----------------------------------------------------------------------------
(***************************************************************************)
(* The steps of an import.                                                  *)
(***************************************************************************)
Fields ==
  {"pc", "mode", "authz", "data", "existing", "todo", "name", "group", "page", "more",
   "failures"}

Shape == DOMAIN imp = Imports /\ \A i \in Imports : DOMAIN imp[i] = Fields

\* What every step does to the history variables.
History ==
  /\ used' = used \cup GroupIds(rows')
  /\ ever' = ever \cup GroupIds(rows' \cap GroupRows(Groups, Prefixed))

\* Import i is in the state new, and no other one has moved.
Now(i, new) ==
  /\ Shape'
  /\ imp'[i] = new
  /\ \A j \in Imports \ {i} : imp'[j] = imp[j]

\* What a step of import i may do.
StepOf(i) ==
  /\ Shape' /\ \A j \in Imports \ {i} : imp'[j] = imp[j]
  /\ HandInv(i)'
  /\ tuples' \subseteq tuples
  /\ \A t \in tuples' : t[1] \in GroupIds(rows) \/ Explains(i, t)
                        => t[1] \in GroupIds(rows') \/ Explains(i, t)'
  /\ GroupIds(rows') \cap used \subseteq GroupIds(rows)
  /\ rows' \subseteq Row /\ Consistent(rows')
  /\ \E g : g \notin used \ ever /\ Touches(rows, rows', g)

\* Becomes replaces the state of one import.
LEMMA NowFromBecomes ==
  ASSUME Shape, NEW i \in Imports, NEW new, DOMAIN new = Fields, Becomes(i, new)
  PROVE  Now(i, new)
BY Zenon DEF Shape, Becomes, Now

\* The state in which the next iteration begins.
LEMMA ContinuedFields ==
  ASSUME Shape, NEW i \in Imports, NEW failed \in BOOLEAN
  PROVE  /\ DOMAIN Continued(i, failed) = Fields
         /\ Continued(i, failed).pc = Loop(i)
         /\ Continued(i, failed).mode = imp[i].mode
         /\ Continued(i, failed).authz = imp[i].authz
         /\ Continued(i, failed).data = imp[i].data
         /\ Continued(i, failed).existing = imp[i].existing
         /\ Continued(i, failed).todo = imp[i].todo \ {imp[i].name}
         /\ Continued(i, failed).failures = (imp[i].failures \/ (failed /\ imp[i].mode = "sync"))
<1>1. DOMAIN imp[i] = Fields
  BY Zenon DEF Shape
<1> QED BY <1>1, Zenon DEF Continued, Fields

\* The next iteration keeps the invariant, and what the import explained it
\* goes on to explain, unless it has deleted the tuples without a failure.
LEMMA ContinuedHand ==
  ASSUME Shape, ImportInv, History, NEW i \in Imports, NEW failed \in BOOLEAN,
         imp'[i] = Continued(i, failed),
         imp[i].pc \in {"create", "add", "sync", "upsert", "drop", "read", "delete"}
  PROVE  /\ HandInv(i)'
         /\ failed /\ imp[i].mode = "sync" => \A t : Explains(i, t)'
         /\ imp[i].mode = "sync" /\ imp[i].authz = "noop" => \A t : Explains(i, t)'
         /\ imp[i].pc \notin {"read", "delete"} => \A t : Explains(i, t) => Explains(i, t)'
         /\ imp[i].failures => \A t : Explains(i, t)'
<1>1. HandInv(i)
  BY Zenon DEF ImportInv
<1>2. /\ imp'[i].pc = Loop(i) /\ imp'[i].mode = imp[i].mode /\ imp'[i].authz = imp[i].authz
      /\ imp'[i].data = imp[i].data /\ imp'[i].existing = imp[i].existing
      /\ imp'[i].todo = imp[i].todo \ {imp[i].name}
  BY ContinuedFields, ZenonT(30)
<1>3. imp'[i].failures = (imp[i].failures \/ (failed /\ imp[i].mode = "sync"))
  BY ContinuedFields, ZenonT(60)
<1>4. imp'[i].pc \in {"stale", "groups"}
  BY <1>2, Zenon DEF Loop
<1>5. imp'[i].pc = "stale" => imp[i].mode = "sync"
  BY <1>1, <1>2, Zenon DEF Loop, At, HandInv
<1>6. imp'[i].existing \subseteq GroupRows(ever', Prefixed)
  <2>1. ever \subseteq ever'
    BY Zenon DEF History
  <2> QED BY <1>1, <1>2, <2>1 DEF HandInv, GroupRows
<1>7. HandInv(i)'
  BY <1>1, <1>2, <1>4, <1>5, <1>6, Zenon DEF HandInv
<1>8. imp[i].failures \/ (failed /\ imp[i].mode = "sync") => \A t : Explains(i, t)'
  BY <1>3, Zenon DEF Explains
<1>9. imp[i].mode = "sync" /\ imp[i].authz = "noop" => \A t : Explains(i, t)'
  BY <1>2, Zenon DEF Explains
<1>10. ASSUME imp[i].pc \notin {"read", "delete"}, NEW t, Explains(i, t) PROVE Explains(i, t)'
  <2>1. imp[i].pc \notin {"error", "killed"}
    BY Zenon
  <2>2. imp[i].failures \/ (imp[i].mode = "sync" /\ imp[i].authz = "noop")
    BY <1>10, <2>1, Zenon DEF Explains
  <2> QED BY <1>8, <1>9, <2>2, Zenon
<1> QED BY <1>7, <1>8, <1>9, <1>10, Zenon

\* A step that writes nothing.
LEMMA QuietStep ==
  ASSUME ImportInv, NEW i \in Imports, NEW new, Now(i, new), UNCHANGED <<rows, tuples>>,
         HandInv(i)',
         \A t \in tuples : t[1] \in GroupIds(rows) \/ (Explains(i, t) => Explains(i, t)')
  PROVE  StepOf(i)
<1>1. rows' = rows /\ tuples' = tuples /\ GroupIds(rows') = GroupIds(rows)
  BY Zenon
<1>2. rows' \subseteq Row /\ Consistent(rows')
  BY <1>1, Zenon DEF ImportInv, TablesConsistent
<1>3. \E g : g \notin used \ ever /\ Touches(rows, rows', g)
  <2>1. PICK g : g \notin used \ ever
    BY NoSetContainsEverything, Zenon
  <2> QED BY <1>1, <2>1, Zenon DEF Touches
<1> QED BY <1>1, <1>2, <1>3, Zenon DEF StepOf, Now

\* The failures and the command of an import outlive its steps.
LEMMA ExplainsKept ==
  ASSUME NEW i \in Imports, imp[i].pc \notin {"read", "delete", "error", "killed"},
         imp'[i].mode = imp[i].mode, imp'[i].authz = imp[i].authz,
         imp'[i].failures = imp[i].failures
  PROVE  \A t : Explains(i, t) => Explains(i, t)'
BY Zenon DEF Explains

\* The driver returns names with its prefix, and users with an email.
LEMMA FetchTyped ==
  ASSUME NEW S \in Sources
  PROVE  FetchAllUserGroups(S) \subseteq Prefixed \X Users
<1>1. ASSUME NEW r \in S, r.email # NoName PROVE r.email \in Users
  BY <1>1, SourceRecords, Zenon
<1>2. ASSUME NEW r \in S
      PROVE  /\ r.department # NoName => Named(r.department) \in Prefixed
             /\ r.team # NoName => Named(r.team) \in Prefixed
  <2>1. {r.department, r.team} \subseteq Teams \cup {NoName}
    BY SourceRecords, Zenon
  <2> QED BY <2>1, Zenon DEF Prefixed
<1> QED BY <1>1, <1>2 DEF FetchAllUserGroups

\* What an import knows of earlier groups stays true: ever only grows.
LEMMA EverGrows ==
  ASSUME History, NEW E, E \subseteq GroupRows(ever, Prefixed)
  PROVE  E \subseteq GroupRows(ever', Prefixed)
<1>1. ever \subseteq ever'
  BY Zenon DEF History
<1> QED BY <1>1, Zenon DEF GroupRows

\* The source answers the query.
LEMMA FetchStep ==
  ASSUME Shape, ImportInv, History, NEW i \in Imports, Fetch(i)
  PROVE  StepOf(i)
<1> DEFINE data == FetchAllUserGroups(source)
           new(c) == [imp[i] EXCEPT !.pc = IF c.mode = "sync" THEN "list" ELSE "groups",
                        !.mode = c.mode, !.authz = c.authz, !.data = data,
                        !.todo = {m[1] : m \in data}]
<1>1. PICK c \in Commands : Becomes(i, new(c))
  BY Zenon DEF Fetch
<1>2. DOMAIN imp[i] = Fields /\ DOMAIN new(c) = Fields
  BY Zenon DEF Shape
<1>3. Now(i, new(c))
  BY <1>1, <1>2, NowFromBecomes, Zenon
<1>4. /\ imp'[i].pc \in {"list", "groups"} /\ imp'[i].data = data
      /\ imp'[i].todo = {m[1] : m \in data} /\ imp'[i].existing = imp[i].existing
      /\ imp'[i].mode = c.mode
  BY <1>2, <1>3, ZenonT(30) DEF Now, Fields
<1>5. HandInv(i) /\ imp[i].pc = "fetch" /\ UNCHANGED <<rows, tuples>> /\ source \in Sources
  BY Zenon DEF ImportInv, Fetch, At
<1>6. data \subseteq Prefixed \X Users
  BY <1>5, FetchTyped, Zenon
<1> HIDE DEF data, new
<1>7. {m[1] : m \in data} \subseteq Prefixed
  BY <1>6, Zenon
<1>8. imp'[i].existing \subseteq GroupRows(ever', Prefixed)
  BY <1>4, <1>5, EverGrows, Zenon DEF HandInv
<1>9. HandInv(i)'
  <2>1. c.mode \in {"run", "sync"}
    BY CommandsExist, Zenon DEF Command
  <2> QED BY <1>4, <1>6, <1>7, <1>8, <2>1, Zenon DEF HandInv
<1>10. \A t : ~Explains(i, t)
  <2>1. imp[i].mode # "sync"
    BY <1>5, Zenon DEF HandInv
  <2>2. ~imp[i].failures
    BY <1>5, Zenon DEF HandInv
  <2>3. imp[i].pc \notin {"read", "delete", "error", "killed"}
    BY <1>5, Zenon
  <2> QED BY <2>1, <2>2, <2>3, Zenon DEF Explains
<1> QED BY <1>3, <1>5, <1>9, <1>10, QuietStep, Zenon

\* The import ends.
LEMMA EndStep ==
  ASSUME Shape, ImportInv, History, NEW i \in Imports,
         FetchFails(i) \/ SyncDone(i)
         \/ (At(i, "groups") /\ Goes(i, "ok") /\ UNCHANGED <<rows, tuples>>)
         \/ (At(i, "list") /\ Goes(i, "error") /\ UNCHANGED <<rows, tuples>>)
  PROVE  StepOf(i)
<1>1. PICK place \in {"ok", "error"} :
        /\ Goes(i, place)
        /\ place = "ok" => imp[i].pc \in {"groups", "stale"}
  BY Zenon DEF FetchFails, SyncDone, At
<1>2. UNCHANGED <<rows, tuples>>
  BY Zenon DEF FetchFails, SyncDone
<1> DEFINE new == [imp[i] EXCEPT !.pc = place]
<1>3. DOMAIN imp[i] = Fields /\ DOMAIN new = Fields
  BY Zenon DEF Shape
<1>4. Now(i, new)
  BY <1>1, <1>3, NowFromBecomes, Zenon DEF Goes
<1>5. /\ imp'[i].pc = place /\ imp'[i].data = imp[i].data /\ imp'[i].todo = imp[i].todo
      /\ imp'[i].existing = imp[i].existing /\ imp'[i].mode = imp[i].mode
      /\ imp'[i].authz = imp[i].authz /\ imp'[i].failures = imp[i].failures
  BY <1>3, <1>4, Zenon DEF Now, Fields
<1> HIDE DEF new
<1>6. HandInv(i)
  BY Zenon DEF ImportInv
<1>7. imp'[i].existing \subseteq GroupRows(ever', Prefixed)
  BY <1>5, <1>6, EverGrows, Zenon DEF HandInv
<1>8. HandInv(i)'
  BY <1>5, <1>6, <1>7, Zenon DEF HandInv
<1>9. \A t : Explains(i, t) => Explains(i, t)'
  <2>1. CASE place = "ok"
    BY <1>1, <1>5, <2>1, ExplainsKept, Zenon
  <2>2. CASE place # "ok"
    BY <1>5, <2>2, Zenon DEF Explains
  <2> QED BY <2>1, <2>2, Zenon
<1> QED BY <1>2, <1>4, <1>8, <1>9, QuietStep, Zenon

\* A killed import has nothing in hand, and explains every tuple.
LEMMA KillStep ==
  ASSUME Shape, ImportInv, History, NEW i \in Imports, Kill(i)
  PROVE  StepOf(i)
<1> DEFINE new == [NotStarted EXCEPT !.pc = "killed"]
<1>1. Becomes(i, new) /\ UNCHANGED <<rows, tuples>>
  BY Zenon DEF Kill
<1>2. DOMAIN new = Fields
  BY Zenon DEF NotStarted, Fields
<1>3. Now(i, new)
  BY <1>1, <1>2, NowFromBecomes, Zenon
<1>4. /\ imp'[i].pc = "killed" /\ imp'[i].mode = "run" /\ imp'[i].data = {}
      /\ imp'[i].todo = {} /\ imp'[i].existing = {}
  BY <1>3, Zenon DEF Now, NotStarted
<1> HIDE DEF new
<1>5. HandInv(i)'
  BY <1>4, Zenon DEF HandInv
<1>6. \A t : Explains(i, t)'
  BY <1>4, Zenon DEF Explains
<1> QED BY <1>1, <1>3, <1>5, <1>6, QuietStep, Zenon

\* An import looks something up and turns to a group.
LEMMA TurnStep ==
  ASSUME Shape, ImportInv, History, NEW i \in Imports, NEW new, Becomes(i, new),
         DOMAIN new = Fields, UNCHANGED <<rows, tuples>>,
         imp[i].pc \in {"list", "groups", "stale"},
         new.pc \in {"groups", "add", "create", "sync", "stale", "drop"},
         new.mode = imp[i].mode, new.authz = imp[i].authz, new.data = imp[i].data,
         new.failures = imp[i].failures,
         new.todo \subseteq Prefixed,
         new.existing \subseteq GroupRows(ever, Prefixed),
         new.pc = "create" => new.name \in Prefixed,
         new.pc \in {"add", "sync", "drop"} => new.group \in ever,
         new.pc \in {"stale", "drop"} => new.mode = "sync"
  PROVE  StepOf(i)
<1>1. Now(i, new)
  BY NowFromBecomes, Zenon
<1>2. imp'[i] = new /\ HandInv(i)
  BY <1>1, Zenon DEF Now, ImportInv
<1>3. imp'[i].existing \subseteq GroupRows(ever', Prefixed) /\ ever \subseteq ever'
  BY <1>2, EverGrows, Zenon DEF History
<1>4. HandInv(i)'
  BY <1>2, <1>3, Zenon DEF HandInv
<1>5. \A t : Explains(i, t) => Explains(i, t)'
  BY <1>2, ExplainsKept, Zenon
<1> QED BY <1>1, <1>4, <1>5, QuietStep, Zenon

\* Sync reads the groups of the driver, or fails to.
LEMMA ListStep ==
  ASSUME Shape, ImportInv, History, NEW i \in Imports, List(i)
  PROVE  StepOf(i)
<1> DEFINE new == [imp[i] EXCEPT !.pc = "groups", !.existing = ListGroupsByPrefix(rows)]
<1>1. imp[i].pc = "list" /\ UNCHANGED <<rows, tuples>> /\ HandInv(i)
  BY Zenon DEF List, At, ImportInv
<1>2. CASE Becomes(i, new)
  <2>1. DOMAIN imp[i] = Fields /\ DOMAIN new = Fields
    BY Zenon DEF Shape
  <2>2. /\ new.pc = "groups" /\ new.existing = ListGroupsByPrefix(rows)
        /\ new.mode = imp[i].mode /\ new.authz = imp[i].authz /\ new.data = imp[i].data
        /\ new.failures = imp[i].failures /\ new.todo = imp[i].todo
    BY <2>1, Zenon DEF Fields
  <2>3. ListGroupsByPrefix(rows) \subseteq GroupRows(ever, Prefixed)
    <3> SUFFICES ASSUME NEW x \in rows, x \in GroupRows(Groups, Prefixed)
                 PROVE  x \in GroupRows(ever, Prefixed)
      BY Zenon DEF ListGroupsByPrefix
    <3>1. PICK g \in Groups, n \in Prefixed : x = <<"group", g, n>>
      BY DEF GroupRows
    <3>2. x \in GroupRows(Groups, Names) /\ x[2] = g
      BY <3>1, NamesOfGroups, Zenon DEF GroupRows
    <3>3. g \in GroupIds(rows \cap GroupRows(Groups, Prefixed))
      BY <3>2, Zenon DEF GroupIds
    <3>4. g \in ever
      BY <3>3, Zenon DEF ImportInv
    <3> QED BY <3>1, <3>4, Zenon DEF GroupRows
  <2> HIDE DEF new
  <2> QED BY <1>1, <1>2, <2>1, <2>2, <2>3, TurnStep, Zenon DEF HandInv
<1>3. CASE Goes(i, "error")
  BY <1>1, <1>3, EndStep, Zenon DEF At
<1> QED BY <1>2, <1>3, Zenon DEF List

\* The ids of the rows with a name of the driver.
LEMMA EverOfRows ==
  ASSUME ImportInv, NEW n \in Prefixed
  PROVE  GroupIds(rows \cap GroupRows(Groups, {n})) \subseteq ever
<1>1. GroupRows(Groups, {n}) \subseteq GroupRows(Groups, Prefixed)
  BY Zenon DEF GroupRows
<1> QED BY <1>1, Zenon DEF GroupIds, ImportInv

\* The groups that Sync has listed carry the prefix, and have done so in ever.
LEMMA EverOfExisting ==
  ASSUME NEW E, E \subseteq GroupRows(ever, Prefixed)
  PROVE  /\ GroupIds(E) \subseteq ever
         /\ \A x \in E : x[2] \in ever /\ x[3] \in Prefixed
<1>1. \A x \in E : x[2] \in ever /\ x[3] \in Prefixed
  BY Zenon DEF GroupRows
<1> QED BY <1>1, Zenon DEF GroupIds

\* Run and Sync look a group up by its name.
LEMMA LookupStep ==
  ASSUME Shape, ImportInv, History, NEW i \in Imports,
         GetGroupByName(i) \/ ExistingByName(i)
  PROVE  StepOf(i)
<1>1. imp[i].pc = "groups" /\ UNCHANGED <<rows, tuples>> /\ HandInv(i)
  BY ZenonT(30) DEF GetGroupByName, ExistingByName, At, ImportInv
<1> DEFINE turn(n, g, place) == [imp[i] EXCEPT !.pc = place, !.name = n, !.group = g]
           create(n) == [imp[i] EXCEPT !.pc = "create", !.name = n]
<1>2. \E n \in imp[i].todo :
        \/ \E g \in ever, place \in {"add", "sync"} : Becomes(i, turn(n, g, place))
        \/ Becomes(i, create(n))
  <2>1. CASE GetGroupByName(i)
    <3>1. PICK n \in imp[i].todo :
            \/ \E g \in GroupIds(rows \cap GroupRows(Groups, {n})) : Becomes(i, turn(n, g, "add"))
            \/ Becomes(i, create(n))
      BY <2>1, Zenon DEF GetGroupByName
    <3>2. GroupIds(rows \cap GroupRows(Groups, {n})) \subseteq ever
      BY <1>1, EverOfRows, Zenon DEF HandInv
    <3> HIDE DEF turn, create
    <3> QED BY <3>1, <3>2, Zenon
  <2>2. CASE ExistingByName(i)
    <3>1. PICK n \in imp[i].todo :
            \/ \E g \in GroupIds(imp[i].existing \cap GroupRows(Groups, {n})) :
                 Becomes(i, turn(n, g, "sync"))
            \/ Becomes(i, create(n))
      BY <2>2, Zenon DEF ExistingByName
    <3>2. GroupIds(imp[i].existing \cap GroupRows(Groups, {n})) \subseteq ever
      BY <1>1, EverOfExisting, Zenon DEF HandInv
    <3> HIDE DEF turn, create
    <3> QED BY <3>1, <3>2, Zenon
  <2> QED BY <2>1, <2>2, Zenon
<1>3. PICK n \in imp[i].todo :
        \/ \E g \in ever, place \in {"add", "sync"} : Becomes(i, turn(n, g, place))
        \/ Becomes(i, create(n))
  BY <1>2, Zenon
<1>4. DOMAIN imp[i] = Fields
  BY Zenon DEF Shape
<1>5. n \in Prefixed
  BY <1>1, Zenon DEF HandInv
<1>6. ASSUME NEW g \in ever, NEW place \in {"add", "sync"}, Becomes(i, turn(n, g, place))
      PROVE  StepOf(i)
  <2> DEFINE new == turn(n, g, place)
  <2>1. /\ DOMAIN new = Fields
        /\ new.pc = place /\ new.group = g /\ new.existing = imp[i].existing
        /\ new.mode = imp[i].mode /\ new.authz = imp[i].authz /\ new.data = imp[i].data
        /\ new.failures = imp[i].failures /\ new.todo = imp[i].todo
    BY <1>4, Zenon DEF Fields
  <2>2. Becomes(i, new)
    BY <1>6, Zenon
  <2> HIDE DEF new
  <2> QED BY <1>1, <2>1, <2>2, TurnStep, Zenon DEF HandInv
<1>7. ASSUME Becomes(i, create(n)) PROVE StepOf(i)
  <2> DEFINE new == create(n)
  <2>1. /\ DOMAIN new = Fields
        /\ new.pc = "create" /\ new.name = n /\ new.existing = imp[i].existing
        /\ new.mode = imp[i].mode /\ new.authz = imp[i].authz /\ new.data = imp[i].data
        /\ new.failures = imp[i].failures /\ new.todo = imp[i].todo
    BY <1>4, Zenon DEF Fields
  <2>2. Becomes(i, new)
    BY <1>7, Zenon
  <2> HIDE DEF new
  <2> QED BY <1>1, <1>5, <2>1, <2>2, TurnStep, Zenon DEF HandInv
<1> QED BY <1>3, <1>6, <1>7, ZenonT(30)

\* The loop over the groups of the source ends; Sync turns to a group that is stale.
LEMMA StaleStep ==
  ASSUME Shape, ImportInv, History, NEW i \in Imports, GroupsDone(i) \/ StaleGroup(i)
  PROVE  StepOf(i)
<1>1. UNCHANGED <<rows, tuples>> /\ HandInv(i) /\ DOMAIN imp[i] = Fields
  BY Zenon DEF GroupsDone, StaleGroup, ImportInv, Shape
<1>2. /\ imp[i].existing \subseteq GroupRows(ever, Prefixed)
      /\ \A x \in imp[i].existing : x[2] \in ever /\ x[3] \in Prefixed
  BY <1>1, EverOfExisting, Zenon DEF HandInv
<1>3. CASE GroupsDone(i) /\ imp[i].mode = "run"
  BY <1>1, <1>3, EndStep, Zenon DEF GroupsDone
<1>4. CASE GroupsDone(i) /\ imp[i].mode # "run"
  <2> DEFINE todo == {x[3] : x \in imp[i].existing} \ DataNames(i)
             new == [imp[i] EXCEPT !.pc = "stale", !.todo = todo]
  <2>1. Becomes(i, new) /\ imp[i].pc = "groups"
    BY <1>4, Zenon DEF GroupsDone, At
  <2>2. todo \subseteq Prefixed
    BY <1>2, Zenon
  <2>3. /\ DOMAIN new = Fields /\ new.pc = "stale" /\ new.todo = todo
        /\ new.existing = imp[i].existing /\ new.mode = imp[i].mode
        /\ new.authz = imp[i].authz /\ new.data = imp[i].data
        /\ new.failures = imp[i].failures
    BY <1>1, Zenon DEF Fields
  <2>4. imp[i].mode = "sync"
    BY <1>1, <1>4, Zenon DEF HandInv
  <2> HIDE DEF new, todo
  <2> QED BY <1>1, <1>2, <2>1, <2>2, <2>3, <2>4, TurnStep, Zenon
<1>5. CASE StaleGroup(i)
  <2> DEFINE turn(x) == [imp[i] EXCEPT !.pc = "drop", !.name = x[3], !.group = x[2]]
  <2>1. PICK x \in imp[i].existing : Becomes(i, turn(x))
    BY <1>5, ZenonT(30) DEF StaleGroup
  <2>2. imp[i].pc = "stale" /\ imp[i].mode = "sync"
    BY <1>1, <1>5, Zenon DEF StaleGroup, At, HandInv
  <2> DEFINE new == turn(x)
  <2>3. /\ DOMAIN new = Fields /\ new.pc = "drop" /\ new.group = x[2] /\ new.todo = imp[i].todo
        /\ new.existing = imp[i].existing /\ new.mode = imp[i].mode
        /\ new.authz = imp[i].authz /\ new.data = imp[i].data
        /\ new.failures = imp[i].failures
    BY <1>1, Zenon DEF Fields
  <2>4. Becomes(i, new)
    BY <2>1, Zenon
  <2> HIDE DEF new
  <2> QED BY <1>1, <1>2, <2>2, <2>3, <2>4, TurnStep, Zenon DEF HandInv
<1> QED BY <1>3, <1>4, <1>5, Zenon

-----------------------------------------------------------------------------
\* What the statements and the calls of an import do to the two stores.
Wrote ==
  /\ rows' \subseteq Row /\ Consistent(rows')
  /\ GroupIds(rows') \cap used \subseteq GroupIds(rows)
  /\ \E g : g \notin used \ ever /\ Touches(rows, rows', g)
  /\ tuples' \subseteq tuples

\* A step that leaves the tables as they are.
LEMMA NothingWrote ==
  ASSUME ImportInv, UNCHANGED rows, tuples' \subseteq tuples
  PROVE  Wrote /\ GroupIds(rows') = GroupIds(rows)
<1>1. rows' = rows /\ GroupIds(rows') = GroupIds(rows)
  BY Zenon
<1>2. rows' \subseteq Row /\ Consistent(rows')
  BY <1>1, Zenon DEF ImportInv, TablesConsistent
<1>3. PICK g : g \notin used \ ever
  BY NoSetContainsEverything, Zenon
<1>4. Touches(rows, rows', g)
  BY <1>1, Zenon DEF Touches
<1> QED BY <1>1, <1>2, <1>3, <1>4, Zenon DEF Wrote

\* The import goes on to the next iteration.
LEMMA ContinueStep ==
  ASSUME Shape, ImportInv, History, NEW i \in Imports, NEW failed \in BOOLEAN,
         Becomes(i, Continued(i, failed)), Wrote,
         imp[i].pc \in {"create", "add", "sync", "upsert", "drop", "read", "delete"},
         \/ failed /\ imp[i].mode = "sync"
         \/ /\ GroupIds(rows) \subseteq GroupIds(rows')
            /\ \/ imp[i].pc \notin {"read", "delete"}
               \/ imp[i].mode = "sync" /\ imp[i].authz = "noop"
               \/ \A t \in tuples' : t[1] # imp[i].group
  PROVE  StepOf(i)
<1>1. DOMAIN Continued(i, failed) = Fields
  BY ContinuedFields, Zenon
<1>2. Now(i, Continued(i, failed))
  BY <1>1, NowFromBecomes, Zenon
<1>3. imp'[i] = Continued(i, failed)
  BY <1>2, Zenon DEF Now
<1>4. /\ HandInv(i)'
      /\ failed /\ imp[i].mode = "sync" => \A t : Explains(i, t)'
      /\ imp[i].mode = "sync" /\ imp[i].authz = "noop" => \A t : Explains(i, t)'
      /\ imp[i].pc \notin {"read", "delete"} => \A t : Explains(i, t) => Explains(i, t)'
      /\ imp[i].failures => \A t : Explains(i, t)'
  BY <1>3, ContinuedHand, Zenon
<1>5. ASSUME NEW t \in tuples', t[1] # imp[i].group, Explains(i, t) PROVE Explains(i, t)'
  <2>1. imp[i].pc \notin {"error", "killed"}
    BY Zenon
  <2>2. imp[i].failures \/ (imp[i].mode = "sync" /\ imp[i].authz = "noop")
    BY <1>5, <2>1, Zenon DEF Explains
  <2> QED BY <1>4, <2>2, Zenon
<1>6. ASSUME NEW t \in tuples', t[1] \in GroupIds(rows) \/ Explains(i, t)
      PROVE  t[1] \in GroupIds(rows') \/ Explains(i, t)'
  <2>1. CASE failed /\ imp[i].mode = "sync"
    BY <1>4, <2>1, Zenon
  <2>2. CASE GroupIds(rows) \subseteq GroupIds(rows') /\ imp[i].pc \notin {"read", "delete"}
    BY <1>4, <1>6, <2>2, Zenon
  <2>3. CASE imp[i].mode = "sync" /\ imp[i].authz = "noop"
    BY <1>4, <2>3, Zenon
  <2>4. CASE GroupIds(rows) \subseteq GroupIds(rows') /\ \A x \in tuples' : x[1] # imp[i].group
    BY <1>5, <1>6, <2>4, Zenon
  <2> QED BY <2>1, <2>2, <2>3, <2>4, Zenon
<1> QED BY <1>2, <1>4, <1>6, Zenon DEF StepOf, Now, Wrote

\* The import goes on within an iteration, to the state new.
LEMMA WithinStep ==
  ASSUME Shape, ImportInv, History, NEW i \in Imports, NEW new, Becomes(i, new), Wrote,
         DOMAIN new = Fields,
         imp[i].pc \in {"create", "sync", "drop", "read", "delete"},
         new.pc \in {"add", "upsert", "read", "delete"},
         new.mode = imp[i].mode, new.authz = imp[i].authz, new.data = imp[i].data,
         new.failures = imp[i].failures, new.todo = imp[i].todo,
         new.existing = imp[i].existing,
         new.group \in ever',
         new.pc \in {"read", "delete"} =>
           /\ new.mode = "sync" /\ new.group = imp[i].group
           /\ new.group \notin GroupIds(rows')
           /\ GroupIds(rows) \ {new.group} \subseteq GroupIds(rows'),
         new.pc \in {"add", "upsert"} =>
           imp[i].pc \notin {"read", "delete"} /\ GroupIds(rows) \subseteq GroupIds(rows'),
         new.pc = "delete" /\ ~new.more => {t \in tuples' : t[1] = new.group} \subseteq new.page
  PROVE  StepOf(i)
<1>1. Now(i, new)
  BY NowFromBecomes, Zenon
<1>2. imp'[i] = new /\ HandInv(i)
  BY <1>1, Zenon DEF Now, ImportInv
<1>3. imp'[i].existing \subseteq GroupRows(ever', Prefixed)
  BY <1>2, EverGrows, Zenon DEF HandInv
<1>4. HandInv(i)'
  <2>1. /\ imp'[i].mode \in {"run", "sync"} /\ imp'[i].data \subseteq Prefixed \X Users
        /\ imp'[i].todo \subseteq Prefixed
    BY <1>2, Zenon DEF HandInv
  <2>2. /\ imp'[i].pc \in {"add", "upsert", "read", "delete"} /\ imp'[i].group \in ever'
        /\ imp'[i].pc \in {"read", "delete"} =>
             imp'[i].mode = "sync" /\ imp'[i].group \notin GroupIds(rows')
    BY <1>2, Zenon
  <2>3. imp'[i].pc = "delete" /\ ~imp'[i].more =>
          {t \in tuples' : t[1] = imp'[i].group} \subseteq imp'[i].page
    BY <1>2, Zenon
  <2> QED BY <1>3, <2>1, <2>2, <2>3, Zenon DEF HandInv
<1>5. ASSUME NEW t \in tuples', t[1] \in GroupIds(rows) \/ Explains(i, t)
      PROVE  t[1] \in GroupIds(rows') \/ Explains(i, t)'
  <2>1. CASE imp[i].failures \/ (imp[i].mode = "sync" /\ imp[i].authz = "noop")
    BY <1>2, <2>1, Zenon DEF Explains
  <2>2. CASE t[1] = new.group /\ new.pc \in {"read", "delete"}
    BY <1>2, <2>2, Zenon DEF Explains
  <2>3. CASE /\ t[1] \in GroupIds(rows)
             /\ ~(t[1] = new.group /\ new.pc \in {"read", "delete"})
    BY <2>3, Zenon
  <2>4. CASE /\ imp[i].pc \in {"read", "delete"} /\ imp[i].group = t[1]
             /\ ~(t[1] = new.group /\ new.pc \in {"read", "delete"})
    BY <2>4, Zenon
  <2>5. imp[i].pc \notin {"error", "killed"}
    BY Zenon
  <2>6. \/ t[1] \in GroupIds(rows)
        \/ imp[i].pc \in {"read", "delete"} /\ imp[i].group = t[1]
        \/ imp[i].failures \/ (imp[i].mode = "sync" /\ imp[i].authz = "noop")
    BY <1>5, <2>5, Zenon DEF Explains
  <2> QED BY <2>1, <2>2, <2>3, <2>4, <2>6, Zenon
<1> QED BY <1>1, <1>4, <1>5, Zenon DEF StepOf, Now, Wrote

\* A statement fails, succeeds, or succeeds with its answer lost.
LEMMA ExecStep ==
  ASSUME Shape, ImportInv, History, NEW i \in Imports, NEW st, NEW next, Exec(i, st, next),
         imp[i].pc \in {"create", "add", "sync", "upsert", "drop"},
         st.error = "none" /\ rows' = After(rows, st) /\ UNCHANGED tuples =>
           Wrote /\ (imp[i].mode = "sync" \/ GroupIds(rows) \subseteq GroupIds(rows')),
         st.error = "none" /\ rows' = After(rows, st) /\ Wrote /\ Becomes(i, next) => StepOf(i)
  PROVE  StepOf(i)
<1>1. UNCHANGED tuples
  BY Zenon DEF Exec
<1>2. CASE UNCHANGED rows /\ Becomes(i, Continued(i, TRUE))
  <2>1. Wrote /\ GroupIds(rows') = GroupIds(rows)
    BY <1>1, <1>2, NothingWrote, Zenon
  <2> QED BY <1>2, <2>1, ContinueStep, Zenon
<1>3. CASE st.error = "none" /\ rows' = After(rows, st) /\ Becomes(i, Continued(i, TRUE))
  BY <1>1, <1>3, ContinueStep, Zenon
<1>4. CASE st.error = "none" /\ rows' = After(rows, st) /\ Becomes(i, next)
  BY <1>1, <1>4, Zenon
<1> QED BY <1>2, <1>3, <1>4, Zenon DEF Exec, After

\* An import creates a group, with an id of its own.
LEMMA CreateStep ==
  ASSUME Shape, ImportInv, History, NEW i \in Imports, CreateGroup(i)
  PROVE  StepOf(i)
<1> DEFINE turn(g) == [imp[i] EXCEPT !.pc = "add", !.group = g]
<1>1. PICK g \in Groups \ used : Exec(i, InsertGroup(rows, g, imp[i].name), turn(g))
  BY Zenon DEF CreateGroup
<1>2. imp[i].pc = "create" /\ HandInv(i) /\ DOMAIN imp[i] = Fields
  BY Zenon DEF CreateGroup, At, ImportInv, Shape
<1>3. imp[i].name \in Prefixed /\ imp[i].name \in Names
  BY <1>2, NamesOfGroups, Zenon DEF HandInv
<1>4. g \notin GroupIds(rows) /\ Consistent(rows) /\ rows \subseteq Row
  BY Zenon DEF ImportInv, TablesConsistent
<1> DEFINE st == InsertGroup(rows, g, imp[i].name)
           new == turn(g)
<1>5. ASSUME st.error = "none", rows' = After(rows, st)
      PROVE  /\ rows' \subseteq Row /\ Consistent(rows')
             /\ GroupIds(rows') = GroupIds(rows) \cup {g}
             /\ g \in GroupIds(rows' \cap GroupRows(Groups, Prefixed))
             /\ Touches(rows, rows', g)
  BY <1>3, <1>4, <1>5, InsertGroupEffect, Zenon
<1>6. /\ DOMAIN new = Fields /\ new.pc = "add" /\ new.group = g
      /\ new.mode = imp[i].mode /\ new.authz = imp[i].authz /\ new.data = imp[i].data
      /\ new.failures = imp[i].failures /\ new.todo = imp[i].todo
      /\ new.existing = imp[i].existing
  BY <1>2, Zenon DEF Fields
<1> HIDE DEF st, new
<1>7. ASSUME st.error = "none", rows' = After(rows, st), UNCHANGED tuples
      PROVE  Wrote /\ GroupIds(rows) \subseteq GroupIds(rows')
  BY <1>5, <1>7, Zenon DEF Wrote
<1>8. ASSUME st.error = "none", rows' = After(rows, st), Wrote, Becomes(i, new)
      PROVE  StepOf(i)
  <2>1. new.group \in ever' /\ GroupIds(rows) \subseteq GroupIds(rows')
    BY <1>5, <1>6, <1>8, Zenon DEF History
  <2> QED BY <1>2, <1>6, <1>8, <2>1, WithinStep, Zenon
<1>9. Exec(i, st, new)
  BY <1>1, Zenon DEF st, new
<1> QED BY <1>2, <1>7, <1>8, <1>9, ExecStep, Zenon

\* An import writes the members of the group in hand.
LEMMA MembersStep ==
  ASSUME Shape, ImportInv, History, NEW i \in Imports,
         AddUsersToGroup(i) \/ SyncGroupMembers(i) \/ UpsertGroupMembers(i)
  PROVE  StepOf(i)
<1>1. imp[i].pc \in {"add", "sync", "upsert"} /\ HandInv(i) /\ DOMAIN imp[i] = Fields
  BY Zenon DEF AddUsersToGroup, SyncGroupMembers, UpsertGroupMembers, At, ImportInv, Shape
<1>2. imp[i].group \in ever /\ imp[i].group \in Groups
  BY <1>1, Zenon DEF HandInv, ImportInv
<1>3. UsersOf(i) \subseteq Users
  BY <1>1, Zenon DEF HandInv, UsersOf
<1>4. Consistent(rows) /\ rows \subseteq Row
  BY Zenon DEF ImportInv, TablesConsistent
<1>5. CASE AddUsersToGroup(i) \/ UpsertGroupMembers(i)
  <2> DEFINE st == Upsert(rows, MemberRows({imp[i].group}, UsersOf(i)))
             new == Continued(i, FALSE)
  <2>1. Exec(i, st, new)
    BY <1>5, Zenon DEF AddUsersToGroup, UpsertGroupMembers
  <2>2. ASSUME st.error = "none", rows' = After(rows, st)
        PROVE  /\ rows' \subseteq Row /\ Consistent(rows') /\ GroupIds(rows') = GroupIds(rows)
               /\ Touches(rows, rows', imp[i].group)
    BY <1>2, <1>3, <1>4, <2>2, UpsertEffect, Zenon
  <2> HIDE DEF st
  <2>3. ASSUME st.error = "none", rows' = After(rows, st), UNCHANGED tuples
        PROVE  Wrote /\ GroupIds(rows) \subseteq GroupIds(rows')
    BY <1>2, <2>2, <2>3, Zenon DEF Wrote
  <2>4. ASSUME st.error = "none", rows' = After(rows, st), Wrote, Becomes(i, new)
        PROVE  StepOf(i)
    BY <1>1, <2>2, <2>4, ContinueStep, ZenonT(40)
  <2> HIDE DEF new
  <2> QED BY <1>1, <2>1, <2>3, <2>4, ExecStep, Zenon
<1>6. CASE SyncGroupMembers(i)
  <2> DEFINE st == Delete(rows, MemberRows({imp[i].group}, Users \ UsersOf(i)))
             new == [imp[i] EXCEPT !.pc = "upsert"]
  <2>1. Exec(i, st, new) /\ imp[i].pc = "sync"
    BY <1>6, Zenon DEF SyncGroupMembers, At
  <2>2. ASSUME rows' = After(rows, st)
        PROVE  /\ rows' \subseteq Row /\ Consistent(rows') /\ GroupIds(rows') = GroupIds(rows)
               /\ Touches(rows, rows', imp[i].group)
    BY <1>4, <2>2, DeleteMembersEffect, Zenon
  <2>3. /\ DOMAIN new = Fields /\ new.pc = "upsert" /\ new.group = imp[i].group
        /\ new.mode = imp[i].mode /\ new.authz = imp[i].authz /\ new.data = imp[i].data
        /\ new.failures = imp[i].failures /\ new.todo = imp[i].todo
        /\ new.existing = imp[i].existing
    BY <1>1, Zenon DEF Fields
  <2> HIDE DEF st, new
  <2>4. ASSUME st.error = "none", rows' = After(rows, st), UNCHANGED tuples
        PROVE  Wrote /\ GroupIds(rows) \subseteq GroupIds(rows')
    BY <1>2, <2>2, <2>4, Zenon DEF Wrote
  <2>5. ASSUME st.error = "none", rows' = After(rows, st), Wrote, Becomes(i, new)
        PROVE  StepOf(i)
    <3>1. new.group \in ever' /\ GroupIds(rows) \subseteq GroupIds(rows')
      BY <1>2, <2>2, <2>3, <2>5, Zenon DEF History
    <3> QED BY <2>1, <2>3, <2>5, <3>1, WithinStep, Zenon
  <2> QED BY <2>1, <2>4, <2>5, ExecStep, Zenon
<1> QED BY <1>5, <1>6, Zenon

\* Sync deletes the rows of the group in hand.
LEMMA DropStep ==
  ASSUME Shape, ImportInv, History, NEW i \in Imports, DeleteGroup(i)
  PROVE  StepOf(i)
<1> DEFINE st == DropGroup(rows, imp[i].group)
           new == [imp[i] EXCEPT !.pc = "read"]
<1>1. Exec(i, st, new) /\ imp[i].pc = "drop" /\ HandInv(i) /\ DOMAIN imp[i] = Fields
  BY Zenon DEF DeleteGroup, At, ImportInv, Shape
<1>2. imp[i].group \in ever /\ imp[i].mode = "sync"
  BY <1>1, Zenon DEF HandInv
<1>3. ASSUME rows' = After(rows, st)
      PROVE  /\ rows' \subseteq Row /\ Consistent(rows')
             /\ GroupIds(rows') = GroupIds(rows) \ {imp[i].group}
             /\ Touches(rows, rows', imp[i].group)
  <2>1. Consistent(rows) /\ rows \subseteq Row
    BY Zenon DEF ImportInv, TablesConsistent
  <2> QED BY <1>3, <2>1, DropGroupEffect, Zenon
<1>4. /\ DOMAIN new = Fields /\ new.pc = "read" /\ new.group = imp[i].group
      /\ new.mode = imp[i].mode /\ new.authz = imp[i].authz /\ new.data = imp[i].data
      /\ new.failures = imp[i].failures /\ new.todo = imp[i].todo
      /\ new.existing = imp[i].existing
  BY <1>1, Zenon DEF Fields
<1> HIDE DEF st, new
<1>5. ASSUME st.error = "none", rows' = After(rows, st), UNCHANGED tuples
      PROVE  Wrote
  BY <1>2, <1>3, <1>5, Zenon DEF Wrote
<1>6. ASSUME st.error = "none", rows' = After(rows, st), Wrote, Becomes(i, new)
      PROVE  StepOf(i)
  <2>1. /\ new.group \in ever' /\ new.group \notin GroupIds(rows')
        /\ GroupIds(rows) \ {new.group} \subseteq GroupIds(rows')
    BY <1>2, <1>3, <1>4, <1>6, Zenon DEF History
  <2> QED BY <1>1, <1>2, <1>4, <1>6, <2>1, WithinStep, Zenon
<1> QED BY <1>1, <1>2, <1>5, <1>6, ExecStep, Zenon

\* Sync reads a page of the tuples of the group that it has deleted.
LEMMA ReadStep ==
  ASSUME Shape, ImportInv, History, NEW i \in Imports, ReadTuples(i)
  PROVE  StepOf(i)
<1> DEFINE found == IF imp[i].authz = "noop" THEN {} ELSE {t \in tuples : t[1] = imp[i].group}
           turn(page) == [imp[i] EXCEPT !.pc = "delete", !.page = page, !.more = page # found]
<1>1. /\ imp[i].pc = "read" /\ UNCHANGED <<rows, tuples>>
      /\ HandInv(i) /\ DOMAIN imp[i] = Fields
  BY Zenon DEF ReadTuples, At, ImportInv, Shape
<1>2. Wrote /\ GroupIds(rows') = GroupIds(rows) /\ tuples' = tuples
  BY <1>1, NothingWrote, Zenon
<1>3. /\ imp[i].mode = "sync" /\ imp[i].group \in ever
      /\ imp[i].group \notin GroupIds(rows)
  BY <1>1, Zenon DEF HandInv
<1>4. CASE found = {} /\ Becomes(i, Continued(i, FALSE))
  <2>1. (imp[i].mode = "sync" /\ imp[i].authz = "noop") \/ \A t \in tuples' : t[1] # imp[i].group
    BY <1>2, <1>3, <1>4, Zenon
  <2> QED BY <1>1, <1>2, <1>4, <2>1, ContinueStep, Zenon
<1>5. CASE Becomes(i, Continued(i, TRUE))
  BY <1>1, <1>2, <1>3, <1>5, ContinueStep, Zenon
<1>6. ASSUME NEW page \in SUBSET found, page # {}, Becomes(i, turn(page)) PROVE StepOf(i)
  <2> DEFINE new == turn(page)
  <2>1. /\ DOMAIN new = Fields /\ new.pc = "delete" /\ new.group = imp[i].group
        /\ new.mode = imp[i].mode /\ new.authz = imp[i].authz /\ new.data = imp[i].data
        /\ new.failures = imp[i].failures /\ new.todo = imp[i].todo
        /\ new.existing = imp[i].existing /\ new.page = page
    BY <1>1, Zenon DEF Fields
  <2>2. new.more = (page # found)
    BY <1>1, Zenon DEF Fields
  <2>3. found = {t \in tuples : t[1] = imp[i].group}
    BY <1>6, Zenon
  <2>4. ~new.more => {t \in tuples' : t[1] = new.group} \subseteq new.page
    <3>1. ~new.more => page = found
      BY <2>2, Zenon
    <3> HIDE DEF new
    <3> QED BY <1>2, <2>1, <2>3, <3>1, Zenon
  <2>5. Becomes(i, new)
    BY <1>6, Zenon
  <2>6. new.group \in ever'
    BY <1>3, <2>1 DEF History
  <2> HIDE DEF new
  <2> QED BY <1>1, <1>2, <1>3, <2>1, <2>4, <2>5, <2>6, WithinStep, Zenon
<1> HIDE DEF turn
<1>7. \/ found = {} /\ Becomes(i, Continued(i, FALSE))
      \/ \E page \in SUBSET found : page # {} /\ Becomes(i, turn(page))
      \/ Becomes(i, Continued(i, TRUE))
  BY Zenon DEF ReadTuples, turn
<1> HIDE DEF found
<1> QED BY <1>4, <1>5, <1>6, <1>7, Zenon

\* Sync deletes the page that it has read.
LEMMA DeleteStep ==
  ASSUME Shape, ImportInv, History, NEW i \in Imports, DeleteTuples(i)
  PROVE  StepOf(i)
<1> DEFINE new == [imp[i] EXCEPT !.pc = "read", !.page = {}]
<1>1. /\ imp[i].pc = "delete" /\ UNCHANGED rows
      /\ HandInv(i) /\ DOMAIN imp[i] = Fields
  BY Zenon DEF DeleteTuples, At, ImportInv, Shape
<1>2. tuples' \subseteq tuples
  BY Zenon DEF DeleteTuples
<1>3. Wrote /\ GroupIds(rows') = GroupIds(rows)
  BY <1>1, <1>2, NothingWrote, Zenon
<1>4. /\ imp[i].mode = "sync" /\ imp[i].group \in ever
      /\ imp[i].group \notin GroupIds(rows)
      /\ ~imp[i].more => {t \in tuples : t[1] = imp[i].group} \subseteq imp[i].page
  BY <1>1, Zenon DEF HandInv
<1>5. CASE Becomes(i, Continued(i, TRUE))
  BY <1>1, <1>3, <1>4, <1>5, ContinueStep, Zenon
<1>6. CASE ~imp[i].more /\ tuples' = tuples \ imp[i].page /\ Becomes(i, Continued(i, FALSE))
  <2>1. \A t \in tuples' : t[1] # imp[i].group
    BY <1>4, <1>6, Zenon
  <2> QED BY <1>1, <1>3, <1>6, <2>1, ContinueStep, Zenon
<1>7. CASE Becomes(i, new)
  <2>1. /\ DOMAIN new = Fields /\ new.pc = "read" /\ new.group = imp[i].group
        /\ new.mode = imp[i].mode /\ new.authz = imp[i].authz /\ new.data = imp[i].data
        /\ new.failures = imp[i].failures /\ new.todo = imp[i].todo
        /\ new.existing = imp[i].existing
    BY <1>1, Zenon DEF Fields
  <2>2. new.group \in ever'
    BY <1>4, <2>1 DEF History
  <2> HIDE DEF new
  <2> QED BY <1>1, <1>3, <1>4, <1>7, <2>1, <2>2, WithinStep, Zenon
<1>8. CASE imp[i].more
  <2>1. Becomes(i, new) \/ Becomes(i, Continued(i, TRUE))
    BY <1>8, Zenon DEF DeleteTuples
  <2> QED BY <1>5, <1>7, <2>1, Zenon
<1>9. CASE ~imp[i].more
  <2>1. \/ tuples' = tuples \ imp[i].page /\ Becomes(i, Continued(i, FALSE))
        \/ Becomes(i, Continued(i, TRUE))
    BY <1>9, Zenon DEF DeleteTuples
  <2> QED BY <1>5, <1>6, <1>9, <2>1, Zenon
<1> QED BY <1>8, <1>9, Zenon

\* Every step of an import is one of these.
LEMMA AnyStep ==
  ASSUME Shape, ImportInv, History, NEW i \in Imports, Step(i)
  PROVE  StepOf(i)
BY FetchStep, EndStep, KillStep, ListStep, LookupStep, StaleStep, CreateStep, MembersStep, DropStep,
   ReadStep, DeleteStep, Zenon DEF Step

-----------------------------------------------------------------------------
(***************************************************************************)
(* The invariant.                                                           *)
(***************************************************************************)

\* What an import that does not move has in hand stays right: groups that are
\* gone stay gone, and no tuple comes back for them.
LEMMA OtherHand ==
  ASSUME ImportInv, History, NEW j \in Imports, imp'[j] = imp[j],
         GroupIds(rows') \cap used \subseteq GroupIds(rows),
         \A t \in tuples' : t \in tuples \/ t[1] \in GroupIds(rows)
  PROVE  HandInv(j)'
<1>1. HandInv(j) /\ ever \subseteq used /\ ever \subseteq ever'
  BY Zenon DEF ImportInv, History
<1>2. imp'[j].existing \subseteq GroupRows(ever', Prefixed)
  BY <1>1, EverGrows, Zenon DEF HandInv
<1>3. imp[j].pc \in {"read", "delete"} =>
        imp[j].group \notin GroupIds(rows) /\ imp[j].group \notin GroupIds(rows')
  BY <1>1, Zenon DEF HandInv
<1>4. imp[j].pc = "delete" /\ ~imp[j].more =>
        {t \in tuples' : t[1] = imp[j].group} \subseteq imp[j].page
  BY <1>1, <1>3, Zenon DEF HandInv
<1> QED BY <1>1, <1>2, <1>3, <1>4, Zenon DEF HandInv

\* The history variables cover the rows after the step.
LEMMA HistoryKept ==
  ASSUME ImportInv, History
  PROVE  /\ GroupIds(rows') \subseteq used'
         /\ GroupIds(rows' \cap GroupRows(Groups, Prefixed)) \subseteq ever'
         /\ ever' \subseteq used' /\ used' \subseteq Groups
<1>1. GroupIds(rows' \cap GroupRows(Groups, Prefixed)) \subseteq GroupIds(rows')
  BY Zenon DEF GroupIds
<1>2. GroupIds(rows') \subseteq Groups
  BY Zenon DEF GroupIds, GroupRows
<1> QED BY <1>1, <1>2, Zenon DEF ImportInv, History

\* A step of an import keeps the invariant.
LEMMA ImportKeepsInv ==
  ASSUME Shape, ImportInv, History, NEW i \in Imports, Import(i)
  PROVE  Shape' /\ ImportInv'
<1>1. StepOf(i) /\ UNCHANGED <<source, edits>>
  BY AnyStep, Zenon DEF Import
<1>2. /\ Shape' /\ \A j \in Imports \ {i} : imp'[j] = imp[j]
      /\ HandInv(i)' /\ tuples' \subseteq tuples
      /\ GroupIds(rows') \cap used \subseteq GroupIds(rows)
      /\ rows' \subseteq Row /\ Consistent(rows')
  BY <1>1, Zenon DEF StepOf
<1>3. \A j \in Imports : HandInv(j)'
  BY <1>2, OtherHand, Zenon
<1>4. ASSUME NEW t \in tuples'
      PROVE  t[1] \in GroupIds(rows') \/ \E j \in Imports : Explains(j, t)'
  <2>1. t[1] \in GroupIds(rows) \/ \E j \in Imports : Explains(j, t)
    BY <1>2, Zenon DEF ImportInv, StrayTupleExplained
  <2>2. t[1] \in GroupIds(rows) \/ Explains(i, t) => t[1] \in GroupIds(rows') \/ Explains(i, t)'
    BY <1>1, Zenon DEF StepOf
  <2>3. ASSUME NEW j \in Imports \ {i}, Explains(j, t) PROVE Explains(j, t)'
    BY <1>2, <2>3, Zenon DEF Explains
  <2> QED BY <2>1, <2>2, <2>3, Zenon
<1>5. StrayTupleExplained'
  BY <1>4, Zenon DEF StrayTupleExplained
<1>6. edits' \in Nat /\ source' \in Sources /\ TablesConsistent'
  BY <1>1, <1>2, Zenon DEF ImportInv, TablesConsistent
<1> QED BY <1>2, <1>3, <1>5, <1>6, HistoryKept, Zenon DEF ImportInv

\* What the administrators do to the two stores.
LEMMA AdminWrote ==
  ASSUME ImportInv,
         AdminCreate \/ AdminGrant \/ AdminJoin \/ AdminRename \/ AdminDelete
  PROVE  /\ rows' \subseteq Row /\ Consistent(rows')
         /\ GroupIds(rows') \cap used \subseteq GroupIds(rows)
         /\ \A t \in tuples' : t \in tuples \/ t[1] \in GroupIds(rows)
         /\ \A t \in tuples' : t[1] \in GroupIds(rows) => t[1] \in GroupIds(rows')
<1>1. Consistent(rows) /\ rows \subseteq Row /\ GroupIds(rows) \subseteq used
  BY Zenon DEF ImportInv, TablesConsistent
<1>2. CASE AdminCreate
  <2>1. PICK g \in Groups \ used, n \in Names : Commit(InsertGroup(rows, g, n))
    BY <1>2, Zenon DEF AdminCreate
  <2>2. /\ rows' = After(rows, InsertGroup(rows, g, n)) /\ InsertGroup(rows, g, n).error = "none"
        /\ tuples' = tuples
    BY <1>2, <2>1, Zenon DEF Commit, After, AdminCreate
  <2>3. rows' \subseteq Row /\ Consistent(rows') /\ GroupIds(rows') = GroupIds(rows) \cup {g}
    BY <1>1, <2>2, InsertGroupEffect, Zenon
  <2> QED BY <2>2, <2>3, Zenon
<1>3. CASE AdminGrant
  <2>1. PICK g \in Groups, a \in Apps :
          Commit(Insert(rows, GrantRows({g}, {a}))) /\ tuples' = tuples \cup {<<g, a>>}
    BY <1>3, Zenon DEF AdminGrant
  <2>2. /\ rows' = After(rows, Insert(rows, GrantRows({g}, {a})))
        /\ Insert(rows, GrantRows({g}, {a})).error = "none"
    BY <2>1, Zenon DEF Commit, After
  <2>3. /\ rows' \subseteq Row /\ Consistent(rows') /\ GroupIds(rows') = GroupIds(rows)
        /\ g \in GroupIds(rows)
    BY <1>1, <2>2, InsertEffect, Zenon
  <2> QED BY <2>1, <2>3
<1>4. CASE AdminJoin
  <2>1. PICK g \in Groups, u \in Users : Commit(Upsert(rows, MemberRows({g}, {u})))
    BY <1>4, Zenon DEF AdminJoin
  <2>2. /\ rows' = After(rows, Upsert(rows, MemberRows({g}, {u}))) /\ tuples' = tuples
        /\ Upsert(rows, MemberRows({g}, {u})).error = "none"
    BY <1>4, <2>1, Zenon DEF Commit, After, AdminJoin
  <2>3. rows' \subseteq Row /\ Consistent(rows') /\ GroupIds(rows') = GroupIds(rows)
    BY <1>1, <2>2, UpsertEffect, Zenon
  <2> QED BY <2>2, <2>3, Zenon
<1>5. CASE AdminRename
  <2>1. PICK g \in Groups : Commit(RenameGroup(rows, g, NoName))
    BY <1>5, Zenon DEF AdminRename
  <2>2. /\ rows' = After(rows, RenameGroup(rows, g, NoName)) /\ tuples' = tuples
        /\ RenameGroup(rows, g, NoName).error = "none"
    BY <1>5, <2>1, Zenon DEF Commit, After, AdminRename
  <2>3. rows' \subseteq Row /\ Consistent(rows') /\ GroupIds(rows') = GroupIds(rows)
    BY <1>1, <2>2, RenameGroupEffect, NoNameIsAName, Zenon
  <2> QED BY <2>2, <2>3, Zenon
<1>6. CASE AdminDelete
  <2>1. PICK g \in Groups :
          Commit(DropGroup(rows, g)) /\ tuples' = {t \in tuples : t[1] # g}
    BY <1>6, Zenon DEF AdminDelete
  <2>2. rows' = After(rows, DropGroup(rows, g))
    BY <2>1, Zenon DEF Commit, After
  <2>3. rows' \subseteq Row /\ Consistent(rows') /\ GroupIds(rows') = GroupIds(rows) \ {g}
    BY <1>1, <2>2, DropGroupEffect, Zenon
  <2> QED BY <2>1, <2>3, Zenon
<1> QED BY <1>2, <1>3, <1>4, <1>5, <1>6, Zenon

\* An edit, or a change of the source, keeps the invariant.
LEMMA EnvironmentKeepsInv ==
  ASSUME Shape, ImportInv, History, Environment
  PROVE  Shape' /\ ImportInv' /\ edits' # edits
<1>1. /\ edits' = edits + 1 /\ edits \in Nat /\ imp' = imp
      /\ source \in Sources /\ source' \in Sources
  BY Zenon DEF Environment, Admin, SourceChanges, ImportInv
<1>2. /\ rows' \subseteq Row /\ Consistent(rows')
      /\ GroupIds(rows') \cap used \subseteq GroupIds(rows)
      /\ \A t \in tuples' : t \in tuples \/ t[1] \in GroupIds(rows)
      /\ \A t \in tuples' : t[1] \in GroupIds(rows) => t[1] \in GroupIds(rows')
  <2>1. CASE Admin
    BY <2>1, AdminWrote, Zenon DEF Admin
  <2>2. CASE SourceChanges
    BY <2>2, Zenon DEF SourceChanges, ImportInv, TablesConsistent
  <2> QED BY <2>1, <2>2, Zenon DEF Environment
<1>3. \A j \in Imports : HandInv(j)'
  BY <1>1, <1>2, OtherHand, Zenon
<1>4. ASSUME NEW t \in tuples'
      PROVE  t[1] \in GroupIds(rows') \/ \E j \in Imports : Explains(j, t)'
  <2>1. t[1] \in GroupIds(rows) \/ \E j \in Imports : Explains(j, t)
    BY <1>2, Zenon DEF ImportInv, StrayTupleExplained
  <2>2. ASSUME NEW j \in Imports, Explains(j, t) PROVE Explains(j, t)'
    BY <1>1, <2>2, Zenon DEF Explains
  <2> QED BY <1>2, <2>1, <2>2, Zenon
<1>5. StrayTupleExplained'
  BY <1>4, Zenon DEF StrayTupleExplained
<1>6. edits' \in Nat /\ source' \in Sources /\ TablesConsistent' /\ edits' # edits /\ Shape'
  BY <1>1, <1>2 DEF TablesConsistent, Shape
<1> QED BY <1>2, <1>3, <1>5, <1>6, HistoryKept, Zenon DEF ImportInv

\* The invariant holds when no import has started.
LEMMA InitialInv ==
  ASSUME Init
  PROVE  Shape /\ ImportInv
<1>1. rows \in InitialRows /\ rows \subseteq Row /\ Consistent(rows)
  BY ImportedRows, Zenon DEF Init
<1>2. Shape /\ \A i \in Imports : imp[i] = NotStarted
  BY Zenon DEF Init, Shape, NotStarted, Fields
<1>3. ~NotStarted.failures
  BY Zenon DEF NotStarted
<1>4. /\ NotStarted.pc = "fetch" /\ NotStarted.mode = "run" /\ NotStarted.data = {}
      /\ NotStarted.existing = {} /\ NotStarted.todo = {}
  BY Zenon DEF NotStarted
<1>5. \A i \in Imports : HandInv(i)
  <2> HIDE DEF NotStarted
  <2> QED BY <1>2, <1>3, <1>4, Zenon DEF HandInv
<1>6. \A t \in tuples : t[1] \in GroupIds(rows)
  <2> SUFFICES ASSUME NEW x \in rows PROVE x[2] \in GroupIds(rows)
    BY DEF Init, Grants
  <2> QED BY <1>1, Zenon DEF Consistent
<1>7. StrayTupleExplained
  BY <1>6, Zenon DEF StrayTupleExplained
<1>8. /\ used = GroupIds(rows) /\ ever = GroupIds(rows \cap GroupRows(Groups, Prefixed))
      /\ edits = 0 /\ source \in Sources
  BY Zenon DEF Init
<1>9. ever \subseteq used /\ used \subseteq Groups
  BY <1>8, Zenon DEF GroupIds, GroupRows
<1> QED BY <1>1, <1>2, <1>5, <1>7, <1>8, <1>9, Zenon DEF ImportInv, TablesConsistent

\* The inductive invariant of the imports holds always.
THEOREM ImportInvariant == Spec => [](Shape /\ ImportInv)
<1>1. Init => Shape /\ ImportInv
  BY InitialInv, Zenon
<1>2. Shape /\ ImportInv /\ [Next]_importVars => Shape' /\ ImportInv'
  <2> SUFFICES ASSUME Shape, ImportInv, [Next]_importVars PROVE Shape' /\ ImportInv'
    BY Zenon
  <2>1. CASE Next
    <3>1. History
      BY <2>1, Zenon DEF Next, History
    <3> QED BY <2>1, <3>1, ImportKeepsInv, EnvironmentKeepsInv, Zenon DEF Next
  <2>2. CASE UNCHANGED importVars
    <3>1. /\ rows' = rows /\ tuples' = tuples /\ source' = source /\ imp' = imp
          /\ edits' = edits /\ used' = used /\ ever' = ever
      BY <2>2, Zenon DEF importVars
    <3>2. Shape' /\ \A i \in Imports : HandInv(i)'
      BY <3>1, Zenon DEF Shape, ImportInv, HandInv
    <3>3. StrayTupleExplained'
      <4>1. \A i \in Imports, t \in tuples : Explains(i, t) => Explains(i, t)'
        BY <3>1, Zenon DEF Explains
      <4> QED BY <3>1, <4>1, Zenon DEF ImportInv, StrayTupleExplained
    <3> QED BY <3>1, <3>2, <3>3, Zenon DEF ImportInv, TablesConsistent
  <2> QED BY <2>1, <2>2, Zenon
<1> QED BY <1>1, <1>2, PTL DEF Spec

\* The foreign keys and the unique names of the groups survive any number of
\* overlapping imports, failures and edits (InsertGroup, Upsert, DropGroup).
THEOREM TablesStayConsistent == Spec => []TablesConsistent
<1>1. ImportInv => TablesConsistent
  BY Zenon DEF ImportInv
<1> QED BY <1>1, ImportInvariant, PTL

\* A tuple without its group has an explanation, for every number of imports
\* and every page size (importer.go, Sync).
THEOREM StrayTuplesExplained == Spec => []StrayTupleExplained
<1>1. ImportInv => StrayTupleExplained
  BY Zenon DEF ImportInv
<1> QED BY <1>1, ImportInvariant, PTL

\* No import writes to a group that has never had a name with the prefix of
\* the driver (importer.go, Sync).
THEOREM ImportsLeaveOthers == Spec => OthersUntouched
<1>1. Shape /\ ImportInv /\ [Next]_importVars =>
        [edits' = edits =>
           \A g \in used \ ever : rows \cap OfGroup(g) = rows' \cap OfGroup(g)]_importVars
  <2> SUFFICES ASSUME Shape, ImportInv, Next, edits' = edits, NEW g \in used \ ever
               PROVE  rows \cap OfGroup(g) = rows' \cap OfGroup(g)
    BY Zenon
  <2>1. History
    BY Zenon DEF Next, History
  <2>2. PICK i \in Imports : Import(i)
    BY <2>1, EnvironmentKeepsInv, Zenon DEF Next
  <2>3. StepOf(i)
    BY <2>1, <2>2, AnyStep, Zenon DEF Import
  <2>4. PICK h : h \notin used \ ever /\ Touches(rows, rows', h)
    BY <2>3, Zenon DEF StepOf
  <2> QED BY <2>4, Zenon DEF Touches
<1> QED BY <1>1, ImportInvariant, PTL DEF Spec, OthersUntouched

-----------------------------------------------------------------------------
(***************************************************************************)
(* Type correctness.                                                        *)
(***************************************************************************)

\* The records that the steps of an import make.
LEMMA PlacedTyped ==
  ASSUME NEW c \in Execution, NEW place \in Places
  PROVE  [c EXCEPT !.pc = place] \in Execution
BY Zenon DEF Execution

\* ... when the driver has answered.
LEMMA StartedTyped ==
  ASSUME NEW c \in Execution, NEW place \in Places, NEW mode \in {"run", "sync"},
         NEW authz \in {"openfga", "noop"}, NEW data \in SUBSET (Prefixed \X Users),
         NEW todo \in SUBSET Prefixed
  PROVE  [c EXCEPT !.pc = place, !.mode = mode, !.authz = authz, !.data = data, !.todo = todo]
           \in Execution
BY Zenon DEF Execution

\* ... when the groups are listed, and at the head of the loop over the stale ones.
LEMMA ListedTyped ==
  ASSUME NEW c \in Execution, NEW place \in Places,
         NEW existing \in SUBSET GroupRows(Groups, Prefixed), NEW todo \in SUBSET Prefixed
  PROVE  /\ [c EXCEPT !.pc = place, !.existing = existing] \in Execution
         /\ [c EXCEPT !.pc = place, !.todo = todo] \in Execution
BY Zenon DEF Execution

\* ... when a group is chosen or created.
LEMMA ChosenTyped ==
  ASSUME NEW c \in Execution, NEW place \in Places, NEW name \in Names, NEW group \in Groups
  PROVE  /\ [c EXCEPT !.pc = place, !.name = name, !.group = group] \in Execution
         /\ [c EXCEPT !.pc = place, !.name = name] \in Execution
         /\ [c EXCEPT !.pc = place, !.group = group] \in Execution
BY Zenon DEF Execution

\* ... when a page is read, and when it is deleted.
LEMMA PagedTyped ==
  ASSUME NEW c \in Execution, NEW place \in Places, NEW page \in SUBSET (Groups \X Apps),
         NEW more \in BOOLEAN
  PROVE  /\ [c EXCEPT !.pc = place, !.page = page, !.more = more] \in Execution
         /\ [c EXCEPT !.pc = place, !.page = page] \in Execution
BY Zenon DEF Execution

\* ... at the end of an iteration.
LEMMA FinishedTyped ==
  ASSUME NEW c \in Execution, NEW place \in Places, NEW todo \in SUBSET Prefixed,
         NEW name \in Names, NEW failures \in BOOLEAN
  PROVE  [c EXCEPT !.pc = place, !.todo = todo, !.name = name, !.group = NoGroup, !.page = {},
                   !.more = FALSE, !.failures = failures] \in Execution
BY Zenon DEF Execution

\* The next iteration begins in a state.
LEMMA ContinuedTyped ==
  ASSUME NEW i \in Imports, imp[i] \in Execution, NEW failed \in BOOLEAN
  PROVE  Continued(i, failed) \in Execution
<1>1. Loop(i) \in Places
  BY Zenon DEF Loop, Places
<1>2. imp[i].todo \ {imp[i].name} \in SUBSET Prefixed
  BY Zenon DEF Execution
<1>3. (imp[i].failures \/ (failed /\ imp[i].mode = "sync")) \in BOOLEAN
  BY Zenon
<1>4. NoName \in Names
  BY NoNameIsAName, Zenon
<1> QED BY <1>1, <1>2, <1>3, <1>4, FinishedTyped, Zenon DEF Continued

\* An import that has not started is in a state.
LEMMA NotStartedTyped == NotStarted \in Execution
BY NoNameIsAName, Zenon DEF NotStarted, Execution, Places

\* A statement of an import, and what follows it.
LEMMA ExecTyped ==
  ASSUME NEW i \in Imports, imp[i] \in Execution, NEW s, NEW next \in Execution, Exec(i, s, next)
  PROVE  \E new \in Execution : Becomes(i, new)
<1>1. Continued(i, TRUE) \in Execution
  BY ContinuedTyped, Zenon
<1>2. Becomes(i, next) \/ Becomes(i, Continued(i, TRUE))
  BY Zenon DEF Exec
<1> QED BY <1>1, <1>2, Zenon

\* The steps that read.
LEMMA ReadingTyped ==
  ASSUME TypeOK, NEW i \in Imports,
         Fetch(i) \/ FetchFails(i) \/ List(i) \/ GetGroupByName(i) \/ ExistingByName(i)
  PROVE  \E new \in Execution : Becomes(i, new)
<1>1. imp[i] \in Execution /\ source \in Sources
  BY Zenon DEF TypeOK
<1>2. {"list", "groups", "error", "add", "create", "sync"} \subseteq Places
  BY Zenon DEF Places
<1>3. imp[i].todo \subseteq Names /\ imp[i].todo \subseteq Prefixed
  BY <1>1, NamesOfGroups, Zenon DEF Execution
<1>4. CASE Fetch(i)
  <2> DEFINE data == FetchAllUserGroups(source)
             place(c) == IF c.mode = "sync" THEN "list" ELSE "groups"
             todo == {m[1] : m \in data}
  <2>1. PICK c \in Commands :
          Becomes(i, [imp[i] EXCEPT !.pc = place(c), !.mode = c.mode, !.authz = c.authz,
                                    !.data = data, !.todo = todo])
    BY <1>4, Zenon DEF Fetch
  <2>2. data \in SUBSET (Prefixed \X Users)
    BY <1>1, FetchTyped, Zenon
  <2>3. todo \in SUBSET Prefixed
    BY <2>2, Zenon
  <2>4. place(c) \in Places /\ c.mode \in {"run", "sync"} /\ c.authz \in {"openfga", "noop"}
    BY <1>2, CommandsExist, Zenon DEF Command
  <2> HIDE DEF data, place, todo
  <2> QED BY <1>1, <2>1, <2>2, <2>3, <2>4, StartedTyped, Zenon
<1>5. CASE FetchFails(i)
  BY <1>1, <1>2, <1>5, PlacedTyped, Zenon DEF FetchFails, Goes
<1>6. CASE List(i)
  <2>1. ListGroupsByPrefix(rows) \in SUBSET GroupRows(Groups, Prefixed) /\ {} \in SUBSET Prefixed
    BY Zenon DEF ListGroupsByPrefix
  <2>2. \/ Becomes(i, [imp[i] EXCEPT !.pc = "groups", !.existing = ListGroupsByPrefix(rows)])
        \/ Becomes(i, [imp[i] EXCEPT !.pc = "error"])
    BY <1>6, Zenon DEF List, Goes
  <2>3. [imp[i] EXCEPT !.pc = "groups", !.existing = ListGroupsByPrefix(rows)] \in Execution
    BY <1>1, <1>2, <2>1, ListedTyped, Zenon
  <2>4. [imp[i] EXCEPT !.pc = "error"] \in Execution
    BY <1>1, <1>2, PlacedTyped, Zenon
  <2> QED BY <2>2, <2>3, <2>4, Zenon
<1>7. CASE GetGroupByName(i) \/ ExistingByName(i)
  <2>1. PICK n \in imp[i].todo :
          \/ \E V : \E g \in GroupIds(V), place \in {"add", "sync"} :
               Becomes(i, [imp[i] EXCEPT !.pc = place, !.name = n, !.group = g])
          \/ Becomes(i, [imp[i] EXCEPT !.pc = "create", !.name = n])
    BY <1>7, Zenon DEF GetGroupByName, ExistingByName
  <2>2. n \in Names
    BY <1>3, Zenon
  <2>3. CASE Becomes(i, [imp[i] EXCEPT !.pc = "create", !.name = n])
    <3>1. "create" \in Places
      BY <1>2, Zenon
    <3>2. [imp[i] EXCEPT !.pc = "create", !.name = n] \in Execution
      BY <1>1, <2>2, <3>1, Zenon DEF Execution
    <3> QED BY <2>3, <3>2, Zenon
  <2>4. ASSUME NEW V, NEW g \in GroupIds(V), NEW place \in {"add", "sync"},
               Becomes(i, [imp[i] EXCEPT !.pc = place, !.name = n, !.group = g])
        PROVE  \E new \in Execution : Becomes(i, new)
    <3>1. g \in Groups /\ place \in Places
      BY <1>2, <2>4, Zenon DEF GroupIds, GroupRows
    <3>2. [imp[i] EXCEPT !.pc = place, !.name = n, !.group = g] \in Execution
      BY <1>1, <2>2, <3>1, ChosenTyped, Zenon
    <3> QED BY <2>4, <3>2, Zenon
  <2> QED BY <2>1, <2>3, <2>4, Zenon
<1> QED BY <1>4, <1>5, <1>6, <1>7, Zenon

\* The steps that write the tables.
LEMMA WritingTyped ==
  ASSUME TypeOK, NEW i \in Imports,
         \/ CreateGroup(i) \/ AddUsersToGroup(i) \/ SyncGroupMembers(i) \/ UpsertGroupMembers(i)
         \/ DeleteGroup(i)
  PROVE  \E new \in Execution : Becomes(i, new)
<1>1. imp[i] \in Execution /\ imp[i].name \in Names
  BY Zenon DEF TypeOK, Execution
<1>2. {"add", "upsert", "read"} \subseteq Places
  BY Zenon DEF Places
<1>3. CASE CreateGroup(i)
  <2>1. PICK g \in Groups \ used :
          Exec(i, InsertGroup(rows, g, imp[i].name), [imp[i] EXCEPT !.pc = "add", !.group = g])
    BY <1>3, Zenon DEF CreateGroup
  <2>2. [imp[i] EXCEPT !.pc = "add", !.group = g] \in Execution
    BY <1>1, <1>2, ChosenTyped, Zenon
  <2> QED BY <1>1, <2>1, <2>2, ExecTyped, Zenon
<1>4. CASE AddUsersToGroup(i) \/ UpsertGroupMembers(i)
  <2>1. Continued(i, FALSE) \in Execution
    BY <1>1, ContinuedTyped, Zenon
  <2> QED BY <1>1, <1>4, <2>1, ExecTyped, Zenon DEF AddUsersToGroup, UpsertGroupMembers
<1>5. CASE SyncGroupMembers(i) \/ DeleteGroup(i)
  <2>1. [imp[i] EXCEPT !.pc = "upsert"] \in Execution /\ [imp[i] EXCEPT !.pc = "read"] \in Execution
    BY <1>1, <1>2, PlacedTyped, Zenon
  <2> QED BY <1>1, <1>5, <2>1, ExecTyped, Zenon DEF SyncGroupMembers, DeleteGroup
<1> QED BY <1>3, <1>4, <1>5, Zenon

\* The other steps: the loops, the tuples, and the end.
LEMMA OtherTyped ==
  ASSUME TypeOK, NEW i \in Imports,
         \/ GroupsDone(i) \/ StaleGroup(i) \/ ReadTuples(i) \/ DeleteTuples(i) \/ SyncDone(i)
         \/ Kill(i)
  PROVE  \E new \in Execution : Becomes(i, new)
<1>1. imp[i] \in Execution /\ tuples \subseteq Groups \X Apps
  BY Zenon DEF TypeOK
<1>2. {"stale", "drop", "read", "delete", "ok", "error", "killed"} \subseteq Places
  BY Zenon DEF Places
<1>3. imp[i].existing \subseteq GroupRows(Groups, Prefixed)
  BY <1>1, Zenon DEF Execution
<1>4. Continued(i, TRUE) \in Execution /\ Continued(i, FALSE) \in Execution
  BY <1>1, ContinuedTyped, Zenon
<1>5. CASE GroupsDone(i)
  <2> DEFINE todo == {x[3] : x \in imp[i].existing} \ DataNames(i)
  <2>1. todo \in SUBSET Prefixed
    BY <1>3, Zenon DEF GroupRows
  <2>2. \/ Becomes(i, [imp[i] EXCEPT !.pc = "ok"])
        \/ Becomes(i, [imp[i] EXCEPT !.pc = "stale", !.todo = todo])
    BY <1>5, Zenon DEF GroupsDone, Goes
  <2>3. {} \in SUBSET GroupRows(Groups, Prefixed)
    BY Zenon
  <2> HIDE DEF todo
  <2>4. [imp[i] EXCEPT !.pc = "stale", !.todo = todo] \in Execution
    BY <1>1, <1>2, <2>1, <2>3, ListedTyped, Zenon
  <2>5. [imp[i] EXCEPT !.pc = "ok"] \in Execution
    BY <1>1, <1>2, PlacedTyped, Zenon
  <2> QED BY <2>2, <2>4, <2>5, ZenonT(30)
<1>6. CASE StaleGroup(i)
  <2>1. PICK x \in imp[i].existing :
          Becomes(i, [imp[i] EXCEPT !.pc = "drop", !.name = x[3], !.group = x[2]])
    BY <1>6, Zenon DEF StaleGroup
  <2>2. x[3] \in Names /\ x[2] \in Groups
    BY <1>3, NamesOfGroups, Zenon DEF GroupRows
  <2>3. [imp[i] EXCEPT !.pc = "drop", !.name = x[3], !.group = x[2]] \in Execution
    BY <1>1, <1>2, <2>2, ChosenTyped, Zenon
  <2> QED BY <2>1, <2>3, Zenon
<1>7. CASE ReadTuples(i)
  <2> DEFINE found == IF imp[i].authz = "noop" THEN {} ELSE {t \in tuples : t[1] = imp[i].group}
  <2>1. \/ Becomes(i, Continued(i, FALSE)) \/ Becomes(i, Continued(i, TRUE))
        \/ \E page \in SUBSET found :
             Becomes(i, [imp[i] EXCEPT !.pc = "delete", !.page = page, !.more = page # found])
    BY <1>7, Zenon DEF ReadTuples
  <2>2. found \subseteq Groups \X Apps
    BY <1>1, Zenon
  <2> HIDE DEF found
  <2>3. ASSUME NEW page \in SUBSET found
        PROVE  [imp[i] EXCEPT !.pc = "delete", !.page = page, !.more = page # found] \in Execution
    <3>1. page \in SUBSET (Groups \X Apps) /\ "delete" \in Places
      BY <1>2, <2>2, Zenon
    <3>2. (page # found) \in BOOLEAN
      BY Zenon
    <3> QED BY <1>1, <3>1, <3>2, PagedTyped, Zenon
  <2> QED BY <1>4, <2>1, <2>3, Zenon
<1>8. CASE DeleteTuples(i)
  <2>1. \/ Becomes(i, Continued(i, FALSE)) \/ Becomes(i, Continued(i, TRUE))
        \/ Becomes(i, [imp[i] EXCEPT !.pc = "read", !.page = {}])
    BY <1>8, Zenon DEF DeleteTuples
  <2>2. [imp[i] EXCEPT !.pc = "read", !.page = {}] \in Execution
    <3>1. {} \in SUBSET (Groups \X Apps) /\ FALSE \in BOOLEAN /\ "read" \in Places
      BY <1>2, Zenon
    <3> QED BY <1>1, <3>1, PagedTyped, Zenon
  <2> QED BY <1>4, <2>1, <2>2, Zenon
<1>9. CASE SyncDone(i)
  <2>1. [imp[i] EXCEPT !.pc = "ok"] \in Execution /\ [imp[i] EXCEPT !.pc = "error"] \in Execution
    BY <1>1, <1>2, PlacedTyped, Zenon
  <2> QED BY <1>9, <2>1, Zenon DEF SyncDone, Goes
<1>10. CASE Kill(i)
  <2>1. [NotStarted EXCEPT !.pc = "killed"] \in Execution
    BY <1>2, NotStartedTyped, PlacedTyped, Zenon
  <2> QED BY <1>10, <2>1, Zenon DEF Kill
<1> QED BY <1>5, <1>6, <1>7, <1>8, <1>9, <1>10, Zenon

\* A step of an import.
LEMMA ImportTyped ==
  ASSUME TypeOK, Shape, ImportInv, ImportInv', History, NEW i \in Imports, Import(i)
  PROVE  TypeOK'
<1>1. PICK new \in Execution : Becomes(i, new)
  BY ReadingTyped, WritingTyped, OtherTyped, Zenon DEF Import, Step
<1>2. imp' \in [Imports -> Execution]
  BY <1>1, Zenon DEF Becomes, TypeOK
<1>3. tuples' \subseteq tuples
  <2>1. StepOf(i)
    BY AnyStep, Zenon DEF Import
  <2> QED BY <2>1, Zenon DEF StepOf
<1>4. calm' \in [Imports -> BOOLEAN]
  BY Zenon DEF Import
<1>5. edits' = edits
  BY Zenon DEF Import
<1>6. rows' \subseteq Row /\ used' \subseteq Groups /\ ever' \subseteq used' /\ source' \in Sources
  BY Zenon DEF ImportInv
<1>7. tuples' \subseteq Groups \X Apps /\ edits' \in 0..MaxEdits
  BY <1>3, <1>5, Zenon DEF TypeOK
<1> QED BY <1>2, <1>4, <1>6, <1>7, Zenon DEF TypeOK

\* A step of an administrator, or of the source.
LEMMA EnvironmentTyped ==
  ASSUME TypeOK, ImportInv', Environment
  PROVE  TypeOK'
<1>1. imp' = imp /\ edits < MaxEdits /\ edits' = edits + 1
  BY Zenon DEF Environment
<1>2. edits' \in 0..MaxEdits
  BY <1>1, ImportBounds DEF TypeOK
<1>3. imp' \in [Imports -> Execution]
  BY <1>1, Zenon DEF TypeOK
<1>4. calm' \in [Imports -> BOOLEAN]
  <2>1. calm \in [Imports -> BOOLEAN]
    BY Zenon DEF TypeOK
  <2> QED BY <2>1, Zenon DEF Environment, Admin
<1>5. tuples' \subseteq Groups \X Apps
  <2>1. tuples \subseteq Groups \X Apps
    BY Zenon DEF TypeOK
  <2>2. CASE AdminGrant
    <3>1. PICK g \in Groups, a \in Apps : tuples' = tuples \cup {<<g, a>>}
      BY <2>2, Zenon DEF AdminGrant
    <3> QED BY <2>1, <3>1
  <2>3. CASE AdminDelete
    <3>1. PICK g : tuples' = {t \in tuples : t[1] # g}
      BY <2>3, Zenon DEF AdminDelete
    <3> QED BY <2>1, <3>1, Zenon
  <2>4. CASE ~AdminGrant /\ ~AdminDelete
    <3>1. tuples' = tuples
      BY <2>4, Zenon DEF Environment, Admin, AdminCreate, AdminJoin, AdminRename, SourceChanges
    <3> QED BY <2>1, <3>1, Zenon
  <2> QED BY <2>2, <2>3, <2>4, Zenon
<1>6. rows' \subseteq Row /\ used' \subseteq Groups /\ ever' \subseteq used' /\ source' \in Sources
  BY Zenon DEF ImportInv
<1> QED BY <1>2, <1>3, <1>4, <1>5, <1>6, Zenon DEF TypeOK

\* The types hold when no import has started.
LEMMA InitialTypes ==
  ASSUME Init, ImportInv
  PROVE  TypeOK
<1>1. rows \subseteq Row /\ used \subseteq Groups /\ ever \subseteq used /\ source \in Sources
  BY Zenon DEF ImportInv
<1>2. tuples \subseteq Groups \X Apps
  BY DEF Init, Grants, GrantRows
<1>3. edits \in 0..MaxEdits
  BY ImportBounds DEF Init
<1>4. imp \in [Imports -> Execution]
  BY NotStartedTyped, Zenon DEF Init
<1>5. calm \in [Imports -> BOOLEAN]
  BY Zenon DEF Init
<1> QED BY <1>1, <1>2, <1>3, <1>4, <1>5, Zenon DEF TypeOK

\* Every variable of the imports has its type, whatever the source holds, the
\* administrators do and fails (importer.go, Run and Sync).
THEOREM ImportTypes == Spec => []TypeOK
<1>1. Init /\ ImportInv => TypeOK
  BY InitialTypes, Zenon
<1>2. TypeOK /\ Shape /\ ImportInv /\ ImportInv' /\ [Next]_importVars => TypeOK'
  <2> SUFFICES ASSUME TypeOK, Shape, ImportInv, ImportInv', [Next]_importVars PROVE TypeOK'
    BY Zenon
  <2>1. CASE Next
    <3>1. History
      BY <2>1, Zenon DEF Next, History
    <3> QED BY <2>1, <3>1, ImportTyped, EnvironmentTyped, Zenon DEF Next
  <2>2. CASE UNCHANGED importVars
    <3>1. /\ rows' = rows /\ tuples' = tuples /\ source' = source /\ imp' = imp
          /\ edits' = edits /\ calm' = calm /\ used' = used /\ ever' = ever
      BY <2>2, Zenon DEF importVars
    <3> QED BY <3>1, Zenon DEF TypeOK
  <2> QED BY <2>1, <2>2, Zenon
<1> QED BY <1>1, <1>2, ImportInvariant, PTL DEF Spec

-----------------------------------------------------------------------------
(***************************************************************************)
(* Sync reconciles. A Sync beside which no one writes, and which meets no    *)
(* failure, makes progress with every step.                                  *)
(***************************************************************************)
Kept(i) ==
  /\ imp'[i].mode = imp[i].mode /\ imp'[i].authz = imp[i].authz
  /\ imp'[i].data = imp[i].data /\ imp'[i].existing = imp[i].existing

\* A Sync that is alone after a step was so before it.
LEMMA AloneBefore ==
  ASSUME NEW i \in Imports, SyncInv(i), Alone(i)', calm'[i] => calm[i],
         imp'[i].mode = imp[i].mode, imp'[i].failures = imp[i].failures
  PROVE  Progress(i)
BY Zenon DEF SyncInv, Alone

\* ... and it has met no failure in the iteration that it ends.
LEMMA AloneContinues ==
  ASSUME Shape, NEW i \in Imports, SyncInv(i), Alone(i)', calm'[i] => calm[i],
         NEW failed \in BOOLEAN, Becomes(i, Continued(i, failed))
  PROVE  Progress(i) /\ ~failed
<1>1. DOMAIN Continued(i, failed) = Fields
  BY ContinuedFields, Zenon
<1>2. imp'[i] = Continued(i, failed)
  BY <1>1, NowFromBecomes, Zenon DEF Now
<1>3. imp'[i].mode = imp[i].mode
  BY <1>2, ContinuedFields, ZenonT(30)
<1>4. imp'[i].failures = (imp[i].failures \/ (failed /\ imp[i].mode = "sync"))
  BY <1>2, ContinuedFields, ZenonT(60)
<1>5. imp'[i].mode = "sync" /\ ~imp'[i].failures
  BY Zenon DEF Alone
<1>6. ~imp[i].failures /\ ~failed
  BY <1>3, <1>4, <1>5, Zenon
<1>7. Alone(i)
  BY <1>3, <1>5, <1>6, Zenon DEF Alone
<1> QED BY <1>6, <1>7, Zenon DEF SyncInv

\* A statement of such a Sync has succeeded.
LEMMA AloneExec ==
  ASSUME Shape, NEW i \in Imports, SyncInv(i), Alone(i)', calm'[i] => calm[i],
         NEW st, NEW next, Exec(i, st, next)
  PROVE  /\ st.error = "none" /\ rows' = After(rows, st) /\ tuples' = tuples
         /\ Becomes(i, next)
<1>1. ~Becomes(i, Continued(i, TRUE))
  BY AloneContinues, Zenon
<1> QED BY <1>1, Zenon DEF Exec, After

\* The rows of groups with the prefix.
LEMMA PrefixRow ==
  ASSUME NEW x \in GroupRows(Groups, Prefixed)
  PROVE  /\ x = <<"group", x[2], x[3]>> /\ x[2] \in Groups /\ x[3] \in Prefixed
         /\ x \in GroupRows(Groups, Names) /\ x \in OfGroup(x[2])
         /\ \A u \in Users : <<"member", x[2], u>> \in OfGroup(x[2])
<1>1. PICK g \in Groups, n \in Prefixed : x = <<"group", g, n>>
  BY DEF GroupRows
<1>2. x \in GroupRows(Groups, Names)
  BY <1>1, NamesOfGroups, Zenon DEF GroupRows
<1>3. \A u \in Users : <<"member", g, u>> \in Row
  BY Zenon DEF Row, MemberRows
<1> QED BY <1>1, <1>2, <1>3, GroupRowIs, Zenon DEF OfGroup

\* A group that has a row is the only one with its id, and with its name.
LEMMA OnlyRow ==
  ASSUME ImportInv, NEW g, NEW n, <<"group", g, n>> \in ListGroupsByPrefix(rows),
         NEW x \in ListGroupsByPrefix(rows), x[2] = g \/ x[3] = n
  PROVE  x = <<"group", g, n>> /\ x[2] = g /\ x[3] = n
<1> DEFINE y == <<"group", g, n>>
<1>1. /\ x \in GroupRows(Groups, Prefixed) /\ y \in GroupRows(Groups, Prefixed)
      /\ x \in rows /\ y \in rows /\ y[2] = g /\ y[3] = n
  BY Zenon DEF ListGroupsByPrefix
<1>2. x[2] = y[2] <=> x[3] = y[3]
  BY <1>1, PrefixRow, Zenon DEF ImportInv, TablesConsistent, Consistent
<1> QED BY <1>1, <1>2, PrefixRow, Zenon

\* The groups that a step does not touch keep their rows.
LEMMA Elsewhere ==
  ASSUME NEW i \in Imports, Kept(i), NEW g, Touches(rows, rows', g),
         NEW x \in GroupRows(Groups, Prefixed), x[2] # g
  PROVE  /\ x \in rows' <=> x \in rows
         /\ MembersMatch(i, x)' <=> MembersMatch(i, x)
<1>1. rows' \cap OfGroup(x[2]) = rows \cap OfGroup(x[2])
  BY Zenon DEF Touches
<1>2. x \in OfGroup(x[2]) /\ \A u \in Users : <<"member", x[2], u>> \in OfGroup(x[2])
  BY PrefixRow, Zenon
<1>3. x \in rows' <=> x \in rows
  BY <1>1, <1>2, Zenon
<1>4. \A u \in Users : <<"member", x[2], u>> \in rows' <=> <<"member", x[2], u>> \in rows
  BY <1>1, <1>2, Zenon
<1>5. imp'[i].data = imp[i].data
  BY Zenon DEF Kept
<1> QED BY <1>3, <1>4, <1>5, Zenon DEF MembersMatch

\* The names that are done stay done when the step touches only a group that
\* is not, or gives it the members of the driver.
LEMMA FilledStays ==
  ASSUME NEW i \in Imports, Kept(i), FilledInv(i), NEW g, Touches(rows, rows', g),
         \A x \in ListGroupsByPrefix(rows) : x[2] = g => x[3] \notin Filled(i),
         \A n \in Filled(i)' : n \in Filled(i) \/ \E x \in ListGroupsByPrefix(rows') : x[3] = n,
         \A x \in ListGroupsByPrefix(rows') : x[3] \in Filled(i)' =>
           (x[2] # g /\ x[3] \in Filled(i)) \/ MembersMatch(i, x)'
  PROVE  FilledInv(i)'
<1>1. ASSUME NEW n \in Filled(i)' PROVE \E x \in ListGroupsByPrefix(rows') : x[3] = n
  <2>1. CASE n \in Filled(i)
    <3>1. PICK x \in ListGroupsByPrefix(rows) : x[3] = n
      BY <2>1, Zenon DEF FilledInv
    <3>2. x[2] # g
      BY <2>1, <3>1, Zenon
    <3>3. x \in ListGroupsByPrefix(rows')
      BY <3>1, <3>2, Elsewhere, Zenon DEF ListGroupsByPrefix
    <3> QED BY <3>1, <3>3, Zenon
  <2>2. CASE n \notin Filled(i)
    BY <2>2, Zenon
  <2> QED BY <2>1, <2>2, Zenon
<1>2. ASSUME NEW x \in ListGroupsByPrefix(rows'), x[3] \in Filled(i)' PROVE MembersMatch(i, x)'
  <2>1. CASE x[2] # g /\ x[3] \in Filled(i)
    <3>1. x \in ListGroupsByPrefix(rows) /\ x \in GroupRows(Groups, Prefixed)
      BY <2>1, Elsewhere, Zenon DEF ListGroupsByPrefix
    <3>2. MembersMatch(i, x)
      BY <2>1, <3>1, Zenon DEF FilledInv
    <3> QED BY <2>1, <3>1, <3>2, Elsewhere, Zenon
  <2> QED BY <1>2, <2>1, Zenon
<1> QED BY <1>1, <1>2, Zenon DEF FilledInv

\* The driver has answered.
LEMMA FetchProgress ==
  ASSUME Shape, NEW i \in Imports, Alone(i)', Fetch(i)
  PROVE  Progress(i)'
<1> DEFINE data == FetchAllUserGroups(source)
           new(c) == [imp[i] EXCEPT !.pc = IF c.mode = "sync" THEN "list" ELSE "groups",
                        !.mode = c.mode, !.authz = c.authz, !.data = data,
                        !.todo = {m[1] : m \in data}]
<1>1. PICK c \in Commands : Becomes(i, new(c))
  BY Zenon DEF Fetch
<1>2. DOMAIN imp[i] = Fields /\ DOMAIN new(c) = Fields
  BY Zenon DEF Shape
<1>3. Now(i, new(c))
  BY <1>1, <1>2, NowFromBecomes, Zenon
<1>4. /\ imp'[i].mode = c.mode /\ imp'[i].data = data /\ imp'[i].todo = {m[1] : m \in data}
      /\ c.mode = "sync" => imp'[i].pc = "list"
  BY <1>2, <1>3, Zenon DEF Now, Fields
<1>5. imp'[i].mode = "sync"
  BY Zenon DEF Alone
<1> HIDE DEF data, new
<1> QED BY <1>4, <1>5, Zenon DEF Progress, Filling, Emptying, DataNames

\* An import that ends.
LEMMA EndProgress ==
  ASSUME Shape, NEW i \in Imports, NEW new, DOMAIN new = Fields, Becomes(i, new),
         new.pc \in {"ok", "error", "killed"}
  PROVE  Progress(i)'
<1>1. imp'[i].pc \in {"ok", "error", "killed"}
  BY NowFromBecomes, Zenon DEF Now
<1> QED BY <1>1, Zenon DEF Progress, Filling, Emptying

\* The names that are done when the import stays in the loop over the groups of
\* the driver, and when it leaves it.
LEMMA FilledIs ==
  ASSUME NEW i \in Imports, Kept(i), imp[i].pc \in Filling, imp'[i].pc \in Filling
  PROVE  /\ DataNames(i)' = DataNames(i)
         /\ Filled(i) = DataNames(i) \ imp[i].todo
         /\ Filled(i)' = DataNames(i) \ imp'[i].todo
BY Zenon DEF Kept, DataNames, Filled

\* Sync has read the groups of the driver.
LEMMA ListProgress ==
  ASSUME Shape, ImportInv, NEW i \in Imports, SyncInv(i), Alone(i)', calm'[i] => calm[i], List(i)
  PROVE  Progress(i)'
<1> DEFINE new == [imp[i] EXCEPT !.pc = "groups", !.existing = ListGroupsByPrefix(rows)]
<1>1. imp[i].pc = "list" /\ rows' = rows /\ DOMAIN imp[i] = Fields
  BY Zenon DEF List, At, Shape
<1>2. CASE Goes(i, "error")
  <2>1. /\ DOMAIN [imp[i] EXCEPT !.pc = "error"] = Fields
        /\ [imp[i] EXCEPT !.pc = "error"].pc = "error"
    BY <1>1, Zenon DEF Fields
  <2> QED BY <1>2, <2>1, EndProgress, Zenon DEF Goes
<1>3. CASE Becomes(i, new)
  <2>1. DOMAIN new = Fields
    BY <1>1, Zenon
  <2>2. imp'[i] = new
    BY <1>3, <2>1, NowFromBecomes, Zenon DEF Now
  <2>3. /\ imp'[i].pc = "groups" /\ imp'[i].existing = ListGroupsByPrefix(rows)
        /\ imp'[i].mode = imp[i].mode /\ imp'[i].data = imp[i].data
        /\ imp'[i].todo = imp[i].todo /\ imp'[i].failures = imp[i].failures
    BY <1>1, <2>2 DEF Fields
  <2> HIDE DEF new
  <2>4. Progress(i)
    BY <2>3, AloneBefore, Zenon
  <2>5. imp'[i].todo = DataNames(i)' /\ Filled(i)' = {}
    BY <1>1, <2>3, <2>4, Zenon DEF Progress, DataNames, Filled, Filling
  <2>6. \A x, y \in imp'[i].existing : x[2] = y[2] <=> x[3] = y[3]
    BY <2>3, PrefixRow DEF ListGroupsByPrefix, ImportInv, TablesConsistent, Consistent
  <2>7. FilledInv(i)'
    BY <2>5, Zenon DEF FilledInv
  <2>8. FillingInv(i)'
    BY <1>1, <2>3, <2>5, Zenon DEF FillingInv, ListGroupsByPrefix
  <2> QED BY <2>3, <2>6, <2>7, <2>8, Zenon DEF Progress, Emptying
<1> QED BY <1>2, <1>3, Zenon DEF List

\* A step within the loop that writes nothing leaves done what is done.
LEMMA QuietFilled ==
  ASSUME NEW i \in Imports, Kept(i), FilledInv(i), rows' = rows, Filled(i)' = Filled(i)
  PROVE  FilledInv(i)'
<1>1. \A x : MembersMatch(i, x)' <=> MembersMatch(i, x)
  BY Zenon DEF MembersMatch, Kept
<1> QED BY <1>1, Zenon DEF FilledInv

\* Sync turns to a group of the driver.
LEMMA LookupProgress ==
  ASSUME Shape, ImportInv, NEW i \in Imports, SyncInv(i), Alone(i)', calm'[i] => calm[i],
         ExistingByName(i)
  PROVE  Progress(i)'
<1> DEFINE turn(n, g) == [imp[i] EXCEPT !.pc = "sync", !.name = n, !.group = g]
           create(n) == [imp[i] EXCEPT !.pc = "create", !.name = n]
<1>1. imp[i].pc = "groups" /\ rows' = rows /\ DOMAIN imp[i] = Fields /\ HandInv(i)
  BY ZenonT(30) DEF ExistingByName, At, Shape, ImportInv
<1>2. PICK n \in imp[i].todo :
        \/ \E g \in GroupIds(imp[i].existing \cap GroupRows(Groups, {n})) : Becomes(i, turn(n, g))
        \/ Becomes(i, create(n))
  BY ZenonT(30) DEF ExistingByName
<1>3. ASSUME NEW new, DOMAIN new = Fields, Becomes(i, new), new.pc \in {"sync", "create"},
             new.mode = imp[i].mode, new.authz = imp[i].authz, new.data = imp[i].data,
             new.failures = imp[i].failures, new.todo = imp[i].todo,
             new.existing = imp[i].existing, new.name = n,
             new.pc = "sync" => <<"group", new.group, n>> \in imp[i].existing
      PROVE  Progress(i)'
  <2>1. imp'[i] = new
    BY <1>3, NowFromBecomes, Zenon DEF Now
  <2>2. /\ Kept(i) /\ imp'[i].pc \in {"sync", "create"} /\ imp'[i].todo = imp[i].todo
        /\ imp'[i].name = n /\ imp'[i].failures = imp[i].failures
        /\ imp'[i].pc = "sync" => InHand(i)' \in imp[i].existing
    BY <1>3, <2>1, Zenon DEF Kept, InHand
  <2>3. Progress(i)
    BY <2>2, AloneBefore, Zenon DEF Kept
  <2>4. /\ FilledInv(i) /\ FillingInv(i)
        /\ \A x, y \in imp[i].existing : x[2] = y[2] <=> x[3] = y[3]
    BY <1>1, <2>3, Zenon DEF Progress, Filling
  <2>5. Filled(i)' = Filled(i) /\ DataNames(i)' = DataNames(i)
    BY <1>1, <2>2, FilledIs, ZenonT(30) DEF Filling
  <2>6. FilledInv(i)'
    BY <1>1, <2>2, <2>4, <2>5, QuietFilled, Zenon
  <2>7. FillingInv(i)'
    BY <1>1, <2>2, <2>4, <2>5, ZenonT(30) DEF FillingInv, Kept
  <2> QED BY <2>2, <2>4, <2>6, <2>7 DEF Progress, Emptying, Kept
<1>4. ASSUME NEW g \in GroupIds(imp[i].existing \cap GroupRows(Groups, {n})),
             Becomes(i, turn(n, g))
      PROVE  Progress(i)'
  <2>1. /\ DOMAIN turn(n, g) = Fields /\ turn(n, g).pc = "sync" /\ turn(n, g).name = n
        /\ turn(n, g).mode = imp[i].mode /\ turn(n, g).authz = imp[i].authz
        /\ turn(n, g).data = imp[i].data /\ turn(n, g).failures = imp[i].failures
        /\ turn(n, g).todo = imp[i].todo /\ turn(n, g).existing = imp[i].existing
        /\ turn(n, g).group = g
    BY <1>1, Zenon DEF Fields
  <2>2. <<"group", g, n>> \in imp[i].existing
    <3>1. PICK x \in imp[i].existing \cap GroupRows(Groups, {n}) : x[2] = g
      BY GroupIdsOf, Zenon
    <3> QED BY <3>1 DEF GroupRows
  <2> HIDE DEF turn
  <2> QED BY <1>3, <1>4, <2>1, <2>2, Zenon
<1>5. ASSUME Becomes(i, create(n)) PROVE Progress(i)'
  <2>1. /\ DOMAIN create(n) = Fields /\ create(n).pc = "create" /\ create(n).name = n
        /\ create(n).mode = imp[i].mode /\ create(n).authz = imp[i].authz
        /\ create(n).data = imp[i].data /\ create(n).failures = imp[i].failures
        /\ create(n).todo = imp[i].todo /\ create(n).existing = imp[i].existing
    BY <1>1, Zenon DEF Fields
  <2> HIDE DEF create
  <2> QED BY <1>3, <1>5, <2>1, Zenon
<1> QED BY <1>2, <1>4, <1>5, ZenonT(30)

\* Sync has created the group of a name.
LEMMA CreateProgress ==
  ASSUME Shape, ImportInv, NEW i \in Imports, SyncInv(i), Alone(i)', calm'[i] => calm[i],
         CreateGroup(i)
  PROVE  Progress(i)'
<1> DEFINE turn(g) == [imp[i] EXCEPT !.pc = "add", !.group = g]
           n == imp[i].name
<1>1. PICK g \in Groups \ used : Exec(i, InsertGroup(rows, g, n), turn(g))
  BY Zenon DEF CreateGroup
<1>2. imp[i].pc = "create" /\ DOMAIN imp[i] = Fields /\ HandInv(i)
  BY Zenon DEF CreateGroup, At, Shape, ImportInv
<1>3. /\ InsertGroup(rows, g, n).error = "none"
      /\ rows' = After(rows, InsertGroup(rows, g, n)) /\ Becomes(i, turn(g))
  BY <1>1, AloneExec, Zenon
<1>4. DOMAIN turn(g) = Fields
  BY <1>2, Zenon
<1>5. imp'[i] = turn(g)
  BY <1>3, <1>4, NowFromBecomes, ZenonT(30) DEF Now
<1>6. /\ Kept(i) /\ imp'[i].pc = "add" /\ imp'[i].group = g /\ imp'[i].name = n
      /\ imp'[i].todo = imp[i].todo /\ imp'[i].failures = imp[i].failures
  BY <1>2, <1>5 DEF Kept, Fields
<1> HIDE DEF turn
<1>7. Progress(i)
  BY <1>6, AloneBefore, Zenon DEF Kept
<1>8. /\ FilledInv(i) /\ FillingInv(i)
      /\ \A x, y \in imp[i].existing : x[2] = y[2] <=> x[3] = y[3]
  BY <1>2, <1>7, Zenon DEF Progress, Filling
<1>9. /\ Filled(i)' = Filled(i) /\ DataNames(i)' = DataNames(i)
      /\ Filled(i) = DataNames(i) \ imp[i].todo /\ n \in imp[i].todo
  BY <1>2, <1>6, <1>8, FilledIs, ZenonT(30) DEF Filling, FillingInv
<1>10. n \in Prefixed /\ n \in Names /\ g \notin GroupIds(rows) /\ Consistent(rows)
  BY <1>2, NamesOfGroups, ZenonT(30) DEF HandInv, ImportInv, TablesConsistent
<1> HIDE DEF n
<1>11. Touches(rows, rows', g)
  BY <1>3, <1>10, InsertGroupEffect, ZenonT(30)
<1>12. rows' = rows \cup {<<"group", g, n>>} /\ <<"group", g, n>> \in GroupRows(Groups, Prefixed)
  BY <1>3, <1>10 DEF After, InsertGroup, GroupRows
<1>13. \A x \in rows : x[2] # g
  BY <1>10, Zenon DEF Consistent
<1>14. ASSUME NEW x \in ListGroupsByPrefix(rows')
       PROVE  x \in ListGroupsByPrefix(rows) \/ x[3] = n
  BY <1>12 DEF ListGroupsByPrefix
<1>15. FilledInv(i)'
  <2>1. \A x \in ListGroupsByPrefix(rows) : x[2] # g
    BY <1>13, Zenon DEF ListGroupsByPrefix
  <2>2. \A x \in ListGroupsByPrefix(rows') : x[3] \in Filled(i)' => x[2] # g /\ x[3] \in Filled(i)
    BY <1>9, <1>14, <2>1, ZenonT(30)
  <2> QED BY <1>6, <1>8, <1>9, <1>11, <2>1, <2>2, FilledStays
<1>16. \A u \in Users : <<"member", g, u>> \notin rows'
  BY <1>12, <1>13, Zenon
<1>17. FillingInv(i)'
  <2>1. InHand(i)' \in rows'
    BY <1>6, <1>12, ZenonT(30) DEF InHand
  <2>2. imp'[i].existing = imp[i].existing /\ imp'[i].existing \subseteq rows'
    BY <1>6, <1>8, <1>12, Zenon DEF Kept, FillingInv
  <2>3. \A x \in ListGroupsByPrefix(rows') \ imp'[i].existing : x[3] \in Filled(i)' \/ x[3] = n
    BY <1>2, <1>8, <1>9, <1>14, <2>2, ZenonT(30) DEF FillingInv
  <2> QED BY <1>6, <1>8, <1>9, <1>16, <2>1, <2>2, <2>3, ZenonT(30) DEF FillingInv
<1> QED BY <1>6, <1>8, <1>15, <1>17 DEF Progress, Emptying, Kept

\* The users of a name, in the answer of the driver.
LEMMA UsersOfName ==
  ASSUME NEW i \in Imports, HandInv(i), NEW u
  PROVE  u \in UsersOf(i) <=> <<imp[i].name, u>> \in imp[i].data
<1>1. imp[i].data \subseteq Prefixed \X Users
  BY Zenon DEF HandInv
<1>2. ASSUME u \in UsersOf(i) PROVE <<imp[i].name, u>> \in imp[i].data
  <2>1. PICK m \in imp[i].data : m[1] = imp[i].name /\ m[2] = u
    BY <1>2, Zenon DEF UsersOf
  <2> QED BY <1>1, <2>1
<1>3. ASSUME <<imp[i].name, u>> \in imp[i].data PROVE u \in UsersOf(i)
  BY <1>3 DEF UsersOf
<1> QED BY <1>2, <1>3, Zenon

\* The group in hand is among the rows with the prefix.
LEMMA HandRow ==
  ASSUME ImportInv, NEW i \in Imports, imp[i].name \in Prefixed, InHand(i) \in rows
  PROVE  /\ InHand(i) \in ListGroupsByPrefix(rows) /\ imp[i].group \in Groups
         /\ \A x \in ListGroupsByPrefix(rows) :
              x[2] = imp[i].group \/ x[3] = imp[i].name =>
                x = InHand(i) /\ x[2] = imp[i].group /\ x[3] = imp[i].name
<1> DEFINE g == imp[i].group
           n == imp[i].name
<1>1. InHand(i) = <<"group", g, n>> /\ InHand(i) \in Row
  BY Zenon DEF InHand, ImportInv
<1> HIDE DEF g, n
<1>2. g \in Groups
  BY <1>1 DEF Row, GroupRows, MemberRows, GrantRows
<1>3. <<"group", g, n>> \in ListGroupsByPrefix(rows)
  BY <1>1, <1>2, Zenon DEF ListGroupsByPrefix, GroupRows, n
<1>4. ASSUME NEW x \in ListGroupsByPrefix(rows), x[2] = g \/ x[3] = n
      PROVE  x = <<"group", g, n>> /\ x[2] = g /\ x[3] = n
  BY <1>3, <1>4, OnlyRow, Zenon
<1> QED BY <1>1, <1>2, <1>3, <1>4, Zenon DEF g, n

\* Sync has removed the members that the driver did not return.
LEMMA MembersProgress ==
  ASSUME Shape, ImportInv, NEW i \in Imports, SyncInv(i), Alone(i)', calm'[i] => calm[i],
         SyncGroupMembers(i)
  PROVE  Progress(i)'
<1> DEFINE new == [imp[i] EXCEPT !.pc = "upsert"]
           g == imp[i].group
           n == imp[i].name
           left == MemberRows({g}, Users \ UsersOf(i))
<1>1. imp[i].pc = "sync" /\ DOMAIN imp[i] = Fields /\ HandInv(i) /\ Consistent(rows)
  BY Zenon DEF SyncGroupMembers, At, Shape, ImportInv, TablesConsistent
<1>2. rows' = After(rows, Delete(rows, left)) /\ Becomes(i, new)
  BY AloneExec, Zenon DEF SyncGroupMembers
<1>3. DOMAIN new = Fields
  BY <1>1, Zenon
<1>4. imp'[i] = new
  BY <1>2, <1>3, NowFromBecomes, Zenon DEF Now
<1>5. /\ Kept(i) /\ imp'[i].pc = "upsert" /\ imp'[i].group = g /\ imp'[i].name = n
      /\ imp'[i].todo = imp[i].todo /\ imp'[i].failures = imp[i].failures
  BY <1>1, <1>4 DEF Kept, Fields
<1> HIDE DEF new
<1>6. Progress(i)
  BY <1>5, AloneBefore, ZenonT(30) DEF Kept
<1>7. /\ FilledInv(i) /\ FillingInv(i)
      /\ \A x, y \in imp[i].existing : x[2] = y[2] <=> x[3] = y[3]
  BY <1>1, <1>6, Zenon DEF Progress, Filling
<1>8. /\ Filled(i)' = Filled(i) /\ DataNames(i)' = DataNames(i)
      /\ Filled(i) = DataNames(i) \ imp[i].todo /\ n \in imp[i].todo
  BY <1>1, <1>5, <1>7, FilledIs, ZenonT(30) DEF Filling, FillingInv
<1>9. n \in Prefixed /\ InHand(i) \in rows
  BY <1>1, <1>7, <1>8, Zenon DEF HandInv, FillingInv
<1>10. /\ g \in Groups
       /\ \A x \in ListGroupsByPrefix(rows) : x[2] = g => x[3] = n
  BY <1>9, HandRow, ZenonT(30)
<1>11. Touches(rows, rows', g)
  BY <1>1, <1>2, DeleteMembersEffect, ZenonT(30)
<1>12. rows' = rows \ left
  BY <1>2, ZenonT(30) DEF After, Delete
<1>13. \A m : <<"group", g, m>> \notin left
  BY Zenon DEF MemberRows
<1>14. left \cap GroupRows(Groups, Prefixed) = {}
  BY Zenon DEF MemberRows, GroupRows
<1>15. \A u \in Users : <<"member", g, u>> \in rows' => <<n, u>> \in imp[i].data
  <2> SUFFICES ASSUME NEW u \in Users, <<"member", g, u>> \in rows'
               PROVE  <<n, u>> \in imp[i].data
    BY Zenon
  <2>1. <<"member", g, u>> \notin left
    BY <1>12, Zenon
  <2>2. u \in UsersOf(i)
    BY <2>1, Zenon DEF MemberRows
  <2> QED BY <1>1, <2>2, UsersOfName, Zenon
<1> HIDE DEF g, n, left
<1>16. ListGroupsByPrefix(rows') = ListGroupsByPrefix(rows)
  BY <1>12, <1>14, Zenon DEF ListGroupsByPrefix
<1>17. FilledInv(i)'
  <2>1. \A x \in ListGroupsByPrefix(rows) : x[2] = g => x[3] \notin Filled(i)
    BY <1>8, <1>10, Zenon
  <2>2. \A x \in ListGroupsByPrefix(rows') : x[3] \in Filled(i)' => x[2] # g /\ x[3] \in Filled(i)
    BY <1>8, <1>16, <2>1, ZenonT(30)
  <2> QED BY <1>5, <1>7, <1>8, <1>11, <2>1, <2>2, FilledStays
<1>18. FillingInv(i)'
  <2>1. InHand(i)' = InHand(i) /\ InHand(i)' \in rows'
    BY <1>5, <1>9, <1>12, <1>13, Zenon DEF InHand, g, n
  <2>2. imp'[i].existing = imp[i].existing
    BY <1>5, Zenon DEF Kept
  <2>3. imp'[i].existing \subseteq rows'
    <3>1. imp[i].existing \subseteq GroupRows(Groups, Prefixed)
      BY <1>1, ZenonT(30) DEF HandInv, ImportInv, GroupRows
    <3> QED BY <1>7, <1>12, <1>14, <2>2, <3>1, ZenonT(30) DEF FillingInv
  <2>4. \A x \in ListGroupsByPrefix(rows') \ imp'[i].existing : x[3] \in Filled(i)'
    BY <1>1, <1>7, <1>8, <1>16, <2>2, Zenon DEF FillingInv
  <2>5. imp'[i].data = imp[i].data
    BY <1>5, Zenon DEF Kept
  <2> QED BY <1>5, <1>7, <1>8, <1>15, <2>1, <2>3, <2>4, <2>5, ZenonT(30) DEF FillingInv
<1> QED BY <1>5, <1>7, <1>17, <1>18 DEF Progress, Emptying, Kept

\* Sync has written the members of a group, the last thing it does for a name.
LEMMA UpsertProgress ==
  ASSUME Shape, ImportInv, NEW i \in Imports, SyncInv(i), Alone(i)', calm'[i] => calm[i],
         AddUsersToGroup(i) \/ UpsertGroupMembers(i)
  PROVE  Progress(i)'
<1> DEFINE g == imp[i].group
           n == imp[i].name
           added == MemberRows({g}, UsersOf(i))
<1>1. imp[i].pc \in {"add", "upsert"} /\ HandInv(i) /\ Consistent(rows)
  BY Zenon DEF AddUsersToGroup, UpsertGroupMembers, At, ImportInv, TablesConsistent
<1>2. /\ Upsert(rows, added).error = "none" /\ rows' = After(rows, Upsert(rows, added))
      /\ Becomes(i, Continued(i, FALSE))
  <2>1. Exec(i, Upsert(rows, added), Continued(i, FALSE))
    BY ZenonT(30) DEF AddUsersToGroup, UpsertGroupMembers
  <2> QED BY <2>1, AloneExec, Zenon
<1>3. Progress(i)
  BY <1>2, AloneContinues, Zenon
<1>4. DOMAIN Continued(i, FALSE) = Fields
  BY ContinuedFields, ZenonT(30)
<1>5. imp'[i] = Continued(i, FALSE)
  BY <1>2, <1>4, NowFromBecomes, Zenon DEF Now
<1>6. Kept(i) /\ imp'[i].pc = "groups" /\ imp'[i].todo = imp[i].todo \ {n}
  BY <1>1, <1>5, ContinuedFields, ZenonT(30) DEF Kept, Loop, At
<1>7. /\ FilledInv(i) /\ FillingInv(i)
      /\ \A x, y \in imp[i].existing : x[2] = y[2] <=> x[3] = y[3]
  BY <1>1, <1>3, Zenon DEF Progress, Filling
<1>8. /\ DataNames(i)' = DataNames(i) /\ Filled(i) = DataNames(i) \ imp[i].todo
      /\ Filled(i)' = DataNames(i) \ imp'[i].todo
  BY <1>1, <1>6, FilledIs, ZenonT(30) DEF Filling
<1>9. n \in imp[i].todo /\ n \in DataNames(i) /\ n \in Prefixed /\ InHand(i) \in rows
  BY <1>1, <1>7, Zenon DEF HandInv, FillingInv
<1>10. /\ g \in Groups /\ InHand(i) \in ListGroupsByPrefix(rows)
       /\ \A x \in ListGroupsByPrefix(rows) : x[2] = g \/ x[3] = n => x[2] = g /\ x[3] = n
  BY <1>9, HandRow, ZenonT(30)
<1>11. InHand(i)[2] = g /\ InHand(i)[3] = n
  BY ZenonT(30) DEF InHand
<1>12. rows' = rows \cup added /\ added \cap GroupRows(Groups, Prefixed) = {}
  BY <1>2, ZenonT(30) DEF After, Upsert, MemberRows, GroupRows
<1>13. Touches(rows, rows', g)
  BY <1>1, <1>2, UpsertEffect, ZenonT(30)
<1>14. \A u \in Users : <<"member", g, u>> \in rows' <=> <<n, u>> \in imp[i].data
  <2>1. \A u : <<"member", g, u>> \in added <=> u \in UsersOf(i)
    BY Zenon DEF MemberRows
  <2>2. \A u : u \in UsersOf(i) <=> <<n, u>> \in imp[i].data
    BY <1>1, UsersOfName, Zenon
  <2>3. \A u \in Users : <<"member", g, u>> \in rows => <<n, u>> \in imp[i].data
    BY <1>1, <1>7, Zenon DEF FillingInv
  <2> HIDE DEF added, g, n
  <2> QED BY <1>12, <2>1, <2>2, <2>3, ZenonT(30)
<1> HIDE DEF g, n, added
<1>15. ListGroupsByPrefix(rows') = ListGroupsByPrefix(rows)
  BY <1>12, Zenon DEF ListGroupsByPrefix
<1>16. Filled(i)' = Filled(i) \cup {n} /\ n \notin Filled(i)
  BY <1>6, <1>8, <1>9, ZenonT(30)
<1>17. FilledInv(i)'
  <2>1. \A x \in ListGroupsByPrefix(rows) : x[2] = g => x[3] \notin Filled(i)
    BY <1>10, <1>16, ZenonT(30)
  <2>2. ASSUME NEW m \in Filled(i)'
        PROVE  m \in Filled(i) \/ \E x \in ListGroupsByPrefix(rows') : x[3] = m
    BY <1>10, <1>11, <1>15, <1>16, Zenon
  <2>3. ASSUME NEW x \in ListGroupsByPrefix(rows'), x[3] \in Filled(i)'
        PROVE  (x[2] # g /\ x[3] \in Filled(i)) \/ MembersMatch(i, x)'
    <3>1. CASE x[2] = g
      <4>1. x[3] = n /\ imp'[i].data = imp[i].data
        BY <1>6, <1>10, <1>15, <3>1, Zenon DEF Kept
      <4> QED BY <1>14, <3>1, <4>1, Zenon DEF MembersMatch
    <3>2. CASE x[2] # g
      BY <1>10, <1>15, <1>16, <2>3, <3>2, Zenon
    <3> QED BY <3>1, <3>2, Zenon
  <2> QED BY <1>6, <1>7, <1>13, <2>1, <2>2, <2>3, FilledStays, ZenonT(30)
<1>18. FillingInv(i)'
  <2>1. imp'[i].existing = imp[i].existing /\ imp'[i].existing \subseteq rows'
    BY <1>6, <1>7, <1>12, ZenonT(30) DEF Kept, FillingInv
  <2>2. \A x \in ListGroupsByPrefix(rows') \ imp'[i].existing : x[3] \in Filled(i)'
    BY <1>7, <1>15, <1>16, <2>1, Zenon DEF FillingInv, n
  <2> QED BY <1>6, <1>7, <1>8, <2>1, <2>2, ZenonT(30) DEF FillingInv
<1> QED BY <1>6, <1>7, <1>17, <1>18, ZenonT(30) DEF Progress, Emptying, Kept

\* Sync turns to the stale groups.
LEMMA DoneProgress ==
  ASSUME Shape, ImportInv, NEW i \in Imports, SyncInv(i), Alone(i)', calm'[i] => calm[i],
         GroupsDone(i)
  PROVE  Progress(i)'
<1>1. /\ imp[i].pc = "groups" /\ imp[i].todo = {} /\ rows' = rows /\ tuples' = tuples
      /\ DOMAIN imp[i] = Fields /\ HandInv(i)
  BY Zenon DEF GroupsDone, At, Shape, ImportInv
<1>2. CASE imp[i].mode = "run"
  <2>1. /\ DOMAIN [imp[i] EXCEPT !.pc = "ok"] = Fields /\ [imp[i] EXCEPT !.pc = "ok"].pc = "ok"
    BY <1>1, Zenon DEF Fields
  <2> QED BY <1>2, <2>1, EndProgress, Zenon DEF GroupsDone, Goes
<1>3. CASE imp[i].mode # "run"
  <2> DEFINE todo == {x[3] : x \in imp[i].existing} \ DataNames(i)
             new == [imp[i] EXCEPT !.pc = "stale", !.todo = todo]
  <2>1. Becomes(i, new) /\ DOMAIN new = Fields
    BY <1>1, <1>3, Zenon DEF GroupsDone
  <2>2. imp'[i] = new
    BY <2>1, NowFromBecomes, Zenon DEF Now
  <2>3. /\ Kept(i) /\ imp'[i].pc = "stale" /\ imp'[i].todo = todo
        /\ imp'[i].failures = imp[i].failures
    BY <1>1, <2>2 DEF Kept, Fields
  <2> HIDE DEF new
  <2>4. Progress(i)
    BY <2>3, AloneBefore, Zenon DEF Kept
  <2>5. /\ FilledInv(i) /\ FillingInv(i)
        /\ \A x, y \in imp[i].existing : x[2] = y[2] <=> x[3] = y[3]
    BY <1>1, <2>4, Zenon DEF Progress, Filling
  <2>6. DataNames(i)' = DataNames(i) /\ Filled(i) = DataNames(i) /\ Filled(i)' = DataNames(i)
    BY <1>1, <2>3, Zenon DEF Kept, DataNames, Filled, Filling
  <2>7. FilledInv(i)'
    BY <1>1, <2>3, <2>5, <2>6, QuietFilled, ZenonT(30)
  <2>8. imp[i].existing \subseteq rows /\ imp'[i].existing = imp[i].existing
    BY <2>3, <2>5, ZenonT(30) DEF FillingInv, Kept
  <2>9. \A x \in ListGroupsByPrefix(rows) : x[3] \in DataNames(i) \/ x[3] \in todo
    BY <1>1, <2>5, <2>6, Zenon DEF FillingInv
  <2>10. GroupIds(imp[i].existing) \subseteq GroupIds(rows)
    BY <2>8, Zenon DEF GroupIds
  <2>11. EmptyingInv(i)'
    BY <1>1, <2>3, <2>6, <2>8, <2>9, <2>10, ZenonT(30) DEF EmptyingInv
  <2> QED BY <2>3, <2>5, <2>7, <2>8, <2>11, ZenonT(30) DEF Progress, Filling
<1> QED BY <1>2, <1>3, Zenon

\* The names that are done once Sync has left the loop over the driver's groups.
LEMMA FilledAfter ==
  ASSUME NEW i \in Imports, Kept(i), imp[i].pc \in Emptying, imp'[i].pc \in Emptying
  PROVE  /\ DataNames(i)' = DataNames(i) /\ Filled(i) = DataNames(i)
         /\ Filled(i)' = DataNames(i)
BY Zenon DEF Kept, DataNames, Filled, Filling, Emptying

\* Sync turns to a stale group.
LEMMA StaleProgress ==
  ASSUME Shape, ImportInv, NEW i \in Imports, SyncInv(i), Alone(i)', calm'[i] => calm[i],
         StaleGroup(i)
  PROVE  Progress(i)'
<1> DEFINE turn(x) == [imp[i] EXCEPT !.pc = "drop", !.name = x[3], !.group = x[2]]
<1>1. /\ imp[i].pc = "stale" /\ rows' = rows /\ tuples' = tuples
      /\ DOMAIN imp[i] = Fields /\ HandInv(i)
  BY Zenon DEF StaleGroup, At, Shape, ImportInv
<1>2. PICK x \in imp[i].existing : x[3] \in imp[i].todo /\ Becomes(i, turn(x))
  BY Zenon DEF StaleGroup
<1>3. DOMAIN turn(x) = Fields
  BY <1>1, Zenon
<1>4. imp'[i] = turn(x)
  BY <1>2, <1>3, NowFromBecomes, ZenonT(30) DEF Now
<1>5. /\ Kept(i) /\ imp'[i].pc = "drop" /\ imp'[i].todo = imp[i].todo
      /\ imp'[i].failures = imp[i].failures /\ imp'[i].name = x[3] /\ imp'[i].group = x[2]
  BY <1>1, <1>4 DEF Kept, Fields
<1> HIDE DEF turn
<1>6. Progress(i)
  BY <1>5, AloneBefore, Zenon DEF Kept
<1>7. /\ FilledInv(i) /\ EmptyingInv(i)
      /\ \A y, z \in imp[i].existing : y[2] = z[2] <=> y[3] = z[3]
  BY <1>1, <1>6, ZenonT(30) DEF Progress, Emptying
<1>8. DataNames(i)' = DataNames(i) /\ Filled(i)' = Filled(i)
  BY <1>1, <1>5, FilledAfter, Zenon DEF Emptying
<1>9. FilledInv(i)'
  BY <1>1, <1>5, <1>7, <1>8, QuietFilled, ZenonT(30)
<1>10. InHand(i)' = x
  BY <1>1, <1>5 DEF HandInv, GroupRows, InHand
<1>11. EmptyingInv(i)'
  BY <1>1, <1>2, <1>5, <1>7, <1>8, <1>10, Zenon DEF EmptyingInv, Kept
<1> QED BY <1>5, <1>7, <1>9, <1>11, ZenonT(30) DEF Progress, Filling, Kept

\* Sync has deleted the rows of a stale group.
LEMMA DropProgress ==
  ASSUME Shape, ImportInv, NEW i \in Imports, SyncInv(i), Alone(i)', calm'[i] => calm[i],
         DeleteGroup(i)
  PROVE  Progress(i)'
<1> DEFINE new == [imp[i] EXCEPT !.pc = "read"]
           g == imp[i].group
           n == imp[i].name
<1>1. /\ imp[i].pc = "drop" /\ DOMAIN imp[i] = Fields /\ HandInv(i)
      /\ Consistent(rows) /\ rows \subseteq Row
  BY Zenon DEF DeleteGroup, At, Shape, ImportInv, TablesConsistent
<1>2. rows' = After(rows, DropGroup(rows, g)) /\ tuples' = tuples /\ Becomes(i, new)
  BY AloneExec, Zenon DEF DeleteGroup
<1>3. DOMAIN new = Fields
  BY <1>1, Zenon
<1>4. imp'[i] = new
  BY <1>2, <1>3, NowFromBecomes, Zenon DEF Now
<1>5. /\ Kept(i) /\ imp'[i].pc = "read" /\ imp'[i].group = g /\ imp'[i].name = n
      /\ imp'[i].todo = imp[i].todo /\ imp'[i].failures = imp[i].failures
  BY <1>1, <1>4 DEF Kept, Fields
<1> HIDE DEF new
<1>6. Progress(i)
  BY <1>5, AloneBefore, ZenonT(30) DEF Kept
<1>7. /\ FilledInv(i) /\ EmptyingInv(i)
      /\ \A x, y \in imp[i].existing : x[2] = y[2] <=> x[3] = y[3]
  BY <1>1, <1>6, ZenonT(30) DEF Progress, Emptying
<1>8. /\ DataNames(i)' = DataNames(i) /\ Filled(i) = DataNames(i) /\ Filled(i)' = DataNames(i)
  BY <1>1, <1>5, FilledAfter, ZenonT(30) DEF Emptying
<1>9. InHand(i) \in imp[i].existing /\ n \in imp[i].todo /\ n \notin DataNames(i) /\ n \in Prefixed
  BY <1>1, <1>7, ZenonT(30) DEF EmptyingInv, HandInv
<1>10. InHand(i) \in rows
  <2>1. InHand(i)[3] = n
    BY Zenon DEF InHand
  <2> QED BY <1>1, <1>7, <1>9, <2>1, ZenonT(30) DEF EmptyingInv
<1>11. \A x \in ListGroupsByPrefix(rows) : x[2] = g \/ x[3] = n => x[2] = g /\ x[3] = n
  BY <1>9, <1>10, HandRow, ZenonT(30)
<1>12. Touches(rows, rows', g) /\ GroupIds(rows') = GroupIds(rows) \ {g}
  BY <1>1, <1>2, DropGroupEffect, ZenonT(30)
<1>13. rows' = {x \in rows : x[2] # g}
  BY <1>1, <1>2, Zenon DEF After, DropGroup, OfGroup
<1>14. /\ imp'[i].existing = imp[i].existing /\ imp'[i].authz = imp[i].authz
       /\ InHand(i)' = InHand(i)
  BY <1>5, Zenon DEF Kept, InHand
<1> HIDE DEF g, n
<1>15. \A x \in ListGroupsByPrefix(rows') : x \in ListGroupsByPrefix(rows) /\ x[2] # g
  BY <1>13, Zenon DEF ListGroupsByPrefix
<1>16. FilledInv(i)'
  <2>1. \A x \in ListGroupsByPrefix(rows) : x[2] = g => x[3] \notin Filled(i)
    BY <1>8, <1>9, <1>11, Zenon
  <2>2. \A x \in ListGroupsByPrefix(rows') : x[3] \in Filled(i)' => x[2] # g /\ x[3] \in Filled(i)
    BY <1>8, <1>15, Zenon
  <2> QED BY <1>5, <1>7, <1>8, <1>12, <2>1, <2>2, FilledStays
<1>17. EmptyingInv(i)'
  <2>1. \A x \in ListGroupsByPrefix(rows') :
          x[3] \in DataNames(i)' \/ (x[3] \in imp'[i].todo /\ x[3] # n)
    BY <1>5, <1>7, <1>8, <1>11, <1>15, ZenonT(30) DEF EmptyingInv
  <2>2. \A x \in imp'[i].existing : x[3] \in imp'[i].todo => x \in rows' \/ x[2] = g
    BY <1>1, <1>5, <1>7, <1>13, <1>14, ZenonT(30) DEF EmptyingInv
  <2>3. imp'[i].authz = "openfga" =>
          \A t \in tuples' : t[1] \in GroupIds(imp'[i].existing) =>
            t[1] \in GroupIds(rows') \/ t[1] = g
    BY <1>1, <1>2, <1>7, <1>12, <1>14, ZenonT(30) DEF EmptyingInv
  <2>4. imp'[i].todo \cap DataNames(i)' = {}
    BY <1>5, <1>7, <1>8, ZenonT(30) DEF EmptyingInv
  <2> QED BY <1>5, <1>9, <1>14, <2>1, <2>2, <2>3, <2>4, ZenonT(30) DEF EmptyingInv
<1> QED BY <1>5, <1>7, <1>14, <1>16, <1>17, ZenonT(30) DEF Progress, Filling

\* Sync stays with the group whose tuples it deletes.
LEMMA PageProgress ==
  ASSUME Shape, NEW i \in Imports, Kept(i), Progress(i),
         imp[i].pc \in {"read", "delete"}, imp'[i].pc \in {"read", "delete"},
         imp'[i].todo = imp[i].todo, imp'[i].name = imp[i].name, imp'[i].group = imp[i].group,
         rows' = rows, tuples' \subseteq tuples
  PROVE  Progress(i)'
<1>1. /\ FilledInv(i) /\ EmptyingInv(i)
      /\ \A x, y \in imp[i].existing : x[2] = y[2] <=> x[3] = y[3]
  BY ZenonT(30) DEF Progress, Emptying
<1>2. DataNames(i)' = DataNames(i) /\ Filled(i)' = Filled(i)
  BY FilledAfter, ZenonT(30) DEF Emptying
<1>3. FilledInv(i)'
  BY <1>1, <1>2, QuietFilled, Zenon
<1>4. InHand(i)' = InHand(i) /\ GroupIds(rows)' = GroupIds(rows)
  BY Zenon DEF InHand
<1>5. EmptyingInv(i)'
  BY <1>1, <1>2, <1>4, ZenonT(30) DEF EmptyingInv, Kept
<1> QED BY <1>1, <1>3, <1>5, ZenonT(30) DEF Progress, Filling, Kept

\* Sync has deleted the last tuples of a stale group.
LEMMA EmptiedProgress ==
  ASSUME Shape, ImportInv, NEW i \in Imports, SyncInv(i), Alone(i)', calm'[i] => calm[i],
         NEW failed \in BOOLEAN, Becomes(i, Continued(i, failed)),
         imp[i].pc \in {"read", "delete"}, rows' = rows, tuples' \subseteq tuples,
         ~failed /\ imp[i].authz = "openfga" => \A t \in tuples' : t[1] # imp[i].group
  PROVE  Progress(i)'
<1>1. Progress(i) /\ ~failed
  BY AloneContinues, Zenon
<1>2. DOMAIN Continued(i, failed) = Fields
  BY ContinuedFields, Zenon
<1>3. imp'[i] = Continued(i, failed)
  BY <1>2, NowFromBecomes, Zenon DEF Now
<1>4. Kept(i) /\ imp'[i].pc = "stale" /\ imp'[i].todo = imp[i].todo \ {imp[i].name}
  BY <1>3, ContinuedFields DEF Kept, Loop, At
<1>5. /\ FilledInv(i) /\ EmptyingInv(i)
      /\ \A x, y \in imp[i].existing : x[2] = y[2] <=> x[3] = y[3]
  BY <1>1, Zenon DEF Progress, Emptying
<1>6. DataNames(i)' = DataNames(i) /\ Filled(i)' = Filled(i)
  BY <1>4, FilledAfter, ZenonT(30) DEF Emptying
<1>7. FilledInv(i)'
  BY <1>4, <1>5, <1>6, QuietFilled, ZenonT(30)
<1>8. InHand(i) \in imp[i].existing /\ InHand(i)[2] = imp[i].group /\ InHand(i)[3] = imp[i].name
  BY <1>5, ZenonT(30) DEF EmptyingInv, InHand
<1>9. \A x \in imp[i].existing : x[2] = imp[i].group => x[3] = imp[i].name
  BY <1>5, <1>8
<1>10. imp'[i].existing = imp[i].existing /\ imp'[i].authz = imp[i].authz
  BY <1>4, Zenon DEF Kept
<1>11. EmptyingInv(i)'
  <2>1. \A x \in ListGroupsByPrefix(rows') : x[3] \in DataNames(i)' \/ x[3] \in imp'[i].todo
    BY <1>4, <1>5, <1>6, ZenonT(30) DEF EmptyingInv
  <2>2. \A x \in imp'[i].existing : x[3] \in imp'[i].todo => x \in rows'
    BY <1>4, <1>5, <1>9, <1>10, ZenonT(30) DEF EmptyingInv
  <2>3. imp'[i].authz = "openfga" =>
          \A t \in tuples' : t[1] \in GroupIds(imp'[i].existing) => t[1] \in GroupIds(rows')
    BY <1>1, <1>5, <1>10, ZenonT(30) DEF EmptyingInv
  <2>4. imp'[i].todo \cap DataNames(i)' = {}
    BY <1>4, <1>5, <1>6, ZenonT(30) DEF EmptyingInv
  <2> QED BY <1>4, <2>1, <2>2, <2>3, <2>4, ZenonT(30) DEF EmptyingInv
<1> QED BY <1>4, <1>5, <1>7, <1>10, <1>11, ZenonT(30) DEF Progress, Filling

\* Sync has read a page of the tuples.
LEMMA ReadProgress ==
  ASSUME Shape, ImportInv, NEW i \in Imports, SyncInv(i), Alone(i)', calm'[i] => calm[i],
         ReadTuples(i)
  PROVE  Progress(i)'
<1> DEFINE found == IF imp[i].authz = "noop" THEN {} ELSE {t \in tuples : t[1] = imp[i].group}
           turn(page) == [imp[i] EXCEPT !.pc = "delete", !.page = page, !.more = page # found]
<1>1. imp[i].pc = "read" /\ rows' = rows /\ tuples' = tuples /\ DOMAIN imp[i] = Fields
  BY ZenonT(30) DEF ReadTuples, At, Shape
<1>2. CASE found = {} /\ Becomes(i, Continued(i, FALSE))
  <2>1. imp[i].authz = "openfga" => \A t \in tuples' : t[1] # imp[i].group
    BY <1>1, <1>2, Zenon
  <2> HIDE DEF found
  <2> QED BY <1>1, <1>2, <2>1, EmptiedProgress, ZenonT(30)
<1>3. CASE Becomes(i, Continued(i, TRUE))
  BY <1>1, <1>3, EmptiedProgress, Zenon
<1>4. ASSUME NEW page \in SUBSET found, Becomes(i, turn(page)) PROVE Progress(i)'
  <2>1. DOMAIN turn(page) = Fields
    BY <1>1, Zenon
  <2>2. imp'[i] = turn(page)
    BY <1>4, <2>1, NowFromBecomes, ZenonT(30) DEF Now
  <2>3. /\ Kept(i) /\ imp'[i].pc = "delete" /\ imp'[i].group = imp[i].group
        /\ imp'[i].name = imp[i].name /\ imp'[i].todo = imp[i].todo
        /\ imp'[i].failures = imp[i].failures
    BY <1>1, <2>2 DEF Kept, Fields
  <2> HIDE DEF found, turn
  <2>4. Progress(i)
    BY <2>3, AloneBefore, Zenon DEF Kept
  <2> QED BY <1>1, <2>3, <2>4, PageProgress, Zenon
<1>5. \/ found = {} /\ Becomes(i, Continued(i, FALSE))
      \/ \E page \in SUBSET found : Becomes(i, turn(page))
      \/ Becomes(i, Continued(i, TRUE))
  BY Zenon DEF ReadTuples
<1> HIDE DEF found, turn
<1> QED BY <1>2, <1>3, <1>4, <1>5, ZenonT(30)

\* Sync has deleted a page.
LEMMA DeleteProgress ==
  ASSUME Shape, ImportInv, NEW i \in Imports, SyncInv(i), Alone(i)', calm'[i] => calm[i],
         DeleteTuples(i)
  PROVE  Progress(i)'
<1> DEFINE new == [imp[i] EXCEPT !.pc = "read", !.page = {}]
<1>1. /\ imp[i].pc = "delete" /\ rows' = rows /\ tuples' \subseteq tuples
      /\ DOMAIN imp[i] = Fields /\ HandInv(i)
  BY Zenon DEF DeleteTuples, At, Shape, ImportInv
<1>2. CASE Becomes(i, Continued(i, TRUE))
  BY <1>1, <1>2, EmptiedProgress, Zenon
<1>3. CASE ~imp[i].more /\ tuples' = tuples \ imp[i].page /\ Becomes(i, Continued(i, FALSE))
  <2>1. \A t \in tuples' : t[1] # imp[i].group
    BY <1>1, <1>3, Zenon DEF HandInv
  <2> QED BY <1>1, <1>3, <2>1, EmptiedProgress, ZenonT(30)
<1>4. CASE Becomes(i, new)
  <2>1. DOMAIN new = Fields
    BY <1>1, Zenon
  <2>2. imp'[i] = new
    BY <1>4, <2>1, NowFromBecomes, Zenon DEF Now
  <2>3. /\ Kept(i) /\ imp'[i].pc = "read" /\ imp'[i].group = imp[i].group
        /\ imp'[i].name = imp[i].name /\ imp'[i].todo = imp[i].todo
        /\ imp'[i].failures = imp[i].failures
    BY <1>1, <2>2 DEF Kept, Fields
  <2> HIDE DEF new
  <2>4. Progress(i)
    BY <2>3, AloneBefore, Zenon DEF Kept
  <2> QED BY <1>1, <2>3, <2>4, PageProgress, Zenon
<1>5. \/ Becomes(i, Continued(i, TRUE)) \/ Becomes(i, new)
      \/ ~imp[i].more /\ tuples' = tuples \ imp[i].page /\ Becomes(i, Continued(i, FALSE))
  BY Zenon DEF DeleteTuples
<1> HIDE DEF new
<1> QED BY <1>2, <1>3, <1>4, <1>5, Zenon

\* Every step of a Sync is one of these; Run is no Sync, and a killed import or
\* one that failed to fetch has ended.
LEMMA StepProgress ==
  ASSUME Shape, ImportInv, NEW i \in Imports, SyncInv(i), calm'[i] => calm[i], Step(i)
  PROVE  SyncInv(i)'
<1> SUFFICES ASSUME Alone(i)' PROVE Progress(i)'
  BY ZenonT(30) DEF SyncInv
<1>1. DOMAIN imp[i] = Fields
  BY Zenon DEF Shape
<1>2. CASE FetchFails(i) \/ SyncDone(i)
  <2>1. PICK place \in {"ok", "error"} : Goes(i, place)
    BY <1>2, Zenon DEF FetchFails, SyncDone
  <2>2. /\ DOMAIN [imp[i] EXCEPT !.pc = place] = Fields
        /\ [imp[i] EXCEPT !.pc = place].pc = place
    BY <1>1, Zenon DEF Fields
  <2> QED BY <2>1, <2>2, EndProgress, Zenon DEF Goes
<1>3. CASE Kill(i)
  <2>1. /\ DOMAIN [NotStarted EXCEPT !.pc = "killed"] = Fields
        /\ [NotStarted EXCEPT !.pc = "killed"].pc = "killed"
    BY Zenon DEF NotStarted, Fields
  <2> QED BY <1>3, <2>1, EndProgress, Zenon DEF Kill
<1>4. CASE GetGroupByName(i)
  <2> DEFINE turn(n, g) == [imp[i] EXCEPT !.pc = "add", !.name = n, !.group = g]
             create(n) == [imp[i] EXCEPT !.pc = "create", !.name = n]
  <2>1. PICK n \in imp[i].todo : (\E g : Becomes(i, turn(n, g))) \/ Becomes(i, create(n))
    BY <1>4, Zenon DEF GetGroupByName
  <2>2. /\ DOMAIN create(n) = Fields /\ create(n).mode = imp[i].mode
        /\ \A g : DOMAIN turn(n, g) = Fields /\ turn(n, g).mode = imp[i].mode
    BY <1>1, Zenon DEF Fields
  <2> HIDE DEF turn, create
  <2>3. imp'[i].mode = imp[i].mode
    BY <2>1, <2>2, NowFromBecomes, Zenon DEF Now
  <2>4. imp'[i].mode = "sync" /\ imp[i].mode = "run"
    BY <1>4, ZenonT(30) DEF Alone, GetGroupByName
  <2> QED BY <2>3, <2>4, Zenon
<1> QED BY <1>2, <1>3, <1>4, FetchProgress, ListProgress, LookupProgress, CreateProgress,
           UpsertProgress, MembersProgress, DoneProgress, StaleProgress, DropProgress,
           ReadProgress, DeleteProgress, Zenon DEF Step

\* A step of another leaves a Sync alone only if it writes nothing.
LEMMA OthersProgress ==
  ASSUME ImportInv, NEW j \in Imports, SyncInv(j), imp'[j] = imp[j],
         calm'[j] => calm[j] /\ (At(j, "fetch") \/ UNCHANGED <<rows, tuples>>)
  PROVE  SyncInv(j)'
<1> SUFFICES ASSUME Alone(j)' PROVE Progress(j)'
  BY Zenon DEF SyncInv
<1>1. HandInv(j)
  BY Zenon DEF ImportInv
<1>2. imp'[j].mode = "sync"
  BY Zenon DEF Alone
<1>3. ~At(j, "fetch")
  BY <1>1, <1>2, Zenon DEF HandInv, At
<1>4. UNCHANGED <<rows, tuples>>
  BY <1>3, Zenon DEF Alone
<1>5. rows' = rows /\ tuples' = tuples
  BY <1>4, Zenon
<1>6. Progress(j)
  BY AloneBefore, ZenonT(30)
<1>7. DataNames(j)' = DataNames(j) /\ Filled(j)' = Filled(j) /\ InHand(j)' = InHand(j) /\ Kept(j)
  BY Zenon DEF DataNames, Filled, InHand, Kept
<1>8. FilledInv(j) => FilledInv(j)'
  BY <1>5, <1>7, QuietFilled, ZenonT(30)
<1>9. FillingInv(j) => FillingInv(j)'
  BY <1>5, <1>7, ZenonT(30) DEF FillingInv
<1>10. EmptyingInv(j) => EmptyingInv(j)'
  BY <1>5, <1>7, Zenon DEF EmptyingInv
<1> QED BY <1>6, <1>7, <1>8, <1>9, <1>10 DEF Progress

\* Every step keeps the progress of every Sync.
LEMMA NextProgress ==
  ASSUME Shape, ImportInv, Next, \A i \in Imports : SyncInv(i)
  PROVE  \A i \in Imports : SyncInv(i)'
<1>1. CASE Environment
  <2>1. imp' = imp
    BY <1>1, Zenon DEF Environment
  <2>2. ASSUME NEW j \in Imports
        PROVE  calm'[j] => calm[j] /\ (At(j, "fetch") \/ UNCHANGED <<rows, tuples>>)
    <3>1. CASE Admin
      BY <3>1, Zenon DEF Admin
    <3>2. CASE SourceChanges /\ UNCHANGED calm
      BY <3>2, Zenon DEF SourceChanges
    <3> QED BY <1>1, <3>1, <3>2, Zenon DEF Environment
  <2> QED BY <2>1, <2>2, OthersProgress, Zenon
<1>2. ASSUME NEW i \in Imports, Import(i) PROVE \A j \in Imports : SyncInv(j)'
  <2>1. ASSUME NEW j \in Imports
        PROVE  calm'[j] => calm[j] /\ (j = i \/ At(j, "fetch") \/ UNCHANGED <<rows, tuples>>)
    BY <1>2, Zenon DEF Import
  <2>2. Step(i) /\ StepOf(i)
    <3>1. History
      BY Zenon DEF Next, History
    <3> QED BY <1>2, <3>1, AnyStep, Zenon DEF Import
  <2>3. \A j \in Imports \ {i} : imp'[j] = imp[j]
    BY <2>2, Zenon DEF StepOf
  <2>4. SyncInv(i)'
    BY <2>1, <2>2, StepProgress, Zenon
  <2>5. ASSUME NEW j \in Imports \ {i} PROVE SyncInv(j)'
    BY <2>1, <2>3, OthersProgress, Zenon
  <2> QED BY <2>4, <2>5, Zenon
<1> QED BY <1>1, <1>2, Zenon DEF Next

\* How far a Sync is that runs alone, at every time.
THEOREM SyncsProgress == Spec => [](\A i \in Imports : SyncInv(i))
<1>1. Init => \A i \in Imports : SyncInv(i)
  <2> SUFFICES ASSUME Init, NEW i \in Imports PROVE SyncInv(i)
    BY Zenon
  <2>1. imp[i].mode = "run"
    BY Zenon DEF Init, NotStarted
  <2>2. ~Alone(i)
    BY <2>1, Zenon DEF Alone
  <2> QED BY <2>2, Zenon DEF SyncInv
<1>2. /\ Shape /\ ImportInv /\ [Next]_importVars
      /\ \A i \in Imports : SyncInv(i)
      => (\A i \in Imports : SyncInv(i))'
  <2> SUFFICES ASSUME Shape, ImportInv, [Next]_importVars, \A i \in Imports : SyncInv(i)
               PROVE  \A i \in Imports : SyncInv(i)'
    BY Zenon
  <2>1. CASE Next
    BY <2>1, NextProgress, Zenon
  <2>2. CASE UNCHANGED importVars
    <3>1. imp' = imp /\ calm' = calm /\ rows' = rows /\ tuples' = tuples
      BY <2>2, Zenon DEF importVars
    <3> QED BY <3>1, OthersProgress, Zenon
  <2> QED BY <2>1, <2>2, Zenon
<1> QED BY <1>1, <1>2, ImportInvariant, PTL DEF Spec

-----------------------------------------------------------------------------
\* A Sync returns nil at the end of its second loop only, and with no failure.
LEMMA SuccessIsSyncDone ==
  ASSUME Shape, NEW i \in Imports, Step(i), imp[i].mode = "sync", imp'[i].pc = "ok"
  PROVE  /\ imp[i].pc = "stale" /\ imp[i].todo = {} /\ ~imp[i].failures
         /\ rows' = rows /\ tuples' = tuples /\ Kept(i)
<1>1. DOMAIN imp[i] = Fields /\ DOMAIN imp = Imports
  BY Zenon DEF Shape
<1>2. ASSUME NEW new, Becomes(i, new) PROVE imp'[i] = new
  BY <1>1, <1>2, Zenon DEF Becomes
<1>3. ASSUME NEW failed \in BOOLEAN PROVE ~Becomes(i, Continued(i, failed))
  <2>1. Continued(i, failed).pc \in {"groups", "stale"}
    BY ContinuedFields, Zenon DEF Loop
  <2> QED BY <1>2, <2>1, Zenon
<1>4. ASSUME NEW st, NEW next, Exec(i, st, next) PROVE next.pc = "ok"
  BY <1>2, <1>3, <1>4, Zenon DEF Exec
<1>5. ASSUME NEW place PROVE [imp[i] EXCEPT !.pc = place].pc = place
  BY <1>1, Zenon DEF Fields
<1>6. ~Fetch(i)
  BY <1>1, <1>2, Zenon DEF Fetch, Fields
<1>7. ~FetchFails(i)
  BY <1>2, <1>5, Zenon DEF FetchFails, Goes
<1>8. ~List(i)
  BY <1>1, <1>2, <1>5, Zenon DEF List, Goes, Fields
<1>9. ~GetGroupByName(i) /\ ~ExistingByName(i)
  BY <1>1, <1>2, Zenon DEF GetGroupByName, ExistingByName, Fields
<1>10. ~CreateGroup(i)
  <2>1. \A g : [imp[i] EXCEPT !.pc = "add", !.group = g].pc = "add"
    BY <1>1, Zenon DEF Fields
  <2>2. ASSUME NEW st, NEW g
        PROVE  ~Exec(i, st, [imp[i] EXCEPT !.pc = "add", !.group = g])
    BY <1>4, <2>1, Zenon
  <2> QED BY <2>2, Zenon DEF CreateGroup
<1>11. ~AddUsersToGroup(i) /\ ~UpsertGroupMembers(i)
  <2>1. Continued(i, FALSE).pc # "ok"
    BY ContinuedFields, Zenon DEF Loop
  <2> QED BY <1>4, <2>1, Zenon DEF AddUsersToGroup, UpsertGroupMembers
<1>12. ~SyncGroupMembers(i) /\ ~DeleteGroup(i)
  BY <1>4, <1>5, Zenon DEF SyncGroupMembers, DeleteGroup
<1>13. ~GroupsDone(i) /\ ~StaleGroup(i)
  BY <1>1, <1>2, Zenon DEF GroupsDone, StaleGroup, Fields
<1>14. ~ReadTuples(i)
  <2>1. ASSUME NEW page, NEW more PROVE
          ~Becomes(i, [imp[i] EXCEPT !.pc = "delete", !.page = page, !.more = more])
    <3>1. [imp[i] EXCEPT !.pc = "delete", !.page = page, !.more = more].pc = "delete"
      BY <1>1, Zenon DEF Fields
    <3> QED BY <1>2, <3>1, Zenon
  <2> QED BY <1>3, <2>1, Zenon DEF ReadTuples
<1>15. ~DeleteTuples(i)
  <2>1. [imp[i] EXCEPT !.pc = "read", !.page = {}].pc = "read"
    BY <1>1, Zenon DEF Fields
  <2>2. ~Becomes(i, [imp[i] EXCEPT !.pc = "read", !.page = {}])
    BY <1>2, <2>1, Zenon
  <2> QED BY <1>3, <2>2, Zenon DEF DeleteTuples
<1>16. ~Kill(i)
  BY <1>2, ZenonT(30) DEF Kill, NotStarted
<1>17. SyncDone(i)
  BY <1>6, <1>7, <1>8, <1>9, <1>10, <1>11, <1>12, <1>13, <1>14, <1>15, <1>16, Zenon DEF Step
<1>18. ~imp[i].failures
  <2>1. imp[i].failures => imp'[i] = [imp[i] EXCEPT !.pc = "error"]
    BY <1>2, <1>17, Zenon DEF SyncDone, Goes
  <2>2. imp[i].failures => imp'[i].pc = "error"
    BY <1>5, <2>1, Zenon
  <2>3. imp'[i].pc # "error"
    BY Zenon
  <2> QED BY <2>2, <2>3, Zenon
<1>19. imp'[i] = [imp[i] EXCEPT !.pc = "ok"]
  BY <1>2, <1>17, <1>18, Zenon DEF SyncDone, Goes
<1>20. Kept(i)
  BY <1>1, <1>19, Zenon DEF Kept, Fields
<1> QED BY <1>17, <1>18, <1>20, Zenon DEF SyncDone, At

\* When Sync has come to its end, the stores hold what the driver returned.
LEMMA EndReconciled ==
  ASSUME ImportInv, NEW i \in Imports, Progress(i), imp[i].pc = "stale", imp[i].todo = {},
         rows' = rows, tuples' = tuples, Kept(i)
  PROVE  Reconciled(i)'
<1>1. FilledInv(i) /\ EmptyingInv(i) /\ Filled(i) = DataNames(i)
  BY Zenon DEF Progress, Emptying, Filled, Filling
<1>2. \A x \in ListGroupsByPrefix(rows) : x[3] \in DataNames(i) /\ MembersMatch(i, x)
  BY <1>1, ZenonT(30) DEF EmptyingInv, FilledInv
<1>3. \A n \in DataNames(i) : \E x \in ListGroupsByPrefix(rows) : x[3] = n
  BY <1>1, ZenonT(30) DEF FilledInv
<1>4. imp[i].data \subseteq Prefixed \X Users /\ rows \subseteq Row
  BY ZenonT(30) DEF ImportInv, HandInv
<1>5. {x[3] : x \in ListGroupsByPrefix(rows)} = DataNames(i)
  BY <1>2, <1>3, Zenon
<1>6. ASSUME NEW x \in ListGroupsByPrefix(rows), NEW m \in Members(rows), x[2] = m[1]
      PROVE  <<x[3], m[2]>> \in imp[i].data
  <2>1. PICK y \in rows \cap MemberRows(Groups, Users) : m = <<y[2], y[3]>>
    BY Zenon DEF Members
  <2>2. y = <<"member", x[2], m[2]>> /\ m[2] \in Users
    BY <1>6, <2>1 DEF MemberRows
  <2> QED BY <1>2, <2>1, <2>2, ZenonT(30) DEF MembersMatch
<1>7. ASSUME NEW d \in imp[i].data
      PROVE  \E x \in ListGroupsByPrefix(rows), m \in Members(rows) :
               x[2] = m[1] /\ d = <<x[3], m[2]>>
  <2>1. d[1] \in DataNames(i) /\ d[2] \in Users /\ d = <<d[1], d[2]>>
    BY <1>4 DEF DataNames
  <2>2. PICK x \in ListGroupsByPrefix(rows) : x[3] = d[1]
    BY <1>3, <2>1, Zenon
  <2>3. <<"member", x[2], d[2]>> \in rows
    BY <1>2, <2>1, <2>2, Zenon DEF MembersMatch
  <2>4. x[2] \in Groups
    BY PrefixRow, Zenon DEF ListGroupsByPrefix
  <2>5. <<x[2], d[2]>> \in Members(rows)
    BY <2>1, <2>3, <2>4 DEF Members, MemberRows
  <2> QED BY <2>1, <2>2, <2>5, Zenon
<1>8. MembersByName = imp[i].data
  <2>1. \A z : z \in MembersByName <=>
          \E x \in ListGroupsByPrefix(rows), m \in Members(rows) :
            x[2] = m[1] /\ z = <<x[3], m[2]>>
    <3> DEFINE P == ListGroupsByPrefix(rows)
               M == Members(rows)
    <3>1. MembersByName = {<<p[1][3], p[2][2]>> : p \in {q \in P \X M : q[1][2] = q[2][1]}}
      BY Zenon DEF MembersByName
    <3> HIDE DEF P, M
    <3>2. ASSUME NEW z, NEW p \in P \X M, p[1][2] = p[2][1], z = <<p[1][3], p[2][2]>>
          PROVE  \E x \in P, m \in M : x[2] = m[1] /\ z = <<x[3], m[2]>>
      BY <3>2, Zenon
    <3>3. ASSUME NEW z, NEW x \in P, NEW m \in M, x[2] = m[1], z = <<x[3], m[2]>>
          PROVE  z \in MembersByName
      <4>1. <<x, m>> \in P \X M /\ <<x, m>>[1] = x /\ <<x, m>>[2] = m
        BY Zenon
      <4> QED BY <3>1, <3>3, <4>1, Zenon
    <3>4. ASSUME NEW z \in MembersByName
          PROVE  \E x \in P, m \in M : x[2] = m[1] /\ z = <<x[3], m[2]>>
      BY <3>1, <3>2, <3>4, Zenon
    <3> QED BY <3>3, <3>4, Zenon DEF P, M
  <2>2. \A z \in MembersByName : z \in imp[i].data
    BY <1>6, <2>1
  <2>3. \A d \in imp[i].data : d \in MembersByName
    BY <1>7, <2>1, Zenon
  <2> QED BY <2>2, <2>3, Zenon
<1>9. imp[i].authz = "openfga" =>
        \A t \in tuples : t[1] \in GroupIds(imp[i].existing) => t[1] \in GroupIds(rows)
  BY <1>1, ZenonT(30) DEF EmptyingInv
<1>10. Reconciled(i)
  BY <1>5, <1>8, <1>9, Zenon DEF Reconciled
<1> QED BY <1>10, Zenon DEF Reconciled, MembersByName, DataNames, Kept

\* When a Sync returns nil and no one else wrote while it ran, the stores hold
\* exactly what the driver returned, for every number of imports, every source
\* and every page size (importer.go, Sync).
THEOREM SyncsReconcile == Spec => SyncReconciles
<1>1. Shape /\ ImportInv /\ (\A i \in Imports : SyncInv(i)) /\ [Next]_importVars =>
        [\A i \in Imports :
           Succeeds(i) /\ imp[i].mode = "sync" /\ calm[i] => Reconciled(i)']_importVars
  <2> SUFFICES ASSUME Shape, ImportInv, \A i \in Imports : SyncInv(i), Next,
                      NEW i \in Imports, Succeeds(i), imp[i].mode = "sync", calm[i]
               PROVE  Reconciled(i)'
    BY Zenon
  <2>1. imp[i].pc # "ok" /\ imp'[i].pc = "ok"
    BY Zenon DEF Succeeds
  <2>2. History
    BY Zenon DEF Next, History
  <2>3. PICK j \in Imports : Import(j)
    BY <2>1, Zenon DEF Next, Environment
  <2>4. Step(j) /\ StepOf(j)
    BY <2>2, <2>3, AnyStep, Zenon DEF Import
  <2>5. j = i
    BY <2>1, <2>4, ZenonT(30) DEF StepOf
  <2>6. /\ imp[i].pc = "stale" /\ imp[i].todo = {} /\ ~imp[i].failures
        /\ rows' = rows /\ tuples' = tuples /\ Kept(i)
    BY <2>1, <2>4, <2>5, SuccessIsSyncDone, Zenon
  <2>7. Progress(i)
    BY <2>6, Zenon DEF SyncInv, Alone
  <2> QED BY <2>6, <2>7, EndReconciled, Zenon
<1> QED BY <1>1, ImportInvariant, SyncsProgress, PTL DEF Spec, SyncReconciles
=============================================================================
