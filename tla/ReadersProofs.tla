--------------------------- MODULE ReadersProofs ---------------------------
(***************************************************************************)
(* What the readers of Readers are told agrees with what the writers were    *)
(* told before, for every number of requests, clients, groups, users and     *)
(* applications and for every fault. The argument is about the rows: those   *)
(* that the statements of a call take out and add are the ones of the call,  *)
(* and no call in flight beside it is answered for them.                     *)
(***************************************************************************)
EXTENDS Readers, AdminApiProofs

(***************************************************************************)
(* The rows of a call.                                                      *)
(***************************************************************************)

\* The rows of a set of pairs.
LEMMA PairTriples ==
  ASSUME NEW table, NEW G, NEW S
  PROVE  {<<table, p[1], p[2]>> : p \in G \X S} = {table} \X G \X S
<1>1. ASSUME NEW p \in G \X S PROVE <<table, p[1], p[2]>> \in {table} \X G \X S
  BY Zenon
<1>2. ASSUME NEW y \in {table} \X G \X S PROVE \E p \in G \X S : y = <<table, p[1], p[2]>>
  <2>1. PICK g \in G, e \in S : y = <<table, g, e>>
    OBVIOUS
  <2>2. y = <<table, <<g, e>>[1], <<g, e>>[2]>>
    BY <2>1, Zenon
  <2> QED BY <2>2, Zenon
<1> QED BY <1>1, <1>2, ZenonT(30)

\* The rows of pairs, in the two tables that have them.
LEMMA PairRows ==
  ASSUME NEW G, NEW S
  PROVE  /\ {<<"grant", p[1], p[2]>> : p \in G \X S} = GrantRows(G, S)
         /\ {<<"member", p[1], p[2]>> : p \in G \X S} = MemberRows(G, S)
BY PairTriples, Zenon DEF GrantRows, MemberRows

\* The calls that only take rows out, or only add them.
LEMMA GrantCallRows ==
  ASSUME NEW o
  PROVE  /\ o.call = "AddAllowedAppToGroup" =>
              Takes(o) = {} /\ Puts(o) = GrantRows({o.group}, {o.app}) /\ MayPut(o) = Puts(o)
         /\ o.call = "RemoveAllowedAppFromGroup" =>
              Takes(o) = GrantRows({o.group}, {o.app}) /\ Puts(o) = {} /\ MayPut(o) = {}
         /\ o.call = "RemoveAllowedAppsFromGroup" =>
              Takes(o) = GrantRows({o.group}, Apps) /\ Puts(o) = {} /\ MayPut(o) = {}
         /\ o.call = "RemoveAllowedGroupsForApp" =>
              Takes(o) = GrantRows(Groups, {o.app}) /\ Puts(o) = {} /\ MayPut(o) = {}
<1>1. CASE o.call = "AddAllowedAppToGroup"
  <2>1. Asks(o) = {} /\ Revokes(o) = {} /\ Grantees(o) = {o.group} \X {o.app}
    BY <1>1 DEF Asks, Revokes, Grantees
  <2>2. {<<"grant", p[1], p[2]>> : p \in Grantees(o)} = GrantRows({o.group}, {o.app})
    BY <2>1, PairRows, Zenon
  <2> QED BY <1>1, <2>1, <2>2, Zenon DEF Takes, Puts, MayPut
<1>2. CASE o.call = "RemoveAllowedAppFromGroup"
  <2>1. Asks(o) = {} /\ Revokes(o) = {o.group} \X {o.app} /\ Grantees(o) = {}
    BY <1>2 DEF Asks, Revokes, Grantees
  <2>2. {<<"grant", p[1], p[2]>> : p \in Revokes(o)} = GrantRows({o.group}, {o.app})
    BY <2>1, PairRows, Zenon
  <2> QED BY <1>2, <2>1, <2>2, Zenon DEF Takes, Puts, MayPut
<1>3. CASE o.call = "RemoveAllowedAppsFromGroup"
  <2>1. Asks(o) = {} /\ Revokes(o) = {o.group} \X Apps /\ Grantees(o) = {}
    BY <1>3, Zenon DEF Asks, Revokes, Grantees
  <2>2. {<<"grant", p[1], p[2]>> : p \in Revokes(o)} = GrantRows({o.group}, Apps)
    BY <2>1, PairRows, Zenon
  <2> QED BY <1>3, <2>1, <2>2, Zenon DEF Takes, Puts, MayPut
<1>4. CASE o.call = "RemoveAllowedGroupsForApp"
  <2>1. Asks(o) = {} /\ Revokes(o) = Groups \X {o.app} /\ Grantees(o) = {}
    BY <1>4, Zenon DEF Asks, Revokes, Grantees
  <2>2. {<<"grant", p[1], p[2]>> : p \in Revokes(o)} = GrantRows(Groups, {o.app})
    BY <2>1, PairRows, Zenon
  <2> QED BY <1>4, <2>1, <2>2, Zenon DEF Takes, Puts, MayPut
<1> QED BY <1>1, <1>2, <1>3, <1>4, Zenon

\* The calls on memberships.
LEMMA MemberCallRows ==
  ASSUME NEW o
  PROVE  /\ o.call = "AddUsersToGroup" =>
              Takes(o) = {} /\ Puts(o) = MemberRows({o.group}, o.users) /\ MayPut(o) = Puts(o)
         /\ o.call = "RemoveUsersFromGroup" =>
              Takes(o) = MemberRows({o.group}, o.users) /\ Puts(o) = {} /\ MayPut(o) = {}
         /\ o.call = "RemoveUserFromAllGroups" =>
              Takes(o) = MemberRows(Groups, {o.user}) /\ Puts(o) = {} /\ MayPut(o) = {}
         /\ o.call = "AddUserToGroups" =>
              /\ Takes(o) = MemberRows(Groups \ o.groups, {o.user})
              /\ Puts(o) = MemberRows(o.groups, {o.user}) /\ MayPut(o) = Puts(o)
<1>1. CASE o.call = "AddUsersToGroup"
  <2>1. Asks(o) = {o.group} \X o.users /\ Revokes(o) = {} /\ Grantees(o) = {}
    BY <1>1, Zenon DEF Asks, Revokes, Grantees
  <2>2. {<<"member", p[1], p[2]>> : p \in Asks(o)} = MemberRows({o.group}, o.users)
    BY <2>1, PairRows, Zenon
  <2> QED BY <1>1, <2>1, <2>2, Zenon DEF Takes, Puts, MayPut
<1>2. CASE o.call = "RemoveUsersFromGroup"
  <2>1. Asks(o) = {} /\ Revokes(o) = {} /\ Grantees(o) = {}
    BY <1>2, Zenon DEF Asks, Revokes, Grantees
  <2> QED BY <1>2, <2>1, Zenon DEF Takes, Puts, MayPut
<1>3. CASE o.call = "RemoveUserFromAllGroups"
  <2>1. Asks(o) = {} /\ Revokes(o) = {} /\ Grantees(o) = {}
    BY <1>3, Zenon DEF Asks, Revokes, Grantees
  <2> QED BY <1>3, <2>1, Zenon DEF Takes, Puts, MayPut
<1>4. CASE o.call = "AddUserToGroups"
  <2>1. Asks(o) = o.groups \X {o.user} /\ Revokes(o) = {} /\ Grantees(o) = {}
    BY <1>4, Zenon DEF Asks, Revokes, Grantees
  <2>2. {<<"member", p[1], p[2]>> : p \in Asks(o)} = MemberRows(o.groups, {o.user})
    BY <2>1, PairRows, Zenon
  <2> QED BY <1>4, <2>1, <2>2, Zenon DEF Takes, Puts, MayPut
<1> QED BY <1>1, <1>2, <1>3, <1>4, Zenon

\* The calls on groups.
LEMMA GroupCallRows ==
  ASSUME NEW o
  PROVE  /\ o.call = "CreateGroup" =>
              Takes(o) = {} /\ Puts(o) = {} /\ MayPut(o) = GroupRows(Groups, {o.name})
         /\ o.call = "UpdateGroup" =>
              /\ Takes(o) = GroupRows({o.group}, Names \ {NoName})
              /\ Puts(o) = GroupRows({o.group}, {NoName}) /\ MayPut(o) = Puts(o)
         /\ o.call = "RemoveGroup" /\ o.group \in Groups =>
              Takes(o) = OfGroup(o.group) /\ Puts(o) = {} /\ MayPut(o) = {}
<1>1. CASE o.call = "CreateGroup"
  <2>1. Asks(o) = {} /\ Revokes(o) = {} /\ Grantees(o) = {}
    BY <1>1, Zenon DEF Asks, Revokes, Grantees
  <2> QED BY <1>1, <2>1, Zenon DEF Takes, Puts, MayPut
<1>2. CASE o.call = "UpdateGroup"
  <2>1. Asks(o) = {} /\ Revokes(o) = {} /\ Grantees(o) = {}
    BY <1>2, Zenon DEF Asks, Revokes, Grantees
  <2> QED BY <1>2, <2>1, Zenon DEF Takes, Puts, MayPut
<1>3. CASE o.call = "RemoveGroup" /\ o.group \in Groups
  <2>1. Asks(o) = {} /\ Revokes(o) = {o.group} \X Apps /\ Grantees(o) = {}
    BY <1>3, Zenon DEF Asks, Revokes, Grantees
  <2>2. {<<"grant", p[1], p[2]>> : p \in Revokes(o)} = GrantRows({o.group}, Apps)
    BY <2>1, PairRows, Zenon
  <2>3. GrantRows({o.group}, Apps) \subseteq OfGroup(o.group)
    BY <1>3, Zenon DEF GrantRows, OfGroup, Row
  <2> QED BY <1>3, <2>1, <2>2, <2>3, Zenon DEF Takes, Puts, MayPut
<1> QED BY <1>1, <1>2, <1>3, Zenon

-----------------------------------------------------------------------------
(***************************************************************************)
(* The statements of the handlers.                                          *)
(***************************************************************************)

\* What a statement that succeeds does to the rows of its call. The first one
\* takes out all that the call takes; the last one adds all that it puts.
RowsOf(r, s, next) ==
  /\ s.drops \subseteq Takes(op[r]) \cup s.adds /\ s.adds \subseteq MayPut(op[r])
  /\ Takes(op[r]) \cap s.adds = {}
  /\ pc[r] = "db" => Takes(op[r]) \cap View(r) \subseteq s.drops
  /\ next # "upsert" => Puts(op[r]) \subseteq s.adds

Carries(r, s, next) ==
  Exec(r, s, next) /\ pc[r] \in {"db", "upsert"} /\ next \notin {"db", "done", "idle"}
  /\ RowsOf(r, s, next)

\* INSERT INTO groups
LEMMA CreateGroupCarries ==
  ASSUME NEW r \in Requests, CreateGroup(r)
  PROVE  \E s, next : Carries(r, s, next)
<1>1. op[r].call = "CreateGroup" /\ pc[r] = "db"
  BY Zenon DEF CreateGroup, At
<1>2. PICK g \in Groups : Exec(r, InsertGroup(View(r), g, op[r].name), "reply")
  BY Zenon DEF CreateGroup
<1> DEFINE s == InsertGroup(View(r), g, op[r].name)
<1>3. Takes(op[r]) = {} /\ Puts(op[r]) = {} /\ MayPut(op[r]) = GroupRows(Groups, {op[r].name})
  BY <1>1, GroupCallRows, Zenon
<1>4. s.drops = {} /\ s.adds = GroupRows({g}, {op[r].name})
  BY Zenon DEF InsertGroup
<1>5. s.adds \subseteq GroupRows(Groups, {op[r].name})
  BY <1>4, Zenon DEF GroupRows
<1> HIDE DEF s
<1>6. RowsOf(r, s, "reply")
  BY <1>3, <1>4, <1>5, Zenon DEF RowsOf
<1>7. Carries(r, s, "reply")
  BY <1>1, <1>2, <1>6, Zenon DEF Carries, s
<1> QED BY <1>7, Zenon

\* UPDATE groups
LEMMA UpdateGroupCarries ==
  ASSUME NEW r \in Requests, UpdateGroup(r)
  PROVE  \E s, next : Carries(r, s, next)
<1> DEFINE g == op[r].group
           s == RenameGroup(View(r), g, NoName)
<1>1. op[r].call = "UpdateGroup" /\ pc[r] = "db" /\ Exec(r, s, "reply")
  BY Zenon DEF UpdateGroup, At
<1>2. /\ Takes(op[r]) = GroupRows({g}, Names \ {NoName})
      /\ Puts(op[r]) = GroupRows({g}, {NoName}) /\ MayPut(op[r]) = Puts(op[r])
  BY <1>1, GroupCallRows, Zenon
<1>3. s.drops = GroupRows({g}, Names) \cap View(r) /\ s.adds = GroupRows({g}, {NoName})
  BY Zenon DEF RenameGroup
<1>4. /\ GroupRows({g}, Names) = GroupRows({g}, Names \ {NoName}) \cup GroupRows({g}, {NoName})
      /\ GroupRows({g}, Names \ {NoName}) \cap GroupRows({g}, {NoName}) = {}
  BY NoNameIsAName, Zenon DEF GroupRows
<1> HIDE DEF s
<1>5. RowsOf(r, s, "reply")
  BY <1>2, <1>3, <1>4, Zenon DEF RowsOf
<1>6. Carries(r, s, "reply")
  BY <1>1, <1>5, Zenon DEF Carries
<1> QED BY <1>6, Zenon

\* DELETE FROM groups, with its cascades
LEMMA DeleteGroupCarries ==
  ASSUME NEW r \in Requests, DeleteGroup(r), op[r] \in Calls
  PROVE  \E s, next : Carries(r, s, next)
<1> DEFINE s == DropGroup(View(r), op[r].group)
<1>1. op[r].call = "RemoveGroup" /\ pc[r] = "db" /\ Exec(r, s, "read")
  BY Zenon DEF DeleteGroup, At
<1>2. op[r].group \in Groups
  BY <1>1, CallsTyped, Zenon
<1>3. Takes(op[r]) = OfGroup(op[r].group) /\ Puts(op[r]) = {} /\ MayPut(op[r]) = {}
  BY <1>1, <1>2, GroupCallRows, Zenon
<1>4. s.drops = OfGroup(op[r].group) \cap View(r) /\ s.adds = {}
  BY Zenon DEF DropGroup
<1> HIDE DEF s
<1>5. RowsOf(r, s, "read")
  BY <1>3, <1>4, Zenon DEF RowsOf
<1>6. Carries(r, s, "read")
  BY <1>1, <1>5, Zenon DEF Carries
<1> QED BY <1>6, Zenon

\* A DELETE of all that the call takes.
LEMMA DeleteCarries ==
  ASSUME NEW r \in Requests, NEW next \in {"reply", "delete", "read"}, pc[r] = "db",
         Puts(op[r]) = {}, Exec(r, Delete(View(r), Takes(op[r])), next)
  PROVE  \E s, place : Carries(r, s, place)
<1> DEFINE s == Delete(View(r), Takes(op[r]))
<1>1. s.drops = Takes(op[r]) \cap View(r) /\ s.adds = {}
  BY Zenon DEF Delete
<1>2. Exec(r, s, next)
  BY Zenon
<1> HIDE DEF s
<1>3. RowsOf(r, s, next)
  BY <1>1, Zenon DEF RowsOf
<1>4. Carries(r, s, next)
  BY <1>2, <1>3, Zenon DEF Carries
<1> QED BY <1>4, Zenon

\* An INSERT, or an upsert, of all that the call puts.
LEMMA AddCarries ==
  ASSUME NEW r \in Requests, NEW next \in {"reply", "write"}, pc[r] \in {"db", "upsert"},
         NEW s, s.drops = {}, s.adds = Puts(op[r]), MayPut(op[r]) = Puts(op[r]),
         Takes(op[r]) \cap Puts(op[r]) = {}, pc[r] = "db" => Takes(op[r]) = {}, Exec(r, s, next)
  PROVE  \E t, place : Carries(r, t, place)
<1>1. RowsOf(r, s, next)
  BY Zenon DEF RowsOf
<1>2. Carries(r, s, next)
  BY <1>1, Zenon DEF Carries
<1> QED BY <1>2, Zenon

\* The first statement of UpdateGroupsForUser.
LEMMA DeleteOthersCarries ==
  ASSUME NEW r \in Requests, UpdateGroupsForUser(r)
  PROVE  \E s, place : Carries(r, s, place)
<1> DEFINE next == IF op[r].groups = {} THEN "reply" ELSE "upsert"
           s == Delete(View(r), Takes(op[r]))
<1>1. op[r].call = "AddUserToGroups" /\ pc[r] = "db"
  BY Zenon DEF UpdateGroupsForUser, At
<1>2. /\ Takes(op[r]) = MemberRows(Groups \ op[r].groups, {op[r].user})
      /\ Puts(op[r]) = MemberRows(op[r].groups, {op[r].user}) /\ MayPut(op[r]) = Puts(op[r])
  BY <1>1, MemberCallRows, Zenon
<1>3. Exec(r, s, next)
  BY <1>2, Zenon DEF UpdateGroupsForUser, DeleteOtherMemberships
<1>4. s.drops = Takes(op[r]) \cap View(r) /\ s.adds = {}
  BY Zenon DEF Delete
<1>5. next # "upsert" => Puts(op[r]) = {}
  BY <1>2, Zenon DEF MemberRows
<1>6. next \in {"reply", "upsert"}
  BY Zenon
<1> HIDE DEF s, next
<1>7. RowsOf(r, s, next)
  BY <1>4, <1>5, Zenon DEF RowsOf
<1>8. Carries(r, s, next)
  BY <1>1, <1>3, <1>6, <1>7, Zenon DEF Carries
<1> QED BY <1>8, Zenon

\* The statements that only delete.
LEMMA RemovalCarries ==
  ASSUME NEW r \in Requests,
         \/ RemoveUsersFromGroup(r) \/ RemoveUserFromAllGroups(r)
         \/ RemoveAllowedApp(r) \/ RemoveAllowedApps(r) \/ RemoveAllAllowedGroupsForApp(r)
  PROVE  \E s, place : Carries(r, s, place)
<1>1. CASE RemoveUsersFromGroup(r)
  <2>1. op[r].call = "RemoveUsersFromGroup" /\ pc[r] = "db"
    BY <1>1, Zenon DEF RemoveUsersFromGroup, At
  <2>2. Takes(op[r]) = MemberRows({op[r].group}, op[r].users) /\ Puts(op[r]) = {}
    BY <2>1, MemberCallRows, Zenon
  <2>3. Exec(r, Delete(View(r), Takes(op[r])), "reply")
    BY <1>1, <2>2, Zenon DEF RemoveUsersFromGroup, DeleteMembers
  <2> QED BY <2>1, <2>2, <2>3, DeleteCarries, Zenon
<1>2. CASE RemoveUserFromAllGroups(r)
  <2>1. op[r].call = "RemoveUserFromAllGroups" /\ pc[r] = "db"
    BY <1>2, Zenon DEF RemoveUserFromAllGroups, At
  <2>2. Takes(op[r]) = MemberRows(Groups, {op[r].user}) /\ Puts(op[r]) = {}
    BY <2>1, MemberCallRows, Zenon
  <2>3. Exec(r, Delete(View(r), Takes(op[r])), "reply")
    BY <1>2, <2>2, Zenon DEF RemoveUserFromAllGroups, DeleteMemberships
  <2> QED BY <2>1, <2>2, <2>3, DeleteCarries, Zenon
<1>3. CASE RemoveAllowedApp(r)
  <2>1. op[r].call = "RemoveAllowedAppFromGroup" /\ pc[r] = "db" /\ AfterTables[op[r].call] = "delete"
    BY <1>3, Zenon DEF RemoveAllowedApp, At, AfterTables, AuthorizationCalls
  <2>2. Takes(op[r]) = GrantRows({op[r].group}, {op[r].app}) /\ Puts(op[r]) = {}
    BY <2>1, GrantCallRows, Zenon
  <2>3. Exec(r, Delete(View(r), Takes(op[r])), "delete")
    BY <1>3, <2>1, <2>2, Zenon DEF RemoveAllowedApp, DeleteGrant
  <2> QED BY <2>1, <2>2, <2>3, DeleteCarries, Zenon
<1>4. CASE RemoveAllowedApps(r)
  <2>1. op[r].call = "RemoveAllowedAppsFromGroup" /\ pc[r] = "db" /\ AfterTables[op[r].call] = "read"
    BY <1>4, Zenon DEF RemoveAllowedApps, At, AfterTables, AuthorizationCalls
  <2>2. Takes(op[r]) = GrantRows({op[r].group}, Apps) /\ Puts(op[r]) = {}
    BY <2>1, GrantCallRows, Zenon
  <2>3. Exec(r, Delete(View(r), Takes(op[r])), "read")
    BY <1>4, <2>1, <2>2, Zenon DEF RemoveAllowedApps, DeleteAllowedApps
  <2> QED BY <2>1, <2>2, <2>3, DeleteCarries, Zenon
<1>5. CASE RemoveAllAllowedGroupsForApp(r)
  <2>1. op[r].call = "RemoveAllowedGroupsForApp" /\ pc[r] = "db" /\ AfterTables[op[r].call] = "read"
    BY <1>5, Zenon DEF RemoveAllAllowedGroupsForApp, At, AfterTables, AuthorizationCalls
  <2>2. Takes(op[r]) = GrantRows(Groups, {op[r].app}) /\ Puts(op[r]) = {}
    BY <2>1, GrantCallRows, Zenon
  <2>3. Exec(r, Delete(View(r), Takes(op[r])), "read")
    BY <1>5, <2>1, <2>2, Zenon DEF RemoveAllAllowedGroupsForApp, DeleteAllowedGroups
  <2> QED BY <2>1, <2>2, <2>3, DeleteCarries, Zenon
<1> QED BY <1>1, <1>2, <1>3, <1>4, <1>5, Zenon

\* The statements that add.
LEMMA AdditionCarries ==
  ASSUME NEW r \in Requests,
         AddUsersToGroup(r) \/ UpsertGroupsForUser(r) \/ AddAllowedApp(r)
  PROVE  \E s, place : Carries(r, s, place)
<1>1. CASE AddUsersToGroup(r)
  <2> DEFINE s == Upsert(View(r), MemberRows({op[r].group}, op[r].users))
  <2>1. op[r].call = "AddUsersToGroup" /\ pc[r] = "db" /\ Exec(r, s, "reply")
    BY <1>1, Zenon DEF AddUsersToGroup, At
  <2>2. /\ Takes(op[r]) = {} /\ Puts(op[r]) = MemberRows({op[r].group}, op[r].users)
        /\ MayPut(op[r]) = Puts(op[r])
    BY <2>1, MemberCallRows, Zenon
  <2>3. s.drops = {} /\ s.adds = Puts(op[r])
    BY <2>2, Zenon DEF Upsert
  <2> HIDE DEF s
  <2> QED BY <2>1, <2>2, <2>3, AddCarries, Zenon
<1>2. CASE UpsertGroupsForUser(r)
  <2> DEFINE s == Upsert(View(r), MemberRows(op[r].groups, {op[r].user}))
  <2>1. op[r].call = "AddUserToGroups" /\ pc[r] = "upsert" /\ Exec(r, s, "reply")
    BY <1>2, Zenon DEF UpsertGroupsForUser, At
  <2>2. /\ Takes(op[r]) = MemberRows(Groups \ op[r].groups, {op[r].user})
        /\ Puts(op[r]) = MemberRows(op[r].groups, {op[r].user}) /\ MayPut(op[r]) = Puts(op[r])
    BY <2>1, MemberCallRows, ZenonT(30)
  <2>3. s.drops = {} /\ s.adds = Puts(op[r])
    BY <2>2, Zenon DEF Upsert
  <2>4. Takes(op[r]) \cap Puts(op[r]) = {}
    BY <2>2, Zenon DEF MemberRows
  <2> HIDE DEF s
  <2> QED BY <2>1, <2>2, <2>3, <2>4, AddCarries, ZenonT(30)
<1>3. CASE AddAllowedApp(r)
  <2> DEFINE s == Insert(View(r), GrantRows({op[r].group}, {op[r].app}))
  <2>1. op[r].call = "AddAllowedAppToGroup" /\ pc[r] = "db" /\ AfterTables[op[r].call] = "write"
    BY <1>3, Zenon DEF AddAllowedApp, At, AfterTables, AuthorizationCalls
  <2>2. /\ Takes(op[r]) = {} /\ Puts(op[r]) = GrantRows({op[r].group}, {op[r].app})
        /\ MayPut(op[r]) = Puts(op[r])
    BY <2>1, GrantCallRows, Zenon
  <2>3. s.drops = {} /\ s.adds = Puts(op[r])
    BY <2>2, Zenon DEF Insert
  <2>4. Exec(r, s, "write")
    BY <1>3, <2>1, Zenon DEF AddAllowedApp
  <2> HIDE DEF s
  <2> QED BY <2>1, <2>2, <2>3, <2>4, AddCarries, Zenon
<1> QED BY <1>1, <1>2, <1>3, Zenon

\* A step on the tables is a statement that is carried out, or a failure.
LEMMA DbStepCarries ==
  ASSUME NEW r \in Requests, op[r] \in Calls, DbStep(r)
  PROVE  StatementFails(r) \/ TxExpires(r) \/ \E s, next : Carries(r, s, next)
BY CreateGroupCarries, UpdateGroupCarries, DeleteGroupCarries, DeleteOthersCarries,
   RemovalCarries, AdditionCarries, Zenon DEF DbStep

-----------------------------------------------------------------------------
(***************************************************************************)
(* SettledInv: the rows that were confirmed.                                *)
(***************************************************************************)

\* A request t beside r, when r takes the rows D out of the tables and adds the
\* rows A: they are rows of the call of r, and r is beside t.
LEMMA OthersSettled ==
  ASSUME SettledInv, NEW r \in InFlight, NEW t \in Requests \ {r}, SameAt(t),
         UNCHANGED <<op, beside>>, pc'[r] # "idle",
         \A u \in Requests \ {r} : pc'[u] = pc[u],
         NEW D, NEW A, rows' = (rows \ D) \cup A,
         D \subseteq Takes(op[r]) \cup A, A \subseteq MayPut(op[r])
  PROVE  SettledAt(t)'
<1>1. SettledAt(t)
  BY Zenon DEF SettledInv, InFlight
<1>2. /\ pc'[t] = pc[t] /\ op'[t] = op[t] /\ status'[t] = status[t] /\ ended'[t] = ended[t]
      /\ adds'[t] = adds[t] /\ drops'[t] = drops[t]
  BY Zenon DEF SameAt
<1>3. OwnRows(t)' /\ (pc'[t] = "upsert" => status'[t] = 0)
  BY <1>1, <1>2, Zenon DEF SettledAt, OwnRows
<1>4. ended'[t] = "expired" => started'[t]
  <2>1. (started'[t] <=> started[t]) /\ (ended[t] = "expired" => started[t])
    BY <1>1, Zenon DEF SameAt, SettledAt
  <2> QED BY <1>2, <2>1, Zenon
<1>5. beside'[t] \subseteq {u \in Requests : pc'[u] # "idle"}
  BY <1>1, Zenon DEF SettledAt
<1>6. ASSUME Carried(t)' PROVE Cleared(t)' /\ (pc'[t] # "upsert" => Filled(t)')
  <2>1. Carried(t)
    BY <1>2, <1>6, Zenon DEF Carried
  <2>2. r \in beside[t]
    BY <2>1, Zenon DEF Carried, InFlight, SettledInv
  <2>3. Cleared(t) /\ (pc[t] # "upsert" => Filled(t))
    BY <1>1, <2>1, Zenon DEF SettledAt
  <2> DEFINE T == UNION {Takes(op[u]) : u \in beside[t]}
             M == UNION {MayPut(op[u]) : u \in beside[t]}
  <2>4. Takes(op[r]) \subseteq T /\ MayPut(op[r]) \subseteq M
    BY <2>2, Zenon
  <2>5. /\ (Takes(op[t]) \ M) \cap View(t) = {}
        /\ pc[t] # "upsert" => Puts(op[t]) \ T \subseteq View(t)
    BY <2>3, Zenon DEF Cleared, Filled
  <2> HIDE DEF T, M
  <2>6. View(t)' = (((rows \ D) \cup A) \ drops[t]) \cup adds[t]
    BY <1>2, Zenon DEF View
  <2>7. (Takes(op[t]) \ M) \cap View(t)' = {}
    BY <2>4, <2>5, <2>6, Zenon DEF View
  <2>8. pc[t] # "upsert" => Puts(op[t]) \ T \subseteq View(t)'
    BY <2>4, <2>5, <2>6, Zenon DEF View
  <2> QED BY <1>2, <2>7, <2>8, ZenonT(30) DEF Cleared, Filled, T, M
<1> QED BY <1>3, <1>4, <1>5, <1>6, Zenon DEF SettledAt

\* A step of r that takes D out of the tables and adds A, and after which P is
\* confirmed to be in the tables and Q not to be.
LEMMA SettledStep ==
  ASSUME SettledInv, NEW r \in InFlight, OnlyAt(r), UNCHANGED <<op, beside>>, pc'[r] # "idle",
         SettledAt(r)',
         NEW D, NEW A, rows' = (rows \ D) \cup A,
         D \subseteq Takes(op[r]) \cup A, A \subseteq MayPut(op[r]),
         NEW P, NEW Q, present' = present \cup P, absent' = absent \cup Q,
         P \subseteq rows', Q \cap rows' = {}, pc'[r] # "done" => P = {} /\ Q = {},
         \A t \in beside[r] : P \cap Takes(op[t]) = {} /\ Q \cap MayPut(op[t]) = {}
  PROVE  SettledInv'
<1>1. \A t \in Requests \ {r} : SameAt(t) /\ pc'[t] = pc[t]
  BY Zenon DEF OnlyAt, SameAt
<1>2. r \in Requests
  BY Zenon DEF InFlight
<1>3. ASSUME NEW t \in Requests PROVE SettledAt(t)'
  <2>1. CASE t = r
    BY <2>1, Zenon
  <2>2. CASE t # r
    BY <1>1, <2>2, OthersSettled, Zenon
  <2> QED BY <2>1, <2>2, Zenon
<1>4. InFlight' \subseteq InFlight
  BY <1>1, <1>2, Zenon DEF InFlight
<1>5. \A i, t \in InFlight' : i # t => t \in beside'[i]
  BY <1>4, Zenon DEF SettledInv
<1>6. ASSUME NEW i \in InFlight'
      PROVE  present' \cap Takes(op'[i]) = {} /\ absent' \cap MayPut(op'[i]) = {}
  <2>1. present \cap Takes(op[i]) = {} /\ absent \cap MayPut(op[i]) = {}
    BY <1>4, <1>6, Zenon DEF SettledInv
  <2>2. P \cap Takes(op[i]) = {} /\ Q \cap MayPut(op[i]) = {}
    <3>1. CASE i = r
      <4>1. pc'[r] # "done"
        BY <1>6, <3>1, Zenon DEF InFlight
      <4> QED BY <4>1, Zenon
    <3>2. CASE i # r
      <4>1. i \in beside[r]
        BY <1>4, <1>6, <3>2, Zenon DEF SettledInv
      <4> QED BY <4>1, Zenon
    <3> QED BY <3>1, <3>2, Zenon
  <2> QED BY <2>1, <2>2, Zenon
<1>7. present \cap Takes(op[r]) = {} /\ absent \cap MayPut(op[r]) = {} /\ present \subseteq rows
      /\ absent \cap rows = {}
  BY Zenon DEF SettledInv
<1>8. present' \subseteq rows' /\ absent' \cap rows' = {}
  BY <1>7, Zenon
<1> QED BY <1>3, <1>5, <1>6, <1>8, Zenon DEF SettledInv

\* A step of r that changes neither the tables nor what is confirmed.
LEMMA SettledStay ==
  ASSUME SettledInv, NEW r \in InFlight, OnlyAt(r), UNCHANGED <<op, beside, rows, present, absent>>,
         pc'[r] # "idle", SettledAt(r)'
  PROVE  SettledInv'
<1> DEFINE E == {}
<1>1. /\ rows' = (rows \ E) \cup E /\ present' = present \cup E /\ absent' = absent \cup E
      /\ E \subseteq Takes(op[r]) \cup E /\ E \subseteq MayPut(op[r])
      /\ E \subseteq rows' /\ E \cap rows' = {} /\ (pc'[r] # "done" => E = {} /\ E = {})
      /\ \A t \in beside[r] : E \cap Takes(op[t]) = {} /\ E \cap MayPut(op[t]) = {}
  BY Zenon
<1>2. UNCHANGED <<op, beside>>
  BY Zenon
<1> HIDE DEF E
<1> QED BY <1>1, <1>2, SettledStep, ZenonT(30)

\* A statement is carried out.
LEMMA CarriesSettled ==
  ASSUME Base, SettledInv, NEW r \in Requests, OnlyAt(r), NEW s, NEW next, Carries(r, s, next),
         UNCHANGED <<beside, present, absent>>
  PROVE  SettledInv'
<1>1. TypeOK /\ TablesInv /\ TxInv(r) /\ SettledAt(r)
  BY Zenon DEF Base, TablesInv, SettledInv
<1>2. Exec(r, s, next) /\ pc[r] \in {"db", "upsert"} /\ next \notin {"db", "done", "idle"}
  BY Zenon DEF Carries
<1>3. /\ s.drops \subseteq Takes(op[r]) \cup s.adds /\ s.adds \subseteq MayPut(op[r])
      /\ Takes(op[r]) \cap s.adds = {}
      /\ pc[r] = "db" => Takes(op[r]) \cap View(r) \subseteq s.drops
      /\ next # "upsert" => Puts(op[r]) \subseteq s.adds
  BY Zenon DEF Carries, RowsOf
<1>4. /\ s.error = "none" => pc'[r] = next /\ status'[r] = 0
      /\ s.error # "none" => pc'[r] = "reply" /\ status'[r] \in {400, 404, 409, 500}
      /\ op' = op /\ ended' = ended
  BY <1>1, <1>2, ExecPlace
<1>5. r \in InFlight /\ pc'[r] # "idle"
  BY <1>2, <1>4, ZenonT(30) DEF InFlight
<1>6. beside'[r] \subseteq {t \in Requests : pc'[t] # "idle"}
  <2>1. \A t \in Requests \ {r} : pc'[t] = pc[t]
    BY Zenon DEF OnlyAt, SameAt
  <2> QED BY <1>1, <1>5, <2>1, Zenon DEF SettledAt
<1>7. pc'[r] = "upsert" => status'[r] = 0
  BY <1>4, Zenon
<1>8. ended[r] = "expired" => started[r]
  BY <1>1, ZenonT(30) DEF SettledAt
<1>9. CASE InVain(r, s)
  <2>1. UNCHANGED <<rows, adds, drops>> /\ s.error # "none"
    BY <1>9, ZenonT(30) DEF InVain
  <2>2. OwnRows(r)'
    BY <1>1, <1>4, <2>1, ZenonT(30) DEF SettledAt, OwnRows
  <2>3. ~Carried(r)'
    BY <1>4, <2>1 DEF Carried
  <2>4. ended'[r] = "expired" => started'[r]
    BY <1>4, <1>8, <1>9, Zenon DEF InVain
  <2>5. SettledAt(r)'
    BY <1>6, <1>7, <2>2, <2>3, <2>4, Zenon DEF SettledAt
  <2> QED BY <1>4, <1>5, <2>1, <2>5, SettledStay, ZenonT(30)
<1> DEFINE seen == (View(r) \ s.drops) \cup s.adds
<1>10. ASSUME ended[r] # "expired", View(r)' = seen
       PROVE  Cleared(r)' /\ (next # "upsert" => Filled(r)')
  <2> DEFINE M == UNION {MayPut(op[u]) : u \in beside[r]}
             T == UNION {Takes(op[u]) : u \in beside[r]}
  <2>1. pc[r] = "upsert" => (Takes(op[r]) \ M) \cap View(r) = {}
    <3>1. pc[r] = "upsert" => Carried(r)
      BY <1>1, <1>10 DEF SettledAt, Carried
    <3> QED BY <1>1, <3>1, Zenon DEF SettledAt, Cleared
  <2> HIDE DEF M, T
  <2>2. (Takes(op[r]) \ M) \cap seen = {}
    BY <1>2, <1>3, <2>1, Zenon
  <2>3. next # "upsert" => Puts(op[r]) \ T \subseteq seen
    BY <1>3, Zenon
  <2> QED BY <1>4, <1>10, <2>2, <2>3 DEF Cleared, Filled, M, T
<1>11. CASE s.error = "none" /\ InTx(r, s)
  <2>1. /\ adds'[r] = (adds[r] \ s.drops) \cup s.adds /\ drops'[r] = drops[r] \cup s.drops
        /\ rows' = rows /\ ended[r] = "no"
    BY <1>1, <1>11 DEF InTx, TypeOK
  <2>2. OwnRows(r)'
    <3>1. drops[r] \subseteq Takes(op[r]) \cup adds[r] /\ adds[r] \subseteq MayPut(op[r])
      BY <1>1, Zenon DEF SettledAt, OwnRows
    <3> QED BY <1>3, <1>4, <2>1, <3>1 DEF OwnRows
  <2>3. View(r)' = seen
    BY <2>1, Zenon DEF View
  <2>4. Cleared(r)' /\ (next # "upsert" => Filled(r)') /\ ended'[r] # "expired"
    BY <1>4, <1>10, <2>1, <2>3, Zenon
  <2>5. SettledAt(r)'
    BY <1>4, <1>6, <1>7, <1>11, <2>2, <2>4, ZenonT(30) DEF SettledAt
  <2> QED BY <1>4, <1>5, <2>1, <2>5, SettledStay, Zenon
<1>12. CASE s.error = "none" /\ OnItsOwn(r, s, next)
  <2>1. ~started[r]
    BY <1>12, Zenon DEF OnItsOwn
  <2>2. adds' = adds /\ drops' = drops /\ rows' = (rows \ s.drops) \cup s.adds
    BY <1>12, Zenon DEF OnItsOwn
  <2>3. adds[r] = {} /\ drops[r] = {}
    BY <1>1, <2>1, NoGrantsOpen, Zenon DEF NoOpenTx
  <2>4. ended[r] # "expired"
    BY <1>8, <2>1, Zenon
  <2>5. View(r)' = seen
    BY <2>2, <2>3, Zenon DEF View
  <2>6. OwnRows(r)'
    BY <2>2, <2>3, Zenon DEF OwnRows
  <2>7. Cleared(r)' /\ (next # "upsert" => Filled(r)') /\ ended'[r] # "expired"
    BY <1>4, <1>10, <2>4, <2>5, Zenon
  <2>8. SettledAt(r)'
    BY <1>4, <1>6, <1>7, <1>12, <2>6, <2>7, Zenon DEF SettledAt
  <2> DEFINE E == {}
  <2>9. /\ present' = present \cup E /\ absent' = absent \cup E
        /\ E \subseteq rows' /\ E \cap rows' = {} /\ (pc'[r] # "done" => E = {} /\ E = {})
        /\ \A t \in beside[r] : E \cap Takes(op[t]) = {} /\ E \cap MayPut(op[t]) = {}
    BY Zenon
  <2>10. UNCHANGED <<op, beside>>
    BY <1>4, ZenonT(30)
  <2> HIDE DEF seen, E
  <2> QED BY <1>3, <1>5, <2>2, <2>8, <2>9, <2>10, SettledStep, Zenon
<1> QED BY <1>1, <1>2, <1>9, <1>11, <1>12, ExecCases, Zenon

\* A step of r that leaves its transaction as it is.
LEMMA StillSettled ==
  ASSUME SettledInv, NEW r \in InFlight, OnlyAt(r), UNCHANGED <<op, beside, rows, present, absent>>,
         adds'[r] = adds[r], drops'[r] = drops[r], ended'[r] = ended[r], started[r] => started'[r],
         pc'[r] \notin {"idle", "upsert"},
         Carried(r)' => Carried(r) /\ pc[r] # "upsert"
  PROVE  SettledInv'
<1>1. SettledAt(r) /\ r \in Requests
  BY Zenon DEF SettledInv, InFlight
<1>2. OwnRows(r)' /\ pc'[r] # "upsert" /\ pc'[r] # "idle"
  BY <1>1, Zenon DEF SettledAt, OwnRows
<1>3. View(r)' = View(r)
  BY Zenon DEF View
<1>4. Carried(r)' => Cleared(r)' /\ Filled(r)'
  <2>1. Carried(r)' => Cleared(r) /\ Filled(r)
    BY <1>1, Zenon DEF SettledAt
  <2> QED BY <1>3, <2>1, ZenonT(30) DEF Cleared, Filled
<1>5. ended'[r] = "expired" => started'[r]
  BY <1>1, ZenonT(30) DEF SettledAt
<1>6. beside'[r] \subseteq {t \in Requests : pc'[t] # "idle"}
  <2>1. \A t \in Requests \ {r} : pc'[t] = pc[t]
    BY Zenon DEF OnlyAt, SameAt
  <2> QED BY <1>1, <2>1, Zenon DEF SettledAt
<1>7. SettledAt(r)'
  BY <1>2, <1>4, <1>5, <1>6, Zenon DEF SettledAt
<1> QED BY <1>2, <1>7, SettledStay, Zenon

\* A statement fails, or the transaction of r expires.
LEMMA FaultSettled ==
  ASSUME Base, SettledInv, NEW r \in Requests, OnlyAt(r), StatementFails(r) \/ TxExpires(r),
         UNCHANGED <<beside, present, absent>>
  PROVE  SettledInv'
<1>1. TypeOK /\ TxInv(r) /\ SettledAt(r)
  BY Zenon DEF Base, TablesInv, SettledInv
<1>2. CASE StatementFails(r)
  <2>1. Failed(r)
    BY <1>1, <1>2, FailPlace, Zenon
  <2>2. started[r] => started'[r]
    BY <1>1, <1>2, FailStarted, ZenonT(30)
  <2>3. UNCHANGED <<op, rows>> /\ adds'[r] = adds[r] /\ drops'[r] = drops[r] /\ ended'[r] = ended[r]
    BY <2>1, Zenon DEF Failed
  <2>4. pc'[r] = "reply" /\ r \in InFlight /\ ~Carried(r)'
    BY <2>1 DEF Failed, InFlight, Carried
  <2> QED BY <2>2, <2>3, <2>4, StillSettled, Zenon
<1>3. CASE TxExpires(r)
  <2>1. Expired(r)
    BY <1>1, <1>3, ExpirePlace, Zenon
  <2>2. started[r] /\ started' = started
    BY <1>3, Zenon DEF TxExpires
  <2>3. pc[r] \notin {"idle", "db", "done"} /\ r \in InFlight
    BY <1>1, <2>2, ZenonT(30) DEF TxInv, InFlight
  <2>4. /\ UNCHANGED <<op, rows, pc, status>> /\ adds'[r] = {} /\ drops'[r] = {}
        /\ ended'[r] = "expired"
    BY <2>1, Zenon DEF Expired
  <2>5. OwnRows(r)' /\ ~Carried(r)'
    BY <2>4, Zenon DEF OwnRows, Carried
  <2>6. started'[r]
    BY <2>2, ZenonT(30)
  <2>7. /\ pc'[r] = "upsert" => status'[r] = 0
        /\ beside'[r] \subseteq {t \in Requests : pc'[t] # "idle"}
    BY <1>1, <2>4, Zenon DEF SettledAt
  <2>8. SettledAt(r)'
    BY <2>5, <2>6, <2>7, ZenonT(30) DEF SettledAt
  <2>9. pc'[r] # "idle"
    BY <2>3, <2>4, Zenon
  <2> QED BY <2>3, <2>4, <2>8, <2>9, SettledStay, Zenon
<1> QED BY <1>2, <1>3, Zenon

\* A request that works on the tuples has no error so far.
LEMMA CarriedSoFar ==
  ASSUME NEW r, pc[r] \in {"write", "delete", "read", "deletePage"}, status[r] = 0,
         ended'[r] = ended[r]
  PROVE  Carried(r)' => Carried(r) /\ pc[r] # "upsert"
BY DEF Carried

\* A call to OpenFGA, or the response.
LEMMA FgaSettled ==
  ASSUME Base, SettledInv, NEW r \in Requests, OnlyAt(r), FgaStep(r) \/ Reply(r),
         UNCHANGED <<beside, present, absent>>
  PROVE  SettledInv'
<1>1. TypeOK /\ GrantInv /\ ClaimHolds(r)
  BY Zenon DEF Base, GrantInv
<1>2. StillTables(r)
  BY <1>1, FgaStill, Zenon
<1>3. UNCHANGED <<op, rows>> /\ adds'[r] = adds[r] /\ drops'[r] = drops[r] /\ ended'[r] = ended[r]
  BY <1>2, Zenon DEF StillTables
<1>4. started[r] => started'[r]
  BY <1>2, Zenon DEF StillTables
<1>5. r \in InFlight /\ pc'[r] \notin {"idle", "upsert"}
  BY <1>2, Zenon DEF StillTables, InFlight
<1>6. Carried(r)' => Carried(r) /\ pc[r] # "upsert"
  <2>1. CASE FgaStep(r)
    <3>1. pc[r] \in {"write", "delete", "read", "deletePage"}
      BY <2>1, Zenon DEF FgaStep, WriteTuple, DeleteTuple, ReadTuples, ReadFails, DeleteTuples
    <3>2. status[r] = 0
      BY <1>1, <3>1, ZenonT(30) DEF ClaimHolds
    <3>3. ended'[r] = ended[r]
      BY <1>3, ZenonT(30)
    <3> QED BY <3>1, <3>2, <3>3, CarriedSoFar
  <2>2. CASE Reply(r)
    <3>1. pc[r] = "reply" /\ pc'[r] = "finish" /\ (Settled(r)' <=> Settled(r))
      BY <1>1, <2>2, ReplySettled, ZenonT(30)
    <3> QED BY <1>3, <3>1, Zenon DEF Carried, Settled
  <2> QED BY <2>1, <2>2, Zenon
<1> QED BY <1>3, <1>4, <1>5, <1>6, StillSettled, Zenon

\* The rows that r has not touched, when it ends, and what it then confirms.
LEMMA ConfirmSettled ==
  ASSUME SettledInv, NEW r \in InFlight, OnlyAt(r), UNCHANGED <<op, beside>>, pc'[r] = "done",
         SettledAt(r)', Carried(r), pc[r] # "upsert", rows' = View(r),
         present' = present \cup ((Puts(op[r]) \cup adds[r]) \ UNION {Takes(op[t]) : t \in beside[r]}),
         absent' = absent \cup (Takes(op[r]) \ UNION {MayPut(op[t]) : t \in beside[r]})
  PROVE  SettledInv'
<1> DEFINE T == UNION {Takes(op[t]) : t \in beside[r]}
           M == UNION {MayPut(op[t]) : t \in beside[r]}
           P == (Puts(op[r]) \cup adds[r]) \ T
           Q == Takes(op[r]) \ M
           D == drops[r]
           A == adds[r]
<1>1. SettledAt(r) /\ r \in Requests
  BY Zenon DEF SettledInv, InFlight
<1>2. Cleared(r) /\ Filled(r) /\ OwnRows(r)
  BY <1>1, Zenon DEF SettledAt
<1>3. rows' = (rows \ D) \cup A
  BY Zenon DEF View
<1>4. D \subseteq Takes(op[r]) \cup A /\ A \subseteq MayPut(op[r])
  BY <1>2, Zenon DEF OwnRows
<1>5. \A t \in beside[r] : P \cap Takes(op[t]) = {} /\ Q \cap MayPut(op[t]) = {}
  <2>1. \A t \in beside[r] : Takes(op[t]) \subseteq T /\ MayPut(op[t]) \subseteq M
    BY Zenon
  <2> HIDE DEF T, M
  <2> QED BY <2>1, Zenon
<1>6. Puts(op[r]) \ T \subseteq rows' /\ Q \cap rows' = {}
  BY <1>2, Zenon DEF Cleared, Filled
<1> HIDE DEF T, M
<1>7. P \subseteq rows'
  BY <1>3, <1>6, Zenon
<1>8. present' = present \cup P /\ absent' = absent \cup Q
  BY Zenon DEF T, M
<1>9. pc'[r] # "idle" /\ (pc'[r] # "done" => P = {} /\ Q = {})
  BY Zenon
<1>10. Q \cap rows' = {}
  BY <1>6, Zenon
<1> HIDE DEF P, Q, D, A
<1> QED BY <1>3, <1>4, <1>5, <1>7, <1>8, <1>9, <1>10, SettledStep, Zenon

\* The transaction of r ends.
LEMMA EndSettled ==
  ASSUME Base, SettledInv, NEW r \in Requests, OnlyAt(r), EndStep(r), Settle(r)
  PROVE  SettledInv'
<1>1. TypeOK /\ TxInv(r) /\ SettledAt(r)
  BY Zenon DEF Base, TablesInv, SettledInv
<1>2. /\ pc[r] = "finish" /\ pc'[r] = "done" /\ adds'[r] = {} /\ drops'[r] = {}
      /\ UNCHANGED <<op, beside>>
  BY <1>1, EndPlace, ZenonT(30) DEF Settle
<1>3. r \in InFlight
  BY <1>2, Zenon DEF InFlight
<1>4. /\ ended'[r] # "expired"
      /\ Commit(r) \/ NoTx(r) => ended'[r] # "lost"
      /\ CommitFails(r) => ended'[r] = "lost"
  BY <1>1 DEF EndStep, Commit, CommitFails, Rollback, NoTx, EndTx, TypeOK
<1>5. beside'[r] \subseteq {t \in Requests : pc'[t] # "idle"}
  <2>1. \A t \in Requests \ {r} : pc'[t] = pc[t]
    BY Zenon DEF OnlyAt, SameAt
  <2> QED BY <1>1, <1>2, <2>1, Zenon DEF SettledAt
<1>6. SettledAt(r)'
  <2>1. OwnRows(r)' /\ ~Carried(r)' /\ pc'[r] # "upsert"
    BY <1>2, Zenon DEF OwnRows, Carried
  <2> QED BY <1>4, <1>5, <2>1, ZenonT(30) DEF SettledAt
<1>7. CASE (Commit(r) \/ NoTx(r)) /\ status[r] < 400
  <2>1. present' = present \cup ((Puts(op[r]) \cup adds[r]) \ UNION {Takes(op[t]) : t \in beside[r]})
    BY <1>4, <1>7, Zenon DEF Settle
  <2>2. absent' = absent \cup (Takes(op[r]) \ UNION {MayPut(op[t]) : t \in beside[r]})
    BY <1>4, <1>7, Zenon DEF Settle
  <2>3. ended[r] # "expired" /\ rows' = View(r)
    <3>1. CASE Commit(r)
      BY <3>1, Zenon DEF Commit
    <3>2. CASE NoTx(r)
      <4>1. ~started[r] /\ rows' = rows
        BY <3>2, Zenon DEF NoTx
      <4>2. ended[r] # "expired"
        BY <1>1, <4>1, ZenonT(30) DEF SettledAt
      <4>3. adds[r] = {} /\ drops[r] = {}
        BY <1>1, <4>1, NoGrantsOpen, Zenon DEF NoOpenTx
      <4> QED BY <4>1, <4>2, <4>3, Zenon DEF View
    <3> QED BY <1>7, <3>1, <3>2, Zenon
  <2>4. Carried(r) /\ pc[r] # "upsert"
    BY <1>2, <1>7, <2>3, Zenon DEF Carried
  <2> QED BY <1>2, <1>3, <1>6, <2>1, <2>2, <2>3, <2>4, ConfirmSettled, Zenon
<1>8. CASE CommitFails(r) \/ ~(status[r] < 400)
  <2>1. present' = present /\ absent' = absent
    BY <1>4, <1>8, Zenon DEF Settle
  <2>2. rows' = rows
    <3>1. ~Commit(r)
      BY <1>2, <1>4, <1>8, ZenonT(30) DEF Commit
    <3> QED BY <3>1, ZenonT(30) DEF EndStep, CommitFails, Rollback, NoTx
  <2> QED BY <1>2, <1>3, <1>6, <2>1, <2>2, SettledStay, ZenonT(30)
<1>9. Rollback(r) => ~(status[r] < 400)
  BY <1>1 DEF Rollback, TypeOK
<1> QED BY <1>7, <1>8, <1>9, ZenonT(30) DEF EndStep

\* A request arrives beside t.
LEMMA ArriveOthers ==
  ASSUME TypeOK, SettledInv, NEW r \in Requests, Arrive(r), NEW t \in Requests \ {r}, SameAt(t),
         beside'[t] = beside[t] \cup (IF t \in InFlight THEN {r} ELSE {})
  PROVE  SettledAt(t)'
<1>1. SettledAt(t) /\ pc[r] = "idle"
  BY Zenon DEF SettledInv, Arrive
<1>2. /\ pc'[t] = pc[t] /\ op'[t] = op[t] /\ status'[t] = status[t] /\ ended'[t] = ended[t]
      /\ adds'[t] = adds[t] /\ drops'[t] = drops[t]
  BY Zenon DEF SameAt
<1>3. rows' = rows
  BY ZenonT(30) DEF Arrive, dbVars
<1>4. OwnRows(t)' /\ (pc'[t] = "upsert" => status'[t] = 0)
  BY <1>1, <1>2, Zenon DEF SettledAt, OwnRows
<1>5. ended'[t] = "expired" => started'[t]
  <2>1. (started'[t] <=> started[t]) /\ (ended[t] = "expired" => started[t])
    BY <1>1, ZenonT(30) DEF SameAt, SettledAt
  <2> QED BY <1>2, <2>1, Zenon
<1>6. /\ pc'[r] # "idle" /\ \A u \in Requests \ {r} : pc'[u] = pc[u] /\ op'[u] = op[u]
  BY DEF Arrive, TypeOK
<1>7. beside[t] \subseteq {u \in Requests \ {r} : pc[u] # "idle"}
  BY <1>1, Zenon DEF SettledAt
<1>8. beside'[t] \subseteq {u \in Requests : pc'[u] # "idle"}
  BY <1>6, <1>7, Zenon
<1>9. ASSUME Carried(t)' PROVE Cleared(t)' /\ (pc'[t] # "upsert" => Filled(t)')
  <2>1. Carried(t)
    BY <1>2, <1>9, Zenon DEF Carried
  <2>2. Cleared(t) /\ (pc[t] # "upsert" => Filled(t))
    BY <1>1, <2>1, Zenon DEF SettledAt
  <2> DEFINE T == UNION {Takes(op[u]) : u \in beside[t]}
             M == UNION {MayPut(op[u]) : u \in beside[t]}
             TT == UNION {Takes(op'[u]) : u \in beside'[t]}
             MM == UNION {MayPut(op'[u]) : u \in beside'[t]}
  <2>3. T \subseteq TT /\ M \subseteq MM
    <3>1. \A u \in beside[t] : op'[u] = op[u] /\ u \in beside'[t]
      BY <1>6, <1>7, Zenon
    <3> QED BY <3>1, Zenon
  <2>4. /\ (Takes(op[t]) \ M) \cap View(t) = {}
        /\ pc[t] # "upsert" => Puts(op[t]) \ T \subseteq View(t)
    BY <2>2, Zenon DEF Cleared, Filled
  <2>5. View(t)' = View(t)
    BY <1>2, <1>3, Zenon DEF View
  <2> HIDE DEF T, M, TT, MM
  <2>6. /\ (Takes(op'[t]) \ MM) \cap View(t)' = {}
        /\ pc'[t] # "upsert" => Puts(op'[t]) \ TT \subseteq View(t)'
    BY <1>2, <2>3, <2>4, <2>5, Zenon
  <2> QED BY <2>6, Zenon DEF Cleared, Filled, TT, MM
<1> QED BY <1>4, <1>5, <1>8, <1>9, ZenonT(30) DEF SettledAt

\* A request that returns without a statement asks for nothing.
LEMMA ArriveCarried ==
  ASSUME TypeOK, NEW r \in Requests, Arrive(r), Carried(r)'
  PROVE  Takes(op'[r]) = {} /\ Puts(op'[r]) = {}
<1>1. PICK o \in Calls :
        /\ op' = [op EXCEPT ![r] = o]
        /\ LET refused == o.call = "UpdateGroup" /\ o.name # NoName
               noop == o.call = "AddUsersToGroup" /\ o.users = {}
           IN /\ pc' = [pc EXCEPT ![r] = IF refused \/ noop THEN "reply" ELSE "db"]
              /\ status' = [status EXCEPT ![r] = IF refused THEN 400 ELSE 0]
  BY ZenonT(30) DEF Arrive
<1>2. op'[r] = o /\ o.call = "AddUsersToGroup" /\ o.users = {}
  BY <1>1 DEF TypeOK, Carried
<1>3. Takes(o) = {} /\ Puts(o) = MemberRows({o.group}, o.users)
  BY <1>2, MemberCallRows, Zenon
<1> QED BY <1>2, <1>3, Zenon DEF MemberRows

\* What the arrival of r unsettles.
LEMMA UnsettledRows ==
  ASSUME NEW r \in Requests, Unsettle(r)
  PROVE  /\ present' = present \ Takes(op'[r]) /\ absent' = absent \ MayPut(op'[r])
         /\ beside'[r] = InFlight
         /\ \A t \in Requests \ {r} :
              beside'[t] = beside[t] \cup (IF t \in InFlight THEN {r} ELSE {})
BY Zenon DEF Unsettle

\* A request arrives.
LEMMA ArriveSettled ==
  ASSUME Base, SettledInv, NEW r \in Requests, OnlyAt(r), Arrive(r), Unsettle(r)
  PROVE  SettledInv'
<1>1. TypeOK /\ TxInv(r) /\ SettledAt(r) /\ pc[r] = "idle"
  BY Zenon DEF Base, TablesInv, SettledInv, Arrive
<1>2. /\ present' = present \ Takes(op'[r]) /\ absent' = absent \ MayPut(op'[r])
      /\ beside'[r] = InFlight
      /\ \A t \in Requests \ {r} :
           beside'[t] = beside[t] \cup (IF t \in InFlight THEN {r} ELSE {})
  BY ZenonT(30) DEF Unsettle
<1>3. /\ pc'[r] \in {"db", "reply"}
      /\ \A t \in Requests \ {r} : pc'[t] = pc[t] /\ op'[t] = op[t]
  BY <1>1 DEF Arrive, TypeOK
<1>4. rows' = rows /\ adds' = adds /\ drops' = drops /\ started' = started /\ ended' = ended
  BY Zenon DEF Arrive, dbVars
<1>5. InFlight' = InFlight \cup {r} /\ r \notin InFlight
  BY <1>1, <1>3, Zenon DEF InFlight
<1>6. ASSUME NEW t \in Requests PROVE SettledAt(t)'
  <2>1. CASE t # r
    <3>1. SameAt(t) /\ beside'[t] = beside[t] \cup (IF t \in InFlight THEN {r} ELSE {})
      BY <1>2, <2>1, Zenon DEF OnlyAt
    <3> QED BY <1>1, <2>1, <3>1, ArriveOthers, Zenon
  <2>2. CASE t = r
    <3>1. ~started[r]
      BY <1>1, ZenonT(30) DEF TxInv
    <3>2. adds[r] = {} /\ drops[r] = {}
      BY <1>1, <3>1, NoGrantsOpen, Zenon DEF NoOpenTx
    <3>3. OwnRows(r)' /\ pc'[r] # "upsert"
      BY <1>3, <1>4, <3>2, Zenon DEF OwnRows
    <3>4. ended'[r] # "expired"
      BY <1>1, <1>4, <3>1, Zenon DEF SettledAt
    <3>5. Carried(r)' => Cleared(r)' /\ Filled(r)'
      <4>1. Carried(r)' => Takes(op'[r]) = {} /\ Puts(op'[r]) = {}
        BY <1>1, ArriveCarried, ZenonT(30)
      <4> QED BY <4>1, Zenon DEF Cleared, Filled
    <3>6. beside'[r] \subseteq {u \in Requests : pc'[u] # "idle"}
      BY <1>2, <1>3, Zenon DEF InFlight
    <3>7. SettledAt(r)'
      BY <3>3, <3>4, <3>5, <3>6, Zenon DEF SettledAt
    <3> QED BY <2>2, <3>7, Zenon
  <2> QED BY <2>1, <2>2, Zenon
<1>7. InFlight \subseteq Requests
  BY Zenon DEF InFlight
<1>8. ASSUME NEW i \in InFlight', NEW t \in InFlight', i # t PROVE t \in beside'[i]
  <2>1. CASE i = r
    BY <1>2, <1>5, <1>8, <2>1, Zenon
  <2>2. CASE i # r
    <3>1. i \in InFlight /\ i \in Requests \ {r}
      BY <1>5, <1>7, <1>8, <2>2, Zenon
    <3>2. t \in InFlight => t \in beside[i]
      BY <1>8, <3>1, Zenon DEF SettledInv
    <3> QED BY <1>2, <1>5, <1>8, <3>1, <3>2, Zenon
  <2> QED BY <2>1, <2>2, Zenon
<1>9. ASSUME NEW i \in InFlight'
      PROVE  present' \cap Takes(op'[i]) = {} /\ absent' \cap MayPut(op'[i]) = {}
  <2>1. i # r => op'[i] = op[i] /\ i \in InFlight
    BY <1>3, <1>5, <1>7, <1>9, ZenonT(30)
  <2>2. i # r => present \cap Takes(op[i]) = {} /\ absent \cap MayPut(op[i]) = {}
    BY <2>1, Zenon DEF SettledInv
  <2> QED BY <1>2, <2>1, <2>2, Zenon
<1>10. present \subseteq rows /\ absent \cap rows = {}
  BY Zenon DEF SettledInv
<1>11. present' \subseteq rows' /\ absent' \cap rows' = {}
  BY <1>2, <1>4, <1>10, Zenon
<1> QED BY <1>6, <1>8, <1>9, <1>11, Zenon DEF SettledInv

-----------------------------------------------------------------------------
(***************************************************************************)
(* The clients.                                                             *)
(***************************************************************************)
SeenAt(x) ==
  /\ reader[x].at \in {"answered", "notFound", "check", "allowed", "denied"}
  /\ reader[x].from = "primary" \/ reader[x].asks.call = "TokenHook"
  => /\ reader[x].due \subseteq reader[x].rows
     /\ reader[x].gone \cap reader[x].rows = {}

RemovalsAt(x) ==
  reader[x].at = "allowed" =>
    \A a \in reader[x].asks.apps : \E g \in Groups :
      /\ <<"member", g, reader[x].asks.user>> \notin reader[x].gone
      /\ <<g, a>> \notin reader[x].barred

GrantsAt(x) ==
  reader[x].at = "denied" =>
    \E a \in reader[x].asks.apps : \A g \in Groups :
      ~(/\ <<"member", g, reader[x].asks.user>> \in reader[x].due
        /\ <<g, a>> \in reader[x].sure)

ClientInv(x) == ReaderInv(x) /\ SeenAt(x) /\ RemovalsAt(x) /\ GrantsAt(x)

\* The invariant, client by client ...
LEMMA ReadersParts ==
  ReadersInv <=> ReadersTypeOK /\ SettledInv /\ \A x \in Clients : ClientInv(x)
BY Zenon DEF ReadersInv, ClientInv, CommittedIsSeen, HookHonoursRemovals, HookHonoursGrants,
       SeenAt, RemovalsAt, GrantsAt

\* ... and after a step.
LEMMA ReadersPartsNext ==
  ReadersInv' <=> ReadersTypeOK' /\ SettledInv' /\ \A x \in Clients : ClientInv(x)'
BY Zenon DEF ReadersInv, ClientInv, CommittedIsSeen, HookHonoursRemovals, HookHonoursGrants,
       SeenAt, RemovalsAt, GrantsAt

\* The place of x stays, and what it waits for is less and still settled.
Waits(x) ==
  /\ reader'[x].at = reader[x].at /\ reader'[x].asks = reader[x].asks
  /\ reader'[x].from = reader[x].from /\ reader'[x].rows = reader[x].rows
  /\ reader'[x].due \subseteq reader[x].due \cap present'
  /\ reader'[x].gone \subseteq reader[x].gone \cap absent'
  /\ reader'[x].sure \subseteq reader[x].sure \cap granted'
  /\ reader'[x].barred \subseteq reader[x].barred \cap revoked'

\* Such a client keeps its invariant.
LEMMA WaitsInv ==
  ASSUME NEW x \in Clients, ClientInv(x), Waits(x)
  PROVE  ClientInv(x)'
<1>1. ReaderInv(x)'
  BY Zenon DEF ClientInv, ReaderInv, Waits
<1>2. SeenAt(x)'
  BY Zenon DEF ClientInv, SeenAt, Waits
<1>3. RemovalsAt(x)'
  BY Zenon DEF ClientInv, RemovalsAt, Waits
<1>4. GrantsAt(x)'
  BY Zenon DEF ClientInv, GrantsAt, Waits
<1> QED BY <1>1, <1>2, <1>3, <1>4, Zenon DEF ClientInv

\* A step that is not of x, and that unsettles nothing.
LEMMA OtherWaits ==
  ASSUME NEW x \in Clients, ReaderInv(x), reader'[x] = reader[x],
         present \subseteq present', absent \subseteq absent',
         granted \subseteq granted', revoked \subseteq revoked'
  PROVE  Waits(x)
BY Zenon DEF Waits, ReaderInv

\* The record of a client from which something is taken away.
Less(c, D, G, S, B) ==
  [c EXCEPT !.due = @ \ D, !.gone = @ \ G, !.sure = @ \ S, !.barred = @ \ B]

\* Its fields ...
LEMMA LessFields ==
  ASSUME NEW c \in Reader, NEW D, NEW G, NEW S, NEW B
  PROVE  /\ Less(c, D, G, S, B).at = c.at /\ Less(c, D, G, S, B).asks = c.asks
         /\ Less(c, D, G, S, B).from = c.from /\ Less(c, D, G, S, B).rows = c.rows
         /\ Less(c, D, G, S, B).due = c.due \ D /\ Less(c, D, G, S, B).gone = c.gone \ G
         /\ Less(c, D, G, S, B).sure = c.sure \ S /\ Less(c, D, G, S, B).barred = c.barred \ B
BY Zenon DEF Less, Reader

\* ... and its type.
LEMMA LessIsReader ==
  ASSUME NEW c \in Reader, NEW D, NEW G, NEW S, NEW B
  PROVE  Less(c, D, G, S, B) \in Reader
<1>1. /\ c.due \ D \in SUBSET Row /\ c.gone \ G \in SUBSET Row
      /\ c.sure \ S \in SUBSET (Groups \X Apps) /\ c.barred \ B \in SUBSET (Groups \X Apps)
  BY Zenon DEF Reader
<1> QED BY <1>1, Zenon DEF Less, Reader

\* A request arrives.
LEMMA ArriveWaits ==
  ASSUME ReadersTypeOK, NEW x \in Clients, ReaderInv(x), NEW r \in Requests, TypeOK, Arrive(r),
         Unsettle(r)
  PROVE  Waits(x) /\ reader'[x] \in Reader
<1> DEFINE o == op'[r]
<1>1. granted' = granted \ Revokes(o) /\ revoked' = revoked \ Grantees(o)
  BY ZenonT(30) DEF Arrive, TypeOK
<1>2. present' = present \ Takes(o) /\ absent' = absent \ MayPut(o)
  BY UnsettledRows, Zenon
<1>3. reader[x] \in Reader
  BY Zenon DEF ReadersTypeOK
<1>4. reader'[x] = Less(reader[x], Takes(o), MayPut(o), Revokes(o), Grantees(o))
  BY Zenon DEF Unsettle, Less
<1> HIDE DEF o
<1>5. /\ reader'[x].at = reader[x].at /\ reader'[x].asks = reader[x].asks
      /\ reader'[x].from = reader[x].from /\ reader'[x].rows = reader[x].rows
      /\ reader'[x].due = reader[x].due \ Takes(o)
      /\ reader'[x].gone = reader[x].gone \ MayPut(o)
      /\ reader'[x].sure = reader[x].sure \ Revokes(o)
      /\ reader'[x].barred = reader[x].barred \ Grantees(o)
  BY <1>3, <1>4, LessFields
<1>6. /\ reader[x].due \subseteq present /\ reader[x].gone \subseteq absent
      /\ reader[x].sure \subseteq granted /\ reader[x].barred \subseteq revoked
  BY ZenonT(30) DEF ReaderInv
<1>7. Waits(x)
  BY <1>1, <1>2, <1>5, <1>6, Zenon DEF Waits
<1>8. reader'[x] \in Reader
  BY <1>3, <1>4, LessIsReader, Zenon
<1> QED BY <1>7, <1>8, Zenon

\* x moves to new, and the others wait.
LEMMA ClientMoves ==
  ASSUME ReadersTypeOK, \A y \in Clients : ClientInv(y), NEW x \in Clients, NEW new \in Reader,
         reader' = [reader EXCEPT ![x] = new],
         UNCHANGED <<replica, present, absent, beside, granted, revoked>>,
         reader'[x] = new => ClientInv(x)'
  PROVE  ReadersTypeOK' /\ \A y \in Clients : ClientInv(y)'
<1>1. reader'[x] = new /\ \A y \in Clients \ {x} : reader'[y] = reader[y]
  BY Zenon DEF ReadersTypeOK
<1>2. ASSUME NEW y \in Clients \ {x} PROVE ClientInv(y)'
  <2>1. ReaderInv(y) /\ ClientInv(y)
    BY Zenon DEF ClientInv
  <2>2. Waits(y)
    BY <1>1, <2>1, OtherWaits, Zenon
  <2> QED BY <2>1, <2>2, WaitsInv, Zenon
<1>3. ReadersTypeOK'
  BY Zenon DEF ReadersTypeOK
<1> QED BY <1>1, <1>2, <1>3, Zenon

\* The records of a client that has asked, and of one whose question failed.
Asking(q, D, G, S, B) ==
  [Nobody EXCEPT !.at = "query", !.asks = q, !.due = D, !.gone = G, !.sure = S, !.barred = B]

Unanswered == [Nobody EXCEPT !.at = "failed"]

\* A client that has not asked.
LEMMA NobodyIsReader == Nobody \in Reader
BY Zenon DEF Nobody, Reader

\* The fields of one that has ...
LEMMA AskingFields ==
  ASSUME NEW q, NEW D, NEW G, NEW S, NEW B
  PROVE  /\ Asking(q, D, G, S, B).at = "query" /\ Asking(q, D, G, S, B).asks = q
         /\ Asking(q, D, G, S, B).due = D /\ Asking(q, D, G, S, B).gone = G
         /\ Asking(q, D, G, S, B).sure = S /\ Asking(q, D, G, S, B).barred = B
BY NobodyIsReader, Zenon DEF Asking, Reader

\* ... its type ...
LEMMA AskingIsReader ==
  ASSUME NEW q \in Questions, NEW D \in SUBSET Row, NEW G \in SUBSET Row,
         NEW S \in SUBSET (Groups \X Apps), NEW B \in SUBSET (Groups \X Apps)
  PROVE  Asking(q, D, G, S, B) \in Reader
BY NobodyIsReader, Zenon DEF Asking, Reader

\* ... and the fields of one whose question failed.
LEMMA UnansweredFields ==
  Unanswered = [at |-> "failed", asks |-> Idle, from |-> "none", rows |-> {},
                due |-> {}, gone |-> {}, sure |-> {}, barred |-> {}]
BY DEF Unanswered, Nobody

\* A question is asked.
LEMMA AskInv ==
  ASSUME ReadersTypeOK, TypeOK, \A y \in Clients : ClientInv(y), NEW x \in Clients, Ask(x)
  PROVE  ReadersTypeOK' /\ \A y \in Clients : ClientInv(y)'
<1>1. PICK q \in Questions :
        reader' = [reader EXCEPT ![x] =
          [Nobody EXCEPT !.at = "query", !.asks = q,
                         !.due = Selected(Row, q) \cap present,
                         !.gone = Selected(Row, q) \cap absent,
                         !.sure = IF q.call = "TokenHook" THEN granted ELSE {},
                         !.barred = IF q.call = "TokenHook" THEN revoked ELSE {}]]
  BY Zenon DEF Ask
<1> DEFINE due == Selected(Row, q) \cap present
           gone == Selected(Row, q) \cap absent
           sure == IF q.call = "TokenHook" THEN granted ELSE {}
           barred == IF q.call = "TokenHook" THEN revoked ELSE {}
           new == Asking(q, due, gone, sure, barred)
<1>2. reader' = [reader EXCEPT ![x] = new]
  BY <1>1, Zenon DEF Asking
<1>3. UNCHANGED <<replica, present, absent, beside, granted, revoked>>
  BY Zenon DEF Ask, vars
<1>4. /\ due \subseteq present /\ due \subseteq Selected(Row, q) /\ gone \subseteq absent
      /\ sure \subseteq granted /\ barred \subseteq revoked
  BY Zenon
<1>5. /\ due \subseteq Row /\ gone \subseteq Row
      /\ sure \subseteq Groups \X Apps /\ barred \subseteq Groups \X Apps
  BY <1>4, Zenon DEF ReadersTypeOK, TypeOK
<1> HIDE DEF due, gone, sure, barred
<1>6. new \in Reader
  BY <1>5, AskingIsReader, Zenon
<1>7. ASSUME reader'[x] = new PROVE ClientInv(x)'
  <2>1. /\ reader'[x].at = "query" /\ reader'[x].asks = q
        /\ reader'[x].due = due /\ reader'[x].gone = gone
        /\ reader'[x].sure = sure /\ reader'[x].barred = barred
    BY <1>7, AskingFields
  <2>2. ReaderInv(x)'
    BY <1>3, <1>4, <2>1, ZenonT(30) DEF ReaderInv
  <2>3. SeenAt(x)' /\ RemovalsAt(x)' /\ GrantsAt(x)'
    BY <2>1, Zenon DEF SeenAt, RemovalsAt, GrantsAt
  <2> QED BY <2>2, <2>3, Zenon DEF ClientInv
<1> HIDE DEF new
<1> QED BY <1>2, <1>3, <1>6, <1>7, ClientMoves, ZenonT(30)

\* A question fails.
LEMMA ReadErrorInv ==
  ASSUME ReadersTypeOK, \A y \in Clients : ClientInv(y), NEW x \in Clients, ReadError(x)
  PROVE  ReadersTypeOK' /\ \A y \in Clients : ClientInv(y)'
<1> DEFINE new == [at |-> "failed", asks |-> Idle, from |-> "none", rows |-> {},
                   due |-> {}, gone |-> {}, sure |-> {}, barred |-> {}]
<1>1. reader' = [reader EXCEPT ![x] = new]
  BY UnansweredFields, Zenon DEF ReadError, Move, Unanswered
<1>2. UNCHANGED <<replica, present, absent, beside, granted, revoked>>
  BY ZenonT(30) DEF ReadError, Move, vars
<1>3. new \in Reader
  BY Zenon DEF Reader
<1>4. ASSUME reader'[x] = new PROVE ClientInv(x)'
  <2>1. /\ reader'[x].at = "failed" /\ reader'[x].due = {} /\ reader'[x].gone = {}
        /\ reader'[x].sure = {} /\ reader'[x].barred = {}
    BY <1>4
  <2>2. ReaderInv(x)'
    BY <2>1, Zenon DEF ReaderInv
  <2>3. SeenAt(x)' /\ RemovalsAt(x)' /\ GrantsAt(x)'
    BY <2>1, Zenon DEF SeenAt, RemovalsAt, GrantsAt
  <2> QED BY <2>2, <2>3, Zenon DEF ClientInv
<1> HIDE DEF new
<1> QED BY <1>1, <1>2, <1>3, <1>4, ClientMoves, ZenonT(30)

\* A query returns rows of the tables, and all of those it is about.
LEMMA SelectedRows ==
  ASSUME NEW q \in Questions, NEW V, V \subseteq Row
  PROVE  /\ Selected(V, q) \subseteq V
         /\ Consistent(V) => Selected(Row, q) \cap V \subseteq Selected(V, q)
         /\ q.call = "TokenHook" => Selected(V, q) \subseteq MemberRows(Groups, {q.user})
<1>1. q.call \in GetCalls \cup {"TokenHook"}
  BY QuestionsExist, Zenon
<1>2. CASE q.call \in {"ListUserGroups", "TokenHook"}
  <2>1. \A W : Selected(W, q) = W \cap MemberRows(GroupIds(W), {q.user})
    BY <1>2, Zenon DEF Selected, SelectGroupsForUser
  <2>2. GroupIds(V) \subseteq Groups
    BY Zenon DEF GroupIds, GroupRows
  <2>3. Selected(V, q) \subseteq MemberRows(Groups, {q.user})
    BY <2>1, <2>2 DEF MemberRows
  <2>4. ASSUME Consistent(V) PROVE Selected(Row, q) \cap V \subseteq Selected(V, q)
    <3>1. \A z \in V : z[2] \in GroupIds(V)
      BY <2>4, Zenon DEF Consistent
    <3>2. ASSUME NEW z \in V, z \in MemberRows(GroupIds(Row), {q.user})
          PROVE  z \in MemberRows(GroupIds(V), {q.user})
      BY <3>1, <3>2, Zenon DEF MemberRows
    <3> QED BY <2>1, <3>2, Zenon
  <2> QED BY <1>2, <2>1, <2>3, <2>4, Zenon
<1>3. CASE q.call \notin {"ListUserGroups", "TokenHook"}
  <2>1. PICK S : \A W : Selected(W, q) = W \cap S
    <3>1. CASE q.call = "ListGroups"
      BY <3>1, Zenon DEF Selected, SelectGroups
    <3>2. CASE q.call = "GetGroup"
      BY <3>2, Zenon DEF Selected, SelectGroup
    <3>3. CASE q.call = "ListUsersInGroup"
      BY <3>3, Zenon DEF Selected, SelectUsersInGroup
    <3>4. CASE q.call = "GetAllowedAppsInGroup"
      BY <3>4, Zenon DEF Selected, SelectAllowedApps
    <3>5. CASE q.call = "GetAllowedGroupsForApp"
      BY <3>5, Zenon DEF Selected, SelectAllowedGroupsForApp
    <3> QED BY <1>1, <1>3, <3>1, <3>2, <3>3, <3>4, <3>5, ZenonT(30) DEF GetCalls
  <2> QED BY <1>3, <2>1, Zenon
<1> QED BY <1>2, <1>3, Zenon

\* The records of a client that has read the tables, and of one with a decision.
Fetched(c, from, R, place) == [c EXCEPT !.from = from, !.rows = R, !.at = place]

Decided(c, place) == [c EXCEPT !.at = place]

\* The fields of the first ...
LEMMA FetchedFields ==
  ASSUME NEW c \in Reader, NEW from, NEW R, NEW place
  PROVE  /\ Fetched(c, from, R, place).at = place /\ Fetched(c, from, R, place).asks = c.asks
         /\ Fetched(c, from, R, place).from = from /\ Fetched(c, from, R, place).rows = R
         /\ Fetched(c, from, R, place).due = c.due /\ Fetched(c, from, R, place).gone = c.gone
         /\ Fetched(c, from, R, place).sure = c.sure /\ Fetched(c, from, R, place).barred = c.barred
BY Zenon DEF Fetched, Reader

\* ... its type ...
LEMMA FetchedIsReader ==
  ASSUME NEW c \in Reader, NEW from \in {"primary", "replica"}, NEW R \in SUBSET Row,
         NEW place \in {"answered", "notFound", "check"}
  PROVE  Fetched(c, from, R, place) \in Reader
BY Zenon DEF Fetched, Reader

\* ... and both of the second.
LEMMA DecidedFields ==
  ASSUME NEW c \in Reader, NEW place \in {"allowed", "denied"}
  PROVE  /\ Decided(c, place) \in Reader
         /\ Decided(c, place).at = place /\ Decided(c, place).asks = c.asks
         /\ Decided(c, place).from = c.from /\ Decided(c, place).rows = c.rows
         /\ Decided(c, place).due = c.due /\ Decided(c, place).gone = c.gone
         /\ Decided(c, place).sure = c.sure /\ Decided(c, place).barred = c.barred
BY Zenon DEF Decided, Reader

\* A query on the tables.
LEMMA QueryInv ==
  ASSUME ReadersTypeOK, TypeOK, TablesConsistent, SettledInv, \A y \in Clients : ClientInv(y),
         NEW x \in Clients, NEW call, NEW found, NEW empty, Query(x, call, found, empty),
         {found, empty} \subseteq {"answered", "notFound", "check"},
         call = "TokenHook" \/ (found # "check" /\ empty # "check")
  PROVE  ReadersTypeOK' /\ \A y \in Clients : ClientInv(y)'
<1> DEFINE c == reader[x]
           q == reader[x].asks
           base(from) == IF from = "primary" THEN rows ELSE replica
           R(from) == Selected(base(from), q)
           place(from) == IF R(from) = {} THEN empty ELSE found
<1>1. PICK from \in Routes(q) :
        Move(x, [c EXCEPT !.from = from, !.rows = R(from), !.at = place(from)])
  BY Zenon DEF Query
<1> DEFINE new == Fetched(c, from, R(from), place(from))
<1>2. reader' = [reader EXCEPT ![x] = new]
  BY <1>1, Zenon DEF Move, Fetched
<1>3. UNCHANGED <<replica, present, absent, beside, granted, revoked>>
  BY <1>1, Zenon DEF Move, vars
<1>4. c \in Reader /\ c.at = "query" /\ q.call = call
  BY Zenon DEF Query, ReadersTypeOK
<1>5. /\ q \in Questions /\ c.due \subseteq Selected(Row, q)
      /\ c.due \subseteq present /\ c.gone \subseteq absent
      /\ c.sure \subseteq granted /\ c.barred \subseteq revoked
  BY <1>4, Zenon DEF ClientInv, ReaderInv
<1>6. /\ from \in {"primary", "replica"} /\ (q.call = "TokenHook" => from = "primary")
      /\ base(from) \subseteq Row
  BY <1>1, Zenon DEF Routes, TypeOK, ReadersTypeOK
<1>7. /\ R(from) \subseteq base(from)
      /\ q.call = "TokenHook" => R(from) \subseteq MemberRows(Groups, {q.user})
  BY <1>5, <1>6, SelectedRows, Zenon
<1>8. from = "primary" => c.due \subseteq R(from) /\ c.gone \cap R(from) = {}
  <2>1. Selected(Row, q) \cap rows \subseteq Selected(rows, q)
    BY <1>5, SelectedRows, ZenonT(30) DEF TypeOK, TablesConsistent
  <2>2. present \subseteq rows /\ absent \cap rows = {}
    BY Zenon DEF SettledInv
  <2> QED BY <1>5, <1>7, <2>1, <2>2, Zenon
<1>9. /\ place(from) \in {"answered", "notFound", "check"}
      /\ place(from) = "check" => q.call = "TokenHook"
  BY <1>4, Zenon
<1>10. R(from) \in SUBSET Row
  BY <1>6, <1>7, Zenon
<1> HIDE DEF base, R, place, c
<1>11. new \in Reader
  BY <1>4, <1>6, <1>9, <1>10, FetchedIsReader, ZenonT(30)
<1>12. ASSUME reader'[x] = new PROVE ClientInv(x)'
  <2>1. /\ reader'[x].at = place(from) /\ reader'[x].asks = c.asks /\ reader'[x].from = from
        /\ reader'[x].rows = R(from)
        /\ reader'[x].due = c.due /\ reader'[x].gone = c.gone
        /\ reader'[x].sure = c.sure /\ reader'[x].barred = c.barred
    BY <1>4, <1>12, FetchedFields
  <2>2. c.asks = q
    BY Zenon DEF c
  <2>3. ReaderInv(x)'
    BY <1>3, <1>5, <1>7, <1>9, <2>1, <2>2, Zenon DEF ReaderInv
  <2>4. SeenAt(x)'
    BY <1>6, <1>8, <2>1, <2>2, Zenon DEF SeenAt
  <2>5. RemovalsAt(x)' /\ GrantsAt(x)'
    BY <1>9, <2>1, Zenon DEF RemovalsAt, GrantsAt
  <2> QED BY <2>3, <2>4, <2>5, Zenon DEF ClientInv
<1> HIDE DEF new
<1> QED BY <1>2, <1>3, <1>11, <1>12, ClientMoves, ZenonT(30)

\* The decision of the token hook.
LEMMA AuthorizeInv ==
  ASSUME ReadersTypeOK, RevokedMeansNoTuple, GrantedMeansTuple, \A y \in Clients : ClientInv(y),
         NEW x \in Clients, AuthorizeRequest(x)
  PROVE  ReadersTypeOK' /\ \A y \in Clients : ClientInv(y)'
<1> DEFINE c == reader[x]
           groups == {y[2] : y \in c.rows}
           ok == CanAccess(groups, c.asks.apps)
           place == IF ok THEN "allowed" ELSE "denied"
           new == Decided(c, place)
<1>1. reader' = [reader EXCEPT ![x] = new]
  BY Zenon DEF AuthorizeRequest, Move, Decided
<1>2. UNCHANGED <<replica, present, absent, beside, granted, revoked>>
  BY Zenon DEF AuthorizeRequest, Move, vars
<1>3. c \in Reader /\ c.at = "check"
  BY Zenon DEF AuthorizeRequest, ReadersTypeOK
<1>4. /\ c.asks.call = "TokenHook" /\ c.rows \subseteq MemberRows(Groups, {c.asks.user})
      /\ c.due \subseteq present /\ c.gone \subseteq absent
      /\ c.sure \subseteq granted /\ c.barred \subseteq revoked
  BY <1>3, ZenonT(30) DEF ClientInv, ReaderInv
<1>5. c.due \subseteq c.rows /\ c.gone \cap c.rows = {}
  BY <1>3, <1>4, Zenon DEF ClientInv, SeenAt
<1>6. \A y \in c.rows : y = <<"member", y[2], c.asks.user>> /\ y[2] \in Groups
  BY <1>4 DEF MemberRows
<1>7. ASSUME ok, NEW a \in c.asks.apps
      PROVE  \E g \in Groups : <<"member", g, c.asks.user>> \notin c.gone /\ <<g, a>> \notin c.barred
  <2>1. PICK y \in c.rows : <<y[2], a>> \in tuples
    BY <1>7, ZenonT(30) DEF CanAccess
  <2>2. y[2] \in Groups /\ <<"member", y[2], c.asks.user>> \notin c.gone
    BY <1>5, <1>6, <2>1, Zenon
  <2>3. <<y[2], a>> \notin c.barred
    BY <1>4, <2>1, Zenon DEF RevokedMeansNoTuple
  <2> QED BY <2>2, <2>3, Zenon
<1>8. ASSUME ~ok
      PROVE  \E a \in c.asks.apps : \A g \in Groups :
               ~(<<"member", g, c.asks.user>> \in c.due /\ <<g, a>> \in c.sure)
  <2>1. PICK a \in c.asks.apps : \A g \in groups : <<g, a>> \notin tuples
    BY <1>8, Zenon DEF CanAccess
  <2>2. ASSUME NEW g \in Groups, <<"member", g, c.asks.user>> \in c.due PROVE g \in groups
    BY <1>5, <2>2
  <2>3. c.sure \subseteq tuples
    BY <1>4, Zenon DEF GrantedMeansTuple
  <2> QED BY <2>1, <2>2, <2>3, Zenon
<1>9. place \in {"allowed", "denied"} /\ (place = "allowed" <=> ok)
  BY Zenon
<1> HIDE DEF c, ok, place
<1>10. new \in Reader
  BY <1>3, <1>9, DecidedFields, Zenon
<1>11. ASSUME reader'[x] = new PROVE ClientInv(x)'
  <2>1. /\ reader'[x].at = place /\ reader'[x].asks = c.asks /\ reader'[x].from = c.from
        /\ reader'[x].rows = c.rows
        /\ reader'[x].due = c.due /\ reader'[x].gone = c.gone
        /\ reader'[x].sure = c.sure /\ reader'[x].barred = c.barred
    BY <1>3, <1>9, <1>11, DecidedFields
  <2>2. ReaderInv(x)'
    BY <1>2, <1>4, <1>9, <2>1, Zenon DEF ReaderInv
  <2>3. SeenAt(x)'
    BY <1>5, <2>1, ZenonT(30) DEF SeenAt
  <2>4. RemovalsAt(x)'
    BY <1>7, <1>9, <2>1, Zenon DEF RemovalsAt
  <2>5. GrantsAt(x)'
    BY <1>8, <1>9, <2>1, Zenon DEF GrantsAt
  <2> QED BY <2>2, <2>3, <2>4, <2>5, ZenonT(30) DEF ClientInv
<1> HIDE DEF new
<1> QED BY <1>1, <1>2, <1>10, <1>11, ClientMoves, Zenon

-----------------------------------------------------------------------------
(***************************************************************************)
(* The steps of both, and the theorems.                                     *)
(***************************************************************************)

\* What a call asks to remove are rows.
LEMMA TakesRows ==
  ASSUME NEW o \in Calls
  PROVE  Takes(o) \subseteq Row
<1>1. {<<"grant", p[1], p[2]>> : p \in Revokes(o)} \subseteq GrantRows(Groups, Apps)
  <2>1. \A p \in Groups \X Apps : <<"grant", p[1], p[2]>> \in GrantRows(Groups, Apps)
    BY Zenon DEF GrantRows
  <2> QED BY <2>1, CallTypes, Zenon
<1>2. CASE o.call = "RemoveGroup"
  BY <1>1, <1>2, Zenon DEF Takes, OfGroup, Row
<1>3. CASE o.call = "UpdateGroup"
  <2>1. o.group \in Groups
    BY <1>3, CallsTyped, Zenon
  <2>2. GroupRows({o.group}, Names \ {NoName}) \subseteq GroupRows(Groups, Names)
    BY <2>1, Zenon DEF GroupRows
  <2> QED BY <1>1, <1>3, <2>2, ZenonT(30) DEF Takes, Row
<1>4. CASE o.call = "RemoveUsersFromGroup"
  <2>1. o.group \in Groups /\ o.users \subseteq Users
    BY <1>4, CallsTyped, Zenon DEF GroupsCommands
  <2>2. MemberRows({o.group}, o.users) \subseteq MemberRows(Groups, Users)
    BY <2>1, Zenon DEF MemberRows
  <2> QED BY <1>1, <1>4, <2>2, ZenonT(30) DEF Takes, Row
<1>5. CASE o.call = "AddUserToGroups"
  <2>1. o.user \in Users
    BY <1>5, CallsTyped, Zenon DEF UsersCommands
  <2>2. MemberRows(Groups \ o.groups, {o.user}) \subseteq MemberRows(Groups, Users)
    BY <2>1, Zenon DEF MemberRows
  <2> QED BY <1>1, <1>5, <2>2, Zenon DEF Takes, Row
<1>6. CASE o.call = "RemoveUserFromAllGroups"
  <2>1. o.user \in Users
    BY <1>6, CallsTyped, Zenon DEF UsersCommands
  <2>2. MemberRows(Groups, {o.user}) \subseteq MemberRows(Groups, Users)
    BY <2>1, Zenon DEF MemberRows
  <2> QED BY <1>1, <1>6, <2>2, Zenon DEF Takes, Row
<1>7. CASE o.call \notin {"RemoveGroup", "UpdateGroup", "RemoveUsersFromGroup", "AddUserToGroups",
                          "RemoveUserFromAllGroups"}
  BY <1>1, <1>7, Zenon DEF Takes, Row
<1> QED BY <1>2, <1>3, <1>4, <1>5, <1>6, <1>7, ZenonT(30)

\* Only an arrival unsettles a grant.
LEMMA GrantsStay ==
  ASSUME NEW r \in Requests, DbStep(r) \/ FgaStep(r) \/ Reply(r) \/ EndStep(r)
  PROVE  granted \subseteq granted' /\ revoked \subseteq revoked'
<1>1. CASE Reply(r)
  BY <1>1, Zenon DEF Reply
<1>2. CASE DbStep(r)
  <2>1. granted' = granted /\ revoked' = revoked
    BY <1>2, ZenonT(30) DEF DbStep, CreateGroup, UpdateGroup, DeleteGroup, AddUsersToGroup,
       RemoveUsersFromGroup, RemoveUserFromAllGroups, UpdateGroupsForUser, UpsertGroupsForUser,
       AddAllowedApp, RemoveAllowedApp, RemoveAllowedApps, RemoveAllAllowedGroupsForApp,
       StatementFails, TxExpires, Exec, pairVars
  <2> QED BY <2>1, ZenonT(30)
<1>3. CASE FgaStep(r) \/ EndStep(r)
  <2>1. granted' = granted /\ revoked' = revoked
    BY <1>3, Zenon DEF FgaStep, WriteTuple, DeleteTuple, ReadTuples, ReadFails, DeleteTuples,
       EndStep, Commit, CommitFails, Rollback, NoTx, EndTx, pairVars
  <2> QED BY <2>1, Zenon
<1> QED BY <1>1, <1>2, <1>3, Zenon

\* A request arrives.
LEMMA ArriveReaders ==
  ASSUME Base, TypeOK', ReadersInv, NEW r \in Requests, OnlyAt(r), Arrive(r), Unsettle(r)
  PROVE  ReadersInv'
<1>1. TypeOK /\ ReadersTypeOK /\ SettledInv /\ \A x \in Clients : ClientInv(x)
  BY ReadersParts, Zenon DEF Base
<1>2. SettledInv'
  BY <1>1, ArriveSettled, Zenon
<1>3. ASSUME NEW x \in Clients PROVE Waits(x) /\ reader'[x] \in Reader
  <2>1. ReaderInv(x)
    BY <1>1, Zenon DEF ClientInv
  <2> QED BY <1>1, <2>1, ArriveWaits, ZenonT(30)
<1>4. \A x \in Clients : ClientInv(x)'
  BY <1>1, <1>3, WaitsInv, ZenonT(30)
<1>5. reader' \in [Clients -> Reader]
  <2>1. reader' = [x \in Clients |-> reader'[x]]
    BY Zenon DEF Unsettle
  <2> QED BY <1>3, <2>1, Zenon
<1>6. present' \subseteq present /\ absent' \subseteq absent /\ replica' = replica
  BY Zenon DEF Unsettle
<1>7. beside' \in [Requests -> SUBSET Requests]
  BY <1>1, Zenon DEF Unsettle, ReadersTypeOK, InFlight
<1>8. ReadersTypeOK'
  BY <1>1, <1>5, <1>6, <1>7, ZenonT(30) DEF ReadersTypeOK
<1> QED BY <1>2, <1>4, <1>8, ReadersPartsNext, ZenonT(30)

\* The other steps of a request.
LEMMA WorkReaders ==
  ASSUME Base, TypeOK', ReadersInv, NEW r \in Requests, OnlyAt(r),
         DbStep(r) \/ FgaStep(r) \/ Reply(r), UNCHANGED readVars
  PROVE  ReadersInv'
<1>1. TypeOK /\ TxInv(r) /\ ReadersTypeOK /\ SettledInv /\ \A x \in Clients : ClientInv(x)
  BY ReadersParts, Zenon DEF Base, TablesInv
<1>2. UNCHANGED <<beside, present, absent>> /\ reader' = reader /\ replica' = replica
  BY Zenon DEF readVars
<1>3. SettledInv'
  <2>1. CASE DbStep(r)
    <3>1. pc[r] # "idle" \/ TxExpires(r)
      BY <2>1, ZenonT(30) DEF DbStep, CreateGroup, UpdateGroup, DeleteGroup, AddUsersToGroup,
         RemoveUsersFromGroup, RemoveUserFromAllGroups, UpdateGroupsForUser, UpsertGroupsForUser,
         AddAllowedApp, RemoveAllowedApp, RemoveAllowedApps, RemoveAllAllowedGroupsForApp,
         StatementFails, At
    <3>2. CASE StatementFails(r) \/ TxExpires(r)
      BY <1>1, <1>2, <3>2, FaultSettled, ZenonT(30)
    <3>3. CASE ~(StatementFails(r) \/ TxExpires(r))
      <4>1. op[r] \in Calls
        BY <1>1, <3>1, <3>3, Zenon DEF TxInv
      <4>2. PICK s, next : Carries(r, s, next)
        BY <2>1, <3>3, <4>1, DbStepCarries, Zenon
      <4> QED BY <1>1, <1>2, <4>2, CarriesSettled, ZenonT(30)
    <3> QED BY <3>2, <3>3, Zenon
  <2>2. CASE FgaStep(r) \/ Reply(r)
    BY <1>1, <1>2, <2>2, FgaSettled, Zenon
  <2> QED BY <2>1, <2>2, Zenon
<1>4. granted \subseteq granted' /\ revoked \subseteq revoked'
  BY GrantsStay, Zenon
<1>5. ASSUME NEW x \in Clients PROVE ClientInv(x)'
  <2>1. ReaderInv(x) /\ ClientInv(x)
    BY <1>1, ZenonT(30) DEF ClientInv
  <2>2. Waits(x)
    BY <1>2, <1>4, <2>1, OtherWaits, ZenonT(30)
  <2> QED BY <2>1, <2>2, WaitsInv, ZenonT(30)
<1>6. ReadersTypeOK'
  BY <1>1, <1>2, ZenonT(30) DEF ReadersTypeOK
<1> QED BY <1>3, <1>5, <1>6, ReadersPartsNext, Zenon

\* The transaction of a request ends.
LEMMA EndReaders ==
  ASSUME Base, TypeOK', ReadersInv, NEW r \in Requests, OnlyAt(r), EndStep(r), Settle(r)
  PROVE  ReadersInv'
<1>1. TypeOK /\ TxInv(r) /\ ReadersTypeOK /\ SettledInv /\ \A x \in Clients : ClientInv(x)
  BY ReadersParts, Zenon DEF Base, TablesInv
<1>2. SettledInv'
  BY <1>1, EndSettled, ZenonT(30)
<1>3. /\ beside' = beside /\ reader' = reader /\ replica' = replica
      /\ present \subseteq present' /\ absent \subseteq absent'
      /\ absent' \subseteq absent \cup Takes(op[r])
  BY Zenon DEF Settle
<1>4. granted \subseteq granted' /\ revoked \subseteq revoked'
  BY GrantsStay, Zenon
<1>5. ASSUME NEW x \in Clients PROVE ClientInv(x)'
  <2>1. ReaderInv(x) /\ ClientInv(x)
    BY <1>1, Zenon DEF ClientInv
  <2>2. Waits(x)
    BY <1>3, <1>4, <2>1, OtherWaits, ZenonT(30)
  <2> QED BY <2>1, <2>2, WaitsInv, Zenon
<1>6. Takes(op[r]) \subseteq Row
  <2>1. pc[r] = "finish"
    BY <1>1, EndPlace, ZenonT(30)
  <2>2. op[r] \in Calls
    BY <1>1, <2>1, ZenonT(30) DEF TxInv
  <2> QED BY <2>2, TakesRows, Zenon
<1>7. present' \subseteq Row /\ absent' \subseteq Row
  BY <1>1, <1>2, <1>3, <1>6, ZenonT(30) DEF ReadersTypeOK, SettledInv, TypeOK
<1>8. ReadersTypeOK'
  BY <1>1, <1>3, <1>7, Zenon DEF ReadersTypeOK
<1> QED BY <1>2, <1>5, <1>8, ReadersPartsNext, Zenon

\* A client asks, reads, decides or fails.
LEMMA ClientReaders ==
  ASSUME Base, ReadersInv, NEW x \in Clients, ClientStep(x)
  PROVE  ReadersTypeOK' /\ \A y \in Clients : ClientInv(y)'
<1>1. TypeOK /\ ReadersTypeOK /\ SettledInv /\ \A y \in Clients : ClientInv(y)
  BY ReadersParts, ZenonT(30) DEF Base
<1>2. TablesConsistent /\ RevokedMeansNoTuple /\ GrantedMeansTuple
  BY Zenon DEF Base, TablesInv, LocksInv, GrantInv
<1>3. CASE Ask(x) \/ ReadError(x)
  BY <1>1, <1>3, AskInv, ReadErrorInv, Zenon
<1>4. CASE AuthorizeRequest(x)
  BY <1>1, <1>2, <1>4, AuthorizeInv, ZenonT(30)
<1>5. CASE FetchUserGroups(x)
  <2>1. {"check", "check"} \subseteq {"answered", "notFound", "check"}
    BY Zenon
  <2> QED BY <1>1, <1>2, <1>5, <2>1, QueryInv, ZenonT(30) DEF FetchUserGroups
<1>6. CASE GetGroup(x)
  <2>1. /\ {"answered", "notFound"} \subseteq {"answered", "notFound", "check"}
        /\ "answered" # "check" /\ "notFound" # "check"
    BY Zenon
  <2> QED BY <1>1, <1>2, <1>6, <2>1, QueryInv, Zenon DEF GetGroup
<1>7. CASE \/ ListGroups(x) \/ ListUsersInGroup(x) \/ ListUserGroups(x)
           \/ GetAllowedAppsInGroup(x) \/ GetAllowedGroupsForApp(x)
  <2>1. /\ {"answered", "answered"} \subseteq {"answered", "notFound", "check"}
        /\ "answered" # "check"
    BY Zenon
  <2>2. PICK call : Query(x, call, "answered", "answered")
    BY <1>7, Zenon DEF ListGroups, ListUsersInGroup, ListUserGroups, GetAllowedAppsInGroup,
                       GetAllowedGroupsForApp
  <2> QED BY <1>1, <1>2, <2>1, <2>2, QueryInv, ZenonT(30)
<1> QED BY <1>3, <1>4, <1>5, <1>6, <1>7, Zenon DEF ClientStep

\* A step of a client or of the replica is none of AdminApi.
LEMMA ReadersStutter ==
  ASSUME NEW x, ClientStep(x) \/ Replay
  PROVE  UNCHANGED vars /\ UNCHANGED <<present, absent, beside>>
BY Zenon DEF ClientStep, Ask, ListGroups, GetGroup, ListUsersInGroup, ListUserGroups,
   GetAllowedAppsInGroup, GetAllowedGroupsForApp, FetchUserGroups, AuthorizeRequest, ReadError,
   Query, Move, Replay

\* SettledInv is about the variables of AdminApi, and about what is confirmed.
LEMMA SettledSame ==
  ASSUME SettledInv, UNCHANGED vars, UNCHANGED <<present, absent, beside>>
  PROVE  SettledInv'
<1>1. /\ rows' = rows /\ pc' = pc /\ op' = op /\ started' = started /\ adds' = adds
      /\ drops' = drops /\ status' = status /\ ended' = ended
  BY Zenon DEF vars
<1>2. present' = present /\ absent' = absent /\ beside' = beside
  BY Zenon
<1>3. InFlight' = InFlight
  BY <1>1, Zenon DEF InFlight
<1>4. ASSUME NEW r \in Requests PROVE SettledAt(r)'
  <2>1. SettledAt(r)
    BY Zenon DEF SettledInv
  <2>2. View(r)' = View(r)
    BY <1>1, Zenon DEF View
  <2>3. /\ Carried(r)' <=> Carried(r)
        /\ Cleared(r)' <=> Cleared(r)
        /\ Filled(r)' <=> Filled(r)
        /\ OwnRows(r)' <=> OwnRows(r)
    BY <1>1, <1>2, <2>2, Zenon DEF Carried, Cleared, Filled, OwnRows
  <2> QED BY <1>1, <1>2, <2>1, <2>3, Zenon DEF SettledAt
<1> QED BY <1>1, <1>2, <1>3, <1>4, Zenon DEF SettledInv

\* The replica catches up, or nothing happens.
LEMMA ReplicaReaders ==
  ASSUME Base, ReadersInv, UNCHANGED vars, UNCHANGED <<present, absent, beside>>,
         reader' = reader, replica' \in {replica, rows}
  PROVE  ReadersInv'
<1>1. TypeOK /\ ReadersTypeOK /\ SettledInv /\ \A x \in Clients : ClientInv(x)
  BY ReadersParts, Zenon DEF Base
<1>2. SettledInv'
  BY <1>1, SettledSame, ZenonT(30)
<1>3. granted' = granted /\ revoked' = revoked
  BY Zenon DEF vars
<1>4. ASSUME NEW x \in Clients PROVE ClientInv(x)'
  <2>1. ReaderInv(x) /\ ClientInv(x)
    BY <1>1, ZenonT(30) DEF ClientInv
  <2>2. Waits(x)
    BY <1>3, <2>1, OtherWaits, ZenonT(30)
  <2> QED BY <2>1, <2>2, WaitsInv, Zenon
<1>5. ReadersTypeOK'
  BY <1>1, Zenon DEF ReadersTypeOK, TypeOK
<1> QED BY <1>2, <1>4, <1>5, ReadersPartsNext, Zenon

\* The tables start with nothing in flight.
LEMMA InitReaders == ReadersInit => ReadersInv
<1> SUFFICES ASSUME ReadersInit PROVE ReadersInv
  BY Zenon
<1>1. TypeOK
  BY InitTypeOK, ZenonT(30) DEF ReadersInit
<1>2. InFlight = {}
  BY ZenonT(30) DEF ReadersInit, Init, InFlight
<1>3. ASSUME NEW r \in Requests PROVE SettledAt(r)
  <2>1. /\ pc[r] = "idle" /\ adds[r] = {} /\ drops[r] = {} /\ ended[r] = "no"
        /\ beside[r] = {}
    BY Zenon DEF ReadersInit, Init
  <2>2. OwnRows(r) /\ ~Carried(r)
    BY <2>1, Zenon DEF OwnRows, Carried
  <2> QED BY <2>1, <2>2, Zenon DEF SettledAt
<1>4. SettledInv
  <2>1. present \subseteq rows /\ absent \cap rows = {}
    BY Zenon DEF ReadersInit
  <2> QED BY <1>2, <1>3, <2>1, Zenon DEF SettledInv
<1>5. ReadersTypeOK
  <2>1. rows \subseteq Row
    BY <1>1, Zenon DEF TypeOK
  <2> QED BY <2>1, NobodyIsReader, Zenon DEF ReadersInit, ReadersTypeOK
<1>6. ASSUME NEW x \in Clients PROVE ClientInv(x)
  <2>1. reader[x] = Nobody
    BY Zenon DEF ReadersInit
  <2>2. /\ reader[x].at = "idle" /\ reader[x].due = {} /\ reader[x].gone = {}
        /\ reader[x].sure = {} /\ reader[x].barred = {}
    BY <2>1 DEF Nobody
  <2>3. ReaderInv(x)
    BY <2>2, Zenon DEF ReaderInv
  <2>4. SeenAt(x) /\ RemovalsAt(x) /\ GrantsAt(x)
    BY <2>2, Zenon DEF SeenAt, RemovalsAt, GrantsAt
  <2> QED BY <2>3, <2>4, Zenon DEF ClientInv
<1> QED BY <1>4, <1>5, <1>6, ReadersParts, Zenon

\* Every step keeps the invariant.
LEMMA StepReaders ==
  ASSUME Base, TypeOK', ReadersInv, [ReadersNext]_allVars
  PROVE  ReadersInv'
<1>1. ASSUME NEW r \in Requests, AdminStep(r) PROVE ReadersInv'
  <2>1. Arrive(r) \/ DbStep(r) \/ FgaStep(r) \/ Reply(r) \/ EndStep(r)
    BY <1>1, Zenon DEF AdminStep
  <2>2. OnlyAt(r)
    BY <2>1, StepOnlyAt, ZenonT(30)
  <2>3. CASE Arrive(r) /\ Unsettle(r)
    BY <2>2, <2>3, ArriveReaders, Zenon
  <2>4. CASE (DbStep(r) \/ FgaStep(r) \/ Reply(r)) /\ UNCHANGED readVars
    BY <2>2, <2>4, WorkReaders, Zenon
  <2>5. CASE EndStep(r) /\ Settle(r)
    BY <2>2, <2>5, EndReaders, Zenon
  <2> QED BY <1>1, <2>3, <2>4, <2>5, Zenon DEF AdminStep
<1>2. ASSUME NEW x \in Clients, ClientStep(x) PROVE ReadersInv'
  <2>1. UNCHANGED vars /\ UNCHANGED <<present, absent, beside>>
    BY <1>2, ReadersStutter, ZenonT(30)
  <2>2. SettledInv'
    BY <2>1, SettledSame, ReadersParts, Zenon
  <2>3. ReadersTypeOK' /\ \A y \in Clients : ClientInv(y)'
    BY <1>2, ClientReaders, Zenon
  <2> QED BY <2>2, <2>3, ReadersPartsNext, ZenonT(30)
<1>3. CASE Replay
  <2>1. /\ UNCHANGED vars /\ UNCHANGED <<present, absent, beside>> /\ reader' = reader
        /\ replica' \in {replica, rows}
    BY <1>3, ZenonT(30) DEF Replay
  <2> QED BY <2>1, ReplicaReaders, Zenon
<1>4. CASE UNCHANGED allVars
  <2>1. /\ UNCHANGED vars /\ UNCHANGED <<present, absent, beside>> /\ reader' = reader
        /\ replica' \in {replica, rows}
    BY <1>4, Zenon DEF allVars, readVars
  <2> QED BY <2>1, ReplicaReaders, Zenon
<1> QED BY <1>1, <1>2, <1>3, <1>4, Zenon DEF ReadersNext

\* The requests beside the readers do what they do without them.
LEMMA ReadersImplementSpec ==
  /\ ReadersInit => Init
  /\ [ReadersNext]_allVars => [Next]_vars
<1>1. ReadersInit => Init
  BY Zenon DEF ReadersInit
<1>2. ASSUME NEW r \in Requests, AdminStep(r) PROVE Next
  <2>1. Arrive(r) \/ DbStep(r) \/ FgaStep(r) \/ Reply(r) \/ EndStep(r)
    BY <1>2, Zenon DEF AdminStep
  <2> QED BY <2>1, Zenon DEF Next
<1>3. ASSUME NEW x, ClientStep(x) \/ Replay PROVE UNCHANGED vars
  BY <1>3, ReadersStutter, ZenonT(30)
<1>4. UNCHANGED allVars => UNCHANGED vars
  BY Zenon DEF allVars
<1>5. [ReadersNext]_allVars => [Next]_vars
  BY <1>2, <1>3, <1>4, Zenon DEF ReadersNext
<1> QED BY <1>1, <1>5, Zenon

\* The inductive invariant of the readers holds always: what a client waits
\* for is settled, and settled rows are as the requests that committed have
\* left them.
THEOREM ReadersInvariant == ReadersSpec => []ReadersInv
<1>1. ReadersInit => Init /\ ReadersInv
  BY InitReaders, ReadersImplementSpec, Zenon
<1>2. [ReadersNext]_allVars => [Next]_vars
  BY ReadersImplementSpec, Zenon
<1>3. AdminInv /\ AdminInv' /\ Domains /\ GrantInv /\ ReadersInv /\ [ReadersNext]_allVars => ReadersInv'
  <2>1. AdminInv /\ Domains /\ GrantInv => Base
    BY Zenon DEF Base, AdminInv
  <2>2. AdminInv' => TypeOK'
    BY Zenon DEF AdminInv
  <2> QED BY <2>1, <2>2, StepReaders, ZenonT(30)
<1> QED BY <1>1, <1>2, <1>3, AdminInvariant, GrantInvariant, PTL DEF ReadersSpec, Spec

\* A read on the primary, by a GET handler or by the token hook, sees what was
\* committed and answered before it came, for every number of requests and
\* clients and under every fault.
THEOREM CommittedStaysSeen == ReadersSpec => []CommittedIsSeen
<1>1. ReadersInv => CommittedIsSeen
  BY Zenon DEF ReadersInv
<1> QED BY <1>1, ReadersInvariant, PTL

\* The token hook allows nobody through a membership whose removal was
\* committed, or a grant whose removal was answered with success, before it was
\* called; RemoveAllowedGroupsForApp removes no grant.
THEOREM RemovalsStayHonoured == ReadersSpec => []HookHonoursRemovals
<1>1. ReadersInv => HookHonoursRemovals
  BY Zenon DEF ReadersInv
<1> QED BY <1>1, ReadersInvariant, PTL

\* The token hook denies nobody whose membership was committed, and whose grant
\* was answered with success, before it was called, and not asked to be removed
\* since.
THEOREM GrantsStayHonoured == ReadersSpec => []HookHonoursGrants
<1>1. ReadersInv => HookHonoursGrants
  BY Zenon DEF ReadersInv
<1> QED BY <1>1, ReadersInvariant, PTL
=============================================================================
