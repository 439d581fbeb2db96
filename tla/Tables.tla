------------------------------- MODULE Tables -------------------------------
(***************************************************************************)
(* The tables groups, group_members and application_groups, and the SQL     *)
(* statements that internal/storage runs on them, as PostgreSQL executes    *)
(* them under READ COMMITTED.                                               *)
(*                                                                          *)
(* A row is a triple: its table, the group it belongs to, and its other     *)
(* key column. A statement is evaluated on the rows V that its session sees *)
(* and yields                                                               *)
(*   needs   the rows no other open transaction may have written: the       *)
(*           statement waits for their locks                                *)
(*   drops   the rows it deletes                                            *)
(*   adds    the rows it inserts, or updates in place                       *)
(*   error   the constraint it violates                                     *)
(***************************************************************************)
CONSTANTS
  Groups,   \* group ids
  Names,    \* group names
  Users,
  Apps,     \* client ids of applications
  NoName    \* the empty string

ASSUME NoNameIsAName == NoName \in Names

GroupRows(G, N) == {"group"} \X G \X N

MemberRows(G, U) == {"member"} \X G \X U

GrantRows(G, A) == {"grant"} \X G \X A

Row ==
  GroupRows(Groups, Names) \cup MemberRows(Groups, Users) \cup GrantRows(Groups, Apps)

OfGroup(g) == {x \in Row : x[2] = g}

GroupIds(V) == {x[2] : x \in V \cap GroupRows(Groups, Names)}

\* The content of application_groups.
Grants(V) == {<<x[2], x[3]>> : x \in V \cap GrantRows(Groups, Apps)}

\* The content of group_members.
Members(V) == {<<x[2], x[3]>> : x \in V \cap MemberRows(Groups, Users)}

\* The foreign keys hold and idx_groups_name is unique.
Consistent(V) ==
  /\ \A x \in V : x[2] \in GroupIds(V)
  /\ \A x, y \in V \cap GroupRows(Groups, Names) : x[2] = y[2] <=> x[3] = y[3]

-----------------------------------------------------------------------------
\* Variant of InsertGroup: groups without idx_groups_name.
InsertGroupAnyName(V, g, n) ==
  [needs |-> GroupRows({g}, {n}),
   drops |-> {},
   adds  |-> GroupRows({g}, {n}),
   error |-> "none"]

\* INSERT INTO groups
InsertGroup(V, g, n) ==
  [needs |-> GroupRows(Groups, {n}),
   drops |-> {},
   adds  |-> GroupRows({g}, {n}),
   error |-> IF GroupRows(Groups, {n}) \cap V # {} THEN "duplicate" ELSE "none"]

\* UPDATE groups SET name = n WHERE id = g. The name is a key column: the
\* statement waits for the transactions that hold a reference to the group.
RenameGroup(V, g, n) ==
  [needs |-> GroupRows(Groups, {n}) \cup
             {x \in OfGroup(g) : x[1] = "group" \/ x \notin V},
   drops |-> GroupRows({g}, Names) \cap V,
   adds  |-> GroupRows({g}, {n}),
   error |-> IF g \notin GroupIds(V) THEN "notFound"
             ELSE IF GroupRows(Groups \ {g}, {n}) \cap V # {} THEN "duplicate"
             ELSE "none"]

\* Variant of DropGroup: application_groups without ON DELETE CASCADE.
DropGroupKeepGrants(V, g) ==
  [needs |-> IF g \in GroupIds(V) THEN OfGroup(g) ELSE {},
   drops |-> (OfGroup(g) \cap V) \ GrantRows({g}, Apps),
   adds  |-> {},
   error |-> "none"]

\* DELETE FROM groups WHERE id = g, with its cascades.
DropGroup(V, g) ==
  [needs |-> IF g \in GroupIds(V) THEN OfGroup(g) ELSE {},
   drops |-> OfGroup(g) \cap V,
   adds  |-> {},
   error |-> "none"]

\* A DELETE of the selected rows.
Delete(V, selected) ==
  [needs |-> selected \cap V,
   drops |-> selected \cap V,
   adds  |-> {},
   error |-> "none"]

\* DELETE FROM group_members ...
DeleteMembers(V, g, U) == Delete(V, MemberRows({g}, U))

DeleteMemberships(V, u) == Delete(V, MemberRows(Groups, {u}))

\* ... WHERE user_id = u AND group_id NOT IN kept
DeleteOtherMemberships(V, u, kept) == Delete(V, MemberRows(Groups \ kept, {u}))

\* DELETE FROM application_groups ...
DeleteGrant(V, g, a) == Delete(V, GrantRows({g}, {a}))

DeleteAllowedApps(V, g) == Delete(V, GrantRows({g}, Apps))

DeleteAllowedGroups(V, a) == Delete(V, GrantRows(Groups, {a}))

\* The rows a statement locks when it inserts new: the new rows, and the
\* groups they refer to against an update or a delete.
InsertNeeds(new) == new \cup GroupRows({x[2] : x \in new}, Names)

\* INSERT; the unique index is checked before the foreign key.
Insert(V, new) ==
  [needs |-> InsertNeeds(new),
   drops |-> {},
   adds  |-> new,
   error |-> IF new \cap V # {} THEN "duplicate"
             ELSE IF \E x \in new : x[2] \notin GroupIds(V) THEN "foreignKey"
             ELSE "none"]

\* Variant of Upsert: ON CONFLICT DO NOTHING, which locks no existing row.
InsertOrIgnore(V, new) ==
  [needs |-> InsertNeeds(new \ V),
   drops |-> {},
   adds  |-> new \ V,
   error |-> IF \E x \in new : x[2] \notin GroupIds(V) THEN "foreignKey" ELSE "none"]

\* INSERT ... ON CONFLICT DO UPDATE
Upsert(V, new) ==
  [needs |-> InsertNeeds(new),
   drops |-> {},
   adds  |-> new,
   error |-> IF \E x \in new : x[2] \notin GroupIds(V) THEN "foreignKey" ELSE "none"]

-----------------------------------------------------------------------------
(***************************************************************************)
(* What the locks achieve: the transaction that has added A and deleted D    *)
(* leaves one that has added B and deleted E apart. They write different     *)
(* rows, of different groups where these are rows of groups; a name that     *)
(* the first has given the second has neither given nor taken away; and a    *)
(* group that the first refers to the second may rename, but not delete.     *)
(***************************************************************************)
Apart(A, D, B, E) ==
  /\ (A \cup D) \cap (B \cup E) = {}
  /\ \A x \in (A \cup D) \cap GroupRows(Groups, Names),
        y \in (B \cup E) \cap GroupRows(Groups, Names) :
       x[2] # y[2] /\ (x \in A => x[3] # y[3])
  /\ \A x \in A, y \in E \cap GroupRows(Groups, Names) :
       x[2] = y[2] => x[2] \in GroupIds(B)

-----------------------------------------------------------------------------
\* The queries: the rows they select from the rows V of the database they run
\* on. They wait for no lock.
SelectGroups(V) == V \cap GroupRows(Groups, Names)

SelectGroup(V, g) == V \cap GroupRows({g}, Names)

SelectUsersInGroup(V, g) == V \cap MemberRows({g}, Users)

\* groups JOIN group_members
SelectGroupsForUser(V, u) == V \cap MemberRows(GroupIds(V), {u})

SelectAllowedApps(V, g) == V \cap GrantRows({g}, Apps)

SelectAllowedGroupsForApp(V, a) == V \cap GrantRows(Groups, {a})
=============================================================================
