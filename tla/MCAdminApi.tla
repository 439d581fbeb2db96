------------------------------ MODULE MCAdminApi ------------------------------
(***************************************************************************)
(* Small instances of AdminApi for TLC.                                     *)
(***************************************************************************)
EXTENDS AdminApi, TLC

CONSTANTS g1, g2, n1, n2, u1, a1, a2, noname

TwoGroups == {<<"group", g1, n1>>, <<"group", g2, n2>>}

\* Two groups, the first one with all grants.
GrantedRows == {TwoGroups \cup GrantRows({g1}, Apps)}

\* Two groups, the first one with a member.
MemberedRows == {TwoGroups \cup MemberRows({g1}, Users)}

Http(calls) == {[cli |-> FALSE] @@ c : c \in calls}

Command(calls) == {[cli |-> TRUE] @@ c : c \in calls}

GrantCalls == Http(
  [call : {"AddAllowedAppToGroup", "RemoveAllowedAppFromGroup"}, group : {g1}, app : {a1}]
  \cup [call : {"RemoveAllowedAppsFromGroup", "RemoveGroup"}, group : {g1}]
  \cup [call : {"RemoveAllowedGroupsForApp"}, app : {a1}])

\* Calls that change a user's memberships, and the groups themselves.
MemberCalls ==
  Http([call : {"AddUserToGroups"}, user : Users, groups : SUBSET {g1, g2}]
       \cup [call : {"AddUsersToGroup"}, group : {g1}, users : {Users, {}}]
       \cup [call : {"RemoveUsersFromGroup"}, group : {g1}, users : {Users}]
       \cup [call : {"CreateGroup"}, name : {n1, NoName}]
       \cup [call : {"UpdateGroup"}, group : {g1, g2}, name : {NoName}]
       \cup [call : {"UpdateGroup"}, group : {g1}, name : {n1}]
       \cup [call : {"RemoveGroup"}, group : {g1}])

CliCalls ==
  Command([call : {"AddUserToGroups"}, user : Users, groups : {{g1}, {g2}}]
          \cup [call : {"AddUsersToGroup", "RemoveUsersFromGroup"}, group : {g1}, users : {Users}]
          \cup [call : {"RemoveUserFromAllGroups"}, user : Users])

MembershipCalls == MemberCalls \cup CliCalls

\* Requests that replace the memberships of a user by one group.
ReplaceCalls == Http([call : {"AddUserToGroups"}, user : Users, groups : {{g1}, {g2}}])

NoMembers == {TwoGroups}

\* Two groups that an application is granted to, and a request that removes
\* all of its groups.
BothGrantedRows == {TwoGroups \cup GrantRows({g1, g2}, {a1})}

ForAppCalls == Http([call : {"RemoveAllowedGroupsForApp"}, app : {a1}])

\* The requests that are not commands are interchangeable.
HttpSymmetry == Permutations(Requests \ Cli)
=============================================================================
