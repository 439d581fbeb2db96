------------------------------ MODULE MCReaders ------------------------------
(***************************************************************************)
(* A small instance of Readers for TLC.                                     *)
(***************************************************************************)
EXTENDS Readers, TLC

CONSTANTS g1, g2, n1, n2, u1, a1, noname

TwoGroups == {<<"group", g1, n1>>, <<"group", g2, n2>>}

\* Two groups, the first one with a member; the grants come from requests.
SomeRows == {TwoGroups \cup MemberRows({g1}, {u1})}

Http(calls) == {[cli |-> FALSE] @@ c : c \in calls}

WriteCalls == Http(
  [call : {"AddAllowedAppToGroup", "RemoveAllowedAppFromGroup"}, group : {g1}, app : {a1}]
  \cup [call : {"AddUserToGroups"}, user : {u1}, groups : {{g1}, {g2}}]
  \cup [call : {"RemoveUsersFromGroup"}, group : {g1}, users : {{u1}}]
  \cup [call : {"RemoveGroup", "RemoveAllowedAppsFromGroup"}, group : {g1}]
  \cup [call : {"RemoveAllowedGroupsForApp"}, app : {a1}]
  \cup [call : {"UpdateGroup"}, group : {g1}, name : {NoName}])

ReadCalls ==
  [call : {"ListGroups"}]
  \cup [call : {"GetGroup", "ListUsersInGroup", "GetAllowedAppsInGroup"}, group : {g1}]
  \cup [call : {"ListUserGroups"}, user : {u1}]
  \cup [call : {"GetAllowedGroupsForApp"}, app : {a1}]
  \cup [call : {"TokenHook"}, user : {u1}, apps : {{a1}}]

HttpSymmetry == Permutations(Requests)
=============================================================================
