\* One request that removes all the groups of an application, alone, with
\* nothing that fails.
SPECIFICATION Spec
CONSTANTS
  g1 = g1  g2 = g2  n1 = n1  n2 = n2  u1 = u1  a1 = a1  a2 = a2
  noname = noname
  NoName = noname
  Groups = {g1, g2}
  Names = {n1, n2, noname}
  Users = {}
  Apps = {a1, a2}
  Requests = {r1}
  Cli = {}
  Calls <- ForAppCalls
  InitialRows <- BothGrantedRows
  PageSize = 1
  Faults = {}
INVARIANTS
  AllowedGroupsRemoved
\* The request may be done.
CHECK_DEADLOCK FALSE
