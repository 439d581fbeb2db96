\* Two requests and a CLI command on the memberships of a user in two
\* groups and on the groups; g3 is a fresh id. Transactions cannot begin or lose
\* their commit.
SPECIFICATION Spec
CONSTANTS
  g1 = g1  g2 = g2  n1 = n1  n2 = n2  u1 = u1  a1 = a1  a2 = a2
  noname = noname
  NoName = noname
  Groups = {g1, g2, g3}
  Names = {n1, n2, noname}
  Users = {u1}
  Apps = {}
  Requests = {r1, r2, c1}
  Cli = {c1}
  Calls <- MembershipCalls
  InitialRows <- MemberedRows
  PageSize = 1
  Faults = {"begin", "commit"}
SYMMETRY HttpSymmetry
INVARIANTS
  LastWriteHolds
  TablesConsistent
\* Every request may be done.
CHECK_DEADLOCK FALSE
