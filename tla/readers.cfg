\* Two requests that write and a client that reads, with transactions that
\* cannot begin, expire or lose their commit.
SPECIFICATION ReadersSpec
CONSTANTS
  g1 = g1  g2 = g2  n1 = n1  n2 = n2  u1 = u1  a1 = a1
  noname = noname
  NoName = noname
  Groups = {g1, g2}
  Names = {n1, n2, noname}
  Users = {u1}
  Apps = {a1}
  Requests = {r1, r2}
  Cli = {}
  Calls <- WriteCalls
  InitialRows <- SomeRows
  PageSize = 1
  Faults = {"begin", "commit", "timeout"}
  Clients = {x1}
  Questions <- ReadCalls
SYMMETRY HttpSymmetry
INVARIANTS
  CommittedIsSeen
  HookHonoursRemovals
  HookHonoursGrants
\* Every request may be done.
CHECK_DEADLOCK FALSE
