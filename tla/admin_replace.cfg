SPECIFICATION Spec
CONSTANTS
  g1 = g1  g2 = g2  n1 = n1  n2 = n2  u1 = u1  a1 = a1  a2 = a2
  noname = noname
  NoName = noname
  Groups = {g1, g2}
  Names = {n1, n2, noname}
  Users = {u1}
  Apps = {}
  Requests = {r1, r2}
  Cli = {}
  Calls <- ReplaceCalls
  InitialRows <- NoMembers
  PageSize = 1
  Faults = {}
INVARIANTS
  ReplacedExactly
\* Every request may be done.
CHECK_DEADLOCK FALSE
