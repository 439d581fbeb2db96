\* Three requests on the grants of one group with two applications, one tuple a
\* page, with transactions that cannot begin, expire or lose their commit and
\* late answers of OpenFGA: what one leaves behind, the others meet.
SPECIFICATION Spec
CONSTANTS
  g1 = g1  g2 = g2  n1 = n1  n2 = n2  u1 = u1  a1 = a1  a2 = a2
  noname = noname
  NoName = noname
  Groups = {g1, g2}
  Names = {n1, n2, noname}
  Users = {}
  Apps = {a1, a2}
  Requests = {r1, r2, r3}
  Cli = {}
  Calls <- GrantCalls
  InitialRows <- GrantedRows
  PageSize = 1
  Faults = {"begin", "commit", "timeout", "late"}
SYMMETRY HttpSymmetry
INVARIANTS
  TypeOK
  RevokedMeansNoTuple
  GrantedMeansTuple
  StrayTupleNeedsFault
  StoresAgreeWhenCalm
\* Every request may be done.
CHECK_DEADLOCK FALSE
