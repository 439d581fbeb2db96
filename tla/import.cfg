\* Two imports, one after or over the other, and one edit of an administrator,
\* with every fault.
SPECIFICATION Spec
CONSTANTS
  g1 = g1  g2 = g2  n1 = n1  u1 = u1  u2 = u2  a1 = a1  a2 = a2
  t1 = t1  t2 = t2  noname = noname
  NoName = noname
  NoGroup = nogroup
  Teams = {t1, t2}
  Names <- TeamNames
  Users = {u1, u2}
  Groups = {g1, g2, g3, g4}
  Apps = {a1, a2}
  Imports = {i1, i2}
  Commands <- EveryCommand
  Sources <- GrowAndVanish
  InitialRows <- TwoGrants
  PageSize = 1
  Faults = {"db", "fga", "late", "kill"}
  Edits = {"create", "grant", "rename", "delete", "join"}
  MaxEdits = 1
SYMMETRY ImportSymmetry
INVARIANTS
  TypeOK
  TablesConsistent
  StrayTupleExplained
PROPERTIES
  SyncReconciles
  OthersUntouched
\* The imports end.
CHECK_DEADLOCK FALSE
