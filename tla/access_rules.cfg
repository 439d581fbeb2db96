\* Every configuration and every token with two subjects, a scope and blanks; a
\* store and two models.
SPECIFICATION Spec
CONSTANTS
  Subjects = {s1, s2}
  Scopes = {c1}
  Blank = blank
  Stores = {st1}
  ModelIds = {m1, m2}
  NoId = noid
SYMMETRY Symmetry
INVARIANTS
  AdmittedByName
  ModelCheckedBeforeServing
\* Both requests are decided, or the service does not start.
CHECK_DEADLOCK FALSE
