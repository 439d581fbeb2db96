----------------------------- MODULE MCImporter -----------------------------
(***************************************************************************)
(* Small instances of Importer: the group of one team exists, with members  *)
(* and grants, beside a local group.                                        *)
(***************************************************************************)
EXTENDS Importer, TLC

CONSTANTS g1, g2, n1, u1, u2, a1, a2, t1, t2, noname

SourceRecord(e, d, t) == [email |-> e, department |-> d, team |-> t]

\* A team that has exchanged its member, a new team and a record without an
\* email; or no records.
GrowAndVanish ==
  {{SourceRecord(u2, t1, t2), SourceRecord(noname, t2, t1)}, {}}

TeamNames == {Named(t1), Named(t2), n1, noname}

TeamAndLocal(A) ==
  GroupRows({g1}, {Named(t1)}) \cup MemberRows({g1}, {u1}) \cup GrantRows({g1}, A)
  \cup GroupRows({g2}, {n1}) \cup MemberRows({g2}, {u1}) \cup GrantRows({g2}, {a1})

TwoGrants == {TeamAndLocal({a1, a2})}

EveryCommand == 
  [mode : {"run"}, authz : {"noop"}] \cup [mode : {"sync"}, authz : {"openfga", "noop"}]

\* The ids of new groups are interchangeable.
ImportSymmetry == Permutations(Imports) \cup Permutations(Groups \ {g1, g2})
=============================================================================
