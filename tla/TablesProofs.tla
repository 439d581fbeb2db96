---------------------------- MODULE TablesProofs ----------------------------
(***************************************************************************)
(* What the statements of Tables do to consistent tables, and what their    *)
(* locks achieve: the transactions of AdminApi and the statements of         *)
(* Importer rest on these lemmas.                                            *)
(***************************************************************************)
EXTENDS Tables, TLAPS

\* The rows after a statement.
After(V, statement) == (V \ statement.drops) \cup statement.adds

\* What a transaction sees that has added A and deleted D.
Seen(V, A, D) == (V \ D) \cup A

\* The rows of one group are in a set of their own.
LEMMA GroupRowIs ==
  ASSUME NEW x \in GroupRows(Groups, Names)
  PROVE  /\ x[2] \in Groups /\ x[3] \in Names
         /\ x \in Row /\ x \in OfGroup(x[2])
         /\ x \in GroupRows({x[2]}, Names) /\ x \in GroupRows(Groups, {x[3]})
<1>1. PICK g \in Groups, n \in Names : x = <<"group", g, n>>
  BY DEF GroupRows
<1> QED BY <1>1, Zenon DEF GroupRows, Row, OfGroup

\* The ids of a set of rows.
LEMMA GroupIdsOf ==
  ASSUME NEW V, NEW g
  PROVE  g \in GroupIds(V) <=> \E x \in V \cap GroupRows(Groups, Names) : x[2] = g
BY Zenon DEF GroupIds

\* The id of a row of groups.
LEMMA IdOf ==
  ASSUME NEW V, NEW x \in V \cap GroupRows(Groups, Names)
  PROVE  x[2] \in GroupIds(V)
BY Zenon DEF GroupIds

\* A transaction goes on to see consistent tables when another one, that is
\* apart from it, commits.
LEMMA CommitKeeps ==
  ASSUME NEW V, NEW A, NEW D, NEW B, NEW E,
         Consistent(V), Consistent(Seen(V, A, D)), Consistent(Seen(V, B, E)),
         Apart(A, D, B, E), Apart(B, E, A, D)
  PROVE  Consistent(Seen(Seen(V, B, E), A, D))
<1> DEFINE W == Seen(Seen(V, B, E), A, D)
           Of(S) == S \cap GroupRows(Groups, Names)
<1>1. W = (((V \ E) \cup B) \ D) \cup A /\ Seen(V, A, D) = (V \ D) \cup A
      /\ Seen(V, B, E) = (V \ E) \cup B
  BY Zenon DEF Seen
<1>2. /\ (A \cup D) \cap (B \cup E) = {}
      /\ \A x \in Of(A \cup D), y \in Of(B \cup E) : x[2] # y[2]
      /\ \A x \in Of(A), y \in Of(B) : x[3] # y[3]
  BY Zenon DEF Apart
<1>3. ASSUME NEW x \in Of(W), NEW y \in Of(W) PROVE x[2] = y[2] <=> x[3] = y[3]
  <2>1. CASE x \in Seen(V, A, D) /\ y \in Seen(V, A, D)
    BY <2>1 DEF Consistent
  <2>2. CASE x \in Seen(V, B, E) /\ y \in Seen(V, B, E)
    BY <2>2, Zenon DEF Consistent
  <2>3. (x \in A /\ y \in B) \/ (x \in B /\ y \in A) => x[2] # y[2] /\ x[3] # y[3]
    BY <1>2, Zenon
  <2> QED BY <1>1, <2>1, <2>2, <2>3, Zenon
\* a row of a group that one of them sees survives under some name
<1>4. ASSUME NEW y \in Of(W) PROVE y[2] \in GroupIds(W)
  BY IdOf, Zenon
<1>5. ASSUME NEW x \in A PROVE x[2] \in GroupIds(W)
  <2>1. PICK y \in Of(Seen(V, A, D)) : y[2] = x[2]
    BY <1>1, GroupIdsOf DEF Consistent
  <2>2. CASE y \in W
    BY <1>4, <2>1, <2>2, Zenon
  <2>3. CASE y \notin W
    <3>1. y \in E
      BY <1>1, <2>1, <2>3, Zenon
    <3>2. PICK z \in Of(B) : z[2] = x[2]
      BY <2>1, <3>1, GroupIdsOf, Zenon DEF Apart
    <3>3. z \in Of(W)
      BY <1>1, <1>2, <3>2, Zenon
    <3> QED BY <1>4, <3>2, <3>3, Zenon
  <2> QED BY <2>2, <2>3, Zenon
<1>6. ASSUME NEW x \in W, x \notin A PROVE x[2] \in GroupIds(W)
  <2>1. x \in Seen(V, B, E) /\ x \notin D
    BY <1>1, <1>6, Zenon
  <2>2. PICK y \in Of(Seen(V, B, E)) : y[2] = x[2]
    BY <2>1, GroupIdsOf DEF Consistent
  <2>3. CASE y \in W
    BY <1>4, <2>2, <2>3, Zenon
  <2>4. CASE y \notin W
    <3>1. y \in D /\ y \in V /\ y \notin B
      BY <1>1, <1>2, <2>2, <2>4, Zenon
    <3>2. \E z \in Of(A) : z[2] = x[2]
      <4>1. CASE x \in B
        <5>1. x[2] \in GroupIds(A)
          BY <2>2, <3>1, <4>1, Zenon DEF Apart
        <5> QED BY <5>1, GroupIdsOf, Zenon
      <4>2. CASE x \notin B
        <5>1. x \in Seen(V, A, D)
          BY <1>1, <2>1, <4>2, Zenon
        <5>2. PICK z \in Of(Seen(V, A, D)) : z[2] = x[2]
          BY <5>1, GroupIdsOf DEF Consistent
        <5>3. z \in V => z[3] = y[3]
          BY <2>2, <3>1, <5>2 DEF Consistent
        <5>4. z \in V => z = y
          BY <2>2, <5>2, <5>3 DEF GroupRows
        <5> QED BY <1>1, <3>1, <5>2, <5>4, Zenon
      <4> QED BY <4>1, <4>2, Zenon
    <3>3. PICK z \in Of(A) : z[2] = x[2]
      BY <3>2, Zenon
    <3>4. z \in Of(W)
      BY <1>1, <3>3, Zenon
    <3> QED BY <1>4, <3>3, <3>4, Zenon
  <2> QED BY <2>3, <2>4, Zenon
<1> QED BY <1>3, <1>5, <1>6, Zenon DEF Consistent

-----------------------------------------------------------------------------
(***************************************************************************)
(* A statement that finds the rows V and succeeds: it leaves them           *)
(* consistent, deletes rows that it sees, and waits for the rows that keep   *)
(* transactions apart. A new id, which is not in ids, needs no lock.         *)
(***************************************************************************)
Locked(V, s, ids) ==
  /\ Consistent(After(V, s))
  /\ s.adds \subseteq Row /\ s.drops \subseteq V
  /\ s.adds \cup s.drops \subseteq s.needs
  /\ \A x \in s.adds : GroupRows({x[2]}, Names) \subseteq s.needs \/ x[2] \notin ids
  /\ \A x \in s.adds \cap GroupRows(Groups, Names) : GroupRows(Groups, {x[3]}) \subseteq s.needs
  /\ \A x \in s.drops \cap GroupRows(Groups, Names) :
       /\ GroupRows({x[2]}, Names) \subseteq s.needs
       /\ x[2] \in GroupIds(s.adds) \/ OfGroup(x[2]) \subseteq s.needs

\* A transaction that has added A and deleted D stays apart from one that has
\* added B and deleted E when it executes a statement that waits for the rows
\* the other has written.
LEMMA StatementApart ==
  ASSUME NEW V, NEW A, NEW D, NEW B, NEW E, NEW s, NEW ids,
         Apart(A, D, B, E), Apart(B, E, A, D), B \subseteq Row,
         Consistent(Seen(V, B, E)), GroupIds(B \cup E) \subseteq ids,
         Locked(Seen(V, A, D), s, ids), (B \cup E) \cap s.needs = {}
  PROVE  /\ Apart((A \ s.drops) \cup s.adds, D \cup s.drops, B, E)
         /\ Apart(B, E, (A \ s.drops) \cup s.adds, D \cup s.drops)
<1> DEFINE A1 == (A \ s.drops) \cup s.adds
           D1 == D \cup s.drops
           Of(S) == S \cap GroupRows(Groups, Names)
<1>1. (A1 \cup D1) \cap (B \cup E) = {}
  BY Zenon DEF Apart, Locked
<1>2. ASSUME NEW x \in s.adds \cup Of(s.drops), NEW y \in Of(B \cup E) PROVE x[2] # y[2]
  <2>1. y[2] \in ids
    BY IdOf, Zenon
  <2>2. y \in GroupRows({y[2]}, Names)
    BY GroupRowIs, Zenon
  <2> QED BY <2>1, <2>2, Zenon DEF Locked
<1>3. ASSUME NEW x \in Of(s.adds), NEW y \in Of(B \cup E) PROVE x[3] # y[3]
  <2>1. y \in GroupRows(Groups, {y[3]})
    BY GroupRowIs, Zenon
  <2> QED BY <2>1, Zenon DEF Locked
<1>4. ASSUME NEW x \in Of(B), NEW y \in Of(s.drops) PROVE x[3] # y[3]
  <2>1. x[2] # y[2]
    BY <1>2, Zenon
  <2>2. CASE y \in A
    BY <2>2, Zenon DEF Apart
  <2>3. CASE y \notin A
    <3>1. y \in V /\ y \notin E
      BY <1>1, <2>3, Zenon DEF Locked, Seen
    <3>2. x \in Of(Seen(V, B, E)) /\ y \in Of(Seen(V, B, E))
      BY <3>1, Zenon DEF Seen
    <3> QED BY <2>1, <3>2, Zenon DEF Consistent
  <2> QED BY <2>2, <2>3, Zenon
<1>5. ASSUME NEW x \in Of(A1 \cup D1), NEW y \in Of(B \cup E)
      PROVE  /\ x[2] # y[2] /\ (x \in A1 => x[3] # y[3])
             /\ y \in B => x[3] # y[3]
  <2>1. CASE x \in s.adds
    BY <1>2, <1>3, <2>1, Zenon
  <2>2. CASE x \in s.drops /\ x \notin s.adds
    BY <1>2, <1>4, <2>2, Zenon
  <2>3. CASE x \in A \cup D /\ x \notin s.drops /\ x \notin s.adds
    <3>1. x[2] # y[2] /\ (x \in A => x[3] # y[3]) /\ (y \in B => x[3] # y[3])
      BY <2>3, Zenon DEF Apart
    <3> QED BY <2>3, <3>1, Zenon
  <2> QED BY <2>1, <2>2, <2>3, Zenon
<1>6. ASSUME NEW x \in A1, NEW y \in Of(E), x[2] = y[2] PROVE x[2] \in GroupIds(B)
  <2>1. x \notin s.adds
    BY <1>2, <1>6, Zenon
  <2> QED BY <1>6, <2>1, Zenon DEF Apart
<1>7. ASSUME NEW x \in B, NEW y \in Of(s.drops), x[2] = y[2] PROVE x[2] \in GroupIds(A1)
  <2>1. x \in OfGroup(x[2])
    BY Zenon DEF OfGroup
  <2>2. x[2] \in GroupIds(s.adds)
    BY <1>7, <2>1, Zenon DEF Locked
  <2> QED BY <2>2, GroupIdsOf
<1>8. ASSUME NEW x \in B, NEW y \in Of(D), x[2] = y[2] PROVE x[2] \in GroupIds(A1)
  <2>1. PICK z \in Of(A) : z[2] = x[2]
    BY <1>8, GroupIdsOf DEF Apart
  <2>2. CASE z \in s.drops
    BY <1>7, <2>1, <2>2, Zenon
  <2>3. CASE z \notin s.drops
    BY <2>1, <2>3, GroupIdsOf, Zenon
  <2> QED BY <2>2, <2>3, Zenon
<1>9. Apart(A1, D1, B, E)
  BY <1>1, <1>5, <1>6, Zenon DEF Apart
<1>10. Apart(B, E, A1, D1)
  <2>1. ASSUME NEW x \in Of(B \cup E), NEW y \in Of(A1 \cup D1)
        PROVE  x[2] # y[2] /\ (x \in B => x[3] # y[3])
    BY <1>5, Zenon
  <2>2. ASSUME NEW x \in B, NEW y \in Of(D1), x[2] = y[2] PROVE x[2] \in GroupIds(A1)
    BY <1>7, <1>8, <2>2, Zenon
  <2>3. (B \cup E) \cap (A1 \cup D1) = {}
    BY <1>1, Zenon
  <2> HIDE DEF A1, D1
  <2> QED BY <2>1, <2>2, <2>3, Zenon DEF Apart
<1> QED BY <1>9, <1>10, Zenon

\* The statements on the rows that a transaction sees.
LEMMA SeenAfter ==
  ASSUME NEW V, NEW A, NEW D, NEW s
  PROVE  Seen(V, (A \ s.drops) \cup s.adds, D \cup s.drops) = After(Seen(V, A, D), s)
BY Zenon DEF Seen, After

-----------------------------------------------------------------------------
(***************************************************************************)
(* The statements, one by one.                                              *)
(***************************************************************************)

\* The rows W differ from V in the rows of one group only.
Touches(V, W, g) == \A h : h # g => W \cap OfGroup(h) = V \cap OfGroup(h)

\* What the insert of a group leaves behind.
LEMMA InsertGroupEffect ==
  ASSUME NEW V, Consistent(V), NEW g \in Groups, g \notin GroupIds(V), NEW n \in Names,
         InsertGroup(V, g, n).error = "none"
  PROVE  /\ Consistent(After(V, InsertGroup(V, g, n)))
         /\ GroupIds(After(V, InsertGroup(V, g, n))) = GroupIds(V) \cup {g}
         /\ \A P : n \in P =>
              g \in GroupIds(After(V, InsertGroup(V, g, n)) \cap GroupRows(Groups, P))
         /\ V \subseteq Row => After(V, InsertGroup(V, g, n)) \subseteq Row
         /\ Touches(V, After(V, InsertGroup(V, g, n)), g)
<1> DEFINE W == After(V, InsertGroup(V, g, n))
           Of(S) == S \cap GroupRows(Groups, Names)
           new == <<"group", g, n>>
<1>1. W = V \cup {new} /\ GroupRows(Groups, {n}) \cap V = {}
  BY DEF After, InsertGroup, GroupRows
<1>2. /\ new[2] = g /\ new[3] = n /\ new \in GroupRows(Groups, Names)
      /\ \A P : n \in P => new \in GroupRows(Groups, P)
  BY Zenon DEF GroupRows
<1>3. ASSUME NEW x \in Of(V) PROVE x[2] # g /\ x[3] # n
  <2>1. PICK h \in Groups, k \in Names : x = <<"group", h, k>>
    BY DEF GroupRows
  <2>2. k = n => x \in GroupRows(Groups, {n})
    BY <2>1, Zenon DEF GroupRows
  <2> QED BY <1>1, <2>1, <2>2, Zenon DEF GroupIds
<1> HIDE DEF new, W
<1>4. Of(W) = Of(V) \cup {new}
  BY <1>1, <1>2, Zenon
<1>5. GroupIds(W) = GroupIds(V) \cup {g}
  BY <1>2, <1>4, Zenon DEF GroupIds
<1>6. \A x \in W : x[2] \in GroupIds(W)
  BY <1>1, <1>2, <1>5, Zenon DEF Consistent
<1>7. \A x, y \in Of(W) : x[2] = y[2] <=> x[3] = y[3]
  BY <1>2, <1>3, <1>4, Zenon DEF Consistent
<1>8. \A P : n \in P => g \in GroupIds(W \cap GroupRows(Groups, P))
  BY <1>1, <1>2, Zenon DEF GroupIds
<1>9. Consistent(W)
  BY <1>6, <1>7, Zenon DEF Consistent
<1>10. (V \subseteq Row => W \subseteq Row) /\ Touches(V, W, g)
  BY <1>1, <1>2, Zenon DEF Row, Touches, OfGroup
<1> QED BY <1>5, <1>8, <1>9, <1>10, Zenon DEF W

\* Rows of the other tables.
LEMMA OtherRowsEffect ==
  ASSUME NEW V, Consistent(V), NEW W,
         \A x \in W \ V : x[2] \in GroupIds(V),
         W \cap GroupRows(Groups, Names) = V \cap GroupRows(Groups, Names)
  PROVE  Consistent(W) /\ GroupIds(W) = GroupIds(V)
<1>1. GroupIds(W) = GroupIds(V)
  BY Zenon DEF GroupIds
<1> QED BY <1>1, Zenon DEF Consistent

\* What an upsert leaves behind.
LEMMA UpsertEffect ==
  ASSUME NEW V, Consistent(V), NEW g, NEW U,
         Upsert(V, MemberRows({g}, U)).error = "none"
  PROVE  /\ Consistent(After(V, Upsert(V, MemberRows({g}, U))))
         /\ GroupIds(After(V, Upsert(V, MemberRows({g}, U)))) = GroupIds(V)
         /\ V \subseteq Row /\ U \subseteq Users /\ g \in Groups
              => After(V, Upsert(V, MemberRows({g}, U))) \subseteq Row
         /\ Touches(V, After(V, Upsert(V, MemberRows({g}, U))), g)
<1> DEFINE W == After(V, Upsert(V, MemberRows({g}, U)))
<1>1. W = V \cup MemberRows({g}, U) /\ \A x \in MemberRows({g}, U) : x[2] \in GroupIds(V)
  BY Zenon DEF After, Upsert
<1>2. W \cap GroupRows(Groups, Names) = V \cap GroupRows(Groups, Names)
  BY <1>1, Zenon DEF GroupRows, MemberRows
<1>3. V \subseteq Row /\ U \subseteq Users /\ g \in Groups => W \subseteq Row
  BY <1>1, Zenon DEF Row, MemberRows
<1>4. \A x \in MemberRows({g}, U) : x[2] = g
  BY Zenon DEF MemberRows
<1>5. Touches(V, W, g)
  BY <1>1, <1>4, Zenon DEF Touches, OfGroup
<1> QED BY <1>1, <1>2, <1>3, <1>5, OtherRowsEffect, Zenon

\* What an insert leaves behind.
LEMMA InsertEffect ==
  ASSUME NEW V, Consistent(V), NEW g, NEW a \in Apps,
         Insert(V, GrantRows({g}, {a})).error = "none"
  PROVE  /\ Consistent(After(V, Insert(V, GrantRows({g}, {a}))))
         /\ GroupIds(After(V, Insert(V, GrantRows({g}, {a})))) = GroupIds(V)
         /\ g \in GroupIds(V)
         /\ V \subseteq Row /\ g \in Groups => After(V, Insert(V, GrantRows({g}, {a}))) \subseteq Row
<1> DEFINE W == After(V, Insert(V, GrantRows({g}, {a})))
<1>1. W = V \cup GrantRows({g}, {a}) /\ \A x \in GrantRows({g}, {a}) : x[2] \in GroupIds(V)
  BY Zenon DEF After, Insert
<1>2. W \cap GroupRows(Groups, Names) = V \cap GroupRows(Groups, Names)
  BY <1>1, Zenon DEF GroupRows, GrantRows
<1>3. g \in GroupIds(V)
  <2>1. <<"grant", g, a>> \in GrantRows({g}, {a})
    BY Zenon DEF GrantRows
  <2> QED BY <1>1, <2>1, Zenon
<1>4. V \subseteq Row /\ g \in Groups => W \subseteq Row
  BY <1>1, Zenon DEF Row, GrantRows
<1> QED BY <1>1, <1>2, <1>3, <1>4, OtherRowsEffect, ZenonT(30)

\* What a delete of members leaves behind.
LEMMA DeleteMembersEffect ==
  ASSUME NEW V, Consistent(V), NEW g, NEW U
  PROVE  /\ Consistent(After(V, Delete(V, MemberRows({g}, U))))
         /\ GroupIds(After(V, Delete(V, MemberRows({g}, U)))) = GroupIds(V)
         /\ V \subseteq Row => After(V, Delete(V, MemberRows({g}, U))) \subseteq Row
         /\ Touches(V, After(V, Delete(V, MemberRows({g}, U))), g)
<1> DEFINE W == After(V, Delete(V, MemberRows({g}, U)))
<1>1. W = V \ MemberRows({g}, U)
  BY Zenon DEF After, Delete
<1>2. W \cap GroupRows(Groups, Names) = V \cap GroupRows(Groups, Names)
  BY <1>1, Zenon DEF GroupRows, MemberRows
<1>3. \A x \in MemberRows({g}, U) : x[2] = g
  BY Zenon DEF MemberRows
<1>4. Touches(V, W, g)
  BY <1>1, <1>3, Zenon DEF Touches, OfGroup
<1> QED BY <1>1, <1>2, <1>4, OtherRowsEffect, Zenon

\* What the delete of a group leaves behind.
LEMMA DropGroupEffect ==
  ASSUME NEW V, Consistent(V), V \subseteq Row, NEW g
  PROVE  /\ Consistent(After(V, DropGroup(V, g)))
         /\ GroupIds(After(V, DropGroup(V, g))) = GroupIds(V) \ {g}
         /\ After(V, DropGroup(V, g)) \subseteq Row
         /\ Touches(V, After(V, DropGroup(V, g)), g)
<1> DEFINE W == After(V, DropGroup(V, g))
<1>1. W = {x \in V : x[2] # g}
  BY Zenon DEF After, DropGroup, OfGroup
<1>2. GroupIds(W) = GroupIds(V) \ {g}
  BY <1>1, Zenon DEF GroupIds
<1>3. Touches(V, W, g)
  BY <1>1, Zenon DEF Touches, OfGroup
<1> QED BY <1>1, <1>2, <1>3, Zenon DEF Consistent

\* What the update of a group leaves behind.
LEMMA RenameGroupEffect ==
  ASSUME NEW V, Consistent(V), NEW g \in Groups, NEW n \in Names,
         RenameGroup(V, g, n).error = "none"
  PROVE  /\ Consistent(After(V, RenameGroup(V, g, n)))
         /\ GroupIds(After(V, RenameGroup(V, g, n))) = GroupIds(V)
         /\ V \subseteq Row => After(V, RenameGroup(V, g, n)) \subseteq Row
<1> DEFINE W == After(V, RenameGroup(V, g, n))
           Of(S) == S \cap GroupRows(Groups, Names)
           new == <<"group", g, n>>
<1>1. /\ g \in GroupIds(V) /\ GroupRows(Groups \ {g}, {n}) \cap V = {}
      /\ W = (V \ GroupRows({g}, Names)) \cup {new}
  BY DEF After, RenameGroup, GroupRows
<1>2. new[2] = g /\ new[3] = n /\ new \in GroupRows(Groups, Names)
  BY Zenon DEF GroupRows
<1>3. ASSUME NEW x \in GroupRows(Groups, Names)
      PROVE  /\ x \in GroupRows({g}, Names) <=> x[2] = g
             /\ x[2] # g /\ x[3] = n => x \in GroupRows(Groups \ {g}, {n})
  <2>1. PICK h \in Groups, k \in Names : x = <<"group", h, k>>
    BY DEF GroupRows
  <2> QED BY <2>1, Zenon DEF GroupRows
<1> HIDE DEF new, W
<1>4. Of(W) = {x \in Of(V) : x[2] # g} \cup {new}
  BY <1>1, <1>2, <1>3, Zenon
<1>5. GroupIds(W) = GroupIds(V)
  <2>1. GroupIds(V) = {x[2] : x \in Of(V)} /\ GroupIds(W) = {x[2] : x \in Of(W)}
    BY Zenon DEF GroupIds
  <2> HIDE DEF Of
  <2> QED BY <1>1, <1>2, <1>4, <2>1, ZenonT(40)
<1>6. \A x \in Of(V) : x[2] # g => x[3] # n
  BY <1>1, <1>3, Zenon
<1>7. \A x, y \in Of(W) : x[2] = y[2] <=> x[3] = y[3]
  <2>1. \A x, y \in Of(V) : x[2] = y[2] <=> x[3] = y[3]
    BY Zenon DEF Consistent
  <2> HIDE DEF Of
  <2> QED BY <1>2, <1>4, <1>6, <2>1, Zenon
<1>8. \A x \in W : x[2] \in GroupIds(W)
  BY <1>1, <1>2, <1>5, Zenon DEF Consistent
<1>9. Consistent(W)
  BY <1>7, <1>8, Zenon DEF Consistent
<1>10. V \subseteq Row => W \subseteq Row
  BY <1>1, <1>2, Zenon DEF Row
<1> QED BY <1>5, <1>9, <1>10, Zenon DEF W

-----------------------------------------------------------------------------
(***************************************************************************)
(* Their locks.                                                             *)
(***************************************************************************)
LEMMA InsertGroupLocked ==
  ASSUME NEW V, Consistent(V), NEW ids, GroupIds(V) \subseteq ids, NEW g \in Groups \ ids,
         NEW n \in Names, InsertGroup(V, g, n).error = "none"
  PROVE  Locked(V, InsertGroup(V, g, n), ids)
<1>1. Consistent(After(V, InsertGroup(V, g, n)))
  BY InsertGroupEffect, Zenon
<1>2. /\ InsertGroup(V, g, n).adds = {<<"group", g, n>>}
      /\ InsertGroup(V, g, n).drops = {}
      /\ InsertGroup(V, g, n).needs = GroupRows(Groups, {n})
  BY DEF InsertGroup, GroupRows
<1>3. <<"group", g, n>> \in Row /\ <<"group", g, n>> \in GroupRows(Groups, {n})
  BY Zenon DEF Row, GroupRows
<1> HIDE DEF InsertGroup
<1> QED BY <1>1, <1>2, <1>3 DEF Locked

\* The locks of the update of a group suffice.
LEMMA RenameGroupLocked ==
  ASSUME NEW V, Consistent(V), NEW ids, NEW g \in Groups, NEW n \in Names,
         RenameGroup(V, g, n).error = "none"
  PROVE  Locked(V, RenameGroup(V, g, n), ids)
<1> DEFINE s == RenameGroup(V, g, n)
<1>1. Consistent(After(V, s))
  BY RenameGroupEffect, Zenon
<1>2. s.adds = {<<"group", g, n>>} /\ s.drops = GroupRows({g}, Names) \cap V
  BY DEF RenameGroup, GroupRows
<1>3. GroupRows({g}, Names) \subseteq s.needs /\ GroupRows(Groups, {n}) \subseteq s.needs
  <2>1. GroupRows({g}, Names) \subseteq {x \in OfGroup(g) : x[1] = "group" \/ x \notin V}
    BY Zenon DEF GroupRows, OfGroup, Row
  <2> QED BY <2>1, Zenon DEF RenameGroup
<1>4. /\ <<"group", g, n>> \in Row /\ <<"group", g, n>> \in GroupRows(Groups, {n})
      /\ <<"group", g, n>>[2] = g /\ <<"group", g, n>>[3] = n
      /\ <<"group", g, n>> \in GroupRows(Groups, Names)
  BY Zenon DEF Row, GroupRows
<1>5. \A x \in GroupRows({g}, Names) : x[2] = g
  BY Zenon DEF GroupRows
<1>6. g \in GroupIds(s.adds)
  BY <1>2, <1>4, IdOf, Zenon
<1> HIDE DEF s
<1> QED BY <1>1, <1>2, <1>3, <1>4, <1>5, <1>6, Zenon DEF Locked, s

\* The locks of the delete of a group suffice.
LEMMA DropGroupLocked ==
  ASSUME NEW V, Consistent(V), V \subseteq Row, NEW ids, NEW g
  PROVE  Locked(V, DropGroup(V, g), ids)
<1> DEFINE s == DropGroup(V, g)
<1>1. Consistent(After(V, s))
  BY DropGroupEffect, Zenon
<1>2. s.adds = {} /\ s.drops = OfGroup(g) \cap V
  BY Zenon DEF DropGroup
<1>3. s.drops # {} => s.needs = OfGroup(g)
  <2>1. s.drops # {} => g \in GroupIds(V)
    BY <1>2, ZenonT(30) DEF OfGroup, Consistent
  <2> QED BY <2>1, Zenon DEF DropGroup
<1>4. \A x \in OfGroup(g) : x[2] = g
  BY Zenon DEF OfGroup
<1>5. \A x \in GroupRows(Groups, Names) : GroupRows({x[2]}, Names) \subseteq OfGroup(x[2])
  BY Zenon DEF OfGroup, GroupRows, Row
<1> HIDE DEF s
<1> QED BY <1>1, <1>2, <1>3, <1>4, <1>5 DEF Locked, s

\* The locks of a delete of members or grants suffice.
LEMMA DeleteLocked ==
  ASSUME NEW V, Consistent(V), NEW ids, NEW selected,
         selected \cap GroupRows(Groups, Names) = {}
  PROVE  Locked(V, Delete(V, selected), ids)
<1>1. After(V, Delete(V, selected)) = V \ selected
  BY Zenon DEF After, Delete
<1>2. Consistent(After(V, Delete(V, selected)))
  BY <1>1, OtherRowsEffect, Zenon
<1>3. /\ Delete(V, selected).adds = {}
      /\ Delete(V, selected).drops = selected \cap V
      /\ Delete(V, selected).needs = selected \cap V
  BY Zenon DEF Delete
<1> HIDE DEF Delete
<1> QED BY <1>2, <1>3, Zenon DEF Locked

\* Rows of other tables that are inserted, or updated in place.
LEMMA NewRowsLocked ==
  ASSUME NEW V, Consistent(V), NEW ids, NEW new, new \subseteq Row,
         new \cap GroupRows(Groups, Names) = {}, NEW s,
         s.needs = InsertNeeds(new), s.drops = {}, s.adds = new,
         \A x \in new : x[2] \in GroupIds(V)
  PROVE  Locked(V, s, ids)
<1>1. After(V, s) = V \cup new
  BY Zenon DEF After
<1>2. Consistent(After(V, s))
  BY <1>1, OtherRowsEffect
<1>3. ASSUME NEW x \in new PROVE GroupRows({x[2]}, Names) \subseteq s.needs
  BY Zenon DEF InsertNeeds, GroupRows
<1>4. new \subseteq s.needs
  BY Zenon DEF InsertNeeds
<1> QED BY <1>2, <1>3, <1>4, Zenon DEF Locked

\* The locks of an insert of members or grants suffice.
LEMMA InsertLocked ==
  ASSUME NEW V, Consistent(V), NEW ids, NEW new, new \subseteq Row,
         new \cap GroupRows(Groups, Names) = {}, Insert(V, new).error = "none"
  PROVE  Locked(V, Insert(V, new), ids)
<1>1. /\ Insert(V, new).needs = InsertNeeds(new)
      /\ Insert(V, new).drops = {} /\ Insert(V, new).adds = new
  BY Zenon DEF Insert
<1>2. \A x \in new : x[2] \in GroupIds(V)
  BY Zenon DEF Insert
<1> QED BY <1>1, <1>2, NewRowsLocked, Zenon

\* The locks of an upsert suffice.
LEMMA UpsertLocked ==
  ASSUME NEW V, Consistent(V), NEW ids, NEW new, new \subseteq Row,
         new \cap GroupRows(Groups, Names) = {}, Upsert(V, new).error = "none"
  PROVE  Locked(V, Upsert(V, new), ids)
<1>1. /\ Upsert(V, new).needs = InsertNeeds(new)
      /\ Upsert(V, new).drops = {} /\ Upsert(V, new).adds = new
  BY Zenon DEF Upsert
<1>2. \A x \in new : x[2] \in GroupIds(V)
  BY Zenon DEF Upsert
<1> QED BY <1>1, <1>2, NewRowsLocked, Zenon

-----------------------------------------------------------------------------
(***************************************************************************)
(* The contents of application_groups and of group_members.                 *)
(***************************************************************************)

\* A grant is its row.
LEMMA GrantOf ==
  ASSUME NEW V, NEW p
  PROVE  p \in Grants(V) <=>
           p \in Groups \X Apps /\ <<"grant", p[1], p[2]>> \in V
<1>1. ASSUME p \in Grants(V) PROVE p \in Groups \X Apps /\ <<"grant", p[1], p[2]>> \in V
  <2>1. PICK x \in V \cap GrantRows(Groups, Apps) : p = <<x[2], x[3]>>
    BY <1>1, Zenon DEF Grants
  <2>2. PICK g \in Groups, a \in Apps : x = <<"grant", g, a>>
    BY <2>1 DEF GrantRows
  <2> QED BY <2>1, <2>2, Zenon
<1>2. ASSUME p \in Groups \X Apps, <<"grant", p[1], p[2]>> \in V PROVE p \in Grants(V)
  <2>1. PICK g \in Groups, a \in Apps : p = <<g, a>>
    BY <1>2
  <2>2. <<"grant", g, a>> \in V \cap GrantRows(Groups, Apps)
    BY <1>2, <2>1, Zenon DEF GrantRows
  <2>3. <<"grant", g, a>>[2] = g /\ <<"grant", g, a>>[3] = a
    BY Zenon
  <2> QED BY <2>1, <2>2, <2>3, Zenon DEF Grants
<1> QED BY <1>1, <1>2, Zenon

\* A membership is its row.
LEMMA MemberOf ==
  ASSUME NEW V, NEW p
  PROVE  p \in Members(V) <=>
           p \in Groups \X Users /\ <<"member", p[1], p[2]>> \in V
<1>1. ASSUME p \in Members(V) PROVE p \in Groups \X Users /\ <<"member", p[1], p[2]>> \in V
  <2>1. PICK x \in V \cap MemberRows(Groups, Users) : p = <<x[2], x[3]>>
    BY <1>1, Zenon DEF Members
  <2>2. PICK g \in Groups, u \in Users : x = <<"member", g, u>>
    BY <2>1 DEF MemberRows
  <2> QED BY <2>1, <2>2, Zenon
<1>2. ASSUME p \in Groups \X Users, <<"member", p[1], p[2]>> \in V PROVE p \in Members(V)
  <2>1. PICK g \in Groups, u \in Users : p = <<g, u>>
    BY <1>2
  <2>2. <<"member", g, u>> \in V \cap MemberRows(Groups, Users)
    BY <1>2, <2>1, Zenon DEF MemberRows
  <2>3. <<"member", g, u>>[2] = g /\ <<"member", g, u>>[3] = u
    BY Zenon
  <2> QED BY <2>1, <2>2, <2>3, Zenon DEF Members
<1> QED BY <1>1, <1>2, Zenon

\* What a transaction sees of the two tables.
LEMMA GrantsSeen ==
  ASSUME NEW V, NEW A, NEW D
  PROVE  Grants((V \ D) \cup A) = (Grants(V) \ Grants(D)) \cup Grants(A)
<1> SUFFICES ASSUME NEW p
             PROVE  p \in Grants((V \ D) \cup A) <=> p \in (Grants(V) \ Grants(D)) \cup Grants(A)
  BY Zenon
<1>1. \A W : p \in Grants(W) <=> p \in Groups \X Apps /\ <<"grant", p[1], p[2]>> \in W
  BY GrantOf, Zenon
<1> DEFINE row == <<"grant", p[1], p[2]>>
           pair == p \in Groups \X Apps
<1>2. /\ p \in Grants(V) <=> pair /\ row \in V
      /\ p \in Grants(D) <=> pair /\ row \in D
      /\ p \in Grants(A) <=> pair /\ row \in A
      /\ p \in Grants((V \ D) \cup A) <=> pair /\ row \in (V \ D) \cup A
  BY <1>1, Zenon
<1> HIDE DEF row, pair
<1> QED BY <1>2, Zenon

\* The memberships after a statement.
LEMMA MembersSeen ==
  ASSUME NEW V, NEW A, NEW D
  PROVE  Members((V \ D) \cup A) = (Members(V) \ Members(D)) \cup Members(A)
<1> SUFFICES ASSUME NEW p
             PROVE  p \in Members((V \ D) \cup A) <=> p \in (Members(V) \ Members(D)) \cup Members(A)
  BY Zenon
<1>1. \A W : p \in Members(W) <=> p \in Groups \X Users /\ <<"member", p[1], p[2]>> \in W
  BY MemberOf, Zenon
<1> DEFINE row == <<"member", p[1], p[2]>>
           pair == p \in Groups \X Users
<1>2. /\ p \in Members(V) <=> pair /\ row \in V
      /\ p \in Members(D) <=> pair /\ row \in D
      /\ p \in Members(A) <=> pair /\ row \in A
      /\ p \in Members((V \ D) \cup A) <=> pair /\ row \in (V \ D) \cup A
  BY <1>1, Zenon
<1> HIDE DEF row, pair
<1> QED BY <1>2, Zenon

\* Different rows are different grants.
LEMMA GrantsApart ==
  ASSUME NEW A, NEW B, A \cap B = {}
  PROVE  Grants(A) \cap Grants(B) = {}
BY GrantOf, Zenon

\* Nothing is in no rows.
LEMMA NoRows == GroupIds({}) = {} /\ Grants({}) = {} /\ Members({}) = {}
BY Zenon DEF GroupIds, Grants, Members

\* Rows of other tables are no grants.
LEMMA NoGrants ==
  ASSUME NEW A, A \cap GrantRows(Groups, Apps) = {}
  PROVE  Grants(A) = {}
BY Zenon DEF Grants
=============================================================================
