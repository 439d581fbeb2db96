--------------------------- MODULE AdminApiProofs ---------------------------
(***************************************************************************)
(* What AdminApi keeps true for every number of requests, groups, users and  *)
(* applications, every page size and every fault. The first part is about    *)
(* the tuples that the token hook checks; the second about the tables, and   *)
(* about the two stores together.                                            *)
(***************************************************************************)
EXTENDS AdminApi, TablesProofs

(***************************************************************************)
(* What the administrators were told of their grants holds for the tuples.   *)
(* The tables play no part in the argument: a step of a request is followed  *)
(* by what it does to the tuples and to the claims.                          *)
(***************************************************************************)

\* The functions that the proof looks at are defined on the requests.
Domains ==
  /\ DOMAIN pc = Requests /\ DOMAIN op = Requests /\ DOMAIN status = Requests
  /\ DOMAIN page = Requests /\ DOMAIN more = Requests /\ DOMAIN claims = Requests

\* A step of request r at work: it leaves what others are at, what is claimed
\* and what was confirmed alone, and adds or removes only tuples that its call
\* grants or revokes.
StepOf(r) ==
  /\ r \in InFlight
  /\ \A t \in Requests \ {r} :
       /\ pc'[t] = pc[t] /\ status'[t] = status[t]
       /\ page'[t] = page[t] /\ more'[t] = more[t]
  /\ UNCHANGED <<op, claims, granted, revoked>>
  /\ tuples' \subseteq tuples \cup Grantees(op[r])
  /\ tuples \subseteq tuples' \cup Revokes(op[r])

\* A call grants or revokes, not both.
LEMMA OneWay ==
  ASSUME NEW o
  PROVE  Grantees(o) = {} \/ Revokes(o) = {}
BY Zenon DEF Grantees, Revokes

\* What a call covers is among what it revokes, and all of it but for
\* RemoveAllowedGroupsForApp.
LEMMA CoversRevoked ==
  ASSUME NEW o
  PROVE  /\ Covers(o) \subseteq Revokes(o)
         /\ o.call # "RemoveAllowedGroupsForApp" => Covers(o) = Revokes(o)
BY Zenon DEF Covers

\* Another request in flight does not touch what r claims.
LEMMA ClaimIsSafe ==
  ASSUME GrantInv, NEW r \in Requests, NEW i \in InFlight, r # i
  PROVE  /\ claims[r] \cap Grantees(op[r]) \cap Revokes(op[i]) = {}
         /\ claims[r] \cap Revokes(op[r]) \cap Grantees(op[i]) = {}
<1>1. claims[r] \cap Opposed(op[r], op[i]) = {}
  BY Zenon DEF GrantInv
<1> QED BY <1>1, Zenon DEF Opposed

\* A step of r keeps the invariant when it keeps it for r.
LEMMA StepKeepsInv ==
  ASSUME GrantInv, NEW r \in Requests, StepOf(r), ClaimHolds(r)', pc'[r] # "idle"
  PROVE  GrantInv'
<1>1. r \in InFlight /\ pc[r] # "idle" /\ InFlight' \subseteq InFlight
  BY Zenon DEF StepOf, InFlight
<1>2. UNCHANGED <<op, claims, granted, revoked>>
  BY Zenon DEF StepOf
<1>3. tuples' \subseteq tuples \cup Grantees(op[r]) /\ tuples \subseteq tuples' \cup Revokes(op[r])
  BY Zenon DEF StepOf
<1>4. ASSUME NEW t \in Requests \ {r} PROVE ClaimHolds(t)'
  <2>1. ClaimHolds(t)
    BY Zenon DEF GrantInv
  <2>2. /\ claims[t] \cap Grantees(op[t]) \cap Revokes(op[r]) = {}
        /\ claims[t] \cap Revokes(op[t]) \cap Grantees(op[r]) = {}
    BY <1>1, ClaimIsSafe, Zenon
  <2>3. /\ pc'[t] = pc[t] /\ status'[t] = status[t]
        /\ page'[t] = page[t] /\ more'[t] = more[t]
    BY Zenon DEF StepOf
  <2>4. /\ Revokes(op[t])' = Revokes(op[t]) /\ Grantees(op[t])' = Grantees(op[t])
        /\ Covers(op[t])' = Covers(op[t])
    BY <1>2, Zenon
  <2>5. /\ claims[t] \cap Grantees(op[t]) \subseteq tuples =>
             claims[t] \cap Grantees(op[t]) \subseteq tuples'
        /\ claims[t] \cap Revokes(op[t]) \cap tuples = {} =>
             claims[t] \cap Revokes(op[t]) \cap tuples' = {}
    BY <1>3, <2>2, Zenon
  <2>6. pc[t] = "deletePage" /\ claims[t] \cap tuples \subseteq page[t] =>
          claims[t] \cap tuples' \subseteq page[t]
    <3>1. pc[t] = "deletePage" => Grantees(op[t]) = {}
      BY <2>1 DEF ClaimHolds, Grantees
    <3>2. claims[t] \subseteq Revokes(op[t]) \cup Grantees(op[t])
      <4>1. claims[t] \subseteq Covers(op[t]) \cup Grantees(op[t])
        BY <2>1, ZenonT(30) DEF ClaimHolds
      <4>2. Covers(op[t]) \subseteq Revokes(op[t])
        BY CoversRevoked, Zenon
      <4> QED BY <4>1, <4>2, Zenon
    <3> QED BY <1>3, <2>2, <3>1, <3>2, Zenon
  <2> QED BY <1>2, <2>1, <2>3, <2>4, <2>5, <2>6 DEF ClaimHolds
<1>5. \A t \in Requests, i \in InFlight' : t # i => claims'[t] \cap Opposed(op[t], op[i])' = {}
  BY <1>1, <1>2, Zenon DEF GrantInv
<1>6. \A i \in InFlight' : granted' \cap Revokes(op[i])' = {} /\ revoked' \cap Grantees(op[i])' = {}
  BY <1>1, <1>2, Zenon DEF GrantInv
<1>7. RevokedMeansNoTuple' /\ GrantedMeansTuple'
  BY <1>1, <1>2, <1>3, Zenon DEF GrantInv, RevokedMeansNoTuple, GrantedMeansTuple
<1> QED BY <1>4, <1>5, <1>6, <1>7, Zenon DEF GrantInv

-----------------------------------------------------------------------------
\* A request that arrives ends the claims that it opposes, and claims what no
\* request in flight opposes.
LEMMA ArriveKeepsInv ==
  ASSUME Domains, GrantInv, NEW r \in Requests, Arrive(r)
  PROVE  Domains' /\ GrantInv'
<1>1. PICK o \in Calls :
        /\ op' = [op EXCEPT ![r] = o]
        /\ pc' = [pc EXCEPT ![r] =
                    IF (o.call = "UpdateGroup" /\ o.name # NoName)
                         \/ (o.call = "AddUsersToGroup" /\ o.users = {})
                      THEN "reply" ELSE "db"]
        /\ status' = [status EXCEPT ![r] =
                        IF o.call = "UpdateGroup" /\ o.name # NoName THEN 400 ELSE 0]
        /\ claims' = [t \in Requests |->
             IF t = r
               THEN (Covers(o) \cup Grantees(o)) \ UNION {Opposed(o, op[i]) : i \in InFlight}
               ELSE claims[t] \ Opposed(o, op[t])]
        /\ granted' = granted \ Revokes(o)
        /\ revoked' = revoked \ Grantees(o)
  BY Zenon DEF Arrive
<1>2. UNCHANGED <<tuples, page, more>>
  BY Zenon DEF Arrive, fgaVars
<1>3. Domains'
  BY <1>1, <1>2, Zenon DEF Domains
<1>4. op'[r] = o /\ pc'[r] \in {"reply", "db"} /\ status'[r] \in {0, 400}
  BY <1>1, Zenon DEF Domains
<1>5. \A t \in Requests \ {r} :
        op'[t] = op[t] /\ pc'[t] = pc[t] /\ status'[t] = status[t] /\ claims'[t] \subseteq claims[t]
  BY <1>1, Zenon DEF Domains
<1>6. r \notin InFlight /\ InFlight' = InFlight \cup {r}
  BY <1>4, <1>5 DEF Arrive, InFlight
<1>7. ClaimHolds(r)'
  <2>1. claims'[r] \subseteq Covers(o) \cup Grantees(o)
    BY <1>1, Zenon
  <2>2. pc'[r] = "reply" => Covers(o) = {} /\ Grantees(o) = {}
    <3>1. pc'[r] = "reply" => o.call \in {"UpdateGroup", "AddUsersToGroup"}
      BY <1>1, Zenon DEF Domains
    <3> QED BY <3>1, Zenon DEF Covers, Revokes, Grantees
  <2> QED BY <1>4, <2>1, <2>2 DEF ClaimHolds
<1>8. ASSUME NEW t \in Requests \ {r} PROVE ClaimHolds(t)'
  <2>1. ClaimHolds(t)
    BY Zenon DEF GrantInv
  <2> QED BY <1>2, <1>5, <2>1 DEF ClaimHolds
<1>9. ASSUME NEW t \in Requests, NEW i \in InFlight', t # i
      PROVE  claims'[t] \cap Opposed(op'[t], op'[i]) = {}
  <2>1. CASE t = r
    <3>1. i \in InFlight /\ op'[i] = op[i]
      BY <1>5, <1>6, <1>9, <2>1, Zenon DEF InFlight
    <3>2. claims'[r] \cap Opposed(o, op[i]) = {}
      BY <1>1, <3>1, Zenon
    <3> QED BY <1>4, <2>1, <3>1, <3>2, Zenon
  <2>2. CASE t # r /\ i = r
    <3>1. claims'[t] \cap Opposed(o, op[t]) = {}
      BY <1>1, <2>2, Zenon
    <3>2. Opposed(o, op[t]) = Opposed(op[t], o)
      BY Zenon DEF Opposed
    <3> QED BY <1>4, <1>5, <2>2, <3>1, <3>2, ZenonT(30)
  <2>3. CASE t # r /\ i # r
    <3>1. claims[t] \cap Opposed(op[t], op[i]) = {}
      BY <1>6, <1>9, <2>3, Zenon DEF GrantInv
    <3>2. op'[t] = op[t] /\ op'[i] = op[i] /\ claims'[t] \subseteq claims[t]
      BY <1>5, <2>3, Zenon DEF InFlight
    <3> QED BY <3>1, <3>2, Zenon
  <2> QED BY <2>1, <2>2, <2>3, Zenon
<1>10. ASSUME NEW i \in InFlight'
       PROVE  granted' \cap Revokes(op'[i]) = {} /\ revoked' \cap Grantees(op'[i]) = {}
  <2>1. CASE i = r
    BY <1>1, <1>4, <2>1, Zenon
  <2>2. CASE i # r
    <3>1. i \in InFlight /\ op'[i] = op[i]
      BY <1>5, <1>6, <2>2, Zenon DEF InFlight
    <3>2. granted \cap Revokes(op[i]) = {} /\ revoked \cap Grantees(op[i]) = {}
      BY <3>1, Zenon DEF GrantInv
    <3> QED BY <1>1, <3>1, <3>2, Zenon
  <2> QED BY <2>1, <2>2, Zenon
<1>11. RevokedMeansNoTuple' /\ GrantedMeansTuple'
  BY <1>1, <1>2, Zenon DEF GrantInv, RevokedMeansNoTuple, GrantedMeansTuple
<1> QED BY <1>3, <1>7, <1>8, <1>9, <1>10, <1>11, Zenon DEF GrantInv

\* What a response confirms is true of the tuples, and opposed by nobody.
LEMMA ReplyKeepsInv ==
  ASSUME Domains, GrantInv, NEW r \in Requests, Reply(r)
  PROVE  Domains' /\ GrantInv'
<1>1. /\ pc[r] = "reply" /\ pc' = [pc EXCEPT ![r] = "finish"]
      /\ claims' = [claims EXCEPT ![r] = {}]
      /\ page' = [page EXCEPT ![r] = {}]
      /\ more' = [more EXCEPT ![r] = FALSE]
      /\ UNCHANGED <<tuples, op>>
  BY Zenon DEF Reply
<1>2. PICK code : status' = [status EXCEPT ![r] = code]
  BY ZenonT(30) DEF Reply
<1>3. Domains'
  BY <1>1, <1>2, Zenon DEF Domains
<1>4. /\ \A t \in Requests \ {r} :
           /\ pc'[t] = pc[t] /\ status'[t] = status[t] /\ claims'[t] = claims[t]
           /\ page'[t] = page[t] /\ more'[t] = more[t]
      /\ pc'[r] = "finish" /\ claims'[r] = {}
  BY <1>1, <1>2, Zenon DEF Domains
<1>5. InFlight' = InFlight /\ r \in InFlight
  BY <1>1, <1>4, Zenon DEF InFlight
<1>6. \A t \in Requests : ClaimHolds(t)
  BY Zenon DEF GrantInv
<1>7. ASSUME NEW t \in Requests PROVE ClaimHolds(t)'
  <2>1. CASE t = r
    BY <1>4, <2>1, Zenon DEF ClaimHolds
  <2>2. CASE t # r
    <3>1. ClaimHolds(t)
      BY <1>6, Zenon
    <3>2. /\ Revokes(op[t])' = Revokes(op[t]) /\ Grantees(op[t])' = Grantees(op[t])
          /\ Covers(op[t])' = Covers(op[t])
      BY <1>1, Zenon
    <3> QED BY <1>1, <1>4, <2>2, <3>1, <3>2 DEF ClaimHolds
  <2> QED BY <2>1, <2>2, Zenon
<1>8. \A t \in Requests, i \in InFlight' : t # i => claims'[t] \cap Opposed(op[t], op[i])' = {}
  BY <1>1, <1>4, <1>5, Zenon DEF GrantInv
<1>9. \/ granted' = granted /\ revoked' = revoked
      \/ /\ status[r] = 0
         /\ granted' = granted \cup (claims[r] \cap Grantees(op[r]))
         /\ revoked' = revoked \cup (claims[r] \cap Revokes(op[r]))
  <2>1. status[r] \in {0, 400, 404, 409, 500}
    BY <1>1, <1>6 DEF ClaimHolds
  <2> QED BY <2>1 DEF Reply
<1>10. CASE granted' = granted /\ revoked' = revoked
  BY <1>1, <1>3, <1>5, <1>7, <1>8, <1>10, Zenon DEF GrantInv, RevokedMeansNoTuple, GrantedMeansTuple
<1>11. CASE /\ status[r] = 0
            /\ granted' = granted \cup (claims[r] \cap Grantees(op[r]))
            /\ revoked' = revoked \cup (claims[r] \cap Revokes(op[r]))
  <2>1. /\ claims[r] \cap Grantees(op[r]) \subseteq tuples
        /\ claims[r] \cap Revokes(op[r]) \cap tuples = {}
    BY <1>1, <1>6, <1>11 DEF ClaimHolds
  <2>2. RevokedMeansNoTuple' /\ GrantedMeansTuple'
    BY <1>1, <1>11, <2>1, Zenon DEF GrantInv, RevokedMeansNoTuple, GrantedMeansTuple
  <2>3. ASSUME NEW i \in InFlight'
        PROVE  granted' \cap Revokes(op'[i]) = {} /\ revoked' \cap Grantees(op'[i]) = {}
    <3>1. granted \cap Revokes(op[i]) = {} /\ revoked \cap Grantees(op[i]) = {}
      BY <1>5, <2>3, Zenon DEF GrantInv
    <3>2. /\ claims[r] \cap Grantees(op[r]) \cap Revokes(op[i]) = {}
          /\ claims[r] \cap Revokes(op[r]) \cap Grantees(op[i]) = {}
      BY <1>5, <2>3, ClaimIsSafe, OneWay, Zenon
    <3> QED BY <1>1, <1>11, <3>1, <3>2, Zenon
  <2> QED BY <1>3, <1>7, <1>8, <2>2, <2>3, Zenon DEF GrantInv
<1> QED BY <1>9, <1>10, <1>11, Zenon

-----------------------------------------------------------------------------
(***************************************************************************)
(* The steps of a request at work.                                          *)
(***************************************************************************)

\* Request r goes to another place, and nothing else changes here.
Moves(r, place, code) ==
  /\ pc' = [pc EXCEPT ![r] = place] /\ status' = [status EXCEPT ![r] = code]
  /\ UNCHANGED <<tuples, page, more, op, claims, granted, revoked>>

\* The places that the call of r leads to.
Fits(r, place, code) ==
  \/ place = "reply" /\ code \in {400, 404, 409, 500}
  \/ place = "reply" /\ code = 0 /\ Revokes(op[r]) = {} /\ Grantees(op[r]) = {}
  \/ place = "upsert" /\ code = 0
  \/ place = "write" /\ code = 0 /\ op[r].call = "AddAllowedAppToGroup"
  \/ place = "delete" /\ code = 0 /\ op[r].call = "RemoveAllowedAppFromGroup"
  \/ /\ place = "read" /\ code = 0
     /\ op[r].call \in {"RemoveGroup", "RemoveAllowedAppsFromGroup",
                        "RemoveAllowedGroupsForApp"}

\* A step that leaves the tuples alone and takes request r to another place.
LEMMA MoveKeepsInv ==
  ASSUME Domains, GrantInv, NEW r \in Requests, NEW place, NEW code,
         pc[r] \notin {"idle", "done"}, Moves(r, place, code), Fits(r, place, code)
  PROVE  Domains' /\ GrantInv'
<1>1. Domains'
  BY Zenon DEF Domains, Moves
<1>2. pc'[r] = place /\ status'[r] = code /\ place # "idle"
  BY ZenonT(30) DEF Domains, Moves, Fits
<1>3. StepOf(r)
  BY Zenon DEF StepOf, InFlight, Domains, Moves
<1>4. ClaimHolds(r)
  BY Zenon DEF GrantInv
<1>5. /\ claims[r] \subseteq Covers(op[r]) \cup Grantees(op[r])
      /\ pc[r] = "finish" => claims[r] = {}
      /\ Covers(op[r]) \subseteq Revokes(op[r])
  BY <1>4, CoversRevoked, ZenonT(30) DEF ClaimHolds
<1>6. claims'[r] = claims[r] /\ op'[r] = op[r]
  BY Zenon DEF Moves
<1>7. ClaimHolds(r)'
  BY <1>2, <1>5, <1>6 DEF ClaimHolds, Fits
<1> QED BY <1>1, <1>2, <1>3, <1>7, StepKeepsInv, Zenon

\* An error has a status of its own.
LEMMA StatusOfError ==
  ASSUME NEW call, NEW error
  PROVE  /\ error = "none" => StatusOf(call, error) = 0
         /\ error # "none" => StatusOf(call, error) \in {400, 404, 409, 500}
BY DEF StatusOf, GroupsStatus, AuthorizationStatus

\* The status says whether a request is settled when its handler is done.
LEMMA SettledNext ==
  ASSUME NEW r
  PROVE  /\ status'[r] = 0 /\ pc'[r] \in {"reply", "finish"} => Settled(r)'
         /\ status'[r] \in {400, 404, 409, 500} => ~Settled(r)'
BY DEF Settled

\* A request that is settled by its statement has no tuples to write or to delete.
LEMMA SettledByStatement ==
  ASSUME NEW r, NEW next, Fits(r, next, 0), pc'[r] = next, Settled(r)'
  PROVE  Revokes(op[r]) = {} /\ Grantees(op[r]) = {}
BY DEF Settled, Fits

\* A transaction is rolled back because its request failed.
LEMMA RollbackUnsettled ==
  ASSUME TypeOK, NEW r \in Requests, Rollback(r)
  PROVE  ~Settled(r)
BY DEF Rollback, Settled, TypeOK

\* The grants that a transaction sees, and those that a statement leaves.
LEMMA GrantsOfView ==
  ASSUME NEW r
  PROVE  /\ Grants(View(r)) = (Grants(rows) \ Grants(drops[r])) \cup Grants(adds[r])
         /\ Grants((rows \ drops[r]) \cup adds[r]) =
              (Grants(rows) \ Grants(drops[r])) \cup Grants(adds[r])
BY GrantsSeen DEF View

LEMMA GrantsOfStatement ==
  ASSUME NEW s
  PROVE  Grants((rows \ s.drops) \cup s.adds) = (Grants(rows) \ Grants(s.drops)) \cup Grants(s.adds)
BY GrantsSeen

\* A statement, whatever it does to the tables.
LEMMA ExecKeepsInv ==
  ASSUME Domains, GrantInv, NEW r \in Requests, NEW s, NEW next, Exec(r, s, next),
         pc[r] \in {"db", "upsert"}, Fits(r, next, 0)
  PROVE  Domains' /\ GrantInv'
<1> DEFINE code == StatusOf(op[r].call, s.error)
<1> DEFINE place == IF s.error = "none" THEN next ELSE "reply"
<1>1. Moves(r, place, code)
  BY Zenon DEF Exec, Moves, fgaVars, pairVars
<1>2. Fits(r, place, code)
  BY StatusOfError DEF Fits
<1> HIDE DEF code, place
<1> QED BY <1>1, <1>2, MoveKeepsInv, Zenon

\* A step that changes none of this.
LEMMA NothingMoves ==
  ASSUME Domains, GrantInv,
         UNCHANGED <<pc, status, tuples, page, more, op, claims, granted, revoked>>
  PROVE  Domains' /\ GrantInv'
<1>1. InFlight' = InFlight
  BY Zenon DEF InFlight
<1>2. ASSUME NEW t \in Requests PROVE ClaimHolds(t)'
  <2>1. ClaimHolds(t)
    BY Zenon DEF GrantInv
  <2> QED BY <2>1 DEF ClaimHolds
<1> QED BY <1>1, <1>2, Zenon DEF Domains, GrantInv, RevokedMeansNoTuple, GrantedMeansTuple

\* The statements of the handlers and of the commands.
LEMMA DbKeepsInv ==
  ASSUME Domains, GrantInv, NEW r \in Requests, DbStep(r)
  PROVE  Domains' /\ GrantInv'
<1>1. CASE CreateGroup(r)
  <2>1. PICK g : Exec(r, InsertGroup(View(r), g, op[r].name), "reply")
    BY <1>1, Zenon DEF CreateGroup
  <2>2. op[r].call = "CreateGroup" /\ pc[r] = "db"
    BY <1>1, Zenon DEF CreateGroup, At
  <2>3. Revokes(op[r]) = {} /\ Grantees(op[r]) = {}
    BY <2>2, Zenon DEF Revokes, Grantees
  <2> QED BY <2>1, <2>2, <2>3, ExecKeepsInv, ZenonT(30) DEF Fits
<1>2. CASE \/ UpdateGroup(r) \/ AddUsersToGroup(r) \/ RemoveUsersFromGroup(r)
           \/ RemoveUserFromAllGroups(r) \/ UpsertGroupsForUser(r)
  <2>1. PICK s : Exec(r, s, "reply")
    BY <1>2, Zenon DEF UpdateGroup, AddUsersToGroup, RemoveUsersFromGroup, RemoveUserFromAllGroups,
       UpsertGroupsForUser
  <2>2. /\ op[r].call \in {"UpdateGroup", "AddUsersToGroup", "RemoveUsersFromGroup",
                           "RemoveUserFromAllGroups", "AddUserToGroups"}
        /\ pc[r] \in {"db", "upsert"}
    BY <1>2, Zenon DEF UpdateGroup, AddUsersToGroup, RemoveUsersFromGroup, RemoveUserFromAllGroups,
       UpsertGroupsForUser, At
  <2>3. Revokes(op[r]) = {} /\ Grantees(op[r]) = {}
    BY <2>2, Zenon DEF Revokes, Grantees
  <2> QED BY <2>1, <2>2, <2>3, ExecKeepsInv, ZenonT(30) DEF Fits
<1>3. CASE UpdateGroupsForUser(r)
  <2>1. PICK s, next : Exec(r, s, next) /\ next \in {"reply", "upsert"}
    BY <1>3, Zenon DEF UpdateGroupsForUser
  <2>2. op[r].call = "AddUserToGroups" /\ pc[r] = "db"
    BY <1>3, Zenon DEF UpdateGroupsForUser, At
  <2>3. Revokes(op[r]) = {} /\ Grantees(op[r]) = {}
    BY <2>2, Zenon DEF Revokes, Grantees
  <2> QED BY <2>1, <2>2, <2>3, ExecKeepsInv DEF Fits
<1>4. CASE DeleteGroup(r)
  <2>1. PICK s : Exec(r, s, "read") /\ op[r].call = "RemoveGroup" /\ pc[r] = "db"
    BY <1>4, Zenon DEF DeleteGroup, At
  <2> QED BY <2>1, ExecKeepsInv, ZenonT(30) DEF Fits
<1>5. CASE AddAllowedApp(r) \/ RemoveAllowedApp(r) \/ RemoveAllowedApps(r)
             \/ RemoveAllAllowedGroupsForApp(r)
  <2>1. PICK s : Exec(r, s, AfterTables[op[r].call]) /\ pc[r] = "db"
    BY <1>5, Zenon DEF AddAllowedApp, RemoveAllowedApp, RemoveAllowedApps,
       RemoveAllAllowedGroupsForApp, At
  <2>2. op[r].call \in AuthorizationCalls
    BY <1>5, Zenon DEF AddAllowedApp, RemoveAllowedApp, RemoveAllowedApps,
       RemoveAllAllowedGroupsForApp, At, AuthorizationCalls
  <2>3. \/ AfterTables[op[r].call] = "write" /\ op[r].call = "AddAllowedAppToGroup"
        \/ AfterTables[op[r].call] = "delete" /\ op[r].call = "RemoveAllowedAppFromGroup"
        \/ /\ AfterTables[op[r].call] = "read"
           /\ op[r].call \in {"RemoveAllowedAppsFromGroup", "RemoveAllowedGroupsForApp"}
    BY <2>2, Zenon DEF AfterTables, AuthorizationCalls
  <2> QED BY <2>1, <2>3, ExecKeepsInv DEF Fits
<1>6. CASE StatementFails(r)
  <2>1. pc[r] \in {"db", "upsert"} /\ Moves(r, "reply", 500)
    BY <1>6, Zenon DEF StatementFails, Moves, fgaVars, pairVars
  <2> QED BY <2>1, MoveKeepsInv DEF Fits
<1>7. CASE TxExpires(r)
  BY <1>7, NothingMoves, Zenon DEF TxExpires, fgaVars, pairVars
<1> QED BY <1>1, <1>2, <1>3, <1>4, <1>5, <1>6, <1>7, Zenon DEF DbStep

-----------------------------------------------------------------------------
(***************************************************************************)
(* The calls to OpenFGA.                                                    *)
(***************************************************************************)

\* A call that fails, or whose answer is late, ends in an error and claims
\* nothing.
LEMMA FailedCall ==
  ASSUME Domains, GrantInv, NEW r \in Requests, pc[r] \notin {"idle", "done"},
         pc' = [pc EXCEPT ![r] = "reply"], status' = [status EXCEPT ![r] = 500],
         UNCHANGED <<page, more, op, claims, granted, revoked>>,
         tuples' \subseteq tuples \cup Grantees(op[r]),
         tuples \subseteq tuples' \cup Revokes(op[r])
  PROVE  Domains' /\ GrantInv'
<1>1. Domains'
  BY Zenon DEF Domains
<1>2. pc'[r] = "reply" /\ status'[r] = 500
  BY Zenon DEF Domains
<1>3. StepOf(r)
  BY Zenon DEF StepOf, InFlight, Domains
<1>4. ClaimHolds(r)
  BY Zenon DEF GrantInv
<1>5. ClaimHolds(r)'
  BY <1>2, <1>4 DEF ClaimHolds
<1> QED BY <1>1, <1>2, <1>3, <1>5, StepKeepsInv, Zenon

\* A tuple that was written is there, and a tuple that was deleted is not.
LEMMA TupleKeepsInv ==
  ASSUME Domains, GrantInv, NEW r \in Requests, WriteTuple(r) \/ DeleteTuple(r)
  PROVE  Domains' /\ GrantInv'
<1> DEFINE t == <<op[r].group, op[r].app>>
<1>1. UNCHANGED <<page, more, op, claims, granted, revoked>> /\ pc[r] \in {"write", "delete"}
  BY Zenon DEF WriteTuple, DeleteTuple, pairVars
<1>2. ClaimHolds(r)
  BY Zenon DEF GrantInv
<1>3. \/ /\ WriteTuple(r) /\ Grantees(op[r]) = {t} /\ Revokes(op[r]) = {}
         /\ Call(r, t \notin tuples, tuples \cup {t}, "reply")
      \/ /\ DeleteTuple(r) /\ Revokes(op[r]) = {t} /\ Grantees(op[r]) = {}
         /\ Call(r, t \in tuples, tuples \ {t}, "reply")
  BY <1>2 DEF WriteTuple, DeleteTuple, ClaimHolds, Grantees, Revokes
<1>4. /\ tuples' \subseteq tuples \cup Grantees(op[r])
      /\ tuples \subseteq tuples' \cup Revokes(op[r])
  BY <1>3, Zenon DEF Call
<1>5. pc' = [pc EXCEPT ![r] = "reply"]
  BY <1>3, Zenon DEF Call
<1>6. CASE status' = [status EXCEPT ![r] = 500]
  BY <1>1, <1>4, <1>5, <1>6, FailedCall, Zenon
<1>7. CASE /\ UNCHANGED status
           /\ \/ Grantees(op[r]) = {t} /\ Revokes(op[r]) = {} /\ tuples' = tuples \cup {t}
              \/ Revokes(op[r]) = {t} /\ Grantees(op[r]) = {} /\ tuples' = tuples \ {t}
  <2>1. Domains' /\ pc'[r] = "reply" /\ status'[r] = 0
    BY <1>1, <1>2, <1>5, <1>7 DEF Domains, ClaimHolds
  <2>2. StepOf(r)
    BY <1>1, <1>4, <1>5, <1>7, Zenon DEF StepOf, InFlight, Domains
  <2>3. /\ claims[r] \cap Grantees(op[r]) \subseteq tuples'
        /\ claims[r] \cap Revokes(op[r]) \cap tuples' = {}
    BY <1>7, Zenon
  <2>4. ClaimHolds(r)'
    BY <1>1, <1>2, <2>1, <2>3, Zenon DEF ClaimHolds
  <2> QED BY <2>1, <2>2, <2>4, StepKeepsInv, Zenon
<1> QED BY <1>3, <1>6, <1>7, Zenon DEF Call

\* Cardinality is a recursive function on the finite subsets.
LEMMA EmptyCard == Cardinality({}) = 0
<1> DEFINE F(f) == [T \in SUBSET {} |-> IF T = {} THEN 0 ELSE 1 + f[T \ {CHOOSE x : x \in T}]]
<1>1. SUBSET {} = {{}}
  BY Zenon
<1>2. \A f : F(f) = [T \in SUBSET {} |-> 0]
  BY <1>1, Zenon
<1>3. \E f : f = F(f)
  BY <1>2, Zenon
<1>4. (CHOOSE f : f = F(f)) = F(CHOOSE f : f = F(f))
  BY <1>3, Zenon
<1>5. Cardinality({}) = (CHOOSE f : f = F(f))[{}]
  BY Zenon DEF Cardinality
<1> QED BY <1>1, <1>2, <1>4, <1>5, Zenon

\* The last page that is read has all that is left to delete.
LEMMA ReadKeepsInv ==
  ASSUME Domains, GrantInv, NEW r \in Requests, ReadTuples(r)
  PROVE  Domains' /\ GrantInv'
<1> DEFINE matching == Covers(op[r]) \cap tuples
<1>1. PICK p \in SUBSET matching :
        /\ Cardinality(p) = PageSize \/ (p = matching /\ Cardinality(p) < PageSize)
        /\ page' = [page EXCEPT ![r] = p]
        /\ more' = [more EXCEPT ![r] = p # matching]
        /\ pc' = [pc EXCEPT ![r] = IF p = {} THEN "reply" ELSE "deletePage"]
  BY Zenon DEF ReadTuples
<1>2. pc[r] = "read" /\ UNCHANGED <<tuples, op, status, claims, granted, revoked>>
  BY Zenon DEF ReadTuples, pairVars
<1>3. Domains'
  BY <1>1, <1>2, Zenon DEF Domains
<1>4. /\ pc'[r] = IF p = {} THEN "reply" ELSE "deletePage"
      /\ page'[r] = p
      /\ ~more'[r] => p = matching
  BY <1>1, ZenonT(30) DEF Domains
<1>5. p = {} => p = matching
  BY <1>1, EmptyCard, PageSizePositive, Zenon
<1>6. ClaimHolds(r)
  BY Zenon DEF GrantInv
<1>7. /\ status[r] = 0 /\ Grantees(op[r]) = {} /\ claims[r] \subseteq Covers(op[r])
      /\ Covers(op[r]) \subseteq Revokes(op[r])
  BY <1>2, <1>6, CoversRevoked DEF ClaimHolds, Grantees
<1>8. /\ op[r].call \in {"RemoveGroup", "RemoveAllowedAppsFromGroup", "RemoveAllowedGroupsForApp"}
  BY <1>2, <1>6, Zenon DEF ClaimHolds
<1>9. StepOf(r)
  BY <1>1, <1>2, Zenon DEF StepOf, InFlight, Domains
<1>10. /\ op'[r] = op[r] /\ status'[r] = 0 /\ claims'[r] = claims[r] /\ tuples' = tuples
       /\ page'[r] \subseteq Revokes(op[r])
       /\ ~more'[r] => claims[r] \cap tuples \subseteq page'[r]
       /\ pc'[r] = "reply" => claims[r] \cap tuples = {}
       /\ pc'[r] \in {"reply", "deletePage"}
  BY <1>2, <1>4, <1>5, <1>7, Zenon
<1>11. ClaimHolds(r)'
  BY <1>7, <1>8, <1>10, ZenonT(30) DEF ClaimHolds
<1> QED BY <1>3, <1>9, <1>10, <1>11, StepKeepsInv, Zenon

\* A page is deleted; when it was the last one, nothing claimed is left.
LEMMA DeletePageKeepsInv ==
  ASSUME Domains, GrantInv, NEW r \in Requests, DeleteTuples(r)
  PROVE  Domains' /\ GrantInv'
<1>1. pc[r] = "deletePage" /\ UNCHANGED <<page, more, op, claims, granted, revoked>>
  BY Zenon DEF DeleteTuples, pairVars
<1>2. ClaimHolds(r)
  BY Zenon DEF GrantInv
<1>3. /\ page[r] \subseteq Revokes(op[r])
      /\ op[r].call \in {"RemoveGroup", "RemoveAllowedAppsFromGroup", "RemoveAllowedGroupsForApp"}
      /\ status[r] = 0
      /\ ~more[r] => claims[r] \cap tuples \subseteq page[r]
  BY <1>1, <1>2, ZenonT(30) DEF ClaimHolds
<1>4. tuples' = tuples \/ tuples' = tuples \ page[r]
  BY Zenon DEF DeleteTuples, Call
<1>5. /\ tuples' \subseteq tuples \cup Grantees(op[r])
      /\ tuples \subseteq tuples' \cup Revokes(op[r])
  BY <1>3, <1>4, Zenon
<1>6. CASE pc' = [pc EXCEPT ![r] = "reply"] /\ status' = [status EXCEPT ![r] = 500]
  BY <1>1, <1>5, <1>6, FailedCall, Zenon
<1>7. CASE /\ UNCHANGED status /\ tuples' = tuples \ page[r]
           /\ pc' = [pc EXCEPT ![r] = IF more[r] THEN "read" ELSE "reply"]
  <2>1. Domains' /\ StepOf(r)
    BY <1>1, <1>5, <1>7, Zenon DEF StepOf, InFlight, Domains
  <2>2. /\ pc'[r] \in {"read", "reply"}
        /\ pc'[r] = "reply" => claims[r] \cap tuples' = {}
    BY <1>3, <1>7, Zenon DEF Domains
  <2>3. Grantees(op[r]) = {} /\ claims[r] \subseteq Covers(op[r])
    BY <1>2, <1>3 DEF ClaimHolds, Grantees
  <2>4. ClaimHolds(r)'
    BY <1>1, <1>3, <1>7, <2>2, <2>3, Zenon DEF ClaimHolds
  <2> QED BY <2>1, <2>2, <2>4, StepKeepsInv, Zenon
<1> QED BY <1>6, <1>7, Zenon DEF DeleteTuples, Call

-----------------------------------------------------------------------------
\* GrantInv holds always.
THEOREM GrantInvariant == Spec => [](Domains /\ GrantInv)
<1>1. Init => Domains /\ GrantInv
  <2> SUFFICES ASSUME Init PROVE Domains /\ GrantInv
    BY Zenon
  <2>1. Domains
    BY Zenon DEF Init, Domains
  <2>2. InFlight = {} /\ \A r \in Requests : pc[r] = "idle" /\ claims[r] = {}
    BY Zenon DEF Init, InFlight
  <2>3. \A r \in Requests : ClaimHolds(r)
    BY <2>2, ZenonT(30) DEF ClaimHolds
  <2>4. RevokedMeansNoTuple /\ GrantedMeansTuple
    BY Zenon DEF Init, RevokedMeansNoTuple, GrantedMeansTuple
  <2> QED BY <2>1, <2>2, <2>3, <2>4, Zenon DEF GrantInv
<1>2. Domains /\ GrantInv /\ [Next]_vars => Domains' /\ GrantInv'
  <2> SUFFICES ASSUME Domains, GrantInv, [Next]_vars PROVE Domains' /\ GrantInv'
    BY Zenon
  <2>1. CASE UNCHANGED vars
    BY <2>1, NothingMoves, Zenon DEF vars
  <2>2. ASSUME NEW r \in Requests,
               Arrive(r) \/ DbStep(r) \/ FgaStep(r) \/ Reply(r) \/ EndStep(r)
        PROVE  Domains' /\ GrantInv'
    <3>1. CASE ReadFails(r)
      <4>1. pc[r] = "read" /\ Moves(r, "reply", 500)
        BY <3>1, Zenon DEF ReadFails, Moves, fgaVars, pairVars
      <4> QED BY <4>1, MoveKeepsInv DEF Fits
    <3>2. CASE EndStep(r)
      <4>1. PICK how : EndTx(r, how)
        BY <3>2, Zenon DEF EndStep, Commit, CommitFails, Rollback, NoTx
      <4>2. /\ pc[r] = "finish" /\ pc' = [pc EXCEPT ![r] = "done"]
            /\ UNCHANGED <<tuples, page, more, op, status, claims, granted, revoked>>
        BY <4>1, Zenon DEF EndTx, fgaVars, pairVars
      <4>3. Domains' /\ StepOf(r) /\ pc'[r] = "done"
        BY <4>2, Zenon DEF StepOf, InFlight, Domains
      <4>4. ClaimHolds(r)
        BY Zenon DEF GrantInv
      <4>5. ClaimHolds(r)'
        BY <4>2, <4>3, <4>4, ZenonT(30) DEF ClaimHolds
      <4> QED BY <4>3, <4>5, StepKeepsInv, Zenon
    <3> QED BY <2>2, <3>1, <3>2, ArriveKeepsInv, DbKeepsInv, TupleKeepsInv, ReadKeepsInv,
               DeletePageKeepsInv, ReplyKeepsInv, Zenon DEF FgaStep
  <2> QED BY <2>1, <2>2, Zenon DEF Next
<1> QED BY <1>1, <1>2, PTL DEF Spec

\* A revoked grant gives no access: no tuple is left, or comes back, after
\* RemoveAllowedAppFromGroup, RemoveAllowedAppsFromGroup or RemoveGroup was
\* answered with success, for every number of requests, groups and applications
\* and whatever fails.
THEOREM RevokedStaysRevoked == Spec => []RevokedMeansNoTuple
<1>1. GrantInv => RevokedMeansNoTuple
  BY Zenon DEF GrantInv
<1> QED BY <1>1, GrantInvariant, PTL

\* A confirmed grant gives access, even when its row was lost, for every number
\* of requests, groups and applications (AddAllowedAppToGroup).
THEOREM GrantedStaysGranted == Spec => []GrantedMeansTuple
<1>1. GrantInv => GrantedMeansTuple
  BY Zenon DEF GrantInv
<1> QED BY <1>1, GrantInvariant, PTL

-----------------------------------------------------------------------------
(***************************************************************************)
(* What the transactions keep true of the tables and, with the calls to      *)
(* OpenFGA, of the two stores together. The lemmas of TablesProofs say what  *)
(* a statement does to the rows that it sees and what its locks achieve;     *)
(* GrantInv says where a request is in its call.                             *)
(***************************************************************************)

\* What the invariants below rest on.
Base == Domains /\ GrantInv /\ TypeOK /\ TablesInv

-----------------------------------------------------------------------------
(***************************************************************************)
(* The statements of the handlers.                                          *)
(***************************************************************************)

\* Request r executes the statement s and goes on to next when it succeeds. A
\* request that replies has written the memberships it asks for; the grants
\* that are written are the ones of the call, all of them before the tuples
\* are.
Executes(r, s, next) ==
  /\ Exec(r, s, next) /\ pc[r] \in {"db", "upsert"} /\ Fits(r, next, 0)
  /\ next = "upsert" => op[r].call = "AddUserToGroups"
  /\ named \subseteq named' /\ named' \subseteq Groups \X Names
  /\ s.error = "none" =>
       /\ Locked(View(r), s, UsedIds)
       /\ GroupIds(s.adds) \subseteq UsedIds'
       /\ next = "reply" => Asks(op[r]) \subseteq Members(s.adds)
       /\ Grants(s.drops) \subseteq Revokes(op[r]) /\ Grants(s.adds) \subseteq Grantees(op[r])
       /\ next = "write" => Grantees(op[r]) \subseteq Grants(s.adds)
       /\ next \in {"delete", "read"} =>
            Grants(View(r)) \cap Revokes(op[r]) \subseteq Grants(s.drops)

\* What a request at work asks for, and what it sees.
LEMMA AtWork ==
  ASSUME TypeOK, TablesInv, NEW r \in Requests, pc[r] # "idle"
  PROVE  /\ op[r] \in Calls /\ (r \in Cli <=> op[r].cli)
         /\ View(r) \subseteq Row /\ Consistent(View(r)) /\ GroupIds(View(r)) \subseteq UsedIds
<1>1. TxInv(r) /\ LocksInv
  BY Zenon DEF TablesInv
<1>2. op[r] \in Calls /\ (r \in Cli <=> op[r].cli)
  BY <1>1, Zenon DEF TxInv
<1>3. View(r) \subseteq Row
  BY DEF TypeOK, View
<1>4. GroupIds(View(r)) \subseteq UsedIds
  BY <1>1, Zenon DEF LocksInv, View, GroupIds
<1> QED BY <1>1, <1>2, <1>3, <1>4, Zenon DEF LocksInv

\* A call with the memberships or the grants of none.
LEMMA NoPairs ==
  ASSUME NEW o
  PROVE  /\ o.call \in GroupsCalls \ {"RemoveGroup"} => Revokes(o) = {} /\ Grantees(o) = {}
         /\ o.call \notin {"AddUsersToGroup", "AddUserToGroups"} => Asks(o) = {}
BY Zenon DEF Revokes, Grantees, Asks, GroupsCalls

\* INSERT INTO groups
LEMMA CreateGroupExecutes ==
  ASSUME TypeOK, TablesInv, NEW r \in Requests, CreateGroup(r)
  PROVE  \E s, next : Executes(r, s, next)
<1>1. op[r].call = "CreateGroup" /\ pc[r] = "db"
  BY Zenon DEF CreateGroup, At
<1>2. PICK g \in Groups \ UsedIds :
        LET s == InsertGroup(View(r), g, op[r].name) IN
        /\ Exec(r, s, "reply")
        /\ named' = IF s.error = "none" THEN named \cup {<<g, op[r].name>>} ELSE named
  BY Zenon DEF CreateGroup, UsedIds
<1> DEFINE s == InsertGroup(View(r), g, op[r].name)
<1>3. op[r].name \in Names
  BY <1>1, AtWork, CallsTyped, Zenon
<1>4. named \subseteq named' /\ named' \subseteq Groups \X Names
  BY <1>2, <1>3 DEF TypeOK
<1>5. s.error = "none" => Locked(View(r), s, UsedIds)
  BY <1>1, <1>3, AtWork, InsertGroupLocked, Zenon
<1>6. s.adds = {<<"group", g, op[r].name>>} /\ s.drops = {}
  BY DEF InsertGroup, GroupRows
<1>7. s.error = "none" => GroupIds(s.adds) \subseteq UsedIds'
  <2>1. GroupIds(s.adds) \subseteq {g}
    BY <1>6 DEF GroupIds
  <2>2. s.error = "none" => <<g, op[r].name>> \in named'
    BY <1>2, Zenon
  <2>3. <<g, op[r].name>>[1] = g
    BY Zenon
  <2> QED BY <2>1, <2>2, <2>3, Zenon DEF UsedIds
<1>8. Grants(s.adds) = {} /\ Grants(s.drops) = {}
  BY <1>6, NoGrants DEF GrantRows
<1>9. Revokes(op[r]) = {} /\ Grantees(op[r]) = {} /\ Asks(op[r]) = {}
  BY <1>1, NoPairs, Zenon DEF GroupsCalls
<1> HIDE DEF s
<1>10. Executes(r, s, "reply")
  BY <1>1, <1>2, <1>4, <1>5, <1>7, <1>8, <1>9, ZenonT(30) DEF Executes, Fits, s
<1> QED BY <1>10, Zenon

\* UPDATE groups
LEMMA UpdateGroupExecutes ==
  ASSUME TypeOK, TablesInv, NEW r \in Requests, UpdateGroup(r)
  PROVE  \E s, next : Executes(r, s, next)
<1> DEFINE g == op[r].group
           s == RenameGroup(View(r), g, NoName)
<1>1. op[r].call = "UpdateGroup" /\ pc[r] = "db" /\ Exec(r, s, "reply") /\ UNCHANGED named
  BY Zenon DEF UpdateGroup, At
<1>2. g \in Groups
  BY <1>1, AtWork, CallsTyped, Zenon
<1>3. s.error = "none" => Locked(View(r), s, UsedIds)
  BY <1>1, <1>2, AtWork, RenameGroupLocked, NoNameIsAName, Zenon
<1>4. s.adds = {<<"group", g, NoName>>} /\ s.drops \subseteq GroupRows({g}, Names)
  BY DEF RenameGroup, GroupRows
<1>5. s.error = "none" => GroupIds(s.adds) \subseteq UsedIds'
  <2>1. GroupIds(s.adds) \subseteq {g}
    BY <1>4 DEF GroupIds
  <2>2. s.error = "none" => g \in GroupIds(View(r))
    BY Zenon DEF RenameGroup
  <2> QED BY <1>1, <2>1, <2>2, AtWork, Zenon DEF UsedIds
<1>6. Grants(s.adds) = {} /\ Grants(s.drops) = {}
  BY <1>4, NoGrants DEF GrantRows, GroupRows
<1>7. Revokes(op[r]) = {} /\ Grantees(op[r]) = {} /\ Asks(op[r]) = {}
  BY <1>1, NoPairs, Zenon DEF GroupsCalls
<1> HIDE DEF s
<1>8. Executes(r, s, "reply")
  BY <1>1, <1>3, <1>5, <1>6, <1>7, ZenonT(30) DEF Executes, Fits, TypeOK
<1> QED BY <1>8, Zenon

\* DELETE FROM groups
LEMMA DeleteGroupExecutes ==
  ASSUME TypeOK, TablesInv, NEW r \in Requests, DeleteGroup(r)
  PROVE  \E s, next : Executes(r, s, next)
<1> DEFINE g == op[r].group
           s == DropGroup(View(r), g)
<1>1. op[r].call = "RemoveGroup" /\ pc[r] = "db" /\ Exec(r, s, "read") /\ UNCHANGED named
  BY Zenon DEF DeleteGroup, At
<1>2. Locked(View(r), s, UsedIds)
  BY <1>1, AtWork, DropGroupLocked, Zenon
<1>3. s.adds = {} /\ s.drops = OfGroup(g) \cap View(r)
  BY Zenon DEF DropGroup
<1>4. GroupIds(s.adds) = {} /\ Grants(s.adds) = {}
  BY <1>3, NoRows, Zenon
<1>5. Revokes(op[r]) = {g} \X Apps
  BY <1>1, Zenon DEF Revokes
<1>6. ASSUME NEW p
      PROVE  /\ p \in Grants(s.drops) => p \in Revokes(op[r])
             /\ p \in Grants(View(r)) \cap Revokes(op[r]) => p \in Grants(s.drops)
  <2>1. \A V : p \in Grants(V) <=> p \in Groups \X Apps /\ <<"grant", p[1], p[2]>> \in V
    BY GrantOf, Zenon
  <2>2. p \in Groups \X Apps => <<"grant", p[1], p[2]>> \in Row
    BY Zenon DEF Row, GrantRows
  <2>3. p \in Groups \X Apps => (<<"grant", p[1], p[2]>> \in OfGroup(g) <=> p[1] = g)
    BY <2>2, Zenon DEF OfGroup
  <2>4. p \in Groups \X Apps => (p \in {g} \X Apps <=> p[1] = g)
    BY Zenon
  <2> HIDE DEF g, s
  <2> QED BY <1>3, <1>5, <2>1, <2>3, <2>4, Zenon
<1> HIDE DEF s
<1>7. Executes(r, s, "read")
  BY <1>1, <1>2, <1>4, <1>6, ZenonT(30) DEF Executes, Fits, TypeOK
<1> QED BY <1>7, Zenon

\* DELETE FROM group_members
LEMMA MembersDeleted ==
  ASSUME TypeOK, TablesInv, NEW r \in Requests, NEW G, NEW U, NEW next,
         op[r].call \in GroupsCalls \ {"RemoveGroup"}, pc[r] = "db",
         Exec(r, Delete(View(r), MemberRows(G, U)), next), UNCHANGED named,
         \/ next = "reply" /\ Asks(op[r]) = {}
         \/ next = "upsert" /\ op[r].call = "AddUserToGroups"
  PROVE  \E s : Executes(r, s, next)
<1> DEFINE s == Delete(View(r), MemberRows(G, U))
<1>1. Locked(View(r), s, UsedIds)
  <2>1. MemberRows(G, U) \cap GroupRows(Groups, Names) = {}
    BY Zenon DEF MemberRows, GroupRows
  <2> QED BY <2>1, AtWork, DeleteLocked, Zenon
<1>2. s.adds = {} /\ s.drops \subseteq MemberRows(G, U)
  BY Zenon DEF Delete
<1>3. GroupIds(s.adds) = {} /\ Grants(s.adds) = {} /\ Grants(s.drops) = {}
  <2>1. s.drops \cap GrantRows(Groups, Apps) = {}
    BY <1>2, Zenon DEF MemberRows, GrantRows
  <2> QED BY <1>2, <2>1, NoRows, NoGrants, Zenon
<1>4. Revokes(op[r]) = {} /\ Grantees(op[r]) = {}
  BY NoPairs, Zenon
<1> HIDE DEF s
<1>5. Executes(r, s, next)
  BY <1>1, <1>3, <1>4, ZenonT(30) DEF Executes, Fits, TypeOK, s
<1> QED BY <1>5, Zenon

\* The calls that delete memberships execute such a statement.
LEMMA DeleteMembersExecutes ==
  ASSUME TypeOK, TablesInv, NEW r \in Requests,
         RemoveUsersFromGroup(r) \/ RemoveUserFromAllGroups(r) \/ UpdateGroupsForUser(r)
  PROVE  \E s, next : Executes(r, s, next)
<1>1. CASE RemoveUsersFromGroup(r)
  <2>1. op[r].call = "RemoveUsersFromGroup"
    BY <1>1, ZenonT(30) DEF RemoveUsersFromGroup, At
  <2> QED BY <1>1, <2>1, MembersDeleted, NoPairs, Zenon
          DEF RemoveUsersFromGroup, At, DeleteMembers, GroupsCalls
<1>2. CASE RemoveUserFromAllGroups(r)
  <2>1. op[r].call = "RemoveUserFromAllGroups"
    BY <1>2, Zenon DEF RemoveUserFromAllGroups, At
  <2> QED BY <1>2, <2>1, MembersDeleted, NoPairs, Zenon DEF RemoveUserFromAllGroups, At,
             DeleteMemberships, GroupsCalls
<1>3. CASE UpdateGroupsForUser(r)
  <2>1. op[r].call = "AddUserToGroups" /\ (op[r].groups = {} => Asks(op[r]) = {})
    BY <1>3, Zenon DEF UpdateGroupsForUser, At, Asks
  <2> QED BY <1>3, <2>1, MembersDeleted, Zenon DEF UpdateGroupsForUser, At, DeleteOtherMemberships,
             GroupsCalls
<1> QED BY <1>1, <1>2, <1>3, Zenon

\* INSERT INTO group_members ... ON CONFLICT DO UPDATE
LEMMA MembersUpserted ==
  ASSUME TypeOK, TablesInv, NEW r \in Requests, NEW G, NEW U, G \subseteq Groups, U \subseteq Users,
         op[r].call \in GroupsCalls \ {"RemoveGroup"}, pc[r] \in {"db", "upsert"},
         Exec(r, Upsert(View(r), MemberRows(G, U)), "reply"), UNCHANGED named,
         Asks(op[r]) = G \X U
  PROVE  \E s, next : Executes(r, s, next)
<1> DEFINE s == Upsert(View(r), MemberRows(G, U))
<1>1. MemberRows(G, U) \subseteq Row /\ MemberRows(G, U) \cap GroupRows(Groups, Names) = {}
  BY Zenon DEF MemberRows, Row, GroupRows
<1>2. s.error = "none" => Locked(View(r), s, UsedIds)
  BY <1>1, AtWork, UpsertLocked, Zenon
<1>3. s.adds = MemberRows(G, U) /\ s.drops = {}
  BY Zenon DEF Upsert
<1>4. GroupIds(s.adds) = {} /\ Grants(s.adds) = {} /\ Grants(s.drops) = {}
  BY <1>1, <1>3, NoGrants, Zenon DEF GroupIds, MemberRows, GrantRows
<1>5. Asks(op[r]) \subseteq Members(s.adds)
  <2> SUFFICES ASSUME NEW g \in G, NEW u \in U PROVE <<g, u>> \in Members(s.adds)
    OBVIOUS
  <2>1. <<"member", g, u>> \in s.adds
    BY <1>3, Zenon DEF MemberRows
  <2>2. <<g, u>> \in Groups \X Users /\ <<g, u>>[1] = g /\ <<g, u>>[2] = u
    BY Zenon
  <2> HIDE DEF s
  <2> QED BY <2>1, <2>2, MemberOf, Zenon
<1>6. Revokes(op[r]) = {} /\ Grantees(op[r]) = {}
  BY NoPairs, Zenon
<1> HIDE DEF s
<1>7. Executes(r, s, "reply")
  BY <1>2, <1>4, <1>5, <1>6, ZenonT(30) DEF Executes, Fits, TypeOK, s
<1> QED BY <1>7, Zenon

\* The calls that upsert memberships execute such a statement.
LEMMA UpsertExecutes ==
  ASSUME TypeOK, TablesInv, NEW r \in Requests, AddUsersToGroup(r) \/ UpsertGroupsForUser(r)
  PROVE  \E s, next : Executes(r, s, next)
<1>1. CASE AddUsersToGroup(r)
  <2>1. op[r].call = "AddUsersToGroup" /\ pc[r] = "db"
    BY <1>1, Zenon DEF AddUsersToGroup, At
  <2>2. op[r].group \in Groups /\ op[r].users \subseteq Users
    BY <2>1, AtWork, CallsTyped, Zenon DEF GroupsCommands
  <2>3. Asks(op[r]) = {op[r].group} \X op[r].users
    BY <2>1, Zenon DEF Asks
  <2> QED BY <1>1, <2>1, <2>2, <2>3, MembersUpserted DEF AddUsersToGroup, GroupsCalls
<1>2. CASE UpsertGroupsForUser(r)
  <2>1. op[r].call = "AddUserToGroups" /\ pc[r] = "upsert"
    BY <1>2, Zenon DEF UpsertGroupsForUser, At
  <2>2. op[r].groups \subseteq Groups /\ op[r].user \in Users
    BY <2>1, AtWork, CallsTyped, Zenon DEF UsersCommands
  <2>3. Asks(op[r]) = op[r].groups \X {op[r].user}
    BY <2>1, Zenon DEF Asks
  <2> QED BY <1>2, <2>1, <2>2, <2>3, MembersUpserted DEF UpsertGroupsForUser, GroupsCalls
<1> QED BY <1>1, <1>2, Zenon

\* INSERT INTO application_groups
LEMMA AddAllowedAppExecutes ==
  ASSUME TypeOK, TablesInv, NEW r \in Requests, AddAllowedApp(r)
  PROVE  \E s, next : Executes(r, s, next)
<1> DEFINE g == op[r].group
           a == op[r].app
           s == Insert(View(r), GrantRows({g}, {a}))
<1>1. op[r].call = "AddAllowedAppToGroup" /\ pc[r] = "db" /\ Exec(r, s, "write") /\ UNCHANGED named
  BY Zenon DEF AddAllowedApp, At, AfterTables, AuthorizationCalls
<1>2. g \in Groups /\ a \in Apps
  BY <1>1, AtWork, CallsTyped, Zenon DEF OneGrantCalls
<1>3. GrantRows({g}, {a}) \subseteq Row /\ GrantRows({g}, {a}) \cap GroupRows(Groups, Names) = {}
  BY <1>2, Zenon DEF GrantRows, Row, GroupRows
<1>4. s.error = "none" => Locked(View(r), s, UsedIds)
  BY <1>1, <1>3, AtWork, InsertLocked, ZenonT(30)
<1>5. s.adds = {<<"grant", g, a>>} /\ s.drops = {}
  BY DEF Insert, GrantRows
<1>6. GroupIds(s.adds) = {} /\ Grants(s.drops) = {}
  BY <1>5, NoRows DEF GroupIds, GroupRows
<1>7. Grantees(op[r]) = {<<g, a>>}
  BY <1>1, Zenon DEF Grantees
<1>8. Grants(s.adds) = {<<g, a>>}
  <2>1. <<"grant", g, a>> \in GrantRows(Groups, Apps)
    BY <1>2, Zenon DEF GrantRows
  <2>2. <<"grant", g, a>>[2] = g /\ <<"grant", g, a>>[3] = a
    BY Zenon
  <2> QED BY <1>5, <2>1, <2>2, Zenon DEF Grants
<1> HIDE DEF s
<1>9. Executes(r, s, "write")
  BY <1>1, <1>4, <1>6, <1>7, <1>8, ZenonT(30) DEF Executes, Fits, TypeOK
<1> QED BY <1>9, Zenon

\* DELETE FROM application_groups
LEMMA GrantsDeleted ==
  ASSUME TypeOK, TablesInv, NEW r \in Requests, NEW G, NEW A, NEW next,
         Exec(r, Delete(View(r), GrantRows(G, A)), next), UNCHANGED named,
         Revokes(op[r]) = G \X A, pc[r] = "db",
         next \in {"delete", "read"}, Fits(r, next, 0)
  PROVE  \E s : Executes(r, s, next)
<1> DEFINE s == Delete(View(r), GrantRows(G, A))
<1>1. Locked(View(r), s, UsedIds)
  <2>1. GrantRows(G, A) \cap GroupRows(Groups, Names) = {}
    BY Zenon DEF GrantRows, GroupRows
  <2> QED BY <2>1, AtWork, DeleteLocked, Zenon
<1>2. s.adds = {} /\ s.drops = GrantRows(G, A) \cap View(r)
  BY Zenon DEF Delete
<1>3. GroupIds(s.adds) = {} /\ Grants(s.adds) = {}
  BY <1>2, NoRows, Zenon
<1>4. ASSUME NEW p
      PROVE  /\ p \in Grants(s.drops) => p \in Revokes(op[r])
             /\ p \in Grants(View(r)) \cap Revokes(op[r]) => p \in Grants(s.drops)
  <2>1. \A V : p \in Grants(V) <=> p \in Groups \X Apps /\ <<"grant", p[1], p[2]>> \in V
    BY GrantOf, ZenonT(30)
  <2>2. p \in Groups \X Apps => (<<"grant", p[1], p[2]>> \in GrantRows(G, A) <=> p \in G \X A)
    BY Zenon DEF GrantRows
  <2> HIDE DEF s
  <2> QED BY <1>2, <2>1, <2>2, Zenon
<1> HIDE DEF s
<1>5. Executes(r, s, next)
  BY <1>1, <1>3, <1>4, ZenonT(30) DEF Executes, TypeOK, s
<1> QED BY <1>5, Zenon

\* The calls that delete grants execute such a statement.
LEMMA DeleteGrantsExecutes ==
  ASSUME TypeOK, TablesInv, NEW r \in Requests,
         RemoveAllowedApp(r) \/ RemoveAllowedApps(r) \/ RemoveAllAllowedGroupsForApp(r)
  PROVE  \E s, next : Executes(r, s, next)
<1>1. CASE RemoveAllowedApp(r)
  <2>1. /\ op[r].call = "RemoveAllowedAppFromGroup" /\ pc[r] = "db" /\ UNCHANGED named
        /\ Exec(r, Delete(View(r), GrantRows({op[r].group}, {op[r].app})), "delete")
    BY <1>1, Zenon DEF RemoveAllowedApp, At, DeleteGrant, AfterTables, AuthorizationCalls
  <2>2. Revokes(op[r]) = {op[r].group} \X {op[r].app}
    BY <2>1 DEF Revokes
  <2>3. Fits(r, "delete", 0)
    BY <2>1, ZenonT(30) DEF Fits
  <2> QED BY <2>1, <2>2, <2>3, GrantsDeleted, Zenon
<1>2. CASE RemoveAllowedApps(r)
  <2>1. /\ op[r].call = "RemoveAllowedAppsFromGroup" /\ pc[r] = "db" /\ UNCHANGED named
        /\ Exec(r, Delete(View(r), GrantRows({op[r].group}, Apps)), "read")
    BY <1>2, Zenon DEF RemoveAllowedApps, At, DeleteAllowedApps, AfterTables, AuthorizationCalls
  <2>2. Revokes(op[r]) = {op[r].group} \X Apps
    BY <2>1, Zenon DEF Revokes
  <2>3. Fits(r, "read", 0)
    BY <2>1, ZenonT(30) DEF Fits
  <2> QED BY <2>1, <2>2, <2>3, GrantsDeleted, Zenon
<1>3. CASE RemoveAllAllowedGroupsForApp(r)
  <2>1. /\ op[r].call = "RemoveAllowedGroupsForApp" /\ pc[r] = "db" /\ UNCHANGED named
        /\ Exec(r, Delete(View(r), GrantRows(Groups, {op[r].app})), "read")
    BY <1>3, Zenon DEF RemoveAllAllowedGroupsForApp, At, DeleteAllowedGroups, AfterTables,
       AuthorizationCalls
  <2>2. Revokes(op[r]) = Groups \X {op[r].app}
    BY <2>1, Zenon DEF Revokes
  <2>3. Fits(r, "read", 0)
    BY <2>1, ZenonT(30) DEF Fits
  <2> QED BY <2>1, <2>2, <2>3, GrantsDeleted, Zenon
<1> QED BY <1>1, <1>2, <1>3, Zenon

\* A step on the tables is a statement, unless the database fails or the
\* transaction expires.
LEMMA DbStepExecutes ==
  ASSUME TypeOK, TablesInv, NEW r \in Requests, DbStep(r)
  PROVE  StatementFails(r) \/ TxExpires(r) \/ \E s, next : Executes(r, s, next)
BY CreateGroupExecutes, UpdateGroupExecutes, DeleteGroupExecutes, DeleteMembersExecutes,
   UpsertExecutes, AddAllowedAppExecutes, DeleteGrantsExecutes, Zenon DEF DbStep

-----------------------------------------------------------------------------
(***************************************************************************)
(* LocksInv: the steps by what they do to the tables.                       *)
(***************************************************************************)

\* Ids that were given stay given.
LEMMA IdsGrow ==
  ASSUME named \subseteq named'
  PROVE  UsedIds \subseteq UsedIds'
BY Zenon DEF UsedIds

\* The tables and the open transactions stay as they are.
LEMMA LocksSame ==
  ASSUME LocksInv, UNCHANGED <<rows, adds, drops>>, named \subseteq named'
  PROVE  LocksInv'
<1>1. UsedIds \subseteq UsedIds'
  BY IdsGrow, Zenon
<1>2. \A t \in Requests : View(t)' = View(t)
  BY Zenon DEF View
<1> QED BY <1>1, <1>2, Zenon DEF LocksInv, TablesConsistent

\* What LocksInv says of two requests.
LEMMA TwoRequests ==
  ASSUME TypeOK, LocksInv, NEW r \in Requests, NEW t \in Requests \ {r}
  PROVE  /\ Apart(adds[r], drops[r], adds[t], drops[t])
         /\ Apart(adds[t], drops[t], adds[r], drops[r])
         /\ Consistent(Seen(rows, adds[t], drops[t])) /\ adds[t] \subseteq Row
         /\ GroupIds(adds[t] \cup drops[t]) \subseteq UsedIds
<1>1. Apart(adds[r], drops[r], adds[t], drops[t]) /\ Apart(adds[t], drops[t], adds[r], drops[r])
  BY Zenon DEF LocksInv
<1>2. View(t) = Seen(rows, adds[t], drops[t])
  BY Zenon DEF View, Seen
<1>3. adds[t] \subseteq Row
  BY DEF TypeOK
<1> QED BY <1>1, <1>2, <1>3, Zenon DEF LocksInv

\* A transaction that executes a statement has waited for the locks.
LEMMA LocksInTx ==
  ASSUME TypeOK, TablesInv, NEW r \in Requests, pc[r] # "idle", NEW s,
         adds' = [adds EXCEPT ![r] = (@ \ s.drops) \cup s.adds],
         drops' = [drops EXCEPT ![r] = @ \cup s.drops],
         UNCHANGED rows, named \subseteq named',
         Locked(View(r), s, UsedIds), GroupIds(s.adds) \subseteq UsedIds',
         \A t \in Requests \ {r} : (adds[t] \cup drops[t]) \cap s.needs = {}
  PROVE  LocksInv'
<1>1. /\ adds'[r] = (adds[r] \ s.drops) \cup s.adds /\ drops'[r] = drops[r] \cup s.drops
      /\ \A t \in Requests \ {r} : adds'[t] = adds[t] /\ drops'[t] = drops[t]
  BY DEF TypeOK
<1>2. LocksInv /\ View(r) = Seen(rows, adds[r], drops[r])
  BY Zenon DEF TablesInv, View, Seen
<1>3. UsedIds \subseteq UsedIds'
  BY IdsGrow, Zenon
<1>4. Consistent(View(r)')
  <2>1. View(r)' = Seen(rows, adds'[r], drops'[r])
    BY Zenon DEF View, Seen
  <2>2. Seen(rows, (adds[r] \ s.drops) \cup s.adds, drops[r] \cup s.drops) = After(View(r), s)
    BY <1>2, SeenAfter
  <2> QED BY <1>1, <2>1, <2>2, ZenonT(30) DEF Locked
<1>5. GroupIds(adds'[r] \cup drops'[r]) \subseteq UsedIds'
  <2>1. GroupIds(s.drops) \subseteq UsedIds
    BY AtWork, ZenonT(30) DEF Locked, GroupIds
  <2>2. GroupIds(adds[r] \cup drops[r]) \subseteq UsedIds
    BY <1>2, ZenonT(30) DEF LocksInv
  <2>3. GroupIds(adds'[r] \cup drops'[r])
          \subseteq GroupIds(adds[r] \cup drops[r]) \cup GroupIds(s.adds) \cup GroupIds(s.drops)
    BY <1>1, Zenon DEF GroupIds
  <2> QED BY <1>3, <2>1, <2>2, <2>3, ZenonT(30)
<1>6. ASSUME NEW t \in Requests \ {r}
      PROVE  /\ Consistent(View(t)') /\ GroupIds(adds'[t] \cup drops'[t]) \subseteq UsedIds'
             /\ Apart(adds'[r], drops'[r], adds'[t], drops'[t])
             /\ Apart(adds'[t], drops'[t], adds'[r], drops'[r])
  <2>1. View(t)' = View(t)
    BY <1>1, Zenon DEF View
  <2>2. Consistent(View(t)) /\ GroupIds(adds[t] \cup drops[t]) \subseteq UsedIds
    BY <1>2, ZenonT(30) DEF LocksInv
  <2>3. /\ Apart(adds[r], drops[r], adds[t], drops[t])
        /\ Apart(adds[t], drops[t], adds[r], drops[r])
        /\ Consistent(Seen(rows, adds[t], drops[t])) /\ adds[t] \subseteq Row
        /\ GroupIds(adds[t] \cup drops[t]) \subseteq UsedIds
    BY <1>2, TwoRequests, ZenonT(30)
  <2>4. /\ Locked(Seen(rows, adds[r], drops[r]), s, UsedIds)
        /\ (adds[t] \cup drops[t]) \cap s.needs = {}
    BY <1>2, Zenon
  <2>5. /\ Apart((adds[r] \ s.drops) \cup s.adds, drops[r] \cup s.drops, adds[t], drops[t])
        /\ Apart(adds[t], drops[t], (adds[r] \ s.drops) \cup s.adds, drops[r] \cup s.drops)
    BY <2>3, <2>4, StatementApart, ZenonT(30)
  <2> QED BY <1>1, <1>3, <2>1, <2>2, <2>5, Zenon
<1>7. ASSUME NEW t \in Requests, NEW u \in Requests, t # u
      PROVE  Apart(adds'[t], drops'[t], adds'[u], drops'[u])
  <2>1. CASE t = r \/ u = r
    BY <1>6, <1>7, <2>1, ZenonT(30)
  <2>2. CASE t # r /\ u # r
    BY <1>1, <1>2, <1>7, <2>2, ZenonT(30) DEF LocksInv
  <2> QED BY <2>1, <2>2, Zenon
<1>8. GroupIds(rows') \subseteq UsedIds' /\ TablesConsistent'
  BY <1>2, <1>3, Zenon DEF LocksInv, TablesConsistent
<1> QED BY <1>4, <1>5, <1>6, <1>7, <1>8, ZenonT(30) DEF LocksInv

\* Rows become durable that are apart from the other open transactions.
LEMMA LocksCommit ==
  ASSUME TypeOK, LocksInv, NEW r \in Requests, NEW B, NEW E,
         rows' = Seen(rows, B, E), Consistent(Seen(rows, B, E)),
         adds'[r] = {}, drops'[r] = {},
         \A t \in Requests \ {r} :
           /\ adds'[t] = adds[t] /\ drops'[t] = drops[t]
           /\ Apart(adds[t], drops[t], B, E) /\ Apart(B, E, adds[t], drops[t]),
         named \subseteq named', GroupIds(B) \subseteq UsedIds'
  PROVE  LocksInv'
<1>1. UsedIds \subseteq UsedIds'
  BY IdsGrow, Zenon
<1>2. GroupIds(rows') \subseteq UsedIds' /\ TablesConsistent'
  <2>1. GroupIds(rows) \subseteq UsedIds
    BY Zenon DEF LocksInv
  <2>2. GroupIds(Seen(rows, B, E)) \subseteq GroupIds(rows) \cup GroupIds(B)
    BY Zenon DEF GroupIds, Seen
  <2> QED BY <1>1, <2>1, <2>2, Zenon DEF TablesConsistent
<1>3. Consistent(View(r)') /\ GroupIds(adds'[r] \cup drops'[r]) \subseteq UsedIds'
  <2>1. View(r)' = rows' /\ adds'[r] \cup drops'[r] = {}
    BY Zenon DEF View
  <2> QED BY <1>2, <2>1, NoRows, Zenon DEF TablesConsistent
<1>4. ASSUME NEW t \in Requests \ {r}
      PROVE  /\ Consistent(View(t)') /\ GroupIds(adds'[t] \cup drops'[t]) \subseteq UsedIds'
             /\ Apart(adds'[r], drops'[r], adds'[t], drops'[t])
             /\ Apart(adds'[t], drops'[t], adds'[r], drops'[r])
  <2>1. Consistent(rows)
    BY Zenon DEF LocksInv, TablesConsistent
  <2>2. Consistent(Seen(Seen(rows, B, E), adds[t], drops[t]))
    BY <2>1, TwoRequests, CommitKeeps, ZenonT(30)
  <2>3. View(t)' = Seen(Seen(rows, B, E), adds[t], drops[t])
    BY Zenon DEF View, Seen
  <2>4. GroupIds(adds[t] \cup drops[t]) \subseteq UsedIds
    BY Zenon DEF LocksInv
  <2>5. Apart({}, {}, adds[t], drops[t]) /\ Apart(adds[t], drops[t], {}, {})
    BY ZenonT(30) DEF Apart
  <2> QED BY <1>1, <2>2, <2>3, <2>4, <2>5, Zenon
<1>5. ASSUME NEW t \in Requests, NEW u \in Requests, t # u
      PROVE  Apart(adds'[t], drops'[t], adds'[u], drops'[u])
  <2>1. CASE t = r \/ u = r
    BY <1>4, <1>5, <2>1, ZenonT(30)
  <2>2. CASE t # r /\ u # r
    BY <1>5, <2>2, Zenon DEF LocksInv
  <2> QED BY <2>1, <2>2, Zenon
<1> QED BY <1>2, <1>3, <1>4, <1>5, ZenonT(30) DEF LocksInv

\* A statement that runs on its own is a transaction of one statement.
LEMMA LocksOnItsOwn ==
  ASSUME TypeOK, TablesInv, NEW r \in Requests, pc[r] # "idle", ~started[r], NEW s,
         rows' = (rows \ s.drops) \cup s.adds, UNCHANGED <<adds, drops>>, named \subseteq named',
         Locked(View(r), s, UsedIds), GroupIds(s.adds) \subseteq UsedIds',
         \A t \in Requests \ {r} : (adds[t] \cup drops[t]) \cap s.needs = {}
  PROVE  LocksInv'
<1>1. LocksInv /\ adds[r] = {} /\ drops[r] = {}
  BY ZenonT(30) DEF TablesInv, TxInv, NoOpenTx
<1>2. View(r) = rows /\ Seen(rows, {}, {}) = rows /\ rows' = Seen(rows, s.adds, s.drops)
  BY <1>1, Zenon DEF View, Seen
<1>3. Consistent(Seen(rows, s.adds, s.drops))
  BY <1>2, Zenon DEF Locked, After, Seen
<1>4. ASSUME NEW t \in Requests \ {r}
      PROVE  /\ Apart(adds[t], drops[t], s.adds, s.drops)
             /\ Apart(s.adds, s.drops, adds[t], drops[t])
  <2>1. ({} \ s.drops) \cup s.adds = s.adds /\ {} \cup s.drops = s.drops
    BY Zenon
  <2>2. /\ Apart({}, {}, adds[t], drops[t]) /\ Apart(adds[t], drops[t], {}, {})
        /\ Consistent(Seen(rows, adds[t], drops[t])) /\ adds[t] \subseteq Row
        /\ GroupIds(adds[t] \cup drops[t]) \subseteq UsedIds
    BY <1>1, TwoRequests, Zenon
  <2>3. Locked(Seen(rows, {}, {}), s, UsedIds)
    BY <1>2, Zenon
  <2>4. /\ Apart(({} \ s.drops) \cup s.adds, {} \cup s.drops, adds[t], drops[t])
        /\ Apart(adds[t], drops[t], ({} \ s.drops) \cup s.adds, {} \cup s.drops)
    BY <2>2, <2>3, StatementApart, ZenonT(30)
  <2> QED BY <2>1, <2>4, Zenon
<1> QED BY <1>1, <1>2, <1>3, <1>4, LocksCommit, ZenonT(30)

\* A transaction is rolled back.
LEMMA LocksRollback ==
  ASSUME TypeOK, LocksInv, NEW r \in Requests,
         UNCHANGED <<rows, named>>, adds'[r] = {}, drops'[r] = {},
         \A t \in Requests \ {r} : adds'[t] = adds[t] /\ drops'[t] = drops[t]
  PROVE  LocksInv'
<1>1. rows' = Seen(rows, {}, {}) /\ Consistent(Seen(rows, {}, {}))
  BY Zenon DEF Seen, LocksInv, TablesConsistent
<1>2. \A t \in Requests \ {r} : Apart({}, {}, adds[t], drops[t]) /\ Apart(adds[t], drops[t], {}, {})
  BY Zenon DEF Apart
<1>3. GroupIds({}) \subseteq UsedIds'
  BY NoRows, Zenon
<1> QED BY <1>1, <1>2, <1>3, LocksCommit, Zenon

\* A transaction is committed.
LEMMA LocksOfCommit ==
  ASSUME TypeOK, LocksInv, NEW r \in Requests,
         rows' = View(r), UNCHANGED named, adds'[r] = {}, drops'[r] = {},
         \A t \in Requests \ {r} : adds'[t] = adds[t] /\ drops'[t] = drops[t]
  PROVE  LocksInv'
<1>1. View(r) = Seen(rows, adds[r], drops[r])
  BY Zenon DEF View, Seen
<1>2. Consistent(View(r)) /\ GroupIds(adds[r]) \subseteq UsedIds'
  BY Zenon DEF LocksInv, GroupIds, UsedIds
<1>3. ASSUME NEW t \in Requests \ {r}
      PROVE  /\ Apart(adds[t], drops[t], adds[r], drops[r])
             /\ Apart(adds[r], drops[r], adds[t], drops[t])
  BY TwoRequests, Zenon
<1> QED BY <1>1, <1>2, <1>3, LocksCommit, Zenon

-----------------------------------------------------------------------------
(***************************************************************************)
(* Type correctness. The arguments of a call are typed (CallsTyped); where a *)
(* request is says which call it makes (ClaimHolds).                         *)
(***************************************************************************)

\* What a call names is there.
LEMMA CallTypes ==
  ASSUME NEW o \in Calls
  PROVE  /\ Revokes(o) \subseteq Groups \X Apps /\ Grantees(o) \subseteq Groups \X Apps
         /\ Asks(o) \subseteq Groups \X Users
<1>1. Revokes(o) \subseteq Groups \X Apps
  BY CallsTyped DEF Revokes, OneGrantCalls
<1>2. Grantees(o) \subseteq Groups \X Apps
  BY CallsTyped DEF Grantees, OneGrantCalls
<1>3. Asks(o) \subseteq Groups \X Users
  BY CallsTyped, Zenon DEF Asks, GroupsCommands, UsersCommands
<1> QED BY <1>1, <1>2, <1>3, Zenon

\* The types hold before the first request.
LEMMA InitTypeOK == Init => TypeOK
<1> SUFFICES ASSUME Init PROVE TypeOK
  BY Zenon
<1>1. rows \subseteq Row /\ tuples \subseteq Groups \X Apps /\ kept \subseteq Groups \X Users
  BY InitialRowsConsistent, GrantOf, MemberOf, Zenon DEF Init
<1>2. named \subseteq Groups \X Names
  <2> SUFFICES ASSUME NEW x \in rows \cap GroupRows(Groups, Names)
               PROVE  <<x[2], x[3]>> \in Groups \X Names
    BY Zenon DEF Init
  <2> QED BY GroupRowIs, Zenon
<1> QED BY <1>1, <1>2, ZenonT(30) DEF Init, TypeOK

\* A request arrives.
LEMMA ArriveTypeOK ==
  ASSUME TypeOK, NEW r \in Requests, Arrive(r)
  PROVE  TypeOK'
<1>1. PICK o \in Calls :
        /\ op' = [op EXCEPT ![r] = o]
        /\ pc' = [pc EXCEPT ![r] =
                    IF (o.call = "UpdateGroup" /\ o.name # NoName)
                         \/ (o.call = "AddUsersToGroup" /\ o.users = {})
                      THEN "reply" ELSE "db"]
        /\ status' = [status EXCEPT ![r] =
                        IF o.call = "UpdateGroup" /\ o.name # NoName THEN 400 ELSE 0]
        /\ claims' = [t \in Requests |->
             IF t = r
               THEN (Covers(o) \cup Grantees(o)) \ UNION {Opposed(o, op[i]) : i \in InFlight}
               ELSE claims[t] \ Opposed(o, op[t])]
        /\ granted' = granted \ Revokes(o)
        /\ revoked' = revoked \ Grantees(o)
  BY Zenon DEF Arrive
<1>2. /\ calm' = (calm /\ InFlight = {})
      /\ UNCHANGED <<rows, started, adds, drops, tuples, page, more, faulty, ended, named, kept>>
  BY Zenon DEF Arrive, dbVars, fgaVars
<1>3. claims' \in [Requests -> SUBSET (Groups \X Apps)]
  <2>1. Covers(o) \subseteq Groups \X Apps /\ Grantees(o) \subseteq Groups \X Apps
    BY CallTypes, CoversRevoked, Zenon
  <2> QED BY <1>1, <2>1 DEF TypeOK
<1>4. pc' \in [Requests -> {"idle", "db", "upsert", "write", "delete", "read",
                            "deletePage", "reply", "finish", "done"}]
  BY <1>1, ZenonT(30) DEF TypeOK
<1>5. /\ op' \in [Requests -> Calls \cup {Idle}]
      /\ status' \in [Requests -> {0, 200, 400, 404, 409, 500}]
      /\ granted' \subseteq Groups \X Apps /\ revoked' \subseteq Groups \X Apps
  BY <1>1 DEF TypeOK
<1>6. calm' \in BOOLEAN
  BY <1>2, Zenon
<1> QED BY <1>2, <1>3, <1>4, <1>5, <1>6, ZenonT(30) DEF TypeOK

\* The response is written.
LEMMA ReplyTypeOK ==
  ASSUME TypeOK, NEW r \in Requests, Reply(r)
  PROVE  TypeOK'
<1>1. pc' \in [Requests -> {"idle", "db", "upsert", "write", "delete", "read",
                            "deletePage", "reply", "finish", "done"}]
  BY ZenonT(30) DEF TypeOK, Reply
<1>2. /\ status' \in [Requests -> {0, 200, 400, 404, 409, 500}]
      /\ granted' \subseteq Groups \X Apps /\ revoked' \subseteq Groups \X Apps
  BY DEF TypeOK, Reply
<1>3. /\ claims' \in [Requests -> SUBSET (Groups \X Apps)]
      /\ page' \in [Requests -> SUBSET (Groups \X Apps)]
  BY Zenon DEF TypeOK, Reply
<1>4. more' \in [Requests -> BOOLEAN]
  BY ZenonT(30) DEF TypeOK, Reply
<1> QED BY <1>1, <1>2, <1>3, <1>4, ZenonT(30) DEF TypeOK, Reply, dbVars

\* The transaction ends.
LEMMA EndTypeOK ==
  ASSUME TypeOK, NEW r \in Requests, op[r] \in Calls, EndStep(r)
  PROVE  TypeOK'
<1>1. PICK how \in {"unused", "committed", "rolledback", "lost"} : EndTx(r, how)
  BY Zenon DEF EndStep, Commit, CommitFails, Rollback, NoTx
<1>2. pc' \in [Requests -> {"idle", "db", "upsert", "write", "delete", "read",
                            "deletePage", "reply", "finish", "done"}]
  BY <1>1, ZenonT(30) DEF TypeOK, EndTx
<1>3. /\ ended' \in [Requests -> {"no", "expired", "unused", "committed", "rolledback", "lost"}]
      /\ adds' \in [Requests -> SUBSET Row] /\ drops' \in [Requests -> SUBSET Row]
  BY <1>1, ZenonT(30) DEF TypeOK, EndTx
<1>4. started' \in [Requests -> BOOLEAN]
  BY <1>1, ZenonT(30) DEF TypeOK, EndTx
<1>5. rows' \subseteq Row /\ kept' \subseteq Groups \X Users
  BY CallTypes DEF TypeOK, EndStep, Commit, CommitFails, Rollback, NoTx, View
<1>6. faulty' \in BOOLEAN /\ calm' \in BOOLEAN
  BY ZenonT(30) DEF TypeOK, EndStep, Commit, CommitFails, Rollback, NoTx
<1> QED BY <1>1, <1>2, <1>3, <1>4, <1>5, <1>6, Zenon DEF TypeOK, EndTx, fgaVars, pairVars

\* A transaction is started or not.
LEMMA StartedTypes ==
  ASSUME TypeOK, NEW r \in Requests,
         UNCHANGED started \/ started' = [started EXCEPT ![r] = TRUE]
  PROVE  started' \in [Requests -> BOOLEAN]
<1>1. started \in [Requests -> BOOLEAN]
  BY ZenonT(30) DEF TypeOK
<1>2. CASE UNCHANGED started
  BY <1>1, <1>2, Zenon
<1>3. CASE started' = [started EXCEPT ![r] = TRUE]
  BY <1>1, <1>3, Zenon
<1> QED BY <1>2, <1>3, Zenon

\* A statement is executed.
LEMMA ExecTypeOK ==
  ASSUME TypeOK, TablesInv, NEW r \in Requests, NEW s, NEW next, Executes(r, s, next)
  PROVE  TypeOK'
<1>1. Exec(r, s, next) /\ named' \subseteq Groups \X Names /\ pc[r] # "idle"
  BY ZenonT(30) DEF Executes
<1>2. s.error = "none" => s.adds \subseteq Row /\ s.drops \subseteq Row
  BY <1>1, AtWork, Zenon DEF Executes, Locked
<1>3. next \in {"reply", "upsert", "write", "delete", "read"}
  BY ZenonT(30) DEF Executes, Fits
<1>4. pc' \in [Requests -> {"idle", "db", "upsert", "write", "delete", "read",
                            "deletePage", "reply", "finish", "done"}]
  BY <1>1, <1>3, ZenonT(30) DEF TypeOK, Exec
<1>5. status' \in [Requests -> {0, 200, 400, 404, 409, 500}]
  BY <1>1, StatusOfError DEF TypeOK, Exec
<1>6. adds' \in [Requests -> SUBSET Row] /\ drops' \in [Requests -> SUBSET Row] /\ rows' \subseteq Row
  BY <1>1, <1>2 DEF TypeOK, Exec
<1>7. started' \in [Requests -> BOOLEAN]
  <2>1. UNCHANGED started \/ started' = [started EXCEPT ![r] = TRUE]
    BY <1>1, ZenonT(30) DEF Exec
  <2> QED BY <2>1, StartedTypes, Zenon
<1>8. kept' \subseteq Groups \X Users
  BY <1>1, AtWork, CallTypes DEF TypeOK, Exec
<1>9. faulty' \in BOOLEAN /\ calm' \in BOOLEAN
  BY <1>1, Zenon DEF TypeOK, Exec
<1> QED BY <1>1, <1>4, <1>5, <1>6, <1>7, <1>8, <1>9, Zenon DEF TypeOK, Exec, fgaVars, pairVars

\* A statement fails, or a transaction expires.
LEMMA FailTypeOK ==
  ASSUME TypeOK, NEW r \in Requests, StatementFails(r) \/ TxExpires(r) \/ ReadFails(r)
  PROVE  TypeOK'
<1>1. pc' \in [Requests -> {"idle", "db", "upsert", "write", "delete", "read",
                            "deletePage", "reply", "finish", "done"}]
  BY DEF TypeOK, StatementFails, TxExpires, ReadFails
<1>2. status' \in [Requests -> {0, 200, 400, 404, 409, 500}]
  BY DEF TypeOK, StatementFails, TxExpires, ReadFails
<1>3. adds' \in [Requests -> SUBSET Row] /\ drops' \in [Requests -> SUBSET Row]
  BY DEF TypeOK, StatementFails, TxExpires, ReadFails, dbVars
<1>4. started' \in [Requests -> BOOLEAN]
  <2>1. UNCHANGED started \/ started' = [started EXCEPT ![r] = TRUE]
    BY Zenon DEF StatementFails, TxExpires, ReadFails, dbVars
  <2> QED BY <2>1, StartedTypes, Zenon
<1>5. ended' \in [Requests -> {"no", "expired", "unused", "committed", "rolledback", "lost"}]
  BY DEF TypeOK, StatementFails, TxExpires, ReadFails
<1>6. calm' \in BOOLEAN /\ faulty' \in BOOLEAN
  BY ZenonT(30) DEF TypeOK, StatementFails, TxExpires, ReadFails
<1>7. /\ UNCHANGED <<rows, tuples, page, more, op, named, kept, claims, granted, revoked>>
  BY Zenon DEF StatementFails, TxExpires, ReadFails, dbVars, fgaVars, pairVars
<1> QED BY <1>1, <1>2, <1>3, <1>4, <1>5, <1>6, <1>7, ZenonT(30) DEF TypeOK

\* The tuple that a call writes.
LEMMA TupleTypes ==
  ASSUME Base, NEW r \in Requests
  PROVE  /\ pc[r] \in {"write", "delete"} => <<op[r].group, op[r].app>> \in Groups \X Apps
         /\ pc[r] # "idle" => Revokes(op[r]) \subseteq Groups \X Apps
<1>1. ClaimHolds(r)
  BY Zenon DEF Base, GrantInv
<1>2. pc[r] \in {"write", "delete"} => op[r].call \in OneGrantCalls
  BY <1>1, Zenon DEF ClaimHolds, OneGrantCalls
<1>3. pc[r] # "idle" => op[r] \in Calls
  BY AtWork, Zenon DEF Base
<1> QED BY <1>2, <1>3, CallsTyped, CallTypes, Zenon

\* A call to OpenFGA.
LEMMA CallTypeOK ==
  ASSUME TypeOK, NEW r \in Requests, NEW ok, NEW new, NEW next, Call(r, ok, new, next),
         new \subseteq Groups \X Apps, next \in {"reply", "read"},
         UNCHANGED <<dbVars, page, more, op, ended, named, kept, pairVars>>
  PROVE  TypeOK'
<1>1. pc' \in [Requests -> {"idle", "db", "upsert", "write", "delete", "read",
                            "deletePage", "reply", "finish", "done"}]
  BY DEF TypeOK, Call
<1>2. status' \in [Requests -> {0, 200, 400, 404, 409, 500}] /\ tuples' \subseteq Groups \X Apps
  BY DEF TypeOK, Call
<1>3. calm' \in BOOLEAN /\ faulty' \in BOOLEAN
  BY ZenonT(30) DEF TypeOK, Call
<1> QED BY <1>1, <1>2, <1>3, ZenonT(30) DEF TypeOK, dbVars, pairVars

\* Every step on the tuples.
LEMMA FgaTypeOK ==
  ASSUME Base, NEW r \in Requests, FgaStep(r)
  PROVE  TypeOK'
<1>1. TypeOK /\ tuples \subseteq Groups \X Apps
  BY ZenonT(30) DEF Base, TypeOK
<1>2. CASE WriteTuple(r)
  BY <1>1, <1>2, TupleTypes, CallTypeOK, ZenonT(30) DEF WriteTuple
<1>3. CASE DeleteTuple(r)
  BY <1>1, <1>3, CallTypeOK, Zenon DEF DeleteTuple
<1>4. CASE DeleteTuples(r)
  BY <1>1, <1>4, CallTypeOK DEF DeleteTuples
<1>5. CASE ReadTuples(r)
  <2>1. PICK p \in SUBSET tuples :
          /\ page' = [page EXCEPT ![r] = p]
          /\ more' = [more EXCEPT ![r] = p # Covers(op[r]) \cap tuples]
          /\ pc' = [pc EXCEPT ![r] = IF p = {} THEN "reply" ELSE "deletePage"]
    BY <1>5, Zenon DEF ReadTuples
  <2>2. pc' \in [Requests -> {"idle", "db", "upsert", "write", "delete", "read",
                              "deletePage", "reply", "finish", "done"}]
    BY <1>1, <2>1, ZenonT(30) DEF TypeOK
  <2>3. page' \in [Requests -> SUBSET (Groups \X Apps)]
    BY <1>1, <2>1, ZenonT(30) DEF TypeOK
  <2>4. more' \in [Requests -> BOOLEAN]
    BY <1>1, <2>1, ZenonT(30) DEF TypeOK
  <2> QED BY <1>1, <1>5, <2>2, <2>3, <2>4, Zenon DEF TypeOK, ReadTuples, dbVars, pairVars
<1>6. CASE ReadFails(r)
  BY <1>1, <1>6, FailTypeOK, Zenon
<1> QED BY <1>2, <1>3, <1>4, <1>5, <1>6, Zenon DEF FgaStep

-----------------------------------------------------------------------------
(***************************************************************************)
(* A step of a request changes nothing at the others.                       *)
(***************************************************************************)
SameAt(t) ==
  /\ pc'[t] = pc[t] /\ op'[t] = op[t] /\ status'[t] = status[t]
  /\ adds'[t] = adds[t] /\ drops'[t] = drops[t] /\ page'[t] = page[t]
  /\ ended'[t] = ended[t]
  /\ (started'[t] <=> started[t])
  /\ (more'[t] <=> more[t])

OnlyAt(r) == \A t \in Requests \ {r} : SameAt(t)

\* How the variables of a request change.
OneValue(r) ==
  /\ UNCHANGED pc \/ \E v : pc' = [pc EXCEPT ![r] = v]
  /\ UNCHANGED op \/ \E v : op' = [op EXCEPT ![r] = v]
  /\ UNCHANGED status \/ \E v : status' = [status EXCEPT ![r] = v]
  /\ UNCHANGED adds \/ \E v : adds' = [adds EXCEPT ![r] = v]
  /\ UNCHANGED drops \/ \E v : drops' = [drops EXCEPT ![r] = v]
  /\ UNCHANGED page \/ \E v : page' = [page EXCEPT ![r] = v]
  /\ UNCHANGED ended \/ \E v : ended' = [ended EXCEPT ![r] = v]
  /\ UNCHANGED started \/ \E v : started' = [started EXCEPT ![r] = v]
  /\ UNCHANGED more \/ \E v : more' = [more EXCEPT ![r] = v]

\* An update of one value leaves the others.
LEMMA OtherValue ==
  ASSUME NEW f, NEW g, NEW r \in Requests, NEW t \in Requests \ {r}, DOMAIN f = Requests,
         g = f \/ \E v : g = [f EXCEPT ![r] = v]
  PROVE  g[t] = f[t]
BY Zenon

\* A step that updates the values of one request is a step of that request.
LEMMA OneValueOnlyAt ==
  ASSUME TypeOK, NEW r \in Requests, OneValue(r)
  PROVE  OnlyAt(r)
<1> SUFFICES ASSUME NEW t \in Requests \ {r} PROVE SameAt(t)
  BY Zenon DEF OnlyAt
<1>1. /\ DOMAIN pc = Requests /\ DOMAIN op = Requests /\ DOMAIN status = Requests
      /\ DOMAIN adds = Requests /\ DOMAIN drops = Requests /\ DOMAIN page = Requests
      /\ DOMAIN ended = Requests /\ DOMAIN started = Requests /\ DOMAIN more = Requests
  BY Zenon DEF TypeOK
<1>2. pc'[t] = pc[t] /\ op'[t] = op[t] /\ status'[t] = status[t]
  BY <1>1, OtherValue, Zenon DEF OneValue
<1>3. adds'[t] = adds[t] /\ drops'[t] = drops[t] /\ page'[t] = page[t] /\ ended'[t] = ended[t]
  BY <1>1, OtherValue, Zenon DEF OneValue
<1>4. started'[t] = started[t] /\ more'[t] = more[t]
  BY <1>1, OtherValue, Zenon DEF OneValue
<1> QED BY <1>2, <1>3, <1>4, Zenon DEF SameAt

\* Every step of a request is of this kind.
LEMMA StepOnlyAt ==
  ASSUME Base, NEW r \in Requests,
         Arrive(r) \/ DbStep(r) \/ FgaStep(r) \/ Reply(r) \/ EndStep(r)
  PROVE  OnlyAt(r)
<1> SUFFICES OneValue(r)
  BY OneValueOnlyAt, Zenon DEF Base
<1>1. CASE Arrive(r)
  BY <1>1, ZenonT(30) DEF Arrive, OneValue, dbVars, fgaVars
<1>2. ASSUME NEW s, NEW next, Executes(r, s, next) PROVE OneValue(r)
  BY <1>2, Zenon DEF Executes, Exec, OneValue, fgaVars
<1>3. CASE StatementFails(r)
  <2>1. UNCHANGED started \/ started' = [started EXCEPT ![r] = TRUE]
    BY <1>3, Zenon DEF StatementFails
  <2> QED BY <1>3, <2>1, ZenonT(30) DEF StatementFails, OneValue, fgaVars
<1>expires. CASE TxExpires(r)
  BY <1>expires, Zenon DEF TxExpires, OneValue, fgaVars
<1>4. CASE WriteTuple(r) \/ DeleteTuple(r) \/ DeleteTuples(r)
  <2>1. UNCHANGED <<dbVars, page, more, op, ended>>
    BY <1>4, Zenon DEF WriteTuple, DeleteTuple, DeleteTuples
  <2>2. PICK ok, new, next : Call(r, ok, new, next)
    BY <1>4, Zenon DEF WriteTuple, DeleteTuple, DeleteTuples
  <2> QED BY <2>1, <2>2, ZenonT(30) DEF Call, OneValue, dbVars
<1>5. CASE ReadTuples(r)
  BY <1>5, Zenon DEF ReadTuples, OneValue, dbVars
<1>fails. CASE ReadFails(r)
  BY <1>fails, ZenonT(30) DEF ReadFails, OneValue, dbVars, fgaVars
<1>6. CASE Reply(r)
  BY <1>6, Zenon DEF Reply, OneValue, dbVars
<1>7. CASE EndStep(r)
  <2>1. PICK how : EndTx(r, how)
    BY <1>7, Zenon DEF EndStep, Commit, CommitFails, Rollback, NoTx
  <2> QED BY <2>1, Zenon DEF EndTx, OneValue, fgaVars
<1> QED BY <1>1, <1>2, <1>3, <1>expires, <1>4, <1>5, <1>fails, <1>6, <1>7, DbStepExecutes, Zenon
        DEF FgaStep, Base

-----------------------------------------------------------------------------
(***************************************************************************)
(* TablesInv is inductive.                                                  *)
(***************************************************************************)
LEMMA OthersTxInv ==
  ASSUME TablesInv, NEW r \in Requests, OnlyAt(r), NEW t \in Requests \ {r}
  PROVE  TxInv(t)'
<1>1. TxInv(t) /\ SameAt(t)
  BY Zenon DEF TablesInv, OnlyAt
<1> QED BY <1>1, Zenon DEF TxInv, SameAt, NoOpenTx

\* A step of r that leaves its transaction as it is, or begins one.
LEMMA TxKept ==
  ASSUME TablesInv, NEW r \in Requests, pc[r] # "idle", op'[r] = op[r],
         pc'[r] \notin {"idle", "db", "done"},
         pc'[r] = "upsert" => op[r].call = "AddUserToGroups",
         adds'[r] = adds[r], drops'[r] = drops[r], ended'[r] = ended[r],
         started[r] => started'[r], started'[r] => started[r] \/ r \notin Cli
  PROVE  TxInv(r)'
<1>1. TxInv(r)
  BY Zenon DEF TablesInv
<1> QED BY <1>1, Zenon DEF TxInv, NoOpenTx

\* How a statement is executed.
InTx(r, s) ==
  /\ r \notin Cli /\ ended[r] = "no" /\ started' = [started EXCEPT ![r] = TRUE]
  /\ adds' = [adds EXCEPT ![r] = (@ \ s.drops) \cup s.adds]
  /\ drops' = [drops EXCEPT ![r] = @ \cup s.drops]
  /\ UNCHANGED <<rows, faulty, kept>>

OnItsOwn(r, s, next) ==
  /\ ~started[r] /\ UNCHANGED <<started, adds, drops>>
  /\ faulty' = (faulty \/ r \notin Cli)
  /\ rows' = (rows \ s.drops) \cup s.adds
  /\ kept' = (kept \ Withdraws(r, s.drops)) \cup IF next = "reply" THEN Asks(op[r]) ELSE {}

InVain(r, s) ==
  /\ s.error # "none" /\ UNCHANGED <<rows, adds, drops, kept>>
  /\ (started[r] => started'[r]) /\ (started'[r] => started[r] \/ r \notin Cli)
  /\ faulty => faulty'

\* What a statement in a transaction leaves: its rows wait for the commit.
LEMMA InTxEffect ==
  ASSUME TypeOK, NEW r \in Requests, NEW s, InTx(r, s)
  PROVE  /\ started'[r] /\ adds'[r] = (adds[r] \ s.drops) \cup s.adds
         /\ drops'[r] = drops[r] \cup s.drops /\ rows' = rows
         /\ Grants(adds'[r]) = (Grants(adds[r]) \ Grants(s.drops)) \cup Grants(s.adds)
         /\ Grants(drops'[r]) = Grants(drops[r]) \cup Grants(s.drops)
<1>1. started'[r] /\ adds'[r] = (adds[r] \ s.drops) \cup s.adds /\ rows' = rows
  BY DEF InTx, TypeOK
<1>2. drops'[r] = drops[r] \cup s.drops /\ drops[r] \cup s.drops = (drops[r] \ {}) \cup s.drops
  BY DEF InTx, TypeOK
<1>3. Grants(adds'[r]) = (Grants(adds[r]) \ Grants(s.drops)) \cup Grants(s.adds)
  BY <1>1, GrantsSeen
<1>4. Grants(drops'[r]) = (Grants(drops[r]) \ Grants({})) \cup Grants(s.drops)
  BY <1>2, GrantsSeen
<1>5. Grants(drops'[r]) = Grants(drops[r]) \cup Grants(s.drops)
  BY <1>4, NoRows, Zenon
<1> QED BY <1>1, <1>2, <1>3, <1>5, Zenon

\* The three outcomes of a statement.
LEMMA ExecCases ==
  ASSUME TypeOK, TablesInv, NEW r \in Requests, NEW s, NEW next, Exec(r, s, next)
  PROVE  \/ InVain(r, s)
         \/ s.error = "none" /\ InTx(r, s)
         \/ s.error = "none" /\ OnItsOwn(r, s, next)
<1>1. r \in Cli => ~started[r]
  BY Zenon DEF TablesInv, TxInv
<1>2. started' = [started EXCEPT ![r] = TRUE] => started'[r]
  BY DEF TypeOK
<1>3. \/ /\ r \notin Cli /\ ended[r] = "no" /\ started' = [started EXCEPT ![r] = TRUE]
         /\ IF s.error = "none"
              THEN /\ adds' = [adds EXCEPT ![r] = (@ \ s.drops) \cup s.adds]
                   /\ drops' = [drops EXCEPT ![r] = @ \cup s.drops]
              ELSE UNCHANGED <<adds, drops>>
         /\ UNCHANGED <<rows, faulty, kept>>
      \/ /\ ~started[r] /\ faulty' = (faulty \/ r \notin Cli)
         /\ IF s.error = "none"
             THEN /\ rows' = (rows \ s.drops) \cup s.adds
                  /\ kept' = (kept \ Withdraws(r, s.drops))
                               \cup IF next = "reply" THEN Asks(op[r]) ELSE {}
             ELSE UNCHANGED <<rows, kept>>
         /\ UNCHANGED <<started, adds, drops>>
  BY <1>1, ZenonT(30) DEF Exec
<1> QED BY <1>2, <1>3, Zenon DEF InVain, InTx, OnItsOwn

\* The place and the status of a request after a statement.
LEMMA ExecPlace ==
  ASSUME TypeOK, NEW r \in Requests, NEW s, NEW next, Exec(r, s, next)
  PROVE  /\ s.error = "none" => pc'[r] = next /\ status'[r] = 0
         /\ s.error # "none" => pc'[r] = "reply" /\ status'[r] \in {400, 404, 409, 500}
         /\ op' = op /\ ended' = ended /\ tuples' = tuples /\ page' = page /\ more' = more
<1>1. /\ pc' = [pc EXCEPT ![r] = IF s.error = "none" THEN next ELSE "reply"]
      /\ status' = [status EXCEPT ![r] = StatusOf(op[r].call, s.error)]
      /\ op' = op /\ ended' = ended /\ tuples' = tuples /\ page' = page /\ more' = more
  BY Zenon DEF Exec, fgaVars
<1>2. DOMAIN pc = Requests /\ DOMAIN status = Requests
  BY Zenon DEF TypeOK
<1>3. pc'[r] = (IF s.error = "none" THEN next ELSE "reply") /\ status'[r] = StatusOf(op[r].call, s.error)
  BY <1>1, <1>2, Zenon
<1> QED BY <1>1, <1>3, StatusOfError

\* ... and when it succeeds.
LEMMA ExecSucceeds ==
  ASSUME TypeOK, NEW r \in Requests, NEW s, NEW next, Exec(r, s, next), s.error = "none"
  PROVE  /\ pc'[r] = next /\ status'[r] = 0
         /\ op' = op /\ ended' = ended /\ tuples' = tuples
BY ExecPlace

\* A statement keeps the invariant of the tables.
LEMMA ExecTablesInv ==
  ASSUME TypeOK, TablesInv, NEW r \in Requests, NEW s, NEW next, Executes(r, s, next), OnlyAt(r)
  PROVE  TablesInv'
<1>1. /\ Exec(r, s, next) /\ pc[r] # "idle" /\ named \subseteq named'
      /\ next = "upsert" => op[r].call = "AddUserToGroups"
      /\ next \in {"reply", "upsert", "write", "delete", "read"}
  BY ZenonT(30) DEF Executes, Fits
<1>2. \A t \in Requests \ {r} : (adds[t] \cup drops[t]) \cap s.needs = {}
  BY <1>1, ZenonT(30) DEF Exec
<1>3. s.error = "none" => Locked(View(r), s, UsedIds) /\ GroupIds(s.adds) \subseteq UsedIds'
  BY Zenon DEF Executes
<1>4. /\ pc'[r] \notin {"idle", "db", "done"} /\ op' = op /\ ended' = ended
      /\ pc'[r] = "upsert" => op[r].call = "AddUserToGroups"
  BY <1>1, ExecPlace
<1>5. LocksInv
  BY Zenon DEF TablesInv
<1>6. CASE InVain(r, s)
  <2>1. LocksInv'
    BY <1>1, <1>5, <1>6, LocksSame, Zenon DEF InVain
  <2>2. TxInv(r)'
    BY <1>1, <1>4, <1>6, TxKept, Zenon DEF InVain
  <2> QED BY <2>1, <2>2, OthersTxInv, Zenon DEF TablesInv
<1>7. CASE s.error = "none" /\ OnItsOwn(r, s, next)
  <2>1. LocksInv'
    BY <1>1, <1>2, <1>3, <1>7, LocksOnItsOwn, Zenon DEF OnItsOwn
  <2>2. TxInv(r)'
    BY <1>1, <1>4, <1>7, TxKept, Zenon DEF OnItsOwn
  <2> QED BY <2>1, <2>2, OthersTxInv, Zenon DEF TablesInv
<1>8. CASE s.error = "none" /\ InTx(r, s)
  <2>1. LocksInv'
    BY <1>1, <1>2, <1>3, <1>8, LocksInTx, Zenon DEF InTx
  <2>2. started'[r] /\ ended'[r] = "no" /\ r \notin Cli
    BY <1>4, <1>8, InTxEffect, Zenon DEF InTx
  <2>3. TxInv(r)
    BY Zenon DEF TablesInv
  <2>4. TxInv(r)'
    BY <1>1, <1>4, <2>2, <2>3, Zenon DEF TxInv
  <2> QED BY <2>1, <2>4, OthersTxInv, Zenon DEF TablesInv
<1> QED BY <1>1, <1>6, <1>7, <1>8, ExecCases, Zenon

\* The steps that leave the tables and the transactions alone.
StillTables(r) ==
  /\ UNCHANGED <<rows, adds, drops, started, ended, named, kept, op>>
  /\ pc[r] \notin {"idle", "done"} /\ pc'[r] \in {"reply", "read", "deletePage", "finish"}

\* A step on the tuples, or the response, leaves the tables still.
LEMMA FgaStill ==
  ASSUME TypeOK, NEW r \in Requests, FgaStep(r) \/ Reply(r)
  PROVE  StillTables(r)
<1>1. UNCHANGED <<rows, adds, drops, started, ended, named, kept, op>>
  BY Zenon DEF FgaStep, WriteTuple, DeleteTuple, DeleteTuples, ReadTuples, ReadFails, Reply, dbVars
<1>2. pc[r] \notin {"idle", "done"}
  BY Zenon DEF FgaStep, WriteTuple, DeleteTuple, DeleteTuples, ReadTuples, ReadFails, Reply
<1>3. PICK place \in {"reply", "read", "deletePage", "finish"} : pc' = [pc EXCEPT ![r] = place]
  BY Zenon DEF FgaStep, WriteTuple, DeleteTuple, DeleteTuples, ReadTuples, ReadFails, Reply, Call
<1> QED BY <1>1, <1>2, <1>3 DEF StillTables, TypeOK

\* What the end of a transaction does.
LEMMA EndPlace ==
  ASSUME TypeOK, NEW r \in Requests, EndStep(r)
  PROVE  /\ pc[r] = "finish" /\ pc'[r] = "done" /\ adds'[r] = {} /\ drops'[r] = {} /\ ~started'[r]
         /\ UNCHANGED <<tuples, page, more, op, status, named>>
<1>1. PICK how : EndTx(r, how)
  BY ZenonT(30) DEF EndStep, Commit, CommitFails, Rollback, NoTx
<1>2. ~started'[r]
  BY <1>1 DEF EndTx, TypeOK
<1>3. pc[r] = "finish" /\ pc'[r] = "done" /\ adds'[r] = {} /\ drops'[r] = {}
  BY <1>1 DEF EndTx, TypeOK
<1> QED BY <1>1, <1>2, <1>3, Zenon DEF EndTx, fgaVars

\* A request arrives without a transaction.
LEMMA ArriveTxInv ==
  ASSUME TypeOK, TablesInv, NEW r \in Requests, Arrive(r)
  PROVE  TxInv(r)'
<1>1. PICK o \in Calls :
        /\ (r \in Cli <=> o.cli) /\ op' = [op EXCEPT ![r] = o]
        /\ \E place \in {"reply", "db"} : pc' = [pc EXCEPT ![r] = place]
  BY ZenonT(30) DEF Arrive
<1>2. op'[r] = o /\ pc'[r] \in {"reply", "db"} /\ pc[r] = "idle"
  BY <1>1 DEF TypeOK, Arrive
<1>3. UNCHANGED <<started, adds, drops, ended>>
  BY Zenon DEF Arrive, dbVars
<1>4. TxInv(r)
  BY Zenon DEF TablesInv
<1> QED BY <1>1, <1>2, <1>3, <1>4, Zenon DEF TxInv, NoOpenTx

\* What a statement that fails does.
Failed(r) ==
  /\ pc[r] \in {"db", "upsert"} /\ pc'[r] = "reply" /\ status'[r] = 500
  /\ UNCHANGED <<rows, adds, drops, op, ended, named>>
  /\ UNCHANGED <<tuples, page, more, kept>>

\* What a failed statement does.
LEMMA FailPlace ==
  ASSUME TypeOK, NEW r \in Requests, StatementFails(r)
  PROVE  Failed(r)
<1>1. /\ pc[r] \in {"db", "upsert"}
      /\ UNCHANGED <<rows, adds, drops, op, ended, named>>
      /\ UNCHANGED <<tuples, page, more, kept>>
  BY Zenon DEF StatementFails, fgaVars
<1>2. pc'[r] = "reply" /\ status'[r] = 500
  BY DEF StatementFails, TypeOK
<1> QED BY <1>1, <1>2, Zenon DEF Failed

\* The BeginTx before it may have succeeded.
LEMMA FailStarted ==
  ASSUME TypeOK, NEW r \in Requests, StatementFails(r)
  PROVE  (started[r] => started'[r]) /\ (started'[r] => started[r] \/ r \notin Cli)
<1>1. started' = [started EXCEPT ![r] = TRUE] => started'[r]
  BY DEF TypeOK
<1>2. UNCHANGED started \/ (started' = [started EXCEPT ![r] = TRUE] /\ r \notin Cli)
  BY Zenon DEF StatementFails
<1> QED BY <1>1, <1>2, Zenon

\* What the deadline of a transaction does.
Expired(r) ==
  /\ adds'[r] = {} /\ drops'[r] = {} /\ ended'[r] = "expired"
  /\ UNCHANGED <<rows, pc, op, named, kept>>
  /\ UNCHANGED <<tuples, page, more, status>>

\* What the end of a deadline does.
LEMMA ExpirePlace ==
  ASSUME TypeOK, NEW r \in Requests, TxExpires(r)
  PROVE  Expired(r)
<1>1. adds'[r] = {} /\ drops'[r] = {} /\ ended'[r] = "expired"
  BY DEF TxExpires, TypeOK
<1>2. UNCHANGED <<rows, pc, op, named, kept>> /\ UNCHANGED <<tuples, page, more, status>>
  BY Zenon DEF TxExpires, fgaVars
<1> QED BY <1>1, <1>2, ZenonT(30) DEF Expired

\* TablesInv is kept by every step of a request.
LEMMA StepTablesInv ==
  ASSUME Base, NEW r \in Requests, OnlyAt(r),
         Arrive(r) \/ DbStep(r) \/ FgaStep(r) \/ Reply(r) \/ EndStep(r)
  PROVE  TablesInv'
<1>1. TypeOK /\ TablesInv /\ LocksInv /\ TxInv(r)
  BY Zenon DEF Base, TablesInv
<1>2. \A t \in Requests \ {r} : adds'[t] = adds[t] /\ drops'[t] = drops[t]
  BY Zenon DEF OnlyAt, SameAt
<1>3. SUFFICES TxInv(r)' /\ LocksInv'
  BY <1>1, <1>3, OthersTxInv, Zenon DEF TablesInv
<1>4. CASE Arrive(r)
  <2>1. LocksInv'
    BY <1>1, <1>4, LocksSame, Zenon DEF Arrive, dbVars
  <2> QED BY <1>1, <1>4, <2>1, ArriveTxInv, Zenon
<1>5. ASSUME NEW s, NEW next, Executes(r, s, next) PROVE TxInv(r)' /\ LocksInv'
  BY <1>1, <1>5, ExecTablesInv, Zenon DEF TablesInv
<1>6. CASE StatementFails(r)
  <2>1. Failed(r)
    BY <1>1, <1>6, FailPlace, Zenon
  <2>2. (started[r] => started'[r]) /\ (started'[r] => started[r] \/ r \notin Cli)
    BY <1>1, <1>6, FailStarted, Zenon
  <2>3. UNCHANGED <<rows, adds, drops>> /\ named \subseteq named'
    BY <2>1, Zenon DEF Failed
  <2>4. LocksInv'
    BY <1>1, <2>3, LocksSame, ZenonT(30)
  <2>5. /\ pc[r] # "idle" /\ op'[r] = op[r] /\ pc'[r] \notin {"idle", "db", "done"}
        /\ pc'[r] # "upsert" /\ adds'[r] = adds[r] /\ drops'[r] = drops[r] /\ ended'[r] = ended[r]
    BY <2>1, Zenon DEF Failed
  <2>6. TxInv(r)'
    BY <1>1, <2>2, <2>5, TxKept, Zenon
  <2> QED BY <2>4, <2>6, Zenon
<1>7. CASE TxExpires(r)
  <2>1. Expired(r) /\ started' = started
    BY <1>1, <1>7, ExpirePlace, Zenon DEF TxExpires
  <2>2. UNCHANGED <<rows, named>> /\ adds'[r] = {} /\ drops'[r] = {} /\ UNCHANGED <<pc, op, started>>
    BY <2>1, Zenon DEF Expired
  <2>3. LocksInv'
    BY <1>1, <1>2, <2>2, LocksRollback, Zenon
  <2>4. TxInv(r)'
    BY <1>1, <2>2, Zenon DEF TxInv, NoOpenTx
  <2> QED BY <2>3, <2>4, Zenon
<1>8. CASE FgaStep(r) \/ Reply(r)
  <2>1. StillTables(r)
    BY <1>1, <1>8, FgaStill, Zenon
  <2>2. LocksInv'
    BY <1>1, <2>1, LocksSame, Zenon DEF StillTables
  <2>3. TxInv(r)'
    BY <1>1, <2>1, TxKept, Zenon DEF StillTables
  <2> QED BY <2>2, <2>3, Zenon
<1>9. CASE EndStep(r)
  <2>1. /\ pc[r] = "finish" /\ pc'[r] = "done" /\ adds'[r] = {} /\ drops'[r] = {} /\ ~started'[r]
        /\ UNCHANGED <<op, named>>
    BY <1>1, <1>9, EndPlace, Zenon
  <2>2. rows' = View(r) \/ rows' = rows
    BY <1>9, ZenonT(30) DEF EndStep, Commit, CommitFails, Rollback, NoTx
  <2>3. LocksInv'
    BY <1>1, <1>2, <2>1, <2>2, LocksOfCommit, LocksRollback, Zenon
  <2>4. TxInv(r)'
    BY <1>1, <2>1, Zenon DEF TxInv, NoOpenTx
  <2> QED BY <2>3, <2>4, Zenon
<1> QED BY <1>1, <1>4, <1>5, <1>6, <1>7, <1>8, <1>9, DbStepExecutes, Zenon

-----------------------------------------------------------------------------
(***************************************************************************)
(* KeptInv: the memberships that were asked for.                            *)
(***************************************************************************)

\* What the statements leave of the memberships that are kept.
LEMMA KeptAfter ==
  ASSUME TypeOK, NEW r \in Requests, kept \subseteq Members(rows), NEW D, NEW A, NEW asked,
         asked \subseteq Members(A), rows' = (rows \ D) \cup A,
         kept' = (kept \ Withdraws(r, D)) \cup asked
  PROVE  LastWriteHolds'
<1>1. Members(rows') = (Members(rows) \ Members(D)) \cup Members(A)
  BY MembersSeen, Zenon
<1>2. Members(D) \subseteq Withdraws(r, D)
  BY Zenon DEF Withdraws
<1> QED BY <1>1, <1>2, Zenon DEF LastWriteHolds

\* The memberships that a settled request with a transaction asks for.
AskedIn(r) ==
  Settled(r) /\ started[r] /\ ended[r] = "no" => Asks(op[r]) \subseteq Members(adds[r])

\* A step of r leaves what the others asked for.
LEMMA OthersAsked ==
  ASSUME KeptInv, NEW r \in Requests, OnlyAt(r), NEW t \in Requests \ {r}
  PROVE  AskedIn(t)'
<1>1. AskedIn(t) /\ SameAt(t)
  BY Zenon DEF KeptInv, AskedIn, OnlyAt
<1> QED BY <1>1, ZenonT(30) DEF AskedIn, SameAt, Settled

\* A statement keeps the invariant of the memberships.
LEMMA ExecKeptInv ==
  ASSUME TypeOK, TablesInv, KeptInv, NEW r \in Requests, NEW s, NEW next, Executes(r, s, next)
  PROVE  AskedIn(r)' /\ LastWriteHolds'
<1>1. /\ Exec(r, s, next) /\ pc[r] \in {"db", "upsert"}
      /\ s.error = "none" /\ next = "reply" => Asks(op[r]) \subseteq Members(s.adds)
  BY Zenon DEF Executes
<1>2. kept \subseteq Members(rows)
  BY Zenon DEF KeptInv, LastWriteHolds
<1>3. op' = op
  BY <1>1, ExecPlace, Zenon
<1>4. CASE InVain(r, s)
  <2>1. ~Settled(r)'
    BY <1>1, <1>4, ExecPlace DEF InVain, Settled
  <2> QED BY <1>2, <1>4, <2>1, ZenonT(30) DEF InVain, AskedIn, LastWriteHolds
<1>5. CASE s.error = "none" /\ OnItsOwn(r, s, next)
  <2>1. ~started'[r]
    BY <1>5, Zenon DEF OnItsOwn
  <2> DEFINE asked == IF next = "reply" THEN Asks(op[r]) ELSE {}
  <2>2. asked \subseteq Members(s.adds)
    BY <1>1, <1>5, Zenon
  <2>3. rows' = (rows \ s.drops) \cup s.adds /\ kept' = (kept \ Withdraws(r, s.drops)) \cup asked
    BY <1>5, Zenon DEF OnItsOwn
  <2> HIDE DEF asked
  <2>4. LastWriteHolds'
    BY <1>2, <2>2, <2>3, KeptAfter, Zenon
  <2> QED BY <2>1, <2>4, Zenon DEF AskedIn
<1>6. CASE s.error = "none" /\ InTx(r, s)
  <2>1. s.adds \subseteq adds'[r] /\ UNCHANGED <<rows, kept>>
    BY <1>6, InTxEffect, Zenon DEF InTx
  <2>2. Members(s.adds) \subseteq Members(adds'[r])
    BY <2>1, Zenon DEF Members
  <2>3. Settled(r)' => next = "reply"
    BY <1>1, <1>6, ExecPlace DEF Settled, Executes, Fits
  <2> QED BY <1>1, <1>2, <1>3, <1>6, <2>1, <2>2, <2>3, ZenonT(30) DEF AskedIn, LastWriteHolds
<1> QED BY <1>1, <1>4, <1>5, <1>6, ExecCases, Zenon

\* A request that replies after its calls to OpenFGA asks for no membership.
LEMMA FgaAsksNothing ==
  ASSUME GrantInv, NEW r \in Requests, pc[r] \in {"write", "delete", "read", "deletePage"}
  PROVE  Asks(op[r]) = {}
<1>1. ClaimHolds(r)
  BY Zenon DEF GrantInv
<1>2. op[r].call \notin {"AddUsersToGroup", "AddUserToGroups"}
  BY <1>1, Zenon DEF ClaimHolds
<1> QED BY <1>2, NoPairs, Zenon

\* The response changes nothing about the success of a request.
LEMMA ReplySettled ==
  ASSUME TypeOK, GrantInv, NEW r \in Requests, Reply(r)
  PROVE  /\ pc[r] = "reply" /\ pc'[r] = "finish"
         /\ Settled(r)' <=> Settled(r)
<1>1. pc[r] = "reply" /\ pc'[r] = "finish"
  BY DEF Reply, TypeOK
<1>2. status[r] \in {0, 400, 404, 409, 500}
  BY <1>1, ZenonT(60) DEF GrantInv, ClaimHolds
<1>3. status'[r] = IF status[r] = 0 THEN 200 ELSE status[r]
  BY DEF Reply, TypeOK
<1> QED BY <1>1, <1>2, <1>3 DEF Settled

\* KeptInv is kept by every step of a request.
LEMMA StepKeptInv ==
  ASSUME Base, KeptInv, NEW r \in Requests, OnlyAt(r),
         Arrive(r) \/ DbStep(r) \/ FgaStep(r) \/ Reply(r) \/ EndStep(r)
  PROVE  KeptInv'
<1>1. TypeOK /\ TablesInv /\ GrantInv /\ TxInv(r)
  BY Zenon DEF Base, TablesInv
<1>2. AskedIn(r) /\ kept \subseteq Members(rows)
  BY Zenon DEF KeptInv, AskedIn, LastWriteHolds
<1>3. SUFFICES AskedIn(r)' /\ LastWriteHolds'
  BY <1>3, OthersAsked, Zenon DEF KeptInv, AskedIn
<1>4. CASE Arrive(r)
  <2>1. pc[r] = "idle" /\ UNCHANGED <<started, rows, kept>>
    BY <1>4, Zenon DEF Arrive, dbVars
  <2>2. ~started[r]
    BY <1>1, <2>1, Zenon DEF TxInv
  <2> QED BY <1>2, <2>1, <2>2, Zenon DEF AskedIn, LastWriteHolds
<1>5. ASSUME NEW s, NEW next, Executes(r, s, next) PROVE AskedIn(r)' /\ LastWriteHolds'
  BY <1>1, <1>5, ExecKeptInv, Zenon
<1>6. CASE StatementFails(r)
  <2>1. Failed(r)
    BY <1>1, <1>6, FailPlace, Zenon
  <2> QED BY <1>2, <2>1 DEF Failed, AskedIn, LastWriteHolds, Settled
<1>7. CASE TxExpires(r)
  <2>1. Expired(r)
    BY <1>1, <1>7, ExpirePlace, Zenon
  <2> QED BY <1>2, <2>1, Zenon DEF Expired, AskedIn, LastWriteHolds
<1>8. CASE FgaStep(r)
  <2>1. UNCHANGED <<rows, kept, op>>
    BY <1>1, <1>8, FgaStill, Zenon DEF StillTables
  <2>2. pc[r] \in {"write", "delete", "read", "deletePage"}
    BY <1>8, ZenonT(30) DEF FgaStep, WriteTuple, DeleteTuple, DeleteTuples, ReadTuples, ReadFails
  <2>3. Asks(op'[r]) = {}
    BY <1>1, <2>1, <2>2, FgaAsksNothing, Zenon
  <2> QED BY <1>2, <2>1, <2>3, Zenon DEF AskedIn, LastWriteHolds
<1>9. CASE Reply(r)
  <2>1. UNCHANGED <<rows, kept, op, adds, started, ended>>
    BY <1>1, <1>9, FgaStill, Zenon DEF StillTables
  <2>2. Settled(r)' <=> Settled(r)
    BY <1>1, <1>9, ReplySettled, Zenon
  <2> QED BY <1>2, <2>1, <2>2, ZenonT(30) DEF AskedIn, LastWriteHolds
<1>10. CASE EndStep(r)
  <2>1. pc[r] = "finish" /\ ~Settled(r)'
    BY <1>1, <1>10, EndPlace, Zenon DEF Settled
  <2>2. \/ UNCHANGED <<rows, kept>>
        \/ /\ started[r] /\ ended[r] = "no" /\ status[r] < 400 /\ rows' = View(r)
           /\ kept' = (kept \ Withdraws(r, drops[r])) \cup Asks(op[r])
    BY <1>10, ZenonT(30) DEF EndStep, Commit, CommitFails, Rollback, NoTx
  <2>3. CASE UNCHANGED <<rows, kept>>
    BY <1>2, <2>1, <2>3, ZenonT(30) DEF AskedIn, LastWriteHolds
  <2>4. CASE /\ started[r] /\ ended[r] = "no" /\ status[r] < 400 /\ rows' = View(r)
             /\ kept' = (kept \ Withdraws(r, drops[r])) \cup Asks(op[r])
    <3>1. Asks(op[r]) \subseteq Members(adds[r])
      BY <1>2, <2>1, <2>4, ZenonT(30) DEF AskedIn, Settled
    <3>2. rows' = (rows \ drops[r]) \cup adds[r]
      BY <2>4, Zenon DEF View
    <3>3. LastWriteHolds'
      BY <1>1, <1>2, <2>4, <3>1, <3>2, KeptAfter, Zenon
    <3> QED BY <2>1, <3>3, ZenonT(30) DEF AskedIn
  <2> QED BY <2>2, <2>3, <2>4, ZenonT(30)
<1> QED BY <1>1, <1>4, <1>5, <1>6, <1>7, <1>8, <1>9, <1>10, DbStepExecutes, Zenon

-----------------------------------------------------------------------------
(***************************************************************************)
(* The calls to OpenFGA.                                                    *)
(***************************************************************************)

\* The call fails; when it was applied all the same, that is a fault.
FgaFails(r) ==
  /\ pc[r] \in {"write", "delete", "read", "deletePage"}
  /\ pc'[r] = "reply" /\ status'[r] = 500 /\ calm' = FALSE
  /\ faulty' \/ UNCHANGED <<tuples, faulty>>

\* The call succeeds.
FgaQuiet(r) == status'[r] = 0 /\ UNCHANGED <<faulty, calm>>

FgaWrites(r) ==
  /\ pc[r] = "write" /\ pc'[r] = "reply" /\ FgaQuiet(r)
  /\ Revokes(op[r]) = {} /\ tuples' = tuples \cup Grantees(op[r])

FgaDeletes(r, D) ==
  /\ pc[r] \in {"delete", "deletePage"} /\ FgaQuiet(r)
  /\ Grantees(op[r]) = {} /\ D \subseteq Revokes(op[r]) /\ tuples' = tuples \ D
  /\ \/ pc'[r] = "read"
     \/ /\ pc'[r] = "reply"
        /\ Covers(op[r]) \subseteq D \/ (pc[r] = "deletePage" /\ ~more[r] /\ D = page[r])

FgaReads(r) ==
  /\ pc[r] = "read" /\ FgaQuiet(r) /\ Grantees(op[r]) = {} /\ tuples' = tuples
  /\ \/ pc'[r] = "reply" /\ Covers(op[r]) \cap tuples = {}
     \/ pc'[r] = "deletePage" /\ (~more'[r] => page'[r] = Covers(op[r]) \cap tuples)

\* A call to OpenFGA that changes the tuples.
LEMMA CallCases ==
  ASSUME TypeOK, NEW r \in Requests, pc[r] \in {"write", "delete", "deletePage"},
         status[r] = 0, NEW ok, NEW new, NEW next, Call(r, ok, new, next)
  PROVE  FgaFails(r) \/ (tuples' = new /\ pc'[r] = next /\ FgaQuiet(r))
<1>1. CASE ok /\ tuples' = new /\ pc' = [pc EXCEPT ![r] = next] /\ UNCHANGED <<status, faulty, calm>>
  <2>1. pc'[r] = next /\ status'[r] = 0
    BY <1>1 DEF TypeOK
  <2> QED BY <1>1, <2>1, Zenon DEF FgaQuiet
<1>2. CASE /\ pc' = [pc EXCEPT ![r] = "reply"] /\ status' = [status EXCEPT ![r] = 500]
           /\ calm' = FALSE /\ (faulty' = TRUE \/ UNCHANGED <<tuples, faulty>>)
  <2>1. pc'[r] = "reply" /\ status'[r] = 500
    BY <1>2 DEF TypeOK
  <2> QED BY <1>2, <2>1, ZenonT(30) DEF FgaFails
<1> QED BY <1>1, <1>2, Zenon DEF Call

\* What a call to OpenFGA does.
LEMMA FgaCases ==
  ASSUME TypeOK, GrantInv, NEW r \in Requests, FgaStep(r)
  PROVE  FgaFails(r) \/ FgaWrites(r) \/ (\E D : FgaDeletes(r, D)) \/ FgaReads(r)
<1>1. ClaimHolds(r)
  BY Zenon DEF GrantInv
<1> DEFINE t == <<op[r].group, op[r].app>>
<1>2. CASE WriteTuple(r)
  <2>1. op[r].call = "AddAllowedAppToGroup" /\ status[r] = 0 /\ pc[r] = "write"
    BY <1>1, <1>2, Zenon DEF ClaimHolds, WriteTuple
  <2>2. Revokes(op[r]) = {} /\ Grantees(op[r]) = {t}
    BY <2>1, Zenon DEF Revokes, Grantees
  <2>3. Call(r, t \notin tuples, tuples \cup {t}, "reply")
    BY <1>2, ZenonT(30) DEF WriteTuple
  <2>4. FgaFails(r) \/ (tuples' = tuples \cup {t} /\ pc'[r] = "reply" /\ FgaQuiet(r))
    BY <2>1, <2>3, CallCases, Zenon
  <2> QED BY <2>1, <2>2, <2>4, ZenonT(30) DEF FgaWrites
<1>3. CASE DeleteTuple(r)
  <2>1. op[r].call = "RemoveAllowedAppFromGroup" /\ status[r] = 0 /\ pc[r] = "delete"
    BY <1>1, <1>3, ZenonT(30) DEF ClaimHolds, DeleteTuple
  <2>2. Revokes(op[r]) = {t} /\ Grantees(op[r]) = {} /\ Covers(op[r]) \subseteq {t}
    BY <2>1, CoversRevoked, Zenon DEF Revokes, Grantees
  <2>3. Call(r, t \in tuples, tuples \ {t}, "reply")
    BY <1>3, Zenon DEF DeleteTuple
  <2>4. FgaFails(r) \/ (tuples' = tuples \ {t} /\ pc'[r] = "reply" /\ FgaQuiet(r))
    BY <2>1, <2>3, CallCases, Zenon
  <2>5. ASSUME tuples' = tuples \ {t}, pc'[r] = "reply", FgaQuiet(r) PROVE FgaDeletes(r, {t})
    BY <2>1, <2>2, <2>5, Zenon DEF FgaDeletes
  <2> QED BY <2>4, <2>5, ZenonT(30)
<1>4. CASE DeleteTuples(r)
  <2>1. /\ status[r] = 0 /\ pc[r] = "deletePage" /\ page[r] \subseteq Revokes(op[r])
        /\ op[r].call \in {"RemoveGroup", "RemoveAllowedAppsFromGroup", "RemoveAllowedGroupsForApp"}
    BY <1>1, <1>4, Zenon DEF ClaimHolds, DeleteTuples
  <2>2. Grantees(op[r]) = {}
    BY <2>1, Zenon DEF Grantees
  <2> DEFINE next == IF more[r] THEN "read" ELSE "reply"
  <2>3. Call(r, page[r] \subseteq tuples, tuples \ page[r], next)
    BY <1>4, ZenonT(30) DEF DeleteTuples
  <2>4. FgaFails(r) \/ (tuples' = tuples \ page[r] /\ pc'[r] = next /\ FgaQuiet(r))
    BY <2>1, <2>3, CallCases, Zenon
  <2>5. next = "read" \/ (next = "reply" /\ ~more[r])
    BY Zenon
  <2> HIDE DEF next
  <2>6. ASSUME tuples' = tuples \ page[r], pc'[r] = next, FgaQuiet(r) PROVE FgaDeletes(r, page[r])
    BY <2>1, <2>2, <2>5, <2>6, Zenon DEF FgaDeletes
  <2> QED BY <2>4, <2>6, ZenonT(30)
<1>5. CASE ReadTuples(r)
  <2>1. /\ status[r] = 0 /\ pc[r] = "read"
        /\ op[r].call \in {"RemoveGroup", "RemoveAllowedAppsFromGroup", "RemoveAllowedGroupsForApp"}
    BY <1>1, <1>5, Zenon DEF ClaimHolds, ReadTuples
  <2>2. Grantees(op[r]) = {}
    BY <2>1, Zenon DEF Grantees
  <2> DEFINE matching == Covers(op[r]) \cap tuples
  <2>3. PICK p \in SUBSET matching :
          /\ Cardinality(p) = PageSize \/ (p = matching /\ Cardinality(p) < PageSize)
          /\ page' = [page EXCEPT ![r] = p]
          /\ more' = [more EXCEPT ![r] = p # matching]
          /\ pc' = [pc EXCEPT ![r] = IF p = {} THEN "reply" ELSE "deletePage"]
    BY <1>5, Zenon DEF ReadTuples
  <2>4. UNCHANGED <<tuples, status, faulty, calm>>
    BY <1>5, ZenonT(30) DEF ReadTuples
  <2>5. page'[r] = p /\ pc'[r] = (IF p = {} THEN "reply" ELSE "deletePage") /\ status'[r] = 0
    BY <2>1, <2>3, <2>4 DEF TypeOK
  <2>6. ~more'[r] => p = matching
    <3>1. DOMAIN more = Requests
      BY ZenonT(30) DEF TypeOK
    <3> QED BY <2>3, <3>1, Zenon
  <2>7. p = {} => matching = {}
    BY <2>3, EmptyCard, PageSizePositive, Zenon
  <2>8. FgaQuiet(r)
    BY <2>4, <2>5, ZenonT(30) DEF FgaQuiet
  <2>9. CASE p = {}
    BY <2>1, <2>2, <2>4, <2>5, <2>7, <2>8, <2>9, Zenon DEF FgaReads
  <2>10. CASE p # {}
    <3>1. pc'[r] = "deletePage"
      BY <2>5, <2>10, Zenon
    <3> QED BY <2>1, <2>2, <2>4, <2>5, <2>6, <2>8, <3>1, ZenonT(30) DEF FgaReads
  <2> QED BY <2>9, <2>10, Zenon
<1>6. CASE ReadFails(r)
  <2>1. pc[r] = "read" /\ pc'[r] = "reply" /\ status'[r] = 500
    BY <1>6 DEF ReadFails, TypeOK
  <2>2. calm' = FALSE /\ UNCHANGED <<tuples, faulty>>
    BY <1>6, Zenon DEF ReadFails, fgaVars
  <2> QED BY <2>1, <2>2, Zenon DEF FgaFails
<1> QED BY <1>2, <1>3, <1>4, <1>5, <1>6, Zenon DEF FgaStep

-----------------------------------------------------------------------------
(***************************************************************************)
(* StrayInv: the tuples without a row.                                      *)
(***************************************************************************)

\* The grants that the transaction of r has written are the ones of its call.
OwnGrants(r) ==
  Grants(drops[r]) \subseteq Revokes(op[r]) /\ Grants(adds[r]) \subseteq Grantees(op[r])

\* What StrayInv says of one request, and of one tuple.
StrayAt(r) ==
  /\ ended[r] \notin {"expired", "lost"} /\ (ended[r] = "committed" => pc[r] = "done")
  /\ Settled(r) => tuples \cap Grants(drops[r]) \cap Covers(op[r]) = {}
  /\ pc[r] = "write" => Grantees(op[r]) \subseteq Grants(adds[r])
  /\ pc[r] = "deletePage" /\ ~more[r] =>
       tuples \cap Grants(drops[r]) \cap Covers(op[r]) \subseteq page[r]

Backed(p) ==
  p \in Grants(rows) \cup LeftBehind \/ \E r \in Requests : Settled(r) /\ p \in Grants(adds[r])

\* The invariant of the stray tuples, tuple by tuple and request by request.
LEMMA StrayParts ==
  /\ StrayInv <=> /\ \A r \in Requests : OwnGrants(r)
                  /\ faulty \/ ((\A p \in tuples : Backed(p)) /\ (\A r \in Requests : StrayAt(r)))
  /\ StrayInv' <=> /\ \A r \in Requests : OwnGrants(r)'
                   /\ faulty' \/ ((\A p \in tuples' : Backed(p)') /\ (\A r \in Requests : StrayAt(r)'))
<1>1. (\A p \in tuples : Backed(p)) <=>
        \A p \in tuples \ (Grants(rows) \cup LeftBehind) :
          \E r \in Requests : Settled(r) /\ p \in Grants(adds[r])
  BY Zenon DEF Backed
<1>2. (\A p \in tuples' : Backed(p)') <=>
        \A p \in tuples' \ (Grants(rows') \cup LeftBehind') :
          \E r \in Requests : Settled(r)' /\ p \in Grants(adds'[r])
  BY ZenonT(30) DEF Backed
<1> QED BY <1>1, <1>2, Zenon DEF StrayInv, OwnGrants, StrayAt

\* The other requests, when the tuples that are new are none of the grants
\* that they take out.
LEMMA OthersStray ==
  ASSUME NEW r \in Requests, OnlyAt(r), NEW t \in Requests \ {r},
         StrayAt(t), tuples' \cap Grants(drops[t]) \subseteq tuples
  PROVE  StrayAt(t)'
<1>1. SameAt(t)
  BY Zenon DEF OnlyAt
<1>2. /\ Grants(drops'[t]) = Grants(drops[t]) /\ Grants(adds'[t]) = Grants(adds[t])
      /\ Grantees(op'[t]) = Grantees(op[t]) /\ Covers(op'[t]) = Covers(op[t])
      /\ Settled(t)' <=> Settled(t)
  BY <1>1, Zenon DEF SameAt, Settled
<1>3. /\ ended'[t] = ended[t] /\ pc'[t] = pc[t] /\ page'[t] = page[t] /\ (more'[t] <=> more[t])
  BY <1>1, Zenon DEF SameAt
<1> QED BY <1>2, <1>3, Zenon DEF StrayAt

\* What was left behind stays so.
LEMMA LeftBehindStays ==
  ASSUME NEW r \in Requests, OnlyAt(r), ended[r] # "committed"
  PROVE  LeftBehind \subseteq LeftBehind'
<1> SUFFICES ASSUME NEW p \in LeftBehind PROVE p \in LeftBehind'
  BY Zenon
<1>1. PICK t \in Requests : ended[t] = "committed" /\ p \in Revokes(op[t]) \ Covers(op[t])
  BY Zenon DEF LeftBehind
<1>2. SameAt(t)
  BY <1>1, Zenon DEF OnlyAt
<1>3. ended'[t] = "committed" /\ p \in Revokes(op'[t]) \ Covers(op'[t])
  BY <1>1, <1>2, Zenon DEF SameAt
<1> QED BY <1>3, Zenon DEF LeftBehind

\* A tuple keeps its row.
LEMMA StillBacked ==
  ASSUME NEW r \in Requests, OnlyAt(r), NEW p, Backed(p), ended[r] # "committed",
         p \in Grants(rows) => p \in Grants(rows') \cup LeftBehind',
         Settled(r) /\ p \in Grants(adds[r]) =>
           p \in Grants(rows') \/ (Settled(r)' /\ p \in Grants(adds'[r]))
  PROVE  Backed(p)'
<1>1. ASSUME NEW t \in Requests \ {r}, Settled(t), p \in Grants(adds[t])
      PROVE  Settled(t)' /\ p \in Grants(adds'[t])
  <2>1. SameAt(t)
    BY <1>1, Zenon DEF OnlyAt
  <2> QED BY <1>1, <2>1, ZenonT(30) DEF SameAt, Settled
<1>2. LeftBehind \subseteq LeftBehind'
  BY LeftBehindStays, Zenon
<1> QED BY <1>1, <1>2, ZenonT(30) DEF Backed

\* A step of r that takes care of its own part.
LEMMA StrayStep ==
  ASSUME StrayInv, NEW r \in Requests, OnlyAt(r), faulty => faulty', OwnGrants(r)',
         ~faulty' =>
           /\ StrayAt(r)'
           /\ \A p \in tuples' : Backed(p)'
           /\ \A t \in Requests \ {r} : tuples' \cap Grants(drops[t]) \subseteq tuples
  PROVE  StrayInv'
<1>1. ASSUME NEW t \in Requests PROVE OwnGrants(t)'
  <2>1. t # r => SameAt(t)
    BY Zenon DEF OnlyAt
  <2>2. OwnGrants(t)
    BY StrayParts, Zenon
  <2> QED BY <2>1, <2>2, Zenon DEF SameAt, OwnGrants
<1>2. ASSUME ~faulty', NEW t \in Requests PROVE StrayAt(t)'
  <2>1. StrayAt(t)
    BY <1>2, StrayParts, Zenon
  <2> QED BY <1>2, <2>1, OthersStray, Zenon
<1> QED BY <1>1, <1>2, StrayParts, Zenon

\* A step that leaves the tuples and the rows of the grants as they are.
LEMMA StrayStay ==
  ASSUME StrayInv, NEW r \in Requests, OnlyAt(r), faulty => faulty', OwnGrants(r)',
         pc[r] # "done", tuples' = tuples, Grants(rows') = Grants(rows),
         ~faulty' => /\ StrayAt(r)'
                     /\ Settled(r) => Settled(r)' /\ Grants(adds[r]) \subseteq Grants(adds'[r])
  PROVE  StrayInv'
<1>1. ASSUME ~faulty', NEW p \in tuples' PROVE Backed(p)'
  <2>1. Backed(p)
    BY <1>1, StrayParts, Zenon
  <2>2. ended[r] # "committed"
    BY <1>1, StrayParts, Zenon DEF StrayAt
  <2> QED BY <1>1, <2>1, <2>2, StillBacked, Zenon
<1> QED BY <1>1, StrayStep, Zenon

\* Without a fault no transaction is lost, and what is deleted stays deleted.
LEMMA NoFaultYet ==
  ASSUME StrayInv, ~faulty, NEW r \in Requests
  PROVE  /\ StrayAt(r) /\ ended[r] \notin {"expired", "lost"}
         /\ pc[r] # "done" => ended[r] # "committed"
<1>1. StrayAt(r)
  BY StrayParts, Zenon
<1> QED BY <1>1, Zenon DEF StrayAt

\* A request without an open transaction.
LEMMA NoGrantsOpen ==
  ASSUME NEW r \in Requests, TxInv(r), ~started[r]
  PROVE  NoOpenTx(r) /\ Grants(adds[r]) = {} /\ Grants(drops[r]) = {}
<1>1. NoOpenTx(r)
  BY Zenon DEF TxInv
<1> QED BY <1>1, NoRows, Zenon DEF NoOpenTx

\* The commands of the CLI have nothing to do with grants.
LEMMA CliGrants ==
  ASSUME TypeOK, TablesInv, NEW r \in Requests, r \in Cli, pc[r] # "idle"
  PROVE  /\ Revokes(op[r]) = {} /\ Grantees(op[r]) = {}
         /\ op[r].call \in UsersCommands \cup GroupsCommands
<1>1. op[r] \in Calls /\ op[r].cli
  BY AtWork, Zenon
<1>2. op[r].call \in UsersCommands \cup GroupsCommands
  BY <1>1, CallsExist, Zenon
<1>3. op[r].call \in GroupsCalls \ {"RemoveGroup"}
  BY <1>2, Zenon DEF UsersCommands, GroupsCommands, GroupsCalls
<1> QED BY <1>2, <1>3, NoPairs, Zenon

\* A statement outside a transaction.
LEMMA OwnStatementStray ==
  ASSUME Base, StrayInv, NEW r \in Requests, OnlyAt(r), NEW s, NEW next, Executes(r, s, next),
         s.error = "none", OnItsOwn(r, s, next)
  PROVE  StrayInv'
<1>1. /\ Exec(r, s, next) /\ pc[r] \in {"db", "upsert"} /\ Fits(r, next, 0)
      /\ Grants(s.drops) \subseteq Revokes(op[r]) /\ Grants(s.adds) \subseteq Grantees(op[r])
  BY Zenon DEF Executes
<1>2. TypeOK /\ TablesInv /\ TxInv(r)
  BY Zenon DEF Base, TablesInv
<1>3. ~started[r] /\ adds' = adds /\ drops' = drops /\ (faulty' <=> faulty \/ r \notin Cli)
  BY Zenon DEF OnItsOwn
<1>4. Grants(adds'[r]) = {} /\ Grants(drops'[r]) = {}
  BY <1>2, <1>3, NoGrantsOpen, Zenon
<1>5. pc'[r] = next /\ tuples' = tuples /\ ended' = ended
  BY <1>1, <1>2, ExecSucceeds, Zenon
<1>6. OwnGrants(r)'
  BY <1>4, Zenon DEF OwnGrants
<1>7. CASE r \notin Cli
  <2>1. faulty'
    BY <1>3, <1>7, Zenon
  <2> QED BY <1>6, <2>1, StrayStep, Zenon
<1>8. CASE r \in Cli
  <2>1. pc[r] # "idle"
    BY <1>1, Zenon
  <2>2. /\ Revokes(op[r]) = {} /\ Grantees(op[r]) = {}
        /\ op[r].call \in UsersCommands \cup GroupsCommands
    BY <1>2, <1>8, <2>1, CliGrants, ZenonT(30)
  <2>3. rows' = (rows \ s.drops) \cup s.adds /\ Grants(s.drops) = {} /\ Grants(s.adds) = {}
    BY <1>1, <2>2, ZenonT(30) DEF OnItsOwn
  <2>4. Grants(rows') = Grants(rows)
    <3>1. Grants((rows \ s.drops) \cup s.adds) = (Grants(rows) \ Grants(s.drops)) \cup Grants(s.adds)
      BY GrantsOfStatement, Zenon
    <3> QED BY <2>3, <3>1, Zenon
  <2>5. next # "write" /\ next # "deletePage"
    BY <1>1, <2>2, ZenonT(30) DEF Fits, UsersCommands, GroupsCommands
  <2>6. ASSUME ~faulty' PROVE StrayAt(r)'
    <3>1. ended[r] \notin {"expired", "lost"} /\ ended[r] # "committed"
      BY <1>1, <1>3, <2>6, NoFaultYet, ZenonT(30)
    <3> QED BY <1>4, <1>5, <2>5, <3>1, Zenon DEF StrayAt
  <2>7. ~Settled(r) /\ pc[r] # "done"
    BY <1>1, Zenon DEF Settled
  <2> QED BY <1>3, <1>5, <1>6, <2>4, <2>6, <2>7, StrayStay, Zenon
<1> QED BY <1>7, <1>8, Zenon

\* A statement in the transaction.
LEMMA TxStatementStray ==
  ASSUME Base, StrayInv, NEW r \in Requests, OnlyAt(r), NEW s, NEW next, Executes(r, s, next),
         s.error = "none", InTx(r, s)
  PROVE  StrayInv'
<1>1. /\ Exec(r, s, next) /\ pc[r] \in {"db", "upsert"} /\ Fits(r, next, 0)
      /\ Grants(s.drops) \subseteq Revokes(op[r]) /\ Grants(s.adds) \subseteq Grantees(op[r])
      /\ next = "write" => Grantees(op[r]) \subseteq Grants(s.adds)
  BY Zenon DEF Executes
<1>2. TypeOK
  BY Zenon DEF Base
<1>3. /\ adds'[r] = (adds[r] \ s.drops) \cup s.adds
      /\ drops'[r] = drops[r] \cup s.drops /\ rows' = rows
  BY <1>2, InTxEffect, Zenon
<1>4. /\ Grants(adds'[r]) = (Grants(adds[r]) \ Grants(s.drops)) \cup Grants(s.adds)
      /\ Grants(drops'[r]) = Grants(drops[r]) \cup Grants(s.drops)
  BY <1>2, InTxEffect, Zenon
<1>5. pc'[r] = next /\ tuples' = tuples /\ ended' = ended /\ op' = op
  BY <1>1, <1>2, ExecSucceeds, Zenon
<1>6. OwnGrants(r)
  BY StrayParts, Zenon
<1>7. OwnGrants(r)'
  BY <1>1, <1>4, <1>5, <1>6, Zenon DEF OwnGrants
<1>8. faulty' = faulty
  BY Zenon DEF InTx
<1>9. ASSUME ~faulty' PROVE StrayAt(r)'
  <2>1. ended[r] \notin {"expired", "lost"} /\ ended[r] # "committed"
    BY <1>1, <1>8, <1>9, NoFaultYet, ZenonT(30)
  <2>2. Settled(r)' => Revokes(op[r]) = {}
    BY <1>1, <1>5, SettledByStatement, Zenon
  <2>3. next # "deletePage"
    BY <1>1, Zenon DEF Fits
  <2>4. Settled(r)' => tuples' \cap Grants(drops'[r]) = {}
    BY <1>5, <1>7, <2>2, Zenon DEF OwnGrants
  <2>5. pc'[r] = "write" => Grantees(op'[r]) \subseteq Grants(adds'[r])
    BY <1>1, <1>4, <1>5, ZenonT(30)
  <2> QED BY <1>5, <2>1, <2>3, <2>4, <2>5, Zenon DEF StrayAt
<1>10. ~Settled(r) /\ Grants(rows') = Grants(rows) /\ pc[r] # "done"
  BY <1>1, <1>3, Zenon DEF Settled
<1> QED BY <1>5, <1>7, <1>8, <1>9, <1>10, StrayStay, Zenon

\* A request arrives.
LEMMA ArriveStray ==
  ASSUME Base, StrayInv, NEW r \in Requests, OnlyAt(r), Arrive(r)
  PROVE  StrayInv'
<1>1. TypeOK /\ TxInv(r)
  BY Zenon DEF Base, TablesInv
<1>2. /\ pc[r] = "idle" /\ UNCHANGED <<rows, tuples, adds, drops, ended, faulty, started>>
      /\ \E refused, noop : pc' = [pc EXCEPT ![r] = IF refused \/ noop THEN "reply" ELSE "db"]
  BY Zenon DEF Arrive, dbVars, fgaVars
<1>3. pc'[r] \in {"reply", "db"}
  BY <1>1, <1>2 DEF TypeOK
<1>4. ~started[r]
  BY <1>1, <1>2, ZenonT(30) DEF TxInv
<1>5. Grants(adds'[r]) = {} /\ Grants(drops'[r]) = {}
  BY <1>1, <1>2, <1>4, NoGrantsOpen, Zenon
<1>6. OwnGrants(r)'
  BY <1>5, Zenon DEF OwnGrants
<1>7. ASSUME ~faulty' PROVE StrayAt(r)'
  <2>1. ended[r] \notin {"expired", "lost"} /\ ended[r] # "committed"
    BY <1>2, <1>7, NoFaultYet, ZenonT(30)
  <2> QED BY <1>2, <1>3, <1>5, <2>1, Zenon DEF StrayAt
<1>8. ~Settled(r) /\ Grants(rows') = Grants(rows) /\ tuples' = tuples /\ pc[r] # "done"
  BY <1>2, Zenon DEF Settled
<1>9. faulty' = faulty
  BY <1>2, Zenon
<1> QED BY <1>6, <1>7, <1>8, <1>9, StrayStay, Zenon

\* A statement in vain.
LEMMA VainStray ==
  ASSUME StrayInv, NEW r \in Requests, OnlyAt(r), faulty => faulty', ~Settled(r),
         pc[r] # "done",
         UNCHANGED <<tuples, rows, op, adds, drops, ended>>,
         pc'[r] = "reply", status'[r] \in {400, 404, 409, 500}
  PROVE  StrayInv'
<1>1. OwnGrants(r)
  BY StrayParts, ZenonT(30)
<1>2. OwnGrants(r)'
  BY <1>1, ZenonT(30) DEF OwnGrants
<1>3. ~Settled(r)'
  BY SettledNext
<1>4. ASSUME ~faulty' PROVE StrayAt(r)'
  <2>1. ~faulty
    BY <1>4, Zenon
  <2>2. ended[r] \notin {"expired", "lost"} /\ ended[r] # "committed"
    BY <2>1, NoFaultYet, Zenon
  <2> QED BY <1>3, <2>2, Zenon DEF StrayAt
<1>5. Grants(rows') = Grants(rows) /\ tuples' = tuples
  BY ZenonT(30)
<1>6. ~faulty' => /\ StrayAt(r)'
                  /\ Settled(r) => Settled(r)' /\ Grants(adds[r]) \subseteq Grants(adds'[r])
  BY <1>4, Zenon
<1> QED BY <1>2, <1>5, <1>6, StrayStay, Zenon

\* A step on the tables keeps the invariant of the stray tuples.
LEMMA DbStray ==
  ASSUME Base, StrayInv, NEW r \in Requests, OnlyAt(r), DbStep(r)
  PROVE  StrayInv'
<1>1. TypeOK /\ TablesInv
  BY Zenon DEF Base
<1>2. ASSUME NEW s, NEW next, Executes(r, s, next) PROVE StrayInv'
  <2>1. Exec(r, s, next) /\ pc[r] \in {"db", "upsert"}
    BY <1>2, Zenon DEF Executes
  <2>2. CASE InVain(r, s)
    <3>1. UNCHANGED <<rows, adds, drops>> /\ s.error # "none" /\ (faulty => faulty')
      BY <2>2, Zenon DEF InVain
    <3>2. UNCHANGED <<op, ended, tuples>> /\ pc'[r] = "reply" /\ status'[r] \in {400, 404, 409, 500}
      BY <1>1, <2>1, <3>1, ExecPlace
    <3>3. ~Settled(r) /\ pc[r] # "done"
      BY <2>1, Zenon DEF Settled
    <3>4. UNCHANGED <<tuples, rows, op, adds, drops, ended>>
      BY <3>1, <3>2, ZenonT(30)
    <3> QED BY <3>1, <3>2, <3>3, <3>4, VainStray, ZenonT(30)
  <2>3. CASE s.error = "none" /\ InTx(r, s)
    BY <1>2, <2>3, TxStatementStray, Zenon
  <2>4. CASE s.error = "none" /\ OnItsOwn(r, s, next)
    BY <1>2, <2>4, OwnStatementStray, Zenon
  <2> QED BY <1>1, <2>1, <2>2, <2>3, <2>4, ExecCases, Zenon
<1>3. CASE StatementFails(r)
  <2>1. Failed(r)
    BY <1>1, <1>3, FailPlace, ZenonT(30)
  <2>2. /\ UNCHANGED <<tuples, rows, op, adds, drops, ended>> /\ ~Settled(r) /\ pc[r] # "done"
        /\ pc'[r] = "reply" /\ status'[r] \in {400, 404, 409, 500}
    BY <2>1, ZenonT(30) DEF Failed, Settled
  <2>3. faulty' = faulty
    BY <1>3, Zenon DEF StatementFails
  <2> QED BY <2>2, <2>3, VainStray, Zenon
<1>4. CASE TxExpires(r)
  <2>1. faulty'
    BY <1>4, ZenonT(30) DEF TxExpires
  <2>2. adds'[r] = {} /\ drops'[r] = {}
    BY <1>1, <1>4, ExpirePlace, Zenon DEF Expired
  <2>3. OwnGrants(r)'
    BY <2>2, NoRows, Zenon DEF OwnGrants
  <2> QED BY <2>1, <2>3, StrayStep, Zenon
<1> QED BY <1>1, <1>2, <1>3, <1>4, DbStepExecutes, Zenon

\* The calls to OpenFGA. A tuple is written for a row that is in the
\* transaction, and no other transaction has taken that row out.
LEMMA WriteStray ==
  ASSUME Base, StrayInv, NEW r \in Requests, OnlyAt(r), StillTables(r), FgaWrites(r)
  PROVE  StrayInv'
<1>1. TypeOK /\ LocksInv
  BY Zenon DEF Base, TablesInv
<1>2. UNCHANGED <<rows, adds, drops, ended, op>>
  BY Zenon DEF StillTables
<1>3. /\ pc[r] = "write" /\ pc'[r] = "reply" /\ status'[r] = 0
      /\ Revokes(op[r]) = {} /\ tuples' = tuples \cup Grantees(op[r])
  BY Zenon DEF FgaWrites, FgaQuiet
<1>4. faulty' = faulty
  BY Zenon DEF FgaWrites, FgaQuiet
<1>5. OwnGrants(r)
  BY StrayParts, ZenonT(30)
<1>6. OwnGrants(r)' /\ Grants(drops'[r]) = {}
  BY <1>2, <1>3, <1>5, Zenon DEF OwnGrants
<1>7. ASSUME ~faulty
      PROVE  /\ StrayAt(r)'
             /\ \A p \in tuples' : Backed(p)'
             /\ \A t \in Requests \ {r} : tuples' \cap Grants(drops[t]) \subseteq tuples
  <2>1. StrayAt(r) /\ ended[r] \notin {"expired", "lost"} /\ ended[r] # "committed"
    BY <1>3, <1>7, NoFaultYet, ZenonT(30)
  <2>2. Grantees(op[r]) \subseteq Grants(adds[r])
    BY <1>3, <2>1, ZenonT(30) DEF StrayAt
  <2>3. StrayAt(r)'
    BY <1>2, <1>3, <1>6, <2>1, ZenonT(30) DEF StrayAt
  <2>4. Settled(r)'
    BY <1>3, SettledNext
  <2>5. ASSUME NEW p \in tuples' PROVE Backed(p)'
    <3>1. CASE p \in Grantees(op[r])
      <4>1. p \in Grants(adds'[r])
        BY <1>2, <2>2, <3>1, Zenon
      <4> QED BY <2>4, <4>1, Zenon DEF Backed
    <3>2. CASE p \in tuples
      <4>1. Backed(p)
        BY <1>7, <3>2, StrayParts, ZenonT(30)
      <4>2. Grants(rows') = Grants(rows) /\ ~Settled(r)
        BY <1>2, <1>3, Zenon DEF Settled
      <4> QED BY <2>1, <4>1, <4>2, StillBacked, Zenon
    <3> QED BY <1>3, <2>5, <3>1, <3>2, Zenon
  <2>6. ASSUME NEW t \in Requests \ {r} PROVE tuples' \cap Grants(drops[t]) \subseteq tuples
    <3>1. Apart(adds[r], drops[r], adds[t], drops[t])
      BY <1>1, TwoRequests, ZenonT(30)
    <3>2. adds[r] \cap drops[t] = {}
      BY <3>1, Zenon DEF Apart
    <3>3. Grants(adds[r]) \cap Grants(drops[t]) = {}
      BY <3>2, GrantsApart, Zenon
    <3> QED BY <1>3, <2>2, <3>3, Zenon
  <2> QED BY <2>3, <2>5, <2>6, Zenon
<1> QED BY <1>4, <1>6, <1>7, StrayStep, Zenon

\* A page of tuples is deleted. After the last one none is left of the grants
\* that the transaction takes out.
LEMMA DeleteStray ==
  ASSUME StrayInv, NEW r \in Requests, OnlyAt(r), StillTables(r), NEW D, FgaDeletes(r, D)
  PROVE  StrayInv'
<1>2. UNCHANGED <<rows, adds, drops, ended, op>>
  BY Zenon DEF StillTables
<1>3. /\ pc[r] \in {"delete", "deletePage"} /\ pc'[r] \in {"read", "reply"} /\ tuples' = tuples \ D
  BY Zenon DEF FgaDeletes, FgaQuiet
<1>4. faulty' = faulty
  BY Zenon DEF FgaDeletes, FgaQuiet
<1>5. OwnGrants(r)
  BY StrayParts, ZenonT(30)
<1>6. OwnGrants(r)'
  BY <1>2, <1>5, Zenon DEF OwnGrants
<1>7. ASSUME ~faulty
      PROVE  /\ StrayAt(r)'
             /\ \A p \in tuples' : Backed(p)'
             /\ \A t \in Requests \ {r} : tuples' \cap Grants(drops[t]) \subseteq tuples
  <2>1. StrayAt(r) /\ ended[r] \notin {"expired", "lost"} /\ ended[r] # "committed"
    BY <1>3, <1>7, NoFaultYet, ZenonT(30)
  <2>2. Settled(r)' => tuples' \cap Grants(drops'[r]) \cap Covers(op'[r]) = {}
    <3>1. Settled(r)' => pc'[r] = "reply"
      BY <1>3, Zenon DEF Settled
    <3>2. CASE Covers(op[r]) \subseteq D
      BY <1>2, <1>3, <3>2, ZenonT(30)
    <3>3. CASE pc[r] = "deletePage" /\ ~more[r] /\ D = page[r]
      <4>1. tuples \cap Grants(drops[r]) \cap Covers(op[r]) \subseteq D
        BY <2>1, <3>3, ZenonT(30) DEF StrayAt
      <4> QED BY <1>2, <1>3, <4>1, Zenon
    <3> QED BY <3>1, <3>2, <3>3, Zenon DEF FgaDeletes
  <2>3. StrayAt(r)'
    BY <1>2, <1>3, <2>1, <2>2, Zenon DEF StrayAt
  <2>4. ASSUME NEW p \in tuples' PROVE Backed(p)'
    <3>1. p \in tuples /\ Grants(rows') = Grants(rows) /\ ~Settled(r)
      BY <1>2, <1>3, <2>4, Zenon DEF Settled
    <3>2. Backed(p)
      BY <1>7, <3>1, StrayParts, ZenonT(30)
    <3> QED BY <2>1, <3>1, <3>2, StillBacked, ZenonT(30)
  <2>5. \A t \in Requests \ {r} : tuples' \cap Grants(drops[t]) \subseteq tuples
    BY <1>3, Zenon
  <2> QED BY <2>3, <2>4, <2>5, Zenon
<1> QED BY <1>4, <1>6, <1>7, StrayStep, ZenonT(30)

\* A step on the tuples keeps it.
LEMMA FgaStray ==
  ASSUME Base, StrayInv, NEW r \in Requests, OnlyAt(r), FgaStep(r)
  PROVE  StrayInv'
<1>1. TypeOK /\ GrantInv
  BY Zenon DEF Base
<1>2. StillTables(r)
  BY <1>1, FgaStill, Zenon
<1>3. UNCHANGED <<rows, adds, drops, ended, op>>
  BY <1>2, Zenon DEF StillTables
<1>4. OwnGrants(r)
  BY StrayParts, ZenonT(30)
<1>5. OwnGrants(r)' /\ Grants(rows') = Grants(rows)
  BY <1>3, <1>4, Zenon DEF OwnGrants
<1>6. CASE FgaFails(r)
  <2>1. /\ ~Settled(r) /\ pc'[r] = "reply" /\ status'[r] \in {400, 404, 409, 500}
        /\ pc[r] # "done"
    BY <1>6 DEF FgaFails, Settled
  <2>2. CASE faulty'
    BY <1>5, <2>2, StrayStep, Zenon
  <2>3. CASE UNCHANGED <<tuples, faulty>>
    <3>1. UNCHANGED <<tuples, rows, op, adds, drops, ended>>
      BY <1>3, <2>3, Zenon
    <3>2. faulty' = faulty
      BY <2>3, Zenon
    <3> QED BY <2>1, <3>1, <3>2, VainStray, Zenon
  <2> QED BY <1>6, <2>2, <2>3, ZenonT(30) DEF FgaFails
<1>7. CASE FgaReads(r)
  <2>1. /\ tuples' = tuples /\ ~Settled(r) /\ pc'[r] \in {"reply", "deletePage"}
        /\ pc[r] # "done"
    BY <1>7, Zenon DEF FgaReads, Settled
  <2>2. faulty' = faulty
    BY <1>7, Zenon DEF FgaReads, FgaQuiet
  <2>3. ASSUME ~faulty PROVE StrayAt(r)'
    <3>1. ended[r] \notin {"expired", "lost"} /\ ended[r] # "committed"
      BY <2>1, <2>3, NoFaultYet, ZenonT(30)
    <3>2. CASE pc'[r] = "reply" /\ Covers(op[r]) \cap tuples = {}
      BY <1>3, <2>1, <3>1, <3>2, Zenon DEF StrayAt
    <3>3. CASE pc'[r] = "deletePage" /\ (~more'[r] => page'[r] = Covers(op[r]) \cap tuples)
      <4>1. /\ ~Settled(r)' /\ pc'[r] # "write"
            /\ ended'[r] \notin {"expired", "lost"} /\ ended'[r] # "committed"
        BY <1>3, <3>1, <3>3, ZenonT(30) DEF Settled
      <4>2. ~more'[r] => tuples' \cap Grants(drops'[r]) \cap Covers(op'[r]) \subseteq page'[r]
        BY <1>3, <2>1, <3>3, Zenon
      <4> QED BY <4>1, <4>2, ZenonT(30) DEF StrayAt
    <3> QED BY <1>7, <3>2, <3>3, Zenon DEF FgaReads
  <2> QED BY <1>5, <2>1, <2>2, <2>3, StrayStay, ZenonT(30)
<1> QED BY <1>1, <1>2, <1>6, <1>7, FgaCases, WriteStray, DeleteStray, Zenon

\* The response is written.
LEMMA ReplyStray ==
  ASSUME Base, StrayInv, NEW r \in Requests, OnlyAt(r), Reply(r)
  PROVE  StrayInv'
<1>1. TypeOK /\ GrantInv
  BY Zenon DEF Base
<1>2. UNCHANGED <<rows, adds, drops, ended, op>>
  BY <1>1, FgaStill, Zenon DEF StillTables
<1>3. tuples' = tuples /\ faulty' = faulty
  BY Zenon DEF Reply
<1>4. pc[r] = "reply" /\ pc'[r] = "finish" /\ (Settled(r)' <=> Settled(r)) /\ pc[r] # "done"
  BY <1>1, ReplySettled, ZenonT(30)
<1>5. OwnGrants(r)
  BY StrayParts, Zenon
<1>6. OwnGrants(r)' /\ Grants(rows') = Grants(rows)
  BY <1>2, <1>5, Zenon DEF OwnGrants
<1>7. ASSUME ~faulty PROVE StrayAt(r)'
  <2>1. StrayAt(r)
    BY <1>7, NoFaultYet, Zenon
  <2> QED BY <1>2, <1>3, <1>4, <2>1, Zenon DEF StrayAt
<1>8. Grants(adds[r]) \subseteq Grants(adds'[r])
  BY <1>2, Zenon
<1> QED BY <1>3, <1>4, <1>6, <1>7, <1>8, StrayStay, ZenonT(30)

\* The transaction ends: with a commit its rows are in the tables, and without
\* one there is no tuple that rests on them.
LEMMA EndStray ==
  ASSUME Base, StrayInv, NEW r \in Requests, OnlyAt(r), EndStep(r)
  PROVE  StrayInv'
<1>1. TypeOK /\ TxInv(r)
  BY Zenon DEF Base, TablesInv
<1>2. /\ pc[r] = "finish" /\ pc'[r] = "done" /\ adds'[r] = {} /\ drops'[r] = {}
      /\ tuples' = tuples
  BY <1>1, EndPlace, ZenonT(30)
<1>3. Grants(adds'[r]) = {} /\ Grants(drops'[r]) = {}
  BY <1>2, NoRows, Zenon
<1>4. OwnGrants(r)' /\ \A t \in Requests \ {r} : tuples' \cap Grants(drops[t]) \subseteq tuples
  BY <1>2, <1>3, Zenon DEF OwnGrants
<1>5. StrayAt(r)' <=> ended'[r] \notin {"expired", "lost"}
  BY <1>2, <1>3, Zenon DEF StrayAt
<1>6. CASE Commit(r)
  <2>1. /\ status[r] < 400 /\ rows' = (rows \ drops[r]) \cup adds[r]
        /\ ended'[r] = "committed" /\ op' = op
    BY <1>1, <1>6 DEF Commit, EndTx, View, TypeOK
  <2>2. Grants((rows \ drops[r]) \cup adds[r]) = (Grants(rows) \ Grants(drops[r])) \cup Grants(adds[r])
    BY GrantsOfView, Zenon
  <2>3. Settled(r) /\ StrayAt(r)'
    BY <1>2, <1>5, <2>1, Zenon DEF Settled
  <2>4. ASSUME ~faulty, NEW p \in tuples' PROVE Backed(p)'
    <3>1. tuples \cap Grants(drops[r]) \cap Covers(op[r]) = {} /\ ended[r] # "committed"
      BY <1>2, <2>3, <2>4, NoFaultYet, ZenonT(30) DEF StrayAt
    <3>2. p \in Grants(drops[r]) => p \in LeftBehind'
      <4>1. OwnGrants(r) /\ p \in tuples
        BY <1>2, <2>4, StrayParts, Zenon
      <4>2. p \in Grants(drops[r]) => p \in Revokes(op[r]) \ Covers(op[r])
        BY <3>1, <4>1, Zenon DEF OwnGrants
      <4> QED BY <2>1, <4>2, Zenon DEF LeftBehind
    <3>3. p \in tuples
      BY <1>2, <2>4, Zenon
    <3>4. Backed(p)
      BY <2>4, <3>3, StrayParts, Zenon
    <3>5. /\ p \in Grants(rows) => p \in Grants(rows') \cup LeftBehind'
          /\ p \in Grants(adds[r]) => p \in Grants(rows')
      BY <2>1, <2>2, <3>2, Zenon
    <3> QED BY <3>1, <3>4, <3>5, StillBacked, ZenonT(30)
  <2>5. faulty' = faulty
    BY <1>6, Zenon DEF Commit
  <2> QED BY <1>4, <2>3, <2>4, <2>5, StrayStep, ZenonT(30)
<1>7. CASE CommitFails(r)
  <2>1. faulty' \/ (ended[r] = "expired" /\ (faulty => faulty'))
    BY <1>7, Zenon DEF CommitFails
  <2>2. faulty \/ ended[r] # "expired"
    BY NoFaultYet, Zenon
  <2>3. faulty'
    BY <2>1, <2>2, Zenon
  <2> QED BY <1>4, <2>3, StrayStep, Zenon
<1>8. CASE Rollback(r) \/ NoTx(r)
  <2>1. ended'[r] \in {"rolledback", "unused"} /\ rows' = rows
    BY <1>1, <1>8 DEF Rollback, NoTx, EndTx, TypeOK
  <2>2. faulty' = faulty
    BY <1>8, Zenon DEF Rollback, NoTx
  <2>3. ~Settled(r) \/ Grants(adds[r]) = {}
    <3>1. CASE Rollback(r)
      BY <1>1, <3>1, RollbackUnsettled, Zenon
    <3>2. CASE NoTx(r)
      <4>1. ~started[r]
        BY <3>2, Zenon DEF NoTx
      <4> QED BY <1>1, <4>1, NoGrantsOpen, Zenon
    <3> QED BY <1>8, <3>1, <3>2, Zenon
  <2>4. StrayAt(r)' /\ Grants(rows') = Grants(rows)
    BY <1>5, <2>1, Zenon
  <2>5. ASSUME ~faulty, NEW p \in tuples' PROVE Backed(p)'
    <3>1. p \in tuples
      BY <1>2, <2>5, Zenon
    <3>2. Backed(p)
      BY <2>5, <3>1, StrayParts, Zenon
    <3>3. ~(Settled(r) /\ p \in Grants(adds[r])) /\ ended[r] # "committed"
      BY <1>2, <2>3, <2>5, NoFaultYet, Zenon
    <3> QED BY <2>4, <3>2, <3>3, StillBacked, Zenon
  <2> QED BY <1>4, <2>2, <2>4, <2>5, StrayStep, ZenonT(30)
<1> QED BY <1>6, <1>7, <1>8, ZenonT(30) DEF EndStep

\* StrayInv is kept by every step of a request.
LEMMA StepStrayInv ==
  ASSUME Base, StrayInv, NEW r \in Requests, OnlyAt(r),
         Arrive(r) \/ DbStep(r) \/ FgaStep(r) \/ Reply(r) \/ EndStep(r)
  PROVE  StrayInv'
BY ArriveStray, DbStray, FgaStray, ReplyStray, EndStray, Zenon

-----------------------------------------------------------------------------
(***************************************************************************)
(* CalmInv: the rows without a tuple.                                       *)
(***************************************************************************)

\* What CalmInv says of one request.
CalmAt(r) ==
  /\ Settled(r) => Grants(adds[r]) \subseteq tuples
  /\ pc[r] \in {"reply", "finish"} /\ ~Settled(r) => NoOpenTx(r)
  /\ pc[r] \in {"delete", "read", "deletePage"} =>
       Grants(rows) \cap Revokes(op[r]) \subseteq Grants(drops[r])

\* No other request is in flight.
Alone(r) == \A t \in Requests \ {r} : pc[t] \in {"idle", "done"}

\* While r is the only request, the rows without a tuple are the ones that it
\* takes out.
LEMMA AloneRows ==
  ASSUME Base, CalmInv, calm, NEW r \in Requests, Alone(r)
  PROVE  ~faulty /\ CalmAt(r) /\ Grants(rows) \ tuples \subseteq Grants(drops[r])
<1>1. ASSUME NEW t \in Requests \ {r} PROVE Grants(drops[t]) = {}
  <2>1. TxInv(t) /\ pc[t] \in {"idle", "done"}
    BY <1>1, Zenon DEF Base, TablesInv, Alone
  <2>2. ~started[t]
    BY <2>1, Zenon DEF TxInv
  <2> QED BY <2>1, <2>2, NoGrantsOpen, Zenon
<1>2. /\ ~faulty /\ CalmAt(r)
      /\ \A p \in Grants(rows) \ tuples : \E t \in Requests : p \in Grants(drops[t])
  BY Zenon DEF CalmInv, CalmAt
<1>3. Grants(rows) \ tuples \subseteq Grants(drops[r])
  BY <1>1, <1>2, Zenon
<1> QED BY <1>2, <1>3, ZenonT(30)

\* A request in flight is alone.
LEMMA InFlightAlone ==
  ASSUME CalmInv, calm, NEW r \in Requests, pc[r] \notin {"idle", "done"}
  PROVE  Alone(r)
<1>1. \A t, i \in InFlight : t = i
  BY Zenon DEF CalmInv
<1> QED BY <1>1, Zenon DEF Alone, InFlight

\* A step of r that takes care of its own part.
LEMMA CalmStep ==
  ASSUME NEW r \in Requests, OnlyAt(r),
         calm' => /\ ~faulty' /\ Alone(r) /\ CalmAt(r)'
                  /\ Grants(rows') \ tuples' \subseteq Grants(drops'[r])
  PROVE  CalmInv'
<1> SUFFICES ASSUME calm'
             PROVE  /\ ~faulty'
                    /\ \A t, i \in InFlight' : t = i
                    /\ \A p \in Grants(rows') \ tuples' : \E t \in Requests : p \in Grants(drops'[t])
                    /\ \A t \in Requests : CalmAt(t)'
  BY Zenon DEF CalmInv, CalmAt
<1>1. \A t \in Requests \ {r} : pc'[t] \in {"idle", "done"}
  BY Zenon DEF OnlyAt, SameAt, Alone
<1>2. \A t, i \in InFlight' : t = i
  BY <1>1, Zenon DEF InFlight
<1>3. \A t \in Requests \ {r} : CalmAt(t)'
  BY <1>1, Zenon DEF CalmAt, Settled
<1>4. \A p \in Grants(rows') \ tuples' : \E t \in Requests : p \in Grants(drops'[t])
  BY Zenon
<1> QED BY <1>2, <1>3, <1>4, Zenon

\* A request arrives.
LEMMA ArriveCalm ==
  ASSUME Base, CalmInv, NEW r \in Requests, OnlyAt(r), Arrive(r)
  PROVE  CalmInv'
<1> SUFFICES ASSUME calm'
             PROVE  /\ ~faulty' /\ Alone(r) /\ CalmAt(r)'
                    /\ Grants(rows') \ tuples' \subseteq Grants(drops'[r])
  BY CalmStep, Zenon
<1>1. TypeOK /\ TxInv(r)
  BY Zenon DEF Base, TablesInv
<1>2. /\ pc[r] = "idle" /\ UNCHANGED <<rows, tuples, adds, drops, started>>
      /\ \E refused, noop : pc' = [pc EXCEPT ![r] = IF refused \/ noop THEN "reply" ELSE "db"]
  BY Zenon DEF Arrive, dbVars, fgaVars
<1>3. calm /\ InFlight = {} /\ faulty' = faulty
  BY Zenon DEF Arrive
<1>4. Alone(r)
  BY <1>3, Zenon DEF Alone, InFlight
<1>5. ~faulty /\ Grants(rows) \ tuples \subseteq Grants(drops[r])
  BY <1>3, <1>4, AloneRows, Zenon
<1>6. ~started[r]
  BY <1>1, <1>2, ZenonT(30) DEF TxInv
<1>7. NoOpenTx(r) /\ Grants(adds[r]) = {}
  BY <1>1, <1>6, NoGrantsOpen, ZenonT(30)
<1>8. pc'[r] \in {"reply", "db"}
  BY <1>1, <1>2 DEF TypeOK
<1>9. CalmAt(r)'
  BY <1>2, <1>7, <1>8, Zenon DEF CalmAt, NoOpenTx
<1>10. Grants(rows') \ tuples' \subseteq Grants(drops'[r])
  BY <1>2, <1>5, Zenon
<1>11. ~faulty'
  BY <1>3, <1>5, Zenon
<1> QED BY <1>4, <1>9, <1>10, <1>11, Zenon

\* A statement: it takes out the rows whose tuples are deleted after it.
LEMMA ExecCalm ==
  ASSUME Base, StrayInv, CalmInv, NEW r \in Requests, OnlyAt(r), NEW s, NEW next,
         Executes(r, s, next)
  PROVE  CalmInv'
<1> SUFFICES ASSUME calm'
             PROVE  /\ ~faulty' /\ Alone(r) /\ CalmAt(r)'
                    /\ Grants(rows') \ tuples' \subseteq Grants(drops'[r])
  BY CalmStep, Zenon
<1>1. TypeOK /\ TablesInv /\ TxInv(r)
  BY Zenon DEF Base, TablesInv
<1>2. Exec(r, s, next) /\ pc[r] \in {"db", "upsert"} /\ Fits(r, next, 0)
  BY Zenon DEF Executes
<1>3. calm /\ s.error = "none" /\ faulty' = faulty
  BY <1>2, Zenon DEF Exec
<1>4. /\ Grants(s.drops) \subseteq Revokes(op[r]) /\ Grants(s.adds) \subseteq Grantees(op[r])
      /\ next \in {"delete", "read"} =>
           Grants(View(r)) \cap Revokes(op[r]) \subseteq Grants(s.drops)
  BY <1>3, Zenon DEF Executes
<1>5. pc[r] \notin {"idle", "done"} /\ pc[r] # "idle"
  BY <1>2, Zenon
<1>6. Alone(r)
  BY <1>3, <1>5, InFlightAlone, Zenon
<1>7. ~faulty /\ Grants(rows) \ tuples \subseteq Grants(drops[r])
  BY <1>3, <1>6, AloneRows, Zenon
<1>8. ~faulty'
  BY <1>3, <1>7, ZenonT(30)
<1>9. pc'[r] = next /\ status'[r] = 0 /\ op' = op /\ tuples' = tuples
  BY <1>1, <1>2, <1>3, ExecSucceeds, Zenon
<1>10. OwnGrants(r)
  BY StrayParts, Zenon
<1>11. CASE InTx(r, s)
  <2>1. /\ adds'[r] = (adds[r] \ s.drops) \cup s.adds
        /\ drops'[r] = drops[r] \cup s.drops /\ rows' = rows
    BY <1>1, <1>11, InTxEffect, Zenon
  <2>2. Grants(adds'[r]) = (Grants(adds[r]) \ Grants(s.drops)) \cup Grants(s.adds)
    BY <1>1, <1>11, InTxEffect, Zenon
  <2>3. Grants(drops'[r]) = Grants(drops[r]) \cup Grants(s.drops)
    BY <1>1, <1>11, InTxEffect, Zenon
  <2>4. Grants(rows') \ tuples' \subseteq Grants(drops'[r])
    BY <1>7, <1>9, <2>1, <2>3, ZenonT(30)
  <2>5. Settled(r)' => Grants(adds'[r]) \subseteq tuples'
    <3>1. Settled(r)' => Grantees(op[r]) = {}
      BY <1>2, <1>9, SettledByStatement, Zenon
    <3> QED BY <1>4, <1>10, <2>2, <3>1, ZenonT(30) DEF OwnGrants
  <2>6. pc'[r] \in {"reply", "finish"} => Settled(r)'
    BY <1>9, SettledNext
  <2>7. ASSUME pc'[r] \in {"delete", "read", "deletePage"}
        PROVE  Grants(rows') \cap Revokes(op'[r]) \subseteq Grants(drops'[r])
    <3>1. next \in {"delete", "read"}
      BY <1>2, <1>9, <2>7, Zenon DEF Fits
    <3>2. Grants(View(r)) = (Grants(rows) \ Grants(drops[r])) \cup Grants(adds[r])
      BY GrantsOfView, Zenon
    <3> QED BY <1>4, <1>9, <2>1, <2>3, <3>1, <3>2, Zenon
  <2>8. CalmAt(r)'
    BY <2>5, <2>6, <2>7, Zenon DEF CalmAt
  <2> QED BY <1>6, <1>8, <2>4, <2>8, ZenonT(30)
<1>12. CASE OnItsOwn(r, s, next)
  <2>1. ~started[r] /\ adds' = adds /\ drops' = drops /\ (faulty' <=> faulty \/ r \notin Cli)
    BY <1>12, Zenon DEF OnItsOwn
  <2>2. r \in Cli
    BY <1>8, <2>1, Zenon
  <2>3. /\ Revokes(op[r]) = {} /\ Grantees(op[r]) = {}
    BY <1>1, <1>5, <2>2, CliGrants, ZenonT(30)
  <2>4. rows' = (rows \ s.drops) \cup s.adds /\ Grants(s.drops) = {} /\ Grants(s.adds) = {}
    BY <1>4, <1>12, <2>3, ZenonT(30) DEF OnItsOwn
  <2>5. Grants((rows \ s.drops) \cup s.adds) = (Grants(rows) \ Grants(s.drops)) \cup Grants(s.adds)
    BY GrantsOfStatement, Zenon
  <2>6. Grants(rows') = Grants(rows)
    BY <2>4, <2>5, Zenon
  <2>7. NoOpenTx(r) /\ Grants(adds[r]) = {}
    BY <1>1, <2>1, NoGrantsOpen, Zenon
  <2>8. CalmAt(r)'
    BY <1>9, <2>1, <2>3, <2>7, ZenonT(30) DEF CalmAt, NoOpenTx
  <2>9. Grants(rows') \ tuples' \subseteq Grants(drops'[r])
    BY <1>7, <1>9, <2>1, <2>6, Zenon
  <2> QED BY <1>6, <1>8, <2>8, <2>9, Zenon
<1>13. ~InVain(r, s)
  BY <1>3, Zenon DEF InVain
<1> QED BY <1>1, <1>2, <1>11, <1>12, <1>13, ExecCases, Zenon

\* The calls to OpenFGA: a tuple that is deleted is one of a row that is taken
\* out, and the tuple of a row that is added is there when it is committed.
LEMMA FgaCalm ==
  ASSUME Base, StrayInv, CalmInv, NEW r \in Requests, OnlyAt(r), FgaStep(r)
  PROVE  CalmInv'
<1> SUFFICES ASSUME calm'
             PROVE  /\ ~faulty' /\ Alone(r) /\ CalmAt(r)'
                    /\ Grants(rows') \ tuples' \subseteq Grants(drops'[r])
  BY CalmStep, Zenon
<1>1. TypeOK /\ GrantInv
  BY Zenon DEF Base
<1>2. /\ UNCHANGED <<rows, adds, drops, op>> /\ pc[r] \notin {"idle", "done"}
      /\ pc'[r] \in {"reply", "read", "deletePage", "finish"}
  BY <1>1, FgaStill, Zenon DEF StillTables
<1>3. FgaWrites(r) \/ (\E D : FgaDeletes(r, D)) \/ FgaReads(r)
  <2>1. ~FgaFails(r)
    BY Zenon DEF FgaFails
  <2> QED BY <1>1, <2>1, FgaCases, Zenon
<1>4. FgaQuiet(r)
  BY <1>3, Zenon DEF FgaWrites, FgaDeletes, FgaReads
<1>5. calm /\ faulty' = faulty /\ status'[r] = 0
  BY <1>4, Zenon DEF FgaQuiet
<1>6. Alone(r)
  BY <1>2, <1>5, InFlightAlone, Zenon
<1>7. ~faulty /\ CalmAt(r) /\ Grants(rows) \ tuples \subseteq Grants(drops[r])
  BY <1>5, <1>6, AloneRows, Zenon
<1>8. ~faulty'
  BY <1>5, <1>7, Zenon
<1>9. OwnGrants(r)
  BY StrayParts, Zenon
<1>10. pc'[r] \in {"reply", "finish"} => Settled(r)'
  BY <1>5, SettledNext
<1>11. CASE FgaWrites(r)
  <2>1. tuples' = tuples \cup Grantees(op[r]) /\ pc'[r] = "reply"
    BY <1>11, Zenon DEF FgaWrites
  <2>2. Grants(rows') \ tuples' \subseteq Grants(drops'[r])
    BY <1>2, <1>7, <2>1, Zenon
  <2>3. CalmAt(r)'
    BY <1>2, <1>9, <1>10, <2>1, Zenon DEF CalmAt, OwnGrants
  <2> QED BY <1>6, <1>8, <2>2, <2>3, Zenon
<1>12. CASE FgaReads(r)
  <2>1. tuples' = tuples /\ pc[r] = "read" /\ Grantees(op[r]) = {}
    BY <1>12, ZenonT(30) DEF FgaReads
  <2>2. Grants(rows') \ tuples' \subseteq Grants(drops'[r])
    BY <1>2, <1>7, <2>1, Zenon
  <2>3. Grants(rows) \cap Revokes(op[r]) \subseteq Grants(drops[r]) /\ Grants(adds[r]) = {}
    BY <1>7, <1>9, <2>1, ZenonT(30) DEF CalmAt, OwnGrants
  <2>4. CalmAt(r)'
    BY <1>2, <1>10, <2>3, Zenon DEF CalmAt
  <2> QED BY <1>6, <1>8, <2>2, <2>4, Zenon
<1>13. ASSUME NEW D, FgaDeletes(r, D)
       PROVE  CalmAt(r)' /\ Grants(rows') \ tuples' \subseteq Grants(drops'[r])
  <2>1. /\ tuples' = tuples \ D /\ pc[r] \in {"delete", "deletePage"}
        /\ Grantees(op[r]) = {} /\ D \subseteq Revokes(op[r])
    BY <1>13, ZenonT(30) DEF FgaDeletes
  <2>2. Grants(rows) \cap Revokes(op[r]) \subseteq Grants(drops[r]) /\ Grants(adds[r]) = {}
    BY <1>7, <1>9, <2>1, ZenonT(30) DEF CalmAt, OwnGrants
  <2>3. Grants(rows') \ tuples' \subseteq Grants(drops'[r])
    BY <1>2, <1>7, <2>1, <2>2, ZenonT(30)
  <2>4. CalmAt(r)'
    BY <1>2, <1>10, <2>2, Zenon DEF CalmAt
  <2> QED BY <2>3, <2>4, Zenon
<1> QED BY <1>3, <1>6, <1>8, <1>11, <1>12, <1>13, Zenon

\* The response is written.
LEMMA ReplyCalm ==
  ASSUME Base, CalmInv, NEW r \in Requests, OnlyAt(r), Reply(r)
  PROVE  CalmInv'
<1> SUFFICES ASSUME calm'
             PROVE  /\ ~faulty' /\ Alone(r) /\ CalmAt(r)'
                    /\ Grants(rows') \ tuples' \subseteq Grants(drops'[r])
  BY CalmStep, Zenon
<1>1. TypeOK /\ GrantInv
  BY Zenon DEF Base
<1>2. UNCHANGED <<rows, adds, drops, op>>
  BY <1>1, FgaStill, Zenon DEF StillTables
<1>3. pc[r] = "reply" /\ pc'[r] = "finish" /\ (Settled(r)' <=> Settled(r))
  BY <1>1, ReplySettled, Zenon
<1>4. calm /\ faulty' = faulty /\ tuples' = tuples
  BY Zenon DEF Reply
<1>5. pc[r] \notin {"idle", "done"}
  BY <1>3, Zenon
<1>6. Alone(r)
  BY <1>4, <1>5, InFlightAlone, Zenon
<1>7. ~faulty /\ CalmAt(r) /\ Grants(rows) \ tuples \subseteq Grants(drops[r])
  BY <1>4, <1>6, AloneRows, Zenon
<1>8. ~faulty'
  BY <1>4, <1>7, ZenonT(30)
<1>9. CalmAt(r)'
  BY <1>2, <1>3, <1>4, <1>7, Zenon DEF CalmAt, NoOpenTx
<1>10. Grants(rows') \ tuples' \subseteq Grants(drops'[r])
  BY <1>2, <1>4, <1>7, Zenon
<1> QED BY <1>6, <1>8, <1>9, <1>10, Zenon

\* The end of the transaction: a commit makes the rows those of the tuples.
LEMMA EndCalm ==
  ASSUME Base, CalmInv, NEW r \in Requests, OnlyAt(r), EndStep(r)
  PROVE  CalmInv'
<1> SUFFICES ASSUME calm'
             PROVE  /\ ~faulty' /\ Alone(r) /\ CalmAt(r)'
                    /\ Grants(rows') \ tuples' \subseteq Grants(drops'[r])
  BY CalmStep, Zenon
<1>1. TypeOK /\ TxInv(r)
  BY Zenon DEF Base, TablesInv
<1>2. pc[r] = "finish" /\ pc'[r] = "done" /\ tuples' = tuples
  BY <1>1, EndPlace, Zenon
<1>3. Commit(r) \/ Rollback(r) \/ NoTx(r)
  BY Zenon DEF EndStep, CommitFails
<1>4. calm /\ faulty' = faulty
  BY <1>3, Zenon DEF Commit, Rollback, NoTx
<1>5. pc[r] \notin {"idle", "done"}
  BY <1>2, Zenon
<1>6. Alone(r)
  BY <1>4, <1>5, InFlightAlone, Zenon
<1>7. ~faulty /\ CalmAt(r) /\ Grants(rows) \ tuples \subseteq Grants(drops[r])
  BY <1>4, <1>6, AloneRows, Zenon
<1>8. ~faulty' /\ CalmAt(r)'
  <2>1. CalmAt(r)'
    BY <1>2, Zenon DEF CalmAt, Settled
  <2> QED BY <1>4, <1>7, <2>1, ZenonT(30)
<1>9. Grants(rows') \ tuples' = {}
  <2>1. CASE Commit(r)
    <3>1. Settled(r) /\ rows' = (rows \ drops[r]) \cup adds[r]
      BY <1>2, <2>1, ZenonT(30) DEF Commit, Settled, View
    <3>2. Grants((rows \ drops[r]) \cup adds[r]) = (Grants(rows) \ Grants(drops[r])) \cup Grants(adds[r])
      BY GrantsOfView, Zenon
    <3>3. Grants(adds[r]) \subseteq tuples
      BY <1>7, <3>1, ZenonT(30) DEF CalmAt
    <3> QED BY <1>2, <1>7, <3>1, <3>2, <3>3, Zenon
  <2>2. CASE Rollback(r) \/ NoTx(r)
    <3>1. rows' = rows
      BY <2>2, Zenon DEF Rollback, NoTx
    <3>2. NoOpenTx(r)
      <4>1. CASE Rollback(r)
        <5>1. ~Settled(r)
          BY <1>1, <4>1, RollbackUnsettled, Zenon
        <5> QED BY <1>2, <1>7, <5>1, ZenonT(30) DEF CalmAt
      <4>2. CASE NoTx(r)
        BY <1>1, <4>2, NoGrantsOpen, Zenon DEF NoTx
      <4> QED BY <2>2, <4>1, <4>2, Zenon
    <3> QED BY <1>2, <1>7, <3>1, <3>2, NoRows, Zenon DEF NoOpenTx
  <2> QED BY <1>3, <2>1, <2>2, Zenon
<1> QED BY <1>6, <1>8, <1>9, Zenon

\* CalmInv is kept by every step of a request.
LEMMA StepCalmInv ==
  ASSUME Base, StrayInv, CalmInv, NEW r \in Requests, OnlyAt(r),
         Arrive(r) \/ DbStep(r) \/ FgaStep(r) \/ Reply(r) \/ EndStep(r)
  PROVE  CalmInv'
<1>1. CASE DbStep(r)
  <2>1. CASE StatementFails(r) \/ TxExpires(r)
    <3>1. ~calm'
      BY <2>1, Zenon DEF StatementFails, TxExpires
    <3> QED BY <3>1, Zenon DEF CalmInv
  <2>2. TypeOK /\ TablesInv
    BY Zenon DEF Base
  <2> QED BY <1>1, <2>1, <2>2, DbStepExecutes, ExecCalm, Zenon
<1> QED BY <1>1, ArriveCalm, FgaCalm, ReplyCalm, EndCalm, Zenon

-----------------------------------------------------------------------------
(***************************************************************************)
(* The invariants hold always.                                              *)
(***************************************************************************)

\* Every step keeps the types.
LEMMA StepTypeOK ==
  ASSUME Base, NEW r \in Requests,
         Arrive(r) \/ DbStep(r) \/ FgaStep(r) \/ Reply(r) \/ EndStep(r)
  PROVE  TypeOK'
<1>1. TypeOK /\ TablesInv
  BY Zenon DEF Base
<1>2. CASE DbStep(r)
  BY <1>1, <1>2, DbStepExecutes, ExecTypeOK, FailTypeOK, Zenon
<1>3. CASE EndStep(r)
  <2>1. pc[r] = "finish"
    BY <1>1, <1>3, EndPlace, ZenonT(30)
  <2>2. op[r] \in Calls
    BY <1>1, <2>1, AtWork, Zenon
  <2> QED BY <1>1, <1>3, <2>2, EndTypeOK, Zenon
<1> QED BY <1>1, <1>2, <1>3, ArriveTypeOK, FgaTypeOK, ReplyTypeOK, Zenon

\* In the initial states the tables are consistent and no transaction is open.
LEMMA InitTablesInv == Init => TablesInv
<1> SUFFICES ASSUME Init PROVE TablesInv
  BY Zenon
<1>1. rows \subseteq Row /\ Consistent(rows)
  BY InitialRowsConsistent, ZenonT(30) DEF Init
<1>2. \A r \in Requests : adds[r] = {} /\ drops[r] = {} /\ View(r) = rows /\ pc[r] = "idle"
  BY ZenonT(30) DEF Init, View
<1>3. \A r \in Requests : ~started[r]
  BY Zenon DEF Init
<1>4. \A r \in Requests : TxInv(r)
  BY <1>2, <1>3, ZenonT(30) DEF TxInv, NoOpenTx
<1>5. GroupIds(rows) \subseteq UsedIds
  <2>1. ASSUME NEW x \in rows \cap GroupRows(Groups, Names) PROVE x[2] \in UsedIds
    <3>1. <<x[2], x[3]>> \in named
      BY <2>1, Zenon DEF Init
    <3>2. <<x[2], x[3]>>[1] = x[2]
      BY Zenon
    <3> QED BY <3>1, <3>2, ZenonT(30) DEF UsedIds
  <2> QED BY <2>1, Zenon DEF GroupIds
<1>6. Apart({}, {}, {}, {}) /\ GroupIds({} \cup {}) = {}
  BY NoRows, Zenon DEF Apart
<1>7. LocksInv
  BY <1>1, <1>2, <1>5, <1>6, Zenon DEF LocksInv, TablesConsistent
<1> QED BY <1>4, <1>7, Zenon DEF TablesInv

\* In the initial states the two stores agree.
LEMMA InitStores == Init => KeptInv /\ StrayInv /\ CalmInv
<1> SUFFICES ASSUME Init PROVE KeptInv /\ StrayInv /\ CalmInv
  BY Zenon
<1>1. /\ kept = Members(rows) /\ tuples = Grants(rows) /\ InFlight = {}
      /\ \A r \in Requests : /\ adds[r] = {} /\ drops[r] = {} /\ pc[r] = "idle"
                             /\ ended[r] = "no"
  BY ZenonT(30) DEF Init, InFlight
<1>2. \A r \in Requests : ~Settled(r) /\ Grants(adds[r]) = {} /\ Grants(drops[r]) = {}
  BY <1>1, NoRows, Zenon DEF Settled
<1>3. KeptInv
  BY <1>1, <1>2, ZenonT(30) DEF KeptInv, LastWriteHolds
<1>4. StrayInv
  BY <1>1, <1>2, Zenon DEF StrayInv
<1>5. ~faulty
  BY ZenonT(30) DEF Init
<1>6. CalmInv
  BY <1>1, <1>2, <1>5, ZenonT(30) DEF CalmInv
<1> QED BY <1>3, <1>4, <1>6, Zenon

AdminInv == TypeOK /\ TablesInv /\ KeptInv /\ StrayInv /\ CalmInv

\* A step that changes nothing.
LEMMA NothingChanges ==
  ASSUME AdminInv, UNCHANGED vars
  PROVE  AdminInv'
<1>1. TypeOK /\ TablesInv /\ KeptInv /\ StrayInv /\ CalmInv
  BY Zenon DEF AdminInv
<1>2. /\ rows' = rows /\ tuples' = tuples /\ pc' = pc /\ op' = op /\ started' = started
      /\ adds' = adds /\ drops' = drops /\ page' = page /\ more' = more /\ status' = status
      /\ faulty' = faulty /\ calm' = calm /\ ended' = ended /\ named' = named /\ kept' = kept
      /\ claims' = claims /\ granted' = granted /\ revoked' = revoked
  BY Zenon DEF vars
<1>3. TypeOK'
  BY <1>1, <1>2, Zenon DEF TypeOK
<1>4. \A r \in Requests : View(r)' = View(r) /\ (Settled(r)' <=> Settled(r)) /\ (NoOpenTx(r)' <=> NoOpenTx(r))
  BY <1>2, Zenon DEF View, Settled, NoOpenTx
<1>5. TablesInv'
  <2>1. LocksInv'
    BY <1>1, <1>2, LocksSame, Zenon DEF TablesInv
  <2>2. \A r \in Requests : TxInv(r)'
    BY <1>1, <1>2, <1>4, Zenon DEF TablesInv, TxInv
  <2> QED BY <2>1, <2>2, Zenon DEF TablesInv
<1>6. KeptInv'
  BY <1>1, <1>2, <1>4, Zenon DEF KeptInv, LastWriteHolds
<1>7. StrayInv'
  <2>1. LeftBehind' = LeftBehind
    BY <1>2, Zenon DEF LeftBehind
  <2> QED BY <1>1, <1>2, <1>4, <2>1, ZenonT(30) DEF StrayInv
<1>8. InFlight' = InFlight
  BY <1>2, Zenon DEF InFlight
<1>9. CalmInv'
  BY <1>1, <1>2, <1>4, <1>8, Zenon DEF CalmInv
<1> QED BY <1>3, <1>5, <1>6, <1>7, <1>9, Zenon DEF AdminInv

\* The inductive invariants of the tables and of the two stores hold always.
THEOREM AdminInvariant == Spec => []AdminInv
<1>1. Init => AdminInv
  BY InitTypeOK, InitTablesInv, InitStores, Zenon DEF AdminInv
<1>2. AdminInv /\ Domains /\ GrantInv /\ [Next]_vars => AdminInv'
  <2> SUFFICES ASSUME AdminInv, Domains, GrantInv, [Next]_vars PROVE AdminInv'
    BY Zenon
  <2>1. CASE UNCHANGED vars
    BY <2>1, NothingChanges, Zenon
  <2>2. ASSUME NEW r \in Requests,
               Arrive(r) \/ DbStep(r) \/ FgaStep(r) \/ Reply(r) \/ EndStep(r)
        PROVE  AdminInv'
    <3>1. Base /\ KeptInv /\ StrayInv /\ CalmInv
      BY Zenon DEF Base, AdminInv
    <3>2. OnlyAt(r)
      BY <2>2, <3>1, StepOnlyAt, Zenon
    <3>3. TypeOK' /\ TablesInv'
      BY <2>2, <3>1, <3>2, StepTypeOK, StepTablesInv, Zenon
    <3>4. KeptInv' /\ StrayInv'
      BY <2>2, <3>1, <3>2, StepKeptInv, StepStrayInv, Zenon
    <3>5. CalmInv'
      BY <2>2, <3>1, <3>2, StepCalmInv, Zenon
    <3> QED BY <3>3, <3>4, <3>5, Zenon DEF AdminInv
  <2> QED BY <2>1, <2>2, Zenon DEF Next
<1> QED BY <1>1, <1>2, GrantInvariant, PTL DEF Spec

\* Every variable has its type, whatever the handlers of pkg/groups and
\* pkg/authorization are asked for.
THEOREM AdminTypes == Spec => []TypeOK
<1>1. AdminInv => TypeOK
  BY Zenon DEF AdminInv
<1> QED BY <1>1, AdminInvariant, PTL

\* The committed rows keep the foreign keys and the unique names, for every
\* number of transactions, groups and users: the locks of READ COMMITTED
\* suffice for the statements that internal/storage runs.
THEOREM TablesStayConsistent == Spec => []TablesConsistent
<1>1. AdminInv => TablesConsistent
  BY Zenon DEF AdminInv, TablesInv, LocksInv
<1> QED BY <1>1, AdminInvariant, PTL

\* What AddUsersToGroup and AddUserToGroups have made durable stays until a
\* later durable write takes it out, for every number of requests.
THEOREM LastWriteStays == Spec => []LastWriteHolds
<1>1. AdminInv => LastWriteHolds
  BY Zenon DEF AdminInv, KeptInv
<1> QED BY <1>1, AdminInvariant, PTL

\* Between requests a tuple without its row was left by a committed
\* RemoveAllowedGroupsForApp or takes a fault, for every number of requests and
\* however WithTx ends their transactions.
THEOREM StrayTakesFault == Spec => []StrayTupleNeedsFault
<1>1. AdminInv => StrayTupleNeedsFault
  <2> SUFFICES ASSUME AdminInv, InFlight = {}, ~faulty
               PROVE  tuples \subseteq Grants(rows) \cup LeftBehind
    BY Zenon DEF StrayTupleNeedsFault
  <2>1. \A r \in Requests : ~Settled(r)
    BY Zenon DEF InFlight, Settled
  <2> QED BY <2>1, Zenon DEF AdminInv, StrayInv
<1> QED BY <1>1, AdminInvariant, PTL

\* Requests one at a time and without an error keep the tuples equal to
\* application_groups, but for those that RemoveAllowedGroupsForApp leaves, for
\* every sequence of calls.
THEOREM CalmStoresAgree == Spec => []StoresAgreeWhenCalm
<1>1. AdminInv => StoresAgreeWhenCalm
  <2> SUFFICES ASSUME AdminInv, InFlight = {}, calm
               PROVE  Grants(rows) \subseteq tuples /\ tuples \ Grants(rows) \subseteq LeftBehind
    BY Zenon DEF StoresAgreeWhenCalm
  <2>1. \A r \in Requests : ~Settled(r) /\ pc[r] \in {"idle", "done"}
    BY Zenon DEF InFlight, Settled
  <2>2. ~faulty
    BY Zenon DEF AdminInv, CalmInv
  <2>3. tuples \subseteq Grants(rows) \cup LeftBehind
    BY <2>1, <2>2, ZenonT(30) DEF AdminInv, StrayInv
  <2>4. ASSUME NEW r \in Requests PROVE Grants(drops[r]) = {}
    <3>1. TxInv(r)
      BY Zenon DEF AdminInv, TablesInv
    <3>2. ~started[r]
      BY <2>1, <3>1, Zenon DEF TxInv
    <3> QED BY <3>1, <3>2, NoGrantsOpen, Zenon
  <2>5. \A p \in Grants(rows) \ tuples : \E r \in Requests : p \in Grants(drops[r])
    BY Zenon DEF AdminInv, CalmInv
  <2> QED BY <2>3, <2>4, <2>5, Zenon
<1> QED BY <1>1, AdminInvariant, PTL
=============================================================================
