--------------------------- MODULE DecisionsProofs ---------------------------
(***************************************************************************)
(* Proofs about Decisions, for any users, groups, roles, releases,         *)
(* policies and requests.  The inductive invariant says of a request which *)
(* of the graphs of its subject it holds; every change of a table goes     *)
(* through Watched, so one lemma about Watched covers all of them.         *)
(***************************************************************************)
EXTENDS Decisions, TLAPS

\* Who manages: the steps that change a table or an addition in flight.
Manage == \/ \E u \in User : SetUserStatus(u)
          \/ \E g \in Group : UpdateGroup(g)
          \/ \E ro \in Role : UpdateRole(ro)
          \/ \E a \in Adder, g \in Group, u \in User : CheckMember(a, g, u) \/ InsertMember(a, g, u)
          \/ \E g \in Group, u \in User : RemoveMember(g, u)
          \/ \E ro \in Role, u \in User : AssignUser(ro, u) \/ UnassignUser(ro, u)
          \/ \E ro \in Role, g \in Group : AssignGroup(ro, g) \/ UnassignGroup(ro, g)
          \/ \E rel \in Release : Activate(rel)

\* The types of the tables, and of what the requests hold.
TablesOK ==
    /\ activeUsers \subseteq User /\ groupsOn \subseteq Group /\ rolesOn \subseteq Role
    /\ members \subseteq Group \X User
    /\ userRoles \subseteq Role \X User /\ groupRoles \subseteq Role \X Group
    /\ active \in Release \cup {NoRelease}
    /\ adding \in [Adder -> SUBSET (Group \X User)]

RequestsOK ==
    /\ foreign \subseteq Request
    /\ stage \in [Request -> Stages] /\ subject \in [Request -> User]
    /\ graph \in [Request -> SUBSET Entity]
    /\ release \in [Request -> Release \cup {NoRelease}]
    /\ reason \in [Request -> Reasons \cup {"none"}]
    /\ log \in [Request -> [reason : Reasons, graph : SUBSET Entity] \cup {NoLog}]
    /\ seen \in [Request -> SUBSET SUBSET Entity]
    /\ inForce \in [Request -> SUBSET (Release \cup {NoRelease})]

LEMMA TypeParts == TypeOK <=> TablesOK /\ RequestsOK
  BY DEF TypeOK, TablesOK, RequestsOK

LEMMA TypePartsNext == TypeOK' <=> TablesOK' /\ RequestsOK'
  BY DEF TypeOK, TablesOK, RequestsOK

\* What the management API shows is made of the organization's entities.
LEMMA ShownType ==
  ASSUME TablesOK, NEW u \in User
  PROVE  Shown(u) \in SUBSET Entity
  BY DEF TablesOK, Shown, EffectiveRoles, Entity

\* The two queries agree: a role is above a user along one of the two edges
\* the projection follows exactly if effective_roles lists it.
LEMMA SameGraph ==
  ASSUME TablesOK, NEW u \in User
  PROVE  Identity(u) = Shown(u)
<1>1. ASSUME u \in activeUsers
      PROVE  EffectiveRoles(u)
               = DirectRoles(u) \cup UNION {GroupParents(g) : g \in EnabledGroups(u)}
  <2>1. EffectiveRoles(u)
          \subseteq DirectRoles(u) \cup UNION {GroupParents(g) : g \in EnabledGroups(u)}
    <3>1. SUFFICES ASSUME NEW ro \in EffectiveRoles(u), ro \notin DirectRoles(u)
                   PROVE  \E g \in EnabledGroups(u) : ro \in GroupParents(g)
      OBVIOUS
    <3>2. PICK g \in Group : <<g, u>> \in members /\ <<ro, g>> \in groupRoles /\ g \in groupsOn
      BY <3>1 DEF EffectiveRoles, DirectRoles
    <3>3. g \in EnabledGroups(u) /\ ro \in GroupParents(g)
      BY <3>1, <3>2 DEF EffectiveRoles, EnabledGroups, GroupParents
    <3>4. QED
      BY <3>3
  <2>2. DirectRoles(u) \subseteq EffectiveRoles(u)
    BY <1>1 DEF TablesOK, EffectiveRoles, DirectRoles
  <2>3. ASSUME NEW g \in EnabledGroups(u)
        PROVE  GroupParents(g) \subseteq EffectiveRoles(u)
    BY <1>1, <2>3 DEF TablesOK, EffectiveRoles, GroupParents, EnabledGroups
  <2>4. QED
    BY <2>1, <2>2, <2>3
<1>2. CASE u \in activeUsers
  BY <1>1, <1>2 DEF Identity, Shown, EnabledGroups
<1>3. CASE u \notin activeUsers
  BY <1>3 DEF Identity, Shown
<1>4. QED
  BY <1>2, <1>3

\* Evaluating the policies gives one of the reasons.
LEMMA OutcomeType ==
  ASSUME NEW r, NEW rel, NEW nodes
  PROVE  Outcome(r, rel, nodes) \in Reasons
  BY DEF Outcome, Reasons

LEMMA ProjectedType ==
  ASSUME NEW rel, NEW nodes \in SUBSET Entity
  PROVE  Projected(rel, nodes) \in SUBSET Entity
  BY DEF Projected

-----------------------------------------------------------------------------
LEMMA ManageTables ==
  ASSUME TablesOK, Manage
  PROVE  TablesOK' /\ Watched
<1>1. ASSUME NEW u \in User, SetUserStatus(u) PROVE TablesOK' /\ Watched
  BY <1>1 DEF TablesOK, SetUserStatus, Toggle, assignments
<1>2. ASSUME NEW g \in Group, UpdateGroup(g) PROVE TablesOK' /\ Watched
  BY <1>2 DEF TablesOK, UpdateGroup, Toggle, assignments
<1>3. ASSUME NEW ro \in Role, UpdateRole(ro) PROVE TablesOK' /\ Watched
  BY <1>3 DEF TablesOK, UpdateRole, Toggle, assignments
<1>4. ASSUME NEW a \in Adder, NEW g \in Group, NEW u \in User, CheckMember(a, g, u)
      PROVE  TablesOK' /\ Watched
  BY <1>4 DEF TablesOK, CheckMember, directory, assignments
<1>5. ASSUME NEW a \in Adder, NEW g \in Group, NEW u \in User, InsertMember(a, g, u)
      PROVE  TablesOK' /\ Watched
  BY <1>5 DEF TablesOK, InsertMember, assignments
<1>6. ASSUME NEW g \in Group, NEW u \in User, RemoveMember(g, u)
      PROVE  TablesOK' /\ Watched
  BY <1>6 DEF TablesOK, RemoveMember, assignments
<1>7. ASSUME NEW ro \in Role, NEW u \in User, AssignUser(ro, u) \/ UnassignUser(ro, u)
      PROVE  TablesOK' /\ Watched
  BY <1>7 DEF TablesOK, AssignUser, UnassignUser, directory
<1>8. ASSUME NEW ro \in Role, NEW g \in Group, AssignGroup(ro, g) \/ UnassignGroup(ro, g)
      PROVE  TablesOK' /\ Watched
  BY <1>8 DEF TablesOK, AssignGroup, UnassignGroup, directory
<1>9. ASSUME NEW rel \in Release, Activate(rel) PROVE TablesOK' /\ Watched
  BY <1>9 DEF TablesOK, Activate, directory, assignments
<1>10. QED
  BY <1>1, <1>2, <1>3, <1>4, <1>5, <1>6, <1>7, <1>8, <1>9 DEF Manage

\* A change of the tables keeps what every evaluation in flight has read
\* justified.
LEMMA WatchedRequests ==
  ASSUME IInv, TablesOK', Watched
  PROVE  /\ RequestsOK' /\ (\A r \in Request : Reading(r))'
         /\ DecisionsFresh' /\ GraphFitsSchema' /\ AnswersRecorded'
<1>0. RequestsOK /\ TablesOK
  BY TypeParts DEF IInv
<1>1. RequestsOK'
  <2>1. \A r \in Request : Shown(subject[r])' \in SUBSET Entity
    <3>1. SUFFICES ASSUME NEW r \in Request, NEW u \in User, subject[r] = u
                   PROVE  (Shown(u) \in SUBSET Entity)'
      BY <1>0 DEF RequestsOK, Watched, locals, Shown, EffectiveRoles
    <3>2. QED
      BY DEF TablesOK, Shown, EffectiveRoles, Entity
  <2>2. active' \in Release \cup {NoRelease}
    BY DEF TablesOK
  <2>3. seen' \in [Request -> SUBSET SUBSET Entity]
    BY <1>0, <2>1 DEF RequestsOK, Watched
  <2>4. inForce' \in [Request -> SUBSET (Release \cup {NoRelease})]
    BY <1>0, <2>2 DEF RequestsOK, Watched
  <2>5. QED
    BY <1>0, <2>3, <2>4 DEF RequestsOK, Watched, locals
<1>2. ASSUME NEW r \in Request
      PROVE  Reading(r)'
  <2>1. Reading(r) /\ seen \in [Request -> SUBSET SUBSET Entity]
    BY <1>0 DEF IInv, RequestsOK
  <2>2. stage'[r] = stage[r] /\ subject'[r] = subject[r] /\ graph'[r] = graph[r]
    BY DEF Watched, locals
  <2>3. stage[r] = "identity" => Shown(subject[r])' \in seen'[r]
    BY DEF Watched
  <2>4. stage[r] = "release" => seen'[r] = seen[r] /\ active' \in inForce'[r]
    BY DEF Watched
  <2>5. QED
    BY <2>1, <2>2, <2>3, <2>4 DEF Reading
<1>3. ASSUME NEW r \in Request, Decided(r)
      PROVE  Justified(r)'
  <2>1. Justified(r)
    BY <1>3 DEF IInv, DecisionsFresh
  <2>2. seen'[r] = seen[r] /\ inForce'[r] = inForce[r]
    BY <1>3 DEF Decided, Watched
  <2>3. graph' = graph /\ release' = release /\ reason' = reason /\ foreign' = foreign
    BY DEF Watched, locals
  <2>4. \A v : Found(r, v) => Found(r, v)'
    BY <2>3 DEF Found, Projected, Outcome
  <2>5. QED
    BY <2>1, <2>2, <2>3, <2>4 DEF Justified
<1>4. DecisionsFresh'
  BY <1>3 DEF DecisionsFresh, Decided, Watched, locals
<1>5. AnswersRecorded'
  BY DEF IInv, AnswersRecorded, Entry, Watched, locals
<1>6. GraphFitsSchema'
  BY DEF IInv, GraphFitsSchema, Decided, Watched, locals
<1>7. QED
  BY <1>1, <1>2, <1>4, <1>5, <1>6

\* Only an insertion can put a user in a second physical group, and the index
\* keeps it from doing so.
LEMMA ManageTablesInv ==
  ASSUME IInv, Manage
  PROVE  OnePhysicalGroup' /\ (Assigned => active \in Ready)'
<1>0. OnePhysicalGroup /\ (Assigned => active \in Ready)
  BY DEF IInv
<1>1. ASSUME members' \subseteq members PROVE OnePhysicalGroup'
  BY <1>0, <1>1 DEF OnePhysicalGroup
<1>2. ASSUME UNCHANGED <<assignments, active>> PROVE (Assigned => active \in Ready)'
  BY <1>0, <1>2 DEF Assigned, assignments
<1>3. ASSUME NEW a \in Adder, NEW g \in Group, NEW u \in User, InsertMember(a, g, u)
      PROVE  OnePhysicalGroup'
  BY <1>0, <1>3 DEF OnePhysicalGroup, InsertMember, Conflicts, Elsewhere
<1>4. ASSUME NEW ro \in Role, NEW x, AssignUser(ro, x) \/ UnassignUser(ro, x)
                                       \/ AssignGroup(ro, x) \/ UnassignGroup(ro, x)
      PROVE  members' = members /\ (Assigned => active \in Ready)'
  BY <1>0, <1>4 DEF Assigned, AssignUser, UnassignUser, AssignGroup, UnassignGroup, directory
<1>5. ASSUME NEW rel \in Release, Activate(rel)
      PROVE  members' = members /\ (Assigned => active \in Ready)'
  BY <1>0, <1>5 DEF Assigned, Activate, directory, assignments
<1>6. ASSUME NEW g, NEW u, NEW a,
             SetUserStatus(u) \/ UpdateGroup(g) \/ UpdateRole(a) \/ CheckMember(a, g, u)
               \/ RemoveMember(g, u)
      PROVE  members' \subseteq members /\ UNCHANGED <<assignments, active>>
  BY <1>6 DEF SetUserStatus, UpdateGroup, UpdateRole, CheckMember, RemoveMember, directory,
              assignments
<1>7. ASSUME NEW g, NEW u, NEW a, InsertMember(a, g, u)
      PROVE  UNCHANGED <<assignments, active>>
  BY <1>7 DEF InsertMember
<1>8. QED
  BY <1>1, <1>2, <1>3, <1>4, <1>5, <1>6, <1>7 DEF Manage

-----------------------------------------------------------------------------
\* What another request holds is not touched.
Others(r) == \A q \in Request \ {r} :
    /\ stage'[q] = stage[q] /\ subject'[q] = subject[q] /\ graph'[q] = graph[q]
    /\ release'[q] = release[q] /\ reason'[q] = reason[q] /\ log'[q] = log[q]
    /\ seen'[q] = seen[q] /\ inForce'[q] = inForce[q]
    /\ (q \in foreign)' <=> q \in foreign

Tables == <<directory, assignments, active, adding>>

\* The invariants of a request that a step of another leaves alone.
Sound(r) == /\ Reading(r)
            /\ Decided(r) => /\ Justified(r)
                             /\ graph[r] \subseteq User \/ release[r] \in Ready
            /\ stage[r] = "answered" => log[r] = Entry(r)

LEMMA OthersSound ==
  ASSUME NEW r \in Request, \A q \in Request : Sound(q), UNCHANGED Tables, Others(r), Sound(r)'
  PROVE  \A q \in Request : Sound(q)'
<1>1. SUFFICES ASSUME NEW q \in Request \ {r} PROVE Sound(q)'
  OBVIOUS
<1>2. /\ stage'[q] = stage[q] /\ subject'[q] = subject[q] /\ graph'[q] = graph[q]
      /\ release'[q] = release[q] /\ reason'[q] = reason[q] /\ log'[q] = log[q]
      /\ seen'[q] = seen[q] /\ inForce'[q] = inForce[q]
      /\ (q \in foreign)' <=> q \in foreign
  BY DEF Others
<1>3. Reading(q)'
  BY <1>2 DEF Sound, Reading, Shown, EffectiveRoles, Tables, directory, assignments
<1>4. \A v : Found(q, v) => Found(q, v)'
  BY <1>2 DEF Found, Projected, Outcome
<1>5. (Decided(q) => Justified(q) /\ (graph[q] \subseteq User \/ release[q] \in Ready))'
  BY <1>2, <1>4 DEF Sound, Decided, Justified
<1>6. QED
  BY <1>2, <1>3, <1>5 DEF Sound, Entry

LEMMA AskSound ==
  ASSUME TypeOK, NEW r \in Request, NEW u \in User, \A q \in Request : Sound(q), Ask(r, u)
  PROVE  TypeOK' /\ (\A q \in Request : Sound(q)') /\ UNCHANGED Tables
<1>0. TablesOK /\ RequestsOK
  BY TypeParts
<1>1. UNCHANGED Tables /\ TablesOK'
  BY <1>0 DEF Ask, Tables, TablesOK, directory, assignments
<1>2. RequestsOK'
  BY <1>0, ShownType DEF Ask, RequestsOK, Stages
<1>3. stage'[r] = "identity" /\ subject'[r] = u /\ seen'[r] = {Shown(u)}
  BY <1>0 DEF Ask, RequestsOK
<1>4. Shown(subject[r])' = Shown(u)
  BY <1>1, <1>3 DEF Shown, EffectiveRoles, Tables, directory, assignments
<1>5. Sound(r)'
  BY <1>3, <1>4 DEF Sound, Reading, Decided
<1>6. Others(r)
  BY <1>0 DEF Ask, Others, RequestsOK
<1>7. QED
  BY <1>1, <1>2, <1>5, <1>6, OthersSound, TypePartsNext

LEMMA ReadIdentitySound ==
  ASSUME TypeOK, NEW r \in Request, \A q \in Request : Sound(q), ReadIdentity(r)
  PROVE  TypeOK' /\ (\A q \in Request : Sound(q)') /\ UNCHANGED Tables
<1> DEFINE nodes == Identity(subject[r])
<1>0. TablesOK /\ RequestsOK /\ subject[r] \in User
  BY TypeParts DEF RequestsOK
<1>1. UNCHANGED Tables /\ TablesOK'
  BY <1>0 DEF ReadIdentity, Identified, Tables, TablesOK, directory, assignments
<1>2. nodes = Shown(subject[r]) /\ nodes \in SUBSET Entity
  BY <1>0, SameGraph, ShownType
<1>3. nodes \in seen[r]
  BY <1>2 DEF ReadIdentity, Sound, Reading
<1> HIDE DEF nodes
<1>4. /\ graph' = [graph EXCEPT ![r] = nodes]
      /\ stage' = [stage EXCEPT ![r] = IF nodes = {} THEN "record" ELSE "release"]
      /\ reason' = [reason EXCEPT ![r] = IF nodes = {} THEN "subject_not_found" ELSE @]
      /\ inForce' = [inForce EXCEPT ![r] = {active}]
      /\ UNCHANGED <<active, subject, foreign, release, log, seen>>
  BY DEF ReadIdentity, Identified, nodes
<1>5. RequestsOK'
  BY <1>0, <1>2, <1>4 DEF RequestsOK, TablesOK, Stages, Reasons
<1>6. Sound(r)'
  <2>1. CASE nodes = {}
    <3>1. /\ stage'[r] = "record" /\ graph'[r] = {} /\ reason'[r] = "subject_not_found"
          /\ {} \in seen'[r]
      BY <1>0, <1>3, <1>4, <2>1 DEF RequestsOK
    <3>2. QED
      BY <3>1 DEF Sound, Reading, Justified
  <2>2. CASE nodes # {}
    <3>1. /\ stage'[r] = "release" /\ graph'[r] = nodes /\ seen'[r] = seen[r]
          /\ inForce'[r] = {active} /\ active' = active
      BY <1>0, <1>4, <2>2 DEF RequestsOK
    <3>2. QED
      BY <1>3, <2>2, <3>1 DEF Sound, Reading, Decided
  <2>3. QED
    BY <2>1, <2>2
<1>7. Others(r)
  BY <1>0, <1>4 DEF Others, RequestsOK
<1>8. QED
  BY <1>1, <1>5, <1>6, <1>7, OthersSound, TypePartsNext

LEMMA ReadReleaseSound ==
  ASSUME TypeOK, NEW r \in Request, \A q \in Request : Sound(q), ReadRelease(r)
  PROVE  TypeOK' /\ (\A q \in Request : Sound(q)') /\ UNCHANGED Tables
<1> DEFINE nodes == Projected(active, graph[r])
<1>0. TablesOK /\ RequestsOK /\ graph[r] \in SUBSET Entity
  BY TypeParts DEF RequestsOK
<1>1. UNCHANGED Tables /\ TablesOK'
  BY <1>0 DEF ReadRelease, Decide, Tables, TablesOK, directory, assignments
<1>2. nodes \in SUBSET Entity /\ Outcome(r, active, nodes) \in Reasons
  BY <1>0, ProjectedType, OutcomeType
<1>3. graph[r] \in seen[r] /\ graph[r] # {} /\ active \in inForce[r]
  BY DEF ReadRelease, Sound, Reading
<1>4. /\ graph' = [graph EXCEPT ![r] = nodes]
      /\ release' = [release EXCEPT ![r] = active]
      /\ reason' = [reason EXCEPT ![r] = Outcome(r, active, nodes)]
      /\ stage' = [stage EXCEPT ![r] = "record"]
      /\ UNCHANGED <<subject, foreign, log, seen, inForce>>
  BY DEF ReadRelease, Decide, history
<1>5. RequestsOK'
  <2> HIDE DEF nodes
  <2>1. QED
    BY <1>0, <1>2, <1>4 DEF RequestsOK, TablesOK, Stages
<1>6. /\ stage'[r] = "record" /\ graph'[r] = nodes /\ reason'[r] = Outcome(r, active, nodes)
      /\ release'[r] = active
      /\ seen'[r] = seen[r] /\ inForce'[r] = inForce[r] /\ foreign' = foreign
  BY <1>0, <1>4 DEF RequestsOK
<1>7. \A v : v = graph[r] => Found(r, v)'
  BY <1>3, <1>6 DEF Found, Projected, Outcome
<1>8. Justified(r)' /\ (graph[r] \subseteq User \/ release[r] \in Ready)'
  BY <1>3, <1>6, <1>7 DEF Justified, Projected
<1>9. Sound(r)'
  BY <1>6, <1>8 DEF Sound, Reading
<1>10. Others(r)
  <2> HIDE DEF nodes
  <2>1. QED
    BY <1>0, <1>4 DEF Others, RequestsOK
<1>11. QED
  BY <1>1, <1>5, <1>9, <1>10, OthersSound, TypePartsNext

LEMMA RecordSound ==
  ASSUME TypeOK, NEW r \in Request, \A q \in Request : Sound(q), Record(r)
  PROVE  TypeOK' /\ (\A q \in Request : Sound(q)') /\ UNCHANGED Tables
<1>0. TablesOK /\ RequestsOK
  BY TypeParts
<1>1. UNCHANGED Tables /\ TablesOK'
  BY <1>0 DEF Record, Tables, TablesOK, directory, assignments
<1>2. Justified(r) /\ (graph[r] \subseteq User \/ release[r] \in Ready)
  BY DEF Record, Sound, Decided
<1>3. Entry(r) \in [reason : Reasons, graph : SUBSET Entity]
  <2>1. reason[r] \in Reasons
    BY <1>2, OutcomeType DEF Justified, Found, Reasons
  <2>2. QED
    BY <1>0, <2>1 DEF Entry, RequestsOK
<1>4. RequestsOK'
  BY <1>0, <1>3 DEF Record, RequestsOK, Stages, history
<1>5. stage'[r] = "answered" /\ log'[r] = Entry(r)
  BY <1>0 DEF Record, RequestsOK
<1>6. UNCHANGED <<graph, release, reason, seen, inForce, foreign>>
  BY DEF Record, history
<1>7. \A v : Found(r, v) => Found(r, v)'
  BY <1>6 DEF Found, Projected, Outcome
<1>8. Sound(r)'
  BY <1>2, <1>5, <1>6, <1>7 DEF Sound, Reading, Justified, Entry
<1>9. Others(r)
  BY <1>0 DEF Record, Others, RequestsOK, history
<1>10. QED
  BY <1>1, <1>4, <1>8, <1>9, OthersSound, TypePartsNext

LEMMA EndSound ==
  ASSUME TypeOK, NEW r \in Request, \A q \in Request : Sound(q), End(r)
  PROVE  TypeOK' /\ (\A q \in Request : Sound(q)') /\ UNCHANGED Tables
<1>0. TablesOK /\ RequestsOK
  BY TypeParts
<1>1. UNCHANGED Tables /\ TablesOK'
  BY <1>0 DEF End, Tables, TablesOK, directory, assignments
<1>2. RequestsOK'
  BY <1>0 DEF End, RequestsOK, Stages
<1>3. stage'[r] = "idle"
  BY <1>0 DEF End, RequestsOK
<1>4. Sound(r)'
  BY <1>3 DEF Sound, Reading, Decided
<1>5. Others(r)
  BY <1>0 DEF End, Others, RequestsOK
<1>6. QED
  BY <1>1, <1>2, <1>4, <1>5, OthersSound, TypePartsNext

-----------------------------------------------------------------------------
LEMMA InvParts ==
  IInv <=> /\ TypeOK /\ OnePhysicalGroup /\ (Assigned => active \in Ready)
           /\ \A r \in Request : Sound(r)
  BY DEF IInv, DecisionsFresh, GraphFitsSchema, AnswersRecorded, Sound

LEMMA InvPartsNext ==
  IInv' <=> /\ TypeOK' /\ OnePhysicalGroup' /\ (Assigned => active \in Ready)'
            /\ \A r \in Request : Sound(r)'
  BY DEF IInv, DecisionsFresh, GraphFitsSchema, AnswersRecorded, Sound

LEMMA InitInv == Init => IInv
<1>1. ASSUME Init PROVE TypeOK
  BY <1>1 DEF Init, TypeOK, Stages
<1>2. ASSUME Init PROVE IInv
  BY <1>1, <1>2 DEF IInv, Init, OnePhysicalGroup, Assigned, Reading, DecisionsFresh, Decided,
                    GraphFitsSchema, AnswersRecorded
<1>3. QED
  BY <1>2

LEMMA StepInv == IInv /\ [Next]_vars => IInv'
<1>1. SUFFICES ASSUME IInv, [Next]_vars PROVE IInv'
  OBVIOUS
<1>2. ASSUME Manage PROVE IInv'
  <2>1. TablesOK' /\ Watched
    BY <1>1, <1>2, TypeParts, ManageTables DEF IInv
  <2>2. QED
    BY <1>1, <1>2, <2>1, ManageTablesInv, WatchedRequests, TypePartsNext DEF IInv
<1>3. ASSUME NEW r \in Request,
             (\E u \in User : Ask(r, u)) \/ ReadIdentity(r) \/ ReadRelease(r) \/ Record(r) \/ End(r)
      PROVE  IInv'
  <2>1. TypeOK /\ \A q \in Request : Sound(q)
    BY <1>1, InvParts
  <2>2. TypeOK' /\ (\A q \in Request : Sound(q)') /\ UNCHANGED Tables
    BY <1>3, <2>1, AskSound, ReadIdentitySound, ReadReleaseSound, RecordSound, EndSound
  <2>3. (OnePhysicalGroup /\ (Assigned => active \in Ready))'
    BY <1>1, <2>2 DEF IInv, OnePhysicalGroup, Assigned, Tables, directory, assignments
  <2>4. QED
    BY <2>2, <2>3, InvPartsNext
<1>4. ASSUME UNCHANGED vars PROVE IInv'
  <2>1. UNCHANGED Tables /\ UNCHANGED locals /\ UNCHANGED history
    BY <1>4 DEF vars, Tables
  <2>2. TypeOK'
    BY <1>1, <2>1 DEF IInv, TypeOK, Tables, locals, history, directory, assignments
  <2>3. (OnePhysicalGroup /\ (Assigned => active \in Ready))'
    BY <1>1, <2>1 DEF IInv, OnePhysicalGroup, Assigned, Tables, directory, assignments
  <2>4. ASSUME NEW r \in Request PROVE Sound(r)'
    <3>1. Sound(r)
      BY <1>1, InvParts
    <3>2. UNCHANGED <<stage, subject, graph, release, reason, log, seen, inForce, foreign>>
      BY <2>1 DEF locals, history
    <3>3. Reading(r)'
      BY <2>1, <3>1, <3>2 DEF Sound, Reading, Shown, EffectiveRoles, Tables, directory, assignments
    <3>4. \A v : Found(r, v) => Found(r, v)'
      BY <3>2 DEF Found, Projected, Outcome
    <3>5. (Decided(r) => Justified(r) /\ (graph[r] \subseteq User \/ release[r] \in Ready))'
      BY <3>1, <3>2, <3>4 DEF Sound, Decided, Justified
    <3>6. QED
      BY <3>1, <3>2, <3>3, <3>5 DEF Sound, Entry
  <2>5. QED
    BY <2>2, <2>3, <2>4, InvPartsNext
<1>5. QED
  BY <1>1, <1>2, <1>3, <1>4 DEF Next, Manage

\* What a request has read is a graph its subject had while it ran, and the
\* other parts of the invariant hold in every reachable state.
THEOREM Invariance == Spec => []IInv
  BY InitInv, StepInv, PTL DEF Spec

\* Every variable keeps its type.
THEOREM TypeCorrect == Spec => []TypeOK
<1>1. IInv => TypeOK
  BY DEF IInv
<1>2. QED
  BY <1>1, Invariance, PTL

\* add_group_member never puts a user in a second physical group, however
\* many of its requests passed the check before the first inserted.
THEOREM PhysicalGroup == Spec => []OnePhysicalGroup
<1>1. IInv => OnePhysicalGroup
  BY DEF IInv
<1>2. QED
  BY <1>1, Invariance, PTL

\* authorization_identities and effective_roles give every user the same
\* roles, whatever is enabled, disabled, assigned or left over.
THEOREM SameRoles == Spec => []ShownIsUsed
<1>1. IInv => ShownIsUsed
  BY SameGraph, TypeParts DEF IInv, ShownIsUsed
<1>2. QED
  BY <1>1, Invariance, PTL

\* run_evaluation decides from one graph of the subject and one release, both
\* in force while it ran.
THEOREM Fresh == Spec => []DecisionsFresh
<1>1. IInv => DecisionsFresh
  BY DEF IInv
<1>2. QED
  BY <1>1, Invariance, PTL

\* run_evaluation hands groups and roles to Cedar only if the schema of the
\* release it evaluates has them.
THEOREM SchemaFits == Spec => []GraphFitsSchema
<1>1. IInv => GraphFitsSchema
  BY DEF IInv
<1>2. QED
  BY <1>1, Invariance, PTL

\* record_decision comes before the answer.
THEOREM Recorded == Spec => []AnswersRecorded
<1>1. IInv => AnswersRecorded
  BY DEF IInv
<1>2. QED
  BY <1>1, Invariance, PTL

=============================================================================
