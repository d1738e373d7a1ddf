------------------------------ MODULE Decisions ------------------------------
(***************************************************************************)
(* AuthZEN evaluations of one application: the group memberships and role  *)
(* assignments managers change, the membership graph an evaluation builds  *)
(* from them, and the decision it records and returns.                     *)
(*                                                                         *)
(* An evaluation reads the identity of its subject in one statement and    *)
(* the active release in a second one, outside any transaction; every      *)
(* table may change before, between and after them.  How releases and      *)
(* assignments are changed under the application's lock is                 *)
(* PolicyLifecycle; here each of those changes is one step.                *)
(***************************************************************************)
CONSTANTS
    User, Group, Role,  \* of the organization and the application
    Physical,           \* the groups of kind 'physical'
    Release, NoRelease,
    Ready,              \* releases whose schema passes validate_schema_contract
    Permits, Forbids,   \* "principal in ..." of a release's policies
    Adder,              \* add_group_member requests in flight
    Request,            \* evaluation requests in flight
    NoLog

VARIABLES
    activeUsers,        \* users.status = 'active'
    groupsOn, rolesOn,  \* groups.enabled, application_roles.enabled
    members,            \* group_memberships
    userRoles,          \* application_role_user_assignments
    groupRoles,         \* application_role_group_assignments
    active,             \* active_policy_releases.release_id
    adding,             \* the membership an adder is about to insert
    stage, subject,     \* what an evaluation does next, and about whom
    foreign,            \* evaluations of a resource of another organization
    graph,              \* the entities it reasons with
    release,            \* the release whose policies and schema it uses
    reason,             \* the decision it came to
    log,                \* its row of decision_logs, until it has ended
    seen,               \* the subject's graphs until it was read (history)
    inForce             \* the releases active from then on (history)

directory   == <<activeUsers, groupsOn, rolesOn, members>>
assignments == <<userRoles, groupRoles>>
locals      == <<stage, subject, foreign, graph, release, reason, log>>
history     == <<seen, inForce>>
vars == <<directory, assignments, active, adding, locals, history>>

-----------------------------------------------------------------------------
Entity  == User \cup Group \cup Role
Reasons == {"permit", "no_permit", "explicit_forbid", "tenant_mismatch",
            "no_active_release", "subject_not_found"}
Stages  == {"idle", "identity", "release", "record", "answered"}

ASSUME KindAssumption == Physical \subseteq Group
ASSUME DisjointAssumption == User \cap (Group \cup Role) = {} /\ Group \cap Role = {}
ASSUME ReleaseAssumption == NoRelease \notin Release /\ Ready \subseteq Release
ASSUME PolicyAssumption ==
    /\ Permits \in [Release -> SUBSET Entity]
    /\ Forbids \in [Release -> SUBSET Entity]
    \* validate_policy_candidate: who names groups or roles is Ready.
    /\ \A rel \in Release \ Ready : Permits[rel] \cup Forbids[rel] \subseteq User
ASSUME LogAssumption == NoLog \notin [reason : Reasons, graph : SUBSET Entity]

Init == /\ activeUsers = User
        /\ groupsOn = Group /\ rolesOn = Role
        /\ members = {} /\ userRoles = {} /\ groupRoles = {}
        /\ active = NoRelease
        /\ adding = [a \in Adder |-> {}]
        /\ stage = [r \in Request |-> "idle"]
        /\ subject \in [Request -> User]
        /\ foreign = {}
        /\ graph = [r \in Request |-> {}]
        /\ release = [r \in Request |-> NoRelease]
        /\ reason = [r \in Request |-> "none"]
        /\ log = [r \in Request |-> NoLog]
        /\ seen = [r \in Request |-> {}]
        /\ inForce = [r \in Request |-> {}]

-----------------------------------------------------------------------------
(* The two queries about who has which roles.                              *)

EnabledGroups(u) == {g \in groupsOn : <<g, u>> \in members}

\* Mutant of GroupParents: disabled roles are read too.
AllGroupParents(g) == {ro \in Role : <<ro, g>> \in groupRoles}

GroupParents(g) == {ro \in rolesOn : <<ro, g>> \in groupRoles}
DirectRoles(u)  == {ro \in rolesOn : <<ro, u>> \in userRoles}

\* authorization_identities: the subject and everything above it, nothing
\* for a user who is not active.
Identity(u) ==
    IF u \in activeUsers
    THEN {u} \cup EnabledGroups(u) \cup DirectRoles(u)
             \cup UNION {GroupParents(g) : g \in EnabledGroups(u)}
    ELSE {}

\* effective_roles: what the management API shows.
EffectiveRoles(u) ==
    {ro \in Role :
        /\ ro \in rolesOn /\ u \in activeUsers
        /\ \/ <<ro, u>> \in userRoles
           \/ \E g \in Group : <<g, u>> \in members /\ <<ro, g>> \in groupRoles
                                 /\ g \in groupsOn}

\* The graph that the two documented edges, with what the management API
\* shows of roles, give an active user.
Shown(u) == IF u \in activeUsers
            THEN {u} \cup {g \in groupsOn : <<g, u>> \in members} \cup EffectiveRoles(u)
            ELSE {}

-----------------------------------------------------------------------------
(* Management.                                                             *)

\* An evaluation in flight may, or may not, come to see the change.
Watched ==
    /\ UNCHANGED locals
    /\ seen' = [r \in Request |-> IF stage[r] = "identity"
                                  THEN seen[r] \cup {Shown(subject[r])'} ELSE seen[r]]
    /\ inForce' = [r \in Request |-> IF stage[r] = "release"
                                     THEN inForce[r] \cup {active'} ELSE inForce[r]]

Toggle(x, S) == IF x \in S THEN S \ {x} ELSE S \cup {x}

SetUserStatus(u) == /\ activeUsers' = Toggle(u, activeUsers)
                    /\ UNCHANGED <<groupsOn, rolesOn, members, assignments, active, adding>>
                    /\ Watched

UpdateGroup(g) == /\ groupsOn' = Toggle(g, groupsOn)
                  /\ UNCHANGED <<activeUsers, rolesOn, members, assignments, active, adding>>
                  /\ Watched

UpdateRole(ro) == /\ rolesOn' = Toggle(ro, rolesOn)
                  /\ UNCHANGED <<activeUsers, groupsOn, members, assignments, active, adding>>
                  /\ Watched

\* The user is in another physical group.
Elsewhere(g, u) == \E h \in Physical \ {g} : <<h, u>> \in members

\* physical_group_for_user, before the transaction
CheckMember(a, g, u) ==
    /\ adding[a] = {}
    /\ g \in Physical => ~Elsewhere(g, u)
    /\ adding' = [adding EXCEPT ![a] = {<<g, u>>}]
    /\ UNCHANGED <<directory, assignments, active>>
    /\ Watched

\* Mutant of Conflicts: the table has no partial unique index.
NoIndex(g, u) == FALSE

\* group_memberships_one_physical_per_user
Conflicts(g, u) == g \in Physical /\ Elsewhere(g, u)

\* The insert fails on the index; it does nothing for a row that exists.
InsertMember(a, g, u) ==
    /\ <<g, u>> \in adding[a]
    /\ members' = IF Conflicts(g, u) THEN members ELSE members \cup {<<g, u>>}
    /\ adding' = [adding EXCEPT ![a] = {}]
    /\ UNCHANGED <<activeUsers, groupsOn, rolesOn, assignments, active>>
    /\ Watched

RemoveMember(g, u) == /\ members' = members \ {<<g, u>>}
                      /\ UNCHANGED <<activeUsers, groupsOn, rolesOn, assignments, active, adding>>
                      /\ Watched

AssignUser(ro, u) == /\ active \in Ready
                     /\ userRoles' = userRoles \cup {<<ro, u>>}
                     /\ UNCHANGED <<directory, groupRoles, active, adding>>
                     /\ Watched

AssignGroup(ro, g) == /\ active \in Ready
                      /\ groupRoles' = groupRoles \cup {<<ro, g>>}
                      /\ UNCHANGED <<directory, userRoles, active, adding>>
                      /\ Watched

UnassignUser(ro, u) == /\ userRoles' = userRoles \ {<<ro, u>>}
                       /\ UNCHANGED <<directory, groupRoles, active, adding>>
                       /\ Watched

UnassignGroup(ro, g) == /\ groupRoles' = groupRoles \ {<<ro, g>>}
                        /\ UNCHANGED <<directory, userRoles, active, adding>>
                        /\ Watched

\* application_has_role_assignments
Assigned == userRoles # {} \/ groupRoles # {}

Activate(rel) == /\ Assigned => rel \in Ready
                 /\ active' = rel
                 /\ UNCHANGED <<directory, assignments, adding>>
                 /\ Watched

-----------------------------------------------------------------------------
(* Evaluation.                                                             *)

\* project_identity: groups and roles, only if the release's schema has them.
Projected(rel, nodes) == IF rel \in Ready THEN nodes ELSE nodes \cap User

\* policy::evaluate, in its order: tenant check, then Cedar's rule that any
\* satisfied forbid outweighs the permits.
Outcome(r, rel, nodes) ==
    IF rel = NoRelease THEN "no_active_release"
    ELSE IF r \in foreign THEN "tenant_mismatch"
    ELSE IF Forbids[rel] \cap nodes # {} THEN "explicit_forbid"
    ELSE IF Permits[rel] \cap nodes # {} THEN "permit"
    ELSE "no_permit"

\* The caller is authenticated and the request is well-formed.
Ask(r, u) == /\ stage[r] = "idle"
             /\ stage' = [stage EXCEPT ![r] = "identity"]
             /\ subject' = [subject EXCEPT ![r] = u]
             /\ foreign' \in {foreign, foreign \cup {r}}
             /\ seen' = [seen EXCEPT ![r] = {Shown(u)}]
             /\ UNCHANGED <<directory, assignments, active, adding, graph, release, reason, log, inForce>>

\* The subject is not found, or the release comes next.
Identified(r, nodes) ==
    /\ graph' = [graph EXCEPT ![r] = nodes]
    /\ stage' = [stage EXCEPT ![r] = IF nodes = {} THEN "record" ELSE "release"]
    /\ reason' = [reason EXCEPT ![r] = IF nodes = {} THEN "subject_not_found" ELSE @]
    /\ inForce' = [inForce EXCEPT ![r] = {active}]
    /\ UNCHANGED <<directory, assignments, active, adding, subject, foreign, release, log, seen>>

\* Mutant of ReadIdentity: the groups are those of an earlier statement.
ReadGroupsFirst(r) ==
    /\ stage[r] = "identity"
    /\ \E earlier \in seen[r] :
          Identified(r, (earlier \cap Group) \cup (Identity(subject[r]) \ Group))

ReadIdentity(r) == stage[r] = "identity" /\ Identified(r, Identity(subject[r]))

\* The policies of the release are evaluated over what the projection left.
Decide(r, rel, nodes) ==
    /\ release' = [release EXCEPT ![r] = rel]
    /\ graph' = [graph EXCEPT ![r] = nodes]
    /\ reason' = [reason EXCEPT ![r] = Outcome(r, rel, nodes)]
    /\ stage' = [stage EXCEPT ![r] = "record"]
    /\ UNCHANGED <<directory, assignments, active, adding, subject, foreign, log, history>>

\* Mutant of ReadRelease: the groups are read by a statement of their own.
ReadGroupsApart(r) ==
    /\ stage[r] = "release"
    /\ Decide(r, active, Projected(active, (graph[r] \ Group) \cup EnabledGroups(subject[r])))

\* Mutant of ReadRelease: the schema is asked of a release read before.
ReadSchemaApart(r) ==
    /\ stage[r] = "release"
    /\ \E earlier \in inForce[r] : Decide(r, active, Projected(earlier, graph[r]))

ReadRelease(r) == stage[r] = "release" /\ Decide(r, active, Projected(active, graph[r]))

Entry(r) == [reason |-> reason[r], graph |-> graph[r]]

\* Mutant of Record: an insert that fails does not stop the answer.
RecordOrNot(r) ==
    /\ stage[r] = "record"
    /\ \/ log' = [log EXCEPT ![r] = Entry(r)]
       \/ log' = log
    /\ stage' = [stage EXCEPT ![r] = "answered"]
    /\ UNCHANGED <<directory, assignments, active, adding, subject, foreign, graph, release, reason, history>>

\* record_decision, then the answer
Record(r) ==
    /\ stage[r] = "record"
    /\ log' = [log EXCEPT ![r] = Entry(r)]
    /\ stage' = [stage EXCEPT ![r] = "answered"]
    /\ UNCHANGED <<directory, assignments, active, adding, subject, foreign, graph, release, reason, history>>

\* The answer is delivered; or, before that, a statement fails, the schema
\* rejects the request's own attributes, or the client goes away.
End(r) ==
    /\ stage[r] # "idle"
    /\ stage' = [stage EXCEPT ![r] = "idle"]
    /\ graph' = [graph EXCEPT ![r] = {}]
    /\ release' = [release EXCEPT ![r] = NoRelease]
    /\ reason' = [reason EXCEPT ![r] = "none"]
    /\ log' = [log EXCEPT ![r] = NoLog]
    /\ foreign' = foreign \ {r}
    /\ seen' = [seen EXCEPT ![r] = {}]
    /\ inForce' = [inForce EXCEPT ![r] = {}]
    /\ UNCHANGED <<directory, assignments, active, adding, subject>>

Next == \/ \E u \in User : SetUserStatus(u)
        \/ \E g \in Group : UpdateGroup(g)
        \/ \E ro \in Role : UpdateRole(ro)
        \/ \E a \in Adder, g \in Group, u \in User : CheckMember(a, g, u) \/ InsertMember(a, g, u)
        \/ \E g \in Group, u \in User : RemoveMember(g, u)
        \/ \E ro \in Role, u \in User : AssignUser(ro, u) \/ UnassignUser(ro, u)
        \/ \E ro \in Role, g \in Group : AssignGroup(ro, g) \/ UnassignGroup(ro, g)
        \/ \E rel \in Release : Activate(rel)
        \/ \E r \in Request, u \in User : Ask(r, u)
        \/ \E r \in Request : ReadIdentity(r) \/ ReadRelease(r) \/ Record(r) \/ End(r)

Spec == Init /\ [][Next]_vars

-----------------------------------------------------------------------------
(* Properties.                                                             *)

\* Every variable has its type.
TypeOK ==
    /\ activeUsers \subseteq User /\ groupsOn \subseteq Group /\ rolesOn \subseteq Role
    /\ members \subseteq Group \X User
    /\ userRoles \subseteq Role \X User /\ groupRoles \subseteq Role \X Group
    /\ active \in Release \cup {NoRelease}
    /\ adding \in [Adder -> SUBSET (Group \X User)]
    /\ foreign \subseteq Request
    /\ stage \in [Request -> Stages] /\ subject \in [Request -> User]
    /\ graph \in [Request -> SUBSET Entity] /\ release \in [Request -> Release \cup {NoRelease}]
    /\ reason \in [Request -> Reasons \cup {"none"}]
    /\ log \in [Request -> [reason : Reasons, graph : SUBSET Entity] \cup {NoLog}]
    /\ seen \in [Request -> SUBSET SUBSET Entity]
    /\ inForce \in [Request -> SUBSET (Release \cup {NoRelease})]

\* A user is in at most one physical group, however many add_group_member
\* requests found him in none before any of them inserted its row.
OnePhysicalGroup ==
    \A g, h \in Physical, u \in User :
        <<g, u>> \in members /\ <<h, u>> \in members => g = h

\* The roles the management API shows for a user are those that evaluations
\* find above him, and nobody who is not active has any: the two queries over
\* users, groups, roles, memberships and assignments agree.
ShownIsUsed == \A u \in User : Identity(u) = Shown(u)

Decided(r) == stage[r] \in {"record", "answered"}

Found(r, v) == /\ v # {}
               /\ graph[r] = Projected(release[r], v)
               /\ reason[r] = Outcome(r, release[r], graph[r])

Justified(r) ==
    \/ {} \in seen[r] /\ graph[r] = {} /\ reason[r] = "subject_not_found"
    \/ release[r] \in inForce[r] /\ \E v \in seen[r] : Found(r, v)

\* A decision, permit or denial, follows from what the management API showed
\* of its subject at one moment of the request and from a release that was
\* active at that moment or later in it: nothing from before the request, and
\* no mixture of two graphs.
DecisionsFresh == \A r \in Request : Decided(r) => Justified(r)

\* Groups and roles are handed to Cedar only with a schema that has them, the
\* schema of the very release whose policies decide: a release without them that
\* becomes active between the two reads does not make the evaluation fail.
GraphFitsSchema ==
    \A r \in Request : Decided(r) => graph[r] \subseteq User \/ release[r] \in Ready

\* An evaluation is answered only after its decision was recorded, with the
\* graph it followed from.
AnswersRecorded == \A r \in Request : stage[r] = "answered" => log[r] = Entry(r)

\* The inductive invariant: besides the above, what a request has read is one
\* of the graphs it may have seen.
Reading(r) == /\ stage[r] = "identity" => Shown(subject[r]) \in seen[r]
              /\ stage[r] = "release" => /\ graph[r] \in seen[r] \ {{}}
                                         /\ active \in inForce[r]
IInv == /\ TypeOK
        /\ OnePhysicalGroup
        /\ Assigned => active \in Ready
        /\ \A r \in Request : Reading(r)
        /\ DecisionsFresh /\ GraphFitsSchema
        /\ AnswersRecorded
=============================================================================
