-------------------------- MODULE PolicyLifecycle --------------------------
(***************************************************************************)
(* The policy store of one application: its workspace, its releases, the   *)
(* active release, its role assignments and its synchronized resources,    *)
(* and the HTTP handlers that change them.                                 *)
(*                                                                         *)
(* Every handler is a sequence of database statements.  The ones that run  *)
(* outside a transaction each see the tables of that instant; the final    *)
(* transaction first takes the advisory lock of the application            *)
(* (lock_application), checks again, and commits.  What a handler read     *)
(* before it took the lock may be stale by then: that is what the module   *)
(* is about.                                                               *)
(***************************************************************************)
EXTENDS Naturals

CONSTANTS
    Role, User, Group,  \* the application's roles, the organization's users and
                        \* groups: never deleted, their keys are immutable
    Request,        \* HTTP requests in flight
    Release,        \* release ids (bound on the number of publications)
    Resource,       \* (type, id) of business resources
    Declaration,    \* what a schema may declare and a resource may use:
                    \* entity types, optional attributes
    Draft,          \* the (schema, policies, entities) an administrator saves
    MaxOperations,  \* bound on the operations of one synchronization batch
    NoRelease, Nobody, NoPair

VARIABLES
    workspace,      \* policy_workspaces: the draft being edited
    groups,         \* keys of the organization's groups
    roles,          \* keys of the application's roles
    version,        \* policy_releases.version, 0 where there is no row
    content,        \* policy_releases.(schema_source, policies, entities)
    active,         \* active_policy_releases.release_id
    assigned,       \* application_role_{user,group}_assignments
    resources,      \* application_resources: rows <<resource, properties>>
    lock,           \* holder of pg_advisory_xact_lock(application)
    op,             \* which handler a request runs
    pc,             \* the statement it runs next
    draft,          \* the snapshot a publication works on
    release,        \* the release id a request holds
    pair,           \* the assignment it adds or removes
    number          \* the version it allocated, or the operations it has left

tables == <<workspace, groups, roles, version, content, active, assigned,
            resources>>
locals == <<draft, release, pair, number>>
vars   == <<tables, lock, op, pc, locals>>

-----------------------------------------------------------------------------
Subject == User \cup Group
Assignment == Role \X Subject

\* A draft is known by what the checks tell apart: whether
\* policy::validate_workspace accepts it, whether its schema satisfies the
\* identity contract, what the schema declares, and the groups and roles its
\* policies name.
DraftType == [valid : BOOLEAN, ready : BOOLEAN, declares : SUBSET Declaration,
              refs : SUBSET (Group \cup Role)]

\* create_application inserts a workspace whose schema is the empty string.
Blank == [valid |-> FALSE, ready |-> FALSE, declares |-> {}, refs |-> {}]

ASSUME DraftAssumption == Draft \subseteq DraftType
ASSUME ReleaseAssumption == NoRelease \notin Release
ASSUME RequestAssumption == Nobody \notin Request
ASSUME OperationsAssumption == MaxOperations \in Nat \ {0}

\* A stored resource: its type and id, and the declarations it uses.
Row == Resource \X SUBSET Declaration

Stages == {"idle", "validate", "evolve", "resources", "lock", "check",
           "commit", "apply"}
Handlers == {"none", "publish", "activate", "assign", "unassign", "sync"}

Published == {id \in Release : version[id] # 0}

\* A release id is a fresh UUID.
FreshIds == {id \in Release \ Published : \A r \in Request : release[r] # id}

\* The schema in force satisfies the User/Group/Role contract.
RoleReady == active # NoRelease /\ content[active].ready

Init == /\ workspace = Blank
        /\ groups = {}
        /\ roles = {}
        /\ version = [id \in Release |-> 0]
        /\ content = [id \in Release |-> Blank]
        /\ active = NoRelease
        /\ assigned = {}
        /\ resources = {}
        /\ lock = Nobody
        /\ op = [r \in Request |-> "none"]
        /\ pc = [r \in Request |-> "idle"]
        /\ draft = [r \in Request |-> Blank]
        /\ release = [r \in Request |-> NoRelease]
        /\ pair = [r \in Request |-> NoPair]
        /\ number = [r \in Request |-> 0]

-----------------------------------------------------------------------------
(* The pure checks.                                                        *)

\* Everything the current schema declares stays as it is; the next one may
\* add optional attributes, parent types and whole definitions.  A schema
\* that satisfies the identity contract cannot lose it that way.
BackwardCompatible(current, next) ==
    /\ current.declares \subseteq next.declares
    /\ current.ready => next.ready

\* Mutant of CandidateValid: the names are not looked up.
CandidateUnresolved(d) == d.valid /\ ((d.refs # {} \/ assigned # {}) => d.ready)

\* The candidate's policies name existing groups and roles only, and its
\* schema satisfies the identity contract when they name any or when the
\* application has assignments.
CandidateValid(d) ==
    /\ d.valid
    /\ d.refs \subseteq groups \cup roles
    /\ (d.refs # {} \/ assigned # {}) => d.ready

\* A stored resource conforms to a schema that declares all it uses.
Conforms(row, d) == row[2] \subseteq d.declares

-----------------------------------------------------------------------------
(* Requests.                                                               *)

Begin(r, handler, stage) ==
    /\ pc[r] = "idle"
    /\ op' = [op EXCEPT ![r] = handler]
    /\ pc' = [pc EXCEPT ![r] = stage]

At(r, handler, stage) == op[r] = handler /\ pc[r] = stage

Goto(r, stage) == /\ pc' = [pc EXCEPT ![r] = stage]
                  /\ UNCHANGED op

\* Mutant of Respond: the transaction stays open and keeps the lock.
RespondHoldingLock(r) == /\ op' = [op EXCEPT ![r] = "none"]
                         /\ pc' = [pc EXCEPT ![r] = "idle"]
                         /\ draft' = [draft EXCEPT ![r] = Blank]
                         /\ release' = [release EXCEPT ![r] = NoRelease]
                         /\ pair' = [pair EXCEPT ![r] = NoPair]
                         /\ number' = [number EXCEPT ![r] = 0]
                         /\ UNCHANGED lock

\* The handler returns: its locals go, and with the transaction the lock.
Respond(r) == /\ op' = [op EXCEPT ![r] = "none"]
              /\ pc' = [pc EXCEPT ![r] = "idle"]
              /\ draft' = [draft EXCEPT ![r] = Blank]
              /\ release' = [release EXCEPT ![r] = NoRelease]
              /\ pair' = [pair EXCEPT ![r] = NoPair]
              /\ number' = [number EXCEPT ![r] = 0]
              /\ lock' = IF lock = r THEN Nobody ELSE lock

\* The client disconnects, a statement fails or the server dies: the open
\* transaction rolls back.
Abort(r) == /\ pc[r] # "idle"
            /\ Respond(r)
            /\ UNCHANGED tables

\* Either the check holds and the handler goes on, or it answers an error.
Proceed(r, check, stage) == \/ /\ check
                               /\ Goto(r, stage)
                               /\ UNCHANGED <<lock, locals>>
                            \/ /\ ~check
                               /\ Respond(r)

\* Mutant of LockApplication: two transactions of the application overlap.
LockNothing(r) == /\ pc[r] = "lock"
                  /\ lock' = r
                  /\ Goto(r, "check")
                  /\ UNCHANGED <<tables, locals>>

LockApplication(r) == /\ pc[r] = "lock"
                      /\ lock = Nobody
                      /\ lock' = r
                      /\ Goto(r, "check")
                      /\ UNCHANGED <<tables, locals>>

-----------------------------------------------------------------------------
(* Single-statement handlers.                                              *)

UpdateWorkspace == \E d \in Draft :
    /\ workspace' = d
    /\ UNCHANGED <<groups, roles, version, content, active, assigned,
                   resources, lock, op, pc, locals>>

CreateGroup == \E g \in Group \ groups :
    /\ groups' = groups \cup {g}
    /\ UNCHANGED <<workspace, roles, version, content, active, assigned,
                   resources, lock, op, pc, locals>>

CreateRole == \E k \in Role \ roles :
    /\ roles' = roles \cup {k}
    /\ UNCHANGED <<workspace, groups, version, content, active, assigned,
                   resources, lock, op, pc, locals>>

-----------------------------------------------------------------------------
(* Publication.                                                            *)

PublishSnapshot(r) ==
    /\ Begin(r, "publish", "validate")
    /\ draft' = [draft EXCEPT ![r] = workspace]
    /\ \E id \in FreshIds : release' = [release EXCEPT ![r] = id]
    /\ UNCHANGED <<tables, lock, pair, number>>

PublishValidate(r) ==
    /\ At(r, "publish", "validate")
    /\ Proceed(r, CandidateValid(draft[r]), "evolve")
    /\ UNCHANGED tables

\* The active release is read, and the schemas compared, before the lock.
PublishEvolve(r) ==
    /\ At(r, "publish", "evolve")
    /\ Proceed(r, active # NoRelease =>
                      BackwardCompatible(content[active], draft[r]), "lock")
    /\ UNCHANGED tables

\* Mutant of AssignmentCompatible: the assignments are not looked at.
AnyCompatible(d) == TRUE

\* A release whose schema lacks the contract may not replace the active one
\* while the application has assignments.
AssignmentCompatible(d) == d.ready \/ assigned = {}

PublishCheck(r) ==
    /\ At(r, "publish", "check")
    /\ \/ /\ AssignmentCompatible(draft[r])
          /\ \E max \in {0} \cup {version[id] : id \in Release} :
                /\ \A id \in Release : version[id] <= max
                /\ number' = [number EXCEPT ![r] = max + 1]
          /\ Goto(r, "commit")
          /\ UNCHANGED <<lock, draft, release, pair>>
       \/ /\ ~AssignmentCompatible(draft[r])
          /\ Respond(r)
    /\ UNCHANGED tables

\* Mutant of PublishCommit: it rewrites the active release.
PublishInPlace(r) ==
    /\ At(r, "publish", "commit")
    /\ \E id \in Release :
        /\ id = IF active = NoRelease THEN release[r] ELSE active
        /\ version' = [version EXCEPT ![id] = number[r]]
        /\ content' = [content EXCEPT ![id] = draft[r]]
        /\ active' = id
    /\ Respond(r)
    /\ UNCHANGED <<workspace, groups, roles, assigned, resources>>

PublishCommit(r) ==
    /\ At(r, "publish", "commit")
    /\ version' = [version EXCEPT ![release[r]] = number[r]]
    /\ content' = [content EXCEPT ![release[r]] = draft[r]]
    /\ active' = release[r]
    /\ Respond(r)
    /\ UNCHANGED <<workspace, groups, roles, assigned, resources>>

-----------------------------------------------------------------------------
(* Activation of an earlier release.                                       *)

ActivateLoad(r) ==
    /\ Begin(r, "activate", "validate")
    /\ \E id \in Published : release' = [release EXCEPT ![r] = id]
    /\ UNCHANGED <<tables, lock, draft, pair, number>>

ActivateValidate(r) ==
    /\ At(r, "activate", "validate")
    /\ Proceed(r, CandidateValid(content[release[r]]), "resources")
    /\ UNCHANGED tables

\* All stored resources are read, and checked, before the lock.
ActivateResources(r) ==
    /\ At(r, "activate", "resources")
    /\ Proceed(r, \A row \in resources :
                      Conforms(row, content[release[r]]), "lock")
    /\ UNCHANGED tables

ActivateCheck(r) ==
    /\ At(r, "activate", "check")
    /\ Proceed(r, /\ release[r] \in Published
                  /\ AssignmentCompatible(content[release[r]]), "commit")
    /\ UNCHANGED tables

ActivateCommit(r) ==
    /\ At(r, "activate", "commit")
    /\ active' = release[r]
    /\ Respond(r)
    /\ UNCHANGED <<workspace, groups, roles, version, content, assigned,
                   resources>>

-----------------------------------------------------------------------------
(* Role assignments.                                                       *)

\* ensure_schema_ready: the handler remembers the release it has checked.
StartAssign(r, subject) ==
    /\ RoleReady
    /\ Begin(r, "assign", "lock")
    /\ release' = [release EXCEPT ![r] = active]
    /\ \E k \in roles : pair' = [pair EXCEPT ![r] = <<k, subject>>]
    /\ UNCHANGED <<tables, lock, draft, number>>

AssignUser(r) == \E u \in User : StartAssign(r, u)

AssignGroup(r) == \E g \in groups : StartAssign(r, g)

\* Mutant of ExpectedReleaseActive: the transaction does not look again.
AnyReleaseActive(r) == TRUE

\* ensure_active_release: the release checked before the lock is still active.
ExpectedReleaseActive(r) == active = release[r]

AssignCheck(r) ==
    /\ At(r, "assign", "check")
    /\ Proceed(r, pair[r] \notin assigned /\ ExpectedReleaseActive(r), "commit")
    /\ UNCHANGED tables

AssignCommit(r) ==
    /\ At(r, "assign", "commit")
    /\ assigned' = assigned \cup {pair[r]}
    /\ Respond(r)
    /\ UNCHANGED <<workspace, groups, roles, version, content, active,
                   resources>>

StartUnassign(r, subject) ==
    /\ Begin(r, "unassign", "lock")
    /\ \E k \in roles : pair' = [pair EXCEPT ![r] = <<k, subject>>]
    /\ UNCHANGED <<tables, lock, draft, release, number>>

UnassignUser(r) == \E u \in User : StartUnassign(r, u)

UnassignGroup(r) == \E g \in groups : StartUnassign(r, g)

RemoveAssignment(r) ==
    /\ At(r, "unassign", "check")
    /\ assigned' = assigned \ {pair[r]}
    /\ Respond(r)
    /\ UNCHANGED <<workspace, groups, roles, version, content, active,
                   resources>>

-----------------------------------------------------------------------------
(* Resource synchronization: one release for the batch, one autocommitted  *)
(* statement per operation, no lock.                                       *)

StartSync(r) ==
    /\ active # NoRelease
    /\ Begin(r, "sync", "apply")
    /\ release' = [release EXCEPT ![r] = active]
    /\ \E n \in 1..MaxOperations : number' = [number EXCEPT ![r] = n]
    /\ UNCHANGED <<tables, lock, draft, pair>>

\* The next operation of the batch is done; rows is the table it leaves.
Apply(r, rows) ==
    /\ number[r] > 0
    /\ resources' = rows
    /\ number' = [number EXCEPT ![r] = number[r] - 1]
    /\ UNCHANGED <<workspace, groups, roles, version, content, active,
                   assigned, lock, op, pc, draft, release, pair>>

Without(x) == {row \in resources : row[1] # x}

\* Mutant of SyncUpsert: the properties are not validated.
UpsertUnvalidated(r) == At(r, "sync", "apply") /\ \E row \in Row :
    Apply(r, Without(row[1]) \cup {row})

SyncUpsert(r) ==
    /\ At(r, "sync", "apply")
    /\ \E row \in Row : /\ Conforms(row, content[release[r]])
                        /\ Apply(r, Without(row[1]) \cup {row})

SyncDelete(r) ==
    /\ At(r, "sync", "apply")
    /\ \E x \in Resource : Apply(r, Without(x))

\* The operation does not validate, or its statement fails: the batch reports
\* it and goes on.
SyncFail(r) ==
    /\ At(r, "sync", "apply")
    /\ Apply(r, resources)

SyncRespond(r) == /\ At(r, "sync", "apply")
                  /\ number[r] = 0
                  /\ Respond(r)
                  /\ UNCHANGED tables

-----------------------------------------------------------------------------
Publish(r)  == \/ PublishValidate(r) \/ PublishEvolve(r)
               \/ PublishCheck(r) \/ PublishCommit(r)
Activate(r) == \/ ActivateValidate(r) \/ ActivateResources(r)
               \/ ActivateCheck(r) \/ ActivateCommit(r)
Assign(r)   == AssignCheck(r) \/ AssignCommit(r) \/ RemoveAssignment(r)
Sync(r)     == SyncUpsert(r) \/ SyncDelete(r) \/ SyncFail(r) \/ SyncRespond(r)

\* A new request arrives.
Arrive(r) == \/ PublishSnapshot(r) \/ ActivateLoad(r) \/ StartSync(r)
             \/ AssignUser(r) \/ AssignGroup(r)
             \/ UnassignUser(r) \/ UnassignGroup(r)

\* A request in flight runs its next statement, the lock apart.
Advance(r) == Publish(r) \/ Activate(r) \/ Assign(r) \/ Sync(r)

Next == \/ UpdateWorkspace \/ CreateGroup \/ CreateRole
        \/ \E r \in Request : \/ Arrive(r) \/ LockApplication(r)
                              \/ Advance(r) \/ Abort(r)

Spec == Init /\ [][Next]_vars

\* The server runs every request it has accepted, and PostgreSQL grants an
\* advisory lock in the order of the waiting queue.
Fairness == \A r \in Request : /\ WF_vars(Advance(r))
                               /\ SF_vars(LockApplication(r))

FairSpec == Spec /\ Fairness

-----------------------------------------------------------------------------
(* Properties.                                                             *)

TypeOK ==
    /\ workspace \in DraftType
    /\ groups \subseteq Group
    /\ roles \subseteq Role
    /\ version \in [Release -> Nat]
    /\ content \in [Release -> DraftType]
    /\ active \in Release \cup {NoRelease}
    /\ assigned \subseteq Assignment
    /\ resources \subseteq Row
    /\ lock \in Request \cup {Nobody}
    /\ op \in [Request -> Handlers]
    /\ pc \in [Request -> Stages]
    /\ draft \in [Request -> DraftType]
    /\ release \in [Request -> Release \cup {NoRelease}]
    /\ pair \in [Request -> Assignment \cup {NoPair}]
    /\ number \in [Request -> Nat]

\* Assignments exist only while the active release satisfies the User, Group
\* and Role contract, whatever publications, rollbacks and assignments overlap
\* (README.md:152; ensure_assignment_compatibility against ensure_schema_ready
\* and ensure_active_release).
AssignmentsNeedReadyRelease == assigned # {} => RoleReady

\* Concurrent publications number the releases of the application 1, 2, 3, ...
\* without a duplicate or a gap (max(version) + 1 read under the lock).
VersionsSerial ==
    /\ \A a, b \in Published : version[a] = version[b] => a = b
    /\ \A a \in Published : \A n \in 1..version[a] :
          \E b \in Published : version[b] = n

\* The policies of a published release name existing groups and roles only,
\* although they are looked up long before the publication commits
\* (validate_policy_candidate).
ReferencesResolve == \A id \in Published : content[id].refs \subseteq groups \cup roles

\* A stored resource was accepted by some published schema, although the batch
\* that wrote it may have been overtaken by publications and rollbacks
\* (apply_operation).
ResourcesConformToSomeRelease == \A row \in resources :
    \E id \in Published : Conforms(row, content[id])

\* What holds of every request between two of its statements, and makes the
\* invariants above inductive.
LockHeld == \A r \in Request : pc[r] \in {"check", "commit"} => lock = r

ReleasesHeld ==
    /\ active # NoRelease => active \in Published
    /\ \A r \in Request :
        /\ op[r] = "publish" =>
            /\ release[r] \in Release \ Published
            /\ \A q \in Request \ {r} : release[q] # release[r]
        /\ op[r] \in {"activate", "assign", "sync"} => release[r] \in Published

InputsHeld == \A r \in Request :
    /\ op[r] = "publish" /\ pc[r] # "validate" => draft[r].refs \subseteq groups \cup roles
    /\ op[r] = "assign" => content[release[r]].ready
    /\ op[r] \in {"assign", "unassign"} => pair[r] \in Assignment

NextVersion(n) == /\ \A id \in Release : version[id] < n
                  /\ n = 1 \/ \E id \in Release : version[id] = n - 1

CommitsChecked == \A r \in Request : pc[r] = "commit" =>
    /\ op[r] = "publish" => AssignmentCompatible(draft[r]) /\ NextVersion(number[r])
    /\ op[r] = "activate" => AssignmentCompatible(content[release[r]])
    /\ op[r] = "assign" => active = release[r]

\* The inductive invariant: a transaction past its check holds the lock, so
\* what it checked is still true when it commits; release ids a request holds
\* are published, or reserved for it alone.
IInv == /\ TypeOK
        /\ LockHeld /\ ReleasesHeld /\ InputsHeld /\ CommitsChecked
        /\ AssignmentsNeedReadyRelease
        /\ VersionsSerial
        /\ ReferencesResolve
        /\ ResourcesConformToSomeRelease

\* A published release keeps its version and its content (README.md:21).
ReleasesKept == \A id \in Published : /\ version'[id] = version[id]
                                       /\ content'[id] = content[id]

ReleasesImmutable == [][ReleasesKept]_vars

\* A request that was accepted is answered: neither a check that fails nor the
\* wait for the application's lock leaves it, or the others, hanging.
RequestsFinish == \A r \in Request : pc[r] # "idle" ~> pc[r] = "idle"

\* To the assignments, the store is the gate of AssignmentGate.
Gate == INSTANCE AssignmentGate WITH
    Pair <- Assignment, gateOpen <- RoleReady, granted <- assigned

GateSpec == Gate!Spec

-----------------------------------------------------------------------------
(* What the code says of itself and two overlapping requests refute.       *)

\* policy.rs:157, "Cedar schema evolution must be backward compatible": a
\* publication replaces the active release by a compatible one.  The active
\* release is compared before the lock is taken and not again.
CommitsEvolve ==
    \A r \in Request : PublishCommit(r) /\ active # NoRelease
        => BackwardCompatible(content[active], content'[active'])

PublicationEvolves == [][CommitsEvolve]_vars

\* README.md:249, "validating a synchronized resource against the active Cedar
\* schema": what a batch writes conforms to the schema active at that time.
\* The batch validates against the release that was active when it began.
WritesConform == \A row \in resources' \ resources : Conforms(row, content[active])

SyncConformsToActive == [][WritesConform]_vars

-----------------------------------------------------------------------------
(* Where the line runs: what keeps those two true is that some requests do *)
(* not overlap.  Nothing in the code sees to it; whoever operates the      *)
(* application can.                                                        *)

Publishing(r) == op[r] \in {"publish", "activate"}

\* Publications and rollbacks one at a time.
OnePublisher == \A q, r \in Request : Publishing(q) /\ Publishing(r) => q = r

\* No rollback during a synchronization, nor one during a rollback.
RollbacksApart == \A q, r \in Request : op[q] = "activate" => op[r] # "sync"

\* Every stored resource conforms to the active schema, so that an evaluation
\* that loads it does not fail on it.
StoreConforms == \A row \in resources : active # NoRelease /\ Conforms(row, content[active])

\* The draft of a publication past its comparison evolves what is active.
DraftEvolves(r) ==
    op[r] = "publish" /\ pc[r] \in {"lock", "check", "commit"} /\ active # NoRelease
        => BackwardCompatible(content[active], draft[r])

\* The release of a batch is evolved by the active one, and that of a rollback
\* past its check of the resources accepts them all.
BatchEvolved(r) == op[r] = "sync" =>
    active # NoRelease /\ content[release[r]].declares \subseteq content[active].declares

RollbackAccepts(r) == op[r] = "activate" /\ pc[r] \in {"lock", "check", "commit"} =>
    \A row \in resources : Conforms(row, content[release[r]])

\* The inductive invariants of the runs in which they do not overlap.
EvolvesInv == IInv /\ \A r \in Request : DraftEvolves(r)

ApartInv == /\ EvolvesInv
            /\ StoreConforms
            /\ \A r \in Request : BatchEvolved(r) /\ RollbackAccepts(r)

-----------------------------------------------------------------------------
(* What RequestsFinish rests on, fairness aside.                           *)

\* The lock is held by a request between its check and its answer, and by no
\* other: no path returns with it.
LockOwned == \A r \in Request : lock = r <=> pc[r] \in {"check", "commit"}

\* How many statements a request has before it, at most.
StepsLeft(r) == CASE pc[r] = "idle" -> 0
                  [] pc[r] = "commit" -> 1
                  [] pc[r] = "check" -> 2
                  [] pc[r] = "lock" -> 3
                  [] pc[r] \in {"evolve", "resources"} -> 4
                  [] pc[r] = "validate" -> 5
                  [] pc[r] = "apply" -> 1 + number[r]

\* Every statement a request runs brings it nearer to its answer, and nothing
\* that others do sets it back.
Nearer == \A r \in Request :
    pc[r] # "idle" => /\ StepsLeft(r)' <= StepsLeft(r)
                      /\ Advance(r) \/ LockApplication(r) => StepsLeft(r)' < StepsLeft(r)

StepsRunOut == [][Nearer]_vars
=============================================================================
