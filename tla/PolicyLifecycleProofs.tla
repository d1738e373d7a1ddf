----------------------- MODULE PolicyLifecycleProofs -----------------------
(***************************************************************************)
(* Proofs about PolicyLifecycle, for any number of requests, releases,     *)
(* roles, users, groups, resources and drafts.                             *)
(***************************************************************************)
EXTENDS PolicyLifecycle, TLAPS

USE DraftAssumption, ReleaseAssumption, RequestAssumption, OperationsAssumption

\* The store starts empty.
LEMMA InitIInv == Init => IInv
  BY DEF Init, IInv, TypeOK, DraftType, Blank, Handlers, Stages, LockHeld, ReleasesHeld,
         InputsHeld, CommitsChecked, AssignmentsNeedReadyRelease, VersionsSerial,
         ReferencesResolve, ResourcesConformToSomeRelease, Published

\* What the tables satisfy, they satisfy as long as they do not change.
LEMMA TablesKeep ==
  ASSUME IInv, UNCHANGED tables
  PROVE  (/\ AssignmentsNeedReadyRelease /\ VersionsSerial
          /\ ReferencesResolve /\ ResourcesConformToSomeRelease)'
  BY DEF IInv, tables, AssignmentsNeedReadyRelease, RoleReady, VersionsSerial,
         ReferencesResolve, ResourcesConformToSomeRelease, Published, Conforms

\* A request that is answered without a commit leaves every obligation behind.
LEMMA RespondStep ==
  ASSUME IInv, NEW r \in Request, Respond(r), UNCHANGED tables
  PROVE  IInv'
<1> USE DEF IInv, Respond, tables
<1>1. TypeOK'
  BY DEF TypeOK, DraftType, Blank, Handlers, Stages
<1>2. LockHeld'
  BY DEF LockHeld, TypeOK
<1>3. ReleasesHeld'
  BY DEF ReleasesHeld, TypeOK, Published
<1>4. InputsHeld'
  BY DEF InputsHeld, TypeOK
<1>5. CommitsChecked'
  BY DEF CommitsChecked, TypeOK, AssignmentCompatible, NextVersion
<1>6. QED BY <1>1, <1>2, <1>3, <1>4, <1>5, TablesKeep

\* Saving a draft, creating a group and creating a role touch no request, and
\* only add names that references may resolve to.
LEMMA EditStep ==
  ASSUME IInv, UpdateWorkspace \/ CreateGroup \/ CreateRole
  PROVE  IInv'
<1> USE DEF IInv, UpdateWorkspace, CreateGroup, CreateRole, locals
<1>1. TypeOK'
  BY DEF TypeOK
<1>2. (LockHeld /\ ReleasesHeld /\ InputsHeld)'
  BY DEF LockHeld, ReleasesHeld, InputsHeld, Published
<1>3. CommitsChecked'
  BY DEF CommitsChecked, AssignmentCompatible, NextVersion
<1>4. (/\ AssignmentsNeedReadyRelease /\ VersionsSerial
       /\ ReferencesResolve /\ ResourcesConformToSomeRelease)'
  BY DEF AssignmentsNeedReadyRelease, RoleReady, VersionsSerial, ReferencesResolve,
         ResourcesConformToSomeRelease, Published, Conforms
<1>5. QED BY <1>1, <1>2, <1>3, <1>4

\* A request that arrives holds a release that is published, or a fresh one.
LEMMA ArriveStep ==
  ASSUME IInv, NEW r \in Request, Arrive(r)
  PROVE  IInv'
<1> USE DEF IInv, Begin
<1>1. UNCHANGED tables
  BY DEF Arrive, PublishSnapshot, ActivateLoad, StartSync, AssignUser, AssignGroup,
         UnassignUser, UnassignGroup, StartAssign, StartUnassign
<1>2. CASE PublishSnapshot(r)
  <2>1. TypeOK'
    BY <1>2 DEF tables, PublishSnapshot, TypeOK, Stages, Handlers, FreshIds, Published
  <2>2. (LockHeld /\ ReleasesHeld /\ InputsHeld /\ CommitsChecked)'
    BY <1>2 DEF tables, PublishSnapshot, TypeOK, FreshIds, LockHeld, ReleasesHeld, InputsHeld,
                CommitsChecked, Published, AssignmentCompatible, NextVersion
  <2>3. QED BY <2>1, <2>2, <1>1, TablesKeep
<1>3. CASE ActivateLoad(r)
  <2>1. TypeOK'
    BY <1>3 DEF tables, ActivateLoad, TypeOK, Stages, Handlers, Published
  <2>2. (LockHeld /\ ReleasesHeld /\ InputsHeld /\ CommitsChecked)'
    BY <1>3 DEF tables, ActivateLoad, TypeOK, LockHeld, ReleasesHeld, InputsHeld,
                CommitsChecked, Published, AssignmentCompatible, NextVersion
  <2>3. QED BY <2>1, <2>2, <1>1, TablesKeep
<1>4. CASE StartSync(r)
  <2>1. TypeOK'
    BY <1>4 DEF tables, StartSync, TypeOK, Stages, Handlers, Published
  <2>2. (LockHeld /\ ReleasesHeld /\ InputsHeld /\ CommitsChecked)'
    BY <1>4 DEF tables, StartSync, TypeOK, LockHeld, ReleasesHeld, InputsHeld,
                CommitsChecked, Published, AssignmentCompatible, NextVersion
  <2>3. QED BY <2>1, <2>2, <1>1, TablesKeep
<1>5. ASSUME NEW s \in Subject, StartAssign(r, s)
      PROVE  IInv'
  <2>1. TypeOK'
    BY <1>5 DEF tables, StartAssign, TypeOK, Stages, Handlers, Assignment
  <2>2. (LockHeld /\ ReleasesHeld /\ InputsHeld /\ CommitsChecked)'
    BY <1>5 DEF tables, StartAssign, TypeOK, LockHeld, ReleasesHeld, InputsHeld, RoleReady,
                CommitsChecked, Published, AssignmentCompatible, NextVersion, Assignment
  <2>3. QED BY <2>1, <2>2, <1>1, TablesKeep
<1>6. ASSUME NEW s \in Subject, StartUnassign(r, s)
      PROVE  IInv'
  <2>1. TypeOK'
    BY <1>6 DEF tables, StartUnassign, TypeOK, Stages, Handlers, Assignment
  <2>2. (LockHeld /\ ReleasesHeld /\ InputsHeld /\ CommitsChecked)'
    BY <1>6 DEF tables, StartUnassign, TypeOK, LockHeld, ReleasesHeld, InputsHeld,
                CommitsChecked, Published, AssignmentCompatible, NextVersion, Assignment
  <2>3. QED BY <2>1, <2>2, <1>1, TablesKeep
<1>7. QED
  BY <1>2, <1>3, <1>4, <1>5, <1>6
  DEF Arrive, AssignUser, AssignGroup, UnassignUser, UnassignGroup, Subject, TypeOK

\* The transaction of r has the lock, and therefore no other has.
LEMMA LockStep ==
  ASSUME IInv, NEW r \in Request, LockApplication(r)
  PROVE  IInv'
<1> USE DEF IInv, LockApplication, Goto, tables, locals
<1>1. TypeOK'
  BY DEF TypeOK, Stages
<1>2. LockHeld'
  BY DEF LockHeld, TypeOK
<1>3. (ReleasesHeld /\ InputsHeld /\ CommitsChecked)'
  BY DEF ReleasesHeld, InputsHeld, CommitsChecked, TypeOK, Published,
         AssignmentCompatible, NextVersion
<1>4. QED BY <1>1, <1>2, <1>3, TablesKeep

\* A check before the lock: what it reads is not relied on later, except that
\* the names a candidate mentions exist.
LEMMA EarlyCheckStep ==
  ASSUME IInv, NEW r \in Request,
         \/ PublishValidate(r) \/ PublishEvolve(r)
         \/ ActivateValidate(r) \/ ActivateResources(r)
  PROVE  IInv'
<1> USE DEF IInv, At, PublishValidate, PublishEvolve, ActivateValidate, ActivateResources
<1>1. CASE Respond(r)
  BY <1>1, RespondStep
<1>2. CASE ~Respond(r)
  <2>1. /\ UNCHANGED <<tables, lock, locals, op>>
        /\ \E stage \in {"evolve", "resources", "lock"} : pc' = [pc EXCEPT ![r] = stage]
        /\ pc[r] = "validate" /\ op[r] = "publish" => CandidateValid(draft[r])
    BY <1>2 DEF Proceed, Goto
  <2>2. TypeOK'
    BY <2>1 DEF TypeOK, Stages, tables, locals
  <2>3. (LockHeld /\ ReleasesHeld /\ CommitsChecked)'
    BY <2>1 DEF LockHeld, ReleasesHeld, CommitsChecked, TypeOK, Published,
                AssignmentCompatible, NextVersion, tables, locals
  <2>4. InputsHeld'
    BY <2>1 DEF InputsHeld, CandidateValid, TypeOK, tables, locals
  <2>5. QED BY <2>1, <2>2, <2>3, <2>4, TablesKeep
<1>3. QED BY <1>1, <1>2

\* A check under the lock establishes what the commit relies on.
LEMMA LockedCheckStep ==
  ASSUME IInv, NEW r \in Request, PublishCheck(r) \/ ActivateCheck(r) \/ AssignCheck(r)
  PROVE  IInv'
<1> USE DEF IInv, At
<1>1. CASE Respond(r)
  BY <1>1, RespondStep DEF PublishCheck, ActivateCheck, AssignCheck
<1>2. CASE ~Respond(r)
  <2>1. /\ UNCHANGED <<tables, lock, op, draft, release, pair>>
        /\ pc[r] = "check" /\ pc' = [pc EXCEPT ![r] = "commit"]
        /\ \A q \in Request \ {r} : number'[q] = number[q]
        /\ number' \in [Request -> Nat]
    <3>1. CASE PublishCheck(r)
      BY <1>2, <3>1 DEF PublishCheck, Goto, TypeOK, tables
    <3>2. CASE ActivateCheck(r) \/ AssignCheck(r)
      BY <1>2, <3>2 DEF ActivateCheck, AssignCheck, Proceed, Goto, TypeOK, tables, locals
    <3>3. QED BY <3>1, <3>2
  <2>2. TypeOK'
    BY <2>1 DEF TypeOK, Stages, tables
  <2>3. (LockHeld /\ ReleasesHeld /\ InputsHeld)'
    BY <2>1 DEF LockHeld, ReleasesHeld, InputsHeld, TypeOK, Published, tables
  <2>4. pc'[r] = "commit" =>
          /\ op[r] = "publish" => AssignmentCompatible(draft[r]) /\ NextVersion(number'[r])
          /\ op[r] = "activate" => AssignmentCompatible(content[release[r]])
          /\ op[r] = "assign" => active = release[r]
    <3>1. CASE PublishCheck(r)
      BY <1>2, <3>1 DEF PublishCheck, NextVersion, TypeOK
    <3>2. CASE ActivateCheck(r)
      BY <1>2, <3>2 DEF ActivateCheck, Proceed
    <3>3. CASE AssignCheck(r)
      BY <1>2, <3>3 DEF AssignCheck, Proceed, ExpectedReleaseActive
    <3>4. QED BY <3>1, <3>2, <3>3
  <2>5. CommitsChecked'
    BY <2>1, <2>4 DEF CommitsChecked, TypeOK, AssignmentCompatible, NextVersion, tables
  <2>6. QED BY <2>1, <2>2, <2>3, <2>5, TablesKeep
<1>3. QED BY <1>1, <1>2

\* Publishing a release: the transactions of the others are not past their
\* checks, so nothing they rely on changes.
LEMMA PublishCommitStep ==
  ASSUME IInv, NEW r \in Request, PublishCommit(r)
  PROVE  IInv'
<1> USE DEF IInv, PublishCommit, At, Respond
<1>1. /\ release[r] \in Release \ Published
      /\ AssignmentCompatible(draft[r]) /\ NextVersion(number[r])
      /\ draft[r].refs \subseteq groups \cup roles
      /\ \A q \in Request \ {r} : /\ pc[q] \notin {"check", "commit"}
                                 /\ release[q] # release[r]
  BY DEF LockHeld, ReleasesHeld, InputsHeld, CommitsChecked, TypeOK
<1>2. number[r] \in Nat \ {0}
  BY <1>1 DEF NextVersion, TypeOK
<1>3. Published' = Published \cup {release[r]}
  BY <1>1, <1>2 DEF Published, TypeOK
<1>4. TypeOK'
  BY <1>1 DEF TypeOK, Blank, DraftType, Stages, Handlers
<1>5. LockHeld'
  BY <1>1 DEF LockHeld, TypeOK
<1>6. ReleasesHeld'
  BY <1>1, <1>3 DEF ReleasesHeld, TypeOK
<1>7. InputsHeld'
  BY <1>1 DEF InputsHeld, TypeOK
<1>8. CommitsChecked'
  BY <1>1 DEF CommitsChecked, TypeOK
<1>9. AssignmentsNeedReadyRelease'
  BY <1>1 DEF AssignmentsNeedReadyRelease, AssignmentCompatible, RoleReady, TypeOK
<1>10. VersionsSerial'
  <2>1. /\ \A id \in Published : version'[id] = version[id] /\ version[id] < number[r]
        /\ version'[release[r]] = number[r]
        /\ release[r] \in Published' /\ Published \subseteq Published'
        /\ version \in [Release -> Nat] /\ Published \subseteq Release
    BY <1>1, <1>2, <1>3 DEF NextVersion, Published, TypeOK
  <2>2. ASSUME NEW a \in Published', NEW b \in Published', version'[a] = version'[b]
        PROVE  a = b
    BY <2>1, <2>2, <1>2, <1>3 DEF VersionsSerial
  <2>3. ASSUME NEW a \in Published', NEW n \in 1..version'[a]
        PROVE  \E b \in Published' : version'[b] = n
    <3>1. CASE n = number[r]
      BY <3>1, <2>1
    <3>2. CASE a \in Published
      BY <3>2, <2>1 DEF VersionsSerial
    <3>3. CASE a = release[r] /\ n # number[r]
      <4>1. number[r] # 1 /\ n \in 1..(number[r] - 1)
        BY <3>3, <2>1, <1>2
      <4>2. PICK c \in Release : version[c] = number[r] - 1
        BY <4>1, <1>1 DEF NextVersion
      <4>3. c \in Published
        BY <4>1, <4>2, <1>2 DEF Published
      <4>4. QED BY <4>1, <4>2, <4>3, <2>1 DEF VersionsSerial
    <3>4. QED BY <3>1, <3>2, <3>3, <1>3
  <2>4. QED BY <2>2, <2>3 DEF VersionsSerial
<1>11. (ReferencesResolve /\ ResourcesConformToSomeRelease)'
  BY <1>1, <1>3 DEF ReferencesResolve, ResourcesConformToSomeRelease, Conforms, TypeOK,
                    Published
<1>12. QED
  BY <1>4, <1>5, <1>6, <1>7, <1>8, <1>9, <1>10, <1>11

\* Activating an earlier release.
LEMMA ActivateCommitStep ==
  ASSUME IInv, NEW r \in Request, ActivateCommit(r)
  PROVE  IInv'
<1> USE DEF IInv, ActivateCommit, At, Respond
<1>1. /\ release[r] \in Published
      /\ AssignmentCompatible(content[release[r]])
      /\ \A q \in Request \ {r} : pc[q] \notin {"check", "commit"}
  BY DEF LockHeld, ReleasesHeld, CommitsChecked, TypeOK
<1>2. TypeOK'
  BY <1>1 DEF TypeOK, Published, Blank, DraftType, Stages, Handlers
<1>3. (LockHeld /\ ReleasesHeld /\ InputsHeld /\ CommitsChecked)'
  BY <1>1 DEF LockHeld, ReleasesHeld, InputsHeld, CommitsChecked, TypeOK, Published
<1>4. AssignmentsNeedReadyRelease'
  BY <1>1 DEF AssignmentsNeedReadyRelease, AssignmentCompatible, RoleReady, Published
<1>5. (VersionsSerial /\ ReferencesResolve /\ ResourcesConformToSomeRelease)'
  BY DEF VersionsSerial, ReferencesResolve, ResourcesConformToSomeRelease, Published,
         Conforms
<1>6. QED BY <1>2, <1>3, <1>4, <1>5

\* Adding an assignment: the release it was checked against is still active.
LEMMA AssignCommitStep ==
  ASSUME IInv, NEW r \in Request, AssignCommit(r)
  PROVE  IInv'
<1> USE DEF IInv, AssignCommit, At, Respond
<1>1. /\ active = release[r] /\ release[r] \in Published
      /\ content[active].ready
      /\ pair[r] \in Assignment
      /\ \A q \in Request \ {r} : pc[q] \notin {"check", "commit"}
  BY DEF LockHeld, ReleasesHeld, InputsHeld, CommitsChecked, TypeOK
<1>2. TypeOK'
  BY <1>1 DEF TypeOK, Blank, DraftType, Stages, Handlers
<1>3. (LockHeld /\ ReleasesHeld /\ InputsHeld /\ CommitsChecked)'
  BY <1>1 DEF LockHeld, ReleasesHeld, InputsHeld, CommitsChecked, TypeOK, Published
<1>4. AssignmentsNeedReadyRelease'
  BY <1>1 DEF AssignmentsNeedReadyRelease, RoleReady, Published
<1>5. (VersionsSerial /\ ReferencesResolve /\ ResourcesConformToSomeRelease)'
  BY DEF VersionsSerial, ReferencesResolve, ResourcesConformToSomeRelease, Published,
         Conforms
<1>6. QED BY <1>2, <1>3, <1>4, <1>5

\* Removing one.
LEMMA RemoveAssignmentStep ==
  ASSUME IInv, NEW r \in Request, RemoveAssignment(r)
  PROVE  IInv'
<1> USE DEF IInv, RemoveAssignment, At, Respond
<1>1. TypeOK'
  BY DEF TypeOK, Blank, DraftType, Stages, Handlers
<1>2. (LockHeld /\ ReleasesHeld /\ InputsHeld /\ CommitsChecked)'
  BY DEF LockHeld, ReleasesHeld, InputsHeld, CommitsChecked, TypeOK, Published,
         AssignmentCompatible, NextVersion
<1>3. AssignmentsNeedReadyRelease'
  BY DEF AssignmentsNeedReadyRelease, RoleReady
<1>4. (VersionsSerial /\ ReferencesResolve /\ ResourcesConformToSomeRelease)'
  BY DEF VersionsSerial, ReferencesResolve, ResourcesConformToSomeRelease, Published,
         Conforms
<1>5. QED BY <1>1, <1>2, <1>3, <1>4

\* An operation of a batch: the release it validates against stays published.
LEMMA SyncStep ==
  ASSUME IInv, NEW r \in Request, SyncUpsert(r) \/ SyncDelete(r) \/ SyncFail(r)
  PROVE  IInv'
<1> USE DEF IInv, SyncUpsert, SyncDelete, SyncFail, Apply, At, Without
<1>1. TypeOK'
  BY DEF TypeOK
<1>2. (LockHeld /\ ReleasesHeld /\ InputsHeld)'
  BY DEF LockHeld, ReleasesHeld, InputsHeld, Published
<1>3. CommitsChecked'
  BY DEF CommitsChecked, TypeOK, AssignmentCompatible, NextVersion
<1>4. (AssignmentsNeedReadyRelease /\ VersionsSerial /\ ReferencesResolve)'
  BY DEF AssignmentsNeedReadyRelease, RoleReady, VersionsSerial, ReferencesResolve,
         Published
<1>5. ResourcesConformToSomeRelease'
  BY DEF ResourcesConformToSomeRelease, ReleasesHeld, Published, Conforms
<1>6. QED BY <1>1, <1>2, <1>3, <1>4, <1>5

\* Every step preserves the invariant.
LEMMA StepIInv == IInv /\ [Next]_vars => IInv'
<1>1. ASSUME IInv, UNCHANGED vars
      PROVE  IInv'
  BY <1>1 DEF vars, tables, locals, IInv, TypeOK, LockHeld, ReleasesHeld, InputsHeld,
       CommitsChecked, AssignmentsNeedReadyRelease, RoleReady, VersionsSerial,
       ReferencesResolve, ResourcesConformToSomeRelease, Published, Conforms,
       AssignmentCompatible, NextVersion
<1>2. ASSUME IInv, NEW r \in Request, Advance(r)
      PROVE  IInv'
  BY <1>2, RespondStep, EarlyCheckStep, LockedCheckStep, PublishCommitStep,
     ActivateCommitStep, AssignCommitStep, RemoveAssignmentStep, SyncStep
  DEF Advance, Publish, Activate, Assign, Sync, SyncRespond
<1>3. ASSUME IInv, NEW r \in Request, Abort(r)
      PROVE  IInv'
  BY <1>3, RespondStep DEF Abort
<1>4. QED
  BY <1>1, <1>2, <1>3, EditStep, ArriveStep, LockStep DEF Next

-----------------------------------------------------------------------------
\* The invariant holds in every state of every behaviour.
THEOREM Invariance == Spec => []IInv
  BY InitIInv, StepIInv, PTL DEF Spec

\* Every variable has its type.
THEOREM TypeCorrect == Spec => []TypeOK
<1>1. IInv => TypeOK
  BY DEF IInv
<1>2. QED BY <1>1, Invariance, PTL

\* However publications, rollbacks and assignments overlap, assignments exist
\* only while the active release satisfies the contract (README.md:152).
THEOREM AssignmentsSafe == Spec => []AssignmentsNeedReadyRelease
<1>1. IInv => AssignmentsNeedReadyRelease
  BY DEF IInv
<1>2. QED BY <1>1, Invariance, PTL

\* Publications number the releases without a duplicate or a gap.
THEOREM VersionsUnique == Spec => []VersionsSerial
<1>1. IInv => VersionsSerial
  BY DEF IInv
<1>2. QED BY <1>1, Invariance, PTL

\* Published policies name existing groups and roles.
THEOREM ReferencesSafe == Spec => []ReferencesResolve
<1>1. IInv => ReferencesResolve
  BY DEF IInv
<1>2. QED BY <1>1, Invariance, PTL

\* Every stored resource was accepted by a published schema.
THEOREM ResourcesAccepted == Spec => []ResourcesConformToSomeRelease
<1>1. IInv => ResourcesConformToSomeRelease
  BY DEF IInv
<1>2. QED BY <1>1, Invariance, PTL

\* The only step that writes releases writes one that no release had before.
LEMMA OnlyPublishWrites ==
  ASSUME IInv, [Next]_vars
  PROVE  \/ UNCHANGED <<version, content>>
         \/ \E r \in Request : /\ release[r] \in Release \ Published
                              /\ PublishCommit(r)
<1>1. ASSUME NEW r \in Request, Next, Publish(r)
      PROVE  UNCHANGED <<version, content>> \/ PublishCommit(r)
  BY <1>1 DEF Publish, PublishValidate, PublishEvolve, PublishCheck, tables
<1>2. ASSUME NEW r \in Request, Activate(r) \/ Assign(r) \/ Sync(r)
      PROVE  UNCHANGED <<version, content>>
  BY <1>2 DEF Activate, ActivateValidate, ActivateResources, ActivateCheck, ActivateCommit,
       Assign, AssignCheck, AssignCommit, RemoveAssignment,
       Sync, SyncUpsert, SyncDelete, SyncFail, SyncRespond, Apply, tables
<1>3. ASSUME NEW r \in Request, Arrive(r) \/ LockApplication(r) \/ Abort(r)
      PROVE  UNCHANGED <<version, content>>
  BY <1>3 DEF Arrive, PublishSnapshot, ActivateLoad, StartSync, AssignUser, AssignGroup,
       UnassignUser, UnassignGroup, StartAssign, StartUnassign, LockApplication, Abort, tables
<1>4. ASSUME NEW r \in Request, PublishCommit(r)
      PROVE  release[r] \in Release \ Published
  BY <1>4 DEF PublishCommit, At, IInv, ReleasesHeld
<1>5. CASE UpdateWorkspace \/ CreateGroup \/ CreateRole \/ UNCHANGED vars
  BY <1>5 DEF UpdateWorkspace, CreateGroup, CreateRole, vars, tables
<1>6. QED BY <1>1, <1>2, <1>3, <1>4, <1>5 DEF Next, Advance

\* A published release never changes (README.md:21).
THEOREM Immutable == Spec => ReleasesImmutable
<1>1. ASSUME IInv, [Next]_vars
      PROVE  ReleasesKept
  <2>1. CASE UNCHANGED <<version, content>>
    BY <2>1 DEF ReleasesKept
  <2>2. ASSUME NEW r \in Request, release[r] \in Release \ Published, PublishCommit(r)
        PROVE  ReleasesKept
    BY <1>1, <2>2 DEF PublishCommit, IInv, TypeOK, Published, ReleasesKept
  <2>3. QED BY <1>1, <2>1, <2>2, OnlyPublishWrites
<1>2. IInv /\ [Next]_vars => [ReleasesKept]_vars
  BY <1>1
<1>3. QED BY <1>2, Invariance, PTL DEF Spec, ReleasesImmutable

-----------------------------------------------------------------------------
\* A step that adds or removes an assignment is a Grant or a Withdraw.
LEMMA AssignRefines ==
  ASSUME IInv, NEW r \in Request, AssignCommit(r) \/ RemoveAssignment(r)
  PROVE  [Gate!Next]_(Gate!vars)
<1>1. RoleReady' = RoleReady
  BY DEF AssignCommit, RemoveAssignment, RoleReady
<1>2. CASE AssignCommit(r)
  <2>1. RoleReady /\ pair[r] \in Assignment
    BY <1>2 DEF AssignCommit, At, IInv, InputsHeld, ReleasesHeld, CommitsChecked, RoleReady,
                Published
  <2>2. Gate!Grant(pair[r])
    BY <1>1, <1>2, <2>1 DEF Gate!Grant, AssignCommit
  <2>3. QED BY <2>1, <2>2 DEF Gate!Next
<1>3. CASE RemoveAssignment(r)
  <2>1. pair[r] \in Assignment
    BY <1>3 DEF RemoveAssignment, At, IInv, InputsHeld
  <2>2. Gate!Withdraw(pair[r])
    BY <1>1, <1>3 DEF Gate!Withdraw, RemoveAssignment
  <2>3. QED BY <2>1, <2>2 DEF Gate!Next
<1>4. QED BY <1>2, <1>3

\* Any other step leaves the assignments alone: if it opens or closes the gate,
\* it is a Switch.
LEMMA OthersRefine ==
  ASSUME IInv, IInv', UNCHANGED assigned
  PROVE  [Gate!Next]_(Gate!vars)
<1>1. Gate!Switch
  BY DEF Gate!Switch, IInv, AssignmentsNeedReadyRelease, RoleReady
<1>2. QED BY <1>1 DEF Gate!Next

\* Only those two touch the assignments.
LEMMA AssignedKept ==
  ASSUME [Next]_vars, \A r \in Request : ~AssignCommit(r) /\ ~RemoveAssignment(r)
  PROVE  UNCHANGED assigned
<1>1. ASSUME NEW r \in Request, Advance(r)
      PROVE  UNCHANGED assigned
  BY <1>1 DEF Advance, Publish, PublishValidate, PublishEvolve, PublishCheck, PublishCommit,
       Activate, ActivateValidate, ActivateResources, ActivateCheck, ActivateCommit,
       Assign, AssignCheck, Sync, SyncUpsert, SyncDelete, SyncFail, SyncRespond, Apply, tables
<1>2. ASSUME NEW r \in Request, Arrive(r) \/ LockApplication(r) \/ Abort(r)
      PROVE  UNCHANGED assigned
  BY <1>2 DEF Arrive, PublishSnapshot, ActivateLoad, StartSync, AssignUser, AssignGroup,
       UnassignUser, UnassignGroup, StartAssign, StartUnassign, LockApplication, Abort, tables
<1>3. CASE UpdateWorkspace \/ CreateGroup \/ CreateRole \/ UNCHANGED vars
  BY <1>3 DEF UpdateWorkspace, CreateGroup, CreateRole, vars, tables
<1>4. QED BY <1>1, <1>2, <1>3 DEF Next

\* The store, with its releases, its lock and its overlapping requests,
\* implements the gate the assignments rely on.
THEOREM ImplementsGate == Spec => GateSpec
<1>1. Init => Gate!Init
  BY DEF Init, Gate!Init, RoleReady
<1>2. IInv /\ IInv' /\ [Next]_vars => [Gate!Next]_(Gate!vars)
  BY AssignRefines, OthersRefine, AssignedKept
<1>3. QED BY <1>1, <1>2, Invariance, PTL DEF Spec, GateSpec, Gate!Spec

-----------------------------------------------------------------------------
(* Requests that do not overlap.                                           *)

\* A statement of one request leaves the others where they are.
LEMMA OthersRest ==
  ASSUME IInv, NEW q \in Request, NEW r \in Request \ {q},
         Arrive(q) \/ LockApplication(q) \/ Advance(q) \/ Abort(q)
  PROVE  /\ op'[r] = op[r] /\ pc'[r] = pc[r] /\ draft'[r] = draft[r]
         /\ release'[r] = release[r] /\ number'[r] = number[r]
<1> USE DEF IInv, TypeOK, locals
<1>1. CASE Respond(q)
  BY <1>1 DEF Respond
<1>2. CASE Arrive(q)
  BY <1>2 DEF Arrive, PublishSnapshot, ActivateLoad, StartSync, AssignUser, AssignGroup,
     UnassignUser, UnassignGroup, StartAssign, StartUnassign, Begin
<1>3. CASE LockApplication(q)
  BY <1>3 DEF LockApplication, Goto
<1>4. CASE Publish(q) /\ ~Respond(q)
  BY <1>4 DEF Publish, PublishValidate, PublishEvolve, PublishCheck, PublishCommit, Proceed, Goto
<1>5. CASE Activate(q) /\ ~Respond(q)
  BY <1>5 DEF Activate, ActivateValidate, ActivateResources, ActivateCheck, ActivateCommit,
     Proceed, Goto
<1>6. CASE Assign(q) /\ ~Respond(q)
  BY <1>6 DEF Assign, AssignCheck, AssignCommit, RemoveAssignment, Proceed, Goto
<1>7. CASE Sync(q) /\ ~Respond(q)
  BY <1>7 DEF Sync, SyncUpsert, SyncDelete, SyncFail, SyncRespond, Apply
<1>8. QED BY <1>1, <1>2, <1>3, <1>4, <1>5, <1>6, <1>7 DEF Advance, Abort

\* What comes into force does so in a commit.
LEMMA ActiveKept ==
  ASSUME [Next]_vars, \A r \in Request : ~PublishCommit(r) /\ ~ActivateCommit(r)
  PROVE  UNCHANGED <<active, content>>
<1>1. ASSUME NEW r \in Request, Advance(r)
      PROVE  UNCHANGED <<active, content>>
  BY <1>1 DEF Advance, Publish, PublishValidate, PublishEvolve, PublishCheck,
       Activate, ActivateValidate, ActivateResources, ActivateCheck,
       Assign, AssignCheck, AssignCommit, RemoveAssignment,
       Sync, SyncUpsert, SyncDelete, SyncFail, SyncRespond, Apply, tables
<1>2. ASSUME NEW r \in Request, Arrive(r) \/ LockApplication(r) \/ Abort(r)
      PROVE  UNCHANGED <<active, content>>
  BY <1>2 DEF Arrive, PublishSnapshot, ActivateLoad, StartSync, AssignUser, AssignGroup,
       UnassignUser, UnassignGroup, StartAssign, StartUnassign, LockApplication, Abort, tables
<1>3. CASE UpdateWorkspace \/ CreateGroup \/ CreateRole \/ UNCHANGED vars
  BY <1>3 DEF UpdateWorkspace, CreateGroup, CreateRole, vars, tables
<1>4. QED BY <1>1, <1>2, <1>3 DEF Next

\* The draft of a publication past its comparison stays the one it compared.
LEMMA OwnDraft ==
  ASSUME IInv, NEW r \in Request, DraftEvolves(r), UNCHANGED <<active, content>>,
         Arrive(r) \/ LockApplication(r) \/ Advance(r) \/ Abort(r)
  PROVE  DraftEvolves(r)'
<1> USE DEF IInv, TypeOK, At, locals, DraftEvolves
<1>1. CASE op'[r] # "publish" \/ pc'[r] = "validate"
  BY <1>1
<1>2. CASE Respond(r)
  BY <1>2 DEF Respond
<1>3. CASE Arrive(r)
  BY <1>3 DEF Arrive, PublishSnapshot, ActivateLoad, StartSync, AssignUser, AssignGroup,
     UnassignUser, UnassignGroup, StartAssign, StartUnassign, Begin
<1>4. CASE LockApplication(r)
  BY <1>4 DEF LockApplication, Goto
<1>5. CASE PublishValidate(r) /\ ~Respond(r)
  BY <1>5 DEF PublishValidate, Proceed, Goto
<1>6. CASE PublishEvolve(r) /\ ~Respond(r)
  BY <1>6 DEF PublishEvolve, Proceed, Goto
<1>7. CASE PublishCheck(r) /\ ~Respond(r)
  BY <1>7 DEF PublishCheck, Goto
<1>8. CASE Activate(r) /\ ~Respond(r)
  BY <1>8 DEF Activate, ActivateValidate, ActivateResources, ActivateCheck, ActivateCommit,
     Proceed, Goto
<1>9. CASE Assign(r) /\ ~Respond(r)
  BY <1>9 DEF Assign, AssignCheck, AssignCommit, RemoveAssignment, Proceed, Goto
<1>10. CASE Sync(r) /\ ~Respond(r)
  BY <1>10 DEF Sync, SyncUpsert, SyncDelete, SyncFail, SyncRespond, Apply
<1>11. CASE PublishCommit(r)
  BY <1>2, <1>11 DEF PublishCommit
<1>12. QED
  BY <1>2, <1>3, <1>4, <1>5, <1>6, <1>7, <1>8, <1>9, <1>10, <1>11
     DEF Advance, Abort, Publish

\* Only the one publication or rollback in flight replaces what the comparison
\* looked at, and then it is over.
LEMMA EvolvesStep ==
  ASSUME EvolvesInv, OnePublisher, [Next]_vars
  PROVE  EvolvesInv'
<1> USE DEF EvolvesInv
<1>1. IInv'
  BY StepIInv
<1>2. ASSUME NEW q \in Request, PublishCommit(q) \/ ActivateCommit(q), NEW r \in Request
      PROVE  DraftEvolves(r)'
  <2>1. Publishing(q) /\ Respond(q) /\ Advance(q)
    BY <1>2 DEF PublishCommit, ActivateCommit, At, Publishing, Advance, Publish, Activate
  <2>2. CASE r = q
    BY <2>1, <2>2 DEF Respond, IInv, TypeOK, DraftEvolves
  <2>3. CASE r # q
    <3>1. op'[r] = op[r]
      BY <2>1, <2>3, OthersRest
    <3>2. QED BY <2>1, <2>3, <3>1 DEF OnePublisher, Publishing, DraftEvolves
  <2>4. QED BY <2>2, <2>3
<1>3. ASSUME UNCHANGED <<active, content>>, NEW q \in Request,
             Arrive(q) \/ LockApplication(q) \/ Advance(q) \/ Abort(q), NEW r \in Request
      PROVE  DraftEvolves(r)'
  <2>1. CASE r = q
    BY <1>3, <2>1, OwnDraft
  <2>2. CASE r # q
    BY <1>3, <2>2, OthersRest DEF DraftEvolves
  <2>3. QED BY <2>1, <2>2
<1>4. CASE UpdateWorkspace \/ CreateGroup \/ CreateRole \/ UNCHANGED vars
  BY <1>1, <1>4 DEF UpdateWorkspace, CreateGroup, CreateRole, vars, tables, locals, DraftEvolves
<1>5. CASE \E q \in Request : PublishCommit(q) \/ ActivateCommit(q)
  BY <1>1, <1>2, <1>5
<1>6. CASE ~\E q \in Request : PublishCommit(q) \/ ActivateCommit(q)
  BY <1>1, <1>3, <1>4, <1>6, ActiveKept DEF Next
<1>7. QED BY <1>5, <1>6

\* While publications and rollbacks run one at a time, every publication
\* replaces the active release by one that evolves it.
THEOREM OneAtATimeEvolves == Spec /\ []OnePublisher => PublicationEvolves
<1>1. Init => EvolvesInv
  BY InitIInv DEF Init, EvolvesInv, DraftEvolves
<1>2. EvolvesInv /\ OnePublisher /\ [Next]_vars => EvolvesInv'
  BY EvolvesStep
<1>3. EvolvesInv => CommitsEvolve
  <2>1. ASSUME EvolvesInv, NEW r \in Request, PublishCommit(r), active # NoRelease
        PROVE  BackwardCompatible(content[active], content'[active'])
    <3>1. content'[active'] = draft[r]
      BY <2>1 DEF PublishCommit, At, EvolvesInv, IInv, TypeOK, ReleasesHeld
    <3>2. QED BY <2>1, <3>1 DEF EvolvesInv, DraftEvolves, PublishCommit, At
  <2>2. QED BY <2>1 DEF CommitsEvolve
<1>4. EvolvesInv => [CommitsEvolve]_vars
  BY <1>3
<1>5. QED BY <1>1, <1>2, <1>4, PTL DEF Spec, PublicationEvolves

\* A batch keeps its release, and takes it from what is active.
LEMMA OwnBatch ==
  ASSUME IInv, NEW r \in Request, BatchEvolved(r), UNCHANGED <<active, content>>,
         Arrive(r) \/ LockApplication(r) \/ Advance(r) \/ Abort(r)
  PROVE  BatchEvolved(r)'
<1> USE DEF IInv, TypeOK, At, locals, BatchEvolved
<1>1. CASE op'[r] # "sync"
  BY <1>1
<1>2. CASE Respond(r)
  BY <1>2 DEF Respond
<1>3. CASE StartSync(r)
  BY <1>3 DEF StartSync
<1>4. CASE Arrive(r) /\ ~StartSync(r)
  BY <1>4 DEF Arrive, PublishSnapshot, ActivateLoad, AssignUser, AssignGroup,
     UnassignUser, UnassignGroup, StartAssign, StartUnassign, Begin
<1>5. CASE LockApplication(r)
  BY <1>5 DEF LockApplication, Goto
<1>6. CASE Publish(r) /\ ~Respond(r)
  BY <1>6 DEF Publish, PublishValidate, PublishEvolve, PublishCheck, PublishCommit, Proceed, Goto
<1>7. CASE Activate(r) /\ ~Respond(r)
  BY <1>7 DEF Activate, ActivateValidate, ActivateResources, ActivateCheck, ActivateCommit,
     Proceed, Goto
<1>8. CASE Assign(r) /\ ~Respond(r)
  BY <1>8 DEF Assign, AssignCheck, AssignCommit, RemoveAssignment, Proceed, Goto
<1>9. CASE Sync(r) /\ ~Respond(r)
  BY <1>9 DEF Sync, SyncUpsert, SyncDelete, SyncFail, SyncRespond, Apply
<1>10. QED
  BY <1>2, <1>3, <1>4, <1>5, <1>6, <1>7, <1>8, <1>9 DEF Advance, Abort

\* A rollback past its check of the resources holds a release that accepts them.
LEMMA OwnRollback ==
  ASSUME IInv, NEW r \in Request, RollbackAccepts(r), UNCHANGED <<active, content>>,
         op[r] # "sync" => UNCHANGED resources,
         Arrive(r) \/ LockApplication(r) \/ Advance(r) \/ Abort(r)
  PROVE  RollbackAccepts(r)'
<1> USE DEF IInv, TypeOK, At, locals, RollbackAccepts, Conforms
<1>1. CASE op'[r] # "activate" \/ pc'[r] \in {"validate", "resources"}
  BY <1>1
<1>2. CASE Respond(r)
  BY <1>2 DEF Respond
<1>3. CASE Arrive(r)
  BY <1>3 DEF Arrive, PublishSnapshot, ActivateLoad, StartSync, AssignUser, AssignGroup,
     UnassignUser, UnassignGroup, StartAssign, StartUnassign, Begin
<1>4. CASE LockApplication(r)
  BY <1>4 DEF LockApplication, Goto
<1>5. CASE Publish(r) /\ ~Respond(r)
  BY <1>5 DEF Publish, PublishValidate, PublishEvolve, PublishCheck, PublishCommit, Proceed, Goto
<1>6. CASE ActivateValidate(r) /\ ~Respond(r)
  BY <1>6 DEF ActivateValidate, Proceed, Goto
<1>7. CASE ActivateResources(r) /\ ~Respond(r)
  BY <1>7 DEF ActivateResources, Proceed, Goto
<1>8. CASE ActivateCheck(r) /\ ~Respond(r)
  BY <1>8 DEF ActivateCheck, Proceed, Goto
<1>9. CASE Assign(r) /\ ~Respond(r)
  BY <1>9 DEF Assign, AssignCheck, AssignCommit, RemoveAssignment, Proceed, Goto
<1>10. CASE Sync(r) /\ ~Respond(r)
  BY <1>10 DEF Sync, SyncUpsert, SyncDelete, SyncFail, SyncRespond, Apply
<1>11. CASE ActivateCommit(r)
  BY <1>2, <1>11 DEF ActivateCommit
<1>12. QED
  BY <1>2, <1>3, <1>4, <1>5, <1>6, <1>7, <1>8, <1>9, <1>10, <1>11
     DEF Advance, Abort, Activate

\* Only the operations of a batch write resources.
LEMMA ResourcesKept ==
  ASSUME [Next]_vars, \A r \in Request : ~SyncUpsert(r) /\ ~SyncDelete(r)
  PROVE  UNCHANGED resources
<1>1. ASSUME NEW r \in Request, Advance(r)
      PROVE  UNCHANGED resources
  BY <1>1 DEF Advance, Publish, PublishValidate, PublishEvolve, PublishCheck, PublishCommit,
       Activate, ActivateValidate, ActivateResources, ActivateCheck, ActivateCommit,
       Assign, AssignCheck, AssignCommit, RemoveAssignment,
       Sync, SyncFail, SyncRespond, Apply, tables
<1>2. ASSUME NEW r \in Request, Arrive(r) \/ LockApplication(r) \/ Abort(r)
      PROVE  UNCHANGED resources
  BY <1>2 DEF Arrive, PublishSnapshot, ActivateLoad, StartSync, AssignUser, AssignGroup,
       UnassignUser, UnassignGroup, StartAssign, StartUnassign, LockApplication, Abort, tables
<1>3. CASE UpdateWorkspace \/ CreateGroup \/ CreateRole \/ UNCHANGED vars
  BY <1>3 DEF UpdateWorkspace, CreateGroup, CreateRole, vars, tables
<1>4. QED BY <1>1, <1>2, <1>3 DEF Next

\* A publication that evolves the active release leaves every batch, and every
\* stored resource, with a schema that declares what it uses.
LEMMA PublishKeepsApart ==
  ASSUME ApartInv, OnePublisher, NEW q \in Request, PublishCommit(q)
  PROVE  StoreConforms' /\ \A r \in Request : BatchEvolved(r)' /\ RollbackAccepts(r)'
<1> USE DEF ApartInv, EvolvesInv, IInv, TypeOK
<1>1. op[q] = "publish" /\ pc[q] = "commit" /\ release[q] \in Release \ Published /\ Respond(q)
  BY DEF PublishCommit, At, ReleasesHeld
<1>2. /\ active' = release[q] /\ active' # NoRelease
      /\ content'[active'] = draft[q]
      /\ \A id \in Published : content'[id] = content[id]
      /\ UNCHANGED resources
  BY <1>1, ReleaseAssumption DEF PublishCommit
<1>3. active # NoRelease => content[active].declares \subseteq content'[active'].declares
  BY <1>1, <1>2 DEF DraftEvolves, BackwardCompatible
<1>4. StoreConforms'
  BY <1>2, <1>3 DEF StoreConforms, Conforms
<1>5. ASSUME NEW r \in Request
      PROVE  BatchEvolved(r)' /\ RollbackAccepts(r)'
  <2>1. CASE r = q
    BY <1>1, <2>1 DEF Respond, BatchEvolved, RollbackAccepts
  <2>2. CASE r # q
    <3>1. op'[r] = op[r] /\ release'[r] = release[r]
      BY <1>1, <2>2 DEF Respond
    <3>2. op[r] # "activate"
      BY <1>1, <2>2 DEF OnePublisher, Publishing
    <3>3. ASSUME op[r] = "sync"
          PROVE  BatchEvolved(r)'
      <4>1. release[r] \in Published
        BY <3>3 DEF ReleasesHeld
      <4>2. active # NoRelease /\ content[release[r]].declares \subseteq content[active].declares
        BY <3>3 DEF BatchEvolved
      <4>3. QED BY <1>2, <1>3, <3>1, <4>1, <4>2 DEF BatchEvolved
    <3>4. QED BY <3>1, <3>2, <3>3 DEF BatchEvolved, RollbackAccepts
  <2>3. QED BY <2>1, <2>2
<1>6. QED BY <1>4, <1>5

\* A rollback meets no batch, and accepts what is stored.
LEMMA RollbackKeepsApart ==
  ASSUME ApartInv, OnePublisher, RollbacksApart, NEW q \in Request, ActivateCommit(q)
  PROVE  StoreConforms' /\ \A r \in Request : BatchEvolved(r)' /\ RollbackAccepts(r)'
<1> USE DEF ApartInv, EvolvesInv, IInv, TypeOK
<1>1. /\ op[q] = "activate" /\ pc[q] = "commit" /\ release[q] \in Published /\ Respond(q)
      /\ active' = release[q] /\ active' # NoRelease /\ UNCHANGED <<content, resources>>
  BY ReleaseAssumption DEF ActivateCommit, At, ReleasesHeld, Published
<1>2. StoreConforms'
  BY <1>1 DEF RollbackAccepts, StoreConforms, Conforms
<1>3. ASSUME NEW r \in Request
      PROVE  op'[r] # "sync" /\ op'[r] # "activate"
  <2>1. CASE r = q
    BY <1>1, <2>1 DEF Respond
  <2>2. CASE r # q
    BY <1>1, <2>2 DEF Respond, OnePublisher, RollbacksApart, Publishing
  <2>3. QED BY <2>1, <2>2
<1>4. QED BY <1>2, <1>3 DEF BatchEvolved, RollbackAccepts

\* An operation of a batch writes what the active release declares.
LEMMA WritesConformStep ==
  ASSUME ApartInv, [Next]_vars
  PROVE  WritesConform
<1> USE DEF ApartInv, EvolvesInv, IInv, TypeOK
<1>1. ASSUME NEW q \in Request, SyncUpsert(q)
      PROVE  WritesConform
  BY <1>1 DEF SyncUpsert, At, Apply, Without, BatchEvolved, Conforms, WritesConform
<1>2. ASSUME NEW q \in Request, SyncDelete(q)
      PROVE  WritesConform
  BY <1>2 DEF SyncDelete, Apply, Without, WritesConform
<1>3. QED BY <1>1, <1>2, ResourcesKept DEF WritesConform

\* One step of requests that keep apart.
LEMMA ApartStep ==
  ASSUME ApartInv, OnePublisher, RollbacksApart, [Next]_vars
  PROVE  ApartInv'
<1>1. EvolvesInv'
  BY EvolvesStep DEF ApartInv
<1>2. CASE \E q \in Request : PublishCommit(q) \/ ActivateCommit(q)
  BY <1>1, <1>2, PublishKeepsApart, RollbackKeepsApart DEF ApartInv
<1>3. ASSUME ~\E q \in Request : PublishCommit(q) \/ ActivateCommit(q)
      PROVE  StoreConforms' /\ \A r \in Request : BatchEvolved(r)' /\ RollbackAccepts(r)'
  <2>1. UNCHANGED <<active, content>>
    BY <1>3, ActiveKept
  <2>2. StoreConforms'
    <3>1. WritesConform
      BY WritesConformStep
    <3>2. resources' # {} => active # NoRelease
      <4>1. ASSUME NEW q \in Request, SyncUpsert(q) \/ SyncDelete(q)
            PROVE  active # NoRelease
        BY <4>1 DEF SyncUpsert, SyncDelete, At, ApartInv, BatchEvolved
      <4>2. QED BY <4>1, ResourcesKept DEF ApartInv, StoreConforms
    <3>3. QED BY <2>1, <3>1, <3>2 DEF ApartInv, StoreConforms, WritesConform, Conforms
  <2>3. ASSUME NEW q \in Request, NEW r \in Request,
               Arrive(q) \/ LockApplication(q) \/ Advance(q) \/ Abort(q)
        PROVE  BatchEvolved(r)' /\ RollbackAccepts(r)'
    <3>1. op[q] # "sync" => UNCHANGED resources
      BY <2>3 DEF Arrive, PublishSnapshot, ActivateLoad, StartSync, AssignUser, AssignGroup,
         UnassignUser, UnassignGroup, StartAssign, StartUnassign, LockApplication, Abort,
         Advance, Publish, PublishValidate, PublishEvolve, PublishCheck, PublishCommit,
         Activate, ActivateValidate, ActivateResources, ActivateCheck, ActivateCommit,
         Assign, AssignCheck, AssignCommit, RemoveAssignment,
         Sync, SyncUpsert, SyncDelete, SyncFail, SyncRespond, At, tables
    <3>2. CASE r = q
      BY <2>1, <2>3, <3>1, <3>2, OwnBatch, OwnRollback DEF ApartInv, EvolvesInv
    <3>3. CASE r # q
      <4>1. op'[r] = op[r] /\ pc'[r] = pc[r] /\ release'[r] = release[r]
        BY <2>3, <3>3, OthersRest DEF ApartInv, EvolvesInv
      <4>2. BatchEvolved(r)'
        BY <2>1, <4>1 DEF ApartInv, BatchEvolved
      <4>3. RollbackAccepts(r)'
        BY <2>1, <3>1, <4>1 DEF ApartInv, RollbackAccepts, RollbacksApart, Conforms
      <4>4. QED BY <4>2, <4>3
    <3>4. QED BY <3>2, <3>3
  <2>4. CASE UpdateWorkspace \/ CreateGroup \/ CreateRole \/ UNCHANGED vars
    BY <2>4 DEF UpdateWorkspace, CreateGroup, CreateRole, vars, tables, locals,
       ApartInv, StoreConforms, BatchEvolved, RollbackAccepts, Conforms
  <2>5. CASE \E q \in Request : Arrive(q) \/ LockApplication(q) \/ Advance(q) \/ Abort(q)
    BY <2>2, <2>3, <2>5
  <2>6. QED BY <2>4, <2>5 DEF Next
<1>4. QED BY <1>1, <1>2, <1>3 DEF ApartInv

\* The behaviours in which publications and rollbacks run one at a time, and
\* no rollback during a synchronization.
LEMMA ApartInvariance == Spec /\ []OnePublisher /\ []RollbacksApart => []ApartInv
<1>1. Init => ApartInv
  BY InitIInv DEF Init, ApartInv, EvolvesInv, DraftEvolves, StoreConforms, BatchEvolved,
     RollbackAccepts
<1>2. ApartInv /\ OnePublisher /\ RollbacksApart /\ [Next]_vars => ApartInv'
  BY ApartStep
<1>3. QED BY <1>1, <1>2, PTL DEF Spec

\* In those behaviours a batch writes only what the active schema accepts.
THEOREM ApartWritesConform == Spec /\ []OnePublisher /\ []RollbacksApart => SyncConformsToActive
<1>1. ApartInv /\ [Next]_vars => WritesConform
  BY WritesConformStep
<1>2. ApartInv /\ [Next]_vars => [WritesConform]_vars
  BY <1>1
<1>3. QED BY <1>2, ApartInvariance, PTL DEF Spec, SyncConformsToActive

\* In those behaviours every stored resource conforms to the active schema, at
\* any time and not only when it is written.
THEOREM ApartStoreConforms == Spec /\ []OnePublisher /\ []RollbacksApart => []StoreConforms
<1>1. ApartInv => StoreConforms
  BY DEF ApartInv
<1>2. QED BY <1>1, ApartInvariance, PTL

-----------------------------------------------------------------------------
(* What the answer to every request rests on.                              *)

\* The lock goes with the transaction, by every path.
LEMMA LockOwnedStep ==
  ASSUME IInv, LockOwned, [Next]_vars
  PROVE  LockOwned'
<1> USE DEF IInv, TypeOK, LockOwned, At, locals
<1>1. ASSUME NEW r \in Request, Respond(r)
      PROVE  LockOwned'
  BY <1>1, RequestAssumption DEF Respond
<1>2. ASSUME NEW r \in Request, Arrive(r)
      PROVE  LockOwned'
  BY <1>2 DEF Arrive, PublishSnapshot, ActivateLoad, StartSync, AssignUser, AssignGroup,
     UnassignUser, UnassignGroup, StartAssign, StartUnassign, Begin
<1>3. ASSUME NEW r \in Request, LockApplication(r)
      PROVE  LockOwned'
  BY <1>3, RequestAssumption DEF LockApplication, Goto
<1>4. ASSUME NEW r \in Request, Publish(r), ~Respond(r)
      PROVE  LockOwned'
  BY <1>4 DEF Publish, PublishValidate, PublishEvolve, PublishCheck, PublishCommit, Proceed, Goto
<1>5. ASSUME NEW r \in Request, Activate(r), ~Respond(r)
      PROVE  LockOwned'
  BY <1>5 DEF Activate, ActivateValidate, ActivateResources, ActivateCheck, ActivateCommit,
     Proceed, Goto
<1>6. ASSUME NEW r \in Request, Assign(r), ~Respond(r)
      PROVE  LockOwned'
  BY <1>6 DEF Assign, AssignCheck, AssignCommit, RemoveAssignment, Proceed, Goto
<1>7. ASSUME NEW r \in Request, Sync(r), ~Respond(r)
      PROVE  LockOwned'
  BY <1>7 DEF Sync, SyncUpsert, SyncDelete, SyncFail, SyncRespond, Apply
<1>8. CASE UpdateWorkspace \/ CreateGroup \/ CreateRole \/ UNCHANGED vars
  BY <1>8 DEF UpdateWorkspace, CreateGroup, CreateRole, vars
<1>9. QED
  BY <1>1, <1>2, <1>3, <1>4, <1>5, <1>6, <1>7, <1>8 DEF Next, Advance, Abort

\* A request holds the application's lock exactly between its check and its
\* answer: whoever waits for the lock waits for a request that can go on.
THEOREM LockReturned == Spec => []LockOwned
<1>1. Init => LockOwned
  BY RequestAssumption DEF Init, LockOwned
<1>2. IInv /\ LockOwned /\ [Next]_vars => LockOwned'
  BY LockOwnedStep
<1>3. QED BY <1>1, <1>2, Invariance, PTL DEF Spec

\* What brings a request nearer to its answer: it answers, or goes on to a
\* later stage, or takes one operation off its batch.
LEMMA StageNearer ==
  ASSUME TypeOK, TypeOK', NEW r \in Request, pc[r] # "idle",
         \/ pc'[r] = "idle"
         \/ pc[r] = "validate" /\ pc'[r] \in {"evolve", "resources"}
         \/ pc[r] \in {"evolve", "resources"} /\ pc'[r] = "lock"
         \/ pc[r] = "lock" /\ pc'[r] = "check"
         \/ pc[r] = "check" /\ pc'[r] = "commit"
         \/ pc[r] = "apply" /\ pc'[r] = "apply" /\ number'[r] < number[r]
  PROVE  StepsLeft(r)' < StepsLeft(r)
<1> USE DEF TypeOK, Stages
<1>1. CASE pc'[r] = "idle"
  <2>1. StepsLeft(r)' = 0
    BY <1>1 DEF StepsLeft
  <2>2. StepsLeft(r) > 0
    BY DEF StepsLeft
  <2>3. QED BY <2>1, <2>2
<1>2. CASE pc'[r] # "idle"
  BY <1>2 DEF StepsLeft
<1>3. QED BY <1>1, <1>2

\* A statement of the request itself.
LEMMA OwnNearer ==
  ASSUME IInv, IInv', NEW r \in Request, pc[r] # "idle",
         Advance(r) \/ LockApplication(r) \/ Abort(r)
  PROVE  StepsLeft(r)' < StepsLeft(r)
<1> USE DEF IInv
<1>1. CASE Respond(r)
  <2>1. pc'[r] = "idle"
    BY <1>1 DEF Respond, TypeOK
  <2>2. QED BY <2>1, StageNearer
<1>2. CASE LockApplication(r)
  <2>1. pc[r] = "lock" /\ pc'[r] = "check"
    BY <1>2 DEF LockApplication, Goto, TypeOK
  <2>2. QED BY <2>1, StageNearer
<1>3. CASE Publish(r) /\ ~Respond(r)
  <2>1. \/ pc[r] = "validate" /\ pc'[r] = "evolve"
        \/ pc[r] = "evolve" /\ pc'[r] = "lock"
        \/ pc[r] = "check" /\ pc'[r] = "commit"
    BY <1>3 DEF Publish, PublishValidate, PublishEvolve, PublishCheck, PublishCommit,
       Proceed, Goto, At, TypeOK
  <2>2. QED BY <2>1, StageNearer
<1>4. CASE Activate(r) /\ ~Respond(r)
  <2>1. \/ pc[r] = "validate" /\ pc'[r] = "resources"
        \/ pc[r] = "resources" /\ pc'[r] = "lock"
        \/ pc[r] = "check" /\ pc'[r] = "commit"
    BY <1>4 DEF Activate, ActivateValidate, ActivateResources, ActivateCheck, ActivateCommit,
       Proceed, Goto, At, TypeOK
  <2>2. QED BY <2>1, StageNearer
<1>5. CASE Assign(r) /\ ~Respond(r)
  <2>1. pc[r] = "check" /\ pc'[r] = "commit"
    BY <1>5 DEF Assign, AssignCheck, AssignCommit, RemoveAssignment, Proceed, Goto, At, TypeOK
  <2>2. QED BY <2>1, StageNearer
<1>6. CASE Sync(r) /\ ~Respond(r)
  <2>1. pc[r] = "apply" /\ pc'[r] = "apply" /\ number'[r] < number[r]
    BY <1>6 DEF Sync, SyncUpsert, SyncDelete, SyncFail, SyncRespond, Apply, At, TypeOK
  <2>2. QED BY <2>1, StageNearer
<1>7. QED BY <1>1, <1>2, <1>3, <1>4, <1>5, <1>6 DEF Advance, Abort

\* Requests run in any number: each has a bounded number of statements before
\* it, every one it runs leaves fewer, and no other request adds any.  With the
\* fairness of the scheduler this is why RequestsFinish holds.
THEOREM StepsBounded == Spec => StepsRunOut
<1>1. ASSUME IInv, IInv', [Next]_vars, NEW r \in Request, pc[r] # "idle"
      PROVE  /\ StepsLeft(r)' <= StepsLeft(r)
             /\ Advance(r) \/ LockApplication(r) => StepsLeft(r)' < StepsLeft(r)
  <2>1. StepsLeft(r) \in Nat /\ StepsLeft(r)' \in Nat
    BY <1>1 DEF StepsLeft, IInv, TypeOK, Stages
  <2>2. Advance(r) \/ LockApplication(r) \/ Abort(r) => StepsLeft(r)' < StepsLeft(r)
    BY <1>1, OwnNearer
  <2>3. ASSUME NEW q \in Request \ {r},
               Arrive(q) \/ LockApplication(q) \/ Advance(q) \/ Abort(q)
        PROVE  pc'[r] = pc[r] /\ number'[r] = number[r]
    BY <1>1, <2>3, OthersRest
  <2>4. ~Arrive(r)
    BY <1>1 DEF Arrive, PublishSnapshot, ActivateLoad, StartSync, AssignUser, AssignGroup,
       UnassignUser, UnassignGroup, StartAssign, StartUnassign, Begin
  <2>5. UpdateWorkspace \/ CreateGroup \/ CreateRole \/ UNCHANGED vars
            => UNCHANGED <<pc, number>>
    BY DEF UpdateWorkspace, CreateGroup, CreateRole, vars, locals
  <2>6. \/ Advance(r) \/ LockApplication(r) \/ Abort(r)
        \/ pc'[r] = pc[r] /\ number'[r] = number[r]
    BY <1>1, <2>3, <2>4, <2>5 DEF Next
  <2>7. pc'[r] = pc[r] /\ number'[r] = number[r] => StepsLeft(r)' = StepsLeft(r)
    BY DEF StepsLeft
  <2>8. QED BY <2>1, <2>2, <2>6, <2>7
<1>2. IInv /\ IInv' /\ [Next]_vars => Nearer
  BY <1>1 DEF Nearer
<1>3. IInv /\ IInv' /\ [Next]_vars => [Nearer]_vars
  BY <1>2
<1>4. QED BY <1>3, Invariance, PTL DEF Spec, StepsRunOut
=============================================================================
