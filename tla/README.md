# Crabouncer in TLA+

Crabouncer is a multi-tenant identity and authorization server: an OpenID
Connect provider, a management API, an AuthZEN decision and search API over
Cedar policies, and a synchronization endpoint for business resources, all on
one PostgreSQL database. This directory holds TLA+ models of the parts of it in
which something can go wrong that a unit test hardly reaches, TLC
configurations that check small instances, and proofs, checked by TLAPS, that
the safety properties hold for instances of any size. `PROJECT.json` maps every
definition to the source lines it stands for (there the repository is called
`src/`).

The server is stateless: whatever lasts is in PostgreSQL, several processes may
run on one database, and every HTTP handler is an `async` function that issues
one statement after another. Some statements are grouped in a transaction
(`READ COMMITTED`, sometimes under an advisory lock or `FOR UPDATE`), most stand
alone. So the unit of interleaving in every module is **one database statement
or one transaction**, and a handler that is cut off, because its client
disconnects, a statement fails or the process dies, stops between two of them.


## 1. Inventory

Paths are relative to `core/src/`, unless they begin with another directory of
the repository.

| Component | State | Operations | What is hard about it |
|---|---|---|---|
| Policy store: `api/management/policies.rs`, `db/policies.rs`, `policy.rs` | the workspace, the numbered releases and the active one, per application | save, validate, simulate, publish, activate | validation, schema evolution and the check of resources run before the application's advisory lock is taken; what they found may be stale when the transaction commits |
| Role assignments: `api/management/roles.rs`, `db/roles.rs` | roles, `application_role_{user,group}_assignments` | create, update, assign, unassign, effective roles | an assignment needs a release with the User/Group/Role contract, and a release without it needs that nothing is assigned: each checks what the other changes |
| Groups: `api/management/groups.rs`, `db/groups.rs` | groups, memberships | create, update, add and remove members | one physical group per user, checked outside the transaction and again by a partial index |
| Resource synchronization: `api/resource_sync.rs`, `db/resources.rs` | `application_resources` | batches of upserts and deletes | one release for the whole batch, one autocommitted statement per operation, no lock |
| Evaluations: `api/authzen/evaluations.rs`, `db/authzen.rs`, `iam.rs` | `decision_logs` | evaluate, batch | identity and release are read by two statements; tables change in between |
| Search: `api/authzen/search.rs` | nothing but a signed page token | subject, resource and action search | keyset pages over changing tables, a limit on the results and one on the candidates looked at |
| Grants: `api/oidc/{authorization,tokens}.rs`, `db/oidc.rs` | authorization codes, refresh-token families | authorize, exchange, rotate, revoke a family on replay | racing rotations and replays, row locks, snapshots, deadlocks, lost answers |
| Accounts: `api/management/{organizations,sessions,access}.rs`, `db/{tenants,sessions,bootstrap}.rs`, `security.rs` | organizations, users, passwords, activation links, sessions | bootstrap, login, logout, authenticate, create, update, activate | handlers trust the copy of the user that the middleware read; multi-statement updates without a transaction |
| Service accounts: `api/management/applications.rs`, `db/applications.rs`, `api/authzen.rs` | applications, service accounts, hashed secrets | create, rotate, revoke, `client_credentials`, `service_caller` | a token outlives the secret it was obtained with; only the account, the application and its organization are looked at again |
| SDK: `sdk/src/lib.rs` | a cached token under a mutex, shared by all clones | synchronize a batch | a 401 drops the cached token, which may be another task's new one; a batch is sent again while its first request may still be applied; futures are dropped while they hold the mutex |
| Cedar engine: `policy.rs`, `iam.rs` | none | parse, validate, evaluate, compare two schemas, check the identity contract | only neighbouring schemas are compared, and by their text; what they mean is the `cedar-policy` crate, external |
| Logs: `db/audit.rs`, `api/management/logs.rs` | audit and decision logs | append, list | an entry written after its change committed may be missing |
| The rest: discovery documents, configuration, validation, userinfo, the web console | none | | pure functions and process wiring |

How they meet:

* **Through tables.** Evaluations and search read what groups, roles, accounts,
  releases and synchronization write; nothing is cached between two requests.
* **Through the application's advisory lock** (`pg_advisory_xact_lock`):
  publication, activation and assignment serialize their final transactions.
  Resource synchronization and creation of roles do not take it.
* **Through row locks.** The token endpoint relies on `FOR UPDATE` and on the
  re-evaluation of an `UPDATE ... WHERE` after it has waited for a row.
* **Through signed tokens** a caller brings back: page tokens carry the release
  and the last key, refresh tokens name a row by hash, session cookies too.

What makes each of them correct is stated in section 4, next to the run that
checks it; `hazards` in `PROJECT.json` lists what could go wrong, line by line.


## 2. Modules

    AssignmentGate <--implements-- PolicyLifecycle <-- PolicyLifecycleProofs, MCPolicyLifecycle
    OneTimeSecrets <--implements-- TokenGrants <-- TokenGrantsProofs, MCTokenGrants
                                   Decisions <-- DecisionsProofs, MCDecisions
                                   PagedSearch <-- PagedSearchProofs, MCPagedSearch
                                   Accounts <-- AccountsProofs, MCAccounts
                                   SchemaEvolution <-- SchemaEvolutionProofs, MCSchemaEvolution
    SyncOrder --extends--> SyncClient <-- SyncClientProofs, MCSyncClient
        ^----- SyncOrderProofs, MCSyncOrder

Every component module declares its constants with named assumptions, has one
action per statement or transaction, one type invariant, its properties, and
the inductive invariant `IInv`. The `MC` module gives the constants values, the
`Proofs` module proves theorems about the specification itself. A definition
with the comment "Mutant of X" is X with a bug planted in it (a dropped guard, a
missing `FOR UPDATE`, an off-by-one); with it in place of X the property listed
beside it in `PROJECT.json` fails, which shows that the property depends on
that piece of the code.

### PolicyLifecycle

The store of one application with concurrent requests. A request is at a
program counter `pc[r]`; its locals (`draft`, `release`, `pair`, `number`) are
the variables of the handler.

| Handler | Actions |
|---|---|
| `publish_release` | `PublishSnapshot` (read the workspace), `PublishValidate`, `PublishEvolve`, then inside the transaction `LockApplication`, `PublishCheck`, `PublishCommit` |
| `activate_release` | `ActivateLoad`, `ActivateValidate`, `ActivateResources`, `LockApplication`, `ActivateCheck`, `ActivateCommit` |
| `assign_user`, `assign_group` | `AssignUser`/`AssignGroup` (`ensure_schema_ready`), `LockApplication`, `AssignCheck`, `AssignCommit` |
| `unassign_user`, `unassign_group` | `UnassignUser`/`UnassignGroup`, `LockApplication`, `RemoveAssignment` |
| `sync_resources` | `StartSync`, then `SyncUpsert`, `SyncDelete` or `SyncFail` for each operation, `SyncRespond` |
| `update_workspace`, `create_group`, `create_role` | `UpdateWorkspace`, `CreateGroup`, `CreateRole` |
| any of them cut off | `Abort`: the transaction rolls back, the lock goes |

A draft is reduced to what the checks tell apart: whether it validates, whether
its schema has the contract, what it declares, and which groups and roles its
policies name. Declarations stand for entity types and optional attributes;
a schema evolves compatibly if nothing it declared is gone; that the code's
comparison of two schemas means this is what `SchemaEvolution` shows. A resource
is the set of declarations it uses. `AssignmentGate` says what all this promises to
the assignments, without requests, releases or a lock.

### TokenGrants

Codes and refresh tokens down to row locks. `ClaimCode` is the
`UPDATE ... WHERE consumed_at IS NULL` with the two comparisons that may drop
the transaction, `ExchangeCommit` the rest of it. `SelectToken` is the
`SELECT ... FOR UPDATE`; `RotateCommit` the good case; a token seen before goes
`FamilySnapshot` (the rows the revoking `UPDATE` finds when it begins),
`SweepNext`/`SweepTake` (each row is waited for and locked, in an order nobody
knows), `RevokeCommit`. `BreakDeadlock` is PostgreSQL aborting a transaction in
a cycle of waiters, `Abort` a request cut off. `found` and `reported` are
history: the family as it was when a request found its token used, and what the
replays that were answered had found. `OneTimeSecrets` is the promise: a secret
is worth one successor, and a spent one nothing.

### PagedSearch

One caller scans all pages while users, resources, the user asked about and
the active release change. `ResolvePage` is the choice of release (active, or
that of the page token), `ReadIdentity`, `ListCandidates` and `ReadIdentities`
the statements in the order each kind of search issues them, `AnswerPage` the
loop over the candidates with its two limits, the decision for `has_more` and
the next token. `LoseAnswer` loses an answer, `Expire` lets the token get too
old, `FailPage` is the candidate that Cedar's schema rejects.

### Accounts

Replicas that start on an empty database, users, links, sessions. `home` is the
organization a user was created in, by `CreateOrganization` as its owner or by
`CreateUser`; `InsertUser` is the row both insert, refused when the e-mail
address is taken. A request takes its Actor in `Authenticate` and goes through `ReadAccess`, `WriteUser`
and `DeleteSessions` (`update_user`), or does one of the single transactions
(`CreateOrganization`, `UpdateOrganization`, `CreateUser`, `Logout`); `Login`
and `CreateSession` are the two statements of a login. `held`, `late` and
`interrupted` are history that only properties read: the roles the caller had
since the request came in, sessions of a login that was overtaken, users whose
disabling was cut off.

### Decisions

One application's users, groups and roles, and evaluations about them.
`Identity` is `authorization_identities`, `EffectiveRoles` the separate query of
the management API, `Projected` is `project_identity`, `Outcome` the order of
reasons in `evaluate`. A policy is the set of entities it permits or forbids
`principal in`. Publications and assignments, whose statements are those of
`PolicyLifecycle`, are single steps here, with the gate that `ImplementsGate`
proves of them. `ReadRelease` reads the active release, projects the graph onto
its schema and evaluates its policies, and `release` is the one it did so with.
`seen` and `inForce` are history: the graphs the subject had from the arrival of
the request until his identity was read, and the releases active from then on.

### SchemaEvolution

The part of `policy.rs` and `iam.rs` that looks inside a schema. A schema is a
function from namespaces to their common types, actions and entity types; an
entity type has a shape or not, attributes (required or not, of a primitive or
a common type), parent types, and other keys that are only compared.
`KeepsAll`, `EvolvesShape`, `EvolvesEntity` and `Evolves` are
`compare_named_definitions`, `compare_entity_shape`, `compare_entity_definition`
and `validate_schema_evolution`; `Ready` is `validate_schema_contract` with the
probe entities of `iam.rs`. What the comparison is for is stated against
`Conforms`, which is what Cedar accepts as an entity: declared attributes of the
declared type, required ones present, parents among the transitive
`Ancestors`. Around them is one application whose calls follow one another
(`Publish`, `Activate`, `Upsert`, `Delete`, `Assign`, `Unassign`); the races
between them are those of `PolicyLifecycle`. `base` is history: the schema that
the publications since the last rollback go back to.

### SyncClient and SyncOrder

Both ends of resource synchronization. A call of `sync_resources` goes from
`Begin` through `UseCached`, or `StartFetch` and the token request
(`ReadCredentials`, `IssueToken`, `CacheToken`, or `RefuseToken`,
`FetchTrouble`), to a batch under way, whose answer is `Respond`: `Resend` after
an overloaded or failing server, `DropToken` after the first 401. `Break` is a
timeout or a failed connection, `Drop` the caller dropping the future, which
releases the mutex; in both cases the request goes on without anybody waiting
for it until it ends or is lost (`Vanish`). An attempt is a request at the
server: `Admit` is `service_caller`, `Unauthorized` and `Decline` its refusals,
`Apply` one operation of the batch, `Finish` the audit entry and the answer.
`CreateSecret`, `RevokeSecret` and `Switch` are the management calls.

A token is known by the calls that had got their first 401 when it was issued:
that is all `RetriedWithLaterToken` needs. Whether it is due for renewal, or
expired, is left open, for the clocks of the client and the server have nothing
to do with each other. An operation is known by its call and its index in the
batch, and a resource is what the operation that wrote it last made it. One that
is reported as failed may have been done all the same. `late`, `alone`, `mixed`,
`report` and `carried` are history: `alone` is the call since whose beginning no
other call or request was there, `mixed` is it too once two of its requests may
have met at the server. Results (`applied`, `report`) are kept for that call
only, since only `LastCallShows` reads them.
`SyncOrder` adds the order of admission and the last writer of each resource.


## 3. Bounds

Only what counts without end is bounded: release ids (`Release`), refresh
tokens (`Token`), cookies (`Session`), operations in a batch (`MaxOperations`),
writes during a scan and changes of the access (`MaxChanges`), requests that run
although nobody waits for them (`MaxStray`), and schemas published
(`MaxReleases`). Where an instance comes to a halt
because its ids are used up, or an administrator has disabled himself, its
`.cfg` says so next to `CHECK_DEADLOCK FALSE`; the other runs check deadlock.

Two requests are enough for every race named in the hazards of `PolicyLifecycle`
and `Accounts`, each of which is between two handlers; and in
the grants two are enough for a redemption to race a replay, and for two replays
of one family to wait for each other's rows. A third release lets a rollback
go past the one a request remembers. Two calls of the SDK are enough for one to
drop, fetch and cache tokens around the 401 of the other, and one stray request
is enough for a batch to be applied twice at the same time. The schemas of
`schema_evolution` vary in one namespace at a time, because the comparison goes
namespace by namespace. The theorems have no bounds: they
hold for any sets of requests, releases, secrets, keys and users.


## 4. Runs

| Run | Instance | Question and answer |
|---|---|---|
| `assignments` | 2 requests, 3 releases, a user, a group, a role | Publications, rollbacks and assignments overlap: assignments exist only under a release with the contract (`AssignmentsNeedReadyRelease`), versions count 1, 2, 3 (`VersionsSerial`), policies name what exists (`ReferencesResolve`), releases do not change (`ReleasesImmutable`), and the store is the abstract gate (`GateSpec`). |
| `resources` | 2 requests, 2 releases, 1 resource, batches of up to 2, under fairness | Batches overtaken by everything else: what is stored was accepted by some published schema (`ResourcesConformToSomeRelease`); every request is answered (`RequestsFinish`). |
| `schema_race` | 2 publications | Violated, see findings. |
| `sync_race` | 2 requests | Violated, see findings. |
| `tokens` | 2 requests, 1 code, 5 tokens, under fairness | A secret is redeemed at most once (`RedeemedOnce`), a family has one live token (`AtMostOneLive`), what is spent has bought a token, whatever mismatched or was cut off on the way (`SpentForToken`), a replay that was answered has revoked every token the family had when the replay was found (`FamilyRevoked`), nothing grows from a revoked token (`RevokedStayDead`), the endpoint is the abstract box (`BoxSpec`), and every request is answered, deadlocks between replays included (`RequestsFinish`). |
| `search` | 4 keys with gaps, pages of 1 out of 2 looked at, 2 releases that disagree, 2 changes, under fairness | No result twice (`OnceEach`); whoever is not touched is returned exactly if the release of the first page permits it (`ExactOnQuietData`); the scan ends (`ScanFinishes`), although pages may be empty. |
| `accounts` | 2 replicas, 2 requests, 2 users, 2 organizations, changes that promote, demote, enable and disable | Sessions of a disabled user are gone, but for two named races (`DisabledSessionsEnd`); nobody signs in before his link was used (`SessionsNeedActivation`); a password is set once (`PasswordSetOnce`); roles change in the name of managers, and owners are made by owners, although both are read before the write (`ChangesAuthorized`). |
| `decisions` | 1 evaluation, 1 user, group and role, 3 releases | A decision follows from one graph and one release of the time of the request (`DecisionsFresh`), groups and roles reach Cedar only with a schema that has them, that of the release whose policies decide (`GraphFitsSchema`), nothing is answered before it is logged (`AnswersRecorded`). |
| `memberships` | 3 groups (2 physical), 2 adders | One physical group per user (`OnePhysicalGroup`); the two queries for effective roles agree in every state that memberships, assignments and disabling lead to (`ShownIsUsed`). |
| `schema_evolution` | 2 namespaces, 16 schemas, 1 document, up to 3 published | The active schema accepts every stored resource after any publications and rollbacks (`StoreReadable`), evolves all that were published since the last rollback (`EvolvesFromBase`), and a publication refuses no entity and no contract that the schema before it had (`PublicationsKeep`). |
| `sync_client` | 2 calls, one with two operations on the resource of the other's one, 1 change of the access, 1 stray request, under fairness | A batch refused with a 401 goes out again with a token issued later (`RetriedWithLaterToken`); a revoked secret is worth at most one more token (`OneTokenAfterRevocation`); a disabled application is written only by batches that were past their check (`ClosedToNewBatches`); a resource that a call was told about is what its operations make it, in their order, until another begins, with the one exception below (`LastCallShows`); and every call returns (`CallsReturn`). |
| `sync_order` | 2 calls, 2 resources | Violated, see findings. |

The exception of `LastCallShows` is a batch with several operations on a resource,
which the code accepts: if the first request of the call is still applied when
its repetition is, or is admitted after the call gave it up, the first operation
may be written after the last. Then the resource is what some operation of the
batch made it, and no more is true. With batches that name a resource once it is
what the operation reported made it, repetitions or not (`DistinctBatchesExact`).

`IInv` of each module is checked in one of its runs too, and with it the type
invariant; `SchemaEvolution`, whose `IInv` is small, has it only proved.

`DisabledSessionsEnd` names what the code leaves open rather than hiding it: a
login that found the user active and inserts its session after he was disabled
keeps a cookie that is good again once he is enabled; so does the update that
is cut off between `UPDATE users` and `DELETE FROM sessions`. While the user is
disabled `authenticate` refuses both.

### Findings

* **`PublicationEvolves`** (`schema_race`). `policy.rs:157` answers "Cedar schema
  evolution must be backward compatible". The active schema is compared in
  `publish_release` (`api/management/policies.rs:182`) before the lock is taken
  and not again: of two publications that overlap, the second replaces a
  release it was never compared with. It holds where publications and rollbacks
  are made one at a time (`OneAtATimeEvolves`).
* **`SyncConformsToActive`** (`sync_race`). `README.md:249` says a resource is
  validated "against the active Cedar schema". A batch loads the release once
  (`api/resource_sync.rs:68`); a rollback during the batch leaves its later
  operations validated against a release that is active no more. What does hold
  is `ResourcesConformToSomeRelease`; with no rollback during a batch, and
  publications one at a time, it is true as it stands (`ApartWritesConform`).
* **`LastReceivedWins`** (`sync_order`). `README.md:242-243` says "the last
  request received wins when multiple processes update the same resource". The
  operations of a batch are statements of their own (`api/resource_sync.rs:81`):
  a batch that was received first and is still at an earlier operation
  overwrites what a later one has written. What does hold without other calls
  is `LastCallShows`. `LastReceivedWins` is true of callers whose requests about
  a resource do not overlap (`SeparateLastWins`).


## 5. Fairness

Safety properties are checked, and proved, without fairness. The four liveness
properties assume no more than the runtime and PostgreSQL give:

* `PolicyLifecycle`: weak fairness of a request's next statement (the server
  runs the futures it has accepted) and strong fairness of `LockApplication`,
  for an advisory lock is granted in the order of its queue, and may be taken
  by others in between. Arrivals, aborts and edits are not fair.
* `TokenGrants`: the same, strong fairness of `Acquire` for waiters of a row, and
  weak fairness of `BreakDeadlock` (`deadlock_timeout`).
* `PagedSearch`: weak fairness of `Serve` (the caller asks on, the server
  answers), strong fairness of `AnswerPage`: losing answers is bounded by
  `MaxChanges` in any case.
* `SyncClient`: weak fairness of a call's own steps (Tokio polls it, and the
  waiters of its mutex are served in order) and of the server's handlers. The
  client sets no timeout of its own (`reqwest` has none by default), so that
  calls return rests on the server answering; nothing makes a call time out or
  be dropped. That weak fairness suffices for the mutex is because each call
  takes it a bounded number of times.


## 6. Proofs

For each module, `Invariance` proves `Spec => []IInv`, from `Init => IInv` and one
lemma per action or group of actions; the theorems about single properties
follow from it. What the inductive invariants add to the properties:

* `PolicyLifecycle`: a request past its check holds the lock (`LockHeld`), so what
  it checked still stands when it commits (`CommitsChecked`); a release id in a
  request's hands is published, or its alone (`ReleasesHeld`); what was looked
  up before stays, because groups and roles are never deleted (`InputsHeld`).
  `ImplementsGate` proves the refinement step by step.
* `TokenGrants`: a request holds the row of its secret from its first statement to
  its last (`Held`), and the rows fit together (`RowsSound`). The snapshot of
  the revoking `UPDATE` has what the family had when the token was found used,
  so that an answered replay has revoked all of that (`ReplayRevokesFamily`).
  It may miss a token inserted meanwhile; but since it is closed under
  predecessors, what is missing from it is the end of the chain, and what is
  revoked its beginning (`RevokedFromTheRoot`). `NothingSpentInVain` rests on the
  insert and the consumption being one transaction. `ImplementsBox` proves the
  refinement.
* `PagedSearch`: the candidates read are the next ones after the cursor
  (`ReadSound`). Lemmas on ranks (`BelowCount`, `FirstClosed`, `FirstFull`) say what
  `ORDER BY key LIMIT n` returns; `PageLooksAhead` that every page looks at
  something and skips nothing. So `ScanExact` holds for every page size and
  scan limit, and any number of writes.
* `Accounts`: who has a cookie has a password, and an unused link belongs to a
  user without one (`SignedInSound`); what a request about to write was allowed
  to rests on roles its caller held while it ran (`RequestSound`).
* `Decisions`: what a request has read is a graph its subject had while it ran
  (`Reading`), so the decision is (`DecisionsFresh`); the graph is projected onto
  the schema of the release that decides, whatever was active at the first read
  (`SchemaFits`); `SameGraph` proves the two queries equal.
* `SchemaEvolution`: `EvolutionTransitive` says that comparing neighbours is enough;
  `EntitiesKept` that an evolved schema accepts what the old one did, through
  the lemmas that types and their ancestors only grow (`KindsGrow`,
  `AncestorsGrow`) and that no name comes to mean another type
  (`DenotesSame`); `ContractKept` that a probe without a required field is
  still refused, because an attribute that is required stays so
  (`MissingRequired`). With them a publication keeps `StoreReadable`, while a
  rollback checks it.
* `SyncClient`: a call in its token request holds the mutex (`MutexHeld`), so the one
  token that is on its way was requested after the cache was emptied
  (`OldTokensGone`); had the mutex been free meanwhile, a task could cache a
  token from before the 401 of another. `WritesShow` is `LastCallShows` with the
  requests of the call that are still under way. It takes that nobody is beside
  a call that is alone (`AloneSound`), and that the requests of a call that is not
  mixed work one after the other, each from the first operation on
  (`OneAtATime`, `ReportsBehind`): then what a request writes is never earlier in
  the batch than what it has reported. `ResultsShow` and `DistinctBatchesExact`
  follow.

The assumptions are the `ASSUME`s of the component modules, each named: distinct
null values, types of the constants, positive limits, and in `Decisions` that a
release naming groups or roles has the contract, which is what
`validate_policy_candidate` checks.

### Where the refuted properties hold

The three properties that runs refute are theorems under a condition on which
requests overlap, a state predicate that is assumed of every state of the
behaviour. The code enforces none of the three conditions; whoever operates an
application, or writes the integration, can.

* `OnePublisher`: at most one publication or rollback is under way. Then the
  release a draft was compared with is still active when it commits
  (`EvolvesInv`), and `PublicationEvolves` holds.
* `RollbacksApart`: no rollback is under way together with a batch. With
  `OnePublisher` it gives `SyncConformsToActive` and more: every stored resource
  conforms to the active schema at any time (`StoreConforms`). Publications may
  overlap batches, because what evolves a schema accepts what it accepted
  (`BatchEvolved`). It takes both conditions: without `RollbacksApart`, a batch
  that began before the rollback goes on writing for the schema that is gone;
  with `RollbacksApart` alone, of two publications one replaces the other's
  schema unseen.
* `Separate`: no two requests with a resource in common are applied at a time,
  a request that its client gave up and its repetition included. Then
  `LastReceivedWins` holds (`OrderInv`): what a request overwrites was written
  by one admitted before it.

### What liveness rests on

Liveness under fairness is beyond the prover, so `RequestsFinish` (of
`PolicyLifecycle` and `TokenGrants`), `ScanFinishes` and `CallsReturn` are
checked by TLC and not proved. What they rest on, fairness aside, is safety, and
proved for any number of requests, tokens, keys and calls:

* `LockReturned` and `StepsBounded`: the advisory lock is held between a check
  and its answer only, and each request has a number of statements before it
  that its own steps lower and nobody raises (`StepsLeft`).
* `DeadlocksAreReplays` and `StatementsBounded`: requests of the token endpoint
  wait in a circle only if all of them replay used tokens of one family, so
  `BreakDeadlock` never picks a client in good standing; the rows that a replay
  has to lock are those of its snapshot, finitely many, whatever is inserted
  meanwhile.
* `PagesLeadOn`: a page goes beyond its cursor or is the last, so only the
  number of keys bounds a scan. `PagesFit` says how long a page is.
* `CallsBounded` and `HandlersBounded`: a call of the SDK goes through at most
  two rounds of two attempts each, and no request is made twice (`Ahead`), so
  the mutex is asked for, and the server kept busy, a bounded number of times.

The definitions these theorems state and no run lists (`StoreConforms`,
`LockOwned`, `StepsRunOut`, `OnlyReplaysDeadlock`, `StatementsRunOut`,
`PageFits`, `PagesAdvance`, `CallsRunOut`, `HandlersRunOut`, `ExactlyReported`),
and the three conditional results, held in TLC too, in instances of the size of
section 4.


## 7. Not modelled

* Cedar itself: a crate. Its verdicts are constants (`Verdict`, `Permits`,
  `Forbids`), its schema checks the booleans and sets of a draft, and in
  `SchemaEvolution` the conformance of entities. There, names stand for what
  Cedar has resolved them to, common types are one level deep and local to
  their namespace, and enumerations, tags and open records are among the keys
  that are only compared. So a name whose meaning changes because a definition
  was *added* that takes precedence over another is not looked at.
* Cedar's evaluation of policies beyond `principal in`.
* `create_application`, and the names, scopes and redirect URIs of applications
  and service accounts: rows that are inserted and read back. No code path
  disables a service account or gives a secret an expiry.
* The audit log: only ever appended to, and read by nobody but its listing. That
  some handlers append to it after their change committed is listed as a hazard.
* Discovery documents, configuration, error mapping, input validation, userinfo,
  simulation, the web console: no state, or none that another part relies on.
* Signatures, hashes and random values: a signed token is what it carries, a
  random one is different from all others. Expiry is an action that may happen
  at any time.


## 8. Plan

Done, in this order: `PolicyLifecycle` with `AssignmentGate` (the core: what is
in force and who has what), `TokenGrants` with `OneTimeSecrets`, `PagedSearch`,
`Accounts`, `Decisions`, `SyncClient` with `SyncOrder`, which includes the
service accounts and their secrets, and `SchemaEvolution`, each with its runs and
theorems.

Left:

1. Evaluations in batches (`evaluations` with its semantics for stopping early),
   over `Decisions`.
2. The refinement of a store written by whole batches, under `Separate`, by
   `SyncOrder`.

That the comparison of schemas in `PolicyLifecycle`, an inclusion of sets, may
stand for the one in the code needs no theorem of its own: read the declarations
of a schema as the entities that conform to it, and what a resource uses as
itself, then `EntitiesKept` and `ContractKept` are the two facts that
`PolicyLifecycle` takes from a successful comparison.
