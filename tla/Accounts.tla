------------------------------ MODULE Accounts ------------------------------
(***************************************************************************)
(* Organizations, their users, and how users sign in to the management     *)
(* API: the administrator created at startup, activation links, sessions,  *)
(* and the changes managers make.                                          *)
(*                                                                         *)
(* A handler works on an Actor, the copy of the session's user that the    *)
(* middleware read when the request came in, and runs one statement after  *)
(* another, most of them outside any transaction; it stops between two of  *)
(* them when the client goes away or the server dies.                      *)
(***************************************************************************)
EXTENDS FiniteSets

CONSTANTS
    Replica,            \* servers started on one database
    Request,            \* requests in flight
    User, Org,          \* by e-mail address, by name
    SystemAdmin,        \* bootstrap.email
    AdminOrg,           \* bootstrap.organization
    Change,             \* what an update_user asks for
    Password, NoPassword,
    Session,            \* session cookies
    Nobody

VARIABLES
    boot,               \* where the startup of a replica stands
    orgStatus,          \* organizations.status
    home,               \* users.organization_id
    status, role,       \* users.status, users.role
    password,           \* password_credentials
    link,               \* the activation token of a user
    holder,             \* the user a cookie was given to
    sessions,           \* rows of sessions that have not expired
    stage,              \* what a request does next
    cookie, rank,       \* the session of its Actor, and the role he had
    aim, want,          \* the user concerned, and the change to him
    held,               \* the roles the Actor has had since it came in (history)
    late,               \* sessions begun by a user disabled meanwhile (history)
    interrupted         \* users whose disabling stopped half-way (history)

accounts == <<orgStatus, home, status, role, password, link>>
cookies  == <<holder, sessions>>
locals   == <<stage, cookie, rank, aim, want, held>>
history  == <<late, interrupted>>
vars == <<boot, accounts, cookies, locals, history>>

-----------------------------------------------------------------------------
Role     == {"owner", "admin", "member"}
NoChange == [role |-> "same", status |-> "same"]

ASSUME ChangeAssumption ==
    Change \subseteq [role : Role \cup {"same"}, status : {"active", "disabled", "same"}]
ASSUME AdminAssumption == SystemAdmin \in User /\ AdminOrg \in Org
ASSUME NobodyAssumption ==
    Nobody \notin User \cup Session \cup Org /\ NoPassword \notin Password

Exists(u) == status[u] # "absent"
Given(s)  == holder[s] # Nobody

\* The user in whose name a request is made.
By(r) == IF cookie[r] \in Session THEN holder[cookie[r]] ELSE Nobody

Init == /\ boot = [n \in Replica |-> "off"]
        /\ orgStatus = [o \in Org |-> "absent"]
        /\ home = [u \in User |-> Nobody]
        /\ status = [u \in User |-> "absent"]
        /\ role = [u \in User |-> "member"]
        /\ password = [u \in User |-> NoPassword]
        /\ link = [u \in User |-> "none"]
        /\ holder = [s \in Session |-> Nobody]
        /\ sessions = {}
        /\ stage = [r \in Request |-> "idle"]
        /\ cookie = [r \in Request |-> Nobody]
        /\ rank = [r \in Request |-> "member"]
        /\ aim = [r \in Request |-> Nobody]
        /\ want = [r \in Request |-> NoChange]
        /\ late = {} /\ interrupted = {}
        /\ held = [r \in Request |-> {}]

SetUser(u, st, ro) == /\ status' = [status EXCEPT ![u] = st]
                      /\ role' = [role EXCEPT ![u] = ro]

\* INSERT INTO users: an e-mail address belongs to one user of one organization.
InsertUser(u, o, st, ro) == /\ ~Exists(u)
                            /\ home' = [home EXCEPT ![u] = o]
                            /\ SetUser(u, st, ro)

-----------------------------------------------------------------------------
(* Startup: the first replica on an empty database creates the             *)
(* administrator.                                                          *)

\* has_system_admin
LookForAdmin(n) ==
    /\ boot[n] = "off"
    /\ boot' = [boot EXCEPT ![n] = IF Exists(SystemAdmin) THEN "up" ELSE "creating"]
    /\ UNCHANGED <<accounts, cookies, locals, history>>

\* Mutant of CreateAdmin: a replica that comes second takes the account over.
CreateOrReplace(n) ==
    /\ boot[n] = "creating"
    /\ SetUser(SystemAdmin, "active", "owner")
    /\ home' = [home EXCEPT ![SystemAdmin] = AdminOrg]
    /\ orgStatus' = [orgStatus EXCEPT ![AdminOrg] = "active"]
    /\ \E p \in Password : password' = [password EXCEPT ![SystemAdmin] = p]
    /\ boot' = [boot EXCEPT ![n] = "up"]
    /\ UNCHANGED <<link, cookies, locals, history>>

\* create_bootstrap_admin: where another replica came first the organization's
\* name is taken, and the process exits; it may be started again.
CreateAdmin(n) ==
    /\ boot[n] = "creating"
    /\ \/ /\ InsertUser(SystemAdmin, AdminOrg, "active", "owner")
          /\ orgStatus' = [orgStatus EXCEPT ![AdminOrg] = "active"]
          /\ \E p \in Password : password' = [password EXCEPT ![SystemAdmin] = p]
          /\ boot' = [boot EXCEPT ![n] = "up"]
          /\ UNCHANGED <<link, cookies, locals, history>>
       \/ /\ Exists(SystemAdmin)
          /\ boot' = [boot EXCEPT ![n] = "off"]
          /\ UNCHANGED <<accounts, cookies, locals, history>>

-----------------------------------------------------------------------------
(* Signing in and out.                                                     *)

InUse(u) == status[u] = "active" /\ orgStatus[home[u]] = "active"

Leave(r) == /\ stage' = [stage EXCEPT ![r] = "idle"]
            /\ cookie' = [cookie EXCEPT ![r] = Nobody]
            /\ rank' = [rank EXCEPT ![r] = "member"]
            /\ aim' = [aim EXCEPT ![r] = Nobody]
            /\ want' = [want EXCEPT ![r] = NoChange]

End(r) == Leave(r) /\ held' = [held EXCEPT ![r] = {}]

\* Mutant of LoginUser: users without a password are found too.
AnyUser(u) == InUse(u)

\* login_user, and the password that was typed is the right one.
LoginUser(u) == InUse(u) /\ password[u] # NoPassword

Login(r) ==
    /\ stage[r] = "idle"
    /\ \E u \in User :
        /\ LoginUser(u)
        /\ aim' = [aim EXCEPT ![r] = u]
    /\ stage' = [stage EXCEPT ![r] = "login"]
    /\ UNCHANGED <<boot, accounts, cookies, cookie, rank, want, held, history>>

\* The user is not looked at again.
CreateSession(r) ==
    /\ stage[r] = "login"
    /\ \E s \in Session :
        /\ ~Given(s)
        /\ holder' = [holder EXCEPT ![s] = aim[r]]
        /\ sessions' = sessions \cup {s}
        /\ late' = IF status[aim[r]] = "active" THEN late ELSE late \cup {s}
    /\ End(r)
    /\ UNCHANGED <<boot, accounts, interrupted>>

\* authenticate: the middleware of every other request.
Authenticate(r) ==
    /\ stage[r] = "idle"
    /\ \E s \in sessions :
        /\ InUse(holder[s])
        /\ cookie' = [cookie EXCEPT ![r] = s]
        /\ rank' = [rank EXCEPT ![r] = role[holder[s]]]
        /\ held' = [held EXCEPT ![r] = {role[holder[s]]}]
    /\ stage' = [stage EXCEPT ![r] = "handler"]
    /\ UNCHANGED <<boot, accounts, cookies, aim, want, history>>

Logout(r) ==
    /\ stage[r] = "handler"
    /\ sessions' = sessions \ {cookie[r]}
    /\ End(r)
    /\ UNCHANGED <<boot, accounts, holder, history>>

ExpireSession(s) == /\ s \in sessions
                    /\ sessions' = sessions \ {s}
                    /\ UNCHANGED <<boot, accounts, holder, locals, history>>

-----------------------------------------------------------------------------
(* What the handlers may do.                                               *)

CanManage(r, o) == By(r) = SystemAdmin \/ (home[By(r)] = o /\ rank[r] # "member")

OwnerOrSystem(r, o) == By(r) = SystemAdmin \/ (home[By(r)] = o /\ rank[r] = "owner")

\* Mutant of MayChange: anyone who manages users may make an owner.
MayChangeAny(r, u, change) ==
    /\ CanManage(r, home[u])
    /\ role[u] = "owner" => OwnerOrSystem(r, home[u])

\* Only owners change owners, and only owners make them.
MayChange(r, u, change) ==
    /\ CanManage(r, home[u])
    /\ "owner" \in {role[u], change.role} => OwnerOrSystem(r, home[u])

-----------------------------------------------------------------------------
(* Organizations and users.                                                *)

\* The organization, its owner and his activation token, in one transaction.
CreateOrganization(r) ==
    /\ stage[r] = "handler" /\ By(r) = SystemAdmin
    /\ \E u \in User, o \in Org :
        /\ orgStatus[o] = "absent"
        /\ orgStatus' = [orgStatus EXCEPT ![o] = "active"]
        /\ InsertUser(u, o, "pending", "owner")
        /\ link' = [link EXCEPT ![u] = "sent"]
    /\ End(r)
    /\ UNCHANGED <<boot, password, cookies, history>>

UpdateOrganization(r) ==
    /\ stage[r] = "handler"
    /\ \E o \in Org, st \in {"active", "disabled"} :
        /\ OwnerOrSystem(r, o) /\ orgStatus[o] # "absent"
        /\ orgStatus' = [orgStatus EXCEPT ![o] = st]
    /\ End(r)
    /\ UNCHANGED <<boot, home, status, role, password, link, cookies, history>>

CreateUser(r) ==
    /\ stage[r] = "handler"
    /\ \E u \in User, o \in Org, ro \in Role :
        /\ orgStatus[o] # "absent"
        /\ CanManage(r, o)
        /\ ro = "owner" => OwnerOrSystem(r, o)
        /\ InsertUser(u, o, "pending", ro)
        /\ link' = [link EXCEPT ![u] = "sent"]
    /\ End(r)
    /\ UNCHANGED <<boot, orgStatus, password, cookies, history>>

\* user_access and the checks on what it returned.
ReadAccess(r) ==
    /\ stage[r] = "handler"
    /\ \E u \in User, change \in Change :
        /\ Exists(u)
        /\ MayChange(r, u, change)
        /\ aim' = [aim EXCEPT ![r] = u]
        /\ want' = [want EXCEPT ![r] = change]
    /\ stage' = [stage EXCEPT ![r] = "write"]
    /\ UNCHANGED <<boot, accounts, cookies, cookie, rank, held, history>>

\* COALESCE(new, old)
Coalesce(new, old) == IF new = "same" THEN old ELSE new

\* UPDATE users: the user is not looked at again.
WriteUser(r) ==
    /\ stage[r] = "write"
    /\ LET u == aim[r]
           ro == Coalesce(want[r].role, role[u])
           seen == [q \in Request |-> IF By(q) = u THEN held[q] \cup {ro} ELSE held[q]]
       IN  /\ SetUser(u, Coalesce(want[r].status, status[u]), ro)
           /\ IF want[r].status = "disabled"
              THEN /\ stage' = [stage EXCEPT ![r] = "purge"]
                   /\ held' = seen
                   /\ UNCHANGED <<cookie, rank, aim, want>>
              ELSE Leave(r) /\ held' = [seen EXCEPT ![r] = {}]
    /\ UNCHANGED <<boot, orgStatus, home, password, link, cookies, history>>

\* Mutant of DeleteSessions: those of the manager.
DeleteOwnSessions(r) ==
    /\ stage[r] = "purge"
    /\ sessions' = {s \in sessions : holder[s] # By(r)}
    /\ interrupted' = interrupted \ {aim[r]}
    /\ End(r)
    /\ UNCHANGED <<boot, accounts, holder, late>>

\* DELETE FROM sessions, where the user was disabled.
DeleteSessions(r) ==
    /\ stage[r] = "purge"
    /\ sessions' = {s \in sessions : holder[s] # aim[r]}
    /\ interrupted' = interrupted \ {aim[r]}
    /\ End(r)
    /\ UNCHANGED <<boot, accounts, holder, late>>

\* Mutant of Activate: used_at IS NULL is missing.
ActivateAgain(u) ==
    /\ link[u] \in {"sent", "used"}
    /\ link' = [link EXCEPT ![u] = "used"]
    /\ \E p \in Password : password' = [password EXCEPT ![u] = p]
    /\ status' = [status EXCEPT ![u] = "active"]
    /\ UNCHANGED <<boot, orgStatus, home, role, cookies, locals, history>>

\* activate_user: one transaction, whoever has the link.
Activate(u) ==
    /\ link[u] = "sent"
    /\ link' = [link EXCEPT ![u] = "used"]
    /\ \E p \in Password : password' = [password EXCEPT ![u] = p]
    /\ status' = [status EXCEPT ![u] = "active"]
    /\ UNCHANGED <<boot, orgStatus, home, role, cookies, locals, history>>

ExpireLink(u) == /\ link[u] = "sent"
                 /\ link' = [link EXCEPT ![u] = "expired"]
                 /\ UNCHANGED <<boot, orgStatus, home, status, role, password, cookies, locals, history>>

\* The request is refused, or its client goes away, or the server dies.
Abandon(r) ==
    /\ stage[r] # "idle"
    /\ interrupted' = IF stage[r] = "purge" THEN interrupted \cup {aim[r]} ELSE interrupted
    /\ End(r)
    /\ UNCHANGED <<boot, accounts, cookies, late>>

-----------------------------------------------------------------------------
Next == \/ \E n \in Replica : LookForAdmin(n) \/ CreateAdmin(n)
        \/ \E r \in Request :
              \/ Login(r) \/ CreateSession(r) \/ Authenticate(r) \/ Logout(r)
              \/ CreateOrganization(r) \/ UpdateOrganization(r) \/ CreateUser(r)
              \/ ReadAccess(r) \/ WriteUser(r) \/ DeleteSessions(r)
              \/ Abandon(r)
        \/ \E u \in User : Activate(u) \/ ExpireLink(u)
        \/ \E s \in Session : ExpireSession(s)

Spec == Init /\ [][Next]_vars

-----------------------------------------------------------------------------
TypeOK == /\ boot \in [Replica -> {"off", "creating", "up"}]
          /\ orgStatus \in [Org -> {"absent", "active", "disabled"}]
          /\ home \in [User -> Org \cup {Nobody}]
          /\ status \in [User -> {"absent", "pending", "active", "disabled"}]
          /\ role \in [User -> Role]
          /\ password \in [User -> Password \cup {NoPassword}]
          /\ link \in [User -> {"none", "sent", "used", "expired"}]
          /\ holder \in [Session -> User \cup {Nobody}]
          /\ sessions \in SUBSET Session
          /\ stage \in [Request -> {"idle", "login", "handler", "write", "purge"}]
          /\ cookie \in [Request -> Session \cup {Nobody}]
          /\ rank \in [Request -> Role]
          /\ aim \in [Request -> User \cup {Nobody}]
          /\ want \in [Request -> Change \cup {NoChange}]
          /\ late \in SUBSET Session
          /\ held \in [Request -> SUBSET Role]
          /\ interrupted \in SUBSET User

\* A cookie given to a user who was disabled later is not good again when he is
\* enabled: while he is disabled, his sessions are gone once the request that
\* disabled him is through, except those begun by a login that had found him
\* active and was overtaken, or where that request was cut off.
Disabling(u) == \E r \in Request : stage[r] = "purge" /\ aim[r] = u

DisabledSessionsEnd == \A s \in sessions :
    status[holder[s]] = "disabled" =>
        s \in late \/ holder[s] \in interrupted \/ Disabling(holder[s])

\* Nobody signs in to an account whose activation link was not used, not even
\* after a manager has set it active; only the first administrator needs none.
SessionsNeedActivation == \A s \in Session :
    Given(s) => /\ password[holder[s]] # NoPassword
                /\ holder[s] = SystemAdmin \/ link[holder[s]] = "used"

\* Whoever uses the activation link first has the account: nothing sets the
\* password again, however many hold the link and however often it is sent; nor
\* does a second replica that starts on the empty database.
PasswordStands == \A u \in User : password[u] # NoPassword => password'[u] = password[u]

PasswordSetOnce == [][PasswordStands]_vars

\* The roles and the status of a user are changed by his activation, and otherwise
\* only in the name of someone who was manager of his organization while the
\* request ran, and who was an owner of it if the change makes an owner: however
\* the manager and the user themselves are changed meanwhile.
ManagedBy(r, u, roles) ==
    \/ By(r) = SystemAdmin
    \/ home[By(r)] = home[u] /\ held[r] \cap roles # {}

Activated(u) == link[u] = "sent" /\ link'[u] = "used" /\ role'[u] = role[u]

Authorized == \A u \in User :
    Exists(u) /\ <<status'[u], role'[u]>> # <<status[u], role[u]>> /\ ~Activated(u) =>
        \E r \in Request :
            /\ stage[r] = "write" /\ aim[r] = u
            /\ ManagedBy(r, u, IF role'[u] = "owner" /\ role[u] # "owner"
                               THEN {"owner"} ELSE {"owner", "admin"})

ChangesAuthorized == [][Authorized]_vars

\* What the requests rely on: cookies are given to users who have a password, a
\* link that was not used belongs to a user without one, and a request that is
\* about to write was allowed to by the Actor it came in with.
SignedInSound ==
    /\ \A s \in sessions : Given(s)
    /\ \A u \in User : password[u] # NoPassword =>
          Exists(u) /\ (u = SystemAdmin \/ link[u] = "used")
    /\ \A u \in User : link[u] = "sent" => password[u] = NoPassword
    /\ \A u \in User : IF Exists(u) THEN home[u] \in Org ELSE link[u] = "none"
    /\ \A u \in User : Exists(u) =>
          password[SystemAdmin] # NoPassword /\ link[SystemAdmin] = "none"

RequestSound(r) ==
    /\ stage[r] = "login" => aim[r] \in User /\ password[aim[r]] # NoPassword
    /\ stage[r] \in {"handler", "write", "purge"} =>
          cookie[r] \in Session /\ Given(cookie[r]) /\ rank[r] \in held[r]
    /\ stage[r] \in {"write", "purge"} => aim[r] \in User
    /\ stage[r] = "write" => /\ CanManage(r, home[aim[r]]) /\ Exists(aim[r])
                             /\ want[r].role = "owner" => OwnerOrSystem(r, home[aim[r]])

RequestsSound == \A r \in Request : RequestSound(r)

\* The inductive invariant.
IInv == TypeOK /\ DisabledSessionsEnd /\ SessionsNeedActivation /\ SignedInSound /\ RequestsSound
=============================================================================
