--------------------------- MODULE AccountsProofs ---------------------------
(***************************************************************************)
(* Proofs about Accounts, for any number of replicas, requests, users,     *)
(* organizations and sessions.                                             *)
(***************************************************************************)
EXTENDS Accounts, TLAPS

USE ChangeAssumption, AdminAssumption, NobodyAssumption

\* The database is empty and nothing runs.
LEMMA InitIInv == Init => IInv
<1> USE DEF Init
<1>1. Init => TypeOK
  BY DEF TypeOK, Role, NoChange
<1>2. Init => DisabledSessionsEnd /\ SessionsNeedActivation /\ SignedInSound /\ RequestsSound
  BY DEF DisabledSessionsEnd, SessionsNeedActivation, SignedInSound, RequestsSound,
         RequestSound, Given, Exists
<1>3. QED BY <1>1, <1>2 DEF IInv

\* Whoever has a session has an account, so the first administrator has his.
LEMMA ActorExists ==
  ASSUME IInv, NEW r \in Request, stage[r] \in {"handler", "write", "purge"}
  PROVE  /\ Exists(SystemAdmin) /\ By(r) \in User /\ Exists(By(r))
         /\ By(r) = holder[cookie[r]] /\ cookie[r] \in Session
  BY DEF IInv, RequestsSound, RequestSound, SessionsNeedActivation, SignedInSound, Given, By,
         TypeOK

\* A request that ends leaves the others as they are, if nobody's password,
\* cookie or account goes away.
LEMMA EndKeeps ==
  ASSUME IInv, NEW r \in Request, End(r), UNCHANGED holder,
         \A u \in User : password[u] # NoPassword => password'[u] # NoPassword,
         \A u \in User : Exists(u) => Exists(u)' /\ home'[u] = home[u]
  PROVE  RequestsSound'
<1> SUFFICES ASSUME NEW q \in Request
             PROVE  RequestSound(q)'
  BY DEF RequestsSound
<1>1. CASE q = r
  BY <1>1 DEF End, Leave, IInv, TypeOK, RequestSound
<1>2. CASE q # r
  <2>1. /\ stage'[q] = stage[q] /\ cookie'[q] = cookie[q] /\ rank'[q] = rank[q]
        /\ aim'[q] = aim[q] /\ want'[q] = want[q] /\ held'[q] = held[q]
    BY <1>2 DEF End, Leave, IInv, TypeOK
  <2>2. RequestSound(q)
    BY DEF IInv, RequestsSound
  <2>3. stage[q] \in {"handler", "write", "purge"} => By(q)' = By(q) /\ Exists(By(q))
    BY <2>1, <2>2, ActorExists DEF By
  <2>4. QED BY <2>1, <2>2, <2>3 DEF RequestSound, Given, CanManage, OwnerOrSystem, IInv, TypeOK, By
<1>3. QED BY <1>1, <1>2

\* Nothing but the requests changes, and only r does.
LEMMA TablesKeep ==
  ASSUME IInv, UNCHANGED <<accounts, cookies>>, UNCHANGED history,
         \A u \in User : Disabling(u) => Disabling(u)'
  PROVE  DisabledSessionsEnd' /\ SessionsNeedActivation' /\ SignedInSound'
  BY DEF IInv, accounts, cookies, history, DisabledSessionsEnd, SessionsNeedActivation,
         SignedInSound, Given, Exists, TypeOK

-----------------------------------------------------------------------------
(* Startup.                                                                *)

LEMMA LookStep ==
  ASSUME IInv, NEW n \in Replica, LookForAdmin(n)
  PROVE  IInv'
<1> USE DEF IInv, LookForAdmin, accounts, cookies, locals, history
<1>1. TypeOK'
  BY DEF TypeOK
<1>2. RequestsSound'
  BY DEF RequestsSound, RequestSound, Given, CanManage, OwnerOrSystem, By, Exists
<1>3. QED BY <1>1, <1>2, TablesKeep DEF Disabling

LEMMA CreateAdminStep ==
  ASSUME IInv, NEW n \in Replica, CreateAdmin(n)
  PROVE  IInv'
<1> USE DEF IInv, CreateAdmin, InsertUser, SetUser, accounts, cookies, locals, history
<1>1. TypeOK'
  <2>1. /\ status' \in [User -> {"absent", "pending", "active", "disabled"}]
        /\ role' \in [User -> Role]
        /\ home' \in [User -> Org \cup {Nobody}]
    BY SMTT(20) DEF TypeOK, Role
  <2>0. boot' \in [Replica -> {"off", "creating", "up"}]
    BY DEF TypeOK
  <2>2. /\ orgStatus' \in [Org -> {"absent", "active", "disabled"}]
        /\ password' \in [User -> Password \cup {NoPassword}]
        /\ UNCHANGED <<link, cookies, locals, history>>
    BY DEF TypeOK
  <2>3. QED BY <2>0, <2>1, <2>2 DEF TypeOK
<1>2. CASE Exists(SystemAdmin) /\ UNCHANGED <<accounts, cookies, locals, history>>
  <2>1. RequestsSound'
    BY <1>2 DEF RequestsSound, RequestSound, Given, CanManage, OwnerOrSystem, By, Exists
  <2>2. QED BY <1>1, <1>2, <2>1, TablesKeep DEF Disabling
<1>3. CASE ~Exists(SystemAdmin)
  <2>1. \A u \in User : ~Exists(u) /\ password[u] = NoPassword
    BY <1>3 DEF SignedInSound
  <2>2. \A s \in Session : ~Given(s)
    BY <2>1 DEF SessionsNeedActivation, TypeOK, Given
  <2>3. UNCHANGED <<link, cookies, locals, history>> /\ \E p \in Password :
            password' = [password EXCEPT ![SystemAdmin] = p]
    BY <1>3
  <2>4. \A r \in Request : stage[r] = "idle"
    BY <2>1, <2>2 DEF RequestsSound, RequestSound, TypeOK
  <2>5. SignedInSound'
    <3>1. /\ \A u \in User \ {SystemAdmin} : ~Exists(u)' /\ password'[u] = NoPassword
          /\ Exists(SystemAdmin)' /\ password'[SystemAdmin] # NoPassword
          /\ home'[SystemAdmin] \in Org
      BY <1>3, <2>1, <2>3 DEF Exists, TypeOK
    <3>2. \A u \in User : link'[u] = "none"
      BY <2>1, <2>3 DEF SignedInSound
    <3>3. sessions' = {}
      BY <2>2, <2>3 DEF SignedInSound, TypeOK
    <3>4. QED BY <3>1, <3>2, <3>3 DEF SignedInSound
  <2>6. DisabledSessionsEnd' /\ SessionsNeedActivation' /\ RequestsSound'
    BY <2>2, <2>3, <2>4 DEF DisabledSessionsEnd, SessionsNeedActivation, RequestsSound,
       RequestSound, SignedInSound, Given, TypeOK
  <2>7. QED BY <1>1, <2>5, <2>6
<1>4. QED BY <1>2, <1>3

-----------------------------------------------------------------------------
(* Signing in and out.                                                     *)

LEMMA LoginStep ==
  ASSUME IInv, NEW r \in Request, Login(r) \/ Authenticate(r)
  PROVE  IInv'
<1> USE DEF IInv, Login, Authenticate, LoginUser, InUse, accounts, cookies, history
<1>1. TypeOK'
  BY DEF TypeOK, SignedInSound, Given, Role
<1>2. ASSUME NEW q \in Request PROVE RequestSound(q)'
  <2>1. RequestSound(q)
    BY DEF RequestsSound
  <2>2. CASE q = r
    BY <2>1, <2>2 DEF RequestSound, SignedInSound, Given, TypeOK
  <2>3. CASE q # r
    BY <2>1, <2>3 DEF RequestSound, Given, CanManage, OwnerOrSystem, By, Exists, TypeOK
  <2>4. QED BY <2>2, <2>3
<1>3. \A u \in User : Disabling(u) => Disabling(u)'
  BY DEF Disabling, TypeOK
<1>4. QED BY <1>1, <1>2, <1>3, TablesKeep DEF RequestsSound

LEMMA CreateSessionStep ==
  ASSUME IInv, NEW r \in Request, CreateSession(r)
  PROVE  IInv'
<1> USE DEF IInv, accounts
<1>1. PICK s \in Session :
        /\ ~Given(s)
        /\ holder' = [holder EXCEPT ![s] = aim[r]]
        /\ sessions' = sessions \cup {s}
        /\ late' = IF status[aim[r]] = "active" THEN late ELSE late \cup {s}
  BY DEF CreateSession
<1>2. End(r) /\ UNCHANGED <<boot, accounts, interrupted>> /\ stage[r] = "login"
  BY DEF CreateSession
<1>3. aim[r] \in User /\ password[aim[r]] # NoPassword
  BY <1>2 DEF RequestsSound, RequestSound
<1>4. \A c \in Session : Given(c) => holder'[c] = holder[c] /\ Given(c)'
  BY <1>1 DEF Given, TypeOK
<1>5. TypeOK'
  BY <1>1, <1>2, <1>3 DEF TypeOK, End, Leave, Role
<1>6. ASSUME NEW q \in Request PROVE RequestSound(q)'
  <2>1. RequestSound(q)
    BY DEF RequestsSound
  <2>2. CASE q = r
    BY <1>2, <2>2 DEF RequestSound, End, Leave, TypeOK
  <2>3. CASE q # r
    <3>1. /\ stage'[q] = stage[q] /\ cookie'[q] = cookie[q] /\ rank'[q] = rank[q]
          /\ aim'[q] = aim[q] /\ want'[q] = want[q] /\ held'[q] = held[q]
      BY <1>2, <2>3 DEF End, Leave, TypeOK
    <3>2. stage[q] \in {"handler", "write", "purge"} => By(q)' = By(q)
      BY <1>4, <2>1, <3>1 DEF RequestSound, By
    <3>3. QED BY <1>2, <1>4, <2>1, <3>1, <3>2
            DEF RequestSound, CanManage, OwnerOrSystem, Exists
  <2>4. QED BY <2>2, <2>3
<1>7. SessionsNeedActivation' /\ SignedInSound'
  BY <1>1, <1>2, <1>3, <1>4 DEF SessionsNeedActivation, SignedInSound, Given, Exists, TypeOK
<1>8. DisabledSessionsEnd'
  <2>1. \A u \in User : Disabling(u) => Disabling(u)'
    BY <1>2 DEF Disabling, End, Leave, TypeOK
  <2>2. QED BY <1>1, <1>2, <1>3, <1>4, <2>1
          DEF DisabledSessionsEnd, SignedInSound, Given, TypeOK
<1>9. QED BY <1>5, <1>6, <1>7, <1>8 DEF RequestsSound

\* Sessions only go away.
LEMMA SessionsGo ==
  ASSUME IInv, UNCHANGED <<accounts, holder, late>>, sessions' \subseteq sessions,
         \A s \in sessions' : LET u == holder[s] IN
            u \in interrupted \/ Disabling(u) => (u \in interrupted \/ Disabling(u))'
  PROVE  DisabledSessionsEnd' /\ SessionsNeedActivation' /\ SignedInSound'
<1>1. SessionsNeedActivation' /\ SignedInSound'
  BY DEF IInv, accounts, SessionsNeedActivation, SignedInSound, Given, Exists
<1>2. DisabledSessionsEnd'
  BY DEF IInv, accounts, DisabledSessionsEnd
<1>3. QED BY <1>1, <1>2

LEMMA SignOutStep ==
  ASSUME IInv, (\E r \in Request : Logout(r)) \/ (\E s \in Session : ExpireSession(s))
  PROVE  IInv'
<1> USE DEF IInv, accounts, history
<1>1. ASSUME NEW r \in Request, Logout(r) PROVE IInv'
  <2> USE <1>1 DEF Logout
  <2>1. TypeOK'
    BY DEF TypeOK, End, Leave, Role, NoChange
  <2>2. RequestsSound'
    BY EndKeeps DEF Exists
  <2>3. \A u \in User : Disabling(u) => Disabling(u)'
    BY DEF Disabling, End, Leave, TypeOK
  <2>4. QED BY <2>1, <2>2, <2>3, SessionsGo DEF SignedInSound, Given, TypeOK
<1>2. ASSUME NEW s \in Session, ExpireSession(s) PROVE IInv'
  <2> USE <1>2 DEF ExpireSession, locals
  <2>1. TypeOK'
    BY DEF TypeOK
  <2>2. RequestsSound'
    BY DEF RequestsSound, RequestSound, Given, CanManage, OwnerOrSystem, By, Exists
  <2>3. QED BY <2>1, <2>2, SessionsGo DEF Disabling
<1>3. QED BY <1>1, <1>2

-----------------------------------------------------------------------------
(* Organizations and users.                                                *)

\* A new user: he has a link, and neither password nor session.
LEMMA NewUser ==
  ASSUME IInv, NEW r \in Request, NEW u \in User, NEW o \in Org, NEW ro \in Role,
         stage[r] = "handler", InsertUser(u, o, "pending", ro),
         link' = [link EXCEPT ![u] = "sent"], End(r),
         orgStatus' \in [Org -> {"absent", "active", "disabled"}],
         UNCHANGED <<boot, password, cookies, history>>
  PROVE  IInv'
<1> USE DEF IInv, InsertUser, SetUser, cookies, history
<1>1. TypeOK'
  BY DEF TypeOK, End, Leave, Role, NoChange
<1>2. u # SystemAdmin /\ Exists(SystemAdmin)
  BY ActorExists
<1>3. /\ \A v \in User \ {u} : /\ status'[v] = status[v] /\ link'[v] = link[v]
                               /\ home'[v] = home[v]
      /\ home'[u] = o /\ status'[u] = "pending" /\ link'[u] = "sent" /\ password[u] = NoPassword
  BY DEF TypeOK, SignedInSound
<1>4. \A s \in Session : Given(s) => holder[s] # u
  BY <1>3 DEF SessionsNeedActivation
<1>5. \A v \in User : Disabling(v) => Disabling(v)'
  BY DEF Disabling, End, Leave, TypeOK
<1>6. DisabledSessionsEnd'
  BY <1>3, <1>4, <1>5 DEF DisabledSessionsEnd, SignedInSound, Given, TypeOK
<1>7. SessionsNeedActivation' /\ SignedInSound'
  BY <1>2, <1>3, <1>4 DEF SessionsNeedActivation, SignedInSound, Given, Exists, TypeOK
<1>8. RequestsSound'
  BY <1>3, EndKeeps DEF Exists
<1>9. QED BY <1>1, <1>6, <1>7, <1>8

LEMMA CreateStep ==
  ASSUME IInv, NEW r \in Request, CreateOrganization(r) \/ CreateUser(r)
  PROVE  IInv'
<1>1. PICK u \in User, o \in Org, ro \in Role :
        InsertUser(u, o, "pending", ro) /\ link' = [link EXCEPT ![u] = "sent"]
  BY DEF CreateOrganization, CreateUser, Role
<1>2. /\ stage[r] = "handler" /\ End(r)
      /\ orgStatus' \in [Org -> {"absent", "active", "disabled"}]
      /\ UNCHANGED <<boot, password, cookies, history>>
  BY DEF CreateOrganization, CreateUser, IInv, TypeOK
<1>3. QED BY <1>1, <1>2, NewUser

LEMMA UpdateOrganizationStep ==
  ASSUME IInv, NEW r \in Request, UpdateOrganization(r)
  PROVE  IInv'
<1> USE DEF IInv, UpdateOrganization, cookies, history
<1>1. TypeOK'
  BY DEF TypeOK, End, Leave, Role, NoChange
<1>2. RequestsSound'
  BY EndKeeps DEF Exists
<1>3. \A u \in User : Disabling(u) => Disabling(u)'
  BY DEF Disabling, End, Leave, TypeOK
<1>4. DisabledSessionsEnd' /\ SessionsNeedActivation' /\ SignedInSound'
  BY <1>3 DEF DisabledSessionsEnd, SessionsNeedActivation, SignedInSound, Given, Exists, TypeOK
<1>5. QED BY <1>1, <1>2, <1>4

LEMMA ReadAccessStep ==
  ASSUME IInv, NEW r \in Request, ReadAccess(r)
  PROVE  IInv'
<1> USE DEF IInv, ReadAccess, accounts, cookies, history
<1>1. TypeOK'
  BY DEF TypeOK
<1>2. ASSUME NEW q \in Request PROVE RequestSound(q)'
  <2>1. RequestSound(q)
    BY DEF RequestsSound
  <2>2. CASE q = r
    <3>1. PICK u \in User, change \in Change :
            Exists(u) /\ MayChange(r, u, change) /\ aim'[r] = u /\ want'[r] = change
      BY DEF TypeOK
    <3>2. CanManage(r, home[u])' /\ (change.role = "owner" => OwnerOrSystem(r, home[u])')
      BY <3>1 DEF MayChange, CanManage, OwnerOrSystem, By
    <3>3. QED BY <2>1, <2>2, <3>1, <3>2
            DEF RequestSound, Given, CanManage, OwnerOrSystem, By, Exists, TypeOK
  <2>3. CASE q # r
    BY <2>1, <2>3 DEF RequestSound, Given, CanManage, OwnerOrSystem, By, Exists, TypeOK
  <2>4. QED BY <2>2, <2>3
<1>3. \A u \in User : Disabling(u) => Disabling(u)'
  BY DEF Disabling, TypeOK
<1>4. QED BY <1>1, <1>2, <1>3, TablesKeep DEF RequestsSound

\* A user is written: if he is disabled now, his sessions are about to go.
LEMMA WriteUserStep ==
  ASSUME IInv, NEW r \in Request, WriteUser(r)
  PROVE  IInv'
<1> DEFINE u == aim[r]
           st == Coalesce(want[r].status, status[u])
           ro == Coalesce(want[r].role, role[u])
<1> USE DEF IInv
<1>1. /\ stage[r] = "write" /\ u \in User /\ Exists(u)
      /\ st \in {"pending", "active", "disabled"} /\ ro \in Role
      /\ st = "disabled" => want[r].status = "disabled" \/ status[u] = "disabled"
  BY DEF WriteUser, RequestsSound, RequestSound, TypeOK, Coalesce, Exists, NoChange, Role
<1>2. /\ status' = [status EXCEPT ![u] = st] /\ role' = [role EXCEPT ![u] = ro]
      /\ UNCHANGED <<boot, orgStatus, home, password, link, holder, sessions, late, interrupted>>
  BY DEF WriteUser, SetUser, cookies, history
<1>3. /\ \A q \in Request \ {r} :
            /\ stage'[q] = stage[q] /\ cookie'[q] = cookie[q] /\ rank'[q] = rank[q]
            /\ aim'[q] = aim[q] /\ want'[q] = want[q]
            /\ held[q] \subseteq held'[q] /\ held'[q] \in SUBSET Role
      /\ IF want[r].status = "disabled"
         THEN /\ stage' = [stage EXCEPT ![r] = "purge"] /\ held'[r] \in SUBSET Role
              /\ held[r] \subseteq held'[r]
              /\ UNCHANGED <<cookie, rank, aim, want>>
         ELSE Leave(r) /\ held'[r] = {}
      /\ DOMAIN held' = Request /\ held' = [q \in Request |-> held'[q]]
  <2> HIDE DEF ro
  <2> DEFINE seen == [q \in Request |-> IF By(q) = u THEN held[q] \cup {ro} ELSE held[q]]
  <2>1. \A q \in Request : held[q] \subseteq seen[q] /\ seen[q] \in SUBSET Role
    BY <1>1 DEF TypeOK
  <2>2. \/ /\ want[r].status = "disabled" /\ stage' = [stage EXCEPT ![r] = "purge"]
           /\ held' = seen /\ UNCHANGED <<cookie, rank, aim, want>>
        \/ want[r].status # "disabled" /\ Leave(r) /\ held' = [seen EXCEPT ![r] = {}]
    BY DEF WriteUser, ro
  <2> HIDE DEF u
  <2>3. CASE want[r].status = "disabled"
    <3>1. /\ stage' = [stage EXCEPT ![r] = "purge"] /\ held' = seen
          /\ UNCHANGED <<cookie, rank, aim, want>>
      BY <2>2, <2>3
    <3>2. QED BY <2>1, <2>3, <3>1 DEF TypeOK
  <2>4. CASE want[r].status # "disabled"
    <3>1. Leave(r) /\ held' = [seen EXCEPT ![r] = {}]
      BY <2>2, <2>4
    <3>2. \A q \in Request \ {r} :
            /\ stage'[q] = stage[q] /\ cookie'[q] = cookie[q] /\ rank'[q] = rank[q]
            /\ aim'[q] = aim[q] /\ want'[q] = want[q]
      BY <3>1 DEF Leave, TypeOK
    <3>3. /\ \A q \in Request \ {r} : held'[q] = seen[q]
          /\ held'[r] = {} /\ DOMAIN held' = Request
          /\ held' = [q \in Request |-> held'[q]]
      BY <3>1
    <3> HIDE DEF seen
    <3>4. QED BY <2>1, <2>4, <3>1, <3>2, <3>3
  <2>5. QED BY <2>3, <2>4
<1> HIDE DEF st, ro
<1>4. TypeOK'
  <2>1. held' \in [Request -> SUBSET Role]
    BY <1>3
  <2>2. status' \in [User -> {"absent", "pending", "active", "disabled"}] /\ role' \in [User -> Role]
    BY <1>1, <1>2 DEF TypeOK
  <2>3. /\ stage' \in [Request -> {"idle", "login", "handler", "write", "purge"}]
        /\ cookie' \in [Request -> Session \cup {Nobody}]
    BY <1>3 DEF TypeOK, Leave
  <2>4. rank' \in [Request -> Role]
    BY <1>3 DEF TypeOK, Leave, Role
  <2>5. /\ aim' \in [Request -> User \cup {Nobody}]
        /\ want' \in [Request -> Change \cup {NoChange}]
    BY <1>3 DEF TypeOK, Leave
  <2>6. QED BY <1>2, <2>1, <2>2, <2>3, <2>4, <2>5 DEF TypeOK
<1>5. \A v \in User : Exists(v) <=> Exists(v)'
  BY <1>1, <1>2 DEF Exists, TypeOK
<1>6. ASSUME NEW q \in Request PROVE RequestSound(q)'
  <2>1. RequestSound(q)
    BY DEF RequestsSound
  <2>2. CASE q = r
    BY <1>1, <1>2, <1>3, <2>1, <2>2 DEF RequestSound, Given, Leave, TypeOK
  <2>3. CASE q # r
    <3>1. By(q)' = By(q)
      BY <1>2, <1>3, <2>3 DEF By
    <3>2. QED BY <1>2, <1>3, <1>5, <2>1, <2>3, <3>1
            DEF RequestSound, Given, CanManage, OwnerOrSystem
  <2>4. QED BY <2>2, <2>3
<1>7. SessionsNeedActivation' /\ SignedInSound'
  BY <1>2, <1>5 DEF SessionsNeedActivation, SignedInSound, Given
<1>8. DisabledSessionsEnd'
  <2>1. ASSUME NEW v \in User, Disabling(v) PROVE Disabling(v)'
    <3>1. PICK q \in Request : stage[q] = "purge" /\ aim[q] = v
      BY <2>1 DEF Disabling
    <3>2. q # r
      BY <1>1, <3>1
    <3>3. QED BY <1>3, <3>1, <3>2 DEF Disabling
  <2>2. ASSUME NEW v \in User, v = u, want[r].status = "disabled" PROVE Disabling(v)'
    BY <1>3, <2>2 DEF Disabling, TypeOK
  <2>3. ASSUME NEW v \in User, status'[v] = "disabled"
        PROVE  status[v] = "disabled" \/ Disabling(v)'
    BY <1>1, <1>2, <2>2, <2>3 DEF TypeOK, st
  <2>4. \A s \in sessions : holder[s] \in User
    BY DEF SignedInSound, Given, TypeOK
  <2>5. QED BY <1>2, <2>1, <2>3, <2>4 DEF DisabledSessionsEnd
<1>9. QED BY <1>4, <1>6, <1>7, <1>8 DEF RequestsSound

LEMMA DeleteSessionsStep ==
  ASSUME IInv, NEW r \in Request, DeleteSessions(r)
  PROVE  IInv'
<1> USE DEF IInv, DeleteSessions, accounts
<1>1. TypeOK'
  BY DEF TypeOK, End, Leave, Role, NoChange
<1>2. RequestsSound'
  BY EndKeeps DEF Exists
<1>3. \A v \in User \ {aim[r]} : Disabling(v) => Disabling(v)'
  BY DEF Disabling, End, Leave, TypeOK
<1>4. \A s \in sessions' : s \in sessions /\ holder[s] \in User \ {aim[r]}
  BY DEF SignedInSound, Given, TypeOK
<1>5. QED BY <1>1, <1>2, <1>3, <1>4, SessionsGo

LEMMA LinkStep ==
  ASSUME IInv, NEW u \in User, Activate(u) \/ ExpireLink(u)
  PROVE  IInv'
<1> USE DEF IInv, Activate, ExpireLink, cookies, locals, history
<1>1. TypeOK'
  <2>1. /\ status' \in [User -> {"absent", "pending", "active", "disabled"}]
        /\ link' \in [User -> {"none", "sent", "used", "expired"}]
    BY DEF TypeOK
  <2>2. /\ password' \in [User -> Password \cup {NoPassword}]
        /\ UNCHANGED <<boot, orgStatus, home, role, cookies, locals, history>>
    BY DEF TypeOK
  <2>3. QED BY <2>1, <2>2 DEF TypeOK
<1>2. Exists(u) /\ u # SystemAdmin /\ password[u] = NoPassword /\ link[u] = "sent"
  BY DEF SignedInSound, Exists
<1>3. /\ \A v \in User \ {u} : /\ status'[v] = status[v] /\ link'[v] = link[v]
                               /\ password'[v] = password[v]
      /\ \/ status'[u] = status[u] /\ link'[u] = "expired" /\ password'[u] = NoPassword
         \/ status'[u] = "active" /\ link'[u] = "used" /\ password'[u] # NoPassword
  BY <1>2 DEF TypeOK
<1>4. \A v \in User : Exists(v)' <=> Exists(v)
  BY <1>2, <1>3 DEF Exists
<1>5. \A s \in Session : Given(s) => holder[s] # u
  BY <1>2 DEF SessionsNeedActivation
<1>6. SessionsNeedActivation' /\ SignedInSound'
  BY <1>2, <1>3, <1>4, <1>5 DEF SessionsNeedActivation, SignedInSound, Given, TypeOK
<1>7. DisabledSessionsEnd'
  BY <1>3, <1>5 DEF DisabledSessionsEnd, SignedInSound, Given, Disabling, TypeOK
<1>8. RequestsSound'
  BY <1>2, <1>3, <1>4 DEF RequestsSound, RequestSound, Given, CanManage, OwnerOrSystem, By
<1>9. QED BY <1>1, <1>6, <1>7, <1>8

LEMMA AbandonStep ==
  ASSUME IInv, NEW r \in Request, Abandon(r)
  PROVE  IInv'
<1> USE DEF IInv, Abandon, accounts, cookies
<1>1. stage[r] = "purge" => aim[r] \in User
  BY DEF RequestsSound, RequestSound
<1>2. TypeOK'
  BY <1>1 DEF TypeOK, End, Leave, Role, NoChange
<1>3. RequestsSound'
  BY EndKeeps DEF Exists
<1>4. \A v \in User : v \in interrupted \/ Disabling(v) => (v \in interrupted \/ Disabling(v))'
  BY DEF Disabling, End, Leave, TypeOK
<1>5. QED BY <1>2, <1>3, <1>4, SessionsGo DEF SignedInSound, Given, TypeOK

-----------------------------------------------------------------------------
LEMMA StutterStep ==
  ASSUME IInv, UNCHANGED vars
  PROVE  IInv'
<1> USE DEF IInv, vars, accounts, cookies, locals, history
<1>1. TypeOK'
  BY DEF TypeOK
<1>2. RequestsSound'
  BY DEF RequestsSound, RequestSound, Given, CanManage, OwnerOrSystem, By, Exists
<1>3. QED BY <1>1, <1>2, TablesKeep DEF Disabling

\* The inductive invariant holds in every reachable state.
THEOREM Invariance == Spec => []IInv
<1>1. IInv /\ [Next]_vars => IInv'
  <2> SUFFICES ASSUME IInv, [Next]_vars PROVE IInv'
    OBVIOUS
  <2>1. CASE \E n \in Replica : LookForAdmin(n) \/ CreateAdmin(n)
    BY <2>1, LookStep, CreateAdminStep
  <2>2. ASSUME NEW r \in Request,
               Login(r) \/ CreateSession(r) \/ Authenticate(r) \/ Logout(r)
        PROVE  IInv'
    BY <2>2, LoginStep, CreateSessionStep, SignOutStep
  <2>3. ASSUME NEW r \in Request,
               CreateOrganization(r) \/ UpdateOrganization(r) \/ CreateUser(r)
        PROVE  IInv'
    BY <2>3, CreateStep, UpdateOrganizationStep
  <2>4. ASSUME NEW r \in Request,
               ReadAccess(r) \/ WriteUser(r) \/ DeleteSessions(r) \/ Abandon(r)
        PROVE  IInv'
    BY <2>4, ReadAccessStep, WriteUserStep, DeleteSessionsStep, AbandonStep
  <2>5. CASE \E u \in User : Activate(u) \/ ExpireLink(u)
    BY <2>5, LinkStep
  <2>6. CASE \E s \in Session : ExpireSession(s)
    BY <2>6, SignOutStep
  <2>7. CASE UNCHANGED vars
    BY <2>7, StutterStep
  <2>8. QED BY <2>1, <2>2, <2>3, <2>4, <2>5, <2>6, <2>7 DEF Next
<1>2. QED BY <1>1, InitIInv, PTL DEF Spec

\* Every variable keeps its type.
THEOREM TypeCorrect == Spec => []TypeOK
  BY Invariance, PTL DEF IInv

\* The sessions of a disabled user are gone, but for those of an overtaken login
\* and of a disabling that was cut off.
THEOREM SessionsEnd == Spec => []DisabledSessionsEnd
  BY Invariance, PTL DEF IInv

\* Nobody signs in to an account before its activation link was used.
THEOREM ActivationFirst == Spec => []SessionsNeedActivation
  BY Invariance, PTL DEF IInv

\* A password, once set, is never set again.
THEOREM OnePassword == Spec => PasswordSetOnce
<1>1. ASSUME IInv, [Next]_vars PROVE [PasswordStands]_vars
  <2>1. CASE UNCHANGED password
    BY <2>1 DEF PasswordStands
  <2>2. ASSUME NEW u \in User, Activate(u) PROVE PasswordStands
    BY <1>1, <2>2 DEF Activate, PasswordStands, IInv, TypeOK, SignedInSound
  <2>3. ASSUME NEW n \in Replica, CreateAdmin(n) PROVE PasswordStands
    <3>1. CASE Exists(SystemAdmin)
      BY <2>3, <3>1 DEF CreateAdmin, InsertUser, PasswordStands, accounts
    <3>2. CASE ~Exists(SystemAdmin)
      BY <1>1, <3>2 DEF PasswordStands, IInv, SignedInSound
    <3>3. QED BY <3>1, <3>2
  <2>4. ASSUME NEW r \in Request,
               \/ Login(r) \/ CreateSession(r) \/ Authenticate(r) \/ Logout(r)
               \/ CreateOrganization(r) \/ UpdateOrganization(r) \/ CreateUser(r)
               \/ ReadAccess(r) \/ WriteUser(r) \/ DeleteSessions(r)
               \/ Abandon(r)
        PROVE  UNCHANGED password
    BY <2>4 DEF Login, CreateSession, Authenticate, Logout, CreateOrganization,
       UpdateOrganization, CreateUser, ReadAccess, WriteUser, DeleteSessions, Abandon, accounts
  <2>5. QED BY <1>1, <2>1, <2>2, <2>3, <2>4
          DEF Next, LookForAdmin, ExpireLink, ExpireSession, accounts, vars
<1>2. QED BY <1>1, Invariance, PTL DEF Spec, PasswordSetOnce

\* Users are changed in the name of their managers only.
THEOREM OnlyManagersChange == Spec => ChangesAuthorized
<1>1. ASSUME IInv, [Next]_vars PROVE [Authorized]_vars
  <2> USE <1>1
  <2>1. ASSUME UNCHANGED <<status, role>> PROVE Authorized
    BY <2>1 DEF Authorized
  <2>2. ASSUME NEW v \in User, Activate(v) PROVE Authorized
    BY <2>2 DEF Activate, Authorized, Activated, IInv, TypeOK
  <2>3. ASSUME NEW v \in User, ~Exists(v), NEW st, NEW ro, SetUser(v, st, ro)
        PROVE  Authorized
    BY <2>3 DEF SetUser, Authorized, Exists, IInv, TypeOK
  <2>4. ASSUME NEW r \in Request, WriteUser(r) PROVE Authorized
    <3>1. SUFFICES ASSUME NEW u \in User,
                          <<status'[u], role'[u]>> # <<status[u], role[u]>>
                   PROVE  /\ stage[r] = "write" /\ aim[r] = u
                          /\ ManagedBy(r, u, IF role'[u] = "owner" /\ role[u] # "owner"
                                             THEN {"owner"} ELSE {"owner", "admin"})
      BY DEF Authorized
    <3>2. stage[r] = "write" /\ RequestSound(r)
      BY <2>4 DEF WriteUser, IInv, RequestsSound
    <3>3. aim[r] = u /\ role'[u] \in {want[r].role, role[u]}
      BY <2>4, <3>1 DEF WriteUser, SetUser, Coalesce, IInv, TypeOK
    <3>4. rank[r] \in Role /\ rank[r] \in held[r]
      BY <3>2 DEF RequestSound, IInv, TypeOK
    <3>5. By(r) = SystemAdmin \/ (home[By(r)] = home[u] /\ rank[r] \in {"owner", "admin"})
      BY <3>2, <3>3, <3>4 DEF RequestSound, CanManage, Role
    <3>6. role'[u] = "owner" /\ role[u] # "owner" => OwnerOrSystem(r, home[u])
      BY <3>2, <3>3 DEF RequestSound
    <3>7. QED BY <3>2, <3>3, <3>4, <3>5, <3>6 DEF ManagedBy, OwnerOrSystem
  <2>5. ASSUME NEW r \in Request, CreateOrganization(r) \/ CreateUser(r) PROVE Authorized
    BY <2>3, <2>5 DEF CreateOrganization, CreateUser, InsertUser
  <2>6. ASSUME NEW n \in Replica, CreateAdmin(n) PROVE Authorized
    <3>1. CASE ~Exists(SystemAdmin)
      <4>1. SetUser(SystemAdmin, "active", "owner")
        BY <2>6, <3>1 DEF CreateAdmin, InsertUser
      <4>2. QED BY <2>3, <3>1, <4>1
    <3>2. CASE Exists(SystemAdmin)
      <4>1. UNCHANGED <<status, role>>
        BY <2>6, <3>2 DEF CreateAdmin, InsertUser, accounts
      <4>2. QED BY <2>1, <4>1
    <3>3. QED BY <3>1, <3>2
  <2>7. ASSUME NEW r \in Request,
               \/ Login(r) \/ CreateSession(r) \/ Authenticate(r) \/ Logout(r)
               \/ UpdateOrganization(r) \/ ReadAccess(r) \/ DeleteSessions(r)
               \/ Abandon(r)
        PROVE  UNCHANGED <<status, role>>
    BY <2>7 DEF Login, CreateSession, Authenticate, Logout, UpdateOrganization, ReadAccess,
       DeleteSessions, Abandon, accounts
  <2>8. QED BY <2>1, <2>2, <2>4, <2>5, <2>6, <2>7
          DEF Next, LookForAdmin, ExpireLink, ExpireSession, accounts, vars
<1>2. QED BY <1>1, Invariance, PTL DEF Spec, ChangesAuthorized
=============================================================================
