\* Two replicas, the administrator and one other user, in his organization or in
\* another one, two requests at a time: logins, links and updates of every kind
\* overtaking each other.
SPECIFICATION Spec
CONSTANTS
    Replica = {n1, n2}
    Request = {r1, r2}
    User = {boss, ann}
    Org = {main, shop}
    Change <- Changes
    SystemAdmin = boss
    AdminOrg = main
    Password = {p1, p2}
    NoPassword = NoPassword
    Session = {s1, s2}
    Nobody = Nobody
SYMMETRY Symmetry
INVARIANTS
    IInv
    DisabledSessionsEnd
    SessionsNeedActivation
PROPERTIES
    PasswordSetOnce
    ChangesAuthorized
\* The instance may stop: its cookies are used up, or the administrator has
\* disabled himself and nobody else can sign in.
CHECK_DEADLOCK FALSE
