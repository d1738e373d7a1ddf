\* A batch overtaken by a rollback.
SPECIFICATION Spec
CONSTANTS
    Role = {}
    User = {}
    Group = {}
    k1 = k1
    u1 = u1
    g1 = g1
    title = title
    owner = owner
    Request = {r1, r2}
    Release = {v1, v2, v3}
    Resource = {doc}
    Declaration = {title, owner}
    Draft <- ResourceDrafts
    MaxOperations = 1
    NoRelease = NoRelease
    Nobody = Nobody
    NoPair = NoPair
PROPERTIES
    SyncConformsToActive
