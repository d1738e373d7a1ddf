\* Publications, rollbacks, assignments and synchronization batches overlapping,
\* with a schema for resources and one for roles.
SPECIFICATION FairSpec
CONSTANTS
    Role = {k1}
    User = {u1}
    Group = {g1}
    k1 = k1
    u1 = u1
    g1 = g1
    title = title
    owner = owner
    Request = {r1, r2}
    Release = {v1, v2}
    Resource = {doc}
    Declaration = {title}
    Draft <- MixedDrafts
    MaxOperations = 2
    NoRelease = NoRelease
    Nobody = Nobody
    NoPair = NoPair
INVARIANTS
    ResourcesConformToSomeRelease
PROPERTIES
    RequestsFinish
