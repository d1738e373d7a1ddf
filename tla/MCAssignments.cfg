\* Publications, rollbacks and assignments overlapping.
SPECIFICATION Spec
CONSTANTS
    Role = {k1}
    User = {u1}
    Group = {g1}
    k1 = k1
    u1 = u1
    g1 = g1
    title = title
    owner = owner
    Request = {r1, r2}
    Release = {v1, v2, v3}
    Resource = {}
    Declaration = {}
    Draft <- RoleDrafts
    MaxOperations = 1
    NoRelease = NoRelease
    Nobody = Nobody
    NoPair = NoPair
SYMMETRY Symmetry
INVARIANTS
    IInv
    AssignmentsNeedReadyRelease
    VersionsSerial
    ReferencesResolve
PROPERTIES
    ReleasesImmutable
    GateSpec
