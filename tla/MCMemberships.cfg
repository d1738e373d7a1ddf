\* Two physical groups and a virtual one, a user who is added to several at a
\* time, and a role that comes to him directly and through them.
SPECIFICATION Spec
CONSTANTS
    ann = ann  team = team  crew = crew  guild = guild  reader = reader
    v1 = v1  v2 = v2  v3 = v3
    User = {ann}
    Group = {team, crew, guild}
    Role = {reader}
    Physical = {team, crew}
    Release = {v2, v3}
    NoRelease = NoRelease
    Ready = {v2}
    Permits <- PermitsOf
    Forbids <- ForbidsOf
    Adder = {a1, a2}
    Request = {}
    NoLog = NoLog
SYMMETRY Symmetry
INVARIANTS
    OnePhysicalGroup
    ShownIsUsed
