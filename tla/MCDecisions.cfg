\* One user, one virtual group, one role, three releases and one evaluation: every
\* change before, between and after its two reads.
SPECIFICATION Spec
CONSTANTS
    ann = ann  team = team  crew = crew  guild = guild  reader = reader
    v1 = v1  v2 = v2  v3 = v3
    User = {ann}
    Group = {team}
    Role = {reader}
    Physical = {}
    Release = {v1, v2, v3}
    NoRelease = NoRelease
    Ready = {v1, v2}
    Permits <- PermitsOf
    Forbids <- ForbidsOf
    Adder = {a1}
    Request = {r1}
    NoLog = NoLog
INVARIANTS
    IInv
    DecisionsFresh
    GraphFitsSchema
    AnswersRecorded
