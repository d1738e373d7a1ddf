\* One code and its family, rotations and replays racing each other, two replays
\* that wait for each other among them, answered under fairness.
SPECIFICATION FairSpec
CONSTANTS
    Request = {r1, r2}
    Code = {c1}
    Token = {t1, t2, t3, t4, t5}
    Nobody = Nobody
    NoSecret = NoSecret
INVARIANTS
    IInv
    RedeemedOnce
    AtMostOneLive
    SpentForToken
    FamilyRevoked
PROPERTIES
    RevokedStayDead
    BoxSpec
    RequestsFinish
\* The run ends when the refresh tokens of the instance are used up.
CHECK_DEADLOCK FALSE
