\* Four candidates, two looked at per page, one or none of them on it.
SPECIFICATION FairSpec
CONSTANTS
    old = old
    new = new
    plain = plain
    secret = secret
    Key = {1, 3, 4, 6}
    Limit = 1
    ScanLimit = 2
    MaxChanges = 2
    Gone = Gone
    NoRelease = NoRelease
    Release <- MCRelease
    Data <- MCData
    Query <- MCQuery
    Verdict <- MCVerdict
    Applicable <- MCApplicable
INVARIANTS
    IInv
    OnceEach
    ExactOnQuietData
PROPERTIES
    ScanFinishes
\* A scan that is over stays over.
CHECK_DEADLOCK FALSE
