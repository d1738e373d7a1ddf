\* Two processes of one client, the same resource, and one change of the access
\* while they are at it.
SPECIFICATION FairSpec
CONSTANTS
    c1 = c1  c2 = c2  doc = doc
    Call = {c1, c2}
    Resource = {doc}
    Batch <- Batches
    Secret = {k1}
    Mine = k1
    Closable = {application}
    MaxChanges = 1
    MaxStray = 1
    Nobody = Nobody
    NoWrite = NoWrite
INVARIANTS
    IInv
    RetriedWithLaterToken
    OneTokenAfterRevocation
    ClosedToNewBatches
    LastCallShows
PROPERTIES
    CallsReturn
\* The instance stops when its calls are over.
CHECK_DEADLOCK FALSE
