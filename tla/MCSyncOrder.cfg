\* Two processes synchronize the same resource at the same time.
SPECIFICATION OrderSpec
CONSTANTS
    c1 = c1  c2 = c2  doc = doc  note = note
    Call = {c1, c2}
    Resource = {doc, note}
    Batch <- Batches
    Secret = {k1}
    Mine = k1
    Closable = {}
    MaxChanges = 0
    MaxStray = 0
    Nobody = Nobody
    NoWrite = NoWrite
PROPERTIES
    LastReceivedWins
CHECK_DEADLOCK FALSE
