SPECIFICATION DownloadFairSpec
CONSTANTS
    Streamers = {s1}  Inspectors = {i1}
    BodyLen = 3  FlushEvery = 2  LocalTail = TRUE  Faults = TRUE  Disconnects = TRUE  MaxTransfers = 2
INVARIANTS TransfersAreSound
PROPERTY RequestsEnd
