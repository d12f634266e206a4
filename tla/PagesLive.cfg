SPECIFICATION FairSpec
CONSTANTS
    j1 = j1  j2 = j2  h1 = h1  h2 = h2  b1 = b1  s1 = s1
    Json = {j1}  Html = {h1}  Background = {b1}  Sweepers = {}
    TTL = 1  MaxStale = 1  NegativeTTL = 1  Grants <- TooLong
    StoreFails = TRUE  Outages = TRUE  Disconnects = TRUE
    MaxTime = 2  MaxVersion = 2  MaxUploads = 0  MaxRuns = 1
CHECK_DEADLOCK FALSE
INVARIANT BoundedStaleness
PROPERTY RequestsEnd
