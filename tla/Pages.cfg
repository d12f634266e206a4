SPECIFICATION Spec
CONSTANTS
    j1 = j1  j2 = j2  h1 = h1  h2 = h2  b1 = b1  s1 = s1
    Json = {j1, j2}  Html = {}  Background = {b1}  Sweepers = {s1}
    TTL = 1  MaxStale = 1  NegativeTTL = 1  Grants <- Unlimited
    StoreFails = TRUE  Outages = FALSE  Disconnects = TRUE
    MaxTime = 2  MaxVersion = 2  MaxUploads = 1  MaxRuns = 1
CHECK_DEADLOCK FALSE
INVARIANTS PagesAreCurrent
SYMMETRY JsonSymmetry
