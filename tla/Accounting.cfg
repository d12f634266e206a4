SPECIFICATION AccountingSpec
CONSTANTS
    m1 = m1  m2 = m2  m3 = m3  x1 = x1  x2 = x2  y1 = y1  y2 = y2  z1 = z1  z2 = z2  r1 = r1
    Ids = {m1, m2, m3}
    Repositories = {r1}
    Projects = {x1, x2}
    Versions = {y1, y2}
    Digests = {z1, z2}
    Sizes = {1, 2}
    MaxFileBytes = 1
    MaxAccountedBytes = 2
    MaxProjects = 1
    MaxVersionsPerProject = 1
    Audits = {TRUE, FALSE}
    RepairLimit = 2
    MaxCount = 5
    None = None
    Tasks = {m1, m2, m3}
    Kinds = {x1, x2}
    JobScopes = {y1, y2}
    Callers = {z1, z2}
    Workers = 2
    Queue = 2
    PerKind = 1
    PerRepository = 1
    MaxStoreErrors = 1
    Panics = TRUE
    MaxCrashes = 1
    NoJob = NoJob
SYMMETRY Symmetry
INVARIANTS AccountsAreExact JobsAreSound
PROPERTIES RefinesLedger
CHECK_DEADLOCK FALSE
