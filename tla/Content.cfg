SPECIFICATION ContentSpec
CONSTANTS
    c1 = c1  c2 = c2
    BlobWriters = {c1, c2}  Chunks = {"a"}  WriteBatch = 1  WorkerPermits = 1  MaxChunks = 2  MaxCrashes = 1
    Leasers = {c1, c2}  Cleaners = {c1, c2}
    Putters = {c1, c2}  Getters = {g1}  Lengths = {1, 3}  MultipartThreshold = 1  PartSize = 1
    UploadConcurrency = 2  S3Retries = 1  MaxUploads = 2
    Fetchers = {f1}  Rangers = {r1}  Sources = 2  MaxRetries = 1  MaxConcurrent = 1  RangedReads = 1
    Writers = {c1, c2}  FileNames = {"a", "b"}  VersionOf <- Versions  FileContents = {"x", "y"}  SizeOf <- Sizes
    UpstreamFiles = {"b"}  Volatile = TRUE  MaxProjectSize = 2  MaxWrites = 3
    UploadClients = {c1, c2}  Sessions = {s1}  UploadNames = {"n"}
    UploadLimit = 2  UploadTtl = 1  MaxBody = 2  MaxUploadNow = 1
    Pullers = {c1, c2}  TagDigests = {"d1", "d2"}  TagTtl = 1  MaxStale = 1  MaxTransit = 1  MaxTagNow = 2
    DigestReaders = {c1, c2}  ProxiedRepos = {"p"}  HostedRepos = {"h"}
    ManifestDigests = {"m"}  BlobDigests = {"b"}  MembershipLimit = 1
    BackupDigests = {"a", "b", "c"}  DataDirs <- BackedUp  MaxDamage = 2  MaxCommands = 3
    MetricEvents <- UsageEvents  IndexRows <- UsageIndexes  FamilyRows <- UsageFamilies  Forever = Forever
    RetentionDays = 0  FirstDocuments <- OldDocuments
    MaxDownloads = 2  MaxOthers = 1  MaxDay = 1  MaxStops = 1  MaxSaveErrors = 1
SYMMETRY Symmetry
INVARIANTS
    BlobsAreWhole UpstreamIsBounded HostingIsSound ConversationsHold BackupsRestore MetricsAreExact
CHECK_DEADLOCK FALSE
