SPECIFICATION FrontSpec
CONSTANTS
    c1 = c1  c2 = c2
    Handlers = {c1, c2}  Shapes <- SentShapes  Trusted = {"proxy"}  ClassLimit <- Limits
    MaxNow = 3  MaxChecks = 4  MaxEvictions = 1
    Exchanges = {c1, c2}  Identities <- HeldIdentities  Publishers <- PublishRules  Audience = "peryx"  SigningKeys = {"k1"}
    TokenTtl = 1  ReplayCapacity = 1  MinFresh = 1  DefaultFresh = 1  MaxFresh = 2  HardCache = 2  MaxLifetime = 3
    MaxAges <- Ages  MaxOidcNow = 3  MaxExchanges = 2
    DisplayNames = {"Ann", "ann", "bob"}  Canonical <- CanonicalNames  Passwords = {"p"}  Costs = {1, 2}
    Repositories = {"r"}  Logins = {l1}  Operators = {o1}  MaxPasswordChecks = 1
    MaxUsers = 2  MaxRevision = 2  MaxSteps = 2
    Characters = {"a", "b", "c", "d", "/", "*"}  Patterns <- CheckedPatterns  Texts <- CheckedTexts
    Indexes <- GuardedIndexes  UploadTargets <- GuardedTargets  Secrets = {"s1", "s2"}  Names <- AskedNames  RealmTtl = 2  MaxAclNow = 2
    Policies <- KnownPolicies  PolicyFiles <- ListedFiles  Projects = {"p"}  Prefixed <- ReservedNames
    MaxHistory = 2  QueryLimit = 1  MaxRecords = 3  MaxGenerations = 2  MaxPolicyNow = 0
    Sends = {c1, c2}  Proxies <- AskedProxies  MaxTokens = 3
    TagNames = {1, 2, 3, 4}  PageSizes <- AskedSizes  MaxTagChanges = 5
    ListedTags = {1, 2}  MaxTagPages = 2  PageTtl = 1  PageStale = 1  MaxPageNow = 2
    MirrorRefs <- MirroredRefs  ChildrenOf <- MirroredChildren  LayersOf <- MirroredLayers
    NormalName <- ProjectNames  ParsedVersion <- VersionTexts  Filenames <- DistributionNames  MetadataBytes = 1
    MaxSdistEntries = 4  SdistEntries <- WalkedEntries  WheelFiles = {"METADATA", "RECORD", "RECORD.jws", "m.py"}
    MaxWheelFlaws = 1  MaxListedEntries = 2  MaxContainerDepth = 1  NestedBytes = 1  MaxMemberChunk = 5
    TextMembers <- MemberTexts  InspectedArchives <- Inspected
    BaseParts <- SentParts  OddParts <- StrayParts  Distributions <- Uploaded  MaxOddParts = 1  OddPlaces = {1, 7}
    FileBytes = 1  SplitUrl <- UrlTexts  MaxAttestations = 1
    LayerChoices <- TriedTogether  FileLayers <- TriedFiles  EnvLayers <- TriedEnvs  CliLayers <- TriedClis
    SecretFiles <- KeptFiles  EnvSecrets <- KeptEnvs  MaxChangePage = 100  BadRoutes = {"admin"}
    UrlParts <- KnownUrls  NetrcEntries <- KnownEntries  Replacements = {"w1", "w2", ""}  MaxStarts = 3
    VersionRank <- Ranks  NameInfo <- FileNames  FilePool <- PageFilePool  MetaPool <- ListedMetas
    Documents <- SentPages  Contexts <- Served  Base <- Address  Route = "r"
    PreflightLimit = 60  MaxPageFiles = 4  MaxPageSymbols = 200
    PrefetchIndexes <- MirrorMembers  Settings <- MirrorSettings  Requests <- MirrorRequests
    RequirementFiles <- MirrorLines  PathParts <- MirrorPaths  WorkingDir <- MirrorHome  MaxPath = 9
    Normal <- MirrorNames  SpecVersions <- MirrorSpecs  ProjectOrder <- MirrorOrder
    PageFiles <- MirrorPages  UpstreamPages <- MirrorAnswers  LocalProjects = {"b"}
    Unlisted = "absent"  Down = "down"  NoDigest = "none"  BadDigest = "bad"
    MaxCommands = 2  MaxUpstreamChanges = 1  MaxRot = 1
SYMMETRY Symmetry
INVARIANTS
    RateBounded TrustIsBounded UsersAreConsistent AccessIsExact PoliciesAreSound DiscoveryIsSound
    UploadsAreSound ConfigIsSound PagesAreExact MirrorsAreSound
CHECK_DEADLOCK FALSE
