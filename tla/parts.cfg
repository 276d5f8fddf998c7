SPECIFICATION MCSpec
CONSTANTS
    Configs = {"c1", "c2"}
    Idents = {"h1", "h2"}
    None = None  Torn = Torn  NoThread = NoThread
    NotYaml = NotYaml
    Environments = {"linux", "k8s"}  SupportedProtocol <- SampleSupported
    Custom <- SampleCustom  Embedded <- SampleEmbedded
    Artifacts <- SampleArtifacts  Constraints <- SampleConstraints
    Providers = {"env"}  Secrets <- SampleSecrets  EnvVars <- SampleEnvVars
    AcVars <- SampleAcVars  BadReferences <- SampleBadReferences
    AgentRequests <- SampleRequests
    Trees <- SampleTrees  OwnFiles <- SampleOwnFiles  MaxFileFaults = 2
    InitialDelay = 2  RetryLimits = {0, 1, 3}  Interval = 3
    PowWidth = 5  MaxRun = 5  MaxTries = 7
    StatusAgents = {"a"}  Types = {"t1", "t2"}  NoType = "none"  MaxEvents = 4
    RemoteAgents = {"a", "b"}  Restricted = {"a"}  Messages <- SampleMessages
    AgentEntries = {"agentConfig", "agentConfig-2"}
    OverrideEntries = {"override.agentConfig"}
    DeniedKeys = {"exec"}  MaxKeys = 2  MaxMessages = 1
    Manifests <- SampleManifests  Signatures <- SampleSignatures
    PublicKeys = {"k1", "k2"}  TagRef = "tag"  NoResult = NoResult
    MaxAttempts = 2  MaxBlob = 2  MaxMoves = 2
    Objects <- SampleObjects  Contents <- SampleContentsByKind
    Starts <- SampleStarts  Plans <- SamplePlans
    HealthyCodes = {503}  HealthLimits = {0, 2}  MaxChanges = 2
    Absent = Absent  NoStatus = NoStatus
    Missing = Missing  NotSigned = NotSigned
    NotUtf8 = NotUtf8  Malformed = Malformed
    MaxIds = 2
    MaxFaults = 2
INVARIANTS
    IdentityStable
    FilesAsDeclared
    ShortRunsBounded
    StatusCurrent
    VerdictRight
    AssembledRight
    VerifiedIsDownloaded
    HealthJustified
PROPERTIES
    StoreIsAtomic
    OwnFilesStay
    DelaysGrow
CHECK_DEADLOCK FALSE
