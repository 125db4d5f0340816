SPECIFICATION MCSpec
CONSTANTS
    \* The bounded map.
    a = a
    b = b
    c = c
    Keys = {a, b, c}
    MaxEntries = 2
    CompactFactor = 1
    CompactSlack = 2
    MaxGeneration = 9
    \* The priority resolver: two packages, two jobs and what they start.
    Tracked = {1, 2}
    Touches <- MCTouches
    TierOf <- MCTierOf
    OfflineTier <- NoOfflineTier
    MinObservations = 1
    MaxSeen = 2
    MaxJobs = 2
    \* The census.
    Listed = {"a", "b"}
    Inquirers = {1, 2}
    RefreshInterval = 2
    LastTick = 3
    \* The throttle.
    Callers = {1, 2}
    MinInterval = 2
    BackoffInitial = 1
    BackoffMax = 3
    LastMoment = 8
    \* npm.
    NpmPackages = {1, 2}
    MaxChange = 3
    BatchSize = 2
    PublishWindow = 1
    NpmRecentCapacity = 2
    MaxNpmCrashes = 1
    \* crates.io.
    MaxCommit = 4
    FetchDepth = 2
    SummaryWindow = 2
    CratesRecentCapacity = 2
    MaxCratesCrashes = 1
    \* Repository provenance.
    CheckedReleases <- MCCheckedReleases
    Pushed <- MCPushed
    TokenHeld = FALSE
    MaxChecks = 2
    \* Collecting.
    Registered = {1, 2, 3, 4, 5}
    Requirements <- MCRequirements
    SeedPackages <- MCSeedPackages
    SeedPopularity <- MCSeedPopularity
    MaxDepth = 2
    MaxPackages = 4
    RequestConcurrency = 2
    ExternalFallback = TRUE
    \* The data directory: two releases, a task of each worker.
    EventOf <- MCEventOf
    CaptureOf <- MCCaptureOf
    Legacy <- MCLegacy
    Captors = {"captor"}
    Differs = {"differ"}
    BackfillLineage = TRUE
    MaxLines = 2
    MaxCrashes = 2
    \* Scoring.
    Names = {1, 2, 3, 4}
    Norm <- MCNorm
    Namespace <- MCNamespace
    FarmMinDependents = 2
    FarmMaxPopularity = 360
    \* Capture, assessment and their rules.
    Capability <- MCCapability
    KnownCores <- MCKnownCores
    Rules <- MCRuleset
INVARIANTS OrderBounded ScoresAgree StaleOnlyByRace OneExpansionPerPackage
           MissIsRecent NpmCursorSkipsNothing HeadSkipsNothing MergeKeepsStrongest
           StoreAgreesWithFile ImpactBounded MoreEvidenceNeverLowers LostIsUnremarkable
           FateFollowsPlan GrowsNearestFirst RebuildKeepsReady BackfillGivesBaseline
           LongstandingIsUnchanged MatchIsReal RefusalIsUnknown
PROPERTIES EvictsOldestReachable ScoresDropOnlyOnPublish RequestsSpaced
\* The bounds end every part; an input of the rules is a state of its own.
CHECK_DEADLOCK FALSE
