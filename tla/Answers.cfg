\* Two actors in every part; a failed call in most of them.
CONSTANTS
    Parts = {"access", "proof", "reads", "logs", "jobs", "runs", "slots", "journal",
             "client"}
    p1 = p1
    p2 = p2
    g1 = g1
    g2 = g2
    w1 = w1
    l1 = l1
    l2 = l2
    l3 = l3
    l4 = l4

    \* CallerAccess
    Requests = {p1, p2}
    Logins = {l1, l2, l3, l4}
    WebLogins = {l3, l4}
    Nobody = Nobody
    Isolates = {w1}
    IsolateOf <- OneIsolate
    Clients = {"mac", "pc"}
    Scopes = {"protected"}
    ConfigTtl = 1
    OrgTtl = 1
    SessionTtl = 1
    StateTtl = 0
    MaxEntries = 2
    KeptTokens = 0
    MaxTime = 2
    MaxFaults = 1

    \* PublicProof
    Guards = {g1, g2}
    NoGuard = NoGuard
    ModesOf <- GuardModes
    PublicTtl = 1
    PrivateTtl = 2
    ProbeLimit = 1
    LastTick = 2
    MaxMishaps = 1

    \* CacheReads
    Readers = {p1, p2}
    Pool <- TwoIdentities
    Routes <- SomeRoutes
    MaxAges <- SomeAges
    Claimed <- SomeClaims
    ClaimTtl = 1
    CallLimit = 0
    Jumps = {1}
    Horizon = 2
    MaxVersion = 1
    MaxSlips = 1

    \* TerminalLogs
    Askers = {p1, p2}
    Ages = {0, 1, 3}
    LogTtl = 2
    LogRevalidate = 1
    AskLimit = 0
    ProofLimit = 1
    MaxProofs = 1
    LastHour = 2
    MaxLosses = 1

    \* JobLists
    Collectors = {p1, p2}
    PageSize = 2
    MaxApiJobs = 3
    Asked <- SomeJobRequests
    Listings <- SomeListings
    LastAttempt = 2
    MaxJobs = 3
    LastSecond = 1
    JobsTtl = 1
    RunTtl = 2

    \* RunLists
    SmallPage = 1
    BigPage = 3
    DefaultPage = 2
    Sizes = {1, 2, 4}
    Runs <- SomeRuns
    Branches = {"main"}
    Statuses = {"success"}
    MaxRuns = 4

    \* RelaySlots
    Processes = {p1, p2}
    NoProcess = NoProcess
    Count = 1
    Sandboxes <- SomeSandboxes
    Wait = 1
    LastBeat = 2
    MaxInode = 2
    MaxSnags = 1

    \* NativeJournal
    Writers = {p1, p2}
    NoWriter = NoWriter
    Limit = 1
    MaxLines = 6
    MaxStops = 2

    \* RelayClient
    ReadLimit = 4
    RetryDelay = 1
    Base = 1
    OverloadWait = 3
    Settings <- SomeSettings
    Policies <- SomePolicies
    LastMoment = 2
    MaxChanges = 1
    MaxPages = 2
SPECIFICATION AnswersSpec
SYMMETRY Symmetry
CHECK_DEADLOCK FALSE
INVARIANTS
    RevokedTokensStop
    
    PrivateReposStopBeingServed
    OwnEvidenceStands
    AnswersAreYoung
    ClaimsExpire
    DeletedLogsStopBeingServed
    OnlyProvenLogsEnter
    
    RunListsAreExact
    SharedBudget
    JournalKeepsItsTail
    SummariesCountOnce
    NativeOnlyAfterRefusal
    OwnCancellationIsNotReported
    OverloadedReadsEndInTime
    CallsArePermitted
