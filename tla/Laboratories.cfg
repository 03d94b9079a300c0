CONSTANTS
    Sessions = {s1}
    Requests = {1, 2, 3, 4, 5}
    NoSession = NoSession
    Absent = Absent
    NoObject = NoObject
    LabSessions = {s1, s2}
    Permits = {p1, p2, p3}
    TableCapacity = 1
    Candidates = 2
    LabTurns = 2
    NoPermit = NoPermit
    NoRow = NoRow
    Gone = Gone
    MaxTasks = 2
    MaxChats = 2
    NKeys = 1
    MaxRevision = 1
    ProfileIds = {1, 2}
    MaxSends = 2
    NotLoaded = NotLoaded
    NoProfile = NoProfile
    NoState = NoState
    NoComparison = NoComparison
    MaxSlips = 1
    MaxLost = 2
    Nothing = Nothing
    Offsets <- MCOffsets
    LibraryOrder <- MCLibraryOrder
    AtOnce = 2
    FlowSlips = 1
    NoStatus = NoStatus
    VersionLists <- MCVersionLists
    MaxRuns = 3
    NoTelling = NoTelling
SPECIFICATION LaboratoriesSpec
INVARIANTS
    ContextIsWhole
    SummaryIsReadable
    PreparationsAreSound
    RunsAreSound
    ResultsAreHonest
    JudgementIsExact
    ChainIsTrue
    FlowIsTrue
    ClientIsHonest
PROPERTIES
    SummaryOnlyAdvances
    MemoryLabsAreSound
CHECK_DEADLOCK FALSE
