CONSTANTS
    Documents = {a, b}
    Texts = {t1, t2}
    EmbeddingModels = {e1, e2}
    FolderEdits = 3
    IndexCommands = 2
    NoText = NoText
    Unread = Unread
    NoIndex = NoIndex
    AllMarkdown = AllMarkdown
    Kept = Kept
    ModelOrder <- MCModelOrder
    SuiteScenarios <- MCSuite
    CandidateScenarios <- MCCandidates
    MaxCalls = 4
    MaxMinutes = 3
    Overrun = 1
    Files = {"ledger", "variants"}
    Ledger = "ledger"
    DriverCommands = 2
    NoScenario = NoScenario
SPECIFICATION LocalAssistantSpec
SYMMETRY Renamings
INVARIANTS
    GateHolds
PROPERTIES
    IndexIsSound
CHECK_DEADLOCK FALSE
