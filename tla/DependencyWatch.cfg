SPECIFICATION WatchSafetySpec
CONSTANTS
    Watches = {w1, w2, w3}
    Procs = {p1, p2}
    NoProc = NoProc
    Requests <- MCQuotaRequests
    Times <- MCTimes
    MaxActive = 2
    ShortBound = 2
    AllowShort = TRUE
    MaxShortRuns = 2
    MaxDisruptions = 3
SYMMETRY Symmetry
INVARIANTS
    SlotsAndBudgets
    OwnershipHolds
    QuotaHeld
PROPERTIES
    HistoryIsAppendOnly
    ImplementsLedger
