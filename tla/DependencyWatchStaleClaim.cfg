SPECIFICATION AwaitSpec
CONSTANTS
    Watches = {w1, w2}
    Procs = {p1, p2}
    NoProc = NoProc
    Requests <- MCRequests
    Times <- MCTimes
    MaxActive = 2
    ShortBound = 2
    AllowShort = TRUE
    MaxShortRuns = 3
    MaxDisruptions = 2
SYMMETRY Symmetry
PROPERTIES
    LastDueSlotIsClaimed
