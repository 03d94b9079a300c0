SPECIFICATION FairSpec
CONSTANTS
    Watches = {w1, w2}
    Procs = {p1}
    NoProc = NoProc
    Requests <- MCOneRequest
    Times <- MCTimes
    MaxActive = 2
    ShortBound = 1
    AllowShort = TRUE
    MaxShortRuns = 3
    MaxDisruptions = 1
PROPERTIES
    ChecksSettle
    DueIsServed
