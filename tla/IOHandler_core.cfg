CONSTANTS
    Tasks = {a, b}
    Users = {u1, u2}
    Loop = Loop
    None = None
    Configs <- CoreConfigs
    Results = {"data", "eof", "error", "again", "etime"}
    Calls = {"SetNextTask"}
    MaxInflight = 2
    SqEntries = 4
    MaxCancels = 2
    SubmitFails = FALSE
    Recycle = FALSE
SPECIFICATION Spec
INVARIANTS  NoUseAfterFree InflightExact HandlerOnce ChainWaits
PROPERTY TimeoutMeansExpired
CHECK_DEADLOCK FALSE
