CONSTANTS
    Tasks = {a, b}
    Users = {u1, u2}
    Loop = Loop
    None = None
    Configs <- WaitConfigs
    Results = {"data"}
    Calls = {"SetNextTask", "WaitForCompletion", "RequestShutdown"}
    MaxInflight = 0
    SqEntries = 4
    MaxCancels = 2
    SubmitFails = FALSE
    Recycle = FALSE
SPECIFICATION PeerSpec
INVARIANTS WaitTruthful CompletionVisible
PROPERTIES   RepeatContinues ShutdownEnds
CHECK_DEADLOCK FALSE
