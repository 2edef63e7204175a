CONSTANTS
    Tasks = {a, b}
    Users = {u1}
    Loop = Loop
    None = None
    Configs <- TimedConfigs
    Results = {"data", "error", "etime"}
    Calls = {"Cancel", "Flush"}
    MaxInflight = 0
    SqEntries = 2
    MaxCancels = 2
    SubmitFails = TRUE
    Recycle = FALSE
SPECIFICATION Spec
INVARIANTS TypeOK HandlerOnce
 
CHECK_DEADLOCK FALSE
