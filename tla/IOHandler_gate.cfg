CONSTANTS
    Tasks = {a, b}
    Users = {u1, u2}
    Loop = Loop
    None = None
    Configs <- OneShotConfigs
    Results = {"data"}
    Calls = {"DoubleSubmit"}
    MaxInflight = 1
    SqEntries = 4
    MaxCancels = 2
    SubmitFails = FALSE
    Recycle = FALSE
SPECIFICATION Spec
INVARIANTS OneOperation LimitRespected
CHECK_DEADLOCK FALSE
