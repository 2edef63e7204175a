\* One IOHandler and two tasks over a two-entry queue; a signal may interrupt the
\* main thread anywhere.
SPECIFICATION Spec
CONSTANTS
    io1 = io1
    t1 = t1
    t2 = t2
    Main = Main
    None = None
    Ios = {io1}
    Tasks = {t1, t2}
    Entries = 2
    CqEntries = 2
    Takers = {Main}
    Kinds = {"io", "connect", "unsupported"}
    InitFails = TRUE
    SigactionFails = {"SIGINT"}
    MaxSignals = 1
    Overlap = FALSE
SYMMETRY TaskSymmetry
INVARIANTS InsideLive   Restored 
\* The program destroys its last object, and stops.
CHECK_DEADLOCK FALSE
