CONSTANTS
    Waiters = {w1}
    Signalers = {s1}
    Resetters = {}
    Modes = {"forever"}
    NoThread = NoThread
SPECIFICATION FairSpec
PROPERTIES SignaledWaitReturns
