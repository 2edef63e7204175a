\* One waiting thread (the owner of the task, which also resubmits it), two
\* signalers.
CONSTANTS
    Waiters = {w1}
    Signalers = {s1, s2}
    Resetters = {w1}
    Modes = {"forever", "poll", "timed"}
    NoThread = NoThread
SPECIFICATION FairSpec
INVARIANT NotifyOwed
PROPERTIES ParkedWaiterWakes TimedWaitReturns
