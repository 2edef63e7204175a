----------------------------- MODULE MCIOHandler -----------------------------
(***************************************************************************)
(* Option settings of the tasks in the runs of IOHandler.                   *)
(***************************************************************************)
EXTENDS IOHandler

Option(type, timeout, retry, repeat) ==
    [type |-> type, timeout |-> timeout, retry |-> retry, repeat |-> repeat]

OneShot == Option("io", FALSE, -1, FALSE)
Repeating == Option("io", FALSE, -1, TRUE)
Unsupported == Option("none", FALSE, -1, FALSE)
Timed == Option("io", TRUE, -1, FALSE)
Retrying == Option("io", FALSE, 2, FALSE)

OneShotConfigs == {OneShot}
RetryConfigs == {Retrying}
TimedConfigs == {OneShot, Timed}
WaitConfigs == {OneShot, Repeating}
CoreConfigs == {OneShot, Repeating, Unsupported, Retrying, Timed}
=============================================================================
