\* Every example on up to three files, two of them open at once.
SPECIFICATION Spec
CONSTANTS
    MaxFd = 2
    MaxFiles = 3
    MaxData = 2
    Ports = {8081, 65536}
    Programs = {"server", "tcp_wr", "tcp_client", "file_write", "task_chain", "custom_handler", "read_large_file", "signal_shutdown", "timeout_retry"}
INVARIANTS Accounted ClosesOwn CallablesOwned
PROPERTIES GoneReleased 
\* The programs end, and some of them wait for ever.
CHECK_DEADLOCK FALSE
