\* FIFO errors, which the application does not handle.
CONSTANTS
    Faults = {"CDM"}
    RtcModes = {FALSE}
    Commands = FALSE
    MaxErr = 3
    RtcRetry = 2
    RtcReboot = 3
    MaxPosts = 1
SPECIFICATION Spec
PROPERTIES FifoErrorRestarts
