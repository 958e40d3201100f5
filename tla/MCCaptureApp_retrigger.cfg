\* One error that is handled, without the timer.
CONSTANTS
    Faults = {"XDMA"}
    RtcModes = {FALSE}
    Commands = FALSE
    MaxErr = 3
    RtcRetry = 2
    RtcReboot = 3
    MaxPosts = 1
SPECIFICATION Spec
PROPERTIES TriggerAfterFrame
