\* A camera without faults, with and without the timer, stopped and started by
\* commands.
CONSTANTS
    Faults = {}
    RtcModes = {TRUE, FALSE}
    Commands = TRUE
    MaxErr = 3
    RtcRetry = 2
    RtcReboot = 3
    MaxPosts = 2
SPECIFICATION FairSpec
INVARIANTS FrameBufferStable
PROPERTIES TriggerAfterFrame KeepsCapturing StopHonoured
