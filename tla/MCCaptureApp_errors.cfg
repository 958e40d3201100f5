\* Every error the application handles, at any time.
CONSTANTS
    Faults = {"XDMA", "WDT", "PARSER"}
    RtcModes = {TRUE, FALSE}
    Commands = TRUE
    MaxErr = 3
    RtcRetry = 2
    RtcReboot = 3
    MaxPosts = 1
SPECIFICATION FairSpec
INVARIANTS TypeOK 
   
