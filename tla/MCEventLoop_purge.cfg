\* infra_evt_clear_ISR_pendingevent with the interrupts the code leaves enabled.
CONSTANTS
    EventMax = 3
    Creates = 2
    Prios = {0}
    DefaultPrio = 0
    Calls = {"clear_ISR"}
    Quiet = TRUE
    PurgeQuiet = FALSE
SPECIFICATION MCSpec
PROPERTIES PostedKept
