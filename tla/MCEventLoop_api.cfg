\* Every library call, two priorities, interrupts at any time except inside
\* infra_evt_clear_ISR_pendingevent.
CONSTANTS
    EventMax = 3
    Creates = 2
    Prios = {0, 1}
    DefaultPrio = 1
    Calls = {"raise", "clear", "clear_ISR", "delete", "abort", "none"}
    Quiet = FALSE
    PurgeQuiet = TRUE
SPECIFICATION MCSpec
INVARIANTS TypeOK Partition NeverCrashed
PROPERTIES ImplementsEventSpec
