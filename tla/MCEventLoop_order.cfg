\* Two priorities, three created events, processing functions that raise, clear
\* and return NONE; an interrupt source waits for its event to be handled.
CONSTANTS
    EventMax = 4
    Creates = 3
    Prios = {0, 1}
    DefaultPrio = 1
    Calls = {"raise", "clear", "clear_ISR", "none"}
    Quiet = TRUE
    PurgeQuiet = TRUE
SPECIFICATION MCFairSpec
INVARIANTS Sorted HeadIsRunning
PROPERTIES PurgeRemoves BoundedOvertaking UrgentEventHandled
