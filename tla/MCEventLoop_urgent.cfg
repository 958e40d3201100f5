\* A processing function raises an event more urgent than its own.
CONSTANTS
    EventMax = 3
    Creates = 2
    Prios = {0, 1}
    DefaultPrio = 1
    Calls = {"raise", "urgent"}
    Quiet = TRUE
    PurgeQuiet = TRUE
SPECIFICATION MCSpec
PROPERTIES ClearAfterExecution
