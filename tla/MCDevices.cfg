\* A ring of 8 blocks, callbacks every second or third one, two recordings of
\* three laps each told apart.
CONSTANTS
    N = 8
    Steps = 3
    Takes = 2
    MinGap = 2
    MaxGap = 3
    Slack = 1
    Dp = {"FRAME_READY"}
    Rs = {"RSDMA_FINISH"}
    Hog = {}
    Pins = {"PGPIO0"}
    Channels = {"ADC_CH0"}
    Functions = {"f", "g"}
    NoFunction = "NULL"
    Values = {"low", "high"}
    Programs <- DevicePrograms
    MaxPosts = 2
SPECIFICATION DevicesSpec
INVARIANTS TypeOK FlagMeansSaved ClipIsGapless OwnInterruptsOnly
PROPERTIES RecordingEnds ToldTheNewest StoppedTimerIsSilent 
