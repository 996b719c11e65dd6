\* An int of eleven bits; frequencies whose period is exact, rounded, zero or undefined.
SPECIFICATION FairConfigSpec
CONSTANTS
    NoTime = NoTime
    NotNumber = NotNumber
    MaxInt = 1023
    Ports <- SomePorts
    Intervals = {1000, NotNumber}
    Frequencies <- SomeFrequencies
    Durations = {1, NotNumber}
    Times <- SomeTimes
INVARIANTS
    ConfigTypeOK
    ScheduleFitsTime
    PulsesAsAsked
PROPERTIES
    WaveformsEnd
CHECK_DEADLOCK FALSE
