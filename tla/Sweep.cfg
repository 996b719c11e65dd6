\* Two channels of one pair: waveforms end and are replaced beside those that
\* cleanupAll() has yet to reach.
SPECIFICATION WavingSpec
CONSTANTS
    w1 = w1
    a1 = a1
    A = A
    B = B
    NoId = NoId
    NoChannel = NoChannel
    NoTime = NoTime
    Webs = {w1}
    Apps = {a1}
    Clients = {w1, a1}
    Leavers = {}
    Channels = {A, B}
    MaxTimers = 3
    SleepCoversCallback = TRUE
    Rank <- KeyOrder
    Binds = {}
    FieldForms = {TRUE}
    Malformed = {}
    Times = {NoTime}
    Frequency = 1
    DefaultDuration = 2
VIEW WithoutOut
INVARIANTS
    SweepStopsTracked
CHECK_DEADLOCK FALSE
