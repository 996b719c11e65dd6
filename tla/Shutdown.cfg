\* One web page and one app with a waveform; a signal comes at any moment.
SPECIFICATION FairShutdownSpec
CONSTANTS
    w1 = w1
    a1 = a1
    A = A
    NoId = NoId
    NoChannel = NoChannel
    NoTime = NoTime
    Webs = {w1}
    Apps = {a1}
    Clients = {w1, a1}
    Leavers = {w1, a1}
    Channels = {A}
    MaxTimers = 1
    SleepCoversCallback = TRUE
    Rank <- KeyOrder
    Binds <- AppBinds
    FieldForms = {TRUE, FALSE}
    Malformed = {}
    Times = {1, NoTime}
    Frequency = 1
    DefaultDuration = 2
INVARIANTS
    ShutdownTypeOK
    EntriesAreLive
PROPERTIES
    ShutdownEnds
CHECK_DEADLOCK FALSE
