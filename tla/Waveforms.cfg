\* One web page and two apps that reconnect to it in turn, with waveforms on one
\* channel; an override waits for callbacks in flight.
SPECIFICATION Spec
CONSTANTS
    w1 = w1
    a1 = a1
    a2 = a2
    A = A
    NoId = NoId
    NoChannel = NoChannel
    NoTime = NoTime
    Webs = {w1}
    Apps = {a1, a2}
    Clients = {w1, a1, a2}
    Leavers = {w1, a1, a2}
    Channels = {A}
    MaxTimers = 2
    SleepCoversCallback = TRUE
    Binds <- AppBinds
    FieldForms = {TRUE}
    Malformed = {}
    Times = {1, NoTime}
    Frequency = 1
    DefaultDuration = 2
SYMMETRY RoleSymmetry
VIEW WithoutOut
INVARIANTS
    RunningIsTracked
    OneRunningPerChannel
    RunningServesPair
    PredecessorIsSilent
PROPERTIES
    ImplementsWaveforms
    OnlyWaveformsEndProcess
CHECK_DEADLOCK FALSE
