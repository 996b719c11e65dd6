\* The app leaves while a waveform is sent to it.
SPECIFICATION Spec
CONSTANTS
    w1 = w1
    a1 = a1
    A = A
    NoId = NoId
    NoChannel = NoChannel
    NoTime = NoTime
    Webs = {w1}
    Apps = {a1}
    Clients = {w1, a1}
    Leavers = {a1}
    Channels = {A}
    MaxTimers = 1
    SleepCoversCallback = TRUE
    Binds <- AppBinds
    FieldForms = {TRUE}
    Malformed = {}
    Times = {NoTime}
    Frequency = 1
    DefaultDuration = 2
SYMMETRY RoleSymmetry
INVARIANTS
    NeverTerminates
CHECK_DEADLOCK FALSE
