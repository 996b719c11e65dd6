\* The io thread stops a task whose thread is ending.
SPECIFICATION Spec
CONSTANTS
    w1 = w1
    a1 = a1
    A = A
    NoId = NoId
    NoChannel = NoChannel
    NoTime = NoTime
    Webs = {w1}
    Apps = {a1}
    Clients = {w1, a1}
    Leavers = {}
    Channels = {A}
    MaxTimers = 2
    SleepCoversCallback = TRUE
    Binds <- AppBinds
    FieldForms = {TRUE}
    Malformed = {}
    Times = {NoTime}
    Frequency = 1
    DefaultDuration = 2
SYMMETRY RoleSymmetry
INVARIANTS
    TimerMapGuarded
CHECK_DEADLOCK FALSE
