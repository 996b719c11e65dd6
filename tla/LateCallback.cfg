\* A cleared task's callback outlasts the sleep of the override.
SPECIFICATION Spec
CONSTANTS
    w1 = w1
    a1 = a1
    A = A
    NoId = NoId
    NoChannel = NoChannel
    NoTime = NoTime
    Webs = {w1}
    Apps = {a1}
    Clients = {w1, a1}
    Leavers = {}
    Channels = {A}
    MaxTimers = 3
    SleepCoversCallback = FALSE
    Binds <- AppBinds
    FieldForms = {TRUE}
    Malformed = {}
    Times = {NoTime}
    Frequency = 1
    DefaultDuration = 2
SYMMETRY RoleSymmetry
VIEW WithoutOut
INVARIANTS
    OneRunningPerChannel
CHECK_DEADLOCK FALSE
