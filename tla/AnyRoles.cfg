\* Three clients, each of which may bind itself to any client in either role.
SPECIFICATION Spec
CONSTANTS
    c1 = c1
    c2 = c2
    c3 = c3
    NoId = NoId
    NoChannel = NoChannel
    NoTime = NoTime
    Webs = {c1, c2, c3}
    Apps = {}
    Clients = {c1, c2, c3}
    Leavers = {c1, c2, c3}
    Channels = {}
    MaxTimers = 0
    SleepCoversCallback = TRUE
    Binds <- AnyBinds
    FieldForms = {TRUE, FALSE}
    Malformed = {"root", "id", "field"}
    Times = {}
    Frequency = 1
    DefaultDuration = 2
SYMMETRY RoleSymmetry
INVARIANTS
    PairingsInverse
    RegisteredWhileConnected
CHECK_DEADLOCK FALSE
