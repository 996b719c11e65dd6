\* The io thread renews a pairing between the unlocked reads and the locked erases
\* of unpair on the signal thread.
SPECIFICATION ShutdownSpec
CONSTANTS
    w1 = w1
    a1 = a1
    a2 = a2
    NoId = NoId
    NoChannel = NoChannel
    NoTime = NoTime
    Webs = {w1}
    Apps = {a1, a2}
    Clients = {w1, a1, a2}
    Leavers = {w1, a1, a2}
    Channels = {}
    MaxTimers = 0
    SleepCoversCallback = TRUE
    Rank <- KeyOrder
    Binds <- AppBinds
    FieldForms = {TRUE}
    Malformed = {}
    Times = {NoTime}
    Frequency = 1
    DefaultDuration = 2
INVARIANTS
    PairingsInverse
CHECK_DEADLOCK FALSE
