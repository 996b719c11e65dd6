\* One web page and one app under fair scheduling of the threads.
SPECIFICATION FairSpec
CONSTANTS
    w1 = w1
    a1 = a1
    A = A
    NoId = NoId
    NoChannel = NoChannel
    NoTime = NoTime
    Webs = {w1}
    Apps = {a1}
    Clients = {w1, a1}
    Leavers = {w1}
    Channels = {A}
    MaxTimers = 2
    SleepCoversCallback = TRUE
    Binds <- AppBinds
    FieldForms = {TRUE, FALSE}
    Malformed = {"root", "id", "field"}
    Times = {NoTime}
    Frequency = 1
    DefaultDuration = 2
PROPERTIES
    ClosedIsDeregistered
    TasksEnd
CHECK_DEADLOCK FALSE
