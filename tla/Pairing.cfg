\* Two web pages and two apps that follow the protocol; no waveforms.
SPECIFICATION Spec
CONSTANTS
    w1 = w1
    w2 = w2
    a1 = a1
    a2 = a2
    NoId = NoId
    NoChannel = NoChannel
    NoTime = NoTime
    Webs = {w1, w2}
    Apps = {a1, a2}
    Clients = {w1, w2, a1, a2}
    Leavers = {w1, w2, a1, a2}
    Channels = {}
    MaxTimers = 0
    SleepCoversCallback = TRUE
    Binds <- AppBinds
    FieldForms = {TRUE}
    Malformed = {}
    Times = {}
    Frequency = 1
    DefaultDuration = 2
SYMMETRY RoleSymmetry
INVARIANTS
    TypeOK
    OnePartner
    PairedAreConnected
    NeverTerminates
PROPERTIES
    PartnerChangesAnnounced
    RelayStaysInPair
    ImplementsRegistry
CHECK_DEADLOCK FALSE
