\* Two web pages and an app, any of which may come and go during a round.
SPECIFICATION FairHeartbeatSpec
CONSTANTS
    Clients = {1, 2, 3}
    NoId = 0
    Leavers = {1, 2, 3}
    Pairs <- AppPairs
INVARIANTS
    HeartbeatTypeOK
    StatsAddUp
    RoundReachesAll
PROPERTIES
    ImplementsRegistry
    OnlyFreedNodeKills
    RoundsEnd
    HandlersEnd
CHECK_DEADLOCK FALSE
