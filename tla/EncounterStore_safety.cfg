CONSTANTS
    Users = {u1, u2}
    Conns = {c1, c2}
    NoConn = NoConn
    Matches = {m1, m2}
    NoMatch = NoMatch
    presenceTTL = 1
    reconnectGrace = 2
    encounterLength = 2
    matchTTL = 3
SPECIFICATION Spec
SYMMETRY Symmetry
INVARIANTS
    TypeOK
    MappedToLiveMatch
    QueuedIsUnmatched
    SchedulesAgree
PROPERTY
    StoreImplementsEncounter
