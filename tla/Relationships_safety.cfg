CONSTANTS
    Users = {u1, u2}
    Conns = {c1}
    NoConn = NoConn
    Matches = {m1}
    NoMatch = NoMatch
    presenceTTL = 1
    reconnectGrace = 1
    encounterLength = 1
    matchTTL = 2
SPECIFICATION RelationsSpec
SYMMETRY Symmetry
VIEW WithoutRecent
CONSTRAINT TwoInFlight
INVARIANTS
    LinkedByMutualVotes
    PublishedIsPersisted
PROPERTY
    EndedStaysEnded
