CONSTANTS
    Users = {u1, u2}
    Conns = {c1, c2}
    NoConn = NoConn
    Matches = {m1}
    NoMatch = NoMatch
    presenceTTL = 2
    reconnectGrace = 1
    encounterLength = 1
    matchTTL = 2
    readTimeout = 1
SPECIFICATION SocketSpec
SYMMETRY Symmetry
VIEW Relevant
CONSTRAINT ThreeHandlers
INVARIANTS
    ServedIsNotTimed
    PresenceIsHandled
PROPERTY CleanupIsOwn
