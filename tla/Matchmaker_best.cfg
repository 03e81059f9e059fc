CONSTANTS
    Users = {u1, u2, u3}
    Conns = {c1}
    NoConn = NoConn
    Matches = {m1}
    NoMatch = NoMatch
    presenceTTL = 1
    reconnectGrace = 1
    encounterLength = 1
    matchTTL = 1
    Preferences <- Interests
    listLimit = 3
SPECIFICATION QuietSpec
SYMMETRY Symmetry
PROPERTY
    BestIsClaimed
