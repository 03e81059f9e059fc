CONSTANTS
    Users = {u1, u2}
    Conns = {c1, c2}
    NoConn = NoConn
    Matches = {m1}
    NoMatch = NoMatch
    presenceTTL = 1
    reconnectGrace = 1
    encounterLength = 1
    matchTTL = 1
    Preferences <- Intents
    listLimit = 3
SPECIFICATION BusySpec
SYMMETRY Symmetry
VIEW WaitingWants
CONSTRAINT TwoSearches
INVARIANT
    NoMissedPair
