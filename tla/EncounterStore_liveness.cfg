CONSTANTS
    Users = {u1, u2}
    Conns = {c1, c2}
    NoConn = NoConn
    Matches = {m1}
    NoMatch = NoMatch
    presenceTTL = 1
    reconnectGrace = 2
    encounterLength = 2
    matchTTL = 3
SPECIFICATION FairSpec
PROPERTIES
    EncounterEnds
    AbandonedIsCleared
