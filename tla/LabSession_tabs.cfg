SPECIFICATION FairLabSpec
CONSTANTS
    Sessions = {1, 2}
    Tabs = {1, 2}
    None = None
    MaxFaults = 1
    Muters = {1}
    Tricklers = {1}
    MaxPending = 1
INVARIANTS
    EndedHoldsNothing
    ViewIsOfTheSession
    PeerIsThereInTime
PROPERTY
    EndIsLearned
CHECK_DEADLOCK FALSE
