SPECIFICATION FairDiscoverySpec
CONSTANTS
    Cams = {c1, c2}
    Matches = {m1, m2}
    Offers = {m1}
    NoMatch = NoMatch
    NoCam = NoCam
    MaxRequests = 1
    MaxEvents = 2
    MaxChanges = 1
    Framed = {c1}
INVARIANTS
    CaptureIsTended
    CamerasAreOwned
    EndIsOfThisEncounter
    CandidatesAreAdded
    PageShowsTheServer
PROPERTY
    EndIsShown
CHECK_DEADLOCK FALSE
