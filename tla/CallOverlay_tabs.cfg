SPECIFICATION FairOverlaySpec
CONSTANTS
    Incoming = {a, b}
    Outgoing = o
    Video = TRUE
    Trickling = {o}
    Restless = {a}
INVARIANTS
    DeadHoldsNothing
    OneTabTalks
    NoCandidateWaits
PROPERTIES
    OverIsOver
    AnswerLeadsSomewhere
CHECK_DEADLOCK FALSE
