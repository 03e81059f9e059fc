SPECIFICATION OverlaySpec
CONSTANTS
    Incoming = {a, b}
    Outgoing = o
    Video = TRUE
    Trickling = {}
    Restless = {}
PROPERTY
    ToldDoesNotCancel
CHECK_DEADLOCK FALSE
