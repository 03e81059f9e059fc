SPECIFICATION FairCallsSpec
CONSTANTS
    Users = {u1, u2, u3}
    NoUser = none
    Calls = {c1, c2}
    NoCall = nocall
    ringTTL = 1
    talkTTL = 2
    slack = 1
CONSTRAINT TwoRequests
INVARIANTS
    LeaseOutlivesCall
    OneCallEach
    FreedInTime
PROPERTY UnlinkedCallEnds
