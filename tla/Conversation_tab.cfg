SPECIFICATION FairTalkSpec
CONSTANTS
    Texts = {hello}
    NoText = NoText
    PageSize = 1
    History = 1
    Shares = TRUE
    MaxMessages = 3
    MaxDrafts = 2
    MaxFailures = 1
INVARIANTS
    ReadWasShown
    RetryStoresOnce
PROPERTIES
    EndedStaysQuiet
    EarlierIsOffered
    MessageIsShown
    NoticeGoesAway
CHECK_DEADLOCK FALSE
