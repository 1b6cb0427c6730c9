SPECIFICATION FairSpec
CONSTANTS
    Line = {0, 1}
    Fd = {3}
    FdOf <- OneLine
    Key = {a}
    AttnKey = AttnKey
    NoInput = NoInput
    GuestChecksReady = TRUE
PROPERTIES DisplayRecovers InputIsRead KeyboardRequestsInTheEnd
CHECK_DEADLOCK FALSE
