SPECIFICATION Spec
CONSTANTS
    Line = {0, 1}
    Fd = {3, 4}
    FdOf <- TwoLines
    Key = {a}
    AttnKey = AttnKey
    NoInput = NoInput
    GuestChecksReady = FALSE
PROPERTY UnreadyReadReturnsData
CHECK_DEADLOCK FALSE
