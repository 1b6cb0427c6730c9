SPECIFICATION FairSpec
CONSTANTS
    Line = {3}
    Fd = {4}
    FdOf <- ConsoleFd
    Key = {a}
    AttnKey = AttnKey
    NoInput = NoInput
    CsrInt = {"SystemInterfaceCSRInt"}
    MaxTriggers = 2
INVARIANTS TypeOK TimersRequest
PROPERTIES SerialRequestKept SerialRequestHasCause RtcTicks
CHECK_DEADLOCK FALSE
