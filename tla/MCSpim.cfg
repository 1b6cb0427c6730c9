SPECIFICATION Spec
CONSTANTS
    Line = {0, 1}
    Fd = {3, 4}
    FdOf <- TwoLines
    Key = {a}
    AttnKey = AttnKey
    NoInput = NoInput
    GuestChecksReady = TRUE
INVARIANTS TypeOK NoAssertFails LinesAgree ReadyDeviceRequests InterruptHasCause
CHECK_DEADLOCK FALSE
