SPECIFICATION Spec
CONSTANTS
    W = 12
    HostShift = "arithmetic"
    BigEndian = FALSE
    PageSize = 16
    TlbEntries = 4
    RandomLower = 1
    RandomUpper = 3
    GPR <- Regs
    Code <- Image
    Data <- Words
    AckRegister = 128
    ResetPc = 2720
    BootBase = 2960
    GeneralVector = 32
    Asynchronous = TRUE
    UserPage <- Pages
    UserRegs <- ProgramRegs
    UserEntry = 24
    EntryRegs <- FirstRegs
    UserWritable = {48}
INVARIANTS ArithmeticExact TypeOK SlotFollowsBranch ModeMatchesCode
PROPERTIES SystemKeeps WiredKept RunsUserProgram
