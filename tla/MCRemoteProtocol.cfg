SPECIFICATION Spec
CONSTANTS
    MaxCommands = 2
    MaxTimeouts = 1
PROPERTY GobblesOldPackets
CHECK_DEADLOCK FALSE
