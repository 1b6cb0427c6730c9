SPECIFICATION FairSpec
CONSTANTS MaxSteps = 2
INVARIANTS TypeOK StopsWithinOneInstruction DebuggerOwnsMachine
PROPERTIES HaltedMachineExits DisconnectEndsProgram AttentionBringsPrompt
CHECK_DEADLOCK FALSE
