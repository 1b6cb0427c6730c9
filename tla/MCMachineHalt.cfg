SPECIFICATION Spec
CONSTANTS MaxSteps = 2
INVARIANT HaltDeviceHalts
CHECK_DEADLOCK FALSE
